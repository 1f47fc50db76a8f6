---------------------------- MODULE CoverManager ----------------------------
(***************************************************************************)
(* CoverManager (src/nicett6/cover_manager.py): the message tracker, which *)
(* hands every message to the cover that it is about, and the coroutines   *)
(* that open, close and reconnect the manager and add and remove covers    *)
(* meanwhile.                                                              *)
(*                                                                         *)
(* The connection is abstracted to the tracker's reader, a queue that ends *)
(* with a sentinel, and whether its link is open (SerialConnection has the *)
(* rest: a link lost, or closed, leaves the readers), and a cover to whether *)
(* its notifier's task is there (Cover has the rest).  A message is the    *)
(* address that it comes from, and says that the cover there moves: one    *)
(* that moves no cover (the acknowledgement of a stop) is the Stranger's.  *)
(* An action is what one coroutine does between two suspensions.  The      *)
(* manager is opened again only when the message tracker of the previous   *)
(* session has ended, as in the README's example.  An address always has   *)
(* the same Cover.                                                         *)
(***************************************************************************)
EXTENDS Naturals, Sequences, FiniteSets

CONSTANTS
    Users,          \* the coroutines that use the manager
    Addrs,          \* the addresses of the covers
    Stranger,       \* an address that no cover has
    Sentinel,       \* the end of the reader's queue
    MaxMsgs         \* bound: messages received in a session

ASSUME ManagerAssumption ==
    /\ Stranger \notin Addrs
    /\ Sentinel \notin Addrs \cup {Stranger}
    /\ MaxMsgs \in Nat

VARIABLES
    conn,       \* self._conn is not None; self._writer neither
    link,       \* the link of the connection is open
    reader,     \* the tracker's reader: "none", "live" or "stopped"
    queue,      \* its queue
    covers,     \* the keys of self._tt6_covers_dict
    notifier,   \* the task that will set each cover idle: "none", "live" or "failed"
    tracker,    \* where message_tracker() is suspended
    subject,    \* the cover that the tracker is handling a message for
    pc,         \* where each user is suspended
    target,     \* the cover whose notifier a user is stopping
    dict,       \* the dict that a user iterates over in remove_covers() ...
    visited,    \* ... the covers it has dealt with ...
    stale,      \* ... and whether another user has replaced that dict
    received,   \* history: messages received since open() had its reader ...
    handled,    \* ... and those the tracker has taken from it
    missed      \* history: covers that moved last while they were being removed, or
                \* later; and those that somebody removed who did not know of them

sessionVars == <<conn, link, reader, received>>
trackVars == <<queue, tracker, subject, handled>>
removeVars == <<target, dict, visited, stale>>
coverVars == <<covers, notifier, missed>>
vars == <<sessionVars, trackVars, removeVars, coverVars, pc>>

Removing == {"removing", "closing"}

Init ==
    /\ conn = FALSE /\ link = FALSE
    /\ reader = "none"
    /\ queue = <<>>
    /\ covers = {}
    /\ notifier = [a \in Addrs |-> "none"]
    /\ tracker = "off"
    /\ subject = Stranger
    /\ pc = [u \in Users |-> "ready"]
    /\ target = [u \in Users |-> Stranger]
    /\ dict = [u \in Users |-> {}]
    /\ visited = [u \in Users |-> {}]
    /\ stale = [u \in Users |-> FALSE]
    /\ received = 0
    /\ handled = 0
    /\ missed = {}

-----------------------------------------------------------------------------
(* open *)

Open(u) ==
    /\ pc[u] = "ready"
    /\ ~conn /\ reader = "none"
    /\ \A v \in Users : pc[v] # "opening"
    /\ pc' = [pc EXCEPT ![u] = "opening"]
    /\ UNCHANGED <<sessionVars, trackVars, removeVars, coverVars>>

\* open_tt6() returns: the reader is added at once, then the web commands are
\* turned on
Opened(u) ==
    /\ pc[u] = "opening"
    /\ conn' = TRUE /\ link' = TRUE
    /\ reader' = "live"
    /\ received' = 0
    /\ handled' = 0
    /\ pc' = [pc EXCEPT ![u] = "sending"]
    /\ UNCHANGED <<queue, tracker, subject, removeVars, coverVars>>

OpenFails(u) ==
    /\ pc[u] = "opening"
    /\ pc' = [pc EXCEPT ![u] = "ready"]
    /\ UNCHANGED <<sessionVars, trackVars, removeVars, coverVars>>

\* A write of the user's returns, or has raised
Sent(u) ==
    /\ pc[u] = "sending"
    /\ pc' = [pc EXCEPT ![u] = "ready"]
    /\ UNCHANGED <<sessionVars, trackVars, removeVars, coverVars>>

-----------------------------------------------------------------------------
(* reconnect *)

\* connect() begins with disconnect(); the assertion holds
Reconnect(u) ==
    /\ pc[u] = "ready" /\ conn
    /\ link' = FALSE
    /\ pc' = [pc EXCEPT ![u] = "reconnecting"]
    /\ UNCHANGED <<conn, reader, received, trackVars, removeVars, coverVars>>

\* The link is open again, or could not be opened.  WEB_ON is not sent again.
Reconnected(u) ==
    /\ pc[u] \in {"reconnecting", "orphaned"}
    /\ pc' = [pc EXCEPT ![u] = "ready"]
    /\ link' = (link \/ pc[u] = "reconnecting") \/ link' = link
    /\ UNCHANGED <<conn, reader, received, trackVars, removeVars, coverVars>>

-----------------------------------------------------------------------------
(* add_cover, remove_covers, close *)

\* Mutant: the writer is not looked at
HasWriter_Always == TRUE

\* add_cover() raises RuntimeError if it is not so
HasWriter == conn

AddCover(u, a) ==
    /\ pc[u] = "ready"
    /\ HasWriter
    /\ covers' = covers \cup {a}
    /\ pc' = [pc EXCEPT ![u] = "sending"]
    /\ UNCHANGED <<sessionVars, trackVars, removeVars, notifier, missed>>

\* Mutant: the connection is closed, but the reader is not removed
EndSession_KeepsReader ==
    /\ conn' = FALSE /\ link' = FALSE
    /\ UNCHANGED <<reader, queue>>

\* What close() does once the covers are removed
EndSession ==
    /\ conn' = FALSE /\ link' = FALSE
    /\ IF reader = "live"
       THEN reader' = "stopped" /\ queue' = Append(queue, Sentinel)
       ELSE UNCHANGED <<reader, queue>>

\* Who is reconnecting goes on with a connection that the manager has let go
Orphaned == [v \in Users |-> IF pc[v] = "reconnecting" THEN "orphaned" ELSE pc[v]]

\* moved() or stop_notifier() of the cover a has the lock of its notifier, and has
\* cancelled the task, if there was one
Locked(a) ==
    \/ tracker = "arming" /\ subject = a
    \/ \E v \in Users : pc[v] \in Removing /\ target[v] = a

\* stop_notifier() of a has something to wait for, a task to cancel or the lock ...
Busy(a, tasks) == tasks[a] = "live" \/ Locked(a)

\* ... or nothing: it returns at once
Free(a, tasks) == tasks[a] = "none" /\ ~Locked(a)

\* An exception ends remove_covers() or close() where it is
RemovalRaises(u) ==
    /\ pc' = [pc EXCEPT ![u] = "ready"]
    /\ target' = [target EXCEPT ![u] = Stranger]
    /\ dict' = [dict EXCEPT ![u] = {}]
    /\ visited' = [visited EXCEPT ![u] = {}]
    /\ UNCHANGED <<conn, link, reader, queue, covers, stale, missed>>

\* User u goes on with remove_covers(), or with close() if then = "closing", over
\* the dict d, of which it has dealt with seen, the notifiers being tasks: it waits
\* for the next cover that is busy, or comes to one whose task has failed, and
\* stop_notifier() raises what the task raised, or there is neither
Proceed(u, then, d, seen, tasks) ==
    \/ \E a \in d \ seen :
          /\ Busy(a, tasks)
          /\ \E skipped \in SUBSET {b \in d \ seen : Free(b, tasks)} :
                visited' = [visited EXCEPT ![u] = seen \cup skipped \cup {a}]
          /\ target' = [target EXCEPT ![u] = a]
          /\ dict' = [dict EXCEPT ![u] = d]
          /\ pc' = [pc EXCEPT ![u] = then]
          /\ UNCHANGED <<conn, link, reader, queue, covers, stale, missed>>
    \/ /\ \E a \in d \ seen : tasks[a] = "failed"
       /\ RemovalRaises(u)
    \/ /\ \A a \in d \ seen : Free(a, tasks)
       /\ covers' = {}
       /\ missed' = missed \cup (covers \ d)
       /\ visited' = [visited EXCEPT ![u] = {}]
       /\ target' = [target EXCEPT ![u] = Stranger]
       /\ dict' = [dict EXCEPT ![u] = {}]
       /\ stale' = [v \in Users |-> v # u /\ pc[v] \in Removing]
       /\ IF then = "closing" /\ conn
          THEN EndSession /\ pc' = [Orphaned EXCEPT ![u] = "ready"]
          ELSE pc' = [pc EXCEPT ![u] = "ready"] /\ UNCHANGED <<conn, link, reader, queue>>

Remove(u, then) ==
    /\ pc[u] = "ready"
    /\ Proceed(u, then, covers, {}, notifier)
    /\ UNCHANGED <<tracker, subject, notifier, received, handled>>

\* Mutant: the notifier's task is not cancelled
NotifierStopped_Not(u) == notifier

\* The task that was cancelled has ended: one that is cancelled does not fail
NotifierStopped(u) == [notifier EXCEPT ![target[u]] = "none"]

\* stop_notifier() returns.  "RuntimeError: dictionary changed size during
\* iteration" ends the call there, if a cover was added to the same dict.
Stopped(u) ==
    /\ pc[u] \in Removing
    /\ notifier' = NotifierStopped(u)
    /\ IF ~stale[u] /\ Cardinality(covers) # Cardinality(dict[u])
       THEN RemovalRaises(u)
       ELSE Proceed(u, pc[u], dict[u], visited[u], notifier')
    /\ UNCHANGED <<tracker, subject, received, handled>>

-----------------------------------------------------------------------------
(* message_tracker *)

\* A message arrives for the reader
Receive(m) ==
    /\ reader = "live" /\ link
    /\ received < MaxMsgs
    /\ received' = received + 1
    /\ queue' = Append(queue, m)
    /\ UNCHANGED <<conn, link, reader, tracker, subject, handled, removeVars, coverVars,
                   pc>>

\* The user runs the tracker, perhaps again after it has failed
StartTracker ==
    /\ tracker = "off" /\ reader = "live"
    /\ tracker' = "waiting"
    /\ UNCHANGED <<sessionVars, queue, subject, handled, removeVars, coverVars,
                   pc>>

\* _handle_response_message() knows the cover
Tracked(m) == m \in covers

\* The next message: about a cover, which moves (and moved() raises at once, which
\* ends the tracker, if the task of its notifier has failed), or about none that is
\* known, or the end
TakeMessage ==
    /\ tracker = "waiting" /\ queue # <<>>
    /\ queue' = Tail(queue)
    /\ \/ /\ Head(queue) = Sentinel
          /\ tracker' = "off"
          /\ reader' = "none"
          /\ UNCHANGED <<subject, handled>>
       \/ /\ Head(queue) # Sentinel
          /\ handled' = handled + 1
          /\ UNCHANGED reader
          /\ \/ /\ ~Tracked(Head(queue))
                /\ UNCHANGED <<tracker, subject>>
             \/ /\ Tracked(Head(queue)) /\ notifier[Head(queue)] = "failed"
                /\ tracker' = "off" /\ UNCHANGED subject
             \/ /\ Tracked(Head(queue)) /\ notifier[Head(queue)] # "failed"
                /\ tracker' = "arming" /\ subject' = Head(queue)
    /\ UNCHANGED <<conn, link, received, removeVars, coverVars, pc>>

\* Somebody is removing the cover a, or has removed it
BeingRemoved(a) ==
    a \notin covers \/ \E u \in Users : pc[u] \in Removing /\ a \in dict[u]

\* The cover's notifier has started its task, and the observers are next
Arm ==
    /\ tracker = "arming"
    /\ notifier' = [notifier EXCEPT ![subject] = "live"]
    /\ tracker' = "updating"
    /\ subject' = Stranger
    /\ missed' = IF BeingRemoved(subject) THEN missed \cup {subject} ELSE missed \ {subject}
    /\ UNCHANGED <<sessionVars, queue, handled, removeVars, covers, pc>>

\* The observers have returned; or one has raised, which ends the tracker
Updated ==
    /\ tracker = "updating"
    /\ \/ tracker' = "waiting"
       \/ tracker' = "off"
    /\ UNCHANGED <<sessionVars, queue, subject, handled, removeVars, coverVars,
                   pc>>

\* The notifier's task sets the cover idle, and ends, or fails with what an observer
\* has raised
SetIdle(a) ==
    /\ notifier[a] = "live" /\ ~Locked(a)
    /\ \E end \in {"none", "failed"} : notifier' = [notifier EXCEPT ![a] = end]
    /\ UNCHANGED <<sessionVars, trackVars, removeVars, covers, missed, pc>>

\* The device goes, or closes the link
LoseLink ==
    /\ link /\ link' = FALSE
    /\ UNCHANGED <<conn, reader, received, trackVars, removeVars, coverVars, pc>>

\* A session whose tracker has failed is over: its reader is forgotten
Forget ==
    /\ reader = "stopped" /\ tracker = "off"
    /\ reader' = "none"
    /\ queue' = <<>>
    /\ UNCHANGED <<conn, link, received, tracker, subject, handled, removeVars, coverVars,
                   pc>>

-----------------------------------------------------------------------------
User(u) ==
    \/ Open(u) \/ Opened(u) \/ OpenFails(u) \/ Sent(u)
    \/ Reconnect(u) \/ Reconnected(u)
    \/ \E a \in Addrs : AddCover(u, a)
    \/ Remove(u, "removing") \/ Remove(u, "closing") \/ Stopped(u)

Tracker == TakeMessage \/ Arm \/ Updated

Next ==
    \/ \E u \in Users : User(u)
    \/ \E m \in Addrs \cup {Stranger} : Receive(m)
    \/ StartTracker \/ Tracker \/ Forget \/ LoseLink
    \/ \E a \in Addrs : SetIdle(a)

Spec == Init /\ [][Next]_vars

\* The event loop runs what is ready: stop_notifier() returns or raises
\* (NotifierReturns of Cover), and so do moved() and the observers.  What the users
\* ask for, whether messages come, and whether a port ever opens, is open.
Fairness ==
    /\ \A u \in Users : WF_vars(Stopped(u))
    /\ WF_vars(Tracker)

FairSpec == Spec /\ Fairness

-----------------------------------------------------------------------------
(* Properties *)

\* Every variable has the type its declaration gives it.
TypeOK ==
    /\ conn \in BOOLEAN /\ link \in BOOLEAN
    /\ reader \in {"none", "live", "stopped"}
    /\ queue \in Seq(Addrs \cup {Stranger, Sentinel})
    /\ covers \subseteq Addrs
    /\ notifier \in [Addrs -> {"none", "live", "failed"}]
    /\ tracker \in {"off", "waiting", "arming", "updating"}
    /\ subject \in IF tracker = "arming" THEN Addrs ELSE {Stranger}
    /\ pc \in [Users -> {"ready", "opening", "sending", "reconnecting", "orphaned"}
                        \cup Removing]
    /\ target \in [Users -> Addrs \cup {Stranger}]
    /\ dict \in [Users -> SUBSET Addrs]
    /\ visited \in [Users -> SUBSET Addrs]
    /\ stale \in [Users -> BOOLEAN]
    /\ received \in Nat /\ handled \in Nat
    /\ missed \subseteq Addrs

\* "All messages from this moment on are captured" (open): as long as the manager is
\* open, whatever becomes of its link, every message that came since has been taken by
\* the tracker or waits in the queue of the same reader, even before the tracker is
\* started, or while it handles another message.
AllCaptured == conn => reader = "live" /\ received = handled + Len(queue)

\* The manager has covers only while it has a connection: however add_cover(),
\* remove_covers() and close() overlap, a closed manager is empty.
CoversNeedConnection == covers # {} => conn

ManagerInv == TypeOK /\ AllCaptured /\ CoversNeedConnection

\* "Remove all covers and clean up" (README, remove_covers): a notifier's task is left
\* running for a cover that is not the manager's in two cases only.  The tracker was handling a
\* movement of that cover while it was removed, or later: its moved() goes on behind
\* stop_notifier().  Or two removals overlapped, and a cover added when the first had
\* ended went with the second, which had the dict of before.
RemovedOrMissed == \A a \in Addrs : notifier[a] = "live" => a \in covers \cup missed

\* "Close the connection" (README, close): a close() that has ended has closed it.
CloseCloses == [][\A u \in Users : pc[u] = "closing" /\ pc'[u] = "ready" => ~conn']_vars

\* Once the manager is closed, its message tracker ends; and remove_covers() and
\* close() end, even if messages keep coming: they return, or raise and leave the
\* manager open, as they do each time if a notifier's task has failed.
ManagerEnds ==
    /\ ~conn /\ tracker # "off" ~> tracker = "off"
    /\ \A u \in Users : pc[u] \in Removing ~> pc[u] \notin Removing
=============================================================================
