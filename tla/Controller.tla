----------------------------- MODULE Controller -----------------------------
(***************************************************************************)
(* The emulated controller (src/nicett6/emulator/controller/): the client  *)
(* connections, one task for every line that a client sends, the position  *)
(* messages that go to every client while a cover moves, and the end of    *)
(* the server.  StartUp says which devices it begins with.                 *)
(*                                                                         *)
(* A handler is the task that handles one line.  A cover that it moves is  *)
(* abstracted to the legs of the movement, each followed by a notification *)
(* of the cover's observer, WebPosManager; CoverEmulator has the rest.     *)
(* Covers move independently of each other.  An action is what one task    *)
(* does between two suspensions; drain() may suspend after every write.    *)
(* That a write to a connection that was reset is dropped                  *)
(* (WriterWrapper.ok) makes no difference to anything else, and is left    *)
(* out; another OSError of drain() ends the handler that has written.      *)
(***************************************************************************)
EXTENDS StartUp, FiniteSets

CONSTANTS
    Conns,      \* the client connections (reused when forgotten)
    Handlers,   \* the tasks of handle_line() (reused when forgotten)
    NoConn,     \* the connection of a handler that is not in use
    DrainRaises,\* may drain() raise another OSError than ConnectionResetError?
    MaxLegs     \* bound: the legs of one movement

ASSUME ControllerAssumption ==
    /\ NoConn \notin Conns
    /\ IsFiniteSet(Conns)
    /\ DrainRaises \in BOOLEAN
    /\ MaxLegs \in Nat

VARIABLES
    config,     \* the configuration, until the server starts
    server,     \* the process: "starting", "serving", "closing" or "stopped"
    hasDevices, \* is there a device in device_manager.devices?
    webOn,      \* web_pos_manager.web_on
    conn,       \* each connection: "none", "open", "closed" or "failed"
    writers,    \* writer_manager.writers
    listener,   \* the listener_task of each connection
    pending,    \* the handlers that each handle_messages() waits for
    pc,         \* where each handler is suspended
    owner,      \* the connection whose line a handler handles
    legs,       \* what is left of a handler's movement
    members,    \* in write_all(): the writers when the iteration began ...
    visited     \* ... and those it has written to

serverVars == <<config, server, hasDevices>>
connVars == <<serverVars, conn, writers, listener, pending>>
handlerVars == <<pc, owner, legs, members, visited>>
vars == <<connVars, webOn, handlerVars>>

Finished == {"ok", "raised"}

Init ==
    /\ config \in [file : Files, args : Arguments]
    /\ server = "starting"
    /\ hasDevices = FALSE
    /\ webOn = FALSE
    /\ conn = [c \in Conns |-> "none"]
    /\ writers = {}
    /\ listener = [c \in Conns |-> "none"]
    /\ pending = [c \in Conns |-> {}]
    /\ pc = [h \in Handlers |-> "idle"]
    /\ owner = [h \in Handlers |-> NoConn]
    /\ legs = [h \in Handlers |-> 0]
    /\ members = [h \in Handlers |-> {}]
    /\ visited = [h \in Handlers |-> {}]

Idle == {h \in Handlers : pc[h] = "idle"}

-----------------------------------------------------------------------------
(* main *)

NoConfig == [file |-> <<>>, args |-> <<>>]

\* The devices are registered and the server starts; or an exception, or a wrong
\* argument, ends the process.  Web commands are on if the file or an argument
\* says so.
Start(on) ==
    /\ server = "starting"
    /\ server' = IF Starts(config.file, config.args) THEN "serving" ELSE "stopped"
    /\ hasDevices' = (DOMAIN Devices(config.file, config.args) # {})
    /\ webOn' = (on /\ server' = "serving")
    /\ config' = NoConfig
    /\ UNCHANGED <<conn, writers, listener, pending, handlerVars>>

-----------------------------------------------------------------------------
(* handle_messages *)

\* A client connects: its writer joins the others, and the listener is created
Accept(c) ==
    /\ server = "serving"
    /\ conn[c] # "open"
    /\ \A h \in Handlers : owner[h] # c /\ c \notin members[h] \cup visited[h]
    /\ conn' = [conn EXCEPT ![c] = "open"]
    /\ writers' = writers \cup {c}
    /\ listener' = [listener EXCEPT ![c] = "reading"]
    /\ UNCHANGED <<serverVars, pending, webOn, handlerVars>>

\* The listener has read a line, has found the end of the input, or has raised
\* (IncompleteReadError, ConnectionResetError).  A line waits for a handler that
\* is not in use.
Listen(c, what) ==
    /\ listener[c] = "reading"
    /\ what = "line" =>
          Cardinality({d \in Conns : listener[d] = "line"}) < Cardinality(Idle)
    /\ listener' = [listener EXCEPT ![c] = what]
    /\ UNCHANGED <<serverVars, conn, writers, pending, webOn, handlerVars>>

\* asyncio.wait(): the tasks of c that are done
DoneHandlers(c) == {h \in pending[c] : pc[h] \in Finished}

Wakes(c) ==
    /\ conn[c] = "open"
    /\ listener[c] \in {"line", "eof", "broken"} \/ DoneHandlers(c) # {}

\* The task of the line that was read, and the handlers in hs are forgotten
HandleLine(c, h, hs) ==
    /\ pc' = [g \in Handlers |-> IF g = h THEN "start"
                                 ELSE IF g \in hs THEN "idle" ELSE pc[g]]
    /\ owner' = [g \in Handlers |-> IF g = h THEN c
                                    ELSE IF g \in hs THEN NoConn ELSE owner[g]]
    /\ UNCHANGED <<webOn, legs, members, visited>>

Dropped(hs) ==
    /\ pc' = [g \in Handlers |-> IF g \in hs THEN "idle" ELSE pc[g]]
    /\ owner' = [g \in Handlers |-> IF g \in hs THEN NoConn ELSE owner[g]]
    /\ UNCHANGED <<webOn, legs, members, visited>>

\* Mutant: the writer stays with the others
Unwrap_KeepsWriter(c) == writers

\* The writers without that of c, which wrap_writer() removes when c is left
Unwrap(c) == writers \ {c}

\* The tasks that are done are dealt with, and none of them has raised.  A new
\* line gets a handler and a new listener.
Continue(c) ==
    /\ Wakes(c)
    /\ \A h \in DoneHandlers(c) : pc[h] = "ok"
    /\ \/ /\ listener[c] = "line"
          /\ \E h \in Idle :
                /\ HandleLine(c, h, DoneHandlers(c))
                /\ pending' = [pending EXCEPT ![c] = (@ \ DoneHandlers(c)) \cup {h}]
          /\ listener' = [listener EXCEPT ![c] = "reading"]
          /\ UNCHANGED <<serverVars, conn, writers>>
       \/ /\ listener[c] = "reading"
          /\ Dropped(DoneHandlers(c))
          /\ pending' = [pending EXCEPT ![c] = @ \ DoneHandlers(c)]
          /\ UNCHANGED <<serverVars, conn, writers, listener>>
       \/ /\ listener[c] = "none"
          /\ Dropped(DoneHandlers(c))
          /\ pending' = [pending EXCEPT ![c] = @ \ DoneHandlers(c)]
          /\ IF pending'[c] = {}
             THEN conn' = [conn EXCEPT ![c] = "closed"] /\ writers' = Unwrap(c)
             ELSE UNCHANGED <<conn, writers>>
          /\ UNCHANGED <<serverVars, listener>>

\* Mutant: the end of the input ends handle_messages() at once
EndOfInput_Returns(c) ==
    /\ Wakes(c)
    /\ listener[c] = "eof"
    /\ listener' = [listener EXCEPT ![c] = "none"]
    /\ Dropped(DoneHandlers(c))
    /\ pending' = [pending EXCEPT ![c] = {}]
    /\ conn' = [conn EXCEPT ![c] = "closed"] /\ writers' = Unwrap(c)
    /\ UNCHANGED serverVars

\* Mutant: a listener is created again after the end of the input
EndOfInput_ListensOn(c) ==
    /\ Wakes(c)
    /\ listener[c] = "eof"
    /\ listener' = [listener EXCEPT ![c] = "reading"]
    /\ Dropped(DoneHandlers(c))
    /\ pending' = [pending EXCEPT ![c] = @ \ DoneHandlers(c)]
    /\ UNCHANGED <<serverVars, conn, writers>>

\* The end of the input: "break" leaves the for loop, even if other tasks that
\* are done come after the listener in it; an exception of theirs is not seen.
\* The while loop goes on for the handlers that are still running.
EndOfInput(c) ==
    /\ Wakes(c)
    /\ listener[c] = "eof"
    /\ listener' = [listener EXCEPT ![c] = "none"]
    /\ Dropped(DoneHandlers(c))
    /\ pending' = [pending EXCEPT ![c] = @ \ DoneHandlers(c)]
    /\ IF pending'[c] = {}
       THEN conn' = [conn EXCEPT ![c] = "closed"] /\ writers' = Unwrap(c)
       ELSE UNCHANGED <<conn, writers>>
    /\ UNCHANGED serverVars

\* One of the tasks that are done has raised, and so does handle_messages(): the
\* other tasks go on by themselves, the handler of a new line perhaps among them
Fail(c) ==
    /\ Wakes(c)
    /\ listener[c] = "broken" \/ \E h \in DoneHandlers(c) : pc[h] = "raised"
    /\ \/ Dropped(DoneHandlers(c))
       \/ listener[c] = "line" /\ \E h \in Idle : HandleLine(c, h, DoneHandlers(c))
    /\ conn' = [conn EXCEPT ![c] = "failed"]
    /\ writers' = Unwrap(c)
    /\ pending' = [pending EXCEPT ![c] = {}]
    /\ listener' = [listener EXCEPT ![c] = "none"]
    /\ UNCHANGED serverVars

\* A handler that nobody waits for has ended
Forgotten(h) ==
    /\ pc[h] \in Finished
    /\ h \notin pending[owner[h]]
    /\ Dropped({h})
    /\ UNCHANGED connVars

-----------------------------------------------------------------------------
(* LineHandler *)

\* The state of handler h, its movement going to take n legs
Reply(h, n) ==
    /\ pc' = [pc EXCEPT ![h] = "reply"]
    /\ legs' = [legs EXCEPT ![h] = n]
    /\ UNCHANGED <<owner, members, visited>>

\* A line that cannot be decoded, an invalid command, and a query: one reply,
\* an error or an answer, goes to the client
Query(h) ==
    /\ pc[h] = "start"
    /\ Reply(h, 0)
    /\ UNCHANGED <<connVars, webOn>>

\* WEB_ON and WEB_OFF
SetWeb(h, on) ==
    /\ pc[h] = "start"
    /\ webOn' = on
    /\ Reply(h, 0)
    /\ UNCHANGED connVars

\* A command that may move a cover: the reply is written first
MoveCover(h, n) ==
    /\ pc[h] = "start"
    /\ hasDevices
    /\ Reply(h, n)
    /\ UNCHANGED <<connVars, webOn>>

\* A device that is not registered: lookup_device() raises KeyError
UnknownDevice(h) ==
    /\ pc[h] = "start"
    /\ pc' = [pc EXCEPT ![h] = "raised"]
    /\ UNCHANGED <<connVars, webOn, owner, legs, members, visited>>

\* QUIT: stop_server() closes the server, and does not wait for the connections
Quit(h) ==
    /\ pc[h] = "start"
    /\ server' = "closing"
    /\ pc' = [pc EXCEPT ![h] = "ok"]
    /\ UNCHANGED <<config, hasDevices, conn, writers, listener, pending, webOn, owner,
                   legs, members, visited>>

\* drain() returns after the reply: the cover starts to move, if it is to.  Or it
\* raises, and so does handle_line().
Replied(h) ==
    /\ pc[h] = "reply"
    /\ \/ /\ pc' = [pc EXCEPT ![h] = IF legs[h] > 0 THEN "moving" ELSE "ok"]
          /\ UNCHANGED legs
       \/ /\ DrainRaises
          /\ pc' = [pc EXCEPT ![h] = "raised"]
          /\ legs' = [legs EXCEPT ![h] = 0]
    /\ UNCHANGED <<connVars, webOn, owner, members, visited>>

\* The movement is over before its last leg: it was stopped or taken over
MoveStopped(h) ==
    /\ pc[h] = "moving"
    /\ pc' = [pc EXCEPT ![h] = "ok"]
    /\ legs' = [legs EXCEPT ![h] = 0]
    /\ UNCHANGED <<connVars, webOn, owner, members, visited>>

-----------------------------------------------------------------------------
(* WebPosManager.update and WriterManager.write_all *)

\* Where a handler is after a notification
AfterLeg(h) == IF legs'[h] > 0 THEN "moving" ELSE "ok"

\* A leg of the movement and the notification that follows: write_all() begins to
\* iterate over the set of writers, and writes to one of them
Leg(h) ==
    /\ pc[h] = "moving"
    /\ legs' = [legs EXCEPT ![h] = @ - 1]
    /\ \/ /\ webOn
          /\ \E w \in writers :
                /\ visited' = [visited EXCEPT ![h] = {w}]
                /\ members' = [members EXCEPT ![h] = writers]
          /\ pc' = [pc EXCEPT ![h] = "broadcast"]
       \/ /\ ~webOn \/ writers = {}
          /\ pc' = [pc EXCEPT ![h] = AfterLeg(h)]
          /\ UNCHANGED <<members, visited>>
    /\ UNCHANGED <<connVars, webOn, owner>>

EndBroadcast(h, next) ==
    /\ pc' = [pc EXCEPT ![h] = next]
    /\ members' = [members EXCEPT ![h] = {}]
    /\ visited' = [visited EXCEPT ![h] = {}]

\* Has the iteration over the set come to its end?  When as many writers have
\* joined as have left, it may end anywhere.
AtEnd(h) == writers = members[h] => visited[h] = members[h]

\* drain() returns: "RuntimeError: Set changed size during iteration", the next
\* writer, or the end.  Or it raises itself.  The error leaves the cover's movement
\* and handle_line().
WriteNext(h) ==
    /\ pc[h] = "broadcast"
    /\ \/ /\ DrainRaises \/ Cardinality(writers) # Cardinality(members[h])
          /\ EndBroadcast(h, "raised")
          /\ legs' = [legs EXCEPT ![h] = 0]
       \/ /\ Cardinality(writers) = Cardinality(members[h])
          /\ \E w \in writers \ visited[h] :
                visited' = [visited EXCEPT ![h] = @ \cup {w}]
          /\ UNCHANGED <<pc, members, legs>>
       \/ /\ Cardinality(writers) = Cardinality(members[h])
          /\ AtEnd(h)
          /\ UNCHANGED legs
          /\ EndBroadcast(h, AfterLeg(h))
    /\ UNCHANGED <<connVars, webOn, owner>>

-----------------------------------------------------------------------------
(* The end *)

\* run_server() and main() return: the devices are deregistered, and asyncio.run()
\* cancels all the tasks that are left, wherever they are suspended
Stop ==
    /\ server = "closing" /\ server' = "stopped"
    /\ hasDevices' = FALSE
    /\ conn' = [c \in Conns |-> IF conn[c] = "open" THEN "failed" ELSE conn[c]]
    /\ writers' = {}
    /\ listener' = [c \in Conns |-> "none"]
    /\ pending' = [c \in Conns |-> {}]
    /\ pc' = [h \in Handlers |-> "idle"]
    /\ owner' = [h \in Handlers |-> NoConn]
    /\ legs' = [h \in Handlers |-> 0]
    /\ members' = [h \in Handlers |-> {}]
    /\ visited' = [h \in Handlers |-> {}]
    /\ UNCHANGED <<config, webOn>>

-----------------------------------------------------------------------------
Connection(c) ==
    \/ Accept(c)
    \/ \E what \in {"line", "eof", "broken"} : Listen(c, what)
    \/ Continue(c) \/ EndOfInput(c) \/ Fail(c)

Handle(h) ==
    \/ Query(h) \/ \E on \in BOOLEAN : SetWeb(h, on)
    \/ \E n \in 0..MaxLegs : MoveCover(h, n)
    \/ UnknownDevice(h) \/ Quit(h)

Handler(h) ==
    \/ Handle(h) \/ Replied(h)
    \/ Leg(h) \/ WriteNext(h) \/ MoveStopped(h)
    \/ Forgotten(h)

\* The process has ended, or has not begun to serve
Terminated == server = "stopped" /\ UNCHANGED vars

Next ==
    \/ \E c \in Conns : Connection(c)
    \/ \E h \in Handlers : Handler(h)
    \/ \E on \in BOOLEAN : Start(on)
    \/ Stop
    \/ Terminated

Spec == Init /\ [][Next]_vars

\* The event loop runs every task that is ready; movements end (EveryRequestEnds
\* of CoverEmulator); the clients read what is sent to them, so that drain()
\* returns.  Nothing makes a client connect, send or disconnect.
Fairness ==
    /\ \A c \in Conns : WF_vars(Continue(c) \/ EndOfInput(c) \/ Fail(c))
    /\ \A h \in Handlers : WF_vars(Handler(h))
    /\ WF_vars(Stop)

FairSpec == Spec /\ Fairness

-----------------------------------------------------------------------------
(* Properties *)

\* Every variable has the type its declaration gives it.
TypeOK ==
    /\ config \in [file : Files, args : Arguments]
    /\ server \in {"starting", "serving", "closing", "stopped"}
    /\ hasDevices \in BOOLEAN /\ webOn \in BOOLEAN
    /\ conn \in [Conns -> {"none", "open", "closed", "failed"}]
    /\ writers \subseteq Conns
    /\ listener \in [Conns -> {"none", "reading", "line", "eof", "broken"}]
    /\ pending \in [Conns -> SUBSET Handlers]
    /\ pc \in [Handlers -> {"idle", "start", "reply", "moving", "broadcast"}
                               \cup Finished]
    /\ owner \in [Handlers -> Conns \cup {NoConn}]
    /\ legs \in [Handlers -> 0..MaxLegs]
    /\ members \in [Handlers -> SUBSET Conns]
    /\ visited \in [Handlers -> SUBSET Conns]

\* Position messages are written to the clients that are connected, no more and
\* no less: a connection that ends, in whatever way, takes its writer with it.
WritersAreOpen == writers = {c \in Conns : conn[c] = "open"}

\* While the server starts, it is going to serve what its configuration asks for.
StartsAsConfigured ==
    server = "starting" => ServedAsConfigured(config.file, config.args)

ConnectionInv == TypeOK /\ WritersAreOpen

\* An open connection waits for each of its handlers, and one that was closed in
\* good order has none left: the end of the client's input does not cut off the
\* commands it has sent before.  Only a failed connection leaves handlers behind.
CommandsAwaited ==
    \A h \in Handlers \ Idle :
        /\ conn[owner[h]] = "open" => h \in pending[owner[h]]
        /\ conn[owner[h]] # "closed"

\* When its input ends, or one of its handlers fails, or anybody sends QUIT, a
\* connection is closed in the end and its writer removed.
ConnectionEnds ==
    \A c \in Conns :
        /\ listener[c] \in {"eof", "broken"} ~> c \notin writers
        /\ \A h \in Handlers :
              h \in pending[c] /\ pc[h] = "raised" ~> c \notin writers
        /\ server = "closing" ~> c \notin writers

\* "Outbound messages from the controller are sent to all writers" (WriterManager):
\* when a broadcast is over, it has reached every client that was there from its
\* beginning to its end.  A client that comes or goes meanwhile prevents it.  (The end
\* of the server is no matter.)
BroadcastReachesAll ==
    [][\A h \in Handlers :
          pc[h] = "broadcast" /\ pc'[h] # "broadcast" /\ server' # "stopped" =>
              members[h] \cap writers \subseteq visited[h]]_vars
=============================================================================
