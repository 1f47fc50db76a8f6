-------------------------- MODULE SerialConnection --------------------------
(***************************************************************************)
(* A SerialConnection, the SerialProtocols it goes through as it connects  *)
(* and reconnects, and its readers (src/nicett6/serial.py).                *)
(*                                                                         *)
(* A link is one SerialProtocol with its transport.  Messages are numbered *)
(* in the order in which the decoder accepts them, over all the links, so  *)
(* that a reader's queue is a sequence of numbers.  An action is what one  *)
(* task or callback does between two suspensions; disconnect(), close(),   *)
(* add_reader() and remove_reader() do not suspend, and any task may call  *)
(* them at any time.                                                       *)
(***************************************************************************)
EXTENDS AsyncioLock, Integers, FiniteSets

CONSTANTS
    Clients,            \* the tasks that write, send requests and connect
    Connectors,         \* those that call connect()
    ConnectsCancelled,  \* may a task be cancelled in connect()?
    Links, NoLink,      \* SerialProtocol objects (reused when forgotten)
    Readers, NoReader,  \* SerialReader objects (reused when forgotten)
    MaxChunk,           \* bound: messages in one chunk of data
    MaxMsgs             \* bound: messages received

ASSUME SerialAssumption ==
    /\ NoOwner \notin Clients
    /\ Connectors \subseteq Clients
    /\ ConnectsCancelled \in BOOLEAN
    /\ NoLink \notin Links
    /\ NoReader \notin Readers
    /\ MaxChunk \in Nat
    /\ MaxMsgs \in Nat

VARIABLES
    protocol,   \* self._protocol
    link,       \* each link's transport
    sendLock,   \* SerialProtocol.send_lock
    pc,         \* where each client is suspended
    at,         \* the link that each client connects or writes to
    request,    \* the reader of each client's process_request()
    registered, \* ReaderManager.readers
    held,       \* the readers that somebody refers to
    stopped,    \* is_stopped of the readers
    ended,      \* is_iterated of the readers
    queue,      \* their queues
    received,   \* history: the messages that the decoder has accepted
    got,        \* history: what the iteration of each reader has returned
    from,       \* history: the messages received when a reader was added ...
    to          \* ... and when it was stopped

linkVars == <<protocol, link>>
writeVars == <<sendLock, pc, at, request>>
readVars == <<registered, held, stopped, ended, queue, got, from, to>>
vars == <<linkVars, writeVars, readVars, received>>

\* SerialReaderStopSentinel in a queue; messages are numbered from 1
Sentinel == 0

Init ==
    /\ protocol = NoLink
    /\ link = [p \in Links |-> "none"]
    /\ sendLock = [p \in Links |-> Unlocked]
    /\ pc = [c \in Clients |-> "ready"]
    /\ at = [c \in Clients |-> NoLink]
    /\ request = [c \in Clients |-> NoReader]
    /\ registered = {}
    /\ held = {}
    /\ stopped = {}
    /\ ended = {}
    /\ queue = [r \in Readers |-> <<>>]
    /\ received = 0
    /\ got = [r \in Readers |-> <<>>]
    /\ from = [r \in Readers |-> 0]
    /\ to = [r \in Readers |-> 0]

-----------------------------------------------------------------------------
(* ReaderManager and SerialReader *)

\* A new reader: nothing queued, nothing returned
Added(r) ==
    /\ r \notin held
    /\ held' = held \cup {r}
    /\ registered' = registered \cup {r}
    /\ from' = [from EXCEPT ![r] = received]

AddReader(r) ==
    /\ Added(r)
    /\ UNCHANGED <<linkVars, writeVars, stopped, ended, queue, got, to, received>>

\* stop() of the readers rs
Stop(rs) ==
    /\ stopped' = stopped \cup rs
    /\ queue' = [r \in Readers |-> IF r \in rs \ stopped
                                   THEN Append(queue[r], Sentinel) ELSE queue[r]]
    /\ to' = [r \in Readers |-> IF r \in rs \ stopped THEN received ELSE to[r]]

\* Mutant: the readers are forgotten, and then none is left to be stopped
RemoveAll_ClearsFirst ==
    /\ registered' = {}
    /\ UNCHANGED <<stopped, queue, to, held, ended, got, from>>

RemoveAll ==
    /\ Stop(registered)
    /\ registered' = {}
    /\ UNCHANGED <<held, ended, got, from>>

\* The readers that tasks other than process_request() have
Shared == held \ {request[c] : c \in Clients}

\* remove_reader(): after close() or another remove_reader() the reader is not
\* registered any more, and WeakSet.remove raises KeyError once stop() was called
RemoveReader(r) ==
    /\ r \in Shared
    /\ Stop({r})
    /\ registered' = registered \ {r}
    /\ UNCHANGED <<linkVars, writeVars, held, ended, got, from, received>>

\* The last reference to r goes away, and the WeakSet forgets r
Forget(r) ==
    /\ registered' = registered \ {r}
    /\ held' = held \ {r}
    /\ stopped' = stopped \ {r}
    /\ ended' = ended \ {r}
    /\ queue' = [queue EXCEPT ![r] = <<>>]
    /\ got' = [got EXCEPT ![r] = <<>>]
    /\ from' = [from EXCEPT ![r] = 0]
    /\ to' = [to EXCEPT ![r] = 0]

DropReader(r) ==
    /\ r \in Shared
    /\ Forget(r)
    /\ UNCHANGED <<linkVars, writeVars, received>>

\* __anext__(), when the queue is not empty
Iterate(r) ==
    /\ r \in Shared \ ended
    /\ queue[r] # <<>>
    /\ queue' = [queue EXCEPT ![r] = Tail(@)]
    /\ IF Head(queue[r]) = Sentinel
       THEN ended' = ended \cup {r} /\ UNCHANGED got
       ELSE got' = [got EXCEPT ![r] = Append(@, Head(queue[r]))] /\ UNCHANGED ended
    /\ UNCHANGED <<linkVars, writeVars, registered, held, stopped, from, to, received>>

-----------------------------------------------------------------------------
(* SerialProtocol: the callbacks of its transport *)

\* Mutant: only the last message of a chunk reaches the readers
Delivered_Last(n) == <<received + n>>

\* The messages of a chunk that are given to every reader
Delivered(n) == [i \in 1..n |-> received + i]

\* data_received(): the first n messages of a chunk are decoded and handed to the
\* readers.  The decoder refuses the next one, or there is none: its exception
\* leaves data_received(), and the rest of the chunk is lost.
DataReceived(p, n) ==
    /\ link[p] = "open"
    /\ received + n <= MaxMsgs
    /\ received' = received + n
    /\ queue' = [r \in Readers |-> IF r \in registered \ stopped
                                   THEN queue[r] \o Delivered(n) ELSE queue[r]]
    /\ UNCHANGED <<linkVars, writeVars, registered, held, stopped, ended, got, from, to>>

\* connection_made(), which lets connect() go on
ConnectionMade(p) ==
    /\ link[p] = "opening"
    /\ link' = [link EXCEPT ![p] = "open"]
    /\ UNCHANGED <<protocol, writeVars, readVars, received>>

\* The device goes away: the transport is closing ...
DeviceDrops(p) ==
    /\ link[p] = "open"
    /\ link' = [link EXCEPT ![p] = "closing"]
    /\ UNCHANGED <<protocol, writeVars, readVars, received>>

\* ... and calls connection_lost()
ConnectionLost(p) ==
    /\ link[p] = "closing"
    /\ link' = [link EXCEPT ![p] = "gone"]
    /\ UNCHANGED <<protocol, writeVars, readVars, received>>

-----------------------------------------------------------------------------
(* SerialConnection: connect, disconnect, close *)

\* Mutant: the transport is left open
Disconnected_Open == link

\* The links once disconnect() has called close_transport()
Disconnected ==
    IF protocol = NoLink THEN link ELSE [link EXCEPT ![protocol] = "gone"]

Disconnect ==
    /\ protocol # NoLink
    /\ link' = Disconnected
    /\ protocol' = NoLink
    /\ UNCHANGED <<writeVars, readVars, received>>

Close ==
    /\ RemoveAll
    /\ link' = Disconnected
    /\ protocol' = NoLink
    /\ UNCHANGED <<writeVars, received>>

\* No task refers to the link p any more
Unused(p) == Disconnected[p] \in {"none", "gone"} /\ \A c \in Clients : at[c] # p

\* connect() up to create_serial_connection(), with p the new protocol
Connect(c, p) ==
    /\ pc[c] = "ready"
    /\ Unused(p)
    /\ link' = [Disconnected EXCEPT ![p] = "opening"]
    /\ protocol' = NoLink
    /\ sendLock' = [sendLock EXCEPT ![p] = Unlocked]
    /\ pc' = [pc EXCEPT ![c] = "connecting"]
    /\ at' = [at EXCEPT ![c] = p]
    /\ UNCHANGED <<request, readVars, received>>

\* create_serial_connection() raises: there is no such port, or no device
OpenFails(c) ==
    /\ pc[c] = "connecting"
    /\ link[at[c]] = "opening"
    /\ link' = [link EXCEPT ![at[c]] = "none"]
    /\ pc' = [pc EXCEPT ![c] = "ready"]
    /\ at' = [at EXCEPT ![c] = NoLink]
    /\ UNCHANGED <<protocol, sendLock, request, readVars, received>>

\* connection_made_event.wait() returns; the link may be gone again by now
Connected(c) ==
    /\ pc[c] = "connecting"
    /\ link[at[c]] # "opening"
    /\ protocol' = at[c]
    /\ pc' = [pc EXCEPT ![c] = "ready"]
    /\ at' = [at EXCEPT ![c] = NoLink]
    /\ UNCHANGED <<link, sendLock, request, readVars, received>>

\* The task that connects is cancelled: nobody closes the transport
CancelConnect(c) ==
    /\ ConnectsCancelled
    /\ pc[c] = "connecting"
    /\ pc' = [pc EXCEPT ![c] = "ready"]
    /\ at' = [at EXCEPT ![c] = NoLink]
    /\ UNCHANGED <<linkVars, sendLock, request, readVars, received>>

-----------------------------------------------------------------------------
(* SerialConnection: write and process_request *)

\* is_open of the current protocol
IsOpen == protocol # NoLink /\ link[protocol] = "open"

\* Where a client is once the message is written, in a request with reader r
AfterWrite(r) == IF r = NoReader THEN "ready" ELSE "window"

\* Mutant: the send lock is not used
StartWrite_NoLock(c, r) ==
    \/ /\ ~IsOpen
       /\ pc' = [pc EXCEPT ![c] = AfterWrite(r)]
       /\ UNCHANGED <<sendLock, at>>
    \/ /\ IsOpen
       /\ at' = [at EXCEPT ![c] = protocol]
       /\ sendLock' = [sendLock EXCEPT ![protocol] = TakenBy(@, c)]
       /\ pc' = [pc EXCEPT ![c] = "delay"]

\* write() up to its first suspension: the message is discarded if there is no
\* open link, written if the send lock is free, and waits for the lock otherwise
StartWrite(c, r) ==
    \/ /\ ~IsOpen
       /\ pc' = [pc EXCEPT ![c] = AfterWrite(r)]
       /\ UNCHANGED <<sendLock, at>>
    \/ /\ IsOpen
       /\ at' = [at EXCEPT ![c] = protocol]
       /\ IF Available(sendLock[protocol])
          THEN /\ sendLock' = [sendLock EXCEPT ![protocol] = TakenBy(@, c)]
               /\ pc' = [pc EXCEPT ![c] = "delay"]
          ELSE /\ sendLock' = [sendLock EXCEPT ![protocol] = Enqueued(@, c)]
               /\ pc' = [pc EXCEPT ![c] = "lock"]

Write(c) ==
    /\ pc[c] = "ready"
    /\ StartWrite(c, NoReader)
    /\ UNCHANGED <<linkVars, request, readVars, received>>

\* Mutant: the reader is made, but not added before the command is written
RequestReader_Late(r) ==
    /\ r \notin held
    /\ held' = held \cup {r}
    /\ from' = [from EXCEPT ![r] = received]
    /\ UNCHANGED registered

RequestReader(r) == Added(r)

\* process_request() of a write: the reader is added first
ProcessRequest(c, r) ==
    /\ pc[c] = "ready"
    /\ RequestReader(r)
    /\ request' = [request EXCEPT ![c] = r]
    /\ StartWrite(c, r)
    /\ UNCHANGED <<linkVars, stopped, ended, queue, got, to, received>>

\* Mutant: the lock stays locked
Unwound_KeepsLock(lk) == lk

\* "async with" releases the lock when its body raises
Unwound(lk) == Released(lk)

\* The lock was released and c is next.  _transport may be None by now: then
\* self._transport.write raises AttributeError.  (A closing transport ignores
\* the message.)
GetLock(c) ==
    /\ pc[c] = "lock"
    /\ Woken(sendLock[at[c]], c)
    /\ IF link[at[c]] = "gone"
       THEN /\ sendLock' = [sendLock EXCEPT ![at[c]] = Unwound(TakenBy(@, c))]
            /\ pc' = [pc EXCEPT ![c] = "attribute_error"]
            /\ at' = [at EXCEPT ![c] = NoLink]
       ELSE /\ sendLock' = [sendLock EXCEPT ![at[c]] = TakenBy(@, c)]
            /\ pc' = [pc EXCEPT ![c] = "delay"]
            /\ UNCHANGED at
    /\ UNCHANGED <<linkVars, request, readVars, received>>

\* The post_write_delay is over
DelayOver(c) ==
    /\ pc[c] = "delay"
    /\ sendLock' = [sendLock EXCEPT ![at[c]] = Released(@)]
    /\ pc' = [pc EXCEPT ![c] = AfterWrite(request[c])]
    /\ at' = [at EXCEPT ![c] = NoLink]
    /\ UNCHANGED <<linkVars, request, readVars, received>>

\* The time window of a request is over: its reader is removed, its queue makes
\* the result, and the reader is forgotten.  remove_reader() raises KeyError if
\* close() has been called in between.
WindowOver(c) ==
    /\ pc[c] = "window"
    /\ IF request[c] \in registered
       THEN /\ Forget(request[c])
            /\ pc' = [pc EXCEPT ![c] = "ready"]
            /\ request' = [request EXCEPT ![c] = NoReader]
       ELSE /\ pc' = [pc EXCEPT ![c] = "key_error"]
            /\ UNCHANGED <<request, readVars>>
    /\ UNCHANGED <<linkVars, sendLock, at, received>>

\* The task that writes is cancelled
CancelWrite(c) ==
    /\ \/ /\ pc[c] = "lock"
          /\ \E i \in DOMAIN sendLock[at[c]].waiters :
                /\ sendLock[at[c]].waiters[i] = c
                /\ sendLock' = [sendLock EXCEPT ![at[c]] = Abandoned(@, i)]
       \/ /\ pc[c] = "delay"
          /\ sendLock' = [sendLock EXCEPT ![at[c]] = Unwound(@)]
       \/ /\ pc[c] = "window"
          /\ UNCHANGED sendLock
    /\ pc' = [pc EXCEPT ![c] = "cancelled"]
    /\ at' = [at EXCEPT ![c] = NoLink]
    /\ UNCHANGED <<linkVars, request, readVars, received>>

Raising == {"attribute_error", "key_error", "cancelled"}

\* The caller has dealt with the exception; the reader of a request, which the
\* traceback refers to, is forgotten
Raised(c) ==
    /\ pc[c] \in Raising
    /\ pc' = [pc EXCEPT ![c] = "ready"]
    /\ \/ request[c] = NoReader /\ UNCHANGED <<request, readVars>>
       \/ /\ request[c] # NoReader
          /\ Forget(request[c])
          /\ request' = [request EXCEPT ![c] = NoReader]
    /\ UNCHANGED <<linkVars, sendLock, at, received>>

-----------------------------------------------------------------------------
\* What the device and its transport do
Line ==
    \E p \in Links :
        \/ \E n \in 1..MaxChunk : DataReceived(p, n)
        \/ ConnectionMade(p) \/ DeviceDrops(p) \/ ConnectionLost(p)

\* What any task may do without suspending
Call ==
    \/ Disconnect \/ Close
    \/ \E r \in Readers :
           AddReader(r) \/ RemoveReader(r) \/ DropReader(r) \/ Iterate(r)

\* What a client does
Client(c) ==
    \/ \E p \in Links : c \in Connectors /\ Connect(c, p)
    \/ OpenFails(c) \/ Connected(c) \/ CancelConnect(c)
    \/ Write(c) \/ \E r \in Readers : ProcessRequest(c, r)
    \/ GetLock(c) \/ DelayOver(c) \/ WindowOver(c)
    \/ CancelWrite(c) \/ Raised(c)

Next == Line \/ Call \/ \E c \in Clients : Client(c)

Spec == Init /\ [][Next]_vars

\* The event loop runs a coroutine that is woken, a timer that expires and a
\* callback that is due; opening a port succeeds or fails in the end; who has a
\* reader goes on iterating over it.  Nothing makes a client call anything.
Fairness ==
    /\ \A c \in Clients :
           /\ WF_vars(GetLock(c)) /\ WF_vars(DelayOver(c)) /\ WF_vars(WindowOver(c))
           /\ WF_vars(Raised(c)) /\ WF_vars(Connected(c))
    /\ \A p \in Links : WF_vars(ConnectionMade(p)) /\ WF_vars(ConnectionLost(p))
    /\ \A r \in Readers : WF_vars(Iterate(r))

FairSpec == Spec /\ Fairness

-----------------------------------------------------------------------------
(* Properties *)

States == {"ready", "connecting", "lock", "delay", "window"} \cup Raising

\* Every variable has the type its declaration gives it.
TypeOK ==
    /\ protocol \in Links \cup {NoLink}
    /\ link \in [Links -> {"none", "opening", "open", "closing", "gone"}]
    /\ sendLock \in [Links -> LockType(Clients)]
    /\ pc \in [Clients -> States]
    /\ at \in [Clients -> Links \cup {NoLink}]
    /\ request \in [Clients -> Readers \cup {NoReader}]
    /\ registered \subseteq held /\ held \subseteq Readers
    /\ stopped \subseteq held /\ ended \subseteq stopped
    /\ received \in Nat
    /\ queue \in [Readers -> Seq(Nat)]
    /\ got \in [Readers -> Seq(Nat)]
    /\ from \in [Readers -> Nat]
    /\ to \in [Readers -> Nat]

\* On one link a message is written only when the delay after the previous one is
\* over: whoever is in its delay holds that link's send lock, and a link that has
\* an owner has one in its delay.
Spaced ==
    /\ \A c \in Clients : pc[c] = "delay" => sendLock[at[c]].owner = c
    /\ \A p \in Links : Locked(sendLock[p]) =>
           LET c == sendLock[p].owner IN pc[c] = "delay" /\ at[c] = p

LinkInv == TypeOK /\ Spaced

\* The last message that r is due
LastDue(r) == IF r \in stopped THEN to[r] ELSE received

\* The messages that r is due, and the end of its queue while it is there
Due(r) == [i \in 1..(LastDue(r) - from[r]) |-> from[r] + i]
End(r) == IF r \in stopped \ ended THEN <<Sentinel>> ELSE <<>>

\* What a reader has returned and will return is every message received between
\* add_reader() and the call that stops it, once and in order, however often the
\* connection was lost and made again meanwhile; then comes the sentinel, once.
ReaderStream == \A r \in held : got[r] \o queue[r] = Due(r) \o End(r)

\* When a reader's iteration has ended, everything has been returned.
EndedLast == \A r \in ended : queue[r] = <<>>

ReaderInv == ReaderStream /\ EndedLast

\* The reader of a request is listening from before its command is written until
\* the request ends, unless close() has stopped it; nobody else has that reader.
RequestListens ==
    \A c \in Clients :
        request[c] # NoReader =>
            /\ request[c] \in registered \cup stopped
            /\ \A d \in Clients \ {c} : request[d] # request[c]

\* No link is left behind: one that is open is the connection's, or is being made
\* by a task in connect().  (It takes connects that do not overlap.)
LinkOwned ==
    \A p \in Links : link[p] \in {"opening", "open", "closing"} =>
        \/ p = protocol
        \/ \E c \in Clients : pc[c] = "connecting" /\ at[c] = p

\* Every call ends: a write, a request and a connect come back to the caller,
\* whatever happens to the links meanwhile.
CallsReturn == \A c \in Clients : pc[c] # "ready" ~> pc[c] = "ready"

\* Every reader that is removed, by remove_reader() or by close(), stops iterating
\* in the end, or is dropped by whoever had it: nobody waits for ever on a reader
\* that the connection no longer feeds.
ReadersStop ==
    \A r \in Readers : r \in held \ registered ~> r \in ended \/ r \notin held

\* "If the connection is disconnected then [...] writers will discard any messages
\* sent" (SerialConnection): a write never fails for lack of a transport.
WritersDiscard == \A c \in Clients : pc[c] # "attribute_error"
=============================================================================
