-------------------------- MODULE ControllerProofs --------------------------
(***************************************************************************)
(* Theorems about Controller, for every number of connections, of commands *)
(* in flight and of legs.                                                  *)
(***************************************************************************)
EXTENDS Controller, WellFoundedInduction, TLAPS

\* A handler in use handles somebody's line.
OwnerInv == \A h \in Handlers \ Idle : owner[h] \in Conns

\* A movement that goes on has a leg left.
MovingInv == \A h \in Handlers : pc[h] = "moving" => legs[h] > 0

IInv == ConnectionInv /\ CommandsAwaited /\ OwnerInv /\ MovingInv
-----------------------------------------------------------------------------
LEMMA NoConfigType == NoConfig \in [file : Files, args : Arguments]
  <1>1. ASSUME NEW S, NEW n \in Nat
        PROVE  <<>> \in BoundedSeq(S, n)
    BY DEF BoundedSeq, SeqOf
  <1> QED BY <1>1, StartUpAssumption DEF NoConfig, Files, Arguments

LEMMA Initially == Init => IInv
  <1> SUFFICES ASSUME Init PROVE IInv
    OBVIOUS
  <1> USE ControllerAssumption DEF Init
  <1>1. /\ conn \in [Conns -> {"none", "open", "closed", "failed"}]
        /\ listener \in [Conns -> {"none", "reading", "line", "eof", "broken"}]
        /\ pending \in [Conns -> SUBSET Handlers]
    OBVIOUS
  <1>2. /\ pc \in [Handlers -> {"idle", "start", "reply", "moving", "broadcast"}
                                   \cup Finished]
        /\ owner \in [Handlers -> Conns \cup {NoConn}]
        /\ legs \in [Handlers -> 0..MaxLegs]
        /\ members \in [Handlers -> SUBSET Conns]
        /\ visited \in [Handlers -> SUBSET Conns]
    OBVIOUS
  <1>3. TypeOK
    BY <1>1, <1>2 DEF TypeOK
  <1>4. WritersAreOpen /\ CommandsAwaited /\ OwnerInv /\ MovingInv
    BY DEF WritersAreOpen, CommandsAwaited, OwnerInv, MovingInv, Idle
  <1> QED BY <1>3, <1>4 DEF IInv, ConnectionInv
-----------------------------------------------------------------------------
(* handle_messages *)

\* The handlers that are done are dropped, and perhaps a line gets a handler of c: the
\* types, and who is idle.
LEMMA HandlersType ==
    ASSUME IInv, NEW c \in Conns, NEW hs \in SUBSET Handlers,
           Dropped(hs) \/ \E h \in Idle : HandleLine(c, h, hs)
    PROVE  /\ webOn' \in BOOLEAN
           /\ pc' \in [Handlers -> {"idle", "start", "reply", "moving", "broadcast"}
                                       \cup Finished]
           /\ owner' \in [Handlers -> Conns \cup {NoConn}]
           /\ legs' \in [Handlers -> 0..MaxLegs]
           /\ members' \in [Handlers -> SUBSET Conns]
           /\ visited' \in [Handlers -> SUBSET Conns]
           /\ MovingInv'
           /\ OwnerInv'
           /\ \A h \in Handlers \ Idle' :
                 \/ h \notin Idle /\ h \notin hs /\ owner'[h] = owner[h]
                 \/ h \in Idle /\ owner'[h] = c
  <1> USE DEF IInv, ConnectionInv, TypeOK, Idle, OwnerInv, MovingInv
  <1>1. CASE Dropped(hs)
    BY <1>1 DEF Dropped
  <1>2. ASSUME NEW h \in Idle, HandleLine(c, h, hs)
        PROVE  /\ pc' \in [Handlers -> {"idle", "start", "reply", "moving", "broadcast"}
                                           \cup Finished]
               /\ owner' \in [Handlers -> Conns \cup {NoConn}]
               /\ UNCHANGED <<webOn, legs, members, visited>>
               /\ \A g \in Handlers :
                     /\ pc'[g] = (IF g = h THEN "start" ELSE IF g \in hs THEN "idle" ELSE pc[g])
                     /\ owner'[g] = (IF g = h THEN c ELSE IF g \in hs THEN NoConn ELSE owner[g])
    BY <1>2 DEF HandleLine
  <1> QED BY <1>1, <1>2

LEMMA AcceptStep ==
    ASSUME IInv, NEW c \in Conns, Accept(c)
    PROVE  IInv'
  <1> USE DEF IInv, ConnectionInv, Accept, serverVars, handlerVars
  <1>1. TypeOK'
    BY DEF TypeOK
  <1>2. WritersAreOpen'
    BY DEF WritersAreOpen, TypeOK
  <1>3. CommandsAwaited'
    BY DEF CommandsAwaited, OwnerInv, Idle, TypeOK
  <1> QED BY <1>1, <1>2, <1>3 DEF OwnerInv, MovingInv, Idle

LEMMA ListenStep ==
    ASSUME IInv, NEW c \in Conns, NEW what \in {"line", "eof", "broken"}, Listen(c, what)
    PROVE  IInv'
  <1> USE DEF IInv, ConnectionInv, Listen, serverVars, handlerVars
  <1>1. TypeOK'
    BY DEF TypeOK
  <1> QED BY <1>1 DEF WritersAreOpen, CommandsAwaited, OwnerInv, MovingInv, Idle

\* The connection stays open, a handler of it perhaps having been added.
LEMMA StaysOpen ==
    ASSUME IInv, NEW c \in Conns, conn[c] = "open",
           NEW hs \in SUBSET Handlers, NEW new \in SUBSET Handlers,
           \/ Dropped(hs) /\ new = {}
           \/ \E h \in Idle : HandleLine(c, h, hs) /\ new = {h},
           pending' = [pending EXCEPT ![c] = (@ \ hs) \cup new],
           listener' \in [Conns -> {"none", "reading", "line", "eof", "broken"}],
           UNCHANGED <<serverVars, conn, writers>>
    PROVE  IInv'
  <1> USE DEF IInv, ConnectionInv, serverVars
  <1>1. /\ webOn' \in BOOLEAN
        /\ pc' \in [Handlers -> {"idle", "start", "reply", "moving", "broadcast"}
                                    \cup Finished]
        /\ owner' \in [Handlers -> Conns \cup {NoConn}]
        /\ legs' \in [Handlers -> 0..MaxLegs]
        /\ members' \in [Handlers -> SUBSET Conns]
        /\ visited' \in [Handlers -> SUBSET Conns]
        /\ MovingInv' /\ OwnerInv'
        /\ \A h \in Handlers \ Idle' :
              \/ h \notin Idle /\ h \notin hs /\ owner'[h] = owner[h]
              \/ h \in Idle /\ owner'[h] = c
    BY HandlersType
  <1>2. TypeOK'
    BY <1>1 DEF TypeOK
  <1>3. \A h \in Handlers \ Idle' : h \in Idle => h \in new
    BY DEF Dropped, HandleLine, Idle, TypeOK
  <1>4. ASSUME NEW h \in Handlers \ Idle'
        PROVE  /\ conn'[owner'[h]] = "open" => h \in pending'[owner'[h]]
               /\ conn'[owner'[h]] # "closed"
    <2>1. CASE h \notin Idle /\ h \notin hs /\ owner'[h] = owner[h]
      BY <2>1 DEF CommandsAwaited, OwnerInv, TypeOK
    <2>2. CASE h \in Idle /\ owner'[h] = c
      BY <1>3, <2>2 DEF TypeOK
    <2> QED BY <1>1, <2>1, <2>2
  <1> QED BY <1>1, <1>2, <1>4 DEF WritersAreOpen, CommandsAwaited

\* The last handler of the connection is done, and the connection is closed.
LEMMA Closes ==
    ASSUME IInv, NEW c \in Conns, conn[c] = "open",
           NEW hs \in SUBSET Handlers, Dropped(hs),
           pending' = [pending EXCEPT ![c] = @ \ hs], pending'[c] = {},
           listener' \in [Conns -> {"none", "reading", "line", "eof", "broken"}],
           conn' = [conn EXCEPT ![c] = "closed"], writers' = Unwrap(c),
           UNCHANGED serverVars
    PROVE  IInv'
  <1> USE DEF IInv, ConnectionInv, serverVars
  <1>1. /\ webOn' \in BOOLEAN
        /\ pc' \in [Handlers -> {"idle", "start", "reply", "moving", "broadcast"}
                                    \cup Finished]
        /\ owner' \in [Handlers -> Conns \cup {NoConn}]
        /\ legs' \in [Handlers -> 0..MaxLegs]
        /\ members' \in [Handlers -> SUBSET Conns]
        /\ visited' \in [Handlers -> SUBSET Conns]
        /\ MovingInv' /\ OwnerInv'
    BY HandlersType
  <1>2. TypeOK'
    BY <1>1 DEF TypeOK, Unwrap
  <1>3. WritersAreOpen'
    BY DEF WritersAreOpen, Unwrap, TypeOK
  <1>4. \A h \in Handlers \ Idle' : h \notin Idle /\ h \notin hs /\ owner'[h] = owner[h]
    BY DEF Dropped, Idle, TypeOK
  <1>5. pending[c] \subseteq hs
    BY DEF TypeOK
  <1>6. ASSUME NEW h \in Handlers \ Idle'
        PROVE  /\ owner[h] \in Conns /\ owner[h] # c
               /\ conn[owner[h]] # "closed"
               /\ conn[owner[h]] = "open" => h \in pending[owner[h]]
    BY <1>4, <1>5 DEF CommandsAwaited, OwnerInv
  <1>7. CommandsAwaited'
    BY <1>4, <1>6 DEF CommandsAwaited, TypeOK
  <1> QED BY <1>1, <1>2, <1>3, <1>7

LEMMA ContinueStep ==
    ASSUME IInv, NEW c \in Conns, Continue(c)
    PROVE  IInv'
  <1> DEFINE hs == DoneHandlers(c)
  <1>1. /\ conn[c] = "open" /\ hs \in SUBSET Handlers
        /\ listener \in [Conns -> {"none", "reading", "line", "eof", "broken"}]
    BY DEF Continue, Wakes, DoneHandlers, IInv, ConnectionInv, TypeOK
  <1>2. ASSUME NEW h \in Idle, HandleLine(c, h, hs),
               pending' = [pending EXCEPT ![c] = (@ \ hs) \cup {h}],
               listener' = [listener EXCEPT ![c] = "reading"],
               UNCHANGED <<serverVars, conn, writers>>
        PROVE  IInv'
    <2>1. {h} \in SUBSET Handlers
      BY DEF Idle
    <2>2. listener' \in [Conns -> {"none", "reading", "line", "eof", "broken"}]
      BY <1>1, <1>2
    <2> HIDE DEF hs
    <2> QED BY <1>1, <1>2, <2>1, <2>2, StaysOpen
  <1>3. ASSUME Dropped(hs), pending' = [pending EXCEPT ![c] = @ \ hs],
               UNCHANGED <<serverVars, conn, writers, listener>>
        PROVE  IInv'
    <2>1. pending' = [pending EXCEPT ![c] = (@ \ hs) \cup {}] /\ {} \in SUBSET Handlers
      BY <1>3
    <2> HIDE DEF hs
    <2> QED BY <1>1, <1>3, <2>1, StaysOpen
  <1>4. ASSUME Dropped(hs), pending' = [pending EXCEPT ![c] = @ \ hs],
               pending'[c] = {},
               conn' = [conn EXCEPT ![c] = "closed"], writers' = Unwrap(c),
               UNCHANGED <<serverVars, listener>>
        PROVE  IInv'
    <2> HIDE DEF hs
    <2> QED BY <1>1, <1>4, Closes
  <1> QED BY <1>2, <1>3, <1>4 DEF Continue

LEMMA EndOfInputStep ==
    ASSUME IInv, NEW c \in Conns, EndOfInput(c)
    PROVE  IInv'
  <1> DEFINE hs == DoneHandlers(c)
  <1>1. /\ conn[c] = "open" /\ hs \in SUBSET Handlers
        /\ listener' \in [Conns -> {"none", "reading", "line", "eof", "broken"}]
        /\ Dropped(hs) /\ pending' = [pending EXCEPT ![c] = @ \ hs]
        /\ UNCHANGED serverVars
    BY DEF EndOfInput, Wakes, DoneHandlers, IInv, ConnectionInv, TypeOK
  <1>2. CASE pending'[c] = {}
    <2>1. conn' = [conn EXCEPT ![c] = "closed"] /\ writers' = Unwrap(c)
      BY <1>2 DEF EndOfInput
    <2> HIDE DEF hs
    <2> QED BY <1>1, <1>2, <2>1, Closes
  <1>3. CASE pending'[c] # {}
    <2>1. UNCHANGED <<conn, writers>>
      BY <1>3 DEF EndOfInput
    <2>2. pending' = [pending EXCEPT ![c] = (@ \ hs) \cup {}] /\ {} \in SUBSET Handlers
      BY <1>1
    <2> HIDE DEF hs
    <2> QED BY <1>1, <2>1, <2>2, StaysOpen
  <1> QED BY <1>2, <1>3

LEMMA FailStep ==
    ASSUME IInv, NEW c \in Conns, Fail(c)
    PROVE  IInv'
  <1> USE DEF IInv, ConnectionInv, Fail, serverVars
  <1>1. DoneHandlers(c) \in SUBSET Handlers
    BY DEF DoneHandlers, TypeOK
  <1>2. /\ webOn' \in BOOLEAN
        /\ pc' \in [Handlers -> {"idle", "start", "reply", "moving", "broadcast"}
                                    \cup Finished]
        /\ owner' \in [Handlers -> Conns \cup {NoConn}]
        /\ legs' \in [Handlers -> 0..MaxLegs]
        /\ members' \in [Handlers -> SUBSET Conns]
        /\ visited' \in [Handlers -> SUBSET Conns]
        /\ MovingInv' /\ OwnerInv'
        /\ \A h \in Handlers \ Idle' :
              \/ h \notin Idle /\ owner'[h] = owner[h]
              \/ owner'[h] = c
    BY <1>1, HandlersType
  <1>3. TypeOK'
    BY <1>2 DEF TypeOK, Unwrap
  <1>4. WritersAreOpen'
    BY DEF WritersAreOpen, Unwrap, TypeOK
  <1>5. CommandsAwaited'
    BY <1>2 DEF CommandsAwaited, OwnerInv, TypeOK
  <1> QED BY <1>2, <1>3, <1>4, <1>5
-----------------------------------------------------------------------------
(* The handlers *)

\* A handler goes on, or starts a reply, or is over: nothing else of the connections
\* changes.
LEMMA HandlerMoves ==
    ASSUME IInv, NEW h \in Handlers, pc[h] # "idle",
           NEW at \in {"reply", "moving", "broadcast"} \cup Finished,
           NEW n \in 0..MaxLegs, at = "moving" => n > 0,
           pc' = [pc EXCEPT ![h] = at], legs' = [legs EXCEPT ![h] = n],
           members' \in [Handlers -> SUBSET Conns], visited' \in [Handlers -> SUBSET Conns],
           webOn' \in BOOLEAN, server' \in {"starting", "serving", "closing", "stopped"},
           UNCHANGED <<config, hasDevices, conn, writers, listener, pending, owner>>
    PROVE  IInv'
  <1> USE DEF IInv, ConnectionInv
  <1>1. TypeOK'
    BY DEF TypeOK
  <1>2. Idle' = Idle
    BY DEF Idle, TypeOK, Finished
  <1> QED BY <1>1, <1>2 DEF WritersAreOpen, CommandsAwaited, OwnerInv, MovingInv, TypeOK

LEMMA HandlerStep ==
    ASSUME IInv, NEW h \in Handlers, Handler(h)
    PROVE  IInv'
  <1> USE DEF connVars, serverVars, handlerVars
  <1>0. TypeOK /\ legs[h] \in 0..MaxLegs /\ legs = [legs EXCEPT ![h] = legs[h]]
    BY DEF IInv, ConnectionInv, TypeOK
  <1>1. CASE Query(h) \/ (\E on \in BOOLEAN : SetWeb(h, on))
                      \/ (\E n \in 0..MaxLegs : MoveCover(h, n))
    <2>1. PICK n \in 0..MaxLegs : Reply(h, n)
      BY <1>1, ControllerAssumption DEF Query, SetWeb, MoveCover
    <2>2. pc[h] # "idle" /\ webOn' \in BOOLEAN /\ UNCHANGED connVars
      BY <1>0, <1>1 DEF Query, SetWeb, MoveCover, TypeOK
    <2> QED BY <1>0, <2>1, <2>2, HandlerMoves DEF Reply, TypeOK
  <1>2. CASE UnknownDevice(h) \/ Quit(h)
    <2>1. /\ pc[h] # "idle"
          /\ \E at \in Finished : pc' = [pc EXCEPT ![h] = at]
          /\ legs' = [legs EXCEPT ![h] = legs[h]]
          /\ server' \in {"starting", "serving", "closing", "stopped"}
          /\ UNCHANGED <<config, hasDevices, conn, writers, listener, pending, owner, webOn,
                         members, visited>>
      BY <1>0, <1>2 DEF UnknownDevice, Quit, Finished, TypeOK
    <2> QED BY <1>0, <2>1, HandlerMoves DEF TypeOK, Finished
  <1>3. CASE Replied(h)
    <2>0. pc[h] # "idle" /\ UNCHANGED <<connVars, webOn, owner, members, visited>>
      BY <1>3 DEF Replied
    <2>1. ASSUME pc' = [pc EXCEPT ![h] = IF legs[h] > 0 THEN "moving" ELSE "ok"],
                 UNCHANGED legs
          PROVE  IInv'
      <3> DEFINE at == IF legs[h] > 0 THEN "moving" ELSE "ok"
      <3>1. /\ pc' = [pc EXCEPT ![h] = at]
            /\ legs' = [legs EXCEPT ![h] = legs[h]]
            /\ at \in {"reply", "moving", "broadcast"} \cup Finished
            /\ at = "moving" => legs[h] > 0
        BY <1>0, <2>1 DEF Finished
      <3> HIDE DEF at
      <3> QED BY <1>0, <2>0, <3>1, HandlerMoves DEF TypeOK
    <2>2. ASSUME pc' = [pc EXCEPT ![h] = "raised"], legs' = [legs EXCEPT ![h] = 0]
          PROVE  IInv'
      <3>1. 0 \in 0..MaxLegs
        BY ControllerAssumption
      <3> QED BY <1>0, <2>0, <2>2, <3>1, HandlerMoves DEF TypeOK, Finished
    <2> QED BY <1>3, <2>1, <2>2 DEF Replied
  <1>4. CASE MoveStopped(h)
    <2>1. 0 \in 0..MaxLegs
      BY ControllerAssumption
    <2> QED BY <1>0, <1>4, <2>1, HandlerMoves DEF MoveStopped, TypeOK, Finished
  <1>5. CASE Leg(h)
    <2> DEFINE n == legs[h] - 1
    <2>1. /\ n \in 0..MaxLegs /\ pc[h] # "idle" /\ legs' = [legs EXCEPT ![h] = n]
          /\ legs'[h] = n
      BY <1>0, <1>5, ControllerAssumption DEF Leg, IInv, MovingInv, TypeOK
    <2>2. /\ members' \in [Handlers -> SUBSET Conns]
          /\ visited' \in [Handlers -> SUBSET Conns]
          /\ UNCHANGED <<connVars, webOn, owner>>
      BY <1>0, <1>5 DEF Leg, TypeOK
    <2>3. PICK at \in {"moving", "broadcast", "ok"} :
              pc' = [pc EXCEPT ![h] = at] /\ (at = "moving" => n > 0)
      BY <1>5, <2>1 DEF Leg, AfterLeg
    <2> HIDE DEF n
    <2> QED BY <1>0, <2>1, <2>2, <2>3, HandlerMoves DEF TypeOK, Finished
  <1>6. CASE WriteNext(h)
    <2>0. pc[h] = "broadcast" /\ UNCHANGED <<connVars, webOn, owner>> /\ 0 \in 0..MaxLegs
      BY <1>6, ControllerAssumption DEF WriteNext
    <2>1. CASE EndBroadcast(h, "raised") /\ legs' = [legs EXCEPT ![h] = 0]
      BY <1>0, <2>0, <2>1, HandlerMoves DEF EndBroadcast, TypeOK, Finished
    <2>2. ASSUME NEW w \in writers \ visited[h],
                 visited' = [visited EXCEPT ![h] = @ \cup {w}],
                 UNCHANGED <<pc, members, legs>>
          PROVE  IInv'
      <3>1. pc' = [pc EXCEPT ![h] = "broadcast"] /\ legs' = [legs EXCEPT ![h] = legs[h]]
        BY <1>0, <2>0, <2>2 DEF TypeOK
      <3>2. visited' \in [Handlers -> SUBSET Conns] /\ members' \in [Handlers -> SUBSET Conns]
        BY <1>0, <2>2 DEF TypeOK
      <3> QED BY <1>0, <2>0, <3>1, <3>2, HandlerMoves DEF TypeOK
    <2>3. CASE EndBroadcast(h, AfterLeg(h)) /\ UNCHANGED legs
      <3>1. PICK at \in {"moving", "ok"} :
                pc' = [pc EXCEPT ![h] = at] /\ (at = "moving" => legs[h] > 0)
        BY <2>3 DEF EndBroadcast, AfterLeg
      <3>2. /\ legs' = [legs EXCEPT ![h] = legs[h]]
            /\ members' \in [Handlers -> SUBSET Conns]
            /\ visited' \in [Handlers -> SUBSET Conns]
        BY <1>0, <2>3 DEF EndBroadcast, TypeOK
      <3> QED BY <1>0, <2>0, <3>1, <3>2, HandlerMoves DEF TypeOK, Finished
    <2> QED BY <1>6, <2>1, <2>2, <2>3 DEF WriteNext
  <1>7. CASE Forgotten(h)
    <2> USE DEF IInv, ConnectionInv
    <2>1. Dropped({h}) /\ UNCHANGED connVars
      BY <1>7 DEF Forgotten
    <2>2. TypeOK'
      BY <2>1 DEF Dropped, TypeOK
    <2>3. \A g \in Handlers \ Idle' : g \notin Idle /\ owner'[g] = owner[g]
      BY <2>1 DEF Dropped, Idle, TypeOK
    <2>4. OwnerInv' /\ CommandsAwaited' /\ WritersAreOpen'
      BY <2>1, <2>3 DEF OwnerInv, CommandsAwaited, WritersAreOpen
    <2>5. MovingInv'
      BY <2>1 DEF Dropped, MovingInv, TypeOK
    <2> QED BY <2>2, <2>4, <2>5
  <1> QED BY <1>1, <1>2, <1>3, <1>4, <1>5, <1>6, <1>7 DEF Handler, Handle
-----------------------------------------------------------------------------
(* The process *)

LEMMA StartStep ==
    ASSUME IInv, NEW on \in BOOLEAN, Start(on)
    PROVE  IInv'
  <1> USE DEF IInv, ConnectionInv, Start, handlerVars
  <1>1. TypeOK'
    BY NoConfigType DEF TypeOK
  <1> QED BY <1>1 DEF WritersAreOpen, CommandsAwaited, OwnerInv, MovingInv, Idle

LEMMA StopStep ==
    ASSUME IInv, Stop
    PROVE  IInv'
  <1> USE DEF IInv, ConnectionInv, Stop
  <1>0. /\ conn' \in [Conns -> {"none", "open", "closed", "failed"}]
        /\ pc' \in [Handlers -> {"idle", "start", "reply", "moving", "broadcast"}
                                    \cup Finished]
        /\ owner' \in [Handlers -> Conns \cup {NoConn}]
        /\ legs' \in [Handlers -> 0..MaxLegs]
        /\ members' \in [Handlers -> SUBSET Conns]
        /\ visited' \in [Handlers -> SUBSET Conns]
    BY ControllerAssumption DEF TypeOK
  <1>1. TypeOK'
    BY <1>0 DEF TypeOK
  <1>2. Idle' = Handlers
    BY DEF Idle
  <1> QED BY <1>1, <1>2 DEF WritersAreOpen, CommandsAwaited, OwnerInv, MovingInv, TypeOK

LEMMA Inductive == IInv /\ [Next]_vars => IInv'
  <1> SUFFICES ASSUME IInv, [Next]_vars PROVE IInv'
    OBVIOUS
  <1>1. CASE UNCHANGED vars
    BY <1>1 DEF vars, connVars, serverVars, handlerVars, IInv, ConnectionInv, TypeOK,
                WritersAreOpen, CommandsAwaited, OwnerInv, MovingInv, Idle
  <1>2. ASSUME NEW c \in Conns, Connection(c)
        PROVE  IInv'
    BY <1>2, AcceptStep, ListenStep, ContinueStep, EndOfInputStep, FailStep DEF Connection
  <1>3. ASSUME NEW h \in Handlers, Handler(h)
        PROVE  IInv'
    BY <1>3, HandlerStep
  <1>4. CASE (\E on \in BOOLEAN : Start(on)) \/ Stop
    BY <1>4, StartStep, StopStep
  <1> QED BY <1>1, <1>2, <1>3, <1>4 DEF Next, Terminated
-----------------------------------------------------------------------------
(* Theorems *)

\* Positions are written to the connections that are open, for any number of them and
\* however they end.
THEOREM WritersOfOpenConnections == Spec => []ConnectionInv
  <1>1. IInv => ConnectionInv
    BY DEF IInv
  <1> QED BY Initially, Inductive, <1>1, PTL DEF Spec

\* No command is forgotten while its connection is open, or cut off by the end of its
\* client's input.
THEOREM NoCommandForgotten == Spec => []CommandsAwaited
  <1>1. IInv => CommandsAwaited
    BY DEF IInv
  <1> QED BY Initially, Inductive, <1>1, PTL DEF Spec

-----------------------------------------------------------------------------
(* What the emulator starts with *)

\* Some of the numbers from 1 to n have a last one.
LEMMA HasLast ==
    ASSUME NEW n \in Nat, NEW S \in SUBSET (1..n), S # {}
    PROVE  \E i \in S : \A j \in S : j <= i
  <1> DEFINE R == OpToRel(<, Nat)
             T == {k \in Nat : n - k \in S}
  <1>1. IsWellFoundedOn(R, Nat)
    BY NatLessThanWellFounded
  <1>2. T \subseteq Nat /\ T # {}
    <2>1. PICK i \in S : TRUE
      OBVIOUS
    <2>2. n - i \in Nat /\ n - (n - i) = i
      OBVIOUS
    <2>3. n - i \in T
      BY <2>1, <2>2
    <2> QED BY <2>3
  <1>3. PICK k \in T : \A l \in T : <<l, k>> \notin R
    <2> HIDE DEF R, T
    <2> QED BY <1>1, <1>2, WFMin
  <1>4. ASSUME NEW j \in S
        PROVE  j <= n - k
    <2>1. n - j \in Nat /\ n - (n - j) = j
      OBVIOUS
    <2>2. n - j \in T
      BY <2>1
    <2>3. ~(n - j < k)
      BY <1>3, <2>1, <2>2 DEF OpToRel
    <2> QED BY <2>1, <2>3
  <1> QED BY <1>3, <1>4

\* The last of what a sequence has under a name.
LEMMA LastNamedIs ==
    ASSUME NEW m \in Nat, NEW s, DOMAIN s = 1..m, NEW n, Named(s, n) # {}
    PROVE  \E i \in DOMAIN s : /\ LastNamed(s, n) = s[i] /\ s[i].name = n
                               /\ \A j \in DOMAIN s : s[j].name = n => j <= i
  <1> DEFINE S == Named(s, n)
             i == CHOOSE i \in S : \A j \in S : j <= i
  <1>1. S \in SUBSET (1..m) /\ S # {}
    BY DEF Named
  <1>2. \E k \in S : \A j \in S : j <= k
    <2> HIDE DEF S
    <2> QED BY <1>1, HasLast
  <1>3. i \in S /\ \A j \in S : j <= i
    BY <1>2
  <1>4. LastNamed(s, n) = s[i]
    BY DEF LastNamed
  <1> QED BY <1>3, <1>4 DEF Named

\* What is last under its own name is what its name stands for.
LEMMA IsLastNamed ==
    ASSUME NEW m \in Nat, NEW s, DOMAIN s = 1..m, NEW i \in DOMAIN s,
           \A j \in DOMAIN s : j > i => s[j].name # s[i].name
    PROVE  LastNamed(s, s[i].name) = s[i]
  <1>1. i \in Named(s, s[i].name)
    BY DEF Named
  <1>2. PICK k \in DOMAIN s : /\ LastNamed(s, s[i].name) = s[k] /\ s[k].name = s[i].name
                              /\ \A j \in DOMAIN s : s[j].name = s[i].name => j <= k
    BY <1>1, LastNamedIs
  <1>3. i <= k /\ ~(k > i)
    BY <1>2
  <1> QED BY <1>2, <1>3

\* A cover that moves at all has a step of a thousandth of its drop at least.
LEMMA StepIsLongEnough ==
    ASSUME NEW item \in Items, PosIncrementPerStep(item) # 0
    PROVE  item.drop <= 1000 * item.step
  <1> DEFINE x == 1000 * item.step
             y == item.drop
  <1>1. x \in Nat /\ y \in Nat \ {0} /\ x \div y # 0
    BY StartUpAssumption DEF PosIncrementPerStep
  <1> HIDE DEF x, y
  <1>2. x < y => x \div y = 0
    BY <1>1
  <1>3. y <= x
    BY <1>1, <1>2
  <1> QED BY <1>3 DEF x, y

\* Whatever a configuration file lists and whatever -i asks for, as often as it may be
\* listed and asked for: the emulator serves just that, or does not start.
THEOREM ServesItsConfiguration ==
    \A file \in Files, args \in Arguments : ServedAsConfigured(file, args)
  <1> SUFFICES ASSUME NEW file \in Files, NEW args \in Arguments, Starts(file, args)
               PROVE  ServedAsConfigured(file, args)
    BY DEF ServedAsConfigured
  <1> DEFINE names == NamesOf(file)
             devices == Devices(file, args)
             addrs == {ItemOf(file, n).addr : n \in names}
             nameAt(a) == CHOOSE m \in names : ItemOf(file, m).addr = a
  <1>1. PICK m \in Nat : file \in [1..m -> Items]
    BY StartUpAssumption DEF Files, BoundedSeq, SeqOf
  <1>2. PICK k \in Nat : args \in [1..k -> Overrides]
    BY StartUpAssumption DEF Arguments, BoundedSeq, SeqOf
  <1>3. ASSUME NEW n \in names
        PROVE  ItemOf(file, n) \in Items /\ ItemOf(file, n).name = n
    <2>1. Named(file, n) # {}
      BY DEF NamesOf, Named
    <2> QED BY <1>1, <2>1, LastNamedIs DEF ItemOf
  <1>4. /\ devices = [a \in addrs |-> [name |-> nameAt(a),
                                       pos |-> InitialPos(file, args, nameAt(a)),
                                       item |-> ItemOf(file, nameAt(a))]]
        /\ DOMAIN devices = addrs
    BY DEF Devices
  <1>5. ASSUME NEW n \in names
        PROVE  /\ ItemOf(file, n).addr \in addrs
               /\ nameAt(ItemOf(file, n).addr) = n
    <2>1. \A l \in names : ItemOf(file, l).addr = ItemOf(file, n).addr => l = n
      BY DEF Starts, DistinctAddresses
    <2> QED BY <2>1
  <1>6. \A a \in addrs : nameAt(a) \in names /\ ItemOf(file, nameAt(a)).addr = a
    BY <1>5
  <1> HIDE DEF addrs, nameAt, devices
  <1>7. ASSUME NEW i \in DOMAIN file, \A j \in DOMAIN file : j > i => file[j].name # file[i].name
        PROVE  file[i].addr \in DOMAIN devices /\ devices[file[i].addr].item = file[i]
    <2>1. file[i].name \in names /\ ItemOf(file, file[i].name) = file[i]
      BY <1>1, <1>7, IsLastNamed DEF NamesOf, ItemOf
    <2> QED BY <1>4, <1>5, <2>1
  <1>8. \A a, b \in DOMAIN devices : devices[a].name = devices[b].name => a = b
    BY <1>4, <1>6
  <1>9. ASSUME NEW a \in DOMAIN devices
        PROVE  /\ devices[a].pos \in 0..1000
               /\ devices[a].item.drop <= 1000 * devices[a].item.step
               /\ devices[a].item.preset \in 0..1000 \cup {Nothing}
    <2> DEFINE n == nameAt(a)
    <2>1. n \in names /\ CoverOK(file, args, n) /\ ItemOf(file, n) \in Items
      BY <1>3, <1>4, <1>6, <1>9 DEF Starts
    <2>2. InitialPos(file, args, n) \in Int \cup {Nothing}
      <3>1. CASE Named(args, n) # {}
        <4>1. LastNamed(args, n) \in Overrides
          BY <1>2, <3>1, LastNamedIs
        <4> QED BY <3>1, <4>1, StartUpAssumption DEF InitialPos
      <3>2. CASE Named(args, n) = {}
        BY <2>1, <3>2, StartUpAssumption DEF InitialPos
      <3> QED BY <3>1, <3>2
    <2>3. InitialPos(file, args, n) \in 0..1000
      BY <2>1, <2>2 DEF CoverOK, InRange
    <2>4. ItemOf(file, n).preset \in 0..1000 \cup {Nothing}
      <3>1. ItemOf(file, n).preset \in Int \cup {Nothing}
        BY <2>1, StartUpAssumption
      <3> QED BY <2>1, <3>1 DEF CoverOK, InRange
    <2> QED BY <1>4, <1>9, <2>1, <2>3, <2>4, StepIsLongEnough DEF CoverOK
  <1>10. ASSUME NEW i \in DOMAIN args,
                \A j \in DOMAIN args : j > i => args[j].name # args[i].name
         PROVE  \E a \in DOMAIN devices :
                    devices[a].name = args[i].name /\ devices[a].pos = args[i].pos
    <2> DEFINE n == args[i].name
               a == ItemOf(file, n).addr
    <2>1. n \in names
      BY DEF Starts, ArgumentsOK
    <2>2. i \in Named(args, n) /\ LastNamed(args, n) = args[i]
      BY <1>2, <1>10, IsLastNamed DEF Named
    <2>3. InitialPos(file, args, n) = args[i].pos
      BY <2>2 DEF InitialPos
    <2>4. a \in addrs /\ nameAt(a) = n
      BY <1>5, <2>1
    <2> QED BY <1>4, <2>3, <2>4
  <1> QED BY <1>7, <1>8, <1>9, <1>10 DEF ServedAsConfigured, devices

\* While the emulator starts, it is going to serve what its configuration asks for.
THEOREM StartsRight == Spec => []StartsAsConfigured
  <1>1. IInv => StartsAsConfigured
    BY ServesItsConfiguration DEF IInv, ConnectionInv, TypeOK, StartsAsConfigured
  <1> QED BY Initially, Inductive, <1>1, PTL DEF Spec
=============================================================================
