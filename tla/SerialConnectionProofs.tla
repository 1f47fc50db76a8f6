------------------------ MODULE SerialConnectionProofs ------------------------
(***************************************************************************)
(* Theorems about SerialConnection, for any number of clients, links,      *)
(* readers and messages, with connects that overlap and are cancelled.     *)
(*                                                                         *)
(* The invariant has two halves: who is at which link (LinkIInv), and what *)
(* the readers have got and will get, message by message (ReadIInv).       *)
(* Those messages are what MessageBuffer cuts the bytes of a link into:    *)
(* its theorem is the last of this module.                                 *)
(***************************************************************************)
EXTENDS SerialConnection, MessageBuffer, AsyncioLockProofs, WellFoundedInduction

LinkStates == {"none", "opening", "open", "closing", "gone"}

LinkTypeOK ==
    /\ protocol \in Links \cup {NoLink}
    /\ link \in [Links -> LinkStates]
    /\ sendLock \in [Links -> LockType(Clients)]
    /\ pc \in [Clients -> States]
    /\ at \in [Clients -> Links \cup {NoLink}]

\* Who connects or writes knows to which link.
Placed ==
    \A c \in Clients : pc[c] \in {"connecting", "lock", "delay"} => at[c] \in Links

LinkIInv == LinkTypeOK /\ Spaced /\ Placed

ReadTypeOK ==
    /\ request \in [Clients -> Readers \cup {NoReader}]
    /\ registered \subseteq held /\ held \subseteq Readers
    /\ stopped \subseteq held /\ ended \subseteq stopped
    /\ received \in Nat
    /\ queue \in [Readers -> Seq(Nat)]
    /\ got \in [Readers -> Seq(Nat)]
    /\ from \in [Readers -> Nat]
    /\ to \in [Readers -> Nat]

\* A reader that somebody has is registered until it is stopped; one that was
\* forgotten is as good as new.
Registered ==
    \A r \in Readers :
        IF r \in held THEN r \in registered <=> r \notin stopped
                      ELSE queue[r] = <<>> /\ got[r] = <<>>

\* A reader that was due the messages f + 1 .. n has returned g, and q is its queue:
\* the numbers run on from g to q, and the sentinel is where q ends.
InOrder(g, q, f, n, phase) ==
    /\ f <= n
    /\ \A i \in 1..Len(g) : g[i] = f + i
    /\ \A i \in 1..Len(q) :
           q[i] = f + Len(g) + i \/ (phase = "stopped" /\ i = Len(q))
    /\ phase = "live" => Len(g) + Len(q) = n - f
    /\ phase = "stopped" =>
           Len(g) + Len(q) = n - f + 1 /\ Len(q) > 0 /\ q[Len(q)] = Sentinel
    /\ phase = "ended" => Len(g) = n - f /\ Len(q) = 0

Phase(r) ==
    IF r \in ended THEN "ended" ELSE IF r \in stopped THEN "stopped" ELSE "live"

StreamInv ==
    \A r \in held : InOrder(got[r], queue[r], from[r], LastDue(r), Phase(r))

ReadIInv == ReadTypeOK /\ Registered /\ StreamInv /\ RequestListens

IInv == LinkIInv /\ ReadIInv

-----------------------------------------------------------------------------
(* What happens to one reader's messages *)

\* stop(): the sentinel comes after everything that is queued.
LEMMA StopInOrder ==
    ASSUME NEW g \in Seq(Nat), NEW q \in Seq(Nat), NEW f \in Nat, NEW n \in Nat,
           InOrder(g, q, f, n, "live")
    PROVE  InOrder(g, Append(q, Sentinel), f, n, "stopped")
  <1>1. Sentinel \in Nat
    BY DEF Sentinel
  <1>2. /\ Len(Append(q, Sentinel)) = Len(q) + 1
        /\ \A i \in 1..Len(q) : Append(q, Sentinel)[i] = q[i]
        /\ Append(q, Sentinel)[Len(q) + 1] = Sentinel
        /\ Len(q) \in Nat /\ Len(g) \in Nat
    BY <1>1, AppendProperties, LenProperties
  <1> QED BY <1>2 DEF InOrder

\* data_received(): k more messages are queued.
LEMMA FeedInOrder ==
    ASSUME NEW g \in Seq(Nat), NEW q \in Seq(Nat), NEW f \in Nat, NEW n \in Nat,
           NEW k \in Nat, InOrder(g, q, f, n, "live")
    PROVE  InOrder(g, q \o [i \in 1..k |-> n + i], f, n + k, "live")
  <1> DEFINE d == [i \in 1..k |-> n + i]
  <1>1. d \in Seq(Nat) /\ Len(d) = k
    OBVIOUS
  <1>2. /\ Len(q \o d) = Len(q) + k
        /\ \A i \in 1..(Len(q) + k) :
               (q \o d)[i] = IF i <= Len(q) THEN q[i] ELSE d[i - Len(q)]
    BY <1>1, ConcatProperties
  <1>3. Len(q) \in Nat /\ Len(g) \in Nat /\ Len(g) + Len(q) = n - f /\ f <= n
    BY DEF InOrder
  <1>4. ASSUME NEW i \in 1..(Len(q) + k)
        PROVE  (q \o d)[i] = f + Len(g) + i
    <2>1. CASE i <= Len(q)
      BY <1>2, <1>3, <2>1 DEF InOrder
    <2>2. CASE i > Len(q)
      <3>1. (q \o d)[i] = d[i - Len(q)] /\ i - Len(q) \in 1..k
        BY <1>2, <1>3, <2>2
      <3> QED BY <1>3, <3>1
    <2> QED BY <1>3, <2>1, <2>2
  <1> HIDE DEF d
  <1>5. \A i \in 1..Len(g) : g[i] = f + i
    BY DEF InOrder
  <1> DEFINE e == q \o d
  <1>6. Len(e) = Len(q) + k /\ \A i \in 1..(Len(q) + k) : e[i] = f + Len(g) + i
    BY <1>2, <1>4
  <1> HIDE DEF e
  <1>7. f <= n + k /\ Len(g) + Len(e) = (n + k) - f
    BY <1>3, <1>6
  <1>8. InOrder(g, e, f, n + k, "live")
    BY <1>5, <1>6, <1>7 DEF InOrder
  <1> QED BY <1>8 DEF d, e

\* The first message of q has gone to g: h and t are what g and q have become.
FirstMoves(g, q, h, t) ==
    /\ Len(q) \in Nat \ {0} /\ Len(g) \in Nat
    /\ Len(h) = Len(g) + 1
    /\ \A i \in 1..Len(g) : h[i] = g[i]
    /\ h[Len(g) + 1] = q[1]
    /\ Len(t) = Len(q) - 1
    /\ \A i \in 1..Len(t) : t[i] = q[i + 1]

\* A message that is not the sentinel leaves the numbers in their order.
LEMMA MoveInOrder ==
    ASSUME NEW f \in Nat, NEW n \in Nat, NEW g, NEW q, NEW h, NEW t,
           NEW s \in {"live", "stopped"}, InOrder(g, q, f, n, s),
           FirstMoves(g, q, h, t), q[1] # Sentinel
    PROVE  InOrder(h, t, f, n, s)
  <1> USE DEF FirstMoves
  <1>1. 1 \in 1..Len(q)
    OBVIOUS
  <1>2. q[1] = f + Len(g) + 1
    BY <1>1 DEF InOrder
  <1>3. ASSUME s = "stopped"
        PROVE  Len(q) > 1
    <2>1. q[Len(q)] = Sentinel
      BY <1>3 DEF InOrder
    <2>2. Len(q) # 1
      BY <2>1
    <2> QED BY <2>2
  <1>4. \A i \in 1..Len(h) : h[i] = f + i
    <2>1. ASSUME NEW i \in 1..Len(g)
          PROVE  h[i] = f + i
      BY DEF InOrder
    <2>2. \A i \in 1..Len(h) : i \in 1..Len(g) \/ i = Len(g) + 1
      OBVIOUS
    <2>3. h[Len(g) + 1] = f + (Len(g) + 1)
      BY <1>2
    <2> QED BY <2>1, <2>2, <2>3
  <1>5. ASSUME NEW i \in 1..Len(t)
        PROVE  t[i] = f + Len(h) + i \/ (s = "stopped" /\ i = Len(t))
    <2>1. i + 1 \in 1..Len(q) /\ t[i] = q[i + 1]
      OBVIOUS
    <2>2. q[i + 1] = f + Len(g) + (i + 1) \/ (s = "stopped" /\ i + 1 = Len(q))
      BY <2>1 DEF InOrder
    <2> QED BY <2>1, <2>2
  <1>6. ASSUME s = "stopped"
        PROVE  t[Len(t)] = Sentinel
    <2>1. Len(t) \in 1..Len(t) /\ Len(t) + 1 = Len(q)
      BY <1>3, <1>6
    <2>2. t[Len(t)] = q[Len(t) + 1]
      BY <2>1
    <2> QED BY <1>6, <2>1, <2>2 DEF InOrder
  <1>7. /\ f <= n
        /\ s = "live" => Len(h) + Len(t) = n - f
        /\ s = "stopped" => Len(h) + Len(t) = n - f + 1 /\ Len(t) > 0
    <2>1. Len(h) + Len(t) = Len(g) + Len(q)
      OBVIOUS
    <2>2. s = "stopped" => Len(t) > 0
      BY <1>3
    <2>3. /\ f <= n
          /\ s = "live" => Len(g) + Len(q) = n - f
          /\ s = "stopped" => Len(g) + Len(q) = n - f + 1
      BY DEF InOrder
    <2> HIDE DEF FirstMoves
    <2> QED BY <2>1, <2>2, <2>3
  <1> HIDE DEF FirstMoves
  <1> QED BY <1>4, <1>5, <1>6, <1>7 DEF InOrder

\* __anext__() takes a message, or the sentinel, from the queue.
LEMMA TakeInOrder ==
    ASSUME NEW g \in Seq(Nat), NEW q \in Seq(Nat), NEW f \in Nat, NEW n \in Nat,
           NEW s \in {"live", "stopped"}, InOrder(g, q, f, n, s), Len(q) > 0
    PROVE  IF Head(q) = Sentinel
           THEN s = "stopped" /\ InOrder(g, Tail(q), f, n, "ended")
           ELSE InOrder(Append(g, Head(q)), Tail(q), f, n, s)
  <1> DEFINE t == Tail(q)
             h == Append(g, Head(q))
  <1>1. Len(q) \in Nat \ {0} /\ Len(g) \in Nat /\ Head(q) = q[1]
    BY LenProperties
  <1>2. Head(q) \in Nat /\ Len(t) = Len(q) - 1 /\ \A i \in 1..Len(t) : t[i] = q[i + 1]
    BY <1>1, EmptySeq, HeadTailProperties
  <1>3. /\ Len(h) = Len(g) + 1
        /\ \A i \in 1..Len(g) : h[i] = g[i]
        /\ h[Len(g) + 1] = q[1]
    BY <1>1, <1>2, AppendProperties
  <1> HIDE DEF t, h
  <1>4. CASE Head(q) = Sentinel
    <2>1. 1 \in 1..Len(q) /\ q[1] # f + Len(g) + 1
      BY <1>1, <1>4 DEF Sentinel
    <2>2. s = "stopped" /\ Len(q) = 1
      BY <1>1, <2>1 DEF InOrder
    <2>3. Len(g) = n - f /\ f <= n /\ \A i \in 1..Len(g) : g[i] = f + i
      BY <1>1, <2>2, SMTT(40) DEF InOrder
    <2>4. InOrder(g, t, f, n, "ended")
      BY <1>2, <2>2, <2>3 DEF InOrder
    <2> QED BY <1>4, <2>2, <2>4 DEF t
  <1>5. CASE Head(q) # Sentinel
    <2>1. q[1] # Sentinel /\ FirstMoves(g, q, h, t)
      BY <1>1, <1>2, <1>3, <1>5 DEF FirstMoves
    <2>2. InOrder(h, t, f, n, s)
      BY <2>1, MoveInOrder
    <2> QED BY <1>5, <2>2 DEF t, h
  <1> QED BY <1>4, <1>5

\* A new reader.
LEMMA NewInOrder ==
    ASSUME NEW n \in Nat
    PROVE  InOrder(<<>>, <<>>, n, n, "live")
  BY DEF InOrder
-----------------------------------------------------------------------------
(* What the readers' operations do to all of them *)

\* stop() of some readers, which are registered no longer.
LEMMA StopStep ==
    ASSUME ReadIInv, NEW rs \in SUBSET held, Stop(rs), registered' = registered \ rs,
           UNCHANGED <<held, ended, got, from, received, request>>
    PROVE  ReadIInv'
  <1> USE DEF ReadIInv, Stop
  <1>1. \A r \in Readers : Append(queue[r], Sentinel) \in Seq(Nat)
    BY AppendProperties DEF ReadTypeOK, Sentinel
  <1>2. queue' \in [Readers -> Seq(Nat)] /\ to' \in [Readers -> Nat]
    BY <1>1 DEF ReadTypeOK
  <1>3. ReadTypeOK'
    BY <1>2 DEF ReadTypeOK
  <1>4. Registered' /\ RequestListens'
    BY DEF ReadTypeOK, Registered, RequestListens
  <1>5. ASSUME NEW r \in held
        PROVE  InOrder(got[r], queue'[r], from[r], LastDue(r)', Phase(r)')
    <2>1. r \in Readers
      BY DEF ReadTypeOK
    <2>2. InOrder(got[r], queue[r], from[r], LastDue(r), Phase(r))
      BY <1>5 DEF StreamInv
    <2>3. CASE r \in rs \ stopped
      <3>1. /\ Phase(r) = "live" /\ LastDue(r) = received
            /\ Phase(r)' = "stopped" /\ LastDue(r)' = received
            /\ queue'[r] = Append(queue[r], Sentinel)
        BY <2>1, <2>3 DEF ReadTypeOK, Phase, LastDue
      <3>2. /\ got[r] \in Seq(Nat) /\ queue[r] \in Seq(Nat)
            /\ from[r] \in Nat /\ received \in Nat
        BY <2>1 DEF ReadTypeOK
      <3> HIDE DEF Stop, ReadIInv
      <3> QED BY <2>2, <3>1, <3>2, StopInOrder
    <2>4. CASE r \notin rs \ stopped
      <3>1. Phase(r)' = Phase(r) /\ LastDue(r)' = LastDue(r) /\ queue'[r] = queue[r]
        BY <2>1, <2>4 DEF ReadTypeOK, Phase, LastDue
      <3> QED BY <2>2, <3>1
    <2> QED BY <2>3, <2>4
  <1>6. StreamInv'
    BY <1>5 DEF StreamInv
  <1> QED BY <1>3, <1>4, <1>6

\* A reader is forgotten, and the request that had it has none.
LEMMA ForgetStep ==
    ASSUME ReadIInv, NEW r \in held, Forget(r), received' = received,
           request' \in [Clients -> Readers \cup {NoReader}],
           \A c \in Clients :
               \/ request'[c] = NoReader
               \/ request'[c] = request[c] /\ request[c] # r
    PROVE  ReadIInv'
  <1> USE DEF ReadIInv, Forget
  <1>1. r \in Readers /\ <<>> \in Seq(Nat)
    BY DEF ReadTypeOK
  <1>2. ReadTypeOK'
    BY <1>1 DEF ReadTypeOK
  <1>3. Registered'
    BY <1>1 DEF ReadTypeOK, Registered
  <1>4. RequestListens'
    BY DEF ReadTypeOK, RequestListens
  <1>5. ASSUME NEW s \in held'
        PROVE  InOrder(got'[s], queue'[s], from'[s], LastDue(s)', Phase(s)')
    <2>1. s \in held /\ s # r /\ s \in Readers
      BY DEF ReadTypeOK
    <2>2. /\ got'[s] = got[s] /\ queue'[s] = queue[s] /\ from'[s] = from[s]
          /\ LastDue(s)' = LastDue(s) /\ Phase(s)' = Phase(s)
      BY <2>1 DEF ReadTypeOK, LastDue, Phase
    <2> QED BY <2>1, <2>2 DEF StreamInv
  <1>6. StreamInv'
    BY <1>5 DEF StreamInv
  <1> QED BY <1>2, <1>3, <1>4, <1>6

\* A reader is added, and one request at most is given it.
LEMMA AddStep ==
    ASSUME ReadIInv, NEW r \in Readers, Added(r),
           UNCHANGED <<stopped, ended, queue, got, to, received>>,
           request' \in [Clients -> Readers \cup {NoReader}],
           \A c \in Clients : request'[c] \in {request[c], r},
           \A c \in Clients, d \in Clients :
               request'[c] # request[c] /\ request'[d] # request[d] => c = d
    PROVE  ReadIInv'
  <1> USE DEF ReadIInv, Added
  <1>1. ReadTypeOK'
    BY DEF ReadTypeOK
  <1>2. Registered'
    BY DEF ReadTypeOK, Registered
  <1>3. RequestListens'
    <2>1. ASSUME NEW c \in Clients, request[c] # NoReader
          PROVE  request[c] \in held /\ request[c] # r
      BY <2>1 DEF ReadTypeOK, RequestListens
    <2>2. r # NoReader
      BY SerialAssumption
    <2> QED BY <2>1, <2>2 DEF ReadTypeOK, RequestListens
  <1>4. ASSUME NEW s \in held'
        PROVE  InOrder(got[s], queue[s], from'[s], LastDue(s)', Phase(s)')
    <2>1. s \in Readers
      BY DEF ReadTypeOK
    <2>2. CASE s = r
      <3>1. r \notin stopped /\ r \notin ended /\ received \in Nat
        BY DEF ReadTypeOK
      <3>2. /\ got[r] = <<>> /\ queue[r] = <<>> /\ from'[r] = received
            /\ LastDue(r)' = received /\ Phase(r)' = "live"
        BY <3>1 DEF ReadTypeOK, Registered, LastDue, Phase
      <3> QED BY <2>2, <3>1, <3>2, NewInOrder
    <2>3. CASE s # r
      <3>1. s \in held /\ from'[s] = from[s] /\ LastDue(s)' = LastDue(s)
            /\ Phase(s)' = Phase(s)
        BY <2>1, <2>3 DEF ReadTypeOK, LastDue, Phase
      <3> QED BY <3>1 DEF StreamInv
    <2> QED BY <2>2, <2>3
  <1>5. StreamInv'
    BY <1>4 DEF StreamInv
  <1> QED BY <1>1, <1>2, <1>3, <1>5

\* Somebody takes the next thing from a reader's queue.
LEMMA IterateStep ==
    ASSUME ReadIInv, NEW r \in Readers, Iterate(r)
    PROVE  ReadIInv'
  <1> USE DEF ReadIInv, Iterate, writeVars
  <1>1. /\ r \in held /\ r \notin ended
        /\ queue[r] \in Seq(Nat) /\ got[r] \in Seq(Nat)
        /\ from[r] \in Nat /\ LastDue(r) \in Nat
    BY DEF ReadTypeOK, Shared, LastDue
  <1>2. /\ Len(queue[r]) > 0
        /\ Head(queue[r]) \in Nat /\ Tail(queue[r]) \in Seq(Nat)
    BY <1>1, EmptySeq, HeadTailProperties
  <1>3. Append(got[r], Head(queue[r])) \in Seq(Nat)
    BY <1>1, <1>2, AppendProperties
  <1>4. /\ Phase(r) \in {"live", "stopped"}
        /\ InOrder(got[r], queue[r], from[r], LastDue(r), Phase(r))
        /\ Phase(r) = "stopped" => r \in stopped
    BY <1>1 DEF StreamInv, Phase
  <1>5. IF Head(queue[r]) = Sentinel
        THEN /\ Phase(r) = "stopped"
             /\ InOrder(got[r], Tail(queue[r]), from[r], LastDue(r), "ended")
        ELSE InOrder(Append(got[r], Head(queue[r])), Tail(queue[r]), from[r],
                     LastDue(r), Phase(r))
    <2> HIDE DEF ReadIInv, Iterate
    <2> QED BY <1>1, <1>2, <1>4, TakeInOrder
  <1>6. ReadTypeOK'
    <2>1. queue' \in [Readers -> Seq(Nat)]
      BY <1>2 DEF ReadTypeOK
    <2>2. got' \in [Readers -> Seq(Nat)]
      BY <1>3 DEF ReadTypeOK
    <2>3. ended' \subseteq stopped'
      BY <1>4, <1>5 DEF ReadTypeOK
    <2> QED BY <2>1, <2>2, <2>3 DEF ReadTypeOK
  <1>7. Registered' /\ RequestListens'
    BY <1>1 DEF ReadTypeOK, Registered, RequestListens
  <1>8. ASSUME NEW s \in held'
        PROVE  InOrder(got'[s], queue'[s], from'[s], LastDue(s)', Phase(s)')
    <2>1. s \in held /\ s \in Readers
      BY DEF ReadTypeOK
    <2>2. from'[s] = from[s] /\ LastDue(s)' = LastDue(s)
      BY DEF LastDue
    <2>3. CASE s # r
      <3>1. got'[s] = got[s] /\ queue'[s] = queue[s] /\ Phase(s)' = Phase(s)
        BY <2>1, <2>3 DEF ReadTypeOK, Phase
      <3> QED BY <2>1, <2>2, <3>1 DEF StreamInv
    <2>4. CASE s = r /\ Head(queue[r]) = Sentinel
      <3>1. got'[r] = got[r] /\ queue'[r] = Tail(queue[r]) /\ Phase(r)' = "ended"
        BY <1>1, <2>4 DEF ReadTypeOK, Phase
      <3> QED BY <1>5, <2>2, <2>4, <3>1
    <2>5. CASE s = r /\ Head(queue[r]) # Sentinel
      <3>1. /\ got'[r] = Append(got[r], Head(queue[r])) /\ queue'[r] = Tail(queue[r])
            /\ Phase(r)' = Phase(r)
        BY <1>1, <2>5 DEF ReadTypeOK, Phase
      <3> QED BY <1>5, <2>2, <2>5, <3>1
    <2> QED BY <2>3, <2>4, <2>5
  <1>9. StreamInv'
    BY <1>8 DEF StreamInv
  <1> QED BY <1>6, <1>7, <1>9

\* Messages are decoded and queued for every reader.
LEMMA DataReceivedStep ==
    ASSUME ReadIInv, NEW p \in Links, NEW n \in Nat, DataReceived(p, n)
    PROVE  ReadIInv'
  <1> USE DEF ReadIInv, DataReceived, writeVars
  <1>1. Delivered(n) \in Seq(Nat) /\ received \in Nat
    BY DEF Delivered, ReadTypeOK
  <1>2. \A r \in Readers : queue[r] \o Delivered(n) \in Seq(Nat)
    BY <1>1, ConcatProperties DEF ReadTypeOK
  <1>3. queue' \in [Readers -> Seq(Nat)] /\ received' \in Nat
    BY <1>1, <1>2 DEF ReadTypeOK
  <1>4. ReadTypeOK'
    BY <1>3 DEF ReadTypeOK
  <1>5. Registered' /\ RequestListens'
    BY DEF ReadTypeOK, Registered, RequestListens
  <1>6. ASSUME NEW r \in held
        PROVE  InOrder(got[r], queue'[r], from[r], LastDue(r)', Phase(r)')
    <2>1. /\ r \in Readers /\ Phase(r)' = Phase(r)
          /\ InOrder(got[r], queue[r], from[r], LastDue(r), Phase(r))
          /\ got[r] \in Seq(Nat) /\ queue[r] \in Seq(Nat) /\ from[r] \in Nat
      BY <1>6 DEF ReadTypeOK, Phase, StreamInv
    <2>2. CASE r \in stopped
      <3>1. queue'[r] = queue[r] /\ LastDue(r)' = LastDue(r)
        BY <2>1, <2>2 DEF LastDue
      <3> QED BY <2>1, <3>1
    <2>3. CASE r \notin stopped
      <3>1. /\ r \in registered /\ r \notin ended
        BY <1>6, <2>1, <2>3 DEF ReadTypeOK, Registered
      <3>2. /\ Phase(r) = "live" /\ LastDue(r) = received
            /\ LastDue(r)' = received + n
            /\ queue'[r] = queue[r] \o [i \in 1..n |-> received + i]
        BY <2>1, <2>3, <3>1 DEF Phase, LastDue, Delivered
      <3> HIDE DEF ReadIInv, DataReceived
      <3> QED BY <1>1, <2>1, <3>2, FeedInOrder, SMTT(40)
    <2> QED BY <2>2, <2>3
  <1>7. StreamInv'
    BY <1>6 DEF StreamInv
  <1> QED BY <1>4, <1>5, <1>7

-----------------------------------------------------------------------------
(* Who is at which link *)

\* A client stops having anything to do with its link, whose lock it had if it was
\* in its delay.
LEMMA LeaveStep ==
    ASSUME LinkIInv, NEW c \in Clients, NEW s \in States \ {"connecting", "lock", "delay"},
           pc' = [pc EXCEPT ![c] = s],
           at' = [at EXCEPT ![c] = NoLink],
           protocol' \in Links \cup {NoLink}, link' \in [Links -> LinkStates],
           \/ pc[c] = "delay" /\ sendLock' = [sendLock EXCEPT ![at[c]] = Released(@)]
           \/ /\ pc[c] # "delay"
              /\ sendLock' \in [Links -> LockType(Clients)]
              /\ \A p \in Links : sendLock'[p].owner = sendLock[p].owner
    PROVE  LinkIInv'
  <1> USE DEF LinkIInv
  <1>1. sendLock' \in [Links -> LockType(Clients)]
    BY ReleasedType DEF LinkTypeOK
  <1>2. LinkTypeOK'
    BY <1>1 DEF LinkTypeOK
  <1>3. ASSUME NEW d \in Clients
        PROVE  /\ pc'[d] = "delay" => /\ d # c /\ pc[d] = "delay"
                                      /\ at'[d] = at[d] /\ at[d] \in Links
               /\ d # c => pc'[d] = pc[d] /\ at'[d] = at[d]
    BY DEF LinkTypeOK, Placed
  <1>4. Placed'
    BY <1>3 DEF Placed, LinkTypeOK
  <1>5. Spaced'
    <2>1. CASE pc[c] = "delay"
      <3>1. at[c] \in Links /\ sendLock[at[c]].owner = c
        BY <2>1 DEF Placed, Spaced
      <3>2. \A p \in Links : sendLock'[p].owner
                                 = IF p = at[c] THEN NoOwner ELSE sendLock[p].owner
        BY <2>1, <3>1, ReleasedType DEF LinkTypeOK
      <3> QED BY <1>3, <2>1, <3>1, <3>2, SerialAssumption DEF Spaced, Locked, LinkTypeOK
    <2>2. CASE pc[c] # "delay"
      <3>1. \A p \in Links : sendLock'[p].owner = sendLock[p].owner
        BY <2>2
      <3> QED BY <1>3, <2>2, <3>1, SerialAssumption DEF Spaced, Locked, LinkTypeOK
    <2> QED BY <2>1, <2>2
  <1> QED BY <1>2, <1>4, <1>5

\* A client takes the lock of a link, that nobody has.
LEMMA TakeStep ==
    ASSUME LinkIInv, NEW c \in Clients, NEW p \in Links,
           pc[c] # "delay", sendLock[p].owner = NoOwner,
           pc' = [pc EXCEPT ![c] = "delay"],
           at' \in [Clients -> Links \cup {NoLink}], at'[c] = p,
           \A d \in Clients \ {c} : at'[d] = at[d],
           sendLock' = [sendLock EXCEPT ![p] = TakenBy(@, c)],
           UNCHANGED linkVars
    PROVE  LinkIInv'
  <1> USE DEF LinkIInv, linkVars
  <1>1. TakenBy(sendLock[p], c) \in LockType(Clients) /\ TakenBy(sendLock[p], c).owner = c
    BY TakenByType DEF LinkTypeOK
  <1>2. /\ sendLock' \in [Links -> LockType(Clients)]
        /\ \A q \in Links : sendLock'[q].owner = IF q = p THEN c ELSE sendLock[q].owner
    BY <1>1 DEF LinkTypeOK
  <1>3. LinkTypeOK'
    BY <1>2 DEF LinkTypeOK, States
  <1>4. Placed'
    BY DEF Placed, LinkTypeOK
  <1>5. Spaced'
    <2>1. ASSUME NEW d \in Clients, pc'[d] = "delay"
          PROVE  sendLock'[at'[d]].owner = d
      <3>1. CASE d = c
        BY <1>2, <3>1
      <3>2. CASE d # c
        <4>1. pc[d] = "delay" /\ at'[d] = at[d] /\ at[d] \in Links
          BY <2>1, <3>2 DEF LinkTypeOK, Placed
        <4>2. at[d] # p
          BY <4>1, SerialAssumption DEF Spaced
        <4> QED BY <1>2, <4>1, <4>2 DEF Spaced
      <3> QED BY <3>1, <3>2
    <2>2. ASSUME NEW q \in Links, Locked(sendLock[q])'
          PROVE  LET d == sendLock'[q].owner IN pc'[d] = "delay" /\ at'[d] = q
      <3>1. CASE q = p
        BY <1>2, <3>1 DEF LinkTypeOK
      <3>2. CASE q # p
        <4>1. sendLock'[q].owner = sendLock[q].owner /\ Locked(sendLock[q])
          BY <1>2, <2>2, <3>2 DEF Locked
        <4>2. sendLock[q].owner \in Clients
          BY <4>1 DEF LinkTypeOK, LockType, Locked
        <4>3. sendLock[q].owner # c
          BY <4>1 DEF Spaced
        <4> QED BY <4>1, <4>2, <4>3 DEF Spaced, LinkTypeOK
      <3> QED BY <3>1, <3>2
    <2> QED BY <2>1, <2>2 DEF Spaced
  <1> QED BY <1>3, <1>4, <1>5

\* A client that is not in its delay goes somewhere else; no lock changes its owner.
LEMMA ShiftStep ==
    ASSUME LinkIInv, NEW c \in Clients, NEW s \in States \ {"delay"},
           pc[c] # "delay", pc' = [pc EXCEPT ![c] = s],
           at' \in [Clients -> Links \cup {NoLink}],
           s \in {"connecting", "lock"} => at'[c] \in Links,
           \A d \in Clients \ {c} : at'[d] = at[d],
           sendLock' \in [Links -> LockType(Clients)],
           \A q \in Links : sendLock'[q].owner = sendLock[q].owner,
           protocol' \in Links \cup {NoLink}, link' \in [Links -> LinkStates]
    PROVE  LinkIInv'
  <1> USE DEF LinkIInv
  <1>1. LinkTypeOK'
    BY DEF LinkTypeOK
  <1>2. Placed'
    BY DEF Placed, LinkTypeOK
  <1>3. Spaced'
    <2>1. ASSUME NEW d \in Clients, pc'[d] = "delay"
          PROVE  sendLock'[at'[d]].owner = d
      <3>1. d # c /\ pc[d] = "delay" /\ at'[d] = at[d] /\ at[d] \in Links
        BY <2>1 DEF LinkTypeOK, Placed
      <3> QED BY <3>1 DEF Spaced
    <2>2. ASSUME NEW q \in Links, Locked(sendLock[q])'
          PROVE  LET d == sendLock'[q].owner IN pc'[d] = "delay" /\ at'[d] = q
      <3>1. sendLock'[q].owner = sendLock[q].owner /\ Locked(sendLock[q])
        BY <2>2 DEF Locked
      <3>2. sendLock[q].owner \in Clients /\ sendLock[q].owner # c
        BY <3>1 DEF LinkTypeOK, LockType, Locked, Spaced
      <3> QED BY <3>1, <3>2 DEF Spaced, LinkTypeOK
    <2> QED BY <2>1, <2>2 DEF Spaced
  <1> QED BY <1>1, <1>2, <1>3

\* The links after disconnect() are links.
LEMMA DisconnectedType ==
    ASSUME LinkIInv
    PROVE  Disconnected \in [Links -> LinkStates]
  BY DEF LinkIInv, LinkTypeOK, Disconnected, LinkStates

LEMMA ConnectStep ==
    ASSUME LinkIInv, NEW c \in Clients, NEW p \in Links, Connect(c, p)
    PROVE  LinkIInv'
  <1> USE DEF Connect
  <1>1. /\ link' \in [Links -> LinkStates] /\ protocol' \in Links \cup {NoLink}
        /\ at' \in [Clients -> Links \cup {NoLink}] /\ at'[c] = p
        /\ \A d \in Clients \ {c} : at'[d] = at[d]
    BY DisconnectedType DEF LinkIInv, LinkTypeOK, LinkStates
  <1>2. /\ Unlocked \in LockType(Clients) /\ Unlocked.owner = NoOwner
        /\ sendLock' \in [Links -> LockType(Clients)]
    BY DEF Unlocked, LockType, LinkIInv, LinkTypeOK
  <1>3. sendLock[p].owner = NoOwner
    BY DEF Unused, LinkIInv, LinkTypeOK, LockType, Spaced, Locked
  <1>4. \A q \in Links : sendLock'[q].owner = sendLock[q].owner
    BY <1>2, <1>3 DEF LinkIInv, LinkTypeOK
  <1> HIDE DEF Connect
  <1>5. /\ pc[c] # "delay" /\ pc' = [pc EXCEPT ![c] = "connecting"]
        /\ "connecting" \in States \ {"delay"}
    BY DEF Connect, States
  <1> QED BY <1>1, <1>2, <1>4, <1>5, ShiftStep

\* A write is discarded, begins, or waits for the send lock.
LEMMA StartWriteStep ==
    ASSUME LinkIInv, NEW c \in Clients, NEW r, pc[c] = "ready", StartWrite(c, r),
           UNCHANGED linkVars
    PROVE  LinkIInv'
  <1>0. /\ link' \in [Links -> LinkStates] /\ protocol' \in Links \cup {NoLink}
        /\ pc[c] # "delay"
    BY DEF LinkIInv, LinkTypeOK, linkVars
  <1>1. CASE ~IsOpen
    <2>1. /\ pc' = [pc EXCEPT ![c] = AfterWrite(r)] /\ sendLock' = sendLock /\ at' = at
          /\ AfterWrite(r) \in States \ {"delay", "connecting", "lock"}
      BY <1>1 DEF StartWrite, AfterWrite, States
    <2>2. /\ at' \in [Clients -> Links \cup {NoLink}]
          /\ sendLock' \in [Links -> LockType(Clients)]
      BY <2>1 DEF LinkIInv, LinkTypeOK
    <2> QED BY <1>0, <2>1, <2>2, ShiftStep
  <1>2. CASE IsOpen
    <2>1. /\ protocol \in Links
          /\ at' \in [Clients -> Links \cup {NoLink}] /\ at'[c] = protocol
          /\ \A d \in Clients \ {c} : at'[d] = at[d]
      BY <1>2 DEF IsOpen, StartWrite, LinkIInv, LinkTypeOK
    <2>2. CASE Available(sendLock[protocol])
      <3>1. /\ pc' = [pc EXCEPT ![c] = "delay"]
            /\ sendLock' = [sendLock EXCEPT ![protocol] = TakenBy(@, c)]
            /\ sendLock[protocol].owner = NoOwner
        BY <1>2, <2>2 DEF StartWrite, Available
      <3> QED BY <1>0, <2>1, <3>1, TakeStep
    <2>3. CASE ~Available(sendLock[protocol])
      <3>1. /\ pc' = [pc EXCEPT ![c] = "lock"] /\ "lock" \in States \ {"delay"}
            /\ sendLock' = [sendLock EXCEPT ![protocol] = Enqueued(@, c)]
        BY <1>2, <2>3 DEF StartWrite, States
      <3>2. /\ Enqueued(sendLock[protocol], c) \in LockType(Clients)
            /\ Enqueued(sendLock[protocol], c).owner = sendLock[protocol].owner
        BY <2>1, EnqueuedType DEF LinkIInv, LinkTypeOK
      <3>3. /\ sendLock' \in [Links -> LockType(Clients)]
            /\ \A q \in Links : sendLock'[q].owner = sendLock[q].owner
        BY <3>1, <3>2 DEF LinkIInv, LinkTypeOK
      <3> QED BY <1>0, <2>1, <3>1, <3>3, ShiftStep
    <2> QED BY <2>2, <2>3
  <1> QED BY <1>1, <1>2

LEMMA GetLockStep ==
    ASSUME LinkIInv, NEW c \in Clients, GetLock(c)
    PROVE  LinkIInv'
  <1>0. /\ pc[c] = "lock" /\ at[c] \in Links /\ sendLock[at[c]] \in LockType(Clients)
        /\ sendLock[at[c]].owner = NoOwner /\ UNCHANGED linkVars
    BY DEF GetLock, LinkIInv, LinkTypeOK, Placed, Woken
  <1>1. CASE link[at[c]] = "gone"
    <2>1. /\ TakenBy(sendLock[at[c]], c) \in LockType(Clients)
          /\ Unwound(TakenBy(sendLock[at[c]], c)) \in LockType(Clients)
          /\ Unwound(TakenBy(sendLock[at[c]], c)).owner = NoOwner
      BY <1>0, TakenByType, ReleasedType DEF Unwound
    <2>2. /\ sendLock' \in [Links -> LockType(Clients)]
          /\ \A p \in Links : sendLock'[p].owner = sendLock[p].owner
      BY <1>0, <1>1, <2>1 DEF GetLock, LinkIInv, LinkTypeOK
    <2>3. /\ pc' = [pc EXCEPT ![c] = "attribute_error"]
          /\ at' = [at EXCEPT ![c] = NoLink]
          /\ "attribute_error" \in States \ {"connecting", "lock", "delay"}
          /\ protocol' \in Links \cup {NoLink} /\ link' \in [Links -> LinkStates]
      BY <1>0, <1>1 DEF GetLock, States, Raising, LinkIInv, LinkTypeOK, linkVars
    <2> QED BY <1>0, <2>2, <2>3, LeaveStep
  <1>2. CASE link[at[c]] # "gone"
    <2>1. /\ pc' = [pc EXCEPT ![c] = "delay"] /\ at' = at /\ pc[c] # "delay"
          /\ at' \in [Clients -> Links \cup {NoLink}]
          /\ sendLock' = [sendLock EXCEPT ![at[c]] = TakenBy(@, c)]
      BY <1>0, <1>2 DEF GetLock, LinkIInv, LinkTypeOK
    <2> QED BY <1>0, <2>1, TakeStep
  <1> QED BY <1>1, <1>2

\* A write that is cancelled leaves the queue of the lock, or releases it.
LEMMA CancelWriteStep ==
    ASSUME LinkIInv, NEW c \in Clients, CancelWrite(c)
    PROVE  LinkIInv'
  <1>1. /\ pc' = [pc EXCEPT ![c] = "cancelled"]
        /\ at' = [at EXCEPT ![c] = NoLink]
        /\ "cancelled" \in States \ {"connecting", "lock", "delay"}
        /\ protocol' \in Links \cup {NoLink} /\ link' \in [Links -> LinkStates]
    BY DEF CancelWrite, States, Raising, LinkIInv, LinkTypeOK, linkVars
  <1>2. CASE pc[c] = "lock"
    <2>1. at[c] \in Links /\ sendLock[at[c]] \in LockType(Clients)
      BY <1>2 DEF LinkIInv, LinkTypeOK, Placed
    <2>2. PICK i \in DOMAIN sendLock[at[c]].waiters :
              sendLock' = [sendLock EXCEPT ![at[c]] = Abandoned(@, i)]
      BY <1>2 DEF CancelWrite
    <2>3. i \in 1..Len(sendLock[at[c]].waiters)
      BY <2>1, LenProperties DEF LockType
    <2>4. /\ Abandoned(sendLock[at[c]], i) \in LockType(Clients)
          /\ Abandoned(sendLock[at[c]], i).owner = sendLock[at[c]].owner
      BY <2>1, <2>3, AbandonedType
    <2>5. /\ sendLock' \in [Links -> LockType(Clients)]
          /\ \A p \in Links : sendLock'[p].owner = sendLock[p].owner
      BY <2>1, <2>2, <2>4 DEF LinkIInv, LinkTypeOK
    <2> QED BY <1>1, <1>2, <2>5, LeaveStep
  <1>3. CASE pc[c] = "delay"
    <2>1. sendLock' = [sendLock EXCEPT ![at[c]] = Released(@)]
      BY <1>3 DEF CancelWrite, Unwound
    <2> QED BY <1>1, <1>3, <2>1, LeaveStep
  <1>4. CASE pc[c] = "window"
    <2>1. /\ sendLock' \in [Links -> LockType(Clients)]
          /\ \A p \in Links : sendLock'[p].owner = sendLock[p].owner
      BY <1>4 DEF CancelWrite, LinkIInv, LinkTypeOK
    <2> QED BY <1>1, <1>4, <2>1, LeaveStep
  <1> QED BY <1>2, <1>3, <1>4 DEF CancelWrite

\* Whatever a client does, it keeps to the order of the send locks.
LEMMA ClientLinks ==
    ASSUME LinkIInv, NEW c \in Clients, Client(c)
    PROVE  LinkIInv'
  <1>1. ASSUME NEW p \in Links, Connect(c, p)
        PROVE  LinkIInv'
    BY <1>1, ConnectStep
  <1>2. CASE OpenFails(c) \/ Connected(c) \/ CancelConnect(c)
    <2>1. /\ pc' = [pc EXCEPT ![c] = "ready"] /\ pc[c] = "connecting"
          /\ at' = [at EXCEPT ![c] = NoLink]
          /\ "ready" \in States \ {"connecting", "lock", "delay"}
          /\ sendLock' = sendLock /\ at[c] \in Links
      BY <1>2 DEF OpenFails, Connected, CancelConnect, States, LinkIInv, Placed
    <2>2. protocol' \in Links \cup {NoLink} /\ link' \in [Links -> LinkStates]
      BY <1>2, <2>1 DEF OpenFails, Connected, CancelConnect, LinkIInv, LinkTypeOK,
                        LinkStates, linkVars
    <2>3. /\ sendLock' \in [Links -> LockType(Clients)]
          /\ \A p \in Links : sendLock'[p].owner = sendLock[p].owner
      BY <2>1 DEF LinkIInv, LinkTypeOK
    <2> QED BY <2>1, <2>2, <2>3, LeaveStep
  <1>3. CASE Write(c) \/ \E r \in Readers : ProcessRequest(c, r)
    BY <1>3, StartWriteStep DEF Write, ProcessRequest
  <1>4. CASE GetLock(c)
    BY <1>4, GetLockStep
  <1>5. CASE DelayOver(c)
    <2>1. /\ pc' = [pc EXCEPT ![c] = AfterWrite(request[c])] /\ pc[c] = "delay"
          /\ at' = [at EXCEPT ![c] = NoLink]
          /\ AfterWrite(request[c]) \in States \ {"connecting", "lock", "delay"}
          /\ protocol' \in Links \cup {NoLink} /\ link' \in [Links -> LinkStates]
          /\ sendLock' = [sendLock EXCEPT ![at[c]] = Released(@)]
      BY <1>5 DEF DelayOver, AfterWrite, States, LinkIInv, LinkTypeOK, linkVars
    <2> QED BY <2>1, LeaveStep
  <1>6. CASE WindowOver(c) \/ Raised(c)
    <2>1. PICK s \in {"ready", "key_error"} : pc' = [pc EXCEPT ![c] = s]
      BY <1>6 DEF WindowOver, Raised
    <2>2. /\ pc[c] # "delay" /\ at' = at /\ sendLock' = sendLock
          /\ s \in States \ {"delay", "connecting", "lock"}
          /\ UNCHANGED linkVars
      BY <1>6 DEF WindowOver, Raised, Raising, States
    <2>3. /\ at' \in [Clients -> Links \cup {NoLink}]
          /\ sendLock' \in [Links -> LockType(Clients)]
          /\ protocol' \in Links \cup {NoLink} /\ link' \in [Links -> LinkStates]
      BY <2>2 DEF LinkIInv, LinkTypeOK, linkVars
    <2> QED BY <2>1, <2>2, <2>3, ShiftStep
  <1>7. CASE CancelWrite(c)
    BY <1>7, CancelWriteStep
  <1> QED BY <1>1, <1>2, <1>3, <1>4, <1>5, <1>6, <1>7 DEF Client

\* Steps that concern neither a client nor a lock.
LEMMA OtherLinks ==
    ASSUME LinkIInv, Line \/ Call
    PROVE  LinkIInv'
  <1>1. UNCHANGED <<sendLock, pc, at>>
    BY DEF Line, Call, DataReceived, ConnectionMade, DeviceDrops, ConnectionLost,
           Disconnect, Close, AddReader, RemoveReader, DropReader, Iterate, writeVars
  <1>2. protocol' \in Links \cup {NoLink} /\ link' \in [Links -> LinkStates]
    BY DisconnectedType
       DEF Line, Call, DataReceived, ConnectionMade, DeviceDrops, ConnectionLost,
           Disconnect, Close, AddReader, RemoveReader, DropReader, Iterate, linkVars,
           LinkIInv, LinkTypeOK, LinkStates
  <1> QED BY <1>1, <1>2 DEF LinkIInv, LinkTypeOK, Spaced, Placed, Locked

-----------------------------------------------------------------------------
(* The inductive invariant *)

\* What the clients do with the readers of their requests.
LEMMA ClientReaders ==
    ASSUME ReadIInv, NEW c \in Clients, Client(c)
    PROVE  ReadIInv'
  <1>1. ASSUME NEW r \in Readers, ProcessRequest(c, r)
        PROVE  ReadIInv'
    <2>1. /\ Added(r) /\ UNCHANGED <<stopped, ended, queue, got, to, received>>
          /\ request' = [request EXCEPT ![c] = r]
      BY <1>1 DEF ProcessRequest, RequestReader
    <2>2. /\ request' \in [Clients -> Readers \cup {NoReader}]
          /\ \A d \in Clients : request'[d] \in {request[d], r}
          /\ \A d \in Clients : request'[d] # request[d] => d = c
      BY <2>1 DEF ReadIInv, ReadTypeOK
    <2> QED BY <2>1, <2>2, AddStep
  <1>2. CASE WindowOver(c) \/ Raised(c)
    <2>1. CASE UNCHANGED <<request, readVars, received>>
      BY <2>1 DEF readVars, ReadIInv, ReadTypeOK, Registered, StreamInv, LastDue, Phase,
                  RequestListens
    <2>2. CASE /\ Forget(request[c]) /\ request[c] # NoReader
               /\ request' = [request EXCEPT ![c] = NoReader]
               /\ received' = received
      <3>1. request[c] \in held
        BY <2>2 DEF ReadIInv, ReadTypeOK, RequestListens
      <3>2. /\ request' \in [Clients -> Readers \cup {NoReader}]
            /\ \A d \in Clients :
                   \/ request'[d] = NoReader
                   \/ request'[d] = request[d] /\ request[d] # request[c]
        BY <2>2 DEF ReadIInv, ReadTypeOK, RequestListens
      <3> QED BY <2>2, <3>1, <3>2, ForgetStep
    <2>3. request[c] \in registered => request[c] # NoReader
      BY SerialAssumption DEF ReadIInv, ReadTypeOK
    <2> QED BY <1>2, <2>1, <2>2, <2>3 DEF WindowOver, Raised
  <1>3. CASE UNCHANGED <<request, readVars, received>>
    BY <1>3 DEF readVars, ReadIInv, ReadTypeOK, Registered, StreamInv, LastDue, Phase,
                RequestListens
  <1> QED BY <1>1, <1>2, <1>3
          DEF Client, Connect, OpenFails, Connected, CancelConnect, Write, GetLock,
              DelayOver, CancelWrite

\* What is done to the readers by others.
LEMMA OtherReaders ==
    ASSUME ReadIInv, Line \/ Call
    PROVE  ReadIInv'
  <1> USE DEF writeVars
  <1>1. ASSUME NEW p \in Links, NEW n \in 1..MaxChunk, DataReceived(p, n)
        PROVE  ReadIInv'
    BY <1>1, DataReceivedStep, SerialAssumption
  <1>2. ASSUME NEW r \in Readers, AddReader(r)
        PROVE  ReadIInv'
    BY <1>2, AddStep DEF AddReader, ReadIInv, ReadTypeOK
  <1>3. ASSUME NEW r \in Readers, RemoveReader(r)
        PROVE  ReadIInv'
    <2>1. {r} \in SUBSET held
      BY <1>3 DEF RemoveReader, Shared
    <2> QED BY <1>3, <2>1, StopStep DEF RemoveReader
  <1>4. CASE Close
    <2>1. registered \in SUBSET held /\ registered' = registered \ registered
      BY <1>4 DEF Close, RemoveAll, ReadIInv, ReadTypeOK
    <2> QED BY <1>4, <2>1, StopStep DEF Close, RemoveAll
  <1>5. ASSUME NEW r \in Readers, DropReader(r)
        PROVE  ReadIInv'
    <2>1. r \in held /\ \A c \in Clients : request[c] # r
      BY <1>5 DEF DropReader, Shared
    <2>2. request' = request /\ request' \in [Clients -> Readers \cup {NoReader}]
      BY <1>5 DEF DropReader, ReadIInv, ReadTypeOK
    <2> QED BY <1>5, <2>1, <2>2, ForgetStep DEF DropReader
  <1>6. ASSUME NEW r \in Readers, Iterate(r)
        PROVE  ReadIInv'
    BY <1>6, IterateStep
  <1>7. CASE UNCHANGED <<request, readVars, received>>
    BY <1>7 DEF readVars, ReadIInv, ReadTypeOK, Registered, StreamInv, LastDue, Phase,
                RequestListens
  <1> QED BY <1>1, <1>2, <1>3, <1>4, <1>5, <1>6, <1>7
          DEF Line, Call, ConnectionMade, DeviceDrops, ConnectionLost, Disconnect

LEMMA Initially == Init => IInv
  <1> SUFFICES ASSUME Init PROVE IInv
    OBVIOUS
  <1>1. Unlocked \in LockType(Clients) /\ Unlocked.owner = NoOwner
    BY DEF Unlocked, LockType
  <1>2. LinkTypeOK /\ Placed
    BY <1>1 DEF Init, LinkTypeOK, Placed, LinkStates, States
  <1>3. Spaced
    BY <1>1 DEF Init, Spaced, Locked
  <1>4. ReadTypeOK
    <2>1. <<>> \in Seq(Nat)
      OBVIOUS
    <2> QED BY <2>1 DEF Init, ReadTypeOK
  <1>5. Registered /\ StreamInv /\ RequestListens
    BY DEF Init, Registered, StreamInv, RequestListens
  <1> QED BY <1>2, <1>3, <1>4, <1>5 DEF IInv, LinkIInv, ReadIInv

LEMMA Inductive == IInv /\ [Next]_vars => IInv'
  <1> SUFFICES ASSUME IInv, [Next]_vars PROVE IInv'
    OBVIOUS
  <1>1. CASE UNCHANGED vars
    <2>1. LinkIInv'
      BY <1>1 DEF vars, linkVars, writeVars, IInv, LinkIInv, LinkTypeOK, Spaced, Placed,
                  Locked
    <2>2. ReadIInv'
      BY <1>1 DEF vars, writeVars, readVars, IInv, ReadIInv, ReadTypeOK, Registered,
                  StreamInv, LastDue, Phase, RequestListens
    <2> QED BY <2>1, <2>2 DEF IInv
  <1>2. ASSUME NEW c \in Clients, Client(c)
        PROVE  IInv'
    BY <1>2, ClientLinks, ClientReaders DEF IInv
  <1>3. CASE Line \/ Call
    BY <1>3, OtherLinks, OtherReaders DEF IInv
  <1> QED BY <1>1, <1>2, <1>3 DEF Next

-----------------------------------------------------------------------------
\* For any number of clients and links: on one link a message is written only when the
\* delay after the previous one is over, whoever connects, disconnects, is cancelled or
\* fails meanwhile.
THEOREM WritesAreSpaced == Spec => []LinkInv
  <1>1. IInv => LinkInv
    BY DEF IInv, LinkIInv, ReadIInv, LinkInv, LinkTypeOK, ReadTypeOK, TypeOK, LinkStates
  <1> QED BY Initially, Inductive, <1>1, PTL DEF Spec

\* a is g followed by q.
Joined(g, q, a) ==
    /\ Len(g) \in Nat /\ Len(q) \in Nat
    /\ Len(a) = Len(g) + Len(q)
    /\ \A i \in 1..Len(g) : a[i] = g[i]
    /\ \A i \in 1..Len(q) : a[Len(g) + i] = q[i]

\* d is the numbers from f + 1 to n, and e the sentinel if there is one.
IsDue(d, e, f, n, phase) ==
    /\ Len(d) = n - f
    /\ \A i \in 1..Len(d) : d[i] = f + i
    /\ phase = "stopped" => Len(e) = 1 /\ e[1] = Sentinel
    /\ phase # "stopped" => Len(e) = 0

LEMMA JoinedSequence ==
    ASSUME NEW g \in Seq(Nat), NEW q \in Seq(Nat)
    PROVE  Joined(g, q, g \o q)
  <1>1. Len(g) \in Nat /\ Len(q) \in Nat
    BY LenProperties
  <1>2. /\ Len(g \o q) = Len(g) + Len(q)
        /\ \A i \in 1..(Len(g) + Len(q)) :
               (g \o q)[i] = IF i <= Len(g) THEN g[i] ELSE q[i - Len(g)]
    BY ConcatProperties
  <1>3. ASSUME NEW i \in 1..Len(g)
        PROVE  (g \o q)[i] = g[i]
    BY <1>1, <1>2
  <1>4. ASSUME NEW i \in 1..Len(q)
        PROVE  (g \o q)[Len(g) + i] = q[i]
    <2>1. /\ Len(g) + i \in 1..(Len(g) + Len(q))
          /\ ~(Len(g) + i <= Len(g)) /\ (Len(g) + i) - Len(g) = i
      BY <1>1
    <2> QED BY <1>2, <2>1
  <1> QED BY <1>1, <1>2, <1>3, <1>4 DEF Joined

\* What is in order is the sequence of the messages due, and its end.
LEMMA InOrderIsDue ==
    ASSUME NEW f \in Nat, NEW n \in Nat, NEW s \in {"live", "stopped", "ended"},
           NEW g, NEW q, NEW d, NEW e, NEW a, NEW b,
           InOrder(g, q, f, n, s), IsDue(d, e, f, n, s), Joined(g, q, a), Joined(d, e, b)
    PROVE  Len(a) = Len(b) /\ \A i \in 1..Len(a) : a[i] = b[i]
  <1>1. /\ Len(g) \in Nat /\ Len(q) \in Nat /\ Len(a) = Len(g) + Len(q)
        /\ Len(d) \in Nat /\ Len(e) \in Nat /\ Len(b) = Len(d) + Len(e)
    BY DEF Joined
  <1>2. /\ s = "stopped" => /\ Len(g) + Len(q) = Len(d) + 1 /\ Len(q) > 0 /\ Len(e) = 1
        /\ s # "stopped" => Len(g) + Len(q) = Len(d) /\ Len(e) = 0
    <2>1. CASE s = "live"
      BY <1>1, <2>1 DEF InOrder, IsDue
    <2>2. CASE s = "stopped"
      BY <1>1, <2>2 DEF InOrder, IsDue
    <2>3. CASE s = "ended"
      BY <1>1, <2>3 DEF InOrder, IsDue
    <2> QED BY <2>1, <2>2, <2>3
  <1>3. ASSUME NEW i \in 1..Len(d)
        PROVE  a[i] = f + i /\ b[i] = f + i
    <2>1. b[i] = d[i] /\ d[i] = f + i
      BY DEF Joined, IsDue
    <2>2. CASE i <= Len(g)
      <3>1. i \in 1..Len(g)
        BY <1>1, <2>2
      <3>2. a[i] = g[i] /\ g[i] = f + i
        BY <3>1 DEF Joined, InOrder
      <3> QED BY <2>1, <3>2
    <2>3. CASE i > Len(g)
      <3> DEFINE j == i - Len(g)
      <3>1. j \in 1..Len(q) /\ i = Len(g) + j /\ (s = "stopped" => j # Len(q))
        BY <1>1, <1>2, <2>3
      <3> HIDE DEF j
      <3>2. a[Len(g) + j] = q[j]
        BY <3>1 DEF Joined
      <3>3. q[j] = f + Len(g) + j
        BY <3>1 DEF InOrder
      <3>4. f + Len(g) + j = f + i
        BY <1>1, <3>1
      <3> QED BY <2>1, <3>1, <3>2, <3>3, <3>4
    <2> QED BY <1>1, <2>2, <2>3
  <1>4. ASSUME s = "stopped"
        PROVE  a[Len(d) + 1] = Sentinel /\ b[Len(d) + 1] = Sentinel
    <2>0. Len(q) > 0 /\ Len(g) + Len(q) = Len(d) + 1 /\ Len(e) = 1
      BY <1>2, <1>4
    <2>1. Len(q) \in 1..Len(q) /\ Len(g) + Len(q) = Len(d) + 1 /\ 1 \in 1..Len(e)
      BY <1>1, <2>0
    <2>2. a[Len(g) + Len(q)] = q[Len(q)] /\ b[Len(d) + 1] = e[1]
      BY <2>1 DEF Joined
    <2>3. q[Len(q)] = Sentinel /\ e[1] = Sentinel
      BY <1>4 DEF InOrder, IsDue
    <2> QED BY <2>1, <2>2, <2>3
  <1>5. Len(a) = Len(b) /\ (s = "stopped" \/ Len(a) = Len(d)) /\ Len(a) <= Len(d) + 1
    <2>1. CASE s = "stopped"
      <3>1. Len(g) + Len(q) = Len(d) + 1 /\ Len(e) = 1
        BY <1>2, <2>1
      <3> QED BY <1>1, <2>1, <3>1
    <2>2. CASE s # "stopped"
      <3>1. Len(g) + Len(q) = Len(d) /\ Len(e) = 0
        BY <1>2, <2>2
      <3> QED BY <1>1, <3>1
    <2> QED BY <2>1, <2>2
  <1>6. \A i \in 1..Len(a) : i \in 1..Len(d) \/ (s = "stopped" /\ i = Len(d) + 1)
    BY <1>1, <1>5
  <1> QED BY <1>3, <1>4, <1>5, <1>6

\* For any number of readers and messages, and any order of chunks, reconnections,
\* removals and iterations: a reader returns exactly the messages that were received
\* while it was listening, in their order, and then it ends.
THEOREM ReadersMissNothing == Spec => []ReaderInv
  <1>1. ASSUME ReadIInv
        PROVE  ReaderInv
    <2>1. ASSUME NEW r \in held
          PROVE  got[r] \o queue[r] = Due(r) \o End(r)
      <3> DEFINE f == from[r]
                 n == LastDue(r)
                 a == got[r] \o queue[r]
                 b == Due(r) \o End(r)
      <3>1. /\ got[r] \in Seq(Nat) /\ queue[r] \in Seq(Nat) /\ f \in Nat /\ n \in Nat
            /\ InOrder(got[r], queue[r], f, n, Phase(r))
            /\ Phase(r) \in {"live", "stopped", "ended"}
        BY <1>1, <2>1 DEF ReadIInv, ReadTypeOK, StreamInv, LastDue, Phase
      <3> HIDE DEF f, n
      <3>2. n - f \in Nat /\ Due(r) = [i \in 1..(n - f) |-> f + i]
        BY <3>1 DEF InOrder, Due, f, n
      <3> DEFINE k == n - f
      <3>3. k = n - f /\ k \in Nat /\ Due(r) = [i \in 1..k |-> f + i]
        BY <3>2
      <3> HIDE DEF k
      <3>4. /\ Due(r) \in Seq(Nat) /\ Len(Due(r)) = k
            /\ \A i \in 1..k : Due(r)[i] = f + i
        BY <3>1, <3>3
      <3>5. /\ End(r) \in Seq(Nat)
            /\ Phase(r) = "stopped" => Len(End(r)) = 1 /\ End(r)[1] = Sentinel
            /\ Phase(r) # "stopped" => Len(End(r)) = 0
        BY <1>1 DEF End, Phase, Sentinel, ReadIInv, ReadTypeOK
      <3>6. IsDue(Due(r), End(r), f, n, Phase(r))
        BY <3>3, <3>4, <3>5 DEF IsDue
      <3>7. /\ Joined(got[r], queue[r], a) /\ Joined(Due(r), End(r), b)
            /\ a \in Seq(Nat) /\ b \in Seq(Nat)
        BY <3>1, <3>4, <3>5, JoinedSequence, ConcatProperties
      <3> HIDE DEF a, b
      <3>8. Len(a) = Len(b) /\ \A i \in 1..Len(a) : a[i] = b[i]
        BY <3>1, <3>6, <3>7, InOrderIsDue
      <3>9. a = b
        BY <3>7, <3>8, SeqEqual
      <3> QED BY <3>9 DEF a, b
    <2>2. ASSUME NEW r \in ended
          PROVE  queue[r] = <<>>
      <3>1. r \in held /\ r \in Readers /\ queue[r] \in Seq(Nat) /\ Phase(r) = "ended"
        BY <1>1, <2>2 DEF ReadIInv, ReadTypeOK, Phase
      <3>2. Len(queue[r]) = 0
        BY <1>1, <3>1 DEF ReadIInv, StreamInv, InOrder
      <3> QED BY <3>1, <3>2, EmptySeq
    <2> QED BY <2>1, <2>2 DEF ReaderInv, ReaderStream, EndedLast
  <1>2. IInv => ReaderInv
    BY <1>1 DEF IInv
  <1> QED BY Initially, Inductive, <1>2, PTL DEF Spec

\* For any number of requests and readers, whatever close(), remove_reader() and
\* cancellation do: a request has a reader of its own that is registered or stopped.
THEOREM RequestsListen == Spec => []RequestListens
  <1>1. IInv => RequestListens
    BY DEF IInv, ReadIInv
  <1> QED BY Initially, Inductive, <1>1, PTL DEF Spec
-----------------------------------------------------------------------------
(* Who owns the links *)

\* Connects do not overlap: one task makes them, and nobody cancels it there.  Two
\* connects at a time, or one that is cancelled, do leave a link behind.
ConnectsInTurn == ~ConnectsCancelled /\ \A c, d \in Connectors : c = d

\* While a link is being made the connection has none.
Connecting ==
    \A c \in Clients : pc[c] = "connecting" => c \in Connectors /\ protocol = NoLink

\* The link of a connection that is disconnected is gone, and no other changes.
LEMMA DisconnectedLink ==
    ASSUME LinkIInv, NEW p \in Links
    PROVE  Disconnected[p] = IF p = protocol THEN "gone" ELSE link[p]
  BY SerialAssumption DEF Disconnected, LinkIInv, LinkTypeOK

\* What a client does with its own link.
LEMMA ClientOwns ==
    ASSUME ConnectsInTurn, LinkIInv, LinkOwned, Connecting, NEW c \in Clients, Client(c)
    PROVE  LinkOwned' /\ Connecting'
  <1> USE DEF LinkIInv, LinkTypeOK
  <1>0. NoLink \notin Links
    BY SerialAssumption
  <1>1. ASSUME NEW q \in Links, c \in Connectors, Connect(c, q)
        PROVE  LinkOwned' /\ Connecting'
    <2>1. \A d \in Clients : pc[d] # "connecting"
      BY <1>1 DEF Connect, Connecting, ConnectsInTurn
    <2>2. /\ pc' = [pc EXCEPT ![c] = "connecting"] /\ at' = [at EXCEPT ![c] = q]
          /\ protocol' = NoLink /\ link' = [Disconnected EXCEPT ![q] = "opening"]
      BY <1>1 DEF Connect
    <2>3. ASSUME NEW p \in Links, p # q
          PROVE  link'[p] \in {"none", "gone"}
      <3>1. link'[p] = IF p = protocol THEN "gone" ELSE link[p]
        BY <2>2, <2>3, DisconnectedLink, DisconnectedType
      <3> QED BY <2>1, <3>1 DEF LinkOwned, LinkStates
    <2>4. LinkOwned'
      BY <2>2, <2>3 DEF LinkOwned
    <2> QED BY <1>1, <2>1, <2>2, <2>4 DEF Connecting
  <1>2. CASE OpenFails(c) \/ Connected(c)
    <2>1. /\ pc[c] = "connecting" /\ c \in Connectors /\ protocol = NoLink
          /\ \A d \in Clients \ {c} : pc[d] # "connecting"
          /\ pc' = [pc EXCEPT ![c] = "ready"]
          /\ at' = [at EXCEPT ![c] = NoLink]
      BY <1>2 DEF OpenFails, Connected, Connecting, ConnectsInTurn
    <2>2. \A d \in Clients : pc'[d] # "connecting"
      BY <2>1
    <2>3. \A p \in Links : link[p] \in {"opening", "open", "closing"} => p = at[c]
      BY <1>0, <2>1 DEF LinkOwned
    <2>4. CASE OpenFails(c)
      <3>1. link' = [link EXCEPT ![at[c]] = "none"]
        BY <2>4 DEF OpenFails
      <3> QED BY <2>2, <2>3, <3>1 DEF LinkOwned, Connecting
    <2>5. CASE Connected(c)
      <3>1. link' = link /\ protocol' = at[c]
        BY <2>5 DEF Connected
      <3> QED BY <2>2, <2>3, <3>1 DEF LinkOwned, Connecting
    <2> QED BY <1>2, <2>4, <2>5
  <1>3. ASSUME UNCHANGED linkVars, pc[c] # "connecting", pc'[c] # "connecting",
               \A d \in Clients \ {c} : pc'[d] = pc[d] /\ at'[d] = at[d]
        PROVE  LinkOwned' /\ Connecting'
    BY <1>3 DEF linkVars, LinkOwned, Connecting
  <1>4. ASSUME NEW r, pc[c] = "ready", StartWrite(c, r)
        PROVE  /\ pc'[c] # "connecting"
               /\ \A d \in Clients \ {c} : pc'[d] = pc[d] /\ at'[d] = at[d]
    BY <1>4 DEF StartWrite, AfterWrite
  <1>5. CASE Write(c) \/ \E r \in Readers : ProcessRequest(c, r)
    BY <1>3, <1>4, <1>5 DEF Write, ProcessRequest
  <1>6. CASE \/ GetLock(c) \/ DelayOver(c) \/ WindowOver(c) \/ CancelWrite(c)
             \/ Raised(c)
    <2>1. UNCHANGED linkVars /\ pc[c] # "connecting"
      BY <1>6 DEF GetLock, DelayOver, WindowOver, CancelWrite, Raised, Raising
    <2>2. \E s \in States \ {"connecting"} : pc' = [pc EXCEPT ![c] = s]
      BY <1>6 DEF GetLock, DelayOver, WindowOver, CancelWrite, Raised, Raising, States,
                  AfterWrite
    <2>3. at' = at \/ at' = [at EXCEPT ![c] = NoLink]
      BY <1>6 DEF GetLock, DelayOver, WindowOver, CancelWrite, Raised
    <2> QED BY <1>3, <2>1, <2>2, <2>3
  <1> QED BY <1>1, <1>2, <1>5, <1>6 DEF Client, CancelConnect, ConnectsInTurn

\* What the device and the other tasks do to the links.
LEMMA OtherOwns ==
    ASSUME LinkIInv, LinkOwned, Connecting, Line \/ Call
    PROVE  LinkOwned' /\ Connecting'
  <1> USE DEF LinkIInv, LinkTypeOK
  <1>1. UNCHANGED <<pc, at>>
    BY DEF Line, Call, DataReceived, ConnectionMade, DeviceDrops, ConnectionLost,
           Disconnect, Close, AddReader, RemoveReader, DropReader, Iterate, writeVars
  <1>2. CASE protocol' = protocol
    <2>1. \A p \in Links : link'[p] \in {"opening", "open", "closing"} =>
              link[p] \in {"opening", "open", "closing"}
      BY <1>2, DisconnectedLink, SerialAssumption
         DEF Line, Call, DataReceived, ConnectionMade, DeviceDrops, ConnectionLost,
             Disconnect, Close, AddReader, RemoveReader, DropReader, Iterate, linkVars
    <2> QED BY <1>1, <1>2, <2>1 DEF LinkOwned, Connecting
  <1>3. CASE Disconnect \/ Close
    <2>1. protocol' = NoLink /\ link' = Disconnected
      BY <1>3 DEF Disconnect, Close
    <2>2. \A p \in Links : link'[p] = IF p = protocol THEN "gone" ELSE link[p]
      BY <2>1, DisconnectedLink
    <2> QED BY <1>1, <2>1, <2>2 DEF LinkOwned, Connecting
  <1> QED BY <1>2, <1>3
          DEF Line, Call, DataReceived, ConnectionMade, DeviceDrops, ConnectionLost,
              AddReader, RemoveReader, DropReader, Iterate, linkVars

\* If connects do not overlap, then no link is ever left behind, for any number of
\* writers and of reconnections: one that is open is the connection's own, or is
\* being made.
THEOREM NoLinkLeftBehind ==
    ASSUME ConnectsInTurn
    PROVE  Spec => []LinkOwned
  <1>1. Init => LinkOwned /\ Connecting
    BY DEF Init, LinkOwned, Connecting
  <1>2. IInv /\ LinkOwned /\ Connecting /\ [Next]_vars => LinkOwned' /\ Connecting'
    <2> SUFFICES ASSUME IInv, LinkOwned, Connecting, [Next]_vars
                 PROVE  LinkOwned' /\ Connecting'
      OBVIOUS
    <2>1. LinkIInv
      BY DEF IInv
    <2>2. CASE UNCHANGED vars
      BY <2>2 DEF vars, linkVars, writeVars, LinkOwned, Connecting
    <2>3. ASSUME NEW c \in Clients, Client(c)
          PROVE  LinkOwned' /\ Connecting'
      BY <2>1, <2>3, ClientOwns
    <2>4. CASE Line \/ Call
      BY <2>1, <2>4, OtherOwns
    <2> QED BY <2>2, <2>3, <2>4 DEF Next
  <1> QED BY Initially, Inductive, <1>1, <1>2, PTL DEF Spec
-----------------------------------------------------------------------------
(* MessageBuffer: where a link's messages come from.  A fact about every round of its  *)
(* loop is proved by induction, over the set of the rounds of which it is true.        *)

\* Some numbers have a smallest one.
LEMMA HasSmallest ==
    ASSUME NEW T \in SUBSET Nat, T # {}
    PROVE  \E k \in T : \A l \in T : k <= l
  <1> DEFINE R == OpToRel(<, Nat)
  <1>1. IsWellFoundedOn(R, Nat)
    BY NatLessThanWellFounded
  <1>2. PICK k \in T : \A l \in T : <<l, k>> \notin R
    <2> HIDE DEF R
    <2> QED BY <1>1, WFMin
  <1>3. ASSUME NEW l \in T
        PROVE  k <= l
    <2>1. ~(l < k)
      BY <1>2 DEF OpToRel
    <2> QED BY <2>1
  <1> QED BY <1>3

\* What holds of 0, and of each number after one it holds of, holds of them all.
LEMMA Upwards ==
    ASSUME NEW m \in Nat, NEW S, 0 \in S, \A n \in 0..(m - 1) : n \in S => n + 1 \in S
    PROVE  \A n \in 0..m : n \in S
  <1> DEFINE T == {n \in 0..m : n \notin S}
  <1> SUFFICES ASSUME T # {} PROVE FALSE
    OBVIOUS
  <1>1. PICK k \in T : \A l \in T : k <= l
    <2>1. T \in SUBSET Nat
      OBVIOUS
    <2> HIDE DEF T
    <2> QED BY <2>1, HasSmallest
  <1>2. k \in Nat /\ k # 0 /\ k <= m /\ k \notin S
    BY <1>1
  <1>3. k - 1 \in 0..(m - 1) /\ (k - 1) + 1 = k /\ ~(k <= k - 1)
    BY <1>2
  <1>4. k - 1 \in S
    BY <1>1, <1>3
  <1> QED BY <1>2, <1>3, <1>4

-----------------------------------------------------------------------------
(* The recursive functions *)

RoundsFrom(b, f, m) ==
    f = [n \in 0..m |-> IF n = 0 THEN [rest |-> b, out |-> <<>>] ELSE Round(f[n - 1])]

\* The loop starts with all the bytes, and each round goes on from the one before.
LEMMA RoundsAre ==
    ASSUME NEW b \in Seq(Bytes)
    PROVE  /\ Len(b) \in Nat
           /\ Rounds(b)[0] = [rest |-> b, out |-> <<>>]
           /\ \A n \in 0..(Len(b) - 1) : Rounds(b)[n + 1] = Round(Rounds(b)[n])
  <1> DEFINE S == {m \in Nat : \E f : RoundsFrom(b, f, m)}
  <1>1. Len(b) \in Nat
    BY LenProperties
  <1>2. 0 \in S
    <2> DEFINE f == [n \in 0..0 |-> [rest |-> b, out |-> <<>>]]
    <2>1. RoundsFrom(b, f, 0)
      BY DEF RoundsFrom
    <2> QED BY <2>1
  <1>3. ASSUME NEW m \in 0..(Len(b) - 1), m \in S
        PROVE  m + 1 \in S
    <2>1. PICK f : RoundsFrom(b, f, m)
      BY <1>3
    <2> DEFINE g == [n \in 0..(m + 1) |-> IF n = m + 1 THEN Round(f[m]) ELSE f[n]]
    <2>2. m \in Nat /\ m + 1 \in Nat /\ m + 1 # 0
      BY <1>1, <1>3
    <2>3. ASSUME NEW n \in 0..(m + 1)
          PROVE  g[n] = IF n = 0 THEN [rest |-> b, out |-> <<>>] ELSE Round(g[n - 1])
      <3>1. CASE n = m + 1
        <4>1. (m + 1) - 1 = m /\ m \in 0..(m + 1) /\ m # m + 1
          BY <2>2
        <4> QED BY <2>2, <3>1, <4>1
      <3>2. CASE n = 0
        BY <2>1, <2>2, <3>2 DEF RoundsFrom
      <3>3. CASE n # m + 1 /\ n # 0
        <4>1. n \in 0..m /\ n - 1 \in 0..(m + 1) /\ n - 1 # m + 1
          BY <2>2, <3>3
        <4>2. f[n] = Round(f[n - 1])
          BY <2>1, <3>3, <4>1 DEF RoundsFrom
        <4> QED BY <3>3, <4>1, <4>2
      <3> QED BY <3>1, <3>2, <3>3
    <2>4. RoundsFrom(b, g, m + 1)
      <3> DEFINE h == [n \in 0..(m + 1) |->
                          IF n = 0 THEN [rest |-> b, out |-> <<>>] ELSE Round(g[n - 1])]
      <3>1. \A n \in 0..(m + 1) : g[n] = h[n]
        <4> HIDE DEF g
        <4> QED BY <2>3
      <3>2. DOMAIN g = 0..(m + 1) /\ DOMAIN h = 0..(m + 1)
        OBVIOUS
      <3>3. g = [n \in 0..(m + 1) |-> g[n]] /\ h = [n \in 0..(m + 1) |-> h[n]]
        OBVIOUS
      <3>4. g = h
        <4> HIDE DEF g, h
        <4> QED BY <3>1, <3>3
      <3> HIDE DEF g
      <3> QED BY <3>4 DEF RoundsFrom
    <2> HIDE DEF g
    <2> QED BY <2>2, <2>4
  <1>4. PICK f : RoundsFrom(b, f, Len(b))
    <2>1. \A m \in 0..Len(b) : m \in S
      <3> HIDE DEF S
      <3> QED BY <1>1, <1>2, <1>3, Upwards
    <2> QED BY <1>1, <2>1
  <1>5. RoundsFrom(b, Rounds(b), Len(b))
    <2>1. Rounds(b) = CHOOSE g : RoundsFrom(b, g, Len(b))
      BY DEF Rounds, RoundsFrom
    <2> QED BY <1>4, <2>1
  <1> HIDE DEF S
  <1>6. Rounds(b)[0] = [rest |-> b, out |-> <<>>]
    BY <1>1, <1>5 DEF RoundsFrom
  <1>7. ASSUME NEW n \in 0..(Len(b) - 1)
        PROVE  Rounds(b)[n + 1] = Round(Rounds(b)[n])
    <2>1. n + 1 \in 0..Len(b) /\ n + 1 # 0 /\ (n + 1) - 1 = n
      BY <1>1
    <2> QED BY <1>5, <2>1 DEF RoundsFrom
  <1> QED BY <1>1, <1>6, <1>7

-----------------------------------------------------------------------------
(* Where the end of line is *)

Begins(b, i) ==
    /\ i \in 0..(Len(b) - Len(Eol))
    /\ \A j \in 1..Len(Eol) : b[i + j] = Eol[j]

LEMMA EolIsBytes == Eol \in Seq(Bytes) /\ Len(Eol) \in Nat /\ Len(Eol) >= 1
  BY MessageBufferAssumption, EmptySeq, LenProperties

LEMMA BytesInARow ==
    \A u, v, w \in Seq(Bytes) : (u \o v) \o w = u \o (v \o w)
  BY ConcatAssociative

\* Find() is the first place where the end of line begins.
LEMMA FindIs ==
    ASSUME NEW b \in Seq(Bytes)
    PROVE  /\ Find(b) = -1 => \A i : ~Begins(b, i)
           /\ Find(b) # -1 => /\ Begins(b, Find(b))
                              /\ \A i : Begins(b, i) => Find(b) <= i
  <1> DEFINE S == {i \in 0..(Len(b) - Len(Eol)) : SubSeq(b, i + 1, i + Len(Eol)) = Eol}
  <1>1. Len(b) \in Nat /\ \A i \in 1..Len(b) : b[i] \in Bytes
    BY LenProperties, ElementOfSeq
  <1>2. ASSUME NEW i \in 0..(Len(b) - Len(Eol))
        PROVE  SubSeq(b, i + 1, i + Len(Eol)) = Eol <=> Begins(b, i)
    <2> DEFINE u == SubSeq(b, i + 1, i + Len(Eol))
    <2>1. i + 1 \in Int /\ i + Len(Eol) \in Int /\ i + Len(Eol) <= Len(b) /\ i >= 0 /\ i \in Int
      BY <1>1, EolIsBytes
    <2>2. \A j \in (i + 1)..(i + Len(Eol)) : b[j] \in Bytes
      BY <1>1, <2>1
    <2>3. (i + Len(Eol)) - (i + 1) + 1 = Len(Eol) /\ i + 1 <= i + Len(Eol)
      BY <2>1, EolIsBytes
    <2>4. /\ u \in Seq(Bytes)
          /\ Len(u) = (i + Len(Eol)) - (i + 1) + 1
          /\ \A j \in 1..((i + Len(Eol)) - (i + 1) + 1) : u[j] = b[(i + 1) + j - 1]
      <3> HIDE DEF u
      <3>1. u = SubSeq(b, i + 1, i + Len(Eol))
        BY DEF u
      <3> QED BY <2>1, <2>2, <2>3, <3>1, SubSeqProperties
    <2>5. \A j \in 1..Len(Eol) : u[j] = b[i + j]
      <3> TAKE j \in 1..Len(Eol)
      <3>1. (i + 1) + j - 1 = i + j
        BY <2>1, EolIsBytes
      <3> HIDE DEF u
      <3> QED BY <2>3, <2>4, <3>1
    <2> HIDE DEF u
    <2>6. u = Eol <=> \A j \in 1..Len(Eol) : u[j] = Eol[j]
      BY <2>3, <2>4, EolIsBytes, SeqEqual
    <2> QED BY <2>5, <2>6 DEF Begins, u
  <1>3. \A i : i \in S <=> Begins(b, i)
    BY <1>2 DEF Begins
  <1>4. Find(b) = IF S = {} THEN -1 ELSE CHOOSE x \in S : \A y \in S : x <= y
    BY DEF Find, Min
  <1>5. S \in SUBSET Nat
    BY <1>1, EolIsBytes
  <1> HIDE DEF S
  <1>6. CASE S = {}
    BY <1>3, <1>4, <1>6
  <1>7. CASE S # {}
    <2>1. \E x \in S : \A y \in S : x <= y
      BY <1>5, <1>7, HasSmallest
    <2>2. Find(b) \in S /\ \A y \in S : Find(b) <= y
      BY <1>4, <1>7, <2>1
    <2>3. Find(b) # -1
      BY <1>5, <2>2
    <2> QED BY <1>3, <2>2, <2>3
  <1> QED BY <1>6, <1>7

\* What comes behind an end of line does not change where the first one is.
LEMMA FindGrows ==
    ASSUME NEW b \in Seq(Bytes), NEW c \in Seq(Bytes), Find(b) # -1
    PROVE  Find(b \o c) = Find(b)
  <1> DEFINE d == b \o c
  <1>1. /\ d \in Seq(Bytes) /\ Len(d) = Len(b) + Len(c)
        /\ Len(b) \in Nat /\ Len(c) \in Nat
        /\ \A i \in 1..Len(b) : d[i] = b[i]
    BY ConcatProperties, LenProperties
  <1> HIDE DEF d
  <1>2. \A i \in Nat : i + Len(Eol) <= Len(b) => (Begins(d, i) <=> Begins(b, i))
    <2> TAKE i \in Nat
    <2> HAVE i + Len(Eol) <= Len(b)
    <2>1. ASSUME NEW j \in 1..Len(Eol)
          PROVE  d[i + j] = b[i + j]
      <3>1. i + j \in 1..Len(b)
        BY <1>1, EolIsBytes
      <3> QED BY <1>1, <3>1
    <2>2. i \in 0..(Len(d) - Len(Eol)) /\ i \in 0..(Len(b) - Len(Eol))
      BY <1>1, EolIsBytes
    <2> QED BY <2>1, <2>2 DEF Begins
  <1>3. Begins(b, Find(b)) /\ \A i : Begins(b, i) => Find(b) <= i
    BY FindIs
  <1>4. Find(b) \in Nat /\ Find(b) + Len(Eol) <= Len(b)
    BY <1>1, <1>3, EolIsBytes DEF Begins
  <1>5. Begins(d, Find(b))
    BY <1>2, <1>3, <1>4
  <1>6. Find(d) # -1 /\ Begins(d, Find(d)) /\ Find(d) <= Find(b)
    BY <1>1, <1>5, FindIs
  <1>7. Find(d) \in Nat
    BY <1>1, <1>6, EolIsBytes DEF Begins
  <1>8. Begins(b, Find(d))
    <2>1. Find(d) + Len(Eol) <= Len(b)
      BY <1>4, <1>6, <1>7, EolIsBytes
    <2> QED BY <1>2, <1>6, <1>7, <2>1
  <1>9. Find(b) <= Find(d)
    BY <1>3, <1>8
  <1> QED BY <1>4, <1>6, <1>7, <1>9 DEF d

\* A message is cut off behind its end of line, its first and only one.
LEMMA CutsAMessage ==
    ASSUME NEW b \in Seq(Bytes), Find(b) # -1
    PROVE  LET m == SubSeq(b, 1, CutAt(b))
               r == SubSeq(b, CutAt(b) + 1, Len(b))
           IN  /\ m \in Seq(Bytes) /\ r \in Seq(Bytes) /\ m \o r = b
               /\ CutAt(b) \in 1..Len(b) /\ Len(m) = CutAt(b) /\ Len(r) = Len(b) - CutAt(b)
               /\ Find(m) = Len(m) - Len(Eol)
  <1> DEFINE m == SubSeq(b, 1, CutAt(b))
             r == SubSeq(b, CutAt(b) + 1, Len(b))
             k == CutAt(b)
  <1>1. Len(b) \in Nat /\ \A i \in 1..Len(b) : b[i] \in Bytes
    BY LenProperties, ElementOfSeq
  <1>2. Begins(b, Find(b)) /\ \A i : Begins(b, i) => Find(b) <= i
    BY FindIs
  <1>3. Find(b) \in Nat /\ k = Find(b) + Len(Eol) /\ k \in 1..Len(b)
    BY <1>1, <1>2, EolIsBytes DEF Begins, CutAt
  <1> HIDE DEF k
  <1>4. m \in Seq(Bytes) /\ Len(m) = k /\ \A i \in 1..k : m[i] = b[i]
    <2>1. /\ SubSeq(b, 1, k) \in Seq(Bytes)
          /\ Len(SubSeq(b, 1, k)) = k - 1 + 1
          /\ \A i \in 1..(k - 1 + 1) : SubSeq(b, 1, k)[i] = b[1 + i - 1]
      BY <1>1, <1>3, SubSeqProperties
    <2>2. k - 1 + 1 = k /\ \A i \in 1..k : 1 + i - 1 = i
      BY <1>1, <1>3
    <2> QED BY <2>1, <2>2 DEF k
  <1>5. r \in Seq(Bytes) /\ Len(r) = Len(b) - k
    <2>1. /\ SubSeq(b, k + 1, Len(b)) \in Seq(Bytes)
          /\ Len(SubSeq(b, k + 1, Len(b))) = IF k + 1 <= Len(b) THEN Len(b) - (k + 1) + 1 ELSE 0
      <3>1. k + 1 \in Int /\ Len(b) \in Int /\ \A i \in (k + 1)..Len(b) : b[i] \in Bytes
        BY <1>1, <1>3
      <3> QED BY <3>1, SubSeqProperties
    <2>2. (IF k + 1 <= Len(b) THEN Len(b) - (k + 1) + 1 ELSE 0) = Len(b) - k
      BY <1>1, <1>3
    <2> QED BY <2>1, <2>2 DEF k
  <1>6. m \o r = b
    <2>1. SubSeq(b, 1, k) \o SubSeq(b, k + 1, Len(b)) = SubSeq(b, 1, Len(b))
      <3>1. 1 \in 1..(Len(b) + 1) /\ k \in (1 - 1)..Len(b) /\ Len(b) \in k..Len(b)
        BY <1>1, <1>3
      <3> QED BY <3>1, ConcatAdjacentSubSeq
    <2> QED BY <2>1, SubSeqFull DEF k
  <1>7. Find(m) = Find(b)
    <2> HIDE DEF m
    <2>1. \A i : i \in 0..(Len(m) - Len(Eol)) => i \in 0..(Len(b) - Len(Eol))
      BY <1>1, <1>3, <1>4, EolIsBytes
    <2>2. \A i \in 0..(Len(m) - Len(Eol)), j \in 1..Len(Eol) : m[i + j] = b[i + j]
      BY <1>3, <1>4, EolIsBytes
    <2>3. \A i : Begins(m, i) => Begins(b, i)
      BY <2>1, <2>2 DEF Begins
    <2>4. Find(b) \in 0..(Len(m) - Len(Eol))
      BY <1>3, <1>4, EolIsBytes
    <2>5. Begins(m, Find(b))
      BY <1>2, <2>2, <2>4 DEF Begins
    <2>6. Find(m) # -1 /\ Begins(m, Find(m)) /\ Find(m) <= Find(b)
      BY <1>4, <2>5, FindIs
    <2>7. Find(b) <= Find(m)
      BY <1>2, <2>3, <2>6
    <2>8. Find(m) \in Int
      BY <1>3, <1>4, <2>6, EolIsBytes DEF Begins
    <2> QED BY <1>3, <2>6, <2>7, <2>8
  <1>8. Find(m) = Len(m) - Len(Eol)
    BY <1>3, <1>4, <1>7, EolIsBytes
  <1> QED BY <1>3, <1>4, <1>5, <1>6, <1>8 DEF k

-----------------------------------------------------------------------------
(* The rounds *)

Cuts == [rest : Seq(Bytes), out : Seq(Seq(Bytes))]

OneEol(m) == Find(m) = Len(m) - Len(Eol)

\* What a round does: nothing, or it moves one message from the bytes to the list.
LEMMA RoundIs ==
    ASSUME NEW s \in Cuts
    PROVE  /\ Round(s) \in Cuts
           /\ Find(s.rest) = -1 => Round(s) = s
           /\ Find(s.rest) # -1 =>
                 \E m \in Seq(Bytes) :
                    /\ OneEol(m)
                    /\ m = SubSeq(s.rest, 1, CutAt(s.rest))
                    /\ Round(s).out = Append(s.out, m)
                    /\ s.rest = m \o Round(s).rest
                    /\ Len(Round(s).rest) \in Nat /\ Len(Round(s).rest) < Len(s.rest)
  <1>1. s.rest \in Seq(Bytes) /\ s.out \in Seq(Seq(Bytes)) /\ Len(s.rest) \in Nat
    BY LenProperties DEF Cuts
  <1>2. CASE Find(s.rest) = -1
    BY <1>2 DEF Round
  <1>3. CASE Find(s.rest) # -1
    <2> DEFINE m == SubSeq(s.rest, 1, CutAt(s.rest))
               r == SubSeq(s.rest, CutAt(s.rest) + 1, Len(s.rest))
    <2>1. Round(s) = [rest |-> r, out |-> Append(s.out, m)]
      BY <1>3 DEF Round
    <2>2. /\ m \in Seq(Bytes) /\ r \in Seq(Bytes) /\ m \o r = s.rest
          /\ CutAt(s.rest) \in 1..Len(s.rest) /\ Len(r) = Len(s.rest) - CutAt(s.rest)
          /\ OneEol(m)
      BY <1>1, <1>3, CutsAMessage DEF OneEol
    <2> HIDE DEF r
    <2>3. Append(s.out, m) \in Seq(Seq(Bytes))
      <3> HIDE DEF m
      <3> QED BY <1>1, <2>2, AppendProperties
    <2>4. Len(r) \in Nat /\ Len(r) < Len(s.rest)
      BY <1>1, <2>2
    <2>5. Round(s) \in Cuts
      BY <2>1, <2>2, <2>3 DEF Cuts
    <2>6. /\ Round(s).out = Append(s.out, m) /\ s.rest = m \o Round(s).rest
          /\ Len(Round(s).rest) \in Nat /\ Len(Round(s).rest) < Len(s.rest)
      <3> HIDE DEF m
      <3> QED BY <2>1, <2>2, <2>4
    <2>7. \E u \in Seq(Bytes) : u = m
      BY <2>2
    <2> QED BY <1>3, <2>2, <2>5, <2>6, <2>7
  <1> QED BY <1>2, <1>3

\* A round does not look at the messages that were cut off before.
LEMMA RoundBehind ==
    ASSUME NEW s \in Cuts, NEW o \in Seq(Seq(Bytes))
    PROVE  Round([rest |-> s.rest, out |-> o \o s.out]) =
               [rest |-> Round(s).rest, out |-> o \o Round(s).out]
  <1> DEFINE t == [rest |-> s.rest, out |-> o \o s.out]
  <1>1. s = [rest |-> s.rest, out |-> s.out] /\ s.out \in Seq(Seq(Bytes)) /\ s.rest \in Seq(Bytes)
    BY DEF Cuts
  <1>2. CASE Find(s.rest) = -1
    BY <1>2 DEF Round
  <1>3. CASE Find(s.rest) # -1
    <2> DEFINE m == SubSeq(s.rest, 1, CutAt(s.rest))
    <2>1. m \in Seq(Bytes)
      BY <1>1, <1>3, CutsAMessage
    <2>2. /\ Round(s).rest = Round(t).rest
          /\ Round(s).out = Append(s.out, m)
          /\ Round(t) = [rest |-> Round(t).rest, out |-> Append(o \o s.out, m)]
      BY <1>3 DEF Round
    <2> HIDE DEF m, t
    <2>3. Append(o \o s.out, m) = o \o Append(s.out, m)
      <3>1. Append(o \o s.out, m) = (o \o s.out) \o <<m>>
        BY <1>1, <2>1, ConcatProperties, AppendIsConcat
      <3>2. Append(s.out, m) = s.out \o <<m>>
        BY <1>1, <2>1, AppendIsConcat
      <3>3. <<m>> \in Seq(Seq(Bytes))
        BY <2>1
      <3> QED BY <1>1, <3>1, <3>2, <3>3, ConcatAssociative
    <2> QED BY <2>2, <2>3 DEF t
  <1> QED BY <1>2, <1>3

\* A round that cuts a message off does the same when more bytes come behind.
LEMMA RoundAhead ==
    ASSUME NEW s \in Cuts, NEW c \in Seq(Bytes), Find(s.rest) # -1
    PROVE  Round([rest |-> s.rest \o c, out |-> s.out]) =
               [rest |-> Round(s).rest \o c, out |-> Round(s).out]
  <1> DEFINE b == s.rest
             d == b \o c
             k == CutAt(b)
             m == SubSeq(b, 1, k)
             r == SubSeq(b, k + 1, Len(b))
             e == SubSeq(d, 1, k)
             f == SubSeq(d, k + 1, Len(d))
  <1>1. b \in Seq(Bytes) /\ d \in Seq(Bytes) /\ Find(d) = Find(b)
    BY FindGrows, ConcatProperties DEF Cuts
  <1>2. CutAt(d) = k
    BY <1>1 DEF CutAt
  <1>3. m \in Seq(Bytes) /\ r \in Seq(Bytes) /\ m \o r = b /\ Len(m) = k
    BY <1>1, CutsAMessage
  <1>4. e \in Seq(Bytes) /\ f \in Seq(Bytes) /\ e \o f = d /\ Len(e) = k
    <2> HIDE DEF d
    <2>1. /\ SubSeq(d, 1, CutAt(d)) \in Seq(Bytes) /\ SubSeq(d, CutAt(d) + 1, Len(d)) \in Seq(Bytes)
          /\ SubSeq(d, 1, CutAt(d)) \o SubSeq(d, CutAt(d) + 1, Len(d)) = d
          /\ Len(SubSeq(d, 1, CutAt(d))) = CutAt(d)
      BY <1>1, CutsAMessage
    <2> QED BY <1>2, <2>1
  <1>5. Round(s) = [rest |-> r, out |-> Append(s.out, m)]
    BY DEF Round
  <1>6. Round([rest |-> d, out |-> s.out]) = [rest |-> f, out |-> Append(s.out, e)]
    BY <1>1, <1>2 DEF Round
  <1>7. e = m
    <2> HIDE DEF b, d, k, m, r, e, f
    <2>1. Len(b) \in Nat /\ Len(b) = Len(m) + Len(r) /\ Len(m) \in Nat /\ Len(r) \in Nat
      BY <1>1, <1>3, ConcatProperties, LenProperties
    <2>2. Len(d) = Len(e) + Len(f) /\ Len(e) \in Nat /\ Len(f) \in Nat
      BY <1>4, ConcatProperties, LenProperties
    <2>3. ASSUME NEW i \in 1..k
          PROVE  e[i] = m[i]
      <3>1. e[i] = d[i]
        <4>1. i \in 1..(Len(e) + Len(f)) /\ i <= Len(e)
          BY <1>4, <2>2
        <4> QED BY <1>4, <4>1, ConcatProperties
      <3>2. i \in 1..(Len(m) + Len(r)) /\ i <= Len(m)
        BY <1>3, <2>1
      <3>3. m[i] = b[i]
        BY <1>3, <3>2, ConcatProperties
      <3>4. d[i] = b[i]
        <4>1. Len(c) \in Nat /\ i \in 1..(Len(b) + Len(c)) /\ i <= Len(b)
          BY <2>1, <3>2, LenProperties
        <4> QED BY <1>1, <4>1, ConcatProperties DEF d
      <3> QED BY <3>1, <3>3, <3>4
    <2> QED BY <1>3, <1>4, <2>3, SeqEqual
  <1>8. f = r \o c
    <2> HIDE DEF b, m, r, e, f
    <2>1. m \o (r \o c) = d /\ r \o c \in Seq(Bytes)
      <3>1. (m \o r) \o c = m \o (r \o c)
        BY <1>3, BytesInARow
      <3>2. r \o c \in Seq(Bytes)
        BY <1>3, ConcatProperties
      <3> QED BY <1>3, <3>1, <3>2
    <2> HIDE DEF d
    <2>2. \A s1, t, v \in Seq(Bytes) : s1 \o t = s1 \o v => t = v
      BY ConcatSimplifications
    <2> QED BY <1>3, <1>4, <1>7, <2>1, <2>2
  <1> HIDE DEF m, r, e, f
  <1> QED BY <1>5, <1>6, <1>7, <1>8

-----------------------------------------------------------------------------
(* The loop *)

\* What is true of the loop after n rounds over b: it has cut off messages with one
\* end of line each, and at least as many bytes as rounds, unless it is at its end.
Looped(b, s, n) ==
    /\ s \in Cuts
    /\ \A i \in DOMAIN s.out : OneEol(s.out[i])
    /\ Find(s.rest) = -1 \/ Len(s.rest) + n <= Len(b)

LEMMA RoundKeepsLooped ==
    ASSUME NEW b \in Seq(Bytes), NEW n \in Nat, NEW s, Looped(b, s, n)
    PROVE  Looped(b, Round(s), n + 1)
  <1> DEFINE t == Round(s)
  <1>1. s \in Cuts /\ t \in Cuts
    BY RoundIs DEF Looped
  <1>2. CASE Find(s.rest) = -1
    BY <1>1, <1>2, RoundIs DEF Looped
  <1>3. CASE Find(s.rest) # -1
    <2>1. PICK m \in Seq(Bytes) :
              /\ OneEol(m) /\ t.out = Append(s.out, m)
              /\ Len(t.rest) \in Nat /\ Len(t.rest) < Len(s.rest)
      BY <1>1, <1>3, RoundIs
    <2>2. s.out \in Seq(Seq(Bytes)) /\ Len(s.rest) \in Nat /\ Len(b) \in Nat
      BY <1>1, LenProperties DEF Cuts
    <2> HIDE DEF t
    <2>3. ASSUME NEW i \in DOMAIN t.out
          PROVE  OneEol(t.out[i])
      <3>1. /\ DOMAIN s.out = 1..Len(s.out) /\ Len(s.out) \in Nat
            /\ DOMAIN t.out = 1..(Len(s.out) + 1)
            /\ \A j \in 1..Len(s.out) : t.out[j] = s.out[j]
            /\ t.out[Len(s.out) + 1] = m
        BY <2>1, <2>2, AppendProperties, LenProperties
      <3>2. i \in 1..Len(s.out) \/ i = Len(s.out) + 1
        BY <3>1
      <3> QED BY <2>1, <3>1, <3>2 DEF Looped
    <2>4. Len(t.rest) + (n + 1) <= Len(b)
      <3> DEFINE x == Len(t.rest)
                 y == Len(s.rest)
                 z == Len(b)
      <3>1. x \in Nat /\ y \in Nat /\ z \in Nat /\ x < y /\ y + n <= z
        BY <1>3, <2>1, <2>2 DEF Looped
      <3> HIDE DEF x, y, z
      <3>2. x + (n + 1) <= z
        BY <3>1
      <3> QED BY <3>2 DEF x, z
    <2> QED BY <1>1, <2>3, <2>4 DEF Looped, t
  <1> QED BY <1>2, <1>3

LEMMA LoopIs ==
    ASSUME NEW b \in Seq(Bytes)
    PROVE  \A n \in 0..Len(b) : Looped(b, Rounds(b)[n], n)
  <1> DEFINE S == {n \in 0..Len(b) : Looped(b, Rounds(b)[n], n)}
  <1>1. Len(b) \in Nat
    BY LenProperties
  <1>2. 0 \in S
    <2>1. <<>> \in Seq(Seq(Bytes)) /\ DOMAIN <<>> = {}
      BY EmptySeq
    <2>2. Rounds(b)[0] = [rest |-> b, out |-> <<>>]
      BY RoundsAre
    <2>3. Rounds(b)[0].rest = b /\ Rounds(b)[0].out = <<>> /\ Rounds(b)[0] \in Cuts
      BY <2>1, <2>2 DEF Cuts
    <2> QED BY <1>1, <2>1, <2>3 DEF Looped
  <1>3. ASSUME NEW n \in 0..(Len(b) - 1), n \in S
        PROVE  n + 1 \in S
    <2>1. n \in Nat /\ n + 1 \in 0..Len(b)
      BY <1>1
    <2> QED BY <1>3, <2>1, RoundsAre, RoundKeepsLooped
  <1>4. \A n \in 0..Len(b) : n \in S
    <2> HIDE DEF S
    <2> QED BY <1>1, <1>2, <1>3, Upwards
  <1> QED BY <1>4

\* When the loop has come to its end, further rounds change nothing.
LEMMA LoopStays ==
    ASSUME NEW b \in Seq(Bytes), NEW n \in 0..Len(b), Find(Rounds(b)[n].rest) = -1
    PROVE  Cut(b) = Rounds(b)[n]
  <1> DEFINE R == Rounds(b)
             S == {k \in 0..Len(b) : k >= n => R[k] = R[n]}
  <1>1. /\ Len(b) \in Nat
        /\ \A k \in 0..(Len(b) - 1) : R[k + 1] = Round(R[k])
    BY RoundsAre
  <1>2. Round(R[n]) = R[n]
    BY LoopIs, RoundIs DEF Looped
  <1> HIDE DEF R
  <1>3. 0 \in S
    BY <1>1
  <1>4. ASSUME NEW k \in 0..(Len(b) - 1), k \in S
        PROVE  k + 1 \in S
    <2>1. k + 1 \in 0..Len(b) /\ R[k + 1] = Round(R[k])
      BY <1>1
    <2>2. CASE k + 1 = n
      BY <2>1, <2>2
    <2>3. CASE k + 1 # n
      <3>1. k + 1 >= n => k >= n
        BY <1>1, <2>3
      <3> QED BY <1>2, <1>4, <2>1, <3>1
    <2> QED BY <2>2, <2>3
  <1>5. \A k \in 0..Len(b) : k \in S
    <2> HIDE DEF S
    <2> QED BY <1>1, <1>3, <1>4, Upwards
  <1>6. Len(b) \in S /\ Len(b) >= n
    BY <1>1, <1>5
  <1> QED BY <1>6 DEF Cut, R

\* append_chunk() leaves no end of line in the buffer, and each message has one.
LEMMA CutIs ==
    ASSUME NEW b \in Seq(Bytes)
    PROVE  /\ Cut(b) \in Cuts
           /\ Find(Cut(b).rest) = -1
           /\ \A i \in DOMAIN Cut(b).out : OneEol(Cut(b).out[i])
  <1> DEFINE r == Cut(b).rest
  <1>1. Len(b) \in Nat /\ Len(b) \in 0..Len(b)
    BY LenProperties
  <1>2. Looped(b, Cut(b), Len(b))
    BY <1>1, LoopIs DEF Cut
  <1>3. r \in Seq(Bytes) /\ Len(r) \in Nat
    BY <1>2, LenProperties DEF Looped, Cuts
  <1>4. Find(r) = -1
    <2> SUFFICES ASSUME Find(r) # -1 PROVE FALSE
      OBVIOUS
    <2>1. Len(r) >= 1
      <3>1. CutAt(r) \in 1..Len(r)
        BY <1>3, CutsAMessage
      <3> QED BY <1>3, <3>1
    <2>2. Len(r) + Len(b) <= Len(b)
      BY <1>2 DEF Looped
    <2> HIDE DEF r
    <2> QED BY <1>1, <1>3, <2>1, <2>2
  <1> QED BY <1>2, <1>4 DEF Looped

-----------------------------------------------------------------------------
(* FlattenSeq() *)

FlattenedBy(s, f, m) ==
    f = [i \in 1..m |-> IF i = 1 THEN s[i] ELSE f[i - 1] \o s[i]]

Flattened(s) == CHOOSE f : FlattenedBy(s, f, Len(s))

LEMMA FlattenedIs ==
    ASSUME NEW s \in Seq(Seq(Bytes))
    PROVE  /\ Len(s) \in Nat
           /\ 1 \in 1..Len(s) => Flattened(s)[1] = s[1]
           /\ \A i \in 1..(Len(s) - 1) : Flattened(s)[i + 1] = Flattened(s)[i] \o s[i + 1]
           /\ FlattenSeq(s) = IF Len(s) = 0 THEN <<>> ELSE Flattened(s)[Len(s)]
  <1> DEFINE S == {m \in Nat : \E f : FlattenedBy(s, f, m)}
  <1>1. Len(s) \in Nat
    BY LenProperties
  <1>2. 0 \in S
    <2> DEFINE f == [i \in 1..0 |-> s[i]]
    <2>1. FlattenedBy(s, f, 0)
      BY DEF FlattenedBy
    <2> QED BY <2>1
  <1>3. ASSUME NEW m \in 0..(Len(s) - 1), m \in S
        PROVE  m + 1 \in S
    <2>1. PICK f : FlattenedBy(s, f, m)
      BY <1>3
    <2> DEFINE F(h, i) == IF i = 1 THEN s[i] ELSE h[i - 1] \o s[i]
               g == [i \in 1..(m + 1) |-> IF i = m + 1 THEN F(f, i) ELSE f[i]]
               h == [i \in 1..(m + 1) |-> F(g, i)]
    <2>2. m \in Nat /\ m + 1 \in Nat
      BY <1>1, <1>3
    <2>3. ASSUME NEW i \in 1..(m + 1)
          PROVE  g[i] = F(g, i)
      <3>1. CASE i = 1
        <4>1. CASE m = 0
          BY <2>2, <3>1, <4>1
        <4>2. CASE m # 0
          <5>1. i \in 1..m /\ i # m + 1
            BY <2>2, <3>1, <4>2
          <5>2. f[i] = s[i]
            BY <2>1, <3>1, <5>1 DEF FlattenedBy
          <5> QED BY <3>1, <5>1, <5>2
        <4> QED BY <4>1, <4>2
      <3>2. CASE i = m + 1 /\ i # 1
        <4>1. i - 1 \in 1..(m + 1) /\ i - 1 # m + 1
          BY <2>2, <3>2
        <4> QED BY <3>2, <4>1
      <3>3. CASE i # m + 1 /\ i # 1
        <4>1. i \in 1..m /\ i - 1 \in 1..(m + 1) /\ i - 1 # m + 1
          BY <2>2, <3>3
        <4>2. f[i] = f[i - 1] \o s[i]
          BY <2>1, <3>3, <4>1 DEF FlattenedBy
        <4> QED BY <3>3, <4>1, <4>2
      <3> QED BY <3>1, <3>2, <3>3
    <2>4. FlattenedBy(s, g, m + 1)
      <3>1. \A i \in 1..(m + 1) : g[i] = h[i]
        <4> HIDE DEF g
        <4> QED BY <2>3
      <3>2. g = [i \in 1..(m + 1) |-> g[i]] /\ h = [i \in 1..(m + 1) |-> h[i]]
        OBVIOUS
      <3>3. g = h
        <4> HIDE DEF g, h
        <4> QED BY <3>1, <3>2
      <3> HIDE DEF g
      <3> QED BY <3>3 DEF FlattenedBy
    <2> HIDE DEF g
    <2> QED BY <2>2, <2>4
  <1>4. FlattenedBy(s, Flattened(s), Len(s))
    <2>1. \A m \in 0..Len(s) : m \in S
      <3> HIDE DEF S
      <3> QED BY <1>1, <1>2, <1>3, Upwards
    <2>2. \E f : FlattenedBy(s, f, Len(s))
      BY <1>1, <2>1
    <2> QED BY <2>2 DEF Flattened
  <1>5. 1 \in 1..Len(s) => Flattened(s)[1] = s[1]
    BY <1>4 DEF FlattenedBy
  <1>6. ASSUME NEW i \in 1..(Len(s) - 1)
        PROVE  Flattened(s)[i + 1] = Flattened(s)[i] \o s[i + 1]
    <2>1. i + 1 \in 1..Len(s) /\ i + 1 # 1 /\ (i + 1) - 1 = i
      BY <1>1
    <2> QED BY <1>4, <2>1 DEF FlattenedBy
  <1>7. FlattenSeq(s) = IF Len(s) = 0 THEN s ELSE Flattened(s)[Len(s)]
    BY DEF FlattenSeq, Flattened, FlattenedBy
  <1>8. Len(s) = 0 => s = <<>>
    BY EmptySeq
  <1> QED BY <1>1, <1>5, <1>6, <1>7, <1>8

\* One more message at the end is one more piece at the end.
LEMMA FlattenAppend ==
    ASSUME NEW s \in Seq(Seq(Bytes)), NEW m \in Seq(Bytes)
    PROVE  /\ FlattenSeq(s) \in Seq(Bytes)
           /\ FlattenSeq(Append(s, m)) = FlattenSeq(s) \o m
  <1> DEFINE t == Append(s, m)
             f == Flattened(s)
             g == Flattened(t)
             S == {i \in 0..Len(s) : i # 0 => f[i] \in Seq(Bytes) /\ g[i] = f[i]}
  <1>1. /\ Len(s) \in Nat /\ \A i \in 1..Len(s) : s[i] \in Seq(Bytes)
        /\ t \in Seq(Seq(Bytes)) /\ Len(t) = Len(s) + 1
        /\ \A i \in 1..Len(s) : t[i] = s[i]
        /\ t[Len(s) + 1] = m
    BY LenProperties, ElementOfSeq, AppendProperties
  <1> HIDE DEF t
  <1>2. /\ 1 \in 1..Len(s) => f[1] = s[1]
        /\ \A i \in 1..(Len(s) - 1) : f[i + 1] = f[i] \o s[i + 1]
        /\ FlattenSeq(s) = IF Len(s) = 0 THEN <<>> ELSE f[Len(s)]
    BY FlattenedIs
  <1>3. /\ 1 \in 1..Len(t) => g[1] = t[1]
        /\ \A i \in 1..(Len(t) - 1) : g[i + 1] = g[i] \o t[i + 1]
        /\ FlattenSeq(t) = IF Len(t) = 0 THEN <<>> ELSE g[Len(t)]
    BY <1>1, FlattenedIs
  <1> HIDE DEF f, g
  <1>4. ASSUME NEW i \in 0..(Len(s) - 1), i \in S
        PROVE  i + 1 \in S
    <2>1. CASE i = 0
      <3>1. 1 \in 1..Len(s) /\ 1 \in 1..Len(t)
        BY <1>1, <2>1
      <3> QED BY <1>1, <1>2, <1>3, <2>1, <3>1
    <2>2. CASE i # 0
      <3>1. i \in 1..(Len(s) - 1) /\ i \in 1..(Len(t) - 1) /\ i + 1 \in 1..Len(s)
        BY <1>1, <2>2
      <3>2. f[i] \in Seq(Bytes) /\ g[i] = f[i] /\ s[i + 1] \in Seq(Bytes) /\ t[i + 1] = s[i + 1]
        BY <1>1, <1>4, <2>2, <3>1
      <3>3. f[i + 1] = f[i] \o s[i + 1] /\ g[i + 1] = g[i] \o t[i + 1]
        BY <1>2, <1>3, <3>1
      <3>4. f[i + 1] \in Seq(Bytes)
        BY <3>2, <3>3, ConcatProperties
      <3>5. g[i + 1] = f[i + 1]
        BY <3>2, <3>3
      <3> QED BY <3>1, <3>4, <3>5
    <2> QED BY <2>1, <2>2
  <1>5. \A i \in 0..Len(s) : i \in S
    <2>1. 0 \in S
      BY <1>1
    <2> HIDE DEF S
    <2> QED BY <1>1, <1>4, <2>1, Upwards
  <1>6. CASE Len(s) = 0
    <2>1. FlattenSeq(s) = <<>> /\ FlattenSeq(t) = g[1] /\ g[1] = m
      BY <1>1, <1>2, <1>3, <1>6
    <2>2. <<>> \in Seq(Bytes) /\ <<>> \o m = m
      BY EmptySeq, ConcatEmptySeq
    <2> QED BY <2>1, <2>2 DEF t
  <1>7. CASE Len(s) # 0
    <2>1. Len(s) \in 1..(Len(t) - 1) /\ Len(s) \in 0..Len(s)
      BY <1>1, <1>7
    <2>2. f[Len(s)] \in Seq(Bytes) /\ g[Len(s)] = f[Len(s)]
      BY <1>5, <1>7, <2>1
    <2>3. g[Len(s) + 1] = g[Len(s)] \o m
      BY <1>1, <1>3, <2>1
    <2>4. FlattenSeq(t) = g[Len(s) + 1] /\ FlattenSeq(s) = f[Len(s)]
      BY <1>1, <1>2, <1>3, <1>7
    <2> QED BY <2>2, <2>3, <2>4 DEF t
  <1> QED BY <1>6, <1>7

-----------------------------------------------------------------------------
(* One chunk and another *)

\* The loop loses nothing: its messages and the rest are what it was given.
LEMMA NothingLost ==
    ASSUME NEW b \in Seq(Bytes)
    PROVE  FlattenSeq(Cut(b).out) \o Cut(b).rest = b
  <1> DEFINE R == Rounds(b)
             S == {n \in 0..Len(b) : FlattenSeq(R[n].out) \o R[n].rest = b}
  <1>1. /\ Len(b) \in Nat /\ R[0] = [rest |-> b, out |-> <<>>]
        /\ \A n \in 0..(Len(b) - 1) : R[n + 1] = Round(R[n])
        /\ \A n \in 0..Len(b) : R[n] \in Cuts
    BY RoundsAre, LoopIs DEF Looped
  <1> HIDE DEF R
  <1>2. 0 \in S
    <2>1. R[0].out = <<>> /\ R[0].rest = b
      BY <1>1
    <2>2. <<>> \in Seq(Seq(Bytes)) /\ Len(<<>>) = 0
      BY EmptySeq
    <2>3. FlattenSeq(<<>>) = <<>>
      BY <2>2, FlattenedIs
    <2>4. <<>> \o b = b
      BY ConcatEmptySeq
    <2>5. FlattenSeq(R[0].out) \o R[0].rest = b
      BY <2>1, <2>3, <2>4
    <2>6. 0 \in 0..Len(b)
      BY <1>1
    <2> QED BY <2>5, <2>6
  <1>3. ASSUME NEW n \in 0..(Len(b) - 1), n \in S
        PROVE  n + 1 \in S
    <2> DEFINE s == R[n]
               t == R[n + 1]
    <2>1. n \in 0..Len(b) /\ n + 1 \in 0..Len(b) /\ t = Round(s) /\ s \in Cuts /\ t \in Cuts
      BY <1>1
    <2>2. FlattenSeq(s.out) \o s.rest = b
      BY <1>3
    <2> HIDE DEF s, t
    <2>3. FlattenSeq(t.out) \o t.rest = b
      <3>1. CASE Find(s.rest) = -1
        BY <2>1, <2>2, <3>1, RoundIs
      <3>2. CASE Find(s.rest) # -1
        <4>1. PICK m \in Seq(Bytes) : t.out = Append(s.out, m) /\ s.rest = m \o t.rest
          BY <2>1, <3>2, RoundIs
        <4>2. s.out \in Seq(Seq(Bytes)) /\ t.rest \in Seq(Bytes)
          BY <2>1 DEF Cuts
        <4>3. FlattenSeq(s.out) \in Seq(Bytes) /\ FlattenSeq(t.out) = FlattenSeq(s.out) \o m
          BY <4>1, <4>2, FlattenAppend
        <4>4. (FlattenSeq(s.out) \o m) \o t.rest = FlattenSeq(s.out) \o (m \o t.rest)
          BY <4>2, <4>3, BytesInARow
        <4> QED BY <2>2, <4>1, <4>3, <4>4
      <3> QED BY <3>1, <3>2
    <2> QED BY <2>1, <2>3 DEF s, t
  <1>4. Len(b) \in S
    <2> HIDE DEF S
    <2>1. \A n \in 0..Len(b) : n \in S
      BY <1>1, <1>2, <1>3, Upwards
    <2>2. Len(b) \in 0..Len(b)
      BY <1>1
    <2> QED BY <2>1, <2>2
  <1> QED BY <1>4 DEF Cut, R

\* From where the loop has only r left, it does what it does when it is given r.
LEMMA LoopRestarts ==
    ASSUME NEW d \in Seq(Bytes), NEW r \in Seq(Bytes), NEW o \in Seq(Seq(Bytes)),
           NEW k \in Nat, k + Len(r) <= Len(d), Rounds(d)[k] = [rest |-> r, out |-> o]
    PROVE  Cut(d) = [rest |-> Cut(r).rest, out |-> o \o Cut(r).out]
  <1> DEFINE R == Rounds(r)
             D == Rounds(d)
             Behind(s) == [rest |-> s.rest, out |-> o \o s.out]
             S == {j \in 0..Len(r) : D[k + j] = Behind(R[j])}
  <1>1. /\ Len(r) \in Nat /\ Len(d) \in Nat
        /\ R[0] = [rest |-> r, out |-> <<>>]
        /\ \A j \in 0..(Len(r) - 1) : R[j + 1] = Round(R[j])
        /\ \A j \in 0..(Len(d) - 1) : D[j + 1] = Round(D[j])
        /\ \A j \in 0..Len(r) : R[j] \in Cuts
    BY RoundsAre, LoopIs DEF Looped
  <1>2. D[k] = [rest |-> r, out |-> o]
    OBVIOUS
  <1> HIDE DEF R, D
  <1>3. 0 \in S
    <2>1. k + 0 = k
      OBVIOUS
    <2>2. o \o <<>> = o
      BY ConcatEmptySeq
    <2>3. Behind(R[0]) = [rest |-> r, out |-> o]
      BY <1>1, <2>2
    <2>4. 0 \in 0..Len(r)
      BY <1>1
    <2> HIDE DEF Behind
    <2> QED BY <1>2, <2>1, <2>3, <2>4
  <1>4. ASSUME NEW j \in 0..(Len(r) - 1), j \in S
        PROVE  j + 1 \in S
    <2>1. /\ k + j \in 0..(Len(d) - 1) /\ k + (j + 1) = (k + j) + 1
          /\ j \in 0..Len(r) /\ j + 1 \in 0..Len(r)
      BY <1>1
    <2>2. D[k + (j + 1)] = Round(D[k + j]) /\ R[j + 1] = Round(R[j]) /\ R[j] \in Cuts
      BY <1>1, <2>1
    <2>3. D[k + j] = Behind(R[j])
      BY <1>4
    <2>4. Round(Behind(R[j])) = Behind(Round(R[j]))
      BY <2>2, RoundBehind
    <2>5. D[k + (j + 1)] = Behind(R[j + 1])
      <3> HIDE DEF Behind
      <3> QED BY <2>2, <2>3, <2>4
    <2> QED BY <2>1, <2>5
  <1>5. D[k + Len(r)] = Behind(R[Len(r)])
    <2>1. Len(r) \in S
      <3> HIDE DEF S
      <3>1. \A j \in 0..Len(r) : j \in S
        BY <1>1, <1>3, <1>4, Upwards
      <3>2. Len(r) \in 0..Len(r)
        BY <1>1
      <3> QED BY <3>1, <3>2
    <2> HIDE DEF Behind
    <2> QED BY <2>1
  <1>6. R[Len(r)] = Cut(r)
    BY DEF Cut, R
  <1>7. D[k + Len(r)] = [rest |-> Cut(r).rest, out |-> o \o Cut(r).out]
    BY <1>5, <1>6
  <1>8. k + Len(r) \in 0..Len(d)
    BY <1>1
  <1>9. Cut(d) = D[k + Len(r)]
    <2>1. Find(D[k + Len(r)].rest) = -1
      BY <1>7, CutIs
    <2> QED BY <1>8, <2>1, LoopStays DEF D
  <1> QED BY <1>7, <1>9

\* With more bytes behind, the loop gets to where it got without them.
LEMMA LoopReaches ==
    ASSUME NEW b \in Seq(Bytes), NEW c \in Seq(Bytes)
    PROVE  \E k \in Nat : /\ k + Len(Cut(b).rest) <= Len(b)
                          /\ Rounds(b \o c)[k] = [rest |-> Cut(b).rest \o c, out |-> Cut(b).out]
  <1> DEFINE R == Rounds(b)
             D == Rounds(b \o c)
             Ahead(s) == [rest |-> s.rest \o c, out |-> s.out]
             S == {n \in 0..Len(b) :
                      \E k \in Nat : k + Len(R[n].rest) <= Len(b) /\ D[k] = Ahead(R[n])}
  <1>1. /\ Len(b) \in Nat /\ Len(c) \in Nat /\ Len(b \o c) = Len(b) + Len(c)
        /\ b \o c \in Seq(Bytes)
    BY ConcatProperties, LenProperties
  <1>2. /\ R[0] = [rest |-> b, out |-> <<>>]
        /\ \A n \in 0..(Len(b) - 1) : R[n + 1] = Round(R[n])
        /\ \A n \in 0..Len(b) : R[n] \in Cuts
    BY RoundsAre, LoopIs DEF Looped
  <1>3. /\ D[0] = [rest |-> b \o c, out |-> <<>>]
        /\ \A n \in 0..(Len(b \o c) - 1) : D[n + 1] = Round(D[n])
    BY <1>1, RoundsAre
  <1> HIDE DEF R, D
  <1>4. 0 \in S
    <2>1. 0 + Len(R[0].rest) <= Len(b) /\ D[0] = Ahead(R[0])
      BY <1>1, <1>2, <1>3
    <2>2. 0 \in 0..Len(b) /\ 0 \in Nat
      BY <1>1
    <2> HIDE DEF Ahead
    <2> QED BY <2>1, <2>2
  <1>5. ASSUME NEW n \in 0..(Len(b) - 1), n \in S
        PROVE  n + 1 \in S
    <2> DEFINE s == R[n]
               t == R[n + 1]
    <2>1. /\ n \in 0..Len(b) /\ n + 1 \in 0..Len(b)
          /\ s \in Cuts /\ t = Round(s) /\ s.rest \in Seq(Bytes) /\ Len(s.rest) \in Nat
      <3>1. n \in 0..Len(b) /\ n + 1 \in 0..Len(b)
        BY <1>1
      <3>2. s \in Cuts /\ t = Round(s)
        BY <1>2, <3>1
      <3> HIDE DEF s
      <3>3. s.rest \in Seq(Bytes)
        BY <3>2 DEF Cuts
      <3> QED BY <3>1, <3>2, <3>3, LenProperties
    <2>2. PICK k \in Nat : k + Len(s.rest) <= Len(b) /\ D[k] = Ahead(s)
      BY <1>5
    <2>3. \E l \in Nat : l + Len(t.rest) <= Len(b) /\ D[l] = Ahead(t)
      <3> HIDE DEF s, t
      <3>1. CASE Find(s.rest) = -1
        BY <2>1, <2>2, <3>1, RoundIs
      <3>2. CASE Find(s.rest) # -1
        <4>1. Len(t.rest) \in Nat /\ Len(t.rest) < Len(s.rest)
          BY <2>1, <3>2, RoundIs
        <4>2. k + 1 \in Nat /\ (k + 1) + Len(t.rest) <= Len(b) /\ k \in 0..(Len(b \o c) - 1)
          <5> DEFINE x == Len(t.rest)
                     y == Len(s.rest)
                     p == Len(b)
                     q == Len(c)
          <5>1. /\ x \in Nat /\ y \in Nat /\ p \in Nat /\ q \in Nat
                /\ x < y /\ k + y <= p /\ Len(b \o c) = p + q
            BY <1>1, <2>1, <2>2, <4>1
          <5> HIDE DEF x, y, p, q
          <5>2. k + 1 \in Nat /\ (k + 1) + x <= p /\ k \in 0..((p + q) - 1)
            BY <5>1
          <5> QED BY <5>1, <5>2 DEF x, p
        <4>3. Round(Ahead(s)) = Ahead(t)
          BY <2>1, <3>2, RoundAhead
        <4>4. D[k + 1] = Ahead(t)
          <5> HIDE DEF Ahead
          <5> QED BY <1>3, <2>2, <4>2, <4>3
        <4> QED BY <4>2, <4>4
      <3> QED BY <3>1, <3>2
    <2> QED BY <2>1, <2>3 DEF s, t
  <1>6. Len(b) \in S
    <2> HIDE DEF S
    <2>1. \A n \in 0..Len(b) : n \in S
      BY <1>1, <1>4, <1>5, Upwards
    <2>2. Len(b) \in 0..Len(b)
      BY <1>1
    <2> QED BY <2>1, <2>2
  <1> QED BY <1>6 DEF Cut, R, D

\* What two chunks are cut into: what the first is, and then the rest with the second.
LEMMA CutTwice ==
    ASSUME NEW b \in Seq(Bytes), NEW c \in Seq(Bytes)
    PROVE  LET a == Cut(Cut(b).rest \o c)
           IN  Cut(b \o c) = [rest |-> a.rest, out |-> Cut(b).out \o a.out]
  <1> DEFINE r == Cut(b).rest
             o == Cut(b).out
  <1>1. r \in Seq(Bytes) /\ o \in Seq(Seq(Bytes))
    BY CutIs DEF Cuts
  <1>2. PICK k \in Nat : /\ k + Len(r) <= Len(b)
                         /\ Rounds(b \o c)[k] = [rest |-> r \o c, out |-> o]
    BY LoopReaches
  <1> HIDE DEF r, o
  <1>3. /\ b \o c \in Seq(Bytes) /\ Len(b \o c) = Len(b) + Len(c)
        /\ r \o c \in Seq(Bytes) /\ Len(r \o c) = Len(r) + Len(c)
    BY <1>1, ConcatProperties
  <1>4. Len(b) \in Nat /\ Len(c) \in Nat /\ Len(r) \in Nat
    BY <1>1, LenProperties
  <1>5. k + Len(r \o c) <= Len(b \o c)
    BY <1>2, <1>3, <1>4
  <1> QED BY <1>1, <1>2, <1>3, <1>5, LoopRestarts DEF r, o

-----------------------------------------------------------------------------
(* The buffer *)

BufferIInv ==
    /\ input \in Seq(Bytes)
    /\ Cut(input) = [rest |-> buf, out |-> messages]

LEMMA BufferInitially == BufferInit => BufferIInv
  <1> SUFFICES ASSUME BufferInit PROVE BufferIInv
    OBVIOUS
  <1>1. input = <<>> /\ buf = <<>> /\ messages = <<>> /\ <<>> \in Seq(Bytes) /\ Len(<<>>) = 0
    BY EmptySeq DEF BufferInit
  <1>2. Rounds(<<>>)[0] = [rest |-> <<>>, out |-> <<>>]
    BY <1>1, RoundsAre
  <1> QED BY <1>1, <1>2 DEF BufferIInv, Cut

LEMMA BufferInductive == BufferIInv /\ [BufferNext]_bufferVars => BufferIInv'
  <1> SUFFICES ASSUME BufferIInv, [BufferNext]_bufferVars PROVE BufferIInv'
    OBVIOUS
  <1>1. CASE UNCHANGED bufferVars
    BY <1>1 DEF BufferIInv, bufferVars, Cut, Rounds
  <1>2. CASE BufferNext
    <2>1. PICK n \in 0..MaxBytes : \E chunk \in [1..n -> Bytes] : ChunkArrives(chunk)
      BY <1>2 DEF BufferNext
    <2>2. PICK chunk \in [1..n -> Bytes] : ChunkArrives(chunk)
      BY <2>1
    <2>3. chunk \in Seq(Bytes)
      <3>1. n \in Nat
        BY MessageBufferAssumption
      <3> QED BY <3>1, SeqDef
    <2> DEFINE a == Cut(buf \o chunk)
    <2>4. buf' = a.rest /\ messages' = messages \o a.out /\ input' = input \o chunk
      BY <2>2 DEF ChunkArrives, AppendChunk
    <2>5. input \in Seq(Bytes) /\ Cut(input).rest = buf /\ Cut(input).out = messages
      BY DEF BufferIInv
    <2> HIDE DEF a
    <2>6. Cut(input \o chunk) = [rest |-> a.rest, out |-> messages \o a.out]
      BY <2>3, <2>5, CutTwice DEF a
    <2>7. input \o chunk \in Seq(Bytes)
      BY <2>3, <2>5, ConcatProperties
    <2>8. Cut(input)' = Cut(input \o chunk)
      BY <2>4 DEF Cut, Rounds
    <2> QED BY <2>4, <2>6, <2>7, <2>8 DEF BufferIInv
  <1> QED BY <1>1, <1>2

LEMMA BufferIsAsStated == BufferIInv => BufferInv
  <1> SUFFICES ASSUME BufferIInv PROVE BufferInv
    OBVIOUS
  <1>1. input \in Seq(Bytes) /\ Cut(input).rest = buf /\ Cut(input).out = messages
    BY DEF BufferIInv
  <1>2. FlattenSeq(messages) \o buf = input
    BY <1>1, NothingLost
  <1>3. /\ Find(buf) = -1
        /\ \A i \in DOMAIN messages : OneEol(messages[i])
    BY <1>1, CutIs
  <1> QED BY <1>2, <1>3 DEF BufferIInv, BufferInv, ChunksDoNotMatter, OneEolEach, OneEol

\* However the bytes are cut into chunks, for every end of line: the messages are those
\* that one chunk with all the bytes would give, each with one end of line, at its end,
\* and with the rest they are all that has arrived.
THEOREM MessagesComeWhole == BufferSpec => []BufferInv
  <1> QED BY BufferInitially, BufferInductive, BufferIsAsStated, PTL DEF BufferSpec
===============================================================================
