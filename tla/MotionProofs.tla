---------------------------- MODULE MotionProofs ----------------------------
(***************************************************************************)
(* Theorems about Motion, for every device and for all of the client's     *)
(* intervals that TimingAssumption allows.                                 *)
(*                                                                         *)
(* The inductive invariant says what the client will believe when it has   *)
(* handled what is under way (KnownInv), that a movement of its own either *)
(* still has its acknowledgement under way or is shown for longer than the *)
(* next report takes (ShownInv), and how old the messages of a command are *)
(* while its user writes and waits (ElapsedInv, QuietInv).                 *)
(***************************************************************************)
EXTENDS Motion, SequenceTheorems, TLAPS

Messages ==
    [msg : [is : {"pos", "target", "moved", "stop"}, pos : Positions], age : 0..Latency]

IsReport(m) == m.msg.is = "pos"

\* A client that believes the cover to be at p believes it to be at x when it has
\* handled the first n messages of q.
Heard(p, q, n, x) ==
    \/ p = x /\ \A j \in 1..n : ~IsReport(q[j])
    \/ \E j \in 1..n : /\ IsReport(q[j]) /\ q[j].msg.pos = x
                       /\ \A k \in (j + 1)..n : ~IsReport(q[k])

\* When all is handled the client knows where the cover is, unless steps have moved
\* it, or the client has only just come and asked.
KnownInv ==
    ~untold => \/ Heard(pos, in, Len(in), at)
               \/ out # <<>> /\ Head(out).msg.op = "ask"

\* An acknowledgement of a movement to g is in q that will show it to a client that
\* believes p.
AckIn(p, q, g) ==
    \E i \in 1..Len(q) :
        \/ q[i].msg.is = "moved"
        \/ /\ q[i].msg.is = "target" /\ q[i].msg.pos = g
           /\ \E x \in Positions \ {g} : Heard(p, q, i - 1, x)

\* A report is in q that will be there before what is t now has come to the limit.
ReportBefore(q, t, limit) ==
    \E i \in 1..Len(q) : IsReport(q[i]) /\ t + Latency - q[i].age < limit

\* A movement of the client's own is going to be shown, or is shown until the next
\* report at least.
ShownInv ==
    Moving /\ ours /\ ~untold =>
        \/ AckIn(pos, in, goal)
        \/ /\ ~idle
           /\ \/ ReportBefore(in, age, Threshold)
              \/ age + left + Latency < Threshold

\* The time since the user's command was sent, at least
Elapsed ==
    CASE pc = "writing" -> WriteDelay - timer
      [] pc = "waiting" -> WriteDelay + Poll - timer
      [] OTHER -> 0

\* What is not a report was asked for e ago, at least.
AcksSince(q, e) == \A i \in 1..Len(q) : IsReport(q[i]) \/ e <= q[i].age + Latency

\* Commands, and their acknowledgements, are as old as that.
ElapsedInv ==
    /\ \A i \in 1..Len(out) : Elapsed <= out[i].age
    /\ AcksSince(in, Elapsed)

\* The wait that counts from the last report does so at most since it began, and the
\* next report of a movement of the client's own comes in time for it.
QuietInv ==
    pc = "waiting" /\ wait = "timing" =>
        /\ \A i \in 1..Len(out) : quiet <= out[i].age
        /\ Moving /\ ours /\ tells =>
              \/ ReportBefore(in, quiet, TimingThreshold + 1)
              \/ quiet + left + Latency <= TimingThreshold

IInv == TypeOK /\ KnownInv /\ ShownInv /\ ElapsedInv /\ QuietInv
-----------------------------------------------------------------------------
(* The device *)

\* What the assumptions say of the constants, without the names
LEMMA Intervals ==
    /\ FullyUp \in Nat /\ LegSize \in Nat /\ LegSize > 0 /\ StepTime \in Nat /\ StepTime > 0
    /\ Latency \in Nat /\ WriteDelay \in Nat /\ Poll \in Nat /\ Poll > 0
    /\ Threshold \in Nat /\ Delay \in Nat /\ TimingThreshold \in Nat /\ MaxCommands \in Nat
    /\ LegTime \in Nat
    /\ 2 * Latency < WriteDelay + Poll
    /\ LegTime + Latency < Threshold
    /\ Threshold < Delay
    /\ LegTime + 2 * Latency <= TimingThreshold
    /\ NoGoal \notin Positions
  <1>1. LegTime \in Nat
    <2> DEFINE a == LegSize
               b == StepTime
    <2>1. a \in Nat /\ b \in Nat
      BY DeviceAssumption
    <2>2. a * b \in Nat
      <3> HIDE DEF a, b
      <3> QED BY <2>1, Z3
    <2> QED BY <2>2 DEF LegTime
  <1> HIDE DEF LegTime
  <1> QED BY <1>1, DeviceAssumption, TimingAssumption DEF Positions

\* What came a message's time ago allows for a leg and another message's time.
LEMMA QuietEnough ==
    ASSUME NEW q \in Int, NEW l \in Int, q <= Latency, l <= LegTime
    PROVE  q + l + Latency <= TimingThreshold
  <1> DEFINE a == Latency
             b == LegTime
             c == TimingThreshold
  <1>1. a \in Int /\ b \in Int /\ c \in Int /\ b + 2 * a <= c /\ q <= a /\ l <= b
    BY Intervals
  <1> HIDE DEF a, b, c
  <1>2. q + l + a <= c
    BY <1>1
  <1> QED BY <1>2 DEF a, b, c

\* A leg takes no longer than a full one, and leads to a position between where the
\* cover is and where it goes.
LEMMA LegType ==
    ASSUME NEW p \in Positions, NEW g \in Positions
    PROVE  /\ LegFrom(p, g) \in 0..LegTime
           /\ Distance(p, g) \in Nat
           /\ LET step == Least(LegSize, Distance(p, g))
              IN  (IF p < g THEN p + step ELSE p - step) \in Positions
  <1> DEFINE d == Distance(p, g)
             a == StepTime
             b == Least(LegSize, d)
  <1>1. p \in Nat /\ g \in Nat /\ p <= FullyUp /\ g <= FullyUp /\ FullyUp \in Nat
    BY Intervals DEF Positions
  <1>2. d \in Nat /\ (p < g => d = g - p) /\ (~(p < g) => d = p - g)
    BY <1>1 DEF Distance
  <1>3. b \in Nat /\ b <= LegSize /\ b <= d
    <2> HIDE DEF d
    <2> QED BY <1>2, Intervals DEF Least
  <1>4. a * b \in 0..(LegSize * a)
    <2> DEFINE c == LegSize
    <2>1. a \in Nat /\ b \in Nat /\ c \in Nat /\ b <= c
      BY <1>3, Intervals
    <2> HIDE DEF a, b, c
    <2>2. c - b \in Nat
      BY <2>1
    <2>3. a * b >= 0 /\ a * (c - b) >= 0
      BY <2>1, <2>2, Z3
    <2>4. a * (c - b) = c * a - a * b
      BY <2>1, Z3
    <2>5. a * b \in Int /\ c * a \in Int
      BY <2>1, Z3
    <2>6. a * b <= c * a
      BY <2>3, <2>4, <2>5
    <2> QED BY <2>3, <2>5, <2>6 DEF c
  <1>5. LegFrom(p, g) \in 0..LegTime
    BY <1>4 DEF LegFrom, LegTime
  <1>6. (IF p < g THEN p + b ELSE p - b) \in Positions
    <2> HIDE DEF b, d
    <2> QED BY <1>1, <1>2, <1>3 DEF Positions
  <1> QED BY <1>2, <1>5, <1>6

\* A command names a position, and takes the cover to one.
LEMMA CommandType ==
    ASSUME TypeOK, NEW c \in Commands
    PROVE  /\ c.to \in Positions /\ Destination(c) \in Positions
           /\ Fresh(Answer(c)) \in Messages /\ Fresh(Report(at)) \in Messages
           /\ IsReport(Fresh(Answer(c))) <=> c.op = "ask"
           /\ ReachesMover(c) /\ Destination(c) # at =>
                 \/ Answer(c).is = "moved"
                 \/ Answer(c).is = "target" /\ Answer(c).pos = Destination(c)
  <1>1. at \in Nat /\ at <= FullyUp /\ at \in Positions /\ FullyUp \in Nat
    BY Intervals DEF TypeOK, Positions
  <1>2. /\ c.to \in Positions
        /\ c.op \in {"move", "preset", "up", "step_up", "down", "step_down", "stop", "ask"}
    <2>1. 0 \in Positions /\ FullyUp \in Positions /\ Targets \subseteq Positions
      BY DeviceAssumption DEF Positions
    <2>2. CASE c \in [op : {"move", "preset"}, to : Targets]
      BY <2>1, <2>2
    <2>3. CASE c \in [op : {"up", "step_up"}, to : {FullyUp}]
      BY <2>1, <2>3
    <2>4. CASE c \in [op : {"down", "step_down"}, to : {0}]
      BY <2>1, <2>4
    <2>5. CASE c \in [op : {"stop", "ask"}, to : {0}]
      BY <2>1, <2>5
    <2> QED BY <2>2, <2>3, <2>4, <2>5 DEF Commands
  <1>3. Destination(c) \in Positions
    BY <1>1, <1>2 DEF Destination, Least, Positions
  <1>4. Answer(c) \in [is : {"pos", "target", "moved", "stop"}, pos : Positions]
    <2>1. 0 \in Positions
      BY <1>1 DEF Positions
    <2> QED BY <1>1, <1>2, <2>1 DEF Answer, Report
  <1>5. 0 \in 0..Latency
    BY Intervals
  <1>6. Fresh(Answer(c)) \in Messages /\ Fresh(Report(at)) \in Messages
    BY <1>1, <1>4, <1>5 DEF Messages, Fresh, Report
  <1>7. IsReport(Fresh(Answer(c))) <=> c.op = "ask"
    BY <1>2 DEF IsReport, Fresh, Answer, Report
  <1>8. ReachesMover(c) /\ Destination(c) # at =>
           \/ Answer(c).is = "moved"
           \/ Answer(c).is = "target" /\ Answer(c).pos = Destination(c)
    BY <1>2 DEF ReachesMover, Destination, Answer
  <1> QED BY <1>2, <1>3, <1>6, <1>7, <1>8

-----------------------------------------------------------------------------
(* The messages under way *)

\* v is q and then m; q without its first message; q when a tick has passed
Appended(q, m, v) ==
    /\ Len(q) \in Nat /\ Len(v) = Len(q) + 1
    /\ \A i \in 1..Len(q) : v[i] = q[i]
    /\ v[Len(q) + 1] = m

Taken(q, v) ==
    /\ Len(q) \in Nat /\ Len(q) > 0 /\ Len(v) = Len(q) - 1
    /\ \A i \in 1..Len(v) : v[i] = q[i + 1]

Aged(q, v) ==
    /\ Len(q) \in Nat /\ Len(v) = Len(q)
    /\ \A i \in 1..Len(q) : v[i].msg = q[i].msg /\ v[i].age = q[i].age + 1

\* What Append and Tail do, in these words.
LEMMA AppendIsAppended ==
    ASSUME NEW S, NEW q \in Seq(S), NEW m \in S
    PROVE  Append(q, m) \in Seq(S) /\ Appended(q, m, Append(q, m))
  BY AppendProperties, LenProperties DEF Appended

\* The first message is taken from those under way.
LEMMA TailIsTaken ==
    ASSUME NEW S, NEW q \in Seq(S), q # <<>>
    PROVE  Tail(q) \in Seq(S) /\ Taken(q, Tail(q)) /\ Head(q) = q[1] /\ q[1] \in S
  BY HeadTailProperties, LenProperties, EmptySeq DEF Taken

\* What is believed after some messages depends on these only ...
LEMMA HeardSame ==
    ASSUME NEW p, NEW q, NEW v, NEW n \in Nat, NEW x,
           \A j \in 1..n : v[j].msg = q[j].msg, Heard(p, q, n, x)
    PROVE  Heard(p, v, n, x)
  <1>1. \A j \in 1..n : IsReport(v[j]) <=> IsReport(q[j])
    BY DEF IsReport
  <1>2. \A j \in 1..n : \A k \in (j + 1)..n : k \in 1..n
    OBVIOUS
  <1> QED BY <1>1, <1>2 DEF Heard

\* ... one more message that is not a report changes nothing ...
LEMMA HeardMore ==
    ASSUME NEW p, NEW q, NEW n \in Nat, NEW x, Heard(p, q, n, x), ~IsReport(q[n + 1])
    PROVE  Heard(p, q, n + 1, x)
  <1>1. \A j \in 1..(n + 1) : j \in 1..n \/ j = n + 1
    OBVIOUS
  <1>2. CASE p = x /\ \A j \in 1..n : ~IsReport(q[j])
    BY <1>1, <1>2 DEF Heard
  <1>3. ASSUME NEW j \in 1..n, IsReport(q[j]), q[j].msg.pos = x,
               \A k \in (j + 1)..n : ~IsReport(q[k])
        PROVE  Heard(p, q, n + 1, x)
    <2>1. \A k \in (j + 1)..(n + 1) : k \in (j + 1)..n \/ k = n + 1
      OBVIOUS
    <2>2. j \in 1..(n + 1)
      OBVIOUS
    <2> QED BY <1>3, <2>1, <2>2 DEF Heard
  <1> QED BY <1>2, <1>3 DEF Heard

\* ... and one more report is what is believed.
LEMMA HeardReport ==
    ASSUME NEW p, NEW q, NEW n \in Nat, IsReport(q[n + 1])
    PROVE  Heard(p, q, n + 1, q[n + 1].msg.pos)
  <1>1. n + 1 \in 1..(n + 1) /\ \A k \in (n + 1 + 1)..(n + 1) : FALSE
    OBVIOUS
  <1> QED BY <1>1 DEF Heard

\* The first message is handled: the others lead to the same belief.
LEMMA HeardTaken ==
    ASSUME NEW p, NEW q, NEW v, Taken(q, v), NEW n \in 1..Len(q), NEW x,
           Heard(p, q, n, x)
    PROVE  Heard(IF IsReport(q[1]) THEN q[1].msg.pos ELSE p, v, n - 1, x)
  <1>0. Len(q) \in Nat /\ n \in Nat /\ 1 \in 1..n
    BY DEF Taken
  <1>1. \A j \in 1..(n - 1) : v[j] = q[j + 1] /\ j + 1 \in 1..n
    BY <1>0 DEF Taken
  <1>2. CASE p = x /\ \A j \in 1..n : ~IsReport(q[j])
    BY <1>0, <1>1, <1>2 DEF Heard
  <1>3. ASSUME NEW j \in 1..n, IsReport(q[j]), q[j].msg.pos = x,
               \A k \in (j + 1)..n : ~IsReport(q[k])
        PROVE  Heard(IF IsReport(q[1]) THEN q[1].msg.pos ELSE p, v, n - 1, x)
    <2>1. CASE j = 1
      <3>1. \A k \in 1..(n - 1) : k + 1 \in (j + 1)..n
        BY <1>0, <2>1
      <3>2. \A k \in 1..(n - 1) : ~IsReport(v[k])
        BY <1>1, <1>3, <3>1
      <3> QED BY <1>3, <2>1, <3>2 DEF Heard
    <2>2. CASE j # 1
      <3>1. j - 1 \in 1..(n - 1) /\ (j - 1) + 1 = j
        BY <1>0, <2>2
      <3>2. \A k \in ((j - 1) + 1)..(n - 1) : k \in 1..(n - 1) /\ k + 1 \in (j + 1)..n
        BY <1>0, <3>1
      <3>3. v[j - 1] = q[j] /\ \A k \in ((j - 1) + 1)..(n - 1) : v[k] = q[k + 1]
        BY <1>1, <3>1, <3>2
      <3>4. \A k \in ((j - 1) + 1)..(n - 1) : ~IsReport(v[k])
        BY <1>3, <3>2, <3>3
      <3> QED BY <1>3, <3>1, <3>3, <3>4 DEF Heard
    <2> QED BY <2>1, <2>2
  <1> QED BY <1>2, <1>3 DEF Heard
-----------------------------------------------------------------------------
(* What the three changes of a queue do to the parts of the invariant *)

\* A message is sent: what was known is, unless it is a report, what was to be
\* acknowledged and reported still is, and a report is young.
LEMMA AppendKeeps ==
    ASSUME NEW q \in Seq(Messages), NEW m \in Messages, NEW v, Appended(q, m, v)
    PROVE  /\ \A p, x : Heard(p, q, Len(q), x) /\ ~IsReport(m) => Heard(p, v, Len(v), x)
           /\ \A p : IsReport(m) => Heard(p, v, Len(v), m.msg.pos)
           /\ \A p, g : AckIn(p, q, g) => AckIn(p, v, g)
           /\ \A t, l : ReportBefore(q, t, l) => ReportBefore(v, t, l)
           /\ \A t, l \in Int : IsReport(m) /\ m.age = 0 /\ t + Latency < l
                                    => ReportBefore(v, t, l)
           /\ \A e \in Int : AcksSince(q, e) /\ (IsReport(m) \/ e <= m.age + Latency)
                                 => AcksSince(v, e)
  <1>1. /\ Len(q) \in Nat /\ Len(v) = Len(q) + 1 /\ v[Len(v)] = m
        /\ \A i \in 1..Len(q) : v[i] = q[i] /\ i \in 1..Len(v)
        /\ \A i \in 1..Len(v) : i \in 1..Len(q) \/ i = Len(v)
        /\ Len(v) \in 1..Len(v)
    BY DEF Appended
  <1>2. ASSUME NEW p, NEW x, NEW n \in 0..Len(q), Heard(p, q, n, x)
        PROVE  Heard(p, v, n, x)
    <2>1. n \in Nat /\ \A j \in 1..n : j \in 1..Len(q)
      BY <1>1
    <2> QED BY <1>1, <1>2, <2>1, HeardSame
  <1>3. ASSUME NEW p, NEW x, Heard(p, q, Len(q), x), ~IsReport(m)
        PROVE  Heard(p, v, Len(v), x)
    <2>1. Heard(p, v, Len(q), x) /\ ~IsReport(v[Len(q) + 1])
      BY <1>1, <1>2, <1>3
    <2> QED BY <1>1, <2>1, HeardMore
  <1>4. ASSUME NEW p, IsReport(m)
        PROVE  Heard(p, v, Len(v), m.msg.pos)
    <2>1. IsReport(v[Len(q) + 1]) /\ v[Len(q) + 1] = m
      BY <1>1, <1>4
    <2> QED BY <1>1, <2>1, HeardReport
  <1>5. ASSUME NEW p, NEW g, AckIn(p, q, g)
        PROVE  AckIn(p, v, g)
    <2>1. PICK i \in 1..Len(q) :
              \/ q[i].msg.is = "moved"
              \/ /\ q[i].msg.is = "target" /\ q[i].msg.pos = g
                 /\ \E x \in Positions \ {g} : Heard(p, q, i - 1, x)
      BY <1>5 DEF AckIn
    <2>2. v[i] = q[i] /\ i \in 1..Len(v) /\ i - 1 \in 0..Len(q)
      BY <1>1
    <2> QED BY <1>2, <2>1, <2>2 DEF AckIn
  <1>6. ASSUME NEW t, NEW l, ReportBefore(q, t, l)
        PROVE  ReportBefore(v, t, l)
    BY <1>1, <1>6 DEF ReportBefore
  <1>7. ASSUME NEW t \in Int, NEW l \in Int, IsReport(m), m.age = 0, t + Latency < l
        PROVE  ReportBefore(v, t, l)
    <2>1. t + Latency - v[Len(v)].age < l
      BY <1>1, <1>7, Intervals
    <2> QED BY <1>1, <1>7, <2>1 DEF ReportBefore
  <1>8. ASSUME NEW e \in Int, AcksSince(q, e), IsReport(m) \/ e <= m.age + Latency
        PROVE  AcksSince(v, e)
    BY <1>1, <1>8 DEF AcksSince
  <1> QED BY <1>3, <1>4, <1>5, <1>6, <1>7, <1>8

\* An acknowledgement is sent of a movement to another place than the client will
\* know of.
LEMMA AckIsSent ==
    ASSUME NEW q \in Seq(Messages), NEW m \in Messages, NEW v, Appended(q, m, v),
           NEW p, NEW x \in Positions, Heard(p, q, Len(q), x),
           NEW g, g # x, m.msg.is = "moved" \/ (m.msg.is = "target" /\ m.msg.pos = g)
    PROVE  AckIn(p, v, g)
  <1>1. /\ Len(q) \in Nat /\ Len(v) = Len(q) + 1 /\ v[Len(v)] = m
        /\ \A i \in 1..Len(q) : v[i] = q[i]
        /\ Len(v) \in 1..Len(v) /\ Len(v) - 1 = Len(q)
    BY DEF Appended
  <1>2. Heard(p, v, Len(v) - 1, x)
    BY <1>1, HeardSame
  <1> QED BY <1>1, <1>2 DEF AckIn

\* The first message is handled: the client believes what it reports.
LEMMA TakenKeeps ==
    ASSUME NEW q \in Seq(Messages), NEW v, Taken(q, v), NEW p, NEW b,
           IsReport(q[1]) => b = q[1].msg.pos, ~IsReport(q[1]) => b = p
    PROVE  /\ \A x : Heard(p, q, Len(q), x) => Heard(b, v, Len(v), x)
           /\ \A g : AckIn(p, q, g) => \/ AckIn(b, v, g)
                                       \/ q[1].msg.is = "moved"
                                       \/ q[1].msg.is = "target" /\ q[1].msg.pos = g /\ p # g
           /\ \A t, l : ReportBefore(q, t, l) => ReportBefore(v, t, l) \/ IsReport(q[1])
           /\ \A e : AcksSince(q, e) => AcksSince(v, e)
  <1>1. /\ Len(q) \in Nat /\ Len(q) \in 1..Len(q) /\ Len(v) = Len(q) - 1
        /\ \A i \in 1..Len(v) : v[i] = q[i + 1] /\ i + 1 \in 1..Len(q)
        /\ \A i \in 1..Len(q) : i # 1 => i - 1 \in 1..Len(v) /\ v[i - 1] = q[i]
    BY DEF Taken
  <1>2. ASSUME NEW x, NEW n \in 1..Len(q), Heard(p, q, n, x)
        PROVE  Heard(b, v, n - 1, x)
    BY <1>2, HeardTaken
  <1>3. \A x : Heard(p, q, Len(q), x) => Heard(b, v, Len(v), x)
    BY <1>1, <1>2
  <1>4. ASSUME NEW g, AckIn(p, q, g)
        PROVE  \/ AckIn(b, v, g)
               \/ q[1].msg.is = "moved"
               \/ q[1].msg.is = "target" /\ q[1].msg.pos = g /\ p # g
    <2>1. PICK i \in 1..Len(q) :
              \/ q[i].msg.is = "moved"
              \/ /\ q[i].msg.is = "target" /\ q[i].msg.pos = g
                 /\ \E x \in Positions \ {g} : Heard(p, q, i - 1, x)
      BY <1>4 DEF AckIn
    <2>2. CASE i = 1
      <3>1. \A x : Heard(p, q, i - 1, x) => p = x
        BY <2>2 DEF Heard
      <3> QED BY <2>1, <2>2, <3>1
    <2>3. CASE i # 1
      <3>1. i - 1 \in 1..Len(v) /\ v[i - 1] = q[i] /\ i - 1 \in 1..Len(q)
        BY <1>1, <2>3
      <3>2. \A x : Heard(p, q, i - 1, x) => Heard(b, v, (i - 1) - 1, x)
        BY <1>2, <3>1
      <3> QED BY <2>1, <3>1, <3>2 DEF AckIn
    <2> QED BY <2>2, <2>3
  <1>5. ASSUME NEW t, NEW l, ReportBefore(q, t, l)
        PROVE  ReportBefore(v, t, l) \/ IsReport(q[1])
    BY <1>1, <1>5 DEF ReportBefore
  <1>6. \A e : AcksSince(q, e) => AcksSince(v, e)
    BY <1>1 DEF AcksSince
  <1> QED BY <1>3, <1>4, <1>5, <1>6

\* A tick passes: the messages are as much older as what they are compared with.
LEMMA AgedKeeps ==
    ASSUME NEW q \in Seq(Messages), NEW v, Aged(q, v)
    PROVE  /\ \A p, x : Heard(p, q, Len(q), x) => Heard(p, v, Len(v), x)
           /\ \A p, g : AckIn(p, q, g) => AckIn(p, v, g)
           /\ \A t, s, l \in Int :
                  ReportBefore(q, t, l) /\ s <= t + 1 => ReportBefore(v, s, l)
           /\ \A e, f \in Int : AcksSince(q, e) /\ f <= e + 1 => AcksSince(v, f)
  <1>0. Latency \in Int
    BY Intervals
  <1>1. /\ Len(q) \in Nat /\ Len(v) = Len(q)
        /\ \A i \in 1..Len(q) : /\ v[i].msg = q[i].msg /\ v[i].age = q[i].age + 1
                                /\ q[i].age \in Int
                                /\ IsReport(v[i]) <=> IsReport(q[i])
    <2>1. \A i \in 1..Len(q) : q[i] \in Messages
      OBVIOUS
    <2> QED BY <2>1, Intervals DEF Aged, Messages, IsReport
  <1>2. ASSUME NEW p, NEW x, NEW n \in 0..Len(q), Heard(p, q, n, x)
        PROVE  Heard(p, v, n, x)
    <2>1. n \in Nat /\ \A j \in 1..n : j \in 1..Len(q)
      BY <1>1
    <2> QED BY <1>1, <1>2, <2>1, HeardSame
  <1>3. ASSUME NEW p, NEW g, AckIn(p, q, g)
        PROVE  AckIn(p, v, g)
    <2>1. PICK i \in 1..Len(q) :
              \/ q[i].msg.is = "moved"
              \/ /\ q[i].msg.is = "target" /\ q[i].msg.pos = g
                 /\ \E x \in Positions \ {g} : Heard(p, q, i - 1, x)
      BY <1>3 DEF AckIn
    <2>2. i - 1 \in 0..Len(q) /\ i \in 1..Len(v)
      BY <1>1
    <2> QED BY <1>1, <1>2, <2>1, <2>2 DEF AckIn
  <1>4. ASSUME NEW t \in Int, NEW s \in Int, NEW l \in Int,
               ReportBefore(q, t, l), s <= t + 1
        PROVE  ReportBefore(v, s, l)
    <2>1. PICK i \in 1..Len(q) : IsReport(q[i]) /\ t + Latency - q[i].age < l
      BY <1>4 DEF ReportBefore
    <2>2. s + Latency - v[i].age < l
      BY <1>1, <1>4, <2>1, Intervals, SMTT(40)
    <2> QED BY <1>1, <2>1, <2>2 DEF ReportBefore
  <1>5. ASSUME NEW e \in Int, NEW f \in Int, AcksSince(q, e), f <= e + 1
        PROVE  AcksSince(v, f)
    <2>1. ASSUME NEW i \in 1..Len(v), ~IsReport(v[i])
          PROVE  f <= v[i].age + Latency
      <3>1. i \in 1..Len(q) /\ ~IsReport(q[i])
        BY <1>1, <2>1
      <3>2. e <= q[i].age + Latency
        BY <1>5, <3>1 DEF AcksSince
      <3>3. v[i].age = q[i].age + 1 /\ q[i].age \in Int
        BY <1>1, <3>1
      <3>4. \A a \in Int : e <= a + Latency => f <= (a + 1) + Latency
        BY <1>0, <1>5
      <3>5. f <= (q[i].age + 1) + Latency
        BY <3>2, <3>3, <3>4
      <3> QED BY <3>3, <3>5, Zenon
    <2> QED BY <2>1 DEF AcksSince
  <1> QED BY <1>1, <1>2, <1>3, <1>4, <1>5

\* A tick makes every message under way older, none of them too old.
LEMMA OlderIsAged ==
    ASSUME NEW S, NEW q \in Seq([msg : S, age : 0..Latency]),
           \A i \in DOMAIN q : q[i].age < Latency
    PROVE  Older(q) \in Seq([msg : S, age : 0..Latency]) /\ Aged(q, Older(q))
  <1>0. Latency \in Nat
    BY Intervals
  <1>1. Len(q) \in Nat /\ DOMAIN q = 1..Len(q)
    BY LenProperties
  <1>2. \A i \in 1..Len(q) : q[i] \in [msg : S, age : 0..Latency] /\ q[i].age < Latency
    BY <1>1, ElementOfSeq
  <1>3. DOMAIN Older(q) = 1..Len(q)
    BY <1>1 DEF Older
  <1>4. \A i \in 1..Len(q) : /\ Older(q)[i] \in [msg : S, age : 0..Latency]
                             /\ Older(q)[i].msg = q[i].msg
                             /\ Older(q)[i].age = q[i].age + 1
    <2> TAKE i \in 1..Len(q)
    <2>1. Older(q)[i] = [q[i] EXCEPT !.age = @ + 1]
      BY <1>1 DEF Older
    <2>2. q[i].age + 1 \in 0..Latency /\ q[i].age \in 0..Latency
      <3>1. q[i].age \in 0..Latency /\ q[i].age < Latency
        BY <1>2
      <3> QED BY <1>0, <3>1
    <2>3. q[i] = [msg |-> q[i].msg, age |-> q[i].age] /\ q[i].msg \in S
      BY <1>2
    <2>4. Older(q)[i] = [msg |-> q[i].msg, age |-> q[i].age + 1]
      BY <2>1, <2>3
    <2> QED BY <2>2, <2>3, <2>4
  <1>5. Older(q) = [i \in 1..Len(q) |-> Older(q)[i]]
    BY <1>1 DEF Older
  <1>6. Older(q) \in Seq([msg : S, age : 0..Latency])
    BY <1>1, <1>4, <1>5, IsASeq
  <1>7. Len(Older(q)) = Len(q)
    BY <1>1, <1>3, <1>6, LenProperties
  <1> QED BY <1>1, <1>4, <1>6, <1>7 DEF Aged

\* What was asked for so long ago was asked for less long ago too, and no message
\* was asked for after it was sent.
LEMMA AcksSinceLess ==
    ASSUME NEW q \in Seq(Messages)
    PROVE  /\ \A e, f \in Int : AcksSince(q, e) /\ f <= e => AcksSince(q, f)
           /\ AcksSince(q, 0)
  <1>1. \A i \in 1..Len(q) : q[i].age \in Nat
    <2>1. \A i \in 1..Len(q) : q[i] \in Messages
      OBVIOUS
    <2> QED BY <2>1, Intervals DEF Messages
  <1>2. \A i \in 1..Len(q) : q[i].age + Latency \in Nat
    BY <1>1, Intervals
  <1> QED BY <1>2 DEF AcksSince

-----------------------------------------------------------------------------
(* The initial states *)

\* The invariant holds at first.
LEMMA Start == Init => IInv
  <1> SUFFICES ASSUME Init PROVE IInv
    OBVIOUS
  <1> USE DEF Init
  <1>1. 0 \in Positions /\ FullyUp \in Positions /\ 0 \in 0..Latency
    BY Intervals DEF Positions
  <1>2. Ask \in Commands
    BY DEF Ask, Commands
  <1>3. out = <<[msg |-> Ask, age |-> 0]>> /\ out \in Seq([msg : Commands, age : 0..Latency])
    BY <1>1, <1>2 DEF FirstCommands, Fresh
  <1>4. TypeOK
    <2>1. in \in Seq(Messages)
      OBVIOUS
    <2>2. left \in 0..LegTime /\ age \in 0..Delay /\ timer \in 0..(WriteDelay + Poll)
      BY Intervals
    <2>3. quiet \in 0..(TimingThreshold + 1) /\ sent \in 0..MaxCommands
      BY Intervals
    <2> QED BY <1>1, <1>3, <2>1, <2>2, <2>3 DEF TypeOK, Messages, Waits
  <1>5. KnownInv
    BY <1>3 DEF KnownInv, Ask
  <1>6. ShownInv /\ QuietInv
    BY DEF ShownInv, QuietInv, Moving
  <1>7. ElapsedInv
    BY <1>3, Intervals, SMTT(40) DEF ElapsedInv, Elapsed, AcksSince
  <1> QED BY <1>4, <1>5, <1>6, <1>7 DEF IInv

-----------------------------------------------------------------------------
(* The device *)

\* What the types say, and how long ago the user's command was sent
LEMMA Types ==
    ASSUME TypeOK
    PROVE  /\ in \in Seq(Messages) /\ Len(in) \in Nat
           /\ out \in Seq([msg : Commands, age : 0..Latency]) /\ Len(out) \in Nat
           /\ \A i \in 1..Len(out) : out[i].msg \in Commands /\ out[i].age \in 0..Latency
           /\ \A i \in 1..Len(in) : in[i] \in Messages
           /\ out # <<>> => 1 \in 1..Len(out) /\ Head(out) = out[1]
           /\ in # <<>> => 1 \in 1..Len(in) /\ Head(in) = in[1]
           /\ Elapsed \in Int /\ Elapsed <= WriteDelay + Poll
           /\ left \in Nat /\ left <= LegTime /\ age \in Nat /\ quiet \in Nat
  <1>1. in \in Seq(Messages) /\ out \in Seq([msg : Commands, age : 0..Latency])
    BY DEF TypeOK, Messages
  <1>2. \A i \in 1..Len(out) : out[i] \in [msg : Commands, age : 0..Latency]
    BY <1>1, ElementOfSeq
  <1>3. out # <<>> => 1 \in 1..Len(out) /\ Head(out) = out[1]
    BY <1>1, HeadTailProperties, EmptySeq
  <1>4. in # <<>> => 1 \in 1..Len(in) /\ Head(in) = in[1]
    BY <1>1, HeadTailProperties, EmptySeq
  <1>5. Elapsed \in Int /\ Elapsed <= WriteDelay + Poll
    <2>1. timer \in Nat /\ timer <= WriteDelay + Poll
      BY Intervals DEF TypeOK
    <2>2. CASE pc = "writing"
      BY <2>1, <2>2, Intervals DEF Elapsed
    <2>3. CASE pc = "waiting"
      BY <2>1, <2>3, Intervals DEF Elapsed
    <2>4. CASE pc # "writing" /\ pc # "waiting"
      BY <2>4, Intervals DEF Elapsed
    <2> QED BY <2>2, <2>3, <2>4
  <1>6. left \in Nat /\ left <= LegTime /\ age \in Nat /\ quiet \in Nat
    BY Intervals DEF TypeOK
  <1> QED BY <1>1, <1>2, <1>3, <1>4, <1>5, <1>6

\* What the device sends when it obeys: the answer, if the command is the client's,
\* and the report of the movement that it interrupts.
LEMMA ObeySends ==
    ASSUME TypeOK, NEW c \in Commands, NEW mine \in BOOLEAN, Obey(c, mine)
    PROVE  /\ in' \in Seq(Messages)
           /\ \E q \in Seq(Messages) :
                  /\ IF mine THEN Appended(in, Fresh(Answer(c)), q) ELSE q = in
                  /\ in' = q \/ Appended(q, Fresh(Report(at)), in')
  <1>1. in \in Seq(Messages)
    BY Types
  <1>2. Fresh(Answer(c)) \in Messages /\ Fresh(Report(at)) \in Messages
    BY CommandType
  <1> DEFINE q == in \o (IF mine THEN <<Fresh(Answer(c))>> ELSE <<>>)
  <1>3. q \in Seq(Messages) /\ IF mine THEN Appended(in, Fresh(Answer(c)), q) ELSE q = in
    <2>1. CASE mine
      <3>1. q = Append(in, Fresh(Answer(c)))
        BY <1>1, <1>2, <2>1, AppendIsConcat
      <3> QED BY <1>1, <1>2, <2>1, <3>1, AppendIsAppended
    <2>2. CASE ~mine
      BY <1>1, <2>2, ConcatEmptySeq
    <2> QED BY <2>1, <2>2
  <1>4. in' = q \o StopReport(c)
    BY DEF Obey
  <1> HIDE DEF q
  <1>5. in' \in Seq(Messages) /\ (in' = q \/ Appended(q, Fresh(Report(at)), in'))
    <2>1. CASE StopReport(c) = <<Fresh(Report(at))>>
      <3>1. in' = Append(q, Fresh(Report(at)))
        BY <1>2, <1>3, <1>4, <2>1, AppendIsConcat
      <3> QED BY <1>2, <1>3, <3>1, AppendIsAppended
    <2>2. CASE StopReport(c) = <<>>
      BY <1>3, <1>4, <2>2, ConcatEmptySeq
    <2> QED BY <2>1, <2>2 DEF StopReport
  <1> QED BY <1>3, <1>5

\* What the client will know, what shows it a movement and what is going to be
\* reported stay as they are when the device obeys; a command of the client's that
\* starts a movement is acknowledged, and one that asks is answered.
LEMMA ObeyKeeps ==
    ASSUME TypeOK, NEW c \in Commands, NEW mine \in BOOLEAN, Obey(c, mine)
    PROVE  /\ Heard(pos, in, Len(in), at) \/ (mine /\ c.op = "ask")
                 => Heard(pos, in', Len(in'), at)
           /\ \A g : AckIn(pos, in, g) => AckIn(pos, in', g)
           /\ \A t, l : ReportBefore(in, t, l) => ReportBefore(in', t, l)
           /\ \A e \in Int : AcksSince(in, e) /\ (mine => e <= Latency)
                                 => AcksSince(in', e)
           /\ /\ mine /\ ReachesMover(c) /\ Destination(c) # at
              /\ Heard(pos, in, Len(in), at)
              => AckIn(pos, in', Destination(c))
  <1> DEFINE a == Fresh(Answer(c))
             r == Fresh(Report(at))
  <1>1. /\ in \in Seq(Messages) /\ a \in Messages /\ r \in Messages
        /\ IsReport(r) /\ r.msg.pos = at /\ (IsReport(a) <=> c.op = "ask")
        /\ a.age = 0 /\ a.msg = Answer(c) /\ at \in Positions
        /\ c.op = "ask" => a.msg.pos = at
    BY Types, CommandType DEF Fresh, Report, IsReport, TypeOK, Answer
  <1>2. PICK q \in Seq(Messages) :
             /\ IF mine THEN Appended(in, a, q) ELSE q = in
             /\ in' = q \/ Appended(q, r, in')
    BY ObeySends
  <1>3. c.op # "ask" \/ c.op = "ask"
    OBVIOUS
  <1> HIDE DEF a, r
  <1>4. /\ Heard(pos, in, Len(in), at) \/ (mine /\ c.op = "ask")
              => Heard(pos, q, Len(q), at)
        /\ \A g : AckIn(pos, in, g) => AckIn(pos, q, g)
        /\ \A t, l : ReportBefore(in, t, l) => ReportBefore(q, t, l)
        /\ \A e \in Int : AcksSince(in, e) /\ (mine => e <= Latency) => AcksSince(q, e)
        /\ /\ mine /\ ReachesMover(c) /\ Destination(c) # at
           /\ Heard(pos, in, Len(in), at)
           => AckIn(pos, q, Destination(c))
    <2>1. CASE mine
      <3>1. Appended(in, a, q)
        BY <1>2, <2>1
      <3>2. \A e \in Int : e <= Latency => e <= a.age + Latency
        BY <1>1, Intervals
      <3>3. /\ \A p, x : Heard(p, in, Len(in), x) /\ ~IsReport(a) => Heard(p, q, Len(q), x)
            /\ \A p : IsReport(a) => Heard(p, q, Len(q), a.msg.pos)
            /\ \A p, g : AckIn(p, in, g) => AckIn(p, q, g)
            /\ \A t, l : ReportBefore(in, t, l) => ReportBefore(q, t, l)
            /\ \A e \in Int : AcksSince(in, e) /\ (IsReport(a) \/ e <= a.age + Latency)
                                  => AcksSince(q, e)
        BY <1>1, <3>1, AppendKeeps
      <3>4. Heard(pos, in, Len(in), at) \/ (mine /\ c.op = "ask")
                => Heard(pos, q, Len(q), at)
        BY <1>1, <3>3
      <3>5. ASSUME ReachesMover(c), Destination(c) # at, Heard(pos, in, Len(in), at)
            PROVE  AckIn(pos, q, Destination(c))
        <4>1. \/ a.msg.is = "moved"
              \/ a.msg.is = "target" /\ a.msg.pos = Destination(c)
          BY <1>1, <3>5, CommandType
        <4> QED BY <1>1, <3>1, <3>5, <4>1, AckIsSent
      <3> QED BY <2>1, <3>2, <3>3, <3>4, <3>5
    <2>2. CASE ~mine
      BY <1>2, <2>2
    <2> QED BY <2>1, <2>2
  <1>5. CASE in' = q
    BY <1>4, <1>5
  <1>6. CASE Appended(q, r, in')
    <2>1. /\ \A p : IsReport(r) => Heard(p, in', Len(in'), r.msg.pos)
          /\ \A p, g : AckIn(p, q, g) => AckIn(p, in', g)
          /\ \A t, l : ReportBefore(q, t, l) => ReportBefore(in', t, l)
          /\ \A e \in Int : AcksSince(q, e) /\ (IsReport(r) \/ e <= r.age + Latency)
                                => AcksSince(in', e)
      BY <1>1, <1>6, AppendKeeps
    <2>2. Heard(pos, in', Len(in'), at)
      BY <1>1, <2>1
    <2> QED BY <1>1, <1>4, <2>1, <2>2
  <1> QED BY <1>2, <1>5, <1>6

\* The type of the device's variables and of the responses, when a command is obeyed
LEMMA ObeyType ==
    ASSUME TypeOK, NEW c \in Commands, NEW mine \in BOOLEAN, Obey(c, mine)
    PROVE  /\ at' \in Positions /\ goal' \in Positions \cup {NoGoal} /\ left' \in 0..LegTime
           /\ tells' \in BOOLEAN /\ ours' \in BOOLEAN /\ in' \in Seq(Messages)
           /\ untold' \in BOOLEAN
  <1>1. Destination(c) \in Positions /\ at \in Positions
    BY CommandType DEF TypeOK
  <1>2. LegFrom(at, Destination(c)) \in 0..LegTime
    BY <1>1, LegType
  <1>3. in' \in Seq(Messages)
    BY ObeySends
  <1> QED BY <1>1, <1>2, <1>3 DEF Obey, TypeOK

\* The command of the client that is first under way arrives.
LEMMA ReceivedStep == IInv /\ Received => IInv'
  <1> SUFFICES ASSUME IInv, Received PROVE IInv'
    OBVIOUS
  <1> USE DEF IInv
  <1> DEFINE c == Head(out).msg
  <1>1. /\ out # <<>> /\ c \in Commands /\ Obey(c, TRUE) /\ out' = Tail(out)
        /\ Head(out) = out[1] /\ 1 \in 1..Len(out)
    BY Types DEF Received
  <1>2. /\ out' \in Seq([msg : Commands, age : 0..Latency])
        /\ Len(out') = Len(out) - 1 /\ \A i \in 1..Len(out') : out'[i] = out[i + 1]
    BY <1>1, Types, TailIsTaken DEF Taken
  <1>3. /\ Heard(pos, in, Len(in), at) \/ c.op = "ask" => Heard(pos, in', Len(in'), at)
        /\ \A g : AckIn(pos, in, g) => AckIn(pos, in', g)
        /\ \A t, l : ReportBefore(in, t, l) => ReportBefore(in', t, l)
        /\ \A e \in Int : AcksSince(in, e) /\ e <= Latency => AcksSince(in', e)
        /\ /\ ReachesMover(c) /\ Destination(c) # at /\ Heard(pos, in, Len(in), at)
           => AckIn(pos, in', Destination(c))
    BY <1>1, ObeyKeeps
  <1>4. at' = at /\ untold' = untold /\ pos' = pos /\ age' = age /\ idle' = idle
    BY <1>1 DEF Received, Obey, coverVars
  <1>5. pc' = pc /\ wait' = wait /\ timer' = timer /\ quiet' = quiet /\ sent' = sent
    BY DEF Received, userVars
  <1>6. ~untold /\ c.op # "ask" => Heard(pos, in, Len(in), at)
    BY <1>1 DEF KnownInv
  <1>7. \/ UNCHANGED <<goal, left, tells, ours>>
        \/ /\ ReachesMover(c)
           /\ goal' = IF Destination(c) = at THEN NoGoal ELSE Destination(c)
           /\ ours' => Destination(c) # at
    BY <1>1 DEF Obey
  <1> HIDE DEF c
  <1>8. TypeOK'
    <2>1. /\ at' \in Positions /\ goal' \in Positions \cup {NoGoal} /\ left' \in 0..LegTime
          /\ tells' \in BOOLEAN /\ ours' \in BOOLEAN /\ in' \in Seq(Messages)
          /\ untold' \in BOOLEAN
      BY <1>1, ObeyType
    <2> QED BY <2>1, <1>2, <1>4, <1>5 DEF TypeOK, Messages
  <1>9. KnownInv'
    BY <1>3, <1>4, <1>6 DEF KnownInv
  <1>10. ShownInv'
    <2>1. CASE UNCHANGED <<goal, left, tells, ours>>
      BY <1>3, <1>4, <2>1 DEF ShownInv, Moving
    <2>2. CASE ReachesMover(c) /\ ours' /\ Destination(c) # at /\ goal' = Destination(c)
      <3>1. c.op # "ask"
        BY <2>2 DEF ReachesMover
      <3>2. ~untold => AckIn(pos, in', Destination(c))
        BY <1>3, <1>6, <2>2, <3>1
      <3> QED BY <1>4, <2>2, <3>2 DEF ShownInv
    <2>3. CASE ~ours'
      BY <2>3 DEF ShownInv
    <2> QED BY <1>7, <2>1, <2>2, <2>3
  <1>11. ElapsedInv'
    <2>1. Elapsed' = Elapsed
      BY <1>5 DEF Elapsed
    <2>2. Elapsed <= Latency /\ Elapsed \in Int
      <3>1. Elapsed <= out[1].age /\ out[1].age \in 0..Latency
        BY <1>1, Types DEF ElapsedInv
      <3> QED BY <3>1, Types, Intervals, SMTT(40)
    <2>3. AcksSince(in', Elapsed)
      BY <1>3, <2>2 DEF ElapsedInv
    <2>4. \A i \in 1..Len(out') : Elapsed <= out'[i].age
      <3>1. \A i \in 1..Len(out') : i + 1 \in 1..Len(out)
        BY <1>2, Types
      <3> QED BY <1>2, <3>1 DEF ElapsedInv
    <2> QED BY <2>1, <2>3, <2>4 DEF ElapsedInv
  <1>12. QuietInv'
    <2> SUFFICES ASSUME pc = "waiting", wait = "timing" PROVE QuietInv'
      BY <1>5 DEF QuietInv
    <2>1. \A i \in 1..Len(out) : quiet <= out[i].age
      BY DEF QuietInv
    <2>2. \A i \in 1..Len(out') : quiet' <= out'[i].age
      <3>1. \A i \in 1..Len(out') : i + 1 \in 1..Len(out)
        BY <1>2, Types
      <3> QED BY <1>2, <1>5, <2>1, <3>1
    <2>3. quiet' + left' + Latency <= TimingThreshold
      <3>1. quiet <= out[1].age /\ out[1].age \in 0..Latency /\ quiet \in Nat
        BY <1>1, <2>1, Types
      <3>2. left' \in 0..LegTime /\ quiet' = quiet
        BY <1>5, <1>8 DEF TypeOK
      <3>3. quiet \in Int /\ quiet <= Latency /\ left' \in Int /\ left' <= LegTime
        <4> HIDE DEF LegTime
        <4> QED BY <3>1, <3>2, Intervals
      <3> QED BY <3>2, <3>3, QuietEnough
    <2> QED BY <2>2, <2>3 DEF QuietInv
  <1> QED BY <1>8, <1>9, <1>10, <1>11, <1>12

\* Another client's command arrives.
LEMMA OtherStep == ASSUME NEW c \in Commands PROVE IInv /\ OtherCommand(c) => IInv'
  <1> SUFFICES ASSUME IInv, OtherCommand(c) PROVE IInv'
    OBVIOUS
  <1> USE DEF IInv
  <1>1. Obey(c, FALSE) /\ out' = out /\ sent < MaxCommands /\ sent' = sent + 1
    BY DEF OtherCommand
  <1>3. /\ Heard(pos, in, Len(in), at) => Heard(pos, in', Len(in'), at)
        /\ \A g : AckIn(pos, in, g) => AckIn(pos, in', g)
        /\ \A t, l : ReportBefore(in, t, l) => ReportBefore(in', t, l)
        /\ \A e \in Int : AcksSince(in, e) => AcksSince(in', e)
    BY <1>1, ObeyKeeps
  <1>4. at' = at /\ untold' = untold /\ pos' = pos /\ age' = age /\ idle' = idle
    BY <1>1 DEF OtherCommand, Obey, coverVars
  <1>5. pc' = pc /\ wait' = wait /\ timer' = timer /\ quiet' = quiet
    BY DEF OtherCommand, userVars
  <1>7. UNCHANGED <<goal, left, tells, ours>> \/ ~ours'
    BY <1>1 DEF Obey
  <1>8. TypeOK'
    <2>1. /\ at' \in Positions /\ goal' \in Positions \cup {NoGoal} /\ left' \in 0..LegTime
          /\ tells' \in BOOLEAN /\ ours' \in BOOLEAN /\ in' \in Seq(Messages)
          /\ untold' \in BOOLEAN
      BY <1>1, ObeyType
    <2>2. sent' \in 0..MaxCommands
      BY <1>1, Intervals DEF TypeOK
    <2> QED BY <2>1, <2>2, <1>1, <1>4, <1>5 DEF TypeOK, Messages
  <1>9. KnownInv'
    BY <1>1, <1>3, <1>4 DEF KnownInv
  <1>10. ShownInv'
    BY <1>3, <1>4, <1>7 DEF ShownInv, Moving
  <1>11. ElapsedInv'
    <2>1. Elapsed' = Elapsed /\ Elapsed \in Int
      BY <1>5, Types DEF Elapsed
    <2> QED BY <1>1, <1>3, <2>1 DEF ElapsedInv
  <1>12. QuietInv'
    BY <1>1, <1>3, <1>5, <1>7 DEF QuietInv, Moving
  <1> QED BY <1>8, <1>9, <1>10, <1>11, <1>12

\* A leg ends: where the cover is now is reported, unless a step has moved it, and
\* the report is there before the client counts out the time of a leg.
LEMMA LegStep == IInv /\ Leg => IInv'
  <1> SUFFICES ASSUME IInv, Leg PROVE IInv'
    OBVIOUS
  <1> USE DEF IInv
  <1> DEFINE r == Fresh(Report(at'))
  <1>1. /\ Moving /\ goal \in Positions /\ at \in Positions /\ left = 0
        /\ in' = (IF tells THEN Append(in, r) ELSE in) /\ out' = out
        /\ untold' = (untold \/ ~tells)
        /\ goal' = (IF at' = goal THEN NoGoal ELSE goal)
        /\ left' = LegFrom(at', goal)
        /\ tells' = (tells /\ at' # goal) /\ ours' = (ours /\ at' # goal)
    BY DEF Leg, Moving, TypeOK
  <1>2. UNCHANGED <<pos, age, idle, pc, wait, timer, quiet, sent>>
    BY DEF Leg, coverVars, userVars
  <1>3. at' \in Positions
    BY <1>1, LegType DEF Leg
  <1>4. left' \in 0..LegTime
    BY <1>1, <1>3, LegType
  <1>5. r \in Messages /\ IsReport(r) /\ r.msg.pos = at' /\ r.age = 0
    BY <1>3, Intervals DEF Messages, Fresh, Report, IsReport
  <1>6. in \in Seq(Messages) /\ in' \in Seq(Messages) /\ (tells => Appended(in, r, in'))
    BY <1>1, <1>5, Types, AppendIsAppended
  <1> HIDE DEF r
  <1>7. tells =>
           /\ Heard(pos, in', Len(in'), at')
           /\ \A p, g : AckIn(p, in, g) => AckIn(p, in', g)
           /\ \A t, l : ReportBefore(in, t, l) => ReportBefore(in', t, l)
           /\ \A t, l \in Int : t + Latency < l => ReportBefore(in', t, l)
           /\ \A e \in Int : AcksSince(in, e) => AcksSince(in', e)
    <2> SUFFICES ASSUME tells PROVE
           /\ Heard(pos, in', Len(in'), at')
           /\ \A p, g : AckIn(p, in, g) => AckIn(p, in', g)
           /\ \A t, l : ReportBefore(in, t, l) => ReportBefore(in', t, l)
           /\ \A t, l \in Int : t + Latency < l => ReportBefore(in', t, l)
           /\ \A e \in Int : AcksSince(in, e) => AcksSince(in', e)
      OBVIOUS
    <2>1. Appended(in, r, in')
      BY <1>6
    <2>2. /\ \A p : IsReport(r) => Heard(p, in', Len(in'), r.msg.pos)
          /\ \A p, g : AckIn(p, in, g) => AckIn(p, in', g)
          /\ \A t, l : ReportBefore(in, t, l) => ReportBefore(in', t, l)
          /\ \A t, l \in Int : IsReport(r) /\ r.age = 0 /\ t + Latency < l
                                   => ReportBefore(in', t, l)
          /\ \A e \in Int : AcksSince(in, e) /\ (IsReport(r) \/ e <= r.age + Latency)
                                => AcksSince(in', e)
      BY <1>5, <1>6, <2>1, AppendKeeps
    <2> QED BY <1>5, <2>2
  <1>8. TypeOK'
    <2>1. tells' \in BOOLEAN /\ ours' \in BOOLEAN /\ untold' \in BOOLEAN
      BY <1>1 DEF TypeOK
    <2> QED BY <1>1, <1>2, <1>3, <1>4, <1>6, <2>1 DEF TypeOK, Messages
  <1>9. KnownInv'
    BY <1>1, <1>2, <1>7 DEF KnownInv
  <1>10. ShownInv'
    <2> SUFFICES ASSUME Moving', ours', ~untold' PROVE ShownInv'
      BY DEF ShownInv
    <2>1. tells /\ ours /\ ~untold /\ goal' = goal
      BY <1>1
    <2>2. CASE AckIn(pos, in, goal)
      BY <1>2, <1>7, <2>1, <2>2 DEF ShownInv
    <2>3. CASE ~idle /\ ReportBefore(in, age, Threshold)
      BY <1>2, <1>7, <2>1, <2>3 DEF ShownInv
    <2>4. CASE ~idle /\ age + left + Latency < Threshold
      <3>1. age \in Int /\ Threshold \in Int /\ age + Latency < Threshold
        BY <1>1, <2>4, Types, Intervals
      <3> QED BY <1>2, <1>7, <2>1, <2>4, <3>1 DEF ShownInv
    <2> QED BY <1>1, <2>1, <2>2, <2>3, <2>4 DEF ShownInv
  <1>11. ElapsedInv'
    <2>1. Elapsed' = Elapsed /\ Elapsed \in Int
      BY <1>2, Types DEF Elapsed
    <2> QED BY <1>1, <1>7, <2>1 DEF ElapsedInv
  <1>12. QuietInv'
    <2> SUFFICES ASSUME pc = "waiting", wait = "timing" PROVE QuietInv'
      BY <1>2 DEF QuietInv
    <2>1. \A i \in 1..Len(out') : quiet' <= out'[i].age
      BY <1>1, <1>2 DEF QuietInv
    <2>2. ASSUME Moving', ours', tells'
          PROVE  ReportBefore(in', quiet', TimingThreshold + 1)
      <3>1. tells /\ ours /\ Moving
        BY <1>1, <2>2
      <3>2. CASE ReportBefore(in, quiet, TimingThreshold + 1)
        BY <1>2, <1>7, <3>1, <3>2
      <3>3. CASE quiet + left + Latency <= TimingThreshold
        <4>1. /\ quiet \in Int /\ TimingThreshold + 1 \in Int
              /\ quiet + Latency < TimingThreshold + 1
          BY <1>1, <3>3, Types, Intervals
        <4> QED BY <1>2, <1>7, <3>1, <4>1
      <3> QED BY <3>1, <3>2, <3>3 DEF QuietInv
    <2> QED BY <2>1, <2>2 DEF QuietInv
  <1> QED BY <1>8, <1>9, <1>10, <1>11, <1>12

-----------------------------------------------------------------------------
(* The client *)

\* The client handles a message: what shows it a movement shows it for longer than
\* the next report takes, and what does not was not an acknowledgement to wait for.
LEMMA HandledStep == IInv /\ Handled => IInv'
  <1> SUFFICES ASSUME IInv, Handled PROVE IInv'
    OBVIOUS
  <1> USE DEF IInv
  <1> DEFINE m == in[1].msg
  <1>1. /\ in # <<>> /\ Head(in) = in[1] /\ in[1] \in Messages /\ in' = Tail(in)
        /\ in' \in Seq(Messages) /\ Taken(in, in')
    BY Types, TailIsTaken DEF Handled
  <1>2. /\ pos' = IF IsReport(in[1]) THEN in[1].msg.pos ELSE pos
        /\ IF ShowsMovement(m) THEN age' = 0 /\ idle' = FALSE ELSE UNCHANGED <<age, idle>>
        /\ quiet' = IF IsReport(in[1]) THEN 0 ELSE quiet
        /\ untold' = (untold /\ ~Tells(m, in'))
    BY <1>1 DEF Handled, IsReport
  <1>3. UNCHANGED <<at, goal, left, tells, ours, out, pc, wait, timer, sent>>
    BY DEF Handled, deviceVars
  <1>4. m.is \in {"pos", "target", "moved", "stop"} /\ m.pos \in Positions
    BY <1>1 DEF Messages
  <1>5. /\ \A x : Heard(pos, in, Len(in), x) => Heard(pos', in', Len(in'), x)
        /\ \A g : AckIn(pos, in, g) => \/ AckIn(pos', in', g)
                                       \/ m.is = "moved"
                                       \/ m.is = "target" /\ m.pos = g /\ pos # g
        /\ \A t, l : ReportBefore(in, t, l) => ReportBefore(in', t, l) \/ IsReport(in[1])
        /\ \A e : AcksSince(in, e) => AcksSince(in', e)
    <2>1. in \in Seq(Messages)
      BY Types
    <2>2. pos' = IF IsReport(in[1]) THEN in[1].msg.pos ELSE pos
      BY <1>2
    <2>3. (IsReport(in[1]) => pos' = in[1].msg.pos) /\ (~IsReport(in[1]) => pos' = pos)
      BY <2>2
    <2> QED BY <1>1, <2>1, <2>3, TakenKeeps
  <1>6. IsReport(in[1]) <=> m.is = "pos"
    BY DEF IsReport
  <1>7. Tells(m, in') => ShowsMovement(m) /\ Heard(pos', in', Len(in'), at)
    <2> SUFFICES ASSUME Tells(m, in') PROVE ShowsMovement(m) /\ Heard(pos', in', Len(in'), at)
      OBVIOUS
    <2>1. m.is = "pos" /\ m.pos = at /\ \A i \in DOMAIN in' : in'[i].msg.is # "pos"
      BY DEF Tells
    <2>2. DOMAIN in' = 1..Len(in')
      BY <1>1, LenProperties
    <2>3. \A i \in 1..Len(in') : ~IsReport(in'[i])
      BY <2>1, <2>2 DEF IsReport
    <2>4. pos' = at
      BY <1>2, <1>6, <2>1
    <2> QED BY <2>1, <2>3, <2>4 DEF Heard, ShowsMovement
  <1> HIDE DEF m
  <1>8. TypeOK'
    <2>1. pos' \in Positions
      BY <1>2, <1>4 DEF TypeOK, m
    <2>2. age' \in 0..Delay /\ idle' \in BOOLEAN
      <3>1. 0 \in 0..Delay
        BY Intervals
      <3> QED BY <1>2, <3>1 DEF TypeOK
    <2>3. quiet' \in 0..(TimingThreshold + 1)
      <3>1. 0 \in 0..(TimingThreshold + 1)
        BY Intervals
      <3> QED BY <1>2, <3>1 DEF TypeOK
    <2>4. untold' \in BOOLEAN
      BY <1>2 DEF TypeOK
    <2> QED BY <1>1, <1>3, <2>1, <2>2, <2>3, <2>4 DEF TypeOK, Messages
  <1>9. KnownInv'
    BY <1>2, <1>3, <1>5, <1>7 DEF KnownInv
  <1>10. ShownInv'
    <2> SUFFICES ASSUME Moving', ours', ~untold' PROVE ShownInv'
      BY DEF ShownInv
    <2>1. CASE ShowsMovement(m)
      <3>1. age' = 0 /\ idle' = FALSE /\ left' = left
        BY <1>2, <1>3, <2>1
      <3>2. age' + left' + Latency < Threshold
        BY <3>1, Types, Intervals
      <3> QED BY <3>1, <3>2 DEF ShownInv
    <2>2. CASE ~ShowsMovement(m)
      <3>1. ~untold /\ Moving /\ ours
        BY <1>2, <1>3, <1>7, <2>2 DEF Moving
      <3>2. m.is \notin {"pos", "moved"} /\ (m.is = "target" => m.pos = pos)
        BY <2>2 DEF ShowsMovement
      <3>3. AckIn(pos, in, goal) => AckIn(pos', in', goal)
        BY <1>5, <3>2
      <3>4. ReportBefore(in, age, Threshold) => ReportBefore(in', age, Threshold)
        BY <1>5, <1>6, <3>2
      <3> QED BY <1>2, <1>3, <2>2, <3>1, <3>3, <3>4 DEF ShownInv
    <2> QED BY <2>1, <2>2
  <1>11. ElapsedInv'
    <2>1. Elapsed' = Elapsed
      BY <1>3 DEF Elapsed
    <2> QED BY <1>3, <1>5, <2>1 DEF ElapsedInv
  <1>12. QuietInv'
    <2> SUFFICES ASSUME pc = "waiting", wait = "timing" PROVE QuietInv'
      BY <1>3 DEF QuietInv
    <2>1. CASE IsReport(in[1])
      <3>1. \A i \in 1..Len(out') : quiet' <= out'[i].age
        <4>1. \A i \in 1..Len(out) : out[i].age \in 0..Latency
          BY Types
        <4>2. \A n \in 0..Latency : 0 <= n
          BY Intervals
        <4> QED BY <1>2, <1>3, <2>1, <4>1, <4>2
      <3>2. quiet' + left' + Latency <= TimingThreshold
        BY <1>2, <1>3, <2>1, Types, Intervals
      <3> QED BY <3>1, <3>2 DEF QuietInv
    <2>2. CASE ~IsReport(in[1])
      BY <1>2, <1>3, <1>5, <2>2 DEF QuietInv, Moving
    <2> QED BY <2>1, <2>2
  <1> QED BY <1>8, <1>9, <1>10, <1>11, <1>12

\* The notifier's task wakes up: no report can still come that would be in time, so
\* an acknowledgement is on its way if a movement of the client's own is in progress.
LEMMA SetIdleStep == IInv /\ SetIdle => IInv'
  <1> SUFFICES ASSUME IInv, SetIdle PROVE IInv'
    OBVIOUS
  <1> USE DEF IInv
  <1>1. /\ age = Delay /\ age' = Threshold /\ idle' = TRUE
        /\ UNCHANGED <<at, goal, left, tells, ours, out, in, pos, pc, wait, timer, quiet,
                      sent, untold>>
    BY DEF SetIdle, deviceVars, userVars
  <1>2. TypeOK'
    <2>1. age' \in 0..Delay
      BY <1>1, Intervals
    <2> QED BY <1>1, <2>1 DEF TypeOK
  <1>3. KnownInv' /\ ElapsedInv' /\ QuietInv'
    BY <1>1 DEF KnownInv, ElapsedInv, Elapsed, QuietInv, Moving
  <1>4. ~ReportBefore(in, age, Threshold)
    <2>1. ASSUME NEW i \in 1..Len(in), age + Latency - in[i].age < Threshold
          PROVE  FALSE
      <3>1. in[i].age \in Int /\ in[i].age <= Latency
        <4>1. in[i] \in Messages
          BY Types
        <4> QED BY <4>1, Intervals DEF Messages
      <3> QED BY <1>1, <2>1, <3>1, Intervals, SMTT(40)
    <2> QED BY <2>1 DEF ReportBefore
  <1>5. ~(age + left + Latency < Threshold)
    BY <1>1, Types, Intervals, SMTT(40)
  <1>6. ShownInv'
    BY <1>1, <1>4, <1>5 DEF ShownInv, Moving
  <1> QED BY <1>2, <1>3, <1>6

-----------------------------------------------------------------------------
(* The user *)

\* A command is sent.
LEMMA SendStep == ASSUME NEW c \in Commands, NEW w \in Waits PROVE IInv /\ Send(c, w) => IInv'
  <1> SUFFICES ASSUME IInv, Send(c, w) PROVE IInv'
    OBVIOUS
  <1> USE DEF IInv
  <1> DEFINE S == [msg : Commands, age : 0..Latency]
  <1>1. /\ pc = "ready" /\ pc' = "writing" /\ wait' = w /\ timer' = WriteDelay
        /\ sent < MaxCommands /\ sent' = sent + 1 /\ out' = Append(out, Fresh(c))
        /\ UNCHANGED <<at, goal, left, tells, ours, in, pos, age, idle, quiet, untold>>
    BY DEF Send, deviceVars, coverVars
  <1>2. Fresh(c) \in S /\ out \in Seq(S)
    BY Types, Intervals DEF Fresh
  <1>3. out' \in Seq(S) /\ Appended(out, Fresh(c), out')
    BY <1>1, <1>2, AppendIsAppended
  <1>4. out # <<>> => Head(out') = Head(out) /\ out' # <<>>
    BY <1>1, <1>2, HeadTailAppend, AppendProperties
  <1>5. TypeOK'
    <2>1. sent' \in 0..MaxCommands
      BY <1>1, Intervals DEF TypeOK
    <2>2. timer' \in 0..(WriteDelay + Poll)
      BY <1>1, Intervals
    <2> QED BY <1>1, <1>3, <2>1, <2>2 DEF TypeOK
  <1>6. KnownInv' /\ ShownInv' /\ QuietInv'
    BY <1>1, <1>4 DEF KnownInv, ShownInv, QuietInv, Moving
  <1>7. ElapsedInv'
    <2>1. Elapsed' = 0
      BY <1>1, Intervals DEF Elapsed
    <2>2. ASSUME NEW i \in 1..Len(out')
          PROVE  0 <= out'[i].age
      <3>1. out'[i] \in S
        BY <1>3, ElementOfSeq
      <3> QED BY <3>1, Intervals
    <2>3. AcksSince(in', 0)
      BY <1>1, Types, AcksSinceLess
    <2> QED BY <2>1, <2>2, <2>3 DEF ElapsedInv
  <1> QED BY <1>5, <1>6, <1>7

\* What is under way is not younger than nothing.
LEMMA SinceNow ==
    ASSUME TypeOK
    PROVE  (\A i \in 1..Len(out) : 0 <= out[i].age) /\ AcksSince(in, 0)
  <1>1. \A i \in 1..Len(out) : out[i].age \in 0..Latency
    BY Types
  <1>2. \A n \in 0..Latency : 0 <= n
    BY Intervals
  <1> QED BY <1>1, <1>2, Types, AcksSinceLess

\* The write returns.
LEMMA WrittenStep == IInv /\ Written => IInv'
  <1> SUFFICES ASSUME IInv, Written PROVE IInv'
    OBVIOUS
  <1> USE DEF IInv
  <1>1. /\ pc = "writing" /\ timer = 0
        /\ pc' = (IF wait = "none" THEN "ready" ELSE "waiting")
        /\ timer' = (IF wait = "none" THEN 0 ELSE Poll)
        /\ quiet' = (IF wait = "timing" THEN 0 ELSE quiet)
        /\ UNCHANGED <<at, goal, left, tells, ours, out, in, pos, age, idle, wait, sent,
                      untold>>
    BY DEF Written, WaitStarts, deviceVars, coverVars
  <1>2. TypeOK'
    <2>1. timer' \in 0..(WriteDelay + Poll) /\ quiet' \in 0..(TimingThreshold + 1)
      BY <1>1, Intervals DEF TypeOK
    <2> QED BY <1>1, <2>1 DEF TypeOK
  <1>3. KnownInv' /\ ShownInv'
    BY <1>1 DEF KnownInv, ShownInv, Moving
  <1>4. ElapsedInv'
    <2>1. CASE wait = "none"
      <3>1. Elapsed' = 0
        BY <1>1, <2>1 DEF Elapsed
      <3> QED BY <1>1, <3>1, SinceNow DEF ElapsedInv
    <2>2. CASE wait # "none"
      <3>1. Elapsed' = Elapsed
        BY <1>1, <2>2, Intervals DEF Elapsed
      <3> QED BY <1>1, <3>1 DEF ElapsedInv
    <2> QED BY <2>1, <2>2
  <1>5. QuietInv'
    <2> SUFFICES ASSUME wait = "timing" PROVE QuietInv'
      BY <1>1 DEF QuietInv
    <2>1. quiet' = 0 /\ left' = left
      BY <1>1
    <2>2. quiet' + left' + Latency <= TimingThreshold
      BY <2>1, Types, Intervals, SMTT(40)
    <2> QED BY <1>1, <2>1, <2>2, SinceNow DEF QuietInv
  <1> QED BY <1>2, <1>3, <1>4, <1>5

\* The user looks whether the cover still moves.
LEMMA LookStep == IInv /\ Look => IInv'
  <1> SUFFICES ASSUME IInv, Look PROVE IInv'
    OBVIOUS
  <1> USE DEF IInv
  <1>1. /\ pc = "waiting" /\ timer = 0
        /\ \/ pc' = "ready" /\ timer' = 0 /\ wait' = "none"
           \/ pc' = pc /\ timer' = Poll /\ wait' = wait
        /\ UNCHANGED <<at, goal, left, tells, ours, out, in, pos, age, idle, quiet, sent,
                      untold>>
    BY DEF Look, deviceVars, coverVars
  <1>2. TypeOK'
    <2>1. timer' \in 0..(WriteDelay + Poll)
      BY <1>1, Intervals
    <2>2. wait' \in Waits /\ pc' \in {"ready", "writing", "waiting"}
      BY <1>1 DEF TypeOK, Waits
    <2> QED BY <1>1, <2>1, <2>2 DEF TypeOK
  <1>3. KnownInv' /\ ShownInv'
    BY <1>1 DEF KnownInv, ShownInv, Moving
  <1>4. ElapsedInv'
    <2>1. CASE pc' = "ready"
      <3>1. Elapsed' = 0
        BY <2>1 DEF Elapsed
      <3> QED BY <1>1, <3>1, SinceNow DEF ElapsedInv
    <2>2. CASE pc' = pc /\ timer' = Poll
      <3>1. Elapsed' = WriteDelay /\ Elapsed = WriteDelay + Poll
        BY <1>1, <2>2, Intervals DEF Elapsed
      <3>2. Elapsed' \in Int /\ Elapsed \in Int /\ Elapsed' <= Elapsed
        BY <3>1, Intervals
      <3>3. AcksSince(in, Elapsed')
        BY <3>2, Types, AcksSinceLess DEF ElapsedInv
      <3>4. \A i \in 1..Len(out) : Elapsed' <= out[i].age
        <4> TAKE i \in 1..Len(out)
        <4>1. Elapsed <= out[i].age /\ out[i].age \in 0..Latency
          BY Types DEF ElapsedInv
        <4> QED BY <3>2, <4>1, Intervals
      <3> QED BY <1>1, <3>3, <3>4 DEF ElapsedInv
    <2> QED BY <1>1, <2>1, <2>2
  <1>5. QuietInv'
    BY <1>1 DEF QuietInv, Moving
  <1> QED BY <1>2, <1>3, <1>4, <1>5

-----------------------------------------------------------------------------
(* Time *)

\* What is counted up by one at most, and what is counted down by one: the sum of
\* them does not grow.
LEMMA CountDown ==
    ASSUME NEW a \in Int, NEW b \in Int, NEW l \in Int, NEW k \in Int, NEW n \in Int,
           b <= a + 1
    PROVE  /\ a + l + k < n => b + (l - 1) + k < n
           /\ a + l + k <= n => b + (l - 1) + k <= n
  OBVIOUS

\* A tick passes, and nothing is late by it.
LEMMA TickStep == IInv /\ Tick => IInv'
  <1> SUFFICES ASSUME IInv, Tick PROVE IInv'
    OBVIOUS
  <1> USE DEF IInv
  <1>1. /\ Moving => left > 0
        /\ \A i \in DOMAIN out : out[i].age < Latency
        /\ \A i \in DOMAIN in : in[i].age < Latency
        /\ pc \in {"writing", "waiting"} => timer > 0
    BY DEF Tick, NothingDue
  <1>2. /\ left' = (IF Moving THEN left - 1 ELSE left)
        /\ out' = Older(out) /\ in' = Older(in)
        /\ age' = Least(age + 1, IF idle THEN Threshold ELSE Delay)
        /\ timer' = (IF pc = "ready" THEN timer ELSE timer - 1)
        /\ quiet' = Least(quiet + 1, TimingThreshold + 1)
        /\ UNCHANGED <<at, goal, tells, ours, pos, idle, pc, wait, sent, untold>>
    BY DEF Tick
  <1>3. /\ out' \in Seq([msg : Commands, age : 0..Latency]) /\ Aged(out, out')
        /\ in' \in Seq(Messages) /\ Aged(in, in')
    BY <1>1, <1>2, Types, OlderIsAged DEF Messages
  <1>4. /\ age' \in Nat /\ age' <= age + 1 /\ age' <= Delay
        /\ quiet' \in Nat /\ quiet' <= quiet + 1 /\ quiet' <= TimingThreshold + 1
    <2>1. age \in Nat /\ quiet \in Nat
      BY Types
    <2>2. Delay \in Nat /\ Threshold \in Nat /\ Threshold <= Delay /\ TimingThreshold \in Nat
      BY Intervals
    <2>3. quiet' \in Nat /\ quiet' <= quiet + 1 /\ quiet' <= TimingThreshold + 1
      BY <1>2, <2>1, <2>2 DEF Least
    <2>4. age' \in Nat /\ age' <= age + 1 /\ age' <= Delay
      <3>1. CASE idle
        BY <1>2, <2>1, <2>2, <3>1 DEF Least
      <3>2. CASE ~idle
        BY <1>2, <2>1, <2>2, <3>2 DEF Least
      <3> QED BY <3>1, <3>2
    <2> QED BY <2>3, <2>4
  <1>5. Elapsed' \in Int /\ Elapsed' <= Elapsed + 1 /\ Elapsed \in Int
    <2>1. timer \in Int
      BY Intervals DEF TypeOK
    <2>2. CASE pc = "writing"
      BY <1>2, <2>1, <2>2, Intervals DEF Elapsed
    <2>3. CASE pc = "waiting"
      BY <1>2, <2>1, <2>3, Intervals DEF Elapsed
    <2>4. CASE pc # "writing" /\ pc # "waiting"
      BY <1>2, <2>4 DEF Elapsed
    <2> QED BY <2>2, <2>3, <2>4
  <1>6. /\ \A p, x : Heard(p, in, Len(in), x) => Heard(p, in', Len(in'), x)
        /\ \A p, g : AckIn(p, in, g) => AckIn(p, in', g)
        /\ \A t, s, l \in Int :
               ReportBefore(in, t, l) /\ s <= t + 1 => ReportBefore(in', s, l)
        /\ \A e, f \in Int : AcksSince(in, e) /\ f <= e + 1 => AcksSince(in', f)
    BY <1>3, Types, AgedKeeps
  <1>7. \A e, f \in Int : (\A i \in 1..Len(out) : e <= out[i].age) /\ f <= e + 1
                            => \A i \in 1..Len(out') : f <= out'[i].age
    <2> TAKE e, f \in Int
    <2> HAVE (\A i \in 1..Len(out) : e <= out[i].age) /\ f <= e + 1
    <2> TAKE i \in 1..Len(out')
    <2>1. i \in 1..Len(out) /\ out'[i].age = out[i].age + 1
      BY <1>3 DEF Aged
    <2>2. e <= out[i].age /\ out[i].age \in 0..Latency
      BY <2>1, Types
    <2> QED BY <2>1, <2>2, Intervals
  <1>8. TypeOK'
    <2>1. left' \in 0..LegTime
      BY <1>1, <1>2, Types, Intervals DEF TypeOK
    <2>2. timer' \in 0..(WriteDelay + Poll)
      BY <1>1, <1>2, Intervals DEF TypeOK
    <2>3. age' \in 0..Delay /\ quiet' \in 0..(TimingThreshold + 1)
      BY <1>4, Intervals
    <2> QED BY <1>2, <1>3, <2>1, <2>2, <2>3 DEF TypeOK, Messages
  <1>9. KnownInv'
    <2>1. out # <<>> => out' # <<>> /\ Head(out').msg = Head(out).msg
      <3> SUFFICES ASSUME out # <<>> PROVE out' # <<>> /\ Head(out').msg = Head(out).msg
        OBVIOUS
      <3>1. 1 \in 1..Len(out) /\ Head(out) = out[1]
        BY Types
      <3>2. Len(out') = Len(out) /\ out'[1].msg = out[1].msg
        BY <1>3, <3>1 DEF Aged
      <3>3. out' # <<>>
        BY <3>1, <3>2
      <3>4. Head(out') = out'[1]
        BY <1>3, <3>3, HeadTailProperties
      <3> QED BY <3>1, <3>2, <3>3, <3>4
    <2> QED BY <1>2, <1>6, <2>1 DEF KnownInv
  <1>10. ShownInv'
    <2> SUFFICES ASSUME Moving, ours, ~untold PROVE ShownInv'
      BY <1>2 DEF ShownInv, Moving
    <2>1. CASE AckIn(pos, in, goal)
      BY <1>2, <1>6, <2>1 DEF ShownInv
    <2>2. CASE ~idle /\ ReportBefore(in, age, Threshold)
      <3>1. age \in Int /\ age' \in Int /\ Threshold \in Int
        BY <1>4, Types, Intervals
      <3> QED BY <1>2, <1>4, <1>6, <2>2, <3>1 DEF ShownInv
    <2>3. CASE ~idle /\ age + left + Latency < Threshold
      <3>1. left' = left - 1 /\ left \in Int /\ age \in Int /\ age' \in Int
        BY <1>2, <1>4, Types
      <3>2. age' <= age + 1 /\ Latency \in Int /\ Threshold \in Int
        BY <1>4, Intervals
      <3>3. age' + left' + Latency < Threshold
        BY <2>3, <3>1, <3>2, CountDown
      <3> QED BY <1>2, <2>3, <3>3 DEF ShownInv
    <2> QED BY <2>1, <2>2, <2>3 DEF ShownInv
  <1>11. ElapsedInv'
    BY <1>5, <1>6, <1>7 DEF ElapsedInv
  <1>12. QuietInv'
    <2> SUFFICES ASSUME pc = "waiting", wait = "timing" PROVE QuietInv'
      BY <1>2 DEF QuietInv
    <2>1. quiet \in Int /\ quiet' \in Int /\ TimingThreshold + 1 \in Int
      BY <1>4, Types, Intervals
    <2>2. \A i \in 1..Len(out') : quiet' <= out'[i].age
      BY <1>4, <1>7, <2>1 DEF QuietInv
    <2>3. ASSUME Moving, ours, tells
          PROVE  \/ ReportBefore(in', quiet', TimingThreshold + 1)
                 \/ quiet' + left' + Latency <= TimingThreshold
      <3>1. CASE ReportBefore(in, quiet, TimingThreshold + 1)
        BY <1>4, <1>6, <2>1, <3>1
      <3>2. CASE quiet + left + Latency <= TimingThreshold
        <4>1. left' = left - 1 /\ left \in Int
          BY <1>2, <2>3, Types
        <4>2. quiet' <= quiet + 1 /\ Latency \in Int /\ TimingThreshold \in Int
          BY <1>4, Intervals
        <4> QED BY <2>1, <3>2, <4>1, <4>2, CountDown
      <3> QED BY <2>3, <3>1, <3>2 DEF QuietInv
    <2> QED BY <1>2, <2>2, <2>3 DEF QuietInv, Moving
  <1> QED BY <1>8, <1>9, <1>10, <1>11, <1>12

-----------------------------------------------------------------------------
(* The theorems *)

\* Every step keeps the invariant.
LEMMA Step == IInv /\ [Next]_vars => IInv'
  <1> SUFFICES ASSUME IInv, [Next]_vars PROVE IInv'
    OBVIOUS
  <1>1. ASSUME NEW c \in Commands, NEW w \in Waits, Send(c, w) PROVE IInv'
    BY <1>1, SendStep
  <1>2. CASE Written
    BY <1>2, WrittenStep
  <1>3. CASE Look
    BY <1>3, LookStep
  <1>4. CASE Received
    BY <1>4, ReceivedStep
  <1>5. CASE Leg
    BY <1>5, LegStep
  <1>6. ASSUME NEW c \in Commands, OtherCommand(c) PROVE IInv'
    BY <1>6, OtherStep
  <1>7. CASE Handled
    BY <1>7, HandledStep
  <1>8. CASE SetIdle
    BY <1>8, SetIdleStep
  <1>9. CASE Tick
    BY <1>9, TickStep
  <1>10. CASE UNCHANGED vars
    BY <1>10 DEF IInv, TypeOK, KnownInv, ShownInv, ElapsedInv, Elapsed, QuietInv, Moving,
       vars, deviceVars, coverVars, userVars
  <1> QED BY <1>1, <1>2, <1>3, <1>4, <1>5, <1>6, <1>7, <1>8, <1>9, <1>10
          DEF Next, User, Device, Client, Terminated

\* The invariant holds in every state that can be reached.
THEOREM Invariant == Spec => []IInv
  <1> QED BY Start, Step, PTL DEF Spec

\* When nothing is under way, and there has been no movement for long, the client
\* knows where the cover is, unless steps have moved it since its last report, and
\* shows it at rest (Cover._pos, is_moving).
THEOREM Settles == Spec => []MotionInv
  <1>1. IInv => MotionInv
    <2> SUFFICES ASSUME IInv PROVE MotionInv
      OBVIOUS
    <2>1. AtRest /\ ~untold => pos = at
      <3> SUFFICES ASSUME AtRest, ~untold PROVE pos = at
        OBVIOUS
      <3>1. Heard(pos, in, Len(in), at)
        BY DEF IInv, KnownInv, AtRest
      <3>2. in = <<>> /\ Len(in) = 0
        BY DEF AtRest
      <3> QED BY <3>1, <3>2 DEF Heard
    <2>2. AtRest => ~IsMoving
      BY Intervals DEF AtRest, IsMoving
    <2> QED BY <2>1, <2>2 DEF MotionInv, SettlesWhereItIs, IInv
  <1> QED BY <1>1, Invariant, PTL

\* From the acknowledgement of a movement that this client has commanded to its end
\* Cover.is_moving is true and the cover is not declared idle, however long messages
\* take up to Latency, and whatever other clients do.
THEOREM ShownWhileMoving == Spec => []MovementShown
  <1>1. IInv => MovementShown
    <2> SUFFICES ASSUME IInv, Moving, ours, Acknowledged, ~untold
                 PROVE  IsMoving /\ ~idle
      BY DEF MovementShown
    <2>1. ~AckIn(pos, in, goal)
      <3>1. DOMAIN in = 1..Len(in)
        BY Types, LenProperties DEF IInv
      <3> QED BY <3>1 DEF Acknowledged, AckIn
    <2>2. CASE ~idle /\ ReportBefore(in, age, Threshold)
      <3>1. PICK i \in 1..Len(in) : age + Latency - in[i].age < Threshold
        BY <2>2 DEF ReportBefore
      <3>2. in[i].age \in Int /\ in[i].age <= Latency
        <4>1. in[i] \in Messages
          BY Types DEF IInv
        <4> QED BY <4>1, Intervals DEF Messages
      <3>3. age \in Int
        BY Types DEF IInv
      <3> QED BY <2>2, <3>1, <3>2, <3>3, Intervals DEF IsMoving
    <2>3. CASE ~idle /\ age + left + Latency < Threshold
      BY <2>3, Types, Intervals DEF IInv, IsMoving
    <2> QED BY <2>1, <2>2, <2>3 DEF IInv, ShownInv
  <1> QED BY <1>1, Invariant, PTL

\* A user that waits waits in one of the two ways.
WaitInv == pc = "waiting" => wait \in {"covers", "timing"}

\* A user that does not wait after its command never begins to.
LEMMA WaitsSomehow == Spec => []WaitInv
  <1>1. Init => WaitInv
    BY DEF Init, WaitInv
  <1>2. TypeOK /\ WaitInv /\ [Next]_vars => WaitInv'
    BY DEF WaitInv, TypeOK, Waits, Next, User, Device, Client, Terminated, Send, Written, Look,
       Received, Leg, OtherCommand, Handled, SetIdle, Tick, vars, userVars
  <1>3. IInv => TypeOK
    BY DEF IInv
  <1> QED BY <1>1, <1>2, <1>3, Invariant, PTL DEF Spec

\* wait_for_motion_to_complete() returns when nothing that the client has commanded is
\* under way or in progress: the first look comes after the acknowledgement of what
\* was commanded, and the reports of a movement keep each look from being the last.
THEOREM WaitsLongEnough == Spec => WaitsCoverMovement
  <1> DEFINE Returns == pc = "waiting" /\ pc' = "ready" =>
                           \/ ~Commanded
                           \/ wait = "covers" /\ untold
                           \/ wait = "timing" /\ out = <<>> /\ ~tells
  <1>1. IInv /\ WaitInv /\ [Next]_vars => Returns
    <2> SUFFICES ASSUME IInv, WaitInv, [Next]_vars, pc = "waiting", pc' = "ready", Commanded
                 PROVE  \/ wait = "covers" /\ untold
                        \/ wait = "timing" /\ out = <<>> /\ ~tells
      OBVIOUS
    <2>1. timer = 0 /\ Complete
      <3>1. Look
        BY DEF Next, User, Device, Client, Terminated, Send, Written, Received, Leg,
           OtherCommand, Handled, SetIdle, Tick, vars, userVars
      <3> QED BY <3>1 DEF Look
    <2>2. Elapsed = WriteDelay + Poll
      BY <2>1, Intervals DEF Elapsed
    <2>3. out = <<>>
      <3> SUFFICES ASSUME out # <<>> PROVE FALSE
        OBVIOUS
      <3>1. Elapsed <= out[1].age /\ out[1].age \in 0..Latency
        BY Types DEF IInv, ElapsedInv
      <3> QED BY <2>2, <3>1, Intervals
    <2>4. \A i \in 1..Len(in) : IsReport(in[i])
      <3> SUFFICES ASSUME NEW i \in 1..Len(in), ~IsReport(in[i]) PROVE FALSE
        OBVIOUS
      <3>1. Elapsed <= in[i].age + Latency
        BY DEF IInv, ElapsedInv, AcksSince
      <3>2. in[i].age \in 0..Latency
        BY Types DEF IInv, Messages
      <3> QED BY <2>2, <3>1, <3>2, Intervals
    <2>5. Moving /\ ours
      BY <2>3 DEF Commanded
    <2>6. ASSUME NEW t \in Int, NEW l \in Int, ReportBefore(in, t, l)
          PROVE  t < l
      <3>1. PICK i \in 1..Len(in) : t + Latency - in[i].age < l
        BY <2>6 DEF ReportBefore
      <3>2. in[i].age \in Int /\ in[i].age <= Latency
        <4>1. in[i] \in Messages
          BY Types DEF IInv
        <4> QED BY <4>1, Intervals DEF Messages
      <3> QED BY <2>6, <3>1, <3>2, Intervals
    <2>7. ASSUME wait = "covers", ~untold
          PROVE  FALSE
      <3>1. IsMoving
        <4>1. ~AckIn(pos, in, goal)
          BY <2>4 DEF AckIn, IsReport
        <4>2. \/ ReportBefore(in, age, Threshold)
              \/ age + left + Latency < Threshold
          BY <2>5, <2>7, <4>1 DEF IInv, ShownInv
        <4>3. age \in Int /\ left \in Nat /\ Threshold \in Int
          BY Types, Intervals DEF IInv
        <4> QED BY <2>6, <4>2, <4>3, Intervals DEF IsMoving
      <3> QED BY <2>1, <2>7, <3>1 DEF Complete
    <2>8. ASSUME wait = "timing", tells
          PROVE  FALSE
      <3>1. quiet > TimingThreshold /\ quiet \in Int /\ TimingThreshold \in Int /\ left \in Nat
        BY <2>1, <2>8, Types, Intervals DEF Complete, IInv
      <3>2. \/ ReportBefore(in, quiet, TimingThreshold + 1)
            \/ quiet + left + Latency <= TimingThreshold
        BY <2>5, <2>8 DEF IInv, QuietInv
      <3> QED BY <2>6, <3>1, <3>2, Intervals
    <2> QED BY <2>3, <2>7, <2>8 DEF WaitInv
  <1> QED BY <1>1, Invariant, WaitsSomehow, PTL DEF Spec, WaitsCoverMovement
=============================================================================
