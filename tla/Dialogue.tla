------------------------------ MODULE Dialogue ------------------------------
(***************************************************************************)
(* A client and the controller talk about one cover: TT6Writer encodes the *)
(* client's commands, LineHandler reads them, replies and moves the cover, *)
(* WebPosManager reports each leg of a movement, and TT6Cover keeps what   *)
(* the client knows of the cover from the replies and the reports          *)
(* (src/nicett6/tt6_cover.py, cover.py, emulator/controller/).             *)
(*                                                                         *)
(* The connection keeps the order of lines and loses none (Controller and  *)
(* SerialConnection have the rest).  Requests to move become the mover in  *)
(* the order in which they were read, as CoverEmulator shows; a movement   *)
(* is cut into legs as there.  A request is read, answered and queued at   *)
(* once: the transport takes the reply without the handler waiting.        *)
(***************************************************************************)
EXTENDS LineCodec

CONSTANTS
    Devices,        \* the registered covers: the dialogue is about one of them
    Commands(_),    \* what the client may ask of a cover
    Preset,         \* the position of the preset POS_1, the one that is set
    StepSize,       \* pos_increment_per_step
    LegSize,        \* StepSize * STEPS_PER_NOTIFICATION
    Starts,         \* where the cover may be at first
    MaxCommands(_), \* bound: commands sent about a cover
    NoPos

ASSUME DialogueAssumption ==
    /\ Devices \subseteq (0..255) \X (0..255)
    /\ Preset \in 0..1000
    /\ StepSize \in Nat \ {0} /\ LegSize \in Nat \ {0}
    /\ Starts \subseteq 0..1000
    /\ \A d \in Devices : \A c \in Commands(d) : IsCommand(c, d)
    /\ \A d \in Devices : MaxCommands(d) \in Nat
    /\ NoPos \notin 0..1000

VARIABLES
    dev,        \* the cover's address
    sent,       \* number of commands sent
    meant,      \* history: the commands whose lines are on their way
    requests,   \* lines on their way to the controller
    web,        \* WebPosManager.web_on
    pos,        \* TT6CoverEmulator.pos
    waiting,    \* requests that have been read and wait to become the mover
    goal,       \* where the mover takes the cover; NoPos if it does not move
    notify,     \* does the movement report its legs?
    replies,    \* lines on their way to the client
    shown,      \* Cover._pos
    prev,       \* Cover._prev_pos
    told,       \* history: the position reported last
    sure,       \* history: when the movement began, told was where the cover was
    underWay,   \* history: the movement has reported a leg
    asked,      \* history: the last request to move that was read
    calm        \* history: the cover was at rest then, where told, and no step has
                \* been acknowledged and ignored since, the cover being at its limit

wireVars == <<sent, meant, requests>>
coverVars == <<pos, goal, notify, sure, underWay>>
clientVars == <<shown, prev>>
heardVars == <<asked, calm>>
vars == <<dev, wireVars, web, waiting, coverVars, replies, clientVars, told, heardVars>>

Init ==
    /\ dev \in Devices
    /\ sent = 0 /\ meant = <<PosRequest(dev)>>
    /\ requests = <<Encode(PosRequest(dev))>>       \* add_cover()
    /\ web = TRUE
    /\ pos \in Starts
    /\ waiting = <<>>
    /\ goal = NoPos /\ notify = TRUE
    /\ replies = <<>>
    /\ shown = 1000 /\ prev = 1000
    /\ told = 1000 /\ sure = FALSE /\ underWay = FALSE
    /\ asked = WebOn /\ calm = FALSE

-----------------------------------------------------------------------------
(* The client asks *)

Send(c) ==
    /\ sent < MaxCommands(dev)
    /\ sent' = sent + 1
    /\ meant' = Append(meant, c)
    /\ requests' = Append(requests, Encode(c))
    /\ UNCHANGED <<dev, web, waiting, coverVars, replies, clientVars, told, heardVars>>

-----------------------------------------------------------------------------
(* The controller *)

Goto(to, reports) == <<[to |-> to, notify |-> reports]>>
Nothing == <<>>

\* _move_increment(): nothing is done if the cover is at its limit
Step(by) ==
    LET to == Clamped(pos + by)
    IN  IF to = pos THEN Nothing ELSE Goto(to, FALSE)

\* Mutant: up and down are swapped
SimpleCommand_Swapped(name) ==
    CASE name = "STOP" -> Goto(NoPos, FALSE)
      [] name = "MOVE_DOWN" -> Goto(1000, TRUE)
      [] name = "MOVE_UP" -> Goto(0, TRUE)
      [] OTHER -> Nothing

\* do_simple_command(): what it queues for the mover.  Presets 2 to 6 are not set;
\* storing and deleting presets is left to CoverEmulator.
SimpleCommand(name) ==
    CASE name = "STOP" -> Goto(NoPos, FALSE)
      [] name = "MOVE_DOWN" -> Goto(0, TRUE)
      [] name = "MOVE_UP" -> Goto(1000, TRUE)
      [] name = "MOVE_POS_1" -> Goto(Preset, TRUE)
      [] name = "MOVE_DOWN_STEP" -> Step(-StepSize)
      [] name = "MOVE_UP_STEP" -> Step(StepSize)
      [] OTHER -> Nothing

Movement(r) ==
    CASE r.op = "simple" -> SimpleCommand(r.name)
      [] r.op = "hex_move" -> Goto(HexToPos(r.hex), TRUE)
      [] r.op = "web_move" -> Goto(r.pos, TRUE)
      [] OTHER -> Nothing

IsStep(r) == r.op = "simple" /\ r.name \in {"MOVE_DOWN_STEP", "MOVE_UP_STEP"}

\* handle_line()
Handle ==
    /\ requests # <<>>
    /\ LET r == Read(Head(requests), web, Devices)
       IN  /\ r # NoDevice
           /\ requests' = Tail(requests) /\ meant' = Tail(meant)
           /\ replies' = Append(replies, Reply(r, pos))
           /\ told' = IF r.op = "pos_request" THEN pos ELSE told
           /\ web' = ((web \/ r.op = "web_on") /\ r.op # "web_off")
           /\ waiting' = waiting \o Movement(r)
           /\ IF Movement(r) = Nothing
              THEN asked' = asked /\ calm' = (calm /\ ~IsStep(r))
              ELSE /\ asked' = r
                   /\ calm' = (goal = NoPos /\ waiting = <<>> /\ told = pos)
    /\ UNCHANGED <<dev, sent, coverVars, clientVars>>

\* Mutant: positions are reported as acknowledgements are
Report_Ack ==
    /\ replies' = Append(replies, AckLine(dev, pos'))
    /\ told' = pos'

\* WebPosManager.update(), the web commands being on
Report ==
    /\ replies' = Append(replies, PosLine(dev, pos'))
    /\ told' = pos'

ReportIf(condition) ==
    IF condition /\ web THEN Report ELSE UNCHANGED <<replies, told>>

\* The next request becomes the mover.  A movement in progress stops first, where
\* the cover is.
Start ==
    /\ waiting # <<>>
    /\ waiting' = Tail(waiting)
    /\ goal' = IF Head(waiting).to = pos THEN NoPos ELSE Head(waiting).to
    /\ notify' = Head(waiting).notify
    /\ UNCHANGED pos
    /\ ReportIf(goal # NoPos /\ notify)
    /\ sure' = (told' = pos)
    /\ underWay' = FALSE
    /\ UNCHANGED <<dev, wireVars, web, clientVars, heardVars>>

\* The mover ends a leg
Leg ==
    /\ goal # NoPos
    /\ pos' = IF goal > pos THEN IF pos + LegSize < goal THEN pos + LegSize ELSE goal
              ELSE IF pos - LegSize > goal THEN pos - LegSize ELSE goal
    /\ goal' = IF pos' = goal THEN NoPos ELSE goal
    /\ ReportIf(notify)
    /\ underWay' = (notify /\ web)
    /\ UNCHANGED <<dev, wireVars, web, waiting, notify, sure, clientVars,
                   heardVars>>

-----------------------------------------------------------------------------
(* The client listens *)

\* set_target_pos_hint()
TargetHint(to) ==
    /\ shown' = shown
    /\ prev' = IF to < shown THEN shown + 1 ELSE IF to > shown THEN shown - 1 ELSE prev

\* set_pos()
SetPos(p) == shown' = p /\ prev' = shown

\* TT6Cover.handle_response_message(): what becomes of _pos and _prev_pos
Heard(msg) ==
    CASE msg.type = "pct_pos" -> SetPos(msg.pos)
      [] msg.type = "pct_ack" -> TargetHint(msg.pos)
      [] msg.type = "hex_pos" /\ msg.name = "MOVE_POS" -> TargetHint(HexToPos(msg.hex))
      [] msg.type = "ack" /\ msg.name \in {"MOVE_UP", "MOVE_UP_STEP"} ->
            shown' = shown /\ prev' = shown - 1
      [] msg.type = "ack" /\ msg.name \in {"MOVE_DOWN", "MOVE_DOWN_STEP"} ->
            shown' = shown /\ prev' = shown + 1
      [] OTHER -> UNCHANGED clientVars

Hear ==
    /\ replies # <<>>
    /\ LET msg == Decode(Head(replies))
       IN  IF msg.type \in {"info", "error", "invalid"} \/ msg.dev # dev
           THEN UNCHANGED clientVars ELSE Heard(msg)
    /\ replies' = Tail(replies)
    /\ UNCHANGED <<dev, wireVars, web, waiting, coverVars, told, heardVars>>

\* The notifier's task sets the cover idle, nothing having been heard for a while:
\* the legs of a movement that reports them are shorter than the notifier's delay
SetIdle ==
    /\ replies = <<>>
    /\ goal = NoPos \/ ~notify \/ ~web
    /\ prev # shown
    /\ prev' = shown
    /\ UNCHANGED <<dev, wireVars, web, waiting, coverVars, replies, shown, told,
                   heardVars>>

Quiet == sent = MaxCommands(dev) /\ requests = <<>> /\ replies = <<>> /\ waiting = <<>>
         /\ goal = NoPos /\ prev = shown

Next ==
    \/ \E c \in Commands(dev) : Send(c)
    \/ Handle \/ Start \/ Leg
    \/ Hear \/ SetIdle
    \/ Quiet /\ UNCHANGED vars

Spec == Init /\ [][Next]_vars

-----------------------------------------------------------------------------
(* Properties *)

\* Every variable has the type its declaration gives it.  In particular every
\* position stays within 0..1000, also on the client's side, where check_pos()
\* would raise in the message tracker.
TypeOK ==
    /\ dev \in Devices
    /\ sent \in 0..MaxCommands(dev)
    /\ Len(meant) = Len(requests)
    /\ web \in BOOLEAN
    /\ pos \in 0..1000
    /\ \A i \in DOMAIN waiting :
          waiting[i].to \in 0..1000 \cup {NoPos} /\ waiting[i].notify \in BOOLEAN
    /\ goal \in 0..1000 \cup {NoPos}
    /\ {notify, sure, underWay, calm} \subseteq BOOLEAN
    /\ shown \in 0..1000 /\ prev \in -1..1001
    /\ told \in 0..1000

\* What the controller makes of a command, the web commands being on: the command
\* itself, but for a target that is out of range, which the client moves into it,
\* and for MOVE_POS without a position, which it rejects.
Understanding(c) ==
    IF c.op = "web_move" THEN [c EXCEPT !.pos = Clamped(@)]
    ELSE IF c.op = "simple" /\ c.name = "MOVE_POS" THEN Rejected
    ELSE c

\* The controller reads every line that the client sends as the command that was
\* meant: same device, same code, same position.
UnderstoodAsMeant ==
    \A i \in DOMAIN requests :
        Read(requests[i], TRUE, Devices) = Understanding(meant[i])

\* The client can decode every line that the controller sends, and finds in it the
\* address of the cover that it is about: none raises in data_received(), where the
\* rest of the chunk would be lost, and none goes to another cover.
RepliesDecode ==
    \A i \in DOMAIN replies :
        LET msg == Decode(replies[i])
        IN  /\ msg # Invalid
            /\ msg.type \notin {"info", "error"} => msg.dev = dev

LinesUnderstood == UnderstoodAsMeant /\ RepliesDecode

\* A cover that was last sent to a hexadecimal position, and has arrived, reads as
\* that position, although positions are kept in another unit.
HexPosSticks ==
    /\ asked.op = "hex_move" /\ waiting = <<>> /\ pos = HexToPos(asked.hex)
    => PosToHex(pos) = asked.hex

\* All that was said having been heard, the client shows the position that was
\* reported last: no reply or report is dropped, refused or taken for another.
ShownAsTold == replies = <<>> => shown = told

DialogueInv == TypeOK /\ ShownAsTold

\* The mover moves, and all that was said has been heard
Moving == goal # NoPos /\ waiting = <<>> /\ replies = <<>>

NotTheOtherWay ==
    /\ ~(shown > prev /\ goal < pos)
    /\ ~(shown < prev /\ goal > pos)

\* The acknowledgement of asked tells the client which way the cover will go
Hinted == ~(asked.op = "simple" /\ asked.name = "MOVE_POS_1")

\* is_going_up and is_going_down are never those of a movement in the other
\* direction, whatever was asked before and meanwhile: from the acknowledgement on,
\* if the cover was at rest where the client thought it was (calm); in any case once a
\* leg has been reported, if the client knew where the cover was when it began to move.
NeverWrongWay == Moving /\ ((underWay /\ sure) \/ (Hinted /\ calm)) => NotTheOtherWay
=============================================================================
