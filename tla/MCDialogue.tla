----------------------------- MODULE MCDialogue -----------------------------
(* Dialogue on a small instance: about one cover a few commands in a longer      *)
(* dialogue, about the others, whose addresses have every width, every word of   *)
(* the protocol in a short one.  And, apart from it, MessageBuffer with an end   *)
(* of line of two bytes: what the lines are cut from.                            *)
EXTENDS Dialogue, MessageBuffer

CONSTANTS cr, lf

CrLf == <<cr, lf>>

Talked == <<2, 4>>

\* One and two digits in each half of an address
EveryWidth == {Talked, <<0, 0>>, <<2, 16>>, <<171, 4>>, <<255, 255>>}

\* Each command once: every name, every hexadecimal position, and positions with
\* every number of digits, out of range too
EveryCommand(d) ==
    {WebOn, WebOff, PosRequest(d)}
        \cup {Simple(d, name) : name \in Names}
        \cup {HexMove(d, h) : h \in 0..255}
        \cup {WebMove(d, p) : p \in {-1, 0, 7, 10, 99, 100, 500, 999, 1000, 1001}}

\* Commands that make movements overlap
FewCommands(d) ==
    {WebOff, WebOn, PosRequest(d), WebMove(d, 500), HexMove(d, 51)}
        \cup {Simple(d, name) : name \in {"STOP", "MOVE_UP", "MOVE_DOWN", "MOVE_POS_1",
                                          "MOVE_UP_STEP"}}

WordsOrTalk(d) == IF d = Talked THEN FewCommands(d) ELSE EveryCommand(d)

OneWordOrTalk(d) == IF d = Talked THEN 3 ELSE 1

MCInit == Init /\ BufferInit

\* A behaviour is a dialogue, or bytes that arrive before it has begun: neither has a
\* bearing on the other
MCNext ==
    \/ input = <<>> /\ Next /\ UNCHANGED bufferVars
    \/ sent = 0 /\ requests # <<>> /\ BufferNext /\ UNCHANGED vars

MCSpec == MCInit /\ [][MCNext]_<<vars, bufferVars>>
=============================================================================
