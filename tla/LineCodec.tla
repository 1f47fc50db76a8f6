----------------------------- MODULE LineCodec -----------------------------
(***************************************************************************)
(* The lines of the RS-232 protocol: how the client encodes a command      *)
(* (src/nicett6/encode.py), how the emulated controller reads it and words *)
(* its replies (src/nicett6/emulator/controller/line_handler.py), and how  *)
(* the client decodes a reply (src/nicett6/decode.py).                     *)
(*                                                                         *)
(* A line is its first word, the mark that follows POS, and its other      *)
(* words, each a sequence of digits 0..15: the widths of numbers matter,   *)
(* since what formats them and what parses them disagree on some.  White   *)
(* space, letter case and the text of errors are left out.                 *)
(***************************************************************************)
EXTENDS Integers, Sequences

-----------------------------------------------------------------------------
(* Numbers *)

\* f"{n:02X}", or f"{n:X}" if the width is 1, of what fits into a byte
HexText(n, width) == IF width = 1 /\ n < 16 THEN <<n>> ELSE <<n \div 16, n % 16>>

\* f"{n:04d}" of a position
PctText(n) == <<n \div 1000, (n \div 100) % 10, (n \div 10) % 10, n % 10>>

\* int(arg, 16), and int(arg), of the lengths that are accepted
Hex(word) == IF Len(word) = 1 THEN word[1] ELSE 16 * word[1] + word[2]
Pct(word) == 1000 * word[1] + 100 * word[2] + 10 * word[3] + word[4]

\* hex_arg_to_int() accepts it
IsHexArg(word, fixedLen) == Len(word) \in IF fixedLen THEN {2} ELSE {1, 2}

\* pct_arg_to_int() accepts it
IsPctArg(word) ==
    /\ Len(word) = 4
    /\ \A i \in 1..4 : word[i] < 10
    /\ Pct(word) <= 1000

\* round(n / d), where d is positive and n is not negative: half to even
Rounded(n, d) ==
    LET q == n \div d
        twice == 2 * (n % d)
    IN  IF twice > d \/ (twice = d /\ q % 2 = 1) THEN q + 1 ELSE q

\* round(hex_pos / 0.255), in the emulator and in TT6Cover
HexToPos(h) == Rounded(h * 1000, 255)

\* Mutant: rounded down
PosToHex_Floor(p) == (p * 255) \div 1000

\* round(cover.pos * 0xFF / 1000)
PosToHex(p) == Rounded(p * 255, 1000)

-----------------------------------------------------------------------------
(* The client's commands *)

Code == [STOP |-> 3, MOVE_DOWN |-> 4, MOVE_UP |-> 5,
         MOVE_POS_1 |-> 6, MOVE_POS_2 |-> 7, MOVE_POS_3 |-> 8,
         MOVE_POS_4 |-> 9, MOVE_POS_5 |-> 16, MOVE_POS_6 |-> 17,
         MOVE_UP_STEP |-> 18, MOVE_DOWN_STEP |-> 19,
         STORE_POS_1 |-> 34, STORE_POS_2 |-> 35, STORE_POS_3 |-> 36,
         STORE_POS_4 |-> 37, STORE_POS_5 |-> 38, STORE_POS_6 |-> 39,
         DEL_POS_1 |-> 50, DEL_POS_2 |-> 51, DEL_POS_3 |-> 52,
         DEL_POS_4 |-> 53, DEL_POS_5 |-> 54, DEL_POS_6 |-> 55,
         MOVE_POS |-> 64, READ_POS |-> 69]

Names == DOMAIN Code
NameOf(code) == CHOOSE name \in Names : Code[name] = code

\* What TT6Writer's methods are called with.  A device is <<address, node>>, and hex is
\* within 0..255, or the client gets a ValueError.
WebOn == [op |-> "web_on"]
WebOff == [op |-> "web_off"]
Simple(dev, name) == [op |-> "simple", dev |-> dev, name |-> name]
HexMove(dev, hex) == [op |-> "hex_move", dev |-> dev, hex |-> hex]
WebMove(dev, pos) == [op |-> "web_move", dev |-> dev, pos |-> pos]
PosRequest(dev) == [op |-> "pos_request", dev |-> dev]

\* c is such a command, about dev or about all
IsCommand(c, dev) ==
    \/ c \in {WebOn, WebOff, PosRequest(dev)}
    \/ \E name \in Names : c = Simple(dev, name)
    \/ \E hex \in 0..255 : c = HexMove(dev, hex)
    \/ c.op = "web_move" /\ c.pos \in Int /\ c = WebMove(dev, c.pos)

FFFF == <<15, 15, 15, 15>>
FF == <<15, 15>>

Line(cmd, mark, args) == [cmd |-> cmd, mark |-> mark, args |-> args]
WebLine(mark, dev, word) ==
    Line("POS", mark, <<HexText(dev[1], 2), HexText(dev[2], 2), word, FFFF, FF>>)

\* web_move_command() and _move_increment() keep a position within its range
Clamped(pos) == IF pos < 0 THEN 0 ELSE IF pos > 1000 THEN 1000 ELSE pos

\* Mutant: the numbers of a command are worded as those of a reply
CmdArgs_Short(dev, name) ==
    <<HexText(dev[1], 1), HexText(dev[2], 1), HexText(Code[name], 1)>>

CmdArgs(dev, name) ==
    <<HexText(dev[1], 2), HexText(dev[2], 2), HexText(Code[name], 2)>>

\* Encode
Encode(c) ==
    CASE c.op = "web_on" -> Line("WEB_ON", "", <<>>)
      [] c.op = "web_off" -> Line("WEB_OFF", "", <<>>)
      [] c.op = "simple" -> Line("CMD", "", CmdArgs(c.dev, c.name))
      [] c.op = "hex_move" ->
            Line("CMD", "", Append(CmdArgs(c.dev, "MOVE_POS"), HexText(c.hex, 2)))
      [] c.op = "web_move" -> WebLine(">", c.dev, PctText(Clamped(c.pos)))
      [] c.op = "pos_request" -> WebLine("<", c.dev, FFFF)

-----------------------------------------------------------------------------
(* The controller *)

Rejected == [op |-> "rejected"]     \* MSG_INVALID_COMMAND_ERROR is the reply
NoDevice == [op |-> "no_device"]    \* KeyError in lookup_device()

\* _handle_cmd() reads the words after CMD
ReadCmd(args, devices) ==
    IF Len(args) < 3 \/ ~IsHexArg(args[1], TRUE) \/ ~IsHexArg(args[2], TRUE)
    THEN Rejected
    ELSE LET dev == <<Hex(args[1]), Hex(args[2])>>
             name == NameOf(Hex(args[3]))
         IN  IF dev \notin devices THEN NoDevice
             ELSE IF \/ ~IsHexArg(args[3], TRUE)
                     \/ Hex(args[3]) \notin {Code[n] : n \in Names}
                  THEN Rejected
             ELSE IF name # "MOVE_POS"
                  THEN IF Len(args) = 3 THEN Simple(dev, name) ELSE Rejected
             ELSE IF Len(args) = 4 /\ IsHexArg(args[4], TRUE)
                  THEN HexMove(dev, Hex(args[4]))
             ELSE Rejected

\* _handle_web_cmd() reads the words after POS, of which the mark is the first
ReadWebCmd(mark, args, web, devices) ==
    IF \/ Len(args) # 5 \/ args[4] # FFFF \/ args[5] # FF \/ ~web
       \/ ~IsHexArg(args[1], TRUE) \/ ~IsHexArg(args[2], TRUE)
    THEN Rejected
    ELSE LET dev == <<Hex(args[1]), Hex(args[2])>>
         IN  IF dev \notin devices THEN NoDevice
             ELSE IF mark = "<" /\ args[3] = FFFF THEN PosRequest(dev)
             ELSE IF mark = ">" /\ IsPctArg(args[3])
                  THEN WebMove(dev, Pct(args[3]))
             ELSE Rejected

\* handle_line(), the web commands being on if web
Read(line, web, devices) ==
    CASE line.cmd = "CMD" -> ReadCmd(line.args, devices)
      [] line.cmd = "POS" -> ReadWebCmd(line.mark, line.args, web, devices)
      [] line.cmd = "WEB_ON" /\ line.args = <<>> -> WebOn
      [] line.cmd = "WEB_OFF" /\ line.args = <<>> -> WebOff
      [] OTHER -> Rejected

\* fmt_pos_msg()
PosLine(dev, pos) == WebLine("*", dev, PctText(pos))

\* fmt_ack_msg()
AckLine(dev, pos) == WebLine("#", dev, PctText(pos))

\* f"RSP {address:X} {node:X} {cmd_code.value:X}", and a position if there is one
RspLine(dev, name, data) ==
    Line("RSP", "", <<HexText(dev[1], 1), HexText(dev[2], 1),
                      HexText(Code[name], 1)>> \o data)

\* What is written in reply to a request that was read, the cover being at pos
Reply(r, pos) ==
    CASE r.op \in {"web_on", "web_off"} -> Line("WEB", "", <<>>)
      [] r.op = "hex_move" -> RspLine(r.dev, "MOVE_POS", <<HexText(r.hex, 1)>>)
      [] r.op = "simple" /\ r.name = "READ_POS" ->
            RspLine(r.dev, "READ_POS", <<HexText(PosToHex(pos), 1)>>)
      [] r.op = "simple" /\ r.name # "READ_POS" -> RspLine(r.dev, r.name, <<>>)
      [] r.op = "web_move" -> AckLine(r.dev, r.pos)
      [] r.op = "pos_request" -> PosLine(r.dev, pos)
      [] r.op = "rejected" -> Line("ERROR", "", <<>>)

-----------------------------------------------------------------------------
(* The client's messages *)

Ack(dev, name) == [type |-> "ack", dev |-> dev, name |-> name]
HexPos(dev, name, hex) ==
    [type |-> "hex_pos", dev |-> dev, name |-> name, hex |-> hex]
PctPos(dev, pos) == [type |-> "pct_pos", dev |-> dev, pos |-> pos]
PctAck(dev, pos) == [type |-> "pct_ack", dev |-> dev, pos |-> pos]
Info == [type |-> "info"]
Error == [type |-> "error"]
Invalid == [type |-> "invalid"]     \* decode_line_bytes() raises

\* _decode_cmd_response()
DecodeRsp(args) ==
    IF \/ Len(args) < 3 \/ \E i \in 1..3 : ~IsHexArg(args[i], FALSE)
       \/ Hex(args[3]) \notin {Code[n] : n \in Names}
    THEN Invalid
    ELSE LET dev == <<Hex(args[1]), Hex(args[2])>>
             name == NameOf(Hex(args[3]))
         IN  IF Len(args) = 3 THEN Ack(dev, name)
             ELSE IF /\ Len(args) = 4 /\ name \in {"READ_POS", "MOVE_POS"}
                     /\ IsHexArg(args[4], FALSE)
                  THEN HexPos(dev, name, Hex(args[4]))
             ELSE Invalid

\* _decode_web_response()
DecodeWeb(mark, args) ==
    IF mark = "!" THEN Error
    ELSE IF \/ mark \notin {"*", "#"}
            \/ Len(args) # 5 \/ args[4] # FFFF \/ args[5] # FF
            \/ ~IsHexArg(args[1], TRUE) \/ ~IsHexArg(args[2], TRUE) \/ ~IsPctArg(args[3])
         THEN Invalid
    ELSE LET dev == <<Hex(args[1]), Hex(args[2])>>
             pos == Pct(args[3])
         IN  IF mark = "*" THEN PctPos(dev, pos) ELSE PctAck(dev, pos)

\* decode_line_bytes()
Decode(line) ==
    CASE line.cmd = "RSP" -> DecodeRsp(line.args)
      [] line.cmd = "POS" -> DecodeWeb(line.mark, line.args)
      [] line.cmd = "WEB" -> Info
      [] line.cmd = "ERROR" -> Error
      [] OTHER -> Invalid
=============================================================================
