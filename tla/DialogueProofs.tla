--------------------------- MODULE DialogueProofs ---------------------------
(***************************************************************************)
(* Theorems about Dialogue and the codec, for all covers, commands and     *)
(* positions.                                                              *)
(*                                                                         *)
(* First the codec: what the client encodes is read as it was meant, and   *)
(* what the controller replies is decoded as it was meant.  Then the       *)
(* dialogue: what the client will show when it has heard every line on its *)
(* way is what it was told last, with a direction that is not the opposite *)
(* of the movement's (ViewInv).                                            *)
(***************************************************************************)
EXTENDS Dialogue, SequenceTheorems, TLAPS

Bytes == 0..255
Places == 0..1000

-----------------------------------------------------------------------------
(* Numbers *)

\* A byte is read as the number that was written, in either width.
LEMMA HexOfText ==
    ASSUME NEW n \in Bytes
    PROVE  /\ Hex(HexText(n, 1)) = n /\ Len(HexText(n, 1)) \in {1, 2}
           /\ Hex(HexText(n, 2)) = n /\ Len(HexText(n, 2)) = 2
  <1> DEFINE q == n \div 16
             r == n % 16
  <1>1. 16 * q + r = n
    <2>1. n - 16 * q = r /\ n \in Int /\ q \in Int /\ r \in Int
      BY DEF Bytes
    <2> HIDE DEF q, r
    <2> QED BY <2>1
  <1> HIDE DEF q, r
  <1>2. Hex(<<q, r>>) = n /\ Len(<<q, r>>) = 2
    BY <1>1 DEF Hex
  <1>3. Hex(<<n>>) = n /\ Len(<<n>>) = 1
    BY DEF Hex
  <1>4. HexText(n, 2) = <<q, r>> /\ HexText(n, 1) \in {<<q, r>>, <<n>>}
    BY DEF HexText, q, r
  <1> QED BY <1>2, <1>3, <1>4

\* So is a position.
LEMMA PctOfText ==
    ASSUME NEW p \in Places
    PROVE  IsPctArg(PctText(p)) /\ Pct(PctText(p)) = p
  <1> DEFINE a == p \div 1000
             b == (p \div 100) % 10
             c == (p \div 10) % 10
             d == p % 10
  <1>1. p \in Int /\ 0 <= p /\ p <= 1000
    BY DEF Places
  <1>2. p = 10 * (p \div 10) + d /\ d \in 0..9 /\ p \div 10 \in Int
    BY <1>1
  <1>3. p \div 10 = 10 * (p \div 100) + c /\ c \in 0..9 /\ p \div 100 \in Int
    BY <1>1
  <1>4. p \div 100 = 10 * a + b /\ b \in 0..9 /\ a \in 0..1
    BY <1>1
  <1> HIDE DEF a, b, c, d
  <1>5. 1000 * a + 100 * b + 10 * c + d = p
    BY <1>1, <1>2, <1>3, <1>4
  <1>6. PctText(p) = <<a, b, c, d>>
    BY DEF PctText, a, b, c, d
  <1>7. Pct(<<a, b, c, d>>) = p
    BY <1>5 DEF Pct
  <1>8. \A i \in 1..4 : <<a, b, c, d>>[i] < 10
    <2> TAKE i \in 1..4
    <2>1. i = 1 \/ i = 2 \/ i = 3 \/ i = 4
      OBVIOUS
    <2>2. a < 10 /\ b < 10 /\ c < 10 /\ d < 10
      BY <1>2, <1>3, <1>4
    <2> QED BY <2>1, <2>2
  <1>9. Len(<<a, b, c, d>>) = 4
    OBVIOUS
  <1> QED BY <1>1, <1>6, <1>7, <1>8, <1>9 DEF IsPctArg

\* Rounding: the result is at most a half away from the quotient.
LEMMA RoundedBy255 ==
    ASSUME NEW n \in Nat
    PROVE  /\ Rounded(n, 255) \in Nat
           /\ 510 * Rounded(n, 255) <= 2 * n + 255
           /\ 2 * n <= 510 * Rounded(n, 255) + 255
  <1> DEFINE q == n \div 255
             r == n % 255
  <1>1. n - 255 * q = r
    OBVIOUS
  <1>2. q \in Nat
    OBVIOUS
  <1>3. r \in 0..254
    OBVIOUS
  <1>4. Rounded(n, 255) = IF 2 * r > 255 \/ (2 * r = 255 /\ q % 2 = 1) THEN q + 1 ELSE q
    BY DEF Rounded
  <1> HIDE DEF q, r
  <1>5. CASE Rounded(n, 255) = q + 1 /\ 2 * r >= 255
    BY <1>1, <1>2, <1>3, <1>5
  <1>6. CASE Rounded(n, 255) = q /\ 2 * r <= 255
    BY <1>1, <1>2, <1>3, <1>6
  <1> QED BY <1>3, <1>4, <1>5, <1>6

\* The same, of thousandths.
LEMMA RoundedBy1000 ==
    ASSUME NEW n \in Nat
    PROVE  /\ Rounded(n, 1000) \in Nat
           /\ 2000 * Rounded(n, 1000) <= 2 * n + 1000
           /\ 2 * n <= 2000 * Rounded(n, 1000) + 1000
  <1> DEFINE q == n \div 1000
             r == n % 1000
  <1>1. n - 1000 * q = r
    OBVIOUS
  <1>2. q \in Nat
    OBVIOUS
  <1>3. r \in 0..999
    OBVIOUS
  <1>4. Rounded(n, 1000) = IF 2 * r > 1000 \/ (2 * r = 1000 /\ q % 2 = 1) THEN q + 1 ELSE q
    BY DEF Rounded
  <1> HIDE DEF q, r
  <1>5. CASE Rounded(n, 1000) = q + 1 /\ 2 * r >= 1000
    BY <1>1, <1>2, <1>3, <1>5
  <1>6. CASE Rounded(n, 1000) = q /\ 2 * r <= 1000
    BY <1>1, <1>2, <1>3, <1>6
  <1> QED BY <1>3, <1>4, <1>5, <1>6

\* Both units have the same range, and a position that was made from a hexadecimal
\* one is read as that one.
LEMMA HexAndPos ==
    /\ \A h \in Bytes : HexToPos(h) \in Places /\ PosToHex(HexToPos(h)) = h
    /\ \A p \in Places : PosToHex(p) \in Bytes
  <1>1. ASSUME NEW h \in Bytes
        PROVE  HexToPos(h) \in Places /\ PosToHex(HexToPos(h)) = h
    <2> DEFINE x == h * 1000
               p == Rounded(x, 255)
               m == p * 255
               k == Rounded(m, 1000)
    <2>1. h \in Nat /\ h <= 255 /\ x = 1000 * h
      BY DEF Bytes
    <2>2. x \in Nat
      BY <2>1
    <2> HIDE DEF x
    <2>3. p \in Nat /\ 510 * p <= 2 * x + 255 /\ 2 * x <= 510 * p + 255
      BY <2>2, RoundedBy255
    <2> HIDE DEF p
    <2>4. p <= 1000
      BY <2>1, <2>3
    <2>5. m = 255 * p
      BY <2>3
    <2>6. m \in Nat
      BY <2>3
    <2> HIDE DEF m
    <2>7. k \in Nat /\ 2000 * k <= 2 * m + 1000 /\ 2 * m <= 2000 * k + 1000
      BY <2>6, RoundedBy1000
    <2> HIDE DEF k
    <2>8. k = h
      BY <2>1, <2>3, <2>5, <2>7
    <2>9. HexToPos(h) = p
      BY DEF HexToPos, p, x
    <2>10. PosToHex(p) = k
      BY DEF PosToHex, k, m
    <2> QED BY <2>3, <2>4, <2>8, <2>9, <2>10 DEF Places
  <1>2. ASSUME NEW p \in Places
        PROVE  PosToHex(p) \in Bytes
    <2> DEFINE m == p * 255
               k == Rounded(m, 1000)
    <2>1. p \in Nat /\ p <= 1000 /\ m = 255 * p
      BY DEF Places
    <2>2. m \in Nat
      BY <2>1
    <2> HIDE DEF m
    <2>3. k \in Nat /\ 2000 * k <= 2 * m + 1000
      BY <2>2, RoundedBy1000
    <2> HIDE DEF k
    <2>4. k <= 255
      BY <2>1, <2>3
    <2> QED BY <2>3, <2>4 DEF PosToHex, Bytes, k, m
  <1> QED BY <1>1, <1>2

-----------------------------------------------------------------------------
(* Commands *)

\* A code is a byte, and stands for one command.
LEMMA CodesAreDistinct ==
    ASSUME NEW name \in Names
    PROVE  /\ Code[name] \in Bytes /\ Code[name] \in {Code[n] : n \in Names}
           /\ NameOf(Code[name]) = name
  <1>1. Names = {"STOP", "MOVE_DOWN", "MOVE_UP", "MOVE_POS_1", "MOVE_POS_2", "MOVE_POS_3",
                 "MOVE_POS_4", "MOVE_POS_5", "MOVE_POS_6", "MOVE_UP_STEP", "MOVE_DOWN_STEP",
                 "STORE_POS_1", "STORE_POS_2", "STORE_POS_3", "STORE_POS_4", "STORE_POS_5",
                 "STORE_POS_6", "DEL_POS_1", "DEL_POS_2", "DEL_POS_3", "DEL_POS_4",
                 "DEL_POS_5", "DEL_POS_6", "MOVE_POS", "READ_POS"}
    BY DEF Names, Code
  <1>2. Code[name] \in Bytes
    BY <1>1 DEF Code, Bytes
  <1>3. ASSUME NEW n \in Names, Code[n] = Code[name]
        PROVE  n = name
    BY <1>1, <1>3 DEF Code
  <1>4. NameOf(Code[name]) = name
    <2>1. NameOf(Code[name]) \in Names /\ Code[NameOf(Code[name])] = Code[name]
      BY DEF NameOf
    <2> QED BY <1>3, <2>1
  <1> QED BY <1>2, <1>4

\* The address of a cover is two bytes, which are read as they were written.
LEMMA AddressText ==
    ASSUME NEW d \in Devices
    PROVE  /\ d[1] \in Bytes /\ d[2] \in Bytes /\ d = <<d[1], d[2]>>
           /\ IsHexArg(HexText(d[1], 2), TRUE) /\ IsHexArg(HexText(d[2], 2), TRUE)
           /\ IsHexArg(HexText(d[1], 1), FALSE) /\ IsHexArg(HexText(d[2], 1), FALSE)
           /\ <<Hex(HexText(d[1], 1)), Hex(HexText(d[2], 1))>> = d
           /\ <<Hex(HexText(d[1], 2)), Hex(HexText(d[2], 2))>> = d
  <1>1. d \in Bytes \X Bytes
    BY DialogueAssumption DEF Bytes
  <1>2. d[1] \in Bytes /\ d[2] \in Bytes /\ d = <<d[1], d[2]>>
    BY <1>1
  <1>3. \A n \in Bytes : IsHexArg(HexText(n, 2), TRUE) /\ IsHexArg(HexText(n, 1), FALSE)
    BY HexOfText DEF IsHexArg
  <1>4. /\ Hex(HexText(d[1], 1)) = d[1] /\ Hex(HexText(d[2], 1)) = d[2]
        /\ Hex(HexText(d[1], 2)) = d[1] /\ Hex(HexText(d[2], 2)) = d[2]
    BY <1>2, HexOfText
  <1> QED BY <1>2, <1>3, <1>4

\* What is read of the words of a command: the command that was meant, but for
\* MOVE_POS without a position.
LEMMA ReadCmdArgs ==
    ASSUME NEW d \in Devices, NEW name \in Names
    PROVE  /\ ReadCmd(CmdArgs(d, name), Devices) =
                  IF name = "MOVE_POS" THEN Rejected ELSE Simple(d, name)
           /\ \A h \in Bytes :
                  ReadCmd(Append(CmdArgs(d, "MOVE_POS"), HexText(h, 2)), Devices)
                      = HexMove(d, h)
  <1>1. ASSUME NEW n \in Names, NEW args, args[1] = HexText(d[1], 2), args[2] = HexText(d[2], 2),
               args[3] = HexText(Code[n], 2), Len(args) \in {3, 4}
        PROVE  ReadCmd(args, Devices) =
                   IF n # "MOVE_POS"
                   THEN IF Len(args) = 3 THEN Simple(d, n) ELSE Rejected
                   ELSE IF Len(args) = 4 /\ IsHexArg(args[4], TRUE)
                        THEN HexMove(d, Hex(args[4])) ELSE Rejected
    <2>1. IsHexArg(args[1], TRUE) /\ IsHexArg(args[2], TRUE) /\ ~(Len(args) < 3)
      <3>1. ~(Len(args) < 3)
        BY <1>1
      <3> QED BY <1>1, <3>1, AddressText
    <2>2. <<Hex(args[1]), Hex(args[2])>> = d
      BY <1>1, AddressText
    <2>3. Code[n] \in Bytes /\ NameOf(Code[n]) = n /\ Code[n] \in {Code[k] : k \in Names}
      BY CodesAreDistinct
    <2>4. Hex(args[3]) = Code[n] /\ IsHexArg(args[3], TRUE)
      BY <1>1, <2>3, HexOfText DEF IsHexArg
    <2> QED BY <2>1, <2>2, <2>3, <2>4 DEF ReadCmd
  <1>2. /\ Len(CmdArgs(d, name)) = 3 /\ CmdArgs(d, name)[1] = HexText(d[1], 2)
        /\ CmdArgs(d, name)[2] = HexText(d[2], 2)
        /\ CmdArgs(d, name)[3] = HexText(Code[name], 2)
    BY DEF CmdArgs
  <1>3. ReadCmd(CmdArgs(d, name), Devices) =
            IF name = "MOVE_POS" THEN Rejected ELSE Simple(d, name)
    <2> DEFINE args == CmdArgs(d, name)
    <2>1. /\ args[1] = HexText(d[1], 2) /\ args[2] = HexText(d[2], 2)
          /\ args[3] = HexText(Code[name], 2) /\ Len(args) \in {3, 4}
      BY <1>2
    <2>2. Len(args) = 3 /\ Len(args) # 4
      BY <1>2
    <2> HIDE DEF args
    <2>3. ReadCmd(args, Devices) =
              IF name # "MOVE_POS"
              THEN IF Len(args) = 3 THEN Simple(d, name) ELSE Rejected
              ELSE IF Len(args) = 4 /\ IsHexArg(args[4], TRUE)
                   THEN HexMove(d, Hex(args[4])) ELSE Rejected
      BY <1>1, <2>1
    <2> QED BY <2>2, <2>3 DEF args
  <1>4. ASSUME NEW h \in Bytes
        PROVE  ReadCmd(Append(CmdArgs(d, "MOVE_POS"), HexText(h, 2)), Devices) = HexMove(d, h)
    <2> DEFINE args == Append(CmdArgs(d, "MOVE_POS"), HexText(h, 2))
    <2> DEFINE S == {HexText(d[1], 2), HexText(d[2], 2), HexText(Code["MOVE_POS"], 2),
                     HexText(h, 2)}
    <2>1. CmdArgs(d, "MOVE_POS") \in Seq(S) /\ Len(CmdArgs(d, "MOVE_POS")) = 3
      BY DEF CmdArgs
    <2>2. /\ Len(args) = 4 /\ args[1] = HexText(d[1], 2) /\ args[2] = HexText(d[2], 2)
          /\ args[3] = HexText(Code["MOVE_POS"], 2) /\ args[4] = HexText(h, 2)
      BY <2>1, AppendProperties DEF CmdArgs
    <2>3. "MOVE_POS" \in Names
      BY DEF Names, Code
    <2>4. IsHexArg(args[4], TRUE) /\ Hex(args[4]) = h
      BY <2>2, HexOfText DEF IsHexArg
    <2> HIDE DEF args
    <2>5. ReadCmd(args, Devices) = IF Len(args) = 4 /\ IsHexArg(args[4], TRUE)
                                   THEN HexMove(d, Hex(args[4])) ELSE Rejected
      BY <1>1, <2>2, <2>3
    <2> QED BY <2>2, <2>4, <2>5 DEF args
  <1> QED BY <1>3, <1>4

\* The client's commands about cover d
Asks(d) ==
    {WebOn, WebOff, PosRequest(d)} \cup {Simple(d, name) : name \in Names}
        \cup {HexMove(d, h) : h \in Bytes} \cup {WebMove(d, p) : p \in Int}

\* What the controller can read
Readings(d) ==
    {WebOn, WebOff, PosRequest(d), Rejected}
        \cup {Simple(d, name) : name \in Names \ {"MOVE_POS"}}
        \cup {HexMove(d, h) : h \in Bytes} \cup {WebMove(d, p) : p \in Places}

\* These are the commands that are assumed.
LEMMA CommandsAreAsks ==
    ASSUME NEW d \in Devices, NEW c \in Commands(d)
    PROVE  c \in Asks(d)
  <1>1. IsCommand(c, d)
    BY DialogueAssumption
  <1> QED BY <1>1 DEF IsCommand, Asks, Bytes

\* What is read of the line of a command
LEMMA ReadCmdLine ==
    ASSUME NEW args, NEW on
    PROVE  Read(Line("CMD", "", args), on, Devices) = ReadCmd(args, Devices)
  <1>1. Line("CMD", "", args).cmd = "CMD" /\ Line("CMD", "", args).args = args
    BY DEF Line
  <1> QED BY <1>1 DEF Read

\* The words of a web command, or of a position or an acknowledgement
LEMMA WebWords ==
    ASSUME NEW mark, NEW d \in Devices, NEW word
    PROVE  LET line == WebLine(mark, d, word)
           IN  /\ line.cmd = "POS" /\ line.mark = mark /\ Len(line.args) = 5
               /\ line.args[1] = HexText(d[1], 2) /\ line.args[2] = HexText(d[2], 2)
               /\ line.args[3] = word /\ line.args[4] = FFFF /\ line.args[5] = FF
  BY DEF WebLine, Line

\* What is read of a web command
LEMMA ReadWeb ==
    ASSUME NEW mark, NEW d \in Devices, NEW word, NEW on \in BOOLEAN
    PROVE  Read(WebLine(mark, d, word), on, Devices) =
               IF ~on THEN Rejected
               ELSE IF mark = "<" /\ word = FFFF THEN PosRequest(d)
               ELSE IF mark = ">" /\ IsPctArg(word) THEN WebMove(d, Pct(word))
               ELSE Rejected
  <1> DEFINE line == WebLine(mark, d, word)
  <1>1. /\ line.cmd = "POS" /\ line.mark = mark /\ Len(line.args) = 5
        /\ line.args[1] = HexText(d[1], 2) /\ line.args[2] = HexText(d[2], 2)
        /\ line.args[3] = word /\ line.args[4] = FFFF /\ line.args[5] = FF
    BY WebWords
  <1> HIDE DEF line
  <1>2. Read(line, on, Devices) = ReadWebCmd(mark, line.args, on, Devices)
    BY <1>1 DEF Read
  <1>3. /\ IsHexArg(line.args[1], TRUE) /\ IsHexArg(line.args[2], TRUE)
        /\ <<Hex(line.args[1]), Hex(line.args[2])>> = d
    BY <1>1, AddressText
  <1>4. ReadWebCmd(mark, line.args, on, Devices) =
               IF ~on THEN Rejected
               ELSE IF mark = "<" /\ word = FFFF THEN PosRequest(d)
               ELSE IF mark = ">" /\ IsPctArg(word) THEN WebMove(d, Pct(word))
               ELSE Rejected
    BY <1>1, <1>3 DEF ReadWebCmd
  <1> QED BY <1>2, <1>4 DEF line

\* The controller reads what was meant, while the web commands are on; while they are
\* off it rejects them.
LEMMA ReadAsMeant ==
    ASSUME NEW d \in Devices, NEW c \in Asks(d), NEW on \in BOOLEAN
    PROVE  /\ Read(Encode(c), on, Devices) =
                  IF ~on /\ c.op \in {"pos_request", "web_move"} THEN Rejected
                  ELSE Understanding(c)
           /\ Understanding(c) \in Readings(d)
  <1>1. CASE c = WebOn
    BY <1>1 DEF WebOn, Encode, Line, Read, Understanding, Readings
  <1>2. CASE c = WebOff
    BY <1>2 DEF WebOff, Encode, Line, Read, Understanding, Readings
  <1>3. CASE c = PosRequest(d)
    <2>1. Encode(c) = WebLine("<", d, FFFF)
      BY <1>3 DEF PosRequest, Encode
    <2>2. Understanding(c) = c /\ c.op = "pos_request"
      BY <1>3 DEF PosRequest, Understanding
    <2> QED BY <1>3, <2>1, <2>2, ReadWeb DEF Readings
  <1>4. ASSUME NEW name \in Names, c = Simple(d, name)
        PROVE  /\ Read(Encode(c), on, Devices) = Understanding(c)
               /\ Understanding(c) \in Readings(d) /\ c.op = "simple"
    <2>1. c.op = "simple" /\ c.dev = d /\ c.name = name
      BY <1>4 DEF Simple
    <2>2. Encode(c) = Line("CMD", "", CmdArgs(d, name))
      BY <2>1 DEF Encode
    <2>3. Read(Encode(c), on, Devices) = ReadCmd(CmdArgs(d, name), Devices)
      BY <2>2, ReadCmdLine
    <2>4. Understanding(c) = IF name = "MOVE_POS" THEN Rejected ELSE c
      BY <2>1 DEF Understanding
    <2> QED BY <1>4, <2>1, <2>3, <2>4, ReadCmdArgs DEF Readings
  <1>5. ASSUME NEW h \in Bytes, c = HexMove(d, h)
        PROVE  /\ Read(Encode(c), on, Devices) = Understanding(c)
               /\ Understanding(c) \in Readings(d) /\ c.op = "hex_move"
    <2>1. c.op = "hex_move" /\ c.dev = d /\ c.hex = h
      BY <1>5 DEF HexMove
    <2>2. Encode(c) = Line("CMD", "", Append(CmdArgs(d, "MOVE_POS"), HexText(h, 2)))
      BY <2>1 DEF Encode
    <2>3. Read(Encode(c), on, Devices)
              = ReadCmd(Append(CmdArgs(d, "MOVE_POS"), HexText(h, 2)), Devices)
      BY <2>2, ReadCmdLine
    <2>4. Understanding(c) = c
      BY <2>1 DEF Understanding
    <2>5. "MOVE_POS" \in Names
      BY DEF Names, Code
    <2> QED BY <1>5, <2>1, <2>3, <2>4, <2>5, ReadCmdArgs DEF Readings
  <1>6. ASSUME NEW p \in Int, c = WebMove(d, p)
        PROVE  /\ Read(Encode(c), on, Devices) = IF ~on THEN Rejected ELSE Understanding(c)
               /\ Understanding(c) \in Readings(d) /\ c.op = "web_move"
    <2>1. c.op = "web_move" /\ c.dev = d /\ c.pos = p
      BY <1>6 DEF WebMove
    <2>2. Encode(c) = WebLine(">", d, PctText(Clamped(p)))
      BY <2>1 DEF Encode
    <2>3. Clamped(p) \in Places
      BY DEF Clamped, Places
    <2>4. IsPctArg(PctText(Clamped(p))) /\ Pct(PctText(Clamped(p))) = Clamped(p)
      BY <2>3, PctOfText
    <2>5. Understanding(c) = WebMove(d, Clamped(p))
      BY <1>6, <2>1 DEF Understanding, WebMove
    <2> QED BY <2>1, <2>2, <2>3, <2>4, <2>5, ReadWeb DEF Readings
  <1>7. WebOn.op = "web_on" /\ WebOff.op = "web_off"
    BY DEF WebOn, WebOff
  <1>8. PosRequest(d).op = "pos_request"
    BY DEF PosRequest
  <1> QED BY <1>1, <1>2, <1>3, <1>4, <1>5, <1>6 DEF Asks

-----------------------------------------------------------------------------
(* Replies *)

\* What the client is to make of the reply to r, the cover being at p
Meant(r, p) ==
    CASE r.op \in {"web_on", "web_off"} -> Info
      [] r.op = "hex_move" -> HexPos(r.dev, "MOVE_POS", r.hex)
      [] r.op = "simple" /\ r.name = "READ_POS" -> HexPos(r.dev, "READ_POS", PosToHex(p))
      [] r.op = "simple" /\ r.name # "READ_POS" -> Ack(r.dev, r.name)
      [] r.op = "web_move" -> PctAck(r.dev, r.pos)
      [] r.op = "pos_request" -> PctPos(r.dev, p)
      [] r.op = "rejected" -> Error

\* What is decoded of a response, without a position and with one
LEMMA DecodeRspLine ==
    ASSUME NEW d \in Devices, NEW name \in Names
    PROVE  /\ Decode(RspLine(d, name, <<>>)) = Ack(d, name)
           /\ \A h \in Bytes : name \in {"READ_POS", "MOVE_POS"} =>
                  Decode(RspLine(d, name, <<HexText(h, 1)>>)) = HexPos(d, name, h)
  <1> DEFINE words == <<HexText(d[1], 1), HexText(d[2], 1), HexText(Code[name], 1)>>
  <1>1. Code[name] \in Bytes /\ Code[name] \in {Code[n] : n \in Names} /\ NameOf(Code[name]) = name
    BY CodesAreDistinct
  <1>2. ASSUME NEW data
        PROVE  Decode(RspLine(d, name, data)) = DecodeRsp(words \o data)
    <2>1. /\ Line("RSP", "", words \o data).cmd = "RSP"
          /\ Line("RSP", "", words \o data).args = words \o data
      BY DEF Line
    <2> QED BY <2>1 DEF RspLine, Decode
  <1>3. ASSUME NEW args, Len(args) \in {3, 4}, args[1] = words[1], args[2] = words[2],
               args[3] = words[3]
        PROVE  /\ Len(args) = 3 => DecodeRsp(args) = Ack(d, name)
               /\ Len(args) = 4 /\ name \in {"READ_POS", "MOVE_POS"}
                     /\ Len(args[4]) \in {1, 2}
                  => DecodeRsp(args) = HexPos(d, name, Hex(args[4]))
    <2>1. ~(Len(args) < 3)
      BY <1>3
    <2>2. /\ args[1] = HexText(d[1], 1) /\ args[2] = HexText(d[2], 1)
          /\ args[3] = HexText(Code[name], 1)
      BY <1>3
    <2>3. IsHexArg(args[1], FALSE) /\ IsHexArg(args[2], FALSE)
      BY <2>2, AddressText
    <2>4. <<Hex(args[1]), Hex(args[2])>> = d
      BY <2>2, AddressText
    <2>5. IsHexArg(args[3], FALSE) /\ Hex(args[3]) = Code[name]
      BY <1>1, <2>2, HexOfText DEF IsHexArg
    <2>6. ASSUME NEW i \in 1..3
          PROVE  IsHexArg(args[i], FALSE)
      <3>1. i = 1 \/ i = 2 \/ i = 3
        OBVIOUS
      <3> QED BY <2>3, <2>5, <3>1
    <2>7. DecodeRsp(args) =
              IF Len(args) = 3 THEN Ack(d, name)
              ELSE IF /\ Len(args) = 4 /\ name \in {"READ_POS", "MOVE_POS"}
                      /\ IsHexArg(args[4], FALSE)
                   THEN HexPos(d, name, Hex(args[4]))
              ELSE Invalid
      BY <1>1, <2>1, <2>4, <2>5, <2>6 DEF DecodeRsp
    <2> QED BY <2>7 DEF IsHexArg
  <1>4. /\ Len(words) = 3 /\ words \in Seq({words[1], words[2], words[3]})
        /\ words \o <<>> = words
    OBVIOUS
  <1> HIDE DEF words
  <1>5. Decode(RspLine(d, name, <<>>)) = Ack(d, name)
    <2>1. Len(words) \in {3, 4}
      BY <1>4
    <2>2. DecodeRsp(words) = Ack(d, name)
      BY <1>3, <1>4, <2>1
    <2> QED BY <1>2, <1>4, <2>2
  <1>6. ASSUME NEW h \in Bytes, name \in {"READ_POS", "MOVE_POS"}
        PROVE  Decode(RspLine(d, name, <<HexText(h, 1)>>)) = HexPos(d, name, h)
    <2> DEFINE w == HexText(h, 1)
               S == {words[1], words[2], words[3], w}
               args == Append(words, w)
    <2>1. words \in Seq(S) /\ w \in S
      BY DEF words
    <2>2. args = words \o <<w>>
      BY <2>1, AppendIsConcat
    <2>3. /\ Len(args) = 4 /\ args[1] = words[1] /\ args[2] = words[2] /\ args[3] = words[3]
          /\ args[4] = HexText(h, 1)
      <3>1. /\ Len(args) = Len(words) + 1 /\ args[Len(words) + 1] = w
            /\ \A i \in 1..Len(words) : args[i] = words[i]
        BY <2>1, AppendProperties
      <3> HIDE DEF args, w
      <3>2. /\ Len(args) = 4 /\ args[1] = words[1] /\ args[2] = words[2]
            /\ args[3] = words[3] /\ args[4] = w
        BY <1>4, <3>1
      <3> QED BY <3>2 DEF w
    <2>4. Len(args) \in {3, 4} /\ Len(args) # 3
      BY <2>3
    <2>5. Len(args[4]) \in {1, 2} /\ Hex(args[4]) = h
      BY <2>3, HexOfText
    <2> HIDE DEF args
    <2>6. DecodeRsp(args) = HexPos(d, name, h)
      BY <1>3, <1>6, <2>3, <2>4, <2>5
    <2>7. Decode(RspLine(d, name, <<w>>)) = DecodeRsp(words \o <<w>>)
      BY <1>2
    <2> QED BY <2>2, <2>6, <2>7
  <1> QED BY <1>5, <1>6

\* What is decoded of a position or an acknowledgement
LEMMA DecodeWebLine ==
    ASSUME NEW d \in Devices, NEW p \in Places
    PROVE  Decode(PosLine(d, p)) = PctPos(d, p) /\ Decode(AckLine(d, p)) = PctAck(d, p)
  <1>1. ASSUME NEW mark \in {"*", "#"}
        PROVE  Decode(WebLine(mark, d, PctText(p)))
                   = IF mark = "*" THEN PctPos(d, p) ELSE PctAck(d, p)
    <2> DEFINE line == WebLine(mark, d, PctText(p))
    <2>1. /\ line.cmd = "POS" /\ line.mark = mark /\ Len(line.args) = 5
          /\ line.args[1] = HexText(d[1], 2) /\ line.args[2] = HexText(d[2], 2)
          /\ line.args[3] = PctText(p) /\ line.args[4] = FFFF /\ line.args[5] = FF
      BY WebWords
    <2> HIDE DEF line
    <2>2. Decode(line) = DecodeWeb(mark, line.args)
      BY <2>1 DEF Decode
    <2>3. /\ IsHexArg(line.args[1], TRUE) /\ IsHexArg(line.args[2], TRUE)
          /\ <<Hex(line.args[1]), Hex(line.args[2])>> = d
      BY <2>1, AddressText
    <2>4. IsPctArg(line.args[3]) /\ Pct(line.args[3]) = p
      BY <2>1, PctOfText
    <2>5. DecodeWeb(mark, line.args) = IF mark = "*" THEN PctPos(d, p) ELSE PctAck(d, p)
      BY <2>1, <2>3, <2>4 DEF DecodeWeb
    <2> QED BY <2>2, <2>5 DEF line
  <1> QED BY <1>1 DEF PosLine, AckLine

\* The client makes of a reply what was meant by it.
LEMMA DecodesAsMeant ==
    ASSUME NEW d \in Devices, NEW r \in Readings(d), NEW p \in Places
    PROVE  Decode(Reply(r, p)) = Meant(r, p)
  <1>1. CASE r \in {WebOn, WebOff}
    <2>1. r.op \in {"web_on", "web_off"}
      BY <1>1 DEF WebOn, WebOff
    <2>2. Reply(r, p) = Line("WEB", "", <<>>) /\ Meant(r, p) = Info
      BY <2>1 DEF Reply, Meant
    <2>3. Line("WEB", "", <<>>).cmd = "WEB"
      BY DEF Line
    <2>4. Decode(Line("WEB", "", <<>>)) = Info
      BY <2>3 DEF Decode
    <2> QED BY <2>2, <2>4
  <1>2. CASE r = Rejected
    <2>1. r.op = "rejected"
      BY <1>2 DEF Rejected
    <2>2. Reply(r, p) = Line("ERROR", "", <<>>) /\ Meant(r, p) = Error
      BY <2>1 DEF Reply, Meant
    <2>3. Line("ERROR", "", <<>>).cmd = "ERROR"
      BY DEF Line
    <2>4. Decode(Line("ERROR", "", <<>>)) = Error
      BY <2>3 DEF Decode
    <2> QED BY <2>2, <2>4
  <1>3. CASE r = PosRequest(d)
    <2>1. Reply(r, p) = PosLine(d, p) /\ Meant(r, p) = PctPos(d, p)
      BY <1>3 DEF PosRequest, Reply, Meant
    <2> QED BY <2>1, DecodeWebLine
  <1>4. ASSUME NEW name \in Names, r = Simple(d, name)
        PROVE  Decode(Reply(r, p)) = Meant(r, p)
    <2>1. r.op = "simple" /\ r.dev = d /\ r.name = name
      BY <1>4 DEF Simple
    <2>2. CASE name = "READ_POS"
      <3>1. /\ Reply(r, p) = RspLine(d, name, <<HexText(PosToHex(p), 1)>>)
            /\ Meant(r, p) = HexPos(d, name, PosToHex(p))
        BY <2>1, <2>2 DEF Reply, Meant
      <3>2. PosToHex(p) \in Bytes
        BY HexAndPos
      <3> QED BY <2>2, <3>1, <3>2, DecodeRspLine
    <2>3. CASE name # "READ_POS"
      <3>1. Reply(r, p) = RspLine(d, name, <<>>) /\ Meant(r, p) = Ack(d, name)
        BY <2>1, <2>3 DEF Reply, Meant
      <3> QED BY <3>1, DecodeRspLine
    <2> QED BY <2>2, <2>3
  <1>5. ASSUME NEW h \in Bytes, r = HexMove(d, h)
        PROVE  Decode(Reply(r, p)) = Meant(r, p)
    <2>1. r.op = "hex_move" /\ r.dev = d /\ r.hex = h
      BY <1>5 DEF HexMove
    <2>2. /\ Reply(r, p) = RspLine(d, "MOVE_POS", <<HexText(h, 1)>>)
          /\ Meant(r, p) = HexPos(d, "MOVE_POS", h)
      BY <2>1 DEF Reply, Meant
    <2>3. "MOVE_POS" \in Names
      BY DEF Names, Code
    <2> QED BY <2>2, <2>3, DecodeRspLine
  <1>6. ASSUME NEW to \in Places, r = WebMove(d, to)
        PROVE  Decode(Reply(r, p)) = Meant(r, p)
    <2>1. r.op = "web_move" /\ r.dev = d /\ r.pos = to
      BY <1>6 DEF WebMove
    <2>2. Reply(r, p) = AckLine(d, to) /\ Meant(r, p) = PctAck(d, to)
      BY <2>1 DEF Reply, Meant
    <2> QED BY <2>2, DecodeWebLine
  <1> QED BY <1>1, <1>2, <1>3, <1>4, <1>5, <1>6 DEF Readings

\* A message that can be decoded, and names cover d if it names one
MeantOf(d, msg) ==
    msg # Invalid /\ (msg.type \notin {"info", "error"} => msg.dev = d)

\* So is every reply meant.
LEMMA MeantIsOf ==
    ASSUME NEW d \in Devices, NEW r \in Readings(d), NEW p \in Places
    PROVE  MeantOf(d, Meant(r, p))
  <1> DEFINE msg == Meant(r, p)
  <1>1. Invalid.type = "invalid"
    BY DEF Invalid
  <1>2. CASE r \in {WebOn, WebOff, Rejected}
    <2>1. r.op \in {"web_on", "web_off", "rejected"}
      BY <1>2 DEF WebOn, WebOff, Rejected
    <2>2. msg = Info \/ msg = Error
      BY <2>1 DEF Meant
    <2>3. msg.type = "info" \/ msg.type = "error"
      BY <2>2 DEF Info, Error
    <2> QED BY <1>1, <2>3 DEF MeantOf
  <1>3. CASE r = PosRequest(d)
    <2>1. msg = PctPos(d, p)
      BY <1>3 DEF PosRequest, Meant
    <2>2. msg.type = "pct_pos" /\ msg.dev = d
      BY <2>1 DEF PctPos
    <2> QED BY <1>1, <2>2 DEF MeantOf
  <1>4. ASSUME NEW name \in Names, r = Simple(d, name)
        PROVE  MeantOf(d, msg)
    <2>1. r.op = "simple" /\ r.dev = d /\ r.name = name
      BY <1>4 DEF Simple
    <2>2. msg = HexPos(d, "READ_POS", PosToHex(p)) \/ msg = Ack(d, name)
      BY <2>1 DEF Meant
    <2>3. (msg.type = "hex_pos" \/ msg.type = "ack") /\ msg.dev = d
      BY <2>2 DEF HexPos, Ack
    <2> QED BY <1>1, <2>3 DEF MeantOf
  <1>5. ASSUME NEW h \in Bytes, r = HexMove(d, h)
        PROVE  MeantOf(d, msg)
    <2>1. msg = HexPos(d, "MOVE_POS", h)
      BY <1>5 DEF HexMove, Meant
    <2>2. msg.type = "hex_pos" /\ msg.dev = d
      BY <2>1 DEF HexPos
    <2> QED BY <1>1, <2>2 DEF MeantOf
  <1>6. ASSUME NEW to \in Places, r = WebMove(d, to)
        PROVE  MeantOf(d, msg)
    <2>1. msg = PctAck(d, to)
      BY <1>6 DEF WebMove, Meant
    <2>2. msg.type = "pct_ack" /\ msg.dev = d
      BY <2>1 DEF PctAck
    <2> QED BY <1>1, <2>2 DEF MeantOf
  <1> QED BY <1>2, <1>3, <1>4, <1>5, <1>6 DEF Readings

-----------------------------------------------------------------------------
(* What the client shows *)

\* What the controller writes about cover d
Replies(d) == {Reply(r, p) : r \in Readings(d), p \in Places}

\* What _pos and _prev_pos may be
States == Places \X (-1..1001)

\* What Heard makes of them, if they are s
AfterMsg(msg, s) ==
    LET hinted(to) == <<s[1], IF to < s[1] THEN s[1] + 1
                              ELSE IF to > s[1] THEN s[1] - 1 ELSE s[2]>>
    IN  CASE msg.type = "pct_pos" -> <<msg.pos, s[1]>>
          [] msg.type = "pct_ack" -> hinted(msg.pos)
          [] msg.type = "hex_pos" /\ msg.name = "MOVE_POS" -> hinted(HexToPos(msg.hex))
          [] msg.type = "ack" /\ msg.name \in {"MOVE_UP", "MOVE_UP_STEP"} ->
                <<s[1], s[1] - 1>>
          [] msg.type = "ack" /\ msg.name \in {"MOVE_DOWN", "MOVE_DOWN_STEP"} ->
                <<s[1], s[1] + 1>>
          [] OTHER -> s

\* What Hear makes of them, if line is what is heard
After(d, s, line) ==
    LET msg == Decode(line)
    IN  IF msg.type \in {"info", "error", "invalid"} \/ msg.dev # d
        THEN s ELSE AfterMsg(msg, s)

\* They are s at first, and e when the lines of q have been heard.
Ends(d, s, q, e) ==
    \E h \in [0..Len(q) -> States] :
        /\ h[0] = s /\ h[Len(q)] = e
        /\ \A i \in 1..Len(q) : h[i] = After(d, h[i - 1], q[i])

\* Hear is one step of it.
LEMMA HearIsAfter ==
    ASSUME Hear
    PROVE  <<shown', prev'>> = After(dev, <<shown, prev>>, Head(replies))
  <1> DEFINE msg == Decode(Head(replies))
             s == <<shown, prev>>
  <1>1. IF msg.type \in {"info", "error", "invalid"} \/ msg.dev # dev
        THEN UNCHANGED clientVars ELSE Heard(msg)
    BY DEF Hear
  <1>2. After(dev, s, Head(replies)) =
            IF msg.type \in {"info", "error", "invalid"} \/ msg.dev # dev
            THEN s ELSE AfterMsg(msg, s)
    BY DEF After
  <1> HIDE DEF msg
  <1>3. UNCHANGED clientVars => <<shown', prev'>> = s
    BY DEF clientVars
  <1>4. ASSUME Heard(msg)
        PROVE  <<shown', prev'>> = AfterMsg(msg, s)
    <2>1. s[1] = shown /\ s[2] = prev
      OBVIOUS
    <2> HIDE DEF s
    <2>2. CASE msg.type = "pct_pos"
      BY <1>4, <2>1, <2>2 DEF Heard, AfterMsg, SetPos
    <2>3. CASE msg.type = "pct_ack"
      BY <1>4, <2>1, <2>3 DEF Heard, AfterMsg, TargetHint
    <2>4. CASE msg.type = "hex_pos" /\ msg.name = "MOVE_POS"
      BY <1>4, <2>1, <2>4 DEF Heard, AfterMsg, TargetHint
    <2>5. CASE msg.type = "ack" /\ msg.name \in {"MOVE_UP", "MOVE_UP_STEP"}
      BY <1>4, <2>1, <2>5 DEF Heard, AfterMsg
    <2>6. CASE msg.type = "ack" /\ msg.name \in {"MOVE_DOWN", "MOVE_DOWN_STEP"}
      BY <1>4, <2>1, <2>6 DEF Heard, AfterMsg
    <2>7. CASE /\ msg.type \notin {"pct_pos", "pct_ack"}
               /\ ~(msg.type = "hex_pos" /\ msg.name = "MOVE_POS")
               /\ ~(msg.type = "ack" /\ msg.name \in {"MOVE_UP", "MOVE_UP_STEP"})
               /\ ~(msg.type = "ack" /\ msg.name \in {"MOVE_DOWN", "MOVE_DOWN_STEP"})
      <3>1. Heard(msg) = UNCHANGED clientVars
        BY <2>7 DEF Heard
      <3>2. AfterMsg(msg, s) = s
        BY <2>7 DEF AfterMsg
      <3> QED BY <1>3, <1>4, <3>1, <3>2
    <2> QED BY <2>2, <2>3, <2>4, <2>5, <2>6, <2>7
  <1> QED BY <1>1, <1>2, <1>3, <1>4

\* Nothing is left to hear.
LEMMA EndsEmpty ==
    ASSUME NEW d, NEW s \in States, NEW e
    PROVE  Ends(d, s, <<>>, e) <=> e = s
  <1>1. ASSUME Ends(d, s, <<>>, e)
        PROVE  e = s
    BY <1>1 DEF Ends
  <1>2. Ends(d, s, <<>>, s)
    <2> DEFINE h == [i \in 0..0 |-> s]
    <2>1. h \in [0..0 -> States] /\ h[0] = s
      OBVIOUS
    <2>2. Len(<<>>) = 0
      OBVIOUS
    <2>3. \A i \in 1..0 : h[i] = After(d, h[i - 1], <<>>[i])
      OBVIOUS
    <2> HIDE DEF h
    <2> QED BY <2>1, <2>2, <2>3 DEF Ends
  <1> QED BY <1>1, <1>2

\* One more line is put behind the others.
LEMMA EndsAppend ==
    ASSUME NEW d, NEW S, NEW q \in Seq(S), NEW s, NEW e, NEW line \in S,
           Ends(d, s, q, e), After(d, e, line) \in States
    PROVE  Ends(d, s, Append(q, line), After(d, e, line))
  <1> DEFINE n == Len(q)
             a == After(d, e, line)
             q2 == Append(q, line)
  <1>1. PICK h \in [0..n -> States] :
            /\ h[0] = s /\ h[n] = e
            /\ \A i \in 1..n : h[i] = After(d, h[i - 1], q[i])
    BY DEF Ends
  <1>2. n \in Nat /\ Len(q2) = n + 1 /\ q2[n + 1] = line /\ \A i \in 1..n : q2[i] = q[i]
    BY AppendProperties, LenProperties
  <1> DEFINE g == [i \in 0..(n + 1) |-> IF i = n + 1 THEN a ELSE h[i]]
  <1>3. g \in [0..(n + 1) -> States]
    BY <1>2
  <1>4. g[0] = s /\ g[n + 1] = a
    BY <1>1, <1>2
  <1>5. ASSUME NEW i \in 1..(n + 1)
        PROVE  g[i] = After(d, g[i - 1], q2[i])
    <2>1. CASE i = n + 1
      <3>1. g[i] = a /\ g[i - 1] = e /\ q2[i] = line
        BY <1>1, <1>2, <2>1
      <3> QED BY <3>1
    <2>2. CASE i # n + 1
      <3>1. g[i] = h[i] /\ g[i - 1] = h[i - 1] /\ q2[i] = q[i] /\ i \in 1..n
        BY <1>2, <2>2
      <3> QED BY <1>1, <3>1
    <2> QED BY <2>1, <2>2
  <1> HIDE DEF g
  <1> QED BY <1>2, <1>3, <1>4, <1>5 DEF Ends

\* The first line is heard.
LEMMA EndsTail ==
    ASSUME NEW d, NEW S, NEW q \in Seq(S), NEW s, NEW e, Ends(d, s, q, e), q # <<>>
    PROVE  After(d, s, Head(q)) \in States /\ Ends(d, After(d, s, Head(q)), Tail(q), e)
  <1> DEFINE n == Len(q)
             q2 == Tail(q)
  <1>1. PICK h \in [0..n -> States] :
            /\ h[0] = s /\ h[n] = e
            /\ \A i \in 1..n : h[i] = After(d, h[i - 1], q[i])
    BY DEF Ends
  <1>2. /\ n \in Nat \ {0} /\ Len(q2) = n - 1 /\ Head(q) = q[1]
        /\ \A i \in 1..(n - 1) : q2[i] = q[i + 1]
    BY HeadTailProperties, LenProperties, EmptySeq
  <1> DEFINE g == [i \in 0..(n - 1) |-> h[i + 1]]
  <1>3. g \in [0..(n - 1) -> States]
    BY <1>2
  <1>4. h[1] = After(d, s, Head(q)) /\ h[1] \in States
    BY <1>1, <1>2
  <1>5. g[0] = h[1] /\ g[n - 1] = e
    BY <1>1, <1>2
  <1>6. ASSUME NEW i \in 1..(n - 1)
        PROVE  g[i] = After(d, g[i - 1], q2[i])
    <2>1. g[i] = h[i + 1] /\ g[i - 1] = h[i] /\ q2[i] = q[i + 1] /\ i + 1 \in 1..n
      BY <1>2
    <2>2. h[i + 1] = After(d, h[(i + 1) - 1], q[i + 1]) /\ (i + 1) - 1 = i
      BY <1>1, <2>1
    <2> QED BY <2>1, <2>2
  <1> HIDE DEF g
  <1> QED BY <1>2, <1>3, <1>4, <1>5, <1>6 DEF Ends

\* A report makes the client show the position that is reported, and makes it show a
\* movement away from what it showed.
LEMMA AfterReport ==
    ASSUME NEW d \in Devices, NEW p \in Places, NEW t, NEW v
    PROVE  After(d, <<t, v>>, PosLine(d, p)) = <<p, t>> /\ PosLine(d, p) \in Replies(d)
  <1>1. Decode(PosLine(d, p)) = PctPos(d, p)
    BY DecodeWebLine
  <1>2. PctPos(d, p).type = "pct_pos" /\ PctPos(d, p).dev = d /\ PctPos(d, p).pos = p
    BY DEF PctPos
  <1>3. AfterMsg(PctPos(d, p), <<t, v>>) = <<p, t>>
    <2>1. <<t, v>>[1] = t
      OBVIOUS
    <2> QED BY <1>2, <2>1 DEF AfterMsg
  <1>4. After(d, <<t, v>>, PosLine(d, p)) = <<p, t>>
    BY <1>1, <1>2, <1>3 DEF After
  <1>5. PosRequest(d).op = "pos_request" /\ PosRequest(d).dev = d
    BY DEF PosRequest
  <1>6. PosLine(d, p) = Reply(PosRequest(d), p)
    BY <1>5 DEF Reply
  <1>7. PosRequest(d) \in Readings(d)
    BY DEF Readings
  <1> QED BY <1>4, <1>6, <1>7 DEF Replies

\* The requests that wait
Movers == [to : Places \cup {NoPos}, notify : BOOLEAN]

\* A position is not further on the way to the goal than the cover.
Behind(t, p, g) == (g > p => t <= p) /\ (g < p => t >= p)

\* The direction of a position and a previous one is not opposite to that of the cover.
NotOther(t, v, p, g) == ~(t > v /\ g < p) /\ ~(t < v /\ g > p)

\* What a reply makes the client show, as against what the request makes the cover do:
\* a position only if one was asked for; and a direction that is not opposite to the
\* movement's, if the cover is where the client thinks.
ShownAfter(r, t, v, w) ==
    /\ Movement(r) = Nothing =>
          /\ r.op = "pos_request" => w = t
          /\ r.op # "pos_request" /\ IsStep(r) => pos \in {0, 1000}
          /\ r.op # "pos_request" /\ ~IsStep(r) => w = v
    /\ Movement(r) # Nothing =>
          /\ r.op # "pos_request"
          /\ \E m \in Movers :
                /\ Movement(r) = <<m>>
                /\ \/ t # pos \/ m.to = NoPos
                   \/ r.op = "simple" /\ r.name = "MOVE_POS_1"
                   \/ NotOther(t, w, pos, m.to)

\* What the client shows when it has heard the reply to r, if it showed t after v
Shows(d, r, t, v) ==
    \E w \in -1..1001 :
        /\ After(d, <<t, v>>, Reply(r, pos)) = <<IF r.op = "pos_request" THEN pos ELSE t, w>>
        /\ ShownAfter(r, t, v, w)

\* Something to do is not nothing.
LEMMA GotoIs ==
    ASSUME NEW to \in Places \cup {NoPos}, NEW reports \in BOOLEAN
    PROVE  /\ Goto(to, reports) # Nothing
           /\ \E m \in Movers : Goto(to, reports) = <<m>> /\ m.to = to
  <1> DEFINE m == [to |-> to, notify |-> reports]
  <1>1. m \in Movers /\ m.to = to
    BY DEF Movers
  <1>2. Goto(to, reports) = <<m>>
    BY DEF Goto
  <1> HIDE DEF m
  <1>3. <<m>> # <<>>
    BY SMTT(40)
  <1> QED BY <1>1, <1>2, <1>3 DEF Nothing

\* A message that is taken for a hint of the target
HintsAt(msg, to) ==
    \/ msg.type = "pct_ack" /\ msg.pos = to
    \/ msg.type = "hex_pos" /\ msg.name = "MOVE_POS" /\ HexToPos(msg.hex) = to

\* A request to move that is answered with a target: the hint
LEMMA AfterHint ==
    ASSUME NEW d \in Devices, NEW r, NEW to \in Places, NEW t \in Places, NEW v \in -1..1001,
           Decode(Reply(r, pos)).dev = d, HintsAt(Decode(Reply(r, pos)), to),
           r.op # "pos_request", Movement(r) = Goto(to, TRUE)
    PROVE  Shows(d, r, t, v)
  <1> DEFINE s == <<t, v>>
             line == Reply(r, pos)
             msg == Decode(line)
             w == IF to < t THEN t + 1 ELSE IF to > t THEN t - 1 ELSE v
  <1>1. s[1] = t /\ s[2] = v
    OBVIOUS
  <1>2. w \in -1..1001
    BY DEF Places
  <1>3. ~(t > w /\ to < t) /\ ~(t < w /\ to > t)
    BY DEF Places
  <1> HIDE DEF s
  <1>4. AfterMsg(msg, s) = <<t, w>>
    BY <1>1 DEF AfterMsg, HintsAt
  <1>5. msg.type \notin {"info", "error", "invalid"}
    BY DEF HintsAt
  <1>6. After(d, s, line) = <<t, w>>
    BY <1>4, <1>5 DEF After
  <1> HIDE DEF w
  <1>7. /\ Goto(to, TRUE) # Nothing
        /\ \E m \in Movers : Goto(to, TRUE) = <<m>> /\ m.to = to
    BY GotoIs
  <1>8. PICK m \in Movers : Movement(r) = <<m>> /\ m.to = to
    BY <1>7
  <1>9. ShownAfter(r, t, v, w)
    <2>1. t = pos => NotOther(t, w, pos, m.to)
      BY <1>3, <1>8 DEF NotOther
    <2>2. Movement(r) # Nothing
      BY <1>7
    <2> QED BY <1>8, <2>1, <2>2 DEF ShownAfter
  <1> QED BY <1>2, <1>6, <1>9, SMTT(40) DEF s, Shows

\* The acknowledgement of a simple command
LEMMA AfterAck ==
    ASSUME pos \in Places, NEW d \in Devices, NEW name \in Names \ {"MOVE_POS"},
           NEW t \in Places, NEW v \in -1..1001, NEW r, r = Simple(d, name)
    PROVE  Shows(d, r, t, v)
  <1> DEFINE s == <<t, v>>
             line == Reply(r, pos)
             msg == Meant(r, pos)
             w == IF name \in {"MOVE_UP", "MOVE_UP_STEP"} THEN t - 1
                  ELSE IF name \in {"MOVE_DOWN", "MOVE_DOWN_STEP"} THEN t + 1 ELSE v
  <1>1. r.op = "simple" /\ r.dev = d /\ r.name = name
    BY DEF Simple
  <1>2. w \in -1..1001 /\ s[1] = t /\ s[2] = v
    BY DEF Places
  <1>3. Decode(line) = msg
    BY DecodesAsMeant DEF Readings
  <1>4. /\ name = "READ_POS" => msg = HexPos(d, name, PosToHex(pos))
        /\ name # "READ_POS" => msg = Ack(d, name)
    BY <1>1 DEF Meant
  <1>5. /\ msg.dev = d /\ msg.name = name
        /\ msg.type = IF name = "READ_POS" THEN "hex_pos" ELSE "ack"
    BY <1>4 DEF HexPos, Ack
  <1> HIDE DEF msg, s, line
  <1>6. AfterMsg(msg, s) = <<t, w>>
    <2>1. CASE name \in {"MOVE_UP", "MOVE_UP_STEP"}
      BY <1>2, <1>5, <2>1 DEF AfterMsg
    <2>2. CASE name \in {"MOVE_DOWN", "MOVE_DOWN_STEP"}
      BY <1>2, <1>5, <2>2 DEF AfterMsg
    <2>3. CASE name \notin {"MOVE_UP", "MOVE_UP_STEP", "MOVE_DOWN", "MOVE_DOWN_STEP"}
      <3>1. AfterMsg(msg, s) = s /\ w = v
        BY <1>5, <2>3 DEF AfterMsg
      <3> QED BY <3>1 DEF s
    <2> QED BY <2>1, <2>2, <2>3
  <1>7. After(d, s, line) = <<t, w>>
    BY <1>3, <1>5, <1>6 DEF After
  <1>8. Movement(r) = SimpleCommand(name)
    BY <1>1 DEF Movement
  <1> HIDE DEF w
  <1>9. ShownAfter(r, t, v, w)
    <2>1. ASSUME NEW to \in Places \cup {NoPos}, NEW reports \in BOOLEAN,
                 Movement(r) = Goto(to, reports),
                 t # pos \/ to = NoPos \/ name = "MOVE_POS_1" \/ NotOther(t, w, pos, to)
          PROVE  ShownAfter(r, t, v, w)
      <3>1. /\ Goto(to, reports) # Nothing
            /\ \E m \in Movers : Goto(to, reports) = <<m>> /\ m.to = to
        BY GotoIs
      <3>2. PICK m \in Movers : Movement(r) = <<m>> /\ m.to = to
        BY <2>1, <3>1
      <3>3. Movement(r) # Nothing
        BY <2>1, <3>1
      <3> QED BY <1>1, <2>1, <3>2, <3>3 DEF ShownAfter
    <2>2. ASSUME Movement(r) = Nothing,
                 IF name \in {"MOVE_UP_STEP", "MOVE_DOWN_STEP"} THEN pos \in {0, 1000}
                 ELSE w = v
          PROVE  ShownAfter(r, t, v, w)
      BY <1>1, <2>2 DEF ShownAfter, IsStep
    <2>3. CASE name = "STOP"
      <3>1. Movement(r) = Goto(NoPos, FALSE)
        BY <1>8, <2>3 DEF SimpleCommand
      <3> QED BY <2>1, <3>1
    <2>4. CASE name = "MOVE_DOWN"
      <3>1. Movement(r) = Goto(0, TRUE)
        BY <1>8, <2>4 DEF SimpleCommand
      <3>2. 0 \in Places \cup {NoPos} /\ (t # pos \/ NotOther(t, w, pos, 0))
        BY <2>4 DEF Places, NotOther, w
      <3> QED BY <2>1, <3>1, <3>2
    <2>5. CASE name = "MOVE_UP"
      <3> DEFINE to == 1000
      <3>1. Movement(r) = Goto(to, TRUE)
        BY <1>8, <2>5 DEF SimpleCommand
      <3>2. to \in Places \cup {NoPos} /\ (t # pos \/ NotOther(t, w, pos, to))
        BY <2>5 DEF Places, NotOther, w
      <3> HIDE DEF to
      <3> QED BY <2>1, <3>1, <3>2
    <2>6. CASE name = "MOVE_POS_1"
      <3>1. Movement(r) = Goto(Preset, TRUE)
        BY <1>8, <2>6 DEF SimpleCommand
      <3>2. Preset \in Places \cup {NoPos}
        BY DialogueAssumption DEF Places
      <3> QED BY <2>1, <2>6, <3>1, <3>2
    <2>7. ASSUME NEW by \in {-StepSize, StepSize}, Movement(r) = Step(by),
                 name = IF by = StepSize THEN "MOVE_UP_STEP" ELSE "MOVE_DOWN_STEP"
          PROVE  ShownAfter(r, t, v, w)
      <3> DEFINE to == Clamped(pos + by)
      <3>1. StepSize \in Nat \ {0}
        BY DialogueAssumption
      <3>2. /\ to \in Places /\ (to = pos => pos \in {0, 1000})
            /\ by = StepSize => to >= pos
            /\ by # StepSize => to <= pos
        BY <3>1 DEF Clamped, Places
      <3>3. Movement(r) = IF to = pos THEN Nothing ELSE Goto(to, FALSE)
        BY <2>7 DEF Step
      <3> HIDE DEF to
      <3>4. t # pos \/ NotOther(t, w, pos, to)
        <4>1. CASE by = StepSize
          <5>1. w = t - 1
            BY <2>7, <4>1 DEF w
          <5> QED BY <3>2, <4>1, <5>1 DEF NotOther, Places
        <4>2. CASE by # StepSize
          <5>1. w = t + 1
            BY <2>7, <4>2 DEF w
          <5> QED BY <3>2, <4>2, <5>1 DEF NotOther, Places
        <4> QED BY <4>1, <4>2
      <3>5. CASE to = pos
        BY <2>2, <2>7, <3>2, <3>3, <3>5
      <3>6. CASE to # pos
        BY <2>1, <3>2, <3>3, <3>4, <3>6
      <3> QED BY <3>5, <3>6
    <2>8. CASE name = "MOVE_DOWN_STEP"
      <3>1. Movement(r) = Step(-StepSize) /\ -StepSize # StepSize
        BY <1>8, <2>8, DialogueAssumption DEF SimpleCommand
      <3> QED BY <2>7, <2>8, <3>1
    <2>9. CASE name = "MOVE_UP_STEP"
      <3>1. Movement(r) = Step(StepSize)
        BY <1>8, <2>9 DEF SimpleCommand
      <3> QED BY <2>7, <2>9, <3>1
    <2>10. CASE name \notin {"STOP", "MOVE_DOWN", "MOVE_UP", "MOVE_POS_1",
                             "MOVE_DOWN_STEP", "MOVE_UP_STEP"}
      <3>1. Movement(r) = Nothing
        BY <1>8, <2>10, ZenonT(60) DEF SimpleCommand
      <3>2. name \notin {"MOVE_UP_STEP", "MOVE_DOWN_STEP"} /\ w = v
        BY <2>10 DEF w
      <3> QED BY <2>2, <3>1, <3>2
    <2> QED BY <2>3, <2>4, <2>5, <2>6, <2>8, <2>9, <2>10
  <1> QED BY <1>1, <1>2, <1>7, <1>9, SMTT(40) DEF s, line, Shows

\* What a reply makes the client show
LEMMA AfterReply ==
    ASSUME pos \in Places, NEW d \in Devices, NEW r \in Readings(d), NEW t \in Places,
           NEW v \in -1..1001
    PROVE  Shows(d, r, t, v)
  <1> DEFINE line == Reply(r, pos)
             msg == Meant(r, pos)
             s == <<t, v>>
  <1>1. Decode(line) = msg
    BY DecodesAsMeant
  <1>2. CASE r \in {WebOn, WebOff, Rejected}
    <2>1. r.op \in {"web_on", "web_off", "rejected"}
      BY <1>2 DEF WebOn, WebOff, Rejected
    <2>2. msg \in {Info, Error} /\ Movement(r) = Nothing /\ ~IsStep(r)
      BY <2>1 DEF Meant, Movement, IsStep
    <2>3. msg.type \in {"info", "error"}
      BY <2>2 DEF Info, Error
    <2> HIDE DEF msg, line, s
    <2>4. After(d, s, line) = s
      BY <1>1, <2>3 DEF After
    <2>5. ShownAfter(r, t, v, v)
      BY <2>1, <2>2 DEF ShownAfter
    <2> QED BY <2>1, <2>4, <2>5, SMTT(40) DEF s, line, Shows
  <1>3. CASE r = PosRequest(d)
    <2>1. r.op = "pos_request" /\ r.dev = d
      BY <1>3 DEF PosRequest
    <2>2. line = PosLine(d, pos) /\ Movement(r) = Nothing
      BY <2>1 DEF Reply, Movement
    <2>3. After(d, s, line) = <<pos, t>>
      BY <2>2, AfterReport
    <2>4. ShownAfter(r, t, v, t)
      BY <2>1, <2>2 DEF ShownAfter
    <2>5. t \in -1..1001
      BY DEF Places
    <2> QED BY <2>1, <2>3, <2>4, <2>5, SMTT(40) DEF Shows
  <1>4. ASSUME NEW name \in Names \ {"MOVE_POS"}, r = Simple(d, name)
        PROVE  Shows(d, r, t, v)
    BY <1>4, AfterAck
  <1>5. ASSUME NEW h \in Bytes, r = HexMove(d, h)
        PROVE  Shows(d, r, t, v)
    <2>1. r.op = "hex_move" /\ r.dev = d /\ r.hex = h
      BY <1>5 DEF HexMove
    <2>2. msg = HexPos(d, "MOVE_POS", h) /\ Movement(r) = Goto(HexToPos(h), TRUE)
      BY <2>1 DEF Meant, Movement
    <2>3. msg.type = "hex_pos" /\ msg.name = "MOVE_POS" /\ msg.hex = h /\ msg.dev = d
      BY <2>2 DEF HexPos
    <2>4. HexToPos(h) \in Places
      BY HexAndPos
    <2>5. /\ HintsAt(msg, HexToPos(h)) /\ msg.dev = d /\ r.op # "pos_request"
          /\ Movement(r) = Goto(HexToPos(h), TRUE)
      BY <2>1, <2>2, <2>3 DEF HintsAt
    <2> HIDE DEF msg
    <2> QED BY <1>1, <2>4, <2>5, AfterHint, ZenonT(60)
  <1>6. ASSUME NEW to \in Places, r = WebMove(d, to)
        PROVE  Shows(d, r, t, v)
    <2>1. r.op = "web_move" /\ r.dev = d /\ r.pos = to
      BY <1>6 DEF WebMove
    <2>2. msg = PctAck(d, to) /\ Movement(r) = Goto(to, TRUE)
      BY <2>1 DEF Meant, Movement
    <2>3. msg.type = "pct_ack" /\ msg.pos = to /\ msg.dev = d
      BY <2>2 DEF PctAck
    <2>4. /\ HintsAt(msg, to) /\ msg.dev = d /\ r.op # "pos_request"
          /\ Movement(r) = Goto(to, TRUE)
      BY <2>1, <2>2, <2>3 DEF HintsAt
    <2> HIDE DEF msg
    <2>5. HintsAt(Decode(Reply(r, pos)), to) /\ Decode(Reply(r, pos)).dev = d
      BY <1>1, <2>4
    <2> QED BY <2>4, <2>5, AfterHint, ZenonT(60)
  <1> QED BY <1>2, <1>3, <1>4, <1>5, <1>6 DEF Readings

-----------------------------------------------------------------------------
(* The inductive invariant *)

\* What the client may write about cover d
Wires(d) == {Encode(c) : c \in Asks(d)}

\* The kinds of what there is, and the commands that are on their way
KindsInv ==
    /\ dev \in Devices /\ sent \in 0..MaxCommands(dev)
    /\ meant \in Seq(Asks(dev)) /\ requests \in Seq(Wires(dev))
    /\ Len(requests) = Len(meant)
    /\ \A i \in 1..Len(meant) : requests[i] = Encode(meant[i])
    /\ web \in BOOLEAN /\ pos \in Places
    /\ waiting \in Seq(Movers) /\ goal \in Places \cup {NoPos}
    /\ notify \in BOOLEAN /\ sure \in BOOLEAN /\ underWay \in BOOLEAN /\ calm \in BOOLEAN
    /\ replies \in Seq(Replies(dev))
    /\ shown \in Places /\ prev \in -1..1001 /\ told \in Places
    /\ asked \in Readings(dev)

\* The mover has somewhere to go; once it has reported a leg the cover is at no limit.
InsideInv == goal # NoPos => goal # pos /\ (underWay => 0 < pos /\ pos < 1000)

\* What was told when the movement began stays behind.
SureInv == goal # NoPos /\ sure => Behind(told, pos, goal)

\* The cover has left its rest for nothing but what was asked last.
CalmInv ==
    calm => IF waiting = <<>> THEN goal # NoPos => Behind(told, pos, goal)
            ELSE Len(waiting) = 1 /\ goal = NoPos /\ told = pos

\* Where the cover is going, or will go next
Dest == IF waiting = <<>> THEN goal ELSE waiting[1].to

\* The previous position v is right for what the cover does.
RightWay(v) ==
    /\ goal # NoPos /\ waiting = <<>> /\ underWay /\ sure => NotOther(told, v, pos, goal)
    /\ calm /\ Hinted /\ Dest # NoPos => NotOther(told, v, pos, Dest)

\* Having heard all that was said, the client will show the position that it was told
\* last, and no movement in the wrong direction.
ViewInv ==
    \E v \in -1..1001 : Ends(dev, <<shown, prev>>, replies, <<told, v>>) /\ RightWay(v)

IInv == KindsInv /\ InsideInv /\ SureInv /\ CalmInv /\ ViewInv

\* NoPos is not a position.
LEMMA NoPosIsNone == NoPos \notin Places
  BY DialogueAssumption DEF Places

\* At first.
LEMMA InitIInv ==
    ASSUME Init
    PROVE  IInv
  <1>1. dev \in Devices /\ PosRequest(dev) \in Asks(dev) /\ MaxCommands(dev) \in Nat
    BY DialogueAssumption, ZenonT(60) DEF Init, Asks
  <1>2. meant \in Seq(Asks(dev)) /\ requests \in Seq(Wires(dev))
    <2>1. Encode(PosRequest(dev)) \in Wires(dev)
      BY <1>1 DEF Wires
    <2> QED BY <1>1, <2>1 DEF Init
  <1>3. /\ Len(requests) = Len(meant)
        /\ \A i \in 1..Len(meant) : requests[i] = Encode(meant[i])
    <2>1. Len(meant) = 1 /\ Len(requests) = 1
      BY DEF Init
    <2>2. requests[1] = Encode(meant[1])
      BY DEF Init
    <2> QED BY <2>1, <2>2
  <1>4. asked \in Readings(dev)
    BY DEF Init, Readings
  <1>5. pos \in Places /\ shown \in Places /\ told \in Places
    <2>1. pos \in Places
      BY DialogueAssumption, ZenonT(60) DEF Init, Places
    <2>2. shown \in Places /\ told \in Places
      BY DEF Init, Places
    <2> QED BY <2>1, <2>2
  <1>6. KindsInv
    <2>1. sent \in 0..MaxCommands(dev)
      BY <1>1 DEF Init
    <2>2. waiting \in Seq(Movers) /\ replies \in Seq(Replies(dev))
      BY DEF Init
    <2>3. /\ goal \in Places \cup {NoPos} /\ web \in BOOLEAN /\ notify \in BOOLEAN
          /\ sure \in BOOLEAN /\ underWay \in BOOLEAN /\ calm \in BOOLEAN
      BY DEF Init
    <2>4. prev \in -1..1001
      BY DEF Init
    <2> QED BY <1>1, <1>2, <1>3, <1>4, <1>5, <2>1, <2>2, <2>3, <2>4 DEF KindsInv
  <1>7. InsideInv /\ SureInv /\ CalmInv
    BY DEF Init, InsideInv, SureInv, CalmInv
  <1>8. ViewInv
    <2>1. prev \in -1..1001 /\ told = shown /\ replies = <<>>
      BY DEF Init
    <2>2. <<shown, prev>> \in States /\ <<told, prev>> = <<shown, prev>>
      BY <1>5, <2>1 DEF States
    <2>3. Ends(dev, <<shown, prev>>, replies, <<told, prev>>)
      BY <2>1, <2>2, EndsEmpty
    <2>4. RightWay(prev)
      BY DEF Init, RightWay
    <2> QED BY <2>1, <2>3, <2>4 DEF ViewInv
  <1> QED BY <1>6, <1>7, <1>8 DEF IInv

\* What the controller reads was meant.
LEMMA HandleReads ==
    ASSUME KindsInv, requests # <<>>
    PROVE  /\ Read(Head(requests), web, Devices) \in Readings(dev)
           /\ meant # <<>>
  <1>1. Len(requests) # 0 /\ Len(requests) \in Nat /\ Head(requests) = requests[1]
    BY DEF KindsInv
  <1>2. Head(requests) = Encode(meant[1]) /\ meant[1] \in Asks(dev) /\ meant # <<>>
    BY <1>1 DEF KindsInv
  <1>3. \/ Read(Head(requests), web, Devices) = Rejected
        \/ Read(Head(requests), web, Devices) \in Readings(dev)
    BY <1>2, ReadAsMeant DEF KindsInv
  <1> QED BY <1>2, <1>3 DEF Readings

\* One more reply or report is on its way, after which the client shows t2, and v2 before.
LEMMA SaidMore ==
    ASSUME KindsInv, NEW v \in -1..1001, Ends(dev, <<shown, prev>>, replies, <<told, v>>),
           NEW line \in Replies(dev), NEW t2 \in Places, NEW v2 \in -1..1001,
           After(dev, <<told, v>>, line) = <<t2, v2>>
    PROVE  /\ Append(replies, line) \in Seq(Replies(dev))
           /\ Ends(dev, <<shown, prev>>, Append(replies, line), <<t2, v2>>)
  <1>1. <<t2, v2>> \in States
    BY DEF States
  <1>2. replies \in Seq(Replies(dev))
    BY DEF KindsInv
  <1>3. Append(replies, line) \in Seq(Replies(dev))
    BY <1>2, AppendProperties
  <1> QED BY <1>1, <1>2, <1>3, EndsAppend

\* The client asks for something.
LEMMA SendKeeps ==
    ASSUME IInv, NEW c \in Commands(dev), Send(c)
    PROVE  IInv'
  <1>1. c \in Asks(dev) /\ Encode(c) \in Wires(dev)
    BY CommandsAreAsks DEF IInv, KindsInv, Wires
  <1>2. sent' \in 0..MaxCommands(dev)
    <2>1. MaxCommands(dev) \in Nat
      BY DialogueAssumption, ZenonT(60) DEF IInv, KindsInv
    <2>2. sent \in 0..MaxCommands(dev)
      BY DEF IInv, KindsInv
    <2> QED BY <2>1, <2>2 DEF Send
  <1>3. /\ meant' \in Seq(Asks(dev)) /\ Len(meant') = Len(meant) + 1
        /\ meant'[Len(meant) + 1] = c /\ \A i \in 1..Len(meant) : meant'[i] = meant[i]
    BY <1>1, AppendProperties DEF IInv, KindsInv, Send
  <1>4. /\ requests' \in Seq(Wires(dev)) /\ Len(requests') = Len(requests) + 1
        /\ requests'[Len(requests) + 1] = Encode(c)
        /\ \A i \in 1..Len(requests) : requests'[i] = requests[i]
    BY <1>1, AppendProperties DEF IInv, KindsInv, Send
  <1>5. ASSUME NEW i \in 1..Len(meant')
        PROVE  requests'[i] = Encode(meant'[i])
    <2>1. Len(meant) \in Nat /\ Len(requests) = Len(meant)
      BY DEF IInv, KindsInv
    <2>2. CASE i = Len(meant) + 1
      BY <1>3, <1>4, <2>1, <2>2
    <2>3. CASE i \in 1..Len(meant)
      BY <1>3, <1>4, <2>1, <2>3 DEF IInv, KindsInv
    <2> QED BY <1>3, <2>1, <2>2, <2>3
  <1>6. UNCHANGED <<dev, web, waiting, coverVars, replies, clientVars, told, heardVars>>
    BY DEF Send
  <1>7. KindsInv'
    <2>1. Len(requests') = Len(meant')
      BY <1>3, <1>4 DEF IInv, KindsInv
    <2> QED BY <1>2, <1>3, <1>4, <1>5, <1>6, <2>1
            DEF IInv, KindsInv, coverVars, clientVars, heardVars
  <1>8. (InsideInv /\ SureInv /\ CalmInv)'
    BY <1>6 DEF IInv, InsideInv, SureInv, CalmInv, coverVars, heardVars
  <1>9. ViewInv'
    BY <1>6, ZenonT(60) DEF IInv, ViewInv, RightWay, Hinted, Dest, coverVars, clientVars, heardVars
  <1> QED BY <1>7, <1>8, <1>9 DEF IInv

\* The client hears a line.
LEMMA HearKeeps ==
    ASSUME IInv, Hear
    PROVE  IInv'
  <1>1. PICK v \in -1..1001 :
            Ends(dev, <<shown, prev>>, replies, <<told, v>>) /\ RightWay(v)
    BY DEF IInv, ViewInv
  <1>2. /\ replies # <<>> /\ replies' = Tail(replies)
        /\ UNCHANGED <<dev, wireVars, web, waiting, coverVars, told, heardVars>>
    BY DEF Hear
  <1>3. replies \in Seq(Replies(dev)) /\ replies' \in Seq(Replies(dev))
    <2>1. replies \in Seq(Replies(dev))
      BY DEF IInv, KindsInv
    <2> QED BY <1>2, <2>1, HeadTailProperties
  <1>4. <<shown', prev'>> \in States /\ Ends(dev, <<shown', prev'>>, replies', <<told, v>>)
    BY <1>1, <1>2, <1>3, HearIsAfter, EndsTail, SMTT(40)
  <1>5. shown' \in Places /\ prev' \in -1..1001
    BY <1>4 DEF States
  <1>6. KindsInv'
    BY <1>2, <1>3, <1>5 DEF IInv, KindsInv, wireVars, coverVars, heardVars
  <1>7. (InsideInv /\ SureInv /\ CalmInv)'
    BY <1>2 DEF IInv, InsideInv, SureInv, CalmInv, coverVars, heardVars
  <1>8. ViewInv'
    <2>1. RightWay(v)'
      BY <1>1, <1>2 DEF RightWay, Hinted, Dest, coverVars, heardVars
    <2>2. Ends(dev', <<shown', prev'>>, replies', <<told', v>>)
      BY <1>2, <1>4
    <2> QED BY <2>1, <2>2, ZenonT(60) DEF ViewInv
  <1> QED BY <1>6, <1>7, <1>8 DEF IInv

\* The notifier sets the cover idle.
LEMMA SetIdleKeeps ==
    ASSUME IInv, SetIdle
    PROVE  IInv'
  <1>1. PICK v \in -1..1001 :
            Ends(dev, <<shown, prev>>, replies, <<told, v>>) /\ RightWay(v)
    BY DEF IInv, ViewInv
  <1>2. /\ replies = <<>> /\ prev' = shown /\ shown' = shown /\ replies' = replies
        /\ UNCHANGED <<dev, wireVars, web, waiting, coverVars, told, heardVars>>
    BY DEF SetIdle
  <1>3. shown \in Places /\ shown \in -1..1001 /\ prev \in -1..1001
    BY DEF IInv, KindsInv, Places
  <1>4. told = shown
    <2>1. <<shown, prev>> \in States
      BY <1>3 DEF States
    <2>2. <<told, v>> = <<shown, prev>>
      BY <1>1, <1>2, <2>1, EndsEmpty
    <2> QED BY <2>2
  <1>5. KindsInv'
    BY <1>2, <1>3 DEF IInv, KindsInv, wireVars, coverVars, heardVars
  <1>6. (InsideInv /\ SureInv /\ CalmInv)'
    BY <1>2 DEF IInv, InsideInv, SureInv, CalmInv, coverVars, heardVars
  <1>7. ViewInv'
    <2>1. <<shown, shown>> \in States
      BY <1>3 DEF States
    <2>2. Ends(dev', <<shown', prev'>>, replies', <<told', shown'>>)
      BY <1>2, <1>4, <2>1, EndsEmpty
    <2>3. told' = shown' /\ shown' \in -1..1001
      BY <1>2, <1>3, <1>4
    <2>4. RightWay(shown)'
      BY <2>3 DEF RightWay, NotOther
    <2> QED BY <2>2, <2>3, <2>4, ZenonT(60) DEF ViewInv
  <1> QED BY <1>5, <1>6, <1>7 DEF IInv

\* A report tells where the cover is, and shows a movement away from what was told before.
LEMMA ReportTells ==
    ASSUME KindsInv, Report, pos' \in Places, dev' = dev, UNCHANGED clientVars,
           NEW v \in -1..1001, Ends(dev, <<shown, prev>>, replies, <<told, v>>)
    PROVE  /\ told' = pos' /\ told \in -1..1001
           /\ replies' \in Seq(Replies(dev'))
           /\ Ends(dev', <<shown', prev'>>, replies', <<told', told>>)
  <1> DEFINE line == PosLine(dev, pos')
  <1>1. told' = pos' /\ replies' = Append(replies, line)
    BY DEF Report
  <1>2. told \in Places /\ dev \in Devices
    BY DEF KindsInv
  <1>3. told \in -1..1001
    BY <1>2 DEF Places
  <1>4. After(dev, <<told, v>>, line) = <<pos', told>> /\ line \in Replies(dev)
    BY <1>2, AfterReport
  <1> HIDE DEF line
  <1>5. PICK p \in Places, u \in -1..1001, l \in Replies(dev) :
            p = pos' /\ u = told /\ l = line
    BY <1>3, <1>4
  <1>6. After(dev, <<told, v>>, l) = <<p, u>>
    BY <1>4, <1>5
  <1>7. /\ Append(replies, l) \in Seq(Replies(dev))
        /\ Ends(dev, <<shown, prev>>, Append(replies, l), <<p, u>>)
    BY <1>6, SaidMore, ZenonT(60)
  <1>8. shown' = shown /\ prev' = prev
    BY DEF clientVars
  <1> QED BY <1>1, <1>3, <1>5, <1>7, <1>8

\* The next request becomes the mover.
LEMMA StartKeeps ==
    ASSUME IInv, Start
    PROVE  IInv'
  <1>1. PICK v \in -1..1001 :
            Ends(dev, <<shown, prev>>, replies, <<told, v>>) /\ RightWay(v)
    BY DEF IInv, ViewInv
  <1>2. KindsInv /\ InsideInv /\ SureInv /\ CalmInv
    BY DEF IInv
  <1>3. /\ waiting # <<>> /\ waiting' = Tail(waiting)
        /\ goal' = IF Head(waiting).to = pos THEN NoPos ELSE Head(waiting).to
        /\ notify' = Head(waiting).notify
        /\ pos' = pos /\ sure' = (told' = pos) /\ underWay' = FALSE
        /\ UNCHANGED <<dev, wireVars, web, clientVars, heardVars>>
    BY DEF Start
  <1>4. /\ Head(waiting) \in Movers /\ Head(waiting) = waiting[1]
        /\ Tail(waiting) \in Seq(Movers) /\ Len(Tail(waiting)) = Len(waiting) - 1
        /\ Len(waiting) \in Nat
    BY <1>2, <1>3, HeadTailProperties, LenProperties, ElementOfSeq DEF KindsInv
  <1>5. goal' \in Places \cup {NoPos} /\ notify' \in BOOLEAN
    BY <1>3, <1>4 DEF Movers
  <1>6. IF (goal # NoPos /\ notify) /\ web THEN Report ELSE UNCHANGED <<replies, told>>
    BY DEF Start, ReportIf
  <1>7. pos \in Places /\ pos' \in Places /\ dev' = dev /\ UNCHANGED clientVars
    BY <1>2, <1>3 DEF KindsInv
  <1>8. replies' \in Seq(Replies(dev')) /\ told' \in Places
    <2>1. CASE Report
      BY <1>1, <1>2, <1>7, <2>1, ReportTells, ZenonT(60)
    <2>2. CASE UNCHANGED <<replies, told>>
      BY <1>2, <1>7, <2>2 DEF KindsInv
    <2> QED BY <1>6, <2>1, <2>2
  <1>9. KindsInv'
    <2>1. sure' \in BOOLEAN /\ underWay' \in BOOLEAN
      BY <1>3
    <2> QED BY <1>2, <1>3, <1>4, <1>5, <1>7, <1>8, <2>1
            DEF KindsInv, wireVars, clientVars, heardVars
  <1>10. InsideInv'
    BY <1>3 DEF InsideInv
  <1>11. SureInv'
    <2>1. sure' => told' = pos'
      BY <1>3
    <2> QED BY <1>7, <2>1 DEF SureInv, Behind, Places
  <1>12. calm' => /\ calm /\ told = pos /\ goal = NoPos /\ waiting' = <<>>
                  /\ UNCHANGED <<replies, told>>
    <2>1. ASSUME calm
          PROVE  /\ told = pos /\ goal = NoPos /\ waiting' = <<>>
                 /\ UNCHANGED <<replies, told>>
      <3>1. Len(waiting) = 1 /\ goal = NoPos /\ told = pos
        BY <1>2, <1>3, <2>1 DEF CalmInv
      <3>2. Tail(waiting) = <<>>
        <4>1. Len(Tail(waiting)) = 0 /\ Tail(waiting) \in Seq(Movers)
          BY <1>4, <3>1
        <4> QED BY <4>1, EmptySeq
      <3> QED BY <1>3, <1>6, <3>1, <3>2
    <2> QED BY <1>3, <2>1 DEF heardVars
  <1>13. CalmInv'
    <2>1. calm' => told' = pos' /\ waiting' = <<>>
      BY <1>3, <1>12
    <2> QED BY <1>7, <2>1 DEF CalmInv, Behind, Places
  <1>14. ViewInv'
    <2>1. CASE Report
      <3>1. /\ told \in -1..1001
            /\ Ends(dev', <<shown', prev'>>, replies', <<told', told>>)
        BY <1>1, <1>2, <1>7, <2>1, ReportTells, ZenonT(60)
      <3>2. PICK u \in -1..1001 : u = told
        BY <3>1
      <3>3. RightWay(u)'
        <4>1. ~calm'
          <5>1. ASSUME calm'
                PROVE  FALSE
            <6>1. replies' = replies /\ replies' = Append(replies, PosLine(dev, pos'))
              BY <1>12, <2>1, <5>1 DEF Report
            <6>2. replies \in Seq(Replies(dev)) /\ PosLine(dev, pos') \in Replies(dev)
              BY <1>2, <1>7, AfterReport, ZenonT(60) DEF KindsInv
            <6> HIDE DEF Report
            <6>3. Len(replies') = Len(replies) + 1 /\ Len(replies) \in Nat
              BY <6>1, <6>2, AppendProperties, LenProperties
            <6> QED BY <6>1, <6>3
          <5> QED BY <5>1
        <4> QED BY <1>3, <4>1 DEF RightWay
      <3> QED BY <3>1, <3>2, <3>3, ZenonT(60) DEF ViewInv
    <2>2. CASE UNCHANGED <<replies, told>>
      <3>1. Ends(dev', <<shown', prev'>>, replies', <<told', v>>)
        BY <1>1, <1>7, <2>2 DEF clientVars
      <3>2. RightWay(v)'
        <4>1. ASSUME calm', Hinted', Dest' # NoPos
              PROVE  NotOther(told', v, pos', Dest')
          <5>1. calm /\ Hinted /\ waiting' = <<>> /\ Dest' = goal'
            BY <1>3, <1>12, <4>1 DEF heardVars, Hinted, Dest
          <5>2. Dest = waiting[1].to /\ goal' = Dest
            BY <1>3, <1>4, <4>1, <5>1 DEF Dest
          <5>3. Dest # NoPos
            BY <4>1, <5>1, <5>2
          <5>4. NotOther(told, v, pos, Dest)
            BY <1>1, <5>1, <5>3 DEF RightWay
          <5> QED BY <1>3, <2>2, <5>1, <5>2, <5>4
        <4> QED BY <1>3, <4>1 DEF RightWay
      <3> QED BY <3>1, <3>2 DEF ViewInv
    <2> QED BY <1>6, <2>1, <2>2
  <1> QED BY <1>9, <1>10, <1>11, <1>13, <1>14 DEF IInv

\* The mover ends a leg: the cover is nearer to the goal.
LEMMA LegNearer ==
    ASSUME KindsInv, InsideInv, Leg
    PROVE  /\ pos' \in Places /\ goal \in Places
           /\ \/ goal > pos /\ pos' > pos /\ pos' <= goal
              \/ goal < pos /\ pos' < pos /\ pos' >= goal
           /\ goal' = IF pos' = goal THEN NoPos ELSE goal
  <1>1. /\ goal # NoPos /\ goal # pos
        /\ pos' = IF goal > pos THEN IF pos + LegSize < goal THEN pos + LegSize ELSE goal
                  ELSE IF pos - LegSize > goal THEN pos - LegSize ELSE goal
        /\ goal' = IF pos' = goal THEN NoPos ELSE goal
    BY DEF Leg, InsideInv
  <1>2. pos \in 0..1000 /\ goal \in 0..1000
    BY <1>1 DEF KindsInv, Places
  <1>3. LegSize \in Nat \ {0}
    BY DialogueAssumption
  <1>4. \/ goal > pos /\ pos' > pos /\ pos' <= goal
        \/ goal < pos /\ pos' < pos /\ pos' >= goal
    BY <1>1, <1>2, <1>3
  <1>5. pos' \in 0..1000
    BY <1>1, <1>2, <1>3
  <1> QED BY <1>1, <1>2, <1>4, <1>5 DEF Places

\* The mover ends a leg.
LEMMA LegKeeps ==
    ASSUME IInv, Leg
    PROVE  IInv'
  <1>1. PICK v \in -1..1001 :
            Ends(dev, <<shown, prev>>, replies, <<told, v>>) /\ RightWay(v)
    BY DEF IInv, ViewInv
  <1>2. KindsInv /\ InsideInv /\ SureInv /\ CalmInv
    BY DEF IInv
  <1>3. /\ pos' \in Places /\ goal \in Places
        /\ \/ goal > pos /\ pos' > pos /\ pos' <= goal
           \/ goal < pos /\ pos' < pos /\ pos' >= goal
        /\ goal' = IF pos' = goal THEN NoPos ELSE goal
    BY <1>2, LegNearer
  <1>4. /\ goal # NoPos /\ underWay' = (notify /\ web)
        /\ UNCHANGED <<dev, wireVars, web, waiting, notify, sure, clientVars, heardVars>>
    BY DEF Leg
  <1>5. IF notify /\ web THEN Report ELSE UNCHANGED <<replies, told>>
    BY DEF Leg, ReportIf
  <1>6. dev' = dev /\ UNCHANGED clientVars
    BY <1>4
  <1>7. replies' \in Seq(Replies(dev')) /\ told' \in Places /\ (Report => told' = pos')
    <2>1. CASE Report
      BY <1>1, <1>2, <1>3, <1>6, <2>1, ReportTells, ZenonT(60)
    <2>2. CASE UNCHANGED <<replies, told>> /\ ~Report
      BY <1>2, <1>6, <2>2 DEF KindsInv
    <2>3. CASE UNCHANGED <<replies, told>> /\ Report
      BY <2>1, <2>3
    <2> QED BY <1>5, <2>1, <2>2, <2>3, SMTT(40)
  <1>8. KindsInv'
    <2>1. underWay' \in BOOLEAN /\ notify' \in BOOLEAN
      BY <1>2, <1>4 DEF KindsInv
    <2> QED BY <1>2, <1>3, <1>4, <1>7, <2>1 DEF KindsInv, wireVars, clientVars, heardVars
  <1>9. pos \in Places /\ told \in Places /\ NoPos \notin Places
    BY <1>2, NoPosIsNone DEF KindsInv
  <1>10. InsideInv'
    <2>1. goal' # NoPos => goal' = goal /\ goal # pos'
      BY <1>3
    <2>2. goal # pos' => 0 < pos' /\ pos' < 1000
      BY <1>3, <1>9, SMTT(40) DEF Places
    <2> QED BY <2>1, <2>2 DEF InsideInv
  <1>11. ASSUME goal' # NoPos, Behind(told, pos, goal)
         PROVE  /\ goal' = goal /\ Behind(told', pos', goal')
                /\ NotOther(pos', told, pos', goal')
    <2>1. goal' = goal /\ goal # pos'
      BY <1>3, <1>11
    <2>2. told' = told \/ told' = pos'
      BY <1>5, <1>7
    <2>3. Behind(told, pos', goal) /\ Behind(pos', pos', goal)
      BY <1>3, <1>9, <1>11 DEF Behind, Places
    <2>4. NotOther(pos', told, pos', goal)
      BY <1>3, <1>9, <1>11 DEF Behind, NotOther, Places
    <2> QED BY <2>1, <2>2, <2>3, <2>4
  <1>12. SureInv'
    <2>1. ASSUME goal' # NoPos, sure'
          PROVE  Behind(told', pos', goal')
      <3>1. Behind(told, pos, goal)
        BY <1>2, <1>4, <2>1 DEF SureInv
      <3> QED BY <1>11, <2>1, <3>1
    <2> QED BY <2>1 DEF SureInv
  <1>13. calm' => waiting = <<>> /\ waiting' = <<>> /\ Behind(told, pos, goal)
    BY <1>2, <1>4 DEF CalmInv, heardVars
  <1>14. CalmInv'
    BY <1>11, <1>13 DEF CalmInv
  <1>15. ViewInv'
    <2>1. CASE notify /\ web
      <3>1. /\ told' = pos' /\ told \in -1..1001
            /\ Ends(dev', <<shown', prev'>>, replies', <<told', told>>)
        BY <1>1, <1>2, <1>3, <1>5, <1>6, <2>1, ReportTells, ZenonT(60)
      <3>2. PICK u \in -1..1001 : u = told
        BY <3>1
      <3>3. RightWay(u)'
        <4>1. ASSUME goal' # NoPos, waiting' = <<>>, sure'
              PROVE  NotOther(told', u, pos', goal')
          <5>1. Behind(told, pos, goal)
            BY <1>2, <1>4, <4>1 DEF SureInv
          <5> QED BY <1>11, <3>1, <3>2, <4>1, <5>1
        <4>2. ASSUME calm', Dest' # NoPos
              PROVE  NotOther(told', u, pos', Dest')
          <5>1. Dest' = goal' /\ Behind(told, pos, goal)
            BY <1>13, <4>2 DEF Dest
          <5> QED BY <1>11, <3>1, <3>2, <4>2, <5>1
        <4> QED BY <4>1, <4>2 DEF RightWay
      <3> QED BY <3>1, <3>2, <3>3, ZenonT(60) DEF ViewInv
    <2>2. CASE ~(notify /\ web)
      <3>1. UNCHANGED <<replies, told>> /\ ~underWay'
        BY <1>4, <1>5, <2>2
      <3>2. Ends(dev', <<shown', prev'>>, replies', <<told', v>>)
        BY <1>1, <1>6, <3>1 DEF clientVars
      <3>3. RightWay(v)'
        <4>1. ASSUME calm', Hinted', Dest' # NoPos
              PROVE  NotOther(told', v, pos', Dest')
          <5>1. Dest' = goal' /\ goal' = goal /\ Dest = goal /\ Hinted /\ calm
            BY <1>3, <1>4, <1>13, <4>1 DEF Dest, Hinted, heardVars
          <5>2. NotOther(told, v, pos, goal)
            BY <1>1, <1>4, <5>1 DEF RightWay
          <5>3. NotOther(told, v, pos', goal)
            BY <1>3, <1>9, <5>2 DEF NotOther, Places
          <5> QED BY <3>1, <5>1, <5>3
        <4> QED BY <3>1, <4>1 DEF RightWay
      <3> QED BY <3>2, <3>3 DEF ViewInv
    <2> QED BY <2>1, <2>2
  <1> QED BY <1>8, <1>10, <1>12, <1>14, <1>15 DEF IInv

\* The controller handles a line that it reads as r: what it moves, and what it says.
HandlesAs(r) ==
    /\ replies' = Append(replies, Reply(r, pos))
    /\ told' = IF r.op = "pos_request" THEN pos ELSE told
    /\ waiting' = waiting \o Movement(r)
    /\ IF Movement(r) = Nothing
       THEN asked' = asked /\ calm' = (calm /\ ~IsStep(r))
       ELSE /\ asked' = r
            /\ calm' = (goal = NoPos /\ waiting = <<>> /\ told = pos)
    /\ UNCHANGED <<dev, coverVars, clientVars>>

\* Nothing is to be moved.
LEMMA HandleIdly ==
    ASSUME IInv, NEW r \in Readings(dev), HandlesAs(r), Movement(r) = Nothing,
           NEW v \in -1..1001, RightWay(v), NEW w \in -1..1001, ShownAfter(r, told, v, w)
    PROVE  /\ waiting' = waiting /\ asked' = asked /\ calm' \in BOOLEAN
           /\ (SureInv /\ CalmInv)' /\ RightWay(w)'
  <1>1. KindsInv /\ InsideInv /\ SureInv /\ CalmInv
    BY DEF IInv
  <1>2. /\ pos' = pos /\ goal' = goal /\ sure' = sure /\ underWay' = underWay
        /\ asked' = asked /\ (calm' => calm /\ ~IsStep(r)) /\ calm' \in BOOLEAN
    BY <1>1, ZenonT(60) DEF HandlesAs, coverVars, KindsInv
  <1>3. waiting' = waiting
    BY <1>1, ConcatEmptySeq DEF HandlesAs, KindsInv, Nothing
  <1>4. pos \in Places /\ told \in Places /\ NoPos \notin Places
        /\ goal \in Places \cup {NoPos}
    BY <1>1, NoPosIsNone DEF KindsInv
  <1>5. CASE r.op = "pos_request"
    <2>1. told' = pos /\ w = told
      BY <1>5 DEF HandlesAs, ShownAfter
    <2>2. SureInv' /\ CalmInv'
      <3>1. goal # NoPos => Behind(pos, pos, goal)
        BY <1>4 DEF Behind, Places
      <3> QED BY <1>1, <1>2, <1>3, <2>1, <3>1 DEF SureInv, CalmInv
    <2>3. ASSUME NEW g \in Places, Behind(told, pos, g)
          PROVE  NotOther(pos, told, pos, g)
      BY <1>4, <2>3 DEF Behind, NotOther, Places
    <2>4. ASSUME goal # NoPos, waiting = <<>>, sure
          PROVE  NotOther(pos, told, pos, goal)
      BY <1>1, <1>4, <2>3, <2>4 DEF SureInv
    <2>5. ASSUME calm, Dest # NoPos
          PROVE  NotOther(pos, told, pos, Dest)
      <3>1. CASE waiting = <<>>
        <4>1. Dest = goal /\ Behind(told, pos, goal)
          BY <1>1, <2>5, <3>1 DEF Dest, CalmInv
        <4> QED BY <1>4, <2>3, <2>5, <4>1
      <3>2. CASE waiting # <<>>
        <4>1. told = pos
          BY <1>1, <2>5, <3>2 DEF CalmInv
        <4> QED BY <1>4, <4>1 DEF NotOther, Places
      <3> QED BY <3>1, <3>2
    <2>6. Dest' = Dest /\ Hinted' = Hinted
      BY <1>2, <1>3 DEF Dest, Hinted
    <2>7. RightWay(w)'
      BY <1>2, <1>3, <2>1, <2>4, <2>5, <2>6 DEF RightWay
    <2> QED BY <1>2, <1>3, <2>2, <2>7
  <1>6. CASE r.op # "pos_request"
    <2>1. /\ told' = told
          /\ IF IsStep(r) THEN pos \in {0, 1000} ELSE w = v
      BY <1>6 DEF HandlesAs, ShownAfter
    <2>2. SureInv' /\ CalmInv'
      BY <1>1, <1>2, <1>3, <2>1 DEF SureInv, CalmInv
    <2>3. Dest' = Dest /\ Hinted' = Hinted
      BY <1>2, <1>3 DEF Dest, Hinted
    <2>4. RightWay(w)'
      <3>1. CASE IsStep(r)
        <4>1. ~calm'
          BY <1>2, <3>1
        <4>2. goal # NoPos => ~underWay
          BY <1>1, <2>1, <3>1 DEF InsideInv
        <4> QED BY <1>2, <4>1, <4>2 DEF RightWay
      <3>2. CASE ~IsStep(r)
        BY <1>2, <1>3, <2>1, <2>3, <3>2 DEF RightWay
      <3> QED BY <3>1, <3>2
    <2> QED BY <1>2, <1>3, <2>2, <2>4
  <1> QED BY <1>5, <1>6

\* Something is to be moved.
LEMMA HandleMoving ==
    ASSUME IInv, NEW r \in Readings(dev), HandlesAs(r), Movement(r) # Nothing,
           NEW v \in -1..1001, RightWay(v), NEW w \in -1..1001, ShownAfter(r, told, v, w)
    PROVE  /\ waiting' \in Seq(Movers) /\ asked' = r /\ calm' \in BOOLEAN
           /\ (SureInv /\ CalmInv)' /\ RightWay(w)'
  <1>1. KindsInv /\ SureInv
    BY DEF IInv
  <1>2. PICK m \in Movers :
            /\ Movement(r) = <<m>>
            /\ \/ told # pos \/ m.to = NoPos
               \/ r.op = "simple" /\ r.name = "MOVE_POS_1"
               \/ NotOther(told, w, pos, m.to)
    BY DEF ShownAfter
  <1>3. /\ pos' = pos /\ goal' = goal /\ sure' = sure /\ told' = told /\ asked' = r
        /\ calm' = (goal = NoPos /\ waiting = <<>> /\ told = pos)
    BY DEF HandlesAs, coverVars, ShownAfter
  <1>4. waiting' = Append(waiting, m) /\ waiting \in Seq(Movers)
    <2>1. waiting \in Seq(Movers)
      BY <1>1 DEF KindsInv
    <2>2. waiting' = waiting \o <<m>>
      BY <1>2 DEF HandlesAs
    <2> QED BY <2>1, <2>2, AppendIsConcat
  <1>5. /\ waiting' \in Seq(Movers) /\ waiting' # <<>> /\ Len(waiting') = Len(waiting) + 1
        /\ waiting'[Len(waiting) + 1] = m
    BY <1>4, AppendProperties
  <1>6. calm' \in BOOLEAN
    BY <1>3
  <1>7. SureInv'
    BY <1>1, <1>3 DEF SureInv
  <1>8. calm' => goal = NoPos /\ told = pos /\ Len(waiting') = 1 /\ waiting'[1] = m
    <2>1. ASSUME waiting = <<>>
          PROVE  Len(waiting') = 1 /\ waiting'[1] = m
      <3>1. Len(waiting) = 0
        BY <2>1
      <3> QED BY <1>5, <3>1
    <2> QED BY <1>3, <2>1, ZenonT(60)
  <1>9. CalmInv'
    BY <1>3, <1>5, <1>8 DEF CalmInv
  <1>10. RightWay(w)'
    <2>1. ASSUME calm', Hinted', Dest' # NoPos
          PROVE  NotOther(told', w, pos', Dest')
      <3>1. Dest' = m.to /\ told = pos
        BY <1>5, <1>8, <2>1 DEF Dest
      <3>2. ~(r.op = "simple" /\ r.name = "MOVE_POS_1")
        BY <1>3, <2>1 DEF Hinted
      <3> QED BY <1>2, <1>3, <2>1, <3>1, <3>2
    <2> QED BY <1>5, <2>1 DEF RightWay
  <1> QED BY <1>3, <1>5, <1>6, <1>7, <1>9, <1>10

\* The controller handles a line.
LEMMA HandleKeeps ==
    ASSUME IInv, Handle
    PROVE  IInv'
  <1>1. KindsInv
    BY DEF IInv
  <1>2. PICK v \in -1..1001 :
            Ends(dev, <<shown, prev>>, replies, <<told, v>>) /\ RightWay(v)
    BY DEF IInv, ViewInv
  <1>3. PICK r \in Readings(dev) : r = Read(Head(requests), web, Devices)
    BY <1>1, HandleReads DEF Handle
  <1>4. HandlesAs(r)
    BY <1>3 DEF Handle, HandlesAs
  <1>5. /\ requests # <<>> /\ requests' = Tail(requests) /\ meant' = Tail(meant)
        /\ web' \in BOOLEAN /\ UNCHANGED <<dev, sent, coverVars, clientVars>>
    BY <1>1 DEF Handle, KindsInv
  <1>6. /\ meant' \in Seq(Asks(dev)) /\ requests' \in Seq(Wires(dev))
        /\ Len(requests') = Len(meant')
        /\ \A i \in 1..Len(meant') : requests'[i] = Encode(meant'[i])
    <2>1. /\ meant # <<>> /\ meant \in Seq(Asks(dev)) /\ requests \in Seq(Wires(dev))
          /\ Len(requests) = Len(meant)
          /\ \A i \in 1..Len(meant) : requests[i] = Encode(meant[i])
      BY <1>1, <1>5, HandleReads DEF KindsInv
    <2>2. /\ meant' \in Seq(Asks(dev)) /\ Len(meant') = Len(meant) - 1
          /\ \A i \in 1..Len(meant') : meant'[i] = meant[i + 1]
      BY <1>5, <2>1, HeadTailProperties
    <2>3. /\ requests' \in Seq(Wires(dev)) /\ Len(requests') = Len(requests) - 1
          /\ \A i \in 1..Len(requests') : requests'[i] = requests[i + 1]
      BY <1>5, <2>1, HeadTailProperties
    <2>4. Len(meant) \in Nat
      BY <2>1
    <2> QED BY <2>1, <2>2, <2>3, <2>4
  <1>7. dev \in Devices /\ told \in Places /\ pos \in Places
    BY <1>1 DEF KindsInv
  <1>8. Shows(dev, r, told, v)
    BY <1>7, AfterReply, SMTT(40)
  <1>9. PICK w \in -1..1001 :
            /\ After(dev, <<told, v>>, Reply(r, pos))
                   = <<IF r.op = "pos_request" THEN pos ELSE told, w>>
            /\ ShownAfter(r, told, v, w)
    BY <1>8, SMTT(40) DEF Shows
  <1>10. told' \in Places /\ told' = IF r.op = "pos_request" THEN pos ELSE told
    BY <1>4, <1>7 DEF HandlesAs
  <1>11. /\ replies' \in Seq(Replies(dev))
         /\ Ends(dev', <<shown', prev'>>, replies', <<told', w>>)
    <2>1. PICK t \in Places, l \in Replies(dev) : t = told' /\ l = Reply(r, pos)
      BY <1>7, <1>10 DEF Replies
    <2>2. After(dev, <<told, v>>, l) = <<t, w>>
      BY <1>9, <1>10, <2>1
    <2>3. /\ Append(replies, l) \in Seq(Replies(dev))
          /\ Ends(dev, <<shown, prev>>, Append(replies, l), <<t, w>>)
      BY <1>1, <1>2, <2>2, SaidMore, ZenonT(60)
    <2>4. replies' = Append(replies, l) /\ dev' = dev /\ shown' = shown /\ prev' = prev
      BY <1>4, <2>1 DEF HandlesAs, clientVars
    <2> QED BY <2>1, <2>3, <2>4
  <1>12. /\ waiting' \in Seq(Movers) /\ asked' \in Readings(dev) /\ calm' \in BOOLEAN
         /\ (SureInv /\ CalmInv)' /\ RightWay(w)'
    <2>1. CASE Movement(r) = Nothing
      <3>1. /\ waiting' = waiting /\ asked' = asked /\ calm' \in BOOLEAN
            /\ (SureInv /\ CalmInv)' /\ RightWay(w)'
        BY <1>2, <1>4, <1>9, <2>1, HandleIdly, ZenonT(60)
      <3> QED BY <1>1, <3>1 DEF KindsInv
    <2>2. CASE Movement(r) # Nothing
      <3>1. /\ waiting' \in Seq(Movers) /\ asked' = r /\ calm' \in BOOLEAN
            /\ (SureInv /\ CalmInv)' /\ RightWay(w)'
        BY <1>2, <1>4, <1>9, <2>2, HandleMoving, ZenonT(60)
      <3> QED BY <3>1
    <2> QED BY <2>1, <2>2
  <1>13. KindsInv'
    BY <1>1, <1>5, <1>6, <1>10, <1>11, <1>12 DEF KindsInv, coverVars, clientVars
  <1>14. InsideInv'
    BY <1>5 DEF IInv, InsideInv, coverVars
  <1>15. ViewInv'
    BY <1>11, <1>12, ZenonT(60) DEF ViewInv
  <1> QED BY <1>12, <1>13, <1>14, <1>15 DEF IInv

-----------------------------------------------------------------------------
(* Theorems *)

\* Every step keeps the invariant.
LEMMA NextIInv ==
    ASSUME IInv, [Next]_vars
    PROVE  IInv'
  <1>1. CASE \E c \in Commands(dev) : Send(c)
    BY <1>1, SendKeeps
  <1>2. CASE Handle
    BY <1>2, HandleKeeps
  <1>3. CASE Start
    BY <1>3, StartKeeps
  <1>4. CASE Leg
    BY <1>4, LegKeeps
  <1>5. CASE Hear
    BY <1>5, HearKeeps
  <1>6. CASE SetIdle
    BY <1>6, SetIdleKeeps
  <1>7. CASE UNCHANGED vars
    <2>1. UNCHANGED <<dev, sent, meant, requests, web, pos, waiting, goal, notify, replies,
                      shown, prev, told, sure, underWay, asked, calm>>
      BY <1>7 DEF vars, wireVars, coverVars, clientVars, heardVars
    <2>2. KindsInv'
      BY <2>1 DEF IInv, KindsInv
    <2>3. (InsideInv /\ SureInv /\ CalmInv)'
      BY <2>1 DEF IInv, InsideInv, SureInv, CalmInv
    <2>4. ViewInv'
      BY <2>1, ZenonT(60) DEF IInv, ViewInv, RightWay, Hinted, Dest
    <2> QED BY <2>2, <2>3, <2>4 DEF IInv
  <1> QED BY <1>1, <1>2, <1>3, <1>4, <1>5, <1>6, <1>7 DEF Next

\* IInv is invariant: what the client will show, when it has heard all that is on its way,
\* is what it was told last.
THEOREM Invariant == Spec => []IInv
  <1>1. Init => IInv
    BY InitIInv
  <1>2. IInv /\ [Next]_vars => IInv'
    BY NextIInv
  <1> QED BY <1>1, <1>2, PTL DEF Spec

\* No line is misunderstood: the controller reads each as the command that was meant, and
\* the client decodes each reply and report, as one about its cover if it names one.
THEOREM NoneMisunderstood == Spec => []LinesUnderstood
  <1>1. ASSUME IInv
        PROVE  UnderstoodAsMeant
    <2>1. ASSUME NEW i \in DOMAIN requests
          PROVE  Read(requests[i], TRUE, Devices) = Understanding(meant[i])
      <3>1. i \in 1..Len(meant) /\ meant[i] \in Asks(dev) /\ dev \in Devices
            /\ requests[i] = Encode(meant[i])
        BY <1>1, <2>1 DEF IInv, KindsInv
      <3> QED BY <3>1, ReadAsMeant
    <2> QED BY <2>1 DEF UnderstoodAsMeant
  <1>2. ASSUME IInv
        PROVE  RepliesDecode
    <2>1. ASSUME NEW i \in DOMAIN replies
          PROVE  /\ Decode(replies[i]) # Invalid
                 /\ Decode(replies[i]).type \notin {"info", "error"}
                       => Decode(replies[i]).dev = dev
      <3>1. replies[i] \in Replies(dev) /\ dev \in Devices
        BY <1>2, <2>1 DEF IInv, KindsInv
      <3>2. PICK r \in Readings(dev), p \in Places : replies[i] = Reply(r, p)
        BY <3>1 DEF Replies
      <3>3. Decode(replies[i]) = Meant(r, p)
        BY <3>1, <3>2, DecodesAsMeant
      <3>4. MeantOf(dev, Meant(r, p))
        BY <3>1, MeantIsOf
      <3> QED BY <3>3, <3>4 DEF MeantOf
    <2> QED BY <2>1 DEF RepliesDecode
  <1>3. IInv => LinesUnderstood
    BY <1>1, <1>2 DEF LinesUnderstood
  <1> QED BY <1>3, Invariant, PTL

\* Every hexadecimal position survives its conversion into a position and back.
THEOREM HexPosReturns == Spec => []HexPosSticks
  <1>1. ASSUME IInv, asked.op = "hex_move"
        PROVE  PosToHex(HexToPos(asked.hex)) = asked.hex
    <2>1. asked \in Readings(dev)
      BY <1>1 DEF IInv, KindsInv
    <2>2. PICK h \in Bytes : asked = HexMove(dev, h)
      BY <1>1, <2>1 DEF Readings, WebOn, WebOff, PosRequest, Rejected, Simple, HexMove, WebMove
    <2>3. asked.hex = h
      BY <2>2 DEF HexMove
    <2> QED BY <2>3, HexAndPos
  <1>2. IInv => HexPosSticks
    BY <1>1 DEF HexPosSticks
  <1> QED BY <1>2, Invariant, PTL

\* The client shows the position that it was told last, once it has heard all that was
\* said, and every variable has its type: no position is ever out of range.
THEOREM ShowsWhatItWasTold == Spec => []DialogueInv
  <1>1. ASSUME IInv
        PROVE  TypeOK
    <2>1. /\ dev \in Devices /\ sent \in 0..MaxCommands(dev) /\ Len(meant) = Len(requests)
          /\ web \in BOOLEAN /\ pos \in 0..1000 /\ goal \in 0..1000 \cup {NoPos}
          /\ shown \in 0..1000 /\ prev \in -1..1001 /\ told \in 0..1000
      BY <1>1 DEF IInv, KindsInv, Places
    <2>2. {notify, sure, underWay, calm} \subseteq BOOLEAN
      BY <1>1 DEF IInv, KindsInv
    <2>3. ASSUME NEW i \in DOMAIN waiting
          PROVE  waiting[i].to \in 0..1000 \cup {NoPos} /\ waiting[i].notify \in BOOLEAN
      <3>1. waiting[i] \in Movers
        BY <1>1, <2>3 DEF IInv, KindsInv
      <3> QED BY <3>1 DEF Movers, Places
    <2> QED BY <2>1, <2>2, <2>3 DEF TypeOK
  <1>2. ASSUME IInv, replies = <<>>
        PROVE  shown = told
    <2>1. PICK v \in -1..1001 : Ends(dev, <<shown, prev>>, replies, <<told, v>>)
      BY <1>2, ZenonT(60) DEF IInv, ViewInv
    <2>2. <<shown, prev>> \in States
      BY <1>2, ZenonT(60) DEF IInv, KindsInv, States
    <2>3. <<told, v>> = <<shown, prev>>
      BY <1>2, <2>1, <2>2, EndsEmpty
    <2> QED BY <2>3
  <1>3. IInv => DialogueInv
    BY <1>1, <1>2 DEF DialogueInv, ShownAsTold
  <1> QED BY <1>3, Invariant, PTL

\* The client never shows a cover going up that goes down, nor one going down that goes up,
\* when it has heard all that was said.
THEOREM NeverShownTheWrongWay == Spec => []NeverWrongWay
  <1>1. ASSUME IInv, Moving, (underWay /\ sure) \/ (Hinted /\ calm)
        PROVE  NotTheOtherWay
    <2>1. goal # NoPos /\ waiting = <<>> /\ replies = <<>> /\ Dest = goal
      BY <1>1 DEF Moving, Dest
    <2>2. PICK v \in -1..1001 :
              Ends(dev, <<shown, prev>>, replies, <<told, v>>) /\ RightWay(v)
      BY <1>1 DEF IInv, ViewInv
    <2>3. <<shown, prev>> \in States
      BY <1>1, ZenonT(60) DEF IInv, KindsInv, States
    <2>4. <<told, v>> = <<shown, prev>>
      BY <2>1, <2>2, <2>3, EndsEmpty
    <2>5. told = shown /\ v = prev
      BY <2>4
    <2>6. NotOther(told, v, pos, goal)
      BY <1>1, <2>1, <2>2 DEF RightWay
    <2> QED BY <2>5, <2>6 DEF NotOther, NotTheOtherWay
  <1>2. IInv => NeverWrongWay
    BY <1>1 DEF NeverWrongWay
  <1> QED BY <1>2, Invariant, PTL
=============================================================================
