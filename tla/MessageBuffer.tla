--------------------------- MODULE MessageBuffer ---------------------------
(***************************************************************************)
(* MessageBuffer (src/nicett6/buffer.py): bytes arrive in chunks that have *)
(* nothing to do with messages, and come out as messages, each with the    *)
(* end of line that ends it.  An end of line of several bytes may itself   *)
(* be cut in two by the end of a chunk.                                    *)
(***************************************************************************)
EXTENDS Integers, SequencesExt

CONSTANTS
    Bytes,      \* the bytes that matter: those of the end of line, and others
    Eol,        \* the end of line, a sequence of bytes
    MaxInput,   \* bound: bytes that arrive
    MaxBytes    \* bound: bytes in a chunk

ASSUME MessageBufferAssumption ==
    /\ Eol \in Seq(Bytes) /\ Eol # <<>>
    /\ MaxInput \in Nat
    /\ MaxBytes \in Nat

VARIABLES
    buf,        \* MessageBuffer.buf
    messages,   \* what append_chunk() has returned, all calls together
    input       \* history: what has arrived

bufferVars == <<buf, messages, input>>

BufferInit == buf = <<>> /\ messages = <<>> /\ input = <<>>

\* bytearray.find(): where Eol begins first in b, from 0; -1 if nowhere
Find(b) ==
    LET begins == {i \in 0..Len(b) - Len(Eol) :
                      SubSeq(b, i + 1, i + Len(Eol)) = Eol}
    IN  IF begins = {} THEN -1 ELSE Min(begins)

\* Up to where the buffer is cut
CutAt(b) == Find(b) + Len(Eol)

\* A round of append_chunk()'s loop cuts a message off, if there is one
Round(s) ==
    IF Find(s.rest) = -1 THEN s
    ELSE [rest |-> SubSeq(s.rest, CutAt(s.rest) + 1, Len(s.rest)),
          out |-> Append(s.out, SubSeq(s.rest, 1, CutAt(s.rest)))]

\* The loop, which cannot take more rounds than there are bytes
Rounds(b) ==
    LET round[n \in 0..Len(b)] ==
            IF n = 0 THEN [rest |-> b, out |-> <<>>] ELSE Round(round[n - 1])
    IN  round

Cut(b) == Rounds(b)[Len(b)]

\* Mutant: what is left of the chunk before is not kept
AppendChunk_Alone(chunk) ==
    LET cut == Cut(chunk)
    IN  buf' = cut.rest /\ messages' = messages \o cut.out

\* append_chunk()
AppendChunk(chunk) ==
    LET cut == Cut(buf \o chunk)
    IN  buf' = cut.rest /\ messages' = messages \o cut.out

ChunkArrives(chunk) ==
    /\ Len(input) + Len(chunk) <= MaxInput
    /\ AppendChunk(chunk)
    /\ input' = input \o chunk

BufferNext == \E n \in 0..MaxBytes : \E chunk \in [1..n -> Bytes] : ChunkArrives(chunk)

BufferSpec == BufferInit /\ [][BufferNext]_bufferVars

-----------------------------------------------------------------------------
(* Properties *)

\* How the bytes were cut into chunks does not matter: the messages and the rest are
\* those of one chunk with all the bytes, and nothing is lost or added.
ChunksDoNotMatter ==
    /\ Cut(input) = [rest |-> buf, out |-> messages]
    /\ FlattenSeq(messages) \o buf = input

\* A message has an end of line, at its end and nowhere else, as Decode requires of
\* it, and the buffer never keeps a whole message back.
OneEolEach ==
    /\ \A i \in DOMAIN messages : Find(messages[i]) = Len(messages[i]) - Len(Eol)
    /\ Find(buf) = -1

BufferInv == ChunksDoNotMatter /\ OneEolEach
=============================================================================
