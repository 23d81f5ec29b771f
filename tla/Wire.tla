---- MODULE Wire ----
(*************************************************************************)
(* How frames are found again in a stream of bytes,                      *)
(* studio-core/src/wire.rs (encode, Decoder::feed).  Of a header the     *)
(* mark, the version, the command and the length of the payload are kept *)
(* and the lengths are small.  The checksum is weaker than CRC-16, and   *)
(* like it detects any one byte changed and starts from a state of ones. *)
(*************************************************************************)
EXTENDS Integers, Sequences, SequencesExt

CONSTANTS MaxPayload, MaxRead   \* MAX_PAYLOAD; bytes that arrive at once

VARIABLES
  stream,     \* what is still to arrive
  buf,        \* Decoder.buf
  bad,        \* bad_frames
  found       \* the frames handed on

wireVars == <<stream, buf, bad, found>>

MAGIC == 200
VERSION == 1
HeaderLen == 4
CrcLen == 1

Crc(bytes) == FoldLeft(LAMBDA c, b : (3 * c + b + 1) % 251, 250, bytes)

Encode(cmd, payload) ==
  LET head == <<MAGIC, VERSION, cmd, Len(payload)>> \o payload IN Append(head, Crc(head))

From(bytes, n) == SubSeq(bytes, n + 1, Len(bytes))

\* What is left from the first mark on.
AtMark(bytes) ==
  LET marks == {i \in DOMAIN bytes : bytes[i] = MAGIC}
  IN IF marks = {} THEN <<>> ELSE From(bytes, (CHOOSE i \in marks : \A j \in marks : i <= j) - 1)

\* A mutant that skips all of a frame whose checksum is wrong.
AfterBad_Whole(bytes) ==
  IF bytes[2] # VERSION \/ bytes[4] > MaxPayload THEN Tail(bytes) ELSE From(bytes, HeaderLen + bytes[4] + CrcLen)

\* Of a header or frame that is none only the mark is skipped: a frame may
\* have begun inside it.
AfterBad(bytes) == Tail(bytes)

\* One round of the loop after another, until bytes are missing.
RECURSIVE Drained(_)
Drained(d) ==
  LET b == AtMark(d.buf)
      body == HeaderLen + b[4]
      wrong == [d EXCEPT !.buf = AfterBad(b), !.bad = @ + 1]
  IN IF Len(b) < HeaderLen THEN [d EXCEPT !.buf = b]
     ELSE IF b[2] # VERSION \/ b[4] > MaxPayload THEN Drained(wrong)
     ELSE IF Len(b) < body + CrcLen THEN [d EXCEPT !.buf = b]
     ELSE IF b[body + 1] # Crc(SubSeq(b, 1, body)) THEN Drained(wrong)
     ELSE Drained([d EXCEPT !.buf = From(b, body + CrcLen),
                            !.found = Append(@, [cmd |-> b[3], payload |-> SubSeq(b, HeaderLen + 1, body)])])

Feed ==
  \E n \in 1 .. MaxRead :
    LET d == Drained([buf |-> buf \o SubSeq(stream, 1, n), bad |-> bad, found |-> found])
    IN /\ n <= Len(stream)
       /\ stream' = From(stream, n)
       /\ buf' = d.buf /\ bad' = d.bad /\ found' = d.found

WireInit(bytes) == stream = bytes /\ buf = <<>> /\ bad = 0 /\ found = <<>>
====
