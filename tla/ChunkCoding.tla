----------------------------- MODULE ChunkCoding -----------------------------
(***************************************************************************)
(* The bytes of a chunked body, for both proxies.  A byte is a number:     *)
(* 0 .. 15 are the hexadecimal digits, CR and LF have numbers of their     *)
(* own, anything larger is a letter.  Chunks have at most 15 bytes.        *)
(***************************************************************************)
EXTENDS Integers, Sequences, SequencesExt

CR == 16
LF == 17
CRLF == <<CR, LF>>
Bytes == 0 .. 31

Framed(c) == <<Len(c)>> \o CRLF \o c \o CRLF
LastFrame == <<0>> \o CRLF \o CRLF
Encoded(chunks) == FlattenSeq([i \in DOMAIN chunks |-> Framed(chunks[i])]) \o LastFrame

\* The number that hexadecimal digits stand for.
Hex(digits) ==
  LET value[i \in 0 .. Len(digits)] == IF i = 0 THEN 0 ELSE 16 * value[i - 1] + digits[i]
  IN value[Len(digits)]

\* Where what first occurs in d, 0 if it does not: strstr of C, find of Python.
Found(d, what) ==
  LET at == {i \in 1 .. Len(d) : IsPrefix(what, SubSeq(d, i, Len(d)))}
  IN IF at = {} THEN 0 ELSE CHOOSE i \in at : \A j \in at : i <= j
FoundEnd(d) == Found(d, CRLF)
=============================================================================
