--------------------------- MODULE MCChunkedBody ---------------------------
(* Bodies of up to three chunks; chunk data looks like sizes and line ends. *)
EXTENDS ChunkedBody

Letter == 20
Payloads == {<<Letter>>, <<MINUS, 1>>, <<CR, LF>>, <<Letter, 2, CR, Letter>>}
ChunkingSet == (BoundedSeq(Payloads, 2) \ {<<>>})
                 \cup {<< <<Letter>>, <<1, Letter>>, <<1, Letter>> >>}
\* A size line that never ends, one that is no number, and one with a sign; sizes
\* that are no int, or no long.
JunkSet == {[i \in 1 .. 14 |-> Letter], <<Letter, Letter>> \o CRLF,
            <<MINUS, 2>> \o CRLF \o <<Letter>>, <<PLUS, 1>> \o CRLF \o <<Letter>>,
            <<8, 0>> \o CRLF, <<8, 0, 0, 0>> \o CRLF}
=============================================================================
