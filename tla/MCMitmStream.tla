---------------------------- MODULE MCMitmStream ----------------------------
(* Bodies of up to three chunks; chunk data looks like sizes and line ends. *)
EXTENDS MitmStream

Letter == 20
Payloads == {<<Letter>>, <<1, Letter>>, <<CR, LF>>, <<CR, LF, CR, LF>>, <<0, CR, LF, 3>>}
ChunkingSet == (BoundedSeq(Payloads, 2) \ {<<>>})
                 \cup {<< <<Letter>>, <<1, LF>>, <<Letter, Letter, Letter>> >>}
HeadBytes == <<Letter, CR, LF, Letter>>
PlainSet == {[i \in 1 .. n |-> Letter + i] : n \in 0 .. 8}
=============================================================================
