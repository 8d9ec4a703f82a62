----------------------------- MODULE RequestURL -----------------------------
(***************************************************************************)
(* parseURL of request.c: where a URL is cut into host and port, and where *)
(* it should be.  A URL is the sequence of characters after http://, in    *)
(* which ":", "/" and "?" matter and "a" stands for all that do not.       *)
(***************************************************************************)
EXTENDS Integers, Sequences, SequencesExt

Chars == {"a", ":", "/", "?"}
Rejected == [host |-> <<>>, port |-> <<>>]
DefaultPort == <<"8", "0">>

Before(u, i) == SubSeq(u, 1, i - 1)
After(u, i) == SubSeq(u, i + 1, Len(u))
\* strstr of one character: where it first is, 0 if it is not there.
At(u, char) == SelectInSeq(u, LAMBDA c : c = char)

\* Mutant: a colon counts even in the query.
Colon_InQuery(u) == At(u, ":")
Colon(u) == IF At(u, "?") # 0 /\ At(u, "?") < At(u, ":") THEN 0 ELSE At(u, ":")

\* The colon and the slash are overwritten with 0, so the host ends at the
\* first of the two, and the port at the slash only if that comes later.
Parsed(u) ==
  LET slash == At(u, "/")
      colon == Colon(u)
  IN IF u = <<>> \/ u[1] # "a" \/ slash = 0 THEN Rejected
     ELSE IF colon = 0 THEN [host |-> Before(u, slash), port |-> DefaultPort]
     ELSE IF colon < slash
       THEN [host |-> Before(u, colon), port |-> SubSeq(u, colon + 1, slash - 1)]
       ELSE [host |-> Before(u, slash), port |-> After(u, colon)]
-----------------------------------------------------------------------------
Unqueried(u) == IF At(u, "?") = 0 THEN u ELSE Before(u, At(u, "?"))

\* What a URL means: the authority ends at the first "/" or "?", or with the
\* URL, and its port, if it has one, is behind its colon.
Authority(u) ==
  LET end == SelectInSeq(u, LAMBDA c : c \in {"/", "?"})
  IN IF end = 0 THEN u ELSE Before(u, end)
Meant(u) ==
  LET auth == Authority(u)
      colon == At(auth, ":")
  IN IF colon = 0 THEN [host |-> auth, port |-> DefaultPort]
                  ELSE [host |-> Before(auth, colon), port |-> After(auth, colon)]
=============================================================================
