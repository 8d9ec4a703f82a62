------------------------------ MODULE ScanGate ------------------------------
(***************************************************************************)
(* What the antivirus proxy promises its clients about a GET response,     *)
(* with no files, names or descriptors in it: a response body is held back *)
(* until the scanner has judged it, the client is then given exactly the   *)
(* body that was judged clean, or a warning in place of one that was       *)
(* judged infected, or nothing.                                            *)
(***************************************************************************)
CONSTANTS Workers,   \* the threads serving clients
          Bodies,    \* the response bodies a server may send
          Infected   \* the bodies the scanner has a signature for

VARIABLES state,     \* "idle", "held", "passed" or "blocked", per worker
          body,      \* the body held, or last held ("none" before the first)
          out        \* what the client got: "nothing", a body or "warning"

vars == <<state, body, out>>

Init == /\ state = [w \in Workers |-> "idle"]
        /\ body = [w \in Workers |-> "none"]
        /\ out = [w \in Workers |-> "nothing"]

\* A new exchange starts: the client has received nothing of it.
Begin(w) == /\ state[w] = "idle"
            /\ body' = [body EXCEPT ![w] = "none"]
            /\ out' = [out EXCEPT ![w] = "nothing"]
            /\ UNCHANGED state

Hold(w) == /\ state[w] = "idle"
           /\ out[w] = "nothing"
           /\ state' = [state EXCEPT ![w] = "held"]
           /\ \E b \in Bodies : body' = [body EXCEPT ![w] = b]
           /\ UNCHANGED out

Pass(w) == /\ state[w] = "held"
           /\ body[w] \in Bodies \ Infected
           /\ state' = [state EXCEPT ![w] = "passed"]
           /\ UNCHANGED <<body, out>>

Stop(w) == /\ state[w] = "held"
           /\ body[w] \in Infected
           /\ state' = [state EXCEPT ![w] = "blocked"]
           /\ UNCHANGED <<body, out>>

Release(w) == /\ state[w] = "passed"
              /\ state' = [state EXCEPT ![w] = "idle"]
              /\ out' = [out EXCEPT ![w] = body[w]]
              /\ UNCHANGED body

Warn(w) == /\ state[w] = "blocked"
           /\ state' = [state EXCEPT ![w] = "idle"]
           /\ out' = [out EXCEPT ![w] = "warning"]
           /\ UNCHANGED body

\* The exchanges of some workers end with nothing shown: a failed scan, a
\* worker that never returns, or the whole process going away.
Drop == /\ \E W \in SUBSET Workers :
              state' = [w \in Workers |-> IF w \in W THEN "idle" ELSE state[w]]
        /\ UNCHANGED <<body, out>>

Next == \/ \E w \in Workers : \/ Begin(w) \/ Hold(w) \/ Pass(w) \/ Stop(w)
                              \/ Release(w) \/ Warn(w)
        \/ Drop

Spec == Init /\ [][Next]_vars
=============================================================================
