-------------------------- MODULE LengthBodyProofs --------------------------
(***************************************************************************)
(* The counts of LengthBody for every size of the two buffers: no recv     *)
(* goes past the SocketBuffer, no byte is lost or passed on twice before a      *)
(* timeout, and success means that all of the body was passed on.          *)
(***************************************************************************)
EXTENDS LengthBody, TLAPS

\* While the loop runs, the buffer holds less than MAX_SEND_SIZE bytes and, if
\* the length is known, the code's count is the number of bytes received.
CountsAgree == /\ size # NoLength => result = taken
               /\ st = "reading" => dataSize < MaxSend \/ dataSize < MaxRecv

IInv == TypeOK /\ CountsAgree /\ EveryByteOnce /\ SuccessIsAll /\ NoNeedlessWait

LEMMA InitInv == Init => IInv
<1> SUFFICES ASSUME Init PROVE IInv
  OBVIOUS
<1>1. TypeOK
  BY SizesAssumption DEF Init, TypeOK, BufferSize
<1> QED
  BY <1>1, SizesAssumption
  DEF Init, IInv, CountsAgree, EveryByteOnce, SuccessIsAll, NoNeedlessWait

LEMMA RecvInv ==
  ASSUME IInv, NEW n \in 1 .. MaxRecv, Recv(n)
  PROVE  IInv'
<1> USE SizesAssumption DEF IInv, Recv, TypeOK, CountsAgree, EveryByteOnce, NoLength, GotAll
<1>1. CASE dataSize + n >= MaxSend
  BY <1>1 DEF BufferSize, SuccessIsAll, NoNeedlessWait
<1>2. CASE dataSize + n < MaxSend
  BY <1>2 DEF BufferSize, SuccessIsAll, NoNeedlessWait
<1> QED
  BY <1>1, <1>2

LEMMA StepInv == IInv /\ [Next]_vars => IInv'
<1> SUFFICES ASSUME IInv, [Next]_vars
             PROVE  IInv'
  OBVIOUS
<1> USE SizesAssumption
    DEF IInv, TypeOK, CountsAgree, EveryByteOnce, SuccessIsAll, NoNeedlessWait, NoLength
<1>1. CASE Complete
  BY <1>1 DEF Complete, Leave, GotAll
<1>2. CASE ServerCloses
  BY <1>2 DEF ServerCloses, Leave, GotAll
<1>3. CASE Timeout
  BY <1>3 DEF Timeout, Leave, GotAll
<1>4. CASE \E n \in 1 .. MaxRecv : Recv(n)
  BY <1>4, RecvInv
<1>5. CASE UNCHANGED vars
  BY <1>5 DEF vars
<1> QED
  BY <1>1, <1>2, <1>3, <1>4, <1>5 DEF Next

\* The counts stay within the sizes of the buffers.
THEOREM LengthTyped == Spec => []TypeOK
<1>1. IInv => TypeOK
  BY DEF IInv
<1> QED
  BY InitInv, StepInv, <1>1, PTL DEF Spec

LEMMA InvImplies == IInv => RecvHasRoom
BY SizesAssumption DEF IInv, CountsAgree, TypeOK, RecvHasRoom, BufferSize

\* No recv of the loop is offered more room than the buffer has, for any sizes
\* with MAX_RECV_SIZE <= MAX_SEND_SIZE.
THEOREM NoOverrun == Spec => []RecvHasRoom
BY InitInv, StepInv, InvImplies, PTL DEF Spec

\* The bytes received are the bytes passed on and the bytes in the buffer; after a
\* timeout only the latter, fewer than MAX_SEND_SIZE, are missing.
THEOREM NothingLostOrRepeated == Spec => []EveryByteOnce
<1>1. IInv => EveryByteOnce
  BY DEF IInv
<1> QED
  BY InitInv, StepInv, <1>1, PTL DEF Spec

\* Success is reported with all of the body passed on.
THEOREM SuccessPassesAll == Spec => []SuccessIsAll
<1>1. IInv => SuccessIsAll
  BY DEF IInv
<1> QED
  BY InitInv, StepInv, <1>1, PTL DEF Spec

\* A timeout with all of the body received happens only if the server sent more
\* than it announced.
THEOREM WaitsOnlyIfMore == Spec => []NoNeedlessWait
<1>1. IInv => NoNeedlessWait
  BY DEF IInv
<1> QED
  BY InitInv, StepInv, <1>1, PTL DEF Spec
=============================================================================
