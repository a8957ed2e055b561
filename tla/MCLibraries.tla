----------------------------- MODULE MCLibraries -----------------------------
(***************************************************************************)
(* Small instances of the libraries.  Where a component is not the subject *)
(* its state is the first one of those it may start in.                    *)
(***************************************************************************)
EXTENDS Libraries

SomeRates == {3}
SomeRequests == {1, 2}
SomeDelays == 0..5
SomeQueuePriorities == 0..2
SomeBytes == [w \in Workers |-> w]

MCInit ==
  /\ AllInit
  /\ subject # "reconnect" => baseDelay = 1 /\ maxRetryDelay = 5
  /\ subject # "scheduler" => minute = 0

MCSpec == MCInit /\ [][AllNext]_allVars
=============================================================================
