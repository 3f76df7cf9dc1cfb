--------------------------- MODULE MCWorkerProcess ---------------------------
(***************************************************************************)
(* Small instances of WorkerProcess for TLC.                               *)
(***************************************************************************)
EXTENDS WorkerProcess

CONSTANTS r1, r2, q1

TwoRequests == {r1, r2}
OneRow == {q1}
=============================================================================
