----------------------------- MODULE MCRecovery -----------------------------
(***************************************************************************)
(* One recovery of a schedule whose first operation is frozen, solved by   *)
(* one worker.                                                             *)
(***************************************************************************)
EXTENDS Rescheduling

MCOfficial == {[o \in Operations |-> IF o = "o1" THEN 0 ELSE 1]}
=============================================================================
