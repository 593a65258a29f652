------------------------------ MODULE MCStack -------------------------------
(* Instances of Stack for TLC. *)
EXTENDS Stack

MCElem == {1, 2}
MCAllocMayFail == BOOLEAN
=============================================================================
