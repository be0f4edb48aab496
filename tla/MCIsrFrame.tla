----------------------------- MODULE MCIsrFrame -----------------------------
(***************************************************************************)
(* Addresses of eight bits, four parts of two; stubs four bytes apart.     *)
(***************************************************************************)
EXTENDS IsrFrame

MCLinkAddress == [v \in Stubs |-> 16 + 4 * v]
=============================================================================
