----------------------------- MODULE AddressMap -----------------------------
(***************************************************************************)
(* What a page mapper promises: a request maps one page to one frame, in   *)
(* one instant, and touches no other page.  No tables, no levels.          *)
(***************************************************************************)
CONSTANTS Pages, Frames, Unmapped, Idle

VARIABLES
  map,      \* page -> frame, or Unmapped
  request   \* Idle, or [virt, phys, done] for the call in progress

amvars == <<map, request>>

Init ==
  /\ map \in [Pages -> Frames \cup {Unmapped}]
  /\ request = Idle

Request(virt, phys) ==
  /\ request = Idle
  /\ request' = [virt |-> virt, phys |-> phys, done |-> FALSE]
  /\ UNCHANGED map

Perform ==
  /\ request # Idle /\ ~request.done
  /\ map' = [map EXCEPT ![request.virt] = request.phys]
  /\ request' = [request EXCEPT !.done = TRUE]

Return ==
  /\ request # Idle /\ request.done
  /\ request' = Idle
  /\ UNCHANGED map

Next == Perform \/ Return \/ \E virt \in Pages, phys \in Frames : Request(virt, phys)

Spec == Init /\ [][Next]_amvars
=============================================================================
