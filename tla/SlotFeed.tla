------------------------------- MODULE SlotFeed -------------------------------
(***************************************************************************)
(* What the analyzer promises about the slots it works on, however it came *)
(* to know of them: every slot from the first one on is started once, in   *)
(* order, without a gap, and none before the node has told of it.          *)
(***************************************************************************)
EXTENDS Naturals

CONSTANT First      \* the first slot

VARIABLES
    known,          \* the highest slot the node has told of
    fed             \* the next slot to be started

Init == fed = First /\ known \in Nat

Learn == known' \in Nat /\ known' > known /\ UNCHANGED fed

Feed == fed <= known /\ fed' = fed + 1 /\ UNCHANGED known

Next == Learn \/ Feed

Spec == Init /\ [][Next]_<<known, fed>>
=============================================================================
