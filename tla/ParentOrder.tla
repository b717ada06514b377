----------------------------- MODULE ParentOrder -----------------------------
(***************************************************************************)
(* What an execution algorithm promises of a parent order: child orders    *)
(* never cover more than what is left of it, and every unit a child order  *)
(* fills comes off what is left exactly once.                              *)
(***************************************************************************)
EXTENDS Integers

CONSTANT Quantity

VARIABLES
    left,   \* what is left to execute
    open    \* what is out in child orders

Init == left = Quantity /\ open = 0

Place ==
    /\ open = 0
    /\ open' \in 1 .. left
    /\ UNCHANGED left

Fill ==
    /\ \E q \in 1 .. open : open' = open - q /\ left' = left - q

Spec == Init /\ [][Place \/ Fill]_<<left, open>>
=============================================================================
