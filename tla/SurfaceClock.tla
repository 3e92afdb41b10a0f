---------------------------- MODULE SurfaceClock ----------------------------
(***************************************************************************)
(* What layer 3 promises to the outside (crates/rtfsn-core/src/layers/     *)
(* layer3.rs): "a monotonically increasing time value".  Each reading is   *)
(* numbered, and is later than the one before it.                          *)
(***************************************************************************)
EXTENDS Naturals

VARIABLES
    number,     \* the number of the latest reading
    time        \* its value

Init == number = 0 /\ time = 0

Advance ==
    /\ number' = number + 1
    /\ time' \in Nat
    /\ time' > time

Spec == Init /\ [][Advance]_<<number, time>>
=============================================================================
