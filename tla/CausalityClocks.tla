--------------------------- MODULE CausalityClocks ----------------------------
(***************************************************************************)
(* The clocks that records, events and devices carry (vector_clock.ts).    *)
(* A device that a clock does not list counts as 0.                        *)
(***************************************************************************)
EXTENDS Naturals

CONSTANT Devices  \* the paired devices

Clocks == [Devices -> Nat]

NoClock == [p \in Devices |-> 0]

Dominates(a, b) == \A p \in Devices : a[p] >= b[p]

Concurrent(a, b) == ~ Dominates(a, b) /\ ~ Dominates(b, a)

Merge(a, b) == [p \in Devices |-> IF b[p] > a[p] THEN b[p] ELSE a[p]]
=============================================================================
