---------------------------- MODULE MCRevocation ----------------------------
(* A line a - b - c; the user of a revokes x, the user of c revokes a.       *)
(* Whether b takes over the record of a depends on which of the two arrives  *)
(* first.  The other instance has a witness c between a and x, whose users   *)
(* revoke each other.                                                       *)
EXTENDS Revocation

CONSTANTS a, b, c, x

AllDevices == {a, b, c, x}
AllPairs   == {{d, p} : d, p \in AllDevices}

Chain     == {[of |-> x, by |-> a], [of |-> a, by |-> c]}
ChainLine == {{a, b}, {b, c}}

Mutual     == {[of |-> x, by |-> a], [of |-> a, by |-> x]}
MutualLine == {{a, c}, {c, x}}
=============================================================================
