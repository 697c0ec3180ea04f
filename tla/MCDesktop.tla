----------------------------- MODULE MCDesktop ------------------------------
(* Two clicks on Save, in one dialog or two. *)
EXTENDS Desktop

CONSTANTS c1, c2

TwoSaves == {c1, c2}
=============================================================================
