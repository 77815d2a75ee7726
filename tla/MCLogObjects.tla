---------------------------- MODULE MCLogObjects ----------------------------
(***************************************************************************)
(* LogObjects for TLC: two devices, two addresses, two contents.           *)
(***************************************************************************)
EXTENDS LogObjects, TLC

CONSTANTS x, y, c1, c2, u1, u2

MCAddresses == {x, y}
MCContents == {c1, c2}
MCUploaders == {u1, u2}

Symmetry == Permutations(MCAddresses) \cup Permutations(MCUploaders) \cup Permutations(MCContents)
=============================================================================
