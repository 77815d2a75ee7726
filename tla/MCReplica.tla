------------------------------ MODULE MCReplica ------------------------------
(***************************************************************************)
(* Two replicas of a collection.                                           *)
(***************************************************************************)
EXTENDS Replica

CONSTANTS r1, r2

\* Each makes one write, and they compete; or the first has made one before.
OneEach == {<<r1, 2>>, <<r2, 2>>}
TwoAndOne == OneEach \cup {<<r1, 1>>}
=============================================================================
