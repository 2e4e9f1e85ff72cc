---------------------------- MODULE MCMembership ----------------------------
(***************************************************************************)
(* Membership for TLC: two players, the first with two connections one    *)
(* after the other, on two nodes.                                          *)
(***************************************************************************)
EXTENDS Membership, TLC

CONSTANTS p1, p2, s1, s2, s3, n1, n2

MCOwner == (s1 :> p1) @@ (s2 :> p1) @@ (s3 :> p2)
MCHome == (s1 :> n1) @@ (s2 :> n2) @@ (s3 :> n1)
=============================================================================
