-------------------------- MODULE MCRoomDirectory --------------------------
(***************************************************************************)
(* RoomDirectory for TLC: users, ids and codes are alike.                  *)
(***************************************************************************)
EXTENDS RoomDirectory, TLC

Alike == Permutations(Users) \cup Permutations(RoomIds) \cup Permutations(Codes)
=============================================================================
