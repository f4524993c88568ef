---------------------------- MODULE MCSfuRoster ----------------------------
(* Instances of SfuRoster for TLC.                                           *)
EXTENDS SfuRoster, TLC

Symmetry == Permutations(Client) \cup Permutations(Channel)
=============================================================================
