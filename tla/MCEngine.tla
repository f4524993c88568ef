------------------------------ MODULE MCEngine ------------------------------
(* Instances of Engine for TLC.                                              *)
EXTENDS Engine, TLC

(* Channels are interchangeable, and so are peers.                           *)
Symmetry == Permutations(Channel) \cup Permutations(Peer)
=============================================================================
