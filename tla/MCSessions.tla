----------------------------- MODULE MCSessions -----------------------------
(* Instances of Sessions for TLC.                                            *)
EXTENDS Sessions, TLC

(* Channels are interchangeable.                                             *)
Symmetry == Permutations(Channel)
=============================================================================
