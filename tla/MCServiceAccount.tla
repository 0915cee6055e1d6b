-------------------------- MODULE MCServiceAccount --------------------------
(* Instances of ServiceAccount for TLC.                                    *)
EXTENDS ServiceAccount, TLC

Alike == Permutations(Provisions) \cup Permutations(Revokes)
=============================================================================
