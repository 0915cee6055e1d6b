----------------------------- MODULE MCDocker -----------------------------
(* Instances of Docker for TLC.                                            *)
EXTENDS Docker, TLC

Symmetric == Permutations(Containers) \cup Permutations(Calls) \cup Permutations(Names)
=============================================================================
