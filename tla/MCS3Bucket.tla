----------------------------- MODULE MCS3Bucket -----------------------------
(* Instances of S3Bucket for TLC.                                          *)
EXTENDS S3Bucket, TLC

CONSTANTS
  old,             (* an object outside the upload's prefix                *)
  here, there,     (* two keys under it                                    *)
  f1, f2           (* the local files that become them                     *)

KeyOfFile == [i \in Items |-> IF i = f1 THEN here ELSE there]

Ask(op, src, dst) == [op |-> op, src |-> src, dst |-> dst]

(* Two moves to one key, a copy back, a set and a removal of keys the      *)
(* others are about, and a get.                                            *)
Asks == {
  Ask("rename", old, here), Ask("rename", there, here), Ask("copy", here, old),
  Ask("set", here, here), Ask("rm", there, there), Ask("get", old, old)}

CallsAlike == Permutations(Calls)
=============================================================================
