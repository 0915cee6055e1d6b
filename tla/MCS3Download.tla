---------------------------- MODULE MCS3Download ----------------------------
(* Instances of S3Download for TLC.                                        *)
EXTENDS S3Download

CONSTANTS
  a, b,         (* two objects                                             *)
  bCased,       (* a key that differs from b in case only                  *)
  dots          (* a key that escapes the destination                      *)

(* A case-insensitive file system: b and bCased meet on one path.          *)
OnePathPerCase == [k \in Items |-> IF k = bCased THEN b ELSE k]
=============================================================================
