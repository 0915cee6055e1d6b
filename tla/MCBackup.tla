----------------------------- MODULE MCBackup -----------------------------
(***************************************************************************)
(* An instance of Dump and Backup for TLC: two dumps race for one path, or *)
(* one dump runs beside two restores.  The second dump is not explored     *)
(* beside a restore: what a restore finds at the path one dump leaves      *)
(* there as well as two.  Of two runs of a kind the one that begins first  *)
(* is called the first, which leaves nothing out: a symmetry set would do  *)
(* the same, but not beside a liveness property.                           *)
(***************************************************************************)
EXTENDS Backup

CONSTANTS
  FirstDump, SecondDump,
  FirstRestore, SecondRestore

ASSUME CastAssumption ==
  Dumps = {FirstDump, SecondDump} /\ Restores = {FirstRestore, SecondRestore}

Began(d) == at[d] # "start" \/ callerDone[d]

(* What no dump reads is of one value where two dumps run.                 *)
OnlyDumps ==
  /\ step[FirstRestore] = "start"
  /\ format = "plain" /\ held = {}
  /\ \A r \in Restores : wants[r] = [replace |-> FALSE, parallel |-> FALSE]

(* And so is what no restore reads where two restores do: no caller of a   *)
(* dump goes, and qdrant's server has no copy.                             *)
TwoRestores ==
  /\ step[FirstRestore] # "start"
  /\ making = {} /\ copies = {} /\ \A d \in Dumps : ~callerDone[d]

Cast ==
  /\ Began(SecondDump) => Began(FirstDump) /\ OnlyDumps
  /\ step[SecondRestore] # "start" => TwoRestores

MCNext == BackupNext /\ Cast'

MCSpec == BackupInit /\ [][MCNext]_allVars /\ Fairness
=============================================================================
