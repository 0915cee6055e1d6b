------------------------------ MODULE Backup ------------------------------
(***************************************************************************)
(* The other direction beside Dump: pg.restore, mysql.restore and          *)
(* mariadb.restore, qdrant.restore and vault.restore, of the file at the   *)
(* same path into one target.  (etcd has no restore.)  Each looks at the   *)
(* file, then at the target, and only then lets the tool or the server     *)
(* write; dumps, other restores and people act between any two of these.   *)
(*                                                                         *)
(* A target holds things: what people put there, and what each restore     *)
(* did.  Two restores are taken to be of the same objects.                 *)
(***************************************************************************)
EXTENDS Dump

CONSTANTS
  Restores,   (* Runs of the restore.                                      *)
  Rows        (* What people may put into the target.                      *)

ASSUME RestoresAssumption == Restores \cap Rows = {}

VARIABLES
  format,     (* What pg.dump was asked for, and detectFormat finds.       *)
  wants,      (* Each restore's own inputs.                                *)
  step,       (* How far each restore is.                                  *)
  told,       (* What it answered.                                         *)
  source,     (* What it read from the path, and whether its dump had      *)
              (* answered by then.                                         *)
  held,       (* What the target holds.                                    *)
  seen,       (* What it held when each restore looked.                    *)
  put         (* How much of its source each restore has put there.        *)

target == <<held, seen, put>>
restoreVars == <<format, wants, step, told, source, target>>
allVars == <<vars, restoreVars>>

Formats == {"plain", "custom", "directory"}

(* clean (pg) or replace (qdrant), and jobs (pg).  mysql and vault have    *)
(* neither.                                                                *)
Wants == [replace : BOOLEAN, parallel : BOOLEAN]
Offered == {w \in Wants :
  /\ w.replace => engine \in {"pg", "qdrant"}
  /\ w.parallel => engine = "pg"}

BackupInit ==
  /\ Init
  /\ format \in IF engine = "pg" THEN Formats ELSE {"plain"}
  /\ wants \in [Restores -> Offered]
  /\ step = [r \in Restores |-> "start"]
  /\ told = [r \in Restores |-> "pending"]
  /\ source = [r \in Restores |-> [by |-> Absent, has |-> "nothing", answered |-> FALSE]]
  /\ held \in SUBSET Rows
  /\ seen = [r \in Restores |-> {}]
  /\ put = [r \in Restores |-> "none"]

Reply(r, what) ==
  /\ step' = [step EXCEPT ![r] = "done"]
  /\ told' = [told EXCEPT ![r] = what]

Proceed(r, next) == step' = [step EXCEPT ![r] = next] /\ UNCHANGED told
Untouched == UNCHANGED <<vars, format, wants>>

-----------------------------------------------------------------------------

(* checkDumpFile, checkSnapshotFile, detectFormat: a file that is there    *)
(* and not empty.  pg's directory format counts only with its toc.dat,     *)
(* which pg_dump writes last.                                              *)
Restorable ==
  /\ path # Nothing
  /\ engine = "pg" /\ format = "directory" => path.has # "part"

(* Flags psql cannot honour, on a plain dump.                              *)
FlagsRefused(r) ==
  engine = "pg" /\ format = "plain" /\ (wants[r].replace \/ wants[r].parallel)

CheckFile(r) ==
  /\ step[r] = "start"
  /\ Restorable
  /\ ~FlagsRefused(r)
  /\ \/ Proceed(r, "checked")
     \/ Reply(r, "dryrun")
  /\ Untouched /\ UNCHANGED <<source, target>>

(* A file still empty is refused too, as one part written may be.          *)
FileRefused(r) ==
  /\ step[r] = "start"
  /\ ~Restorable \/ path.has = "part" \/ FlagsRefused(r)
  /\ Reply(r, "refused")
  /\ Untouched /\ UNCHANGED <<source, target>>

Occupied == held # {}

(* Mutant: a qdrant collection that does not say how much it holds is      *)
(* taken for an empty one.                                                 *)
CheckTargetUncounted(r) ==
  /\ step[r] = "checked"
  /\ Occupied => wants[r].replace \/ engine \in {"vault", "qdrant"}
  /\ seen' = [seen EXCEPT ![r] = held]
  /\ Proceed(r, "cleared")
  /\ Untouched /\ UNCHANGED <<source, held, put>>

(* The target answers, can be written, and holds nothing unless the caller *)
(* asked for it to be replaced.  vault looks at nothing.                   *)
CheckTarget(r) ==
  /\ step[r] = "checked"
  /\ Occupied => wants[r].replace \/ engine = "vault"
  /\ seen' = [seen EXCEPT ![r] = held]
  /\ Proceed(r, "cleared")
  /\ Untouched /\ UNCHANGED <<source, held, put>>

(* Occupied, uncounted, a replica, read-only, or not to be reached.        *)
TargetRefused(r) ==
  /\ step[r] = "checked"
  /\ engine # "vault"
  /\ Reply(r, "refused")
  /\ Untouched /\ UNCHANGED <<source, target>>

(* The tool or the plugin opens the path, which may not be what it was.    *)
Open(r) ==
  /\ step[r] = "cleared"
  /\ path # Nothing
  /\ source' = [source EXCEPT ![r] =
       [by |-> path.by, has |-> path.has,
        answered |-> path.by \in Dumps => at[path.by] = "done"]]
  /\ Proceed(r, "running")
  /\ Untouched /\ UNCHANGED target

OpenFails(r) ==
  /\ step[r] = "cleared"
  /\ Reply(r, "failed")
  /\ Untouched /\ UNCHANGED <<source, target>>

-----------------------------------------------------------------------------
(* What the tool or the server then does to the target.                    *)

Puts(r, much) == put' = [put EXCEPT ![r] = much]

(* How much of the source there is to put.  What the reader itself rejects *)
(* it rejects: vault reads the checksums first, a directory has its toc.   *)
Much(r) == IF source[r].has = "part" THEN "part" ELSE "whole"
Readable(r) == engine = "vault" => source[r].has = "whole"

(* pg: the objects of the dump, made in one transaction.  Without clean,   *)
(* one that is already there ends it; with it, what the dump carries is    *)
(* dropped first.                                                          *)
PgLands(r) ==
  /\ \/ ~wants[r].replace /\ held \cap Restores \subseteq {r} /\ held' = held \cup {r}
     \/ /\ wants[r].replace
        /\ \E kept \in SUBSET (held \cap Rows) : held' = kept \cup {r}
  /\ Puts(r, Much(r))

Transactional(r) == engine = "pg" /\ ~wants[r].parallel

(* A whole collection, or a whole storage, becomes the file's.             *)
Replaced(r) == held' = {r} /\ Puts(r, Much(r))

Lands(r) ==
  \/ Transactional(r) /\ PgLands(r)
  \/ engine \in {"qdrant", "vault"} /\ Readable(r) /\ Replaced(r)

(* All at once, or not at all.  A failure may be of the answer only: what  *)
(* was applied stays applied.                                              *)
Land(r) ==
  /\ step[r] = "running"
  /\ Lands(r)
  /\ Reply(r, "ok") \/ Reply(r, "failed")
  /\ Untouched /\ UNCHANGED <<source, seen>>

NothingLands(r) ==
  /\ step[r] = "running"
  /\ Transactional(r) \/ engine \in {"qdrant", "vault"}
  /\ Reply(r, "failed")
  /\ Untouched /\ UNCHANGED <<source, target>>

(* Mutant: no --single-transaction.                                        *)
PiecemealAlways(r) == engine \in {"mysql", "pg"}

(* Statement by statement: mysql, whose dump drops every table it goes on  *)
(* to make, and pg with jobs, which stop at the first error.               *)
Piecemeal(r) == engine = "mysql" \/ (engine = "pg" /\ wants[r].parallel)

LandSome(r) ==
  /\ step[r] = "running"
  /\ Piecemeal(r)
  /\ put[r] = "none"
  /\ \/ /\ engine = "pg" /\ ~wants[r].replace
        /\ held \cap Restores \subseteq {r}
        /\ held' = held \cup {r}
     \/ /\ wants[r].replace \/ engine = "mysql"
        /\ \E kept \in SUBSET held : held' = kept \cup {r}
  /\ Puts(r, "part")
  /\ Untouched /\ UNCHANGED <<step, told, source, seen>>

LandRest(r) ==
  /\ step[r] = "running"
  /\ Piecemeal(r)
  /\ put[r] = "part"
  /\ Puts(r, Much(r))
  /\ Reply(r, "ok")
  /\ Untouched /\ UNCHANGED <<source, held, seen>>

(* Mutant: --force, or psql without ON_ERROR_STOP: errors are counted      *)
(* quietly and what is left is called a restore.                           *)
StopIgnored(r) ==
  /\ step[r] = "running"
  /\ Piecemeal(r)
  /\ Reply(r, "ok")
  /\ Untouched /\ UNCHANGED <<source, target>>

(* The first error, or the caller gone: what was applied stays.            *)
Stop(r) ==
  /\ step[r] = "running"
  /\ Piecemeal(r)
  /\ Reply(r, "failed")
  /\ Untouched /\ UNCHANGED <<source, target>>

RestoreStep(r) ==
  \/ CheckFile(r) \/ FileRefused(r) \/ CheckTarget(r) \/ TargetRefused(r)
  \/ Open(r) \/ OpenFails(r)
  \/ Land(r) \/ NothingLands(r) \/ LandSome(r) \/ LandRest(r) \/ Stop(r)

(* Somebody else writes to the target.                                     *)
PeoplePut(x) ==
  /\ x \notin held
  /\ held' = held \cup {x}
  /\ Untouched /\ UNCHANGED <<step, told, source, seen, put>>

BackupNext ==
  \/ Next /\ UNCHANGED restoreVars
  \/ engine # "etcd" /\ \E r \in Restores : RestoreStep(r)
  \/ \E x \in Rows : PeoplePut(x)

BackupSpec == BackupInit /\ [][BackupNext]_allVars

BackupFairSpec == BackupSpec /\ Fairness

-----------------------------------------------------------------------------
(* Properties                                                              *)

(* A restore that answers success has put the whole of a backup there,     *)
(* unless it was pointed at a file whose dump had not answered: a crashed  *)
(* dump's, or one still being written.  No failed dump's file is there to  *)
(* be "the one that gets restored six months later".                       *)
RestoredIsWhole ==
  \A r \in Restores :
    told[r] = "ok" /\ source[r].answered => put[r] = "whole"

(* What pg.restore's receipt guarantees without jobs: a restore that did   *)
(* not get through has left the target without any of it, and a target is  *)
(* never left holding part of a file that was whole (--single-transaction  *)
(* with ON_ERROR_STOP).                                                    *)
PgAllOrNothing ==
  \A r \in Restores :
    Transactional(r) /\ put[r] = "part" => source[r].has = "part"

(* Nothing a restore saw in its target is lost to it unless its caller     *)
(* asked, and under pg nothing at all is, not even what appeared after it  *)
(* looked; vault replaces the whole storage by design.                     *)
MayLose(r, x) ==
  \/ wants[r].replace
  \/ engine = "vault"
  \/ engine \in {"mysql", "qdrant"} /\ x \notin seen[r]

NothingSeenIsLost ==
  [][\A x \in held \ held' :
       \E r \in Restores : step[r] = "running" /\ MayLose(r, x)]_allVars
=============================================================================
