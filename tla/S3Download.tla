----------------------------- MODULE S3Download -----------------------------
(***************************************************************************)
(* s3.bucket.download (plugins/s3/download.go): list a bucket, resolve     *)
(* every key to a path under --out, create that directory exclusively, and *)
(* fetch every object into it through the worker pool.  "One error stops   *)
(* everything and the caller removes the directory."                       *)
(*                                                                         *)
(* Runs that name the same --out meet on one local file system: root is    *)
(* the directory's owner, files what it holds.                             *)
(***************************************************************************)
EXTENDS TransferPool

CONSTANTS
  Paths,     (* Local paths under the destination.                         *)
  PathOf,    (* destinationFor: the path a key resolves to.                *)
  Unsafe,    (* Keys that resolve outside the destination.                 *)
  Markers,   (* Keys ending in "/", which are no objects.                  *)
  Limit      (* The `limit` input.                                         *)

ASSUME PathAssumption == PathOf \in [Items -> Paths]
ASSUME KeyAssumption == Unsafe \subseteq Items /\ Markers \subseteq Items
ASSUME LimitAssumption == Limit \in Nat \ {0}

VARIABLES
  phase,     (* How far each run is.                                       *)
  plan,      (* The keys each run set out to copy.                         *)
  result,    (* What each run answered.                                    *)
  root,      (* Who made the destination directory.                        *)
  files      (* What is in it.                                             *)

vars == <<poolVars, phase, plan, result, root, files>>

Absent == "absent"
Foreign == "foreign"   \* a directory that was there before any run

ASSUME RunsAssumption == Absent \notin Runs /\ Foreign \notin Runs

File == [path : Paths, run : Runs, key : Items, whole : BOOLEAN]

Phases == {"start", "planned", "fetching", "done", "crashed"}
Refusals == {"list", "toomany", "unsafekey", "exists", "create"}
Results == {"pending", "ok", "dryrun"} \cup Refusals \cup Failures

TypeOK ==
  /\ PoolTypeOK
  /\ phase \in [Runs -> Phases]
  /\ plan \in [Runs -> SUBSET Items]
  /\ result \in [Runs -> Results]
  /\ root \in Runs \cup {Absent, Foreign}
  /\ files \subseteq File

Init ==
  /\ PoolInit
  /\ phase = [r \in Runs |-> "start"]
  /\ plan = [r \in Runs |-> {}]
  /\ result = [r \in Runs |-> "pending"]
  /\ root \in {Absent, Foreign}
  /\ files = {}

Answer(r, what) ==
  /\ phase' = [phase EXCEPT ![r] = "done"]
  /\ result' = [result EXCEPT ![r] = what]

-----------------------------------------------------------------------------

(* listForDownload and planDownload: the whole listing is read and every   *)
(* key resolved before anything is written.                                *)
Objects(listing) == listing \ Markers

ListRefused(r, listing) ==
  /\ phase[r] = "start"
  /\ \/ Answer(r, "list")                       \* the listing itself failed
     \/ Cardinality(Objects(listing)) > Limit /\ Answer(r, "toomany")
     \/ callerDone[r] /\ Answer(r, Canceled)
     \/ Objects(listing) \cap Unsafe # {} /\ Answer(r, "unsafekey")
  /\ UNCHANGED <<poolVars, plan, root, files>>

Listable(r, listing) ==
  /\ phase[r] = "start"
  /\ ~callerDone[r]
  /\ Cardinality(Objects(listing)) <= Limit
  /\ Objects(listing) \cap Unsafe = {}

DryRun(r, listing) ==
  /\ Listable(r, listing)
  /\ Answer(r, "dryrun")
  /\ UNCHANGED <<poolVars, plan, root, files>>

Plan(r, listing) ==
  /\ Listable(r, listing)
  /\ phase' = [phase EXCEPT ![r] = "planned"]
  /\ plan' = [plan EXCEPT ![r] = Objects(listing)]
  /\ UNCHANGED <<poolVars, result, root, files>>

(* Mutant: MkdirAll on the leaf, which accepts a directory already there.  *)
MakeRootReusing(r) ==
  /\ phase[r] = "planned"
  /\ root' = IF root = Absent THEN r ELSE root
  /\ phase' = [phase EXCEPT ![r] = "fetching"]
  /\ StartPool(r, plan[r])
  /\ UNCHANGED <<plan, result, files>>

(* os.Mkdir: the leaf is made exclusively.                                 *)
MakeRoot(r) ==
  /\ phase[r] = "planned"
  /\ root = Absent
  /\ root' = r
  /\ phase' = [phase EXCEPT ![r] = "fetching"]
  /\ StartPool(r, plan[r])
  /\ UNCHANGED <<plan, result, files>>

RootRefused(r) ==
  /\ phase[r] = "planned"
  /\ \/ root # Absent /\ Answer(r, "exists")
     \/ Answer(r, "create")                     \* MkdirAll or Mkdir failed
  /\ UNCHANGED <<poolVars, plan, root, files>>

-----------------------------------------------------------------------------
(* The pool's steps while the run's process is alive.                      *)

Others == <<phase, plan, result, root, files>>

Dispatch(r) ==
  /\ phase[r] = "fetching"
  /\ \/ \E w \in Workers, i \in Items : HandOver(r, w, i)
     \/ \E i \in Items : Skip(r, i)
     \/ CloseChannel(r)
  /\ UNCHANGED Others

Leave(r, w) ==
  /\ phase[r] # "crashed"
  /\ ExitWorker(r, w)
  /\ UNCHANGED Others

Mine(r, k, whole) == [path |-> PathOf[k], run |-> r, key |-> k, whole |-> whole]

Taken(p) == \E f \in files : f.path = p

(* fetchOne up to the copy: MkdirAll makes the directories the path needs, *)
(* root included; the file is created with O_EXCL.                         *)
OpenTarget(r, w) ==
  LET k == holds[r][w] IN
  /\ phase[r] # "crashed"
  /\ at[r][w] = "got"
  /\ ~Taken(PathOf[k])
  /\ root' = IF root = Absent THEN r ELSE root
  /\ files' = files \cup {Mine(r, k, FALSE)}
  /\ IF ctxDone[r]
     THEN Record(r, w, Canceled)                \* the request is never made
     ELSE /\ at' = [at EXCEPT ![r][w] = "moving"]
          /\ UNCHANGED <<pending, channel, holds, written, failure, callerDone, ctxDone>>
  /\ UNCHANGED <<phase, plan, result>>

OpenRefused(r, w) ==
  /\ phase[r] # "crashed"
  /\ at[r][w] = "got"
  /\ \/ Taken(PathOf[holds[r][w]]) /\ Record(r, w, "collision")
     \/ Record(r, w, Failed)                    \* MkdirAll or OpenFile failed
  /\ UNCHANGED Others

(* io.Copy and Close.  A body already received may end well even though    *)
(* the context is done; one still coming ends with the context's error.    *)
CopyEnds(r, w) ==
  LET k == holds[r][w] IN
  /\ phase[r] # "crashed"
  /\ at[r][w] = "moving"
  /\ \/ /\ Record(r, w, None)
        /\ files' = (files \ {Mine(r, k, FALSE)}) \cup {Mine(r, k, TRUE)}
     \/ /\ Record(r, w, IF ctxDone[r] THEN Canceled ELSE Failed)
        /\ UNCHANGED files
  /\ UNCHANGED <<phase, plan, result, root>>

-----------------------------------------------------------------------------

(* fetchAll returned a failure: os.RemoveAll(root), then the error.        *)
FailRun(r) ==
  /\ phase[r] = "fetching"
  /\ Joined(r)
  /\ failure[r] # None
  /\ root' = Absent
  /\ files' = {}
  /\ Answer(r, failure[r])
  /\ UNCHANGED <<poolVars, plan>>

(* Mutant: the pool's failure is not looked at.                            *)
ReceiptAnyway(r) ==
  /\ phase[r] = "fetching"
  /\ Joined(r)
  /\ Answer(r, "ok")
  /\ UNCHANGED <<poolVars, plan, root, files>>

(* fetchAll returned no failure: the receipt counts the whole plan.        *)
Receipt(r) ==
  /\ phase[r] = "fetching"
  /\ Joined(r)
  /\ failure[r] = None
  /\ Answer(r, "ok")
  /\ UNCHANGED <<poolVars, plan, root, files>>

Cancel(r) ==
  /\ phase[r] \notin {"done", "crashed"}
  /\ CancelCaller(r)
  /\ UNCHANGED Others

(* The process dies: nothing of it runs again, and what it wrote stays.    *)
Crash(r) ==
  /\ phase[r] \notin {"done", "crashed"}
  /\ phase' = [phase EXCEPT ![r] = "crashed"]
  /\ UNCHANGED <<poolVars, plan, result, root, files>>

Step(r) ==
  \/ \E listing \in SUBSET Items :
       ListRefused(r, listing) \/ DryRun(r, listing) \/ Plan(r, listing)
  \/ MakeRoot(r) \/ RootRefused(r)
  \/ Dispatch(r)
  \/ \E w \in Workers :
       Leave(r, w) \/ OpenTarget(r, w) \/ OpenRefused(r, w) \/ CopyEnds(r, w)
  \/ FailRun(r) \/ Receipt(r)

Next == \E r \in Runs : Step(r) \/ Cancel(r) \/ Crash(r)

Spec == Init /\ [][Next]_vars

(* The Go scheduler runs every goroutine that can run, and a request whose *)
(* context is done returns.  One whose context is live may wait for the    *)
(* server for ever: nothing is assumed of it.                              *)
Interrupted(r, w) == ctxDone[r] /\ CopyEnds(r, w)

Fairness ==
  \A r \in Runs :
    /\ WF_vars(MakeRoot(r) \/ RootRefused(r))
    /\ WF_vars(Dispatch(r))
    /\ WF_vars(FailRun(r) \/ Receipt(r))
    /\ \A w \in Workers :
         /\ WF_vars(Leave(r, w))
         /\ WF_vars(OpenTarget(r, w) \/ OpenRefused(r, w))
         /\ WF_vars(Interrupted(r, w))

FairSpec == Spec /\ Fairness

-----------------------------------------------------------------------------
(* Properties                                                              *)

Made(r) == phase[r] = "fetching" \/ (phase[r] = "done" /\ result[r] = "ok")

(* A download always makes its own directory, so what lands in it is one   *)
(* run's: no run writes into, or removes, a directory that was there       *)
(* before or that another run made (download.go, the exclusive os.Mkdir).  *)
OneRunPerDirectory ==
  /\ \A f \in files : f.run = root
  /\ \A r \in Runs : Made(r) => root = r

(* A run that fails takes the whole directory with it: once a run has      *)
(* answered anything but success nothing of it is on disk, whatever its    *)
(* workers were doing when the first of them failed.                       *)
FailedRunLeavesNothing ==
  \A r \in Runs :
    phase[r] = "done" /\ result[r] # "ok" =>
      /\ root # r
      /\ \A f \in files : f.run # r

WholeCopy(r) ==
  /\ plan[r] = written[r]
  /\ \A k \in plan[r] : Mine(r, k, TRUE) \in files

(* A run nobody cancelled that answers success copied every object it      *)
(* listed, each whole, and counted exactly those (fetchAll, the receipt).  *)
SuccessIsWhole ==
  \A r \in Runs : result[r] = "ok" /\ ~callerDone[r] => WholeCopy(r)

(* The same without the exception: what the comment on downloadLimit and   *)
(* the capability's description say of every run, cancelled or not.        *)
ReceiptMeansWholeBucket ==
  \A r \in Runs : result[r] = "ok" => WholeCopy(r)

(* The error a failed run reports is the failure that stopped it and never *)
(* the cancellation that failure caused in the other workers (fetchAll     *)
(* records the first failure only, under the mutex, before it cancels).    *)
CauseNotConsequence ==
  \A r \in Runs : result[r] = Canceled => callerDone[r]

(* Once anything has failed, or the caller has gone, the run comes to an   *)
(* end by itself: no worker waits for a dispatcher that has gone, and no   *)
(* dispatcher for workers that have.                                       *)
StopsOnceTold ==
  \A r \in Runs :
    (phase[r] = "fetching" /\ ctxDone[r]) ~> (phase[r] \in {"done", "crashed"})

=============================================================================
