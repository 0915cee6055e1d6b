------------------------- MODULE S3Download_proofs --------------------------
(***************************************************************************)
(* Proofs about S3Download, for every set of runs, of workers and of keys, *)
(* every path map and every limit.                                         *)
(*                                                                         *)
(* The inductive invariant DownloadInv says who may have what: only a run  *)
(* that is fetching (or died fetching) has workers, it owns the directory, *)
(* every file there is the owner's, and as long as its context is live     *)
(* every planned key is pending, in a worker's hands, or written whole.    *)
(***************************************************************************)
EXTENDS S3Download, TLAPS

(* A run has no worker under way before its directory is made or after it  *)
(* has answered.                                                           *)
Quiet(r) == \A w \in Workers : at[r][w] \in {"unstarted", "exited"}

WorkersOf(r) ==
  /\ phase[r] \in {"start", "planned", "done"} => Quiet(r)
  /\ \A w \in Workers : Busy(r, w) => holds[r][w] \in plan[r]

OwnerOf(r) ==
  /\ phase[r] = "fetching" => root = r
  /\ phase[r] = "done" => (result[r] = "ok" <=> root = r)
  /\ phase[r] # "done" => result[r] = "pending"
  /\ phase[r] \in {"start", "planned"} => root # r

OwnersFiles == \A f \in files : f.run = root

(* The keys in a worker's hands.                                           *)
Held(r) == {k \in Items : \E w \in Workers : Busy(r, w) /\ holds[r][w] = k}

WrittenOf(r) ==
  phase[r] = "fetching" \/ result[r] = "ok"
    => \A k \in written[r] : Mine(r, k, TRUE) \in files

PlanOf(r) ==
  /\ phase[r] \in {"start", "planned"} => written[r] = {} /\ pending[r] = {}
  /\ written[r] \subseteq plan[r]
  /\ pending[r] \subseteq plan[r]
  /\ channel[r] = "closed" => pending[r] = {}
  /\ phase[r] = "fetching" /\ ~ctxDone[r]
       => plan[r] \subseteq pending[r] \cup Held(r) \cup written[r]
  /\ result[r] = "ok" /\ ~callerDone[r] => plan[r] \subseteq written[r]

CopyOf(r) == WrittenOf(r) /\ PlanOf(r)

CauseOf(r) ==
  /\ phase[r] \in {"start", "planned"} => failure[r] = None
  /\ callerDone[r] => ctxDone[r]
  /\ failure[r] # None => ctxDone[r]
  /\ ctxDone[r] /\ failure[r] = None => callerDone[r]
  /\ failure[r] = Canceled => callerDone[r]
  /\ result[r] = Canceled => callerDone[r]
  /\ result[r] = "ok" => phase[r] = "done" /\ failure[r] = None

WorkersInv == \A r \in Runs : WorkersOf(r)
OwnerInv == OwnersFiles /\ \A r \in Runs : OwnerOf(r)
CopyInv == \A r \in Runs : CopyOf(r)
CauseInv == \A r \in Runs : CauseOf(r)

DownloadInv == TypeOK /\ WorkersInv /\ OwnerInv /\ CopyInv /\ CauseInv

-----------------------------------------------------------------------------

LEMMA StringsDiffer ==
  /\ None \notin Failures
  /\ "ok" \notin Failures /\ "pending" \notin Failures
  /\ "ok" \notin Refusals /\ Canceled \notin Refusals
BY DEF None, Failures, Canceled, Failed, Refusals

(* What the pool's bookkeeping of one outcome does to the types.           *)
LEMMA RecordType ==
  ASSUME PoolTypeOK, NEW r \in Runs, NEW w \in Workers,
         NEW err \in Failures \cup {None}, holds[r][w] \in Items,
         Record(r, w, err)
  PROVE  PoolTypeOK'
<1> USE DEF PoolTypeOK, Record
<1>1. at' \in [Runs -> [Workers -> Places]]
  BY DEF Places
<1>2. holds' \in [Runs -> [Workers -> Items \cup {NoItem}]]
  OBVIOUS
<1>3. written' \in [Runs -> SUBSET Items]
  OBVIOUS
<1>4. failure' \in [Runs -> Failures \cup {None}] /\ ctxDone' \in [Runs -> BOOLEAN]
  OBVIOUS
<1>5. QED
  BY <1>1, <1>2, <1>3, <1>4

(* A record of a file this run writes is a record of a file.               *)
LEMMA MineType ==
  ASSUME TypeOK, NEW r \in Runs, NEW k \in Items, NEW b \in BOOLEAN
  PROVE  Mine(r, k, b) \in File
BY PathAssumption DEF Mine, File

(* Every variable keeps its type, whichever step is taken.  A worker under *)
(* way holds an item (WorkersInv), so what it adds to the total is one.    *)
LEMMA TypeStep == TypeOK /\ WorkersInv /\ [Next]_vars => TypeOK'
<1> SUFFICES ASSUME TypeOK, WorkersInv, [Next]_vars
             PROVE  TypeOK'
  OBVIOUS
<1>h. ASSUME NEW r \in Runs, NEW w \in Workers, Busy(r, w)
      PROVE  holds[r][w] \in Items
  BY <1>h DEF WorkersInv, WorkersOf, TypeOK
<1> USE DEF TypeOK
<1>1. ASSUME NEW r \in Runs, NEW S \in SUBSET Items, ListRefused(r, S)
      PROVE  TypeOK'
  BY <1>1 DEF ListRefused, Answer, poolVars, PoolTypeOK, Phases, Results, Refusals, Failures, Canceled
<1>2. ASSUME NEW r \in Runs, NEW S \in SUBSET Items, DryRun(r, S)
      PROVE  TypeOK'
  BY <1>2 DEF DryRun, Answer, poolVars, PoolTypeOK, Phases, Results
<1>3. ASSUME NEW r \in Runs, NEW S \in SUBSET Items, Plan(r, S)
      PROVE  TypeOK'
  BY <1>3 DEF Plan, Objects, poolVars, PoolTypeOK, Phases
<1>4. ASSUME NEW r \in Runs, MakeRoot(r)
      PROVE  TypeOK'
  BY <1>4 DEF MakeRoot, StartPool, PoolTypeOK, Phases, Places
<1>5. ASSUME NEW r \in Runs, RootRefused(r)
      PROVE  TypeOK'
  BY <1>5 DEF RootRefused, Answer, poolVars, PoolTypeOK, Phases, Results, Refusals
<1>6. ASSUME NEW r \in Runs, Dispatch(r)
      PROVE  TypeOK'
  <2>1. ASSUME NEW w \in Workers, NEW i \in Items, HandOver(r, w, i)
        PROVE  PoolTypeOK'
    BY <2>1 DEF HandOver, PoolTypeOK, Places
  <2>2. ASSUME NEW i \in Items, Skip(r, i)
        PROVE  PoolTypeOK'
    BY <2>2 DEF Skip, PoolTypeOK
  <2>3. CloseChannel(r) => PoolTypeOK'
    BY DEF CloseChannel, PoolTypeOK
  <2>4. QED
    BY <1>6, <2>1, <2>2, <2>3 DEF Dispatch, Others
<1>7. ASSUME NEW r \in Runs, NEW w \in Workers, Leave(r, w)
      PROVE  TypeOK'
  BY <1>7 DEF Leave, ExitWorker, Others, PoolTypeOK, Places
<1>8. ASSUME NEW r \in Runs, NEW w \in Workers, OpenTarget(r, w)
      PROVE  TypeOK'
  <2>1. holds[r][w] \in Items
    BY <1>8, <1>h DEF OpenTarget, Busy
  <2>2. CASE Record(r, w, Canceled)
    <3>1. PoolTypeOK'
      BY <2>1, <2>2, RecordType DEF Failures
    <3>2. QED
      BY <1>8, <2>1, <3>1, MineType DEF OpenTarget
  <2>3. CASE ~ctxDone[r]
    <3>0. /\ at' = [at EXCEPT ![r][w] = "moving"]
          /\ UNCHANGED <<pending, channel, holds, written, failure, callerDone, ctxDone>>
      BY <1>8, <2>3 DEF OpenTarget
    <3>1. PoolTypeOK'
      BY <3>0 DEF PoolTypeOK, Places
    <3>2. QED
      BY <1>8, <2>1, <3>1, MineType DEF OpenTarget
  <2>4. QED
    BY <1>8, <2>2, <2>3 DEF OpenTarget
<1>9. ASSUME NEW r \in Runs, NEW w \in Workers, OpenRefused(r, w)
      PROVE  TypeOK'
  <2>1. holds[r][w] \in Items
    BY <1>9, <1>h DEF OpenRefused, Busy
  <2>2. PoolTypeOK'
    BY <1>9, <2>1, RecordType DEF OpenRefused, Failures
  <2>3. QED
    BY <1>9, <2>2 DEF OpenRefused, Others
<1>10. ASSUME NEW r \in Runs, NEW w \in Workers, CopyEnds(r, w)
      PROVE  TypeOK'
  <2>1. holds[r][w] \in Items
    BY <1>10, <1>h DEF CopyEnds, Busy
  <2>2. PoolTypeOK'
    BY <1>10, <2>1, RecordType DEF CopyEnds, Failures
  <2>3. QED
    BY <1>10, <2>1, <2>2, MineType DEF CopyEnds
<1>11. ASSUME NEW r \in Runs, FailRun(r)
      PROVE  TypeOK'
  BY <1>11 DEF FailRun, Answer, poolVars, PoolTypeOK, Phases, Results
<1>12. ASSUME NEW r \in Runs, Receipt(r)
      PROVE  TypeOK'
  BY <1>12 DEF Receipt, Answer, poolVars, PoolTypeOK, Phases, Results
<1>13. ASSUME NEW r \in Runs, Cancel(r)
      PROVE  TypeOK'
  BY <1>13 DEF Cancel, CancelCaller, Others, PoolTypeOK
<1>14. ASSUME NEW r \in Runs, Crash(r)
      PROVE  TypeOK'
  BY <1>14 DEF Crash, poolVars, PoolTypeOK, Phases
<1>15. CASE UNCHANGED vars
  BY <1>15 DEF vars, poolVars, PoolTypeOK
<1>16. QED
  BY <1>1, <1>2, <1>3, <1>4, <1>5, <1>6, <1>7, <1>8, <1>9, <1>10, <1>11, <1>12, <1>13, <1>14, <1>15
     DEF Next, Step

(* Workers exist only while their run fetches.                             *)
LEMMA WorkersStep == DownloadInv /\ [Next]_vars => (\A q \in Runs : WorkersOf(q))'
<1> SUFFICES ASSUME DownloadInv, [Next]_vars, NEW q \in Runs
             PROVE  WorkersOf(q)'
  OBVIOUS
<1>t. /\ phase \in [Runs -> Phases]
      /\ at \in [Runs -> [Workers -> Places]]
      /\ holds \in [Runs -> [Workers -> Items \cup {NoItem}]]
      /\ plan \in [Runs -> SUBSET Items]
      /\ pending \in [Runs -> SUBSET Items]
  BY DEF DownloadInv, TypeOK, PoolTypeOK
<1>i. \A r \in Runs : WorkersOf(r) /\ CopyOf(r)
  BY DEF DownloadInv, WorkersInv, OwnerInv, CopyInv, CauseInv
<1> USE <1>t, <1>i DEF WorkersOf, Quiet, Busy
<1>1. ASSUME NEW r \in Runs, NEW S \in SUBSET Items, ListRefused(r, S)
      PROVE  WorkersOf(q)'
  BY <1>1 DEF ListRefused, Answer, poolVars
<1>2. ASSUME NEW r \in Runs, NEW S \in SUBSET Items, DryRun(r, S)
      PROVE  WorkersOf(q)'
  BY <1>2 DEF DryRun, Listable, Answer, poolVars
<1>3. ASSUME NEW r \in Runs, NEW S \in SUBSET Items, Plan(r, S)
      PROVE  WorkersOf(q)'
  BY <1>3 DEF Plan, Listable, poolVars
<1>4. ASSUME NEW r \in Runs, MakeRoot(r)
      PROVE  WorkersOf(q)'
  BY <1>4 DEF MakeRoot, StartPool
<1>5. ASSUME NEW r \in Runs, RootRefused(r)
      PROVE  WorkersOf(q)'
  BY <1>5 DEF RootRefused, Answer, poolVars
<1>6. ASSUME NEW r \in Runs, NEW w \in Workers, NEW i \in Items,
             phase[r] = "fetching", HandOver(r, w, i), UNCHANGED Others
      PROVE  WorkersOf(q)'
  <2>1. /\ at' = [at EXCEPT ![r][w] = "got"]
        /\ holds' = [holds EXCEPT ![r][w] = i]
        /\ UNCHANGED <<phase, plan>>
    BY <1>6 DEF HandOver, Others
  <2>2. i \in plan[r]
    BY <1>6 DEF HandOver, CopyOf, PlanOf
  <2>3. QED
    BY <1>6, <2>1, <2>2
<1>7. ASSUME NEW r \in Runs, NEW i \in Items,
             phase[r] = "fetching", Skip(r, i), UNCHANGED Others
      PROVE  WorkersOf(q)'
  BY <1>7 DEF Skip, Others
<1>8. ASSUME NEW r \in Runs, phase[r] = "fetching", CloseChannel(r), UNCHANGED Others
      PROVE  WorkersOf(q)'
  BY <1>8 DEF CloseChannel, Others
<1>9. ASSUME NEW r \in Runs, NEW w \in Workers, Leave(r, w)
      PROVE  WorkersOf(q)'
  BY <1>9 DEF Leave, ExitWorker, Others
<1>10. ASSUME NEW r \in Runs, NEW w \in Workers, OpenTarget(r, w)
      PROVE  WorkersOf(q)'
  <2>1. UNCHANGED <<phase, plan>> /\ Busy(r, w)
    BY <1>10 DEF OpenTarget, Busy
  <2>2. CASE /\ at' = [at EXCEPT ![r][w] = "idle"]
             /\ holds' = [holds EXCEPT ![r][w] = NoItem]
    BY <2>1, <2>2
  <2>3. CASE /\ at' = [at EXCEPT ![r][w] = "moving"]
             /\ holds' = holds
    BY <2>1, <2>3
  <2>4. QED
    BY <1>10, <2>2, <2>3 DEF OpenTarget, Record
<1>11. ASSUME NEW r \in Runs, NEW w \in Workers, OpenRefused(r, w)
      PROVE  WorkersOf(q)'
  <2>1. /\ at' = [at EXCEPT ![r][w] = "idle"]
        /\ holds' = [holds EXCEPT ![r][w] = NoItem]
        /\ UNCHANGED <<phase, plan>>
        /\ Busy(r, w)
    BY <1>11 DEF OpenRefused, Record, Others, Busy
  <2>2. QED
    BY <2>1
<1>12. ASSUME NEW r \in Runs, NEW w \in Workers, CopyEnds(r, w)
      PROVE  WorkersOf(q)'
  <2>1. /\ at' = [at EXCEPT ![r][w] = "idle"]
        /\ holds' = [holds EXCEPT ![r][w] = NoItem]
        /\ UNCHANGED <<phase, plan>>
        /\ Busy(r, w)
    BY <1>12 DEF CopyEnds, Record, Others, Busy
  <2>2. QED
    BY <2>1
<1>13. ASSUME NEW r \in Runs, FailRun(r)
      PROVE  WorkersOf(q)'
  BY <1>13 DEF FailRun, Answer, poolVars, Joined
<1>14. ASSUME NEW r \in Runs, Receipt(r)
      PROVE  WorkersOf(q)'
  BY <1>14 DEF Receipt, Answer, poolVars, Joined
<1>15. ASSUME NEW r \in Runs, Cancel(r)
      PROVE  WorkersOf(q)'
  BY <1>15 DEF Cancel, CancelCaller, Others
<1>16. ASSUME NEW r \in Runs, Crash(r)
      PROVE  WorkersOf(q)'
  BY <1>16 DEF Crash, poolVars
<1>17. CASE UNCHANGED vars
  BY <1>17 DEF vars, poolVars
<1>18. QED
  BY <1>1, <1>2, <1>3, <1>4, <1>5, <1>6, <1>7, <1>8, <1>9, <1>10, <1>11, <1>12, <1>13, <1>14, <1>15, <1>16, <1>17
     DEF Next, Step, Dispatch

(* The directory is its maker's, and once a run has answered it is there   *)
(* only if the answer was success.                                         *)
LEMMA OwnerStep == DownloadInv /\ [Next]_vars => (\A q \in Runs : OwnerOf(q))'
<1> SUFFICES ASSUME DownloadInv, [Next]_vars, NEW q \in Runs
             PROVE  OwnerOf(q)'
  OBVIOUS
<1>t. /\ phase \in [Runs -> Phases]
      /\ result \in [Runs -> Results]
      /\ root \in Runs \cup {Absent, Foreign}
      /\ failure \in [Runs -> Failures \cup {None}]
      /\ at \in [Runs -> [Workers -> Places]]
  BY DEF DownloadInv, TypeOK, PoolTypeOK
<1>i. \A r \in Runs : OwnerOf(r) /\ WorkersOf(r) /\ CauseOf(r)
  BY DEF DownloadInv, WorkersInv, OwnerInv, CopyInv, CauseInv
<1> USE <1>t, <1>i DEF OwnerOf, CauseOf, Canceled, Failed, None, Failures
<1>1. ASSUME NEW r \in Runs, NEW S \in SUBSET Items, ListRefused(r, S)
      PROVE  OwnerOf(q)'
  BY <1>1 DEF ListRefused, Answer, poolVars
<1>2. ASSUME NEW r \in Runs, NEW S \in SUBSET Items, DryRun(r, S)
      PROVE  OwnerOf(q)'
  BY <1>2 DEF DryRun, Listable, Answer, poolVars
<1>3. ASSUME NEW r \in Runs, NEW S \in SUBSET Items, Plan(r, S)
      PROVE  OwnerOf(q)'
  BY <1>3 DEF Plan, Listable, poolVars
<1>4. ASSUME NEW r \in Runs, MakeRoot(r)
      PROVE  OwnerOf(q)'
  BY <1>4, RunsAssumption DEF MakeRoot, StartPool
<1>5. ASSUME NEW r \in Runs, RootRefused(r)
      PROVE  OwnerOf(q)'
  BY <1>5 DEF RootRefused, Answer, poolVars
<1>6. ASSUME NEW r \in Runs, NEW w \in Workers, NEW i \in Items,
             phase[r] = "fetching", HandOver(r, w, i), UNCHANGED Others
      PROVE  OwnerOf(q)'
  BY <1>6 DEF HandOver, Others
<1>7. ASSUME NEW r \in Runs, NEW i \in Items,
             phase[r] = "fetching", Skip(r, i), UNCHANGED Others
      PROVE  OwnerOf(q)'
  BY <1>7 DEF Skip, Others
<1>8. ASSUME NEW r \in Runs, phase[r] = "fetching", CloseChannel(r), UNCHANGED Others
      PROVE  OwnerOf(q)'
  BY <1>8 DEF CloseChannel, Others
<1>9. ASSUME NEW r \in Runs, NEW w \in Workers, Leave(r, w)
      PROVE  OwnerOf(q)'
  BY <1>9 DEF Leave, ExitWorker, Others
<1>10. ASSUME NEW r \in Runs, NEW w \in Workers, OpenTarget(r, w)
      PROVE  OwnerOf(q)'
  BY <1>10, RunsAssumption DEF OpenTarget, Record, WorkersOf, Quiet, Phases
<1>11. ASSUME NEW r \in Runs, NEW w \in Workers, OpenRefused(r, w)
      PROVE  OwnerOf(q)'
  BY <1>11 DEF OpenRefused, Record, Others
<1>12. ASSUME NEW r \in Runs, NEW w \in Workers, CopyEnds(r, w)
      PROVE  OwnerOf(q)'
  BY <1>12 DEF CopyEnds, Record
<1>13. ASSUME NEW r \in Runs, FailRun(r)
      PROVE  OwnerOf(q)'
  BY <1>13, RunsAssumption DEF FailRun, Answer, poolVars, Joined
<1>14. ASSUME NEW r \in Runs, Receipt(r)
      PROVE  OwnerOf(q)'
  BY <1>14 DEF Receipt, Answer, poolVars, Joined
<1>15. ASSUME NEW r \in Runs, Cancel(r)
      PROVE  OwnerOf(q)'
  BY <1>15 DEF Cancel, CancelCaller, Others
<1>16. ASSUME NEW r \in Runs, Crash(r)
      PROVE  OwnerOf(q)'
  BY <1>16 DEF Crash, poolVars
<1>17. CASE UNCHANGED vars
  BY <1>17 DEF vars, poolVars
<1>18. QED
  BY <1>1, <1>2, <1>3, <1>4, <1>5, <1>6, <1>7, <1>8, <1>9, <1>10, <1>11, <1>12, <1>13, <1>14, <1>15, <1>16, <1>17
     DEF Next, Step, Dispatch

(* The context is done for the caller's sake or a recorded failure's.      *)
LEMMA CauseStep == DownloadInv /\ [Next]_vars => (\A q \in Runs : CauseOf(q))'
<1> SUFFICES ASSUME DownloadInv, [Next]_vars, NEW q \in Runs
             PROVE  CauseOf(q)'
  OBVIOUS
<1>t. /\ phase \in [Runs -> Phases]
      /\ result \in [Runs -> Results]
      /\ failure \in [Runs -> Failures \cup {None}]
      /\ callerDone \in [Runs -> BOOLEAN]
      /\ ctxDone \in [Runs -> BOOLEAN]
      /\ at \in [Runs -> [Workers -> Places]]
  BY DEF DownloadInv, TypeOK, PoolTypeOK
<1>i. \A r \in Runs : CauseOf(r) /\ OwnerOf(r) /\ WorkersOf(r)
  BY DEF DownloadInv, WorkersInv, OwnerInv, CopyInv, CauseInv
<1>f. \A r \in Runs, w \in Workers :
        phase[r] # "crashed" /\ at[r][w] \in {"got", "moving"} => phase[r] = "fetching"
  <2> TAKE r \in Runs, w \in Workers
  <2>1. WorkersOf(r) /\ phase[r] \in Phases
    BY <1>t, <1>i
  <2> QED
    BY <2>1 DEF WorkersOf, Quiet, Phases
<1> USE <1>t, <1>i DEF CauseOf, OwnerOf, Canceled, Failed, None, Failures
<1>1. ASSUME NEW r \in Runs, NEW S \in SUBSET Items, ListRefused(r, S)
      PROVE  CauseOf(q)'
  BY <1>1 DEF ListRefused, Answer, poolVars
<1>2. ASSUME NEW r \in Runs, NEW S \in SUBSET Items, DryRun(r, S)
      PROVE  CauseOf(q)'
  BY <1>2 DEF DryRun, Listable, Answer, poolVars
<1>3. ASSUME NEW r \in Runs, NEW S \in SUBSET Items, Plan(r, S)
      PROVE  CauseOf(q)'
  BY <1>3 DEF Plan, Listable, poolVars
<1>4. ASSUME NEW r \in Runs, MakeRoot(r)
      PROVE  CauseOf(q)'
  BY <1>4 DEF MakeRoot, StartPool
<1>5. ASSUME NEW r \in Runs, RootRefused(r)
      PROVE  CauseOf(q)'
  BY <1>5 DEF RootRefused, Answer, poolVars
<1>6. ASSUME NEW r \in Runs, NEW w \in Workers, NEW i \in Items,
             phase[r] = "fetching", HandOver(r, w, i), UNCHANGED Others
      PROVE  CauseOf(q)'
  BY <1>6 DEF HandOver, Others
<1>7. ASSUME NEW r \in Runs, NEW i \in Items,
             phase[r] = "fetching", Skip(r, i), UNCHANGED Others
      PROVE  CauseOf(q)'
  BY <1>7 DEF Skip, Others
<1>8. ASSUME NEW r \in Runs, phase[r] = "fetching", CloseChannel(r), UNCHANGED Others
      PROVE  CauseOf(q)'
  BY <1>8 DEF CloseChannel, Others
<1>9. ASSUME NEW r \in Runs, NEW w \in Workers, Leave(r, w)
      PROVE  CauseOf(q)'
  BY <1>9 DEF Leave, ExitWorker, Others
<1>10. ASSUME NEW r \in Runs, NEW w \in Workers, OpenTarget(r, w)
      PROVE  CauseOf(q)'
  <2>a. phase[r] # "crashed" /\ at[r][w] \in {"got", "moving"}
    BY <1>10 DEF OpenTarget
  <2>b. phase[r] = "fetching"
    BY <2>a, <1>f, Zenon
  <2>1. UNCHANGED <<phase, result, callerDone>> /\ phase[r] = "fetching"
    BY <1>10, <2>b DEF OpenTarget, Others, Record
  <2>2. CASE UNCHANGED <<failure, ctxDone>>
    BY <2>1, <2>2
  <2>3. ASSUME NEW err \in Failures, err = Canceled => ctxDone[r],
               failure' = [failure EXCEPT ![r] = IF @ = None THEN err ELSE @],
               ctxDone' = [ctxDone EXCEPT ![r] = TRUE]
        PROVE  CauseOf(q)'
    BY <2>1, <2>3
  <2>4. QED
    BY <1>10, <2>2, <2>3 DEF OpenTarget, Others, Record
<1>11. ASSUME NEW r \in Runs, NEW w \in Workers, OpenRefused(r, w)
      PROVE  CauseOf(q)'
  <2>a. phase[r] # "crashed" /\ at[r][w] \in {"got", "moving"}
    BY <1>11 DEF OpenRefused
  <2>b. phase[r] = "fetching"
    BY <2>a, <1>f, Zenon
  <2>1. UNCHANGED <<phase, result, callerDone>> /\ phase[r] = "fetching"
    BY <1>11, <2>b DEF OpenRefused, Others, Record
  <2>2. CASE UNCHANGED <<failure, ctxDone>>
    BY <2>1, <2>2
  <2>3. ASSUME NEW err \in Failures, err = Canceled => ctxDone[r],
               failure' = [failure EXCEPT ![r] = IF @ = None THEN err ELSE @],
               ctxDone' = [ctxDone EXCEPT ![r] = TRUE]
        PROVE  CauseOf(q)'
    BY <2>1, <2>3
  <2>4. QED
    BY <1>11, <2>2, <2>3 DEF OpenRefused, Others, Record
<1>12. ASSUME NEW r \in Runs, NEW w \in Workers, CopyEnds(r, w)
      PROVE  CauseOf(q)'
  <2>a. phase[r] # "crashed" /\ at[r][w] \in {"got", "moving"}
    BY <1>12 DEF CopyEnds
  <2>b. phase[r] = "fetching"
    BY <2>a, <1>f, Zenon
  <2>1. UNCHANGED <<phase, result, callerDone>> /\ phase[r] = "fetching"
    BY <1>12, <2>b DEF CopyEnds, Others, Record
  <2>2. CASE UNCHANGED <<failure, ctxDone>>
    BY <2>1, <2>2
  <2>3. ASSUME NEW err \in Failures, err = Canceled => ctxDone[r],
               failure' = [failure EXCEPT ![r] = IF @ = None THEN err ELSE @],
               ctxDone' = [ctxDone EXCEPT ![r] = TRUE]
        PROVE  CauseOf(q)'
    BY <2>1, <2>3
  <2>4. QED
    BY <1>12, <2>2, <2>3 DEF CopyEnds, Others, Record
<1>13. ASSUME NEW r \in Runs, FailRun(r)
      PROVE  CauseOf(q)'
  BY <1>13 DEF FailRun, Answer, poolVars, Joined
<1>14. ASSUME NEW r \in Runs, Receipt(r)
      PROVE  CauseOf(q)'
  BY <1>14 DEF Receipt, Answer, poolVars, Joined
<1>15. ASSUME NEW r \in Runs, Cancel(r)
      PROVE  CauseOf(q)'
  BY <1>15 DEF Cancel, CancelCaller, Others
<1>16. ASSUME NEW r \in Runs, Crash(r)
      PROVE  CauseOf(q)'
  BY <1>16 DEF Crash, poolVars
<1>17. CASE UNCHANGED vars
  BY <1>17 DEF vars, poolVars
<1>18. QED
  BY <1>1, <1>2, <1>3, <1>4, <1>5, <1>6, <1>7, <1>8, <1>9, <1>10, <1>11, <1>12, <1>13, <1>14, <1>15, <1>16, <1>17
     DEF Next, Step, Dispatch

(* Every file is the directory's owner's.                                  *)
LEMMA FilesStep == DownloadInv /\ [Next]_vars => OwnersFiles'
<1> SUFFICES ASSUME DownloadInv, [Next]_vars
             PROVE  OwnersFiles'
  OBVIOUS
<1>t. /\ root \in Runs \cup {Absent, Foreign}
      /\ files \subseteq File
      /\ phase \in [Runs -> Phases]
      /\ at \in [Runs -> [Workers -> Places]]
      /\ holds \in [Runs -> [Workers -> Items \cup {NoItem}]]
  BY DEF DownloadInv, TypeOK, PoolTypeOK
<1>i. \A r \in Runs : OwnerOf(r) /\ WorkersOf(r)
  BY DEF DownloadInv, WorkersInv, OwnerInv, CopyInv, CauseInv
<1>f. OwnersFiles
  BY DEF DownloadInv, OwnerInv
<1>g. \A r \in Runs, w \in Workers :
        phase[r] # "crashed" /\ Busy(r, w) => root = r
  BY <1>i, <1>t DEF WorkersOf, OwnerOf, Quiet, Busy, Phases
<1> USE <1>f
<1> USE <1>t, <1>i DEF OwnersFiles
<1>1. ASSUME NEW r \in Runs, NEW S \in SUBSET Items, ListRefused(r, S)
      PROVE  OwnersFiles'
  BY <1>1 DEF ListRefused, Answer, poolVars
<1>2. ASSUME NEW r \in Runs, NEW S \in SUBSET Items, DryRun(r, S)
      PROVE  OwnersFiles'
  BY <1>2 DEF DryRun, Listable, Answer, poolVars
<1>3. ASSUME NEW r \in Runs, NEW S \in SUBSET Items, Plan(r, S)
      PROVE  OwnersFiles'
  BY <1>3 DEF Plan, Listable, poolVars
<1>4. ASSUME NEW r \in Runs, MakeRoot(r)
      PROVE  OwnersFiles'
  BY <1>4, RunsAssumption DEF MakeRoot, StartPool, File
<1>5. ASSUME NEW r \in Runs, RootRefused(r)
      PROVE  OwnersFiles'
  BY <1>5 DEF RootRefused, Answer, poolVars
<1>6. ASSUME NEW r \in Runs, NEW w \in Workers, NEW i \in Items,
             phase[r] = "fetching", HandOver(r, w, i), UNCHANGED Others
      PROVE  OwnersFiles'
  BY <1>6 DEF HandOver, Others
<1>7. ASSUME NEW r \in Runs, NEW i \in Items,
             phase[r] = "fetching", Skip(r, i), UNCHANGED Others
      PROVE  OwnersFiles'
  BY <1>7 DEF Skip, Others
<1>8. ASSUME NEW r \in Runs, phase[r] = "fetching", CloseChannel(r), UNCHANGED Others
      PROVE  OwnersFiles'
  BY <1>8 DEF CloseChannel, Others
<1>9. ASSUME NEW r \in Runs, NEW w \in Workers, Leave(r, w)
      PROVE  OwnersFiles'
  BY <1>9 DEF Leave, ExitWorker, Others
<1>10. ASSUME NEW r \in Runs, NEW w \in Workers, OpenTarget(r, w)
      PROVE  OwnersFiles'
  BY <1>10, <1>g, RunsAssumption DEF OpenTarget, Record, Mine, Busy
<1>11. ASSUME NEW r \in Runs, NEW w \in Workers, OpenRefused(r, w)
      PROVE  OwnersFiles'
  BY <1>11 DEF OpenRefused, Record, Others
<1>12. ASSUME NEW r \in Runs, NEW w \in Workers, CopyEnds(r, w)
      PROVE  OwnersFiles'
  BY <1>12, <1>g DEF CopyEnds, Record, Mine, Busy
<1>13. ASSUME NEW r \in Runs, FailRun(r)
      PROVE  OwnersFiles'
  BY <1>13 DEF FailRun, Answer, poolVars, Joined
<1>14. ASSUME NEW r \in Runs, Receipt(r)
      PROVE  OwnersFiles'
  BY <1>14 DEF Receipt, Answer, poolVars, Joined
<1>15. ASSUME NEW r \in Runs, Cancel(r)
      PROVE  OwnersFiles'
  BY <1>15 DEF Cancel, CancelCaller, Others
<1>16. ASSUME NEW r \in Runs, Crash(r)
      PROVE  OwnersFiles'
  BY <1>16 DEF Crash, poolVars
<1>17. CASE UNCHANGED vars
  BY <1>17 DEF vars, poolVars
<1>18. QED
  BY <1>1, <1>2, <1>3, <1>4, <1>5, <1>6, <1>7, <1>8, <1>9, <1>10, <1>11, <1>12, <1>13, <1>14, <1>15, <1>16, <1>17
     DEF Next, Step, Dispatch

(* What a run counted as written stays on disk until it answers.           *)
LEMMA WrittenStep == DownloadInv /\ [Next]_vars => (\A q \in Runs : WrittenOf(q))'
<1> SUFFICES ASSUME DownloadInv, [Next]_vars, NEW q \in Runs
             PROVE  WrittenOf(q)'
  OBVIOUS
<1>t. /\ phase \in [Runs -> Phases]
      /\ result \in [Runs -> Results]
      /\ written \in [Runs -> SUBSET Items]
      /\ files \subseteq File
      /\ failure \in [Runs -> Failures \cup {None}]
  BY DEF DownloadInv, TypeOK, PoolTypeOK
<1>i. \A r \in Runs : WrittenOf(r) /\ OwnerOf(r) /\ WorkersOf(r) /\ CauseOf(r) /\ CopyOf(r)
  BY DEF DownloadInv, WorkersInv, OwnerInv, CopyInv, CauseInv, CopyOf
<1>g. \A r \in Runs, w \in Workers :
        phase[r] # "crashed" /\ Busy(r, w) => phase[r] = "fetching"
  BY <1>i, <1>t DEF WorkersOf, Quiet, Busy, Phases
<1>o. \A r, p \in Runs :
        phase[r] = "fetching" /\ (phase[p] = "fetching" \/ result[p] = "ok") => p = r
  BY <1>i DEF OwnerOf, CauseOf
<1> USE <1>t, <1>i DEF WrittenOf
<1>1. ASSUME NEW r \in Runs, NEW S \in SUBSET Items, ListRefused(r, S)
      PROVE  WrittenOf(q)'
  BY <1>1 DEF ListRefused, Answer, poolVars, Canceled
<1>2. ASSUME NEW r \in Runs, NEW S \in SUBSET Items, DryRun(r, S)
      PROVE  WrittenOf(q)'
  BY <1>2 DEF DryRun, Listable, Answer, poolVars
<1>3. ASSUME NEW r \in Runs, NEW S \in SUBSET Items, Plan(r, S)
      PROVE  WrittenOf(q)'
  BY <1>3 DEF Plan, Listable, poolVars
<1>4. ASSUME NEW r \in Runs, MakeRoot(r)
      PROVE  WrittenOf(q)'
  BY <1>4 DEF MakeRoot, StartPool, CopyOf, PlanOf
<1>5. ASSUME NEW r \in Runs, RootRefused(r)
      PROVE  WrittenOf(q)'
  BY <1>5 DEF RootRefused, Answer, poolVars
<1>6. ASSUME NEW r \in Runs, NEW w \in Workers, NEW i \in Items,
             phase[r] = "fetching", HandOver(r, w, i), UNCHANGED Others
      PROVE  WrittenOf(q)'
  BY <1>6 DEF HandOver, Others
<1>7. ASSUME NEW r \in Runs, NEW i \in Items,
             phase[r] = "fetching", Skip(r, i), UNCHANGED Others
      PROVE  WrittenOf(q)'
  BY <1>7 DEF Skip, Others
<1>8. ASSUME NEW r \in Runs, phase[r] = "fetching", CloseChannel(r), UNCHANGED Others
      PROVE  WrittenOf(q)'
  BY <1>8 DEF CloseChannel, Others
<1>9. ASSUME NEW r \in Runs, NEW w \in Workers, Leave(r, w)
      PROVE  WrittenOf(q)'
  BY <1>9 DEF Leave, ExitWorker, Others
<1>10. ASSUME NEW r \in Runs, NEW w \in Workers, OpenTarget(r, w)
      PROVE  WrittenOf(q)'
  BY <1>10, <1>g DEF OpenTarget, Record, Busy, None, Canceled, Failed
<1>11. ASSUME NEW r \in Runs, NEW w \in Workers, OpenRefused(r, w)
      PROVE  WrittenOf(q)'
  BY <1>11, <1>g DEF OpenRefused, Record, Others, Busy, None, Canceled, Failed
<1>12. ASSUME NEW r \in Runs, NEW w \in Workers, CopyEnds(r, w)
      PROVE  WrittenOf(q)'
  BY <1>12, <1>g DEF CopyEnds, Record, Mine, Busy, None, Canceled, Failed
<1>13. ASSUME NEW r \in Runs, FailRun(r)
      PROVE  WrittenOf(q)'
  BY <1>13, <1>o DEF FailRun, Answer, poolVars, Joined, Failures, Canceled, Failed, None, CauseOf, OwnerOf
<1>14. ASSUME NEW r \in Runs, Receipt(r)
      PROVE  WrittenOf(q)'
  BY <1>14 DEF Receipt, Answer, poolVars, Joined
<1>15. ASSUME NEW r \in Runs, Cancel(r)
      PROVE  WrittenOf(q)'
  BY <1>15 DEF Cancel, CancelCaller, Others
<1>16. ASSUME NEW r \in Runs, Crash(r)
      PROVE  WrittenOf(q)'
  BY <1>16 DEF Crash, poolVars
<1>17. CASE UNCHANGED vars
  BY <1>17 DEF vars, poolVars
<1>18. QED
  BY <1>1, <1>2, <1>3, <1>4, <1>5, <1>6, <1>7, <1>8, <1>9, <1>10, <1>11, <1>12, <1>13, <1>14, <1>15, <1>16, <1>17
     DEF Next, Step, Dispatch

(* Where the planned keys are: nothing is lost while the context is live.  *)
LEMMA PlanStep == DownloadInv /\ [Next]_vars => (\A q \in Runs : PlanOf(q))'
<1> SUFFICES ASSUME DownloadInv, [Next]_vars, NEW q \in Runs
             PROVE  PlanOf(q)'
  OBVIOUS
<1>t. /\ phase \in [Runs -> Phases]
      /\ plan \in [Runs -> SUBSET Items]
      /\ pending \in [Runs -> SUBSET Items]
      /\ channel \in [Runs -> {"none", "open", "closed"}]
      /\ at \in [Runs -> [Workers -> Places]]
      /\ holds \in [Runs -> [Workers -> Items \cup {NoItem}]]
      /\ written \in [Runs -> SUBSET Items]
      /\ failure \in [Runs -> Failures \cup {None}]
      /\ callerDone \in [Runs -> BOOLEAN]
      /\ ctxDone \in [Runs -> BOOLEAN]
      /\ result \in [Runs -> Results]
  BY DEF DownloadInv, TypeOK, PoolTypeOK
<1>i. \A r \in Runs : PlanOf(r) /\ WorkersOf(r) /\ CauseOf(r)
  BY DEF DownloadInv, WorkersInv, OwnerInv, CopyInv, CauseInv, CopyOf
<1>c. \A r \in Runs : phase[r] # "done" => result[r] # "ok"
  BY <1>i DEF CauseOf
<1>g. \A r \in Runs, w \in Workers :
        phase[r] # "crashed" /\ at[r][w] \in {"got", "moving"}
          => phase[r] = "fetching" /\ result[r] # "ok"
  BY <1>i, <1>t, <1>c DEF WorkersOf, Quiet, Phases
<1> USE <1>t, <1>i DEF PlanOf, Held, Busy
<1>1. ASSUME NEW r \in Runs, NEW S \in SUBSET Items, ListRefused(r, S)
      PROVE  PlanOf(q)'
  BY <1>1 DEF ListRefused, Answer, poolVars, Canceled
<1>2. ASSUME NEW r \in Runs, NEW S \in SUBSET Items, DryRun(r, S)
      PROVE  PlanOf(q)'
  BY <1>2 DEF DryRun, Listable, Answer, poolVars
<1>3. ASSUME NEW r \in Runs, NEW S \in SUBSET Items, Plan(r, S)
      PROVE  PlanOf(q)'
  <2>1. UNCHANGED <<pending, channel, at, holds, written, callerDone, ctxDone, result>>
    BY <1>3 DEF Plan, poolVars
  <2>2. CASE q = r
    BY <1>3, <1>c, <2>1, <2>2 DEF Plan, Listable
  <2>3. CASE q # r
    BY <1>3, <2>1, <2>3 DEF Plan
  <2>4. QED
    BY <2>2, <2>3
<1>4. ASSUME NEW r \in Runs, MakeRoot(r)
      PROVE  PlanOf(q)'
  BY <1>4 DEF MakeRoot, StartPool
<1>5. ASSUME NEW r \in Runs, RootRefused(r)
      PROVE  PlanOf(q)'
  <2>1. UNCHANGED <<plan, pending, channel, at, holds, written, callerDone, ctxDone>>
    BY <1>5 DEF RootRefused, poolVars
  <2>2. phase' = [phase EXCEPT ![r] = "done"] /\ q # r => result'[q] = result[q]
    BY <1>5 DEF RootRefused, Answer
  <2>3. result'[r] # "ok"
    BY <1>5 DEF RootRefused, Answer
  <2>4. QED
    BY <1>5, <2>1, <2>2, <2>3 DEF RootRefused, Answer
<1>6. ASSUME NEW r \in Runs, NEW w \in Workers, NEW i \in Items,
             phase[r] = "fetching", HandOver(r, w, i), UNCHANGED Others
      PROVE  PlanOf(q)'
  BY <1>6 DEF HandOver, Others
<1>7. ASSUME NEW r \in Runs, NEW i \in Items,
             phase[r] = "fetching", Skip(r, i), UNCHANGED Others
      PROVE  PlanOf(q)'
  BY <1>7 DEF Skip, Others
<1>8. ASSUME NEW r \in Runs, phase[r] = "fetching", CloseChannel(r), UNCHANGED Others
      PROVE  PlanOf(q)'
  BY <1>8 DEF CloseChannel, Others
<1>9. ASSUME NEW r \in Runs, NEW w \in Workers, Leave(r, w)
      PROVE  PlanOf(q)'
  <2>1. /\ at' = [at EXCEPT ![r][w] = "exited"]
        /\ UNCHANGED <<phase, plan, result, pending, channel, holds, written, callerDone, ctxDone>>
        /\ at[r][w] = "idle"
    BY <1>9 DEF Leave, ExitWorker, Others
  <2>2. Held(q) \subseteq Held(q)'
    BY <2>1
  <2>3. QED
    BY <2>1, <2>2
<1>10. ASSUME NEW r \in Runs, NEW w \in Workers, OpenTarget(r, w)
      PROVE  PlanOf(q)'
  <2>a. phase[r] = "fetching" /\ result[r] # "ok"
    BY <1>10, <1>g DEF OpenTarget
  <2>1. CASE Record(r, w, Canceled)
    <3>1. UNCHANGED <<phase, plan, result, pending, channel, written, callerDone>>
      BY <1>10, <2>1 DEF OpenTarget, Record, Canceled, None
    <3>2. ctxDone' = [ctxDone EXCEPT ![r] = TRUE]
      BY <2>1 DEF Record, Canceled, None
    <3>3. q # r => Held(q) \subseteq Held(q)'
      BY <2>1 DEF Record
    <3>4. CASE q = r
      BY <2>a, <3>1, <3>2, <3>4
    <3>5. CASE q # r
      <4>0. ctxDone'[q] = ctxDone[q]
        BY <3>2, <3>5
      <4>1. Held(q) \subseteq Held(q)'
        BY <3>3, <3>5
      <4>2. PlanOf(q)
        OBVIOUS
      <4>3. QED
        BY <3>1, <4>0, <4>1, <4>2
    <3>6. QED
      BY <3>4, <3>5
  <2>2. CASE ~ctxDone[r]
    <3>1. /\ at' = [at EXCEPT ![r][w] = "moving"]
          /\ UNCHANGED <<phase, plan, result, pending, channel, holds, written, callerDone, ctxDone>>
          /\ at[r][w] = "got"
      BY <1>10, <2>2 DEF OpenTarget
    <3>2. Held(q) \subseteq Held(q)'
      BY <3>1
    <3>3. QED
      BY <3>1, <3>2
  <2>3. QED
    BY <1>10, <2>1, <2>2 DEF OpenTarget
<1>11. ASSUME NEW r \in Runs, NEW w \in Workers, OpenRefused(r, w)
      PROVE  PlanOf(q)'
  <2>1. UNCHANGED <<phase, plan, result, pending, channel, written, callerDone>>
    BY <1>11 DEF OpenRefused, Record, Others, None, Failed
  <2>2. ctxDone' = [ctxDone EXCEPT ![r] = TRUE]
    BY <1>11 DEF OpenRefused, Record, None, Failed
  <2>3. q # r => Held(q) \subseteq Held(q)'
    BY <1>11 DEF OpenRefused, Record
  <2>4. QED
    BY <2>1, <2>2, <2>3
<1>12. ASSUME NEW r \in Runs, NEW w \in Workers, CopyEnds(r, w)
      PROVE  PlanOf(q)'
  <2>0. holds[r][w] \in plan[r] /\ Busy(r, w) /\ phase[r] = "fetching" /\ result[r] # "ok"
    BY <1>12, <1>g DEF CopyEnds, WorkersOf
  <2>1. UNCHANGED <<phase, plan, result, pending, channel, callerDone>>
    BY <1>12 DEF CopyEnds, Record
  <2>2. CASE Record(r, w, None)
    <3>1. /\ written' = [written EXCEPT ![r] = @ \cup {holds[r][w]}]
          /\ UNCHANGED ctxDone
          /\ at' = [at EXCEPT ![r][w] = "idle"]
          /\ holds' = [holds EXCEPT ![r][w] = NoItem]
      BY <2>2 DEF Record
    <3>2. ASSUME NEW k \in Held(q), k # holds[r][w] \/ q # r
          PROVE  k \in Held(q)'
      <4>1. PICK v \in Workers : Busy(q, v) /\ holds[q][v] = k
        BY <3>2
      <4>2. at'[q][v] = at[q][v] /\ holds'[q][v] = holds[q][v]
        BY <3>1, <3>2, <4>1
      <4>3. QED
        BY <4>1, <4>2
    <3>3. CASE q = r
      BY <2>0, <2>1, <3>1, <3>2, <3>3
    <3>4. CASE q # r
      BY <2>1, <3>1, <3>2, <3>4
    <3>5. QED
      BY <3>3, <3>4
  <2>3. ASSUME NEW err, err # None, Record(r, w, err)
        PROVE  PlanOf(q)'
    <3>1. /\ ctxDone' = [ctxDone EXCEPT ![r] = TRUE]
          /\ UNCHANGED written
          /\ at' = [at EXCEPT ![r][w] = "idle"]
          /\ holds' = [holds EXCEPT ![r][w] = NoItem]
      BY <2>3 DEF Record
    <3>2. q # r => Held(q) \subseteq Held(q)'
      BY <3>1
    <3>3. QED
      BY <2>0, <2>1, <3>1, <3>2
  <2>4. QED
    BY <1>12, <2>2, <2>3 DEF CopyEnds, Canceled, Failed, None
<1>13. ASSUME NEW r \in Runs, FailRun(r)
      PROVE  PlanOf(q)'
  <2>1. UNCHANGED <<plan, pending, channel, at, holds, written, callerDone, ctxDone>>
    BY <1>13 DEF FailRun, poolVars
  <2>f. failure[r] \in Failures
    BY <1>13 DEF FailRun
  <2>2. failure[r] # "ok"
    BY <2>f DEF Failures, Canceled, Failed
  <2>3. QED
    BY <1>13, <2>1, <2>2 DEF FailRun, Answer
<1>14. ASSUME NEW r \in Runs, Receipt(r)
      PROVE  PlanOf(q)'
  <2>1. ~callerDone[r] => ~ctxDone[r]
    BY <1>14 DEF Receipt, CauseOf
  <2>2. Held(r) = {} /\ pending[r] = {}
    BY <1>14 DEF Receipt, Joined
  <2>3. ~callerDone[r] => plan[r] \subseteq written[r]
    BY <1>14, <2>1, <2>2 DEF Receipt
  <2>4. QED
    BY <1>14, <2>3 DEF Receipt, Answer, poolVars
<1>15. ASSUME NEW r \in Runs, Cancel(r)
      PROVE  PlanOf(q)'
  BY <1>15 DEF Cancel, CancelCaller, Others, CauseOf
<1>16. ASSUME NEW r \in Runs, Crash(r)
      PROVE  PlanOf(q)'
  BY <1>16 DEF Crash, poolVars
<1>17. CASE UNCHANGED vars
  BY <1>17 DEF vars, poolVars
<1>18. QED
  BY <1>1, <1>2, <1>3, <1>4, <1>5, <1>6, <1>7, <1>8, <1>9, <1>10, <1>11, <1>12, <1>13, <1>14, <1>15, <1>16, <1>17
     DEF Next, Step, Dispatch

-----------------------------------------------------------------------------

(* The invariant holds at the start and is kept by every step.             *)
LEMMA InvInit == Init => DownloadInv
<1> SUFFICES ASSUME Init PROVE DownloadInv
  OBVIOUS
<1> USE DEF Init, PoolInit
<1>1. TypeOK
  BY DEF TypeOK, PoolTypeOK, Phases, Results, Places, None
<1>2. WorkersInv
  BY DEF WorkersInv, WorkersOf, Quiet, Busy
<1>3. OwnerInv
  BY RunsAssumption DEF OwnerInv, OwnersFiles, OwnerOf
<1>4. CopyInv
  BY DEF CopyInv, CopyOf, WrittenOf, PlanOf
<1>5. CauseInv
  BY DEF CauseInv, CauseOf, None, Canceled
<1>6. QED
  BY <1>1, <1>2, <1>3, <1>4, <1>5 DEF DownloadInv

LEMMA InvStep == DownloadInv /\ [Next]_vars => DownloadInv'
BY TypeStep, WorkersStep, OwnerStep, CauseStep, FilesStep, WrittenStep, PlanStep
   DEF DownloadInv, WorkersInv, OwnerInv, CauseInv, CopyInv, CopyOf

THEOREM DownloadInvariant == Spec => []DownloadInv
<1>1. QED
  BY InvInit, InvStep, PTL DEF Spec

(* Every variable always has its type.                                     *)
THEOREM TypeCorrect == Spec => []TypeOK
<1>1. DownloadInv => TypeOK
  BY DEF DownloadInv
<1>2. QED
  BY <1>1, DownloadInvariant, PTL

(* No run ever writes into a directory it did not make.                    *)
THEOREM DirectoryHasOneOwner == Spec => []OneRunPerDirectory
<1>1. DownloadInv => OneRunPerDirectory
  BY DEF DownloadInv, OwnerInv, OwnersFiles, OwnerOf, OneRunPerDirectory, Made
<1>2. QED
  BY <1>1, DownloadInvariant, PTL

(* A run that answered an error has left nothing behind.                   *)
THEOREM NoPartialDirectory == Spec => []FailedRunLeavesNothing
<1>1. DownloadInv => FailedRunLeavesNothing
  BY DEF DownloadInv, OwnerInv, OwnersFiles, OwnerOf, FailedRunLeavesNothing
<1>2. QED
  BY <1>1, DownloadInvariant, PTL

(* A success nobody cancelled copied everything that was listed.           *)
THEOREM WholeUnlessCancelled == Spec => []SuccessIsWhole
<1>1. DownloadInv => SuccessIsWhole
  <2> SUFFICES ASSUME DownloadInv, NEW r \in Runs, result[r] = "ok", ~callerDone[r]
               PROVE  WholeCopy(r)
    BY DEF SuccessIsWhole
  <2>1. WrittenOf(r) /\ PlanOf(r)
    BY DEF DownloadInv, CopyInv, CopyOf
  <2>2. plan[r] = written[r]
    BY <2>1 DEF PlanOf
  <2>3. QED
    BY <2>1, <2>2 DEF WrittenOf, WholeCopy
<1>2. QED
  BY <1>1, DownloadInvariant, PTL

(* The reported error is the cause of the stop.                            *)
THEOREM FirstFailureReported == Spec => []CauseNotConsequence
<1>1. DownloadInv => CauseNotConsequence
  BY DEF DownloadInv, CauseInv, CauseOf, CauseNotConsequence
<1>2. QED
  BY <1>1, DownloadInvariant, PTL
=============================================================================
