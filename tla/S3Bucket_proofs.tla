-------------------------- MODULE S3Bucket_proofs ---------------------------
(***************************************************************************)
(* Proofs about S3Bucket, for every set of calls, of uploads, of workers   *)
(* and of keys, whatever the calls were asked.                             *)
(*                                                                         *)
(* Each actor's part of the invariant says what it may still believe of    *)
(* the keys nobody else has changed since it looked.  A bystander's part   *)
(* survives because a key is either in its `touched` or as it was          *)
(* (Bystander), so each step has only its own actor's part to keep.        *)
(***************************************************************************)
EXTENDS S3Bucket, TLAPS

Quiet(r) == \A w \in Workers : at[r][w] \in {"unstarted", "exited"}

(* Only an upload that is sending has workers, or an open channel.         *)
WorkersOf(r) ==
  /\ phase[r] # "sending" => Quiet(r) /\ channel[r] # "open"
  /\ \A w \in Workers : Busy(r, w) => holds[r][w] \in plan[r]
  /\ \A w \in Workers : sent[r][w] # 0 => at[r][w] = "moving"

(* The files in a worker's hands.                                          *)
Held(r) == {i \in Items : \E w \in Workers : Busy(r, w) /\ holds[r][w] = i}

(* While the context is live nothing of the plan is lost, and the context  *)
(* ends for a cause.                                                       *)
PlanOf(r) ==
  /\ phase[r] \in {"start", "planned"} =>
       pending[r] = {} /\ written[r] = {} /\ failure[r] = None
  /\ phase[r] # "done" => result[r] = "pending"
  /\ pending[r] \subseteq plan[r]
  /\ channel[r] = "closed" => pending[r] = {}
  /\ failure[r] # None => ctxDone[r]
  /\ ctxDone[r] /\ failure[r] = None => callerDone[r]
  /\ phase[r] = "sending" /\ ~ctxDone[r]
       => plan[r] \subseteq pending[r] \cup Held(r) \cup written[r]
  /\ result[r] = "ok" /\ ~callerDone[r] => plan[r] \subseteq written[r]

(* What an upload told not to overwrite may meet: nothing, or its own.     *)
ClearOf(r) ==
  phase[r] = "sending" /\ ~overwrite[r] =>
    \A i \in Items : KeyOf[i] \in touched[r] \/ bucket[KeyOf[i]] \in {Nothing, i}

(* What it has sent is there.                                              *)
SentOf(r, i) == i \in written[r] \/ \E w \in Workers : holds[r][w] = i /\ sent[r][w] # 0

ThereOf(r) ==
  phase[r] = "sending" \/ result[r] = "ok" =>
    \A i \in Items : SentOf(r, i) => KeyOf[i] \in touched[r] \/ bucket[KeyOf[i]] = i

(* How far a call is, and what it may say.                                 *)
AnswerOf(c) ==
  /\ place[c] # "done" => answer[c] = "pending" /\ c \notin removed
  /\ place[c] = "checked" => Op(c) \in {"copy", "rename"}
  /\ place[c] = "copied" => Op(c) = "rename" /\ moved[c] # Nothing
  /\ place[c] = "reading" => Op(c) = "get"
  /\ Op(c) = "rename" =>
       /\ answer[c] = "ok" => moved[c] # Nothing /\ c \in removed
       /\ answer[c] = "partial" => moved[c] # Nothing
       /\ answer[c] \in {"error", "taken", "dryrun"} => c \notin removed

(* Whose the file is, and that it is whole once its maker has answered.    *)
FileOf(c) ==
  /\ out.by = c <=> Op(c) = "get" /\ (place[c] = "reading" \/ answer[c] = "ok")
  /\ out.by = c /\ place[c] = "done" => out.whole

(* What a call has seen still holds where nobody else has written.         *)
SeenOf(c) ==
  /\ place[c] = "checked" => Dst(c) \in touched[c] \/ bucket[Dst(c)] = Nothing
  /\ place[c] = "copied" =>
       \/ Src(c) \in touched[c] \/ Dst(c) \in touched[c]
       \/ bucket[Src(c)] = moved[c] /\ bucket[Dst(c)] = moved[c]

PoolInv == \A r \in Runs : WorkersOf(r) /\ PlanOf(r)
CallInv == \A c \in Calls : AnswerOf(c) /\ FileOf(c)
KeysInv ==
  /\ \A r \in Runs : ClearOf(r) /\ ThereOf(r)
  /\ \A c \in Calls : SeenOf(c)

BucketInv == TypeOK /\ PoolInv /\ CallInv /\ KeysInv

-----------------------------------------------------------------------------
(* What each kind of step touches                                          *)

LEMMA Apart ==
  /\ \A a \in Calls : a \notin Runs
  /\ Calls \subseteq Actors /\ Runs \subseteq Actors
BY ActorsAssumption DEF Actors

LEMMA WordsDiffer ==
  /\ None \notin Failures
  /\ "ok" \notin Failures /\ "pending" \notin Failures
BY DEF None, Failures, Canceled, Failed

(* Store keeps the types, and so does a fresh look.                        *)
LEMMA StoreType ==
  ASSUME TypeOK, NEW a \in Actors, NEW k \in Keys, NEW x \in Contents \cup {Nothing},
         Store(a, k, x)
  PROVE  /\ bucket' \in [Keys -> Contents \cup {Nothing}]
         /\ touched' \in [Actors -> SUBSET Keys]
BY DEF TypeOK, Store

LEMMA LookedType ==
  ASSUME TypeOK, NEW a \in Actors, Looked(a)
  PROVE  touched' \in [Actors -> SUBSET Keys]
BY DEF TypeOK, Looked

(* After a store by another, an actor that relies on what it saw has each  *)
(* key in its `touched`, or as it was.                                     *)
LEMMA StoreTold ==
  ASSUME TypeOK, NEW a \in Actors, NEW k \in Keys, NEW x, Store(a, k, x),
         NEW b \in Actors, Relies(b)
  PROVE  /\ b # a => \A j \in Keys : j \notin touched'[b] =>
                       j \notin touched[b] /\ bucket'[j] = bucket[j]
         /\ b = a => touched'[b] = touched[b]
         /\ bucket' = [bucket EXCEPT ![k] = x]
<1>1. touched'[b] = IF b # a /\ bucket[k] # x THEN touched[b] \cup {k} ELSE touched[b]
  BY DEF Store
<1>2. bucket' = [bucket EXCEPT ![k] = x] /\ bucket \in [Keys -> Contents \cup {Nothing}]
  BY DEF Store, TypeOK
<1>3. QED
  BY <1>1, <1>2

(* A call leaves the uploads and the other calls alone.                    *)
LEMMA CallFrame ==
  ASSUME TypeOK, NEW c \in Calls, Call(c)
  PROVE  /\ UNCHANGED <<poolVars, uploads, request>>
         /\ \A b \in Calls : b # c =>
              /\ place'[b] = place[b] /\ moved'[b] = moved[b] /\ answer'[b] = answer[b]
              /\ b \in removed' <=> b \in removed
<1> USE DEF TypeOK, Answered
<1>1. CASE Preview(c) \/ Fails(c) \/ RemoveFails(c)
  BY <1>1 DEF Preview, Fails, RemoveFails
<1>2. CASE RefuseIfTaken(c)
  BY <1>2 DEF RefuseIfTaken
<1>3. CASE CopyObject(c)
  BY <1>3 DEF CopyObject
<1>4. CASE RemoveSource(c)
  BY <1>4 DEF RemoveSource
<1>5. CASE Put(c) \/ Remove(c)
  BY <1>5 DEF Put, Remove
<1>6. CASE OpenOut(c) \/ WriteOut(c)
  BY <1>6 DEF OpenOut, WriteOut
<1>7. QED
  BY <1>1, <1>2, <1>3, <1>4, <1>5, <1>6 DEF Call

(* An upload leaves the calls and the other uploads alone.                 *)
SameUpload(q) ==
  /\ phase'[q] = phase[q] /\ plan'[q] = plan[q] /\ result'[q] = result[q]
  /\ sent'[q] = sent[q] /\ pending'[q] = pending[q] /\ channel'[q] = channel[q]
  /\ at'[q] = at[q] /\ holds'[q] = holds[q] /\ written'[q] = written[q]
  /\ failure'[q] = failure[q] /\ callerDone'[q] = callerDone[q]
  /\ ctxDone'[q] = ctxDone[q]

LEMMA UploadFrame ==
  ASSUME TypeOK, NEW r \in Runs, Upload(r)
  PROVE  /\ UNCHANGED <<calls, overwrite>>
         /\ \A q \in Runs : q # r => SameUpload(q)
<1> USE DEF TypeOK, PoolTypeOK, poolVars, uploads, Finish, SameUpload
<1> DEFINE Alone == /\ UNCHANGED <<calls, overwrite>>
                    /\ \A q \in Runs : q # r => SameUpload(q)
<1>1. PlanUpload(r) \/ TargetRefused(r) \/ PreviewUpload(r) \/ Receipt(r) => Alone
  BY DEF PlanUpload, TargetRefused, PreviewUpload, Receipt
<1>2. Begin(r) => Alone
  BY DEF Begin, StartPool
<1>3. Dispatch(r) => Alone
  BY DEF Dispatch, HandOver, Skip, CloseChannel, ExitWorker
<1>4. ASSUME NEW w \in Workers, BeginPut(r, w) PROVE Alone
  BY <1>4 DEF BeginPut, Record
<1>5. ASSUME NEW w \in Workers, ApplyPut(r, w) PROVE Alone
  BY <1>5 DEF ApplyPut
<1>6. ASSUME NEW w \in Workers, EndPut(r, w) PROVE Alone
  BY <1>6 DEF EndPut, Record
<1>7. Cancel(r) => Alone
  BY DEF Cancel, CancelCaller
<1>8. QED
  BY <1>1, <1>2, <1>3, <1>4, <1>5, <1>6, <1>7 DEF Upload

(* What another actor's step may do to an actor that relies on what it     *)
(* saw: change a key, and then that key is in its `touched`.               *)
Told(b) == \A j \in Keys : j \notin touched'[b] => j \notin touched[b] /\ bucket'[j] = bucket[j]

LEMMA CallTold ==
  ASSUME TypeOK, NEW c \in Calls, Call(c), NEW b \in Actors, b # c, Relies(b)
  PROVE  Told(b)
<1> USE Apart DEF Told
<1>r. \A d \in Calls : Src(d) \in Keys /\ Dst(d) \in Keys
  BY DEF TypeOK, Src, Dst
<1>1. CASE UNCHANGED <<bucket, touched>>
  BY <1>1
<1>2. CASE RefuseIfTaken(c)
  BY <1>2 DEF RefuseIfTaken, Looked, TypeOK
<1>3. CASE CopyObject(c)
  BY <1>3, <1>r, StoreTold DEF CopyObject
<1>4. CASE RemoveSource(c)
  BY <1>4, <1>r, StoreTold DEF RemoveSource
<1>5. CASE Put(c)
  BY <1>5, <1>r, StoreTold DEF Put
<1>6. CASE Remove(c)
  BY <1>6, <1>r, StoreTold DEF Remove
<1>7. QED
  BY <1>1, <1>2, <1>3, <1>4, <1>5, <1>6
     DEF Call, Preview, Fails, RemoveFails, OpenOut, WriteOut

(* A worker with a request under way holds a file of its plan.             *)
LEMMA HoldsFile ==
  ASSUME TypeOK, PoolInv, NEW r \in Runs, NEW w \in Workers, Busy(r, w)
  PROVE  /\ holds[r][w] \in Items /\ holds[r][w] \in plan[r]
         /\ KeyOf[holds[r][w]] \in Keys
         /\ phase[r] = "sending"
<1>1. holds[r][w] \in plan[r] /\ phase[r] = "sending"
  BY DEF PoolInv, WorkersOf, Busy, Quiet
<1>2. plan[r] \subseteq Items
  BY DEF TypeOK
<1>3. QED
  BY <1>1, <1>2, KeyOfAssumption

LEMMA UploadTold ==
  ASSUME TypeOK, PoolInv, NEW r \in Runs, Upload(r), NEW b \in Actors, b # r, Relies(b)
  PROVE  Told(b)
<1> USE Apart DEF Told
<1>1. CASE UNCHANGED <<bucket, touched>>
  BY <1>1
<1>2. CASE Begin(r)
  BY <1>2 DEF Begin, Looked, TypeOK
<1>3. ASSUME NEW w \in Workers, ApplyPut(r, w) PROVE Told(b)
  <2>1. KeyOf[holds[r][w]] \in Keys
    BY <1>3, HoldsFile DEF ApplyPut, Busy
  <2>2. QED
    BY <1>3, <2>1, StoreTold DEF ApplyPut
<1>4. QED
  BY <1>1, <1>2, <1>3
     DEF Upload, PlanUpload, TargetRefused, PreviewUpload, Receipt, Dispatch, BeginPut,
         EndPut, Cancel

-----------------------------------------------------------------------------
(* Types                                                                   *)

LEMMA RecordType ==
  ASSUME PoolTypeOK, NEW r \in Runs, NEW w \in Workers,
         NEW err \in Failures \cup {None}, holds[r][w] \in Items,
         Record(r, w, err)
  PROVE  PoolTypeOK'
<1> USE DEF PoolTypeOK, Record
<1>1. at' \in [Runs -> [Workers -> Places]]
  BY DEF Places
<1>2. holds' \in [Runs -> [Workers -> Items \cup {NoItem}]]
  OBVIOUS
<1>3. written' \in [Runs -> SUBSET Items]
  OBVIOUS
<1>4. failure' \in [Runs -> Failures \cup {None}] /\ ctxDone' \in [Runs -> BOOLEAN]
  OBVIOUS
<1>5. QED
  BY <1>1, <1>2, <1>3, <1>4

LEMMA CallType == ASSUME TypeOK, NEW c \in Calls, Call(c) PROVE TypeOK'
<1> USE Apart DEF TypeOK, Answered, Answers, Callplaces
<1>p. PoolTypeOK'
  BY CallFrame DEF PoolTypeOK, poolVars
<1>u. UNCHANGED <<uploads, request>>
  BY CallFrame
<1>k. \A d \in Calls : Src(d) \in Keys /\ Dst(d) \in Keys
  BY DEF Src, Dst
<1>b. \A j \in Keys : bucket[j] \in Contents \cup {Nothing}
  OBVIOUS
<1>f. /\ NoFile \in [by : Calls \cup {Nothing}, whole : BOOLEAN]
      /\ \A b \in BOOLEAN : [by |-> c, whole |-> b] \in [by : Calls \cup {Nothing}, whole : BOOLEAN]
  BY DEF NoFile
<1> USE <1>p, <1>u DEF uploads
<1>1. CASE Preview(c) \/ Fails(c) \/ RemoveFails(c)
  BY <1>1 DEF Preview, Fails, RemoveFails
<1>2. CASE RefuseIfTaken(c)
  BY <1>2, LookedType DEF RefuseIfTaken
<1>3. CASE CopyObject(c)
  <2>1. /\ bucket' \in [Keys -> Contents \cup {Nothing}]
        /\ touched' \in [Actors -> SUBSET Keys]
    BY <1>3, <1>k, <1>b, StoreType DEF CopyObject
  <2>2. QED
    BY <1>3, <1>k, <1>b, <2>1 DEF CopyObject
<1>4. CASE RemoveSource(c)
  <2>1. /\ bucket' \in [Keys -> Contents \cup {Nothing}]
        /\ touched' \in [Actors -> SUBSET Keys]
    BY <1>4, <1>k, StoreType DEF RemoveSource
  <2>2. QED
    BY <1>4, <2>1 DEF RemoveSource
<1>5. CASE Put(c)
  <2>1. /\ bucket' \in [Keys -> Contents \cup {Nothing}]
        /\ touched' \in [Actors -> SUBSET Keys]
    BY <1>5, <1>k, StoreType DEF Put, Contents
  <2>2. QED
    BY <1>5, <2>1 DEF Put
<1>6. CASE Remove(c)
  <2>1. /\ bucket' \in [Keys -> Contents \cup {Nothing}]
        /\ touched' \in [Actors -> SUBSET Keys]
    BY <1>6, <1>k, StoreType DEF Remove
  <2>2. QED
    BY <1>6, <2>1 DEF Remove
<1>7. CASE OpenOut(c)
  <2>1. out' \in [by : Calls \cup {Nothing}, whole : BOOLEAN]
    BY <1>7, <1>f DEF OpenOut
  <2>2. place' \in [Calls -> Callplaces] /\ answer' \in [Calls -> Answers]
    BY <1>7 DEF OpenOut
  <2>3. QED
    BY <1>7, <2>1, <2>2 DEF OpenOut
<1>8. CASE WriteOut(c)
  <2>1. out' \in [by : Calls \cup {Nothing}, whole : BOOLEAN]
    BY <1>8, <1>f DEF WriteOut
  <2>2. place' \in [Calls -> Callplaces] /\ answer' \in [Calls -> Answers]
    BY <1>8 DEF WriteOut
  <2>3. QED
    BY <1>8, <2>1, <2>2 DEF WriteOut
<1>9. QED
  BY <1>1, <1>2, <1>3, <1>4, <1>5, <1>6, <1>7, <1>8 DEF Call

LEMMA UploadType == ASSUME TypeOK, PoolInv, NEW r \in Runs, Upload(r) PROVE TypeOK'
<1> USE Apart DEF TypeOK, Finish, Phases, Results, Failures, Canceled, Failed
<1>u. UNCHANGED <<calls, overwrite>>
  BY UploadFrame
<1> USE <1>u DEF calls
<1>1. CASE PlanUpload(r) \/ TargetRefused(r) \/ PreviewUpload(r)
  <2>1. PoolTypeOK'
    BY <1>1 DEF PlanUpload, TargetRefused, PreviewUpload, poolVars, PoolTypeOK
  <2>2. CASE PlanUpload(r)
    <3>1. plan' \in [Runs -> SUBSET Items]
      BY <2>2 DEF PlanUpload
    <3>2. phase' \in [Runs -> Phases] /\ result' \in [Runs -> Results]
      BY <2>2 DEF PlanUpload
    <3>3. QED
      BY <2>1, <2>2, <3>1, <3>2 DEF PlanUpload
  <2>3. CASE TargetRefused(r)
    BY <2>1, <2>3 DEF TargetRefused
  <2>4. CASE PreviewUpload(r)
    BY <2>1, <2>4 DEF PreviewUpload
  <2>5. QED
    BY <1>1, <2>2, <2>3, <2>4
<1>2. CASE Begin(r)
  <2>1. touched' \in [Actors -> SUBSET Keys]
    BY <1>2, LookedType DEF Begin
  <2>2. PoolTypeOK'
    BY <1>2 DEF Begin, StartPool, PoolTypeOK, Places
  <2>3. QED
    BY <1>2, <2>1, <2>2 DEF Begin
<1>3. CASE Dispatch(r)
  <2>1. ASSUME NEW w \in Workers, NEW i \in Items, HandOver(r, w, i)
        PROVE  PoolTypeOK'
    BY <2>1 DEF HandOver, PoolTypeOK, Places
  <2>2. ASSUME NEW i \in Items, Skip(r, i)
        PROVE  PoolTypeOK'
    BY <2>2 DEF Skip, PoolTypeOK
  <2>3. CloseChannel(r) => PoolTypeOK'
    BY DEF CloseChannel, PoolTypeOK
  <2>4. ASSUME NEW w \in Workers, ExitWorker(r, w)
        PROVE  PoolTypeOK'
    BY <2>4 DEF ExitWorker, PoolTypeOK, Places
  <2>5. PoolTypeOK' /\ UNCHANGED <<bucket, touched, uploads>>
    BY <1>3, <2>1, <2>2, <2>3, <2>4 DEF Dispatch
  <2>6. QED
    BY <2>5 DEF uploads
<1>4. ASSUME NEW w \in Workers, BeginPut(r, w) PROVE TypeOK'
  <2>1. holds[r][w] \in Items
    BY <1>4, HoldsFile DEF BeginPut, Busy
  <2>2. PoolTypeOK'
    <3>1. CASE \E err \in Failures : Record(r, w, err)
      BY <2>1, <3>1, RecordType
    <3>2. CASE /\ at' = [at EXCEPT ![r][w] = "moving"]
               /\ UNCHANGED <<pending, channel, holds, written, failure, callerDone, ctxDone>>
      BY <3>2 DEF PoolTypeOK, Places
    <3>3. QED
      BY <1>4, <3>1, <3>2 DEF BeginPut
  <2>3. UNCHANGED <<bucket, touched, uploads>>
    BY <1>4 DEF BeginPut
  <2>4. QED
    BY <2>2, <2>3 DEF uploads
<1>5. ASSUME NEW w \in Workers, ApplyPut(r, w) PROVE TypeOK'
  <2>1. holds[r][w] \in Items /\ KeyOf[holds[r][w]] \in Keys
    BY <1>5, HoldsFile DEF ApplyPut, Busy
  <2>2. /\ bucket' \in [Keys -> Contents \cup {Nothing}]
        /\ touched' \in [Actors -> SUBSET Keys]
    BY <1>5, <2>1, StoreType DEF ApplyPut, Contents
  <2>3. PoolTypeOK' /\ UNCHANGED <<phase, plan, result>>
    BY <1>5 DEF ApplyPut, poolVars, PoolTypeOK
  <2>4. sent' \in [Runs -> [Workers -> 0..Attempts]]
    <3>1. sent[r][w] \in 0..Attempts /\ sent[r][w] < Attempts
      BY <1>5 DEF ApplyPut
    <3>2. sent[r][w] + 1 \in 0..Attempts
      BY <3>1, BoundsAssumption
    <3>3. sent' = [sent EXCEPT ![r][w] = sent[r][w] + 1]
      BY <1>5 DEF ApplyPut
    <3>4. QED
      BY <3>2, <3>3
  <2>5. QED
    BY <2>2, <2>3, <2>4
<1>6. ASSUME NEW w \in Workers, EndPut(r, w) PROVE TypeOK'
  <2>1. holds[r][w] \in Items
    BY <1>6, HoldsFile DEF EndPut, Busy
  <2>2. PoolTypeOK'
    BY <1>6, <2>1, RecordType DEF EndPut
  <2>3. sent' \in [Runs -> [Workers -> 0..Attempts]]
    BY <1>6, BoundsAssumption DEF EndPut
  <2>4. QED
    BY <1>6, <2>2, <2>3 DEF EndPut
<1>7. CASE Receipt(r)
  BY <1>7 DEF Receipt, poolVars, PoolTypeOK, None
<1>8. CASE Cancel(r)
  BY <1>8 DEF Cancel, CancelCaller, PoolTypeOK, uploads
<1>9. QED
  BY <1>1, <1>2, <1>3, <1>4, <1>5, <1>6, <1>7, <1>8 DEF Upload

-----------------------------------------------------------------------------
(* The uploads' pools                                                      *)

(* One upload's step keeps its own pool in order.                          *)
LEMMA OwnWorkers ==
  ASSUME TypeOK, PoolInv, NEW r \in Runs, Upload(r)
  PROVE  WorkersOf(r)'
<1>t. /\ phase \in [Runs -> Phases]
      /\ at \in [Runs -> [Workers -> Places]]
      /\ holds \in [Runs -> [Workers -> Items \cup {NoItem}]]
      /\ plan \in [Runs -> SUBSET Items]
      /\ pending \in [Runs -> SUBSET Items]
      /\ channel \in [Runs -> {"none", "open", "closed"}]
      /\ sent \in [Runs -> [Workers -> 0..Attempts]]
  BY DEF TypeOK, PoolTypeOK
<1>i. WorkersOf(r) /\ PlanOf(r)
  BY DEF PoolInv
<1> USE <1>t, <1>i DEF WorkersOf, Quiet, Busy
<1>1. CASE PlanUpload(r)
  BY <1>1 DEF PlanUpload, Finish, poolVars
<1>2. CASE TargetRefused(r) \/ PreviewUpload(r)
  BY <1>2 DEF TargetRefused, PreviewUpload, Finish, poolVars
<1>3. CASE Begin(r)
  <2>1. phase'[r] = "sending" /\ UNCHANGED <<holds, plan, sent>>
    BY <1>3 DEF Begin, StartPool
  <2>2. \A w \in Workers : at'[r][w] \in {"idle", "unstarted"}
    BY <1>3 DEF Begin, StartPool
  <2>3. \A w \in Workers : sent[r][w] = 0
    BY <1>3 DEF Begin
  <2>4. QED
    BY <2>1, <2>2, <2>3
<1>4. ASSUME NEW w \in Workers, NEW i \in Items, HandOver(r, w, i),
             UNCHANGED uploads
      PROVE  WorkersOf(r)'
  <2>1. i \in plan[r]
    BY <1>4 DEF HandOver, PlanOf
  <2>2. phase[r] = "sending" /\ sent[r][w] = 0 /\ UNCHANGED <<phase, plan, sent>>
    BY <1>4 DEF HandOver, uploads
  <2>3. \A x \in Workers : /\ at'[r][x] = IF x = w THEN "got" ELSE at[r][x]
                           /\ holds'[r][x] = IF x = w THEN i ELSE holds[r][x]
    BY <1>4 DEF HandOver
  <2>4. QED
    BY <2>1, <2>2, <2>3
<1>5. ASSUME NEW i \in Items, Skip(r, i), UNCHANGED uploads
      PROVE  WorkersOf(r)'
  BY <1>5 DEF Skip, uploads
<1>6. ASSUME CloseChannel(r), UNCHANGED uploads
      PROVE  WorkersOf(r)'
  BY <1>6 DEF CloseChannel, uploads
<1>7. ASSUME NEW w \in Workers, ExitWorker(r, w), UNCHANGED uploads
      PROVE  WorkersOf(r)'
  BY <1>7 DEF ExitWorker, uploads
<1>8. ASSUME NEW w \in Workers, BeginPut(r, w)
      PROVE  WorkersOf(r)'
  <2>1. phase[r] = "sending" /\ sent[r][w] = 0 /\ UNCHANGED <<phase, plan, sent>>
    BY <1>8 DEF BeginPut, uploads
  <2>2. \A x \in Workers : x # w => at'[r][x] = at[r][x] /\ holds'[r][x] = holds[r][x]
    BY <1>8 DEF BeginPut, Record
  <2>3. \/ at'[r][w] = "moving" /\ holds'[r][w] = holds[r][w] /\ at[r][w] = "got"
        \/ at'[r][w] = "idle"
    BY <1>8 DEF BeginPut, Record
  <2>4. QED
    BY <2>1, <2>2, <2>3
<1>9. ASSUME NEW w \in Workers, ApplyPut(r, w)
      PROVE  WorkersOf(r)'
  BY <1>9 DEF ApplyPut, poolVars
<1>10. ASSUME NEW w \in Workers, EndPut(r, w)
       PROVE  WorkersOf(r)'
  <2>1. phase[r] = "sending" /\ UNCHANGED <<phase, plan>>
    BY <1>10 DEF EndPut
  <2>2. \A x \in Workers : x # w => /\ at'[r][x] = at[r][x] /\ holds'[r][x] = holds[r][x]
                                    /\ sent'[r][x] = sent[r][x]
    BY <1>10 DEF EndPut, Record
  <2>3. at'[r][w] = "idle" /\ sent'[r][w] = 0
    BY <1>10 DEF EndPut, Record
  <2>4. QED
    BY <2>1, <2>2, <2>3
<1>11. CASE Receipt(r)
  BY <1>11 DEF Receipt, Finish, Joined, poolVars
<1>12. CASE Cancel(r)
  BY <1>12 DEF Cancel, CancelCaller, uploads
<1>13. QED
  BY <1>1, <1>2, <1>3, <1>4, <1>5, <1>6, <1>7, <1>8, <1>9, <1>10, <1>11, <1>12
     DEF Upload, Dispatch

(* While a worker moves on, what it has in hand it keeps or has written,   *)
(* or the context is done.                                                 *)
LEMMA OwnPlan ==
  ASSUME TypeOK, PoolInv, NEW r \in Runs, Upload(r)
  PROVE  PlanOf(r)'
<1>t. /\ phase \in [Runs -> Phases]
      /\ plan \in [Runs -> SUBSET Items]
      /\ result \in [Runs -> Results]
      /\ pending \in [Runs -> SUBSET Items]
      /\ channel \in [Runs -> {"none", "open", "closed"}]
      /\ at \in [Runs -> [Workers -> Places]]
      /\ holds \in [Runs -> [Workers -> Items \cup {NoItem}]]
      /\ written \in [Runs -> SUBSET Items]
      /\ failure \in [Runs -> Failures \cup {None}]
      /\ callerDone \in [Runs -> BOOLEAN]
      /\ ctxDone \in [Runs -> BOOLEAN]
  BY DEF TypeOK, PoolTypeOK
<1>i. WorkersOf(r) /\ PlanOf(r)
  BY DEF PoolInv
<1>g. \A w \in Workers : Busy(r, w) => phase[r] = "sending" /\ holds[r][w] \in Items
  BY HoldsFile
<1>o. channel[r] = "open" => phase[r] = "sending"
  BY <1>i DEF WorkersOf
<1>h. ASSUME UNCHANGED <<at, holds>> PROVE Held(r)' = Held(r)
  BY <1>h DEF Held, Busy
<1> USE <1>t DEF PlanOf
<1>1. CASE PlanUpload(r) \/ TargetRefused(r) \/ PreviewUpload(r)
  <2>1. UNCHANGED poolVars /\ phase[r] \in {"start", "planned"}
    BY <1>1 DEF PlanUpload, TargetRefused, PreviewUpload
  <2>2. /\ phase'[r] \in {"planned", "done"}
        /\ result'[r] # "ok"
        /\ phase'[r] # "done" => result'[r] = result[r]
    BY <1>1, <1>i DEF PlanUpload, TargetRefused, PreviewUpload, Finish, Canceled
  <2>3. QED
    BY <1>i, <2>1, <2>2 DEF poolVars
<1>2. CASE Begin(r)
  <2>1. /\ phase'[r] = "sending" /\ pending'[r] = plan[r] /\ channel'[r] = "open"
        /\ ctxDone'[r] = callerDone[r]
        /\ UNCHANGED <<written, failure, callerDone, plan, result>>
    BY <1>2 DEF Begin, StartPool
  <2>2. phase[r] = "planned"
    BY <1>2 DEF Begin
  <2>3. QED
    BY <1>i, <2>1, <2>2
<1>3. ASSUME NEW w \in Workers, NEW i \in Items, HandOver(r, w, i), UNCHANGED uploads
      PROVE  PlanOf(r)'
  <2>1. /\ phase[r] = "sending" /\ UNCHANGED <<phase, plan, result>>
        /\ UNCHANGED <<channel, written, failure, callerDone, ctxDone>>
        /\ channel[r] = "open" /\ pending'[r] = pending[r] \ {i}
    BY <1>3, <1>o DEF HandOver, uploads
  <2>2. \A x \in Workers : /\ at'[r][x] = IF x = w THEN "got" ELSE at[r][x]
                           /\ holds'[r][x] = IF x = w THEN i ELSE holds[r][x]
    BY <1>3 DEF HandOver
  <2>3. at[r][w] = "idle"
    BY <1>3 DEF HandOver
  <2>4. Held(r) \cup {i} \subseteq Held(r)'
    BY <2>2, <2>3 DEF Held, Busy
  <2>5. QED
    BY <1>i, <2>1, <2>4
<1>4. ASSUME NEW i \in Items, Skip(r, i), UNCHANGED uploads
      PROVE  PlanOf(r)'
  <2>1. /\ phase[r] = "sending" /\ UNCHANGED <<phase, plan, result>>
        /\ UNCHANGED <<channel, written, failure, callerDone, ctxDone>>
        /\ channel[r] = "open" /\ ctxDone[r] /\ pending'[r] = pending[r] \ {i}
    BY <1>4, <1>o DEF Skip, uploads
  <2>2. QED
    BY <1>i, <2>1
<1>5. ASSUME CloseChannel(r), UNCHANGED uploads
      PROVE  PlanOf(r)'
  <2>1. /\ UNCHANGED <<phase, plan, result>> /\ pending[r] = {}
        /\ UNCHANGED <<pending, at, holds, written, failure, callerDone, ctxDone>>
    BY <1>5 DEF CloseChannel, uploads
  <2>2. QED
    BY <1>i, <1>h, <2>1
<1>6. ASSUME NEW w \in Workers, ExitWorker(r, w), UNCHANGED uploads
      PROVE  PlanOf(r)'
  <2>1. /\ UNCHANGED <<phase, plan, result>>
        /\ UNCHANGED <<pending, channel, holds, written, failure, callerDone, ctxDone>>
    BY <1>6 DEF ExitWorker, uploads
  <2>2. Held(r) \subseteq Held(r)'
    BY <1>6 DEF ExitWorker, Held, Busy
  <2>3. QED
    BY <1>i, <2>1, <2>2
<1>7. ASSUME NEW w \in Workers, NEW err \in Failures, Busy(r, w), Record(r, w, err),
             UNCHANGED <<phase, plan, result>>
      PROVE  PlanOf(r)'
  <2>1. /\ UNCHANGED <<pending, channel, written, callerDone>>
        /\ ctxDone'[r] = TRUE
        /\ failure'[r] # None
    BY <1>7, WordsDiffer DEF Record
  <2>2. phase[r] = "sending"
    BY <1>7, <1>g
  <2>3. QED
    BY <1>7, <1>i, <2>1, <2>2
<1>8. ASSUME NEW w \in Workers, BeginPut(r, w)
      PROVE  PlanOf(r)'
  <2>1. UNCHANGED <<phase, plan, result>> /\ Busy(r, w)
    BY <1>8 DEF BeginPut, uploads, Busy
  <2>2. CASE \E err \in Failures : Record(r, w, err)
    BY <1>7, <2>1, <2>2
  <2>3. CASE at' = [at EXCEPT ![r][w] = "moving"] /\ at[r][w] = "got"
             /\ UNCHANGED <<pending, channel, holds, written, failure, callerDone, ctxDone>>
    <3>1. Held(r) \subseteq Held(r)'
      BY <2>3 DEF Held, Busy
    <3>2. QED
      BY <1>i, <2>1, <2>3, <3>1
  <2>4. QED
    BY <1>8, <2>2, <2>3 DEF BeginPut, Failures
<1>9. ASSUME NEW w \in Workers, ApplyPut(r, w)
      PROVE  PlanOf(r)'
  BY <1>9, <1>i, <1>h DEF ApplyPut, poolVars
<1>10. ASSUME NEW w \in Workers, EndPut(r, w)
       PROVE  PlanOf(r)'
  <2>1. UNCHANGED <<phase, plan, result>> /\ Busy(r, w)
    BY <1>10 DEF EndPut, Busy
  <2>2. CASE \E err \in Failures : Record(r, w, err)
    BY <1>7, <2>1, <2>2
  <2>3. CASE Record(r, w, None)
    <3>1. /\ UNCHANGED <<pending, channel, failure, callerDone, ctxDone>>
          /\ written'[r] = written[r] \cup {holds[r][w]}
      BY <2>3 DEF Record
    <3>2. \A x \in Workers : x # w => at'[r][x] = at[r][x] /\ holds'[r][x] = holds[r][x]
      BY <2>3 DEF Record
    <3>3. Held(r) \subseteq Held(r)' \cup {holds[r][w]}
      BY <3>2 DEF Held, Busy
    <3>4. phase[r] = "sending"
      BY <1>g, <2>1
    <3>5. QED
      BY <1>i, <2>1, <3>1, <3>3, <3>4
  <2>4. QED
    BY <1>10, <2>2, <2>3 DEF EndPut, Failures
<1>11. CASE Receipt(r)
  <2>1. UNCHANGED poolVars /\ UNCHANGED plan /\ phase'[r] = "done"
    BY <1>11 DEF Receipt, Finish
  <2>2. result'[r] = IF failure[r] = None THEN "ok" ELSE failure[r]
    BY <1>11 DEF Receipt, Finish
  <2>3. Held(r) = {} /\ pending[r] = {} /\ phase[r] = "sending"
    BY <1>11, <1>i DEF Receipt, Joined, Held, Busy
  <2>4. QED
    BY <1>i, <2>1, <2>2, <2>3, WordsDiffer DEF poolVars
<1>12. CASE Cancel(r)
  <2>1. /\ UNCHANGED <<phase, plan, result, pending, channel, written, failure>>
        /\ callerDone'[r] = TRUE /\ ctxDone'[r] = TRUE
    BY <1>12 DEF Cancel, CancelCaller, uploads
  <2>2. QED
    BY <1>i, <2>1
<1>13. QED
  BY <1>1, <1>2, <1>3, <1>4, <1>5, <1>6, <1>8, <1>9, <1>10, <1>11, <1>12
     DEF Upload, Dispatch

LEMMA PoolStep == TypeOK /\ PoolInv /\ [Next]_vars => PoolInv'
<1> SUFFICES ASSUME TypeOK, PoolInv, [Next]_vars, NEW q \in Runs
             PROVE  (WorkersOf(q) /\ PlanOf(q))'
  BY DEF PoolInv
<1>i. WorkersOf(q) /\ PlanOf(q)
  BY DEF PoolInv
<1>1. ASSUME UNCHANGED <<poolVars, uploads>>
      PROVE  (WorkersOf(q) /\ PlanOf(q))'
  BY <1>1, <1>i DEF poolVars, uploads, WorkersOf, PlanOf, Quiet, Busy, Held
<1>2. ASSUME NEW r \in Runs, Upload(r)
      PROVE  (WorkersOf(q) /\ PlanOf(q))'
  <2>1. CASE q = r
    BY <1>2, <2>1, OwnWorkers, OwnPlan
  <2>2. CASE q # r
    <3>1. SameUpload(q)
      BY <1>2, <2>2, UploadFrame
    <3>2. WorkersOf(q)'
      BY <1>i, <3>1 DEF SameUpload, WorkersOf, Quiet, Busy
    <3>3. PlanOf(q)'
      BY <1>i, <3>1 DEF SameUpload, PlanOf, Held, Busy
    <3>4. QED
      BY <3>2, <3>3
  <2>3. QED
    BY <2>1, <2>2
<1>3. ASSUME NEW c \in Calls, Call(c)
      PROVE  (WorkersOf(q) /\ PlanOf(q))'
  BY <1>1, <1>3, CallFrame
<1>4. CASE UNCHANGED vars
  BY <1>1, <1>4 DEF vars
<1>5. QED
  BY <1>2, <1>3, <1>4 DEF Next

LEMMA TypeStep == TypeOK /\ PoolInv /\ [Next]_vars => TypeOK'
<1>1. TypeOK /\ UNCHANGED vars => TypeOK'
  BY DEF TypeOK, PoolTypeOK, vars, poolVars, calls, uploads
<1>2. QED
  BY <1>1, CallType, UploadType DEF Next

-----------------------------------------------------------------------------
(* The calls                                                               *)

(* A call's own step: what it answers is what it has done.                 *)
LEMMA OwnAnswer ==
  ASSUME TypeOK, CallInv, NEW c \in Calls, Call(c)
  PROVE  AnswerOf(c)'
<1>t. /\ place \in [Calls -> Callplaces]
      /\ moved \in [Calls -> Contents \cup {Nothing}]
      /\ answer \in [Calls -> Answers]
  BY DEF TypeOK
<1>i. AnswerOf(c)
  BY DEF CallInv
<1>r. Op(c)' = Op(c)
  BY CallFrame DEF Op
<1> USE <1>t, <1>i, <1>r DEF AnswerOf, Answered
<1>1. CASE Preview(c) \/ Fails(c)
  BY <1>1 DEF Preview, Fails
<1>2. CASE RefuseIfTaken(c)
  BY <1>2 DEF RefuseIfTaken
<1>3. CASE CopyObject(c)
  BY <1>3 DEF CopyObject, Holds
<1>4. CASE RemoveSource(c)
  BY <1>4 DEF RemoveSource
<1>5. CASE RemoveFails(c)
  BY <1>5 DEF RemoveFails
<1>6. CASE Put(c) \/ Remove(c)
  BY <1>6 DEF Put, Remove
<1>7. CASE OpenOut(c)
  BY <1>7 DEF OpenOut
<1>8. CASE WriteOut(c)
  BY <1>8 DEF WriteOut
<1>9. QED
  BY <1>1, <1>2, <1>3, <1>4, <1>5, <1>6, <1>7, <1>8 DEF Call

(* The file `--out` names is made once at a time, whoever's step it is.    *)
LEMMA FileStep ==
  ASSUME TypeOK, CallInv, NEW c \in Calls, Call(c), NEW b \in Calls
  PROVE  FileOf(b)'
<1>t. /\ place \in [Calls -> Callplaces]
      /\ answer \in [Calls -> Answers]
      /\ Nothing \notin Calls
  BY KeyOfAssumption DEF TypeOK
<1>i. AnswerOf(b) /\ AnswerOf(c) /\ FileOf(b) /\ FileOf(c)
  BY DEF CallInv
<1>r. Op(b)' = Op(b) /\ Op(c)' = Op(c)
  BY CallFrame DEF Op
<1>f. b # c => place'[b] = place[b] /\ answer'[b] = answer[b]
  BY CallFrame
<1> USE <1>t, <1>i, <1>r, <1>f DEF FileOf, AnswerOf, Answered
<1>1. CASE Preview(c) \/ Fails(c)
  BY <1>1 DEF Preview, Fails
<1>2. CASE RefuseIfTaken(c)
  BY <1>2 DEF RefuseIfTaken
<1>3. CASE CopyObject(c)
  BY <1>3 DEF CopyObject
<1>4. CASE RemoveSource(c)
  BY <1>4 DEF RemoveSource
<1>5. CASE RemoveFails(c)
  BY <1>5 DEF RemoveFails
<1>6. CASE Put(c) \/ Remove(c)
  BY <1>6 DEF Put, Remove
<1>7. CASE OpenOut(c)
  BY <1>7 DEF OpenOut
<1>8. CASE WriteOut(c)
  BY <1>8 DEF WriteOut, NoFile
<1>9. QED
  BY <1>1, <1>2, <1>3, <1>4, <1>5, <1>6, <1>7, <1>8 DEF Call

LEMMA CallStep == TypeOK /\ CallInv /\ [Next]_vars => CallInv'
<1> SUFFICES ASSUME TypeOK, CallInv, [Next]_vars, NEW b \in Calls
             PROVE  (AnswerOf(b) /\ FileOf(b))'
  BY DEF CallInv
<1>i. AnswerOf(b) /\ FileOf(b)
  BY DEF CallInv
<1>1. ASSUME UNCHANGED calls
      PROVE  (AnswerOf(b) /\ FileOf(b))'
  BY <1>1, <1>i DEF calls, AnswerOf, FileOf, Op
<1>2. ASSUME NEW c \in Calls, Call(c)
      PROVE  (AnswerOf(b) /\ FileOf(b))'
  <2>1. CASE b = c
    BY <1>2, <2>1, OwnAnswer, FileStep
  <2>2. CASE b # c
    <3>1. AnswerOf(b)'
      BY <1>i, <1>2, <2>2, CallFrame DEF AnswerOf, Op
    <3>2. QED
      BY <1>2, <3>1, FileStep
  <2>3. QED
    BY <2>1, <2>2
<1>3. ASSUME NEW r \in Runs, Upload(r)
      PROVE  (AnswerOf(b) /\ FileOf(b))'
  BY <1>1, <1>3, UploadFrame
<1>4. QED
  BY <1>1, <1>2, <1>3 DEF Next, vars

-----------------------------------------------------------------------------
(* The keys                                                                *)

(* Those whose view of the keys the invariant speaks of do rely on it.     *)
LEMMA WhoRelies ==
  /\ \A c \in Calls : Relies(c) <=> place[c] \in {"checked", "copied"}
  /\ \A r \in Runs : Relies(r) <=> phase[r] = "sending" \/ result[r] = "ok"
BY Apart DEF Relies

(* Another's step: what an actor relies on is untouched, or in `touched`.  *)
LEMMA BystanderUpload ==
  ASSUME TypeOK, NEW q \in Runs, Relies(q) => Told(q), SameUpload(q),
         UNCHANGED overwrite, ClearOf(q), ThereOf(q)
  PROVE  (ClearOf(q) /\ ThereOf(q))'
<1>k. \A i \in Items : KeyOf[i] \in Keys
  BY KeyOfAssumption
<1>r. Relies(q) <=> phase[q] = "sending" \/ result[q] = "ok"
  BY WhoRelies
<1>1. ClearOf(q)'
  BY <1>k, <1>r DEF ClearOf, Told, SameUpload
<1>2. ThereOf(q)'
  BY <1>k, <1>r DEF ThereOf, SentOf, Told, SameUpload
<1>3. QED
  BY <1>1, <1>2

LEMMA BystanderCall ==
  ASSUME TypeOK, NEW b \in Calls, Relies(b) => Told(b), SeenOf(b),
         place'[b] = place[b], moved'[b] = moved[b], UNCHANGED request
  PROVE  SeenOf(b)'
<1>k. /\ Src(b) \in Keys /\ Dst(b) \in Keys
      /\ Src(b)' = Src(b) /\ Dst(b)' = Dst(b)
  BY DEF TypeOK, Src, Dst
<1>r. Relies(b) <=> place[b] \in {"checked", "copied"}
  BY WhoRelies
<1>1. QED
  BY <1>k, <1>r DEF SeenOf, Told

(* A call's own step: it looks, and copies what it then finds.             *)
LEMMA OwnSeen ==
  ASSUME TypeOK, KeysInv, NEW c \in Calls, Call(c)
  PROVE  SeenOf(c)'
<1>t. /\ place \in [Calls -> Callplaces]
      /\ moved \in [Calls -> Contents \cup {Nothing}]
      /\ bucket \in [Keys -> Contents \cup {Nothing}]
      /\ touched \in [Actors -> SUBSET Keys]
      /\ c \in Actors
  BY Apart DEF TypeOK
<1>k. /\ Src(c) \in Keys /\ Dst(c) \in Keys
      /\ Src(c)' = Src(c) /\ Dst(c)' = Dst(c)
  BY CallFrame DEF TypeOK, Src, Dst
<1>i. SeenOf(c)
  BY DEF KeysInv
<1> USE <1>t, <1>k, <1>i DEF SeenOf, Answered
<1>1. CASE RefuseIfTaken(c)
  BY <1>1 DEF RefuseIfTaken, Looked, Holds
<1>2. CASE CopyObject(c)
  <2>1. bucket' = [bucket EXCEPT ![Dst(c)] = bucket[Src(c)]]
    BY <1>2 DEF CopyObject, Store
  <2>2. moved'[c] = bucket[Src(c)] /\ Src(c) # Dst(c)
    BY <1>2 DEF CopyObject
  <2>3. place'[c] \in {"copied", "done"}
    BY <1>2 DEF CopyObject
  <2>4. QED
    BY <2>1, <2>2, <2>3
<1>3. CASE place'[c] \in {"done", "reading"}
  BY <1>3
<1>4. QED
  BY <1>1, <1>2, <1>3
     DEF Call, Preview, Fails, RemoveSource, RemoveFails, Put, Remove, OpenOut, WriteOut

(* An upload's own step: told not to overwrite, it begins over nothing;    *)
(* and what it sends goes under a key no other file of its has.            *)
LEMMA OwnKeys ==
  ASSUME TypeOK, PoolInv, PoolInv', KeysInv, NEW r \in Runs, Upload(r)
  PROVE  (ClearOf(r) /\ ThereOf(r))'
<1>t. /\ bucket \in [Keys -> Contents \cup {Nothing}]
      /\ touched \in [Actors -> SUBSET Keys]
      /\ r \in Actors
      /\ at \in [Runs -> [Workers -> Places]]
      /\ holds \in [Runs -> [Workers -> Items \cup {NoItem}]]
      /\ written \in [Runs -> SUBSET Items]
      /\ sent \in [Runs -> [Workers -> 0..Attempts]]
      /\ phase \in [Runs -> Phases]
      /\ result \in [Runs -> Results]
  BY Apart DEF TypeOK, PoolTypeOK
<1>k. /\ \A i \in Items : KeyOf[i] \in Keys /\ KeyOf[i] \in Under
      /\ \A i, j \in Items : KeyOf[i] = KeyOf[j] => i = j
  BY KeyOfAssumption
<1>i. WorkersOf(r) /\ PlanOf(r) /\ ClearOf(r) /\ ThereOf(r)
  BY DEF KeysInv, PoolInv
<1>j. PlanOf(r)'
  BY DEF PoolInv
<1>o. UNCHANGED overwrite
  BY UploadFrame
<1> USE <1>t, <1>k DEF ClearOf, ThereOf
<1>0. ASSUME UNCHANGED <<bucket, touched>>, phase'[r] = "sending" => phase[r] = "sending",
             result'[r] = "ok" => phase[r] = "sending" \/ result[r] = "ok",
             \A i \in Items : SentOf(r, i)' => SentOf(r, i)
      PROVE  (ClearOf(r) /\ ThereOf(r))'
  BY <1>0, <1>i, <1>o
<1>s. ASSUME UNCHANGED <<written, sent>>,
             \A w \in Workers : sent[r][w] # 0 => holds'[r][w] = holds[r][w]
      PROVE  \A i \in Items : SentOf(r, i)' => SentOf(r, i)
  BY <1>s DEF SentOf
<1>1. CASE PlanUpload(r) \/ TargetRefused(r) \/ PreviewUpload(r)
  <2>1. /\ UNCHANGED <<bucket, touched, written, sent, holds>>
        /\ phase'[r] # "sending"
        /\ result'[r] # "ok" \/ result'[r] = result[r]
    BY <1>1 DEF PlanUpload, TargetRefused, PreviewUpload, Finish, Canceled, poolVars
  <2>2. QED
    BY <1>0, <1>s, <2>1
<1>2. CASE Begin(r)
  <2>1. UNCHANGED <<bucket, written, sent>> /\ TargetClear(r) /\ phase[r] = "planned"
    BY <1>2 DEF Begin, StartPool
  <2>2. \A i \in Items : ~SentOf(r, i)'
    BY <1>i, <2>1 DEF PlanOf, WorkersOf, Quiet, SentOf
  <2>3. ~overwrite[r] => \A i \in Items : bucket[KeyOf[i]] = Nothing
    BY <2>1 DEF TargetClear, Holds
  <2>4. QED
    BY <1>o, <2>1, <2>2, <2>3
<1>3. CASE Dispatch(r)
  <2>1. UNCHANGED <<bucket, touched, phase, result, written, sent>>
    BY <1>3 DEF Dispatch, uploads, HandOver, Skip, CloseChannel, ExitWorker
  <2>2. \A w \in Workers : at[r][w] # "idle" => holds'[r][w] = holds[r][w]
    BY <1>3 DEF Dispatch, HandOver, Skip, CloseChannel, ExitWorker
  <2>3. \A w \in Workers : sent[r][w] # 0 => holds'[r][w] = holds[r][w]
    BY <1>i, <2>2 DEF WorkersOf
  <2>4. QED
    BY <1>0, <1>s, <2>1, <2>3
<1>4. ASSUME NEW w \in Workers, BeginPut(r, w)
      PROVE  (ClearOf(r) /\ ThereOf(r))'
  <2>1. UNCHANGED <<bucket, touched, phase, result, written, sent>>
    BY <1>4 DEF BeginPut, uploads, Record, None, Canceled, Failed
  <2>2. \A x \in Workers : at[r][x] # "got" => holds'[r][x] = holds[r][x]
    BY <1>4 DEF BeginPut, Record
  <2>3. \A x \in Workers : sent[r][x] # 0 => holds'[r][x] = holds[r][x]
    BY <1>i, <2>2 DEF WorkersOf
  <2>4. QED
    BY <1>0, <1>s, <2>1, <2>3
<1>5. ASSUME NEW w \in Workers, ApplyPut(r, w)
      PROVE  (ClearOf(r) /\ ThereOf(r))'
  <2> DEFINE mine == holds[r][w]
  <2>1. mine \in Items /\ phase[r] = "sending" /\ Relies(r)
    BY <1>5, HoldsFile, WhoRelies DEF ApplyPut, Busy
  <2>2. /\ bucket' = [bucket EXCEPT ![KeyOf[mine]] = mine]
        /\ touched'[r] = touched[r]
    BY <1>5, <2>1, StoreTold DEF ApplyPut
  <2>3. \A i \in Items : bucket'[KeyOf[i]] = IF i = mine THEN i ELSE bucket[KeyOf[i]]
    BY <2>1, <2>2
  <2>4. \A i \in Items : SentOf(r, i)' => SentOf(r, i) \/ i = mine
    BY <1>5 DEF ApplyPut, SentOf, poolVars
  <2>5. QED
    BY <1>i, <1>o, <2>1, <2>2, <2>3, <2>4
<1>6. ASSUME NEW w \in Workers, EndPut(r, w)
      PROVE  (ClearOf(r) /\ ThereOf(r))'
  <2>1. UNCHANGED <<bucket, touched, phase, result>>
    BY <1>6 DEF EndPut
  <2>2. \A x \in Workers : x # w => holds'[r][x] = holds[r][x] /\ sent'[r][x] = sent[r][x]
    BY <1>6 DEF EndPut, Record
  <2>3. /\ sent'[r][w] = 0
        /\ written'[r] = written[r] \/ (sent[r][w] # 0 /\ written'[r] = written[r] \cup {holds[r][w]})
    BY <1>6 DEF EndPut, Record, None, Canceled, Failed
  <2>4. \A i \in Items : SentOf(r, i)' => SentOf(r, i)
    BY <2>2, <2>3 DEF SentOf
  <2>5. QED
    BY <1>0, <2>1, <2>4
<1>7. CASE Receipt(r)
  <2>1. UNCHANGED <<bucket, touched, written, sent, holds>> /\ phase[r] = "sending"
    BY <1>7 DEF Receipt, poolVars
  <2>2. QED
    BY <1>0, <1>s, <2>1
<1>8. CASE Cancel(r)
  <2>1. UNCHANGED <<bucket, touched, phase, result, written, sent, holds>>
    BY <1>8 DEF Cancel, CancelCaller, uploads
  <2>2. QED
    BY <1>0, <1>s, <2>1
<1>9. QED
  BY <1>1, <1>2, <1>3, <1>4, <1>5, <1>6, <1>7, <1>8 DEF Upload

LEMMA KeysStep == TypeOK /\ PoolInv /\ PoolInv' /\ KeysInv /\ [Next]_vars => KeysInv'
<1> SUFFICES ASSUME TypeOK, PoolInv, PoolInv', KeysInv, [Next]_vars
             PROVE  KeysInv'
  OBVIOUS
<1>1. ASSUME NEW c \in Calls, Call(c)
      PROVE  KeysInv'
  <2>1. ASSUME NEW q \in Runs
        PROVE  (ClearOf(q) /\ ThereOf(q))'
    <3>1. Relies(q) => Told(q)
      BY <1>1, Apart, CallTold
    <3>2. SameUpload(q) /\ UNCHANGED overwrite
      BY <1>1, CallFrame DEF poolVars, uploads, SameUpload
    <3>3. QED
      BY <3>1, <3>2, BystanderUpload DEF KeysInv
  <2>2. ASSUME NEW b \in Calls, b # c
        PROVE  SeenOf(b)'
    <3>1. Relies(b) => Told(b)
      BY <1>1, <2>2, Apart, CallTold
    <3>2. QED
      BY <1>1, <2>2, <3>1, CallFrame, BystanderCall DEF KeysInv
  <2>3. SeenOf(c)'
    BY <1>1, OwnSeen
  <2>4. QED
    BY <2>1, <2>2, <2>3 DEF KeysInv
<1>2. ASSUME NEW r \in Runs, Upload(r)
      PROVE  KeysInv'
  <2>1. ASSUME NEW q \in Runs, q # r
        PROVE  (ClearOf(q) /\ ThereOf(q))'
    <3>1. Relies(q) => Told(q)
      BY <1>2, <2>1, Apart, UploadTold
    <3>2. QED
      BY <1>2, <2>1, <3>1, UploadFrame, BystanderUpload DEF KeysInv
  <2>2. (ClearOf(r) /\ ThereOf(r))'
    BY <1>2, OwnKeys
  <2>3. ASSUME NEW b \in Calls
        PROVE  SeenOf(b)'
    <3>1. Relies(b) => Told(b)
      BY <1>2, Apart, UploadTold
    <3>2. place'[b] = place[b] /\ moved'[b] = moved[b] /\ UNCHANGED request
      BY <1>2, UploadFrame DEF calls
    <3>3. QED
      BY <3>1, <3>2, BystanderCall DEF KeysInv
  <2>4. QED
    BY <2>1, <2>2, <2>3 DEF KeysInv
<1>3. CASE UNCHANGED vars
  BY <1>3 DEF vars, poolVars, calls, uploads, KeysInv, ClearOf, ThereOf, SeenOf, SentOf, Src, Dst
<1>4. QED
  BY <1>1, <1>2, <1>3 DEF Next

-----------------------------------------------------------------------------
(* The theorems                                                            *)

LEMMA InitBucket == Init => BucketInv
<1> SUFFICES ASSUME Init PROVE BucketInv
  OBVIOUS
<1> USE DEF Init
<1>1. PoolTypeOK
  BY DEF PoolInit, PoolTypeOK, Places
<1>2. TypeOK
  <2>1. bucket \in [Keys -> Contents \cup {Nothing}]
    BY DEF Contents
  <2>2. request \in [Calls -> [op : Operations, src : Keys, dst : Keys]]
    BY RequestsAssumption
  <2>3. out \in [by : Calls \cup {Nothing}, whole : BOOLEAN]
    BY DEF NoFile
  <2>4. sent \in [Runs -> [Workers -> 0..Attempts]]
    BY BoundsAssumption
  <2>5. QED
    BY <1>1, <2>1, <2>2, <2>3, <2>4 DEF TypeOK, Callplaces, Answers, Phases, Results
<1>3. PoolInv
  BY DEF PoolInit, PoolInv, WorkersOf, PlanOf, Quiet, Busy, None
<1>4. CallInv
  BY KeyOfAssumption DEF CallInv, AnswerOf, FileOf, NoFile
<1>5. KeysInv
  BY DEF KeysInv, ClearOf, ThereOf, SeenOf
<1>6. QED
  BY <1>2, <1>3, <1>4, <1>5 DEF BucketInv

(* Every reachable state satisfies the invariant.                          *)
THEOREM BucketInvariant == Spec => []BucketInv
<1>1. BucketInv /\ [Next]_vars => BucketInv'
  BY TypeStep, PoolStep, CallStep, KeysStep DEF BucketInv
<1>2. QED
  BY <1>1, InitBucket, PTL DEF Spec

(* Every variable keeps its type.                                          *)
THEOREM TypeCorrect == Spec => []TypeOK
<1>1. BucketInv => TypeOK
  BY DEF BucketInv
<1>2. QED
  BY <1>1, BucketInvariant, PTL

(* A rename answers what became of both its halves, and an upload that     *)
(* answers success has each planned file's content under its key, unless   *)
(* another wrote there (runObjectRename, putAll and its receipt).          *)
THEOREM TheyAnswerTheTruth == Spec => []ChangesAreAsTold
<1>1. BucketInv => ChangesAreAsTold
  <2> SUFFICES ASSUME BucketInv PROVE ChangesAreAsTold
    OBVIOUS
  <2>1. RenameAnswerIsTrue
    BY DEF BucketInv, CallInv, AnswerOf, RenameAnswerIsTrue
  <2>2. UploadedIsThere
    <3> SUFFICES ASSUME NEW r \in Runs, result[r] = "ok", ~callerDone[r], NEW i \in plan[r]
                 PROVE  bucket[KeyOf[i]] = i \/ KeyOf[i] \in touched[r]
      BY DEF UploadedIsThere
    <3>1. i \in Items /\ i \in written[r]
      BY DEF BucketInv, TypeOK, PoolInv, PlanOf
    <3>2. QED
      BY <3>1 DEF BucketInv, KeysInv, ThereOf, SentOf
  <2>3. QED
    BY <2>1, <2>2 DEF ChangesAreAsTold
<1>2. QED
  BY <1>1, BucketInvariant, PTL

(* A get that failed left nothing of its own, and one that answered has    *)
(* its whole file, whatever other gets of the name do (runObjectGet).      *)
THEOREM GetsAreWholeOrGone == Spec => []FileIsWholeOrGone
<1>1. BucketInv => FileIsWholeOrGone
  <2> SUFFICES ASSUME BucketInv, NEW c \in Calls, Op(c) = "get", place[c] = "done"
               PROVE  IF answer[c] = "ok" THEN out = [by |-> c, whole |-> TRUE]
                                          ELSE out.by # c
    BY DEF FileIsWholeOrGone
  <2>1. FileOf(c)
    BY DEF BucketInv, CallInv
  <2>2. out \in [by : Calls \cup {Nothing}, whole : BOOLEAN]
    BY DEF BucketInv, TypeOK
  <2>3. out.by = c => out.whole = TRUE
    BY <2>1, <2>2 DEF FileOf
  <2>4. out = [by |-> out.by, whole |-> out.whole]
    BY <2>2
  <2>5. QED
    BY <2>1, <2>3, <2>4 DEF FileOf
<1>2. QED
  BY <1>1, BucketInvariant, PTL

(* Only a copy changes a call's `moved`, and only an upload's own sending  *)
(* its `sent` and the bucket at once.                                      *)
LEMMA CopyReplaces ==
  ASSUME BucketInv, [Next]_vars, NEW k \in Keys, NEW c \in Calls,
         Replaces(k), moved'[c] # moved[c]
  PROVE  k \in touched[c]
<1>1. Call(c)
  <2>1. \A b \in Calls : b # c => ~Call(b)
    BY CallFrame DEF BucketInv
  <2>2. \A r \in Runs : ~Upload(r)
    BY UploadFrame DEF BucketInv, calls
  <2>3. QED
    BY <2>1, <2>2 DEF Next, vars, calls
<1>2. CopyObject(c)
  BY <1>1 DEF Call, Preview, Fails, RefuseIfTaken, RemoveSource, RemoveFails, Put, Remove,
     OpenOut, WriteOut
<1>3. bucket' = [bucket EXCEPT ![Dst(c)] = bucket[Src(c)]] /\ place[c] = "checked"
  BY <1>2 DEF CopyObject, Store
<1>4. k = Dst(c) /\ bucket[k] # Nothing
  BY <1>3 DEF Replaces, BucketInv, TypeOK
<1>5. QED
  BY <1>3, <1>4 DEF BucketInv, KeysInv, SeenOf

LEMMA PutReplaces ==
  ASSUME BucketInv, [Next]_vars, NEW k \in Keys, NEW r \in Runs,
         Replaces(k), sent'[r] # sent[r]
  PROVE  overwrite[r] \/ k \in touched[r]
<1>1. Upload(r)
  <2>1. \A c \in Calls : ~Call(c)
    BY CallFrame DEF BucketInv, uploads
  <2>2. \A q \in Runs : q # r => ~Upload(q)
    BY UploadFrame DEF BucketInv, SameUpload
  <2>3. QED
    BY <2>1, <2>2 DEF Next, vars, uploads
<1>2. PICK w \in Workers : ApplyPut(r, w)
  BY <1>1 DEF Upload, PlanUpload, TargetRefused, PreviewUpload, Begin, Dispatch, uploads,
     BeginPut, EndPut, Receipt, Cancel, Replaces
<1> DEFINE mine == holds[r][w]
<1>3. mine \in Items /\ KeyOf[mine] \in Keys /\ phase[r] = "sending"
  BY <1>2, HoldsFile DEF ApplyPut, Busy, BucketInv
<1>4. bucket' = [bucket EXCEPT ![KeyOf[mine]] = mine]
  BY <1>2 DEF ApplyPut, Store
<1>5. k = KeyOf[mine] /\ bucket[k] \notin {Nothing, mine}
  BY <1>3, <1>4 DEF Replaces, BucketInv, TypeOK
<1>6. ClearOf(r)
  BY DEF BucketInv, KeysInv
<1>7. QED
  BY <1>3, <1>5, <1>6 DEF ClearOf

(* A copy, a rename or an upload told not to overwrite replaces only what  *)
(* another wrote after it looked (refuseIfTaken, checkUploadTarget).       *)
THEOREM NothingIsReplacedUnseen == Spec => NothingSeenIsReplaced
<1>1. BucketInv /\ [Next]_vars
        => [\A k \in Keys :
              /\ (\A c \in Calls : Replaces(k) /\ moved'[c] # moved[c] => k \in touched[c])
              /\ (\A r \in Runs : Replaces(k) /\ sent'[r] # sent[r] =>
                    overwrite[r] \/ k \in touched[r])]_vars
  BY CopyReplaces, PutReplaces
<1>2. QED
  BY <1>1, BucketInvariant, PTL DEF Spec, NothingSeenIsReplaced

(* A rename takes from its source only what is at its destination, unless  *)
(* another wrote one of the two keys (runObjectRename: copy, then remove). *)
THEOREM RenamesLoseNothing == Spec => RemovedIsMoved
<1>1. ASSUME BucketInv, [Next]_vars, NEW c \in Calls, removed' # removed, c \in removed' \ removed
      PROVE  \/ Src(c) \in touched[c] \/ Dst(c) \in touched[c]
             \/ moved[c] # Nothing /\ bucket[Src(c)] = moved[c] /\ bucket[Dst(c)] = moved[c]
  <2>1. Call(c)
    <3>1. \A b \in Calls : b # c => ~Call(b)
      BY <1>1, CallFrame DEF BucketInv
    <3>2. \A r \in Runs : ~Upload(r)
      BY <1>1, UploadFrame DEF BucketInv, calls
    <3>3. QED
      BY <1>1, <3>1, <3>2 DEF Next, vars, calls
  <2>2. RemoveSource(c)
    BY <1>1, <2>1 DEF Call, Preview, Fails, RefuseIfTaken, CopyObject, RemoveFails, Put,
       Remove, OpenOut, WriteOut
  <2>3. place[c] = "copied" /\ SeenOf(c) /\ AnswerOf(c)
    BY <1>1, <2>2 DEF RemoveSource, BucketInv, KeysInv, CallInv
  <2>4. QED
    BY <2>3 DEF SeenOf, AnswerOf
<1>2. BucketInv /\ [Next]_vars
        => [\A c \in Calls :
              removed' # removed /\ c \in removed' \ removed =>
                \/ Src(c) \in touched[c] \/ Dst(c) \in touched[c]
                \/ moved[c] # Nothing /\ bucket[Src(c)] = moved[c]
                                      /\ bucket[Dst(c)] = moved[c]]_vars
  BY <1>1
<1>3. QED
  BY <1>2, BucketInvariant, PTL DEF Spec, RemovedIsMoved

=============================================================================
