------------------------------ MODULE S3Bucket ------------------------------
(***************************************************************************)
(* What plugins/s3 writes to a bucket that several clients share: object   *)
(* copies and renames (copy.go), sets, removals and gets (object.go), and  *)
(* whole-directory uploads (upload.go), which run their plan through the   *)
(* pool fetchAll's twin is.                                                *)
(*                                                                         *)
(* One request is one step at the server, which applies it or does not;    *)
(* its answer may be lost either way.  A call's request is made once, an   *)
(* upload's again and again (withClient and withTransferClient).           *)
(***************************************************************************)
EXTENDS TransferPool

CONSTANTS
  Calls,     (* Calls about one object, each in a process of its own.      *)
  Requests,  (* What they may ask: an operation, a source, a destination.  *)
  Keys,      (* Object names.                                              *)
  There,     (* Keys that hold an object from the beginning.               *)
  KeyOf,     (* The key each local file becomes: normalizePrefix and rel.  *)
  Under,     (* The keys under the upload's prefix.                        *)
  Limit,     (* The upload's `limit` input.                                *)
  Attempts,  (* A bound: how often minio-go sends one PUT.                 *)
  Nothing    (* What a key with no object holds; who made no file.         *)

(* Two files under one directory have two paths, and so two keys.          *)
ASSUME KeyOfAssumption ==
  /\ KeyOf \in [Items -> Keys] /\ \A i \in Items : KeyOf[i] \in Under
  /\ \A i, j \in Items : KeyOf[i] = KeyOf[j] => i = j
  /\ Under \subseteq Keys /\ There \subseteq Keys /\ Nothing \notin Calls
ASSUME ActorsAssumption == Calls \cap Runs = {}
ASSUME BoundsAssumption == Limit \in Nat \ {0} /\ Attempts \in Nat \ {0}

VARIABLES
  bucket,    (* What each key holds.                                       *)
  request,   (* What each call was asked.                                  *)
  place,     (* How far each call is.                                      *)
  moved,     (* The content a copy or a rename put at its destination.     *)
  removed,   (* Renames whose removal of the source the server applied.    *)
  answer,    (* What each call answered.                                   *)
  out,       (* The file `--out` names: who made it, and is it whole.      *)
  phase,     (* How far each upload is.                                    *)
  plan,      (* The files each upload set out to send.                     *)
  overwrite, (* Its `overwrite` input.                                     *)
  result,    (* What it answered.                                          *)
  sent,      (* How often each worker's PUT has been applied.              *)
  touched    (* Keys others have changed since a call or an upload looked. *)

calls == <<request, place, moved, removed, answer, out>>
uploads == <<phase, plan, overwrite, result, sent>>
vars == <<poolVars, bucket, touched, calls, uploads>>

Actors == Calls \cup Runs
Contents == Keys \cup Calls \cup Items
Operations == {"copy", "rename", "set", "rm", "get"}

ASSUME RequestsAssumption == Requests \subseteq [op : Operations, src : Keys, dst : Keys]

Callplaces == {"start", "checked", "copied", "reading", "done"}
Answers == {"pending", "ok", "dryrun", "taken", "exists", "partial", "error"}
Phases == {"start", "planned", "sending", "done"}
Results == {"pending", "ok", "dryrun", "plan", "notempty", "list"} \cup Failures

TypeOK ==
  /\ PoolTypeOK
  /\ bucket \in [Keys -> Contents \cup {Nothing}]
  /\ request \in [Calls -> [op : Operations, src : Keys, dst : Keys]]
  /\ place \in [Calls -> Callplaces]
  /\ moved \in [Calls -> Contents \cup {Nothing}]
  /\ removed \subseteq Calls
  /\ answer \in [Calls -> Answers]
  /\ out \in [by : Calls \cup {Nothing}, whole : BOOLEAN]
  /\ phase \in [Runs -> Phases]
  /\ plan \in [Runs -> SUBSET Items]
  /\ overwrite \in [Runs -> BOOLEAN]
  /\ result \in [Runs -> Results]
  /\ sent \in [Runs -> [Workers -> 0..Attempts]]
  /\ touched \in [Actors -> SUBSET Keys]

NoFile == [by |-> Nothing, whole |-> FALSE]

Init ==
  /\ PoolInit
  /\ \E full \in SUBSET Keys :
       /\ There \subseteq full
       /\ bucket = [k \in Keys |-> IF k \in full THEN k ELSE Nothing]
  /\ request \in [Calls -> Requests]
  /\ place = [c \in Calls |-> "start"]
  /\ moved = [c \in Calls |-> Nothing]
  /\ removed = {}
  /\ answer = [c \in Calls |-> "pending"]
  /\ out = NoFile
  /\ phase = [r \in Runs |-> "start"]
  /\ plan = [r \in Runs |-> {}]
  /\ overwrite \in [Runs -> BOOLEAN]
  /\ result = [r \in Runs |-> "pending"]
  /\ sent = [r \in Runs |-> [w \in Workers |-> 0]]
  /\ touched = [a \in Actors |-> {}]

(* Those who have looked, and still rely on what they saw.                 *)
Relies(a) ==
  IF a \in Calls THEN place[a] \in {"checked", "copied"}
                 ELSE phase[a] = "sending" \/ result[a] = "ok"

(* A change of one key, and who has not seen it.                           *)
Store(a, k, x) ==
  /\ bucket' = [bucket EXCEPT ![k] = x]
  /\ touched' = [b \in Actors |->
       IF ~Relies(b) THEN {}
       ELSE IF b # a /\ bucket[k] # x THEN touched[b] \cup {k} ELSE touched[b]]

Looked(a) == touched' = [touched EXCEPT ![a] = {}]

Holds(k) == bucket[k] # Nothing
Src(c) == request[c].src
Dst(c) == request[c].dst
Op(c) == request[c].op

Answered(c, what) ==
  /\ place' = [place EXCEPT ![c] = "done"]
  /\ answer' = [answer EXCEPT ![c] = what]

-----------------------------------------------------------------------------
(* Calls about one object                                                  *)

(* Everything is previewed before anything is sent.                        *)
Preview(c) ==
  /\ place[c] = "start"
  /\ Answered(c, "dryrun")
  /\ UNCHANGED <<poolVars, bucket, touched, uploads, request, moved, removed, out>>

(* Any request may fail with nothing done: refused, or never sent.         *)
Fails(c) ==
  /\ place[c] \in {"start", "checked"}
  /\ Answered(c, "error")
  /\ UNCHANGED <<poolVars, bucket, touched, uploads, request, moved, removed, out>>

(* Mutant: the destination is not looked at.                               *)
NotRefused(c) ==
  /\ place[c] = "start" /\ Op(c) \in {"copy", "rename"}
  /\ place' = [place EXCEPT ![c] = "checked"]
  /\ Looked(c)
  /\ UNCHANGED <<poolVars, bucket, uploads, request, moved, removed, answer, out>>

(* refuseIfTaken.                                                          *)
RefuseIfTaken(c) ==
  /\ place[c] = "start" /\ Op(c) \in {"copy", "rename"}
  /\ IF Holds(Dst(c))
     THEN Answered(c, "taken")
     ELSE place' = [place EXCEPT ![c] = "checked"] /\ UNCHANGED answer
  /\ Looked(c)
  /\ UNCHANGED <<poolVars, bucket, uploads, request, moved, removed, out>>

(* CopyObject is applied, on whatever the two keys hold by now.  A server  *)
(* refuses a copy of an object onto itself.                                *)
CopyObject(c) ==
  /\ place[c] = "checked"
  /\ Holds(Src(c)) /\ Src(c) # Dst(c)
  /\ Store(c, Dst(c), bucket[Src(c)])
  /\ moved' = [moved EXCEPT ![c] = bucket[Src(c)]]
  /\ \/ Op(c) = "copy" /\ Answered(c, "ok")
     \/ Op(c) = "rename" /\ place' = [place EXCEPT ![c] = "copied"] /\ UNCHANGED answer
     \/ Answered(c, "error")                    \* its answer was lost
  /\ UNCHANGED <<poolVars, uploads, request, removed, out>>

(* Mutant: the source is removed without the copy having been made.        *)
RemoveUncopied(c) ==
  /\ place[c] \in {"checked", "copied"} /\ Op(c) = "rename"
  /\ Store(c, Src(c), Nothing)
  /\ removed' = removed \cup {c}
  /\ \E what \in {"ok", "partial"} : Answered(c, what)
  /\ UNCHANGED <<poolVars, uploads, request, moved, out>>

RemoveSource(c) ==
  /\ place[c] = "copied"
  /\ Store(c, Src(c), Nothing)
  /\ removed' = removed \cup {c}
  /\ \E what \in {"ok", "partial"} : Answered(c, what)
  /\ UNCHANGED <<poolVars, uploads, request, moved, out>>

(* Mutant: a removal that fails is not looked at.                          *)
RemoveFailsQuietly(c) ==
  /\ place[c] = "copied"
  /\ Answered(c, "ok")
  /\ UNCHANGED <<poolVars, bucket, touched, uploads, request, moved, removed, out>>

(* s3.rename.partial: the object is in two places.                         *)
RemoveFails(c) ==
  /\ place[c] = "copied"
  /\ Answered(c, "partial")
  /\ UNCHANGED <<poolVars, bucket, touched, uploads, request, moved, removed, out>>

(* runObjectSet and runObjectRemove, once the request is applied.          *)
Put(c) ==
  /\ place[c] = "start" /\ Op(c) = "set"
  /\ Store(c, Src(c), c)
  /\ \E what \in {"ok", "error"} : Answered(c, what)
  /\ UNCHANGED <<poolVars, uploads, request, moved, removed, out>>

Remove(c) ==
  /\ place[c] = "start" /\ Op(c) = "rm"
  /\ Store(c, Src(c), Nothing)
  /\ \E what \in {"ok", "error"} : Answered(c, what)
  /\ UNCHANGED <<poolVars, uploads, request, moved, removed, out>>

(* Mutant: the file is opened O_TRUNC, whoever made it.                    *)
OpenTruncating(c) ==
  /\ place[c] = "start" /\ Op(c) = "get"
  /\ out' = [by |-> c, whole |-> FALSE] /\ place' = [place EXCEPT ![c] = "reading"]
  /\ UNCHANGED <<poolVars, bucket, touched, uploads, request, moved, removed, answer>>

(* runObjectGet with --out: O_EXCL, then the copy and the Close.           *)
OpenOut(c) ==
  /\ place[c] = "start" /\ Op(c) = "get"
  /\ IF out.by # Nothing
     THEN Answered(c, "exists") /\ UNCHANGED out
     ELSE /\ out' = [by |-> c, whole |-> FALSE]
          /\ place' = [place EXCEPT ![c] = "reading"] /\ UNCHANGED answer
  /\ UNCHANGED <<poolVars, bucket, touched, uploads, request, moved, removed>>

WriteOut(c) ==
  /\ place[c] = "reading"
  /\ \/ Holds(Src(c)) /\ out' = [by |-> c, whole |-> TRUE] /\ Answered(c, "ok")
     \/ out' = NoFile /\ Answered(c, "error")
  /\ UNCHANGED <<poolVars, bucket, touched, uploads, request, moved, removed>>

Call(c) ==
  \/ Preview(c) \/ Fails(c)
  \/ RefuseIfTaken(c) \/ CopyObject(c) \/ RemoveSource(c) \/ RemoveFails(c)
  \/ Put(c) \/ Remove(c) \/ OpenOut(c) \/ WriteOut(c)

-----------------------------------------------------------------------------
(* Uploads                                                                 *)

Finish(r, what) ==
  /\ phase' = [phase EXCEPT ![r] = "done"]
  /\ result' = [result EXCEPT ![r] = what]

(* planUpload: the walk refuses a directory as a whole, or plans it all.   *)
PlanUpload(r) ==
  /\ phase[r] = "start"
  /\ \/ Finish(r, "plan") /\ UNCHANGED plan
     \/ \E files \in SUBSET Items :
          /\ files # {} /\ Cardinality(files) <= Limit
          /\ plan' = [plan EXCEPT ![r] = files]
          /\ phase' = [phase EXCEPT ![r] = "planned"] /\ UNCHANGED result
  /\ UNCHANGED <<poolVars, bucket, touched, calls, overwrite, sent>>

(* checkUploadTarget refuses: something is listed, or the listing fails.   *)
TargetRefused(r) ==
  /\ phase[r] = "planned" /\ ~overwrite[r]
  /\ \/ (\E k \in Under : Holds(k)) /\ Finish(r, "notempty")
     \/ Finish(r, "list")
     \/ callerDone[r] /\ Finish(r, Canceled)
  /\ UNCHANGED <<poolVars, bucket, touched, calls, plan, overwrite, sent>>

TargetClear(r) ==
  overwrite[r] \/ (~callerDone[r] /\ \A k \in Under : ~Holds(k))

PreviewUpload(r) ==
  /\ phase[r] = "planned" /\ TargetClear(r)
  /\ Finish(r, "dryrun")
  /\ UNCHANGED <<poolVars, bucket, touched, calls, plan, overwrite, sent>>

Begin(r) ==
  /\ phase[r] = "planned" /\ TargetClear(r)
  /\ phase' = [phase EXCEPT ![r] = "sending"]
  /\ StartPool(r, plan[r])
  /\ Looked(r)
  /\ UNCHANGED <<bucket, calls, plan, overwrite, result, sent>>

Dispatch(r) ==
  /\ \/ \E w \in Workers, i \in Items : HandOver(r, w, i)
     \/ \E i \in Items : Skip(r, i)
     \/ CloseChannel(r)
     \/ \E w \in Workers : ExitWorker(r, w)
  /\ UNCHANGED <<bucket, touched, calls, uploads>>

(* putOne: a request whose context is done, or whose file cannot be        *)
(* opened, is never made.                                                  *)
BeginPut(r, w) ==
  /\ at[r][w] = "got"
  /\ \/ /\ ~ctxDone[r]
        /\ at' = [at EXCEPT ![r][w] = "moving"]
        /\ UNCHANGED <<pending, channel, holds, written, failure, callerDone, ctxDone>>
     \/ Record(r, w, IF ctxDone[r] THEN Canceled ELSE Failed)
  /\ UNCHANGED <<bucket, touched, calls, uploads>>

(* One sending of the PUT is applied; minio-go may send it again.          *)
ApplyPut(r, w) ==
  /\ at[r][w] = "moving" /\ sent[r][w] < Attempts
  /\ sent' = [sent EXCEPT ![r][w] = @ + 1]
  /\ Store(r, KeyOf[holds[r][w]], holds[r][w])
  /\ UNCHANGED <<poolVars, calls, phase, plan, overwrite, result>>

(* The last sending is answered, or the attempts are used up.              *)
EndPut(r, w) ==
  /\ at[r][w] = "moving"
  /\ \/ sent[r][w] > 0 /\ Record(r, w, None)
     \/ Record(r, w, IF ctxDone[r] THEN Canceled ELSE Failed)
  /\ sent' = [sent EXCEPT ![r][w] = 0]
  /\ UNCHANGED <<bucket, touched, calls, phase, plan, overwrite, result>>

(* Nothing that was sent is taken back.                                    *)
Receipt(r) ==
  /\ phase[r] = "sending" /\ Joined(r)
  /\ Finish(r, IF failure[r] = None THEN "ok" ELSE failure[r])
  /\ UNCHANGED <<poolVars, bucket, touched, calls, plan, overwrite, sent>>

(* Before the first request there is nothing a done context would stop.    *)
Cancel(r) ==
  /\ phase[r] \in {"planned", "sending"}
  /\ CancelCaller(r)
  /\ UNCHANGED <<bucket, touched, calls, uploads>>

Upload(r) ==
  \/ PlanUpload(r) \/ TargetRefused(r) \/ PreviewUpload(r) \/ Begin(r) \/ Dispatch(r)
  \/ \E w \in Workers : BeginPut(r, w) \/ ApplyPut(r, w) \/ EndPut(r, w)
  \/ Receipt(r) \/ Cancel(r)

Next == (\E c \in Calls : Call(c)) \/ (\E r \in Runs : Upload(r))

Spec == Init /\ [][Next]_vars

-----------------------------------------------------------------------------
(* Properties                                                              *)

(* A copy, a rename or an upload told not to overwrite replaces only what  *)
(* somebody wrote after it looked: the window refuseIfTaken's comment      *)
(* admits, and nothing wider, a PUT sent twice included.                   *)
Replaces(k) == bucket[k] # Nothing /\ bucket'[k] \notin {Nothing, bucket[k]}

NothingSeenIsReplaced ==
  [][\A k \in Keys :
       /\ (\A c \in Calls : Replaces(k) /\ moved'[c] # moved[c] => k \in touched[c])
       /\ (\A r \in Runs : Replaces(k) /\ sent'[r] # sent[r] =>
             overwrite[r] \/ k \in touched[r])]_vars

(* What a rename takes from its source it has put at its destination, and  *)
(* there it still is, unless somebody else has written one of the two keys *)
(* since it looked (runObjectRename: the copy, then the removal).          *)
RemovedIsMoved ==
  [][\A c \in Calls :
       removed' # removed /\ c \in removed' \ removed =>
         \/ Src(c) \in touched[c] \/ Dst(c) \in touched[c]
         \/ moved[c] # Nothing /\ bucket[Src(c)] = moved[c] /\ bucket[Dst(c)] = moved[c]]_vars

(* A rename says what became of it: success only when both halves were     *)
(* applied, "partial" only once the copy was, and any other failure only   *)
(* with the source as it was ("the failure says so").                      *)
RenameAnswerIsTrue ==
  \A c \in Calls :
    Op(c) = "rename" =>
      /\ answer[c] = "ok" => moved[c] # Nothing /\ c \in removed
      /\ answer[c] = "partial" => moved[c] # Nothing
      /\ answer[c] \in {"error", "taken", "dryrun"} => c \notin removed

(* A get that failed leaves nothing of its own, and one that answered has  *)
(* its whole file still, whatever other gets of the same name came to.     *)
FileIsWholeOrGone ==
  \A c \in Calls :
    Op(c) = "get" /\ place[c] = "done" =>
      IF answer[c] = "ok" THEN out = [by |-> c, whole |-> TRUE] ELSE out.by # c

(* An upload nobody cancelled that answers success has every planned       *)
(* file's content under its key, unless somebody else wrote there since it *)
(* looked (putAll and the receipt's count of the plan).                    *)
UploadedIsThere ==
  \A r \in Runs :
    result[r] = "ok" /\ ~callerDone[r] =>
      \A i \in plan[r] : bucket[KeyOf[i]] = i \/ KeyOf[i] \in touched[r]

(* What a change says it did is what the bucket has: a rename and its two  *)
(* halves, and every file of an upload (runObjectRename, runBucketUpload). *)
ChangesAreAsTold == RenameAnswerIsTrue /\ UploadedIsThere
=============================================================================
