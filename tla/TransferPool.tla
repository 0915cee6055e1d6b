---------------------------- MODULE TransferPool ----------------------------
(***************************************************************************)
(* The worker pool both bulk transfers of plugins/s3 run their plan        *)
(* through: fetchAll in download.go, and putAll in upload.go, which is     *)
(* "fetchAll's shape, pointing the other way".                             *)
(*                                                                         *)
(* Several runs may be under way in different processes, so every variable *)
(* is a function of the run.  Inside a run the caller's goroutine is the   *)
(* dispatcher: it offers each planned item to the workers over an          *)
(* unbuffered channel, or drops it once the pool's context is done, then   *)
(* closes the channel and waits.  A worker takes an item, transfers it     *)
(* (the extending module says how), and records the outcome under the      *)
(* pool's mutex; the first failure recorded cancels the pool's context,    *)
(* which is derived from the caller's.                                     *)
(***************************************************************************)
EXTENDS Naturals, FiniteSets

CONSTANTS
  Runs,      (* Runs of the capability, each a process of its own.         *)
  Workers,   (* Worker goroutines of one run: the `parallel` input.        *)
  Items,     (* What a plan is made of: object keys, or local files.       *)
  NoItem     (* What a worker between two items holds.                     *)

ASSUME WorkersAssumption == IsFiniteSet(Workers) /\ Workers # {}
ASSUME ItemsAssumption == IsFiniteSet(Items) /\ NoItem \notin Items

VARIABLES
  pending,   (* Planned items the dispatcher has not settled yet.          *)
  channel,   (* The work channel: not made yet, open, or closed.           *)
  at,        (* Where each worker is.                                      *)
  holds,     (* The item each worker is transferring.                      *)
  written,   (* Items whose bytes were added to the total.                 *)
  failure,   (* The recorded failure.                                      *)
  callerDone,(* The caller's context is done.                              *)
  ctxDone    (* The pool's context is done.                                *)

poolVars == <<pending, channel, at, holds, written, failure, callerDone, ctxDone>>

None == "none"
Canceled == "canceled"
Failed == "failed"

Failures == {Canceled, Failed, "collision"}

Places == {"unstarted", "idle", "got", "moving", "exited"}

PoolTypeOK ==
  /\ pending \in [Runs -> SUBSET Items]
  /\ channel \in [Runs -> {"none", "open", "closed"}]
  /\ at \in [Runs -> [Workers -> Places]]
  /\ holds \in [Runs -> [Workers -> Items \cup {NoItem}]]
  /\ written \in [Runs -> SUBSET Items]
  /\ failure \in [Runs -> Failures \cup {None}]
  /\ callerDone \in [Runs -> BOOLEAN]
  /\ ctxDone \in [Runs -> BOOLEAN]

PoolInit ==
  /\ pending = [r \in Runs |-> {}]
  /\ channel = [r \in Runs |-> "none"]
  /\ at = [r \in Runs |-> [w \in Workers |-> "unstarted"]]
  /\ holds = [r \in Runs |-> [w \in Workers |-> NoItem]]
  /\ written = [r \in Runs |-> {}]
  /\ failure = [r \in Runs |-> None]
  /\ callerDone = [r \in Runs |-> FALSE]
  /\ ctxDone = [r \in Runs |-> FALSE]

(* workers := min(parallel, len(plan)) goroutines are started; the plan is *)
(* dispatched in listing order, of which the set keeps every order.        *)
StartPool(r, plan) ==
  /\ channel' = [channel EXCEPT ![r] = "open"]
  /\ pending' = [pending EXCEPT ![r] = plan]
  /\ ctxDone' = [ctxDone EXCEPT ![r] = callerDone[r]]
  /\ \E started \in SUBSET Workers :
       /\ \/ Cardinality(started) = Cardinality(plan)
          \/ started = Workers /\ Cardinality(plan) > Cardinality(Workers)
       /\ at' = [at EXCEPT ![r] = [w \in Workers |->
                   IF w \in started THEN "idle" ELSE "unstarted"]]
  /\ UNCHANGED <<holds, written, failure, callerDone>>

(* case work <- t: the rendezvous of the dispatcher with an idle worker.   *)
(* Still possible after the context is done: select picks either arm.      *)
HandOver(r, w, i) ==
  /\ channel[r] = "open"
  /\ i \in pending[r]
  /\ at[r][w] = "idle"
  /\ pending' = [pending EXCEPT ![r] = @ \ {i}]
  /\ at' = [at EXCEPT ![r][w] = "got"]
  /\ holds' = [holds EXCEPT ![r][w] = i]
  /\ UNCHANGED <<channel, written, failure, callerDone, ctxDone>>

(* case <-ctx.Done(): the item is dropped and the loop goes on.            *)
Skip(r, i) ==
  /\ channel[r] = "open"
  /\ i \in pending[r]
  /\ ctxDone[r]
  /\ pending' = [pending EXCEPT ![r] = @ \ {i}]
  /\ UNCHANGED <<channel, at, holds, written, failure, callerDone, ctxDone>>

(* Mutant: the dispatcher returns on a done context, leaving the channel   *)
(* open and its workers parked on it.                                      *)
CloseUnlessDone(r) ==
  /\ channel[r] = "open"
  /\ pending[r] = {}
  /\ ~ctxDone[r]
  /\ channel' = [channel EXCEPT ![r] = "closed"]
  /\ UNCHANGED <<pending, at, holds, written, failure, callerDone, ctxDone>>

CloseChannel(r) ==
  /\ channel[r] = "open"
  /\ pending[r] = {}
  /\ channel' = [channel EXCEPT ![r] = "closed"]
  /\ UNCHANGED <<pending, at, holds, written, failure, callerDone, ctxDone>>

(* The worker's range over the closed channel ends.                        *)
ExitWorker(r, w) ==
  /\ channel[r] = "closed"
  /\ at[r][w] = "idle"
  /\ at' = [at EXCEPT ![r][w] = "exited"]
  /\ UNCHANGED <<pending, channel, holds, written, failure, callerDone, ctxDone>>

(* Mutant: the last failure wins.                                          *)
RecordLast(r, w, err) ==
  /\ at' = [at EXCEPT ![r][w] = "idle"]
  /\ holds' = [holds EXCEPT ![r][w] = NoItem]
  /\ IF err = None
     THEN /\ written' = [written EXCEPT ![r] = @ \cup {holds[r][w]}]
          /\ UNCHANGED <<failure, ctxDone>>
     ELSE /\ failure' = [failure EXCEPT ![r] = err]
          /\ ctxDone' = [ctxDone EXCEPT ![r] = TRUE]
          /\ UNCHANGED written
  /\ UNCHANGED <<pending, channel, callerDone>>

(* The worker records what its item came to, under the mutex.              *)
Record(r, w, err) ==
  /\ at' = [at EXCEPT ![r][w] = "idle"]
  /\ holds' = [holds EXCEPT ![r][w] = NoItem]
  /\ IF err = None
     THEN /\ written' = [written EXCEPT ![r] = @ \cup {holds[r][w]}]
          /\ UNCHANGED <<failure, ctxDone>>
     ELSE /\ failure' = [failure EXCEPT ![r] = IF @ = None THEN err ELSE @]
          /\ ctxDone' = [ctxDone EXCEPT ![r] = TRUE]
          /\ UNCHANGED written
  /\ UNCHANGED <<pending, channel, callerDone>>

(* The caller stops waiting: its context ends, and the pool's with it.     *)
CancelCaller(r) ==
  /\ ~callerDone[r]
  /\ callerDone' = [callerDone EXCEPT ![r] = TRUE]
  /\ ctxDone' = [ctxDone EXCEPT ![r] = TRUE]
  /\ UNCHANGED <<pending, channel, at, holds, written, failure>>

(* Mutant: the pool is not waited for.                                     *)
JoinedEarly(r) == channel[r] = "closed"

(* wg.Wait() returns.                                                      *)
Joined(r) ==
  /\ channel[r] = "closed"
  /\ \A w \in Workers : at[r][w] \in {"unstarted", "exited"}

Busy(r, w) == at[r][w] \in {"got", "moving"}

=============================================================================
