------------------------------ MODULE CertCache ------------------------------
(***************************************************************************)
(* The kept reads of TLS Secrets in plugins/kube/cert.go, which            *)
(* kube.overview and kube.cert.list share: one entry for each scope (a     *)
(* context and a namespace), reused for certLife.  An entry's mutex is     *)
(* held through the read it is filled by; the map of entries has a mutex   *)
(* of its own, taken for a moment and sometimes under an entry's.          *)
(*                                                                         *)
(* A caller makes one call of tlsCerts and so makes at most one entry,     *)
(* which it gives its name to.  Every step under the map's mutex is one    *)
(* action.                                                                 *)
(***************************************************************************)
EXTENDS Naturals

CONSTANTS
  Callers,   (* Calls of tlsCerts, concurrent or not.                      *)
  Scopes,    (* Scopes a read can be kept under.                           *)
  Unnamed,   (* A scope that cannot be named: its read is not kept.        *)
  Nothing,   (* No entry; no holder of a mutex.                            *)
  Life,      (* certLife, in ticks.                                        *)
  MaxTime    (* A bound: the last tick explored.                           *)

ASSUME NamesAssumption == Unnamed \notin Scopes /\ Nothing \notin Callers
ASSUME TimeAssumption == Life \in Nat \ {0} /\ MaxTime \in Nat

VARIABLES
  now,       (* The clock.                                                 *)
  byScope,   (* certReads.byScope: the entry kept for each scope.          *)
  readAt,    (* When each entry was filled; 0 is never.                    *)
  heldBy,    (* The caller that holds each entry's mutex.                  *)
  place,     (* How far each call is.                                      *)
  scope,     (* The scope each call is about.                              *)
  entry,     (* The entry each call found or made.                         *)
  answer     (* What each call returned, and how old it was then.          *)

vars == <<now, byScope, readAt, heldBy, place, scope, entry, answer>>

Places == {"start", "waiting", "reading", "failed", "kept", "unlocking", "done"}
Answer == [kind : {"none", "error", "read", "reused"}, age : Nat]
NoAnswer == [kind |-> "none", age |-> 0]

TypeOK ==
  /\ now \in 1..MaxTime + 1
  /\ byScope \in [Scopes -> Callers \cup {Nothing}]
  /\ readAt \in [Callers -> Nat]
  /\ heldBy \in [Callers -> Callers \cup {Nothing}]
  /\ place \in [Callers -> Places]
  /\ scope \in [Callers -> Scopes \cup {Unnamed}]
  /\ entry \in [Callers -> Callers \cup {Nothing}]
  /\ answer \in [Callers -> Answer]

Init ==
  /\ now = 1
  /\ byScope = [s \in Scopes |-> Nothing]
  /\ readAt = [e \in Callers |-> 0]
  /\ heldBy = [e \in Callers |-> Nothing]
  /\ place = [c \in Callers |-> "start"]
  /\ scope \in [Callers -> Scopes \cup {Unnamed}]
  /\ entry = [c \in Callers |-> Nothing]
  /\ answer = [c \in Callers |-> NoAnswer]

Goto(c, p) == place' = [place EXCEPT ![c] = p]
Return(c, kind, at) == answer' = [answer EXCEPT ![c] = [kind |-> kind, age |-> now - at]]

Tick ==
  /\ now <= MaxTime
  /\ now' = now + 1
  /\ UNCHANGED <<byScope, readAt, heldBy, place, scope, entry, answer>>

(* An entry that has been filled, and is younger than certLife.            *)
Fresh(e) == readAt[e] # 0 /\ now - readAt[e] < Life
Old(e) == readAt[e] # 0 /\ now - readAt[e] >= Life

(* certEntryFor: the entry the map holds, or a new one put there.          *)
Find(c) ==
  /\ place[c] = "start" /\ scope[c] # Unnamed
  /\ LET e == IF byScope[scope[c]] = Nothing THEN c ELSE byScope[scope[c]]
     IN /\ entry' = [entry EXCEPT ![c] = e]
        /\ byScope' = [byScope EXCEPT ![scope[c]] = e]
  /\ Goto(c, "waiting")
  /\ UNCHANGED <<now, readAt, heldBy, scope, answer>>

(* A read that is not kept: the scope could not be named.                  *)
ReadUnkept(c) ==
  /\ place[c] = "start" /\ scope[c] = Unnamed
  /\ \E kind \in {"read", "error"} : Return(c, kind, now)
  /\ Goto(c, "done")
  /\ UNCHANGED <<now, byScope, readAt, heldBy, scope, entry>>

(* The entry's mutex is free, and what it holds is fresh: it is answered   *)
(* and let go of at once.                                                  *)
Reuse(c) ==
  /\ place[c] = "waiting" /\ heldBy[entry[c]] = Nothing
  /\ Fresh(entry[c])
  /\ Return(c, "reused", readAt[entry[c]])
  /\ Goto(c, "done")
  /\ UNCHANGED <<now, byScope, readAt, heldBy, scope, entry>>

(* Mutant: the mutex is not held through the read.                         *)
BeginReadUnlocked(c) ==
  /\ place[c] = "waiting" /\ heldBy[entry[c]] = Nothing
  /\ ~Fresh(entry[c])
  /\ Goto(c, "reading")
  /\ UNCHANGED <<now, byScope, readAt, heldBy, scope, entry, answer>>

(* Nothing fresh: the Secrets are listed with the mutex held.              *)
BeginRead(c) ==
  /\ place[c] = "waiting" /\ heldBy[entry[c]] = Nothing
  /\ ~Fresh(entry[c])
  /\ heldBy' = [heldBy EXCEPT ![entry[c]] = c]
  /\ Goto(c, "reading")
  /\ UNCHANGED <<now, byScope, readAt, scope, entry, answer>>

ReadFails(c) ==
  /\ place[c] = "reading"
  /\ Return(c, "error", now)
  /\ Goto(c, "failed")
  /\ UNCHANGED <<now, byScope, readAt, heldBy, scope, entry>>

ReadSucceeds(c) ==
  /\ place[c] = "reading"
  /\ readAt' = [readAt EXCEPT ![entry[c]] = now]
  /\ Return(c, "read", now)
  /\ Goto(c, "kept")
  /\ UNCHANGED <<now, byScope, heldBy, scope, entry>>

(* Mutant: whatever the map holds for the scope is dropped.                *)
ForgetScope(c) ==
  /\ place[c] = "failed"
  /\ byScope' = IF readAt[entry[c]] = 0
                THEN [byScope EXCEPT ![scope[c]] = Nothing] ELSE byScope
  /\ Goto(c, "unlocking")
  /\ UNCHANGED <<now, readAt, heldBy, scope, entry, answer>>

(* forgetUnread: the entry of a read that failed, if the map still holds   *)
(* it and it never held one.                                               *)
ForgetUnread(c) ==
  /\ place[c] = "failed"
  /\ byScope' = IF byScope[scope[c]] = entry[c] /\ readAt[entry[c]] = 0
                THEN [byScope EXCEPT ![scope[c]] = Nothing] ELSE byScope
  /\ Goto(c, "unlocking")
  /\ UNCHANGED <<now, readAt, heldBy, scope, entry, answer>>

(* Mutant: the sweep waits for every entry's mutex, its own caller's too.  *)
ForgetOldWaiting(c) ==
  /\ place[c] = "kept"
  /\ \A s \in Scopes : byScope[s] # Nothing => heldBy[byScope[s]] = Nothing
  /\ byScope' = [s \in Scopes |->
       IF byScope[s] # Nothing /\ Old(byScope[s]) THEN Nothing ELSE byScope[s]]
  /\ Goto(c, "unlocking")
  /\ UNCHANGED <<now, readAt, heldBy, scope, entry, answer>>

(* forgetOld: every kept entry that is old and whose mutex is free is      *)
(* dropped.  TryLock passes over the ones in use, this caller's among them.*)
ForgetOld(c) ==
  /\ place[c] = "kept"
  /\ byScope' = [s \in Scopes |->
       IF byScope[s] # Nothing /\ heldBy[byScope[s]] = Nothing /\ Old(byScope[s])
       THEN Nothing ELSE byScope[s]]
  /\ Goto(c, "unlocking")
  /\ UNCHANGED <<now, readAt, heldBy, scope, entry, answer>>

Unlock(c) ==
  /\ place[c] = "unlocking"
  /\ heldBy' = [heldBy EXCEPT ![entry[c]] = Nothing]
  /\ Goto(c, "done")
  /\ UNCHANGED <<now, byScope, readAt, scope, entry, answer>>

Call(c) ==
  \/ Find(c) \/ ReadUnkept(c) \/ Reuse(c) \/ BeginRead(c)
  \/ ReadFails(c) \/ ReadSucceeds(c) \/ ForgetUnread(c) \/ ForgetOld(c) \/ Unlock(c)

Next == Tick \/ \E c \in Callers : Call(c)

Spec == Init /\ [][Next]_vars

(* Goroutines are scheduled, a mutex is given to one that waits for it,    *)
(* and a read ends: kubectl is given fifteen seconds.                      *)
FairSpec == Spec /\ \A c \in Callers : WF_vars(Call(c))

-----------------------------------------------------------------------------
(* A reused answer was read less than certLife before it was given.        *)
ReusedIsYoung ==
  \A c \in Callers : answer[c].kind = "reused" => answer[c].age < Life

(* "Two callers that find nothing kept make one Secret list between them": *)
(* of two reads of one scope under way, one is into a dropped entry.       *)
OneReadBetweenThem ==
  \A c, d \in Callers :
    /\ c # d /\ scope[c] = scope[d] /\ scope[c] # Unnamed
    /\ place[c] = "reading" /\ place[d] = "reading"
    => \E x \in {c, d} : entry[x] # byScope[scope[x]]

(* A kept read is dropped only once it is as old as certLife: a failed     *)
(* read, of whoever and whenever, never costs the others what they share.  *)
KeptForItsLife ==
  [][\A s \in Scopes :
       LET e == byScope[s]
       IN e # Nothing /\ byScope'[s] # e /\ readAt[e] # 0 => Old(e)]_vars

(* "A read that failed holds nothing at all": an entry in the map that was *)
(* never filled is one some caller is about to fill.                       *)
NoEmptyEntryLeft ==
  \A s \in Scopes :
    LET e == byScope[s]
    IN e # Nothing /\ readAt[e] = 0 =>
         \E c \in Callers : entry[c] = e /\ place[c] \in {"waiting", "reading", "failed"}

(* Every call returns: nobody waits for a mutex for ever.                  *)
EveryCallReturns == \A c \in Callers : <>(place[c] = "done")

(* What the map holds is worth holding: it is shared while it is read, not *)
(* old when it is reused, and never an entry nobody is to fill (certFor).  *)
SharedFreshOrGone == OneReadBetweenThem /\ ReusedIsYoung /\ NoEmptyEntryLeft
=============================================================================
