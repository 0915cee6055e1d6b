--------------------------- MODULE CertCache_proofs ---------------------------
(***************************************************************************)
(* Proofs about CertCache, for any number of callers and of scopes, any    *)
(* certLife and any length of time.                                        *)
(*                                                                         *)
(* The inductive invariant is about who has what: an entry is of one scope *)
(* wherever it is found, in the map or in a caller's hands; and an entry's *)
(* mutex is held by exactly the caller that is between taking it for a     *)
(* read and letting it go.  That two callers make one read between them,   *)
(* and that no empty entry is left, both rest on it.                       *)
(***************************************************************************)
EXTENDS CertCache, TLAPS

(* Where a caller that holds its entry's mutex is.                         *)
Holding == {"reading", "failed", "kept", "unlocking"}

(* An entry is of one scope: the map's, its callers' and its maker's.      *)
OfOneScope ==
  /\ \A s \in Scopes : byScope[s] # Nothing => scope[byScope[s]] = s
  /\ \A c \in Callers : entry[c] # Nothing => scope[entry[c]] = scope[c]

HasEntry ==
  \A c \in Callers : place[c] \in {"waiting"} \cup Holding => entry[c] # Nothing

(* A mutex that is held is held by a caller at work on that entry, and a   *)
(* caller at work on an entry holds its mutex.                             *)
MutexInv ==
  /\ \A e \in Callers : heldBy[e] # Nothing =>
       place[heldBy[e]] \in Holding /\ entry[heldBy[e]] = e
  /\ \A c \in Callers : place[c] \in Holding => heldBy[entry[c]] = c

PastReads == \A e \in Callers : readAt[e] <= now

CacheInv ==
  TypeOK /\ OfOneScope /\ HasEntry /\ MutexInv /\ PastReads
    /\ ReusedIsYoung /\ NoEmptyEntryLeft

-----------------------------------------------------------------------------
(* What a caller past its first step has: an entry, of its own scope.      *)
LEMMA EntryOf ==
  ASSUME CacheInv, NEW c \in Callers, place[c] \in {"waiting"} \cup Holding
  PROVE  /\ entry[c] \in Callers /\ entry[c] # Nothing
         /\ scope[entry[c]] = scope[c]
BY NamesAssumption DEF CacheInv, TypeOK, HasEntry, OfOneScope

(* The map's entry for a scope is the caller's own, if it is in the map.   *)
LEMMA InMapUnderItsScope ==
  ASSUME CacheInv, NEW c \in Callers, place[c] \in {"waiting"} \cup Holding,
         NEW s \in Scopes, byScope[s] = entry[c]
  PROVE  s = scope[c]
BY EntryOf DEF CacheInv, OfOneScope

LEMMA CacheInitially == Init => CacheInv
<1> SUFFICES ASSUME Init PROVE CacheInv
  OBVIOUS
<1> USE DEF Init
<1>1. TypeOK
  BY TimeAssumption DEF TypeOK, Places, NoAnswer, Answer
<1>2. OfOneScope /\ HasEntry /\ MutexInv /\ PastReads
  BY DEF OfOneScope, HasEntry, MutexInv, PastReads, Holding
<1>3. ReusedIsYoung /\ NoEmptyEntryLeft
  BY DEF ReusedIsYoung, NoEmptyEntryLeft, NoAnswer
<1> QED BY <1>1, <1>2, <1>3 DEF CacheInv

-----------------------------------------------------------------------------
(* Each step keeps the invariant.                                          *)

LEMMA TickStep == CacheInv /\ Tick => CacheInv'
<1> SUFFICES ASSUME CacheInv, Tick PROVE CacheInv'
  OBVIOUS
<1> USE DEF CacheInv, Tick
<1>1. TypeOK' /\ PastReads'
  BY TimeAssumption DEF TypeOK, PastReads
<1>2. OfOneScope' /\ HasEntry' /\ MutexInv' /\ ReusedIsYoung'
  BY DEF OfOneScope, HasEntry, MutexInv, ReusedIsYoung
<1>3. NoEmptyEntryLeft'
  BY DEF NoEmptyEntryLeft
<1> QED BY <1>1, <1>2, <1>3

LEMMA FindStep ==
  ASSUME CacheInv, NEW c \in Callers, Find(c)
  PROVE  CacheInv'
<1>t. TypeOK /\ Nothing \notin Callers
  BY NamesAssumption DEF CacheInv
<1>s. place[c] = "start" /\ scope[c] \in Scopes
  BY <1>t DEF Find, TypeOK
<1> DEFINE e == IF byScope[scope[c]] = Nothing THEN c ELSE byScope[scope[c]]
<1>e. e \in Callers /\ scope[e] = scope[c]
  BY <1>t, <1>s DEF CacheInv, TypeOK, OfOneScope
<1>f. /\ entry' = [entry EXCEPT ![c] = e]
      /\ byScope' = [byScope EXCEPT ![scope[c]] = e]
      /\ place' = [place EXCEPT ![c] = "waiting"]
      /\ UNCHANGED <<now, readAt, heldBy, scope, answer>>
  BY DEF Find, Goto
<1> HIDE DEF e
<1>1. TypeOK'
  BY <1>t, <1>e, <1>f DEF TypeOK, Places
<1>2. OfOneScope'
  BY <1>t, <1>s, <1>e, <1>f DEF CacheInv, TypeOK, OfOneScope
<1>3. HasEntry'
  BY <1>t, <1>e, <1>f DEF CacheInv, TypeOK, HasEntry
<1>4. MutexInv'
  BY <1>t, <1>s, <1>e, <1>f DEF CacheInv, TypeOK, MutexInv, Holding
<1>5. PastReads' /\ ReusedIsYoung'
  BY <1>f DEF CacheInv, PastReads, ReusedIsYoung
<1>6. NoEmptyEntryLeft'
  <2> SUFFICES ASSUME NEW s \in Scopes, byScope'[s] # Nothing, readAt'[byScope'[s]] = 0
               PROVE  \E d \in Callers : entry'[d] = byScope'[s]
                                  /\ place'[d] \in {"waiting", "reading", "failed"}
    BY DEF NoEmptyEntryLeft
  <2>1. CASE s = scope[c]
    <3>1. entry'[c] = byScope'[s] /\ place'[c] = "waiting"
      BY <1>t, <1>s, <1>f, <2>1 DEF TypeOK
    <3> QED BY <3>1
  <2>2. CASE s # scope[c]
    <3>1. byScope'[s] = byScope[s]
      BY <1>t, <1>f, <2>2 DEF TypeOK
    <3>2. PICK d \in Callers : entry[d] = byScope[s] /\ place[d] \in {"waiting", "reading", "failed"}
      BY <1>f, <3>1 DEF CacheInv, NoEmptyEntryLeft
    <3>3. entry'[d] = entry[d] /\ place'[d] = place[d]
      BY <1>t, <1>s, <1>f, <3>2 DEF TypeOK
    <3> QED BY <3>1, <3>2, <3>3
  <2> QED BY <2>1, <2>2
<1> QED BY <1>1, <1>2, <1>3, <1>4, <1>5, <1>6 DEF CacheInv

(* A call that ends without an entry, or with one it did not have to fill. *)
LEMMA AnswerStep ==
  ASSUME CacheInv, NEW c \in Callers, ReadUnkept(c) \/ Reuse(c)
  PROVE  CacheInv'
<1>t. TypeOK /\ Nothing \notin Callers
  BY NamesAssumption DEF CacheInv
<1>f. /\ place' = [place EXCEPT ![c] = "done"] /\ place[c] \in {"start", "waiting"}
      /\ UNCHANGED <<now, byScope, readAt, heldBy, scope, entry>>
  BY DEF ReadUnkept, Reuse, Goto
<1>a. \E kind \in {"error", "read", "reused"}, age \in Nat :
        /\ answer' = [answer EXCEPT ![c] = [kind |-> kind, age |-> age]]
        /\ kind = "reused" => age < Life
  <2>1. CASE ReadUnkept(c)
    <3>1. now - now = 0
      BY <1>t DEF TypeOK
    <3>2. PICK kind \in {"read", "error"} :
            answer' = [answer EXCEPT ![c] = [kind |-> kind, age |-> now - now]]
      BY <2>1 DEF ReadUnkept, Return
    <3>3. answer' = [answer EXCEPT ![c] = [kind |-> kind, age |-> 0]] /\ kind # "reused"
      BY <3>1, <3>2
    <3> QED BY <3>3
  <2>2. CASE Reuse(c)
    <3>1. entry[c] \in Callers
      BY <2>2, EntryOf DEF Reuse
    <3>2. now - readAt[entry[c]] \in Nat
      BY <1>t, <3>1 DEF CacheInv, PastReads, TypeOK
    <3> QED BY <2>2, <3>2 DEF Reuse, Return, Fresh
  <2> QED BY <2>1, <2>2
<1>1. TypeOK'
  BY <1>t, <1>f, <1>a DEF TypeOK, Places, Answer
<1>2. OfOneScope' /\ HasEntry' /\ PastReads'
  BY <1>t, <1>f DEF CacheInv, TypeOK, OfOneScope, HasEntry, PastReads, Holding
<1>3. MutexInv'
  BY <1>t, <1>f DEF CacheInv, TypeOK, MutexInv, Holding
<1>4. ReusedIsYoung'
  BY <1>t, <1>a DEF CacheInv, TypeOK, ReusedIsYoung
<1>5. NoEmptyEntryLeft'
  <2> SUFFICES ASSUME NEW s \in Scopes, byScope[s] # Nothing, readAt[byScope[s]] = 0
               PROVE  \E d \in Callers : entry[d] = byScope[s]
                                  /\ place'[d] \in {"waiting", "reading", "failed"}
    BY <1>f DEF NoEmptyEntryLeft
  <2>1. PICK d \in Callers : entry[d] = byScope[s] /\ place[d] \in {"waiting", "reading", "failed"}
    BY DEF CacheInv, NoEmptyEntryLeft
  <2>2. d # c
    <3> SUFFICES ASSUME d = c PROVE FALSE
      OBVIOUS
    <3>1. Reuse(c)
      BY <2>1 DEF ReadUnkept
    <3> QED BY <2>1, <3>1 DEF Reuse, Fresh
  <2> QED BY <1>t, <1>f, <2>1, <2>2 DEF TypeOK
<1> QED BY <1>1, <1>2, <1>3, <1>4, <1>5 DEF CacheInv

LEMMA BeginReadStep ==
  ASSUME CacheInv, NEW c \in Callers, BeginRead(c)
  PROVE  CacheInv'
<1>t. TypeOK /\ Nothing \notin Callers
  BY NamesAssumption DEF CacheInv
<1>f. /\ place' = [place EXCEPT ![c] = "reading"] /\ place[c] = "waiting"
      /\ heldBy' = [heldBy EXCEPT ![entry[c]] = c] /\ heldBy[entry[c]] = Nothing
      /\ UNCHANGED <<now, byScope, readAt, scope, entry, answer>>
  BY DEF BeginRead, Goto
<1>e. entry[c] \in Callers
  BY <1>f, EntryOf
<1>1. TypeOK'
  BY <1>t, <1>f DEF TypeOK, Places
<1>2. OfOneScope' /\ HasEntry' /\ PastReads' /\ ReusedIsYoung'
  BY <1>t, <1>e, <1>f DEF CacheInv, TypeOK, OfOneScope, HasEntry, PastReads, ReusedIsYoung, Holding
<1>3. MutexInv'
  <2>1. ASSUME NEW e \in Callers, heldBy'[e] # Nothing
        PROVE  place'[heldBy'[e]] \in Holding /\ entry'[heldBy'[e]] = e
    BY <1>t, <1>e, <1>f, <2>1 DEF CacheInv, TypeOK, MutexInv, Holding
  <2>2. ASSUME NEW d \in Callers, place'[d] \in Holding
        PROVE  heldBy'[entry'[d]] = d
    BY <1>t, <1>e, <1>f, <2>2 DEF CacheInv, TypeOK, MutexInv, Holding
  <2> QED BY <2>1, <2>2 DEF MutexInv
<1>4. NoEmptyEntryLeft'
  BY <1>t, <1>f DEF CacheInv, TypeOK, NoEmptyEntryLeft
<1> QED BY <1>1, <1>2, <1>3, <1>4 DEF CacheInv

(* A read that ends, one way or the other, with the mutex still held.      *)
LEMMA EndReadStep ==
  ASSUME CacheInv, NEW c \in Callers, ReadFails(c) \/ ReadSucceeds(c)
  PROVE  CacheInv'
<1>t. TypeOK /\ Nothing \notin Callers
  BY NamesAssumption DEF CacheInv
<1>f. /\ place[c] = "reading"
      /\ \E next \in {"failed", "kept"} : place' = [place EXCEPT ![c] = next]
      /\ \/ readAt' = readAt
         \/ readAt' = [readAt EXCEPT ![entry[c]] = now] /\ ReadSucceeds(c)
      /\ \E kind \in {"error", "read"} :
           answer' = [answer EXCEPT ![c] = [kind |-> kind, age |-> now - now]]
      /\ UNCHANGED <<now, byScope, heldBy, scope, entry>>
  BY DEF ReadFails, ReadSucceeds, Goto, Return
<1>e. entry[c] \in Callers /\ now \in Nat \ {0} /\ now - now = 0
  BY <1>t, <1>f, EntryOf, TimeAssumption DEF Holding, TypeOK
<1>1. TypeOK'
  BY <1>t, <1>e, <1>f DEF TypeOK, Places, Answer
<1>2. OfOneScope' /\ HasEntry'
  BY <1>t, <1>f DEF CacheInv, TypeOK, OfOneScope, HasEntry, Holding
<1>3. MutexInv'
  BY <1>t, <1>f DEF CacheInv, TypeOK, MutexInv, Holding
<1>4. PastReads'
  BY <1>t, <1>e, <1>f DEF CacheInv, TypeOK, PastReads
<1>5. ReusedIsYoung'
  BY <1>t, <1>f DEF CacheInv, TypeOK, ReusedIsYoung
<1>6. NoEmptyEntryLeft'
  <2> SUFFICES ASSUME NEW s \in Scopes, byScope[s] # Nothing, readAt'[byScope[s]] = 0
               PROVE  \E d \in Callers : entry[d] = byScope[s]
                                  /\ place'[d] \in {"waiting", "reading", "failed"}
    BY <1>f DEF NoEmptyEntryLeft
  <2>1. readAt[byScope[s]] = 0
    BY <1>t, <1>e, <1>f DEF TypeOK
  <2>2. PICK d \in Callers : entry[d] = byScope[s] /\ place[d] \in {"waiting", "reading", "failed"}
    BY <2>1 DEF CacheInv, NoEmptyEntryLeft
  <2>3. CASE d # c
    BY <1>t, <1>f, <2>2, <2>3 DEF TypeOK
  <2>4. CASE d = c
    <3>1. ~ReadSucceeds(c)
      BY <1>t, <1>e, <2>2, <2>4 DEF ReadSucceeds, TypeOK
    <3>2. place'[c] = "failed"
      BY <1>t, <3>1 DEF ReadFails, Goto, TypeOK
    <3> QED BY <2>2, <2>4, <3>2
  <2> QED BY <2>3, <2>4
<1> QED BY <1>1, <1>2, <1>3, <1>4, <1>5, <1>6 DEF CacheInv

(* Dropping entries of the map, which nobody's hands rely on.              *)
LEMMA ForgetStep ==
  ASSUME CacheInv, NEW c \in Callers, ForgetUnread(c) \/ ForgetOld(c)
  PROVE  CacheInv'
<1>t. TypeOK /\ Nothing \notin Callers
  BY NamesAssumption DEF CacheInv
<1>f. /\ place' = [place EXCEPT ![c] = "unlocking"] /\ place[c] \in {"failed", "kept"}
      /\ UNCHANGED <<now, readAt, heldBy, scope, entry, answer>>
  BY DEF ForgetUnread, ForgetOld, Goto
<1>b. /\ byScope' \in [Scopes -> Callers \cup {Nothing}]
      /\ \A s \in Scopes : byScope'[s] \in {byScope[s], Nothing}
  BY <1>t DEF ForgetUnread, ForgetOld, TypeOK
<1>e. entry[c] \in Callers
  BY <1>f, EntryOf DEF Holding
<1>1. TypeOK'
  BY <1>t, <1>b, <1>f DEF TypeOK, Places
<1>2. OfOneScope' /\ HasEntry' /\ PastReads' /\ ReusedIsYoung'
  BY <1>t, <1>b, <1>f DEF CacheInv, TypeOK, OfOneScope, HasEntry, PastReads, ReusedIsYoung, Holding
<1>3. MutexInv'
  BY <1>t, <1>f DEF CacheInv, TypeOK, MutexInv, Holding
<1>4. NoEmptyEntryLeft'
  <2> SUFFICES ASSUME NEW s \in Scopes, byScope'[s] # Nothing, readAt[byScope'[s]] = 0
               PROVE  \E d \in Callers : entry[d] = byScope'[s]
                                  /\ place'[d] \in {"waiting", "reading", "failed"}
    BY <1>f DEF NoEmptyEntryLeft
  <2>1. byScope'[s] = byScope[s]
    BY <1>b
  <2>2. PICK d \in Callers : entry[d] = byScope[s] /\ place[d] \in {"waiting", "reading", "failed"}
    BY <2>1 DEF CacheInv, NoEmptyEntryLeft
  <2>3. CASE d # c
    BY <1>t, <1>f, <2>1, <2>2, <2>3 DEF TypeOK
  <2>4. CASE d = c
    <3>1. ForgetUnread(c) /\ place[c] \in Holding
      BY <1>f, <2>2, <2>4 DEF ForgetOld, Holding
    <3>2. s = scope[c]
      BY <2>2, <2>4, <3>1, InMapUnderItsScope
    <3>3. byScope'[s] = Nothing
      BY <1>t, <2>1, <2>2, <2>4, <3>1, <3>2 DEF ForgetUnread, TypeOK
    <3> QED BY <3>3
  <2> QED BY <2>3, <2>4
<1> QED BY <1>1, <1>2, <1>3, <1>4 DEF CacheInv

LEMMA UnlockStep ==
  ASSUME CacheInv, NEW c \in Callers, Unlock(c)
  PROVE  CacheInv'
<1>t. TypeOK /\ Nothing \notin Callers
  BY NamesAssumption DEF CacheInv
<1>f. /\ place' = [place EXCEPT ![c] = "done"] /\ place[c] = "unlocking"
      /\ heldBy' = [heldBy EXCEPT ![entry[c]] = Nothing]
      /\ UNCHANGED <<now, byScope, readAt, scope, entry, answer>>
  BY DEF Unlock, Goto
<1>e. entry[c] \in Callers /\ heldBy[entry[c]] = c
  BY <1>f, EntryOf DEF Holding, CacheInv, MutexInv
<1>1. TypeOK'
  BY <1>t, <1>f DEF TypeOK, Places
<1>2. OfOneScope' /\ HasEntry' /\ PastReads' /\ ReusedIsYoung'
  BY <1>t, <1>f DEF CacheInv, TypeOK, OfOneScope, HasEntry, PastReads, ReusedIsYoung, Holding
<1>3. MutexInv'
  <2>1. ASSUME NEW e \in Callers, heldBy'[e] # Nothing
        PROVE  place'[heldBy'[e]] \in Holding /\ entry'[heldBy'[e]] = e
    BY <1>t, <1>e, <1>f, <2>1 DEF CacheInv, TypeOK, MutexInv
  <2>2. ASSUME NEW d \in Callers, place'[d] \in Holding
        PROVE  heldBy'[entry'[d]] = d
    <3>1. d # c /\ heldBy[entry[d]] = d
      BY <1>t, <1>f, <2>2 DEF CacheInv, TypeOK, MutexInv, Holding
    <3>2. entry[d] # entry[c]
      BY <1>e, <3>1
    <3>3. entry[d] \in Callers
      BY <1>t, <1>f, <2>2, <3>1, EntryOf DEF TypeOK
    <3> QED BY <1>t, <1>f, <3>1, <3>2, <3>3 DEF TypeOK
  <2> QED BY <2>1, <2>2 DEF MutexInv
<1>4. NoEmptyEntryLeft'
  BY <1>t, <1>f DEF CacheInv, TypeOK, NoEmptyEntryLeft
<1> QED BY <1>1, <1>2, <1>3, <1>4 DEF CacheInv

LEMMA CacheNext == CacheInv /\ [Next]_vars => CacheInv'
<1> SUFFICES ASSUME CacheInv, [Next]_vars PROVE CacheInv'
  OBVIOUS
<1>1. CASE \E c \in Callers : Call(c)
  BY <1>1, FindStep, AnswerStep, BeginReadStep, EndReadStep, ForgetStep, UnlockStep DEF Call
<1>2. CASE UNCHANGED vars
  BY <1>2 DEF vars, CacheInv, TypeOK, OfOneScope, HasEntry, MutexInv, PastReads,
     ReusedIsYoung, NoEmptyEntryLeft
<1> QED BY <1>1, <1>2, TickStep DEF Next

(* The inductive invariant of the kept reads holds throughout.             *)
THEOREM CacheInvariant == Spec => []CacheInv
BY CacheInitially, CacheNext, PTL DEF Spec

(* Every variable keeps its type.                                          *)
THEOREM TypeCorrect == Spec => []TypeOK
<1>1. CacheInv => TypeOK
  BY DEF CacheInv
<1> QED BY <1>1, CacheInvariant, PTL

(* Two callers of one scope make one read between them, what is reused is  *)
(* younger than certLife, and the map holds no entry nobody is to fill     *)
(* (certFor).                                                              *)
THEOREM WorthHolding == Spec => []SharedFreshOrGone
<1>1. CacheInv => OneReadBetweenThem
  <2> SUFFICES ASSUME CacheInv, NEW c \in Callers, NEW d \in Callers, c # d,
                      scope[c] = scope[d],
                      place[c] = "reading", place[d] = "reading",
                      entry[c] = byScope[scope[c]], entry[d] = byScope[scope[d]]
               PROVE  FALSE
    BY DEF OneReadBetweenThem
  <2>1. heldBy[entry[c]] = c /\ heldBy[entry[d]] = d
    BY DEF CacheInv, MutexInv, Holding
  <2> QED BY <2>1
<1>2. CacheInv => SharedFreshOrGone
  BY <1>1 DEF CacheInv, SharedFreshOrGone
<1> QED BY <1>2, CacheInvariant, PTL

(* A kept read leaves the map only once it is as old as certLife, whatever *)
(* fails meanwhile (forgetUnread, forgetOld).                              *)
THEOREM ReadsAreKept == Spec => KeptForItsLife
<1>1. ASSUME TypeOK, [Next]_vars, NEW s \in Scopes,
             byScope[s] # Nothing, byScope'[s] # byScope[s], readAt[byScope[s]] # 0
      PROVE  Old(byScope[s])
  <2>t. byScope \in [Scopes -> Callers \cup {Nothing}]
    BY <1>1 DEF TypeOK
  <2>1. ASSUME NEW c \in Callers, Find(c) \/ ForgetUnread(c)
        PROVE  byScope'[s] = byScope[s]
    BY <1>1, <2>t, <2>1 DEF Find, ForgetUnread
  <2>2. \E c \in Callers : ForgetOld(c)
    BY <1>1, <2>1 DEF Next, Tick, Call, ReadUnkept, Reuse, BeginRead, ReadFails,
       ReadSucceeds, Unlock, vars
  <2> QED BY <1>1, <2>t, <2>2 DEF ForgetOld
<1>2. TypeOK /\ [Next]_vars
        => [\A s \in Scopes :
              LET e == byScope[s]
              IN e # Nothing /\ byScope'[s] # e /\ readAt[e] # 0 => Old(e)]_vars
  BY <1>1
<1> QED BY <1>2, TypeCorrect, PTL DEF Spec, KeptForItsLife
=============================================================================
