------------------------ MODULE ServiceAccount_proofs ------------------------
(***************************************************************************)
(* Proofs about ServiceAccount, for any number of provisions and revokes.  *)
(*                                                                         *)
(* What a revoke reports gone stays gone because a provision makes an      *)
(* object of a kind at most once: a name may be taken again, but by        *)
(* something else.  So the invariant relates three moments: an object that *)
(* is live, or was seen live, has a maker that is past making that kind;   *)
(* and a revoke that is past deleting a kind has removed what it saw.      *)
(* Further down, what a provision that no revoke has crossed has made      *)
(* stays whole (UncrossedHolds), and what was no provision's stays         *)
(* (Taking).                                                               *)
(***************************************************************************)
EXTENDS ServiceAccount, TLAPS

(* Where a provision that may still make an object of kind k is.           *)
Before(k) ==
  {"start", "serviceaccount"}
    \cup (IF k = "serviceaccount" THEN {} ELSE {"role"})
    \cup (IF k = "rolebinding" THEN {"rolebinding"} ELSE {})

(* Where a revoke that is through with kind k is.                          *)
Through(k) ==
  {"reported"}
    \cup (IF k = "serviceaccount" THEN {} ELSE {"delserviceaccount"})
    \cup (IF k = "rolebinding" THEN {"checkrole", "delrole"} ELSE {})

MadeOnce ==
  \A p \in Provisions, k \in Kinds : live[k] = p => at[p] \notin Before(k)

SeenMade ==
  \A r \in Revokes, k \in Kinds, p \in Provisions :
    seen[r][k] = p => at[p] \notin Before(k)

RemovedWhatItSaw ==
  \A r \in Revokes, k \in Kinds, p \in Provisions :
    at[r] \in Through(k) /\ seen[r][k] = p => live[k] # p

Inv == TypeOK /\ MadeOnce /\ SeenMade /\ RemovedWhatItSaw

-----------------------------------------------------------------------------
(* Every variable keeps its type.                                          *)

LEMMA TypeInit == Init => TypeOK
<1> SUFFICES ASSUME Init PROVE TypeOK
  OBVIOUS
<1>o. Absent \in Owners /\ Foreign \in Owners
  BY DEF Owners, Makers
<1>1. file \in [by : Owners, whole : BOOLEAN]
  <2>1. CASE file = [by |-> Absent, whole |-> FALSE]
    BY <1>o, <2>1
  <2>2. CASE file = [by |-> Foreign, whole |-> TRUE]
    BY <1>o, <2>2
  <2> QED BY <2>1, <2>2 DEF Init
<1>2. seen \in [Revokes -> [Kinds -> Owners]] /\ read \in [Revokes -> [Kinds -> Owners]]
  BY <1>o DEF Init
<1>3. live \in [Kinds -> Owners] /\ token \in [Provisions -> Owners]
  BY <1>o DEF Init
<1>4. at \in [Processes -> Steps \cup Answers] /\ foreigns \subseteq Kinds /\ crossed \subseteq Provisions
  BY DEF Init, Steps
<1>5. mode \in [Provisions -> {"print", "out", "force"}]
  BY DEF Init
<1> QED BY <1>1, <1>2, <1>3, <1>4, <1>5 DEF TypeOK

LEMMA TypeProvision ==
  ASSUME TypeOK, NEW p \in Provisions, Provision(p)
  PROVE  TypeOK'
<1>t. /\ live \in [Kinds -> Owners] /\ foreigns \subseteq Kinds
      /\ file \in [by : Owners, whole : BOOLEAN]
      /\ mode \in [Provisions -> {"print", "out", "force"}]
      /\ at \in [Processes -> Steps \cup Answers]
      /\ token \in [Provisions -> Owners]
      /\ seen \in [Revokes -> [Kinds -> Owners]]
      /\ read \in [Revokes -> [Kinds -> Owners]]
      /\ crossed \subseteq Provisions
      /\ p \in Owners /\ p \in Processes
  BY DEF TypeOK, Owners, Makers, Processes
<1>1. CASE Begin(p)
  BY <1>t, <1>1 DEF TypeOK, Begin, Goto, Steps, Answers, cluster, history
<1>2. CASE \E k \in Kinds : Create(p, k)
  BY <1>t, <1>2 DEF TypeOK, Create, Goto, AfterCreate, Kinds, Steps, Answers
<1>3. CASE \E k \in Kinds : CreateCollides(p, k)
  BY <1>t, <1>3 DEF TypeOK, CreateCollides, Goto, Steps, Answers, cluster, history
<1>4. CASE Mint(p)
  BY <1>t, <1>4 DEF TypeOK, Mint, Goto, Kinds, Steps, Answers, cluster, history
<1>5. CASE Assemble(p)
  BY <1>t, <1>5 DEF TypeOK, Assemble, Goto, Steps, Answers, cluster, history
<1>6. CASE OpenExclusive(p) \/ Replace(p)
  <2>1. PICK w \in BOOLEAN : file' = [by |-> p, whole |-> w]
    BY <1>6 DEF OpenExclusive, Replace
  <2>2. file' \in [by : Owners, whole : BOOLEAN]
    BY <1>t, <2>1
  <2> QED BY <1>t, <1>6, <2>2 DEF TypeOK, OpenExclusive, Replace, Goto, Steps, Answers, cluster, history
<1>7. CASE OpenRefused(p)
  BY <1>t, <1>7 DEF TypeOK, OpenRefused, Goto, Steps, Answers, cluster, history
<1>8. CASE WriteAndClose(p)
  BY <1>t, <1>8 DEF TypeOK, WriteAndClose, Goto, Steps, Answers, cluster, history
<1> QED BY <1>1, <1>2, <1>3, <1>4, <1>5, <1>6, <1>7, <1>8 DEF Provision

LEMMA TypeRevoke ==
  ASSUME TypeOK, NEW r \in Revokes, Revoke(r)
  PROVE  TypeOK'
<1>t. /\ live \in [Kinds -> Owners] /\ foreigns \subseteq Kinds
      /\ file \in [by : Owners, whole : BOOLEAN]
      /\ mode \in [Provisions -> {"print", "out", "force"}]
      /\ at \in [Processes -> Steps \cup Answers]
      /\ token \in [Provisions -> Owners]
      /\ seen \in [Revokes -> [Kinds -> Owners]]
      /\ read \in [Revokes -> [Kinds -> Owners]]
      /\ crossed \subseteq Provisions
      /\ Absent \in Owners /\ r \in Processes
  BY DEF TypeOK, Owners, Processes
<1>1. CASE FindAccount(r)
  <2>1. Judgement(live["serviceaccount"]) \in Steps \cup Answers
    BY DEF Judgement, Steps, Answers
  <2> QED BY <1>t, <1>1, <2>1 DEF TypeOK, FindAccount, Goto, Kinds, cluster
<1>2. CASE \E k \in Kinds : Check(r, k)
  BY <1>t, <1>2 DEF TypeOK, Check, Goto, CheckOf, DeleteOf, AfterDelete, Kinds, Steps, Answers, cluster
<1>3. CASE \E k \in Kinds : Delete(r, k)
  BY <1>t, <1>3 DEF TypeOK, Delete, Goto, DeleteOf, AfterDelete, Kinds, Steps, Answers, history
<1> QED BY <1>1, <1>2, <1>3 DEF Revoke

LEMMA TypeOthers ==
  ASSUME TypeOK, \/ \E x \in Processes : GiveUp(x)
                 \/ \E k \in Kinds : MakeForeign(k)
                 \/ UNCHANGED vars
  PROVE  TypeOK'
<1>t. /\ live \in [Kinds -> Owners] /\ foreigns \subseteq Kinds
      /\ at \in [Processes -> Steps \cup Answers]
      /\ Foreign \in Owners
  BY DEF TypeOK, Owners, Makers
<1>1. CASE \E x \in Processes : GiveUp(x)
  BY <1>t, <1>1 DEF TypeOK, GiveUp, Goto, Answers, cluster, history
<1>2. CASE \E k \in Kinds : MakeForeign(k)
  BY <1>t, <1>2 DEF TypeOK, MakeForeign, history
<1>3. CASE UNCHANGED vars
  BY <1>3 DEF TypeOK, vars, cluster, history
<1> QED BY <1>1, <1>2, <1>3

-----------------------------------------------------------------------------
(* What a step does to the four facts the invariant is about.              *)

(* A provision past making a kind stays past it.                           *)
LEMMA NeverBack ==
  ASSUME TypeOK, [Next]_vars, NEW p \in Provisions, NEW k \in Kinds,
         at[p] \notin Before(k)
  PROVE  at'[p] \notin Before(k)
<1>t. /\ at \in [Processes -> Steps \cup Answers]
      /\ p \in Processes /\ Provisions \cap Revokes = {}
  BY MakersAssumption DEF TypeOK, Processes
<1>k. k \in {"serviceaccount", "role", "rolebinding"}
  BY DEF Kinds
<1>1. CASE \E q \in Provisions : Provision(q)
  <2> PICK q \in Provisions : Provision(q)
    BY <1>1
  <2>0. CASE p # q
    BY <1>t, <2>0 DEF Provision, Begin, Create, CreateCollides, Mint, Assemble,
       OpenExclusive, OpenRefused, WriteAndClose, Replace, Goto
  <2> SUFFICES ASSUME p = q PROVE at'[p] \notin Before(k)
    BY <2>0
  <2>1. CASE Begin(q)
    BY <1>t, <1>k, <2>1 DEF Begin, Before
  <2>2. CASE \E j \in Kinds : Create(q, j)
    BY <1>t, <1>k, <2>2 DEF Create, Goto, AfterCreate, Before, Kinds
  <2>3. CASE \E j \in Kinds : CreateCollides(q, j)
    BY <1>t, <1>k, <2>3 DEF CreateCollides, Goto, Before
  <2>4. CASE Mint(q) \/ Assemble(q)
    BY <1>t, <1>k, <2>4 DEF Mint, Assemble, Goto, Before
  <2>5. CASE OpenExclusive(q) \/ OpenRefused(q) \/ WriteAndClose(q) \/ Replace(q)
    BY <1>t, <1>k, <2>5 DEF OpenExclusive, OpenRefused, WriteAndClose, Replace, Goto, Before
  <2> QED BY <2>1, <2>2, <2>3, <2>4, <2>5 DEF Provision
<1>2. CASE \E r \in Revokes : Revoke(r)
  BY <1>t, <1>2 DEF Revoke, FindAccount, Check, Delete, Goto
<1>3. CASE \E x \in Processes : GiveUp(x)
  BY <1>t, <1>k, <1>3 DEF GiveUp, Goto, Before
<1>4. CASE (\E j \in Kinds : MakeForeign(j)) \/ UNCHANGED vars
  BY <1>4 DEF MakeForeign, vars
<1> QED BY <1>1, <1>2, <1>3, <1>4 DEF Next

(* An object of a provision appears only by that provision making it, and  *)
(* then it was not past making that kind, and is.                          *)
LEMMA AppearsByMaking ==
  ASSUME TypeOK, [Next]_vars, NEW p \in Provisions, NEW k \in Kinds,
         live[k] # p, live'[k] = p
  PROVE  at[p] \in Before(k) /\ at'[p] \notin Before(k)
<1>t. /\ live \in [Kinds -> Owners]
      /\ at \in [Processes -> Steps \cup Answers]
      /\ p \in Processes /\ p # Foreign /\ p # Absent
  BY MakersAssumption DEF TypeOK, Processes
<1>k. k \in {"serviceaccount", "role", "rolebinding"}
  BY DEF Kinds
<1>1. CASE \E q \in Provisions : Provision(q)
  <2> PICK q \in Provisions : Provision(q)
    BY <1>1
  <2>1. CASE \E j \in Kinds : Create(q, j)
    <3> PICK j \in Kinds : Create(q, j)
      BY <2>1
    <3>1. q = p /\ j = k
      BY <1>t DEF Create
    <3>2. at[p] = k /\ at'[p] = AfterCreate(k)
      BY <1>t, <3>1 DEF Create, Goto
    <3> QED BY <1>k, <3>2 DEF AfterCreate, Before
  <2>2. CASE ~ \E j \in Kinds : Create(q, j)
    BY <2>2 DEF Provision, Begin, CreateCollides, Mint, Assemble, OpenExclusive,
       OpenRefused, WriteAndClose, Replace, cluster
  <2> QED BY <2>1, <2>2
<1>2. CASE \E r \in Revokes : Revoke(r)
  BY <1>t, <1>2 DEF Revoke, FindAccount, Check, Delete, cluster
<1>3. CASE \E x \in Processes : GiveUp(x)
  BY <1>3 DEF GiveUp, cluster
<1>4. CASE \E j \in Kinds : MakeForeign(j)
  BY <1>t, <1>4 DEF MakeForeign
<1>5. CASE UNCHANGED vars
  BY <1>5 DEF vars, cluster
<1> QED BY <1>1, <1>2, <1>3, <1>4, <1>5 DEF Next

(* A revoke's view of the cluster is the cluster as it began.              *)
LEMMA SeesWhatIsLive ==
  ASSUME TypeOK, [Next]_vars, NEW r \in Revokes, seen'[r] # seen[r]
  PROVE  /\ seen'[r] = live
         /\ \A k \in Kinds : at'[r] \notin Through(k)
<1>t. /\ seen \in [Revokes -> [Kinds -> Owners]]
      /\ at \in [Processes -> Steps \cup Answers]
      /\ r \in Processes
  BY DEF TypeOK, Processes
<1>1. CASE \E q \in Revokes : Revoke(q)
  <2> PICK q \in Revokes : Revoke(q)
    BY <1>1
  <2>1. q = r /\ FindAccount(r)
    BY <1>t DEF Revoke, FindAccount, Check, Delete, history
  <2>2. seen'[r] = live /\ at'[r] = Judgement(live["serviceaccount"])
    BY <1>t, <2>1 DEF FindAccount, Goto
  <2>3. Judgement(live["serviceaccount"]) \in {"notfound", "notprovisioned", "checkrolebinding"}
    BY DEF Judgement
  <2> QED BY <2>2, <2>3 DEF Through
<1>2. CASE \E p \in Provisions : Provision(p)
  BY <1>2 DEF Provision, Begin, Create, CreateCollides, Mint, Assemble, OpenExclusive,
     OpenRefused, WriteAndClose, Replace, history
<1>3. CASE (\E x \in Processes : GiveUp(x)) \/ (\E j \in Kinds : MakeForeign(j)) \/ UNCHANGED vars
  BY <1>3 DEF GiveUp, MakeForeign, vars, history
<1> QED BY <1>1, <1>2, <1>3 DEF Next

(* A revoke gets through a kind by deleting what has its name, or because  *)
(* what has its name is no provision's.                                    *)
LEMMA ThroughByRemoving ==
  ASSUME TypeOK, [Next]_vars, NEW r \in Revokes, NEW k \in Kinds, NEW p \in Provisions,
         at[r] \notin Through(k), at'[r] \in Through(k)
  PROVE  live'[k] # p
<1>t. /\ at \in [Processes -> Steps \cup Answers]
      /\ live \in [Kinds -> Owners]
      /\ r \in Processes /\ p # Absent
      /\ Provisions \cap Revokes = {}
  BY MakersAssumption DEF TypeOK, Processes
<1>k. k \in {"serviceaccount", "role", "rolebinding"}
  BY DEF Kinds
<1>1. CASE \E q \in Revokes : Revoke(q)
  <2> PICK q \in Revokes : Revoke(q)
    BY <1>1
  <2>q. q = r
    BY <1>t DEF Revoke, FindAccount, Check, Delete, Goto
  <2>1. CASE FindAccount(r)
    <3>1. at'[r] = Judgement(live["serviceaccount"])
      BY <1>t, <2>1 DEF FindAccount, Goto
    <3>2. Judgement(live["serviceaccount"]) \in {"notfound", "notprovisioned", "checkrolebinding"}
      BY DEF Judgement
    <3> QED BY <3>1, <3>2 DEF Through
  <2>2. CASE \E j \in Kinds : Check(r, j)
    <3> PICK j \in Kinds : Check(r, j)
      BY <2>2
    <3>1. /\ live' = live
          /\ j \in {"role", "rolebinding"} /\ at[r] = CheckOf(j)
          /\ at'[r] = IF Ours(live[j]) THEN DeleteOf(j) ELSE AfterDelete(j)
      BY <1>t DEF Check, Goto, cluster, Kinds
    <3>2. j = k /\ ~Ours(live[j])
      BY <1>k, <3>1 DEF CheckOf, DeleteOf, AfterDelete, Through
    <3> QED BY <3>1, <3>2 DEF Ours
  <2>3. CASE \E j \in Kinds : Delete(r, j)
    <3> PICK j \in Kinds : Delete(r, j)
      BY <2>3
    <3>1. /\ live' = [live EXCEPT ![j] = Absent]
          /\ at[r] = DeleteOf(j) /\ at'[r] = AfterDelete(j)
      BY <1>t DEF Delete, Goto
    <3>2. j = k
      BY <1>k, <3>1 DEF DeleteOf, AfterDelete, Through, Kinds
    <3> QED BY <1>t, <3>1, <3>2
  <2> QED BY <2>q, <2>1, <2>2, <2>3 DEF Revoke
<1>2. CASE \E q \in Provisions : Provision(q)
  BY <1>t, <1>2 DEF Provision, Begin, Create, CreateCollides, Mint, Assemble, OpenExclusive,
     OpenRefused, WriteAndClose, Replace, Goto
<1>3. CASE \E x \in Processes : GiveUp(x)
  BY <1>t, <1>3 DEF GiveUp, Goto, Through
<1>4. CASE (\E j \in Kinds : MakeForeign(j)) \/ UNCHANGED vars
  BY <1>4 DEF MakeForeign, vars
<1> QED BY <1>1, <1>2, <1>3, <1>4 DEF Next

-----------------------------------------------------------------------------
(* The invariant holds initially and every step keeps it.                  *)

LEMMA InvInit == Init => Inv
<1> SUFFICES ASSUME Init PROVE Inv
  OBVIOUS
<1>1. /\ \A k \in Kinds : live[k] = Absent
      /\ \A r \in Revokes, k \in Kinds : seen[r][k] = Absent
      /\ Absent \notin Provisions
  BY MakersAssumption DEF Init
<1> QED BY <1>1, TypeInit DEF Inv, MadeOnce, SeenMade, RemovedWhatItSaw

LEMMA InvNext == Inv /\ [Next]_vars => Inv'
<1> SUFFICES ASSUME Inv, [Next]_vars PROVE Inv'
  OBVIOUS
<1>i. TypeOK /\ MadeOnce /\ SeenMade /\ RemovedWhatItSaw
  BY DEF Inv
<1>1. TypeOK'
  BY <1>i, TypeProvision, TypeRevoke, TypeOthers DEF Next
<1>2. MadeOnce'
  BY <1>i, NeverBack, AppearsByMaking DEF MadeOnce
<1>3. SeenMade'
  <2> SUFFICES ASSUME NEW r \in Revokes, NEW k \in Kinds, NEW p \in Provisions,
                      seen'[r][k] = p
               PROVE  at'[p] \notin Before(k)
    BY DEF SeenMade
  <2>1. seen[r][k] = p \/ live[k] = p
    BY <1>i, SeesWhatIsLive
  <2>2. at[p] \notin Before(k)
    BY <1>i, <2>1 DEF MadeOnce, SeenMade
  <2> QED BY <1>i, <2>2, NeverBack
<1>4. RemovedWhatItSaw'
  <2> SUFFICES ASSUME NEW r \in Revokes, NEW k \in Kinds, NEW p \in Provisions,
                      at'[r] \in Through(k), seen'[r][k] = p
               PROVE  live'[k] # p
    BY DEF RemovedWhatItSaw
  <2>1. seen'[r] = seen[r]
    BY <1>i, SeesWhatIsLive
  <2>2. CASE at[r] \in Through(k)
    <3>1. live[k] # p /\ at[p] \notin Before(k)
      BY <1>i, <2>1, <2>2 DEF RemovedWhatItSaw, SeenMade
    <3> QED BY <1>i, <3>1, AppearsByMaking
  <2>3. CASE at[r] \notin Through(k)
    BY <1>i, <2>3, ThroughByRemoving
  <2> QED BY <2>2, <2>3
<1> QED BY <1>1, <1>2, <1>3, <1>4 DEF Inv

(* The inductive invariant of provision and revoke holds throughout.       *)
THEOREM ServiceAccountInvariant == Spec => []Inv
BY InvInit, InvNext, PTL DEF Spec

(* Every variable keeps its type.                                          *)
THEOREM TypeCorrect == Spec => []TypeOK
<1>1. Inv => TypeOK
  BY DEF Inv
<1> QED BY <1>1, ServiceAccountInvariant, PTL

(* A revoke that reports has left nothing of any provision that was there  *)
(* when it began (runServiceAccountRevoke).                                *)
THEOREM NothingSurvivesARevoke == Spec => []RevokedIsGone
<1>1. Inv => RevokedIsGone
  <2> SUFFICES ASSUME Inv, NEW r \in Revokes, at[r] = "reported",
                      NEW k \in Kinds, seen[r][k] \in Provisions
               PROVE  live[k] # seen[r][k]
    BY DEF RevokedIsGone, Ours
  <2>1. at[r] \in Through(k)
    BY DEF Through
  <2> QED BY <2>1 DEF Inv, RemovedWhatItSaw
<1> QED BY <1>1, ServiceAccountInvariant, PTL

-----------------------------------------------------------------------------
(* A provision no revoke crossed.  From the step that makes an object of   *)
(* kind k to its answer it holds that kind, alone, and the token it mints  *)
(* is for what it holds.                                                   *)

(* Where a provision that has made an object of kind k, and not given up   *)
(* on the call, is.                                                        *)
Holding(k) ==
  {"token", "assemble", "open", "writing", "done"}
    \cup (IF k = "rolebinding" THEN {} ELSE {"rolebinding"})
    \cup (IF k = "serviceaccount" THEN {"role"} ELSE {})

Minted == {"assemble", "open", "writing", "done"}

(* No revoke is deleting while it holds anything: one that began then, or  *)
(* one it made something beside, would have crossed it.                    *)
HoldsAlone(p) ==
  at[p] \in Holding("serviceaccount") => \A r \in Revokes : ~Deleting(r)

HoldsAll(p) ==
  /\ \A k \in Kinds : at[p] \in Holding(k) => live[k] = p
  /\ at[p] \in Minted => token[p] = p

UncrossedHolds == \A p \in Provisions \ crossed : HoldsAlone(p) /\ HoldsAll(p)

(* The step of a provision that is not p's changes nothing p relies on.    *)
LEMMA OtherProvision ==
  ASSUME TypeOK, NEW p \in Provisions, NEW q \in Provisions, q # p,
         p \notin crossed', Provision(q), HoldsAlone(p), HoldsAll(p)
  PROVE  HoldsAlone(p)' /\ HoldsAll(p)'
<1>t. /\ live \in [Kinds -> Owners] /\ token \in [Provisions -> Owners]
      /\ at \in [Processes -> Steps \cup Answers]
      /\ p \in Processes /\ q \in Processes /\ p # Absent
      /\ \A r \in Revokes : r \in Processes /\ r # q
  BY MakersAssumption DEF TypeOK, Processes
<1>1. at'[p] = at[p] /\ \A r \in Revokes : at'[r] = at[r]
  BY <1>t DEF Provision, Begin, Create, CreateCollides, Mint, Assemble,
     OpenExclusive, OpenRefused, WriteAndClose, Replace, Goto
<1>2. token'[p] = token[p]
  BY <1>t DEF Provision, Begin, Create, CreateCollides, Mint, Assemble,
     OpenExclusive, OpenRefused, WriteAndClose, Replace
<1>3. ASSUME NEW k \in Kinds, live[k] = p
      PROVE  live'[k] = p
  BY <1>t, <1>3 DEF Provision, Begin, Create, CreateCollides, Mint, Assemble,
     OpenExclusive, OpenRefused, WriteAndClose, Replace, cluster
<1>4. HoldsAlone(p)'
  BY <1>1 DEF HoldsAlone, Deleting
<1>5. HoldsAll(p)'
  BY <1>1, <1>2, <1>3 DEF HoldsAll
<1> QED BY <1>4, <1>5

(* p's own step: it makes one more kind, with no revoke deleting, or mints *)
(* a token for the ServiceAccount it holds, or changes neither.            *)
LEMMA OwnProvision ==
  ASSUME TypeOK, NEW p \in Provisions, p \notin crossed', p \notin crossed,
         Provision(p), HoldsAlone(p), HoldsAll(p)
  PROVE  HoldsAlone(p)' /\ HoldsAll(p)'
<1>t. /\ live \in [Kinds -> Owners] /\ token \in [Provisions -> Owners]
      /\ at \in [Processes -> Steps \cup Answers]
      /\ p \in Processes /\ p # Absent
      /\ \A r \in Revokes : r \in Processes /\ r # p
  BY MakersAssumption DEF TypeOK, Processes
<1>r. \A r \in Revokes : at'[r] = at[r]
  BY <1>t DEF Provision, Begin, Create, CreateCollides, Mint, Assemble,
     OpenExclusive, OpenRefused, WriteAndClose, Replace, Goto
<1>1. CASE Begin(p) \/ OpenRefused(p) \/ \E k \in Kinds : CreateCollides(p, k)
  <2>1. at'[p] \in {"refused", "serviceaccount"}
    BY <1>t, <1>1 DEF Begin, OpenRefused, CreateCollides, Goto
  <2> QED BY <2>1 DEF HoldsAlone, HoldsAll, Holding, Minted
<1>2. CASE \E k \in Kinds : Create(p, k)
  <2> PICK k \in Kinds : Create(p, k)
    BY <1>2
  <2>1. /\ at[p] = k /\ at'[p] = AfterCreate(k) /\ token' = token
        /\ live'[k] = p /\ \A j \in Kinds : j # k => live'[j] = live[j]
    BY <1>t DEF Create, Goto
  <2>2. \A r \in Revokes : ~Deleting(r)
    BY DEF Create
  <2>3. HoldsAlone(p)'
    BY <1>r, <2>2 DEF HoldsAlone, Deleting
  <2>4. ASSUME NEW j \in Kinds, j # k, at'[p] \in Holding(j)
        PROVE  at[p] \in Holding(j)
    BY <2>1, <2>4 DEF AfterCreate, Holding, Kinds
  <2>5. at'[p] \notin Minted
    BY <2>1 DEF AfterCreate, Minted, Kinds
  <2>6. HoldsAll(p)'
    BY <2>1, <2>4, <2>5 DEF HoldsAll
  <2> QED BY <2>3, <2>6
<1>3. CASE Mint(p)
  <2>1. /\ at[p] = "token" /\ at'[p] = "assemble" /\ live' = live
        /\ token'[p] = live["serviceaccount"]
    BY <1>t, <1>3 DEF Mint, Goto, cluster
  <2>2. \A k \in Kinds : live[k] = p
    BY <2>1 DEF HoldsAll, Holding
  <2>3. \A r \in Revokes : ~Deleting(r)
    BY <2>1 DEF HoldsAlone, Holding
  <2> QED BY <1>r, <2>1, <2>2, <2>3 DEF HoldsAlone, HoldsAll, Deleting, Kinds
<1>4. CASE Assemble(p) \/ OpenExclusive(p) \/ WriteAndClose(p) \/ Replace(p)
  <2>1. /\ at[p] \in Minted /\ at'[p] \in Minted
        /\ live' = live /\ token' = token
    BY <1>t, <1>4 DEF Assemble, OpenExclusive, WriteAndClose, Replace, Goto, Minted, cluster
  <2>2. \A k \in Kinds : at[p] \in Holding(k)
    BY <2>1 DEF Holding, Minted
  <2> QED BY <1>r, <2>1, <2>2 DEF HoldsAlone, HoldsAll, Deleting, Kinds
<1> QED BY <1>1, <1>2, <1>3, <1>4 DEF Provision

(* A revoke's step: the one that finds a ServiceAccount to delete crosses  *)
(* every provision that holds one, and the others are of a revoke that was *)
(* deleting already, which no uncrossed holder is beside.                  *)
LEMMA BesideRevoke ==
  ASSUME TypeOK, NEW p \in Provisions, NEW r \in Revokes,
         p \notin crossed', Revoke(r), HoldsAlone(p), HoldsAll(p)
  PROVE  HoldsAlone(p)' /\ HoldsAll(p)'
<1>t. /\ live \in [Kinds -> Owners] /\ token \in [Provisions -> Owners]
      /\ at \in [Processes -> Steps \cup Answers]
      /\ p \in Processes /\ r \in Processes /\ p # r
  BY MakersAssumption DEF TypeOK, Processes
<1>1. at'[p] = at[p] /\ token' = token
  BY <1>t DEF Revoke, FindAccount, Check, Delete, Goto
<1>2. CASE at[p] \notin Holding("serviceaccount")
  <2>1. \A k \in Kinds : at[p] \notin Holding(k)
    BY <1>2 DEF Holding
  <2>2. at[p] \notin Minted
    BY <1>2 DEF Holding, Minted
  <2> QED BY <1>1, <1>2, <2>1, <2>2 DEF HoldsAlone, HoldsAll
<1>3. CASE at[p] \in Holding("serviceaccount")
  <2>1. \A q \in Revokes : ~Deleting(q)
    BY <1>3 DEF HoldsAlone
  <2>2. \A k \in Kinds : ~Delete(r, k) /\ ~Check(r, k)
    BY <2>1 DEF Delete, Check, Deleting, DeleteOf, CheckOf, Kinds
  <2>3. FindAccount(r)
    BY <2>2 DEF Revoke
  <2>4. live["serviceaccount"] \notin Provisions
    BY <1>3, <2>3 DEF FindAccount, Ours, Holding
  <2>5. at'[r] \in {"notfound", "notprovisioned"}
    BY <1>t, <2>3, <2>4 DEF FindAccount, Goto, Judgement, Owners, Makers, Kinds
  <2>6. \A q \in Revokes : at'[q] = at[q] \/ at'[q] \in {"notfound", "notprovisioned"}
    BY <1>t, <2>3, <2>5 DEF FindAccount, Goto, Processes
  <2>7. HoldsAlone(p)'
    BY <2>1, <2>6 DEF HoldsAlone, Deleting
  <2>8. live' = live
    BY <2>3 DEF FindAccount, cluster
  <2> QED BY <1>1, <2>7, <2>8 DEF HoldsAll
<1> QED BY <1>2, <1>3

LEMMA UncrossedInit == Init => UncrossedHolds
BY DEF Init, UncrossedHolds, HoldsAlone, HoldsAll, Holding, Minted, Processes

LEMMA UncrossedNext ==
  TypeOK /\ UncrossedHolds /\ [Next]_vars => UncrossedHolds'
<1> SUFFICES ASSUME TypeOK, UncrossedHolds, [Next]_vars,
                    NEW p \in Provisions, p \notin crossed'
             PROVE  HoldsAlone(p)' /\ HoldsAll(p)'
  BY DEF UncrossedHolds
<1>t. /\ live \in [Kinds -> Owners]
      /\ at \in [Processes -> Steps \cup Answers]
      /\ p \in Processes /\ p # Absent /\ Revokes \subseteq Processes
  BY MakersAssumption DEF TypeOK, Processes
<1>0. p \notin crossed
  BY DEF Next, Provision, Begin, Create, CreateCollides, Mint, Assemble, OpenExclusive,
     OpenRefused, WriteAndClose, Replace, Revoke, FindAccount, Check, Delete,
     GiveUp, MakeForeign, vars, history
<1>i. HoldsAlone(p) /\ HoldsAll(p)
  BY <1>0 DEF UncrossedHolds
<1>1. CASE \E q \in Provisions : Provision(q)
  BY <1>0, <1>1, <1>i, OtherProvision, OwnProvision
<1>2. CASE \E r \in Revokes : Revoke(r)
  BY <1>2, <1>i, BesideRevoke
<1>3. CASE \E x \in Processes : GiveUp(x)
  <2>1. \A y \in Processes : at'[y] = at[y] \/ at'[y] = "failed"
    BY <1>t, <1>3 DEF GiveUp, Goto
  <2>2. live' = live /\ token' = token
    BY <1>3 DEF GiveUp, cluster
  <2>3. HoldsAlone(p)'
    BY <1>t, <1>i, <2>1 DEF HoldsAlone, Holding, Deleting
  <2>4. HoldsAll(p)'
    BY <1>t, <1>i, <2>1, <2>2 DEF HoldsAll, Holding, Minted
  <2> QED BY <2>3, <2>4
<1>4. CASE \E k \in Kinds : MakeForeign(k)
  <2>1. at' = at /\ token' = token /\ \A k \in Kinds : live[k] = p => live'[k] = p
    BY <1>t, <1>4 DEF MakeForeign
  <2> QED BY <1>i, <2>1 DEF HoldsAlone, HoldsAll, Deleting
<1>5. CASE UNCHANGED vars
  BY <1>5, <1>i DEF vars, cluster, HoldsAlone, HoldsAll, Deleting
<1> QED BY <1>1, <1>2, <1>3, <1>4, <1>5 DEF Next

(* A provision that answers success made all three objects and holds a     *)
(* token for its own ServiceAccount, unless a revoke crossed it            *)
(* (runServiceAccountProvision).                                           *)
THEOREM ProvisionedIsComplete == Spec => []CompleteUnlessRevoked
<1>1. UncrossedHolds => CompleteUnlessRevoked
  BY DEF UncrossedHolds, HoldsAll, CompleteUnlessRevoked, Holding, Minted
<1>2. Spec => []UncrossedHolds
  BY UncrossedInit, UncrossedNext, TypeCorrect, PTL DEF Spec
<1> QED BY <1>1, <1>2, PTL

-----------------------------------------------------------------------------
(* What a step may take.                                                   *)

(* A revoke about to delete a kind read an object of that kind that was a  *)
(* provision's, and keeps to the one ServiceAccount it found.              *)
DeletesWhatItRead ==
  \A r \in Revokes :
    /\ Deleting(r) => Ours(read[r]["serviceaccount"])
    /\ \A k \in Kinds : at[r] = DeleteOf(k) => Ours(read[r][k])

(* A file that is whole is somebody's.                                     *)
WholeIsMade == file.whole => file.by # Absent

Taking == DeletesWhatItRead /\ WholeIsMade

LEMMA DeletesNext ==
  TypeOK /\ DeletesWhatItRead /\ [Next]_vars => DeletesWhatItRead'
<1> SUFFICES ASSUME TypeOK, DeletesWhatItRead, [Next]_vars, NEW r \in Revokes
             PROVE  /\ Deleting(r)' => Ours(read'[r]["serviceaccount"])
                    /\ \A k \in Kinds : at'[r] = DeleteOf(k) => Ours(read'[r][k])
  BY DEF DeletesWhatItRead, Ours
<1>t. /\ live \in [Kinds -> Owners] /\ read \in [Revokes -> [Kinds -> Owners]]
      /\ at \in [Processes -> Steps \cup Answers]
      /\ r \in Processes /\ Provisions \cap Revokes = {}
  BY MakersAssumption DEF TypeOK, Processes
<1>i. /\ Deleting(r) => Ours(read[r]["serviceaccount"])
      /\ \A k \in Kinds : at[r] = DeleteOf(k) => Ours(read[r][k])
  BY DEF DeletesWhatItRead
<1>1. CASE at'[r] = at[r] /\ read'[r] = read[r]
  BY <1>1, <1>i DEF Deleting
<1>2. CASE FindAccount(r)
  <2>1. /\ at'[r] = Judgement(live["serviceaccount"])
        /\ read'[r]["serviceaccount"] = live["serviceaccount"]
    BY <1>t, <1>2 DEF FindAccount, Goto, Kinds
  <2>2. at'[r] \in {"notfound", "notprovisioned", "checkrolebinding"}
    BY <2>1 DEF Judgement
  <2>3. at'[r] = "checkrolebinding" => live["serviceaccount"] \in Provisions
    BY <1>t, <2>1 DEF Judgement, Owners, Makers, Kinds
  <2> QED BY <2>1, <2>2, <2>3 DEF Deleting, Ours, DeleteOf, Kinds
<1>3. CASE \E k \in Kinds : Check(r, k)
  <2> PICK k \in Kinds : Check(r, k)
    BY <1>3
  <2>1. /\ k \in {"role", "rolebinding"} /\ at[r] = CheckOf(k)
        /\ at'[r] = IF Ours(live[k]) THEN DeleteOf(k) ELSE AfterDelete(k)
        /\ read'[r] = [read[r] EXCEPT ![k] = live[k]]
    BY <1>t DEF Check, Goto, Kinds
  <2>2. Ours(read[r]["serviceaccount"])
    BY <1>i, <2>1 DEF Deleting, CheckOf
  <2>3. read'[r]["serviceaccount"] = read[r]["serviceaccount"] /\ read'[r][k] = live[k]
    BY <1>t, <2>1 DEF Kinds
  <2>4. ASSUME NEW j \in Kinds, at'[r] = DeleteOf(j)
        PROVE  Ours(read'[r][j])
    <3>1. CASE Ours(live[k])
      <4>1. j = k
        BY <2>1, <2>4, <3>1 DEF DeleteOf, Kinds
      <4> QED BY <2>3, <3>1, <4>1 DEF Ours
    <3>2. CASE ~Ours(live[k])
      <4>1. j = "serviceaccount"
        BY <2>1, <2>4, <3>2 DEF DeleteOf, AfterDelete, Kinds
      <4> QED BY <2>2, <2>3, <4>1 DEF Ours
    <3> QED BY <3>1, <3>2
  <2> QED BY <2>2, <2>3, <2>4 DEF Ours
<1>4. CASE \E k \in Kinds : Delete(r, k)
  <2> PICK k \in Kinds : Delete(r, k)
    BY <1>4
  <2>1. at[r] = DeleteOf(k) /\ at'[r] = AfterDelete(k) /\ read' = read
    BY <1>t DEF Delete, Goto, history
  <2>2. Ours(read[r]["serviceaccount"])
    BY <1>i, <2>1 DEF Deleting, DeleteOf, Kinds
  <2>3. ASSUME NEW j \in Kinds, at'[r] = DeleteOf(j)
        PROVE  j = "serviceaccount"
    BY <2>1, <2>3 DEF DeleteOf, AfterDelete, Kinds
  <2> QED BY <2>1, <2>2, <2>3 DEF Ours
<1>5. CASE \E x \in Processes : GiveUp(x)
  <2>1. read' = read /\ (at'[r] = at[r] \/ at'[r] = "failed")
    BY <1>t, <1>5 DEF GiveUp, Goto, history
  <2> QED BY <1>i, <2>1 DEF Deleting, DeleteOf, Ours, Kinds
<1>6. CASE \E p \in Provisions : Provision(p)
  <2>1. read' = read /\ at'[r] = at[r]
    BY <1>t, <1>6 DEF Provision, Begin, Create, CreateCollides, Mint, Assemble,
       OpenExclusive, OpenRefused, WriteAndClose, Replace, Goto, history, Processes
  <2> QED BY <1>1, <2>1
<1>7. CASE (\E k \in Kinds : MakeForeign(k)) \/ UNCHANGED vars
  BY <1>1, <1>7 DEF MakeForeign, vars, history
<1>8. CASE \E q \in Revokes : q # r /\ Revoke(q)
  <2>1. read'[r] = read[r] /\ at'[r] = at[r]
    BY <1>t, <1>8 DEF Revoke, FindAccount, Check, Delete, Goto, history, Processes
  <2> QED BY <1>1, <2>1
<1> QED BY <1>2, <1>3, <1>4, <1>5, <1>6, <1>7, <1>8 DEF Next, Revoke

LEMMA WholeNext == TypeOK /\ WholeIsMade /\ [Next]_vars => WholeIsMade'
<1> SUFFICES ASSUME TypeOK, WholeIsMade, [Next]_vars
             PROVE  WholeIsMade'
  OBVIOUS
<1>t. file \in [by : Owners, whole : BOOLEAN] /\ Absent \notin Provisions
  BY MakersAssumption DEF TypeOK
<1>1. CASE file' = file
  BY <1>1 DEF WholeIsMade
<1>2. CASE \E p \in Provisions : OpenExclusive(p) \/ WriteAndClose(p) \/ Replace(p)
  <2> PICK p \in Provisions : OpenExclusive(p) \/ WriteAndClose(p) \/ Replace(p)
    BY <1>2
  <2>1. file' = file \/ file'.by = p
    BY <1>t DEF OpenExclusive, WriteAndClose, Replace
  <2> QED BY <1>1, <1>t, <2>1 DEF WholeIsMade
<1> QED BY <1>1, <1>2 DEF Next, Provision, Begin, Create, CreateCollides, Mint, Assemble,
       OpenRefused, Revoke, FindAccount, Check, Delete, GiveUp, MakeForeign, vars

LEMMA TakingInvariant == Spec => []Taking
<1>1. Init => Taking
  <2> SUFFICES ASSUME Init PROVE Taking
    OBVIOUS
  <2>1. DeletesWhatItRead
    BY DEF Init, DeletesWhatItRead, Deleting, DeleteOf, Processes, Kinds
  <2>2. WholeIsMade
    BY MakersAssumption DEF Init, WholeIsMade
  <2> QED BY <2>1, <2>2 DEF Taking
<1>2. TypeOK /\ Taking /\ [Next]_vars => Taking'
  BY DeletesNext, WholeNext DEF Taking
<1> QED BY <1>1, <1>2, TypeCorrect, PTL DEF Spec

(* An object no provision made goes only by a revoke that had read a       *)
(* provisioned one of that kind, and a whole file only by a forced write   *)
(* of a whole one (ownedByProvision, writeKubeconfig).                     *)
THEOREM WhatIsNotOursStays == Spec => NothingElseIsTaken
<1>1. ASSUME TypeOK, DeletesWhatItRead, [Next]_vars, NEW k \in Kinds,
             live[k] = Foreign, live'[k] # Foreign
      PROVE  \E r \in Revokes : at[r] = DeleteOf(k) /\ Ours(read[r][k])
  <2>t. live \in [Kinds -> Owners] /\ Foreign # Absent
    BY <1>1, MakersAssumption DEF TypeOK
  <2>1. PICK r \in Revokes, j \in Kinds : Delete(r, j)
    BY <1>1, <2>t DEF Next, Provision, Begin, Create, CreateCollides, Mint, Assemble,
       OpenExclusive, OpenRefused, WriteAndClose, Replace, Revoke, FindAccount, Check,
       GiveUp, MakeForeign, vars, cluster
  <2>2. j = k /\ at[r] = DeleteOf(k)
    BY <1>1, <2>t, <2>1 DEF Delete
  <2> QED BY <1>1, <2>2 DEF DeletesWhatItRead
<1>2. ASSUME TypeOK, WholeIsMade, [Next]_vars, file.whole, file' # file
      PROVE  \E p \in Provisions : mode[p] = "force" /\ file' = [by |-> p, whole |-> TRUE]
  <2>t. file \in [by : Owners, whole : BOOLEAN]
    BY <1>2 DEF TypeOK
  <2>1. ASSUME NEW p \in Provisions, WriteAndClose(p)
        PROVE  FALSE
    <3>1. file' = [file EXCEPT !.whole = TRUE]
      BY <1>2, <2>1 DEF WriteAndClose
    <3> QED BY <1>2, <2>t, <3>1
  <2>2. \E p \in Provisions : Replace(p)
    BY <1>2, <2>1 DEF WholeIsMade, Next, Provision, Begin, Create, CreateCollides, Mint,
       Assemble, OpenExclusive, OpenRefused, Revoke, FindAccount, Check, Delete,
       GiveUp, MakeForeign, vars
  <2> QED BY <2>2 DEF Replace
<1>3. TypeOK /\ Taking /\ [Next]_vars
        => [\A k \in Kinds : live[k] = Foreign /\ live'[k] # Foreign =>
              \E r \in Revokes : at[r] = DeleteOf(k) /\ Ours(read[r][k])]_vars
  BY <1>1 DEF Taking
<1>4. TypeOK /\ Taking /\ [Next]_vars
        => [file.whole /\ file' # file =>
              \E p \in Provisions : mode[p] = "force" /\ file' = [by |-> p, whole |-> TRUE]]_vars
  BY <1>2 DEF Taking
<1>5. Spec => ForeignSpared
  BY <1>3, TypeCorrect, TakingInvariant, PTL DEF Spec, ForeignSpared
<1>6. Spec => CredentialKept
  BY <1>4, TypeCorrect, TakingInvariant, PTL DEF Spec, CredentialKept
<1> QED BY <1>5, <1>6 DEF NothingElseIsTaken

=============================================================================
