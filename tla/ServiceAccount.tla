--------------------------- MODULE ServiceAccount ---------------------------
(***************************************************************************)
(* kube.serviceaccount.provision and .revoke (plugins/kube/                *)
(* serviceaccount.go), for one name in one namespace.  A provision makes a *)
(* ServiceAccount, a Role and a RoleBinding of that name with three        *)
(* `kubectl create`, mints a token and writes a kubeconfig; a revoke       *)
(* deletes what of the three a provision made.  Neither is a transaction:  *)
(* other provisions, revokes and people act between any two calls, and any *)
(* call may fail or the process die.                                       *)
(*                                                                         *)
(* An object is identified by who made it: a provision makes at most one   *)
(* of each kind, and Foreign is everyone who is not a provision.           *)
(***************************************************************************)
EXTENDS Naturals

CONSTANTS
  Provisions,   (* Runs of kube.serviceaccount.provision.                  *)
  Revokes,      (* Runs of kube.serviceaccount.revoke.                     *)
  Foreign,      (* Whoever else makes objects or files of these names.     *)
  Claimable,    (* Kinds Foreign may make an object of, once each: a bound.*)
  Absent        (* No object, no file, nothing read yet.                   *)

ASSUME MakersAssumption ==
  /\ Foreign \notin Provisions /\ Absent \notin Provisions
  /\ Foreign # Absent
  /\ Provisions \cap Revokes = {}
  /\ Claimable \subseteq {"serviceaccount", "role", "rolebinding"}

VARIABLES
  live,      (* Who made the object of each kind the cluster holds.        *)
  foreigns,  (* Kinds Foreign has made an object of.                       *)
  file,      (* What is at the path `out` names.                           *)
  mode,      (* Where each provision was told to put the kubeconfig.       *)
  at,        (* The next step of each run.                                 *)
  token,     (* Whose ServiceAccount each provision's token is for.        *)
  seen,      (* The cluster as it was when each revoke began.              *)
  read,      (* The object each revoke found, kind by kind.                *)
  crossed    (* Provisions some revoke was deleting beside, or after.      *)

cluster == <<live, foreigns>>
history == <<seen, read, crossed>>
vars == <<cluster, file, mode, at, token, history>>

Kinds == {"serviceaccount", "role", "rolebinding"}
Makers == Provisions \cup {Foreign}
Owners == Makers \cup {Absent}
Processes == Provisions \cup Revokes

(* A run that has answered, or whose process is gone.                      *)
Answers == {"done", "failed", "refused", "notfound",
            "notprovisioned", "reported"}
Steps == {"start", "serviceaccount", "role", "rolebinding", "token",
          "assemble", "open", "writing", "checkrolebinding",
          "delrolebinding", "checkrole", "delrole", "delserviceaccount"}

TypeOK ==
  /\ live \in [Kinds -> Owners]
  /\ foreigns \subseteq Kinds
  /\ file \in [by : Owners, whole : BOOLEAN]
  /\ mode \in [Provisions -> {"print", "out", "force"}]
  /\ at \in [Processes -> Steps \cup Answers]
  /\ token \in [Provisions -> Owners]
  /\ seen \in [Revokes -> [Kinds -> Owners]]
  /\ read \in [Revokes -> [Kinds -> Owners]]
  /\ crossed \subseteq Provisions

Init ==
  /\ live = [k \in Kinds |-> Absent]
  /\ foreigns = {}
  /\ file \in {[by |-> Absent, whole |-> FALSE], [by |-> Foreign, whole |-> TRUE]}
  /\ mode \in [Provisions -> {"print", "out", "force"}]
  /\ at = [x \in Processes |-> "start"]
  /\ token = [p \in Provisions |-> Absent]
  /\ seen = [r \in Revokes |-> [k \in Kinds |-> Absent]]
  /\ read = [r \in Revokes |-> [k \in Kinds |-> Absent]]
  /\ crossed = {}

Goto(x, step) == at' = [at EXCEPT ![x] = step]

(* Someone else makes an object of this name.                              *)
MakeForeign(k) ==
  /\ live[k] = Absent
  /\ k \in Claimable \ foreigns
  /\ live' = [live EXCEPT ![k] = Foreign]
  /\ foreigns' = foreigns \cup {k}
  /\ UNCHANGED <<file, mode, at, token, history>>

(* A call fails, before or after it took effect, or the process dies: the  *)
(* run ends with what it had done left as it is.                           *)
GiveUp(x) ==
  /\ at[x] \notin Answers
  /\ Goto(x, "failed")
  /\ UNCHANGED <<cluster, file, mode, token, history>>

-----------------------------------------------------------------------------
(* Provision.                                                              *)

(* `out` is looked at before the first cluster write, and again at the     *)
(* write: "the difference between refusing and refusing cheaply".          *)
Begin(p) ==
  /\ at[p] = "start"
  /\ Goto(p, IF mode[p] = "out" /\ file.by # Absent
             THEN "refused" ELSE "serviceaccount")
  /\ UNCHANGED <<cluster, file, mode, token, history>>

AfterCreate(k) == CASE k = "serviceaccount" -> "role"
                    [] k = "role" -> "rolebinding"
                    [] k = "rolebinding" -> "token"

(* A revoke that found a provision's ServiceAccount, and has not ended.    *)
Deleting(r) == at[r] \in {"checkrolebinding", "delrolebinding", "checkrole",
                          "delrole", "delserviceaccount"}

(* Mutant: `kubectl apply`, which takes over an object already there.      *)
CreateOrReuse(p, k) ==
  /\ at[p] = k
  /\ live' = IF live[k] = Absent THEN [live EXCEPT ![k] = p] ELSE live
  /\ Goto(p, AfterCreate(k))
  /\ crossed' = IF \E r \in Revokes : Deleting(r) THEN crossed \cup {p} ELSE crossed
  /\ UNCHANGED <<foreigns, file, mode, token, seen, read>>

(* createManifest: "create, not apply".                                    *)
Create(p, k) ==
  /\ at[p] = k
  /\ live[k] = Absent
  /\ live' = [live EXCEPT ![k] = p]
  /\ Goto(p, AfterCreate(k))
  /\ crossed' = IF \E r \in Revokes : Deleting(r) THEN crossed \cup {p} ELSE crossed
  /\ UNCHANGED <<foreigns, file, mode, token, seen, read>>

CreateCollides(p, k) ==
  /\ at[p] = k
  /\ live[k] # Absent
  /\ Goto(p, "refused")
  /\ UNCHANGED <<cluster, file, mode, token, history>>

(* `create token <name>`: minted for whichever ServiceAccount has the name.*)
Mint(p) ==
  /\ at[p] = "token"
  /\ live["serviceaccount"] # Absent
  /\ token' = [token EXCEPT ![p] = live["serviceaccount"]]
  /\ Goto(p, "assemble")
  /\ UNCHANGED <<cluster, file, mode, history>>

(* The kubeconfig is assembled, and printed or taken to its file.          *)
Assemble(p) ==
  /\ at[p] = "assemble"
  /\ Goto(p, IF mode[p] = "print" THEN "done" ELSE "open")
  /\ UNCHANGED <<cluster, file, mode, token, history>>

(* Mutant: os.Create, which truncates what is there.                       *)
OpenTruncating(p) ==
  /\ at[p] = "open" /\ mode[p] = "out"
  /\ file' = [by |-> p, whole |-> FALSE]
  /\ Goto(p, "writing")
  /\ UNCHANGED <<cluster, mode, token, history>>

(* writeKubeconfig without force: O_EXCL, then the write.                  *)
OpenExclusive(p) ==
  /\ at[p] = "open" /\ mode[p] = "out"
  /\ file.by = Absent
  /\ file' = [by |-> p, whole |-> FALSE]
  /\ Goto(p, "writing")
  /\ UNCHANGED <<cluster, mode, token, history>>

OpenRefused(p) ==
  /\ at[p] = "open" /\ mode[p] = "out"
  /\ file.by # Absent
  /\ Goto(p, "refused")
  /\ UNCHANGED <<cluster, file, mode, token, history>>

(* Write and Close both succeed.  A forced write may have renamed its own  *)
(* file over this one since, and then this one is no longer at the path.   *)
WriteAndClose(p) ==
  /\ at[p] = "writing"
  /\ file' = IF file.by = p THEN [file EXCEPT !.whole = TRUE] ELSE file
  /\ Goto(p, "done")
  /\ UNCHANGED <<cluster, mode, token, history>>

(* writeAtomically: a temporary file renamed over whatever is there.       *)
Replace(p) ==
  /\ at[p] = "open" /\ mode[p] = "force"
  /\ file' = [by |-> p, whole |-> TRUE]
  /\ Goto(p, "done")
  /\ UNCHANGED <<cluster, mode, token, history>>

-----------------------------------------------------------------------------
(* Revoke.                                                                 *)

Ours(maker) == maker \in Provisions

Judgement(maker) == CASE maker = Absent  -> "notfound"
                      [] maker = Foreign -> "notprovisioned"
                      [] OTHER           -> "checkrolebinding"

(* The ServiceAccount is read first, and is the only one whose absence, or *)
(* whose missing label, refuses.                                           *)
FindAccount(r) ==
  /\ at[r] = "start"
  /\ seen' = [seen EXCEPT ![r] = live]
  /\ read' = [read EXCEPT ![r]["serviceaccount"] = live["serviceaccount"]]
  /\ Goto(r, Judgement(live["serviceaccount"]))
  /\ crossed' = IF Ours(live["serviceaccount"])
                THEN {p \in Provisions : at[p] \notin {"start", "serviceaccount"}} \cup crossed
                ELSE crossed
  /\ UNCHANGED <<cluster, file, mode, token>>

CheckOf(k) == IF k = "role" THEN "checkrole" ELSE "checkrolebinding"
DeleteOf(k) == CASE k = "rolebinding" -> "delrolebinding"
                 [] k = "role" -> "delrole"
                 [] k = "serviceaccount" -> "delserviceaccount"

AfterDelete(k) == CASE k = "rolebinding" -> "checkrole"
                    [] k = "role" -> "delserviceaccount"
                    [] k = "serviceaccount" -> "reported"

(* ownedByProvision: one that is missing, or not a provision's, is skipped.*)
Check(r, k) ==
  /\ k # "serviceaccount"
  /\ at[r] = CheckOf(k)
  /\ read' = [read EXCEPT ![r][k] = live[k]]
  /\ Goto(r, IF Ours(live[k]) THEN DeleteOf(k) ELSE AfterDelete(k))
  /\ UNCHANGED <<cluster, file, mode, token, seen, crossed>>

(* Mutant: any failure of the delete is taken for "already gone".          *)
DeleteOrIgnore(r, k) ==
  /\ at[r] = DeleteOf(k)
  /\ live' \in {live, [live EXCEPT ![k] = Absent]}
  /\ Goto(r, AfterDelete(k))
  /\ UNCHANGED <<foreigns, file, mode, token, history>>

(* `delete <kind> <name>` goes by name; one already gone is no failure.    *)
Delete(r, k) ==
  /\ at[r] = DeleteOf(k)
  /\ live' = [live EXCEPT ![k] = Absent]
  /\ Goto(r, AfterDelete(k))
  /\ UNCHANGED <<foreigns, file, mode, token, history>>

Provision(p) ==
  \/ Begin(p)
  \/ \E k \in Kinds : Create(p, k) \/ CreateCollides(p, k)
  \/ Mint(p) \/ Assemble(p)
  \/ OpenExclusive(p) \/ OpenRefused(p) \/ WriteAndClose(p) \/ Replace(p)

Revoke(r) == FindAccount(r) \/ \E k \in Kinds : Check(r, k) \/ Delete(r, k)

Next ==
  \/ \E p \in Provisions : Provision(p)
  \/ \E r \in Revokes : Revoke(r)
  \/ \E x \in Processes : GiveUp(x)
  \/ \E k \in Kinds : MakeForeign(k)

Spec == Init /\ [][Next]_vars

-----------------------------------------------------------------------------
(* A provision that answers success made the three objects itself and      *)
(* holds a token for its own ServiceAccount: nothing was shared or reused, *)
(* unless a revoke was deleting under that name meanwhile, or has since.   *)
CompleteUnlessRevoked ==
  \A p \in Provisions : at[p] = "done" /\ p \notin crossed =>
    token[p] = p /\ \A k \in Kinds : live[k] = p

(* A revoke that reports has left nothing of any provision that was there  *)
(* when it began, whatever ran beside it: no token minted for the          *)
(* ServiceAccount it found works any more.                                 *)
RevokedIsGone ==
  \A r \in Revokes : at[r] = "reported" =>
    \A k \in Kinds : Ours(seen[r][k]) => live[k] # seen[r][k]

(* An object no provision made is deleted only by a revoke that found a    *)
(* provisioned one under that name, which was replaced before the delete.  *)
ForeignSpared ==
  [][\A k \in Kinds : live[k] = Foreign /\ live'[k] # Foreign =>
       \E r \in Revokes : at[r] = DeleteOf(k) /\ Ours(read[r][k])]_vars

(* A whole file at `out` is replaced only by a provision that was told to  *)
(* force, and then by a whole one: a credential is never lost half-way.    *)
CredentialKept ==
  [][file.whole /\ file' # file =>
       \E p \in Provisions : mode[p] = "force" /\ file' = [by |-> p, whole |-> TRUE]]_vars

(* What is not this call's to take stays: another's object, and a file.    *)
NothingElseIsTaken == ForeignSpared /\ CredentialKept
=============================================================================
