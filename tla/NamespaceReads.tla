--------------------------- MODULE NamespaceReads ---------------------------
(***************************************************************************)
(* One answer of plugins/kube or plugins/cnpg that reads several           *)
(* namespaces, each with a kubectl call of its own, and makes one page of  *)
(* what they came to:                                                      *)
(*   "overview"  kube.overview: the namespaces, the nodes, and every kind  *)
(*               in every namespace named (fetchOverview, runOverview);    *)
(*   "listing"   a kube list of objects (readListing);                     *)
(*   "cnpg"      a cnpg listing (readEach and settle in cnpg).             *)
(* Every call is a goroutine.  At most Width of them run kubectl at a time *)
(* (gate in kube/kubectl.go, slots in cnpg's readEach), and a failure that *)
(* is the whole cluster's answers the calls still waiting.                 *)
(***************************************************************************)
EXTENDS Naturals, FiniteSets

CONSTANTS
  Scopes,    (* Namespaces a call may name.                                *)
  Whole,     (* What is no namespace: the cluster, or every namespace.     *)
  Kinds,     (* Kinds kube.overview reads in each namespace.               *)
  Width,     (* readsAtOnce.                                               *)
  MaxCalls   (* A bound: the most calls of an answer explored.             *)

ASSUME ScopesAssumption == IsFiniteSet(Scopes) /\ Whole \notin Scopes
ASSUME KindsAssumption == IsFiniteSet(Kinds) /\ Kinds \cap {"namespaces", "nodes", "list"} = {}
ASSUME WidthAssumption == Width \in Nat \ {0} /\ MaxCalls \in Nat

VARIABLES
  shape,     (* Which answer is being made.                                *)
  named,     (* The namespaces its call names.                             *)
  calls,     (* The kubectl calls it is made of.                           *)
  place,     (* How far the goroutine of each call is.                     *)
  result,    (* What each call came to.                                    *)
  slots,     (* The calls that hold a place in the gate.                   *)
  down,      (* The cluster-wide failure the gate was told of.             *)
  asked,     (* The calls that ran kubectl.                                *)
  cancelled, (* The caller's context is done.                              *)
  page       (* What the call answered.                                    *)

vars == <<shape, named, calls, place, result, slots, down, asked, cancelled, page>>
request == <<shape, named, calls>>

Shapes == {"overview", "listing", "cnpg"}
Calls == (Kinds \cup {"namespaces", "nodes", "list"}) \X (Scopes \cup {Whole})

None == "none"
Ok == "ok"
Denied == "denied"          \* 403: one read's answer
Refused == "auth.failed"    \* 401: the credential's
Unreachable == "unreachable"
Interrupted == "cancelled"  \* kube.cancelled; cnpg.kubectl.failed
Failures == {Denied, Refused, Unreachable, Interrupted}
NoConfig == "noconfig"      \* the kubeconfig lists no context

(* clusterWide: of its many codes, the two that differ in what comes next. *)
ClusterWide(code) == code \in {Refused, Unreachable}

Places == {"waiting", "entered", "asking", "returned", "noted", "ended"}
Pages == [kind : {"rows", "error", "unanswered"}, code : Failures \cup {None, NoConfig}]
Pending == [kind |-> "pending", code |-> None]

TypeOK ==
  /\ shape \in Shapes
  /\ named \subseteq Scopes
  /\ calls \subseteq Calls
  /\ place \in [Calls -> Places]
  /\ result \in [Calls -> Failures \cup {None, Ok}]
  /\ slots \subseteq Calls
  /\ down \in Failures \cup {None}
  /\ asked \subseteq calls
  /\ cancelled \in BOOLEAN
  /\ page \in Pages \cup {Pending}

(* overviewScopes, scopes: one read for each namespace named, and one of   *)
(* the whole when none is.                                                 *)
ScopesOf(names) == IF names = {} THEN {Whole} ELSE names

CallsOf(s, names) ==
  IF s = "overview"
  THEN {<<"namespaces", Whole>>, <<"nodes", Whole>>} \cup (Kinds \X ScopesOf(names))
  ELSE {"list"} \X ScopesOf(names)

(* An overview always makes a gate; a listing of one scope has none.       *)
Gated == shape = "overview" \/ Cardinality(calls) > 1

Init ==
  /\ shape \in Shapes
  /\ named \in SUBSET Scopes
  /\ calls = CallsOf(shape, named)
  /\ Cardinality(calls) <= MaxCalls
  /\ place = [c \in Calls |-> "waiting"]
  /\ result = [c \in Calls |-> None]
  /\ slots = {}
  /\ down = None
  /\ asked = {}
  /\ cancelled = FALSE
  /\ page = Pending

-----------------------------------------------------------------------------
(* The gate.                                                               *)

Goto(c, p) == place' = [place EXCEPT ![c] = p]
Came(c, code) == result' = [result EXCEPT ![c] = code]

(* A place in the gate is free, and c takes it.                            *)
Enter(c) ==
  /\ place[c] = "waiting" /\ Gated
  /\ Cardinality(slots) < Width
  /\ slots' = slots \cup {c}
  /\ Goto(c, "entered")
  /\ UNCHANGED <<request, result, down, asked, cancelled, page>>

(* kube's enter also gives up on a done context; cnpg's readEach waits on. *)
EnterCancelled(c) ==
  /\ place[c] = "waiting" /\ Gated /\ shape # "cnpg"
  /\ cancelled
  /\ Came(c, Interrupted)
  /\ Goto(c, "ended")
  /\ UNCHANGED <<request, slots, down, asked, cancelled, page>>

(* Mutant: the failure is looked for before the wait and not after it.     *)
AskAnyway(c) ==
  /\ place[c] = "entered"
  /\ asked' = asked \cup {c}
  /\ Goto(c, "asking")
  /\ UNCHANGED <<request, result, slots, down, cancelled, page>>

Ask(c) ==
  /\ place[c] = "entered"
  /\ down = None
  /\ asked' = asked \cup {c}
  /\ Goto(c, "asking")
  /\ UNCHANGED <<request, result, slots, down, cancelled, page>>

(* Mutant: the place is not given back by a call that was not made.        *)
ToldKeepingPlace(c) ==
  /\ place[c] = "entered"
  /\ down # None
  /\ Came(c, down)
  /\ Goto(c, "ended")
  /\ UNCHANGED <<request, slots, down, asked, cancelled, page>>

(* The cluster is down: the call is given that answer and never made.      *)
Told(c) ==
  /\ place[c] = "entered"
  /\ down # None
  /\ Came(c, down)
  /\ slots' = slots \ {c}
  /\ Goto(c, "ended")
  /\ UNCHANGED <<request, down, asked, cancelled, page>>

AskUngated(c) ==
  /\ place[c] = "waiting" /\ ~Gated
  /\ asked' = asked \cup {c}
  /\ Goto(c, "asking")
  /\ UNCHANGED <<request, result, slots, down, cancelled, page>>

(* kubectl ends: an answer, a refusal, a timeout, or killed by the context.*)
Returns(c, code) ==
  /\ place[c] = "asking"
  /\ code = Interrupted => cancelled
  /\ Came(c, code)
  /\ Goto(c, "returned")
  /\ UNCHANGED <<request, slots, down, asked, cancelled, page>>

(* Mutant: any failure halts the rest, a refusal of one namespace too.     *)
NoteAny(c) ==
  /\ place[c] = "returned"
  /\ down' = IF Gated /\ result[c] # Ok /\ down = None THEN result[c] ELSE down
  /\ Goto(c, "noted")
  /\ UNCHANGED <<request, result, slots, asked, cancelled, page>>

(* note: the first cluster-wide failure, before the place is given up.     *)
Note(c) ==
  /\ place[c] = "returned"
  /\ down' = IF Gated /\ ClusterWide(result[c]) /\ down = None THEN result[c] ELSE down
  /\ Goto(c, "noted")
  /\ UNCHANGED <<request, result, slots, asked, cancelled, page>>

Leave(c) ==
  /\ place[c] = "noted"
  /\ slots' = slots \ {c}
  /\ Goto(c, "ended")
  /\ UNCHANGED <<request, result, down, asked, cancelled, page>>

Cancel ==
  /\ ~cancelled /\ page = Pending
  /\ cancelled' = TRUE
  /\ UNCHANGED <<request, place, result, slots, down, asked, page>>

-----------------------------------------------------------------------------
(* The page, once every goroutine is back.  Where the code takes the first *)
(* error in the order of the scopes, which one is first is left open.      *)

(* An overview whose kubeconfig lists no context asks no cluster.          *)
NoContext ==
  /\ page = Pending /\ shape = "overview"
  /\ \A c \in calls : place[c] = "waiting"
  /\ calls' = {}
  /\ page' = [kind |-> "unanswered", code |-> NoConfig]
  /\ UNCHANGED <<shape, named, place, result, slots, down, asked, cancelled>>

Unread == {c \in calls : result[c] # Ok}
Codes == {result[c] : c \in Unread}
NoRead == Unread = calls

Error(code) == [kind |-> "error", code |-> code]
Rows == [kind |-> "rows", code |-> None]
Unanswered(code) == [kind |-> "unanswered", code |-> code]

(* runOverview: rejected first; then the namespaces list, which says       *)
(* whether the cluster answers at all, unless it was denied to a call that *)
(* names its namespaces.                                                   *)
OverviewPage ==
  LET nsErr == result[<<"namespaces", Whole>>]
  IN IF Refused \in Codes THEN {Error(Refused)}
     ELSE IF nsErr # Ok /\ (named = {} \/ nsErr # Denied) THEN {Unanswered(nsErr)}
     ELSE {Rows}

(* Mutant: the refusal of one namespace is a row, as it was.               *)
ListingPageOfRows ==
  IF NoRead THEN {Error(code) : code \in Codes} ELSE {Rows}

(* readListing, and withUnread for the namespaces that did not answer.     *)
ListingPage ==
  IF Refused \in Codes THEN {Error(Refused)}
  ELSE IF NoRead THEN {Error(code) : code \in Codes}
  ELSE {Rows}

(* settle.                                                                 *)
CnpgPage ==
  LET wide == {code \in Codes : ClusterWide(code)}
  IN IF Unread = {} THEN {Rows}
     ELSE IF Cardinality(calls) = 1 THEN {Error(code) : code \in Codes}
     ELSE IF Refused \in Codes THEN {Error(Refused)}
     ELSE IF NoRead /\ wide # {} THEN {Error(code) : code \in wide}
     ELSE {Rows}

Settle ==
  /\ page = Pending
  /\ \A c \in calls : place[c] = "ended"
  /\ page' \in CASE shape = "overview" -> OverviewPage
                 [] shape = "listing"  -> ListingPage
                 [] shape = "cnpg"     -> CnpgPage
  /\ UNCHANGED <<request, place, result, slots, down, asked, cancelled>>

Read(c) ==
  \/ Enter(c) \/ EnterCancelled(c) \/ Ask(c) \/ Told(c) \/ AskUngated(c)
  \/ \E code \in Failures \cup {Ok} : Returns(c, code)
  \/ Note(c) \/ Leave(c)

Next == (\E c \in calls : Read(c)) \/ Cancel \/ NoContext \/ Settle

Spec == Init /\ [][Next]_vars

(* Goroutines are scheduled, and a kubectl call ends: its context has a    *)
(* deadline of fifteen (kube) or twenty (cnpg) seconds.                    *)
FairSpec ==
  /\ Spec
  /\ \A c \in Calls : WF_vars(c \in calls /\ Read(c))
  /\ WF_vars(Settle)

-----------------------------------------------------------------------------
(* "A dead cluster is asked six times and not thirty": the calls that ran  *)
(* kubectl only to meet a failure of the whole cluster are never more than *)
(* the gate is wide, however many the answer has.                          *)
DeadClusterAskedOnce ==
  Gated => Cardinality({c \in asked : ClusterWide(result[c])}) <= Width

(* A call that was not made is answered with a failure another call really *)
(* met, and one that is the whole cluster's; a refusal of one namespace    *)
(* never speaks for another.                                               *)
ToldTheTruth ==
  \A c \in calls \ asked : result[c] \notin {None, Interrupted} =>
    ClusterWide(result[c]) /\ \E d \in asked : result[d] = result[c]

(* A credential the API server did not accept, on any of the reads, is the *)
(* answer's error, whichever namespaces answered; and nothing else is.     *)
RefusalIsTheAnswer ==
  page # Pending => (page = Error(Refused) <=> \E c \in asked : result[c] = Refused)

(* The page never becomes an error because a sibling failed: what was read *)
(* of a listing is shown unless the credential was refused.                *)
SiblingsSpared ==
  shape # "overview" /\ page # Pending /\ Refused \notin Codes /\ ~NoRead => page = Rows

(* Every answer is given: the gate leaves no call waiting for ever.        *)
Answered == <>(page # Pending)

(* A page is neither worse nor better than its reads: a refusal of the     *)
(* credential is all of it, and what was read is on it (readListing,       *)
(* settle).                                                                *)
PageIsItsReads == RefusalIsTheAnswer /\ SiblingsSpared
=============================================================================
