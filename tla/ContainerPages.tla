-------------------------- MODULE ContainerPages ----------------------------
(***************************************************************************)
(* docker.overview with its detail: the containers of the daemon, what its *)
(* disk holds and its images, asked one after another.  kube.overview: the *)
(* namespaces, the nodes, and of each namespace named (or of all at once)  *)
(* the pods, the deployments, the quotas and the certificates, all asked   *)
(* together.                                                               *)
(*                                                                         *)
(* A daemon is a record: its containers, each its state, the code it       *)
(* exited with where the status gives one, the verdict of its healthcheck  *)
(* and whether that is a field of the listing or only in its status text;  *)
(* and its images, which of them have lost their tag.                      *)
(*                                                                         *)
(* A cluster is a record: the namespaces it has, its nodes, what is in     *)
(* each namespace, the reads a Role does not allow (denied) and whether    *)
(* the credential is one it accepts (login).  A certificate is the days it *)
(* has left, or Unparsed.                                                  *)
(***************************************************************************)
EXTENDS Findings, FiniteSets, FiniteSetsExt

NoCode == -1

DockerAsks == <<"containers", "disk", "images">>

---------------------------------------------------------------------------
(* docker: containers.go *)

\* health: the field where the listing has one, and else the word in the status text.
Health(row) == IF row.field # "" THEN row.field ELSE row.text

\* kindOf: how a container stands, as far as an overview has room to say.
Kind(row) ==
  CASE row.state = "running"    -> IF Health(row) = "unhealthy" THEN "unhealthy" ELSE "fine"
    [] row.state = "restarting" -> "restarting"
    [] row.state = "dead"       -> "dead"
    [] row.state = "exited"     -> IF row.code = NoCode THEN "stopped" ELSE IF row.code = 0 THEN "finished" ELSE "crashed"
    [] OTHER                    -> "stopped"

---------------------------------------------------------------------------
(* docker: overview.go *)

\* clause.rank: what is broken, then what could not be read, then what stopped.
KindGrade(kind) == IF kind \in {"unhealthy", "restarting", "dead"} THEN Fail ELSE Warn

\* readOverview: the problems by kind, in the order the verdict names them.
ProblemsFound(rows) ==
  FlattenSeq([i \in 1..5 |->
    LET kind == <<"unhealthy", "restarting", "dead", "crashed", "stopped">>[i] IN
    FoundIf(\E j \in DOMAIN rows : Kind(rows[j]) = kind, KindGrade(kind), kind)])

\* runOverview: a daemon that did not list its containers is the whole of the page
\* (unanswered); every other read that failed is a row that says so.
DockerFound(got, of) ==
  IF <<"containers", "-">> \notin got THEN Finding(Fail, "containers unread")
  ELSE LET rows == of[<<"containers", "-">>].containers IN
       ProblemsFound(rows)
         \o FoundIf(<<"disk", "-">> \notin got, Warn, "disk unread")
         \o FoundIf(<<"images", "-">> \notin got, Fine, "images unread")
         \o FoundIf(\A j \in DOMAIN rows : Kind(rows[j]) = "fine", Fine, "all well")
         \o (IF <<"images", "-">> \in got THEN FoundIf(of[<<"images", "-">>].dangling > 0, Fine, "dangling") ELSE <<>>)

---------------------------------------------------------------------------
(* docker: what is the case, whatever the page makes of it. *)

DockerTrouble(s, what) ==
  LET some(bad(_)) == \E j \in DOMAIN s.containers : bad(s.containers[j]) IN
  CASE what = "unhealthy"  -> some(LAMBDA c : c.state = "running" /\ "unhealthy" \in {c.field, c.text})
    [] what = "restarting" -> some(LAMBDA c : c.state = "restarting")
    [] what = "dead"       -> some(LAMBDA c : c.state = "dead")
    [] what = "crashed"    -> some(LAMBDA c : c.state = "exited" /\ c.code > 0)
    [] what = "stopped"    -> some(LAMBDA c : c.state \in {"paused", "created"} \/ (c.state = "exited" /\ c.code = NoCode))
    [] what = "all well"   -> ~some(LAMBDA c : c.state # "running" \/ "unhealthy" \in {c.field, c.text})
    [] what = "dangling"   -> s.dangling > 0

DockerFatal == {"unhealthy", "restarting", "dead"}
DockerTroubles == DockerFatal \cup {"crashed", "stopped"}
DockerClaims == {"all well", "dangling"}

---------------------------------------------------------------------------
(* kube *)

CONSTANTS restartStorm,    \* how many restarts a pod that serves may have
          kubeWarnDays     \* warnDays, of a certificate

ASSUME RestartAssumption == restartStorm \in Nat

Unparsed == -1000
NoReplicas == -1           \* spec.replicas left out, which is one
Everywhere == {}           \* the namespaces named, when none is
Kinds == {"pods", "deployments", "quotas", "certs"}

---------------------------------------------------------------------------
(* kube: workloads.go and node.go *)

\* viewOf: of the containers a pod declares and the sidecars among its inits, how many are
\* ready.  The first init that is neither done nor a sidecar started ends the count there,
\* and the containers are not looked at until the pod is initialized.
PodView(pod) ==
  LET passed(c) == c.state = "done" \/ (c.sidecar /\ c.state = "started")
      stuck == {i \in DOMAIN pod.inits : ~passed(pod.inits[i])}
      seen == IF stuck = {} THEN pod.inits ELSE SubSeq(pod.inits, 1, Min(stuck))
      count(seq, test(_)) == Len(SelectSeq(seq, test))
      total(seq) == FoldSeq(LAMBDA c, n : n + c.restarts, 0, seq)
      inits == count(seen, LAMBDA c : c.sidecar /\ c.state = "started" /\ c.ready)
      main == stuck = {} \/ pod.initialized
  IN  [total    |-> Len(pod.containers) + count(pod.inits, LAMBDA c : c.sidecar),
       ready    |-> inits + IF main THEN count(pod.containers, LAMBDA c : c.ready /\ c.state = "running") ELSE 0,
       restarts |-> IF main THEN total(SelectSeq(seen, LAMBDA c : c.sidecar)) + total(pod.containers)
                            ELSE total(seen)]

\* healthOf and stuckDeleting: done is not broken, leaving is not stuck, and a node that was
\* lost takes its pods with it whatever their containers last said.
PodHealthy(pod) ==
  /\ ~pod.lost
  /\ ~(pod.leaving = "late" /\ pod.phase \notin {"Succeeded", "Failed"})
  /\ \/ pod.phase = "Succeeded"
     \/ /\ pod.phase = "Running" /\ PodView(pod).total > 0
        /\ PodView(pod).ready = PodView(pod).total

\* healthOfNode and schedulable.
NodeReady(node) == node.condition = "True"
Schedulable(node) == NodeReady(node) /\ ~node.cordoned

\* podSlots and occupiedSlots.
PodSlots(nodes) == FoldSeq(LAMBDA node, n : n + (IF Schedulable(node) THEN node.slots ELSE 0), 0, nodes)
OccupiedSlots(pods) == Len(SelectSeq(pods, LAMBDA pod : pod.phase \notin {"Succeeded", "Failed"}))

\* desired.
Replicas(d) == IF d.replicas = NoReplicas THEN 1 ELSE d.replicas

---------------------------------------------------------------------------
(* kube: overview.go: the reads *)

\* overviewScopes and fetchOverview: every read is under way at once, behind one gate.
KubeScopes(names) == IF names = Everywhere THEN {"-"} ELSE names
KubeDue(names, done) ==
  ({<<"namespaces", "-">>, <<"nodes", "-">>} \cup Kinds \X KubeScopes(names)) \ done

\* A 403 of one list is an answer, a row of the page that says so.
Listed(got, of, read) == read \in got /\ read[1] \notin of[read].denied

\* rejected: a credential the cluster did not accept on any read is the error.
KubeFails(done, got, of) == \E read \in got : ~of[read].login

\* The namespaces list is the read that says the cluster answers at all; a refusal of it is
\* not, where the call names its namespaces.
Unanswered(names, got, of) ==
  LET namespaces == <<"namespaces", "-">> IN
  \/ namespaces \notin got
  \/ names = Everywhere /\ ~Listed(got, of, namespaces)

\* readEach: what a kind holds in the scopes that answered, and those that did not.
Items(names, got, of, kind) ==
  LET each(namespaces, found(_)) ==
        LET order == SetToSeq(namespaces) IN FlattenSeq([i \in DOMAIN order |-> found(order[i])])
      all(s) == each(DOMAIN s[kind], LAMBDA n : s[kind][n])
      in(n) == IF n = "-" THEN all(of[<<kind, n>>])
               ELSE IF n \in DOMAIN of[<<kind, n>>][kind] THEN of[<<kind, n>>][kind][n] ELSE <<>>
  IN  each({n \in KubeScopes(names) : Listed(got, of, <<kind, n>>)}, in)
Missed(names, got, of, kind) == {n \in KubeScopes(names) : ~Listed(got, of, <<kind, n>>)}

---------------------------------------------------------------------------
(* kube: overviewrows.go *)

\* readNamespaces: asked of several alone, and not where the list was refused.
MissingFound(names, got, of) ==
  FoundIf(/\ Cardinality(names) > 1 /\ Listed(got, of, <<"namespaces", "-">>)
          /\ ~(names \subseteq of[<<"namespaces", "-">>].namespaces), Warn, "namespace missing")

\* readNodes: a cordoned node and a skew are on the row, and no clause of the verdict.
NodesFound(nodes) ==
  FoundIf(\E i \in DOMAIN nodes : ~NodeReady(nodes[i]), Fail, "nodes not ready")
    \o FoundIf(\E i \in DOMAIN nodes : nodes[i].pressure, Warn, "nodes under pressure")

\* readPods: a pod that is not ready is not also one that restarts.
PodsFound(pods) ==
  FoundIf(\E i \in DOMAIN pods : ~PodHealthy(pods[i]), Fail, "pods not ready")
    \o FoundIf(\E i \in DOMAIN pods : /\ PodHealthy(pods[i]) /\ pods[i].phase = "Running"
                                      /\ PodView(pods[i]).restarts > restartStorm, Warn, "pods restarting")

\* readDeployments: one with nothing ready is down, and any other is short.
DeploymentsFound(deps) ==
  LET short == {i \in DOMAIN deps : deps[i].ready < Replicas(deps[i])} IN
  FoundIf(\E i \in short : deps[i].ready = 0, Fail, "deployments down")
    \o FoundIf(\E i \in short : deps[i].ready > 0, Warn, "deployments short")

\* readCerts, of tlsCert.status and certPressure.
CertsFound(certs) ==
  LET some(test(_)) == \E i \in DOMAIN certs : certs[i] # Unparsed /\ test(certs[i]) IN
  FoundIf(some(LAMBDA left : left < 0), Fail, "certs expired")
    \o FoundIf(\E i \in DOMAIN certs : certs[i] = Unparsed, Fail, "certs invalid")
    \o FoundIf(some(LAMBDA left : 0 <= left /\ left < kubeWarnDays), Warn, "certs soon")

\* readQuotas, of quotaHits: a resource at eight tenths of its limit, a limit of zero left out.
QuotasFound(quotas) ==
  FoundIf(\E i \in DOMAIN quotas : quotas[i].hard > 0 /\ 10 * quotas[i].used >= 8 * quotas[i].hard, Warn, "quotas")

\* readSlots: the pods of some namespaces are not set against the slots of every node, and
\* without nodes or pods there is a row that says so and no clause.
SlotsFound(names, got, of) ==
  LET counted == /\ names = Everywhere /\ Listed(got, of, <<"nodes", "-">>)
                 /\ Missed(names, got, of, "pods") = {}
      slots == PodSlots(of[<<"nodes", "-">>].nodes)
  IN  IF ~counted THEN <<>>
      ELSE FoundIf(slots # 0 /\ 10 * OccupiedSlots(Items(names, got, of, "pods")) >= 9 * slots, Warn, "pod slots")

\* blind: none of what the page is made of could be read.
BlindFound(names, got, of) ==
  FoundIf(/\ ~Listed(got, of, <<"nodes", "-">>)
          /\ \A kind \in Kinds : Missed(names, got, of, kind) = KubeScopes(names), Fail, "blind")

\* overviewPage: the rows, and each kind's clause for what it could not be read in.
KubeFound(names, got, of) ==
  LET row(kind, found(_)) ==
        found(Items(names, got, of, kind)) \o FoundIf(Missed(names, got, of, kind) # {}, Warn, kind \o " unread")
  IN  IF Unanswered(names, got, of) THEN Finding(Fail, "cluster unread")
      ELSE BlindFound(names, got, of)
             \o (IF Listed(got, of, <<"nodes", "-">>) THEN NodesFound(of[<<"nodes", "-">>].nodes)
                                                      ELSE Finding(Warn, "nodes unread"))
             \o row("pods", PodsFound) \o row("deployments", DeploymentsFound)
             \o row("certs", CertsFound) \o row("quotas", QuotasFound)
             \o SlotsFound(names, got, of) \o MissingFound(names, got, of)

---------------------------------------------------------------------------
(* kube: what is the case, whatever the page makes of it. *)

\* A pod serves when everything it declares that keeps running is up and ready.
Serves(pod) ==
  /\ pod.phase = "Running" /\ ~pod.lost
  /\ \A i \in DOMAIN pod.containers : pod.containers[i].ready /\ pod.containers[i].state = "running"
  /\ \A i \in DOMAIN pod.inits : IF pod.inits[i].sidecar THEN pod.inits[i].ready /\ pod.inits[i].state = "started"
                                                         ELSE pod.inits[i].state = "done"

\* The restarts of what runs now, and not of an init that is done.
RestartsNow(pod) ==
  MapThenSumSet(LAMBDA i : pod.containers[i].restarts, DOMAIN pod.containers)
    + MapThenSumSet(LAMBDA i : pod.inits[i].restarts, {i \in DOMAIN pod.inits : pod.inits[i].sidecar})

KubeTrouble(names, s, what) ==
  LET visible(kind) == IF kind \in s.denied THEN {} ELSE DOMAIN s[kind] \cap (IF names = Everywhere THEN DOMAIN s[kind] ELSE names)
      some(kind, bad(_)) == \E n \in visible(kind) : \E i \in DOMAIN s[kind][n] : bad(s[kind][n][i])
      nodes == IF "nodes" \in s.denied THEN <<>> ELSE s.nodes
      node(bad(_)) == \E i \in DOMAIN nodes : bad(nodes[i])
      stays(pod) == pod.phase \notin {"Succeeded", "Failed"}
      free == {i \in DOMAIN nodes : nodes[i].condition = "True" /\ ~nodes[i].cordoned}
      room == MapThenSumSet(LAMBDA i : nodes[i].slots, free)
      taken == MapThenSumSet(LAMBDA n : Len(SelectSeq(s.pods[n], stays)), DOMAIN s.pods)
  IN  CASE what = "nodes not ready"      -> node(LAMBDA n : n.condition # "True")
        [] what = "nodes under pressure" -> node(LAMBDA n : n.pressure)
        [] what = "pods not ready"       -> some("pods", LAMBDA p : \/ p.phase # "Succeeded" /\ ~Serves(p)
                                                                    \/ p.phase = "Running" /\ p.leaving = "late")
        [] what = "pods restarting"      -> some("pods", LAMBDA p : Serves(p) /\ p.leaving # "late" /\ RestartsNow(p) > restartStorm)
        [] what = "deployments down"     -> some("deployments", LAMBDA d : d.ready = 0 /\ d.replicas # 0)
        [] what = "deployments short"    -> some("deployments", LAMBDA d : 0 < d.ready /\ d.ready < d.replicas)
        [] what = "certs expired"        -> some("certs", LAMBDA c : c < 0 /\ c # Unparsed)
        [] what = "certs invalid"        -> some("certs", LAMBDA c : c = Unparsed)
        [] what = "certs soon"           -> some("certs", LAMBDA c : c >= 0 /\ c < kubeWarnDays)
        [] what = "quotas"               -> some("quotas", LAMBDA q : q.hard > 0 /\ 10 * q.used >= 8 * q.hard)
        [] what = "pod slots"            -> /\ names = Everywhere /\ {"nodes", "pods"} \cap s.denied = {}
                                            /\ room > 0 /\ 10 * taken >= 9 * room
        [] what = "namespace missing"    -> /\ Cardinality(names) > 1 /\ "namespaces" \notin s.denied
                                            /\ names \ s.namespaces # {}

KubeFatal == {"nodes not ready", "pods not ready", "deployments down", "certs expired", "certs invalid"}
\* The slots are of the nodes and of the pods, two reads.
KubeRelational == {"pod slots"}
KubeTroubles == KubeFatal \cup KubeRelational
  \cup {"nodes under pressure", "pods restarting", "deployments short", "certs soon", "quotas", "namespace missing"}

=============================================================================
