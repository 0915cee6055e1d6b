----------------------------- MODULE QdrantPage -----------------------------
(***************************************************************************)
(* qdrant.overview with its detail: the peer asked and what it knows of    *)
(* the others, then the collections, each with its replicas.               *)
(*                                                                         *)
(* An instance is a record: whether it runs as a cluster, what the         *)
(* credential may read, the consensus thread, the leader it follows, the   *)
(* peers that answer and how their failed messages are dated, and the      *)
(* collections by name, each with its status, the copies of its shards and *)
(* its transfers.                                                          *)
(***************************************************************************)
EXTENDS Findings, FiniteSets, FiniteSetsExt

CONSTANTS
  Peer,                \* the peer the call reaches
  overviewCollections  \* the most collections an overview reads

ASSUME CollectionsAssumption == overviewCollections \in Nat \ {0}

---------------------------------------------------------------------------
(* The reads, in the order they are made: the root, the cluster and what   *)
(* its peers report, the list, and of each collection its replicas, then   *)
(* itself.                                                                 *)

\* fetchCluster: enabled, off, refused to a credential scoped to collections, or not served.
Mode(s) == CASE s.credential = "collections" -> "denied"
             [] s.credential # "collections" /\ ~s.served -> "unknown"
             [] OTHER -> IF s.enabled THEN "distributed" ELSE "standalone"

\* collectionTableIn: the first by name, as many as an overview reads.
Named(s) == SubSeq(s.names, 1, Min({Len(s.names), overviewCollections}))

\* fetchCluster and readCollection: what is asked next.  Telemetry is of a cluster alone,
\* and so is a collection's own, but where the mode could not be told.
QdrantDue(done, got, of) ==
  LET mode == Mode(of[<<"cluster", "-">>])
      first(reads) == IF {i \in DOMAIN reads : reads[i] \notin done} = {} THEN {}
                      ELSE {reads[Min({i \in DOMAIN reads : reads[i] \notin done})]}
      cluster == <<<<"root", "-">>, <<"cluster", "-">>>>
      telemetry == IF mode = "distributed" THEN <<<<"telemetry", "-">>>> ELSE <<>>
      list == <<<<"list", "-">>>>
      each(c) == (IF mode = "standalone" THEN <<>> ELSE <<<<"replicas", c>>>>) \o <<<<"collection", c>>>>
      names == IF list[1] \in got /\ of[list[1]].listable THEN Named(of[list[1]]) ELSE <<>>
  IN  IF ~(ToSet(cluster) \subseteq done) THEN first(cluster)
      ELSE first(telemetry \o list \o FlattenSeq([i \in DOMAIN names |-> each(names[i])]))

\* runOverview: without its root or its cluster there is no page; a list that failed for
\* any reason but the credential's is no page either.
QdrantFails(done, got) ==
  \E read \in done \ got : read[1] \in {"root", "cluster", "list"}

---------------------------------------------------------------------------
(* cluster.go *)

\* What the peer asked has of its failed messages to another.  Only the leader messages
\* every peer; the count is since the process started, and a failure may carry no date.
SendFailure(s, p) ==
  CASE p \notin s.up /\ s.leader \in {{Peer}, {p}} -> IF s.dated THEN "recent" ELSE "undated"
    [] p \in s.past /\ s.leader \in {{Peer}, {p}}  -> IF s.dated THEN "past" ELSE "undated"
    [] OTHER                                       -> "none"

\* peersDown: what telemetry says of a peer, and without it what a leader could send.
PeersDown(s, told, mode) ==
  CASE mode = "distributed" /\ told.got                        -> s.others \ told.of.up
    [] mode = "distributed" /\ ~told.got /\ s.leader = {Peer}  -> {p \in s.others : SendFailure(s, p) = "recent"}
    [] OTHER                                                   -> {}

\* selfHealth: the thread that runs consensus, and whether there is a leader to follow.
SelfHealth(s) ==
  CASE s.thread # "working"                     -> "fail"
    [] s.thread = "working" /\ s.leader = {}    -> "fail"
    [] s.thread = "working" /\ s.leader # {} /\ s.candidate -> "warn"
    [] OTHER                                    -> "ok"

\* peerHealth: of a peer it does not message, this one has no view.
PeerHealth(s, told, p) ==
  CASE told.got /\ p \notin told.of.up           -> "fail"
    [] OTHER ->
  CASE s.leader \notin {{Peer}, {p}}             -> IF told.got THEN "ok" ELSE "info"
    [] OTHER ->
  CASE SendFailure(s, p) = "undated"             -> "warn"
    [] SendFailure(s, p) = "recent"              -> "fail"
    [] OTHER                                     -> "ok"

---------------------------------------------------------------------------
(* replicas.go *)

\* replicas: a copy that is Active on a peer that cannot be messaged is not serving.
Copies(s, c, down) ==
  {[copy EXCEPT !.state = IF copy.state = "Active" /\ copy.peer \in down THEN "Unreachable" ELSE @]
     : copy \in s.copies[c]}

\* replicasHealth: a dead copy, or a shard cut off with no copy that serves it, is red; a
\* shard cut off is amber while another copy serves; any other state is on its way.
ReplicasHealth(s, c, down) ==
  LET all == Copies(s, c, down)
      in(state) == {r \in all : r.state = state}
      shards(copies) == {r.shard : r \in copies}
  IN  CASE in("Dead") # {}
             \/ ~(shards(in("Unreachable")) \subseteq shards(in("Active"))) -> "fail"
        [] OTHER ->
      CASE in("Unreachable") # {}                           -> "warn"
        [] in("Unreachable") = {} /\ in("Active") # all     -> "pending"
        [] OTHER -> IF s.moving[c] > 0 THEN "pending" ELSE "ok"

---------------------------------------------------------------------------
(* collection.go *)

\* distributedRow and clusterRow: this peer, then the others by name.
ClusterFound(s, told) ==
  CASE Mode(s) = "denied" -> Finding(Warn, "cluster unread")
    [] Mode(s) = "distributed" ->
         FoundIf(SelfHealth(s) = "fail", Fail, "consensus") \o FoundIf(SelfHealth(s) = "warn", Warn, "election")
           \o FlattenSeq([i \in DOMAIN SetToSeq(s.others) |->
                LET health == PeerHealth(s, told, SetToSeq(s.others)[i]) IN
                FoundIf(health = "fail", Fail, "peer down") \o FoundIf(health = "warn", Warn, "peer failing")])
    [] OTHER -> <<>>

\* collectionsRow: a collection that is neither green nor red is amber, and so is one that
\* could not be read.
CollectionsFound(rows) ==
  FlattenSeq([i \in DOMAIN rows |->
    FoundIf(rows[i].status = "red", Fail, "red")
      \o FoundIf(rows[i].status = "unreadable", Warn, "collection unread")
      \o FoundIf(rows[i].status \notin {"green", "red", "unreadable"}, Warn, "not green")])

\* collectionTableIn: a row for each collection asked of, a failed read's one that says so,
\* and the replicas' cell, which is "-" where they were not read.
CollectionRows(got, of, told) ==
  LET list == <<"list", "-">>
      s == of[<<"cluster", "-">>]
      names == IF list \in got /\ of[list].listable THEN Named(of[list]) ELSE <<>>
  IN  [i \in DOMAIN names |->
         LET c == names[i]
             there(read) == <<read, c>> \in got /\ c \in ToSet(of[<<read, c>>].names)
         IN  [status   |-> IF there("collection") THEN of[<<"collection", c>>].status[c] ELSE "unreadable",
              replicas |-> IF there("replicas")
                           THEN ReplicasHealth(of[<<"replicas", c>>], c, PeersDown(s, told, Mode(s))) ELSE "-"]]

\* runOverview and compactOverview: the cluster before the collections, with the cells a
\* detailed page grades beside them.
QdrantFound(got, of) ==
  LET list == <<"list", "-">>
      telemetry == <<"telemetry", "-">>
      told == [got |-> telemetry \in got /\ of[telemetry].telemetry, of |-> of[telemetry]]
      rows == CollectionRows(got, of, told)
  IN  ClusterFound(of[<<"cluster", "-">>], told)
        \o (IF of[list].listable THEN CollectionsFound(rows) ELSE Finding(Warn, "unlisted"))
        \o FlattenSeq([i \in DOMAIN rows |->
             FoundIf(rows[i].replicas = "fail", Fail, "replicas fail")
               \o FoundIf(rows[i].replicas \in {"warn", "pending"}, Warn, "replicas degraded")])

---------------------------------------------------------------------------
(* What is the case, whatever the page makes of it. *)

\* The peers the one asked can tell are down: all, where it serves telemetry or leads, and
\* else the leader alone.
Tellable(s) == IF s.telemetry \/ s.leader = {Peer} THEN s.others ELSE s.leader \cap s.others

\* What may be wrong with an instance a credential of the whole may ask about.
QdrantTrouble(s, what) ==
  LET seen == ToSet(Named(s))
      clear == s.enabled /\ Mode(s) = "distributed"
      serves(copy) == copy.state = "Active" /\ copy.peer \in s.up \cup {Peer}
  IN  CASE what = "consensus"     -> clear /\ (s.thread # "working" \/ s.leader = {})
        [] what = "election"      -> clear /\ s.thread = "working" /\ s.leader # {} /\ s.candidate
        [] what = "peer down"     -> clear /\ (s.telemetry \/ s.dated) /\ ~(Tellable(s) \subseteq s.up)
        [] what = "peer failing"  -> clear /\ ~s.dated /\ s.leader # {} /\ (s.others \ s.up) \cup s.past # {}
        [] what = "unlisted"      -> ~s.listable
        [] what = "red"           -> s.listable /\ \E c \in seen : s.status[c] = "red"
        [] what = "not green"     -> s.listable /\ \E c \in seen : s.status[c] \notin {"red", "green"}
        [] what = "replicas fail" -> s.listable /\ clear /\ s.telemetry /\ \E c \in seen :
             \/ \E copy \in s.copies[c] : copy.state = "Dead"
             \/ \E copy \in s.copies[c] : /\ copy.state = "Active"
                                          /\ \A other \in s.copies[c] : other.shard = copy.shard => ~serves(other)
        [] what = "replicas degraded" -> s.listable /\ clear /\ s.telemetry /\ \E c \in seen :
             s.moving[c] > 0 \/ \E copy \in s.copies[c] : ~serves(copy)

QdrantFatal == {"consensus", "peer down", "red", "replicas fail"}
\* A peer is told down by one read, its copies and its failed messages by another.
QdrantRelational == {"peer down", "peer failing", "replicas fail", "replicas degraded"}
QdrantTroubles == QdrantFatal \cup {"election", "peer failing", "unlisted", "not green", "replicas fail", "replicas degraded"}

=============================================================================
