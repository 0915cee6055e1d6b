------------------------------ MODULE RedisPage ------------------------------
(***************************************************************************)
(* redis.overview and redis.cluster: what a server's INFO, the length of   *)
(* its slow log and its view of the cluster are made into.                 *)
(*                                                                         *)
(* A server is a record of the figures INFO carries.  A replica is its     *)
(* state, the offset it acknowledged and how long ago; the backlog is the  *)
(* window of the stream its primary still holds.                           *)
(***************************************************************************)
EXTENDS Findings, FiniteSets, FiniteSetsExt

staleContactSeconds == 10
staleUpstreamSeconds == 30

---------------------------------------------------------------------------
(* replication.go *)

\* Mutant: the replica's own offset is looked for, not the byte it will ask for next.
ResyncOwnOffset(in, offset) ==
  LET first == in.backlog.first
      end == first + in.backlog.held
  IN  IF ~in.backlog.active THEN "-"
      ELSE IF offset + 2 >= first /\ offset <= end THEN "partial" ELSE "full"

\* backlogOf and backlog.resync: the next byte is held, or is the next to arrive.
Resync(in, offset) ==
  LET first == in.backlog.first
      end == first + in.backlog.held
  IN  IF ~in.backlog.active THEN "-"
      ELSE IF offset + 1 >= first /\ offset + 1 <= end THEN "partial" ELSE "full"

\* downstreamRows: distance and resync are a primary's figures of a replica online.
Downstream(in) ==
  [i \in DOMAIN in.replicas |->
     LET r == in.replicas[i] IN
     IF r.state = "online"
     THEN [behind |-> Max({0, in.offset - r.offset}), resync |-> Resync(in, r.offset)]
     ELSE [behind |-> NoShare, resync |-> "-"]]

\* downstreamLink.
DownstreamLink(in, i) ==
  CASE in.replicas[i].state # "online"               -> "pending"
    [] Downstream(in)[i].resync = "full"             -> "full resync"
    [] in.replicas[i].lag >= staleContactSeconds     -> "silent"
    [] OTHER                                         -> "ok"

\* Mutant: a link is read before the full sync that keeps it down.
UpstreamLinkFirst(in) ==
  CASE in.link = "up" /\ in.io >= staleUpstreamSeconds    -> "silent"
    [] in.link = "up"                                     -> "ok"
    [] OTHER                                              -> "down"

\* upstreamLink: a full sync in progress is not a link that is broken.
UpstreamLink(in) ==
  CASE in.syncing                                         -> "pending"
    [] in.link = "up" /\ in.io >= staleUpstreamSeconds    -> "silent"
    [] in.link = "up"                                     -> "ok"
    [] OTHER                                              -> "down"

---------------------------------------------------------------------------
(* overview.go *)

\* memoryRow: a capacity is graded only where it has a wall.
MemoryFound(in) ==
  LET share == UsageShare(in.used, in.max) IN
  IF share = NoShare \/ in.policy # "noeviction" THEN <<>>
  ELSE IF share >= 1000 THEN Finding(Fail, "memory full")
  ELSE FoundIf(share >= UsageWarn, Warn, "memory near")

\* clientsRow: maxclients is 0 where INFO does not carry it.
ClientsFound(in) ==
  FoundIf(in.maxclients > 0 /\ UsageShare(in.clients, in.maxclients) >= UsageWarn, Warn, "clients near")

\* persistenceRow.
PersistenceFound(in) ==
  FoundIf(in.rdb = "err", Fail, "rdb") \o FoundIf(in.aof = "err", Fail, "aof")

\* replicaRow.
ReplicaFound(in) ==
  CASE UpstreamLink(in) = "ok"                    -> <<>>
    [] UpstreamLink(in) \in {"pending", "silent"} -> Finding(Warn, "link " \o UpstreamLink(in))
    [] OTHER                                      -> Finding(Fail, "link down")

\* replicationRow: a primary's replicas that need attention, each a finding.
ReplicationFound(in) ==
  IF in.role \in {"slave", "replica"} THEN ReplicaFound(in)
  ELSE FlattenSeq([i \in DOMAIN in.replicas |->
         FoundIf(DownstreamLink(in, i) # "ok", Warn, "replica " \o DownstreamLink(in, i))])

\* compactOverview, with the slow log's length or that it could not be read.
RedisFound(in, slow) ==
  FoundIf(in.loading, Warn, "loading") \o MemoryFound(in) \o ClientsFound(in)
    \o PersistenceFound(in) \o ReplicationFound(in) \o FoundIf(slow = "unread", Warn, "slow log unread")

---------------------------------------------------------------------------
(* shards.go and nodesTable: a cluster as one of its nodes sees it *)

\* clusterPositions: of a shard's nodes, in order, the last that is no replica is what the
\* distances are measured against.
Positions(shard) ==
  LET primaries == {i \in DOMAIN shard : ~shard[i].replica}
      primary == IF primaries = {} THEN NoShare ELSE shard[Max(primaries)].offset
  IN  [i \in DOMAIN shard |->
         [id |-> shard[i].id, offset |-> shard[i].offset, replica |-> shard[i].replica, health |-> shard[i].health,
          behind |-> IF shard[i].replica /\ primary >= 0 THEN Max({0, primary - shard[i].offset})
                                                         ELSE NoShare]]

\* nodesTable, a node's health: the flags in the order the node carries them, the last of
\* which stands, then the link, then what CLUSTER SHARDS said of one otherwise ok.
NodeHealth(node, position) ==
  LET word == [f \in {"fail", "fail?"} |-> IF f = "fail" THEN "fail" ELSE "suspected"]
      bad == SelectSeq(node.flags, LAMBDA f : f \in {"fail", "fail?"})
      flagged == IF bad = <<>> THEN "ok" ELSE word[Last(bad)]
      linked == IF node.link # "connected" THEN "down" ELSE flagged
  IN  IF linked = "ok" /\ position.health = "loading" THEN "loading" ELSE linked

\* clusterView and clusterPositions: the state, the nodes, then the shards, which a server
\* may refuse; a row is healthy where no position was found for it.
ClusterAsks == <<"info", "nodes", "shards">>

ClusterRows(got, of) ==
  LET nodes == of[<<"nodes", "-">>].nodes
      read == <<"shards", "-">> \in got /\ of[<<"shards", "-">>].permitted
      found == IF read THEN FlattenSeq([i \in DOMAIN of[<<"shards", "-">>].shards |-> Positions(of[<<"shards", "-">>].shards[i])])
                       ELSE <<>>
      at(id) == LET mine == SelectSeq(found, LAMBDA p : p.id = id) IN
                IF mine = <<>> THEN [health |-> "-", behind |-> NoShare] ELSE Last(mine)
  IN  [i \in DOMAIN nodes |-> [health |-> NodeHealth(nodes[i], at(nodes[i].id)), behind |-> at(nodes[i].id).behind]]

\* unpositioned: a refusal is said, and a connection dropped in the last command is not.
RedisClusterFound(got, of) ==
  LET rows == ClusterRows(got, of)
      row(health, grade) == FoundIf(\E i \in DOMAIN rows : rows[i].health = health, grade, "node " \o health)
  IN  FoundIf(~of[<<"info", "-">>].served, Fail, "slots unserved")
        \o row("fail", Fail) \o row("down", Fail) \o row("suspected", Warn) \o row("loading", Warn)
        \o FoundIf(\E i \in DOMAIN rows : rows[i].behind > 0, Fine, "a replica is behind")
        \o FoundIf(<<"shards", "-">> \in got /\ ~of[<<"shards", "-">>].permitted, Warn, "offsets unread")

---------------------------------------------------------------------------
(* The reads of redis.overview *)

\* overviewView and readSlowLog: without INFO there is no page.
RedisAsks == <<"info", "slow log">>

---------------------------------------------------------------------------
(* What is the case, whatever the page makes of it. *)

\* Every byte a replica has not acknowledged is still in its primary's backlog.
Resumable(in, r) ==
  r.offset <= in.offset /\
  \A byte \in (r.offset + 1)..in.offset : byte >= in.backlog.first

\* What may be wrong with a server.
RedisTrouble(in, what) ==
  LET near(used, max) == max > 0 /\ UsageShare(used, max) >= UsageWarn
      aReplica(bad(_)) == in.role = "master" /\ \E i \in DOMAIN in.replicas : bad(in.replicas[i])
  IN  CASE what = "loading"             -> in.loading
        [] what = "memory full"         -> in.policy = "noeviction" /\ in.max > 0 /\ in.used >= in.max
        [] what = "memory near"         -> in.policy = "noeviction" /\ near(in.used, in.max)
        [] what = "clients near"        -> near(in.clients, in.maxclients)
        [] what = "rdb"                 -> in.rdb = "err"
        [] what = "aof"                 -> in.aof = "err"
        [] what = "link pending"        -> in.role = "slave" /\ in.syncing
        [] what = "link silent"         -> in.role = "slave" /\ in.link = "up" /\ in.io >= staleUpstreamSeconds
        [] what = "link down"           -> in.role = "slave" /\ in.link = "down" /\ ~in.syncing
        [] what = "replica pending"     -> aReplica(LAMBDA r : r.state # "online")
        [] what = "replica full resync" -> aReplica(LAMBDA r : r.state = "online" /\ ~Resumable(in, r))
        [] what = "replica silent"      -> aReplica(LAMBDA r : r.state = "online" /\ r.lag >= staleContactSeconds)

RedisClusterTrouble(s, what) ==
  LET node(bad(_)) == \E i \in DOMAIN s.nodes : bad(s.nodes[i])
      linked(n) == n.link = "connected"
      member(bad(_, _)) == \E i \in DOMAIN s.shards : \E m, n \in ToSet(s.shards[i]) : bad(m, n)
  IN  CASE what = "slots unserved" -> ~s.served
        [] what = "node fail"      -> node(LAMBDA n : linked(n) /\ "fail" \in ToSet(n.flags))
        [] what = "node down"      -> node(LAMBDA n : ~linked(n))
        [] what = "node suspected" -> node(LAMBDA n : linked(n) /\ "fail?" \in ToSet(n.flags))
        [] what = "node loading"   -> /\ s.permitted
                                      /\ node(LAMBDA n : /\ linked(n) /\ ToSet(n.flags) \cap {"fail", "fail?"} = {}
                                                         /\ member(LAMBDA m, o : m.id = n.id /\ m.health = "loading"))
        [] what = "a replica is behind" -> member(LAMBDA m, n : m.replica /\ ~n.replica /\ n.offset > m.offset)

RedisClusterFatal == {"slots unserved", "node fail", "node down"}
\* A node's flags are of one read and what it says of its dataset of another.
RedisClusterRelational == {"node loading"}
RedisClusterTroubles == RedisClusterFatal \cup RedisClusterRelational \cup {"node suspected"}
RedisClusterClaims == {"a replica is behind"}

RedisFatal == {"memory full", "rdb", "aof", "link down"}
RedisTroubles == RedisFatal \cup {"loading", "memory near", "clients near", "link pending", "link silent",
                  "replica pending", "replica full resync", "replica silent"}

=============================================================================
