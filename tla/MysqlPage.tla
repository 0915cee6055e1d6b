----------------------------- MODULE MysqlPage -----------------------------
(***************************************************************************)
(* mysql.overview and mariadb.overview: the identity, the counters, then   *)
(* the parts of the replication's state, each a statement that is refused  *)
(* on its own, and the clustering layer: Group Replication on one fork,    *)
(* Galera on the other.                                                    *)
(*                                                                         *)
(* A server is a record: its sessions and how many it takes, whether its   *)
(* binary log is on, a channel per source it follows, how many replicas    *)
(* are connected, and its layer: none, a group of members, or a node's     *)
(* wsrep figures.  Lags are in minutes, shares of time in hundredths.      *)
(***************************************************************************)
EXTENDS Findings, FiniteSets, FiniteSetsExt

CONSTANTS applierLagWarn, applierLagFail,     \* lagWarn, lagFail
          groupQueueWarn, galeraQueueWarn,    \* transactions and writesets waiting
          flowControlWarn, flowControlFail

ASSUME MysqlBandsAssumption ==
  applierLagWarn <= applierLagFail /\ flowControlWarn <= flowControlFail

threadsWarn == 85    \* connectionsWarn and connectionsFail, hundredths of max_connections
threadsFail == 95

NoLag == -1
NoLayer == [kind |-> "none"]

---------------------------------------------------------------------------
(* replication_read.go and compactOverview: the statements, in order *)

\* clusterOf: a group's tables are asked for only where the server is configured for one.
LayerAsks(got, of) ==
  LET variables == <<"layer", "-">> IN
  IF variables \in got /\ of[variables].layer.kind = "group" THEN <<"layer", "members", "queues">> ELSE <<"layer">>

\* readState: nothing more once the version is refused; neither log statement once the
\* variables say the log is off.
StateAsks(done, got, of) ==
  LET vars == <<"variables", "-">>
      off == vars \in got /\ ~of[vars].log
  IN  IF <<"version", "-">> \in done \ got THEN <<"version">>
      ELSE <<"version", "variables", "replica">> \o (IF off THEN <<>> ELSE <<"binlog", "hosts">>) \o LayerAsks(got, of)

\* The first of the layer's statements that is refused is its last.
MysqlDue(done, got, of) ==
  LET failed == {read \in {"layer", "members", "queues"} : <<read, "-">> \in done \ got}
      asks == <<"identity", "counters">> \o StateAsks(done, got, of)
      left == SelectSeq(asks, LAMBDA read : /\ <<read, "-">> \notin done
                                            /\ read \in {"layer", "members", "queues"} => failed = {})
  IN  IF left = <<>> THEN {} ELSE {<<Head(left), "-">>}

\* compactOverview: an error only when neither half and no version could be read.
MysqlFails(done, got) == {<<read, "-">> : read \in {"identity", "counters", "version"}} \subseteq done \ got

---------------------------------------------------------------------------
(* replication_grade.go and replication.go *)

\* lagStatus: behind, beyond the delay it keeps.
LagGrade(lag, delay) ==
  LET beyond == IF delay > 0 /\ lag < delay THEN 0 ELSE lag - delay IN
  IF beyond >= applierLagFail THEN Fail ELSE IF beyond >= applierLagWarn THEN Warn ELSE Fine

\* assessChannel: the threads before the lag, which reads 0 of a replica that receives
\* nothing.
ChannelGrade(c) ==
  CASE c.io = "no" \/ c.sql # "yes"  -> Fail
    [] c.io # "yes"                  -> IF c.ioError THEN Fail ELSE Warn
    [] c.lag = NoLag                 -> Warn
    [] OTHER                         -> LagGrade(c.lag, c.delay)

\* replicaFacet and summarise: the worst of the channels, and the parts not read beside it.
\* The list of connected replicas is advisory, and the layer has a row of its own.
ReplicationGrade(channels) == Max({ChannelGrade(channels[i]) : i \in DOMAIN channels} \cup {Fine})

\* replicationRowOf.
ReplicationFoundMy(done, got, of) ==
  LET replica == <<"replica", "-">> IN
  IF <<"version", "-">> \notin got \/ replica \notin got THEN Finding(Warn, "replication unread")
  ELSE FoundIf(ReplicationGrade(of[replica].channels) > Fine, ReplicationGrade(of[replica].channels), "replication")
         \o FoundIf(<<"binlog", "-">> \in done \ got, Warn, "binlog unread")

---------------------------------------------------------------------------
(* replication_group.go and galera.go *)

\* groupGrade: members reachable are counted against all of them, as the group counts.
GroupGrade(members, queues) ==
  LET ids == DOMAIN members
      local == {m \in ids : members[m].local}
      reachable == {m \in ids : members[m].state # "UNREACHABLE"}
      queued(m) == IF m \in DOMAIN queues THEN queues[m].queued ELSE 0
      fails == \/ local = {}
               \/ \E m \in local : members[m].state \notin {"ONLINE", "RECOVERING"}
               \/ reachable # ids /\ 2 * Cardinality(reachable) <= Cardinality(ids)
      warns == \/ \E m \in local : members[m].state = "RECOVERING"
               \/ reachable # ids
               \/ \E m \in ids \ local : members[m].state \notin {"ONLINE", "UNREACHABLE"}
               \/ \E m \in ids : queued(m) >= groupQueueWarn
  IN  IF fails THEN Fail ELSE IF warns THEN Warn ELSE Fine

\* galeraGrade: outside the primary component a node's state and readiness are not said again.
GaleraGrade(v) ==
  LET fails == \/ ~v.primary
               \/ v.primary /\ ~(v.connected /\ v.ready)
               \/ v.history # "cluster's"
               \/ v.paused >= flowControlFail
      warns == \/ v.primary /\ ~v.synced
               \/ v.paused >= flowControlWarn
               \/ v.queued >= galeraQueueWarn
  IN  IF fails THEN Fail ELSE IF warns THEN Warn ELSE Fine

\* clusterRowOf: no row without a layer; unread once any of its statements is refused.
LayerFound(done, got, of) ==
  LET layer == <<"layer", "-">>
      all == {<<read, "-">> : read \in {"layer", "members", "queues"}}
  IN  IF <<"version", "-">> \notin got THEN <<>>
      ELSE IF done \cap all \subseteq got THEN
        LET kind == of[layer].layer.kind
            grade == IF kind = "group" THEN GroupGrade(of[<<"members", "-">>].layer.members, of[<<"queues", "-">>].layer.members)
                     ELSE IF kind = "galera" THEN GaleraGrade(of[layer].layer.node) ELSE Fine
        IN  FoundIf(grade > Fine, grade, "cluster")
      ELSE Finding(Warn, "layer unread")

---------------------------------------------------------------------------
(* overview_facts.go and overview.go *)

\* share and connectionsFinding: floored.
ThreadsFound(threads, max) ==
  LET share == IF max <= 0 THEN 0 ELSE (threads * 100) \div max IN
  IF share >= threadsFail THEN Finding(Fail, "connections")
  ELSE FoundIf(share >= threadsWarn, Warn, "connections")

\* compactOverview: the rows in order, and what could not be read after what was found.
MysqlFound(done, got, of) ==
  LET has(read) == <<read, "-">> \in got
      replication == ReplicationFoundMy(done, got, of)
      layer == LayerFound(done, got, of)
      unread(found) == SelectSeq(found, LAMBDA f : f.what \in {"replication unread", "layer unread"})
      read(found) == SelectSeq(found, LAMBDA f : f.what \notin {"replication unread", "layer unread"})
  IN  read(replication)
        \o (IF has("identity") /\ has("counters")
            THEN ThreadsFound(of[<<"counters", "-">>].threads, of[<<"identity", "-">>].max) ELSE <<>>)
        \o read(layer)
        \o FoundIf(~has("counters"), Warn, "counters unread")
        \o unread(replication) \o FoundIf(~has("identity"), Warn, "identity unread") \o unread(layer)

---------------------------------------------------------------------------
(* What is the case, whatever the page makes of it. *)

\* A group commits while more than half of its members agree that they are in it.
CanCommit(members) ==
  \E majority \in SUBSET DOMAIN members :
    /\ 2 * Cardinality(majority) > Cardinality(DOMAIN members)
    /\ \A m \in majority : members[m].state # "UNREACHABLE"

MysqlTrouble(s, what) ==
  LET applies(c) == c.io = "yes" /\ c.sql = "yes"
      channel(bad(_)) == \E i \in DOMAIN s.channels : bad(s.channels[i])
      group(bad(_)) == s.layer.kind = "group" /\ bad(s.layer.members)
      node(bad(_)) == s.layer.kind = "galera" /\ bad(s.layer.node)
  IN  CASE what = "replication"         -> channel(LAMBDA c : ~applies(c) \/ c.lag = NoLag \/ c.lag >= c.delay + applierLagWarn)
        [] what = "replication stopped" -> channel(LAMBDA c : \/ c.io = "no" \/ c.sql # "yes"
                                                              \/ c.io # "yes" /\ c.ioError
                                                              \/ applies(c) /\ c.lag >= c.delay + applierLagFail)
        [] what = "connections"         -> s.max > 0 /\ s.threads * 100 >= threadsWarn * s.max
        [] what = "connections full"    -> s.max > 0 /\ s.threads * 100 >= threadsFail * s.max
        [] what = "cluster"             ->
             \/ group(LAMBDA members : \E m \in DOMAIN members : members[m].state # "ONLINE")
             \/ group(LAMBDA members : \A m \in DOMAIN members : ~members[m].local)
             \/ node(LAMBDA v : \/ ~(v.primary /\ v.connected /\ v.ready /\ v.synced) \/ v.history # "cluster's"
                                \/ v.paused >= flowControlWarn \/ v.queued >= galeraQueueWarn)
        [] what = "queue"               ->
             group(LAMBDA members : \E m \in DOMAIN members : members[m].queued >= groupQueueWarn)
        [] what = "cluster lost"        ->
             \/ group(LAMBDA members : \/ ~CanCommit(members)
                                       \/ ~\E m \in DOMAIN members : members[m].local /\ members[m].state \in {"ONLINE", "RECOVERING"})
             \/ node(LAMBDA v : ~(v.primary /\ v.connected /\ v.ready) \/ v.history # "cluster's"
                                \/ v.paused >= flowControlFail)

\* The labels of the rows, and what makes each of them a failure.
MysqlFatal == {"replication stopped", "connections full", "cluster lost"}
MysqlTroubles == MysqlFatal \cup {"replication", "connections", "cluster", "queue"}
\* Sessions are counted in one statement against a ceiling read in another.
MysqlRelational == {"connections", "connections full"}

=============================================================================
