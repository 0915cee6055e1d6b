----------------------------- MODULE MCOverview -----------------------------
(***************************************************************************)
(* A server of each page: one that is well, and around it the states that  *)
(* differ from it in a thing or two, at the boundaries of what the page    *)
(* grades.                                                                 *)
(***************************************************************************)
EXTENDS Overview

\* etcd members, peers of a qdrant node, the namespaces of a Kubernetes page.
CONSTANTS Members, Peers, Zones

---------------------------------------------------------------------------
\* 100 of memory, 100 of clients; a backlog of 50 bytes that ends at the offset.
Replica == [state |-> "online", offset |-> 100, lag |-> 1]
Primary == [loading |-> FALSE, used |-> 50, max |-> 100, policy |-> "noeviction", clients |-> 10, maxclients |-> 100,
            rdb |-> "ok", aof |-> "ok", role |-> "master", link |-> "up", io |-> 1, syncing |-> FALSE, offset |-> 100,
            backlog |-> [active |-> TRUE, first |-> 51, held |-> 50], replicas |-> <<Replica, Replica>>]
With(r) == [Primary EXCEPT !.replicas[2] = r]
AReplica == [Primary EXCEPT !.role = "slave", !.replicas = <<>>]
RedisServers ==
  <<Primary, [Primary EXCEPT !.used = 100], [Primary EXCEPT !.used = 90], [Primary EXCEPT !.used = 100, !.policy = "allkeys-lru"],
    [Primary EXCEPT !.max = 0, !.maxclients = 0], [Primary EXCEPT !.clients = 95, !.loading = TRUE],
    [Primary EXCEPT !.rdb = "err"], [Primary EXCEPT !.aof = "err", !.clients = 100],
    With([Replica EXCEPT !.offset = 50]), With([Replica EXCEPT !.offset = 49]), With([Replica EXCEPT !.lag = 10]),
    With([Replica EXCEPT !.state = "wait_bgsave", !.offset = 0]), With([Replica EXCEPT !.offset = 101]),
    AReplica, [AReplica EXCEPT !.link = "down"], [AReplica EXCEPT !.link = "down", !.syncing = TRUE],
    [AReplica EXCEPT !.io = 30]>>

Node(id) == [id |-> id, flags |-> <<>>, link |-> "connected"]
Position(id, replica) == [id |-> id, offset |-> 10, replica |-> replica, health |-> "online"]
ACluster == [served |-> TRUE, permitted |-> TRUE, nodes |-> <<Node("a"), Node("b")>>,
             shards |-> <<<<Position("a", FALSE), Position("b", TRUE)>>>>]
RedisClusterServers ==
  <<ACluster, [ACluster EXCEPT !.served = FALSE, !.nodes[1].flags = <<"fail">>],
    [ACluster EXCEPT !.nodes[2].flags = <<"fail?">>], [ACluster EXCEPT !.nodes[2].flags = <<"fail">>, !.nodes[2].link = "disconnected"],
    [ACluster EXCEPT !.shards[1][2].health = "loading"], [ACluster EXCEPT !.shards[1][2].offset = 9],
    [ACluster EXCEPT !.shards[1][2].offset = 11, !.shards[1][2].health = "loading", !.permitted = FALSE],
    [ACluster EXCEPT !.shards[1] = <<Position("a", FALSE), [Position("b", FALSE) EXCEPT !.offset = 9]>>]>>

---------------------------------------------------------------------------
Says == [leader |-> "e", term |-> 1, index |-> 5, applied |-> 5, errors |-> {}, size |-> 10, quota |-> 100]
Etcd == [members |-> <<"e", "m", "n">>, says |-> [m \in Members |-> Says], up |-> Members, learners |-> {}, started |-> Members,
         https |-> Members, route |-> [tunnel |-> FALSE, user |-> FALSE, tls |-> FALSE]]
EtcdServers ==
  <<Etcd, [Etcd EXCEPT !.up = {"e", "m"}], [Etcd EXCEPT !.up = {"e"}],
    [Etcd EXCEPT !.up = {"e"}, !.says["e"].leader = NoLeader, !.says["e"].errors = {"no leader"}],
    [Etcd EXCEPT !.says["e"].errors = {"NOSPACE"}, !.says["e"].size = 100], [Etcd EXCEPT !.says["e"].size = 80],
    [Etcd EXCEPT !.says["m"].leader = "n"], [Etcd EXCEPT !.says["m"].term = 2], [Etcd EXCEPT !.says["n"].index = 2, !.says["n"].applied = 2],
    [Etcd EXCEPT !.says["n"].applied = 2], [Etcd EXCEPT !.says["n"].applied = 0], [Etcd EXCEPT !.started = {"e", "m"}],
    [Etcd EXCEPT !.learners = {"n"}, !.says["n"].leader = NoLeader], [Etcd EXCEPT !.learners = {"e"}]>>
Alone == [Etcd EXCEPT !.members = <<"e">>, !.started = {"e"}, !.up = {"e"}]
EtcdAlone == <<Alone, [Alone EXCEPT !.says["e"].size = 80], [Alone EXCEPT !.learners = {"e"}]>>
\* Reached by another route, the same cluster says less.
EtcdTunneled == [s \in DOMAIN EtcdServers |-> [EtcdServers[s] EXCEPT !.route.tunnel = TRUE]]
EtcdUser == [s \in DOMAIN EtcdServers |-> [EtcdServers[s] EXCEPT !.route = [tunnel |-> FALSE, user |-> TRUE, tls |-> TRUE], !.https = {"e", "m"}]]

---------------------------------------------------------------------------
Qdrant == [enabled |-> TRUE, served |-> TRUE, credential |-> "all", thread |-> "working", leader |-> {Peer}, candidate |-> FALSE,
           others |-> Peers, up |-> Peers, past |-> {}, dated |-> TRUE, telemetry |-> TRUE, listable |-> TRUE,
           names |-> <<"c", "d">>, status |-> [c \in {"c", "d"} |-> "green"],
           copies |-> [c \in {"c", "d"} |-> {[shard |-> 1, peer |-> p, state |-> "Active"] : p \in {Peer, "p"}}],
           moving |-> [c \in {"c", "d"} |-> 0]]
QdrantServers ==
  <<Qdrant, [Qdrant EXCEPT !.up = {"q"}], [Qdrant EXCEPT !.up = {"q"}, !.copies["c"] = {[shard |-> 1, peer |-> "p", state |-> "Active"]}],
    [Qdrant EXCEPT !.up = {"p"}, !.telemetry = FALSE, !.leader = {"p"}], [Qdrant EXCEPT !.up = {"q"}, !.telemetry = FALSE, !.leader = {"p"}],
    [Qdrant EXCEPT !.past = {"p"}, !.telemetry = FALSE], [Qdrant EXCEPT !.up = {"p"}, !.dated = FALSE],
    [Qdrant EXCEPT !.thread = "stopped"], [Qdrant EXCEPT !.leader = {}], [Qdrant EXCEPT !.candidate = TRUE],
    [Qdrant EXCEPT !.status["d"] = "red"], [Qdrant EXCEPT !.status["c"] = "yellow", !.moving["c"] = 1],
    [Qdrant EXCEPT !.copies["c"] = {[shard |-> 1, peer |-> Peer, state |-> "Dead"], [shard |-> 1, peer |-> "p", state |-> "Active"]}],
    [Qdrant EXCEPT !.copies["d"] = {[shard |-> 1, peer |-> Peer, state |-> "Partial"], [shard |-> 1, peer |-> "p", state |-> "Active"]}],
    [Qdrant EXCEPT !.enabled = FALSE, !.others = {}, !.up = {}, !.copies = [c \in {"c", "d"} |-> {}]], [Qdrant EXCEPT !.credential = "collections", !.listable = FALSE],
    [Qdrant EXCEPT !.names = <<"d">>], [Qdrant EXCEPT !.served = FALSE]>>

---------------------------------------------------------------------------
Reads == {"seal", "leader", "token", "raft", "engines", "auths", "policies"}
Vault == [sealed |-> FALSE, initialized |-> TRUE, raft |-> TRUE, autopilot |-> "healthy", node |-> "active", may |-> Reads, uses |-> 0]
VaultServers ==
  <<Vault, [Vault EXCEPT !.sealed = TRUE], [Vault EXCEPT !.initialized = FALSE, !.sealed = TRUE], [Vault EXCEPT !.node = "leaderless"],
    [Vault EXCEPT !.node = "standby"], [Vault EXCEPT !.autopilot = "unhealthy"], [Vault EXCEPT !.autopilot = "none"],
    [Vault EXCEPT !.raft = FALSE], [Vault EXCEPT !.uses = 3], [Vault EXCEPT !.uses = 1, !.raft = FALSE],
    [Vault EXCEPT !.may = {"seal", "leader", "token"}], [Vault EXCEPT !.may = Reads \ {"auths"}], [Vault EXCEPT !.may = Reads \ {"token"}],
    [Vault EXCEPT !.may = {}]>>

---------------------------------------------------------------------------
User(name) == [name |-> name, enabled |-> TRUE, service |-> FALSE, otp |-> TRUE, webauthn |-> FALSE]
Client(name) == [name |-> name, enabled |-> TRUE, uris |-> {"exact"}, anyOrigin |-> FALSE, implicit |-> FALSE, direct |-> FALSE,
                 public |-> TRUE, standard |-> TRUE, builtin |-> FALSE, pkce |-> "S256", fullScope |-> FALSE, bearer |-> FALSE, account |-> FALSE]
Step(level, requirement) == [subflow |-> FALSE, second |-> TRUE, level |-> level, requirement |-> requirement]
Sub(level, requirement) == [subflow |-> TRUE, second |-> FALSE, level |-> level, requirement |-> requirement]
Nobody == [r \in ToSet(adminRoles) |-> {}]
Realm == [enabled |-> TRUE, bruteForce |-> TRUE, ssl |-> "all", events |-> TRUE, adminEvents |-> TRUE, passwords |-> "good",
          access |-> "short", session |-> "short", rotate |-> TRUE, flow |-> <<Sub(0, "REQUIRED"), Step(1, "REQUIRED")>>,
          users |-> <<User("u"), [User("v") EXCEPT !.otp = FALSE, !.webauthn = TRUE]>>,
          clients |-> <<Client("c"), [Client("d") EXCEPT !.account = TRUE, !.public = FALSE]>>,
          accounts |-> [d \in {"d"} |-> "none"], holders |-> Nobody]
GlanceServers ==
  <<Realm, [Realm EXCEPT !.enabled = FALSE], [Realm EXCEPT !.bruteForce = FALSE], [Realm EXCEPT !.ssl = "none"],
    [Realm EXCEPT !.ssl = "external"], [Realm EXCEPT !.events = FALSE], [Realm EXCEPT !.adminEvents = FALSE, !.ssl = "none"]>>
AuditServers ==
  <<Realm, [Realm EXCEPT !.flow = <<Sub(0, "CONDITIONAL"), Sub(1, "REQUIRED"), Step(2, "REQUIRED")>>],
    [Realm EXCEPT !.flow = <<Step(0, "ALTERNATIVE")>>, !.bruteForce = FALSE], [Realm EXCEPT !.flow = <<Step(0, "DISABLED")>>],
    [Realm EXCEPT !.users[1].otp = FALSE, !.users[2].webauthn = FALSE], [Realm EXCEPT !.users[2].webauthn = FALSE],
    [Realm EXCEPT !.users[2].enabled = FALSE], [Realm EXCEPT !.clients[1].pkce = "none", !.passwords = "none"],
    [Realm EXCEPT !.clients[1].uris = {"anywhere"}, !.ssl = "none"], [Realm EXCEPT !.accounts["d"] = "manage"],
    [Realm EXCEPT !.holders["manage-users"] = {"service account"}], [Realm EXCEPT !.clients[2].enabled = FALSE, !.events = FALSE]>>

---------------------------------------------------------------------------
Container(state) == [state |-> state, code |-> NoCode, field |-> "", text |-> ""]
Daemon(containers) == [containers |-> containers, dangling |-> 0]
DockerServers ==
  <<Daemon(<<>>), Daemon(<<Container("running")>>), Daemon(<<Container("running"), [Container("running") EXCEPT !.text = "unhealthy"]>>),
    Daemon(<<[Container("running") EXCEPT !.field = "unhealthy"]>>), Daemon(<<[Container("running") EXCEPT !.field = "healthy"], Container("restarting")>>),
    Daemon(<<Container("dead")>>), Daemon(<<[Container("exited") EXCEPT !.code = 0]>>), Daemon(<<[Container("exited") EXCEPT !.code = 137]>>),
    Daemon(<<Container("exited")>>), Daemon(<<Container("paused"), Container("created")>>),
    [Daemon(<<Container("running")>>) EXCEPT !.dangling = 2]>>

---------------------------------------------------------------------------
Holds(count, newest) == [count |-> count, newest |-> newest]
Account == [names |-> <<"b", "c", "d", "f">>, there |-> {"b", "c", "d", "f"}, denied |-> {},
            holds |-> ("b" :> Holds(1, 4) @@ "c" :> Holds(2, 3) @@ "d" :> Holds(1, 5) @@ "f" :> Holds(1, 1))]
BucketsServers ==
  <<Account, [Account EXCEPT !.holds["d"] = Holds(0, 0)], [Account EXCEPT !.denied = {"c"}], [Account EXCEPT !.there = {"b", "d", "f"}],
    [Account EXCEPT !.holds["b"] = Holds(0, 0), !.holds["c"] = Holds(0, 0), !.denied = {"c", "d"}], [Account EXCEPT !.names = <<>>],
    [Account EXCEPT !.names = <<"a", "b", "c", "d", "f">>, !.holds = @ @@ ("a" :> Holds(0, 0)), !.there = @ \cup {"a"}],
    [Account EXCEPT !.denied = {"account"}]>>
BucketServers ==
  <<Account, [Account EXCEPT !.holds["b"] = Holds(0, 0)], [Account EXCEPT !.denied = {"versioning"}], [Account EXCEPT !.denied = {"lifecycle", "objects"}],
    [Account EXCEPT !.there = {"c"}], [Account EXCEPT !.denied = {"exists"}]>>

---------------------------------------------------------------------------
Standby == [state |-> "streaming", behind |-> 0, lags |-> {0}, kind |-> "sync"]
Slot == [invalid |-> FALSE, wal |-> "reserved", active |-> TRUE, temporary |-> FALSE, retained |-> 0]
Pg == [standby |-> FALSE, recent |-> TRUE, monitor |-> TRUE, sync |-> [need |-> 1, commit |-> "on"], paused |-> FALSE,
       gap |-> Unknown, receiver |-> [state |-> "none"], standbys |-> <<Standby, Standby>>, slots |-> <<Slot>>, total |-> 10, max |-> 100,
       archiver |-> [mode |-> "on", failedAt |-> Unknown, lastAt |-> 5]]
APgStandby == [Pg EXCEPT !.standby = TRUE, !.standbys = <<>>, !.slots = <<>>, !.receiver = [state |-> "streaming", behind |-> 0],
              !.gap = 0]
PgServers ==
  <<Pg, [Pg EXCEPT !.total = 79], [Pg EXCEPT !.total = 80], [Pg EXCEPT !.total = 95], [Pg EXCEPT !.standbys[1].behind = 1],
    [Pg EXCEPT !.standbys[2].lags = {0, 4}, !.standbys[1].behind = 1], [Pg EXCEPT !.standbys[1] = [Standby EXCEPT !.state = "backup", !.behind = 9]],
    [Pg EXCEPT !.standbys = <<>>], [Pg EXCEPT !.sync = [need |-> 2, commit |-> "on"], !.standbys[2].kind = "async"],
    [Pg EXCEPT !.sync.commit = "local", !.standbys = <<>>], [Pg EXCEPT !.slots[1].wal = "lost"], [Pg EXCEPT !.slots[1].active = FALSE],
    [Pg EXCEPT !.slots[1].retained = 4, !.archiver.failedAt = 5], [Pg EXCEPT !.archiver.failedAt = 6], [Pg EXCEPT !.archiver.failedAt = 4],
    [Pg EXCEPT !.monitor = FALSE], [Pg EXCEPT !.recent = FALSE], APgStandby, [APgStandby EXCEPT !.receiver = [state |-> "none"]],
    [APgStandby EXCEPT !.paused = TRUE, !.archiver.failedAt = 6], [APgStandby EXCEPT !.receiver.behind = 1, !.archiver = [mode |-> "always", failedAt |-> 6, lastAt |-> Unknown]],
    [APgStandby EXCEPT !.receiver.behind = Unknown, !.gap = 1], [APgStandby EXCEPT !.receiver = [state |-> "none"], !.gap = 4],
    [APgStandby EXCEPT !.receiver = [state |-> "none"], !.monitor = FALSE]>>

---------------------------------------------------------------------------
Channel == [io |-> "yes", sql |-> "yes", lag |-> 0, delay |-> 0, ioError |-> FALSE]
Member(local) == [local |-> local, state |-> "ONLINE", queued |-> 0]
Galera == [kind |-> "galera", node |-> [primary |-> TRUE, connected |-> TRUE, ready |-> TRUE, synced |-> TRUE, history |-> "cluster's", paused |-> 0, queued |-> 0]]
AGroup == [kind |-> "group", members |-> [m \in Members |-> Member(m = "e")]]
Mysql == [threads |-> 10, max |-> 100, log |-> TRUE, channels |-> <<Channel>>, layer |-> NoLayer]
Grouped == [Mysql EXCEPT !.channels = <<>>, !.layer = AGroup]
Wsrep == [Mysql EXCEPT !.channels = <<>>, !.layer = Galera, !.log = FALSE]
MysqlServers ==
  <<Mysql, [Mysql EXCEPT !.threads = 85], [Mysql EXCEPT !.threads = 95], [Mysql EXCEPT !.channels[1].lag = 1], [Mysql EXCEPT !.channels[1].lag = 5],
    [Mysql EXCEPT !.channels[1].lag = 5, !.channels[1].delay = 5], [Mysql EXCEPT !.channels[1].io = "connecting"],
    [Mysql EXCEPT !.channels[1].io = "connecting", !.channels[1].ioError = TRUE], [Mysql EXCEPT !.channels[1].sql = "no", !.channels[1].lag = NoLag],
    [Mysql EXCEPT !.channels = <<>>, !.log = FALSE]>>
GroupServers ==
  <<Grouped, [Grouped EXCEPT !.layer.members["m"].state = "UNREACHABLE"],
    [Grouped EXCEPT !.layer.members["m"].state = "UNREACHABLE", !.layer.members["n"].state = "UNREACHABLE"],
    [Grouped EXCEPT !.layer.members = [m \in {"e", "m"} |-> IF m = "m" THEN [Member(FALSE) EXCEPT !.state = "UNREACHABLE"] ELSE Member(TRUE)]],
    [Grouped EXCEPT !.layer.members["n"].state = "ERROR"], [Grouped EXCEPT !.layer.members["e"].state = "ERROR"],
    [Grouped EXCEPT !.layer.members["e"].state = "RECOVERING"], [Grouped EXCEPT !.layer.members["n"].queued = 1]>>
GaleraServers ==
  <<Wsrep, [Wsrep EXCEPT !.layer.node.primary = FALSE, !.layer.node.synced = FALSE], [Wsrep EXCEPT !.layer.node.synced = FALSE],
    [Wsrep EXCEPT !.layer.node.paused = 1], [Wsrep EXCEPT !.layer.node.queued = 1]>>

---------------------------------------------------------------------------
Pgc == [instances |-> 2, running |-> 2, ready |-> 2, primary |-> "1", target |-> "1", failing |-> FALSE, nodes |-> 2, timeline |-> 1,
        timelines |-> <<1, 1>>, takes |-> {"barmanObjectStore"}, stanza |-> TRUE, archive |-> "on", success |-> 5, failed |-> 0,
        certificates |-> {90}, volumes |-> "", conditions |-> ("ContinuousArchiving" :> "True" @@ "Ready" :> "True"), store |-> "", server |-> "s"]
Plugin == [Pgc EXCEPT !.takes = {"plugin"}, !.stanza = FALSE, !.success = 0, !.store = "os"]
Cnpg == [up |-> TRUE, login |-> TRUE, clusters |-> [n \in Zones |-> <<Pgc>>], volumes |-> [n \in Zones |-> <<[phase |-> "bound", asked |-> 1, got |-> 1]>>],
         one |-> Plugin, stores |-> ("os" :> [there |-> TRUE, windows |-> {"s"}]),
         backups |-> {[of |-> "this", name |-> "b1", phase |-> "completed", created |-> 1]},
         schedules |-> {[of |-> "this", error |-> FALSE, suspended |-> FALSE]}]
In(c) == [Cnpg EXCEPT !.clusters["x"] = <<c>>]
CnpgListServers ==
  <<Cnpg, [Cnpg EXCEPT !.up = FALSE], In([Pgc EXCEPT !.primary = "", !.target = ""]), In([Pgc EXCEPT !.failing = TRUE]), In([Pgc EXCEPT !.target = "2"]),
    In([Pgc EXCEPT !.ready = 1]), In([Pgc EXCEPT !.nodes = 1]), In([Pgc EXCEPT !.timelines = <<1, 2>>]), In([Pgc EXCEPT !.timelines = <<1, 0>>]),
    In([Pgc EXCEPT !.archive = "off"]), In([Pgc EXCEPT !.stanza = FALSE, !.takes = {}, !.success = 0]), In([Pgc EXCEPT !.success = 0]),
    In([Pgc EXCEPT !.failed = 6]), In(Plugin), In([Plugin EXCEPT !.success = 5, !.failed = 6]), In([Pgc EXCEPT !.certificates = {90, Unreadable}]),
    In([Pgc EXCEPT !.certificates = {3, Unreadable}]), In([Pgc EXCEPT !.certificates = {0}]), In([Pgc EXCEPT !.volumes = "stuck"]),
    In([Pgc EXCEPT !.conditions["Ready"] = "False"]), In([Pgc EXCEPT !.instances = 0, !.running = 0, !.ready = 0])>>
CnpgStorageServers ==
  <<Cnpg, [Cnpg EXCEPT !.up = FALSE], [Cnpg EXCEPT !.volumes["x"][1].phase = "pending"], [Cnpg EXCEPT !.volumes["y"][1].got = 0],
    [Cnpg EXCEPT !.volumes["x"] = <<>>]>>
Backup(name, phase, created) == [of |-> "this", name |-> name, phase |-> phase, created |-> created]
CnpgShowServers ==
  <<Cnpg, [Cnpg EXCEPT !.login = FALSE], [Cnpg EXCEPT !.backups = {}], [Cnpg EXCEPT !.backups = {Backup("b1", "completed", 1), Backup("b2", "running", 2)}],
    [Cnpg EXCEPT !.backups = {Backup("b1", "failed", 1)}], [Cnpg EXCEPT !.backups = {Backup("b1", "completed", 1), Backup("b2", "completed", 2)}],
    [Cnpg EXCEPT !.backups = {[Backup("b2", "completed", 2) EXCEPT !.of = "other"]}], [Cnpg EXCEPT !.schedules = {}],
    [Cnpg EXCEPT !.schedules = {[of |-> "this", error |-> TRUE, suspended |-> TRUE]}], [Cnpg EXCEPT !.schedules = {[of |-> "this", error |-> FALSE, suspended |-> TRUE]}],
    [Cnpg EXCEPT !.stores["os"].there = FALSE, !.stores["os"].windows = {}], [Cnpg EXCEPT !.stores["os"].windows = {"other"}],
    [Cnpg EXCEPT !.one.conditions["ContinuousArchiving"] = "False"], [Cnpg EXCEPT !.one.conditions["ContinuousArchiving"] = "Unknown"],
    [Cnpg EXCEPT !.one = [Pgc EXCEPT !.success = 0]], [Cnpg EXCEPT !.one = [Pgc EXCEPT !.stanza = FALSE, !.takes = {}, !.success = 0]]>>

---------------------------------------------------------------------------
Running == [ready |-> TRUE, state |-> "running", restarts |-> 0]
Pod == [phase |-> "Running", lost |-> FALSE, leaving |-> "no", initialized |-> TRUE, containers |-> <<Running>>,
        inits |-> <<[state |-> "done", sidecar |-> FALSE, ready |-> FALSE, restarts |-> 20], [state |-> "started", sidecar |-> TRUE, ready |-> TRUE, restarts |-> 0]>>]
KubeNode == [condition |-> "True", cordoned |-> FALSE, pressure |-> FALSE, slots |-> 10]
Kube == [login |-> TRUE, denied |-> {}, namespaces |-> Zones, nodes |-> <<KubeNode, KubeNode>>,
         pods |-> [n \in Zones |-> <<Pod>>], deployments |-> [n \in Zones |-> <<[ready |-> 1, replicas |-> NoReplicas]>>],
         quotas |-> [n \in Zones |-> <<[used |-> 7, hard |-> 10]>>], certs |-> [n \in Zones |-> <<30>>]]
PodIn(pod) == [Kube EXCEPT !.pods["x"] = <<pod>>]
KubeServers ==
  <<Kube, [Kube EXCEPT !.nodes[1].condition = "Unknown", !.nodes[2].pressure = TRUE], [Kube EXCEPT !.nodes[1].cordoned = TRUE, !.nodes[2].slots = 2],
    PodIn([Pod EXCEPT !.inits[2].ready = FALSE]), PodIn([Pod EXCEPT !.containers[1].restarts = 6, !.inits[2].restarts = 6]),
    [PodIn([Pod EXCEPT !.phase = "Succeeded", !.containers[1].state = "done", !.containers[1].ready = FALSE]) EXCEPT !.certs["y"] = <<5>>],
    [PodIn([Pod EXCEPT !.lost = TRUE]) EXCEPT !.quotas["x"][1].used = 8],
    [Kube EXCEPT !.deployments["x"][1].ready = 0, !.certs["x"] = <<Unparsed>>],
    [Kube EXCEPT !.denied = {"nodes"} \cup Kinds], [Kube EXCEPT !.denied = {"namespaces"}], [Kube EXCEPT !.login = FALSE]>>
KubeNamedServers ==
  <<Kube, [PodIn([Pod EXCEPT !.leaving = "late"]) EXCEPT !.namespaces = {"y"}, !.certs["y"] = <<-1>>, !.denied = {"nodes"}],
    [Kube EXCEPT !.denied = {"namespaces", "pods"}, !.deployments["x"][1] = [ready |-> 1, replicas |-> 2], !.nodes[2].pressure = TRUE]>>

---------------------------------------------------------------------------
Of(p, states) == [page |-> p, states |-> states]
MCServers ==
  [name \in {"redis", "redis cluster", "etcd", "etcd through a tunnel", "etcd with a user", "etcd alone", "qdrant", "vault", "keycloak", "keycloak audit", "docker", "s3", "s3 bucket", "pg", "mysql", "mysql group", "galera", "cnpg list", "cnpg storage", "cnpg show", "kube", "kube named"} |->
     CASE name = "redis" -> Of("redis", RedisServers)
       [] name = "redis cluster" -> Of("redis cluster", RedisClusterServers)
       [] name = "etcd" -> Of("etcd", EtcdServers)
       [] name = "etcd through a tunnel" -> Of("etcd", EtcdTunneled)
       [] name = "etcd with a user" -> Of("etcd", EtcdUser)
       [] name = "etcd alone" -> Of("etcd", EtcdAlone)
       [] name = "qdrant" -> Of("qdrant", QdrantServers)
       [] name = "vault" -> Of("vault", VaultServers)
       [] name = "keycloak" -> Of("keycloak", GlanceServers)
       [] name = "keycloak audit" -> Of("keycloak audit", AuditServers)
       [] name = "docker" -> Of("docker", DockerServers)
       [] name = "s3" -> Of("s3", BucketsServers)
       [] name = "s3 bucket" -> Of("s3 bucket", BucketServers)
       [] name = "pg" -> Of("pg", PgServers)
       [] name = "mysql" -> Of("mysql", MysqlServers)
       [] name = "mysql group" -> Of("mysql", GroupServers)
       [] name = "galera" -> Of("mysql", GaleraServers)
       [] name = "cnpg list" -> Of("cnpg list", CnpgListServers)
       [] name = "cnpg storage" -> Of("cnpg storage", CnpgStorageServers)
       [] name = "cnpg show" -> Of("cnpg show", CnpgShowServers)
       [] name = "kube" -> Of("kube", KubeServers)
       [] name = "kube named" -> Of("kube named", KubeNamedServers)]

MCMaxMoves == [name \in DOMAIN MCServers |-> IF name = "kube named" THEN 0 ELSE 1]

=============================================================================
