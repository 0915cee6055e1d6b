------------------------------ MODULE Overview ------------------------------
(***************************************************************************)
(* A page that says at a glance whether a server is well: the overview of  *)
(* each plugin, and the listings that grade what they list.                *)
(*                                                                         *)
(* A page is made of reads, each of which is answered, refused or comes to *)
(* nothing (its connection is dropped, its bound passes), and the server   *)
(* goes on living while they are made: what one read found need not be so  *)
(* any more when the next is answered.  The page is then made of what was  *)
(* found.  What is read when, and what is made of it, is each page's own   *)
(* module; this one runs any of them against its server.                   *)
(***************************************************************************)
EXTENDS RedisPage, EtcdPage, QdrantPage, VaultPage, KeycloakPage, ContainerPages, S3Page,
        PgPage, MysqlPage, CnpgPage

CONSTANTS
  Servers,     \* name -> the page asked of it, and the states it may be in, a sequence of them
  NamesAsked,  \* the namespaces a kube page of several names
  Reading,     \* in place of a page that is still being read
  Failed,      \* in place of the page of a call that is an error
  MaxMoves,    \* name -> how often that server changes while it is read
  MaxFails     \* how many reads come to nothing

VARIABLES
  which, page, \* the server asked, and the page it is asked for
  server,      \* the state it is in
  moves,       \* how often it has changed
  done, got,   \* the reads made, and those of them the server answered
  of,          \* read -> what the server was when it was made
  lasting,     \* what has been the case since the call began
  ever,        \* what was the case at some moment of it
  told         \* what the page says, Reading until it is made

vars == <<which, page, server, moves, done, got, of, lasting, ever, told>>

Pages == {"redis", "redis cluster", "etcd", "qdrant", "vault", "keycloak", "keycloak audit", "docker",
          "s3", "s3 bucket", "pg", "mysql", "cnpg list", "cnpg storage", "cnpg show", "kube", "kube named"}

ASSUME ServersAssumption == \A name \in DOMAIN Servers : Servers[name].page \in Pages

States == Servers[which].states

---------------------------------------------------------------------------
(* The page's own definitions, by name. *)

\* Reads made one after another, the whole of the page failing with the first that is vital.
InTurn(asks, vital) ==
  LET left == SelectSeq(asks, LAMBDA read : <<read, "-">> \notin done) IN
  IF left = <<>> \/ <<vital, "-">> \in done \ got THEN {} ELSE {<<Head(left), "-">>}

\* Whether there is no page, whatever the other reads say.
Error ==
  LET lost(read) == <<read, "-">> \in done \ got IN
  CASE page = "redis"          -> lost("info")
    [] page = "redis cluster"  -> lost("info") \/ lost("nodes")
    [] page = "etcd"           -> lost("status")
    [] page = "qdrant"         -> QdrantFails(done, got)
    [] page = "vault"          -> VaultFails(done, got, of)
    [] page \in {"keycloak", "keycloak audit"} -> lost("realm")
    [] page = "docker"         -> FALSE
    [] page = "s3"             -> BucketsFails(done, got, of)
    [] page = "s3 bucket"      -> BucketFails(done, got, of)
    [] page = "pg"             -> PgFails(done, got, of)
    [] page = "mysql"          -> MysqlFails(done, got)
    [] page \in {"cnpg list", "cnpg storage"} -> ClustersFails(done, got, of)
    [] page = "cnpg show"      -> ShowFails(done, got, of)
    [] page = "kube"           -> KubeFails(done, got, of)
    [] page = "kube named"     -> KubeFails(done, got, of)

\* The reads under way.  The lists of a Kubernetes page are all asked, whatever the first say.
Due ==
  IF page = "kube" THEN KubeDue(Everywhere, done)
  ELSE IF page = "kube named" THEN KubeDue(NamesAsked, done)
  ELSE IF Error THEN {}
  ELSE CASE page = "redis"          -> InTurn(RedisAsks, "info")
         [] page = "redis cluster"  -> InTurn(ClusterAsks, "nodes")
         [] page = "etcd"           -> EtcdDue(done, got, of)
         [] page = "qdrant"         -> QdrantDue(done, got, of)
         [] page = "vault"          -> VaultDue(done, got, of)
         [] page = "keycloak"       -> InTurn(GlanceAsks, "realm")
         [] page = "keycloak audit" -> AuditDue(done, got, of)
         [] page = "docker"         -> InTurn(DockerAsks, "containers")
         [] page = "s3"             -> BucketsDue(done, got, of)
         [] page = "s3 bucket"      -> InTurn(BucketAsks, "exists")
         [] page = "pg"             -> PgDue(done, got, of)
         [] page = "mysql"          -> MysqlDue(done, got, of)
         [] page \in {"cnpg list", "cnpg storage"} -> ClustersDue(done, got, of)
         [] page = "cnpg show"      -> ShowDue(done, got, of)

Found ==
  LET slow == IF <<"slow log", "-">> \in got THEN "read" ELSE "unread" IN
  CASE page = "redis"          -> RedisFound(of[<<"info", "-">>], slow)
    [] page = "redis cluster"  -> RedisClusterFound(got, of)
    [] page = "etcd"           -> EtcdPageFound(got, of)
    [] page = "qdrant"         -> QdrantFound(got, of)
    [] page = "vault"          -> VaultFound(got, of)
    [] page = "keycloak"       -> GlanceFound(got, of)
    [] page = "keycloak audit" -> AuditFound(got, of)
    [] page = "docker"         -> DockerFound(got, of)
    [] page = "s3"             -> BucketsFound(got, of)
    [] page = "s3 bucket"      -> BucketFound(got, of)
    [] page = "pg"             -> PgFound(got, of)
    [] page = "mysql"          -> MysqlFound(done, got, of)
    [] page = "cnpg list"      -> ClustersFound(got, of)
    [] page = "cnpg storage"   -> VolumesFound(got, of)
    [] page = "cnpg show"      -> ShowFound(got, of)
    [] page = "kube"           -> KubeFound(Everywhere, got, of)
    [] page = "kube named"     -> KubeFound(NamesAsked, got, of)

---------------------------------------------------------------------------
(* What is the case of a state of the page's server, and how bad it is. *)

\* About: of a page, what may be wrong with its server, what of that is a failure, what else
\* the page claims, and what of all this relates what several reads found.
About(p) ==
  LET about(troubles, fatal, claims, relational) ==
        [troubles |-> troubles, fatal |-> fatal, claims |-> claims, relational |-> relational]
  IN  CASE p = "redis"          -> about(RedisTroubles, RedisFatal, {}, {})
        [] p = "redis cluster"  -> about(RedisClusterTroubles, RedisClusterFatal, RedisClusterClaims, RedisClusterRelational)
        [] p = "etcd"           -> about(EtcdTroubles, EtcdFatal, EtcdClaims, EtcdRelational)
        [] p = "qdrant"         -> about(QdrantTroubles, QdrantFatal, {}, QdrantRelational)
        [] p = "vault"          -> about(VaultTroubles, VaultFatal, {}, {})
        [] p = "keycloak"       -> about(GlanceTroubles, GlanceFatal, {}, {})
        [] p = "keycloak audit" -> about(AuditTroubles, AuditFatal, {}, AuditRelational)
        [] p = "docker"         -> about(DockerTroubles, DockerFatal, DockerClaims, {})
        [] p = "s3"             -> about(BucketsTroubles, {}, BucketsClaims, {})
        [] p = "s3 bucket"      -> about(BucketTroubles, {}, BucketClaims, {})
        [] p = "pg"             -> about(PgTroubles, PgFatal, {}, PgRelational)
        [] p = "mysql"          -> about(MysqlTroubles, MysqlFatal, {}, MysqlRelational)
        [] p = "cnpg list"      -> about(ClustersTroubles, ClustersFatal, ClustersClaims, {})
        [] p = "cnpg storage"   -> about(VolumesTroubles, VolumesFatal, {}, {})
        [] p = "cnpg show"      -> about(ShowTroubles, ShowFatal, ShowClaims, ShowRelational)
        [] p \in {"kube", "kube named"} -> about(KubeTroubles, KubeFatal, {}, KubeRelational)

IsCase(p, s, what) ==
  CASE p = "redis"          -> RedisTrouble(s, what)
    [] p = "redis cluster"  -> RedisClusterTrouble(s, what)
    [] p = "etcd"           -> IF what \in EtcdClaims THEN EtcdQuorum(s, what) ELSE EtcdTrouble(s, what)
    [] p = "qdrant"         -> QdrantTrouble(s, what)
    [] p = "vault"          -> VaultTrouble(s, what)
    [] p \in {"keycloak", "keycloak audit"} -> RealmTrouble(s, what)
    [] p = "docker"         -> DockerTrouble(s, what)
    [] p = "s3"             -> BucketsTrouble(s, what)
    [] p = "s3 bucket"      -> BucketTrouble(s, what)
    [] p = "pg"             -> PgTrouble(s, what)
    [] p = "mysql"          -> MysqlTrouble(s, what)
    [] p = "cnpg list"      -> ClustersTrouble(s, what)
    [] p = "cnpg storage"   -> VolumesTrouble(s, what)
    [] p = "cnpg show"      -> ShowTrouble(s, what)
    [] p = "kube"           -> KubeTrouble(Everywhere, s, what)
    [] p = "kube named"     -> KubeTrouble(NamesAsked, s, what)

Cases(p, s) == {what \in About(p).troubles \cup About(p).claims : IsCase(p, s, what)}

---------------------------------------------------------------------------
(* The steps *)

Init ==
  /\ which \in DOMAIN Servers
  /\ page = Servers[which].page
  /\ server \in DOMAIN States
  /\ moves = 0
  /\ done = {} /\ got = {} /\ of = <<>>
  /\ lasting = Cases(page, States[server])
  /\ ever = lasting
  /\ told = Reading

Made(r) ==
  /\ told = Reading /\ r \in Due
  /\ done' = done \cup {r}
  /\ of' = [read \in done \cup {r} |-> IF read = r THEN States[server] ELSE of[read]]
  /\ UNCHANGED <<which, page, server, moves, lasting, ever, told>>

\* A read is answered, with what the server is at that moment or with its refusal.
Answer(r) == Made(r) /\ got' = got \cup {r}

\* A read comes to nothing.
Lose(r) == Cardinality(done \ got) < MaxFails /\ Made(r) /\ UNCHANGED got

\* The server changes between two reads.
Move(s) ==
  /\ told = Reading /\ moves < MaxMoves[which] /\ Due # {} /\ done # {} /\ s # server
  /\ server' = s
  /\ moves' = moves + 1
  /\ lasting' = lasting \cap Cases(page, States[s])
  /\ ever' = ever \cup Cases(page, States[s])
  /\ UNCHANGED <<which, page, done, got, of, told>>

\* Nothing is left to read, and the page is made.
Tell ==
  /\ told = Reading /\ Due = {}
  /\ told' = IF Error THEN Failed ELSE Found
  /\ UNCHANGED <<which, page, server, moves, done, got, of, lasting, ever>>

Next ==
  \/ \E r \in Due : Answer(r)
  \/ \E r \in Due : Lose(r)
  \/ \E s \in DOMAIN States : Move(s)
  \/ Tell

Spec == Init /\ [][Next]_vars

---------------------------------------------------------------------------
(* Properties *)

Page == told # Reading /\ told # Failed
Graded(what) == \E i \in DOMAIN told : told[i].what = what /\ told[i].grade > Fine

\* What a page says of a read it could not make.
UnreadWord(read) ==
  LET what == read[1] IN
  CASE page = "etcd"   -> IF what = "member" THEN "member unreachable" ELSE "quorum unread"
    [] page = "vault" /\ what \in {"leader", "engines", "auths", "seal"} ->
         (CASE what = "leader" -> "node" [] what = "seal" -> "state" [] OTHER -> "mounts") \o " unread"
    [] page = "pg" /\ what \in {"server", "position", "receiver", "standbys", "slots"} -> "replication unread"
    [] page = "mysql" /\ what \in {"version", "replica"} -> "replication unread"
    [] page = "mysql" /\ what \in {"members", "queues"}  -> "layer unread"
    [] what = "shards"   -> "offsets unread"
    [] page = "keycloak audit" /\ what = "account roles" -> "account unread"
    [] page \in {"cnpg list", "cnpg storage"} -> "namespace unread"
    [] what = "namespaces" -> "cluster unread"
    [] OTHER -> what \o " unread"

\* What was read of two states of the server says nothing of how the two parts relate, a read
\* that came to nothing is said as such, and a member that was not heard from is not counted
\* among those a quorum has to spare.
Mixed == \E r, q \in done : of[r] # of[q]
Judged(what) == /\ Mixed => what \notin About(page).relational
                /\ what \notin {UnreadWord(read) : read \in done \ got}
                /\ what = "one more" => done = got

\* A row is named by what it is about, however bad: the label it carries of each severity.
RowOf(what) ==
  LET rows == "standby late" :> "standby" @@ "this standby late" :> "this standby" @@ "slot lost" :> "slot"
                @@ "connections full" :> "connections" @@ "replication stopped" :> "replication"
                @@ "cluster lost" :> "cluster" @@ "queue" :> "cluster"
  IN  IF what \in DOMAIN rows THEN rows[what] ELSE what

\* A page all of whose reads were answered is never better than its server: what was wrong
\* from the moment the call began to its end is in the status, at its severity or behind
\* something at least as bad, whatever changed meanwhile; and where it is all that was wrong
\* it is the page's own finding.  (verdict and the rows of every overview.)
LastingIsTold ==
  Page /\ done = got =>
    \A what \in lasting \cap About(page).troubles : Judged(what) =>
      /\ Verdict(told).grade >= IF what \in About(page).fatal THEN Fail ELSE Warn
      /\ {RowOf(w) : w \in ever \cap About(page).troubles} = {RowOf(what)} => Graded(RowOf(what))

\* A page claims nothing that was at no moment of the call so, nor graver than it was: what
\* is read of two states never adds up to a trouble neither of them had.  (The same rows.)
NoFalseAlarm ==
  Page =>
    \A i \in DOMAIN told : \A what \in About(page).troubles \cup About(page).claims :
      told[i].what = what /\ Judged(what) =>
        \E w \in ever : RowOf(w) = what /\ (told[i].grade = Fail => w \in About(page).fatal)

\* Made without a word when they fail: whether a peer answers and what the copies of a
\* collection are, an account's one date, a version, a log's variables and its readers.
Unsaid == {"telemetry", "replicas", "account", "version", "variables", "hosts"}
Silent(read) == read[1] \in Unsaid /\ ~(page = "mysql" /\ read[1] = "version")
                  /\ ~(page = "keycloak" /\ read[1] = "version")

\* A refusal is an answer, and no more a reading than none.
Refused(read) ==
  CASE page = "vault"     -> read[1] \notin of[read].may
    [] page = "s3 bucket" -> read[1] \in of[read].denied
    [] page \in {"kube", "kube named"} -> read[1] \in of[read].denied \ {"namespaces"}
    [] page = "redis cluster" -> read[1] = "shards" /\ ~of[read].permitted
    [] OTHER -> FALSE

\* What was not read is not taken for well: each read that came to nothing or was refused has
\* its word on the page, unless the whole page is that nothing could be read; the one read a
\* page loses without a word is the last of redis.cluster (redis/shards.go:69).
UnreadIsSaid ==
  Page =>
    \A read \in (done \ got) \cup {r \in got : Refused(r)} :
      \/ Silent(read)
      \/ page = "redis cluster" /\ read[1] = "shards" /\ read \notin got
      \/ \E i \in DOMAIN told : told[i].what \in {UnreadWord(read), "containers unread", "cluster unread", "stopped"}

\* A token that can be used so many times is asked about once, and then spared: nothing that
\* would spend another use of it is read (vault/overview.go, usesLeft).
TokenIsSpared ==
  page = "vault" /\ Spared(got, of) => {read[1] : read \in done} \cap SpendsAUse = {"token"}

=============================================================================
