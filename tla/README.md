# A verification project for rta-plugins

The repository holds twelve plugins of `rta`, each a Go program of its own under
`src/plugins/`, which read, and here and there change, the systems a platform is made
of: PostgreSQL (`pg`, and its Kubernetes operator `cnpg`), MySQL and MariaDB (`mysql`,
`mariadb`), Redis, etcd, Qdrant, S3, Vault, Keycloak, Docker and Kubernetes (`kube`).
A plugin has *capabilities*; a call of one is a function of its inputs that answers a
page, or an error, once. Most only read. This project is about four things: what those
that write leave behind when something fails, is interrupted, or runs beside something
else; the reads that share something, a gate, a cache, a bound; what a page that grades a
server may say when some of it was not read and the rest was read at different moments;
and how a call reaches its server, what it is said to have failed of, and what its reader
is sent to do about it.

`PROJECT.json` has the exact lists: components, runs, the lines each definition
translates, hazards, findings, theorems. This file says what they mean.

1. [Inventory](#inventory)
2. [Modules](#modules-and-how-they-correspond-to-the-code)
3. [Runs, bounds and what they show](#runs-bounds-and-what-they-show)
4. [Fairness](#fairness)
5. [Disagreements found](#disagreements-found)
6. [Proofs](#proofs)
7. [What is not modelled](#what-is-not-modelled-and-why)
8. [Plan](#plan)

## Inventory

What every plugin has in common: it keeps no state between calls but a connection (kube
keeps two small in-memory tables, the gate and the certificate cache), a call carries its
caller's *context*, which ends when the caller goes or its deadline passes, and any number
of calls, in one process or several, meet at the server, at the cluster, or on the local
file system. Nothing here locks anything on a server: what keeps calls apart is an
exclusive create (`O_EXCL`, `mkdir`, `kubectl create`), a look before a write, or nothing.

| Part | State | Operations | Meets others at | What is hard | What makes it correct |
|---|---|---|---|---|---|
| s3 bucket download | the destination directory; a pool of workers, its channel, first failure | list, plan, mkdir, fetch all, remove or receipt | the directory | first failure cancels the rest; a cancelled dispatcher drops what is left; removal after all workers | a directory is one run's; a failed run leaves none; a success is everything listed |
| s3 object calls, upload | a bucket; a local file | set, get, rm, copy, rename; list, PUT many | keys of the bucket | look, then write; two requests for a rename; answers lost; PUTs sent again | nothing seen is replaced unasked; a rename removes what it moved and says what it did |
| kube service account | three objects and a token in a cluster; a credential file | provision, revoke | the name | three creates, three checked deletes, no transaction | a provision's set is its own; what a revoke found is gone |
| kubectl gate, per-namespace reads | places of the gate, the first cluster-wide failure | enter, look, ask, note, leave; make the page | the gate | a failure known while others wait | a dead cluster is asked as often as the gate is wide; no call is told what nobody met |
| certificate cache | entries by scope, each with a mutex and a time | find, read, reuse, drop, forget | two levels of mutex | a failed read against a new entry; waiting past the life | no stale answer, one read between callers, nothing leaked, no deadlock |
| dump (pg, mysql, qdrant, vault, etcd) | a path; for qdrant a copy on the server | look, describe, create, stream, check, answer; remove the copy | the path | O_EXCL after an early stat; an interrupt; a crash; damage in transit | a whole file or none; the server's copy accounted for |
| restore (pg, mysql, qdrant, vault) | a target | look at the file, at the target, run the tool, say | the file, the target | the file is being written; the target fills meanwhile; half a restore | a success is the whole of a backup; nothing seen is lost unasked |
| docker stop, restart, rm | containers and their names | inspect or list, then act | the daemon | a name moves, a container starts or goes between two commands; `--rm` | what is stopped is what was judged; nothing is removed unsaid |
| overviews and graded listings (all) | none | several reads, at once or in turn, each graded | the connection's bound | one read is refused or cut off; the server changes between two | what lasted is told, what never was is not, what was not read is said |
| kv and key trees (vault, redis, etcd, s3) | a cursor or a stack of prefixes | list until a limit | time and request bounds | the keyspace moves under the cursor | a partial tree is called partial |
| replication of mysql, mariadb, pg, redis, qdrant | none | grade what was read | - | boundaries, unknowns, negative lags | a replica that lags is never graded ok |
| connections (all) | a client, a session or a child; the dump's tool, which connects again | check the settings, dial, shake hands, send the secret, classify what failed, hand out the next call | the forward the host opens; the server, which changes | a retry that says nothing, a wait that nothing bounds; one failure said in many words; two programs that read one setting | the secret goes only where the settings allow; a call is answered; the cause was so; a refusal of a credential is one; a hint leads on |
| vault kv versions, transit, wrap | a secret's chain, on the server | one request each | the path | a deleted version hidden by a newer one | what undelete brings back is what delete hid |
| cnpg backup request | a Backup object | read the cluster, create | the cluster | the cluster changes in between | nothing is asked the operator would only fail |
| keycloak audit | none | several reads, one grade | the token | a read refused | a control that could not be read is not passed |

Three abstractions hold throughout. What a server or a tool does inside is not this
program's: its effect is one step, with every outcome it may have, its answer lost
included. Names, keys and payloads are model values; what matters of a payload is whether
it is whole. Wording is left out, but for what an answer asserts.

## Modules and how they correspond to the code

`TransferPool` (`s3/download.go` fetchAll, `s3/upload.go` putAll) is the worker pool both
bulk transfers have. The dispatcher hands an item to a worker or, once the pool's context
is done, drops it (`HandOver`, `Skip`), then closes the channel and joins. A worker records
its outcome under the pool's mutex, and the first failure cancels the context (`Record`).
Extended by:

* `S3Download`: listing, `destinationFor` as a given map of keys to paths (so that two keys
  may meet on one path, and some escape), the exclusive directory, the fetch of one object
  as open, write, outcome, and `FailRun`, which waits for every worker before it removes the
  directory, or `Receipt`. Several runs name one directory, and any may crash.
* `S3Bucket`: six calls about one object and the upload, on one bucket. A request is a
  step at the server; a call's is made once, an upload's PUT up to `Attempts` times, each
  of which may be applied with its answer lost. `touched` is what others wrote to a key
  since an actor looked at it: the window the comment on `refuseIfTaken` admits.

`ServiceAccount` (`kube/serviceaccount.go`): one action for each of a provision's three
creates, the mint, and the four steps of writing the credential out; one for each of a
revoke's reads and deletes. An object is its maker. `crossed` are the provisions a revoke
ran beside; a revoke remembers what it `read` for its ownership check and what it had
`seen` when it began.

`NamespaceReads` (`kube/kubectl.go` gate, `kube/overview.go`, `kube/overviewlist.go`,
`kube/namespacelist.go`, `cnpg/namespaces.go`): an answer made of several kubectl calls, each a
goroutine: wait for a place, look for a failure already known, ask, note a cluster-wide
failure, leave. `shape` says which of three pages is made of what the calls came to, and
`Settle` makes it.

`CertCache` (`kube/cert.go`): the two levels of mutex step by step, with a clock.

`DumpPromise` is the abstract specification of a dump: one path, who owns what is there,
whether it is complete, and what each dump's caller was told. It says that a dump claims
only a free path, completes it once, withdraws only what is its own and untold, and
answers success only over a complete file it owns.

`Dump` is the detailed one: the steps the five engines share, and for each engine the
order it takes them in (`PgDump`, `MysqlDump`, `QdrantDump`, `VaultSnapshot`,
`EtcdSnapshot`), so that a difference between them is a difference between five short
definitions: qdrant's copy on the server and its removal detached from the caller,
vault's check of sealed checksums, etcd's digest by the stream's length. `Promise` is the
refinement mapping and `KeepsPromise` the abstract specification as a property.

`Backup` extends it with the restores of the same path into one target: what the file
offers (`Restorable`), the refusals, the look at the target, and what the tool leaves when
it fails (`Transactional`, `Piecemeal`, `Replaced`), per engine and per flag.

`Docker` (`docker/containers.go`): a stop's inspect (`Inspect`, `InspectFails`), the
listing (`Find`), the command (`Act`), while the daemon's other users do what they do. A
call names a container by name; calls that name an id behave as a judged stop does and
are not enumerated. A restart, or a stop's grace, is one step.

`Overview` runs a page against its server: reads that are due are answered, with what the
server is at that moment, or come to nothing; the server moves from one of its states to
another between two reads; and when nothing is due the page is told. Which reads are due
after which (`Due`), which of them end the page (`Error`) and what the page is made of
(`Found`) are the page's own, each in a module of pure operators:

| Module | Pages | Code |
|---|---|---|
| `Findings` | what all of them are made of: a finding, its grade, the status | `redis/overview.go` and its like |
| `RedisPage` | `redis.overview`, `redis.cluster` | `overview.go`, `replication.go`, `shards.go` |
| `EtcdPage` | `etcd.overview`, and the members asked for it | `cluster.go`, `members.go` |
| `QdrantPage` | `qdrant.overview` | `cluster.go`, `replicas.go`, `collection.go` |
| `VaultPage` | `vault.overview` | `overview.go` |
| `KeycloakPage` | `keycloak.overview`, `keycloak.audit` | `overview.go`, `audit.go` |
| `ContainerPages` | `docker.overview`; `kube.overview`, of the cluster and of named namespaces | docker's `overview.go`, `containers.go`; kube's `overview*.go`, `workloads.go`, `node.go`, `quota.go`, `cert.go` |
| `S3Page` | `s3.overview` of one bucket and of many | `overview.go`, `overviewlist.go` |
| `PgPage` | `pg.overview`, replication included | `overview*.go`, `replication_*.go` |
| `MysqlPage` | `mysql.overview` and `mariadb.overview` with channels, Group Replication and Galera | `family/overview*.go`, `replication*.go`, `galera.go` |
| `CnpgPage` | `cnpg.list`, `cnpg.storage`, `cnpg.backup.show` | `main.go`, `cluster.go`, `settings.go`, `storage.go`, `backup*.go`, `namespaces.go` |

Beside what the page makes of a state, each says what is the case of it (`*Trouble`), from
the state and apart from the page's own grading, which of that is a failure (`*Fatal`),
and which troubles relate what several reads found (`*Relational`): of those a page that
read two states can promise nothing. `Overview` keeps what `lasted` and what `ever` was.

`Connect` runs a call from its settings to its answer: `Check` refuses what cannot work
before anything is dialled, `Dial` meets the server, `Login` sends the secret, `Read` is
keycloak's second request, `Tool` is a dump's child reaching the server again, `Run` is the
client kube, cnpg and docker run in place of all that, and eight actions are etcd's client,
which retries and never says why: New's connection and its token (`EtcdComesUp`,
`EtcdToken`, `EtcdTokenFails`), awaitConnection's own wait after it (`EtcdStaysUp`,
`EtcdFails`), the dial by hand that asks why (`EtcdSaysWhy`, `EtcdSaysNothing`) and the time
a connection is given to come up (`EtcdSettles`). A server gone silent after the dial is a
wait that runs out (`Answered`), or that nothing bounds (`NoBound`): what etcd is asked once
its connection is up, a database's statements, a dump's tool. Of a bound the model has that it ends a wait and what is told
then, not how long it is: how many bounds a call may spend one after another (etcd's New and
awaitConnection, redis's every round trip, each address pg tries) is not measured. A resolver that
does not answer gives up before the plugin's own bound does. Meanwhile the server may change, and after a refusal the
reader does what it says (`Follow`) and the call is made again. A reader gives a setting up
only where nothing else is left to try. Each plugin's reading of its settings
(`*Check`, `*Wire`), of what it met (`*Told`) and the call it hands out (`*Again`) are in
modules that share `Reach`:

| Module | Plugins | Code |
|---|---|---|
| `KeyValueReach` | redis, etcd | `redis/conn.go`, `etcd/conn.go` |
| `HttpReach` | qdrant, s3, vault, keycloak | `conn.go`, `client.go` |
| `SqlReach` | mysql, mariadb and pg; mysqldump, mariadb-dump, pg_dump, psql and the rest | `mysql/family/transport.go`, `conn.go`, `pin.go`, `dump.go`; `pg/transport*.go`, `conn.go` |
| `KubectlReach` | kube, cnpg, docker | `kube/kubectl.go`, `cnpg/kubectl.go`, `docker/dockercli.go` |

A *wire* is what was connected with: whether TLS, checked against which roots and which
name, with a client certificate or without. What the operator asked for is said a second
time, apart from how a plugin reads it (`Asked`), and what a code claims of the server
apart from how the plugin arrives at it (`Holds`). `Values` lists, for each plugin, what
each of its settings may be given as, and `ServerStates` what a server may be; that the
calls, settings and servers of an instance are of them is all `Connect` assumes
(`CallsAssumption`, `SettingsAssumption`, `ServersAssumption`), beside that the bound on
changes is a number (`BoundsAssumption`).

`MC*` modules hold instances for TLC and nothing else; `*_proofs` modules hold theorems.
Operators whose comment begins "Mutant:" are plausible bugs: replacing the definition they
precede by them has to break the property named for it in `PROJECT.json`.

## Runs, bounds and what they show

| Run | Instance | Why it is enough |
|---|---|---|
| `s3_download` | 2 runs, 2 workers, 4 keys (two of one path, one that escapes), limit 2 | Two runs meet at one directory; two workers are needed for a failure beside a write, and a limit below the listing for the refusal. A third worker only adds another that does what the second does. |
| `s3_bucket` | 2 calls of six, 3 keys, an upload of 2 files, each PUT sent at most twice | Every pair of a rename, a copy back, a set, a removal and a get, on keys they share with the upload. Two sends are one more than the first. |
| `kube_serviceaccount` | 2 provisions, 2 revokes, and somebody else who may make a Role of the name, once | A revoke races one provision while the other takes the name over; two revokes take each other's objects from under them; a foreign Role is what the ownership check is for. |
| `namespace_reads` | 3 namespaces, a gate of 2, at most 4 calls | More calls than places, and of them more than one that waits. |
| `kube_certcache` | 3 callers, 2 scopes and one that has no name, a life of 2 ticks in 4 | A caller to fail, one to wait for it, one to come after; time to grow old, twice. |
| `backup` | any engine; 2 dumps, or 1 dump and 2 restores, 1 thing of somebody else's (`Cast` in `MCBackup`) | One path has one owner, and a third dump would find what the second does. A restore beside the dump and one beside another; what it finds at the path one dump leaves as well as two. Where two dumps run, what only restores read has one value; where two restores do, no dump's caller goes and qdrant's server has no copy, which no restore reads. |
| `docker` | 2 calls, 2 containers, 2 names | A name that moves needs two containers; a call in the other's window needs two calls. |
| `overview` | 22 servers of 17 pages, each in 3 to 24 states; one change of the server, one read lost | The states differ in a thing or two at the boundaries of what the page grades, among them every trouble. One change is what two reads can disagree about; a second adds a third state to a page that mixes two already. The page of named namespaces, whose reads all run at once, is not changed under. |
| `connect` | 12 plugins; their settings a thing or two away from none; 18 to 22 servers; direct, through ssh and through a kube forward; one change of the server | Every class of a setting meets every server. A second change adds nothing a refusal that was followed does not: `tried` starts over with each. |
| `s3_download_cancelled`, `docker_stop_untold`, `connect_status` | as above, or smaller | Each has one property, taken from a comment or a description, that the code does not keep: see below. |

A bound that is not the code's has a name: the constants `Attempts`, `MaxCalls`, `MaxTime`,
`Claimable`, `MaxMoves`, `MaxFails` and `MaxChanges`, and `Cast` in `MCBackup`. Symmetry is used where the members are interchangeable and the properties
checked with it name none of them and are no liveness. Deadlock is not checked in any run:
every one ends, with its calls answered and nothing left to happen.

What each run shows:

* `s3_download`: a directory is one run's (`OneRunPerDirectory`), a run that failed left
  nothing (`FailedRunLeavesNothing`), a success its caller did not cancel is everything
  listed (`SuccessIsWhole`), the first failure is what is told (`CauseNotConsequence`), and
  a run told to stop does (`StopsOnceTold`).
* `s3_bucket`: the answers of a rename and of an upload are true of the bucket
  (`ChangesAreAsTold`), a `get`'s file is whole or gone, nothing an actor looked at is
  replaced unasked outside the admitted window, and what a rename removes it has copied.
* `kube_serviceaccount`: a provision's set is complete unless a revoke ran beside it, what
  a revoke found is gone, and neither another's object nor a credential already on disk is
  taken (`NothingElseIsTaken`).
* `namespace_reads`: a dead cluster is asked once per place of the gate, no call is told
  what nobody met, and a page is neither worse nor better than its reads (`PageIsItsReads`:
  a refused credential is the answer exactly when a read met it, and one namespace's failure
  spares its siblings).
* `kube_certcache`: one read between the callers of a scope, none reused past its life and
  none left of a read that failed (`SharedFreshOrGone`); a good one kept for its life; and
  every call returns.
* `backup`: a dump leaves a whole file or none (`DumpWholeOrGone`), accounts for the copy its
  server made (`CopyAccountedFor`), cleans up after an interrupt (`InterruptedDumpCleansUp`)
  and keeps the abstract promise (`KeepsPromise`); a restore that answers success restored the whole of a backup, an all-or-nothing
  restore of pg leaves all or nothing, nothing a restore saw in its target is lost unasked.
* `docker`: what is stopped is what was judged; what goes with a stop is told or refused.
* `overview`: `LastingIsTold`, `NoFalseAlarm`, `UnreadIsSaid`, `TokenIsSpared`. Their
  exceptions are in the text of the properties: a trouble that relates two reads is not
  judged where the server changed between them, and the reads a page makes without a word
  when they fail are listed (`Unsaid`).
* `connect`: no secret travels over less than the settings asked for (`SecretAsAsked`); what
  a code says of the server was so (`CauseWasSo`); a refusal of a credential is told exactly
  when the server refused one (`RefusalIsTold`); no hint leads out of the forward or round
  a revoked certificate (`AdviceKeepsClear`), and on a server that stays as it was each
  leads somewhere not refused already (`AdviceLeadsOn`); a call comes to an
  answer whatever becomes of its server, where it is not in a wait the code leaves unbounded
  (`CallsAreAnswered`); a dump's tool is refused nothing the plugin itself
  was given a moment before (`ToolConnectsToo`); and the call a hint hands out, pasted over
  any configuration, checks what this one checked (`HintReachesTheSame`). `CauseWasSo` leaves
  out by name the three misreadings told of below (`Misread`), of which `connect_status`
  shows the first, and one
  it cannot judge (`WentAgain`): an etcd member that came back while its client was given
  time to, and went again before the client tried, is told of as a wrong port.

Type invariants (`TypeOK`) are stated with every state machine but `Overview`, whose
variables range over the servers it is given, and `Connect`, whose `CallInv` says it of the
call, its settings and its servers and more besides. Each is proved where there is a proof
module; no run spends itself on one.

## Fairness

A goroutine that can run does, a mutex is given to one that waits, and of the rest only
what the code bounds is assumed to end:

* `S3Download!FairSpec`: a request whose context is done returns (`Interrupted`). Nothing is
  assumed of one somebody still waits for: a download has no deadline.
* `NamespaceReads!FairSpec`, `CertCache!FairSpec`: a kubectl call ends, after 15 s (kube) or
  20 s (cnpg) at the latest (`context.WithTimeout` in both `kubectl.go`).
* `Connect!FairSpec`: the call goes on wherever a bound runs: on every connection (`dialTimeout`,
  `connectTimeout`, `DialTimeout` on New, awaitConnection, the dial by hand, `settle`), on each
  of redis's round trips (`ioTimeout`), on an HTTP request (`requestTimeout`, or the vault and
  S3 libraries' own) and on a child that asks (`timeout` in the three command-line clients). Nothing is
  assumed where the code says there is none, on a silent server: etcd past its connection
  (`conn.go:74-87`), a statement of pg's or mysql's ("the connect is bounded, and nothing
  after it"), a dump's tool. The server need not change nor the reader follow.
* `Dump!Fairness`: qdrant's removal of its copy is bounded by `requestTimeout`, and a request
  whose caller has gone returns. Nothing is assumed of the server's own work.

A crash is never fair, and a liveness property says what it excuses.

## Disagreements found

* `s3_download_cancelled`: a download cancelled while its dispatcher waits drops the keys
  that are left, no worker fails, and the receipt counts the plan: a success over part of
  a bucket. `putAll` in `upload.go` has the same shape; the download stands for both.
* `docker_stop_untold`: a stop goes on by name when its inspect failed (for a person) or
  found no container (for an agent too). If the container was started with `--rm` it is
  removed, under a receipt that says `docker start` brings it back.
* `connect_status`: kube reads "dial tcp", "connection refused", "i/o timeout" and "connect:"
  anywhere in what kubectl wrote, so a status that quotes a dial, as one from an API behind
  the API server that is down, or from a webhook, is told as a cluster that cannot be
  reached, which closes the gate for every other read. The comment of `transportFailed`
  says a line that starts as a status never is one. cnpg reads the same words.

Noted and not run. On what is told, the other two of `Misread`, without which `CauseWasSo`
is violated:

* A resolver that did not answer redis in time is told as the server's timeout: the
  `*net.OpError`'s is read before the name's (`redis/conn.go:512`), against the comments on
  both, "The name before either, since a dial that could not resolve its host is a
  `*net.OpError` too" (507-508) and "says nothing of the name: the network is what failed"
  (519-521).
* With a username, a call in the clear to an etcd that takes TLS only (or with a client
  certificate it refuses) never has a connection. New ends in a bare deadline, the dial by
  hand gets through (`etcd/conn.go:199`), and the reader is told of a cluster that lost
  quorum, "which is a connection that came up and a token that did not" (187-188). Without
  a username awaitConnection tells the same failure as a wrong port.

On the changes:

* Two renames to one destination inside the admitted window destroy one of two objects,
  with both answering success.
* A revoke whose ServiceAccount is already gone refuses, though the Role and the RoleBinding
  are there (`serviceaccount.go:544`, against 144-146); and of a missing Role it says that it
  "exist[s] but [was] not created by" rta (602-605, against its comment at 609-613).
* A qdrant dump interrupted while its server makes the snapshot leaves it there, and nobody
  has its name (`dump.go:149-152`, against 304).
* An etcd stream that ends short with no error, at a length that is not 32 more than a
  multiple of 512, is reported as one the server gave no digest (`etcd/snapshot.go:410`).
* A restore pointed at a file a crashed dump left, or one still being written, takes it for
  a backup unless its own reader objects.

On the pages:

* etcd's quorum text says "one more" member may go where a member was only not reached.
* `redis.cluster` drops the offsets without a word when `CLUSTER SHARDS` is cut off
  (`redis/shards.go:69-72`); it says so when it is refused.
* keycloak's audit of the browser flow takes a step as enforced under a DISABLED sub-flow
  above it, if its own requirement is REQUIRED.
* A vault token whose own lookup failed is asked everything, whatever limit it has.
* A pg standby promoted between the server's facts and the receiver's is reported as one
  without a WAL receiver; `NoFalseAlarm` counts that among what relates two reads.
* `cnpg.list` goes on dating a cluster's last backup from a stanza that was removed.

On reaching a server:

* qdrant and s3 hand out `--tls` through a forward whose far end speaks TLS, and a call
  pasted with it opens no forward (`qdrant/conn.go:306-313`, `s3/client.go`, reachArgs).
  `HintReachesTheSame` leaves that case out by name.
* Through a forward, mysql's and pg's hint for a server without TLS names the setting the
  forward fills; and with `tls-server-name` given, the two ways on refuse one another.
* etcd's hint for the wrong port says to turn TLS on beside an `http://` endpoint, which is
  then refused; and New and awaitConnection may each spend the bound where the token comes
  late. Past both, a member gone silent hangs its call, as the comment on `dialTimeout` means
  it to.
* pg's handed-out call leaves out a CA found under the home directory; redis's leaves out a
  database 0 or a TLS turned off that were typed over a configured value.
* mysqldump's own connection has no bound.
* cnpg does not know kubectl's own sentence for a refused connection, and tells it as a
  failed command.

## Proofs

Each theorem holds for every value of the constants its module's assumptions allow: any
number of runs, calls, workers, keys, namespaces, dumps or containers.

* `S3Download_proofs`: `DownloadInv` says who may have what. Only a fetching run has
  workers, it owns the directory, every file there is its owner's, and while its context
  is live every planned key is pending, in a worker's hands or written whole. The last part
  is what `SuccessIsWhole` needs: at the receipt the channel is drained and the hands are
  empty. `CauseNotConsequence` needs that a context is done only by a recorded failure or
  the caller.
* `S3Bucket_proofs`: every actor of a bucket believes something of its keys that another may
  make false behind its back: a destination was free (`SeenOf`), a target held nothing
  (`ClearOf`), what was sent is there (`ThereOf`). Each is stated "or the key is in its
  `touched`". The argument is then one lemma for all of them (`CallTold`, `UploadTold`):
  another's step leaves a key as it was or puts it there, so each step has only its own
  actor's part to keep. That an upload's PUT leaves its other files alone rests on its files
  having different keys (`KeyOfAssumption`); that a successful one sent them all, on the
  pool's plan being pending, in hand or written, as in the download.
* `ServiceAccount_proofs`: what a revoke reported gone stays gone because a provision makes
  one object of a kind at most once. So the invariant relates three moments: what is live,
  or was seen, has a maker past making it, and a revoke past deleting a kind has removed
  what it saw. `ProvisionedIsComplete` is by `UncrossedHolds`: what a provision that no
  revoke has crossed has made so far is still there, and is its own. `WhatIsNotOursStays` is
  by `Taking`: a revoke at a deletion read a provisioned object of that kind, and a whole
  file has a maker.
* `NamespaceReads_proofs`: "a dead cluster is asked as often as the gate is wide" is about a
  set no variable holds, the calls that run kubectl or met a cluster-wide failure. Until the
  gate knows of one they all hold a place, because a failure is noted before its place is
  given up; after that none joins them, because it is looked for after the wait.
  `PageAnswered` is about the page: what each of its reads came to is kept until it is made,
  and each of the three ways of making it answers an error only where it must.
* `CertCache_proofs`: `CacheInv` relates the map and the callers. An entry is of one scope
  wherever it is found, its mutex is held by exactly the caller at work on it, and one in
  the map that is still empty has a caller which will fill it or take it out; so what is
  reused is young, and what is left is no read that failed.
* `Dump_proofs`: a dump past the creation of its file and not over owns what is at the path,
  what it knows of the server's copy bounds what is there, and each step of each engine is a
  step of `DumpPromise` or a stutter (`StepRefines`). `DumpImplementsPromise` is the
  refinement `KeepsPromise` checks in `backup`. The same module proves `Backup`: a step of a
  dump beside restores is a step of the dump alone, or none (`BackupIsDump`), so what is
  proved of dumps holds there too; `RestoreInv` adds that a file whose dump has answered is
  no part of one, that what a restore has put is what it told of, and that one that may not
  replace went on only past an empty target.
* `Docker_proofs`: a stop that judged a container is aimed at it by id; one that will remove
  its container is a person's, and the container still runs or has gone, since what was
  started with `--rm` is settled when it is made and never stops without going.
* `Connect_proofs`: for all settings the plugins' `Values` allow, every server of
  `ServerStates` and any number of changes of it. What each plugin's operators do is proved
  of each apart, in one lemma for what it connects with (`RedisDoes`, `PgDoes` and so on:
  never less than was asked), one for what its words mean (`RedisHonest`, ...), one for what
  it sends its reader to (`RedisAdvises`, `RedisLeaves`, ...) and one for the call it hands
  out (`RedisHint`, ...). The state machine then needs four invariants; the last
  three are inductive only beside the first:
  - `CallInv`: the settings stay its plugin's and a forward's whatever advice is followed,
    and past the check the connection is the one they ask for. Following advice makes it an
    invariant of what is *told* as well: each change a refusal names has to be one the
    plugin takes. `SecretAsAsked` follows from it.
  - `AlikeInv`: on a server that did not change, a connection that came up comes up again,
    and past the first answer nothing is refused (`ToolConnectsToo`).
  - `HonestInv`: what is told holds of one server the call *met* (`CauseWasSo`,
    `RefusalIsTold`), or is one of the failures `CauseWasSo` names. For etcd it has to say
    where in its waits a call is and what it has met by then: that a member is asked about
    again only for a failure it met, that a token was asked for of a member that gave none.
    A server changes under a call, so it is not the present one; and a
    change never takes back that a certificate was revoked, which pg's tool relies on, since
    it tells a revoked certificate from an untrusted one no more than libpq does.
  - `ClearInv`: what is told closes no forward and is no way round a certificate that was
    revoked (`AdviceKeepsClear`). Of a revocation one verdict comes, and every plugin's order
    of questions ends on it with nothing advised (`RevokedToldIs`).

  `HintReachesTheSame` needs `CallInv` alone: pasting is a `Put` of the given settings over
  the configured ones, and `Keeps` says of each plugin that a wire so made checks no less.

  Two things were found in proving them, both of the model. `ToolConnectsToo` was not so
  where the server changed twice, away and back, between the plugin's connection and its
  tool's: it now speaks of a server the call saw in one state only. And operators whose CASE
  arms overlapped, with the first meant to win, had no value that could be proved: they are
  IF ... ELSE IF in the order of the code.

Assumed of the environment, in the models and so in the proofs: nobody but its dump
touches a file while the dump is under way; ids are used once; a removed directory is
removed (`os.RemoveAll`'s error is discarded by the code, a listed hazard). Of the constants:
what they are (`RequestsAssumption`, the bounds), that no process is two
(`ActorsAssumption`, `MakersAssumption`, `NamesAssumption`), and that two files under one
directory become two keys, as `planUpload` makes a key of each file's path below it.

A property that is a conjunction says one thing in each part, and its proof is of the
parts: `PageIsItsReads` is `RefusalIsTheAnswer` (proved alone as `RefusalAnswered`) and
`SiblingsSpared`; `ChangesAreAsTold`, `SharedFreshOrGone` and `NothingElseIsTaken` are made
in the same way.

Only model-checked: every liveness property (`StopsOnceTold`, `Answered`, `EveryCallReturns`,
`InterruptedDumpCleansUp`, `CallsAreAnswered`), as fairness is out of the prover's reach; all of `Overview`, whose
pages are made by folds and selections over sequences, and what those compute for every
input takes an induction over data; and of `Connect` `AdviceLeadsOn`, which is of a reader's
whole history on one server (`tried`) and not of what a step keeps: it holds of servers that
differ from a plain one in a thing or two, as the run's do, while one that is wrong in many
things at once may send its reader from each to the next and round again.

## What is not modelled, and why

Reads that are one request and a table hold no state and have nothing to interleave:
listings, `get`s, `show`s, completions. Of the keyspaces (vault's and s3's trees, redis's
SCAN, etcd's ranges) neither the walk nor its bounds are modelled; a partial answer's being
called partial is left to the code's tests. The arithmetic of GTID sets
(`mysql/family/gtidset.go`) is given to `MysqlPage` as what a replica lacks. Vault's secrets,
their versions and wrapping are one request each, whose effect is Vault's. A cnpg backup
request is one read and one create: between the two the cluster may change, and what can no
longer be done the operator fails, visibly, on the Backup itself. `kube.context` is one
kubectl command, on a file kubectl locks. The declaration of capabilities, the wording of
errors and hints, the index and the manifests are data; what the `rta` host does (grants,
tunnels, profiles) is elsewhere, and here only as far as a forward fills the settings of the
call it carries.

## Plan

Done, in this order: the transfers, the service account, the reads and their cache, the
dumps with their abstract specification, the restores, docker; then the pages (`Overview`)
and the connections (`Connect`), each one state machine over the plugins' own modules; then
the proofs, of every safety property a run checks but those named under "Only model-checked".

Next:

1. Proofs: of `Overview`, `TokenIsSpared`, once which read comes next is said without
   `SelectSeq`.
2. Pure operators, each against a reference over bounded inputs: GTID sets against sets of
   transaction numbers, what a cnpg cluster can be backed up by.
3. The walks over a keyspace, beside writers: a partial answer is called partial, and what
   was there all along is listed.

The runs are few on purpose, one for a question.
