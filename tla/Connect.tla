------------------------------ MODULE Connect ------------------------------
(***************************************************************************)
(* A call reaching its server, and what its reader is told when it does    *)
(* not: the settings are checked, the server dialled, the handshake made,  *)
(* the secret sent, and for a dump a tool run that reaches the server a    *)
(* second time.  The server changes under the call, and the reader does    *)
(* what a refusal says and calls again.                                    *)
(***************************************************************************)
EXTENDS KeyValueReach, HttpReach, SqlReach, KubectlReach

CONSTANTS
  Calls,       \* [plugin, route, dump, tool]: what is called, and the tool a dump runs
  SettingsOf,  \* the settings a plugin's call is made with
  ServersOf,   \* the servers it meets
  MaxChanges   \* bound: changes of the server

Mysqls == {"mysql", "mariadb"}
Plugins == {"redis", "etcd", "qdrant", "s3", "pg"} \cup ByURL \cup Mysqls \cup Programs

\* What each setting of a plugin may be given as.  One it does not have is at what stands for none.
Values(plugin) ==
  LET only(plugins, values, none) == IF plugin \in plugins THEN values ELSE {none} IN
  [mode    |-> CASE plugin \in Mysqls -> {"false", "preferred", "skip-verify", "verify-ca", "true"}
                 [] plugin = "pg"      -> {"disable", "prefer", "require", "verify-ca", "verify-full"}
                 [] plugin \in ByURL \cup Programs -> {"off"}
                 [] OTHER              -> {"off", "on"},
   scheme  |-> CASE plugin = "etcd"    -> {"bare", "http", "https"}
                 [] plugin \in ByURL   -> {"http", "https"}
                 [] OTHER              -> {"bare"},
   host    |-> {"name", "address", "dash"},
   far     |-> {"none", "tls"},
   ca      |-> only(Plugins \ Programs, {"none", "issuer", "other", "bad"}, "none") \cup (IF plugin = "pg" THEN {"system"} ELSE {}),
   name    |-> only(Plugins \ Programs, {"none", "right", "wrong"}, "none"),
   pair    |-> only({"redis", "etcd", "pg"}, {"none", "cert", "key", "both", "torn"}, "none"),
   home    |-> only({"pg"}, {"none", "root", "crl"}, "none"),
   secret  |-> {"none", "p", "q"},
   context |-> only(Programs, {"none", "right", "wrong", "dash"}, "none"),
   scope   |-> {"own", "named", "every", "both"}]

Fields == {"mode", "scheme", "host", "far", "ca", "name", "pair", "home", "secret", "context", "scope"}

\* What a server may be.
ServerStates ==
  [reach : {"silent", "mute", "refuses", "no route", "no name", "no resolver", "answers"},
   tls : {"none", "optional", "only"}, issuer : {"own", "public", "nobody"}, names : {"host", "other", "nobody"},
   revoked : BOOLEAN, pair : {"none", "wants", "other"}, secret : {"none", "p", "q"}, grants : BOOLEAN, ready : BOOLEAN,
   machine : {"ready", "no client", "no config", "none current", "astray"},
   helper : {"ready", "lapsed", "missing", "dropped"},
   serves : {"it", "no type", "no resource", "nothing behind", "no object"},
   redirects : BOOLEAN, old : BOOLEAN, skewed : BOOLEAN, plainly : {"says so", "alerts", "hangs up"}]

ASSUME BoundsAssumption == MaxChanges \in Nat

\* A database alone is dumped by a tool, and a client that is run opens no forward.
IsCall(c) ==
  /\ c.plugin \in Plugins /\ c.route \in {"direct"} \cup Forwards /\ c.dump \in BOOLEAN
  /\ c.dump => c.plugin \in Mysqls \cup {"pg"}
  /\ c.plugin \in Programs => c.route = "direct"

ASSUME CallsAssumption == \A c \in Calls : IsCall(c)

ASSUME SettingsAssumption ==
  \A p \in Plugins : \A s \in SettingsOf[p] : DOMAIN s = Fields /\ \A f \in Fields : s[f] \in Values(p)[f]

ASSUME ServersAssumption == \A p \in Plugins : ServersOf[p] \subseteq ServerStates

VARIABLES call, settings, server, changes, pc, asking, wire, met, err, sent, seen, told, tried

vars == <<call, settings, server, changes, pc, asking, wire, met, err, sent, seen, told, tried>>

---------------------------------------------------------------------------
(* The plugin's own part of a call. *)

\* The host fills what a forward ends at: the address, and how it speaks there.
Fill(s, c) ==
  IF c.route \notin Forwards THEN s
  ELSE [s EXCEPT !.host = "address",
          !.scheme = IF c.plugin \in ByURL THEN IF s.far = "tls" THEN "https" ELSE "http" ELSE "bare",
          !.mode = CASE c.plugin \in Mysqls -> "false"
                     [] c.plugin = "pg"      -> "disable"
                     [] OTHER                -> IF s.far = "tls" THEN "on" ELSE "off"]

\* What is refused before anything is dialled.
Checked(s, c) ==
  CASE c.plugin = "redis"            -> RedisCheck(s)
    [] c.plugin = "etcd"             -> EtcdCheck(s)
    [] c.plugin \in {"qdrant", "s3"} -> BundleRefused(s)
    [] c.plugin = "vault"            -> VaultCheck(s, c.route)
    [] c.plugin = "keycloak"         -> KeycloakCheck(s, c.route)
    [] c.plugin \in Mysqls          -> MysqlCheck(s, c.route)
    [] c.plugin = "pg"               -> PgCheck(s, c.route)
    [] c.plugin \in {"kube", "cnpg"} -> KubectlCheck(s)
    [] c.plugin = "docker"           -> DockerCheck(s)

ToolChecked(s, c) ==
  IF c.dump /\ c.plugin \in Mysqls THEN MysqlChildCheck(s)
  ELSE IF c.dump /\ c.plugin = "pg" THEN PgChildCheck(s, c.route)
  ELSE Unrefused

WireOf(s, c) ==
  CASE c.plugin = "redis"   -> RedisWire(s)
    [] c.plugin = "etcd"    -> EtcdWire(s)
    [] c.plugin = "qdrant"  -> SwitchWire(QdrantTLS(s), s)
    [] c.plugin = "s3"      -> SwitchWire(S3TLS(s), s)
    [] c.plugin \in ByURL   -> UrlWire(s)
    [] c.plugin \in Mysqls -> MysqlWire(s, c.route)
    [] c.plugin = "pg"      -> PgWire(s, c.route)
    [] c.plugin \in Programs -> ProgramWire(s)

ToolWire(s, c) ==
  CASE c.plugin = "mysql"   -> MysqlArgs(s, c.route)
    [] c.plugin = "mariadb" -> MariadbArgs(s, c.route, c.tool)
    [] c.plugin = "pg"      -> PgChildArgs(s, c.route, c.tool)

Answers(s, c, srv) ==
  CASE c.plugin = "redis"    -> RedisAnswers(s, srv)
    [] c.plugin = "etcd"     -> EtcdAnswers(s, srv)
    [] c.plugin = "qdrant"   -> QdrantAnswers(s, srv)
    [] c.plugin = "s3"       -> S3Answers(s, srv)
    [] c.plugin = "vault"    -> VaultAnswers(s, srv)
    [] c.plugin = "keycloak" -> KeycloakIssues(s, srv)
    [] c.plugin \in Mysqls  -> MysqlAnswers(s, srv)
    [] c.plugin = "pg"       -> PgAnswers(s, srv)

Told(e, s, c) ==
  CASE c.plugin = "redis"    -> RedisTold(e, s, c.route)
    [] c.plugin = "etcd"     -> EtcdTold(e, s, c.route)
    [] c.plugin = "qdrant"   -> QdrantTold(e, s, c.route)
    [] c.plugin = "s3"       -> S3Told(e, s, c.route)
    [] c.plugin = "vault"    -> VaultTold(e, s, c.route)
    [] c.plugin = "keycloak" -> KeycloakTold(e, s, c.route)
    [] c.plugin \in Mysqls  -> MysqlTold(e, s, c.route)
    [] c.plugin = "pg"       -> PgTold(e, s, c.route)

ToolTold(e, s, c) == IF c.plugin = "pg" THEN PgChildTold(e, s) ELSE MysqlChildTold(e, s)

\* What a call handed to the reader is given.
Again(s, c) ==
  CASE c.plugin = "redis"    -> RedisAgain(s)
    [] c.plugin = "etcd"     -> EtcdAgain(s, c.route)
    [] c.plugin = "qdrant"   -> QdrantAgain(s)
    [] c.plugin = "s3"       -> S3Again(s)
    [] c.plugin = "vault"    -> VaultAgain(s, c.route)
    [] c.plugin = "keycloak" -> KeycloakAgain(s, c.route)
    [] c.plugin \in Mysqls  -> MysqlAgain(s, c.route)
    [] c.plugin = "pg"       -> PgAgain(s, c.route)
    [] c.plugin \in {"kube", "cnpg"} -> KubectlAgain(s)
    [] c.plugin = "docker"   -> DockerAgain(s)

---------------------------------------------------------------------------
(* What a connection meets. *)

\* The dial.
Dialled(srv) ==
  CASE srv.reach = "no resolver" -> {"dns", "dns timeout"}
    [] srv.reach = "no name"     -> {"dns"}
    [] srv.reach = "refuses"     -> {"refused"}
    [] srv.reach = "no route"    -> {"unroutable"}
    [] srv.reach = "silent"      -> {"deadline", "timeout"}
    [] srv.reach \in {"mute", "answers"} -> {}

\* A call in the clear to a server that takes TLS only, and TLS to one that has none.
InTheClear(c, srv) ==
  CASE c.plugin = "redis"   -> {"eof"}
    [] c.plugin = "etcd"    -> {"transient"}
    [] c.plugin \in Mysqls -> {"3159"}
    [] c.plugin = "pg"      -> {"no encryption"}
    [] OTHER                -> PlainMet(srv)
NoTLSThere(c) == IF c.plugin \in Mysqls THEN {"notls"} ELSE IF c.plugin = "pg" THEN {"nossl"} ELSE {"record"}

Shaken(c, w, srv) ==
  LET verdict == Verdict(srv, w, c.route) IN
  IF srv.reach = "mute" THEN {"deadline", "timeout"}
  ELSE IF w.tls = "no" THEN IF srv.tls = "only" THEN InTheClear(c, srv) ELSE {}
  ELSE IF srv.tls = "none" THEN IF w.tls = "must" THEN NoTLSThere(c) ELSE {}
  ELSE IF verdict # {} THEN verdict
  ELSE IF PairTaken(srv, w) THEN {}
  ELSE IF c.plugin = "pg" THEN {"valid client certificate"} ELSE {"alert"}

Meets(c, w, srv) ==
  IF srv.reach = "mute" \/ Dialled(srv) = {} THEN Shaken(c, w, srv) ELSE Dialled(srv)

\* What the secret travels over.
Channel(w, srv) ==
  IF w.tls = "must" \/ (w.tls = "may" /\ srv.tls # "none") THEN [w EXCEPT !.tls = "must"] ELSE Plain

---------------------------------------------------------------------------
(* A call. *)

\* An address, which is what a forward ends at, is not looked up.
Init ==
  /\ call \in Calls
  /\ \E s \in SettingsOf[call.plugin] : settings = Fill(s, call)
  /\ server \in ServersOf[call.plugin]
  /\ settings.host = "address" => server.reach \notin {"no name", "no resolver"}
  /\ changes = 0 /\ pc = "check" /\ asking = "plugin" /\ wire = Plain /\ met = server
  /\ err = {} /\ sent = {} /\ seen = {server} /\ told = Unrefused /\ tried = {}

End(e, refusal) ==
  /\ err' = e
  /\ told' = refusal
  /\ pc' = "told"

\* The settings are checked, and the tool's among them, before anything is dialled.
Check ==
  LET refused == IF Checked(settings, call) # Unrefused THEN Checked(settings, call) ELSE ToolChecked(settings, call) IN
  /\ pc = "check"
  /\ wire' = WireOf(settings, call)
  /\ met' = server /\ seen' = {server} /\ asking' = "plugin"
  /\ IF refused # Unrefused THEN End({}, refused)
     ELSE pc' = "dial" /\ err' = {} /\ told' = Unrefused
  /\ UNCHANGED <<call, settings, server, changes, sent, tried>>

\* The connection is made, within a bound.
Dial ==
  LET e == Meets(call, wire, server) IN
  /\ pc = "dial" /\ call.plugin \notin {"etcd"} \cup Programs
  /\ met' = server
  /\ IF e = {} THEN pc' = "login" /\ UNCHANGED <<err, told>>
     ELSE End(e, Told(e, settings, call))
  /\ UNCHANGED <<call, settings, server, changes, asking, wire, sent, seen, tried>>

\* What comes after an answer that is no refusal.
Onward == IF call.plugin = "keycloak" /\ pc = "login" THEN "read" ELSE IF call.dump THEN "tool" ELSE "done"

\* A server that takes a connection, or holds one, and says nothing.
Silent(srv) == srv.reach \in {"silent", "mute"}

\* What is asked over a connection that came up meets a server gone silent, which is given up on
\* where a bound runs, and one that dropped the connection.
Answered(answers) ==
  IF server.reach = "answers" THEN answers
  ELSE IF Silent(server) THEN {"deadline", "timeout"}
  ELSE IF call.plugin = "etcd" THEN {"Unavailable"}
  ELSE {"eof"}

\* etcd bounds the wait for a connection and nothing past it: a call waits for as long as a member
\* says nothing.
Waits == call.plugin = "etcd" /\ Silent(server)

\* The secret is sent, with the first of what is asked or ahead of it.
Login ==
  LET e == Answered(Answers(settings, call, server))
      over == {Channel(wire, met)} \cup (IF "redirect" \in e /\ FollowsRedirects(call.plugin) THEN {Plain} ELSE {}) IN
  /\ pc = "login" /\ ~Waits
  /\ sent' = IF settings.secret = "none" THEN sent ELSE sent \cup over
  /\ IF e = {} THEN pc' = Onward /\ UNCHANGED <<err, told>>
     ELSE End(e, Told(e, settings, call))
  /\ UNCHANGED <<call, settings, server, changes, asking, wire, met, seen, tried>>

\* keycloak: a read, with the token that was issued.
Read ==
  LET first == Answered(KeycloakAnswers(server)) IN
  /\ pc = "read"
  /\ IF first = {} THEN pc' = Onward /\ UNCHANGED <<err, told>>
     ELSE LET e == IF "401 token" \in first THEN KeycloakPage(first, TRUE) ELSE first IN End(e, Told(e, settings, call))
  /\ UNCHANGED <<call, settings, server, changes, asking, wire, met, sent, seen, tried>>

\* What the tool meets: a kubectl forward that did not outlive TLS to pg, the server, or its own
\* client's want of a file.
ToolMeets(w) ==
  LET same == <<server.issuer, server.names>> = <<met.issuer, met.names>> IN
  IF call.plugin = "pg" /\ call.route = "kube" /\ wire.tls # "no" THEN {"refused"}
  ELSE IF Dialled(server) # {} THEN Dialled(server)
  ELSE CASE w.roots = "given"       -> {"no CA"}
         [] w.roots = "system file" -> {"no file"}
         [] w.roots = "pinned"      -> IF same THEN {} ELSE {"pin"}
         [] OTHER                   -> Shaken(call, w, server)

\* A dump's tool, which reaches the server again.
Tool ==
  LET w == ToolWire(settings, call)
      e == IF ToolMeets(w) # {} THEN ToolMeets(w) ELSE Answers(settings, call, server) IN
  /\ pc = "tool"
  /\ asking' = "tool"
  /\ wire' = w
  /\ sent' = IF ToolMeets(w) = {} /\ settings.secret # "none" THEN sent \cup {Channel(w, server)} ELSE sent
  /\ IF e = {} THEN pc' = "done" /\ UNCHANGED <<err, told>> ELSE End(e, ToolTold(e, settings, call))
  /\ UNCHANGED <<call, settings, server, changes, met, seen, tried>>

\* run: the client is run once, and what it wrote is read when it ends or is ended.
Run ==
  /\ pc = "dial" /\ call.plugin \in Programs
  /\ \E e \in ProgramMeets(settings, call, server) :
       /\ IF e = {} THEN pc' = "done" /\ UNCHANGED <<err, told>>
          ELSE End(e, ProgramTold(e, settings, call.plugin))
  /\ met' = server
  /\ UNCHANGED <<call, settings, server, changes, asking, wire, sent, seen, tried>>

---------------------------------------------------------------------------
(* etcd, whose client retries a connection that failed and never says why. *)

EtcdUp == Meets(call, wire, server) = {}

\* clientv3.New asks for a token of a user, ahead of anything else.
User == settings.secret # "none"

\* New, awaitConnection: the client's own attempt comes up.
EtcdComesUp ==
  /\ call.plugin = "etcd" /\ pc \in {"dial", "settle"}
  /\ EtcdUp
  /\ pc' = IF pc = "dial" /\ User THEN "token" ELSE "login"
  /\ met' = server
  /\ UNCHANGED <<call, settings, server, changes, asking, wire, err, sent, seen, told, tried>>

\* New: the token, which a member alone cannot give where its cluster has lost quorum.
EtcdToken ==
  LET e == Answered(EtcdAnswers(settings, server)) IN
  /\ pc = "token" /\ ~Waits
  /\ server.reach = "answers" => server.ready
  /\ sent' = sent \cup {Channel(wire, met)}
  /\ IF e = {} THEN pc' = "await" /\ UNCHANGED <<err, told>>
     ELSE End(e, EtcdTold(e, settings, call.route))
  /\ UNCHANGED <<call, settings, server, changes, asking, wire, met, seen, tried>>

\* connectWithin: the bound runs out on New, with no connection up or with no token over the one
\* that is.
EtcdTokenFails ==
  /\ call.plugin = "etcd" /\ User
  /\ \/ pc = "dial" /\ ~EtcdUp /\ UNCHANGED sent
     \/ /\ pc = "token" /\ (Waits \/ (server.reach = "answers" /\ ~server.ready))
        /\ sent' = sent \cup {Channel(wire, met)}
  /\ pc' = "why no token"
  /\ UNCHANGED <<call, settings, server, changes, asking, wire, met, err, seen, told, tried>>

\* awaitConnection, after New: the connection the token came over is up still, or nothing says
\* that it is not.
EtcdStaysUp ==
  /\ pc = "await"
  /\ pc' = "login"
  /\ UNCHANGED <<call, settings, server, changes, asking, wire, met, err, sent, seen, told, tried>>

\* (Mutant: the wait has no bound of its own.)
EtcdFailsUnbounded ==
  /\ call.plugin = "etcd" /\ ~EtcdUp
  /\ pc = "await" \/ (pc = "dial" /\ ~User)
  /\ "deadline" \notin Meets(call, wire, server)
  /\ pc' = "why"
  /\ UNCHANGED <<call, settings, server, changes, asking, wire, met, err, sent, seen, told, tried>>

\* awaitConnection: the first failure is asked about, and a server that says nothing has the bound
\* run out with none.  New has spent a bound of its own by then, where there is a user.
EtcdFails ==
  /\ call.plugin = "etcd" /\ ~EtcdUp
  /\ pc = "await" \/ (pc = "dial" /\ ~User)
  /\ IF "deadline" \in Meets(call, wire, server)
     THEN End(Meets(call, wire, server), EtcdNoConnection)
     ELSE pc' = "why" /\ UNCHANGED <<err, told>>
  /\ UNCHANGED <<call, settings, server, changes, asking, wire, met, sent, seen, tried>>

\* dial: the member dialled once more by hand, a handshake and nothing past it.
ByHand ==
  LET e == Meets(call, wire, server) IN
  IF wire.tls = "no" THEN Dialled(server)
  ELSE IF Dialled(server) # {} THEN Dialled(server)
  ELSE IF e \subseteq {"alert"} THEN {}
  ELSE e \cup {"handshake"}

\* connectWithin, awaitConnection: what the dial by hand says, or that it says nothing either.
EtcdSaysWhy ==
  /\ pc \in {"why", "why no token"} /\ ByHand # {}
  /\ End(ByHand, IF "deadline" \in ByHand THEN EtcdNoConnection ELSE EtcdTold(ByHand, settings, call.route))
  /\ UNCHANGED <<call, settings, server, changes, asking, wire, met, sent, seen, tried>>

\* The dial by hand gets through: New's own error, a deadline and nothing else, is the answer, and
\* awaitConnection gives the client until its next attempt.
EtcdSaysNothing ==
  /\ pc \in {"why", "why no token"} /\ ByHand = {}
  /\ IF pc = "why" THEN pc' = "settle" /\ UNCHANGED <<err, told>>
     ELSE End({"deadline"}, EtcdTold({"deadline"}, settings, call.route))
  /\ UNCHANGED <<call, settings, server, changes, asking, wire, met, sent, seen, tried>>

\* awaitConnection: still down once it had time to come up, or at the end of a bound that a server
\* slow to fail has run down.
EtcdSettles ==
  /\ pc = "settle" /\ ~EtcdUp
  /\ \/ End({"protocol"}, EtcdWrongPort(settings, call.route))
     \/ (\E srv \in seen : Silent(srv)) /\ End({"deadline", "timeout"}, EtcdNoConnection)
  /\ UNCHANGED <<call, settings, server, changes, asking, wire, met, sent, seen, tried>>

---------------------------------------------------------------------------
(* The server, and the reader. *)

\* The server is restarted, turned off, given another secret, or answered for by something else.
Changed(srv) ==
  {[srv EXCEPT !.reach = r] : r \in {"answers", "refuses", "silent"}}
    \cup {[srv EXCEPT !.secret = p] : p \in {"p", "q"}}
    \cup {[srv EXCEPT !.ready = ~srv.ready], [srv EXCEPT !.issuer = "nobody"], [srv EXCEPT !.skewed = TRUE]}

ServerChanges ==
  /\ pc \notin {"told", "done", "check"} /\ changes < MaxChanges
  /\ \E srv \in Changed(server) \ {server} : server' = srv /\ seen' = seen \cup {srv}
  /\ changes' = changes + 1
  /\ tried' = {}
  /\ UNCHANGED <<call, settings, pc, asking, wire, met, err, sent, told>>

\* What a forward fills, given beside one: no forward is opened, and the call goes elsewhere.
Astray(change) == call.route \in Forwards /\ DOMAIN change \cap {"mode", "scheme", "host"} # {}

\* A setting given up, which its reader does only where nothing else is left to do.
GivesUp(change) == \E f \in DOMAIN change : change[f] \in {"off", "none", "false", "disable"}

\* The reader does what the refusal says, and calls again.
Follow ==
  /\ pc = "told"
  /\ \E change \in told.advice :
       /\ \/ ~GivesUp(change)
          \/ \A other \in told.advice : GivesUp(other)
       /\ IF Astray(change) THEN pc' = "astray" /\ UNCHANGED settings
          ELSE pc' = "check" /\ settings' = Fill(Change(settings, change), call)
       /\ tried' = tried \cup {settings}
  /\ sent' = {}
  /\ UNCHANGED <<call, server, changes, asking, wire, met, err, seen, told>>

\* A step of the call itself.
Step ==
  \/ Check \/ Run \/ Dial \/ Login \/ Read \/ Tool
  \/ EtcdComesUp \/ EtcdToken \/ EtcdTokenFails \/ EtcdStaysUp \/ EtcdFails
  \/ EtcdSaysWhy \/ EtcdSaysNothing \/ EtcdSettles

Next == Step \/ ServerChanges \/ Follow

Spec == Init /\ [][Next]_vars

\* What a server gone silent may be waited for without end: what etcd is asked, the statements of
\* a database once its connection is up, and a dump's tool.
NoBound ==
  Silent(server) /\ (pc = "tool" \/ (pc = "login" /\ call.plugin \in {"etcd", "pg"} \cup Mysqls))

\* A call goes on wherever a bound runs.  A server need not change, nor a reader do what they are
\* told.
FairSpec == Spec /\ WF_vars(Step /\ ~NoBound)

---------------------------------------------------------------------------
(* What the operator asked for, said apart from how a plugin reads it. *)

\* The settings that mean nothing without TLS ask for it, beside the mode that does; where a mode
\* says how much, a CA or a client certificate asks for more over a forward alone.
AskedTLS(s, c) ==
  \/ s.mode \in {"on", "skip-verify", "require", "verify-ca", "true", "verify-full"}
  \/ c.plugin \in ByURL \cup {"etcd"} /\ s.scheme = "https"
  \/ s.name # "none"
  \/ (s.ca # "none" \/ s.pair \in {"cert", "both", "torn"}) /\ (c.plugin \notin Mysqls \cup {"pg"} \/ c.route \in Forwards)

\* A mode that says so checks less.
Asked(s, c) ==
  IF ~AskedTLS(s, c) THEN Plain
  ELSE Over(IF s.ca # "none" THEN Roots(s.ca) ELSE IF s.mode \in {"skip-verify", "require"} THEN "any" ELSE "public",
            IF s.mode \in {"skip-verify", "require", "verify-ca"} THEN "any" ELSE NameOr(s, "host"), FALSE)

\* SecretAsAsked: no password or token travels over a connection checked less than the settings
\* ask, by the plugin or by the tool it runs: not in the clear, not to a server whose chain or
\* name was not verified as asked, and never to where a redirect points.
SecretAsAsked == \A over \in sent : ChecksAsMuch(over, Asked(settings, call))

---------------------------------------------------------------------------
(* What the reader is told. *)

\* A server that is down, or not where it is said to be.
Dropped(srv) == srv.reach # "answers" /\ ~Silent(srv)

\* What a code says of a server, reached with w by a call c made with s; over is the server the
\* connection was made to.
Holds(code, srv, c, s, w, over) ==
  CASE code = "timeout"           -> Silent(srv) \/ (c.plugin = "etcd" /\ ~srv.ready)
    [] code = "host.unknown"      -> srv.reach \in {"no name", "no resolver"}
    [] code = "conn.unreachable"  -> srv.reach = "no route"
    [] code = "conn.refused"      -> srv.reach = "refuses"
    [] code = "conn.closed"       -> Dropped(srv) \/ (w.tls = "no" /\ srv.tls = "only")
    [] code \in {"tls.name", "tls.forward"} -> srv.tls # "none" /\ (~NameHolds(srv, w, c.route) \/ srv.names = "nobody")
    [] code = "tls.untrusted"     -> srv.tls # "none" /\ ~ChainHolds(srv, w)
    [] code = "tls.rejected"      -> srv.tls # "none" /\ Verdict(srv, w, c.route) # {}
    [] code = "tls.unsupported"   -> srv.tls = "none"
    [] code \in {"tls.required", "tls.expected"} -> srv.tls = "only" /\ w.tls = "no"
    [] code = "tls.failed"        -> srv.tls = "none"
    [] code = "conn.protocol"     -> Dialled(srv) = {} /\ Meets(c, w, srv) # {}
    [] code = "tls.changed"       -> <<srv.issuer, srv.names>> # <<over.issuer, over.names>>
    [] code = "tls.client.required"    -> srv.pair # "none" /\ ~w.pair
    [] code = "tls.client.auth.failed" -> srv.pair # "none" /\ w.pair
    [] code = "auth.failed"       -> s.secret # srv.secret
    [] code = "auth.required"     -> s.secret = "none" /\ srv.secret # "none"
    [] code = "auth.unneeded"     -> srv.secret = "none"
    [] code = "token.auth.failed" -> srv.skewed
    [] code = "denied"            -> ~srv.grants \/ (c.plugin \in {"vault", "s3"} /\ s.secret # srv.secret)
    [] code \in {"loading", "sealed"} -> ~srv.ready
    [] code = "unavailable"       -> ~srv.ready \/ Dropped(srv)
    [] code = "unreachable"       -> \/ srv.reach # "answers" \/ srv.issuer = "nobody"
                                     \/ srv.machine \in {"no config", "none current"}
    [] code = "client.missing"    -> srv.machine = "no client"
    [] code = "noconfig"          -> srv.machine = "no config"
    [] code = "context.none"      -> \/ srv.machine = "none current"
                                     \/ c.plugin = "cnpg" /\ (srv.machine \in {"no config", "astray"} \/ s.context = "wrong")
    [] code = "context.unknown"   -> s.context = "wrong" \/ srv.machine = "astray"
    [] code \in {"login", "credential.missing"} -> srv.helper # "ready"
    [] code = "crd.missing"       -> srv.serves = "no type"
    [] code = "resource.unserved" -> srv.serves = "no resource"
    [] code = "cluster.missing"   -> srv.serves = "no object"
    [] code = "notfound"          -> srv.serves \in {"no object", "no resource"}
    [] code \in {"redirected", "redirect.refused"} -> srv.redirects
    [] OTHER                      -> TRUE

\* StatusIsAnAnswer: a status is an answer, and a cluster that gave one is not told of as one that
\* could not be reached: "a line that starts as a status is never one of these"
\* (kube/kubectl.go:588), the transport's failures.
StatusIsAnAnswer == pc = "told" /\ "status" \in err => told.code # "unreachable"

\* The three ways in which a failure is misread, each against a comment beside it: a status that
\* quotes a dial (StatusIsAnAnswer); a resolver that did not answer redis, which "says nothing of
\* the name: the network is what failed" (redis/conn.go:519-521) and is told as the server's
\* timeout; and a bare deadline, told as a cluster that lost quorum, "which is a connection that
\* came up and a token that did not" (etcd/conn.go:187-188), of a token nobody was asked for.
Misread ==
  \/ {"status", "dial tcp"} \subseteq err
  \/ call.plugin = "redis" /\ "dns" \in err
  \/ call.plugin = "etcd" /\ err = {"deadline"} /\ sent = {}

\* A member that came back while its client was given time to, and went again.
WentAgain == told.code = "conn.protocol" /\ changes > 1

\* CauseWasSo: a failure is said to be what it was: what the code says of the server held of it at
\* some moment of the call, a member asked why a second time included.
CauseWasSo ==
  pc = "told" => Misread \/ WentAgain \/ \E srv \in seen : Holds(told.code, srv, call, settings, wire, met)

\* The words in which a server turns down what a call presents.
TurnedDown ==
  {"WRONGPASS", "ERR invalid", "NOPERM", "Unauthenticated", "PermissionDenied", "401", "401 token", "403",
   "SignatureDoesNotMatch", "AccessDenied", "1045", "1142", "28P01", "42501", "Unauthorized", "forbidden",
   "permission denied"}

\* RefusalIsTold: a dashboard stops asking where a code says a credential was refused
\* (view.Error.CredentialRefused): a call is answered with such a code exactly when the server
\* turned down what it presented, never for a server that was loading, asked for TLS or for a
\* certificate nobody presented, nor for a credential plugin that had none to present.
RefusalIsTold ==
  pc = "told" =>
    (told.code \in {"auth.failed", "denied", "token.auth.failed", "tls.client.auth.failed"}
       <=> (\/ err \cap TurnedDown # {} /\ "getting credentials" \notin err
            \/ ("valid client certificate" \in err /\ settings.pair = "both")))

\* AdviceKeepsClear: no refusal sends its reader round a certificate that was revoked, nor to what
\* closes the forward the call came through.  A server without TLS is apart: what asked for TLS is
\* the reader's to give up, one setting after another.
AdviceKeepsClear ==
  pc = "told" /\ told.advice # {} =>
    /\ "revoked" \notin err
    /\ told.code = "tls.unsupported" \/ \A change \in told.advice : ~Astray(change)

\* AdviceLeadsOn: on a server that stays as it was, a refusal that sends its reader on sends them
\* somewhere not refused already.  A server without TLS is apart again.
AdviceLeadsOn ==
  pc = "told" /\ told.advice # {} =>
    \/ \E change \in told.advice : Fill(Change(settings, change), call) \notin tried
    \/ server.tls = "none" /\ AskedTLS(settings, call)

\* CallsAreAnswered: a call comes to an answer, however the server fails under it and whenever: a
\* connection that never comes up, a token that is never given, a dial by hand that gets through, a
\* server that goes silent.  What no bound is meant to hold is apart, once a connection is up.
CallsAreAnswered == []<>(pc \in {"told", "done", "astray"} \/ NoBound)

\* ToolConnectsToo: a dump's or a restore's tool is refused nothing, by a server that did not
\* change, that the plugin's own connection a moment before was given: it fails alone for what its
\* own client wants and is told of.
ToolConnectsToo == pc = "told" /\ asking = "tool" /\ seen = {server} => err \in {{"no CA"}, {"no file"}}

\* What a call is made with where nothing is configured.
Bare(c) ==
  [mode |-> CASE c.plugin \in Mysqls -> "preferred" [] c.plugin = "pg" -> "prefer" [] OTHER -> "off",
   scheme |-> "bare", host |-> "name", far |-> "none", ca |-> "none", name |-> "none", pair |-> "none",
   home |-> "none", secret |-> "none", context |-> "none", scope |-> "own"]

\* A hint's call made over some configuration, at the address this one reached or through the
\* forward it came through.
Pasted(base) == Fill([Change(base, Again(settings, call)) EXCEPT !.host = settings.host], call)

\* HintReachesTheSame: the call a hint hands the reader reaches the server checking all that this
\* one checked, over whatever is configured where it is pasted, and exactly that where nothing is
\* and this one insisted on TLS.  Beside a forward it gives nothing the forward fills.  A switch
\* that a profile's far end turned on is apart, and so is a CA found under the home directory, which
\* gives way to one that is configured.
HintReachesTheSame ==
  pc = "done" /\ (call.route \notin Forwards \/ settings.far = "none") =>
    LET this == WireOf(settings, call) IN
    /\ ~Astray(Again(settings, call))
    /\ this.tls = "must" => WireOf(Pasted(Bare(call)), call) = this
    /\ \A base \in SettingsOf[call.plugin] :
         (settings.home # "none" => base.ca = settings.ca) /\ Checked(Pasted(base), call) = Unrefused
           => ChecksAsMuch(WireOf(Pasted(base), call), this)

=============================================================================
