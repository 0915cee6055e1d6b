---------------------------- MODULE KeycloakPage ----------------------------
(***************************************************************************)
(* keycloak.overview, with its detail, and keycloak.audit: one realm at a  *)
(* glance, and the same realm graded setting by setting.                   *)
(*                                                                         *)
(* A realm is a record: its settings, each reduced to the classes the      *)
(* audit grades, the browser flow as the console lists it, its users, its  *)
(* clients, and who holds the roles that administer it.                    *)
(***************************************************************************)
EXTENDS Findings, FiniteSets

CONSTANT auditUsers   \* the most users the audit examines for a second factor

ASSUME AuditUsersAssumption == auditUsers \in Nat \ {0}

adminRoles == <<"realm-admin", "manage-users", "manage-clients", "manage-realm", "impersonation">>

---------------------------------------------------------------------------
(* overview.go *)

\* glance and detailedOverview: the realm, then a read for each row it cannot fill.
GlanceAsks == <<"realm", "users", "clients", "sessions", "version", "flows">>

\* glance: the realm's failures before the protections that are off before what was unread.
GlanceFound(got, of) ==
  LET realm == of[<<"realm", "-">>]
      unread(read) == FoundIf(<<read, "-">> \notin got, Warn, read \o " unread")
  IN  FoundIf(~realm.enabled, Fail, "realm disabled")
        \o FoundIf(~realm.bruteForce, Warn, "brute force off")
        \o FoundIf(realm.ssl = "none", Warn, "ssl not required")
        \o FoundIf(~realm.events \/ ~realm.adminEvents, Warn, "events off")
        \o unread("users") \o unread("clients") \o unread("sessions") \o unread("version") \o unread("flows")

---------------------------------------------------------------------------
(* audit.go *)

\* gradeBrowserFlow: what is above a step is the sub-flows it is indented under.
Above(flow, i) ==
  {j \in 1..(i - 1) : /\ flow[j].subflow /\ flow[j].level < flow[i].level
                      /\ \A k \in (j + 1)..i : flow[k].level > flow[j].level}

\* The second-factor steps that count, and those of them a login cannot go without.
Steps(flow) == {i \in DOMAIN flow : ~flow[i].subflow /\ flow[i].second /\ flow[i].requirement # "DISABLED"}
Enforced(flow) ==
  {i \in Steps(flow) : /\ flow[i].requirement = "REQUIRED"
                       /\ \A j \in Above(flow, i) : flow[j].requirement # "CONDITIONAL"}

FlowFound(flow) ==
  IF Enforced(flow) # {} THEN <<>>
  ELSE IF Steps(flow) # {} THEN Finding(Warn, "second factor offered")
  ELSE Finding(Fail, "no second factor")

\* auditSecondFactor: the first users listed, of whom those without an OTP are asked for
\* their credentials one by one.
Examined(realm) == SubSeq(realm.users, 1, IF Len(realm.users) < auditUsers THEN Len(realm.users) ELSE auditUsers)
People(realm) == SelectSeq(Examined(realm), LAMBDA u : u.enabled /\ ~u.service)
WithoutOTP(realm) == SelectSeq(People(realm), LAMBDA u : ~u.otp)

\* gradeCoverage: of the users whose factors are known, and a user whose are not is left out.
CoverageFound(got, of) ==
  LET people == People(of[<<"users", "-">>])
      asked(u) == <<"credentials", u.name>>
      known == SelectSeq(people, LAMBDA u : u.otp \/ asked(u) \in got)
      has(u) == u.otp \/ \E v \in ToSet(of[asked(u)].users) : v.name = u.name /\ v.webauthn
      with == SelectSeq(known, has)
  IN  (IF known = <<>> \/ Len(with) = Len(known) THEN <<>>
       ELSE IF with = <<>> THEN Finding(Fail, "nobody has a second factor")
       ELSE Finding(Warn, "somebody has no second factor"))
        \o FoundIf(known # people, Fine, "credentials unread")
        \o FoundIf(Len(of[<<"users", "-">>].users) >= auditUsers, Fine, "users cut")

\* auditRealm: the realm's own switches.
SwitchesFound(realm) ==
  FoundIf(realm.ssl = "none", Fail, "ssl not required") \o FoundIf(realm.ssl = "external", Warn, "ssl external")

\* auditBruteForce and auditPasswords: a password's length by the class it falls in.
PasswordsFound(realm) ==
  FoundIf(~realm.bruteForce, Fail, "brute force off")
    \o FoundIf(realm.passwords = "none", Fail, "no password policy")
    \o FoundIf(realm.passwords = "short", Fail, "short passwords")
    \o FoundIf(realm.passwords \in {"unbounded", "fair"}, Warn, "weak passwords")

\* auditTokens and auditEvents: a lifetime by the class it falls in.
TokensFound(realm) ==
  LET lifetime(class, what) == FoundIf(class = "long", Warn, what \o " long") \o FoundIf(class = "longer", Fail, what \o " longer")
  IN  lifetime(realm.access, "access tokens") \o lifetime(realm.session, "sessions")
        \o FoundIf(~realm.rotate, Warn, "no rotation")
        \o FoundIf(~realm.events \/ ~realm.adminEvents, Fail, "events off")

RealmFound(realm) == SwitchesFound(realm) \o PasswordsFound(realm) \o TokensFound(realm)

\* auditClient: a client's registration, of which Keycloak's own are spared two checks.
ClientFound(c) ==
  FoundIf(c.uris \cap {"anywhere", "cleartext"} # {}, Fail, "redirect")
    \o FoundIf("wildcard" \in c.uris, Warn, "wildcard redirect")
    \o FoundIf(c.anyOrigin, Fail, "origin")
    \o FoundIf(c.implicit \/ c.direct, Warn, "grants")
    \o (IF c.public /\ c.standard /\ ~c.builtin
        THEN FoundIf(c.pkce = "plain", Warn, "pkce plain") \o FoundIf(c.pkce = "none", Fail, "no pkce") ELSE <<>>)
    \o FoundIf(c.fullScope /\ ~c.bearer /\ ~c.builtin, Fine, "full scope")

\* auditServiceAccount: which account it is, then its roles; either read that fails is a row.
AccountFound(got, of, c) ==
  LET roles == of[<<"account roles", c.name>>].accounts[c.name] IN
  IF {<<"account", c.name>>, <<"account roles", c.name>>} \subseteq got
  THEN FoundIf(roles = "manage", Warn, "account administers") \o FoundIf(roles = "view", Fine, "account reads")
  ELSE Finding(Fine, "account unread")

EnabledClients(realm) == SelectSeq(realm.clients, LAMBDA c : c.enabled)

\* What auditClients found of each, and the count of those it found nothing about.
ClientRowsFound(got, of) ==
  LET clients == EnabledClients(of[<<"clients", "-">>]) IN
  [i \in DOMAIN clients |-> ClientFound(clients[i]) \o
     (IF clients[i].account THEN AccountFound(got, of, clients[i]) ELSE <<>>)]
Clean(got, of) == {EnabledClients(of[<<"clients", "-">>])[i].name : i \in {j \in DOMAIN ClientRowsFound(got, of) : ClientRowsFound(got, of)[j] = <<>>}}

\* auditAdmins: who holds each role directly, of which a service account is a warning.
AdminsFound(got, of) ==
  FlattenSeq([i \in DOMAIN adminRoles |->
    LET read == <<"holders", adminRoles[i]>> IN
    IF read \notin got THEN Finding(Fine, "holders unread")
    ELSE FoundIf("service account" \in of[read].holders[adminRoles[i]], Warn, "service account administers")])

\* runAudit: the reads of a page, in order.  Only the realm's failure is the page's.
AuditAsks(got, of) ==
  LET each(reads, names) == FlattenSeq([i \in DOMAIN names |-> [j \in DOMAIN reads |-> <<reads[j], names[i]>>]])
      after(read, more) == <<<<read, "-">>>> \o (IF <<read, "-">> \in got THEN more ELSE <<>>)
      names(seq) == [i \in DOMAIN seq |-> seq[i].name]
      accounts == SelectSeq(EnabledClients(of[<<"clients", "-">>]), LAMBDA c : c.account)
      account(c) == <<<<"account", c.name>>>>
                      \o (IF <<"account", c.name>> \in got THEN <<<<"account roles", c.name>>>> ELSE <<>>)
  IN  <<<<"realm", "-">>, <<"version", "-">>, <<"flow", "-">>, <<"actions", "-">>>>
        \o after("users", each(<<"credentials">>, names(WithoutOTP(of[<<"users", "-">>]))))
        \o after("clients", FlattenSeq([i \in DOMAIN accounts |-> account(accounts[i])]))
        \o after("realm-management", each(<<"holders">>, adminRoles))

AuditDue(done, got, of) ==
  LET left == SelectSeq(AuditAsks(got, of), LAMBDA read : read \notin done) IN
  IF left = <<>> \/ <<"realm", "-">> \in done \ got THEN {} ELSE {Head(left)}

AuditFound(got, of) ==
  LET unread(read) == Finding(Fine, read \o " unread")
      has(read) == <<read, "-">> \in got
  IN  RealmFound(of[<<"realm", "-">>])
        \o (IF has("flow") THEN FlowFound(of[<<"flow", "-">>].flow) ELSE unread("flow"))
        \o (IF has("actions") THEN <<>> ELSE unread("actions"))
        \o (IF has("users") THEN CoverageFound(got, of) ELSE unread("users"))
        \o (IF has("clients") THEN FlattenSeq(ClientRowsFound(got, of)) ELSE unread("clients"))
        \o (IF has("realm-management") THEN AdminsFound(got, of) ELSE unread("realm-management"))

---------------------------------------------------------------------------
(* What is the case, whatever the page makes of it. *)

\* A step runs where no sub-flow above it is disabled; it is taken by every login where
\* none above it is conditional either.
Runs(flow, i) == \A j \in Above(flow, i) : flow[j].requirement # "DISABLED"

RealmTrouble(realm, what) ==
  LET people == {u \in ToSet(realm.users) : u.enabled /\ ~u.service}
      factor(u) == u.otp \/ u.webauthn
      client(bad(_)) == \E c \in ToSet(realm.clients) : c.enabled /\ bad(c)
      flow == realm.flow
  IN  CASE what = "realm disabled"    -> ~realm.enabled
        [] what = "brute force off"   -> ~realm.bruteForce
        [] what = "ssl not required"  -> realm.ssl = "none"
        [] what = "events off"        -> ~realm.events \/ ~realm.adminEvents
        [] what = "no second factor"  -> ~\E i \in Steps(flow) : Runs(flow, i)
        [] what = "second factor offered" ->
             /\ \E i \in Steps(flow) : Runs(flow, i)
             /\ ~\E i \in Steps(flow) : /\ flow[i].requirement = "REQUIRED"
                                        /\ \A j \in Above(flow, i) : flow[j].requirement \notin {"CONDITIONAL", "DISABLED"}
        [] what = "nobody has a second factor"    -> people # {} /\ \A u \in people : ~factor(u)
        [] what = "somebody has no second factor" -> \E u, v \in people : factor(u) /\ ~factor(v)
        [] what = "no password policy" -> realm.passwords = "none"
        [] what = "redirect"          -> client(LAMBDA c : c.uris \cap {"anywhere", "cleartext"} # {})
        [] what = "no pkce"           -> client(LAMBDA c : c.public /\ c.standard /\ c.pkce = "none" /\ ~c.builtin)
        [] what = "account administers" -> client(LAMBDA c : c.account /\ realm.accounts[c.name] = "manage")
        [] what = "service account administers" ->
             \E role \in ToSet(adminRoles) : "service account" \in realm.holders[role]

GlanceFatal == {"realm disabled"}
GlanceTroubles == GlanceFatal \cup {"brute force off", "ssl not required", "events off"}
AuditFatal == {"brute force off", "ssl not required", "events off", "no second factor", "nobody has a second factor",
               "no password policy", "redirect", "no pkce"}
\* A user's factors are read of the list and of the user.
AuditRelational == {"nobody has a second factor", "somebody has no second factor"}
AuditTroubles == AuditFatal \cup AuditRelational
  \cup {"second factor offered", "account administers", "service account administers"}

=============================================================================
