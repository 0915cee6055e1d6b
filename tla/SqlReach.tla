----------------------------- MODULE SqlReach -------------------------------
(***************************************************************************)
(* How the mysql, mariadb and pg plugins reach their server, and what they *)
(* make the tool of a dump or a restore reach it with.  mysql and mariadb: *)
(* a setting that says how much TLS, a CA and a name it may or may not     *)
(* read.  pg: sslmode, the files beside it or found under the home         *)
(* directory, and a name to check.                                         *)
(***************************************************************************)
EXTENDS Reach

---------------------------------------------------------------------------
(* mysql and mariadb *)

\* tlsMode: over a forward a CA or a name to check asks for TLS, in full.
MysqlMode(s, route) ==
  IF route \in Forwards /\ (s.ca # "none" \/ s.name # "none") THEN "true" ELSE s.mode

\* checkServerName: a name means something at true alone.
MysqlNameCheck(s, route) ==
  LET mode == MysqlMode(s, route) IN
  IF s.name = "none" \/ mode = "true" THEN Unrefused
  ELSE Refusal(IF mode = "false" THEN "tls.name.plaintext" ELSE "tls.name.unchecked", {[mode |-> "true"]})

\* tlsConfig: a CA no mode reads is refused, and a mode that needs one is refused without.
MysqlCheck(s, route) ==
  LET mode == MysqlMode(s, route) IN
  IF MysqlNameCheck(s, route) # Unrefused THEN MysqlNameCheck(s, route)
  ELSE IF mode = "false" THEN Unrefused
       ELSE IF s.ca = "none" /\ mode = "verify-ca"
       THEN Refusal("tls.ca.missing", {[ca |-> "issuer"], [mode |-> "true"]})
       ELSE IF s.ca # "none" /\ mode \in {"preferred", "skip-verify"}
       THEN Refusal("tls.ca.unused", {[mode |-> "true"], [mode |-> "verify-ca"]})
       ELSE IF s.ca = "bad" THEN Refusal("tls.ca.invalid", {[ca |-> "issuer"]})
       ELSE Unrefused

\* driverConfig, verifyChain.
MysqlWire(s, route) ==
  LET mode == MysqlMode(s, route) IN
  CASE mode = "false"       -> Plain
    [] mode = "preferred"   -> [Over("any", "any", FALSE) EXCEPT !.tls = "may"]
    [] mode = "skip-verify" -> Over("any", "any", FALSE)
    [] mode = "verify-ca"   -> Over(Roots(s.ca), "any", FALSE)
    [] mode = "true"        -> Over(Roots(s.ca), NameOr(s, "host"), FALSE)

\* The server's numbers.
MysqlAnswers(s, server) ==
  IF ~server.ready THEN {"1040"}
  ELSE IF s.secret # server.secret THEN {"1045"}
  ELSE IF ~server.grants THEN {"1142"}
  ELSE {}

\* tlsThroughForward: not tls, which a forward fills.
MysqlTLSRequired(route) ==
  Refusal("tls.required",
    IF route \in Forwards THEN {[ca |-> "issuer"], [name |-> "right"]}
    ELSE {[mode |-> "true"], [mode |-> "true", ca |-> "issuer"]})

\* classify: the errors the server numbers.
MysqlNumbered(err, s, route, otherwise) ==
  IF "1045" \in err THEN Refusal("auth.failed", Another(s))
  ELSE IF "1142" \in err THEN Refusal("denied", {})
  ELSE IF "3159" \in err THEN MysqlTLSRequired(route)
  ELSE IF "1040" \in err THEN Refusal("query.failed", {})
  ELSE otherwise

\* misnamed: refused for its name, or refused while it names no host at all.
Misnamed(err) == "hostname" \in err \/ {"verify", "nameless"} \subseteq err

\* nameRefusal: a certificate that names nobody is checked by its chain alone, where a mode can
\* be given.
MysqlName(err, s, route) ==
  Refusal("tls.name",
    IF "nameless" \in err
    THEN IF route \in Forwards THEN {} ELSE {[mode |-> "verify-ca", ca |-> "issuer", name |-> "none"]}
    ELSE IF s.name # "none" THEN {[name |-> "right"]} ELSE {})

\* classify: what is wrong with the certificate, and never a way round one that was revoked.
MysqlVerified(err, s, route, otherwise) ==
  IF Misnamed(err) /\ "revoked" \notin err
  THEN IF route \in Forwards /\ s.name = "none" /\ "nameless" \notin err THEN ForwardName ELSE MysqlName(err, s, route)
  ELSE IF "untrusted" \in err THEN Refusal("tls.untrusted", {[ca |-> "issuer"]})
  ELSE IF "verify" \in err THEN Refusal("tls.rejected", {})
  ELSE otherwise

\* classify: nobody answered.
MysqlUnreached(err) ==
  IF "dns" \in err THEN Unknown
  ELSE IF "unroutable" \in err THEN Unroutable
  ELSE IF "refused" \in err THEN Refused
  ELSE IF err \cap {"deadline", "timeout"} # {} THEN TimedOut
  ELSE Refusal("conn.failed", {})

MysqlTold(err, s, route) ==
  MysqlNumbered(err, s, route,
    IF "notls" \in err THEN Refusal("tls.unsupported", {[mode |-> "false"]})
    ELSE MysqlVerified(err, s, route, MysqlUnreached(err)))

\* reachArgs: through a forward what turned TLS on there, and directly the mode that insists.
MysqlAgain(s, route) ==
  Given(s, {"name"} \cup
    (IF route \in Forwards THEN {"ca"}
     ELSE IF s.mode \in {"true", "verify-ca"} THEN {"mode", "ca"}
     ELSE IF s.mode = "skip-verify" THEN {"mode"}
     ELSE {}))

---------------------------------------------------------------------------
(* The tool a dump or a restore runs, after a connection of the plugin's own that checked it. *)

\* checkClientTLS: the client checks the host it dials and no other name.
MysqlChildCheck(s) == IF s.name = "none" THEN Unrefused ELSE Refusal("tls.client.name", {})

\* tlsArgs: mysql's client verifies against a CA it is given and nothing else.
MysqlArgs(s, route) ==
  IF MysqlMode(s, route) = "true" /\ s.ca = "none" THEN [MysqlWire(s, route) EXCEPT !.roots = "given"]
  ELSE MysqlWire(s, route)

\* tlsArgs, takesPin, pinned: mariadb's has no word for verify-ca.  One that takes a fingerprint is
\* given the certificate's that the plugin's own connection met, and one that does not checks the
\* chain.
MariadbArgs(s, route, tool) ==
  IF MysqlMode(s, route) = "verify-ca" /\ tool = "pins" THEN [MysqlWire(s, route) EXCEPT !.roots = "pinned"]
  ELSE MysqlWire(s, route)

\* classifyDump, classifyRestore: the client's own words, and unreached.
MysqlChildTold(err, s) ==
  IF "1045" \in err THEN Refusal("auth.failed", Another(s))
  ELSE IF "1142" \in err THEN Refusal("denied", {})
  ELSE IF "dns" \in err THEN Unknown
  ELSE IF "no CA" \in err THEN Refusal("tls.ca.required", {[ca |-> "issuer"]})
  ELSE IF "pin" \in err THEN Refusal("tls.changed", {})
  ELSE IF "deadline" \in err THEN TimedOut
  ELSE IF "unroutable" \in err THEN Unroutable
  ELSE IF "refused" \in err THEN Refused
  ELSE Refusal("dump.failed", {})

---------------------------------------------------------------------------
(* pg *)

\* transportOf: over a forward a CA, a name or a client certificate asks for TLS, in full.
PgOverForward(s, route) == route \in Forwards /\ (s.ca # "none" \/ s.name # "none" \/ s.pair # "none")
PgMode(s, route) == IF PgOverForward(s, route) THEN "verify-full" ELSE s.mode

\* addHomeDefaults: the CA found under the home directory, where none is named.
PgFound(s, route) ==
  IF s.home # "none" /\ s.ca = "none" /\ PgMode(s, route) # "disable" THEN [s EXCEPT !.ca = "issuer"] ELSE s

\* checkRootCert, for the CA that is used, named or found.
PgRootCheck(s, route) ==
  LET mode == PgMode(s, route)
      ca == PgFound(s, route).ca
      to(m1, m2) == {[mode |-> m1], [mode |-> m2]} IN
  IF ca = "none" /\ mode = "verify-ca" THEN Refusal("tls.ca.missing", {[ca |-> "issuer"], [mode |-> "verify-full"]})
  ELSE IF ca = "none" \/ mode = "disable" THEN Unrefused
  ELSE IF ca = "system" /\ mode # "verify-full" THEN Refusal("tls.ca.system", {[mode |-> "verify-full"]})
  ELSE IF mode = "prefer" THEN Refusal("tls.ca.unused", to("verify-full", "verify-ca"))
  ELSE IF mode = "require" THEN Refusal("tls.ca.implied", to("verify-ca", "verify-full"))
  ELSE IF ca = "bad" THEN Refusal("tls.ca.invalid", {[ca |-> "issuer"]})
  ELSE Unrefused

\* checkServerName: a name means something at verify-full alone, beside an address.
PgNameCheck(s, route) ==
  LET mode == PgMode(s, route) IN
  IF s.name = "none" THEN Unrefused
  ELSE IF mode = "disable" THEN Refusal("tls.name.plaintext", {[mode |-> "verify-full"]})
  ELSE IF mode # "verify-full" THEN Refusal("tls.name.unchecked", {[mode |-> "verify-full"]})
  ELSE IF s.host = "name" THEN Refusal("tls.name.host", {})
  ELSE Unrefused

\* checkRevocation: a revocation list found under the home directory, which nothing here reads.
PgRevocationCheck(s, route) ==
  IF s.home = "crl" /\ PgMode(s, route) \in {"verify-ca", "verify-full"}
  THEN Refusal("tls.crl.unsupported", {[home |-> "none"]}) ELSE Unrefused

\* checkClientPair.
PgPairCheck(s, route) ==
  IF PgMode(s, route) = "disable" THEN Unrefused
  ELSE IF s.pair \in {"cert", "key"} THEN Refusal("tls.client.pair", {[pair |-> "both"]})
  ELSE IF s.pair = "torn" THEN Refusal("tls.client.invalid", {[pair |-> "both"]})
  ELSE Unrefused

\* checkTransport: the first of them.
PgCheck(s, route) ==
  IF PgRootCheck(s, route) # Unrefused THEN PgRootCheck(s, route)
  ELSE IF PgNameCheck(s, route) # Unrefused THEN PgNameCheck(s, route)
  ELSE IF PgRevocationCheck(s, route) # Unrefused THEN PgRevocationCheck(s, route)
  ELSE PgPairCheck(s, route)

\* dsn, checkAs.
PgWire(s, route) ==
  LET mode == PgMode(s, route)
      pair == s.pair = "both"
      roots == Roots(PgFound(s, route).ca) IN
  CASE mode = "disable"     -> Plain
    [] mode = "prefer"      -> [Over("any", "any", pair) EXCEPT !.tls = "may"]
    [] mode = "require"     -> Over("any", "any", pair)
    [] mode = "verify-ca"   -> Over(roots, "any", pair)
    [] mode = "verify-full" -> Over(roots, NameOr(s, "host"), pair)

\* The server's codes.
PgAnswers(s, server) ==
  IF ~server.ready THEN {"53300"}
  ELSE IF s.secret # server.secret THEN {"28P01"}
  ELSE IF ~server.grants THEN {"42501"}
  ELSE {}

\* tlsRequired: not sslmode, which a forward fills.
PgTLSRequired(route) ==
  Refusal("tls.required",
    IF route \in Forwards THEN {[ca |-> "issuer"], [name |-> "right"]}
    ELSE {[mode |-> "verify-full"], [mode |-> "verify-full", ca |-> "issuer"]})

\* clientCertRequired: no certificate presented is not one refused.
PgClientCert(s) ==
  IF s.pair = "both" THEN Refusal("tls.client.auth.failed", {})
  ELSE Refusal("tls.client.required", {[pair |-> "both"]})

\* (Mutant: a server that takes TLS only shares its code with a password refused.)
PgCodedPlainly(err, s, route, otherwise) ==
  IF "valid client certificate" \in err THEN PgClientCert(s)
  ELSE IF err \cap {"no encryption", "28P01"} # {} THEN Refusal("auth.failed", Another(s))
  ELSE IF "42501" \in err THEN Refusal("denied", {})
  ELSE IF "53300" \in err THEN Refusal("query.failed", {})
  ELSE otherwise

\* classify: the errors the server gives a code.
PgCoded(err, s, route, otherwise) ==
  IF "no encryption" \in err THEN PgTLSRequired(route)
  ELSE IF "valid client certificate" \in err THEN PgClientCert(s)
  ELSE IF "28P01" \in err THEN Refusal("auth.failed", Another(s))
  ELSE IF "42501" \in err THEN Refusal("denied", {})
  ELSE IF "53300" \in err THEN Refusal("query.failed", {})
  ELSE otherwise

\* nameRefusal.
PgName(err, s) ==
  Refusal("tls.name", IF "nameless" \notin err /\ (s.name # "none" \/ s.host = "address") THEN {[name |-> "right"]} ELSE {})

\* classify: what is wrong with the certificate, and a name given and not matched is its own.
PgVerified(err, s, route, otherwise) ==
  IF "untrusted" \in err THEN Refusal("tls.untrusted", {[ca |-> "issuer"]})
  ELSE IF "hostname" \in err /\ route \in Forwards /\ s.name = "none" THEN ForwardName
  ELSE IF "hostname" \in err THEN PgName(err, s)
  ELSE IF "verify" \in err THEN Refusal("tls.rejected", {})
  ELSE otherwise

\* classify: nobody answered.
PgUnreached(err, otherwise) ==
  IF err \cap {"deadline", "timeout"} # {} THEN TimedOut
  ELSE IF "unroutable" \in err THEN Unroutable
  ELSE IF "refused" \in err THEN Refused
  ELSE IF "dns" \in err THEN Unknown
  ELSE IF "nossl" \in err THEN Refusal("tls.unsupported", {[mode |-> "disable"]})
  ELSE otherwise

PgTold(err, s, route) ==
  PgCoded(err, s, route, PgUnreached(err, PgVerified(err, s, route, Refusal("conn.failed", {}))))

\* reachArgs: through a forward what turned TLS on there, and directly the mode that insists.
PgAgain(s, route) ==
  Given(s, {"name"}
    \cup (IF route \in Forwards THEN {"ca"}
          ELSE IF s.mode \in {"require", "verify-ca", "verify-full"} THEN {"mode", "ca"}
          ELSE {})
    \cup (IF PgMode(s, route) = "disable" THEN {} ELSE {"pair", "home"}))

---------------------------------------------------------------------------
(* The tool a dump or a restore runs, after a connection of the plugin's own that checked it. *)

\* (Mutant: the child is started on a forward that ended.)
PgChildCheckNone(s, route) == Unrefused

\* checkChildForward: a kubectl forward ends with the first TLS connection through it.
PgChildCheck(s, route) ==
  IF route = "kube" /\ PgOverForward(s, route) THEN Refusal("tls.client.forward", {}) ELSE Unrefused

\* childEnv, childHost: the files the call uses and no others, and the word for the machine's
\* CAs where none is named, which a libpq from before 16 takes for a file.
PgChildArgs(s, route, tool) ==
  LET wire == PgWire(s, route) IN
  IF wire.roots = "public" /\ tool = "old" THEN [wire EXCEPT !.roots = "system file"] ELSE wire

\* childTLS, and the rest of classifyDump.
PgChildTold(err, s) ==
  IF "no file" \in err THEN Refusal("tls.ca.system", {[ca |-> "issuer"]})
  ELSE IF "valid client certificate" \in err THEN PgClientCert(s)
  ELSE IF "hostname" \in err THEN Refusal("tls.name", IF s.host = "address" THEN {[name |-> "right"]} ELSE {})
  ELSE IF "verify" \in err \/ "untrusted" \in err THEN Refusal("tls.untrusted", {[ca |-> "issuer"]})
  ELSE IF "28P01" \in err THEN Refusal("auth.failed", Another(s))
  ELSE IF err \cap {"deadline", "timeout"} # {} THEN TimedOut
  ELSE IF "42501" \in err THEN Refusal("denied", {})
  ELSE Refusal("dump.failed", {})

=============================================================================
