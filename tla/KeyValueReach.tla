--------------------------- MODULE KeyValueReach ----------------------------
(***************************************************************************)
(* How the redis and the etcd plugins reach their server.  redis: TLS from *)
(* any setting that only means something over it, a password, one PING,    *)
(* and what a failure is said to be.  etcd: its client retries a           *)
(* connection that failed and never says why, so the member is dialled     *)
(* once more by hand, and what that dial finds is the answer.              *)
(***************************************************************************)
EXTENDS Reach

---------------------------------------------------------------------------
(* redis *)

\* (Mutant: a name to check turns nothing on.)
RedisTLSUnnamed(s) == s.mode = "on" \/ s.ca # "none" \/ s.pair \in {"cert", "both", "torn"}

\* connect: what turns TLS on.  A key alone does not.
RedisTLS(s) == s.mode = "on" \/ s.ca # "none" \/ s.name # "none" \/ s.pair \in {"cert", "both", "torn"}

RedisCheck(s) == IF RedisTLS(s) THEN FilesRefused(s) ELSE Unrefused

RedisWire(s) == IF RedisTLS(s) THEN Verified(s) ELSE Plain

\* do: the commands connect sends, and the server's error, by its first word.  The password
\* travels in the first of them, and a server from before 6 has no word for one it refuses.
RedisAnswers(s, server) ==
  IF s.secret # "none" /\ server.secret = "none" THEN {"ERR no password"}
  ELSE IF s.secret # "none" /\ s.secret # server.secret THEN IF server.old THEN {"ERR invalid"} ELSE {"WRONGPASS"}
  ELSE IF s.secret = "none" /\ server.secret # "none" THEN {"NOAUTH"}
  ELSE IF ~server.ready THEN {"LOADING"}
  ELSE IF ~server.grants THEN {"NOPERM"}
  ELSE {}

\* credentialsRejected: the code a dashboard reads as a refused credential.
RedisRejected(s) == Refusal("auth.failed", Another(s))

\* (Mutant: the words of a server from before 6 are not read.)
RedisAnsweredNew(err, s, otherwise) ==
  IF "NOAUTH" \in err THEN Refusal("auth.required", Another(s))
  ELSE IF "WRONGPASS" \in err THEN RedisRejected(s)
  ELSE IF "NOPERM" \in err THEN Refusal("denied", {})
  ELSE IF "LOADING" \in err THEN Refusal("loading", {})
  ELSE IF "ERR no password" \in err THEN Refusal("auth.unneeded", {[secret |-> "none"]})
  ELSE otherwise

\* classify: the server's own errors, and a server never given a password has refused none.
RedisAnswered(err, s, otherwise) ==
  IF "NOAUTH" \in err THEN Refusal("auth.required", Another(s))
  ELSE IF "WRONGPASS" \in err THEN RedisRejected(s)
  ELSE IF "NOPERM" \in err THEN Refusal("denied", {})
  ELSE IF "LOADING" \in err THEN Refusal("loading", {})
  ELSE IF "ERR invalid" \in err THEN RedisRejected(s)
  ELSE IF "ERR no password" \in err THEN Refusal("auth.unneeded", {[secret |-> "none"]})
  ELSE otherwise

\* classify: a failure of the connection.  A resolver that does not answer fails the dial with a
\* timeout as a server does.
RedisFailed(err, s) ==
  RedisAnswered(err, s,
    IF err \cap {"timeout", "dns timeout"} # {} THEN TimedOut
    ELSE IF "dns" \in err THEN Unknown
    ELSE IF "unroutable" \in err THEN Unroutable
    ELSE IF "refused" \in err THEN Refused
    ELSE IF "untrusted" \in err THEN Refusal("tls.untrusted", {[ca |-> "issuer"]})
    ELSE IF "eof" \in err THEN Refusal("conn.closed", {[mode |-> "on"]})
    ELSE Refusal("conn.failed", {}))

\* (Mutant: another name is asked for of a certificate that names nobody.)
RedisNameAnyway(s, err) ==
  Refusal("tls.name", IF s.name = "none" THEN {} ELSE {[name |-> "right"]})

\* nameRefusal: the setting the name came from, or nothing for a certificate that names no host.
RedisName(s, err) ==
  Refusal("tls.name", IF "nameless" \in err \/ s.name = "none" THEN {} ELSE {[name |-> "right"]})

\* classifyDial: a forward turns TLS off, and tls given beside one opens none at all.
RedisTold(err, s, route) ==
  LET forward == route \in Forwards IN
  IF "hostname" \in err /\ forward /\ s.name = "none" THEN ForwardName
  ELSE IF "hostname" \in err THEN RedisName(s, err)
  ELSE IF "eof" \in err /\ forward THEN Refusal("conn.closed", {[ca |-> "issuer"], [name |-> "right"]})
  ELSE IF "refused" \in err THEN Refused
  ELSE IF "untrusted" \in err THEN Refusal("tls.untrusted", {[ca |-> "issuer"]})
  ELSE IF "verify" \in err THEN Refusal("tls.rejected", {})
  ELSE RedisFailed(err, s)

\* (Mutant: without the name that was checked.)
RedisAgainUnnamed(s) == Given(s, {"ca", "pair", "mode"})

\* reachArgs: what a call handed to the reader is given of how this one reached its server.
RedisAgain(s) == Given(s, {"ca", "name", "pair", "mode"})

---------------------------------------------------------------------------
(* etcd *)

\* tlsRequested: the switch, or a file or a name that only means something over TLS.
EtcdAsksTLS(s) == s.mode = "on" \/ s.ca # "none" \/ s.pair # "none" \/ s.name # "none"

\* plaintextEndpoint: behind http:// the client drops TLS, whatever it was given.  A key alone
\* is not looked for.
EtcdPlaintext(s) ==
  LET way(less) == {[scheme |-> "https"], [scheme |-> "bare"], less} IN
  IF s.scheme # "http" THEN Unrefused
  ELSE IF s.ca # "none" THEN Refusal("tls.ca.unused", way([ca |-> "none"]))
       ELSE IF s.mode = "on" THEN Refusal("tls.plaintext", way([mode |-> "off"]))
       ELSE IF s.pair \in {"cert", "both", "torn"} THEN Refusal("tls.plaintext", way([pair |-> "none"]))
       ELSE IF s.name # "none" THEN Refusal("tls.plaintext", way([name |-> "none"]))
       ELSE Unrefused

EtcdFiles(s) == FilesRefused(s)

\* connectWithin: what is refused before the client is made.
EtcdCheck(s) ==
  IF EtcdPlaintext(s) # Unrefused THEN EtcdPlaintext(s)
  ELSE IF EtcdAsksTLS(s) THEN EtcdFiles(s)
  ELSE Unrefused

\* dialTarget: a bare host:port takes TLS from the settings, http:// drops it, https:// requires
\* it.
EtcdWire(s) ==
  IF s.scheme = "http" \/ (s.scheme = "bare" /\ ~EtcdAsksTLS(s)) THEN Plain ELSE Verified(s)

\* serverCode: what a member answers a token or a read.  Auth that is off takes any of them.
EtcdAnswers(s, server) ==
  IF server.secret # "none" /\ s.secret # server.secret THEN {"Unauthenticated"}
  ELSE IF ~server.ready THEN {"Unavailable"}
  ELSE IF ~server.grants THEN {"PermissionDenied"}
  ELSE {}

\* noConnection: the bound run out with no connection up.
EtcdNoConnection == TimedOut

\* (Mutant: tls is named, and a forward is closed by it.)
EtcdWrongPortHint(s, route) ==
  Refusal("conn.protocol", IF EtcdWire(s).tls = "must" THEN {} ELSE {[mode |-> "on"]})

\* wrongPort: a listener that takes the connection and does not speak the client's protocol.
EtcdWrongPort(s, route) ==
  Refusal("conn.protocol",
    IF EtcdWire(s).tls = "must" THEN {}
    ELSE IF route \in Forwards THEN {[ca |-> "issuer"], [name |-> "right"]}
    ELSE {[mode |-> "on"]})

\* classify.  The handshake before the port: a hang-up inside one arrives as a refused dial does.
EtcdTold(err, s, route) ==
  IF "deadline" \in err THEN TimedOut
  ELSE IF "Unauthenticated" \in err THEN Refusal("auth.failed", Another(s))
  ELSE IF "PermissionDenied" \in err THEN Refusal("denied", {})
  ELSE IF "Unavailable" \in err THEN Refusal("unavailable", {})
  ELSE IF "dns" \in err THEN Unknown
  ELSE IF "untrusted" \in err THEN Refusal("tls.untrusted", {[ca |-> "issuer"]})
  ELSE IF "hostname" \in err /\ route \in Forwards /\ s.name = "none" THEN ForwardName
  ELSE IF "verify" \in err THEN Refusal("tls.rejected", {})
  ELSE IF "handshake" \in err THEN Refusal("tls.failed", {})
  ELSE IF "unroutable" \in err THEN Unroutable
  ELSE IF "refused" \in err THEN Refused
  ELSE Refusal("conn.failed", {})

\* reachArgs.  A scheme is part of the address, which is given where no forward was open.
EtcdAgain(s, route) ==
  Given(s, {"ca", "name", "pair", "mode"} \cup (IF route \in Forwards THEN {} ELSE {"scheme"}))

=============================================================================
