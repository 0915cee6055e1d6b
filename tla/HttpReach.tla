----------------------------- MODULE HttpReach -----------------------------
(***************************************************************************)
(* How the plugins that speak HTTP reach their server: qdrant and s3 by an *)
(* address beside a tls switch, vault and keycloak by a URL whose scheme   *)
(* says it.  Through a forward either is filled by the profile, plain      *)
(* unless its connection says that the far end speaks TLS.                 *)
(***************************************************************************)
EXTENDS Reach

ByURL == {"vault", "keycloak"}

---------------------------------------------------------------------------
(* Before anything is dialled. *)

\* httpClient, tlsTransport, caBundle: the CA file, read here.
BundleRefused(s) == IF s.ca = "bad" THEN Refusal("tls.ca.invalid", {[ca |-> "issuer"]}) ELSE Unrefused

\* plaintextServerName, plaintextCAFile, plainExit: the way to TLS, or the setting to clear.
PlaintextWay(less, route) == {IF route \in Forwards THEN [far |-> "tls"] ELSE [scheme |-> "https"], less}

VaultCheck(s, route) ==
  IF s.scheme # "https" /\ s.name # "none" THEN Refusal("tls.plaintext", PlaintextWay([name |-> "none"], route))
  ELSE IF s.scheme # "https" /\ s.ca # "none" THEN Refusal("tls.ca.unused", PlaintextWay([ca |-> "none"], route))
  ELSE BundleRefused(s)

\* newSession: a call with no secret is not made.
KeycloakCheck(s, route) ==
  IF s.scheme # "https" /\ s.name # "none" THEN Refusal("tls.plaintext", PlaintextWay([name |-> "none"], route))
  ELSE IF s.scheme # "https" /\ s.ca # "none" THEN Refusal("tls.ca.unused", PlaintextWay([ca |-> "none"], route))
  ELSE IF s.secret = "none" THEN Refusal("secret.missing", Another(s))
  ELSE BundleRefused(s)

\* tlsOn: a name or a CA asks for TLS as the switch does.
QdrantTLS(s) == s.mode = "on" \/ s.ca # "none" \/ s.name # "none"
S3TLS(s) == s.mode = "on" \/ s.ca # "none" \/ s.name # "none"

SwitchWire(asked, s) == IF asked THEN Verified(s) ELSE Plain
UrlWire(s) == SwitchWire(s.scheme = "https", s)

\* refuseRedirect: what would carry the secret to wherever it points is not followed.
FollowsRedirects(plugin) == FALSE

---------------------------------------------------------------------------
(* What the server answers, and what is said of it. *)

\* A server that speaks TLS only, to a call in the clear.
PlainMet(server) ==
  CASE server.plainly = "says so"  -> {"400"}
    [] server.plainly = "alerts"   -> {"tls bytes"}
    [] server.plainly = "hangs up" -> {"eof"}

QdrantAnswers(s, server) ==
  IF server.redirects THEN {"redirect"}
  ELSE IF s.secret # server.secret THEN {"401"}
  ELSE IF ~server.ready THEN {"503"}
  ELSE IF ~server.grants THEN {"403"}
  ELSE {}

\* A token that is not one and a policy that does not cover the read are the same 403.
VaultAnswers(s, server) ==
  IF server.redirects THEN {"redirect"}
  ELSE IF ~server.ready THEN {"503"}
  ELSE IF (server.secret # "none" /\ s.secret # server.secret) \/ ~server.grants THEN {"403"}
  ELSE {}

\* The token endpoint; and the reads, which are sent the token it issued.
KeycloakIssues(s, server) ==
  IF server.redirects THEN {"redirect"}
  ELSE IF ~server.ready THEN {"503"}
  ELSE IF s.secret # server.secret THEN {"401"}
  ELSE {}
KeycloakAnswers(server) ==
  IF ~server.ready THEN {"503"}
  ELSE IF server.skewed THEN {"401 token"}
  ELSE IF ~server.grants THEN {"403"}
  ELSE {}

S3Answers(s, server) ==
  IF server.redirects THEN {"redirect"}
  ELSE IF ~server.ready THEN {"503"}
  ELSE IF s.secret # "none" /\ s.secret # server.secret THEN {"SignatureDoesNotMatch"}
  ELSE IF s.secret # server.secret \/ ~server.grants THEN {"AccessDenied"}
  ELSE {}

\* classify: a failure of the transport, in the order every one of them reads it.
TransportTold(err, s, route, otherwise) ==
  IF "deadline" \in err THEN TimedOut
  ELSE IF "dns" \in err THEN Unknown
  ELSE IF "untrusted" \in err THEN Refusal("tls.untrusted", {[ca |-> "issuer"]})
  ELSE IF "hostname" \in err /\ route \in Forwards /\ s.name = "none" THEN ForwardName
  ELSE IF "verify" \in err THEN Refusal("tls.rejected", {})
  ELSE IF "unroutable" \in err THEN Unroutable
  ELSE IF "refused" \in err THEN Refused
  ELSE IF "timeout" \in err THEN TimedOut
  ELSE otherwise

\* tlsExpected: through a forward the profile says it, never the caller.
Expected(change, route) == Refusal("tls.expected", {IF route \in Forwards THEN [far |-> "tls"] ELSE change})

QdrantStatus(err, s, otherwise) ==
  IF "401" \in err THEN Refusal("auth.failed", Another(s))
  ELSE IF "403" \in err THEN Refusal("denied", {})
  ELSE IF "503" \in err THEN Refusal("unavailable", {})
  ELSE IF "400" \in err THEN Refusal("request.failed", {})
  ELSE otherwise

QdrantTold(err, s, route) ==
  QdrantStatus(err, s,
    IF "redirect" \in err THEN Refusal("redirect.refused", {})
    ELSE TransportTold(err, s, route,
           IF ~QdrantTLS(s) /\ "tls bytes" \in err THEN Expected([mode |-> "on"], route) ELSE Refusal("conn.failed", {})))

VaultStatus(err, route, otherwise) ==
  IF "redirect" \in err THEN Refusal("redirected", {})
  ELSE IF "403" \in err THEN Refusal("denied", {})
  ELSE IF "400" \in err THEN Expected([scheme |-> "https"], route)
  ELSE IF "503" \in err THEN Refusal("sealed", {})
  ELSE otherwise

VaultTold(err, s, route) == VaultStatus(err, route, TransportTold(err, s, route, Refusal("conn.failed", {})))

\* classifyToken, classifyStatus.
KeycloakStatus(err, s, otherwise) ==
  IF "401" \in err THEN Refusal("auth.failed", Another(s))
  ELSE IF "401 token" \in err THEN Refusal("token.auth.failed", {})
  ELSE IF "403" \in err THEN Refusal("denied", {})
  ELSE IF err \cap {"400", "503"} # {} THEN Refusal("request.failed", {})
  ELSE otherwise

\* classifyTransport: a server that hangs up on plain HTTP may be one that speaks TLS.
KeycloakTold(err, s, route) ==
  LET plain == s.scheme = "http"
      way == {IF route \in Forwards THEN [far |-> "tls"] ELSE [scheme |-> "https"]} IN
  KeycloakStatus(err, s,
    IF "redirect" \in err THEN Refusal("redirect.refused", {})
    ELSE TransportTold(err, s, route,
           IF plain /\ "tls bytes" \in err THEN Refusal("tls.expected", way)
           ELSE IF plain /\ "eof" \in err THEN Refusal("conn.failed", way)
           ELSE Refusal("conn.failed", {})))

\* withSession: a token refused in the middle of a page is the call's own error.
KeycloakPage(met, refused) == IF refused THEN {"401 token"} ELSE {}

S3Status(err, s, route, otherwise) ==
  IF "AccessDenied" \in err THEN Refusal("denied", {})
  ELSE IF "SignatureDoesNotMatch" \in err THEN Refusal("auth.failed", Another(s))
  ELSE IF "400" \in err THEN Expected([mode |-> "on"], route)
  ELSE IF err \cap {"503", "redirect"} # {} THEN Refusal("request.failed", {})
  ELSE otherwise

S3Told(err, s, route) ==
  IF "deadline" \in err THEN TimedOut ELSE S3Status(err, s, route, TransportTold(err, s, route, Refusal("conn.failed", {})))

---------------------------------------------------------------------------
(* reachArgs: how a call handed to the reader reaches the server again. *)

QdrantAgain(s) == Given(s, {"ca", "name", "mode"})
S3Again(s) == Given(s, {"ca", "name", "mode"})
VaultAgain(s, route) == Given(s, {"ca", "name"} \cup (IF route \in Forwards THEN {} ELSE {"scheme"}))
KeycloakAgain(s, route) == Given(s, {"ca", "name"} \cup (IF route \in Forwards THEN {} ELSE {"scheme"}))

=============================================================================
