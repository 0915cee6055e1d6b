---------------------------- MODULE KubectlReach ----------------------------
(***************************************************************************)
(* How kube, cnpg and docker reach their server: they run its client, with *)
(* the context a call is given or the client's own, and read from the      *)
(* words it left on stderr which of many failures its one exit code was.   *)
(*                                                                         *)
(* Of a call's settings these three have: context, none, one the client    *)
(* has, one it has not, or one that would be read as a flag; scope, the    *)
(* context's own namespace, one that is named, every one, or both; and for *)
(* docker host, its address or the client's own (name).                    *)
(***************************************************************************)
EXTENDS Reach

Programs == {"kube", "cnpg", "docker"}

---------------------------------------------------------------------------
(* The call. *)

\* selectionFor, selectionOf, connectionOf: refused before the client is run.
KubectlCheck(s) ==
  IF s.context = "dash" THEN Refusal("name.invalid", {})
  ELSE IF s.scope = "both" THEN Refusal("namespace.ambiguous", {[scope |-> "named"], [scope |-> "every"]})
  ELSE Unrefused
DockerCheck(s) ==
  IF s.context = "dash" THEN Refusal("name.invalid", {})
  ELSE IF s.host = "dash" THEN Refusal("host.invalid", {})
  ELSE Unrefused

\* args: the cluster or the daemon the client is sent to; none is the client's own.
ProgramWire(s) == [Plain EXCEPT !.name = IF s.context = "none" THEN "any" ELSE s.context]

\* reachArgs, callArgs: what a call handed to the reader gives.  A namespace is where the object
\* was found and is of the call, not of what it reaches.
DockerAgain(s) == Given(s, {"context"} \cup (IF s.host = "address" THEN {"host"} ELSE {}))
KubectlAgain(s) == Given(s, {"context"})

---------------------------------------------------------------------------
(* What the client leaves on stderr: the sets of words any of which it may be. *)

\* The API server's answer, or that of an API behind it: "status" begins its line.
KubectlAnswers(s, server) ==
  IF server.secret # s.secret THEN {{"Unauthorized"}}
  ELSE IF ~server.grants THEN {{"status", "forbidden"}}
  ELSE IF server.serves = "no type" THEN {{"doesn't have a resource type"}}
  ELSE IF server.serves = "no resource" THEN {{"status", "could not find the requested resource"}}
  ELSE IF server.serves = "nothing behind" THEN {{"status", "dial tcp"}, {"status", "context deadline exceeded"}}
  ELSE IF server.serves = "no object" THEN {{"status", "not found"}}
  ELSE {{}}

\* kubectl with no kubeconfig, or with none current, may ask localhost.  A credential plugin's
\* failure may carry the API server's own words, from client-go's retries.
Dialling(server) ==
  CASE server.reach = "refuses"             -> {{"was refused"}, {"connection refused", "dial tcp"}}
    [] server.reach \in {"silent", "mute"}  -> {{"Unable to connect"}, {"deadline"}}
    [] server.reach = "answers" /\ server.issuer = "nobody" -> {{"Unable to connect"}}
    [] OTHER                                -> {{"Unable to connect", "dial tcp"}}

KubectlMeets(s, server) ==
  IF server.machine = "no client" THEN {{"executable not found"}}
  ELSE IF server.machine = "no config" THEN {{"no configuration has been provided"}, {"was refused"}}
  ELSE IF s.context = "wrong" THEN {{"context", "does not exist"}, {"context was not found", "not found"}}
  ELSE IF s.context = "none" /\ server.machine = "none current" THEN {{"current-context is not set"}, {"was refused"}}
  ELSE IF s.context = "none" /\ server.machine = "astray" THEN {{"context was not found", "not found"}}
  ELSE IF server.helper = "lapsed"
  THEN {{"getting credentials", "failed with exit code"}, {"getting credentials", "failed with exit code", "Unauthorized"}}
  ELSE IF server.helper = "missing" THEN {{"getting credentials", "executable not found there"}}
  ELSE IF server.helper = "dropped" THEN {{"no Auth Provider found"}}
  ELSE IF server.reach = "answers" /\ server.issuer # "nobody" THEN KubectlAnswers(s, server)
  ELSE Dialling(server)

\* docker, whose daemon is most often on this machine.  It takes a host or a context, not both.
DockerMeets(s, server) ==
  IF server.machine = "no client" THEN {{"executable not found"}}
  ELSE IF s.host = "address" /\ s.context # "none" THEN {{"conflicting options"}}
  ELSE IF s.context = "wrong" THEN {{"context", "not found"}}
  ELSE IF s.context = "none" /\ s.host # "address" /\ server.machine = "astray" THEN {{"context", "not found"}}
  ELSE IF server.reach = "refuses" THEN {{"Cannot connect to the Docker daemon"}, {"connection refused"}}
  ELSE IF server.reach \in {"silent", "mute"} THEN {{"deadline"}}
  ELSE IF server.reach # "answers" THEN {{"error during connect"}}
  ELSE IF ~server.grants THEN {{"permission denied"}}
  ELSE IF server.serves = "no object" THEN {{"no such container"}}
  ELSE {{}}

ProgramMeets(s, c, server) == IF c.plugin = "docker" THEN DockerMeets(s, server) ELSE KubectlMeets(s, server)

---------------------------------------------------------------------------
(* classify: the order in which the words are looked for is what tells the failures apart. *)

Unreached == Refusal("unreachable", {})
ContextOther(s) == IF s.context = "none" THEN {} ELSE {[context |-> "right"]}

\* transportFailed: kubectl's own sentences, and never a status that quotes one.
KubeTransportFailed(err) ==
  "status" \notin err /\ err \cap {"Unable to connect", "was refused", "context deadline exceeded"} # {}

\* kube: the credential plugin is looked for in all of stderr, and ahead of a 401 that its retries
\* may carry; the rest on the first line.
KubeTold(err, s) ==
  IF "deadline" \in err THEN Unreached
  ELSE IF "executable not found" \in err THEN Refusal("client.missing", {})
  ELSE IF {"getting credentials", "failed with exit code"} \subseteq err THEN Refusal("login", {})
  ELSE IF {"getting credentials", "executable not found there"} \subseteq err THEN Refusal("credential.missing", {})
  ELSE IF "no Auth Provider found" \in err THEN Refusal("credential.missing", {})
  ELSE IF "getting credentials" \in err THEN Refusal("login", {})
  ELSE IF "no configuration has been provided" \in err THEN Refusal("noconfig", {})
  ELSE IF "current-context is not set" \in err THEN Refusal("context.none", {})
  ELSE IF {"context", "does not exist"} \subseteq err \/ "context was not found" \in err
  THEN Refusal("context.unknown", ContextOther(s))
  ELSE IF "forbidden" \in err THEN Refusal("denied", {})
  ELSE IF "Unauthorized" \in err THEN Refusal("auth.failed", {})
  ELSE IF err \cap {"connection refused", "dial tcp"} # {} \/ KubeTransportFailed(err) THEN Unreached
  ELSE IF err \cap {"not found", "could not find the requested resource"} # {} THEN Refusal("notfound", {})
  ELSE Refusal("failed", {})

\* unreachable, credentialUnavailable.
CnpgUnreachable(err) == err \cap {"Unable to connect", "connection refused", "dial tcp"} # {}
CnpgNoCredential(err) == err \cap {"getting credentials", "no Auth Provider found"} # {}

\* denied: a read of every namespace is a right of its own, and one namespace needs less.
CnpgDenied(s) == Refusal("denied", IF s.scope = "every" THEN {[scope |-> "named"]} ELSE {})

\* contextRefused: the call's context is at fault where it gave one and kubectl has none of the name.
CnpgNoContext(err, s) ==
  Refusal("context.none",
    IF {"context", "does not exist"} \subseteq err \/ "context was not found" \in err THEN ContextOther(s) ELSE {})

\* cnpg: a context that was not found is no object that was not found.
CnpgTold(err, s) ==
  IF "deadline" \in err THEN Unreached
  ELSE IF "executable not found" \in err THEN Refusal("client.missing", {})
  ELSE IF CnpgNoCredential(err) THEN Refusal("login", {})
  ELSE IF "Unauthorized" \in err THEN Refusal("auth.failed", {})
  ELSE IF "forbidden" \in err THEN CnpgDenied(s)
  ELSE IF "doesn't have a resource type" \in err THEN Refusal("crd.missing", {})
  ELSE IF "could not find the requested resource" \in err THEN Refusal("resource.unserved", {})
  ELSE IF CnpgUnreachable(err) THEN Unreached
  ELSE IF \/ err \cap {"current-context is not set", "no configuration has been provided", "context was not found"} # {}
          \/ {"context", "does not exist"} \subseteq err
  THEN CnpgNoContext(err, s)
  ELSE IF "not found" \in err THEN Refusal("cluster.missing", {})
  ELSE Refusal("failed", {})

DockerTold(err, s) ==
  IF "deadline" \in err THEN Unreached
  ELSE IF "executable not found" \in err THEN Refusal("client.missing", {})
  ELSE IF err \cap {"Cannot connect to the Docker daemon", "connection refused"} # {} THEN Unreached
  ELSE IF "permission denied" \in err THEN Refusal("denied", {})
  ELSE IF "no such container" \in err THEN Refusal("notfound", {})
  ELSE IF {"context", "not found"} \subseteq err THEN Refusal("context.unknown", ContextOther(s))
  ELSE Refusal("failed", {})

ProgramTold(err, s, plugin) ==
  CASE plugin = "kube"   -> KubeTold(err, s)
    [] plugin = "cnpg"   -> CnpgTold(err, s)
    [] plugin = "docker" -> DockerTold(err, s)

=============================================================================
