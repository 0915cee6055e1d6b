------------------------------- MODULE Reach -------------------------------
(***************************************************************************)
(* What the ways to reach a server share: the settings a call is made      *)
(* with, what it connects with, what is wrong with a connection that       *)
(* failed, and a refusal with the settings it sends its reader to.         *)
(*                                                                         *)
(* Settings are a record.  What a setting is given as is abstract: ca is   *)
(* none, the CA that issued the server's certificate, another one, or a    *)
(* file that is no CA; name is none, one the certificate carries, or       *)
(* another; pair is a client certificate, its key, both, or two that do    *)
(* not belong together.                                                    *)
(***************************************************************************)
EXTENDS Integers

\* The routes a host opens for a call, which end at 127.0.0.1.
Forwards == {"kube", "ssh"}

\* A refusal: its code, and its advice, the changes of settings any of which it sends its
\* reader to.
Refusal(code, advice) == [code |-> code, advice |-> advice]
Unrefused == Refusal("", {})

\* A secret that was turned down is to be another.
Another(s) == {[secret |-> p] : p \in {"p", "q"} \ {s.secret}}

\* The settings after one change.
Change(s, change) ==
  LET now(f) == IF f \in DOMAIN change THEN change[f] ELSE s[f] IN
  [mode |-> now("mode"), scheme |-> now("scheme"), host |-> now("host"), far |-> now("far"), ca |-> now("ca"),
   name |-> now("name"), pair |-> now("pair"), home |-> now("home"), secret |-> now("secret"),
   context |-> now("context"), scope |-> now("scope")]

\* Of some settings, those that are given.  A switch is given where it is on.
Given(s, fields) == [f \in {g \in fields : s[g] \notin {"none", "off"}} |-> s[f]]

---------------------------------------------------------------------------
(* What a call connects with. *)

\* tls: no, must, or may, which takes what the server offers.  roots: who may have issued the
\* certificate.  name: what it is checked for, the host dialled unless one is given.
Plain == [tls |-> "no", roots |-> "any", name |-> "any", pair |-> FALSE]
Over(roots, name, pair) == [tls |-> "must", roots |-> roots, name |-> name, pair |-> pair]
Roots(ca) == IF ca \in {"none", "system"} THEN "public" ELSE ca
NameOr(s, otherwise) == IF s.name = "none" THEN otherwise ELSE s.name

\* A client certificate is used in full or not at all.
Verified(s) == Over(Roots(s.ca), NameOr(s, "host"), s.pair = "both")

\* One connection checks no less than another: what it verifies is verified, against the CA and
\* for the name it was given.  A certificate pinned was verified by the connection that pinned it.
ChecksAsMuch(one, other) ==
  /\ other.tls = "must" => one.tls = "must"
  /\ other.roots # "any" => one.roots # "any"
  /\ other.roots \notin {"any", "public"} => one.roots \in {other.roots, "pinned"}
  /\ other.name # "any" => one.name # "any"
  /\ other.name \notin {"any", "host"} => one.name = other.name

---------------------------------------------------------------------------
(* Go's verifier, and the system's in its place where no CA is named. *)

NameHolds(server, wire, route) ==
  CASE wire.name = "any"   -> TRUE
    [] wire.name = "host"  -> server.names = "host" /\ route \notin Forwards
    [] wire.name = "right" -> server.names # "nobody"
    [] wire.name = "wrong" -> FALSE

ChainHolds(server, wire) ==
  wire.roots \in {"any", "issuer"} \/ (wire.roots = "public" /\ server.issuer = "public")

\* A revoked certificate is caught by the system's verifier alone.  The name is read before the
\* chain is built, and what was presented is known whatever is wrong with it.  A chain checked
\* and no name is a check of the plugin's own, which says no more than who is not trusted.
Verdict(server, wire, route) ==
  LET chain == IF ChainHolds(server, wire) THEN {} ELSE {"untrusted"}
      why == IF server.revoked /\ wire.roots = "public" /\ chain = {} THEN {"revoked"}
             ELSE IF NameHolds(server, wire, route) THEN chain
             ELSE {"hostname"} IN
  IF wire.name = "any" \/ why = {} THEN chain
  ELSE why \cup {"verify"} \cup (IF server.names = "nobody" THEN {"nameless"} ELSE {})

\* A client certificate the server takes.
PairTaken(server, wire) == server.pair = "none" \/ (server.pair = "wants" /\ wire.pair)

---------------------------------------------------------------------------
(* Settings refused before anything is dialled, the same words in several plugins. *)

\* tlsConfig: a CA that is none, half a pair, a pair that is none.
FilesRefused(s) ==
  IF s.ca = "bad" THEN Refusal("tls.ca.invalid", {[ca |-> "issuer"]})
  ELSE IF s.pair = "cert" THEN Refusal("tls.key.missing", {[pair |-> "both"]})
  ELSE IF s.pair = "key" THEN Refusal("tls.cert.missing", {[pair |-> "both"]})
  ELSE IF s.pair = "torn" THEN Refusal("tls.pair.invalid", {[pair |-> "both"]})
  ELSE Unrefused

\* The dial's own failures: nothing there to set but the address.
Unroutable == Refusal("conn.unreachable", {})
Refused == Refusal("conn.refused", {})
Unknown == Refusal("host.unknown", {})
TimedOut == Refusal("timeout", {})

\* plugin.ForwardNameRefusal: the name to check in place of the forward's end.
ForwardName == Refusal("tls.forward", {[name |-> "right"]})

=============================================================================
