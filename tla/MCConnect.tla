----------------------------- MODULE MCConnect -----------------------------
(***************************************************************************)
(* Each plugin's calls, the settings it can be given and the servers it    *)
(* can meet, a thing or two away from a call that works.                   *)
(***************************************************************************)
EXTENDS Connect

None == [mode |-> "off", scheme |-> "bare", host |-> "name", far |-> "none", ca |-> "none", name |-> "none",
         pair |-> "none", home |-> "none", secret |-> "p", context |-> "none", scope |-> "own"]

Tls(modes, cas, names) ==
  {[None EXCEPT !.mode = m, !.ca = ca, !.name = n] : m \in modes, ca \in cas, n \in names}

Switch == {"off", "on"}
Mine == {"none", "issuer"}
Name == {"none", "right"}
Contexts == {"none", "right", "wrong", "dash"}
OfContext == {[None EXCEPT !.context = x, !.scope = scope] : x \in Contexts, scope \in {"own", "named", "every", "both"}}

MCSettingsOf ==
  [redis    |-> {[s EXCEPT !.pair = pair, !.secret = secret] :
                  s \in Tls(Switch, Mine \cup {"other"}, Name \cup {"wrong"}),
                  pair \in {"none", "key", "both"}, secret \in {"none", "p"}}
                \cup {[None EXCEPT !.ca = "bad"], [None EXCEPT !.pair = "torn"], [None EXCEPT !.pair = "cert"]},
   etcd     |-> {[s EXCEPT !.scheme = scheme, !.pair = pair, !.secret = secret] :
                  s \in Tls(Switch, Mine, Name), scheme \in {"bare", "http", "https"},
                  pair \in {"none", "both"}, secret \in {"none", "p"}}
                \cup {[None EXCEPT !.ca = "bad"], [None EXCEPT !.pair = "torn"], [None EXCEPT !.pair = "key"]},
   qdrant   |-> {[s EXCEPT !.far = far] : s \in Tls(Switch, Mine \cup {"other", "bad"}, Name \cup {"wrong"}), far \in {"none", "tls"}},
   s3       |-> {[s EXCEPT !.secret = secret] : s \in Tls(Switch, Mine, Name), secret \in {"none", "p"}},
   vault    |-> {[s EXCEPT !.scheme = scheme, !.far = far] :
                  s \in Tls({"off"}, Mine \cup {"other", "bad"}, Name \cup {"wrong"}), scheme \in {"http", "https"}, far \in {"none", "tls"}},
   keycloak |-> {[s EXCEPT !.scheme = scheme, !.far = far, !.secret = secret] :
                  s \in Tls({"off"}, Mine, Name), scheme \in {"http", "https"}, far \in {"none", "tls"}, secret \in {"none", "p"}},
   mysql    |-> Tls({"false", "preferred", "skip-verify", "true", "verify-ca"}, Mine \cup {"other", "bad"}, Name \cup {"wrong"}),
   mariadb  |-> Tls({"false", "preferred", "skip-verify", "true", "verify-ca"}, Mine, Name),
   pg       |-> LET modes == {"disable", "prefer", "require", "verify-ca", "verify-full"} IN
                Tls(modes, Mine \cup {"other", "system"}, {"none"})
                  \cup {[s EXCEPT !.host = "address"] : s \in Tls(modes, Mine \cup {"system"}, Name \cup {"wrong"})}
                  \cup {[s EXCEPT !.home = home] : s \in Tls(modes, Mine, {"none"}), home \in {"root", "crl"}}
                  \cup {[s EXCEPT !.pair = pair] : s \in Tls(modes, Mine, {"none"}), pair \in {"cert", "torn", "both"}},
   kube     |-> OfContext,
   cnpg     |-> OfContext,
   docker   |-> {[None EXCEPT !.context = x, !.host = h] : x \in Contexts, h \in {"name", "address", "dash"}}]

---------------------------------------------------------------------------
Well == [reach |-> "answers", tls |-> "only", issuer |-> "own", names |-> "other", revoked |-> FALSE, pair |-> "none",
         secret |-> "p", grants |-> TRUE, machine |-> "ready", helper |-> "ready", serves |-> "it", ready |-> TRUE, redirects |-> FALSE, old |-> FALSE, skewed |-> FALSE,
         plainly |-> "says so"]
Public == [Well EXCEPT !.issuer = "public", !.names = "host"]

Anywhere ==
  {[Well EXCEPT !.reach = r] : r \in {"silent", "mute", "refuses", "no route", "no name", "no resolver"}}
    \cup {Well, Public, [Public EXCEPT !.revoked = TRUE], [Well EXCEPT !.names = "nobody"], [Well EXCEPT !.names = "host"],
          [Public EXCEPT !.names = "nobody", !.revoked = TRUE],
          [Well EXCEPT !.tls = "none"], [Public EXCEPT !.tls = "optional"],
          [Public EXCEPT !.secret = "q"], [Public EXCEPT !.tls = "none", !.secret = "q"],
          [Public EXCEPT !.grants = FALSE, !.tls = "optional"], [Public EXCEPT !.ready = FALSE, !.tls = "optional"]}
Plainly == {[Public EXCEPT !.plainly = how] : how \in {"alerts", "hangs up"}} \cup {[Public EXCEPT !.redirects = TRUE]}
Paired == {[Well EXCEPT !.pair = "wants"], [Public EXCEPT !.pair = "other"]}
Local ==
  {[Well EXCEPT !.reach = r] : r \in {"silent", "refuses", "no route", "no name", "no resolver"}}
    \cup {Well, [Well EXCEPT !.secret = "q"], [Well EXCEPT !.grants = FALSE], [Well EXCEPT !.issuer = "nobody"]}
    \cup {[Well EXCEPT !.machine = m] : m \in {"no client", "no config", "none current", "astray"}}
    \cup {[Well EXCEPT !.helper = h] : h \in {"lapsed", "missing", "dropped"}}
    \cup {[Well EXCEPT !.serves = x] : x \in {"no type", "no resource", "nothing behind", "no object"}}

MCServersOf ==
  [redis    |-> Anywhere \cup Paired \cup {[Well EXCEPT !.tls = "none", !.secret = "none"],
                                           [Well EXCEPT !.tls = "none", !.secret = "q", !.old = TRUE]},
   etcd     |-> Anywhere \cup Paired \cup {[Well EXCEPT !.tls = "none", !.secret = "none"]},
   qdrant   |-> Anywhere \cup Plainly,
   s3       |-> Anywhere \cup Plainly,
   vault    |-> Anywhere \cup Plainly,
   keycloak |-> Anywhere \cup Plainly \cup {[Public EXCEPT !.skewed = TRUE]},
   mysql    |-> Anywhere,
   mariadb  |-> Anywhere,
   pg       |-> Anywhere \cup Paired,
   kube     |-> Local,
   cnpg     |-> Local,
   docker   |-> Local]

\* A dump by each of the tools that differ, and a call through each kind of forward.
ACall(plugin, route) == [plugin |-> plugin, route |-> route, dump |-> FALSE, tool |-> "none"]
ADump(plugin, route, tool) == [plugin |-> plugin, route |-> route, dump |-> TRUE, tool |-> tool]
MCCalls ==
  {ACall(plugin, route) : plugin \in DOMAIN MCSettingsOf \ ({"mysql", "mariadb", "pg"} \cup Programs), route \in {"direct", "ssh"}}
    \cup {ACall(plugin, "direct") : plugin \in Programs}
    \cup {ACall("mysql", "kube"), ADump("mysql", "direct", "any")}
    \cup {ADump("mariadb", "direct", tool) : tool \in {"pins", "chain"}}
    \cup {ACall("pg", "kube"), ADump("pg", "kube", "new"), ADump("pg", "ssh", "new")}
    \cup {ADump("pg", "direct", tool) : tool \in {"new", "old"}}

=============================================================================
