--------------------------- MODULE Connect_proofs ---------------------------
(***************************************************************************)
(* What is proved of a call, whatever the settings its plugin may be given *)
(* and whatever the servers it meets.                                      *)
(*                                                                         *)
(* The plugins' operators come first, each plugin by itself: the settings  *)
(* it may come to have, what it connects with, what it sends its reader    *)
(* to.  CallInv then holds of the call, and the rest of it rests on that:  *)
(* the secret, the tool that meets what the plugin met (AlikeInv), what is *)
(* told having been so (HonestInv), the call handed out, and what a        *)
(* refusal's advice keeps clear of (ClearInv).                             *)
(***************************************************************************)
EXTENDS Connect, TLAPS

---------------------------------------------------------------------------
(* Refusals, by their codes. *)

LEMMA CodeOfUnrefused == Unrefused.code = "" /\ Unrefused.advice = {}
BY DEF Unrefused, Refusal

LEMMA FilesTaken ==
  ASSUME NEW s, FilesRefused(s) = Unrefused
  PROVE  s.ca # "bad" /\ s.pair \notin {"cert", "key", "torn"}
<1>1. FilesRefused(s).code = ""
  BY CodeOfUnrefused
<1> QED
  BY <1>1 DEF FilesRefused, Refusal

---------------------------------------------------------------------------
(* The settings a call may come to be made with: its plugin's, and of a    *)
(* forwarded call three that the host fills.                               *)

Filled(c) == IF c.route \in Forwards THEN {"mode", "scheme", "host"} ELSE {}

Sound(s, c) ==
  /\ DOMAIN s = Fields
  /\ \A f \in Fields \ Filled(c) : s[f] \in Values(c.plugin)[f]
  /\ s.mode = Fill(s, c).mode /\ s.scheme = Fill(s, c).scheme /\ s.host = Fill(s, c).host

LEMMA SettingsAre ==
  ASSUME NEW s, NEW c, Sound(s, c)
  PROVE  /\ s.ca \in Values(c.plugin).ca /\ s.name \in Values(c.plugin).name /\ s.pair \in Values(c.plugin).pair
         /\ s.far \in Values(c.plugin).far /\ s.home \in Values(c.plugin).home /\ s.secret \in Values(c.plugin).secret
         /\ s.context \in Values(c.plugin).context /\ s.scope \in Values(c.plugin).scope
         /\ c.route \notin Forwards => /\ s.mode \in Values(c.plugin).mode /\ s.scheme \in Values(c.plugin).scheme
                                       /\ s.host \in Values(c.plugin).host
         /\ c.route \in Forwards => /\ s.mode = Fill(s, c).mode /\ s.scheme = Fill(s, c).scheme
                                    /\ s.host = Fill(s, c).host
BY DEF Sound, Fields, Filled

\* redis, etcd, qdrant, s3: a switch beside the address.
LEMMA SwitchSettings ==
  ASSUME NEW s, NEW c, Sound(s, c), c.plugin \in {"redis", "etcd", "qdrant", "s3"}
  PROVE  /\ s.mode \in {"off", "on"}
         /\ c.plugin # "etcd" => s.scheme = "bare"
         /\ s.scheme \in {"bare", "http", "https"}
         /\ s.ca \in {"none", "issuer", "other", "bad"} /\ s.name \in {"none", "right", "wrong"}
         /\ s.pair \in {"none", "cert", "key", "both", "torn"} /\ (c.plugin \in {"qdrant", "s3"} => s.pair = "none")
         /\ c.route \in Forwards => s.scheme = "bare" /\ s.mode = IF s.far = "tls" THEN "on" ELSE "off"
<1> USE DEF Mysqls, ByURL, Programs, Plugins
<1>1. CASE c.route \notin Forwards
  BY <1>1, SettingsAre DEF Values
<1>2. CASE c.route \in Forwards
  <2>1. Fill(s, c).mode = IF s.far = "tls" THEN "on" ELSE "off"
    BY <1>2 DEF Fill, Sound, Fields
  <2>2. Fill(s, c).scheme = "bare"
    BY <1>2 DEF Fill, Sound, Fields
  <2> QED
    BY <1>2, <2>1, <2>2, SettingsAre DEF Values
<1> QED
  BY <1>1, <1>2

\* vault, keycloak: the address is a URL.
LEMMA UrlSettings ==
  ASSUME NEW s, NEW c, Sound(s, c), c.plugin \in ByURL
  PROVE  /\ s.scheme \in {"http", "https"}
         /\ s.mode \in {"off", "on"} /\ (s.mode = "on" => s.scheme = "https")
         /\ s.ca \in {"none", "issuer", "other", "bad"} /\ s.name \in {"none", "right", "wrong"}
         /\ s.pair = "none"
         /\ c.route \in Forwards => s.scheme = IF s.far = "tls" THEN "https" ELSE "http"
<1> USE DEF Mysqls, ByURL, Programs, Plugins
<1>1. CASE c.route \notin Forwards
  BY <1>1, SettingsAre DEF Values
<1>2. CASE c.route \in Forwards
  <2>1. Fill(s, c).mode = IF s.far = "tls" THEN "on" ELSE "off"
    BY <1>2 DEF Fill, Sound, Fields
  <2>2. Fill(s, c).scheme = IF s.far = "tls" THEN "https" ELSE "http"
    BY <1>2 DEF Fill, Sound, Fields
  <2> QED
    BY <1>2, <2>1, <2>2, SettingsAre DEF Values
<1> QED
  BY <1>1, <1>2

LEMMA MysqlSettings ==
  ASSUME NEW s, NEW c, Sound(s, c), c.plugin \in Mysqls
  PROVE  /\ s.mode \in {"false", "preferred", "skip-verify", "verify-ca", "true"}
         /\ s.scheme = "bare"
         /\ s.ca \in {"none", "issuer", "other", "bad"} /\ s.name \in {"none", "right", "wrong"}
         /\ s.pair = "none"
         /\ c.route \in Forwards => s.mode = "false"
<1> USE DEF Mysqls, ByURL, Programs, Plugins
<1>1. CASE c.route \notin Forwards
  BY <1>1, SettingsAre DEF Values
<1>2. CASE c.route \in Forwards
  <2>1. Fill(s, c).mode = "false" /\ Fill(s, c).scheme = "bare"
    BY <1>2 DEF Fill, Sound, Fields
  <2> QED
    BY <1>2, <2>1, SettingsAre DEF Values
<1> QED
  BY <1>1, <1>2

LEMMA PgSettings ==
  ASSUME NEW s, NEW c, Sound(s, c), c.plugin = "pg"
  PROVE  /\ s.mode \in {"disable", "prefer", "require", "verify-ca", "verify-full"}
         /\ s.scheme = "bare"
         /\ s.ca \in {"none", "issuer", "other", "bad", "system"} /\ s.name \in {"none", "right", "wrong"}
         /\ s.pair \in {"none", "cert", "key", "both", "torn"} /\ s.home \in {"none", "root", "crl"}
         /\ c.route \in Forwards => s.mode = "disable"
<1> USE DEF Mysqls, ByURL, Programs, Plugins
<1>1. CASE c.route \notin Forwards
  BY <1>1, SettingsAre DEF Values
<1>2. CASE c.route \in Forwards
  <2>1. Fill(s, c).mode = "disable" /\ Fill(s, c).scheme = "bare"
    BY <1>2 DEF Fill, Sound, Fields
  <2> QED
    BY <1>2, <2>1, SettingsAre DEF Values
<1> QED
  BY <1>1, <1>2

---------------------------------------------------------------------------
(* A connection whose settings were not refused checks what they ask. *)

\* One connection does what the settings of a call ask.
Does(w, s, c) == AskedTLS(s, c) => w.tls = "must" /\ ChecksAsMuch(w, Asked(s, c))

LEMMA RedisDoes ==
  ASSUME NEW s, NEW c, Sound(s, c), c.plugin = "redis", RedisCheck(s) = Unrefused
  PROVE  Does(RedisWire(s), s, c)
<1> SUFFICES ASSUME AskedTLS(s, c) PROVE RedisWire(s).tls = "must" /\ ChecksAsMuch(RedisWire(s), Asked(s, c))
  BY DEF Does
<1>1. RedisTLS(s)
  BY SwitchSettings DEF AskedTLS, RedisTLS, ByURL, Mysqls
<1>2. s.ca # "bad"
  BY <1>1, FilesTaken DEF RedisCheck
<1> QED
  BY <1>1, <1>2, SwitchSettings DEF RedisWire, Asked, Verified, ChecksAsMuch, Over, Plain, Roots, NameOr

LEMMA EtcdDoes ==
  ASSUME NEW s, NEW c, Sound(s, c), c.plugin = "etcd", EtcdCheck(s) = Unrefused
  PROVE  Does(EtcdWire(s), s, c)
<1> SUFFICES ASSUME AskedTLS(s, c) PROVE EtcdWire(s).tls = "must" /\ ChecksAsMuch(EtcdWire(s), Asked(s, c))
  BY DEF Does
<1>1. EtcdPlaintext(s).code = "" /\ (EtcdAsksTLS(s) => FilesRefused(s) = Unrefused)
  BY CodeOfUnrefused DEF EtcdCheck, EtcdFiles
<1>2. s.scheme = "https" \/ (EtcdAsksTLS(s) /\ s.scheme = "bare")
  BY <1>1, SwitchSettings DEF AskedTLS, EtcdAsksTLS, EtcdPlaintext, Refusal, ByURL, Mysqls
<1>3. s.ca # "bad"
  BY <1>1, FilesTaken DEF EtcdAsksTLS
<1> QED
  BY <1>2, <1>3, SwitchSettings DEF EtcdWire, Asked, Verified, ChecksAsMuch, Over, Plain, Roots, NameOr

LEMMA HttpDoes ==
  ASSUME NEW s, NEW c, Sound(s, c), c.plugin \in {"qdrant", "s3"} \cup ByURL,
         BundleRefused(s) = Unrefused,
         c.plugin \in ByURL => s.scheme = "https" \/ (s.ca = "none" /\ s.name = "none")
  PROVE  Does(SwitchWire(IF c.plugin \in ByURL THEN s.scheme = "https" ELSE QdrantTLS(s), s), s, c)
<1> SUFFICES ASSUME AskedTLS(s, c)
             PROVE  LET w == SwitchWire(IF c.plugin \in ByURL THEN s.scheme = "https" ELSE QdrantTLS(s), s)
                    IN  w.tls = "must" /\ ChecksAsMuch(w, Asked(s, c))
  BY DEF Does
<1>1. s.ca # "bad"
  <2>1. BundleRefused(s).code = ""
    BY CodeOfUnrefused
  <2> QED
    BY <2>1 DEF BundleRefused, Refusal
<1>2. CASE c.plugin \in {"qdrant", "s3"}
  <2>1. QdrantTLS(s)
    BY <1>2, SwitchSettings DEF AskedTLS, QdrantTLS, ByURL, Mysqls
  <2> QED
    BY <1>1, <1>2, <2>1, SwitchSettings DEF SwitchWire, Asked, Verified, ChecksAsMuch, Over, Plain, Roots, NameOr, ByURL
<1>3. CASE c.plugin \in ByURL
  <2>1. s.scheme = "https"
    BY <1>3, UrlSettings DEF AskedTLS, ByURL, Mysqls
  <2> QED
    BY <1>1, <1>3, <2>1, UrlSettings DEF SwitchWire, Asked, Verified, ChecksAsMuch, Over, Plain, Roots, NameOr
<1> QED
  BY <1>2, <1>3

LEMMA MysqlDoes ==
  ASSUME NEW s, NEW c, Sound(s, c), c.plugin \in Mysqls, MysqlCheck(s, c.route) = Unrefused
  PROVE  /\ Does(MysqlWire(s, c.route), s, c)
         /\ MysqlMode(s, c.route) \in {"false", "preferred", "skip-verify", "verify-ca", "true"}
         /\ AskedTLS(s, c) => MysqlMode(s, c.route) \notin {"false", "preferred"}
<1> DEFINE mode == MysqlMode(s, c.route)
<1>1. mode \in {"false", "preferred", "skip-verify", "verify-ca", "true"}
  BY MysqlSettings DEF MysqlMode
<1>2. s.name # "none" => mode = "true"
  <2>1. MysqlNameCheck(s, c.route).code = ""
    BY CodeOfUnrefused DEF MysqlCheck
  <2> QED
    BY <2>1 DEF MysqlNameCheck, Refusal
<1>3. /\ s.ca # "none" => mode \notin {"preferred", "skip-verify"}
      /\ s.ca = "none" => mode # "verify-ca"
      /\ s.ca = "bad" => mode = "false"
  <2>1. MysqlCheck(s, c.route).code = ""
    BY CodeOfUnrefused
  <2> QED
    BY <2>1, <1>1 DEF MysqlCheck, Refusal
<1> HIDE DEF mode
<1>4. AskedTLS(s, c) => /\ mode \notin {"false", "preferred"}
                        /\ s.mode \in {"skip-verify", "verify-ca"} => mode \in {s.mode, "true"}
  BY <1>1, <1>2, <1>3, MysqlSettings DEF mode, MysqlMode, AskedTLS, ByURL, Mysqls
<1>5. AskedTLS(s, c) => MysqlWire(s, c.route).tls = "must" /\ ChecksAsMuch(MysqlWire(s, c.route), Asked(s, c))
  <2> SUFFICES ASSUME AskedTLS(s, c)
               PROVE  MysqlWire(s, c.route).tls = "must" /\ ChecksAsMuch(MysqlWire(s, c.route), Asked(s, c))
    OBVIOUS
  <2>1. CASE mode = "skip-verify"
    BY <2>1, <1>2, <1>3, <1>4, MysqlSettings DEF mode, MysqlMode, MysqlWire, Asked, ChecksAsMuch, Over, Plain, Roots, NameOr
  <2>2. CASE mode = "verify-ca"
    BY <2>2, <1>2, <1>3, <1>4, MysqlSettings DEF mode, MysqlMode, MysqlWire, Asked, ChecksAsMuch, Over, Plain, Roots, NameOr
  <2>3. CASE mode = "true"
    BY <2>3, <1>2, <1>3, <1>4, MysqlSettings DEF mode, MysqlWire, Asked, ChecksAsMuch, Over, Plain, Roots, NameOr
  <2> QED
    BY <1>1, <1>4, <2>1, <2>2, <2>3
<1> QED
  BY <1>1, <1>4, <1>5 DEF Does, mode

LEMMA PgChecked ==
  ASSUME NEW s, NEW c, Sound(s, c), c.plugin = "pg", PgCheck(s, c.route) = Unrefused
  PROVE  /\ PgRootCheck(s, c.route) = Unrefused /\ PgNameCheck(s, c.route) = Unrefused
         /\ PgRevocationCheck(s, c.route) = Unrefused /\ PgPairCheck(s, c.route) = Unrefused
BY DEF PgCheck

LEMMA PgModes ==
  ASSUME NEW s, NEW c, Sound(s, c), c.plugin = "pg", PgCheck(s, c.route) = Unrefused
  PROVE  LET mode == PgMode(s, c.route)
             ca == PgFound(s, c.route).ca
         IN  /\ mode \in {"disable", "prefer", "require", "verify-ca", "verify-full"}
             /\ s.name # "none" => mode = "verify-full"
             /\ ca = IF s.home # "none" /\ s.ca = "none" /\ mode # "disable" THEN "issuer" ELSE s.ca
             /\ mode \in {"prefer", "require"} => ca = "none"
             /\ ca = "none" => mode # "verify-ca"
             /\ ca = "system" => mode \in {"disable", "verify-full"}
             /\ ca = "bad" => mode = "disable"
             /\ s.pair \in {"cert", "key", "torn"} => mode = "disable"
<1> DEFINE mode == PgMode(s, c.route)
           ca == PgFound(s, c.route).ca
<1>1. mode \in {"disable", "prefer", "require", "verify-ca", "verify-full"}
  BY PgSettings DEF PgMode
<1>2. ca = IF s.home # "none" /\ s.ca = "none" /\ mode # "disable" THEN "issuer" ELSE s.ca
  BY DEF PgFound, Sound, Fields
<1>3. PgRootCheck(s, c.route).code = "" /\ PgNameCheck(s, c.route).code = "" /\ PgPairCheck(s, c.route).code = ""
  BY PgChecked, CodeOfUnrefused
<1>4. s.name # "none" => mode = "verify-full"
  BY <1>3 DEF PgNameCheck, Refusal
<1>5. s.pair \in {"cert", "key", "torn"} => mode = "disable"
  BY <1>3 DEF PgPairCheck, Refusal
<1>6. /\ mode \in {"prefer", "require"} => ca = "none"
      /\ ca = "none" => mode # "verify-ca"
      /\ ca = "system" => mode \in {"disable", "verify-full"}
      /\ ca = "bad" => mode = "disable"
  BY <1>3 DEF PgRootCheck, Refusal
<1> QED
  BY <1>1, <1>2, <1>4, <1>5, <1>6

LEMMA PgDoes ==
  ASSUME NEW s, NEW c, Sound(s, c), c.plugin = "pg", PgCheck(s, c.route) = Unrefused
  PROVE  /\ Does(PgWire(s, c.route), s, c)
         /\ AskedTLS(s, c) => PgMode(s, c.route) \notin {"disable", "prefer"}
<1> DEFINE mode == PgMode(s, c.route)
           ca == PgFound(s, c.route).ca
<1>1. /\ mode \in {"disable", "prefer", "require", "verify-ca", "verify-full"}
      /\ s.name # "none" => mode = "verify-full"
      /\ ca = IF s.home # "none" /\ s.ca = "none" /\ mode # "disable" THEN "issuer" ELSE s.ca
      /\ mode \in {"prefer", "require"} => ca = "none"
      /\ ca = "none" => mode # "verify-ca"
      /\ ca = "system" => mode \in {"disable", "verify-full"}
      /\ ca = "bad" => mode = "disable"
  BY PgModes
<1>2. mode = s.mode \/ (c.route \in Forwards /\ mode = "verify-full" /\ s.mode = "disable")
  BY PgSettings DEF PgMode, PgOverForward
<1>3. AskedTLS(s, c) => mode \notin {"disable", "prefer"}
  BY <1>1, PgSettings DEF PgMode, PgOverForward, AskedTLS, ByURL, Mysqls
<1>4. AskedTLS(s, c) => PgWire(s, c.route).tls = "must" /\ ChecksAsMuch(PgWire(s, c.route), Asked(s, c))
  <2> SUFFICES ASSUME AskedTLS(s, c)
               PROVE  PgWire(s, c.route).tls = "must" /\ ChecksAsMuch(PgWire(s, c.route), Asked(s, c))
    OBVIOUS
  <2>1. CASE mode = "require"
    <3>1. PgWire(s, c.route) = Over("any", "any", s.pair = "both")
      BY <2>1 DEF PgWire
    <3> QED
      BY <2>1, <3>1, <1>1, <1>2, PgSettings DEF Asked, ChecksAsMuch, Over, Plain, Roots, NameOr
  <2>2. CASE mode = "verify-ca"
    <3>1. PgWire(s, c.route) = Over(Roots(ca), "any", s.pair = "both")
      BY <2>2 DEF PgWire
    <3> QED
      BY <2>2, <3>1, <1>1, <1>2, PgSettings DEF Asked, ChecksAsMuch, Over, Plain, Roots, NameOr
  <2>3. CASE mode = "verify-full"
    <3>1. PgWire(s, c.route) = Over(Roots(ca), NameOr(s, "host"), s.pair = "both")
      BY <2>3 DEF PgWire
    <3> QED
      BY <2>3, <3>1, <1>1, <1>2, PgSettings DEF Asked, ChecksAsMuch, Over, Plain, Roots, NameOr
  <2> QED
    BY <1>1, <1>3, <2>1, <2>2, <2>3
<1> QED
  BY <1>3, <1>4 DEF Does

\* What a connection may be made with.
Wires ==
  [tls : {"no", "may", "must"}, roots : {"any", "public", "issuer", "other", "bad", "given", "pinned", "system file"},
   name : {"any", "host", "right", "wrong"}, pair : BOOLEAN]

LEMMA WireParts ==
  /\ Plain \in Wires
  /\ \A roots \in {"any", "public", "issuer", "other", "bad"}, name \in {"any", "host", "right", "wrong"}, pair \in BOOLEAN :
       /\ Over(roots, name, pair) \in Wires
       /\ [Over(roots, name, pair) EXCEPT !.tls = "may"] \in Wires
  /\ \A w \in Wires, roots \in {"given", "pinned", "system file"} : [w EXCEPT !.roots = roots] \in Wires
BY DEF Wires, Plain, Over

LEMMA RootsAre ==
  ASSUME NEW ca \in {"none", "issuer", "other", "bad", "system"}
  PROVE  Roots(ca) \in {"public", "issuer", "other", "bad"}
BY DEF Roots

LEMMA NameIs ==
  ASSUME NEW s, s.name \in {"none", "right", "wrong"}
  PROVE  NameOr(s, "host") \in {"host", "right", "wrong"}
BY DEF NameOr

LEMMA VerifiedIsWire ==
  ASSUME NEW s, s.ca \in {"none", "issuer", "other", "bad"}, s.name \in {"none", "right", "wrong"}
  PROVE  Verified(s) \in Wires
<1>1. Roots(s.ca) \in {"any", "public", "issuer", "other", "bad"} /\ NameOr(s, "host") \in {"any", "host", "right", "wrong"}
  BY RootsAre, NameIs
<1>2. (s.pair = "both") \in BOOLEAN
  OBVIOUS
<1> QED
  BY <1>1, <1>2, WireParts DEF Verified

LEMMA MysqlIsWire ==
  ASSUME NEW s, NEW c, Sound(s, c), c.plugin \in Mysqls
  PROVE  MysqlWire(s, c.route) \in Wires
<1> DEFINE mode == MysqlMode(s, c.route)
<1>1. mode \in {"false", "preferred", "skip-verify", "verify-ca", "true"}
  BY MysqlSettings DEF MysqlMode
<1>2. Roots(s.ca) \in {"public", "issuer", "other", "bad"} /\ NameOr(s, "host") \in {"host", "right", "wrong"}
  BY MysqlSettings, RootsAre, NameIs
<1> HIDE DEF mode
<1> QED
  BY <1>1, <1>2, WireParts DEF MysqlWire, mode

LEMMA PgIsWire ==
  ASSUME NEW s, NEW c, Sound(s, c), c.plugin = "pg"
  PROVE  PgWire(s, c.route) \in Wires
<1> DEFINE mode == PgMode(s, c.route)
           ca == PgFound(s, c.route).ca
<1>1. mode \in {"disable", "prefer", "require", "verify-ca", "verify-full"}
  BY PgSettings DEF PgMode
<1>2. ca \in {"none", "issuer", "other", "bad", "system"}
  BY PgSettings DEF PgFound, Sound, Fields
<1>3. Roots(ca) \in {"public", "issuer", "other", "bad"} /\ NameOr(s, "host") \in {"host", "right", "wrong"}
  BY <1>2, PgSettings, RootsAre, NameIs
<1>4. (s.pair = "both") \in BOOLEAN
  OBVIOUS
<1> HIDE DEF mode, ca
<1> QED
  BY <1>1, <1>3, <1>4, WireParts DEF PgWire, mode, ca

\* The plugin's own connection, and its tool's.
LEMMA PluginDoes ==
  ASSUME NEW s, NEW c, IsCall(c), Sound(s, c), c.plugin \notin Programs, Checked(s, c) = Unrefused
  PROVE  WireOf(s, c) \in Wires /\ Does(WireOf(s, c), s, c)
<1> USE DEF Mysqls, ByURL, Programs, Plugins
<1>1. CASE c.plugin = "redis"
  <2>1. WireOf(s, c) = RedisWire(s) /\ RedisCheck(s) = Unrefused
    BY <1>1 DEF WireOf, Checked
  <2>2. Verified(s) \in Wires
    BY <1>1, SwitchSettings, VerifiedIsWire
  <2>3. RedisWire(s) \in Wires
    BY <2>2, WireParts DEF RedisWire
  <2>4. Does(RedisWire(s), s, c)
    BY <1>1, <2>1, RedisDoes
  <2> QED
    BY <2>1, <2>3, <2>4
<1>2. CASE c.plugin = "etcd"
  <2>1. WireOf(s, c) = EtcdWire(s) /\ EtcdCheck(s) = Unrefused
    BY <1>2 DEF WireOf, Checked
  <2>2. Verified(s) \in Wires
    BY <1>2, SwitchSettings, VerifiedIsWire
  <2>3. EtcdWire(s) \in Wires
    BY <2>2, WireParts DEF EtcdWire
  <2>4. Does(EtcdWire(s), s, c)
    BY <1>2, <2>1, EtcdDoes
  <2> QED
    BY <2>1, <2>3, <2>4
<1>3. CASE c.plugin \in {"qdrant", "s3"}
  <2>1. WireOf(s, c) = SwitchWire(QdrantTLS(s), s) /\ BundleRefused(s) = Unrefused
    BY <1>3 DEF WireOf, Checked, QdrantTLS, S3TLS
  <2>2. Verified(s) \in Wires
    BY <1>3, SwitchSettings, VerifiedIsWire
  <2>3. SwitchWire(QdrantTLS(s), s) \in Wires
    BY <2>2, WireParts DEF SwitchWire
  <2>4. c.plugin \notin ByURL
    BY <1>3
  <2>5. Does(SwitchWire(QdrantTLS(s), s), s, c)
    BY <1>3, <2>1, <2>4, HttpDoes
  <2> QED
    BY <2>1, <2>3, <2>5
<1>4. CASE c.plugin \in ByURL
  <2>1. WireOf(s, c) = SwitchWire(s.scheme = "https", s)
    BY <1>4 DEF WireOf, UrlWire
  <2>2. \/ c.plugin = "vault" /\ VaultCheck(s, c.route) = Unrefused
        \/ c.plugin = "keycloak" /\ KeycloakCheck(s, c.route) = Unrefused
    BY <1>4 DEF Checked
  <2>3. VaultCheck(s, c.route).code = "" \/ KeycloakCheck(s, c.route).code = ""
    BY <2>2, CodeOfUnrefused
  <2>4. s.scheme = "https" \/ (s.ca = "none" /\ s.name = "none")
    BY <2>3 DEF VaultCheck, KeycloakCheck, Refusal
  <2>5. BundleRefused(s) = Unrefused
    <3>1. VaultCheck(s, c.route).code = "" => VaultCheck(s, c.route) = BundleRefused(s)
      BY DEF VaultCheck, Refusal
    <3>2. KeycloakCheck(s, c.route).code = "" => KeycloakCheck(s, c.route) = BundleRefused(s)
      BY DEF KeycloakCheck, Refusal
    <3>3. CASE VaultCheck(s, c.route) = Unrefused
      <4>1. VaultCheck(s, c.route).code = ""
        BY <3>3, CodeOfUnrefused
      <4> QED
        BY <3>1, <3>3, <4>1
    <3>4. CASE KeycloakCheck(s, c.route) = Unrefused
      <4>1. KeycloakCheck(s, c.route).code = ""
        BY <3>4, CodeOfUnrefused
      <4> QED
        BY <3>2, <3>4, <4>1
    <3> QED
      BY <2>2, <3>3, <3>4
  <2>6. Verified(s) \in Wires
    BY <1>4, UrlSettings, VerifiedIsWire
  <2>7. SwitchWire(s.scheme = "https", s) \in Wires
    BY <2>6, WireParts DEF SwitchWire
  <2>8. Does(SwitchWire(s.scheme = "https", s), s, c)
    BY <1>4, <2>4, <2>5, HttpDoes
  <2> QED
    BY <2>1, <2>7, <2>8
<1>5. CASE c.plugin \in Mysqls
  <2>1. WireOf(s, c) = MysqlWire(s, c.route) /\ MysqlCheck(s, c.route) = Unrefused
    BY <1>5 DEF WireOf, Checked
  <2> QED
    BY <1>5, <2>1, MysqlDoes, MysqlIsWire
<1>6. CASE c.plugin = "pg"
  <2>1. WireOf(s, c) = PgWire(s, c.route) /\ PgCheck(s, c.route) = Unrefused
    BY <1>6 DEF WireOf, Checked
  <2> QED
    BY <1>6, <2>1, PgDoes, PgIsWire
<1> QED
  BY <1>1, <1>2, <1>3, <1>4, <1>5, <1>6 DEF IsCall

LEMMA RootsReplaced ==
  ASSUME NEW w \in Wires, NEW s, NEW c, Does(w, s, c), NEW roots \in {"given", "pinned", "system file"},
         AskedTLS(s, c) => Asked(s, c).roots \in {"any", "public"} \/ roots = "pinned"
  PROVE  Does([w EXCEPT !.roots = roots], s, c)
BY DEF Does, ChecksAsMuch, Wires

LEMMA ToolDoes ==
  ASSUME NEW s, NEW c, IsCall(c), Sound(s, c), c.dump, Checked(s, c) = Unrefused
  PROVE  ToolWire(s, c) \in Wires /\ Does(ToolWire(s, c), s, c)
<1> USE DEF Mysqls, ByURL, Programs, Plugins
<1>1. WireOf(s, c) \in Wires /\ Does(WireOf(s, c), s, c)
  BY PluginDoes DEF IsCall
<1>2. AskedTLS(s, c) => Asked(s, c).roots = IF s.ca # "none" THEN Roots(s.ca) ELSE IF s.mode \in {"skip-verify", "require"} THEN "any" ELSE "public"
  BY DEF Asked, Over
<1>3. CASE c.plugin = "mysql"
  <2>1. WireOf(s, c) = MysqlWire(s, c.route) /\ ToolWire(s, c) = MysqlArgs(s, c.route)
    BY <1>3 DEF WireOf, ToolWire
  <2>2. ToolWire(s, c) = WireOf(s, c) \/ (s.ca = "none" /\ ToolWire(s, c) = [WireOf(s, c) EXCEPT !.roots = "given"])
    BY <2>1 DEF MysqlArgs
  <2>3. s.ca = "none" => Does([WireOf(s, c) EXCEPT !.roots = "given"], s, c)
    BY <1>1, <1>2, RootsReplaced
  <2> QED
    BY <1>1, <2>2, <2>3, WireParts
<1>4. CASE c.plugin = "mariadb"
  <2>1. WireOf(s, c) = MysqlWire(s, c.route) /\ ToolWire(s, c) = MariadbArgs(s, c.route, c.tool)
    BY <1>4 DEF WireOf, ToolWire
  <2>2. ToolWire(s, c) = WireOf(s, c) \/ ToolWire(s, c) = [WireOf(s, c) EXCEPT !.roots = "pinned"]
    BY <2>1 DEF MariadbArgs
  <2>3. Does([WireOf(s, c) EXCEPT !.roots = "pinned"], s, c)
    BY <1>1, RootsReplaced
  <2> QED
    BY <1>1, <2>2, <2>3, WireParts
<1>5. CASE c.plugin = "pg"
  <2>1. WireOf(s, c) = PgWire(s, c.route) /\ ToolWire(s, c) = PgChildArgs(s, c.route, c.tool) /\ PgCheck(s, c.route) = Unrefused
    BY <1>5 DEF WireOf, ToolWire, Checked
  <2>2. PgWire(s, c.route).roots = "public" => s.ca \in {"none", "system"}
    BY <1>5, <2>1, PgSettings, PgModes DEF PgWire, Roots, Over, Plain
  <2>3. \/ ToolWire(s, c) = WireOf(s, c)
        \/ s.ca \in {"none", "system"} /\ ToolWire(s, c) = [WireOf(s, c) EXCEPT !.roots = "system file"]
    BY <2>1, <2>2 DEF PgChildArgs
  <2>4. s.ca \in {"none", "system"} => Does([WireOf(s, c) EXCEPT !.roots = "system file"], s, c)
    BY <1>1, <1>2, RootsReplaced DEF Roots
  <2> QED
    BY <1>1, <2>3, <2>4, WireParts
<1> QED
  BY <1>3, <1>4, <1>5 DEF IsCall

LEMMA ChannelDoes ==
  ASSUME NEW w \in Wires, NEW s, NEW c, NEW srv, Does(w, s, c)
  PROVE  ChecksAsMuch(Channel(w, srv), Asked(s, c))
<1>1. CASE AskedTLS(s, c)
  BY <1>1 DEF Does, Channel, ChecksAsMuch, Wires
<1>2. CASE ~AskedTLS(s, c)
  BY <1>2 DEF Asked, ChecksAsMuch, Plain
<1> QED
  BY <1>1, <1>2

---------------------------------------------------------------------------
(* What a refusal sends its reader to is a value its plugin takes.         *)

Takes(c, change) == \A f \in DOMAIN change : f \in Fields /\ change[f] \in Values(c.plugin)[f]
Advises(refusal, c) == \A change \in refusal.advice : Takes(c, change)

LEMMA AnyMayBe ==
  ASSUME NEW c, c.plugin \in Plugins
  PROVE  /\ Takes(c, [far |-> "tls"]) /\ Takes(c, [secret |-> "none"])
         /\ \A p \in {"p", "q"} : Takes(c, [secret |-> p])
         /\ Takes(c, [scope |-> "named"]) /\ Takes(c, [scope |-> "every"])
BY DEF Takes, Fields, Values

LEMMA DiallersMayBe ==
  ASSUME NEW c, c.plugin \in Plugins \ Programs
  PROVE  /\ Takes(c, [ca |-> "issuer"]) /\ Takes(c, [ca |-> "none"])
         /\ Takes(c, [name |-> "right"]) /\ Takes(c, [name |-> "none"])
         /\ c.plugin \in {"redis", "etcd", "pg"} => Takes(c, [pair |-> "both"]) /\ Takes(c, [pair |-> "none"])
         /\ c.plugin = "pg" => Takes(c, [home |-> "none"])
<1> USE DEF Mysqls, ByURL, Programs, Plugins
<1>1. /\ Values(c.plugin).ca = {"none", "issuer", "other", "bad"} \cup (IF c.plugin = "pg" THEN {"system"} ELSE {})
      /\ Values(c.plugin).name = {"none", "right", "wrong"}
      /\ c.plugin \in {"redis", "etcd", "pg"} => Values(c.plugin).pair = {"none", "cert", "key", "both", "torn"}
      /\ c.plugin = "pg" => Values(c.plugin).home = {"none", "root", "crl"}
  BY DEF Values
<1> QED
  BY <1>1 DEF Takes, Fields

LEMMA ModesMayBe ==
  ASSUME NEW c, c.plugin \in Plugins
  PROVE  /\ c.plugin \in {"redis", "etcd", "qdrant", "s3"} => Takes(c, [mode |-> "on"]) /\ Takes(c, [mode |-> "off"])
         /\ c.plugin \in {"etcd"} \cup ByURL => Takes(c, [scheme |-> "https"])
         /\ c.plugin = "etcd" => Takes(c, [scheme |-> "bare"])
         /\ c.plugin \in Mysqls =>
              /\ \A mode \in {"false", "preferred", "skip-verify", "verify-ca", "true"} : Takes(c, [mode |-> mode])
              /\ Takes(c, [mode |-> "true", ca |-> "issuer"])
              /\ Takes(c, [mode |-> "verify-ca", ca |-> "issuer", name |-> "none"])
         /\ c.plugin = "pg" =>
              /\ \A mode \in {"disable", "verify-ca", "verify-full"} : Takes(c, [mode |-> mode])
              /\ Takes(c, [mode |-> "verify-full", ca |-> "issuer"])
         /\ c.plugin \in Programs => Takes(c, [context |-> "right"])
<1> USE DEF Mysqls, ByURL, Programs, Plugins
<1>1. /\ c.plugin \in {"redis", "etcd", "qdrant", "s3"} => Values(c.plugin).mode = {"off", "on"}
      /\ c.plugin = "etcd" => Values(c.plugin).scheme = {"bare", "http", "https"}
      /\ c.plugin \in ByURL => Values(c.plugin).scheme = {"http", "https"}
      /\ c.plugin \in Mysqls => Values(c.plugin).mode = {"false", "preferred", "skip-verify", "verify-ca", "true"}
      /\ c.plugin = "pg" => Values(c.plugin).mode = {"disable", "prefer", "require", "verify-ca", "verify-full"}
      /\ c.plugin \in Programs => Values(c.plugin).context = {"none", "right", "wrong", "dash"}
  BY DEF Values
<1>2. c.plugin \in Mysqls \cup {"pg"} => "issuer" \in Values(c.plugin).ca /\ "none" \in Values(c.plugin).name
  BY DEF Values
<1> QED
  BY <1>1, <1>2 DEF Takes, Fields

LEMMA AdvisesOne ==
  /\ \A c, code : Advises(Refusal(code, {}), c)
  /\ \A c, code, one : Takes(c, one) => Advises(Refusal(code, {one}), c)
  /\ \A c, code, one, two : Takes(c, one) /\ Takes(c, two) => Advises(Refusal(code, {one, two}), c)
  /\ \A c, code, one, two, three : Takes(c, one) /\ Takes(c, two) /\ Takes(c, three) => Advises(Refusal(code, {one, two, three}), c)
BY DEF Advises, Refusal

LEMMA AdvisesAnother ==
  ASSUME NEW s, NEW c, c.plugin \in Plugins, NEW code
  PROVE  Advises(Refusal(code, Another(s)), c)
BY AnyMayBe DEF Advises, Refusal, Another

LEMMA AdvisesDialled ==
  ASSUME NEW c, c.plugin \in Plugins
  PROVE  /\ Advises(Unrefused, c) /\ Advises(Unroutable, c) /\ Advises(Refused, c)
         /\ Advises(Unknown, c) /\ Advises(TimedOut, c) /\ Advises(Unreached, c)
         /\ c.plugin \notin Programs => Advises(ForwardName, c)
BY AdvisesOne, DiallersMayBe DEF Unrefused, Unroutable, Refused, Unknown, TimedOut, Unreached, ForwardName

LEMMA FilesAdvise ==
  ASSUME NEW s, NEW c, c.plugin \in {"redis", "etcd"}
  PROVE  Advises(FilesRefused(s), c)
<1> USE DEF Mysqls, ByURL, Programs, Plugins
<1> QED
  BY AdvisesOne, AdvisesDialled, DiallersMayBe DEF FilesRefused

LEMMA RedisAdvises ==
  ASSUME NEW s, NEW c, c.plugin = "redis", NEW e
  PROVE  Advises(RedisCheck(s), c) /\ Advises(RedisTold(e, s, c.route), c)
<1> USE DEF Mysqls, ByURL, Programs, Plugins
<1>1. Advises(RedisCheck(s), c)
  BY FilesAdvise, AdvisesDialled DEF RedisCheck
<1>2. Advises(RedisName(s, e), c)
  BY AdvisesOne, DiallersMayBe DEF RedisName
<1>3. Advises(RedisFailed(e, s), c)
  BY AdvisesOne, AdvisesAnother, AdvisesDialled, AnyMayBe, DiallersMayBe, ModesMayBe DEF RedisFailed, RedisAnswered, RedisRejected
<1> QED
  BY <1>1, <1>2, <1>3, AdvisesOne, AdvisesDialled, DiallersMayBe DEF RedisTold

LEMMA EtcdAdvises ==
  ASSUME NEW s, NEW c, c.plugin = "etcd", NEW e
  PROVE  /\ Advises(EtcdCheck(s), c) /\ Advises(EtcdTold(e, s, c.route), c)
         /\ Advises(EtcdNoConnection, c) /\ Advises(EtcdWrongPort(s, c.route), c)
<1> USE DEF Mysqls, ByURL, Programs, Plugins
<1>1. Advises(EtcdPlaintext(s), c)
  <2>1. /\ Takes(c, [scheme |-> "https"]) /\ Takes(c, [scheme |-> "bare"])
        /\ Takes(c, [ca |-> "none"]) /\ Takes(c, [mode |-> "off"])
        /\ Takes(c, [pair |-> "none"]) /\ Takes(c, [name |-> "none"])
    BY DiallersMayBe, ModesMayBe
  <2>2. \A code, less : Takes(c, less) => Advises(Refusal(code, {[scheme |-> "https"], [scheme |-> "bare"], less}), c)
    BY <2>1, AdvisesOne
  <2> QED
    BY <2>1, <2>2, AdvisesDialled DEF EtcdPlaintext
<1>2. Advises(EtcdCheck(s), c)
  BY <1>1, FilesAdvise, AdvisesDialled DEF EtcdCheck, EtcdFiles
<1>3. Advises(EtcdTold(e, s, c.route), c)
  BY AdvisesOne, AdvisesAnother, AdvisesDialled, DiallersMayBe DEF EtcdTold
<1>4. Advises(EtcdWrongPort(s, c.route), c)
  BY AdvisesOne, DiallersMayBe, ModesMayBe DEF EtcdWrongPort
<1> QED
  BY <1>2, <1>3, <1>4, AdvisesDialled DEF EtcdNoConnection

LEMMA TransportAdvises ==
  ASSUME NEW s, NEW c, c.plugin \in {"qdrant", "s3"} \cup ByURL, NEW e, NEW otherwise, Advises(otherwise, c)
  PROVE  Advises(TransportTold(e, s, c.route, otherwise), c)
<1> USE DEF Mysqls, ByURL, Programs, Plugins
<1> QED
  BY AdvisesOne, AdvisesDialled, DiallersMayBe DEF TransportTold

LEMMA ExpectedAdvises ==
  ASSUME NEW c, c.plugin \in Plugins, NEW one, Takes(c, one)
  PROVE  Advises(Expected(one, c.route), c)
BY AdvisesOne, AnyMayBe DEF Expected

LEMMA BundleAdvises ==
  ASSUME NEW s, NEW c, c.plugin \in {"qdrant", "s3"} \cup ByURL
  PROVE  Advises(BundleRefused(s), c)
<1> USE DEF Mysqls, ByURL, Programs, Plugins
<1> QED
  BY AdvisesOne, AdvisesDialled, DiallersMayBe DEF BundleRefused

LEMMA QdrantAdvises ==
  ASSUME NEW s, NEW c, c.plugin = "qdrant", NEW e
  PROVE  Advises(QdrantTold(e, s, c.route), c)
<1> USE DEF Mysqls, ByURL, Programs, Plugins
<1> DEFINE failed == IF ~QdrantTLS(s) /\ "tls bytes" \in e THEN Expected([mode |-> "on"], c.route) ELSE Refusal("conn.failed", {})
<1>1. Advises(failed, c)
  BY AdvisesOne, ExpectedAdvises, ModesMayBe
<1> HIDE DEF failed
<1>2. Advises(TransportTold(e, s, c.route, failed), c)
  BY <1>1, TransportAdvises
<1> QED
  BY <1>2, AdvisesOne, AdvisesAnother DEF QdrantTold, QdrantStatus, failed

LEMMA S3Advises ==
  ASSUME NEW s, NEW c, c.plugin = "s3", NEW e
  PROVE  Advises(S3Told(e, s, c.route), c)
<1> USE DEF Mysqls, ByURL, Programs, Plugins
<1>1. Advises(TransportTold(e, s, c.route, Refusal("conn.failed", {})), c)
  BY AdvisesOne, TransportAdvises
<1>2. Advises(Expected([mode |-> "on"], c.route), c)
  BY ExpectedAdvises, ModesMayBe
<1> QED
  BY <1>1, <1>2, AdvisesOne, AdvisesAnother, AdvisesDialled DEF S3Told, S3Status

LEMMA PlaintextAdvises ==
  ASSUME NEW c, c.plugin \in ByURL, NEW less, Takes(c, less), NEW code
  PROVE  Advises(Refusal(code, PlaintextWay(less, c.route)), c)
<1> USE DEF Mysqls, ByURL, Programs, Plugins
<1> QED
  BY AdvisesOne, AnyMayBe, ModesMayBe DEF PlaintextWay

LEMMA VaultAdvises ==
  ASSUME NEW s, NEW c, c.plugin = "vault", NEW e
  PROVE  Advises(VaultCheck(s, c.route), c) /\ Advises(VaultTold(e, s, c.route), c)
<1> USE DEF Mysqls, ByURL, Programs, Plugins
<1>1. Takes(c, [name |-> "none"]) /\ Takes(c, [ca |-> "none"])
  BY DiallersMayBe
<1>2. Advises(VaultCheck(s, c.route), c)
  BY <1>1, PlaintextAdvises, BundleAdvises DEF VaultCheck
<1>3. Advises(TransportTold(e, s, c.route, Refusal("conn.failed", {})), c)
  BY AdvisesOne, TransportAdvises
<1>4. Advises(Expected([scheme |-> "https"], c.route), c)
  BY ExpectedAdvises, ModesMayBe
<1> QED
  BY <1>2, <1>3, <1>4, AdvisesOne DEF VaultTold, VaultStatus

LEMMA KeycloakAdvises ==
  ASSUME NEW s, NEW c, c.plugin = "keycloak", NEW e
  PROVE  Advises(KeycloakCheck(s, c.route), c) /\ Advises(KeycloakTold(e, s, c.route), c)
<1> USE DEF Mysqls, ByURL, Programs, Plugins
<1>1. Takes(c, [name |-> "none"]) /\ Takes(c, [ca |-> "none"])
  BY DiallersMayBe
<1>2. Advises(KeycloakCheck(s, c.route), c)
  BY <1>1, PlaintextAdvises, BundleAdvises, AdvisesAnother DEF KeycloakCheck
<1> DEFINE way == {IF c.route \in Forwards THEN [far |-> "tls"] ELSE [scheme |-> "https"]}
           failed == IF s.scheme = "http" /\ "tls bytes" \in e THEN Refusal("tls.expected", way)
                     ELSE IF s.scheme = "http" /\ "eof" \in e THEN Refusal("conn.failed", way)
                     ELSE Refusal("conn.failed", {})
<1>3. \A code : Advises(Refusal(code, way), c)
  BY AdvisesOne, AnyMayBe, ModesMayBe
<1> HIDE DEF way
<1>4. Advises(failed, c)
  BY <1>3, AdvisesOne
<1> HIDE DEF failed
<1>5. Advises(TransportTold(e, s, c.route, failed), c)
  BY <1>4, TransportAdvises
<1> QED
  BY <1>2, <1>5, AdvisesOne, AdvisesAnother DEF KeycloakTold, KeycloakStatus, failed, way

LEMMA MysqlAdvises ==
  ASSUME NEW s, NEW c, c.plugin \in Mysqls, NEW e
  PROVE  /\ Advises(MysqlCheck(s, c.route), c) /\ Advises(MysqlTold(e, s, c.route), c)
         /\ Advises(MysqlChildCheck(s), c) /\ Advises(MysqlChildTold(e, s), c)
<1> USE DEF Mysqls, ByURL, Programs, Plugins
<1>1. Advises(MysqlNameCheck(s, c.route), c)
  <2>1. \A code : Advises(Refusal(code, {[mode |-> "true"]}), c)
    BY AdvisesOne, ModesMayBe
  <2> QED
    BY <2>1, AdvisesDialled DEF MysqlNameCheck
<1>2. Advises(MysqlCheck(s, c.route), c)
  <2>1. Takes(c, [ca |-> "issuer"]) /\ Takes(c, [mode |-> "true"]) /\ Takes(c, [mode |-> "verify-ca"])
    BY DiallersMayBe, ModesMayBe
  <2>2. /\ Advises(Refusal("tls.ca.missing", {[ca |-> "issuer"], [mode |-> "true"]}), c)
        /\ Advises(Refusal("tls.ca.unused", {[mode |-> "true"], [mode |-> "verify-ca"]}), c)
        /\ Advises(Refusal("tls.ca.invalid", {[ca |-> "issuer"]}), c)
    BY <2>1, AdvisesOne
  <2> QED
    BY <1>1, <2>2, AdvisesDialled DEF MysqlCheck
<1>3. Advises(MysqlName(e, s, c.route), c)
  <2>1. Takes(c, [mode |-> "verify-ca", ca |-> "issuer", name |-> "none"]) /\ Takes(c, [name |-> "right"])
    BY DiallersMayBe, ModesMayBe
  <2>2. /\ Advises(Refusal("tls.name", {[mode |-> "verify-ca", ca |-> "issuer", name |-> "none"]}), c)
        /\ Advises(Refusal("tls.name", {[name |-> "right"]}), c) /\ Advises(Refusal("tls.name", {}), c)
    BY <2>1, AdvisesOne
  <2> QED
    BY <2>2 DEF MysqlName
<1>4. Advises(MysqlTLSRequired(c.route), c)
  BY AdvisesOne, DiallersMayBe, ModesMayBe DEF MysqlTLSRequired
<1>5. Advises(MysqlUnreached(e), c)
  BY AdvisesOne, AdvisesDialled DEF MysqlUnreached
<1>6. Advises(MysqlVerified(e, s, c.route, MysqlUnreached(e)), c)
  BY <1>3, <1>5, AdvisesOne, AdvisesDialled, DiallersMayBe DEF MysqlVerified
<1>7. Advises(MysqlTold(e, s, c.route), c)
  BY <1>4, <1>6, AdvisesOne, AdvisesAnother, ModesMayBe DEF MysqlTold, MysqlNumbered
<1>8. Advises(MysqlChildCheck(s), c)
  BY AdvisesOne, AdvisesDialled DEF MysqlChildCheck
<1>9. Advises(MysqlChildTold(e, s), c)
  BY AdvisesOne, AdvisesAnother, AdvisesDialled, DiallersMayBe DEF MysqlChildTold
<1> QED
  BY <1>2, <1>7, <1>8, <1>9

LEMMA PgAdvises ==
  ASSUME NEW s, NEW c, c.plugin = "pg", NEW e
  PROVE  /\ Advises(PgCheck(s, c.route), c) /\ Advises(PgTold(e, s, c.route), c)
         /\ Advises(PgChildCheck(s, c.route), c) /\ Advises(PgChildTold(e, s), c)
<1> USE DEF Mysqls, ByURL, Programs, Plugins
<1>1. Advises(PgRootCheck(s, c.route), c)
  BY AdvisesOne, AdvisesDialled, DiallersMayBe, ModesMayBe DEF PgRootCheck
<1>2. Advises(PgNameCheck(s, c.route), c) /\ Advises(PgRevocationCheck(s, c.route), c)
  BY AdvisesOne, AdvisesDialled, DiallersMayBe, ModesMayBe DEF PgNameCheck, PgRevocationCheck
<1>3. Advises(PgPairCheck(s, c.route), c)
  BY AdvisesOne, AdvisesDialled, DiallersMayBe DEF PgPairCheck
<1>4. Advises(PgCheck(s, c.route), c)
  BY <1>1, <1>2, <1>3 DEF PgCheck
<1>5. Advises(PgTLSRequired(c.route), c) /\ Advises(PgClientCert(s), c)
  BY AdvisesOne, DiallersMayBe, ModesMayBe DEF PgTLSRequired, PgClientCert
<1>6. Advises(PgName(e, s), c)
  BY AdvisesOne, DiallersMayBe DEF PgName
<1>7. Advises(PgVerified(e, s, c.route, Refusal("conn.failed", {})), c)
  BY <1>6, AdvisesOne, AdvisesDialled, DiallersMayBe DEF PgVerified
<1>8. Advises(PgUnreached(e, PgVerified(e, s, c.route, Refusal("conn.failed", {}))), c)
  BY <1>7, AdvisesOne, AdvisesDialled, ModesMayBe DEF PgUnreached
<1>9. Advises(PgTold(e, s, c.route), c)
  BY <1>5, <1>8, AdvisesOne, AdvisesAnother DEF PgTold, PgCoded
<1>10. Advises(PgChildCheck(s, c.route), c)
  BY AdvisesOne, AdvisesDialled DEF PgChildCheck
<1>11. Advises(PgChildTold(e, s), c)
  BY <1>5, AdvisesOne, AdvisesAnother, AdvisesDialled, DiallersMayBe DEF PgChildTold
<1> QED
  BY <1>4, <1>9, <1>10, <1>11

LEMMA ProgramAdvises ==
  ASSUME NEW s, NEW c, c.plugin \in Programs, NEW e
  PROVE  Advises(KubectlCheck(s), c) /\ Advises(DockerCheck(s), c) /\ Advises(ProgramTold(e, s, c.plugin), c)
<1> USE DEF Mysqls, ByURL, Programs, Plugins
<1>1. Advises(KubectlCheck(s), c) /\ Advises(DockerCheck(s), c)
  BY AdvisesOne, AdvisesDialled, AnyMayBe DEF KubectlCheck, DockerCheck
<1>2. \A code : Advises(Refusal(code, ContextOther(s)), c)
  BY AdvisesOne, ModesMayBe DEF ContextOther
<1>3. Advises(CnpgDenied(s), c)
  BY AdvisesOne, AnyMayBe DEF CnpgDenied
<1>4. Advises(CnpgNoContext(e, s), c)
  BY <1>2, AdvisesOne DEF CnpgNoContext
<1>5. Advises(KubeTold(e, s), c)
  BY <1>2, AdvisesOne, AdvisesDialled DEF KubeTold
<1>6. Advises(CnpgTold(e, s), c)
  BY <1>3, <1>4, AdvisesOne, AdvisesDialled DEF CnpgTold
<1>7. Advises(DockerTold(e, s), c)
  BY <1>2, AdvisesOne, AdvisesDialled DEF DockerTold
<1>8. ProgramTold(e, s, c.plugin) \in {KubeTold(e, s), CnpgTold(e, s), DockerTold(e, s)}
  BY DEF ProgramTold
<1> QED
  BY <1>1, <1>5, <1>6, <1>7, <1>8

LEMMA CheckAdvises ==
  ASSUME NEW s, NEW c, IsCall(c)
  PROVE  Advises(Checked(s, c), c) /\ Advises(ToolChecked(s, c), c)
<1> USE DEF Mysqls, ByURL, Programs, Plugins
<1>1. Advises(Checked(s, c), c)
  <2>1. CASE c.plugin = "redis"
    BY <2>1, RedisAdvises DEF Checked
  <2>2. CASE c.plugin = "etcd"
    BY <2>2, EtcdAdvises DEF Checked
  <2>3. CASE c.plugin \in {"qdrant", "s3"}
    BY <2>3, BundleAdvises DEF Checked
  <2>4. CASE c.plugin = "vault"
    BY <2>4, VaultAdvises DEF Checked
  <2>5. CASE c.plugin = "keycloak"
    BY <2>5, KeycloakAdvises DEF Checked
  <2>6. CASE c.plugin \in Mysqls
    BY <2>6, MysqlAdvises DEF Checked
  <2>7. CASE c.plugin = "pg"
    BY <2>7, PgAdvises DEF Checked
  <2>8. CASE c.plugin \in Programs
    BY <2>8, ProgramAdvises DEF Checked
  <2> QED
    BY <2>1, <2>2, <2>3, <2>4, <2>5, <2>6, <2>7, <2>8 DEF IsCall
<1>2. Advises(ToolChecked(s, c), c)
  <2>1. CASE ~c.dump
    BY <2>1, AdvisesDialled DEF ToolChecked, IsCall
  <2>2. CASE c.dump /\ c.plugin \in Mysqls
    BY <2>2, MysqlAdvises DEF ToolChecked
  <2>3. CASE c.dump /\ c.plugin = "pg"
    BY <2>3, PgAdvises DEF ToolChecked
  <2> QED
    BY <2>1, <2>2, <2>3 DEF IsCall
<1> QED
  BY <1>1, <1>2

LEMMA ToldAdvises ==
  ASSUME NEW s, NEW c, IsCall(c), c.plugin \notin Programs, NEW e
  PROVE  Advises(Told(e, s, c), c) /\ (c.dump => Advises(ToolTold(e, s, c), c))
<1> USE DEF Mysqls, ByURL, Programs, Plugins
<1>1. CASE c.plugin = "redis"
  BY <1>1, RedisAdvises DEF Told, IsCall
<1>2. CASE c.plugin = "etcd"
  BY <1>2, EtcdAdvises DEF Told, IsCall
<1>3. CASE c.plugin = "qdrant"
  BY <1>3, QdrantAdvises DEF Told, IsCall
<1>4. CASE c.plugin = "s3"
  BY <1>4, S3Advises DEF Told, IsCall
<1>5. CASE c.plugin = "vault"
  BY <1>5, VaultAdvises DEF Told, IsCall
<1>6. CASE c.plugin = "keycloak"
  BY <1>6, KeycloakAdvises DEF Told, IsCall
<1>7. CASE c.plugin \in Mysqls
  BY <1>7, MysqlAdvises DEF Told, ToolTold
<1>8. CASE c.plugin = "pg"
  BY <1>8, PgAdvises DEF Told, ToolTold
<1> QED
  BY <1>1, <1>2, <1>3, <1>4, <1>5, <1>6, <1>7, <1>8 DEF IsCall

---------------------------------------------------------------------------
(* What holds all along a call: the settings it is made with are its       *)
(* plugin's, and past their check nothing is refused of them and the       *)
(* connection is the one they ask for.                                     *)

LEMMA FillIsSound ==
  ASSUME NEW s, NEW c, DOMAIN s = Fields, \A f \in Fields \ Filled(c) : s[f] \in Values(c.plugin)[f]
  PROVE  Sound(Fill(s, c), c)
<1>1. CASE c.route \notin Forwards
  BY <1>1 DEF Fill, Sound
<1>2. CASE c.route \in Forwards
  <2>1. DOMAIN Fill(s, c) = Fields
    BY <1>2 DEF Fill
  <2>2. \A f \in Fields \ Filled(c) : Fill(s, c)[f] = s[f]
    BY <1>2 DEF Fill, Filled, Fields
  <2>3. /\ Fill(Fill(s, c), c).mode = Fill(s, c).mode /\ Fill(Fill(s, c), c).scheme = Fill(s, c).scheme
        /\ Fill(Fill(s, c), c).host = Fill(s, c).host
    BY <1>2 DEF Fill, Fields
  <2> QED
    BY <2>1, <2>2, <2>3 DEF Sound
<1> QED
  BY <1>1, <1>2

LEMMA ChangeIsSound ==
  ASSUME NEW s, NEW c, Sound(s, c), NEW change, Takes(c, change)
  PROVE  Sound(Fill(Change(s, change), c), c)
<1>1. DOMAIN Change(s, change) = Fields
  BY DEF Change, Fields
<1>2. \A f \in Fields : Change(s, change)[f] = IF f \in DOMAIN change THEN change[f] ELSE s[f]
  BY DEF Change, Fields
<1>3. \A f \in Fields \ Filled(c) : Change(s, change)[f] \in Values(c.plugin)[f]
  BY <1>2 DEF Takes, Sound
<1> QED
  BY <1>1, <1>3, FillIsSound

OfEtcd == {"token", "await", "why no token", "why", "settle"}
Underway == {"dial", "login", "read", "tool"} \cup OfEtcd

CallInv ==
  /\ IsCall(call)
  /\ Sound(settings, call)
  /\ Advises(told, call)
  /\ server \in seen /\ met \in seen /\ seen \subseteq ServerStates
  /\ pc \in Underway \cup {"check", "done", "told", "astray"}
  /\ pc \in Underway \cup {"done"} => Checked(settings, call) = Unrefused /\ ToolChecked(settings, call) = Unrefused
  /\ pc \in Underway => wire = WireOf(settings, call) /\ asking = "plugin"
  /\ pc \in Underway \ {"dial"} => call.plugin \notin Programs
  /\ pc \in OfEtcd => call.plugin = "etcd"
  /\ pc = "read" => call.plugin = "keycloak"
  /\ pc = "tool" => call.dump

LEMMA CallInit == Init => CallInv
<1> SUFFICES ASSUME Init PROVE CallInv
  OBVIOUS
<1>1. IsCall(call)
  BY CallsAssumption DEF Init
<1>2. PICK s \in SettingsOf[call.plugin] : settings = Fill(s, call)
  BY DEF Init
<1>3. DOMAIN s = Fields /\ \A f \in Fields : s[f] \in Values(call.plugin)[f]
  BY <1>1, <1>2, SettingsAssumption DEF IsCall
<1>4. Sound(settings, call)
  BY <1>2, <1>3, FillIsSound
<1>5. Advises(told, call)
  BY <1>1, AdvisesDialled DEF Init, IsCall
<1>6. server \in ServerStates
  BY <1>1, ServersAssumption DEF Init, IsCall
<1> QED
  BY <1>1, <1>4, <1>5, <1>6 DEF Init, CallInv, Underway, OfEtcd

LEMMA ChangedIsServer ==
  ASSUME NEW srv \in ServerStates
  PROVE  Changed(srv) \subseteq ServerStates
<1>1. \A r \in {"answers", "refuses", "silent"} : [srv EXCEPT !.reach = r] \in ServerStates
  BY DEF ServerStates
<1>2. \A p \in {"p", "q"} : [srv EXCEPT !.secret = p] \in ServerStates
  BY DEF ServerStates
<1>3. /\ [srv EXCEPT !.ready = ~srv.ready] \in ServerStates
      /\ [srv EXCEPT !.issuer = "nobody"] \in ServerStates
      /\ [srv EXCEPT !.skewed = TRUE] \in ServerStates
  BY DEF ServerStates
<1> QED
  BY <1>1, <1>2, <1>3 DEF Changed

LEMMA CallStep == CallInv /\ [Next]_vars => CallInv'
<1> SUFFICES ASSUME CallInv, [Next]_vars PROVE CallInv'
  OBVIOUS
<1> USE DEF CallInv, Underway, OfEtcd
<1>1. CASE Check
  <2> DEFINE refused == IF Checked(settings, call) # Unrefused THEN Checked(settings, call) ELSE ToolChecked(settings, call)
  <2>1. Advises(refused, call) /\ Advises(Unrefused, call)
    BY CheckAdvises, AdvisesDialled DEF IsCall
  <2>2. refused = Unrefused => Checked(settings, call) = Unrefused /\ ToolChecked(settings, call) = Unrefused
    OBVIOUS
  <2> QED
    BY <1>1, <2>1, <2>2 DEF Check, End
<1>2. CASE Run
  <2>1. call.plugin \in Programs
    BY <1>2 DEF Run
  <2>2. \A e : Advises(ProgramTold(e, settings, call.plugin), call)
    BY <2>1, ProgramAdvises
  <2>3. Advises(told', call)
    BY <1>2, <2>2 DEF Run, End
  <2> QED
    BY <1>2, <2>3 DEF Run, End
<1>3. CASE Dial
  <2>1. call.plugin \notin Programs
    BY <1>3 DEF Dial
  <2>2. Advises(told', call)
    BY <1>3, <2>1, ToldAdvises DEF Dial, End
  <2> QED
    BY <1>3, <2>1, <2>2 DEF Dial, End
<1>4. CASE Login
  <2>1. Advises(told', call)
    BY <1>4, ToldAdvises DEF Login, End
  <2> QED
    BY <1>4, <2>1 DEF Login, End, Onward
<1>5. CASE Read
  <2>1. \A e : Advises(Told(e, settings, call), call)
    BY <1>5, ToldAdvises DEF Read
  <2>2. told' = told \/ \E e : told' = Told(e, settings, call)
    BY <1>5 DEF Read, End
  <2>3. Advises(told', call)
    BY <2>1, <2>2
  <2> QED
    BY <1>5, <2>3 DEF Read, End, Onward
<1>6. CASE Tool
  <2>1. Advises(told', call)
    BY <1>6, ToldAdvises DEF Tool, End
  <2> QED
    BY <1>6, <2>1 DEF Tool, End
<1>7. CASE EtcdComesUp
  BY <1>7 DEF EtcdComesUp, Programs
<1>8. CASE EtcdToken
  <2>1. Advises(told', call)
    BY <1>8, EtcdAdvises DEF EtcdToken, End
  <2> QED
    BY <1>8, <2>1 DEF EtcdToken, End, Programs
<1>9. CASE EtcdTokenFails
  BY <1>9 DEF EtcdTokenFails, Programs
<1>10. CASE EtcdStaysUp
  BY <1>10 DEF EtcdStaysUp, Programs
<1>11. CASE EtcdFails
  <2>1. Advises(told', call)
    BY <1>11, EtcdAdvises DEF EtcdFails, End
  <2> QED
    BY <1>11, <2>1 DEF EtcdFails, End, Programs
<1>12. CASE EtcdSaysWhy
  <2>1. Advises(told', call)
    BY <1>12, EtcdAdvises DEF EtcdSaysWhy, End
  <2> QED
    BY <1>12, <2>1 DEF EtcdSaysWhy, End
<1>13. CASE EtcdSaysNothing
  <2>1. told' = told \/ told' = EtcdTold({"deadline"}, settings, call.route)
    BY <1>13 DEF EtcdSaysNothing, End
  <2>2. call.plugin = "etcd"
    BY <1>13 DEF EtcdSaysNothing
  <2>3. Advises(told', call)
    BY <2>1, <2>2, EtcdAdvises
  <2> QED
    BY <1>13, <2>3 DEF EtcdSaysNothing, End
<1>14. CASE EtcdSettles
  <2>1. Advises(told', call)
    BY <1>14, EtcdAdvises DEF EtcdSettles, End
  <2> QED
    BY <1>14, <2>1 DEF EtcdSettles, End
<1>15. CASE ServerChanges
  <2>1. server' \in ServerStates /\ seen' = seen \cup {server'}
    BY <1>15, ChangedIsServer DEF ServerChanges
  <2> QED
    BY <1>15, <2>1 DEF ServerChanges
<1>16. CASE Follow
  <2>1. PICK change \in told.advice :
          IF Astray(change) THEN pc' = "astray" /\ UNCHANGED settings
          ELSE pc' = "check" /\ settings' = Fill(Change(settings, change), call)
    BY <1>16 DEF Follow
  <2>2. Sound(settings', call)
    BY <2>1, ChangeIsSound DEF Advises
  <2> QED
    BY <1>16, <2>1, <2>2 DEF Follow
<1>17. CASE UNCHANGED vars
  BY <1>17 DEF vars
<1> QED
  BY <1>1, <1>2, <1>3, <1>4, <1>5, <1>6, <1>7, <1>8, <1>9, <1>10, <1>11, <1>12, <1>13, <1>14, <1>15, <1>16, <1>17 DEF Next, Step

\* CallInv: whatever a refusal sends its reader to, the settings stay what the plugin takes and a
\* forward fills; past the check nothing of them is refused, and the connection is the one they ask
\* for (each plugin's connect, checkTransport and Fill of the host).
THEOREM CallHolds == Spec => []CallInv
BY CallInit, CallStep, PTL DEF Spec

LEMMA SecretStep == CallInv /\ SecretAsAsked /\ [Next]_vars => SecretAsAsked'
<1> SUFFICES ASSUME CallInv, SecretAsAsked, [Next]_vars PROVE SecretAsAsked'
  OBVIOUS
<1>1. CASE Login
  <2>1. WireOf(settings, call) \in Wires /\ Does(WireOf(settings, call), settings, call)
    BY <1>1, PluginDoes DEF Login, CallInv, Underway
  <2>2. wire = WireOf(settings, call)
    BY <1>1 DEF Login, CallInv, Underway
  <2>3. ChecksAsMuch(Channel(wire, met), Asked(settings, call))
    BY <2>1, <2>2, ChannelDoes
  <2>4. sent' \subseteq sent \cup {Channel(wire, met)}
    BY <1>1 DEF Login, FollowsRedirects
  <2> QED
    BY <1>1, <2>3, <2>4 DEF Login, SecretAsAsked
<1>2. CASE Tool
  <2>1. ToolWire(settings, call) \in Wires /\ Does(ToolWire(settings, call), settings, call)
    BY <1>2, ToolDoes DEF Tool, CallInv, Underway
  <2>2. ChecksAsMuch(Channel(ToolWire(settings, call), server), Asked(settings, call))
    BY <2>1, ChannelDoes
  <2>3. sent' \subseteq sent \cup {Channel(ToolWire(settings, call), server)}
    BY <1>2 DEF Tool
  <2> QED
    BY <1>2, <2>2, <2>3 DEF Tool, SecretAsAsked
<1>3. CASE EtcdToken \/ EtcdTokenFails
  <2>1. pc \in {"dial", "token"} /\ call.plugin = "etcd"
    BY <1>3 DEF EtcdToken, EtcdTokenFails, CallInv, Underway, OfEtcd
  <2>2. WireOf(settings, call) \in Wires /\ Does(WireOf(settings, call), settings, call)
    BY <2>1, PluginDoes DEF CallInv, Underway, OfEtcd, Programs
  <2>3. wire = WireOf(settings, call)
    BY <2>1 DEF CallInv, Underway, OfEtcd
  <2>4. ChecksAsMuch(Channel(wire, met), Asked(settings, call))
    BY <2>2, <2>3, ChannelDoes
  <2>5. sent' \subseteq sent \cup {Channel(wire, met)}
    BY <1>3 DEF EtcdToken, EtcdTokenFails
  <2> QED
    BY <1>3, <2>4, <2>5 DEF EtcdToken, EtcdTokenFails, SecretAsAsked
<1>4. CASE Follow
  BY <1>4 DEF Follow, SecretAsAsked
<1>5. CASE \/ Check \/ Run \/ Dial \/ Read
            \/ EtcdComesUp \/ EtcdStaysUp \/ EtcdFails \/ EtcdSaysWhy \/ EtcdSaysNothing \/ EtcdSettles
            \/ ServerChanges \/ UNCHANGED vars
  <2>1. UNCHANGED <<call, settings, sent>>
    BY <1>5 DEF Check, Run, Dial, Read, EtcdComesUp, EtcdStaysUp, EtcdFails, EtcdSaysWhy, EtcdSaysNothing, EtcdSettles,
                ServerChanges, vars
  <2> QED
    BY <2>1 DEF SecretAsAsked
<1> QED
  BY <1>1, <1>2, <1>3, <1>4, <1>5 DEF Next, Step

\* SecretAsAsked: whatever the settings ask, every connection a secret travels over checks it, the
\* plugin's and its tool's, whatever the server is and comes to be, and however often the reader
\* follows what a refusal says.
THEOREM SecretTravelsAsAsked == Spec => []SecretAsAsked
<1>1. Init => SecretAsAsked
  BY DEF Init, SecretAsAsked
<1> QED
  BY <1>1, CallInit, CallStep, SecretStep, PTL DEF Spec

---------------------------------------------------------------------------
(* A tool meets what the plugin's own connection met. *)

LEMMA OnwardIsOnward == Onward \in {"read", "tool", "done"}
BY DEF Onward

\* As long as the server is the one the call began with, a connection that came up comes up again,
\* and past the first answer nothing is refused.
AlikeInv ==
  seen = {server} =>
    /\ pc \in {"token", "await", "login", "read", "tool"} => Meets(call, wire, server) = {}
    /\ pc \in {"read", "tool"} => server.reach = "answers" /\ Answers(settings, call, server) = {}

LEMMA ToolIsWire ==
  ASSUME NEW s, NEW c, IsCall(c), Sound(s, c), c.dump
  PROVE  \/ ToolWire(s, c) = WireOf(s, c)
         \/ \E roots \in {"given", "pinned", "system file"} : ToolWire(s, c) = [WireOf(s, c) EXCEPT !.roots = roots]
<1> USE DEF Mysqls, ByURL, Programs, Plugins
<1>1. CASE c.plugin = "mysql"
  <2>1. WireOf(s, c) = MysqlWire(s, c.route) /\ ToolWire(s, c) = MysqlArgs(s, c.route)
    BY <1>1 DEF WireOf, ToolWire
  <2> QED
    BY <2>1 DEF MysqlArgs
<1>2. CASE c.plugin = "mariadb"
  <2>1. WireOf(s, c) = MysqlWire(s, c.route) /\ ToolWire(s, c) = MariadbArgs(s, c.route, c.tool)
    BY <1>2 DEF WireOf, ToolWire
  <2> QED
    BY <2>1 DEF MariadbArgs
<1>3. CASE c.plugin = "pg"
  <2>1. WireOf(s, c) = PgWire(s, c.route) /\ ToolWire(s, c) = PgChildArgs(s, c.route, c.tool)
    BY <1>3 DEF WireOf, ToolWire
  <2> QED
    BY <2>1 DEF PgChildArgs
<1> QED
  BY <1>1, <1>2, <1>3 DEF IsCall

LEMMA ForwardHolds ==
  ASSUME NEW s, NEW c, Sound(s, c), c.plugin = "pg", c.dump, c.route = "kube", ToolChecked(s, c) = Unrefused
  PROVE  WireOf(s, c).tls = "no"
<1> USE DEF Mysqls, ByURL, Programs, Plugins
<1>1. PgChildCheck(s, c.route).code = ""
  BY CodeOfUnrefused DEF ToolChecked
<1>2. ~PgOverForward(s, c.route)
  BY <1>1 DEF PgChildCheck, Refusal
<1>3. PgMode(s, c.route) = "disable"
  BY <1>2, PgSettings DEF PgMode, Forwards
<1>4. WireOf(s, c) = Plain
  BY <1>3 DEF WireOf, PgWire
<1> QED
  BY <1>4 DEF Plain

LEMMA ToolMeetsNothingNew ==
  ASSUME CallInv, AlikeInv, pc = "tool", seen = {server}
  PROVE  ToolMeets(ToolWire(settings, call)) \in {{}, {"no CA"}, {"no file"}}
<1> DEFINE w == ToolWire(settings, call)
<1>1. /\ IsCall(call) /\ Sound(settings, call) /\ call.dump /\ ToolChecked(settings, call) = Unrefused
      /\ wire = WireOf(settings, call) /\ met = server
      /\ Meets(call, wire, server) = {} /\ server.reach = "answers"
  BY DEF CallInv, Underway, AlikeInv
<1>2. ~(call.plugin = "pg" /\ call.route = "kube" /\ wire.tls # "no")
  BY <1>1, ForwardHolds
<1>3. Dialled(server) = {} /\ Shaken(call, wire, server) = {}
  BY <1>1 DEF Dialled, Meets
<1>4. w = wire \/ w.roots \in {"given", "pinned", "system file"}
  <2>1. CASE w = WireOf(settings, call)
    BY <1>1, <2>1
  <2>2. CASE w # WireOf(settings, call)
    <3>1. PICK roots \in {"given", "pinned", "system file"} : w = [wire EXCEPT !.roots = roots]
      BY <1>1, <2>2, ToolIsWire
    <3>2. wire \in Wires
      <4>1. call.plugin \notin Programs /\ Checked(settings, call) = Unrefused
        BY DEF CallInv, Underway
      <4> QED
        BY <1>1, <4>1, PluginDoes
    <3> QED
      BY <3>1, <3>2 DEF Wires
  <2> QED
    BY <2>1, <2>2
<1> HIDE DEF w
<1>5. CASE w.roots = "given"
  BY <1>2, <1>3, <1>5 DEF ToolMeets, w
<1>6. CASE w.roots = "system file"
  BY <1>2, <1>3, <1>6 DEF ToolMeets, w
<1>7. CASE w.roots = "pinned"
  BY <1>1, <1>2, <1>3, <1>7 DEF ToolMeets, w
<1>8. CASE w = wire /\ w.roots \notin {"given", "pinned", "system file"}
  BY <1>2, <1>3, <1>8 DEF ToolMeets, w
<1> QED
  BY <1>4, <1>5, <1>6, <1>7, <1>8 DEF w

LEMMA AlikeStep ==
  CallInv /\ AlikeInv /\ ToolConnectsToo /\ [Next]_vars => AlikeInv' /\ ToolConnectsToo'
<1> SUFFICES ASSUME CallInv, AlikeInv, ToolConnectsToo, [Next]_vars PROVE AlikeInv' /\ ToolConnectsToo'
  OBVIOUS
<1> USE DEF AlikeInv, ToolConnectsToo
<1>1. CASE Check
  BY <1>1 DEF Check, End
<1>2. CASE Run
  BY <1>2 DEF Run, End, CallInv, Underway
<1>3. CASE Dial
  BY <1>3 DEF Dial, End, CallInv, Underway
<1>4. CASE Login
  BY <1>4 DEF Login, Answered, End, CallInv, Underway, Onward
<1>5. CASE Read
  <2>1. pc' \in {"told", "done"}
    BY <1>5, CallStep DEF Read, End, Onward, CallInv, IsCall, Mysqls
  <2>2. asking' = "plugin"
    BY <1>5 DEF Read, CallInv, Underway
  <2> QED
    BY <2>1, <2>2
<1>6. CASE Tool
  <2> DEFINE e == IF ToolMeets(ToolWire(settings, call)) # {} THEN ToolMeets(ToolWire(settings, call)) ELSE Answers(settings, call, server)
  <2>1. pc' \in {"done", "told"} /\ seen' = seen /\ server' = server /\ (pc' = "told" => e # {} /\ err' = e)
    BY <1>6 DEF Tool, End
  <2>2. seen = {server} => e \in {{}, {"no CA"}, {"no file"}}
    BY <1>6, ToolMeetsNothingNew DEF Tool
  <2> HIDE DEF e
  <2> QED
    BY <2>1, <2>2
<1>7. CASE EtcdComesUp
  BY <1>7 DEF EtcdComesUp, EtcdUp
<1>8. CASE EtcdToken
  BY <1>8 DEF EtcdToken, End, CallInv, Underway, OfEtcd
<1>9. CASE EtcdTokenFails
  BY <1>9 DEF EtcdTokenFails
<1>10. CASE EtcdStaysUp
  BY <1>10 DEF EtcdStaysUp
<1>11. CASE EtcdFails
  BY <1>11 DEF EtcdFails, End, CallInv, Underway, OfEtcd
<1>12. CASE EtcdSaysWhy
  BY <1>12 DEF EtcdSaysWhy, End, CallInv, Underway, OfEtcd
<1>13. CASE EtcdSaysNothing
  BY <1>13 DEF EtcdSaysNothing, End, CallInv, Underway, OfEtcd
<1>14. CASE EtcdSettles
  BY <1>14 DEF EtcdSettles, End, CallInv, Underway, OfEtcd
<1>15. CASE ServerChanges
  <2>1. server \in seen' /\ server' # server
    BY <1>15 DEF ServerChanges, CallInv
  <2> QED
    BY <2>1
<1>16. CASE Follow
  BY <1>16 DEF Follow
<1>17. CASE UNCHANGED vars
  BY <1>17 DEF vars
<1> QED
  BY <1>1, <1>2, <1>3, <1>4, <1>5, <1>6, <1>7, <1>8, <1>9, <1>10, <1>11, <1>12, <1>13, <1>14, <1>15, <1>16, <1>17 DEF Next, Step

\* ToolConnectsToo: whatever the settings, the route and the tool, a tool run against a server that
\* did not change is refused nothing the plugin's connection was given.
THEOREM ToolIsNotRefused == Spec => []ToolConnectsToo
<1>1. Init => AlikeInv /\ ToolConnectsToo
  BY DEF Init, AlikeInv, ToolConnectsToo
<1> QED
  BY <1>1, CallInit, CallStep, AlikeStep, PTL DEF Spec

---------------------------------------------------------------------------
(* What a connection can meet, and what the words of it say of the server. *)

LEMMA VerdictWords ==
  ASSUME NEW srv, NEW w, NEW route, NEW v, v = Verdict(srv, w, route), v # {}
  PROVE  /\ v \subseteq {"untrusted", "revoked", "hostname", "verify", "nameless"}
         /\ "untrusted" \in v => ~ChainHolds(srv, w)
         /\ "hostname" \in v => ~NameHolds(srv, w, route)
         /\ "nameless" \in v => srv.names = "nobody"
         /\ "verify" \in v \/ "untrusted" \in v
BY DEF Verdict

\* Of a server that was not reached, and of one that was.
Unmet(e, srv) ==
  \/ e = {"dns", "dns timeout"} /\ srv.reach = "no resolver"
  \/ e = {"dns"} /\ srv.reach = "no name"
  \/ e = {"refused"} /\ srv.reach = "refuses"
  \/ e = {"unroutable"} /\ srv.reach = "no route"
  \/ e = {"deadline", "timeout"} /\ srv.reach \in {"silent", "mute"}

Handshaken(e, c, w, srv) ==
  \/ w.tls = "no" /\ srv.tls = "only" /\ e = InTheClear(c, srv)
  \/ w.tls = "must" /\ srv.tls = "none" /\ e = NoTLSThere(c)
  \/ w.tls # "no" /\ srv.tls # "none" /\ Verdict(srv, w, c.route) # {} /\ e = Verdict(srv, w, c.route)
  \/ /\ w.tls # "no" /\ srv.tls # "none" /\ ~PairTaken(srv, w)
     /\ e = IF c.plugin = "pg" THEN {"valid client certificate"} ELSE {"alert"}

LEMMA ShakenWords ==
  ASSUME NEW c, NEW w, NEW srv, srv.reach # "mute", Shaken(c, w, srv) # {}
  PROVE  Handshaken(Shaken(c, w, srv), c, w, srv)
BY DEF Shaken, Handshaken

LEMMA DialledWords ==
  ASSUME NEW srv \in ServerStates
  PROVE  /\ Dialled(srv) # {} => Unmet(Dialled(srv), srv) /\ srv.reach \notin {"answers", "mute"}
         /\ srv.reach \notin {"answers", "mute"} => Dialled(srv) # {}
<1>1. srv.reach \in {"silent", "mute", "refuses", "no route", "no name", "no resolver", "answers"}
  BY DEF ServerStates
<1> QED
  BY <1>1 DEF Dialled, Unmet

LEMMA MeetsWords ==
  ASSUME NEW c, NEW w, NEW srv \in ServerStates, Meets(c, w, srv) # {}
  PROVE  Unmet(Meets(c, w, srv), srv) \/ (srv.reach = "answers" /\ Handshaken(Meets(c, w, srv), c, w, srv))
<1>1. srv.reach \in {"silent", "mute", "refuses", "no route", "no name", "no resolver", "answers"}
  BY DEF ServerStates
<1>2. CASE srv.reach = "mute"
  BY <1>2 DEF Meets, Shaken, Unmet
<1>3. CASE srv.reach = "answers"
  BY <1>3, ShakenWords, DialledWords DEF Meets
<1>4. CASE srv.reach \notin {"mute", "answers"}
  BY <1>4, DialledWords DEF Meets
<1> QED
  BY <1>2, <1>3, <1>4

\* A bound runs out on a server that says nothing, and on no other.
LEMMA UnmetSilent ==
  ASSUME NEW e, NEW srv, Unmet(e, srv), "deadline" \in e
  PROVE  Silent(srv)
<1>1. e # {"dns", "dns timeout"}
  <2>1. "deadline" \notin {"dns", "dns timeout"}
    OBVIOUS
  <2> QED
    BY <2>1
<1>2. e # {"dns"} /\ e # {"refused"} /\ e # {"unroutable"}
  OBVIOUS
<1> QED
  BY <1>1, <1>2 DEF Unmet, Silent

LEMMA MeetsSilent ==
  ASSUME NEW c, c.plugin = "etcd", NEW w, NEW srv \in ServerStates, "deadline" \in Meets(c, w, srv)
  PROVE  Silent(srv)
<1> DEFINE e == Meets(c, w, srv)
<1>1. Unmet(e, srv) \/ Handshaken(e, c, w, srv)
  BY MeetsWords
<1> HIDE DEF e
<1>2. ASSUME Handshaken(e, c, w, srv) PROVE "deadline" \notin e
  <2>1. e = {"transient"} \/ e = {"record"} \/ e = {"alert"} \/ (e = Verdict(srv, w, c.route) /\ e # {})
    BY <1>2 DEF Handshaken, InTheClear, NoTLSThere, Mysqls
  <2>2. CASE e = Verdict(srv, w, c.route) /\ e # {}
    BY <2>2, VerdictWords
  <2> QED
    BY <2>1, <2>2
<1> QED
  BY <1>1, <1>2, UnmetSilent DEF e

\* The codes that say something of the server.
Said ==
  {"timeout", "host.unknown", "conn.unreachable", "conn.refused", "conn.closed", "tls.name", "tls.forward", "tls.untrusted",
   "tls.rejected", "tls.unsupported", "tls.required", "tls.expected", "tls.failed", "conn.protocol", "tls.changed",
   "tls.client.required", "tls.client.auth.failed", "auth.failed", "auth.required", "auth.unneeded", "token.auth.failed",
   "denied", "loading", "sealed", "unavailable", "unreachable", "client.missing", "noconfig", "context.none",
   "context.unknown", "login", "credential.missing", "crd.missing", "resource.unserved", "cluster.missing", "notfound",
   "redirected", "redirect.refused"}

LEMMA OthersHold ==
  ASSUME NEW code, code \notin Said, NEW srv, NEW c, NEW s, NEW w, NEW over
  PROVE  Holds(code, srv, c, s, w, over)
BY DEF Holds, Said

LEMMA HoldsOfReach ==
  ASSUME NEW srv, NEW c, NEW s, NEW w, NEW over
  PROVE  /\ Silent(srv) \/ (c.plugin = "etcd" /\ ~srv.ready) => Holds("timeout", srv, c, s, w, over)
         /\ srv.reach \in {"no name", "no resolver"} => Holds("host.unknown", srv, c, s, w, over)
         /\ srv.reach = "no route" => Holds("conn.unreachable", srv, c, s, w, over)
         /\ srv.reach = "refuses" => Holds("conn.refused", srv, c, s, w, over)
         /\ Dropped(srv) \/ (w.tls = "no" /\ srv.tls = "only") => Holds("conn.closed", srv, c, s, w, over)
         /\ Dialled(srv) = {} /\ Meets(c, w, srv) # {} => Holds("conn.protocol", srv, c, s, w, over)
         /\ srv.redirects => Holds("redirected", srv, c, s, w, over) /\ Holds("redirect.refused", srv, c, s, w, over)
BY DEF Holds

LEMMA HoldsOfTLS ==
  ASSUME NEW srv, NEW c, NEW s, NEW w, NEW over
  PROVE  /\ srv.tls # "none" /\ (~NameHolds(srv, w, c.route) \/ srv.names = "nobody")
              => Holds("tls.name", srv, c, s, w, over) /\ Holds("tls.forward", srv, c, s, w, over)
         /\ srv.tls # "none" /\ ~ChainHolds(srv, w) => Holds("tls.untrusted", srv, c, s, w, over)
         /\ srv.tls # "none" /\ Verdict(srv, w, c.route) # {} => Holds("tls.rejected", srv, c, s, w, over)
         /\ srv.tls = "none" => Holds("tls.unsupported", srv, c, s, w, over) /\ Holds("tls.failed", srv, c, s, w, over)
         /\ srv.tls = "only" /\ w.tls = "no" => Holds("tls.required", srv, c, s, w, over) /\ Holds("tls.expected", srv, c, s, w, over)
         /\ <<srv.issuer, srv.names>> # <<over.issuer, over.names>> => Holds("tls.changed", srv, c, s, w, over)
         /\ srv.pair # "none" /\ ~w.pair => Holds("tls.client.required", srv, c, s, w, over)
         /\ srv.pair # "none" /\ w.pair => Holds("tls.client.auth.failed", srv, c, s, w, over)
BY DEF Holds

LEMMA HoldsOfSecret ==
  ASSUME NEW srv, NEW c, NEW s, NEW w, NEW over
  PROVE  /\ s.secret # srv.secret => Holds("auth.failed", srv, c, s, w, over)
         /\ s.secret = "none" /\ srv.secret # "none" => Holds("auth.required", srv, c, s, w, over)
         /\ srv.secret = "none" => Holds("auth.unneeded", srv, c, s, w, over)
         /\ srv.skewed => Holds("token.auth.failed", srv, c, s, w, over)
         /\ ~srv.grants \/ (c.plugin \in {"vault", "s3"} /\ s.secret # srv.secret) => Holds("denied", srv, c, s, w, over)
         /\ ~srv.ready => Holds("loading", srv, c, s, w, over) /\ Holds("sealed", srv, c, s, w, over)
         /\ ~srv.ready \/ Dropped(srv) => Holds("unavailable", srv, c, s, w, over)
BY DEF Holds

LEMMA HoldsOfPrograms ==
  ASSUME NEW srv, NEW c, NEW s, NEW w, NEW over
  PROVE  /\ srv.reach # "answers" \/ srv.issuer = "nobody" \/ srv.machine \in {"no config", "none current"}
              => Holds("unreachable", srv, c, s, w, over)
         /\ srv.machine = "no client" => Holds("client.missing", srv, c, s, w, over)
         /\ srv.machine = "no config" => Holds("noconfig", srv, c, s, w, over)
         /\ srv.machine = "none current" \/ (c.plugin = "cnpg" /\ (srv.machine \in {"no config", "astray"} \/ s.context = "wrong"))
              => Holds("context.none", srv, c, s, w, over)
         /\ s.context = "wrong" \/ srv.machine = "astray" => Holds("context.unknown", srv, c, s, w, over)
         /\ srv.helper # "ready" => Holds("login", srv, c, s, w, over) /\ Holds("credential.missing", srv, c, s, w, over)
         /\ srv.serves = "no type" => Holds("crd.missing", srv, c, s, w, over)
         /\ srv.serves = "no resource" => Holds("resource.unserved", srv, c, s, w, over)
         /\ srv.serves = "no object" => Holds("cluster.missing", srv, c, s, w, over)
         /\ srv.serves \in {"no object", "no resource"} => Holds("notfound", srv, c, s, w, over)
BY DEF Holds

\* The words of a failure that are misread, whatever else there is of it.
Mis(e, c) == {"status", "dial tcp"} \subseteq e \/ (c.plugin = "redis" /\ "dns" \in e)

\* What is said of a failure holds of the server, and is a credential's refusal where it was one.
CredentialCodes == {"auth.failed", "denied", "token.auth.failed", "tls.client.auth.failed"}
CredentialWords(e, s) ==
  \/ e \cap TurnedDown # {} /\ "getting credentials" \notin e
  \/ "valid client certificate" \in e /\ s.pair = "both"
Honest(refusal, e, srv, c, s, w, over) ==
  (Mis(e, c) \/ Holds(refusal.code, srv, c, s, w, over)) /\ (refusal.code \in CredentialCodes <=> CredentialWords(e, s))

NoCredential ==
  {"dns", "dns timeout", "timeout", "refused", "unroutable", "deadline", "eof", "transient", "3159", "no encryption", "notls", "nossl", "record",
   "untrusted", "revoked", "hostname", "verify", "nameless", "alert", "400", "tls bytes", "redirect", "503", "1040", "53300",
   "no CA", "no file", "pin", "handshake", "NOAUTH", "LOADING", "ERR no password", "Unavailable", "protocol"}

LEMMA NoCredentialWords ==
  ASSUME NEW s, NEW e, e \subseteq NoCredential
  PROVE  ~CredentialWords(e, s)
<1>1. \A x \in NoCredential : x \notin TurnedDown /\ x # "valid client certificate"
  BY DEF NoCredential, TurnedDown
<1> QED
  BY <1>1 DEF CredentialWords

LEMMA TurnedDownWords ==
  ASSUME NEW s, NEW e, NEW x \in e, x \in TurnedDown, "getting credentials" \notin e
  PROVE  CredentialWords(e, s)
BY DEF CredentialWords

\* The server was not reached, and the dial is said to have failed the way it did.
SaidOfDial(refusal, e) ==
  \/ refusal = TimedOut /\ e = {"deadline", "timeout"}
  \/ refusal = Unknown /\ e \in {{"dns"}, {"dns", "dns timeout"}}
  \/ refusal = Unroutable /\ e = {"unroutable"}
  \/ refusal = Refused /\ e = {"refused"}

LEMMA UnmetHonest ==
  ASSUME NEW e, NEW srv, NEW c, NEW s, NEW w, NEW over, Unmet(e, srv), NEW refusal, SaidOfDial(refusal, e)
  PROVE  Honest(refusal, e, srv, c, s, w, over)
<1>1. ~CredentialWords(e, s)
  <2>1. e \subseteq NoCredential
    BY DEF Unmet, NoCredential
  <2> QED
    BY <2>1, NoCredentialWords
<1>2. CASE refusal = TimedOut /\ e = {"deadline", "timeout"}
  <2>1. Silent(srv)
    BY <1>2 DEF Unmet, Silent
  <2> QED
    BY <1>1, <1>2, <2>1, HoldsOfReach DEF Honest, TimedOut, Refusal, CredentialCodes
<1>3. CASE refusal = Unknown /\ e \in {{"dns"}, {"dns", "dns timeout"}}
  <2>1. e # {"refused"} /\ e # {"unroutable"} /\ e # {"deadline", "timeout"}
    <3>1. "dns" \in e
      BY <1>3
    <3> QED
      BY <3>1
  <2>2. srv.reach \in {"no name", "no resolver"}
    BY <2>1 DEF Unmet
  <2> QED
    BY <1>1, <1>3, <2>2, HoldsOfReach DEF Honest, Unknown, Refusal, CredentialCodes
<1>4. CASE refusal = Unroutable /\ e = {"unroutable"}
  <2>1. srv.reach = "no route"
    BY <1>4 DEF Unmet
  <2> QED
    BY <1>1, <1>4, <2>1, HoldsOfReach DEF Honest, Unroutable, Refusal, CredentialCodes
<1>5. CASE refusal = Refused /\ e = {"refused"}
  <2>1. srv.reach = "refuses"
    BY <1>5 DEF Unmet
  <2> QED
    BY <1>1, <1>5, <2>1, HoldsOfReach DEF Honest, Refused, Refusal, CredentialCodes
<1> QED
  BY <1>2, <1>3, <1>4, <1>5 DEF SaidOfDial

\* A code that says nothing of a server, of what is no credential's refusal.
LEMMA OthersHonest ==
  ASSUME NEW code, code \notin Said, NEW advice, NEW e, NEW srv, NEW c, NEW s, NEW w, NEW over, ~CredentialWords(e, s)
  PROVE  Honest(Refusal(code, advice), e, srv, c, s, w, over)
BY OthersHold DEF Honest, Refusal, Said, CredentialCodes

\* A certificate that was turned down.
LEMMA VerdictHonest ==
  ASSUME NEW srv, srv.tls # "none", NEW c, NEW s, NEW w, NEW over, NEW e, e = Verdict(srv, w, c.route), e # {}, NEW advice
  PROVE  /\ ~CredentialWords(e, s)
         /\ "untrusted" \in e => Honest(Refusal("tls.untrusted", advice), e, srv, c, s, w, over)
         /\ "hostname" \in e => Honest(Refusal("tls.name", advice), e, srv, c, s, w, over) /\ Honest(Refusal("tls.forward", advice), e, srv, c, s, w, over)
         /\ "nameless" \in e => Honest(Refusal("tls.name", advice), e, srv, c, s, w, over)
         /\ Honest(Refusal("tls.rejected", advice), e, srv, c, s, w, over)
<1>1. ~CredentialWords(e, s)
  <2>1. e \subseteq {"untrusted", "revoked", "hostname", "verify", "nameless"}
    BY VerdictWords
  <2>2. {"untrusted", "revoked", "hostname", "verify", "nameless"} \subseteq NoCredential
    BY DEF NoCredential
  <2> QED
    BY <2>1, <2>2, NoCredentialWords
<1> QED
  BY <1>1, VerdictWords, HoldsOfTLS DEF Honest, Refusal, CredentialCodes

\* What is said of a server that turned down what was presented, and of one that did not.
LEMMA TurnedDownHonest ==
  ASSUME NEW srv, NEW c, NEW s, NEW w, NEW over, NEW e, CredentialWords(e, s), NEW advice
  PROVE  /\ s.secret # srv.secret => Honest(Refusal("auth.failed", advice), e, srv, c, s, w, over)
         /\ ~srv.grants \/ (c.plugin \in {"vault", "s3"} /\ s.secret # srv.secret)
              => Honest(Refusal("denied", advice), e, srv, c, s, w, over)
         /\ srv.skewed => Honest(Refusal("token.auth.failed", advice), e, srv, c, s, w, over)
BY HoldsOfSecret DEF Honest, Refusal, CredentialCodes

LEMMA AnsweredHonest ==
  ASSUME NEW srv, NEW c, NEW s, NEW w, NEW over, NEW e, ~CredentialWords(e, s), NEW advice
  PROVE  /\ ~srv.ready => /\ Honest(Refusal("loading", advice), e, srv, c, s, w, over)
                          /\ Honest(Refusal("sealed", advice), e, srv, c, s, w, over)
         /\ ~srv.ready \/ Dropped(srv) => Honest(Refusal("unavailable", advice), e, srv, c, s, w, over)
         /\ s.secret = "none" /\ srv.secret # "none" => Honest(Refusal("auth.required", advice), e, srv, c, s, w, over)
         /\ srv.secret = "none" => Honest(Refusal("auth.unneeded", advice), e, srv, c, s, w, over)
         /\ srv.redirects => /\ Honest(Refusal("redirected", advice), e, srv, c, s, w, over)
                             /\ Honest(Refusal("redirect.refused", advice), e, srv, c, s, w, over)
         /\ srv.tls = "only" /\ w.tls = "no" => /\ Honest(Refusal("tls.expected", advice), e, srv, c, s, w, over)
                                                /\ Honest(Refusal("tls.required", advice), e, srv, c, s, w, over)
         /\ Dropped(srv) \/ (w.tls = "no" /\ srv.tls = "only") => Honest(Refusal("conn.closed", advice), e, srv, c, s, w, over)
         /\ srv.tls = "none" => Honest(Refusal("tls.unsupported", advice), e, srv, c, s, w, over)
         /\ <<srv.issuer, srv.names>> # <<over.issuer, over.names>> => Honest(Refusal("tls.changed", advice), e, srv, c, s, w, over)
         /\ \A code : code \notin Said => Honest(Refusal(code, advice), e, srv, c, s, w, over)
<1>1. \A code : code \notin Said => Honest(Refusal(code, advice), e, srv, c, s, w, over)
  BY OthersHonest
<1> QED
  BY <1>1, HoldsOfSecret, HoldsOfReach, HoldsOfTLS DEF Honest, Refusal, CredentialCodes

\* What a certificate that was turned down is said to be.
Certified(refusal, e) ==
  \/ "untrusted" \in e /\ \E advice : refusal = Refusal("tls.untrusted", advice)
  \/ "hostname" \in e /\ refusal = ForwardName
  \/ ("hostname" \in e \/ "nameless" \in e) /\ \E advice : refusal = Refusal("tls.name", advice)
  \/ \E advice : refusal = Refusal("tls.rejected", advice)

LEMMA CertifiedHonest ==
  ASSUME NEW srv, srv.tls # "none", NEW c, NEW s, NEW w, NEW over, NEW e, e = Verdict(srv, w, c.route), e # {},
         NEW refusal, Certified(refusal, e)
  PROVE  Honest(refusal, e, srv, c, s, w, over)
<1>1. \A advice : /\ "untrusted" \in e => Honest(Refusal("tls.untrusted", advice), e, srv, c, s, w, over)
                  /\ "hostname" \in e => /\ Honest(Refusal("tls.name", advice), e, srv, c, s, w, over)
                                         /\ Honest(Refusal("tls.forward", advice), e, srv, c, s, w, over)
                  /\ "nameless" \in e => Honest(Refusal("tls.name", advice), e, srv, c, s, w, over)
                  /\ Honest(Refusal("tls.rejected", advice), e, srv, c, s, w, over)
  BY VerdictHonest
<1> QED
  BY <1>1 DEF Certified, ForwardName

\* The words a handshake leaves of a certificate.
OfVerdict(e) == e \subseteq {"untrusted", "revoked", "hostname", "verify", "nameless"} /\ ("verify" \in e \/ "untrusted" \in e)

LEMMA HandshakenHonest ==
  ASSUME NEW c, NEW w, NEW srv, NEW s, NEW over, NEW e, Handshaken(e, c, w, srv), NEW refusal,
         w.tls = "no" /\ srv.tls = "only" /\ e = InTheClear(c, srv) => Honest(refusal, e, srv, c, s, w, over),
         srv.tls = "none" /\ e = NoTLSThere(c) => Honest(refusal, e, srv, c, s, w, over),
         OfVerdict(e) => Certified(refusal, e),
         srv.pair # "none" /\ e = (IF c.plugin = "pg" THEN {"valid client certificate"} ELSE {"alert"})
           /\ ~(w.pair /\ srv.pair = "wants") => Honest(refusal, e, srv, c, s, w, over)
  PROVE  Honest(refusal, e, srv, c, s, w, over)
<1>1. CASE w.tls # "no" /\ srv.tls # "none" /\ Verdict(srv, w, c.route) # {} /\ e = Verdict(srv, w, c.route)
  <2>1. OfVerdict(e)
    BY <1>1, VerdictWords DEF OfVerdict
  <2> QED
    BY <1>1, <2>1, CertifiedHonest
<1> QED
  BY <1>1 DEF Handshaken, PairTaken

LEMMA RedisHonest ==
  ASSUME NEW s, NEW c, c.plugin = "redis", NEW srv \in ServerStates, NEW w
  PROVE  /\ Meets(c, w, srv) # {} => Honest(RedisTold(Meets(c, w, srv), s, c.route), Meets(c, w, srv), srv, c, s, w, srv)
         /\ \A over, e : ~Silent(srv) /\ e = (IF srv.reach = "answers" THEN RedisAnswers(s, srv) ELSE {"eof"}) /\ e # {}
              => Honest(RedisTold(e, s, c.route), e, srv, c, s, w, over)
<1> USE DEF Mysqls, ByURL, Programs, Plugins
<1>1. ASSUME NEW e, e \in {{"WRONGPASS"}, {"ERR invalid"}}
      PROVE  RedisTold(e, s, c.route) = Refusal("auth.failed", Another(s)) /\ CredentialWords(e, s)
  BY <1>1 DEF RedisTold, RedisFailed, RedisAnswered, RedisRejected, CredentialWords, TurnedDown
<1>2. ASSUME NEW e, e = {"NOPERM"}
      PROVE  RedisTold(e, s, c.route) = Refusal("denied", {}) /\ CredentialWords(e, s)
  BY <1>2 DEF RedisTold, RedisFailed, RedisAnswered, RedisRejected, CredentialWords, TurnedDown
<1>3. ASSUME NEW e, e = {"NOAUTH"}
      PROVE  RedisTold(e, s, c.route) = Refusal("auth.required", Another(s)) /\ ~CredentialWords(e, s)
  BY <1>3 DEF RedisTold, RedisFailed, RedisAnswered, RedisRejected, CredentialWords, TurnedDown
<1>4. ASSUME NEW e, e = {"LOADING"}
      PROVE  RedisTold(e, s, c.route) = Refusal("loading", {}) /\ ~CredentialWords(e, s)
  BY <1>4 DEF RedisTold, RedisFailed, RedisAnswered, RedisRejected, CredentialWords, TurnedDown
<1>5. ASSUME NEW e, e = {"ERR no password"}
      PROVE  (\E advice : RedisTold(e, s, c.route) = Refusal("auth.unneeded", advice)) /\ ~CredentialWords(e, s)
  BY <1>5 DEF RedisTold, RedisFailed, RedisAnswered, RedisRejected, CredentialWords, TurnedDown
<1>6. ASSUME NEW e, e = {"eof"}
      PROVE  (\E advice : RedisTold(e, s, c.route) = Refusal("conn.closed", advice)) /\ ~CredentialWords(e, s)
  BY <1>6 DEF RedisTold, RedisFailed, RedisAnswered, CredentialWords, TurnedDown
<1>7. ASSUME NEW e, e \in {{"record"}, {"alert"}}
      PROVE  RedisTold(e, s, c.route) = Refusal("conn.failed", {}) /\ ~CredentialWords(e, s)
  BY <1>7 DEF RedisTold, RedisFailed, RedisAnswered, CredentialWords, TurnedDown
<1>8. ASSUME NEW e, OfVerdict(e) PROVE Certified(RedisTold(e, s, c.route), e)
  BY <1>8 DEF RedisTold, Certified, OfVerdict, RedisName
<1>9. ASSUME NEW e, Unmet(e, srv) PROVE Honest(RedisTold(e, s, c.route), e, srv, c, s, w, srv)
  <2>1. CASE e = {"dns", "dns timeout"}
    <3>1. RedisTold(e, s, c.route) = TimedOut
      BY <2>1 DEF RedisTold, RedisFailed, RedisAnswered
    <3>2. Mis(e, c) /\ e \subseteq NoCredential
      BY <2>1 DEF Mis, NoCredential
    <3> QED
      BY <3>1, <3>2, NoCredentialWords DEF Honest, TimedOut, Refusal, CredentialCodes
  <2>2. CASE e # {"dns", "dns timeout"}
    <3>1. SaidOfDial(RedisTold(e, s, c.route), e)
      BY <1>9, <2>2 DEF Unmet, SaidOfDial, RedisTold, RedisFailed, RedisAnswered
    <3> QED
      BY <1>9, <3>1, UnmetHonest
  <2> QED
    BY <2>1, <2>2
<1>10. ASSUME NEW e, Handshaken(e, c, w, srv) PROVE Honest(RedisTold(e, s, c.route), e, srv, c, s, w, srv)
  <2>1. CASE w.tls = "no" /\ srv.tls = "only" /\ e = InTheClear(c, srv)
    <3>1. e = {"eof"}
      BY <2>1 DEF InTheClear
    <3> QED
      BY <1>6, <2>1, <3>1, AnsweredHonest
  <2>2. CASE e \in {{"record"}, {"alert"}}
    BY <1>7, <2>2, AnsweredHonest DEF Said
  <2> QED
    BY <1>8, <1>10, <2>1, <2>2, HandshakenHonest DEF NoTLSThere
<1>11. ASSUME NEW over, ~Silent(srv), NEW e, e = (IF srv.reach = "answers" THEN RedisAnswers(s, srv) ELSE {"eof"}), e # {}
       PROVE  Honest(RedisTold(e, s, c.route), e, srv, c, s, w, over)
  <2>1. CASE s.secret # srv.secret /\ e \in {{"WRONGPASS"}, {"ERR invalid"}}
    <3>1. RedisTold(e, s, c.route) = Refusal("auth.failed", Another(s)) /\ CredentialWords(e, s)
      BY <1>1, <2>1
    <3>2. s.secret # srv.secret
      BY <2>1
    <3> QED
      BY <3>1, <3>2, TurnedDownHonest
  <2>2. CASE ~srv.grants /\ e = {"NOPERM"}
    BY <1>2, <2>2, TurnedDownHonest
  <2>3. CASE s.secret = "none" /\ srv.secret # "none" /\ e = {"NOAUTH"}
    BY <1>3, <2>3, AnsweredHonest
  <2>4. CASE ~srv.ready /\ e = {"LOADING"}
    BY <1>4, <2>4, AnsweredHonest
  <2>5. CASE srv.secret = "none" /\ e = {"ERR no password"}
    <3>1. PICK advice : RedisTold(e, s, c.route) = Refusal("auth.unneeded", advice)
      BY <1>5, <2>5
    <3>2. ~CredentialWords(e, s)
      BY <1>5, <2>5
    <3> QED
      BY <2>5, <3>1, <3>2, AnsweredHonest
  <2>6. CASE Dropped(srv) /\ e = {"eof"}
    BY <1>6, <2>6, AnsweredHonest
  <2> QED
    BY <1>11, <2>1, <2>2, <2>3, <2>4, <2>5, <2>6 DEF RedisAnswers, Dropped
<1> QED
  BY <1>9, <1>10, <1>11, MeetsWords

\* etcd: what is answered, and what a dial by hand finds where the client's own failed.
LEMMA EtcdHonest ==
  ASSUME NEW s, NEW c, c.plugin = "etcd", NEW srv \in ServerStates, NEW w, NEW over
  PROVE  /\ \A e : Unmet(e, srv) => Honest(EtcdTold(e, s, c.route), e, srv, c, s, w, over)
         /\ \A e, hand : w.tls # "no" /\ Handshaken(e, c, w, srv) /\ ~(e \subseteq {"alert"}) /\ hand = e \cup {"handshake"}
              => Honest(EtcdTold(hand, s, c.route), hand, srv, c, s, w, over)
         /\ \A e : ~Silent(srv) /\ e = (IF srv.reach = "answers" THEN EtcdAnswers(s, srv) ELSE {"Unavailable"}) /\ e # {}
              => Honest(EtcdTold(e, s, c.route), e, srv, c, s, w, over)
<1> USE DEF Mysqls, ByURL, Programs, Plugins
<1>1. ASSUME NEW e, Unmet(e, srv) PROVE Honest(EtcdTold(e, s, c.route), e, srv, c, s, w, over)
  <2>1. SaidOfDial(EtcdTold(e, s, c.route), e)
    BY <1>1 DEF Unmet, SaidOfDial, EtcdTold
  <2> QED
    BY <1>1, <2>1, UnmetHonest
<1>2. ASSUME NEW e, NEW hand, w.tls # "no", Handshaken(e, c, w, srv), ~(e \subseteq {"alert"}), hand = e \cup {"handshake"}
      PROVE  Honest(EtcdTold(hand, s, c.route), hand, srv, c, s, w, over)
  <2>1. CASE srv.tls = "none" /\ e = {"record"}
    <3>1. EtcdTold(hand, s, c.route) = Refusal("tls.failed", {}) /\ ~CredentialWords(hand, s)
      BY <1>2, <2>1 DEF EtcdTold, CredentialWords, TurnedDown
    <3> QED
      BY <2>1, <3>1, HoldsOfTLS DEF Honest, Refusal, CredentialCodes
  <2>2. CASE srv.tls # "none" /\ Verdict(srv, w, c.route) # {} /\ e = Verdict(srv, w, c.route)
    <3>1. OfVerdict(e)
      BY <2>2, VerdictWords DEF OfVerdict
    <3>2. Certified(EtcdTold(hand, s, c.route), e)
      BY <1>2, <3>1 DEF EtcdTold, Certified, OfVerdict
    <3>3. Honest(EtcdTold(hand, s, c.route), e, srv, c, s, w, over)
      BY <2>2, <3>2, CertifiedHonest
    <3>4. CredentialWords(hand, s) <=> CredentialWords(e, s)
      BY <1>2 DEF CredentialWords, TurnedDown
    <3>5. Mis(hand, c) <=> Mis(e, c)
      BY <1>2 DEF Mis
    <3> QED
      BY <3>3, <3>4, <3>5 DEF Honest
  <2> QED
    BY <1>2, <2>1, <2>2 DEF Handshaken, NoTLSThere
<1>3. ASSUME NEW e, e = {"Unauthenticated"}
      PROVE  EtcdTold(e, s, c.route) = Refusal("auth.failed", Another(s)) /\ CredentialWords(e, s)
  BY <1>3 DEF EtcdTold, CredentialWords, TurnedDown
<1>4. ASSUME NEW e, e = {"PermissionDenied"}
      PROVE  EtcdTold(e, s, c.route) = Refusal("denied", {}) /\ CredentialWords(e, s)
  BY <1>4 DEF EtcdTold, CredentialWords, TurnedDown
<1>5. ASSUME NEW e, e = {"Unavailable"}
      PROVE  EtcdTold(e, s, c.route) = Refusal("unavailable", {}) /\ ~CredentialWords(e, s)
  BY <1>5 DEF EtcdTold, CredentialWords, TurnedDown
<1>6. ASSUME NEW e, ~Silent(srv), e = (IF srv.reach = "answers" THEN EtcdAnswers(s, srv) ELSE {"Unavailable"}), e # {}
      PROVE  Honest(EtcdTold(e, s, c.route), e, srv, c, s, w, over)
  <2>1. CASE s.secret # srv.secret /\ e = {"Unauthenticated"}
    BY <1>3, <2>1, TurnedDownHonest
  <2>2. CASE ~srv.grants /\ e = {"PermissionDenied"}
    BY <1>4, <2>2, TurnedDownHonest
  <2>3. CASE (~srv.ready \/ Dropped(srv)) /\ e = {"Unavailable"}
    BY <1>5, <2>3, AnsweredHonest
  <2> QED
    BY <1>6, <2>1, <2>2, <2>3 DEF EtcdAnswers, Dropped
<1> QED
  BY <1>1, <1>2, <1>6

---------------------------------------------------------------------------
(* The plugins that speak HTTP. *)

LEMMA TransportDialled ==
  ASSUME NEW s, NEW route, NEW srv, NEW e, Unmet(e, srv), NEW otherwise
  PROVE  SaidOfDial(TransportTold(e, s, route, otherwise), e)
BY DEF Unmet, SaidOfDial, TransportTold

LEMMA TransportCertified ==
  ASSUME NEW s, NEW route, NEW e, OfVerdict(e), NEW otherwise
  PROVE  Certified(TransportTold(e, s, route, otherwise), e)
BY DEF Certified, OfVerdict, TransportTold

LEMMA TransportPasses ==
  ASSUME NEW s, NEW route, NEW e, NEW otherwise,
         e \cap {"deadline", "dns", "untrusted", "hostname", "verify", "unroutable", "refused", "timeout"} = {}
  PROVE  TransportTold(e, s, route, otherwise) = otherwise
BY DEF TransportTold

\* What HTTP's plugins meet past the dial is one word, or a certificate.
LEMMA HttpMeets ==
  ASSUME NEW c, c.plugin \in {"qdrant", "s3"} \cup ByURL, NEW w, NEW srv \in ServerStates, NEW s, NEW e, e = Meets(c, w, srv), e # {},
         NEW refusal,
         Unmet(e, srv) => SaidOfDial(refusal, e),
         OfVerdict(e) => Certified(refusal, e),
         e = {"400"} /\ srv.tls = "only" /\ w.tls = "no" => Honest(refusal, e, srv, c, s, w, srv),
         e = {"tls bytes"} /\ srv.tls = "only" /\ w.tls = "no" => Honest(refusal, e, srv, c, s, w, srv),
         e = {"eof"} => Honest(refusal, e, srv, c, s, w, srv),
         e = {"record"} => Honest(refusal, e, srv, c, s, w, srv),
         e = {"alert"} => Honest(refusal, e, srv, c, s, w, srv)
  PROVE  Honest(refusal, e, srv, c, s, w, srv)
<1> USE DEF Mysqls, ByURL, Programs, Plugins
<1>1. CASE Unmet(e, srv)
  BY <1>1, UnmetHonest
<1>2. CASE Handshaken(e, c, w, srv)
  <2>1. srv.plainly \in {"says so", "alerts", "hangs up"}
    BY DEF ServerStates
  <2>2. InTheClear(c, srv) = PlainMet(srv) /\ NoTLSThere(c) = {"record"}
    BY DEF InTheClear, NoTLSThere
  <2>3. PlainMet(srv) = {"400"} \/ PlainMet(srv) = {"tls bytes"} \/ PlainMet(srv) = {"eof"}
    BY <2>1 DEF PlainMet
  <2>4. CASE w.tls = "no" /\ srv.tls = "only" /\ e = InTheClear(c, srv)
    BY <2>2, <2>3, <2>4
  <2>5. CASE e = {"record"} \/ e = {"alert"}
    BY <2>5
  <2>6. CASE OfVerdict(e) /\ w.tls # "no" /\ srv.tls # "none" /\ e = Verdict(srv, w, c.route)
    BY <2>6, CertifiedHonest
  <2>7. Verdict(srv, w, c.route) # {} => OfVerdict(Verdict(srv, w, c.route))
    BY VerdictWords DEF OfVerdict
  <2> QED
    BY <1>2, <2>2, <2>4, <2>5, <2>6, <2>7 DEF Handshaken
<1> QED
  BY <1>1, <1>2, MeetsWords

LEMMA QdrantHonest ==
  ASSUME NEW s, NEW c, c.plugin = "qdrant", NEW srv \in ServerStates, NEW w
  PROVE  /\ \A e : e = Meets(c, w, srv) /\ e # {} => Honest(QdrantTold(e, s, c.route), e, srv, c, s, w, srv)
         /\ \A e, over : e = (IF srv.reach = "answers" THEN QdrantAnswers(s, srv) ELSE {"eof"}) /\ e # {}
              => Honest(QdrantTold(e, s, c.route), e, srv, c, s, w, over)
<1> USE DEF Mysqls, ByURL, Programs, Plugins
<1> DEFINE failed(e) == IF ~QdrantTLS(s) /\ "tls bytes" \in e THEN Expected([mode |-> "on"], c.route) ELSE Refusal("conn.failed", {})
           dialled(e) == TransportTold(e, s, c.route, failed(e))
<1>1. ASSUME NEW e, e = {"401"}
      PROVE  QdrantTold(e, s, c.route) = Refusal("auth.failed", Another(s)) /\ CredentialWords(e, s)
  BY <1>1 DEF QdrantTold, QdrantStatus, CredentialWords, TurnedDown
<1>2. ASSUME NEW e, e = {"403"}
      PROVE  QdrantTold(e, s, c.route) = Refusal("denied", {}) /\ CredentialWords(e, s)
  BY <1>2 DEF QdrantTold, QdrantStatus, CredentialWords, TurnedDown
<1>3. ASSUME NEW e, e = {"503"}
      PROVE  QdrantTold(e, s, c.route) = Refusal("unavailable", {}) /\ ~CredentialWords(e, s)
  BY <1>3 DEF QdrantTold, QdrantStatus, CredentialWords, TurnedDown
<1>4. ASSUME NEW e, e = {"400"}
      PROVE  QdrantTold(e, s, c.route) = Refusal("request.failed", {}) /\ ~CredentialWords(e, s)
  BY <1>4 DEF QdrantTold, QdrantStatus, CredentialWords, TurnedDown
<1>5. ASSUME NEW e, e = {"redirect"}
      PROVE  QdrantTold(e, s, c.route) = Refusal("redirect.refused", {}) /\ ~CredentialWords(e, s)
  BY <1>5 DEF QdrantTold, QdrantStatus, CredentialWords, TurnedDown
<1>6. ASSUME NEW e, e \cap {"401", "403", "503", "400", "redirect"} = {}
      PROVE  QdrantTold(e, s, c.route) = dialled(e)
  BY <1>6 DEF QdrantTold, QdrantStatus
<1> HIDE DEF failed
<1>7. ASSUME NEW e, Unmet(e, srv) PROVE SaidOfDial(QdrantTold(e, s, c.route), e)
  <2>1. e \cap {"401", "403", "503", "400", "redirect"} = {}
    BY <1>7 DEF Unmet
  <2> QED
    BY <1>6, <1>7, <2>1, TransportDialled
<1>8. ASSUME NEW e, OfVerdict(e) PROVE Certified(QdrantTold(e, s, c.route), e)
  <2>1. e \cap {"401", "403", "503", "400", "redirect"} = {}
    BY <1>8 DEF OfVerdict
  <2> QED
    BY <1>6, <1>8, <2>1, TransportCertified
<1>9. ASSUME NEW e, e = {"tls bytes"} \/ e = {"eof"} \/ e = {"record"} \/ e = {"alert"}
      PROVE  /\ ~CredentialWords(e, s)
             /\ e = {"tls bytes"} \/ QdrantTold(e, s, c.route) = Refusal("conn.failed", {})
             /\ \/ QdrantTold(e, s, c.route) = Refusal("conn.failed", {})
                \/ \E advice : QdrantTold(e, s, c.route) = Refusal("tls.expected", advice)
  <2>1. ~CredentialWords(e, s)
    <3>1. e \subseteq NoCredential
      BY <1>9 DEF NoCredential
    <3> QED
      BY <3>1, NoCredentialWords
  <2>2. QdrantTold(e, s, c.route) = dialled(e)
    BY <1>6, <1>9
  <2>3. dialled(e) = failed(e)
    <3>1. e \cap {"deadline", "dns", "untrusted", "hostname", "verify", "unroutable", "refused", "timeout"} = {}
      BY <1>9
    <3> QED
      BY <3>1, TransportPasses
  <2>4. e = {"tls bytes"} \/ failed(e) = Refusal("conn.failed", {})
    BY <1>9 DEF failed
  <2>5. failed(e) = Refusal("conn.failed", {}) \/ \E advice : failed(e) = Refusal("tls.expected", advice)
    BY DEF Expected, failed
  <2> QED
    BY <2>1, <2>2, <2>3, <2>4, <2>5
<1>10. ASSUME NEW e, e = Meets(c, w, srv), e # {} PROVE Honest(QdrantTold(e, s, c.route), e, srv, c, s, w, srv)
  <2>1. CASE e = {"400"}
    <3>1. QdrantTold(e, s, c.route) = Refusal("request.failed", {}) /\ ~CredentialWords(e, s)
      BY <1>4, <2>1
    <3> QED
      BY <3>1, AnsweredHonest DEF Said
  <2>2. CASE e = {"tls bytes"} /\ srv.tls = "only" /\ w.tls = "no"
    <3>1. ~CredentialWords(e, s)
      BY <1>9, <2>2
    <3>2. CASE QdrantTold(e, s, c.route) = Refusal("conn.failed", {})
      BY <3>1, <3>2, AnsweredHonest DEF Said
    <3>3. ASSUME NEW advice, QdrantTold(e, s, c.route) = Refusal("tls.expected", advice)
          PROVE  Honest(QdrantTold(e, s, c.route), e, srv, c, s, w, srv)
      BY <2>2, <3>1, <3>3, AnsweredHonest
    <3> QED
      BY <1>9, <2>2, <3>2, <3>3
  <2>3. CASE e = {"eof"} \/ e = {"record"} \/ e = {"alert"}
    <3>1. QdrantTold(e, s, c.route) = Refusal("conn.failed", {}) /\ ~CredentialWords(e, s)
      BY <1>9, <2>3
    <3> QED
      BY <3>1, AnsweredHonest DEF Said
  <2> QED
    BY <1>7, <1>8, <1>10, <2>1, <2>2, <2>3, HttpMeets
<1>11. ASSUME NEW e, NEW over, e = (IF srv.reach = "answers" THEN QdrantAnswers(s, srv) ELSE {"eof"}), e # {}
       PROVE  Honest(QdrantTold(e, s, c.route), e, srv, c, s, w, over)
  <2>1. CASE srv.redirects /\ e = {"redirect"}
    BY <1>5, <2>1, AnsweredHonest
  <2>2. CASE s.secret # srv.secret /\ e = {"401"}
    BY <1>1, <2>2, TurnedDownHonest
  <2>3. CASE ~srv.ready /\ e = {"503"}
    BY <1>3, <2>3, AnsweredHonest
  <2>4. CASE ~srv.grants /\ e = {"403"}
    BY <1>2, <2>4, TurnedDownHonest
  <2>5. CASE e = {"eof"}
    <3>1. QdrantTold(e, s, c.route) = Refusal("conn.failed", {}) /\ ~CredentialWords(e, s)
      BY <1>9, <2>5
    <3> QED
      BY <3>1, AnsweredHonest DEF Said
  <2> QED
    BY <1>11, <2>1, <2>2, <2>3, <2>4, <2>5 DEF QdrantAnswers
<1> QED
  BY <1>10, <1>11

LEMMA S3Honest ==
  ASSUME NEW s, NEW c, c.plugin = "s3", NEW srv \in ServerStates, NEW w
  PROVE  /\ \A e : e = Meets(c, w, srv) /\ e # {} => Honest(S3Told(e, s, c.route), e, srv, c, s, w, srv)
         /\ \A e, over : e = (IF srv.reach = "answers" THEN S3Answers(s, srv) ELSE {"eof"}) /\ e # {}
              => Honest(S3Told(e, s, c.route), e, srv, c, s, w, over)
<1> USE DEF Mysqls, ByURL, Programs, Plugins
<1> DEFINE dialled(e) == TransportTold(e, s, c.route, Refusal("conn.failed", {}))
<1>1. ASSUME NEW e, e = {"SignatureDoesNotMatch"}
      PROVE  S3Told(e, s, c.route) = Refusal("auth.failed", Another(s)) /\ CredentialWords(e, s)
  BY <1>1 DEF S3Told, S3Status, CredentialWords, TurnedDown
<1>2. ASSUME NEW e, e = {"AccessDenied"}
      PROVE  S3Told(e, s, c.route) = Refusal("denied", {}) /\ CredentialWords(e, s)
  BY <1>2 DEF S3Told, S3Status, CredentialWords, TurnedDown
<1>3. ASSUME NEW e, e = {"503"} \/ e = {"redirect"}
      PROVE  S3Told(e, s, c.route) = Refusal("request.failed", {}) /\ ~CredentialWords(e, s)
  BY <1>3 DEF S3Told, S3Status, CredentialWords, TurnedDown
<1>4. ASSUME NEW e, e = {"400"}
      PROVE  (\E advice : S3Told(e, s, c.route) = Refusal("tls.expected", advice)) /\ ~CredentialWords(e, s)
  BY <1>4 DEF S3Told, S3Status, Expected, CredentialWords, TurnedDown
<1>5. ASSUME NEW e, e \cap {"AccessDenied", "SignatureDoesNotMatch", "400", "503", "redirect"} = {}
      PROVE  S3Told(e, s, c.route) = dialled(e)
  <2>1. CASE "deadline" \in e
    BY <2>1 DEF S3Told, TransportTold
  <2>2. CASE "deadline" \notin e
    BY <1>5, <2>2 DEF S3Told, S3Status
  <2> QED
    BY <2>1, <2>2
<1>6. ASSUME NEW e, Unmet(e, srv) PROVE SaidOfDial(S3Told(e, s, c.route), e)
  <2>1. e \cap {"AccessDenied", "SignatureDoesNotMatch", "400", "503", "redirect"} = {}
    BY <1>6 DEF Unmet
  <2> QED
    BY <1>5, <1>6, <2>1, TransportDialled
<1>7. ASSUME NEW e, OfVerdict(e) PROVE Certified(S3Told(e, s, c.route), e)
  <2>1. e \cap {"AccessDenied", "SignatureDoesNotMatch", "400", "503", "redirect"} = {}
    BY <1>7 DEF OfVerdict
  <2> QED
    BY <1>5, <1>7, <2>1, TransportCertified
<1>8. ASSUME NEW e, e = {"tls bytes"} \/ e = {"eof"} \/ e = {"record"} \/ e = {"alert"}
      PROVE  S3Told(e, s, c.route) = Refusal("conn.failed", {}) /\ ~CredentialWords(e, s)
  <2>1. e \subseteq NoCredential
    BY <1>8 DEF NoCredential
  <2>2. e \cap {"AccessDenied", "SignatureDoesNotMatch", "400", "503", "redirect"} = {}
    BY <1>8
  <2>3. e \cap {"deadline", "dns", "untrusted", "hostname", "verify", "unroutable", "refused", "timeout"} = {}
    BY <1>8
  <2>4. dialled(e) = Refusal("conn.failed", {})
    BY <2>3, TransportPasses
  <2> QED
    BY <1>5, <2>1, <2>2, <2>4, NoCredentialWords
<1>9. ASSUME NEW e, e = Meets(c, w, srv), e # {} PROVE Honest(S3Told(e, s, c.route), e, srv, c, s, w, srv)
  <2>1. CASE e = {"400"} /\ srv.tls = "only" /\ w.tls = "no"
    <3>1. PICK advice : S3Told(e, s, c.route) = Refusal("tls.expected", advice)
      BY <1>4, <2>1
    <3>2. ~CredentialWords(e, s)
      BY <1>4, <2>1
    <3> QED
      BY <2>1, <3>1, <3>2, AnsweredHonest
  <2>2. CASE e = {"tls bytes"} \/ e = {"eof"} \/ e = {"record"} \/ e = {"alert"}
    <3>1. S3Told(e, s, c.route) = Refusal("conn.failed", {}) /\ ~CredentialWords(e, s)
      BY <1>8, <2>2
    <3> QED
      BY <3>1, AnsweredHonest DEF Said
  <2> QED
    BY <1>6, <1>7, <1>9, <2>1, <2>2, HttpMeets
<1>10. ASSUME NEW e, NEW over, e = (IF srv.reach = "answers" THEN S3Answers(s, srv) ELSE {"eof"}), e # {}
       PROVE  Honest(S3Told(e, s, c.route), e, srv, c, s, w, over)
  <2>1. CASE e = {"503"} \/ e = {"redirect"}
    <3>1. S3Told(e, s, c.route) = Refusal("request.failed", {}) /\ ~CredentialWords(e, s)
      BY <1>3, <2>1
    <3> QED
      BY <3>1, AnsweredHonest DEF Said
  <2>2. CASE s.secret # srv.secret /\ e = {"SignatureDoesNotMatch"}
    BY <1>1, <2>2, TurnedDownHonest
  <2>3. CASE (~srv.grants \/ s.secret # srv.secret) /\ e = {"AccessDenied"}
    BY <1>2, <2>3, TurnedDownHonest
  <2>4. CASE e = {"eof"}
    <3>1. S3Told(e, s, c.route) = Refusal("conn.failed", {}) /\ ~CredentialWords(e, s)
      BY <1>8, <2>4
    <3> QED
      BY <3>1, AnsweredHonest DEF Said
  <2> QED
    BY <1>10, <2>1, <2>2, <2>3, <2>4 DEF S3Answers
<1> QED
  BY <1>9, <1>10

LEMMA VaultHonest ==
  ASSUME NEW s, NEW c, c.plugin = "vault", NEW srv \in ServerStates, NEW w
  PROVE  /\ \A e : e = Meets(c, w, srv) /\ e # {} => Honest(VaultTold(e, s, c.route), e, srv, c, s, w, srv)
         /\ \A e, over : e = (IF srv.reach = "answers" THEN VaultAnswers(s, srv) ELSE {"eof"}) /\ e # {}
              => Honest(VaultTold(e, s, c.route), e, srv, c, s, w, over)
<1> USE DEF Mysqls, ByURL, Programs, Plugins
<1> DEFINE dialled(e) == TransportTold(e, s, c.route, Refusal("conn.failed", {}))
<1>1. ASSUME NEW e, e = {"403"}
      PROVE  VaultTold(e, s, c.route) = Refusal("denied", {}) /\ CredentialWords(e, s)
  BY <1>1 DEF VaultTold, VaultStatus, CredentialWords, TurnedDown
<1>2. ASSUME NEW e, e = {"503"}
      PROVE  VaultTold(e, s, c.route) = Refusal("sealed", {}) /\ ~CredentialWords(e, s)
  BY <1>2 DEF VaultTold, VaultStatus, CredentialWords, TurnedDown
<1>3. ASSUME NEW e, e = {"redirect"}
      PROVE  VaultTold(e, s, c.route) = Refusal("redirected", {}) /\ ~CredentialWords(e, s)
  BY <1>3 DEF VaultTold, VaultStatus, CredentialWords, TurnedDown
<1>4. ASSUME NEW e, e = {"400"}
      PROVE  (\E advice : VaultTold(e, s, c.route) = Refusal("tls.expected", advice)) /\ ~CredentialWords(e, s)
  BY <1>4 DEF VaultTold, VaultStatus, Expected, CredentialWords, TurnedDown
<1>5. ASSUME NEW e, e \cap {"redirect", "403", "400", "503"} = {}
      PROVE  VaultTold(e, s, c.route) = dialled(e)
  BY <1>5 DEF VaultTold, VaultStatus
<1>6. ASSUME NEW e, Unmet(e, srv) PROVE SaidOfDial(VaultTold(e, s, c.route), e)
  <2>1. e \cap {"redirect", "403", "400", "503"} = {}
    BY <1>6 DEF Unmet
  <2> QED
    BY <1>5, <1>6, <2>1, TransportDialled
<1>7. ASSUME NEW e, OfVerdict(e) PROVE Certified(VaultTold(e, s, c.route), e)
  <2>1. e \cap {"redirect", "403", "400", "503"} = {}
    BY <1>7 DEF OfVerdict
  <2> QED
    BY <1>5, <1>7, <2>1, TransportCertified
<1>8. ASSUME NEW e, e = {"tls bytes"} \/ e = {"eof"} \/ e = {"record"} \/ e = {"alert"}
      PROVE  VaultTold(e, s, c.route) = Refusal("conn.failed", {}) /\ ~CredentialWords(e, s)
  <2>1. e \subseteq NoCredential
    BY <1>8 DEF NoCredential
  <2>2. e \cap {"redirect", "403", "400", "503"} = {}
    BY <1>8
  <2>3. e \cap {"deadline", "dns", "untrusted", "hostname", "verify", "unroutable", "refused", "timeout"} = {}
    BY <1>8
  <2>4. dialled(e) = Refusal("conn.failed", {})
    BY <2>3, TransportPasses
  <2> QED
    BY <1>5, <2>1, <2>2, <2>4, NoCredentialWords
<1>9. ASSUME NEW e, e = Meets(c, w, srv), e # {} PROVE Honest(VaultTold(e, s, c.route), e, srv, c, s, w, srv)
  <2>1. CASE e = {"400"} /\ srv.tls = "only" /\ w.tls = "no"
    <3>1. PICK advice : VaultTold(e, s, c.route) = Refusal("tls.expected", advice)
      BY <1>4, <2>1
    <3>2. ~CredentialWords(e, s)
      BY <1>4, <2>1
    <3> QED
      BY <2>1, <3>1, <3>2, AnsweredHonest
  <2>2. CASE e = {"tls bytes"} \/ e = {"eof"} \/ e = {"record"} \/ e = {"alert"}
    <3>1. VaultTold(e, s, c.route) = Refusal("conn.failed", {}) /\ ~CredentialWords(e, s)
      BY <1>8, <2>2
    <3> QED
      BY <3>1, AnsweredHonest DEF Said
  <2> QED
    BY <1>6, <1>7, <1>9, <2>1, <2>2, HttpMeets
<1>10. ASSUME NEW e, NEW over, e = (IF srv.reach = "answers" THEN VaultAnswers(s, srv) ELSE {"eof"}), e # {}
       PROVE  Honest(VaultTold(e, s, c.route), e, srv, c, s, w, over)
  <2>1. CASE srv.redirects /\ e = {"redirect"}
    BY <1>3, <2>1, AnsweredHonest
  <2>2. CASE ~srv.ready /\ e = {"503"}
    BY <1>2, <2>2, AnsweredHonest
  <2>3. CASE (~srv.grants \/ s.secret # srv.secret) /\ e = {"403"}
    BY <1>1, <2>3, TurnedDownHonest
  <2>4. CASE e = {"eof"}
    <3>1. VaultTold(e, s, c.route) = Refusal("conn.failed", {}) /\ ~CredentialWords(e, s)
      BY <1>8, <2>4
    <3> QED
      BY <3>1, AnsweredHonest DEF Said
  <2> QED
    BY <1>10, <2>1, <2>2, <2>3, <2>4 DEF VaultAnswers
<1> QED
  BY <1>9, <1>10

LEMMA KeycloakHonest ==
  ASSUME NEW s, NEW c, c.plugin = "keycloak", NEW srv \in ServerStates, NEW w
  PROVE  /\ \A e : e = Meets(c, w, srv) /\ e # {} => Honest(KeycloakTold(e, s, c.route), e, srv, c, s, w, srv)
         /\ \A e, over : /\ \/ e = (IF srv.reach = "answers" THEN KeycloakIssues(s, srv) ELSE {"eof"})
                            \/ e = (IF srv.reach = "answers" THEN KeycloakAnswers(srv) ELSE {"eof"})
                         /\ e # {}
              => Honest(KeycloakTold(e, s, c.route), e, srv, c, s, w, over)
<1> USE DEF Mysqls, ByURL, Programs, Plugins
<1> DEFINE way == {IF c.route \in Forwards THEN [far |-> "tls"] ELSE [scheme |-> "https"]}
           failed(e) == IF s.scheme = "http" /\ "tls bytes" \in e THEN Refusal("tls.expected", way)
                        ELSE IF s.scheme = "http" /\ "eof" \in e THEN Refusal("conn.failed", way)
                        ELSE Refusal("conn.failed", {})
           dialled(e) == TransportTold(e, s, c.route, failed(e))
<1> HIDE DEF way
<1>1. ASSUME NEW e, e = {"401"}
      PROVE  KeycloakTold(e, s, c.route) = Refusal("auth.failed", Another(s)) /\ CredentialWords(e, s)
  BY <1>1 DEF KeycloakTold, KeycloakStatus, CredentialWords, TurnedDown
<1>2. ASSUME NEW e, e = {"401 token"}
      PROVE  KeycloakTold(e, s, c.route) = Refusal("token.auth.failed", {}) /\ CredentialWords(e, s)
  BY <1>2 DEF KeycloakTold, KeycloakStatus, CredentialWords, TurnedDown
<1>3. ASSUME NEW e, e = {"403"}
      PROVE  KeycloakTold(e, s, c.route) = Refusal("denied", {}) /\ CredentialWords(e, s)
  BY <1>3 DEF KeycloakTold, KeycloakStatus, CredentialWords, TurnedDown
<1>4. ASSUME NEW e, e = {"400"} \/ e = {"503"}
      PROVE  KeycloakTold(e, s, c.route) = Refusal("request.failed", {}) /\ ~CredentialWords(e, s)
  BY <1>4 DEF KeycloakTold, KeycloakStatus, CredentialWords, TurnedDown
<1>5. ASSUME NEW e, e = {"redirect"}
      PROVE  KeycloakTold(e, s, c.route) = Refusal("redirect.refused", {}) /\ ~CredentialWords(e, s)
  BY <1>5 DEF KeycloakTold, KeycloakStatus, CredentialWords, TurnedDown
<1>6. ASSUME NEW e, e \cap {"401", "401 token", "403", "400", "503", "redirect"} = {}
      PROVE  KeycloakTold(e, s, c.route) = dialled(e)
  BY <1>6 DEF KeycloakTold, KeycloakStatus, way
<1> HIDE DEF failed
<1>7. ASSUME NEW e, Unmet(e, srv) PROVE SaidOfDial(KeycloakTold(e, s, c.route), e)
  <2>1. e \cap {"401", "401 token", "403", "400", "503", "redirect"} = {}
    BY <1>7 DEF Unmet
  <2> QED
    BY <1>6, <1>7, <2>1, TransportDialled
<1>8. ASSUME NEW e, OfVerdict(e) PROVE Certified(KeycloakTold(e, s, c.route), e)
  <2>1. e \cap {"401", "401 token", "403", "400", "503", "redirect"} = {}
    BY <1>8 DEF OfVerdict
  <2> QED
    BY <1>6, <1>8, <2>1, TransportCertified
<1>9. ASSUME NEW e, e = {"tls bytes"} \/ e = {"eof"} \/ e = {"record"} \/ e = {"alert"}
      PROVE  KeycloakTold(e, s, c.route) = failed(e) /\ ~CredentialWords(e, s)
  <2>1. e \subseteq NoCredential
    BY <1>9 DEF NoCredential
  <2>2. e \cap {"401", "401 token", "403", "400", "503", "redirect"} = {}
    BY <1>9
  <2>3. e \cap {"deadline", "dns", "untrusted", "hostname", "verify", "unroutable", "refused", "timeout"} = {}
    BY <1>9
  <2>4. dialled(e) = failed(e)
    BY <2>3, TransportPasses
  <2> QED
    BY <1>6, <2>1, <2>2, <2>4, NoCredentialWords
<1>10. ASSUME NEW e, e = {"eof"} \/ e = {"record"} \/ e = {"alert"}, NEW over
       PROVE  Honest(KeycloakTold(e, s, c.route), e, srv, c, s, w, over)
  <2>1. KeycloakTold(e, s, c.route) = failed(e) /\ ~CredentialWords(e, s)
    <3>1. e = {"tls bytes"} \/ e = {"eof"} \/ e = {"record"} \/ e = {"alert"}
      BY <1>10
    <3> QED
      BY ONLY <1>9, <3>1
  <2>2. ~("tls bytes" \in e)
    <3>1. CASE e = {"eof"}
      BY <3>1
    <3>2. CASE e = {"record"}
      BY <3>2
    <3>3. CASE e = {"alert"}
      BY <3>3
    <3> QED
      BY <1>10, <3>1, <3>2, <3>3
  <2>3. failed(e) = Refusal("conn.failed", way) \/ failed(e) = Refusal("conn.failed", {})
    BY <2>2 DEF failed
  <2>4. Honest(Refusal("conn.failed", way), e, srv, c, s, w, over) /\ Honest(Refusal("conn.failed", {}), e, srv, c, s, w, over)
    BY <2>1, AnsweredHonest DEF Said
  <2> QED
    BY <2>1, <2>3, <2>4
<1>11. ASSUME NEW e, e = Meets(c, w, srv), e # {} PROVE Honest(KeycloakTold(e, s, c.route), e, srv, c, s, w, srv)
  <2>1. CASE e = {"400"}
    <3>1. KeycloakTold(e, s, c.route) = Refusal("request.failed", {}) /\ ~CredentialWords(e, s)
      BY <1>4, <2>1
    <3> QED
      BY <3>1, AnsweredHonest DEF Said
  <2>2. CASE e = {"tls bytes"} /\ srv.tls = "only" /\ w.tls = "no"
    <3>1. KeycloakTold(e, s, c.route) = failed(e) /\ ~CredentialWords(e, s)
      BY <1>9, <2>2
    <3>2. failed(e) = Refusal("tls.expected", way) \/ failed(e) = Refusal("conn.failed", way) \/ failed(e) = Refusal("conn.failed", {})
      BY DEF failed
    <3>3. Honest(Refusal("tls.expected", way), e, srv, c, s, w, srv)
      BY <2>2, <3>1, AnsweredHonest
    <3>4. Honest(Refusal("conn.failed", way), e, srv, c, s, w, srv) /\ Honest(Refusal("conn.failed", {}), e, srv, c, s, w, srv)
      BY <3>1, AnsweredHonest DEF Said
    <3> QED
      BY <3>1, <3>2, <3>3, <3>4
  <2>3. CASE e = {"eof"} \/ e = {"record"} \/ e = {"alert"}
    BY <1>10, <2>3
  <2> QED
    BY <1>7, <1>8, <1>11, <2>1, <2>2, <2>3, HttpMeets
<1>12. ASSUME NEW e, NEW over, e # {},
              \/ e = (IF srv.reach = "answers" THEN KeycloakIssues(s, srv) ELSE {"eof"})
              \/ e = (IF srv.reach = "answers" THEN KeycloakAnswers(srv) ELSE {"eof"})
       PROVE  Honest(KeycloakTold(e, s, c.route), e, srv, c, s, w, over)
  <2>1. CASE srv.redirects /\ e = {"redirect"}
    BY <1>5, <2>1, AnsweredHonest
  <2>2. CASE e = {"503"}
    <3>1. KeycloakTold(e, s, c.route) = Refusal("request.failed", {}) /\ ~CredentialWords(e, s)
      BY <1>4, <2>2
    <3> QED
      BY <3>1, AnsweredHonest DEF Said
  <2>3. CASE s.secret # srv.secret /\ e = {"401"}
    BY <1>1, <2>3, TurnedDownHonest
  <2>4. CASE srv.skewed /\ e = {"401 token"}
    <3>1. KeycloakTold(e, s, c.route) = Refusal("token.auth.failed", {}) /\ CredentialWords(e, s)
      BY <1>2, <2>4
    <3>2. srv.skewed
      BY <2>4
    <3> QED
      BY <3>1, <3>2, TurnedDownHonest
  <2>5. CASE ~srv.grants /\ e = {"403"}
    BY <1>3, <2>5, TurnedDownHonest
  <2>6. CASE e = {"eof"}
    BY <1>10, <2>6
  <2> QED
    BY <1>12, <2>1, <2>2, <2>3, <2>4, <2>5, <2>6 DEF KeycloakIssues, KeycloakAnswers
<1> QED
  BY <1>11, <1>12

---------------------------------------------------------------------------
(* The databases, and the tools a dump or a restore runs. *)

LEMMA MysqlHonest ==
  ASSUME NEW s, NEW c, c.plugin \in Mysqls, NEW srv \in ServerStates, NEW w
  PROVE  /\ \A e : e = Meets(c, w, srv) /\ e # {} => Honest(MysqlTold(e, s, c.route), e, srv, c, s, w, srv)
         /\ \A over, e : e = (IF srv.reach = "answers" THEN MysqlAnswers(s, srv) ELSE {"eof"}) /\ e # {}
              => Honest(MysqlTold(e, s, c.route), e, srv, c, s, w, over)
<1> USE DEF Mysqls, ByURL, Programs, Plugins
<1>1. ASSUME NEW e, e = {"1045"}
      PROVE  MysqlTold(e, s, c.route) = Refusal("auth.failed", Another(s)) /\ CredentialWords(e, s)
  BY <1>1 DEF MysqlTold, MysqlNumbered, CredentialWords, TurnedDown
<1>2. ASSUME NEW e, e = {"1142"}
      PROVE  MysqlTold(e, s, c.route) = Refusal("denied", {}) /\ CredentialWords(e, s)
  BY <1>2 DEF MysqlTold, MysqlNumbered, CredentialWords, TurnedDown
<1>3. ASSUME NEW e, e = {"1040"}
      PROVE  MysqlTold(e, s, c.route) = Refusal("query.failed", {}) /\ ~CredentialWords(e, s)
  BY <1>3 DEF MysqlTold, MysqlNumbered, CredentialWords, TurnedDown
<1>4. ASSUME NEW e, e = {"3159"}
      PROVE  MysqlTold(e, s, c.route) = MysqlTLSRequired(c.route) /\ ~CredentialWords(e, s)
  BY <1>4 DEF MysqlTold, MysqlNumbered, CredentialWords, TurnedDown
<1>5. ASSUME NEW e, e = {"notls"}
      PROVE  MysqlTold(e, s, c.route) = Refusal("tls.unsupported", {[mode |-> "false"]}) /\ ~CredentialWords(e, s)
  BY <1>5 DEF MysqlTold, MysqlNumbered, CredentialWords, TurnedDown
<1>6. ASSUME NEW e, e = {"eof"} \/ e = {"alert"}
      PROVE  MysqlTold(e, s, c.route) = Refusal("conn.failed", {}) /\ ~CredentialWords(e, s)
  BY <1>6 DEF MysqlTold, MysqlNumbered, MysqlVerified, Misnamed, MysqlUnreached, CredentialWords, TurnedDown
<1>7. ASSUME NEW e, e \cap {"1045", "1142", "3159", "1040", "notls"} = {}
      PROVE  MysqlTold(e, s, c.route) = MysqlVerified(e, s, c.route, MysqlUnreached(e))
  BY <1>7 DEF MysqlTold, MysqlNumbered
<1>8. ASSUME NEW e, OfVerdict(e) PROVE Certified(MysqlTold(e, s, c.route), e)
  <2>1. e \cap {"1045", "1142", "3159", "1040", "notls"} = {}
    BY <1>8 DEF OfVerdict
  <2>2. CASE Misnamed(e) /\ "revoked" \notin e
    <3>1. "hostname" \in e \/ "nameless" \in e
      BY <2>2 DEF Misnamed
    <3>2. "nameless" \notin e => "hostname" \in e
      BY <3>1
    <3>3. MysqlVerified(e, s, c.route, MysqlUnreached(e)) = MysqlName(e, s, c.route)
            \/ ("nameless" \notin e /\ MysqlVerified(e, s, c.route, MysqlUnreached(e)) = ForwardName)
      BY <2>2 DEF MysqlVerified
    <3>4. \E advice : MysqlName(e, s, c.route) = Refusal("tls.name", advice)
      BY DEF MysqlName
    <3> QED
      BY <1>7, <2>1, <3>1, <3>2, <3>3, <3>4 DEF Certified
  <2>3. CASE ~(Misnamed(e) /\ "revoked" \notin e)
    <3>1. MysqlVerified(e, s, c.route, MysqlUnreached(e)) =
            IF "untrusted" \in e THEN Refusal("tls.untrusted", {[ca |-> "issuer"]}) ELSE Refusal("tls.rejected", {})
      BY <1>8, <2>3 DEF MysqlVerified, OfVerdict
    <3> QED
      BY <1>7, <2>1, <3>1 DEF Certified
  <2> QED
    BY <2>2, <2>3
<1>9. ASSUME NEW e, Unmet(e, srv) PROVE SaidOfDial(MysqlTold(e, s, c.route), e)
  <2>1. e \cap {"1045", "1142", "3159", "1040", "notls"} = {}
    BY <1>9 DEF Unmet
  <2>2. MysqlVerified(e, s, c.route, MysqlUnreached(e)) = MysqlUnreached(e)
    BY <1>9 DEF Unmet, MysqlVerified, Misnamed
  <2>3. SaidOfDial(MysqlUnreached(e), e)
    BY <1>9 DEF Unmet, MysqlUnreached, SaidOfDial
  <2> QED
    BY <1>7, <2>1, <2>2, <2>3
<1>10. ASSUME NEW e, Handshaken(e, c, w, srv) PROVE Honest(MysqlTold(e, s, c.route), e, srv, c, s, w, srv)
  <2>1. CASE w.tls = "no" /\ srv.tls = "only" /\ e = InTheClear(c, srv)
    <3>1. e = {"3159"}
      BY <2>1 DEF InTheClear
    <3>2. PICK advice : MysqlTLSRequired(c.route) = Refusal("tls.required", advice)
      BY DEF MysqlTLSRequired
    <3>3. MysqlTold(e, s, c.route) = Refusal("tls.required", advice) /\ ~CredentialWords(e, s)
      BY <1>4, <3>1, <3>2
    <3> QED
      BY <2>1, <3>3, AnsweredHonest
  <2>2. CASE srv.tls = "none" /\ e = NoTLSThere(c)
    <3>1. e = {"notls"}
      BY <2>2 DEF NoTLSThere
    <3>2. MysqlTold(e, s, c.route) = Refusal("tls.unsupported", {[mode |-> "false"]}) /\ ~CredentialWords(e, s)
      BY <1>5, <3>1
    <3> QED
      BY <2>2, <3>2, AnsweredHonest
  <2>3. CASE e = {"alert"}
    <3>1. MysqlTold(e, s, c.route) = Refusal("conn.failed", {}) /\ ~CredentialWords(e, s)
      BY <1>6, <2>3
    <3> QED
      BY <3>1, AnsweredHonest DEF Said
  <2>4. OfVerdict(e) => Certified(MysqlTold(e, s, c.route), e)
    BY <1>8
  <2> QED
    BY <1>10, <2>1, <2>2, <2>3, <2>4, HandshakenHonest
<1>11. ASSUME NEW over, NEW e, e = (IF srv.reach = "answers" THEN MysqlAnswers(s, srv) ELSE {"eof"}), e # {}
       PROVE  Honest(MysqlTold(e, s, c.route), e, srv, c, s, w, over)
  <2>1. CASE s.secret # srv.secret /\ e = {"1045"}
    <3>1. MysqlTold(e, s, c.route) = Refusal("auth.failed", Another(s)) /\ CredentialWords(e, s)
      BY <1>1, <2>1
    <3> QED
      BY <2>1, <3>1, TurnedDownHonest
  <2>2. CASE ~srv.grants /\ e = {"1142"}
    <3>1. MysqlTold(e, s, c.route) = Refusal("denied", {}) /\ CredentialWords(e, s)
      BY <1>2, <2>2
    <3> QED
      BY <2>2, <3>1, TurnedDownHonest
  <2>3. CASE e = {"1040"}
    <3>1. MysqlTold(e, s, c.route) = Refusal("query.failed", {}) /\ ~CredentialWords(e, s)
      BY <1>3, <2>3
    <3> QED
      BY <3>1, AnsweredHonest DEF Said
  <2>4. CASE e = {"eof"}
    <3>1. MysqlTold(e, s, c.route) = Refusal("conn.failed", {}) /\ ~CredentialWords(e, s)
      BY <1>6, <2>4
    <3> QED
      BY <3>1, AnsweredHonest DEF Said
  <2> QED
    BY <1>11, <2>1, <2>2, <2>3, <2>4 DEF MysqlAnswers
<1>12. ASSUME NEW e, e = Meets(c, w, srv), e # {} PROVE Honest(MysqlTold(e, s, c.route), e, srv, c, s, w, srv)
  <2>1. CASE Unmet(e, srv)
    BY <1>9, <2>1, UnmetHonest
  <2>2. CASE Handshaken(e, c, w, srv)
    BY <1>10, <2>2
  <2> QED
    BY <1>12, <2>1, <2>2, MeetsWords
<1> QED
  BY <1>11, <1>12

\* What a tool meets, and what is answered it.
ToolMet(e, s, c, w, srv, over) ==
  \/ Unmet(e, srv) \/ Handshaken(e, c, w, srv) \/ e = {"no CA"} \/ e = {"no file"}
  \/ c.plugin = "pg" /\ e = {"refused"}
  \/ e = {"pin"} /\ <<srv.issuer, srv.names>> # <<over.issuer, over.names>>
  \/ e = Answers(s, c, srv) /\ e # {}

LEMMA MysqlToolHonest ==
  ASSUME NEW s, NEW c, c.plugin \in Mysqls, NEW srv \in ServerStates, NEW w, NEW over, NEW e, ToolMet(e, s, c, w, srv, over)
  PROVE  Honest(MysqlChildTold(e, s), e, srv, c, s, w, over)
<1> USE DEF Mysqls, ByURL, Programs, Plugins
<1>1. ASSUME NEW x, x = {"1045"}
      PROVE  MysqlChildTold(x, s) = Refusal("auth.failed", Another(s)) /\ CredentialWords(x, s)
  BY <1>1 DEF MysqlChildTold, CredentialWords, TurnedDown
<1>2. ASSUME NEW x, x = {"1142"}
      PROVE  MysqlChildTold(x, s) = Refusal("denied", {}) /\ CredentialWords(x, s)
  BY <1>2 DEF MysqlChildTold, CredentialWords, TurnedDown
<1>3. ASSUME NEW x, x = {"1040"} \/ x = {"3159"} \/ x = {"notls"} \/ x = {"alert"} \/ x = {"no file"} \/ OfVerdict(x)
      PROVE  MysqlChildTold(x, s) = Refusal("dump.failed", {}) /\ ~CredentialWords(x, s)
  <2>1. x \cap {"1045", "1142", "dns", "no CA", "pin", "deadline", "unroutable", "refused"} = {}
    BY <1>3 DEF OfVerdict
  <2>2. x \subseteq {"1040", "3159", "notls", "alert", "no file", "untrusted", "revoked", "hostname", "verify", "nameless"}
    BY <1>3 DEF OfVerdict
  <2>3. x \subseteq NoCredential
    BY <2>2 DEF NoCredential
  <2> QED
    BY <2>1, <2>3, NoCredentialWords DEF MysqlChildTold
<1>4. ASSUME NEW x, Unmet(x, srv) PROVE Honest(MysqlChildTold(x, s), x, srv, c, s, w, over)
  <2>1. SaidOfDial(MysqlChildTold(x, s), x)
    BY <1>4 DEF Unmet, SaidOfDial, MysqlChildTold
  <2> QED
    BY <1>4, <2>1, UnmetHonest
<1>5. ASSUME NEW x, x = {"1040"} \/ x = {"3159"} \/ x = {"notls"} \/ x = {"alert"} \/ x = {"no file"} \/ OfVerdict(x)
      PROVE  Honest(MysqlChildTold(x, s), x, srv, c, s, w, over)
  <2>1. MysqlChildTold(x, s) = Refusal("dump.failed", {}) /\ ~CredentialWords(x, s)
    BY <1>3, <1>5
  <2> QED
    BY <2>1, AnsweredHonest DEF Said
<1>6. ASSUME NEW x, Handshaken(x, c, w, srv) PROVE Honest(MysqlChildTold(x, s), x, srv, c, s, w, over)
  <2>1. x = {"3159"} \/ x = {"notls"} \/ x = {"alert"} \/ OfVerdict(x)
    BY <1>6, VerdictWords DEF Handshaken, InTheClear, NoTLSThere, OfVerdict
  <2> QED
    BY <1>5, <2>1
<1>7. ASSUME NEW x, x = {"no CA"} PROVE Honest(MysqlChildTold(x, s), x, srv, c, s, w, over)
  <2>1. MysqlChildTold(x, s) = Refusal("tls.ca.required", {[ca |-> "issuer"]}) /\ ~CredentialWords(x, s)
    BY <1>7 DEF MysqlChildTold, CredentialWords, TurnedDown
  <2> QED
    BY <2>1, AnsweredHonest DEF Said
<1>8. ASSUME NEW x, x = {"pin"}, <<srv.issuer, srv.names>> # <<over.issuer, over.names>>
      PROVE  Honest(MysqlChildTold(x, s), x, srv, c, s, w, over)
  <2>1. MysqlChildTold(x, s) = Refusal("tls.changed", {}) /\ ~CredentialWords(x, s)
    BY <1>8 DEF MysqlChildTold, CredentialWords, TurnedDown
  <2> QED
    BY <1>8, <2>1, AnsweredHonest
<1>9. ASSUME NEW x, x = MysqlAnswers(s, srv), x # {} PROVE Honest(MysqlChildTold(x, s), x, srv, c, s, w, over)
  <2>1. CASE s.secret # srv.secret /\ x = {"1045"}
    <3>1. MysqlChildTold(x, s) = Refusal("auth.failed", Another(s)) /\ CredentialWords(x, s)
      BY <1>1, <2>1
    <3> QED
      BY <2>1, <3>1, TurnedDownHonest
  <2>2. CASE ~srv.grants /\ x = {"1142"}
    <3>1. MysqlChildTold(x, s) = Refusal("denied", {}) /\ CredentialWords(x, s)
      BY <1>2, <2>2
    <3> QED
      BY <2>2, <3>1, TurnedDownHonest
  <2>3. CASE x = {"1040"}
    BY <1>5, <2>3
  <2> QED
    BY <1>9, <2>1, <2>2, <2>3 DEF MysqlAnswers
<1>10. Answers(s, c, srv) = MysqlAnswers(s, srv)
  BY DEF Answers
<1> QED
  BY <1>4, <1>5, <1>6, <1>7, <1>8, <1>9, <1>10 DEF ToolMet

\* A client certificate that was presented and refused, and one that was wanted and not presented.
LEMMA PgClientHonest ==
  ASSUME NEW s, NEW srv, srv.pair # "none", NEW c, NEW w, w.pair = (s.pair = "both"), NEW over,
         NEW e, e = {"valid client certificate"}
  PROVE  Honest(PgClientCert(s), e, srv, c, s, w, over)
<1>1. CASE s.pair = "both"
  <2>1. CredentialWords(e, s)
    BY <1>1 DEF CredentialWords
  <2>2. Holds("tls.client.auth.failed", srv, c, s, w, over)
    BY <1>1, HoldsOfTLS
  <2> QED
    BY <1>1, <2>1, <2>2 DEF PgClientCert, Honest, Refusal, CredentialCodes
<1>2. CASE s.pair # "both"
  <2>1. ~CredentialWords(e, s)
    BY <1>2 DEF CredentialWords, TurnedDown
  <2>2. Holds("tls.client.required", srv, c, s, w, over)
    BY <1>2, HoldsOfTLS
  <2> QED
    BY <1>2, <2>1, <2>2 DEF PgClientCert, Honest, Refusal, CredentialCodes
<1> QED
  BY <1>1, <1>2

LEMMA PgHonest ==
  ASSUME NEW s, NEW c, c.plugin = "pg", NEW srv \in ServerStates, NEW w, w.tls # "no" => w.pair = (s.pair = "both")
  PROVE  /\ \A e : e = Meets(c, w, srv) /\ e # {} => Honest(PgTold(e, s, c.route), e, srv, c, s, w, srv)
         /\ \A over, e : e = (IF srv.reach = "answers" THEN PgAnswers(s, srv) ELSE {"eof"}) /\ e # {}
              => Honest(PgTold(e, s, c.route), e, srv, c, s, w, over)
<1> USE DEF Mysqls, ByURL, Programs, Plugins
<1>1. ASSUME NEW e, e = {"28P01"}
      PROVE  PgTold(e, s, c.route) = Refusal("auth.failed", Another(s)) /\ CredentialWords(e, s)
  BY <1>1 DEF PgTold, PgCoded, CredentialWords, TurnedDown
<1>2. ASSUME NEW e, e = {"42501"}
      PROVE  PgTold(e, s, c.route) = Refusal("denied", {}) /\ CredentialWords(e, s)
  BY <1>2 DEF PgTold, PgCoded, CredentialWords, TurnedDown
<1>3. ASSUME NEW e, e = {"53300"}
      PROVE  PgTold(e, s, c.route) = Refusal("query.failed", {}) /\ ~CredentialWords(e, s)
  BY <1>3 DEF PgTold, PgCoded, CredentialWords, TurnedDown
<1>4. ASSUME NEW e, e = {"no encryption"}
      PROVE  PgTold(e, s, c.route) = PgTLSRequired(c.route) /\ ~CredentialWords(e, s)
  BY <1>4 DEF PgTold, PgCoded, CredentialWords, TurnedDown
<1>5. ASSUME NEW e, e = {"nossl"}
      PROVE  PgTold(e, s, c.route) = Refusal("tls.unsupported", {[mode |-> "disable"]}) /\ ~CredentialWords(e, s)
  BY <1>5 DEF PgTold, PgCoded, PgUnreached, CredentialWords, TurnedDown
<1>6. ASSUME NEW e, e = {"eof"}
      PROVE  PgTold(e, s, c.route) = Refusal("conn.failed", {}) /\ ~CredentialWords(e, s)
  BY <1>6 DEF PgTold, PgCoded, PgVerified, PgUnreached, CredentialWords, TurnedDown
<1>7. ASSUME NEW e, e \cap {"no encryption", "valid client certificate", "28P01", "42501", "53300"} = {}
      PROVE  PgTold(e, s, c.route) = PgUnreached(e, PgVerified(e, s, c.route, Refusal("conn.failed", {})))
  BY <1>7 DEF PgTold, PgCoded
<1>8. ASSUME NEW e, OfVerdict(e) PROVE Certified(PgTold(e, s, c.route), e)
  <2>1. e \cap {"no encryption", "valid client certificate", "28P01", "42501", "53300"} = {}
    BY <1>8 DEF OfVerdict
  <2>2. \A otherwise : PgUnreached(e, otherwise) = otherwise
    BY <1>8 DEF OfVerdict, PgUnreached
  <2>3. PgTold(e, s, c.route) = PgVerified(e, s, c.route, Refusal("conn.failed", {}))
    BY <1>7, <2>1, <2>2
  <2>4. Certified(PgVerified(e, s, c.route, Refusal("conn.failed", {})), e)
    BY <1>8 DEF PgVerified, PgName, Certified, OfVerdict
  <2> QED
    BY <2>3, <2>4
<1>9. ASSUME NEW e, Unmet(e, srv) PROVE SaidOfDial(PgTold(e, s, c.route), e)
  <2>1. e \cap {"no encryption", "valid client certificate", "28P01", "42501", "53300"} = {}
    BY <1>9 DEF Unmet
  <2>2. \A otherwise : SaidOfDial(PgUnreached(e, otherwise), e)
    BY <1>9 DEF Unmet, PgUnreached, SaidOfDial
  <2> QED
    BY <1>7, <2>1, <2>2
<1>10. ASSUME NEW e, Handshaken(e, c, w, srv) PROVE Honest(PgTold(e, s, c.route), e, srv, c, s, w, srv)
  <2>1. CASE w.tls = "no" /\ srv.tls = "only" /\ e = InTheClear(c, srv)
    <3>1. e = {"no encryption"}
      BY <2>1 DEF InTheClear
    <3>2. PICK advice : PgTLSRequired(c.route) = Refusal("tls.required", advice)
      BY DEF PgTLSRequired
    <3>3. PgTold(e, s, c.route) = Refusal("tls.required", advice) /\ ~CredentialWords(e, s)
      BY <1>4, <3>1, <3>2
    <3> QED
      BY <2>1, <3>3, AnsweredHonest
  <2>2. CASE srv.tls = "none" /\ e = NoTLSThere(c)
    <3>1. e = {"nossl"}
      BY <2>2 DEF NoTLSThere
    <3>2. PgTold(e, s, c.route) = Refusal("tls.unsupported", {[mode |-> "disable"]}) /\ ~CredentialWords(e, s)
      BY <1>5, <3>1
    <3> QED
      BY <2>2, <3>2, AnsweredHonest
  <2>3. CASE w.tls # "no" /\ srv.pair # "none" /\ e = {"valid client certificate"}
    <3>1. PgTold(e, s, c.route) = PgClientCert(s)
      BY <2>3 DEF PgTold, PgCoded
    <3> QED
      BY <2>3, <3>1, PgClientHonest
  <2>4. CASE w.tls # "no" /\ srv.tls # "none" /\ Verdict(srv, w, c.route) # {} /\ e = Verdict(srv, w, c.route)
    <3>1. OfVerdict(e)
      BY <2>4, VerdictWords DEF OfVerdict
    <3> QED
      BY <1>8, <2>4, <3>1, CertifiedHonest
  <2> QED
    BY <1>10, <2>1, <2>2, <2>3, <2>4 DEF Handshaken, PairTaken
<1>11. ASSUME NEW over, NEW e, e = (IF srv.reach = "answers" THEN PgAnswers(s, srv) ELSE {"eof"}), e # {}
       PROVE  Honest(PgTold(e, s, c.route), e, srv, c, s, w, over)
  <2>1. CASE s.secret # srv.secret /\ e = {"28P01"}
    <3>1. PgTold(e, s, c.route) = Refusal("auth.failed", Another(s)) /\ CredentialWords(e, s)
      BY <1>1, <2>1
    <3> QED
      BY <2>1, <3>1, TurnedDownHonest
  <2>2. CASE ~srv.grants /\ e = {"42501"}
    <3>1. PgTold(e, s, c.route) = Refusal("denied", {}) /\ CredentialWords(e, s)
      BY <1>2, <2>2
    <3> QED
      BY <2>2, <3>1, TurnedDownHonest
  <2>3. CASE e = {"53300"}
    <3>1. PgTold(e, s, c.route) = Refusal("query.failed", {}) /\ ~CredentialWords(e, s)
      BY <1>3, <2>3
    <3> QED
      BY <3>1, AnsweredHonest DEF Said
  <2>4. CASE e = {"eof"}
    <3>1. PgTold(e, s, c.route) = Refusal("conn.failed", {}) /\ ~CredentialWords(e, s)
      BY <1>6, <2>4
    <3> QED
      BY <3>1, AnsweredHonest DEF Said
  <2> QED
    BY <1>11, <2>1, <2>2, <2>3, <2>4 DEF PgAnswers
<1>12. ASSUME NEW e, e = Meets(c, w, srv), e # {} PROVE Honest(PgTold(e, s, c.route), e, srv, c, s, w, srv)
  <2>1. CASE Unmet(e, srv)
    BY <1>9, <2>1, UnmetHonest
  <2>2. CASE Handshaken(e, c, w, srv)
    BY <1>10, <2>2
  <2> QED
    BY <1>12, <2>1, <2>2, MeetsWords
<1> QED
  BY <1>11, <1>12

\* pg_dump's words of a certificate tell no revoked one from one not trusted: what they are said to
\* be holds where the plugin's own connection had met no revoked one.
LEMMA PgToolHonest ==
  ASSUME NEW s, NEW c, c.plugin = "pg", NEW srv \in ServerStates, NEW w, w.tls # "no" => w.pair = (s.pair = "both"), NEW over,
         NEW e, ToolMet(e, s, c, w, srv, over), Handshaken(e, c, w, srv) => "revoked" \notin e
  PROVE  Honest(PgChildTold(e, s), e, srv, c, s, w, over)
<1> USE DEF Mysqls, ByURL, Programs, Plugins
<1>1. ASSUME NEW x, x = {"28P01"}
      PROVE  PgChildTold(x, s) = Refusal("auth.failed", Another(s)) /\ CredentialWords(x, s)
  BY <1>1 DEF PgChildTold, CredentialWords, TurnedDown
<1>2. ASSUME NEW x, x = {"42501"}
      PROVE  PgChildTold(x, s) = Refusal("denied", {}) /\ CredentialWords(x, s)
  BY <1>2 DEF PgChildTold, CredentialWords, TurnedDown
<1>3. ASSUME NEW x, x = {"53300"} \/ x = {"no encryption"} \/ x = {"nossl"} \/ x = {"refused"} \/ x = {"unroutable"} \/ x = {"dns"}
              \/ x = {"dns", "dns timeout"} \/ x = {"no CA"} \/ x = {"pin"}
      PROVE  Honest(PgChildTold(x, s), x, srv, c, s, w, over)
  <2>1. x \cap {"no file", "valid client certificate", "hostname", "verify", "untrusted", "28P01", "42501", "deadline", "timeout"} = {}
    BY <1>3
  <2>2. x \subseteq NoCredential
    BY <1>3 DEF NoCredential
  <2>3. PgChildTold(x, s) = Refusal("dump.failed", {}) /\ ~CredentialWords(x, s)
    BY <2>1, <2>2, NoCredentialWords DEF PgChildTold
  <2> QED
    BY <2>3, AnsweredHonest DEF Said
<1>4. ASSUME NEW x, Unmet(x, srv) PROVE Honest(PgChildTold(x, s), x, srv, c, s, w, over)
  <2>1. CASE x = {"deadline", "timeout"}
    <3>1. SaidOfDial(PgChildTold(x, s), x)
      BY <2>1 DEF SaidOfDial, PgChildTold
    <3> QED
      BY <1>4, <3>1, UnmetHonest
  <2> QED
    BY <1>3, <1>4, <2>1 DEF Unmet
<1>5. ASSUME NEW x, x = {"no file"} PROVE Honest(PgChildTold(x, s), x, srv, c, s, w, over)
  <2>1. PgChildTold(x, s) = Refusal("tls.ca.system", {[ca |-> "issuer"]}) /\ ~CredentialWords(x, s)
    BY <1>5 DEF PgChildTold, CredentialWords, TurnedDown
  <2> QED
    BY <2>1, AnsweredHonest DEF Said
<1>6. ASSUME NEW x, OfVerdict(x), "untrusted" \in x \/ "hostname" \in x PROVE Certified(PgChildTold(x, s), x)
  <2>1. "no file" \notin x /\ "valid client certificate" \notin x
    BY <1>6 DEF OfVerdict
  <2> QED
    BY <1>6, <2>1 DEF PgChildTold, Certified
<1>7. ASSUME NEW x, Handshaken(x, c, w, srv), "revoked" \notin x PROVE Honest(PgChildTold(x, s), x, srv, c, s, w, over)
  <2>1. CASE x = {"no encryption"} \/ x = {"nossl"}
    BY <1>3, <2>1
  <2>2. CASE w.tls # "no" /\ srv.pair # "none" /\ x = {"valid client certificate"}
    <3>1. PgChildTold(x, s) = PgClientCert(s)
      BY <2>2 DEF PgChildTold
    <3> QED
      BY <2>2, <3>1, PgClientHonest
  <2>3. CASE w.tls # "no" /\ srv.tls # "none" /\ Verdict(srv, w, c.route) # {} /\ x = Verdict(srv, w, c.route)
    <3>1. OfVerdict(x)
      BY <2>3, VerdictWords DEF OfVerdict
    <3>2. "untrusted" \in x \/ "hostname" \in x
      BY <1>7, <2>3 DEF Verdict
    <3> QED
      BY <1>6, <2>3, <3>1, <3>2, CertifiedHonest
  <2> QED
    BY <1>7, <2>1, <2>2, <2>3 DEF Handshaken, PairTaken, InTheClear, NoTLSThere
<1>8. ASSUME NEW x, x = PgAnswers(s, srv), x # {} PROVE Honest(PgChildTold(x, s), x, srv, c, s, w, over)
  <2>1. CASE s.secret # srv.secret /\ x = {"28P01"}
    <3>1. PgChildTold(x, s) = Refusal("auth.failed", Another(s)) /\ CredentialWords(x, s)
      BY <1>1, <2>1
    <3> QED
      BY <2>1, <3>1, TurnedDownHonest
  <2>2. CASE ~srv.grants /\ x = {"42501"}
    <3>1. PgChildTold(x, s) = Refusal("denied", {}) /\ CredentialWords(x, s)
      BY <1>2, <2>2
    <3> QED
      BY <2>2, <3>1, TurnedDownHonest
  <2>3. CASE x = {"53300"}
    BY <1>3, <2>3
  <2> QED
    BY <1>8, <2>1, <2>2, <2>3 DEF PgAnswers
<1>9. Answers(s, c, srv) = PgAnswers(s, srv)
  BY DEF Answers
<1> QED
  BY <1>3, <1>4, <1>5, <1>7, <1>8, <1>9 DEF ToolMet

---------------------------------------------------------------------------
(* The programs, whose one exit code is told apart by the words beside it. *)

\* What a code says of a server a program was sent to, of what is no credential's refusal.
Shows(code, srv, c, s) ==
  \/ code = "failed"
  \/ code = "unreachable" /\ (srv.reach # "answers" \/ srv.issuer = "nobody" \/ srv.machine \in {"no config", "none current"})
  \/ code = "client.missing" /\ srv.machine = "no client"
  \/ code = "noconfig" /\ srv.machine = "no config"
  \/ code = "context.none" /\ srv.machine = "none current"
  \/ code = "context.none" /\ c.plugin = "cnpg" /\ (srv.machine \in {"no config", "astray"} \/ s.context = "wrong")
  \/ code = "context.unknown" /\ (s.context = "wrong" \/ srv.machine = "astray")
  \/ code \in {"login", "credential.missing"} /\ srv.helper # "ready"
  \/ code = "crd.missing" /\ srv.serves = "no type"
  \/ code = "resource.unserved" /\ srv.serves = "no resource"
  \/ code = "cluster.missing" /\ srv.serves = "no object"
  \/ code = "notfound" /\ srv.serves \in {"no object", "no resource"}

LEMMA ShownHonest ==
  ASSUME NEW srv, NEW c, NEW s, NEW w, NEW over, NEW e, ~CredentialWords(e, s), NEW refusal, Shows(refusal.code, srv, c, s)
  PROVE  Honest(refusal, e, srv, c, s, w, over)
<1>1. Holds(refusal.code, srv, c, s, w, over)
  <2>1. CASE refusal.code = "context.none"
    BY <2>1, HoldsOfPrograms DEF Shows
  <2>2. CASE refusal.code # "context.none"
    BY <2>2, OthersHold, HoldsOfPrograms DEF Shows, Said
  <2> QED
    BY <2>1, <2>2
<1>2. refusal.code \notin CredentialCodes
  BY DEF Shows, CredentialCodes
<1> QED
  BY <1>1, <1>2 DEF Honest

LEMMA KubectlHonest ==
  ASSUME NEW s, NEW c, c.plugin = "kube" \/ c.plugin = "cnpg", NEW srv \in ServerStates, NEW w, NEW over, NEW e,
         e \in KubectlMeets(s, srv), e # {}
  PROVE  Honest(ProgramTold(e, s, c.plugin), e, srv, c, s, w, over)
<1> DEFINE says == ProgramTold(e, s, c.plugin)
<1>0. (c.plugin = "kube" /\ says = KubeTold(e, s)) \/ (c.plugin = "cnpg" /\ says = CnpgTold(e, s))
  BY DEF ProgramTold
<1> HIDE DEF says
<1> SUFFICES Honest(says, e, srv, c, s, w, over)
  BY DEF says
<1>1. CASE e = {"executable not found"} /\ srv.machine = "no client"
  <2>1. KubeTold(e, s).code = "client.missing"
    BY <1>1 DEF KubeTold, KubeTransportFailed, Unreached, Refusal
  <2>2. CnpgTold(e, s).code = "client.missing"
    BY <1>1 DEF CnpgTold, CnpgUnreachable, CnpgNoCredential, CnpgNoContext, CnpgDenied, Unreached, Refusal
  <2>3. ~CredentialWords(e, s)
    BY <1>1 DEF CredentialWords, TurnedDown
  <2>4. Shows(says.code, srv, c, s)
    BY <1>0, <1>1, <2>1, <2>2 DEF Shows
  <2> QED
    BY <2>3, <2>4, ShownHonest
<1>2. CASE e = {"no configuration has been provided"} /\ srv.machine = "no config"
  <2>1. KubeTold(e, s).code = "noconfig"
    BY <1>2 DEF KubeTold, KubeTransportFailed, Unreached, Refusal
  <2>2. CnpgTold(e, s).code = "context.none"
    BY <1>2 DEF CnpgTold, CnpgUnreachable, CnpgNoCredential, CnpgNoContext, CnpgDenied, Unreached, Refusal
  <2>3. ~CredentialWords(e, s)
    BY <1>2 DEF CredentialWords, TurnedDown
  <2>4. Shows(says.code, srv, c, s)
    BY <1>0, <1>2, <2>1, <2>2 DEF Shows
  <2> QED
    BY <2>3, <2>4, ShownHonest
<1>3. CASE e = {"was refused"} /\ (srv.reach # "answers" \/ srv.machine \in {"no config", "none current"})
  <2>1. KubeTold(e, s).code = "unreachable"
    BY <1>3 DEF KubeTold, KubeTransportFailed, Unreached, Refusal
  <2>2. CnpgTold(e, s).code = "failed"
    BY <1>3 DEF CnpgTold, CnpgUnreachable, CnpgNoCredential, CnpgNoContext, CnpgDenied, Unreached, Refusal
  <2>3. ~CredentialWords(e, s)
    BY <1>3 DEF CredentialWords, TurnedDown
  <2>4. Shows(says.code, srv, c, s)
    BY <1>0, <1>3, <2>1, <2>2 DEF Shows
  <2> QED
    BY <2>3, <2>4, ShownHonest
<1>4. CASE e = {"context", "does not exist"} /\ s.context = "wrong"
  <2>1. KubeTold(e, s).code = "context.unknown"
    BY <1>4 DEF KubeTold, KubeTransportFailed, Unreached, Refusal
  <2>2. CnpgTold(e, s).code = "context.none"
    BY <1>4 DEF CnpgTold, CnpgUnreachable, CnpgNoCredential, CnpgNoContext, CnpgDenied, Unreached, Refusal
  <2>3. ~CredentialWords(e, s)
    BY <1>4 DEF CredentialWords, TurnedDown
  <2>4. Shows(says.code, srv, c, s)
    BY <1>0, <1>4, <2>1, <2>2 DEF Shows
  <2> QED
    BY <2>3, <2>4, ShownHonest
<1>5. CASE e = {"context was not found", "not found"} /\ (s.context = "wrong" \/ srv.machine = "astray")
  <2>1. KubeTold(e, s).code = "context.unknown"
    BY <1>5 DEF KubeTold, KubeTransportFailed, Unreached, Refusal
  <2>2. CnpgTold(e, s).code = "context.none"
    BY <1>5 DEF CnpgTold, CnpgUnreachable, CnpgNoCredential, CnpgNoContext, CnpgDenied, Unreached, Refusal
  <2>3. ~CredentialWords(e, s)
    BY <1>5 DEF CredentialWords, TurnedDown
  <2>4. Shows(says.code, srv, c, s)
    BY <1>0, <1>5, <2>1, <2>2 DEF Shows
  <2> QED
    BY <2>3, <2>4, ShownHonest
<1>6. CASE e = {"current-context is not set"} /\ srv.machine = "none current"
  <2>1. KubeTold(e, s).code = "context.none"
    BY <1>6 DEF KubeTold, KubeTransportFailed, Unreached, Refusal
  <2>2. CnpgTold(e, s).code = "context.none"
    BY <1>6 DEF CnpgTold, CnpgUnreachable, CnpgNoCredential, CnpgNoContext, CnpgDenied, Unreached, Refusal
  <2>3. ~CredentialWords(e, s)
    BY <1>6 DEF CredentialWords, TurnedDown
  <2>4. Shows(says.code, srv, c, s)
    <3>1. says.code = "context.none"
      BY <1>0, <2>1, <2>2
    <3> QED
      BY <1>6, <3>1 DEF Shows
  <2> QED
    BY <2>3, <2>4, ShownHonest
<1>7. CASE e = {"getting credentials", "failed with exit code"} /\ srv.helper # "ready"
  <2>1. KubeTold(e, s).code = "login"
    BY <1>7 DEF KubeTold, KubeTransportFailed, Unreached, Refusal
  <2>2. CnpgTold(e, s).code = "login"
    BY <1>7 DEF CnpgTold, CnpgUnreachable, CnpgNoCredential, CnpgNoContext, CnpgDenied, Unreached, Refusal
  <2>3. ~CredentialWords(e, s)
    BY <1>7 DEF CredentialWords, TurnedDown
  <2>4. Shows(says.code, srv, c, s)
    BY <1>0, <1>7, <2>1, <2>2 DEF Shows
  <2> QED
    BY <2>3, <2>4, ShownHonest
<1>8. CASE e = {"getting credentials", "failed with exit code", "Unauthorized"} /\ srv.helper # "ready"
  <2>1. KubeTold(e, s).code = "login"
    BY <1>8 DEF KubeTold, KubeTransportFailed, Unreached, Refusal
  <2>2. CnpgTold(e, s).code = "login"
    BY <1>8 DEF CnpgTold, CnpgUnreachable, CnpgNoCredential, CnpgNoContext, CnpgDenied, Unreached, Refusal
  <2>3. ~CredentialWords(e, s)
    BY <1>8 DEF CredentialWords, TurnedDown
  <2>4. Shows(says.code, srv, c, s)
    BY <1>0, <1>8, <2>1, <2>2 DEF Shows
  <2> QED
    BY <2>3, <2>4, ShownHonest
<1>9. CASE e = {"getting credentials", "executable not found there"} /\ srv.helper # "ready"
  <2>1. KubeTold(e, s).code = "credential.missing"
    BY <1>9 DEF KubeTold, KubeTransportFailed, Unreached, Refusal
  <2>2. CnpgTold(e, s).code = "login"
    BY <1>9 DEF CnpgTold, CnpgUnreachable, CnpgNoCredential, CnpgNoContext, CnpgDenied, Unreached, Refusal
  <2>3. ~CredentialWords(e, s)
    BY <1>9 DEF CredentialWords, TurnedDown
  <2>4. Shows(says.code, srv, c, s)
    BY <1>0, <1>9, <2>1, <2>2 DEF Shows
  <2> QED
    BY <2>3, <2>4, ShownHonest
<1>10. CASE e = {"no Auth Provider found"} /\ srv.helper # "ready"
  <2>1. KubeTold(e, s).code = "credential.missing"
    BY <1>10 DEF KubeTold, KubeTransportFailed, Unreached, Refusal
  <2>2. CnpgTold(e, s).code = "login"
    BY <1>10 DEF CnpgTold, CnpgUnreachable, CnpgNoCredential, CnpgNoContext, CnpgDenied, Unreached, Refusal
  <2>3. ~CredentialWords(e, s)
    BY <1>10 DEF CredentialWords, TurnedDown
  <2>4. Shows(says.code, srv, c, s)
    BY <1>0, <1>10, <2>1, <2>2 DEF Shows
  <2> QED
    BY <2>3, <2>4, ShownHonest
<1>11. CASE e = {"Unauthorized"} /\ s.secret # srv.secret
  <2>1. KubeTold(e, s).code = "auth.failed"
    BY <1>11 DEF KubeTold, KubeTransportFailed, Unreached, Refusal
  <2>2. CnpgTold(e, s).code = "auth.failed"
    BY <1>11 DEF CnpgTold, CnpgUnreachable, CnpgNoCredential, CnpgNoContext, CnpgDenied, Unreached, Refusal
  <2>3. CredentialWords(e, s)
    BY <1>11 DEF CredentialWords, TurnedDown
  <2>4. says = Refusal("auth.failed", says.advice)
    <3>1. KubeTold(e, s) = Refusal("auth.failed", KubeTold(e, s).advice)
      BY <1>11 DEF KubeTold, Refusal
    <3>2. CnpgTold(e, s) = Refusal("auth.failed", CnpgTold(e, s).advice)
      BY <1>11 DEF CnpgTold, CnpgNoCredential, CnpgDenied, Refusal
    <3> QED
      BY <1>0, <3>1, <3>2
  <2> QED
    BY <1>11, <2>3, <2>4, TurnedDownHonest
<1>12. CASE e = {"status", "forbidden"} /\ ~srv.grants
  <2>1. KubeTold(e, s).code = "denied"
    BY <1>12 DEF KubeTold, KubeTransportFailed, Unreached, Refusal
  <2>2. CnpgTold(e, s).code = "denied"
    BY <1>12 DEF CnpgTold, CnpgUnreachable, CnpgNoCredential, CnpgNoContext, CnpgDenied, Unreached, Refusal
  <2>3. CredentialWords(e, s)
    BY <1>12 DEF CredentialWords, TurnedDown
  <2>4. says = Refusal("denied", says.advice)
    <3>1. KubeTold(e, s) = Refusal("denied", KubeTold(e, s).advice)
      BY <1>12 DEF KubeTold, Refusal
    <3>2. CnpgTold(e, s) = Refusal("denied", CnpgTold(e, s).advice)
      BY <1>12 DEF CnpgTold, CnpgNoCredential, CnpgDenied, Refusal
    <3> QED
      BY <1>0, <3>1, <3>2
  <2> QED
    BY <1>12, <2>3, <2>4, TurnedDownHonest
<1>13. CASE e = {"doesn't have a resource type"} /\ srv.serves = "no type"
  <2>1. KubeTold(e, s).code = "failed"
    BY <1>13 DEF KubeTold, KubeTransportFailed, Unreached, Refusal
  <2>2. CnpgTold(e, s).code = "crd.missing"
    BY <1>13 DEF CnpgTold, CnpgUnreachable, CnpgNoCredential, CnpgNoContext, CnpgDenied, Unreached, Refusal
  <2>3. ~CredentialWords(e, s)
    BY <1>13 DEF CredentialWords, TurnedDown
  <2>4. Shows(says.code, srv, c, s)
    BY <1>0, <1>13, <2>1, <2>2 DEF Shows
  <2> QED
    BY <2>3, <2>4, ShownHonest
<1>14. CASE e = {"status", "could not find the requested resource"} /\ srv.serves = "no resource"
  <2>1. KubeTold(e, s).code = "notfound"
    BY <1>14 DEF KubeTold, KubeTransportFailed, Unreached, Refusal
  <2>2. CnpgTold(e, s).code = "resource.unserved"
    BY <1>14 DEF CnpgTold, CnpgUnreachable, CnpgNoCredential, CnpgNoContext, CnpgDenied, Unreached, Refusal
  <2>3. ~CredentialWords(e, s)
    BY <1>14 DEF CredentialWords, TurnedDown
  <2>4. Shows(says.code, srv, c, s)
    BY <1>0, <1>14, <2>1, <2>2 DEF Shows
  <2> QED
    BY <2>3, <2>4, ShownHonest
<1>15. CASE e = {"status", "dial tcp"} /\ srv.serves = "nothing behind"
  <2>1. KubeTold(e, s).code = "unreachable"
    BY <1>15 DEF KubeTold, KubeTransportFailed, Unreached, Refusal
  <2>2. CnpgTold(e, s).code = "unreachable"
    BY <1>15 DEF CnpgTold, CnpgUnreachable, CnpgNoCredential, CnpgNoContext, CnpgDenied, Unreached, Refusal
  <2>3. Mis(e, c) /\ ~CredentialWords(e, s)
    BY <1>15 DEF Mis, CredentialWords, TurnedDown
  <2> QED
    BY <1>0, <2>1, <2>2, <2>3 DEF Honest, CredentialCodes
<1>16. CASE e = {"status", "context deadline exceeded"} /\ srv.serves = "nothing behind"
  <2>1. KubeTold(e, s).code = "failed"
    BY <1>16 DEF KubeTold, KubeTransportFailed, Unreached, Refusal
  <2>2. CnpgTold(e, s).code = "failed"
    BY <1>16 DEF CnpgTold, CnpgUnreachable, CnpgNoCredential, CnpgNoContext, CnpgDenied, Unreached, Refusal
  <2>3. ~CredentialWords(e, s)
    BY <1>16 DEF CredentialWords, TurnedDown
  <2>4. Shows(says.code, srv, c, s)
    BY <1>0, <1>16, <2>1, <2>2 DEF Shows
  <2> QED
    BY <2>3, <2>4, ShownHonest
<1>17. CASE e = {"status", "not found"} /\ srv.serves = "no object"
  <2>1. KubeTold(e, s).code = "notfound"
    BY <1>17 DEF KubeTold, KubeTransportFailed, Unreached, Refusal
  <2>2. CnpgTold(e, s).code = "cluster.missing"
    BY <1>17 DEF CnpgTold, CnpgUnreachable, CnpgNoCredential, CnpgNoContext, CnpgDenied, Unreached, Refusal
  <2>3. ~CredentialWords(e, s)
    BY <1>17 DEF CredentialWords, TurnedDown
  <2>4. Shows(says.code, srv, c, s)
    BY <1>0, <1>17, <2>1, <2>2 DEF Shows
  <2> QED
    BY <2>3, <2>4, ShownHonest
<1>18. CASE e = {"connection refused", "dial tcp"} /\ srv.reach # "answers"
  <2>1. KubeTold(e, s).code = "unreachable"
    BY <1>18 DEF KubeTold, KubeTransportFailed, Unreached, Refusal
  <2>2. CnpgTold(e, s).code = "unreachable"
    BY <1>18 DEF CnpgTold, CnpgUnreachable, CnpgNoCredential, CnpgNoContext, CnpgDenied, Unreached, Refusal
  <2>3. ~CredentialWords(e, s)
    BY <1>18 DEF CredentialWords, TurnedDown
  <2>4. Shows(says.code, srv, c, s)
    BY <1>0, <1>18, <2>1, <2>2 DEF Shows
  <2> QED
    BY <2>3, <2>4, ShownHonest
<1>19. CASE e = {"Unable to connect"} /\ (srv.reach # "answers" \/ srv.issuer = "nobody")
  <2>1. KubeTold(e, s).code = "unreachable"
    BY <1>19 DEF KubeTold, KubeTransportFailed, Unreached, Refusal
  <2>2. CnpgTold(e, s).code = "unreachable"
    BY <1>19 DEF CnpgTold, CnpgUnreachable, CnpgNoCredential, CnpgNoContext, CnpgDenied, Unreached, Refusal
  <2>3. ~CredentialWords(e, s)
    BY <1>19 DEF CredentialWords, TurnedDown
  <2>4. Shows(says.code, srv, c, s)
    BY <1>0, <1>19, <2>1, <2>2 DEF Shows
  <2> QED
    BY <2>3, <2>4, ShownHonest
<1>20. CASE e = {"deadline"} /\ srv.reach # "answers"
  <2>1. KubeTold(e, s).code = "unreachable"
    BY <1>20 DEF KubeTold, KubeTransportFailed, Unreached, Refusal
  <2>2. CnpgTold(e, s).code = "unreachable"
    BY <1>20 DEF CnpgTold, CnpgUnreachable, CnpgNoCredential, CnpgNoContext, CnpgDenied, Unreached, Refusal
  <2>3. ~CredentialWords(e, s)
    BY <1>20 DEF CredentialWords, TurnedDown
  <2>4. Shows(says.code, srv, c, s)
    BY <1>0, <1>20, <2>1, <2>2 DEF Shows
  <2> QED
    BY <2>3, <2>4, ShownHonest
<1>21. CASE e = {"Unable to connect", "dial tcp"} /\ (srv.reach # "answers" \/ srv.issuer = "nobody")
  <2>1. KubeTold(e, s).code = "unreachable"
    BY <1>21 DEF KubeTold, KubeTransportFailed, Unreached, Refusal
  <2>2. CnpgTold(e, s).code = "unreachable"
    BY <1>21 DEF CnpgTold, CnpgUnreachable, CnpgNoCredential, CnpgNoContext, CnpgDenied, Unreached, Refusal
  <2>3. ~CredentialWords(e, s)
    BY <1>21 DEF CredentialWords, TurnedDown
  <2>4. Shows(says.code, srv, c, s)
    BY <1>0, <1>21, <2>1, <2>2 DEF Shows
  <2> QED
    BY <2>3, <2>4, ShownHonest
<1>30. e \in KubectlAnswers(s, srv) => Honest(says, e, srv, c, s, w, over)
  <2>1. CASE srv.secret # s.secret
    BY <1>11, <2>1 DEF KubectlAnswers
  <2>2. CASE srv.secret = s.secret /\ ~srv.grants
    BY <1>12, <2>2 DEF KubectlAnswers
  <2>3. CASE srv.secret = s.secret /\ srv.grants
    BY <1>13, <1>14, <1>15, <1>16, <1>17, <2>3 DEF KubectlAnswers
  <2> QED
    BY <2>1, <2>2, <2>3
<1>31. e \in Dialling(srv) /\ (srv.reach # "answers" \/ srv.issuer = "nobody") => Honest(says, e, srv, c, s, w, over)
  <2>1. CASE srv.reach = "refuses"
    BY <1>3, <1>18, <2>1 DEF Dialling
  <2>2. CASE srv.reach \in {"silent", "mute"}
    BY <1>19, <1>20, <2>2 DEF Dialling
  <2>3. CASE srv.reach \notin {"refuses", "silent", "mute"}
    BY <1>19, <1>21, <2>3 DEF Dialling
  <2> QED
    BY <2>1, <2>2, <2>3
<1>40. CASE srv.machine \in {"no client", "no config"}
  BY <1>1, <1>2, <1>3, <1>40 DEF KubectlMeets
<1>41. CASE srv.machine \notin {"no client", "no config"} /\ s.context = "wrong"
  BY <1>4, <1>5, <1>41 DEF KubectlMeets
<1>42. CASE srv.machine = "none current" /\ s.context = "none"
  BY <1>3, <1>6, <1>42 DEF KubectlMeets
<1>43. CASE srv.machine = "astray" /\ s.context = "none"
  BY <1>5, <1>43 DEF KubectlMeets
<1>44. CASE /\ srv.machine \notin {"no client", "no config"} /\ s.context # "wrong"
            /\ ~(s.context = "none" /\ srv.machine \in {"none current", "astray"})
  <2>1. CASE srv.helper \in {"lapsed", "missing", "dropped"}
    BY <1>7, <1>8, <1>9, <1>10, <1>44, <2>1 DEF KubectlMeets
  <2>2. CASE srv.helper \notin {"lapsed", "missing", "dropped"}
    BY <1>30, <1>31, <1>44, <2>2 DEF KubectlMeets
  <2> QED
    BY <2>1, <2>2
<1> QED
  BY <1>40, <1>41, <1>42, <1>43, <1>44

LEMMA DockerHonest ==
  ASSUME NEW s, NEW c, c.plugin = "docker", NEW srv \in ServerStates, NEW w, NEW over, NEW e, e \in DockerMeets(s, srv), e # {}
  PROVE  Honest(ProgramTold(e, s, c.plugin), e, srv, c, s, w, over)
<1>0. ProgramTold(e, s, c.plugin) = DockerTold(e, s)
  BY DEF ProgramTold
<1>1. CASE e = {"executable not found"} /\ (srv.machine = "no client")
  <2>1. DockerTold(e, s).code = "client.missing" /\ ~CredentialWords(e, s)
    BY <1>1 DEF DockerTold, Unreached, Refusal, CredentialWords, TurnedDown
  <2>2. Shows(DockerTold(e, s).code, srv, c, s)
    BY <1>1, <2>1 DEF Shows
  <2> QED
    BY <1>0, <2>1, <2>2, ShownHonest
<1>2. CASE e = {"conflicting options"}
  <2>1. DockerTold(e, s).code = "failed" /\ ~CredentialWords(e, s)
    BY <1>2 DEF DockerTold, Unreached, Refusal, CredentialWords, TurnedDown
  <2>2. Shows(DockerTold(e, s).code, srv, c, s)
    BY <1>2, <2>1 DEF Shows
  <2> QED
    BY <1>0, <2>1, <2>2, ShownHonest
<1>3. CASE e = {"context", "not found"} /\ (s.context = "wrong" \/ srv.machine = "astray")
  <2>1. DockerTold(e, s).code = "context.unknown" /\ ~CredentialWords(e, s)
    BY <1>3 DEF DockerTold, Unreached, Refusal, CredentialWords, TurnedDown
  <2>2. Shows(DockerTold(e, s).code, srv, c, s)
    BY <1>3, <2>1 DEF Shows
  <2> QED
    BY <1>0, <2>1, <2>2, ShownHonest
<1>4. CASE e = {"Cannot connect to the Docker daemon"} /\ (srv.reach # "answers")
  <2>1. DockerTold(e, s).code = "unreachable" /\ ~CredentialWords(e, s)
    BY <1>4 DEF DockerTold, Unreached, Refusal, CredentialWords, TurnedDown
  <2>2. Shows(DockerTold(e, s).code, srv, c, s)
    BY <1>4, <2>1 DEF Shows
  <2> QED
    BY <1>0, <2>1, <2>2, ShownHonest
<1>5. CASE e = {"connection refused"} /\ (srv.reach # "answers")
  <2>1. DockerTold(e, s).code = "unreachable" /\ ~CredentialWords(e, s)
    BY <1>5 DEF DockerTold, Unreached, Refusal, CredentialWords, TurnedDown
  <2>2. Shows(DockerTold(e, s).code, srv, c, s)
    BY <1>5, <2>1 DEF Shows
  <2> QED
    BY <1>0, <2>1, <2>2, ShownHonest
<1>6. CASE e = {"deadline"} /\ (srv.reach # "answers")
  <2>1. DockerTold(e, s).code = "unreachable" /\ ~CredentialWords(e, s)
    BY <1>6 DEF DockerTold, Unreached, Refusal, CredentialWords, TurnedDown
  <2>2. Shows(DockerTold(e, s).code, srv, c, s)
    BY <1>6, <2>1 DEF Shows
  <2> QED
    BY <1>0, <2>1, <2>2, ShownHonest
<1>7. CASE e = {"error during connect"}
  <2>1. DockerTold(e, s).code = "failed" /\ ~CredentialWords(e, s)
    BY <1>7 DEF DockerTold, Unreached, Refusal, CredentialWords, TurnedDown
  <2>2. Shows(DockerTold(e, s).code, srv, c, s)
    BY <1>7, <2>1 DEF Shows
  <2> QED
    BY <1>0, <2>1, <2>2, ShownHonest
<1>8. CASE e = {"permission denied"} /\ (~srv.grants)
  <2>1. DockerTold(e, s).code = "denied" /\ CredentialWords(e, s)
    BY <1>8 DEF DockerTold, Unreached, Refusal, CredentialWords, TurnedDown
  <2>2. DockerTold(e, s) = Refusal("denied", {}) 
    BY <1>8 DEF DockerTold
  <2> QED
    BY <1>0, <1>8, <2>1, <2>2, TurnedDownHonest
<1>9. CASE e = {"no such container"} /\ (srv.serves = "no object")
  <2>1. DockerTold(e, s).code = "notfound" /\ ~CredentialWords(e, s)
    BY <1>9 DEF DockerTold, Unreached, Refusal, CredentialWords, TurnedDown
  <2>2. Shows(DockerTold(e, s).code, srv, c, s)
    BY <1>9, <2>1 DEF Shows
  <2> QED
    BY <1>0, <2>1, <2>2, ShownHonest
<1> QED
  BY <1>1, <1>2, <1>3, <1>4, <1>5, <1>6, <1>7, <1>8, <1>9 DEF DockerMeets

---------------------------------------------------------------------------
(* Whatever ends a call, what is said of it holds of a server the call met. *)

\* What is refused before anything is dialled says nothing of a server.
LEMMA CheckSaysNothing ==
  ASSUME NEW s, NEW c, IsCall(c)
  PROVE  Checked(s, c).code \notin Said /\ ToolChecked(s, c).code \notin Said
<1> USE DEF Mysqls, ByURL, Programs, Plugins
<1>1. Unrefused.code \notin Said
  BY DEF Unrefused, Refusal, Said
<1>2. FilesRefused(s).code \notin Said /\ BundleRefused(s).code \notin Said
  BY DEF FilesRefused, BundleRefused, Unrefused, Refusal, Said
<1>3. EtcdPlaintext(s).code \notin Said
  BY DEF EtcdPlaintext, Unrefused, Refusal, Said
<1>4. VaultCheck(s, c.route).code \notin Said /\ KeycloakCheck(s, c.route).code \notin Said
  BY <1>2 DEF VaultCheck, KeycloakCheck, Refusal, Said
<1>5. MysqlNameCheck(s, c.route).code \notin Said
  BY DEF MysqlNameCheck, Unrefused, Refusal, Said
<1>6. MysqlCheck(s, c.route).code \notin Said
  BY <1>5 DEF MysqlCheck, Unrefused, Refusal, Said
<1>7. /\ PgRootCheck(s, c.route).code \notin Said /\ PgNameCheck(s, c.route).code \notin Said
      /\ PgRevocationCheck(s, c.route).code \notin Said /\ PgPairCheck(s, c.route).code \notin Said
  BY DEF PgRootCheck, PgNameCheck, PgRevocationCheck, PgPairCheck, Unrefused, Refusal, Said
<1>8. PgCheck(s, c.route).code \notin Said
  BY <1>7 DEF PgCheck
<1>9. KubectlCheck(s).code \notin Said /\ DockerCheck(s).code \notin Said
  BY DEF KubectlCheck, DockerCheck, Unrefused, Refusal, Said
<1>10. MysqlChildCheck(s).code \notin Said /\ PgChildCheck(s, c.route).code \notin Said
  BY DEF MysqlChildCheck, PgChildCheck, Unrefused, Refusal, Said
<1>11. RedisCheck(s).code \notin Said /\ EtcdCheck(s).code \notin Said
  BY <1>1, <1>2, <1>3 DEF RedisCheck, EtcdCheck, EtcdFiles
<1>12. ToolChecked(s, c).code \notin Said
  BY <1>1, <1>10 DEF ToolChecked
<1>13. Checked(s, c).code \notin Said
  BY <1>2, <1>4, <1>6, <1>8, <1>9, <1>11 DEF Checked, IsCall
<1> QED
  BY <1>12, <1>13

LEMMA PgWireIs ==
  ASSUME NEW s, NEW c, Sound(s, c), c.plugin = "pg", NEW w, w = PgWire(s, c.route)
  PROVE  (w.tls # "no" => w.pair = (s.pair = "both")) /\ (w.tls = "may" => w.name = "any")
<1>1. PgMode(s, c.route) \in {"disable", "prefer", "require", "verify-ca", "verify-full"}
  BY PgSettings DEF PgMode
<1> QED
  BY <1>1 DEF PgWire, Plain, Over

\* What a plugin's own connection meets, and what it is answered.
LEMMA ToldHonest ==
  ASSUME NEW s, NEW c, IsCall(c), Sound(s, c), c.plugin \notin Programs, NEW srv \in ServerStates, NEW w, w = WireOf(s, c)
  PROVE  /\ c.plugin # "etcd" => \A e : e = Meets(c, w, srv) /\ e # {} => Honest(Told(e, s, c), e, srv, c, s, w, srv)
         /\ \A e, over : /\ ~Silent(srv) /\ e # {}
                         /\ e = IF srv.reach = "answers" THEN Answers(s, c, srv) ELSE IF c.plugin = "etcd" THEN {"Unavailable"} ELSE {"eof"}
              => Honest(Told(e, s, c), e, srv, c, s, w, over)
<1> USE DEF Mysqls, ByURL, Programs, Plugins
<1>1. CASE c.plugin = "redis"
  <2>1. Answers(s, c, srv) = RedisAnswers(s, srv) /\ \A e : Told(e, s, c) = RedisTold(e, s, c.route)
    BY <1>1 DEF Answers, Told
  <2> QED
    BY <1>1, <2>1, RedisHonest
<1>2. CASE c.plugin = "etcd"
  <2>1. Answers(s, c, srv) = EtcdAnswers(s, srv) /\ \A e : Told(e, s, c) = EtcdTold(e, s, c.route)
    BY <1>2 DEF Answers, Told
  <2> QED
    BY <1>2, <2>1, EtcdHonest
<1>3. CASE c.plugin = "qdrant"
  <2>1. Answers(s, c, srv) = QdrantAnswers(s, srv) /\ \A e : Told(e, s, c) = QdrantTold(e, s, c.route)
    BY <1>3 DEF Answers, Told
  <2> QED
    BY <1>3, <2>1, QdrantHonest
<1>4. CASE c.plugin = "s3"
  <2>1. Answers(s, c, srv) = S3Answers(s, srv) /\ \A e : Told(e, s, c) = S3Told(e, s, c.route)
    BY <1>4 DEF Answers, Told
  <2> QED
    BY <1>4, <2>1, S3Honest
<1>5. CASE c.plugin = "vault"
  <2>1. Answers(s, c, srv) = VaultAnswers(s, srv) /\ \A e : Told(e, s, c) = VaultTold(e, s, c.route)
    BY <1>5 DEF Answers, Told
  <2> QED
    BY <1>5, <2>1, VaultHonest
<1>6. CASE c.plugin = "keycloak"
  <2>1. Answers(s, c, srv) = KeycloakIssues(s, srv) /\ \A e : Told(e, s, c) = KeycloakTold(e, s, c.route)
    BY <1>6 DEF Answers, Told
  <2> QED
    BY <1>6, <2>1, KeycloakHonest
<1>7. CASE c.plugin \in Mysqls
  <2>1. Answers(s, c, srv) = MysqlAnswers(s, srv) /\ \A e : Told(e, s, c) = MysqlTold(e, s, c.route)
    BY <1>7 DEF Answers, Told
  <2>2. c.plugin # "etcd"
    BY <1>7
  <2>3. /\ \A e : e = Meets(c, w, srv) /\ e # {} => Honest(MysqlTold(e, s, c.route), e, srv, c, s, w, srv)
        /\ \A over, e : e = (IF srv.reach = "answers" THEN MysqlAnswers(s, srv) ELSE {"eof"}) /\ e # {}
             => Honest(MysqlTold(e, s, c.route), e, srv, c, s, w, over)
    <3> HIDE DEF Mysqls, ByURL, Programs, Plugins
    <3> QED
      BY <1>7, MysqlHonest
  <2> QED
    BY <2>1, <2>2, <2>3
<1>8. CASE c.plugin = "pg"
  <2>1. /\ Answers(s, c, srv) = PgAnswers(s, srv) /\ \A e : Told(e, s, c) = PgTold(e, s, c.route)
        /\ w = PgWire(s, c.route)
    BY <1>8 DEF Answers, Told, WireOf
  <2>2. w.tls # "no" => w.pair = (s.pair = "both")
    BY <1>8, <2>1, PgWireIs
  <2> QED
    BY <1>8, <2>1, <2>2, PgHonest
<1> QED
  BY <1>1, <1>2, <1>3, <1>4, <1>5, <1>6, <1>7, <1>8 DEF IsCall

\* A server that says nothing is said to have run out of time, by every plugin that dials.
LEMMA SilentTold ==
  ASSUME NEW s, NEW c, IsCall(c), c.plugin \notin Programs, NEW e, e = {"deadline", "timeout"}
  PROVE  Told(e, s, c) = TimedOut
<1> USE DEF Mysqls, ByURL, Programs, Plugins
<1>1. CASE c.plugin \in {"redis", "etcd"}
  BY <1>1 DEF Told, RedisTold, RedisFailed, RedisAnswered, EtcdTold
<1>2. CASE c.plugin \in {"qdrant", "s3"}
  BY <1>2 DEF Told, QdrantTold, QdrantStatus, S3Told, S3Status, TransportTold
<1>3. CASE c.plugin \in ByURL
  <2>1. \A otherwise : TransportTold(e, s, c.route, otherwise) = TimedOut
    BY DEF TransportTold
  <2>2. VaultTold(e, s, c.route) = TimedOut
    BY <2>1 DEF VaultTold, VaultStatus
  <2>3. KeycloakTold(e, s, c.route) = TimedOut
    <3>1. e \cap {"400", "503"} = {}
      OBVIOUS
    <3> QED
      BY <2>1, <3>1 DEF KeycloakTold, KeycloakStatus
  <2> QED
    BY <1>3, <2>2, <2>3 DEF Told
<1>4. CASE c.plugin \in Mysqls
  <2>1. MysqlTold(e, s, c.route) = TimedOut
    <3>1. /\ "1045" \notin e /\ "1142" \notin e /\ "3159" \notin e /\ "1040" \notin e /\ "notls" \notin e
          /\ "hostname" \notin e /\ "verify" \notin e /\ "nameless" \notin e /\ "untrusted" \notin e
          /\ "dns" \notin e /\ "unroutable" \notin e /\ "refused" \notin e
      OBVIOUS
    <3>2. e \cap {"deadline", "timeout"} # {}
      OBVIOUS
    <3> QED
      BY <3>1, <3>2 DEF MysqlTold, MysqlNumbered, MysqlVerified, MysqlUnreached, Misnamed
  <2>2. Told(e, s, c) = MysqlTold(e, s, c.route)
    BY <1>4 DEF Told
  <2> QED
    BY <2>1, <2>2
<1>5. CASE c.plugin = "pg"
  BY <1>5 DEF Told, PgTold, PgCoded, PgVerified, PgUnreached
<1> QED
  BY <1>1, <1>2, <1>3, <1>4, <1>5 DEF IsCall

LEMMA TimeoutHonest ==
  ASSUME NEW c, NEW s, NEW w, NEW over, NEW srv, Silent(srv) \/ (c.plugin = "etcd" /\ ~srv.ready), NEW e, e \subseteq NoCredential
  PROVE  Honest(TimedOut, e, srv, c, s, w, over)
<1>1. Holds("timeout", srv, c, s, w, over)
  BY HoldsOfReach
<1> QED
  BY <1>1, NoCredentialWords DEF Honest, TimedOut, Refusal, CredentialCodes

\* What comes of what is asked over a connection that came up.
LEMMA AnsweredIsHonest ==
  ASSUME CallInv, call.plugin \notin Programs, wire = WireOf(settings, call), NEW e,
         \/ e = Answered(Answers(settings, call, server))
         \/ call.plugin = "keycloak" /\ e = Answered(KeycloakAnswers(server)),
         e # {}, call.plugin = "etcd" => ~Silent(server)
  PROVE  Honest(Told(e, settings, call), e, server, call, settings, wire, met)
<1>1. IsCall(call) /\ Sound(settings, call) /\ server \in ServerStates
  BY DEF CallInv
<1>2. CASE Silent(server)
  <2>1. e = {"deadline", "timeout"} /\ e \subseteq NoCredential
    BY <1>2 DEF Answered, Silent, NoCredential
  <2>2. Told(e, settings, call) = TimedOut
    BY <1>1, <2>1, SilentTold
  <2> QED
    BY <1>2, <2>1, <2>2, TimeoutHonest
<1>3. CASE ~Silent(server) /\ e = Answered(Answers(settings, call, server))
  <2>1. e = IF server.reach = "answers" THEN Answers(settings, call, server)
            ELSE IF call.plugin = "etcd" THEN {"Unavailable"} ELSE {"eof"}
    BY <1>3 DEF Answered
  <2> QED
    BY <1>1, <1>3, <2>1, ToldHonest
<1>4. CASE ~Silent(server) /\ call.plugin = "keycloak" /\ e = Answered(KeycloakAnswers(server))
  <2>1. e = IF server.reach = "answers" THEN KeycloakAnswers(server) ELSE {"eof"}
    BY <1>4 DEF Answered
  <2>2. Told(e, settings, call) = KeycloakTold(e, settings, call.route)
    BY <1>4 DEF Told, Mysqls
  <2> QED
    BY <1>1, <1>4, <2>1, <2>2, KeycloakHonest
<1> QED
  BY <1>2, <1>3, <1>4

\* A member that was reached and did not speak etcd's protocol, or that was not of a quorum.
Mismatched == \E srv \in seen : Dialled(srv) = {} /\ Meets(call, wire, srv) # {}
Unsettled == \E srv \in seen : Silent(srv) \/ ~srv.ready

\* What was told holds of a server the call met, or is one of the failures CauseWasSo names, and is
\* a credential's refusal where it was one.  Past the dial the connection that came up was refused
\* nothing.  A member is asked about again for a failure it met, a connection given time to come up
\* was reached before or is up, and a token that was asked for met a member that gave none.  And a
\* server that changes is given no certificate that is revoked.
HonestInv ==
  /\ changes \in Nat
  /\ pc = "told" =>
       \/ \E srv \in seen : Honest(told, err, srv, call, settings, wire, met)
       \/ /\ WentAgain \/ (call.plugin = "etcd" /\ err = {"deadline"} /\ sent = {})
          /\ told.code \in CredentialCodes <=> CredentialWords(err, settings)
  /\ pc \in {"check", "dial"} => sent = {}
  /\ pc \in {"token", "await", "login", "read", "tool"} => Meets(call, wire, met) = {}
  /\ pc = "why" => changes > 0 \/ Meets(call, wire, server) # {}
  /\ pc = "settle" => changes > 1 \/ Mismatched \/ (changes = 1 /\ EtcdUp)
  /\ pc = "why no token" => sent = {} \/ Unsettled
  /\ \A srv \in seen : srv.revoked = server.revoked

\* pg: a certificate the plugin's own connection took was not revoked, and the tool meets none.
LEMMA ToolMeetsNoRevoked ==
  ASSUME NEW c, NEW w \in Wires, w.tls = "may" => w.name = "any", NEW one, one \in ServerStates, Meets(c, w, one) = {},
         NEW srv, srv.revoked = one.revoked, NEW x, "revoked" \in Verdict(srv, w, x), w.tls # "no"
  PROVE  FALSE
<1>1. srv.revoked /\ w.roots = "public" /\ w.name # "any"
  BY DEF Verdict
<1>2. one.reach = "answers" /\ Shaken(c, w, one) = {}
  <2>1. one.reach # "mute"
    BY DEF Meets, Shaken
  <2>2. Dialled(one) = {} /\ Shaken(c, w, one) = {}
    BY <2>1 DEF Meets
  <2> QED
    BY <2>1, <2>2, DialledWords
<1>3. one.tls # "none"
  <2>1. w.tls # "may"
    BY <1>1
  <2>2. one.tls = "none" => w.tls # "must"
    BY <1>2 DEF Shaken, NoTLSThere
  <2> QED
    BY <2>1, <2>2 DEF Wires
<1>4. Verdict(one, w, c.route) = {}
  BY <1>2, <1>3 DEF Shaken
<1> QED
  BY <1>1, <1>4 DEF Verdict

\* What a dump's tool met, and what it was answered.
LEMMA ToolMetHolds ==
  ASSUME CallInv, HonestInv, pc = "tool", NEW w, w = ToolWire(settings, call), NEW e,
         e = IF ToolMeets(w) # {} THEN ToolMeets(w) ELSE Answers(settings, call, server), e # {}
  PROVE  /\ ToolMet(e, settings, call, w, server, met)
         /\ call.plugin = "pg" /\ Handshaken(e, call, w, server) => "revoked" \notin e
<1> USE DEF Mysqls, ByURL, Programs, Plugins
<1>1. /\ IsCall(call) /\ Sound(settings, call) /\ call.dump /\ wire = WireOf(settings, call)
      /\ server \in ServerStates /\ met \in ServerStates /\ server.revoked = met.revoked /\ Meets(call, wire, met) = {}
  BY DEF CallInv, Underway, HonestInv
<1>2. ToolMeets(w) # {} =>
        \/ call.plugin = "pg" /\ ToolMeets(w) = {"refused"}
        \/ Unmet(ToolMeets(w), server)
        \/ ToolMeets(w) = {"no CA"} \/ ToolMeets(w) = {"no file"}
        \/ ToolMeets(w) = {"pin"} /\ <<server.issuer, server.names>> # <<met.issuer, met.names>>
        \/ w.roots \notin {"given", "system file", "pinned"} /\ ToolMeets(w) = Shaken(call, w, server)
  BY <1>1, DialledWords DEF ToolMeets
<1>3. Shaken(call, w, server) # {} => Unmet(Shaken(call, w, server), server) \/ Handshaken(Shaken(call, w, server), call, w, server)
  <2>1. CASE server.reach = "mute"
    BY <2>1 DEF Shaken, Unmet
  <2> QED
    BY <2>1, ShakenWords
<1>4. ToolMet(e, settings, call, w, server, met)
  BY <1>2, <1>3 DEF ToolMet
<1>5. CASE call.plugin = "pg"
  <2>1. wire = PgWire(settings, call.route) /\ w = PgChildArgs(settings, call.route, call.tool)
    BY <1>1, <1>5 DEF WireOf, ToolWire
  <2>2. (wire.tls # "no" => wire.pair = (settings.pair = "both")) /\ (wire.tls = "may" => wire.name = "any")
    BY <1>1, <1>5, <2>1, PgWireIs
  <2>3. wire \in Wires
    BY <1>1, <1>5, <2>1, PgIsWire
  <2>4. w.tls = wire.tls /\ w.pair = wire.pair /\ (w = wire \/ w.roots = "system file")
    BY <2>1, <2>3 DEF PgChildArgs, Wires
  <2>5. Handshaken(e, call, w, server) => "revoked" \notin e
    <3> SUFFICES ASSUME Handshaken(e, call, w, server), "revoked" \in e PROVE FALSE
      OBVIOUS
    <3>1. e # {"no encryption"} /\ e # {"nossl"} /\ e # {"valid client certificate"}
      OBVIOUS
    <3>2. e = Verdict(server, w, call.route) /\ w.tls # "no"
      BY <1>5, <3>1 DEF Handshaken, InTheClear, NoTLSThere
    <3>3. w = wire
      BY <2>4, <3>2 DEF Verdict
    <3> QED
      BY <1>1, <2>2, <2>3, <3>2, <3>3, ToolMeetsNoRevoked
  <2> QED
    BY <1>4, <2>5
<1> QED
  BY <1>4, <1>5

LEMMA ToolToldHonest ==
  ASSUME CallInv, HonestInv, pc = "tool", NEW w, w = ToolWire(settings, call), NEW e,
         e = IF ToolMeets(w) # {} THEN ToolMeets(w) ELSE Answers(settings, call, server), e # {}
  PROVE  Honest(ToolTold(e, settings, call), e, server, call, settings, w, met)
<1> USE DEF Mysqls, ByURL, Programs, Plugins
<1>1. /\ IsCall(call) /\ Sound(settings, call) /\ call.dump /\ wire = WireOf(settings, call)
      /\ server \in ServerStates /\ met \in ServerStates
  BY DEF CallInv, Underway
<1>2. ToolMet(e, settings, call, w, server, met)
  BY ToolMetHolds
<1>3. CASE call.plugin \in Mysqls
  BY <1>1, <1>2, <1>3, MysqlToolHonest DEF ToolTold
<1>4. CASE call.plugin = "pg"
  <2>1. wire = PgWire(settings, call.route) /\ w = PgChildArgs(settings, call.route, call.tool)
    BY <1>1, <1>4 DEF WireOf, ToolWire
  <2>2. wire.tls # "no" => wire.pair = (settings.pair = "both")
    BY <1>1, <1>4, <2>1, PgWireIs
  <2>3. wire \in Wires
    BY <1>1, <1>4, <2>1, PgIsWire
  <2>4. w.tls = wire.tls /\ w.pair = wire.pair
    BY <2>1, <2>3 DEF PgChildArgs, Wires
  <2>5. Handshaken(e, call, w, server) => "revoked" \notin e
    BY <1>4, ToolMetHolds
  <2> QED
    BY <1>1, <1>2, <1>4, <2>2, <2>4, <2>5, PgToolHonest DEF ToolTold
<1> QED
  BY <1>1, <1>3, <1>4 DEF IsCall

LEMMA EtcdMeets ==
  ASSUME NEW c, c.plugin = "etcd", NEW w, NEW srv \in ServerStates
  PROVE  Meets(c, w, srv) \subseteq NoCredential
<1>1. CASE Unmet(Meets(c, w, srv), srv)
  BY <1>1 DEF Unmet, NoCredential
<1>2. CASE Handshaken(Meets(c, w, srv), c, w, srv)
  <2>1. {"untrusted", "revoked", "hostname", "verify", "nameless"} \subseteq NoCredential
    BY DEF NoCredential
  <2>2. {"transient"} \subseteq NoCredential /\ {"record"} \subseteq NoCredential /\ {"alert"} \subseteq NoCredential
    BY DEF NoCredential
  <2> QED
    BY <1>2, <2>1, <2>2, VerdictWords DEF Handshaken, InTheClear, NoTLSThere, Mysqls
<1> QED
  BY <1>1, <1>2, MeetsWords

\* What a dial by hand finds is of a connection that would not come up either.
LEMMA ByHandHonest ==
  ASSUME NEW c, c = call, c.plugin = "etcd", NEW srv \in ServerStates, srv = server, NEW hand, hand = ByHand, hand # {}, NEW s, NEW over
  PROVE  /\ hand \subseteq NoCredential
         /\ "deadline" \in hand => Silent(srv)
         /\ "deadline" \notin hand => Honest(EtcdTold(hand, s, c.route), hand, srv, c, s, wire, over)
<1> DEFINE e == Meets(c, wire, srv)
<1>1. /\ {"handshake"} \subseteq NoCredential /\ e \subseteq NoCredential
  BY EtcdMeets DEF NoCredential
<1>2. CASE Dialled(srv) # {}
  <2>1. hand = Dialled(srv) /\ Unmet(hand, srv) /\ srv.reach \notin {"answers", "mute"}
    BY <1>2, DialledWords DEF ByHand
  <2>2. e = hand
    BY <1>2, <2>1 DEF Meets
  <2>3. "deadline" \in hand => Silent(srv)
    BY <2>1, UnmetSilent
  <2> QED
    BY <1>1, <2>1, <2>2, <2>3, EtcdHonest
<1>3. CASE Dialled(srv) = {}
  <2>1. wire.tls # "no" /\ ~(e \subseteq {"alert"}) /\ hand = e \cup {"handshake"}
    BY <1>3 DEF ByHand
  <2>2. e # {} /\ hand \subseteq NoCredential
    BY <1>1, <2>1
  <2>3. Unmet(e, srv) => "deadline" \in hand /\ Silent(srv)
    BY <1>3, <2>1, DialledWords DEF Unmet, Silent
  <2>4. Unmet(e, srv) \/ Handshaken(e, c, wire, srv)
    BY <2>2, MeetsWords
  <2>5. "deadline" \in e => Silent(srv)
    BY MeetsSilent
  <2> HIDE DEF e
  <2>6. Handshaken(e, c, wire, srv) => Honest(EtcdTold(hand, s, c.route), hand, srv, c, s, wire, over)
    BY <2>1, EtcdHonest
  <2> QED
    BY <2>1, <2>2, <2>3, <2>4, <2>5, <2>6 DEF e
<1> QED
  BY <1>2, <1>3

LEMMA HonestInit == Init => HonestInv
<1>1. Init => pc = "check" /\ changes = 0 /\ sent = {} /\ seen = {server}
  BY DEF Init
<1> QED
  BY <1>1 DEF HonestInv

LEMMA HonestStep == CallInv /\ HonestInv /\ [Next]_vars => HonestInv'
<1> SUFFICES ASSUME CallInv, HonestInv, [Next]_vars PROVE HonestInv'
  OBVIOUS
<1>1. CASE Check
  <2> DEFINE refused == IF Checked(settings, call) # Unrefused THEN Checked(settings, call) ELSE ToolChecked(settings, call)
  <2>1. refused.code \notin Said
    BY CheckSaysNothing DEF CallInv
  <2>2. ~CredentialWords({}, settings)
    BY DEF CredentialWords
  <2>3. Honest(refused, {}, server, call, settings, wire', met')
    BY <2>1, <2>2, OthersHold DEF Honest, Said, CredentialCodes
  <2> HIDE DEF refused
  <2>4. \/ pc' = "told" /\ err' = {} /\ told' = refused
        \/ pc' = "dial"
    BY <1>1 DEF Check, End, refused
  <2>5. /\ seen' = {server} /\ server' = server /\ call' = call /\ settings' = settings
        /\ changes' = changes /\ sent' = sent /\ pc = "check"
    BY <1>1 DEF Check
  <2> QED
    BY <2>3, <2>4, <2>5 DEF HonestInv
<1>2. CASE Run
  <2>1. /\ pc' \in {"told", "done"} /\ seen' = seen /\ server' = server /\ call' = call /\ settings' = settings /\ wire' = wire
        /\ changes' = changes /\ server \in seen
    BY <1>2 DEF Run, End, CallInv
  <2>2. pc' = "told" => Honest(told', err', server, call, settings, wire, met')
    <3> SUFFICES ASSUME pc' = "told" PROVE Honest(told', err', server, call, settings, wire, met')
      OBVIOUS
    <3>1. PICK e \in ProgramMeets(settings, call, server) : e # {} /\ err' = e /\ told' = ProgramTold(e, settings, call.plugin)
      BY <1>2 DEF Run, End
    <3>2. call.plugin \in {"kube", "cnpg", "docker"} /\ server \in ServerStates
      BY <1>2 DEF Run, Programs, CallInv
    <3>3. Honest(ProgramTold(e, settings, call.plugin), e, server, call, settings, wire, met')
      <4>1. CASE call.plugin = "docker"
        BY <3>1, <3>2, <4>1, DockerHonest DEF ProgramMeets
      <4>2. CASE call.plugin = "kube" \/ call.plugin = "cnpg"
        <5>1. e \in KubectlMeets(settings, server)
          BY <3>1, <4>2 DEF ProgramMeets
        <5> QED
          BY <3>1, <3>2, <4>2, <5>1, KubectlHonest
      <4> QED
        BY <3>2, <4>1, <4>2
    <3> QED
      BY <3>1, <3>3
  <2> QED
    BY <2>1, <2>2 DEF HonestInv
<1>3. CASE Dial
  <2> DEFINE e == Meets(call, wire, server)
  <2>1. /\ seen' = seen /\ server' = server /\ call' = call /\ settings' = settings /\ wire' = wire /\ met' = server /\ server \in seen
        /\ server \in ServerStates /\ IsCall(call) /\ Sound(settings, call) /\ wire = WireOf(settings, call)
        /\ call.plugin \notin Programs /\ call.plugin # "etcd" /\ changes' = changes
    BY <1>3 DEF Dial, CallInv, Underway
  <2>2. e # {} => Honest(Told(e, settings, call), e, server, call, settings, wire, server)
    BY <2>1, ToldHonest
  <2>3. \/ e = {} /\ pc' = "login"
        \/ e # {} /\ pc' = "told" /\ err' = e /\ told' = Told(e, settings, call)
    BY <1>3 DEF Dial, End
  <2> QED
    BY <2>1, <2>2, <2>3 DEF HonestInv
<1>4. CASE Login
  <2> DEFINE e == Answered(Answers(settings, call, server))
  <2>1. /\ seen' = seen /\ server' = server /\ call' = call /\ settings' = settings /\ wire' = wire /\ met' = met /\ server \in seen
        /\ changes' = changes /\ wire = WireOf(settings, call) /\ call.plugin \notin Programs /\ pc = "login"
    BY <1>4 DEF Login, CallInv, Underway
  <2>2. e # {} => Honest(Told(e, settings, call), e, server, call, settings, wire, met)
    BY <1>4, <2>1, AnsweredIsHonest DEF Login, Waits
  <2>3. \/ e = {} /\ pc' = Onward
        \/ e # {} /\ pc' = "told" /\ err' = e /\ told' = Told(e, settings, call)
    BY <1>4 DEF Login, End
  <2> HIDE DEF e
  <2> QED
    BY <2>1, <2>2, <2>3, OnwardIsOnward DEF HonestInv
<1>5. CASE Read
  <2> DEFINE first == Answered(KeycloakAnswers(server))
             e == IF "401 token" \in first THEN KeycloakPage(first, TRUE) ELSE first
  <2>1. /\ seen' = seen /\ server' = server /\ call' = call /\ settings' = settings /\ wire' = wire /\ met' = met /\ server \in seen
        /\ changes' = changes /\ wire = WireOf(settings, call) /\ call.plugin = "keycloak" /\ pc = "read"
    BY <1>5 DEF Read, CallInv, Underway
  <2>2. e = first
    BY DEF Answered, KeycloakAnswers, KeycloakPage
  <2>3. first # {} => Honest(Told(e, settings, call), e, server, call, settings, wire, met)
    BY <2>1, <2>2, AnsweredIsHonest DEF Programs
  <2>4. \/ first = {} /\ pc' = Onward
        \/ first # {} /\ pc' = "told" /\ err' = e /\ told' = Told(e, settings, call)
    BY <1>5 DEF Read, End
  <2> HIDE DEF first, e
  <2> QED
    BY <2>1, <2>3, <2>4, OnwardIsOnward DEF HonestInv
<1>6. CASE Tool
  <2> DEFINE w == ToolWire(settings, call)
             e == IF ToolMeets(w) # {} THEN ToolMeets(w) ELSE Answers(settings, call, server)
  <2>1. /\ seen' = seen /\ server' = server /\ call' = call /\ settings' = settings /\ wire' = w /\ met' = met /\ server \in seen
        /\ pc = "tool" /\ changes' = changes
    BY <1>6 DEF Tool, CallInv
  <2>2. \/ e = {} /\ pc' = "done"
        \/ e # {} /\ pc' = "told" /\ err' = e /\ told' = ToolTold(e, settings, call)
    BY <1>6 DEF Tool, End
  <2>3. e # {} => Honest(ToolTold(e, settings, call), e, server, call, settings, w, met)
    BY <2>1, ToolToldHonest
  <2> HIDE DEF w, e
  <2> QED
    BY <2>1, <2>2, <2>3 DEF HonestInv
<1>7. CASE EtcdComesUp
  BY <1>7 DEF EtcdComesUp, EtcdUp, HonestInv
<1>8. CASE EtcdToken
  <2> DEFINE e == Answered(EtcdAnswers(settings, server))
  <2>1. /\ seen' = seen /\ server' = server /\ call' = call /\ settings' = settings /\ wire' = wire /\ met' = met /\ server \in seen
        /\ changes' = changes /\ wire = WireOf(settings, call) /\ call.plugin = "etcd" /\ pc = "token"
    BY <1>8 DEF EtcdToken, CallInv, Underway, OfEtcd
  <2>2. /\ EtcdAnswers(settings, server) = Answers(settings, call, server)
        /\ \A any : Told(any, settings, call) = EtcdTold(any, settings, call.route)
    BY <2>1 DEF Answers, Told, Mysqls, ByURL
  <2>3. e # {} => Honest(EtcdTold(e, settings, call.route), e, server, call, settings, wire, met)
    BY <1>8, <2>1, <2>2, AnsweredIsHonest DEF EtcdToken, Waits, Programs
  <2>4. \/ e = {} /\ pc' = "await"
        \/ e # {} /\ pc' = "told" /\ err' = e /\ told' = EtcdTold(e, settings, call.route)
    BY <1>8 DEF EtcdToken, End
  <2> HIDE DEF e
  <2> QED
    BY <2>1, <2>3, <2>4 DEF HonestInv
<1>9. CASE EtcdTokenFails
  <2>1. /\ seen' = seen /\ server' = server /\ changes' = changes /\ pc' = "why no token" /\ server \in seen
        /\ call' = call /\ settings' = settings /\ wire' = wire /\ met' = met
    BY <1>9 DEF EtcdTokenFails, CallInv
  <2>2. pc = "dial" => sent' = {}
    BY <1>9 DEF EtcdTokenFails, HonestInv
  <2>3. pc # "dial" => Unsettled'
    BY <1>9, <2>1 DEF EtcdTokenFails, Waits, Unsettled
  <2> QED
    BY <2>1, <2>2, <2>3 DEF HonestInv
<1>10. CASE EtcdStaysUp
  BY <1>10 DEF EtcdStaysUp, HonestInv
<1>11. CASE EtcdFails
  <2> DEFINE e == Meets(call, wire, server)
  <2>1. /\ seen' = seen /\ server' = server /\ call' = call /\ settings' = settings /\ wire' = wire /\ met' = met /\ server \in seen
        /\ changes' = changes /\ server \in ServerStates /\ call.plugin = "etcd" /\ e # {}
    BY <1>11 DEF EtcdFails, EtcdUp, CallInv
  <2>2. "deadline" \in e => Silent(server)
    BY <2>1, MeetsSilent
  <2>3. e \subseteq NoCredential
    BY <2>1, EtcdMeets
  <2>4. "deadline" \in e => Honest(TimedOut, e, server, call, settings, wire, met)
    BY <2>2, <2>3, TimeoutHonest
  <2>5. pc' = "why" \/ ("deadline" \in e /\ pc' = "told" /\ err' = e /\ told' = TimedOut)
    BY <1>11 DEF EtcdFails, End, EtcdNoConnection
  <2> HIDE DEF e
  <2>6. pc' = "why" => Meets(call', wire', server') # {}
    BY <2>1 DEF e
  <2> QED
    BY <2>1, <2>4, <2>5, <2>6 DEF HonestInv
<1>12. CASE EtcdSaysWhy
  <2> DEFINE hand == ByHand
  <2>1. /\ seen' = seen /\ server' = server /\ call' = call /\ settings' = settings /\ wire' = wire /\ met' = met /\ server \in seen
        /\ changes' = changes /\ server \in ServerStates /\ call.plugin = "etcd" /\ hand # {} /\ pc' = "told" /\ err' = hand
    BY <1>12 DEF EtcdSaysWhy, End, CallInv, OfEtcd
  <2>2. /\ hand \subseteq NoCredential
        /\ "deadline" \in hand => Silent(server)
        /\ "deadline" \notin hand => Honest(EtcdTold(hand, settings, call.route), hand, server, call, settings, wire, met)
    BY <2>1, ByHandHonest
  <2>3. told' = IF "deadline" \in hand THEN TimedOut ELSE EtcdTold(hand, settings, call.route)
    BY <1>12 DEF EtcdSaysWhy, End, EtcdNoConnection
  <2> HIDE DEF hand
  <2>4. Honest(told', hand, server, call, settings, wire, met)
    BY <2>2, <2>3, TimeoutHonest
  <2> QED
    BY <2>1, <2>4 DEF HonestInv
<1>13. CASE EtcdSaysNothing
  <2>1. /\ seen' = seen /\ server' = server /\ call' = call /\ settings' = settings /\ wire' = wire /\ met' = met /\ sent' = sent
        /\ changes' = changes /\ server \in seen /\ call.plugin = "etcd" /\ pc \in {"why", "why no token"} /\ changes \in Nat
    BY <1>13 DEF EtcdSaysNothing, CallInv, OfEtcd, HonestInv
  <2>2. CASE pc = "why"
    <3>1. pc' = "settle"
      BY <1>13, <2>2 DEF EtcdSaysNothing
    <3>2. Dialled(server) = {}
      BY <1>13 DEF EtcdSaysNothing, ByHand
    <3>3. Mismatched \/ EtcdUp
      BY <2>1, <3>2 DEF Mismatched, EtcdUp
    <3>4. Mismatched \/ (EtcdUp /\ changes > 0)
      BY <2>2, <3>3, <2>1, <3>2 DEF HonestInv, Mismatched, EtcdUp
    <3>5. (Mismatched => Mismatched') /\ (EtcdUp => EtcdUp')
      BY <2>1 DEF Mismatched, EtcdUp
    <3>6. changes > 0 => changes' > 1 \/ changes' = 1
      <4>1. changes \in Nat /\ changes' = changes
        BY <2>1
      <4> QED
        BY <4>1
    <3>7. changes' > 1 \/ Mismatched' \/ (changes' = 1 /\ EtcdUp')
      BY <3>4, <3>5, <3>6
    <3> QED
      BY <2>1, <3>1, <3>7 DEF HonestInv
  <2>3. CASE pc = "why no token"
    <3>1. pc' = "told" /\ err' = {"deadline"} /\ told' = TimedOut
      BY <1>13, <2>3 DEF EtcdSaysNothing, End, EtcdTold
    <3>2. {"deadline"} \subseteq NoCredential
      BY DEF NoCredential
    <3>3. CASE sent = {}
      <4>1. told'.code \notin CredentialCodes /\ ~CredentialWords(err', settings')
        BY <3>1, <3>2, NoCredentialWords DEF TimedOut, Refusal, CredentialCodes
      <4> QED
        BY <2>1, <3>1, <3>3, <4>1 DEF HonestInv
    <3>4. CASE Unsettled
      <4>1. PICK srv \in seen : Silent(srv) \/ ~srv.ready
        BY <3>4 DEF Unsettled
      <4>2. Honest(TimedOut, {"deadline"}, srv, call, settings, wire, met)
        BY <2>1, <3>2, <4>1, TimeoutHonest
      <4> QED
        BY <2>1, <3>1, <4>2 DEF HonestInv
    <3> QED
      BY <2>3, <3>3, <3>4 DEF HonestInv
  <2> QED
    BY <2>1, <2>2, <2>3
<1>14. CASE EtcdSettles
  <2>1. /\ seen' = seen /\ server' = server /\ call' = call /\ settings' = settings /\ wire' = wire /\ met' = met /\ pc' = "told"
        /\ changes' = changes /\ server \in seen /\ pc = "settle" /\ ~EtcdUp
    BY <1>14 DEF EtcdSettles, End, CallInv
  <2>2. {"deadline", "timeout"} \subseteq NoCredential /\ {"protocol"} \subseteq NoCredential
    BY DEF NoCredential
  <2>3. CASE err' = {"protocol"} /\ told' = EtcdWrongPort(settings, call.route)
    <3>1. told'.code = "conn.protocol"
      BY <2>3 DEF EtcdWrongPort, Refusal
    <3>2. told'.code \notin CredentialCodes /\ ~CredentialWords(err', settings')
      BY <2>2, <2>3, <3>1, NoCredentialWords DEF CredentialCodes
    <3>3. CASE changes > 1
      <4>1. WentAgain'
        BY <2>1, <3>1, <3>3 DEF WentAgain
      <4> QED
        BY <2>1, <3>2, <4>1 DEF HonestInv
    <3>4. CASE Mismatched
      <4>1. PICK srv \in seen : Dialled(srv) = {} /\ Meets(call, wire, srv) # {}
        BY <3>4 DEF Mismatched
      <4>2. Honest(told', err', srv, call, settings, wire, met)
        BY <2>1, <3>1, <3>2, <4>1, HoldsOfReach DEF Honest
      <4> QED
        BY <2>1, <4>2 DEF HonestInv
    <3> QED
      BY <2>1, <3>3, <3>4 DEF HonestInv
  <2>4. CASE err' = {"deadline", "timeout"} /\ told' = TimedOut /\ \E srv \in seen : Silent(srv)
    <3>1. PICK srv \in seen : Silent(srv)
      BY <2>4
    <3>2. Honest(TimedOut, {"deadline", "timeout"}, srv, call, settings, wire, met)
      BY <2>2, <3>1, TimeoutHonest
    <3> QED
      BY <2>1, <2>4, <3>2 DEF HonestInv
  <2> QED
    BY <1>14, <2>3, <2>4 DEF EtcdSettles, End, EtcdNoConnection
<1>15. CASE ServerChanges
  <2>1. PICK srv \in Changed(server) : server' = srv /\ seen' = seen \cup {srv}
    BY <1>15 DEF ServerChanges
  <2>2. /\ pc' = pc /\ pc # "told" /\ call' = call /\ wire' = wire /\ met' = met /\ sent' = sent /\ server \in ServerStates
        /\ pc # "check"
    BY <1>15 DEF ServerChanges, CallInv
  <2>3. srv.revoked = server.revoked
    BY <2>2 DEF Changed, ServerStates
  <2>4. \A one \in seen' : one.revoked = server'.revoked
    BY <2>1, <2>3 DEF HonestInv
  <2>5. changes \in Nat /\ changes' = changes + 1
    BY <1>15 DEF ServerChanges, HonestInv
  <2>6. changes' \in Nat /\ changes' > 0
    BY <2>5
  <2>7. (Mismatched => Mismatched') /\ (Unsettled => Unsettled')
    BY <2>1, <2>2 DEF Mismatched, Unsettled
  <2>8. pc = "settle" => changes' > 1 \/ Mismatched'
    <3>1. changes > 1 \/ changes = 1 => changes' > 1
      BY <2>5
    <3> QED
      BY <2>7, <3>1 DEF HonestInv
  <2>9. Meets(call', wire', met') = Meets(call, wire, met)
    BY <2>2
  <2> QED
    BY <2>2, <2>4, <2>6, <2>7, <2>8, <2>9 DEF HonestInv
<1>16. CASE Follow
  <2>1. pc' \in {"check", "astray"} /\ seen' = seen /\ server' = server /\ sent' = {} /\ changes' = changes
    BY <1>16 DEF Follow
  <2> QED
    BY <2>1 DEF HonestInv
<1>17. CASE UNCHANGED vars
  <2>1. (Mismatched' <=> Mismatched) /\ (Unsettled' <=> Unsettled) /\ (EtcdUp' <=> EtcdUp) /\ (WentAgain' <=> WentAgain)
    BY <1>17 DEF vars, Mismatched, Unsettled, EtcdUp, WentAgain
  <2> QED
    BY <1>17, <2>1 DEF vars, HonestInv
<1> QED
  BY <1>1, <1>2, <1>3, <1>4, <1>5, <1>6, <1>7, <1>8, <1>9, <1>10, <1>11, <1>12, <1>13, <1>14, <1>15, <1>16, <1>17 DEF Next, Step

\* CauseWasSo: whatever the settings, the servers and however often they change, what a refusal's
\* code says of the server held of one the call met (each plugin's classify), a status said to be an
\* unreachable cluster, redis's resolver, and an etcd member that was never up or that came and
\* went apart.
THEOREM WhatIsToldWasSo == Spec => []CauseWasSo
<1>1. HonestInv => CauseWasSo
  BY DEF HonestInv, CauseWasSo, Misread, Mis, Honest
<1> QED
  BY <1>1, CallInit, CallStep, HonestInit, HonestStep, PTL DEF Spec

\* RefusalIsTold: a code that says a credential was refused is told where the server turned down
\* what the call presented, and nowhere else (view.Error.CredentialRefused).
THEOREM CredentialRefusalIsTold == Spec => []RefusalIsTold
<1>1. HonestInv => RefusalIsTold
  BY DEF HonestInv, RefusalIsTold, Honest, CredentialCodes, CredentialWords
<1> QED
  BY <1>1, CallInit, CallStep, HonestInit, HonestStep, PTL DEF Spec

---------------------------------------------------------------------------
(* A hint's call, pasted over other settings. *)

\* The settings some given of s make, put over a base at the address or through the forward of a call.
Put(base, s, c, fields) == Fill([Change(base, Given(s, fields)) EXCEPT !.host = s.host], c)

IsGiven(s, f, fields) == f \in fields /\ s[f] # "none" /\ s[f] # "off"

LEMMA GivenAre ==
  ASSUME NEW s, NEW fields
  PROVE  /\ \A f : f \in DOMAIN Given(s, fields) <=> IsGiven(s, f, fields)
         /\ \A f : IsGiven(s, f, fields) => Given(s, fields)[f] = s[f]
BY DEF Given, IsGiven

\* A setting that is given is the hint's, and one that is not is the base's; a forward is filled.
LEMMA PutFields ==
  ASSUME NEW base, NEW s, NEW c, NEW fields
  PROVE  LET p == Put(base, s, c, fields) IN
         /\ DOMAIN p = Fields
         /\ p.ca = IF IsGiven(s, "ca", fields) THEN s.ca ELSE base.ca
         /\ p.name = IF IsGiven(s, "name", fields) THEN s.name ELSE base.name
         /\ p.pair = IF IsGiven(s, "pair", fields) THEN s.pair ELSE base.pair
         /\ p.home = IF IsGiven(s, "home", fields) THEN s.home ELSE base.home
         /\ p.context = IF IsGiven(s, "context", fields) THEN s.context ELSE base.context
         /\ p.far = IF IsGiven(s, "far", fields) THEN s.far ELSE base.far
         /\ c.route \notin Forwards =>
              /\ p.mode = IF IsGiven(s, "mode", fields) THEN s.mode ELSE base.mode
              /\ p.scheme = IF IsGiven(s, "scheme", fields) THEN s.scheme ELSE base.scheme
         /\ c.route \in Forwards =>
              /\ p.mode = CASE c.plugin \in Mysqls -> "false"
                            [] c.plugin = "pg"      -> "disable"
                            [] OTHER                -> IF p.far = "tls" THEN "on" ELSE "off"
              /\ p.scheme = IF c.plugin \in ByURL THEN IF p.far = "tls" THEN "https" ELSE "http" ELSE "bare"
<1> DEFINE change == Given(s, fields)
           now(f) == IF IsGiven(s, f, fields) THEN s[f] ELSE base[f]
           q == [Change(base, change) EXCEPT !.host = s.host]
<1>1. \A f : (IF f \in DOMAIN change THEN change[f] ELSE base[f]) = now(f)
  BY GivenAre
<1> HIDE DEF change
<1>2. Change(base, change) =
        [mode |-> now("mode"), scheme |-> now("scheme"), host |-> now("host"), far |-> now("far"), ca |-> now("ca"),
         name |-> now("name"), pair |-> now("pair"), home |-> now("home"), secret |-> now("secret"),
         context |-> now("context"), scope |-> now("scope")]
  BY <1>1 DEF Change
<1> HIDE DEF now
<1>3. /\ DOMAIN q = Fields
      /\ q.ca = now("ca") /\ q.name = now("name") /\ q.pair = now("pair") /\ q.home = now("home")
      /\ q.context = now("context") /\ q.far = now("far") /\ q.mode = now("mode") /\ q.scheme = now("scheme")
  BY <1>2 DEF Fields
<1> HIDE DEF q
<1>4. Put(base, s, c, fields) = Fill(q, c)
  BY DEF Put, q, change
<1>5. CASE c.route \notin Forwards
  <2>1. Fill(q, c) = q
    BY <1>5 DEF Fill
  <2> QED
    BY <1>3, <1>4, <1>5, <2>1 DEF now
<1>6. CASE c.route \in Forwards
  <2>1. /\ DOMAIN Fill(q, c) = Fields
        /\ Fill(q, c).ca = q.ca /\ Fill(q, c).name = q.name /\ Fill(q, c).pair = q.pair /\ Fill(q, c).home = q.home
        /\ Fill(q, c).context = q.context /\ Fill(q, c).far = q.far
        /\ Fill(q, c).mode = CASE c.plugin \in Mysqls -> "false"
                              [] c.plugin = "pg"      -> "disable"
                              [] OTHER                -> IF q.far = "tls" THEN "on" ELSE "off"
        /\ Fill(q, c).scheme = IF c.plugin \in ByURL THEN IF q.far = "tls" THEN "https" ELSE "http" ELSE "bare"
    BY <1>3, <1>6 DEF Fill, Fields
  <2> QED
    BY <1>3, <1>4, <1>6, <2>1 DEF now
<1> QED
  BY <1>5, <1>6

\* Nothing configured that a hint would have to take back.
NoneGiven(base) == base.ca = "none" /\ base.name = "none" /\ base.pair = "none" /\ base.home = "none"

\* One connection checks all that this one does, and exactly that over a base that gives nothing.
Keeps(one, this, base) ==
  /\ ChecksAsMuch(one, this)
  /\ this.tls = "must" /\ NoneGiven(base) => one = this

\* What a base gives is never the word for what is not checked.
Names(base) == base.ca # "any" /\ base.name # "any"

LEMMA PlainIsKept ==
  ASSUME NEW one, NEW base PROVE Keeps(one, Plain, base)
BY DEF Keeps, ChecksAsMuch, Plain

LEMMA RootsKept ==
  ASSUME NEW ca, ca # "any", NEW other, other # "any", other \notin {"none", "system"} => ca = other
  PROVE  Roots(ca) # "any" /\ (Roots(other) \notin {"any", "public"} => Roots(ca) = Roots(other))
BY DEF Roots

LEMMA OverIsKept ==
  ASSUME NEW p, NEW s, NEW base, NEW one, NEW this, Names(base), Names(s),
         p.ca = IF s.ca # "none" THEN s.ca ELSE base.ca,
         p.name = IF s.name # "none" THEN s.name ELSE base.name,
         NoneGiven(base) => one = this
  PROVE  Keeps(Over(Roots(p.ca), NameOr(p, "host"), one), Over(Roots(s.ca), NameOr(s, "host"), this), base)
<1>1. /\ Roots(p.ca) # "any"
      /\ Roots(s.ca) \notin {"any", "public"} => Roots(p.ca) = Roots(s.ca)
  BY RootsKept DEF Names
<1>2. NameOr(p, "host") # "any" /\ (NameOr(s, "host") # "host" => NameOr(p, "host") = NameOr(s, "host"))
  BY DEF NameOr, Names
<1>3. NoneGiven(base) => p.ca = s.ca /\ p.name = s.name /\ NameOr(p, "host") = NameOr(s, "host")
  BY DEF NoneGiven, NameOr
<1> QED
  BY <1>1, <1>2, <1>3 DEF Keeps, ChecksAsMuch, Over

LEMMA VerifiedIsKept ==
  ASSUME NEW p, NEW s, NEW base, Names(base), Names(s),
         p.ca = IF s.ca # "none" THEN s.ca ELSE base.ca,
         p.name = IF s.name # "none" THEN s.name ELSE base.name,
         NoneGiven(base) => (p.pair = "both" <=> s.pair = "both")
  PROVE  Keeps(Verified(p), Verified(s), base)
<1>1. NoneGiven(base) => (p.pair = "both") = (s.pair = "both")
  OBVIOUS
<1> QED
  BY <1>1, OverIsKept DEF Verified

\* How a plugin's hint reaches its server, and that it gives nothing a forward fills.
HintIsKept(base, s, c, fields) ==
  /\ Again(s, c) = Given(s, fields)
  /\ c.route \in Forwards => ~IsGiven(s, "mode", fields) /\ ~IsGiven(s, "scheme", fields) /\ ~IsGiven(s, "host", fields)
  /\ Keeps(WireOf(Put(base, s, c, fields), c), WireOf(s, c), base)

LEMMA RedisHint ==
  ASSUME NEW base, NEW s, NEW c, Names(base), Sound(s, c), c.plugin = "redis", c.route \in Forwards => s.far = "none"
  PROVE  HintIsKept(base, s, c, {"ca", "name", "pair", "mode"})
<1> DEFINE fields == {"ca", "name", "pair", "mode"}
           p == Put(base, s, c, fields)
<1>1. /\ s.mode \in {"off", "on"} /\ s.ca \in {"none", "issuer", "other", "bad"} /\ s.name \in {"none", "right", "wrong"}
      /\ s.pair \in {"none", "cert", "key", "both", "torn"}
      /\ c.route \in Forwards => s.mode = "off"
  BY SwitchSettings
<1>2. Again(s, c) = Given(s, fields)
  BY DEF Again, RedisAgain, Mysqls, ByURL, Programs
<1>3. c.route \in Forwards => ~IsGiven(s, "mode", fields) /\ ~IsGiven(s, "scheme", fields) /\ ~IsGiven(s, "host", fields)
  BY <1>1 DEF IsGiven
<1>4. \A x : WireOf(x, c) = RedisWire(x)
  BY DEF WireOf, Mysqls, ByURL, Programs
<1>5. /\ p.ca = IF s.ca # "none" THEN s.ca ELSE base.ca
      /\ p.name = IF s.name # "none" THEN s.name ELSE base.name
      /\ p.pair = IF s.pair # "none" THEN s.pair ELSE base.pair
      /\ s.mode = "on" => p.mode = "on"
  BY <1>1, PutFields DEF IsGiven
<1> HIDE DEF p, fields
<1>6. CASE RedisTLS(s)
  <2>1. RedisTLS(p)
    BY <1>1, <1>5, <1>6 DEF RedisTLS
  <2>2. Names(s) /\ (NoneGiven(base) => (p.pair = "both" <=> s.pair = "both"))
    BY <1>1, <1>5 DEF Names, NoneGiven
  <2>3. Keeps(Verified(p), Verified(s), base)
    BY <1>5, <2>2, VerifiedIsKept
  <2> QED
    BY <1>2, <1>3, <1>4, <1>6, <2>1, <2>3 DEF HintIsKept, RedisWire, p, fields
<1>7. CASE ~RedisTLS(s)
  BY <1>2, <1>3, <1>4, <1>7, PlainIsKept DEF HintIsKept, RedisWire, p, fields
<1> QED
  BY <1>6, <1>7

LEMMA SwitchHint ==
  ASSUME NEW base, NEW s, NEW c, Names(base), Sound(s, c), c.plugin \in {"qdrant", "s3"}, c.route \in Forwards => s.far = "none"
  PROVE  HintIsKept(base, s, c, {"ca", "name", "mode"})
<1> DEFINE fields == {"ca", "name", "mode"}
           p == Put(base, s, c, fields)
<1>1. /\ s.mode \in {"off", "on"} /\ s.ca \in {"none", "issuer", "other", "bad"} /\ s.name \in {"none", "right", "wrong"}
      /\ s.pair = "none"
      /\ c.route \in Forwards => s.mode = "off"
  BY SwitchSettings
<1>2. Again(s, c) = Given(s, fields)
  BY DEF Again, QdrantAgain, S3Again, Mysqls, ByURL, Programs
<1>3. c.route \in Forwards => ~IsGiven(s, "mode", fields) /\ ~IsGiven(s, "scheme", fields) /\ ~IsGiven(s, "host", fields)
  BY <1>1 DEF IsGiven
<1>4. \A x : WireOf(x, c) = SwitchWire(QdrantTLS(x), x)
  BY DEF WireOf, Mysqls, ByURL, Programs, QdrantTLS, S3TLS
<1>5. /\ p.ca = IF s.ca # "none" THEN s.ca ELSE base.ca
      /\ p.name = IF s.name # "none" THEN s.name ELSE base.name
      /\ p.pair = base.pair
      /\ s.mode = "on" => p.mode = "on"
  BY <1>1, PutFields DEF IsGiven
<1> HIDE DEF p, fields
<1>6. CASE QdrantTLS(s)
  <2>1. QdrantTLS(p)
    BY <1>1, <1>5, <1>6 DEF QdrantTLS
  <2>2. Names(s) /\ (NoneGiven(base) => (p.pair = "both" <=> s.pair = "both"))
    BY <1>1, <1>5 DEF Names, NoneGiven
  <2>3. Keeps(Verified(p), Verified(s), base)
    BY <1>5, <2>2, VerifiedIsKept
  <2> QED
    BY <1>2, <1>3, <1>4, <1>6, <2>1, <2>3 DEF HintIsKept, SwitchWire, p, fields
<1>7. CASE ~QdrantTLS(s)
  BY <1>2, <1>3, <1>4, <1>7, PlainIsKept DEF HintIsKept, SwitchWire, p, fields
<1> QED
  BY <1>6, <1>7

LEMMA EtcdHint ==
  ASSUME NEW base, NEW s, NEW c, Names(base), Sound(s, c), c.plugin = "etcd", c.route \in Forwards => s.far = "none"
  PROVE  HintIsKept(base, s, c, {"ca", "name", "pair", "mode"} \cup (IF c.route \in Forwards THEN {} ELSE {"scheme"}))
<1> DEFINE fields == {"ca", "name", "pair", "mode"} \cup (IF c.route \in Forwards THEN {} ELSE {"scheme"})
           p == Put(base, s, c, fields)
<1>1. /\ s.mode \in {"off", "on"} /\ s.ca \in {"none", "issuer", "other", "bad"} /\ s.name \in {"none", "right", "wrong"}
      /\ s.pair \in {"none", "cert", "key", "both", "torn"} /\ s.scheme \in {"bare", "http", "https"}
      /\ c.route \in Forwards => s.mode = "off" /\ s.scheme = "bare"
  BY SwitchSettings
<1>2. Again(s, c) = Given(s, fields)
  BY DEF Again, EtcdAgain, Mysqls, ByURL, Programs
<1>3. c.route \in Forwards => ~IsGiven(s, "mode", fields) /\ ~IsGiven(s, "scheme", fields) /\ ~IsGiven(s, "host", fields)
  BY <1>1 DEF IsGiven
<1>4. \A x : WireOf(x, c) = EtcdWire(x)
  BY DEF WireOf, Mysqls, ByURL, Programs
<1>5. /\ p.ca = IF s.ca # "none" THEN s.ca ELSE base.ca
      /\ p.name = IF s.name # "none" THEN s.name ELSE base.name
      /\ p.pair = IF s.pair # "none" THEN s.pair ELSE base.pair
      /\ s.mode = "on" => p.mode = "on"
      /\ p.scheme = s.scheme
  <2>1. CASE c.route \in Forwards
    BY <1>1, <2>1, PutFields DEF IsGiven, ByURL
  <2>2. CASE c.route \notin Forwards
    BY <1>1, <2>2, PutFields DEF IsGiven
  <2> QED
    BY <2>1, <2>2
<1> HIDE DEF p, fields
<1>6. CASE EtcdWire(s) = Verified(s)
  <2>1. EtcdWire(p) = Verified(p)
    <3>1. s.scheme = "https" \/ EtcdAsksTLS(s)
      BY <1>1, <1>6 DEF EtcdWire, Plain, Verified, Over
    <3>2. EtcdAsksTLS(s) => EtcdAsksTLS(p)
      BY <1>1, <1>5 DEF EtcdAsksTLS
    <3>3. s.scheme # "http"
      BY <1>6 DEF EtcdWire, Plain, Verified, Over
    <3> QED
      BY <1>5, <3>1, <3>2, <3>3 DEF EtcdWire
  <2>2. Names(s) /\ (NoneGiven(base) => (p.pair = "both" <=> s.pair = "both"))
    BY <1>1, <1>5 DEF Names, NoneGiven
  <2>3. Keeps(Verified(p), Verified(s), base)
    BY <1>5, <2>2, VerifiedIsKept
  <2> QED
    BY <1>2, <1>3, <1>4, <1>6, <2>1, <2>3 DEF HintIsKept, p, fields
<1>7. CASE EtcdWire(s) = Plain
  BY <1>2, <1>3, <1>4, <1>7, PlainIsKept DEF HintIsKept, p, fields
<1>8. EtcdWire(s) = Plain \/ EtcdWire(s) = Verified(s)
  BY DEF EtcdWire
<1> QED
  BY <1>6, <1>7, <1>8

LEMMA UrlHint ==
  ASSUME NEW base, NEW s, NEW c, Names(base), Sound(s, c), c.plugin \in ByURL, c.route \in Forwards => s.far = "none"
  PROVE  HintIsKept(base, s, c, {"ca", "name"} \cup (IF c.route \in Forwards THEN {} ELSE {"scheme"}))
<1> DEFINE fields == {"ca", "name"} \cup (IF c.route \in Forwards THEN {} ELSE {"scheme"})
           p == Put(base, s, c, fields)
<1>1. /\ s.scheme \in {"http", "https"} /\ s.ca \in {"none", "issuer", "other", "bad"} /\ s.name \in {"none", "right", "wrong"}
      /\ s.pair = "none"
      /\ c.route \in Forwards => s.scheme = "http"
  BY UrlSettings
<1>2. Again(s, c) = Given(s, fields)
  BY DEF Again, VaultAgain, KeycloakAgain, Mysqls, ByURL, Programs
<1>3. c.route \in Forwards => ~IsGiven(s, "mode", fields) /\ ~IsGiven(s, "scheme", fields) /\ ~IsGiven(s, "host", fields)
  BY DEF IsGiven
<1>4. \A x : WireOf(x, c) = SwitchWire(x.scheme = "https", x)
  BY DEF WireOf, UrlWire, Mysqls, ByURL, Programs
<1>5. CASE s.scheme = "https"
  <2>1. c.route \notin Forwards
    BY <1>1, <1>5
  <2>2. /\ p.ca = IF s.ca # "none" THEN s.ca ELSE base.ca
        /\ p.name = IF s.name # "none" THEN s.name ELSE base.name
        /\ p.pair = base.pair
        /\ p.scheme = "https"
    BY <1>1, <1>5, <2>1, PutFields DEF IsGiven
  <2> HIDE DEF p, fields
  <2>3. Names(s) /\ (NoneGiven(base) => (p.pair = "both" <=> s.pair = "both"))
    BY <1>1, <2>2 DEF Names, NoneGiven
  <2>4. Keeps(Verified(p), Verified(s), base)
    BY <2>2, <2>3, VerifiedIsKept
  <2> QED
    BY <1>2, <1>3, <1>4, <1>5, <2>2, <2>4 DEF HintIsKept, SwitchWire, p, fields
<1>6. CASE s.scheme # "https"
  <2> HIDE DEF p, fields
  <2> QED
    BY <1>2, <1>3, <1>4, <1>6, PlainIsKept DEF HintIsKept, SwitchWire, p, fields
<1> QED
  BY <1>5, <1>6

LEMMA ProgramHint ==
  ASSUME NEW base, NEW s, NEW c, Sound(s, c), c.plugin \in Programs, c.route \notin Forwards
  PROVE  \E fields : HintIsKept(base, s, c, fields)
<1>1. PICK fields : Again(s, c) = Given(s, fields) /\ "context" \in fields
  BY DEF Again, KubectlAgain, DockerAgain, Mysqls, ByURL, Programs
<1>2. s.context \in {"none", "right", "wrong", "dash"}
  BY SettingsAre DEF Values, Mysqls, ByURL, Programs, Plugins
<1>3. \A x : WireOf(x, c) = ProgramWire(x)
  BY DEF WireOf, Mysqls, ByURL, Programs
<1>4. s.context # "none" => Put(base, s, c, fields).context = s.context
  BY <1>1, <1>2, PutFields DEF IsGiven
<1>5. Keeps(ProgramWire(Put(base, s, c, fields)), ProgramWire(s), base)
  BY <1>2, <1>4 DEF Keeps, ChecksAsMuch, ProgramWire, Plain
<1> QED
  BY <1>1, <1>3, <1>5 DEF HintIsKept

LEMMA MysqlHint ==
  ASSUME NEW base, NEW s, NEW c, Names(base), Sound(s, c), c.plugin \in Mysqls, MysqlCheck(s, c.route) = Unrefused
  PROVE  \E fields : HintIsKept(base, s, c, fields)
<1> DEFINE mode == MysqlMode(s, c.route)
<1>1. /\ s.mode \in {"false", "preferred", "skip-verify", "verify-ca", "true"}
      /\ s.ca \in {"none", "issuer", "other", "bad"} /\ s.name \in {"none", "right", "wrong"}
      /\ c.route \in Forwards => s.mode = "false"
  BY MysqlSettings
<1>2. s.name # "none" => mode = "true"
  <2>1. MysqlNameCheck(s, c.route).code = ""
    BY CodeOfUnrefused DEF MysqlCheck
  <2> QED
    BY <2>1 DEF MysqlNameCheck, Refusal
<1>3. mode = "verify-ca" => s.ca # "none"
  <2>1. MysqlCheck(s, c.route).code = ""
    BY CodeOfUnrefused
  <2> QED
    BY <2>1 DEF MysqlCheck, Refusal
<1>4. PICK fields :
        /\ fields = {"name"} \cup (IF c.route \in Forwards THEN {"ca"}
                                   ELSE IF s.mode \in {"true", "verify-ca"} THEN {"mode", "ca"}
                                   ELSE IF s.mode = "skip-verify" THEN {"mode"} ELSE {})
        /\ Again(s, c) = Given(s, fields)
  BY DEF Again, MysqlAgain, Mysqls, ByURL, Programs
<1>5. c.route \in Forwards => ~IsGiven(s, "mode", fields) /\ ~IsGiven(s, "scheme", fields) /\ ~IsGiven(s, "host", fields)
  BY <1>4 DEF IsGiven
<1>6. \A x : WireOf(x, c) = MysqlWire(x, c.route)
  BY DEF WireOf, Mysqls, ByURL, Programs
<1> DEFINE p == Put(base, s, c, fields)
<1>7. p.name = IF s.name # "none" THEN s.name ELSE base.name
  BY <1>1, <1>4, PutFields DEF IsGiven
<1>8. mode \in {"true", "verify-ca"} => p.ca = IF s.ca # "none" THEN s.ca ELSE base.ca
  BY <1>1, <1>4, PutFields DEF IsGiven, MysqlMode
<1>9. c.route \in Forwards => p.mode = "false"
  BY PutFields DEF Mysqls
<1>10. c.route \notin Forwards /\ mode \in {"true", "verify-ca", "skip-verify"} => p.mode = mode
  BY <1>1, <1>4, PutFields DEF IsGiven, MysqlMode
<1> HIDE DEF mode, p
<1>11. mode \in {"true", "verify-ca", "skip-verify"} => MysqlMode(p, c.route) = mode
  <2>1. CASE c.route \in Forwards
    BY <1>1, <1>7, <1>8, <1>9, <2>1 DEF MysqlMode, mode
  <2>2. CASE c.route \notin Forwards
    BY <1>10, <2>2 DEF MysqlMode
  <2> QED
    BY <2>1, <2>2
<1>12. mode \in {"false", "preferred", "skip-verify", "verify-ca", "true"}
  BY <1>1 DEF mode, MysqlMode
<1>13. Keeps(MysqlWire(p, c.route), MysqlWire(s, c.route), base)
  <2>1. CASE mode = "false"
    <3>1. MysqlWire(s, c.route) = Plain
      BY <2>1 DEF mode, MysqlWire
    <3> QED
      BY <3>1, PlainIsKept
  <2>2. CASE mode = "preferred"
    <3>1. MysqlWire(s, c.route) = [Over("any", "any", FALSE) EXCEPT !.tls = "may"]
      BY <2>2 DEF mode, MysqlWire
    <3> QED
      BY <3>1 DEF Keeps, ChecksAsMuch, Over
  <2>3. CASE mode = "skip-verify"
    <3>1. MysqlWire(s, c.route) = Over("any", "any", FALSE) /\ MysqlWire(p, c.route) = Over("any", "any", FALSE)
      BY <2>3, <1>11 DEF mode, MysqlWire
    <3> QED
      BY <3>1 DEF Keeps, ChecksAsMuch, Over
  <2>4. CASE mode = "verify-ca"
    <3>1. MysqlWire(s, c.route) = Over(Roots(s.ca), "any", FALSE) /\ MysqlWire(p, c.route) = Over(Roots(p.ca), "any", FALSE)
      BY <2>4, <1>11 DEF mode, MysqlWire
    <3>2. p.ca = s.ca
      BY <1>3, <1>8, <2>4
    <3> QED
      BY <3>1, <3>2 DEF Keeps, ChecksAsMuch, Over
  <2>5. CASE mode = "true"
    <3>1. /\ MysqlWire(s, c.route) = Over(Roots(s.ca), NameOr(s, "host"), FALSE)
          /\ MysqlWire(p, c.route) = Over(Roots(p.ca), NameOr(p, "host"), FALSE)
      BY <2>5, <1>11 DEF mode, MysqlWire
    <3>2. Names(s)
      BY <1>1 DEF Names
    <3> QED
      BY <1>7, <1>8, <2>5, <3>1, <3>2, OverIsKept
  <2> QED
    BY <1>12, <2>1, <2>2, <2>3, <2>4, <2>5
<1> QED
  BY <1>4, <1>5, <1>6, <1>13 DEF HintIsKept, p

LEMMA PgHint ==
  ASSUME NEW base, NEW s, NEW c, Names(base), Sound(s, c), c.plugin = "pg", PgCheck(s, c.route) = Unrefused,
         s.home # "none" => base.ca = s.ca \/ NoneGiven(base)
  PROVE  \E fields : HintIsKept(base, s, c, fields)
<1> DEFINE mode == PgMode(s, c.route)
           given == {"name"}
                      \cup (IF c.route \in Forwards THEN {"ca"}
                            ELSE IF s.mode \in {"require", "verify-ca", "verify-full"} THEN {"mode", "ca"}
                            ELSE {})
                      \cup (IF PgMode(s, c.route) = "disable" THEN {} ELSE {"pair", "home"})
           tls == mode \in {"require", "verify-ca", "verify-full"}
<1>1. /\ s.mode \in {"disable", "prefer", "require", "verify-ca", "verify-full"}
      /\ s.ca \in {"none", "issuer", "other", "bad", "system"} /\ s.name \in {"none", "right", "wrong"}
      /\ s.pair \in {"none", "cert", "key", "both", "torn"} /\ s.home \in {"none", "root", "crl"}
      /\ c.route \in Forwards => s.mode = "disable"
  BY PgSettings
<1>2. /\ mode \in {"disable", "prefer", "require", "verify-ca", "verify-full"}
      /\ s.name # "none" => mode = "verify-full"
      /\ PgFound(s, c.route).ca = IF s.home # "none" /\ s.ca = "none" /\ mode # "disable" THEN "issuer" ELSE s.ca
      /\ mode = "verify-ca" => PgFound(s, c.route).ca \notin {"none", "system"}
  BY PgModes
<1>3. PICK fields : fields = given /\ Again(s, c) = Given(s, fields)
  BY DEF Again, PgAgain, Mysqls, ByURL, Programs
<1>4. c.route \in Forwards => ~IsGiven(s, "mode", fields) /\ ~IsGiven(s, "scheme", fields) /\ ~IsGiven(s, "host", fields)
  BY <1>3 DEF IsGiven
<1>5. \A x : WireOf(x, c) = PgWire(x, c.route)
  BY DEF WireOf, Mysqls, ByURL, Programs
<1> DEFINE p == Put(base, s, c, fields)
<1>6. "name" \in fields /\ (tls => "ca" \in fields /\ "pair" \in fields /\ "home" \in fields)
  BY <1>1, <1>3 DEF PgMode, PgOverForward
<1>7. /\ p.name = IF s.name # "none" THEN s.name ELSE base.name
      /\ tls => /\ p.ca = IF s.ca # "none" THEN s.ca ELSE base.ca
                /\ p.pair = IF s.pair # "none" THEN s.pair ELSE base.pair
                /\ p.home = IF s.home # "none" THEN s.home ELSE base.home
  <2> HIDE DEF tls
  <2> QED
    BY <1>1, <1>6, PutFields DEF IsGiven
<1>8. DOMAIN p = Fields
  BY PutFields
<1>9. c.route \in Forwards => p.mode = "disable"
  BY PutFields DEF Mysqls
<1>10. c.route \notin Forwards /\ tls => p.mode = mode
  <2>1. c.route \notin Forwards /\ tls => mode = s.mode /\ "mode" \in fields
    BY <1>3 DEF PgMode, PgOverForward
  <2> QED
    BY <1>1, <2>1, PutFields DEF IsGiven
<1> HIDE DEF mode, p, given
<1>11. tls => PgMode(p, c.route) = mode
  <2>1. CASE c.route \in Forwards
    <3>1. tls => PgOverForward(s, c.route) /\ mode = "verify-full"
      BY <1>1, <2>1 DEF mode, PgMode
    <3>2. tls => PgOverForward(p, c.route)
      BY <1>1, <1>7, <3>1 DEF PgOverForward
    <3> QED
      BY <3>1, <3>2 DEF PgMode
  <2>2. CASE c.route \notin Forwards
    BY <1>10, <2>2 DEF PgMode, PgOverForward
  <2> QED
    BY <2>1, <2>2
<1>12. ASSUME tls
       PROVE  LET found == PgFound(p, c.route).ca
                  sought == PgFound(s, c.route).ca IN
              /\ found # "any"
              /\ sought \notin {"none", "system"} => found = sought
              /\ NoneGiven(base) => found = sought
  <2>1. PgFound(p, c.route).ca = IF p.home # "none" /\ p.ca = "none" THEN "issuer" ELSE p.ca
    BY <1>8, <1>11, <1>12 DEF PgFound, Fields
  <2>2. PgFound(s, c.route).ca = IF s.home # "none" /\ s.ca = "none" THEN "issuer" ELSE s.ca
    BY <1>2, <1>12
  <2>3. s.home # "none" /\ s.ca = "none" => p.home # "none" /\ p.ca = "none"
    BY <1>7, <1>12 DEF NoneGiven
  <2>4. s.ca # "none" => p.ca = s.ca
    BY <1>7, <1>12
  <2>5. NoneGiven(base) => p.ca = s.ca /\ p.home = s.home
    BY <1>7, <1>12 DEF NoneGiven
  <2> QED
    BY <1>1, <1>7, <1>12, <2>1, <2>2, <2>3, <2>4, <2>5 DEF Names
<1>13. NoneGiven(base) /\ tls => (p.pair = "both") = (s.pair = "both")
  BY <1>7 DEF NoneGiven
<1>14. Keeps(PgWire(p, c.route), PgWire(s, c.route), base)
  <2>1. CASE mode = "disable"
    <3>1. PgWire(s, c.route) = Plain
      BY <2>1 DEF mode, PgWire
    <3> QED
      BY <3>1, PlainIsKept
  <2>2. CASE mode = "prefer"
    <3>1. PgWire(s, c.route) = [Over("any", "any", s.pair = "both") EXCEPT !.tls = "may"]
      BY <2>2 DEF mode, PgWire
    <3> QED
      BY <3>1 DEF Keeps, ChecksAsMuch, Over
  <2>3. CASE mode = "require"
    <3>1. /\ PgWire(s, c.route) = Over("any", "any", s.pair = "both")
          /\ PgWire(p, c.route) = Over("any", "any", p.pair = "both")
      BY <2>3, <1>11 DEF mode, PgWire
    <3> QED
      BY <2>3, <3>1, <1>13 DEF Keeps, ChecksAsMuch, Over
  <2>4. CASE mode = "verify-ca"
    <3>1. /\ PgWire(s, c.route) = Over(Roots(PgFound(s, c.route).ca), "any", s.pair = "both")
          /\ PgWire(p, c.route) = Over(Roots(PgFound(p, c.route).ca), "any", p.pair = "both")
      BY <2>4, <1>11 DEF mode, PgWire
    <3>2. PgFound(p, c.route).ca = PgFound(s, c.route).ca
      BY <1>2, <1>12, <2>4
    <3> QED
      BY <2>4, <3>1, <3>2, <1>13 DEF Keeps, ChecksAsMuch, Over
  <2>5. CASE mode = "verify-full"
    <3> DEFINE found == PgFound(p, c.route).ca
               sought == PgFound(s, c.route).ca
    <3>1. /\ PgWire(s, c.route) = Over(Roots(sought), NameOr(s, "host"), s.pair = "both")
          /\ PgWire(p, c.route) = Over(Roots(found), NameOr(p, "host"), p.pair = "both")
      BY <2>5, <1>11 DEF mode, PgWire
    <3>2. found # "any" /\ (sought \notin {"none", "system"} => found = sought) /\ (NoneGiven(base) => found = sought)
      BY <1>12, <2>5
    <3>3. sought # "any"
      BY <1>1, <1>2
    <3> HIDE DEF found, sought
    <3>4. Roots(found) # "any" /\ (Roots(sought) \notin {"any", "public"} => Roots(found) = Roots(sought))
      BY <3>2, <3>3, RootsKept
    <3>5. /\ NameOr(p, "host") # "any" /\ (NameOr(s, "host") # "host" => NameOr(p, "host") = NameOr(s, "host"))
          /\ NoneGiven(base) => NameOr(p, "host") = NameOr(s, "host")
      BY <1>1, <1>7 DEF NameOr, Names, NoneGiven
    <3> QED
      BY <2>5, <3>1, <3>2, <3>4, <3>5, <1>13 DEF Keeps, ChecksAsMuch, Over
  <2> QED
    BY <1>2, <2>1, <2>2, <2>3, <2>4, <2>5
<1> QED
  BY <1>3, <1>4, <1>5, <1>14 DEF HintIsKept, p

LEMMA HintKept ==
  ASSUME NEW base, NEW s, NEW c, IsCall(c), Sound(s, c), Names(base), Checked(s, c) = Unrefused,
         c.route \in Forwards => s.far = "none",
         s.home # "none" => base.ca = s.ca \/ NoneGiven(base)
  PROVE  \E fields : HintIsKept(base, s, c, fields)
<1>1. CASE c.plugin = "redis"
  BY <1>1, RedisHint
<1>2. CASE c.plugin \in {"qdrant", "s3"}
  BY <1>2, SwitchHint
<1>3. CASE c.plugin = "etcd"
  BY <1>3, EtcdHint
<1>4. CASE c.plugin \in ByURL
  BY <1>4, UrlHint
<1>5. CASE c.plugin \in Mysqls
  <2>1. MysqlCheck(s, c.route) = Unrefused
    BY <1>5 DEF Checked, Mysqls, ByURL, Programs
  <2> QED
    BY <1>5, <2>1, MysqlHint
<1>6. CASE c.plugin = "pg"
  <2>1. PgCheck(s, c.route) = Unrefused
    BY <1>6 DEF Checked, Mysqls, ByURL, Programs
  <2> QED
    BY <1>6, <2>1, PgHint
<1>7. CASE c.plugin \in Programs
  <2>1. c.route \notin Forwards
    BY <1>7 DEF IsCall, Forwards
  <2> QED
    BY <1>7, <2>1, ProgramHint
<1> QED
  BY <1>1, <1>2, <1>3, <1>4, <1>5, <1>6, <1>7 DEF IsCall, Plugins

LEMMA ConfiguredNames ==
  ASSUME NEW plugin \in Plugins, NEW base \in SettingsOf[plugin]
  PROVE  Names(base)
<1>1. base.ca \in Values(plugin).ca /\ base.name \in Values(plugin).name
  BY SettingsAssumption DEF Fields
<1>2. "any" \notin Values(plugin).ca /\ "any" \notin Values(plugin).name
  BY DEF Values
<1> QED
  BY <1>1, <1>2 DEF Names

\* HintReachesTheSame: whatever a call was made with and whatever is configured where its hint is
\* pasted, the call a hint hands the reader checks all that this one checked, exactly that over
\* nothing, and gives nothing a forward fills (each plugin's reachArgs).
THEOREM HintLeadsBack == Spec => []HintReachesTheSame
<1>1. CallInv => HintReachesTheSame
  <2> SUFFICES ASSUME CallInv, pc = "done", call.route \notin Forwards \/ settings.far = "none"
               PROVE  LET this == WireOf(settings, call) IN
                      /\ ~Astray(Again(settings, call))
                      /\ this.tls = "must" => WireOf(Pasted(Bare(call)), call) = this
                      /\ \A base \in SettingsOf[call.plugin] :
                           (settings.home # "none" => base.ca = settings.ca)
                             => ChecksAsMuch(WireOf(Pasted(base), call), this)
    BY DEF HintReachesTheSame
  <2>1. IsCall(call) /\ Sound(settings, call) /\ Checked(settings, call) = Unrefused
    BY DEF CallInv
  <2>2. ASSUME NEW base, Names(base), settings.home # "none" => base.ca = settings.ca \/ NoneGiven(base)
        PROVE  ~Astray(Again(settings, call)) /\ Keeps(WireOf(Pasted(base), call), WireOf(settings, call), base)
    <3>1. PICK fields : HintIsKept(base, settings, call, fields)
      BY <2>1, <2>2, HintKept
    <3>2. Pasted(base) = Put(base, settings, call, fields)
      BY <3>1 DEF HintIsKept, Pasted, Put
    <3>3. ~Astray(Again(settings, call))
      BY <3>1, GivenAre DEF HintIsKept, Astray
    <3> QED
      BY <3>1, <3>2, <3>3 DEF HintIsKept
  <2>3. Names(Bare(call)) /\ NoneGiven(Bare(call))
    BY DEF Names, NoneGiven, Bare
  <2>4. ~Astray(Again(settings, call)) /\ Keeps(WireOf(Pasted(Bare(call)), call), WireOf(settings, call), Bare(call))
    BY <2>2, <2>3
  <2>5. ASSUME NEW base \in SettingsOf[call.plugin], settings.home # "none" => base.ca = settings.ca
        PROVE  ChecksAsMuch(WireOf(Pasted(base), call), WireOf(settings, call))
    <3>1. Names(base)
      BY <2>1, ConfiguredNames DEF IsCall
    <3> QED
      BY <2>2, <2>5, <3>1 DEF Keeps
  <2> QED
    BY <2>3, <2>4, <2>5 DEF Keeps
<1> QED
  BY <1>1, CallInit, CallStep, PTL DEF Spec

---------------------------------------------------------------------------
(* What a refusal sends its reader to keeps the forward open, and is no    *)
(* way round a certificate that was revoked.                               *)

StaysOn(c, change) == c.route \in Forwards => DOMAIN change \cap {"mode", "scheme", "host"} = {}
LeavesOpen(refusal, c) == refusal.code = "tls.unsupported" \/ \A change \in refusal.advice : StaysOn(c, change)

LEMMA LeavesOne ==
  /\ \A c, code : LeavesOpen(Refusal(code, {}), c)
  /\ \A c, code, one : StaysOn(c, one) => LeavesOpen(Refusal(code, {one}), c)
  /\ \A c, code, one, two : StaysOn(c, one) /\ StaysOn(c, two) => LeavesOpen(Refusal(code, {one, two}), c)
BY DEF LeavesOpen, Refusal

LEMMA StaysOff ==
  ASSUME NEW c, c.route \notin Forwards
  PROVE  \A refusal : LeavesOpen(refusal, c)
BY DEF LeavesOpen, StaysOn

\* What may be set beside a forward.
LEMMA StayOn ==
  ASSUME NEW c, NEW value
  PROVE  /\ StaysOn(c, [ca |-> value]) /\ StaysOn(c, [name |-> value]) /\ StaysOn(c, [pair |-> value])
         /\ StaysOn(c, [home |-> value]) /\ StaysOn(c, [far |-> value]) /\ StaysOn(c, [secret |-> value])
BY DEF StaysOn

LEMMA LeavesDialled ==
  ASSUME NEW c
  PROVE  /\ LeavesOpen(Unrefused, c) /\ LeavesOpen(Unroutable, c) /\ LeavesOpen(Refused, c)
         /\ LeavesOpen(Unknown, c) /\ LeavesOpen(TimedOut, c) /\ LeavesOpen(ForwardName, c)
BY LeavesOne, StayOn DEF Unrefused, Unroutable, Refused, Unknown, TimedOut, ForwardName

LEMMA LeavesAnother ==
  ASSUME NEW s, NEW c, NEW code
  PROVE  LeavesOpen(Refusal(code, Another(s)), c)
BY StayOn DEF LeavesOpen, Refusal, Another

LEMMA FilesLeave ==
  ASSUME NEW s, NEW c
  PROVE  LeavesOpen(FilesRefused(s), c) /\ LeavesOpen(BundleRefused(s), c)
BY LeavesOne, LeavesDialled, StayOn DEF FilesRefused, BundleRefused

LEMMA RedisLeaves ==
  ASSUME NEW s, NEW c, c.route \in Forwards, NEW e
  PROVE  LeavesOpen(RedisCheck(s), c) /\ LeavesOpen(RedisTold(e, s, c.route), c)
<1>1. LeavesOpen(RedisCheck(s), c)
  BY FilesLeave, LeavesDialled DEF RedisCheck
<1>2. LeavesOpen(RedisName(s, e), c)
  BY LeavesOne, StayOn DEF RedisName
<1>3. "eof" \notin e => LeavesOpen(RedisFailed(e, s), c)
  BY LeavesOne, LeavesAnother, LeavesDialled, StayOn DEF RedisFailed, RedisAnswered, RedisRejected
<1> QED
  BY <1>1, <1>2, <1>3, LeavesOne, LeavesDialled, StayOn DEF RedisTold

LEMMA EtcdLeaves ==
  ASSUME NEW s, NEW c, c.route \in Forwards, NEW e
  PROVE  /\ s.scheme = "bare" => LeavesOpen(EtcdCheck(s), c)
         /\ LeavesOpen(EtcdTold(e, s, c.route), c) /\ LeavesOpen(EtcdNoConnection, c) /\ LeavesOpen(EtcdWrongPort(s, c.route), c)
<1>1. s.scheme = "bare" => LeavesOpen(EtcdCheck(s), c)
  <2>1. s.scheme = "bare" => EtcdPlaintext(s) = Unrefused
    BY DEF EtcdPlaintext
  <2> QED
    BY <2>1, FilesLeave, LeavesDialled DEF EtcdCheck, EtcdFiles
<1>2. LeavesOpen(EtcdTold(e, s, c.route), c)
  BY LeavesOne, LeavesAnother, LeavesDialled, StayOn DEF EtcdTold
<1>3. LeavesOpen(EtcdWrongPort(s, c.route), c)
  BY LeavesOne, StayOn DEF EtcdWrongPort
<1> QED
  BY <1>1, <1>2, <1>3, LeavesDialled DEF EtcdNoConnection

LEMMA TransportLeaves ==
  ASSUME NEW s, NEW c, NEW e, NEW otherwise, LeavesOpen(otherwise, c)
  PROVE  LeavesOpen(TransportTold(e, s, c.route, otherwise), c)
BY LeavesOne, LeavesDialled, StayOn DEF TransportTold

LEMMA ExpectedLeaves ==
  ASSUME NEW c, c.route \in Forwards
  PROVE  /\ \A change : LeavesOpen(Expected(change, c.route), c)
         /\ \A code, less : StaysOn(c, less) => LeavesOpen(Refusal(code, PlaintextWay(less, c.route)), c)
BY LeavesOne, StayOn DEF Expected, PlaintextWay

LEMMA HttpLeaves ==
  ASSUME NEW s, NEW c, c.route \in Forwards, NEW e
  PROVE  /\ LeavesOpen(QdrantTold(e, s, c.route), c) /\ LeavesOpen(S3Told(e, s, c.route), c)
         /\ LeavesOpen(VaultTold(e, s, c.route), c) /\ LeavesOpen(KeycloakTold(e, s, c.route), c)
         /\ LeavesOpen(VaultCheck(s, c.route), c) /\ LeavesOpen(KeycloakCheck(s, c.route), c)
<1>1. \A otherwise : LeavesOpen(otherwise, c) => LeavesOpen(TransportTold(e, s, c.route, otherwise), c)
  BY TransportLeaves
<1>2. \A change : LeavesOpen(Expected(change, c.route), c)
  BY ExpectedLeaves
<1>3. LeavesOpen(Refusal("conn.failed", {}), c)
  BY LeavesOne
<1>4. LeavesOpen(QdrantTold(e, s, c.route), c)
  <2> DEFINE failed == IF ~QdrantTLS(s) /\ "tls bytes" \in e THEN Expected([mode |-> "on"], c.route) ELSE Refusal("conn.failed", {})
  <2>1. LeavesOpen(failed, c)
    BY <1>2, <1>3
  <2> HIDE DEF failed
  <2>2. LeavesOpen(TransportTold(e, s, c.route, failed), c)
    BY <1>1, <2>1
  <2> QED
    BY <2>2, LeavesOne, LeavesAnother DEF QdrantTold, QdrantStatus, failed
<1>5. LeavesOpen(S3Told(e, s, c.route), c)
  BY <1>1, <1>2, <1>3, LeavesOne, LeavesAnother, LeavesDialled DEF S3Told, S3Status
<1>6. LeavesOpen(VaultTold(e, s, c.route), c)
  BY <1>1, <1>2, <1>3, LeavesOne DEF VaultTold, VaultStatus
<1>7. LeavesOpen(KeycloakTold(e, s, c.route), c)
  <2> DEFINE way == {IF c.route \in Forwards THEN [far |-> "tls"] ELSE [scheme |-> "https"]}
             failed == IF s.scheme = "http" /\ "tls bytes" \in e THEN Refusal("tls.expected", way)
                       ELSE IF s.scheme = "http" /\ "eof" \in e THEN Refusal("conn.failed", way)
                       ELSE Refusal("conn.failed", {})
  <2>1. \A code : LeavesOpen(Refusal(code, way), c)
    BY LeavesOne, StayOn
  <2> HIDE DEF way
  <2>2. LeavesOpen(failed, c)
    BY <1>3, <2>1
  <2> HIDE DEF failed
  <2>3. LeavesOpen(TransportTold(e, s, c.route, failed), c)
    BY <1>1, <2>2
  <2> QED
    BY <2>3, LeavesOne, LeavesAnother DEF KeycloakTold, KeycloakStatus, failed, way
<1>8. StaysOn(c, [name |-> "none"]) /\ StaysOn(c, [ca |-> "none"])
  BY StayOn
<1>9. LeavesOpen(VaultCheck(s, c.route), c) /\ LeavesOpen(KeycloakCheck(s, c.route), c)
  BY <1>8, ExpectedLeaves, FilesLeave, LeavesAnother DEF VaultCheck, KeycloakCheck
<1> QED
  BY <1>4, <1>5, <1>6, <1>7, <1>9

LEMMA MysqlLeaves ==
  ASSUME NEW s, NEW c, c.route \in Forwards, NEW e
  PROVE  /\ s.mode = "false" => LeavesOpen(MysqlCheck(s, c.route), c)
         /\ LeavesOpen(MysqlTold(e, s, c.route), c) /\ LeavesOpen(MysqlChildCheck(s), c) /\ LeavesOpen(MysqlChildTold(e, s), c)
<1>1. ASSUME s.mode = "false" PROVE LeavesOpen(MysqlCheck(s, c.route), c)
  <2>1. MysqlMode(s, c.route) \in {"false", "true"} /\ (s.name # "none" => MysqlMode(s, c.route) = "true")
    BY <1>1 DEF MysqlMode
  <2>2. MysqlNameCheck(s, c.route) = Unrefused
    BY <2>1 DEF MysqlNameCheck
  <2> QED
    BY <2>1, <2>2, LeavesOne, LeavesDialled, StayOn DEF MysqlCheck
<1>2. LeavesOpen(MysqlName(e, s, c.route), c)
  BY LeavesOne, StayOn DEF MysqlName
<1>3. LeavesOpen(MysqlTLSRequired(c.route), c)
  BY LeavesOne, StayOn DEF MysqlTLSRequired
<1>4. LeavesOpen(MysqlVerified(e, s, c.route, MysqlUnreached(e)), c)
  <2>1. LeavesOpen(MysqlUnreached(e), c)
    BY LeavesOne, LeavesDialled DEF MysqlUnreached
  <2> QED
    BY <1>2, <2>1, LeavesOne, LeavesDialled, StayOn DEF MysqlVerified
<1>5. LeavesOpen(Refusal("tls.unsupported", {[mode |-> "false"]}), c)
  BY DEF LeavesOpen, Refusal
<1>6. LeavesOpen(MysqlTold(e, s, c.route), c)
  BY <1>3, <1>4, <1>5, LeavesOne, LeavesAnother DEF MysqlTold, MysqlNumbered
<1>7. LeavesOpen(MysqlChildCheck(s), c)
  BY LeavesOne, LeavesDialled DEF MysqlChildCheck
<1>8. LeavesOpen(MysqlChildTold(e, s), c)
  BY LeavesOne, LeavesAnother, LeavesDialled, StayOn DEF MysqlChildTold
<1> QED
  BY <1>1, <1>6, <1>7, <1>8

LEMMA PgLeaves ==
  ASSUME NEW s, NEW c, c.route \in Forwards, NEW e
  PROVE  /\ s.mode = "disable" => LeavesOpen(PgCheck(s, c.route), c)
         /\ LeavesOpen(PgTold(e, s, c.route), c) /\ LeavesOpen(PgChildCheck(s, c.route), c) /\ LeavesOpen(PgChildTold(e, s), c)
<1>1. ASSUME s.mode = "disable" PROVE LeavesOpen(PgCheck(s, c.route), c)
  <2>1. PgMode(s, c.route) \in {"disable", "verify-full"} /\ (s.name # "none" => PgMode(s, c.route) = "verify-full")
    BY <1>1 DEF PgMode, PgOverForward
  <2>2. LeavesOpen(PgRootCheck(s, c.route), c)
    BY <2>1, LeavesOne, LeavesDialled, StayOn DEF PgRootCheck
  <2>3. LeavesOpen(PgNameCheck(s, c.route), c)
    BY <2>1, LeavesOne, LeavesDialled DEF PgNameCheck
  <2>4. LeavesOpen(PgRevocationCheck(s, c.route), c) /\ LeavesOpen(PgPairCheck(s, c.route), c)
    BY LeavesOne, LeavesDialled, StayOn DEF PgRevocationCheck, PgPairCheck
  <2> QED
    BY <2>2, <2>3, <2>4 DEF PgCheck
<1>2. LeavesOpen(PgTLSRequired(c.route), c) /\ LeavesOpen(PgClientCert(s), c)
  BY LeavesOne, StayOn DEF PgTLSRequired, PgClientCert
<1>3. LeavesOpen(PgName(e, s), c)
  BY LeavesOne, StayOn DEF PgName
<1>4. LeavesOpen(PgVerified(e, s, c.route, Refusal("conn.failed", {})), c)
  BY <1>3, LeavesOne, LeavesDialled, StayOn DEF PgVerified
<1>5. LeavesOpen(Refusal("tls.unsupported", {[mode |-> "disable"]}), c)
  BY DEF LeavesOpen, Refusal
<1>6. LeavesOpen(PgUnreached(e, PgVerified(e, s, c.route, Refusal("conn.failed", {}))), c)
  BY <1>4, <1>5, LeavesDialled DEF PgUnreached
<1>7. LeavesOpen(PgTold(e, s, c.route), c)
  BY <1>2, <1>6, LeavesOne, LeavesAnother DEF PgTold, PgCoded
<1>8. LeavesOpen(PgChildCheck(s, c.route), c)
  BY LeavesOne, LeavesDialled DEF PgChildCheck
<1>9. LeavesOpen(PgChildTold(e, s), c)
  BY <1>2, LeavesOne, LeavesAnother, LeavesDialled, StayOn DEF PgChildTold
<1> QED
  BY <1>1, <1>7, <1>8, <1>9

LEMMA CheckLeaves ==
  ASSUME NEW s, NEW c, IsCall(c), Sound(s, c)
  PROVE  LeavesOpen(Checked(s, c), c) /\ LeavesOpen(ToolChecked(s, c), c)
<1> USE DEF Mysqls, ByURL, Programs, Plugins
<1>1. CASE c.route \notin Forwards
  BY <1>1, StaysOff
<1>2. CASE c.route \in Forwards
  <2>1. CASE c.plugin = "redis"
    BY <1>2, <2>1, RedisLeaves, LeavesDialled DEF Checked, ToolChecked, IsCall
  <2>2. CASE c.plugin = "etcd"
    <3>1. s.scheme = "bare"
      BY <1>2, <2>2, SwitchSettings
    <3> QED
      BY <1>2, <2>2, <3>1, EtcdLeaves, LeavesDialled DEF Checked, ToolChecked, IsCall
  <2>3. CASE c.plugin \in {"qdrant", "s3"}
    BY <1>2, <2>3, FilesLeave, LeavesDialled DEF Checked, ToolChecked, IsCall
  <2>4. CASE c.plugin \in ByURL
    BY <1>2, <2>4, HttpLeaves, LeavesDialled DEF Checked, ToolChecked, IsCall
  <2>5. CASE c.plugin \in Mysqls
    <3>1. s.mode = "false"
      BY <1>2, <2>5, MysqlSettings
    <3> QED
      BY <1>2, <2>5, <3>1, MysqlLeaves, LeavesDialled DEF Checked, ToolChecked
  <2>6. CASE c.plugin = "pg"
    <3>1. s.mode = "disable"
      BY <1>2, <2>6, PgSettings
    <3> QED
      BY <1>2, <2>6, <3>1, PgLeaves, LeavesDialled DEF Checked, ToolChecked
  <2>7. c.plugin \notin Programs
    BY <1>2 DEF IsCall, Forwards
  <2> QED
    BY <2>1, <2>2, <2>3, <2>4, <2>5, <2>6, <2>7 DEF IsCall
<1> QED
  BY <1>1, <1>2

LEMMA ToldLeaves ==
  ASSUME NEW s, NEW c, IsCall(c), c.plugin \notin Programs, NEW e
  PROVE  LeavesOpen(Told(e, s, c), c) /\ (c.dump => LeavesOpen(ToolTold(e, s, c), c))
<1> USE DEF Mysqls, ByURL, Programs, Plugins
<1>1. CASE c.route \notin Forwards
  BY <1>1, StaysOff
<1>2. CASE c.route \in Forwards
  <2>1. CASE c.plugin = "redis"
    BY <1>2, <2>1, RedisLeaves DEF Told, IsCall
  <2>2. CASE c.plugin = "etcd"
    BY <1>2, <2>2, EtcdLeaves DEF Told, IsCall
  <2>3. CASE c.plugin \in {"qdrant", "s3"} \cup ByURL
    BY <1>2, <2>3, HttpLeaves DEF Told, IsCall
  <2>4. CASE c.plugin \in Mysqls
    BY <1>2, <2>4, MysqlLeaves DEF Told, ToolTold
  <2>5. CASE c.plugin = "pg"
    BY <1>2, <2>5, PgLeaves DEF Told, ToolTold
  <2> QED
    BY <2>1, <2>2, <2>3, <2>4, <2>5 DEF IsCall
<1> QED
  BY <1>1, <1>2

\* What is met where a certificate was revoked, and nothing said of it sends the reader on.
Revoked(e) ==
  "revoked" \in e /\ "verify" \in e /\ e \subseteq {"revoked", "verify", "nameless", "handshake"}

Unrevoked(e) == "revoked" \notin e

LEMMA OthersUnrevoked ==
  /\ Unrevoked({}) /\ \A a : a # "revoked" => Unrevoked({a})
  /\ \A a, b : a # "revoked" /\ b # "revoked" => Unrevoked({a, b})
  /\ \A a, b, d : a # "revoked" /\ b # "revoked" /\ d # "revoked" => Unrevoked({a, b, d})
BY DEF Unrevoked

LEMMA MeetsRevoked ==
  ASSUME NEW c, NEW w, NEW srv \in ServerStates, "revoked" \in Meets(c, w, srv)
  PROVE  Revoked(Meets(c, w, srv))
<1> DEFINE e == Meets(c, w, srv)
<1>1. ~Unrevoked(e) /\ (Unmet(e, srv) \/ Handshaken(e, c, w, srv))
  BY MeetsWords DEF Unrevoked
<1> HIDE DEF e
<1>2. ~Unmet(e, srv)
  BY <1>1, OthersUnrevoked DEF Unmet
<1>3. Unrevoked(InTheClear(c, srv)) /\ Unrevoked(NoTLSThere(c))
  <2>1. srv.plainly \in {"says so", "alerts", "hangs up"}
    BY DEF ServerStates
  <2>2. Unrevoked(PlainMet(srv))
    BY <2>1, OthersUnrevoked DEF PlainMet
  <2> QED
    BY <2>2, OthersUnrevoked DEF InTheClear, NoTLSThere
<1>4. e = Verdict(srv, w, c.route)
  BY <1>1, <1>2, <1>3, OthersUnrevoked DEF Handshaken
<1>5. Revoked(e)
  BY <1>1, <1>4 DEF Verdict, Revoked, Unrevoked
<1> QED
  BY <1>5 DEF e

LEMMA RevokedToldIs ==
  ASSUME NEW e, Revoked(e), NEW s, NEW route
  PROVE  /\ RedisTold(e, s, route) = Refusal("tls.rejected", {}) /\ EtcdTold(e, s, route) = Refusal("tls.rejected", {})
         /\ QdrantTold(e, s, route) = Refusal("tls.rejected", {}) /\ S3Told(e, s, route) = Refusal("tls.rejected", {})
         /\ VaultTold(e, s, route) = Refusal("tls.rejected", {}) /\ KeycloakTold(e, s, route) = Refusal("tls.rejected", {})
         /\ MysqlTold(e, s, route) = Refusal("tls.rejected", {}) /\ PgTold(e, s, route) = Refusal("tls.rejected", {})
         /\ MysqlChildTold(e, s) = Refusal("dump.failed", {})
<1>1. /\ "hostname" \notin e /\ "untrusted" \notin e /\ "refused" \notin e /\ "unroutable" \notin e /\ "dns" \notin e
      /\ "deadline" \notin e /\ "timeout" \notin e /\ "eof" \notin e /\ "redirect" \notin e /\ "tls bytes" \notin e
      /\ "verify" \in e /\ "revoked" \in e
  BY DEF Revoked
<1>2. RedisTold(e, s, route) = Refusal("tls.rejected", {})
  BY <1>1 DEF RedisTold
<1>3. EtcdTold(e, s, route) = Refusal("tls.rejected", {})
  <2>1. "Unauthenticated" \notin e /\ "PermissionDenied" \notin e /\ "Unavailable" \notin e
    BY DEF Revoked
  <2> QED
    BY <1>1, <2>1 DEF EtcdTold
<1>4. \A otherwise : TransportTold(e, s, route, otherwise) = Refusal("tls.rejected", {})
  BY <1>1 DEF TransportTold
<1>5. /\ "401" \notin e /\ "401 token" \notin e /\ "403" \notin e /\ "400" \notin e /\ "503" \notin e
      /\ "AccessDenied" \notin e /\ "SignatureDoesNotMatch" \notin e
  BY DEF Revoked
<1>6. e \cap {"400", "503"} = {} /\ e \cap {"503", "redirect"} = {}
  BY <1>1, <1>5
<1>7. QdrantTold(e, s, route) = Refusal("tls.rejected", {}) /\ S3Told(e, s, route) = Refusal("tls.rejected", {})
  BY <1>1, <1>4, <1>5, <1>6 DEF QdrantTold, QdrantStatus, S3Told, S3Status
<1>8. VaultTold(e, s, route) = Refusal("tls.rejected", {}) /\ KeycloakTold(e, s, route) = Refusal("tls.rejected", {})
  BY <1>1, <1>4, <1>5, <1>6 DEF VaultTold, VaultStatus, KeycloakTold, KeycloakStatus
<1>9. MysqlTold(e, s, route) = Refusal("tls.rejected", {}) /\ MysqlChildTold(e, s) = Refusal("dump.failed", {})
  <2>1. /\ "1045" \notin e /\ "1142" \notin e /\ "3159" \notin e /\ "1040" \notin e /\ "notls" \notin e /\ "no CA" \notin e /\ "pin" \notin e
    BY DEF Revoked
  <2> QED
    BY <1>1, <2>1 DEF MysqlTold, MysqlNumbered, MysqlVerified, MysqlChildTold
<1>10. PgTold(e, s, route) = Refusal("tls.rejected", {})
  <2>1. /\ "no encryption" \notin e /\ "valid client certificate" \notin e /\ "28P01" \notin e /\ "42501" \notin e
        /\ "53300" \notin e /\ "nossl" \notin e
    BY DEF Revoked
  <2>2. e \cap {"deadline", "timeout"} = {}
    BY <1>1
  <2> QED
    BY <1>1, <2>1, <2>2 DEF PgTold, PgCoded, PgUnreached, PgVerified
<1> QED
  BY <1>2, <1>3, <1>7, <1>8, <1>9, <1>10

LEMMA RevokedTold ==
  ASSUME NEW e, Revoked(e), NEW s, NEW c, IsCall(c), c.plugin \notin Programs
  PROVE  /\ Told(e, s, c).advice = {}
         /\ c.plugin \in Mysqls => ToolTold(e, s, c).advice = {}
<1> USE DEF Mysqls, ByURL, Programs, Plugins
<1>1. Told(e, s, c) = Refusal("tls.rejected", {})
  BY RevokedToldIs DEF Told, IsCall
<1>2. c.plugin \in Mysqls => ToolTold(e, s, c) = Refusal("dump.failed", {})
  BY RevokedToldIs DEF ToolTold
<1> QED
  BY <1>1, <1>2 DEF Refusal

\* No server's own answer is that its certificate was revoked.
LEMMA AnswersNoRevoked ==
  ASSUME NEW s, NEW c, IsCall(c), c.plugin \notin Programs, NEW srv
  PROVE  "revoked" \notin Answers(s, c, srv) /\ "revoked" \notin KeycloakAnswers(srv)
<1> USE DEF Mysqls, ByURL, Programs, Plugins
<1>1. "revoked" \notin RedisAnswers(s, srv) /\ "revoked" \notin EtcdAnswers(s, srv)
  BY DEF RedisAnswers, EtcdAnswers
<1>2. "revoked" \notin QdrantAnswers(s, srv) /\ "revoked" \notin S3Answers(s, srv) /\ "revoked" \notin VaultAnswers(s, srv)
  BY DEF QdrantAnswers, S3Answers, VaultAnswers
<1>3. "revoked" \notin KeycloakIssues(s, srv) /\ "revoked" \notin KeycloakAnswers(srv)
  BY DEF KeycloakIssues, KeycloakAnswers
<1>4. "revoked" \notin MysqlAnswers(s, srv) /\ "revoked" \notin PgAnswers(s, srv)
  BY DEF MysqlAnswers, PgAnswers
<1> QED
  BY <1>1, <1>2, <1>3, <1>4 DEF Answers, IsCall

LEMMA ProgramsNoRevoked ==
  ASSUME NEW s, NEW c, NEW srv, NEW e \in ProgramMeets(s, c, srv)
  PROVE  Unrevoked(e)
<1>1. CASE e \in KubectlAnswers(s, srv)
  <2>1. \/ e = {"Unauthorized"} \/ e = {"status", "forbidden"} \/ e = {"doesn't have a resource type"}
        \/ e = {"status", "could not find the requested resource"} \/ e = {"status", "dial tcp"}
        \/ e = {"status", "context deadline exceeded"} \/ e = {"status", "not found"} \/ e = {}
    BY <1>1 DEF KubectlAnswers
  <2> QED
    BY <2>1, OthersUnrevoked
<1>2. CASE e \in Dialling(srv)
  <2>1. \/ e = {"was refused"} \/ e = {"connection refused", "dial tcp"} \/ e = {"Unable to connect"}
        \/ e = {"deadline"} \/ e = {"Unable to connect", "dial tcp"}
    BY <1>2 DEF Dialling
  <2> QED
    BY <2>1, OthersUnrevoked
<1>3. CASE e \in KubectlMeets(s, srv)
  <2>1. \/ e = {"executable not found"} \/ e = {"no configuration has been provided"} \/ e = {"was refused"}
        \/ e = {"context", "does not exist"} \/ e = {"context was not found", "not found"}
        \/ e = {"current-context is not set"} \/ e = {"getting credentials", "failed with exit code"}
        \/ e = {"getting credentials", "failed with exit code", "Unauthorized"}
        \/ e = {"getting credentials", "executable not found there"} \/ e = {"no Auth Provider found"}
        \/ e \in KubectlAnswers(s, srv) \/ e \in Dialling(srv)
    BY <1>3 DEF KubectlMeets
  <2>2. /\ Unrevoked({"executable not found"}) /\ Unrevoked({"no configuration has been provided"}) /\ Unrevoked({"was refused"})
        /\ Unrevoked({"current-context is not set"}) /\ Unrevoked({"no Auth Provider found"})
    BY OthersUnrevoked
  <2>3. /\ Unrevoked({"context", "does not exist"}) /\ Unrevoked({"context was not found", "not found"})
        /\ Unrevoked({"getting credentials", "failed with exit code"})
        /\ Unrevoked({"getting credentials", "failed with exit code", "Unauthorized"})
        /\ Unrevoked({"getting credentials", "executable not found there"})
    BY OthersUnrevoked
  <2> QED
    BY <1>1, <1>2, <2>1, <2>2, <2>3
<1>4. CASE e \in DockerMeets(s, srv)
  BY <1>4, OthersUnrevoked DEF DockerMeets
<1> QED
  BY <1>3, <1>4 DEF ProgramMeets

LEMMA ToolNoRevoked ==
  ASSUME CallInv, HonestInv, pc = "tool", NEW w, w = ToolWire(settings, call), NEW e,
         e = IF ToolMeets(w) # {} THEN ToolMeets(w) ELSE Answers(settings, call, server), e # {}, "revoked" \in e
  PROVE  ToolTold(e, settings, call).advice = {}
<1> USE DEF Mysqls, ByURL, Programs, Plugins
<1>1. IsCall(call) /\ call.dump /\ call.plugin \notin Programs /\ server \in ServerStates
  BY DEF CallInv, Underway
<1>2. ToolMet(e, settings, call, w, server, met)
  BY ToolMetHolds
<1>3. "revoked" \notin Answers(settings, call, server)
  BY <1>1, AnswersNoRevoked
<1>4. Handshaken(e, call, w, server)
  BY <1>2, <1>3 DEF ToolMet, Unmet
<1>5. call.plugin # "pg"
  BY <1>4, ToolMetHolds
<1>6. call.plugin \in Mysqls
  BY <1>1, <1>5 DEF IsCall
<1>7. e = Verdict(server, w, call.route)
  <2>1. e # {"3159"} /\ e # {"notls"} /\ e # {"alert"}
    OBVIOUS
  <2> QED
    BY <1>4, <1>6, <2>1 DEF Handshaken, InTheClear, NoTLSThere
<1>8. Revoked(e)
  BY <1>7 DEF Verdict, Revoked
<1> QED
  BY <1>1, <1>6, <1>8, RevokedTold

\* What a refusal sends its reader to closes no forward, and is nothing where a certificate was revoked.
Clear(refusal, e, c) == LeavesOpen(refusal, c) /\ ("revoked" \in e => refusal.advice = {})

ClearInv == pc = "told" => Clear(told, err, call)

LEMMA ByHandClear ==
  ASSUME NEW s, NEW c, c = call, IsCall(c), c.plugin = "etcd", NEW srv \in ServerStates, srv = server, NEW hand, hand = ByHand
  PROVE  Clear(EtcdTold(hand, s, c.route), hand, c)
<1> USE DEF Mysqls, ByURL, Programs, Plugins
<1> DEFINE e == Meets(c, wire, srv)
<1>1. Told(hand, s, c) = EtcdTold(hand, s, c.route) /\ c.plugin \notin Programs
  BY DEF Told
<1>2. LeavesOpen(EtcdTold(hand, s, c.route), c)
  BY <1>1, ToldLeaves
<1>3. ASSUME "revoked" \in hand PROVE Revoked(hand)
  <2>1. "revoked" \notin Dialled(srv)
    <3>1. Dialled(srv) # {} => Unmet(Dialled(srv), srv)
      BY DialledWords
    <3>2. Unrevoked(Dialled(srv))
      BY <3>1, OthersUnrevoked DEF Unmet
    <3> QED
      BY <3>2 DEF Unrevoked
  <2>2. hand = e \cup {"handshake"} /\ "revoked" \in e
    BY <1>3, <2>1 DEF ByHand
  <2>3. Revoked(e)
    BY <2>2, MeetsRevoked
  <2> HIDE DEF e
  <2> QED
    BY <2>2, <2>3 DEF Revoked
<1>4. Revoked(hand) => EtcdTold(hand, s, c.route).advice = {}
  BY <1>1, RevokedTold
<1> QED
  BY <1>2, <1>3, <1>4 DEF Clear

LEMMA ClearStep == CallInv /\ HonestInv /\ ClearInv /\ [Next]_vars => ClearInv'
<1> SUFFICES ASSUME CallInv, HonestInv, ClearInv, [Next]_vars, pc' = "told" PROVE Clear(told', err', call')
  BY DEF ClearInv
<1>0. IsCall(call) /\ Sound(settings, call) /\ server \in ServerStates
  BY DEF CallInv
<1>1. CASE Check
  <2> DEFINE refused == IF Checked(settings, call) # Unrefused THEN Checked(settings, call) ELSE ToolChecked(settings, call)
  <2>1. LeavesOpen(refused, call)
    BY <1>0, CheckLeaves
  <2> HIDE DEF refused
  <2>2. err' = {} /\ told' = refused /\ call' = call
    BY <1>1 DEF Check, End, refused
  <2> QED
    BY <2>1, <2>2 DEF Clear
<1>2. CASE Run
  <2>1. call' = call /\ call.route \notin Forwards
    BY <1>0, <1>2 DEF Run, IsCall, Forwards
  <2>2. "revoked" \notin err'
    <3>1. PICK e \in ProgramMeets(settings, call, server) : err' = e
      BY <1>2 DEF Run, End
    <3> QED
      BY <3>1, ProgramsNoRevoked DEF Unrevoked
  <2> QED
    BY <2>1, <2>2, StaysOff DEF Clear
<1>3. CASE Dial
  <2> DEFINE e == Meets(call, wire, server)
  <2>1. call' = call /\ err' = e /\ told' = Told(e, settings, call) /\ call.plugin \notin Programs
    BY <1>3 DEF Dial, End
  <2>2. LeavesOpen(Told(e, settings, call), call)
    BY <1>0, <2>1, ToldLeaves
  <2>3. "revoked" \in e => Revoked(e)
    BY <1>0, MeetsRevoked
  <2> HIDE DEF e
  <2> QED
    BY <1>0, <2>1, <2>2, <2>3, RevokedTold DEF Clear
<1>4. CASE Login
  <2> DEFINE e == Answered(Answers(settings, call, server))
  <2>1. call' = call /\ err' = e /\ told' = Told(e, settings, call) /\ call.plugin \notin Programs
    <3>1. call.plugin \notin Programs
      BY <1>4 DEF Login, CallInv, Underway
    <3>2. pc' # "told" \/ (err' = e /\ told' = Told(e, settings, call))
      BY <1>4, OnwardIsOnward DEF Login, End
    <3> QED
      BY <1>4, <3>1, <3>2 DEF Login
  <2>2. LeavesOpen(Told(e, settings, call), call)
    BY <1>0, <2>1, ToldLeaves
  <2>3. "revoked" \notin e
    BY <1>0, <2>1, AnswersNoRevoked DEF Answered
  <2> HIDE DEF e
  <2> QED
    BY <2>1, <2>2, <2>3 DEF Clear
<1>5. CASE Read
  <2> DEFINE first == Answered(KeycloakAnswers(server))
             e == IF "401 token" \in first THEN KeycloakPage(first, TRUE) ELSE first
  <2>1. call' = call /\ err' = e /\ told' = Told(e, settings, call)
    BY <1>5, OnwardIsOnward DEF Read, End
  <2>2. call.plugin \notin Programs
    BY <1>5 DEF Read, CallInv, Underway
  <2>3. LeavesOpen(Told(e, settings, call), call)
    BY <1>0, <2>2, ToldLeaves
  <2>4. "revoked" \notin e
    BY <1>0, <2>2, AnswersNoRevoked DEF Answered, KeycloakPage
  <2> HIDE DEF e
  <2> QED
    BY <2>1, <2>3, <2>4 DEF Clear
<1>6. CASE Tool
  <2> DEFINE w == ToolWire(settings, call)
             e == IF ToolMeets(w) # {} THEN ToolMeets(w) ELSE Answers(settings, call, server)
  <2>1. call' = call /\ err' = e /\ e # {} /\ told' = ToolTold(e, settings, call) /\ pc = "tool"
    BY <1>6 DEF Tool, End
  <2>2. call.plugin \notin Programs /\ call.dump
    BY <2>1 DEF CallInv, Underway
  <2>3. LeavesOpen(ToolTold(e, settings, call), call)
    BY <1>0, <2>2, ToldLeaves
  <2>4. "revoked" \in e => ToolTold(e, settings, call).advice = {}
    BY <2>1, ToolNoRevoked
  <2> HIDE DEF w, e
  <2> QED
    BY <2>1, <2>3, <2>4 DEF Clear
<1>7. CASE EtcdComesUp
  BY <1>7 DEF EtcdComesUp
<1>8. CASE EtcdToken
  <2> DEFINE e == Answered(EtcdAnswers(settings, server))
  <2>1. call' = call /\ err' = e /\ told' = EtcdTold(e, settings, call.route) /\ call.plugin = "etcd"
    BY <1>8 DEF EtcdToken, End, CallInv, OfEtcd
  <2>2. LeavesOpen(EtcdTold(e, settings, call.route), call)
    BY <2>1, StaysOff, EtcdLeaves
  <2>3. "revoked" \notin e
    BY DEF Answered, EtcdAnswers
  <2> HIDE DEF e
  <2> QED
    BY <2>1, <2>2, <2>3 DEF Clear
<1>9. CASE EtcdTokenFails
  BY <1>9 DEF EtcdTokenFails
<1>10. CASE EtcdStaysUp
  BY <1>10 DEF EtcdStaysUp
<1>11. CASE EtcdFails
  <2>1. call' = call /\ told' = TimedOut
    BY <1>11 DEF EtcdFails, End, EtcdNoConnection
  <2> QED
    BY <2>1, LeavesDialled DEF Clear, TimedOut, Refusal
<1>12. CASE EtcdSaysWhy
  <2> DEFINE hand == ByHand
  <2>1. call' = call /\ call.plugin = "etcd"
    BY <1>12 DEF EtcdSaysWhy, CallInv, OfEtcd
  <2>2. Clear(EtcdTold(hand, settings, call.route), hand, call)
    BY <1>0, <2>1, ByHandClear
  <2>3. \A e : Clear(TimedOut, e, call)
    BY LeavesDialled DEF Clear, TimedOut, Refusal
  <2>4. told' = TimedOut \/ (err' = hand /\ told' = EtcdTold(hand, settings, call.route))
    BY <1>12 DEF EtcdSaysWhy, End, EtcdNoConnection
  <2> HIDE DEF hand
  <2> QED
    BY <2>1, <2>2, <2>3, <2>4
<1>13. CASE EtcdSaysNothing
  <2>1. call' = call /\ told' = TimedOut
    BY <1>13 DEF EtcdSaysNothing, End, EtcdTold
  <2> QED
    BY <2>1, LeavesDialled DEF Clear, TimedOut, Refusal
<1>14. CASE EtcdSettles
  <2>1. call' = call /\ call.plugin = "etcd"
    BY <1>14 DEF EtcdSettles, CallInv, OfEtcd
  <2>2. \/ err' = {"protocol"} /\ told' = EtcdWrongPort(settings, call.route)
        \/ err' = {"deadline", "timeout"} /\ told' = TimedOut
    BY <1>14 DEF EtcdSettles, End, EtcdNoConnection
  <2>3. LeavesOpen(EtcdWrongPort(settings, call.route), call) /\ LeavesOpen(TimedOut, call)
    BY StaysOff, EtcdLeaves, LeavesDialled
  <2>4. "revoked" \notin err'
    BY <2>2
  <2> QED
    BY <2>1, <2>2, <2>3, <2>4 DEF Clear
<1>15. CASE ServerChanges
  BY <1>15 DEF ServerChanges
<1>16. CASE Follow
  BY <1>16 DEF Follow
<1>17. CASE UNCHANGED vars
  BY <1>17 DEF vars, ClearInv
<1> QED
  BY <1>1, <1>2, <1>3, <1>4, <1>5, <1>6, <1>7, <1>8, <1>9, <1>10, <1>11, <1>12, <1>13, <1>14, <1>15, <1>16, <1>17 DEF Next, Step

\* AdviceKeepsClear: whatever the settings, the servers and the changes of them, no refusal sends
\* its reader round a certificate that was revoked, nor to what closes the forward the call came
\* through (each plugin's classify, checkTransport and connect).
THEOREM AdviceIsNoWayRound == Spec => []AdviceKeepsClear
<1>1. Init => ClearInv
  BY DEF Init, ClearInv
<1>2. ClearInv => AdviceKeepsClear
  BY DEF ClearInv, Clear, LeavesOpen, StaysOn, AdviceKeepsClear, Astray
<1> QED
  BY <1>1, <1>2, CallInit, CallStep, HonestInit, HonestStep, ClearStep, PTL DEF Spec

=============================================================================
