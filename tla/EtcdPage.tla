------------------------------ MODULE EtcdPage ------------------------------
(***************************************************************************)
(* etcd.overview: an endpoint's status, the member list it holds, and each *)
(* other member's own status, asked of all together and waited for         *)
(* memberTimeout.                                                          *)
(*                                                                         *)
(* A cluster is a record: its members in the order of the list, what each  *)
(* says of itself (the leader it believes in, its term, how far its log    *)
(* and its applied entries are, its errors), which of them answer, which   *)
(* learn, which have started, which advertise https://, and how the call   *)
(* reaches it.  Its database and its quota are the endpoint's.             *)
(***************************************************************************)
EXTENDS Findings, FiniteSets

CONSTANTS
  Endpoint,          \* the member the call reaches
  NoLeader,          \* what a member with no leader believes in
  NoAnswer,          \* in place of a status that was not read
  catchUpEntries     \* the entries a leader keeps behind a snapshot

ASSUME CatchUpAssumption == catchUpEntries \in Nat \ {0}

---------------------------------------------------------------------------
(* members.go *)

\* whyNotAsked: through a forward, or with a token over plaintext, no other member is.
OthersAsked(route) == ~route.tunnel /\ (route.user => route.tls)

\* askMembers: the members asked for their own status, which are not the endpoint, whose
\* status is in hand, nor one with no client URL yet, nor one a token would reach in the
\* clear (tokenSafeAt).
Asked(cluster) ==
  {m \in (ToSet(cluster.members) \cap cluster.started) \ {Endpoint} :
     OthersAsked(cluster.route) /\ (cluster.route.user => m \in cluster.https)}

\* onlySelf: a learner is not served the member list, and its page is its own row.
Listing(cluster) ==
  IF Endpoint \in cluster.learners THEN [cluster EXCEPT !.members = <<Endpoint>>] ELSE cluster

\* A member's row: what the list says of it and what it said of itself.
Row(m, list, said) ==
  [id |-> m, st |-> said[m], learner |-> m \in list.learners, started |-> m \in list.started,
   notAsked |-> m \in list.started \ (Asked(list) \cup {Endpoint})]

Rows(list, said) == [i \in DOMAIN list.members |-> Row(list.members[i], list, said)]

\* behind: floored at zero, since the members are not asked at one instant.
Behind(row, lead) ==
  IF row.st = NoAnswer \/ lead.st = NoAnswer \/ row.id = lead.id \/ row.st.index >= lead.st.index
  THEN 0 ELSE lead.st.index - row.st.index

\* unapplied: an applied index of zero is a server that does not report one.
Unapplied(st) == IF st.applied = 0 \/ st.applied >= st.index THEN 0 ELSE st.index - st.applied

\* memberVerdict: the first of these that a member is.
MemberVerdict(row, lead) ==
  CASE row.st = NoAnswer /\ row.notAsked                                -> "info"
    [] row.st = NoAnswer /\ ~row.notAsked /\ ~row.started               -> "unstarted"
    [] row.st = NoAnswer /\ ~row.notAsked /\ row.started                -> "unreachable"
    [] OTHER ->
  CASE row.st.leader = NoLeader                                         -> "no leader"
    [] row.st.errors # {}                                               -> "errors"
    [] lead.id # NoLeader /\ row.st.leader # lead.id                    -> "disagrees"
    [] lead.st # NoAnswer /\ row.id # lead.id /\ row.st.term # lead.st.term -> "term"
    [] Behind(row, lead) >= catchUpEntries                              -> "behind"
    [] Unapplied(row.st) >= catchUpEntries                              -> "unapplied"
    [] OTHER                                                            -> "ok"

\* quorumCount: the voters, and those that answered with a leader.  It is not said where
\* some voter was not asked, or there is none.
QuorumCount(rows) ==
  LET voters == {i \in DOMAIN rows : ~rows[i].learner} IN
  [said     |-> voters # {} /\ \A i \in voters : ~rows[i].notAsked,
   voters   |-> Cardinality(voters),
   answered |-> Cardinality({i \in voters : rows[i].st # NoAnswer /\ rows[i].st.leader # NoLeader})]

\* quorumText: "answered" is a fact of the route from here, so what decides whether the
\* cluster takes writes is the endpoint's own leader.
QuorumText(rows, leader) ==
  LET count == QuorumCount(rows)
      need == count.voters \div 2 + 1
  IN  CASE ~count.said                                      -> "not counted"
        [] count.said /\ count.voters = 1                   -> "single"
        [] count.said /\ count.answered < need /\ leader # NoLeader -> "serving"
        [] count.said /\ count.answered < need /\ leader = NoLeader -> "refusing"
        [] count.said /\ count.answered = need              -> "one more"
        [] OTHER                                            -> "spare"

---------------------------------------------------------------------------
(* cluster.go *)

\* leaderOf: the leader the endpoint names, with its status where it was read.
LeaderOf(st, rows) ==
  LET found == {rows[i].st : i \in {j \in DOMAIN rows : rows[j].id = st.leader}} IN
  [id |-> st.leader, st |-> IF found = {} THEN NoAnswer ELSE CHOOSE s \in found : TRUE]

\* quorumRow: a member that is neither ok nor unasked is a warning.
MembersFound(rows, lead) ==
  IF Len(rows) = 1 /\ rows[1].learner THEN <<>>
  ELSE FlattenSeq([i \in DOMAIN rows |->
    LET state == MemberVerdict(rows[i], lead) IN
    FoundIf(state \notin {"ok", "info"}, Warn, "member " \o state)])

\* storageRow: the quota is checked against the file, and a quota of zero was not reported.
StorageFound(st) ==
  LET share == UsageShare(st.size, st.quota) IN
  IF share >= 1000 THEN Finding(Fail, "storage full")
  ELSE FoundIf(share >= UsageWarn, Warn, "storage near")

\* Mutant: a member list that could not be read leaves the page as though it were alone.
EtcdFoundAlone(st, list, said, listUnread) ==
  LET rows == IF listUnread THEN <<>> ELSE Rows(list, said) IN
    FoundIf(st.errors \ {"no leader"} # {}, Fail, "alarm")
      \o FoundIf(st.leader = NoLeader, Fail, "no leader")
      \o MembersFound(rows, LeaderOf(st, rows)) \o StorageFound(st)

\* compactOverview: what stops a write, then the leader, then the members, then the room
\* left; and a member list that was not read is a finding in the place of the members'.
EtcdFound(st, list, said, listUnread) ==
  LET rows == IF listUnread THEN <<>> ELSE Rows(list, said) IN
    FoundIf(st.errors \ {"no leader"} # {}, Fail, "alarm")
      \o FoundIf(st.leader = NoLeader, Fail, "no leader")
      \o (IF listUnread THEN Finding(Warn, "quorum unread") ELSE MembersFound(rows, LeaderOf(st, rows)))
      \o StorageFound(st)

\* runOverview: the status, the list, and each member asked by what the list says of it.  A
\* learner is served no list, and is the only row of its page (onlySelf).
EtcdDue(done, got, of) ==
  LET status == <<"status", "-">>
      list == <<"members", "-">>
  IN  IF status \notin done THEN {status}
      ELSE IF list \notin done THEN {list}
      ELSE IF list \in got THEN {<<"member", m>> : m \in Asked(Listing(of[list]))} \ done
      ELSE {}

\* A member asked that does not answer by memberTimeout has no status.
EtcdPageFound(got, of) ==
  LET list == <<"members", "-">>
      st == of[<<"status", "-">>].says[Endpoint]
      said(m) == IF m = Endpoint THEN st
                 ELSE IF <<"member", m>> \in got /\ m \in of[<<"member", m>>].up
                      THEN of[<<"member", m>>].says[m] ELSE NoAnswer
      listed == Listing(of[list])
      answers == [m \in ToSet(listed.members) |-> said(m)]
  IN  EtcdFound(st, listed, answers, list \notin got)
        \o (IF list \in got THEN Finding(Fine, QuorumText(Rows(listed, answers), st.leader)) ELSE <<>>)

---------------------------------------------------------------------------
(* What is the case, whatever the page makes of it. *)

\* What may be wrong with a cluster, as far as a call of its route may learn.
EtcdTrouble(cluster, what) ==
  LET self == cluster.says[Endpoint]
      asked == Asked(cluster)
      answering == (asked \cap cluster.up) \cup {Endpoint}
      entries(m) == cluster.says[m].index
  IN  CASE what = "alarm"               -> self.errors \ {"no leader"} # {}
        [] what = "no leader"           -> self.leader = NoLeader
        [] what = "storage full"        -> self.quota > 0 /\ self.size >= self.quota
        [] what = "storage near"        -> UsageShare(self.size, self.quota) >= UsageWarn
        [] what = "member unreachable"  -> ~(asked \subseteq cluster.up)
        [] what = "member unstarted"    -> ~(ToSet(cluster.members) \subseteq cluster.started)
        [] what = "member no leader"    -> \E m \in answering : cluster.says[m].leader = NoLeader
        [] what = "member errors"       -> \E m \in answering : cluster.says[m].errors # {}
        [] what = "member disagrees"    -> \E m \in answering : cluster.says[m].leader # self.leader
        [] what = "member term"         -> \E m, n \in answering : cluster.says[m].term # cluster.says[n].term
        [] what = "member behind"       -> self.leader \in answering /\ \E m \in answering :
                                             entries(self.leader) - entries(m) >= catchUpEntries
        [] what = "member unapplied"    -> \E m \in answering : cluster.says[m].applied # 0 /\
                                             entries(m) - cluster.says[m].applied >= catchUpEntries

\* What a write needs is a majority of the voters with a leader, and what is counted is those
\* a call of this route can see.
EtcdQuorum(cluster, what) ==
  LET listed == Listing(cluster)
      voters == ToSet(listed.members) \ cluster.learners
      seen == {m \in voters \cap ((Asked(listed) \cap cluster.up) \cup {Endpoint}) : cluster.says[m].leader # NoLeader}
      majority(set) == 2 * Cardinality(set) > Cardinality(voters)
      led == cluster.says[Endpoint].leader # NoLeader
  IN  CASE what = "single"   -> Cardinality(voters) = 1
        [] what = "serving"  -> led
        [] what = "refusing" -> ~led
        [] what = "one more" -> majority(seen) /\ \A m \in seen : ~majority(seen \ {m})
        [] what = "spare"    -> \A m \in seen : majority(seen \ {m})
EtcdClaims == {"single", "serving", "refusing", "one more", "spare"}

EtcdFatal == {"alarm", "no leader", "storage full"}
\* What relates two members is read of each at a moment of its own.
EtcdRelational == {"member disagrees", "member term", "member behind"} \cup EtcdClaims
EtcdTroubles == EtcdFatal \cup (EtcdRelational \ EtcdClaims)
  \cup {"storage near", "member unreachable", "member unstarted", "member no leader", "member errors", "member unapplied"}

=============================================================================
