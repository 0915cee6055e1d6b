------------------------------- MODULE PgPage -------------------------------
(***************************************************************************)
(* pg.overview: the database, the replication, the sessions, the archiver  *)
(* and the cache, each read on its own over one connection, and            *)
(* replication graded standby by standby and slot by slot.                 *)
(*                                                                         *)
(* A server is a record: its role, the sessions it has and may have, what  *)
(* its standbys and its slots are, the receiver and the replay of a        *)
(* standby and the gap between them, what a commit waits for, the          *)
(* archiver's last success and last failure, and whether the role may see  *)
(* the others' rows (monitor).                                             *)
(* Distances and lags are in units of which behindWarn make a warning.     *)
(***************************************************************************)
EXTENDS Findings, FiniteSets, FiniteSetsExt

CONSTANTS behindWarn, behindFail,   \* a standby's distance behind, and what a slot retains
          lagWarn, lagFail,         \* a standby's lag
          connectionsWarn, connectionsFail

ASSUME BandsAssumption ==
  behindWarn <= behindFail /\ lagWarn <= lagFail /\ connectionsWarn <= connectionsFail

Unknown == -1

---------------------------------------------------------------------------
(* The reads *)

\* readReplication, readPosition, readUpstream: what a primary or a standby is asked next;
\* the first that fails ends the replication's reading.
ReplicationAsks(got, of) ==
  LET server == <<"server", "-">> IN
  IF server \notin got THEN <<"server">>
  ELSE IF ~of[server].recent THEN <<"server">>
  ELSE <<"server", "position">> \o (IF of[server].standby THEN <<"receiver">> ELSE <<>>) \o <<"standbys", "slots">>

PgAsks(done, got, of) ==
  LET failed == {i \in DOMAIN ReplicationAsks(got, of) : <<ReplicationAsks(got, of)[i], "-">> \in done \ got}
      replication == IF failed = {} THEN ReplicationAsks(got, of) ELSE SubSeq(ReplicationAsks(got, of), 1, Min(failed))
  IN  <<"database">> \o replication \o <<"sessions", "archiver", "cache">>

PgDue(done, got, of) ==
  LET left == SelectSeq(PgAsks(done, got, of), LAMBDA read : <<read, "-">> \notin done) IN
  IF left = <<>> THEN {} ELSE {<<Head(left), "-">>}

\* compactOverview: a page of which nothing could be read.
PgFails(done, got, of) ==
  /\ PgDue(done, got, of) = {}
  /\ \A read \in {"database", "server", "sessions", "archiver", "cache"} : <<read, "-">> \notin got

\* The facts a reading made, each of the moment it was read.
Replication(got, of) ==
  LET s == of[<<"server", "-">>] IN
  [standby |-> s.standby, sync |-> s.sync,
   receiver |-> IF s.standby THEN of[<<"receiver", "-">>].receiver ELSE [state |-> "none"],
   monitor  |-> of[<<"standbys", "-">>].monitor,
   paused   |-> s.standby /\ of[<<"position", "-">>].paused,
   gap      |-> IF s.standby THEN of[<<"position", "-">>].gap ELSE Unknown,
   standbys |-> of[<<"standbys", "-">>].standbys, slots |-> of[<<"slots", "-">>].slots]

ReplicationRead(got, of) ==
  \A read \in ToSet(ReplicationAsks(got, of)) : <<read, "-">> \in got

---------------------------------------------------------------------------
(* replication_grade.go *)

\* worse: one row is the worst of what several rules say of it.
Worst(grades) == Max(grades \cup {Fine})

\* gradeBytes and gradeLag: nothing is said of a distance that is not measured.
GradeBytes(n) == IF n = Unknown THEN Fine ELSE IF n >= behindFail THEN Fail ELSE IF n >= behindWarn THEN Warn ELSE Fine
GradeLag(lags) ==
  LET longest == Max(lags \cup {0}) IN
  IF longest >= lagFail THEN Fail ELSE IF longest >= lagWarn THEN Warn ELSE Fine

\* gradeStandby: hidden, it is unknown; taking a base backup, its distance is not judged.
GradeStandby(b, monitor) ==
  IF ~monitor THEN Fine
  ELSE Worst({IF b.state \in {"streaming", "backup"} THEN Fine ELSE Warn}
             \cup (IF b.state = "backup" THEN {} ELSE {GradeBytes(b.behind), GradeLag(b.lags)}))

\* gradeSlot: a slot given up on is judged once; else by how near that is, whether anything
\* reads it, and what it keeps.
GradeSlot(slot) ==
  IF slot.invalid \/ slot.wal = "lost" THEN Fail
  ELSE Worst({CASE slot.wal = "unreserved" -> Fail [] slot.wal = "extended" -> Warn [] OTHER -> Fine,
              IF ~slot.active /\ ~slot.temporary THEN Warn ELSE Fine,
              GradeBytes(slot.retained)})

\* readReceiver: a role without pg_monitor sees that there is a receiver, and nothing of it.
Hidden(f) == ~f.monitor /\ f.receiver.state # "none"

\* gradeReceiver: a link the role may not see is unknown, a replay paused is seen by all.  What was
\* received and not replayed stands in for a distance to the upstream that is not known.
GradeReceiver(f) ==
  LET distance == IF f.receiver.state # "none" /\ f.receiver.behind # Unknown THEN f.receiver.behind ELSE f.gap IN
  IF ~f.standby THEN Fine
  ELSE Worst({IF ~Hidden(f) /\ f.receiver.state # "streaming" THEN Warn ELSE Fine,
              IF f.paused THEN Warn ELSE Fine,
              IF Hidden(f) THEN Fine ELSE GradeBytes(distance)})

\* gradeSynchronous: commits wait where fewer standbys are synchronous than the setting
\* asks for; not judged on a standby, with a standby hidden, or where no commit waits.
GradeSynchronous(f) ==
  LET have == Cardinality({i \in DOMAIN f.standbys : f.standbys[i].kind \in {"sync", "quorum"}}) IN
  IF f.standby \/ f.sync.need = 0 \/ f.sync.commit \in {"off", "local"} \/ (f.standbys # <<>> /\ ~f.monitor) THEN Fine
  ELSE IF have < f.sync.need THEN Fail ELSE Fine

\* attentionTable: the worst first, of equals in the order the rows were noted.
Attention(f) ==
  LET rows == [i \in DOMAIN f.standbys |-> [grade |-> GradeStandby(f.standbys[i], f.monitor), what |-> "standby"]]
                \o [i \in DOMAIN f.slots |-> [grade |-> GradeSlot(f.slots[i]), what |-> "slot"]]
                \o <<[grade |-> GradeReceiver(f), what |-> "this standby"],
                     [grade |-> GradeSynchronous(f), what |-> "synchronous commit"]>>
      at(grade) == SelectSeq(rows, LAMBDA row : row.grade = grade)
  IN  at(Fail) \o at(Warn)

\* attentionFinding and hiddenFrom: the worst of the list, and what the role was not shown.
ReplicationFoundPg(got, of) ==
  LET f == Replication(got, of)
      rows == Attention(f)
  IN  (IF rows = <<>> THEN <<>> ELSE <<rows[1]>>)
        \o FoundIf((~f.monitor /\ f.standbys # <<>>) \/ (f.standby /\ Hidden(f)), Warn, "standbys hidden")

---------------------------------------------------------------------------
(* overview_facts.go and overview.go *)

\* share and connectionsFinding: floored, so that a share never reads as the next one up.
SessionsFound(s) ==
  LET share == IF s.max <= 0 THEN 0 ELSE (s.total * 100) \div s.max IN
  IF ~s.monitor THEN Finding(Warn, "sessions unread")
  ELSE IF share >= connectionsFail THEN Finding(Fail, "connections")
  ELSE FoundIf(share >= connectionsWarn, Warn, "connections")

\* failing: the last thing the archiver did was fail; a standby archives only where the
\* mode is always.
Failing(a) == a.failedAt # Unknown /\ (a.lastAt = Unknown \/ a.failedAt > a.lastAt)
Archives(s) == s.archiver.mode # "off" /\ (~s.standby \/ s.archiver.mode = "always")

\* compactOverview: the service's own state first, and a read that failed is a row.
PgFound(got, of) ==
  LET has(read) == <<read, "-">> \in got
      unread(read) == FoundIf(~has(read), Warn, read \o " unread")
  IN  (IF has("sessions") THEN SessionsFound(of[<<"sessions", "-">>]) ELSE Finding(Warn, "sessions unread"))
        \o (IF ~ReplicationRead(got, of) THEN Finding(Warn, "replication unread")
            ELSE IF ~of[<<"server", "-">>].recent THEN Finding(Warn, "replication unread")
            ELSE ReplicationFoundPg(got, of))
        \o unread("database")
        \o (IF ~has("archiver") THEN Finding(Warn, "archiver unread")
            ELSE LET s == of[<<"archiver", "-">>] IN FoundIf(Archives(s) /\ Failing(s.archiver), Fail, "archiving"))
        \o unread("cache")

---------------------------------------------------------------------------
(* What is the case, whatever the page makes of it. *)

\* What may be wrong with a server; a role without pg_monitor is not shown all of it.
PgTrouble(s, what) ==
  LET standby(bad(_)) == s.recent /\ s.monitor /\ \E i \in DOMAIN s.standbys : bad(s.standbys[i])
      slot(bad(_)) == s.recent /\ \E i \in DOMAIN s.slots : bad(s.slots[i])
      late(b) == b.state # "backup" /\ (b.behind >= behindFail \/ \E lag \in b.lags : lag >= lagFail)
      slow(b) == b.state # "backup" /\ (b.behind >= behindWarn \/ \E lag \in b.lags : lag >= lagWarn)
      shown == s.monitor \/ s.receiver.state = "none"
      distances == {s.gap} \cup (IF s.receiver.state = "none" THEN {} ELSE {s.receiver.behind})
      waits == /\ ~s.standby /\ s.sync.commit \notin {"off", "local"} /\ s.sync.need > 0
               /\ s.sync.need > Cardinality({i \in DOMAIN s.standbys : s.standbys[i].kind \in {"sync", "quorum"}})
  IN  CASE what = "standby"            -> standby(LAMBDA b : b.state \notin {"streaming", "backup"} \/ slow(b))
        [] what = "standby late"       -> standby(late)
        [] what = "slot"               -> slot(LAMBDA q : \/ q.invalid \/ q.wal \in {"lost", "unreserved", "extended"}
                                                          \/ ~q.active /\ ~q.temporary
                                                          \/ q.retained >= behindWarn)
        [] what = "slot lost"          -> slot(LAMBDA q : q.invalid \/ q.wal \in {"lost", "unreserved"} \/ q.retained >= behindFail)
        [] what = "this standby"       -> s.recent /\ s.standby /\
             \/ s.paused
             \/ shown /\ (s.receiver.state # "streaming" \/ \E n \in distances : n >= behindWarn)
        [] what = "this standby late"  -> s.recent /\ s.standby /\ shown /\ \E n \in distances : n >= behindFail
        [] what = "synchronous commit" -> s.recent /\ waits /\ (s.monitor \/ s.standbys = <<>>)
        [] what = "connections"        -> s.monitor /\ s.total * 100 >= connectionsWarn * s.max /\ s.max > 0
        [] what = "connections full"   -> s.monitor /\ s.total * 100 >= connectionsFail * s.max /\ s.max > 0
        [] what = "archiving"          -> /\ s.archiver.mode = "always" \/ (s.archiver.mode = "on" /\ ~s.standby)
                                          /\ s.archiver.failedAt > s.archiver.lastAt

\* The worst of the rows is named by what it is about, and so is the less bad of two grades.
PgFatal == {"standby late", "this standby late", "slot lost", "synchronous commit", "connections full", "archiving"}
\* What the server is and what feeds it are two reads.
PgRelational == {"this standby", "this standby late", "synchronous commit"}
PgTroubles == PgFatal \cup PgRelational \cup {"standby", "slot", "connections"}

=============================================================================
