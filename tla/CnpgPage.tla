------------------------------ MODULE CnpgPage ------------------------------
(***************************************************************************)
(* cnpg.list, cnpg.storage and cnpg.backup.show: what the operator's       *)
(* resources say of its clusters, each namespace asked with a call of its  *)
(* own, and of one cluster's backups, where what takes them decides which  *)
(* of the records means anything.                                          *)
(*                                                                         *)
(* A server is the resources of each namespace: its clusters, their        *)
(* volumes, the Backup objects, the schedules and the ObjectStores, and    *)
(* whether the API server answers at all (up).  Instants are numbers, 0    *)
(* for none; a certificate is the days it has left, or Unreadable.         *)
(***************************************************************************)
EXTENDS Findings, FiniteSets, FiniteSetsExt

CONSTANTS Namespaces,     \* asked for, each with its own call
          certWarnDays,
          BackupNames     \* of the Backup objects

Unreadable == -1000
BackupMethods == {"barmanObjectStore", "volumeSnapshot", "plugin"}

---------------------------------------------------------------------------
(* cluster.go and settings.go *)

\* healthy: short of the spec, or of what the status counts where the spec has no number.
Desired(c) == IF c.instances = 0 THEN c.running ELSE c.instances
Healthy(c) == Desired(c) > 0 /\ c.ready >= Desired(c)

SwitchingOver(c) == c.target # "" /\ c.primary # "" /\ c.target # c.primary
SingleNode(c) == c.nodes = 1 /\ c.ready > 1
Diverged(c) == {i \in DOMAIN c.timelines : c.timeline # 0 /\ c.timelines[i] \notin {0, c.timeline}}

\* backupConfigured, configuredMethods and statusIsTheRecord: the record the resource keeps
\* is of the mechanisms the operator runs itself.
BackupConfigured(c) == c.stanza \/ "plugin" \in c.takes
StatusIsTheRecord(c) == "plugin" \notin c.takes

ArchivingFailing(c) == c.conditions["ContinuousArchiving"] = "False"

---------------------------------------------------------------------------
(* main.go: problemTable, verdict and backupCell *)

BackupFound(c) ==
  LET ever == c.success # 0
      failedSince == c.failed > c.success
  IN  CASE ~ever /\ ~BackupConfigured(c)                     -> Finding(Warn, "no backup set up")
        [] ~ever /\ ~StatusIsTheRecord(c)                    -> Finding(Fine, "backup not recorded")
        [] ~ever                                             -> Finding(Warn, "no backup taken")
        [] ever /\ failedSince /\ ~StatusIsTheRecord(c)      -> Finding(Fine, "backup not recorded")
        [] ever /\ failedSince                               -> Finding(Warn, "backup failed")
        [] OTHER                                             -> <<>>

CertificateFound(c) ==
  LET left == c.certificates \ {Unreadable}
      soonest == Min(left)
  IN  FoundIf(Unreadable \in c.certificates, Warn, "certificate unreadable")
        \o (IF left = {} THEN <<>>
            ELSE IF soonest <= 0 THEN Finding(Fail, "certificate expired")
            ELSE FoundIf(soonest < certWarnDays, Warn, "certificate near"))

\* problemTable; every condition that is not satisfied is a row, whatever it is.
ProblemTable(c) ==
  (IF c.primary = "" THEN Finding(Fail, "no primary") ELSE FoundIf(c.failing, Fail, "primary failing"))
    \o FoundIf(SwitchingOver(c), Warn, "switchover")
    \o FoundIf(~Healthy(c), Warn, "instances")
    \o FoundIf(SingleNode(c), Warn, "topology")
    \o FoundIf(Diverged(c) # {}, Fail, "timeline")
    \o FoundIf(c.archive = "off" /\ BackupConfigured(c), Warn, "archiving off")
    \o BackupFound(c) \o CertificateFound(c)
    \o FoundIf(c.volumes = "stuck", Warn, "volumes")
    \o FoundIf(\E k \in DOMAIN c.conditions : c.conditions[k] \in {"False", "Unknown"}, Warn, "condition")

\* backupCell, as a claim of the list.
BackupCell(c) ==
  CASE ArchivingFailing(c)                       -> "failing"
    [] c.success = 0 /\ ~BackupConfigured(c)     -> "none"
    [] ~StatusIsTheRecord(c)                     -> "not recorded"
    [] c.success = 0                             -> "never"
    [] c.failed > c.success                      -> "failing"
    [] OTHER                                     -> "age"

---------------------------------------------------------------------------
(* namespaces.go: one call for each namespace *)

\* readEach: once a call fails for a reason that is the connection's, those still waiting
\* are answered with it.
Halted(done, got, of) == \E read \in done \ got : ~of[read].up

ClustersDue(done, got, of) ==
  LET reads == {<<"clusters", n>> : n \in Namespaces} IN
  IF Halted(done, got, of) THEN {} ELSE reads \ done

\* settle: an error where nothing answered, if any of them was the connection.
ClustersFails(done, got, of) == got = {} /\ (Cardinality(Namespaces) = 1 \/ Halted(done, got, of))

\* runList: the clusters of the namespaces that answered and a row for each that did not.
ClustersFound(got, of) ==
  FlattenSeq(SetToSeq({FlattenSeq([i \in DOMAIN of[read].clusters[read[2]] |->
                                     ProblemTable(of[read].clusters[read[2]][i])]) : read \in got}))
    \o FoundIf(\E n \in Namespaces : <<"clusters", n>> \notin got, Fail, "namespace unread")

\* storage.go: bound, short and status of a volume, its sizes in bytes, and storageProblems.
VolumeFound(v) ==
  IF v.phase # "bound" THEN Finding(Fail, "volume unbound") ELSE FoundIf(v.got < v.asked, Warn, "volume short")

VolumesFound(got, of) ==
  FoundIf(\E n \in Namespaces : <<"clusters", n>> \notin got, Fail, "namespace unread")
    \o FlattenSeq(SetToSeq({FlattenSeq([i \in DOMAIN of[read].volumes[read[2]] |->
                                        VolumeFound(of[read].volumes[read[2]][i])]) : read \in got}))

---------------------------------------------------------------------------
(* backupshow.go: one cluster's backups *)

\* runBackupShow: the cluster, then what it names and what names it.
ShowAsks(got, of) ==
  LET cluster == <<"cluster", "-">> IN
  IF cluster \notin got THEN <<"cluster">>
  ELSE <<"cluster">> \o (IF of[cluster].one.store # "" THEN <<"store">> ELSE <<>>) \o <<"backups", "schedules">>

ShowDue(done, got, of) ==
  LET left == SelectSeq(ShowAsks(got, of), LAMBDA read : <<read, "-">> \notin done) IN
  IF left = <<>> \/ <<"cluster", "-">> \in done \ got THEN {} ELSE {<<Head(left), "-">>}

\* showPage.failed: a credential the API server did not accept ends the call, whichever of
\* the reads met it.
ShowFails(done, got, of) ==
  <<"cluster", "-">> \in done \ got \/ \E read \in done \ got : ~of[read].login

\* backupsFor and latest: the newest that completed, of those naming this cluster.
Latest(backups) ==
  LET mine == {b \in backups : b.of = "this"}
      finished == {b \in mine : b.phase = "completed"}
  IN  IF mine = {} THEN "no backup names it"
      ELSE IF finished = {} THEN "none finished"
      ELSE LET newest == CHOOSE b \in finished : \A a \in finished : a.created <= b.created IN newest.name

\* recovery: from the store's status for a plugin, else from the cluster's own record.
RecoveryFound(c, got, of) ==
  LET store == <<"store", "-">> IN
  IF c.store # "" THEN
    IF store \in got /\ of[store].stores[c.store].there
    THEN FoundIf(c.server \notin of[store].stores[c.store].windows, Fine, "no window")
    ELSE <<>>
  ELSE FoundIf(c.stanza /\ c.success = 0 /\ c.failed = 0, Fine, "no record")

\* runBackupShow: an absent store is an answer, and a read that failed is a gap.
ShowFound(got, of) ==
  LET c == of[<<"cluster", "-">>].one
      has(read) == <<read, "-">> \in got
      asks(read) == \E i \in DOMAIN ShowAsks(got, of) : ShowAsks(got, of)[i] = read
      unread(read) == FoundIf(asks(read) /\ ~has(read), Warn, read \o " unread")
      mine == IF has("schedules") THEN {b \in of[<<"schedules", "-">>].schedules : b.of = "this"} ELSE {}
  IN  FoundIf(c.takes = {}, Fine, "nothing takes it")
        \o unread("store")
        \o FoundIf(has("store") /\ ~of[<<"store", "-">>].stores[c.store].there, Fine, "no store")
        \o RecoveryFound(c, got, of)
        \o (IF has("backups") THEN Finding(Fine, Latest(of[<<"backups", "-">>].backups)) ELSE unread("backups"))
        \o unread("schedules")
        \o FoundIf(has("schedules") /\ mine = {}, Fine, "no schedule")
        \o FoundIf(\E b \in mine : b.error, Fail, "schedule failing")
        \o FoundIf(\E b \in mine : ~b.error /\ b.suspended, Warn, "schedule suspended")
        \o FoundIf(c.conditions["ContinuousArchiving"] = "False", Fail, "archiving failing")
        \o FoundIf(c.conditions["ContinuousArchiving"] = "Unknown", Warn, "archiving unknown")

---------------------------------------------------------------------------
(* What is the case, whatever the page makes of it. *)

\* Whether a backup of the cluster may have been taken that its resource says nothing of.
Elsewhere(c) == "plugin" \in c.takes

ClustersTrouble(s, what) ==
  LET cluster(bad(_)) == \E n \in Namespaces : \E i \in DOMAIN s.clusters[n] : bad(s.clusters[n][i])
      setUp(c) == c.takes # {} \/ c.stanza
  IN  CASE what = "no primary"             -> cluster(LAMBDA c : c.primary = "")
        [] what = "primary failing"        -> cluster(LAMBDA c : c.failing /\ c.primary # "")
        [] what = "switchover"             -> cluster(LAMBDA c : "" \notin {c.primary, c.target} /\ c.primary # c.target)
        [] what = "instances"              -> cluster(LAMBDA c : c.ready < Max({1, Desired(c)}))
        [] what = "topology"               -> cluster(LAMBDA c : c.nodes = 1 /\ c.ready > 1)
        [] what = "timeline"               -> cluster(LAMBDA c : \E i \in DOMAIN c.timelines :
                                                                  0 \notin {c.timelines[i], c.timeline} /\ c.timelines[i] # c.timeline)
        [] what = "archiving off"          -> cluster(LAMBDA c : c.archive = "off" /\ setUp(c))
        [] what = "no backup set up"       -> cluster(LAMBDA c : c.success = 0 /\ ~setUp(c))
        [] what = "no backup taken"        -> cluster(LAMBDA c : c.success = 0 /\ setUp(c) /\ ~Elsewhere(c))
        [] what = "backup failed"          -> cluster(LAMBDA c : c.failed > c.success /\ c.success # 0 /\ ~Elsewhere(c))
        [] what = "backup not recorded"    -> cluster(LAMBDA c : Elsewhere(c) /\ (c.success = 0 \/ c.failed > c.success))
        [] what = "certificate unreadable" -> cluster(LAMBDA c : Unreadable \in c.certificates)
        [] what = "certificate expired"    -> cluster(LAMBDA c : \E d \in c.certificates : d <= 0 /\ d # Unreadable)
        [] what = "certificate near"       -> cluster(LAMBDA c : \E d \in c.certificates : 0 < d /\ d < certWarnDays)
        [] what = "volumes"                -> cluster(LAMBDA c : c.volumes = "stuck")
        [] what = "condition"              -> cluster(LAMBDA c : \E k \in DOMAIN c.conditions : c.conditions[k] \in {"False", "Unknown"})

VolumesTrouble(s, what) ==
  \E n \in Namespaces : \E i \in DOMAIN s.volumes[n] :
    LET v == s.volumes[n][i] IN
    IF what = "volume unbound" THEN v.phase # "bound" ELSE v.phase = "bound" /\ v.got < v.asked
VolumesFatal == {"volume unbound"}
VolumesTroubles == {"volume unbound", "volume short"}

ClustersFatal == {"no primary", "primary failing", "timeline", "certificate expired"}
ClustersTroubles == ClustersFatal \cup {"switchover", "instances", "topology", "archiving off", "no backup set up",
                     "no backup taken", "backup failed", "certificate unreadable", "certificate near", "volumes", "condition"}
ClustersClaims == {"backup not recorded"}

ShowTrouble(s, what) ==
  LET mine(of) == {b \in of : b.of = "this"} IN
  CASE what = "schedule failing"   -> \E b \in mine(s.schedules) : b.error
    [] what = "schedule suspended" -> \E b \in mine(s.schedules) : b.suspended
    [] what = "archiving failing"  -> s.one.conditions["ContinuousArchiving"] = "False"
    [] what = "archiving unknown"  -> s.one.conditions["ContinuousArchiving"] = "Unknown"
    [] what = "nothing takes it"   -> s.one.takes = {}
    [] what = "no store"           -> s.one.store # "" /\ ~s.stores[s.one.store].there
    [] what = "no window"          -> s.one.store # "" /\ s.one.server \notin s.stores[s.one.store].windows
    [] what = "no record"          -> s.one.success = 0 /\ s.one.failed = 0
    [] what = "no backup names it" -> mine(s.backups) = {}
    [] what = "none finished"      -> \A b \in mine(s.backups) : b.phase # "completed"
    [] what = "no schedule"        -> mine(s.schedules) = {}
    [] OTHER                       -> \E b \in mine(s.backups) : /\ b.name = what /\ b.phase = "completed"
                                                                 /\ \A a \in mine(s.backups) :
                                                                      a.phase = "completed" => a.created <= b.created

ShowFatal == {"schedule failing", "archiving failing"}
ShowTroubles == ShowFatal \cup {"schedule suspended", "archiving unknown"}
ShowClaims == BackupNames \cup {"nothing takes it", "no store", "no window", "no record",
                                "no backup names it", "none finished", "no schedule"}
\* A window is looked for under the name the cluster had when it was read.
ShowRelational == {"no window"}

=============================================================================
