------------------------------- MODULE S3Page -------------------------------
(***************************************************************************)
(* s3.overview: the page of one bucket, which asks it five things one      *)
(* after another, and the page of several, which reads the first page of   *)
(* each one's keys, readsAtOnce at a time.                                 *)
(*                                                                         *)
(* An account is a record: its buckets by name, each whether it is there,  *)
(* how many objects its first page holds, whether there may be more, and   *)
(* when the newest was written; and what the key may not ask.              *)
(***************************************************************************)
EXTENDS Findings, FiniteSets, FiniteSetsExt

CONSTANTS
  Bucket,         \* the bucket a page of one is about
  maxBuckets,     \* the most buckets a page reads
  bucketsAtOnce,  \* how many of them are read at a time (readsAtOnce)
  rowsInATile     \* the rows of the compact page a bucket may have

ASSUME BucketsAssumption == maxBuckets \in Nat \ {0} /\ bucketsAtOnce \in Nat \ {0} /\ rowsInATile \in Nat \ {0, 1}

---------------------------------------------------------------------------
(* overview.go: one bucket *)

\* targetOverview and readHead: the existence check must answer; the account's listing,
\* read for one date, may fail in silence.
BucketAsks == <<"exists", "account", "versioning", "lifecycle", "objects">>

\* A read the key's policy refuses has an answer, and the answer is a row that says so.
May(got, of, read) == <<read, "-">> \in got /\ read \notin of[<<read, "-">>].denied

BucketFails(done, got, of) ==
  <<"exists", "-">> \in done /\ (~May(got, of, "exists") \/ Bucket \notin of[<<"exists", "-">>].there)

\* compactBucket: what the bucket holds, how it keeps versions and for how long.
BucketFound(got, of) ==
  LET unread(read) == FoundIf(~May(got, of, read), Warn, read \o " unread") IN
  unread("objects") \o unread("versioning") \o unread("lifecycle")
    \o (IF May(got, of, "objects") /\ Bucket \in of[<<"objects", "-">>].there
        THEN FoundIf(of[<<"objects", "-">>].holds[Bucket].count = 0, Fine, "empty")
        ELSE <<>>)

---------------------------------------------------------------------------
(* overviewlist.go: several *)

\* scopeOf: the account's buckets, the first by name; one that cannot be listed is no page.
Targets(s) == SubSeq(s.names, 1, Min({Len(s.names), maxBuckets}))

\* eachAtOnce: of those not read yet, the first bucketsAtOnce.
BucketsDue(done, got, of) ==
  LET account == <<"account", "-">>
      left == SelectSeq(Targets(of[account]), LAMBDA b : <<"bucket", b>> \notin done)
  IN  IF account \notin done THEN {account}
      ELSE IF account \notin got THEN {}
      ELSE {<<"bucket", b>> : b \in ToSet(SubSeq(left, 1, Min({Len(left), bucketsAtOnce})))}

\* readBucketPage: what one request says of a bucket; one not there, or not the key's to
\* list, is the bucket's own failure (bucketLevel), and no answer the service's.
BucketRead(got, of, b) ==
  IF <<"bucket", b>> \notin got THEN [why |-> "service", count |-> 0, newest |-> 0]
  ELSE LET s == of[<<"bucket", b>>] IN
       IF b \notin s.there THEN [why |-> "not found", count |-> 0, newest |-> 0]
       ELSE IF b \in s.denied THEN [why |-> "denied", count |-> 0, newest |-> 0]
       ELSE [why |-> "", count |-> s.holds[b].count, newest |-> s.holds[b].newest]

\* serviceFailure: a service that fails every bucket the same way is the error.
BucketsFails(done, got, of) ==
  LET account == <<"account", "-">>
      targets == Targets(of[account])
  IN  \/ account \in done /\ ~May(got, of, "account")
      \/ /\ account \in got /\ targets # <<>> /\ BucketsDue(done, got, of) = {}
         /\ \A i \in DOMAIN targets : BucketRead(got, of, targets[i]).why = "service"

\* sortByStaleness: what could not be read, what is empty, then the one written longest ago.
Before(r, q) ==
  LET rank(x) == IF x.why # "" THEN 0 ELSE IF x.count = 0 THEN 1 ELSE 2 IN
  \/ rank(r) < rank(q)
  \/ rank(r) = rank(q) /\ (r.newest < q.newest \/ (r.newest = q.newest /\ r.at < q.at))

\* compactBuckets: as many rows as a tile holds, and the rest one row that says whether
\* they are all well (foldedRow).
BucketRows(got, of) ==
  LET targets == Targets(of[<<"account", "-">>])
      read(i) == BucketRead(got, of, targets[i])
      rows == [i \in DOMAIN targets |-> [at |-> i, name |-> targets[i], why |-> read(i).why, count |-> read(i).count, newest |-> read(i).newest]]
      sorted == SortSeq(rows, Before)
      shown == IF Len(rows) > rowsInATile THEN rowsInATile - 1 ELSE Len(rows)
  IN  [shown |-> SubSeq(sorted, 1, shown), folded |-> SubSeq(sorted, shown + 1, Len(rows))]

\* listVerdict: the buckets that could not be read, and how many of an account's were.
BucketsFound(got, of) ==
  LET rows == BucketRows(got, of)
      all == rows.shown \o rows.folded
      account == of[<<"account", "-">>]
  IN  FoundIf(\E i \in DOMAIN all : all[i].why = "denied", Warn, "bucket denied")
        \o FoundIf(\E i \in DOMAIN all : all[i].why \in {"not found", "service"}, Warn, "bucket unread")
        \o FoundIf(Len(account.names) > maxBuckets, Fine, "buckets cut")
        \o FoundIf(\E i \in DOMAIN rows.shown : rows.shown[i].why = "" /\ rows.shown[i].count = 0, Fine, "a bucket is empty")
        \o FoundIf(rows.folded # <<>> /\ \A i \in DOMAIN rows.folded : rows.folded[i].why = "", Fine, "the rest ok")

---------------------------------------------------------------------------
(* What is the case, whatever the page makes of it. *)

BucketTrouble(s, what) ==
  CASE what = "versioning unread" -> "versioning" \in s.denied
    [] what = "lifecycle unread"  -> "lifecycle" \in s.denied
    [] what = "objects unread"    -> "objects" \in s.denied
    [] what = "empty"             -> Bucket \in s.there /\ s.holds[Bucket].count = 0

\* A bucket that holds nothing is never among the rest of a page that has room for it.
BucketsTrouble(s, what) ==
  LET seen == ToSet(Targets(s)) IN
  CASE what = "bucket denied"     -> seen \cap s.there \cap s.denied # {}
    [] what = "buckets cut"       -> Len(s.names) > maxBuckets
    [] what = "a bucket is empty" -> \E b \in (seen \cap s.there) \ s.denied : s.holds[b].count = 0

BucketTroubles == {"versioning unread", "lifecycle unread", "objects unread"}
BucketsTroubles == {"bucket denied"}
BucketClaims == {"empty"}
BucketsClaims == {"buckets cut", "a bucket is empty"}

=============================================================================
