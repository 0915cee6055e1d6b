------------------------------- MODULE Dump -------------------------------
(***************************************************************************)
(* pg.dump, mysql.dump and mariadb.dump, qdrant.dump, vault.snapshot and   *)
(* etcd.snapshot: one server's data into one file that was not there.  All *)
(* five make the file with O_EXCL (pg a directory, for that format), take  *)
(* it away again when anything fails, and differ in what comes before and  *)
(* after: qdrant has its server make a copy first and removes it last,     *)
(* vault and etcd check what arrived.                                      *)
(*                                                                         *)
(* Several runs, each a process of its own, name the same path.  Nobody    *)
(* touches a file while the dump that made it is under way.                *)
(***************************************************************************)
CONSTANTS
  Dumps,      (* Runs of the dump.                                         *)
  Absent,     (* Nothing at the path.                                      *)
  Foreign     (* Whoever writes there and is no dump.                      *)

ASSUME DumpsAssumption == Absent \notin Dumps /\ Foreign \notin Dumps /\ Absent # Foreign

VARIABLES
  engine,     (* Whose dump this is.                                       *)
  digest,     (* The etcd server appends a digest to the stream.           *)
  path,       (* Who made what is at the path, and what there is of it.    *)
  at,         (* How far each dump is.                                     *)
  answer,     (* What it will have answered once it is done.               *)
  callerDone, (* Its caller's context is done.                             *)
  staged,     (* What it knows of the copy it had its server make.         *)
  making,     (* Dumps whose server is still at work on that copy.         *)
  copies      (* Dumps a copy was made for, which the server still holds.  *)

server == <<making, copies>>
vars == <<engine, digest, path, at, answer, callerDone, staged, server>>

Engines == {"pg", "mysql", "qdrant", "vault", "etcd"}
Refusals == {"dryrun", "exists", "failed"}
Successes == {"ok", "unverified", "leftover"}
Phases == {"start", "looked", "described", "staging", "ready", "writing",
           "closed", "cleaning", "done", "crashed"}

Nothing == [by |-> Absent, has |-> "nothing"]
Written(d, has) == [by |-> d, has |-> has]

TypeOK ==
  /\ engine \in Engines
  /\ digest \in BOOLEAN
  /\ path \in [by : Dumps \cup {Absent, Foreign},
               has : {"nothing", "part", "whole", "damaged"}]
  /\ at \in [Dumps -> Phases]
  /\ answer \in [Dumps -> {"pending"} \cup Refusals \cup Successes]
  /\ callerDone \in [Dumps -> BOOLEAN]
  /\ staged \in [Dumps -> {"none", "asked", "unknown", "named", "gone", "left"}]
  /\ making \subseteq Dumps
  /\ copies \subseteq Dumps

Init ==
  /\ engine \in Engines
  /\ digest \in BOOLEAN
  /\ digest => engine = "etcd"
  /\ path \in {Nothing, Written(Foreign, "whole")}
  /\ at = [d \in Dumps |-> "start"]
  /\ answer = [d \in Dumps |-> "pending"]
  /\ callerDone = [d \in Dumps |-> FALSE]
  /\ staged = [d \in Dumps |-> "none"]
  /\ making = {}
  /\ copies = {}

Goto(d, next) == at' = [at EXCEPT ![d] = next]
Decide(d, what) == answer' = [answer EXCEPT ![d] = what]
Answer(d, what) == Goto(d, "done") /\ Decide(d, what)
Fixed == UNCHANGED <<engine, digest, callerDone>>

-----------------------------------------------------------------------------
(* Steps every engine takes.  The phase an engine takes one in, and the    *)
(* one it goes on to, are its own: see the five dumps below.               *)

(* The early stat, and the dry run that ends here.                         *)
Look(d, next) ==
  /\ at[d] = "start"
  /\ path = Nothing
  /\ \/ Goto(d, next) /\ UNCHANGED answer
     \/ Answer(d, "dryrun")
  /\ Fixed /\ UNCHANGED <<path, staged, server>>

LookRefused(d) ==
  /\ at[d] = "start"
  /\ path # Nothing
  /\ Answer(d, "exists")
  /\ Fixed /\ UNCHANGED <<path, staged, server>>

(* Asking the server what it is before anything is taken from it.          *)
Describe(d, next) ==
  /\ at[d] = "looked"
  /\ \/ ~callerDone[d] /\ Goto(d, next) /\ UNCHANGED answer
     \/ Answer(d, "failed")
  /\ Fixed /\ UNCHANGED <<path, staged, server>>

(* Mutant: the early stat is taken for the guarantee, and the file is      *)
(* created over whatever has appeared since.                               *)
CreateOver(d, from) ==
  /\ at[d] = from
  /\ path' = Written(d, "part")
  /\ Goto(d, "writing")
  /\ Fixed /\ UNCHANGED <<answer, staged, server>>

(* O_EXCL, or Mkdir for pg's directory format.                             *)
Create(d, from) ==
  /\ at[d] = from
  /\ path = Nothing
  /\ path' = Written(d, "part")
  /\ Goto(d, "writing")
  /\ Fixed /\ UNCHANGED <<answer, staged, server>>

(* Mutant: the failure is returned from where it was met.                  *)
CreateFailsAtOnce(d, from, next) ==
  /\ at[d] = from
  /\ \/ path # Nothing /\ Answer(d, "exists")
     \/ Answer(d, "failed")
  /\ Fixed /\ UNCHANGED <<path, staged, server>>

(* A failure before there is a file: it was taken in the meantime, could   *)
(* not be made, or the request for the data was refused.                   *)
CreateFails(d, from, next) ==
  /\ at[d] = from
  /\ \/ path # Nothing /\ Decide(d, "exists")
     \/ Decide(d, "failed")
  /\ Goto(d, next)
  /\ Fixed /\ UNCHANGED <<path, staged, server>>

(* The child exits, or the body ends, and the file is closed.  Only where  *)
(* the code looks for damage is damage in transit modelled.                *)
StreamEnds(d) ==
  /\ at[d] = "writing"
  /\ \E has \in {"whole"} \cup (IF engine \in {"vault", "etcd"} THEN {"damaged"} ELSE {}) :
       path' = Written(d, has)
  /\ Goto(d, "closed")
  /\ Fixed /\ UNCHANGED <<answer, staged, server>>

(* Mutant: the partial file stays.                                         *)
WriteFailsInPlace(d, next) ==
  /\ at[d] \in {"writing", "closed"}
  /\ Decide(d, "failed")
  /\ Goto(d, next)
  /\ Fixed /\ UNCHANGED <<path, staged, server>>

(* The transfer, the close or the check fails: os.Remove, then the error.  *)
WriteFails(d, next) ==
  /\ at[d] \in {"writing", "closed"}
  /\ path' = Nothing
  /\ Decide(d, "failed")
  /\ Goto(d, next)
  /\ Fixed /\ UNCHANGED <<staged, server>>

Succeeds(d, what) ==
  /\ at[d] = "closed"
  /\ Answer(d, what)
  /\ Fixed /\ UNCHANGED <<path, staged, server>>

-----------------------------------------------------------------------------
(* qdrant: the server's own copy, made before and removed after.           *)

CopyIs(d, what) == staged' = [staged EXCEPT ![d] = what]

(* createSnapshot waits for the server, which goes on by itself if nobody  *)
(* does any more.                                                          *)
AskForCopy(d) ==
  /\ at[d] = "described"
  /\ ~callerDone[d]
  /\ Goto(d, "staging")
  /\ CopyIs(d, "asked")
  /\ making' = making \cup {d}
  /\ Fixed /\ UNCHANGED <<path, answer, copies>>

ServerCopies(d) ==
  /\ d \in making
  /\ making' = making \ {d}
  /\ copies' \in {copies, copies \cup {d}}
  /\ Fixed /\ UNCHANGED <<path, at, answer, staged>>

CopyNamed(d) ==
  /\ at[d] = "staging"
  /\ d \in copies
  /\ Goto(d, "ready")
  /\ CopyIs(d, "named")
  /\ Fixed /\ UNCHANGED <<path, answer, server>>

(* No answer, a bad one, or a caller that stopped waiting: the name of     *)
(* what the server made, or is still making, is lost.                      *)
CopyUnknown(d) ==
  /\ at[d] \in {"described", "staging"}
  /\ Answer(d, "failed")
  /\ CopyIs(d, IF at[d] = "staging" THEN "unknown" ELSE "none")
  /\ Fixed /\ UNCHANGED <<path, server>>

(* The file is closed, whole; its copy on the server is next.              *)
FetchEnds(d) ==
  /\ at[d] = "closed"
  /\ Decide(d, "ok")
  /\ Goto(d, "cleaning")
  /\ Fixed /\ UNCHANGED <<path, staged, server>>

(* Mutant: the removal goes with the caller's context.                     *)
RemoveCopyForCaller(d) ==
  /\ at[d] = "cleaning"
  /\ Goto(d, "done")
  /\ \/ ~callerDone[d] /\ copies' = copies \ {d} /\ CopyIs(d, "gone")
     \/ callerDone[d] /\ UNCHANGED <<copies, staged>>
  /\ Fixed /\ UNCHANGED <<path, answer, making>>

(* deleteSnapshot, detached from the caller's cancellation and bounded.    *)
(* One that fails may have been applied; on the way out of a success it is *)
(* reported, on the way out of a failure it is not.                        *)
RemoveCopy(d) ==
  /\ at[d] = "cleaning"
  /\ Goto(d, "done")
  /\ \/ copies' = copies \ {d} /\ CopyIs(d, "gone") /\ UNCHANGED answer
     \/ /\ copies' \in {copies, copies \ {d}}
        /\ CopyIs(d, "left")
        /\ answer' = [answer EXCEPT ![d] = IF @ = "ok" THEN "leftover" ELSE @]
  /\ Fixed /\ UNCHANGED <<path, making>>

-----------------------------------------------------------------------------
(* The five dumps.                                                         *)

PgDump(d) ==
  /\ engine = "pg"
  /\ \/ Look(d, "looked") \/ LookRefused(d) \/ Describe(d, "ready")
     \/ Create(d, "ready") \/ CreateFails(d, "ready", "done")
     \/ StreamEnds(d) \/ WriteFails(d, "done") \/ Succeeds(d, "ok")

MysqlDump(d) ==
  /\ engine = "mysql"
  /\ \/ Look(d, "looked") \/ LookRefused(d) \/ Describe(d, "ready")
     \/ Create(d, "ready") \/ CreateFails(d, "ready", "done")
     \/ StreamEnds(d) \/ WriteFails(d, "done") \/ Succeeds(d, "ok")

QdrantDump(d) ==
  /\ engine = "qdrant"
  /\ \/ Look(d, "looked") \/ LookRefused(d) \/ Describe(d, "described")
     \/ AskForCopy(d) \/ CopyNamed(d) \/ CopyUnknown(d)
     \/ ~callerDone[d] /\ Create(d, "ready")
     \/ CreateFails(d, "ready", "cleaning")
     \/ StreamEnds(d) \/ WriteFails(d, "cleaning") \/ FetchEnds(d)
     \/ RemoveCopy(d)

(* The client looks for the sealed checksums after copying: without them   *)
(* what arrived is incomplete.                                             *)
VaultSnapshot(d) ==
  /\ engine = "vault"
  /\ \/ Look(d, "ready") \/ LookRefused(d)
     \/ Create(d, "ready") \/ CreateFails(d, "ready", "done")
     \/ StreamEnds(d) \/ WriteFails(d, "done")
     \/ path.has = "whole" /\ Succeeds(d, "ok")

(* trailerHasher.verify.  The digest is looked for where the length says   *)
(* it is: a stream that has none, or ends short of it, is said to have had *)
(* none, and nothing is compared.                                          *)
Verified(d) ==
  \/ digest /\ path.has = "whole" /\ Succeeds(d, "ok")
  \/ ~digest /\ Succeeds(d, "unverified")
  \/ path.has = "damaged" /\ Succeeds(d, "unverified")

EtcdSnapshot(d) ==
  /\ engine = "etcd"
  /\ \/ Look(d, "looked") \/ LookRefused(d) \/ Describe(d, "ready")
     \/ ~callerDone[d] /\ Create(d, "ready")
     \/ CreateFails(d, "ready", "done")
     \/ StreamEnds(d) \/ WriteFails(d, "done") \/ Verified(d)

DumpStep(d) ==
  PgDump(d) \/ MysqlDump(d) \/ QdrantDump(d) \/ VaultSnapshot(d) \/ EtcdSnapshot(d)

-----------------------------------------------------------------------------

Over(d) == at[d] \in {"done", "crashed"}

Cancel(d) ==
  /\ ~Over(d)
  /\ callerDone' = [callerDone EXCEPT ![d] = TRUE]
  /\ UNCHANGED <<engine, digest, path, at, answer, staged, server>>

Crash(d) ==
  /\ ~Over(d)
  /\ Goto(d, "crashed")
  /\ Fixed /\ UNCHANGED <<path, answer, staged, server>>

Deposit ==
  /\ path = Nothing
  /\ path' = Written(Foreign, "whole")
  /\ Fixed /\ UNCHANGED <<at, answer, staged, server>>

MoveAside ==
  /\ path # Nothing
  /\ \A d \in Dumps : path.by = d => Over(d)
  /\ path' = Nothing
  /\ Fixed /\ UNCHANGED <<at, answer, staged, server>>

Next ==
  \/ Deposit \/ MoveAside
  \/ \E d \in Dumps : DumpStep(d) \/ ServerCopies(d) \/ Cancel(d) \/ Crash(d)

Spec == Init /\ [][Next]_vars

(* A request whose caller has gone comes back, the removal of a server's   *)
(* copy is bounded by requestTimeout, and a goroutine that can run does.   *)
(* Nothing is assumed of a transfer somebody still waits for.              *)
Fairness ==
  \A d \in Dumps :
    /\ WF_vars(QdrantDump(d) /\ callerDone[d])
    /\ WF_vars(QdrantDump(d) /\ at[d] \in {"closed", "cleaning"})

FairSpec == Spec /\ Fairness

-----------------------------------------------------------------------------
(* Properties                                                              *)

(* A dump that answered a failure has nothing on disk, and the file of one *)
(* that answered a success is the whole of what its server sent, unless it *)
(* said itself that nothing vouches for it (the os.Remove on every way out *)
(* of the five writers, and what vault's client and etcd's digest check).  *)
DumpWholeOrGone ==
  \A d \in Dumps :
    at[d] = "done" /\ path.by = d =>
      /\ answer[d] \in Successes
      /\ answer[d] # "unverified" => path.has = "whole"

(* The copy a dump had its server make is gone when it answers, or said to *)
(* be left, or its removal was tried and failed, or its name was never     *)
(* learnt (deleteSnapshot, on both ways out of qdrant's runDump).          *)
CopyAccountedFor ==
  \A d \in Dumps :
    at[d] = "done" /\ d \in copies =>
      /\ staged[d] \in {"unknown", "left"}
      /\ answer[d] \in Successes => answer[d] = "leftover"

(* An interrupt never skips the cleanup: a dump that knows its copy's name *)
(* when its caller goes removes it or tries to, unless the process dies.   *)
InterruptedDumpCleansUp ==
  \A d \in Dumps :
    (callerDone[d] /\ staged[d] = "named") ~>
      (staged[d] \in {"gone", "left"} \/ at[d] = "crashed")

(* Whatever its engine, a dump does what DumpPromise says: it writes where *)
(* nothing was, withdraws only what is its own and untold, and never       *)
(* touches a file again once it has said it is there.                      *)
Told(d) ==
  CASE at[d] = "crashed" -> "died"
    [] at[d] = "done" /\ answer[d] \in Successes -> "succeeded"
    [] at[d] = "done" /\ answer[d] \notin Successes -> "failed"
    [] OTHER -> "nothing"

Finished ==
  \/ path.by = Foreign
  \/ path.by \in Dumps /\ path.has # "part"

Promise == INSTANCE DumpPromise WITH
  Nobody <- Absent, Someone <- Foreign, owner <- path.by,
  complete <- Finished, told <- [d \in Dumps |-> Told(d)]

KeepsPromise == Promise!Spec
=============================================================================
