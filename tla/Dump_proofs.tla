---------------------------- MODULE Dump_proofs ----------------------------
(***************************************************************************)
(* Proofs about Dump, for any number of dumps: its types, that a dump      *)
(* leaves a whole file or none, that the copy qdrant made is accounted     *)
(* for, and that every engine's dump implements DumpPromise.  Then proofs  *)
(* about Backup, for any number of restores beside them: what a restore    *)
(* that answers success has put there, that pg's is all or nothing, and    *)
(* what no restore may lose.                                               *)
(***************************************************************************)
EXTENDS Backup, TLAPS

(* What the file at the path says of the dump that made it.                *)
FileInv(d) ==
  /\ at[d] \in {"writing", "closed"} => path.by = d
  /\ at[d] = "writing" => path.has = "part"
  /\ at[d] = "closed" =>
       path.has = "whole" \/ (path.has = "damaged" /\ engine \in {"vault", "etcd"})
  /\ at[d] = "cleaning" =>
       /\ engine = "qdrant"
       /\ answer[d] \in {"ok", "exists", "failed"}
       /\ answer[d] = "ok" => path.by = d /\ path.has = "whole"
  /\ path.by = d =>
       /\ at[d] \in {"writing", "closed", "cleaning", "done", "crashed"}
       /\ at[d] \in {"cleaning", "done"} =>
            /\ answer[d] \in Successes
            /\ path.has # "part"
            /\ answer[d] # "unverified" => path.has = "whole"

PathInv == path.by = Absent <=> path.has = "nothing"

(* What a dump knows of the copy on its server, and what is true of it.    *)
StageInv(d) ==
  /\ engine # "qdrant" => staged[d] = "none"
  /\ at[d] \in {"start", "looked", "described"} => staged[d] = "none"
  /\ at[d] = "staging" => staged[d] = "asked"
  /\ engine = "qdrant" /\ at[d] \in {"ready", "writing", "closed", "cleaning"} =>
       staged[d] = "named"
  /\ staged[d] \in {"none", "gone"} => d \notin copies
  /\ staged[d] \notin {"asked", "unknown"} => d \notin making
  /\ d \in copies => d \notin making
  /\ staged[d] = "unknown" => at[d] = "done" /\ answer[d] = "failed"
  /\ at[d] = "done" =>
       /\ staged[d] \notin {"asked", "named"}
       /\ staged[d] = "left" => answer[d] # "ok" /\ answer[d] # "unverified"

DumpInv ==
  /\ TypeOK
  /\ PathInv
  /\ \A d \in Dumps : FileInv(d)
  /\ \A d \in Dumps : StageInv(d)

-----------------------------------------------------------------------------

(* The early stat, for the two phases it leads to.                         *)
LEMMA LookStep ==
  ASSUME NEW d \in Dumps, NEW next,
         next = "looked" \/ (next = "ready" /\ engine # "qdrant"),
         DumpInv, Look(d, next)
  PROVE  DumpInv'
<1> USE DumpsAssumption DEF TypeOK, Look, Nothing, Written, Answer, Goto,
        Decide, Phases, Engines, Refusals, Successes, Fixed, server
<1>1. TypeOK'
  BY DEF DumpInv
<1>2. PathInv'
  BY DEF DumpInv, PathInv
<1>3. ASSUME NEW e \in Dumps PROVE FileInv(e)'
  <2>1. FileInv(e) /\ FileInv(d) /\ TypeOK /\ PathInv
    BY DEF DumpInv
  <2>2. CASE e = d
    BY <2>1, <2>2 DEF PathInv, FileInv
  <2>3. CASE e # d
    BY <2>1, <2>3 DEF PathInv, FileInv
  <2> QED BY <2>2, <2>3
<1>4. ASSUME NEW e \in Dumps PROVE StageInv(e)'
  <2>1. StageInv(e) /\ StageInv(d) /\ FileInv(d) /\ TypeOK
    BY DEF DumpInv
  <2>2. CASE e = d
    BY <2>1, <2>2 DEF FileInv, StageInv
  <2>3. CASE e # d
    BY <2>1, <2>3 DEF StageInv
  <2> QED BY <2>2, <2>3
<1> QED BY <1>1, <1>2, <1>3, <1>4 DEF DumpInv

(* A path that is taken at the start.                                      *)
LEMMA LookRefusedStep ==
  ASSUME NEW d \in Dumps,
         DumpInv, LookRefused(d)
  PROVE  DumpInv'
<1> USE DumpsAssumption DEF TypeOK, LookRefused, Nothing, Written, Answer,
        Goto, Decide, Phases, Engines, Refusals, Successes, Fixed, server
<1>1. TypeOK'
  BY DEF DumpInv
<1>2. PathInv'
  BY DEF DumpInv, PathInv
<1>3. ASSUME NEW e \in Dumps PROVE FileInv(e)'
  <2>1. FileInv(e) /\ FileInv(d) /\ TypeOK /\ PathInv
    BY DEF DumpInv
  <2>2. CASE e = d
    BY <2>1, <2>2 DEF PathInv, FileInv
  <2>3. CASE e # d
    BY <2>1, <2>3 DEF PathInv, FileInv
  <2> QED BY <2>2, <2>3
<1>4. ASSUME NEW e \in Dumps PROVE StageInv(e)'
  <2>1. StageInv(e) /\ StageInv(d) /\ FileInv(d) /\ TypeOK
    BY DEF DumpInv
  <2>2. CASE e = d
    BY <2>1, <2>2 DEF FileInv, StageInv
  <2>3. CASE e # d
    BY <2>1, <2>3 DEF StageInv
  <2> QED BY <2>2, <2>3
<1> QED BY <1>1, <1>2, <1>3, <1>4 DEF DumpInv

(* Asking the server what it is.                                           *)
LEMMA DescribeStep ==
  ASSUME NEW d \in Dumps, NEW next,
         next = IF engine = "qdrant" THEN "described" ELSE "ready",
         DumpInv, Describe(d, next)
  PROVE  DumpInv'
<1> USE DumpsAssumption DEF TypeOK, Describe, Answer, Goto, Decide, Phases,
        Engines, Refusals, Successes, Fixed, server
<1>1. TypeOK'
  BY DEF DumpInv
<1>2. PathInv'
  BY DEF DumpInv, PathInv
<1>3. ASSUME NEW e \in Dumps PROVE FileInv(e)'
  <2>1. FileInv(e) /\ FileInv(d) /\ TypeOK /\ PathInv
    BY DEF DumpInv
  <2>2. CASE e = d
    BY <2>1, <2>2 DEF PathInv, FileInv
  <2>3. CASE e # d
    BY <2>1, <2>3 DEF PathInv, FileInv
  <2> QED BY <2>2, <2>3
<1>4. ASSUME NEW e \in Dumps PROVE StageInv(e)'
  <2>1. StageInv(e) /\ StageInv(d) /\ FileInv(d) /\ TypeOK
    BY DEF DumpInv
  <2>2. CASE e = d
    BY <2>1, <2>2 DEF FileInv, StageInv
  <2>3. CASE e # d
    BY <2>1, <2>3 DEF StageInv
  <2> QED BY <2>2, <2>3
<1> QED BY <1>1, <1>2, <1>3, <1>4 DEF DumpInv

(* The exclusive create.                                                   *)
LEMMA CreateStep ==
  ASSUME NEW d \in Dumps,
         DumpInv, Create(d, "ready")
  PROVE  DumpInv'
<1> USE DumpsAssumption DEF TypeOK, Create, Nothing, Written, Answer, Goto,
        Decide, Phases, Engines, Refusals, Successes, Fixed, server
<1>1. TypeOK'
  BY DEF DumpInv
<1>2. PathInv'
  BY DEF DumpInv, PathInv
<1>3. ASSUME NEW e \in Dumps PROVE FileInv(e)'
  <2>1. FileInv(e) /\ FileInv(d) /\ TypeOK /\ PathInv
    BY DEF DumpInv
  <2>2. CASE e = d
    BY <2>1, <2>2 DEF PathInv, FileInv
  <2>3. CASE e # d
    BY <2>1, <2>3 DEF PathInv, FileInv
  <2> QED BY <2>2, <2>3
<1>4. ASSUME NEW e \in Dumps PROVE StageInv(e)'
  <2>1. StageInv(e) /\ StageInv(d) /\ FileInv(d) /\ TypeOK
    BY DEF DumpInv
  <2>2. CASE e = d
    BY <2>1, <2>2 DEF FileInv, StageInv
  <2>3. CASE e # d
    BY <2>1, <2>3 DEF StageInv
  <2> QED BY <2>2, <2>3
<1> QED BY <1>1, <1>2, <1>3, <1>4 DEF DumpInv

(* No file could be made, or there was nothing to put in it.               *)
LEMMA CreateFailsStep ==
  ASSUME NEW d \in Dumps, NEW next,
         next = IF engine = "qdrant" THEN "cleaning" ELSE "done",
         DumpInv, CreateFails(d, "ready", next)
  PROVE  DumpInv'
<1> USE DumpsAssumption DEF TypeOK, CreateFails, Nothing, Written, Answer,
        Goto, Decide, Phases, Engines, Refusals, Successes, Fixed, server
<1>1. TypeOK'
  BY DEF DumpInv
<1>2. PathInv'
  BY DEF DumpInv, PathInv
<1>3. ASSUME NEW e \in Dumps PROVE FileInv(e)'
  <2>1. FileInv(e) /\ FileInv(d) /\ TypeOK /\ PathInv
    BY DEF DumpInv
  <2>2. CASE e = d
    BY <2>1, <2>2 DEF PathInv, FileInv
  <2>3. CASE e # d
    BY <2>1, <2>3 DEF PathInv, FileInv
  <2> QED BY <2>2, <2>3
<1>4. ASSUME NEW e \in Dumps PROVE StageInv(e)'
  <2>1. StageInv(e) /\ StageInv(d) /\ FileInv(d) /\ TypeOK
    BY DEF DumpInv
  <2>2. CASE e = d
    BY <2>1, <2>2 DEF FileInv, StageInv
  <2>3. CASE e # d
    BY <2>1, <2>3 DEF StageInv
  <2> QED BY <2>2, <2>3
<1> QED BY <1>1, <1>2, <1>3, <1>4 DEF DumpInv

(* The transfer ends and the file is closed.                               *)
LEMMA StreamEndsStep ==
  ASSUME NEW d \in Dumps,
         DumpInv, StreamEnds(d)
  PROVE  DumpInv'
<1> USE DumpsAssumption DEF TypeOK, StreamEnds, Nothing, Written, Answer, Goto,
        Decide, Phases, Engines, Refusals, Successes, Fixed, server
<1>1. TypeOK'
  BY DEF DumpInv
<1>2. PathInv'
  BY DEF DumpInv, PathInv
<1>3. ASSUME NEW e \in Dumps PROVE FileInv(e)'
  <2>1. FileInv(e) /\ FileInv(d) /\ TypeOK /\ PathInv
    BY DEF DumpInv
  <2>2. CASE e = d
    BY <2>1, <2>2 DEF PathInv, FileInv
  <2>3. CASE e # d
    BY <2>1, <2>3 DEF PathInv, FileInv
  <2> QED BY <2>2, <2>3
<1>4. ASSUME NEW e \in Dumps PROVE StageInv(e)'
  <2>1. StageInv(e) /\ StageInv(d) /\ FileInv(d) /\ TypeOK
    BY DEF DumpInv
  <2>2. CASE e = d
    BY <2>1, <2>2 DEF FileInv, StageInv
  <2>3. CASE e # d
    BY <2>1, <2>3 DEF StageInv
  <2> QED BY <2>2, <2>3
<1> QED BY <1>1, <1>2, <1>3, <1>4 DEF DumpInv

(* The transfer, the close or the check fails, and the file is removed.    *)
LEMMA WriteFailsStep ==
  ASSUME NEW d \in Dumps, NEW next,
         next = IF engine = "qdrant" THEN "cleaning" ELSE "done",
         DumpInv, WriteFails(d, next)
  PROVE  DumpInv'
<1> USE DumpsAssumption DEF TypeOK, WriteFails, Nothing, Written, Answer, Goto,
        Decide, Phases, Engines, Refusals, Successes, Fixed, server
<1>1. TypeOK'
  BY DEF DumpInv
<1>2. PathInv'
  BY DEF DumpInv, PathInv
<1>3. ASSUME NEW e \in Dumps PROVE FileInv(e)'
  <2>1. FileInv(e) /\ FileInv(d) /\ TypeOK /\ PathInv
    BY DEF DumpInv
  <2>2. CASE e = d
    BY <2>1, <2>2 DEF PathInv, FileInv
  <2>3. CASE e # d
    BY <2>1, <2>3 DEF PathInv, FileInv
  <2> QED BY <2>2, <2>3
<1>4. ASSUME NEW e \in Dumps PROVE StageInv(e)'
  <2>1. StageInv(e) /\ StageInv(d) /\ FileInv(d) /\ TypeOK
    BY DEF DumpInv
  <2>2. CASE e = d
    BY <2>1, <2>2 DEF FileInv, StageInv
  <2>3. CASE e # d
    BY <2>1, <2>3 DEF StageInv
  <2> QED BY <2>2, <2>3
<1> QED BY <1>1, <1>2, <1>3, <1>4 DEF DumpInv

(* A success, of a file that is whole or is said not to be vouched for.    *)
LEMMA SucceedsStep ==
  ASSUME NEW d \in Dumps, NEW what,
         engine # "qdrant",
         what = "unverified" \/ (what = "ok" /\ path.has = "whole"),
         DumpInv, Succeeds(d, what)
  PROVE  DumpInv'
<1> USE DumpsAssumption DEF TypeOK, Succeeds, Answer, Goto, Decide, Phases,
        Engines, Refusals, Successes, Fixed, server
<1>1. TypeOK'
  BY DEF DumpInv
<1>2. PathInv'
  BY DEF DumpInv, PathInv
<1>3. ASSUME NEW e \in Dumps PROVE FileInv(e)'
  <2>1. FileInv(e) /\ FileInv(d) /\ TypeOK /\ PathInv
    BY DEF DumpInv
  <2>2. CASE e = d
    BY <2>1, <2>2 DEF PathInv, FileInv
  <2>3. CASE e # d
    BY <2>1, <2>3 DEF PathInv, FileInv
  <2> QED BY <2>2, <2>3
<1>4. ASSUME NEW e \in Dumps PROVE StageInv(e)'
  <2>1. StageInv(e) /\ StageInv(d) /\ FileInv(d) /\ TypeOK
    BY DEF DumpInv
  <2>2. CASE e = d
    BY <2>1, <2>2 DEF FileInv, StageInv
  <2>3. CASE e # d
    BY <2>1, <2>3 DEF StageInv
  <2> QED BY <2>2, <2>3
<1> QED BY <1>1, <1>2, <1>3, <1>4 DEF DumpInv

(* The server is asked for its copy.                                       *)
LEMMA AskForCopyStep ==
  ASSUME NEW d \in Dumps, engine = "qdrant",
         DumpInv, AskForCopy(d)
  PROVE  DumpInv'
<1> USE DumpsAssumption DEF TypeOK, AskForCopy, CopyIs, Nothing, Written,
        Answer, Goto, Decide, Phases, Engines, Refusals, Successes, Fixed,
        server
<1>1. TypeOK'
  BY DEF DumpInv
<1>2. PathInv'
  BY DEF DumpInv, PathInv
<1>3. ASSUME NEW e \in Dumps PROVE FileInv(e)'
  <2>1. FileInv(e) /\ FileInv(d) /\ TypeOK /\ PathInv
    BY DEF DumpInv
  <2>2. CASE e = d
    BY <2>1, <2>2 DEF PathInv, FileInv
  <2>3. CASE e # d
    BY <2>1, <2>3 DEF PathInv, FileInv
  <2> QED BY <2>2, <2>3
<1>4. ASSUME NEW e \in Dumps PROVE StageInv(e)'
  <2>1. StageInv(e) /\ StageInv(d) /\ FileInv(d) /\ TypeOK
    BY DEF DumpInv
  <2>2. CASE e = d
    BY <2>1, <2>2 DEF FileInv, StageInv
  <2>3. CASE e # d
    BY <2>1, <2>3 DEF StageInv
  <2> QED BY <2>2, <2>3
<1> QED BY <1>1, <1>2, <1>3, <1>4 DEF DumpInv

(* The server names it.                                                    *)
LEMMA CopyNamedStep ==
  ASSUME NEW d \in Dumps, engine = "qdrant",
         DumpInv, CopyNamed(d)
  PROVE  DumpInv'
<1> USE DumpsAssumption DEF TypeOK, CopyNamed, CopyIs, Nothing, Written,
        Answer, Goto, Decide, Phases, Engines, Refusals, Successes, Fixed,
        server
<1>1. TypeOK'
  BY DEF DumpInv
<1>2. PathInv'
  BY DEF DumpInv, PathInv
<1>3. ASSUME NEW e \in Dumps PROVE FileInv(e)'
  <2>1. FileInv(e) /\ FileInv(d) /\ TypeOK /\ PathInv
    BY DEF DumpInv
  <2>2. CASE e = d
    BY <2>1, <2>2 DEF PathInv, FileInv
  <2>3. CASE e # d
    BY <2>1, <2>3 DEF PathInv, FileInv
  <2> QED BY <2>2, <2>3
<1>4. ASSUME NEW e \in Dumps PROVE StageInv(e)'
  <2>1. StageInv(e) /\ StageInv(d) /\ FileInv(d) /\ TypeOK
    BY DEF DumpInv
  <2>2. CASE e = d
    BY <2>1, <2>2 DEF FileInv, StageInv
  <2>3. CASE e # d
    BY <2>1, <2>3 DEF StageInv
  <2> QED BY <2>2, <2>3
<1> QED BY <1>1, <1>2, <1>3, <1>4 DEF DumpInv

(* The server's answer is lost.                                            *)
LEMMA CopyUnknownStep ==
  ASSUME NEW d \in Dumps, engine = "qdrant",
         DumpInv, CopyUnknown(d)
  PROVE  DumpInv'
<1> USE DumpsAssumption DEF TypeOK, CopyUnknown, CopyIs, Nothing, Written,
        Answer, Goto, Decide, Phases, Engines, Refusals, Successes, Fixed,
        server
<1>1. TypeOK'
  BY DEF DumpInv
<1>2. PathInv'
  BY DEF DumpInv, PathInv
<1>3. ASSUME NEW e \in Dumps PROVE FileInv(e)'
  <2>1. FileInv(e) /\ FileInv(d) /\ TypeOK /\ PathInv
    BY DEF DumpInv
  <2>2. CASE e = d
    BY <2>1, <2>2 DEF PathInv, FileInv
  <2>3. CASE e # d
    BY <2>1, <2>3 DEF PathInv, FileInv
  <2> QED BY <2>2, <2>3
<1>4. ASSUME NEW e \in Dumps PROVE StageInv(e)'
  <2>1. StageInv(e) /\ StageInv(d) /\ FileInv(d) /\ TypeOK
    BY DEF DumpInv
  <2>2. CASE e = d
    BY <2>1, <2>2 DEF FileInv, StageInv
  <2>3. CASE e # d
    BY <2>1, <2>3 DEF StageInv
  <2> QED BY <2>2, <2>3
<1> QED BY <1>1, <1>2, <1>3, <1>4 DEF DumpInv

(* The copy is here, whole.                                                *)
LEMMA FetchEndsStep ==
  ASSUME NEW d \in Dumps, engine = "qdrant",
         DumpInv, FetchEnds(d)
  PROVE  DumpInv'
<1> USE DumpsAssumption DEF TypeOK, FetchEnds, CopyIs, Nothing, Written,
        Answer, Goto, Decide, Phases, Engines, Refusals, Successes, Fixed,
        server
<1>1. TypeOK'
  BY DEF DumpInv
<1>2. PathInv'
  BY DEF DumpInv, PathInv
<1>3. ASSUME NEW e \in Dumps PROVE FileInv(e)'
  <2>1. FileInv(e) /\ FileInv(d) /\ TypeOK /\ PathInv
    BY DEF DumpInv
  <2>2. CASE e = d
    BY <2>1, <2>2 DEF PathInv, FileInv
  <2>3. CASE e # d
    BY <2>1, <2>3 DEF PathInv, FileInv
  <2> QED BY <2>2, <2>3
<1>4. ASSUME NEW e \in Dumps PROVE StageInv(e)'
  <2>1. StageInv(e) /\ StageInv(d) /\ FileInv(d) /\ TypeOK
    BY DEF DumpInv
  <2>2. CASE e = d
    BY <2>1, <2>2 DEF FileInv, StageInv
  <2>3. CASE e # d
    BY <2>1, <2>3 DEF StageInv
  <2> QED BY <2>2, <2>3
<1> QED BY <1>1, <1>2, <1>3, <1>4 DEF DumpInv

(* The server's copy is removed, or not.                                   *)
LEMMA RemoveCopyStep ==
  ASSUME NEW d \in Dumps, engine = "qdrant",
         DumpInv, RemoveCopy(d)
  PROVE  DumpInv'
<1> USE DumpsAssumption DEF TypeOK, RemoveCopy, CopyIs, Nothing, Written,
        Answer, Goto, Decide, Phases, Engines, Refusals, Successes, Fixed,
        server
<1>1. TypeOK'
  BY DEF DumpInv
<1>2. PathInv'
  BY DEF DumpInv, PathInv
<1>3. ASSUME NEW e \in Dumps PROVE FileInv(e)'
  <2>1. FileInv(e) /\ FileInv(d) /\ TypeOK /\ PathInv
    BY DEF DumpInv
  <2>2. CASE e = d
    BY <2>1, <2>2 DEF PathInv, FileInv
  <2>3. CASE e # d
    BY <2>1, <2>3 DEF PathInv, FileInv
  <2> QED BY <2>2, <2>3
<1>4. ASSUME NEW e \in Dumps PROVE StageInv(e)'
  <2>1. StageInv(e) /\ StageInv(d) /\ FileInv(d) /\ TypeOK
    BY DEF DumpInv
  <2>2. CASE e = d
    BY <2>1, <2>2 DEF FileInv, StageInv
  <2>3. CASE e # d
    BY <2>1, <2>3 DEF StageInv
  <2> QED BY <2>2, <2>3
<1> QED BY <1>1, <1>2, <1>3, <1>4 DEF DumpInv

(* The server makes its copy, whoever waits for it.                        *)
LEMMA ServerCopiesStep ==
  ASSUME NEW d \in Dumps,
         DumpInv, ServerCopies(d)
  PROVE  DumpInv'
<1> USE DumpsAssumption DEF TypeOK, ServerCopies, Over, Nothing, Written,
        Answer, Goto, Decide, Phases, Engines, Refusals, Successes, Fixed,
        server
<1>1. TypeOK'
  BY DEF DumpInv
<1>2. PathInv'
  BY DEF DumpInv, PathInv
<1>3. ASSUME NEW e \in Dumps PROVE FileInv(e)'
  <2>1. FileInv(e) /\ FileInv(d) /\ TypeOK /\ PathInv
    BY DEF DumpInv
  <2>2. CASE e = d
    BY <2>1, <2>2 DEF PathInv, FileInv
  <2>3. CASE e # d
    BY <2>1, <2>3 DEF PathInv, FileInv
  <2> QED BY <2>2, <2>3
<1>4. ASSUME NEW e \in Dumps PROVE StageInv(e)'
  <2>1. StageInv(e) /\ StageInv(d) /\ FileInv(d) /\ TypeOK
    BY DEF DumpInv
  <2>2. CASE e = d
    BY <2>1, <2>2 DEF FileInv, StageInv
  <2>3. CASE e # d
    BY <2>1, <2>3 DEF StageInv
  <2> QED BY <2>2, <2>3
<1> QED BY <1>1, <1>2, <1>3, <1>4 DEF DumpInv

(* The caller goes.                                                        *)
LEMMA CancelStep ==
  ASSUME NEW d \in Dumps,
         DumpInv, Cancel(d)
  PROVE  DumpInv'
<1> USE DumpsAssumption DEF TypeOK, Cancel, Over, Nothing, Written, Answer,
        Goto, Decide, Phases, Engines, Refusals, Successes, Fixed, server
<1>1. TypeOK'
  BY DEF DumpInv
<1>2. PathInv'
  BY DEF DumpInv, PathInv
<1>3. ASSUME NEW e \in Dumps PROVE FileInv(e)'
  <2>1. FileInv(e) /\ FileInv(d) /\ TypeOK /\ PathInv
    BY DEF DumpInv
  <2>2. CASE e = d
    BY <2>1, <2>2 DEF PathInv, FileInv
  <2>3. CASE e # d
    BY <2>1, <2>3 DEF PathInv, FileInv
  <2> QED BY <2>2, <2>3
<1>4. ASSUME NEW e \in Dumps PROVE StageInv(e)'
  <2>1. StageInv(e) /\ StageInv(d) /\ FileInv(d) /\ TypeOK
    BY DEF DumpInv
  <2>2. CASE e = d
    BY <2>1, <2>2 DEF FileInv, StageInv
  <2>3. CASE e # d
    BY <2>1, <2>3 DEF StageInv
  <2> QED BY <2>2, <2>3
<1> QED BY <1>1, <1>2, <1>3, <1>4 DEF DumpInv

(* The process dies.                                                       *)
LEMMA CrashStep ==
  ASSUME NEW d \in Dumps,
         DumpInv, Crash(d)
  PROVE  DumpInv'
<1> USE DumpsAssumption DEF TypeOK, Crash, Over, Nothing, Written, Answer,
        Goto, Decide, Phases, Engines, Refusals, Successes, Fixed, server
<1>1. TypeOK'
  BY DEF DumpInv
<1>2. PathInv'
  BY DEF DumpInv, PathInv
<1>3. ASSUME NEW e \in Dumps PROVE FileInv(e)'
  <2>1. FileInv(e) /\ FileInv(d) /\ TypeOK /\ PathInv
    BY DEF DumpInv
  <2>2. CASE e = d
    BY <2>1, <2>2 DEF PathInv, FileInv
  <2>3. CASE e # d
    BY <2>1, <2>3 DEF PathInv, FileInv
  <2> QED BY <2>2, <2>3
<1>4. ASSUME NEW e \in Dumps PROVE StageInv(e)'
  <2>1. StageInv(e) /\ StageInv(d) /\ FileInv(d) /\ TypeOK
    BY DEF DumpInv
  <2>2. CASE e = d
    BY <2>1, <2>2 DEF FileInv, StageInv
  <2>3. CASE e # d
    BY <2>1, <2>3 DEF StageInv
  <2> QED BY <2>2, <2>3
<1> QED BY <1>1, <1>2, <1>3, <1>4 DEF DumpInv

(* What people do at the path.                                             *)
LEMMA PeopleStep == DumpInv /\ (Deposit \/ MoveAside) => DumpInv'
<1> USE DumpsAssumption
        DEF TypeOK, Deposit, MoveAside, Over, Nothing, Written, Fixed, server
<1> SUFFICES ASSUME DumpInv, Deposit \/ MoveAside PROVE DumpInv'
  OBVIOUS
<1>1. TypeOK' /\ PathInv'
  BY DEF DumpInv, PathInv
<1>2. ASSUME NEW e \in Dumps PROVE FileInv(e)' /\ StageInv(e)'
  <2>1. FileInv(e) /\ StageInv(e) /\ TypeOK /\ PathInv
    BY DEF DumpInv
  <2>2. FileInv(e)'
    BY <2>1 DEF PathInv, FileInv
  <2>3. StageInv(e)'
    BY <2>1 DEF StageInv
  <2> QED BY <2>2, <2>3
<1> QED BY <1>1, <1>2 DEF DumpInv

-----------------------------------------------------------------------------
(* Each engine's dump takes only those steps, in the phases they are       *)
(* proved for.                                                             *)

LEMMA EnginesPreserve ==
  ASSUME NEW d \in Dumps, DumpInv, DumpStep(d)
  PROVE  DumpInv'
<1>1. CASE PgDump(d)
  <2> USE <1>1 DEF PgDump
  <2>1. at[d] = "closed" => path.has = "whole"
    BY DEF DumpInv, FileInv
  <2>2. Succeeds(d, "ok") => path.has = "whole"
    BY <2>1 DEF Succeeds
  <2> QED BY <2>2, LookStep, LookRefusedStep, DescribeStep, CreateStep,
             CreateFailsStep, StreamEndsStep, WriteFailsStep, SucceedsStep
<1>2. CASE MysqlDump(d)
  <2> USE <1>2 DEF MysqlDump
  <2>1. at[d] = "closed" => path.has = "whole"
    BY DEF DumpInv, FileInv
  <2>2. Succeeds(d, "ok") => path.has = "whole"
    BY <2>1 DEF Succeeds
  <2> QED BY <2>2, LookStep, LookRefusedStep, DescribeStep, CreateStep,
             CreateFailsStep, StreamEndsStep, WriteFailsStep, SucceedsStep
<1>3. CASE QdrantDump(d)
  <2> USE <1>3 DEF QdrantDump
  <2> QED BY LookStep, LookRefusedStep, DescribeStep, AskForCopyStep,
             CopyNamedStep, CopyUnknownStep, CreateStep, CreateFailsStep,
             StreamEndsStep, WriteFailsStep, FetchEndsStep, RemoveCopyStep
<1>4. CASE VaultSnapshot(d)
  <2> USE <1>4 DEF VaultSnapshot
  <2> QED BY LookStep, LookRefusedStep, CreateStep, CreateFailsStep,
             StreamEndsStep, WriteFailsStep, SucceedsStep
<1>5. CASE EtcdSnapshot(d)
  <2> USE <1>5 DEF EtcdSnapshot, Verified
  <2> QED BY LookStep, LookRefusedStep, DescribeStep, CreateStep,
             CreateFailsStep, StreamEndsStep, WriteFailsStep, SucceedsStep
<1> QED BY <1>1, <1>2, <1>3, <1>4, <1>5 DEF DumpStep

LEMMA Inductive == DumpInv /\ [Next]_vars => DumpInv'
<1> SUFFICES ASSUME DumpInv, [Next]_vars PROVE DumpInv'
  OBVIOUS
<1>1. CASE UNCHANGED vars
  BY <1>1 DEF vars, server, DumpInv, TypeOK, PathInv, FileInv, StageInv
<1>2. CASE Deposit \/ MoveAside
  BY <1>2, PeopleStep
<1>3. CASE \E d \in Dumps : DumpStep(d) \/ ServerCopies(d) \/ Cancel(d) \/ Crash(d)
  BY <1>3, EnginesPreserve, ServerCopiesStep, CancelStep, CrashStep
<1> QED BY <1>1, <1>2, <1>3 DEF Next

LEMMA Initially == Init => DumpInv
<1> SUFFICES ASSUME Init PROVE DumpInv
  OBVIOUS
<1> USE DumpsAssumption
        DEF Init, Nothing, Written, Engines, Phases, Refusals, Successes
<1>1. TypeOK /\ PathInv
  BY DEF TypeOK, PathInv
<1>2. ASSUME NEW d \in Dumps PROVE FileInv(d) /\ StageInv(d)
  BY DEF FileInv, StageInv
<1> QED BY <1>1, <1>2 DEF DumpInv

(* The inductive invariant of the five dumps.                              *)
THEOREM DumpInvariant == Spec => []DumpInv
BY Initially, Inductive, PTL DEF Spec

(* Every variable keeps its type.                                          *)
THEOREM TypeCorrect == Spec => []TypeOK
<1>1. DumpInv => TypeOK
  BY DEF DumpInv
<1> QED BY <1>1, DumpInvariant, PTL

(* For any number of dumps to one path, of any engine: a dump that         *)
(* answered a failure has left nothing there, and one that answered a      *)
(* success has left a whole file (writeDump and its four counterparts).    *)
THEOREM NoPartialBackup == Spec => []DumpWholeOrGone
<1>1. DumpInv => DumpWholeOrGone
  BY DEF DumpInv, FileInv, DumpWholeOrGone
<1> QED BY <1>1, DumpInvariant, PTL

(* The copy a qdrant server was made to write is never forgotten by a dump *)
(* that knows of it (deleteSnapshot).                                      *)
THEOREM CopiesAccountedFor == Spec => []CopyAccountedFor
<1>1. DumpInv => CopyAccountedFor
  BY DEF DumpInv, TypeOK, StageInv, CopyAccountedFor, Successes
<1> QED BY <1>1, DumpInvariant, PTL

-----------------------------------------------------------------------------
(* Dump implements DumpPromise: the file's owner is the path's, and what a *)
(* caller is told is the answer of a dump that is done.                    *)

ToldAll == [d \in Dumps |-> Told(d)]

LEMMA NobodyTold ==
  ASSUME \A e \in Dumps : Told(e)' = Told(e)
  PROVE  ToldAll' = ToldAll
BY DEF ToldAll

LEMMA OneTold ==
  ASSUME NEW d \in Dumps, NEW what,
         \A e \in Dumps \ {d} : Told(e)' = Told(e),
         Told(d)' = what
  PROVE  ToldAll' = [ToldAll EXCEPT ![d] = what]
BY DEF ToldAll

(* A step of one dump tells the others' callers nothing.                   *)
LEMMA OthersUntold ==
  ASSUME NEW d \in Dumps, NEW next, NEW what, TypeOK,
         at' = [at EXCEPT ![d] = next],
         answer' = [answer EXCEPT ![d] = what] \/ UNCHANGED answer
  PROVE  \A e \in Dumps \ {d} : Told(e)' = Told(e)
<1> TAKE e \in Dumps \ {d}
<1>1. at[e]' = at[e] /\ answer[e]' = answer[e]
  BY DEF TypeOK
<1> QED BY <1>1 DEF Told

(* A step that neither starts from the end nor reaches it tells nobody.    *)
LEMMA QuietStep ==
  ASSUME NEW d \in Dumps, NEW next, NEW what, TypeOK,
         at[d] \notin {"done", "crashed"},
         next \notin {"done", "crashed"},
         at' = [at EXCEPT ![d] = next],
         answer' = [answer EXCEPT ![d] = what] \/ UNCHANGED answer
  PROVE  \A e \in Dumps : Told(e)' = Told(e)
<1>1. \A e \in Dumps \ {d} : Told(e)' = Told(e)
  BY OthersUntold
<1>2. Told(d) = "nothing" /\ Told(d)' = "nothing"
  BY DEF TypeOK, Told
<1> QED BY <1>1, <1>2

(* What the caller of a dump that ends is told.                            *)
LEMMA LastStep ==
  ASSUME NEW d \in Dumps, TypeOK,
         at[d] \notin {"done", "crashed"},
         at' = [at EXCEPT ![d] = "done"]
  PROVE  /\ Told(d) = "nothing"
         /\ answer'[d] \in Successes => Told(d)' = "succeeded"
         /\ answer'[d] \notin Successes => Told(d)' = "failed"
BY DEF TypeOK, Told

Refined == [Promise!Next]_(Promise!vars)

LEMMA StutterRefined ==
  ASSUME UNCHANGED path, \A e \in Dumps : Told(e)' = Told(e)
  PROVE  Refined
BY NobodyTold DEF Refined, Promise!vars, Finished, ToldAll

(* One lemma for each thing DumpPromise says a dump may do.                *)
LEMMA FailRefined ==
  ASSUME NEW d \in Dumps, DumpInv, UNCHANGED path,
         Told(d) = "nothing", Told(d)' = "failed", path.by # d,
         \A e \in Dumps \ {d} : Told(e)' = Told(e)
  PROVE  Refined
<1>1. Promise!Fail(d)
  BY OneTold DEF Promise!Fail, Promise!Told, Finished, ToldAll
<1> QED BY <1>1 DEF Refined, Promise!Next

LEMMA SucceedRefined ==
  ASSUME NEW d \in Dumps, DumpInv, UNCHANGED path,
         Told(d) = "nothing", Told(d)' = "succeeded",
         path.by = d, path.has # "part",
         \A e \in Dumps \ {d} : Told(e)' = Told(e)
  PROVE  Refined
<1>1. Promise!Succeed(d)
  BY OneTold DEF Promise!Succeed, Promise!Told, Finished, ToldAll
<1> QED BY <1>1 DEF Refined, Promise!Next

LEMMA DieRefined ==
  ASSUME NEW d \in Dumps, DumpInv, UNCHANGED path,
         Told(d) = "nothing", Told(d)' = "died",
         \A e \in Dumps \ {d} : Told(e)' = Told(e)
  PROVE  Refined
<1>1. Promise!Die(d)
  BY OneTold DEF Promise!Die, Promise!Told, Finished, ToldAll
<1> QED BY <1>1 DEF Refined, Promise!Next

LEMMA ClaimRefined ==
  ASSUME NEW d \in Dumps, path = Nothing, path' = Written(d, "part"),
         \A e \in Dumps : Told(e)' = Told(e)
  PROVE  Refined
<1>1. Promise!Claim(d)
  BY NobodyTold, DumpsAssumption
  DEF Promise!Claim, Finished, ToldAll, Nothing, Written
<1> QED BY <1>1 DEF Refined, Promise!Next

LEMMA CompleteRefined ==
  ASSUME NEW d \in Dumps, path.by = d, path.has = "part",
         path' \in {Written(d, "whole"), Written(d, "damaged")},
         \A e \in Dumps : Told(e)' = Told(e)
  PROVE  Refined
<1>1. Promise!Complete(d)
  BY NobodyTold, DumpsAssumption
  DEF Promise!Complete, Finished, ToldAll, Written
<1> QED BY <1>1 DEF Refined, Promise!Next

LEMMA WithdrawRefined ==
  ASSUME NEW d \in Dumps, path.by = d, path' = Nothing,
         Told(d) = "nothing", Told(d)' \in {"nothing", "failed"},
         \A e \in Dumps \ {d} : Told(e)' = Told(e)
  PROVE  Refined
<1>1. ToldAll' = ToldAll \/ ToldAll' = [ToldAll EXCEPT ![d] = "failed"]
  BY NobodyTold, OneTold
<1>2. Promise!Withdraw(d)
  BY <1>1, DumpsAssumption
  DEF Promise!Withdraw, Promise!Told, Finished, ToldAll, Nothing
<1> QED BY <1>2 DEF Refined, Promise!Next

-----------------------------------------------------------------------------
(* Each step of a dump is one of those, or a stutter.                      *)

LEMMA LookRefines ==
  ASSUME NEW d \in Dumps, NEW next, next \in {"looked", "ready"},
         DumpInv, Look(d, next) \/ LookRefused(d)
  PROVE  Refined
<1> USE DEF Look, LookRefused, Goto, Decide, Answer, Fixed, server
<1>1. TypeOK /\ at[d] = "start" /\ path.by # d /\ UNCHANGED path
  BY DEF DumpInv, FileInv
<1>2. CASE Goto(d, next) /\ UNCHANGED answer
  BY <1>1, <1>2, QuietStep, StutterRefined
<1>3. CASE \E what \in {"dryrun", "exists"} : Answer(d, what)
  <2>1. PICK what \in {"dryrun", "exists"} : Answer(d, what)
    BY <1>3
  <2>2. answer'[d] \notin Successes
    BY <1>1, <2>1 DEF TypeOK, Successes
  <2>3. \A e \in Dumps \ {d} : Told(e)' = Told(e)
    BY <1>1, <2>1, OthersUntold
  <2> QED BY <1>1, <2>1, <2>2, <2>3, LastStep, FailRefined
<1> QED BY <1>2, <1>3

(* A step that ends a dump in failure with nothing of its own at the path. *)
LEMMA FailingStep ==
  ASSUME NEW d \in Dumps, NEW what, what \in {"exists", "failed"},
         DumpInv, at[d] \notin {"done", "crashed"}, path.by # d,
         UNCHANGED path, Answer(d, what)
  PROVE  Refined
<1> USE DEF Goto, Decide, Answer
<1>1. TypeOK
  BY DEF DumpInv
<1>2. answer'[d] \notin Successes
  BY <1>1 DEF TypeOK, Successes
<1>3. \A e \in Dumps \ {d} : Told(e)' = Told(e)
  BY <1>1, OthersUntold
<1> QED BY <1>1, <1>2, <1>3, LastStep, FailRefined

LEMMA BeforeFileRefines ==
  ASSUME NEW d \in Dumps, NEW next, next \in {"described", "ready"},
         DumpInv, Describe(d, next) \/ AskForCopy(d) \/ CopyNamed(d) \/ CopyUnknown(d)
  PROVE  Refined
<1> USE DEF Describe, AskForCopy, CopyNamed, CopyUnknown, Fixed, server
<1>1. TypeOK /\ UNCHANGED path /\ path.by # d
      /\ at[d] \in {"looked", "described", "staging"}
  BY DEF DumpInv, FileInv
<1>2. CASE Answer(d, "failed")
  BY <1>1, <1>2, FailingStep
<1>3. CASE \E to \in {"described", "ready", "staging"} :
             Goto(d, to) /\ UNCHANGED answer
  <2>1. PICK to \in {"described", "ready", "staging"} :
          Goto(d, to) /\ UNCHANGED answer
    BY <1>3
  <2> QED BY <1>1, <2>1, QuietStep, StutterRefined DEF Goto
<1> QED BY <1>2, <1>3

LEMMA CreateRefines ==
  ASSUME NEW d \in Dumps, DumpInv, Create(d, "ready")
  PROVE  Refined
<1> USE DEF Create, Goto, Fixed, server
<1>1. TypeOK
  BY DEF DumpInv
<1>2. \A e \in Dumps : Told(e)' = Told(e)
  BY <1>1, QuietStep
<1> QED BY <1>2, ClaimRefined

LEMMA CreateFailsRefines ==
  ASSUME NEW d \in Dumps, NEW next, next \in {"cleaning", "done"},
         DumpInv, CreateFails(d, "ready", next)
  PROVE  Refined
<1> USE DEF CreateFails, Goto, Decide, Fixed, server
<1>1. TypeOK /\ UNCHANGED path /\ path.by # d /\ at[d] = "ready"
  BY DEF DumpInv, FileInv
<1>2. PICK what \in {"exists", "failed"} : Decide(d, what)
  OBVIOUS
<1>3. CASE next = "cleaning"
  BY <1>1, <1>2, <1>3, QuietStep, StutterRefined
<1>4. CASE next = "done"
  BY <1>1, <1>2, <1>4, FailingStep DEF Answer
<1> QED BY <1>3, <1>4

LEMMA StreamEndsRefines ==
  ASSUME NEW d \in Dumps, DumpInv, StreamEnds(d)
  PROVE  Refined
<1> USE DEF StreamEnds, Goto, Fixed, server
<1>1. TypeOK /\ path.by = d /\ path.has = "part"
  BY DEF DumpInv, FileInv
<1>2. \A e \in Dumps : Told(e)' = Told(e)
  BY <1>1, QuietStep
<1>3. path' \in {Written(d, "whole"), Written(d, "damaged")}
  OBVIOUS
<1> QED BY <1>1, <1>2, <1>3, CompleteRefined

LEMMA WriteFailsRefines ==
  ASSUME NEW d \in Dumps, NEW next, next \in {"cleaning", "done"},
         DumpInv, WriteFails(d, next)
  PROVE  Refined
<1> USE DEF WriteFails, Goto, Decide, Fixed, server
<1>1. TypeOK /\ path.by = d /\ at[d] \in {"writing", "closed"}
  BY DEF DumpInv, FileInv
<1>2. \A e \in Dumps \ {d} : Told(e)' = Told(e)
  BY <1>1, OthersUntold
<1>3. Told(d) = "nothing" /\ Told(d)' \in {"nothing", "failed"}
  <2>1. CASE next = "cleaning"
    BY <1>1, <2>1 DEF TypeOK, Told
  <2>2. CASE next = "done"
    <3>1. answer'[d] \notin Successes
      BY <1>1 DEF TypeOK, Successes
    <3> QED BY <1>1, <2>2, <3>1, LastStep
  <2> QED BY <2>1, <2>2
<1> QED BY <1>1, <1>2, <1>3, WithdrawRefined

LEMMA SucceedsRefines ==
  ASSUME NEW d \in Dumps, NEW what, what \in {"ok", "unverified"},
         DumpInv, Succeeds(d, what)
  PROVE  Refined
<1> USE DEF Succeeds, Answer, Goto, Decide, Fixed, server
<1>1. TypeOK /\ path.by = d /\ path.has # "part" /\ at[d] = "closed"
  BY DEF DumpInv, FileInv
<1>2. \A e \in Dumps \ {d} : Told(e)' = Told(e)
  BY <1>1, OthersUntold
<1>3. answer'[d] \in Successes
  BY <1>1 DEF TypeOK, Successes
<1> QED BY <1>1, <1>2, <1>3, LastStep, SucceedRefined

LEMMA FetchEndsRefines ==
  ASSUME NEW d \in Dumps, DumpInv, FetchEnds(d)
  PROVE  Refined
<1> USE DEF FetchEnds, Goto, Decide, Fixed, server
<1>1. TypeOK
  BY DEF DumpInv
<1> QED BY <1>1, QuietStep, StutterRefined

(* The removal of the server's copy is when a qdrant dump answers.         *)
LEMMA RemoveCopyRefines ==
  ASSUME NEW d \in Dumps, DumpInv, RemoveCopy(d)
  PROVE  Refined
<1> USE DEF RemoveCopy, Goto, Fixed, server
<1>1. TypeOK /\ UNCHANGED path /\ at[d] = "cleaning"
      /\ answer[d] \in {"ok", "exists", "failed"}
      /\ (answer[d] = "ok" => path.by = d /\ path.has = "whole")
      /\ (path.by = d => answer[d] \in Successes)
  BY DEF DumpInv, FileInv
<1>2. PICK what : answer' = [answer EXCEPT ![d] = what] \/ UNCHANGED answer
  OBVIOUS
<1>3. \A e \in Dumps \ {d} : Told(e)' = Told(e)
  BY <1>1, <1>2, OthersUntold
<1>4. CASE answer[d] = "ok"
  <2>1. answer'[d] \in Successes
    BY <1>1, <1>4 DEF TypeOK, Successes
  <2> QED BY <1>1, <1>3, <1>4, <2>1, LastStep, SucceedRefined
<1>5. CASE answer[d] \in {"exists", "failed"}
  <2>1. answer'[d] \notin Successes /\ path.by # d
    BY <1>1, <1>5 DEF TypeOK, Successes
  <2> QED BY <1>1, <1>3, <2>1, LastStep, FailRefined
<1> QED BY <1>1, <1>4, <1>5

LEMMA OutsideRefines ==
  ASSUME NEW d \in Dumps, DumpInv, ServerCopies(d) \/ Cancel(d) \/ Crash(d)
  PROVE  Refined
<1> USE DEF ServerCopies, Cancel, Crash, Over, Goto, Fixed, server
<1>1. TypeOK
  BY DEF DumpInv
<1>2. CASE ServerCopies(d) \/ Cancel(d)
  <2>1. \A e \in Dumps : Told(e)' = Told(e)
    BY <1>2 DEF Told
  <2> QED BY <1>2, <2>1, StutterRefined
<1>3. CASE Crash(d)
  <2>1. Told(d) = "nothing" /\ Told(d)' = "died"
    BY <1>1, <1>3 DEF TypeOK, Told
  <2>2. \A e \in Dumps \ {d} : Told(e)' = Told(e)
    BY <1>1, <1>3, OthersUntold
  <2> QED BY <1>3, <2>1, <2>2, DieRefined
<1> QED BY <1>2, <1>3

LEMMA PeopleRefine ==
  ASSUME DumpInv, Deposit \/ MoveAside
  PROVE  Refined
<1> USE DumpsAssumption DEF Deposit, MoveAside, Over, Nothing, Written, Fixed, server
<1>1. \A e \in Dumps : Told(e)' = Told(e)
  BY DEF Told
<1>2. TypeOK /\ PathInv /\ \A d \in Dumps : FileInv(d)
  BY DEF DumpInv
<1>3. CASE Deposit
  <2>1. Promise!Deposit
    BY <1>1, <1>2, <1>3, NobodyTold DEF Promise!Deposit, Finished, ToldAll
  <2> QED BY <2>1 DEF Refined, Promise!Next
<1>4. CASE MoveAside
  <2>1. path.by # Absent
    BY <1>2, <1>4 DEF TypeOK, PathInv
  <2>2. \A d \in Dumps : path.by = d => Told(d) \in {"succeeded", "died"}
    BY <1>2, <1>4 DEF FileInv, Told
  <2>3. Promise!MoveAside
    BY <1>1, <1>4, <2>1, <2>2, NobodyTold DEF Promise!MoveAside, Finished, ToldAll
  <2> QED BY <2>3 DEF Refined, Promise!Next
<1> QED BY <1>3, <1>4

LEMMA EnginesRefine ==
  ASSUME NEW d \in Dumps, DumpInv, DumpStep(d)
  PROVE  Refined
<1>1. CASE PgDump(d)
  <2> USE <1>1 DEF PgDump
  <2> QED BY LookRefines, BeforeFileRefines, CreateRefines, CreateFailsRefines,
             StreamEndsRefines, WriteFailsRefines, SucceedsRefines
<1>2. CASE MysqlDump(d)
  <2> USE <1>2 DEF MysqlDump
  <2> QED BY LookRefines, BeforeFileRefines, CreateRefines, CreateFailsRefines,
             StreamEndsRefines, WriteFailsRefines, SucceedsRefines
<1>3. CASE QdrantDump(d)
  <2> USE <1>3 DEF QdrantDump
  <2> QED BY LookRefines, BeforeFileRefines, CreateRefines, CreateFailsRefines,
             StreamEndsRefines, WriteFailsRefines, FetchEndsRefines,
             RemoveCopyRefines
<1>4. CASE VaultSnapshot(d)
  <2> USE <1>4 DEF VaultSnapshot
  <2> QED BY LookRefines, CreateRefines, CreateFailsRefines, StreamEndsRefines,
             WriteFailsRefines, SucceedsRefines
<1>5. CASE EtcdSnapshot(d)
  <2> USE <1>5 DEF EtcdSnapshot, Verified
  <2> QED BY LookRefines, BeforeFileRefines, CreateRefines, CreateFailsRefines,
             StreamEndsRefines, WriteFailsRefines, SucceedsRefines
<1> QED BY <1>1, <1>2, <1>3, <1>4, <1>5 DEF DumpStep

LEMMA StepRefines == DumpInv /\ [Next]_vars => [Promise!Next]_(Promise!vars)
<1> SUFFICES ASSUME DumpInv, [Next]_vars PROVE Refined
  BY DEF Refined
<1>1. CASE UNCHANGED vars
  <2>1. \A e \in Dumps : Told(e)' = Told(e)
    BY <1>1 DEF vars, Told
  <2> QED BY <1>1, <2>1, StutterRefined DEF vars
<1>2. CASE Deposit \/ MoveAside
  BY <1>2, PeopleRefine
<1>3. CASE \E d \in Dumps : DumpStep(d) \/ ServerCopies(d) \/ Cancel(d) \/ Crash(d)
  BY <1>3, EnginesRefine, OutsideRefines
<1> QED BY <1>1, <1>2, <1>3 DEF Next

LEMMA InitRefines == Init => Promise!Init
<1> SUFFICES ASSUME Init PROVE Promise!Init
  OBVIOUS
<1> USE DumpsAssumption DEF Init, Nothing, Written
<1>1. path.by \in {Absent, Foreign}
  OBVIOUS
<1>2. Finished = (path.by = Foreign)
  <2>1. Finished <=> path.by = Foreign
    BY DEF Finished
  <2>2. Finished \in BOOLEAN
    BY Zenon DEF Finished
  <2> QED BY <2>1, <2>2
<1>3. [d \in Dumps |-> Told(d)] = [d \in Dumps |-> "nothing"]
  <2>1. \A d \in Dumps : Told(d) = "nothing"
    BY DEF Told
  <2> QED BY <2>1, Zenon
<1> QED BY Zenon, <1>1, <1>2, <1>3 DEF Promise!Init

(* Every engine's dump, however many name the path and whatever fails,     *)
(* implements DumpPromise: it claims a free path, takes back only what it  *)
(* has not told of, and leaves alone what it has.                          *)
THEOREM DumpImplementsPromise == Spec => KeepsPromise
<1>1. Init => Promise!Init
  BY InitRefines
<1>2. DumpInv /\ [Next]_vars => [Promise!Next]_(Promise!vars)
  BY StepRefines
<1> QED BY <1>1, <1>2, DumpInvariant, PTL DEF Spec, KeepsPromise, Promise!Spec

-----------------------------------------------------------------------------
(* Restores beside dumps.  No restore touches what a dump relies on, so    *)
(* all of the above holds beside them; what a restore read from the path   *)
(* is then a file nobody was writing, unless its dump had not answered.    *)

(* What others put at the path is whole.                                   *)
ForeignWhole == path.by = Foreign => path.has = "whole"

RestoresTyped ==
  /\ wants \in [Restores -> Wants]
  /\ step \in [Restores -> {"start", "checked", "cleared", "running", "done"}]
  /\ told \in [Restores -> {"pending", "dryrun", "refused", "failed", "ok"}]
  /\ source \in [Restores -> [by : Dumps \cup {Absent, Foreign},
                              has : {"nothing", "part", "whole", "damaged"},
                              answered : BOOLEAN]]
  /\ held \subseteq Rows \cup Restores
  /\ seen \in [Restores -> SUBSET (Rows \cup Restores)]
  /\ put \in [Restores -> {"none", "part", "whole"}]

(* A restore has told nothing, and put nothing, before it could have.      *)
InOrder(r) ==
  /\ step[r] # "done" => told[r] = "pending"
  /\ step[r] \notin {"running", "done"} => put[r] = "none"

(* A file whose dump had answered was not a part of one.                   *)
SourceInv(r) == source[r].answered => source[r].has # "part"

PutInv(r) ==
  /\ told[r] = "ok" => put[r] = Much(r)
  /\ Transactional(r) => put[r] \in {"none", Much(r)}

(* A restore that may not replace went on only past an empty target.       *)
SeenInv(r) ==
  step[r] \in {"cleared", "running"} /\ engine # "vault" /\ ~wants[r].replace
    => seen[r] = {}

RestoreInv ==
  /\ RestoresTyped
  /\ \A r \in Restores : InOrder(r) /\ SourceInv(r) /\ PutInv(r) /\ SeenInv(r)

(* What each step of a restore is made of leaves the dumps as they are.    *)
LEMMA DumpsBeside == BackupNext => [Next]_vars
BY DEF BackupNext, RestoreStep, CheckFile, FileRefused, CheckTarget, TargetRefused,
   Open, OpenFails, Land, NothingLands, LandSome, LandRest, Stop, PeoplePut, Untouched

LEMMA BackupIsDump == BackupSpec => Spec
<1>1. BackupInit => Init
  BY DEF BackupInit
<1>2. [BackupNext]_allVars => [Next]_vars
  BY DumpsBeside DEF allVars, vars
<1> QED BY <1>1, <1>2, PTL DEF BackupSpec, Spec

LEMMA ForeignStep == ForeignWhole /\ DumpInv /\ [Next]_vars => ForeignWhole'
<1> SUFFICES ASSUME ForeignWhole, DumpInv, [Next]_vars
             PROVE  ForeignWhole'
  OBVIOUS
<1>1. \/ path' = path
      \/ path' \in {Nothing, Written(Foreign, "whole")}
      \/ \E d \in Dumps, has \in {"part", "whole", "damaged"} : path' = Written(d, has)
  BY DEF Next, Deposit, MoveAside, DumpStep, PgDump, MysqlDump, QdrantDump,
     VaultSnapshot, EtcdSnapshot, Verified, Look, LookRefused, Describe, Create,
     CreateFails, StreamEnds, WriteFails, Succeeds, AskForCopy, CopyNamed, CopyUnknown,
     FetchEnds, RemoveCopy, ServerCopies, Cancel, Crash, vars
<1> QED BY <1>1, DumpsAssumption DEF ForeignWhole, Nothing, Written

LEMMA ForeignInvariant == Spec => []ForeignWhole
<1>1. Init => ForeignWhole
  BY DumpsAssumption DEF Init, ForeignWhole, Nothing, Written
<1> QED BY <1>1, ForeignStep, DumpInvariant, PTL DEF Spec

LEMMA RestoresInitially == BackupInit => RestoreInv
<1> SUFFICES ASSUME BackupInit PROVE RestoreInv
  OBVIOUS
<1> USE DEF BackupInit
<1>1. RestoresTyped
  BY DEF RestoresTyped, Offered
<1>2. ASSUME NEW r \in Restores
      PROVE  InOrder(r) /\ SourceInv(r) /\ PutInv(r) /\ SeenInv(r)
  BY DEF InOrder, SourceInv, PutInv, SeenInv
<1> QED BY <1>1, <1>2 DEF RestoreInv

(* The looks, before anything is opened.                                   *)
LEMMA CheckingStep ==
  ASSUME RestoreInv, NEW r \in Restores,
         CheckFile(r) \/ FileRefused(r) \/ CheckTarget(r) \/ TargetRefused(r) \/ OpenFails(r)
  PROVE  RestoreInv'
<1> USE DEF CheckFile, FileRefused, CheckTarget, TargetRefused, OpenFails, Reply, Proceed,
        Untouched, vars, target
<1>t. RestoresTyped
  BY DEF RestoreInv
<1>s. \E next \in {"checked", "cleared", "done"} : step' = [step EXCEPT ![r] = next]
  OBVIOUS
<1>1. RestoresTyped'
  <2>1. wants' \in [Restores -> Wants] /\ source' = source
    BY <1>t DEF RestoresTyped
  <2>2. step' \in [Restores -> {"start", "checked", "cleared", "running", "done"}]
    <3> HIDE DEF CheckFile, FileRefused, CheckTarget, TargetRefused, OpenFails
    <3> QED BY <1>t, <1>s DEF RestoresTyped
  <2>3. told' \in [Restores -> {"pending", "dryrun", "refused", "failed", "ok"}]
    BY <1>t DEF RestoresTyped
  <2>4. held' \subseteq Rows \cup Restores
    BY <1>t DEF RestoresTyped
  <2>5. seen' \in [Restores -> SUBSET (Rows \cup Restores)]
    BY <1>t DEF RestoresTyped
  <2>6. put' \in [Restores -> {"none", "part", "whole"}]
    BY <1>t DEF RestoresTyped
  <2> QED BY <1>t, <2>1, <2>2, <2>3, <2>4, <2>5, <2>6 DEF RestoresTyped
<1>2. ASSUME NEW q \in Restores
      PROVE  (InOrder(q) /\ SourceInv(q) /\ PutInv(q) /\ SeenInv(q))'
  <2>i. InOrder(q) /\ SourceInv(q) /\ PutInv(q) /\ SeenInv(q)
    BY DEF RestoreInv
  <2>1. InOrder(q)'
    BY <1>t, <2>i DEF RestoresTyped, InOrder
  <2>2. SourceInv(q)' /\ PutInv(q)'
    BY <1>t, <2>i DEF RestoresTyped, SourceInv, PutInv, Much, Transactional
  <2>3. SeenInv(q)'
    BY <1>t, <2>i DEF RestoresTyped, SeenInv, Occupied
  <2> QED BY <2>1, <2>2, <2>3
<1> QED BY <1>1, <1>2 DEF RestoreInv

(* What is opened: a dump that is done has left no part of a file.         *)
LEMMA OpenStep ==
  ASSUME RestoreInv, DumpInv, ForeignWhole, NEW r \in Restores, Open(r)
  PROVE  RestoreInv'
<1> USE DEF Open, Proceed, Untouched, vars, target
<1>t. RestoresTyped /\ TypeOK /\ PathInv
  BY DEF RestoreInv, DumpInv
<1> DEFINE file == [by |-> path.by, has |-> path.has,
                    answered |-> path.by \in Dumps => at[path.by] = "done"]
<1>s. source' = [source EXCEPT ![r] = file]
  OBVIOUS
<1>1. RestoresTyped'
  <2>1. file \in [by : Dumps \cup {Absent, Foreign},
                  has : {"nothing", "part", "whole", "damaged"}, answered : BOOLEAN]
    BY <1>t DEF TypeOK
  <2> HIDE DEF file
  <2> QED BY <1>t, <1>s, <2>1 DEF RestoresTyped
<1>2. file.answered => file.has # "part"
  <2> SUFFICES ASSUME path.by \in Dumps => at[path.by] = "done"
               PROVE  path.has # "part"
    OBVIOUS
  <2>1. CASE path.by \in Dumps
    BY <2>1 DEF DumpInv, FileInv
  <2>2. CASE path.by = Foreign
    BY <2>2 DEF ForeignWhole
  <2>3. CASE path.by = Absent
    BY <1>t, <2>3 DEF PathInv
  <2> QED BY <1>t, <2>1, <2>2, <2>3 DEF TypeOK
<1> HIDE DEF file
<1>3. ASSUME NEW q \in Restores
      PROVE  (InOrder(q) /\ SourceInv(q) /\ PutInv(q) /\ SeenInv(q))'
  <2>i. InOrder(q) /\ SourceInv(q) /\ PutInv(q) /\ SeenInv(q) /\ InOrder(r)
    BY DEF RestoreInv
  <2>1. InOrder(q)' /\ SeenInv(q)'
    BY <1>t, <2>i DEF RestoresTyped, InOrder, SeenInv
  <2>2. SourceInv(q)'
    BY <1>t, <1>s, <1>2, <2>i DEF RestoresTyped, SourceInv
  <2>3. PutInv(q)'
    <3>1. CASE q = r
      <4>1. put'[r] = "none" /\ told'[r] = "pending"
        BY <2>i DEF InOrder
      <4> QED BY <3>1, <4>1 DEF PutInv
    <3>2. CASE q # r
      <4>1. source'[q] = source[q]
        BY <1>t, <1>s, <3>2 DEF RestoresTyped
      <4> QED BY <2>i, <4>1 DEF PutInv, Much, Transactional
    <3> QED BY <3>1, <3>2
  <2> QED BY <2>1, <2>2, <2>3
<1> QED BY <1>1, <1>3 DEF RestoreInv

(* What the tool or the server does: at once what there is of the source,  *)
(* or, where nothing makes it one transaction, a part of it first.         *)
LEMMA LandingStep ==
  ASSUME RestoreInv, NEW r \in Restores,
         Land(r) \/ NothingLands(r) \/ LandSome(r) \/ LandRest(r) \/ Stop(r)
  PROVE  RestoreInv'
<1>t. RestoresTyped /\ step[r] = "running"
  BY DEF RestoreInv, Land, NothingLands, LandSome, LandRest, Stop
<1>c. UNCHANGED <<engine, wants, source, seen>>
  BY DEF Land, NothingLands, LandSome, LandRest, Stop, Untouched, vars, target
<1>m. Much(r) \in {"part", "whole"}
  BY DEF Much
<1>p. \E much \in {"part", "whole"} :
        /\ put' = [put EXCEPT ![r] = much] \/ put' = put
        /\ much = Much(r) \/ LandSome(r)
  BY <1>m DEF Land, Lands, PgLands, Replaced, NothingLands, LandSome, LandRest, Stop,
     Puts, target
<1>s. \/ LandSome(r) /\ step' = step /\ told' = told
      \/ step' = [step EXCEPT ![r] = "done"] /\ \E what \in {"ok", "failed"} :
            told' = [told EXCEPT ![r] = what]
  BY DEF Land, NothingLands, LandSome, LandRest, Stop, Reply
<1>h. held' \subseteq held \cup {r}
  BY DEF Land, Lands, PgLands, Replaced, NothingLands, LandSome, LandRest, Stop, target
<1>1. RestoresTyped'
  <2>1. wants' \in [Restores -> Wants] /\ source' = source
    BY <1>t, <1>c DEF RestoresTyped
  <2>2. step' \in [Restores -> {"start", "checked", "cleared", "running", "done"}]
    BY <1>t, <1>s DEF RestoresTyped
  <2>3. told' \in [Restores -> {"pending", "dryrun", "refused", "failed", "ok"}]
    BY <1>t, <1>s DEF RestoresTyped
  <2>4. held' \subseteq Rows \cup Restores
    BY <1>t, <1>h DEF RestoresTyped
  <2>5. seen' \in [Restores -> SUBSET (Rows \cup Restores)]
    BY <1>t, <1>c DEF RestoresTyped
  <2>6. put' \in [Restores -> {"none", "part", "whole"}]
    BY <1>t, <1>p DEF RestoresTyped
  <2> QED BY <1>t, <2>1, <2>2, <2>3, <2>4, <2>5, <2>6 DEF RestoresTyped
<1>2. ASSUME NEW q \in Restores
      PROVE  (InOrder(q) /\ SourceInv(q) /\ PutInv(q) /\ SeenInv(q))'
  <2>i. InOrder(q) /\ SourceInv(q) /\ PutInv(q) /\ SeenInv(q) /\ InOrder(r) /\ PutInv(r)
    BY DEF RestoreInv
  <2>1. InOrder(q)'
    BY <1>t, <1>p, <1>s, <2>i DEF RestoresTyped, InOrder
  <2>2. SourceInv(q)' /\ SeenInv(q)'
    BY <1>t, <1>c, <1>s, <2>i DEF RestoresTyped, SourceInv, SeenInv
  <2>3. CASE q # r
    <3>1. put'[q] = put[q] /\ told'[q] = told[q]
      BY <1>t, <1>p, <1>s, <2>3 DEF RestoresTyped
    <3>2. PutInv(q)'
      BY <1>c, <2>i, <3>1 DEF PutInv, Much, Transactional
    <3> QED BY <2>1, <2>2, <3>2
  <2>4. CASE q = r
    <3>1. (Much(r) = Much(r)') /\ (Transactional(r) <=> Transactional(r)')
      BY <1>c DEF Much, Transactional
    <3>2. CASE LandSome(r)
      <4>1. ~Transactional(r)
        BY <3>2 DEF LandSome, Piecemeal, Transactional
      <4>2. told'[r] = "pending"
        BY <1>t, <2>i, <3>2 DEF InOrder, LandSome
      <4> QED BY <2>1, <2>2, <2>4, <3>1, <4>1, <4>2 DEF PutInv
    <3>3. CASE Land(r) \/ LandRest(r)
      <4>1. put' = [put EXCEPT ![r] = Much(r)]
        BY <3>3 DEF Land, Lands, PgLands, Replaced, LandRest, Puts
      <4>2. put'[r] = Much(r)
        BY <1>t, <4>1 DEF RestoresTyped
      <4> QED BY <2>1, <2>2, <2>4, <3>1, <4>2 DEF PutInv
    <3>4. CASE NothingLands(r) \/ Stop(r)
      <4>1. put'[r] = put[r] /\ told'[r] = "failed"
        BY <1>t, <3>4 DEF NothingLands, Stop, Reply, target, RestoresTyped
      <4> QED BY <2>1, <2>2, <2>4, <2>i, <3>1, <4>1 DEF PutInv
    <3> QED BY <3>2, <3>3, <3>4
  <2> QED BY <2>3, <2>4
<1> QED BY <1>1, <1>2 DEF RestoreInv

(* Steps that are no restore's.                                            *)
LEMMA BesideRestores ==
  ASSUME RestoreInv, DumpInv, [Next]_vars,
         UNCHANGED restoreVars \/ \E x \in Rows : PeoplePut(x)
  PROVE  RestoreInv'
<1>1. engine' = engine
  BY DEF Next, Deposit, MoveAside, DumpStep, PgDump, MysqlDump, QdrantDump,
     VaultSnapshot, EtcdSnapshot, Verified, Look, LookRefused, Describe, Create,
     CreateFails, StreamEnds, WriteFails, Succeeds, AskForCopy, CopyNamed, CopyUnknown,
     FetchEnds, RemoveCopy, ServerCopies, Cancel, Crash, Fixed, Answer, vars
<1>2. UNCHANGED <<wants, step, told, source, seen, put>>
  BY DEF restoreVars, PeoplePut, Untouched, target
<1>3. held' \subseteq held \cup Rows
  BY DEF restoreVars, PeoplePut, target
<1>4. RestoresTyped'
  BY <1>2, <1>3 DEF RestoreInv, RestoresTyped
<1>5. ASSUME NEW q \in Restores
      PROVE  (InOrder(q) /\ SourceInv(q) /\ PutInv(q) /\ SeenInv(q))'
  BY <1>1, <1>2 DEF RestoreInv, InOrder, SourceInv, PutInv, SeenInv, Much, Transactional
<1> QED BY <1>4, <1>5 DEF RestoreInv

(* The inductive invariant of the restores: nothing is told before it is   *)
(* done, what is put is what was there to put, and a target is written     *)
(* only past the look that allowed it.                                     *)
THEOREM RestoreInvariant == BackupSpec => []RestoreInv
<1>1. RestoreInv /\ DumpInv /\ ForeignWhole /\ [BackupNext]_allVars => RestoreInv'
  <2> SUFFICES ASSUME RestoreInv, DumpInv, ForeignWhole, [BackupNext]_allVars
               PROVE  RestoreInv'
    OBVIOUS
  <2>1. CASE \E r \in Restores : RestoreStep(r)
    BY <2>1, CheckingStep, OpenStep, LandingStep DEF RestoreStep
  <2>2. CASE (Next /\ UNCHANGED restoreVars) \/ UNCHANGED allVars
    BY <2>2, BesideRestores DEF allVars
  <2>3. CASE \E x \in Rows : PeoplePut(x)
    BY <2>3, BesideRestores DEF PeoplePut, Untouched
  <2> QED BY <2>1, <2>2, <2>3 DEF BackupNext
<1> QED BY <1>1, RestoresInitially, BackupIsDump, DumpInvariant, ForeignInvariant, PTL
        DEF BackupSpec

(* A restore that answers success has put the whole of a backup there,     *)
(* unless it was pointed at a file whose dump had not answered.            *)
THEOREM RestoresAreWhole == BackupSpec => []RestoredIsWhole
<1>1. RestoreInv => RestoredIsWhole
  BY DEF RestoreInv, PutInv, SourceInv, Much, RestoredIsWhole
<1> QED BY <1>1, RestoreInvariant, PTL

(* Without jobs, pg.restore leaves all of a file that was whole, or none.  *)
THEOREM PgRestoresAllOrNothing == BackupSpec => []PgAllOrNothing
<1>1. RestoreInv => PgAllOrNothing
  BY DEF RestoreInv, PutInv, Much, PgAllOrNothing
<1> QED BY <1>1, RestoreInvariant, PTL

(* What a restore saw in its target it takes only where its caller asked,  *)
(* or where its server replaces the whole storage; under pg it takes       *)
(* nothing else either (checkTarget of the four restores).                 *)
THEOREM RestoresLoseNothing == BackupSpec => NothingSeenIsLost
<1>1. ASSUME RestoreInv, [BackupNext]_allVars, NEW x \in held \ held'
      PROVE  \E r \in Restores : step[r] = "running" /\ MayLose(r, x)
  <2>1. PICK r \in Restores : Land(r) \/ LandSome(r)
    BY <1>1 DEF BackupNext, RestoreStep, CheckFile, FileRefused, CheckTarget,
       TargetRefused, Open, OpenFails, NothingLands, LandRest, Stop, PeoplePut,
       allVars, restoreVars, target
  <2>2. step[r] = "running"
    BY <2>1 DEF Land, LandSome
  <2>3. wants[r].replace \/ engine \in {"vault", "mysql", "qdrant"}
    BY <1>1, <2>1 DEF Land, Lands, Transactional, PgLands, LandSome
  <2>4. engine # "vault" /\ ~wants[r].replace => x \notin seen[r]
    BY <1>1, <2>2 DEF RestoreInv, SeenInv
  <2> QED BY <2>2, <2>3, <2>4 DEF MayLose
<1>2. RestoreInv /\ [BackupNext]_allVars
        => [\A x \in held \ held' :
              \E r \in Restores : step[r] = "running" /\ MayLose(r, x)]_allVars
  BY <1>1
<1> QED BY <1>2, RestoreInvariant, PTL DEF BackupSpec, NothingSeenIsLost
=============================================================================
