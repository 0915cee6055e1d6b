------------------------------ MODULE Findings ------------------------------
(***************************************************************************)
(* What every overview is made of: findings, each a fact with how bad it   *)
(* is, and the status row, which leads with the worst of them.             *)
(***************************************************************************)
EXTENDS Integers, Sequences, SequencesExt

CONSTANTS
  UsageWarn          \* tenths of a percent from which a share is amber (view.UsageWarn)

ASSUME UsageWarnAssumption == UsageWarn \in 1..1000

\* grade: nothing, warn, fail.
Fine == 0
Warn == 1
Fail == 2

Finding(grade, what) == <<[grade |-> grade, what |-> what]>>

\* A finding when the condition holds, and nothing otherwise.
FoundIf(condition, grade, what) == IF condition THEN Finding(grade, what) ELSE <<>>

\* verdict: the worst finding, the first of several equally bad, or ok.
Verdict(found) ==
  LET worst(i) == /\ \A j \in DOMAIN found : found[j].grade <= found[i].grade
                  /\ \A j \in 1..(i - 1) : found[j].grade < found[i].grade
  IN  IF found = <<>> THEN [grade |-> Fine, what |-> "ok"]
      ELSE found[CHOOSE i \in DOMAIN found : worst(i)]

NoShare == -1

\* usageShare, quotaShare: a share in tenths of a percent, rounded once, so that the
\* number printed is the number graded; and none where there is no ceiling.
UsageShare(used, max) ==
  IF max <= 0 \/ used < 0 THEN NoShare ELSE (2000 * used + max) \div (2 * max)

=============================================================================
