----------------------------- MODULE VaultPage -----------------------------
(***************************************************************************)
(* vault.overview: the seal status, the leader, the token, and with a      *)
(* token that has no use limit the raft state, the mounts, the auth        *)
(* methods and the policies.                                               *)
(*                                                                         *)
(* A Vault is a record: whether it is initialized and sealed, whether this *)
(* node serves, whether its storage is raft and what autopilot says of it, *)
(* which reads the token's policy allows, and the uses the token has, 0    *)
(* for no limit.                                                           *)
(***************************************************************************)
EXTENDS Findings, FiniteSets

\* Every read but the first two carries the token, and spends a use of it.
SpendsAUse == {"token", "raft", "engines", "auths", "policies"}

---------------------------------------------------------------------------
(* readVault *)

\* note: an answer the token's policy did not refuse.
Has(got, of, read) == <<read, "-">> \in got /\ read \in of[<<read, "-">>].may

\* stopped: sealed or not initialized, a Vault is asked nothing more.
Stopped(got, of) ==
  Has(got, of, "seal") /\ (of[<<"seal", "-">>].sealed \/ ~of[<<"seal", "-">>].initialized)

\* usesLeft: a token with a limit, or one whose last use this lookup was.
Spared(got, of) == Has(got, of, "token") /\ of[<<"token", "-">>].uses > 0

\* Mutant: a token with a use limit is read, and then for everything else.
AsksAll(got, of) ==
  <<"seal">> \o
  (IF Stopped(got, of) THEN <<>>
   ELSE <<"leader", "token">>
        \o (IF Has(got, of, "seal") /\ of[<<"seal", "-">>].raft THEN <<"raft">> ELSE <<>>)
        \o <<"engines", "auths", "policies">>)

\* The rest are asked one after another, the raft state where the storage is raft.
Asks(got, of) ==
  <<"seal">> \o
  (IF Stopped(got, of) THEN <<>>
   ELSE <<"leader", "token">> \o
        (IF Spared(got, of) THEN <<>>
         ELSE (IF Has(got, of, "seal") /\ of[<<"seal", "-">>].raft THEN <<"raft">> ELSE <<>>)
                \o <<"engines", "auths", "policies">>))

VaultDue(done, got, of) ==
  LET left == SelectSeq(Asks(got, of), LAMBDA read : <<read, "-">> \notin done) IN
  IF left = <<>> THEN {} ELSE {<<Head(left), "-">>}

\* A seal status that failed, but for the token's policy, ends the read; and a page that
\* read nothing at all is not one (nothingRead).
VaultFails(done, got, of) ==
  \/ <<"seal", "-">> \in done \ got
  \/ VaultDue(done, got, of) = {} /\ \A read \in done : ~Has(got, of, read[1])

---------------------------------------------------------------------------
(* vaultRead.rows *)

Unread(read) == Finding(Warn, read \o " unread")

\* nodeRow: a standby is no fault, and a cluster with no active node is.
NodeFound(got, of) ==
  IF ~Has(got, of, "leader") THEN Unread("node")
  ELSE FoundIf(of[<<"leader", "-">>].node = "leaderless", Fail, "no active node")

\* raftRow: a Vault too old for autopilot is no fault.  The row is there where the
\* storage is known to be raft, and spared or refused it says so.
RaftFound(got, of) ==
  IF ~(Has(got, of, "seal") /\ of[<<"seal", "-">>].raft) THEN <<>>
  ELSE IF ~Has(got, of, "raft") THEN Unread("raft")
  ELSE FoundIf(of[<<"raft", "-">>].autopilot = "unhealthy", Warn, "raft not healthy")

\* mountsRow: two reads and one row, which is unread where either is.
MountsFound(got, of) ==
  IF Has(got, of, "engines") /\ Has(got, of, "auths") THEN <<>> ELSE Unread("mounts")

\* rows: in the order that puts the node before the cluster before the token.  A Vault
\* that is stopped is its state alone.
VaultFound(got, of) ==
  IF Stopped(got, of) THEN Finding(Fail, "stopped")
  ELSE NodeFound(got, of) \o RaftFound(got, of)
         \o (IF Has(got, of, "token") THEN <<>> ELSE Unread("token"))
         \o MountsFound(got, of)
         \o (IF Has(got, of, "policies") THEN <<>> ELSE Unread("policies"))
         \o (IF Has(got, of, "seal") THEN <<>> ELSE Unread("state"))

---------------------------------------------------------------------------
(* What is the case, whatever the page makes of it. *)

\* A stopped Vault refuses everything but its seal status.
VaultTrouble(s, what) ==
  LET stopped == s.sealed \/ ~s.initialized IN
  CASE what = "stopped"          -> stopped
    [] what = "no active node"   -> ~stopped /\ s.node = "leaderless"
    [] what = "raft not healthy" -> ~stopped /\ s.raft /\ s.autopilot = "unhealthy"

VaultFatal == {"stopped", "no active node"}
VaultTroubles == VaultFatal \cup {"raft not healthy"}

=============================================================================
