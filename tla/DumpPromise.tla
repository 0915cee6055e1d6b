---------------------------- MODULE DumpPromise ----------------------------
(***************************************************************************)
(* What every dump of the collection promises about the one path it was    *)
(* told to write, whichever server it reads: it writes where nothing was,  *)
(* touches nothing it did not write, and by the time it answers, the file  *)
(* is there for good or was never there.  The five engines' own steps are  *)
(* Dump.tla, which implements this.                                        *)
(***************************************************************************)
CONSTANTS
  Dumps,      (* Runs of a dump, all naming one path.                      *)
  Nobody,     (* The owner of a path with nothing at it.                   *)
  Someone     (* Whoever writes there and is no dump.                      *)

VARIABLES
  owner,      (* Who made what is at the path.                             *)
  complete,   (* What is at the path will not be written again.            *)
  told        (* What each dump's caller has been told.                    *)

vars == <<owner, complete, told>>

Init ==
  /\ owner \in {Nobody, Someone}
  /\ complete = (owner = Someone)
  /\ told = [d \in Dumps |-> "nothing"]

Told(d, what) == told' = [told EXCEPT ![d] = what]

(* A dump claims the path only when nothing is at it.                      *)
Claim(d) ==
  /\ owner = Nobody
  /\ owner' = d
  /\ complete' = FALSE
  /\ UNCHANGED told

Complete(d) ==
  /\ owner = d
  /\ ~complete
  /\ complete' = TRUE
  /\ UNCHANGED <<owner, told>>

(* What a dump wrote is taken back before anybody is told it is there, and *)
(* the failure may be told with it or after it.                            *)
Withdraw(d) ==
  /\ owner = d
  /\ told[d] = "nothing"
  /\ owner' = Nobody
  /\ complete' = FALSE
  /\ UNCHANGED told \/ Told(d, "failed")

Succeed(d) ==
  /\ told[d] = "nothing"
  /\ owner = d
  /\ complete
  /\ Told(d, "succeeded")
  /\ UNCHANGED <<owner, complete>>

Fail(d) ==
  /\ told[d] = "nothing"
  /\ owner # d
  /\ Told(d, "failed")
  /\ UNCHANGED <<owner, complete>>

(* The process dies untold, and leaves whatever it had written.            *)
Die(d) ==
  /\ told[d] = "nothing"
  /\ Told(d, "died")
  /\ UNCHANGED <<owner, complete>>

(* People put files there, and move one nobody is writing out of the way.  *)
Deposit ==
  /\ owner = Nobody
  /\ owner' = Someone
  /\ complete' = TRUE
  /\ UNCHANGED told

MoveAside ==
  /\ owner # Nobody
  /\ \A d \in Dumps : owner = d => told[d] \in {"succeeded", "died"}
  /\ owner' = Nobody
  /\ complete' = FALSE
  /\ UNCHANGED told

Next ==
  \/ Deposit \/ MoveAside
  \/ \E d \in Dumps : Claim(d) \/ Complete(d) \/ Withdraw(d) \/ Succeed(d) \/ Fail(d)
                         \/ Die(d)

Spec == Init /\ [][Next]_vars
=============================================================================
