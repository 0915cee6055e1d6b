--------------------------- MODULE Docker_proofs ---------------------------
(***************************************************************************)
(* Proofs about Docker: for any number of calls, containers and names.  A  *)
(* stop whose inspect answered keeps to the container it answered with,    *)
(* and what it was told of --rm stays true: what is started with --rm is   *)
(* settled when a container is made, and one that ran goes as it stops.    *)
(***************************************************************************)
EXTENDS Docker, TLAPS

(* A call that has not acted has done nothing.                             *)
Untouched(k) == at[k] # "done" => acted[k] = None /\ effect[k] = "nothing"

(* A stop that judged a container is aimed at that container.              *)
Aimed(k) ==
  /\ at[k] = "start" => judged[k] = None /\ ~removes[k]
  /\ judged[k] # None =>
       /\ call[k].verb = "stop"
       /\ target[k] = judged[k]
       /\ state[judged[k]] # "unused"
       /\ acted[k] \in {judged[k], None}

(* A stop that will remove its container is no agent's, unless it is over  *)
(* and did nothing; the container runs, or has gone.                       *)
Sworn(k) ==
  removes[k] =>
    /\ judged[k] # None
    /\ judged[k] \in auto
    /\ state[judged[k]] \in {"running", "gone"}
    /\ call[k].surface = "agent" => at[k] = "done" /\ effect[k] = "nothing"

(* What a stop removed was started with --rm, and told if that was known.  *)
Told(k) ==
  /\ call[k].verb = "stop" /\ effect[k] = "removed" =>
       acted[k] \in auto /\ (removes[k] => answer[k] \in {"removed", "failed"})
  /\ answer[k] = "removed" => acted[k] # None /\ state[acted[k]] = "gone"

DockerInv ==
  /\ TypeOK
  /\ \A k \in Calls : Untouched(k) /\ Aimed(k) /\ Sworn(k) /\ Told(k)

-----------------------------------------------------------------------------
LEMMA InitInvariant == Init => DockerInv
<1> SUFFICES ASSUME Init PROVE DockerInv
  OBVIOUS
<1> USE NoneIsNoContainer, NamesAreNoIds DEF Init
<1>1. TypeOK
  BY DEF TypeOK
<1>2. \A k \in Calls : Untouched(k) /\ Aimed(k) /\ Sworn(k) /\ Told(k)
  BY DEF Untouched, Aimed, Sworn, Told
<1> QED BY <1>1, <1>2 DEF DockerInv

-----------------------------------------------------------------------------
(* What a step does to the daemon's containers, whoever takes it: none     *)
(* goes back to unused, what is gone stays gone, and one started with --rm *)
(* that ran runs or is gone.                                               *)
Ages ==
  /\ auto \subseteq auto'
  /\ \A c \in Containers :
       /\ state[c] # "unused" => state'[c] # "unused" /\ (c \in auto' => c \in auto)
       /\ state[c] = "gone" => state'[c] = "gone"
       /\ c \in auto /\ state[c] \in {"running", "gone"} => state'[c] \in {"running", "gone"}

LEMMA DaemonAges == TypeOK /\ Daemon => Ages /\ TypeOK'
<1> SUFFICES ASSUME TypeOK, Daemon PROVE Ages /\ TypeOK'
  OBVIOUS
<1> USE DEF TypeOK, Ages, Others
<1>1. CASE MakeContainer
  BY <1>1 DEF MakeContainer
<1>2. CASE StartContainer
  BY <1>2 DEF StartContainer
<1>3. CASE ContainerExits
  <2>1. PICK c \in Containers :
          /\ state[c] = "running"
          /\ \/ c \in auto /\ Gone(c)
             \/ c \notin auto /\ state' = [state EXCEPT ![c] = "stopped"] /\ UNCHANGED holder
    BY <1>3 DEF ContainerExits
  <2>2. Others /\ UNCHANGED auto
    BY <1>3 DEF ContainerExits
  <2>3. CASE Gone(c)
    BY <2>1, <2>2, <2>3 DEF Gone, Unnamed
  <2>4. CASE c \notin auto /\ state' = [state EXCEPT ![c] = "stopped"] /\ UNCHANGED holder
    BY <2>1, <2>2, <2>4
  <2> QED BY <2>1, <2>3, <2>4
<1>4. CASE RemoveContainer
  BY <1>4 DEF RemoveContainer, Gone, Unnamed, There
<1>5. CASE RenameContainer
  BY <1>5 DEF RenameContainer, Unnamed, There
<1> QED BY <1>1, <1>2, <1>3, <1>4, <1>5 DEF Daemon

LEMMA DoesAges ==
  ASSUME TypeOK, NEW k \in Calls, NEW c \in Containers, Does(k, c), There(c), UNCHANGED auto
  PROVE  /\ Ages
         /\ state' \in [Containers -> {"unused", "created", "running", "stopped", "gone"}]
         /\ holder' \in [Names -> Containers \cup {None}]
         /\ effect' \in [Calls -> {"nothing", "stopped", "restarted", "removed"}]
<1> USE DEF TypeOK
<1>1. CASE Gone(c) /\ effect' = [effect EXCEPT ![k] = "removed"]
  BY <1>1 DEF Gone, Unnamed, Ages
<1>2. CASE /\ state' = [state EXCEPT ![c] = "stopped"]
           /\ effect' = [effect EXCEPT ![k] = "stopped"]
           /\ UNCHANGED holder
           /\ c \notin auto
  BY <1>2 DEF Ages, There
<1>3. CASE UNCHANGED <<state, holder, effect>>
  BY <1>3 DEF Ages
<1>4. CASE /\ state' = [state EXCEPT ![c] = "running"]
           /\ effect' = [effect EXCEPT ![k] = "restarted"]
           /\ UNCHANGED holder
  BY <1>4 DEF Ages, There
<1> QED BY <1>1, <1>2, <1>3, <1>4 DEF Does

(* A call another one's step, or the daemon's users', leaves as it was.    *)
Same(e) ==
  /\ at'[e] = at[e] /\ judged'[e] = judged[e] /\ removes'[e] = removes[e]
  /\ target'[e] = target[e] /\ answer'[e] = answer[e] /\ acted'[e] = acted[e]
  /\ effect'[e] = effect[e]

LEMMA SameKept ==
  ASSUME DockerInv, NEW e \in Calls, Same(e), Ages, call' = call
  PROVE  Untouched(e)' /\ Aimed(e)' /\ Sworn(e)' /\ Told(e)'
<1> USE NoneIsNoContainer DEF DockerInv, Same
<1>1. judged[e] \in Containers \cup {None} /\ acted[e] \in Containers \cup {None}
  BY DEF TypeOK
<1>2. Untouched(e)'
  BY DEF Untouched
<1>3. Aimed(e)'
  BY <1>1 DEF Aimed, Ages
<1>4. Sworn(e)'
  <2>1. removes'[e] <=> removes[e]
    OBVIOUS
  <2>2. judged'[e] = judged[e] /\ at'[e] = at[e] /\ effect'[e] = effect[e] /\ Sworn(e)
    OBVIOUS
  <2> QED BY <1>1, <2>1, <2>2 DEF Sworn, Ages
<1>5. Told(e)'
  BY <1>1 DEF Told, Ages
<1> QED BY <1>2, <1>3, <1>4, <1>5

LEMMA DaemonKeeps == DockerInv /\ Daemon => DockerInv'
<1> SUFFICES ASSUME DockerInv, Daemon PROVE DockerInv'
  OBVIOUS
<1>1. Ages /\ TypeOK'
  BY DaemonAges DEF DockerInv
<1>2. Others
  BY DEF Daemon, MakeContainer, StartContainer, ContainerExits, RemoveContainer, RenameContainer
<1>3. \A e \in Calls : Same(e) /\ call' = call
  BY <1>2 DEF Others, Same
<1> QED BY <1>1, <1>3, SameKept DEF DockerInv

-----------------------------------------------------------------------------
(* The steps of a call that leave the daemon as it is.                     *)
Quiet == UNCHANGED daemon

LEMMA QuietAges == TypeOK /\ Quiet => Ages
  BY DEF Quiet, daemon, Ages, TypeOK

LEMMA InspectKeeps ==
  ASSUME DockerInv, NEW k \in Calls, Inspect(k)
  PROVE  DockerInv'
<1> USE NoneIsNoContainer, NamesAreNoIds
<1>0. TypeOK /\ at[k] = "start" /\ call[k].verb = "stop" /\ call' = call
  BY DEF DockerInv, Inspect
<1>1. PICK c \in Containers :
        /\ There(c)
        /\ judged' = [judged EXCEPT ![k] = c]
        /\ removes' = [removes EXCEPT ![k] = RemovesAsItStops(c)]
        /\ target' = [target EXCEPT ![k] = c]
        /\ \/ call[k].surface = "agent" /\ RemovesAsItStops(c) /\ Answer(k, "autoremove")
           \/ /\ call[k].surface = "person" \/ ~RemovesAsItStops(c)
              /\ Step(k, "judged")
              /\ UNCHANGED answer
  BY DEF Inspect, Is
<1>2. Ages /\ UNCHANGED <<daemon, call, acted, effect>>
  BY <1>0, QuietAges DEF Inspect, Quiet
<1>3. TypeOK'
  <2>1. RemovesAsItStops(c) \in BOOLEAN
    BY DEF RemovesAsItStops
  <2>2. removes' \in [Calls -> BOOLEAN]
    BY <1>0, <1>1, <2>1 DEF TypeOK
  <2> QED BY <1>0, <1>1, <1>2, <2>2 DEF TypeOK, Answer, Step, Answers, daemon
<1>4. \A e \in Calls : e # k => Same(e)
  BY <1>0, <1>1, <1>2 DEF TypeOK, Same, Answer, Step
<1>5. acted'[k] = None /\ effect'[k] = "nothing" /\ answer'[k] # "removed"
  <2>1. answer[k] # "removed"
    BY <1>0 DEF DockerInv, Untouched, Told
  <2> QED BY <1>0, <1>1, <1>2, <2>1 DEF DockerInv, Untouched, Answer, Step, TypeOK
<1>6. Untouched(k)' /\ Aimed(k)' /\ Sworn(k)' /\ Told(k)'
  <2>1. Untouched(k)' /\ Told(k)'
    BY <1>5 DEF Untouched, Told
  <2>2. Aimed(k)'
    BY <1>0, <1>1, <1>2, <1>5 DEF Aimed, TypeOK, There, Answer, Step, daemon
  <2>3. Sworn(k)'
    <3>1. removes'[k] <=> RemovesAsItStops(c)
      BY <1>0, <1>1 DEF TypeOK
    <3> QED BY <3>1, <1>0, <1>1, <1>2, <1>5 DEF Sworn, TypeOK, RemovesAsItStops, Answer, Step, daemon
  <2> QED BY <2>1, <2>2, <2>3
<1> QED BY <1>0, <1>2, <1>3, <1>4, <1>6, SameKept DEF DockerInv

(* A step that only moves a call on and answers it, before it has acted.   *)
MovesOn(k) ==
  /\ at[k] # "done"
  /\ \E next \in {"judged", "found", "done"} : Step(k, next)
  /\ \E what \in (Answers \ {"removed"}) \cup {"pending"} : answer' = [answer EXCEPT ![k] = what]
  /\ UNCHANGED <<daemon, call, judged, removes, target, acted, effect>>

LEMMA MovesOnKeeps ==
  ASSUME DockerInv, NEW k \in Calls, MovesOn(k)
  PROVE  DockerInv'
<1> USE NoneIsNoContainer
<1>1. TypeOK /\ Ages /\ call' = call
  BY QuietAges DEF DockerInv, MovesOn, Quiet
<1>2. TypeOK'
  BY <1>1 DEF TypeOK, MovesOn, Step, daemon
<1>3. \A e \in Calls : e # k => Same(e)
  BY <1>1 DEF TypeOK, MovesOn, Step, Same
<1>4. Untouched(k)' /\ Aimed(k)' /\ Sworn(k)' /\ Told(k)'
  <2>1. acted'[k] = None /\ effect'[k] = "nothing" /\ answer'[k] # "removed"
    BY <1>1 DEF DockerInv, Untouched, MovesOn, TypeOK
  <2>2. at'[k] # "start" /\ UNCHANGED <<judged, removes, target, state, auto>>
    BY <1>1 DEF MovesOn, Step, TypeOK, daemon
  <2>3. at[k] # "done"
    BY DEF MovesOn
  <2>4. Untouched(k)' /\ Told(k)'
    BY <2>1 DEF Untouched, Told
  <2>5. Aimed(k)'
    BY <1>1, <2>1, <2>2 DEF DockerInv, Aimed
  <2>6. Sworn(k)'
    BY <1>1, <2>1, <2>2, <2>3 DEF DockerInv, Sworn
  <2> QED BY <2>4, <2>5, <2>6
<1> QED BY <1>1, <1>2, <1>3, <1>4, SameKept DEF DockerInv

LEMMA QuietSteps ==
  ASSUME DockerInv, NEW k \in Calls,
         InspectFails(k) \/ Find(k) \/ FindFails(k) \/ ActFails(k)
  PROVE  MovesOn(k)
<1>0. TypeOK /\ (answer[k] \in (Answers \ {"removed"}) \cup {"pending"} \/ at[k] = "done")
  BY DEF DockerInv, TypeOK, Told, Untouched
<1>1. answer = [answer EXCEPT ![k] = answer[k]]
  BY DEF DockerInv, TypeOK
<1> USE DEF MovesOn, Answer, Answers, Ready
<1>2. CASE InspectFails(k)
  BY <1>0, <1>1, <1>2 DEF InspectFails
<1>3. CASE Find(k)
  BY <1>0, <1>1, <1>3 DEF Find
<1>4. CASE FindFails(k)
  BY <1>0, <1>1, <1>4 DEF FindFails
<1>5. CASE ActFails(k)
  BY <1>0, <1>1, <1>5 DEF ActFails
<1> QED BY <1>2, <1>3, <1>4, <1>5

-----------------------------------------------------------------------------
(* The command itself.                                                     *)
LEMMA ActKeeps ==
  ASSUME DockerInv, NEW k \in Calls, Act(k)
  PROVE  DockerInv'
<1> USE NoneIsNoContainer, NamesAreNoIds
<1>1. TypeOK /\ at[k] = "found" /\ UNCHANGED <<auto, call, judged, removes, target>>
  BY DEF DockerInv, Act
<1>2. PICK c \in Containers : Is(target[k], c) /\ Does(k, c) /\ acted' = [acted EXCEPT ![k] = c]
  BY DEF Act
<1>3. /\ at' = [at EXCEPT ![k] = "done"]
      /\ \/ answer' = [answer EXCEPT ![k] = Receipt(k)]
         \/ answer' = [answer EXCEPT ![k] = "failed"]
  BY DEF Act, Answer, Step
<1>4. There(c)
  BY <1>2 DEF Is
<1>5. /\ Ages
      /\ state' \in [Containers -> {"unused", "created", "running", "stopped", "gone"}]
      /\ holder' \in [Names -> Containers \cup {None}]
      /\ effect' \in [Calls -> {"nothing", "stopped", "restarted", "removed"}]
  BY <1>1, <1>2, <1>4, DoesAges
<1>6. TypeOK'
  <2>1. Receipt(k) \in Answers
    BY DEF Receipt, Answers
  <2>2. answer' \in [Calls -> Answers \cup {"pending"}]
    BY <1>1, <1>3, <2>1 DEF TypeOK, Answers
  <2>3. acted' \in [Calls -> Containers \cup {None}]
    BY <1>1, <1>2 DEF TypeOK
  <2>4. at' \in [Calls -> {"start", "judged", "found", "done"}]
    BY <1>1, <1>3 DEF TypeOK
  <2> QED BY <1>1, <1>5, <2>2, <2>3, <2>4 DEF TypeOK
<1>7. \A e \in Calls : e # k => Same(e)
  <2>1. \A e \in Calls : e # k => effect'[e] = effect[e]
    BY <1>1, <1>2 DEF Does, TypeOK
  <2> QED BY <1>1, <1>2, <1>3, <2>1 DEF Same, TypeOK
<1>8. acted'[k] = c /\ at'[k] = "done"
  BY <1>1, <1>2, <1>3 DEF TypeOK
<1>9. judged[k] # None => c = judged[k]
  BY <1>1, <1>2 DEF DockerInv, Aimed, Is, TypeOK
<1>10. Untouched(k)' /\ Aimed(k)'
  <2>1. Untouched(k)'
    BY <1>8 DEF Untouched
  <2>2. Aimed(k)'
    BY <1>1, <1>5, <1>8, <1>9 DEF DockerInv, Aimed, Ages, TypeOK
  <2> QED BY <2>1, <2>2
<1>11. Sworn(k)'
  BY <1>1, <1>5, <1>8, <1>9 DEF DockerInv, Sworn, Ages, TypeOK
<1>12. Told(k)'
  <2>1. answer'[k] \in {Receipt(k), "failed"}
    BY <1>1, <1>3 DEF TypeOK
  <2>2. call[k].verb = "stop" /\ effect'[k] = "removed" => c \in auto
    <3>1. effect[k] = "nothing"
      BY <1>1 DEF DockerInv, Untouched
    <3> QED BY <1>1, <1>2, <3>1 DEF Does, TypeOK, RemovesAsItStops
  <2>3. answer'[k] = "removed" => call[k].verb = "stop" /\ removes[k]
    BY <2>1 DEF Receipt
  <2>4. call[k].verb = "stop" /\ removes[k] => state'[c] = "gone" /\ answer'[k] \in {"removed", "failed"}
    <3>1. HAVE call[k].verb = "stop" /\ removes[k]
    <3>2. c \in auto /\ state[c] = "running"
      BY <1>4, <1>9, <3>1 DEF DockerInv, Sworn, There
    <3>3. state'[c] = "gone"
      BY <1>1, <1>2, <3>1, <3>2 DEF Does, RemovesAsItStops, Gone, TypeOK
    <3>4. Receipt(k) = "removed"
      BY <3>1 DEF Receipt
    <3> QED BY <2>1, <3>3, <3>4
  <2> QED BY <1>1, <1>8, <2>2, <2>3, <2>4 DEF Told
<1> QED BY <1>1, <1>5, <1>6, <1>7, <1>10, <1>11, <1>12, SameKept DEF DockerInv

-----------------------------------------------------------------------------
LEMMA StepInvariant == DockerInv /\ [Next]_vars => DockerInv'
<1> SUFFICES ASSUME DockerInv, [Next]_vars PROVE DockerInv'
  OBVIOUS
<1>1. CASE UNCHANGED vars
  BY <1>1 DEF vars, daemon, DockerInv, TypeOK, Untouched, Aimed, Sworn, Told
<1>2. CASE Daemon
  BY <1>2, DaemonKeeps
<1>3. ASSUME NEW k \in Calls, CallStep(k) PROVE DockerInv'
  BY <1>3, InspectKeeps, ActKeeps, QuietSteps, MovesOnKeeps DEF CallStep
<1> QED BY <1>1, <1>2, <1>3 DEF Next

(* What a stop was told of its container stays true until it acts.         *)
THEOREM DockerInvariant == Spec => []DockerInv
<1> QED BY InitInvariant, StepInvariant, PTL DEF Spec

(* Every variable keeps its type.                                          *)
THEOREM TypeCorrect == Spec => []TypeOK
<1>1. DockerInv => TypeOK
  BY DEF DockerInv
<1> QED BY <1>1, DockerInvariant, PTL

(* Whoever takes a name over, a stop is done to the container its inspect  *)
(* answered with, or to none.                                              *)
THEOREM StopsWhatItJudged == Spec => []StoppedIsJudged
<1>1. DockerInv => StoppedIsJudged
  BY DEF DockerInv, Aimed, StoppedIsJudged
<1> QED BY <1>1, DockerInvariant, PTL

(* No agent's stop removes a container it was told the truth about, and no *)
(* person's does so unsaid.                                                *)
THEOREM AgentsStopIsReversible == Spec => []RemovalIsToldOrRefused
<1>1. DockerInv => RemovalIsToldOrRefused
  <2> SUFFICES ASSUME DockerInv, NEW k \in Calls, Sure(k)
               PROVE  /\ effect[k] = "removed" => call[k].surface = "person" /\ answer[k] \in {"removed", "failed"}
                      /\ answer[k] = "removed" => acted[k] # None /\ state[acted[k]] = "gone"
    BY DEF RemovalIsToldOrRefused
  <2> USE NoneIsNoContainer DEF DockerInv
  <2>1. judged[k] # None /\ call[k].verb = "stop"
    BY DEF Sure, Sworn, Aimed
  <2>2. ASSUME effect[k] = "removed" PROVE removes[k]
    <3>1. acted[k] \in auto /\ auto \subseteq Containers
      BY <2>1, <2>2 DEF Told, TypeOK
    <3>2. acted[k] = judged[k]
      BY <2>1, <3>1 DEF Aimed
    <3> QED BY <3>1, <3>2 DEF Sure
  <2>3. ASSUME effect[k] = "removed"
        PROVE  call[k].surface = "person" /\ answer[k] \in {"removed", "failed"}
    <3>1. call[k].surface \in {"person", "agent"}
      BY DEF TypeOK
    <3> QED BY <2>1, <2>2, <2>3, <3>1 DEF Sworn, Told
  <2> QED BY <2>3 DEF Told
<1> QED BY <1>1, DockerInvariant, PTL

=============================================================================
