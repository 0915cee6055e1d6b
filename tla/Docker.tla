------------------------------ MODULE Docker ------------------------------
(***************************************************************************)
(* docker.container.stop, restart and rm: one container named by the call, *)
(* asked about with docker inspect or docker ps, then acted on by a second *)
(* command.  In between the daemon's own users start, stop, rename and     *)
(* remove containers, and a name may come to be another's.                 *)
(***************************************************************************)
CONSTANTS
  Calls,        (* Calls of the plugin.                                    *)
  Containers,   (* Ids: each is one container's, once.                     *)
  Names,        (* What containers are called, and calls name.             *)
  None          (* No container.                                           *)

ASSUME NoneIsNoContainer == None \notin Containers
ASSUME NamesAreNoIds == Names \cap (Containers \cup {None}) = {}

VARIABLES
  state,      (* What has become of each container.                        *)
  auto,       (* Those started with --rm: the daemon removes one as it     *)
              (* stops (HostConfig.AutoRemove).                            *)
  holder,     (* Which container has each name.                            *)
  call,       (* What each call is: its verb, its surface, what it names.  *)
  at,         (* How far each call is.                                     *)
  judged,     (* The container a stop's inspect answered with.             *)
  removes,    (* stopTarget: the stop will remove the container.           *)
  target,     (* What the second command is sent to: a name or an id.      *)
  answer,     (* What the call has answered.                               *)
  acted,      (* History: the container the daemon did it to,              *)
  effect      (* and what the daemon did.                                  *)

daemon == <<state, auto, holder>>
vars == <<daemon, call, at, judged, removes, target, answer, acted, effect>>

Verbs == {"stop", "restart", "rm"}
Answers == {"autoremove", "unjudged", "running", "notfound", "failed", "preview",
            "reversible", "removed", "done"}
Receipts == {"reversible", "removed", "done"}

TypeOK ==
  /\ state \in [Containers -> {"unused", "created", "running", "stopped", "gone"}]
  /\ auto \subseteq Containers
  /\ holder \in [Names -> Containers \cup {None}]
  /\ call \in [Calls -> [verb : Verbs, surface : {"person", "agent"}, name : Names]]
  /\ at \in [Calls -> {"start", "judged", "found", "done"}]
  /\ judged \in [Calls -> Containers \cup {None}]
  /\ removes \in [Calls -> BOOLEAN]
  /\ target \in [Calls -> Names \cup Containers]
  /\ answer \in [Calls -> Answers \cup {"pending"}]
  /\ acted \in [Calls -> Containers \cup {None}]
  /\ effect \in [Calls -> {"nothing", "stopped", "restarted", "removed"}]

Init ==
  /\ state = [c \in Containers |-> "unused"]
  /\ auto = {}
  /\ holder = [n \in Names |-> None]
  /\ call \in [Calls -> [verb : Verbs, surface : {"person", "agent"}, name : Names]]
  /\ at = [k \in Calls |-> "start"]
  /\ judged = [k \in Calls |-> None]
  /\ removes = [k \in Calls |-> FALSE]
  /\ target = [k \in Calls |-> call[k].name]
  /\ answer = [k \in Calls |-> "pending"]
  /\ acted = [k \in Calls |-> None]
  /\ effect = [k \in Calls |-> "nothing"]

There(c) == state[c] \in {"created", "running", "stopped"}

(* The container a name or an id is the daemon's for.                      *)
Is(t, c) == There(c) /\ (t = c \/ (t \in Names /\ holder[t] = c))
Holds(t) == \E c \in Containers : Is(t, c)

Step(k, next) == at' = [at EXCEPT ![k] = next]
Answer(k, what) == Step(k, "done") /\ answer' = [answer EXCEPT ![k] = what]

-----------------------------------------------------------------------------
(* stop: stopTarget's inspect, and what an agent is refused on it.         *)

RemovesAsItStops(c) == state[c] = "running" /\ c \in auto

(* Mutant: the stop is sent to the name again.                             *)
InspectAndForget(k) ==
  /\ at[k] = "start"
  /\ call[k].verb = "stop"
  /\ \E c \in Containers :
       /\ Is(call[k].name, c)
       /\ judged' = [judged EXCEPT ![k] = c]
       /\ removes' = [removes EXCEPT ![k] = RemovesAsItStops(c)]
       /\ IF call[k].surface = "agent" /\ RemovesAsItStops(c)
            THEN Answer(k, "autoremove")
            ELSE Step(k, "judged") /\ UNCHANGED answer
  /\ UNCHANGED <<daemon, call, target, acted, effect>>

(* Mutant: an agent's stop goes ahead as a person's does.                  *)
InspectForAnyone(k) ==
  /\ at[k] = "start"
  /\ call[k].verb = "stop"
  /\ \E c \in Containers :
       /\ Is(call[k].name, c)
       /\ judged' = [judged EXCEPT ![k] = c]
       /\ removes' = [removes EXCEPT ![k] = RemovesAsItStops(c)]
       /\ target' = [target EXCEPT ![k] = c]
  /\ Step(k, "judged")
  /\ UNCHANGED <<daemon, call, answer, acted, effect>>

(* What is stopped is what was judged: the id goes on, not the name.       *)
Inspect(k) ==
  /\ at[k] = "start"
  /\ call[k].verb = "stop"
  /\ \E c \in Containers :
       /\ Is(call[k].name, c)
       /\ judged' = [judged EXCEPT ![k] = c]
       /\ removes' = [removes EXCEPT ![k] = RemovesAsItStops(c)]
       /\ target' = [target EXCEPT ![k] = c]
       /\ \/ call[k].surface = "agent" /\ RemovesAsItStops(c) /\ Answer(k, "autoremove")
          \/ /\ call[k].surface = "person" \/ ~RemovesAsItStops(c)
             /\ Step(k, "judged")
             /\ UNCHANGED answer
  /\ UNCHANGED <<daemon, call, acted, effect>>

(* The daemon has no such container, or does not answer: a stop that was   *)
(* not judged goes on by name, but for an agent whose inspect failed.      *)
InspectFails(k) ==
  /\ at[k] = "start"
  /\ call[k].verb = "stop"
  /\ \/ ~Holds(call[k].name) /\ Step(k, "judged") /\ UNCHANGED answer
     \/ call[k].surface = "person" /\ Step(k, "judged") /\ UNCHANGED answer
     \/ call[k].surface = "agent" /\ Answer(k, "unjudged")
  /\ UNCHANGED <<daemon, call, judged, removes, target, acted, effect>>

-----------------------------------------------------------------------------
(* mutate, and runRemove: every container is listed, then the verb is run. *)

Ready(k) == at[k] = (IF call[k].verb = "stop" THEN "judged" ELSE "start")

Find(k) ==
  /\ Ready(k)
  /\ \E c \in Containers :
       /\ Is(target[k], c)
       /\ \/ /\ call[k].verb = "rm"
             /\ state[c] = "running"
             /\ Answer(k, "running")
          \/ /\ call[k].verb # "rm" \/ state[c] # "running"
             /\ \/ Step(k, "found") /\ UNCHANGED answer
                \/ Answer(k, "preview")
  /\ UNCHANGED <<daemon, call, judged, removes, target, acted, effect>>

FindFails(k) ==
  /\ Ready(k)
  /\ \/ ~Holds(target[k]) /\ Answer(k, "notfound")
     \/ Answer(k, "failed")
  /\ UNCHANGED <<daemon, call, judged, removes, target, acted, effect>>

(* Whoever has a name loses it with its container.                         *)
Unnamed(c) == [n \in Names |-> IF holder[n] = c THEN None ELSE holder[n]]

Gone(c) == state' = [state EXCEPT ![c] = "gone"] /\ holder' = Unnamed(c)

(* What the daemon does of each verb.  A stop of one that is not running   *)
(* does nothing, rm without --force refuses one that is, and a restart of  *)
(* one started with --rm keeps it.                                         *)
Does(k, c) ==
  \/ /\ call[k].verb = "stop" /\ RemovesAsItStops(c)
     /\ Gone(c)
     /\ effect' = [effect EXCEPT ![k] = "removed"]
  \/ /\ call[k].verb = "stop" /\ state[c] = "running" /\ c \notin auto
     /\ state' = [state EXCEPT ![c] = "stopped"]
     /\ effect' = [effect EXCEPT ![k] = "stopped"]
     /\ UNCHANGED holder
  \/ /\ call[k].verb = "stop" /\ state[c] # "running"
     /\ UNCHANGED <<state, holder, effect>>
  \/ /\ call[k].verb = "restart"
     /\ state' = [state EXCEPT ![c] = "running"]
     /\ effect' = [effect EXCEPT ![k] = "restarted"]
     /\ UNCHANGED holder
  \/ /\ call[k].verb = "rm" /\ state[c] # "running"
     /\ Gone(c)
     /\ effect' = [effect EXCEPT ![k] = "removed"]

(* The receipt of a stop says whether there is a container to start again. *)
Receipt(k) ==
  IF call[k].verb # "stop" THEN "done" ELSE IF removes[k] THEN "removed" ELSE "reversible"

(* The command, and the answer, which may be lost with the command done.   *)
Act(k) ==
  /\ at[k] = "found"
  /\ \E c \in Containers :
       /\ Is(target[k], c)
       /\ Does(k, c)
       /\ acted' = [acted EXCEPT ![k] = c]
  /\ Answer(k, Receipt(k)) \/ Answer(k, "failed")
  /\ UNCHANGED <<auto, call, judged, removes, target>>

ActFails(k) ==
  /\ at[k] = "found"
  /\ Answer(k, IF Holds(target[k]) THEN "failed" ELSE "notfound")
  /\ UNCHANGED <<daemon, call, judged, removes, target, acted, effect>>

-----------------------------------------------------------------------------
(* The daemon's other users.                                               *)

Others == UNCHANGED <<call, at, judged, removes, target, answer, acted, effect>>

(* docker create, or docker run, which starts it too.                      *)
MakeContainer ==
  /\ \E c \in Containers, n \in Names, how \in {"created", "running"} :
       /\ state[c] = "unused"
       /\ holder[n] = None
       /\ state' = [state EXCEPT ![c] = how]
       /\ holder' = [holder EXCEPT ![n] = c]
       /\ auto' \in {auto, auto \cup {c}}
  /\ Others

StartContainer ==
  /\ \E c \in Containers :
       /\ state[c] \in {"created", "stopped"}
       /\ state' = [state EXCEPT ![c] = "running"]
  /\ Others /\ UNCHANGED <<auto, holder>>

(* One exits, is stopped, or is killed.                                    *)
ContainerExits ==
  /\ \E c \in Containers :
       /\ state[c] = "running"
       /\ \/ c \in auto /\ Gone(c)
          \/ c \notin auto /\ state' = [state EXCEPT ![c] = "stopped"] /\ UNCHANGED holder
  /\ Others /\ UNCHANGED auto

RemoveContainer ==
  /\ \E c \in Containers : There(c) /\ Gone(c)
  /\ Others /\ UNCHANGED auto

RenameContainer ==
  /\ \E c \in Containers, n \in Names :
       /\ There(c)
       /\ holder[n] = None
       /\ holder' = [Unnamed(c) EXCEPT ![n] = c]
  /\ Others /\ UNCHANGED <<state, auto>>

Daemon ==
  MakeContainer \/ StartContainer \/ ContainerExits \/ RemoveContainer \/ RenameContainer

CallStep(k) ==
  \/ Inspect(k) \/ InspectFails(k)
  \/ Find(k) \/ FindFails(k)
  \/ Act(k) \/ ActFails(k)

Next == Daemon \/ \E k \in Calls : CallStep(k)

Spec == Init /\ [][Next]_vars

-----------------------------------------------------------------------------
(* Properties                                                              *)

(* "What is stopped is what was judged": whoever has the name by then, a   *)
(* stop whose inspect answered is done to the container it answered with   *)
(* or to none (runStop, which sends it to the id).                         *)
StoppedIsJudged ==
  \A k \in Calls :
    judged[k] # None => acted[k] \in {judged[k], None}

(* An agent's stop of a container its inspect found running, or not        *)
(* started with --rm, removes nothing; a person's says so where it did,    *)
(* and where it says so the container is gone (runStop: AutoRemove is      *)
(* fixed when the container is made, so the judgement keeps).              *)
Sure(k) == removes[k] \/ (judged[k] # None /\ judged[k] \notin auto)

RemovalIsToldOrRefused ==
  \A k \in Calls :
    Sure(k) =>
      /\ effect[k] = "removed" => call[k].surface = "person" /\ answer[k] \in {"removed", "failed"}
      /\ answer[k] = "removed" => acted[k] # None /\ state[acted[k]] = "gone"

(* "The daemon removes [it]: the preview and the receipt say so, and an    *)
(* agent is refused it": whatever the inspect came to.                     *)
RemovalIsAlwaysTold ==
  \A k \in Calls :
    call[k].verb = "stop" /\ effect[k] = "removed" =>
      call[k].surface = "person" /\ answer[k] \in {"removed", "failed"}
=============================================================================
