------------------------ MODULE NamespaceReads_proofs ------------------------
(***************************************************************************)
(* Proofs about NamespaceReads, for any number of namespaces and any width *)
(* of the gate.                                                            *)
(*                                                                         *)
(* That a dead cluster is asked no more often than the gate is wide is a   *)
(* fact about a set that is never written down in the code: the calls that *)
(* are running kubectl, or ran it to meet a cluster-wide failure (AtRisk). *)
(* Until the gate has been told of such a failure they all hold a place in *)
(* it, because a failure is noted before its place is given up; once it    *)
(* has, no call joins them, because it is looked for after the wait.       *)
(***************************************************************************)
EXTENDS NamespaceReads, FiniteSetTheorems, TLAPS

InGate == {"entered", "asking", "returned", "noted"}

AtRisk == {c \in asked : place[c] = "asking" \/ ClusterWide(result[c])}

(* What the place of a call says of it.                                    *)
PlacesAgree ==
  \A c \in calls :
    /\ place[c] \in {"waiting", "entered"} => c \notin asked
    /\ place[c] \in {"asking", "returned", "noted"} => c \in asked
    /\ result[c] = None <=> place[c] \in {"waiting", "entered", "asking"}
    /\ place[c] = "entered" => Gated
    /\ Gated /\ place[c] \in InGate => c \in slots
    /\ c \in slots => place[c] \in InGate

(* What the gate was told is true, and it is told before a place is free.  *)
DownIsMet ==
  /\ down # None => ClusterWide(down) /\ \E d \in asked : result[d] = down
  /\ down = None /\ Gated =>
       \A c \in asked : ClusterWide(result[c]) => place[c] = "returned"

GateHolds ==
  /\ IsFiniteSet(calls)
  /\ slots \subseteq calls /\ IsFiniteSet(slots) /\ Cardinality(slots) <= Width

RiskBounded == Gated => IsFiniteSet(AtRisk) /\ Cardinality(AtRisk) <= Width

EndedWhenAnswered ==
  page # Pending => \A c \in calls : place[c] = "ended"

Inv ==
  /\ TypeOK
  /\ PlacesAgree
  /\ DownIsMet
  /\ GateHolds
  /\ RiskBounded
  /\ EndedWhenAnswered
  /\ ToldTheTruth
  /\ RefusalIsTheAnswer
  /\ SiblingsSpared

-----------------------------------------------------------------------------
(* The shape of a gate does not change while an answer is made.            *)
LEMMA GatedStays ==
  ASSUME [Next]_vars
  PROVE  Gated' = Gated
<1>1. CASE NoContext
  BY <1>1 DEF NoContext, Gated
<1>2. CASE ~NoContext
  <2>1. UNCHANGED request
    BY <1>2 DEF Next, Read, Enter, EnterCancelled, Ask, Told, AskUngated, Returns,
       Note, Leave, Cancel, Settle, vars, request
  <2> QED BY <2>1 DEF request, Gated
<1> QED BY <1>1, <1>2

LEMMA CallsOfAreCalls ==
  ASSUME NEW s, NEW names \in SUBSET Scopes
  PROVE  CallsOf(s, names) \subseteq Calls
BY DEF CallsOf, ScopesOf, Calls

(* What a page may be.                                                     *)
LEMMA PagesAreTyped ==
  ASSUME TypeOK
  PROVE  OverviewPage \cup ListingPage \cup CnpgPage \subseteq Pages
<1>1. Codes \subseteq Failures \cup {None}
  BY DEF TypeOK, Codes, Unread
<1>2. \A code \in Failures \cup {None} : Error(code) \in Pages /\ Unanswered(code) \in Pages
  BY DEF Error, Unanswered, Pages
<1>3. Rows \in Pages
  BY DEF Rows, Pages
<1>4. ListingPage \subseteq Pages
  BY <1>1, <1>2, <1>3 DEF ListingPage
<1>5. CnpgPage \subseteq Pages
  BY <1>1, <1>2, <1>3 DEF CnpgPage
<1>6. OverviewPage \subseteq Pages
  <2>1. Refused \in Failures
    BY DEF Failures
  <2>2. result[<<"namespaces", Whole>>] \in Failures \cup {None, Ok}
    BY DEF TypeOK, Calls
  <2> QED BY <1>2, <1>3, <2>1, <2>2 DEF OverviewPage
<1> QED BY <1>4, <1>5, <1>6

LEMMA TypeInit == Init => TypeOK
<1> SUFFICES ASSUME Init PROVE TypeOK
  OBVIOUS
<1>1. calls \subseteq Calls
  BY CallsOfAreCalls DEF Init
<1>2. place \in [Calls -> Places] /\ result \in [Calls -> Failures \cup {None, Ok}]
  BY DEF Init, Places
<1> QED BY <1>1, <1>2 DEF Init, TypeOK

LEMMA TypeNext ==
  ASSUME TypeOK, PlacesAgree, [Next]_vars
  PROVE  TypeOK'
<1>t. /\ shape \in Shapes /\ named \subseteq Scopes /\ calls \subseteq Calls
      /\ place \in [Calls -> Places]
      /\ result \in [Calls -> Failures \cup {None, Ok}]
      /\ slots \subseteq Calls /\ down \in Failures \cup {None}
      /\ asked \subseteq calls /\ cancelled \in BOOLEAN
      /\ page \in Pages \cup {Pending}
  BY DEF TypeOK
<1>1. ASSUME NEW c \in calls, Read(c) PROVE TypeOK'
  <2>1. CASE Enter(c)
    BY <1>t, <2>1 DEF TypeOK, Enter, Goto, Came, Places, request
  <2>2. CASE EnterCancelled(c)
    BY <1>t, <2>2 DEF TypeOK, EnterCancelled, Goto, Came, Places, request, Failures
  <2>3. CASE Ask(c)
    BY <1>t, <2>3 DEF TypeOK, Ask, Goto, Came, Places, request
  <2>4. CASE Told(c)
    BY <1>t, <2>4 DEF TypeOK, Told, Goto, Came, Places, request
  <2>5. CASE AskUngated(c)
    BY <1>t, <2>5 DEF TypeOK, AskUngated, Goto, Came, Places, request
  <2>6. CASE Note(c)
    <3>1. place[c] = "returned" /\ down' \in Failures \cup {None}
      BY <1>t, <2>6 DEF Note, ClusterWide, Failures
    <3> QED BY <1>t, <2>6, <3>1 DEF TypeOK, Note, Goto, Places, request
  <2>7. CASE Leave(c)
    BY <1>t, <2>7 DEF TypeOK, Leave, Goto, Came, Places, request
  <2>8. CASE \E code \in Failures \cup {Ok} : Returns(c, code)
    BY <1>t, <2>8 DEF TypeOK, Returns, Goto, Came, Places, request
  <2> QED BY <1>1, <2>1, <2>2, <2>3, <2>4, <2>5, <2>6, <2>7, <2>8 DEF Read
<1>2. CASE Cancel
  BY <1>t, <1>2 DEF TypeOK, Cancel, request
<1>3. CASE NoContext
  <2>1. page' \in Pages
    BY <1>3 DEF NoContext, Pages
  <2>2. asked = {}
    BY <1>t, <1>3 DEF NoContext, PlacesAgree
  <2> QED BY <1>t, <1>3, <2>1, <2>2 DEF TypeOK, NoContext
<1>4. CASE Settle
  <2>1. page' \in Pages
    BY <1>t, <1>4, PagesAreTyped DEF Settle, Shapes, TypeOK
  <2> QED BY <1>t, <1>4, <2>1 DEF TypeOK, Settle, request
<1>5. CASE UNCHANGED vars
  BY <1>5 DEF TypeOK, vars, request
<1> QED BY <1>1, <1>2, <1>3, <1>4, <1>5 DEF Next

-----------------------------------------------------------------------------
(* A step of one call moves no other, and settles no call twice.           *)
LEMMA OneCallMoves ==
  ASSUME TypeOK, NEW c \in calls, Read(c)
  PROVE  /\ UNCHANGED <<request, cancelled, page>>
         /\ place[c] # "ended"
         /\ \A d \in Calls : d # c => place'[d] = place[d] /\ result'[d] = result[d]
         /\ asked \subseteq asked' /\ asked' \subseteq asked \cup {c}
         /\ slots \ {c} \subseteq slots' /\ slots' \subseteq slots \cup {c}
<1>t. c \in Calls /\ place \in [Calls -> Places] /\ result \in [Calls -> Failures \cup {None, Ok}]
  BY DEF TypeOK
<1> QED BY <1>t DEF Read, Enter, EnterCancelled, Ask, Told, AskUngated, Returns, Note, Leave, Goto, Came

LEMMA MetStays ==
  ASSUME TypeOK, PlacesAgree, [Next]_vars, NEW d \in asked, result[d] # None
  PROVE  d \in asked' /\ result'[d] = result[d]
<1>t. asked \subseteq calls /\ calls \subseteq Calls
      /\ result \in [Calls -> Failures \cup {None, Ok}]
  BY DEF TypeOK
<1>1. ASSUME NEW c \in calls, Read(c) PROVE d \in asked' /\ result'[d] = result[d]
  <2>1. CASE d # c
    BY <1>t, <1>1, <2>1, OneCallMoves
  <2>2. CASE d = c
    <3>1. place[c] \notin {"waiting", "entered", "asking"}
      BY <2>2 DEF PlacesAgree
    <3> QED BY <1>t, <1>1, <2>2, <3>1 DEF Read, Enter, EnterCancelled, Ask, Told, AskUngated, Returns, Note, Leave
  <2> QED BY <2>1, <2>2
<1>2. CASE Cancel \/ Settle \/ UNCHANGED vars
  BY <1>2 DEF Cancel, Settle, vars
<1>3. CASE NoContext
  BY <1>3 DEF NoContext
<1> QED BY <1>1, <1>2, <1>3 DEF Next

LEMMA PlacesNext ==
  ASSUME TypeOK, PlacesAgree, slots \subseteq calls, [Next]_vars
  PROVE  PlacesAgree'
<1>t. calls \subseteq Calls /\ place \in [Calls -> Places]
      /\ result \in [Calls -> Failures \cup {None, Ok}]
      /\ down \in Failures \cup {None}
      /\ None \notin Failures \cup {Ok}
  BY DEF TypeOK, None, Ok, Failures, Denied, Refused, Unreachable, Interrupted
<1>g. Gated' = Gated
  BY GatedStays
<1>1. ASSUME NEW c \in calls, Read(c) PROVE PlacesAgree'
  <2> SUFFICES ASSUME NEW d \in calls'
               PROVE  /\ place'[d] \in {"waiting", "entered"} => d \notin asked'
                      /\ place'[d] \in {"asking", "returned", "noted"} => d \in asked'
                      /\ result'[d] = None <=> place'[d] \in {"waiting", "entered", "asking"}
                      /\ place'[d] = "entered" => Gated
                      /\ Gated /\ place'[d] \in InGate => d \in slots'
                      /\ d \in slots' => place'[d] \in InGate
    BY <1>g DEF PlacesAgree
  <2>m. /\ d \in calls /\ d \in Calls /\ c \in Calls
        /\ d # c => place'[d] = place[d] /\ result'[d] = result[d]
        /\ asked \subseteq asked' /\ asked' \subseteq asked \cup {c}
        /\ slots \ {c} \subseteq slots' /\ slots' \subseteq slots \cup {c}
    BY <1>t, <1>1, OneCallMoves DEF request
  <2>0. CASE d # c
    BY <2>m, <2>0 DEF PlacesAgree
  <2> SUFFICES ASSUME d = c
               PROVE  /\ place'[c] \in {"waiting", "entered"} => c \notin asked'
                      /\ place'[c] \in {"asking", "returned", "noted"} => c \in asked'
                      /\ result'[c] = None <=> place'[c] \in {"waiting", "entered", "asking"}
                      /\ place'[c] = "entered" => Gated
                      /\ Gated /\ place'[c] \in InGate => c \in slots'
                      /\ c \in slots' => place'[c] \in InGate
    BY <2>0
  <2>i. /\ place[c] \in {"waiting", "entered"} => c \notin asked
        /\ place[c] \in {"asking", "returned", "noted"} => c \in asked
        /\ result[c] = None <=> place[c] \in {"waiting", "entered", "asking"}
        /\ place[c] = "entered" => Gated
        /\ Gated /\ place[c] \in InGate => c \in slots
        /\ c \in slots => place[c] \in InGate
    BY DEF PlacesAgree
  <2>1. CASE Enter(c)
    BY <1>t, <2>m, <2>i, <2>1 DEF Enter, Goto, Came, InGate
  <2>2. CASE EnterCancelled(c)
    BY <1>t, <2>m, <2>i, <2>2 DEF EnterCancelled, Goto, Came, InGate, Failures, Interrupted
  <2>3. CASE Ask(c)
    BY <1>t, <2>m, <2>i, <2>3 DEF Ask, Goto, Came, InGate
  <2>4. CASE Told(c)
    BY <1>t, <2>m, <2>i, <2>4 DEF Told, Goto, Came, InGate
  <2>5. CASE AskUngated(c)
    BY <1>t, <2>m, <2>i, <2>5 DEF AskUngated, Goto, Came, InGate
  <2>6. CASE Note(c)
    BY <1>t, <2>m, <2>i, <2>6 DEF Note, Goto, Came, InGate
  <2>7. CASE Leave(c)
    BY <1>t, <2>m, <2>i, <2>7 DEF Leave, Goto, Came, InGate
  <2>8. CASE \E code \in Failures \cup {Ok} : Returns(c, code)
    BY <1>t, <2>m, <2>i, <2>8 DEF Returns, Goto, Came, InGate
  <2> QED BY <1>1, <2>1, <2>2, <2>3, <2>4, <2>5, <2>6, <2>7, <2>8 DEF Read
<1>2. CASE Cancel \/ Settle \/ UNCHANGED vars
  <2>1. UNCHANGED <<calls, place, result, slots, asked>>
    BY <1>2 DEF Cancel, Settle, vars, request
  <2> QED BY <1>g, <2>1 DEF PlacesAgree
<1>3. CASE NoContext
  BY <1>3 DEF NoContext, PlacesAgree
<1> QED BY <1>1, <1>2, <1>3 DEF Next

LEMMA DownNext ==
  ASSUME TypeOK, PlacesAgree, DownIsMet, [Next]_vars
  PROVE  DownIsMet'
<1>t. calls \subseteq Calls /\ asked \subseteq calls /\ place \in [Calls -> Places]
      /\ result \in [Calls -> Failures \cup {None, Ok}]
      /\ ~ClusterWide(None)
  BY DEF TypeOK, ClusterWide, None, Refused, Unreachable
<1>g. Gated' = Gated
  BY GatedStays
<1>a. ASSUME down # None, down' = down
      PROVE  DownIsMet'
  BY <1>a, <1>t, MetStays DEF DownIsMet
<1>1. ASSUME NEW c \in calls, Read(c) PROVE DownIsMet'
  <2>m. /\ c \in Calls
        /\ \A d \in Calls : d # c => place'[d] = place[d] /\ result'[d] = result[d]
        /\ asked' \subseteq asked \cup {c}
    BY <1>t, <1>1, OneCallMoves
  <2>1. CASE Note(c)
    <3>1. /\ place[c] = "returned" /\ c \in asked
          /\ result' = result /\ asked' = asked
      BY <2>1 DEF Note, PlacesAgree
    <3>2. CASE down # None
      BY <2>1, <3>2, <1>a DEF Note
    <3>3. CASE down = None /\ Gated /\ ClusterWide(result[c])
      <4>1. down' = result[c]
        BY <2>1, <3>3 DEF Note
      <4> QED BY <1>t, <3>1, <3>3, <4>1 DEF DownIsMet
    <3>4. CASE down = None /\ ~(Gated /\ ClusterWide(result[c]))
      <4>1. down' = None
        BY <2>1, <3>4 DEF Note
      <4>2. \A d \in asked : d # c => place'[d] = place[d]
        BY <1>t, <2>m
      <4> QED BY <1>g, <3>1, <3>4, <4>1, <4>2 DEF DownIsMet
    <3> QED BY <3>2, <3>3, <3>4
  <2>2. CASE ~Note(c)
    <3>1. down' = down
      BY <1>1, <2>2 DEF Read, Enter, EnterCancelled, Ask, Told, AskUngated, Returns, Leave
    <3>2. CASE down # None
      BY <3>1, <3>2, <1>a
    <3>3. CASE down = None
      <4> SUFFICES ASSUME Gated, NEW d \in asked', ClusterWide(result'[d])
                   PROVE  place'[d] = "returned"
        BY <1>g, <3>1, <3>3 DEF DownIsMet
      <4>1. CASE d # c
        <5>1. d \in asked /\ d \in Calls
          BY <1>t, <2>m, <4>1
        <5> QED BY <2>m, <3>3, <4>1, <5>1 DEF DownIsMet
      <4> SUFFICES ASSUME d = c PROVE place'[c] = "returned"
        BY <4>1
      <4>2. CASE Leave(c)
        <5>1. result'[c] = result[c] /\ c \in asked /\ place[c] = "noted"
          BY <4>2 DEF Leave, PlacesAgree
        <5> QED BY <3>3, <5>1 DEF DownIsMet
      <4>3. CASE \E code \in Failures \cup {Ok} : Returns(c, code)
        BY <1>t, <2>m, <4>3 DEF Returns, Goto
      <4>4. CASE Enter(c) \/ Ask(c) \/ AskUngated(c)
        <5>1. result'[c] = None
          BY <4>4 DEF Enter, Ask, AskUngated, PlacesAgree
        <5> QED BY <1>t, <5>1
      <4>5. CASE Told(c) \/ EnterCancelled(c)
        BY <3>3, <4>5 DEF Told, EnterCancelled, PlacesAgree
      <4> QED BY <1>1, <2>2, <4>2, <4>3, <4>4, <4>5 DEF Read
    <3> QED BY <3>2, <3>3
  <2> QED BY <2>1, <2>2
<1>2. CASE Cancel \/ Settle \/ UNCHANGED vars
  <2>1. UNCHANGED <<place, result, down, asked>>
    BY <1>2 DEF Cancel, Settle, vars, request
  <2> QED BY <1>g, <2>1 DEF DownIsMet
<1>3. CASE NoContext
  BY <1>g, <1>3 DEF NoContext, DownIsMet
<1> QED BY <1>1, <1>2, <1>3 DEF Next

-----------------------------------------------------------------------------
(* The gate is never over its width, and what is at risk never outgrows it.*)

LEMMA GateNext ==
  ASSUME TypeOK, PlacesAgree, GateHolds, [Next]_vars
  PROVE  GateHolds'
<1>t. calls \subseteq Calls /\ Width \in Nat
  BY WidthAssumption DEF TypeOK
<1>n. Cardinality(slots) \in Nat
  BY FS_CardinalityType DEF GateHolds
<1>1. ASSUME NEW c \in calls, Read(c) PROVE GateHolds'
  <2>0. calls' = calls /\ slots' \subseteq slots \cup {c}
    BY <1>1, OneCallMoves DEF request
  <2>1. CASE Enter(c)
    <3>1. slots' = slots \cup {c} /\ Cardinality(slots) < Width
      BY <2>1 DEF Enter
    <3>2. IsFiniteSet(slots') /\ Cardinality(slots') <= Cardinality(slots) + 1
      <4>1. /\ IsFiniteSet(slots \cup {c})
            /\ Cardinality(slots \cup {c}) =
                 IF c \in slots THEN Cardinality(slots) ELSE Cardinality(slots) + 1
        BY FS_AddElement DEF GateHolds
      <4> QED BY <1>n, <3>1, <4>1
    <3>3. Cardinality(slots') \in Nat
      BY <3>2, FS_CardinalityType
    <3> QED BY <1>t, <1>n, <2>0, <3>1, <3>2, <3>3 DEF GateHolds
  <2>2. CASE ~Enter(c)
    <3>1. slots' \subseteq slots
      BY <1>1, <2>2 DEF Read, EnterCancelled, Ask, Told, AskUngated, Returns, Note, Leave
    <3>2. IsFiniteSet(slots') /\ Cardinality(slots') <= Cardinality(slots)
      BY <3>1, FS_Subset DEF GateHolds
    <3>3. Cardinality(slots') \in Nat
      BY <3>2, FS_CardinalityType
    <3> QED BY <1>t, <1>n, <2>0, <3>1, <3>2, <3>3 DEF GateHolds
  <2> QED BY <2>1, <2>2
<1>2. CASE Cancel \/ Settle \/ UNCHANGED vars
  <2>1. UNCHANGED <<calls, slots>>
    BY <1>2 DEF Cancel, Settle, vars, request
  <2> QED BY <2>1 DEF GateHolds
<1>3. CASE NoContext
  <2>1. slots = {}
    BY <1>3 DEF NoContext, PlacesAgree, GateHolds, InGate
  <2>2. calls' = {} /\ slots' = slots
    BY <1>3 DEF NoContext
  <2> QED BY <2>1, <2>2, FS_EmptySet DEF GateHolds
<1> QED BY <1>1, <1>2, <1>3 DEF Next

(* A call joins those at risk only while nothing is known, in its place.   *)
LEMMA RiskGrowsInTheGate ==
  ASSUME TypeOK, PlacesAgree, DownIsMet, [Next]_vars, Gated
  PROVE  AtRisk' \subseteq AtRisk \/ (down = None /\ AtRisk' \subseteq slots')
<1>t. calls \subseteq Calls /\ asked \subseteq calls /\ place \in [Calls -> Places]
      /\ result \in [Calls -> Failures \cup {None, Ok}]
      /\ ~ClusterWide(None)
  BY DEF TypeOK, ClusterWide, None, Refused, Unreachable
<1>1. ASSUME NEW c \in calls, Read(c)
      PROVE  AtRisk' \subseteq AtRisk \/ (down = None /\ AtRisk' \subseteq slots')
  <2>m. /\ c \in Calls
        /\ \A d \in Calls : d # c => place'[d] = place[d] /\ result'[d] = result[d]
        /\ asked' \subseteq asked \cup {c}
        /\ slots \ {c} \subseteq slots'
    BY <1>t, <1>1, OneCallMoves
  <2>1. CASE Ask(c)
    <3>1. down = None /\ c \in slots' /\ slots' = slots
      BY <2>1 DEF Ask, PlacesAgree, InGate
    <3>2. ASSUME NEW d \in AtRisk', d # c PROVE d \in slots
      <4>1. d \in asked /\ d \in AtRisk
        BY <1>t, <2>m, <3>2 DEF AtRisk
      <4>2. place[d] = "asking" \/ place[d] = "returned"
        BY <3>1, <4>1 DEF AtRisk, DownIsMet
      <4> QED BY <1>t, <4>1, <4>2 DEF PlacesAgree, InGate
    <3> QED BY <3>1, <3>2
  <2>2. CASE ~Ask(c)
    <3>1. ASSUME NEW d \in AtRisk', d # c PROVE d \in AtRisk
      BY <1>t, <2>m, <3>1 DEF AtRisk
    <3>2. c \in AtRisk' => c \in AtRisk
      <4>1. CASE Note(c) \/ Leave(c)
        BY <1>t, <2>m, <4>1 DEF Note, Leave, Goto, AtRisk
      <4>2. CASE \E code \in Failures \cup {Ok} : Returns(c, code)
        BY <1>t, <2>m, <4>2 DEF Returns, Goto, AtRisk, PlacesAgree
      <4>3. CASE Enter(c) \/ EnterCancelled(c) \/ Told(c)
        <5>1. c \notin asked'
          BY <4>3 DEF Enter, EnterCancelled, Told, PlacesAgree
        <5> QED BY <5>1 DEF AtRisk
      <4>4. ~AskUngated(c)
        BY DEF AskUngated
      <4> QED BY <1>1, <2>2, <4>1, <4>2, <4>3, <4>4 DEF Read
    <3> QED BY <3>1, <3>2
  <2> QED BY <2>1, <2>2
<1>2. CASE Cancel \/ Settle \/ NoContext \/ UNCHANGED vars
  <2>1. UNCHANGED <<place, result, asked>>
    BY <1>2 DEF Cancel, Settle, NoContext, vars, request
  <2> QED BY <2>1 DEF AtRisk
<1> QED BY <1>1, <1>2 DEF Next

LEMMA RiskNext ==
  ASSUME TypeOK, PlacesAgree, DownIsMet, GateHolds, RiskBounded, [Next]_vars
  PROVE  RiskBounded'
<1>g. Gated' = Gated
  BY GatedStays
<1>w. Width \in Nat
  BY WidthAssumption
<1> SUFFICES ASSUME Gated
             PROVE  IsFiniteSet(AtRisk') /\ Cardinality(AtRisk') <= Width
  BY <1>g DEF RiskBounded
<1>1. CASE AtRisk' \subseteq AtRisk
  <2>1. IsFiniteSet(AtRisk') /\ Cardinality(AtRisk') <= Cardinality(AtRisk)
    BY <1>1, FS_Subset DEF RiskBounded
  <2>2. Cardinality(AtRisk') \in Nat /\ Cardinality(AtRisk) \in Nat
    BY <2>1, FS_CardinalityType DEF RiskBounded
  <2> QED BY <1>w, <2>1, <2>2 DEF RiskBounded
<1>2. CASE AtRisk' \subseteq slots'
  <2>0. IsFiniteSet(slots') /\ Cardinality(slots') <= Width
    BY GateNext DEF GateHolds
  <2>1. IsFiniteSet(AtRisk') /\ Cardinality(AtRisk') <= Cardinality(slots')
    BY <1>2, <2>0, FS_Subset
  <2>2. Cardinality(AtRisk') \in Nat /\ Cardinality(slots') \in Nat
    BY <2>0, <2>1, FS_CardinalityType
  <2> QED BY <1>w, <2>0, <2>1, <2>2
<1> QED BY <1>1, <1>2, RiskGrowsInTheGate

-----------------------------------------------------------------------------
(* What a call, and the page, say.                                         *)

LEMMA ToldNext ==
  ASSUME TypeOK, PlacesAgree, DownIsMet, ToldTheTruth, [Next]_vars
  PROVE  ToldTheTruth'
<1>t. calls \subseteq Calls /\ asked \subseteq calls
      /\ place \in [Calls -> Places]
      /\ result \in [Calls -> Failures \cup {None, Ok}]
      /\ ~ClusterWide(None)
  BY DEF TypeOK, ClusterWide, None, Refused, Unreachable
<1>s. ASSUME NEW d \in asked, ClusterWide(result[d])
      PROVE  d \in asked' /\ result'[d] = result[d]
  BY <1>s, <1>t, MetStays
<1>1. ASSUME NEW c \in calls, Read(c) PROVE ToldTheTruth'
  <2>m. /\ c \in Calls /\ calls' = calls
        /\ \A d \in Calls : d # c => place'[d] = place[d] /\ result'[d] = result[d]
        /\ asked \subseteq asked' /\ asked' \subseteq asked \cup {c}
    BY <1>t, <1>1, OneCallMoves DEF request
  <2> SUFFICES ASSUME NEW e \in calls \ asked', result'[e] \notin {None, Interrupted}
               PROVE  ClusterWide(result'[e]) /\ \E d \in asked' : result'[d] = result'[e]
    BY <2>m DEF ToldTheTruth
  <2>1. CASE result'[e] = result[e]
    <3>1. PICK d \in asked : ClusterWide(result[e]) /\ result[d] = result[e]
      BY <2>m, <2>1 DEF ToldTheTruth
    <3> QED BY <2>1, <3>1, <1>s
  <2>2. CASE result'[e] # result[e]
    <3>1. e = c
      BY <1>t, <2>m, <2>2
    <3>2. CASE Told(c)
      <4>1. result'[c] = down /\ down # None
        BY <1>t, <2>m, <3>2 DEF Told, Came
      <4>2. PICK d \in asked : ClusterWide(down) /\ result[d] = down
        BY <4>1 DEF DownIsMet
      <4> QED BY <3>1, <4>1, <4>2, <1>s
    <3>3. CASE EnterCancelled(c)
      <4>1. result'[c] = Interrupted
        BY <1>t, <2>m, <3>3 DEF EnterCancelled, Came
      <4> QED BY <3>1, <4>1
    <3>4. CASE \E code \in Failures \cup {Ok} : Returns(c, code)
      <4>1. c \in asked'
        BY <2>m, <3>4 DEF Returns, PlacesAgree
      <4> QED BY <3>1, <4>1
    <3>5. CASE Enter(c) \/ Ask(c) \/ AskUngated(c) \/ Note(c) \/ Leave(c)
      <4>1. result' = result
        BY <3>5 DEF Enter, Ask, AskUngated, Note, Leave
      <4> QED BY <2>2, <4>1
    <3> QED BY <1>1, <3>2, <3>3, <3>4, <3>5 DEF Read
  <2> QED BY <2>1, <2>2
<1>2. CASE Cancel \/ Settle \/ UNCHANGED vars
  <2>1. UNCHANGED <<calls, result, asked>>
    BY <1>2 DEF Cancel, Settle, vars, request
  <2> QED BY <2>1 DEF ToldTheTruth
<1>3. CASE NoContext
  BY <1>3 DEF NoContext, ToldTheTruth
<1> QED BY <1>1, <1>2, <1>3 DEF Next

LEMMA EndedNext ==
  ASSUME TypeOK, EndedWhenAnswered, [Next]_vars
  PROVE  EndedWhenAnswered'
<1>1. ASSUME NEW c \in calls, Read(c) PROVE EndedWhenAnswered'
  <2>1. page = Pending /\ page' = page
    BY <1>1, OneCallMoves DEF EndedWhenAnswered
  <2> QED BY <2>1 DEF EndedWhenAnswered, Pending
<1>2. CASE Cancel \/ UNCHANGED vars
  BY <1>2 DEF Cancel, vars, request, EndedWhenAnswered, Pending
<1>3. CASE Settle
  BY <1>3 DEF Settle, request, EndedWhenAnswered, Pending
<1>4. CASE NoContext
  BY <1>4 DEF NoContext, EndedWhenAnswered
<1> QED BY <1>1, <1>2, <1>3, <1>4 DEF Next

(* A listing of one scope has one outcome.                                 *)
LEMMA OneCallOneCode ==
  ASSUME IsFiniteSet(calls), Cardinality(calls) = 1, NEW c \in calls, result[c] # Ok
  PROVE  Codes = {result[c]}
<1>1. PICK d : calls = {d}
  BY FS_Singleton
<1> QED BY <1>1 DEF Codes, Unread

(* Each page is the refusal exactly when some read was refused.            *)
LEMMA PageOfRefusal ==
  ASSUME TypeOK, GateHolds, Settle
  PROVE  page' = Error(Refused) <=> Refused \in Codes
<1>e. /\ \A code : Error(code) = Error(Refused) <=> code = Refused
      /\ Rows # Error(Refused)
      /\ \A code : Unanswered(code) # Error(Refused)
  BY DEF Error, Rows, Unanswered
<1>1. CASE shape = "overview"
  <2>1. page' \in OverviewPage
    BY <1>1 DEF Settle
  <2> QED BY <1>e, <2>1 DEF OverviewPage
<1>2. CASE shape = "listing"
  <2>1. page' \in ListingPage
    BY <1>2 DEF Settle
  <2> QED BY <1>e, <2>1 DEF ListingPage
<1>3. CASE shape = "cnpg"
  <2>1. page' \in CnpgPage
    BY <1>3 DEF Settle
  <2>2. CASE Refused \in Codes
    <3>1. PICK c \in calls : result[c] # Ok /\ result[c] = Refused
      BY <2>2 DEF Codes, Unread
    <3>2. Unread # {}
      BY <3>1 DEF Unread
    <3>3. CASE Cardinality(calls) = 1
      <4>1. Codes = {Refused}
        BY <3>1, <3>3, OneCallOneCode DEF GateHolds
      <4> QED BY <1>e, <2>1, <2>2, <3>2, <3>3, <4>1 DEF CnpgPage
    <3>4. CASE Cardinality(calls) # 1
      BY <1>e, <2>1, <2>2, <3>2, <3>4 DEF CnpgPage
    <3> QED BY <3>3, <3>4
  <2>3. CASE Refused \notin Codes
    BY <1>e, <2>1, <2>3 DEF CnpgPage
  <2> QED BY <2>2, <2>3
<1> QED BY <1>1, <1>2, <1>3 DEF TypeOK, Shapes

LEMMA RefusalNext ==
  ASSUME TypeOK, PlacesAgree, GateHolds, EndedWhenAnswered, ToldTheTruth,
         RefusalIsTheAnswer, [Next]_vars
  PROVE  RefusalIsTheAnswer'
<1>t. asked \subseteq calls
  BY DEF TypeOK
<1>1. ASSUME NEW c \in calls, Read(c) PROVE RefusalIsTheAnswer'
  <2>1. page = Pending /\ page' = page
    BY <1>1, OneCallMoves DEF EndedWhenAnswered
  <2> QED BY <2>1 DEF RefusalIsTheAnswer, Pending
<1>2. CASE Cancel \/ UNCHANGED vars
  <2>1. UNCHANGED <<page, result, asked>>
    BY <1>2 DEF Cancel, vars
  <2> QED BY <2>1 DEF RefusalIsTheAnswer, Pending, Error
<1>3. CASE Settle
  <2>1. UNCHANGED <<result, asked>>
    BY <1>3 DEF Settle
  <2>2. page' = Error(Refused) <=> Refused \in Codes
    BY <1>3, PageOfRefusal
  <2>3. Refused \in Codes <=> \E c \in calls : result[c] = Refused
    BY DEF Codes, Unread, Refused, Ok
  <2>4. ASSUME NEW c \in calls, result[c] = Refused
        PROVE  \E d \in asked : result[d] = Refused
    <3>1. CASE c \in asked
      BY <2>4, <3>1
    <3>2. CASE c \notin asked
      BY <2>4, <3>2 DEF ToldTheTruth, Refused, None, Interrupted
    <3> QED BY <3>1, <3>2
  <2> QED BY <1>t, <2>1, <2>2, <2>3, <2>4 DEF RefusalIsTheAnswer, Error
<1>4. CASE NoContext
  <2>1. asked' = {}
    BY <1>t, <1>4 DEF NoContext, PlacesAgree
  <2>2. page' # Error(Refused)
    BY <1>4 DEF NoContext, Error
  <2> QED BY <2>1, <2>2 DEF RefusalIsTheAnswer, Error
<1> QED BY <1>1, <1>2, <1>3, <1>4 DEF Next

(* A listing some of whose reads were answered, and none refused, is rows. *)
LEMMA PageOfSiblings ==
  ASSUME GateHolds, Settle, shape # "overview", shape \in Shapes,
         Refused \notin Codes, ~NoRead
  PROVE  page' = Rows
<1>1. CASE shape = "listing"
  BY <1>1 DEF Settle, ListingPage
<1>2. CASE shape = "cnpg"
  <2>1. Cardinality(calls) = 1 => Unread = {}
    <3>1. SUFFICES ASSUME Cardinality(calls) = 1 PROVE Unread = {}
      OBVIOUS
    <3>2. PICK d : calls = {d}
      BY <3>1, FS_Singleton DEF GateHolds
    <3> QED BY <3>2 DEF NoRead, Unread
  <2> QED BY <1>2, <2>1 DEF Settle, CnpgPage
<1> QED BY <1>1, <1>2 DEF Shapes

LEMMA SiblingsNext ==
  ASSUME TypeOK, GateHolds, EndedWhenAnswered, SiblingsSpared, [Next]_vars
  PROVE  SiblingsSpared'
<1>1. ASSUME NEW c \in calls, Read(c) PROVE SiblingsSpared'
  <2>1. page = Pending /\ page' = page
    BY <1>1, OneCallMoves DEF EndedWhenAnswered
  <2> QED BY <2>1 DEF SiblingsSpared, Pending
<1>2. CASE Cancel \/ UNCHANGED vars
  <2>1. UNCHANGED <<shape, calls, page, result>>
    BY <1>2 DEF Cancel, vars, request
  <2> QED BY <2>1 DEF SiblingsSpared, Pending, Codes, Unread, NoRead, Rows
<1>3. CASE Settle
  <2>1. UNCHANGED <<shape, calls, result>>
    BY <1>3 DEF Settle, request
  <2>2. Codes' = Codes /\ (NoRead' <=> NoRead)
    BY <2>1 DEF Codes, Unread, NoRead
  <2>3. shape \in Shapes
    BY DEF TypeOK
  <2> QED BY <1>3, <2>1, <2>2, <2>3, PageOfSiblings DEF SiblingsSpared, Rows
<1>4. CASE NoContext
  BY <1>4 DEF NoContext, SiblingsSpared
<1> QED BY <1>1, <1>2, <1>3, <1>4 DEF Next

-----------------------------------------------------------------------------
LEMMA InvInit == Init => Inv
<1> SUFFICES ASSUME Init PROVE Inv
  OBVIOUS
<1>1. TypeOK
  BY TypeInit
<1>2. /\ calls \subseteq Calls /\ asked = {} /\ slots = {} /\ down = None /\ page = Pending
      /\ \A c \in Calls : place[c] = "waiting" /\ result[c] = None
  BY <1>1 DEF Init, TypeOK
<1>3. IsFiniteSet(calls)
  <2>1. IsFiniteSet(ScopesOf(named)) /\ IsFiniteSet(Kinds)
    <3>1. CASE named = {}
      BY <3>1, FS_Singleton, KindsAssumption DEF ScopesOf
    <3>2. CASE named # {}
      BY <3>2, FS_Subset, ScopesAssumption, KindsAssumption DEF ScopesOf, Init
    <3> QED BY <3>1, <3>2
  <2>2. IsFiniteSet(Kinds \X ScopesOf(named)) /\ IsFiniteSet({"list"} \X ScopesOf(named))
    BY <2>1, FS_Product, FS_Singleton
  <2>3. IsFiniteSet({<<"namespaces", Whole>>, <<"nodes", Whole>>} \cup (Kinds \X ScopesOf(named)))
    <3>1. IsFiniteSet((Kinds \X ScopesOf(named)) \cup {<<"namespaces", Whole>>})
      BY <2>2, FS_AddElement
    <3>2. IsFiniteSet(((Kinds \X ScopesOf(named)) \cup {<<"namespaces", Whole>>}) \cup {<<"nodes", Whole>>})
      BY <3>1, FS_AddElement
    <3>3. ((Kinds \X ScopesOf(named)) \cup {<<"namespaces", Whole>>}) \cup {<<"nodes", Whole>>}
            = {<<"namespaces", Whole>>, <<"nodes", Whole>>} \cup (Kinds \X ScopesOf(named))
      OBVIOUS
    <3> QED BY <3>2, <3>3
  <2> QED BY <2>2, <2>3 DEF Init, CallsOf
<1>4. AtRisk = {}
  BY <1>2 DEF AtRisk
<1>5. 0 <= Width
  BY WidthAssumption
<1> QED BY <1>1, <1>2, <1>3, <1>4, <1>5, FS_EmptySet
       DEF Inv, PlacesAgree, InGate, DownIsMet, GateHolds, RiskBounded, EndedWhenAnswered,
           ToldTheTruth, RefusalIsTheAnswer, SiblingsSpared, ClusterWide, None, Refused, Unreachable

LEMMA InvNext == Inv /\ [Next]_vars => Inv'
<1> SUFFICES ASSUME Inv, [Next]_vars PROVE Inv'
  OBVIOUS
<1>i. /\ TypeOK /\ PlacesAgree /\ DownIsMet /\ GateHolds /\ RiskBounded
      /\ EndedWhenAnswered /\ ToldTheTruth /\ RefusalIsTheAnswer /\ SiblingsSpared
  BY DEF Inv
<1>1. TypeOK'
  BY <1>i, TypeNext
<1>2. PlacesAgree'
  BY <1>i, PlacesNext DEF GateHolds
<1>3. DownIsMet' /\ GateHolds' /\ RiskBounded'
  BY <1>i, DownNext, GateNext, RiskNext
<1>4. ToldTheTruth' /\ EndedWhenAnswered' /\ RefusalIsTheAnswer'
  BY <1>i, ToldNext, EndedNext, RefusalNext
<1>5. SiblingsSpared'
  BY <1>i, SiblingsNext
<1> QED BY <1>1, <1>2, <1>3, <1>4, <1>5 DEF Inv

(* The inductive invariant of an answer made of many reads.                *)
THEOREM ReadsInvariant == Spec => []Inv
BY InvInit, InvNext, PTL DEF Spec

(* Every variable keeps its type.                                          *)
THEOREM TypeCorrect == Spec => []TypeOK
<1>1. Inv => TypeOK
  BY DEF Inv
<1> QED BY <1>1, ReadsInvariant, PTL

(* The calls that ran kubectl only to meet a failure of the whole cluster  *)
(* are no more than the gate is wide, however many there were to make      *)
(* (gate.enter, gate.note; readEach in cnpg).                              *)
THEOREM DeadClusterAskedAtMostWidth == Spec => []DeadClusterAskedOnce
<1>1. Inv => DeadClusterAskedOnce
  <2> SUFFICES ASSUME Inv, Gated
               PROVE  Cardinality({c \in asked : ClusterWide(result[c])}) <= Width
    BY DEF DeadClusterAskedOnce
  <2>0. IsFiniteSet(AtRisk) /\ Cardinality(AtRisk) <= Width
    BY DEF Inv, RiskBounded
  <2>1. {c \in asked : ClusterWide(result[c])} \subseteq AtRisk
    BY DEF AtRisk
  <2>2. /\ IsFiniteSet({c \in asked : ClusterWide(result[c])})
        /\ Cardinality({c \in asked : ClusterWide(result[c])}) <= Cardinality(AtRisk)
    BY <2>0, <2>1, FS_Subset
  <2>3. /\ Cardinality({c \in asked : ClusterWide(result[c])}) \in Nat
        /\ Cardinality(AtRisk) \in Nat /\ Width \in Nat
    BY <2>0, <2>2, FS_CardinalityType, WidthAssumption
  <2> QED BY <2>0, <2>2, <2>3
<1> QED BY <1>1, ReadsInvariant, PTL

(* A call that was not made is answered with a cluster-wide failure another*)
(* call met (gate.enter, gate.note).                                       *)
THEOREM NoOneToldWhatNobodyMet == Spec => []ToldTheTruth
<1>1. Inv => ToldTheTruth
  BY DEF Inv
<1> QED BY <1>1, ReadsInvariant, PTL

(* The answer is the refusal exactly when some read that was made was      *)
(* refused (rejected in kube, settle in cnpg).                             *)
THEOREM RefusalAnswered == Spec => []RefusalIsTheAnswer
<1>1. Inv => RefusalIsTheAnswer
  BY DEF Inv
<1> QED BY <1>1, ReadsInvariant, PTL

(* A page is neither worse nor better than the reads it is made of         *)
(* (rejected, readListing, settle).                                        *)
THEOREM PageAnswered == Spec => []PageIsItsReads
<1>1. Inv => PageIsItsReads
  BY DEF Inv, PageIsItsReads
<1> QED BY <1>1, ReadsInvariant, PTL
=============================================================================
