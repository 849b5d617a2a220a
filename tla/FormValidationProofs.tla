-------------------------- MODULE FormValidationProofs --------------------------
(***************************************************************************)
(* Safety of the validated form for any fields, marked up in any way.      *)
(***************************************************************************)
EXTENDS FormValidation, UnobtrusiveAdaptersProofs, FiniteSetTheorems

Kinds == {"none", "rule", "remote"}
Containers == [class : {"valid", "error"}, text : Kinds]
Askings == [old : Values \cup {None}, valid : BOOLEAN]
Ruled == DOMAIN settings

Types(s) == /\ s.shown \in [Fields -> Containers] /\ s.previous \in [Fields -> Askings]
            /\ s.request \in [Fields -> Values \cup {None}]
            /\ s.pending \subseteq Fields \cap Ruled

\* The count is that of the pending fields, and awaited answers are for them.
InSync(s) == /\ s.count = Cardinality(s.pending)
             /\ \A f \in Fields : s.request[f] # None => f \in s.pending

\* An awaited answer is for the value asked for last, and what is remembered
\* of a field that is not pending is what the server said.
Remembers(s) ==
  \A f \in Fields :
    /\ s.request[f] # None => s.previous[f].old \in {None, s.request[f]}
    /\ f \notin s.pending /\ s.previous[f].old # None =>
         (s.previous[f].valid <=> s.previous[f].old \in Accepted)

\* Only fields with rules are shown in error.
RuledErrors(s) == \A f \in Fields : s.shown[f].class = "error" => f \in Ruled

Good(s) == Types(s) /\ InSync(s) /\ Remembers(s) /\ RuledErrors(s)

Rest == /\ page \in {"loading", "ready", "left"} /\ here \subseteq Fields /\ markup \in Forms
        /\ DOMAIN settings \subseteq DOMAIN options /\ DOMAIN options \subseteq here
        /\ value \in [Fields -> Values]
        /\ invalid \subseteq Fields /\ submitted \subseteq Fields /\ fresh \subseteq Fields
        /\ errorMap \in [Fields -> Kinds] /\ successList \subseteq Fields
        /\ summary \in [class : {"valid", "error"}, items : SUBSET Fields]
        /\ formSubmitted \in BOOLEAN

\* What failed in the last check has rules and is watched.
ListedErrors == Failing(errorMap) \subseteq Ruled \cap (submitted \cup invalid)

\* A value a field may leave with: the rules accept it, and so does the server.
MayLeave(f) == /\ MeetsAll(value[f], settings[f])
               /\ "remote" \in DOMAIN settings[f] /\ value[f] # 0 => value[f] \in Accepted

\* The form leaves only when every field with rules may.
LeavesChecked == page = "left" => \A f \in DOMAIN settings : MayLeave(f)

Inv == Rest /\ Good(State) /\ ListedErrors /\ ErrorsAreWatched /\ LeavesChecked

(* Defaults and reset fields have a value.                                 *)
LEMMA EmptyIsValue == 0 \in Values
BY DEF Values

(* A check has five outcomes, and none but the first without rules.        *)
LEMMA OutcomeKinds ==
  ASSUME NEW f, NEW v, NEW asked
  PROVE  /\ Outcome(f, v, asked) \in {"unruled", "rule", "ok", "ask", "remote"}
         /\ f \notin Ruled <=> Outcome(f, v, asked) = "unruled"
BY DEF Outcome, Ruled

\* What a check of S, with the values v and from state s, leads to.
WellChecked(S, v, s) ==
  /\ Good(State)'
  /\ errorMap' \in [Fields -> Kinds] /\ successList' \subseteq Fields
  /\ submitted' = submitted \cup Failing(errorMap') /\ submitted' \subseteq Fields
  /\ Failing(errorMap') \subseteq Ruled
  /\ \A f \in Fields : container'[f].class = "error" =>
       f \in submitted' \/ (s.shown[f].class = "error" /\ (f \in S => f \in pending'))
  /\ s.pending \subseteq pending'
  /\ \A f \in S \cap Ruled : f \notin Failing(errorMap') /\ f \notin pending' =>
       Outcome(f, v[f], s.previous[f]) = "ok" /\ previous'[f] = s.previous[f]

(* A check keeps a good state good, shows in error what it lists, and      *)
(* watches what it shows.                                                  *)
LEMMA Checked ==
  ASSUME NEW S \in SUBSET Fields, NEW v \in [Fields -> Values], NEW s, Good(s), Check(S, v, s),
         submitted \subseteq Fields, UNCHANGED settings
  PROVE  WellChecked(S, v, s)
<1> DEFINE outcome(f) == Outcome(f, v[f], s.previous[f])
           errors == [f \in Fields |-> IF f \in S /\ outcome(f) \in {"rule", "remote"}
                                       THEN outcome(f) ELSE "none"]
           asked == {f \in S : outcome(f) = "ask"}
<1>a. \A f : /\ outcome(f) \in {"unruled", "rule", "ok", "ask", "remote"}
             /\ f \notin Ruled <=> outcome(f) = "unruled"
  BY OutcomeKinds
<1>b. /\ errorMap' = errors /\ successList' = {f \in S : outcome(f) = "ok"}
      /\ submitted' = submitted \cup Failing(errors)
      /\ container' = ShowErrors(s.shown, errors, successList')
      /\ StartRequests(asked, v, s)
  BY DEF Check
<1> HIDE DEF outcome
<1>1. /\ errors \in [Fields -> Kinds] /\ successList' \subseteq Fields /\ asked \subseteq S
      /\ Failing(errors) \subseteq Ruled \cap S /\ asked \subseteq Ruled
      /\ successList' \subseteq Ruled
      /\ \A f \in S : f \in Failing(errors) \/ f \in asked \/ f \in successList' \/ f \notin Ruled
  BY <1>a, <1>b DEF Failing, Kinds
<1>c. errorMap' = errors /\ container' = ShowErrors(s.shown, errors, successList')
  BY <1>b
<1> HIDE DEF errors, asked
<1>2. /\ container' \in [Fields -> Containers]
      /\ \A f \in Fields : container'[f].class = "error" =>
           f \in Failing(errors) \/ (s.shown[f].class = "error" /\ f \notin successList')
  <2>1. s.shown \in [Fields -> Containers]
    BY DEF Good, Types
  <2>2. \A f \in Fields : OnError(f, s.shown[f], errors[f]) \in Containers
                          /\ OnSuccess(f, s.shown[f]) \in Containers
                          /\ OnSuccess(f, s.shown[f]).class = "valid"
    BY <2>1, <1>1 DEF OnError, OnSuccess, Containers, Kinds
  <2>3. QED
    BY <2>1, <2>2, <1>c DEF ShowErrors, Failing
<1>3. /\ previous' = [f \in Fields |-> IF f \in asked THEN [s.previous[f] EXCEPT !.old = v[f]]
                                       ELSE s.previous[f]]
      /\ request' = [f \in Fields |-> IF f \in asked THEN v[f] ELSE s.request[f]]
      /\ pending' = s.pending \cup asked
      /\ pendingRequest' = s.count + Cardinality(asked \ s.pending)
  BY <1>b DEF StartRequests
<1>4. /\ previous' \in [Fields -> Askings] /\ request' \in [Fields -> Values \cup {None}]
      /\ \A f \in asked : previous'[f].old = v[f] /\ request'[f] = v[f]
      /\ \A f \in Fields \ asked : previous'[f] = s.previous[f] /\ request'[f] = s.request[f]
  <2>1. s.previous \in [Fields -> Askings] /\ s.request \in [Fields -> Values \cup {None}]
    BY DEF Good, Types
  <2>2. \A f \in asked : /\ [s.previous[f] EXCEPT !.old = v[f]] \in Askings
                         /\ [s.previous[f] EXCEPT !.old = v[f]].old = v[f]
    <3>1. SUFFICES ASSUME NEW f \in asked, NEW p \in Askings, NEW w \in Values
                   PROVE  [p EXCEPT !.old = w] \in Askings /\ [p EXCEPT !.old = w].old = w
      BY <2>1, <1>1
    <3>2. QED
      BY DEF Askings
  <2>3. QED
    BY <2>1, <2>2, <1>1, <1>3
<1>5. pendingRequest' = Cardinality(pending')
  <2>1. /\ IsFiniteSet(s.pending) /\ IsFiniteSet(asked \ s.pending)
        /\ s.pending \cap (asked \ s.pending) = {} /\ pending' = s.pending \cup (asked \ s.pending)
    BY <1>1, <1>3, ValuesAssumption, FS_Subset DEF Good, Types
  <2>2. Cardinality(s.pending \cup (asked \ s.pending)) =
          Cardinality(s.pending) + Cardinality(asked \ s.pending)
    <3>1. Cardinality(s.pending \cap (asked \ s.pending)) = 0
      BY <2>1, FS_EmptySet, Zenon
    <3>2. /\ Cardinality(s.pending) \in Nat /\ Cardinality(asked \ s.pending) \in Nat
      BY <2>1, FS_CardinalityType
    <3>3. Cardinality(s.pending \cup (asked \ s.pending)) =
            Cardinality(s.pending) + Cardinality(asked \ s.pending)
              - Cardinality(s.pending \cap (asked \ s.pending))
      BY <2>1, FS_Union
    <3>4. QED
      BY <2>1, <3>1, <3>2, <3>3
  <2>3. QED
    BY <2>1, <2>2, <1>3 DEF Good, InSync
<1>6. Types(State)'
  BY <1>1, <1>2, <1>3, <1>4 DEF Good, Types, State, Ruled
<1>7. InSync(State)'
  BY <1>1, <1>3, <1>4, <1>5 DEF Good, InSync, State
<1>8. Remembers(State)'
  BY <1>1, <1>3, <1>4 DEF Good, Remembers, InSync, State
<1>9. RuledErrors(State)'
  BY <1>1, <1>2 DEF Good, RuledErrors, State, Ruled
<1>10. \A f \in S : outcome(f) = "ok" \/ f \in Failing(errors) \/ f \in asked \/ f \notin Ruled
  BY <1>1, <1>b
<1>11. \A f \in S : f \in asked \/ previous'[f] = s.previous[f]
  BY <1>4
<1>12. /\ Good(State)' /\ s.pending \subseteq pending' /\ asked \subseteq pending'
       /\ submitted' = submitted \cup Failing(errors) /\ submitted' \subseteq Fields
  BY <1>3, <1>6, <1>7, <1>8, <1>9, <1>b DEF Good, Failing
<1>13. \A f \in Fields : container'[f].class = "error" =>
         \/ f \in submitted'
         \/ s.shown[f].class = "error" /\ (f \in S => f \in pending')
  <2>1. RuledErrors(s)
    BY DEF Good
  <2>2. QED
    BY <2>1, <1>1, <1>2, <1>12 DEF RuledErrors
<1>14. \A f \in S \cap Ruled : f \notin Failing(errorMap') /\ f \notin pending' =>
         Outcome(f, v[f], s.previous[f]) = "ok" /\ previous'[f] = s.previous[f]
  BY <1>10, <1>11, <1>12, <1>c DEF outcome
<1>15. QED
  BY <1>1, <1>12, <1>13, <1>14, <1>c DEF WellChecked

(* Showing an answer keeps the state good; what is in error is watched,    *)
(* pending, or the answered field.                                         *)
LEMMA AnsweredGood ==
  ASSUME Inv, NEW f \in Fields, request[f] # None
  PROVE  /\ Good(Answered(f)) /\ f \in Ruled
         /\ AnsweredErrors(f) \in [Fields -> Kinds] /\ AnsweredSuccesses(f) \subseteq Fields
         /\ Failing(AnsweredErrors(f)) \subseteq Ruled \cap (submitted \cup invalid \cup {f})
         /\ \A g \in Fields : Answered(f).shown[g].class = "error" =>
              g \in submitted \cup invalid \cup {f} \cup Answered(f).pending
<1> DEFINE a == Answered(f)
<1>0. /\ container \in [Fields -> Containers] /\ previous \in [Fields -> Askings]
      /\ request \in [Fields -> Values \cup {None}] /\ pending \subseteq Fields \cap Ruled
      /\ pendingRequest = Cardinality(pending) /\ f \in pending
      /\ \A g \in Fields : request[g] # None => g \in pending
      /\ RuledErrors(State) /\ Remembers(State)
  BY DEF Inv, Good, Types, InSync, State
<1>1. /\ AnsweredErrors(f) \in [Fields -> Kinds] /\ AnsweredSuccesses(f) \subseteq Fields
      /\ Failing(AnsweredErrors(f)) \subseteq Ruled \cap (submitted \cup invalid \cup {f})
      /\ f \in AnsweredSuccesses(f) \/ AnsweredErrors(f)[f] # "none"
  BY <1>0 DEF Inv, Rest, ListedErrors, Failing, AnsweredErrors, AnsweredSuccesses, NoErrors, Kinds
<1>2. /\ a.shown = ShowErrors(container, AnsweredErrors(f), AnsweredSuccesses(f))
      /\ a.previous = IF previous[f].old = None THEN previous
                      ELSE [previous EXCEPT ![f].valid = Accepts(f)]
      /\ a.request = [request EXCEPT ![f] = None]
      /\ a.pending = pending \ {f}
      /\ a.count = IF pendingRequest > 0 THEN pendingRequest - 1 ELSE 0
  BY DEF Answered
<1> HIDE DEF a
<1>3. /\ a.shown \in [Fields -> Containers]
      /\ \A g \in Fields : a.shown[g].class = "error" =>
           \/ g \in Failing(AnsweredErrors(f))
           \/ container[g].class = "error" /\ g # f
  <2>1. \A g \in Fields : /\ OnError(g, container[g], AnsweredErrors(f)[g]) \in Containers
                          /\ OnSuccess(g, container[g]) \in Containers
                          /\ OnSuccess(g, container[g]).class = "valid"
    BY <1>0, <1>1 DEF OnError, OnSuccess, Containers, Kinds
  <2>2. QED
    BY <2>1, <1>0, <1>1, <1>2 DEF ShowErrors, Failing
<1>4. /\ a.previous \in [Fields -> Askings]
      /\ \A g \in Fields : a.previous[g].old = previous[g].old
      /\ \A g \in Fields \ {f} : a.previous[g] = previous[g]
      /\ previous[f].old # None => (a.previous[f].valid <=> request[f] \in Accepted)
  <2>1. CASE previous[f].old = None
    BY <2>1, <1>0, <1>2
  <2>2. CASE previous[f].old # None
    <3>1. ASSUME NEW p \in Askings, NEW b \in BOOLEAN
          PROVE  /\ [p EXCEPT !.valid = b] \in Askings /\ [p EXCEPT !.valid = b].old = p.old
                 /\ [p EXCEPT !.valid = b].valid = b
      BY DEF Askings
    <3> DEFINE q == [previous[f] EXCEPT !.valid = Accepts(f)]
    <3>2. q \in Askings /\ q.old = previous[f].old /\ q.valid = Accepts(f)
      <4>1. Accepts(f) \in BOOLEAN /\ previous[f] \in Askings
        BY <1>0 DEF Accepts
      <4>2. QED
        BY <3>1, <4>1, Zenon
    <3>3. a.previous = [previous EXCEPT ![f] = q]
      BY <2>2, <1>2
    <3> HIDE DEF q
    <3>4. QED
      BY <3>2, <3>3, <1>0 DEF Accepts
  <2>3. QED
    BY <2>1, <2>2
<1>5. a.count = Cardinality(a.pending)
  <2>1. IsFiniteSet(pending)
    BY <1>0, ValuesAssumption, FS_Subset
  <2>2. Cardinality(pending) \in Nat /\ Cardinality(pending \ {f}) \in Nat
    BY <2>1, FS_CardinalityType, FS_RemoveElement
  <2>3. Cardinality(pending \ {f}) = Cardinality(pending) - 1
    BY <2>1, <1>0, FS_RemoveElement
  <2>4. QED
    BY <2>2, <2>3, <1>0, <1>2
<1>6. Types(a)
  BY <1>0, <1>2, <1>3, <1>4 DEF Types
<1>7. InSync(a)
  BY <1>0, <1>2, <1>5 DEF InSync
<1>8. Remembers(a)
  <2>1. \A g \in Fields :
          /\ request[g] # None => previous[g].old \in {None, request[g]}
          /\ g \notin pending /\ previous[g].old # None =>
               (previous[g].valid <=> previous[g].old \in Accepted)
    BY <1>0 DEF Remembers, State
  <2>2. \A g \in Fields : g # f => a.request[g] = request[g]
    BY <1>0, <1>2
  <2>3. a.request[f] = None
    BY <1>0, <1>2
  <2>4. QED
    BY <2>1, <2>2, <2>3, <1>0, <1>2, <1>4 DEF Remembers
<1>9. RuledErrors(a)
  BY <1>0, <1>1, <1>3 DEF RuledErrors, State
<1>10. \A g \in Fields : a.shown[g].class = "error" =>
         g \in submitted \cup invalid \cup {f} \cup a.pending
  BY <1>1, <1>2, <1>3 DEF Inv, ErrorsAreWatched
<1>11. QED
  BY <1>0, <1>1, <1>6, <1>7, <1>8, <1>9, <1>10 DEF a, Good

\* What a step that checks or answers has to keep.
Listed == /\ errorMap \in [Fields -> Kinds] /\ successList \subseteq Fields
          /\ submitted \subseteq Fields /\ invalid \subseteq Fields /\ fresh \subseteq Fields
          /\ ListedErrors /\ ErrorsAreWatched

(* A check of the form leaves it so that, if it passes with nothing        *)
(* awaited, every field may leave.                                         *)
LEMMA FormStep ==
  ASSUME Inv, NEW s, Good(s), Form(s), UNCHANGED <<settings, value>>
  PROVE  /\ Good(State)' /\ Listed'
         /\ summary' \in [class : {"valid", "error"}, items : SUBSET Fields]
         /\ FormPasses /\ pendingRequest' = 0 => \A f \in Ruled : MayLeave(f)
<1>0. /\ value \in [Fields -> Values] /\ submitted \subseteq Fields
      /\ summary \in [class : {"valid", "error"}, items : SUBSET Fields]
  BY DEF Inv, Rest, Ruled
<1>a. Check(Ruled, value, s)
  BY DEF Form, Ruled
<1>b. UNCHANGED settings /\ Good(s)
  OBVIOUS
<1>c. Ruled \in SUBSET Fields /\ submitted \subseteq Fields /\ value \in [Fields -> Values]
  BY DEF Inv, Rest, Ruled
<1>1. /\ invalid' = Failing(errorMap') /\ fresh' = Ruled
      /\ \/ summary' = [class |-> "error", items |-> Failing(errorMap')]
         \/ summary' = summary
  BY DEF Form, OnErrors, Ruled
<1>2. WellChecked(Ruled, value, s)
  BY <1>a, <1>b, <1>c, Checked
<1>3. Failing(errorMap') \subseteq Fields
  BY DEF Failing
<1>4. Listed'
  <2>1. ErrorsAreWatched'
    BY <1>2 DEF Good, RuledErrors, ErrorsAreWatched, WellChecked
  <2>2. ListedErrors'
    BY <1>1, <1>2 DEF ListedErrors, Failing, Ruled, WellChecked
  <2>3. QED
    BY <2>1, <2>2, <1>c, <1>1, <1>2, <1>3 DEF Listed, WellChecked
<1>5. summary' \in [class : {"valid", "error"}, items : SUBSET Fields]
  BY <1>0, <1>1, <1>3
<1>6. ASSUME FormPasses, pendingRequest' = 0, NEW f \in Ruled PROVE MayLeave(f)
  <2>1. pendingRequest' = Cardinality(pending') /\ pending' \subseteq Fields
    BY <1>2 DEF Good, Types, InSync, State, WellChecked
  <2>2. pending' = {}
    BY <2>1, <1>6, ValuesAssumption, FS_Subset, FS_EmptySet
  <2>3. Outcome(f, value[f], s.previous[f]) = "ok" /\ f \notin s.pending
    BY <2>2, <1>2, <1>6 DEF FormPasses, WellChecked
  <2>4. /\ MeetsAll(value[f], settings[f])
        /\ \/ "remote" \notin DOMAIN settings[f] \/ value[f] = 0
           \/ s.previous[f].old = value[f] /\ s.previous[f].valid
    BY <2>3 DEF Outcome
  <2>5. value[f] \in Values /\ value[f] # None /\ f \in Fields
    BY <1>c, ValuesAssumption
  <2>6. QED
    BY <2>3, <2>4, <2>5 DEF MayLeave, Good, Remembers
<1>7. QED
  BY <1>2, <1>4, <1>5, <1>6 DEF WellChecked

(* So does a check of one field, which lets nothing leave.                 *)
LEMMA ElementStep ==
  ASSUME Inv, NEW f \in Fields, NEW v \in [Fields -> Values], Element(f, v), UNCHANGED settings
  PROVE  Good(State)' /\ Listed'
<1>0. /\ Good(State) /\ submitted \subseteq Fields /\ invalid \subseteq Fields
      /\ fresh \subseteq Fields /\ {f} \in SUBSET Fields
  BY DEF Inv, Rest
<1>1. Check({f}, v, State) /\ invalid' = invalid \cup {f} /\ fresh' = fresh \cup {f}
  BY DEF Element
<1>2. WellChecked({f}, v, State)
  BY <1>0, <1>1, Checked
<1>3. ErrorsAreWatched'
  BY <1>1, <1>2 DEF Inv, ErrorsAreWatched, State, WellChecked
<1>4. ListedErrors'
  BY <1>2 DEF ListedErrors, Failing, Ruled, WellChecked
<1>5. QED
  BY <1>0, <1>1, <1>2, <1>3, <1>4 DEF Listed, WellChecked

(* Steps that leave the fields with rules, and what is checked, alone.     *)
LEMMA GoodStays ==
  ASSUME Good(State), UNCHANGED <<container, previous, request, pending, pendingRequest>>,
         UNCHANGED settings
  PROVE  Good(State)'
BY DEF Good, Types, InSync, Remembers, RuledErrors, State, Ruled

(* Reset forgets what was asked for, and shows no error.                   *)
LEMMA ResetStep == Inv /\ Reset => Inv'
<1> SUFFICES ASSUME Inv, Reset PROVE Inv'
  OBVIOUS
<1>0. /\ page = "ready" /\ page' = "ready" /\ value' = [f \in Fields |-> 0] /\ fresh' = {}
      /\ UNCHANGED <<here, markup, options, settings, request, pending, pendingRequest>>
      /\ UNCHANGED formSubmitted
  BY DEF Reset, document, rules
<1>1. /\ container \in [Fields -> Containers] /\ previous \in [Fields -> Askings]
      /\ request \in [Fields -> Values \cup {None}]
      /\ summary \in [class : {"valid", "error"}, items : SUBSET Fields]
      /\ value' \in [Fields -> Values]
  BY <1>0, EmptyIsValue DEF Inv, Rest, Good, Types, State
<1>2. CASE Attached
  <2>1. /\ container' = [f \in Fields |-> [container[f] EXCEPT !.class = "valid"]]
        /\ summary' = [summary EXCEPT !.class = "valid"]
        /\ invalid' = {} /\ submitted' = {} /\ errorMap' = NoErrors /\ successList' = {}
        /\ previous' = [f \in Fields |-> IF f \in Ruled THEN NotAsked ELSE previous[f]]
    BY <1>2 DEF Reset, OnReset, Ruled
  <2>2. ASSUME NEW p \in Containers
        PROVE  /\ [p EXCEPT !.class = "valid"] \in Containers
               /\ [p EXCEPT !.class = "valid"].class = "valid"
    BY DEF Containers
  <2>3. container' \in [Fields -> Containers] /\ \A f \in Fields : container'[f].class = "valid"
    BY <1>1, <2>1, <2>2
  <2>4. summary' \in [class : {"valid", "error"}, items : SUBSET Fields]
    BY <1>1, <2>1
  <2>5. NotAsked \in Askings /\ NotAsked.old = None
    BY DEF NotAsked, Askings
  <2>6. /\ previous' \in [Fields -> Askings]
        /\ \A f \in Fields : previous'[f].old = None \/ previous'[f] = previous[f]
    BY <1>1, <2>1, <2>5
  <2>7. Good(State)'
    <3>1. Types(State)'
      BY <1>0, <1>1, <2>3, <2>6 DEF Inv, Good, Types, State, Ruled
    <3>2. InSync(State)'
      BY <1>0 DEF Inv, Good, InSync, State
    <3>3. Remembers(State)'
      BY <1>0, <2>6 DEF Inv, Good, Remembers, State
    <3>4. RuledErrors(State)'
      BY <2>3 DEF RuledErrors, State
    <3>5. QED
      BY <3>1, <3>2, <3>3, <3>4 DEF Good
  <2>8. Rest'
    BY <1>0, <1>1, <2>1, <2>4 DEF Inv, Rest, NoErrors, Kinds
  <2>9. ListedErrors' /\ ErrorsAreWatched' /\ LeavesChecked'
    BY <1>0, <2>1, <2>3 DEF ListedErrors, ErrorsAreWatched, LeavesChecked, Failing, NoErrors
  <2>10. QED
    BY <2>7, <2>8, <2>9 DEF Inv
<1>3. CASE ~ Attached
  <2>1. UNCHANGED <<container, summary, invalid, submitted, errorMap, successList, previous>>
    BY <1>3 DEF Reset
  <2>2. Good(State)'
    BY <1>0, <2>1, GoodStays DEF Inv
  <2>3. Rest'
    BY <1>0, <1>1, <2>1 DEF Inv, Rest
  <2>4. ListedErrors' /\ ErrorsAreWatched' /\ LeavesChecked'
    BY <1>0, <2>1 DEF Inv, ListedErrors, ErrorsAreWatched, LeavesChecked, Failing, Ruled
  <2>5. QED
    BY <2>2, <2>3, <2>4 DEF Inv
<1>4. QED
  BY <1>2, <1>3

(* Parsing attaches rules to fields where none were attached before.       *)
LEMMA ParseStep == Inv /\ (Ready \/ ParseAgain) => Inv'
<1> SUFFICES ASSUME Inv, Ready \/ ParseAgain PROVE Inv'
  OBVIOUS
<1>0. /\ page' = "ready" /\ options' = [f \in here |-> ParseElement(markup[f])]
      /\ settings' = IF Attached THEN settings ELSE options'
      /\ UNCHANGED <<document, value, checking, summary, formSubmitted>>
  BY DEF Ready, ParseAgain, ParseElements, AttachValidation
<1>1. DOMAIN options' = here /\ DOMAIN settings \subseteq here
  BY <1>0 DEF Inv, Rest
<1>2. DOMAIN settings \subseteq DOMAIN settings' /\ DOMAIN settings' \subseteq DOMAIN options'
  BY <1>0, <1>1 DEF Attached
<1>3. Rest'
  BY <1>0, <1>1, <1>2 DEF Inv, Rest, document, checking
<1>4. Good(State)'
  BY <1>0, <1>2 DEF Inv, Good, Types, InSync, Remembers, RuledErrors, State, Ruled, checking
<1>5. ListedErrors' /\ ErrorsAreWatched' /\ LeavesChecked'
  BY <1>0, <1>2 DEF Inv, ListedErrors, ErrorsAreWatched, LeavesChecked, Failing, Ruled, checking
<1>6. QED
  BY <1>3, <1>4, <1>5 DEF Inv

(* An answer is shown, or lets a waiting submit go on, or gives it up.      *)
LEMMA AnswerStep == ASSUME Inv, NEW f \in Fields, Answer(f) PROVE Inv'
<1>0. /\ page = "ready" /\ request[f] # None
      /\ UNCHANGED <<here, markup, options, settings, value>>
      /\ Good(State)
  BY DEF Answer, document, rules, Inv
<1>1. /\ Good(Answered(f)) /\ f \in Ruled
      /\ AnsweredErrors(f) \in [Fields -> Kinds] /\ AnsweredSuccesses(f) \subseteq Fields
      /\ Failing(AnsweredErrors(f)) \subseteq Ruled \cap (submitted \cup invalid \cup {f})
      /\ \A g \in Fields : Answered(f).shown[g].class = "error" =>
           g \in submitted \cup invalid \cup {f} \cup Answered(f).pending
  BY <1>0, AnsweredGood
<1>2. CASE GoesOn(f)
  <2>1. /\ Form(Answered(f)) /\ formSubmitted' \in BOOLEAN
        /\ \/ page' = "ready"
           \/ page' = "left" /\ FormPasses /\ pendingRequest' = 0
    BY <1>0, <1>2 DEF GoesOn, Inv, Rest
  <2>2. UNCHANGED <<settings, value>>
    BY <1>0
  <2>3. /\ Good(State)' /\ Listed'
        /\ summary' \in [class : {"valid", "error"}, items : SUBSET Fields]
        /\ FormPasses /\ pendingRequest' = 0 => \A g \in Ruled : MayLeave(g)
    BY <1>1, <2>1, <2>2, FormStep
  <2>4. LeavesChecked'
    BY <1>0, <2>1, <2>3 DEF LeavesChecked, MayLeave, Ruled
  <2>5. QED
    BY <1>0, <2>1, <2>3, <2>4 DEF Inv, Rest, Listed
<1>3. CASE ShowAnswer(f) /\ UNCHANGED page /\ formSubmitted' \in BOOLEAN
           /\ (summary' = summary \/ OnErrors(errorMap'))
  <2>1. /\ errorMap' = AnsweredErrors(f) /\ successList' = AnsweredSuccesses(f)
        /\ container' = Answered(f).shown /\ previous' = Answered(f).previous
        /\ request' = Answered(f).request /\ pending' = Answered(f).pending
        /\ pendingRequest' = Answered(f).count
        /\ invalid' = invalid \cup {f} /\ fresh' \subseteq fresh /\ submitted' = submitted
    BY <1>3 DEF ShowAnswer
  <2>2. Good(State)'
    BY <1>0, <1>1, <2>1 DEF Good, Types, InSync, Remembers, RuledErrors, State, Ruled
  <2>3. ListedErrors' /\ ErrorsAreWatched' /\ LeavesChecked'
    BY <1>0, <1>1, <1>3, <2>1 DEF ListedErrors, ErrorsAreWatched, LeavesChecked, Failing, Ruled
  <2>4. summary' \in [class : {"valid", "error"}, items : SUBSET Fields]
    BY <1>3 DEF Inv, Rest, OnErrors, Failing
  <2>5. QED
    BY <1>0, <1>1, <1>3, <2>1, <2>2, <2>3, <2>4 DEF Inv, Rest
<1>4. QED
  BY <1>2, <1>3 DEF Answer, GivesUp, Inv, Rest

(* Every step keeps the invariant.                                         *)
LEMMA NextStep == Inv /\ [Next]_vars => Inv'
<1> SUFFICES ASSUME Inv, [Next]_vars PROVE Inv'
  OBVIOUS
<1>0. Rest /\ Good(State) /\ ListedErrors /\ ErrorsAreWatched /\ LeavesChecked
  BY DEF Inv
<1>1. CASE Ready \/ ParseAgain
  BY <1>1, ParseStep
<1>2. CASE Reset
  BY <1>2, ResetStep
<1>3. ASSUME NEW f \in Fields, Answer(f) PROVE Inv'
  BY <1>3, AnswerStep
<1>4. ASSUME NEW f \in Fields, AddField(f) PROVE Inv'
  <2>1. /\ page = "ready" /\ page' = "ready" /\ here' = here \cup {f}
        /\ UNCHANGED <<markup, options, settings, value, invalid, submitted, errorMap, successList,
                       summary, formSubmitted, fresh>>
        /\ UNCHANGED <<container, previous, request, pending, pendingRequest>> /\ UNCHANGED settings
    BY <1>4 DEF AddField, rules, checking
  <2>2. Good(State)'
    BY <1>0, <2>1, GoodStays
  <2>3. QED
    BY <1>0, <2>1, <2>2 DEF Inv, Rest, ListedErrors, ErrorsAreWatched, LeavesChecked, Failing, Ruled
<1>5. ASSUME NEW f \in Fields, NEW v \in Texts[f], Change(f, v) PROVE Inv'
  <2>1. /\ page = "ready" /\ page' = "ready" /\ value' = [value EXCEPT ![f] = v]
        /\ fresh' = fresh \ {f}
        /\ UNCHANGED <<here, markup, options, settings, invalid, submitted, errorMap, successList,
                       summary, formSubmitted>>
        /\ UNCHANGED <<container, previous, request, pending, pendingRequest>> /\ UNCHANGED settings
    BY <1>5 DEF Change, Present, document, rules
  <2>2. Good(State)'
    BY <1>0, <2>1, GoodStays
  <2>3. v \in Values
    BY <1>5 DEF Values
  <2>4. QED
    BY <1>0, <2>1, <2>2, <2>3
    DEF Inv, Rest, ListedErrors, ErrorsAreWatched, LeavesChecked, Failing, Ruled
<1>6. ASSUME NEW f \in Fields, NEW w \in [Fields -> Values], Element(f, w),
             page = "ready", page' = "ready", value' \in [Fields -> Values],
             UNCHANGED <<document, rules, summary, formSubmitted>>
      PROVE  Inv'
  <2>1. UNCHANGED <<here, markup, options, summary, formSubmitted>> /\ UNCHANGED settings
    BY <1>6 DEF document, rules
  <2>2. Good(State)' /\ Listed'
    BY <1>6, <2>1, ElementStep
  <2>3. QED
    BY <1>0, <1>6, <2>1, <2>2 DEF Inv, Rest, Listed, LeavesChecked
<1>7. ASSUME NEW f \in Fields, NEW v \in Texts[f], Edit(f, v) PROVE Inv'
  <2>1. v \in Values
    BY <1>7 DEF Values
  <2>2. value' = [value EXCEPT ![f] = v] /\ page = "ready" /\ page' = "ready"
    BY <1>7 DEF Edit, Present
  <2>3. value' \in [Fields -> Values]
    BY <1>0, <2>1, <2>2 DEF Rest
  <2>4. Element(f, value') /\ UNCHANGED <<document, rules, summary, formSubmitted>>
    BY <1>7 DEF Edit
  <2>5. QED
    BY <1>6, <2>2, <2>3, <2>4
<1>8. ASSUME NEW f \in Fields, Blur(f) PROVE Inv'
  <2>1. /\ page = "ready" /\ page' = "ready" /\ value' = value /\ Element(f, value)
        /\ UNCHANGED <<document, rules, summary, formSubmitted>>
    BY <1>8 DEF Blur, Present
  <2>2. value \in [Fields -> Values]
    BY <1>0 DEF Rest
  <2>3. QED
    BY <1>6, <2>1, <2>2
<1>9. CASE Form(State) /\ (Submit \/ Validate)
  <2>1. /\ UNCHANGED <<here, markup, options, settings, value>> /\ formSubmitted' \in BOOLEAN
        /\ \/ page' = "ready"
           \/ page' = "left" /\ FormPasses /\ pendingRequest' = 0
           \/ page' = "left" /\ Ruled = {}
    BY <1>0, <1>9 DEF Submit, Validate, document, rules, Rest, Attached, Ruled
  <2>2. UNCHANGED <<settings, value>>
    BY <2>1
  <2>3. /\ Good(State)' /\ Listed'
        /\ summary' \in [class : {"valid", "error"}, items : SUBSET Fields]
        /\ FormPasses /\ pendingRequest' = 0 => \A g \in Ruled : MayLeave(g)
    BY <1>0, <1>9, <2>2, FormStep
  <2>4. LeavesChecked'
    BY <2>1, <2>3 DEF LeavesChecked, MayLeave, Ruled
  <2>5. QED
    BY <1>0, <2>1, <2>3, <2>4 DEF Inv, Rest, Listed
<1>10. CASE Submit /\ ~ Attached
  <2>1. /\ page' = "left" /\ DOMAIN settings = {}
        /\ UNCHANGED <<here, markup, options, settings, value, invalid, submitted, errorMap,
                       successList, summary, formSubmitted, fresh>>
        /\ UNCHANGED <<container, previous, request, pending, pendingRequest>> /\ UNCHANGED settings
    BY <1>10 DEF Submit, Attached, document, rules, checking
  <2>2. Good(State)'
    BY <1>0, <2>1, GoodStays
  <2>3. QED
    BY <1>0, <2>1, <2>2 DEF Inv, Rest, ListedErrors, ErrorsAreWatched, LeavesChecked, Failing, Ruled
<1>11. ASSUME NEW f \in Fields, RequestFails(f) PROVE Inv'
  <2>1. /\ page = "ready" /\ page' = "ready" /\ request' = [request EXCEPT ![f] = None]
        /\ UNCHANGED <<here, markup, options, settings, value, invalid, submitted, errorMap,
                       successList, summary, formSubmitted, fresh, container, previous, pending,
                       pendingRequest>>
    BY <1>11 DEF RequestFails, document, rules
  <2>2. Good(State)'
    BY <1>0, <2>1 DEF Good, Types, InSync, Remembers, RuledErrors, State, Ruled
  <2>3. QED
    BY <1>0, <2>1, <2>2 DEF Inv, Rest, ListedErrors, ErrorsAreWatched, LeavesChecked, Failing, Ruled
<1>12. CASE UNCHANGED vars
  <2>1. /\ UNCHANGED <<page, here, markup, options, settings, value, invalid, submitted, errorMap,
                       successList, summary, formSubmitted, fresh>>
        /\ UNCHANGED <<container, previous, request, pending, pendingRequest>> /\ UNCHANGED settings
    BY <1>12 DEF vars, document, rules, checking
  <2>2. Good(State)'
    BY <1>0, <2>1, GoodStays
  <2>3. QED
    BY <1>0, <2>1, <2>2
    DEF Inv, Rest, ListedErrors, ErrorsAreWatched, LeavesChecked, MayLeave, Failing, Ruled
<1>13. (Submit => (Submit /\ ~ Attached) \/ (Form(State) /\ Submit)) /\ (Validate => Form(State))
  BY DEF Submit, Validate
<1>14. QED
  BY <1>1, <1>2, <1>3, <1>4, <1>5, <1>7, <1>8, <1>9, <1>10, <1>11, <1>12, <1>13
  DEF Next, User, Scripts

(* Every state of the form satisfies the invariant.                        *)
LEMMA FormInvariant == Spec => []Inv
<1>1. Init => Inv
  <2>1. ASSUME Init PROVE Good(State) /\ Rest /\ ListedErrors
    <3>1. /\ 0 \in Values /\ NotAsked \in Askings /\ NotAsked.old = None
          /\ [class |-> "valid", text |-> "none"] \in Containers /\ Cardinality({}) = 0
      BY EmptyIsValue, FS_EmptySet DEF NotAsked, Askings, Containers, Kinds
    <3>2. Good(State)
      BY <2>1, <3>1 DEF Init, Good, Types, InSync, Remembers, RuledErrors, State, Ruled
    <3>3. Rest
      <4>1. /\ DOMAIN settings = {} /\ DOMAIN options = {} /\ value \in [Fields -> Values]
            /\ errorMap \in [Fields -> Kinds] /\ here \subseteq Fields
        BY <2>1, <3>1 DEF Init, NoErrors, Kinds
      <4>2. QED
        BY <2>1, <4>1 DEF Init, Rest
    <3>4. ListedErrors
      BY <2>1 DEF Init, ListedErrors, NoErrors, Failing
    <3>5. QED
      BY <3>2, <3>3, <3>4
  <2>2. Init => ErrorsAreWatched /\ LeavesChecked
    BY DEF Init, ErrorsAreWatched, LeavesChecked
  <2>3. QED
    BY <2>1, <2>2 DEF Inv
<1>2. Inv /\ [Next]_vars => Inv'
  BY NextStep
<1>3. QED
  BY <1>1, <1>2, PTL DEF Spec

(* Whatever is awaited, answered late, reset or repeated: the count of     *)
(* requests is right, errors stay watched, and the form leaves only when   *)
(* every field with rules meets them and the server has accepted its value.*)
THEOREM FormSafety == Spec => [](TypeOK /\ PendingInSync /\ ErrorsAreWatched /\ LeavesChecked)
<1>1. Inv => TypeOK /\ PendingInSync /\ ErrorsAreWatched /\ LeavesChecked
  <2>1. ASSUME Inv PROVE pendingRequest \in Nat /\ PendingInSync
    <3>1. pending \subseteq Fields /\ pendingRequest = Cardinality(pending)
          /\ \A f \in Fields : request[f] # None => f \in pending
      BY <2>1 DEF Inv, Good, Types, InSync, State
    <3>2. QED
      BY <3>1, ValuesAssumption, FS_Subset, FS_CardinalityType DEF PendingInSync
  <2>2. QED
    BY <2>1 DEF Inv, Rest, Good, Types, State, TypeOK, Kinds, Containers, Askings
<1>2. QED
  BY <1>1, FormInvariant, PTL

(* The count of pending requests is the number of fields with one.         *)
THEOREM CountInSync == Spec => []PendingInSync
BY FormSafety, PTL

(* A field shown in error is checked again at the next key.                *)
THEOREM ErrorsWatched == Spec => []ErrorsAreWatched
BY FormSafety, PTL
-----------------------------------------------------------------------------
\* A field has the rules its attributes were made into when it was parsed.
Parsed == \A f \in DOMAIN settings : settings[f] = ParseElement(markup[f])

(* Rules are made once, by the parse that attaches them, from a markup     *)
(* that stays.                                                             *)
LEMMA ParsedStays == ASSUME Parsed, [Next]_vars PROVE Parsed'
<1>1. CASE UNCHANGED <<markup, settings>>
  BY <1>1 DEF Parsed
<1>2. CASE Ready \/ ParseAgain
  <2>1. /\ options' = [f \in here |-> ParseElement(markup[f])] /\ markup' = markup
        /\ settings' = IF Attached THEN settings ELSE options'
    BY <1>2 DEF Ready, ParseAgain, ParseElements, AttachValidation, document
  <2>2. QED
    BY <2>1 DEF Parsed
<1>3. Ready \/ ParseAgain \/ UNCHANGED <<markup, settings>>
  <2>1. CASE User
    BY <2>1 DEF User, Submit, Reset, Blur, Change, Edit, document, rules
  <2>2. CASE Scripts
    BY <2>2 DEF Scripts, Validate, AddField, document, rules
  <2>3. CASE \E f \in Fields : Answer(f) \/ RequestFails(f)
    BY <2>3 DEF Answer, RequestFails, document, rules
  <2>4. CASE UNCHANGED vars
    BY <2>4 DEF vars, document, rules
  <2>5. QED
    BY <2>1, <2>2, <2>3, <2>4 DEF Next
<1>4. QED
  BY <1>1, <1>2, <1>3

(* So the rules are always those of the markup.                            *)
LEMMA ParsedAlways == Spec => []Parsed
<1>1. Init => Parsed
  BY DEF Init, Parsed
<1>2. Parsed /\ [Next]_vars => Parsed'
  BY ParsedStays
<1>3. QED
  BY <1>1, <1>2, PTL DEF Spec

(* The form leaves only with values that satisfy the attributes of every   *)
(* field with rules, the server's answers included: no adapter drops or    *)
(* weakens what an attribute asks for, and no sequence of edits, resets,   *)
(* submits and late answers lets a value out that the rules refuse.        *)
THEOREM LeavesValid == Spec => []OnlyValidLeaves
<1>1. Inv /\ Parsed => OnlyValidLeaves
  <2> SUFFICES ASSUME Inv, Parsed, page = "left", NEW f \in DOMAIN settings
               PROVE  Satisfies(markup[f], value[f])
    BY DEF OnlyValidLeaves
  <2>1. /\ MeetsAll(value[f], settings[f]) /\ settings[f] = ParseElement(markup[f])
        /\ "remote" \in DOMAIN settings[f] /\ value[f] # 0 => value[f] \in Accepted
    BY DEF Inv, LeavesChecked, MayLeave, Parsed
  <2>2. Consistent(markup[f]) /\ DOMAIN ParseElement(markup[f]) \subseteq Methods
    BY FormsAssumption DEF Inv, Rest
  <2>3. /\ Demands(markup[f], value[f])
        /\ "remote" \in DOMAIN markup[f].val => "remote" \in DOMAIN ParseElement(markup[f])
    BY <2>1, <2>2, RulesDemandAttributes
  <2>4. QED
    BY <2>1, <2>3 DEF Satisfies
<1>2. QED
  BY <1>1, FormInvariant, ParsedAlways, PTL
-----------------------------------------------------------------------------
\* A container that shows an outcome.
Agrees(f, o, box) == /\ o # "ask"
                     /\ box.class = "error" <=> o # "ok"
                     /\ f \in Replaces => box.text = IF o = "ok" THEN "none" ELSE o

\* ShownAsChecked, and the lists of the last check say the same.
Settled ==
  \A f \in fresh \cap Ruled :
    LET o == Outcome(f, value[f], previous[f]) IN
    f \notin pending \/ o = "rule" =>
      /\ Agrees(f, o, container[f])
      /\ errorMap[f] \in {"none", o}
      /\ f \in successList => o = "ok"

\* Only values that meet the other rules are asked about.
Asks(s) == \A f \in Fields : s.request[f] # None =>
             /\ f \in Ruled /\ "remote" \in DOMAIN settings[f]
             /\ s.request[f] # 0 /\ MeetsAll(s.request[f], settings[f])

\* The value awaited, when the field has it and was checked, is remembered.
AwaitedIsAsked == \A f \in fresh \cap Ruled :
                    request[f] # None /\ value[f] = request[f] => previous[f].old = value[f]

\* Nothing is checked before the rules are attached.
NoneChecked == ~ Attached => fresh \cup submitted \cup invalid = {}

ShownInv == Settled /\ Asks(State) /\ AwaitedIsAsked /\ NoneChecked

(* An outcome depends on the rules, which no check changes.                *)
LEMMA OutcomeStays ==
  ASSUME NEW f, UNCHANGED settings
  PROVE  Outcome(f, value[f], previous[f])' = Outcome(f, value'[f], previous'[f])
BY DEF Outcome

(* What the outcomes of a field with rules say.                            *)
LEMMA OutcomesMean ==
  ASSUME NEW f \in Ruled, NEW v, NEW asked
  PROVE  /\ Outcome(f, v, asked) \in {"rule", "ok", "ask", "remote"}
         /\ Outcome(f, v, asked) = "rule" <=> ~ MeetsAll(v, settings[f])
         /\ Outcome(f, v, asked) = "ask" =>
              "remote" \in DOMAIN settings[f] /\ v # 0 /\ asked.old # v
         /\ MeetsAll(v, settings[f]) /\ "remote" \in DOMAIN settings[f] /\ v # 0 =>
              IF asked.old # v THEN Outcome(f, v, asked) = "ask"
              ELSE IF asked.valid THEN Outcome(f, v, asked) = "ok"
              ELSE Outcome(f, v, asked) = "remote"
BY DEF Outcome, Ruled

\* What a check of S, with the values v and from state s, shows and asks.
CheckSettles(S, v, s) ==
  /\ Asks(State)'
  /\ \A f \in S \cap Ruled : request'[f] # None /\ v[f] = request'[f] => previous'[f].old = v[f]
  /\ \A f \in S \cap Ruled :
       LET o == Outcome(f, v[f], previous'[f]) IN
       f \notin pending' \/ o = "rule" =>
         /\ Agrees(f, o, container'[f])
         /\ errorMap'[f] \in {"none", o}
         /\ f \in successList' => o = "ok"
  /\ \A f \in Fields \ S :
       /\ previous'[f] = s.previous[f] /\ request'[f] = s.request[f]
       /\ container'[f] = s.shown[f] /\ errorMap'[f] = "none" /\ f \notin successList'
       /\ f \in pending' <=> f \in s.pending

(* A check shows the outcome of every field it checks, whatever was shown  *)
(* before, or asks for it, and leaves the other containers alone.          *)
LEMMA ShownByCheck ==
  ASSUME NEW S \in SUBSET Fields, NEW v \in [Fields -> Values], NEW s, Good(s), Asks(s),
         Check(S, v, s), UNCHANGED settings
  PROVE  CheckSettles(S, v, s)
<1> DEFINE outcome(f) == Outcome(f, v[f], s.previous[f])
           errors == [f \in Fields |-> IF f \in S /\ outcome(f) \in {"rule", "remote"}
                                       THEN outcome(f) ELSE "none"]
           asked == {f \in S : outcome(f) = "ask"}
<1>1. /\ errorMap' = errors /\ successList' = {f \in S : outcome(f) = "ok"}
      /\ container' = ShowErrors(s.shown, errors, successList')
      /\ StartRequests(asked, v, s)
  BY DEF Check
<1>2. \A f \in S \cap Ruled :
        /\ outcome(f) \in {"rule", "ok", "ask", "remote"}
        /\ outcome(f) = "rule" <=> ~ MeetsAll(v[f], settings[f])
        /\ outcome(f) = "ask" => "remote" \in DOMAIN settings[f] /\ v[f] # 0
  BY OutcomesMean
<1>3. \A f \in S \ Ruled : outcome(f) = "unruled"
  BY OutcomeKinds
<1> HIDE DEF outcome
<1>4. /\ \A f \in Fields : errors[f] = IF f \in S /\ outcome(f) \in {"rule", "remote"}
                                       THEN outcome(f) ELSE "none"
      /\ \A f \in Fields : f \in successList' <=> f \in S /\ outcome(f) = "ok"
      /\ \A f \in Fields : f \in asked <=> f \in S /\ outcome(f) = "ask"
      /\ asked \subseteq Fields
  BY <1>1
<1>a. errorMap' = errors
  BY <1>1
<1>5. \A f \in Fields : container'[f] = IF f \in successList' THEN OnSuccess(f, s.shown[f])
                                       ELSE IF errors[f] # "none" THEN OnError(f, s.shown[f], errors[f])
                                       ELSE s.shown[f]
  BY <1>1 DEF ShowErrors
<1> HIDE DEF errors, asked
<1>6. /\ previous' = [f \in Fields |-> IF f \in asked THEN [s.previous[f] EXCEPT !.old = v[f]]
                                       ELSE s.previous[f]]
      /\ request' = [f \in Fields |-> IF f \in asked THEN v[f] ELSE s.request[f]]
      /\ pending' = s.pending \cup asked
  BY <1>1 DEF StartRequests
<1>7. /\ \A f \in asked : previous'[f].old = v[f] /\ request'[f] = v[f] /\ f \in pending'
      /\ \A f \in Fields \ asked : /\ previous'[f] = s.previous[f] /\ request'[f] = s.request[f]
                                   /\ f \in pending' <=> f \in s.pending
  <2>1. ASSUME NEW f \in asked PROVE [s.previous[f] EXCEPT !.old = v[f]].old = v[f]
    <3>1. s.previous[f] \in Askings
      BY <1>4 DEF Good, Types
    <3>2. QED
      BY <3>1 DEF Askings
  <2>2. QED
    BY <2>1, <1>4, <1>6
<1>8. \A f \in asked : f \in Ruled /\ f \in S
  BY <1>3, <1>4
<1>9. Asks(State)'
  <2> SUFFICES ASSUME NEW f \in Fields, request'[f] # None
               PROVE  /\ f \in Ruled /\ "remote" \in DOMAIN settings[f]
                      /\ request'[f] # 0 /\ MeetsAll(request'[f], settings[f])
    BY DEF Asks, State, Ruled, MeetsAll
  <2>1. CASE f \in asked
    BY <1>2, <1>4, <1>7, <1>8, <2>1
  <2>2. CASE f \notin asked
    BY <1>7, <2>2 DEF Asks
  <2>3. QED
    BY <2>1, <2>2
<1>10. ASSUME NEW f \in S \cap Ruled, request'[f] # None, v[f] = request'[f]
       PROVE  previous'[f].old = v[f]
  <2>1. CASE f \in asked
    BY <1>7, <2>1
  <2>2. CASE f \notin asked
    <3>1. /\ s.request[f] = v[f] /\ v[f] # None /\ previous'[f] = s.previous[f]
          /\ outcome(f) # "ask"
      BY <1>4, <1>7, <1>10, <2>2
    <3>2. "remote" \in DOMAIN settings[f] /\ v[f] # 0 /\ MeetsAll(v[f], settings[f])
      BY <3>1 DEF Asks
    <3>3. s.previous[f].old = v[f]
      BY <3>1, <3>2, OutcomesMean DEF outcome
    <3>4. QED
      BY <3>1, <3>3
  <2>3. QED
    BY <2>1, <2>2
<1>11. ASSUME NEW f \in S \cap Ruled, NEW o, o = Outcome(f, v[f], previous'[f]),
              f \notin pending' \/ o = "rule"
       PROVE  /\ Agrees(f, o, container'[f])
              /\ errorMap'[f] \in {"none", o}
              /\ f \in successList' => o = "ok"
  <2>1. f \notin asked
    BY <1>2, <1>4, <1>7, <1>11, OutcomesMean
  <2>2. o = outcome(f) /\ o \in {"rule", "ok", "remote"}
    BY <1>2, <1>4, <1>7, <1>11, <2>1 DEF outcome
  <2>3. CASE o = "ok"
    <3>1. container'[f] = OnSuccess(f, s.shown[f]) /\ errorMap'[f] = "none"
      BY <1>a, <1>4, <1>5, <2>2, <2>3
    <3>2. Agrees(f, "ok", OnSuccess(f, s.shown[f]))
      BY DEF Agrees, OnSuccess
    <3>3. QED
      BY <2>3, <3>1, <3>2
  <2>4. CASE o \in {"rule", "remote"}
    <3>1. /\ container'[f] = OnError(f, s.shown[f], o) /\ errorMap'[f] = o
          /\ f \notin successList'
      BY <1>a, <1>4, <1>5, <2>2, <2>4
    <3>2. Agrees(f, o, OnError(f, s.shown[f], o))
      BY <2>4 DEF Agrees, OnError
    <3>3. QED
      BY <3>1, <3>2
  <2>5. QED
    BY <2>2, <2>3, <2>4
<1>12. \A f \in Fields \ S :
         /\ previous'[f] = s.previous[f] /\ request'[f] = s.request[f]
         /\ container'[f] = s.shown[f] /\ errorMap'[f] = "none" /\ f \notin successList'
         /\ f \in pending' <=> f \in s.pending
  BY <1>1, <1>4, <1>5, <1>7
<1>13. QED
  BY <1>9, <1>10, <1>11, <1>12 DEF CheckSettles

(* A check of the form settles every field with rules.                     *)
LEMMA FormShows ==
  ASSUME Inv, NEW s, Good(s), Asks(s), Form(s), Attached, UNCHANGED <<settings, value>>
  PROVE  ShownInv'
<1>1. /\ Ruled \in SUBSET Fields /\ value \in [Fields -> Values]
      /\ Check(Ruled, value, s) /\ fresh' = Ruled /\ Ruled' = Ruled /\ UNCHANGED settings
  BY DEF Inv, Rest, Form, Ruled
<1>2. CheckSettles(Ruled, value, s)
  BY <1>1, ShownByCheck
<1>3. Settled'
  <2> SUFFICES ASSUME NEW f \in Ruled, NEW o, o = Outcome(f, value'[f], previous'[f]),
                      f \notin pending' \/ o = "rule"
               PROVE  /\ Agrees(f, o, container'[f])
                      /\ errorMap'[f] \in {"none", o}
                      /\ f \in successList' => o = "ok"
    BY <1>1, OutcomeStays DEF Settled, Agrees
  <2>1. o = Outcome(f, value[f], previous'[f])
    OBVIOUS
  <2>2. QED
    BY <2>1, <1>2 DEF CheckSettles
<1>4. AwaitedIsAsked'
  BY <1>1, <1>2 DEF AwaitedIsAsked, CheckSettles
<1>5. NoneChecked' /\ Asks(State)'
  BY <1>2 DEF NoneChecked, Attached, CheckSettles
<1>6. QED
  BY <1>3, <1>4, <1>5 DEF ShownInv

(* A check of one field settles it, and the others stay as they were.      *)
LEMMA ElementShows ==
  ASSUME Inv, ShownInv, NEW f \in Fields, NEW w \in [Fields -> Values], Element(f, w), Attached,
         value' = w, \A g \in Fields \ {f} : w[g] = value[g], UNCHANGED settings
  PROVE  ShownInv'
<1>1. /\ Check({f}, w, State) /\ fresh' = fresh \cup {f} /\ Ruled' = Ruled
      /\ Good(State) /\ Asks(State) /\ {f} \in SUBSET Fields
      /\ Ruled \subseteq Fields
  BY DEF Inv, Rest, ShownInv, Element, Ruled
<1>2. CheckSettles({f}, w, State)
  BY <1>1, ShownByCheck
<1>3. \A g \in Fields \ {f} :
        /\ previous'[g] = previous[g] /\ request'[g] = request[g]
        /\ container'[g] = container[g] /\ errorMap'[g] = "none" /\ g \notin successList'
        /\ g \in pending' <=> g \in pending
  BY <1>2 DEF CheckSettles, State
<1>4. Settled'
  <2> SUFFICES ASSUME NEW g \in fresh' \cap Ruled, NEW o, o = Outcome(g, value'[g], previous'[g]),
                      g \notin pending' \/ o = "rule"
               PROVE  /\ Agrees(g, o, container'[g])
                      /\ errorMap'[g] \in {"none", o}
                      /\ g \in successList' => o = "ok"
    BY <1>1, OutcomeStays DEF Settled, Agrees
  <2>1. CASE g = f
    BY <2>1, <1>2 DEF CheckSettles
  <2>2. CASE g # f
    <3>1. g \in Fields \ {f} /\ g \in fresh \cap Ruled /\ value'[g] = value[g]
      BY <2>2, <1>1
    <3>2. o = Outcome(g, value[g], previous[g]) /\ (g \notin pending \/ o = "rule")
      BY <3>1, <1>3
    <3>3. Agrees(g, o, container[g])
      BY <3>1, <3>2 DEF ShownInv, Settled
    <3>4. QED
      BY <3>1, <3>3, <1>3
  <2>3. QED
    BY <2>1, <2>2
<1>5. AwaitedIsAsked'
  <2> SUFFICES ASSUME NEW g \in fresh' \cap Ruled, request'[g] # None, value'[g] = request'[g]
               PROVE  previous'[g].old = value'[g]
    BY <1>1 DEF AwaitedIsAsked
  <2>1. CASE g = f
    BY <2>1, <1>2 DEF CheckSettles
  <2>2. CASE g # f
    BY <2>2, <1>1, <1>3 DEF ShownInv, AwaitedIsAsked
  <2>3. QED
    BY <2>1, <2>2
<1>6. NoneChecked' /\ Asks(State)'
  BY <1>2 DEF NoneChecked, Attached, CheckSettles
<1>7. QED
  BY <1>4, <1>5, <1>6 DEF ShownInv

(* An answer is shown at its field, and the others show again what the     *)
(* last check found of them.                                               *)
LEMMA AnswerShows ==
  ASSUME Inv, ShownInv, NEW f \in Fields, request[f] # None, ShowAnswer(f),
         UNCHANGED <<settings, value>>
  PROVE  ShownInv'
<1>1. /\ errorMap' = AnsweredErrors(f) /\ successList' = AnsweredSuccesses(f)
      /\ container' = ShowErrors(container, AnsweredErrors(f), AnsweredSuccesses(f))
      /\ previous' = IF previous[f].old = None THEN previous
                     ELSE [previous EXCEPT ![f].valid = Accepts(f)]
      /\ request' = [request EXCEPT ![f] = None] /\ pending' = pending \ {f}
      /\ fresh' = IF value[f] = request[f] THEN fresh ELSE fresh \ {f}
      /\ Ruled' = Ruled
  BY DEF ShowAnswer, Answered, Ruled
<1>2. /\ errorMap \in [Fields -> Kinds] /\ previous \in [Fields -> Askings]
      /\ request \in [Fields -> Values \cup {None}] /\ f \in Ruled /\ fresh \subseteq Fields
      /\ Attached
  BY DEF Inv, Rest, Good, Types, State, ShownInv, Asks, Ruled, Attached
<1>3. /\ \A g \in Fields \ {f} : /\ errorMap'[g] \in {"none", errorMap[g]}
                                 /\ g \in successList' => g \in successList
                                 /\ previous'[g] = previous[g] /\ request'[g] = request[g]
                                 /\ g \in pending' <=> g \in pending
                                 /\ g \in fresh' => g \in fresh
      /\ errorMap'[f] = IF Accepts(f) THEN "none" ELSE "remote"
      /\ f \in successList' <=> Accepts(f)
      /\ request'[f] = None
  BY <1>1, <1>2 DEF AnsweredErrors, AnsweredSuccesses, NoErrors
<1>4. \A g \in Fields : container'[g] = IF g \in successList' THEN OnSuccess(g, container[g])
                                       ELSE IF errorMap'[g] # "none"
                                              THEN OnError(g, container[g], errorMap'[g])
                                       ELSE container[g]
  BY <1>1 DEF ShowErrors
<1>5. \A g : Agrees(g, "ok", OnSuccess(g, container[g]))
  BY DEF Agrees, OnSuccess
<1>6. \A g, o : o \notin {"ok", "ask"} => Agrees(g, o, OnError(g, container[g], o))
  BY DEF Agrees, OnError
<1>7. Settled'
  <2> SUFFICES ASSUME NEW g \in fresh' \cap Ruled, NEW o, o = Outcome(g, value'[g], previous'[g]),
                      g \notin pending' \/ o = "rule"
               PROVE  /\ Agrees(g, o, container'[g])
                      /\ errorMap'[g] \in {"none", o}
                      /\ g \in successList' => o = "ok"
    BY <1>1, OutcomeStays DEF Settled, Agrees
  <2>1. CASE g = f
    <3>1. /\ value[f] = request[f] /\ f \in fresh /\ f \in Ruled
          /\ "remote" \in DOMAIN settings[f] /\ value[f] # 0 /\ MeetsAll(value[f], settings[f])
      BY <2>1, <1>1, <1>2 DEF ShownInv, Asks, State
    <3>2. previous[f].old = value[f] /\ previous[f].old # None /\ previous[f] \in Askings
      BY <3>1, <1>2 DEF ShownInv, AwaitedIsAsked
    <3>3. previous'[f].old = value[f] /\ previous'[f].valid = Accepts(f)
      <4>1. previous' = [previous EXCEPT ![f].valid = Accepts(f)]
        BY <3>2, <1>1
      <4>2. previous'[f] = [previous[f] EXCEPT !.valid = Accepts(f)]
        BY <4>1, <1>2, Zenon
      <4>3. QED
        BY <4>2, <3>2 DEF Askings
    <3>4. o = IF Accepts(f) THEN "ok" ELSE "remote"
      BY <2>1, <3>1, <3>3, OutcomesMean
    <3>5. CASE Accepts(f)
      BY <2>1, <3>4, <3>5, <1>3, <1>4, <1>5
    <3>6. CASE ~ Accepts(f)
      <4>1. container'[f] = OnError(f, container[f], "remote") /\ o = "remote"
        BY <3>4, <3>6, <1>3, <1>4
      <4>2. Agrees(f, "remote", OnError(f, container[f], "remote"))
        BY <1>6
      <4>3. QED
        BY <2>1, <3>6, <4>1, <4>2, <1>3
    <3>7. QED
      BY <3>5, <3>6
  <2>2. CASE g # f
    <3>1. g \in Fields \ {f} /\ g \in fresh \cap Ruled /\ value'[g] = value[g]
      BY <2>2, <1>1, <1>2
    <3>2. o = Outcome(g, value[g], previous[g]) /\ (g \notin pending \/ o = "rule")
      BY <3>1, <1>3
    <3>3. /\ Agrees(g, o, container[g]) /\ errorMap[g] \in {"none", o}
          /\ g \in successList => o = "ok"
      BY <3>1, <3>2 DEF ShownInv, Settled
    <3>4. CASE g \in successList'
      BY <3>1, <3>3, <3>4, <1>3, <1>4, <1>5
    <3>5. CASE g \notin successList' /\ errorMap'[g] # "none"
      <4>1. errorMap'[g] = o /\ o \notin {"ok", "ask"}
        BY <3>1, <3>3, <3>5, <1>2, <1>3 DEF Kinds
      <4>2. QED
        BY <3>1, <3>5, <4>1, <1>4, <1>6
    <3>6. CASE g \notin successList' /\ errorMap'[g] = "none"
      BY <3>1, <3>3, <3>6, <1>4
    <3>7. QED
      BY <3>4, <3>5, <3>6
  <2>3. QED
    BY <2>1, <2>2
<1>8. Asks(State)'
  BY <1>1, <1>2, <1>3 DEF ShownInv, Asks, State, MeetsAll
<1>9. AwaitedIsAsked'
  <2> SUFFICES ASSUME NEW g \in fresh' \cap Ruled, request'[g] # None, value'[g] = request'[g]
               PROVE  previous'[g].old = value'[g]
    BY <1>1 DEF AwaitedIsAsked
  <2>1. g \in Fields \ {f}
    BY <1>1, <1>2, <1>3
  <2>2. QED
    BY <2>1, <1>3 DEF ShownInv, AwaitedIsAsked
<1>10. NoneChecked'
  BY <1>2 DEF NoneChecked, Attached
<1>11. QED
  BY <1>7, <1>8, <1>9, <1>10 DEF ShownInv

(* Steps that check nothing: some drop a field from what is fresh.         *)
LEMMA OtherStepsShow ==
  ASSUME ShownInv, UNCHANGED <<settings, container, previous, errorMap, successList, pending,
                               invalid, submitted>>,
         fresh' \subseteq fresh, \A f \in fresh' : value'[f] = value[f],
         \A f \in Fields : request'[f] \in {None, request[f]}, Ruled \subseteq Fields
  PROVE  ShownInv'
<1>1. Ruled' = Ruled
  BY DEF Ruled
<1>2. Settled'
  <2> SUFFICES ASSUME NEW f \in fresh' \cap Ruled, NEW o, o = Outcome(f, value'[f], previous'[f]),
                      f \notin pending \/ o = "rule"
               PROVE  /\ Agrees(f, o, container[f])
                      /\ errorMap[f] \in {"none", o}
                      /\ f \in successList => o = "ok"
    BY <1>1, OutcomeStays DEF Settled, Agrees
  <2>1. f \in fresh \cap Ruled /\ o = Outcome(f, value[f], previous[f])
    OBVIOUS
  <2>2. QED
    BY <2>1 DEF ShownInv, Settled
<1>3. Asks(State)'
  BY <1>1 DEF ShownInv, Asks, State, MeetsAll
<1>4. AwaitedIsAsked'
  BY <1>1 DEF ShownInv, AwaitedIsAsked
<1>5. NoneChecked'
  BY DEF ShownInv, NoneChecked, Attached
<1>6. QED
  BY <1>2, <1>3, <1>4, <1>5 DEF ShownInv

(* Every step keeps what is shown in agreement with what is checked.       *)
LEMMA ShownStep == Inv /\ ShownInv /\ [Next]_vars => ShownInv'
<1> SUFFICES ASSUME Inv, ShownInv, [Next]_vars PROVE ShownInv'
  OBVIOUS
<1>0. /\ Good(State) /\ Asks(State) /\ NoneChecked /\ Ruled \subseteq Fields
      /\ value \in [Fields -> Values] /\ request \in [Fields -> Values \cup {None}]
  BY DEF Inv, Rest, Good, Types, State, ShownInv, Ruled
<1>1. CASE Form(State) /\ Attached /\ (Submit \/ Validate)
  <2>1. UNCHANGED <<settings, value>>
    BY <1>1 DEF Submit, Validate, rules
  <2>2. QED
    BY <1>0, <1>1, <2>1, FormShows
<1>2. ASSUME NEW f \in Fields, Answer(f) PROVE ShownInv'
  <2>1. UNCHANGED <<settings, value>> /\ request[f] # None
    BY <1>2 DEF Answer, rules
  <2>2. CASE ShowAnswer(f)
    BY <2>1, <2>2, AnswerShows
  <2>3. CASE Form(Answered(f))
    <3>1. Good(Answered(f))
      BY <2>1, AnsweredGood
    <3>2. f \in Ruled /\ \A g \in Fields : Answered(f).request[g] \in {None, request[g]}
      BY <1>0, <2>1 DEF Answered, Asks, State
    <3>3. Asks(Answered(f)) /\ Attached
      BY <1>0, <3>2 DEF Asks, State, Attached, Ruled
    <3>4. QED
      BY <2>1, <2>3, <3>1, <3>3, FormShows
  <2>4. QED
    BY <1>2, <2>2, <2>3 DEF Answer, GoesOn, GivesUp
<1>3. ASSUME NEW f \in Fields, NEW v \in Texts[f], Edit(f, v) PROVE ShownInv'
  <2>1. /\ value' = [value EXCEPT ![f] = v] /\ UNCHANGED settings
        /\ Element(f, value') /\ f \in submitted \cup invalid /\ v \in Values
    BY <1>3 DEF Edit, rules, Values
  <2>2. value' \in [Fields -> Values] /\ \A g \in Fields \ {f} : value'[g] = value[g]
    BY <1>0, <2>1
  <2>3. Attached
    BY <1>0, <2>1 DEF NoneChecked
  <2>4. QED
    BY <2>1, <2>2, <2>3, ElementShows
<1>4. ASSUME NEW f \in Fields, Blur(f) PROVE ShownInv'
  <2>1. value' = value /\ UNCHANGED settings /\ Attached /\ Element(f, value)
    BY <1>4 DEF Blur, rules
  <2>2. QED
    BY <1>0, <2>1, ElementShows
<1>5. CASE Ready \/ ParseAgain
  <2>1. settings' = (IF Attached THEN settings ELSE options') /\ UNCHANGED <<value, checking>>
    BY <1>5 DEF Ready, ParseAgain, AttachValidation
  <2>2. CASE Attached
    BY <1>0, <2>1, <2>2, OtherStepsShow DEF checking
  <2>3. CASE ~ Attached
    <3>1. fresh' = {} /\ submitted' = {} /\ invalid' = {} /\ \A f \in Fields : request'[f] = None
      BY <1>0, <2>1, <2>3 DEF NoneChecked, Asks, State, Attached, Ruled, checking
    <3>2. QED
      BY <3>1 DEF ShownInv, Settled, Asks, AwaitedIsAsked, NoneChecked, State
  <2>4. QED
    BY <2>2, <2>3
<1>6. CASE Reset
  <2>1. fresh' = {} /\ UNCHANGED <<settings, request>>
    BY <1>6 DEF Reset, rules
  <2>2. NoneChecked'
    BY <1>0, <1>6, <2>1 DEF Reset, NoneChecked, Attached
  <2>3. Asks(State)'
    BY <1>0, <2>1 DEF Asks, State, MeetsAll, Ruled
  <2>4. QED
    BY <2>1, <2>2, <2>3 DEF ShownInv, Settled, AwaitedIsAsked
<1>7. ASSUME NEW f \in Fields, NEW v \in Texts[f], Change(f, v) PROVE ShownInv'
  <2>1. /\ value' = [value EXCEPT ![f] = v] /\ fresh' = fresh \ {f}
        /\ UNCHANGED <<settings, container, previous, errorMap, successList, pending,
                       invalid, submitted, request>>
    BY <1>7 DEF Change, rules
  <2>2. \A g \in fresh' : value'[g] = value[g]
    BY <1>0, <2>1 DEF Inv, Rest
  <2>3. QED
    BY <1>0, <2>1, <2>2, OtherStepsShow
<1>8. ASSUME NEW f \in Fields, RequestFails(f) PROVE ShownInv'
  <2>1. /\ request' = [request EXCEPT ![f] = None]
        /\ UNCHANGED <<settings, container, previous, errorMap, successList, pending,
                       invalid, submitted, fresh, value>>
    BY <1>8 DEF RequestFails, rules
  <2>2. \A g \in Fields : request'[g] \in {None, request[g]}
    BY <1>0, <2>1
  <2>3. QED
    BY <1>0, <2>1, <2>2, OtherStepsShow
<1>9. CASE (Submit /\ ~ Attached) \/ (\E f \in Fields : AddField(f)) \/ UNCHANGED vars
  <2>1. UNCHANGED <<settings, container, previous, errorMap, successList, pending,
                    invalid, submitted, fresh, value, request>>
    BY <1>9 DEF Submit, AddField, vars, rules, checking
  <2>2. QED
    BY <1>0, <2>1, OtherStepsShow
<1>10. /\ Submit => (Submit /\ ~ Attached) \/ (Form(State) /\ Attached /\ Submit)
       /\ Validate => Form(State) /\ Attached
  BY DEF Submit, Validate
<1>11. QED
  BY <1>1, <1>2, <1>3, <1>4, <1>5, <1>6, <1>7, <1>8, <1>9, <1>10 DEF Next, User, Scripts

(* A container shows what the last check of its field found, however many  *)
(* other fields are checked, asked about and answered meanwhile.           *)
THEOREM ShowsTheLastCheck == Spec => []ShownAsChecked
<1>1. Init => ShownInv
  BY DEF Init, ShownInv, Settled, Asks, AwaitedIsAsked, NoneChecked, State
<1>2. Inv /\ ShownInv /\ [Next]_vars => ShownInv'
  BY ShownStep
<1>3. Spec => []ShownInv
  BY <1>1, <1>2, FormInvariant, PTL DEF Spec
<1>4. ShownInv => ShownAsChecked
  BY DEF ShownInv, Settled, ShownAsChecked, Agrees, Ruled
<1>5. QED
  BY <1>3, <1>4, PTL
-----------------------------------------------------------------------------
\* The server has been asked about every value it has to accept.
AllAsked == \A f \in Ruled : "remote" \in DOMAIN settings[f] /\ value[f] # 0 =>
                            previous[f].old = value[f]

(* With valid values, all of them asked about and answered, a submit       *)
(* leaves: it neither is refused nor waits.                                *)
LEMMA ValidLeaves ==
  ASSUME Inv, Parsed, Submit, Attached, pending = {}, Valid, AllAsked
  PROVE  page' = "left"
<1>1. /\ value \in [Fields -> Values] /\ pendingRequest = 0 /\ Ruled \subseteq Fields
      /\ Remembers(State)
  BY FS_EmptySet DEF Inv, Rest, Good, InSync, State, Ruled
<1>2. ASSUME NEW f \in Ruled PROVE Outcome(f, value[f], previous[f]) = "ok"
  <2>1. Demands(markup[f], value[f]) /\ settings[f] = ParseElement(markup[f])
    BY DEF Valid, Satisfies, Parsed, Ruled
  <2>2. DOMAIN ParseElement(markup[f]) \subseteq Methods
    BY <1>1, FormsAssumption DEF Inv, Rest
  <2>3. /\ MeetsAll(value[f], settings[f])
        /\ "remote" \in DOMAIN settings[f] => "remote" \in DOMAIN markup[f].val
    BY <2>1, <2>2, AttributesDemandRules
  <2>4. CASE "remote" \notin DOMAIN settings[f] \/ value[f] = 0
    BY <2>3, <2>4 DEF Outcome, Ruled
  <2>5. CASE "remote" \in DOMAIN settings[f] /\ value[f] # 0
    <3>1. previous[f].old = value[f] /\ value[f] \in Values /\ value[f] \in Accepted
      BY <1>1, <2>3, <2>5 DEF AllAsked, Valid, Satisfies, Ruled
    <3>2. previous[f].valid
      BY <1>1, <3>1, ValuesAssumption DEF Remembers, State
    <3>3. QED
      BY <2>3, <2>5, <3>1, <3>2, OutcomesMean
  <2>6. QED
    BY <2>4, <2>5
<1>3. Form(State) /\ page' = IF FormPasses /\ pendingRequest' = 0 THEN "left" ELSE page
  BY DEF Submit
<1> DEFINE outcome(f) == Outcome(f, value[f], previous[f])
           errors == [f \in Fields |-> IF f \in Ruled /\ outcome(f) \in {"rule", "remote"}
                                       THEN outcome(f) ELSE "none"]
           asked == {f \in Ruled : outcome(f) = "ask"}
<1>4. errorMap' = errors /\ StartRequests(asked, value, State)
  BY <1>3 DEF Form, Check, State, Ruled
<1>5. asked = {} /\ \A f \in Fields : errors[f] = "none"
  BY <1>2
<1>6. FormPasses
  BY <1>4, <1>5 DEF FormPasses, Failing
<1>7. pendingRequest' = pendingRequest + Cardinality(asked \ pending)
  BY <1>4 DEF StartRequests, State
<1>8. asked \ pending = {}
  BY <1>5
<1>9. pendingRequest' = 0
  BY <1>1, <1>7, <1>8, FS_EmptySet
<1>10. QED
  BY <1>3, <1>6, <1>9

(* No valid form is refused: the rules ask for no more than the attributes *)
(* and the server do, and what is remembered of its answers is what it     *)
(* said.                                                                   *)
THEOREM ValidIsNotRefused ==
  Spec => [][Submit /\ Attached /\ pending = {} /\ Valid /\ AllAsked => page' = "left"]_vars
<1>1. Inv /\ Parsed =>
        [Submit /\ Attached /\ pending = {} /\ Valid /\ AllAsked => page' = "left"]_vars
  BY ValidLeaves
<1>2. QED
  BY <1>1, FormInvariant, ParsedAlways, PTL DEF Spec
=============================================================================
