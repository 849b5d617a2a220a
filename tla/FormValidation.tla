----------------------------- MODULE FormValidation -----------------------------
(***************************************************************************)
(* A form validated in the browser by jquery.validate.unobtrusive.js over  *)
(* jQuery Validate: fields that come and go between two parses, messages   *)
(* and summary, reset, and remote rules answered while the user goes on.   *)
(*                                                                         *)
(* Handlers run one at a time; a remote answer is a handler of its own.  A *)
(* new request of a field aborts its older one; a request that fails, or   *)
(* is never answered, calls nothing.  The server answers by the value:     *)
(* Accepted.  Default values are empty.  Highlighting of inputs, ARIA      *)
(* attributes, message texts, cancel buttons and submit handlers, the form *)
(* plug-in onReset guards against, and rules that jQuery Validate reads    *)
(* from HTML attributes by itself, are left out.                           *)
(***************************************************************************)
EXTENDS UnobtrusiveAdapters, FiniteSets

CONSTANTS Fields,
          Texts,      \* what users enter: field -> lengths of texts
          Accepted,   \* values the remote calls accept
          Forms,      \* ways to mark the fields up: field -> input
          Late,       \* fields a script may add
          Replaces,   \* fields whose container takes the message
          None        \* no value, no request

Values == {0} \cup UNION {Texts[f] : f \in Fields}

ASSUME ValuesAssumption == /\ IsFiniteSet(Fields) /\ Texts \in [Fields -> SUBSET Nat]
                           /\ Accepted \subseteq Values /\ None \notin Values
ASSUME FormsAssumption ==
  \A form \in Forms : \A f \in Fields : /\ DOMAIN ParseElement(form[f]) \subseteq Methods
                                       /\ Consistent(form[f])

VARIABLES
  page,           \* "loading", "ready", or "left" once the form is submitted
  here,           \* fields the document has
  markup,         \* how they are marked up
  options,        \* rules of each parsed field
  settings,       \* the validator's copy of them; none before it is attached
  value,
  invalid,        \* names with an entry in validator.invalid
  submitted,      \* names with an entry in validator.submitted
  errorMap,       \* field -> the kind of rule it failed in the last check
  successList,    \* fields that passed in the last check
  container,      \* field -> class and text of its message container
  summary,        \* class and items of the validation summary
  previous,       \* field -> value last asked for, and whether it was accepted
  request,        \* field -> value whose answer is awaited
  pending,        \* names with an entry in validator.pending
  pendingRequest, \* validator.pendingRequest
  formSubmitted,  \* a submit waits for answers
  fresh           \* fields whose display is of their last check and of the
                  \* value they have (history)

document == <<here, markup>>
rules == <<options, settings>>
checking == <<invalid, submitted, errorMap, successList, container, previous, request,
              pending, pendingRequest, fresh>>
vars == <<page, document, rules, value, checking, summary, formSubmitted>>

NoErrors == [f \in Fields |-> "none"]
Failing(errors) == {f \in Fields : errors[f] # "none"}
NotAsked == [old |-> None, valid |-> TRUE]
Attached == DOMAIN settings # {}

Init == /\ page = "loading" /\ here \in {Fields, Fields \ Late} /\ markup \in Forms
        /\ options = <<>> /\ settings = <<>>
        /\ value = [f \in Fields |-> 0]
        /\ invalid = {} /\ submitted = {} /\ errorMap = NoErrors /\ successList = {}
        /\ container = [f \in Fields |-> [class |-> "valid", text |-> "none"]]
        /\ summary = [class |-> "valid", items |-> {}]
        /\ previous = [f \in Fields |-> NotAsked]
        /\ request = [f \in Fields |-> None]
        /\ pending = {} /\ pendingRequest = 0 /\ formSubmitted = FALSE /\ fresh = {}
-----------------------------------------------------------------------------
(***************************************************************************)
(* Messages: onError, onSuccess, onErrors and onReset.                     *)
(***************************************************************************)
OnError(f, old, kind) == [class |-> "error", text |-> IF f \in Replaces THEN kind ELSE old.text]

\* onError has placed an empty label first.
OnSuccess(f, old) == [class |-> "valid", text |-> IF f \in Replaces THEN "none" ELSE old.text]

\* Mutant of ShowErrors: a success is not shown.
ShowErrorsOnly(shown, errors, successes) ==
  [f \in Fields |-> IF errors[f] # "none" THEN OnError(f, shown[f], errors[f]) ELSE shown[f]]

ShowErrors(shown, errors, successes) ==
  [f \in Fields |-> IF f \in successes THEN OnSuccess(f, shown[f])
                    ELSE IF errors[f] # "none" THEN OnError(f, shown[f], errors[f])
                    ELSE shown[f]]

OnErrors(errors) == summary' = [class |-> "error", items |-> Failing(errors)]

\* The texts stay: only the classes change.
OnReset == /\ container' = [f \in Fields |-> [container[f] EXCEPT !.class = "valid"]]
           /\ summary' = [summary EXCEPT !.class = "valid"]
-----------------------------------------------------------------------------
(***************************************************************************)
(* parse and attachValidation.  validate copies the options when it makes  *)
(* the form's validator, and returns that one from then on.                *)
(***************************************************************************)
ParseElements == options' = [f \in here |-> ParseElement(markup[f])]

\* Mutant of AttachValidation: rules of fields that are not there yet.
AttachToAll == settings' = IF Attached THEN settings
                           ELSE [f \in Fields |-> ParseElement(markup[f])]

AttachValidation == settings' = IF Attached THEN settings ELSE options'

Ready == /\ page = "loading" /\ page' = "ready"
         /\ ParseElements /\ AttachValidation
         /\ UNCHANGED <<document, value, checking, summary, formSubmitted>>

ParseAgain == /\ page = "ready" /\ DOMAIN options # here
              /\ ParseElements /\ AttachValidation
              /\ UNCHANGED <<page, document, value, checking, summary, formSubmitted>>

\* A script of the page adds a field.
AddField(f) == /\ page = "ready" /\ f \in Late \ here
               /\ here' = here \cup {f}
               /\ UNCHANGED <<page, markup, rules, value, checking, summary, formSubmitted>>
-----------------------------------------------------------------------------
(***************************************************************************)
(* Checks.  A check of remote asks for a new value, and repeats the answer *)
(* for the value it asked for last, TRUE while there is none.              *)
(***************************************************************************)
Outcome(f, v, asked) ==
  IF f \notin DOMAIN settings THEN "unruled"
  ELSE IF ~ MeetsAll(v, settings[f]) THEN "rule"
  ELSE IF "remote" \notin DOMAIN settings[f] \/ v = 0 THEN "ok"
  ELSE IF asked.old # v THEN "ask"
  ELSE IF asked.valid THEN "ok" ELSE "remote"

\* What a check starts from.
State == [shown |-> container, previous |-> previous, request |-> request,
          pending |-> pending, count |-> pendingRequest]

\* Mutant of StartRequests: a request that replaces another is counted too.
StartRequestsTwice(S, v, s) ==
  /\ previous' = [f \in Fields |-> IF f \in S THEN [s.previous[f] EXCEPT !.old = v[f]]
                                   ELSE s.previous[f]]
  /\ request' = [f \in Fields |-> IF f \in S THEN v[f] ELSE s.request[f]]
  /\ pending' = s.pending \cup S
  /\ pendingRequest' = s.count + Cardinality(S)

StartRequests(S, v, s) ==
  /\ previous' = [f \in Fields |-> IF f \in S THEN [s.previous[f] EXCEPT !.old = v[f]]
                                   ELSE s.previous[f]]
  /\ request' = [f \in Fields |-> IF f \in S THEN v[f] ELSE s.request[f]]
  /\ pending' = s.pending \cup S
  /\ pendingRequest' = s.count + Cardinality(S \ s.pending)

\* The fields of S are checked from state s with the values v, and shown.
Check(S, v, s) ==
  LET outcome(f) == Outcome(f, v[f], s.previous[f])
      errors == [f \in Fields |-> IF f \in S /\ outcome(f) \in {"rule", "remote"}
                                  THEN outcome(f) ELSE "none"]
  IN  /\ errorMap' = errors
      /\ successList' = {f \in S : outcome(f) = "ok"}
      /\ submitted' = submitted \cup Failing(errors)
      /\ container' = ShowErrors(s.shown, errors, successList')
      /\ StartRequests({f \in S : outcome(f) = "ask"}, v, s)

Element(f, v) == /\ Check({f}, v, State)
                 /\ invalid' = invalid \cup {f}
                 /\ fresh' = fresh \cup {f}

Form(s) == /\ Check(DOMAIN settings, value, s)
           /\ invalid' = Failing(errorMap')
           /\ fresh' = DOMAIN settings
           /\ IF Failing(errorMap') # {} THEN OnErrors(errorMap') ELSE UNCHANGED summary

FormPasses == Failing(errorMap') = {}
-----------------------------------------------------------------------------
(***************************************************************************)
(* What the user and scripts do.                                           *)
(***************************************************************************)
Present(f) == page = "ready" /\ f \in here

\* By mouse, or by the browser: no key is pressed.
Change(f, v) == /\ Present(f) /\ value[f] # v
                /\ markup[f].checkbox => f \notin submitted
                /\ value' = [value EXCEPT ![f] = v]
                /\ fresh' = fresh \ {f}
                /\ UNCHANGED <<page, document, rules, invalid, submitted, errorMap, successList,
                               container, previous, request, pending, pendingRequest,
                               summary, formSubmitted>>

\* onkeyup, for a field that was checked before; onclick of a box in submitted.
Edit(f, v) == /\ Present(f) /\ value[f] # v /\ f \in submitted \cup invalid
              /\ value' = [value EXCEPT ![f] = v]
              /\ Element(f, value')
              /\ UNCHANGED <<page, document, rules, summary, formSubmitted>>

\* onfocusout
Blur(f) == /\ Present(f) /\ Attached /\ ~ markup[f].checkbox /\ (f \in submitted \/ value[f] # 0)
           /\ Element(f, value)
           /\ UNCHANGED <<page, document, rules, value, summary, formSubmitted>>

\* Mutant of Submit: the form leaves while answers are awaited.
SubmitAnyway == /\ page = "ready" /\ Attached
                /\ Form(State)
                /\ page' = IF FormPasses THEN "left" ELSE page
                /\ UNCHANGED <<document, rules, value, formSubmitted>>

\* A form nothing was attached to just leaves.
Submit == /\ page = "ready"
          /\ \/ /\ ~ Attached /\ page' = "left"
                /\ UNCHANGED <<checking, summary, formSubmitted>>
             \/ /\ Attached /\ Form(State)
                /\ page' = IF FormPasses /\ pendingRequest' = 0 THEN "left" ELSE page
                /\ formSubmitted' = (formSubmitted \/ (FormPasses /\ pendingRequest' > 0))
          /\ UNCHANGED <<document, rules, value>>

\* validate() of the form's unobtrusiveValidation data.
Validate == /\ page = "ready" /\ Attached
            /\ Form(State)
            /\ UNCHANGED <<page, document, rules, value, formSubmitted>>

\* Requests go on, and a waiting submit with them.
Reset == /\ page = "ready"
         /\ value' = [f \in Fields |-> 0] /\ fresh' = {}
         /\ IF Attached
              THEN /\ OnReset
                   /\ invalid' = {} /\ submitted' = {}
                   /\ errorMap' = NoErrors /\ successList' = {}
                   /\ previous' = [f \in Fields |-> IF f \in DOMAIN settings THEN NotAsked
                                                    ELSE previous[f]]
              ELSE UNCHANGED <<container, summary, invalid, submitted, errorMap, successList,
                               previous>>
         /\ UNCHANGED <<page, document, rules, request, pending, pendingRequest, formSubmitted>>
-----------------------------------------------------------------------------
(***************************************************************************)
(* Answers.  stopRequest takes the field off the pending ones and lets a   *)
(* waiting submit go on, or gives it up.                                   *)
(***************************************************************************)
Accepts(f) == request[f] \in Accepted

\* The lists and the state once the answer for f is shown.
AnsweredErrors(f) == IF Accepts(f) THEN NoErrors ELSE [errorMap EXCEPT ![f] = "remote"]
AnsweredSuccesses(f) == IF Accepts(f) THEN {f} ELSE successList \ {f}
Answered(f) ==
  [shown    |-> ShowErrors(container, AnsweredErrors(f), AnsweredSuccesses(f)),
   previous |-> IF previous[f].old = None THEN previous
                ELSE [previous EXCEPT ![f].valid = Accepts(f)],
   request  |-> [request EXCEPT ![f] = None],
   pending  |-> pending \ {f},
   count    |-> IF pendingRequest > 0 THEN pendingRequest - 1 ELSE 0]

\* Mutant of ShowAnswer: the name does not become an invalid one.
ShowAnswerOnly(f) == /\ errorMap' = AnsweredErrors(f)
                     /\ successList' = AnsweredSuccesses(f)
                     /\ container' = Answered(f).shown
                     /\ previous' = Answered(f).previous
                     /\ request' = Answered(f).request
                     /\ pending' = Answered(f).pending
                     /\ pendingRequest' = Answered(f).count
                     /\ invalid' = invalid
                     /\ fresh' = IF value[f] = request[f] THEN fresh ELSE fresh \ {f}
                     /\ UNCHANGED submitted

ShowAnswer(f) == /\ errorMap' = AnsweredErrors(f)
                 /\ successList' = AnsweredSuccesses(f)
                 /\ container' = Answered(f).shown
                 /\ previous' = Answered(f).previous
                 /\ request' = Answered(f).request
                 /\ pending' = Answered(f).pending
                 /\ pendingRequest' = Answered(f).count
                 /\ invalid' = invalid \cup {f}
                 /\ fresh' = IF value[f] = request[f] THEN fresh ELSE fresh \ {f}
                 /\ UNCHANGED submitted

LastAnswer(f) == Answered(f).count = 0

\* Mutant of GoesOn: the waiting submit is not carried out.
GoesOnLater(f) == /\ Form(Answered(f))
                  /\ UNCHANGED <<page, formSubmitted>>

GoesOn(f) == /\ Form(Answered(f))
             /\ IF FormPasses /\ pendingRequest' = 0
                  THEN page' = "left" /\ formSubmitted' = FALSE
                  ELSE UNCHANGED <<page, formSubmitted>>

GivesUp(f) == /\ ShowAnswer(f)
              /\ OnErrors(errorMap') /\ formSubmitted' = FALSE
              /\ UNCHANGED page

Answer(f) ==
  /\ page = "ready" /\ request[f] # None
  /\ IF formSubmitted /\ LastAnswer(f)
       THEN IF Accepts(f) THEN GoesOn(f) ELSE GivesUp(f)
       ELSE ShowAnswer(f) /\ UNCHANGED <<page, summary, formSubmitted>>
  /\ UNCHANGED <<document, rules, value>>

RequestFails(f) == /\ page = "ready" /\ request[f] # None
                   /\ request' = [request EXCEPT ![f] = None]
                   /\ UNCHANGED <<page, document, rules, value, invalid, submitted, errorMap,
                                  successList, container, previous, pending, pendingRequest,
                                  fresh, summary, formSubmitted>>
-----------------------------------------------------------------------------
User == \/ Submit \/ Reset
        \/ \E f \in Fields : Blur(f) \/ \E v \in Texts[f] : Change(f, v) \/ Edit(f, v)

Scripts == Ready \/ ParseAgain \/ Validate \/ \E f \in Fields : AddField(f)

Next == User \/ Scripts \/ \E f \in Fields : Answer(f) \/ RequestFails(f)

Spec == Init /\ [][Next]_vars

\* The server answers in the end, unless the request fails.
FairSpec == Spec /\ \A f \in Fields : WF_vars(Answer(f))
-----------------------------------------------------------------------------
TypeOK ==
  /\ page \in {"loading", "ready", "left"} /\ here \subseteq Fields /\ markup \in Forms
  /\ DOMAIN settings \subseteq DOMAIN options /\ DOMAIN options \subseteq here
  /\ value \in [Fields -> Values]
  /\ invalid \subseteq Fields /\ submitted \subseteq Fields /\ fresh \subseteq Fields
  /\ errorMap \in [Fields -> {"none", "rule", "remote"}] /\ successList \subseteq Fields
  /\ container \in [Fields -> [class : {"valid", "error"}, text : {"none", "rule", "remote"}]]
  /\ summary \in [class : {"valid", "error"}, items : SUBSET Fields]
  /\ previous \in [Fields -> [old : Values \cup {None}, valid : BOOLEAN]]
  /\ request \in [Fields -> Values \cup {None}]
  /\ pending \subseteq Fields /\ pendingRequest \in Nat /\ formSubmitted \in BOOLEAN

\* What an input asks of its value, the server's answer included.
Satisfies(input, v) ==
  Demands(input, v) /\ ("remote" \in DOMAIN input.val /\ v # 0 => v \in Accepted)

(* The form leaves only with values that satisfy the attributes of every   *)
(* field that was there when it was parsed first, the server's answers     *)
(* included: whatever is awaited, answered late, reset or repeated.        *)
OnlyValidLeaves ==
  page = "left" => \A f \in DOMAIN settings : Satisfies(markup[f], value[f])

(* "Sometimes synchronization fails, make sure pendingRequest is never     *)
(* < 0" (jquery.validate.js:1127): the count is that of the pending        *)
(* fields, and every awaited answer is of one of them.                     *)
PendingInSync == /\ pendingRequest = Cardinality(pending)
                 /\ \A f \in Fields : request[f] # None => f \in pending

(* A field shown in error is checked again at the next key, or has been    *)
(* asked about.                                                            *)
ErrorsAreWatched ==
  \A f \in Fields : container[f].class = "error" => f \in submitted \cup invalid \cup pending

(* A container shows what the last check of its field found, also when     *)
(* other fields were checked and answered meanwhile.  fresh leaves out a   *)
(* field after a late answer, which is shown though the value has changed. *)
ShownAsChecked ==
  \A f \in fresh \cap DOMAIN settings :
    LET outcome == Outcome(f, value[f], previous[f]) IN
    f \notin pending \/ outcome = "rule" =>
      /\ container[f].class = "error" <=> outcome # "ok"
      /\ f \in Replaces => container[f].text = IF outcome = "ok" THEN "none" ELSE outcome

(* When the user is done changing values and no request has failed, a      *)
(* submit that waits for an answer in a form whose values are all valid    *)
(* leaves with them, or is given up.  Nothing is said of one with invalid  *)
(* values: when the form refuses it at its last answer (line 1133),        *)
(* formSubmitted stays set with nothing pending.                           *)
Failed == {f \in pending : request[f] = None}
Valid == \A f \in DOMAIN settings : Satisfies(markup[f], value[f])
WaitingSubmitEnds ==
  <>[][FALSE]_value =>
    (formSubmitted /\ pending # {} /\ Valid ~>
       page = "left" \/ ~ formSubmitted \/ ~ Valid \/ Failed # {})
=============================================================================
