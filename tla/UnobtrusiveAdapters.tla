-------------------------- MODULE UnobtrusiveAdapters --------------------------
(***************************************************************************)
(* jquery.validate.unobtrusive.js: how the data-val-* attributes of an     *)
(* input become rules of jQuery Validate, and what those rules demand of a *)
(* value.                                                                  *)
(*                                                                         *)
(* An input is [checkbox, val]: val maps the name of an adapter to its     *)
(* parameters, as data-val-length, -length-min and -length-max make        *)
(* [length |-> [min |-> 1, max |-> 2]].  Rules map names to parameters.    *)
(* A value is the length of its text, and 0 is the empty one; the formats  *)
(* (email, regex and the like) accept the values in WellFormed.  Messages, *)
(* the fields a remote call sends along, numeric ranges, and equalto with  *)
(* its blur handler are left out.                                          *)
(***************************************************************************)
EXTENDS Naturals

CONSTANT WellFormed

\* What an adapter adds to the rules: one rule, or none.
SetValidationValues(ruleName, value) == [r \in {ruleName} |-> value]
NoRules == [r \in {} |-> TRUE]

-----------------------------------------------------------------------------
(***************************************************************************)
(* The kinds of adapters, and the registered ones in their order.          *)
(***************************************************************************)
AddBool(name) == [name |-> name, kind |-> "bool", rule |-> name]

AddSingleVal(name, attribute, rule) ==
  [name |-> name, kind |-> "single", rule |-> rule, attribute |-> attribute]

AddMinMax(name, minRule, maxRule, minMaxRule) ==
  [name |-> name, kind |-> "minMax", min |-> minRule, max |-> maxRule, minMax |-> minMaxRule]

Add(name) == [name |-> name, kind |-> name]

\* additional-methods.js, with the method extension, is not among the scripts.
Adapters == <<AddSingleVal("extension", "extension", "accept"),
              AddSingleVal("regex", "pattern", "regex"),
              AddBool("creditcard"), AddBool("date"), AddBool("digits"),
              AddBool("email"), AddBool("number"), AddBool("url"),
              AddMinMax("length", "minlength", "maxlength", "rangelength"),
              AddMinMax("minlength", "minlength", "undefined", "undefined"),
              AddMinMax("maxlength", "minlength", "maxlength", "undefined"),
              Add("required"), Add("remote"), Add("password"), Add("fileextensions")>>

AdaptMinMax(a, params) ==
  CASE {"min", "max"} \subseteq DOMAIN params ->
         SetValidationValues(a.minMax, <<params.min, params.max>>)
    [] "min" \in DOMAIN params /\ "max" \notin DOMAIN params ->
         SetValidationValues(a.min, params.min)
    [] "max" \in DOMAIN params /\ "min" \notin DOMAIN params ->
         SetValidationValues(a.max, params.max)
    [] OTHER -> NoRules

AdaptRequired(input) ==
  IF input.checkbox THEN NoRules ELSE SetValidationValues("required", TRUE)

\* min, nonalphamin and regex, each under its rule's name when it is there.
PasswordRule == [min |-> "minlength", nonalphamin |-> "nonalphamin", regex |-> "regex"]
AdaptPassword(params) ==
  LET read == DOMAIN params \cap DOMAIN PasswordRule
  IN  [r \in {PasswordRule[p] : p \in read} |-> params[CHOOSE p \in read : PasswordRule[p] = r]]

Adapt(a, input) ==
  LET params == input.val[a.name] IN
  CASE a.kind = "bool"           -> SetValidationValues(a.rule, TRUE)
    [] a.kind = "single"         -> SetValidationValues(a.rule, params[a.attribute])
    [] a.kind = "minMax"         -> AdaptMinMax(a, params)
    [] a.kind = "required"       -> AdaptRequired(input)
    [] a.kind = "remote"         -> SetValidationValues("remote", params)
    [] a.kind = "password"       -> AdaptPassword(params)
    [] a.kind = "fileextensions" -> SetValidationValues("extension", params.extensions)

\* The adapters an attribute names, and those of them that set a rule.
Named(input) == {i \in DOMAIN Adapters : Adapters[i].name \in DOMAIN input.val}
Setters(input, rule) == {i \in Named(input) : rule \in DOMAIN Adapt(Adapters[i], input)}

\* They are called one after the other, so the last to set a rule has its way;
\* __dummy__ keeps the rules from being empty, so that the field is among the
\* form's elements.
ParseElement(input) ==
  LET set == UNION {DOMAIN Adapt(Adapters[i], input) : i \in Named(input)}
      last(rule) == CHOOSE i \in Setters(input, rule) : \A j \in Setters(input, rule) : j <= i
  IN  [rule \in set \cup {"__dummy__"} |->
         IF rule = "__dummy__" THEN TRUE ELSE Adapt(Adapters[last(rule)], input)[rule]]

\* No attribute asks for a rule that another asks for with another parameter.
Consistent(input) ==
  \A i, j \in Named(input) :
    \A rule \in DOMAIN Adapt(Adapters[i], input) \cap DOMAIN Adapt(Adapters[j], input) :
      Adapt(Adapters[i], input)[rule] = Adapt(Adapters[j], input)[rule]
-----------------------------------------------------------------------------
(***************************************************************************)
(* The methods behind the rules: all but required and nonalphamin accept   *)
(* an empty value.  remote is asked apart.                                 *)
(***************************************************************************)
Formats == {"regex", "date", "digits", "email", "number", "url"}

\* A check throws on a rule without a method: accept, creditcard, extension.
Methods == Formats \cup {"required", "nonalphamin", "minlength", "maxlength", "rangelength",
                         "remote", "__dummy__"}

Meets(v, rule, param) ==
  /\ rule = "required"    => v # 0
  /\ rule = "nonalphamin" => v \in WellFormed
  /\ v # 0 => /\ rule = "minlength"   => param <= v
              /\ rule = "maxlength"   => v <= param
              /\ rule = "rangelength" => param[1] <= v /\ v <= param[2]
              /\ rule \in Formats     => v \in WellFormed

MeetsAll(v, rules) == \A r \in DOMAIN rules : Meets(v, r, rules[r])
-----------------------------------------------------------------------------
\* What the attributes of an input ask of its value, read by themselves and
\* without the server; data-val-password has no maximum.
Ranges == {"length", "minlength", "maxlength", "password"}
Demands(input, v) ==
  LET has == DOMAIN input.val
      password(p) == "password" \in has /\ p \in DOMAIN input.val["password"]
  IN
  /\ "required" \in has /\ ~ input.checkbox => v # 0
  /\ password("nonalphamin") => v \in WellFormed
  /\ v # 0 => /\ has \cap Formats # {} \/ password("regex") => v \in WellFormed
              /\ \A a \in has \cap Ranges : LET params == input.val[a] IN
                   /\ "min" \in DOMAIN params => params.min <= v
                   /\ "max" \in DOMAIN params /\ a # "password" => v <= params.max
=============================================================================
