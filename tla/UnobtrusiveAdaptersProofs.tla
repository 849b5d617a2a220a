----------------------- MODULE UnobtrusiveAdaptersProofs -----------------------
(***************************************************************************)
(* What ParseElement makes of the attributes of any input.                 *)
(***************************************************************************)
EXTENDS UnobtrusiveAdapters, TLAPS

(* There are fifteen adapters; the ones in use, with what they are made of. *)
LEMMA AdaptersRegistered ==
  /\ DOMAIN Adapters = 1 .. 15
  /\ Adapters[2].name = "regex" /\ Adapters[2].kind = "single"
  /\ Adapters[2].rule = "regex" /\ Adapters[2].attribute = "pattern"
  /\ Adapters[4].name = "date" /\ Adapters[4].kind = "bool" /\ Adapters[4].rule = "date"
  /\ Adapters[5].name = "digits" /\ Adapters[5].kind = "bool" /\ Adapters[5].rule = "digits"
  /\ Adapters[6].name = "email" /\ Adapters[6].kind = "bool" /\ Adapters[6].rule = "email"
  /\ Adapters[7].name = "number" /\ Adapters[7].kind = "bool" /\ Adapters[7].rule = "number"
  /\ Adapters[8].name = "url" /\ Adapters[8].kind = "bool" /\ Adapters[8].rule = "url"
  /\ Adapters[9].name = "length" /\ Adapters[9].kind = "minMax" /\ Adapters[9].min = "minlength"
  /\ Adapters[9].max = "maxlength" /\ Adapters[9].minMax = "rangelength"
  /\ Adapters[10].name = "minlength" /\ Adapters[10].kind = "minMax"
  /\ Adapters[10].min = "minlength" /\ Adapters[10].max = "undefined" /\ Adapters[10].minMax = "undefined"
  /\ Adapters[11].name = "maxlength" /\ Adapters[11].kind = "minMax"
  /\ Adapters[11].min = "minlength" /\ Adapters[11].max = "maxlength" /\ Adapters[11].minMax = "undefined"
  /\ Adapters[12].name = "required" /\ Adapters[12].kind = "required"
  /\ Adapters[13].name = "remote" /\ Adapters[13].kind = "remote"
  /\ Adapters[14].name = "password" /\ Adapters[14].kind = "password"
<1>1. DOMAIN Adapters = 1 .. 15
  BY DEF Adapters
<1>2. /\ Adapters[2].name = "regex" /\ Adapters[2].kind = "single"
      /\ Adapters[2].rule = "regex" /\ Adapters[2].attribute = "pattern"
  BY DEF Adapters, AddSingleVal
<1>3. /\ Adapters[4].name = "date" /\ Adapters[4].kind = "bool" /\ Adapters[4].rule = "date"
      /\ Adapters[5].name = "digits" /\ Adapters[5].kind = "bool" /\ Adapters[5].rule = "digits"
      /\ Adapters[6].name = "email" /\ Adapters[6].kind = "bool" /\ Adapters[6].rule = "email"
      /\ Adapters[7].name = "number" /\ Adapters[7].kind = "bool" /\ Adapters[7].rule = "number"
      /\ Adapters[8].name = "url" /\ Adapters[8].kind = "bool" /\ Adapters[8].rule = "url"
  BY DEF Adapters, AddBool
<1>4. /\ Adapters[9].name = "length" /\ Adapters[9].kind = "minMax" /\ Adapters[9].min = "minlength"
      /\ Adapters[9].max = "maxlength" /\ Adapters[9].minMax = "rangelength"
      /\ Adapters[10].name = "minlength" /\ Adapters[10].kind = "minMax"
      /\ Adapters[10].min = "minlength" /\ Adapters[10].max = "undefined" /\ Adapters[10].minMax = "undefined"
      /\ Adapters[11].name = "maxlength" /\ Adapters[11].kind = "minMax"
      /\ Adapters[11].min = "minlength" /\ Adapters[11].max = "maxlength"
      /\ Adapters[11].minMax = "undefined"
  BY DEF Adapters, AddMinMax
<1>5. /\ Adapters[12].name = "required" /\ Adapters[12].kind = "required"
      /\ Adapters[13].name = "remote" /\ Adapters[13].kind = "remote"
      /\ Adapters[14].name = "password" /\ Adapters[14].kind = "password"
  BY DEF Adapters, Add
<1>6. QED
  BY <1>1, <1>2, <1>3, <1>4, <1>5

(* What an adapter does goes by its kind.                                  *)
LEMMA AdaptByKind ==
  ASSUME NEW a, NEW input
  PROVE  /\ a.kind = "single" =>
              Adapt(a, input) = SetValidationValues(a.rule, input.val[a.name][a.attribute])
         /\ a.kind = "minMax" => Adapt(a, input) = AdaptMinMax(a, input.val[a.name])
         /\ a.kind = "required" => Adapt(a, input) = AdaptRequired(input)
         /\ a.kind = "remote" =>
              Adapt(a, input) = SetValidationValues("remote", input.val[a.name])
         /\ a.kind = "password" => Adapt(a, input) = AdaptPassword(input.val[a.name])
BY DEF Adapt

(* Five formats have an adapter without parameters.                        *)
LEMMA FormatAdapters ==
  ASSUME NEW input, NEW f \in Formats \ {"regex"}
  PROVE  \E i \in 1 .. 15 : /\ Adapters[i].name = f
                            /\ Adapt(Adapters[i], input) = SetValidationValues(f, TRUE)
<1>1. ASSUME NEW a, a.kind = "bool" PROVE Adapt(a, input) = SetValidationValues(a.rule, TRUE)
  BY <1>1 DEF Adapt
<1>2. \E i \in 1 .. 15 : Adapters[i].name = f /\ Adapters[i].kind = "bool" /\ Adapters[i].rule = f
  <2>1. 4 \in 1 .. 15 /\ 5 \in 1 .. 15 /\ 6 \in 1 .. 15 /\ 7 \in 1 .. 15 /\ 8 \in 1 .. 15
    OBVIOUS
  <2>2. QED
    BY <2>1, AdaptersRegistered DEF Formats
<1>3. QED
  BY <1>1, <1>2

(* The other adapters in use, and what they do.                            *)
LEMMA AdaptersDo ==
  ASSUME NEW input
  PROVE  /\ Adapt(Adapters[2], input) =
              SetValidationValues("regex", input.val["regex"]["pattern"])
         /\ \A i \in 9 .. 11 :
              Adapt(Adapters[i], input) = AdaptMinMax(Adapters[i], input.val[Adapters[i].name])
         /\ Adapt(Adapters[12], input) = AdaptRequired(input)
         /\ Adapt(Adapters[13], input) = SetValidationValues("remote", input.val["remote"])
         /\ Adapt(Adapters[14], input) = AdaptPassword(input.val["password"])
<1>1. \A i \in 9 .. 11 : Adapters[i].kind = "minMax"
  <2>1. \A i \in 9 .. 11 : i = 9 \/ i = 10 \/ i = 11
    OBVIOUS
  <2>2. QED
    BY <2>1, AdaptersRegistered
<1>2. QED
  BY <1>1, AdaptersRegistered, AdaptByKind

(* Three adapters are for lengths, each for a minimum, and some for more.  *)
LEMMA LengthAdapters ==
  /\ \A a \in Ranges \ {"password"} : \E i \in 9 .. 11 : Adapters[i].name = a
  /\ \A i \in 9 .. 11 : /\ Adapters[i].name \in Ranges \ {"password"}
                        /\ Adapters[i].min = "minlength"
                        /\ Adapters[i].max \in {"maxlength", "undefined"}
                        /\ Adapters[i].minMax \in {"rangelength", "undefined"}
<1>1. \A i \in 9 .. 11 : i = 9 \/ i = 10 \/ i = 11
  OBVIOUS
<1>2. 9 \in 9 .. 11 /\ 10 \in 9 .. 11 /\ 11 \in 9 .. 11
  OBVIOUS
<1>3. \A i \in 9 .. 11 : /\ Adapters[i].min = "minlength"
                        /\ Adapters[i].max \in {"maxlength", "undefined"}
                        /\ Adapters[i].minMax \in {"rangelength", "undefined"}
  BY <1>1, AdaptersRegistered
<1>4. \A i \in 9 .. 11 : Adapters[i].name \in Ranges \ {"password"}
  BY <1>1, AdaptersRegistered DEF Ranges
<1>5. QED
  BY <1>2, <1>3, <1>4, AdaptersRegistered DEF Ranges

(* Some adapter is the last one to set a rule that is set.                 *)
LEMMA LastOfAdapters ==
  ASSUME NEW S \in SUBSET (1 .. 15), S # {}
  PROVE  \E i \in S : \A j \in S : j <= i
<1>1. ASSUME NEW n \in {0, 4, 8, 12}, NEW k \in S, n < k, \A j \in S : j <= n + 4
      PROVE  \E i \in S : \A j \in S : j <= i
  <2>1. CASE n + 4 \in S
    BY <1>1, <2>1
  <2>2. CASE n + 4 \notin S /\ n + 3 \in S
    <3>1. \A j \in S : j <= n + 3
      BY <1>1, <2>2
    <3>2. QED
      BY <2>2, <3>1
  <2>3. CASE n + 4 \notin S /\ n + 3 \notin S /\ n + 2 \in S
    <3>1. \A j \in S : j <= n + 2
      BY <1>1, <2>3
    <3>2. QED
      BY <2>3, <3>1
  <2>4. CASE n + 4 \notin S /\ n + 3 \notin S /\ n + 2 \notin S
    <3>1. k = n + 1 /\ \A j \in S : j <= n + 1
      BY <1>1, <2>4
    <3>2. QED
      BY <3>1
  <2>5. QED
    BY <2>1, <2>2, <2>3, <2>4
<1>2. PICK k \in S : TRUE
  OBVIOUS
<1>3. CASE \E j \in S : 12 < j
  BY <1>1, <1>3
<1>4. CASE (\A j \in S : j <= 12) /\ \E j \in S : 8 < j
  BY <1>1, <1>4
<1>5. CASE (\A j \in S : j <= 8) /\ \E j \in S : 4 < j
  BY <1>1, <1>5
<1>6. CASE \A j \in S : j <= 4
  BY <1>1, <1>2, <1>6
<1>7. QED
  BY <1>3, <1>4, <1>5, <1>6

(* With consistent attributes, ParseElement sets the rule of every adapter *)
(* that is named, to what that adapter makes of it.                        *)
LEMMA ParseSets ==
  ASSUME NEW input, Consistent(input), NEW i \in Named(input),
         NEW rule \in DOMAIN Adapt(Adapters[i], input), rule # "__dummy__"
  PROVE  /\ rule \in DOMAIN ParseElement(input)
         /\ ParseElement(input)[rule] = Adapt(Adapters[i], input)[rule]
<1> DEFINE S == Setters(input, rule)
           l == CHOOSE j \in S : \A k \in S : k <= j
<1>1. i \in S /\ S \in SUBSET (1 .. 15)
  BY AdaptersRegistered DEF Setters, Named
<1>2. l \in S
  BY <1>1, LastOfAdapters
<1>3. /\ l \in Named(input) /\ rule \in DOMAIN Adapt(Adapters[l], input)
      /\ Adapt(Adapters[l], input)[rule] = Adapt(Adapters[i], input)[rule]
  BY <1>2 DEF Setters, Consistent
<1>4. /\ rule \in DOMAIN ParseElement(input)
      /\ ParseElement(input)[rule] = Adapt(Adapters[l], input)[rule]
  BY DEF ParseElement
<1>5. QED
  BY <1>3, <1>4

(* The rules of an input come from the adapters it names, and __dummy__.   *)
LEMMA ParseOnly ==
  ASSUME NEW input, NEW rule \in DOMAIN ParseElement(input), rule # "__dummy__"
  PROVE  \E i \in Named(input) : /\ rule \in DOMAIN Adapt(Adapters[i], input)
                                 /\ ParseElement(input)[rule] = Adapt(Adapters[i], input)[rule]
<1> DEFINE S == Setters(input, rule)
           l == CHOOSE j \in S : \A k \in S : k <= j
<1>1. S # {} /\ S \in SUBSET (1 .. 15)
  BY AdaptersRegistered DEF ParseElement, Setters, Named
<1>2. l \in S
  BY <1>1, LastOfAdapters
<1>3. ParseElement(input)[rule] = Adapt(Adapters[l], input)[rule]
  BY DEF ParseElement
<1>4. QED
  BY <1>2, <1>3 DEF Setters

(* The password adapter sets three rules, each to its own parameter.       *)
LEMMA PasswordSets ==
  ASSUME NEW params
  PROVE  /\ \A p \in DOMAIN params \cap DOMAIN PasswordRule :
              /\ PasswordRule[p] \in DOMAIN AdaptPassword(params)
              /\ AdaptPassword(params)[PasswordRule[p]] = params[p]
         /\ \A rule \in DOMAIN AdaptPassword(params) :
              \E p \in DOMAIN params \cap DOMAIN PasswordRule : PasswordRule[p] = rule
<1> DEFINE read == DOMAIN params \cap DOMAIN PasswordRule
<1>1. \A p, q \in DOMAIN PasswordRule : PasswordRule[p] = PasswordRule[q] => p = q
  BY DEF PasswordRule
<1>2. ASSUME NEW p \in read PROVE (CHOOSE q \in read : PasswordRule[q] = PasswordRule[p]) = p
  BY <1>1
<1>3. ASSUME NEW p \in read
      PROVE  /\ PasswordRule[p] \in DOMAIN AdaptPassword(params)
             /\ AdaptPassword(params)[PasswordRule[p]] = params[p]
  BY <1>2 DEF AdaptPassword
<1>4. \A rule \in DOMAIN AdaptPassword(params) : \E p \in read : PasswordRule[p] = rule
  BY DEF AdaptPassword
<1>5. QED
  BY <1>3, <1>4

(* A value that meets the rules of an input satisfies its attributes, and  *)
(* an input that names the remote adapter has the remote rule: no adapter  *)
(* is left out, overridden, or given another's parameters.                 *)
THEOREM RulesDemandAttributes ==
  ASSUME NEW input, Consistent(input), DOMAIN ParseElement(input) \subseteq Methods,
         NEW v, MeetsAll(v, ParseElement(input))
  PROVE  /\ Demands(input, v)
         /\ "remote" \in DOMAIN input.val => "remote" \in DOMAIN ParseElement(input)
<1> DEFINE has == DOMAIN input.val
           rules(i) == Adapt(Adapters[i], input)
<1>1. ASSUME NEW i \in Named(input), NEW rule \in DOMAIN rules(i)
      PROVE  rule \in Methods /\ Meets(v, rule, rules(i)[rule])
  <2>1. CASE rule = "__dummy__"
    BY <2>1 DEF Meets, Methods, Formats
  <2>2. CASE rule # "__dummy__"
    BY <2>2, ParseSets DEF MeetsAll
  <2>3. QED
    BY <2>1, <2>2
<1>2. \A i \in 1 .. 15 : Adapters[i].name \in has => i \in Named(input)
  BY AdaptersRegistered DEF Named
<1>3. "required" \in has /\ ~ input.checkbox => v # 0
  <2> SUFFICES ASSUME "required" \in has, ~ input.checkbox PROVE v # 0
    OBVIOUS
  <2>1. 12 \in Named(input) /\ rules(12) = AdaptRequired(input)
    BY <1>2, AdaptersRegistered, AdaptersDo
  <2>2. AdaptRequired(input) = SetValidationValues("required", TRUE)
    BY DEF AdaptRequired
  <2>3. "required" \in DOMAIN rules(12) /\ rules(12)["required"] = TRUE
    <3>1. /\ "required" \in DOMAIN SetValidationValues("required", TRUE)
          /\ SetValidationValues("required", TRUE)["required"] = TRUE
      BY DEF SetValidationValues
    <3>2. QED
      BY <2>1, <2>2, <3>1, Zenon
  <2>4. Meets(v, "required", TRUE)
    BY <1>1, <2>1, <2>3
  <2>5. QED
    BY <2>4 DEF Meets
<1>4. ASSUME NEW f \in has \cap Formats, v # 0 PROVE v \in WellFormed
  <2>1. CASE f = "regex"
    <3>1. /\ 2 \in Named(input)
          /\ rules(2) = SetValidationValues("regex", input.val["regex"]["pattern"])
      BY <1>2, <1>4, <2>1, AdaptersRegistered, AdaptersDo
    <3>2. Meets(v, "regex", input.val["regex"]["pattern"])
      BY <1>1, <3>1 DEF SetValidationValues
    <3>3. QED
      BY <1>4, <3>2 DEF Meets, Formats
  <2>2. CASE f # "regex"
    <3>1. PICK i \in 1 .. 15 : Adapters[i].name = f /\ rules(i) = SetValidationValues(f, TRUE)
      BY <1>4, <2>2, FormatAdapters
    <3>2. i \in Named(input) /\ f \in DOMAIN rules(i) /\ rules(i)[f] = TRUE
      BY <1>2, <1>4, <3>1 DEF SetValidationValues
    <3>3. Meets(v, f, TRUE)
      BY <1>1, <3>2
    <3>4. QED
      BY <1>4, <3>3 DEF Meets, Formats
  <2>3. QED
    BY <2>1, <2>2
<1>5. "remote" \in has => "remote" \in DOMAIN ParseElement(input)
  <2> SUFFICES ASSUME "remote" \in has PROVE "remote" \in DOMAIN ParseElement(input)
    OBVIOUS
  <2>1. 13 \in Named(input) /\ rules(13) = SetValidationValues("remote", input.val["remote"])
    BY <1>2, AdaptersRegistered, AdaptersDo
  <2>2. QED
    BY <2>1, ParseSets DEF SetValidationValues
<1>6. ASSUME NEW i \in 9 .. 11, NEW a \in has, Adapters[i].name = a,
             Adapters[i].min = "minlength", Adapters[i].max \in {"maxlength", "undefined"},
             Adapters[i].minMax \in {"rangelength", "undefined"}, v # 0
      PROVE  /\ "min" \in DOMAIN input.val[a] => input.val[a]["min"] <= v
             /\ "max" \in DOMAIN input.val[a] => v <= input.val[a]["max"]
  <2> DEFINE params == input.val[a]
  <2>1. i \in Named(input) /\ rules(i) = AdaptMinMax(Adapters[i], params)
    BY <1>2, <1>6, AdaptersDo
  <2> DEFINE max == Adapters[i].max
             minMax == Adapters[i].minMax
  <2>2. /\ Adapters[i].min = "minlength" /\ max \in {"maxlength", "undefined"}
        /\ minMax \in {"rangelength", "undefined"}
    BY <1>6
  <2>3. "undefined" \notin Methods
    BY DEF Methods, Formats
  <2>4. CASE "min" \in DOMAIN params /\ "max" \in DOMAIN params
    <3>1. rules(i) = SetValidationValues(minMax, <<params.min, params.max>>)
      BY <2>1, <2>2, <2>4 DEF AdaptMinMax
    <3>2. minMax \in Methods /\ Meets(v, minMax, <<params.min, params.max>>)
      BY <1>1, <2>1, <3>1 DEF SetValidationValues
    <3>3. minMax = "rangelength"
      BY <2>2, <2>3, <3>2
    <3>4. QED
      BY <1>6, <3>2, <3>3 DEF Meets
  <2>5. CASE "min" \in DOMAIN params /\ "max" \notin DOMAIN params
    <3>1. rules(i) = SetValidationValues("minlength", params.min)
      BY <1>6, <2>1, <2>2, <2>5 DEF AdaptMinMax
    <3>2. Meets(v, "minlength", params.min)
      BY <1>1, <2>1, <3>1 DEF SetValidationValues
    <3>3. QED
      BY <1>6, <2>5, <3>2 DEF Meets
  <2>6. CASE "min" \notin DOMAIN params /\ "max" \in DOMAIN params
    <3>1. rules(i) = SetValidationValues(max, params.max)
      BY <2>1, <2>2, <2>6 DEF AdaptMinMax
    <3>2. max \in Methods /\ Meets(v, max, params.max)
      BY <1>1, <2>1, <3>1 DEF SetValidationValues
    <3>3. max = "maxlength"
      BY <2>2, <2>3, <3>2
    <3>4. QED
      BY <1>6, <2>6, <3>2, <3>3 DEF Meets
  <2>7. QED
    BY <2>4, <2>5, <2>6
<1>7. ASSUME "password" \in has
      PROVE  /\ "min" \in DOMAIN input.val["password"] /\ v # 0 => input.val["password"]["min"] <= v
             /\ "nonalphamin" \in DOMAIN input.val["password"] => v \in WellFormed
             /\ "regex" \in DOMAIN input.val["password"] /\ v # 0 => v \in WellFormed
  <2> DEFINE params == input.val["password"]
  <2>1. 14 \in Named(input) /\ rules(14) = AdaptPassword(params)
    BY <1>2, <1>7, AdaptersRegistered, AdaptersDo
  <2>2. \A p \in DOMAIN params \cap DOMAIN PasswordRule : Meets(v, PasswordRule[p], params[p])
    BY <1>1, <2>1, PasswordSets
  <2>3. /\ DOMAIN PasswordRule = {"min", "nonalphamin", "regex"}
        /\ PasswordRule["min"] = "minlength" /\ PasswordRule["nonalphamin"] = "nonalphamin"
        /\ PasswordRule["regex"] = "regex"
    BY DEF PasswordRule
  <2>4. /\ "min" \in DOMAIN params => Meets(v, "minlength", params["min"])
        /\ "nonalphamin" \in DOMAIN params => Meets(v, "nonalphamin", params["nonalphamin"])
        /\ "regex" \in DOMAIN params => Meets(v, "regex", params["regex"])
    BY <2>2, <2>3
  <2>5. QED
    BY <2>4 DEF Meets, Formats
<1>8. ASSUME NEW a \in has \cap Ranges, v # 0
      PROVE  /\ "min" \in DOMAIN input.val[a] => input.val[a]["min"] <= v
             /\ "max" \in DOMAIN input.val[a] /\ a # "password" => v <= input.val[a]["max"]
  <2>1. CASE a = "password"
    BY <1>7, <1>8, <2>1
  <2>2. CASE a # "password"
    <3>1. PICK i \in 9 .. 11 : Adapters[i].name = a
      BY <1>8, <2>2, LengthAdapters DEF Ranges
    <3>2. QED
      BY <1>6, <1>8, <2>2, <3>1, LengthAdapters
  <2>3. QED
    BY <2>1, <2>2
<1>9. QED
  BY <1>3, <1>4, <1>5, <1>7, <1>8 DEF Demands

(* And nothing else is refused: a value that satisfies the attributes      *)
(* meets the rules, which are thereby those the attributes ask for; and    *)
(* only inputs that name the remote adapter are asked about.               *)
THEOREM AttributesDemandRules ==
  ASSUME NEW input, DOMAIN ParseElement(input) \subseteq Methods, NEW v, Demands(input, v)
  PROVE  /\ MeetsAll(v, ParseElement(input))
         /\ "remote" \in DOMAIN ParseElement(input) => "remote" \in DOMAIN input.val
<1> DEFINE has == DOMAIN input.val
           rules(i) == Adapt(Adapters[i], input)
<1>1. SUFFICES ASSUME NEW i \in Named(input), NEW rule \in DOMAIN rules(i), rule \in Methods
               PROVE  Meets(v, rule, rules(i)[rule]) /\ (rule = "remote" => "remote" \in has)
  <2>1. Meets(v, "__dummy__", ParseElement(input)["__dummy__"])
    BY DEF Meets, Formats
  <2>2. MeetsAll(v, ParseElement(input))
    BY <1>1, <2>1, ParseOnly DEF MeetsAll
  <2>3. "remote" \in Methods
    BY DEF Methods
  <2>4. QED
    BY <1>1, <2>2, <2>3, ParseOnly
<1>2. i \in 1 .. 15 /\ Adapters[i].name \in has
  BY AdaptersRegistered DEF Named
<1>3. /\ v # 0 /\ has \cap Formats # {} => v \in WellFormed
      /\ "required" \in has /\ ~ input.checkbox => v # 0
  BY DEF Demands
<1>4. CASE i \in {1, 3, 15}
  <2>1. /\ Adapters[1].kind = "single" /\ Adapters[1].rule = "accept"
        /\ Adapters[3].kind = "bool" /\ Adapters[3].rule = "creditcard"
        /\ Adapters[15].kind = "fileextensions"
    BY DEF Adapters, AddSingleVal, AddBool, Add
  <2>2. DOMAIN rules(1) = {"accept"}
    BY <2>1, AdaptByKind DEF SetValidationValues
  <2>3. DOMAIN rules(3) = {"creditcard"}
    BY <2>1 DEF Adapt, SetValidationValues
  <2>4. DOMAIN rules(15) = {"extension"}
    BY <2>1 DEF Adapt, SetValidationValues
  <2>5. rule \in {"accept", "creditcard", "extension"}
    BY <1>4, <2>2, <2>3, <2>4
  <2>6. QED
    BY <1>1, <2>5 DEF Methods, Formats
<1>5. CASE i \in {2, 4, 5, 6, 7, 8}
  <2>1. rule \in Formats /\ rule = Adapters[i].name
    <3>1. CASE i = 2
      <4>1. rule = "regex" /\ Adapters[i].name = "regex"
        BY <3>1, AdaptersRegistered, AdaptersDo DEF SetValidationValues
      <4>2. QED
        BY <4>1 DEF Formats
    <3>2. CASE i \in {4, 5, 6, 7, 8}
      <4>1. /\ Adapters[i].kind = "bool" /\ Adapters[i].rule = Adapters[i].name
            /\ Adapters[i].name \in Formats
        BY <3>2, AdaptersRegistered DEF Formats
      <4>2. DOMAIN rules(i) = {Adapters[i].rule}
        BY <4>1 DEF Adapt, SetValidationValues
      <4>3. QED
        BY <4>1, <4>2
    <3>3. QED
      BY <1>5, <3>1, <3>2
  <2>2. v # 0 => v \in WellFormed
    BY <1>2, <1>3, <2>1
  <2>3. QED
    BY <2>1, <2>2 DEF Meets, Formats
<1>6. CASE i \in 9 .. 11
  <2> DEFINE params == input.val[Adapters[i].name]
             max == Adapters[i].max
             minMax == Adapters[i].minMax
  <2>1. /\ Adapters[i].name \in has \cap Ranges /\ Adapters[i].name # "password"
        /\ Adapters[i].min = "minlength" /\ max \in {"maxlength", "undefined"}
        /\ minMax \in {"rangelength", "undefined"}
    BY <1>2, <1>6, LengthAdapters
  <2>2. /\ "min" \in DOMAIN params /\ v # 0 => params.min <= v
        /\ "max" \in DOMAIN params /\ v # 0 => v <= params.max
    BY <2>1 DEF Demands
  <2>3. rules(i) = AdaptMinMax(Adapters[i], params)
    BY <1>6, AdaptersDo
  <2>4. "undefined" \notin Methods
    BY DEF Methods, Formats
  <2>5. CASE "min" \in DOMAIN params /\ "max" \in DOMAIN params
    <3>1. rules(i) = SetValidationValues(minMax, <<params.min, params.max>>)
      BY <2>3, <2>5 DEF AdaptMinMax
    <3>2. rule = "rangelength" /\ rules(i)[rule] = <<params.min, params.max>>
      BY <1>1, <2>1, <2>4, <3>1 DEF SetValidationValues
    <3>3. QED
      BY <2>2, <2>5, <3>2 DEF Meets, Formats
  <2>6. CASE "min" \in DOMAIN params /\ "max" \notin DOMAIN params
    <3>1. rules(i) = SetValidationValues("minlength", params.min)
      BY <2>1, <2>3, <2>6 DEF AdaptMinMax
    <3>2. rule = "minlength" /\ rules(i)[rule] = params.min
      BY <1>1, <3>1 DEF SetValidationValues
    <3>3. QED
      BY <2>2, <2>6, <3>2 DEF Meets, Formats
  <2>7. CASE "min" \notin DOMAIN params /\ "max" \in DOMAIN params
    <3>1. rules(i) = SetValidationValues(max, params.max)
      BY <2>3, <2>7 DEF AdaptMinMax
    <3>2. rule = "maxlength" /\ rules(i)[rule] = params.max
      BY <1>1, <2>1, <2>4, <3>1 DEF SetValidationValues
    <3>3. QED
      BY <2>2, <2>7, <3>2 DEF Meets, Formats
  <2>8. CASE "min" \notin DOMAIN params /\ "max" \notin DOMAIN params
    <3>1. rules(i) = NoRules
      BY <2>3, <2>8 DEF AdaptMinMax
    <3>2. QED
      BY <1>1, <3>1 DEF NoRules
  <2>9. QED
    BY <2>5, <2>6, <2>7, <2>8
<1>7. CASE i = 12
  <2>1. "required" \in has /\ rules(i) = AdaptRequired(input)
    BY <1>2, <1>7, AdaptersRegistered, AdaptersDo
  <2>2. ~ input.checkbox /\ rule = "required"
    <3>1. DOMAIN NoRules = {} /\ DOMAIN SetValidationValues("required", TRUE) = {"required"}
      BY DEF NoRules, SetValidationValues
    <3>2. CASE input.checkbox
      <4>1. rules(i) = NoRules
        BY <2>1, <3>2 DEF AdaptRequired
      <4>2. QED
        BY <1>1, <3>1, <4>1
    <3>3. CASE ~ input.checkbox
      <4>1. AdaptRequired(input) = SetValidationValues("required", TRUE)
        BY <3>3 DEF AdaptRequired
      <4>2. DOMAIN rules(i) = {"required"}
        BY <2>1, <3>1, <4>1, Zenon
      <4>3. QED
        BY <1>1, <3>3, <4>2
    <3>4. QED
      BY <3>2, <3>3
  <2>3. QED
    BY <1>3, <2>1, <2>2 DEF Meets, Formats
<1>8. CASE i = 13
  <2>1. rule = "remote" /\ "remote" \in has
    BY <1>1, <1>2, <1>8, AdaptersRegistered, AdaptersDo DEF SetValidationValues
  <2>2. QED
    BY <2>1 DEF Meets, Formats
<1>9. CASE i = 14
  <2> DEFINE params == input.val["password"]
  <2>1. "password" \in has /\ rules(i) = AdaptPassword(params)
    BY <1>2, <1>9, AdaptersRegistered, AdaptersDo
  <2>2. PICK p \in DOMAIN params \cap DOMAIN PasswordRule :
          rule = PasswordRule[p] /\ rules(i)[rule] = params[p]
    BY <1>1, <2>1, PasswordSets
  <2>3. p \in {"min", "nonalphamin", "regex"} /\ p \in DOMAIN params
    BY <2>2 DEF PasswordRule
  <2>4. /\ p = "min" => rule = "minlength" /\ (v # 0 => params["min"] <= v)
        /\ p = "nonalphamin" => rule = "nonalphamin" /\ v \in WellFormed
        /\ p = "regex" => rule = "regex" /\ (v # 0 => v \in WellFormed)
    BY <2>1, <2>2, <2>3 DEF Demands, PasswordRule, Ranges
  <2>5. QED
    BY <2>2, <2>3, <2>4 DEF Meets, Formats
<1>10. QED
  BY <1>2, <1>4, <1>5, <1>6, <1>7, <1>8, <1>9
=============================================================================
