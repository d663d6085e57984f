---------------------------- MODULE FunctionsProofs ----------------------------
(***************************************************************************)
(* Proofs about the pure functions: for every topology, payload, set of    *)
(* measured node pairs, setting and version, of which MCFunctions checks   *)
(* small ones.                                                             *)
(***************************************************************************)
EXTENDS MCFunctions, FiniteSetTheorems, WellFoundedInduction, TLAPS

-----------------------------------------------------------------------------
(* Payloads *)

\* A payload has some of the fields of its kind, all that are required among
\* them, with any values; responses say their kind.
IsPayload(k, p) ==
    /\ k \in Kinds
    /\ p = [f \in DOMAIN p |-> p[f]]
    /\ DOMAIN p \subseteq DOMAIN Keys[k]
    /\ DOMAIN Keys[k] \ Optional(k) \subseteq DOMAIN p
    /\ k \in RespTypes => p["type"] = k

\* Reader and writer agree on the letters.
LEMMA LettersAgree == ReadKeys = Keys
BY DEF ReadKeys, Keys, ReadReqKeys, ReqKeys

LEMMA KindsListed == Kinds = {"Req", "Resp", "CounterFail", "DuplicateFail", "Error", "Info"}
BY DEF Kinds, Keys

\* No two fields of a kind share their letter.
LEMMA LettersDiffer ==
    ASSUME NEW k \in Kinds, NEW f \in DOMAIN Keys[k], NEW g \in DOMAIN Keys[k],
           Keys[k][f] = Keys[k][g]
    PROVE  f = g
<1>1. CASE k = "Req"
  BY <1>1 DEF Keys, ReqKeys
<1>2. CASE k = "Resp"
  BY <1>2 DEF Keys
<1>3. CASE k = "Info"
  BY <1>3 DEF Keys
<1>4. CASE k \in {"CounterFail", "DuplicateFail", "Error"}
  BY <1>4 DEF Keys
<1> QED
  BY <1>1, <1>2, <1>3, <1>4, KindsListed

\* Responses carry their type under the letter t, whatever they are.
LEMMA TypesCarried ==
    ASSUME NEW k, NEW p, IsPayload(k, p), k \in RespTypes
    PROVE  "type" \in Carried(k, p) /\ Keys[k]["type"] = "t"
<1>1. "type" \in DOMAIN Keys[k] /\ Keys[k]["type"] = "t"
  BY DEF RespTypes, Keys
<1>2. "type" \notin Optional(k)
  BY DEF RespTypes, Optional
<1> QED
  BY <1>1, <1>2 DEF IsPayload, Carried

\* reqToTrans, respToTrans, infoToTrans and back: whatever the values are,
\* every field comes out as it went in, except for optional ones that are falsy.
THEOREM PayloadRoundTrip ==
    ASSUME NEW k, NEW p, IsPayload(k, p)
    PROVE  RoundTrip(k, p)
<1> DEFINE C == Carried(k, p)
           letters == Keys[k]
           t == toTrans(k, p)
<1>1. C \subseteq DOMAIN p /\ C \subseteq DOMAIN letters
  BY DEF Carried, IsPayload
<1>2. \A f, g \in DOMAIN letters : letters[f] = letters[g] => f = g
  BY LettersDiffer DEF IsPayload
<1>3. DOMAIN t = {letters[f] : f \in C}
  BY DEF toTrans
<1>4. ASSUME NEW f \in C PROVE t[letters[f]] = p[f]
  <2>1. letters[f] \in {letters[g] : g \in C}
    OBVIOUS
  <2>2. t[letters[f]] = p[CHOOSE g \in C : letters[g] = letters[f]]
    BY <2>1 DEF toTrans
  <2> HIDE DEF letters, C, t
  <2>3. (CHOOSE g \in C : letters[g] = letters[f]) = f
    BY <1>1, <1>2
  <2> QED
    BY <2>2, <2>3
<1>5. KindOf(k, t) = k
  <2>1. CASE k \in RespTypes
    <3>1. "type" \in C /\ letters["type"] = "t" /\ p["type"] = k
      BY <2>1, TypesCarried DEF IsPayload
    <3> HIDE DEF letters, C, t
    <3> QED
      BY <1>4, <2>1, <3>1 DEF KindOf
  <2>2. CASE k \notin RespTypes
    BY <2>2 DEF KindOf
  <2> QED
    BY <2>1, <2>2
<1>6. fromTrans(k, t) = [f \in {g \in DOMAIN letters : letters[g] \in DOMAIN t} |-> t[letters[f]]]
  BY <1>5, LettersAgree DEF fromTrans
<1>7. {g \in DOMAIN letters : letters[g] \in DOMAIN t} = C
  <2> HIDE DEF letters, C, t
  <2> QED
    BY <1>1, <1>2, <1>3
<1>8. fromTrans(k, t) = [f \in C |-> p[f]]
  <2> HIDE DEF letters, C, t
  <2> QED
    BY <1>4, <1>6, <1>7
<1> QED
  BY <1>8 DEF RoundTrip

\* The payloads of the machine are payloads.
LEMMA PayloadsChecked ==
    ASSUME NEW k \in Kinds, NEW p \in PayloadsOf(k)
    PROVE  IsPayload(k, p)
<1>1. PICK left \in SUBSET Optional(k) :
        /\ p \in [DOMAIN Keys[k] \ left -> {"set", Falsy, k}]
        /\ \A f \in DOMAIN Keys[k] \ left : p[f] \in Values(k, f)
  BY DEF PayloadsOf
<1>2. k \in RespTypes => "type" \in DOMAIN Keys[k] \ left
  BY DEF RespTypes, Keys, Optional
<1>3. Values(k, "type") = {k}
  BY DEF Values
<1> QED
  BY <1>1, <1>2, <1>3 DEF IsPayload

\* So every payload of the machine survives its transport.
THEOREM PayloadsArrive == Spec => []PayloadsSurviveTransport
<1>1. Init => PayloadsSurviveTransport
  <2> SUFFICES ASSUME Init, kind \in Kinds PROVE RoundTrip(kind, input)
    BY DEF PayloadsSurviveTransport
  <2>1. input \in PayloadsOf(kind)
    BY KindsListed DEF Init
  <2> QED
    BY <2>1, PayloadsChecked, PayloadRoundTrip
<1>2. PayloadsSurviveTransport /\ [Next]_<<kind, input>> => PayloadsSurviveTransport'
  BY DEF PayloadsSurviveTransport, Next
<1> QED
  BY <1>1, <1>2, PTL DEF Spec

-----------------------------------------------------------------------------
(* Settings *)

\* Texts that were read from an environment or a request: not the numbers that
\* are falsy.
IsText(text) == text \notin {"zero", "NaN"}

\* sdkOps, extractParams and doSend: for all texts, and whatever integers they
\* begin with, the settings of a request are its own, else those of the
\* environment, else the defaults.
THEOREM OptionsPrecedence ==
    ASSUME NEW env, NEW query,
           \A text \in {env.PORT, env.RESPONSE_TIMEOUT, env.PROVIDER, query.provider, query.timeout} :
             IsText(text)
    PROVE  OptionsTakeEffect(env, query)
<1> DEFINE ops == sdkOps(sdkOptions(env))
           params == extractParams(query)
           sent == effective(ops, params)
           given(text) == text \notin {Undefined, ""}
           number(text, default) ==
             IF given(text) /\ parseInt(text) \notin {"zero", "NaN"} THEN parseInt(text) ELSE default
<1>1. \A text : IsText(text) => (Truthy(text) <=> given(text))
  BY DEF IsText, Truthy
<1>2. /\ ops.timeout = Or(parsedNumber(env.RESPONSE_TIMEOUT), defaultOps.timeout)
      /\ ops.provider = Or(env.PROVIDER, defaultOps.provider)
      /\ ops.forceZeroHop = parseBooleanEnv(env.FORCE_ZERO_HOP)
      /\ ops.forceManualRelaying =
           (~parseBooleanEnv(env.FORCE_ZERO_HOP) /\ parseBooleanEnv(env.FORCE_MANUAL_RELAYING))
  BY DEF sdkOps, sdkOptions
<1>3. /\ params.provider = IF query.hasUrl /\ Truthy(query.provider) THEN query.provider ELSE Undefined
      /\ params.timeout = IF query.hasUrl THEN parsedNumber(query.timeout) ELSE Undefined
  BY DEF extractParams, NoParams
<1>4. /\ sent.provider = Nullish(params.provider, ops.provider)
      /\ sent.timeout = Nullish(params.timeout, ops.timeout)
  BY DEF effective
<1> HIDE DEF ops, params, sent
<1>5. sent.provider = IF query.hasUrl /\ given(query.provider) THEN query.provider
                      ELSE IF given(env.PROVIDER) THEN env.PROVIDER ELSE defaultOps.provider
  BY <1>1, <1>2, <1>3, <1>4 DEF Or, Nullish
<1>6. \A text : parseInt(text) # Undefined /\ parseInt(text) # ""
  BY NumeralsAssumption DEF parseInt, Undefined
<1>7. ASSUME NEW text, IsText(text), NEW default
      PROVE  Or(parsedNumber(text), default) = number(text, default)
  <2>1. CASE given(text)
    <3>1. parsedNumber(text) = parseInt(text)
      BY <1>1, <1>7, <2>1 DEF parsedNumber
    <3> QED
      BY <1>6, <2>1, <3>1 DEF Or, Truthy
  <2>2. CASE ~given(text)
    <3>1. parsedNumber(text) = Undefined
      BY <1>1, <1>7, <2>2 DEF parsedNumber
    <3> QED
      BY <2>2, <3>1 DEF Or, Truthy
  <2> QED
    BY <2>1, <2>2
<1>8. ops.timeout = number(env.RESPONSE_TIMEOUT, defaultOps.timeout)
      /\ determinePort(env.PORT) = number(env.PORT, defaultPort)
  BY <1>2, <1>7 DEF determinePort
<1> HIDE DEF number
<1>9. sent.timeout = IF query.hasUrl /\ given(query.timeout) THEN parseInt(query.timeout)
                     ELSE number(env.RESPONSE_TIMEOUT, defaultOps.timeout)
  <2>1. IsText(query.timeout)
    OBVIOUS
  <2>2. parsedNumber(query.timeout) = IF given(query.timeout) THEN parseInt(query.timeout) ELSE Undefined
    BY <1>1, <2>1 DEF parsedNumber
  <2> QED
    BY <1>3, <1>4, <1>6, <1>8, <2>2 DEF Nullish
<1>10. ~(ops.forceZeroHop /\ ops.forceManualRelaying)
       /\ (ops.forceManualRelaying => parseBooleanEnv(env.FORCE_MANUAL_RELAYING))
  BY <1>2
<1> QED
  BY <1>5, <1>8, <1>9, <1>10 DEF OptionsTakeEffect, ops, params, sent, number

\* The last header parameter of a name is the one that counts.
LEMMA LastParameterCounts ==
    ASSUME NEW P, NEW params \in Seq(P), NEW i \in DOMAIN params,
           Len(params[i]) > 1, Truthy(params[i][1]), Truthy(params[i][2]),
           \A j \in (i + 1)..Len(params) : params[j][1] # params[i][1]
    PROVE  /\ params[i][1] \in DOMAIN headersFromStringArray(params)
           /\ headersFromStringArray(params)[params[i][1]] = params[i][2]
<1> DEFINE named == {j \in DOMAIN params : Len(params[j]) > 1 /\ Truthy(params[j][1]) /\ Truthy(params[j][2])}
           k == params[i][1]
           last == CHOOSE j \in named : params[j][1] = k /\ \A l \in named : params[l][1] = k => l <= j
<1>1. i \in named
  OBVIOUS
<1>2. \A j \in named : params[j][1] = k => j <= i
  <2>1. \A j \in DOMAIN params : j \in Nat /\ i \in Nat /\ (j > i => j \in (i + 1)..Len(params))
    OBVIOUS
  <2>2. \A j \in named : j \in DOMAIN params
    OBVIOUS
  <2> QED
    BY <2>1, <2>2
<1>3. last = i
  <2>1. \A j \in named : j \in Nat
    OBVIOUS
  <2> HIDE DEF named
  <2> QED
    BY <1>1, <1>2, <2>1
<1>4. /\ DOMAIN headersFromStringArray(params) = {params[j][1] : j \in named}
      /\ headersFromStringArray(params)[k] = params[last][2]
  BY <1>1 DEF headersFromStringArray
<1> QED
  BY <1>1, <1>3, <1>4

\* A parameter of the form key:value has two parts,
LEMMA TwoParts ==
    ASSUME NEW param, Len(param) = 2
    PROVE  1 \in 1..Len(param) /\ 2 \in 1..Len(param) /\ Len(param) > 1
OBVIOUS

\* ... and both of them are set.
LEMMA PairSet ==
    ASSUME NEW param, Len(param) = 2, param[1] # "", param[2] # "",
           \A j \in 1..Len(param) : IsText(param[j]) /\ param[j] # Undefined
    PROVE  Len(param) > 1 /\ Truthy(param[1]) /\ Truthy(param[2])
BY TwoParts, Zenon DEF Truthy, IsText

\* extractParams and determineHeaders: for all headers and parameters of a
\* request, and all headers of the options.
THEOREM HeadersPrecedence ==
    ASSUME NEW provider, NEW kickback, NEW opsHeaders, NEW hasUrl \in BOOLEAN, NEW incoming,
           NEW P, NEW params \in Seq(P),
           \A k \in DOMAIN incoming : IsText(incoming[k]) /\ incoming[k] # Undefined,
           \A i \in DOMAIN params :
             /\ Len(params[i]) \in Nat
             /\ \A j \in 1..Len(params[i]) : IsText(params[i][j]) /\ params[i][j] # Undefined
    PROVE  HeadersTakeEffect(provider, kickback, opsHeaders, hasUrl, incoming, params)
<1> DEFINE fromIncoming == headersFromIncoming(incoming)
           fromParams == headersFromStringArray(params)
           headers == requestHeaders(hasUrl, incoming, params)
           defaults == Merged(ContentType, opsHeaders)
           own == Merged(defaults, headers)
           sent == determineHeaders(provider, kickback, opsHeaders, headers)
           protected == provider = defaultOps.mevProtectionProvider /\ Truthy(kickback)
           named == {i \in DOMAIN params : Len(params[i]) = 2 /\ params[i][1] # "" /\ params[i][2] # ""}
           keys == {params[i][1] : i \in DOMAIN params}
           requested == IF hasUrl THEN DOMAIN incoming \cup keys ELSE {}
<1>1. ASSUME hasUrl
      PROVE  /\ DOMAIN headers = DOMAIN fromIncoming \cup DOMAIN fromParams
             /\ \A k \in DOMAIN fromParams : headers[k] = fromParams[k]
             /\ \A k \in DOMAIN fromIncoming \ DOMAIN fromParams : headers[k] = fromIncoming[k]
  <2>1. headers = Merged(fromIncoming, fromParams)
    BY <1>1 DEF requestHeaders
  <2> HIDE DEF fromIncoming, fromParams, headers
  <2> QED
    BY <2>1 DEF Merged
<1>2. ASSUME ~hasUrl PROVE DOMAIN headers = {}
  BY <1>2 DEF requestHeaders, NoHeaders
<1>3. /\ DOMAIN own = {"Content-Type"} \cup DOMAIN opsHeaders \cup DOMAIN headers
      /\ \A k \in DOMAIN headers : own[k] = headers[k]
      /\ \A k \in DOMAIN opsHeaders \ DOMAIN headers : own[k] = opsHeaders[k]
      /\ "Content-Type" \notin DOMAIN opsHeaders \cup DOMAIN headers => own["Content-Type"] = "application/json"
  <2>1. /\ DOMAIN defaults = {"Content-Type"} \cup DOMAIN opsHeaders
        /\ \A k \in DOMAIN opsHeaders : defaults[k] = opsHeaders[k]
        /\ "Content-Type" \notin DOMAIN opsHeaders => defaults["Content-Type"] = "application/json"
    BY DEF ContentType, Merged
  <2> HIDE DEF defaults, headers
  <2> QED
    BY <2>1 DEF Merged
<1>4. /\ DOMAIN sent = IF protected THEN {"X-Tx-Origin"} \cup DOMAIN own ELSE DOMAIN own
      /\ \A k \in DOMAIN own : sent[k] = own[k]
  <2> DEFINE origin == Origin(kickback)
             shielded == Merged(origin, own)
  <2>1. sent = IF protected THEN shielded ELSE own
    BY DEF determineHeaders
  <2>2. DOMAIN origin = {"X-Tx-Origin"}
    BY DEF Origin
  <2> HIDE DEF own, origin, sent, protected
  <2>3. /\ DOMAIN shielded = {"X-Tx-Origin"} \cup DOMAIN own
        /\ \A k \in DOMAIN own : shielded[k] = own[k]
    BY <2>2 DEF Merged
  <2> HIDE DEF shielded
  <2> QED
    BY <2>1, <2>3
<1>5. DOMAIN fromParams \subseteq keys
  BY DEF headersFromStringArray
<1>6. /\ DOMAIN fromIncoming \subseteq DOMAIN incoming
      /\ \A k \in DOMAIN incoming : incoming[k] # "" => k \in DOMAIN fromIncoming /\ fromIncoming[k] = incoming[k]
  BY DEF headersFromIncoming, Truthy, IsText
<1>7. \A k \in DOMAIN headers : sent[k] = headers[k]
  <2> HIDE DEF headers, own, sent
  <2> QED
    BY <1>3, <1>4
<1>8. DOMAIN headers \subseteq requested
  <2> HIDE DEF fromIncoming, fromParams, headers, keys
  <2> QED
    BY <1>1, <1>2, <1>5, <1>6
<1>9. ASSUME hasUrl, NEW i \in named, \A j \in (i + 1)..Len(params) : params[j][1] # params[i][1]
      PROVE  sent[params[i][1]] = params[i][2]
  <2> DEFINE param == params[i]
  <2>1. i \in DOMAIN params /\ Len(param) = 2 /\ param[1] # "" /\ param[2] # ""
    OBVIOUS
  <2>2. \A j \in 1..Len(param) : IsText(param[j]) /\ param[j] # Undefined
    OBVIOUS
  <2>3. Len(param) > 1 /\ Truthy(param[1]) /\ Truthy(param[2])
    <3> HIDE DEF param
    <3> QED
      BY <2>1, <2>2, PairSet
  <2>4. param[1] \in DOMAIN fromParams /\ fromParams[param[1]] = param[2]
    <3> HIDE DEF named
    <3> QED
      BY <1>9, <2>1, <2>3, LastParameterCounts
  <2> HIDE DEF fromIncoming, fromParams, headers, sent, param
  <2>5. sent[param[1]] = param[2]
    BY <1>1, <1>7, <1>9, <2>4
  <2> QED
    BY <2>5 DEF param
<1>10. ASSUME hasUrl, NEW k \in DOMAIN incoming \ keys, incoming[k] # ""
       PROVE  sent[k] = incoming[k]
  <2> HIDE DEF fromIncoming, fromParams, headers, sent, keys
  <2>1. k \notin DOMAIN fromParams
    BY <1>5, <1>10
  <2> QED
    BY <1>1, <1>6, <1>7, <1>10, <2>1
<1> HIDE DEF headers, sent, own, named, keys, requested, protected
<1>11. ASSUME NEW k \in DOMAIN opsHeaders \ requested PROVE sent[k] = opsHeaders[k]
  BY <1>3, <1>4, <1>8
<1>12. "Content-Type" \notin requested \cup DOMAIN opsHeaders => sent["Content-Type"] = "application/json"
  BY <1>3, <1>4, <1>8
<1>13. ASSUME "X-Tx-Origin" \notin DOMAIN opsHeaders \cup requested
       PROVE  "X-Tx-Origin" \in DOMAIN sent <=> provider = "propellerheads" /\ Truthy(kickback)
  <2>1. protected <=> provider = "propellerheads" /\ Truthy(kickback)
    BY DEF defaultOps, protected
  <2>2. "X-Tx-Origin" \notin DOMAIN own
    BY <1>3, <1>8, <1>13
  <2> QED
    BY <1>4, <2>1, <2>2
<1>14. DOMAIN sent \subseteq {"Content-Type", "X-Tx-Origin"} \cup DOMAIN opsHeaders \cup requested
  BY <1>3, <1>4, <1>8
<1>15. hasUrl => \A i \in named :
         sent[params[i][1]] = params[i][2] \/ \E j \in (i + 1)..Len(params) : params[j][1] = params[i][1]
  BY <1>9
<1>16. hasUrl => \A k \in DOMAIN incoming \ keys : incoming[k] # "" => sent[k] = incoming[k]
  BY <1>10
<1>17. HeadersTakeEffect(provider, kickback, opsHeaders, hasUrl, incoming, params) <=>
         /\ hasUrl => \A i \in named :
              sent[params[i][1]] = params[i][2] \/ \E j \in (i + 1)..Len(params) : params[j][1] = params[i][1]
         /\ hasUrl => \A k \in DOMAIN incoming \ keys : incoming[k] # "" => sent[k] = incoming[k]
         /\ \A k \in DOMAIN opsHeaders \ requested : sent[k] = opsHeaders[k]
         /\ "Content-Type" \notin requested \cup DOMAIN opsHeaders => sent["Content-Type"] = "application/json"
         /\ "X-Tx-Origin" \notin DOMAIN opsHeaders \cup requested =>
              ("X-Tx-Origin" \in DOMAIN sent <=> provider = "propellerheads" /\ Truthy(kickback))
         /\ DOMAIN sent \subseteq {"Content-Type", "X-Tx-Origin"} \cup DOMAIN opsHeaders \cup requested
  BY DEF HeadersTakeEffect, sent, named, keys, requested, headers
<1> QED
  BY <1>11, <1>12, <1>13, <1>14, <1>15, <1>16, <1>17

\* The texts of the machine are texts.
LEMMA TextsChecked ==
    /\ \A text \in Texts \cup {Undefined, "", "main", "other"} : IsText(text)
    /\ \A text \in {"", "x-key", "X-Key", "p", "q", "r", "accept", "Content-Type", "i"} :
         IsText(text) /\ text # Undefined
BY DEF Texts, IsText, Undefined

\* Every split parameter of the machine is a sequence of such texts.
LEMMA PartsChecked ==
    ASSUME NEW param \in Parts
    PROVE  /\ Len(param) \in Nat
           /\ \A j \in 1..Len(param) : IsText(param[j]) /\ param[j] # Undefined
<1> DEFINE T == {"", "x-key", "X-Key", "p", "q", "r", "accept", "Content-Type", "i"}
<1>1. \A a, b, c \in T : <<a>> \in Seq(T) /\ <<a, b>> \in Seq(T) /\ <<a, b, c>> \in Seq(T)
  <2> HIDE DEF T
  <2> QED
    OBVIOUS
<1>2. param \in Seq(T)
  <2>1. \E a, b, c \in T : param = <<a>> \/ param = <<a, b>> \/ param = <<a, b, c>>
    BY Zenon DEF Parts
  <2> HIDE DEF T
  <2> QED
    BY <1>1, <2>1
<1>3. \A text \in T : IsText(text) /\ text # Undefined
  BY TextsChecked
<1> HIDE DEF T
<1> QED
  BY <1>2, <1>3

\* So every request of the machine is sent with the settings nearest to it.
THEOREM SettingsApply == Spec => []SettingsTakeEffect
<1>1. Init => SettingsTakeEffect
  <2> SUFFICES ASSUME Init PROVE SettingsTakeEffect
    OBVIOUS
  <2>1. ASSUME kind = "options" PROVE OptionsTakeEffect(input.env, input.query)
    <3>1. input \in [env : Environments, query : Queries]
      BY <2>1, KindsListed DEF Init
    <3> DEFINE env == input.env
               query == input.query
    <3>2. /\ env.PORT \in Texts /\ env.RESPONSE_TIMEOUT \in Texts
          /\ env.PROVIDER \in {Undefined, "", "main"}
          /\ query.provider \in {Undefined, "", "other"} /\ query.timeout \in Texts
      BY <3>1 DEF Environments, Queries
    <3> HIDE DEF env, query
    <3>3. \A text \in {env.PORT, env.RESPONSE_TIMEOUT, env.PROVIDER, query.provider, query.timeout} : IsText(text)
      BY <3>2, TextsChecked
    <3>4. OptionsTakeEffect(env, query)
      BY <3>3, OptionsPrecedence
    <3> QED
      BY <3>4 DEF env, query
  <2>2. ASSUME kind = "headers"
        PROVE  HeadersTakeEffect(input.provider, input.kickback, input.opsHeaders,
                                 input.hasUrl, input.incoming, input.params)
    <3>1. input \in HeaderInputs
      BY <2>2, KindsListed DEF Init
    <3> DEFINE incoming == input.incoming
               params == input.params
    <3>2. /\ incoming \in IncomingHeaders /\ input.hasUrl \in BOOLEAN
          /\ params \in {<<>>} \cup {<<p>> : p \in Parts} \cup (Parts \X Parts)
      BY <3>1 DEF HeaderInputs
    <3>3. params \in Seq(Parts)
      <4> HIDE DEF params
      <4>1. CASE params = <<>>
        BY <4>1
      <4>2. CASE \E p \in Parts : params = <<p>>
        BY <4>2
      <4>3. CASE params \in Parts \X Parts
        <5>1. PICK p \in Parts, q \in Parts : params = <<p, q>>
          BY <4>3
        <5> QED
          BY <5>1
      <4> QED
        BY <3>2, <4>1, <4>2, <4>3
    <3>4. ASSUME NEW k \in DOMAIN incoming PROVE IsText(incoming[k]) /\ incoming[k] # Undefined
      <4>1. PICK D \in SUBSET {"x-key", "accept"} : incoming \in [D -> {"", "i"}]
        BY <3>2 DEF IncomingHeaders, OptionalKeys
      <4>2. incoming[k] \in {"", "i"}
        BY <4>1
      <4> QED
        BY <4>2, TextsChecked
    <3>5. ASSUME NEW i \in DOMAIN params
          PROVE  /\ Len(params[i]) \in Nat
                 /\ \A j \in 1..Len(params[i]) : IsText(params[i][j]) /\ params[i][j] # Undefined
      <4>1. params[i] \in Parts
        BY <3>3
      <4> QED
        BY <4>1, PartsChecked
    <3> HIDE DEF incoming, params
    <3>6. HeadersTakeEffect(input.provider, input.kickback, input.opsHeaders,
                            input.hasUrl, incoming, params)
      BY <3>2, <3>3, <3>4, <3>5, HeadersPrecedence
    <3> QED
      BY <3>6 DEF incoming, params
  <2> QED
    BY <2>1, <2>2 DEF SettingsTakeEffect
<1>2. SettingsTakeEffect /\ [Next]_<<kind, input>> => SettingsTakeEffect'
  BY DEF SettingsTakeEffect, Next
<1> QED
  BY <1>1, <1>2, PTL DEF Spec

-----------------------------------------------------------------------------
(* Versions *)

\* What a version splits into: a sequence of parts, whatever they are; a
\* complete one has three or more.
IsVersion(version) == \E P : version \in Seq(P)
Complete(version) == IsVersion(version) /\ Len(version) > 2

\* Two or three parts are a version, three a complete one.
LEMMA PartsComplete ==
    ASSUME NEW a, NEW b, NEW c
    PROVE  IsVersion(<<a, b>>) /\ Complete(<<a, b, c>>)
<1>1. <<a, b>> \in Seq({a, b, c}) /\ <<a, b, c>> \in Seq({a, b, c})
  OBVIOUS
<1>2. Len(<<a, b, c>>) > 2
  OBVIOUS
<1> QED
  BY <1>1, <1>2 DEF Complete, IsVersion

\* versionCompare finds the first difference.
LEMMA FirstDifference ==
    ASSUME NEW ref, NEW version, Complete(ref), Complete(version)
    PROVE  versionCompare(ref, version) =
             IF Differ(ref[1], version[1]) THEN "MajorMismatch"
             ELSE IF Differ(ref[2], version[2]) THEN "MinorMismatch"
             ELSE IF Differ(ref[3], version[3]) THEN "PatchMismatch" ELSE "Identical"
<1> DEFINE D(i) == Differ(ref[i], version[i])
           mismatches == {i \in 1..3 : D(i)}
           first == CHOOSE i \in mismatches : \A j \in mismatches : i <= j
<1>1. ~(Len(ref) < 3) /\ ~(Len(version) < 3)
  BY DEF Complete, IsVersion
<1>2. versionCompare(ref, version) = IF mismatches = {} THEN "Identical" ELSE Mismatches[first]
  BY <1>1 DEF versionCompare
<1> HIDE DEF D
<1>3. CASE D(1)
  <2>1. first = 1
    BY <1>3
  <2> QED
    BY <1>2, <1>3, <2>1 DEF Mismatches, D
<1>4. CASE ~D(1) /\ D(2)
  <2>1. first = 2
    BY <1>4
  <2> QED
    BY <1>2, <1>4, <2>1 DEF Mismatches, D
<1>5. CASE ~D(1) /\ ~D(2) /\ D(3)
  <2>1. first = 3
    BY <1>5
  <2> QED
    BY <1>2, <1>5, <2>1 DEF Mismatches, D
<1>6. CASE ~D(1) /\ ~D(2) /\ ~D(3)
  <2>1. mismatches = {}
    BY <1>6
  <2> QED
    BY <1>2, <1>6, <2>1 DEF D
<1> QED
  BY <1>3, <1>4, <1>5, <1>6

\* onVersions and its listener: whatever versions a platform publishes, of
\* however many parts, a program with complete versions of its own reports the
\* most significant difference.
THEOREM MismatchesRanked ==
    ASSUME NEW rows, NEW own, DOMAIN rows \subseteq {"sdk", "rpcServer"},
           \A k \in DOMAIN rows : IsVersion(rows[k]),
           Complete(own.sdk), Complete(own.rpcServer)
    PROVE  VersionsRanked(rows, own)
<1> DEFINE told == onVersions(rows, own)
           complete(k) == k \in DOMAIN rows /\ Len(rows[k]) > 2
           agree(a, b, n) == \A i \in 1..n : ~Differ(a[i], b[i])
<1>1. told.sdk = "throws" <=> DOMAIN rows = {"rpcServer"}
  BY DEF onVersions, Level
<1>2. ASSUME NEW a, NEW b
      PROVE  /\ agree(a, b, 1) <=> ~Differ(a[1], b[1])
             /\ agree(a, b, 2) <=> ~Differ(a[1], b[1]) /\ ~Differ(a[2], b[2])
  OBVIOUS
<1>3. ASSUME complete("sdk")
      PROVE  /\ told.sdk = "error" <=> ~agree(rows.sdk, own.sdk, 1)
             /\ told.sdk = "info" <=> agree(rows.sdk, own.sdk, 2)
  <2> DEFINE cmp == versionCompare(rows.sdk, own.sdk)
  <2>1. told.sdk = Level(cmp)
    BY <1>3 DEF onVersions
  <2>2. Complete(rows.sdk)
    BY <1>3 DEF Complete
  <2>3. cmp = IF Differ(rows.sdk[1], own.sdk[1]) THEN "MajorMismatch"
              ELSE IF Differ(rows.sdk[2], own.sdk[2]) THEN "MinorMismatch"
              ELSE IF Differ(rows.sdk[3], own.sdk[3]) THEN "PatchMismatch" ELSE "Identical"
    BY <2>2, FirstDifference
  <2> HIDE DEF cmp, told, agree
  <2>4. /\ told.sdk = "error" <=> Differ(rows.sdk[1], own.sdk[1])
        /\ told.sdk = "info" <=> ~Differ(rows.sdk[1], own.sdk[1]) /\ ~Differ(rows.sdk[2], own.sdk[2])
    BY <2>1, <2>3 DEF Level
  <2> QED
    BY <2>4, <1>2
<1>4. ASSUME complete("rpcServer"), "sdk" \in DOMAIN rows
      PROVE  told.server = "error"
               <=> ~agree(rows.rpcServer, own.rpcServer, IF own.rpcServer[1] = "0" THEN 2 ELSE 1)
  <2> DEFINE theirs == rows.rpcServer
             ours == own.rpcServer
             cmp == versionCompare(theirs, ours)
  <2>1. told.server = IF cmp = "MinorMismatch" /\ ours[1] = "0" THEN "error" ELSE Level(cmp)
    BY <1>4 DEF onVersions, serverLevel
  <2>2. Complete(theirs)
    BY <1>4 DEF Complete
  <2>3. cmp = IF Differ(theirs[1], ours[1]) THEN "MajorMismatch"
              ELSE IF Differ(theirs[2], ours[2]) THEN "MinorMismatch"
              ELSE IF Differ(theirs[3], ours[3]) THEN "PatchMismatch" ELSE "Identical"
    BY <2>2, FirstDifference
  <2> HIDE DEF cmp, told, agree, theirs, ours
  <2>4. told.server = "error"
          <=> Differ(theirs[1], ours[1]) \/ (ours[1] = "0" /\ Differ(theirs[2], ours[2]))
    BY <2>1, <2>3 DEF Level
  <2>5. told.server = "error" <=> ~agree(theirs, ours, IF ours[1] = "0" THEN 2 ELSE 1)
    BY <2>4, <1>2
  <2> QED
    BY <2>5 DEF theirs, ours
<1> HIDE DEF told
<1> QED
  BY <1>1, <1>3, <1>4 DEF VersionsRanked, told

\* So are all mismatches of the machine.
THEOREM MachineMismatchesRanked == Spec => []VersionMismatchesRanked
<1>1. Init => VersionMismatchesRanked
  <2> SUFFICES ASSUME Init, kind = "versions" PROVE VersionsRanked(input.rows, input.own)
    BY DEF VersionMismatchesRanked
  <2>1. input \in [rows : Published, own : OwnVersions]
    BY KindsListed DEF Init
  <2>2. ASSUME NEW v \in Versions PROVE IsVersion(v)
    <3>1. CASE v \in {"0", "1", "NaN"} \X {"0", "1"} \X {"0", "1"}
      <4>1. PICK a \in {"0", "1", "NaN"}, b \in {"0", "1"}, c \in {"0", "1"} : v = <<a, b, c>>
        BY <3>1
      <4> QED
        BY <4>1, PartsComplete DEF Complete
    <3>2. CASE v = <<"1", "0">>
      BY <3>2, PartsComplete
    <3> QED
      BY <3>1, <3>2 DEF Versions
  <2>3. DOMAIN input.rows \subseteq {"sdk", "rpcServer"} /\ \A k \in DOMAIN input.rows : input.rows[k] \in Versions
    BY <2>1 DEF Published, OptionalKeys
  <2>4. Complete(input.own.sdk) /\ Complete(input.own.rpcServer)
    <3>1. /\ input.own.sdk \in {<<"0", "1", "0">>, <<"1", "0", "1">>}
          /\ input.own.rpcServer \in {<<"0", "1", "1">>, <<"1", "1", "0">>}
      BY <2>1 DEF OwnVersions
    <3>2. /\ Complete(<<"0", "1", "0">>) /\ Complete(<<"1", "0", "1">>)
          /\ Complete(<<"0", "1", "1">>) /\ Complete(<<"1", "1", "0">>)
      BY PartsComplete
    <3> QED
      BY <3>1, <3>2, Zenon
  <2> QED
    BY <2>2, <2>3, <2>4, MismatchesRanked
<1>2. VersionMismatchesRanked /\ [Next]_<<kind, input>> => VersionMismatchesRanked'
  BY DEF VersionMismatchesRanked, Next
<1> QED
  BY <1>1, <1>2, PTL DEF Spec

-----------------------------------------------------------------------------
(* Minimal elements *)

\* A transitive relation without loops has a minimal element in every finite
\* set: one with the fewest elements below it.
LEMMA MinimalExists ==
    ASSUME NEW S, IsFiniteSet(S), S # {}, NEW R,
           \A s \in S : <<s, s>> \notin R,
           \A s, t, u \in S : <<s, t>> \in R /\ <<t, u>> \in R => <<s, u>> \in R
    PROVE  \E m \in S : \A t \in S : <<t, m>> \notin R
<1> DEFINE below(s) == {t \in S : <<t, s>> \in R}
           belows == {below(s) : s \in S}
<1>1. IsWellFoundedOn(StrictSubsetOrdering(S), FiniteSubsetsOf(S))
  BY FS_StrictSubsetOrderingWellFounded
<1>2. FiniteSubsetsOf(S) = SUBSET S
  BY FS_FiniteSubsetsOfFinite
<1>3. belows \subseteq FiniteSubsetsOf(S) /\ belows # {}
  <2>1. \A s \in S : below(s) \subseteq S
    OBVIOUS
  <2> HIDE DEF below
  <2>2. belows \subseteq SUBSET S
    BY <2>1
  <2>3. belows # {}
    <3>1. PICK s \in S : TRUE
      OBVIOUS
    <3> QED
      BY <3>1
  <2> QED
    BY <1>2, <2>2, <2>3
<1>4. PICK low \in belows : \A b \in belows : <<b, low>> \notin StrictSubsetOrdering(S)
  BY <1>1, <1>3, WFMin
<1>5. PICK m \in S : low = below(m)
  BY <1>4
<1>6. ASSUME NEW t \in S, <<t, m>> \in R PROVE FALSE
  <2>1. below(t) \subseteq low /\ t \in low /\ t \notin below(t)
    BY <1>5, <1>6
  <2>2. <<below(t), low>> \in StrictSubsetOrdering(S)
    BY <2>1, <1>5 DEF StrictSubsetOrdering
  <2> QED
    BY <2>2, <1>4
<1> QED
  BY <1>6

\* A set of numbers has a least element.
LEMMA LeastNumber ==
    ASSUME NEW T, T \subseteq Nat, T # {}
    PROVE  \E m \in T : \A t \in T : m <= t
<1> DEFINE upTo == {0..t : t \in T}
<1>1. IsWellFoundedOn(StrictSubsetOrdering(Nat), FiniteSubsetsOf(Nat))
  BY FS_StrictSubsetOrderingWellFounded
<1>2. ASSUME NEW t \in T PROVE 0..t \in FiniteSubsetsOf(Nat)
  <2>1. IsFiniteSet(0..t)
    BY FS_Interval
  <2> QED
    BY <2>1 DEF FiniteSubsetsOf
<1>3. upTo \subseteq FiniteSubsetsOf(Nat) /\ upTo # {}
  BY <1>2
<1>4. PICK low \in upTo : \A u \in upTo : <<u, low>> \notin StrictSubsetOrdering(Nat)
  BY <1>1, <1>3, WFMin
<1>5. PICK m \in T : low = 0..m
  BY <1>4
<1>6. ASSUME NEW t \in T, t < m PROVE FALSE
  <2>1. 0..t \subseteq 0..m /\ 0..t # 0..m
    <3>1. m \in 0..m /\ m \notin 0..t
      BY <1>6
    <3> QED
      BY <1>6, <3>1
  <2>2. <<0..t, low>> \in StrictSubsetOrdering(Nat)
    BY <2>1, <1>5 DEF StrictSubsetOrdering
  <2> QED
    BY <2>2, <1>4
<1> QED
  BY <1>6

\* The sum of a history of latencies is a number, and 0 if all of them are.
LEMMA TotalOfNumbers ==
    ASSUME NEW lats \in Seq(Nat)
    PROVE  /\ Total(lats) \in Nat
           /\ Total(lats) > 0 => \E i \in DOMAIN lats : lats[i] > 0
<1> DEFINE n == Len(lats)
           rec(acc, k) == acc = [i \in 0..k |-> IF i = 0 THEN 0 ELSE acc[i - 1] + lats[i]]
<1>1. n \in Nat /\ DOMAIN lats = 1..n /\ \A i \in 1..n : lats[i] \in Nat
  OBVIOUS
<1>2. \E acc : rec(acc, n)
  <2> DEFINE bad == {k \in 0..n : ~ \E acc : rec(acc, k)}
  <2>1. ASSUME bad # {} PROVE FALSE
    <3>0. bad \subseteq Nat
      BY <1>1
    <3>1. PICK k \in bad : \A j \in bad : k <= j
      <4> HIDE DEF bad
      <4> QED
        BY <3>0, <2>1, LeastNumber
    <3>2. k # 0
      <4> DEFINE zero == [i \in 0..0 |-> 0]
      <4>1. rec(zero, 0)
        OBVIOUS
      <4> QED
        BY <4>1, <3>1
    <3>3. k \in 1..n /\ k - 1 \in 0..n /\ k - 1 \notin bad
      <4>1. k \in 1..n
        BY <1>1, <3>2
      <4> HIDE DEF bad, n
      <4> QED
        BY <1>1, <3>1, <4>1
    <3>4. PICK acc : rec(acc, k - 1)
      BY <3>3
    <3> DEFINE next == [i \in 0..k |-> IF i = k THEN acc[k - 1] + lats[k] ELSE acc[i]]
    <3>5. rec(next, k)
      <4>1. ASSUME NEW i \in 0..k
            PROVE  next[i] = IF i = 0 THEN 0 ELSE next[i - 1] + lats[i]
        <5> HIDE DEF n, bad
        <5>1. CASE i = k
          BY <1>1, <3>3, <5>1
        <5>2. CASE i # k
          <6>1. i \in 0..(k - 1) /\ next[i] = acc[i] /\ (i # 0 => next[i - 1] = acc[i - 1])
            BY <1>1, <3>3, <5>2
          <6>2. acc[i] = IF i = 0 THEN 0 ELSE acc[i - 1] + lats[i]
            BY <3>4, <6>1
          <6> QED
            BY <6>1, <6>2
        <5> QED
          BY <5>1, <5>2
      <4> QED
        BY <4>1
    <3> QED
      BY <3>5, <3>1
  <2> QED
    BY <2>1, <1>1
<1> DEFINE acc == CHOOSE acc : rec(acc, n)
<1>3. rec(acc, n)
  BY <1>2
<1>4. Total(lats) = acc[n]
  BY DEF Total
<1> HIDE DEF acc
<1>5. \A i \in 0..n : acc[i] \in Nat /\ (acc[i] > 0 => \E j \in DOMAIN lats : lats[j] > 0)
  <2> DEFINE bad == {i \in 0..n : ~(acc[i] \in Nat /\ (acc[i] > 0 => \E j \in DOMAIN lats : lats[j] > 0))}
  <2>1. ASSUME bad # {} PROVE FALSE
    <3>0. bad \subseteq Nat
      BY <1>1
    <3>1. PICK k \in bad : \A j \in bad : k <= j
      <4> HIDE DEF bad
      <4> QED
        BY <3>0, <2>1, LeastNumber
    <3>2. k # 0
      BY <1>3, <1>1, <3>1
    <3>3. k \in 1..n /\ k - 1 \in 0..n /\ k - 1 \notin bad
      <4>1. k \in 1..n
        BY <1>1, <3>2
      <4> HIDE DEF bad, n
      <4> QED
        BY <1>1, <3>1, <4>1
    <3>4. acc[k] = acc[k - 1] + lats[k] /\ k \in DOMAIN lats /\ lats[k] \in Nat
      <4>1. acc[k] = IF k = 0 THEN 0 ELSE acc[k - 1] + lats[k]
        BY <1>3
      <4> QED
        BY <1>1, <3>2, <3>3, <4>1
    <3> QED
      BY <3>3, <3>4, <3>1
  <2> QED
    BY <2>1
<1> QED
  BY <1>1, <1>4, <1>5

-----------------------------------------------------------------------------
(* The least of a number of candidates *)

\* Some candidate has the smallest number.
LEMMA SmallestExists ==
    ASSUME NEW S, S # {}, NEW f, \A s \in S : f[s] \in Nat
    PROVE  \E m \in S : \A t \in S : ~(f[t] < f[m])
<1>1. {f[s] : s \in S} \subseteq Nat /\ {f[s] : s \in S} # {}
  OBVIOUS
<1>2. PICK n \in {f[s] : s \in S} : \A t \in {f[s] : s \in S} : n <= t
  BY <1>1, LeastNumber
<1>3. PICK m \in S : n = f[m]
  BY <1>2
<1>4. \A t \in S : f[m] <= f[t]
  BY <1>2, <1>3
<1>5. \A t \in S : ~(f[t] < f[m])
  BY <1>4
<1> QED
  BY <1>5

\* Averages of latencies: only these are compared.
IsAverage(a) == a.sum \in Nat /\ a.count \in Nat /\ (a.sum > 0 => a.count > 0)

\* Comparing averages is transitive.
LEMMA SmallerTransitive ==
    ASSUME NEW a, NEW b, NEW c, IsAverage(a), IsAverage(b), IsAverage(c),
           Positive(a), Positive(b), Positive(c),
           Smaller(a, b), Smaller(b, c)
    PROVE  Smaller(a, c)
<1>1. ASSUME NEW p \in Nat, NEW q \in Nat, NEW r \in Nat, NEW s \in Nat, NEW t \in Nat, NEW u \in Nat,
             q > 0, s > 0, u > 0, p * s < r * q, r * u < t * s
      PROVE  p * u < t * q
  <2>1. (p * s) * u < (r * q) * u
    BY <1>1
  <2>2. (r * u) * q < (t * s) * q
    BY <1>1
  <2>3. (p * u) * s < (t * q) * s
    BY <2>1, <2>2
  <2> QED
    BY <1>1, <2>3
<1> QED
  BY <1>1 DEF IsAverage, Positive, Smaller

\* Of finitely many candidates with latencies one has the smallest average.
LEMMA SmallestAverageExists ==
    ASSUME NEW S, IsFiniteSet(S), S # {}, NEW f,
           \A s \in S : IsAverage(f[s]) /\ Positive(f[s])
    PROVE  \E m \in S : \A t \in S : ~Smaller(f[t], f[m])
<1> DEFINE R == {p \in S \X S : Smaller(f[p[1]], f[p[2]])}
<1>1. \A s, t \in S : <<s, t>> \in R <=> Smaller(f[s], f[t])
  OBVIOUS
<1>2. \A s \in S : <<s, s>> \notin R
  BY <1>1 DEF Smaller, IsAverage
<1>3. \A s, t, u \in S : <<s, t>> \in R /\ <<t, u>> \in R => <<s, u>> \in R
  BY <1>1, SmallerTransitive
<1> HIDE DEF R
<1>4. PICK m \in S : \A t \in S : <<t, m>> \notin R
  BY <1>2, <1>3, MinimalExists
<1> QED
  BY <1>1, <1>4

-----------------------------------------------------------------------------
(* Candidates *)

\* What the selection reads of a route and of an entry.
IsRoute(r) == /\ r.ongoing \in Nat /\ r.failures \in Nat /\ r.infoLatMs \in Nat
              /\ IsAverage(r.avgLats)
Fields == {"entry", "exit", "relays", "ongoing", "failures", "avgLats", "infoFail", "version", "infoLatMs"}
IsEntry(e) == e.pingDuration \in Nat /\ e.segOngoing \in Nat /\ e.segFailures \in Nat /\ e.msgsFails \in Nat

\* Among routes there are always some with the fewest failures, and some with
\* the fewest ongoing requests.
LEMMA LeastRoutesExist ==
    ASSUME NEW S, S # {}, \A r \in S : IsRoute(r)
    PROVE  leastReqErrors(S) # {} /\ leastReqOngoing(S) # {}
<1>1. \E m \in S : \A t \in S : ~(t.failures < m.failures)
  <2> DEFINE f == [r \in S |-> r.failures]
  <2>1. \A r \in S : f[r] \in Nat
    BY DEF IsRoute
  <2>2. PICK m \in S : \A t \in S : ~(f[t] < f[m])
    <3> HIDE DEF f
    <3> QED
      BY <2>1, SmallestExists
  <2> QED
    BY <2>2
<1>2. \E m \in S : \A t \in S : ~(t.ongoing < m.ongoing)
  <2> DEFINE f == [r \in S |-> r.ongoing]
  <2>1. \A r \in S : f[r] \in Nat
    BY DEF IsRoute
  <2>2. PICK m \in S : \A t \in S : ~(f[t] < f[m])
    <3> HIDE DEF f
    <3> QED
      BY <2>1, SmallestExists
  <2> QED
    BY <2>2
<1> QED
  BY <1>1, <1>2 DEF leastReqErrors, leastReqOngoing, Best

\* The fastest routes exist if any latency is known, of a request or of the
\* information.
LEMMA FastestRoutesExist ==
    ASSUME NEW S, IsFiniteSet(S), \A r \in S : IsRoute(r)
    PROVE  /\ bestReqLatencies(S) = {} => \A r \in S : ~Positive(r.avgLats)
           /\ bestInfoLatencies(S) = {} => \A r \in S : ~(r.infoLatMs > 0)
<1>1. ASSUME NEW s \in S, Positive(s.avgLats) PROVE bestReqLatencies(S) # {}
  <2> DEFINE T == {r \in S : Positive(r.avgLats)}
             f == [r \in T |-> r.avgLats]
  <2>1. IsFiniteSet(T) /\ T # {}
    <3>1. T \subseteq S /\ s \in T
      BY <1>1
    <3> QED
      BY <3>1, FS_Subset
  <2>2. \A r \in T : IsAverage(f[r]) /\ Positive(f[r])
    BY DEF IsRoute
  <2>3. PICK m \in T : \A t \in T : ~Smaller(f[t], f[m])
    <3> HIDE DEF f, T
    <3> QED
      BY <2>1, <2>2, SmallestAverageExists
  <2>4. \A t \in T : ~Smaller(t.avgLats, m.avgLats)
    BY <2>3
  <2> QED
    BY <2>3, <2>4 DEF bestReqLatencies, Best
<1>2. ASSUME NEW s \in S, s.infoLatMs > 0 PROVE bestInfoLatencies(S) # {}
  <2> DEFINE T == {r \in S : r.infoLatMs > 0}
             f == [r \in T |-> r.infoLatMs]
  <2>1. s \in T
    BY <1>2
  <2>2. \A r \in T : f[r] \in Nat
    BY DEF IsRoute
  <2>3. PICK m \in T : \A t \in T : ~(f[t] < f[m])
    <3> HIDE DEF f, T
    <3> QED
      BY <2>1, <2>2, SmallestExists
  <2>4. \A t \in T : ~(t.infoLatMs < m.infoLatMs)
    BY <2>3
  <2> QED
    BY <2>3, <2>4 DEF bestInfoLatencies, Best
<1> QED
  BY <1>1, <1>2

\* A route that is among the candidates with the fewest failures and then the
\* fewest ongoing requests leaves none with fewer of either.
LEMMA LeastRoutes ==
    ASSUME NEW S, \A r \in S : IsRoute(r),
           NEW s \in leastReqOngoing(leastReqErrors(S)), NEW r \in S
    PROVE  /\ s \in S
           /\ ~(r.failures < s.failures)
           /\ r.failures = s.failures => ~(r.ongoing < s.ongoing)
           /\ r.failures = s.failures /\ r.ongoing = s.ongoing
                => r \in leastReqOngoing(leastReqErrors(S))
<1> DEFINE least == leastReqErrors(S)
<1>1. least = {a \in S : \A t \in S : ~(t.failures < a.failures)}
  BY DEF leastReqErrors, Best
<1>2. leastReqOngoing(least) = {a \in least : \A t \in least : ~(t.ongoing < a.ongoing)}
  BY DEF leastReqOngoing, Best
<1> HIDE DEF least
<1>3. s \in least /\ (\A t \in least : ~(t.ongoing < s.ongoing)) /\ s \in S
  BY <1>1, <1>2 DEF least
<1>4. \A t \in S : ~(t.failures < s.failures)
  BY <1>1, <1>3
<1>5. ASSUME r.failures = s.failures PROVE r \in least
  BY <1>1, <1>4, <1>5
<1>6. ASSUME r.failures = s.failures, r.ongoing = s.ongoing
      PROVE  r \in leastReqOngoing(least)
  BY <1>2, <1>3, <1>5, <1>6
<1> QED
  BY <1>3, <1>4, <1>5, <1>6 DEF least

\* The first list counts, unless it is empty.
LEMMA FirstOfTwo ==
    ASSUME NEW a, NEW b
    PROVE  FirstOf(<<a, b>>) = IF a # {} THEN a ELSE b
<1> DEFINE lists == <<a, b>>
           found == {i \in DOMAIN lists : lists[i] # {}}
<1>1. DOMAIN lists = {1, 2} /\ lists[1] = a /\ lists[2] = b
  OBVIOUS
<1>2. FirstOf(lists) = IF found = {} THEN {} ELSE lists[CHOOSE i \in found : \A j \in found : i <= j]
  BY DEF FirstOf
<1>3. CASE a # {}
  <2>1. (CHOOSE i \in found : \A j \in found : i <= j) = 1
    BY <1>1, <1>3
  <2>2. 1 \in found
    BY <1>1, <1>3
  <2> HIDE DEF found, lists
  <2> QED
    BY <1>1, <1>2, <1>3, <2>1, <2>2 DEF lists
<1>4. CASE a = {} /\ b # {}
  <2>1. found = {2}
    BY <1>1, <1>4
  <2>2. (CHOOSE i \in found : \A j \in found : i <= j) = 2
    BY <2>1
  <2> HIDE DEF found, lists
  <2> QED
    BY <1>1, <1>2, <1>4, <2>1, <2>2 DEF lists
<1>5. CASE a = {} /\ b = {}
  <2>1. found = {}
    BY <1>1, <1>5
  <2> QED
    BY <1>2, <2>1, <1>5
<1> QED
  BY <1>3, <1>4, <1>5

\* Of four lists the last is reached if the others are empty, and nothing else
\* is chosen from.
LEMMA FirstOfFour ==
    ASSUME NEW a, NEW b, NEW c, NEW d, d # {}, NEW S, a \cup b \cup c \cup d \subseteq S
    PROVE  FirstOf(<<a, b, c, d>>) # {} /\ FirstOf(<<a, b, c, d>>) \subseteq S
<1> DEFINE lists == <<a, b, c, d>>
           found == {i \in DOMAIN lists : lists[i] # {}}
           first == CHOOSE i \in found : \A j \in found : i <= j
<1>1. FirstOf(lists) = IF found = {} THEN {} ELSE lists[first]
  BY DEF FirstOf
<1>2. found \subseteq Nat /\ found # {}
  <2>1. DOMAIN lists = 1..4 /\ lists[4] = d
    OBVIOUS
  <2> QED
    BY <2>1
<1>3. first \in found
  <2> HIDE DEF found
  <2>1. \E i \in found : \A j \in found : i <= j
    BY <1>2, LeastNumber
  <2> QED
    BY <2>1
<1>4. \A i \in found : lists[i] # {} /\ lists[i] \subseteq S
  OBVIOUS
<1> HIDE DEF lists, found, first
<1>5. FirstOf(lists) # {} /\ FirstOf(lists) \subseteq S
  BY <1>1, <1>2, <1>3, <1>4
<1> QED
  BY <1>5 DEF lists

\* If every entry answered the ping, some entry may be selected.
LEMMA EntriesExist ==
    ASSUME NEW S, S # {}, \A e \in S : IsEntry(e) /\ e.pingDuration > 0
    PROVE  matchEntries(S) # {} /\ matchEntries(S) \subseteq S
<1> DEFINE errors == leastSegErrors(S)
           ongoing == leastSegOngoing(errors)
           fewest == leastMsgsErrors(ongoing)
<1>1. errors # {} /\ errors \subseteq S
  <2> DEFINE f == [e \in S |-> e.segFailures]
  <2>1. \A e \in S : f[e] \in Nat
    BY DEF IsEntry
  <2>2. PICK m \in S : \A t \in S : ~(f[t] < f[m])
    <3> HIDE DEF f
    <3> QED
      BY <2>1, SmallestExists
  <2> QED
    BY <2>2 DEF leastSegErrors, Best
<1>2. ongoing # {} /\ ongoing \subseteq errors
  <2> HIDE DEF errors
  <2> DEFINE f == [e \in errors |-> e.segOngoing]
  <2>1. \A e \in errors : f[e] \in Nat
    BY <1>1 DEF IsEntry
  <2>2. PICK m \in errors : \A t \in errors : ~(f[t] < f[m])
    <3> HIDE DEF f
    <3> QED
      BY <1>1, <2>1, SmallestExists
  <2> QED
    BY <2>2 DEF leastSegOngoing, Best
<1>3. fewest # {} /\ fewest \subseteq ongoing
  <2> HIDE DEF ongoing
  <2> DEFINE f == [e \in ongoing |-> e.msgsFails]
  <2>1. \A e \in ongoing : f[e] \in Nat
    BY <1>1, <1>2 DEF IsEntry
  <2>2. PICK m \in ongoing : \A t \in ongoing : ~(f[t] < f[m])
    <3> HIDE DEF f
    <3> QED
      BY <1>2, <2>1, SmallestExists
  <2> QED
    BY <2>2 DEF leastMsgsErrors, Best
<1>4. quickestPing(fewest) # {}
  <2> HIDE DEF fewest
  <2> DEFINE f == [e \in fewest |-> e.pingDuration]
  <2>1. fewest \subseteq S
    BY <1>1, <1>2, <1>3
  <2>2. \A e \in fewest : f[e] \in Nat
    BY <2>1 DEF IsEntry
  <2>3. PICK m \in fewest : \A t \in fewest : ~(f[t] < f[m])
    <3> HIDE DEF f
    <3> QED
      BY <1>3, <2>2, SmallestExists
  <2>4. \A t \in fewest : ~(t.pingDuration < m.pingDuration)
    BY <2>3
  <2> QED
    BY <2>1, <2>4 DEF quickestPing, Best
<1> DEFINE alone == IF Cardinality(fewest) = 1 THEN fewest ELSE {}
           byLats == bestSegLatencies(ongoing)
           byMsgs == bestMsgsLatencies(fewest)
           byPing == quickestPing(fewest)
<1>5. byLats \cup alone \cup byMsgs \cup byPing \subseteq ongoing
  <2> HIDE DEF ongoing, fewest
  <2> QED
    BY <1>3 DEF bestSegLatencies, bestMsgsLatencies, quickestPing, Best
<1>6. matchEntries(S) = IF Cardinality(ongoing) = 1 THEN ongoing
                        ELSE FirstOf(<<byLats, alone, byMsgs, byPing>>)
  BY DEF matchEntries
<1> HIDE DEF errors, ongoing, fewest, alone, byLats, byMsgs
<1>7. byPing # {}
  BY <1>4
<1> HIDE DEF byPing
<1>8. /\ FirstOf(<<byLats, alone, byMsgs, byPing>>) # {}
      /\ FirstOf(<<byLats, alone, byMsgs, byPing>>) \subseteq ongoing
  BY <1>5, <1>7, FirstOfFour
<1> QED
  BY <1>1, <1>2, <1>6, <1>8

\* Only one element.
LEMMA OnlyElement ==
    ASSUME NEW S, Cardinality(S) = 1, IsFiniteSet(S), NEW s \in S, NEW t \in S
    PROVE  s = t
<1>1. IsFiniteSet(S \ {s}) /\ Cardinality(S \ {s}) = Cardinality(S) - 1
  BY FS_RemoveElement
<1>2. S \ {s} = {}
  BY <1>1, FS_EmptySet
<1> QED
  BY <1>2

-----------------------------------------------------------------------------
(* The selected route is the best *)

\* What is measured of the exits and entries of node pairs.
LEMMA AveragesMeasured ==
    ASSUME NEW lats \in Seq(Nat)
    PROVE  /\ Cardinality(Failures(lats)) \in Nat
           /\ IsAverage(average(lats, Successes(lats)))
<1>1. IsFiniteSet(DOMAIN lats)
  BY FS_Interval
<1>2. /\ IsFiniteSet(Successes(lats)) /\ Cardinality(Successes(lats)) \in Nat
      /\ Cardinality(Failures(lats)) \in Nat
  <2>1. Successes(lats) \subseteq DOMAIN lats /\ Failures(lats) \subseteq DOMAIN lats
    BY DEF Successes, Failures
  <2> QED
    BY <1>1, <2>1, FS_Subset, FS_CardinalityType
<1>3. ASSUME Total(lats) > 0 PROVE Cardinality(Successes(lats)) > 0
  <2>1. Successes(lats) # {}
    BY <1>3, TotalOfNumbers DEF Successes
  <2> QED
    BY <1>2, <2>1, FS_EmptySet
<1> QED
  BY <1>2, <1>3, TotalOfNumbers DEF average, IsAverage

\* Every route is measured, and none has the entry or exit of another node pair.
LEMMA RoutesMeasured ==
    ASSUME NEW nodePairs, Measured(nodePairs), NEW manual \in BOOLEAN,
           NEW r \in createRoutePerfs(nodePairs, manual)
    PROVE  /\ IsRoute(r) /\ r.entry \in DOMAIN nodePairs
           /\ r = [f \in Fields |-> r[f]]
<1> DEFINE relays(e, x) == IF manual THEN determineRelays(nodePairs[e], e, x) ELSE [req |-> {}, resp |-> {}]
           own(e, x) == [entry |-> e, exit |-> x, relays |-> relays(e, x)]
           perf(e, x) == exitPerf(nodePairs[e].exits[x])
<1>0. PICK e \in DOMAIN nodePairs : \E x \in DOMAIN nodePairs[e].exits : r = Spread(own(e, x), perf(e, x))
  BY DEF createRoutePerfs
<1>1. PICK x \in DOMAIN nodePairs[e].exits : r = Spread(own(e, x), perf(e, x))
  BY <1>0
<1>2. DOMAIN own(e, x) = {"entry", "exit", "relays"} /\ own(e, x).entry = e
  OBVIOUS
<1>3. LET xd == nodePairs[e].exits[x]
      IN  xd.ongoing \in Nat /\ xd.infoLatMs \in Nat /\ xd.history \in Seq(Nat)
  BY DEF Measured
<1>4. /\ DOMAIN perf(e, x) = {"ongoing", "failures", "avgLats", "infoFail", "version", "infoLatMs"}
      /\ IsRoute(perf(e, x))
  BY <1>3, AveragesMeasured DEF exitPerf, IsRoute
<1> HIDE DEF own, perf
<1>5. /\ r = [f \in DOMAIN own(e, x) \cup DOMAIN perf(e, x) |->
                IF f \in DOMAIN own(e, x) THEN own(e, x)[f] ELSE perf(e, x)[f]]
  BY <1>1 DEF Spread
<1>6. /\ r.ongoing = perf(e, x).ongoing /\ r.failures = perf(e, x).failures
      /\ r.avgLats = perf(e, x).avgLats /\ r.infoLatMs = perf(e, x).infoLatMs
      /\ r.entry = e
  BY <1>2, <1>4, <1>5
<1>7. r = [f \in Fields |-> r[f]]
  <2>1. DOMAIN own(e, x) \cup DOMAIN perf(e, x) = Fields
    BY <1>2, <1>4 DEF Fields
  <2> QED
    BY <2>1, <1>5
<1> QED
  BY <1>4, <1>6, <1>7 DEF IsRoute

\* There are finitely many routes.
LEMMA RoutesFinite ==
    ASSUME NEW nodePairs, IsFiniteSet(DOMAIN nodePairs),
           \A e \in DOMAIN nodePairs : IsFiniteSet(DOMAIN nodePairs[e].exits),
           NEW manual \in BOOLEAN
    PROVE  IsFiniteSet(createRoutePerfs(nodePairs, manual))
<1> DEFINE relays(e, x) == IF manual THEN determineRelays(nodePairs[e], e, x) ELSE [req |-> {}, resp |-> {}]
           route(e, x) == Spread([entry |-> e, exit |-> x, relays |-> relays(e, x)],
                                 exitPerf(nodePairs[e].exits[x]))
           through(e) == {route(e, x) : x \in DOMAIN nodePairs[e].exits}
           all == UNION {through(e) : e \in DOMAIN nodePairs}
<1> HIDE DEF route
<1>1. ASSUME NEW e \in DOMAIN nodePairs PROVE IsFiniteSet(through(e))
  <2> DEFINE f == [x \in DOMAIN nodePairs[e].exits |-> route(e, x)]
  <2>1. f \in Surjection(DOMAIN nodePairs[e].exits, through(e))
    BY DEF Surjection
  <2> QED
    BY <2>1, FS_Surjection
<1>2. IsFiniteSet({through(e) : e \in DOMAIN nodePairs})
  <2> HIDE DEF through
  <2> DEFINE f == [e \in DOMAIN nodePairs |-> through(e)]
  <2>1. f \in Surjection(DOMAIN nodePairs, {through(e) : e \in DOMAIN nodePairs})
    BY DEF Surjection
  <2> QED
    BY <2>1, FS_Surjection
<1>3. IsFiniteSet(all)
  <2>1. \A T \in {through(e) : e \in DOMAIN nodePairs} : IsFiniteSet(T)
    BY <1>1
  <2> HIDE DEF through
  <2> QED
    BY <1>2, <2>1, FS_UNION
<1>4. createRoutePerfs(nodePairs, manual) \subseteq all
  BY DEF createRoutePerfs, route
<1> QED
  BY <1>3, <1>4, FS_Subset

\* So are the entries of routes, and each belongs to a route.
LEMMA EntriesMeasured ==
    ASSUME NEW nodePairs, Measured(nodePairs), NEW S,
           \A r \in S : r.entry \in DOMAIN nodePairs,
           NEW p \in createEntryPerfs(nodePairs, S)
    PROVE  /\ IsEntry(p) /\ p.pingDuration = nodePairs[p.entry].data.pingDuration
           /\ \E r \in S : r.entry = p.entry
<1>1. PICK r \in S : p = Spread([entry |-> r.entry], entryPerf(nodePairs[r.entry].data))
  BY DEF createEntryPerfs
<1> DEFINE e == r.entry
           ed == nodePairs[e].data
           own == [entry |-> e]
           perf == entryPerf(ed)
<1>2. /\ ed.pingDuration \in Nat /\ ed.segOngoing \in Nat /\ ed.msgsErrors \in Nat
      /\ ed.segHistory \in Seq(Nat)
  BY DEF Measured
<1>3. DOMAIN own = {"entry"} /\ own.entry = e
  OBVIOUS
<1>4. /\ DOMAIN perf = {"pingDuration", "segOngoing", "segFailures", "segAvgLats", "msgsAvgLats", "msgsFails"}
      /\ IsEntry(perf) /\ perf.pingDuration = ed.pingDuration
  BY <1>2, AveragesMeasured DEF entryPerf, IsEntry
<1> HIDE DEF own, perf
<1>5. p = [f \in DOMAIN own \cup DOMAIN perf |-> IF f \in DOMAIN own THEN own[f] ELSE perf[f]]
  BY <1>1 DEF Spread, own, perf
<1>6. /\ p.pingDuration = perf.pingDuration /\ p.segOngoing = perf.segOngoing
      /\ p.segFailures = perf.segFailures /\ p.msgsFails = perf.msgsFails
      /\ p.entry = e
  BY <1>3, <1>4, <1>5
<1> QED
  BY <1>4, <1>6 DEF IsEntry

\* A route through a selected entry is one of the routes, but for its relays.
LEMMA ThroughEntries ==
    ASSUME NEW entries, NEW S,
           \A r \in S : r = [f \in Fields |-> r[f]],
           NEW s \in throughEntries(entries, S)
    PROVE  \E r \in S : /\ r.entry = s.entry /\ r.exit = s.exit
                        /\ r.failures = s.failures /\ r.ongoing = s.ongoing
                        /\ r.avgLats = s.avgLats /\ r.infoLatMs = s.infoLatMs
                        /\ r.version = s.version /\ r.infoFail = s.infoFail
<1>1. PICK r \in S : s = [r EXCEPT !.relays = [req |-> {}, resp |-> {}]]
  BY DEF throughEntries
<1>2. \A f \in Fields \ {"relays"} : s[f] = r[f]
  BY <1>1
<1> QED
  BY <1>2 DEF Fields

\* Any route through one of the entries may be selected.
LEMMA RouteThroughEntry ==
    ASSUME NEW entries, NEW S, NEW p \in entries, NEW r \in S, r.entry = p.entry
    PROVE  throughEntries(entries, S) # {}
<1> DEFINE through == {s \in S : s.entry \in {e.entry : e \in entries}}
<1>1. r \in through
  OBVIOUS
<1>2. throughEntries(entries, S) = {[s EXCEPT !.relays = [req |-> {}, resp |-> {}]] : s \in through}
  BY DEF throughEntries
<1> HIDE DEF through
<1> QED
  BY <1>1, <1>2

\* What the selection promises of measured routes: of those that are usable
\* none is preferred to a selected one, and one is selected if the entries
\* answered the ping.
THEOREM BestIsSelected ==
    ASSUME NEW nodePairs, Measured(nodePairs), IsFiniteSet(DOMAIN nodePairs),
           \A e \in DOMAIN nodePairs : IsFiniteSet(DOMAIN nodePairs[e].exits),
           NEW manual \in BOOLEAN,
           NEW routes, routes \subseteq createRoutePerfs(nodePairs, manual)
    PROVE  SelectionIsBest(nodePairs, routes)
<1> DEFINE usable == {r \in routes : Usable(r)}
           matching == versionMatches(routes)
           answering == noInfoFails(matching)
           least == leastReqOngoing(leastReqErrors(answering))
           byLatency == bestReqLatencies(least)
           byInfo == bestInfoLatencies(least)
           byExits == IF Cardinality(least) = 1 THEN least ELSE FirstOf(<<byLatency, byInfo>>)
           entries == createEntryPerfs(nodePairs, least)
           byEntries == throughEntries(matchEntries(entries), least)
           selection == match(nodePairs, routes)
           suits(s) == /\ \E r \in routes : r.entry = s.entry /\ r.exit = s.exit
                       /\ \A r \in usable : ~Preferred(r, s) /\ (usable # {} => Usable(s))
           pinged == \A e \in DOMAIN nodePairs : nodePairs[e].data.pingDuration > 0
<1>1. /\ \A r \in routes : IsRoute(r) /\ r.entry \in DOMAIN nodePairs /\ r = [f \in Fields |-> r[f]]
      /\ IsFiniteSet(routes)
  <2>1. IsFiniteSet(createRoutePerfs(nodePairs, manual))
    BY RoutesFinite
  <2> QED
    BY <2>1, RoutesMeasured, FS_Subset
<1>2. usable = answering /\ matching \subseteq routes /\ answering \subseteq matching
  BY DEF Usable, versionMatches, noInfoFails
<1>3. ASSUME NEW r \in routes PROVE ~Preferred(r, r)
  BY <1>1 DEF Preferred, IsRoute
<1>4. least \subseteq answering /\ IsFiniteSet(least)
  <2>1. least \subseteq answering
    BY DEF leastReqOngoing, leastReqErrors, Best
  <2>2. least \subseteq routes
    BY <2>1, <1>2
  <2> QED
    BY <2>1, <2>2, <1>1, FS_Subset
<1> HIDE DEF usable, matching, answering, least
<1>5. ASSUME NEW s \in routes, usable \subseteq {s} PROVE suits(s)
  <2>1. ASSUME NEW r \in usable PROVE r = s
    BY <1>5
  <2>2. usable # {} => Usable(s)
    BY <2>1 DEF usable
  <2> QED
    BY <2>1, <2>2, <1>3
<1>6. ASSUME NEW s \in least, NEW r \in usable PROVE
        /\ s \in usable
        /\ Preferred(r, s) =>
             /\ r \in least
             /\ \/ Positive(r.avgLats) /\ (Positive(s.avgLats) => Smaller(r.avgLats, s.avgLats))
                \/ ~Positive(s.avgLats) /\ r.infoLatMs > 0 /\ (s.infoLatMs > 0 => r.infoLatMs < s.infoLatMs)
             /\ r # s
  <2>1. r \in answering /\ \A t \in answering : IsRoute(t)
    BY <1>1, <1>2, <1>6
  <2>2. /\ s \in answering
        /\ ~(r.failures < s.failures)
        /\ r.failures = s.failures => ~(r.ongoing < s.ongoing)
        /\ r.failures = s.failures /\ r.ongoing = s.ongoing => r \in least
    BY <2>1, LeastRoutes DEF least
  <2>3. Preferred(r, s) => r # s
    BY <1>2, <1>3, <2>2
  <2> QED
    BY <1>2, <2>2, <2>3 DEF Preferred
<1>7. ASSUME NEW s \in byExits PROVE s \in least /\ suits(s)
  <2>1. CASE Cardinality(least) = 1
    <3>1. s \in least
      BY <1>7, <2>1
    <3>2. ASSUME NEW r \in usable PROVE ~Preferred(r, s)
      <4>1. r \in least => r = s
        BY <1>4, <2>1, <3>1, OnlyElement
      <4> QED
        BY <1>6, <3>1, <4>1
    <3> QED
      BY <1>2, <1>4, <1>6, <3>1, <3>2 DEF usable
  <2>2. CASE Cardinality(least) # 1 /\ byLatency # {}
    <3>1. s \in byLatency
      BY <1>7, <2>2, FirstOfTwo
    <3>2. /\ s \in least /\ Positive(s.avgLats)
          /\ \A t \in least : Positive(t.avgLats) => ~Smaller(t.avgLats, s.avgLats)
      BY <3>1 DEF bestReqLatencies, Best
    <3>3. ASSUME NEW r \in usable PROVE ~Preferred(r, s)
      BY <1>6, <3>2
    <3> QED
      BY <1>2, <1>4, <1>6, <3>2, <3>3 DEF usable
  <2>3. CASE Cardinality(least) # 1 /\ byLatency = {}
    <3>1. s \in byInfo
      BY <1>7, <2>3, FirstOfTwo
    <3>2. /\ s \in least /\ s.infoLatMs > 0
          /\ \A t \in least : t.infoLatMs > 0 => ~(t.infoLatMs < s.infoLatMs)
      BY <3>1 DEF bestInfoLatencies, Best
    <3>3. \A t \in least : ~Positive(t.avgLats)
      <4>1. \A t \in least : IsRoute(t)
        BY <1>1, <1>2, <1>4
      <4> QED
        BY <1>4, <2>3, <4>1, FastestRoutesExist
    <3>4. ASSUME NEW r \in usable PROVE ~Preferred(r, s)
      BY <1>6, <3>2, <3>3
    <3> QED
      BY <1>2, <1>4, <1>6, <3>2, <3>4 DEF usable
  <2> QED
    BY <2>1, <2>2, <2>3
<1>8. ASSUME byExits = {}, NEW s \in byEntries PROVE suits(s)
  <2>1. PICK t \in least : /\ t.entry = s.entry /\ t.exit = s.exit
                           /\ t.failures = s.failures /\ t.ongoing = s.ongoing
                           /\ t.avgLats = s.avgLats /\ t.infoLatMs = s.infoLatMs
                           /\ t.version = s.version /\ t.infoFail = s.infoFail
    BY <1>1, <1>2, <1>4, <1>8, ThroughEntries
  <2>2. byLatency = {} /\ byInfo = {}
    BY <1>8, <2>1, FirstOfTwo
  <2>3. \A r \in least : ~Positive(r.avgLats) /\ ~(r.infoLatMs > 0)
    <3>1. \A r \in least : IsRoute(r)
      BY <1>1, <1>2, <1>4
    <3> QED
      BY <1>4, <2>2, <3>1, FastestRoutesExist
  <2>4. ASSUME NEW r \in usable PROVE ~Preferred(r, s)
    <3>1. ~Preferred(r, t)
      BY <1>6, <2>1, <2>3
    <3> QED
      BY <2>1, <3>1 DEF Preferred
  <2>5. Usable(s) /\ t \in routes
    BY <1>2, <1>4, <2>1 DEF usable, Usable
  <2> QED
    BY <2>1, <2>4, <2>5
<1>9. ASSUME answering # {}, byExits = {}, pinged PROVE byEntries # {}
  <2>1. least # {}
    <3>1. \A r \in answering : IsRoute(r)
      BY <1>1, <1>2
    <3>2. leastReqErrors(answering) # {} /\ leastReqErrors(answering) \subseteq answering
      BY <1>9, <3>1, LeastRoutesExist DEF leastReqErrors, Best
    <3> QED
      BY <3>1, <3>2, LeastRoutesExist DEF least
  <2>2. \A r \in least : r.entry \in DOMAIN nodePairs
    BY <1>1, <1>2, <1>4
  <2>3. ASSUME NEW p \in entries
        PROVE  IsEntry(p) /\ p.pingDuration > 0 /\ \E r \in least : r.entry = p.entry
    <3>1. IsEntry(p) /\ p.pingDuration = nodePairs[p.entry].data.pingDuration
          /\ \E r \in least : r.entry = p.entry
      BY <2>2, EntriesMeasured
    <3> QED
      BY <1>9, <2>2, <3>1
  <2>4. entries # {}
    BY <2>1 DEF createEntryPerfs
  <2> HIDE DEF entries
  <2>5. matchEntries(entries) # {} /\ matchEntries(entries) \subseteq entries
    BY <2>3, <2>4, EntriesExist
  <2>6. PICK p \in matchEntries(entries) : TRUE
    BY <2>5
  <2>7. PICK r \in least : r.entry = p.entry
    BY <2>3, <2>5, <2>6
  <2> QED
    BY <2>6, <2>7, RouteThroughEntry
<1>10. selection = IF routes = {} THEN Failed("no nodes")
                   ELSE IF Cardinality(routes) = 1 THEN Selected(routes)
                   ELSE IF matching = {} THEN Failed("no nodes matching required version")
                   ELSE IF Cardinality(matching) = 1 THEN Selected(matching)
                   ELSE IF answering = {} THEN Failed("TypeError")
                   ELSE IF byExits # {} THEN Selected(byExits)
                   ELSE IF byEntries # {} THEN Selected(byEntries)
                   ELSE Failed("insufficient data")
  BY DEF match, matching, answering, least
<1>11. IsFiniteSet(matching)
  BY <1>1, <1>2, FS_Subset
<1> HIDE DEF byExits, byEntries, selection, suits, pinged
<1>12. ASSUME NEW s \in selection.routes PROVE suits(s)
  <2>1. CASE routes = {}
    BY <1>10, <1>12, <2>1 DEF Failed
  <2>2. CASE routes # {} /\ Cardinality(routes) = 1
    <3>1. s \in routes
      BY <1>10, <1>12, <2>2 DEF Selected
    <3>2. usable \subseteq {s}
      BY <1>1, <1>2, <2>2, <3>1, OnlyElement
    <3> QED
      BY <1>5, <3>1, <3>2
  <2>3. CASE /\ routes # {} /\ Cardinality(routes) # 1
             /\ matching # {} /\ Cardinality(matching) = 1
    <3>1. s \in matching
      BY <1>10, <1>12, <2>3 DEF Selected
    <3>2. usable \subseteq {s}
      BY <1>2, <1>11, <2>3, <3>1, OnlyElement
    <3> QED
      BY <1>2, <1>5, <3>1, <3>2
  <2>4. CASE /\ routes # {} /\ Cardinality(routes) # 1
             /\ ~(matching # {} /\ Cardinality(matching) = 1)
    <3>1. s \in byExits \/ (byExits = {} /\ s \in byEntries)
      BY <1>10, <1>12, <2>4 DEF Selected, Failed
    <3> QED
      BY <1>7, <1>8, <3>1
  <2> QED
    BY <2>1, <2>2, <2>3, <2>4
<1>13. ASSUME usable # {}, pinged PROVE selection.result = "selected"
  <2>1. routes # {} /\ matching # {} /\ answering # {}
    BY <1>2, <1>13
  <2>2. byExits # {} \/ byEntries # {}
    BY <1>9, <1>13, <2>1
  <2>3. \E S : selection = Selected(S)
    BY <1>10, <2>1, <2>2
  <2> QED
    BY <2>3 DEF Selected
<1> QED
  BY <1>12, <1>13 DEF SelectionIsBest, selection, suits, usable, pinged

\* Whatever node pairs the machine starts with, their measurements are those
\* that the selection expects, and their relays are known.
LEMMA InputsMeasured ==
    ASSUME NodePairs
    PROVE  /\ Measured(input) /\ IsFiniteSet(DOMAIN input)
           /\ \A e \in DOMAIN input :
                /\ IsFiniteSet(DOMAIN input[e].exits)
                /\ (input[e].peers \cup input[e].relays) \subseteq Relays \cup {"xa"}
<1> DEFINE Data == ExitDatas \cup Untested \cup {NoData}
           Entry == EntryDatas \cup {Pinged}
<1>1. /\ DOMAIN input \subseteq {"ea", "eb"}
      /\ \A e \in DOMAIN input :
           /\ input[e].data \in Entry
           /\ input[e] = Pair(input[e].data, input[e].exits)
           /\ DOMAIN input[e].exits \subseteq {"xa", "xb"}
           /\ \A x \in DOMAIN input[e].exits : input[e].exits[x] \in Data
  <2> HIDE DEF Data, Entry
  <2>1. Pinged \in Entry /\ EntryDatas \subseteq Entry /\ NoData \in Data /\ ExitDatas \subseteq Data /\ Untested \subseteq Data
    BY DEF Data, Entry
  <2>2. ASSUME NEW d, NEW xs PROVE Pair(d, xs).data = d /\ Pair(d, xs).exits = xs
    BY DEF Pair
  <2>3. CASE \E a, b \in ExitDatas : input = [ea |-> Pair(Pinged, [xa |-> a]), eb |-> Pair(Pinged, [xa |-> b])]
    <3>1. PICK a, b \in ExitDatas : input = [ea |-> Pair(Pinged, [xa |-> a]), eb |-> Pair(Pinged, [xa |-> b])]
      BY <2>3
    <3> QED
      BY <2>1, <2>2, <3>1
  <2>4. CASE \E a, b \in ExitDatas : input = [ea |-> Pair(Pinged, [xa |-> a, xb |-> b])]
    <3>1. PICK a, b \in ExitDatas : input = [ea |-> Pair(Pinged, [xa |-> a, xb |-> b])]
      BY <2>4
    <3> QED
      BY <2>1, <2>2, <3>1
  <2>5. CASE \E a, b, c \in Untested : input = [ea |-> Pair(Pinged, [xa |-> a, xb |-> b]), eb |-> Pair(Pinged, [xb |-> c])]
    <3>1. PICK a, b, c \in Untested : input = [ea |-> Pair(Pinged, [xa |-> a, xb |-> b]), eb |-> Pair(Pinged, [xb |-> c])]
      BY <2>5
    <3> QED
      BY <2>1, <2>2, <3>1
  <2>6. CASE \E d, f \in EntryDatas : input = [ea |-> Pair(d, [xa |-> NoData]), eb |-> Pair(f, [xa |-> NoData])]
    <3>1. PICK d, f \in EntryDatas : input = [ea |-> Pair(d, [xa |-> NoData]), eb |-> Pair(f, [xa |-> NoData])]
      BY <2>6
    <3> QED
      BY <2>1, <2>2, <3>1
  <2> QED
    BY <2>3, <2>4, <2>5, <2>6 DEF NodePairs
<1> DEFINE Short == {<<>>, <<0>>, <<1>>, <<2>>}
<1>0. \A h \in Short : h \in Seq(Nat)
  <2>1. <<>> \in Seq(Nat)
    OBVIOUS
  <2>2. \A n \in Nat : <<n>> \in Seq(Nat)
    OBVIOUS
  <2> QED
    BY <2>1, <2>2
<1> HIDE DEF Short
<1>2. ASSUME NEW xd \in Data PROVE xd.ongoing \in Nat /\ xd.infoLatMs \in Nat /\ xd.history \in Seq(Nat)
  <2>1. CASE xd \in ExitDatas
    <3>1. PICK h \in Histories, n \in 0..1, info \in InfoStates : xd = Spread([history |-> h, ongoing |-> n], info)
      BY <2>1 DEF ExitDatas
    <3>2. xd.ongoing = n /\ xd.history = h /\ xd.infoLatMs = info.infoLatMs
      <4>1. DOMAIN info = {"version", "infoLatMs", "infoFail", "relays"}
        BY DEF InfoStates
      <4> DEFINE own == [history |-> h, ongoing |-> n]
      <4>2. DOMAIN own = {"history", "ongoing"} /\ own.history = h /\ own.ongoing = n
        OBVIOUS
      <4> HIDE DEF own
      <4>3. xd = [f \in DOMAIN own \cup DOMAIN info |-> IF f \in DOMAIN own THEN own[f] ELSE info[f]]
        BY <3>1 DEF Spread, own
      <4> QED
        BY <4>1, <4>2, <4>3
    <3>3. info.infoLatMs \in Nat
      BY DEF InfoStates
    <3>4. h \in Seq(Nat)
      <4>1. CASE h = <<>>
        BY <4>1
      <4>2. CASE \E g \in {<<>>, <<2>>}, l \in 0..2 : h = recorded(g, l, 1)
        <5>1. PICK g \in {<<>>, <<2>>}, l \in 0..2 : h = recorded(g, l, 1)
          BY <4>2
        <5>2. g \in Seq(Nat) /\ l \in Nat
          <6>1. g \in Short
            BY DEF Short
          <6> QED
            BY <6>1, <1>0
        <5>3. Append(g, l) \in Seq(Nat) /\ Len(Append(g, l)) = Len(g) + 1 /\ Len(g) \in Nat
          BY <5>2
        <5>4. Len(Append(g, l)) > 1 => Tail(Append(g, l)) \in Seq(Nat)
          BY <5>3
        <5> QED
          BY <5>1, <5>3, <5>4 DEF recorded
      <4> QED
        BY <4>1, <4>2 DEF Histories
    <3> QED
      BY <3>2, <3>3, <3>4
  <2>2. CASE xd \in Untested
    <3>1. xd.history \in Short /\ xd.ongoing = 0 /\ xd.infoLatMs \in 0..1
      BY <2>2 DEF Untested, Short
    <3> QED
      BY <3>1, <1>0
  <2>3. CASE xd = NoData
    <3>1. xd.history \in Short /\ xd.ongoing = 0 /\ xd.infoLatMs = 0
      BY <2>3 DEF NoData, Short
    <3> QED
      BY <3>1, <1>0
  <2> QED
    BY <2>1, <2>2, <2>3
<1>3. ASSUME NEW ed \in Entry
      PROVE  /\ ed.pingDuration \in Nat /\ ed.segOngoing \in Nat /\ ed.msgsErrors \in Nat
             /\ ed.segHistory \in Seq(Nat) /\ ed.msgsLats \in Seq(Nat)
  <2>1. /\ ed.pingDuration \in 0..2 /\ ed.segOngoing \in 0..1 /\ ed.msgsErrors \in 0..1
        /\ ed.segHistory \in Short /\ ed.msgsLats \in Short
    <3>1. CASE ed \in EntryDatas
      BY <3>1 DEF EntryDatas, Short
    <3>2. CASE ed = Pinged
      BY <3>2 DEF Pinged, Short
    <3> QED
      BY <3>1, <3>2
  <2> QED
    BY <2>1, <1>0
<1> HIDE DEF Data, Entry
<1>4. Measured(input)
  BY <1>1, <1>2, <1>3 DEF Measured
<1>5. IsFiniteSet(DOMAIN input) /\ \A e \in DOMAIN input : IsFiniteSet(DOMAIN input[e].exits)
  <2>1. IsFiniteSet({"ea", "eb"}) /\ IsFiniteSet({"xa", "xb"})
    <3>1. IsFiniteSet({"ea"}) /\ IsFiniteSet({"eb"}) /\ IsFiniteSet({"xa"}) /\ IsFiniteSet({"xb"})
      BY FS_Singleton
    <3>2. {"ea", "eb"} = {"ea"} \cup {"eb"} /\ {"xa", "xb"} = {"xa"} \cup {"xb"}
      OBVIOUS
    <3>3. IsFiniteSet({"ea"} \cup {"eb"})
      BY <3>1, FS_Union, Zenon
    <3>4. IsFiniteSet({"xa"} \cup {"xb"})
      BY <3>1, FS_Union, Zenon
    <3> QED
      BY <3>2, <3>3, <3>4
  <2> QED
    BY <1>1, <2>1, FS_Subset
<1>6. ASSUME NEW e \in DOMAIN input PROVE (input[e].peers \cup input[e].relays) \subseteq Relays \cup {"xa"}
  <2> DEFINE peers == potentialPeers(Connected)
  <2>1. {p.peerId : p \in peers} \subseteq Relays \cup {"xa"}
    BY DEF potentialPeers, Connected
  <2>2. potentialRelays(peers, OpenChannels) \subseteq {p.peerId : p \in peers}
    BY DEF potentialRelays
  <2>3. input[e].peers = {p.peerId : p \in peers} /\ input[e].relays = potentialRelays(peers, OpenChannels)
    BY <1>1 DEF Pair
  <2> QED
    BY <2>1, <2>2, <2>3
<1> QED
  BY <1>4, <1>5, <1>6

\* Relays each way are among the known ones and not the exit.
LEMMA KnownRelaysSuit ==
    ASSUME NEW nodePairs, NEW manual \in BOOLEAN, NEW known,
           \A e \in DOMAIN nodePairs : (nodePairs[e].peers \cup nodePairs[e].relays) \subseteq known
    PROVE  RelaysSuit(createRoutePerfs(nodePairs, manual), manual, known)
<1> SUFFICES ASSUME NEW r \in createRoutePerfs(nodePairs, manual)
             PROVE  /\ manual <=> r.relays.req # {} /\ r.relays.resp # {}
                    /\ (r.relays.req \cup r.relays.resp) \subseteq known \ {r.exit}
  BY DEF RelaysSuit
<1> DEFINE relays(e, x) == IF manual THEN determineRelays(nodePairs[e], e, x) ELSE [req |-> {}, resp |-> {}]
           own(e, x) == [entry |-> e, exit |-> x, relays |-> relays(e, x)]
<1>1. PICK e \in DOMAIN nodePairs : \E x \in DOMAIN nodePairs[e].exits :
          r = Spread(own(e, x), exitPerf(nodePairs[e].exits[x]))
  BY DEF createRoutePerfs
<1>2. PICK x \in DOMAIN nodePairs[e].exits : r = Spread(own(e, x), exitPerf(nodePairs[e].exits[x]))
  BY <1>1
<1>3. DOMAIN own(e, x) = {"entry", "exit", "relays"} /\ own(e, x).exit = x /\ own(e, x).relays = relays(e, x)
  OBVIOUS
<1>4. manual => r.relays.req # {} /\ r.relays.resp # {}
  BY DEF createRoutePerfs
<1> HIDE DEF own
<1>5. r.exit = x /\ r.relays = relays(e, x)
  BY <1>2, <1>3 DEF Spread
<1>6. relays(e, x).req \subseteq known \ {x} /\ relays(e, x).resp \subseteq known \ {x}
  BY DEF determineRelays
<1> QED
  BY <1>4, <1>5, <1>6

\* The fallback is given no route through the entry to avoid.
LEMMA FallbackAvoids ==
    ASSUME NEW nodePairs, Measured(nodePairs), IsFiniteSet(DOMAIN nodePairs),
           \A e \in DOMAIN nodePairs : IsFiniteSet(DOMAIN nodePairs[e].exits),
           NEW manual \in BOOLEAN, NEW exclude,
           NEW s \in fallbackRoutePair(nodePairs, exclude, manual).routes
    PROVE  s.entry # exclude
<1> DEFINE routes == {r \in createRoutePerfs(nodePairs, manual) : r.entry # exclude}
<1>1. SelectionIsBest(nodePairs, routes)
  BY BestIsSelected
<1>2. s \in match(nodePairs, routes).routes
  BY DEF fallbackRoutePair
<1>3. \E r \in routes : r.entry = s.entry
  BY <1>1, <1>2 DEF SelectionIsBest
<1> QED
  BY <1>3

\* So the best routes are selected from all that the machine starts with.
THEOREM MachineSelectsBest == Spec => []SelectedRoutesAreBest
<1>1. Init => SelectedRoutesAreBest
  <2> SUFFICES ASSUME Init, kind = "node pairs", NEW manual \in BOOLEAN
               PROVE  /\ SelectionIsBest(input, createRoutePerfs(input, manual))
                      /\ RelaysSuit(createRoutePerfs(input, manual), manual, Relays \cup {"xa"})
                      /\ \A r \in fallbackRoutePair(input, "ea", manual).routes : r.entry # "ea"
    BY DEF SelectedRoutesAreBest
  <2>1. NodePairs
    BY KindsListed DEF Init
  <2> QED
    BY <2>1, InputsMeasured, BestIsSelected, KnownRelaysSuit, FallbackAvoids
<1>2. SelectedRoutesAreBest /\ [Next]_<<kind, input>> => SelectedRoutesAreBest'
  BY DEF SelectedRoutesAreBest, Next
<1> QED
  BY <1>1, <1>2, PTL DEF Spec
================================================================================
