------------------------------- MODULE Settings -------------------------------
(***************************************************************************)
(* How the settings of a request come about: environment of the RPC        *)
(* server, options of the SDK, parameters and headers of the HTTP request. *)
(*                                                                         *)
(* A text is "" or any other; the numbers 0 and NaN are called "zero" and  *)
(* "NaN", to tell them from the texts.  A JavaScript object is a function  *)
(* from the names it has.                                                  *)
(***************************************************************************)
EXTENDS Naturals, Sequences

CONSTANT Numerals  \* the texts that begin with an integer, and which one

Undefined == "undefined"

ASSUME NumeralsAssumption == \A text \in DOMAIN Numerals : Numerals[text] \notin {Undefined, "", "NaN"}

Truthy(v) == v \notin {Undefined, "", "zero", "NaN"}

\* a || b and a ?? b; the query parameters that are missing are null.
Or(a, b) == IF Truthy(a) THEN a ELSE b
Nullish(a, b) == IF a = Undefined THEN b ELSE a

\* The integer that a text begins with, of either sign.
parseInt(text) == IF text \in DOMAIN Numerals THEN Numerals[text] ELSE "NaN"

\* A number in a variable or a parameter that may be missing or empty.
parsedNumber(text) == IF Truthy(text) THEN parseInt(text) ELSE Undefined

\* parseBooleanEnv, where "0", "no" and "false" mean no in either case.
parseBooleanEnv(text) == Truthy(text) /\ text \notin {"0", "no", "false"}

defaultPort == "45750"
determinePort(text) == Or(parsedNumber(text), defaultPort)

-----------------------------------------------------------------------------
(* Options *)

defaultOps ==
    [timeout |-> "10e3", provider |-> "gnosis", mevProtectionProvider |-> "propellerheads"]

\* The options that the RPC server gives to the SDK.
sdkOptions(env) ==
    [timeout             |-> parsedNumber(env.RESPONSE_TIMEOUT),
     provider            |-> env.PROVIDER,
     forceZeroHop        |-> parseBooleanEnv(env.FORCE_ZERO_HOP),
     forceManualRelaying |-> parseBooleanEnv(env.FORCE_MANUAL_RELAYING)]

\* Broken on purpose: a timeout that is no number is kept.
sdkOpsNullish(ops) ==
    [timeout             |-> Nullish(ops.timeout, defaultOps.timeout),
     provider            |-> Or(ops.provider, defaultOps.provider),
     forceZeroHop        |-> ops.forceZeroHop,
     forceManualRelaying |-> ~ops.forceZeroHop /\ ops.forceManualRelaying]

\* sdkOps: defaults, and zero hop rules manual relaying out.
sdkOps(ops) ==
    [timeout             |-> Or(ops.timeout, defaultOps.timeout),
     provider            |-> Or(ops.provider, defaultOps.provider),
     forceZeroHop        |-> ops.forceZeroHop,
     forceManualRelaying |-> ~ops.forceZeroHop /\ ops.forceManualRelaying]

NoParams == [provider |-> Undefined, timeout |-> Undefined]

\* extractParams, but for the headers: nothing unless the HTTP request has an
\* url and a host that make an URL.
extractParams(query) ==
    IF ~query.hasUrl THEN NoParams
    ELSE [provider |-> IF Truthy(query.provider) THEN query.provider ELSE Undefined,
          timeout  |-> parsedNumber(query.timeout)]

\* What doSend makes of options and parameters.
effective(ops, params) ==
    [provider |-> Nullish(params.provider, ops.provider),
     timeout  |-> Nullish(params.timeout, ops.timeout)]

-----------------------------------------------------------------------------
(* Headers *)

\* headersFromIncoming: the headers of the HTTP request that have a value; node
\* has put their names in lower case.
headersFromIncoming(headers) ==
    [k \in {n \in DOMAIN headers : Truthy(headers[n])} |-> headers[k]]

\* headersFromStringArray: of every "header" parameter, split at its colons and
\* trimmed, the first two parts, if both are there; the last of a name wins.
headersFromStringArray(params) ==
    LET named == {i \in DOMAIN params : Len(params[i]) > 1 /\ Truthy(params[i][1]) /\ Truthy(params[i][2])}
    IN  [k \in {params[i][1] : i \in named} |->
           params[CHOOSE i \in named : params[i][1] = k /\ \A j \in named : params[j][1] = k => j <= i][2]]

\* {...a, ...b}
Merged(a, b) == [k \in DOMAIN a \cup DOMAIN b |-> IF k \in DOMAIN b THEN b[k] ELSE a[k]]

NoHeaders == [k \in {} |-> ""]

\* Broken on purpose: the headers of the HTTP request win.
requestHeadersIncomingFirst(hasUrl, headers, params) ==
    IF ~hasUrl THEN NoHeaders
    ELSE Merged(headersFromStringArray(params), headersFromIncoming(headers))

\* extractParams: the headers of a request.
requestHeaders(hasUrl, headers, params) ==
    IF ~hasUrl THEN NoHeaders
    ELSE Merged(headersFromIncoming(headers), headersFromStringArray(params))

ContentType == [h \in {"Content-Type"} |-> "application/json"]
Origin(kickback) == [h \in {"X-Tx-Origin"} |-> kickback]

\* Broken on purpose: the default content type overrides the options.
determineHeadersDefaultLast(provider, kickback, opsHeaders, headers) ==
    LET own == Merged(Merged(opsHeaders, ContentType), headers)
    IN  IF provider = defaultOps.mevProtectionProvider /\ Truthy(kickback)
        THEN Merged(Origin(kickback), own)
        ELSE own

\* determineHeaders: the default, those of the options, those of the request;
\* for the default MEV protection provider the kickback address, too.
determineHeaders(provider, kickback, opsHeaders, headers) ==
    LET own == Merged(Merged(ContentType, opsHeaders), headers)
    IN  IF provider = defaultOps.mevProtectionProvider /\ Truthy(kickback)
        THEN Merged(Origin(kickback), own)
        ELSE own

-----------------------------------------------------------------------------
(* Versions: sequences of their parts, of which "NaN" is no number *)

\* versionCompare compares numbers; NaN differs from itself.
Differ(a, b) == a = "NaN" \/ a # b
Mismatches == <<"MajorMismatch", "MinorMismatch", "PatchMismatch">>

\* Broken on purpose: the last difference is reported.
versionCompareLast(ref, version) ==
    LET mismatches == {i \in 1..3 : Differ(ref[i], version[i])}
    IN  IF Len(ref) < 3 THEN "invalid ref"
        ELSE IF Len(version) < 3 THEN "invalid version"
        ELSE IF mismatches = {} THEN "Identical"
        ELSE Mismatches[CHOOSE i \in mismatches : \A j \in mismatches : i >= j]

\* versionCompare: the first difference.
versionCompare(ref, version) ==
    LET mismatches == {i \in 1..3 : Differ(ref[i], version[i])}
    IN  IF Len(ref) < 3 THEN "invalid ref"
        ELSE IF Len(version) < 3 THEN "invalid version"
        ELSE IF mismatches = {} THEN "Identical"
        ELSE Mismatches[CHOOSE i \in mismatches : \A j \in mismatches : i <= j]

\* How a comparison is logged: by the SDK, and by the RPC server, for which
\* every minor version is a major one as long as its own is 0.
Level(cmp) ==
    CASE cmp \in {"Identical", "PatchMismatch"} -> "info"
      [] cmp = "MinorMismatch" -> "warn"
      [] OTHER -> "error"
serverLevel(rpcServer, version) ==
    LET cmp == versionCompare(rpcServer, version)
    IN  IF cmp = "MinorMismatch" /\ version[1] = "0" THEN "error" ELSE Level(cmp)

\* GET /configs, fetchVersions and onVersions with the listener of the RPC
\* server: without any row the answer has no body to parse; a version without
\* a row is undefined, and to compare with it throws: in a timer callback of
\* the SDK, but inside a try in the listener, which is called after that.
onVersions(rows, own) ==
    IF DOMAIN rows = {} THEN [sdk |-> "not told", server |-> "not told"]
    ELSE IF "sdk" \notin DOMAIN rows THEN [sdk |-> "throws", server |-> "not told"]
    ELSE [sdk    |-> Level(versionCompare(rows.sdk, own.sdk)),
          server |-> IF "rpcServer" \in DOMAIN rows THEN serverLevel(rows.rpcServer, own.rpcServer)
                     ELSE "caught"]

-----------------------------------------------------------------------------
(* What the settings mean *)

\* A request is sent with its own settings, else those of the environment,
\* else the defaults, and zero hop and manual relaying are never both on.  A 0
\* or no number in the environment stands for the default, a negative number is
\* taken; in the parameter timeout every text is, even if it is 0 or no number.
OptionsTakeEffect(env, query) ==
    LET ops == sdkOps(sdkOptions(env))
        sent == effective(ops, extractParams(query))
        given(text) == text \notin {Undefined, ""}
        number(text, default) ==
            IF given(text) /\ parseInt(text) \notin {"zero", "NaN"} THEN parseInt(text) ELSE default
    IN  /\ sent.provider = IF query.hasUrl /\ given(query.provider) THEN query.provider
                           ELSE IF given(env.PROVIDER) THEN env.PROVIDER ELSE defaultOps.provider
        /\ sent.timeout = IF query.hasUrl /\ given(query.timeout) THEN parseInt(query.timeout)
                          ELSE number(env.RESPONSE_TIMEOUT, defaultOps.timeout)
        /\ ~(ops.forceZeroHop /\ ops.forceManualRelaying)
        /\ ops.forceManualRelaying => parseBooleanEnv(env.FORCE_MANUAL_RELAYING)
        /\ determinePort(env.PORT) = number(env.PORT, defaultPort)

\* Every parameter of the form key:value is sent with its value, unless the same
\* key comes again; headers of the HTTP request are sent as they are unless a
\* parameter names them, those of the options unless the request does, and the
\* default unless anybody does.  The kickback address, unless somebody else names
\* its header, goes to the default MEV protection provider only.  A request
\* without an URL has no headers.  Names are compared with their case: against
\* the comments at index.ts:62 and 373 of the RPC server, a parameter X-Key leaves
\* an incoming x-key as it is, and both are sent.
HeadersTakeEffect(provider, kickback, opsHeaders, hasUrl, incoming, params) ==
    LET sent == determineHeaders(provider, kickback, opsHeaders, requestHeaders(hasUrl, incoming, params))
        named == {i \in DOMAIN params : Len(params[i]) = 2 /\ params[i][1] # "" /\ params[i][2] # ""}
        keys == {params[i][1] : i \in DOMAIN params}
        requested == IF hasUrl THEN DOMAIN incoming \cup keys ELSE {}
    IN  /\ hasUrl => \A i \in named :
             sent[params[i][1]] = params[i][2] \/ \E j \in (i + 1)..Len(params) : params[j][1] = params[i][1]
        /\ hasUrl => \A k \in DOMAIN incoming \ keys : incoming[k] # "" => sent[k] = incoming[k]
        /\ \A k \in DOMAIN opsHeaders \ requested : sent[k] = opsHeaders[k]
        /\ "Content-Type" \notin requested \cup DOMAIN opsHeaders => sent["Content-Type"] = "application/json"
        /\ "X-Tx-Origin" \notin DOMAIN opsHeaders \cup requested =>
             ("X-Tx-Origin" \in DOMAIN sent <=> provider = "propellerheads" /\ Truthy(kickback))
        /\ DOMAIN sent \subseteq {"Content-Type", "X-Tx-Origin"} \cup DOMAIN opsHeaders \cup requested

\* A version is reported by its most significant difference, whatever comes
\* after it, and only a platform that publishes no SDK version besides the one
\* of the RPC server makes the check throw.
VersionsRanked(rows, own) ==
    LET told == onVersions(rows, own)
        agree(a, b, n) == \A i \in 1..n : ~Differ(a[i], b[i])
        complete(k) == k \in DOMAIN rows /\ Len(rows[k]) > 2
    IN  /\ told.sdk = "throws" <=> DOMAIN rows = {"rpcServer"}
        /\ complete("sdk") => (told.sdk = "error" <=> ~agree(rows.sdk, own.sdk, 1))
        /\ complete("sdk") => (told.sdk = "info" <=> agree(rows.sdk, own.sdk, 2))
        /\ complete("rpcServer") /\ "sdk" \in DOMAIN rows =>
             (told.server = "error"
                <=> ~agree(rows.rpcServer, own.rpcServer, IF own.rpcServer[1] = "0" THEN 2 ELSE 1))
==============================================================================
