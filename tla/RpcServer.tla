-------------------------------- MODULE RpcServer --------------------------------
(***************************************************************************)
(* The RPC server: an HTTP front of the SDK.  Every HTTP request is        *)
(* answered on its own; what an exchange has done to its response is its   *)
(* whole state.                                                            *)
(*                                                                         *)
(* sdk.send and ProviderAPI.fetchRPC are seen as what they resolve to: an  *)
(* answer with an HTTP status and a text, or an exception.  A text is the  *)
(* JSON of an answer, other text, or empty.                                *)
(***************************************************************************)
EXTENDS Naturals, FiniteSets

CONSTANTS
    Exchanges,  \* HTTP requests under way at the same time
    Statuses    \* HTTP statuses a provider answers

ASSUME StatusesAssumption == Statuses \subseteq Nat

VARIABLES
    ops,    \* how the server was started: the options that change an exchange
    req,    \* req[x]: the HTTP request of exchange x
    stage,  \* stage[x]: where the server is with it
    res,    \* res[x]: the response so far
    said    \* history: said[x]: what the provider answered

vars == <<ops, req, stage, res, said>>

Ops == [skipRPCh : BOOLEAN, restrictCors : BOOLEAN]

\* json: the body is JSON; provider: the query parameter is there.
HttpRequest == [method   : {"OPTIONS", "POST", "GET", "HEAD", "PUT"},
                json     : BOOLEAN,
                provider : BOOLEAN]

Texts == {"json", "text", "empty"}

\* status: statusCode, 0 while not set; cors: corsHeaders are on it; body:
\* what it carries.
Response == [status : Nat, cors : BOOLEAN, body : {"none", "json", "text", "parseError"}]
NoResponse == [status |-> 0, cors |-> FALSE, body |-> "none"]

\* What a provider answered, status 0 while it did not.
Said == [status : Nat, text : Texts]
NothingSaid == [status |-> 0, text |-> "empty"]

TypeOK ==
    /\ ops \in Ops
    /\ req \in [Exchanges -> HttpRequest]
    /\ stage \in [Exchanges -> {"none", "body", "waiting", "stuck", "ended"}]
    /\ res \in [Exchanges -> Response]
    /\ said \in [Exchanges -> Said]

Init ==
    /\ ops \in Ops
    /\ req \in [Exchanges -> HttpRequest]
    /\ stage = [x \in Exchanges |-> "none"]
    /\ res = [x \in Exchanges |-> NoResponse]
    /\ said = [x \in Exchanges |-> NothingSaid]

\* Statuses whose response has no body.
Bodyless(status) == status \in {204, 304}

\* What a response carries of what is written to it: node sends no body for
\* HEAD, and writing the empty text writes nothing.
Carried(x, text) == IF req[x].method = "HEAD" \/ text = "empty" THEN "none" ELSE text

\* Status and body are written and the response ends.
End(x, status, text) ==
    /\ stage' = [stage EXCEPT ![x] = "ended"]
    /\ res' = [res EXCEPT ![x].status = status, ![x].body = Carried(x, text)]

-----------------------------------------------------------------------------

\* The request's headers are there: createServer's listener.
Preflight(x) ==
    /\ stage[x] = "none"
    /\ ~ops.restrictCors /\ req[x].method = "OPTIONS"
    /\ stage' = [stage EXCEPT ![x] = "ended"]
    /\ res' = [res EXCEPT ![x] = [status |-> 204, cors |-> TRUE, body |-> "none"]]
    /\ UNCHANGED <<ops, req, said>>

\* Broken on purpose: restricted servers allow web pages to POST.
AcceptUnrestricted(x) ==
    /\ stage[x] = "none"
    /\ ops.restrictCors \/ req[x].method # "OPTIONS"
    /\ stage' = [stage EXCEPT ![x] = "body"]
    /\ res' = [res EXCEPT ![x].cors = req[x].method \in {"POST", "GET"}]
    /\ UNCHANGED <<ops, req, said>>

\* Every other request is read to its end, with any method.
Accept(x) ==
    /\ stage[x] = "none"
    /\ ops.restrictCors \/ req[x].method # "OPTIONS"
    /\ stage' = [stage EXCEPT ![x] = "body"]
    /\ res' = [res EXCEPT ![x].cors = ~ops.restrictCors /\ req[x].method \in {"POST", "GET"}]
    /\ UNCHANGED <<ops, req, said>>

\* Broken on purpose: the response never ends.
LogsParseError(x) ==
    /\ stage[x] = "body" /\ ~req[x].json
    /\ stage' = [stage EXCEPT ![x] = "stuck"]
    /\ UNCHANGED <<ops, req, res, said>>

\* The body is complete: it is no JSON.
ParseError(x) ==
    /\ stage[x] = "body"
    /\ ~req[x].json
    /\ End(x, 500, "parseError")
    /\ UNCHANGED <<ops, req, said>>

\* The body is complete: the request goes to the SDK, or past it.
SendRequest(x) ==
    /\ stage[x] = "body"
    /\ req[x].json
    /\ ops.skipRPCh => req[x].provider
    /\ stage' = [stage EXCEPT ![x] = "waiting"]
    /\ UNCHANGED <<ops, req, res, said>>

\* sendSkipRPCh without a provider logs and returns.
SkipWithoutProvider(x) ==
    /\ stage[x] = "body"
    /\ req[x].json
    /\ ops.skipRPCh /\ ~req[x].provider
    /\ stage' = [stage EXCEPT ![x] = "stuck"]
    /\ UNCHANGED <<ops, req, res, said>>

\* The provider answers; passed on as status and text.
ProviderSays(x, status, text) == said' = [said EXCEPT ![x] = [status |-> status, text |-> text]]

\* Broken on purpose: any text is passed on with any status.
PassesOnAnything(x) ==
    /\ stage[x] = "waiting"
    /\ \E status \in Statuses, text \in Texts :
         ProviderSays(x, status, text) /\ End(x, status, text)
    /\ UNCHANGED <<ops, req>>

\* The provider answered: with a 200 only JSON is passed on, other texts fail
\* to parse; any other answer is passed on with its text, where the status
\* allows one.
Answer(x) ==
    /\ stage[x] = "waiting"
    /\ \E status \in Statuses, text \in Texts :
         /\ ProviderSays(x, status, text)
         /\ \/ status = 200 /\ text = "json" /\ End(x, 200, "json")
            \/ status = 200 /\ text # "json" /\ End(x, 500, "text")
            \/ status # 200 /\ End(x, status, IF Bodyless(status) THEN "empty" ELSE text)
    /\ UNCHANGED <<ops, req>>

\* The SDK or the fetch throws; the error's text is the answer.
Failure(x) ==
    /\ stage[x] = "waiting"
    /\ End(x, 500, "text")
    /\ UNCHANGED <<ops, req, said>>

Step(x) ==
    \/ Preflight(x) \/ Accept(x) \/ ParseError(x)
    \/ SendRequest(x) \/ SkipWithoutProvider(x)
    \/ Answer(x) \/ Failure(x)

Next == \E x \in Exchanges : Step(x)

Spec == Init /\ [][Next]_vars

\* Clients send complete requests; the SDK and providers answer or time out.
FairSpec == Spec /\ \A x \in Exchanges : WF_vars(Step(x))

-----------------------------------------------------------------------------
(* Properties *)

\* What a client can rely on.  A 200 carries JSON that the provider answered
\* with a 200, and whatever the provider answered is never turned into one; a
\* status that forbids a body has none; a body is missing otherwise only for
\* HEAD and where the provider's own text was empty.  Web pages can read the
\* answers to OPTIONS, POST and GET, and only these, unless CORS is restricted:
\* the server answers HEAD and PUT too, without the headers.
ResponsesWellFormed ==
    \A x \in Exchanges :
        stage[x] = "ended" =>
            /\ res[x].status # 0
            /\ res[x].status = 200 =>
                 /\ said[x] = [status |-> 200, text |-> "json"]
                 /\ res[x].body = "json" \/ req[x].method = "HEAD"
            /\ Bodyless(res[x].status) => res[x].body = "none"
            /\ res[x].body = "none" =>
                 \/ Bodyless(res[x].status)
                 \/ req[x].method = "HEAD"
                 \/ said[x] = [status |-> res[x].status, text |-> "empty"]
            /\ res[x].cors <=> ~ops.restrictCors /\ req[x].method \in {"OPTIONS", "POST", "GET"}

\* Every request is answered, whatever its body, and whatever the SDK or the
\* provider makes of it.  The only ones left hanging are those that skip RPCh
\* and name no provider.
RequestsAnswered ==
    \A x \in Exchanges :
        <>(stage[x] = "ended") \/ (ops.skipRPCh /\ ~req[x].provider)
==============================================================================
