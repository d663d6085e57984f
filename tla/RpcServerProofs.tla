---------------------------- MODULE RpcServerProofs ----------------------------
(***************************************************************************)
(* Proofs about RpcServer for any number of exchanges and any statuses.    *)
(***************************************************************************)
EXTENDS RpcServer, TLAPS

\* A provider does not answer with the status 0.
StatusesSet == 0 \notin Statuses

\* An exchange that ends has a response.
LEMMA EndTyped ==
    ASSUME TypeOK, NEW x \in Exchanges, NEW status \in Nat,
           NEW text \in {"empty", "json", "text", "parseError"}, End(x, status, text),
           ops' = ops, req' = req, said' \in [Exchanges -> Said]
    PROVE  TypeOK'
<1> DEFINE body == Carried(x, text)
<1>0. body \in {"none", "json", "text", "parseError"}
  BY DEF Carried
<1> HIDE DEF body
<1>1. stage' \in [Exchanges -> {"none", "body", "waiting", "stuck", "ended"}]
  BY DEF End, TypeOK
<1>2. res[x] \in Response
  BY DEF TypeOK
<1>3. [res[x] EXCEPT !.status = status, !.body = body] \in Response
  BY <1>0, <1>2 DEF Response
<1>4. res' \in [Exchanges -> Response]
  BY <1>3 DEF End, TypeOK, body
<1> QED
  BY <1>1, <1>4 DEF TypeOK

LEMMA NextTyped == TypeOK /\ [Next]_vars => TypeOK'
<1> SUFFICES ASSUME TypeOK, [Next]_vars PROVE TypeOK'
  OBVIOUS
<1>1. ASSUME NEW x \in Exchanges, Preflight(x) PROVE TypeOK'
  BY <1>1 DEF Preflight, TypeOK, Response
<1>2. ASSUME NEW x \in Exchanges, Accept(x) PROVE TypeOK'
  BY <1>2 DEF Accept, TypeOK, Response, Ops
<1>3. ASSUME NEW x \in Exchanges, ParseError(x) PROVE TypeOK'
  <2>1. /\ End(x, 500, "parseError") /\ 500 \in Nat
        /\ ops' = ops /\ req' = req /\ said' \in [Exchanges -> Said]
    BY <1>3 DEF ParseError, TypeOK
  <2> QED
    BY <2>1, EndTyped
<1>4. ASSUME NEW x \in Exchanges, SendRequest(x) \/ SkipWithoutProvider(x) PROVE TypeOK'
  BY <1>4 DEF SendRequest, SkipWithoutProvider, TypeOK
<1>5. ASSUME NEW x \in Exchanges, Answer(x) PROVE TypeOK'
  <2>1. \E status \in Nat, text \in {"empty", "json", "text"} : End(x, status, text)
    BY <1>5, StatusesAssumption DEF Answer, Texts
  <2>2. ops' = ops /\ req' = req
    BY <1>5 DEF Answer
  <2>3. said' \in [Exchanges -> Said]
    BY <1>5, StatusesAssumption DEF Answer, ProviderSays, TypeOK, Said
  <2> QED
    BY <2>1, <2>2, <2>3, EndTyped
<1>6. ASSUME NEW x \in Exchanges, Failure(x) PROVE TypeOK'
  <2>1. /\ End(x, 500, "text") /\ 500 \in Nat
        /\ ops' = ops /\ req' = req /\ said' \in [Exchanges -> Said]
    BY <1>6 DEF Failure, TypeOK
  <2> QED
    BY <2>1, EndTyped
<1>7. CASE UNCHANGED vars
  BY <1>7 DEF vars, TypeOK
<1> QED
  BY <1>1, <1>2, <1>3, <1>4, <1>5, <1>6, <1>7 DEF Next, Step

LEMMA InitTyped == Init => TypeOK
BY DEF Init, TypeOK, NoResponse, Response, NothingSaid, Said, Texts

\* TypeOK holds for any exchanges and statuses.
THEOREM TypeCorrect == Spec => []TypeOK
BY InitTyped, NextTyped, PTL DEF Spec

-----------------------------------------------------------------------------

\* The requests whose response a web page can read.
Readable(x) == ~ops.restrictCors /\ req[x].method \in {"OPTIONS", "POST", "GET"}

\* What an exchange under way has done to its response: the CORS headers are
\* set as soon as the request was accepted.
CorsSet == \A x \in Exchanges :
    stage[x] \in {"body", "waiting"} => res[x].cors = Readable(x)

\* What a response that ended is.
Ended(x, status, text) ==
    /\ stage'[x] = "ended" /\ ops' = ops /\ req' = req
    /\ res'[x].status = status /\ res'[x].body = Carried(x, text) /\ res'[x].cors = Readable(x)

LEMMA EndSays ==
    ASSUME TypeOK, CorsSet, NEW x \in Exchanges, NEW status \in Nat, NEW text,
           stage[x] \in {"body", "waiting"}, End(x, status, text), ops' = ops, req' = req
    PROVE  Ended(x, status, text)
<1>1. /\ res'[x].status = status /\ res'[x].body = Carried(x, text)
      /\ res'[x].cors = res[x].cors
  BY DEF End, TypeOK, Response
<1> QED
  BY <1>1 DEF End, TypeOK, CorsSet, Ended

WellFormed(x) ==
    stage[x] = "ended" =>
        /\ res[x].status # 0
        /\ res[x].status = 200 =>
             /\ said[x] = [status |-> 200, text |-> "json"]
             /\ res[x].body = "json" \/ req[x].method = "HEAD"
        /\ Bodyless(res[x].status) => res[x].body = "none"
        /\ res[x].body = "none" =>
             \/ Bodyless(res[x].status)
             \/ req[x].method = "HEAD"
             \/ said[x] = [status |-> res[x].status, text |-> "empty"]
        /\ res[x].cors <=> Readable(x)

\* One step leaves the exchanges of others alone.
LEMMA OthersUnchanged ==
    ASSUME TypeOK, NEW x \in Exchanges, Step(x)
    PROVE  /\ ops' = ops /\ req' = req
           /\ \A y \in Exchanges \ {x} :
                stage'[y] = stage[y] /\ res'[y] = res[y] /\ said'[y] = said[y]
<1> DEFINE Others == \A y \in Exchanges \ {x} : stage'[y] = stage[y] /\ res'[y] = res[y]
<1>1. ASSUME NEW status, NEW text, End(x, status, text) PROVE Others
  BY <1>1 DEF End, TypeOK
<1>2. ASSUME Preflight(x) \/ Accept(x) \/ SendRequest(x) \/ SkipWithoutProvider(x)
      PROVE  Others /\ ops' = ops /\ req' = req /\ said' = said
  BY <1>2 DEF Preflight, Accept, SendRequest, SkipWithoutProvider, TypeOK
<1>3. ASSUME ParseError(x) \/ Failure(x)
      PROVE  Others /\ ops' = ops /\ req' = req /\ said' = said
  <2>1. \E status, text : End(x, status, text)
    BY <1>3 DEF ParseError, Failure
  <2> QED
    BY <1>1, <1>3, <2>1 DEF ParseError, Failure
<1>4. ASSUME Answer(x)
      PROVE  /\ Others /\ ops' = ops /\ req' = req
             /\ \A y \in Exchanges \ {x} : said'[y] = said[y]
  <2>1. PICK status \in Statuses, text \in Texts :
             /\ ProviderSays(x, status, text)
             /\ \/ status = 200 /\ text = "json" /\ End(x, 200, "json")
                \/ status = 200 /\ text # "json" /\ End(x, 500, "text")
                \/ status # 200 /\ End(x, status, IF Bodyless(status) THEN "empty" ELSE text)
    BY <1>4 DEF Answer
  <2>2. \A y \in Exchanges \ {x} : said'[y] = said[y]
    BY <2>1 DEF ProviderSays, TypeOK
  <2>3. Others
    BY <1>1, <2>1
  <2> QED
    BY <1>4, <2>2, <2>3 DEF Answer
<1> QED
  BY <1>2, <1>3, <1>4 DEF Step

\* What Answer makes of a provider's answer.
LEMMA AnswerWellFormed ==
    ASSUME StatusesSet, TypeOK, CorsSet, NEW x \in Exchanges, Answer(x)
    PROVE  WellFormed(x)' /\ stage'[x] = "ended"
<1>1. ops' = ops /\ req' = req /\ stage[x] = "waiting" /\ 500 \in Nat /\ 200 \in Nat
  BY DEF Answer
<1>2. PICK status \in Statuses, text \in Texts :
           /\ ProviderSays(x, status, text)
           /\ \/ status = 200 /\ text = "json" /\ End(x, 200, "json")
              \/ status = 200 /\ text # "json" /\ End(x, 500, "text")
              \/ status # 200 /\ End(x, status, IF Bodyless(status) THEN "empty" ELSE text)
  BY DEF Answer
<1>3. status \in Nat /\ status # 0
  BY StatusesAssumption DEF StatusesSet
<1>4. said'[x] = [status |-> status, text |-> text]
  BY <1>2 DEF ProviderSays, TypeOK
<1>5. Readable(x)' = Readable(x)
  BY <1>1 DEF Readable
<1>6. CASE status = 200 /\ text = "json" /\ End(x, 200, "json")
  <2>1. Ended(x, 200, "json")
    BY <1>1, <1>6, EndSays
  <2> QED
    BY <1>1, <1>4, <1>5, <1>6, <2>1 DEF Ended, WellFormed, Carried, Bodyless
<1>7. CASE status = 200 /\ text # "json" /\ End(x, 500, "text")
  <2>1. Ended(x, 500, "text")
    BY <1>1, <1>7, EndSays
  <2> QED
    BY <1>1, <1>5, <2>1 DEF Ended, WellFormed, Carried, Bodyless
<1>8. CASE status # 200 /\ Bodyless(status) /\ End(x, status, "empty")
  <2>1. Ended(x, status, "empty")
    BY <1>1, <1>3, <1>8, EndSays
  <2> QED
    BY <1>1, <1>3, <1>5, <1>8, <2>1 DEF Ended, WellFormed, Carried, Bodyless
<1>9. CASE status # 200 /\ ~Bodyless(status) /\ End(x, status, text)
  <2>1. Ended(x, status, text)
    BY <1>1, <1>3, <1>9, EndSays
  <2>2. Carried(x, text) = "none" => req[x].method = "HEAD" \/ text = "empty"
    BY DEF Carried, Texts
  <2> QED
    BY <1>1, <1>3, <1>4, <1>5, <1>9, <2>1, <2>2 DEF Ended, WellFormed, Bodyless
<1> QED
  BY <1>2, <1>6, <1>7, <1>8, <1>9

LEMMA StepWellFormed ==
    ASSUME StatusesSet, TypeOK, CorsSet, NEW x \in Exchanges, WellFormed(x), Step(x)
    PROVE  /\ stage'[x] \in {"body", "waiting"} => res'[x].cors = Readable(x)
           /\ WellFormed(x)'
<1>1. CASE Preflight(x)
  <2>1. /\ stage'[x] = "ended" /\ ops' = ops /\ req' = req
        /\ ~ops.restrictCors /\ req[x].method = "OPTIONS"
        /\ res'[x].status = 204 /\ res'[x].body = "none" /\ res'[x].cors = TRUE
    BY <1>1 DEF Preflight, TypeOK
  <2> QED
    BY <2>1 DEF WellFormed, Bodyless, Readable
<1>2. CASE Accept(x)
  <2>1. /\ stage'[x] = "body" /\ (ops.restrictCors \/ req[x].method # "OPTIONS")
        /\ res'[x].cors = (~ops.restrictCors /\ req[x].method \in {"POST", "GET"})
    BY <1>2 DEF Accept, TypeOK, Response
  <2> QED
    BY <2>1 DEF WellFormed, Readable
<1>3. CASE SendRequest(x) \/ SkipWithoutProvider(x)
  <2>1. stage'[x] \in {"waiting", "stuck"} /\ res' = res /\ stage[x] = "body"
    BY <1>3 DEF SendRequest, SkipWithoutProvider, TypeOK
  <2> QED
    BY <2>1 DEF WellFormed, CorsSet
<1>4. CASE ParseError(x) \/ Failure(x)
  <2>1. stage[x] \in {"body", "waiting"} /\ 500 \in Nat /\ ops' = ops /\ req' = req
    BY <1>4 DEF ParseError, Failure
  <2>2. PICK text \in {"parseError", "text"} : End(x, 500, text)
    BY <1>4 DEF ParseError, Failure
  <2>3. Ended(x, 500, text)
    BY <2>1, <2>2, EndSays
  <2>4. Carried(x, text) = "none" => req[x].method = "HEAD"
    BY DEF Carried
  <2>5. Readable(x)' = Readable(x)
    BY <2>1 DEF Readable
  <2>6. ~Bodyless(500)
    BY DEF Bodyless
  <2>7. /\ stage'[x] = "ended" /\ res'[x].status = 500
        /\ res'[x].body = "none" => req[x].method = "HEAD"
        /\ res'[x].cors = Readable(x)
    BY <2>3, <2>4 DEF Ended
  <2> QED
    BY <2>1, <2>5, <2>6, <2>7 DEF WellFormed, Bodyless
<1>5. CASE Answer(x)
  BY <1>5, AnswerWellFormed
<1> QED
  BY <1>1, <1>2, <1>3, <1>4, <1>5 DEF Step

\* Every response that ended is one a client can rely on, provided that no
\* provider answers with the status 0.
THEOREM WellFormedResponses ==
    ASSUME StatusesSet
    PROVE  Spec => []ResponsesWellFormed
<1>1. Init => CorsSet /\ ResponsesWellFormed
  BY DEF Init, CorsSet, ResponsesWellFormed
<1>2. ASSUME TypeOK, CorsSet, ResponsesWellFormed, [Next]_vars
      PROVE  CorsSet' /\ ResponsesWellFormed'
  <2>1. CASE UNCHANGED vars
    BY <1>2, <2>1 DEF vars, CorsSet, ResponsesWellFormed, Bodyless, Readable
  <2>2. ASSUME NEW x \in Exchanges, Step(x) PROVE CorsSet' /\ ResponsesWellFormed'
    <3>1. \A y \in Exchanges : WellFormed(y)
      BY <1>2 DEF ResponsesWellFormed, WellFormed, Readable
    <3>2. /\ stage'[x] \in {"body", "waiting"} => res'[x].cors = Readable(x)
          /\ WellFormed(x)'
      BY <1>2, <2>2, <3>1, StepWellFormed
    <3>3. /\ ops' = ops /\ req' = req
          /\ \A y \in Exchanges \ {x} :
               stage'[y] = stage[y] /\ res'[y] = res[y] /\ said'[y] = said[y]
      BY <1>2, <2>2, OthersUnchanged
    <3>4. CorsSet'
      BY <1>2, <3>2, <3>3 DEF CorsSet, Readable
    <3>5. \A y \in Exchanges : WellFormed(y)'
      BY <3>1, <3>2, <3>3 DEF WellFormed, Bodyless, Readable
    <3> QED
      BY <3>4, <3>5 DEF ResponsesWellFormed, WellFormed, Readable
  <2> QED
    BY <1>2, <2>1, <2>2 DEF Next
<1> QED
  BY <1>1, <1>2, TypeCorrect, PTL DEF Spec
==============================================================================
