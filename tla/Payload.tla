------------------------------- MODULE Payload -------------------------------
(***************************************************************************)
(* Payloads of requests, responses and node information, and their         *)
(* transport form with one letter for every field.  The functions that     *)
(* write it and the functions that read it each name the letters.          *)
(*                                                                         *)
(* An object is a function from the fields it has; a field that is         *)
(* undefined is not there, as in its JSON.  Of a value only matters        *)
(* whether it is falsy ("", 0, false).                                     *)
(***************************************************************************)

Falsy == "falsy"

\* Broken on purpose: method and relayPeerId use the same letter.
ReqKeysClash ==
    [clientId |-> "c", endpoint |-> "e", body |-> "b", headers |-> "h", method |-> "r",
     timeout |-> "t", hops |-> "n", relayPeerId |-> "r", withDuration |-> "w", chainId |-> "i"]

\* The letters that the fields of a request are written under.
ReqKeys ==
    [clientId |-> "c", endpoint |-> "e", body |-> "b", headers |-> "h", method |-> "m",
     timeout |-> "t", hops |-> "n", relayPeerId |-> "r", withDuration |-> "w", chainId |-> "i"]

\* ... and of every kind of payload; responses say their kind themselves.
Keys ==
    [Req           |-> ReqKeys,
     Resp          |-> [type |-> "t", headers |-> "h", status |-> "s", statusText |-> "a",
                        text |-> "x", callDuration |-> "f", exitAppDuration |-> "e"],
     CounterFail   |-> [type |-> "t", counter |-> "c"],
     DuplicateFail |-> [type |-> "t"],
     Error         |-> [type |-> "t", reason |-> "r"],
     Info          |-> [peerId |-> "i", version |-> "v", counter |-> "c", relayShortIds |-> "r"]]

\* Broken on purpose: the chain id is read where the client id is.
ReadReqKeysMisread ==
    [clientId |-> "c", endpoint |-> "e", body |-> "b", headers |-> "h", method |-> "m",
     timeout |-> "t", hops |-> "n", relayPeerId |-> "r", withDuration |-> "w", chainId |-> "c"]

\* The letters that the fields are read from: transToReq,
ReadReqKeys ==
    [clientId |-> "c", endpoint |-> "e", body |-> "b", headers |-> "h", method |-> "m",
     timeout |-> "t", hops |-> "n", relayPeerId |-> "r", withDuration |-> "w", chainId |-> "i"]

\* ... transToResp and transToInfo.
ReadKeys ==
    [Req           |-> ReadReqKeys,
     Resp          |-> [type |-> "t", headers |-> "h", status |-> "s", statusText |-> "a",
                        text |-> "x", callDuration |-> "f", exitAppDuration |-> "e"],
     CounterFail   |-> [type |-> "t", counter |-> "c"],
     DuplicateFail |-> [type |-> "t"],
     Error         |-> [type |-> "t", reason |-> "r"],
     Info          |-> [peerId |-> "i", version |-> "v", counter |-> "c", relayShortIds |-> "r"]]

Kinds == DOMAIN Keys
RespTypes == {"Resp", "CounterFail", "DuplicateFail", "Error"}

\* Fields that are only carried over if they are set.
Optional(kind) ==
    CASE kind = "Req" -> DOMAIN ReqKeys \ {"clientId", "endpoint"}
      [] kind = "Resp" -> {"callDuration", "exitAppDuration"}
      [] kind = "Info" -> {"relayShortIds"}
      [] OTHER -> {}

\* reqToTrans, respToTrans and infoToTrans: set fields, by their letters.
Carried(kind, p) == {f \in DOMAIN p : f \in Optional(kind) => p[f] # Falsy}
toTrans(kind, p) ==
    [k \in {Keys[kind][f] : f \in Carried(kind, p)} |->
       p[CHOOSE f \in Carried(kind, p) : Keys[kind][f] = k]]

\* transToReq, transToResp and transToInfo; a response is read as what it
\* says it is.
KindOf(kind, t) == IF kind \in RespTypes THEN t["t"] ELSE kind
fromTrans(kind, t) ==
    LET keys == ReadKeys[KindOf(kind, t)]
    IN  [f \in {g \in DOMAIN keys : keys[g] \in DOMAIN t} |-> t[keys[f]]]

-----------------------------------------------------------------------------
\* A decoded payload is the encoded one, without the optional fields that were
\* falsy: hops 0 or a timeout of 0 arrive as the default.  It needs a letter of
\* its own for every field, and the same letter in writer and reader.
RoundTrip(kind, p) == fromTrans(kind, toTrans(kind, p)) = [f \in Carried(kind, p) |-> p[f]]
==============================================================================
