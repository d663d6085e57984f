------------------------------- MODULE Exchange -------------------------------
(***************************************************************************)
(* Requests and responses between clients and the exit node: boxed by      *)
(* compat-crypto, sliced into segments, put together by the segment caches *)
(* at both ends, and unboxed.                                              *)
(*                                                                         *)
(* Each request r is two messages of Segments, <<r, "request">> in the     *)
(* cache of the exit and <<r, "response">> in the cache of the client.     *)
(* Segments keeps track of positions in the text of a message; wire is the *)
(* message itself.                                                         *)
(*                                                                         *)
(* Encryption is symbolic: what is encrypted opens under the same key, IV  *)
(* and additional data.  The key derives from the shared secret, here the  *)
(* ephemeral key, fresh for every request, with the exit's key; from the   *)
(* version and peer id in the salt and from the direction.  The IV derives *)
(* from the counter as well.                                               *)
(***************************************************************************)
EXTENDS Segments

CONSTANTS
    Requests,     \* ids (uuid) of requests
    Entry,        \* Entry[r]: peer id of the entry node of r
    ExitId,       \* peer id of the exit node
    Versions,     \* RPCH_CRYPTO_VERSION of clients
    ExitVersion,  \* ... of the exit node
    Keys,         \* public keys that clients have for the exit node
    ExitKey,      \* the one of its private key
    ClientClock,  \* readings of the clients' clocks, with their counterOffset
    ExitClock,    \* ... of the exit's clock
    RespTypes     \* kinds of response payloads

ASSUME MessagesAssumption == RequestIds = Requests \X {"request", "response"}
ASSUME EntryAssumption == DOMAIN Entry = Requests
ASSUME VersionsAssumption == Versions \subseteq Nat /\ ExitVersion \in Nat
ASSUME ClockAssumption == ClientClock \subseteq Nat /\ ExitClock \subseteq Nat

VARIABLES
    wire,    \* wire[m]: message m, once it is sent
    client,  \* client[r]: the client's side of r
    exit     \* exit[r]: the exit's side of r

ends == <<wire, client, exit>>
exchangeVars == <<vars, ends>>

Req(r) == <<r, "request">>
Resp(r) == <<r, "response">>

-----------------------------------------------------------------------------
(* compat-crypto *)

\* Broken on purpose: the version is not in the salt.
initializeCipherUnversioned(secret, version, counter, peerId, tag, aad) ==
    [secret |-> secret, version |-> ExitVersion, counter |-> counter,
     peerId |-> peerId, tag |-> tag, aad |-> aad]

\* initializeCipher: everything that key, IV and additional data derive from.
initializeCipher(secret, version, counter, peerId, tag, aad) ==
    [secret |-> secret, version |-> version, counter |-> counter,
     peerId |-> peerId, tag |-> tag, aad |-> aad]

Encrypted(cipher, text) == [cipher |-> cipher, text |-> text]
Decrypts(cipher, sealed) == sealed.cipher = cipher

\* The versions are compared by the bit 0x10 of their first byte only.
Bit(version) == (version \div 16) % 2

\* boxRequest: the message and the session.
boxRequest(r, version, key, now) ==
    LET secret == <<r, key>>
        counter == now + 1
        cipher == initializeCipher(secret, version, counter, ExitId, "req", r)
    IN  [message |-> [version |-> version, ephemeral |-> r, counter |-> counter,
                      sealed |-> Encrypted(cipher, <<"payload", r>>)],
         updatedTS |-> counter]

\* unboxRequest at the exit: which messages open, and what its session is.
RequestOpens(r, message) ==
    /\ Bit(message.version) = Bit(ExitVersion)
    /\ Decrypts(initializeCipher(<<message.ephemeral, ExitKey>>, ExitVersion, message.counter,
                                 ExitId, "req", r),
                message.sealed)
SessionOf(message) ==
    [request |-> message.sealed.text, updatedTS |-> message.counter,
     secret |-> <<message.ephemeral, ExitKey>>]

\* boxResponse with the exit's session.
boxResponse(r, session, entry, now, payload) ==
    LET counter == now + 1
        cipher == initializeCipher(session.secret, ExitVersion, counter, entry, "resp", r)
    IN  [counter |-> counter, sealed |-> Encrypted(cipher, payload)]

\* Broken on purpose: the client uses the tag of requests.
ResponseOpensTag(r, session, message) ==
    Decrypts(initializeCipher(<<r, session.key>>, session.version, message.counter, Entry[r],
                              "req", r),
             message.sealed)

\* unboxResponse with the client's session.
ResponseOpens(r, session, message) ==
    Decrypts(initializeCipher(<<r, session.key>>, session.version, message.counter, Entry[r],
                              "resp", r),
             message.sealed)

-----------------------------------------------------------------------------
(* The two ends *)

\* No message, no session and no payload.
Nothing == <<>>

ExchangeTypeOK ==
    /\ TypeOK
    /\ \A m \in RequestIds : (wire[m] # Nothing) = (m \in sent)
    /\ client \in [Requests ->
         [pc : {"new", "waiting", "done", "failed"}, version : Versions, key : Keys,
          updatedTS : Nat,
          response : {Nothing} \cup {<<type, r>> : type \in RespTypes, r \in Requests}]]
    /\ exit \in [Requests ->
         [pc : {"none", "refused", "handling", "answered"}, entry : {Nothing} \cup {Entry[r] : r \in Requests},
          request : {Nothing} \cup {<<"payload", r>> : r \in Requests},
          secret : {Nothing} \cup (Requests \X {ExitKey}),
          updatedTS : Nat,
          response : {Nothing} \cup {<<type, r>> : type \in RespTypes, r \in Requests}]]

ExchangeInit ==
    /\ Init
    /\ wire = [m \in RequestIds |-> Nothing]
    /\ client \in [Requests -> [pc : {"new"}, version : Versions, key : Keys,
                                updatedTS : {0}, response : {Nothing}]]
    /\ exit = [r \in Requests |-> [pc |-> "none", entry |-> Nothing, request |-> Nothing,
                                   secret |-> Nothing, updatedTS |-> 0, response |-> Nothing]]

\* Broken on purpose: the exit's peer id is put before the box.
toSegmentsOfExit(r, message) == [entry |-> ExitId, body |-> message]

\* toSegments: the peer id of the entry goes before the box.
toSegments(r, message) == [entry |-> Entry[r], body |-> message]

\* create, and the segments are sent.
CreateRequest(r) ==
    /\ client[r].pc = "new"
    /\ \E now \in ClientClock :
         LET box == boxRequest(r, client[r].version, client[r].key, now)
         IN  /\ wire' = [wire EXCEPT ![Req(r)] = toSegments(r, box.message)]
             /\ client' = [client EXCEPT ![r].pc = "waiting", ![r].updatedTS = box.updatedTS]
    /\ Send(Req(r))
    /\ UNCHANGED exit

\* messageToReq: a request that does not open is dropped.  The exit handles a
\* request id once, however often its segments complete.
Completed(m) == completed'[m] # completed[m]
MessageToReq(r) ==
    LET message == wire[Req(r)].body
        session == SessionOf(message)
    IN  IF ~Completed(Req(r)) \/ exit[r].pc # "none" THEN UNCHANGED exit
        ELSE IF ~RequestOpens(r, message) THEN exit' = [exit EXCEPT ![r].pc = "refused"]
        ELSE exit' = [exit EXCEPT ![r].pc = "handling",
                                  ![r].entry = wire[Req(r)].entry,
                                  ![r].request = session.request,
                                  ![r].secret = session.secret,
                                  ![r].updatedTS = session.updatedTS]

DeliverRequest(r, nr) ==
    /\ Deliver(Req(r), nr)
    /\ MessageToReq(r)
    /\ UNCHANGED <<wire, client>>

\* Broken on purpose: the session keeps the counter of the request.
RespToMessageOldCounter(r) ==
    /\ exit[r].pc = "handling"
    /\ \E type \in RespTypes, now \in ExitClock :
         LET payload == <<type, r>>
             message == boxResponse(r, exit[r], exit[r].entry, now, payload)
         IN  /\ wire' = [wire EXCEPT ![Resp(r)] = [body |-> message]]
             /\ exit' = [exit EXCEPT ![r].pc = "answered", ![r].response = payload]
    /\ Send(Resp(r))
    /\ UNCHANGED client

\* respToMessage: boxResponse updates the session it is given.
RespToMessage(r) ==
    /\ exit[r].pc = "handling"
    /\ \E type \in RespTypes, now \in ExitClock :
         LET payload == <<type, r>>
             message == boxResponse(r, exit[r], exit[r].entry, now, payload)
         IN  /\ wire' = [wire EXCEPT ![Resp(r)] = [body |-> message]]
             /\ exit' = [exit EXCEPT ![r].pc = "answered", ![r].response = payload,
                                     ![r].updatedTS = message.counter]
    /\ Send(Resp(r))
    /\ UNCHANGED client

\* messageToResp: the session is updated only when the response opens.
MessageToResp(r) ==
    LET message == wire[Resp(r)].body
    IN  IF ~Completed(Resp(r)) \/ client[r].pc # "waiting" THEN UNCHANGED client
        ELSE IF ~ResponseOpens(r, client[r], message)
        THEN client' = [client EXCEPT ![r].pc = "failed"]
        ELSE client' = [client EXCEPT ![r].pc = "done", ![r].response = message.sealed.text,
                                      ![r].updatedTS = message.counter]

DeliverResponse(r, nr) ==
    /\ Deliver(Resp(r), nr)
    /\ MessageToResp(r)
    /\ UNCHANGED <<wire, exit>>

\* The client's timeout: the call is rejected, its segments are removed.
GiveUp(r) ==
    /\ client[r].pc = "waiting"
    /\ client' = [client EXCEPT ![r].pc = "failed"]
    /\ Remove(Resp(r))
    /\ UNCHANGED <<wire, exit>>

\* The exit removes a request that stays incomplete.
ExitGivesUp(r) ==
    /\ cache[Req(r)] # {}
    /\ Remove(Req(r))
    /\ UNCHANGED ends

ExchangeNext ==
    \E r \in Requests :
        \/ CreateRequest(r) \/ RespToMessage(r) \/ GiveUp(r) \/ ExitGivesUp(r)
        \/ \E nr \in Numbers(Req(r)) : DeliverRequest(r, nr)
        \/ \E nr \in Numbers(Resp(r)) : DeliverResponse(r, nr)

ExchangeSpec == ExchangeInit /\ [][ExchangeNext]_exchangeVars

\* The network delivers every segment at least once; the exit answers.
FirstCopy(r, nr) ==
    \/ /\ nr \in Numbers(Req(r)) /\ copies[Req(r)][nr] = 0
       /\ DeliverRequest(r, nr)
    \/ /\ nr \in Numbers(Resp(r)) /\ copies[Resp(r)][nr] = 0
       /\ DeliverResponse(r, nr)
ExchangeFairSpec ==
    /\ ExchangeSpec
    /\ \A r \in Requests :
         /\ WF_exchangeVars(RespToMessage(r))
         /\ \A nr \in AllNumbers : WF_exchangeVars(FirstCopy(r, nr))

-----------------------------------------------------------------------------
(* Properties *)

\* What a client resolves with is what the exit answered to this request, the
\* exit had understood this request, and both sessions agree on the counter,
\* with many requests under way and every segment possibly twice.
AnswersAgree ==
    \A r \in Requests :
        client[r].pc = "done" =>
            /\ exit[r].pc = "answered"
            /\ exit[r].request = <<"payload", r>>
            /\ client[r].response = exit[r].response
            /\ client[r].updatedTS = exit[r].updatedTS

Understood(r) == client[r].version = ExitVersion /\ client[r].key = ExitKey

\* The exit answers those who use its version and key, and nobody else: a
\* version that passes the comparison of one bit fails to decrypt.
OnlyUnderstoodAnswered == \A r \in Requests : exit[r].pc \in {"handling", "answered"} => Understood(r)

\* Unless one of the ends gives up, a client that uses the version and the key
\* of the exit gets its answer, though both messages travel in pieces.
UnderstoodGetAnswers ==
    \A r \in Requests :
        client[r].pc = "waiting" /\ Understood(r)
          ~> (client[r].pc = "done" \/ Req(r) \in given \/ Resp(r) \in given)
==============================================================================
