------------------------------- MODULE MCFunctions -------------------------------
(* The pure functions of the code, on every small input: the initial states *)
(* of a machine that does nothing are every topology of a small network,    *)
(* payload, choice of routes and way to set up a request, and the           *)
(* invariants compare what the functions compute with what they are meant   *)
(* to compute.                                                              *)
EXTENDS Routes, Payload, NodeSelector, Settings

CONSTANTS Entries, Exits, Relays

VARIABLES kind, input

Ids == Entries \cup Exits \cup Relays

-----------------------------------------------------------------------------
(* Topologies *)

Seen(S) == {peers \in PartialMaps(S, Ids) : \A id \in DOMAIN peers : id \notin peers[id]}
Channels == {chs \in SUBSET ((Entries \cup Exits) \X Ids) : \A c \in chs : c[1] # c[2]}
Topologies ==
    [entryPeers : Seen(Entries), exitPeers : Seen(Exits),
     channels : {channelsMap(chs) : chs \in Channels}, online : SUBSET Exits]

-----------------------------------------------------------------------------
(* Payloads *)

\* Objects and lists are never falsy, the type of a response is its kind.
Values(k, f) ==
    CASE f = "type" -> {k}
      [] f \in {"headers", "relayShortIds"} -> {"set"}
      [] OTHER -> {"set", Falsy}
PayloadsOf(k) ==
    UNION {{p \in [fields -> {"set", Falsy, k}] : \A f \in fields : p[f] \in Values(k, f)} :
             fields \in {DOMAIN Keys[k] \ left : left \in SUBSET Optional(k)}}

-----------------------------------------------------------------------------
(* Measured node pairs *)

\* The last outcome of up to two, a failure or a latency.
Histories == {<<>>} \cup {recorded(h, l, 1) : h \in {<<>>, <<2>>}, l \in 0..2}

\* An exit that never answered, or answered the last question or an earlier one.
InfoStates ==
    {[version |-> "unknown", infoLatMs |-> 0, infoFail |-> f, relays |-> {}] : f \in BOOLEAN} \cup
    {[version |-> v, infoLatMs |-> l, infoFail |-> f, relays |-> Relays] :
       v \in {"compatible", "incompatible"}, l \in 1..2, f \in BOOLEAN}
    \cup {[version |-> "compatible", infoLatMs |-> 1, infoFail |-> FALSE, relays |-> {"xa", "old"}]}
ExitDatas == {Spread([history |-> h, ongoing |-> n], info) : h \in Histories, n \in 0..1, info \in InfoStates}
Untested == {[history |-> h, ongoing |-> 0, version |-> "unknown", infoLatMs |-> l,
              infoFail |-> f, relays |-> {}] : h \in {<<>>, <<0>>}, l \in 0..1, f \in BOOLEAN}

EntryDatas ==
    [pingDuration : {0, 1, 2}, segOngoing : {0, 1}, segHistory : {<<>>, <<0>>, <<1>>},
     msgsLats : {<<>>, <<1>>, <<2>>}, msgsErrors : {0, 1}]
Pinged == [pingDuration |-> 1, segOngoing |-> 0, segHistory |-> <<>>, msgsLats |-> <<>>, msgsErrors |-> 0]

\* An entry sees the relays, one of an old version and the exit xa; it has
\* channels to the first relay, to the old one and to the exit.
Connected ==
    {[peerId |-> r, peerAddress |-> r, compatible |-> TRUE] : r \in Relays \cup {"xa"}} \cup
    {[peerId |-> "old", peerAddress |-> "old", compatible |-> FALSE]}
OpenChannels == {CHOOSE r \in Relays : TRUE, "old", "xa"}
Pair(data, exits) ==
    LET peers == potentialPeers(Connected)
    IN  [data |-> data, exits |-> exits, peers |-> {p.peerId : p \in peers},
         relays |-> potentialRelays(peers, OpenChannels)]

NoData == [history |-> <<>>, ongoing |-> 0, version |-> "unknown", infoLatMs |-> 0,
           infoFail |-> FALSE, relays |-> {}]

\* One exit behind each of two entries, two behind one, three behind two; and
\* two entries that make the difference.
NodePairs ==
    \/ \E a, b \in ExitDatas :
         \/ input = [ea |-> Pair(Pinged, [xa |-> a]), eb |-> Pair(Pinged, [xa |-> b])]
         \/ input = [ea |-> Pair(Pinged, [xa |-> a, xb |-> b])]
    \/ \E a, b, c \in Untested :
         input = [ea |-> Pair(Pinged, [xa |-> a, xb |-> b]), eb |-> Pair(Pinged, [xb |-> c])]
    \/ \E d, f \in EntryDatas :
         input = [ea |-> Pair(d, [xa |-> NoData]), eb |-> Pair(f, [xa |-> NoData])]

-----------------------------------------------------------------------------
(* Settings *)

\* Objects with some of the names.
OptionalKeys(names, values) == UNION {[D -> values] : D \in SUBSET names}

\* "5s" begins with a number.
MCNumerals ==
    [text \in {"0", "5", "-5", "5s"} |->
       CASE text = "0" -> "zero" [] text = "-5" -> "minus five" [] OTHER -> "five"]

Texts == {Undefined, "", "0", "5", "-5", "5s", "soon"}
Environments ==
    [PORT : Texts, RESPONSE_TIMEOUT : Texts, PROVIDER : {Undefined, "", "main"},
     FORCE_ZERO_HOP : {Undefined, "no", "yes"}, FORCE_MANUAL_RELAYING : {Undefined, "no", "yes"}]
Queries == [hasUrl : BOOLEAN, provider : {Undefined, "", "other"}, timeout : Texts]

Parts == {<<"">>, <<"x-key">>, <<"x-key", "">>, <<"x-key", "p">>, <<"x-key", "q", "r">>,
          <<"accept", "p">>, <<"Content-Type", "p">>, <<"X-Key", "p">>}
IncomingHeaders == OptionalKeys({"x-key", "accept"}, {"", "i"})
HeaderInputs ==
    [provider : {"propellerheads", "main"}, kickback : {Undefined, "", "address"},
     opsHeaders : OptionalKeys({"x-key", "Content-Type"}, {"o"}),
     hasUrl : BOOLEAN, incoming : IncomingHeaders, params : {<<>>} \cup {<<p>> : p \in Parts} \cup (Parts \X Parts)]

Versions == ({"0", "1", "NaN"} \X {"0", "1"} \X {"0", "1"}) \cup {<<"1", "0">>}
Published == OptionalKeys({"sdk", "rpcServer"}, Versions)
OwnVersions == [sdk : {<<"0", "1", "0">>, <<"1", "0", "1">>}, rpcServer : {<<"0", "1", "1">>, <<"1", "1", "0">>}]

-----------------------------------------------------------------------------

Init ==
    \/ kind = "topology" /\ input \in Topologies
    \/ kind \in Kinds /\ input \in PayloadsOf(kind)
    \/ kind = "node pairs" /\ NodePairs
    \/ kind = "options" /\ input \in [env : Environments, query : Queries]
    \/ kind = "headers" /\ input \in HeaderInputs
    \/ kind = "versions" /\ input \in [rows : Published, own : OwnVersions]

Next == UNCHANGED <<kind, input>>

Spec == Init /\ [][Next]_<<kind, input>>

-----------------------------------------------------------------------------
(* Properties *)

\* zeroHop and oneHop pair exactly the nodes that see each other, directly or
\* by a paid relay there and one back, and the filter keeps the online ones.
RoutesAreExact ==
    kind = "topology" => RoutesExact(input.channels, input.entryPeers, input.exitPeers, input.online)

\* Payloads of every kind come out of their transport form as they went in,
\* but for optional fields that are falsy.
PayloadsSurviveTransport == kind \in Kinds => RoundTrip(kind, input)

\* The route that is selected is the best of the routes with what relays it
\* needs, and the fallback avoids the entry that it is told to.
SelectedRoutesAreBest ==
    kind = "node pairs" =>
      \A manual \in BOOLEAN :
        /\ SelectionIsBest(input, createRoutePerfs(input, manual))
        /\ RelaysSuit(createRoutePerfs(input, manual), manual, Relays \cup {"xa"})
        /\ \A r \in fallbackRoutePair(input, "ea", manual).routes : r.entry # "ea"

\* A request is sent with the settings nearest to it.
SettingsTakeEffect ==
    /\ kind = "options" => OptionsTakeEffect(input.env, input.query)
    /\ kind = "headers" =>
         HeadersTakeEffect(input.provider, input.kickback, input.opsHeaders,
                           input.hasUrl, input.incoming, input.params)

\* Version mismatches are reported as bad as they are.
VersionMismatchesRanked == kind = "versions" => VersionsRanked(input.rows, input.own)
==============================================================================
