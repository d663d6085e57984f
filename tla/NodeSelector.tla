----------------------------- MODULE NodeSelector -----------------------------
(***************************************************************************)
(* How the SDK's node collector picks a route from an entry to an exit     *)
(* node, as operators on what was measured.                                *)
(*                                                                         *)
(* A Map of node pairs is a function from the ids of entries to records    *)
(* with the measurements of the entry (data), of its exits (exits), and    *)
(* the ids of its peers and of its relays.  Where the code takes the first *)
(* of several equally good candidates, or a random one, the operators      *)
(* return them all.                                                        *)
(***************************************************************************)
EXTENDS Integers, Sequences, FiniteSets

\* {...a, ...b}, of objects without a common field.
Spread(a, b) == [f \in DOMAIN a \cup DOMAIN b |-> IF f \in DOMAIN a THEN a[f] ELSE b[f]]

-----------------------------------------------------------------------------
(* Measurements *)

\* The history after another outcome, a latency or 0: the last max of them.
recorded(history, outcome, max) ==
    LET all == Append(history, outcome)
    IN  IF Len(all) > max THEN Tail(all) ELSE all

\* Only latencies that are set and not 0 count as successes.
Successes(history) == {i \in DOMAIN history : history[i] > 0}
Failures(history) == DOMAIN history \ Successes(history)

\* arr.reduce((acc, l) => acc + l, 0).
Total(lats) ==
    LET acc[i \in 0..Len(lats)] == IF i = 0 THEN 0 ELSE acc[i - 1] + lats[i]
    IN  acc[Len(lats)]

\* average of the latencies at some places, as a fraction: the others are 0,
\* and without latencies it is 0.
average(lats, places) == [sum |-> Total(lats), count |-> Cardinality(places)]
Smaller(a, b) == a.sum * b.count < b.sum * a.count
Positive(a) == a.sum > 0

\* ExitData.perf: version is Unknown and infoLatMs 0 until an answer is read.
exitPerf(xd) ==
    [ongoing  |-> xd.ongoing,
     failures |-> Cardinality(Failures(xd.history)),
     avgLats  |-> average(xd.history, Successes(xd.history)),
     infoFail |-> xd.infoFail, version |-> xd.version, infoLatMs |-> xd.infoLatMs]

\* EntryData.perf.
entryPerf(ed) ==
    [pingDuration |-> ed.pingDuration,
     segOngoing   |-> ed.segOngoing,
     segFailures  |-> Cardinality(Failures(ed.segHistory)),
     segAvgLats   |-> average(ed.segHistory, Successes(ed.segHistory)),
     msgsAvgLats  |-> average(ed.msgsLats, DOMAIN ed.msgsLats),
     msgsFails    |-> ed.msgsErrors]

-----------------------------------------------------------------------------
(* Relays *)

\* incPeers: connected peers of a version that relays, by id and address.
potentialPeers(connected) == {p \in connected : p.compatible}

\* incChannels: those the entry has an open channel to.
potentialRelays(peers, openChannels) == {p.peerId : p \in {q \in peers : q.peerAddress \in openChannels}}

\* determineRelays: an exit tells which peers it can relay through when it
\* is asked, so before that there are none.
determineRelays(np, e, x) ==
    [req |-> np.relays \ {x, e}, resp |-> (np.peers \ {x}) \cap np.exits[x].relays]

\* createRoutePerfs: every route, with manual relaying those that have both
\* relays.  The code picks one of each at random.
createRoutePerfs(nodePairs, forceManualRelaying) ==
    LET relays(e, x) == IF forceManualRelaying THEN determineRelays(nodePairs[e], e, x)
                        ELSE [req |-> {}, resp |-> {}]
        route(e, x) == Spread([entry |-> e, exit |-> x, relays |-> relays(e, x)],
                              exitPerf(nodePairs[e].exits[x]))
        routes == UNION {{route(e, x) : x \in DOMAIN nodePairs[e].exits} : e \in DOMAIN nodePairs}
    IN  {r \in routes : forceManualRelaying => r.relays.req # {} /\ r.relays.resp # {}}

-----------------------------------------------------------------------------
(* Selection *)

\* The candidates that are not worse than any other.
Best(S, Less(_, _)) == {s \in S : \A t \in S : ~Less(t, s)}

versionMatches(routes) == {r \in routes : r.version # "incompatible"}
noInfoFails(routes) == {r \in routes : ~r.infoFail}

\* Broken on purpose: the sorted list is not cut.
leastReqErrorsUncut(routes) == routes

leastReqErrors(routes) == Best(routes, LAMBDA l, r : l.failures < r.failures)
leastReqOngoing(routes) == Best(routes, LAMBDA l, r : l.ongoing < r.ongoing)
bestReqLatencies(routes) ==
    Best({r \in routes : Positive(r.avgLats)}, LAMBDA l, r : Smaller(l.avgLats, r.avgLats))
bestInfoLatencies(routes) ==
    Best({r \in routes : r.infoLatMs > 0}, LAMBDA l, r : l.infoLatMs < r.infoLatMs)

leastSegErrors(entries) == Best(entries, LAMBDA l, r : l.segFailures < r.segFailures)
leastSegOngoing(entries) == Best(entries, LAMBDA l, r : l.segOngoing < r.segOngoing)
bestSegLatencies(entries) ==
    Best({e \in entries : Positive(e.segAvgLats)}, LAMBDA l, r : Smaller(l.segAvgLats, r.segAvgLats))
leastMsgsErrors(entries) == Best(entries, LAMBDA l, r : l.msgsFails < r.msgsFails)
bestMsgsLatencies(entries) ==
    Best({e \in entries : Positive(e.msgsAvgLats)}, LAMBDA l, r : Smaller(l.msgsAvgLats, r.msgsAvgLats))
quickestPing(entries) ==
    Best({e \in entries : e.pingDuration > 0}, LAMBDA l, r : l.pingDuration < r.pingDuration)

\* The first of several lists that is not empty.
FirstOf(lists) ==
    LET found == {i \in DOMAIN lists : lists[i] # {}}
    IN  IF found = {} THEN {} ELSE lists[CHOOSE i \in found : \A j \in found : i <= j]

createEntryPerfs(nodePairs, routes) ==
    {Spread([entry |-> e], entryPerf(nodePairs[e].data)) : e \in {r.entry : r \in routes}}

\* match, from leastSegErrors on: the entries that may be selected.
matchEntries(entries) ==
    LET leastOngoing == leastSegOngoing(leastSegErrors(entries))
        leastErrs == leastMsgsErrors(leastOngoing)
    IN  IF Cardinality(leastOngoing) = 1 THEN leastOngoing
        ELSE FirstOf(<<bestSegLatencies(leastOngoing),
                       IF Cardinality(leastErrs) = 1 THEN leastErrs ELSE {},
                       bestMsgsLatencies(leastErrs),
                       quickestPing(leastErrs)>>)

\* eSuccess: any route through one of the entries, without its relays.
throughEntries(entries, routes) ==
    {[r EXCEPT !.relays = [req |-> {}, resp |-> {}]] :
       r \in {s \in routes : s.entry \in {e.entry : e \in entries}}}

Selected(routes) == [result |-> "selected", routes |-> routes]
Failed(result) == [result |-> result, routes |-> {}]

\* match: the routes that may be selected, or why there is none.  If all of
\* several exits failed to answer, leastReqErrors reads the first of none.
match(nodePairs, routes) ==
    LET matching == versionMatches(routes)
        answering == noInfoFails(matching)
        leastOngoing == leastReqOngoing(leastReqErrors(answering))
        byExits == IF Cardinality(leastOngoing) = 1 THEN leastOngoing
                   ELSE FirstOf(<<bestReqLatencies(leastOngoing), bestInfoLatencies(leastOngoing)>>)
        byEntries == throughEntries(matchEntries(createEntryPerfs(nodePairs, leastOngoing)), leastOngoing)
    IN  IF routes = {} THEN Failed("no nodes")
        ELSE IF Cardinality(routes) = 1 THEN Selected(routes)
        ELSE IF matching = {} THEN Failed("no nodes matching required version")
        ELSE IF Cardinality(matching) = 1 THEN Selected(matching)
        ELSE IF answering = {} THEN Failed("TypeError")
        ELSE IF byExits # {} THEN Selected(byExits)
        ELSE IF byEntries # {} THEN Selected(byEntries)
        ELSE Failed("insufficient data")

routePair(nodePairs, forceManualRelaying) ==
    match(nodePairs, createRoutePerfs(nodePairs, forceManualRelaying))

\* Broken on purpose: an entry is only avoided if there is another.
fallbackPrefersOthers(nodePairs, exclude, forceManualRelaying) ==
    LET routes == createRoutePerfs(nodePairs, forceManualRelaying)
        others == {r \in routes : r.entry # exclude}
    IN  match(nodePairs, IF others = {} THEN routes ELSE others)

\* fallbackRoutePair: the search without the routes of an entry.
fallbackRoutePair(nodePairs, exclude, forceManualRelaying) ==
    LET routes == createRoutePerfs(nodePairs, forceManualRelaying)
    IN  match(nodePairs, {r \in routes : r.entry # exclude})

-----------------------------------------------------------------------------
(* What the selection means *)

\* Route r is to be preferred to s, measured by their exits: fewer failures,
\* then fewer ongoing requests, then the smaller latency, of requests if one
\* is known, else of the information.
Preferred(r, s) ==
    LET faster(a, b) == a.avgLats # b.avgLats /\ Positive(a.avgLats) /\ (Positive(b.avgLats) => Smaller(a.avgLats, b.avgLats))
        informed(a, b) == ~Positive(b.avgLats) /\ a.infoLatMs > 0 /\ (b.infoLatMs > 0 => a.infoLatMs < b.infoLatMs)
    IN  \/ r.failures < s.failures
        \/ r.failures = s.failures /\ r.ongoing < s.ongoing
        \/ r.failures = s.failures /\ r.ongoing = s.ongoing /\ (faster(r, s) \/ informed(r, s))

\* Routes have a relay each way if asked to, of a version that relays and not
\* the exit itself.
RelaysSuit(routes, forceManualRelaying, compatible) ==
    \A r \in routes :
        /\ forceManualRelaying <=> r.relays.req # {} /\ r.relays.resp # {}
        /\ (r.relays.req \cup r.relays.resp) \subseteq compatible \ {r.exit}

\* A route that may be used: the exit is of the right version as far as known,
\* and did not fail to answer.
Usable(r) == r.version # "incompatible" /\ ~r.infoFail

\* Measurements: counters, durations in ms and histories of latencies, in
\* which a failure is 0.
Measured(nodePairs) ==
    \A e \in DOMAIN nodePairs :
        LET ed == nodePairs[e].data
        IN  /\ {ed.pingDuration, ed.segOngoing, ed.msgsErrors} \subseteq Nat
            /\ {ed.segHistory, ed.msgsLats} \subseteq Seq(Nat)
            /\ \A x \in DOMAIN nodePairs[e].exits :
                 LET xd == nodePairs[e].exits[x]
                 IN  {xd.ongoing, xd.infoLatMs} \subseteq Nat /\ xd.history \in Seq(Nat)

\* No usable route is preferred to a selected one, a selected one is only
\* unusable if none is usable, and a usable one is found at the latest when
\* the entries answered the ping.
SelectionIsBest(nodePairs, routes) ==
    LET selection == match(nodePairs, routes)
        usable == {r \in routes : Usable(r)}
    IN  /\ \A s \in selection.routes :
             /\ \E r \in routes : r.entry = s.entry /\ r.exit = s.exit
             /\ \A r \in usable : ~Preferred(r, s) /\ (usable # {} => Usable(s))
        /\ usable # {} /\ (\A e \in DOMAIN nodePairs : nodePairs[e].data.pingDuration > 0)
             => selection.result = "selected"
==============================================================================
