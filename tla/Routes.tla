------------------------------- MODULE Routes --------------------------------
(***************************************************************************)
(* The route computations of the availability monitor, as operators.       *)
(*                                                                         *)
(* A Map<string, Set<string>> of the code is a function from the ids it    *)
(* has to sets of ids: the peers a node sees, the destinations of its      *)
(* payment channels, or the exits an entry reaches.                        *)
(***************************************************************************)
EXTENDS FiniteSets

\* Every Map from some of the keys in S to sets of values in T.
PartialMaps(S, T) == UNION {[D -> SUBSET T] : D \in SUBSET S}

\* toPairings: a map expanded to entry-exit pairs.
toPairings(map) == UNION {{id} \X map[id] : id \in DOMAIN map}

\* revertMap: which ids have v among their values.
revertMap(map) ==
    [v \in UNION {map[id] : id \in DOMAIN map} |-> {id \in DOMAIN map : v \in map[id]}]

\* channelsMap: channels, as source-destination pairs, by their source.
channelsMap(channels) ==
    [s \in {c[1] : c \in channels} |-> {c[2] : c \in {d \in channels : d[1] = s}}]

\* zeroHop: the exits an entry sees and that see the entry.
zeroHop(entryPeers, exitPeers) ==
    LET peersExits == revertMap(exitPeers)
    IN  [e \in DOMAIN entryPeers \cap DOMAIN peersExits |-> entryPeers[e] \cap peersExits[e]]

\* filterChannels: the peers a node has a payment channel to.  A node without
\* any outgoing channel is left out.
filterChannels(peers, channels) ==
    [id \in DOMAIN peers \cap DOMAIN channels |-> peers[id] \cap channels[id]]

\* Broken on purpose: no way back is asked for.
oneHopNoReturn(channels, entryPeers, exitPeers) ==
    LET channelEntryPeers == filterChannels(entryPeers, channels)
    IN  [e \in DOMAIN channelEntryPeers |->
           {x \in DOMAIN exitPeers : channelEntryPeers[e] \cap exitPeers[x] # {}}]

\* oneHop: the exits behind a relay that the entry pays, if one of the relays
\* that the exit pays leads back to the entry.
oneHop(channels, entryPeers, exitPeers) ==
    LET channelEntryPeers == filterChannels(entryPeers, channels)
        channelExitPeers == filterChannels(exitPeers, channels)
        peersExits == revertMap(exitPeers)
        reachable(e) == UNION {peersExits[p] : p \in channelEntryPeers[e] \cap DOMAIN peersExits}
    IN  [e \in DOMAIN channelEntryPeers |->
           {x \in reachable(e) \cap DOMAIN channelExitPeers :
              channelExitPeers[x] \cap entryPeers[e] # {}}]

\* filterOnline: routes to exits whose application answered; entries that are
\* left without an exit disappear.
filterOnline(pairs, online) ==
    [e \in {id \in DOMAIN pairs : pairs[id] \cap online # {}} |-> pairs[e] \cap online]

-----------------------------------------------------------------------------
(* What the computations mean *)

\* A zero hop route is a pair of nodes that see each other.
ZeroHopRoutes(entryPeers, exitPeers) ==
    {r \in (DOMAIN entryPeers) \X (DOMAIN exitPeers) :
       r[2] \in entryPeers[r[1]] /\ r[1] \in exitPeers[r[2]]}

\* A one hop route needs a relay there, paid by the entry and seen by the
\* exit, and a relay back, paid by the exit and seen by the entry.
OneHopRoutes(channels, entryPeers, exitPeers) ==
    {r \in ((DOMAIN entryPeers) \cap DOMAIN channels) \X
           ((DOMAIN exitPeers) \cap DOMAIN channels) :
       /\ \E p \in entryPeers[r[1]] \cap channels[r[1]] : p \in exitPeers[r[2]]
       /\ \E q \in exitPeers[r[2]] \cap channels[r[2]] : q \in entryPeers[r[1]]}

\* Those of the routes whose exit is online.
WithOnlineExit(routes, online) == {r \in routes : r[2] \in online}

\* The computations find exactly the routes of a topology, and the filter keeps
\* exactly those whose exit is online.
RoutesExact(channels, entryPeers, exitPeers, online) ==
    LET zh == zeroHop(entryPeers, exitPeers)
        oh == oneHop(channels, entryPeers, exitPeers)
    IN  /\ toPairings(zh) = ZeroHopRoutes(entryPeers, exitPeers)
        /\ toPairings(oh) = OneHopRoutes(channels, entryPeers, exitPeers)
        /\ toPairings(filterOnline(zh, online)) = WithOnlineExit(toPairings(zh), online)
        /\ toPairings(filterOnline(oh, online)) = WithOnlineExit(toPairings(oh), online)
==============================================================================
