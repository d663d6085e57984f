-------------------------- MODULE AvailabilityProofs --------------------------
(***************************************************************************)
(* Proofs about AvailabilityMonitor for every network of nodes.            *)
(*                                                                         *)
(* Types, the two claims about published routes and the implementation of  *)
(* RouteTables hold under all faults; that online means answered now needs *)
(* a network in which the nodes do not refuse to delete messages and no    *)
(* pong outlives its run.                                                  *)
(***************************************************************************)
EXTENDS AvailabilityMonitor, TLAPS

-----------------------------------------------------------------------------
(* The route computations *)

\* A pair is in the expansion of a map exactly if the map says so.
LEMMA PairingsMembers ==
    ASSUME NEW map, NEW e, NEW x
    PROVE  <<e, x>> \in toPairings(map) <=> e \in DOMAIN map /\ x \in map[e]
BY DEF toPairings

\* Every member of the expansion is a pair.
LEMMA PairingsArePairs ==
    ASSUME NEW map, NEW r \in toPairings(map)
    PROVE  \E e \in DOMAIN map : \E x \in map[e] : r = <<e, x>>
BY DEF toPairings

\* A reverted map has v for id exactly if the map has id for v.
LEMMA RevertMembers ==
    ASSUME NEW map, NEW v, NEW id
    PROVE  v \in DOMAIN revertMap(map) /\ id \in revertMap(map)[v]
             <=> id \in DOMAIN map /\ v \in map[id]
BY DEF revertMap

\* A pair is a zero hop route exactly if its nodes see each other.
LEMMA ZeroHopMembers ==
    ASSUME NEW ePeers, NEW xPeers, NEW e, NEW x
    PROVE  <<e, x>> \in toPairings(zeroHop(ePeers, xPeers)) <=>
             /\ e \in DOMAIN ePeers /\ x \in ePeers[e]
             /\ x \in DOMAIN xPeers /\ e \in xPeers[x]
<1> DEFINE hops == zeroHop(ePeers, xPeers)
<1>1. DOMAIN hops = DOMAIN ePeers \cap DOMAIN revertMap(xPeers)
  BY DEF zeroHop
<1>2. \A id \in DOMAIN hops : hops[id] = ePeers[id] \cap revertMap(xPeers)[id]
  BY DEF zeroHop
<1>3. <<e, x>> \in toPairings(hops) <=> e \in DOMAIN hops /\ x \in hops[e]
  BY PairingsMembers
<1>4. e \in DOMAIN revertMap(xPeers) /\ x \in revertMap(xPeers)[e]
        <=> x \in DOMAIN xPeers /\ e \in xPeers[x]
  BY RevertMembers
<1> HIDE DEF hops
<1>5. <<e, x>> \in toPairings(hops) <=>
        /\ e \in DOMAIN ePeers /\ x \in ePeers[e]
        /\ x \in DOMAIN xPeers /\ e \in xPeers[x]
  BY <1>1, <1>2, <1>3, <1>4
<1> QED
  BY <1>5 DEF hops

\* zeroHop of the availability monitor pairs exactly the entries and exits
\* that see each other, whatever the nodes reported.
LEMMA ZeroHopIsExact ==
    ASSUME NEW ePeers, NEW xPeers
    PROVE  toPairings(zeroHop(ePeers, xPeers)) = ZeroHopRoutes(ePeers, xPeers)
<1> DEFINE pairs == toPairings(zeroHop(ePeers, xPeers))
           mutual == {r \in (DOMAIN ePeers) \X (DOMAIN xPeers) :
                        r[2] \in ePeers[r[1]] /\ r[1] \in xPeers[r[2]]}
<1>1. ASSUME NEW r \in pairs PROVE r \in mutual
  <2>1. PICK e, x : r = <<e, x>>
    BY PairingsArePairs
  <2>2. e \in DOMAIN ePeers /\ x \in ePeers[e] /\ x \in DOMAIN xPeers /\ e \in xPeers[x]
    BY <2>1, ZeroHopMembers
  <2> QED
    BY <2>1, <2>2
<1>2. ASSUME NEW r \in mutual PROVE r \in pairs
  <2>1. PICK e \in DOMAIN ePeers, x \in DOMAIN xPeers :
          r = <<e, x>> /\ x \in ePeers[e] /\ e \in xPeers[x]
    OBVIOUS
  <2> QED
    BY <2>1, ZeroHopMembers
<1> QED
  BY <1>1, <1>2 DEF ZeroHopRoutes

\* filterChannels has id exactly if it has peers and a channel.
LEMMA ChannelPeers ==
    ASSUME NEW peers, NEW chs
    PROVE  /\ DOMAIN filterChannels(peers, chs) = DOMAIN peers \cap DOMAIN chs
           /\ \A id \in DOMAIN peers \cap DOMAIN chs :
                filterChannels(peers, chs)[id] = peers[id] \cap chs[id]
BY DEF filterChannels

\* A pair is a one hop route exactly if there is a paid relay there and back.
LEMMA OneHopMembers ==
    ASSUME NEW chs, NEW ePeers, NEW xPeers, NEW e, NEW x
    PROVE  <<e, x>> \in toPairings(oneHop(chs, ePeers, xPeers)) <=>
             /\ e \in DOMAIN ePeers \cap DOMAIN chs
             /\ x \in DOMAIN xPeers \cap DOMAIN chs
             /\ \E p \in ePeers[e] \cap chs[e] : p \in xPeers[x]
             /\ \E q \in xPeers[x] \cap chs[x] : q \in ePeers[e]
<1> DEFINE hops == oneHop(chs, ePeers, xPeers)
           payEntry == filterChannels(ePeers, chs)
           payExit == filterChannels(xPeers, chs)
           reverse == revertMap(xPeers)
           behind == UNION {reverse[p] : p \in payEntry[e] \cap DOMAIN reverse}
<1>1. DOMAIN hops = DOMAIN payEntry
  BY DEF oneHop
<1>2. e \in DOMAIN hops => hops[e] = {z \in behind \cap DOMAIN payExit : payExit[z] \cap ePeers[e] # {}}
  BY DEF oneHop
<1>3. <<e, x>> \in toPairings(hops) <=> e \in DOMAIN hops /\ x \in hops[e]
  BY PairingsMembers
<1>4. x \in behind <=> \E p \in payEntry[e] : x \in DOMAIN xPeers /\ p \in xPeers[x]
  <2>1. \A p : p \in DOMAIN reverse /\ x \in reverse[p] <=> x \in DOMAIN xPeers /\ p \in xPeers[x]
    BY RevertMembers
  <2> HIDE DEF payEntry, reverse
  <2> QED
    BY <2>1
<1>5. /\ DOMAIN payEntry = DOMAIN ePeers \cap DOMAIN chs
      /\ \A id \in DOMAIN ePeers \cap DOMAIN chs : payEntry[id] = ePeers[id] \cap chs[id]
  BY ChannelPeers
<1>6. /\ DOMAIN payExit = DOMAIN xPeers \cap DOMAIN chs
      /\ \A id \in DOMAIN xPeers \cap DOMAIN chs : payExit[id] = xPeers[id] \cap chs[id]
  BY ChannelPeers
<1> HIDE DEF hops, payEntry, payExit, reverse, behind
<1>7. x \in hops[e] /\ e \in DOMAIN hops
        <=> e \in DOMAIN hops /\ x \in behind /\ x \in DOMAIN payExit /\ payExit[x] \cap ePeers[e] # {}
  BY <1>2
<1>8. <<e, x>> \in toPairings(hops) <=>
        /\ e \in DOMAIN ePeers \cap DOMAIN chs
        /\ x \in DOMAIN xPeers \cap DOMAIN chs
        /\ \E p \in ePeers[e] \cap chs[e] : p \in xPeers[x]
        /\ \E q \in xPeers[x] \cap chs[x] : q \in ePeers[e]
  BY <1>1, <1>3, <1>4, <1>5, <1>7, <1>6
<1> QED
  BY <1>8 DEF hops

\* oneHop of the availability monitor pairs exactly the entries and exits
\* with a relay there and one back, for all reports and all channels.
LEMMA OneHopIsExact ==
    ASSUME NEW chs, NEW ePeers, NEW xPeers
    PROVE  toPairings(oneHop(chs, ePeers, xPeers)) = OneHopRoutes(chs, ePeers, xPeers)
<1> DEFINE pairs == toPairings(oneHop(chs, ePeers, xPeers))
           routes == {r \in ((DOMAIN ePeers) \cap DOMAIN chs) \X
                            ((DOMAIN xPeers) \cap DOMAIN chs) :
                        /\ \E p \in ePeers[r[1]] \cap chs[r[1]] : p \in xPeers[r[2]]
                        /\ \E q \in xPeers[r[2]] \cap chs[r[2]] : q \in ePeers[r[1]]}
<1>1. ASSUME NEW r \in pairs PROVE r \in routes
  <2>1. PICK e, x : r = <<e, x>>
    BY PairingsArePairs
  <2>2. /\ e \in DOMAIN ePeers \cap DOMAIN chs
        /\ x \in DOMAIN xPeers \cap DOMAIN chs
        /\ \E p \in ePeers[e] \cap chs[e] : p \in xPeers[x]
        /\ \E q \in xPeers[x] \cap chs[x] : q \in ePeers[e]
    BY <2>1, OneHopMembers
  <2> QED
    BY <2>1, <2>2
<1>2. ASSUME NEW r \in routes PROVE r \in pairs
  <2>1. PICK e \in DOMAIN ePeers \cap DOMAIN chs, x \in DOMAIN xPeers \cap DOMAIN chs :
          /\ r = <<e, x>>
          /\ \E p \in ePeers[e] \cap chs[e] : p \in xPeers[x]
          /\ \E q \in xPeers[x] \cap chs[x] : q \in ePeers[e]
    OBVIOUS
  <2> QED
    BY <2>1, OneHopMembers
<1> QED
  BY <1>1, <1>2 DEF OneHopRoutes

\* filterOnline keeps exactly the routes whose exit answered.
LEMMA FilterOnlineIsExact ==
    ASSUME NEW pairs, NEW online
    PROVE  toPairings(filterOnline(pairs, online)) = WithOnlineExit(toPairings(pairs), online)
<1> DEFINE kept == filterOnline(pairs, online)
<1>1. ASSUME NEW e, NEW x
      PROVE  <<e, x>> \in toPairings(kept) <=> <<e, x>> \in toPairings(pairs) /\ x \in online
  <2>1. DOMAIN kept = {id \in DOMAIN pairs : pairs[id] \cap online # {}}
    BY DEF filterOnline
  <2>2. \A id \in DOMAIN kept : kept[id] = pairs[id] \cap online
    BY DEF filterOnline
  <2>3. <<e, x>> \in toPairings(kept) <=> e \in DOMAIN kept /\ x \in kept[e]
    BY PairingsMembers
  <2>4. <<e, x>> \in toPairings(pairs) <=> e \in DOMAIN pairs /\ x \in pairs[e]
    BY PairingsMembers
  <2> HIDE DEF kept
  <2> QED
    BY <2>1, <2>2, <2>3, <2>4
<1>2. ASSUME NEW r \in toPairings(kept) PROVE r \in toPairings(pairs) /\ r[2] \in online
  BY <1>1, PairingsArePairs
<1>3. ASSUME NEW r \in toPairings(pairs), r[2] \in online PROVE r \in toPairings(kept)
  <2>1. PICK e, x : r = <<e, x>>
    BY PairingsArePairs
  <2>2. x \in online
    BY <1>3, <2>1
  <2> QED
    BY <1>1, <2>1, <2>2
<1> QED
  BY <1>2, <1>3 DEF WithOnlineExit

\* Whatever the nodes reported, however large the network is: the routes that
\* are computed are exactly those of the topology.
THEOREM TopologiesExact ==
    ASSUME NEW chs, NEW ePeers, NEW xPeers, NEW online
    PROVE  RoutesExact(chs, ePeers, xPeers, online)
BY ZeroHopIsExact, OneHopIsExact, FilterOnlineIsExact DEF RoutesExact

-----------------------------------------------------------------------------
(* Maps *)

\* What it means to be a map from some keys in S to sets of values in T.
LEMMA MapMembers ==
    ASSUME NEW S, NEW T, NEW map \in PartialMaps(S, T)
    PROVE  /\ DOMAIN map \subseteq S
           /\ \A id \in DOMAIN map : map[id] \subseteq T
<1>1. PICK D \in SUBSET S : map \in [D -> SUBSET T]
  BY DEF PartialMaps
<1> QED
  BY <1>1

\* A map is built key by key.
LEMMA MapBuilt ==
    ASSUME NEW S, NEW T, NEW D \in SUBSET S, NEW map \in [D -> SUBSET T]
    PROVE  map \in PartialMaps(S, T)
BY DEF PartialMaps

\* zeroHop maps entries to exits.
LEMMA ZeroHopTyped ==
    ASSUME NEW S, NEW T, NEW I,
           NEW eps \in PartialMaps(S, I), NEW xps \in PartialMaps(T, I)
    PROVE  zeroHop(eps, xps) \in PartialMaps(S, T)
<1> DEFINE D == DOMAIN eps \cap DOMAIN revertMap(xps)
<1>1. D \in SUBSET S
  BY MapMembers
<1>2. \A e \in D : eps[e] \cap revertMap(xps)[e] \subseteq T
  <2>1. \A e \in D : revertMap(xps)[e] \subseteq DOMAIN xps
    BY DEF revertMap
  <2> QED
    BY <2>1, MapMembers
<1>3. zeroHop(eps, xps) = [e \in D |-> eps[e] \cap revertMap(xps)[e]]
  BY DEF zeroHop
<1>4. zeroHop(eps, xps) \in [D -> SUBSET T]
  BY <1>2, <1>3
<1> QED
  BY <1>1, <1>4, MapBuilt

\* oneHop maps entries to exits.
LEMMA OneHopTyped ==
    ASSUME NEW S, NEW T, NEW I, NEW chs,
           NEW eps \in PartialMaps(S, I), NEW xps \in PartialMaps(T, I)
    PROVE  oneHop(chs, eps, xps) \in PartialMaps(S, T)
<1> DEFINE hops == oneHop(chs, eps, xps)
           D == DOMAIN filterChannels(eps, chs)
<1>1. D \in SUBSET S
  BY MapMembers DEF filterChannels
<1>2. \A e \in D : hops[e] \subseteq DOMAIN filterChannels(xps, chs)
  BY DEF oneHop
<1>3. DOMAIN filterChannels(xps, chs) \subseteq T
  BY MapMembers DEF filterChannels
<1>4. hops = [e \in D |-> hops[e]]
  BY DEF oneHop
<1>5. hops \in [D -> SUBSET T]
  <2> HIDE DEF hops, D
  <2> QED
    BY <1>2, <1>3, <1>4
<1> QED
  BY <1>1, <1>5, MapBuilt

\* The pairs that are written are pairs of an entry and an exit.
LEMMA OnlinePairsTyped ==
    ASSUME NEW pairs \in PartialMaps(Entries, Exits)
    PROVE  OnlinePairs(pairs) \subseteq Routes2
<1> SUFFICES ASSUME NEW r \in OnlinePairs(pairs) PROVE r \in Routes2
  OBVIOUS
<1>1. r \in toPairings(pairs)
  BY FilterOnlineIsExact DEF OnlinePairs, WithOnlineExit
<1>2. PICK e \in DOMAIN pairs : \E x \in pairs[e] : r = <<e, x>>
  BY <1>1, PairingsArePairs
<1> QED
  BY <1>2, MapMembers DEF Routes2

\* No map at all.
LEMMA NoMapTyped == \A S, T : NoMap \in PartialMaps(S, T)
<1> SUFFICES ASSUME NEW S, NEW T PROVE NoMap \in PartialMaps(S, T)
  OBVIOUS
<1>1. NoMap \in [{} -> SUBSET T]
  BY DEF NoMap
<1> QED
  BY <1>1, MapBuilt

-----------------------------------------------------------------------------
(* Type correctness *)

\* The variables of the run, apart from what the environment changes.
RunTyped ==
    /\ entryRows \subseteq Entries /\ exitRows \subseteq Exits
    /\ entryPeers \in PartialMaps(Entries, Ids)
    /\ exitPeers \in PartialMaps(Exits, Ids)
    /\ candidates \subseteq Entries
    /\ channels \in PartialMaps(Nodes, Ids)
    /\ exitIds \in [Nodes -> SUBSET Exits]
    /\ stage \in [Nodes -> {"unused", "delete", "send", "pop", "done", "failed", "garbled"}]
    /\ heard \subseteq Pongs

\* The routes that were computed are routes from entries to exits.
LEMMA PairsTyped ==
    ASSUME TypeOK
    PROVE  zhPairs \in PartialMaps(Entries, Exits) /\ ohPairs \in PartialMaps(Entries, Exits)
BY ZeroHopTyped, OneHopTyped DEF TypeOK, zhPairs, ohPairs

\* An idle run is well typed.
LEMMA IdleTyped == Idle => RunTyped'
BY NoMapTyped DEF Idle, RunTyped

\* A run that ends or that throws leaves everything well typed.
LEMMA EndTyped ==
    ASSUME TypeOK, Idle, pc' \in {"timer", "dead"}, UNCHANGED <<nodeVars, netVars>>,
           zeroHopTable' \subseteq Routes2, oneHopTable' \subseteq Routes2
    PROVE  TypeOK'
BY IdleTyped DEF TypeOK, RunTyped, nodeVars, netVars

LEMMA InitTyped == Init => TypeOK
<1> SUFFICES ASSUME Init PROVE TypeOK
  OBVIOUS
<1>1. churn \in 0..MaxChurn
  BY ChurnAssumption DEF Init
<1>2. inbox \in [Nodes -> SUBSET Pongs] /\ exitIds \in [Nodes -> SUBSET Exits]
  BY DEF Init
<1> QED
  BY <1>1, <1>2, NoMapTyped DEF Init, TypeOK

\* The steps of the environment.
LEMMA EnvironmentTyped == TypeOK /\ Environment => TypeOK'
<1> SUFFICES ASSUME TypeOK, Environment PROVE TypeOK'
  OBVIOUS
<1> USE DEF nodeVars, tables, rowVars, peerVars, pingVars, netVars
<1>1. ASSUME NEW n \in Nodes, Register(n) \/ Unregister(n) PROVE TypeOK'
  <2>1. churn' \in 0..MaxChurn
    BY <1>1, ChurnAssumption DEF Register, Unregister, TypeOK
  <2> QED
    BY <1>1, <2>1 DEF Register, Unregister, TypeOK
<1>2. ASSUME NEW x \in Exits, ExitAppStops(x) \/ ExitAppStarts(x) PROVE TypeOK'
  BY <1>2 DEF ExitAppStops, ExitAppStarts, TypeOK
<1>3. ASSUME NEW f \in flying, Pong(f) PROVE TypeOK'
  <2>1. f \in Nodes \X Pongs
    BY DEF TypeOK
  <2>2. inbox' \in [Nodes -> SUBSET Pongs]
    BY <1>3, <2>1 DEF Pong, TypeOK
  <2>3. flying' \subseteq Nodes \X Pongs
    BY <1>3 DEF Pong, TypeOK
  <2> QED
    BY <1>3, <2>2, <2>3 DEF Pong, TypeOK
<1>4. ASSUME NEW f \in flying, Lost(f) PROVE TypeOK'
  BY <1>4 DEF Lost, TypeOK
<1> QED
  BY <1>1, <1>2, <1>3, <1>4 DEF Environment

\* A report is a map from the nodes asked to ids.
LEMMA ReportsTyped ==
    ASSUME NEW S, NEW nodes \in SUBSET S, NEW map \in Reports(nodes)
    PROVE  map \in PartialMaps(S, Ids) /\ DOMAIN map \subseteq nodes
<1>1. PICK D \in SUBSET nodes : map \in [D -> SUBSET Ids]
  BY DEF Reports, PartialMaps
<1> QED
  BY <1>1, MapBuilt

\* The channels of some nodes are a map from them to ids.
LEMMA ChannelsTyped ==
    ASSUME TypeOK,
           NEW chs \in SUBSET {c \in Channels : c[1] \in DOMAIN entryPeers \cup DOMAIN exitPeers}
    PROVE  channelsMap(chs) \in PartialMaps(Nodes, Ids)
<1> DEFINE D == {c[1] : c \in chs}
<1>1. D \in SUBSET Nodes
  BY MapMembers DEF TypeOK, Nodes
<1>2. \A c \in chs : c[2] \in Ids
  BY ChannelsAssumption
<1>3. channelsMap(chs) = [s \in D |-> {c[2] : c \in {d \in chs : d[1] = s}}]
  BY DEF channelsMap
<1>4. channelsMap(chs) \in [D -> SUBSET Ids]
  BY <1>2, <1>3
<1> QED
  BY <1>1, <1>4, MapBuilt

\* The steps that set up a run.
LEMMA GatherTyped ==
    ASSUME TypeOK, StartRun \/ ReadExitRows \/ GatherEntryPeers \/ GatherExitPeers
                   \/ GatherChannels \/ NoChannels
    PROVE  TypeOK'
<1> USE DEF nodeVars, tables, rowVars, peerVars, pingVars, netVars
<1>1. CASE StartRun
  <2>1. inbox' \in [Nodes -> SUBSET Pongs]
    <3>1. ASSUME NEW n \in Nodes PROVE Aged(inbox[n]) \subseteq Pongs
      <4>1. \A p \in inbox[n] : p[1] \in Exits
        BY DEF TypeOK, Pongs
      <4>2. \A p \in inbox[n] : <<p[1], FALSE>> \in Pongs
        BY <4>1 DEF Pongs
      <4> QED
        BY <4>2 DEF Aged
    <3> QED
      BY <1>1, <3>1 DEF StartRun
  <2>2. flying' \subseteq Nodes \X Pongs
    <3>1. \A f \in flying : f[1] \in Nodes /\ f[2][1] \in Exits
      BY DEF TypeOK, Pongs
    <3>2. \A f \in flying : <<f[1], <<f[2][1], FALSE>>>> \in Nodes \X Pongs
      BY <3>1 DEF Pongs
    <3>3. flying' = {<<f[1], <<f[2][1], FALSE>>>> : f \in flying}
      BY <1>1 DEF StartRun
    <3> QED
      BY <3>2, <3>3
  <2> QED
    BY <1>1, <2>1, <2>2 DEF StartRun, TypeOK
<1>2. CASE ReadExitRows
  <2>1. CASE EndRun
    BY <1>2, <2>1, EndTyped DEF ReadExitRows, EndRun, TypeOK
  <2>2. CASE ~EndRun
    BY <1>2, <2>2 DEF ReadExitRows, TypeOK
  <2> QED
    BY <2>1, <2>2
<1>3. CASE GatherEntryPeers
  <2>1. entryPeers' \in PartialMaps(Entries, Ids)
    BY <1>3, ReportsTyped DEF GatherEntryPeers, TypeOK
  <2> QED
    BY <1>3, <2>1 DEF GatherEntryPeers, TypeOK
<1>4. CASE GatherExitPeers
  <2>1. exitPeers' \in PartialMaps(Exits, Ids)
    BY <1>4, ReportsTyped DEF GatherExitPeers, TypeOK
  <2>2. candidates' \subseteq Entries
    BY <1>4, MapMembers DEF GatherExitPeers, TypeOK
  <2> QED
    BY <1>4, <2>1, <2>2 DEF GatherExitPeers, TypeOK
<1>5. CASE GatherChannels
  <2>1. channels' \in PartialMaps(Nodes, Ids) /\ candidates' = {}
    BY <1>5, NoMapTyped, ChannelsTyped DEF GatherChannels, TypeOK
  <2>2. PICK via \in Assignments :
          /\ exitIds' = [n \in Nodes |-> {x \in DOMAIN via : via[x] = n}]
          /\ stage' = [n \in Nodes |-> IF exitIds'[n] = {} THEN "unused" ELSE "delete"]
          /\ heard' = {}
    BY <1>5 DEF GatherChannels, StartPings
  <2>3. DOMAIN via \subseteq Exits
    <3>1. DOMAIN via \subseteq DOMAIN exitPeers
      BY <2>2 DEF Assignments
    <3> QED
      BY <3>1, MapMembers DEF TypeOK
  <2>4. exitIds' \in [Nodes -> SUBSET Exits]
    BY <2>2, <2>3
  <2>5. stage' \in [Nodes -> {"unused", "delete", "send", "pop", "done", "failed", "garbled"}]
    BY <2>2
  <2> QED
    BY <1>5, <2>1, <2>2, <2>4, <2>5 DEF GatherChannels, TypeOK
<1>6. CASE NoChannels
  BY <1>6 DEF NoChannels, TypeOK
<1> QED
  BY <1>1, <1>2, <1>3, <1>4, <1>5, <1>6

\* The steps of the pings.
LEMMA PingTyped ==
    ASSUME TypeOK, NEW n \in Nodes, PingStep(n)
    PROVE  TypeOK'
<1> USE DEF nodeVars, tables, rowVars, peerVars, pingVars, netVars
<1>1. CASE DeleteLost(n)
  BY <1>1, EndTyped DEF DeleteLost, TypeOK
<1>2. ASSUME NEW from, NEW to \in {"send", "pop", "done", "failed", "garbled"}, Pinging(n, from, to),
             heard' \subseteq Pongs, flying' \subseteq Nodes \X Pongs,
             inbox' \in [Nodes -> SUBSET Pongs]
      PROVE  TypeOK'
  BY <1>2 DEF Pinging, TypeOK
<1>3. CASE DeletePongs(n) \/ DeleteRefused(n) \/ PopFailed(n)
  <2>1. heard' \subseteq Pongs /\ flying' \subseteq Nodes \X Pongs /\ inbox' \in [Nodes -> SUBSET Pongs]
    BY <1>3 DEF DeletePongs, DeleteRefused, PopFailed, TypeOK
  <2> QED
    BY <1>2, <1>3, <2>1 DEF DeletePongs, DeleteRefused, PopFailed
<1>4. CASE SendPings(n)
  <2>1. PICK sent \in SUBSET exitIds[n] : flying' = flying \cup {<<n, <<x, TRUE>>>> : x \in sent}
    BY <1>4 DEF SendPings
  <2>2. sent \subseteq Exits
    BY DEF TypeOK
  <2>3. flying' \subseteq Nodes \X Pongs
    <3>1. \A x \in sent : <<n, <<x, TRUE>>>> \in Nodes \X Pongs
      BY <2>2 DEF Pongs
    <3> QED
      BY <2>1, <3>1 DEF TypeOK
  <2> QED
    BY <1>2, <1>4, <2>3 DEF SendPings, TypeOK
<1>5. CASE PopPongs(n)
  <2>1. heard' \subseteq Pongs /\ flying' \subseteq Nodes \X Pongs /\ inbox' \in [Nodes -> SUBSET Pongs]
    BY <1>5 DEF PopPongs, TypeOK
  <2> QED
    BY <1>2, <1>5, <2>1 DEF PopPongs
<1> QED
  BY <1>1, <1>3, <1>4, <1>5 DEF PingStep

\* Every step preserves the types.
LEMMA NextTyped == TypeOK /\ [Next]_vars => TypeOK'
<1> SUFFICES ASSUME TypeOK, [Next]_vars PROVE TypeOK'
  OBVIOUS
<1> USE DEF nodeVars, tables, rowVars, peerVars, pingVars, netVars
<1>1. CASE ReadFails \/ GarbledChannels \/ WriteFails
  BY <1>1, EndTyped DEF ReadFails, GarbledChannels, WriteFails, Throw, EndRun, TypeOK
<1>2. CASE CollectPongs
  <2>1. CASE EndRun
    BY <1>2, <2>1, EndTyped DEF CollectPongs, EndRun, TypeOK
  <2>2. CASE ~EndRun
    BY <1>2, <2>2 DEF CollectPongs, TypeOK
  <2> QED
    BY <2>1, <2>2
<1>3. CASE WriteZeroHop
  <2>1. zeroHopTable' \subseteq Routes2
    BY <1>3, PairsTyped, OnlinePairsTyped DEF WriteZeroHop
  <2> QED
    BY <1>3, <2>1 DEF WriteZeroHop, TypeOK
<1>4. CASE WriteOneHop
  <2>1. oneHopTable' \subseteq Routes2
    BY <1>4, PairsTyped, OnlinePairsTyped DEF WriteOneHop
  <2> QED
    BY <1>4, <2>1, EndTyped DEF WriteOneHop, EndRun, TypeOK
<1>5. CASE Restart
  BY <1>5 DEF Restart, TypeOK
<1>6. CASE UNCHANGED vars
  BY <1>6 DEF vars, TypeOK
<1> QED
  BY <1>1, <1>2, <1>3, <1>4, <1>5, <1>6, EnvironmentTyped, GatherTyped, PingTyped
     DEF Next, RunStep

\* The availability monitor is type correct for every network.
THEOREM TypeCorrect == Spec => []TypeOK
BY InitTyped, NextTyped, PTL DEF Spec

-----------------------------------------------------------------------------
(* Published are the routes that were observed *)

\* Nothing but the two writes touches the tables.
LEMMA TablesKept ==
    ASSUME [Next]_vars, ~WriteZeroHop, ~WriteOneHop
    PROVE  UNCHANGED tables
<1> USE DEF nodeVars, tables, rowVars, peerVars, pingVars, netVars
<1>1. CASE Environment
  BY <1>1 DEF Environment, Register, Unregister, ExitAppStops, ExitAppStarts, Pong, Lost
<1>2. CASE StartRun \/ ReadExitRows \/ ReadFails \/ GatherEntryPeers \/ GatherExitPeers
  BY <1>2 DEF StartRun, ReadExitRows, ReadFails, GatherEntryPeers, GatherExitPeers, Throw
<1>3. CASE GatherChannels \/ NoChannels \/ GarbledChannels
  BY <1>3 DEF GatherChannels, NoChannels, GarbledChannels, Throw
<1>4. ASSUME NEW n \in Nodes, PingStep(n) PROVE UNCHANGED tables
  BY <1>4 DEF PingStep, DeletePongs, DeleteRefused, DeleteLost, SendPings, PopPongs, PopFailed, Pinging
<1>5. CASE CollectPongs \/ WriteFails \/ Restart
  BY <1>5 DEF CollectPongs, WriteFails, Restart, Throw
<1>6. CASE UNCHANGED vars
  BY <1>6 DEF vars
<1> QED
  BY <1>1, <1>2, <1>3, <1>4, <1>5, <1>6 DEF Next, RunStep

\* What is written are the routes of the topology with an exit that was heard.
LEMMA WrittenRoutes ==
    /\ OnlinePairs(zhPairs) = WithOnlineExit(ZeroHopRoutes(entryPeers, exitPeers), Online)
    /\ OnlinePairs(ohPairs) = WithOnlineExit(OneHopRoutes(channels, entryPeers, exitPeers), Online)
BY TopologiesExact DEF RoutesExact, OnlinePairs, zhPairs, ohPairs

\* Only one step leads from the first transaction to the second.
LEMMA FirstWritten ==
    ASSUME [Next]_vars, pc = "writeZeroHop", pc' = "writeOneHop"
    PROVE  WriteZeroHop
<1> USE DEF nodeVars, tables, rowVars, peerVars, pingVars, netVars
<1>1. ~Environment
  BY DEF Environment, Register, Unregister, ExitAppStops, ExitAppStarts, Pong, Lost
<1>2. ~(StartRun \/ ReadExitRows \/ ReadFails \/ GatherEntryPeers \/ GatherExitPeers)
  BY DEF StartRun, ReadExitRows, ReadFails, GatherEntryPeers, GatherExitPeers
<1>3. ~(GatherChannels \/ NoChannels \/ GarbledChannels)
  BY DEF GatherChannels, NoChannels, GarbledChannels
<1>4. ~(\E n \in Nodes : PingStep(n))
  BY DEF PingStep, DeletePongs, DeleteRefused, DeleteLost, SendPings, PopPongs, PopFailed, Pinging
<1>5. ~(CollectPongs \/ WriteOneHop \/ WriteFails \/ Restart \/ UNCHANGED vars)
  BY DEF CollectPongs, WriteOneHop, WriteFails, Restart, Throw, EndRun, vars
<1> QED
  BY <1>1, <1>2, <1>3, <1>4, <1>5 DEF Next, RunStep

\* The zero hop table is replaced by exactly what its run observed, in every
\* network, whatever fails and whatever is registered meanwhile.
THEOREM ZeroHopObserved == Spec => ZeroHopRoutesObserved
<1> DEFINE routes == WithOnlineExit(ZeroHopRoutes(entryPeers, exitPeers), Online)
           step == (pc = "writeZeroHop" /\ pc' = "writeOneHop") \/ zeroHopTable' # zeroHopTable =>
                     zeroHopTable' = routes
<1>1. ASSUME [Next]_vars PROVE step
  <2>1. CASE WriteZeroHop
    <3>1. zeroHopTable' = OnlinePairs(zhPairs)
      BY <2>1 DEF WriteZeroHop
    <3> QED
      BY <3>1, WrittenRoutes
  <2>2. CASE ~WriteZeroHop
    <3>1. zeroHopTable' = zeroHopTable
      BY <1>1, <2>2, TablesKept DEF WriteOneHop, tables
    <3>2. ~(pc = "writeZeroHop" /\ pc' = "writeOneHop")
      BY <1>1, <2>2, FirstWritten
    <3> QED
      BY <3>1, <3>2
  <2> QED
    BY <2>1, <2>2
<1>2. [Next]_vars => [step]_<<tables, pc>>
  BY <1>1
<1>3. Spec => [][step]_<<tables, pc>>
  <2> HIDE DEF step
  <2> QED
    BY <1>2, PTL DEF Spec
<1> QED
  BY <1>3 DEF ZeroHopRoutesObserved

\* ... and so is the one hop table, with a paid relay in both directions.
THEOREM OneHopObserved == Spec => OneHopRoutesObserved
<1> DEFINE routes == WithOnlineExit(OneHopRoutes(channels, entryPeers, exitPeers), Online)
           step == oneHopTable' # oneHopTable =>
                     /\ pc = "writeOneHop"
                     /\ oneHopTable' = routes
<1>1. ASSUME [Next]_vars PROVE step
  <2>1. CASE WriteOneHop
    <3>1. oneHopTable' = OnlinePairs(ohPairs) /\ pc = "writeOneHop"
      BY <2>1 DEF WriteOneHop
    <3> QED
      BY <3>1, WrittenRoutes
  <2>2. CASE ~WriteOneHop
    <3>1. oneHopTable' = oneHopTable
      BY <1>1, <2>2, TablesKept DEF WriteZeroHop, tables
    <3> QED
      BY <3>1
  <2> QED
    BY <2>1, <2>2
<1>2. [Next]_vars => [step]_tables
  BY <1>1
<1>3. Spec => [][step]_tables
  <2> HIDE DEF step
  <2> QED
    BY <1>2, PTL DEF Spec
<1> QED
  BY <1>3 DEF OneHopRoutesObserved

\* Both tables are replaced by the observed routes, all of them and no others.
THEOREM RoutesObservedAlways == Spec => RoutesObserved
BY ZeroHopObserved, OneHopObserved DEF RoutesObserved

-----------------------------------------------------------------------------
(* Online means answered now *)

\* Nodes delete their old messages when asked, and no pong is late.
CleanInboxes == "deleteRefused" \notin Faults /\ "latePong" \notin Faults

\* Once a node's inbox was emptied it holds pongs of the running run only, and
\* so does what was popped; inboxes are in use only while pinging.
CurrentPongs ==
    /\ \A p \in heard : p[2]
    /\ \A n \in Nodes : stage[n] \in {"send", "pop"} => \A p \in inbox[n] : p[2]
    /\ pc # "pings" => \A n \in Nodes : stage[n] \notin {"delete", "send", "pop"}

\* A run that is over leaves no inbox in use.
LEMMA IdleCurrent == Idle => CurrentPongs'
BY DEF Idle, CurrentPongs

\* The steps through one node's inbox.
LEMMA PingCurrent ==
    ASSUME CleanInboxes, TypeOK, CurrentPongs, NEW n \in Nodes, PingStep(n)
    PROVE  CurrentPongs'
<1>1. ASSUME NEW from, NEW to, Pinging(n, from, to)
      PROVE  /\ pc = "pings" /\ pc' = "pings" /\ stage[n] = from /\ stage'[n] = to
             /\ \A m \in Nodes \ {n} : stage'[m] = stage[m]
  BY <1>1 DEF Pinging, TypeOK
<1>2. CASE DeleteLost(n)
  BY <1>2, IdleCurrent DEF DeleteLost
<1>3. CASE DeletePongs(n)
  <2>1. heard' = heard /\ inbox'[n] = {} /\ \A m \in Nodes \ {n} : inbox'[m] = inbox[m]
    BY <1>3 DEF DeletePongs, TypeOK
  <2> QED
    BY <1>1, <1>3, <2>1 DEF DeletePongs, CurrentPongs
<1>4. CASE SendPings(n)
  <2>1. heard' = heard /\ inbox' = inbox
    BY <1>4 DEF SendPings
  <2> QED
    BY <1>1, <1>4, <2>1 DEF SendPings, CurrentPongs
<1>5. CASE PopPongs(n)
  <2>1. heard' = heard \cup inbox[n] /\ \A m \in Nodes \ {n} : inbox'[m] = inbox[m]
    BY <1>5 DEF PopPongs, TypeOK
  <2>2. stage[n] = "pop" /\ stage'[n] = "done" /\ pc' = "pings"
    BY <1>1, <1>5 DEF PopPongs
  <2>3. \A p \in heard' : p[2]
    BY <2>1, <2>2 DEF CurrentPongs
  <2> QED
    BY <1>1, <1>5, <2>1, <2>2, <2>3 DEF PopPongs, CurrentPongs
<1>6. CASE PopFailed(n)
  <2>1. heard' = heard /\ inbox' = inbox
    BY <1>6 DEF PopFailed
  <2>2. \E to \in {"failed", "garbled"} : Pinging(n, "pop", to)
    BY <1>6 DEF PopFailed
  <2> QED
    BY <1>1, <2>1, <2>2 DEF CurrentPongs
<1> QED
  BY <1>2, <1>3, <1>4, <1>5, <1>6 DEF PingStep, DeleteRefused, CleanInboxes

\* A pong that arrives in time is one of the running run.
LEMMA EnvironmentCurrent ==
    ASSUME CleanInboxes, TypeOK, CurrentPongs, Environment
    PROVE  CurrentPongs'
<1> USE DEF nodeVars, tables, rowVars, peerVars, pingVars, netVars
<1>1. ASSUME NEW f \in flying, Pong(f) PROVE CurrentPongs'
  <2>1. f[1] \in Nodes /\ f[2][2] /\ UNCHANGED <<heard, stage, pc>>
    BY <1>1 DEF Pong, TypeOK, CleanInboxes, Pongs
  <2>2. /\ inbox'[f[1]] = inbox[f[1]] \cup {f[2]}
        /\ \A m \in Nodes \ {f[1]} : inbox'[m] = inbox[m]
    BY <1>1, <2>1 DEF Pong, TypeOK
  <2> QED
    BY <2>1, <2>2 DEF CurrentPongs
<1>2. CASE UNCHANGED <<heard, stage, pc, inbox>>
  BY <1>2 DEF CurrentPongs
<1> QED
  BY <1>1, <1>2 DEF Environment, Register, Unregister, ExitAppStops, ExitAppStarts, Lost

\* All other steps.
LEMMA RunCurrent ==
    ASSUME CurrentPongs, TypeOK, [Next]_vars, ~Environment, ~(\E n \in Nodes : PingStep(n))
    PROVE  CurrentPongs'
<1> USE DEF nodeVars, tables, rowVars, peerVars, pingVars, netVars
<1>1. CASE Idle
  BY <1>1, IdleCurrent
<1>2. CASE StartRun
  <2>1. heard' = heard /\ stage' = stage /\ pc = "timer"
    BY <1>2 DEF StartRun
  <2> QED
    BY <2>1 DEF CurrentPongs
<1>3. CASE GatherChannels
  <2>1. /\ pc' = "pings" /\ heard' = {}
        /\ \A n \in Nodes : stage'[n] \in {"unused", "delete"}
    BY <1>3 DEF GatherChannels, StartPings
  <2> QED
    BY <2>1 DEF CurrentPongs
<1>4. CASE CollectPongs /\ ~Idle
  <2>1. UNCHANGED <<heard, stage, inbox>>
    BY <1>4 DEF CollectPongs, EndRun
  <2>2. \A n \in Nodes : stage[n] \notin {"delete", "send", "pop"}
    BY <1>4 DEF CollectPongs
  <2> QED
    BY <2>1, <2>2 DEF CurrentPongs
<1>5. CASE pc # "pings" /\ UNCHANGED <<heard, stage, inbox>>
  BY <1>5 DEF CurrentPongs
<1>6. CASE UNCHANGED vars
  BY <1>6 DEF vars, CurrentPongs
<1> QED
  BY <1>1, <1>2, <1>3, <1>4, <1>5, <1>6 DEF Next, RunStep, ReadExitRows, ReadFails,
     GatherEntryPeers, GatherExitPeers, NoChannels, GarbledChannels, WriteZeroHop, WriteOneHop,
     WriteFails, Restart, Throw, EndRun

\* With inboxes that are really emptied an exit counts as online only if it
\* answered a ping of the running run, in every network and with every other
\* failure of nodes and database.
THEOREM AnsweredNow ==
    ASSUME CleanInboxes
    PROVE  Spec => []OnlineMeansAnsweredNow
<1>1. Init => CurrentPongs
  BY DEF Init, CurrentPongs
<1>2. TypeOK /\ CurrentPongs /\ [Next]_vars => CurrentPongs'
  BY EnvironmentCurrent, PingCurrent, RunCurrent
<1>3. CurrentPongs => OnlineMeansAnsweredNow
  BY DEF CurrentPongs, OnlineMeansAnsweredNow
<1> QED
  BY <1>1, <1>2, <1>3, TypeCorrect, PTL DEF Spec

-----------------------------------------------------------------------------
(* The tables that the platform reads *)

TableNames == {"zero_hop_pairings", "one_hop_pairings"}
Shown(zero, one) == [k \in TableNames |-> IF k = "zero_hop_pairings" THEN zero ELSE one]

\* The rows of a transaction that the foreign keys allow may be published.
LEMMA RowsPublishable ==
    ASSUME NEW pairs \in PartialMaps(Entries, Exits), KnownPairs(pairs)
    PROVE  OnlinePairs(pairs) \subseteq Shared!Publishable
BY OnlinePairsTyped DEF KnownPairs, Routes2, Shared!Publishable

\* Nothing but the operator changes what is registered, and the operator
\* changes no table.
LEMMA RegisteredKept ==
    ASSUME [Next]_vars, ~(\E n \in Nodes : Register(n) \/ Unregister(n))
    PROVE  UNCHANGED registered
<1> USE DEF nodeVars, tables, rowVars, peerVars, pingVars, netVars
<1>1. CASE Environment
  BY <1>1 DEF Environment, ExitAppStops, ExitAppStarts, Pong, Lost
<1>2. CASE StartRun \/ ReadExitRows \/ ReadFails \/ GatherEntryPeers \/ GatherExitPeers
  BY <1>2 DEF StartRun, ReadExitRows, ReadFails, GatherEntryPeers, GatherExitPeers, Throw
<1>3. CASE GatherChannels \/ NoChannels \/ GarbledChannels
  BY <1>3 DEF GatherChannels, NoChannels, GarbledChannels, Throw
<1>4. ASSUME NEW n \in Nodes, PingStep(n) PROVE UNCHANGED registered
  BY <1>4 DEF PingStep, DeletePongs, DeleteRefused, DeleteLost, SendPings, PopPongs, PopFailed, Pinging
<1>5. CASE CollectPongs \/ WriteZeroHop \/ WriteOneHop \/ WriteFails \/ Restart
  BY <1>5 DEF CollectPongs, WriteZeroHop, WriteOneHop, WriteFails, Restart, Throw
<1>6. CASE UNCHANGED vars
  BY <1>6 DEF vars
<1> QED
  BY <1>1, <1>2, <1>3, <1>4, <1>5, <1>6 DEF Next, RunStep

\* Every step of the monitor and of the operator is a step of the tables or
\* leaves them as they are.
LEMMA TableStep ==
    ASSUME TypeOK, [Next]_vars
    PROVE  [Shared!Next]_<<Shown(zeroHopTable, oneHopTable), registered>>
<1> DEFINE shown == Shown(zeroHopTable, oneHopTable)
<1>1. CASE WriteZeroHop
  <2>1. /\ zeroHopTable' = OnlinePairs(zhPairs) /\ oneHopTable' = oneHopTable
        /\ registered' = registered /\ KnownPairs(zhPairs)
    BY <1>1 DEF WriteZeroHop, nodeVars
  <2>2. shown' = [shown EXCEPT !["zero_hop_pairings"] = shown'["zero_hop_pairings"]]
    BY <2>1 DEF Shown, TableNames
  <2>3. shown'["zero_hop_pairings"] \subseteq Shared!Publishable
    BY <2>1, PairsTyped, RowsPublishable DEF Shown, TableNames
  <2>4. Shared!Replace("zero_hop_pairings")
    <3> HIDE DEF shown
    <3>1. \E rows \in SUBSET Shared!Publishable : shown' = [shown EXCEPT !["zero_hop_pairings"] = rows]
      BY <2>2, <2>3
    <3> QED
      BY <2>1, <3>1 DEF Shared!Replace, shown, Shown, TableNames
  <2> QED
    BY <2>4 DEF Shared!Next
<1>2. CASE WriteOneHop
  <2>1. /\ oneHopTable' = OnlinePairs(ohPairs) /\ zeroHopTable' = zeroHopTable
        /\ registered' = registered /\ KnownPairs(ohPairs)
    BY <1>2 DEF WriteOneHop, nodeVars
  <2>2. shown' = [shown EXCEPT !["one_hop_pairings"] = shown'["one_hop_pairings"]]
    BY <2>1 DEF Shown, TableNames
  <2>3. shown'["one_hop_pairings"] \subseteq Shared!Publishable
    BY <2>1, PairsTyped, RowsPublishable DEF Shown, TableNames
  <2>4. Shared!Replace("one_hop_pairings")
    <3> HIDE DEF shown
    <3>1. \E rows \in SUBSET Shared!Publishable : shown' = [shown EXCEPT !["one_hop_pairings"] = rows]
      BY <2>2, <2>3
    <3> QED
      BY <2>1, <3>1 DEF Shared!Replace, shown, Shown, TableNames
  <2> QED
    BY <2>4 DEF Shared!Next
<1>3. ASSUME ~WriteZeroHop, ~WriteOneHop PROVE shown' = shown
  BY <1>3, TablesKept DEF tables
<1>4. ASSUME NEW n \in Nodes, Register(n) PROVE Shared!Next
  <2>1. shown' = shown /\ registered' = registered \cup {n}
    BY <1>4 DEF Register, tables
  <2> QED
    BY <2>1 DEF Nodes, Shared!Next, Shared!Register, Shown, TableNames
<1>5. ASSUME NEW n \in Nodes, Unregister(n) PROVE Shared!Next
  <2>1. shown' = shown /\ registered' = registered \ {n}
    BY <1>5 DEF Unregister, tables
  <2>2. \A k \in TableNames : \A r \in shown[k] : n \notin {r[1], r[2]}
    BY <1>5 DEF Unregister, Shown
  <2> QED
    BY <2>1, <2>2 DEF Nodes, Shared!Next, Shared!Unregister, Shown, TableNames
<1>6. CASE ~WriteZeroHop /\ ~WriteOneHop /\ ~(\E n \in Nodes : Register(n) \/ Unregister(n))
  BY <1>3, <1>6, RegisteredKept
<1> QED
  BY <1>1, <1>2, <1>4, <1>5, <1>6

\* In every network and with every failure, the monitor changes the tables as
\* the platform expects it: one at a time, as a whole, to routes between nodes
\* that are registered.
THEOREM RouteTablesImplemented == Spec => ImplementsRouteTables
<1>1. Init => Shared!Init
  <2> SUFFICES ASSUME Init PROVE Shared!Init
    OBVIOUS
  <2>1. registered \subseteq Entries \cup Exits /\ zeroHopTable = {} /\ oneHopTable = {}
    BY DEF Init, Nodes
  <2> QED
    BY <2>1 DEF Shared!Init
<1> DEFINE published == [k \in {"zero_hop_pairings", "one_hop_pairings"} |->
                          IF k = "zero_hop_pairings" THEN zeroHopTable ELSE oneHopTable]
<1>2. TypeOK /\ [Next]_vars => [Shared!Next]_<<published, registered>>
  BY TableStep DEF Shown, TableNames
<1>3. Spec => [][Shared!Next]_<<published, registered>>
  BY <1>2, TypeCorrect, PTL DEF Spec
<1> QED
  BY <1>1, <1>3, PTL DEF Spec, ImplementsRouteTables, Shared!RouteTablesSpec
==============================================================================
