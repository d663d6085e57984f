------------------------------- MODULE Segments -------------------------------
(***************************************************************************)
(* Segmentation of messages for the hopr network and their reassembly.     *)
(*                                                                         *)
(* A request or response is base64 encoded, sliced into segments and sent  *)
(* segment by segment.  The network loses, delays, reorders and duplicates *)
(* segments; the receiver keeps a cache of incomplete messages by request  *)
(* id.  The user of the cache removes a request id when it gives up on it. *)
(*                                                                         *)
(* The text of a message is the sequence of its character positions, so a  *)
(* body is the slice <<from, to>> of it: positions from .. to-1.           *)
(***************************************************************************)
EXTENDS Naturals, FiniteSets

CONSTANTS
    RequestIds,  \* messages under way, by request id
    Size,        \* Size[r]: bytes of the message of r
    MaxBytes,    \* 400 in the code
    MaxCopies    \* bound: how often the network delivers one segment

ASSUME SizeAssumption == Size \in [RequestIds -> Nat]
ASSUME MaxBytesAssumption == MaxBytes \in Nat \ {0}
ASSUME MaxCopiesAssumption == MaxCopies \in Nat

VARIABLES
    sent,       \* requests whose segments were handed to the network
    copies,     \* copies[r][nr]: how often segment nr of r was delivered
    cache,      \* cache[r]: numbers of the cached segments of r; {}: no entry
    count,      \* count[r]: the entry's manually kept count
    completed,  \* completed[r]: how often r was reported complete
    given       \* messages the user of the cache no longer waits for

vars == <<sent, copies, cache, count, completed, given>>

-----------------------------------------------------------------------------
(* segment.ts *)

CeilDiv(a, b) == (a + b - 1) \div b
Least(a, b) == IF a < b THEN a ELSE b

\* bytesToBase64: four characters for every three bytes begun.
Base64Length(bytes) == 4 * CeilDiv(bytes, 3)

\* Broken on purpose: a rest is left out.
TotalCountFloor(r) == Base64Length(Size[r]) \div MaxBytes

\* toSegments: the segments of the message of r.
TotalCount(r) == CeilDiv(Base64Length(Size[r]), MaxBytes)
Segment(r, nr) == [requestId  |-> r,
                   nr         |-> nr,
                   totalCount |-> TotalCount(r),
                   body       |-> <<nr * MaxBytes,
                                    Least((nr + 1) * MaxBytes, Base64Length(Size[r]))>>]
Numbers(r) == {nr \in 0..TotalCount(r) : nr < TotalCount(r)}

AllNumbers == UNION {Numbers(r) : r \in RequestIds}

-----------------------------------------------------------------------------
TypeOK ==
    /\ sent \subseteq RequestIds
    /\ copies \in [RequestIds -> [AllNumbers -> 0..MaxCopies]]
    /\ cache \in [RequestIds -> SUBSET Nat]
    /\ \A r \in RequestIds : cache[r] \subseteq Numbers(r)
    /\ count \in [RequestIds -> Nat]
    /\ completed \in [RequestIds -> Nat]
    /\ given \subseteq RequestIds

Init ==
    /\ sent = {}
    /\ copies = [r \in RequestIds |-> [nr \in AllNumbers |-> 0]]
    /\ cache = [r \in RequestIds |-> {}]
    /\ count = [r \in RequestIds |-> 0]
    /\ completed = [r \in RequestIds |-> 0]
    /\ given = {}

\* The sender slices the message and sends all segments.
Send(r) ==
    /\ r \notin sent
    /\ sent' = sent \cup {r}
    /\ UNCHANGED <<copies, cache, count, completed, given>>

-----------------------------------------------------------------------------
(* segment-cache.ts: the outcomes of incoming *)

Complete(r) == completed' = [completed EXCEPT ![r] = @ + 1]

\* A message of one segment never enters the cache.
SinglePart(s) ==
    /\ s.totalCount = 1
    /\ Complete(s.requestId)
    /\ UNCHANGED <<cache, count>>

AlreadyCached(s) ==
    /\ s.totalCount > 1
    /\ s.nr \in cache[s.requestId]
    /\ UNCHANGED <<cache, count, completed>>

\* Broken on purpose: duplicates are counted.
CountsDuplicates(s) ==
    /\ s.totalCount > 1
    /\ cache[s.requestId] # {}
    /\ IF count[s.requestId] + 1 = s.totalCount
       THEN /\ cache' = [cache EXCEPT ![s.requestId] = {}]
            /\ count' = [count EXCEPT ![s.requestId] = 0]
            /\ Complete(s.requestId)
       ELSE /\ cache' = [cache EXCEPT ![s.requestId] = @ \cup {s.nr}]
            /\ count' = [count EXCEPT ![s.requestId] = @ + 1]
            /\ UNCHANGED completed

\* Broken on purpose: a completed entry stays.
KeepsCompleted(s) ==
    /\ s.totalCount > 1
    /\ cache[s.requestId] # {} /\ s.nr \notin cache[s.requestId]
    /\ cache' = [cache EXCEPT ![s.requestId] = @ \cup {s.nr}]
    /\ count' = [count EXCEPT ![s.requestId] = @ + 1]
    /\ IF count[s.requestId] + 1 = s.totalCount THEN Complete(s.requestId) ELSE UNCHANGED completed

\* Broken on purpose: the count is compared before it counts the segment.
ComparesOldCount(s) ==
    /\ s.totalCount > 1
    /\ cache[s.requestId] # {} /\ s.nr \notin cache[s.requestId]
    /\ IF count[s.requestId] = s.totalCount
       THEN /\ cache' = [cache EXCEPT ![s.requestId] = {}]
            /\ count' = [count EXCEPT ![s.requestId] = 0]
            /\ Complete(s.requestId)
       ELSE /\ cache' = [cache EXCEPT ![s.requestId] = @ \cup {s.nr}]
            /\ count' = [count EXCEPT ![s.requestId] = @ + 1]
            /\ UNCHANGED completed

\* A new number joins the entry; the entry leaves when the count says so.
AddToRequest(s) ==
    /\ s.totalCount > 1
    /\ cache[s.requestId] # {} /\ s.nr \notin cache[s.requestId]
    /\ IF count[s.requestId] + 1 = s.totalCount
       THEN /\ cache' = [cache EXCEPT ![s.requestId] = {}]
            /\ count' = [count EXCEPT ![s.requestId] = 0]
            /\ Complete(s.requestId)
       ELSE /\ cache' = [cache EXCEPT ![s.requestId] = @ \cup {s.nr}]
            /\ count' = [count EXCEPT ![s.requestId] = @ + 1]
            /\ UNCHANGED completed

\* The first segment of a message opens an entry.
InsertNew(s) ==
    /\ s.totalCount > 1
    /\ cache[s.requestId] = {}
    /\ cache' = [cache EXCEPT ![s.requestId] = {s.nr}]
    /\ count' = [count EXCEPT ![s.requestId] = 1]
    /\ UNCHANGED completed

Incoming(s) == SinglePart(s) \/ AlreadyCached(s) \/ AddToRequest(s) \/ InsertNew(s)

\* The network delivers a segment, possibly once more.
Deliver(r, nr) ==
    /\ r \in sent
    /\ copies[r][nr] < MaxCopies
    /\ copies' = [copies EXCEPT ![r][nr] = @ + 1]
    /\ Incoming(Segment(r, nr))
    /\ UNCHANGED <<sent, given>>

\* remove: whoever waits for the message gives up.
Remove(r) ==
    /\ r \notin given
    /\ given' = given \cup {r}
    /\ cache' = [cache EXCEPT ![r] = {}]
    /\ count' = [count EXCEPT ![r] = 0]
    /\ UNCHANGED <<sent, copies, completed>>

Next ==
    \/ \E r \in RequestIds : Send(r) \/ Remove(r)
    \/ \E r \in RequestIds : \E nr \in Numbers(r) : Deliver(r, nr)

Spec == Init /\ [][Next]_vars

-----------------------------------------------------------------------------
(* Properties *)

\* The slices cover the text without gap or overlap: each segment starts
\* where the one before it ends, none is empty or longer than MaxBytes, and the
\* last one ends with the text.
SlicesCoverMessage ==
    \A r \in sent :
        /\ \A nr \in Numbers(r) :
             /\ Segment(r, nr).body[1] = IF nr = 0 THEN 0 ELSE Segment(r, nr - 1).body[2]
             /\ Segment(r, nr).body[1] < Segment(r, nr).body[2]
             /\ Segment(r, nr).body[2] <= Segment(r, nr).body[1] + MaxBytes
        /\ TotalCount(r) > 0 =>
             Segment(r, TotalCount(r) - 1).body[2] = Base64Length(Size[r])

\* The manual count is the number of cached segments, so an entry that is
\* reported complete holds the segments 0 .. totalCount-1 and toMessage finds
\* every one of them; an incomplete entry never stays behind full.
CountIsCardinality ==
    \A r \in RequestIds :
        /\ count[r] = Cardinality(cache[r])
        /\ cache[r] # {} => count[r] < TotalCount(r)

\* One delivered copy of a segment serves one completion at most, so a message is
\* completed as often as the rarest of its segments arrived at most: duplicates
\* of some do not stand for the others.  A message of one segment is completed
\* by every copy.
CopiesUsedOnce ==
    \A r \in RequestIds : \A nr \in Numbers(r) :
        completed[r] + (IF nr \in cache[r] THEN 1 ELSE 0) <= copies[r][nr]
==============================================================================
