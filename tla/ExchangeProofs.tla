---------------------------- MODULE ExchangeProofs ----------------------------
(***************************************************************************)
(* Proofs about Segments, and about Exchange, which uses it.               *)
(*                                                                         *)
(* For every set of messages, every size of a message and of a segment and *)
(* every behaviour of the network: slices fit together, the segment        *)
(* cache's manual count is right, and no copy of a segment is used for two *)
(* completions.  For every set of requests, versions, keys and clocks: the *)
(* exchange uses the segment caches as Segments says, so all of this holds *)
(* for it, and both ends agree on every answer.                            *)
(***************************************************************************)
EXTENDS Exchange, FiniteSetTheorems, TLAPS

\* The number of segments of a message is a natural number.
LEMMA TotalCountNat == \A r \in RequestIds : TotalCount(r) \in Nat
<1> SUFFICES ASSUME NEW r \in RequestIds PROVE TotalCount(r) \in Nat
  OBVIOUS
<1>1. Size[r] \in Nat
  BY SizeAssumption
<1>2. Base64Length(Size[r]) \in Nat
  BY <1>1 DEF Base64Length, CeilDiv
<1> DEFINE a == Base64Length(Size[r]) + MaxBytes - 1
<1>3. a \in Nat /\ MaxBytes \in Nat /\ MaxBytes > 0
  BY <1>2, MaxBytesAssumption
<1> HIDE DEF a
<1>4. a \div MaxBytes \in Nat
  BY <1>3
<1> QED
  BY <1>4 DEF TotalCount, CeilDiv, a

\* A message's segments are numbered from zero.
LEMMA NumbersSet ==
    ASSUME NEW r \in RequestIds
    PROVE  /\ Numbers(r) = 0..(TotalCount(r) - 1)
           /\ IsFiniteSet(Numbers(r))
           /\ Cardinality(Numbers(r)) = TotalCount(r)
<1>1. TotalCount(r) \in Nat
  BY TotalCountNat
<1>2. Numbers(r) = 0..(TotalCount(r) - 1)
  BY <1>1 DEF Numbers
<1>3. IsFiniteSet(0..(TotalCount(r) - 1)) /\ Cardinality(0..(TotalCount(r) - 1)) = TotalCount(r)
  BY <1>1, FS_Interval
<1> QED
  BY <1>2, <1>3

\* The cached segments of a message are finitely many.
LEMMA CacheFinite ==
    ASSUME TypeOK, NEW r \in RequestIds
    PROVE  IsFiniteSet(cache[r]) /\ Cardinality(cache[r]) \in Nat
BY NumbersSet, FS_Subset, FS_CardinalityType DEF TypeOK

-----------------------------------------------------------------------------
(* Type correctness *)

LEMMA InitTyped == Init => TypeOK
BY MaxCopiesAssumption DEF Init, TypeOK

\* What a delivered segment does to the cache is well typed.
LEMMA IncomingTyped ==
    ASSUME TypeOK, NEW r \in RequestIds, NEW nr \in Numbers(r), Incoming(Segment(r, nr))
    PROVE  /\ cache' \in [RequestIds -> SUBSET Nat]
           /\ \A q \in RequestIds : cache'[q] \subseteq Numbers(q)
           /\ count' \in [RequestIds -> Nat]
           /\ completed' \in [RequestIds -> Nat]
<1> DEFINE s == Segment(r, nr)
<1>1. s.requestId = r /\ s.nr = nr /\ s.totalCount = TotalCount(r)
  BY DEF Segment
<1>2. TotalCount(r) \in Nat /\ nr \in Nat
  <2>1. TotalCount(r) \in Nat
    BY TotalCountNat
  <2> QED
    BY <2>1 DEF Numbers
<1> HIDE DEF s
<1>3. Complete(r) => completed' \in [RequestIds -> Nat]
  BY DEF Complete, TypeOK
<1>4. CASE SinglePart(s)
  BY <1>1, <1>3, <1>4 DEF SinglePart, TypeOK
<1>5. CASE AlreadyCached(s)
  BY <1>5 DEF AlreadyCached, TypeOK
<1>6. CASE AddToRequest(s) /\ count[r] + 1 = TotalCount(r)
  <2>1. /\ cache' = [cache EXCEPT ![r] = {}]
        /\ count' = [count EXCEPT ![r] = 0]
        /\ Complete(r)
    BY <1>1, <1>6 DEF AddToRequest
  <2>2. cache' \in [RequestIds -> SUBSET Nat] /\ \A q \in RequestIds : cache'[q] \subseteq Numbers(q)
    BY <2>1 DEF TypeOK
  <2>3. count' \in [RequestIds -> Nat]
    BY <2>1 DEF TypeOK
  <2> QED
    BY <1>3, <2>1, <2>2, <2>3
<1>7. CASE AddToRequest(s) /\ count[r] + 1 # TotalCount(r)
  <2>1. /\ cache' = [cache EXCEPT ![r] = @ \cup {nr}]
        /\ count' = [count EXCEPT ![r] = @ + 1]
        /\ completed' = completed
    BY <1>1, <1>7 DEF AddToRequest
  <2>2. cache[r] \cup {nr} \in SUBSET Nat /\ cache[r] \cup {nr} \subseteq Numbers(r)
    BY <1>2 DEF TypeOK
  <2>3. cache' \in [RequestIds -> SUBSET Nat] /\ \A q \in RequestIds : cache'[q] \subseteq Numbers(q)
    BY <2>1, <2>2 DEF TypeOK
  <2>4. count' \in [RequestIds -> Nat]
    BY <2>1 DEF TypeOK
  <2> QED
    BY <2>1, <2>3, <2>4 DEF TypeOK
<1>8. CASE InsertNew(s)
  BY <1>1, <1>2, <1>8 DEF InsertNew, TypeOK
<1> QED
  BY <1>4, <1>5, <1>6, <1>7, <1>8 DEF Incoming, s

LEMMA NextTyped == TypeOK /\ [Next]_vars => TypeOK'
<1> SUFFICES ASSUME TypeOK, [Next]_vars PROVE TypeOK'
  OBVIOUS
<1>1. ASSUME NEW r \in RequestIds, Send(r) PROVE TypeOK'
  BY <1>1 DEF Send, TypeOK
<1>2. ASSUME NEW r \in RequestIds, Remove(r) PROVE TypeOK'
  BY <1>2 DEF Remove, TypeOK
<1>3. ASSUME NEW r \in RequestIds, NEW nr \in Numbers(r), Deliver(r, nr) PROVE TypeOK'
  <2>1. copies' \in [RequestIds -> [AllNumbers -> 0..MaxCopies]]
    <3>1. copies[r][nr] \in 0..MaxCopies /\ nr \in AllNumbers
      BY DEF TypeOK, AllNumbers
    <3>2. copies[r][nr] + 1 \in 0..MaxCopies
      BY <1>3, <3>1, MaxCopiesAssumption DEF Deliver
    <3> QED
      BY <1>3, <3>1, <3>2 DEF Deliver, TypeOK
  <2> QED
    BY <1>3, <2>1, IncomingTyped DEF Deliver, TypeOK
<1>4. CASE UNCHANGED vars
  BY <1>4 DEF vars, TypeOK
<1> QED
  BY <1>1, <1>2, <1>3, <1>4 DEF Next

\* Segments is type correct.
THEOREM TypeCorrect == Spec => []TypeOK
BY InitTyped, NextTyped, PTL DEF Spec

-----------------------------------------------------------------------------
(* The manual count *)

\* Counting is right after every delivered segment.
LEMMA IncomingCounts ==
    ASSUME TypeOK, CountIsCardinality, NEW r \in RequestIds, NEW nr \in Numbers(r),
           Incoming(Segment(r, nr))
    PROVE  CountIsCardinality'
<1> DEFINE s == Segment(r, nr)
<1>1. s.requestId = r /\ s.nr = nr /\ s.totalCount = TotalCount(r)
  BY DEF Segment
<1>2. TotalCount(r) \in Nat /\ count[r] \in Nat
  BY TotalCountNat DEF TypeOK
<1> HIDE DEF s
<1>3. CASE SinglePart(s) \/ AlreadyCached(s)
  BY <1>3 DEF SinglePart, AlreadyCached, CountIsCardinality
<1>4. CASE AddToRequest(s)
  <2>1. \A q \in RequestIds \ {r} : cache'[q] = cache[q] /\ count'[q] = count[q]
    BY <1>1, <1>4 DEF AddToRequest, TypeOK
  <2>2. CASE count[r] + 1 = TotalCount(r)
    <3>1. cache'[r] = {} /\ count'[r] = 0
      BY <1>1, <1>4, <2>2 DEF AddToRequest, TypeOK
    <3> QED
      BY <2>1, <3>1, FS_EmptySet DEF CountIsCardinality
  <2>3. CASE count[r] + 1 # TotalCount(r)
    <3>1. cache'[r] = cache[r] \cup {nr} /\ count'[r] = count[r] + 1
      BY <1>1, <1>4, <2>3 DEF AddToRequest, TypeOK
    <3>2. nr \notin cache[r] /\ count[r] < TotalCount(r) /\ count[r] = Cardinality(cache[r])
      BY <1>1, <1>4 DEF AddToRequest, CountIsCardinality
    <3>3. Cardinality(cache'[r]) = count[r] + 1
      BY <3>1, <3>2, CacheFinite, FS_AddElement
    <3>4. count'[r] < TotalCount(r)
      BY <1>2, <2>3, <3>1, <3>2
    <3> QED
      BY <2>1, <3>1, <3>3, <3>4 DEF CountIsCardinality
  <2> QED
    BY <2>2, <2>3
<1>5. CASE InsertNew(s)
  <2>1. \A q \in RequestIds \ {r} : cache'[q] = cache[q] /\ count'[q] = count[q]
    BY <1>1, <1>5 DEF InsertNew, TypeOK
  <2>2. cache'[r] = {nr} /\ count'[r] = 1 /\ TotalCount(r) > 1
    BY <1>1, <1>5 DEF InsertNew, TypeOK
  <2> QED
    <3>1. Cardinality(cache'[r]) = 1 /\ cache'[r] # {}
      BY <2>2, FS_Singleton
    <3>2. 1 < TotalCount(r)
      BY <1>2, <2>2
    <3> SUFFICES ASSUME NEW q \in RequestIds
                 PROVE  /\ count'[q] = Cardinality(cache'[q])
                        /\ cache'[q] # {} => count'[q] < TotalCount(q)
      BY DEF CountIsCardinality, TotalCount
    <3>3. CASE q = r
      BY <2>2, <3>1, <3>2, <3>3
    <3>4. CASE q # r
      BY <2>1, <3>4 DEF CountIsCardinality
    <3> QED
      BY <3>3, <3>4
<1> QED
  BY <1>3, <1>4, <1>5 DEF Incoming, s

LEMMA CountInductive ==
    /\ Init => CountIsCardinality
    /\ TypeOK /\ CountIsCardinality /\ [Next]_vars => CountIsCardinality'
<1>1. Init => CountIsCardinality
  BY FS_EmptySet DEF Init, CountIsCardinality
<1>2. ASSUME TypeOK, CountIsCardinality, [Next]_vars PROVE CountIsCardinality'
  <2>1. CASE UNCHANGED <<cache, count>>
    BY <1>2, <2>1 DEF CountIsCardinality
  <2>2. ASSUME NEW r \in RequestIds, Remove(r) PROVE CountIsCardinality'
    <3>1. cache'[r] = {} /\ count'[r] = 0
      BY <1>2, <2>2 DEF Remove, TypeOK
    <3>2. \A q \in RequestIds \ {r} : cache'[q] = cache[q] /\ count'[q] = count[q]
      BY <1>2, <2>2 DEF Remove, TypeOK
    <3> QED
      BY <1>2, <3>1, <3>2, FS_EmptySet DEF CountIsCardinality
  <2>3. ASSUME NEW r \in RequestIds, NEW nr \in Numbers(r), Deliver(r, nr)
        PROVE  CountIsCardinality'
    BY <1>2, <2>3, IncomingCounts DEF Deliver
  <2> QED
    BY <1>2, <2>1, <2>2, <2>3 DEF Next, Send, vars
<1> QED
  BY <1>1, <1>2

\* The segment cache's manual count is the number of cached segments, and a
\* cached message is incomplete: for every message, segment size and network.
THEOREM CountCorrect == Spec => []CountIsCardinality
BY InitTyped, NextTyped, CountInductive, PTL DEF Spec

-----------------------------------------------------------------------------
(* Copies *)

\* When the count says complete, every segment is there.
LEMMA FullMeansAll ==
    ASSUME TypeOK, CountIsCardinality, NEW r \in RequestIds, NEW nr \in Numbers(r),
           nr \notin cache[r], count[r] + 1 = TotalCount(r)
    PROVE  cache[r] \cup {nr} = Numbers(r)
<1>1. Cardinality(cache[r] \cup {nr}) = TotalCount(r)
  <2>1. count[r] = Cardinality(cache[r])
    BY DEF CountIsCardinality
  <2>2. IsFiniteSet(cache[r])
    BY CacheFinite
  <2>3. Cardinality(cache[r] \cup {nr}) = Cardinality(cache[r]) + 1
    BY <2>2, FS_AddElement
  <2> QED
    BY <2>1, <2>3
<1>2. cache[r] \cup {nr} \in SUBSET Numbers(r)
  BY DEF TypeOK
<1> QED
  BY <1>1, <1>2, NumbersSet, FS_Subset

\* The copies of a segment are counted.
LEMMA CopiesNat ==
    ASSUME TypeOK, NEW r \in RequestIds, NEW nr \in Numbers(r)
    PROVE  copies[r][nr] \in Nat
<1>1. nr \in AllNumbers
  BY DEF AllNumbers
<1>2. copies[r] \in [AllNumbers -> 0..MaxCopies]
  BY DEF TypeOK
<1>3. copies[r][nr] \in 0..MaxCopies
  BY <1>1, <1>2
<1> QED
  BY <1>3, MaxCopiesAssumption

\* One copy, one use.
LEMMA DeliverUsesOnce ==
    ASSUME TypeOK, CountIsCardinality, CopiesUsedOnce, NEW r \in RequestIds,
           NEW nr \in Numbers(r), Deliver(r, nr)
    PROVE  CopiesUsedOnce'
<1> DEFINE s == Segment(r, nr)
           held(q, n) == IF n \in cache[q] THEN 1 ELSE 0
<1>1. s.requestId = r /\ s.nr = nr /\ s.totalCount = TotalCount(r) /\ Incoming(s)
  BY DEF Segment, Deliver
<1> HIDE DEF s
<1> SUFFICES ASSUME NEW q \in RequestIds, NEW n \in Numbers(q)
             PROVE  completed'[q] + (IF n \in cache'[q] THEN 1 ELSE 0) <= copies'[q][n]
  BY DEF CopiesUsedOnce, Numbers, TotalCount
<1>2. completed[q] \in Nat /\ copies[q][n] \in Nat
  BY CopiesNat DEF TypeOK
<1>3. completed[q] + held(q, n) <= copies[q][n]
  BY DEF CopiesUsedOnce
<1>4. copies'[q][n] = IF q = r /\ n = nr THEN copies[q][n] + 1 ELSE copies[q][n]
  BY DEF Deliver, TypeOK, AllNumbers
<1>5. CASE q # r
  <2>1. completed'[q] = completed[q] /\ cache'[q] = cache[q]
    BY <1>1, <1>5 DEF Incoming, SinglePart, AlreadyCached, AddToRequest, InsertNew, Complete, TypeOK
  <2> QED
    BY <1>3, <1>4, <1>5, <2>1
<1>6. CASE q = r
  <2>1. CASE SinglePart(s)
    <3>1. n = nr
      <4>1. TotalCount(r) = 1
        BY <1>1, <2>1 DEF SinglePart
      <4>2. n \in 0..0 /\ nr \in 0..0
        BY <1>6, <4>1 DEF Numbers
      <4> QED
        BY <4>2
    <3>2. completed'[q] = completed[q] + 1 /\ cache'[q] = cache[q]
      BY <1>1, <1>6, <2>1 DEF SinglePart, Complete, TypeOK
    <3> QED
      BY <1>2, <1>3, <1>4, <1>6, <3>1, <3>2
  <2>2. CASE AlreadyCached(s)
    <3>1. completed'[q] = completed[q] /\ cache'[q] = cache[q]
      BY <2>2 DEF AlreadyCached
    <3> QED
      BY <1>2, <1>3, <1>4, <3>1
  <2>3. CASE AddToRequest(s) /\ count[r] + 1 = TotalCount(r)
    <3>1. completed'[q] = completed[q] + 1 /\ cache'[q] = {}
      BY <1>1, <1>6, <2>3 DEF AddToRequest, Complete, TypeOK
    <3>2. nr \notin cache[r]
      BY <1>1, <2>3 DEF AddToRequest
    <3>3. n \in cache[r] \/ n = nr
      BY <1>6, <2>3, <3>2, FullMeansAll
    <3> QED
      BY <1>2, <1>3, <1>4, <1>6, <3>1, <3>3
  <2>4. CASE AddToRequest(s) /\ count[r] + 1 # TotalCount(r)
    <3>1. completed'[q] = completed[q] /\ cache'[q] = cache[q] \cup {nr}
      BY <1>1, <1>6, <2>4 DEF AddToRequest, TypeOK
    <3>2. nr \notin cache[r]
      BY <1>1, <2>4 DEF AddToRequest
    <3> QED
      BY <1>2, <1>3, <1>4, <1>6, <3>1, <3>2
  <2>5. CASE InsertNew(s)
    <3>1. completed'[q] = completed[q] /\ cache'[q] = {nr} /\ cache[r] = {}
      BY <1>1, <1>6, <2>5 DEF InsertNew, TypeOK
    <3> QED
      BY <1>2, <1>3, <1>4, <1>6, <3>1
  <2> QED
    BY <1>1, <2>1, <2>2, <2>3, <2>4, <2>5 DEF Incoming
<1> QED
  BY <1>5, <1>6

\* A message is completed as often as each of its segments arrived at most: for
\* every message, segment size and network.
THEOREM NoCopyUsedTwice == Spec => []CopiesUsedOnce
<1>1. Init => CopiesUsedOnce
  BY DEF Init, CopiesUsedOnce, AllNumbers
<1>2. ASSUME TypeOK, CountIsCardinality, CopiesUsedOnce, [Next]_vars PROVE CopiesUsedOnce'
  <2>1. CASE UNCHANGED <<cache, copies, completed>>
    BY <1>2, <2>1 DEF CopiesUsedOnce, Numbers, TotalCount
  <2>2. ASSUME NEW r \in RequestIds, Remove(r) PROVE CopiesUsedOnce'
    <3> SUFFICES ASSUME NEW q \in RequestIds, NEW n \in Numbers(q)
                 PROVE  completed'[q] + (IF n \in cache'[q] THEN 1 ELSE 0) <= copies'[q][n]
      BY DEF CopiesUsedOnce, Numbers, TotalCount
    <3>1. completed[q] \in Nat /\ copies[q][n] \in Nat
      BY <1>2, CopiesNat DEF TypeOK
    <3>2. completed[q] + (IF n \in cache[q] THEN 1 ELSE 0) <= copies[q][n]
      BY <1>2 DEF CopiesUsedOnce
    <3>3. cache'[q] \subseteq cache[q] /\ completed' = completed /\ copies' = copies
      BY <1>2, <2>2 DEF Remove, TypeOK
    <3> QED
      BY <3>1, <3>2, <3>3
  <2>3. ASSUME NEW r \in RequestIds, NEW nr \in Numbers(r), Deliver(r, nr) PROVE CopiesUsedOnce'
    BY <1>2, <2>3, DeliverUsesOnce
  <2> QED
    BY <1>2, <2>1, <2>2, <2>3 DEF Next, Send, vars
<1> QED
  BY <1>1, <1>2, InitTyped, NextTyped, CountInductive, PTL DEF Spec

-----------------------------------------------------------------------------
(* Slicing *)

LEMMA CeilDivBounds ==
    ASSUME NEW a \in Nat, NEW b \in Nat \ {0}
    PROVE  /\ CeilDiv(a, b) \in Nat
           /\ a <= CeilDiv(a, b) * b
           /\ a > 0 => (CeilDiv(a, b) - 1) * b < a
           /\ a = 0 => CeilDiv(a, b) = 0
<1> DEFINE c == a + b - 1
           n == c \div b
<1>1. c \in Nat
  OBVIOUS
<1> HIDE DEF c
<1>2. n \in Nat /\ n * b <= c /\ c < (n + 1) * b
  BY <1>1
<1> HIDE DEF n
<1>3. (n + 1) * b = n * b + b /\ (n - 1) * b = n * b - b /\ n * b \in Nat
  BY <1>2
<1>4. a <= n * b /\ (n - 1) * b < a
  BY <1>2, <1>3 DEF c
<1>5. a = 0 => n = 0
  <2>1. a = 0 => n * b < b
    BY <1>2, <1>3 DEF c
  <2>2. n >= 1 => n * b >= b
    BY <1>2
  <2> QED
    BY <1>2, <1>3, <2>1, <2>2
<1> QED
  BY <1>2, <1>4, <1>5 DEF CeilDiv, c, n

\* A number of a segment is below the total count, so its slice begins inside
\* of the text.
LEMMA SliceBegins ==
    ASSUME NEW r \in RequestIds, NEW nr \in Numbers(r)
    PROVE  /\ nr \in Nat /\ nr < TotalCount(r)
           /\ nr * MaxBytes \in Nat /\ nr * MaxBytes < Base64Length(Size[r])
<1> DEFINE length == Base64Length(Size[r])
<1>1. length \in Nat
  <2>1. CeilDiv(Size[r], 3) \in Nat
    BY SizeAssumption, CeilDivBounds
  <2> QED
    BY <2>1 DEF Base64Length
<1>2. nr \in Nat /\ nr <= TotalCount(r) - 1 /\ TotalCount(r) \in Nat
  BY TotalCountNat DEF Numbers
<1> HIDE DEF length
<1>3. TotalCount(r) = CeilDiv(length, MaxBytes)
  BY DEF TotalCount, length
<1>4. (TotalCount(r) - 1) * MaxBytes < length
  <2>1. length # 0
    BY <1>1, <1>2, <1>3, MaxBytesAssumption, CeilDivBounds
  <2> QED
    BY <1>1, <1>3, <2>1, MaxBytesAssumption, CeilDivBounds
<1>5. nr * MaxBytes \in Nat /\ nr * MaxBytes <= (TotalCount(r) - 1) * MaxBytes
  <2> DEFINE k == TotalCount(r) - 1
  <2>1. k \in Nat /\ nr <= k
    BY <1>2
  <2> HIDE DEF k
  <2>2. nr * MaxBytes <= k * MaxBytes /\ nr * MaxBytes \in Nat
    BY <1>2, <2>1, MaxBytesAssumption
  <2> QED
    BY <2>2 DEF k
<1>6. (TotalCount(r) - 1) * MaxBytes \in Int
  BY <1>2, MaxBytesAssumption
<1> QED
  BY <1>1, <1>2, <1>4, <1>5, <1>6 DEF length

\* toSegments: for every size of message and of segment the slices follow each
\* other, none is empty, and the last one ends with the text.
LEMMA SlicesFit ==
    ASSUME NEW r \in RequestIds
    PROVE  /\ \A nr \in Numbers(r) :
                /\ Segment(r, nr).body[1] = IF nr = 0 THEN 0 ELSE Segment(r, nr - 1).body[2]
                /\ Segment(r, nr).body[1] < Segment(r, nr).body[2]
                /\ Segment(r, nr).body[2] <= Segment(r, nr).body[1] + MaxBytes
           /\ TotalCount(r) > 0 =>
                Segment(r, TotalCount(r) - 1).body[2] = Base64Length(Size[r])
<1> DEFINE length == Base64Length(Size[r])
           total == TotalCount(r)
<1>1. length \in Nat /\ total \in Nat /\ length <= total * MaxBytes
  <2>1. CeilDiv(Size[r], 3) \in Nat
    BY SizeAssumption, CeilDivBounds
  <2>2. length \in Nat
    BY <2>1 DEF Base64Length
  <2> HIDE DEF length
  <2>3. total = CeilDiv(length, MaxBytes)
    BY DEF TotalCount, length
  <2> QED
    BY <2>2, <2>3, MaxBytesAssumption, CeilDivBounds
<1>2. \A nr : /\ Segment(r, nr).body[1] = nr * MaxBytes
              /\ Segment(r, nr).body[2] = Least((nr + 1) * MaxBytes, length)
  BY DEF Segment
<1> HIDE DEF length, total
<1>3. ASSUME NEW nr \in Numbers(r)
      PROVE  /\ Segment(r, nr).body[1] = IF nr = 0 THEN 0 ELSE Segment(r, nr - 1).body[2]
             /\ Segment(r, nr).body[1] < Segment(r, nr).body[2]
             /\ Segment(r, nr).body[2] <= Segment(r, nr).body[1] + MaxBytes
  <2>1. nr \in Nat /\ nr * MaxBytes \in Nat /\ nr * MaxBytes < length
    BY SliceBegins DEF length
  <2>2. (nr + 1) * MaxBytes = nr * MaxBytes + MaxBytes /\ 0 * MaxBytes = 0
    BY <2>1, MaxBytesAssumption
  <2>3. nr * MaxBytes < Least((nr + 1) * MaxBytes, length)
    BY <1>1, <2>1, <2>2, MaxBytesAssumption DEF Least
  <2>4. Segment(r, nr).body[2] <= Segment(r, nr).body[1] + MaxBytes
    BY <1>1, <1>2, <2>1, <2>2, MaxBytesAssumption DEF Least
  <2>5. CASE nr = 0
    BY <1>2, <2>2, <2>3, <2>5, <2>4
  <2>6. CASE nr # 0
    <3>1. (nr - 1) + 1 = nr
      BY <2>1
    <3>2. Least(nr * MaxBytes, length) = nr * MaxBytes
      BY <1>1, <2>1 DEF Least
    <3>3. Segment(r, nr - 1).body[2] = nr * MaxBytes
      BY <1>2, <3>1, <3>2
    <3> QED
      BY <1>2, <2>3, <2>6, <2>4, <3>3
  <2> QED
    BY <2>5, <2>6
<1>4. ASSUME total > 0 PROVE Segment(r, total - 1).body[2] = length
  <2>1. (total - 1) + 1 = total
    BY <1>1
  <2>2. total * MaxBytes \in Nat
    BY <1>1, MaxBytesAssumption
  <2>3. Least(total * MaxBytes, length) = length
    BY <1>1, <2>2 DEF Least
  <2> QED
    BY <1>2, <2>1, <2>3
<1> QED
  BY <1>3, <1>4 DEF length, total

\* Whatever is sent can be put together again without a gap, from bodies of
\* MaxBytes characters at most.
THEOREM SlicesCover == Spec => []SlicesCoverMessage
<1>1. TypeOK => SlicesCoverMessage
  BY SlicesFit DEF TypeOK, SlicesCoverMessage
<1> QED
  BY <1>1, TypeCorrect, PTL

-----------------------------------------------------------------------------
(* Requests and responses *)

LEMMA MessageIds ==
    ASSUME NEW r \in Requests
    PROVE  /\ Req(r) \in RequestIds /\ Resp(r) \in RequestIds
           /\ \A q \in Requests : /\ Req(r) # Resp(q)
                                  /\ Req(r) = Req(q) => r = q
                                  /\ Resp(r) = Resp(q) => r = q
BY MessagesAssumption DEF Req, Resp

-----------------------------------------------------------------------------
(* The exchange is a behaviour of the segment caches *)

LEMMA ExchangeStep == [ExchangeNext]_exchangeVars => [Next]_vars
<1> SUFFICES ASSUME [ExchangeNext]_exchangeVars PROVE [Next]_vars
  OBVIOUS
<1>1. CASE UNCHANGED exchangeVars
  BY <1>1 DEF exchangeVars
<1>2. ASSUME NEW r \in Requests, CreateRequest(r) PROVE Next
  BY <1>2, MessageIds DEF CreateRequest, Next
<1>3. ASSUME NEW r \in Requests, RespToMessage(r) PROVE Next
  BY <1>3, MessageIds DEF RespToMessage, Next
<1>4. ASSUME NEW r \in Requests, GiveUp(r) PROVE Next
  BY <1>4, MessageIds DEF GiveUp, Next
<1>5. ASSUME NEW r \in Requests, ExitGivesUp(r) PROVE Next
  BY <1>5, MessageIds DEF ExitGivesUp, Next
<1>6. ASSUME NEW r \in Requests, NEW nr \in Numbers(Req(r)), DeliverRequest(r, nr) PROVE Next
  BY <1>6, MessageIds DEF DeliverRequest, Next
<1>7. ASSUME NEW r \in Requests, NEW nr \in Numbers(Resp(r)), DeliverResponse(r, nr) PROVE Next
  BY <1>7, MessageIds DEF DeliverResponse, Next
<1> QED
  BY <1>1, <1>2, <1>3, <1>4, <1>5, <1>6, <1>7 DEF ExchangeNext

\* The exchange implements Segments: the cache at either end behaves as it does alone.
THEOREM UsesSegments == ExchangeSpec => Spec
<1>1. ExchangeInit => Init
  BY DEF ExchangeInit
<1> QED
  BY <1>1, ExchangeStep, PTL DEF ExchangeSpec, Spec

\* At both ends of the exchange messages are sliced and counted correctly, and
\* no copy of a segment serves two completions.
THEOREM ExchangeCachesCorrect ==
    ExchangeSpec => [](SlicesCoverMessage /\ CountIsCardinality /\ CopiesUsedOnce)
BY UsesSegments, SlicesCover, CountCorrect, NoCopyUsedTwice, PTL

-----------------------------------------------------------------------------
(* Ciphers *)

\* What decrypts was encrypted with the same secret, version and direction.
LEMMA CipherFields ==
    ASSUME NEW s1, NEW v1, NEW c1, NEW p1, NEW t1, NEW a1,
           NEW s2, NEW v2, NEW c2, NEW p2, NEW t2, NEW a2,
           initializeCipher(s1, v1, c1, p1, t1, a1) = initializeCipher(s2, v2, c2, p2, t2, a2)
    PROVE  s1 = s2 /\ v1 = v2
<1> DEFINE x == initializeCipher(s1, v1, c1, p1, t1, a1)
           y == initializeCipher(s2, v2, c2, p2, t2, a2)
<1>1. x.secret = s1 /\ x.version = v1
  BY DEF initializeCipher
<1>2. y.secret = s2 /\ y.version = v2
  BY DEF initializeCipher
<1>3. x = y
  OBVIOUS
<1> HIDE DEF x, y
<1> QED
  BY <1>1, <1>2, <1>3

\* The message of a request, as its client boxed it.
RequestSealed(r, message) ==
    message.ephemeral = r /\ message.counter \in Nat /\ message.version = client[r].version
    /\ message.sealed = Encrypted(initializeCipher(<<r, client[r].key>>, client[r].version,
                                                   message.counter, ExitId, "req", r),
                                  <<"payload", r>>)

\* The exit's answer, as it is boxed.
ResponseSealed(r, message) ==
    message.counter = exit[r].updatedTS
    /\ message.sealed = Encrypted(initializeCipher(<<r, ExitKey>>, ExitVersion, message.counter,
                                                   Entry[r], "resp", r),
                                  exit[r].response)

Responses == {Nothing} \cup {<<type, r>> : type \in RespTypes, r \in Requests}
ClientStates ==
    [pc : {"new", "waiting", "done", "failed"}, version : Versions, key : Keys,
     updatedTS : Nat, response : Responses]
ExitStates ==
    [pc : {"none", "refused", "handling", "answered"},
     entry : {Nothing} \cup {Entry[r] : r \in Requests},
     request : {Nothing} \cup {<<"payload", r>> : r \in Requests},
     secret : {Nothing} \cup (Requests \X {ExitKey}),
     updatedTS : Nat, response : Responses]
Typed ==
    /\ DOMAIN wire = RequestIds
    /\ \A m \in RequestIds : (wire[m] # Nothing) = (m \in sent)
    /\ client \in [Requests -> ClientStates]
    /\ exit \in [Requests -> ExitStates]

\* What each end knows about the other.
RequestInTransit(r) ==
    /\ client[r].pc = "new" => Req(r) \notin sent
    /\ Req(r) \in sent =>
         wire[Req(r)].entry = Entry[r] /\ RequestSealed(r, wire[Req(r)].body)
ExitUnderstood(r) ==
    exit[r].pc \in {"handling", "answered"} =>
        /\ Understood(r) /\ Req(r) \in sent
        /\ exit[r].request = <<"payload", r>>
        /\ exit[r].secret = <<r, ExitKey>>
        /\ exit[r].entry = Entry[r]
ResponseInTransit(r) ==
    Resp(r) \in sent => exit[r].pc = "answered" /\ ResponseSealed(r, wire[Resp(r)].body)
ClientAnswered(r) ==
    client[r].pc = "done" =>
        /\ Resp(r) \in sent
        /\ client[r].response = exit[r].response
        /\ client[r].updatedTS = exit[r].updatedTS
Agreed(r) ==
    RequestInTransit(r) /\ ExitUnderstood(r) /\ ResponseInTransit(r) /\ ClientAnswered(r)

ExchangeInv == Typed /\ \A r \in Requests : Agreed(r)

\* What is not touched keeps its part of the invariant.
LEMMA AgreedUnchanged ==
    ASSUME NEW r \in Requests, Agreed(r), client'[r] = client[r], exit'[r] = exit[r],
           wire'[Req(r)] = wire[Req(r)], wire'[Resp(r)] = wire[Resp(r)],
           Req(r) \in sent' <=> Req(r) \in sent, Resp(r) \in sent' <=> Resp(r) \in sent
    PROVE  Agreed(r)'
<1>1. RequestInTransit(r)'
  BY DEF Agreed, RequestInTransit, RequestSealed
<1>2. ExitUnderstood(r)'
  BY DEF Agreed, ExitUnderstood, Understood
<1>3. ResponseInTransit(r)'
  BY DEF Agreed, ResponseInTransit, ResponseSealed
<1>4. ClientAnswered(r)'
  BY DEF Agreed, ClientAnswered
<1> QED
  BY <1>1, <1>2, <1>3, <1>4 DEF Agreed

LEMMA ExchangeInitially == ExchangeInit => ExchangeInv
<1> SUFFICES ASSUME ExchangeInit PROVE ExchangeInv
  OBVIOUS
<1>1. Typed
  <2>1. DOMAIN wire = RequestIds /\ \A m \in RequestIds : (wire[m] # Nothing) = (m \in sent)
    BY DEF ExchangeInit, Init
  <2>2. client \in [Requests -> ClientStates]
    BY DEF ExchangeInit, ClientStates, Responses
  <2>3. exit \in [Requests -> ExitStates]
    BY DEF ExchangeInit, ExitStates, Responses
  <2> QED
    BY <2>1, <2>2, <2>3 DEF Typed
<1>2. ASSUME NEW r \in Requests PROVE Agreed(r)
  BY MessageIds DEF ExchangeInit, Init, Agreed, RequestInTransit, ExitUnderstood,
                    ResponseInTransit, ClientAnswered
<1> QED
  BY <1>1, <1>2 DEF ExchangeInv

\* Steps of the client keep its state typed.
LEMMA ClientTyped ==
    ASSUME NEW c \in ClientStates, NEW pc \in {"waiting", "done", "failed"}, NEW ts \in Nat,
           NEW resp \in Responses
    PROVE  /\ [c EXCEPT !.pc = pc] \in ClientStates
           /\ [c EXCEPT !.pc = pc, !.updatedTS = ts] \in ClientStates
           /\ [c EXCEPT !.pc = pc, !.response = resp, !.updatedTS = ts] \in ClientStates
<1> HIDE DEF Responses
<1>1. [c EXCEPT !.pc = pc] \in ClientStates
  BY DEF ClientStates
<1>2. [c EXCEPT !.pc = pc, !.updatedTS = ts] \in ClientStates
  BY DEF ClientStates
<1>3. [c EXCEPT !.pc = pc, !.response = resp, !.updatedTS = ts] \in ClientStates
  BY DEF ClientStates
<1> QED
  BY <1>1, <1>2, <1>3

\* The client's step: create.
LEMMA CreateRequestKeeps ==
    ASSUME ExchangeInv, NEW r \in Requests, CreateRequest(r)
    PROVE  ExchangeInv'
<1>1. PICK now \in ClientClock :
        LET box == boxRequest(r, client[r].version, client[r].key, now)
        IN  /\ wire' = [wire EXCEPT ![Req(r)] = toSegments(r, box.message)]
            /\ client' = [client EXCEPT ![r].pc = "waiting", ![r].updatedTS = box.updatedTS]
  BY DEF CreateRequest
<1> DEFINE box == boxRequest(r, client[r].version, client[r].key, now)
<1>2. /\ wire' = [wire EXCEPT ![Req(r)] = [entry |-> Entry[r], body |-> box.message]]
      /\ client' = [client EXCEPT ![r] = [client[r] EXCEPT !.pc = "waiting", !.updatedTS = box.updatedTS]]
      /\ client[r].pc = "new" /\ sent' = sent \cup {Req(r)} /\ Req(r) \notin sent /\ exit' = exit
  BY <1>1 DEF CreateRequest, Send, toSegments
<1>3. /\ box.updatedTS = now + 1 /\ now + 1 \in Nat
      /\ box.message.ephemeral = r /\ box.message.counter = now + 1
      /\ box.message.version = client[r].version
      /\ box.message.sealed = Encrypted(initializeCipher(<<r, client[r].key>>, client[r].version,
                                                         now + 1, ExitId, "req", r),
                                        <<"payload", r>>)
  BY ClockAssumption DEF boxRequest
<1> HIDE DEF box
<1>4. /\ Req(r) \in RequestIds
      /\ DOMAIN wire = RequestIds /\ DOMAIN wire' = RequestIds
      /\ wire'[Req(r)] = [entry |-> Entry[r], body |-> box.message]
      /\ \A m \in RequestIds \ {Req(r)} : wire'[m] = wire[m]
  BY <1>2, MessageIds DEF ExchangeInv, Typed
<1>5. /\ client'[r] = [client[r] EXCEPT !.pc = "waiting", !.updatedTS = box.updatedTS]
      /\ client[r] \in ClientStates
      /\ \A q \in Requests \ {r} : client'[q] = client[q]
  BY <1>2 DEF ExchangeInv, Typed
<1>6. Typed'
  <2>1. client' \in [Requests -> ClientStates]
    <3>1. Nothing \in Responses /\ box.updatedTS \in Nat
      BY <1>3 DEF Responses
    <3>2. [client[r] EXCEPT !.pc = "waiting", !.updatedTS = box.updatedTS] \in ClientStates
      BY <1>5, <3>1, ClientTyped
    <3> QED
      BY <1>2, <3>2 DEF ExchangeInv, Typed
  <2>2. \A m \in RequestIds : (wire'[m] # Nothing) = (m \in sent')
    <3>1. wire'[Req(r)] # Nothing
      BY <1>4 DEF Nothing
    <3> QED
      BY <1>2, <1>4, <3>1 DEF ExchangeInv, Typed
  <2> QED
    BY <1>2, <1>4, <2>1, <2>2 DEF ExchangeInv, Typed
<1>7. ASSUME NEW q \in Requests PROVE Agreed(q)'
  <2>1. CASE q # r
    BY <1>2, <1>4, <1>5, <2>1, MessageIds, AgreedUnchanged DEF ExchangeInv
  <2>2. CASE q = r
    <3>1. /\ client'[r].pc = "waiting" /\ client'[r].version = client[r].version
          /\ client'[r].key = client[r].key
      BY <1>5 DEF ClientStates
    <3>2. RequestInTransit(r)'
      BY <1>2, <1>3, <1>4, <3>1 DEF RequestInTransit, RequestSealed
    <3>3. Agreed(r) /\ exit' = exit /\ Req(r) \in sent'
          /\ (Resp(r) \in sent' <=> Resp(r) \in sent) /\ wire'[Resp(r)] = wire[Resp(r)]
      BY <1>2, <1>4, MessageIds DEF ExchangeInv
    <3>4. ExitUnderstood(r)'
      BY <1>2, <3>1, <3>3 DEF Agreed, ExitUnderstood, Understood
    <3>5. ResponseInTransit(r)'
      BY <3>3 DEF Agreed, ResponseInTransit, ResponseSealed
    <3> QED
      BY <2>2, <3>1, <3>2, <3>4, <3>5 DEF Agreed, ClientAnswered
  <2> QED
    BY <2>1, <2>2
<1> QED
  BY <1>6, <1>7 DEF ExchangeInv

\* Steps of the exit keep its state typed.
LEMMA ExitHandlingTyped ==
    ASSUME NEW x \in ExitStates, NEW r \in Requests, NEW ts \in Nat, NEW e, NEW q, NEW k,
           e = Entry[r], q = <<"payload", r>>, k = <<r, ExitKey>>
    PROVE  [x EXCEPT !.pc = "handling", !.entry = e, !.request = q, !.secret = k,
                     !.updatedTS = ts] \in ExitStates
BY DEF ExitStates

LEMMA ExitAnsweredTyped ==
    ASSUME NEW x \in ExitStates, NEW ts \in Nat, NEW resp \in Responses
    PROVE  [x EXCEPT !.pc = "answered", !.response = resp, !.updatedTS = ts] \in ExitStates
BY DEF ExitStates

\* The exit's step on a complete request: messageToReq.
LEMMA DeliverRequestKeeps ==
    ASSUME ExchangeInv, NEW r \in Requests, NEW nr \in Numbers(Req(r)), DeliverRequest(r, nr)
    PROVE  ExchangeInv'
<1> DEFINE message == wire[Req(r)].body
           session == SessionOf(message)
           now == [exit[r] EXCEPT !.pc = "handling", !.entry = wire[Req(r)].entry,
                                  !.request = session.request, !.secret = session.secret,
                                  !.updatedTS = session.updatedTS]
<1>1. wire' = wire /\ client' = client /\ sent' = sent /\ Req(r) \in sent
  BY DEF DeliverRequest, Deliver
<1>2. \/ exit' = exit
      \/ exit[r].pc = "none" /\ exit' = [exit EXCEPT ![r] = [exit[r] EXCEPT !.pc = "refused"]]
      \/ exit[r].pc = "none" /\ RequestOpens(r, message) /\ exit' = [exit EXCEPT ![r] = now]
  BY DEF DeliverRequest, MessageToReq
<1>3. exit \in [Requests -> ExitStates] /\ exit[r] \in ExitStates
  BY DEF ExchangeInv, Typed
<1>4. wire[Req(r)].entry = Entry[r] /\ RequestSealed(r, message)
  BY <1>1 DEF ExchangeInv, Agreed, RequestInTransit
<1>5. /\ session.request = <<"payload", r>>
      /\ session.secret = <<r, ExitKey>>
      /\ session.updatedTS = message.counter /\ message.counter \in Nat
  BY <1>4 DEF SessionOf, RequestSealed, Encrypted
<1>6. RequestOpens(r, message) => Understood(r)
  <2>1. message.sealed.cipher = initializeCipher(<<r, client[r].key>>, client[r].version,
                                                 message.counter, ExitId, "req", r)
    BY <1>4 DEF RequestSealed, Encrypted
  <2>2. ASSUME RequestOpens(r, message)
        PROVE  message.sealed.cipher = initializeCipher(<<r, ExitKey>>, ExitVersion,
                                                        message.counter, ExitId, "req", r)
    BY <1>4, <2>2 DEF RequestOpens, Decrypts, RequestSealed
  <2>3. ASSUME RequestOpens(r, message)
        PROVE  <<r, client[r].key>> = <<r, ExitKey>> /\ client[r].version = ExitVersion
    BY <2>1, <2>2, <2>3, CipherFields
  <2> QED
    BY <2>3 DEF Understood
<1>7. now \in ExitStates
  <2> HIDE DEF message, session
  <2>1. session.updatedTS \in Nat
    BY <1>5
  <2> QED
    BY <1>3, <1>4, <1>5, <2>1, ExitHandlingTyped
<1> HIDE DEF message, session
<1>8. exit' \in [Requests -> ExitStates]
  <2>1. [exit[r] EXCEPT !.pc = "refused"] \in ExitStates
    BY <1>3 DEF ExitStates
  <2> HIDE DEF now
  <2> QED
    BY <1>2, <1>3, <1>7, <2>1
<1>9. Typed'
  BY <1>1, <1>8 DEF ExchangeInv, Typed
<1>10. ASSUME NEW q \in Requests PROVE Agreed(q)'
  <2>1. CASE exit'[q] = exit[q]
    BY <1>1, <2>1, AgreedUnchanged DEF ExchangeInv
  <2>2. CASE exit'[q] # exit[q]
    <3>1. q = r /\ exit[r].pc = "none"
      BY <1>2, <1>3, <2>2
    <3>2. Agreed(r)
      BY DEF ExchangeInv
    <3>3. Resp(r) \notin sent /\ client[r].pc # "done"
      BY <3>1, <3>2 DEF Agreed, ResponseInTransit, ClientAnswered
    <3>4. ExitUnderstood(r)'
      <4>1. CASE exit' = [exit EXCEPT ![r] = [exit[r] EXCEPT !.pc = "refused"]]
        <5>1. exit'[r].pc = "refused"
          BY <1>3, <4>1 DEF ExitStates
        <5> QED
          BY <5>1 DEF ExitUnderstood
      <4>2. CASE RequestOpens(r, message) /\ exit' = [exit EXCEPT ![r] = now]
        <5>1. exit'[r] = now
          BY <1>3, <4>2
        <5>2. /\ now.request = <<"payload", r>> /\ now.secret = <<r, ExitKey>>
              /\ now.entry = Entry[r]
          BY <1>3, <1>4, <1>5 DEF ExitStates
        <5> HIDE DEF now
        <5> QED
          BY <1>1, <1>6, <4>2, <5>1, <5>2 DEF ExitUnderstood, Understood
      <4> QED
        BY <1>2, <2>2, <4>1, <4>2
    <3> QED
      BY <1>1, <3>1, <3>2, <3>3, <3>4
      DEF Agreed, RequestInTransit, RequestSealed, ResponseInTransit, ClientAnswered
  <2> QED
    BY <2>1, <2>2
<1> QED
  BY <1>9, <1>10 DEF ExchangeInv

\* The exit's answer: respToMessage.
LEMMA RespToMessageKeeps ==
    ASSUME ExchangeInv, NEW r \in Requests, RespToMessage(r)
    PROVE  ExchangeInv'
<1>1. PICK type \in RespTypes, now \in ExitClock :
        LET payload == <<type, r>>
            message == boxResponse(r, exit[r], exit[r].entry, now, payload)
        IN  /\ wire' = [wire EXCEPT ![Resp(r)] = [body |-> message]]
            /\ exit' = [exit EXCEPT ![r].pc = "answered", ![r].response = payload,
                                    ![r].updatedTS = message.counter]
  BY DEF RespToMessage
<1> DEFINE payload == <<type, r>>
           message == boxResponse(r, exit[r], exit[r].entry, now, payload)
           after == [exit[r] EXCEPT !.pc = "answered", !.response = payload,
                                    !.updatedTS = message.counter]
<1>2. /\ exit[r].pc = "handling"
      /\ wire' = [wire EXCEPT ![Resp(r)] = [body |-> message]]
      /\ exit' = [exit EXCEPT ![r] = after]
      /\ client' = client /\ sent' = sent \cup {Resp(r)}
  BY <1>1 DEF RespToMessage, Send
<1>3. exit \in [Requests -> ExitStates] /\ exit[r] \in ExitStates
  BY DEF ExchangeInv, Typed
<1>4. /\ Agreed(r) /\ exit[r].secret = <<r, ExitKey>> /\ exit[r].entry = Entry[r]
      /\ exit[r].request = <<"payload", r>> /\ Understood(r) /\ Req(r) \in sent
  BY <1>2 DEF ExchangeInv, Agreed, ExitUnderstood
<1>5. /\ message.counter = now + 1 /\ now + 1 \in Nat
      /\ message.sealed = Encrypted(initializeCipher(<<r, ExitKey>>, ExitVersion, now + 1,
                                                     Entry[r], "resp", r),
                                    payload)
  BY <1>4, ClockAssumption DEF boxResponse
<1>6. payload \in Responses
  BY DEF Responses
<1> HIDE DEF message, payload
<1>7. after \in ExitStates
  <2>1. message.counter \in Nat
    BY <1>5
  <2> QED
    BY <1>3, <1>6, <2>1, ExitAnsweredTyped
<1>8. /\ after.pc = "answered" /\ after.response = payload /\ after.updatedTS = message.counter
      /\ after.request = exit[r].request /\ after.secret = exit[r].secret
      /\ after.entry = exit[r].entry
  BY <1>3 DEF ExitStates
<1> HIDE DEF after
<1>9. /\ exit' \in [Requests -> ExitStates] /\ exit'[r] = after
      /\ \A q \in Requests \ {r} : exit'[q] = exit[q]
  BY <1>2, <1>3, <1>7
<1>10. /\ Resp(r) \in RequestIds
       /\ DOMAIN wire' = RequestIds
       /\ wire'[Resp(r)] = [body |-> message]
       /\ \A m \in RequestIds \ {Resp(r)} : wire'[m] = wire[m]
  BY <1>2, MessageIds DEF ExchangeInv, Typed
<1>11. Typed'
  <2>1. \A m \in RequestIds : (wire'[m] # Nothing) = (m \in sent')
    <3>1. wire'[Resp(r)] # Nothing
      BY <1>10 DEF Nothing
    <3> QED
      BY <1>2, <1>10, <3>1 DEF ExchangeInv, Typed
  <2> QED
    BY <1>2, <1>9, <1>10, <2>1 DEF ExchangeInv, Typed
<1>12. ASSUME NEW q \in Requests PROVE Agreed(q)'
  <2>1. CASE q # r
    BY <1>2, <1>9, <1>10, <2>1, MessageIds, AgreedUnchanged DEF ExchangeInv
  <2>2. CASE q = r
    <3>1. RequestInTransit(r)'
      <4>1. wire'[Req(r)] = wire[Req(r)] /\ (Req(r) \in sent' <=> Req(r) \in sent)
        BY <1>2, <1>10, MessageIds
      <4> QED
        BY <1>2, <1>4, <4>1 DEF Agreed, RequestInTransit, RequestSealed
    <3>2. ExitUnderstood(r)'
      BY <1>2, <1>4, <1>8, <1>9 DEF ExitUnderstood, Understood
    <3>3. ResponseInTransit(r)'
      BY <1>5, <1>8, <1>9, <1>10 DEF ResponseInTransit, ResponseSealed
    <3>4. client[r].pc # "done"
      BY <1>2, <1>4 DEF Agreed, ClientAnswered, ResponseInTransit
    <3> QED
      BY <1>2, <2>2, <3>1, <3>2, <3>3, <3>4 DEF Agreed, ClientAnswered
  <2> QED
    BY <2>1, <2>2
<1> QED
  BY <1>11, <1>12 DEF ExchangeInv

\* The client's step on a complete response: messageToResp.
LEMMA DeliverResponseKeeps ==
    ASSUME ExchangeInv, NEW r \in Requests, NEW nr \in Numbers(Resp(r)), DeliverResponse(r, nr)
    PROVE  ExchangeInv'
<1> DEFINE message == wire[Resp(r)].body
           after == [client[r] EXCEPT !.pc = "done", !.response = message.sealed.text,
                                      !.updatedTS = message.counter]
<1>1. wire' = wire /\ exit' = exit /\ sent' = sent /\ Resp(r) \in sent
  BY DEF DeliverResponse, Deliver
<1>2. \/ client' = client
      \/ /\ client[r].pc = "waiting"
         /\ client' = [client EXCEPT ![r] = [client[r] EXCEPT !.pc = "failed"]]
      \/ client[r].pc = "waiting" /\ client' = [client EXCEPT ![r] = after]
  BY DEF DeliverResponse, MessageToResp
<1>3. client \in [Requests -> ClientStates] /\ client[r] \in ClientStates
  BY DEF ExchangeInv, Typed
<1>4. Agreed(r) /\ exit[r].pc = "answered" /\ exit[r] \in ExitStates
  BY <1>1 DEF ExchangeInv, Agreed, ResponseInTransit, Typed
<1>5. message.sealed.text = exit[r].response /\ message.counter = exit[r].updatedTS
  BY <1>1, <1>4 DEF Agreed, ResponseInTransit, ResponseSealed, Encrypted
<1>6. exit[r].response \in Responses /\ exit[r].updatedTS \in Nat
  BY <1>4 DEF ExitStates
<1> HIDE DEF message
<1>7. after \in ClientStates /\ [client[r] EXCEPT !.pc = "failed"] \in ClientStates
  BY <1>3, <1>5, <1>6 DEF ClientStates
<1>8. /\ after.pc = "done" /\ after.response = exit[r].response
      /\ after.updatedTS = exit[r].updatedTS
      /\ after.version = client[r].version /\ after.key = client[r].key
  BY <1>3, <1>5 DEF ClientStates
<1> HIDE DEF after
<1>9. client' \in [Requests -> ClientStates]
  BY <1>2, <1>3, <1>7
<1>10. Typed'
  BY <1>1, <1>9 DEF ExchangeInv, Typed
<1>11. ASSUME NEW q \in Requests PROVE Agreed(q)'
  <2>1. CASE client'[q] = client[q]
    BY <1>1, <2>1, AgreedUnchanged DEF ExchangeInv
  <2>2. CASE client'[q] # client[q]
    <3>1. q = r
      BY <1>2, <1>3, <2>2
    <3>2. /\ client'[r].version = client[r].version /\ client'[r].key = client[r].key
          /\ client'[r].pc # "new"
          /\ client'[r].pc = "done" => /\ client'[r].response = exit[r].response
                                       /\ client'[r].updatedTS = exit[r].updatedTS
      <4>1. CASE client' = [client EXCEPT ![r] = [client[r] EXCEPT !.pc = "failed"]]
        <5>1. client'[r] = [client[r] EXCEPT !.pc = "failed"]
          BY <1>3, <4>1
        <5> QED
          BY <1>3, <5>1 DEF ClientStates
      <4>2. CASE client' = [client EXCEPT ![r] = after]
        BY <1>3, <1>8, <4>2
      <4> QED
        BY <1>2, <2>2, <4>1, <4>2
    <3>3. RequestInTransit(r)'
      BY <1>1, <1>4, <3>2 DEF Agreed, RequestInTransit, RequestSealed
    <3>4. ExitUnderstood(r)'
      BY <1>1, <1>4, <3>2 DEF Agreed, ExitUnderstood, Understood
    <3>5. ResponseInTransit(r)' /\ ClientAnswered(r)'
      BY <1>1, <1>4, <3>2 DEF Agreed, ResponseInTransit, ResponseSealed, ClientAnswered
    <3> QED
      BY <3>1, <3>3, <3>4, <3>5 DEF Agreed
  <2> QED
    BY <2>1, <2>2
<1> QED
  BY <1>10, <1>11 DEF ExchangeInv

\* Giving up on either side.
LEMMA GiveUpKeeps ==
    ASSUME ExchangeInv, NEW r \in Requests, GiveUp(r)
    PROVE  ExchangeInv'
<1>1. /\ wire' = wire /\ exit' = exit /\ sent' = sent /\ client[r].pc = "waiting"
      /\ client' = [client EXCEPT ![r] = [client[r] EXCEPT !.pc = "failed"]]
  BY DEF GiveUp, Remove
<1>2. client \in [Requests -> ClientStates] /\ client[r] \in ClientStates
  BY DEF ExchangeInv, Typed
<1>3. [client[r] EXCEPT !.pc = "failed"] \in ClientStates
  BY <1>2 DEF ClientStates
<1>4. /\ client'[r].pc = "failed" /\ client'[r].version = client[r].version
      /\ client'[r].key = client[r].key
      /\ \A q \in Requests \ {r} : client'[q] = client[q]
  <2>1. client'[r] = [client[r] EXCEPT !.pc = "failed"]
    BY <1>1, <1>2
  <2> QED
    BY <1>1, <1>2, <2>1 DEF ClientStates
<1>5. Typed'
  BY <1>1, <1>2, <1>3 DEF ExchangeInv, Typed
<1>6. ASSUME NEW q \in Requests PROVE Agreed(q)'
  <2>1. CASE q # r
    BY <1>1, <1>4, <2>1, AgreedUnchanged DEF ExchangeInv
  <2>2. Agreed(r)'
    <3>1. Agreed(r)
      BY DEF ExchangeInv
    <3> QED
      BY <1>1, <1>4, <3>1 DEF Agreed, RequestInTransit, RequestSealed, ExitUnderstood,
         Understood, ResponseInTransit, ResponseSealed, ClientAnswered
  <2> QED
    BY <2>1, <2>2
<1> QED
  BY <1>5, <1>6 DEF ExchangeInv

LEMMA ExchangeInvUnchanged ==
    ASSUME ExchangeInv, wire' = wire, client' = client, exit' = exit, sent' = sent
    PROVE  ExchangeInv'
<1>1. Typed'
  BY DEF ExchangeInv, Typed
<1>2. ASSUME NEW q \in Requests PROVE Agreed(q)'
  BY AgreedUnchanged DEF ExchangeInv
<1> QED
  BY <1>1, <1>2 DEF ExchangeInv

LEMMA ExchangeInductive == ExchangeInv /\ [ExchangeNext]_exchangeVars => ExchangeInv'
<1> SUFFICES ASSUME ExchangeInv, [ExchangeNext]_exchangeVars PROVE ExchangeInv'
  OBVIOUS
<1>1. ASSUME NEW r \in Requests, CreateRequest(r) PROVE ExchangeInv'
  BY <1>1, CreateRequestKeeps
<1>2. ASSUME NEW r \in Requests, RespToMessage(r) PROVE ExchangeInv'
  BY <1>2, RespToMessageKeeps
<1>3. ASSUME NEW r \in Requests, GiveUp(r) PROVE ExchangeInv'
  BY <1>3, GiveUpKeeps
<1>4. ASSUME NEW r \in Requests, ExitGivesUp(r) PROVE ExchangeInv'
  BY <1>4, ExchangeInvUnchanged DEF ExitGivesUp, Remove, ends
<1>5. ASSUME NEW r \in Requests, NEW nr \in Numbers(Req(r)), DeliverRequest(r, nr)
      PROVE  ExchangeInv'
  BY <1>5, DeliverRequestKeeps
<1>6. ASSUME NEW r \in Requests, NEW nr \in Numbers(Resp(r)), DeliverResponse(r, nr)
      PROVE  ExchangeInv'
  BY <1>6, DeliverResponseKeeps
<1>7. CASE UNCHANGED exchangeVars
  BY <1>7, ExchangeInvUnchanged DEF exchangeVars, vars, ends
<1> QED
  BY <1>1, <1>2, <1>3, <1>4, <1>5, <1>6, <1>7 DEF ExchangeNext

-----------------------------------------------------------------------------
(* Theorems *)

\* Type correctness of both ends.
THEOREM ExchangeTypeCorrect == ExchangeSpec => []ExchangeTypeOK
<1>1. ExchangeInv /\ TypeOK => ExchangeTypeOK
  BY DEF ExchangeInv, Typed, ExchangeTypeOK, ClientStates, ExitStates, Responses
<1> QED
  BY <1>1, ExchangeInitially, ExchangeInductive, UsesSegments, TypeCorrect, PTL DEF ExchangeSpec

\* A client resolves with the answer the exit gave to this very request, and
\* their sessions agree: for every set of requests, version, key and clock.
THEOREM AnswersAgreeAlways == ExchangeSpec => []AnswersAgree
<1>1. ExchangeInv => AnswersAgree
  BY DEF ExchangeInv, Agreed, ClientAnswered, ResponseInTransit, ExitUnderstood, AnswersAgree
<1> QED
  BY <1>1, ExchangeInitially, ExchangeInductive, PTL DEF ExchangeSpec

\* The exit only answers requests boxed with its own version and key.
THEOREM AnsweredWereUnderstood == ExchangeSpec => []OnlyUnderstoodAnswered
<1>1. ExchangeInv => OnlyUnderstoodAnswered
  BY DEF ExchangeInv, Agreed, ExitUnderstood, OnlyUnderstoodAnswered
<1> QED
  BY <1>1, ExchangeInitially, ExchangeInductive, PTL DEF ExchangeSpec
==============================================================================
