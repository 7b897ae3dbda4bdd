--------------------------- MODULE OperatorLemmas ---------------------------
(***************************************************************************)
(* Facts about the operators the models are built from, for queues and     *)
(* stores of any size: what the operations of OrderedCompletionQueue and   *)
(* of InMemoryMetadataStore do.  The proofs about their users cite them.   *)
(***************************************************************************)
EXTENDS CompletionQueue, MetadataConfigs, WellFoundedInduction, TLAPS

(* A set of naturals has a least element: induction takes the form of a
   least counterexample. *)
LEMMA LeastElement ==
  ASSUME NEW S \in SUBSET Nat, S # {}
  PROVE  \E m \in S : \A k \in S : m <= k
<1>1. PICK x \in S : \A y \in S : ~ (<<y, x>> \in OpToRel(<, Nat))
  BY NatLessThanWellFounded, WFMin
<1>2. \A y \in S : ~ (y < x)
  BY <1>1 DEF OpToRel
<1> QED
  BY <1>2

(* A bounded set of integers has a largest element: the least distance from
   the bound. *)
LEMMA LargestElement ==
  ASSUME NEW lo \in Int, NEW hi \in Int, NEW S \in SUBSET (lo .. hi), S # {}
  PROVE  \E m \in S : \A k \in S : k <= m
<1> DEFINE T == {hi - k : k \in S}
<1>1. T \subseteq Nat /\ T # {}
  OBVIOUS
<1>2. PICK x \in T : \A y \in T : ~ (<<y, x>> \in OpToRel(<, Nat))
  BY <1>1, NatLessThanWellFounded, WFMin
<1>3. \A y \in T : ~ (y < x)
  BY <1>1, <1>2 DEF OpToRel
<1>4. PICK m \in S : x = hi - m
  OBVIOUS
<1>5. \A k \in S : ~ (hi - k < hi - m)
  BY <1>3, <1>4
<1> QED
  BY <1>5

-----------------------------------------------------------------------------
(* OrderedCompletionQueue *)

(* A queue over the keys lo .. hi. *)
QueueOver(q, lo, hi) ==
  /\ lo \in Int /\ hi \in Int
  /\ q.cur \in lo .. (hi + 1)
  /\ q.pend \in SUBSET (lo .. hi)

(***************************************************************************)
(* The walk completes the interval of keys from the current index to where *)
(* it ends, and it ends at a missing key unless a key below the current    *)
(* index has stopped it at once.                                           *)
(***************************************************************************)
LEMMA WalkFacts ==
  ASSUME NEW q, NEW lo, NEW hi, QueueOver(q, lo, hi)
  PROVE  /\ EligibleEnd(q) \in q.cur .. (hi + 1)
         /\ EligibleKeys(q) = q.cur .. (EligibleEnd(q) - 1)
         /\ EligibleKeys(q) \subseteq q.pend
         /\ EligibleEnd(q) \in q.pend => \E k \in q.pend : k < q.cur
         /\ EligibleEnd(q) > q.cur => \A k \in q.pend : k >= q.cur
<1> DEFINE K == EligibleKeys(q)
           e == EligibleEnd(q)
<1>1. /\ lo \in Int /\ hi \in Int /\ q.cur \in lo .. (hi + 1) /\ q.pend \in SUBSET (lo .. hi)
  BY DEF QueueOver
<1>2. CASE \E k \in q.pend : k < q.cur
  <2>1. K = {} /\ e = q.cur
    BY <1>2 DEF EligibleKeys, EligibleEnd
  <2> QED
    BY <1>1, <1>2, <2>1
<1>3. CASE \A k \in q.pend : k >= q.cur
  <2>1. K = {k \in q.pend : \A j \in q.cur .. k : j \in q.pend}
    BY <1>1, <1>3 DEF EligibleKeys
  <2>2. CASE K = {}
    <3>1. e = q.cur
      BY <2>2 DEF EligibleEnd
    <3>2. q.cur \notin q.pend
      <4> SUFFICES ASSUME q.cur \in q.pend PROVE FALSE
        OBVIOUS
      <4>1. \A j \in q.cur .. q.cur : j \in q.pend
        BY <1>1
      <4> QED
        BY <2>1, <2>2, <4>1
    <3> QED
      BY <1>1, <1>3, <2>2, <3>1, <3>2
  <2>3. CASE K # {}
    <3>1. K \in SUBSET (lo .. hi)
      BY <1>1, <2>1
    <3>2. \E m \in K : \A j \in K : j <= m
      BY <1>1, <2>3, <3>1, LargestElement
    <3> DEFINE m == CHOOSE k \in K : \A j \in K : j <= k
    <3>3. m \in K /\ \A j \in K : j <= m
      BY <3>2
    <3>4. e = 1 + m
      BY <2>3 DEF EligibleEnd
    <3> HIDE DEF m
    <3>5. m \in q.pend /\ m \in Int /\ m >= q.cur /\ m <= hi /\ \A j \in q.cur .. m : j \in q.pend
      BY <1>1, <1>3, <2>1, <3>3
    <3>6. q.cur .. m \subseteq K
      <4> SUFFICES ASSUME NEW j \in q.cur .. m PROVE j \in K
        OBVIOUS
      <4>1. \A i \in q.cur .. j : i \in q.cur .. m
        BY <1>1, <3>5
      <4> QED
        BY <2>1, <3>5, <4>1
    <3>7. K \subseteq q.cur .. m
      BY <1>1, <1>3, <2>1, <3>1, <3>3, <3>5
    <3>8. m + 1 \notin q.pend
      <4> SUFFICES ASSUME m + 1 \in q.pend PROVE FALSE
        OBVIOUS
      <4>1. \A j \in q.cur .. (m + 1) : j \in q.pend
        BY <1>1, <3>5
      <4>2. m + 1 \in K
        BY <2>1, <4>1
      <4> QED
        BY <3>3, <3>5, <4>2
    <3>9. K = q.cur .. (e - 1) /\ K \subseteq q.pend /\ e \in q.cur .. (hi + 1) /\ e \notin q.pend
      BY <1>1, <2>1, <3>4, <3>5, <3>6, <3>7, <3>8
    <3> QED
      BY <1>3, <3>9
  <2> QED
    BY <2>2, <2>3
<1> QED
  BY <1>1, <1>2, <1>3

(* add with complete = true *)
LEMMA AddFacts ==
  ASSUME NEW q, NEW lo, NEW hi, QueueOver(q, lo, hi), NEW i \in lo .. hi,
         q = [cur |-> q.cur, pend |-> q.pend], NEW r, r = AddAndComplete(q, i)
  PROVE  /\ r.queue = [cur |-> r.queue.cur, pend |-> r.queue.pend]
         /\ QueueOver(r.queue, lo, hi)
         /\ r.queue.cur >= q.cur
         /\ r.done = q.cur .. (r.queue.cur - 1)
         /\ r.done \subseteq q.pend \union {i}
         /\ r.queue.pend = (q.pend \union {i}) \ r.done
         /\ \A k \in r.queue.pend : k < r.queue.cur => k < q.cur
<1> DEFINE p == [q EXCEPT !.pend = @ \union {i}]
           e == EligibleEnd(p)
           K == EligibleKeys(p)
<1>1. p.cur = q.cur /\ p.pend = q.pend \union {i} /\ QueueOver(p, lo, hi)
  BY DEF QueueOver
<1>2. r = [queue |-> [cur |-> e, pend |-> p.pend \ K], done |-> K]
  BY DEF AddAndComplete, CheckAndComplete
<1>3. e \in p.cur .. (hi + 1) /\ K = p.cur .. (e - 1) /\ K \subseteq p.pend
  BY <1>1, WalkFacts
<1> HIDE DEF p, e, K
<1>4. r.queue = [cur |-> e, pend |-> p.pend \ K] /\ r.done = K
  BY <1>2
<1>5. /\ r.queue.cur = e /\ r.queue.pend = (q.pend \union {i}) \ K
  BY <1>1, <1>4
<1>6. q.cur \in Int /\ e \in Int /\ q.pend \subseteq Int /\ i \in Int /\ lo \in Int /\ hi \in Int
      /\ q.cur \in lo .. (hi + 1) /\ q.pend \subseteq lo .. hi
  BY <1>1, <1>3 DEF QueueOver
<1>7. QueueOver(r.queue, lo, hi)
  BY <1>1, <1>3, <1>5, <1>6 DEF QueueOver
<1>8. \A k \in r.queue.pend : k < r.queue.cur => k < q.cur
  BY <1>1, <1>3, <1>5, <1>6
<1>9. r.queue.cur >= q.cur /\ r.done = q.cur .. (r.queue.cur - 1)
      /\ r.done \subseteq q.pend \union {i}
  BY <1>1, <1>3, <1>4, <1>5, <1>6
<1>10. r.queue = [cur |-> r.queue.cur, pend |-> r.queue.pend] /\ r.queue.pend = (q.pend \union {i}) \ r.done
  BY <1>4, <1>5
<1> QED
  BY <1>7, <1>8, <1>9, <1>10

(* completeAllBelow: what is left below the current index was there before. *)
LEMMA BelowFacts ==
  ASSUME NEW q, NEW lo, NEW hi, QueueOver(q, lo, hi), NEW n \in Int, n <= hi + 1,
         NEW r, r = CompleteAllBelow(q, n),
         NEW from, from = IF n > q.cur THEN n ELSE q.cur
  PROVE  /\ r.queue = [cur |-> r.queue.cur, pend |-> r.queue.pend]
         /\ QueueOver(r.queue, lo, hi)
         /\ r.queue.cur >= from
         /\ r.done = {k \in q.pend : k < n} \union (from .. (r.queue.cur - 1))
         /\ r.done \subseteq q.pend
         /\ r.queue.pend = q.pend \ r.done
         /\ \A k \in r.queue.pend : k < r.queue.cur => k < q.cur
<1> DEFINE p == SkipTo(q, n)
           e == EligibleEnd(p)
           K == EligibleKeys(p)
           low == {k \in q.pend : k < n}
<1>0. /\ q.cur \in Int /\ q.pend \subseteq Int /\ lo \in Int /\ hi \in Int
      /\ q.cur \in lo .. (hi + 1) /\ q.pend \subseteq lo .. hi
  BY DEF QueueOver
<1>1. p.cur = from /\ p.pend = {k \in q.pend : k >= n}
  BY DEF SkipTo
<1>2. from \in lo .. (hi + 1) /\ from >= q.cur /\ from >= n
  BY <1>0
<1>3. QueueOver(p, lo, hi)
  BY <1>0, <1>1, <1>2 DEF QueueOver
<1>4. r = [queue |-> [cur |-> e, pend |-> p.pend \ K], done |-> low \union K]
  BY DEF CompleteAllBelow, CheckAndComplete
<1>5. e \in p.cur .. (hi + 1) /\ K = p.cur .. (e - 1) /\ K \subseteq p.pend
  BY <1>3, WalkFacts
<1> HIDE DEF p, e, K
<1>6. /\ r.queue = [cur |-> e, pend |-> p.pend \ K] /\ r.done = low \union K
  BY <1>4
<1>7. r.queue.cur = e /\ r.queue.pend = p.pend \ K /\ e \in Int
  BY <1>2, <1>1, <1>5, <1>6
<1>8. r.queue.pend = q.pend \ r.done /\ r.done \subseteq q.pend
  BY <1>0, <1>1, <1>5, <1>6, <1>7
<1>9. QueueOver(r.queue, lo, hi) /\ r.queue.cur >= from
  BY <1>0, <1>1, <1>2, <1>5, <1>7, <1>8 DEF QueueOver
<1>10. \A k \in r.queue.pend : k < r.queue.cur => k < q.cur
  <2> SUFFICES ASSUME NEW k \in r.queue.pend, k < r.queue.cur PROVE k < q.cur
    OBVIOUS
  <2>1. k \in q.pend /\ k >= n /\ k \notin p.cur .. (e - 1) /\ k \in Int
    BY <1>0, <1>1, <1>5, <1>7
  <2>2. k < from
    BY <1>1, <1>2, <1>7, <2>1
  <2> QED
    BY <1>0, <2>1, <2>2
<1>11. r.done = low \union (from .. (r.queue.cur - 1))
  BY <1>1, <1>5, <1>6, <1>7
<1>12. r.queue = [cur |-> r.queue.cur, pend |-> r.queue.pend]
  BY <1>6, <1>7
<1> QED
  BY <1>8, <1>9, <1>10, <1>11, <1>12

(* Completing everything below where the walk would end gets exactly there. *)
LEMMA BelowWalkEnd ==
  ASSUME NEW q, NEW lo, NEW hi, QueueOver(q, lo, hi), EligibleEnd(q) > q.cur
  PROVE  CompleteAllBelow(q, EligibleEnd(q) - 1).queue.cur = EligibleEnd(q)
<1> DEFINE e == EligibleEnd(q)
           p == SkipTo(q, e - 1)
           f == EligibleEnd(p)
<1>1. /\ e \in q.cur .. (hi + 1) /\ EligibleKeys(q) = q.cur .. (e - 1)
      /\ EligibleKeys(q) \subseteq q.pend /\ \A k \in q.pend : k >= q.cur
      /\ e \in q.pend => \E k \in q.pend : k < q.cur
  BY WalkFacts
<1>2. /\ q.cur \in Int /\ q.pend \subseteq Int /\ lo \in Int /\ hi \in Int
      /\ q.cur \in lo .. (hi + 1) /\ q.pend \subseteq lo .. hi
  BY DEF QueueOver
<1>3. e - 1 \in q.pend /\ e \notin q.pend /\ e \in Int
  BY <1>1, <1>2
<1>4. p.cur = e - 1 /\ p.pend = {k \in q.pend : k >= e - 1}
  BY <1>1, <1>2, <1>3 DEF SkipTo
<1> HIDE DEF p, e
<1>5. QueueOver(p, lo, hi)
  BY <1>1, <1>2, <1>3, <1>4 DEF QueueOver
<1>6. /\ f \in p.cur .. (hi + 1) /\ p.cur .. (f - 1) \subseteq p.pend
      /\ f \in p.pend => \E k \in p.pend : k < p.cur
  BY <1>5, WalkFacts
<1>7. f # e - 1
  BY <1>2, <1>3, <1>4, <1>6
<1>8. ~ (f > e)
  BY <1>2, <1>3, <1>4, <1>6
<1>9. f = e
  BY <1>2, <1>3, <1>4, <1>6, <1>7, <1>8
<1>10. CompleteAllBelow(q, e - 1).queue.cur = f
  BY DEF CompleteAllBelow, CheckAndComplete, p
<1> QED
  BY <1>9, <1>10 DEF e

-----------------------------------------------------------------------------
(* InMemoryMetadataStore *)

LEMMA LargestIs ==
  ASSUME NEW S \in SUBSET Int, NEW m \in S, \A k \in S : k <= m
  PROVE  Largest(S) = m
<1> DEFINE x == CHOOSE k \in S : \A j \in S : j <= k
<1>1. x \in S /\ \A j \in S : j <= x
  OBVIOUS
<1>2. Largest(S) = x
  BY DEF Largest
<1> HIDE DEF x
<1> QED
  BY <1>1, <1>2

ConfigFields == {"prev", "ver", "start", "end", "seqr"}

(***************************************************************************)
(* A store with the versions 1 .. n: each ends where the next one starts,  *)
(* the first one starts at lo, and the map by log id holds, for each start *)
(* index, a copy of the newest version that starts there, with an end past *)
(* top.                                                                    *)
(***************************************************************************)
StoreOf(s, n, lo, top) ==
  /\ n \in Nat /\ DOMAIN s = {"configs", "byLogId"} /\ DOMAIN s.configs = 1 .. n
  /\ \A v \in 1 .. n : /\ DOMAIN s.configs[v] = ConfigFields
                       /\ s.configs[v].ver = v /\ s.configs[v].start \in Int
  /\ n >= 1 => s.configs[1].start = lo
  /\ \A v \in 1 .. n : v # 1 => s.configs[v - 1].end = s.configs[v].start
  /\ \A v, w \in 1 .. n : v <= w => s.configs[v].start <= s.configs[w].start
  /\ DOMAIN s.byLogId = {s.configs[v].start : v \in 1 .. n}
  /\ \A x \in DOMAIN s.byLogId :
       /\ s.byLogId[x].start = x /\ s.byLogId[x].end \in Int /\ s.byLogId[x].end > top
       /\ s.byLogId[x].ver \in 1 .. n /\ s.configs[s.byLogId[x].ver].start = x
       /\ \A v \in 1 .. n : s.configs[v].start = x => v <= s.byLogId[x].ver

(* getCurrentVersionId *)
LEMMA CurrentIs ==
  ASSUME NEW s, NEW n \in Nat, DOMAIN s.configs = 1 .. n
  PROVE  CurrentVersionId(s) = n
<1>1. CASE n = 0
  <2>1. DOMAIN s.configs = {}
    BY <1>1
  <2> QED
    BY <1>1, <2>1 DEF CurrentVersionId
<1>2. CASE n >= 1
  <2>1. n \in 1 .. n /\ 1 .. n \in SUBSET Int /\ \A k \in 1 .. n : k <= n
    BY <1>2
  <2>2. Largest(1 .. n) = n
    BY <2>1, LargestIs
  <2> QED
    BY <2>1, <2>2 DEF CurrentVersionId
<1> QED
  BY <1>1, <1>2

LEMMA EmptyStoreIs ==
  ASSUME NEW lo, NEW top
  PROVE  StoreOf(EmptyStore, 0, lo, top) /\ CurrentVersionId(EmptyStore) = 0
<1>1. /\ DOMAIN EmptyStore = {"configs", "byLogId"}
      /\ DOMAIN EmptyStore.configs = {} /\ DOMAIN EmptyStore.byLogId = {}
  BY DEF EmptyStore
<1>2. 1 .. 0 = {}
  OBVIOUS
<1>3. StoreOf(EmptyStore, 0, lo, top)
  BY <1>1, <1>2 DEF StoreOf
<1> QED
  BY <1>1, <1>2, <1>3, CurrentIs

(* compareAndAppendRange accepts exactly the successor of the last version. *)
LEMMA MayAppendIs ==
  ASSUME NEW s, NEW n \in Nat, DOMAIN s.configs = 1 .. n, NEW g, g.prev \in Int, g.ver = g.prev + 1
  PROVE  MayAppendRange(s, g) <=> g.prev = n
<1>1. CurrentVersionId(s) = n
  BY CurrentIs
<1>2. CASE n = 0
  <2>1. DOMAIN s.configs = {}
    BY <1>2
  <2> QED
    BY <1>2, <2>1 DEF MayAppendRange
<1>3. CASE n >= 1
  <2>1. DOMAIN s.configs # {}
    BY <1>3
  <2> QED
    BY <1>1, <2>1 DEF MayAppendRange
<1> QED
  BY <1>2, <1>3

LEMMA AppendRangeIs ==
  ASSUME NEW s, NEW n, NEW lo, NEW top, StoreOf(s, n, lo, top),
         NEW g, DOMAIN g = ConfigFields, g.prev = n, g.ver = n + 1,
         g.start \in Int, g.end \in Int, g.end > top,
         IF n = 0 THEN g.start = lo ELSE g.start >= s.configs[n].start,
         NEW t, t = AppendRange(s, g)
  PROVE  /\ StoreOf(t, n + 1, lo, top) /\ CurrentVersionId(t) = n + 1
         /\ t.configs[n + 1] = g
         /\ \A v \in 1 .. n : /\ t.configs[v].start = s.configs[v].start
                              /\ t.configs[v].seqr = s.configs[v].seqr
         /\ DOMAIN t.byLogId = DOMAIN s.byLogId \union {g.start}
<1>0. /\ n \in Nat /\ DOMAIN s.configs = 1 .. n
      /\ \A v \in 1 .. n : /\ DOMAIN s.configs[v] = ConfigFields
                           /\ s.configs[v].ver = v /\ s.configs[v].start \in Int
      /\ n >= 1 => s.configs[1].start = lo
      /\ \A v \in 1 .. n : v # 1 => s.configs[v - 1].end = s.configs[v].start
      /\ \A v, w \in 1 .. n : v <= w => s.configs[v].start <= s.configs[w].start
      /\ DOMAIN s.byLogId = {s.configs[v].start : v \in 1 .. n}
      /\ \A x \in DOMAIN s.byLogId :
           /\ s.byLogId[x].start = x /\ s.byLogId[x].end \in Int /\ s.byLogId[x].end > top
           /\ s.byLogId[x].ver \in 1 .. n /\ s.configs[s.byLogId[x].ver].start = x
           /\ \A v \in 1 .. n : s.configs[v].start = x => v <= s.byLogId[x].ver
  BY DEF StoreOf
<1> DEFINE closed == IF DOMAIN s.configs = {} THEN s.configs
                     ELSE [s.configs EXCEPT ![n].end = g.start]
<1>1. /\ DOMAIN t = {"configs", "byLogId"} /\ t.configs = Put(closed, n + 1, g)
      /\ t.byLogId = Put(s.byLogId, g.start, g)
  BY DEF AppendRange
<1>2. /\ DOMAIN closed = 1 .. n
      /\ \A v \in 1 .. n : /\ DOMAIN closed[v] = ConfigFields
                           /\ closed[v].ver = v /\ closed[v].start = s.configs[v].start
                           /\ v # n => closed[v].end = s.configs[v].end
                           /\ v = n => closed[v].end = g.start
  <2>1. CASE n = 0
    BY <1>0, <2>1
  <2>2. CASE n >= 1
    <3>1. DOMAIN s.configs # {} /\ n \in DOMAIN s.configs
      BY <1>0, <2>2
    <3>2. closed = [s.configs EXCEPT ![n].end = g.start]
      BY <3>1
    <3> HIDE DEF closed
    <3>3. DOMAIN closed = 1 .. n /\ closed[n] = [s.configs[n] EXCEPT !.end = g.start]
          /\ \A v \in 1 .. n : v # n => closed[v] = s.configs[v]
      BY <1>0, <3>1, <3>2
    <3>4. /\ DOMAIN closed[n] = ConfigFields /\ closed[n].ver = n
          /\ closed[n].start = s.configs[n].start /\ closed[n].end = g.start
      BY <1>0, <3>1, <3>3 DEF ConfigFields
    <3> QED
      BY <1>0, <3>3, <3>4
  <2>3. n = 0 \/ n >= 1
    BY <1>0
  <2> QED
    BY <2>1, <2>2, <2>3
<1>2a. \A v \in 1 .. n : closed[v].seqr = s.configs[v].seqr
  <2> SUFFICES ASSUME NEW v \in 1 .. n PROVE closed[v].seqr = s.configs[v].seqr
    OBVIOUS
  <2>0. n >= 1
    BY <1>0
  <2>1. DOMAIN s.configs # {} /\ n \in DOMAIN s.configs
    BY <1>0, <2>0
  <2>2. closed = [s.configs EXCEPT ![n].end = g.start]
    BY <2>1
  <2> HIDE DEF closed
  <2>3. closed[n] = [s.configs[n] EXCEPT !.end = g.start] /\ (v # n => closed[v] = s.configs[v])
    BY <1>0, <2>1, <2>2
  <2>4. closed[n].seqr = s.configs[n].seqr
    BY <1>0, <2>1, <2>3 DEF ConfigFields
  <2> QED
    BY <2>3, <2>4
<1> HIDE DEF closed
<1>3. /\ DOMAIN t.configs = 1 .. (n + 1) /\ t.configs[n + 1] = g
      /\ \A v \in 1 .. n : t.configs[v] = closed[v]
  BY <1>0, <1>1, <1>2 DEF Put
<1>4. /\ DOMAIN t.byLogId = DOMAIN s.byLogId \union {g.start} /\ t.byLogId[g.start] = g
      /\ \A x \in DOMAIN s.byLogId : x # g.start => t.byLogId[x] = s.byLogId[x]
  BY <1>1 DEF Put
<1>5. \A v \in 1 .. n : t.configs[v].start = s.configs[v].start
  BY <1>2, <1>3
<1>6. \A v \in 1 .. n : s.configs[v].start <= g.start
  <2> TAKE v \in 1 .. n
  <2>1. n \in 1 .. n /\ v <= n
    BY <1>0
  <2>2. s.configs[v].start <= s.configs[n].start /\ s.configs[v].start \in Int
        /\ s.configs[n].start \in Int
    BY <1>0, <2>1
  <2> QED
    BY <1>0, <2>1, <2>2
<1>7. \A v \in 1 .. (n + 1) : v \in 1 .. n \/ v = n + 1
  BY <1>0
<1>8. \A v \in 1 .. (n + 1) : /\ DOMAIN t.configs[v] = ConfigFields
                              /\ t.configs[v].ver = v /\ t.configs[v].start \in Int
  <2> TAKE v \in 1 .. (n + 1)
  <2>1. CASE v \in 1 .. n
    BY <1>0, <1>2, <1>3, <2>1
  <2>2. CASE v = n + 1
    BY <1>3, <2>2
  <2> QED
    BY <1>7, <2>1, <2>2
<1>9. t.configs[1].start = lo
  BY <1>0, <1>3, <1>5
<1>10. \A v \in 1 .. (n + 1) : v # 1 => t.configs[v - 1].end = t.configs[v].start
  <2> SUFFICES ASSUME NEW v \in 1 .. (n + 1), v # 1
               PROVE  t.configs[v - 1].end = t.configs[v].start
    OBVIOUS
  <2>1. v - 1 \in 1 .. n
    BY <1>0
  <2>2. CASE v = n + 1
    <3>1. v - 1 = n /\ n \in 1 .. n
      BY <1>0, <2>1, <2>2
    <3>2. t.configs[n] = closed[n] /\ closed[n].end = g.start
      BY <1>2, <1>3, <3>1
    <3> QED
      BY <1>3, <2>2, <3>1, <3>2
  <2>3. CASE v \in 1 .. n
    <3>1. v - 1 # n
      BY <1>0, <2>3
    <3> QED
      BY <1>0, <1>2, <1>3, <2>1, <2>3, <3>1
  <2> QED
    BY <1>7, <2>2, <2>3
<1>11. \A v, w \in 1 .. (n + 1) : v <= w => t.configs[v].start <= t.configs[w].start
  <2> SUFFICES ASSUME NEW v \in 1 .. (n + 1), NEW w \in 1 .. (n + 1), v <= w
               PROVE  t.configs[v].start <= t.configs[w].start
    OBVIOUS
  <2>1. CASE w = n + 1
    BY <1>3, <1>5, <1>6, <1>7, <2>1
  <2>2. CASE w \in 1 .. n
    <3>1. v \in 1 .. n
      BY <1>0, <2>2
    <3> QED
      BY <1>0, <1>5, <2>2, <3>1
  <2> QED
    BY <1>7, <2>1, <2>2
<1>12. DOMAIN t.byLogId = {t.configs[v].start : v \in 1 .. (n + 1)}
  <2>1. ASSUME NEW x \in DOMAIN t.byLogId PROVE \E v \in 1 .. (n + 1) : x = t.configs[v].start
    <3>1. CASE x = g.start
      <4>1. n + 1 \in 1 .. (n + 1)
        BY <1>0
      <4> QED
        BY <1>3, <3>1, <4>1
    <3>2. CASE x \in DOMAIN s.byLogId
      <4>1. PICK v \in 1 .. n : x = s.configs[v].start
        BY <1>0, <3>2
      <4>2. v \in 1 .. (n + 1)
        BY <1>0
      <4> QED
        BY <1>5, <4>1, <4>2
    <3> QED
      BY <1>4, <2>1, <3>1, <3>2
  <2>2. ASSUME NEW v \in 1 .. (n + 1) PROVE t.configs[v].start \in DOMAIN t.byLogId
    BY <1>0, <1>3, <1>4, <1>5, <1>7
  <2> QED
    BY <2>1, <2>2
<1>13. ASSUME NEW x \in DOMAIN t.byLogId
       PROVE  /\ t.byLogId[x].start = x /\ t.byLogId[x].end \in Int /\ t.byLogId[x].end > top
              /\ t.byLogId[x].ver \in 1 .. (n + 1) /\ t.configs[t.byLogId[x].ver].start = x
              /\ \A v \in 1 .. (n + 1) : t.configs[v].start = x => v <= t.byLogId[x].ver
  <2>1. CASE x = g.start
    BY <1>0, <1>3, <1>4, <2>1
  <2>2. CASE x # g.start
    <3>1. x \in DOMAIN s.byLogId /\ t.byLogId[x] = s.byLogId[x]
      BY <1>4, <2>2
    <3>2. s.byLogId[x].ver \in 1 .. n /\ s.byLogId[x].ver \in 1 .. (n + 1)
      BY <1>0, <3>1
    <3>3. \A v \in 1 .. (n + 1) : t.configs[v].start = x => v \in 1 .. n
      BY <1>3, <1>7, <2>2
    <3> DEFINE w == s.byLogId[x].ver
    <3>4. /\ s.byLogId[x].start = x /\ s.byLogId[x].end \in Int /\ s.byLogId[x].end > top
          /\ s.configs[w].start = x /\ \A v \in 1 .. n : s.configs[v].start = x => v <= w
      BY <1>0, <3>1
    <3>5. t.byLogId[x].ver = w /\ w \in 1 .. n
      BY <3>1, <3>2
    <3> HIDE DEF w
    <3>6. t.configs[w].start = x
      BY <1>5, <3>4, <3>5
    <3>7. \A v \in 1 .. (n + 1) : t.configs[v].start = x => v <= w
      BY <1>5, <3>3, <3>4
    <3> QED
      BY <3>1, <3>2, <3>4, <3>5, <3>6, <3>7
  <2> QED
    BY <2>1, <2>2
<1>14. n + 1 \in Nat
  BY <1>0
<1>15. StoreOf(t, n + 1, lo, top)
  BY <1>1, <1>3, <1>8, <1>9, <1>10, <1>11, <1>12, <1>13, <1>14 DEF StoreOf
<1>16. CurrentVersionId(t) = n + 1
  BY <1>3, <1>14, CurrentIs
<1>17. \A v \in 1 .. n : t.configs[v].seqr = s.configs[v].seqr
  BY <1>3, <1>2a
<1> QED
  BY <1>3, <1>4, <1>5, <1>15, <1>16, <1>17

(* getConfigUsingLogId finds the newest version that starts at or below the
   log id, although the copies it walks over are stale. *)
LEMMA LookupIs ==
  ASSUME NEW s, NEW n, NEW lo \in Int, NEW top \in Int, StoreOf(s, n, lo, top), n >= 1,
         NEW i \in lo .. top
  PROVE  {cfg.ver : cfg \in ConfigsUsingLogId(s, i)}
           = {Largest({v \in DOMAIN s.configs : s.configs[v].start <= i})}
<1> DEFINE hits == {x \in DOMAIN s.byLogId :
                      s.byLogId[x].start <= i /\ i < s.byLogId[x].end}
           V == {v \in DOMAIN s.configs : s.configs[v].start <= i}
<1>0. /\ n \in Nat /\ DOMAIN s.configs = 1 .. n
      /\ \A v \in 1 .. n : s.configs[v].start \in Int
      /\ s.configs[1].start = lo
      /\ \A v, w \in 1 .. n : v <= w => s.configs[v].start <= s.configs[w].start
      /\ DOMAIN s.byLogId = {s.configs[v].start : v \in 1 .. n}
      /\ \A x \in DOMAIN s.byLogId :
           /\ s.byLogId[x].start = x /\ s.byLogId[x].end \in Int /\ s.byLogId[x].end > top
           /\ s.byLogId[x].ver \in 1 .. n /\ s.configs[s.byLogId[x].ver].start = x
           /\ \A v \in 1 .. n : s.configs[v].start = x => v <= s.byLogId[x].ver
  BY DEF StoreOf
<1>1. DOMAIN s.byLogId \subseteq Int
  BY <1>0
<1>2. \A x \in DOMAIN s.byLogId : x \in hits <=> x <= i
  BY <1>0, <1>1
<1>3. lo \in hits
  BY <1>0, <1>2
<1>4. hits \in SUBSET (lo .. i)
  <2>1. ASSUME NEW x \in hits PROVE x \in lo .. i
    <3>1. PICK v \in 1 .. n : x = s.configs[v].start
      BY <1>0
    <3>2. s.configs[1].start <= s.configs[v].start
      BY <1>0
    <3> QED
      BY <1>0, <1>1, <1>2, <3>1, <3>2
  <2> QED
    BY <2>1
<1> HIDE DEF hits
<1>5. PICK m \in hits : \A k \in hits : k <= m
  <2>1. i \in Int /\ hits # {}
    BY <1>3
  <2> QED
    BY <1>4, <2>1, LargestElement
<1>6. hits \in SUBSET Int
  BY <1>4
<1>7. Largest(hits) = m
  BY <1>5, <1>6, LargestIs
<1>8. ConfigsUsingLogId(s, i) = {s.byLogId[m]}
  BY <1>3, <1>7 DEF ConfigsUsingLogId, hits
<1> DEFINE w == s.byLogId[m].ver
<1>9. m \in DOMAIN s.byLogId /\ m <= i /\ m \in Int
  BY <1>1, <1>2, <1>5 DEF hits
<1>10. w \in V
  BY <1>0, <1>9
<1>11. \A v \in V : v <= w
  <2> SUFFICES ASSUME NEW v \in V, v > w PROVE FALSE
    BY <1>0, <1>10
  <2>1. v \in 1 .. n /\ w \in 1 .. n /\ s.configs[v].start <= i /\ s.configs[v].start \in Int
    BY <1>0, <1>10
  <2>2. s.configs[v].start \in hits
    BY <1>0, <1>2, <2>1
  <2>3. s.configs[v].start <= m /\ s.configs[w].start = m /\ s.configs[w].start <= s.configs[v].start
    <3>1. s.configs[v].start <= m
      BY <1>5, <2>2
    <3>2. s.configs[w].start = m
      BY <1>0, <1>9
    <3>3. w <= v
      BY <2>1
    <3> QED
      BY <1>0, <2>1, <3>1, <3>2, <3>3
  <2>4. s.configs[v].start = m
    BY <1>9, <2>1, <2>3
  <2> QED
    BY <1>0, <1>9, <2>1, <2>4
<1>12. V \in SUBSET Int
  BY <1>0
<1> HIDE DEF V
<1>13. Largest(V) = w
  BY <1>10, <1>11, <1>12, LargestIs
<1> QED
  BY <1>8, <1>13 DEF V
=============================================================================
