-------------------------- MODULE VirtualLog_proofs --------------------------
(***************************************************************************)
(* Proofs about the replicated log for any replica set, any number of      *)
(* clients, sequencers, appends, versions, log ids, failed and late calls, *)
(* overlapping or not.  The last part assumes that calls follow each other *)
(* and that every version uses the same sequencer (OneAtATime): otherwise  *)
(* an acknowledged entry can be lost and replicas can disagree.            *)
(***************************************************************************)
EXTENDS VirtualLog, OperatorLemmas, FiniteSetTheorems

Ends == 1 .. (MaxLogId + 1)
Cur  == CurrentVersionId(store)

OpPcs == {"new", "numbered", "sent", "acked", "failed"}
Ops   == [pc : OpPcs, seqr : Sequencers, logId : 0 .. MaxLogId,
          ver : [Replicas -> 0 .. MaxVersion], gci : [Replicas -> 0 .. (MaxLogId + 1)]]

Installed  == {"setState", "startNum", "startGci", "startVer"}
AfterSeals == {"fetch", "await", "install", "adopt"} \union Installed
RcCalls    == [pc : AfterSeals \union {"idle", "seal"}, ver : 0 .. MaxVersion,
               target : Sequencers, quorum : SUBSET Replicas, todo : SUBSET Replicas,
               min : Int, max : 0 .. (MaxLogId + 1), at : Int, oks : SUBSET Replicas]

Fills == [client : Clients, replica : Replicas, ver : Versions, logId : LogIds,
          val : Appends, st : {"sent", "stored"}]

Types ==
  /\ seqr \in [Sequencers -> [num : Ends, gci : Ends, ver : Versions]]
  /\ op \in [Appends -> Ops] /\ stage \in [Appends -> [Replicas -> Stages]]
  /\ vlog \in [Clients -> [ver : 0 .. MaxVersion, seqr : Sequencers]]
  /\ rc \in [Clients -> RcCalls] /\ fill \subseteq Fills
  /\ onTime \in [Appends -> [stored : SUBSET Replicas, acked : SUBSET Replicas]]

(* The metadata store holds the versions 1 .. Cur, which begin in order. *)
StoreGood ==
  /\ StoreOf(store, Cur, 1, MaxLogId) /\ Cur \in Versions
  /\ DOMAIN store.byLogId \subseteq Ends
  /\ \A v \in 1 .. Cur : store.configs[v].seqr \in Sequencers

(* The nano log of a version that begins at start. *)
GoodLog(log, start) ==
  /\ DOMAIN log = {"sealed", "logs", "queue"} /\ log.sealed \in BOOLEAN
  /\ DOMAIN log.logs \subseteq LogIds /\ \A n \in DOMAIN log.logs : log.logs[n] \in Appends
  /\ log.queue = [cur |-> log.queue.cur, pend |-> log.queue.pend]
  /\ QueueOver(log.queue, 1, MaxLogId) /\ log.queue.pend \subseteq DOMAIN log.logs
  /\ start <= log.queue.cur

LogsGood ==
  /\ DOMAIN nano = Replicas /\ \A r \in Replicas : DOMAIN nano[r] = Versions
  /\ \A r \in Replicas, v \in Versions : nano[r][v] # NoLog =>
       v \in 1 .. Cur /\ GoodLog(nano[r][v], store.configs[v].start)

(* A request that passed the test of sealed_ has its nano log; one that was
   acknowledged lies below that log's current index. *)
OpGood(a) ==
  /\ op[a].pc = "new" => \A r \in Replicas : stage[a][r] = "none"
  /\ op[a].pc # "new" => op[a].logId \in LogIds
  /\ \A r \in Replicas :
       /\ stage[a][r] \in {"checked", "stored", "acked"} =>
            op[a].ver[r] \in Versions /\ nano[r][op[a].ver[r]] # NoLog
       /\ r \in onTime[a].acked =>
            stage[a][r] = "acked" /\ op[a].logId < nano[r][op[a].ver[r]].queue.cur

(* The replicas Q are sealed in version v, and what they acknowledged before
   that lies below x. *)
SealedBelow(Q, v, x) ==
  \A r \in Q :
    /\ nano[r][v] # NoLog /\ nano[r][v].sealed
    /\ \A a \in Appends : r \in onTime[a].acked /\ op[a].ver[r] = v => op[a].logId < x

Majorities == {Q \in SUBSET Replicas : Cardinality(Q) = QuorumSize}

(* A running reconfigure call. *)
CallGood(c) ==
  rc[c].pc # "idle" =>
    /\ rc[c].ver \in 1 .. Cur /\ rc[c].ver < MaxVersion
    /\ rc[c].quorum \in Majorities /\ rc[c].todo \subseteq rc[c].quorum
    /\ SealedBelow(rc[c].quorum \ rc[c].todo, rc[c].ver, rc[c].max)
    /\ rc[c].quorum # rc[c].todo =>
         rc[c].max \in Ends /\ store.configs[rc[c].ver].start <= rc[c].max
    /\ rc[c].pc \in AfterSeals => rc[c].todo = {}
    /\ rc[c].pc \in Installed => rc[c].ver + 1 \in 1 .. Cur

(* A version begins where a sealed majority of the one before ends. *)
EndsSealed ==
  \A v \in Versions : v + 1 \in 1 .. Cur =>
    \E Q \in Majorities : SealedBelow(Q, v, store.configs[v + 1].start)

LogInv ==
  /\ Types /\ StoreGood /\ LogsGood /\ EndsSealed
  /\ \A a \in Appends : OpGood(a)
  /\ \A c \in Clients : CallGood(c)
  /\ \A m \in fill : m.ver \in 1 .. Cur

-----------------------------------------------------------------------------
(* Nano logs *)

LEMMA Constants ==
  /\ MaxLogId \in Nat /\ MaxVersion \in Nat /\ MaxVersion >= 1 /\ MaxAborts \in Nat
  /\ BootstrapEnd \in Nat /\ EndOfLog \in Nat /\ BootstrapEnd > MaxLogId /\ EndOfLog > MaxLogId
  /\ IsFiniteSet(Replicas) /\ Replicas # {} /\ FirstSequencer \in Sequencers
BY VirtualLogConstants

LEMMA NoLogIs ==
  ASSUME NEW log, NEW x, GoodLog(log, x)
  PROVE  log # NoLog
BY DEF GoodLog, NoLog

LEMMA MakeGood ==
  ASSUME NEW x \in Ends
  PROVE  /\ GoodLog(MakeNanoLog(x), x) /\ MakeNanoLog(x).sealed = FALSE
         /\ DOMAIN MakeNanoLog(x).logs = {} /\ MakeNanoLog(x).queue.cur = x
<1> DEFINE log == MakeNanoLog(x)
<1>1. /\ DOMAIN log = {"sealed", "logs", "queue"} /\ log.sealed = FALSE
      /\ DOMAIN log.logs = {} /\ log.queue = [cur |-> x, pend |-> {}]
  BY DEF MakeNanoLog, EmptyQueue
<1> HIDE DEF log
<1>2. log.queue.cur = x /\ log.queue.pend = {}
  BY <1>1
<1>3. QueueOver(log.queue, 1, MaxLogId)
  BY <1>2, Constants DEF QueueOver, Ends
<1>4. x <= log.queue.cur
  BY <1>2, Constants DEF Ends
<1>5. GoodLog(log, x)
  BY <1>1, <1>2, <1>3, <1>4 DEF GoodLog
<1> QED
  BY <1>1, <1>2, <1>5 DEF log

(* append of a free position fulfils promises below the new current index
   only, and that index never goes back: it moves over stored entries and
   over what lies below the commit index. *)
LEMMA AppendLockedGood ==
  ASSUME NEW log, NEW x \in Int, GoodLog(log, x), NEW n \in LogIds, NEW p \in Appends,
         NEW G, G = {} \/ \E i \in 0 .. (MaxLogId + 1) : G = {i},
         NEW res, res = AppendLocked(log, G, n, p)
  PROVE  /\ GoodLog(res.log, x) /\ res.log.sealed = log.sealed
         /\ DOMAIN res.log.logs = DOMAIN log.logs \union {n}
         /\ res.log.logs[n] = p
         /\ \A k \in DOMAIN log.logs : k # n => res.log.logs[k] = log.logs[k]
         /\ log.queue.cur <= res.log.queue.cur
         /\ \A k \in res.done : k < res.log.queue.cur
         /\ \A k \in LogIds : log.queue.cur <= k /\ k < res.log.queue.cur =>
              k \in DOMAIN res.log.logs \/ \E i \in G : k < i
<1> DEFINE put  == AddAndComplete(log.queue, n)
           skip == IF G = {} THEN [queue |-> put.queue, done |-> {}]
                   ELSE CompleteAllBelow(put.queue, CHOOSE g \in G : TRUE)
           q == log.queue
<1>0. /\ DOMAIN log = {"sealed", "logs", "queue"} /\ log.sealed \in BOOLEAN
      /\ DOMAIN log.logs \subseteq LogIds /\ \A k \in DOMAIN log.logs : log.logs[k] \in Appends
      /\ q = [cur |-> q.cur, pend |-> q.pend]
      /\ QueueOver(q, 1, MaxLogId) /\ q.pend \subseteq DOMAIN log.logs
      /\ x <= q.cur
  BY DEF GoodLog
<1>1. /\ res.log = [log EXCEPT !.logs = Emplace(@, n, p), !.queue = skip.queue]
      /\ res.done = put.done \union skip.done
  BY DEF AppendLocked
<1>2. n \in 1 .. MaxLogId
  BY DEF LogIds
<1> HIDE DEF put, q
<1>3. /\ put.queue = [cur |-> put.queue.cur, pend |-> put.queue.pend]
      /\ QueueOver(put.queue, 1, MaxLogId) /\ put.queue.cur >= q.cur
      /\ put.done = q.cur .. (put.queue.cur - 1)
      /\ put.queue.pend = (q.pend \union {n}) \ put.done
      /\ put.done \subseteq q.pend \union {n}
  BY <1>0, <1>2, AddFacts DEF put, q
<1>4. /\ skip.queue = [cur |-> skip.queue.cur, pend |-> skip.queue.pend]
      /\ QueueOver(skip.queue, 1, MaxLogId) /\ skip.queue.cur >= put.queue.cur
      /\ \A k \in skip.done : k < skip.queue.cur
      /\ skip.queue.pend \subseteq put.queue.pend
      /\ \A k \in Int : put.queue.cur <= k /\ k < skip.queue.cur =>
           k \in put.queue.pend \/ \E i \in G : k < i
  <2>1. CASE G = {}
    <3>1. skip.queue = put.queue /\ skip.done = {}
      BY <2>1
    <3>2. put.queue.cur \in Int
      BY <1>3, Constants DEF QueueOver
    <3> QED
      BY <1>3, <3>1, <3>2
  <2>2. CASE G # {}
    <3>1. PICK i \in 0 .. (MaxLogId + 1) : G = {i}
      BY <2>2
    <3>2. (CHOOSE g \in G : TRUE) = i
      BY <3>1
    <3>3. skip = CompleteAllBelow(put.queue, i)
      BY <2>2, <3>2
    <3> HIDE DEF skip
    <3>4. i \in Int /\ i <= MaxLogId + 1
      BY <3>1, Constants
    <3> DEFINE from == IF i > put.queue.cur THEN i ELSE put.queue.cur
    <3>5. /\ skip.queue = [cur |-> skip.queue.cur, pend |-> skip.queue.pend]
          /\ QueueOver(skip.queue, 1, MaxLogId) /\ skip.queue.cur >= from
          /\ skip.done = {k \in put.queue.pend : k < i} \union (from .. (skip.queue.cur - 1))
          /\ skip.queue.pend = put.queue.pend \ skip.done
          /\ skip.done \subseteq put.queue.pend
      BY <1>3, <3>3, <3>4, BelowFacts
    <3>6. /\ put.queue.cur \in Int /\ skip.queue.cur \in Int /\ put.queue.pend \subseteq Int
          /\ from \in Int /\ from >= i /\ from >= put.queue.cur
      BY <1>3, <3>4, <3>5, Constants DEF QueueOver
    <3>8. ASSUME NEW k \in Int, put.queue.cur <= k, k < skip.queue.cur
          PROVE  k \in put.queue.pend \/ \E j \in G : k < j
      <4>1. k < i \/ k \in from .. (skip.queue.cur - 1)
        BY <3>4, <3>6, <3>8
      <4> QED
        BY <3>1, <3>5, <4>1
    <3> HIDE DEF from
    <3>7. \A k \in skip.done : k < skip.queue.cur
      BY <3>4, <3>5, <3>6
    <3> QED
      BY <3>5, <3>6, <3>7, <3>8
  <2> QED
    BY <2>1, <2>2
<1> HIDE DEF skip
<1>5. /\ DOMAIN res.log = {"sealed", "logs", "queue"} /\ res.log.sealed = log.sealed
      /\ res.log.logs = Emplace(log.logs, n, p) /\ res.log.queue = skip.queue
  BY <1>0, <1>1
<1>6. /\ DOMAIN res.log.logs = DOMAIN log.logs \union {n} /\ res.log.logs[n] = p
      /\ \A k \in DOMAIN log.logs : k # n => res.log.logs[k] = log.logs[k]
  BY <1>5 DEF Emplace
<1>7. \A k \in DOMAIN res.log.logs : res.log.logs[k] \in Appends
  BY <1>0, <1>6
<1>8. q.cur \in Int /\ put.queue.cur \in Int /\ skip.queue.cur \in Int
  BY <1>0, <1>3, <1>4, Constants DEF QueueOver
<1>9. q.cur <= skip.queue.cur /\ x <= skip.queue.cur
  BY <1>0, <1>3, <1>4, <1>8
<1>10. \A k \in res.done : k < skip.queue.cur
  BY <1>1, <1>3, <1>4, <1>8
<1>11. skip.queue.pend \subseteq DOMAIN res.log.logs
  BY <1>0, <1>3, <1>4, <1>6
<1>12. res.log.sealed \in BOOLEAN
  BY <1>0, <1>5, Zenon
<1>13. GoodLog(res.log, x)
  BY <1>0, <1>4, <1>5, <1>6, <1>7, <1>9, <1>11, <1>12 DEF GoodLog
<1>14. ASSUME NEW k \in LogIds, q.cur <= k, k < skip.queue.cur
       PROVE  k \in DOMAIN res.log.logs \/ \E i \in G : k < i
  <2>1. k \in Int
    BY DEF LogIds
  <2>2. k \in put.done \/ put.queue.cur <= k
    BY <1>3, <1>8, <1>14, <2>1
  <2>3. put.queue.pend \subseteq DOMAIN res.log.logs /\ put.done \subseteq DOMAIN res.log.logs
    BY <1>0, <1>3, <1>6
  <2> QED
    BY <1>4, <1>14, <2>1, <2>2, <2>3
<1> QED
  BY <1>5, <1>6, <1>9, <1>10, <1>13, <1>14 DEF q

LEMMA SealGood ==
  ASSUME NEW log, NEW x, GoodLog(log, x), NEW res, res = SealNanoLog(log)
  PROVE  /\ GoodLog(res.log, x) /\ res.log.sealed = TRUE /\ res.log.logs = log.logs
         /\ res.log.queue = log.queue /\ res.end = log.queue.cur
<1>0. DOMAIN log = {"sealed", "logs", "queue"}
  BY DEF GoodLog
<1>1. res.log = [log EXCEPT !.sealed = TRUE] /\ res.end = log.queue.cur
  BY DEF SealNanoLog
<1>2. /\ DOMAIN res.log = {"sealed", "logs", "queue"} /\ res.log.sealed = TRUE
      /\ res.log.logs = log.logs /\ res.log.queue = log.queue
  BY <1>0, <1>1
<1>3. res.log.sealed \in BOOLEAN
  BY <1>2
<1>4. GoodLog(res.log, x)
  BY <1>2, <1>3 DEF GoodLog
<1> QED
  BY <1>1, <1>2, <1>4

-----------------------------------------------------------------------------
(* What a step may not undo *)

(* Sealed nano logs stay sealed, and their replica acknowledges nothing more
   on time. *)
KeepsSealed ==
  \A r \in Replicas, v \in Versions : nano[r][v] # NoLog /\ nano[r][v].sealed =>
    /\ nano'[r][v] # NoLog /\ nano'[r][v].sealed
    /\ \A a \in Appends : r \in onTime'[a].acked /\ op'[a].ver[r] = v =>
         r \in onTime[a].acked /\ op[a].ver[r] = v /\ op'[a].logId = op[a].logId

LEMMA SealedStays ==
  ASSUME KeepsSealed, NEW Q \in SUBSET Replicas, NEW v \in Versions, NEW x,
         SealedBelow(Q, v, x)
  PROVE  SealedBelow(Q, v, x)'
<1> SUFFICES ASSUME NEW r \in Q
             PROVE  /\ nano'[r][v] # NoLog /\ nano'[r][v].sealed
                    /\ \A a \in Appends : r \in onTime'[a].acked /\ op'[a].ver[r] = v =>
                         op'[a].logId < x
  BY DEF SealedBelow
<1>1. /\ nano[r][v] # NoLog /\ nano[r][v].sealed /\ r \in Replicas
      /\ \A a \in Appends : r \in onTime[a].acked /\ op[a].ver[r] = v => op[a].logId < x
  BY DEF SealedBelow
<1>2. /\ nano'[r][v] # NoLog /\ nano'[r][v].sealed
      /\ \A a \in Appends : r \in onTime'[a].acked /\ op'[a].ver[r] = v =>
           r \in onTime[a].acked /\ op[a].ver[r] = v /\ op'[a].logId = op[a].logId
  BY <1>1 DEF KeepsSealed
<1> QED
  BY <1>1, <1>2

LEMMA VersionFacts ==
  ASSUME LogInv
  PROVE  /\ Cur \in Nat /\ Cur >= 1 /\ Cur <= MaxVersion /\ DOMAIN store.configs = 1 .. Cur
         /\ \A v \in 1 .. Cur : v \in Versions /\ store.configs[v].start \in Ends
                                /\ store.configs[v].seqr \in Sequencers
<1>1. StoreOf(store, Cur, 1, MaxLogId) /\ Cur \in Versions /\ DOMAIN store.byLogId \subseteq Ends
      /\ \A v \in 1 .. Cur : store.configs[v].seqr \in Sequencers
  BY DEF LogInv, StoreGood
<1> HIDE DEF Cur
<1>2. Cur \in Nat /\ Cur >= 1 /\ Cur <= MaxVersion
  BY <1>1, Constants DEF Versions
<1>3. /\ DOMAIN store.configs = 1 .. Cur
      /\ DOMAIN store.byLogId = {store.configs[v].start : v \in 1 .. Cur}
  BY <1>1 DEF StoreOf
<1>4. \A v \in 1 .. Cur : v \in Versions
  BY <1>2, Constants DEF Versions
<1> QED
  BY <1>1, <1>2, <1>3, <1>4

(* A step that installs no version: what has to be shown. *)
LEMMA SameStore ==
  ASSUME LogInv, UNCHANGED store, KeepsSealed, Types', LogsGood',
         \A a \in Appends : OpGood(a)', \A c \in Clients : CallGood(c)',
         \A m \in fill' : m.ver \in 1 .. Cur
  PROVE  LogInv'
<1>1. Cur' = Cur
  BY DEF Cur
<1>2. StoreGood'
  BY <1>1 DEF LogInv, StoreGood
<1>3. EndsSealed'
  <2> SUFFICES ASSUME NEW v \in Versions, v + 1 \in 1 .. Cur
               PROVE  \E Q \in Majorities : SealedBelow(Q, v, store.configs[v + 1].start)'
    BY <1>1 DEF EndsSealed, Majorities, QuorumSize
  <2> DEFINE x == store.configs[v + 1].start
  <2>1. PICK Q \in Majorities : SealedBelow(Q, v, x)
    BY DEF LogInv, EndsSealed
  <2>2. Q \in SUBSET Replicas
    BY DEF Majorities
  <2>3. x' = x
    OBVIOUS
  <2> HIDE DEF x
  <2>4. PICK y : y = x
    OBVIOUS
  <2>5. SealedBelow(Q, v, y)
    BY <2>1, <2>4
  <2>6. SealedBelow(Q, v, y)'
    BY <2>2, <2>5, SealedStays
  <2>7. SealedBelow(Q, v, x)'
    BY <2>3, <2>4, <2>6 DEF SealedBelow
  <2> QED
    BY <2>7 DEF x
<1> QED
  BY <1>1, <1>2, <1>3 DEF LogInv

(* A reconfigure call whose version, majority and end index stay. *)
LEMMA SameCall ==
  ASSUME LogInv, UNCHANGED store, KeepsSealed, NEW c \in Clients, rc[c].pc # "idle",
         rc'[c].ver = rc[c].ver, rc'[c].quorum = rc[c].quorum, rc'[c].todo = rc[c].todo,
         rc'[c].max = rc[c].max,
         rc'[c].pc \in AfterSeals => rc[c].todo = {},
         rc'[c].pc \in Installed => rc[c].ver + 1 \in 1 .. Cur
  PROVE  CallGood(c)'
<1>1. CallGood(c) /\ Cur' = Cur
  BY DEF LogInv, Cur
<1> DEFINE Q == rc[c].quorum \ rc[c].todo
           v == rc[c].ver
           x == rc[c].max
<1>2. /\ v \in 1 .. Cur /\ v < MaxVersion /\ rc[c].quorum \in Majorities
      /\ rc[c].todo \subseteq rc[c].quorum /\ SealedBelow(Q, v, x)
      /\ rc[c].quorum # rc[c].todo => x \in Ends /\ store.configs[v].start <= x
  BY <1>1 DEF CallGood
<1>3. Q \in SUBSET Replicas /\ v \in Versions
  BY <1>2, VersionFacts DEF Majorities
<1>4. PICK R, u, y : R = Q /\ u = v /\ y = x
  OBVIOUS
<1>5. Q' = Q /\ v' = v /\ x' = x
  OBVIOUS
<1> HIDE DEF Q, v, x
<1>6. SealedBelow(R, u, y)'
  BY <1>2, <1>3, <1>4, SealedStays
<1>7. SealedBelow(Q, v, x)'
  BY <1>4, <1>5, <1>6 DEF SealedBelow
<1>8. SealedBelow(rc[c].quorum \ rc[c].todo, rc[c].ver, rc[c].max)'
  BY <1>7 DEF Q, v, x
<1>9. /\ rc'[c].ver \in 1 .. Cur /\ rc'[c].ver < MaxVersion /\ rc'[c].quorum \in Majorities
      /\ rc'[c].todo \subseteq rc'[c].quorum
      /\ rc'[c].quorum # rc'[c].todo =>
           rc'[c].max \in Ends /\ store'.configs[rc'[c].ver].start <= rc'[c].max
      /\ rc'[c].pc \in AfterSeals => rc'[c].todo = {}
      /\ rc'[c].pc \in Installed => rc'[c].ver + 1 \in 1 .. Cur
  BY <1>2 DEF v, x
<1> QED
  BY <1>1, <1>8, <1>9 DEF CallGood, Majorities, QuorumSize

(* The steps of an append that leave the nano logs alone. *)
LEMMA AppendSide ==
  ASSUME LogInv, UNCHANGED <<store, nano, vlog, rc, fill, onTime>>,
         seqr' \in [Sequencers -> [num : Ends, gci : Ends, ver : Versions]],
         op' \in [Appends -> Ops], stage' \in [Appends -> [Replicas -> Stages]],
         \A a \in Appends, r \in Replicas : r \in onTime[a].acked =>
           op'[a].ver[r] = op[a].ver[r] /\ op'[a].logId = op[a].logId,
         \A a \in Appends : OpGood(a)'
  PROVE  LogInv'
<1>1. Types'
  BY DEF LogInv, Types
<1>2. KeepsSealed
  BY DEF KeepsSealed
<1>3. LogsGood'
  BY DEF LogInv, LogsGood, Cur
<1>4. \A c \in Clients : CallGood(c)'
  <2> TAKE c \in Clients
  <2>1. CASE rc[c].pc = "idle"
    BY <2>1 DEF CallGood
  <2>2. CASE rc[c].pc # "idle"
    <3>1. /\ rc[c].pc \in AfterSeals => rc[c].todo = {}
          /\ rc[c].pc \in Installed => rc[c].ver + 1 \in 1 .. Cur
      BY <2>2 DEF LogInv, CallGood
    <3> QED
      BY <1>2, <2>2, <3>1, SameCall
  <2> QED
    BY <2>1, <2>2
<1>5. \A m \in fill' : m.ver \in 1 .. Cur
  BY DEF LogInv
<1> QED
  BY <1>1, <1>2, <1>3, <1>4, <1>5, SameStore

(* The steps of a reconfigure call that leave the nano logs alone. *)
LEMMA ReconfigureSide ==
  ASSUME LogInv, UNCHANGED <<store, nano, op, stage, onTime>>, Types',
         \A c \in Clients : CallGood(c)', \A m \in fill' : m.ver \in 1 .. Cur
  PROVE  LogInv'
<1>1. KeepsSealed
  BY DEF KeepsSealed
<1>2. LogsGood'
  BY DEF LogInv, LogsGood, Cur
<1>3. \A a \in Appends : OpGood(a)'
  BY DEF LogInv, OpGood
<1> QED
  BY <1>1, <1>2, <1>3, SameStore

-----------------------------------------------------------------------------
(* The sequencer's side of an append *)

(* A step that touches one append. *)
LEMMA OneAppend ==
  ASSUME LogInv, UNCHANGED <<nano, onTime>>, NEW a \in Appends,
         \A b \in Appends : b # a => op'[b] = op[b] /\ stage'[b] = stage[b],
         OpGood(a)'
  PROVE  \A b \in Appends : OpGood(b)'
<1> SUFFICES ASSUME NEW b \in Appends, b # a PROVE OpGood(b)'
  OBVIOUS
<1>1. OpGood(b) /\ op'[b] = op[b] /\ stage'[b] = stage[b]
  BY DEF LogInv
<1> QED
  BY <1>1 DEF OpGood

LEMMA TakeLogIdKeeps ==
  ASSUME LogInv, NEW c \in Clients, NEW a \in Appends, TakeLogId(c, a)
  PROVE  LogInv'
<1> DEFINE s == vlog[c].seqr
<1>1. /\ op[a].pc = "new" /\ seqr[s].num <= MaxLogId
      /\ op' = [op EXCEPT ![a].pc = "numbered", ![a].seqr = s, ![a].logId = seqr[s].num]
      /\ seqr' = [seqr EXCEPT ![s].num = @ + 1]
      /\ UNCHANGED <<store, nano, stage, vlog, rc, fill, aborts, onTime>>
  BY DEF TakeLogId
<1>2. Types /\ OpGood(a) /\ MaxLogId \in Nat
  BY Constants DEF LogInv
<1>3. s \in Sequencers /\ seqr[s].num \in LogIds /\ seqr[s].num \in 0 .. MaxLogId
  BY <1>1, <1>2 DEF Types, Ends, LogIds
<1> HIDE DEF s
<1>4. seqr' \in [Sequencers -> [num : Ends, gci : Ends, ver : Versions]]
  <2>1. seqr[s].num + 1 \in Ends
    BY <1>2, <1>3 DEF Ends, LogIds
  <2>2. seqr \in [Sequencers -> [num : Ends, gci : Ends, ver : Versions]]
    BY <1>2 DEF Types
  <2> QED
    BY <1>1, <1>3, <2>1, <2>2
<1>5. op' \in [Appends -> Ops]
  <2>1. op \in [Appends -> Ops]
    BY <1>2 DEF Types
  <2>2. seqr[s].num \in 0 .. MaxLogId /\ "numbered" \in OpPcs
    BY <1>3 DEF OpPcs
  <2> QED
    BY <1>1, <1>3, <2>1, <2>2 DEF Ops
<1>6. /\ op'[a].pc = "numbered" /\ op'[a].logId \in LogIds /\ op'[a].ver = op[a].ver
      /\ \A b \in Appends : b # a => op'[b] = op[b] /\ stage'[b] = stage[b]
  BY <1>1, <1>2, <1>3 DEF Types, Ops
<1>7. \A r \in Replicas : stage[a][r] = "none" /\ r \notin onTime[a].acked
  BY <1>1, <1>2 DEF OpGood
<1>8. OpGood(a)'
  BY <1>1, <1>6, <1>7 DEF OpGood
<1>9. \A b \in Appends : OpGood(b)'
  BY <1>1, <1>6, <1>8, OneAppend
<1>10. stage' \in [Appends -> [Replicas -> Stages]]
  BY <1>1, <1>2 DEF Types
<1>11. \A b \in Appends, r \in Replicas : r \in onTime[b].acked =>
         op'[b].ver[r] = op[b].ver[r] /\ op'[b].logId = op[b].logId
  BY <1>6, <1>7
<1> QED
  BY <1>1, <1>4, <1>5, <1>9, <1>10, <1>11, AppendSide

LEMMA SendAppendKeeps ==
  ASSUME LogInv, NEW a \in Appends, NEW r \in Replicas, SendAppend(a, r)
  PROVE  LogInv'
<1> DEFINE s == op[a].seqr
           pc == IF \A x \in Replicas \ {r} : stage[a][x] = "sent" THEN "sent" ELSE "numbered"
<1>1. /\ op[a].pc = "numbered" /\ stage[a][r] = "none"
      /\ op' = [op EXCEPT ![a].gci[r] = seqr[s].gci, ![a].ver[r] = seqr[s].ver, ![a].pc = pc]
      /\ stage' = [stage EXCEPT ![a][r] = "sent"]
      /\ UNCHANGED <<store, seqr, nano, vlog, rc, fill, aborts, onTime>>
  BY DEF SendAppend
<1>2. Types /\ OpGood(a) /\ MaxLogId \in Nat /\ MaxVersion \in Nat
  BY Constants DEF LogInv
<1>3. /\ op \in [Appends -> Ops] /\ stage \in [Appends -> [Replicas -> Stages]]
      /\ op[a].ver \in [Replicas -> 0 .. MaxVersion]
      /\ op[a].gci \in [Replicas -> 0 .. (MaxLogId + 1)]
      /\ pc \in OpPcs /\ pc # "new"
      /\ seqr[s].gci \in 0 .. (MaxLogId + 1) /\ seqr[s].ver \in 0 .. MaxVersion
  <2>1. op \in [Appends -> Ops] /\ stage \in [Appends -> [Replicas -> Stages]]
    BY <1>2 DEF Types
  <2>2. s \in Sequencers /\ op[a].ver \in [Replicas -> 0 .. MaxVersion]
        /\ op[a].gci \in [Replicas -> 0 .. (MaxLogId + 1)]
    BY <2>1 DEF Ops
  <2>3. seqr[s].gci \in Ends /\ seqr[s].ver \in Versions
    BY <1>2, <2>2 DEF Types
  <2> QED
    BY <1>2, <2>1, <2>2, <2>3 DEF OpPcs, Ends, Versions
<1> HIDE DEF s, pc
<1>4. /\ op'[a].pc = pc /\ op'[a].logId = op[a].logId /\ op'[a].seqr = op[a].seqr
      /\ op'[a].ver = [op[a].ver EXCEPT ![r] = seqr[s].ver]
      /\ op'[a].gci = [op[a].gci EXCEPT ![r] = seqr[s].gci]
      /\ DOMAIN op'[a] = DOMAIN op[a]
      /\ \A b \in Appends : b # a => op'[b] = op[b]
  BY <1>1, <1>3 DEF Ops
<1>5. op' \in [Appends -> Ops]
  <2>1. op'[a].ver \in [Replicas -> 0 .. MaxVersion] /\ op'[a].gci \in [Replicas -> 0 .. (MaxLogId + 1)]
    BY <1>3, <1>4
  <2>2. op[a] \in Ops
    BY <1>3
  <2>3. op'[a] = [pc |-> pc, seqr |-> op[a].seqr, logId |-> op[a].logId,
                  ver |-> op'[a].ver, gci |-> op'[a].gci]
    BY <1>1, <1>3, <1>4, <2>2 DEF Ops
  <2>4. op'[a] \in Ops
    BY <1>3, <2>1, <2>2, <2>3 DEF Ops
  <2> QED
    BY <1>1, <1>3, <1>4, <2>4
<1>6. /\ stage' \in [Appends -> [Replicas -> Stages]]
      /\ stage'[a] = [stage[a] EXCEPT ![r] = "sent"]
      /\ \A b \in Appends : b # a => stage'[b] = stage[b]
  BY <1>1, <1>3 DEF Stages
<1>7. /\ stage'[a][r] = "sent"
      /\ \A x \in Replicas : x # r => stage'[a][x] = stage[a][x] /\ op'[a].ver[x] = op[a].ver[x]
  BY <1>3, <1>4, <1>6
<1>8. r \notin onTime[a].acked
  BY <1>1, <1>2 DEF OpGood
<1>9. OpGood(a)'
  <2>1. op'[a].pc # "new" /\ op'[a].logId \in LogIds
    BY <1>1, <1>2, <1>3, <1>4 DEF OpGood
  <2>2. ASSUME NEW x \in Replicas
        PROVE  /\ stage'[a][x] \in {"checked", "stored", "acked"} =>
                    op'[a].ver[x] \in Versions /\ nano'[x][op'[a].ver[x]] # NoLog
               /\ x \in onTime'[a].acked =>
                    stage'[a][x] = "acked" /\ op'[a].logId < nano'[x][op'[a].ver[x]].queue.cur
    <3>1. CASE x = r
      BY <1>1, <1>7, <1>8, <3>1
    <3>2. CASE x # r
      BY <1>1, <1>2, <1>4, <1>7, <3>2 DEF OpGood
    <3> QED
      BY <3>1, <3>2
  <2> QED
    BY <2>1, <2>2 DEF OpGood
<1>10. \A b \in Appends : OpGood(b)'
  BY <1>1, <1>4, <1>6, <1>9, OneAppend
<1>11. \A b \in Appends, x \in Replicas : x \in onTime[b].acked =>
         op'[b].ver[x] = op[b].ver[x] /\ op'[b].logId = op[b].logId
  BY <1>4, <1>7, <1>8
<1>12. seqr' \in [Sequencers -> [num : Ends, gci : Ends, ver : Versions]]
  BY <1>1, <1>2 DEF Types
<1> QED
  BY <1>1, <1>5, <1>6, <1>10, <1>11, <1>12, AppendSide

LEMMA RefuseOccupiedKeeps ==
  ASSUME LogInv, NEW a \in Appends, NEW r \in Replicas, RefuseOccupied(a, r)
  PROVE  LogInv'
<1>1. /\ stage[a][r] = "checked" /\ stage' = [stage EXCEPT ![a][r] = "refused"]
      /\ UNCHANGED <<store, seqr, nano, op, vlog, rc, fill, aborts, onTime>>
  BY DEF RefuseOccupied
<1>2. Types /\ OpGood(a)
  BY DEF LogInv
<1>3. stage \in [Appends -> [Replicas -> Stages]]
  BY <1>2 DEF Types
<1>4. /\ stage' \in [Appends -> [Replicas -> Stages]] /\ stage'[a][r] = "refused"
      /\ \A x \in Replicas : x # r => stage'[a][x] = stage[a][x]
      /\ \A b \in Appends : b # a => stage'[b] = stage[b]
  BY <1>1, <1>3 DEF Stages
<1>5. r \notin onTime[a].acked /\ op[a].pc # "new"
  BY <1>1, <1>2 DEF OpGood
<1>6. OpGood(a)'
  BY <1>1, <1>2, <1>4, <1>5 DEF OpGood
<1>7. \A b \in Appends : OpGood(b)'
  BY <1>1, <1>4, <1>6, OneAppend
<1>8. op' \in [Appends -> Ops] /\ seqr' \in [Sequencers -> [num : Ends, gci : Ends, ver : Versions]]
  BY <1>1, <1>2 DEF Types
<1> QED
  BY <1>1, <1>4, <1>7, <1>8, AppendSide

LEMMA EndAppendKeeps ==
  ASSUME LogInv, NEW a \in Appends, CommitAppend(a) \/ FailAppend(a)
  PROVE  LogInv'
<1>0. Types /\ OpGood(a) /\ MaxLogId \in Nat
  BY Constants DEF LogInv
<1>1. op[a].pc = "sent" /\ LeaveRequests(a) /\ UNCHANGED <<store, nano, vlog, rc, fill, onTime>>
  BY DEF CommitAppend, FailAppend
<1>2. PICK late \in SUBSET Unhandled(a) :
        stage' = [stage EXCEPT ![a] = [r \in Replicas |->
                    IF r \in Unhandled(a) \ late THEN "refused" ELSE stage[a][r]]]
  BY <1>1 DEF LeaveRequests
<1>3. op \in [Appends -> Ops] /\ stage \in [Appends -> [Replicas -> Stages]]
      /\ seqr \in [Sequencers -> [num : Ends, gci : Ends, ver : Versions]]
  BY <1>0 DEF Types
<1>4. op[a].seqr \in Sequencers /\ op[a].logId \in Ends
  BY <1>0, <1>1, <1>3 DEF Ops, OpGood, LogIds, Ends
<1>5. PICK pc \in {"acked", "failed"} : op' = [op EXCEPT ![a].pc = pc]
  BY DEF CommitAppend, FailAppend
<1>6. /\ op' \in [Appends -> Ops] /\ op'[a].pc = pc /\ op'[a].logId = op[a].logId
      /\ op'[a].ver = op[a].ver /\ \A b \in Appends : b # a => op'[b] = op[b]
  BY <1>3, <1>5 DEF Ops, OpPcs
<1>7. seqr' \in [Sequencers -> [num : Ends, gci : Ends, ver : Versions]]
  <2>1. CASE CommitAppend(a)
    <3>1. seqr' = [seqr EXCEPT ![op[a].seqr].gci =
                     IF seqr[op[a].seqr].gci < op[a].logId THEN op[a].logId
                     ELSE seqr[op[a].seqr].gci]
      BY <2>1 DEF CommitAppend
    <3> QED
      BY <1>3, <1>4, <3>1
  <2>2. CASE FailAppend(a)
    BY <1>3, <2>2 DEF FailAppend
  <2> QED
    BY <2>1, <2>2
<1>8. /\ stage' \in [Appends -> [Replicas -> Stages]]
      /\ \A b \in Appends : b # a => stage'[b] = stage[b]
      /\ \A r \in Replicas : stage'[a][r] = IF r \in Unhandled(a) \ late THEN "refused"
                                            ELSE stage[a][r]
  BY <1>2, <1>3 DEF Stages
<1>9. \A r \in Replicas : \/ stage'[a][r] = stage[a][r]
                          \/ stage'[a][r] = "refused" /\ stage[a][r] \in {"sent", "checked"}
  BY <1>8 DEF Unhandled
<1>10. OpGood(a)'
  BY <1>0, <1>1, <1>6, <1>9 DEF OpGood
<1>11. \A b \in Appends : OpGood(b)'
  BY <1>1, <1>6, <1>8, <1>10, OneAppend
<1>12. \A b \in Appends, r \in Replicas : r \in onTime[b].acked =>
         op'[b].ver[r] = op[b].ver[r] /\ op'[b].logId = op[b].logId
  BY <1>6
<1> QED
  BY <1>1, <1>6, <1>7, <1>8, <1>11, <1>12, AppendSide

-----------------------------------------------------------------------------
(* The steps of a reconfigure call *)

LEMMA QuorumSizeIs == QuorumSize \in Nat /\ QuorumSize >= 1 /\ 2 * QuorumSize > Cardinality(Replicas)
<1>1. Cardinality(Replicas) \in Nat
  BY Constants, FS_CardinalityType
<1> DEFINE n == Cardinality(Replicas)
<1> HIDE DEF n
<1>2. n \in Nat
  BY <1>1 DEF n
<1>3. n \div 2 \in Nat /\ 2 * (n \div 2) >= n - 1
  BY <1>2
<1> QED
  BY <1>2, <1>3 DEF QuorumSize, n

LEMMA QuorumsMeet ==
  ASSUME NEW P \in SUBSET Replicas, NEW Q \in SUBSET Replicas,
         Cardinality(P) >= QuorumSize, Cardinality(Q) >= QuorumSize
  PROVE  \E r \in P : r \in Q
<1>1. IsFiniteSet(Replicas) /\ IsFiniteSet(P) /\ IsFiniteSet(Q)
  BY Constants, FS_Subset
<1>2. Cardinality(P) \in Nat /\ Cardinality(Q) \in Nat /\ Cardinality(Replicas) \in Nat
  BY <1>1, FS_CardinalityType
<1>3. Cardinality(P) + Cardinality(Q) > Cardinality(Replicas)
  <2>1. PICK p, q, k, n : /\ p = Cardinality(P) /\ q = Cardinality(Q)
                          /\ k = QuorumSize /\ n = Cardinality(Replicas)
    OBVIOUS
  <2>2. p \in Nat /\ q \in Nat /\ n \in Nat /\ k \in Nat /\ 2 * k > n /\ p >= k /\ q >= k
    BY <1>2, <2>1, QuorumSizeIs
  <2>3. p + q > n
    BY <2>2
  <2> QED
    BY <2>1, <2>3
<1>4. P \cap Q # {}
  BY <1>1, <1>3, FS_MajoritiesIntersect
<1> QED
  BY <1>4

LEMMA MajorityNotEmpty ==
  ASSUME NEW Q \in Majorities
  PROVE  Q \in SUBSET Replicas /\ Q # {}
<1>1. Q \in SUBSET Replicas /\ Cardinality(Q) = QuorumSize
  BY DEF Majorities
<1>2. Cardinality({}) = 0
  BY FS_EmptySet
<1>3. QuorumSize # 0
  BY QuorumSizeIs
<1> QED
  BY <1>1, <1>2, <1>3

LEMMA CallFacts ==
  ASSUME LogInv, NEW c \in Clients
  PROVE  /\ rc[c] \in RcCalls /\ rc \in [Clients -> RcCalls]
         /\ rc[c].pc # "idle" =>
              /\ rc[c].ver \in 1 .. Cur /\ rc[c].ver \in Versions /\ rc[c].ver + 1 \in Versions
              /\ rc[c].quorum \in SUBSET Replicas
              /\ rc[c].pc \in AfterSeals =>
                   /\ rc[c].todo = {} /\ rc[c].max \in Ends
                   /\ store.configs[rc[c].ver].start <= rc[c].max
              /\ rc[c].pc \in Installed => rc[c].ver + 1 \in 1 .. Cur
<1>1. rc[c] \in RcCalls /\ rc \in [Clients -> RcCalls] /\ CallGood(c)
  BY DEF LogInv, Types
<1>2. ASSUME rc[c].pc # "idle"
      PROVE  /\ rc[c].ver \in 1 .. Cur /\ rc[c].ver \in Versions /\ rc[c].ver + 1 \in Versions
             /\ rc[c].quorum \in SUBSET Replicas
             /\ rc[c].pc \in AfterSeals =>
                  /\ rc[c].todo = {} /\ rc[c].max \in Ends
                  /\ store.configs[rc[c].ver].start <= rc[c].max
             /\ rc[c].pc \in Installed => rc[c].ver + 1 \in 1 .. Cur
  <2>1. /\ rc[c].ver \in 1 .. Cur /\ rc[c].ver < MaxVersion /\ rc[c].quorum \in Majorities
        /\ rc[c].quorum # rc[c].todo =>
             rc[c].max \in Ends /\ store.configs[rc[c].ver].start <= rc[c].max
        /\ rc[c].pc \in AfterSeals => rc[c].todo = {}
        /\ rc[c].pc \in Installed => rc[c].ver + 1 \in 1 .. Cur
    BY <1>1, <1>2 DEF CallGood
  <2>2. rc[c].ver \in Versions /\ rc[c].ver + 1 \in Versions
    BY <2>1, VersionFacts, Constants DEF Versions
  <2>3. rc[c].quorum \in SUBSET Replicas /\ rc[c].quorum # {}
    BY <2>1, MajorityNotEmpty
  <2> QED
    BY <2>1, <2>2, <2>3
<1> QED
  BY <1>1, <1>2

LEMMA IdleCallIs ==
  /\ IdleCall \in RcCalls /\ IdleCall.pc = "idle"
<1>1. EndOfLog \in Int /\ 0 \in 0 .. (MaxLogId + 1) /\ 0 \in 0 .. MaxVersion
      /\ FirstSequencer \in Sequencers
  BY Constants
<1> QED
  BY <1>1 DEF IdleCall, RcCalls

(* A step that touches one reconfigure call. *)
LEMMA OneCall ==
  ASSUME LogInv, UNCHANGED <<store, nano, op, onTime>>, NEW c \in Clients,
         \A d \in Clients : d # c => rc'[d] = rc[d], CallGood(c)'
  PROVE  \A d \in Clients : CallGood(d)'
<1> SUFFICES ASSUME NEW d \in Clients, d # c PROVE CallGood(d)'
  OBVIOUS
<1>1. KeepsSealed
  BY DEF KeepsSealed
<1>2. rc'[d] = rc[d]
  OBVIOUS
<1>3. CASE rc[d].pc = "idle"
  BY <1>2, <1>3 DEF CallGood
<1>4. CASE rc[d].pc # "idle"
  <2>1. /\ rc[d].pc \in AfterSeals => rc[d].todo = {}
        /\ rc[d].pc \in Installed => rc[d].ver + 1 \in 1 .. Cur
    BY <1>4, CallFacts
  <2> QED
    BY <1>1, <1>2, <1>4, <2>1, SameCall
<1> QED
  BY <1>3, <1>4

(* A call that goes on after its seals, or ends. *)
LEMMA NextPhase ==
  ASSUME LogInv, UNCHANGED <<store, nano, op, stage, onTime>>, NEW c \in Clients,
         NEW e \in RcCalls, rc' = [rc EXCEPT ![c] = e],
         \/ e.pc = "idle"
         \/ /\ rc[c].pc \in AfterSeals /\ e.pc \in AfterSeals
            /\ e.ver = rc[c].ver /\ e.quorum = rc[c].quorum /\ e.todo = rc[c].todo
            /\ e.max = rc[c].max
            /\ e.pc \in Installed => rc[c].ver + 1 \in 1 .. Cur,
         seqr' \in [Sequencers -> [num : Ends, gci : Ends, ver : Versions]],
         vlog' \in [Clients -> [ver : 0 .. MaxVersion, seqr : Sequencers]],
         fill' \subseteq Fills, \A m \in fill' : m.ver \in 1 .. Cur
  PROVE  LogInv'
<1>1. rc \in [Clients -> RcCalls] /\ rc[c] \in RcCalls
  BY CallFacts
<1>2. rc' \in [Clients -> RcCalls] /\ rc'[c] = e /\ \A d \in Clients : d # c => rc'[d] = rc[d]
  BY <1>1
<1>3. Types'
  BY <1>2 DEF LogInv, Types
<1>4. CallGood(c)'
  <2>1. CASE e.pc = "idle"
    BY <1>2, <2>1 DEF CallGood
  <2>2. CASE e.pc # "idle"
    <3>1. KeepsSealed
      BY DEF KeepsSealed
    <3>2. rc[c].pc \in AfterSeals /\ rc[c].pc # "idle"
      BY <2>2 DEF AfterSeals, Installed
    <3>3. rc[c].todo = {}
      BY <3>2, CallFacts
    <3> QED
      BY <1>2, <2>2, <3>1, <3>2, <3>3, SameCall
  <2> QED
    BY <2>1, <2>2
<1>5. \A d \in Clients : CallGood(d)'
  BY <1>2, <1>4, OneCall
<1> QED
  BY <1>3, <1>5, ReconfigureSide

LEMMA BeginReconfigureKeeps ==
  ASSUME LogInv, NEW c \in Clients, NEW s \in Sequencers, NEW Q \in SUBSET Replicas,
         BeginReconfigure(c, s, Q)
  PROVE  LogInv'
<1> DEFINE e == [IdleCall EXCEPT !.pc = "seal", !.target = s, !.ver = Cur,
                                 !.quorum = Q, !.todo = Q]
<1>1. /\ Cur < MaxVersion /\ Cardinality(Q) = QuorumSize /\ rc' = [rc EXCEPT ![c] = e]
      /\ UNCHANGED <<store, seqr, nano, op, stage, vlog, fill, aborts, onTime>>
  BY DEF BeginReconfigure, Cur
<1>2. Cur \in Nat /\ Cur >= 1 /\ Cur <= MaxVersion /\ MaxVersion \in Nat
  BY VersionFacts, Constants
<1>3. Cur' = Cur
  BY <1>1 DEF Cur
<1> DEFINE v == Cur
<1>4. PICK u : u = v
  OBVIOUS
<1> HIDE DEF v
<1>5. e = [IdleCall EXCEPT !.pc = "seal", !.target = s, !.ver = u, !.quorum = Q, !.todo = Q]
  BY <1>4 DEF v
<1> HIDE DEF e
<1>6. u \in 0 .. MaxVersion
  BY <1>2, <1>4 DEF v
<1>7. /\ e \in RcCalls /\ e.pc = "seal" /\ e.ver = u /\ e.quorum = Q /\ e.todo = Q /\ e.max = 0
  <2>1. EndOfLog \in Int /\ 0 \in 0 .. (MaxLogId + 1)
    BY Constants
  <2>2. e = [pc |-> "seal", ver |-> u, target |-> s, quorum |-> Q, todo |-> Q,
             min |-> EndOfLog, max |-> 0, at |-> 0, oks |-> {}]
    BY <1>5 DEF IdleCall
  <2> QED
    BY <1>6, <2>1, <2>2 DEF RcCalls
<1>8. /\ rc' \in [Clients -> RcCalls] /\ rc'[c] = e
      /\ \A d \in Clients : d # c => rc'[d] = rc[d]
  BY <1>1, <1>7, CallFacts
<1>9. Types'
  BY <1>1, <1>8 DEF LogInv, Types
<1>10. CallGood(c)'
  <2>1. Q \in Majorities /\ "seal" \notin AfterSeals /\ "seal" \notin Installed
    BY <1>1 DEF Majorities, AfterSeals, Installed
  <2>2. u \in 1 .. Cur' /\ u < MaxVersion
    BY <1>1, <1>2, <1>3, <1>4 DEF v
  <2>3. SealedBelow(rc[c].quorum \ rc[c].todo, rc[c].ver, rc[c].max)'
    BY <1>7, <1>8 DEF SealedBelow
  <2> QED
    BY <1>7, <1>8, <2>1, <2>2, <2>3 DEF CallGood, Majorities, QuorumSize
<1>11. \A d \in Clients : CallGood(d)'
  BY <1>1, <1>8, <1>10, OneCall
<1>12. \A m \in fill' : m.ver \in 1 .. Cur
  BY <1>1 DEF LogInv
<1> QED
  BY <1>1, <1>9, <1>11, <1>12, ReconfigureSide

LEMMA FetchEntryKeeps ==
  ASSUME LogInv, NEW c \in Clients, NEW r \in Replicas, FetchEntry(c, r)
  PROVE  LogInv'
<1> DEFINE v == rc[c].ver
           n == rc[c].at
           e == [rc[c] EXCEPT !.pc = "await", !.oks = {}]
<1>1. /\ rc[c].pc = "fetch" /\ rc' = [rc EXCEPT ![c] = e]
      /\ UNCHANGED <<store, seqr, nano, op, stage, vlog, aborts, onTime>>
  BY DEF FetchEntry
<1>2. PICK val \in GetLogEntry(r, v, n) :
        fill' = fill \union {[client |-> c, replica |-> x, ver |-> v, logId |-> n,
                              val |-> val, st |-> "sent"] : x \in Replicas}
  BY DEF FetchEntry
<1>3. rc[c] \in RcCalls /\ v \in 1 .. Cur /\ v \in Versions
  BY <1>1, CallFacts DEF AfterSeals
<1>4. e \in RcCalls /\ e.pc = "await" /\ e.ver = v /\ e.quorum = rc[c].quorum
      /\ e.todo = rc[c].todo /\ e.max = rc[c].max
  BY <1>3 DEF RcCalls, AfterSeals
<1> HIDE DEF v, n, e
<1>5. nano[r][v] # NoLog /\ n \in DOMAIN nano[r][v].logs /\ val = nano[r][v].logs[n]
  BY <1>2 DEF GetLogEntry, Occupied
<1>6. n \in LogIds /\ val \in Appends
  <2>1. GoodLog(nano[r][v], store.configs[v].start)
    BY <1>3, <1>5 DEF LogInv, LogsGood
  <2> QED
    BY <1>5, <2>1 DEF GoodLog
<1>7. fill' \subseteq Fills
  <2>1. fill \subseteq Fills
    BY DEF LogInv, Types
  <2> QED
    BY <1>2, <1>3, <1>6, <2>1 DEF Fills
<1>8. \A m \in fill' : m.ver \in 1 .. Cur
  BY <1>2, <1>3 DEF LogInv
<1>9. rc[c].pc \in AfterSeals /\ e.pc \in AfterSeals /\ e.pc \notin Installed
  BY <1>1, <1>4 DEF AfterSeals, Installed
<1>10. seqr' \in [Sequencers -> [num : Ends, gci : Ends, ver : Versions]]
       /\ vlog' \in [Clients -> [ver : 0 .. MaxVersion, seqr : Sequencers]]
  BY <1>1 DEF LogInv, Types
<1> QED
  BY <1>1, <1>4, <1>7, <1>8, <1>9, <1>10, NextPhase DEF v

(* Answers of re-replication requests change nothing but oks. *)
LEMMA CountAnswersIs ==
  ASSUME LogInv, NEW answers \in SUBSET Fills
  PROVE  /\ CountAnswers(answers) \in [Clients -> RcCalls]
         /\ \A c \in Clients : LET e == CountAnswers(answers)[c]
                               IN  /\ e.pc = rc[c].pc /\ e.ver = rc[c].ver
                                   /\ e.quorum = rc[c].quorum /\ e.todo = rc[c].todo
                                   /\ e.max = rc[c].max /\ e.min = rc[c].min /\ e.at = rc[c].at
<1> DEFINE new(c) == {m.replica : m \in {x \in answers : /\ x.client = c
                                                         /\ x.ver = rc[c].ver
                                                         /\ x.logId = rc[c].at}}
<1>1. ASSUME NEW c \in Clients
      PROVE  /\ CountAnswers(answers)[c] \in RcCalls
             /\ CountAnswers(answers)[c].pc = rc[c].pc
             /\ CountAnswers(answers)[c].ver = rc[c].ver
             /\ CountAnswers(answers)[c].quorum = rc[c].quorum
             /\ CountAnswers(answers)[c].todo = rc[c].todo
             /\ CountAnswers(answers)[c].max = rc[c].max
             /\ CountAnswers(answers)[c].min = rc[c].min
             /\ CountAnswers(answers)[c].at = rc[c].at
  <2>1. rc[c] \in RcCalls
    BY CallFacts
  <2>2. new(c) \subseteq Replicas
    BY DEF Fills
  <2> DEFINE e == CountAnswers(answers)[c]
  <2>3. e = IF rc[c].pc = "await" THEN [rc[c] EXCEPT !.oks = @ \union new(c)] ELSE rc[c]
    BY DEF CountAnswers
  <2> HIDE DEF e, new
  <2>4. /\ e \in RcCalls /\ e.pc = rc[c].pc /\ e.ver = rc[c].ver
        /\ e.quorum = rc[c].quorum /\ e.todo = rc[c].todo /\ e.max = rc[c].max
        /\ e.min = rc[c].min /\ e.at = rc[c].at
    <3>1. CASE rc[c].pc = "await"
      <4>1. e = [rc[c] EXCEPT !.oks = rc[c].oks \union new(c)]
        BY <2>3, <3>1
      <4>2. rc[c].oks \union new(c) \in SUBSET Replicas
        BY <2>1, <2>2 DEF RcCalls
      <4> QED
        BY <2>1, <4>1, <4>2 DEF RcCalls
    <3>2. CASE rc[c].pc # "await"
      BY <2>1, <2>3, <3>2
    <3> QED
      BY <3>1, <3>2
  <2> QED
    BY <2>4 DEF e
<1>2. CountAnswers(answers) = [c \in Clients |-> CountAnswers(answers)[c]]
  BY DEF CountAnswers
<1> QED
  BY <1>1, <1>2

LEMMA AnswersKeepCalls ==
  ASSUME LogInv, UNCHANGED store, KeepsSealed, NEW answers \in SUBSET Fills,
         rc' = CountAnswers(answers)
  PROVE  rc' \in [Clients -> RcCalls] /\ \A c \in Clients : CallGood(c)'
<1>1. rc' \in [Clients -> RcCalls]
  BY CountAnswersIs
<1>2. ASSUME NEW c \in Clients
      PROVE  CallGood(c)'
  <2>1. /\ rc'[c].pc = rc[c].pc /\ rc'[c].ver = rc[c].ver /\ rc'[c].quorum = rc[c].quorum
        /\ rc'[c].todo = rc[c].todo /\ rc'[c].max = rc[c].max
    BY CountAnswersIs
  <2>2. CASE rc[c].pc = "idle"
    BY <2>1, <2>2 DEF CallGood
  <2>3. CASE rc[c].pc # "idle"
    <3>1. /\ rc[c].pc \in AfterSeals => rc[c].todo = {}
          /\ rc[c].pc \in Installed => rc[c].ver + 1 \in 1 .. Cur
      BY <2>3, CallFacts
    <3> QED
      BY <2>1, <2>3, <3>1, SameCall
  <2> QED
    BY <2>2, <2>3
<1> QED
  BY <1>1, <1>2

LEMMA FillOccupiedKeeps ==
  ASSUME LogInv, NEW m \in fill, FillOccupied(m)
  PROVE  LogInv'
<1>1. /\ fill' = fill \ {m} /\ rc' = CountAnswers({m})
      /\ UNCHANGED <<store, seqr, nano, op, stage, vlog, aborts, onTime>>
  BY DEF FillOccupied
<1>2. {m} \in SUBSET Fills /\ KeepsSealed
  BY <1>1 DEF LogInv, Types, KeepsSealed
<1>3. rc' \in [Clients -> RcCalls] /\ \A c \in Clients : CallGood(c)'
  BY <1>1, <1>2, AnswersKeepCalls
<1>4. Types'
  BY <1>1, <1>3 DEF LogInv, Types
<1>5. \A x \in fill' : x.ver \in 1 .. Cur
  BY <1>1 DEF LogInv
<1> QED
  BY <1>1, <1>3, <1>4, <1>5, ReconfigureSide

(* What most of these steps leave alone. *)
LEMMA SameRest ==
  ASSUME LogInv
  PROVE  /\ seqr \in [Sequencers -> [num : Ends, gci : Ends, ver : Versions]]
         /\ vlog \in [Clients -> [ver : 0 .. MaxVersion, seqr : Sequencers]]
         /\ fill \subseteq Fills /\ \A m \in fill : m.ver \in 1 .. Cur
BY DEF LogInv, Types

LEMMA NextEntryKeeps ==
  ASSUME LogInv, NEW c \in Clients, NextEntry(c)
  PROVE  LogInv'
<1> DEFINE pc == PhaseAt(rc[c].at + 1, rc[c].max)
           e == [rc[c] EXCEPT !.at = @ + 1, !.pc = pc]
<1>1. /\ rc[c].pc = "await" /\ rc' = [rc EXCEPT ![c] = e] /\ LeaveFills(c)
      /\ UNCHANGED <<store, seqr, nano, op, stage, vlog, aborts, onTime>>
  BY DEF NextEntry
<1>2. fill' \subseteq fill
  BY <1>1 DEF LeaveFills
<1>3. pc \in {"fetch", "install"}
  BY DEF PhaseAt
<1> HIDE DEF pc
<1>4. rc[c] \in RcCalls
  BY CallFacts
<1>5. /\ e \in RcCalls /\ e.pc = pc /\ e.ver = rc[c].ver /\ e.quorum = rc[c].quorum
      /\ e.todo = rc[c].todo /\ e.max = rc[c].max
  <2>1. rc[c].at + 1 \in Int /\ pc \in AfterSeals
    BY <1>3, <1>4 DEF RcCalls, AfterSeals
  <2> DEFINE i == rc[c].at + 1
  <2>2. e = [rc[c] EXCEPT !.at = i, !.pc = pc] /\ i \in Int
    BY <2>1
  <2> HIDE DEF e, i
  <2> QED
    BY <1>4, <2>1, <2>2 DEF RcCalls
<1> HIDE DEF e
<1>6. rc[c].pc \in AfterSeals /\ e.pc \in AfterSeals /\ e.pc \notin Installed
  BY <1>1, <1>3, <1>5 DEF AfterSeals, Installed
<1>7. /\ seqr' \in [Sequencers -> [num : Ends, gci : Ends, ver : Versions]]
      /\ vlog' \in [Clients -> [ver : 0 .. MaxVersion, seqr : Sequencers]]
      /\ fill' \subseteq Fills /\ \A m \in fill' : m.ver \in 1 .. Cur
  BY <1>1, <1>2, SameRest
<1> QED
  BY <1>1, <1>5, <1>6, <1>7, NextPhase

LEMMA AbortKeeps ==
  ASSUME LogInv, NEW c \in Clients, AbortReconfigure(c)
  PROVE  LogInv'
<1>1. /\ rc' = [rc EXCEPT ![c] = IdleCall] /\ LeaveFills(c)
      /\ UNCHANGED <<store, seqr, nano, op, stage, vlog, onTime>>
  BY DEF AbortReconfigure
<1>2. fill' \subseteq fill
  BY <1>1 DEF LeaveFills
<1>3. /\ seqr' \in [Sequencers -> [num : Ends, gci : Ends, ver : Versions]]
      /\ vlog' \in [Clients -> [ver : 0 .. MaxVersion, seqr : Sequencers]]
      /\ fill' \subseteq Fills /\ \A m \in fill' : m.ver \in 1 .. Cur
  BY <1>1, <1>2, SameRest
<1> QED
  BY <1>1, <1>3, IdleCallIs, NextPhase

LEMMA LoseRaceKeeps ==
  ASSUME LogInv, NEW c \in Clients, LoseRace(c)
  PROVE  LogInv'
<1> DEFINE e == [rc[c] EXCEPT !.pc = "adopt"]
<1>1. /\ rc[c].pc = "install" /\ rc' = [rc EXCEPT ![c] = e]
      /\ UNCHANGED <<store, seqr, nano, op, stage, vlog, fill, aborts, onTime>>
  BY DEF LoseRace
<1>2. rc[c] \in RcCalls
  BY CallFacts
<1>3. /\ e \in RcCalls /\ e.pc = "adopt" /\ e.ver = rc[c].ver /\ e.quorum = rc[c].quorum
      /\ e.todo = rc[c].todo /\ e.max = rc[c].max
  BY <1>2 DEF RcCalls, AfterSeals
<1> HIDE DEF e
<1>4. rc[c].pc \in AfterSeals /\ e.pc \in AfterSeals /\ e.pc \notin Installed
  BY <1>1, <1>3 DEF AfterSeals, Installed
<1>5. /\ seqr' \in [Sequencers -> [num : Ends, gci : Ends, ver : Versions]]
      /\ vlog' \in [Clients -> [ver : 0 .. MaxVersion, seqr : Sequencers]]
      /\ fill' \subseteq Fills /\ \A m \in fill' : m.ver \in 1 .. Cur
  BY <1>1, SameRest
<1> QED
  BY <1>1, <1>3, <1>4, <1>5, NextPhase

LEMMA StateOfIs ==
  ASSUME LogInv, NEW v \in 1 .. Cur
  PROVE  StateOf(v) \in [ver : 0 .. MaxVersion, seqr : Sequencers]
<1>1. v \in 0 .. MaxVersion /\ store.configs[v].seqr \in Sequencers
  BY VersionFacts, Constants
<1> QED
  BY <1>1 DEF StateOf

LEMMA AdoptWinnerKeeps ==
  ASSUME LogInv, NEW c \in Clients, AdoptWinner(c)
  PROVE  LogInv'
<1>1. /\ rc' = [rc EXCEPT ![c] = IdleCall] /\ vlog' = [vlog EXCEPT ![c] = StateOf(Cur)]
      /\ UNCHANGED <<store, seqr, nano, op, stage, fill, aborts, onTime>>
  BY DEF AdoptWinner, Cur
<1>2. Cur \in 1 .. Cur
  BY VersionFacts
<1>3. StateOf(Cur) \in [ver : 0 .. MaxVersion, seqr : Sequencers]
  BY <1>2, StateOfIs
<1>4. /\ seqr' \in [Sequencers -> [num : Ends, gci : Ends, ver : Versions]]
      /\ vlog' \in [Clients -> [ver : 0 .. MaxVersion, seqr : Sequencers]]
      /\ fill' \subseteq Fills /\ \A m \in fill' : m.ver \in 1 .. Cur
  BY <1>1, <1>3, SameRest
<1> QED
  BY <1>1, <1>4, IdleCallIs, NextPhase

LEMMA SetStateKeeps ==
  ASSUME LogInv, NEW c \in Clients, SetState(c)
  PROVE  LogInv'
<1> DEFINE e == [rc[c] EXCEPT !.pc = "startNum"]
<1>1. /\ rc[c].pc = "setState" /\ rc' = [rc EXCEPT ![c] = e]
      /\ vlog' = [vlog EXCEPT ![c] = StateOf(rc[c].ver + 1)]
      /\ UNCHANGED <<store, seqr, nano, op, stage, fill, aborts, onTime>>
  BY DEF SetState
<1>2. rc[c] \in RcCalls /\ rc[c].ver + 1 \in 1 .. Cur
  BY <1>1, CallFacts DEF Installed
<1>3. /\ e \in RcCalls /\ e.pc = "startNum" /\ e.ver = rc[c].ver /\ e.quorum = rc[c].quorum
      /\ e.todo = rc[c].todo /\ e.max = rc[c].max
  BY <1>2 DEF RcCalls, AfterSeals, Installed
<1> HIDE DEF e
<1>4. rc[c].pc \in AfterSeals /\ e.pc \in AfterSeals
  BY <1>1, <1>3 DEF AfterSeals, Installed
<1>5. StateOf(rc[c].ver + 1) \in [ver : 0 .. MaxVersion, seqr : Sequencers]
  BY <1>2, StateOfIs
<1>6. /\ seqr' \in [Sequencers -> [num : Ends, gci : Ends, ver : Versions]]
      /\ vlog' \in [Clients -> [ver : 0 .. MaxVersion, seqr : Sequencers]]
      /\ fill' \subseteq Fills /\ \A m \in fill' : m.ver \in 1 .. Cur
  BY <1>1, <1>5, SameRest
<1> QED
  BY <1>1, <1>2, <1>3, <1>4, <1>6, NextPhase

LEMMA StartKeeps ==
  ASSUME LogInv, NEW c \in Clients, StartNum(c) \/ StartGci(c)
  PROVE  LogInv'
<1> DEFINE s == vlog[c].seqr
           x == rc[c].max
<1>0. PICK pc \in {"startGci", "startVer"} : rc' = [rc EXCEPT ![c] = [rc[c] EXCEPT !.pc = pc]]
  <2>1. CASE StartNum(c)
    BY <2>1 DEF StartNum
  <2>2. CASE StartGci(c)
    BY <2>2 DEF StartGci
  <2> QED
    BY <2>1, <2>2
<1> DEFINE e == [rc[c] EXCEPT !.pc = pc]
<1>1. /\ rc[c].pc \in {"startNum", "startGci"} /\ rc' = [rc EXCEPT ![c] = e]
      /\ seqr' = [seqr EXCEPT ![s].num = x] \/ seqr' = [seqr EXCEPT ![s].gci = x]
      /\ UNCHANGED <<store, nano, op, stage, vlog, fill, aborts, onTime>>
  BY <1>0 DEF StartNum, StartGci
<1>2. rc[c] \in RcCalls /\ rc[c].ver + 1 \in 1 .. Cur /\ x \in Ends
  BY <1>1, CallFacts DEF Installed, AfterSeals
<1>3. /\ e \in RcCalls /\ e.pc = pc /\ e.ver = rc[c].ver /\ e.quorum = rc[c].quorum
      /\ e.todo = rc[c].todo /\ e.max = x
  BY <1>2 DEF RcCalls, AfterSeals, Installed
<1> HIDE DEF e
<1>4. rc[c].pc \in AfterSeals /\ e.pc \in AfterSeals
  BY <1>1, <1>3 DEF AfterSeals, Installed
<1>5. s \in Sequencers
  BY SameRest
<1> HIDE DEF s
<1>6. seqr' \in [Sequencers -> [num : Ends, gci : Ends, ver : Versions]]
  <2>1. seqr \in [Sequencers -> [num : Ends, gci : Ends, ver : Versions]]
    BY SameRest
  <2> QED
    BY <1>1, <1>2, <1>5, <2>1
<1>7. /\ vlog' \in [Clients -> [ver : 0 .. MaxVersion, seqr : Sequencers]]
      /\ fill' \subseteq Fills /\ \A m \in fill' : m.ver \in 1 .. Cur
  BY <1>1, SameRest
<1> QED
  BY <1>1, <1>2, <1>3, <1>4, <1>6, <1>7, NextPhase

LEMMA StartVerKeeps ==
  ASSUME LogInv, NEW c \in Clients, StartVer(c)
  PROVE  LogInv'
<1>1. /\ rc[c].pc = "startVer" /\ rc' = [rc EXCEPT ![c] = IdleCall]
      /\ seqr' = [seqr EXCEPT ![vlog[c].seqr].ver = rc[c].ver + 1]
      /\ UNCHANGED <<store, nano, op, stage, vlog, fill, aborts, onTime>>
  BY DEF StartVer
<1>2. rc[c].ver + 1 \in Versions /\ vlog[c].seqr \in Sequencers
  BY <1>1, CallFacts, SameRest
<1>3. seqr' \in [Sequencers -> [num : Ends, gci : Ends, ver : Versions]]
  <2>1. seqr \in [Sequencers -> [num : Ends, gci : Ends, ver : Versions]]
    BY SameRest
  <2> QED
    BY <1>1, <1>2, <2>1
<1>4. /\ vlog' \in [Clients -> [ver : 0 .. MaxVersion, seqr : Sequencers]]
      /\ fill' \subseteq Fills /\ \A m \in fill' : m.ver \in 1 .. Cur
  BY <1>1, SameRest
<1> QED
  BY <1>1, <1>3, <1>4, IdleCallIs, NextPhase

LEMMA RefreshKeeps ==
  ASSUME LogInv, NEW c \in Clients, Refresh(c)
  PROVE  LogInv'
<1>1. /\ vlog' = [vlog EXCEPT ![c] = StateOf(Cur)]
      /\ UNCHANGED <<store, seqr, nano, op, stage, rc, fill, aborts, onTime>>
  BY DEF Refresh, Cur
<1>2. Cur \in 1 .. Cur
  BY VersionFacts
<1>3. StateOf(Cur) \in [ver : 0 .. MaxVersion, seqr : Sequencers]
  BY <1>2, StateOfIs
<1>4. vlog' \in [Clients -> [ver : 0 .. MaxVersion, seqr : Sequencers]]
  BY <1>1, <1>3, SameRest
<1>5. Types'
  BY <1>1, <1>4 DEF LogInv, Types
<1>6. Cur' = Cur
  BY <1>1 DEF Cur
<1>7. \A d \in Clients : CallGood(d)'
  BY <1>1, <1>6 DEF LogInv, CallGood, SealedBelow, Majorities, QuorumSize
<1>8. \A m \in fill' : m.ver \in 1 .. Cur
  BY <1>1 DEF LogInv
<1> QED
  BY <1>1, <1>5, <1>7, <1>8, ReconfigureSide

-----------------------------------------------------------------------------
(* The steps of a replica *)

(* The nano log m is the nano log l or a later one. *)
Grown(l, m) ==
  /\ l.sealed => m.sealed
  /\ l.queue.cur <= m.queue.cur
  /\ \A n \in DOMAIN l.logs : n \in DOMAIN m.logs /\ m.logs[n] = l.logs[n]

LogsGrow ==
  \A r \in Replicas, v \in Versions : nano[r][v] # NoLog =>
    nano'[r][v] # NoLog /\ Grown(nano[r][v], nano'[r][v])

LEMMA LogFacts ==
  ASSUME LogInv, NEW r \in Replicas, NEW v \in Versions, nano[r][v] # NoLog
  PROVE  /\ v \in 1 .. Cur /\ GoodLog(nano[r][v], store.configs[v].start)
         /\ nano[r][v].queue.cur \in Ends /\ nano[r][v].queue.cur \in Int
         /\ Grown(nano[r][v], nano[r][v])
<1>1. v \in 1 .. Cur /\ GoodLog(nano[r][v], store.configs[v].start)
  BY DEF LogInv, LogsGood
<1>2. nano[r][v].queue.cur \in Ends /\ nano[r][v].queue.cur \in Int
  BY <1>1, Constants DEF GoodLog, QueueOver, Ends
<1>3. Grown(nano[r][v], nano[r][v])
  BY <1>2 DEF Grown
<1> QED
  BY <1>1, <1>2, <1>3

LEMMA GetNanoLogIs ==
  ASSUME LogInv, NEW r \in Replicas, NEW v \in 1 .. Cur, NEW l, l = GetNanoLog(r, v)
  PROVE  /\ GoodLog(l, store.configs[v].start) /\ store.configs[v].start \in Ends
         /\ v \in Versions
         /\ nano[r][v] # NoLog => l = nano[r][v]
         /\ nano[r][v] = NoLog =>
              ~l.sealed /\ DOMAIN l.logs = {} /\ l.queue.cur = store.configs[v].start
<1>1. v \in Versions /\ store.configs[v].start \in Ends
  BY VersionFacts
<1>2. CASE nano[r][v] = NoLog
  <2>1. l = MakeNanoLog(store.configs[v].start)
    BY <1>2 DEF GetNanoLog
  <2> QED
    BY <1>1, <1>2, <2>1, MakeGood
<1>3. CASE nano[r][v] # NoLog
  BY <1>1, <1>3, LogFacts DEF GetNanoLog
<1> QED
  BY <1>2, <1>3

(* In version v of replica r the log ids N get entries, and the current index
   moves over entries and over log ids below g. *)
Entered(r, v, N, g) ==
  /\ nano'[r][v] # NoLog
  /\ DOMAIN nano'[r][v].logs = DOMAIN GetNanoLog(r, v).logs \union N
  /\ \A k \in LogIds : GetNanoLog(r, v).queue.cur <= k /\ k < nano'[r][v].queue.cur =>
       k \in DOMAIN nano'[r][v].logs \/ k < g
  /\ \A x \in Replicas, u \in Versions : x # r \/ u # v => nano'[x][u] = nano[x][u]

PutsLog(r, v, l) == nano' = [nano EXCEPT ![r][v] = l]

(* One nano log is replaced by a later one. *)
LEMMA PutLog ==
  ASSUME LogInv, UNCHANGED store, NEW r \in Replicas, NEW v \in 1 .. Cur,
         NEW l, GoodLog(l, store.configs[v].start), PutsLog(r, v, l),
         nano[r][v] # NoLog => Grown(nano[r][v], l)
  PROVE  /\ LogsGood' /\ LogsGrow /\ nano'[r][v] = l
         /\ \A x \in Replicas, u \in Versions : x # r \/ u # v => nano'[x][u] = nano[x][u]
<1>1. DOMAIN nano = Replicas /\ \A x \in Replicas : DOMAIN nano[x] = Versions
  BY DEF LogInv, LogsGood
<1>2. v \in Versions
  BY VersionFacts
<1>3. /\ DOMAIN nano' = Replicas /\ \A x \in Replicas : DOMAIN nano'[x] = Versions
      /\ nano'[r][v] = l
      /\ \A x \in Replicas, u \in Versions : x # r \/ u # v => nano'[x][u] = nano[x][u]
  <2>1. nano' = [nano EXCEPT ![r] = [nano[r] EXCEPT ![v] = l]]
    BY DEF PutsLog
  <2>2. /\ DOMAIN nano' = Replicas /\ nano'[r] = [nano[r] EXCEPT ![v] = l]
        /\ \A x \in Replicas : x # r => nano'[x] = nano[x]
    BY <1>1, <2>1
  <2>3. /\ DOMAIN nano'[r] = Versions /\ nano'[r][v] = l
        /\ \A u \in Versions : u # v => nano'[r][u] = nano[r][u]
    BY <1>1, <1>2, <2>2
  <2> QED
    BY <1>1, <2>2, <2>3
<1>4. l # NoLog
  BY NoLogIs
<1>5. Cur' = Cur
  BY DEF Cur
<1>6. LogsGood'
  <2> SUFFICES ASSUME NEW x \in Replicas, NEW u \in Versions, nano'[x][u] # NoLog
               PROVE  u \in 1 .. Cur /\ GoodLog(nano'[x][u], store.configs[u].start)
    BY <1>3, <1>5 DEF LogsGood, GoodLog, QueueOver
  <2>1. CASE x = r /\ u = v
    BY <1>3, <2>1
  <2>2. CASE x # r \/ u # v
    BY <1>3, <2>2, LogFacts
  <2> QED
    BY <2>1, <2>2
<1>7. LogsGrow
  <2> SUFFICES ASSUME NEW x \in Replicas, NEW u \in Versions, nano[x][u] # NoLog
               PROVE  nano'[x][u] # NoLog /\ Grown(nano[x][u], nano'[x][u])
    BY DEF LogsGrow
  <2>1. CASE x = r /\ u = v
    BY <1>3, <1>4, <2>1
  <2>2. CASE x # r \/ u # v
    <3>1. nano'[x][u] = nano[x][u] /\ Grown(nano[x][u], nano[x][u])
      BY <1>3, <2>2, LogFacts
    <3> QED
      BY <3>1
  <2> QED
    BY <2>1, <2>2
<1> QED
  BY <1>3, <1>6, <1>7

(* An acknowledged append stays below the current index of its replica. *)
LEMMA AckedStaysBelow ==
  ASSUME LogInv, LogsGood', LogsGrow, NEW a \in Appends, NEW r \in Replicas,
         r \in onTime[a].acked
  PROVE  /\ op[a].ver[r] \in Versions /\ nano[r][op[a].ver[r]] # NoLog
         /\ nano'[r][op[a].ver[r]] # NoLog
         /\ op[a].logId < nano[r][op[a].ver[r]].queue.cur
         /\ op[a].logId < nano'[r][op[a].ver[r]].queue.cur
<1>0. PICK v : v = op[a].ver[r]
  OBVIOUS
<1>1. /\ v \in Versions /\ nano[r][v] # NoLog /\ op[a].logId < nano[r][v].queue.cur
      /\ op[a].logId \in LogIds
  BY <1>0 DEF LogInv, OpGood
<1>2. nano'[r][v] # NoLog /\ nano[r][v].queue.cur <= nano'[r][v].queue.cur
  BY <1>1 DEF LogsGrow, Grown
<1>3. nano[r][v].queue.cur \in Int /\ op[a].logId \in Int
  BY <1>1, LogFacts DEF LogIds
<1>4. nano'[r][v].queue.cur \in Int
  <2>1. GoodLog(nano[r][v], store.configs[v].start)'
    BY <1>1, <1>2 DEF LogsGood
  <2>2. QueueOver(nano[r][v].queue, 1, MaxLogId)'
    BY <2>1 DEF GoodLog
  <2> QED
    BY <2>2, Constants DEF QueueOver
<1>5. op[a].logId < nano'[r][v].queue.cur
  BY <1>1, <1>2, <1>3, <1>4
<1> QED
  BY <1>0, <1>1, <1>2, <1>5

LEMMA CheckSealedKeeps ==
  ASSUME LogInv, NEW a \in Appends, NEW r \in Replicas, CheckSealed(a, r)
  PROVE  /\ LogInv' /\ LogsGrow
         /\ op[a].ver[r] \in 1 .. Cur =>
              /\ Entered(r, op[a].ver[r], {}, 0)
              /\ nano'[r][op[a].ver[r]].sealed = GetNanoLog(r, op[a].ver[r]).sealed
         /\ op[a].ver[r] \notin 1 .. Cur => UNCHANGED nano
         /\ stage'[a][r] = "refused" \/ /\ stage'[a][r] = "checked" /\ op[a].ver[r] \in 1 .. Cur
                                        /\ ~nano'[r][op[a].ver[r]].sealed
         /\ \A b \in Appends, x \in Replicas : b # a \/ x # r => stage'[b][x] = stage[b][x]
<1>0. PICK v : v = op[a].ver[r]
  OBVIOUS
<1>1. /\ stage[a][r] = "sent" /\ UNCHANGED <<store, seqr, op, vlog, rc, fill, aborts, onTime>>
  BY DEF CheckSealed
<1>2. Types /\ OpGood(a) /\ Cur' = Cur /\ stage \in [Appends -> [Replicas -> Stages]]
  BY <1>1 DEF LogInv, Types, Cur
<1>3. PICK st \in {"refused", "checked"} :
        /\ stage' = [stage EXCEPT ![a][r] = st]
        /\ st = "checked" => HasConfig(v) /\ ~GetNanoLog(r, v).sealed
  BY <1>0 DEF CheckSealed
<1>4. /\ stage' \in [Appends -> [Replicas -> Stages]] /\ stage'[a][r] = st
      /\ \A x \in Replicas : x # r => stage'[a][x] = stage[a][x]
      /\ \A b \in Appends : b # a => stage'[b] = stage[b]
  BY <1>2, <1>3 DEF Stages
<1>5. /\ LogsGood' /\ LogsGrow /\ (HasConfig(v) => v \in Versions /\ nano'[r][v] # NoLog)
      /\ HasConfig(v) => Entered(r, v, {}, 0) /\ nano'[r][v].sealed = GetNanoLog(r, v).sealed
      /\ ~HasConfig(v) => UNCHANGED nano
  <2>1. CASE HasConfig(v)
    <3>0. PICK l : l = GetNanoLog(r, v)
      OBVIOUS
    <3>1. v \in 1 .. Cur /\ PutsLog(r, v, l)
      BY <1>0, <2>1, <3>0, VersionFacts DEF HasConfig, CheckSealed, PutsLog
    <3>2. GoodLog(l, store.configs[v].start) /\ (nano[r][v] # NoLog => l = nano[r][v]) /\ v \in Versions
      BY <3>0, <3>1, GetNanoLogIs
    <3>3. nano[r][v] # NoLog => Grown(nano[r][v], l)
      BY <3>2, LogFacts
    <3>4. UNCHANGED store /\ GoodLog(l, store.configs[v].start)
      BY <1>1, <3>2
    <3>5. /\ LogsGood' /\ LogsGrow /\ nano'[r][v] = l
          /\ \A x \in Replicas, u \in Versions : x # r \/ u # v => nano'[x][u] = nano[x][u]
      BY <3>1, <3>3, <3>4, PutLog
    <3>6. l # NoLog /\ l.queue.cur \in Int
      BY <3>2, NoLogIs, Constants DEF GoodLog, QueueOver
    <3>7. Entered(r, v, {}, 0)
      BY <3>0, <3>5, <3>6 DEF Entered, LogIds
    <3> QED
      BY <2>1, <3>0, <3>2, <3>5, <3>6, <3>7
  <2>2. CASE ~HasConfig(v)
    <3>1. UNCHANGED nano
      BY <1>0, <2>2 DEF CheckSealed
    <3>2. LogsGood'
      BY <1>1, <1>2, <3>1 DEF LogInv, LogsGood
    <3>3. LogsGrow
      BY <3>1, LogFacts DEF LogsGrow
    <3> QED
      BY <2>2, <3>1, <3>2, <3>3
  <2> QED
    BY <2>1, <2>2
<1>6. KeepsSealed
  BY <1>1, <1>5 DEF KeepsSealed, LogsGrow, Grown
<1>7. ASSUME NEW b \in Appends
      PROVE  OpGood(b)'
  <2>0. OpGood(b)
    BY DEF LogInv
  <2>1. op[b].pc = "new" => \A x \in Replicas : stage'[b][x] = "none"
    BY <1>1, <1>2, <1>4, <2>0 DEF OpGood
  <2>2. ASSUME NEW x \in Replicas
        PROVE  /\ stage'[b][x] \in {"checked", "stored", "acked"} =>
                    op[b].ver[x] \in Versions /\ nano'[x][op[b].ver[x]] # NoLog
               /\ x \in onTime[b].acked =>
                    stage'[b][x] = "acked" /\ op[b].logId < nano'[x][op[b].ver[x]].queue.cur
    <3>1. CASE b = a /\ x = r
      <4>1. r \notin onTime[a].acked
        BY <1>1, <1>2 DEF OpGood
      <4> QED
        BY <1>0, <1>3, <1>4, <1>5, <3>1, <4>1
    <3>2. CASE b # a \/ x # r
      <4>1. stage'[b][x] = stage[b][x]
        BY <1>4, <3>2
      <4>2. x \in onTime[b].acked => stage[b][x] = "acked"
            /\ op[b].logId < nano'[x][op[b].ver[x]].queue.cur
        BY <1>5, <2>0, AckedStaysBelow DEF OpGood
      <4>3. stage[b][x] \in {"checked", "stored", "acked"} =>
              op[b].ver[x] \in Versions /\ nano'[x][op[b].ver[x]] # NoLog
        BY <1>5, <2>0 DEF OpGood, LogsGrow
      <4> QED
        BY <4>1, <4>2, <4>3
    <3> QED
      BY <3>1, <3>2
  <2>3. op[b].pc # "new" => op[b].logId \in LogIds
    BY <2>0 DEF OpGood
  <2> QED
    BY <1>1, <2>1, <2>2, <2>3 DEF OpGood
<1>8. Types'
  BY <1>1, <1>2, <1>4 DEF Types
<1>9. \A c \in Clients : CallGood(c)'
  <2> TAKE c \in Clients
  <2>1. CASE rc[c].pc = "idle"
    BY <1>1, <2>1 DEF CallGood
  <2>2. CASE rc[c].pc # "idle"
    <3>1. /\ rc[c].pc \in AfterSeals => rc[c].todo = {}
          /\ rc[c].pc \in Installed => rc[c].ver + 1 \in 1 .. Cur
      BY <2>2, CallFacts
    <3> QED
      BY <1>1, <1>6, <2>2, <3>1, SameCall
  <2> QED
    BY <2>1, <2>2
<1>10. \A m \in fill' : m.ver \in 1 .. Cur
  BY <1>1, SameRest
<1>11. LogInv'
  BY <1>1, <1>5, <1>6, <1>7, <1>8, <1>9, <1>10, SameStore
<1>12. HasConfig(v) <=> v \in 1 .. Cur
  BY VersionFacts DEF HasConfig
<1>13. \A b \in Appends, x \in Replicas : b # a \/ x # r => stage'[b][x] = stage[b][x]
  BY <1>4
<1>14. stage'[a][r] = "refused" \/ /\ stage'[a][r] = "checked" /\ v \in 1 .. Cur
                                   /\ ~nano'[r][v].sealed
  BY <1>3, <1>4, <1>5, <1>12
<1> QED
  BY <1>0, <1>5, <1>11, <1>12, <1>13, <1>14

(* Replica r stores an entry in version v: its log becomes l, the appends in
   acks are acknowledged and those in new are left waiting. *)
Stores(r, acks, new) ==
  /\ stage' \in [Appends -> [Replicas -> Stages]]
  /\ \A x \in Appends, y \in Replicas :
       stage'[x][y] = IF y # r THEN stage[x][y]
                      ELSE IF x \in acks THEN "acked"
                      ELSE IF x \in new THEN "stored" ELSE stage[x][y]

Records(r, v, acks) ==
  /\ onTime' \in [Appends -> [stored : SUBSET Replicas, acked : SUBSET Replicas]]
  /\ \A x \in Appends, y \in Replicas :
       y \in onTime'[x].acked =>
         y \in onTime[x].acked \/ (y = r /\ x \in acks /\ ~nano[r][v].sealed)
  /\ \A x \in Appends, y \in Replicas :
       y \in onTime[x].acked \/ (y = r /\ x \in acks /\ ~nano[r][v].sealed) =>
         y \in onTime'[x].acked

(* ... in the position n, with the commit index g; the new payload is p. *)
EntersAt(r, v, n, p, g, acks, new) ==
  /\ Entered(r, v, {n}, g) /\ nano'[r][v].logs[n] = p
  /\ nano'[r][v].sealed = GetNanoLog(r, v).sealed
  /\ \A x \in acks : /\ x \in Appends /\ op[x].ver[r] = v /\ op[x].logId < nano'[r][v].queue.cur
                     /\ stage[x][r] = "stored" \/ x \in new
  /\ Stores(r, acks, new) /\ Records(r, v, acks)

LEMMA StageIs ==
  ASSUME LogInv, NEW r \in Replicas, NEW acks, NEW new,
         stage' = [x \in Appends |-> [stage[x] EXCEPT ![r] =
                     IF x \in acks THEN "acked"
                     ELSE IF x \in new THEN "stored" ELSE @]]
  PROVE  Stores(r, acks, new)
<1>1. stage \in [Appends -> [Replicas -> Stages]]
  BY DEF LogInv, Types
<1>2. ASSUME NEW x \in Appends
      PROVE  /\ stage'[x] \in [Replicas -> Stages]
             /\ \A y \in Replicas :
                  stage'[x][y] = IF y # r THEN stage[x][y]
                                 ELSE IF x \in acks THEN "acked"
                                 ELSE IF x \in new THEN "stored" ELSE stage[x][y]
  <2> DEFINE w == IF x \in acks THEN "acked" ELSE IF x \in new THEN "stored" ELSE stage[x][r]
  <2>1. stage[x] \in [Replicas -> Stages] /\ stage'[x] = [stage[x] EXCEPT ![r] = w]
    BY <1>1
  <2>2. w \in Stages
    BY <1>1 DEF Stages
  <2>3. /\ stage'[x] \in [Replicas -> Stages] /\ stage'[x][r] = w
        /\ \A y \in Replicas : y # r => stage'[x][y] = stage[x][y]
    <3> HIDE DEF w
    <3> QED
      BY <2>1, <2>2
  <2> QED
    BY <2>3
<1>3. stage' \in [Appends -> [Replicas -> Stages]]
  <2>1. stage' = [x \in Appends |-> stage'[x]]
    OBVIOUS
  <2> QED
    BY <1>2, <2>1
<1> QED
  BY <1>2, <1>3 DEF Stores

LEMMA RecordIs ==
  ASSUME LogInv, NEW r \in Replicas, NEW v, NEW stores, NEW acks,
         RecordOnTime(r, v, stores, acks)
  PROVE  Records(r, v, acks)
<1> DEFINE new(S, a, who) == IF a \in who /\ ~nano[r][v].sealed THEN S \union {r} ELSE S
<1>1. onTime \in [Appends -> [stored : SUBSET Replicas, acked : SUBSET Replicas]]
  BY DEF LogInv, Types
<1>2. onTime' = [a \in Appends |-> [stored |-> new(onTime[a].stored, a, stores),
                                    acked  |-> new(onTime[a].acked, a, acks)]]
  BY DEF RecordOnTime
<1>3. ASSUME NEW a \in Appends
      PROVE  /\ new(onTime[a].stored, a, stores) \in SUBSET Replicas
             /\ new(onTime[a].acked, a, acks) \in SUBSET Replicas
             /\ \A y \in new(onTime[a].acked, a, acks) :
                  y \in onTime[a].acked \/ (y = r /\ a \in acks /\ ~nano[r][v].sealed)
             /\ \A y : y \in onTime[a].acked \/ (y = r /\ a \in acks /\ ~nano[r][v].sealed) =>
                  y \in new(onTime[a].acked, a, acks)
  <2>1. onTime[a].stored \in SUBSET Replicas /\ onTime[a].acked \in SUBSET Replicas
    BY <1>1
  <2> QED
    BY <2>1
<1> HIDE DEF new
<1>4. onTime' \in [Appends -> [stored : SUBSET Replicas, acked : SUBSET Replicas]]
  BY <1>2, <1>3
<1>5. \A a \in Appends : onTime'[a].acked = new(onTime[a].acked, a, acks)
  BY <1>2
<1> QED
  BY <1>3, <1>4, <1>5 DEF Records

LEMMA StoreStep ==
  ASSUME LogInv, UNCHANGED <<store, op>>, NEW r \in Replicas, NEW v \in 1 .. Cur,
         NEW l, GoodLog(l, store.configs[v].start), PutsLog(r, v, l),
         nano[r][v] # NoLog => Grown(nano[r][v], l),
         NEW acks \in SUBSET Appends, NEW new \in SUBSET Appends,
         \A x \in acks : /\ op[x].ver[r] = v /\ op[x].logId < l.queue.cur
                         /\ stage[x][r] \in {"checked", "stored"},
         \A x \in new : op[x].ver[r] = v /\ stage[x][r] = "checked",
         Stores(r, acks, new), Records(r, v, acks)
  PROVE  LogsGood' /\ LogsGrow /\ KeepsSealed /\ \A a \in Appends : OpGood(a)'
<1>1. /\ LogsGood' /\ LogsGrow /\ nano'[r][v] = l /\ v \in Versions /\ l # NoLog
  BY PutLog, VersionFacts, NoLogIs
<1>2. KeepsSealed
  <2> SUFFICES ASSUME NEW y \in Replicas, NEW u \in Versions, nano[y][u] # NoLog, nano[y][u].sealed
               PROVE  /\ nano'[y][u] # NoLog /\ nano'[y][u].sealed
                      /\ \A a \in Appends : y \in onTime'[a].acked /\ op'[a].ver[y] = u =>
                           y \in onTime[a].acked /\ op[a].ver[y] = u /\ op'[a].logId = op[a].logId
    BY DEF KeepsSealed
  <2>1. nano'[y][u] # NoLog /\ nano'[y][u].sealed
    BY <1>1 DEF LogsGrow, Grown
  <2>2. ASSUME NEW a \in Appends, y \in onTime'[a].acked, op[a].ver[y] = u
        PROVE  y \in onTime[a].acked
    <3>1. y \in onTime[a].acked \/ (y = r /\ a \in acks /\ ~nano[r][v].sealed)
      BY <2>2 DEF Records
    <3> QED
      BY <2>2, <3>1
  <2> QED
    BY <2>1, <2>2
<1>3. ASSUME NEW b \in Appends
      PROVE  OpGood(b)'
  <2>0. OpGood(b)
    BY DEF LogInv
  <2>1. op[b].pc = "new" => \A x \in Replicas : stage'[b][x] = "none"
    <3> SUFFICES ASSUME op[b].pc = "new", NEW x \in Replicas PROVE stage'[b][x] = "none"
      OBVIOUS
    <3>1. stage[b][x] = "none" /\ stage[b][r] = "none"
      BY <2>0 DEF OpGood
    <3>2. b \notin acks /\ b \notin new
      BY <3>1
    <3> QED
      BY <3>1, <3>2 DEF Stores
  <2>2. ASSUME NEW x \in Replicas
        PROVE  /\ stage'[b][x] \in {"checked", "stored", "acked"} =>
                    op[b].ver[x] \in Versions /\ nano'[x][op[b].ver[x]] # NoLog
               /\ x \in onTime'[b].acked =>
                    stage'[b][x] = "acked" /\ op[b].logId < nano'[x][op[b].ver[x]].queue.cur
    <3>1. CASE x = r /\ b \in acks
      <4>1. stage'[b][x] = "acked" /\ op[b].ver[x] = v /\ op[b].logId < l.queue.cur
        BY <3>1 DEF Stores
      <4> QED
        BY <1>1, <3>1, <4>1
    <3>2. CASE x # r \/ b \notin acks
      <4>1. x \in onTime'[b].acked => x \in onTime[b].acked
        BY <3>2 DEF Records
      <4>2. x \in onTime[b].acked => stage[b][x] = "acked"
            /\ op[b].logId < nano'[x][op[b].ver[x]].queue.cur
        BY <1>1, <2>0, AckedStaysBelow DEF OpGood
      <4>3. stage[b][x] \in {"checked", "stored", "acked"} =>
              op[b].ver[x] \in Versions /\ nano'[x][op[b].ver[x]] # NoLog
        BY <1>1, <2>0 DEF OpGood, LogsGrow
      <4>4. CASE x = r /\ b \in new
        <5>1. stage'[b][x] = "stored" /\ stage[b][x] = "checked"
          BY <3>2, <4>4 DEF Stores
        <5> QED
          BY <4>1, <4>2, <4>3, <5>1
      <4>5. CASE x # r \/ b \notin new
        <5>1. stage'[b][x] = stage[b][x]
          BY <3>2, <4>5 DEF Stores
        <5> QED
          BY <4>1, <4>2, <4>3, <5>1
      <4> QED
        BY <4>4, <4>5
    <3> QED
      BY <3>1, <3>2
  <2>3. op[b].pc # "new" => op[b].logId \in LogIds
    BY <2>0 DEF OpGood
  <2> QED
    BY <2>1, <2>2, <2>3 DEF OpGood
<1> QED
  BY <1>1, <1>2, <1>3

LEMMA StoreEntryKeeps ==
  ASSUME LogInv, NEW a \in Appends, NEW r \in Replicas, StoreEntry(a, r)
  PROVE  /\ LogInv' /\ LogsGrow
         /\ op[a].ver[r] \in 1 .. Cur /\ op[a].logId \in LogIds /\ stage[a][r] = "checked"
         /\ \E A : EntersAt(r, op[a].ver[r], op[a].logId, a, op[a].gci[r], A, {a})
<1>0. PICK v, n, g, l : v = op[a].ver[r] /\ n = op[a].logId /\ g = op[a].gci[r] /\ l = nano[r][v]
  OBVIOUS
<1>1. PICK res : res = AppendLocked(l, {g}, n, a)
  OBVIOUS
<1> DEFINE acks == {x \in Appends : Fulfilled(x, r, v, res.done)}
                     \union (IF n \in res.done THEN {a} ELSE {})
           answers == {m \in fill : Answered(m, r, v, res.done)}
<1>2. /\ stage[a][r] = "checked" /\ ~Occupied(l, n)
      /\ nano' = [nano EXCEPT ![r][v] = res.log]
      /\ stage' = [x \in Appends |-> [stage[x] EXCEPT ![r] =
                     IF x \in acks THEN "acked" ELSE IF x = a THEN "stored" ELSE @]]
      /\ fill' = fill \ answers
      /\ rc' = CountAnswers(answers)
      /\ RecordOnTime(r, v, {a}, acks)
      /\ UNCHANGED <<store, seqr, op, vlog, aborts>>
  BY <1>0, <1>1 DEF StoreEntry
<1>3. PICK A : A = acks
  OBVIOUS
<1>4. PICK B : B = answers
  OBVIOUS
<1>5. /\ \A x \in A : x \in Appends /\ (Fulfilled(x, r, v, res.done) \/ (x = a /\ n \in res.done))
      /\ B \subseteq fill
  BY <1>3, <1>4
<1>6. /\ stage' = [x \in Appends |-> [stage[x] EXCEPT ![r] =
                     IF x \in A THEN "acked" ELSE IF x \in {a} THEN "stored" ELSE @]]
      /\ fill' = fill \ B /\ rc' = CountAnswers(B) /\ RecordOnTime(r, v, {a}, A)
  <2> HIDE DEF acks, answers
  <2> QED
    BY <1>2, <1>3, <1>4
<1> HIDE DEF acks, answers
<1>7. OpGood(a) /\ op[a] \in Ops
  BY DEF LogInv, Types
<1>8. /\ n \in LogIds /\ v \in Versions /\ nano[r][v] # NoLog /\ g \in 0 .. (MaxLogId + 1)
  <2>1. op[a].pc # "new"
    BY <1>2, <1>7 DEF OpGood
  <2> QED
    BY <1>0, <1>2, <1>7, <2>1 DEF OpGood, Ops
<1>9. /\ v \in 1 .. Cur /\ GoodLog(l, store.configs[v].start) /\ store.configs[v].start \in Int
  BY <1>0, <1>8, LogFacts, VersionFacts DEF Ends
<1>10. /\ GoodLog(res.log, store.configs[v].start) /\ res.log.sealed = l.sealed
       /\ DOMAIN res.log.logs = DOMAIN l.logs \union {n}
       /\ \A k \in DOMAIN l.logs : k # n => res.log.logs[k] = l.logs[k]
       /\ l.queue.cur <= res.log.queue.cur
       /\ \A k \in res.done : k < res.log.queue.cur
       /\ res.log.logs[n] = a
       /\ \A k \in LogIds : l.queue.cur <= k /\ k < res.log.queue.cur =>
            k \in DOMAIN res.log.logs \/ \E i \in {g} : k < i
  <2>1. {g} = {} \/ \E i \in 0 .. (MaxLogId + 1) : {g} = {i}
    BY <1>8
  <2> QED
    BY <1>1, <1>8, <1>9, <2>1, AppendLockedGood
<1>11. Grown(nano[r][v], res.log)
  BY <1>0, <1>2, <1>10 DEF Grown, Occupied
<1>12. \A x \in A : /\ op[x].ver[r] = v /\ op[x].logId < res.log.queue.cur
                    /\ stage[x][r] \in {"checked", "stored"}
  BY <1>0, <1>2, <1>5, <1>10 DEF Fulfilled
<1>13. Stores(r, A, {a}) /\ Records(r, v, A)
  BY <1>6, StageIs, RecordIs
<1>14. PICK m : m = res.log
  OBVIOUS
<1>15. PutsLog(r, v, m) /\ UNCHANGED <<store, op>> /\ A \in SUBSET Appends /\ {a} \in SUBSET Appends
  BY <1>2, <1>5, <1>14 DEF PutsLog
<1>16. /\ GoodLog(m, store.configs[v].start) /\ Grown(nano[r][v], m)
       /\ \A x \in A : /\ op[x].ver[r] = v /\ op[x].logId < m.queue.cur
                       /\ stage[x][r] \in {"checked", "stored"}
       /\ \A x \in {a} : op[x].ver[r] = v /\ stage[x][r] = "checked"
  BY <1>0, <1>2, <1>10, <1>11, <1>12, <1>14
<1>17. LogsGood' /\ LogsGrow /\ KeepsSealed /\ \A x \in Appends : OpGood(x)'
  BY <1>9, <1>13, <1>15, <1>16, StoreStep
<1>18. rc' \in [Clients -> RcCalls] /\ \A c \in Clients : CallGood(c)'
  <2>1. B \in SUBSET Fills /\ UNCHANGED store
    BY <1>2, <1>5, SameRest
  <2> QED
    BY <1>6, <1>17, <2>1, AnswersKeepCalls
<1>19. Types'
  BY <1>2, <1>6, <1>13, <1>18 DEF LogInv, Types, Stores, Records
<1>20. \A x \in fill' : x.ver \in 1 .. Cur
  BY <1>6, SameRest
<1>21. UNCHANGED store
  BY <1>2
<1>22. LogInv'
  BY <1>17, <1>18, <1>19, <1>20, <1>21, SameStore
<1>23. l = GetNanoLog(r, v)
  BY <1>0, <1>8 DEF GetNanoLog
<1>24. /\ nano'[r][v] = m /\ m # NoLog
       /\ \A x \in Replicas, u \in Versions : x # r \/ u # v => nano'[x][u] = nano[x][u]
  BY <1>9, <1>15, <1>16, PutLog, NoLogIs
<1>25. Entered(r, v, {n}, g)
  BY <1>10, <1>14, <1>23, <1>24 DEF Entered
<1>26. \A x \in A : stage[x][r] = "stored" \/ x \in {a}
  BY <1>5 DEF Fulfilled
<1>27. EntersAt(r, v, n, a, g, A, {a})
  BY <1>5, <1>10, <1>13, <1>14, <1>16, <1>23, <1>24, <1>25, <1>26 DEF EntersAt
<1> QED
  BY <1>0, <1>2, <1>8, <1>9, <1>17, <1>22, <1>27

LEMMA FillHoleKeeps ==
  ASSUME LogInv, NEW m \in fill, FillHole(m)
  PROVE  /\ LogInv' /\ LogsGrow
         /\ m.replica \in Replicas /\ m.ver \in 1 .. Cur /\ m.logId \in LogIds
         /\ \E A : EntersAt(m.replica, m.ver, m.logId, m.val, 0, A, {})
<1>0. PICK r, v, n, p : r = m.replica /\ v = m.ver /\ n = m.logId /\ p = m.val
  OBVIOUS
<1>1. PICK l : l = GetNanoLog(r, v)
  OBVIOUS
<1>2. PICK res : res = AppendLocked(l, {}, n, p)
  OBVIOUS
<1> DEFINE acks == {x \in Appends : Fulfilled(x, r, v, res.done)}
           answers == {x \in fill : Answered(x, r, v, res.done)}
                        \union (IF n \in res.done THEN {m} ELSE {})
<1>3. /\ ~Occupied(l, n) /\ nano' = [nano EXCEPT ![r][v] = res.log]
      /\ stage' = [x \in Appends |-> [stage[x] EXCEPT ![r] = IF x \in acks THEN "acked" ELSE @]]
      /\ fill' = (fill \ (answers \union {m})) \union
                 (IF m \in answers THEN {} ELSE {[m EXCEPT !.st = "stored"]})
      /\ rc' = CountAnswers(answers)
      /\ RecordOnTime(r, v, {}, acks)
      /\ UNCHANGED <<store, seqr, op, vlog, aborts>>
  BY <1>0, <1>1, <1>2 DEF FillHole
<1>4. PICK A : A = acks
  OBVIOUS
<1>5. PICK B : B = answers
  OBVIOUS
<1>6. /\ \A x \in A : x \in Appends /\ Fulfilled(x, r, v, res.done)
      /\ B \subseteq fill
  BY <1>4, <1>5
<1>7. /\ stage' = [x \in Appends |-> [stage[x] EXCEPT ![r] = IF x \in A THEN "acked" ELSE @]]
      /\ fill' \subseteq fill \union {[m EXCEPT !.st = "stored"]}
      /\ rc' = CountAnswers(B) /\ RecordOnTime(r, v, {}, A)
  <2> HIDE DEF acks, answers
  <2> QED
    BY <1>3, <1>4, <1>5
<1> HIDE DEF acks, answers
<1>8. /\ m \in Fills /\ r \in Replicas /\ v \in 1 .. Cur /\ n \in LogIds /\ p \in Appends
  BY <1>0, SameRest DEF Fills
<1>9. /\ GoodLog(l, store.configs[v].start) /\ store.configs[v].start \in Int
      /\ (nano[r][v] # NoLog => l = nano[r][v]) /\ v \in Versions
  BY <1>1, <1>8, GetNanoLogIs DEF Ends
<1>10. /\ GoodLog(res.log, store.configs[v].start) /\ res.log.sealed = l.sealed
       /\ DOMAIN res.log.logs = DOMAIN l.logs \union {n}
       /\ \A k \in DOMAIN l.logs : k # n => res.log.logs[k] = l.logs[k]
       /\ l.queue.cur <= res.log.queue.cur
       /\ \A k \in res.done : k < res.log.queue.cur
       /\ res.log.logs[n] = p
       /\ \A k \in LogIds : l.queue.cur <= k /\ k < res.log.queue.cur =>
            k \in DOMAIN res.log.logs \/ \E i \in {} : k < i
  <2>1. PICK G : G = {}
    OBVIOUS
  <2>2. G = {} \/ \E i \in 0 .. (MaxLogId + 1) : G = {i}
    BY <2>1
  <2>3. res = AppendLocked(l, G, n, p)
    BY <1>2, <2>1
  <2> QED
    BY <1>8, <1>9, <2>1, <2>2, <2>3, AppendLockedGood
<1>11. nano[r][v] # NoLog => Grown(nano[r][v], res.log)
  BY <1>3, <1>9, <1>10 DEF Grown, Occupied
<1>12. \A x \in A : /\ op[x].ver[r] = v /\ op[x].logId < res.log.queue.cur
                    /\ stage[x][r] \in {"checked", "stored"}
  BY <1>6, <1>10 DEF Fulfilled
<1>13. Stores(r, A, {}) /\ Records(r, v, A)
  <2>1. stage' = [x \in Appends |-> [stage[x] EXCEPT ![r] =
                    IF x \in A THEN "acked" ELSE IF x \in {} THEN "stored" ELSE @]]
    BY <1>7
  <2> QED
    BY <1>7, <1>8, <2>1, StageIs, RecordIs
<1>14. PICK k : k = res.log
  OBVIOUS
<1>15. PutsLog(r, v, k) /\ UNCHANGED <<store, op>> /\ A \in SUBSET Appends /\ {} \in SUBSET Appends
  BY <1>3, <1>6, <1>14 DEF PutsLog
<1>16. /\ GoodLog(k, store.configs[v].start) /\ (nano[r][v] # NoLog => Grown(nano[r][v], k))
       /\ \A x \in A : /\ op[x].ver[r] = v /\ op[x].logId < k.queue.cur
                       /\ stage[x][r] \in {"checked", "stored"}
       /\ \A x \in {} : op[x].ver[r] = v /\ stage[x][r] = "checked"
  BY <1>10, <1>11, <1>12, <1>14
<1>17. LogsGood' /\ LogsGrow /\ KeepsSealed /\ \A x \in Appends : OpGood(x)'
  BY <1>8, <1>13, <1>15, <1>16, StoreStep
<1>18. rc' \in [Clients -> RcCalls] /\ \A c \in Clients : CallGood(c)'
  <2>1. B \in SUBSET Fills /\ UNCHANGED store
    BY <1>3, <1>6, SameRest
  <2> QED
    BY <1>7, <1>17, <2>1, AnswersKeepCalls
<1>19. fill' \subseteq Fills /\ \A x \in fill' : x.ver \in 1 .. Cur
  <2> DEFINE w == [m EXCEPT !.st = "stored"]
  <2>1. w \in Fills /\ w.ver = m.ver
    BY <1>8 DEF Fills
  <2> HIDE DEF w
  <2>2. w.ver \in 1 .. Cur
    BY <1>0, <1>8, <2>1
  <2>3. fill' \subseteq fill \union {w}
    BY <1>7 DEF w
  <2> QED
    BY <2>1, <2>2, <2>3, SameRest
<1>20. Types'
  BY <1>3, <1>13, <1>18, <1>19 DEF LogInv, Types, Stores, Records
<1>21. UNCHANGED store
  BY <1>3
<1>22. LogInv'
  BY <1>17, <1>18, <1>19, <1>20, <1>21, SameStore
<1>23. /\ nano'[r][v] = k /\ k # NoLog
       /\ \A x \in Replicas, u \in Versions : x # r \/ u # v => nano'[x][u] = nano[x][u]
  BY <1>8, <1>15, <1>16, PutLog, NoLogIs
<1>24. Entered(r, v, {n}, 0)
  BY <1>1, <1>10, <1>14, <1>23 DEF Entered
<1>25. \A x \in A : stage[x][r] = "stored"
  BY <1>6 DEF Fulfilled
<1>26. EntersAt(r, v, n, p, 0, A, {})
  BY <1>1, <1>6, <1>10, <1>13, <1>14, <1>16, <1>23, <1>24, <1>25 DEF EntersAt
<1> QED
  BY <1>0, <1>8, <1>17, <1>22, <1>26

(* Call c goes on after replica r was sealed at the end index `end'. *)
SealsOne(c, r, end) ==
  /\ rc'[c].ver = rc[c].ver /\ rc'[c].quorum = rc[c].quorum /\ r \notin rc'[c].todo
  /\ rc'[c].min = IF end < rc[c].min THEN end ELSE rc[c].min
  /\ rc'[c].max = IF end > rc[c].max THEN end ELSE rc[c].max
  /\ rc'[c].at = rc'[c].min
  /\ rc'[c].pc \in {"seal", "install"} \/ (rc'[c].pc = "fetch" /\ rc'[c].at < rc'[c].max)
  /\ \A d \in Clients : d # c => rc'[d] = rc[d]

(* seal: the end index the replica reports bounds all it acknowledged. *)
LEMMA SealKeeps ==
  ASSUME LogInv, NEW c \in Clients, NEW r \in Replicas, Seal(c, r)
  PROVE  /\ LogInv' /\ LogsGrow
         /\ rc[c].pc = "seal" /\ r \in rc[c].quorum
         /\ Entered(r, rc[c].ver, {}, 0)
         /\ SealsOne(c, r, nano'[r][rc[c].ver].queue.cur)
<1>0. PICK v, Q, todo, lo, max : /\ v = rc[c].ver /\ Q = rc[c].quorum /\ todo = rc[c].todo
                                 /\ lo = rc[c].min /\ max = rc[c].max
  OBVIOUS
<1>1. PICK l : l = GetNanoLog(r, v)
  OBVIOUS
<1>2. PICK res : res = SealNanoLog(l)
  OBVIOUS
<1> DEFINE min == IF res.end < lo THEN res.end ELSE lo
           hi  == IF res.end > max THEN res.end ELSE max
           pc  == IF todo = {r} THEN PhaseAt(min, hi) ELSE "seal"
           e   == [rc[c] EXCEPT !.todo = todo \ {r}, !.min = min, !.max = hi, !.at = min, !.pc = pc]
<1>3. /\ rc[c].pc = "seal" /\ r \in todo
      /\ nano' = [nano EXCEPT ![r][v] = res.log]
      /\ rc' = [rc EXCEPT ![c].todo = @ \ {r}, ![c].min = min, ![c].max = hi,
                          ![c].at = min, ![c].pc = pc]
      /\ UNCHANGED <<store, seqr, op, stage, vlog, fill, aborts, onTime>>
  BY <1>0, <1>1, <1>2 DEF Seal
<1>4. /\ rc[c] \in RcCalls /\ rc \in [Clients -> RcCalls] /\ v \in 1 .. Cur /\ v \in Versions
      /\ v < MaxVersion /\ Q \in Majorities /\ Q \in SUBSET Replicas /\ todo \subseteq Q
      /\ SealedBelow(Q \ todo, v, max)
      /\ Q # todo => store.configs[v].start <= max
      /\ lo \in Int /\ max \in 0 .. (MaxLogId + 1)
  <2>1. CallGood(c)
    BY DEF LogInv
  <2> QED
    BY <1>0, <1>3, <2>1, CallFacts DEF CallGood, RcCalls
<1>5. /\ GoodLog(l, store.configs[v].start) /\ store.configs[v].start \in Ends
      /\ (nano[r][v] # NoLog => l = nano[r][v])
  BY <1>1, <1>4, GetNanoLogIs
<1>6. /\ GoodLog(res.log, store.configs[v].start) /\ res.log.sealed = TRUE
      /\ res.log.logs = l.logs /\ res.log.queue = l.queue /\ res.end = l.queue.cur
  <2>1. PICK x : x = store.configs[v].start
    OBVIOUS
  <2>2. GoodLog(l, x)
    BY <1>5, <2>1
  <2>3. /\ GoodLog(res.log, x) /\ res.log.sealed = TRUE /\ res.log.logs = l.logs
        /\ res.log.queue = l.queue /\ res.end = l.queue.cur
    BY <1>2, <2>2, SealGood, Zenon
  <2> QED
    BY <2>1, <2>3
<1>7. /\ l.queue.cur \in Int /\ l.queue.cur >= 1 /\ l.queue.cur <= MaxLogId + 1
      /\ store.configs[v].start <= l.queue.cur
  BY <1>5, Constants DEF GoodLog, QueueOver
<1>8. nano[r][v] # NoLog => Grown(nano[r][v], res.log)
  BY <1>5, <1>6, <1>7 DEF Grown
<1>9. PICK k : k = res.log
  OBVIOUS
<1>10. PutsLog(r, v, k) /\ UNCHANGED store
  BY <1>3, <1>9 DEF PutsLog
<1>11. GoodLog(k, store.configs[v].start) /\ (nano[r][v] # NoLog => Grown(nano[r][v], k))
  BY <1>6, <1>8, <1>9
<1>12. LogsGood' /\ LogsGrow /\ nano'[r][v] = k
  BY <1>4, <1>10, <1>11, PutLog
<1>13. KeepsSealed
  BY <1>3, <1>12 DEF KeepsSealed, LogsGrow, Grown
<1>14. PICK lo2, hi2, pc2 : lo2 = min /\ hi2 = hi /\ pc2 = pc
  OBVIOUS
<1>15. /\ hi2 \in Ends /\ hi2 \in Int /\ hi2 >= max /\ hi2 >= l.queue.cur /\ lo2 \in Int
       /\ store.configs[v].start <= hi2 /\ hi2 \in 0 .. (MaxLogId + 1)
       /\ pc2 \in {"seal", "fetch", "install"} /\ (pc2 # "seal" => todo = {r})
  <2>1. PICK end, start : end = l.queue.cur /\ start = store.configs[v].start
    OBVIOUS
  <2>2. /\ res.end = end /\ end \in Int /\ end >= 1 /\ end <= MaxLogId + 1
        /\ start \in Int /\ start <= end
    BY <1>5, <1>6, <1>7, <2>1, Constants DEF Ends
  <2>3. max \in Int /\ max >= 0 /\ max <= MaxLogId + 1 /\ lo \in Int /\ MaxLogId \in Nat
    BY <1>4, Constants
  <2>4. hi2 = IF end > max THEN end ELSE max
    BY <1>14, <2>2
  <2>5. lo2 = IF end < lo THEN end ELSE lo
    BY <1>14, <2>2
  <2>6. hi2 \in Int /\ hi2 >= max /\ hi2 >= end /\ hi2 <= MaxLogId + 1 /\ start <= hi2
    BY <2>2, <2>3, <2>4
  <2>7. lo2 \in Int
    BY <2>2, <2>3, <2>5
  <2>8. pc2 \in {"seal", "fetch", "install"} /\ (pc2 # "seal" => todo = {r})
    BY <1>14 DEF PhaseAt
  <2> QED
    BY <2>1, <2>2, <2>3, <2>6, <2>7, <2>8 DEF Ends
<1> HIDE DEF min, hi, pc
<1> DEFINE w == [rc[c] EXCEPT !.todo = todo \ {r}, !.min = lo2, !.max = hi2, !.at = lo2, !.pc = pc2]
<1>16. /\ w \in RcCalls /\ w.ver = v /\ w.quorum = Q /\ w.todo = todo \ {r} /\ w.max = hi2
       /\ w.pc = pc2 /\ w.min = lo2 /\ w.at = lo2
  <2>1. todo \ {r} \in SUBSET Replicas /\ pc2 \in AfterSeals \union {"idle", "seal"}
    BY <1>4, <1>15 DEF AfterSeals
  <2> QED
    BY <1>0, <1>4, <1>15, <2>1 DEF RcCalls
<1>17. rc' = [rc EXCEPT ![c] = w]
  BY <1>0, <1>3, <1>4, <1>14
<1> HIDE DEF w
<1>18. rc' \in [Clients -> RcCalls] /\ rc'[c] = w /\ \A d \in Clients : d # c => rc'[d] = rc[d]
  BY <1>4, <1>16, <1>17
<1>19. SealedBelow(Q \ (todo \ {r}), v, hi2)'
  <2> SUFFICES ASSUME NEW x \in Q \ (todo \ {r})
               PROVE  /\ nano'[x][v] # NoLog /\ nano'[x][v].sealed
                      /\ \A a \in Appends : x \in onTime'[a].acked /\ op'[a].ver[x] = v =>
                           op'[a].logId < hi2
    BY DEF SealedBelow
  <2>1. CASE x = r
    <3>1. nano'[x][v] # NoLog /\ nano'[x][v].sealed
      BY <1>6, <1>9, <1>11, <1>12, <2>1, NoLogIs
    <3>2. ASSUME NEW a \in Appends, r \in onTime[a].acked, op[a].ver[r] = v
          PROVE  op[a].logId < hi2
      <4>1. op[a].logId < nano[r][v].queue.cur /\ nano[r][v] # NoLog
        BY <1>12, <3>2, AckedStaysBelow
      <4>2. op[a].logId < l.queue.cur
        BY <1>5, <4>1
      <4>3. op[a].logId \in Int
        <5>1. op[a] \in Ops
          BY DEF LogInv, Types
        <5> QED
          BY <5>1, Constants DEF Ops
      <4> QED
        BY <1>7, <1>15, <4>2, <4>3
    <3> QED
      BY <1>3, <2>1, <3>1, <3>2
  <2>2. CASE x # r
    <3>1. x \in Q \ todo /\ Q \ todo \in SUBSET Replicas
      BY <1>4, <2>2
    <3>2. SealedBelow(Q \ todo, v, max)'
      BY <1>4, <1>13, <3>1, SealedStays
    <3>3. /\ nano'[x][v] # NoLog /\ nano'[x][v].sealed
          /\ \A a \in Appends : x \in onTime'[a].acked /\ op'[a].ver[x] = v => op'[a].logId < max
      BY <3>1, <3>2 DEF SealedBelow
    <3>4. ASSUME NEW a \in Appends, op[a].logId < max
          PROVE  op[a].logId < hi2
      <4>1. op[a] \in Ops
        BY DEF LogInv, Types
      <4>2. op[a].logId \in Int /\ max \in Int
        BY <1>4, <4>1, Constants DEF Ops
      <4> QED
        BY <1>15, <3>4, <4>2
    <3> QED
      BY <1>3, <3>3, <3>4
  <2> QED
    BY <2>1, <2>2
<1>20. CallGood(c)'
  <2>1. SealedBelow(rc[c].quorum \ rc[c].todo, rc[c].ver, rc[c].max)'
    <3>1. rc'[c].quorum = Q /\ rc'[c].todo = todo \ {r} /\ rc'[c].ver = v /\ rc'[c].max = hi2
      BY <1>16, <1>18
    <3> QED
      BY <1>19, <3>1 DEF SealedBelow
  <2>2. Cur' = Cur
    BY <1>3 DEF Cur
  <2>3. /\ rc'[c].ver \in 1 .. Cur /\ rc'[c].ver < MaxVersion
        /\ rc'[c].quorum \in Majorities /\ rc'[c].todo \subseteq rc'[c].quorum
        /\ rc'[c].max \in Ends /\ store'.configs[rc'[c].ver].start <= rc'[c].max
        /\ rc'[c].pc \in AfterSeals => rc'[c].todo = {}
        /\ rc'[c].pc \notin Installed
    BY <1>3, <1>4, <1>15, <1>16, <1>18 DEF AfterSeals, Installed
  <2> QED
    BY <2>1, <2>2, <2>3 DEF CallGood, Majorities, QuorumSize
<1>21. \A d \in Clients : CallGood(d)'
  <2> SUFFICES ASSUME NEW d \in Clients, d # c PROVE CallGood(d)'
    BY <1>20
  <2>0. rc'[d] = rc[d]
    BY <1>18
  <2>1. CASE rc[d].pc = "idle"
    BY <2>0, <2>1 DEF CallGood
  <2>2. CASE rc[d].pc # "idle"
    <3>1. /\ rc[d].pc \in AfterSeals => rc[d].todo = {}
          /\ rc[d].pc \in Installed => rc[d].ver + 1 \in 1 .. Cur
      BY <2>2, CallFacts
    <3> QED
      BY <1>10, <1>13, <2>0, <2>2, <3>1, SameCall
  <2> QED
    BY <2>1, <2>2
<1>22. \A a \in Appends : OpGood(a)'
  <2> TAKE b \in Appends
  <2>0. OpGood(b)
    BY DEF LogInv
  <2>1. ASSUME NEW x \in Replicas
        PROVE  /\ stage[b][x] \in {"checked", "stored", "acked"} =>
                    op[b].ver[x] \in Versions /\ nano'[x][op[b].ver[x]] # NoLog
               /\ x \in onTime[b].acked =>
                    stage[b][x] = "acked" /\ op[b].logId < nano'[x][op[b].ver[x]].queue.cur
    <3>1. x \in onTime[b].acked => stage[b][x] = "acked"
            /\ op[b].logId < nano'[x][op[b].ver[x]].queue.cur
      BY <1>12, <2>0, AckedStaysBelow DEF OpGood
    <3>2. stage[b][x] \in {"checked", "stored", "acked"} =>
            op[b].ver[x] \in Versions /\ nano'[x][op[b].ver[x]] # NoLog
      BY <1>12, <2>0 DEF OpGood, LogsGrow
    <3> QED
      BY <3>1, <3>2
  <2> QED
    BY <1>3, <2>0, <2>1 DEF OpGood
<1>23. Types'
  BY <1>3, <1>18 DEF LogInv, Types
<1>24. \A m \in fill' : m.ver \in 1 .. Cur
  BY <1>3, SameRest
<1>25. LogInv'
  BY <1>10, <1>12, <1>13, <1>21, <1>22, <1>23, <1>24, SameStore
<1>26. Entered(r, v, {}, 0)
  <2>1. /\ nano'[r][v] = k /\ k # NoLog
        /\ \A x \in Replicas, u \in Versions : x # r \/ u # v => nano'[x][u] = nano[x][u]
    BY <1>4, <1>10, <1>11, PutLog, NoLogIs
  <2> QED
    BY <1>1, <1>6, <1>7, <1>9, <2>1 DEF Entered, LogIds
<1>27. SealsOne(c, r, l.queue.cur)
  <2>1. /\ lo2 = IF l.queue.cur < lo THEN l.queue.cur ELSE lo
        /\ hi2 = IF l.queue.cur > max THEN l.queue.cur ELSE max
        /\ pc2 \in {"seal", "install"} \/ (pc2 = "fetch" /\ lo2 < hi2)
    BY <1>6, <1>14 DEF min, hi, pc, PhaseAt
  <2> QED
    BY <1>0, <1>16, <1>18, <2>1 DEF SealsOne
<1>28. nano'[r][v].queue.cur = l.queue.cur
  BY <1>6, <1>9, <1>12
<1> QED
  BY <1>0, <1>3, <1>4, <1>12, <1>25, <1>26, <1>27, <1>28

-----------------------------------------------------------------------------
(* Installing a version *)

(* The store after version n + 1, which begins at x, was installed. *)
Installs(n, x) ==
  /\ StoreOf(store', n + 1, 1, MaxLogId) /\ Cur' = n + 1
  /\ store'.configs[n + 1].start = x /\ store'.configs[n + 1].seqr \in Sequencers
  /\ \A v \in 1 .. n : /\ store'.configs[v].start = store.configs[v].start
                       /\ store'.configs[v].seqr = store.configs[v].seqr
  /\ DOMAIN store'.byLogId = DOMAIN store.byLogId \union {x}

LEMMA InstallIs ==
  ASSUME LogInv, NEW c \in Clients, Install(c),
         NEW n, n = Cur, NEW x, x = rc[c].max, NEW Q, Q = rc[c].quorum
  PROVE  /\ rc[c].ver = n /\ n + 1 \in Versions /\ x \in Ends
         /\ Q \in Majorities /\ SealedBelow(Q, n, x) /\ Installs(n, x)
<1>0. PICK t, s : n = Cur /\ x = rc[c].max /\ t = rc[c].target /\ s = store
  OBVIOUS
<1>1. /\ rc[c].pc = "install" /\ MayAppendRange(store, SuccessorConfig(c))
      /\ store' = AppendRange(store, SuccessorConfig(c))
  BY DEF Install
<1>2. "install" \in AfterSeals /\ "install" # "idle"
  BY DEF AfterSeals
<1>3. /\ rc[c] \in RcCalls /\ rc[c].ver \in 1 .. Cur /\ rc[c].ver + 1 \in Versions
      /\ x \in Ends /\ store.configs[rc[c].ver].start <= x /\ rc[c].todo = {}
  BY <1>0, <1>1, <1>2, CallFacts
<1>4. n \in Nat /\ n >= 1 /\ DOMAIN s.configs = 1 .. n /\ StoreOf(s, n, 1, MaxLogId)
  BY <1>0, VersionFacts DEF LogInv, StoreGood
<1>5. PICK g : g = SuccessorConfig(c)
  OBVIOUS
<1>6. /\ DOMAIN g = ConfigFields /\ g.prev = rc[c].ver /\ g.ver = rc[c].ver + 1
      /\ g.start = x /\ g.end = EndOfLog /\ g.seqr = t
  BY <1>0, <1>5 DEF SuccessorConfig, ConfigFields
<1>7. g.prev = n
  <2>1. g.prev \in Int /\ g.ver = g.prev + 1
    BY <1>0, <1>3, <1>4, <1>6
  <2>2. MayAppendRange(s, g)
    BY <1>0, <1>1, <1>5
  <2> QED
    BY <1>4, <2>1, <2>2, MayAppendIs
<1>8. rc[c].ver = n /\ g.ver = n + 1
  BY <1>6, <1>7
<1>9. /\ g.start \in Int /\ g.end \in Int /\ g.end > MaxLogId
      /\ IF n = 0 THEN g.start = 1 ELSE g.start >= s.configs[n].start
  <2>1. s.configs[n].start <= x /\ s.configs[n].start \in Int /\ x \in Int
    BY <1>0, <1>3, <1>8, VersionFacts, Constants DEF Ends
  <2> QED
    BY <1>4, <1>6, <2>1, Constants
<1>10. PICK u : u = AppendRange(s, g)
  OBVIOUS
<1>11. /\ StoreOf(u, n + 1, 1, MaxLogId) /\ CurrentVersionId(u) = n + 1
       /\ u.configs[n + 1] = g
       /\ \A v \in 1 .. n : /\ u.configs[v].start = s.configs[v].start
                            /\ u.configs[v].seqr = s.configs[v].seqr
       /\ DOMAIN u.byLogId = DOMAIN s.byLogId \union {g.start}
  BY <1>4, <1>6, <1>7, <1>8, <1>9, <1>10, AppendRangeIs
<1>12. store' = u
  BY <1>0, <1>1, <1>5, <1>10
<1>13. t \in Sequencers
  BY <1>0, <1>3 DEF RcCalls
<1>14. StoreOf(store', n + 1, 1, MaxLogId) /\ Cur' = n + 1
  BY <1>11, <1>12 DEF Cur
<1>15. Installs(n, x)
  BY <1>0, <1>6, <1>11, <1>12, <1>13, <1>14 DEF Installs
<1>16. Q \in Majorities /\ SealedBelow(Q, n, x)
  <2>1. /\ rc[c].quorum \in Majorities
        /\ SealedBelow(rc[c].quorum \ rc[c].todo, rc[c].ver, rc[c].max)
    BY <1>1, <1>2 DEF LogInv, CallGood
  <2>2. rc[c].quorum \ rc[c].todo = rc[c].quorum
    BY <1>3
  <2> QED
    BY <1>0, <1>8, <2>1, <2>2
<1> QED
  BY <1>3, <1>8, <1>15, <1>16

LEMMA InstallKeeps ==
  ASSUME LogInv, NEW c \in Clients, Install(c)
  PROVE  LogInv'
<1>0. PICK n, x, Q : n = Cur /\ x = rc[c].max /\ Q = rc[c].quorum
  OBVIOUS
<1>1. /\ rc[c].pc = "install" /\ rc' = [rc EXCEPT ![c].pc = "setState"]
      /\ UNCHANGED <<seqr, nano, op, stage, vlog, fill, aborts, onTime>>
  BY DEF Install
<1>2. /\ rc[c].ver = n /\ n + 1 \in Versions /\ x \in Ends
      /\ Q \in Majorities /\ SealedBelow(Q, n, x) /\ Installs(n, x)
  BY <1>0, InstallIs
<1>3. /\ n \in Nat /\ n >= 1 /\ n + 1 <= MaxVersion /\ DOMAIN store.configs = 1 .. n
      /\ \A v \in 1 .. n : v \in Versions /\ store.configs[v].start \in Ends
                           /\ store.configs[v].seqr \in Sequencers
  BY <1>0, <1>2, VersionFacts, Constants DEF Versions
<1>4. /\ StoreOf(store', n + 1, 1, MaxLogId) /\ Cur' = n + 1
      /\ store'.configs[n + 1].start = x /\ store'.configs[n + 1].seqr \in Sequencers
      /\ \A v \in 1 .. n : /\ store'.configs[v].start = store.configs[v].start
                           /\ store'.configs[v].seqr = store.configs[v].seqr
      /\ DOMAIN store'.byLogId = DOMAIN store.byLogId \union {x}
  BY <1>2 DEF Installs
<1>5. \A v \in 1 .. (n + 1) : v \in 1 .. n \/ v = n + 1
  BY <1>3
<1>6. \A v \in 1 .. n : v \in 1 .. (n + 1)
  BY <1>3
<1>7. StoreGood'
  <2>1. DOMAIN store.byLogId \subseteq Ends
    BY DEF LogInv, StoreGood
  <2>2. \A v \in 1 .. (n + 1) : store'.configs[v].seqr \in Sequencers
    BY <1>3, <1>4, <1>5
  <2>3. DOMAIN store'.byLogId \subseteq Ends
    BY <1>2, <1>4, <2>1
  <2>4. StoreOf(store, Cur, 1, MaxLogId)'
    BY <1>4 DEF StoreOf
  <2> QED
    BY <1>2, <1>4, <2>2, <2>3, <2>4 DEF StoreGood, Ends, Versions
<1>8. LogsGood'
  <2> SUFFICES ASSUME NEW r \in Replicas, NEW v \in Versions, nano[r][v] # NoLog
               PROVE  v \in 1 .. (n + 1) /\ GoodLog(nano[r][v], store'.configs[v].start)
    <3>1. DOMAIN nano = Replicas /\ \A r \in Replicas : DOMAIN nano[r] = Versions
      BY DEF LogInv, LogsGood
    <3> QED
      BY <1>1, <1>4, <3>1 DEF LogsGood, GoodLog, QueueOver
  <2>1. v \in 1 .. n /\ GoodLog(nano[r][v], store.configs[v].start)
    BY <1>0, LogFacts
  <2> QED
    BY <1>4, <1>6, <2>1
<1>9. ASSUME NEW R, NEW v, NEW y, SealedBelow(R, v, y)
      PROVE  SealedBelow(R, v, y)'
  BY <1>1, <1>9 DEF SealedBelow
<1>10. EndsSealed'
  <2> SUFFICES ASSUME NEW v \in Versions, v + 1 \in 1 .. (n + 1)
               PROVE  \E R \in Majorities : SealedBelow(R, v, store.configs[v + 1].start)'
    BY <1>4 DEF EndsSealed, Majorities, QuorumSize
  <2>1. CASE v + 1 \in 1 .. n
    <3>1. PICK R \in Majorities : SealedBelow(R, v, store.configs[v + 1].start)
      BY <1>0, <2>1 DEF LogInv, EndsSealed
    <3>2. PICK y : y = store.configs[v + 1].start
      OBVIOUS
    <3>3. SealedBelow(R, v, y)'
      BY <1>9, <3>1, <3>2
    <3>4. store'.configs[v + 1].start = y
      BY <1>4, <2>1, <3>2
    <3> QED
      BY <3>3, <3>4 DEF SealedBelow
  <2>2. CASE v + 1 \notin 1 .. n
    <3>1. v = n
      BY <1>3, <1>5, <2>2 DEF Versions
    <3>2. SealedBelow(Q, v, x)'
      BY <1>2, <1>9, <3>1
    <3>3. store'.configs[v + 1].start = x
      BY <1>4, <3>1
    <3> QED
      BY <1>2, <3>2, <3>3 DEF SealedBelow
  <2> QED
    BY <2>1, <2>2
<1>11. \A a \in Appends : OpGood(a)'
  BY <1>1 DEF LogInv, OpGood
<1>12. ASSUME NEW d \in Clients
       PROVE  /\ rc'[d] \in RcCalls /\ CallGood(d)'
  <2>1. rc \in [Clients -> RcCalls] /\ CallGood(d)
    BY DEF LogInv, Types
  <2>2. /\ rc'[d] \in RcCalls /\ rc'[d].ver = rc[d].ver /\ rc'[d].quorum = rc[d].quorum
        /\ rc'[d].todo = rc[d].todo /\ rc'[d].max = rc[d].max
        /\ IF d = c THEN rc'[d].pc = "setState" ELSE rc'[d].pc = rc[d].pc
    <3>1. CASE d = c
      <4>1. rc'[d] = [rc[d] EXCEPT !.pc = "setState"] /\ rc[d] \in RcCalls
        BY <1>1, <2>1, <3>1
      <4> QED
        BY <3>1, <4>1 DEF RcCalls, AfterSeals, Installed
    <3>2. CASE d # c
      BY <1>1, <2>1, <3>2
    <3> QED
      BY <3>1, <3>2
  <2>3. CASE rc'[d].pc = "idle"
    BY <2>2, <2>3 DEF CallGood
  <2>4. CASE rc'[d].pc # "idle"
    <3>1. rc[d].pc # "idle"
      BY <1>1, <2>2, <2>4
    <3>2. /\ rc[d].ver \in 1 .. n /\ rc[d].ver < MaxVersion
          /\ rc[d].quorum \in Majorities /\ rc[d].todo \subseteq rc[d].quorum
          /\ SealedBelow(rc[d].quorum \ rc[d].todo, rc[d].ver, rc[d].max)
          /\ rc[d].quorum # rc[d].todo =>
               rc[d].max \in Ends /\ store.configs[rc[d].ver].start <= rc[d].max
          /\ rc[d].pc \in AfterSeals => rc[d].todo = {}
          /\ rc[d].pc \in Installed => rc[d].ver + 1 \in 1 .. n
      BY <1>0, <2>1, <3>1 DEF CallGood
    <3>3. SealedBelow(rc[d].quorum \ rc[d].todo, rc[d].ver, rc[d].max)'
      BY <1>1, <2>2, <3>2 DEF SealedBelow
    <3>4. rc'[d].pc \in AfterSeals => rc'[d].todo = {}
      <4>1. rc[c].todo = {}
        BY <1>1, CallFacts DEF AfterSeals
      <4> QED
        BY <2>2, <3>2, <4>1
    <3>5. rc'[d].pc \in Installed => rc'[d].ver + 1 \in 1 .. (n + 1)
      BY <1>2, <1>3, <1>6, <2>2, <3>2
    <3>6. rc'[d].ver \in 1 .. (n + 1) /\ store'.configs[rc[d].ver].start = store.configs[rc[d].ver].start
      BY <1>4, <1>6, <2>2, <3>2
    <3> QED
      BY <1>4, <2>2, <3>2, <3>3, <3>4, <3>5, <3>6 DEF CallGood, Majorities, QuorumSize
  <2> QED
    BY <2>2, <2>3, <2>4
<1>13. Types'
  <2>1. rc' \in [Clients -> RcCalls]
    <3>1. rc \in [Clients -> RcCalls]
      BY DEF LogInv, Types
    <3>2. rc' = [d \in Clients |-> rc'[d]]
      BY <1>1, <3>1
    <3> QED
      BY <1>12, <3>2
  <2> QED
    BY <1>1, <2>1 DEF LogInv, Types
<1>14. \A m \in fill' : m.ver \in 1 .. (n + 1)
  BY <1>0, <1>1, <1>6, SameRest
<1> QED
  BY <1>4, <1>7, <1>8, <1>10, <1>11, <1>12, <1>13, <1>14 DEF LogInv

-----------------------------------------------------------------------------
(* The invariant holds *)

LEMMA FirstStoreIs ==
  ASSUME Init
  PROVE  /\ StoreOf(store, 1, 1, MaxLogId) /\ Cur = 1 /\ store.configs[1] = FirstConfig
         /\ DOMAIN store.byLogId = {1}
<1>1. PICK s, n : s = EmptyStore /\ n = 0
  OBVIOUS
<1>2. StoreOf(s, n, 1, MaxLogId)
  BY <1>1, EmptyStoreIs
<1>3. PICK g, lo : g = FirstConfig /\ lo = 1
  OBVIOUS
<1>4. /\ DOMAIN g = ConfigFields /\ g.prev = n /\ g.ver = n + 1 /\ g.start = lo
      /\ g.start \in Int /\ g.end \in Int /\ g.end > MaxLogId
  BY <1>1, <1>3, Constants DEF FirstConfig, ConfigFields
<1>5. PICK t : t = AppendRange(s, g)
  OBVIOUS
<1>6. StoreOf(s, n, lo, MaxLogId)
  BY <1>2, <1>3
<1>7. IF n = 0 THEN g.start = lo ELSE g.start >= s.configs[n].start
  BY <1>1, <1>4
<1>8. /\ StoreOf(t, n + 1, lo, MaxLogId) /\ CurrentVersionId(t) = n + 1
      /\ t.configs[n + 1] = g
      /\ DOMAIN t.byLogId = DOMAIN s.byLogId \union {g.start}
  BY <1>4, <1>5, <1>6, <1>7, AppendRangeIs
<1>9. store = t /\ DOMAIN s.byLogId = {} /\ n + 1 = 1
  BY <1>1, <1>3, <1>5 DEF Init, EmptyStore
<1> QED
  BY <1>3, <1>4, <1>8, <1>9 DEF Cur

LEMMA LogInit == Init => LogInv
<1> SUFFICES ASSUME Init PROVE LogInv
  OBVIOUS
<1>1. /\ StoreOf(store, 1, 1, MaxLogId) /\ Cur = 1 /\ store.configs[1] = FirstConfig
      /\ DOMAIN store.byLogId = {1}
  BY FirstStoreIs
<1>2. /\ seqr = [s \in Sequencers |-> [num |-> 1, gci |-> 1, ver |-> 1]]
      /\ nano = [r \in Replicas |-> [v \in Versions |-> NoLog]]
      /\ op = [a \in Appends |-> [pc |-> "new", seqr |-> FirstSequencer,
                              logId |-> 0, ver |-> [r \in Replicas |-> 0],
                              gci |-> [r \in Replicas |-> 0]]]
      /\ stage = [a \in Appends |-> [r \in Replicas |-> "none"]]
      /\ vlog = [c \in Clients |-> [ver |-> 0, seqr |-> FirstSequencer]]
      /\ rc = [c \in Clients |-> IdleCall] /\ fill = {}
      /\ onTime = [a \in Appends |-> [stored |-> {}, acked |-> {}]]
  BY DEF Init
<1>3. 1 \in Ends /\ 1 \in Versions /\ 0 \in 0 .. MaxLogId /\ 0 \in 0 .. MaxVersion
      /\ 0 \in 0 .. (MaxLogId + 1) /\ FirstSequencer \in Sequencers
  BY Constants DEF Ends, Versions
<1>4. Types
  <2>1. seqr \in [Sequencers -> [num : Ends, gci : Ends, ver : Versions]]
    BY <1>2, <1>3
  <2>2. op \in [Appends -> Ops]
    BY <1>2, <1>3 DEF Ops, OpPcs
  <2>3. stage \in [Appends -> [Replicas -> Stages]]
    BY <1>2 DEF Stages
  <2>4. vlog \in [Clients -> [ver : 0 .. MaxVersion, seqr : Sequencers]]
    BY <1>2, <1>3
  <2>5. rc \in [Clients -> RcCalls]
    BY <1>2, IdleCallIs
  <2>6. onTime \in [Appends -> [stored : SUBSET Replicas, acked : SUBSET Replicas]]
    BY <1>2
  <2>7. fill \subseteq Fills
    BY <1>2
  <2> QED
    BY <2>1, <2>2, <2>3, <2>4, <2>5, <2>6, <2>7 DEF Types
<1>5. StoreGood
  <2>1. \A v \in 1 .. Cur : v = 1
    BY <1>1
  <2>2. FirstConfig.seqr = FirstSequencer
    BY DEF FirstConfig
  <2>3. StoreOf(store, Cur, 1, MaxLogId) /\ Cur \in Versions
    BY <1>1, <1>3
  <2>4. DOMAIN store.byLogId \subseteq Ends
    BY <1>1, <1>3
  <2>5. \A v \in 1 .. Cur : store.configs[v].seqr \in Sequencers
    BY <1>1, <1>3, <2>1, <2>2
  <2> QED
    BY <2>3, <2>4, <2>5 DEF StoreGood
<1>6. LogsGood
  BY <1>2 DEF LogsGood
<1>7. EndsSealed
  <2>1. \A v \in Versions : v + 1 \notin 1 .. Cur
    BY <1>1 DEF Versions
  <2> QED
    BY <2>1 DEF EndsSealed
<1>8. \A a \in Appends : OpGood(a)
  BY <1>2 DEF OpGood
<1>9. \A c \in Clients : CallGood(c)
  BY <1>2, IdleCallIs DEF CallGood
<1> QED
  BY <1>2, <1>4, <1>5, <1>6, <1>7, <1>8, <1>9 DEF LogInv

LEMMA SameLogs ==
  ASSUME LogInv, UNCHANGED nano
  PROVE  LogsGrow
BY LogFacts DEF LogsGrow

LEMMA LogStep == LogInv /\ [Next]_vars => LogInv' /\ LogsGrow
<1> SUFFICES ASSUME LogInv, [Next]_vars PROVE LogInv' /\ LogsGrow
  OBVIOUS
<1>1. ASSUME NEW c \in Clients, NEW a \in Appends, TakeLogId(c, a)
      PROVE  LogInv' /\ LogsGrow
  <2>1. UNCHANGED nano
    BY <1>1 DEF TakeLogId
  <2> QED
    BY <1>1, <2>1, TakeLogIdKeeps, SameLogs
<1>2. ASSUME NEW a \in Appends, NEW r \in Replicas, SendAppend(a, r)
      PROVE  LogInv' /\ LogsGrow
  <2>1. UNCHANGED nano
    BY <1>2 DEF SendAppend
  <2> QED
    BY <1>2, <2>1, SendAppendKeeps, SameLogs
<1>3. ASSUME NEW a \in Appends, NEW r \in Replicas, CheckSealed(a, r)
      PROVE  LogInv' /\ LogsGrow
  BY <1>3, CheckSealedKeeps
<1>4. ASSUME NEW a \in Appends, NEW r \in Replicas, RefuseOccupied(a, r)
      PROVE  LogInv' /\ LogsGrow
  <2>1. UNCHANGED nano
    BY <1>4 DEF RefuseOccupied
  <2> QED
    BY <1>4, <2>1, RefuseOccupiedKeeps, SameLogs
<1>5. ASSUME NEW a \in Appends, NEW r \in Replicas, StoreEntry(a, r)
      PROVE  LogInv' /\ LogsGrow
  BY <1>5, StoreEntryKeeps
<1>6. ASSUME NEW a \in Appends, CommitAppend(a) \/ FailAppend(a)
      PROVE  LogInv' /\ LogsGrow
  <2>1. UNCHANGED nano
    BY <1>6 DEF CommitAppend, FailAppend
  <2> QED
    BY <1>6, <2>1, EndAppendKeeps, SameLogs
<1>7. ASSUME NEW c \in Clients, NEW s \in Sequencers, NEW Q \in SUBSET Replicas,
             BeginReconfigure(c, s, Q)
      PROVE  LogInv' /\ LogsGrow
  <2>1. UNCHANGED nano
    BY <1>7 DEF BeginReconfigure
  <2> QED
    BY <1>7, <2>1, BeginReconfigureKeeps, SameLogs
<1>8. ASSUME NEW c \in Clients, NEW r \in Replicas, Seal(c, r)
      PROVE  LogInv' /\ LogsGrow
  BY <1>8, SealKeeps
<1>9. ASSUME NEW c \in Clients, NEW r \in Replicas, FetchEntry(c, r)
      PROVE  LogInv' /\ LogsGrow
  <2>1. UNCHANGED nano
    BY <1>9 DEF FetchEntry
  <2> QED
    BY <1>9, <2>1, FetchEntryKeeps, SameLogs
<1>10. ASSUME NEW m \in fill, FillOccupied(m)
       PROVE  LogInv' /\ LogsGrow
  <2>1. UNCHANGED nano
    BY <1>10 DEF FillOccupied
  <2> QED
    BY <1>10, <2>1, FillOccupiedKeeps, SameLogs
<1>11. ASSUME NEW m \in fill, FillHole(m)
       PROVE  LogInv' /\ LogsGrow
  BY <1>11, FillHoleKeeps
<1>12. ASSUME NEW c \in Clients, NextEntry(c)
       PROVE  LogInv' /\ LogsGrow
  <2>1. UNCHANGED nano
    BY <1>12 DEF NextEntry
  <2> QED
    BY <1>12, <2>1, NextEntryKeeps, SameLogs
<1>13. ASSUME NEW c \in Clients, Install(c)
       PROVE  LogInv' /\ LogsGrow
  <2>1. UNCHANGED nano
    BY <1>13 DEF Install
  <2> QED
    BY <1>13, <2>1, InstallKeeps, SameLogs
<1>14. ASSUME NEW c \in Clients, LoseRace(c)
       PROVE  LogInv' /\ LogsGrow
  <2>1. UNCHANGED nano
    BY <1>14 DEF LoseRace
  <2> QED
    BY <1>14, <2>1, LoseRaceKeeps, SameLogs
<1>15. ASSUME NEW c \in Clients, AdoptWinner(c)
       PROVE  LogInv' /\ LogsGrow
  <2>1. UNCHANGED nano
    BY <1>15 DEF AdoptWinner
  <2> QED
    BY <1>15, <2>1, AdoptWinnerKeeps, SameLogs
<1>16. ASSUME NEW c \in Clients, SetState(c)
       PROVE  LogInv' /\ LogsGrow
  <2>1. UNCHANGED nano
    BY <1>16 DEF SetState
  <2> QED
    BY <1>16, <2>1, SetStateKeeps, SameLogs
<1>17. ASSUME NEW c \in Clients, StartNum(c) \/ StartGci(c)
       PROVE  LogInv' /\ LogsGrow
  <2>1. UNCHANGED nano
    BY <1>17 DEF StartNum, StartGci
  <2> QED
    BY <1>17, <2>1, StartKeeps, SameLogs
<1>18. ASSUME NEW c \in Clients, StartVer(c)
       PROVE  LogInv' /\ LogsGrow
  <2>1. UNCHANGED nano
    BY <1>18 DEF StartVer
  <2> QED
    BY <1>18, <2>1, StartVerKeeps, SameLogs
<1>19. ASSUME NEW c \in Clients, AbortReconfigure(c)
       PROVE  LogInv' /\ LogsGrow
  <2>1. UNCHANGED nano
    BY <1>19 DEF AbortReconfigure
  <2> QED
    BY <1>19, <2>1, AbortKeeps, SameLogs
<1>20. ASSUME NEW c \in Clients, Refresh(c)
       PROVE  LogInv' /\ LogsGrow
  <2>1. UNCHANGED nano
    BY <1>20 DEF Refresh
  <2> QED
    BY <1>20, <2>1, RefreshKeeps, SameLogs
<1>21. ASSUME UNCHANGED vars
       PROVE  LogInv' /\ LogsGrow
  <2>1. UNCHANGED <<store, seqr, nano, op, stage, vlog, rc, aborts, fill, onTime>>
    BY <1>21 DEF vars
  <2>2. LogInv'
    <3>1. \A c \in Clients : CallGood(c)'
      BY <2>1 DEF LogInv, CallGood, SealedBelow, Cur
    <3>2. Types' /\ \A m \in fill' : m.ver \in 1 .. Cur
      BY <2>1 DEF LogInv, Types
    <3>3. UNCHANGED <<store, nano, op, stage, onTime>>
      BY <2>1
    <3> QED
      BY <3>1, <3>2, <3>3, ReconfigureSide
  <2> QED
    BY <2>1, <2>2, SameLogs
<1> QED
  BY <1>1, <1>2, <1>3, <1>4, <1>5, <1>6, <1>7, <1>8, <1>9, <1>10, <1>11, <1>12, <1>13,
     <1>14, <1>15, <1>16, <1>17, <1>18, <1>19, <1>20, <1>21 DEF Next

LEMMA LogInvHolds == Spec => []LogInv
<1>1. Init => LogInv
  BY LogInit
<1>2. LogInv /\ [Next]_vars => LogInv'
  BY LogStep
<1> QED
  BY <1>1, <1>2, PTL DEF Spec

-----------------------------------------------------------------------------
(* The theorems *)

(***************************************************************************)
(* Whatever appends, reconfigurations, late requests and failed calls      *)
(* interleave, no version stores, queues or announces a log id beyond the  *)
(* ones a sequencer handed out, and no version beyond the installed ones   *)
(* is used: the commit indices that replicas skip to and the end indices   *)
(* that sealing reports never leave the log.                               *)
(***************************************************************************)
THEOREM LogStaysInBounds == Spec => []TypeOK
<1>1. LogInv => TypeOK
  <2> SUFFICES ASSUME LogInv PROVE TypeOK
    OBVIOUS
  <2>1. /\ DOMAIN store.configs \subseteq Versions
        /\ DOMAIN store.byLogId \subseteq 1 .. (MaxLogId + 1)
    BY VersionFacts DEF LogInv, StoreGood, Ends
  <2>2. Ends = LogIds \union {MaxLogId + 1}
    BY Constants DEF Ends, LogIds
  <2>3. ASSUME NEW r \in Replicas, NEW v \in Versions, nano[r][v] # NoLog
        PROVE  /\ nano[r][v].sealed \in BOOLEAN
               /\ DOMAIN nano[r][v].logs \subseteq LogIds
               /\ \A n \in DOMAIN nano[r][v].logs : nano[r][v].logs[n] \in Appends
               /\ nano[r][v].queue.cur \in 1 .. (MaxLogId + 1)
               /\ nano[r][v].queue.pend \subseteq DOMAIN nano[r][v].logs
    <3>1. GoodLog(nano[r][v], store.configs[v].start) /\ nano[r][v].queue.cur \in Ends
      BY <2>3, LogFacts
    <3>2. nano[r][v].sealed \in BOOLEAN
      BY <3>1, Zenon DEF GoodLog
    <3> QED
      BY <3>1, <3>2 DEF GoodLog, Ends
  <2>4. \A c \in Clients : rc[c].ver \in 0 .. MaxVersion /\ rc[c].oks \subseteq Replicas
    BY CallFacts DEF RcCalls
  <2>5. Types
    BY DEF LogInv
  <2>6. seqr \in [Sequencers -> [num : 1 .. (MaxLogId + 1),
                                 gci : LogIds \union {MaxLogId + 1}, ver : Versions]]
    <3>1. seqr \in [Sequencers -> [num : Ends, gci : Ends, ver : Versions]]
      BY <2>5 DEF Types
    <3>2. Ends = 1 .. (MaxLogId + 1)
      BY DEF Ends
    <3> QED
      BY <2>2, <3>1, <3>2
  <2>7. op \in [Appends -> [pc : {"new", "numbered", "sent", "acked", "failed"},
                            seqr : Sequencers, logId : 0 .. MaxLogId,
                            ver : [Replicas -> 0 .. MaxVersion],
                            gci : [Replicas -> 0 .. (MaxLogId + 1)]]]
    BY <2>5 DEF Types, Ops, OpPcs
  <2> QED
    BY <2>1, <2>3, <2>4, <2>5, <2>6, <2>7 DEF TypeOK, Types
<1> QED
  BY <1>1, LogInvHolds, PTL

(***************************************************************************)
(* No step of append, seal, re-replication or reconfigure, on time or      *)
(* late, replaces an entry a replica holds or unseals a version.           *)
(***************************************************************************)
THEOREM EntriesNeverReplaced == Spec => StoredEntriesFixed
<1> DEFINE Fixed == \A r \in Replicas, v \in Versions : nano[r][v] # NoLog =>
                      /\ nano[r][v].sealed => nano'[r][v].sealed
                      /\ \A n \in DOMAIN nano[r][v].logs :
                           /\ n \in DOMAIN nano'[r][v].logs
                           /\ nano'[r][v].logs[n] = nano[r][v].logs[n]
<1>1. LogInv /\ [Next]_vars => [Fixed]_nano
  <2>1. LogInv /\ [Next]_vars => LogsGrow
    BY LogStep
  <2>2. LogsGrow => Fixed
    BY DEF LogsGrow, Grown
  <2> HIDE DEF Fixed
  <2> QED
    BY <2>1, <2>2
<1>2. StoredEntriesFixed <=> [][Fixed]_nano
  BY DEF StoredEntriesFixed
<1> HIDE DEF Fixed
<1> QED
  BY <1>1, <1>2, LogInvHolds, PTL DEF Spec

(***************************************************************************)
(* The segments that reconfigurations install follow each other without    *)
(* gap or overlap, empty ones included, and the lookup by log id finds the *)
(* version that owns a log id although it works on copies whose end index  *)
(* is never updated.                                                       *)
(***************************************************************************)
THEOREM SegmentsStayContiguous == Spec => []SegmentsContiguous
<1>1. LogInv => SegmentsContiguous
  <2> SUFFICES ASSUME LogInv PROVE SegmentsContiguous
    OBVIOUS
  <2>0. PICK s, n : s = store /\ n = Cur
    OBVIOUS
  <2>1. StoreOf(s, n, 1, MaxLogId) /\ n >= 1
    BY <2>0, VersionFacts DEF LogInv, StoreGood
  <2>2. /\ DOMAIN s.configs = 1 .. n /\ n \in Nat
        /\ \A v \in 1 .. n : v # 1 => s.configs[v - 1].end = s.configs[v].start
        /\ \A v, w \in 1 .. n : v <= w => s.configs[v].start <= s.configs[w].start
    BY <2>1 DEF StoreOf
  <2>3. \A v \in DOMAIN s.configs \ {1} : /\ s.configs[v - 1].end = s.configs[v].start
                                          /\ s.configs[v - 1].start <= s.configs[v].start
    <3> TAKE v \in DOMAIN s.configs \ {1}
    <3>1. v \in 1 .. n /\ v # 1 /\ v - 1 \in 1 .. n /\ v - 1 <= v
      BY <2>2
    <3> QED
      BY <2>2, <3>1
  <2>4. \A i \in LogIds : {cfg.ver : cfg \in ConfigsUsingLogId(s, i)} =
                            {Largest({v \in DOMAIN s.configs : s.configs[v].start <= i})}
    <3> TAKE i \in LogIds
    <3>1. i \in 1 .. MaxLogId /\ MaxLogId \in Int /\ 1 \in Int
      BY Constants DEF LogIds
    <3> QED
      BY <2>1, <3>1, LookupIs
  <2> QED
    BY <2>0, <2>3, <2>4 DEF SegmentsContiguous
<1> QED
  BY <1>1, LogInvHolds, PTL

(***************************************************************************)
(* What sealing promises appends: one that a majority acknowledged before  *)
(* being sealed lies below the start of the next version, for any number   *)
(* of concurrent reconfigurations, of which some fail half way.            *)
(***************************************************************************)
THEOREM SealKeepsAcked == Spec => []AckedBeforeSealKept
<1>1. LogInv => AckedBeforeSealKept
  <2> SUFFICES ASSUME LogInv, NEW a \in Appends, NEW v \in Versions,
                      Cardinality({r \in onTime[a].acked : op[a].ver[r] = v}) >= QuorumSize,
                      HasConfig(v + 1)
               PROVE  op[a].logId < store.configs[v + 1].start
    BY DEF AckedBeforeSealKept
  <2> DEFINE P == {r \in onTime[a].acked : op[a].ver[r] = v}
  <2>1. v + 1 \in 1 .. Cur
    BY VersionFacts DEF HasConfig
  <2>2. PICK Q \in Majorities : SealedBelow(Q, v, store.configs[v + 1].start)
    BY <2>1 DEF LogInv, EndsSealed
  <2>3. P \subseteq Replicas
    <3>1. onTime[a].acked \in SUBSET Replicas
      BY DEF LogInv, Types
    <3> QED
      BY <3>1
  <2>4. Q \subseteq Replicas /\ Cardinality(Q) >= QuorumSize /\ Cardinality(P) >= QuorumSize
    BY QuorumSizeIs DEF Majorities
  <2> HIDE DEF P
  <2>6. PICK r \in P : r \in Q
    BY <2>3, <2>4, QuorumsMeet
  <2>7. r \in Q /\ r \in onTime[a].acked /\ op[a].ver[r] = v
    BY <2>6 DEF P
  <2> QED
    BY <2>2, <2>7 DEF SealedBelow
<1> QED
  BY <1>1, LogInvHolds, PTL
-----------------------------------------------------------------------------
(* One call at a time through one sequencer *)

(* The calls of append and reconfigure follow each other, and every version
   uses the same sequencer.  Their requests may still be handled late. *)
OneAtATime == Overlap = FALSE /\ Sequencers = {FirstSequencer}

Sequencer == seqr[FirstSequencer]
Start(v)  == store.configs[v].start

Busy(a) == op[a].pc \in {"numbered", "sent"}
Sent(a) == op[a].pc \in {"sent", "acked", "failed"}

(* Every request of append a goes to version v. *)
InVersion(a, v) == Sent(a) /\ \A r \in Replicas : op[a].ver[r] = v

Turns ==
  /\ \A a, b \in Appends : Busy(a) /\ Busy(b) => a = b
  /\ \A c, d \in Clients : rc[c].pc # "idle" /\ rc[d].pc # "idle" => c = d
  /\ \A a \in Appends, c \in Clients : Busy(a) => rc[c].pc = "idle"

(* An append that has its log id while its requests are prepared. *)
NumberedGood(a) ==
  op[a].pc = "numbered" =>
    /\ \A r \in Replicas : stage[a][r] \in {"none", "sent"}
    /\ \A r \in Replicas : stage[a][r] = "sent" => op[a].ver[r] = Sequencer.ver
    /\ Start(Sequencer.ver) <= op[a].logId /\ op[a].logId < Sequencer.num
    /\ \A b \in Appends : InVersion(b, Sequencer.ver) => op[b].logId < op[a].logId

SentGood(a) ==
  /\ Sent(a) => \E v \in 1 .. Sequencer.ver : InVersion(a, v) /\ Start(v) <= op[a].logId
  /\ op[a].pc = "sent" => InVersion(a, Sequencer.ver)

(* A running reconfigure call and the sequencer it restarts. *)
RestartGood(c) ==
  /\ rc[c].pc \notin Installed \union {"idle"} => rc[c].ver = Cur
  /\ rc[c].pc \in Installed =>
       Cur = rc[c].ver + 1 /\ Sequencer.ver <= rc[c].ver /\ rc[c].max = Start(Cur)
  /\ rc[c].pc \in {"startGci", "startVer"} => Sequencer.num = rc[c].max
  /\ rc[c].pc = "startVer" => Sequencer.gci = rc[c].max

(* Unless it is being restarted, the sequencer's next log id is free in its
   version. *)
NextIdFree ==
  \/ \E c \in Clients : rc[c].pc \in {"startGci", "startVer"}
  \/ /\ Start(Sequencer.ver) <= Sequencer.num
     /\ \A a \in Appends : InVersion(a, Sequencer.ver) => op[a].logId < Sequencer.num

IdsUnique ==
  \A a, b \in Appends, v \in Versions :
    InVersion(a, v) /\ InVersion(b, v) /\ op[a].logId = op[b].logId => a = b

Numbering ==
  /\ Sequencer.ver \in 1 .. Cur
  /\ \A a \in Appends : NumberedGood(a) /\ SentGood(a)
  /\ \A c \in Clients : RestartGood(c)
  /\ NextIdFree /\ IdsUnique

(* Append a is what belongs at log id n of version v. *)
Placed(a, v, n) == InVersion(a, v) /\ op[a].logId = n

HasEntry(r, v, n) == nano[r][v] # NoLog /\ n \in DOMAIN nano[r][v].logs

(* What replicas hold, and what re-replication offers, is in its place. *)
Placement ==
  /\ \A r \in Replicas, v \in Versions, n \in LogIds :
       HasEntry(r, v, n) => Placed(nano[r][v].logs[n], v, n)
  /\ \A m \in fill : Placed(m.val, m.ver, m.logId)
  /\ \A a \in Appends, r \in Replicas : stage[a][r] \in {"stored", "acked"} =>
       /\ HasEntry(r, op[a].ver[r], op[a].logId)
       /\ nano[r][op[a].ver[r]].logs[op[a].logId] = a

Quorums == {Q \in SUBSET Replicas : Cardinality(Q) >= QuorumSize}

OnQuorum(v, n) == \E Q \in Quorums : \A r \in Q : HasEntry(r, v, n)

(* Below a commit index of version v everything is on a quorum. *)
CommitsOn(v, g) ==
  \A n \in LogIds : Start(v) <= n /\ n < g => OnQuorum(v, n)

(* What a replica has passed it holds itself, or a quorum holds it. *)
PassedHeld ==
  \A r \in Replicas, v \in Versions, n \in LogIds :
    nano[r][v] # NoLog /\ Start(v) <= n /\ n < nano[r][v].queue.cur =>
      HasEntry(r, v, n) \/ OnQuorum(v, n)

AckedPassed ==
  \A a \in Appends, r \in Replicas : stage[a][r] = "acked" =>
    op[a].logId < nano[r][op[a].ver[r]].queue.cur

(* The commit indices of requests and of the sequencer can be skipped to. *)
RequestsCommit ==
  \A a \in Appends, r \in Replicas : stage[a][r] # "none" =>
    CommitsOn(op[a].ver[r], op[a].gci[r])

SequencerCommits ==
  (\A c \in Clients : rc[c].pc # "startVer") => CommitsOn(Sequencer.ver, Sequencer.gci)

Passed == PassedHeld /\ AckedPassed /\ RequestsCommit /\ SequencerCommits

(* The end index of a running reconfigure call was reported by a replica of
   its majority; the log ids it copies lie in its version, below that. *)
Reported(c) ==
  \E r \in rc[c].quorum : /\ nano[r][rc[c].ver] # NoLog
                          /\ rc[c].max <= nano[r][rc[c].ver].queue.cur

RecoveryGood(c) ==
  rc[c].pc # "idle" =>
    /\ Start(rc[c].ver) <= rc[c].min
    /\ rc[c].pc \in {"fetch", "await"} => Start(rc[c].ver) <= rc[c].at
    /\ rc[c].pc = "fetch" => rc[c].at < rc[c].max
    /\ IF rc[c].quorum = rc[c].todo THEN rc[c].max = 0 ELSE Reported(c)

Recovery == \A c \in Clients : RecoveryGood(c)

(* While an append waits, its replicas are not sealed, so each of their
   answers is on time; an append that returned has a quorum of those. *)
Underway == {"checked", "stored", "acked"}

WaitsOnTime(a) ==
  \A r \in Replicas :
    /\ stage[a][r] \in Underway => ~nano[r][op[a].ver[r]].sealed
    /\ stage[a][r] = "acked" => r \in onTime[a].acked

HasOnTime(a) == \E Q \in Quorums : Q \subseteq onTime[a].acked

OnTime ==
  \A a \in Appends : /\ op[a].pc = "sent" => WaitsOnTime(a)
                     /\ op[a].pc = "acked" => HasOnTime(a)

SeqInv == Turns /\ Numbering /\ Placement /\ Passed /\ Recovery /\ OnTime

-----------------------------------------------------------------------------
(* What the steps do, field by field *)

LEMMA OneSequencer ==
  ASSUME OneAtATime, LogInv
  PROVE  /\ Sequencer.num \in Ends /\ Sequencer.gci \in Ends /\ Sequencer.ver \in Versions
         /\ Sequencer.num \in Int /\ Sequencer.gci \in Int /\ Sequencer.ver \in Int
         /\ seqr = [s \in {FirstSequencer} |-> Sequencer]
         /\ DOMAIN Sequencer = {"num", "gci", "ver"}
         /\ \A c \in Clients : vlog[c].seqr = FirstSequencer
         /\ \A a \in Appends : op[a].seqr = FirstSequencer
<1>1. Sequencers = {FirstSequencer} /\ Types
  BY DEF OneAtATime, LogInv
<1>2. seqr \in [{FirstSequencer} -> [num : Ends, gci : Ends, ver : Versions]]
  BY <1>1 DEF Types
<1>3. \A c \in Clients : vlog[c].seqr \in Sequencers
  BY <1>1 DEF Types
<1>4. \A a \in Appends : op[a].seqr \in Sequencers
  BY <1>1 DEF Types, Ops
<1>5. /\ Sequencer.num \in Ends /\ Sequencer.gci \in Ends /\ Sequencer.ver \in Versions
      /\ DOMAIN Sequencer = {"num", "gci", "ver"}
      /\ seqr = [s \in {FirstSequencer} |-> Sequencer]
  BY <1>2 DEF Sequencer
<1> QED
  BY <1>1, <1>3, <1>4, <1>5, Constants DEF Ends, Versions

LEMMA OpTypes ==
  ASSUME LogInv, NEW a \in Appends
  PROVE  /\ op \in [Appends -> Ops] /\ op[a] \in Ops /\ op[a].logId \in Int
         /\ stage \in [Appends -> [Replicas -> Stages]]
         /\ Sent(a) => op[a].logId \in LogIds
<1>1. op \in [Appends -> Ops] /\ stage \in [Appends -> [Replicas -> Stages]] /\ OpGood(a)
  BY DEF LogInv, Types
<1>2. op[a].logId \in 0 .. MaxLogId
  BY <1>1 DEF Ops
<1> QED
  BY <1>1, <1>2, Constants DEF Sent, OpGood

(* SequencerImpl hands out a log id. *)
TookId(a) ==
  /\ \A b \in Appends : ~Busy(b)
  /\ \A c \in Clients : rc[c].pc = "idle"
  /\ op[a].pc = "new" /\ op'[a].pc = "numbered" /\ op'[a].logId = Sequencer.num
  /\ \A b \in Appends : b # a => op'[b] = op[b]
  /\ seqr'[FirstSequencer].num = Sequencer.num + 1
  /\ seqr'[FirstSequencer].gci = Sequencer.gci /\ seqr'[FirstSequencer].ver = Sequencer.ver
  /\ UNCHANGED <<store, nano, stage, rc, fill, onTime>>

LEMMA TakeLogIdIs ==
  ASSUME OneAtATime, LogInv, NEW c \in Clients, NEW a \in Appends, TakeLogId(c, a)
  PROVE  TookId(a)
<1>1. vlog[c].seqr = FirstSequencer
  BY OneSequencer
<1>2. /\ op[a].pc = "new" /\ ~Reconfiguring /\ ~Appending
      /\ op' = [op EXCEPT ![a].pc = "numbered", ![a].seqr = FirstSequencer,
                          ![a].logId = Sequencer.num]
      /\ seqr' = [seqr EXCEPT ![FirstSequencer].num = Sequencer.num + 1]
      /\ UNCHANGED <<store, nano, stage, rc, fill, onTime>>
  BY <1>1 DEF TakeLogId, OneAtATime, Sequencer
<1>3. /\ op'[a].pc = "numbered" /\ op'[a].logId = Sequencer.num
      /\ \A b \in Appends : b # a => op'[b] = op[b]
  BY <1>2, OpTypes DEF Ops
<1>4. /\ seqr'[FirstSequencer].num = Sequencer.num + 1
      /\ seqr'[FirstSequencer].gci = Sequencer.gci /\ seqr'[FirstSequencer].ver = Sequencer.ver
  <2>1. seqr' = [seqr EXCEPT ![FirstSequencer] = [Sequencer EXCEPT !.num = Sequencer.num + 1]]
    BY <1>2 DEF Sequencer
  <2>2. seqr'[FirstSequencer] = [Sequencer EXCEPT !.num = Sequencer.num + 1]
    BY <2>1, OneSequencer
  <2> QED
    BY <2>2, OneSequencer
<1> QED
  BY <1>2, <1>3, <1>4 DEF TookId, Reconfiguring, Appending, Busy

(* The request to replica r is prepared. *)
SentTo(a, r) ==
  /\ op[a].pc = "numbered" /\ stage[a][r] = "none" /\ op'[a].logId = op[a].logId
  /\ op'[a].pc = "numbered" \/ (op'[a].pc = "sent" /\ \A x \in Replicas \ {r} : stage[a][x] = "sent")
  /\ op'[a].ver[r] = Sequencer.ver /\ op'[a].gci[r] = Sequencer.gci
  /\ \A x \in Replicas : x # r => op'[a].ver[x] = op[a].ver[x] /\ op'[a].gci[x] = op[a].gci[x]
  /\ \A b \in Appends : b # a => op'[b] = op[b]
  /\ stage'[a][r] = "sent"
  /\ \A b \in Appends, x \in Replicas : b # a \/ x # r => stage'[b][x] = stage[b][x]
  /\ UNCHANGED <<store, seqr, nano, rc, fill, onTime>>

LEMMA SendAppendIs ==
  ASSUME OneAtATime, LogInv, NEW a \in Appends, NEW r \in Replicas, SendAppend(a, r)
  PROVE  SentTo(a, r)
<1> DEFINE pc == IF \A x \in Replicas \ {r} : stage[a][x] = "sent" THEN "sent" ELSE "numbered"
<1>1. op[a].seqr = FirstSequencer
  BY OneSequencer
<1>2. /\ op[a].pc = "numbered" /\ stage[a][r] = "none"
      /\ op' = [op EXCEPT ![a].gci[r] = Sequencer.gci, ![a].ver[r] = Sequencer.ver, ![a].pc = pc]
      /\ stage' = [stage EXCEPT ![a][r] = "sent"]
      /\ UNCHANGED <<store, seqr, nano, rc, fill, onTime>>
  BY <1>1 DEF SendAppend, Sequencer
<1>3. pc = "numbered" \/ (pc = "sent" /\ \A x \in Replicas \ {r} : stage[a][x] = "sent")
  OBVIOUS
<1> HIDE DEF pc
<1>4. /\ op \in [Appends -> Ops] /\ op[a] \in Ops /\ stage \in [Appends -> [Replicas -> Stages]]
      /\ op[a].ver \in [Replicas -> 0 .. MaxVersion]
      /\ op[a].gci \in [Replicas -> 0 .. (MaxLogId + 1)]
  BY OpTypes DEF Ops
<1>5. /\ op'[a].pc = pc /\ op'[a].logId = op[a].logId
      /\ op'[a].ver = [op[a].ver EXCEPT ![r] = Sequencer.ver]
      /\ op'[a].gci = [op[a].gci EXCEPT ![r] = Sequencer.gci]
      /\ \A b \in Appends : b # a => op'[b] = op[b]
  BY <1>2, <1>4 DEF Ops
<1>6. /\ op'[a].ver[r] = Sequencer.ver /\ op'[a].gci[r] = Sequencer.gci
      /\ \A x \in Replicas : x # r => op'[a].ver[x] = op[a].ver[x] /\ op'[a].gci[x] = op[a].gci[x]
  BY <1>4, <1>5
<1>7. /\ stage'[a][r] = "sent"
      /\ \A b \in Appends, x \in Replicas : b # a \/ x # r => stage'[b][x] = stage[b][x]
  BY <1>2, <1>4
<1> QED
  BY <1>2, <1>3, <1>5, <1>6, <1>7 DEF SentTo

(* An append returns or throws. *)
Ended(a) ==
  /\ op[a].pc = "sent" /\ op'[a].pc \in {"acked", "failed"} /\ op'[a].logId = op[a].logId
  /\ op'[a].ver = op[a].ver /\ op'[a].gci = op[a].gci
  /\ \A b \in Appends : b # a => op'[b] = op[b]
  /\ \A b \in Appends, r \in Replicas :
       \/ stage'[b][r] = stage[b][r]
       \/ stage'[b][r] = "refused" /\ stage[b][r] \in {"sent", "checked"}
  /\ op'[a].pc = "acked" => Cardinality({r \in Replicas : stage[a][r] = "acked"}) >= QuorumSize
  /\ seqr'[FirstSequencer].num = Sequencer.num /\ seqr'[FirstSequencer].ver = Sequencer.ver
  /\ \/ seqr'[FirstSequencer].gci = Sequencer.gci
     \/ op'[a].pc = "acked" /\ seqr'[FirstSequencer].gci = op[a].logId
  /\ UNCHANGED <<store, nano, rc, fill, onTime>>

LEMMA EndAppendIs ==
  ASSUME OneAtATime, LogInv, NEW a \in Appends, CommitAppend(a) \/ FailAppend(a)
  PROVE  Ended(a)
<1>0. op[a].seqr = FirstSequencer
  BY OneSequencer
<1>1. op[a].pc = "sent" /\ LeaveRequests(a) /\ UNCHANGED <<store, nano, rc, fill, onTime>>
  BY DEF CommitAppend, FailAppend
<1>2. PICK late \in SUBSET Unhandled(a) :
        stage' = [stage EXCEPT ![a] = [r \in Replicas |->
                    IF r \in Unhandled(a) \ late THEN "refused" ELSE stage[a][r]]]
  BY <1>1 DEF LeaveRequests
<1>3. /\ \A b \in Appends : b # a => stage'[b] = stage[b]
      /\ \A r \in Replicas : stage'[a][r] = IF r \in Unhandled(a) \ late THEN "refused"
                                            ELSE stage[a][r]
  BY <1>2, OpTypes
<1>4. \A b \in Appends, r \in Replicas :
        \/ stage'[b][r] = stage[b][r]
        \/ stage'[b][r] = "refused" /\ stage[b][r] \in {"sent", "checked"}
  BY <1>3 DEF Unhandled
<1>5. PICK pc \in {"acked", "failed"} :
        /\ op' = [op EXCEPT ![a].pc = pc]
        /\ pc = "acked" => Cardinality({r \in Replicas : stage[a][r] = "acked"}) >= QuorumSize
        /\ \/ pc = "acked" /\ seqr' = [seqr EXCEPT ![FirstSequencer].gci =
                                IF Sequencer.gci < op[a].logId THEN op[a].logId ELSE Sequencer.gci]
           \/ seqr' = seqr
  BY <1>0 DEF CommitAppend, FailAppend, Sequencer
<1>6. /\ op'[a].pc = pc /\ op'[a].logId = op[a].logId /\ op'[a].ver = op[a].ver
      /\ op'[a].gci = op[a].gci /\ \A b \in Appends : b # a => op'[b] = op[b]
  BY <1>5, OpTypes DEF Ops
<1>7. /\ seqr'[FirstSequencer].num = Sequencer.num /\ seqr'[FirstSequencer].ver = Sequencer.ver
      /\ \/ seqr'[FirstSequencer].gci = Sequencer.gci
         \/ pc = "acked" /\ seqr'[FirstSequencer].gci = op[a].logId
  <2>1. CASE seqr' = seqr
    BY <2>1 DEF Sequencer
  <2>2. CASE seqr' # seqr
    <3> DEFINE g == IF Sequencer.gci < op[a].logId THEN op[a].logId ELSE Sequencer.gci
    <3>1. pc = "acked" /\ seqr' = [seqr EXCEPT ![FirstSequencer] = [Sequencer EXCEPT !.gci = g]]
      BY <1>5, <2>2 DEF Sequencer
    <3>2. g = op[a].logId \/ g = Sequencer.gci
      OBVIOUS
    <3> HIDE DEF g
    <3>3. seqr'[FirstSequencer] = [Sequencer EXCEPT !.gci = g]
      BY <3>1, OneSequencer
    <3>4. /\ seqr'[FirstSequencer].num = Sequencer.num /\ seqr'[FirstSequencer].ver = Sequencer.ver
          /\ seqr'[FirstSequencer].gci = g
      BY <3>3, OneSequencer
    <3> QED
      BY <3>1, <3>2, <3>4
  <2> QED
    BY <2>1, <2>2
<1> QED
  BY <1>1, <1>4, <1>5, <1>6, <1>7 DEF Ended

(* A running call goes from one phase to the next. *)
MovesCall(c, from, to) ==
  /\ rc[c].pc = from /\ rc'[c].pc = to
  /\ rc'[c].ver = rc[c].ver /\ rc'[c].quorum = rc[c].quorum /\ rc'[c].todo = rc[c].todo
  /\ rc'[c].min = rc[c].min /\ rc'[c].max = rc[c].max /\ rc'[c].at = rc[c].at
  /\ \A d \in Clients : d # c => rc'[d] = rc[d]

LEMMA PcMoves ==
  ASSUME LogInv, NEW c \in Clients, NEW from, NEW to, rc[c].pc = from,
         NEW oks, rc' = [rc EXCEPT ![c] = [rc[c] EXCEPT !.pc = to, !.oks = oks]]
  PROVE  MovesCall(c, from, to)
<1>1. rc \in [Clients -> RcCalls] /\ rc[c] \in RcCalls
  BY CallFacts
<1>2. rc'[c] = [rc[c] EXCEPT !.pc = to, !.oks = oks] /\ \A d \in Clients : d # c => rc'[d] = rc[d]
  BY <1>1
<1>3. /\ rc'[c].pc = to /\ rc'[c].ver = rc[c].ver /\ rc'[c].quorum = rc[c].quorum
      /\ rc'[c].todo = rc[c].todo /\ rc'[c].min = rc[c].min /\ rc'[c].max = rc[c].max
      /\ rc'[c].at = rc[c].at
  BY <1>1, <1>2 DEF RcCalls
<1> QED
  BY <1>2, <1>3 DEF MovesCall

LEMMA OnlyPcMoves ==
  ASSUME LogInv, NEW c \in Clients, NEW from, NEW to, rc[c].pc = from,
         rc' = [rc EXCEPT ![c].pc = to]
  PROVE  MovesCall(c, from, to)
<1>1. rc \in [Clients -> RcCalls] /\ rc[c] \in RcCalls
  BY CallFacts
<1>2. rc'[c] = [rc[c] EXCEPT !.pc = to] /\ \A d \in Clients : d # c => rc'[d] = rc[d]
  BY <1>1
<1>3. /\ rc'[c].pc = to /\ rc'[c].ver = rc[c].ver /\ rc'[c].quorum = rc[c].quorum
      /\ rc'[c].todo = rc[c].todo /\ rc'[c].min = rc[c].min /\ rc'[c].max = rc[c].max
      /\ rc'[c].at = rc[c].at
  BY <1>1, <1>2 DEF RcCalls
<1> QED
  BY <1>2, <1>3 DEF MovesCall

EndsCall(c) ==
  rc'[c].pc = "idle" /\ \A d \in Clients : d # c => rc'[d] = rc[d]

LEMMA IdleAgain ==
  ASSUME LogInv, NEW c \in Clients, rc' = [rc EXCEPT ![c] = IdleCall]
  PROVE  EndsCall(c)
BY CallFacts, IdleCallIs DEF EndsCall

-----------------------------------------------------------------------------
(* Turns and numbering *)

LEMMA VersionsOf ==
  ASSUME OneAtATime, LogInv, Numbering
  PROVE  /\ Sequencer.ver \in 1 .. Cur /\ Sequencer.ver \in Int /\ Cur \in Int
         /\ \A v \in 1 .. Sequencer.ver : v \in 1 .. Cur
         /\ \A v \in 1 .. Cur : Start(v) \in Int /\ v \in Versions /\ v \in Int
<1>1. Sequencer.ver \in 1 .. Cur
  BY DEF Numbering
<1> QED
  BY <1>1, VersionFacts, OneSequencer, Constants DEF Start, Ends

(* A call whose part in the restart of the sequencer does not change. *)
Continues(c) ==
  \/ rc'[c].pc = "idle" /\ rc[c].pc \notin {"startGci", "startVer"}
  \/ /\ rc[c].pc # "idle" /\ rc'[c].ver = rc[c].ver
     /\ rc'[c].pc \in Installed <=> rc[c].pc \in Installed
     /\ rc'[c].pc \in Installed => rc'[c].max = rc[c].max
     /\ rc'[c].pc = "startGci" <=> rc[c].pc = "startGci"
     /\ rc'[c].pc = "startVer" <=> rc[c].pc = "startVer"

LEMMA CallsContinue ==
  ASSUME OneAtATime, LogInv, Turns, Numbering, UNCHANGED <<op, seqr, store>>,
         \A a \in Appends : op[a].pc = "numbered" =>
           \A r \in Replicas : stage'[a][r] = stage[a][r],
         \A c \in Clients : Continues(c)
  PROVE  Turns' /\ Numbering'
<1>1. Turns'
  BY DEF Turns, Continues, Busy
<1>2. /\ Sequencer' = Sequencer /\ Cur' = Cur /\ \A v : Start(v)' = Start(v)
      /\ \A a \in Appends : \A v : InVersion(a, v)' <=> InVersion(a, v)
  BY DEF Sequencer, Cur, Start, InVersion, Sent
<1>3. (Sequencer.ver \in 1 .. Cur)' /\ IdsUnique'
  BY <1>2 DEF Numbering, IdsUnique
<1>4. \A a \in Appends : NumberedGood(a)' /\ SentGood(a)'
  <2> TAKE a \in Appends
  <2>1. NumberedGood(a) /\ SentGood(a)
    BY DEF Numbering
  <2>2. NumberedGood(a)'
    BY <1>2, <2>1 DEF NumberedGood
  <2>3. SentGood(a)'
    BY <1>2, <2>1 DEF SentGood, Sent
  <2> QED
    BY <2>2, <2>3
<1>5. \A c \in Clients : RestartGood(c)'
  <2> TAKE c \in Clients
  <2>1. RestartGood(c) /\ Continues(c)
    BY DEF Numbering
  <2>2. "idle" \notin Installed /\ "startGci" \in Installed /\ "startVer" \in Installed
    BY DEF Installed
  <2> QED
    BY <1>2, <2>1, <2>2 DEF RestartGood, Continues
<1>6. NextIdFree'
  <2>1. CASE \E c \in Clients : rc[c].pc \in {"startGci", "startVer"}
    BY <2>1 DEF NextIdFree, Continues
  <2>2. CASE ~ \E c \in Clients : rc[c].pc \in {"startGci", "startVer"}
    BY <1>2, <2>2 DEF NextIdFree, Numbering
  <2> QED
    BY <2>1, <2>2
<1> QED
  BY <1>1, <1>3, <1>4, <1>5, <1>6 DEF Numbering

LEMMA TakeLogIdNumbers ==
  ASSUME OneAtATime, LogInv, Turns, Numbering, NEW a \in Appends, TookId(a)
  PROVE  Turns' /\ Numbering'
<1>0. /\ \A b \in Appends : ~Busy(b)
      /\ \A c \in Clients : rc[c].pc = "idle" /\ rc'[c] = rc[c]
      /\ op[a].pc = "new" /\ op'[a].pc = "numbered" /\ op'[a].logId = Sequencer.num
      /\ \A b \in Appends : b # a => op'[b] = op[b]
      /\ seqr'[FirstSequencer].num = Sequencer.num + 1
      /\ seqr'[FirstSequencer].ver = Sequencer.ver
      /\ UNCHANGED <<store, stage, rc>>
  BY DEF TookId
<1>1. Turns'
  BY <1>0 DEF Turns, Busy
<1>2. /\ Sequencer'.ver = Sequencer.ver /\ Cur' = Cur /\ \A v : Start(v)' = Start(v)
      /\ Sequencer'.num = Sequencer.num + 1
  BY <1>0 DEF Sequencer, Cur, Start
<1>3. ~Sent(a) /\ ~Sent(a)'
  BY <1>0 DEF Sent
<1>4. /\ \A b \in Appends : Sent(b)' <=> Sent(b)
      /\ \A b \in Appends : Sent(b) => op'[b] = op[b]
  BY <1>0, <1>3 DEF Sent
<1>5. \A b \in Appends : \A v : InVersion(b, v)' <=> InVersion(b, v)
  BY <1>4 DEF InVersion
<1>6. (Sequencer.ver \in 1 .. Cur)' /\ IdsUnique'
  BY <1>2, <1>4, <1>5 DEF Numbering, IdsUnique, InVersion
<1>7. /\ Start(Sequencer.ver) <= Sequencer.num
      /\ \A b \in Appends : InVersion(b, Sequencer.ver) => op[b].logId < Sequencer.num
  BY <1>0 DEF Numbering, NextIdFree
<1>8. Start(Sequencer.ver) \in Int /\ Sequencer.num \in Int /\ \A b \in Appends : op[b].logId \in Int
  BY VersionsOf, OneSequencer, OpTypes
<1>9. \A b \in Appends : NumberedGood(b)' /\ SentGood(b)'
  <2> TAKE b \in Appends
  <2>0. SentGood(b) /\ (op[b].pc = "sent" => b # a)
    BY <1>0 DEF Numbering
  <2>1. SentGood(b)'
    <3>1. CASE b = a
      BY <1>0, <1>3, <3>1 DEF SentGood
    <3>2. CASE b # a
      BY <1>0, <1>2, <1>5, <2>0, <3>2 DEF SentGood, Sent
    <3> QED
      BY <3>1, <3>2
  <2>2. NumberedGood(b)'
    <3>1. CASE b = a
      <4>1. \A r \in Replicas : stage[a][r] = "none"
        BY <1>0 DEF LogInv, OpGood
      <4>2. \A x \in Appends : InVersion(x, Sequencer.ver)' => op'[x].logId < op'[a].logId
        BY <1>0, <1>2, <1>4, <1>5, <1>7 DEF InVersion
      <4>3. Start(Sequencer.ver)' <= op'[a].logId /\ op'[a].logId < Sequencer'.num
        BY <1>0, <1>2, <1>7, <1>8
      <4> QED
        BY <1>0, <1>2, <3>1, <4>1, <4>2, <4>3 DEF NumberedGood
    <3>2. CASE b # a
      BY <1>0, <3>2 DEF NumberedGood, Busy
    <3> QED
      BY <3>1, <3>2
  <2> QED
    BY <2>1, <2>2
<1>10. \A c \in Clients : RestartGood(c)'
  BY <1>0 DEF RestartGood, Installed
<1>11. NextIdFree'
  BY <1>0, <1>2, <1>4, <1>5, <1>7, <1>8 DEF NextIdFree, InVersion
<1> QED
  BY <1>1, <1>6, <1>9, <1>10, <1>11 DEF Numbering

LEMMA SendAppendNumbers ==
  ASSUME OneAtATime, LogInv, Turns, Numbering, NEW a \in Appends, NEW r \in Replicas, SentTo(a, r)
  PROVE  Turns' /\ Numbering'
<1>0. /\ op[a].pc = "numbered" /\ stage[a][r] = "none" /\ op'[a].logId = op[a].logId
      /\ op'[a].pc = "numbered" \/ (op'[a].pc = "sent" /\ \A x \in Replicas \ {r} : stage[a][x] = "sent")
      /\ op'[a].ver[r] = Sequencer.ver
      /\ \A x \in Replicas : x # r => op'[a].ver[x] = op[a].ver[x]
      /\ \A b \in Appends : b # a => op'[b] = op[b]
      /\ stage'[a][r] = "sent"
      /\ \A b \in Appends, x \in Replicas : b # a \/ x # r => stage'[b][x] = stage[b][x]
      /\ UNCHANGED <<store, seqr, rc>>
  BY DEF SentTo
<1>1. Turns' /\ \A c \in Clients : rc[c].pc = "idle"
  BY <1>0 DEF Turns, Busy
<1>2. Sequencer' = Sequencer /\ Cur' = Cur /\ \A v : Start(v)' = Start(v)
  BY <1>0 DEF Sequencer, Cur, Start
<1>3. NumberedGood(a) /\ \A b \in Appends : b # a => op[b].pc # "numbered"
  BY <1>0 DEF Numbering, Turns, Busy
<1>4. \A x \in Replicas : stage'[a][x] = "sent" => op'[a].ver[x] = Sequencer.ver
  BY <1>0, <1>3 DEF NumberedGood
<1>5. op'[a].pc = "sent" => InVersion(a, Sequencer.ver)'
  BY <1>0, <1>2, <1>4 DEF InVersion, Sent
<1>6. \A b \in Appends : \A v : b # a => (InVersion(b, v)' <=> InVersion(b, v))
  BY <1>0 DEF InVersion, Sent
<1>7. \A v : InVersion(a, v)' => v = Sequencer.ver /\ op'[a].pc = "sent"
  BY <1>0 DEF InVersion, Sent
<1>8. /\ Start(Sequencer.ver) <= op[a].logId /\ op[a].logId < Sequencer.num
      /\ \A b \in Appends : InVersion(b, Sequencer.ver) => op[b].logId < op[a].logId
  BY <1>0, <1>3 DEF NumberedGood
<1>9. \A b \in Appends : op[b].logId \in Int
  BY OpTypes
<1>10. IdsUnique'
  <2> SUFFICES ASSUME NEW b \in Appends, NEW d \in Appends, NEW v \in Versions,
                      InVersion(b, v)', InVersion(d, v)', op'[b].logId = op'[d].logId, b # d
               PROVE  FALSE
    BY DEF IdsUnique
  <2>1. CASE b = a
    BY <1>0, <1>6, <1>7, <1>8, <1>9, <2>1
  <2>2. CASE d = a
    BY <1>0, <1>6, <1>7, <1>8, <1>9, <2>2
  <2>3. CASE b # a /\ d # a
    BY <1>0, <1>6, <2>3 DEF Numbering, IdsUnique
  <2> QED
    BY <2>1, <2>2, <2>3
<1>11. \A b \in Appends : NumberedGood(b)' /\ SentGood(b)'
  <2> TAKE b \in Appends
  <2>0. SentGood(b)
    BY DEF Numbering
  <2>1. SentGood(b)'
    <3>1. CASE b = a
      <4>1. Sequencer.ver \in 1 .. Sequencer.ver
        BY VersionsOf
      <4> QED
        BY <1>0, <1>2, <1>5, <1>8, <3>1, <4>1 DEF SentGood, Sent
    <3>2. CASE b # a
      BY <1>0, <1>2, <1>6, <2>0, <3>2 DEF SentGood, Sent
    <3> QED
      BY <3>1, <3>2
  <2>2. NumberedGood(b)'
    <3>1. CASE b # a
      BY <1>0, <1>3, <3>1 DEF NumberedGood
    <3>2. CASE b = a
      <4> SUFFICES ASSUME op'[a].pc = "numbered" PROVE NumberedGood(a)'
        BY <3>2 DEF NumberedGood
      <4>1. \A x \in Replicas : stage'[a][x] \in {"none", "sent"}
        BY <1>0, <1>3 DEF NumberedGood
      <4>2. \A d \in Appends : InVersion(d, Sequencer.ver)' => op'[d].logId < op'[a].logId
        BY <1>0, <1>2, <1>6, <1>7, <1>8
      <4> QED
        BY <1>0, <1>2, <1>4, <1>8, <4>1, <4>2 DEF NumberedGood
    <3> QED
      BY <3>1, <3>2
  <2> QED
    BY <2>1, <2>2
<1>12. \A c \in Clients : RestartGood(c)'
  BY <1>0, <1>1 DEF RestartGood, Installed
<1>13. NextIdFree'
  <2>1. /\ Start(Sequencer.ver) <= Sequencer.num
        /\ \A b \in Appends : InVersion(b, Sequencer.ver) => op[b].logId < Sequencer.num
    BY <1>1 DEF Numbering, NextIdFree
  <2>2. \A b \in Appends : InVersion(b, Sequencer.ver)' => op'[b].logId < Sequencer.num
    BY <1>0, <1>2, <1>6, <1>8, <2>1
  <2> QED
    BY <1>2, <2>1, <2>2 DEF NextIdFree
<1>14. (Sequencer.ver \in 1 .. Cur)'
  BY <1>2 DEF Numbering
<1> QED
  BY <1>1, <1>10, <1>11, <1>12, <1>13, <1>14 DEF Numbering

LEMMA EndAppendNumbers ==
  ASSUME OneAtATime, LogInv, Turns, Numbering, NEW a \in Appends, Ended(a)
  PROVE  Turns' /\ Numbering'
<1>0. /\ op[a].pc = "sent" /\ op'[a].pc \in {"acked", "failed"} /\ op'[a].logId = op[a].logId
      /\ op'[a].ver = op[a].ver /\ \A b \in Appends : b # a => op'[b] = op[b]
      /\ seqr'[FirstSequencer].num = Sequencer.num
      /\ seqr'[FirstSequencer].ver = Sequencer.ver
      /\ UNCHANGED <<store, rc>>
  BY DEF Ended
<1>1. Turns' /\ \A c \in Clients : rc[c].pc = "idle"
  BY <1>0 DEF Turns, Busy
<1>2. /\ Sequencer'.ver = Sequencer.ver /\ Sequencer'.num = Sequencer.num
      /\ Cur' = Cur /\ \A v : Start(v)' = Start(v)
  BY <1>0 DEF Sequencer, Cur, Start
<1>3. \A b \in Appends : \A v : InVersion(b, v)' <=> InVersion(b, v)
  BY <1>0 DEF InVersion, Sent
<1>4. \A b \in Appends : op'[b].logId = op[b].logId /\ (Sent(b)' <=> Sent(b))
  BY <1>0 DEF Sent
<1>5. \A b \in Appends : op[b].pc # "numbered" /\ op'[b].pc # "numbered"
  BY <1>0 DEF Turns, Busy
<1>6. \A b \in Appends : NumberedGood(b)' /\ SentGood(b)'
  <2> TAKE b \in Appends
  <2>1. NumberedGood(b)'
    BY <1>5 DEF NumberedGood
  <2>2. op'[b].pc = "sent" => op[b].pc = "sent"
    BY <1>0
  <2>3. SentGood(b)'
    BY <1>2, <1>3, <1>4, <2>2 DEF SentGood, Numbering
  <2> QED
    BY <2>1, <2>3
<1>7. \A c \in Clients : RestartGood(c)'
  BY <1>0, <1>1 DEF RestartGood, Installed
<1>8. NextIdFree'
  BY <1>0, <1>2, <1>3, <1>4 DEF NextIdFree, Numbering
<1>9. (Sequencer.ver \in 1 .. Cur)' /\ IdsUnique'
  BY <1>2, <1>3, <1>4 DEF Numbering, IdsUnique
<1> QED
  BY <1>1, <1>6, <1>7, <1>8, <1>9 DEF Numbering

(* A step of reconfigure that leaves appends, versions and log ids alone. *)
LEMMA CallNumbers ==
  ASSUME OneAtATime, LogInv, Turns, Numbering, UNCHANGED <<op, stage>>,
         NEW c \in Clients, rc[c].pc # "idle", \A d \in Clients : d # c => rc'[d] = rc[d]
  PROVE  /\ Turns' /\ \A a \in Appends : ~Busy(a) /\ ~Busy(a)'
         /\ \A a \in Appends : NumberedGood(a)'
         /\ \A d \in Clients : d # c => rc[d].pc = "idle" /\ RestartGood(d)'
         /\ \A a \in Appends : \A v : InVersion(a, v)' <=> InVersion(a, v)
<1>1. \A a \in Appends : ~Busy(a) /\ ~Busy(a)'
  BY DEF Turns, Busy
<1>2. \A d \in Clients : d # c => rc[d].pc = "idle" /\ rc'[d].pc = "idle"
  BY DEF Turns
<1>3. Turns'
  BY <1>1, <1>2 DEF Turns
<1>4. \A a \in Appends : NumberedGood(a)'
  BY <1>1 DEF NumberedGood, Busy
<1>5. \A d \in Clients : d # c => RestartGood(d)'
  BY <1>2 DEF RestartGood, Installed
<1>6. \A a \in Appends : \A v : InVersion(a, v)' <=> InVersion(a, v)
  BY DEF InVersion, Sent
<1> QED
  BY <1>1, <1>2, <1>3, <1>4, <1>5, <1>6

(* ... and the sequencer's version too. *)
LEMMA SameVersionNumbers ==
  ASSUME OneAtATime, LogInv, Turns, Numbering, UNCHANGED <<op, stage>>,
         NEW c \in Clients, rc[c].pc # "idle", \A d \in Clients : d # c => rc'[d] = rc[d],
         Sequencer'.ver = Sequencer.ver, \A v \in 1 .. Cur : Start(v)' = Start(v),
         Cur' \in Int, Cur <= Cur',
         RestartGood(c)', NextIdFree'
  PROVE  Turns' /\ Numbering'
<1>1. /\ Turns' /\ \A a \in Appends : ~Busy(a) /\ ~Busy(a)'
      /\ \A a \in Appends : NumberedGood(a)'
      /\ \A d \in Clients : d # c => RestartGood(d)'
      /\ \A a \in Appends : \A v : InVersion(a, v)' <=> InVersion(a, v)
  BY CallNumbers
<1>2. Sequencer.ver \in 1 .. Cur /\ \A v \in 1 .. Sequencer.ver : v \in 1 .. Cur
  BY VersionsOf
<1>3. (Sequencer.ver \in 1 .. Cur)'
  BY <1>2, VersionsOf
<1>4. IdsUnique'
  BY <1>1 DEF Numbering, IdsUnique
<1>5. \A a \in Appends : SentGood(a)'
  <2> TAKE a \in Appends
  <2>1. SentGood(a)
    BY DEF Numbering
  <2>2. Sent(a)' <=> Sent(a)
    BY DEF Sent
  <2> QED
    BY <1>1, <1>2, <2>1, <2>2 DEF SentGood
<1> QED
  BY <1>1, <1>3, <1>4, <1>5 DEF Numbering

LEMMA BeginNumbers ==
  ASSUME OneAtATime, LogInv, Turns, Numbering, NEW c \in Clients,
         NEW s, NEW Q, BeginReconfigure(c, s, Q)
  PROVE  /\ Turns' /\ Numbering'
         /\ rc'[c].pc = "seal" /\ rc'[c].ver = Cur /\ rc'[c].min = EndOfLog
         /\ rc'[c].quorum = rc'[c].todo /\ rc'[c].max = 0
         /\ \A d \in Clients : d # c => rc'[d] = rc[d]
<1> DEFINE e == [IdleCall EXCEPT !.pc = "seal", !.target = s, !.ver = Cur,
                                 !.quorum = Q, !.todo = Q]
<1>1. /\ rc[c].pc = "idle" /\ ~Reconfiguring /\ ~Appending /\ rc' = [rc EXCEPT ![c] = e]
      /\ UNCHANGED <<store, seqr, op, stage>>
  BY DEF BeginReconfigure, Cur, OneAtATime
<1>2. /\ e.pc = "seal" /\ e.ver = Cur /\ e.min = EndOfLog /\ e.quorum = Q /\ e.todo = Q
      /\ e.max = 0
  BY DEF IdleCall
<1> HIDE DEF e
<1>3. rc'[c] = e /\ \A d \in Clients : d # c => rc'[d] = rc[d]
  BY <1>1, CallFacts
<1>4. \A d \in Clients : rc[d].pc = "idle"
  BY <1>1 DEF Reconfiguring
<1>5. \A a \in Appends : ~Busy(a) /\ ~Busy(a)'
  BY <1>1 DEF Appending, Busy
<1>6. Turns'
  BY <1>3, <1>4, <1>5 DEF Turns
<1>7. /\ Sequencer' = Sequencer /\ Cur' = Cur /\ \A v : Start(v)' = Start(v)
      /\ \A a \in Appends : \A v : InVersion(a, v)' <=> InVersion(a, v)
      /\ \A a \in Appends : Sent(a)' <=> Sent(a)
  BY <1>1 DEF Sequencer, Cur, Start, InVersion, Sent
<1>8. \A a \in Appends : NumberedGood(a)' /\ SentGood(a)'
  <2> TAKE a \in Appends
  <2>1. NumberedGood(a)'
    BY <1>5 DEF NumberedGood, Busy
  <2>2. SentGood(a)
    BY DEF Numbering
  <2>3. SentGood(a)'
    BY <1>1, <1>7, <2>2 DEF SentGood
  <2> QED
    BY <2>1, <2>3
<1>9. \A d \in Clients : RestartGood(d)'
  BY <1>2, <1>3, <1>4, <1>7 DEF RestartGood, Installed
<1>10. NextIdFree' /\ (Sequencer.ver \in 1 .. Cur)' /\ IdsUnique'
  BY <1>1, <1>4, <1>7 DEF Numbering, NextIdFree, IdsUnique
<1> QED
  BY <1>2, <1>3, <1>6, <1>8, <1>9, <1>10 DEF Numbering

LEMMA InstallNumbers ==
  ASSUME OneAtATime, LogInv, Turns, Numbering, NEW c \in Clients, Install(c)
  PROVE  /\ Turns' /\ Numbering' /\ MovesCall(c, "install", "setState")
         /\ Cur' = Cur + 1 /\ \A v \in 1 .. Cur : Start(v)' = Start(v)
<1>0. PICK n, x, Q : n = Cur /\ x = rc[c].max /\ Q = rc[c].quorum
  OBVIOUS
<1>1. rc[c].ver = n /\ Installs(n, x)
  BY <1>0, InstallIs
<1>2. /\ rc[c].pc = "install" /\ rc' = [rc EXCEPT ![c].pc = "setState"]
      /\ UNCHANGED <<seqr, op, stage>>
  BY DEF Install
<1>3. MovesCall(c, "install", "setState")
  BY <1>2, OnlyPcMoves
<1>4. /\ rc'[c].pc = "setState" /\ rc'[c].ver = n /\ rc'[c].max = x
      /\ \A d \in Clients : d # c => rc'[d] = rc[d]
  BY <1>0, <1>1, <1>3 DEF MovesCall
<1>5. n \in Int /\ Cur' = n + 1 /\ \A v \in 1 .. n : Start(v)' = Start(v)
  BY <1>0, <1>1, VersionsOf DEF Installs, Start
<1>6. (Start(Cur))' = x
  BY <1>1, <1>5 DEF Installs, Start
<1>7. Sequencer' = Sequencer /\ Sequencer.ver \in 1 .. n
  BY <1>0, <1>2, VersionsOf DEF Sequencer
<1>8. RestartGood(c)'
  BY <1>4, <1>5, <1>6, <1>7 DEF RestartGood, Installed
<1>9. NextIdFree'
  <2>1. rc[c].pc # "idle" /\ \A d \in Clients : d # c => rc[d].pc = "idle"
    BY <1>2 DEF Turns
  <2>2. ~ \E d \in Clients : rc[d].pc \in {"startGci", "startVer"}
    BY <1>2, <2>1
  <2>3. \A a \in Appends : \A v : InVersion(a, v)' <=> InVersion(a, v)
    BY <1>2 DEF InVersion, Sent
  <2> QED
    BY <1>0, <1>2, <1>5, <1>7, <2>2, <2>3 DEF NextIdFree, Numbering
<1>10. UNCHANGED <<op, stage>> /\ Sequencer'.ver = Sequencer.ver /\ Cur' \in Int /\ Cur <= Cur'
       /\ rc[c].pc # "idle" /\ \A v \in 1 .. Cur : Start(v)' = Start(v)
  BY <1>0, <1>2, <1>5, <1>7
<1>11. Turns' /\ Numbering'
  BY <1>4, <1>8, <1>9, <1>10, SameVersionNumbers
<1> QED
  BY <1>0, <1>3, <1>5, <1>11

(* SequencerImpl::start changes one field. *)
LEMMA StartIs ==
  ASSUME OneAtATime, LogInv, NEW c \in Clients, StartNum(c) \/ StartGci(c) \/ StartVer(c)
  PROVE  /\ StartNum(c) => /\ seqr'[FirstSequencer].num = rc[c].max
                           /\ seqr'[FirstSequencer].gci = Sequencer.gci
                           /\ seqr'[FirstSequencer].ver = Sequencer.ver
                           /\ MovesCall(c, "startNum", "startGci")
         /\ StartGci(c) => /\ seqr'[FirstSequencer].num = Sequencer.num
                           /\ seqr'[FirstSequencer].gci = rc[c].max
                           /\ seqr'[FirstSequencer].ver = Sequencer.ver
                           /\ MovesCall(c, "startGci", "startVer")
         /\ StartVer(c) => /\ seqr'[FirstSequencer].num = Sequencer.num
                           /\ seqr'[FirstSequencer].gci = Sequencer.gci
                           /\ seqr'[FirstSequencer].ver = rc[c].ver + 1
                           /\ rc[c].pc = "startVer" /\ EndsCall(c)
         /\ UNCHANGED <<store, nano, op, stage, fill, onTime>>
<1>0. vlog[c].seqr = FirstSequencer /\ DOMAIN Sequencer = {"num", "gci", "ver"}
      /\ seqr = [s \in {FirstSequencer} |-> Sequencer]
  BY OneSequencer
<1>1. ASSUME StartNum(c)
      PROVE  /\ seqr'[FirstSequencer].num = rc[c].max
             /\ seqr'[FirstSequencer].gci = Sequencer.gci
             /\ seqr'[FirstSequencer].ver = Sequencer.ver
             /\ MovesCall(c, "startNum", "startGci")
  <2>1. /\ seqr' = [seqr EXCEPT ![FirstSequencer] = [Sequencer EXCEPT !.num = rc[c].max]]
        /\ rc[c].pc = "startNum" /\ rc' = [rc EXCEPT ![c].pc = "startGci"]
    BY <1>0, <1>1 DEF StartNum, Sequencer
  <2>2. seqr'[FirstSequencer] = [Sequencer EXCEPT !.num = rc[c].max]
    BY <1>0, <2>1
  <2> QED
    BY <1>0, <2>1, <2>2, OnlyPcMoves
<1>2. ASSUME StartGci(c)
      PROVE  /\ seqr'[FirstSequencer].num = Sequencer.num
             /\ seqr'[FirstSequencer].gci = rc[c].max
             /\ seqr'[FirstSequencer].ver = Sequencer.ver
             /\ MovesCall(c, "startGci", "startVer")
  <2>1. /\ seqr' = [seqr EXCEPT ![FirstSequencer] = [Sequencer EXCEPT !.gci = rc[c].max]]
        /\ rc[c].pc = "startGci" /\ rc' = [rc EXCEPT ![c].pc = "startVer"]
    BY <1>0, <1>2 DEF StartGci, Sequencer
  <2>2. seqr'[FirstSequencer] = [Sequencer EXCEPT !.gci = rc[c].max]
    BY <1>0, <2>1
  <2> QED
    BY <1>0, <2>1, <2>2, OnlyPcMoves
<1>3. ASSUME StartVer(c)
      PROVE  /\ seqr'[FirstSequencer].num = Sequencer.num
             /\ seqr'[FirstSequencer].gci = Sequencer.gci
             /\ seqr'[FirstSequencer].ver = rc[c].ver + 1
             /\ rc[c].pc = "startVer" /\ EndsCall(c)
  <2>1. /\ seqr' = [seqr EXCEPT ![FirstSequencer] = [Sequencer EXCEPT !.ver = rc[c].ver + 1]]
        /\ rc[c].pc = "startVer" /\ rc' = [rc EXCEPT ![c] = IdleCall]
    BY <1>0, <1>3 DEF StartVer, Sequencer
  <2>2. seqr'[FirstSequencer] = [Sequencer EXCEPT !.ver = rc[c].ver + 1]
    BY <1>0, <2>1
  <2> QED
    BY <1>0, <2>1, <2>2, IdleAgain
<1>4. UNCHANGED <<store, nano, op, stage, fill, onTime>>
  BY DEF StartNum, StartGci, StartVer
<1> QED
  BY <1>1, <1>2, <1>3, <1>4

LEMMA StartNumbers ==
  ASSUME OneAtATime, LogInv, Turns, Numbering, NEW c \in Clients, StartNum(c) \/ StartGci(c)
  PROVE  Turns' /\ Numbering'
<1>1. /\ rc[c].pc \in {"startNum", "startGci"} /\ rc'[c].pc \in {"startGci", "startVer"}
      /\ rc'[c].ver = rc[c].ver /\ rc'[c].max = rc[c].max
      /\ \A d \in Clients : d # c => rc'[d] = rc[d]
      /\ seqr'[FirstSequencer].ver = Sequencer.ver
      /\ rc'[c].pc = "startVer" => seqr'[FirstSequencer].gci = rc[c].max
      /\ seqr'[FirstSequencer].num = rc[c].max
            \/ (seqr'[FirstSequencer].num = Sequencer.num /\ rc[c].pc = "startGci")
      /\ UNCHANGED <<store, op, stage>>
  BY StartIs DEF MovesCall
<1>2. RestartGood(c)
  BY DEF Numbering
<1>3. /\ Cur = rc[c].ver + 1 /\ Sequencer.ver <= rc[c].ver /\ rc[c].max = Start(Cur)
      /\ seqr'[FirstSequencer].num = rc[c].max
  BY <1>1, <1>2 DEF RestartGood, Installed
<1>4. /\ Sequencer'.ver = Sequencer.ver /\ Cur' = Cur /\ \A v : Start(v)' = Start(v)
      /\ Sequencer'.num = rc[c].max
      /\ rc'[c].pc = "startVer" => Sequencer'.gci = rc[c].max
  BY <1>1, <1>3 DEF Sequencer, Cur, Start
<1>5. RestartGood(c)'
  BY <1>1, <1>3, <1>4 DEF RestartGood, Installed
<1>6. NextIdFree'
  BY <1>1 DEF NextIdFree
<1>7. Cur' \in Int /\ Cur <= Cur' /\ rc[c].pc # "idle" /\ UNCHANGED <<op, stage>>
  BY <1>1, <1>4, VersionsOf
<1> QED
  BY <1>1, <1>4, <1>5, <1>6, <1>7, SameVersionNumbers

LEMMA StartVerNumbers ==
  ASSUME OneAtATime, LogInv, Turns, Numbering, NEW c \in Clients, StartVer(c)
  PROVE  /\ Turns' /\ Numbering'
         /\ Sequencer'.ver = Cur /\ Sequencer'.gci = Start(Cur)
<1>1. /\ rc[c].pc = "startVer" /\ rc'[c].pc = "idle"
      /\ \A d \in Clients : d # c => rc'[d] = rc[d]
      /\ seqr'[FirstSequencer].num = Sequencer.num /\ seqr'[FirstSequencer].gci = Sequencer.gci
      /\ seqr'[FirstSequencer].ver = rc[c].ver + 1
      /\ UNCHANGED <<store, op, stage>>
  BY StartIs DEF EndsCall
<1>2. RestartGood(c)
  BY DEF Numbering
<1>3. /\ Cur = rc[c].ver + 1 /\ Sequencer.ver <= rc[c].ver /\ rc[c].max = Start(Cur)
      /\ Sequencer.num = rc[c].max /\ Sequencer.gci = rc[c].max
  BY <1>1, <1>2 DEF RestartGood, Installed
<1>4. /\ Sequencer'.ver = Cur /\ Sequencer'.num = Start(Cur) /\ Sequencer'.gci = Start(Cur)
      /\ Cur' = Cur /\ \A v : Start(v)' = Start(v)
  BY <1>1, <1>3 DEF Sequencer, Cur, Start
<1>5. /\ Turns' /\ \A a \in Appends : ~Busy(a) /\ ~Busy(a)'
      /\ \A a \in Appends : NumberedGood(a)'
      /\ \A d \in Clients : d # c => RestartGood(d)'
      /\ \A a \in Appends : \A v : InVersion(a, v)' <=> InVersion(a, v)
  BY <1>1, CallNumbers
<1>6. RestartGood(c)'
  BY <1>1 DEF RestartGood, Installed
<1>7. Cur \in Int /\ Cur >= 1 /\ Sequencer.ver \in Int /\ rc[c].ver \in Int /\ Start(Cur) \in Int
  BY <1>1, <1>3, VersionFacts, VersionsOf, CallFacts
<1>8. /\ Cur \in 1 .. Cur /\ Sequencer.ver < Cur
      /\ \A v \in 1 .. Sequencer.ver : v \in 1 .. Cur
  BY <1>3, <1>7
<1>9. (Sequencer.ver \in 1 .. Cur)' /\ IdsUnique'
  BY <1>1, <1>4, <1>5, <1>8 DEF Numbering, IdsUnique
<1>10. \A a \in Appends : SentGood(a)'
  <2> TAKE a \in Appends
  <2>1. SentGood(a) /\ op[a].pc # "sent"
    BY <1>5 DEF Numbering, Busy
  <2>2. Sent(a)' => Sent(a)
    BY <1>1 DEF Sent
  <2> QED
    BY <1>1, <1>4, <1>5, <1>8, <2>1, <2>2 DEF SentGood
<1>11. \A a \in Appends : ~InVersion(a, Cur)
  <2> SUFFICES ASSUME NEW a \in Appends, InVersion(a, Cur) PROVE FALSE
    OBVIOUS
  <2>1. PICK v \in 1 .. Sequencer.ver : InVersion(a, v)
    BY DEF Numbering, SentGood, InVersion
  <2>2. v = Cur
    BY <2>1, Constants DEF InVersion
  <2> QED
    BY <1>7, <1>8, <2>1, <2>2
<1>12. NextIdFree'
  BY <1>4, <1>5, <1>7, <1>11 DEF NextIdFree
<1> QED
  BY <1>4, <1>5, <1>6, <1>9, <1>10, <1>12 DEF Numbering

-----------------------------------------------------------------------------
(* The kinds of steps *)

SameCalls ==
  \A c \in Clients :
    /\ rc'[c].pc = rc[c].pc /\ rc'[c].ver = rc[c].ver /\ rc'[c].quorum = rc[c].quorum
    /\ rc'[c].todo = rc[c].todo /\ rc'[c].min = rc[c].min /\ rc'[c].max = rc[c].max
    /\ rc'[c].at = rc[c].at

(* A call ends, or goes on with the range of log ids it has to copy. *)
GoesOn(c) ==
  \/ rc'[c].pc = "idle"
  \/ /\ rc[c].pc # "idle" /\ rc'[c].ver = rc[c].ver /\ rc'[c].quorum = rc[c].quorum
     /\ rc'[c].todo = rc[c].todo /\ rc'[c].min = rc[c].min /\ rc'[c].max = rc[c].max
     /\ rc'[c].pc \in {"fetch", "await"} =>
          rc[c].pc \in {"fetch", "await"} /\ rc'[c].at \in {rc[c].at, rc[c].at + 1}
     /\ rc'[c].pc = "fetch" =>
          rc'[c].at < rc'[c].max \/ (rc[c].pc = "fetch" /\ rc'[c].at = rc[c].at)

CheckedAt(a, r) ==
  /\ stage[a][r] = "sent" /\ Sent(a) /\ UNCHANGED <<store, seqr, op, rc, fill, onTime>>
  /\ op[a].ver[r] \in 1 .. Cur /\ Entered(r, op[a].ver[r], {}, 0)
  /\ nano'[r][op[a].ver[r]].sealed = GetNanoLog(r, op[a].ver[r]).sealed
  /\ \/ stage'[a][r] = "refused"
     \/ stage'[a][r] = "checked" /\ ~nano'[r][op[a].ver[r]].sealed
  /\ \A b \in Appends, x \in Replicas : b # a \/ x # r => stage'[b][x] = stage[b][x]

RefusedAt(a, r) ==
  /\ stage[a][r] = "checked" /\ stage'[a][r] = "refused"
  /\ UNCHANGED <<store, seqr, nano, op, rc, fill, onTime>>
  /\ \A b \in Appends, x \in Replicas : b # a \/ x # r => stage'[b][x] = stage[b][x]

StoredAt(a, r, acks) ==
  /\ stage[a][r] = "checked" /\ Sent(a) /\ op[a].ver[r] \in 1 .. Cur /\ op[a].logId \in LogIds
  /\ EntersAt(r, op[a].ver[r], op[a].logId, a, op[a].gci[r], acks, {a})
  /\ SameCalls /\ fill' \subseteq fill /\ UNCHANGED <<store, seqr, op>>

FilledAt(m, acks) ==
  /\ m.replica \in Replicas /\ m.ver \in 1 .. Cur /\ m.logId \in LogIds
  /\ EntersAt(m.replica, m.ver, m.logId, m.val, 0, acks, {})
  /\ \A x \in fill' : x \in fill \/ (x.val = m.val /\ x.ver = m.ver /\ x.logId = m.logId)
  /\ SameCalls /\ UNCHANGED <<store, seqr, op>>

SealedAt(c, r) ==
  /\ rc[c].pc = "seal" /\ r \in rc[c].quorum /\ Entered(r, rc[c].ver, {}, 0)
  /\ SealsOne(c, r, nano'[r][rc[c].ver].queue.cur)
  /\ UNCHANGED <<store, seqr, op, stage, fill, onTime>>

FetchedFrom(c, r) ==
  /\ MovesCall(c, "fetch", "await") /\ UNCHANGED <<store, seqr, nano, op, stage, onTime>>
  /\ rc[c].ver \in Versions /\ HasEntry(r, rc[c].ver, rc[c].at)
  /\ \A m \in fill' : \/ m \in fill
                      \/ /\ m.ver = rc[c].ver /\ m.logId = rc[c].at
                         /\ m.val = nano[r][rc[c].ver].logs[rc[c].at]

Quiet ==
  /\ UNCHANGED <<store, seqr, nano, op, stage, onTime>> /\ fill' \subseteq fill
  /\ \A c \in Clients : Continues(c) /\ GoesOn(c)

LEMMA SameCallsContinue ==
  ASSUME SameCalls
  PROVE  \A c \in Clients : Continues(c) /\ GoesOn(c)
<1> SUFFICES ASSUME NEW c \in Clients PROVE Continues(c) /\ GoesOn(c)
  OBVIOUS
<1>1. /\ rc'[c].pc = rc[c].pc /\ rc'[c].ver = rc[c].ver /\ rc'[c].quorum = rc[c].quorum
      /\ rc'[c].todo = rc[c].todo /\ rc'[c].min = rc[c].min /\ rc'[c].max = rc[c].max
      /\ rc'[c].at = rc[c].at
  BY DEF SameCalls
<1> QED
  BY <1>1 DEF Continues, GoesOn

LEMMA UntouchedContinues ==
  ASSUME NEW c \in Clients, rc'[c] = rc[c]
  PROVE  Continues(c) /\ GoesOn(c)
BY DEF Continues, GoesOn

LEMMA AnswersSame ==
  ASSUME LogInv, NEW answers \in SUBSET Fills, rc' = CountAnswers(answers)
  PROVE  SameCalls
BY CountAnswersIs DEF SameCalls

(* A request that was handled or is under way belongs to an append that sent
   all of its requests. *)
LEMMA HandledIsSent ==
  ASSUME LogInv, Numbering, NEW a \in Appends, NEW r \in Replicas,
         stage[a][r] \notin {"none", "sent"}
  PROVE  Sent(a)
<1>1. op[a] \in Ops /\ OpGood(a) /\ NumberedGood(a)
  BY OpTypes DEF LogInv, Numbering
<1>2. op[a].pc # "new" /\ op[a].pc # "numbered"
  BY <1>1 DEF OpGood, NumberedGood
<1> QED
  BY <1>1, <1>2 DEF Sent, Ops, OpPcs

(* All requests of an append go to one installed version. *)
LEMMA SentIn ==
  ASSUME OneAtATime, LogInv, Numbering, NEW a \in Appends, Sent(a)
  PROVE  \E v \in 1 .. Cur : /\ InVersion(a, v) /\ v \in Versions /\ Start(v) <= op[a].logId
                             /\ op[a].logId \in LogIds
<1>1. SentGood(a)
  BY DEF Numbering
<1> QED
  BY <1>1, VersionsOf, OpTypes DEF SentGood

LEMMA CheckSealedIs ==
  ASSUME OneAtATime, LogInv, Numbering, NEW a \in Appends, NEW r \in Replicas, CheckSealed(a, r)
  PROVE  CheckedAt(a, r)
<1>1. /\ stage[a][r] = "sent" /\ op[a].pc # "numbered"
      /\ UNCHANGED <<store, seqr, op, rc, fill, onTime>>
  BY DEF CheckSealed
<1>2. Sent(a)
  <2>1. op[a] \in Ops /\ OpGood(a)
    BY OpTypes DEF LogInv
  <2> QED
    BY <1>1, <2>1 DEF Sent, OpGood, Ops, OpPcs
<1>3. op[a].ver[r] \in 1 .. Cur
  BY <1>2, SentIn DEF InVersion
<1> QED
  BY <1>1, <1>2, <1>3, CheckSealedKeeps DEF CheckedAt

LEMMA RefuseOccupiedIs ==
  ASSUME LogInv, NEW a \in Appends, NEW r \in Replicas, RefuseOccupied(a, r)
  PROVE  RefusedAt(a, r)
<1>1. /\ stage[a][r] = "checked" /\ stage' = [stage EXCEPT ![a][r] = "refused"]
      /\ UNCHANGED <<store, seqr, nano, op, rc, fill, onTime>>
  BY DEF RefuseOccupied
<1> QED
  BY <1>1, OpTypes DEF RefusedAt

LEMMA StoreEntryIs ==
  ASSUME LogInv, Numbering, NEW a \in Appends, NEW r \in Replicas, StoreEntry(a, r)
  PROVE  \E A : StoredAt(a, r, A)
<1>1. /\ op[a].ver[r] \in 1 .. Cur /\ op[a].logId \in LogIds /\ stage[a][r] = "checked"
      /\ \E A : EntersAt(r, op[a].ver[r], op[a].logId, a, op[a].gci[r], A, {a})
  BY StoreEntryKeeps
<1>2. PICK B : B \subseteq fill /\ fill' = fill \ B /\ rc' = CountAnswers(B)
  BY DEF StoreEntry
<1>3. UNCHANGED <<store, seqr, op>>
  BY DEF StoreEntry
<1>4. B \in SUBSET Fills
  BY <1>2, SameRest
<1>5. SameCalls /\ Sent(a)
  BY <1>1, <1>2, <1>4, AnswersSame, HandledIsSent
<1> QED
  BY <1>1, <1>2, <1>3, <1>5 DEF StoredAt

LEMMA FillHoleIs ==
  ASSUME LogInv, NEW m \in fill, FillHole(m)
  PROVE  \E A : FilledAt(m, A)
<1>1. /\ m.replica \in Replicas /\ m.ver \in 1 .. Cur /\ m.logId \in LogIds
      /\ \E A : EntersAt(m.replica, m.ver, m.logId, m.val, 0, A, {})
  BY FillHoleKeeps
<1>2. PICK B : /\ B \subseteq fill /\ fill' \subseteq fill \union {[m EXCEPT !.st = "stored"]}
               /\ rc' = CountAnswers(B)
  BY DEF FillHole
<1>3. UNCHANGED <<store, seqr, op>>
  BY DEF FillHole
<1>4. B \in SUBSET Fills /\ m \in Fills
  BY <1>2, SameRest
<1>5. SameCalls
  BY <1>2, <1>4, AnswersSame
<1>6. \A x \in fill' : x \in fill \/ (x.val = m.val /\ x.ver = m.ver /\ x.logId = m.logId)
  <2> DEFINE w == [m EXCEPT !.st = "stored"]
  <2>1. w.val = m.val /\ w.ver = m.ver /\ w.logId = m.logId
    BY <1>4 DEF Fills
  <2>2. fill' \subseteq fill \union {w}
    BY <1>2
  <2> HIDE DEF w
  <2> QED
    BY <2>1, <2>2
<1> QED
  BY <1>1, <1>3, <1>5, <1>6 DEF FilledAt

LEMMA SealIs ==
  ASSUME LogInv, NEW c \in Clients, NEW r \in Replicas, Seal(c, r)
  PROVE  SealedAt(c, r)
<1>1. UNCHANGED <<store, seqr, op, stage, fill, onTime>>
  BY DEF Seal
<1> QED
  BY <1>1, SealKeeps DEF SealedAt

LEMMA FetchEntryIs ==
  ASSUME LogInv, NEW c \in Clients, NEW r \in Replicas, FetchEntry(c, r)
  PROVE  FetchedFrom(c, r)
<1>1. /\ rc[c].pc = "fetch"
      /\ rc' = [rc EXCEPT ![c] = [rc[c] EXCEPT !.pc = "await", !.oks = {}]]
      /\ UNCHANGED <<store, seqr, nano, op, stage, onTime>>
  BY DEF FetchEntry
<1>2. PICK oks : oks = {}
  OBVIOUS
<1>3. MovesCall(c, "fetch", "await")
  BY <1>1, <1>2, PcMoves
<1>4. rc[c].ver \in Versions
  BY <1>1, CallFacts
<1>5. PICK val \in GetLogEntry(r, rc[c].ver, rc[c].at) :
        fill' = fill \union
          {[client |-> c, replica |-> x, ver |-> rc[c].ver, logId |-> rc[c].at,
            val |-> val, st |-> "sent"] : x \in Replicas}
  BY DEF FetchEntry
<1>6. HasEntry(r, rc[c].ver, rc[c].at) /\ val = nano[r][rc[c].ver].logs[rc[c].at]
  BY DEF GetLogEntry, HasEntry, Occupied
<1>7. \A m \in fill' : m \in fill \/ (m.ver = rc[c].ver /\ m.logId = rc[c].at /\ m.val = val)
  BY <1>5
<1> QED
  BY <1>1, <1>3, <1>4, <1>6, <1>7 DEF FetchedFrom

LEMMA MovesGoOn ==
  ASSUME NEW c \in Clients, NEW from, NEW to, MovesCall(c, from, to), from # "idle",
         to \notin {"fetch", "await"}, to \in Installed <=> from \in Installed,
         from \notin {"startGci", "startVer"}, to \notin {"startGci", "startVer"}
  PROVE  \A d \in Clients : Continues(d) /\ GoesOn(d)
<1>1. Continues(c) /\ GoesOn(c)
  BY DEF MovesCall, Continues, GoesOn
<1>2. \A d \in Clients : d # c => rc'[d] = rc[d]
  BY DEF MovesCall
<1> QED
  BY <1>1, <1>2, UntouchedContinues

LEMMA EndGoesOn ==
  ASSUME NEW c \in Clients, EndsCall(c), rc[c].pc \notin {"startGci", "startVer"}
  PROVE  \A d \in Clients : Continues(d) /\ GoesOn(d)
<1>1. Continues(c) /\ GoesOn(c)
  BY DEF EndsCall, Continues, GoesOn
<1>2. \A d \in Clients : d # c => rc'[d] = rc[d]
  BY DEF EndsCall
<1> QED
  BY <1>1, <1>2, UntouchedContinues

LEMMA NextEntryQuiet ==
  ASSUME LogInv, NEW c \in Clients, NextEntry(c)
  PROVE  Quiet
<1> DEFINE e == [rc[c] EXCEPT !.at = rc[c].at + 1, !.pc = PhaseAt(rc[c].at + 1, rc[c].max)]
<1>1. /\ rc[c].pc = "await" /\ rc' = [rc EXCEPT ![c] = e] /\ LeaveFills(c)
      /\ UNCHANGED <<store, seqr, nano, op, stage, onTime>>
  BY DEF NextEntry
<1>2. rc[c] \in RcCalls /\ rc \in [Clients -> RcCalls]
  BY CallFacts
<1>3. /\ e.ver = rc[c].ver /\ e.quorum = rc[c].quorum /\ e.todo = rc[c].todo
      /\ e.min = rc[c].min /\ e.max = rc[c].max /\ e.at = rc[c].at + 1
      /\ e.pc = PhaseAt(rc[c].at + 1, rc[c].max)
  BY <1>2 DEF RcCalls
<1> HIDE DEF e
<1>4. rc'[c] = e /\ \A d \in Clients : d # c => rc'[d] = rc[d]
  BY <1>1, <1>2
<1>5. e.pc = "install" \/ (e.pc = "fetch" /\ e.at < e.max)
  BY <1>3 DEF PhaseAt
<1>6. Continues(c)
  BY <1>1, <1>3, <1>4, <1>5 DEF Continues, Installed
<1>7. GoesOn(c)
  BY <1>1, <1>3, <1>4, <1>5 DEF GoesOn
<1>8. fill' \subseteq fill
  BY <1>1 DEF LeaveFills
<1> QED
  BY <1>1, <1>4, <1>6, <1>7, <1>8, UntouchedContinues DEF Quiet

LEMMA QuietSteps ==
  ASSUME LogInv, NEW c \in Clients,
         LoseRace(c) \/ AdoptWinner(c) \/ SetState(c) \/ AbortReconfigure(c) \/ Refresh(c)
  PROVE  Quiet
<1>1. UNCHANGED <<store, seqr, nano, op, stage, onTime>> /\ fill' \subseteq fill
  BY DEF LoseRace, AdoptWinner, SetState, AbortReconfigure, Refresh, LeaveFills
<1>2. \A d \in Clients : Continues(d) /\ GoesOn(d)
  <2>1. CASE LoseRace(c)
    <3>1. MovesCall(c, "install", "adopt")
      BY <2>1, OnlyPcMoves DEF LoseRace
    <3> QED
      BY <3>1, MovesGoOn DEF Installed
  <2>2. CASE SetState(c)
    <3>1. MovesCall(c, "setState", "startNum")
      BY <2>2, OnlyPcMoves DEF SetState
    <3> QED
      BY <3>1, MovesGoOn DEF Installed
  <2>3. CASE AdoptWinner(c)
    <3>1. EndsCall(c) /\ rc[c].pc \notin {"startGci", "startVer"}
      BY <2>3, IdleAgain DEF AdoptWinner
    <3> QED
      BY <3>1, EndGoesOn
  <2>4. CASE AbortReconfigure(c)
    <3>1. EndsCall(c) /\ rc[c].pc \notin {"startGci", "startVer"}
      BY <2>4, IdleAgain DEF AbortReconfigure
    <3> QED
      BY <3>1, EndGoesOn
  <2>5. CASE Refresh(c)
    BY <2>5, UntouchedContinues DEF Refresh
  <2> QED
    BY <2>1, <2>2, <2>3, <2>4, <2>5
<1> QED
  BY <1>1, <1>2 DEF Quiet

LEMMA FillOccupiedQuiet ==
  ASSUME LogInv, NEW m \in fill, FillOccupied(m)
  PROVE  Quiet
<1>1. /\ fill' = fill \ {m} /\ rc' = CountAnswers({m})
      /\ UNCHANGED <<store, seqr, nano, op, stage, onTime>>
  BY DEF FillOccupied
<1>2. {m} \in SUBSET Fills
  BY SameRest
<1>3. SameCalls
  BY <1>1, <1>2, AnswersSame
<1> QED
  BY <1>1, <1>3, SameCallsContinue DEF Quiet

StepKinds ==
  \/ \E a \in Appends : TookId(a) \/ Ended(a)
  \/ \E a \in Appends, r \in Replicas : SentTo(a, r) \/ CheckedAt(a, r) \/ RefusedAt(a, r)
  \/ \E a \in Appends, r \in Replicas : \E A : StoredAt(a, r, A)
  \/ \E m \in fill : \E A : FilledAt(m, A)
  \/ \E c \in Clients, s \in Sequencers, Q \in SUBSET Replicas : BeginReconfigure(c, s, Q)
  \/ \E c \in Clients, r \in Replicas : SealedAt(c, r) \/ FetchedFrom(c, r)
  \/ \E c \in Clients : Install(c) \/ StartNum(c) \/ StartGci(c) \/ StartVer(c)
  \/ Quiet

LEMMA StepIs ==
  ASSUME OneAtATime, LogInv, Numbering, [Next]_vars
  PROVE  StepKinds
<1>1. CASE UNCHANGED vars
  <2>1. UNCHANGED <<store, seqr, nano, op, stage, rc, fill, onTime>>
    BY <1>1 DEF vars
  <2> QED
    BY <2>1, UntouchedContinues DEF StepKinds, Quiet
<1>2. ASSUME NEW c \in Clients, NEW a \in Appends, TakeLogId(c, a)
      PROVE  StepKinds
  BY <1>2, TakeLogIdIs DEF StepKinds
<1>3. ASSUME NEW a \in Appends, NEW r \in Replicas,
             SendAppend(a, r) \/ CheckSealed(a, r) \/ RefuseOccupied(a, r) \/ StoreEntry(a, r)
      PROVE  StepKinds
  <2>1. CASE SendAppend(a, r)
    BY <2>1, SendAppendIs DEF StepKinds
  <2>2. CASE CheckSealed(a, r)
    BY <2>2, CheckSealedIs DEF StepKinds
  <2>3. CASE RefuseOccupied(a, r)
    BY <2>3, RefuseOccupiedIs DEF StepKinds
  <2>4. CASE StoreEntry(a, r)
    BY <2>4, StoreEntryIs DEF StepKinds
  <2> QED
    BY <1>3, <2>1, <2>2, <2>3, <2>4
<1>4. ASSUME NEW a \in Appends, CommitAppend(a) \/ FailAppend(a)
      PROVE  StepKinds
  BY <1>4, EndAppendIs DEF StepKinds
<1>5. ASSUME NEW c \in Clients, NEW s \in Sequencers, NEW Q \in SUBSET Replicas,
             BeginReconfigure(c, s, Q)
      PROVE  StepKinds
  BY <1>5 DEF StepKinds
<1>6. ASSUME NEW c \in Clients, NEW r \in Replicas, Seal(c, r) \/ FetchEntry(c, r)
      PROVE  StepKinds
  BY <1>6, SealIs, FetchEntryIs DEF StepKinds
<1>7. ASSUME NEW m \in fill, FillOccupied(m) \/ FillHole(m)
      PROVE  StepKinds
  BY <1>7, FillOccupiedQuiet, FillHoleIs DEF StepKinds
<1>8. ASSUME NEW c \in Clients,
             NextEntry(c) \/ LoseRace(c) \/ AdoptWinner(c) \/ SetState(c)
               \/ AbortReconfigure(c) \/ Refresh(c)
      PROVE  StepKinds
  BY <1>8, NextEntryQuiet, QuietSteps DEF StepKinds
<1>9. ASSUME NEW c \in Clients, Install(c) \/ StartNum(c) \/ StartGci(c) \/ StartVer(c)
      PROVE  StepKinds
  BY <1>9 DEF StepKinds
<1> QED
  BY <1>1, <1>2, <1>3, <1>4, <1>5, <1>6, <1>7, <1>8, <1>9 DEF Next

LEMMA NumberingStep ==
  ASSUME OneAtATime, LogInv, Turns, Numbering, StepKinds
  PROVE  Turns' /\ Numbering'
<1>1. ASSUME UNCHANGED <<op, seqr, store>>, \A c \in Clients : Continues(c),
             \A a \in Appends, r \in Replicas :
               stage'[a][r] = stage[a][r] \/ stage[a][r] \notin {"none", "sent"} \/ Sent(a)
      PROVE  Turns' /\ Numbering'
  <2>1. \A a \in Appends : op[a].pc = "numbered" =>
          \A r \in Replicas : stage'[a][r] = stage[a][r]
    BY <1>1 DEF Numbering, NumberedGood, Sent
  <2> QED
    BY <1>1, <2>1, CallsContinue
<1>2. ASSUME NEW a \in Appends, TookId(a) \/ Ended(a)
      PROVE  Turns' /\ Numbering'
  BY <1>2, TakeLogIdNumbers, EndAppendNumbers
<1>3. ASSUME NEW a \in Appends, NEW r \in Replicas, SentTo(a, r) \/ CheckedAt(a, r) \/ RefusedAt(a, r)
      PROVE  Turns' /\ Numbering'
  <2>1. CASE SentTo(a, r)
    BY <2>1, SendAppendNumbers
  <2>2. CASE CheckedAt(a, r)
    BY <1>1, <2>2, UntouchedContinues DEF CheckedAt
  <2>3. CASE RefusedAt(a, r)
    BY <1>1, <2>3, UntouchedContinues DEF RefusedAt
  <2> QED
    BY <1>3, <2>1, <2>2, <2>3
<1>4. ASSUME NEW a \in Appends, NEW r \in Replicas, NEW A, StoredAt(a, r, A)
      PROVE  Turns' /\ Numbering'
  <2>1. \A b \in Appends, x \in Replicas :
          stage'[b][x] = stage[b][x] \/ stage[b][x] \notin {"none", "sent"}
    BY <1>4 DEF StoredAt, EntersAt, Stores
  <2> QED
    BY <1>1, <1>4, <2>1, SameCallsContinue DEF StoredAt
<1>5. ASSUME NEW m \in fill, NEW A, FilledAt(m, A)
      PROVE  Turns' /\ Numbering'
  <2>1. \A b \in Appends, x \in Replicas :
          stage'[b][x] = stage[b][x] \/ stage[b][x] \notin {"none", "sent"}
    BY <1>5 DEF FilledAt, EntersAt, Stores
  <2> QED
    BY <1>1, <1>5, <2>1, SameCallsContinue DEF FilledAt
<1>6. ASSUME NEW c \in Clients, NEW s \in Sequencers, NEW Q \in SUBSET Replicas,
             BeginReconfigure(c, s, Q)
      PROVE  Turns' /\ Numbering'
  BY <1>6, BeginNumbers
<1>7. ASSUME NEW c \in Clients, NEW r \in Replicas, SealedAt(c, r)
      PROVE  Turns' /\ Numbering'
  <2>1. /\ rc[c].pc = "seal" /\ rc'[c].pc \in {"seal", "install", "fetch"} /\ rc'[c].ver = rc[c].ver
        /\ \A d \in Clients : d # c => rc'[d] = rc[d]
        /\ UNCHANGED <<store, seqr, op, stage>>
    BY <1>7 DEF SealedAt, SealsOne
  <2>2. Continues(c)
    BY <2>1 DEF Continues, Installed
  <2> QED
    BY <1>1, <2>1, <2>2, UntouchedContinues
<1>8. ASSUME NEW c \in Clients, NEW r \in Replicas, FetchedFrom(c, r)
      PROVE  Turns' /\ Numbering'
  <2>1. /\ rc[c].pc = "fetch" /\ rc'[c].pc = "await" /\ rc'[c].ver = rc[c].ver
        /\ \A d \in Clients : d # c => rc'[d] = rc[d]
        /\ UNCHANGED <<store, seqr, op, stage>>
    BY <1>8 DEF FetchedFrom, MovesCall
  <2>2. Continues(c)
    BY <2>1 DEF Continues, Installed
  <2> QED
    BY <1>1, <2>1, <2>2, UntouchedContinues
<1>9. ASSUME NEW c \in Clients, Install(c) \/ StartNum(c) \/ StartGci(c) \/ StartVer(c)
      PROVE  Turns' /\ Numbering'
  BY <1>9, InstallNumbers, StartNumbers, StartVerNumbers
<1>10. CASE Quiet
  BY <1>1, <1>10 DEF Quiet
<1> QED
  BY <1>2, <1>3, <1>4, <1>5, <1>6, <1>7, <1>8, <1>9, <1>10 DEF StepKinds

-----------------------------------------------------------------------------
(* Placement *)

(* Appends that sent their requests keep their versions and log ids, and the
   versions their starts. *)
Stays ==
  /\ \A a \in Appends : Sent(a) =>
       /\ op'[a].pc \in {"sent", "acked", "failed"} /\ op'[a].logId = op[a].logId
       /\ op'[a].ver = op[a].ver /\ op'[a].gci = op[a].gci
  /\ \A v \in 1 .. Cur : Start(v)' = Start(v)
  /\ Cur' \in Int /\ Cur <= Cur'

LEMMA StepStays ==
  ASSUME OneAtATime, LogInv, Turns, Numbering, StepKinds
  PROVE  Stays
<1>0. Cur \in Int
  BY VersionsOf
<1>1. ASSUME UNCHANGED store,
             \A a \in Appends : Sent(a) =>
               /\ op'[a].pc \in {"sent", "acked", "failed"} /\ op'[a].logId = op[a].logId
               /\ op'[a].ver = op[a].ver /\ op'[a].gci = op[a].gci
      PROVE  Stays
  BY <1>0, <1>1 DEF Stays, Start, Cur
<1>2. ASSUME UNCHANGED <<store, op>> PROVE Stays
  BY <1>1, <1>2 DEF Sent
<1>3. ASSUME NEW a \in Appends, TookId(a) \/ Ended(a)
      PROVE  Stays
  BY <1>1, <1>3 DEF TookId, Ended, Sent
<1>4. ASSUME NEW a \in Appends, NEW r \in Replicas, SentTo(a, r) \/ CheckedAt(a, r) \/ RefusedAt(a, r)
      PROVE  Stays
  <2>1. CASE SentTo(a, r)
    BY <1>1, <2>1 DEF SentTo, Sent
  <2>2. CASE CheckedAt(a, r) \/ RefusedAt(a, r)
    BY <1>2, <2>2 DEF CheckedAt, RefusedAt
  <2> QED
    BY <1>4, <2>1, <2>2
<1>5. ASSUME NEW a \in Appends, NEW r \in Replicas, NEW A, StoredAt(a, r, A)
      PROVE  Stays
  BY <1>2, <1>5 DEF StoredAt
<1>6. ASSUME NEW m \in fill, NEW A, FilledAt(m, A)
      PROVE  Stays
  BY <1>2, <1>6 DEF FilledAt
<1>7. ASSUME NEW c \in Clients, NEW s \in Sequencers, NEW Q \in SUBSET Replicas,
             BeginReconfigure(c, s, Q)
      PROVE  Stays
  BY <1>2, <1>7 DEF BeginReconfigure
<1>8. ASSUME NEW c \in Clients, NEW r \in Replicas, SealedAt(c, r) \/ FetchedFrom(c, r)
      PROVE  Stays
  BY <1>2, <1>8 DEF SealedAt, FetchedFrom
<1>9. ASSUME NEW c \in Clients, StartNum(c) \/ StartGci(c) \/ StartVer(c)
      PROVE  Stays
  BY <1>2, <1>9, StartIs
<1>10. ASSUME NEW c \in Clients, Install(c)
       PROVE  Stays
  <2>1. Cur' = Cur + 1 /\ (\A v \in 1 .. Cur : Start(v)' = Start(v)) /\ UNCHANGED op
    BY <1>10, InstallNumbers DEF Install
  <2> QED
    BY <1>0, <2>1 DEF Stays, Sent
<1>11. CASE Quiet
  BY <1>2, <1>11 DEF Quiet
<1> QED
  BY <1>3, <1>4, <1>5, <1>6, <1>7, <1>8, <1>9, <1>10, <1>11 DEF StepKinds

LEMMA PlacedStays ==
  ASSUME Stays, NEW a \in Appends, NEW v, NEW n, Placed(a, v, n)
  PROVE  Placed(a, v, n)'
<1>1. Sent(a) /\ (\A r \in Replicas : op[a].ver[r] = v) /\ op[a].logId = n
  BY DEF Placed, InVersion
<1>2. op'[a].pc \in {"sent", "acked", "failed"} /\ op'[a].logId = n /\ op'[a].ver = op[a].ver
  BY <1>1 DEF Stays
<1> QED
  BY <1>1, <1>2 DEF Placed, InVersion, Sent

LEMMA EntryStays ==
  ASSUME LogsGrow, NEW r \in Replicas, NEW v \in Versions, NEW n, HasEntry(r, v, n)
  PROVE  HasEntry(r, v, n)' /\ nano'[r][v].logs[n] = nano[r][v].logs[n]
BY DEF HasEntry, LogsGrow, Grown

(* Replica r has an entry at n of version v after the step. *)
GetsEntry(r, v, n) == nano'[r][v] # NoLog /\ n \in DOMAIN nano'[r][v].logs

(* What a step adds has to be in its place. *)
LEMMA KeepsPlacement ==
  ASSUME LogInv, Numbering, Placement, LogInv', Numbering', LogsGrow, Stays,
         \A r \in Replicas, v \in Versions, n \in LogIds :
           GetsEntry(r, v, n) => HasEntry(r, v, n) \/ Placed(nano'[r][v].logs[n], v, n),
         \A m \in fill' : Placed(m.val, m.ver, m.logId),
         \A a \in Appends, r \in Replicas : stage'[a][r] \in {"stored", "acked"} =>
           \/ stage[a][r] \in {"stored", "acked"}
           \/ /\ GetsEntry(r, op[a].ver[r], op[a].logId) /\ Sent(a)
              /\ nano'[r][op[a].ver[r]].logs[op[a].logId] = a
  PROVE  Placement'
<1>1. \A r \in Replicas, v \in Versions, n \in LogIds :
        HasEntry(r, v, n)' => Placed(nano[r][v].logs[n], v, n)'
  <2> SUFFICES ASSUME NEW r \in Replicas, NEW v \in Versions, NEW n \in LogIds, HasEntry(r, v, n)'
               PROVE  Placed(nano[r][v].logs[n], v, n)'
    OBVIOUS
  <2>1. PICK a : a = nano'[r][v].logs[n]
    OBVIOUS
  <2>2. a \in Appends
    <3>1. nano'[r][v] # NoLog /\ n \in DOMAIN nano'[r][v].logs
      BY DEF HasEntry
    <3>2. GoodLog(nano[r][v], store.configs[v].start)'
      BY <3>1 DEF LogInv, LogsGood
    <3> QED
      BY <2>1, <3>1, <3>2 DEF GoodLog
  <2>3. Placed(a, v, n)
    <3>1. CASE HasEntry(r, v, n)
      BY <2>1, <3>1, EntryStays DEF Placement
    <3>2. CASE ~HasEntry(r, v, n)
      BY <2>1, <3>2 DEF GetsEntry, HasEntry
    <3> QED
      BY <3>1, <3>2
  <2>4. Placed(a, v, n)'
    BY <2>2, <2>3, PlacedStays
  <2> QED
    BY <2>1, <2>4
<1>2. \A m \in fill' : Placed(m.val, m.ver, m.logId)'
  <2> TAKE m \in fill'
  <2>1. m.val \in Appends
    BY DEF LogInv, Types, Fills
  <2> QED
    BY <2>1, PlacedStays
<1>3. \A a \in Appends, r \in Replicas : stage'[a][r] \in {"stored", "acked"} =>
        /\ GetsEntry(r, op'[a].ver[r], op'[a].logId)
        /\ nano'[r][op'[a].ver[r]].logs[op'[a].logId] = a
  <2> SUFFICES ASSUME NEW a \in Appends, NEW r \in Replicas, stage'[a][r] \in {"stored", "acked"}
               PROVE  /\ GetsEntry(r, op'[a].ver[r], op'[a].logId)
                      /\ nano'[r][op'[a].ver[r]].logs[op'[a].logId] = a
    OBVIOUS
  <2>0. PICK v, n : v = op[a].ver[r] /\ n = op[a].logId
    OBVIOUS
  <2>1. Sent(a)
    <3>1. CASE stage[a][r] \in {"stored", "acked"}
      BY <3>1, HandledIsSent
    <3>2. CASE stage[a][r] \notin {"stored", "acked"}
      BY <3>2
    <3> QED
      BY <3>1, <3>2
  <2>2. op'[a].ver[r] = v /\ op'[a].logId = n
    BY <2>0, <2>1 DEF Stays
  <2>3. GetsEntry(r, v, n) /\ nano'[r][v].logs[n] = a
    <3>1. CASE stage[a][r] \in {"stored", "acked"}
      <4>1. HasEntry(r, v, n) /\ nano[r][v].logs[n] = a
        BY <2>0, <3>1 DEF Placement
      <4>2. v \in Versions
        BY <2>0, <3>1 DEF LogInv, OpGood
      <4> QED
        BY <4>1, <4>2, EntryStays DEF HasEntry, GetsEntry
    <3>2. CASE stage[a][r] \notin {"stored", "acked"}
      BY <2>0, <3>2
    <3> QED
      BY <3>1, <3>2
  <2> QED
    BY <2>2, <2>3
<1>4. Placement' <=> /\ \A r \in Replicas, v \in Versions, n \in LogIds :
                          HasEntry(r, v, n)' => Placed(nano[r][v].logs[n], v, n)'
                     /\ \A m \in fill' : Placed(m.val, m.ver, m.logId)'
                     /\ \A a \in Appends, r \in Replicas : stage'[a][r] \in {"stored", "acked"} =>
                          /\ GetsEntry(r, op'[a].ver[r], op'[a].logId)
                          /\ nano'[r][op'[a].ver[r]].logs[op'[a].logId] = a
  BY DEF Placement, HasEntry, GetsEntry
<1> QED
  BY <1>1, <1>2, <1>3, <1>4

(* Only replica r, version v gets entries, at the log ids N. *)
LEMMA EnteredOnly ==
  ASSUME LogInv, NEW r \in Replicas, NEW v \in 1 .. Cur, NEW N, NEW g, Entered(r, v, N, g)
  PROVE  \A x \in Replicas, u \in Versions, n \in LogIds :
           GetsEntry(x, u, n) => HasEntry(x, u, n) \/ (x = r /\ u = v /\ n \in N)
<1>1. PICK l : l = GetNanoLog(r, v)
  OBVIOUS
<1>2. /\ nano[r][v] # NoLog => l = nano[r][v]
      /\ nano[r][v] = NoLog => DOMAIN l.logs = {}
  BY <1>1, GetNanoLogIs
<1>3. /\ DOMAIN nano'[r][v].logs = DOMAIN l.logs \union N
      /\ \A x \in Replicas, u \in Versions : x # r \/ u # v => nano'[x][u] = nano[x][u]
  BY <1>1 DEF Entered
<1> QED
  BY <1>2, <1>3 DEF GetsEntry, HasEntry

LEMMA SameEntries ==
  ASSUME UNCHANGED nano
  PROVE  \A r \in Replicas, v \in Versions, n \in LogIds : GetsEntry(r, v, n) => HasEntry(r, v, n)
BY DEF GetsEntry, HasEntry

(* The acknowledgements of a step that stores an entry. *)
LEMMA AcksPlaced ==
  ASSUME LogInv, Numbering, Placement, LogsGrow, NEW r \in Replicas, NEW v \in Versions,
         NEW n, NEW p, NEW g, NEW acks, NEW new, EntersAt(r, v, n, p, g, acks, new),
         \A a \in new : a \in Appends /\ Sent(a) /\ op[a].ver[r] = v /\ op[a].logId = n /\ p = a
  PROVE  \A a \in Appends, x \in Replicas : stage'[a][x] \in {"stored", "acked"} =>
           \/ stage[a][x] \in {"stored", "acked"}
           \/ /\ GetsEntry(x, op[a].ver[x], op[a].logId) /\ Sent(a)
              /\ nano'[x][op[a].ver[x]].logs[op[a].logId] = a
<1> SUFFICES ASSUME NEW a \in Appends, NEW x \in Replicas, stage'[a][x] \in {"stored", "acked"},
                    stage[a][x] \notin {"stored", "acked"}
             PROVE  /\ GetsEntry(x, op[a].ver[x], op[a].logId) /\ Sent(a)
                    /\ nano'[x][op[a].ver[x]].logs[op[a].logId] = a
  OBVIOUS
<1>1. x = r /\ a \in new
  BY DEF EntersAt, Stores
<1>2. nano'[r][v] # NoLog /\ n \in DOMAIN nano'[r][v].logs /\ nano'[r][v].logs[n] = p
  BY DEF EntersAt, Entered
<1> QED
  BY <1>1, <1>2 DEF GetsEntry

LEMMA PlacementStep ==
  ASSUME OneAtATime, LogInv, Numbering, Placement, StepKinds,
         LogInv', Numbering', LogsGrow, Stays
  PROVE  Placement'
<1>1. ASSUME UNCHANGED nano, fill' \subseteq fill,
             \A a \in Appends, r \in Replicas : stage'[a][r] \in {"stored", "acked"} =>
               stage[a][r] \in {"stored", "acked"}
      PROVE  Placement'
  <2>1. \A m \in fill' : Placed(m.val, m.ver, m.logId)
    BY <1>1 DEF Placement
  <2> QED
    BY <1>1, <2>1, SameEntries, KeepsPlacement
<1>2. ASSUME UNCHANGED <<nano, fill, stage>> PROVE Placement'
  BY <1>1, <1>2
<1>3. ASSUME NEW a \in Appends, TookId(a) \/ Ended(a) PROVE Placement'
  BY <1>1, <1>3 DEF TookId, Ended
<1>4. ASSUME NEW a \in Appends, NEW r \in Replicas, SentTo(a, r) \/ RefusedAt(a, r) PROVE Placement'
  <2>1. /\ UNCHANGED <<nano, fill>> /\ stage'[a][r] \in {"sent", "refused"}
        /\ \A b \in Appends, x \in Replicas : b # a \/ x # r => stage'[b][x] = stage[b][x]
    BY <1>4 DEF SentTo, RefusedAt
  <2> QED
    BY <1>1, <2>1
<1>5. ASSUME NEW a \in Appends, NEW r \in Replicas, CheckedAt(a, r) PROVE Placement'
  <2>1. PICK v : v = op[a].ver[r]
    OBVIOUS
  <2>2. v \in 1 .. Cur /\ Entered(r, v, {}, 0) /\ UNCHANGED fill
    BY <1>5, <2>1 DEF CheckedAt
  <2>3. \A x \in Replicas, u \in Versions, n \in LogIds : GetsEntry(x, u, n) => HasEntry(x, u, n)
    BY <2>2, EnteredOnly
  <2>4. \A m \in fill' : Placed(m.val, m.ver, m.logId)
    BY <2>2 DEF Placement
  <2>5. \A b \in Appends, x \in Replicas : stage'[b][x] \in {"stored", "acked"} =>
          stage[b][x] \in {"stored", "acked"}
    BY <1>5 DEF CheckedAt
  <2> QED
    BY <2>3, <2>4, <2>5, KeepsPlacement
<1>6. ASSUME NEW a \in Appends, NEW r \in Replicas, NEW A, StoredAt(a, r, A) PROVE Placement'
  <2>1. PICK v, n, g : v = op[a].ver[r] /\ n = op[a].logId /\ g = op[a].gci[r]
    OBVIOUS
  <2>2. /\ v \in 1 .. Cur /\ n \in LogIds /\ EntersAt(r, v, n, a, g, A, {a}) /\ Sent(a)
        /\ fill' \subseteq fill
    BY <1>6, <2>1 DEF StoredAt
  <2>3. v \in Versions /\ Placed(a, v, n)
    BY <2>1, <2>2, SentIn DEF Placed, InVersion
  <2>4. Entered(r, v, {n}, g) /\ nano'[r][v].logs[n] = a
    BY <2>2 DEF EntersAt
  <2>5. \A x \in Replicas, u \in Versions, i \in LogIds :
          GetsEntry(x, u, i) => HasEntry(x, u, i) \/ Placed(nano'[x][u].logs[i], u, i)
    BY <2>2, <2>3, <2>4, EnteredOnly
  <2>6. \A m \in fill' : Placed(m.val, m.ver, m.logId)
    BY <2>2 DEF Placement
  <2>7. \A b \in Appends, x \in Replicas : stage'[b][x] \in {"stored", "acked"} =>
           \/ stage[b][x] \in {"stored", "acked"}
           \/ /\ GetsEntry(x, op[b].ver[x], op[b].logId) /\ Sent(b)
              /\ nano'[x][op[b].ver[x]].logs[op[b].logId] = b
    BY <2>1, <2>2, <2>3, AcksPlaced
  <2> QED
    BY <2>5, <2>6, <2>7, KeepsPlacement
<1>7. ASSUME NEW m \in fill, NEW A, FilledAt(m, A) PROVE Placement'
  <2>1. PICK r, v, n, p : r = m.replica /\ v = m.ver /\ n = m.logId /\ p = m.val
    OBVIOUS
  <2>2. /\ r \in Replicas /\ v \in 1 .. Cur /\ n \in LogIds /\ EntersAt(r, v, n, p, 0, A, {})
        /\ \A x \in fill' : x \in fill \/ (x.val = p /\ x.ver = v /\ x.logId = n)
    BY <1>7, <2>1 DEF FilledAt
  <2>3. v \in Versions /\ Placed(p, v, n)
    BY <2>1, <2>2, VersionsOf DEF Placement
  <2>4. Entered(r, v, {n}, 0) /\ nano'[r][v].logs[n] = p
    BY <2>2 DEF EntersAt
  <2>5. \A x \in Replicas, u \in Versions, i \in LogIds :
          GetsEntry(x, u, i) => HasEntry(x, u, i) \/ Placed(nano'[x][u].logs[i], u, i)
    <3>1. \A x \in Replicas, u \in Versions, i \in LogIds :
            GetsEntry(x, u, i) => HasEntry(x, u, i) \/ (x = r /\ u = v /\ i \in {n})
      BY <2>2, <2>4, EnteredOnly
    <3> QED
      BY <2>3, <2>4, <3>1
  <2>6. \A x \in fill' : Placed(x.val, x.ver, x.logId)
    BY <2>2, <2>3 DEF Placement
  <2>7. \A b \in Appends, x \in Replicas : stage'[b][x] \in {"stored", "acked"} =>
           \/ stage[b][x] \in {"stored", "acked"}
           \/ /\ GetsEntry(x, op[b].ver[x], op[b].logId) /\ Sent(b)
              /\ nano'[x][op[b].ver[x]].logs[op[b].logId] = b
    BY <2>2, <2>3, AcksPlaced
  <2> QED
    BY <2>5, <2>6, <2>7, KeepsPlacement
<1>8. ASSUME NEW c \in Clients, NEW s \in Sequencers, NEW Q \in SUBSET Replicas,
             BeginReconfigure(c, s, Q)
      PROVE  Placement'
  BY <1>2, <1>8 DEF BeginReconfigure
<1>9. ASSUME NEW c \in Clients, NEW r \in Replicas, SealedAt(c, r) PROVE Placement'
  <2>1. PICK v : v = rc[c].ver
    OBVIOUS
  <2>2. v \in 1 .. Cur /\ Entered(r, v, {}, 0) /\ UNCHANGED <<fill, stage>>
    BY <1>9, <2>1, CallFacts DEF SealedAt
  <2>3. \A x \in Replicas, u \in Versions, n \in LogIds : GetsEntry(x, u, n) => HasEntry(x, u, n)
    BY <2>2, EnteredOnly
  <2>4. \A m \in fill' : Placed(m.val, m.ver, m.logId)
    BY <2>2 DEF Placement
  <2> QED
    BY <2>2, <2>3, <2>4, KeepsPlacement
<1>10. ASSUME NEW c \in Clients, NEW r \in Replicas, FetchedFrom(c, r) PROVE Placement'
  <2>1. PICK v, n, p : v = rc[c].ver /\ n = rc[c].at /\ p = nano[r][v].logs[n]
    OBVIOUS
  <2>2. /\ v \in Versions /\ HasEntry(r, v, n) /\ UNCHANGED <<nano, stage>>
        /\ \A m \in fill' : m \in fill \/ (m.ver = v /\ m.logId = n /\ m.val = p)
    BY <1>10, <2>1 DEF FetchedFrom
  <2>3. n \in LogIds
    BY <2>2, LogFacts DEF HasEntry, GoodLog
  <2>4. Placed(p, v, n)
    BY <2>1, <2>2, <2>3 DEF Placement
  <2>5. \A m \in fill' : Placed(m.val, m.ver, m.logId)
    BY <2>2, <2>4 DEF Placement
  <2> QED
    BY <2>2, <2>5, SameEntries, KeepsPlacement
<1>11. ASSUME NEW c \in Clients, Install(c) \/ StartNum(c) \/ StartGci(c) \/ StartVer(c)
       PROVE  Placement'
  BY <1>2, <1>11 DEF Install, StartNum, StartGci, StartVer
<1>12. CASE Quiet
  BY <1>1, <1>12 DEF Quiet
<1> QED
  BY <1>3, <1>4, <1>5, <1>6, <1>7, <1>8, <1>9, <1>10, <1>11, <1>12 DEF StepKinds

-----------------------------------------------------------------------------
(* What replicas have passed *)

LEMMA QuorumStays ==
  ASSUME LogsGrow, NEW v \in Versions, NEW n, OnQuorum(v, n)
  PROVE  OnQuorum(v, n)'
<1>1. PICK Q \in Quorums : \A r \in Q : HasEntry(r, v, n)
  BY DEF OnQuorum
<1>2. \A r \in Q : HasEntry(r, v, n)'
  BY <1>1, EntryStays DEF Quorums
<1> QED
  BY <1>1, <1>2 DEF OnQuorum, Quorums

LEMMA CommitsStay ==
  ASSUME OneAtATime, LogInv, Numbering, LogsGrow, Stays, NEW v \in 1 .. Cur, NEW g, CommitsOn(v, g)
  PROVE  CommitsOn(v, g)'
<1>1. v \in Versions /\ Start(v)' = Start(v)
  BY VersionsOf DEF Stays
<1>2. \A n \in LogIds : Start(v) <= n /\ n < g => OnQuorum(v, n)'
  BY <1>1, QuorumStays DEF CommitsOn
<1> QED
  BY <1>1, <1>2 DEF CommitsOn

(* The requests that were prepared go to installed versions. *)
LEMMA RequestIn ==
  ASSUME OneAtATime, LogInv, Numbering, NEW a \in Appends, NEW r \in Replicas, stage[a][r] # "none"
  PROVE  op[a].ver[r] \in 1 .. Cur
<1>1. op[a] \in Ops /\ OpGood(a) /\ NumberedGood(a)
  BY OpTypes DEF LogInv, Numbering
<1>2. CASE Sent(a)
  BY <1>2, SentIn DEF InVersion
<1>3. CASE op[a].pc = "numbered"
  BY <1>1, <1>3, VersionsOf DEF NumberedGood
<1>4. op[a].pc # "new"
  BY <1>1 DEF OpGood
<1> QED
  BY <1>1, <1>2, <1>3, <1>4 DEF Sent, Ops, OpPcs

(* What a step has to show: its new entries and commit indices skip nothing
   that is not on a quorum. *)
SafeLogs ==
  \A r \in Replicas, v \in Versions :
    \/ nano'[r][v] = nano[r][v]
    \/ v \in 1 .. Cur /\ \E N, g : Entered(r, v, N, g) /\ CommitsOn(v, g)

SafeAcks ==
  \A a \in Appends, r \in Replicas : stage'[a][r] = "acked" =>
    \/ stage[a][r] = "acked"
    \/ Sent(a) /\ op[a].logId < nano'[r][op[a].ver[r]].queue.cur

SafeRequests ==
  \A a \in Appends, r \in Replicas : stage'[a][r] # "none" =>
    op'[a].ver[r] \in 1 .. Cur /\ CommitsOn(op'[a].ver[r], op'[a].gci[r])

SafeSequencer ==
  (\A c \in Clients : rc'[c].pc # "startVer") =>
    /\ seqr'[FirstSequencer].ver \in 1 .. Cur
    /\ CommitsOn(seqr'[FirstSequencer].ver, seqr'[FirstSequencer].gci)

LEMMA KeepsPassedHeld ==
  ASSUME OneAtATime, LogInv, Numbering, Passed, LogInv', LogsGrow, Stays, SafeLogs
  PROVE  PassedHeld'
<1> SUFFICES ASSUME NEW r \in Replicas, NEW v \in Versions, NEW n \in LogIds,
                    nano'[r][v] # NoLog, Start(v)' <= n, n < nano'[r][v].queue.cur
             PROVE  HasEntry(r, v, n)' \/ OnQuorum(v, n)'
  BY DEF PassedHeld
<1>0. n \in Int
  BY DEF LogIds
<1>1. ASSUME nano[r][v] # NoLog, n < nano[r][v].queue.cur
      PROVE  HasEntry(r, v, n)' \/ OnQuorum(v, n)'
  <2>1. v \in 1 .. Cur
    BY <1>1, LogFacts
  <2>2. Start(v)' = Start(v)
    BY <2>1 DEF Stays
  <2>3. HasEntry(r, v, n) \/ OnQuorum(v, n)
    BY <1>1, <2>2 DEF Passed, PassedHeld
  <2> QED
    BY <2>3, EntryStays, QuorumStays
<1>2. CASE nano'[r][v] = nano[r][v]
  BY <1>1, <1>2
<1>3. ASSUME v \in 1 .. Cur, NEW N, NEW g, Entered(r, v, N, g), CommitsOn(v, g)
      PROVE  HasEntry(r, v, n)' \/ OnQuorum(v, n)'
  <2>1. PICK l : l = GetNanoLog(r, v)
    OBVIOUS
  <2>2. /\ GoodLog(l, Start(v))
        /\ nano[r][v] # NoLog => l = nano[r][v]
        /\ nano[r][v] = NoLog => l.queue.cur = Start(v)
    BY <1>3, <2>1, GetNanoLogIs DEF Start
  <2>3. Start(v)' = Start(v) /\ l.queue.cur \in Int
    <3>1. QueueOver(l.queue, 1, MaxLogId)
      BY <2>2 DEF GoodLog
    <3> QED
      BY <1>3, <3>1, Constants DEF Stays, QueueOver
  <2>4. CASE l.queue.cur <= n
    <3>1. n \in DOMAIN nano'[r][v].logs \/ n < g
      BY <1>3, <2>1, <2>4 DEF Entered
    <3>2. CASE n \in DOMAIN nano'[r][v].logs
      BY <3>2 DEF HasEntry
    <3>3. CASE n < g
      BY <1>3, <2>3, <3>3, QuorumStays DEF CommitsOn
    <3> QED
      BY <3>1, <3>2, <3>3
  <2>5. CASE n < l.queue.cur
    BY <1>1, <2>2, <2>3, <2>5, <1>0
  <2> QED
    BY <1>0, <2>3, <2>4, <2>5
<1> QED
  BY <1>2, <1>3 DEF SafeLogs

LEMMA KeepsAckedPassed ==
  ASSUME LogInv, Numbering, Passed, LogInv', LogsGrow, Stays, SafeAcks
  PROVE  AckedPassed'
<1> SUFFICES ASSUME NEW a \in Appends, NEW r \in Replicas, stage'[a][r] = "acked"
             PROVE  op'[a].logId < nano'[r][op'[a].ver[r]].queue.cur
  BY DEF AckedPassed
<1>1. CASE stage[a][r] = "acked"
  <2>1. PICK v, n : v = op[a].ver[r] /\ n = op[a].logId
    OBVIOUS
  <2>2. v \in Versions /\ nano[r][v] # NoLog /\ n < nano[r][v].queue.cur /\ n \in Int
    BY <1>1, <2>1, OpTypes DEF LogInv, OpGood, Passed, AckedPassed
  <2>3. op'[a].ver = op[a].ver /\ op'[a].logId = n
    BY <1>1, <2>1, HandledIsSent DEF Stays
  <2>4. nano'[r][v] # NoLog /\ nano[r][v].queue.cur <= nano'[r][v].queue.cur
    BY <2>2 DEF LogsGrow, Grown
  <2>5. nano[r][v].queue.cur \in Int
    BY <2>2, LogFacts
  <2>6. nano'[r][v].queue.cur \in Int
    <3>1. PICK l : l = nano'[r][v]
      OBVIOUS
    <3>2. QueueOver(l.queue, 1, MaxLogId)
      BY <2>2, <2>4, <3>1 DEF LogInv, LogsGood, GoodLog
    <3> QED
      BY <3>1, <3>2, Constants DEF QueueOver
  <2> QED
    BY <2>1, <2>2, <2>3, <2>4, <2>5, <2>6
<1>2. CASE Sent(a) /\ op[a].logId < nano'[r][op[a].ver[r]].queue.cur
  <2>1. op'[a].ver = op[a].ver /\ op'[a].logId = op[a].logId
    BY <1>2 DEF Stays
  <2> QED
    BY <1>2, <2>1
<1> QED
  BY <1>1, <1>2 DEF SafeAcks

LEMMA KeepsPassed ==
  ASSUME OneAtATime, LogInv, Numbering, Passed, LogInv', LogsGrow, Stays,
         SafeLogs, SafeAcks, SafeRequests, SafeSequencer
  PROVE  Passed'
<1>1. RequestsCommit'
  <2> SUFFICES ASSUME NEW a \in Appends, NEW r \in Replicas, stage'[a][r] # "none"
               PROVE  CommitsOn(op[a].ver[r], op[a].gci[r])'
    BY DEF RequestsCommit
  <2>1. PICK v, g : v = op'[a].ver[r] /\ g = op'[a].gci[r]
    OBVIOUS
  <2>2. v \in 1 .. Cur /\ CommitsOn(v, g)
    BY <2>1 DEF SafeRequests
  <2>3. CommitsOn(v, g)'
    BY <2>2, CommitsStay
  <2> QED
    BY <2>1, <2>3
<1>2. SequencerCommits'
  <2> SUFFICES ASSUME \A c \in Clients : rc'[c].pc # "startVer"
               PROVE  CommitsOn(Sequencer.ver, Sequencer.gci)'
    BY DEF SequencerCommits
  <2>1. PICK v, g : v = seqr'[FirstSequencer].ver /\ g = seqr'[FirstSequencer].gci
    OBVIOUS
  <2>2. v \in 1 .. Cur /\ CommitsOn(v, g)
    BY <2>1 DEF SafeSequencer
  <2>3. CommitsOn(v, g)'
    BY <2>2, CommitsStay
  <2> QED
    BY <2>1, <2>3 DEF Sequencer
<1> QED
  BY <1>1, <1>2, KeepsPassedHeld, KeepsAckedPassed DEF Passed

LEMMA NoCommitIndex ==
  ASSUME NEW v
  PROVE  CommitsOn(v, 0)
BY Constants DEF CommitsOn, LogIds

LEMMA EnteredSafe ==
  ASSUME NEW r \in Replicas, NEW v \in 1 .. Cur, NEW N, NEW g, Entered(r, v, N, g), CommitsOn(v, g)
  PROVE  SafeLogs
<1>1. \A x \in Replicas, u \in Versions : x # r \/ u # v => nano'[x][u] = nano[x][u]
  BY DEF Entered
<1> QED
  BY <1>1 DEF SafeLogs

LEMMA SameRequestsSafe ==
  ASSUME OneAtATime, LogInv, Numbering, Passed,
         \A a \in Appends, r \in Replicas : stage'[a][r] # "none" =>
           /\ stage[a][r] # "none" /\ op'[a].ver[r] = op[a].ver[r]
           /\ op'[a].gci[r] = op[a].gci[r]
  PROVE  SafeRequests
<1> SUFFICES ASSUME NEW a \in Appends, NEW r \in Replicas, stage'[a][r] # "none"
             PROVE  op'[a].ver[r] \in 1 .. Cur /\ CommitsOn(op'[a].ver[r], op'[a].gci[r])
  BY DEF SafeRequests
<1>1. stage[a][r] # "none" /\ op'[a].ver[r] = op[a].ver[r] /\ op'[a].gci[r] = op[a].gci[r]
  OBVIOUS
<1>2. op[a].ver[r] \in 1 .. Cur /\ CommitsOn(op[a].ver[r], op[a].gci[r])
  BY <1>1, RequestIn DEF Passed, RequestsCommit
<1> QED
  BY <1>1, <1>2

LEMMA SameSequencerSafe ==
  ASSUME Numbering, Passed, seqr'[FirstSequencer].ver = Sequencer.ver,
         seqr'[FirstSequencer].gci = Sequencer.gci,
         \A c \in Clients : rc[c].pc = "startVer" => rc'[c].pc = "startVer"
  PROVE  SafeSequencer
<1> SUFFICES ASSUME \A c \in Clients : rc'[c].pc # "startVer"
             PROVE  /\ seqr'[FirstSequencer].ver \in 1 .. Cur
                    /\ CommitsOn(seqr'[FirstSequencer].ver, seqr'[FirstSequencer].gci)
  BY DEF SafeSequencer
<1>1. Sequencer.ver \in 1 .. Cur /\ CommitsOn(Sequencer.ver, Sequencer.gci)
  BY DEF Numbering, Passed, SequencerCommits
<1> QED
  BY <1>1

(* A step that leaves requests and the sequencer alone. *)
LEMMA ReplicaStepPassed ==
  ASSUME OneAtATime, LogInv, Numbering, Passed, LogInv', LogsGrow, Stays,
         UNCHANGED <<op, seqr>>, SafeLogs, SafeAcks,
         \A a \in Appends, r \in Replicas : stage'[a][r] # "none" => stage[a][r] # "none",
         \A c \in Clients : rc[c].pc = "startVer" => rc'[c].pc = "startVer"
  PROVE  Passed'
<1>1. SafeRequests
  BY SameRequestsSafe
<1>2. SafeSequencer
  BY SameSequencerSafe DEF Sequencer
<1> QED
  BY <1>1, <1>2, KeepsPassed

(* The acknowledgements of a step that stores an entry. *)
LEMMA EntersSafely ==
  ASSUME LogInv, Numbering, NEW r \in Replicas, NEW v \in 1 .. Cur, NEW n, NEW p, NEW g,
         NEW acks, NEW new, EntersAt(r, v, n, p, g, acks, new), CommitsOn(v, g),
         \A a \in new : a \in Appends /\ stage[a][r] = "checked"
  PROVE  /\ SafeLogs /\ SafeAcks
         /\ \A a \in Appends, x \in Replicas : stage'[a][x] # "none" => stage[a][x] # "none"
<1>1. SafeLogs
  BY EnteredSafe DEF EntersAt
<1>2. SafeAcks
  <2> SUFFICES ASSUME NEW a \in Appends, NEW x \in Replicas, stage'[a][x] = "acked",
                      stage[a][x] # "acked"
               PROVE  Sent(a) /\ op[a].logId < nano'[x][op[a].ver[x]].queue.cur
    BY DEF SafeAcks
  <2>1. x = r /\ a \in acks
    BY DEF EntersAt, Stores
  <2>2. /\ op[a].ver[r] = v /\ op[a].logId < nano'[r][v].queue.cur
        /\ stage[a][r] \in {"stored", "checked"}
    BY <2>1 DEF EntersAt
  <2> QED
    BY <2>1, <2>2, HandledIsSent
<1>3. \A a \in Appends, x \in Replicas : stage'[a][x] # "none" => stage[a][x] # "none"
  <2> SUFFICES ASSUME NEW a \in Appends, NEW x \in Replicas, stage'[a][x] # "none"
               PROVE  stage[a][x] # "none"
    OBVIOUS
  <2>1. \/ stage'[a][x] = stage[a][x] \/ (x = r /\ a \in acks) \/ (x = r /\ a \in new)
    BY DEF EntersAt, Stores
  <2>2. a \in acks => stage[a][r] = "stored" \/ a \in new
    BY DEF EntersAt
  <2> QED
    BY <2>1, <2>2
<1> QED
  BY <1>1, <1>2, <1>3

(* The commit index that an append which returned gives to its sequencer. *)
LEMMA EndCommits ==
  ASSUME OneAtATime, LogInv, Numbering, Passed, NEW a \in Appends, op[a].pc = "sent",
         Cardinality({r \in Replicas : stage[a][r] = "acked"}) >= QuorumSize
  PROVE  CommitsOn(Sequencer.ver, op[a].logId)
<1> DEFINE Q == {r \in Replicas : stage[a][r] = "acked"}
<1>1. PICK v, k : v = Sequencer.ver /\ k = op[a].logId
  OBVIOUS
<1>2. Q \in Quorums
  BY DEF Quorums
<1>3. InVersion(a, v) /\ v \in Versions /\ k \in Int
  BY <1>1, VersionsOf, OpTypes DEF Numbering, SentGood
<1> SUFFICES ASSUME NEW n \in LogIds, Start(v) <= n, n < k
             PROVE  OnQuorum(v, n)
  BY <1>1 DEF CommitsOn
<1>4. \A r \in Q : HasEntry(r, v, n) \/ OnQuorum(v, n)
  <2> TAKE r \in Q
  <2>1. r \in Replicas /\ stage[a][r] = "acked" /\ op[a].ver[r] = v
    BY <1>3 DEF InVersion
  <2>2. nano[r][v] # NoLog
    BY <2>1 DEF LogInv, OpGood
  <2>3. k < nano[r][v].queue.cur /\ nano[r][v].queue.cur \in Int
    BY <1>1, <1>3, <2>1, <2>2, LogFacts DEF Passed, AckedPassed
  <2>4. n < nano[r][v].queue.cur
    BY <1>3, <2>3 DEF LogIds
  <2> QED
    BY <1>3, <2>1, <2>2, <2>4 DEF Passed, PassedHeld
<1> HIDE DEF Q
<1> QED
  BY <1>2, <1>4 DEF OnQuorum

LEMMA PassedStep ==
  ASSUME OneAtATime, LogInv, Turns, Numbering, Passed, StepKinds,
         LogInv', LogsGrow, Stays
  PROVE  Passed'
<1>1. ASSUME UNCHANGED <<op, seqr, nano>>,
             \A a \in Appends, r \in Replicas :
               stage'[a][r] = stage[a][r] \/ (stage[a][r] # "none" /\ stage'[a][r] # "acked"),
             \A c \in Clients : rc[c].pc = "startVer" => rc'[c].pc = "startVer"
      PROVE  Passed'
  <2>1. SafeLogs /\ SafeAcks
    BY <1>1 DEF SafeLogs, SafeAcks
  <2>2. \A a \in Appends, r \in Replicas : stage'[a][r] # "none" => stage[a][r] # "none"
    BY <1>1
  <2> QED
    BY <1>1, <2>1, <2>2, ReplicaStepPassed
<1>2. ASSUME NEW a \in Appends, TookId(a) PROVE Passed'
  <2>1. /\ op[a].pc = "new" /\ (\A b \in Appends : b # a => op'[b] = op[b])
        /\ seqr'[FirstSequencer].gci = Sequencer.gci /\ seqr'[FirstSequencer].ver = Sequencer.ver
        /\ UNCHANGED <<nano, stage, rc>>
    BY <1>2 DEF TookId
  <2>2. \A r \in Replicas : stage[a][r] = "none"
    BY <2>1 DEF LogInv, OpGood
  <2>3. SafeLogs /\ SafeAcks
    BY <2>1 DEF SafeLogs, SafeAcks
  <2>4. SafeRequests
    BY <2>1, <2>2, SameRequestsSafe
  <2>5. SafeSequencer
    BY <2>1, SameSequencerSafe
  <2> QED
    BY <2>3, <2>4, <2>5, KeepsPassed
<1>3. ASSUME NEW a \in Appends, Ended(a) PROVE Passed'
  <2>1. /\ op[a].pc = "sent" /\ op'[a].ver = op[a].ver /\ op'[a].gci = op[a].gci
        /\ (\A b \in Appends : b # a => op'[b] = op[b])
        /\ \A b \in Appends, r \in Replicas :
             stage'[b][r] = stage[b][r] \/ (stage'[b][r] = "refused" /\ stage[b][r] \in {"sent", "checked"})
        /\ op'[a].pc = "acked" => Cardinality({r \in Replicas : stage[a][r] = "acked"}) >= QuorumSize
        /\ seqr'[FirstSequencer].ver = Sequencer.ver
        /\ \/ seqr'[FirstSequencer].gci = Sequencer.gci
           \/ op'[a].pc = "acked" /\ seqr'[FirstSequencer].gci = op[a].logId
        /\ UNCHANGED <<nano, rc>>
    BY <1>3 DEF Ended
  <2>2. SafeLogs /\ SafeAcks
    BY <2>1 DEF SafeLogs, SafeAcks
  <2>3. SafeRequests
    <3>1. \A b \in Appends, r \in Replicas : stage'[b][r] # "none" =>
            /\ stage[b][r] # "none" /\ op'[b].ver[r] = op[b].ver[r]
            /\ op'[b].gci[r] = op[b].gci[r]
      BY <2>1
    <3> QED
      BY <3>1, SameRequestsSafe
  <2>4. SafeSequencer
    <3>1. CASE seqr'[FirstSequencer].gci = Sequencer.gci
      BY <2>1, <3>1, SameSequencerSafe
    <3>2. CASE op'[a].pc = "acked" /\ seqr'[FirstSequencer].gci = op[a].logId
      BY <2>1, <3>2, EndCommits DEF SafeSequencer, Numbering
    <3> QED
      BY <2>1, <3>1, <3>2
  <2> QED
    BY <2>2, <2>3, <2>4, KeepsPassed
<1>4. ASSUME NEW a \in Appends, NEW r \in Replicas, SentTo(a, r) PROVE Passed'
  <2>1. /\ op[a].pc = "numbered" /\ op'[a].ver[r] = Sequencer.ver /\ op'[a].gci[r] = Sequencer.gci
        /\ \A x \in Replicas : x # r => op'[a].ver[x] = op[a].ver[x] /\ op'[a].gci[x] = op[a].gci[x]
        /\ \A b \in Appends : b # a => op'[b] = op[b]
        /\ stage'[a][r] = "sent"
        /\ \A b \in Appends, x \in Replicas : b # a \/ x # r => stage'[b][x] = stage[b][x]
        /\ UNCHANGED <<seqr, nano, rc>>
    BY <1>4 DEF SentTo
  <2>2. SafeLogs /\ SafeAcks
    BY <2>1 DEF SafeLogs, SafeAcks
  <2>3. \A c \in Clients : rc[c].pc # "startVer"
    BY <2>1 DEF Turns, Busy
  <2>4. Sequencer.ver \in 1 .. Cur /\ CommitsOn(Sequencer.ver, Sequencer.gci)
    BY <2>3 DEF Numbering, Passed, SequencerCommits
  <2>5. SafeRequests
    <3> SUFFICES ASSUME NEW b \in Appends, NEW x \in Replicas, stage'[b][x] # "none"
                 PROVE  op'[b].ver[x] \in 1 .. Cur /\ CommitsOn(op'[b].ver[x], op'[b].gci[x])
      BY DEF SafeRequests
    <3>1. CASE b = a /\ x = r
      BY <2>1, <2>4, <3>1
    <3>2. CASE b # a \/ x # r
      <4>1. stage[b][x] # "none" /\ op'[b].ver[x] = op[b].ver[x] /\ op'[b].gci[x] = op[b].gci[x]
        BY <2>1, <3>2
      <4>2. op[b].ver[x] \in 1 .. Cur /\ CommitsOn(op[b].ver[x], op[b].gci[x])
        BY <4>1, RequestIn DEF Passed, RequestsCommit
      <4> QED
        BY <4>1, <4>2
    <3> QED
      BY <3>1, <3>2
  <2>6. SafeSequencer
    BY <2>1, SameSequencerSafe DEF Sequencer
  <2> QED
    BY <2>2, <2>5, <2>6, KeepsPassed
<1>5. ASSUME NEW a \in Appends, NEW r \in Replicas, CheckedAt(a, r) PROVE Passed'
  <2>1. PICK v : v = op[a].ver[r]
    OBVIOUS
  <2>2. /\ v \in 1 .. Cur /\ Entered(r, v, {}, 0) /\ UNCHANGED <<op, seqr, rc>>
        /\ stage[a][r] = "sent" /\ stage'[a][r] \in {"refused", "checked"}
        /\ \A b \in Appends, x \in Replicas : b # a \/ x # r => stage'[b][x] = stage[b][x]
    BY <1>5, <2>1 DEF CheckedAt
  <2>3. SafeLogs
    BY <2>2, EnteredSafe, NoCommitIndex
  <2>4. SafeAcks
    BY <2>2 DEF SafeAcks
  <2>5. \A b \in Appends, x \in Replicas : stage'[b][x] # "none" => stage[b][x] # "none"
    BY <2>2
  <2> QED
    BY <2>2, <2>3, <2>4, <2>5, ReplicaStepPassed
<1>6. ASSUME NEW a \in Appends, NEW r \in Replicas, RefusedAt(a, r) PROVE Passed'
  BY <1>1, <1>6 DEF RefusedAt
<1>7. ASSUME NEW a \in Appends, NEW r \in Replicas, NEW A, StoredAt(a, r, A) PROVE Passed'
  <2>1. PICK v, n, g : v = op[a].ver[r] /\ n = op[a].logId /\ g = op[a].gci[r]
    OBVIOUS
  <2>2. /\ v \in 1 .. Cur /\ EntersAt(r, v, n, a, g, A, {a}) /\ stage[a][r] = "checked"
        /\ UNCHANGED <<op, seqr>> /\ \A c \in Clients : rc'[c].pc = rc[c].pc
    BY <1>7, <2>1 DEF StoredAt, SameCalls
  <2>3. CommitsOn(v, g)
    BY <2>1, <2>2 DEF Passed, RequestsCommit
  <2>4. /\ SafeLogs /\ SafeAcks
        /\ \A b \in Appends, x \in Replicas : stage'[b][x] # "none" => stage[b][x] # "none"
    BY <2>2, <2>3, EntersSafely
  <2> QED
    BY <2>2, <2>4, ReplicaStepPassed
<1>8. ASSUME NEW m \in fill, NEW A, FilledAt(m, A) PROVE Passed'
  <2>1. PICK r, v, n, p : r = m.replica /\ v = m.ver /\ n = m.logId /\ p = m.val
    OBVIOUS
  <2>2. /\ r \in Replicas /\ v \in 1 .. Cur /\ EntersAt(r, v, n, p, 0, A, {})
        /\ UNCHANGED <<op, seqr>> /\ \A c \in Clients : rc'[c].pc = rc[c].pc
    BY <1>8, <2>1 DEF FilledAt, SameCalls
  <2>3. /\ SafeLogs /\ SafeAcks
        /\ \A b \in Appends, x \in Replicas : stage'[b][x] # "none" => stage[b][x] # "none"
    BY <2>2, EntersSafely, NoCommitIndex
  <2> QED
    BY <2>2, <2>3, ReplicaStepPassed
<1>9. ASSUME NEW c \in Clients, NEW s \in Sequencers, NEW Q \in SUBSET Replicas,
             BeginReconfigure(c, s, Q)
      PROVE  Passed'
  <2>1. rc[c].pc = "idle" /\ UNCHANGED <<op, seqr, nano, stage>>
    BY <1>9 DEF BeginReconfigure
  <2>2. \A d \in Clients : d # c => rc'[d] = rc[d]
    BY <1>9, BeginNumbers
  <2> QED
    BY <1>1, <2>1, <2>2
<1>10. ASSUME NEW c \in Clients, NEW r \in Replicas, SealedAt(c, r) PROVE Passed'
  <2>1. PICK v : v = rc[c].ver
    OBVIOUS
  <2>2. /\ rc[c].pc = "seal" /\ v \in 1 .. Cur /\ Entered(r, v, {}, 0)
        /\ UNCHANGED <<op, seqr, stage>> /\ \A d \in Clients : d # c => rc'[d] = rc[d]
    BY <1>10, <2>1, CallFacts DEF SealedAt, SealsOne
  <2>3. SafeLogs /\ SafeAcks
    BY <2>2, EnteredSafe, NoCommitIndex DEF SafeAcks
  <2> QED
    BY <2>2, <2>3, ReplicaStepPassed
<1>11. ASSUME NEW c \in Clients, NEW r \in Replicas, FetchedFrom(c, r) PROVE Passed'
  <2>1. /\ rc[c].pc = "fetch" /\ UNCHANGED <<op, seqr, nano, stage>>
        /\ \A d \in Clients : d # c => rc'[d] = rc[d]
    BY <1>11 DEF FetchedFrom, MovesCall
  <2> QED
    BY <1>1, <2>1
<1>12. ASSUME NEW c \in Clients, Install(c) PROVE Passed'
  <2>1. /\ rc[c].pc = "install" /\ UNCHANGED <<op, seqr, nano, stage>>
        /\ \A d \in Clients : d # c => rc'[d] = rc[d]
    BY <1>12, InstallNumbers DEF Install, MovesCall
  <2> QED
    BY <1>1, <2>1
<1>13. ASSUME NEW c \in Clients, StartNum(c) \/ StartGci(c) \/ StartVer(c) PROVE Passed'
  <2>1. UNCHANGED <<op, nano, stage>>
    BY <1>13 DEF StartNum, StartGci, StartVer
  <2>2. SafeLogs /\ SafeAcks
    BY <2>1 DEF SafeLogs, SafeAcks
  <2>3. SafeRequests
    BY <2>1, SameRequestsSafe
  <2>4. SafeSequencer
    <3>1. CASE StartNum(c)
      <4>1. /\ seqr'[FirstSequencer].gci = Sequencer.gci /\ seqr'[FirstSequencer].ver = Sequencer.ver
            /\ MovesCall(c, "startNum", "startGci")
        BY <3>1, StartIs
      <4>2. \A d \in Clients : rc[d].pc = "startVer" => rc'[d].pc = "startVer"
        BY <4>1 DEF MovesCall
      <4> QED
        BY <4>1, <4>2, SameSequencerSafe
    <3>2. CASE StartGci(c)
      <4>1. MovesCall(c, "startGci", "startVer")
        BY <3>2, StartIs
      <4> QED
        BY <4>1 DEF MovesCall, SafeSequencer
    <3>3. CASE StartVer(c)
      <4>1. Sequencer'.ver = Cur /\ Sequencer'.gci = Start(Cur)
        BY <3>3, StartVerNumbers
      <4>2. Cur \in 1 .. Cur /\ Start(Cur) \in Int
        BY VersionsOf, VersionFacts
      <4>3. CommitsOn(Cur, Start(Cur))
        BY <4>2 DEF CommitsOn, LogIds
      <4> QED
        BY <4>1, <4>2, <4>3 DEF SafeSequencer, Sequencer
    <3> QED
      BY <1>13, <3>1, <3>2, <3>3
  <2> QED
    BY <2>2, <2>3, <2>4, KeepsPassed
<1>14. CASE Quiet
  <2>1. UNCHANGED <<op, seqr, nano, stage>> /\ \A c \in Clients : Continues(c)
    BY <1>14 DEF Quiet
  <2>2. \A c \in Clients : rc[c].pc = "startVer" => rc'[c].pc = "startVer"
    BY <2>1 DEF Continues
  <2> QED
    BY <1>1, <2>1, <2>2
<1> QED
  BY <1>2, <1>3, <1>4, <1>5, <1>6, <1>7, <1>8, <1>9, <1>10, <1>11, <1>12, <1>13, <1>14
  DEF StepKinds

-----------------------------------------------------------------------------
(* Reconfigure calls and what they copy *)

(* What a replica reported stays true of it. *)
LEMMA ReportStays ==
  ASSUME LogInv, LogInv', LogsGrow, NEW c \in Clients, rc[c].pc # "idle", Reported(c),
         rc'[c].ver = rc[c].ver, rc'[c].quorum = rc[c].quorum, rc'[c].max = rc[c].max
  PROVE  Reported(c)'
<1>0. PICK v, x, Q : v = rc[c].ver /\ x = rc[c].max /\ Q = rc[c].quorum
  OBVIOUS
<1>1. PICK r \in Q : nano[r][v] # NoLog /\ x <= nano[r][v].queue.cur
  BY <1>0 DEF Reported
<1>2. v \in Versions /\ r \in Replicas
  BY <1>0, <1>1, CallFacts
<1>3. x \in Int
  BY <1>0, CallFacts, Constants DEF RcCalls
<1>4. nano'[r][v] # NoLog /\ nano[r][v].queue.cur <= nano'[r][v].queue.cur
  BY <1>1, <1>2 DEF LogsGrow, Grown
<1>5. nano[r][v].queue.cur \in Int
  BY <1>1, <1>2, LogFacts
<1>6. nano'[r][v].queue.cur \in Int
  <2>1. PICK l : l = nano'[r][v]
    OBVIOUS
  <2>2. QueueOver(l.queue, 1, MaxLogId)
    BY <1>2, <1>4, <2>1 DEF LogInv, LogsGood, GoodLog
  <2> QED
    BY <2>1, <2>2, Constants DEF QueueOver
<1>7. x <= nano'[r][v].queue.cur
  BY <1>1, <1>3, <1>4, <1>5, <1>6
<1>8. rc'[c].ver = v /\ rc'[c].max = x /\ rc'[c].quorum = Q
  BY <1>0
<1> QED
  BY <1>1, <1>4, <1>7, <1>8 DEF Reported

LEMMA GoingOnRecovers ==
  ASSUME OneAtATime, LogInv, Numbering, LogInv', LogsGrow, Stays, NEW c \in Clients,
         RecoveryGood(c), GoesOn(c)
  PROVE  RecoveryGood(c)'
<1>1. CASE rc'[c].pc = "idle"
  BY <1>1 DEF RecoveryGood
<1>2. CASE rc'[c].pc # "idle"
  <2>1. /\ rc[c].pc # "idle" /\ rc'[c].ver = rc[c].ver /\ rc'[c].quorum = rc[c].quorum
        /\ rc'[c].todo = rc[c].todo /\ rc'[c].min = rc[c].min /\ rc'[c].max = rc[c].max
        /\ rc'[c].pc \in {"fetch", "await"} =>
             rc[c].pc \in {"fetch", "await"} /\ rc'[c].at \in {rc[c].at, rc[c].at + 1}
        /\ rc'[c].pc = "fetch" =>
             rc'[c].at < rc'[c].max \/ (rc[c].pc = "fetch" /\ rc'[c].at = rc[c].at)
    BY <1>2 DEF GoesOn
  <2>2. PICK v : v = rc[c].ver
    OBVIOUS
  <2>3. v \in 1 .. Cur /\ rc[c].at \in Int /\ rc'[c].ver = v
    BY <2>1, <2>2, CallFacts DEF RcCalls
  <2>4. Start(v)' = Start(v) /\ Start(v) \in Int
    BY <2>3, VersionsOf DEF Stays
  <2>5. /\ Start(v) <= rc[c].min
        /\ rc[c].pc \in {"fetch", "await"} => Start(v) <= rc[c].at
        /\ rc[c].pc = "fetch" => rc[c].at < rc[c].max
        /\ IF rc[c].quorum = rc[c].todo THEN rc[c].max = 0 ELSE Reported(c)
    BY <2>1, <2>2 DEF RecoveryGood
  <2>6. rc'[c].pc \in {"fetch", "await"} => Start(v) <= rc'[c].at
    BY <2>1, <2>3, <2>4, <2>5
  <2>7. rc'[c].pc = "fetch" => rc'[c].at < rc'[c].max
    BY <2>1, <2>5
  <2>8. rc[c].quorum # rc[c].todo => Reported(c)'
    BY <2>1, <2>5, ReportStays
  <2>9. Start(rc[c].ver)' = Start(v)
    BY <2>3, <2>4
  <2> QED
    BY <2>1, <2>5, <2>6, <2>7, <2>8, <2>9 DEF RecoveryGood
<1> QED
  BY <1>1, <1>2

LEMMA MoveGoesOn ==
  ASSUME NEW c \in Clients, NEW from, NEW to, MovesCall(c, from, to), from # "idle",
         to # "fetch", to = "await" => from = "fetch"
  PROVE  \A d \in Clients : GoesOn(d)
<1>1. GoesOn(c)
  BY DEF MovesCall, GoesOn
<1>2. \A d \in Clients : d # c => rc'[d] = rc[d]
  BY DEF MovesCall
<1> QED
  BY <1>1, <1>2, UntouchedContinues

(* The end index of a replica that was just sealed. *)
LEMMA SealRecovers ==
  ASSUME OneAtATime, LogInv, Numbering, LogInv', LogsGrow, NEW c \in Clients, NEW r \in Replicas,
         RecoveryGood(c), SealedAt(c, r)
  PROVE  RecoveryGood(c)'
<1>0. PICK v, end : v = rc[c].ver /\ end = nano'[r][v].queue.cur
  OBVIOUS
<1>1. /\ rc[c].pc = "seal" /\ r \in rc[c].quorum /\ nano'[r][v] # NoLog /\ UNCHANGED store
      /\ rc'[c].ver = v /\ rc'[c].quorum = rc[c].quorum /\ r \notin rc'[c].todo
      /\ rc'[c].min = IF end < rc[c].min THEN end ELSE rc[c].min
      /\ rc'[c].max = IF end > rc[c].max THEN end ELSE rc[c].max
      /\ rc'[c].at = rc'[c].min
      /\ rc'[c].pc \in {"seal", "install"} \/ (rc'[c].pc = "fetch" /\ rc'[c].at < rc'[c].max)
  BY <1>0 DEF SealedAt, SealsOne, Entered
<1>2. v \in 1 .. Cur /\ v \in Versions /\ rc[c].min \in Int /\ rc[c].max \in Int
  BY <1>0, <1>1, CallFacts, Constants DEF RcCalls
<1>3. Start(v)' = Start(v) /\ Start(v) \in Int
  BY <1>1, <1>2, VersionsOf DEF Start
<1>4. end \in Int /\ 1 <= end /\ Start(v) <= end
  <2>1. PICK l : l = nano'[r][v]
    OBVIOUS
  <2>2. GoodLog(nano[r][v], store.configs[v].start)'
    BY <1>1, <1>2 DEF LogInv, LogsGood
  <2>3. GoodLog(l, Start(v))
    BY <1>1, <2>1, <2>2 DEF Start
  <2>4. QueueOver(l.queue, 1, MaxLogId) /\ Start(v) <= l.queue.cur
    BY <2>3 DEF GoodLog
  <2> QED
    BY <1>0, <2>1, <2>4, Constants DEF QueueOver
<1>5. Start(v) <= rc[c].min /\ (IF rc[c].quorum = rc[c].todo THEN rc[c].max = 0 ELSE Reported(c))
  BY <1>0, <1>1 DEF RecoveryGood
<1>6. Start(v) <= rc'[c].min
  BY <1>1, <1>3, <1>4, <1>5
<1>7. Reported(c)'
  <2>1. CASE end > rc[c].max
    <3>1. rc'[c].max = end /\ end <= end
      BY <1>1, <1>4, <2>1
    <3>2. r \in rc'[c].quorum /\ nano'[r][rc'[c].ver] # NoLog
          /\ rc'[c].max <= nano'[r][rc'[c].ver].queue.cur
      BY <1>0, <1>1, <3>1
    <3> QED
      BY <3>2 DEF Reported
  <2>2. CASE ~(end > rc[c].max)
    <3>1. rc'[c].max = rc[c].max /\ rc[c].max # 0
      BY <1>1, <1>4, <2>2
    <3>2. Reported(c)
      BY <1>5, <3>1
    <3> QED
      BY <1>0, <1>1, <3>1, <3>2, ReportStays
  <2> QED
    BY <2>1, <2>2
<1>8. rc'[c].quorum # rc'[c].todo
  BY <1>1
<1>9. Start(rc[c].ver)' = Start(v)
  BY <1>1, <1>3
<1> QED
  BY <1>1, <1>6, <1>7, <1>8, <1>9 DEF RecoveryGood

LEMMA BeginRecovers ==
  ASSUME OneAtATime, LogInv, Turns, Numbering, NEW c \in Clients, NEW s, NEW Q,
         BeginReconfigure(c, s, Q)
  PROVE  RecoveryGood(c)'
<1>1. /\ rc'[c].pc = "seal" /\ rc'[c].ver = Cur /\ rc'[c].min = EndOfLog
      /\ rc'[c].quorum = rc'[c].todo /\ rc'[c].max = 0 /\ UNCHANGED store
  BY BeginNumbers DEF BeginReconfigure
<1>2. Start(Cur) \in Ends
  BY VersionFacts DEF Start
<1>3. Start(Cur) <= EndOfLog
  BY <1>2, Constants DEF Ends
<1>4. Start(rc[c].ver)' = Start(Cur)
  BY <1>1 DEF Start
<1> QED
  BY <1>1, <1>3, <1>4 DEF RecoveryGood

LEMMA RecoveryStep ==
  ASSUME OneAtATime, LogInv, Turns, Numbering, Recovery, StepKinds, LogInv', LogsGrow, Stays
  PROVE  Recovery'
<1>1. ASSUME \A c \in Clients : GoesOn(c) PROVE Recovery'
  BY <1>1, GoingOnRecovers DEF Recovery
<1>2. ASSUME UNCHANGED rc PROVE Recovery'
  BY <1>1, <1>2, UntouchedContinues
<1>3. ASSUME NEW a \in Appends, TookId(a) \/ Ended(a) PROVE Recovery'
  BY <1>2, <1>3 DEF TookId, Ended
<1>4. ASSUME NEW a \in Appends, NEW r \in Replicas, SentTo(a, r) \/ CheckedAt(a, r) \/ RefusedAt(a, r)
      PROVE  Recovery'
  BY <1>2, <1>4 DEF SentTo, CheckedAt, RefusedAt
<1>5. ASSUME NEW a \in Appends, NEW r \in Replicas, NEW A, StoredAt(a, r, A) PROVE Recovery'
  BY <1>1, <1>5, SameCallsContinue DEF StoredAt
<1>6. ASSUME NEW m \in fill, NEW A, FilledAt(m, A) PROVE Recovery'
  BY <1>1, <1>6, SameCallsContinue DEF FilledAt
<1>7. ASSUME NEW c \in Clients, RecoveryGood(c)', \A d \in Clients : d # c => rc'[d] = rc[d]
      PROVE  Recovery'
  <2>1. \A d \in Clients : d # c => RecoveryGood(d)'
    BY <1>7, UntouchedContinues, GoingOnRecovers DEF Recovery
  <2> QED
    BY <1>7, <2>1 DEF Recovery
<1>8. ASSUME NEW c \in Clients, NEW s \in Sequencers, NEW Q \in SUBSET Replicas,
             BeginReconfigure(c, s, Q)
      PROVE  Recovery'
  BY <1>7, <1>8, BeginRecovers, BeginNumbers
<1>9. ASSUME NEW c \in Clients, NEW r \in Replicas, SealedAt(c, r) PROVE Recovery'
  <2>1. RecoveryGood(c)'
    BY <1>9, SealRecovers DEF Recovery
  <2>2. \A d \in Clients : d # c => rc'[d] = rc[d]
    BY <1>9 DEF SealedAt, SealsOne
  <2> QED
    BY <1>7, <2>1, <2>2
<1>10. ASSUME NEW c \in Clients, NEW r \in Replicas, FetchedFrom(c, r) PROVE Recovery'
  <2>1. MovesCall(c, "fetch", "await")
    BY <1>10 DEF FetchedFrom
  <2> QED
    BY <1>1, <2>1, MoveGoesOn
<1>11. ASSUME NEW c \in Clients, Install(c) \/ StartNum(c) \/ StartGci(c) PROVE Recovery'
  <2>1. \E from, to : /\ MovesCall(c, from, to) /\ from # "idle"
                      /\ to # "fetch" /\ to # "await"
    BY <1>11, InstallNumbers, StartIs
  <2> QED
    BY <1>1, <2>1, MoveGoesOn
<1>12. ASSUME NEW c \in Clients, StartVer(c) PROVE Recovery'
  <2>1. EndsCall(c)
    BY <1>12, StartIs
  <2>2. GoesOn(c) /\ \A d \in Clients : d # c => rc'[d] = rc[d]
    BY <2>1 DEF EndsCall, GoesOn
  <2> QED
    BY <1>1, <2>2, UntouchedContinues
<1>13. CASE Quiet
  BY <1>1, <1>13 DEF Quiet
<1> QED
  BY <1>3, <1>4, <1>5, <1>6, <1>8, <1>9, <1>10, <1>11, <1>12, <1>13 DEF StepKinds

-----------------------------------------------------------------------------
(* Answers on time *)

(* A request that a replica took up meets the same seal after a step that
   enters entries. *)
LEMMA SealUntouched ==
  ASSUME LogInv, NEW r \in Replicas, NEW v \in 1 .. Cur, NEW N, NEW g, Entered(r, v, N, g),
         nano'[r][v].sealed = GetNanoLog(r, v).sealed,
         NEW x \in Replicas, NEW u \in Versions, nano[x][u] # NoLog
  PROVE  nano'[x][u].sealed = nano[x][u].sealed
<1>1. CASE x = r /\ u = v
  <2>1. GetNanoLog(r, v) = nano[r][v]
    BY <1>1 DEF GetNanoLog
  <2> QED
    BY <1>1, <2>1
<1>2. CASE x # r \/ u # v
  BY <1>2 DEF Entered
<1> QED
  BY <1>1, <1>2

(* Steps after which no new answer is counted. *)
LEMMA KeepsOnTime ==
  ASSUME OnTime, UNCHANGED onTime,
         \A a \in Appends : op'[a].pc = "acked" => op[a].pc = "acked",
         \A a \in Appends : op'[a].pc = "sent" =>
           \/ \A r \in Replicas : stage'[a][r] \notin Underway
           \/ /\ op[a].pc = "sent" /\ op'[a].ver = op[a].ver
              /\ \A r \in Replicas : stage'[a][r] \in Underway =>
                   /\ stage'[a][r] = stage[a][r]
                   /\ nano'[r][op[a].ver[r]].sealed = nano[r][op[a].ver[r]].sealed
  PROVE  OnTime'
<1>1. ASSUME NEW a \in Appends, op'[a].pc = "sent" PROVE WaitsOnTime(a)'
  <2>1. CASE \A r \in Replicas : stage'[a][r] \notin Underway
    <3>1. "acked" \in Underway
      BY DEF Underway
    <3> QED
      BY <2>1, <3>1 DEF WaitsOnTime
  <2>2. CASE ~ \A r \in Replicas : stage'[a][r] \notin Underway
    <3>1. /\ op[a].pc = "sent" /\ op'[a].ver = op[a].ver
          /\ \A r \in Replicas : stage'[a][r] \in Underway =>
               /\ stage'[a][r] = stage[a][r]
               /\ nano'[r][op[a].ver[r]].sealed = nano[r][op[a].ver[r]].sealed
      BY <1>1, <2>2
    <3>2. \A r \in Replicas :
            /\ stage[a][r] \in Underway => ~nano[r][op[a].ver[r]].sealed
            /\ stage[a][r] = "acked" => r \in onTime[a].acked
      BY <3>1 DEF OnTime, WaitsOnTime
    <3>3. \A r \in Replicas :
            /\ stage'[a][r] \in Underway => ~nano'[r][op'[a].ver[r]].sealed
            /\ stage'[a][r] = "acked" => r \in onTime'[a].acked
      BY <3>1, <3>2 DEF Underway
    <3> QED
      BY <3>3 DEF WaitsOnTime
  <2> QED
    BY <2>1, <2>2
<1>2. ASSUME NEW a \in Appends, op'[a].pc = "acked" PROVE HasOnTime(a)'
  BY <1>2 DEF OnTime, HasOnTime
<1> QED
  BY <1>1, <1>2 DEF OnTime

(* The answers of a step that stores an entry. *)
LEMMA EntersOnTime ==
  ASSUME LogInv, OnTime, UNCHANGED op, NEW r \in Replicas, NEW v \in 1 .. Cur, NEW n, NEW p, NEW g,
         NEW acks, NEW new, EntersAt(r, v, n, p, g, acks, new),
         \A a \in new : a \in Appends /\ stage[a][r] = "checked"
  PROVE  OnTime'
<1>0. /\ Entered(r, v, {n}, g) /\ nano'[r][v].sealed = GetNanoLog(r, v).sealed
      /\ Stores(r, acks, new) /\ Records(r, v, acks)
      /\ \A x \in acks : op[x].ver[r] = v /\ (stage[x][r] = "stored" \/ x \in new)
  BY DEF EntersAt
<1>1. ASSUME NEW a \in Appends, op[a].pc = "sent" PROVE WaitsOnTime(a)'
  <2>1. \A x \in Replicas :
          /\ stage[a][x] \in Underway => ~nano[x][op[a].ver[x]].sealed
          /\ stage[a][x] = "acked" => x \in onTime[a].acked
    BY <1>1 DEF OnTime, WaitsOnTime
  <2> SUFFICES ASSUME NEW x \in Replicas, stage'[a][x] \in Underway
               PROVE  /\ ~nano'[x][op[a].ver[x]].sealed
                      /\ stage'[a][x] = "acked" => x \in onTime'[a].acked
    BY DEF WaitsOnTime, Underway
  <2>2. /\ stage[a][x] \in Underway
        /\ stage'[a][x] = "acked" => stage[a][x] = "acked" \/ (x = r /\ a \in acks)
    BY <1>0 DEF Stores, Underway
  <2>3. PICK u : u = op[a].ver[x]
    OBVIOUS
  <2>4. u \in Versions /\ nano[x][u] # NoLog
    BY <2>2, <2>3 DEF LogInv, OpGood, Underway
  <2>5. nano'[x][u].sealed = nano[x][u].sealed
    BY <1>0, <2>4, SealUntouched
  <2>6. ~nano'[x][u].sealed /\ ~nano[x][u].sealed
    BY <2>1, <2>2, <2>3, <2>5
  <2>7. stage'[a][x] = "acked" => x \in onTime'[a].acked
    <3>1. CASE stage[a][x] = "acked"
      BY <1>0, <2>1, <3>1 DEF Records
    <3>2. CASE x = r /\ a \in acks
      BY <1>0, <2>3, <2>6, <3>2 DEF Records
    <3> QED
      BY <2>2, <3>1, <3>2
  <2> QED
    BY <2>3, <2>6, <2>7
<1>2. ASSUME NEW a \in Appends, op[a].pc = "acked" PROVE HasOnTime(a)'
  <2>1. PICK Q \in Quorums : Q \subseteq onTime[a].acked
    BY <1>2 DEF OnTime, HasOnTime
  <2>2. Q \subseteq onTime'[a].acked
    BY <1>0, <2>1 DEF Records, Quorums
  <2>3. Q \in Quorums'
    BY <2>1 DEF Quorums
  <2> QED
    BY <2>2, <2>3 DEF HasOnTime
<1> QED
  BY <1>1, <1>2 DEF OnTime

LEMMA OnTimeStep ==
  ASSUME OneAtATime, LogInv, Turns, Numbering, OnTime, StepKinds
  PROVE  OnTime'
<1>1. ASSUME UNCHANGED <<op, nano, onTime>>,
             \A a \in Appends, r \in Replicas :
               stage'[a][r] = stage[a][r] \/ stage'[a][r] \notin Underway
      PROVE  OnTime'
  BY <1>1, KeepsOnTime
<1>2. ASSUME NEW a \in Appends, TookId(a) PROVE OnTime'
  <2>1. /\ op'[a].pc = "numbered" /\ (\A b \in Appends : b # a => op'[b] = op[b])
        /\ UNCHANGED <<nano, stage, onTime>>
    BY <1>2 DEF TookId
  <2> QED
    BY <2>1, KeepsOnTime
<1>3. ASSUME NEW a \in Appends, Ended(a) PROVE OnTime'
  <2>1. /\ op[a].pc = "sent" /\ op'[a].pc \in {"acked", "failed"}
        /\ (\A b \in Appends : b # a => op'[b] = op[b])
        /\ \A b \in Appends, r \in Replicas :
             stage'[b][r] = stage[b][r] \/ (stage'[b][r] = "refused" /\ stage[b][r] \in {"sent", "checked"})
        /\ op'[a].pc = "acked" => Cardinality({r \in Replicas : stage[a][r] = "acked"}) >= QuorumSize
        /\ UNCHANGED <<nano, onTime>>
    BY <1>3 DEF Ended
  <2>2. op'[a].pc = "acked" => HasOnTime(a)'
    <3> SUFFICES ASSUME op'[a].pc = "acked" PROVE HasOnTime(a)'
      OBVIOUS
    <3> DEFINE Q == {r \in Replicas : stage[a][r] = "acked"}
    <3>1. Q \subseteq onTime[a].acked
      BY <2>1 DEF OnTime, WaitsOnTime
    <3>2. Q \in Quorums /\ Q \in Quorums'
      BY <2>1 DEF Quorums
    <3> HIDE DEF Q
    <3> QED
      BY <2>1, <3>1, <3>2 DEF HasOnTime
  <2>3. ASSUME NEW b \in Appends, b # a
        PROVE  /\ op'[b].pc = "sent" => WaitsOnTime(b)'
               /\ op'[b].pc = "acked" => HasOnTime(b)'
    <3>1. op'[b] = op[b]
      BY <2>1, <2>3
    <3>2. op[b].pc = "sent" => WaitsOnTime(b)'
      <4> SUFFICES ASSUME op[b].pc = "sent" PROVE WaitsOnTime(b)'
        OBVIOUS
      <4>1. \A r \in Replicas :
              /\ stage[b][r] \in Underway => ~nano[r][op[b].ver[r]].sealed
              /\ stage[b][r] = "acked" => r \in onTime[b].acked
        BY DEF OnTime, WaitsOnTime
      <4>2. \A r \in Replicas : stage'[b][r] \in Underway => stage'[b][r] = stage[b][r]
        BY <2>1 DEF Underway
      <4> QED
        BY <2>1, <3>1, <4>1, <4>2 DEF WaitsOnTime, Underway
    <3>3. op[b].pc = "acked" => HasOnTime(b)'
      BY <2>1 DEF OnTime, HasOnTime
    <3> QED
      BY <3>1, <3>2, <3>3
  <2>4. op'[a].pc # "sent"
    BY <2>1
  <2> QED
    BY <2>2, <2>3, <2>4 DEF OnTime
<1>4. ASSUME NEW a \in Appends, NEW r \in Replicas, SentTo(a, r) PROVE OnTime'
  <2>1. /\ op'[a].pc = "numbered" \/ (op'[a].pc = "sent" /\ \A x \in Replicas \ {r} : stage[a][x] = "sent")
        /\ \A b \in Appends : b # a => op'[b] = op[b]
        /\ stage'[a][r] = "sent"
        /\ \A b \in Appends, x \in Replicas : b # a \/ x # r => stage'[b][x] = stage[b][x]
        /\ UNCHANGED <<nano, onTime>>
    BY <1>4 DEF SentTo
  <2>2. op'[a].pc = "sent" => \A x \in Replicas : stage'[a][x] = "sent"
    BY <2>1
  <2>3. op'[a].pc # "acked" /\ "sent" \notin Underway
    BY <2>1 DEF Underway
  <2> QED
    BY <2>1, <2>2, <2>3, KeepsOnTime
<1>5. ASSUME NEW a \in Appends, NEW r \in Replicas, CheckedAt(a, r) PROVE OnTime'
  <2>1. PICK v : v = op[a].ver[r]
    OBVIOUS
  <2>2. /\ v \in 1 .. Cur /\ Entered(r, v, {}, 0) /\ UNCHANGED <<op, onTime>>
        /\ nano'[r][v].sealed = GetNanoLog(r, v).sealed
        /\ stage'[a][r] = "refused" \/ (stage'[a][r] = "checked" /\ ~nano'[r][v].sealed)
        /\ \A b \in Appends, x \in Replicas : b # a \/ x # r => stage'[b][x] = stage[b][x]
    BY <1>5, <2>1 DEF CheckedAt
  <2>3. ASSUME NEW b \in Appends, op[b].pc = "sent" PROVE WaitsOnTime(b)'
    <3> SUFFICES ASSUME NEW x \in Replicas, stage'[b][x] \in Underway
                 PROVE  /\ ~nano'[x][op'[b].ver[x]].sealed
                        /\ stage'[b][x] = "acked" => x \in onTime'[b].acked
      BY DEF WaitsOnTime, Underway
    <3>1. CASE b = a /\ x = r
      BY <2>1, <2>2, <3>1 DEF Underway
    <3>2. CASE b # a \/ x # r
      <4>1. stage[b][x] = stage'[b][x]
        BY <2>2, <3>2
      <4>2. PICK u : u = op[b].ver[x]
        OBVIOUS
      <4>3. u \in Versions /\ nano[x][u] # NoLog
        BY <4>1, <4>2 DEF LogInv, OpGood, Underway
      <4>4. nano'[x][u].sealed = nano[x][u].sealed
        BY <2>2, <4>3, SealUntouched
      <4>5. ~nano[x][u].sealed /\ (stage[b][x] = "acked" => x \in onTime[b].acked)
        BY <2>3, <4>1, <4>2 DEF OnTime, WaitsOnTime
      <4> QED
        BY <2>2, <4>1, <4>2, <4>4, <4>5
    <3> QED
      BY <3>1, <3>2
  <2>4. \A b \in Appends : op[b].pc = "acked" => HasOnTime(b)'
    BY <2>2 DEF OnTime, HasOnTime
  <2> QED
    BY <2>2, <2>3, <2>4 DEF OnTime
<1>6. ASSUME NEW a \in Appends, NEW r \in Replicas, RefusedAt(a, r) PROVE OnTime'
  <2>1. "refused" \notin Underway
    BY DEF Underway
  <2> QED
    BY <1>1, <1>6, <2>1 DEF RefusedAt
<1>7. ASSUME NEW a \in Appends, NEW r \in Replicas, NEW A, StoredAt(a, r, A) PROVE OnTime'
  <2>1. PICK v, n, g : v = op[a].ver[r] /\ n = op[a].logId /\ g = op[a].gci[r]
    OBVIOUS
  <2>2. /\ v \in 1 .. Cur /\ EntersAt(r, v, n, a, g, A, {a}) /\ stage[a][r] = "checked"
        /\ UNCHANGED op
    BY <1>7, <2>1 DEF StoredAt
  <2> QED
    BY <2>2, EntersOnTime
<1>8. ASSUME NEW m \in fill, NEW A, FilledAt(m, A) PROVE OnTime'
  <2>1. PICK r, v, n, p : r = m.replica /\ v = m.ver /\ n = m.logId /\ p = m.val
    OBVIOUS
  <2>2. /\ r \in Replicas /\ v \in 1 .. Cur /\ EntersAt(r, v, n, p, 0, A, {}) /\ UNCHANGED op
    BY <1>8, <2>1 DEF FilledAt
  <2> QED
    BY <2>2, EntersOnTime
<1>9. ASSUME NEW c \in Clients, NEW s \in Sequencers, NEW Q \in SUBSET Replicas,
             BeginReconfigure(c, s, Q)
      PROVE  OnTime'
  BY <1>1, <1>9 DEF BeginReconfigure
<1>10. ASSUME NEW c \in Clients, NEW r \in Replicas, SealedAt(c, r) PROVE OnTime'
  <2>1. rc[c].pc = "seal" /\ UNCHANGED <<op, stage, onTime>>
    BY <1>10 DEF SealedAt
  <2>2. \A a \in Appends : op[a].pc # "sent"
    BY <2>1 DEF Turns, Busy
  <2> QED
    BY <2>1, <2>2, KeepsOnTime
<1>11. ASSUME NEW c \in Clients, NEW r \in Replicas, FetchedFrom(c, r) PROVE OnTime'
  BY <1>1, <1>11 DEF FetchedFrom
<1>12. ASSUME NEW c \in Clients, Install(c) \/ StartNum(c) \/ StartGci(c) \/ StartVer(c)
       PROVE  OnTime'
  BY <1>1, <1>12 DEF Install, StartNum, StartGci, StartVer
<1>13. CASE Quiet
  BY <1>1, <1>13 DEF Quiet
<1> QED
  BY <1>2, <1>3, <1>4, <1>5, <1>6, <1>7, <1>8, <1>9, <1>10, <1>11, <1>12, <1>13
  DEF StepKinds

-----------------------------------------------------------------------------
(* The invariant of one call at a time *)

LEMMA SeqInit ==
  ASSUME OneAtATime, Init
  PROVE  SeqInv
<1>1. Cur = 1 /\ store.configs[1] = FirstConfig /\ Start(1) = 1
  BY FirstStoreIs DEF Start, FirstConfig
<1>2. /\ seqr = [s \in Sequencers |-> [num |-> 1, gci |-> 1, ver |-> 1]]
      /\ nano = [r \in Replicas |-> [v \in Versions |-> NoLog]]
      /\ op = [a \in Appends |-> [pc |-> "new", seqr |-> FirstSequencer,
                              logId |-> 0, ver |-> [r \in Replicas |-> 0],
                              gci |-> [r \in Replicas |-> 0]]]
      /\ stage = [a \in Appends |-> [r \in Replicas |-> "none"]]
      /\ rc = [c \in Clients |-> IdleCall] /\ fill = {}
  BY DEF Init
<1>3. /\ Sequencer.num = 1 /\ Sequencer.gci = 1 /\ Sequencer.ver = 1
      /\ \A a \in Appends : op[a].pc = "new" /\ ~Busy(a) /\ ~Sent(a)
      /\ \A c \in Clients : rc[c].pc = "idle"
      /\ \A a \in Appends, r \in Replicas : stage[a][r] = "none"
      /\ \A r \in Replicas, v \in Versions : nano[r][v] = NoLog
  BY <1>2, IdleCallIs, Constants DEF Sequencer, Busy, Sent
<1>4. Turns
  BY <1>3 DEF Turns
<1>5. Numbering
  <2>1. \A a \in Appends : NumberedGood(a) /\ SentGood(a)
    BY <1>3 DEF NumberedGood, SentGood
  <2>2. \A c \in Clients : RestartGood(c)
    BY <1>3 DEF RestartGood, Installed
  <2>3. NextIdFree /\ IdsUnique
    BY <1>1, <1>3 DEF NextIdFree, IdsUnique, InVersion
  <2> QED
    BY <1>1, <1>3, <2>1, <2>2, <2>3 DEF Numbering
<1>6. Placement
  BY <1>2, <1>3 DEF Placement, HasEntry
<1>7. Passed
  <2>1. CommitsOn(Sequencer.ver, Sequencer.gci)
    BY <1>1, <1>3 DEF CommitsOn, LogIds
  <2> QED
    BY <1>3, <2>1 DEF Passed, PassedHeld, AckedPassed, RequestsCommit, SequencerCommits
<1>8. Recovery
  BY <1>3 DEF Recovery, RecoveryGood
<1>9. OnTime
  BY <1>3 DEF OnTime
<1> QED
  BY <1>4, <1>5, <1>6, <1>7, <1>8, <1>9 DEF SeqInv

LEMMA SeqStep ==
  ASSUME OneAtATime, LogInv, SeqInv, [Next]_vars
  PROVE  SeqInv'
<1>1. Turns /\ Numbering /\ Placement /\ Passed /\ Recovery /\ OnTime
  BY DEF SeqInv
<1>2. LogInv' /\ LogsGrow
  BY LogStep
<1>3. StepKinds
  BY <1>1, StepIs
<1>4. Turns' /\ Numbering' /\ Stays
  BY <1>1, <1>3, NumberingStep, StepStays
<1>5. Placement'
  BY <1>1, <1>2, <1>3, <1>4, PlacementStep
<1>6. Passed'
  BY <1>1, <1>2, <1>3, <1>4, PassedStep
<1>7. Recovery'
  BY <1>1, <1>2, <1>3, <1>4, RecoveryStep
<1>8. OnTime'
  BY <1>1, <1>3, OnTimeStep
<1> QED
  BY <1>4, <1>5, <1>6, <1>7, <1>8 DEF SeqInv

LEMMA SeqInvHolds ==
  ASSUME OneAtATime
  PROVE  Spec => [](LogInv /\ SeqInv)
<1>1. Init => LogInv /\ SeqInv
  BY LogInit, SeqInit
<1>2. (LogInv /\ SeqInv) /\ [Next]_vars => (LogInv /\ SeqInv)'
  BY LogStep, SeqStep
<1> QED
  BY <1>1, <1>2, PTL DEF Spec

-----------------------------------------------------------------------------
(* The theorems about calls that follow each other *)

LEMMA EntryIs ==
  ASSUME NEW r, NEW v, NEW n
  PROVE  /\ GetLogEntry(r, v, n) # {} <=> HasEntry(r, v, n)
         /\ HasEntry(r, v, n) => GetLogEntry(r, v, n) = {nano[r][v].logs[n]}
BY DEF GetLogEntry, HasEntry, Occupied

(* Whatever a replica returns belongs where it was read. *)
LEMMA ReadIsPlaced ==
  ASSUME LogInv, Placement, NEW r \in Replicas, NEW v \in Versions, NEW n \in LogIds,
         NEW x \in GetLogEntry(r, v, n)
  PROVE  x \in Appends /\ Placed(x, v, n)
<1>1. HasEntry(r, v, n) /\ x = nano[r][v].logs[n]
  BY EntryIs
<1>2. GoodLog(nano[r][v], store.configs[v].start)
  BY <1>1, LogFacts DEF HasEntry
<1> QED
  BY <1>1, <1>2 DEF Placement, GoodLog, HasEntry

(***************************************************************************)
(* When calls follow each other and every version uses the same sequencer, *)
(* no two replicas hold different payloads at a log id of a version,       *)
(* although requests of calls that returned or threw are still handled,    *)
(* also after the version was closed: the log ids a restarted sequencer    *)
(* hands out again belong to another version.                              *)
(***************************************************************************)
THEOREM ReplicasAgree ==
  ASSUME OneAtATime
  PROVE  Spec => []SegmentAgreement
<1>1. LogInv /\ SeqInv => SegmentAgreement
  <2> SUFFICES ASSUME LogInv, SeqInv, NEW v \in Versions, NEW n \in LogIds,
                      NEW r1 \in Replicas, NEW r2 \in Replicas,
                      NEW x \in GetLogEntry(r1, v, n), NEW y \in GetLogEntry(r2, v, n)
               PROVE  x = y
    BY DEF SegmentAgreement
  <2>1. Placement /\ IdsUnique
    BY DEF SeqInv, Numbering
  <2>2. x \in Appends /\ Placed(x, v, n) /\ y \in Appends /\ Placed(y, v, n)
    BY <2>1, ReadIsPlaced
  <2> QED
    BY <2>1, <2>2 DEF IdsUnique, Placed
<1> QED
  BY <1>1, SeqInvHolds, PTL

(***************************************************************************)
(* When calls follow each other, the commit index the sequencer of the     *)
(* current version announces covers only log ids that a quorum holds,      *)
(* although an append that threw leaves a log id behind which nobody       *)
(* commits: the next append is acknowledged by replicas that hold it, or   *)
(* that skipped it because a quorum does.                                  *)
(***************************************************************************)
THEOREM CommitIndexCovered ==
  ASSUME OneAtATime
  PROVE  Spec => []CommitIndexOnQuorum
<1>1. LogInv /\ SeqInv => CommitIndexOnQuorum
  <2> SUFFICES ASSUME LogInv, SeqInv, NEW s \in Sequencers, seqr[s].ver = Cur,
                      NEW n \in store.configs[Cur].start .. (seqr[s].gci - 1)
               PROVE  Cardinality({r \in Replicas : GetLogEntry(r, Cur, n) # {}}) >= QuorumSize
    BY DEF CommitIndexOnQuorum, Cur
  <2>0. Numbering /\ Passed
    BY DEF SeqInv
  <2>1. seqr[s] = Sequencer
    BY DEF OneAtATime, Sequencer
  <2>2. \A c \in Clients : rc[c].pc # "startVer"
    <3> SUFFICES ASSUME NEW c \in Clients, rc[c].pc = "startVer" PROVE FALSE
      OBVIOUS
    <3>1. Cur = rc[c].ver + 1 /\ Sequencer.ver <= rc[c].ver
      BY <2>0 DEF Numbering, RestartGood, Installed
    <3>2. rc[c].ver \in Int
      BY CallFacts, Constants DEF RcCalls
    <3> QED
      BY <2>1, <3>1, <3>2
  <2>3. CommitsOn(Cur, Sequencer.gci)
    BY <2>0, <2>1, <2>2 DEF Passed, SequencerCommits
  <2>4. Start(Cur) \in Ends /\ Sequencer.gci \in Ends
    BY VersionFacts, OneSequencer DEF Start
  <2>5. n \in LogIds /\ Start(Cur) <= n /\ n < Sequencer.gci
    BY <2>1, <2>4, Constants DEF Start, Ends, LogIds
  <2>6. PICK Q \in Quorums : \A r \in Q : HasEntry(r, Cur, n)
    BY <2>3, <2>5 DEF CommitsOn, OnQuorum
  <2> DEFINE S == {r \in Replicas : GetLogEntry(r, Cur, n) # {}}
  <2>7. Q \subseteq S /\ S \subseteq Replicas /\ Cardinality(Q) >= QuorumSize
    BY <2>6, EntryIs DEF Quorums
  <2> HIDE DEF S
  <2>8. IsFiniteSet(S) /\ IsFiniteSet(Q) /\ Cardinality(Q) <= Cardinality(S)
    BY <2>7, Constants, FS_Subset
  <2>9. Cardinality(S) \in Nat /\ Cardinality(Q) \in Nat
    BY <2>8, FS_CardinalityType
  <2>10. Cardinality(S) >= QuorumSize
    BY <2>7, <2>8, <2>9, QuorumSizeIs
  <2> QED
    BY <2>10 DEF S
<1> QED
  BY <1>1, SeqInvHolds, PTL

(***************************************************************************)
(* When calls follow each other, re-replication never meets a log id that  *)
(* no replica of the sealed majority has: what lies below the largest end  *)
(* index it was told is held by the replica that told it or by a quorum.   *)
(***************************************************************************)
THEOREM RecoveryNeverStuck ==
  ASSUME OneAtATime
  PROVE  Spec => []RecoveryFindsEntry
<1>1. LogInv /\ SeqInv => RecoveryFindsEntry
  <2> SUFFICES ASSUME LogInv, SeqInv, NEW c \in Clients, rc[c].pc = "fetch"
               PROVE  \E r \in rc[c].quorum : GetLogEntry(r, rc[c].ver, rc[c].at) # {}
    BY DEF RecoveryFindsEntry
  <2>0. PICK v, n, Q, x : v = rc[c].ver /\ n = rc[c].at /\ Q = rc[c].quorum /\ x = rc[c].max
    OBVIOUS
  <2>1. v \in 1 .. Cur /\ v \in Versions /\ rc[c].todo = {} /\ x \in Ends /\ n \in Int
    BY <2>0, CallFacts DEF AfterSeals, RcCalls
  <2>2. Q \in Majorities
    BY <2>0 DEF LogInv, CallGood
  <2>3. Q \in SUBSET Replicas /\ Q # {} /\ Cardinality(Q) >= QuorumSize
    BY <2>2, MajorityNotEmpty, QuorumSizeIs DEF Majorities
  <2>4. Start(v) <= n /\ n < x /\ Reported(c)
    BY <2>0, <2>1, <2>3 DEF SeqInv, Recovery, RecoveryGood
  <2>5. PICK r \in Q : nano[r][v] # NoLog /\ x <= nano[r][v].queue.cur
    BY <2>0, <2>4 DEF Reported
  <2>6. Start(v) \in Ends
    BY <2>1, VersionFacts DEF Start
  <2>7. n \in LogIds
    BY <2>1, <2>4, <2>6, Constants DEF Ends, LogIds
  <2>8. nano[r][v].queue.cur \in Int
    BY <2>1, <2>3, <2>5, LogFacts
  <2>9. n < nano[r][v].queue.cur
    BY <2>1, <2>4, <2>5, <2>8, Constants DEF Ends
  <2>10. HasEntry(r, v, n) \/ OnQuorum(v, n)
    BY <2>1, <2>3, <2>4, <2>5, <2>7, <2>9 DEF SeqInv, Passed, PassedHeld
  <2>11. CASE HasEntry(r, v, n)
    BY <2>0, <2>11, EntryIs
  <2>12. CASE OnQuorum(v, n)
    <3>1. PICK P \in Quorums : \A p \in P : HasEntry(p, v, n)
      BY <2>12 DEF OnQuorum
    <3>2. PICK q \in P : q \in Q
      BY <2>3, QuorumsMeet DEF Quorums
    <3> QED
      BY <2>0, <3>1, <3>2, EntryIs
  <2> QED
    BY <2>10, <2>11, <2>12
<1> QED
  BY <1>1, SeqInvHolds, PTL

(***************************************************************************)
(* Durability: when calls follow each other, an append whose log id was    *)
(* returned is what every reader gets under that log id, whichever replica *)
(* answers first, across any number of reconfigurations, failed appends,   *)
(* failed reconfigurations and late requests.                              *)
(***************************************************************************)
THEOREM AckedEntriesStayReadable ==
  ASSUME OneAtATime
  PROVE  Spec => []AckedEntryReadable
<1>1. (LogInv /\ SeqInv) /\ AckedBeforeSealKept /\ SegmentsContiguous => AckedEntryReadable
  <2> SUFFICES ASSUME LogInv, SeqInv, AckedBeforeSealKept, SegmentsContiguous,
                      NEW a \in Appends, op[a].pc = "acked"
               PROVE  ReadableAt(op[a].logId) = {a}
    BY DEF AckedEntryReadable
  <2>0. Numbering /\ Placement /\ OnTime
    BY DEF SeqInv
  <2>1. PICK n : n = op[a].logId
    OBVIOUS
  <2>2. PICK v \in 1 .. Cur : InVersion(a, v) /\ v \in Versions /\ Start(v) <= n /\ n \in LogIds
    BY <2>0, <2>1, SentIn DEF Sent
  <2>3. PICK Q \in Quorums : Q \subseteq onTime[a].acked
    BY <2>0 DEF OnTime, HasOnTime
  <2>4. Q \in SUBSET Replicas /\ Cardinality(Q) >= QuorumSize
    BY <2>3 DEF Quorums
  <2>5. v + 1 \in 1 .. Cur => n < Start(v + 1)
    <3> SUFFICES ASSUME v + 1 \in 1 .. Cur PROVE n < Start(v + 1)
      OBVIOUS
    <3> DEFINE P == {r \in onTime[a].acked : op[a].ver[r] = v}
    <3>1. P \in SUBSET Replicas /\ Q \in SUBSET P
      <4>1. onTime[a].acked \in SUBSET Replicas
        BY DEF LogInv, Types
      <4> QED
        BY <2>2, <2>3, <2>4, <4>1 DEF InVersion
    <3>2. IsFiniteSet(P)
      BY <3>1, Constants, FS_Subset
    <3>3. IsFiniteSet(Q) /\ Cardinality(Q) <= Cardinality(P)
      BY <3>1, <3>2, FS_Subset
    <3>4. Cardinality(P) \in Nat /\ Cardinality(Q) \in Nat
      BY <3>2, <3>3, FS_CardinalityType
    <3>5. Cardinality(P) >= QuorumSize
      BY <2>4, <3>3, <3>4, QuorumSizeIs
    <3>6. HasConfig(v + 1)
      BY VersionFacts DEF HasConfig
    <3> QED
      BY <2>1, <2>2, <3>5, <3>6 DEF AckedBeforeSealKept, Start
  <2>6. {cfg.ver : cfg \in ConfigsUsingLogId(store, n)} = {v}
    <3> DEFINE V == {u \in DOMAIN store.configs : store.configs[u].start <= n}
    <3>1. DOMAIN store.configs = 1 .. Cur /\ Cur \in Nat
      BY VersionFacts
    <3>2. V \in SUBSET Int /\ v \in V
      BY <2>2, <3>1 DEF Start
    <3>3. \A u \in V : u <= v
      <4> SUFFICES ASSUME NEW u \in 1 .. Cur, store.configs[u].start <= n, ~(u <= v)
                   PROVE  FALSE
        BY <3>1
      <4>1. v + 1 \in 1 .. Cur /\ v + 1 <= u
        BY <3>1
      <4>2. store.configs[v + 1].start <= store.configs[u].start
        <5>1. \A w, x \in 1 .. Cur : w <= x => store.configs[w].start <= store.configs[x].start
          BY DEF LogInv, StoreGood, StoreOf
        <5> QED
          BY <4>1, <5>1
      <4>3. store.configs[v + 1].start \in Int /\ store.configs[u].start \in Int /\ n \in Int
        BY <2>2, <4>1, VersionFacts DEF Ends, LogIds
      <4> QED
        BY <2>5, <4>1, <4>2, <4>3 DEF Start
    <3> HIDE DEF V
    <3>4. Largest(V) = v
      BY <3>2, <3>3, LargestIs
    <3> QED
      BY <2>2, <3>4 DEF SegmentsContiguous, V
  <2>7. PICK r \in Q : TRUE
    <3>1. Cardinality({}) = 0
      BY FS_EmptySet
    <3> QED
      BY <2>4, <3>1, QuorumSizeIs
  <2>8. GetLogEntry(r, v, n) = {a}
    <3>1. stage[a][r] = "acked" /\ op[a].ver[r] = v /\ r \in Replicas
      BY <2>2, <2>3, <2>4, <2>7 DEF LogInv, OpGood, InVersion
    <3>2. HasEntry(r, v, n) /\ nano[r][v].logs[n] = a
      BY <2>0, <2>1, <3>1 DEF Placement
    <3> QED
      BY <3>2, EntryIs
  <2>9. \A x \in Replicas : \A y \in GetLogEntry(x, v, n) : y = a
    <3> SUFFICES ASSUME NEW x \in Replicas, NEW y \in GetLogEntry(x, v, n) PROVE y = a
      OBVIOUS
    <3>1. y \in Appends /\ InVersion(y, v) /\ op[y].logId = n
      BY <2>0, <2>2, ReadIsPlaced DEF Placed
    <3> QED
      BY <2>0, <2>1, <2>2, <3>1 DEF Numbering, IdsUnique
  <2>10. \A cfg \in ConfigsUsingLogId(store, n) : cfg.ver = v
    BY <2>6
  <2>11. \E cfg \in ConfigsUsingLogId(store, n) : cfg.ver = v
    BY <2>6
  <2>12. a \in ReadableAt(n)
    <3>1. PICK cfg \in ConfigsUsingLogId(store, n) : cfg.ver = v
      BY <2>11
    <3>2. a \in GetLogEntry(r, cfg.ver, n) /\ r \in Replicas
      BY <2>4, <2>7, <2>8, <3>1
    <3> QED
      BY <3>2 DEF ReadableAt
  <2>13. \A y \in ReadableAt(n) : y = a
    <3> TAKE y \in ReadableAt(n)
    <3>1. PICK x \in Replicas, cfg \in ConfigsUsingLogId(store, n) : y \in GetLogEntry(x, cfg.ver, n)
      BY DEF ReadableAt
    <3> QED
      BY <2>9, <2>10, <3>1
  <2> QED
    BY <2>1, <2>12, <2>13
<1> QED
  BY <1>1, SeqInvHolds, SealKeepsAcked, SegmentsStayContiguous, PTL
=============================================================================
