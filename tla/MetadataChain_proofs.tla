------------------------ MODULE MetadataChain_proofs ------------------------
(***************************************************************************)
(* Proofs about the replicated metadata store for any number of nodes,     *)
(* calls, registers, restarts and log ids.                                 *)
(***************************************************************************)
EXTENDS MetadataChain, OperatorLemmas

CallFields == {"pc", "mode", "next", "val", "config", "written", "res"}
Working    == {"probe", "offer", "written", "read", "apply"}
Pcs        == Working \union {"idle", "choose", "advance", "done", "failed"}

(* The first k registers are written. *)
Prefix(k) == k \in 0 .. MaxRegisters /\ \A w \in 1 .. k : reg[w] # Unwritten

(* The store t is the store s or a later one: versions keep their start. *)
Later(t, s) ==
  /\ CurrentVersionId(s) <= CurrentVersionId(t)
  /\ \A v \in 1 .. CurrentVersionId(s) : t.configs[v].start = s.configs[v].start

(* The configuration g succeeds a version the store s knows. *)
Succeeds(g, s) ==
  /\ DOMAIN g = ConfigFields
  /\ g.prev \in 0 .. CurrentVersionId(s) /\ g.ver = g.prev + 1
  /\ g.start \in 0 .. MaxLogId /\ g.end = EndOfLog
  /\ IF g.prev = 0 THEN g.start = 0 ELSE g.start >= s.configs[g.prev].start

(* A store of the chain's first k registers. *)
GoodStore(s, k) ==
  /\ StoreOf(s, CurrentVersionId(s), 0, MaxLogId)
  /\ CurrentVersionId(s) <= k /\ (k >= 1 => CurrentVersionId(s) >= 1)
  /\ DOMAIN s.byLogId \subseteq 0 .. MaxLogId
  /\ CurrentVersionId(s) = 0 => s = EmptyStore

(* Along the written registers the store grows, and a register that was
   applied is never accepted again. *)
ChainGrows ==
  \A k \in 0 .. MaxRegisters : Prefix(k) =>
    /\ GoodStore(Replay[k], k)
    /\ \A j \in 0 .. k : Later(Replay[k], Replay[j])
    /\ \A w \in 1 .. k : reg[w].prev < CurrentVersionId(Replay[w])

(* A configuration is offered on the first unwritten register only, and its
   caller has seen the version before it. *)
OffersFollow ==
  \A w \in Registers :
    /\ reg[w] # Unwritten => reg[w] \in offered[w]
    /\ \A g \in offered[w] : Prefix(w - 1) /\ Succeeds(g, Replay[w - 1])

(* The call c is at most one register ahead of a node that has applied k. *)
InReach(c, k) ==
  /\ call[c].pc \in Working => call[c].next <= k + 1
  /\ call[c].pc = "advance" => call[c].next <= k

(* The node has applied k registers. *)
At(n, k) ==
  /\ k \in last[n] .. MaxRegisters /\ Prefix(k) /\ store[n] = Replay[k]
  /\ \A c \in Calls : NodeOf(c) = n => InReach(c, k)

(* What a call knows is still true of the store of its node. *)
CallKnows(c) ==
  LET s == store[NodeOf(c)]
      v == call[c].config.ver
  IN  /\ call[c].pc \in Working \union {"advance"} => call[c].next \in Registers
      /\ call[c].pc \in {"apply", "advance"}
           => reg[call[c].next] # Unwritten /\ call[c].val = reg[call[c].next]
      /\ call[c].pc = "choose" =>
           /\ v \in 0 .. CurrentVersionId(s) /\ call[c].config.start \in 0 .. MaxLogId
           /\ call[c].config.start = IF v = 0 THEN 0 ELSE s.configs[v].start
      /\ call[c].pc \in {"idle", "probe"} => call[c].mode = "sync"
      /\ call[c].pc \in {"choose", "offer", "written", "read", "done"} => call[c].mode = "append"
      /\ call[c].pc \in Working \union {"advance"} /\ call[c].mode = "append"
           => Succeeds(call[c].config, s)
      /\ (/\ call[c].pc = "advance" \/ (call[c].pc = "done" /\ restarts = 0)
          /\ call[c].mode = "append" /\ call[c].res = "ok")
           => v \in 1 .. CurrentVersionId(s)

CallShape(c) ==
  /\ DOMAIN call[c] = CallFields /\ call[c].pc \in Pcs
  /\ call[c].mode \in {"sync", "append"} /\ call[c].res \in {"none", "ok", "conflict"}
  /\ call[c].next \in 0 .. (MaxRegisters + 1)
  /\ call[c].config.ver \in 0 .. (MaxRegisters + 1)

Shape ==
  /\ DOMAIN reg = Registers /\ DOMAIN offered = Registers
  /\ last \in [Nodes -> 0 .. MaxRegisters] /\ DOMAIN store = Nodes
  /\ DOMAIN call = Calls /\ restarts \in 0 .. MaxRestarts
  /\ \A c \in Calls : CallShape(c)

ChainInv ==
  /\ Shape /\ ChainGrows /\ OffersFollow
  /\ \A n \in Nodes : \E k \in 0 .. MaxRegisters : At(n, k)
  /\ \A c \in Calls : CallKnows(c)

-----------------------------------------------------------------------------
(***************************************************************************)
(* The replay of the chain.  Replay is a recursive function of the         *)
(* registers: it exists, and it depends only on the registers replayed.    *)
(***************************************************************************)
ReplayStep(s, v) ==
  IF v # Unwritten /\ MayAppendRange(s, v) THEN AppendRange(s, v) ELSE s

IsReplay(f, r) ==
  /\ f[0] = EmptyStore
  /\ \A k \in Registers : f[k] = ReplayStep(f[k - 1], r[k])

LEMMA ReplayExists ==
  ASSUME NEW r
  PROVE  \E f : IsReplay(f, r)
<1> DEFINE Good(f, N) == /\ f[0] = EmptyStore
                         /\ \A k \in 1 .. N : f[k] = ReplayStep(f[k - 1], r[k])
           S == {k \in Nat : ~ \E f : Good(f, k)}
<1>1. S = {}
  <2> SUFFICES ASSUME S # {} PROVE FALSE
    OBVIOUS
  <2>1. PICK k \in S : \A j \in S : k <= j
    BY LeastElement
  <2>2. CASE k = 0
    <3> DEFINE f == [j \in {0} |-> EmptyStore]
    <3>1. Good(f, 0)
      OBVIOUS
    <3> QED
      BY <2>2, <3>1
  <2>3. CASE k > 0
    <3>1. k - 1 \in Nat /\ k - 1 \notin S
      BY <2>1, <2>3
    <3>2. PICK g : Good(g, k - 1)
      BY <3>1
    <3> DEFINE f == [j \in 0 .. k |-> IF j < k THEN g[j] ELSE ReplayStep(g[k - 1], r[k])]
    <3>3. f[0] = EmptyStore
      BY <2>3, <3>2
    <3>4. ASSUME NEW j \in 1 .. k
          PROVE  f[j] = ReplayStep(f[j - 1], r[j])
      <4>1. f[j - 1] = g[j - 1]
        OBVIOUS
      <4>2. CASE j = k
        BY <4>1, <4>2
      <4>3. CASE j < k
        <5>1. j \in 1 .. (k - 1)
          BY <4>3
        <5>2. g[j] = ReplayStep(g[j - 1], r[j])
          BY <3>2, <5>1
        <5> QED
          BY <4>1, <4>3, <5>2
      <4> QED
        BY <4>2, <4>3
    <3>5. Good(f, k)
      BY <3>3, <3>4
    <3> QED
      BY <3>5
  <2> QED
    BY <2>2, <2>3
<1>2. PICK f : Good(f, MaxRegisters)
  BY <1>1, MetadataChainConstants
<1> QED
  BY <1>2 DEF IsReplay, Registers

LEMMA ReplayIs == IsReplay(Replay, reg)
<1>1. PICK f : IsReplay(f, reg)
  BY ReplayExists
<1> DEFINE F == [k \in 0 .. MaxRegisters |-> f[k]]
           Body(g) == [k \in 0 .. MaxRegisters |->
                         IF k = 0 THEN EmptyStore
                         ELSE IF reg[k] # Unwritten /\ MayAppendRange(g[k - 1], reg[k])
                                THEN AppendRange(g[k - 1], reg[k]) ELSE g[k - 1]]
<1>2. ASSUME NEW k \in 0 .. MaxRegisters
      PROVE  F[k] = Body(F)[k]
  <2>1. CASE k = 0
    BY <1>1, <2>1 DEF IsReplay
  <2>2. CASE k # 0
    <3>1. k \in Registers /\ k - 1 \in 0 .. MaxRegisters
      BY <2>2, MetadataChainConstants DEF Registers
    <3>2. f[k] = ReplayStep(f[k - 1], reg[k]) /\ F[k - 1] = f[k - 1] /\ F[k] = f[k]
      BY <1>1, <3>1 DEF IsReplay
    <3> QED
      BY <2>2, <3>2 DEF ReplayStep
  <2> QED
    BY <2>1, <2>2
<1>3. F = Body(F)
  BY <1>2
<1> HIDE DEF F
<1>4. Replay = Body(Replay)
  BY <1>3 DEF Replay
<1>5. 0 \in 0 .. MaxRegisters
  BY MetadataChainConstants
<1>6. Replay[0] = EmptyStore
  BY <1>4, <1>5
<1>7. ASSUME NEW k \in Registers
      PROVE  Replay[k] = ReplayStep(Replay[k - 1], reg[k])
  <2>1. k \in 0 .. MaxRegisters /\ k # 0
    BY DEF Registers
  <2>2. Replay[k] = Body(Replay)[k]
    BY <1>4
  <2> HIDE DEF Replay
  <2> QED
    BY <2>1, <2>2 DEF ReplayStep
<1> QED
  BY <1>6, <1>7 DEF IsReplay

LEMMA ReplayAgree ==
  ASSUME NEW f, NEW r, NEW g, NEW q, IsReplay(f, r), IsReplay(g, q),
         NEW k \in 0 .. MaxRegisters, \A w \in 1 .. k : r[w] = q[w]
  PROVE  \A j \in 0 .. k : f[j] = g[j]
<1> DEFINE S == {j \in Nat : j <= k /\ f[j] # g[j]}
<1> SUFFICES ASSUME S # {} PROVE FALSE
  OBVIOUS
<1>1. PICK j \in S : \A i \in S : j <= i
  BY LeastElement
<1>2. j # 0
  BY DEF IsReplay
<1>3. j - 1 \in Nat /\ j - 1 \notin S /\ j \in Registers /\ j \in 1 .. k
  BY <1>1, <1>2, MetadataChainConstants DEF Registers
<1>4. f[j - 1] = g[j - 1] /\ r[j] = q[j]
  BY <1>3
<1>5. f[j] = ReplayStep(f[j - 1], r[j]) /\ g[j] = ReplayStep(g[j - 1], q[j])
  BY <1>3 DEF IsReplay
<1> QED
  BY <1>4, <1>5

(* A step that keeps the registers keeps the replay. *)
LEMMA ReplaySame ==
  ASSUME UNCHANGED reg
  PROVE  Replay' = Replay
<1> QED
  BY DEF Replay

-----------------------------------------------------------------------------
(* Stores that grow *)

LEMMA GoodStoreFacts ==
  ASSUME NEW s, NEW k, GoodStore(s, k)
  PROVE  /\ CurrentVersionId(s) \in Nat /\ DOMAIN s.configs = 1 .. CurrentVersionId(s)
         /\ \A v \in 1 .. CurrentVersionId(s) :
              s.configs[v].ver = v /\ s.configs[v].start \in 0 .. MaxLogId
<1>1. /\ CurrentVersionId(s) \in Nat /\ DOMAIN s.configs = 1 .. CurrentVersionId(s)
      /\ \A v \in 1 .. CurrentVersionId(s) : s.configs[v].ver = v
      /\ DOMAIN s.byLogId = {s.configs[v].start : v \in 1 .. CurrentVersionId(s)}
  BY DEF GoodStore, StoreOf
<1>2. DOMAIN s.byLogId \subseteq 0 .. MaxLogId
  BY DEF GoodStore
<1> QED
  BY <1>1, <1>2

LEMMA EmptyIsGood == GoodStore(EmptyStore, 0) /\ CurrentVersionId(EmptyStore) = 0
<1>1. StoreOf(EmptyStore, 0, 0, MaxLogId) /\ CurrentVersionId(EmptyStore) = 0
  BY EmptyStoreIs
<1>2. DOMAIN EmptyStore.byLogId = {}
  BY DEF EmptyStore
<1> QED
  BY <1>1, <1>2 DEF GoodStore

LEMMA LaterSelf ==
  ASSUME NEW s, CurrentVersionId(s) \in Nat
  PROVE  Later(s, s)
BY DEF Later

LEMMA LaterTrans ==
  ASSUME NEW s, NEW t, NEW u, Later(t, s), Later(u, t),
         CurrentVersionId(s) \in Nat, CurrentVersionId(t) \in Nat, CurrentVersionId(u) \in Nat
  PROVE  Later(u, s)
<1>1. CurrentVersionId(s) <= CurrentVersionId(u)
  BY DEF Later
<1>2. \A v \in 1 .. CurrentVersionId(s) : v \in 1 .. CurrentVersionId(t)
  BY DEF Later
<1> QED
  BY <1>1, <1>2 DEF Later

(* A successor stays one while the store grows. *)
LEMMA SucceedsLater ==
  ASSUME NEW s, NEW t, NEW g, Succeeds(g, s), Later(t, s),
         CurrentVersionId(s) \in Nat, CurrentVersionId(t) \in Nat
  PROVE  Succeeds(g, t)
<1>1. g.prev \in 0 .. CurrentVersionId(t)
  BY DEF Later, Succeeds
<1>2. g.prev # 0 => g.prev \in 1 .. CurrentVersionId(s)
  BY DEF Succeeds
<1>3. g.prev # 0 => t.configs[g.prev].start = s.configs[g.prev].start
  BY <1>2 DEF Later
<1> QED
  BY <1>1, <1>3 DEF Succeeds

(* One register more: the store appends the successor of its last version
   and refuses every other one. *)
LEMMA GoodStep ==
  ASSUME NEW s, NEW k \in Nat, GoodStore(s, k), NEW g, g # Unwritten, Succeeds(g, s),
         NEW t, t = ReplayStep(s, g)
  PROVE  /\ GoodStore(t, k + 1) /\ Later(t, s) /\ g.prev < CurrentVersionId(t)
         /\ MayAppendRange(s, g) => CurrentVersionId(t) = CurrentVersionId(s) + 1
<1> DEFINE n == CurrentVersionId(s)
<1>1. n \in Nat /\ DOMAIN s.configs = 1 .. n
  BY GoodStoreFacts
<1>2. /\ DOMAIN g = ConfigFields /\ g.prev \in 0 .. n /\ g.ver = g.prev + 1
      /\ g.start \in 0 .. MaxLogId /\ g.end = EndOfLog
      /\ IF g.prev = 0 THEN g.start = 0 ELSE g.start >= s.configs[g.prev].start
  BY DEF Succeeds
<1>3. StoreOf(s, n, 0, MaxLogId) /\ n <= k /\ DOMAIN s.byLogId \subseteq 0 .. MaxLogId
  BY DEF GoodStore
<1> HIDE DEF n
<1>4. MayAppendRange(s, g) <=> g.prev = n
  <2>1. g.prev \in Int
    BY <1>1, <1>2
  <2> QED
    BY <1>1, <1>2, <2>1, MayAppendIs
<1>5. CASE g.prev = n
  <2>1. t = AppendRange(s, g)
    BY <1>4, <1>5 DEF ReplayStep
  <2>2. /\ g.ver = n + 1 /\ g.start \in Int /\ g.end \in Int /\ g.end > MaxLogId
        /\ IF n = 0 THEN g.start = 0 ELSE g.start >= s.configs[n].start
    BY <1>2, <1>5, MetadataChainConstants
  <2>3. /\ StoreOf(t, n + 1, 0, MaxLogId) /\ CurrentVersionId(t) = n + 1
        /\ \A v \in 1 .. n : t.configs[v].start = s.configs[v].start
        /\ DOMAIN t.byLogId = DOMAIN s.byLogId \union {g.start}
    BY <1>2, <1>3, <1>5, <2>1, <2>2, AppendRangeIs
  <2>4. GoodStore(t, k + 1)
    BY <1>1, <1>2, <1>3, <2>3 DEF GoodStore
  <2>5. Later(t, s)
    BY <1>1, <2>3 DEF Later, n
  <2> QED
    BY <1>1, <1>5, <2>3, <2>4, <2>5 DEF n
<1>6. CASE g.prev # n
  <2>1. t = s
    BY <1>4, <1>6 DEF ReplayStep
  <2>2. g.prev < n /\ n >= 1
    BY <1>1, <1>2, <1>6
  <2>3. GoodStore(s, k + 1)
    BY <1>1, <1>3, <2>2 DEF GoodStore, n
  <2>4. Later(s, s)
    BY <1>1, LaterSelf DEF n
  <2> QED
    BY <1>4, <1>6, <2>1, <2>2, <2>3, <2>4 DEF n
<1> QED
  BY <1>5, <1>6

-----------------------------------------------------------------------------
(* The chain *)

LEMMA PrefixReplay ==
  ASSUME ChainGrows, NEW k, Prefix(k)
  PROVE  /\ k \in 0 .. MaxRegisters /\ GoodStore(Replay[k], k)
         /\ \A j \in 0 .. k : Prefix(j) /\ Later(Replay[k], Replay[j])
         /\ \A w \in 1 .. k : reg[w].prev < CurrentVersionId(Replay[w])
<1>1. k \in 0 .. MaxRegisters
  BY DEF Prefix
<1>2. \A j \in 0 .. k : Prefix(j)
  BY <1>1, MetadataChainConstants DEF Prefix
<1> QED
  BY <1>1, <1>2 DEF ChainGrows

(* A step that decides nothing and offers nothing keeps the chain. *)
LEMMA ChainSame ==
  ASSUME UNCHANGED reg
  PROVE  /\ Replay' = Replay /\ \A k : Prefix(k)' <=> Prefix(k)
         /\ ChainGrows => ChainGrows'
         /\ OffersFollow /\ UNCHANGED offered => OffersFollow'
<1>1. Replay' = Replay
  BY ReplaySame
<1>2. \A k : Prefix(k)' <=> Prefix(k)
  BY DEF Prefix
<1>3. ChainGrows => ChainGrows'
  BY <1>1, <1>2 DEF ChainGrows
<1>4. OffersFollow /\ UNCHANGED offered => OffersFollow'
  BY <1>1, <1>2 DEF OffersFollow
<1> QED
  BY <1>1, <1>2, <1>3, <1>4

LEMMA DecideKeeps ==
  ASSUME ChainInv, NEW w \in Registers, Decide(w)
  PROVE  ChainInv'
<1>0. Shape /\ ChainGrows /\ OffersFollow
  BY DEF ChainInv
<1>1. PICK g \in offered[w] : reg' = [reg EXCEPT ![w] = g]
  BY DEF Decide
<1>2. /\ reg[w] = Unwritten /\ reg'[w] = g /\ DOMAIN reg' = Registers
      /\ \A x \in Registers : x # w => reg'[x] = reg[x]
  BY <1>0, <1>1 DEF Shape, Decide
<1>3. UNCHANGED <<offered, store, last, call, restarts>>
  BY DEF Decide
<1>4. w \in Nat /\ w >= 1 /\ w <= MaxRegisters /\ MaxRegisters \in Nat
  BY MetadataChainConstants DEF Registers
<1>5. Prefix(w - 1) /\ Succeeds(g, Replay[w - 1])
  BY <1>0 DEF OffersFollow
<1>6. IsReplay(Replay, reg) /\ IsReplay(Replay, reg)'
  BY ReplayIs, PTL
<1>7. IsReplay(Replay', reg')
  BY <1>6 DEF IsReplay, Registers
<1>8. ASSUME NEW k \in 0 .. MaxRegisters, k < w
      PROVE  Replay'[k] = Replay[k] /\ (Prefix(k)' <=> Prefix(k))
  <2>1. \A x \in 1 .. k : reg'[x] = reg[x]
    BY <1>2, <1>4, <1>8 DEF Registers
  <2>2. k \in 0 .. k
    BY <1>4
  <2> HIDE DEF Replay
  <2>3. \A j \in 0 .. k : Replay'[j] = Replay[j]
    BY <1>6, <1>7, <2>1, ReplayAgree
  <2>4. Prefix(k)' <=> Prefix(k)
    BY <2>1 DEF Prefix
  <2> QED
    BY <2>2, <2>3, <2>4
<1>9. ASSUME NEW k, Prefix(k)
      PROVE  k < w /\ k \in 0 .. MaxRegisters
  BY <1>2, <1>4, <1>9 DEF Prefix
<1>10. ASSUME NEW k, Prefix(k)', k >= w
       PROVE  k = w /\ g # Unwritten
  <2>1. k \in 0 .. MaxRegisters /\ \A x \in 1 .. k : reg'[x] # Unwritten
    BY <1>10 DEF Prefix
  <2>2. reg'[w] # Unwritten
    BY <1>4, <1>10, <2>1
  <2>3. ASSUME k > w PROVE FALSE
    <3>1. w + 1 \in 1 .. k /\ w + 1 \in Registers /\ w + 1 # w
      BY <1>4, <2>1, <2>3 DEF Registers
    <3>2. reg[w + 1] # Unwritten
      BY <1>2, <2>1, <3>1
    <3>3. reg[w + 1] \in offered[w + 1]
      BY <1>0, <3>1, <3>2 DEF OffersFollow
    <3>4. Prefix((w + 1) - 1)
      BY <1>0, <3>1, <3>3 DEF OffersFollow
    <3>5. (w + 1) - 1 = w
      BY <1>4
    <3>6. Prefix(w)
      BY <3>4, <3>5
    <3>7. w < w
      BY <3>6, <1>9
    <3> QED
      BY <1>4, <3>7
  <2> QED
    BY <1>2, <1>4, <1>10, <2>1, <2>2, <2>3
<1>11. Replay'[w] = ReplayStep(Replay[w - 1], g)
  <2>1. w - 1 \in 0 .. MaxRegisters /\ w - 1 < w
    BY <1>4
  <2>2. Replay'[w] = ReplayStep(Replay'[w - 1], reg'[w])
    BY <1>7 DEF IsReplay
  <2>3. Replay'[w - 1] = Replay[w - 1]
    BY <1>8, <2>1
  <2> QED
    BY <1>2, <2>2, <2>3
<1>12. /\ w - 1 \in Nat /\ GoodStore(Replay[w - 1], w - 1)
       /\ \A j \in 0 .. (w - 1) : /\ Prefix(j) /\ Later(Replay[w - 1], Replay[j])
                                  /\ GoodStore(Replay[j], j)
       /\ \A x \in 1 .. (w - 1) : reg[x].prev < CurrentVersionId(Replay[x])
  <2>1. w - 1 \in Nat
    BY <1>4
  <2>2. \A j \in 0 .. (w - 1) : Prefix(j)
    BY <1>0, <1>5, PrefixReplay
  <2> QED
    BY <1>0, <1>5, <2>1, <2>2, PrefixReplay
<1>13. ASSUME g # Unwritten
       PROVE  /\ GoodStore(Replay'[w], w) /\ Later(Replay'[w], Replay[w - 1])
              /\ g.prev < CurrentVersionId(Replay'[w])
  <2>1. GoodStore(Replay'[w], (w - 1) + 1)
    BY <1>5, <1>11, <1>12, <1>13, GoodStep
  <2>2. (w - 1) + 1 = w
    BY <1>4
  <2> QED
    BY <1>5, <1>11, <1>12, <1>13, <2>1, <2>2, GoodStep
<1>14. ChainGrows'
  <2> SUFFICES ASSUME NEW k \in 0 .. MaxRegisters, Prefix(k)'
               PROVE  /\ GoodStore(Replay'[k], k)
                      /\ \A j \in 0 .. k : Later(Replay'[k], Replay'[j])
                      /\ \A x \in 1 .. k : reg'[x].prev < CurrentVersionId(Replay'[x])
    BY DEF ChainGrows, GoodStore, Later, StoreOf
  <2>1. CASE k < w
    <3>1. Prefix(k) /\ Replay'[k] = Replay[k]
      BY <1>8, <2>1
    <3>2. \A j \in 0 .. k : j \in 0 .. MaxRegisters /\ j < w
      BY <1>4, <2>1
    <3>3. \A j \in 0 .. k : Replay'[j] = Replay[j]
      BY <1>8, <3>2
    <3>4. \A x \in 1 .. k : x \in 0 .. k /\ x \in Registers /\ x # w
      BY <1>4, <2>1 DEF Registers
    <3>5. \A x \in 1 .. k : reg'[x] = reg[x] /\ Replay'[x] = Replay[x]
      BY <1>2, <3>3, <3>4
    <3>6. /\ GoodStore(Replay[k], k) /\ \A j \in 0 .. k : Later(Replay[k], Replay[j])
          /\ \A x \in 1 .. k : reg[x].prev < CurrentVersionId(Replay[x])
      BY <1>0, <3>1, PrefixReplay
    <3> HIDE DEF Replay
    <3> QED
      BY <3>1, <3>3, <3>5, <3>6
  <2>2. CASE k >= w
    <3>1. k = w /\ g # Unwritten
      BY <1>10, <2>2
    <3>2. \A j \in 0 .. (w - 1) : j \in 0 .. MaxRegisters /\ j < w
      BY <1>4
    <3>3. \A j \in 0 .. (w - 1) : Replay'[j] = Replay[j]
      BY <1>8, <3>2
    <3>4. \A j \in 0 .. w : j = w \/ j \in 0 .. (w - 1)
      BY <1>4
    <3>5. \A x \in 1 .. w : x = w \/ (x \in 1 .. (w - 1) /\ x \in 0 .. (w - 1)
                                     /\ x \in Registers /\ x # w)
      BY <1>4 DEF Registers
    <3> HIDE DEF Replay
    <3>6. CurrentVersionId(Replay'[w]) \in Nat /\ CurrentVersionId(Replay[w - 1]) \in Nat
      BY <1>12, <1>13, <3>1, GoodStoreFacts
    <3>7. Later(Replay'[w], Replay'[w])
      BY <3>6, LaterSelf
    <3>8. ASSUME NEW j \in 0 .. (w - 1)
          PROVE  Later(Replay'[w], Replay[j])
      <4>1. CurrentVersionId(Replay[j]) \in Nat /\ Later(Replay[w - 1], Replay[j])
        BY <1>12, GoodStoreFacts
      <4> QED
        BY <1>13, <3>1, <3>6, <4>1, LaterTrans
    <3>9. \A j \in 0 .. w : Later(Replay'[w], Replay'[j])
      BY <3>3, <3>4, <3>7, <3>8
    <3>10. \A x \in 1 .. w : reg'[x].prev < CurrentVersionId(Replay'[x])
      BY <1>2, <1>12, <1>13, <3>1, <3>3, <3>5
    <3> QED
      BY <1>13, <3>1, <3>9, <3>10
  <2> QED
    BY <1>4, <2>1, <2>2
<1>15. OffersFollow'
  <2> SUFFICES ASSUME NEW x \in Registers
               PROVE  /\ reg'[x] # Unwritten => reg'[x] \in offered[x]
                      /\ \A h \in offered[x] : Prefix(x - 1)' /\ Succeeds(h, Replay'[x - 1])
    BY <1>3 DEF OffersFollow, Succeeds
  <2>1. reg'[x] # Unwritten => reg'[x] \in offered[x]
    BY <1>0, <1>2 DEF OffersFollow
  <2>2. ASSUME NEW h \in offered[x]
        PROVE  Prefix(x - 1)' /\ Succeeds(h, Replay'[x - 1])
    <3>1. Prefix(x - 1) /\ Succeeds(h, Replay[x - 1])
      BY <1>0 DEF OffersFollow
    <3>2. Replay'[x - 1] = Replay[x - 1] /\ Prefix(x - 1)'
      BY <1>8, <1>9, <3>1
    <3> QED
      BY <3>1, <3>2
  <2> QED
    BY <2>1, <2>2
<1>16. \A n \in Nodes : \E k \in 0 .. MaxRegisters : At(n, k)'
  <2> TAKE n \in Nodes
  <2>1. PICK k \in 0 .. MaxRegisters : At(n, k)
    BY DEF ChainInv
  <2>2. Prefix(k) /\ store[n] = Replay[k]
    BY <2>1 DEF At
  <2>3. Replay'[k] = Replay[k] /\ Prefix(k)'
    BY <1>8, <1>9, <2>2
  <2>4. \A c \in Calls : InReach(c, k)' <=> InReach(c, k)
    BY <1>3 DEF InReach
  <2> HIDE DEF Replay
  <2>5. At(n, k)'
    BY <1>3, <2>1, <2>2, <2>3, <2>4 DEF At
  <2> QED
    BY <2>5
<1>17. \A c \in Calls : CallKnows(c)'
  <2> TAKE c \in Calls
  <2>1. CallKnows(c) /\ CallShape(c)
    BY <1>0 DEF ChainInv, Shape
  <2>2. ASSUME call[c].pc \in {"apply", "advance"}
        PROVE  reg'[call[c].next] = reg[call[c].next]
    <3>1. call[c].next \in Registers /\ reg[call[c].next] # Unwritten
      BY <2>1, <2>2 DEF CallKnows, Working
    <3> QED
      BY <1>2, <3>1
  <2> QED
    BY <1>3, <2>1, <2>2 DEF CallKnows, Succeeds
<1>18. Shape'
  BY <1>0, <1>2, <1>3 DEF Shape, CallShape
<1> QED
  BY <1>14, <1>15, <1>16, <1>17, <1>18 DEF ChainInv

-----------------------------------------------------------------------------
(* The steps of a call *)

(* A step of the call c that leaves every store alone: what has to be shown
   of c and of the register it offers to. *)
LEMMA CallStep ==
  ASSUME ChainInv, NEW c \in Calls, UNCHANGED <<reg, store, restarts>>,
         NEW e, call' = [call EXCEPT ![c] = e], CallShape(c)', CallKnows(c)',
         DOMAIN offered' = Registers, OffersFollow',
         last' \in [Nodes -> 0 .. MaxRegisters],
         \A n \in Nodes : n # NodeOf(c) => last'[n] = last[n],
         \A k \in 0 .. MaxRegisters :
           At(NodeOf(c), k) => last'[NodeOf(c)] <= k /\ InReach(c, k)'
  PROVE  ChainInv'
<1>1. Shape /\ ChainGrows
  BY DEF ChainInv
<1>2. /\ Replay' = Replay /\ ChainGrows' /\ \A k : Prefix(k)' <=> Prefix(k)
  BY <1>1, ChainSame
<1>3. DOMAIN call' = Calls /\ \A d \in Calls : d # c => call'[d] = call[d]
  BY <1>1 DEF Shape
<1>4. ASSUME NEW d \in Calls, d # c
      PROVE  CallShape(d)' /\ CallKnows(d)' /\ \A k : InReach(d, k)' <=> InReach(d, k)
  <2>1. CallShape(d) /\ CallKnows(d) /\ call'[d] = call[d]
    BY <1>1, <1>3, <1>4 DEF ChainInv, Shape
  <2>2. CallShape(d)'
    BY <2>1 DEF CallShape
  <2>3. CallKnows(d)'
    BY <2>1 DEF CallKnows, Succeeds
  <2>4. \A k : InReach(d, k)' <=> InReach(d, k)
    BY <2>1 DEF InReach
  <2> QED
    BY <2>2, <2>3, <2>4
<1>5. Shape'
  BY <1>1, <1>3, <1>4 DEF Shape
<1>6. \A n \in Nodes : \E k \in 0 .. MaxRegisters : At(n, k)'
  <2> TAKE n \in Nodes
  <2>1. PICK k \in 0 .. MaxRegisters : At(n, k)
    BY DEF ChainInv
  <2>2. last'[n] <= k /\ last'[n] \in 0 .. MaxRegisters /\ k \in Int
    <3>1. CASE n = NodeOf(c)
      BY <2>1, <3>1, MetadataChainConstants
    <3>2. CASE n # NodeOf(c)
      BY <1>1, <2>1, <3>2, MetadataChainConstants DEF At, Shape
    <3> QED
      BY <3>1, <3>2
  <2>3. \A d \in Calls : NodeOf(d) = n => InReach(d, k)'
    BY <1>4, <2>1 DEF At
  <2>4. k \in last'[n] .. MaxRegisters
    BY <2>1, <2>2, MetadataChainConstants
  <2> HIDE DEF Replay
  <2>5. At(n, k)'
    BY <1>2, <2>1, <2>3, <2>4 DEF At
  <2> QED
    BY <2>5
<1>7. \A d \in Calls : CallKnows(d)'
  BY <1>4
<1> QED
  BY <1>2, <1>5, <1>6, <1>7 DEF ChainInv

(* What holds before a step of the call c. *)
LEMMA CallFacts ==
  ASSUME ChainInv, NEW c \in Calls
  PROVE  /\ NodeOf(c) \in Nodes /\ DOMAIN call = Calls
         /\ CallShape(c) /\ CallKnows(c)
         /\ last \in [Nodes -> 0 .. MaxRegisters] /\ MaxRegisters \in Nat
         /\ DOMAIN offered = Registers /\ OffersFollow
         /\ \E k \in 0 .. MaxRegisters : At(NodeOf(c), k)
         /\ \A k : At(NodeOf(c), k) =>
              /\ k \in 0 .. MaxRegisters /\ last[NodeOf(c)] <= k
              /\ GoodStore(store[NodeOf(c)], k) /\ InReach(c, k)
<1>1. NodeOf(c) \in Nodes /\ MaxRegisters \in Nat
  BY MetadataChainConstants
<1>2. ASSUME NEW k, At(NodeOf(c), k)
      PROVE  /\ k \in 0 .. MaxRegisters /\ last[NodeOf(c)] <= k
             /\ GoodStore(store[NodeOf(c)], k) /\ InReach(c, k)
  <2>1. Prefix(k) /\ store[NodeOf(c)] = Replay[k] /\ InReach(c, k)
        /\ k \in last[NodeOf(c)] .. MaxRegisters
    BY <1>2 DEF At
  <2>2. k \in 0 .. MaxRegisters /\ GoodStore(Replay[k], k)
    BY <2>1, PrefixReplay DEF ChainInv
  <2>3. last[NodeOf(c)] \in 0 .. MaxRegisters
    BY <1>1 DEF ChainInv, Shape
  <2>4. last[NodeOf(c)] <= k
    BY <1>1, <2>1, <2>3
  <2> QED
    BY <2>1, <2>2, <2>4
<1> QED
  BY <1>1, <1>2 DEF ChainInv, Shape

(* A step that changes nothing but the call c. *)
LEMMA PlainStep ==
  ASSUME ChainInv, NEW c \in Calls, UNCHANGED <<reg, offered, store, last, restarts>>,
         NEW e, call' = [call EXCEPT ![c] = e], CallShape(c)', CallKnows(c)',
         \A k \in 0 .. MaxRegisters : At(NodeOf(c), k) /\ InReach(c, k) => InReach(c, k)'
  PROVE  ChainInv'
<1>1. OffersFollow' /\ DOMAIN offered' = Registers
  BY CallFacts, ChainSame
<1>2. last' \in [Nodes -> 0 .. MaxRegisters] /\ last' = last
  BY CallFacts
<1>3. \A k \in 0 .. MaxRegisters :
        At(NodeOf(c), k) => last'[NodeOf(c)] <= k /\ InReach(c, k)'
  BY <1>2, CallFacts
<1> QED
  BY <1>1, <1>2, <1>3, CallStep

LEMMA BeginSyncKeeps ==
  ASSUME ChainInv, NEW c \in Calls, BeginSync(c)
  PROVE  ChainInv'
<1> DEFINE e == [call[c] EXCEPT !.pc = "probe", !.next = last[NodeOf(c)] + 1]
<1>1. /\ call[c].pc = "idle" /\ last[NodeOf(c)] < MaxRegisters
      /\ call' = [call EXCEPT ![c] = e] /\ UNCHANGED <<reg, offered, store, last, restarts>>
  BY DEF BeginSync
<1>2. CallShape(c) /\ CallKnows(c) /\ DOMAIN call = Calls
  BY CallFacts
<1>3. call'[c] = e
  BY <1>1, <1>2
<1>4. /\ DOMAIN e = CallFields /\ e.pc = "probe" /\ e.next = last[NodeOf(c)] + 1
      /\ e.mode = call[c].mode /\ e.res = call[c].res /\ e.config = call[c].config
  BY <1>2 DEF CallShape, CallFields
<1> HIDE DEF e
<1>5. last[NodeOf(c)] \in 0 .. MaxRegisters /\ MaxRegisters \in Nat
  BY CallFacts
<1>6. call[c].mode = "sync"
  BY <1>1, <1>2 DEF CallKnows
<1>7. CallShape(c)'
  BY <1>1, <1>2, <1>3, <1>4, <1>5 DEF CallShape, Pcs, Working
<1>8. CallKnows(c)'
  BY <1>1, <1>3, <1>4, <1>5, <1>6 DEF CallKnows, Working, Registers
<1>9. \A k \in 0 .. MaxRegisters : At(NodeOf(c), k) => InReach(c, k)'
  <2> SUFFICES ASSUME NEW k \in 0 .. MaxRegisters, At(NodeOf(c), k)
               PROVE  InReach(c, k)'
    OBVIOUS
  <2>1. last[NodeOf(c)] <= k
    BY CallFacts
  <2> QED
    BY <1>3, <1>4, <1>5, <2>1 DEF InReach
<1> QED
  BY <1>1, <1>7, <1>8, <1>9, PlainStep

LEMMA ProbeWrittenKeeps ==
  ASSUME ChainInv, NEW c \in Calls, ProbeWritten(c) \/ ReadValue(c)
  PROVE  ChainInv'
<1> DEFINE e == [call[c] EXCEPT !.pc = "apply", !.val = reg[call[c].next]]
<1>1. /\ call[c].pc \in {"probe", "read"} /\ reg[call[c].next] # Unwritten
      /\ call' = [call EXCEPT ![c] = e] /\ UNCHANGED <<reg, offered, store, last, restarts>>
  BY DEF ProbeWritten, ReadValue
<1>2. CallShape(c) /\ CallKnows(c) /\ DOMAIN call = Calls
  BY CallFacts
<1>3. call'[c] = e
  BY <1>1, <1>2
<1>4. /\ DOMAIN e = CallFields /\ e.pc = "apply" /\ e.val = reg[call[c].next]
      /\ e.next = call[c].next /\ e.mode = call[c].mode /\ e.res = call[c].res
      /\ e.config = call[c].config
  BY <1>2 DEF CallShape, CallFields
<1> HIDE DEF e
<1>5. CallShape(c)'
  BY <1>1, <1>2, <1>3, <1>4 DEF CallShape, Pcs, Working
<1>6. CallKnows(c)'
  BY <1>1, <1>2, <1>3, <1>4 DEF CallKnows, Working, Succeeds
<1>7. \A k \in 0 .. MaxRegisters : InReach(c, k) => InReach(c, k)'
  BY <1>1, <1>3, <1>4 DEF InReach, Working
<1> QED
  BY <1>1, <1>5, <1>6, <1>7, PlainStep

LEMMA ProbeUnwrittenKeeps ==
  ASSUME ChainInv, NEW c \in Calls, ProbeUnwritten(c)
  PROVE  ChainInv'
<1> DEFINE s == store[NodeOf(c)]
           v == CurrentVersionId(s)
           e == [call[c] EXCEPT !.pc = "choose", !.mode = "append",
                                !.config = Config(NodeOf(c), v)]
<1>1. /\ call[c].pc = "probe" /\ call' = [call EXCEPT ![c] = e]
      /\ UNCHANGED <<reg, offered, store, last, restarts>>
  BY DEF ProbeUnwritten
<1>2. CallShape(c) /\ CallKnows(c) /\ DOMAIN call = Calls
  BY CallFacts
<1>3. call'[c] = e
  BY <1>1, <1>2
<1>4. /\ DOMAIN e = CallFields /\ e.pc = "choose" /\ e.mode = "append"
      /\ e.config = Config(NodeOf(c), v) /\ e.next = call[c].next /\ e.res = call[c].res
  BY <1>2 DEF CallShape, CallFields
<1> HIDE DEF e
<1>5. PICK k \in 0 .. MaxRegisters : At(NodeOf(c), k)
  BY CallFacts
<1>6. GoodStore(s, k) /\ MaxRegisters \in Nat
  BY <1>5, CallFacts
<1>7. /\ v \in Nat /\ v <= k
      /\ \A x \in 1 .. v : s.configs[x].ver = x /\ s.configs[x].start \in 0 .. MaxLogId
  BY <1>6, GoodStoreFacts DEF GoodStore
<1>8. /\ e.config.ver = v /\ e.config.start \in 0 .. MaxLogId
      /\ e.config.start = IF v = 0 THEN 0 ELSE s.configs[v].start
  <2>1. CASE v = 0
    BY <1>4, <2>1, MetadataChainConstants DEF Config, NoConfig
  <2>2. CASE v # 0
    <3>1. v \in 1 .. v /\ e.config = s.configs[v]
      BY <1>4, <1>7, <2>2 DEF Config
    <3> QED
      BY <1>7, <2>2, <3>1
  <2> QED
    BY <2>1, <2>2
<1>9. CallShape(c)'
  BY <1>2, <1>3, <1>4, <1>5, <1>6, <1>7, <1>8 DEF CallShape, Pcs, Working
<1>10. CallKnows(c)'
  <2>1. v \in 0 .. v /\ store' = store
    BY <1>1, <1>7
  <2> QED
    BY <1>3, <1>4, <1>8, <2>1 DEF CallKnows, Working
<1>11. \A j \in 0 .. MaxRegisters : InReach(c, j) => InReach(c, j)'
  BY <1>3, <1>4 DEF InReach, Working
<1> QED
  BY <1>1, <1>9, <1>10, <1>11, PlainStep

LEMMA BeginAppendKeeps ==
  ASSUME ChainInv, NEW c \in Calls, NEW start \in 0 .. MaxLogId, BeginAppend(c, start)
  PROVE  ChainInv'
<1> DEFINE old == call[c].config
           s == store[NodeOf(c)]
           g == [prev |-> old.ver, ver |-> old.ver + 1, start |-> start, end |-> EndOfLog,
                 seqr |-> NodeOf(c)]
           e == [call[c] EXCEPT !.pc = "offer", !.next = last[NodeOf(c)] + 1,
                                !.written = FALSE, !.config = g]
<1>1. /\ call[c].pc = "choose" /\ last[NodeOf(c)] < MaxRegisters
      /\ start >= old.start /\ (old.ver = 0 => start = old.start)
      /\ call' = [call EXCEPT ![c] = e] /\ UNCHANGED <<reg, offered, store, last, restarts>>
  BY DEF BeginAppend
<1>2. CallShape(c) /\ CallKnows(c) /\ DOMAIN call = Calls
  BY CallFacts
<1>3. call'[c] = e
  BY <1>1, <1>2
<1>4. /\ DOMAIN e = CallFields /\ e.pc = "offer" /\ e.next = last[NodeOf(c)] + 1
      /\ e.config = g /\ e.mode = call[c].mode /\ e.res = call[c].res
  BY <1>2 DEF CallShape, CallFields
<1> HIDE DEF e
<1>5. last[NodeOf(c)] \in 0 .. MaxRegisters /\ MaxRegisters \in Nat
  BY CallFacts
<1>6. PICK k \in 0 .. MaxRegisters : At(NodeOf(c), k)
  BY CallFacts
<1>7. CurrentVersionId(s) \in Nat /\ CurrentVersionId(s) <= k
  BY <1>6, CallFacts, GoodStoreFacts DEF GoodStore
<1>8. old.ver \in 0 .. CurrentVersionId(s) /\ old.start = IF old.ver = 0 THEN 0 ELSE s.configs[old.ver].start
  BY <1>1, <1>2 DEF CallKnows
<1>9. /\ DOMAIN g = ConfigFields /\ g.prev = old.ver /\ g.ver = old.ver + 1
      /\ g.start = start /\ g.end = EndOfLog
  BY DEF ConfigFields
<1> HIDE DEF g
<1>10. Succeeds(g, s)
  BY <1>1, <1>7, <1>8, <1>9 DEF Succeeds
<1>11. call[c].mode = "append"
  BY <1>1, <1>2 DEF CallKnows
<1>12. g.ver \in 0 .. (MaxRegisters + 1)
  BY <1>5, <1>6, <1>7, <1>8, <1>9
<1>13. CallShape(c)'
  BY <1>2, <1>3, <1>4, <1>5, <1>12 DEF CallShape, Pcs, Working
<1>14. CallKnows(c)'
  BY <1>1, <1>3, <1>4, <1>5, <1>10, <1>11 DEF CallKnows, Working, Registers
<1>15. \A j \in 0 .. MaxRegisters : At(NodeOf(c), j) => InReach(c, j)'
  <2> SUFFICES ASSUME NEW j \in 0 .. MaxRegisters, At(NodeOf(c), j)
               PROVE  InReach(c, j)'
    OBVIOUS
  <2>1. last[NodeOf(c)] <= j
    BY CallFacts
  <2> QED
    BY <1>3, <1>4, <1>5, <2>1 DEF InReach
<1> QED
  BY <1>1, <1>13, <1>14, <1>15, PlainStep

LEMMA WriteResultKeeps ==
  ASSUME ChainInv, NEW c \in Calls, ReadError(c) \/ \E ok \in BOOLEAN : WriteResult(c, ok)
  PROVE  ChainInv'
<1>0. PICK e : /\ call' = [call EXCEPT ![c] = e] /\ UNCHANGED <<reg, offered, store, last, restarts>>
               /\ call[c].pc \in {"written", "read"} /\ e.pc \in {"offer", "read"}
               /\ DOMAIN e = CallFields /\ e.next = call[c].next /\ e.mode = call[c].mode
               /\ e.res = call[c].res /\ e.config = call[c].config
  <2>0. DOMAIN call[c] = CallFields
    BY CallFacts DEF CallShape
  <2>1. CASE ReadError(c)
    <3> DEFINE e == [call[c] EXCEPT !.pc = "offer"]
    <3>1. /\ call' = [call EXCEPT ![c] = e] /\ UNCHANGED <<reg, offered, store, last, restarts>>
          /\ call[c].pc = "read"
      BY <2>1 DEF ReadError
    <3>2. /\ DOMAIN e = CallFields /\ e.pc = "offer" /\ e.next = call[c].next
          /\ e.mode = call[c].mode /\ e.res = call[c].res /\ e.config = call[c].config
      BY <2>0 DEF CallFields
    <3> HIDE DEF e
    <3> QED
      BY <3>1, <3>2
  <2>2. CASE \E ok \in BOOLEAN : WriteResult(c, ok)
    <3>0. PICK ok \in BOOLEAN : WriteResult(c, ok)
      BY <2>2
    <3> DEFINE e == [call[c] EXCEPT !.pc = "read", !.written = @ \/ ok]
    <3>1. /\ call' = [call EXCEPT ![c] = e] /\ UNCHANGED <<reg, offered, store, last, restarts>>
          /\ call[c].pc = "written"
      BY <3>0 DEF WriteResult
    <3>2. /\ DOMAIN e = CallFields /\ e.pc = "read" /\ e.next = call[c].next
          /\ e.mode = call[c].mode /\ e.res = call[c].res /\ e.config = call[c].config
      BY <2>0 DEF CallFields
    <3> HIDE DEF e
    <3> QED
      BY <3>1, <3>2
  <2> QED
    BY <2>1, <2>2
<1>1. CallShape(c) /\ CallKnows(c) /\ DOMAIN call = Calls
  BY CallFacts
<1>2. call'[c] = e
  BY <1>0, <1>1
<1>3. CallShape(c)'
  BY <1>0, <1>1, <1>2 DEF CallShape, Pcs, Working
<1>4. CallKnows(c)'
  BY <1>0, <1>1, <1>2 DEF CallKnows, Working, Succeeds
<1>5. \A k \in 0 .. MaxRegisters : InReach(c, k) => InReach(c, k)'
  BY <1>0, <1>2 DEF InReach, Working
<1> QED
  BY <1>0, <1>3, <1>4, <1>5, PlainStep

(* The first unwritten register is the one after those the node applied, and
   the caller has seen the last version before it. *)
LEMMA OfferKeeps ==
  ASSUME ChainInv, NEW c \in Calls, Offer(c)
  PROVE  ChainInv'
<1> DEFINE w == call[c].next
           g == call[c].config
           s == store[NodeOf(c)]
           e == [call[c] EXCEPT !.pc = "written"]
<1>1. /\ call[c].pc = "offer" /\ call' = [call EXCEPT ![c] = e]
      /\ offered' = IF reg[w] = Unwritten THEN [offered EXCEPT ![w] = @ \union {g}]
                     ELSE offered
      /\ UNCHANGED <<reg, store, last, restarts>>
  BY DEF Offer
<1>2. CallShape(c) /\ CallKnows(c) /\ DOMAIN call = Calls
  BY CallFacts
<1>3. call'[c] = e
  BY <1>1, <1>2
<1>4. /\ DOMAIN e = CallFields /\ e.pc = "written" /\ e.next = w /\ e.config = g
      /\ e.mode = call[c].mode /\ e.res = call[c].res
  BY <1>2 DEF CallShape, CallFields
<1> HIDE DEF e
<1>5. CallShape(c)'
  BY <1>2, <1>3, <1>4 DEF CallShape, Pcs, Working
<1>6. CallKnows(c)'
  BY <1>1, <1>2, <1>3, <1>4 DEF CallKnows, Working, Succeeds
<1>7. \A k \in 0 .. MaxRegisters : InReach(c, k) => InReach(c, k)'
  BY <1>1, <1>3, <1>4 DEF InReach, Working
<1>8. \A k \in 0 .. MaxRegisters :
        At(NodeOf(c), k) => last'[NodeOf(c)] <= k /\ InReach(c, k)'
  BY <1>1, <1>7, CallFacts
<1>9. w \in Registers /\ Succeeds(g, s)
  BY <1>1, <1>2 DEF CallKnows, Working
<1>10. DOMAIN offered' = Registers /\ DOMAIN offered = Registers /\ OffersFollow
  BY <1>1, CallFacts
<1>11. OffersFollow'
  <2>1. CASE reg[w] # Unwritten
    BY <1>1, <1>10, <2>1, ChainSame
  <2>2. CASE reg[w] = Unwritten
    <3>1. PICK k \in 0 .. MaxRegisters : At(NodeOf(c), k)
      BY CallFacts
    <3>2. Prefix(k) /\ s = Replay[k] /\ w <= k + 1
      BY <1>1, <3>1 DEF At, InReach, Working
    <3>3. w - 1 = k
      BY <1>9, <2>2, <3>2, MetadataChainConstants DEF Prefix, Registers
    <3>4. Prefix(w - 1) /\ Succeeds(g, Replay[w - 1])
      BY <1>9, <3>2, <3>3
    <3>5. /\ offered'[w] = offered[w] \union {g}
          /\ \A x \in Registers : x # w => offered'[x] = offered[x]
      BY <1>1, <1>9, <1>10, <2>2
    <3>6. Replay' = Replay /\ \A j : Prefix(j)' <=> Prefix(j)
      BY <1>1, ChainSame
    <3> HIDE DEF Replay, w, g
    <3> SUFFICES ASSUME NEW x \in Registers
                 PROVE  /\ reg[x] # Unwritten => reg[x] \in offered'[x]
                        /\ \A h \in offered'[x] : Prefix(x - 1) /\ Succeeds(h, Replay[x - 1])
      BY <1>1, <3>6 DEF OffersFollow, Succeeds
    <3>7. CASE x = w
      BY <1>10, <2>2, <3>4, <3>5, <3>7 DEF OffersFollow
    <3>8. CASE x # w
      BY <1>10, <3>5, <3>8 DEF OffersFollow
    <3> QED
      BY <3>7, <3>8
  <2> QED
    BY <2>1, <2>2
<1>12. last' \in [Nodes -> 0 .. MaxRegisters] /\ last' = last
  BY <1>1, CallFacts
<1> QED
  BY <1>1, <1>5, <1>6, <1>8, <1>10, <1>11, <1>12, CallStep

LEMMA AdvanceKeeps ==
  ASSUME ChainInv, NEW c \in Calls, Advance(c)
  PROVE  ChainInv'
<1> DEFINE more == call[c].mode = "sync" \/ ~Through(c)
           pc == IF ~more THEN "done" ELSE IF call[c].mode = "sync" THEN "probe" ELSE "offer"
           next == IF more THEN call[c].next + 1 ELSE call[c].next
           e == [call[c] EXCEPT !.pc = pc, !.next = next]
<1>1. /\ call[c].pc = "advance" /\ call' = [call EXCEPT ![c] = e]
      /\ more => call[c].next < MaxRegisters
      /\ last' = [last EXCEPT ![NodeOf(c)] = call[c].next]
      /\ UNCHANGED <<reg, offered, store, restarts>>
  BY DEF Advance
<1>2. CallShape(c) /\ CallKnows(c) /\ DOMAIN call = Calls
  BY CallFacts
<1>3. call'[c] = e
  BY <1>1, <1>2
<1>4. /\ DOMAIN e = CallFields /\ e.pc = pc /\ e.next = next
      /\ e.mode = call[c].mode /\ e.res = call[c].res /\ e.config = call[c].config
  BY <1>2 DEF CallShape, CallFields
<1>5. \/ pc = "done" /\ next = call[c].next /\ call[c].mode = "append"
      \/ /\ pc = "probe" /\ call[c].mode = "sync"
         /\ next = call[c].next + 1 /\ call[c].next < MaxRegisters
      \/ /\ pc = "offer" /\ call[c].mode = "append"
         /\ next = call[c].next + 1 /\ call[c].next < MaxRegisters
  BY <1>1, <1>2 DEF CallShape
<1> HIDE DEF e, pc, next, more
<1>6. call[c].next \in Registers /\ MaxRegisters \in Nat /\ NodeOf(c) \in Nodes
      /\ last \in [Nodes -> 0 .. MaxRegisters]
  BY <1>1, <1>2, CallFacts DEF CallKnows, Working
<1>7. CallShape(c)'
  BY <1>2, <1>3, <1>4, <1>5, <1>6 DEF CallShape, Pcs, Working, Registers
<1>8. CallKnows(c)'
  BY <1>1, <1>2, <1>3, <1>4, <1>5, <1>6 DEF CallKnows, Working, Succeeds, Registers
<1>9. /\ last' \in [Nodes -> 0 .. MaxRegisters] /\ last'[NodeOf(c)] = call[c].next
      /\ \A n \in Nodes : n # NodeOf(c) => last'[n] = last[n]
  BY <1>1, <1>6 DEF Registers
<1>10. \A k \in 0 .. MaxRegisters :
         At(NodeOf(c), k) => last'[NodeOf(c)] <= k /\ InReach(c, k)'
  <2> SUFFICES ASSUME NEW k \in 0 .. MaxRegisters, At(NodeOf(c), k)
               PROVE  last'[NodeOf(c)] <= k /\ InReach(c, k)'
    OBVIOUS
  <2>1. call[c].next <= k
    BY <1>1, CallFacts DEF InReach
  <2> QED
    BY <1>3, <1>4, <1>5, <1>6, <1>9, <2>1 DEF InReach, Working, Registers
<1>11. OffersFollow' /\ DOMAIN offered' = Registers
  BY <1>1, CallFacts, ChainSame
<1> QED
  BY <1>1, <1>7, <1>8, <1>9, <1>10, <1>11, CallStep

(* A register that was applied before is refused, the next one is applied as
   the replay of the chain applies it. *)
LEMMA ApplyKeeps ==
  ASSUME ChainInv, NEW c \in Calls, Apply(c)
  PROVE  ChainInv'
<1> DEFINE n == NodeOf(c)
           s == store[n]
           g == call[c].val
           w == call[c].next
           ok == MayAppendRange(s, g)
           t == IF ok THEN AppendRange(s, g) ELSE s
           e == [call[c] EXCEPT !.pc = "advance", !.res = IF ok THEN "ok" ELSE "conflict"]
<1>0. Shape /\ ChainGrows /\ OffersFollow
  BY DEF ChainInv
<1>1. /\ call[c].pc = "apply" /\ call' = [call EXCEPT ![c] = e]
      /\ UNCHANGED <<reg, offered, last, restarts>>
  BY DEF Apply
<1>2. CallShape(c) /\ CallKnows(c) /\ DOMAIN call = Calls /\ n \in Nodes /\ DOMAIN store = Nodes
  BY <1>0, CallFacts DEF Shape
<1>3. DOMAIN store' = Nodes /\ store'[n] = t /\ \A m \in Nodes : m # n => store'[m] = store[m]
  <2>1. CASE ok
    <3>1. store' = [store EXCEPT ![n] = AppendRange(s, g)]
      BY <2>1 DEF Apply
    <3> QED
      BY <1>2, <2>1, <3>1
  <2>2. CASE ~ok
    <3>1. store' = store
      BY <2>2 DEF Apply
    <3> QED
      BY <1>2, <2>2, <3>1
  <2> QED
    BY <2>1, <2>2
<1>4. call'[c] = e /\ DOMAIN call' = Calls /\ \A d \in Calls : d # c => call'[d] = call[d]
  BY <1>1, <1>2
<1>5. /\ DOMAIN e = CallFields /\ e.pc = "advance" /\ e.res = (IF ok THEN "ok" ELSE "conflict")
      /\ e.next = w /\ e.val = g /\ e.mode = call[c].mode /\ e.config = call[c].config
  BY <1>2 DEF CallShape, CallFields
<1> HIDE DEF e
<1>6. PICK k \in 0 .. MaxRegisters : At(n, k)
  BY CallFacts
<1>7. Prefix(k) /\ s = Replay[k] /\ w <= k + 1 /\ GoodStore(s, k) /\ k \in last[n] .. MaxRegisters
  BY <1>1, <1>6, CallFacts DEF At, InReach, Working
<1>8. w \in Registers /\ reg[w] # Unwritten /\ g = reg[w]
  BY <1>1, <1>2 DEF CallKnows, Working
<1>9. Prefix(w - 1) /\ Succeeds(g, Replay[w - 1])
  BY <1>0, <1>8 DEF OffersFollow
<1>10. w \in Nat /\ w >= 1 /\ w <= MaxRegisters /\ MaxRegisters \in Nat /\ k \in Nat
  BY <1>8, MetadataChainConstants DEF Registers
<1>11. Replay' = Replay /\ ChainGrows' /\ OffersFollow' /\ \A j : Prefix(j)' <=> Prefix(j)
  BY <1>0, <1>1, ChainSame
<1> HIDE DEF Replay
<1>12. CurrentVersionId(s) \in Nat /\ DOMAIN s.configs = 1 .. CurrentVersionId(s)
  BY <1>7, GoodStoreFacts
<1>13. t = ReplayStep(s, g)
  BY <1>8 DEF ReplayStep
<1> HIDE DEF t, ok
<1>14. PICK j \in 0 .. MaxRegisters :
         /\ Prefix(j) /\ t = Replay[j] /\ GoodStore(t, j) /\ k <= j /\ w <= j
         /\ Later(t, s) /\ (ok => CurrentVersionId(t) = CurrentVersionId(s) + 1)
  <2>1. CASE w <= k
    <3>1. w \in 1 .. k /\ w \in 0 .. k
      BY <1>10, <2>1
    <3>2. g.prev < CurrentVersionId(Replay[w]) /\ Later(s, Replay[w]) /\ Prefix(w)
      BY <1>0, <1>7, <1>8, <3>1, PrefixReplay
    <3>3. CurrentVersionId(Replay[w]) \in Nat
      <4>1. GoodStore(Replay[w], w)
        BY <1>0, <3>2, PrefixReplay
      <4> QED
        BY <4>1, GoodStoreFacts
    <3>4. g.prev \in Int /\ g.ver = g.prev + 1
      <4>1. GoodStore(Replay[w - 1], w - 1)
        BY <1>0, <1>9, PrefixReplay
      <4>2. CurrentVersionId(Replay[w - 1]) \in Nat
        BY <4>1, GoodStoreFacts
      <4> QED
        BY <1>9, <4>2 DEF Succeeds
    <3>5. g.prev # CurrentVersionId(s)
      BY <1>12, <3>2, <3>3, <3>4 DEF Later
    <3>6. ~ok
      BY <1>12, <3>4, <3>5, MayAppendIs DEF ok
    <3>7. t = s
      BY <3>6 DEF t
    <3>8. Later(s, s)
      BY <1>12, LaterSelf
    <3> QED
      BY <1>7, <1>10, <2>1, <3>6, <3>7, <3>8
  <2>2. CASE w = k + 1
    <3>1. w - 1 = k /\ k + 1 \in 0 .. MaxRegisters
      BY <1>10, <2>2
    <3>2. Succeeds(g, s)
      BY <1>7, <1>9, <3>1
    <3>3. /\ GoodStore(t, k + 1) /\ Later(t, s)
          /\ MayAppendRange(s, g) => CurrentVersionId(t) = CurrentVersionId(s) + 1
      BY <1>7, <1>8, <1>10, <1>13, <3>2, GoodStep
    <3>4. Prefix(k + 1)
      <4>1. \A x \in 1 .. (k + 1) : x \in 1 .. k \/ x = k + 1
        BY <1>10
      <4> QED
        BY <1>7, <1>8, <2>2, <3>1, <4>1 DEF Prefix
    <3>5. Replay[w] = ReplayStep(Replay[w - 1], reg[w])
      BY <1>8, ReplayIs DEF IsReplay
    <3>6. t = Replay[k + 1]
      BY <1>7, <1>8, <1>13, <2>2, <3>1, <3>5
    <3>7. k <= k + 1 /\ w <= k + 1
      BY <1>10, <2>2
    <3> QED
      BY <3>1, <3>3, <3>4, <3>6, <3>7 DEF ok
  <2> QED
    BY <1>7, <1>10, <2>1, <2>2
<1>15. CurrentVersionId(t) \in Nat /\ CurrentVersionId(s) <= CurrentVersionId(t)
  BY <1>14, GoodStoreFacts DEF Later
<1>16. ASSUME NEW d \in Calls, d # c
       PROVE  CallShape(d)' /\ CallKnows(d)'
  <2>1. CallShape(d) /\ CallKnows(d) /\ call'[d] = call[d] /\ NodeOf(d) \in Nodes
    BY <1>4, <1>16, CallFacts
  <2>2. CallShape(d)'
    BY <2>1 DEF CallShape
  <2>3. CASE NodeOf(d) # n
    <3>1. store'[NodeOf(d)] = store[NodeOf(d)]
      BY <1>3, <2>1, <2>3
    <3>2. CallKnows(d)'
      BY <1>1, <2>1, <3>1 DEF CallKnows, Succeeds
    <3> QED
      BY <2>2, <3>2
  <2>4. CASE NodeOf(d) = n
    <3>1. store[NodeOf(d)] = s /\ store'[NodeOf(d)] = t
      BY <1>3, <2>4
    <3>2. Succeeds(call[d].config, s) => Succeeds(call[d].config, t)
      BY <1>12, <1>14, <1>15, SucceedsLater
    <3>3. \A v : v \in 0 .. CurrentVersionId(s) => v \in 0 .. CurrentVersionId(t)
      BY <1>12, <1>15
    <3>4. \A v : v \in 1 .. CurrentVersionId(s) => v \in 1 .. CurrentVersionId(t)
      BY <1>12, <1>15
    <3>5. \A v : v \in 0 .. CurrentVersionId(s) /\ v # 0 => t.configs[v].start = s.configs[v].start
      BY <1>12, <1>14 DEF Later
    <3> DEFINE v == call[d].config.ver
    <3>6. /\ call[d].pc \in Working \union {"advance"} => call[d].next \in Registers
          /\ call[d].pc \in {"apply", "advance"}
               => reg[call[d].next] # Unwritten /\ call[d].val = reg[call[d].next]
          /\ call[d].pc = "choose" =>
               /\ v \in 0 .. CurrentVersionId(s) /\ call[d].config.start \in 0 .. MaxLogId
               /\ call[d].config.start = IF v = 0 THEN 0 ELSE s.configs[v].start
          /\ call[d].pc \in {"idle", "probe"} => call[d].mode = "sync"
          /\ call[d].pc \in {"choose", "offer", "written", "read", "done"}
               => call[d].mode = "append"
          /\ call[d].pc \in Working \union {"advance"} /\ call[d].mode = "append"
               => Succeeds(call[d].config, s)
          /\ (/\ call[d].pc = "advance" \/ (call[d].pc = "done" /\ restarts = 0)
              /\ call[d].mode = "append" /\ call[d].res = "ok")
               => v \in 1 .. CurrentVersionId(s)
      BY <2>1, <3>1 DEF CallKnows
    <3>7. /\ call[d].pc = "choose" =>
               /\ v \in 0 .. CurrentVersionId(t)
               /\ call[d].config.start = IF v = 0 THEN 0 ELSE t.configs[v].start
          /\ call[d].pc \in Working \union {"advance"} /\ call[d].mode = "append"
               => Succeeds(call[d].config, t)
          /\ (/\ call[d].pc = "advance" \/ (call[d].pc = "done" /\ restarts = 0)
              /\ call[d].mode = "append" /\ call[d].res = "ok")
               => v \in 1 .. CurrentVersionId(t)
      BY <3>2, <3>3, <3>4, <3>5, <3>6
    <3>8. CallKnows(d)'
      BY <1>1, <2>1, <3>1, <3>6, <3>7 DEF CallKnows
    <3> QED
      BY <2>2, <3>8
  <2> QED
    BY <2>3, <2>4
<1>17. CallShape(c)'
  BY <1>2, <1>4, <1>5 DEF CallShape, Pcs
<1>18. CallKnows(c)'
  <2>1. call[c].mode = "append" => Succeeds(call[c].config, t)
    <3>1. call[c].mode = "append" => Succeeds(call[c].config, s)
      BY <1>1, <1>2 DEF CallKnows, Working
    <3> QED
      BY <1>12, <1>14, <1>15, <3>1, SucceedsLater
  <2>2. call[c].mode = "append" /\ ok => call[c].config.ver \in 1 .. CurrentVersionId(t)
    <3>1. call[c].mode = "append" => Succeeds(call[c].config, s)
      BY <1>1, <1>2 DEF CallKnows, Working
    <3> QED
      BY <1>12, <1>14, <3>1 DEF Succeeds
  <2> QED
    BY <1>1, <1>3, <1>4, <1>5, <1>8, <2>1, <2>2 DEF CallKnows, Working
<1>19. Shape'
  BY <1>0, <1>1, <1>3, <1>4, <1>16, <1>17 DEF Shape
<1>20. \A m \in Nodes : \E i \in 0 .. MaxRegisters : At(m, i)'
  <2> TAKE m \in Nodes
  <2>1. CASE m = n
    <3>1. \A d \in Calls : NodeOf(d) = n => InReach(d, j)'
      <4> SUFFICES ASSUME NEW d \in Calls, NodeOf(d) = n PROVE InReach(d, j)'
        OBVIOUS
      <4>1. CASE d = c
        BY <1>4, <1>5, <1>14, <4>1 DEF InReach, Working
      <4>2. CASE d # c
        <5>1. InReach(d, k) /\ call'[d] = call[d] /\ call[d].next \in Int
          BY <1>4, <1>6, <1>10, <4>2, CallFacts DEF At, CallShape
        <5> QED
          BY <1>10, <1>14, <5>1 DEF InReach
      <4> QED
        BY <4>1, <4>2
    <3>2. j \in last[n] .. MaxRegisters
      BY <1>0, <1>2, <1>7, <1>10, <1>14 DEF Shape
    <3>3. At(n, j)'
      BY <1>1, <1>3, <1>11, <1>14, <3>1, <3>2 DEF At
    <3> QED
      BY <2>1, <3>3
  <2>2. CASE m # n
    <3>1. PICK i \in 0 .. MaxRegisters : At(m, i)
      BY DEF ChainInv
    <3>2. \A d \in Calls : NodeOf(d) = m => InReach(d, i)'
      <4> SUFFICES ASSUME NEW d \in Calls, NodeOf(d) = m PROVE InReach(d, i)'
        OBVIOUS
      <4>1. d # c /\ InReach(d, i)
        BY <2>2, <3>1 DEF At
      <4> QED
        BY <1>4, <4>1 DEF InReach
    <3>3. At(m, i)'
      BY <1>1, <1>3, <1>11, <2>2, <3>1, <3>2 DEF At
    <3> QED
      BY <3>3
  <2> QED
    BY <2>1, <2>2
<1>21. \A d \in Calls : CallKnows(d)'
  BY <1>16, <1>18
<1> QED
  BY <1>11, <1>19, <1>20, <1>21 DEF ChainInv

(* A restarted node has replayed no register, and its calls are over. *)
LEMMA RestartKeeps ==
  ASSUME ChainInv, NEW n \in Nodes, Restart(n)
  PROVE  ChainInv'
<1>0. Shape /\ ChainGrows /\ OffersFollow /\ MaxRegisters \in Nat
  BY MetadataChainConstants DEF ChainInv
<1>1. /\ restarts' = restarts + 1 /\ restarts < MaxRestarts /\ UNCHANGED <<reg, offered>>
      /\ store' = [store EXCEPT ![n] = EmptyStore] /\ last' = [last EXCEPT ![n] = 0]
      /\ DOMAIN call' = Calls
      /\ \A c \in Calls : call'[c] = IF NodeOf(c) = n /\ call[c].pc \notin {"idle", "done"}
                                       THEN [NewCall EXCEPT !.pc = "failed"] ELSE call[c]
  BY DEF Restart
<1>2. /\ DOMAIN store' = Nodes /\ store'[n] = EmptyStore
      /\ \A m \in Nodes : m # n => store'[m] = store[m]
      /\ last' \in [Nodes -> 0 .. MaxRegisters] /\ last'[n] = 0
      /\ \A m \in Nodes : m # n => last'[m] = last[m]
  BY <1>0, <1>1 DEF Shape
<1>3. restarts' \in 0 .. MaxRestarts /\ restarts' # 0
  BY <1>0, <1>1, MetadataChainConstants DEF Shape
<1>4. Replay' = Replay /\ ChainGrows' /\ OffersFollow' /\ \A j : Prefix(j)' <=> Prefix(j)
  BY <1>0, <1>1, ChainSame
<1> HIDE DEF Replay
<1>5. ASSUME NEW c \in Calls
      PROVE  \/ call'[c] = call[c] /\ (NodeOf(c) = n => call[c].pc \in {"idle", "done"})
             \/ /\ NodeOf(c) = n /\ DOMAIN call'[c] = CallFields /\ call'[c].pc = "failed"
                /\ call'[c].mode = "sync" /\ call'[c].res = "none" /\ call'[c].next = 0
                /\ call'[c].config.ver = 0
  <2>1. CASE NodeOf(c) = n /\ call[c].pc \notin {"idle", "done"}
    <3>1. call'[c] = [NewCall EXCEPT !.pc = "failed"]
      BY <1>1, <2>1
    <3> QED
      BY <2>1, <3>1 DEF NewCall, NoConfig, CallFields
  <2>2. CASE ~(NodeOf(c) = n /\ call[c].pc \notin {"idle", "done"})
    BY <1>1, <2>2
  <2> QED
    BY <2>1, <2>2
<1>6. ASSUME NEW c \in Calls
      PROVE  CallShape(c)' /\ CallKnows(c)' /\ \A k \in Int : InReach(c, k) => InReach(c, k)'
  <2>1. CallShape(c) /\ CallKnows(c) /\ NodeOf(c) \in Nodes
    BY CallFacts
  <2>2. CASE call'[c] = call[c] /\ (NodeOf(c) = n => call[c].pc \in {"idle", "done"})
    <3>1. CallShape(c)'
      BY <2>1, <2>2 DEF CallShape
    <3>2. CallKnows(c)'
      <4>1. CASE NodeOf(c) = n
        BY <1>3, <2>1, <2>2, <4>1 DEF CallKnows, Working
      <4>2. CASE NodeOf(c) # n
        BY <1>1, <1>2, <1>3, <2>1, <2>2, <4>2 DEF CallKnows, Succeeds
      <4> QED
        BY <4>1, <4>2
    <3> QED
      BY <2>2, <3>1, <3>2 DEF InReach
  <2>3. CASE /\ NodeOf(c) = n /\ DOMAIN call'[c] = CallFields /\ call'[c].pc = "failed"
             /\ call'[c].mode = "sync" /\ call'[c].res = "none" /\ call'[c].next = 0
             /\ call'[c].config.ver = 0
    <3>1. CallShape(c)'
      BY <1>0, <2>3 DEF CallShape, Pcs
    <3>2. CallKnows(c)'
      BY <2>3 DEF CallKnows, Working
    <3>3. \A k : InReach(c, k)'
      BY <2>3 DEF InReach, Working
    <3> QED
      BY <3>1, <3>2, <3>3
  <2> QED
    BY <1>5, <2>2, <2>3
<1>7. Shape'
  BY <1>0, <1>1, <1>2, <1>3, <1>6 DEF Shape
<1>8. \A m \in Nodes : \E k \in 0 .. MaxRegisters : At(m, k)'
  <2> TAKE m \in Nodes
  <2>1. CASE m = n
    <3>1. Replay[0] = EmptyStore
      BY ReplayIs DEF IsReplay
    <3>2. Prefix(0) /\ 0 \in 0 .. MaxRegisters
      BY <1>0 DEF Prefix
    <3>3. \A c \in Calls : NodeOf(c) = n => InReach(c, 0)'
      <4> SUFFICES ASSUME NEW c \in Calls, NodeOf(c) = n PROVE InReach(c, 0)'
        OBVIOUS
      <4>1. call'[c].pc \in {"idle", "done", "failed"}
        BY <1>5
      <4> QED
        BY <4>1 DEF InReach, Working
    <3>4. At(n, 0)'
      BY <1>2, <1>4, <3>1, <3>2, <3>3 DEF At
    <3> QED
      BY <2>1, <3>2, <3>4
  <2>2. CASE m # n
    <3>1. PICK k \in 0 .. MaxRegisters : At(m, k)
      BY DEF ChainInv
    <3>2. At(m, k)'
      BY <1>2, <1>4, <1>6, <2>2, <3>1 DEF At
    <3> QED
      BY <3>2
  <2> QED
    BY <2>1, <2>2
<1> QED
  BY <1>4, <1>6, <1>7, <1>8 DEF ChainInv

-----------------------------------------------------------------------------
(* The invariant and the theorems *)

LEMMA ChainInit == Init => ChainInv
<1> SUFFICES ASSUME Init PROVE ChainInv
  OBVIOUS
<1>0. /\ reg = [w \in Registers |-> Unwritten] /\ offered = [w \in Registers |-> {}]
      /\ store = [n \in Nodes |-> EmptyStore] /\ last = [n \in Nodes |-> 0]
      /\ call = [c \in Calls |-> NewCall] /\ restarts = 0
      /\ MaxRegisters \in Nat /\ MaxRestarts \in Nat
  BY MetadataChainConstants DEF Init
<1>1. \A k : Prefix(k) <=> k = 0
  <2>1. Prefix(0)
    BY <1>0 DEF Prefix
  <2>2. ASSUME NEW k, Prefix(k), k # 0 PROVE FALSE
    <3>1. k \in 1 .. MaxRegisters /\ 1 \in 1 .. k /\ 1 \in Registers
      BY <1>0, <2>2 DEF Prefix, Registers
    <3> QED
      BY <1>0, <2>2, <3>1 DEF Prefix
  <2> QED
    BY <2>1, <2>2
<1>2. Replay[0] = EmptyStore
  BY ReplayIs DEF IsReplay
<1> HIDE DEF Replay
<1>3. ChainGrows
  <2>1. GoodStore(Replay[0], 0) /\ Later(Replay[0], Replay[0])
    BY <1>2, EmptyIsGood, LaterSelf
  <2>2. \A j \in 0 .. 0 : j = 0
    OBVIOUS
  <2>3. \A w \in 1 .. 0 : FALSE
    OBVIOUS
  <2> QED
    BY <1>1, <2>1, <2>2, <2>3 DEF ChainGrows
<1>4. OffersFollow
  BY <1>0 DEF OffersFollow
<1>5. ASSUME NEW c \in Calls
      PROVE  /\ DOMAIN call[c] = CallFields /\ call[c].pc = "idle" /\ call[c].mode = "sync"
             /\ call[c].res = "none" /\ call[c].next = 0 /\ call[c].config.ver = 0
  <2>1. call[c] = NewCall
    BY <1>0
  <2> QED
    BY <2>1 DEF NewCall, NoConfig, CallFields
<1>6. \A c \in Calls : CallShape(c) /\ CallKnows(c) /\ InReach(c, 0)
  <2> TAKE c \in Calls
  <2>1. CallShape(c)
    BY <1>0, <1>5 DEF CallShape, Pcs
  <2>2. CallKnows(c) /\ InReach(c, 0)
    BY <1>5 DEF CallKnows, InReach, Working
  <2> QED
    BY <2>1, <2>2
<1>7. Shape
  BY <1>0, <1>6 DEF Shape
<1>8. \A n \in Nodes : At(n, 0)
  BY <1>0, <1>1, <1>2, <1>6 DEF At
<1>9. 0 \in 0 .. MaxRegisters
  BY <1>0
<1> QED
  BY <1>3, <1>4, <1>6, <1>7, <1>8, <1>9 DEF ChainInv

LEMMA ChainStep == ChainInv /\ [Next]_vars => ChainInv'
<1> SUFFICES ASSUME ChainInv, [Next]_vars PROVE ChainInv'
  OBVIOUS
<1>1. CASE UNCHANGED vars
  <2>1. UNCHANGED <<reg, offered, store, last, call, restarts>>
    BY <1>1 DEF vars
  <2>2. Replay' = Replay /\ ChainGrows' /\ OffersFollow' /\ \A k : Prefix(k)' <=> Prefix(k)
    BY <2>1, ChainSame DEF ChainInv
  <2> HIDE DEF Replay
  <2>3. Shape' /\ \A c \in Calls : CallKnows(c)' /\ \A k : InReach(c, k)' <=> InReach(c, k)
    BY <2>1 DEF ChainInv, Shape, CallShape, CallKnows, InReach, Succeeds
  <2>4. \A n \in Nodes, k \in 0 .. MaxRegisters : At(n, k) => At(n, k)'
    BY <2>1, <2>2, <2>3 DEF At
  <2> QED
    BY <2>2, <2>3, <2>4 DEF ChainInv
<1>2. CASE Next
  <2>1. ASSUME NEW w \in Registers, Decide(w) PROVE ChainInv'
    BY <2>1, DecideKeeps
  <2>2. ASSUME NEW c \in Calls, BeginSync(c) PROVE ChainInv'
    BY <2>2, BeginSyncKeeps
  <2>3. ASSUME NEW c \in Calls, ProbeWritten(c) \/ ReadValue(c) PROVE ChainInv'
    BY <2>3, ProbeWrittenKeeps
  <2>4. ASSUME NEW c \in Calls, ProbeUnwritten(c) PROVE ChainInv'
    BY <2>4, ProbeUnwrittenKeeps
  <2>5. ASSUME NEW c \in Calls, NEW start \in 0 .. MaxLogId, BeginAppend(c, start) PROVE ChainInv'
    BY <2>5, BeginAppendKeeps
  <2>6. ASSUME NEW c \in Calls, Offer(c) PROVE ChainInv'
    BY <2>6, OfferKeeps
  <2>7. ASSUME NEW c \in Calls, ReadError(c) \/ \E ok \in BOOLEAN : WriteResult(c, ok)
        PROVE  ChainInv'
    BY <2>7, WriteResultKeeps
  <2>8. ASSUME NEW c \in Calls, Apply(c) PROVE ChainInv'
    BY <2>8, ApplyKeeps
  <2>9. ASSUME NEW c \in Calls, Advance(c) PROVE ChainInv'
    BY <2>9, AdvanceKeeps
  <2>10. ASSUME NEW n \in Nodes, Restart(n) PROVE ChainInv'
    BY <2>10, RestartKeeps
  <2> QED
    BY <1>2, <2>1, <2>2, <2>3, <2>4, <2>5, <2>6, <2>7, <2>8, <2>9, <2>10 DEF Next
<1> QED
  BY <1>1, <1>2

LEMMA ChainInvHolds == Spec => []ChainInv
<1> QED
  BY ChainInit, ChainStep, PTL DEF Spec

(* State machine replication: however the calls of a node interleave, fail
   and restart, and although they apply registers twice and move
   lastAppliedWorId_ backwards, the store of a node is the replay of a prefix
   of the register chain, never behind its counter, and the acceptors of the
   next register are taken from a version that exists. *)
THEOREM StoresAreReplays == Spec => []ChainConsistent
<1>1. ChainInv => ChainConsistent
  <2> SUFFICES ASSUME ChainInv PROVE ChainConsistent
    OBVIOUS
  <2>0. Shape /\ ChainGrows /\ OffersFollow /\ MaxRegisters \in Nat
    BY MetadataChainConstants DEF ChainInv
  <2>1. ASSUME NEW n \in Nodes
        PROVE  \E k \in last[n] .. MaxRegisters :
                 /\ At(n, k) /\ store[n] = Replay[k] /\ (\A w \in 1 .. k : reg[w] # Unwritten)
                 /\ GoodStore(store[n], k) /\ k \in 0 .. MaxRegisters
    <3>1. PICK k \in 0 .. MaxRegisters : At(n, k)
      BY DEF ChainInv
    <3>2. k \in last[n] .. MaxRegisters /\ Prefix(k) /\ store[n] = Replay[k]
      BY <3>1 DEF At
    <3>3. GoodStore(Replay[k], k)
      BY <2>0, <3>2, PrefixReplay
    <3> QED
      BY <3>1, <3>2, <3>3 DEF Prefix
  <2>2. StoreIsReplay
    BY <2>1 DEF StoreIsReplay
  <2> HIDE DEF Replay
  <2>3. ASSUME NEW n \in Nodes
        PROVE  DOMAIN store[n].configs \subseteq Registers /\ DOMAIN store[n].byLogId \subseteq 0 .. MaxLogId
    <3>1. PICK k \in 0 .. MaxRegisters : GoodStore(store[n], k)
      BY <2>1
    <3>2. /\ CurrentVersionId(store[n]) \in Nat /\ CurrentVersionId(store[n]) <= k
          /\ DOMAIN store[n].configs = 1 .. CurrentVersionId(store[n])
      BY <3>1, GoodStoreFacts DEF GoodStore
    <3> QED
      BY <2>0, <3>1, <3>2 DEF GoodStore, Registers
  <2>4. TypeOK
    BY <2>0, <2>3 DEF TypeOK, Shape, CallShape, OffersFollow
  <2>5. ASSUME NEW c \in Calls, call[c].pc = "advance"
        PROVE  CurrentVersionId(store[NodeOf(c)]) # 0
    <3>1. NodeOf(c) \in Nodes /\ call[c].next \in Registers
      BY <2>5, CallFacts DEF CallKnows
    <3>2. PICK k \in 0 .. MaxRegisters : At(NodeOf(c), k) /\ GoodStore(store[NodeOf(c)], k)
      BY <2>1, <3>1
    <3>3. call[c].next <= k
      BY <2>5, <3>2 DEF At, InReach
    <3>4. k >= 1
      BY <2>0, <3>1, <3>3 DEF Registers
    <3>5. CurrentVersionId(store[NodeOf(c)]) \in Nat
      BY <3>2, GoodStoreFacts
    <3> QED
      BY <3>2, <3>4, <3>5 DEF GoodStore
  <2>6. AcceptorsKnown
    BY <2>5 DEF AcceptorsKnown
  <2> QED
    BY <2>2, <2>4, <2>6 DEF ChainConsistent
<1> QED
  BY <1>1, ChainInvHolds, PTL

(* getConfigUsingLogId: the versions a node knows are gapless and adjoining,
   and the walk over the stale copies finds the newest version that starts at
   or below the log id. *)
THEOREM LookupIsRight == Spec => []LookupFindsOwner
<1>1. ChainInv => LookupFindsOwner
  <2> SUFFICES ASSUME ChainInv, NEW n \in Nodes
               PROVE  LET C == store[n].configs
                      IN  /\ DOMAIN C = 1 .. CurrentVersionId(store[n])
                          /\ \A v \in DOMAIN C \ {1} : C[v - 1].end = C[v].start
                          /\ \A i \in 0 .. MaxLogId : C # << >> =>
                               {cfg.ver : cfg \in ConfigsUsingLogId(store[n], i)} =
                                 {Largest({v \in DOMAIN C : C[v].start <= i})}
    BY DEF LookupFindsOwner
  <2> DEFINE s == store[n]
             v0 == CurrentVersionId(s)
  <2>1. PICK k \in 0 .. MaxRegisters : At(n, k)
    BY DEF ChainInv
  <2>2. GoodStore(s, k)
    BY <2>1, PrefixReplay DEF At, ChainInv
  <2>3. StoreOf(s, v0, 0, MaxLogId)
    BY <2>2 DEF GoodStore
  <2> HIDE DEF s, v0
  <2>4. /\ v0 \in Nat /\ DOMAIN s.configs = 1 .. v0
        /\ \A v \in 1 .. v0 : v # 1 => s.configs[v - 1].end = s.configs[v].start
    BY <2>3 DEF StoreOf
  <2>5. ASSUME NEW i \in 0 .. MaxLogId, s.configs # << >>
        PROVE  {cfg.ver : cfg \in ConfigsUsingLogId(s, i)}
                 = {Largest({v \in DOMAIN s.configs : s.configs[v].start <= i})}
    <3>1. v0 >= 1
      <4>1. ASSUME v0 = 0 PROVE FALSE
        <5>1. s = EmptyStore
          BY <2>2, <4>1 DEF GoodStore, v0
        <5>2. EmptyStore.configs = << >>
          BY DEF EmptyStore
        <5> QED
          BY <2>5, <5>1, <5>2
      <4> QED
        BY <2>4, <4>1
    <3>2. MaxLogId \in Int
      BY MetadataChainConstants
    <3> QED
      BY <2>3, <3>1, <3>2, LookupIs
  <2> QED
    BY <2>4, <2>5 DEF s, v0
<1> QED
  BY <1>1, ChainInvHolds, PTL

(* compareAndAppendRange that returns without an exception means that the
   version is installed on the node of the call. *)
THEOREM SuccessIsInstalled == Spec => []SuccessMeansVersion
<1>1. ChainInv => SuccessMeansVersion
  <2> SUFFICES ASSUME ChainInv, NEW c \in Calls, call[c].pc = "done", call[c].res = "ok",
                      restarts = 0
               PROVE  call[c].config.ver \in DOMAIN store[NodeOf(c)].configs
    BY DEF SuccessMeansVersion
  <2>1. call[c].config.ver \in 1 .. CurrentVersionId(store[NodeOf(c)])
    BY CallFacts DEF CallKnows
  <2>2. PICK k \in 0 .. MaxRegisters : At(NodeOf(c), k)
    BY CallFacts
  <2>3. GoodStore(store[NodeOf(c)], k)
    BY <2>2, CallFacts
  <2> QED
    BY <2>1, <2>3, GoodStoreFacts
<1> QED
  BY <1>1, ChainInvHolds, PTL
=============================================================================
