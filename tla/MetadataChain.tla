--------------------------- MODULE MetadataChain ---------------------------
(***************************************************************************)
(* The replicated metadata store: every node keeps an InMemoryMetadataStore*)
(* and feeds it from a chain of write once registers                       *)
(* (log/impl/PersistentMetadataStore.h, statemachine/                      *)
(* MetadataStoreStateMachine.h).  A caller, reached through MetadataServer *)
(* or directly, first synchronises and reads the version, then offers a    *)
(* successor.  Calls on one node run on different threads and share        *)
(* lastAppliedWorId_ and the store without a lock (mtx_ is never taken).   *)
(*                                                                         *)
(* A register is abstract, as PaxosRegister implements it: a value that    *)
(* was offered may be decided at any later time, by any caller, also when  *)
(* the caller that offered it has failed.  The caller of a remote store    *)
(* leaves after 250 ms (MetadataStoreClient.cc); its call goes on here.    *)
(***************************************************************************)
EXTENDS MetadataConfigs

CONSTANTS Nodes,        \* nodes with a PersistentMetadataStore
          Calls,        \* calls of a behaviour
          NodeOf(_),    \* the node that handles a call
          Unwritten,    \* ReadError::NOT_WRITTEN
          EndOfLog,     \* std::numeric_limits<std::int64_t>::max()
          MaxLogId,     \* bound: largest start index offered
          MaxRegisters, \* bound: registers in use
          MaxRestarts   \* bound: restarts of nodes

ASSUME MetadataChainConstants ==
  /\ \A c \in Calls : NodeOf(c) \in Nodes
  /\ MaxLogId \in Nat /\ EndOfLog \in Nat /\ MaxLogId < EndOfLog
  /\ MaxRegisters \in Nat /\ MaxRestarts \in Nat

VARIABLES
  reg,      \* per register: the decided configuration, or Unwritten
  offered,  \* per register: configurations proposed on it
  store,    \* per node: the in-memory store [configs, byLogId]
  last,     \* per node: lastAppliedWorId_
  call,     \* per call [pc, mode, next, val, config, written, res]
  restarts  \* number of restarts

vars == <<reg, offered, store, last, call, restarts>>

Registers == 1 .. MaxRegisters

(* The configuration of version 0, which getConfig invents. *)
NoConfig == [prev |-> 0, ver |-> 0, start |-> 0, end |-> 0, seqr |-> Unwritten]

NewCall == [pc |-> "idle", mode |-> "sync", next |-> 0, val |-> NoConfig,
            config |-> NoConfig, written |-> FALSE, res |-> "none"]

(* bootstrapConfig.start_index is 0: the chain is read from register 1 on. *)
Init ==
  /\ reg = [w \in Registers |-> Unwritten]
  /\ offered = [w \in Registers |-> {}]
  /\ store = [n \in Nodes |-> EmptyStore]
  /\ last = [n \in Nodes |-> 0]
  /\ call = [c \in Calls |-> NewCall]
  /\ restarts = 0

Config(n, v) == IF v = 0 THEN NoConfig ELSE store[n].configs[v]

-----------------------------------------------------------------------------
(* Registers *)

(* Some caller's propose commits an offered value. *)
Decide(w) ==
  /\ reg[w] = Unwritten
  /\ \E v \in offered[w] : reg' = [reg EXCEPT ![w] = v]
  /\ UNCHANGED <<offered, store, last, call, restarts>>

-----------------------------------------------------------------------------
(* sync and reads *)

(* A call arrives: getCurrentVersionId begins with sync. *)
BeginSync(c) ==
  /\ call[c].pc = "idle"
  /\ last[NodeOf(c)] < MaxRegisters
  /\ call' = [call EXCEPT ![c].pc = "probe", ![c].next = last[NodeOf(c)] + 1]
  /\ UNCHANGED <<reg, offered, store, last, restarts>>

(* sync found a value in the next register. *)
ProbeWritten(c) ==
  /\ call[c].pc = "probe"
  /\ reg[call[c].next] # Unwritten
  /\ call' = [call EXCEPT ![c].pc = "apply", ![c].val = reg[call[c].next]]
  /\ UNCHANGED <<reg, offered, store, last, restarts>>

(* NOT_WRITTEN, which is also the answer when the acceptors that know the
   value do not answer: sync returns and the version is read. *)
ProbeUnwritten(c) ==
  LET v == CurrentVersionId(store[NodeOf(c)])
  IN  /\ call[c].pc = "probe"
      /\ call' = [call EXCEPT ![c].pc = "choose", ![c].mode = "append",
                              ![c].config = Config(NodeOf(c), v)]
      /\ UNCHANGED <<reg, offered, store, last, restarts>>

-----------------------------------------------------------------------------
(* compareAndAppendRange *)

(* The caller sealed the version it read and offers the successor; after a
   timeout it may come back with the same configuration. *)
BeginAppend(c, start) ==
  LET old == call[c].config
  IN  /\ call[c].pc = "choose"
      /\ last[NodeOf(c)] < MaxRegisters
      /\ start >= old.start
      /\ old.ver = 0 => start = old.start
      /\ call' = [call EXCEPT ![c].pc = "offer",
                    ![c].next = last[NodeOf(c)] + 1, ![c].written = FALSE,
                    ![c].config = [prev |-> old.ver, ver |-> old.ver + 1,
                                   start |-> start, end |-> EndOfLog,
                                   seqr |-> NodeOf(c)]]
      /\ UNCHANGED <<reg, offered, store, last, restarts>>

(* lock is granted and write proposes the payload, or the value an acceptor
   reported, which is one already offered.  It returns true when a value,
   this one or another, was committed. *)
Offer(c) ==
  LET w == call[c].next
  IN  /\ call[c].pc = "offer"
      /\ offered' = IF reg[w] = Unwritten
                      THEN [offered EXCEPT ![w] = @ \union {call[c].config}]
                      ELSE offered
      /\ call' = [call EXCEPT ![c].pc = "written"]
      /\ UNCHANGED <<reg, store, last, restarts>>

WriteResult(c, ok) ==
  /\ call[c].pc = "written"
  /\ ok => reg[call[c].next] # Unwritten
  /\ call' = [call EXCEPT ![c].pc = "read", ![c].written = @ \/ ok]
  /\ UNCHANGED <<reg, offered, store, last, restarts>>

ReadValue(c) ==
  /\ call[c].pc = "read"
  /\ reg[call[c].next] # Unwritten
  /\ call' = [call EXCEPT ![c].pc = "apply", ![c].val = reg[call[c].next]]
  /\ UNCHANGED <<reg, offered, store, last, restarts>>

(* "We either encounter an error or it is not written": lock again. *)
ReadError(c) ==
  /\ call[c].pc = "read"
  /\ call' = [call EXCEPT ![c].pc = "offer"]
  /\ UNCHANGED <<reg, offered, store, last, restarts>>

(* Faulty variant: the exception of the store is swallowed. *)
ApplyIgnoringConflict(c) ==
  LET n == NodeOf(c)
  IN  /\ call[c].pc = "apply"
      /\ store' = IF MayAppendRange(store[n], call[c].val)
                    THEN [store EXCEPT ![n] = AppendRange(@, call[c].val)] ELSE store
      /\ call' = [call EXCEPT ![c].pc = "advance", ![c].res = "ok"]
      /\ UNCHANGED <<reg, offered, last, restarts>>

(* MetadataStoreApplicator::apply on the node's store. *)
Apply(c) ==
  LET n  == NodeOf(c)
      ok == MayAppendRange(store[n], call[c].val)
  IN  /\ call[c].pc = "apply"
      /\ store' = IF ok THEN [store EXCEPT ![n] = AppendRange(@, call[c].val)] ELSE store
      /\ call' = [call EXCEPT ![c].pc = "advance",
                              ![c].res = IF ok THEN "ok" ELSE "conflict"]
      /\ UNCHANGED <<reg, offered, last, restarts>>

(* Is append through?  A true answer of write ends it even if the register
   holds the value of another caller. *)
Through(c) == call[c].written \/ call[c].val = call[c].config

(* Faulty variant: the counter is advanced past the register. *)
AdvanceTooFar(c) ==
  LET n == NodeOf(c)
  IN  /\ call[c].pc = "advance"
      /\ last' = [last EXCEPT ![n] = call[c].next + 1]
      /\ call[c].next + 1 < MaxRegisters
      /\ call' = [call EXCEPT ![c].pc = IF call[c].mode = "sync" THEN "probe" ELSE "done",
                              ![c].next = @ + 2]
      /\ UNCHANGED <<reg, offered, store, restarts>>

(* currentConfig_ and lastAppliedWorId_ are set; the call goes on with the
   next register or returns the result of its last apply. *)
Advance(c) ==
  LET n    == NodeOf(c)
      more == call[c].mode = "sync" \/ ~Through(c)
  IN  /\ call[c].pc = "advance"
      /\ more => call[c].next < MaxRegisters
      /\ last' = [last EXCEPT ![n] = call[c].next]
      /\ call' = [call EXCEPT ![c].pc = IF ~more THEN "done"
                                        ELSE IF call[c].mode = "sync" THEN "probe"
                                        ELSE "offer",
                              ![c].next = IF more THEN @ + 1 ELSE @]
      /\ UNCHANGED <<reg, offered, store, restarts>>

(* A node restarts: the store in memory is gone and the chain is read again;
   its calls fail. *)
Restart(n) ==
  /\ restarts < MaxRestarts
  /\ restarts' = restarts + 1
  /\ store' = [store EXCEPT ![n] = EmptyStore]
  /\ last' = [last EXCEPT ![n] = 0]
  /\ call' = [c \in Calls |-> IF NodeOf(c) = n /\ call[c].pc \notin {"idle", "done"}
                                THEN [NewCall EXCEPT !.pc = "failed"] ELSE call[c]]
  /\ UNCHANGED <<reg, offered>>

Next ==
  \/ \E w \in Registers : Decide(w)
  \/ \E c \in Calls : BeginSync(c)
  \/ \E c \in Calls : ProbeWritten(c)
  \/ \E c \in Calls : ProbeUnwritten(c)
  \/ \E c \in Calls, start \in 0 .. MaxLogId : BeginAppend(c, start)
  \/ \E c \in Calls : Offer(c)
  \/ \E c \in Calls, ok \in BOOLEAN : WriteResult(c, ok)
  \/ \E c \in Calls : ReadValue(c)
  \/ \E c \in Calls : ReadError(c)
  \/ \E c \in Calls : Apply(c)
  \/ \E c \in Calls : Advance(c)
  \/ \E n \in Nodes : Restart(n)

Spec == Init /\ [][Next]_vars
-----------------------------------------------------------------------------
(* Properties *)

(* Every variable keeps to its type: a store holds only configurations the
   registers hold, and no node is past the registers in use. *)
TypeOK ==
  /\ \A w \in Registers : reg[w] # Unwritten => reg[w] \in offered[w]
  /\ last \in [Nodes -> 0 .. MaxRegisters]
  /\ \A n \in Nodes : /\ DOMAIN store[n].configs \subseteq Registers
                      /\ DOMAIN store[n].byLogId \subseteq 0 .. MaxLogId
  /\ \A c \in Calls : /\ call[c].next \in 0 .. (MaxRegisters + 1)
                      /\ call[c].config.ver \in 0 .. (MaxRegisters + 1)
                      /\ call[c].res \in {"none", "ok", "conflict"}
  /\ restarts \in 0 .. MaxRestarts

(* The store after the first k registers, each applied once, in order. *)
Replay[k \in 0 .. MaxRegisters] ==
  IF k = 0 THEN EmptyStore
  ELSE IF reg[k] # Unwritten /\ MayAppendRange(Replay[k - 1], reg[k])
         THEN AppendRange(Replay[k - 1], reg[k]) ELSE Replay[k - 1]

(***************************************************************************)
(* State machine replication: although calls of one node apply registers   *)
(* twice and move lastAppliedWorId_ backwards, a node's store is always    *)
(* the store some prefix of the chain produces, and never behind its       *)
(* counter.                                                                *)
(***************************************************************************)
StoreIsReplay ==
  \A n \in Nodes : \E k \in last[n] .. MaxRegisters :
    store[n] = Replay[k] /\ \A w \in 1 .. k : reg[w] # Unwritten

(***************************************************************************)
(* The versions a node knows are gapless, each begins where the previous   *)
(* one ends, and the lookup by log id, which works on stale copies, finds  *)
(* the newest version that starts at or below the log id.                  *)
(***************************************************************************)
LookupFindsOwner ==
  \A n \in Nodes :
    LET C == store[n].configs
    IN  /\ DOMAIN C = 1 .. CurrentVersionId(store[n])
        /\ \A v \in DOMAIN C \ {1} : C[v - 1].end = C[v].start
        /\ \A i \in 0 .. MaxLogId : C # << >> =>
             {cfg.ver : cfg \in ConfigsUsingLogId(store[n], i)} =
               {Largest({v \in DOMAIN C : C[v].start <= i})}

(***************************************************************************)
(* compareAndAppendRange that returns without an exception means that the  *)
(* version was installed on the node (by this caller or, when write found  *)
(* another value, by someone else): the caller's setState finds it.        *)
(***************************************************************************)
SuccessMeansVersion ==
  \A c \in Calls :
    call[c].pc = "done" /\ call[c].res = "ok" /\ restarts = 0 =>
      call[c].config.ver \in DOMAIN store[NodeOf(c)].configs

(***************************************************************************)
(* currentConfig_ names the acceptors of the next register.  It is never   *)
(* taken from the empty configuration getConfig invents for version 0,     *)
(* with which a register would have no acceptor and a majority of none.    *)
(***************************************************************************)
AcceptorsKnown ==
  \A c \in Calls : call[c].pc = "advance" =>
    CurrentVersionId(store[NodeOf(c)]) # 0

(***************************************************************************)
(* What append, sync and apply keep up on every node, whatever their calls *)
(* interleave with: the parts above.                                       *)
(***************************************************************************)
ChainConsistent == TypeOK /\ StoreIsReplay /\ AcceptorsKnown
=============================================================================
