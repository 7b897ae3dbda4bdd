-------------------------- MODULE MetadataConfigs --------------------------
(***************************************************************************)
(* The metadata store's two maps and its operations                        *)
(* (log/impl/InMemoryMetadataStore.cc) as pure operators on a record       *)
(*   configs - configs_,       version id |-> configuration                *)
(*   byLogId - logIdToConfig_, start index |-> configuration               *)
(* The two maps hold COPIES: closing a configuration updates the copy in   *)
(* configs_ and leaves the copy in logIdToConfig_ as it was.               *)
(*                                                                         *)
(* A configuration is [prev, ver, start, end, seqr]: its previous version, *)
(* its version, its range [start, end) of log ids and its sequencer.  The  *)
(* replica set is left out: VirtualLogImpl::setState never installs it.    *)
(***************************************************************************)
EXTENDS Integers, FiniteSets

EmptyStore == [configs |-> [v \in {} |-> {}], byLogId |-> [n \in {} |-> {}]]

Put(f, key, value) ==
  [k \in DOMAIN f \union {key} |-> IF k = key THEN value ELSE f[k]]

Largest(S) == CHOOSE x \in S : \A y \in S : y <= x

(* getCurrentVersionId(): the last key of configs_, 0 for an empty store. *)
CurrentVersionId(store) ==
  IF DOMAIN store.configs = {} THEN 0 ELSE Largest(DOMAIN store.configs)

(* Faulty variant: the previous version is not compared. *)
MayAppendAnyRange(store, config) == config.ver = config.prev + 1

(* The check of compareAndAppendRange; when it fails the call throws
   OptimisticConcurrencyException and changes nothing. *)
MayAppendRange(store, config) ==
  IF DOMAIN store.configs = {}
    THEN config.prev = 0
    ELSE /\ config.prev = CurrentVersionId(store)
         /\ config.ver = config.prev + 1

(* compareAndAppendRange when the check passes. *)
AppendRange(store, config) ==
  LET closed == IF DOMAIN store.configs = {}
                  THEN store.configs
                  ELSE [store.configs EXCEPT ![config.prev].end = config.start]
  IN  [configs |-> Put(closed, config.ver, config),
       byLogId |-> Put(store.byLogId, config.start, config)]

(* Faulty variant: the walk goes up from the smallest start index. *)
FirstConfigUsingLogId(store, logId) ==
  LET hits == {s \in DOMAIN store.byLogId :
                 /\ store.byLogId[s].start <= logId
                 /\ logId < store.byLogId[s].end}
  IN  {store.byLogId[s] : s \in {x \in hits : \A y \in hits : x <= y}}

(***************************************************************************)
(* getConfigUsingLogId(logId): the walk goes down the start indices from   *)
(* the first one above logId and returns the first copy whose range holds  *)
(* logId.  The result is a set: {} is std::nullopt.                        *)
(***************************************************************************)
ConfigsUsingLogId(store, logId) ==
  LET hits == {s \in DOMAIN store.byLogId :
                 /\ store.byLogId[s].start <= logId
                 /\ logId < store.byLogId[s].end}
  IN  IF hits = {} THEN {} ELSE {store.byLogId[Largest(hits)]}
=============================================================================
