------------------------------- MODULE KVStore -------------------------------
(***************************************************************************)
(* persistence::RocksKVStoreLite (persistence/RocksKVStoreLite.h) on a     *)
(* database opened with manual_wal_flush (RocksDbFactory.h), as operators  *)
(* on a record                                                             *)
(*   mem  - what readers see, a function from the present keys to values   *)
(*   kept - the contents a crash may leave: the log of writes survives up  *)
(*          to any point from the last flush on                            *)
(* RocksDB itself is external and modelled from this use of it.            *)
(***************************************************************************)

(* A database that createIfMissing has just made. *)
OpenEmpty == [mem |-> << >>, kept |-> {<< >>}]

Has(kv, key) == key \in DOMAIN kv.mem

Written(kv, mem) == [mem |-> mem, kept |-> kv.kept \union {mem}]

KvPut(kv, key, value) ==
  Written(kv, [k \in DOMAIN kv.mem \union {key} |->
                 IF k = key THEN value ELSE kv.mem[k]])

(* deleteRange: `keys' are the ones the store orders into the range. *)
DeleteKeys(kv, keys) == Written(kv, [k \in DOMAIN kv.mem \ keys |-> kv.mem[k]])

(* Faulty variant: the writes stay in the buffer of the process. *)
FlushNothing(kv) == kv

FlushWal(kv) == [kv EXCEPT !.kept = {kv.mem}]

(* The process ends with `mem' on disk and opens the database again. *)
Reopen(mem) == [mem |-> mem, kept |-> {mem}]
=============================================================================
