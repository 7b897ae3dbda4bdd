--------------------------------- MODULE Db ---------------------------------
(***************************************************************************)
(* The mydb database server (applications/mydb/backend): DbServer's        *)
(* handlers call DbImpl, which keeps the schema of its tables in memory    *)
(* and rows, and a row for each database and table it made, in RocksDB.    *)
(* Handlers for rows run concurrently and meet at RocksDB only, where a    *)
(* read and a batch are atomic.  The handlers that add a database or a     *)
(* table share counters and a map no lock protects: they run here with no  *)
(* other handler under way.  The process may end at any step; a restarted  *)
(* one has what RocksDB holds and a schema store that is bootstrapped      *)
(* again.                                                                  *)
(***************************************************************************)
EXTENDS DbRows

CONSTANTS
  Clients,        \* callers of DbServer, each with one request at a time
  Databases,      \* the names of databases that are asked for
  TableNames,     \* the names of tables that are asked for
  PrimaryKeys,    \* the primary keys a table may be given: columns in any order
  Requests,       \* the requests about rows: sequences of row operations
  MaxAdminCalls,  \* bound: ids taken for a database or a table, next to other requests
  MaxQuietCalls,  \* bound: the same where nothing else happens
  MaxRowCalls,    \* bound: requests about rows
  MaxCrashes,     \* bound: ends of the process
  MaxWriteFails,  \* bound: batches RocksDB refuses
  MaxEvents,      \* bound: requests about rows, crashes and refused batches together
  MaxIds,         \* bound: ids one process hands out to databases, and to tables
  PageSizes       \* the page sizes the paging property looks at

VARIABLES
  kv,         \* what RocksDB holds
  databases,  \* schemaStore_: name -> id, of the databases in it
  tables,     \* schemaStore_: name -> table, of the client tables in it
  dbIds, tableIds,
  admin,      \* the request to add a database or a table that is under way
  calls,      \* the request about rows of each client
  written,    \* history: <<table, key values>> -> the row last written there
  made,       \* history: the tables addTable registered, in order, and whether
              \* the meta row of each was written [table, saved]
  counts      \* history: requests, crashes and failed writes, for the bounds

vars == <<kv, databases, tables, dbIds, tableIds, admin, calls, written,
          made, counts>>

store == <<kv, written>>
schemas == <<databases, tables, dbIds, tableIds>>

\* parse() pairs separators from the left, also those of a value with the ones around
\* it: a value of separators only, the empty one too, runs into the tokens next to it.
Legible(value) == \E i \in DOMAIN value : value[i] # Sep

\* A table has a key, and the name index never meets an illegible name, on which
\* deserializeSecondaryIndexKeys reads beyond the end of a vector.
ASSUME DbConstants ==
  /\ \A name \in Databases \cup TableNames : Legible(name)
  /\ \A key \in PrimaryKeys : key \in {<<0>>, <<1>>, <<0, 1>>, <<1, 0>>}
  /\ MaxIds < 13

NoCall == [op |-> "none"]

\* The two tables of the schema files; created stands for the columns after it.
MetaDb == [db |-> 1, id |-> 1, columns |-> <<0, 1, 2>>, primary |-> <<0>>,
           secondary |-> (1 :> <<1>>)]
MetaDbTable == [MetaDb EXCEPT !.id = 2]

\* The row of a database or a table in its meta table.
MetaRow(id, name) == (0 :> ToString1(id)) @@ (1 :> name) @@ (2 :> <<"x">>)

\* Transformer::from(client::Table): the columns get ids in order, the lock mode is
\* added, and the primary key keeps the order in which the client names its columns.
ClientTable(dbId, tableId, primary) ==
  [db |-> dbId, id |-> tableId, columns |-> <<0, 1, LockCol>>, primary |-> primary,
   secondary |-> <<>>]

Empty == <<>>

Init ==
  /\ kv = Empty
  /\ databases = Empty /\ tables = Empty
  /\ dbIds = 0 /\ tableIds = 0
  /\ admin = NoCall
  /\ calls = [c \in Clients |-> NoCall]
  /\ written = Empty
  /\ made = <<>>
  /\ counts = [admin |-> 0, row |-> 0, crash |-> 0, fail |-> 0]

\* Bounds: what is not a schema call comes seldom, and next to few schema calls.
Events == counts.row + counts.crash + counts.fail
MoreEvents == counts.admin <= MaxAdminCalls /\ Events < MaxEvents

Place(table, row) == <<table, PrimaryValues(table, row)>>

\* RocksDB refuses a batch: write() and del() return false, and QueryExecutor, which
\* does not look at it, goes on.
BatchFails ==
  /\ MoreEvents /\ counts.fail < MaxWriteFails
  /\ counts' = [counts EXCEPT !.fail = @ + 1]
  /\ UNCHANGED store

PutRow(table, row) ==
  \/ /\ kv' = Write(kv, Serialize(table, row))
     /\ written' = (Place(table, row) :> row) @@ written
     /\ UNCHANGED counts
  \/ BatchFails

\* Faulty variant: the row is inserted whether there is one or not.
RowNeverExists(table, row) == FALSE

\* QueryExecutor::insert refuses a row when get() finds any.
RowExists(table, row) == Get(kv, table, PrimaryValues(table, row)) # <<>>

-----------------------------------------------------------------------------
(* addDatabase and addTable.                                               *)

Quiet == admin = NoCall /\ \A c \in Clients : calls[c] = NoCall

CountAdmin ==
  /\ counts.admin < (IF Events = 0 THEN MaxQuietCalls ELSE MaxAdminCalls)
  /\ counts' = [counts EXCEPT !.admin = @ + 1]

\* The id is taken, then the meta row is looked up: `row already exists` ends the call.
AddDatabase(name) ==
  /\ Quiet /\ CountAdmin
  /\ dbIds < MaxIds
  /\ dbIds' = dbIds + 1
  /\ admin' = IF RowExists(MetaDb, MetaRow(dbIds, name)) THEN NoCall
              ELSE [op |-> "addDatabase", step |-> "write", id |-> dbIds, name |-> name]
  /\ UNCHANGED <<store, databases, tables, tableIds, calls, made>>

\* A table needs its database in the schema store and must not be in it itself.
AddTable(dbName, name, primary) ==
  /\ Quiet
  /\ IF dbName \in DOMAIN databases /\ name \notin DOMAIN tables
     THEN /\ CountAdmin
          /\ tableIds < MaxIds
          /\ tableIds' = tableIds + 1
          /\ admin' = IF RowExists(MetaDbTable, MetaRow(tableIds, name)) THEN NoCall
                      ELSE [op |-> "addTable", step |-> "write", id |-> tableIds,
                            name |-> name, db |-> databases[dbName],
                            primary |-> primary]
     ELSE UNCHANGED <<tableIds, admin, counts>>
  /\ UNCHANGED <<store, databases, tables, dbIds, calls, made>>

WriteMetaRow ==
  /\ admin # NoCall /\ admin.step = "write"
  /\ PutRow(IF admin.op = "addDatabase" THEN MetaDb ELSE MetaDbTable,
            MetaRow(admin.id, admin.name))
  /\ admin' = [admin EXCEPT !.step = "register"]
  /\ UNCHANGED <<schemas, calls, made>>

\* registerDb: a name that is there keeps its id, and the caller gets an error.
RegisterDb ==
  /\ admin # NoCall /\ admin.op = "addDatabase" /\ admin.step = "register"
  /\ databases' = databases @@ (admin.name :> admin.id)
  /\ admin' = NoCall
  /\ UNCHANGED <<store, tables, dbIds, tableIds, calls, made, counts>>

RegisterTable ==
  /\ admin # NoCall /\ admin.op = "addTable" /\ admin.step = "register"
  /\ LET table == ClientTable(admin.db, admin.id, admin.primary)
         metaRow == MetaRow(admin.id, admin.name)
     IN /\ tables' = (admin.name :> table) @@ tables
        /\ made' = Append(made, [table |-> table,
                     saved |-> Place(MetaDbTable, metaRow) \in DOMAIN written])
  /\ admin' = NoCall
  /\ UNCHANGED <<store, databases, dbIds, tableIds, calls, counts>>

-----------------------------------------------------------------------------
(* Requests about rows.  A request is a sequence of operations: one for    *)
(* addRow, updateRow, getRow and scanTable, several for                    *)
(* multiTableOperation, which stops at the first that throws and undoes    *)
(* nothing.                                                                *)

Start(c, name, request) ==
  /\ admin = NoCall /\ calls[c] = NoCall
  /\ MoreEvents /\ counts.row < MaxRowCalls
  /\ counts' = [counts EXCEPT !.row = @ + 1]
  /\ name \in DOMAIN tables
  /\ calls' = [calls EXCEPT ![c] = [op |-> Head(request).op, step |-> "read",
                                    table |-> tables[name], todo |-> request]]
  /\ UNCHANGED <<store, schemas, admin, made>>

Operation(c) == Head(calls[c].todo)

At(c, op, step) == calls[c] # NoCall /\ calls[c].op \in op /\ calls[c].step = step

StepTo(c, step) == calls' = [calls EXCEPT ![c].step = step]

\* The next operation of the request, or its answer.
Finish(c) ==
  LET todo == Tail(calls[c].todo)
  IN calls' = [calls EXCEPT ![c] =
       IF todo = <<>> THEN NoCall
       ELSE [@ EXCEPT !.todo = todo, !.op = Head(todo).op, !.step = "read"]]

\* An operation that throws ends the request; the client gets an error.
Throw(c) == calls' = [calls EXCEPT ![c] = NoCall]

\* addConditionToCheckWriteLock.
WithLockCheck(condition) ==
  [op |-> "AND", c1 |-> condition,
   c2 |-> [op |-> "EQ", col |-> LockCol, value |-> ToString1(0)]]

\* updateRow goes on when any row of the table passes.
ConditionMet(c) ==
  Plan(kv, calls[c].table, WithLockCheck(Operation(c).condition)) # <<>>

\* The keys the operation of c reads in its next step.
KeysToRead(c) ==
  LET table == calls[c].table
  IN IF calls[c].op \in {"add", "get"}
     THEN GetKeys(kv, table, PrimaryValues(table, Operation(c).row))
     ELSE ScanPrimary(kv, table, <<>>, NoLimit)

Readable(c) == KnownColumns(calls[c].table, KeysToRead(c))

\* addRow: insert looks for the row, writes it, and the answer reads it again.
AddCheck(c) ==
  /\ At(c, {"add"}, "read") /\ Readable(c)
  /\ IF RowExists(calls[c].table, Operation(c).row) THEN Throw(c)
     ELSE StepTo(c, "write")
  /\ UNCHANGED <<store, schemas, admin, made, counts>>

AddAnswer(c) ==
  /\ At(c, {"add"}, "answer") /\ Readable(c)
  /\ Finish(c)
  /\ UNCHANGED <<store, schemas, admin, made, counts>>

UpdateCheck(c) ==
  /\ At(c, {"replace", "merge"}, "read") /\ Readable(c)
  /\ IF ConditionMet(c)
     THEN StepTo(c, IF calls[c].op = "replace" THEN "delete" ELSE "write")
     ELSE Throw(c)
  /\ UNCHANGED <<store, schemas, admin, made, counts>>

\* REPLACE deletes the keys it is about to write, in a batch of its own.
UpdateDelete(c) ==
  LET table == calls[c].table
      row == Operation(c).row
  IN /\ At(c, {"replace"}, "delete")
     /\ \/ /\ kv' = Del(kv, DOMAIN Serialize(table, row))
           /\ written' = Restrict(written, DOMAIN written \ {Place(table, row)})
           /\ UNCHANGED counts
        \/ BatchFails
     /\ StepTo(c, "write")
     /\ UNCHANGED <<schemas, admin, made>>

WriteRow(c) ==
  LET table == calls[c].table
      row == Operation(c).row
  IN /\ At(c, {"add", "replace", "merge"}, "write")
     /\ PutRow(table, row)
     /\ IF calls[c].op = "add" THEN StepTo(c, "answer") ELSE Finish(c)
     /\ UNCHANGED <<schemas, admin, made>>

\* getRow and scanTable read and answer.
ReadRows(c) ==
  /\ At(c, {"get", "scan"}, "read") /\ Readable(c)
  /\ Finish(c)
  /\ UNCHANGED <<store, schemas, admin, made, counts>>

-----------------------------------------------------------------------------
(* The end of the process and its restart.                                 *)

\* RocksDB keeps every batch it has answered; bootstrap() registers the meta tables.
Restart ==
  /\ MoreEvents /\ counts.crash < MaxCrashes
  /\ counts' = [counts EXCEPT !.crash = @ + 1]
  /\ databases' = Empty /\ tables' = Empty
  /\ dbIds' = 0 /\ tableIds' = 0
  /\ admin' = NoCall
  /\ calls' = [c \in Clients |-> NoCall]
  /\ UNCHANGED <<store, made>>

Crash == Restart

\* An assertion ends the process: a request names a table the schema store has not got.
UnknownTable(c, name) ==
  /\ admin = NoCall /\ calls[c] = NoCall
  /\ name \notin DOMAIN tables
  /\ Restart

\* Another one: a key that was read has a column the table has not got.
UnknownColumn(c) ==
  /\ \/ At(c, {"add", "replace", "merge", "get", "scan"}, "read")
     \/ At(c, {"add"}, "answer")
  /\ ~Readable(c)
  /\ Restart

Next ==
  \/ \E name \in Databases : AddDatabase(name)
  \/ \E dbName \in Databases, name \in TableNames, primary \in PrimaryKeys :
       AddTable(dbName, name, primary)
  \/ WriteMetaRow
  \/ RegisterDb
  \/ RegisterTable
  \/ \E c \in Clients, name \in TableNames :
       \/ \E request \in Requests : Start(c, name, request)
       \/ UnknownTable(c, name)
  \/ \E c \in Clients :
       \/ AddCheck(c) \/ AddAnswer(c)
       \/ UpdateCheck(c) \/ UpdateDelete(c)
       \/ WriteRow(c)
       \/ ReadRows(c)
       \/ UnknownColumn(c)
  \/ Crash

Spec == Init /\ [][Next]_vars

-----------------------------------------------------------------------------
(* Properties.                                                             *)

MadeTables == {made[i].table : i \in DOMAIN made}
AllTables == {MetaDb, MetaDbTable} \cup MadeTables

\* Every variable has its type, and a request is at a step its operation has.
TypeOK ==
  /\ DOMAIN databases \subseteq Databases /\ DOMAIN tables \subseteq TableNames
  /\ dbIds \in 0..MaxIds /\ tableIds \in 0..MaxIds
  /\ Range(databases) \subseteq 0..(MaxIds - 1)
  /\ Range(tables) \subseteq MadeTables
  /\ \A c \in Clients : calls[c] # NoCall =>
       /\ calls[c].op = Operation(c).op
       /\ calls[c].step \in [add |-> {"read", "write", "answer"},
                             replace |-> {"read", "delete", "write"},
                             merge |-> {"read", "write"},
                             get |-> {"read"}, scan |-> {"read"}][calls[c].op]
  /\ DOMAIN written \subseteq AllTables \X Seq(Seq(STRING))

\* No other table has the ids, and with them the key prefix, of this one.
OwnPrefix(table) == \A other \in AllTables \ {table} :
                      <<other.db, other.id>> # <<table.db, table.id>>

\* The rows of a table that can be read: no value of their key is illegible.
Places(table) ==
  {p \in DOMAIN written : p[1] = table /\ \A i \in DOMAIN p[2] : Legible(p[2][i])}
AllLegible(table) == \A p \in DOMAIN written : p[1] = table => p \in Places(table)
RowsOf(table) == {written[p] : p \in Places(table)}

\* The primary key names its columns in the order the table has them.
KeyInColumnOrder(table) == \A i, j \in DOMAIN table.primary :
                             i < j => table.primary[i] < table.primary[j]

\* A full scan of a table that shares its prefix with no other returns each legible row
\* as it was last written, once, and nothing else, whichever characters keys and values
\* hold, whichever updates are half done, whichever writes failed and in whatever order
\* the key names its columns (tableScan, serialize, deserialize, parse); and get() finds
\* each of them where the key is in column order.
ScanIsRows ==
  TypeOK /\ \A table \in AllTables : OwnPrefix(table) =>
    LET scan == TableScan(kv, table, <<>>, NoLimit)
    IN /\ Range(scan) = RowsOf(table)
       /\ Len(scan) = Cardinality(Places(table))
       /\ KeyInColumnOrder(table) =>
            \A row \in RowsOf(table) : row \in Range(Get(kv, table, PrimaryValues(table, row)))

\* The index on names leads to every database or table that has a meta row and to nothing
\* else, in one page and in pages of one; the row of an id comes once for every id in the
\* table whose digits its own begin with (tableScan by a secondary index, then read() by
\* key prefix).
IndexCovers ==
  \A table \in {MetaDb, MetaDbTable} : OwnPrefix(table) =>
    LET page == IndexScan(kv, table, 1, <<>>, <<>>, NoLimit)
        After(row) == IndexScan(kv, table, 1, PrimaryValues(table, row),
                                ValuesOf(row, <<1>>), 1)
        rows == RowsOf(table)
    IN /\ Range(page) = rows
       /\ \A row \in rows : Cardinality({i \in DOMAIN page : page[i] = row}) =
                            Cardinality({r \in rows : IsPrefix(r[0], row[0])})
       /\ rows # {} => rows = {page[1]} \cup
            {Head(next) : next \in {After(row) : row \in rows} \ {<<>>}}

\* No row's key is the key of another one with a separator and more behind it.
KeysApart(table) ==
  LET Key(row) == PrimaryKey(table, PrimaryValues(table, row))
  IN \A r1, r2 \in RowsOf(table) : ~IsPrefix(Append(Key(r1), Sep), Key(r2))


\* No table gets the id of one whose meta row was written, though the counter begins at
\* 0 in every process: the meta rows of earlier ones stand in the way (addTable, insert).
TableIdsFresh ==
  \A i, j \in DOMAIN made :
    i < j /\ made[i].saved => made[i].table.id # made[j].table.id

=============================================================================
