------------------------------- MODULE DbRows -------------------------------
(***************************************************************************)
(* Reading and writing rows of mydb tables in RocksDB: RowSerializer.h,    *)
(* RocksReaderWriter.cc, the reads of QueryExecutor.cc and the conditions  *)
(* of QueryPlanner.cc (all under applications/mydb/backend).  A row is a   *)
(* function from column ids to values, `kv` the function RocksDB holds.    *)
(***************************************************************************)
EXTENDS DbKeys

Null == <<"NULL">>

\* The value of a row for each column of a primary key or of an index.
ValuesOf(row, columns) == [i \in DOMAIN columns |-> row[columns[i]]]

PrimaryValues(table, row) == ValuesOf(row, table.primary)

\* serialize() collects the values of a key in the order of the table's columns,
\* whatever order the key names them in.
ValuesInColumnOrder(table, row, columns) ==
  ValuesOf(row, SelectSeq(table.columns, LAMBDA c : c \in Range(columns)))

\* Faulty variant: the column every table gets by default is not written.
SerializeNoDefaults(table, row) ==
  LET pk == PrimaryKey(table, ValuesInColumnOrder(table, row, table.primary))
      columns == Range(table.columns) \ {LockCol}
  IN [k \in {pk} \cup {ColumnKey(pk, c) : c \in columns} |->
        IF k = pk THEN Null ELSE row[CHOOSE c \in columns : ColumnKey(pk, c) = k]]

\* The keys and values of one row: its primary key, its columns, its index entries.
Serialize(table, row) ==
  LET Values(key) == ValuesInColumnOrder(table, row, key)
      pk == PrimaryKey(table, Values(table.primary))
      columns == Range(table.columns)
      indexKeys == {SecondaryIndexKey(table, i, Values(table.secondary[i]),
                                      Values(table.primary)) :
                      i \in DOMAIN table.secondary}
      columnKeys == [c \in columns |-> ColumnKey(pk, c)]
  IN [k \in {pk} \cup indexKeys \cup Range(columnKeys) |->
        IF k \in Range(columnKeys)
        THEN row[CHOOSE c \in columns : columnKeys[c] = k] ELSE Null]

\* RocksReaderWriter::write and del are one batch each.
Write(kv, pairs) == pairs @@ kv

Del(kv, keys) == Restrict(kv, DOMAIN kv \ keys)

\* RocksReaderWriter::read: every key that begins with the one asked for.
Read(kv, key) == InOrder({k \in DOMAIN kv : IsPrefix(key, k)})

\* RocksReaderWriter::scan.  A key that begins with the first key of a row belongs
\* to that row, so that a row begins at a key none of the scanned keys is a prefix of.
Scan(kv, seekPosition, prefix, maxRows) ==
  LET keys == {k \in DOMAIN kv : IsPrefix(prefix, k) /\ ~Before(k, seekPosition)}
      first == {k \in keys : \A n \in Len(prefix)..(Len(k) - 1) : SubSeq(k, 1, n) \notin keys}
      page == {j \in first : Cardinality({k \in first : Before(k, j)}) < maxRows}
  IN InOrder({k \in keys : \E j \in page : IsPrefix(j, k)})

\* The assertion of deserialize: every column of a key read is one of the table.
KnownColumns(table, keys) ==
  \A i \in DOMAIN keys :
    LET colId == ParseKey(table, keys[i]).colId
    IN colId = <<>> \/ \E c \in Range(table.columns) : colId = <<Pad(c)>>

\* Each column is built by itself, in the order of the keys; the first one says how
\* many rows there are.
Deserialize(kv, table, keys) ==
  LET parsed == {<<k, ParseKey(table, k).colId>> : k \in Range(keys)}
      Build(c, builders) ==
        (c :> SelectSeq(keys, LAMBDA k : <<k, <<Pad(c)>>>> \in parsed)) @@ builders
      cells == FoldSet(Build, <<>>, Range(table.columns))
  IN [i \in 1..Len(cells[table.columns[1]]) |->
        [c \in Range(table.columns) |->
           IF i <= Len(cells[c]) THEN kv[cells[c][i]] ELSE Null]]

\* The primary key values that the keys of an index end with.
DeserializeSecondaryIndexKeys(table, keys) ==
  [i \in DOMAIN keys |-> ParseKey(table, keys[i]).primaryValues]

\* QueryExecutor::get for one row, and for the rows a sequence of key values names.
GetKeys(kv, table, values) == Read(kv, PrimaryKey(table, values))

Get(kv, table, values) == Deserialize(kv, table, GetKeys(kv, table, values))

GetAll(kv, table, valuesOfRows) ==
  Deserialize(kv, table,
    FlattenSeq([i \in DOMAIN valuesOfRows |-> GetKeys(kv, table, valuesOfRows[i])]))

\* tableScan over the primary index: from the beginning, or after a row.
ScanPrimary(kv, table, after, maxRows) ==
  LET prefix == MinimumIndexKey(table, 0)
      seekPosition == IF after = <<>> THEN prefix ELSE MaximumIndexKey(table, after)
  IN Scan(kv, seekPosition, prefix, maxRows)

TableScan(kv, table, after, maxRows) ==
  Deserialize(kv, table, ScanPrimary(kv, table, after, maxRows))

\* tableScan over a secondary index: the rows its entries lead to.
IndexScan(kv, table, indexId, after, afterValues, maxRows) ==
  LET prefix == MinimumIndexKey(table, indexId)
      seekPosition ==
        IF after = <<>> THEN prefix
        ELSE MaximumSecondaryIndexKey(table, indexId, after, afterValues)
  IN GetAll(kv, table,
       DeserializeSecondaryIndexKeys(table, Scan(kv, seekPosition, prefix, maxRows)))

\* The limit the planner passes, which no table reaches.
NoLimit == 100000

\* tableScanGenerator: the rows of its first n pages.  A page of fewer rows than asked
\* for has no row number maxRows, and the scan begins again.
TableScanGenerator(kv, table, maxRows, n) ==
  LET LastRow(page) ==
        IF Len(page) < maxRows THEN <<>> ELSE PrimaryValues(table, page[maxRows])
      NextPage(read, i) ==
        LET page == TableScan(kv, table, read.after, maxRows)
        IN [after |-> LastRow(page), rows |-> read.rows \cup Range(page)]
  IN FoldLeft(NextPage, [after |-> <<>>, rows |-> {}], [i \in 1..n |-> i]).rows

\* Comparisons of parseUnaryCondition, on values of integer columns.
Number(value) == Rank[Head(value)]

Compare(op, x, y) ==
  CASE op = "EQ"  -> x = y
    [] op = "LEQ" -> Number(x) <= Number(y)
    [] op = "LT"  -> Number(x) < Number(y)
    [] op = "GEQ" -> Number(x) >= Number(y)
    [] op = "GT"  -> Number(x) > Number(y)

\* parseCondition; a condition that is neither unary nor binary holds for every row.
RECURSIVE Holds(_, _)
Holds(condition, row) ==
  CASE condition.op = "TRUE" -> TRUE
    [] condition.op = "AND" -> Holds(condition.c1, row) /\ Holds(condition.c2, row)
    [] condition.op = "OR"  -> Holds(condition.c1, row) \/ Holds(condition.c2, row)
    [] OTHER -> Compare(condition.op, row[condition.col], condition.value)

\* QueryPlanner::plan and execute: the rows of a full scan that pass the filter.
Plan(kv, table, condition) ==
  SelectSeq(TableScan(kv, table, <<>>, NoLimit), LAMBDA row : Holds(condition, row))

=============================================================================
