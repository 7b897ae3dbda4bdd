------------------------------- MODULE DbKeys -------------------------------
(***************************************************************************)
(* The keys under which mydb lays out its tables in RocksDB, from          *)
(* applications/mydb/backend/KeySerializer.cc.  A key is a sequence of     *)
(* tokens: a padded id is one token, a value is a sequence of characters,  *)
(* and the separator is a character that values may hold as well, which is *)
(* what escaping is for.  A table is a record of db, id, columns and       *)
(* primary (sequences of column ids) and secondary (index id -> column     *)
(* ids).                                                                   *)
(***************************************************************************)
EXTENDS Integers, Sequences, SequencesExt

Sep == "/"

\* The columns and the index ids come from small sets; the lock mode column has id 1001.
LockCol == 1001

SmallIds == <<"0000", "0001", "0002", "0003", "0004", "0005", "0006", "0007",
              "0008", "0009", "0010", "0011", "0012">>
DecimalDigits == <<"0", "1", "2", "3", "4", "5", "6", "7", "8", "9">>

Pad(n) == IF n = LockCol THEN "1001" ELSE SmallIds[n + 1]

\* std::to_string, of numbers below 100.
ToString1(n) ==
  (IF n < 10 THEN <<>> ELSE <<DecimalDigits[(n \div 10) + 1]>>)
    \o <<DecimalDigits[(n % 10) + 1]>>

\* The order of RocksDB's keys on the tokens that can meet at one place of two keys.
Order == <<Sep>> \o SmallIds \o <<"1001">> \o DecimalDigits \o <<"ZZZZZZ", "a", "b", "x">>

\* Faulty variant: values are written as they are.
EscapeStringPlain(s) == s

EscapeString(s) ==
  FlattenSeq([i \in DOMAIN s |-> IF s[i] = Sep THEN <<Sep, Sep>> ELSE <<s[i]>>])

\* Column ids and values in turn, as they follow the index id in a key.
KeyParts(columns, values) ==
  FlattenSeq([i \in DOMAIN values |->
    <<Sep, Pad(columns[i]), Sep>> \o EscapeString(values[i])])

MinimumIndexKey(table, indexId) ==
  <<Pad(table.db), Sep, Pad(table.id), Sep, Pad(indexId)>>

PrimaryKey(table, values) ==
  MinimumIndexKey(table, 0) \o KeyParts(table.primary, values)

ColumnKey(primaryKey, colId) == primaryKey \o <<Sep, Pad(colId)>>

SecondaryIndexKey(table, indexId, values, primaryValues) ==
  MinimumIndexKey(table, indexId)
    \o KeyParts(table.secondary[indexId], values)
    \o KeyParts(table.primary, primaryValues)


\* Where the page after the row with these key values begins.
MaximumIndexKey(table, values) ==
  PrimaryKey(table, values) \o <<Sep, "ZZZZZZ">>

MaximumSecondaryIndexKey(table, indexId, primaryValues, values) ==
  SecondaryIndexKey(table, indexId, values, primaryValues) \o <<Sep, "ZZZZZZ">>

\* parse(), repeated: a doubled separator is a character of the token, a single one
\* ends it, and after one at the end of the key there is no further token.
Parse(key) ==
  LET Read(acc, i) ==
        LET n == Len(acc.tokens)
            Add(c) == [acc.tokens EXCEPT ![n] = Append(@, c)]
        IN CASE acc.skip -> [acc EXCEPT !.skip = FALSE]
             [] ~acc.skip /\ key[i] # Sep -> [acc EXCEPT !.tokens = Add(key[i])]
             [] ~acc.skip /\ key[i] = Sep /\ i < Len(key) /\ key[i + 1] = Sep ->
                  [tokens |-> Add(Sep), skip |-> TRUE]
             [] OTHER -> [acc EXCEPT !.tokens = Append(@, <<>>)]
      read[i \in 0..Len(key)] ==
        IF i = 0 THEN [tokens |-> <<<<>>>>, skip |-> FALSE] ELSE Read(read[i - 1], i)
      tokens == read[Len(key)].tokens
  IN IF Last(tokens) = <<>> THEN Front(tokens) ELSE tokens

\* The values among n pairs of column id and value that begin after token `from`.
ValuesAfter(tokens, from, n) ==
  [i \in {j \in 1..n : from + 2 * j <= Len(tokens)} |-> tokens[from + 2 * i]]

\* A column key has a token after the values of the primary key; the last one counts.
ParseKey(table, key) ==
  LET tokens == Parse(key)
      indexes == {i \in DOMAIN table.secondary : tokens[3] = <<Pad(i)>>}
      before == 3 + 2 * (IF indexes = {} THEN 0
                         ELSE Len(table.secondary[CHOOSE i \in indexes : TRUE]))
      end == before + 2 * Len(table.primary)
  IN [primaryValues |-> ValuesAfter(tokens, before, Len(table.primary)),
      colId |-> IF Len(tokens) > end THEN Last(tokens) ELSE <<>>]

Rank == [t \in Range(Order) |-> CHOOSE i \in DOMAIN Order : Order[i] = t]

\* Lexicographic order, the comparator RocksDB is opened with.
Before(k1, k2) ==
  \/ IsStrictPrefix(k1, k2)
  \/ \E i \in DOMAIN k1 \cap DOMAIN k2 :
       /\ k1[i] # k2[i] /\ SubSeq(k1, 1, i - 1) = SubSeq(k2, 1, i - 1)
       /\ Rank[k1[i]] < Rank[k2[i]]

\* The keys of a set in the order an iterator meets them.
InOrder(keys) ==
  SortSeq(FoldSet(LAMBDA k, seq : Append(seq, k), <<>>, keys), Before)

=============================================================================
