-------------------------------- MODULE MCDb --------------------------------
(* Instances of Db for TLC: rows whose keys begin with one another, hold   *)
(* the separator, begin with it or are empty, locked and not, and requests *)
(* about them.                                                             *)
EXTENDS Db

CONSTANTS c1, c2

Row(key, value, lock) == (0 :> key) @@ (1 :> value) @@ (LockCol :> lock)

Short == Row(<<"a", Sep, "b">>, <<"a", Sep>>, <<"0">>)
Changed == Row(<<"a", Sep, "b">>, <<"b">>, <<"0">>)
Long == Row(<<"a", Sep, "b", "x">>, <<Sep, "b">>, <<"1">>)
Leading == Row(<<Sep, "a">>, <<>>, <<"0">>)
NoKey == Row(<<>>, <<Sep>>, <<"0">>)

Everywhere == [op |-> "TRUE"]
LikeShort == [op |-> "OR", c1 |-> [op |-> "EQ", col |-> 1, value |-> <<"a", Sep>>],
              c2 |-> [op |-> "GT", col |-> LockCol, value |-> <<"1">>]]

Op(op, row, condition) == [op |-> op, row |-> row, condition |-> condition]
Add(row) == Op("add", row, Everywhere)

RowRequests ==
  {<<Add(Short)>>, <<Add(Long)>>, <<Add(Leading)>>, <<Add(NoKey)>>,
   <<Op("replace", Changed, Everywhere), Op("get", Short, Everywhere)>>,
   <<Op("merge", Changed, LikeShort)>>,
   <<Op("scan", Short, Everywhere)>>}

AnyOrder == {<<0>>, <<1, 0>>}

MCDatabases == {<<Sep, "a">>}
MCTableNames == {<<"a", Sep, "b">>}
Symmetry == Permutations(Clients)

=============================================================================
