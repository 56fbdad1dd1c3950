------------------------------ MODULE MCSearch ------------------------------
(* Search for TLC. *)
EXTENDS Search

MCPageSizes == {-1, 0, 2}
MCNumber == [v \in {"5", "7", "8"} |-> CASE v = "5" -> 5 [] v = "7" -> 7 [] v = "8" -> 8]

MD(c, n) == [k \in {"c", "n"} |-> IF k = "c" THEN c ELSE n]
C(c) == [k \in {"c"} |-> c]

\* Five vectors, the one whose color is rare the farthest.
MCOpened ==
  {[graph |-> [i \in Ids |-> IF i = 5 THEN Absent ELSE 10 * i],
    meta |-> [i \in Ids |-> CASE i = 4 -> MD("red", "7") [] i = 5 -> NoMeta
                              [] i = 3 -> MD("blue", "5") [] OTHER -> C("blue")]]}

\* Fewer, the rare one in another place.
MCSnapshots ==
  {[graph |-> [i \in Ids |-> IF i \in {0, 4} THEN 10 * i + 1 ELSE Absent],
    meta |-> [i \in Ids |-> IF i = 4 THEN C("red") ELSE NoMeta]]}

Put(i, v, md) == [op |-> "insert", id |-> i, vec |-> v, md |-> md]
Del(i) == [op |-> "delete", id |-> i, vec |-> 0, md |-> NoMeta]
Set(i, md) == [op |-> "meta", id |-> i, vec |-> 0, md |-> md]

\* A moved vector and a new id, a delete with an upsert, a recoloring.
MCCommits ==
  {<<Put(0, 2, C("red")), Put(5, 51, NoMeta)>>,
   <<Del(4), Put(3, 30, C("red"))>>, <<Set(4, C("blue")), Del(0)>>}

F(key, op, values) == [key |-> key, op |-> op, values |-> values]
Ask(k, ef, fs) == [topK |-> k, ef |-> ef, filters |-> fs]

MCRequests ==
  {Ask(2, 1, <<>>), Ask(0, 1, <<>>), Ask(1, 3, <<>>), Ask(1, 0, <<F("n", "gt", <<"x">>)>>),
   Ask(1, 1, <<F("c", "eq", <<"red">>)>>), Ask(2, 1, <<F("c", "in", <<"red", "red">>)>>),
   Ask(2, 2, <<F("c", "in", <<"red", "blue", "red">>), F("n", "gte", <<"5">>), F("n", "lt", <<"8">>)>>),
   Ask(1, 1, <<F("c", "notin", <<"blue">>), F("c", "exists", <<>>), F("c", "ne", <<"blue">>)>>),
   Ask(1, 0, <<F("n", "gt", <<"5">>), F("n", "lte", <<"7">>)>>)}
=============================================================================
