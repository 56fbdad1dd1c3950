------------------------------ MODULE MCRouter ------------------------------
(* A router over two shards and two nodes. *)
EXTENDS Router, TLC

MCShardFor == 1 :> 0 @@ 2 :> 0 @@ 3 :> 1
\* With both nodes members each owns a shard; after a move or a failover one
\* node may own both.
MCPoint == "a" :> {1, 7} @@ "b" :> {4}
MCShardPoint == 0 :> 3 @@ 1 :> 8
\* An id twice, and ids of both shards.
MCInserts == {Put(3, 2)}
MCDeletes == {3}
MCMemberships == {Nodes}
MCHoldings == {1 :> 1 @@ 2 :> 2 @@ 3 :> 1}
MCBatches == {<<Put(1, 1), Put(3, 2), Put(1, 2)>>}
=============================================================================
