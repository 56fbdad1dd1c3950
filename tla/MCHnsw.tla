------------------------------- MODULE MCHnsw -------------------------------
(* Hnsw for TLC. *)
EXTENDS Hnsw

\* The distances between these points all differ.
MCVectors == <<{0, 10}, {1}, {4}, {18}, {23}, {25}>>

At(i, p, l) == [id |-> i, vec |-> p, level |-> l]

\* Nothing, one tall node, two nodes, and five around the first: a sixth link
\* is one too many for it.
MCStarts ==
  {<<>>, <<At(1, 0, 1)>>, <<At(2, 1, 0), At(4, 18, 0)>>,
   <<At(1, 0, 0), At(6, 25, 0), At(5, 23, 0), At(4, 18, 0), At(3, 4, 0)>>}

\* New ids, one id twice, and a known id with a new one.
MCBatches ==
  {<<At(3, 4, 0), At(6, 25, 0)>>, <<At(5, 23, 1), At(6, 25, 0)>>,
   <<At(1, 0, 0), At(1, 10, 0)>>, <<At(2, 1, 0), At(5, 23, 0)>>}
=============================================================================
