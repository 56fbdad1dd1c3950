---------------------------- MODULE MCTenantDirs ----------------------------
(* TenantDirs for TLC. *)
EXTENDS TenantDirs

\* A disk with the given data files in its root and directories for the ids of
\* the function.
Root(legacy, dirs) ==
  [legacy |-> legacy, dirs |-> [n \in Names |-> IF n \in DOMAIN dirs THEN dirs[n] ELSE NoDir]]

Wal == [NoFiles EXCEPT !["wal"] = {1}]
Nothing == [n \in {} |-> NoDir]

\* An empty root, single-tenant roots with a log, a snapshot or both, and a
\* root from before quota.json and index.json.
MCRoots ==
  {Root({}, Nothing), Root({"snapshot", "metadata"}, Nothing), Root(Pieces, Nothing),
   Root({}, [n \in {Default, "a"} |-> [NewDir EXCEPT !.files = Wal]])}
=============================================================================
