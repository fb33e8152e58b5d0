-------------------------- MODULE MCQueryContext --------------------------
(***************************************************************************)
(* Query contexts over an index that has a database for every field and    *)
(* one that has not.                                                       *)
(***************************************************************************)
EXTENDS QueryContext

CONSTANTS i, j, f, g

\* One shard of a field, a field and a shard of the other index, everything.
SomeScopes ==
    {AddFieldShards(Scope, i, f, {1}), AddIndexShards(AddField(Scope, i, g), j, {1}),
     AddAll(Scope)}

\* One database of each kind.
SomeFragments == {<<i, f, 1>>, <<j, f, 1>>}
=============================================================================
