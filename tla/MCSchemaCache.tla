---------------------------- MODULE MCSchemaCache ----------------------------
(* Two lookups at a time, of two schemas and the list of subjects. *)
EXTENDS SchemaCache, TLC

CONSTANTS a, b, c1, c2, list

\* Each schema is there or is not; the list of subjects grows.
Growth == [k \in {a, b, list} |-> IF k = list THEN 2 ELSE 0]

\* Neither keys of schemas nor callers are told apart.
Alike == Permutations({a, b}) \union Permutations({c1, c2})

=============================================================================
