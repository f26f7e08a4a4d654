----------------------------- MODULE MCResources -----------------------------
(***************************************************************************)
(* Resources on a small instance.                                          *)
(***************************************************************************)
EXTENDS Resources

\* Every type; those with a pod spec; the one with four watches; no type; bits
\* that are no type.
SomeRequests == {0..8, {1, 6}, {4}, {}, {0, 9}, {31}}

V(major, minor, suffix) ==
    [major |-> major, minor |-> minor, suffix |-> suffix]

\* 1.28-alpha.1, 1.29+, 2.0
SomeVersions == {V(1, 28, <<Other, 1>>), V(1, 29, <<Other>>), V(2, 0, <<>>)}

=============================================================================
