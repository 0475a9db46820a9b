------------------------------ MODULE MCHostFs ------------------------------
(* A root, two names, and one level of directories below. *)
EXTENDS HostFs

A == <<"a">>
B == <<"b", "/">>
MCPaths == {<<A>>, <<B>>, <<A, B>>}
MCRank == [leaf \in {A, B} |-> IF leaf = A THEN 1 ELSE 2]
\* Bound: the guest does not list a directory while it has files open.
Bound == held = {} \/ listing.state = "none"
=============================================================================
