----------------------------- MODULE MCAuditChain -----------------------------
(* Connections, tenants and what events say are interchangeable. *)
EXTENDS AuditChain

CONSTANTS r1, r2, o1, o2, c1, c2

Interchangeable ==
  Permutations({r1, r2}) \cup Permutations({o1, o2}) \cup Permutations({c1, c2})
=============================================================================
