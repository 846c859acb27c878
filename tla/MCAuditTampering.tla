--------------------------- MODULE MCAuditTampering ---------------------------
(* Two tenants and two different events. *)
EXTENDS AuditTampering

CONSTANTS o1, o2, p1, p2
=============================================================================
