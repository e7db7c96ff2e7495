---------------------------- MODULE MCAuditTrail ----------------------------
(* A small instance of AuditTrail for TLC: sessions are independent, one will do. *)
EXTENDS AuditTrail
CONSTANT c1
=============================================================================
