----------------------------- MODULE MCAuditLog -----------------------------
(* An instance of AuditLog for TLC: two days, and appends around midnight   *)
(* that rotate the stream in either order, with a flush in between.         *)
EXTENDS AuditLog, TLC

CONSTANTS a1, a2, f1, day1, day2

MCDateOf == (a1 :> day1) @@ (a2 :> day2)
============================================================================
