--------------------------- MODULE MCAuditUpload ---------------------------
(* An instance of AuditUpload for TLC: three uploads of one file, the least *)
(* number of which two can wait for the third and then run side by side.    *)
EXTENDS AuditUpload

CONSTANTS u1, u2, u3, f1
============================================================================
