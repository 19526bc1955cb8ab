--------------------------- MODULE MCSchemaUpdate ---------------------------
(* Small instances of SchemaUpdate for TLC.                                *)
EXTENDS SchemaUpdate
CONSTANTS r1, r2

OneRequest == {r1}
TwoRequests == {r1, r2}
=============================================================================
