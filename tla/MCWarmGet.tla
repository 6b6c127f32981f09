------------------------------ MODULE MCWarmGet ------------------------------
(* Small instances of WarmGet for TLC.                                     *)
EXTENDS WarmGet

CONSTANTS value, meta, table, v1, v2

OneRequest == {value}
TwoRequests == {value, meta}
TwoValues == {v1, v2}
=============================================================================
