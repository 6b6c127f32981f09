------------------------------ MODULE MCWarmPut ------------------------------
(* Small instances of WarmPut for TLC.                                     *)
EXTENDS WarmPut

CONSTANTS scalar, table, none

OneType  == {scalar}
TwoTypes == {scalar, table}
=============================================================================
