--------------------------- MODULE MCTokenManager ---------------------------
(***************************************************************************)
(* Small instances of TokenManager for TLC.                                *)
(***************************************************************************)
EXTENDS TokenManager

OneXero == {"xero"}
OneQbo == {"quickbooks"}
Both == {"xero", "quickbooks"}
Nobody == {}

\* Expires after two minutes; due after one with a margin of one.
TwoMinutes == [e \in ERP |-> 2]
=============================================================================
