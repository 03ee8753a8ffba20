----------------------------- MODULE MCRecovery -----------------------------
(* Recovery, from a small ledger.                                          *)
EXTENDS Recovery

\* An old ledger whose last entry is not covered by a signature
MCOldLedger == <<FALSE, TRUE, FALSE>>
=============================================================================
