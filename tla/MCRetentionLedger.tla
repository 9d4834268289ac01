------------------------- MODULE MCRetentionLedger -------------------------
(* An instance of RetentionLedger for TLC: a staging ledger and a bank's.  *)
EXTENDS RetentionLedger

CONSTANTS staging, bank, a

MCLedgers == {staging, bank}
MCKeys == {a}
=============================================================================
