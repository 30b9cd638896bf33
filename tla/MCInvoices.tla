----------------------------- MODULE MCInvoices -----------------------------
(***************************************************************************)
(* Invoices for TLC: unit amounts and quantities whose products end in     *)
(* halves of a cent, and documents that are worth nothing.                 *)
(***************************************************************************)
EXTENDS Invoices

MCUnit == {1, 3}
MCQuantity == {1, 2, 3}
MCTwoOrMore == {4, 6}
=============================================================================
