----------------------------- MODULE MCReceipts -----------------------------
(* Receipts for TLC: two pollers racing for the receipt of one token that  *)
(* two users register in turn.  No symmetry: ReceiptSettles is temporal.   *)
EXTENDS Receipts
=============================================================================
