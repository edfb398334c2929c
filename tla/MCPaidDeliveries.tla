-------------------------- MODULE MCPaidDeliveries --------------------------
(* A small instance of PaidDeliveries for TLC: one order, so that every    *)
(* sender and every request meets the others.                              *)
EXTENDS PaidDeliveries
=============================================================================
