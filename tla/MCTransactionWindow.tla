------------------------ MODULE MCTransactionWindow ------------------------
(* Two requests that share a customer, one of them with two transactions.   *)
EXTENDS TransactionWindow, TLC

CONSTANTS a1, a2, k1, k2, k3, c1, c2

MCBatch == a1 :> <<k1, k2>> @@ a2 :> <<k3>>
MCCustomerOf == k1 :> c1 @@ k2 :> c2 @@ k3 :> c1
=============================================================================
