--------------------------- MODULE BatchInference ---------------------------
(***************************************************************************)
(* What a worker sees of inference: it hands over a batch, and gets back a *)
(* pick of it, or its process ends.                                        *)
(***************************************************************************)
EXTENDS BatchPicks

CONSTANTS Workers, MaxBatch

VARIABLES
  batchSize, \* per worker: the size of the batch handed over, or 0
  returned   \* per worker: whose results came back, in the order of the list

vars == <<batchSize, returned>>

Init ==
  /\ batchSize = [w \in Workers |-> 0]
  /\ returned = [w \in Workers |-> << >>]

HandOver(w) ==
  /\ batchSize[w] = 0
  /\ \E n \in 1..MaxBatch : batchSize' = [batchSize EXCEPT ![w] = n]
  /\ returned' = [returned EXCEPT ![w] = << >>]

Return(w) ==
  /\ batchSize[w] > 0
  /\ \E n \in 0..batchSize[w] : \E pick \in Picks(n, batchSize[w]) :
       returned' = [returned EXCEPT ![w] = pick]
  /\ batchSize' = [batchSize EXCEPT ![w] = 0]

End(w) ==
  /\ batchSize' = [batchSize EXCEPT ![w] = 0]
  /\ returned' = [returned EXCEPT ![w] = << >>]

Next == \E w \in Workers : HandOver(w) \/ Return(w) \/ End(w)

Spec == Init /\ [][Next]_vars
=============================================================================
