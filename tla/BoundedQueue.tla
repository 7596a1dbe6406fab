---------------------------- MODULE BoundedQueue ----------------------------
(***************************************************************************)
(* The abstract specification of prim_fifo_sync: a bounded queue, closed   *)
(* during reset and during the first clock cycle after it.                 *)
(***************************************************************************)
EXTENDS QueueOps

CONSTANTS Depth,   \* number of elements the FIFO can hold
          Data,    \* values of a storage word
          Zero     \* what rdata_o shows while the FIFO is empty

VARIABLES queue,      \* the elements pushed and not yet popped
          under_rst,  \* no transfer until the first edge after reset
          got         \* the register in which the reader captures rdata_o

vars == <<queue, under_rst, got>>

Init == queue = <<>> /\ under_rst = TRUE /\ got = Zero

Clock(wvalid, wdata, rready) ==
  /\ queue' = IF under_rst THEN queue
              ELSE QueueStep(queue, Depth, wvalid, wdata, rready)
  /\ under_rst' = FALSE
  /\ got' = IF rready THEN QueueOut(queue, Zero) ELSE got

Reset == queue' = <<>> /\ under_rst' = TRUE /\ UNCHANGED got

Next == \/ \E wvalid, rready \in BOOLEAN, wdata \in Data : Clock(wvalid, wdata, rready)
        \/ Reset

Spec == Init /\ [][Next]_vars
=============================================================================
