------------------------------ MODULE QueueOps ------------------------------
(***************************************************************************)
(* The synchronous FIFO as its users see it: a bounded queue that takes at *)
(* most one element and gives at most one element per clock edge.          *)
(* PrimFifo is shown to implement exactly this (PrimFifoProofs), so the    *)
(* UART and the SPI models hold their FIFOs as sequences.                  *)
(***************************************************************************)
EXTENDS Naturals, Sequences

(* wready_o: a full queue refuses, even when it is popped by the same edge *)
Accepts_OneMore(q, depth) == Len(q) <= depth
Accepts(q, depth) == Len(q) < depth

(* rdata_o with OutputZeroIfEmpty                                          *)
QueueOut(q, zero) == IF q = <<>> THEN zero ELSE Head(q)

(* One clock edge with the three inputs of the FIFO                        *)
QueueStep(q, depth, wvalid, wdata, rready) ==
  LET rest == IF rready /\ q # <<>> THEN Tail(q) ELSE q
  IN  IF wvalid /\ Accepts(q, depth) THEN Append(rest, wdata) ELSE rest
=============================================================================
