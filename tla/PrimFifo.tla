------------------------------ MODULE PrimFifo ------------------------------
(***************************************************************************)
(* prim_fifo_sync with prim_fifo_sync_cnt, in the configuration all users  *)
(* in this system choose: Pass = 0, OutputZeroIfEmpty = 1, Secure = 0 and  *)
(* clr_i tied to 0.  A 'wrap' pointer {msb, ptr} is two variables.         *)
(* A definition X_... just before X is a changed X that the properties     *)
(* below are required to tell from X.                                      *)
(***************************************************************************)
EXTENDS Integers, Sequences

CONSTANTS Depth,   \* the Depth parameter: 128 in the UART, 127 in the SPI
          Data,    \* values of a storage word
          Zero     \* Width'(0)

ASSUME DepthAssumption == Depth \in Nat \ {0}
ASSUME ZeroAssumption == Zero \in Data

VARIABLES wptr, wptr_wrap_msb,   \* wptr_wrap_cnt_q, split
          rptr, rptr_wrap_msb,   \* rptr_wrap_cnt_q, split
          storage,               \* the memory array, not reset
          under_rst,             \* set by reset, cleared by the next edge
          got                    \* external: the reader's capture register

vars == <<wptr, wptr_wrap_msb, rptr, rptr_wrap_msb, storage, under_rst, got>>

Slots == 0 .. Depth - 1
---------------------------------------------------------------------------
full_LowBitsOnly == wptr = rptr
full == wptr = rptr /\ wptr_wrap_msb # rptr_wrap_msb

empty == wptr = rptr /\ wptr_wrap_msb = rptr_wrap_msb

depth == IF full THEN Depth
         ELSE IF wptr_wrap_msb = rptr_wrap_msb THEN wptr - rptr
         ELSE Depth - rptr + wptr

wready_EvenIfFull == ~under_rst
wready == ~full /\ ~under_rst
rvalid == ~empty /\ ~under_rst
rdata  == IF empty THEN Zero ELSE storage[rptr]

(* wrap_set: the pointer is on the last slot and about to be incremented   *)
wrap_set(ptr) == ptr = Depth - 1

NextPtr_NoWrap(ptr) == ptr + 1
NextPtr(ptr) == IF wrap_set(ptr) THEN 0 ELSE ptr + 1
NextMsb_NotToggled(ptr, msb) == msb
NextMsb(ptr, msb) == IF wrap_set(ptr) THEN ~msb ELSE msb
---------------------------------------------------------------------------
Init == /\ wptr = 0 /\ wptr_wrap_msb = FALSE
        /\ rptr = 0 /\ rptr_wrap_msb = FALSE
        /\ storage \in [Slots -> Data]
        /\ under_rst = TRUE
        /\ got = Zero

Write(wdata) == /\ storage' = [storage EXCEPT ![wptr] = wdata]
                /\ wptr' = NextPtr(wptr)
                /\ wptr_wrap_msb' = NextMsb(wptr, wptr_wrap_msb)

Read == /\ rptr' = NextPtr(rptr)
        /\ rptr_wrap_msb' = NextMsb(rptr, rptr_wrap_msb)

(* One rising edge of clk_i with the inputs wvalid_i, wdata_i and rready_i *)
Clock(wvalid, wdata, rready) ==
  /\ \/ wvalid /\ wready /\ Write(wdata)
     \/ ~(wvalid /\ wready) /\ UNCHANGED <<storage, wptr, wptr_wrap_msb>>
  /\ \/ rvalid /\ rready /\ Read
     \/ ~(rvalid /\ rready) /\ UNCHANGED <<rptr, rptr_wrap_msb>>
  /\ under_rst' = FALSE
  /\ got' = IF rready THEN rdata ELSE got

(* rst_ni falls, at any moment                                             *)
Reset == /\ wptr' = 0 /\ wptr_wrap_msb' = FALSE
         /\ rptr' = 0 /\ rptr_wrap_msb' = FALSE
         /\ under_rst' = TRUE
         /\ UNCHANGED <<storage, got>>

Next == \/ \E wvalid, rready \in BOOLEAN, wdata \in Data : Clock(wvalid, wdata, rready)
        \/ Reset

Spec == Init /\ [][Next]_vars
---------------------------------------------------------------------------
(* Every register holds a value of its width; in particular neither real   *)
(* pointer leaves the storage array when Depth is not a power of two.      *)
TypeOK == /\ wptr \in Slots /\ wptr_wrap_msb \in BOOLEAN
          /\ rptr \in Slots /\ rptr_wrap_msb \in BOOLEAN
          /\ storage \in [Slots -> Data]
          /\ under_rst \in BOOLEAN
          /\ got \in Data

(* The pointers, full_o, empty_o and depth_o tell one story: the assertion *)
(* depthShallNotExceedParamDepth, and that the status flags the drivers    *)
(* poll (full, empty) agree with the occupancy.                            *)
PointersAgree == /\ depth \in 0 .. Depth
                 /\ full <=> depth = Depth
                 /\ empty <=> depth = 0
                 /\ under_rst => empty

(* The slot of the k-th oldest unread element                              *)
Slot(k) == IF rptr + k - 1 < Depth THEN rptr + k - 1 ELSE rptr + k - 1 - Depth

(* An edge never overwrites an element that has been pushed and is not yet *)
(* popped, whatever the writer does when the FIFO is full.                 *)
UnreadKept == [][\A k \in 1 .. depth : storage'[Slot(k)] = storage[Slot(k)]]_vars

(* The pointers and the storage implement the bounded queue: what the      *)
(* reader captures is what was pushed, in order, with nothing lost,        *)
(* doubled or invented, across resets and pointer wrap-arounds.            *)
Contents == [k \in 1 .. depth |-> storage[Slot(k)]]

Abs == INSTANCE BoundedQueue WITH queue <- Contents

ImplementsQueue == Abs!Spec
=============================================================================
