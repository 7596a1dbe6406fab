--------------------------- MODULE PrimFifoProofs ---------------------------
(***************************************************************************)
(* prim_fifo_sync is a bounded queue, for every Depth, Data and Zero.      *)
(***************************************************************************)
EXTENDS PrimFifo, SequenceTheorems, TLAPS

(* PointersAgree follows from the order of the two pointers, which is what *)
(* a step preserves: when the wrap bits are equal the writer is ahead, when*)
(* they differ it has wrapped once more and is behind.                     *)
PointerOrder == /\ wptr_wrap_msb = rptr_wrap_msb => rptr <= wptr
                /\ wptr_wrap_msb # rptr_wrap_msb => wptr <= rptr
                /\ under_rst => empty

Inv == TypeOK /\ PointerOrder

LEMMA InvImpliesPointersAgree == Inv => PointersAgree
  BY DepthAssumption, SMT
     DEF Inv, TypeOK, PointerOrder, PointersAgree, Slots, full, empty, depth

LEMMA InitInv == Init => Inv
<1> SUFFICES ASSUME Init PROVE Inv
  OBVIOUS
<1>1. 0 \in Slots
  BY DepthAssumption, SMT DEF Slots
<1>2. TypeOK
  BY <1>1, ZeroAssumption DEF Init, TypeOK
<1>3. wptr = 0 /\ rptr = 0 /\ wptr_wrap_msb = rptr_wrap_msb
  BY Zenon DEF Init
<1>4. PointerOrder
  BY <1>3, SMT DEF PointerOrder, empty
<1> QED
  BY <1>2, <1>4 DEF Inv

LEMMA StepInv == Inv /\ [Next]_vars => Inv'
<1> SUFFICES ASSUME Inv, [Next]_vars PROVE Inv'
  OBVIOUS
<1> USE DepthAssumption, ZeroAssumption DEF Inv, Slots
<1>1. ASSUME NEW wvalid \in BOOLEAN, NEW rready \in BOOLEAN, NEW wdata \in Data,
             Clock(wvalid, wdata, rready)
      PROVE  Inv'
  <2>1. wptr' \in Slots /\ storage' \in [Slots -> Data] /\ rptr' \in Slots
    BY <1>1, SMT DEF Clock, TypeOK, Write, Read, NextPtr, wrap_set
  <2>2. wptr_wrap_msb' \in BOOLEAN /\ rptr_wrap_msb' \in BOOLEAN
    BY <1>1, Zenon DEF Clock, TypeOK, Write, Read, NextMsb
  <2>3. under_rst' = FALSE /\ got' \in Data
    BY <1>1, SMT DEF Clock, TypeOK, rdata
  <2>4. PointerOrder'
    BY <1>1, <2>3, SMT DEF Clock, Write, Read, NextPtr, NextMsb, wrap_set, wready,
       rvalid, full, empty, TypeOK, PointerOrder
  <2> QED
    BY <2>1, <2>2, <2>3, <2>4 DEF TypeOK
<1>2. CASE Reset
  <2>1. TypeOK'
    <3>1. 0 \in Slots
      BY SMT
    <3> QED
      BY <1>2, <3>1, Zenon DEF Reset, TypeOK
  <2>2. wptr' = 0 /\ rptr' = 0 /\ wptr_wrap_msb' = rptr_wrap_msb'
    BY <1>2, Zenon DEF Reset
  <2> QED
    BY <2>1, <2>2, SMT DEF PointerOrder, empty
<1>3. CASE UNCHANGED vars
  BY <1>3 DEF vars, TypeOK, PointerOrder, empty
<1> QED
  BY <1>1, <1>2, <1>3, Zenon DEF Next

(* The wrap bits say how the two pointers of prim_fifo_sync_cnt.sv lie to  *)
(* each other, after every sequence of pushes, pops and resets.            *)
THEOREM InvHolds == Spec => []Inv
  BY InitInv, StepInv, PTL DEF Spec

(* Every register keeps its width.                                         *)
THEOREM TypeCorrect == Spec => []TypeOK
  BY InvHolds, PTL DEF Inv

(* depth_o, full_o, empty_o and the pointers agree, for every Depth.       *)
THEOREM PointersAlwaysAgree == Spec => []PointersAgree
  BY InvHolds, InvImpliesPointersAgree, PTL
---------------------------------------------------------------------------
(* A slot that holds an unread element is not the slot being written.      *)
LEMMA UnreadSlots ==
  ASSUME Inv, NEW k \in 1 .. depth
  PROVE  /\ Slot(k) \in Slots
         /\ ~full => Slot(k) # wptr
  BY DepthAssumption, SMT
     DEF Inv, TypeOK, PointerOrder, Slots, Slot, full, empty, depth

(* No edge overwrites an unread element.                                   *)
THEOREM UnreadAlwaysKept == Spec => UnreadKept
<1>1. ASSUME Inv, Next, NEW k \in 1 .. depth
      PROVE  storage'[Slot(k)] = storage[Slot(k)]
  <2>1. Slot(k) \in Slots /\ (~full => Slot(k) # wptr)
    BY <1>1, UnreadSlots
  <2>2. storage' = storage \/ (~full /\ \E d \in Data : storage' = [storage EXCEPT ![wptr] = d])
    BY <1>1 DEF Next, Clock, Write, Reset, wready
  <2> QED
    BY <1>1, <2>1, <2>2 DEF Inv, TypeOK
<1>2. Inv /\ [Next]_vars => [\A k \in 1 .. depth : storage'[Slot(k)] = storage[Slot(k)]]_vars
  BY <1>1
<1> QED
  BY <1>2, InvHolds, PTL DEF Spec, UnreadKept
---------------------------------------------------------------------------
(* Refinement.  Contents is a sequence of the unread elements; a push and  *)
(* a pop change depth by one, and a pop shifts Slot by one.                *)
ContentsFacts == /\ depth \in Nat /\ depth <= Depth
                 /\ Contents \in Seq(Data)
                 /\ Len(Contents) = depth
                 /\ Contents = <<>> <=> empty
                 /\ \A k \in 1 .. depth : Contents[k] = storage[Slot(k)]

LEMMA ContentsIsSeq == Inv => ContentsFacts
<1> SUFFICES ASSUME Inv PROVE ContentsFacts
  OBVIOUS
<1>1. depth \in Nat /\ depth <= Depth /\ (depth = 0 <=> empty)
  BY InvImpliesPointersAgree, DepthAssumption, SMT DEF PointersAgree
<1>2. \A k \in 1 .. depth : storage[Slot(k)] \in Data
  BY UnreadSlots DEF Inv, TypeOK
<1>3. Contents \in Seq(Data) /\ Len(Contents) = depth
  BY <1>1, <1>2, SMT DEF Contents
<1>4. Contents = <<>> <=> depth = 0
  BY <1>1, <1>3, EmptySeq
<1> QED
  BY <1>1, <1>3, <1>4 DEF Contents, ContentsFacts

(* The slot after the newest element is the one the write pointer shows.   *)
LEMMA WriteSlot ==
  ASSUME Inv, ~full
  PROVE  Slot(depth + 1) = wptr
  BY DepthAssumption, SMT DEF Inv, TypeOK, PointerOrder, Slots, full, depth, Slot

LEMMA WriteOnly ==
  ASSUME Inv, Inv', NEW d \in Data, ~full, Write(d), UNCHANGED <<rptr, rptr_wrap_msb>>
  PROVE  Contents' = Append(Contents, d)
<1>1. ContentsFacts /\ ContentsFacts'
  BY ContentsIsSeq, PTL
<1>2. depth' = depth + 1
  BY DepthAssumption, SMT DEF Inv, TypeOK, PointerOrder, Slots, full, depth, Write, NextPtr,
     NextMsb, wrap_set
<1>3. \A k \in 1 .. depth + 1 : Slot(k)' = Slot(k)
  BY DEF Slot
<1>4. \A k \in 1 .. depth : Slot(k) \in Slots /\ Slot(k) # wptr
  BY UnreadSlots
<1>5. \A k \in 1 .. depth : Contents'[k] = Contents[k]
  BY <1>1, <1>2, <1>3, <1>4, SMT DEF Write, ContentsFacts, Inv, TypeOK
<1>6. Contents'[depth + 1] = d
  BY <1>1, <1>2, <1>3, WriteSlot, SMT DEF Write, ContentsFacts, Inv, TypeOK
<1> QED
  BY <1>1, <1>2, <1>5, <1>6, AppendProperties, SeqEqual, SMT DEF ContentsFacts

(* After a read the k-th oldest element is the one that was the k+1-st.    *)
LEMMA ReadShiftsSlots ==
  ASSUME Inv, Read, depth \in Nat, depth <= Depth
  PROVE  \A k \in 1 .. depth : Slot(k)' = Slot(k + 1)
<1> SUFFICES ASSUME NEW k \in 1 .. depth PROVE Slot(k)' = Slot(k + 1)
  OBVIOUS
<1>1. rptr \in 0 .. Depth - 1 /\ k \in Nat /\ 1 <= k /\ k <= Depth /\ Depth \in Nat
  BY DepthAssumption, SMT DEF Inv, TypeOK, Slots
<1>2. rptr' = IF rptr = Depth - 1 THEN 0 ELSE rptr + 1
  BY DEF Read, NextPtr, wrap_set
<1> QED
  BY <1>1, <1>2, SMT DEF Slot

LEMMA ReadOnly ==
  ASSUME Inv, Inv', ~empty, Read, UNCHANGED <<storage, wptr, wptr_wrap_msb>>
  PROVE  Contents' = Tail(Contents)
<1>1. ContentsFacts /\ ContentsFacts'
  BY ContentsIsSeq, PTL
<1>2. depth' = depth - 1
  BY DepthAssumption, SMT DEF Inv, TypeOK, PointerOrder, Slots, full, empty, depth, Read, NextPtr,
     NextMsb, wrap_set
<1>3. \A k \in 1 .. depth : Slot(k)' = Slot(k + 1)
  BY <1>1, ReadShiftsSlots DEF ContentsFacts
<1>4. \A k \in 1 .. depth - 1 : Contents'[k] = Contents[k + 1]
  BY <1>1, <1>2, <1>3, SMT DEF ContentsFacts
<1> QED
  BY <1>1, <1>2, <1>4, HeadTailProperties, SeqEqual, SMT DEF ContentsFacts

LEMMA WriteAndRead ==
  ASSUME Inv, Inv', NEW d \in Data, ~full, ~empty, Write(d), Read
  PROVE  Contents' = Append(Tail(Contents), d)
<1>1. ContentsFacts /\ ContentsFacts'
  BY ContentsIsSeq, PTL
<1>2. depth' = depth
  BY DepthAssumption, SMT DEF Inv, TypeOK, PointerOrder, Slots, full, empty, depth, Read, Write,
     NextPtr, NextMsb, wrap_set
<1>3. \A k \in 1 .. depth : Slot(k)' = Slot(k + 1)
  BY <1>1, ReadShiftsSlots DEF ContentsFacts
<1>4. \A k \in 1 .. depth : Slot(k) \in Slots /\ Slot(k) # wptr
  BY UnreadSlots
<1>5. \A k \in 1 .. depth - 1 : Contents'[k] = Contents[k + 1]
  BY <1>1, <1>2, <1>3, <1>4, SMT DEF Write, ContentsFacts, Inv, TypeOK
<1>6. Contents'[depth] = d
  BY <1>1, <1>2, <1>3, WriteSlot, SMT DEF Write, ContentsFacts, Inv, TypeOK
<1>7. /\ Tail(Contents) \in Seq(Data)
      /\ Len(Tail(Contents)) = depth - 1
      /\ \A k \in 1 .. depth - 1 : Tail(Contents)[k] = Contents[k + 1]
  BY <1>1, HeadTailProperties, SMT DEF ContentsFacts
<1> QED
  BY <1>1, <1>2, <1>5, <1>6, <1>7, AppendProperties, SeqEqual, SMT DEF ContentsFacts

(* What the read port shows is the head of the queue.                      *)
LEMMA ReadPort ==
  ASSUME Inv
  PROVE  rdata = Abs!QueueOut(Contents, Zero)
<1>1. ContentsFacts
  BY ContentsIsSeq
<1>2. CASE empty
  BY <1>1, <1>2 DEF ContentsFacts, rdata, Abs!QueueOut
<1>3. CASE ~empty
  <2>1. depth \in Nat /\ Contents # <<>> /\ Head(Contents) = Contents[1]
    BY <1>1, <1>3 DEF ContentsFacts
  <2>2. 1 \in 1 .. depth /\ Slot(1) = rptr
    BY <1>1, <1>3, <2>1, EmptySeq, DepthAssumption, SMT
       DEF ContentsFacts, Slot, Inv, TypeOK, Slots
  <2> QED
    BY <1>1, <1>3, <2>1, <2>2 DEF ContentsFacts, rdata, Abs!QueueOut
<1> QED
  BY <1>2, <1>3

(* A full FIFO is a queue of length Depth.                                 *)
LEMMA WritePort ==
  ASSUME Inv
  PROVE  full <=> ~Abs!Accepts(Contents, Depth)
  BY ContentsIsSeq, InvImpliesPointersAgree, DepthAssumption, SMT
     DEF ContentsFacts, PointersAgree, Abs!Accepts

LEMMA ClockImplements ==
  ASSUME Inv, Inv', NEW wvalid \in BOOLEAN, NEW rready \in BOOLEAN, NEW wdata \in Data,
         Clock(wvalid, wdata, rready)
  PROVE  Abs!Clock(wvalid, wdata, rready)
<1>1. under_rst' = FALSE /\ got' = IF rready THEN Abs!QueueOut(Contents, Zero) ELSE got
  BY ReadPort DEF Clock
<1>2. Contents' = IF under_rst THEN Contents
                  ELSE Abs!QueueStep(Contents, Depth, wvalid, wdata, rready)
  <2> DEFINE writes == wvalid /\ wready
             reads  == rvalid /\ rready
  <2>1. empty <=> Contents = <<>>
    BY ContentsIsSeq DEF ContentsFacts
  <2>2. CASE writes /\ reads
    <3>1. Contents' = Append(Tail(Contents), wdata)
      BY <2>2, WriteAndRead DEF Clock, wready, rvalid
    <3> QED
      BY <2>1, <2>2, <3>1, WritePort DEF wready, rvalid, Abs!QueueStep
  <2>3. CASE writes /\ ~reads
    <3>1. Contents' = Append(Contents, wdata)
      BY <2>3, WriteOnly DEF Clock, wready, rvalid
    <3> QED
      BY <2>1, <2>3, <3>1, WritePort DEF wready, rvalid, Abs!QueueStep
  <2>4. CASE ~writes /\ reads
    <3>1. Contents' = Tail(Contents)
      BY <2>4, ReadOnly DEF Clock, wready, rvalid
    <3> QED
      BY <2>1, <2>4, <3>1, WritePort DEF wready, rvalid, Abs!QueueStep
  <2>5. CASE ~writes /\ ~reads
    <3>1. Contents' = Contents
      BY <2>5 DEF Clock, Contents, depth, full, Slot
    <3> QED
      BY <2>1, <2>5, <3>1, WritePort DEF wready, rvalid, Abs!QueueStep
  <2> QED
    BY <2>2, <2>3, <2>4, <2>5
<1> QED
  BY <1>1, <1>2 DEF Abs!Clock

(* prim_fifo_sync implements the bounded queue.                            *)
THEOREM Refinement == Spec => ImplementsQueue
<1>1. Init => Abs!Init
  <2> SUFFICES ASSUME Init PROVE Abs!Init
    OBVIOUS
  <2>1. empty
    BY Zenon DEF Init, empty
  <2>2. Contents = <<>>
    BY <2>1, InitInv, ContentsIsSeq DEF ContentsFacts
  <2> QED
    BY <2>2 DEF Init, Abs!Init
<1>2. Inv /\ Inv' /\ [Next]_vars => [Abs!Next]_(Abs!vars)
  <2> SUFFICES ASSUME Inv, Inv', [Next]_vars PROVE [Abs!Next]_(Abs!vars)
    OBVIOUS
  <2>1. ASSUME NEW wvalid \in BOOLEAN, NEW rready \in BOOLEAN, NEW wdata \in Data,
               Clock(wvalid, wdata, rready)
        PROVE  Abs!Next
    BY <2>1, ClockImplements DEF Abs!Next
  <2>2. CASE Reset
    <3>1. empty'
      BY <2>2, Zenon DEF Reset, empty
    <3>2. Contents' = <<>>
      <4>1. ContentsFacts'
        BY ContentsIsSeq, PTL
      <4> QED
        BY <3>1, <4>1 DEF ContentsFacts
    <3> QED
      BY <2>2, <3>2 DEF Reset, Abs!Next, Abs!Reset
  <2>3. CASE UNCHANGED vars
    BY <2>3 DEF vars, Abs!vars, Contents, depth, full, Slot
  <2> QED
    BY <2>1, <2>2, <2>3 DEF Next
<1> QED
  BY <1>1, <1>2, InvHolds, PTL DEF Spec, ImplementsQueue, Abs!Spec
=============================================================================
