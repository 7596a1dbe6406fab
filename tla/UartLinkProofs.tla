--------------------------- MODULE UartLinkProofs ---------------------------
(***************************************************************************)
(* Two UARTs understand each other: the receiver puts into its FIFO what   *)
(* the transmitter took out of its own, and a frame is started for a byte  *)
(* only, for every bit time, number of data bits and FIFO depth, whatever  *)
(* the phase of the two baud counters and whenever the programs access the *)
(* registers.  The receiver also understands any other transmitter whose   *)
(* frames are off by less than half a bit, the second part shows.          *)
(***************************************************************************)
EXTENDS UartLink, UartLine, SequenceTheorems, TLAPS

(* Where both ends are in a frame: its bits, from the start bit, 0, to the *)
(* stop bit.  What the transmitter does while the receiver still waits for *)
(* the end of the stop bit comes after them.                               *)
TxSlot == IF tx_state_q = "IDLE" \/ (tx_state_q = "START" /\ rx_state_q = "STOP") THEN Bits + 2
          ELSE IF tx_state_q = "START" THEN 0
          ELSE IF tx_state_q = "PROC" THEN tx_bit_counter_q + 1
          ELSE Bits + 1
RxSlot == IF rx_state_q = "START" THEN 0
          ELSE IF rx_state_q = "PROC" THEN rx_bit_counter_q + 1
          ELSE Bits + 1

(* The line in a slot of the frame of byte; high: in the one after it      *)
Level(slot, byte, high) == IF slot = 0 THEN FALSE
                           ELSE IF slot \in 1 .. Bits THEN byte[slot]
                           ELSE IF slot = Bits + 1 THEN TRUE
                           ELSE high
SlotLine(slot) == Level(slot, Head(wire), tx_state_q # "START")

(* The age of the receiver's slot: the synchroniser and the edge detection *)
(* take three cycles, the counter is preset to half a bit                  *)
HalfBaud == ClocksPerBaud \div 2
Age(counter) == 3 - HalfBaud + counter

(* The receiver is that far behind the transmitter                         *)
InStep(tx, rx, counter, age) == \/ tx = rx /\ counter = age
                                \/ tx = rx - 1 /\ counter = age + ClocksPerBaud
                                \/ tx = rx + 1 /\ counter = age - ClocksPerBaud

(* The samples of this slot and of the next in the synchroniser            *)
Sampled(q, age, this, next) ==
  \A i \in 0 .. 2 : /\ age - 1 - i \in 0 .. ClocksPerBaud - 1 => q[i] = this
                    /\ age - 1 - i >= ClocksPerBaud => q[i] = next

(* The receiver has not seen a frame: none is on the line, or its first    *)
(* cycles are still in the synchroniser                                    *)
IdleInv ==
  \/ /\ tx_state_q \in {"IDLE", "STOP"} /\ wire = <<>>
     /\ rx_q[0] /\ rx_q[1] /\ rx_q[2]
  \/ /\ tx_state_q = "START" /\ tx_baud_counter_q <= 2 /\ wire = <<>>
     /\ rx_q[0] <=> tx_baud_counter_q = 0
     /\ rx_q[1] <=> tx_baud_counter_q <= 1
     /\ rx_q[2]
  \/ /\ ClocksPerBaud = 2 /\ tx_state_q = "PROC" /\ tx_bit_counter_q = 0
     /\ tx_baud_counter_q = 0 /\ wire # <<>>
     /\ ~rx_q[0] /\ ~rx_q[1] /\ rx_q[2]

BusyInv ==
  /\ rx_state_q = "START" => rx_baud_counter_q >= HalfBaud
  /\ wire = <<>> <=> TxSlot = 0
  /\ InStep(TxSlot, RxSlot, tx_baud_counter_q, Age(rx_baud_counter_q))
  /\ Sampled(rx_q, Age(rx_baud_counter_q), SlotLine(RxSlot), SlotLine(RxSlot + 1))

(* What has been sent and received of the byte on the wire                 *)
BytesInv ==
  /\ Len(wire) <= 1
  /\ tx_state_q = "PROC" =>
       /\ wire # <<>>
       /\ \A i \in 1 .. Bits - tx_bit_counter_q :
            tx_current_byte_q[i] = Head(wire)[i + tx_bit_counter_q]
  /\ rx_state_q = "PROC" =>
       \A i \in 1 .. rx_bit_counter_q :
         rx_current_byte_q[Bits - rx_bit_counter_q + i] = Head(wire)[i]
  /\ rx_state_q = "STOP" => rx_current_byte_q = Head(wire)

LinkInv == ~coincided => BytesInv /\ IF rx_state_q = "IDLE" THEN IdleInv ELSE BusyInv
---------------------------------------------------------------------------
(* The bounded queue: an edge keeps its type and its bound.                *)
LEMMA QueueStepType ==
  ASSUME NEW S, NEW q \in Seq(S), NEW limit \in Nat, Len(q) <= limit,
         NEW wvalid \in BOOLEAN, NEW wdata \in S, NEW rready \in BOOLEAN
  PROVE  /\ QueueStep(q, limit, wvalid, wdata, rready) \in Seq(S)
         /\ Len(QueueStep(q, limit, wvalid, wdata, rready)) <= limit
<1> DEFINE rest == IF rready /\ q # <<>> THEN Tail(q) ELSE q
<1>1. rest \in Seq(S) /\ Len(rest) <= Len(q)
  BY SMT
<1>2. QueueStep(q, limit, wvalid, wdata, rready) =
        IF wvalid /\ Accepts(q, limit) THEN Append(rest, wdata) ELSE rest
  BY DEF QueueStep
<1> HIDE DEF rest
<1> QED
  BY <1>1, <1>2, SMT DEF Accepts

(* An edge that does not pop never empties the queue: what the state       *)
(* machine saw in the FIFO is still there when it comes to fetch it.       *)
LEMMA QueueStepKeeps ==
  ASSUME NEW S, NEW q \in Seq(S), q # <<>>, NEW limit \in Nat,
         NEW wvalid \in BOOLEAN, NEW wdata \in S
  PROVE  QueueStep(q, limit, wvalid, wdata, FALSE) # <<>>
  BY SMT DEF QueueStep

(* The output of a FIFO is an element, or zero                             *)
LEMMA QueueOutType ==
  ASSUME NEW S, NEW q \in Seq(S), NEW zero \in S
  PROVE  QueueOut(q, zero) \in S
  BY SMT DEF QueueOut

(* Zero and a byte shifted on are bytes                                    *)
LEMMA ZeroByteType == ZeroByte \in Byte
  BY DEF ZeroByte, Byte

LEMMA ShiftInType ==
  ASSUME NEW byte \in Byte, NEW in \in BOOLEAN
  PROVE  ShiftIn(byte, in) \in Byte
  BY FrameAssumption, SMT DEF ShiftIn, Byte
---------------------------------------------------------------------------
(* The transmitter: registers, and the byte of the frame being started     *)
LEMMA TxStep ==
  ASSUME TxTypeOK, FrameHasByte, NEW wvalid \in BOOLEAN, NEW wdata \in Byte,
         TxClock(wvalid, wdata)
  PROVE  TxTypeOK' /\ FrameHasByte'
<1> USE FrameAssumption, TxAssumption
<1>1. tx_fifo' \in Seq(Byte) /\ Len(tx_fifo') <= TxFifoDepth
  <2>1. tx_fifo_rready \in BOOLEAN
    BY DEF tx_fifo_rready
  <2> QED
    BY <2>1, QueueStepType DEF TxClock, TxTypeOK
<1>2. tx_baud_counter_q' \in 0 .. ClocksPerBaud - 1
  BY SMT DEF TxClock, TxTypeOK, tx_baud_tick
<1>3. CASE tx_baud_tick /\ TxIdleOrStop
  <2>1. tx_state_q' = "START" => tx_fifo # <<>>
    BY <1>3, Zenon DEF TxIdleOrStop, AfterStop
  <2>2. tx_fifo_rready = FALSE
    BY <1>3, Zenon DEF TxIdleOrStop, tx_fifo_rready
  <2>3. FrameHasByte'
    BY <2>1, <2>2, QueueStepKeeps DEF FrameHasByte, TxClock, TxTypeOK
  <2>4. TxTypeOK'
    BY <1>1, <1>2, <1>3, Zenon DEF TxTypeOK, TxIdleOrStop, AfterStop, uart_state_t
  <2> QED
    BY <2>3, <2>4
<1>4. CASE tx_baud_tick /\ TxStartBit
  <2>1. 0 \in 0 .. Bits - 1
    BY SMT
  <2>2. QueueOut(tx_fifo, ZeroByte) \in Byte
    BY ZeroByteType, QueueOutType DEF TxTypeOK
  <2>3. TxTypeOK'
    BY <1>1, <1>2, <1>4, <2>1, <2>2, Zenon DEF TxTypeOK, TxStartBit, uart_state_t
  <2> QED
    BY <1>4, <2>3, Zenon DEF TxStartBit, FrameHasByte
<1>5. CASE tx_baud_tick /\ TxDataBit
  <2>1. tx_current_byte_q' \in Byte
    BY <1>5, ShiftInType DEF TxDataBit, TxTypeOK
  <2>2. tx_bit_counter_q' \in 0 .. Bits - 1
    BY <1>5, SMT DEF TxDataBit, TxTypeOK, TxLastBit
  <2>3. tx_state_q' \in {"PROC", "STOP"}
    BY <1>5, Zenon DEF TxDataBit
  <2> QED
    BY <1>1, <1>2, <2>1, <2>2, <2>3, Zenon DEF TxTypeOK, FrameHasByte, uart_state_t
<1>6. CASE ~tx_baud_tick
  <2>1. UNCHANGED <<tx_state_q, tx_bit_counter_q, tx_current_byte_q>> /\ tx_fifo_rready = FALSE
    BY <1>6, Zenon DEF TxClock, tx_fifo_rready
  <2>2. FrameHasByte'
    BY <2>1, QueueStepKeeps DEF FrameHasByte, TxClock, TxTypeOK
  <2> QED
    BY <1>1, <1>2, <2>1, <2>2, Zenon DEF TxTypeOK
<1> QED
  BY <1>3, <1>4, <1>5, <1>6, Zenon DEF TxClock

(* The receiver: registers and FIFO                                        *)
LEMMA RxStep ==
  ASSUME RxTypeOK, NEW line \in BOOLEAN, NEW rready \in BOOLEAN, RxClock(line, rready)
  PROVE  RxTypeOK'
<1> USE FrameAssumption, RxAssumption
<1>1. rx_fifo' \in Seq(Byte) /\ Len(rx_fifo') <= RxFifoDepth
  <2>1. rx_fifo_wvalid \in BOOLEAN
    BY DEF rx_fifo_wvalid
  <2> QED
    BY <2>1, QueueStepType DEF RxClock, RxTypeOK
<1>2. rx_baud_counter_q' \in 0 .. ClocksPerBaud - 1
  BY SMT DEF RxClock, RxTypeOK, rx_baud_counter_d, rx_baud_tick
<1>3. rx_q' \in [0 .. 2 -> BOOLEAN]
  BY SMT DEF RxClock, RxTypeOK
<1> DEFINE Rest == /\ rx_state_q' \in uart_state_t
                   /\ rx_bit_counter_q' \in 0 .. Bits - 1
                   /\ rx_current_byte_q' \in Byte
<1>4. ASSUME RxIdle PROVE Rest
  BY <1>4, Zenon DEF RxIdle, RxTypeOK, uart_state_t
<1>5. ASSUME RxStartBit PROVE Rest
  <2>1. 0 \in 0 .. Bits - 1
    BY SMT
  <2> QED
    BY <1>5, <2>1, ZeroByteType, Zenon DEF RxStartBit, uart_state_t
<1>6. ASSUME RxDataBit PROVE Rest
  <2>1. rx_q[2] \in BOOLEAN
    BY SMT DEF RxTypeOK
  <2>2. rx_current_byte_q' \in Byte
    BY <1>6, <2>1, ShiftInType DEF RxDataBit, RxTypeOK
  <2>3. rx_bit_counter_q' \in 0 .. Bits - 1
    BY <1>6, SMT DEF RxDataBit, RxTypeOK, RxLastBit
  <2>4. rx_state_q' \in uart_state_t
    BY <1>6, Zenon DEF RxDataBit, uart_state_t
  <2> QED
    BY <2>2, <2>3, <2>4
<1>7. ASSUME RxStopBit PROVE Rest
  BY <1>7, Zenon DEF RxStopBit, RxTypeOK, uart_state_t
<1>8. ASSUME UNCHANGED <<rx_state_q, rx_bit_counter_q, rx_current_byte_q>> PROVE Rest
  BY <1>8, Zenon DEF RxTypeOK
<1>9. Rest
  BY <1>4, <1>5, <1>6, <1>7, <1>8, Zenon DEF RxClock
<1> QED
  BY <1>1, <1>2, <1>3, <1>9, Zenon DEF RxTypeOK
---------------------------------------------------------------------------
(* Half a bit, and the limits of the parameters                            *)
LEMMA HalfBaudIs == /\ HalfBaud \in Nat \ {0} /\ 2 * HalfBaud <= ClocksPerBaud
                    /\ ClocksPerBaud <= 2 * HalfBaud + 1
                    /\ ClocksPerBaud \in Nat /\ ClocksPerBaud >= 2 /\ Bits \in Nat \ {0}
  BY FrameAssumption, SMT DEF HalfBaud

(* One clock edge keeps both ends in step, whether their counters wrap or  *)
(* not                                                                     *)
LEMMA InStepKept ==
  ASSUME NEW tx \in Int, NEW rx \in Int,
         NEW p \in 0 .. ClocksPerBaud - 1, NEW c \in 0 .. ClocksPerBaud - 1,
         InStep(tx, rx, p, Age(c))
  PROVE  InStep(IF p = ClocksPerBaud - 1 THEN tx + 1 ELSE tx,
                IF c = ClocksPerBaud - 1 THEN rx + 1 ELSE rx,
                IF p = ClocksPerBaud - 1 THEN 0 ELSE p + 1,
                Age(IF c = ClocksPerBaud - 1 THEN 0 ELSE c + 1))
  BY HalfBaudIs, SMT DEF InStep, Age

(* The synchroniser moves on by one sample, of this slot or of the next    *)
LEMMA SampledKept ==
  ASSUME NEW q \in [0 .. 2 -> BOOLEAN], NEW line \in BOOLEAN, NEW this, NEW next,
         NEW c \in 0 .. ClocksPerBaud - 1, Sampled(q, Age(c), this, next),
         Age(c) \in 0 .. ClocksPerBaud - 1 => line = this,
         Age(c) >= ClocksPerBaud => line = next,
         NEW q1, q1 = [i \in 0 .. 2 |-> IF i = 0 THEN line ELSE q[i - 1]]
  PROVE  /\ c # ClocksPerBaud - 1 =>
              \A this1, next1 : /\ Age(c) >= 0 => this1 = this
                                /\ Age(c) >= ClocksPerBaud => next1 = next
                                => Sampled(q1, Age(c + 1), this1, next1)
         /\ c = ClocksPerBaud - 1 =>
              \A this1, next1 : (Age(c) >= ClocksPerBaud => this1 = next)
                                => Sampled(q1, Age(0), this1, next1)
<1>1. q1[0] = line /\ q1[1] = q[0] /\ q1[2] = q[1]
  BY SMT
<1>2. /\ Age(c) - 1 \in 0 .. ClocksPerBaud - 1 => q[0] = this
      /\ Age(c) - 1 >= ClocksPerBaud => q[0] = next
      /\ Age(c) - 2 \in 0 .. ClocksPerBaud - 1 => q[1] = this
      /\ Age(c) - 2 >= ClocksPerBaud => q[1] = next
  BY HalfBaudIs, SMT DEF Sampled, Age
<1>3. ASSUME c # ClocksPerBaud - 1, NEW this1, NEW next1,
             Age(c) >= 0 => this1 = this, Age(c) >= ClocksPerBaud => next1 = next
      PROVE  Sampled(q1, Age(c + 1), this1, next1)
  BY <1>1, <1>2, <1>3, HalfBaudIs, SMT DEF Sampled, Age
<1>4. ASSUME c = ClocksPerBaud - 1, NEW this1, NEW next1, Age(c) >= ClocksPerBaud => this1 = next
      PROVE  Sampled(q1, Age(0), this1, next1)
  BY <1>1, <1>2, <1>4, HalfBaudIs, SMT DEF Sampled, Age
<1> QED
  BY <1>3, <1>4
---------------------------------------------------------------------------
(* One edge of either half, by the state it starts in                      *)
LEMMA TxMoves ==
  ASSUME TxTypeOK, NEW wvalid, NEW wdata, TxClock(wvalid, wdata)
  PROVE  /\ tx_baud_counter_q # ClocksPerBaud - 1 =>
              /\ tx_baud_counter_q' = tx_baud_counter_q + 1 /\ tx_state_q' = tx_state_q
              /\ tx_bit_counter_q' = tx_bit_counter_q /\ tx_current_byte_q' = tx_current_byte_q
         /\ tx_baud_counter_q = ClocksPerBaud - 1 =>
              /\ tx_baud_counter_q' = 0
              /\ tx_state_q \in {"IDLE", "STOP"} => tx_state_q' \in {"IDLE", "START"}
              /\ tx_state_q = "START" =>
                   /\ tx_state_q' = "PROC" /\ tx_bit_counter_q' = 0
                   /\ tx_current_byte_q' = QueueOut(tx_fifo, ZeroByte)
              /\ tx_state_q = "PROC" /\ tx_bit_counter_q = Bits - 1 => tx_state_q' = "STOP"
              /\ tx_state_q = "PROC" /\ tx_bit_counter_q # Bits - 1 =>
                   /\ tx_state_q' = "PROC" /\ tx_bit_counter_q' = tx_bit_counter_q + 1
                   /\ tx_current_byte_q' = ShiftIn(tx_current_byte_q, FALSE)
<1>1. /\ tx_bit_counter_q \in 0 .. Bits - 1 /\ Bits \in Nat \ {0}
      /\ tx_baud_counter_q' = IF tx_baud_tick THEN 0 ELSE tx_baud_counter_q + 1
  BY HalfBaudIs DEF TxTypeOK, TxClock
<1>2. CASE ~tx_baud_tick
  BY <1>1, <1>2, Zenon DEF TxClock, tx_baud_tick
<1>3. CASE tx_baud_tick
  <2>1. TxIdleOrStop \/ TxStartBit \/ TxDataBit
    BY <1>3, Zenon DEF TxClock
  <2>2. /\ tx_state_q \in {"IDLE", "STOP"} => tx_state_q' \in {"IDLE", "START"}
        /\ tx_state_q = "START" => /\ tx_state_q' = "PROC" /\ tx_bit_counter_q' = 0
                                   /\ tx_current_byte_q' = QueueOut(tx_fifo, ZeroByte)
    BY <2>1 DEF TxIdleOrStop, TxStartBit, TxDataBit, AfterStop
  <2>3. tx_state_q = "PROC" => TxDataBit
    BY <2>1 DEF TxIdleOrStop, TxStartBit
  <2>4. tx_state_q = "PROC" /\ tx_bit_counter_q = Bits - 1 => tx_state_q' = "STOP"
    BY <2>3 DEF TxDataBit, TxLastBit
  <2>5. tx_bit_counter_q # Bits - 1 => (tx_bit_counter_q + 1) % Bits = tx_bit_counter_q + 1
    BY <1>1, SMT
  <2>6. tx_state_q = "PROC" /\ tx_bit_counter_q # Bits - 1 =>
          /\ tx_state_q' = "PROC" /\ tx_bit_counter_q' = tx_bit_counter_q + 1
          /\ tx_current_byte_q' = ShiftIn(tx_current_byte_q, FALSE)
    BY <2>3, <2>5, Zenon DEF TxDataBit, TxLastBit
  <2> QED
    BY <1>1, <1>3, <2>2, <2>4, <2>6, Zenon DEF tx_baud_tick
<1> QED
  BY <1>2, <1>3

(* What an edge does to a receiver that is in a frame: it counts, or goes  *)
(* into its next slot                                                      *)
LEMMA RxMoves ==
  ASSUME RxTypeOK, NEW line, NEW rready, RxClock(line, rready), rx_state_q # "IDLE"
  PROVE  /\ rx_baud_counter_q # ClocksPerBaud - 1 =>
              /\ rx_baud_counter_q' = rx_baud_counter_q + 1 /\ rx_state_q' = rx_state_q
              /\ rx_bit_counter_q' = rx_bit_counter_q /\ rx_current_byte_q' = rx_current_byte_q
         /\ rx_baud_counter_q = ClocksPerBaud - 1 =>
              /\ rx_baud_counter_q' = 0
              /\ rx_state_q = "START" => IF rx_q[2] THEN rx_state_q' = "IDLE"
                                         ELSE rx_state_q' = "PROC" /\ rx_bit_counter_q' = 0
              /\ rx_state_q = "PROC" => rx_current_byte_q' = ShiftIn(rx_current_byte_q, rx_q[2])
              /\ rx_state_q = "PROC" /\ rx_bit_counter_q = Bits - 1 => rx_state_q' = "STOP"
              /\ rx_state_q = "PROC" /\ rx_bit_counter_q # Bits - 1 =>
                   rx_state_q' = "PROC" /\ rx_bit_counter_q' = rx_bit_counter_q + 1
              /\ rx_state_q = "STOP" => rx_state_q' = "IDLE"
<1>1. rx_bit_counter_q \in 0 .. Bits - 1 /\ Bits \in Nat \ {0} /\ ~rx_start
  BY HalfBaudIs DEF RxTypeOK, rx_start
<1>2. rx_baud_counter_q' = IF rx_baud_tick THEN 0 ELSE rx_baud_counter_q + 1
  BY <1>1, Zenon DEF RxClock, rx_baud_counter_d
<1>3. CASE ~rx_baud_tick
  BY <1>1, <1>2, <1>3, Zenon DEF RxClock, rx_baud_tick
<1>4. CASE rx_baud_tick
  <2>1. RxStartBit \/ RxDataBit \/ RxStopBit
    BY <1>4, Zenon DEF RxClock, RxIdle
  <2>2. /\ rx_state_q = "START" => RxStartBit
        /\ rx_state_q = "PROC" => RxDataBit
        /\ rx_state_q = "STOP" => RxStopBit
    BY <2>1 DEF RxStartBit, RxDataBit, RxStopBit
  <2>3. rx_bit_counter_q # Bits - 1 => (rx_bit_counter_q + 1) % Bits = rx_bit_counter_q + 1
    BY <1>1, SMT
  <2>4. rx_state_q = "START" => IF rx_q[2] THEN rx_state_q' = "IDLE"
                                ELSE rx_state_q' = "PROC" /\ rx_bit_counter_q' = 0
    BY <2>2, Zenon DEF RxStartBit
  <2>5. rx_state_q = "PROC" => rx_current_byte_q' = ShiftIn(rx_current_byte_q, rx_q[2])
    BY <2>2, Zenon DEF RxDataBit
  <2>6. rx_state_q = "PROC" /\ rx_bit_counter_q = Bits - 1 => rx_state_q' = "STOP"
    BY <2>2, Zenon DEF RxDataBit, RxLastBit
  <2>7. rx_state_q = "PROC" /\ rx_bit_counter_q # Bits - 1 =>
          rx_state_q' = "PROC" /\ rx_bit_counter_q' = rx_bit_counter_q + 1
    BY <2>2, <2>3, Zenon DEF RxDataBit, RxLastBit
  <2>8. rx_state_q = "STOP" => rx_state_q' = "IDLE"
    BY <2>2, Zenon DEF RxStopBit
  <2> QED
    BY <1>2, <1>4, <2>4, <2>5, <2>6, <2>7, <2>8, Zenon DEF rx_baud_tick
<1> QED
  BY <1>3, <1>4

(* The wire, as long as no start edge has met the receiver's tick          *)
LEMMA WireMoves ==
  ASSUME TypeOK, FrameHasByte, Len(wire) <= 1, NEW wvalid, NEW wdata, NEW rready,
         Clock(wvalid, wdata, rready), ~coincided'
  PROVE  /\ ~coincided /\ ~(rx_start /\ rx_baud_tick)
         /\ ~FrameEnds /\ ~tx_fifo_rready => wire' = wire
         /\ FrameEnds /\ ~tx_fifo_rready => wire' = <<>>
         /\ tx_fifo_rready /\ (FrameEnds \/ wire = <<>>) =>
              wire' = <<Head(tx_fifo)>> /\ QueueOut(tx_fifo, ZeroByte) = Head(tx_fifo)
<1>1. ~coincided /\ ~(rx_start /\ rx_baud_tick)
  BY Zenon DEF Clock
<1>2. wire' = IF tx_fifo_rready THEN Append(Wire, QueueOut(tx_fifo, ZeroByte)) ELSE Wire
  BY Zenon DEF Clock
<1>3. /\ ~FrameEnds => Wire = wire
      /\ FrameEnds \/ wire = <<>> => Wire = <<>>
  <2>1. wire \in Seq(Byte)
    BY DEF TypeOK
  <2>2. wire # <<>> => Tail(wire) = <<>>
    BY <2>1
  <2> QED
    BY <2>2, Zenon DEF Wire
<1>4. tx_fifo_rready => QueueOut(tx_fifo, ZeroByte) = Head(tx_fifo)
  BY Zenon DEF tx_fifo_rready, FrameHasByte, QueueOut
<1>5. \A e : Append(<<>>, e) = <<e>>
  OBVIOUS
<1> QED
  BY <1>1, <1>2, <1>3, <1>4, <1>5, Zenon
---------------------------------------------------------------------------
(* Both ends in a frame                                                    *)
LEMMA Slots ==
  ASSUME TypeOK, BusyInv, rx_state_q # "IDLE"
  PROVE  /\ TxSlot \in 0 .. Bits + 2 /\ RxSlot \in 0 .. Bits + 1
         /\ tx_baud_counter_q \in 0 .. ClocksPerBaud - 1
         /\ rx_baud_counter_q \in 0 .. ClocksPerBaud - 1
         /\ tx_bit_counter_q \in 0 .. Bits - 1 /\ rx_bit_counter_q \in 0 .. Bits - 1
         /\ rx_state_q \in {"START", "PROC", "STOP"}
         /\ RxSlot = 0 => rx_state_q = "START" /\ rx_baud_counter_q >= HalfBaud
         /\ RxSlot \in 1 .. Bits => rx_state_q = "PROC" /\ RxSlot = rx_bit_counter_q + 1
         /\ RxSlot = Bits + 1 <=> rx_state_q = "STOP"
         /\ TxSlot = 0 => tx_state_q = "START"
         /\ TxSlot \in 1 .. Bits => tx_state_q = "PROC" /\ TxSlot = tx_bit_counter_q + 1
         /\ TxSlot = Bits + 1 => tx_state_q = "STOP"
         /\ TxSlot = Bits + 2 => tx_state_q \in {"START", "IDLE"} /\ rx_state_q = "STOP"
<1>1. /\ tx_baud_counter_q \in 0 .. ClocksPerBaud - 1 /\ rx_baud_counter_q \in 0 .. ClocksPerBaud - 1
      /\ tx_bit_counter_q \in 0 .. Bits - 1 /\ rx_bit_counter_q \in 0 .. Bits - 1
      /\ rx_state_q \in {"START", "PROC", "STOP"} /\ tx_state_q \in uart_state_t
  BY DEF TypeOK, RxTypeOK, TxTypeOK, uart_state_t
<1>2. /\ RxSlot \in 0 .. Bits + 1
      /\ RxSlot = 0 => rx_state_q = "START"
      /\ RxSlot \in 1 .. Bits => rx_state_q = "PROC" /\ RxSlot = rx_bit_counter_q + 1
      /\ RxSlot = Bits + 1 <=> rx_state_q = "STOP"
  BY <1>1, HalfBaudIs DEF RxSlot
<1>3. /\ TxSlot \in 0 .. Bits + 2
      /\ TxSlot = 0 => tx_state_q = "START"
      /\ TxSlot \in 1 .. Bits => tx_state_q = "PROC" /\ TxSlot = tx_bit_counter_q + 1
      /\ TxSlot = Bits + 1 => tx_state_q = "STOP"
      /\ TxSlot = Bits + 2 => tx_state_q \in {"START", "IDLE"}
  BY <1>1, HalfBaudIs DEF TxSlot, uart_state_t
<1>4. TxSlot = Bits + 2 => RxSlot = Bits + 1
  <2>1. InStep(TxSlot, RxSlot, tx_baud_counter_q, Age(rx_baud_counter_q))
    BY Zenon DEF BusyInv
  <2> QED
    BY <1>1, <1>2, <1>3, <2>1, HalfBaudIs DEF InStep
<1>5. rx_state_q = "START" => rx_baud_counter_q >= HalfBaud
  BY Zenon DEF BusyInv
<1> QED
  BY <1>1, <1>2, <1>3, <1>4, <1>5, Zenon

(* The level of every slot                                                 *)
LEMMA LevelIs ==
  \A byte, high : /\ Level(0, byte, high) = FALSE /\ Level(Bits + 1, byte, high) = TRUE
                  /\ Level(Bits + 2, byte, high) = high
                  /\ \A slot \in 1 .. Bits : Level(slot, byte, high) = byte[slot]
<1>1. /\ Bits + 1 # 0 /\ Bits + 1 \notin 1 .. Bits
      /\ Bits + 2 # 0 /\ Bits + 2 \notin 1 .. Bits /\ Bits + 2 # Bits + 1
      /\ \A slot \in 1 .. Bits : slot # 0
  BY HalfBaudIs, SMT
<1> QED
  BY <1>1, Zenon DEF Level

LEMMA LineIs ==
  /\ SlotLine(0) = FALSE /\ SlotLine(Bits + 1) = TRUE /\ SlotLine(Bits + 2) = (tx_state_q # "START")
  /\ \A slot \in 1 .. Bits : SlotLine(slot) = Head(wire)[slot]
  BY LevelIs, Zenon DEF SlotLine

(* The transmitter's output is the level of its slot                       *)
LEMMA OutIsLine ==
  ASSUME TypeOK, BytesInv, BusyInv, rx_state_q # "IDLE"
  PROVE  uart_tx_o = SlotLine(TxSlot)
<1>1. CASE TxSlot = 0
  BY <1>1, Slots, LineIs DEF uart_tx_o
<1>2. CASE TxSlot \in 1 .. Bits
  <2>1. /\ tx_state_q = "PROC" /\ TxSlot = tx_bit_counter_q + 1
        /\ 1 \in 1 .. Bits - tx_bit_counter_q
    BY <1>2, Slots, HalfBaudIs
  <2>2. tx_current_byte_q[1] = Head(wire)[1 + tx_bit_counter_q]
    BY <2>1, Zenon DEF BytesInv
  <2>3. SlotLine(TxSlot) = Head(wire)[1 + tx_bit_counter_q]
    BY <1>2, <2>1, LineIs, Slots
  <2>4. uart_tx_o = tx_current_byte_q[1]
    <3>1. tx_current_byte_q[1] \in BOOLEAN
      BY HalfBaudIs DEF TypeOK, TxTypeOK, Byte
    <3>2. tx_state_q \notin {"IDLE", "STOP"}
      BY <2>1
    <3> QED
      BY <2>1, <3>1, <3>2, Zenon DEF uart_tx_o
  <2> QED
    BY <2>2, <2>3, <2>4, Zenon
<1>3. CASE TxSlot = Bits + 1
  BY <1>3, Slots, LineIs DEF uart_tx_o
<1>4. CASE TxSlot = Bits + 2
  <2>1. tx_state_q \in {"START", "IDLE"} /\ SlotLine(TxSlot) = (tx_state_q # "START")
    BY <1>4, Slots, LineIs
  <2>2. uart_tx_o = (tx_state_q # "START")
    BY <2>1 DEF uart_tx_o
  <2> QED
    BY <2>1, <2>2, Zenon
<1> QED
  BY <1>1, <1>2, <1>3, <1>4, Slots, HalfBaudIs

(* The start bit is still low when the receiver looks again in its middle, *)
(* so it leaves the frame only at the end of the stop bit                  *)
LEMMA RxSlotMoves ==
  ASSUME TypeOK, BusyInv, rx_state_q # "IDLE", NEW line, NEW rready, RxClock(line, rready)
  PROVE  /\ rx_baud_counter_q # ClocksPerBaud - 1 =>
              /\ rx_baud_counter_q' = rx_baud_counter_q + 1
              /\ rx_state_q' = rx_state_q /\ RxSlot' = RxSlot
         /\ rx_baud_counter_q = ClocksPerBaud - 1 => rx_baud_counter_q' = 0
         /\ rx_baud_counter_q = ClocksPerBaud - 1 /\ rx_state_q # "STOP" =>
              rx_state_q' \in {"PROC", "STOP"} /\ RxSlot' = RxSlot + 1
         /\ rx_baud_counter_q = ClocksPerBaud - 1 /\ rx_state_q = "STOP" => rx_state_q' = "IDLE"
<1> USE HalfBaudIs, Slots
<1>1. RxTypeOK
  BY DEF TypeOK
<1>2. CASE rx_baud_counter_q # ClocksPerBaud - 1
  <2>1. /\ rx_baud_counter_q' = rx_baud_counter_q + 1 /\ rx_state_q' = rx_state_q
        /\ rx_bit_counter_q' = rx_bit_counter_q
    BY <1>1, <1>2, RxMoves
  <2> QED
    BY <1>2, <2>1 DEF RxSlot
<1>3. CASE rx_baud_counter_q = ClocksPerBaud - 1
  <2>1. rx_baud_counter_q' = 0 /\ (rx_state_q = "STOP" => rx_state_q' = "IDLE")
    BY <1>1, <1>3, RxMoves
  <2>2. CASE rx_state_q = "START"
    <3>1. ~rx_q[2]
      <4>1. RxSlot = 0 /\ Age(rx_baud_counter_q) - 1 - 2 \in 0 .. ClocksPerBaud - 1
        BY <1>3, <2>2 DEF RxSlot, Age
      <4>2. rx_q[2] = SlotLine(0)
        BY <4>1 DEF BusyInv, Sampled
      <4> QED
        BY <4>2, LineIs, Zenon
    <3>2. rx_state_q' = "PROC" /\ rx_bit_counter_q' = 0
      BY <1>1, <1>3, <2>2, <3>1, RxMoves, Zenon
    <3> QED
      BY <1>3, <2>1, <2>2, <3>2 DEF RxSlot
  <2>3. CASE rx_state_q = "PROC"
    <3>1. \/ rx_bit_counter_q = Bits - 1 /\ rx_state_q' = "STOP"
          \/ rx_state_q' = "PROC" /\ rx_bit_counter_q' = rx_bit_counter_q + 1
      BY <1>1, <1>3, <2>3, RxMoves, Zenon
    <3> QED
      BY <1>3, <2>1, <2>3, <3>1 DEF RxSlot
  <2>4. CASE rx_state_q = "STOP"
    BY <1>3, <2>1, <2>4
  <2> QED
    BY <2>2, <2>3, <2>4
<1> QED
  BY <1>2, <1>3
---------------------------------------------------------------------------
(* An edge within a frame                                                  *)
LEMMA BusyStays ==
  ASSUME TypeOK, TypeOK', FrameHasByte, BytesInv, BusyInv, rx_state_q # "IDLE",
         NEW wvalid, NEW wdata, NEW rready, Clock(wvalid, wdata, rready), ~coincided',
         rx_state_q' # "IDLE"
  PROVE  BusyInv' /\ BytesInv'
<1> USE HalfBaudIs
<1> DEFINE p == tx_baud_counter_q
           c == rx_baud_counter_q
           Last == ClocksPerBaud - 1
<1>1. /\ TxClock(wvalid, wdata) /\ RxClock(uart_tx_o, rready) /\ TxTypeOK /\ RxTypeOK
      /\ Len(wire) <= 1
  BY Zenon DEF Clock, TypeOK, BytesInv
<1>2. ~(rx_state_q = "STOP" /\ c = Last)
  BY <1>1, RxSlotMoves
<1>3. ~FrameEnds
  BY <1>2, Zenon DEF FrameEnds, rx_baud_tick
<1>4. InStep(TxSlot, RxSlot, p, Age(c))
  BY Zenon DEF BusyInv
(* The receiver: one slot further at its tick                              *)
<1>5. /\ RxSlot' = IF c = Last THEN RxSlot + 1 ELSE RxSlot
      /\ c' = IF c = Last THEN 0 ELSE c + 1
      /\ rx_state_q' \in {"START", "PROC", "STOP"}
      /\ rx_state_q' = "START" => rx_state_q = "START" /\ c # Last
      /\ rx_state_q = "STOP" => rx_state_q' = "STOP"
  BY <1>1, <1>2, RxSlotMoves, Slots
<1>6. RxSlot' \in 0 .. Bits + 1 /\ (RxSlot' = Bits + 1 <=> rx_state_q' = "STOP")
  <2>1. rx_bit_counter_q' \in 0 .. Bits - 1
    BY DEF TypeOK, RxTypeOK
  <2>2. CASE rx_state_q' = "START"
    BY <2>2 DEF RxSlot
  <2>3. CASE rx_state_q' = "PROC"
    <3>1. RxSlot' = rx_bit_counter_q' + 1 /\ rx_state_q' # "STOP"
      BY <2>3 DEF RxSlot
    <3>2. \A b \in 0 .. Bits - 1 : b + 1 \in 0 .. Bits + 1 /\ b + 1 # Bits + 1
      OBVIOUS
    <3>3. RxSlot' \in 0 .. Bits + 1 /\ RxSlot' # Bits + 1
      BY <2>1, <3>1, <3>2, Zenon
    <3> QED
      BY <3>1, <3>3, Zenon
  <2>4. CASE rx_state_q' = "STOP"
    BY <2>4 DEF RxSlot
  <2> QED
    BY <1>5, <2>2, <2>3, <2>4
(* So does the transmitter, which begins the next frame, if any, in the    *)
(* receiver's stop bit                                                     *)
<1>7. ~(TxSlot = Bits + 2 /\ p = Last)
  BY <1>2, <1>4, Slots DEF InStep, Age
<1>8. TxSlot = Bits + 1 /\ p = Last => rx_state_q' = "STOP"
  <2> SUFFICES ASSUME TxSlot = Bits + 1, p = Last PROVE rx_state_q' = "STOP"
    OBVIOUS
  <2>1. RxSlot = Bits + 1 \/ (RxSlot = Bits /\ c = Last)
    BY <1>4, Slots DEF InStep, Age
  <2>2. RxSlot' = Bits + 1
    BY <1>2, <1>5, <2>1, Slots
  <2> QED
    BY <1>6, <2>2
<1>9. /\ TxSlot' = IF p = Last THEN TxSlot + 1 ELSE TxSlot
      /\ p' = IF p = Last THEN 0 ELSE p + 1
  <2>1. CASE p # Last
    <3>1. p' = p + 1 /\ tx_state_q' = tx_state_q /\ tx_bit_counter_q' = tx_bit_counter_q
      BY <1>1, <2>1, TxMoves
    <3>2. tx_state_q = "START" => (rx_state_q' = "STOP" <=> rx_state_q = "STOP")
      <4> SUFFICES ASSUME tx_state_q = "START", rx_state_q # "STOP" PROVE rx_state_q' # "STOP"
        BY <1>5
      <4>1. TxSlot = 0
        BY DEF TxSlot
      <4>2. RxSlot = 0 \/ (RxSlot = 1 /\ c # Last)
        BY <1>4, <4>1, Slots DEF InStep, Age
      <4>3. RxSlot' # Bits + 1
        BY <1>5, <4>2
      <4> QED
        BY <1>6, <4>3
    <3> QED
      BY <2>1, <3>1, <3>2 DEF TxSlot
  <2>2. CASE p = Last
    <3>1. p' = 0
      BY <1>1, <2>2, TxMoves
    <3>2. CASE TxSlot = 0
      BY <1>1, <2>2, <3>1, <3>2, TxMoves, Slots DEF TxSlot
    <3>3. CASE TxSlot \in 1 .. Bits
      <4>1. tx_state_q = "PROC" /\ TxSlot = tx_bit_counter_q + 1
        BY <3>3, Slots
      <4>2. \/ tx_bit_counter_q = Bits - 1 /\ tx_state_q' = "STOP"
            \/ tx_state_q' = "PROC" /\ tx_bit_counter_q' = tx_bit_counter_q + 1
        BY <1>1, <2>2, <4>1, TxMoves, Zenon
      <4> QED
        BY <2>2, <3>1, <4>1, <4>2 DEF TxSlot
    <3>4. CASE TxSlot = Bits + 1
      <4>1. tx_state_q' \in {"IDLE", "START"}
        BY <1>1, <2>2, <3>4, TxMoves, Slots
      <4> QED
        BY <1>8, <2>2, <3>1, <3>4, <4>1 DEF TxSlot
    <3> QED
      BY <1>7, <2>2, <3>2, <3>3, <3>4, Slots
  <2> QED
    BY <2>1, <2>2
<1>10. InStep(TxSlot, RxSlot, tx_baud_counter_q, Age(rx_baud_counter_q))'
  <2>1. InStep(IF p = Last THEN TxSlot + 1 ELSE TxSlot, IF c = Last THEN RxSlot + 1 ELSE RxSlot,
               IF p = Last THEN 0 ELSE p + 1, Age(IF c = Last THEN 0 ELSE c + 1))
    BY <1>4, InStepKept, Slots
  <2>2. InStep(TxSlot', RxSlot', p', Age(c'))
    BY <1>5, <1>9, <2>1, Zenon
  <2> QED
    BY <2>2 DEF InStep, Age
(* The wire gets its byte when the transmitter leaves the start bit        *)
<1>11. /\ ~(TxSlot = 0 /\ p = Last) => wire' = wire
       /\ TxSlot = 0 /\ p = Last => /\ wire = <<>> /\ wire' = <<Head(tx_fifo)>>
                                    /\ tx_current_byte_q' = Head(tx_fifo)
  <2>1. tx_state_q = "START" /\ p = Last => TxSlot = 0
    BY <1>7 DEF TxSlot
  <2>2. ~(TxSlot = 0 /\ p = Last) => ~tx_fifo_rready
    BY <2>1, Zenon DEF tx_fifo_rready, tx_baud_tick
  <2>3. TxSlot = 0 => tx_state_q = "START" /\ wire = <<>>
    BY Slots, Zenon DEF BusyInv
  <2>4. TxSlot = 0 /\ p = Last =>
          tx_fifo_rready /\ wire = <<>> /\ tx_current_byte_q' = QueueOut(tx_fifo, ZeroByte)
    BY <1>1, <2>3, TxMoves, Zenon DEF tx_fifo_rready, tx_baud_tick
  <2> QED
    BY <1>1, <1>3, <2>2, <2>4, WireMoves, Zenon
<1>12. wire' = <<>> <=> TxSlot' = 0
  <2>1. wire = <<>> <=> TxSlot = 0
    BY Zenon DEF BusyInv
  <2>2. <<Head(tx_fifo)>> # <<>>
    OBVIOUS
  <2>3. TxSlot' = 0 <=> TxSlot = 0 /\ p # Last
    BY <1>9, Slots
  <2> QED
    BY <1>11, <2>1, <2>2, <2>3, Zenon
(* Once the receiver is in a slot the byte is on the wire                  *)
<1>13. Age(c) >= 0 => TxSlot # 0 \/ RxSlot = 0
  BY <1>4, Slots DEF InStep, Age
<1>14. rx_q' = [i \in 0 .. 2 |-> IF i = 0 THEN uart_tx_o ELSE rx_q[i - 1]]
  BY <1>1, Zenon DEF RxClock
<1>15. Sampled(rx_q', Age(c'), SlotLine(RxSlot)', SlotLine(RxSlot + 1)')
  <2>1. /\ Age(c) \in 0 .. Last => uart_tx_o = SlotLine(RxSlot)
        /\ Age(c) >= ClocksPerBaud => uart_tx_o = SlotLine(RxSlot + 1) /\ TxSlot = RxSlot + 1
    <3>1. /\ Age(c) \in 0 .. Last => TxSlot = RxSlot
          /\ Age(c) >= ClocksPerBaud => TxSlot = RxSlot + 1
      BY <1>4, Slots DEF InStep, Age
    <3> QED
      BY <3>1, OutIsLine, Zenon
  <2>2. Age(c) >= 0 => Level(RxSlot, Head(wire'), tx_state_q' # "START") = SlotLine(RxSlot)
    <3> SUFFICES ASSUME Age(c) >= 0
                 PROVE  Level(RxSlot, Head(wire'), tx_state_q' # "START") = SlotLine(RxSlot)
      OBVIOUS
    <3>1. CASE RxSlot = 0
      BY <3>1, LevelIs DEF SlotLine
    <3>2. CASE RxSlot \in 1 .. Bits
      <4>1. wire' = wire
        BY <1>11, <1>13, <3>2
      <4>2. SlotLine(RxSlot) = Head(wire)[RxSlot]
        BY <3>2, LineIs, Zenon
      <4>3. Level(RxSlot, Head(wire'), tx_state_q' # "START") = Head(wire')[RxSlot]
        BY <3>2, LevelIs, Zenon
      <4> QED
        BY <4>1, <4>2, <4>3, Zenon
    <3>3. CASE RxSlot = Bits + 1
      BY <3>3, LevelIs DEF SlotLine
    <3> QED
      BY <3>1, <3>2, <3>3, Slots
  <2>3. Age(c) >= ClocksPerBaud =>
          Level(RxSlot + 1, Head(wire'), tx_state_q' # "START") = SlotLine(RxSlot + 1)
    <3> SUFFICES ASSUME Age(c) >= ClocksPerBaud
                 PROVE  Level(RxSlot + 1, Head(wire'), tx_state_q' # "START") = SlotLine(RxSlot + 1)
      OBVIOUS
    <3>1. TxSlot = RxSlot + 1 /\ RxSlot + 1 \in 1 .. Bits + 2
      BY <2>1, Slots
    <3>2. wire' = wire
      BY <1>11, <3>1
    <3>3. CASE RxSlot + 1 \in 1 .. Bits
      <4>1. SlotLine(RxSlot + 1) = Head(wire)[RxSlot + 1]
        BY <3>3, LineIs, Zenon
      <4>2. Level(RxSlot + 1, Head(wire'), tx_state_q' # "START") = Head(wire')[RxSlot + 1]
        BY <3>3, LevelIs, Zenon
      <4> QED
        BY <3>2, <4>1, <4>2, Zenon
    <3>4. CASE RxSlot + 1 = Bits + 1
      BY <3>4, LevelIs, Zenon DEF SlotLine
    <3>5. CASE RxSlot + 1 = Bits + 2
      <4>1. tx_state_q' = tx_state_q
        BY <1>1, <1>7, <3>1, <3>5, TxMoves
      <4> QED
        BY <3>2, <4>1, Zenon DEF SlotLine
    <3> QED
      BY <3>1, <3>3, <3>4, <3>5
  <2>4. rx_q \in [0 .. 2 -> BOOLEAN] /\ uart_tx_o \in BOOLEAN
    BY DEF TypeOK, RxTypeOK, uart_tx_o
  <2>5. Sampled(rx_q, Age(c), SlotLine(RxSlot), SlotLine(RxSlot + 1))
    BY Zenon DEF BusyInv
  <2>6. /\ c # Last => \A this1, next1 : /\ Age(c) >= 0 => this1 = SlotLine(RxSlot)
                                         /\ Age(c) >= ClocksPerBaud => next1 = SlotLine(RxSlot + 1)
                                         => Sampled(rx_q', Age(c + 1), this1, next1)
        /\ c = Last => \A this1, next1 : (Age(c) >= ClocksPerBaud => this1 = SlotLine(RxSlot + 1))
                                         => Sampled(rx_q', Age(0), this1, next1)
    <3>1. c \in 0 .. ClocksPerBaud - 1
      BY Slots
    <3> QED
      BY <1>14, <2>1, <2>4, <2>5, <3>1, SampledKept
  <2>7. CASE c # Last
    <3>1. Sampled(rx_q', Age(c + 1), Level(RxSlot, Head(wire'), tx_state_q' # "START"),
                                     Level(RxSlot + 1, Head(wire'), tx_state_q' # "START"))
      BY <2>2, <2>3, <2>6, <2>7, Zenon
    <3> QED
      BY <1>5, <2>7, <3>1, Zenon DEF SlotLine
  <2>8. CASE c = Last
    <3>1. Sampled(rx_q', Age(0), Level(RxSlot + 1, Head(wire'), tx_state_q' # "START"),
                                 Level(RxSlot + 1 + 1, Head(wire'), tx_state_q' # "START"))
      BY <2>3, <2>6, <2>8, Zenon
    <3> QED
      BY <1>5, <2>8, <3>1, Zenon DEF SlotLine
  <2> QED
    BY <2>7, <2>8
<1>16. BusyInv'
  <2>1. rx_state_q' = "START" => c' >= HalfBaud
    <3>1. rx_state_q = "START" => c >= HalfBaud
      BY Zenon DEF BusyInv
    <3> QED
      BY <1>5, <3>1, Slots
  <2>2. Sampled(rx_q, Age(rx_baud_counter_q), SlotLine(RxSlot), SlotLine(RxSlot + 1))'
    BY <1>15 DEF Sampled, Age
  <2> QED
    BY <1>10, <1>12, <2>1, <2>2, Zenon DEF BusyInv
(* The byte goes out from its first bit on, and comes in at the last place *)
<1>17. tx_state_q' = "PROC" =>
         \A i \in 1 .. Bits - tx_bit_counter_q' :
           tx_current_byte_q'[i] = Head(wire')[i + tx_bit_counter_q']
  <2> SUFFICES ASSUME tx_state_q' = "PROC", NEW i \in 1 .. Bits - tx_bit_counter_q'
               PROVE  tx_current_byte_q'[i] = Head(wire')[i + tx_bit_counter_q']
    OBVIOUS
  <2>1. CASE TxSlot = 0 /\ p = Last
    <3>1. tx_bit_counter_q' = 0 /\ Head(wire') = tx_current_byte_q'
      BY <1>1, <1>11, <2>1, TxMoves, Slots
    <3> QED
      BY <3>1
  <2>2. CASE ~(TxSlot = 0 /\ p = Last) /\ p # Last
    <3>1. /\ wire' = wire /\ tx_state_q = "PROC" /\ tx_bit_counter_q' = tx_bit_counter_q
          /\ tx_current_byte_q' = tx_current_byte_q
      BY <1>1, <1>11, <2>2, TxMoves, Zenon
    <3> QED
      BY <3>1, Zenon DEF BytesInv
  <2>3. CASE TxSlot # 0 /\ p = Last
    <3>1. wire' = wire
      BY <1>11, <2>3
    <3>2. tx_state_q = "PROC"
      <4>1. tx_state_q \in {"IDLE", "STOP"} => tx_state_q' # "PROC"
        BY <1>1, <2>3, TxMoves
      <4>2. tx_state_q = "START" => TxSlot \in {0, Bits + 2}
        BY DEF TxSlot
      <4>3. tx_state_q \in {"IDLE", "START", "PROC", "STOP"}
        BY DEF TypeOK, TxTypeOK, uart_state_t
      <4> QED
        BY <1>7, <2>3, <4>1, <4>2, <4>3
    <3>3. /\ tx_bit_counter_q' = tx_bit_counter_q + 1
          /\ tx_current_byte_q' = ShiftIn(tx_current_byte_q, FALSE)
      <4>1. tx_bit_counter_q # Bits - 1
        BY <1>1, <2>3, <3>2, TxMoves
      <4> QED
        BY <1>1, <2>3, <3>2, <4>1, TxMoves
    <3>4. i + 1 \in 1 .. Bits - tx_bit_counter_q /\ i \in 1 .. Bits - 1
          /\ i + tx_bit_counter_q' = (i + 1) + tx_bit_counter_q
      BY <3>3, Slots
    <3>5. tx_current_byte_q'[i] = tx_current_byte_q[i + 1]
      <4>1. i \in 1 .. Bits /\ i # Bits
        BY <3>4
      <4> QED
        BY <3>3, <4>1, Zenon DEF ShiftIn
    <3>6. tx_current_byte_q[i + 1] = Head(wire)[(i + 1) + tx_bit_counter_q]
      BY <3>2, <3>4, Zenon DEF BytesInv
    <3> QED
      BY <3>1, <3>4, <3>5, <3>6, Zenon
  <2> QED
    BY <2>1, <2>2, <2>3
<1>18. rx_state_q \in {"PROC", "STOP"} /\ rx_state_q' = rx_state_q /\ c # Last =>
         rx_bit_counter_q' = rx_bit_counter_q /\ rx_current_byte_q' = rx_current_byte_q
  BY <1>1, RxMoves
(* The bit sampled is the one on the line half a bit time ago              *)
<1>19. c = Last /\ rx_state_q = "PROC" =>
         /\ wire' = wire /\ rx_current_byte_q' = ShiftIn(rx_current_byte_q, Head(wire)[RxSlot])
         /\ RxSlot = rx_bit_counter_q + 1 /\ RxSlot \in 1 .. Bits
  <2> SUFFICES ASSUME c = Last, rx_state_q = "PROC"
               PROVE  /\ wire' = wire /\ rx_current_byte_q' = ShiftIn(rx_current_byte_q, Head(wire)[RxSlot])
                      /\ RxSlot = rx_bit_counter_q + 1 /\ RxSlot \in 1 .. Bits
    OBVIOUS
  <2>1. RxSlot = rx_bit_counter_q + 1 /\ RxSlot \in 1 .. Bits
    BY Slots DEF RxSlot
  <2>2. Age(c) >= 0 /\ Age(c) - 1 - 2 \in 0 .. ClocksPerBaud - 1
    BY DEF Age
  <2>3. wire' = wire
    BY <1>11, <1>13, <2>1, <2>2
  <2>4. rx_q[2] = SlotLine(RxSlot)
    BY <2>2 DEF BusyInv, Sampled
  <2>5. SlotLine(RxSlot) = Head(wire)[RxSlot]
    BY <2>1, LineIs, Zenon
  <2>6. rx_current_byte_q' = ShiftIn(rx_current_byte_q, rx_q[2])
    BY <1>1, RxMoves
  <2> QED
    BY <2>1, <2>3, <2>4, <2>5, <2>6, Zenon
(* With n bits received, one more                                          *)
<1>20. c = Last /\ rx_state_q = "PROC" =>
         \A i \in 1 .. RxSlot : rx_current_byte_q'[Bits - RxSlot + i] = Head(wire)[i]
  <2> SUFFICES ASSUME c = Last, rx_state_q = "PROC", NEW i \in 1 .. RxSlot
               PROVE  rx_current_byte_q'[Bits - RxSlot + i] = Head(wire)[i]
    OBVIOUS
  <2>1. CASE i = RxSlot
    <3>1. Bits - RxSlot + i = Bits
      BY <1>19, <2>1, Slots
    <3>2. rx_current_byte_q'[Bits] = Head(wire)[RxSlot]
      BY <1>19 DEF ShiftIn
    <3> QED
      BY <2>1, <3>1, <3>2
  <2>2. CASE i # RxSlot
    <3>1. /\ i \in 1 .. rx_bit_counter_q
          /\ Bits - RxSlot + i \in 1 .. Bits - 1
          /\ (Bits - RxSlot + i) + 1 = Bits - rx_bit_counter_q + i
      BY <1>19, <2>2, Slots
    <3>2. rx_current_byte_q[Bits - rx_bit_counter_q + i] = Head(wire)[i]
      BY <3>1, Zenon DEF BytesInv
    <3>3. rx_current_byte_q'[Bits - RxSlot + i] = rx_current_byte_q[(Bits - RxSlot + i) + 1]
      BY <1>19, <3>1 DEF ShiftIn
    <3> QED
      BY <3>1, <3>2, <3>3
  <2> QED
    BY <2>1, <2>2
<1>21. rx_state_q' = "PROC" =>
         \A i \in 1 .. rx_bit_counter_q' :
           rx_current_byte_q'[Bits - rx_bit_counter_q' + i] = Head(wire')[i]
  <2> SUFFICES ASSUME rx_state_q' = "PROC", NEW i \in 1 .. rx_bit_counter_q'
               PROVE  rx_current_byte_q'[Bits - rx_bit_counter_q' + i] = Head(wire')[i]
    OBVIOUS
  <2>1. CASE c # Last
    <3>1. rx_state_q = "PROC" /\ rx_bit_counter_q' = rx_bit_counter_q
          /\ rx_current_byte_q' = rx_current_byte_q
      BY <1>1, <2>1, RxMoves
    <3>2. TxSlot # 0
      <4>1. RxSlot = rx_bit_counter_q + 1 /\ rx_bit_counter_q >= 1
        BY <3>1, Slots DEF RxSlot
      <4> QED
        BY <1>4, <4>1, Slots DEF InStep
    <3>3. wire' = wire
      BY <1>11, <3>2
    <3> QED
      BY <3>1, <3>3, Zenon DEF BytesInv
  <2>2. CASE c = Last
    <3>1. rx_state_q = "PROC" /\ rx_bit_counter_q' = rx_bit_counter_q + 1
      <4>1. rx_state_q = "START" => rx_bit_counter_q' = 0
        BY <1>1, <2>2, RxMoves
      <4>2. rx_state_q # "START"
        BY <4>1
      <4>3. rx_state_q = "PROC"
        BY <1>5, <4>2, Slots
      <4> QED
        BY <1>1, <2>2, <4>3, RxMoves
    <3>2. rx_bit_counter_q' = RxSlot /\ wire' = wire
      BY <1>19, <2>2, <3>1
    <3> QED
      BY <1>20, <2>2, <3>1, <3>2, Zenon
  <2> QED
    BY <2>1, <2>2
<1>22. rx_state_q' = "STOP" => rx_current_byte_q' = Head(wire')
  <2> SUFFICES ASSUME rx_state_q' = "STOP" PROVE rx_current_byte_q' = Head(wire')
    OBVIOUS
  <2>1. CASE c # Last
    <3>1. rx_state_q = "STOP" /\ rx_current_byte_q' = rx_current_byte_q
      BY <1>1, <2>1, RxMoves
    <3>2. TxSlot # 0
      <4>1. RxSlot = Bits + 1
        BY <3>1, Slots
      <4> QED
        BY <1>4, <4>1, Slots DEF InStep
    <3>3. wire' = wire
      BY <1>11, <3>2
    <3> QED
      BY <3>1, <3>3, Zenon DEF BytesInv
  <2>2. CASE c = Last
    <3>1. rx_state_q = "PROC" /\ rx_bit_counter_q = Bits - 1
      <4>1. rx_state_q = "START" => rx_state_q' = "PROC"
        BY <1>1, <1>5, <2>2, RxMoves
      <4>2. rx_state_q = "PROC"
        BY <1>2, <2>2, <4>1, Slots
      <4>3. rx_bit_counter_q # Bits - 1 => rx_state_q' = "PROC"
        BY <1>1, <2>2, <4>2, RxMoves
      <4> QED
        BY <4>2, <4>3
    <3>2. wire' = wire /\ RxSlot = Bits
      BY <1>19, <2>2, <3>1
    <3>3. \A i \in 1 .. Bits : rx_current_byte_q'[Bits - Bits + i] = Head(wire)[i]
      BY <1>20, <2>2, <3>1, <3>2
    <3>4. \A i \in 1 .. Bits : rx_current_byte_q'[i] = Head(wire)[i]
      BY <3>3
    <3>5. rx_current_byte_q' \in Byte
      BY DEF TypeOK, RxTypeOK
    <3>6. Head(wire) \in Byte
      <4>1. TxSlot # 0
        BY <1>4, <3>2, <2>2, Slots DEF InStep, Age
      <4>2. wire # <<>> /\ wire \in Seq(Byte)
        BY <4>1, Zenon DEF BusyInv, TypeOK
      <4> QED
        BY <4>2
    <3> QED
      BY <3>2, <3>4, <3>5, <3>6 DEF Byte
  <2> QED
    BY <2>1, <2>2
<1>23. Len(wire') <= 1 /\ (tx_state_q' = "PROC" => wire' # <<>>)
  <2>1. Len(wire') <= 1
    <3>1. Len(<<Head(tx_fifo)>>) <= 1
      OBVIOUS
    <3> QED
      BY <1>1, <1>11, <3>1, Zenon
  <2>2. tx_state_q' = "PROC" => TxSlot' # 0
    <3>1. tx_state_q' = "PROC" => TxSlot' = tx_bit_counter_q' + 1
      BY DEF TxSlot
    <3>2. tx_bit_counter_q' \in 0 .. Bits - 1
      BY DEF TypeOK, TxTypeOK
    <3>3. \A b \in 0 .. Bits - 1 : b + 1 # 0
      OBVIOUS
    <3> QED
      BY <3>1, <3>2, <3>3, Zenon
  <2> QED
    BY <1>12, <2>1, <2>2
<1> QED
  BY <1>16, <1>17, <1>21, <1>22, <1>23, Zenon DEF BytesInv
---------------------------------------------------------------------------
(* The synchroniser shifts                                                 *)
LEMMA SamplesMove ==
  ASSUME NEW line, NEW rready, RxClock(line, rready)
  PROVE  rx_q'[0] = line /\ rx_q'[1] = rx_q[0] /\ rx_q'[2] = rx_q[1]
<1>1. rx_q' = [i \in 0 .. 2 |-> IF i = 0 THEN line ELSE rx_q[i - 1]]
  BY Zenon DEF RxClock
<1> QED
  BY <1>1, SMT

(* The receiver at the end of its stop bit: the line is high, or the next  *)
(* start bit has been there for two cycles at most                         *)
LEMMA FrameLeaves ==
  ASSUME TypeOK, FrameHasByte, BytesInv, BusyInv, rx_state_q # "IDLE",
         NEW wvalid, NEW wdata, NEW rready, Clock(wvalid, wdata, rready), ~coincided',
         rx_state_q' = "IDLE"
  PROVE  IdleInv' /\ BytesInv'
<1> USE HalfBaudIs
<1> DEFINE p == tx_baud_counter_q
           c == rx_baud_counter_q
           Last == ClocksPerBaud - 1
<1>1. /\ TxClock(wvalid, wdata) /\ RxClock(uart_tx_o, rready) /\ TxTypeOK /\ RxTypeOK
      /\ Len(wire) <= 1
  BY Zenon DEF Clock, TypeOK, BytesInv
<1>2. rx_state_q = "STOP" /\ c = Last
  BY <1>1, RxSlotMoves, Slots
<1>3. FrameEnds /\ RxSlot = Bits + 1 /\ Age(c) = ClocksPerBaud + 2 - HalfBaud
  BY <1>2 DEF FrameEnds, rx_baud_tick, RxSlot, Age
<1>4. \/ TxSlot = Bits + 1 /\ p = ClocksPerBaud + 2 - HalfBaud /\ HalfBaud >= 3
      \/ TxSlot = Bits + 2 /\ p = 2 - HalfBaud /\ HalfBaud \in {1, 2}
  <2>1. InStep(TxSlot, RxSlot, p, Age(c))
    BY Zenon DEF BusyInv
  <2> QED
    BY <1>3, <2>1, Slots DEF InStep
<1>5. /\ rx_q[2] = TRUE /\ rx_q[1] = TRUE
      /\ HalfBaud >= 2 => rx_q[0] = TRUE
      /\ HalfBaud = 1 => rx_q[0] = (tx_state_q # "START")
  <2>1. Sampled(rx_q, Age(c), SlotLine(Bits + 1), SlotLine(Bits + 1 + 1))
    BY <1>3, Zenon DEF BusyInv
  <2>2. /\ rx_q[2] = SlotLine(Bits + 1) /\ rx_q[1] = SlotLine(Bits + 1)
        /\ HalfBaud >= 2 => rx_q[0] = SlotLine(Bits + 1)
        /\ HalfBaud = 1 => rx_q[0] = SlotLine(Bits + 1 + 1)
    <3>1. Age(c) - 1 - 2 \in 0 .. Last /\ Age(c) - 1 - 1 \in 0 .. Last
      BY <1>3
    <3>2. HalfBaud >= 2 => Age(c) - 1 - 0 \in 0 .. Last
      BY <1>3
    <3>3. HalfBaud = 1 => Age(c) - 1 - 0 >= ClocksPerBaud
      BY <1>3
    <3>4. 0 \in 0 .. 2 /\ 1 \in 0 .. 2 /\ 2 \in 0 .. 2
      OBVIOUS
    <3> QED
      BY <2>1, <3>1, <3>2, <3>3, <3>4, Zenon DEF Sampled
  <2>3. Bits + 1 + 1 = Bits + 2
    OBVIOUS
  <2> QED
    BY <2>2, <2>3, LineIs, Zenon
<1>6. rx_q'[0] = uart_tx_o /\ rx_q'[1] = rx_q[0] /\ rx_q'[2] = rx_q[1]
  BY <1>1, SamplesMove
<1>7. /\ ~tx_fifo_rready => wire' = <<>>
      /\ tx_fifo_rready => /\ wire' = <<Head(tx_fifo)>>
                           /\ QueueOut(tx_fifo, ZeroByte) = Head(tx_fifo)
  BY <1>1, <1>3, WireMoves, Zenon
<1>8. CASE tx_state_q \in {"IDLE", "STOP"}
  <2>1. ~tx_fifo_rready /\ uart_tx_o = TRUE
    BY <1>8 DEF tx_fifo_rready, uart_tx_o
  <2>2. rx_q'[0] /\ rx_q'[1] /\ rx_q'[2]
    <3>1. rx_q[0] = TRUE
      <4>1. tx_state_q # "START" /\ (HalfBaud >= 2 \/ HalfBaud = 1)
        BY <1>8
      <4> QED
        BY <1>5, <4>1, Zenon
    <3> QED
      BY <1>5, <1>6, <2>1, <3>1, Zenon
  <2>3. \/ tx_state_q' \in {"IDLE", "STOP"}
        \/ tx_state_q' = "START" /\ tx_baud_counter_q' = 0
    BY <1>1, <1>8, TxMoves
  <2>4. wire' = <<>> /\ tx_state_q' # "PROC" /\ Len(wire') <= 1
    BY <1>7, <2>1, <2>3
  <2>5. /\ tx_baud_counter_q' = 0 => tx_baud_counter_q' <= 2 /\ tx_baud_counter_q' <= 1
    OBVIOUS
  <2>6. IdleInv'
    BY <2>2, <2>3, <2>4, <2>5, Zenon DEF IdleInv
  <2>7. BytesInv'
    BY <2>4 DEF BytesInv
  <2> QED
    BY <2>6, <2>7
<1>9. CASE tx_state_q = "START"
  <2>1. p = 2 - HalfBaud /\ HalfBaud \in {1, 2}
    BY <1>4, <1>9, Slots
  <2>2. uart_tx_o = FALSE
    BY <1>9 DEF uart_tx_o
  <2>3. ~rx_q'[0] /\ rx_q'[2] /\ (HalfBaud = 1 => ~rx_q'[1]) /\ (HalfBaud >= 2 => rx_q'[1])
    BY <1>5, <1>6, <1>9, <2>2, Zenon
  <2>4. CASE p # Last
    <3>1. ~tx_fifo_rready
      BY <2>4 DEF tx_fifo_rready, tx_baud_tick
    <3>2. tx_state_q' = "START" /\ tx_baud_counter_q' = p + 1
      BY <1>1, <1>9, <2>4, TxMoves
    <3>3. wire' = <<>> /\ tx_state_q' # "PROC" /\ Len(wire') <= 1
      BY <1>7, <3>1, <3>2
    <3>4. /\ tx_baud_counter_q' <= 2 /\ tx_baud_counter_q' # 0
          /\ HalfBaud = 1 \/ HalfBaud >= 2
          /\ HalfBaud = 1 => ~(tx_baud_counter_q' <= 1)
          /\ HalfBaud >= 2 => tx_baud_counter_q' <= 1
      BY <2>1, <3>2
    <3>5. IdleInv'
      BY <2>3, <3>2, <3>3, <3>4, Zenon DEF IdleInv
    <3>6. BytesInv'
      BY <1>2, <3>3 DEF BytesInv
    <3> QED
      BY <3>5, <3>6
  <2>5. CASE p = Last
    <3>1. ClocksPerBaud = 2 /\ HalfBaud = 1
      BY <2>1, <2>5
    <3>2. tx_fifo_rready
      BY <1>9, <2>5, Zenon DEF tx_fifo_rready, tx_baud_tick
    <3>3. /\ tx_state_q' = "PROC" /\ tx_bit_counter_q' = 0 /\ tx_baud_counter_q' = 0
          /\ tx_current_byte_q' = QueueOut(tx_fifo, ZeroByte)
      BY <1>1, <1>9, <2>5, TxMoves
    <3>4. /\ wire' # <<>> /\ Len(wire') <= 1 /\ Head(wire') = tx_current_byte_q'
      <4>1. wire' = <<tx_current_byte_q'>>
        BY <1>7, <3>2, <3>3, Zenon
      <4> QED
        BY <4>1
    <3>5. IdleInv'
      BY <2>3, <3>1, <3>3, <3>4, Zenon DEF IdleInv
    <3>6. BytesInv'
      BY <3>3, <3>4 DEF BytesInv
    <3> QED
      BY <3>5, <3>6
  <2> QED
    BY <2>4, <2>5
<1> QED
  BY <1>4, <1>8, <1>9, Slots

(* The receiver while the first cycles of a frame go through the           *)
(* synchroniser, up to the edge that starts its counter                    *)
LEMMA FrameEnters ==
  ASSUME TypeOK, TypeOK', FrameHasByte, BytesInv, IdleInv, rx_state_q = "IDLE",
         NEW wvalid, NEW wdata, NEW rready, Clock(wvalid, wdata, rready), ~coincided'
  PROVE  BytesInv' /\ IF rx_state_q' = "IDLE" THEN IdleInv' ELSE BusyInv'
<1> USE HalfBaudIs
<1> DEFINE p == tx_baud_counter_q
           Last == ClocksPerBaud - 1
<1>1. /\ TxClock(wvalid, wdata) /\ RxClock(uart_tx_o, rready) /\ TxTypeOK /\ RxTypeOK
      /\ Len(wire) <= 1 /\ p \in 0 .. Last /\ tx_bit_counter_q \in 0 .. Bits - 1
  BY DEF Clock, TypeOK, BytesInv, TxTypeOK
<1>2. rx_q'[0] = uart_tx_o /\ rx_q'[1] = rx_q[0] /\ rx_q'[2] = rx_q[1]
  BY <1>1, SamplesMove
<1>3. ~FrameEnds /\ ~(rx_start /\ rx_baud_tick)
  BY <1>1, WireMoves DEF FrameEnds
<1>4. /\ ~rx_start => rx_state_q' = "IDLE"
      /\ rx_start => rx_state_q' = "START" /\ rx_baud_counter_q' = HalfBaud
  <2>1. rx_start \/ rx_baud_tick => RxIdle
    BY <1>1, Zenon DEF RxClock, RxStartBit, RxDataBit, RxStopBit
  <2>2. ~(rx_start \/ rx_baud_tick) => rx_state_q' = rx_state_q
    BY <1>1, Zenon DEF RxClock
  <2>3. rx_start => rx_baud_counter_q' = HalfBaud
    BY <1>1, <1>3, Zenon DEF RxClock, rx_baud_counter_d, HalfBaud
  <2> QED
    BY <2>1, <2>2, <2>3, Zenon DEF RxIdle
<1>5. /\ ~tx_fifo_rready => wire' = wire
      /\ tx_fifo_rready /\ wire = <<>> => /\ wire' = <<Head(tx_fifo)>>
                                          /\ QueueOut(tx_fifo, ZeroByte) = Head(tx_fifo)
  BY <1>1, <1>3, WireMoves, Zenon
<1>6. rx_state_q' \notin {"PROC", "STOP"}
  BY <1>4
<1>7. CASE /\ tx_state_q \in {"IDLE", "STOP"} /\ wire = <<>>
           /\ rx_q[0] /\ rx_q[1] /\ rx_q[2]
  <2>1. ~tx_fifo_rready /\ uart_tx_o = TRUE
    BY <1>7 DEF tx_fifo_rready, uart_tx_o
  <2>2. rx_state_q' = "IDLE"
    BY <1>4, <1>7, Zenon DEF rx_start
  <2>3. rx_q'[0] /\ rx_q'[1] /\ rx_q'[2]
    BY <1>2, <1>7, <2>1, Zenon
  <2>4. \/ tx_state_q' \in {"IDLE", "STOP"}
        \/ tx_state_q' = "START" /\ tx_baud_counter_q' = 0
    BY <1>1, <1>7, TxMoves
  <2>5. wire' = <<>> /\ tx_state_q' # "PROC" /\ Len(wire') <= 1
    BY <1>5, <1>7, <2>1, <2>4
  <2>6. tx_baud_counter_q' = 0 => tx_baud_counter_q' <= 2 /\ tx_baud_counter_q' <= 1
    OBVIOUS
  <2>7. IdleInv'
    BY <2>3, <2>4, <2>5, <2>6, Zenon DEF IdleInv
  <2>8. BytesInv'
    BY <1>6, <2>5 DEF BytesInv
  <2> QED
    BY <2>2, <2>7, <2>8, Zenon
<1>8. CASE /\ tx_state_q = "START" /\ p <= 2 /\ wire = <<>>
           /\ rx_q[0] <=> p = 0
           /\ rx_q[1] <=> p <= 1
           /\ rx_q[2]
  <2>1. uart_tx_o = FALSE
    BY <1>8 DEF uart_tx_o
  <2>2. ~rx_q'[0] /\ (rx_q'[1] <=> p = 0) /\ (rx_q'[2] <=> p <= 1)
    BY <1>2, <1>8, <2>1, Zenon
  <2>3. rx_start <=> p = 2
    <3>1. p <= 2 => (p = 2 <=> ~(p <= 1))
      BY <1>1
    <3> QED
      BY <1>8, <3>1, Zenon DEF rx_start
  <2>4. p # Last => /\ tx_state_q' = "START" /\ tx_baud_counter_q' = p + 1 /\ wire' = <<>>
    <3>1. p # Last => ~tx_fifo_rready
      BY DEF tx_fifo_rready, tx_baud_tick
    <3> QED
      BY <1>1, <1>5, <1>8, <3>1, TxMoves
  <2>5. p = Last => /\ tx_state_q' = "PROC" /\ tx_bit_counter_q' = 0 /\ tx_baud_counter_q' = 0
                    /\ wire' = <<tx_current_byte_q'>>
    <3>1. p = Last => tx_fifo_rready
      BY <1>8, Zenon DEF tx_fifo_rready, tx_baud_tick
    <3>2. p = Last => /\ tx_state_q' = "PROC" /\ tx_bit_counter_q' = 0 /\ tx_baud_counter_q' = 0
                      /\ tx_current_byte_q' = QueueOut(tx_fifo, ZeroByte)
      BY <1>1, <1>8, TxMoves
    <3> QED
      BY <1>5, <1>8, <3>1, <3>2, Zenon
  <2>6. wire' = <<tx_current_byte_q'>> => /\ wire' # <<>> /\ Len(wire') <= 1
                                          /\ Head(wire') = tx_current_byte_q'
    OBVIOUS
  <2>7. BytesInv'
    <3>1. CASE p # Last
      <4>1. wire' = <<>> /\ tx_state_q' # "PROC" /\ Len(wire') <= 1
        BY <2>4, <3>1
      <4> QED
        BY <1>6, <4>1 DEF BytesInv
    <3>2. CASE p = Last
      <4>1. /\ tx_bit_counter_q' = 0 /\ wire' # <<>> /\ Len(wire') <= 1
            /\ Head(wire') = tx_current_byte_q'
        BY <2>5, <2>6, <3>2, Zenon
      <4> QED
        BY <1>6, <4>1 DEF BytesInv
    <3> QED
      BY <3>1, <3>2
  <2>8. CASE p # 2
    <3>1. rx_state_q' = "IDLE"
      BY <1>4, <2>3, <2>8, Zenon
    <3>2. rx_q'[2]
      BY <1>1, <1>8, <2>2, <2>8
    <3>3. CASE p # Last
      <4>1. /\ tx_baud_counter_q' <= 2 /\ tx_baud_counter_q' # 0
            /\ tx_baud_counter_q' <= 1 <=> p = 0
        BY <1>1, <1>8, <2>4, <2>8, <3>3
      <4> QED
        BY <2>2, <2>4, <2>7, <3>1, <3>2, <3>3, <4>1, Zenon DEF IdleInv
    <3>4. CASE p = Last
      <4>1. ClocksPerBaud = 2 /\ p # 0
        BY <1>1, <1>8, <2>8, <3>4
      <4> QED
        BY <2>2, <2>5, <2>6, <2>7, <3>1, <3>2, <3>4, <4>1, Zenon DEF IdleInv
    <3> QED
      BY <3>3, <3>4
  <2>9. CASE p = 2
    <3>1. rx_state_q' = "START" /\ rx_baud_counter_q' = HalfBaud
      BY <1>4, <2>3, <2>9, Zenon
    <3>2. rx_q'[0] = FALSE /\ rx_q'[1] = FALSE /\ rx_q'[2] = FALSE
      <4>1. rx_q' \in [0 .. 2 -> BOOLEAN] /\ p # 0 /\ ~(p <= 1)
        BY <2>9 DEF TypeOK, RxTypeOK
      <4>2. ~rx_q'[0] /\ ~rx_q'[1] /\ ~rx_q'[2]
        BY <2>2, <4>1, Zenon
      <4>3. rx_q'[0] \in BOOLEAN /\ rx_q'[1] \in BOOLEAN /\ rx_q'[2] \in BOOLEAN
        BY <4>1
      <4> QED
        BY <4>2, <4>3, Zenon
    <3>3. RxSlot' = 0 /\ Age(rx_baud_counter_q') = 3 /\ SlotLine(RxSlot)' = FALSE
      <4>1. RxSlot' = 0
        BY <3>1 DEF RxSlot
      <4>2. SlotLine(RxSlot)' = FALSE
        BY <4>1, LevelIs, Zenon DEF SlotLine
      <4> QED
        BY <3>1, <4>1, <4>2 DEF Age
    <3>4. Sampled(rx_q', Age(rx_baud_counter_q'), FALSE, SlotLine(RxSlot + 1)')
      <4>1. /\ 3 - 1 - 0 < ClocksPerBaud /\ 3 - 1 - 1 < ClocksPerBaud /\ 3 - 1 - 2 < ClocksPerBaud
            /\ \A i \in 0 .. 2 : i \in {0, 1, 2} /\ ~(3 - 1 - i >= ClocksPerBaud)
        BY <1>1, <2>9
      <4>2. \A i \in 0 .. 2 : rx_q'[i] = FALSE
        BY <3>2, <4>1
      <4> QED
        BY <3>3, <4>1, <4>2, Zenon DEF Sampled
    <3>5. TxSlot' = (IF p = Last THEN 1 ELSE 0) /\ (wire' = <<>> <=> TxSlot' = 0)
      <4>1. CASE p # Last
        <5>1. TxSlot' = 0
          BY <2>4, <3>1, <4>1 DEF TxSlot
        <5> QED
          BY <2>4, <4>1, <5>1, Zenon
      <4>2. CASE p = Last
        <5>1. TxSlot' = 1
          BY <2>5, <4>2 DEF TxSlot
        <5>2. 1 # 0
          OBVIOUS
        <5> QED
          BY <2>5, <2>6, <4>2, <5>1, <5>2, Zenon
      <4> QED
        BY <4>1, <4>2
    <3>6. InStep(TxSlot', RxSlot', tx_baud_counter_q', Age(rx_baud_counter_q'))
      <4>1. CASE p # Last
        BY <2>4, <2>9, <3>3, <3>5, <4>1 DEF InStep
      <4>2. CASE p = Last
        BY <2>5, <2>9, <3>3, <3>5, <4>2 DEF InStep
      <4> QED
        BY <4>1, <4>2
    <3>7. BusyInv'
      <4>1. InStep(TxSlot, RxSlot, tx_baud_counter_q, Age(rx_baud_counter_q))'
        BY <3>6 DEF InStep, Age
      <4>2. Sampled(rx_q, Age(rx_baud_counter_q), SlotLine(RxSlot), SlotLine(RxSlot + 1))'
        BY <3>3, <3>4 DEF Sampled, Age
      <4>3. rx_baud_counter_q' >= HalfBaud
        BY <3>1
      <4> QED
        BY <3>5, <4>1, <4>2, <4>3, Zenon DEF BusyInv
    <3> QED
      BY <2>7, <3>1, <3>7
  <2> QED
    BY <2>8, <2>9
<1>9. CASE /\ ClocksPerBaud = 2 /\ tx_state_q = "PROC" /\ tx_bit_counter_q = 0 /\ p = 0
           /\ wire # <<>> /\ ~rx_q[0] /\ ~rx_q[1] /\ rx_q[2]
  <2>1. rx_state_q' = "START" /\ rx_baud_counter_q' = HalfBaud /\ HalfBaud = 1
    <3>1. rx_start
      BY <1>9, Zenon DEF rx_start
    <3> QED
      BY <1>4, <1>9, <3>1
  <2>2. /\ tx_state_q' = "PROC" /\ tx_bit_counter_q' = 0 /\ tx_baud_counter_q' = 1
        /\ tx_current_byte_q' = tx_current_byte_q
    BY <1>1, <1>9, TxMoves
  <2>3. wire' = wire
    <3>1. ~tx_fifo_rready
      BY <1>9 DEF tx_fifo_rready
    <3> QED
      BY <1>5, <3>1
  <2>4. BytesInv'
    BY <1>1, <1>6, <1>9, <2>2, <2>3 DEF BytesInv
  <2>5. uart_tx_o = Head(wire)[1]
    <3>1. tx_current_byte_q[1] \in BOOLEAN /\ 1 \in 1 .. Bits - tx_bit_counter_q
      BY <1>9 DEF TypeOK, TxTypeOK, Byte
    <3>2. tx_current_byte_q[1] = Head(wire)[1 + tx_bit_counter_q]
      BY <1>9, <3>1, Zenon DEF BytesInv
    <3>3. 1 + tx_bit_counter_q = 1
      BY <1>9
    <3>4. tx_state_q \notin {"IDLE", "STOP"}
      BY <1>9
    <3>5. uart_tx_o = tx_current_byte_q[1]
      BY <1>9, <3>1, <3>4, Zenon DEF uart_tx_o
    <3> QED
      BY <3>2, <3>3, <3>5, Zenon
  <2>6. RxSlot' = 0 /\ TxSlot' = 1 /\ Age(rx_baud_counter_q') = 3
    BY <2>1, <2>2 DEF RxSlot, TxSlot, Age
  <2>7. SlotLine(RxSlot)' = FALSE /\ SlotLine(RxSlot + 1)' = Head(wire)[1]
    <3>1. 1 \in 1 .. Bits /\ 0 + 1 = 1
      OBVIOUS
    <3>2. Level(0, Head(wire'), tx_state_q' # "START") = FALSE
      BY LevelIs, Zenon
    <3>3. Level(1, Head(wire'), tx_state_q' # "START") = Head(wire')[1]
      BY <3>1, LevelIs, Zenon
    <3> QED
      BY <2>3, <2>6, <3>1, <3>2, <3>3, Zenon DEF SlotLine
  <2>8. rx_q'[0] = Head(wire)[1] /\ rx_q'[1] = FALSE /\ rx_q'[2] = FALSE
    <3>1. rx_q[0] \in BOOLEAN /\ rx_q[1] \in BOOLEAN
      BY DEF TypeOK, RxTypeOK
    <3> QED
      BY <1>2, <1>9, <2>5, <3>1, Zenon
  <2>9. Sampled(rx_q', 3, FALSE, Head(wire)[1])
    <3>1. \A i \in 0 .. 2 : \/ i = 0 /\ 3 - 1 - i \notin 0 .. ClocksPerBaud - 1
                            \/ i \in {1, 2} /\ ~(3 - 1 - i >= ClocksPerBaud)
      BY <1>9
    <3>2. \A i \in {1, 2} : rx_q'[i] = FALSE
      BY <2>8
    <3> QED
      BY <2>8, <3>1, <3>2, Zenon DEF Sampled
  <2>10. BusyInv'
    <3>1. InStep(TxSlot, RxSlot, tx_baud_counter_q, Age(rx_baud_counter_q))'
      BY <1>9, <2>2, <2>6 DEF InStep, Age
    <3>2. Sampled(rx_q, Age(rx_baud_counter_q), SlotLine(RxSlot), SlotLine(RxSlot + 1))'
      BY <2>6, <2>7, <2>9 DEF Sampled, Age
    <3>3. rx_baud_counter_q' >= HalfBaud /\ 1 # 0
      BY <2>1
    <3> QED
      BY <1>9, <2>3, <2>6, <3>1, <3>2, <3>3, Zenon DEF BusyInv
  <2> QED
    BY <2>1, <2>4, <2>10
<1> QED
  BY <1>7, <1>8, <1>9, Zenon DEF IdleInv

(* Every edge keeps what relates the two ends                              *)
LEMMA LinkStep ==
  ASSUME TypeOK, TypeOK', FrameHasByte, LinkInv,
         NEW wvalid, NEW wdata, NEW rready, Clock(wvalid, wdata, rready)
  PROVE  LinkInv'
<1> SUFFICES ASSUME ~coincided'
             PROVE  BytesInv' /\ IF rx_state_q' = "IDLE" THEN IdleInv' ELSE BusyInv'
  BY Zenon DEF LinkInv
<1>1. ~coincided
  BY Zenon DEF Clock
<1>2. CASE rx_state_q = "IDLE"
  BY <1>1, <1>2, FrameEnters, Zenon DEF LinkInv
<1>3. CASE rx_state_q # "IDLE" /\ rx_state_q' # "IDLE"
  BY <1>1, <1>3, BusyStays, Zenon DEF LinkInv
<1>4. CASE rx_state_q # "IDLE" /\ rx_state_q' = "IDLE"
  BY <1>1, <1>4, FrameLeaves, Zenon DEF LinkInv
<1> QED
  BY <1>2, <1>3, <1>4
---------------------------------------------------------------------------
(* FrameHasByte is inductive once the types are known: the state machine   *)
(* reaches START from a look at a FIFO that held a byte, and no edge pops  *)
(* it until START is left.  ReceivedAsSent needs LinkInv: which bit each   *)
(* end is in, and which samples of it are on their way.                    *)
Inv == TypeOK /\ FrameHasByte /\ LinkInv

(* The initial state and every step                                        *)
LEMMA InitInv == Init => Inv
<1> SUFFICES ASSUME Init PROVE Inv
  OBVIOUS
<1> USE FrameAssumption, RxAssumption, TxAssumption, ZeroByteType
<1>1. TxTypeOK
  BY SMT DEF Init, TxInit, TxTypeOK, uart_state_t
<1>2. RxTypeOK
  <2>1. rx_q \in [0 .. 2 -> BOOLEAN]
    BY SMT DEF Init
  <2> QED
    BY <2>1, SMT DEF Init, RxTypeOK, uart_state_t
<1>3. wire \in Seq(Byte) /\ FrameHasByte
  BY SMT DEF Init, TxInit, FrameHasByte
<1>4. LinkInv
  <2>1. /\ rx_state_q = "IDLE" /\ tx_state_q = "IDLE" /\ wire = <<>> /\ Len(wire) <= 1
        /\ rx_state_q \notin {"PROC", "STOP"} /\ tx_state_q # "PROC"
    BY DEF Init, TxInit
  <2>2. rx_q[0] /\ rx_q[1] /\ rx_q[2]
    <3>1. 0 \in 0 .. 2 /\ 1 \in 0 .. 2 /\ 2 \in 0 .. 2
      BY SMT
    <3> QED
      BY <3>1, Zenon DEF Init
  <2>3. IdleInv
    BY <2>1, <2>2, Zenon DEF IdleInv
  <2>4. BytesInv
    BY <2>1 DEF BytesInv
  <2> QED
    BY <2>1, <2>3, <2>4, Zenon DEF LinkInv
<1> QED
  BY <1>1, <1>2, <1>3, <1>4 DEF Inv, TypeOK

LEMMA StepInv == Inv /\ [Next]_vars => Inv'
<1> SUFFICES ASSUME Inv, [Next]_vars PROVE Inv'
  OBVIOUS
<1>1. ASSUME NEW wvalid \in BOOLEAN, NEW rready \in BOOLEAN, NEW wdata \in Byte,
             Clock(wvalid, wdata, rready)
      PROVE  Inv'
  <2>1. TxTypeOK' /\ FrameHasByte'
    BY <1>1, TxStep DEF Clock, Inv, TypeOK
  <2>2. uart_tx_o \in BOOLEAN
    BY DEF uart_tx_o
  <2>3. RxTypeOK'
    BY <1>1, <2>2, RxStep DEF Clock, Inv, TypeOK
  <2>4. wire' \in Seq(Byte)
    <3>1. QueueOut(tx_fifo, ZeroByte) \in Byte
      BY ZeroByteType, QueueOutType DEF Inv, TypeOK, TxTypeOK
    <3>2. Wire \in Seq(Byte)
      BY SMT DEF Wire, Inv, TypeOK
    <3> QED
      BY <1>1, <3>1, <3>2, SMT DEF Clock
  <2>5. TypeOK'
    BY <2>1, <2>3, <2>4 DEF TypeOK
  <2>6. LinkInv'
    BY <1>1, <2>5, LinkStep DEF Inv
  <2> QED
    BY <2>1, <2>5, <2>6 DEF Inv
<1>2. CASE UNCHANGED vars
  <2>1. /\ rx_q' = rx_q /\ rx_baud_counter_q' = rx_baud_counter_q /\ rx_state_q' = rx_state_q
        /\ rx_bit_counter_q' = rx_bit_counter_q /\ rx_current_byte_q' = rx_current_byte_q
        /\ rx_fifo' = rx_fifo /\ wire' = wire /\ coincided' = coincided
        /\ tx_baud_counter_q' = tx_baud_counter_q /\ tx_state_q' = tx_state_q
        /\ tx_bit_counter_q' = tx_bit_counter_q /\ tx_current_byte_q' = tx_current_byte_q
        /\ tx_fifo' = tx_fifo
    BY <1>2 DEF vars, rxvars, txvars
  <2>2. TypeOK' /\ FrameHasByte'
    BY <2>1, Zenon DEF Inv, TypeOK, RxTypeOK, TxTypeOK, FrameHasByte
  <2>3. /\ TxSlot' = TxSlot /\ RxSlot' = RxSlot
        /\ SlotLine(RxSlot)' = SlotLine(RxSlot) /\ SlotLine(RxSlot + 1)' = SlotLine(RxSlot + 1)
    BY <2>1, Zenon DEF TxSlot, RxSlot, SlotLine
  <2>4. BusyInv' = BusyInv
    BY <2>1, <2>3, Zenon DEF BusyInv, Sampled, InStep, Age
  <2>5. IdleInv' = IdleInv
    BY <2>1, Zenon DEF IdleInv
  <2>6. BytesInv' = BytesInv
    BY <2>1, Zenon DEF BytesInv
  <2> QED
    BY <2>1, <2>2, <2>4, <2>5, <2>6, Zenon DEF Inv, LinkInv
<1> QED
  BY <1>1, <1>2 DEF Next

LEMMA InvAlways == Spec => []Inv
  BY InitInv, StepInv, PTL DEF Spec

(* Counters stay below ClocksPerBaud and Bits and FIFOs within their depth *)
(* (uart.sv).                                                              *)
THEOREM TypeCorrect == Spec => []TypeOK
<1>1. Inv => TypeOK
  BY DEF Inv
<1> QED
  BY <1>1, InvAlways, PTL

(* The zero an empty transmit FIFO shows is never sent (uart.sv:281-298).  *)
THEOREM FrameAlwaysHasByte == Spec => []FrameHasByte
<1>1. Inv => FrameHasByte
  BY DEF Inv
<1> QED
  BY <1>1, InvAlways, PTL

(* Every byte popped from the transmit FIFO of one UART goes into the      *)
(* receive FIFO of the other, once, whole and in order, as long as no      *)
(* start edge coincides with the receiver's tick: the two state machines   *)
(* of uart.sv agree on the frame for every bit time from two cycles on.    *)
THEOREM AlwaysReceivedAsSent == Spec => []ReceivedAsSent
<1>1. Inv => ReceivedAsSent
  <2> SUFFICES ASSUME Inv, ~coincided
               PROVE  /\ FrameEnds => wire # <<>> /\ rx_valid /\ rx_current_byte_q = Head(wire)
                      /\ Len(wire) <= 1
    BY Zenon DEF ReceivedAsSent
  <2>1. TypeOK /\ BytesInv /\ Len(wire) <= 1
    BY Zenon DEF Inv, LinkInv, BytesInv
  <2>2. ASSUME FrameEnds
        PROVE  wire # <<>> /\ rx_valid /\ rx_current_byte_q = Head(wire)
    <3>1. rx_state_q = "STOP" /\ rx_baud_counter_q = ClocksPerBaud - 1
      BY <2>2 DEF FrameEnds, rx_baud_tick
    <3>2. BusyInv /\ rx_state_q # "IDLE"
      BY <3>1 DEF Inv, LinkInv
    <3>3. RxSlot = Bits + 1
      BY <2>1, <3>1, <3>2, Slots
    <3>4. wire # <<>>
      <4>1. TxSlot # 0
        <5>1. InStep(TxSlot, RxSlot, tx_baud_counter_q, Age(rx_baud_counter_q))
          BY <3>2, Zenon DEF BusyInv
        <5> QED
          BY <2>1, <3>2, <3>3, <5>1, HalfBaudIs, Slots DEF InStep
      <4> QED
        BY <3>2, <4>1, Zenon DEF BusyInv
    <3>5. rx_q[2] = SlotLine(Bits + 1)
      <4>1. Sampled(rx_q, Age(rx_baud_counter_q), SlotLine(Bits + 1), SlotLine(Bits + 1 + 1))
        BY <3>2, <3>3, Zenon DEF BusyInv
      <4>2. Age(rx_baud_counter_q) - 1 - 2 \in 0 .. ClocksPerBaud - 1 /\ 2 \in 0 .. 2
        BY <3>1, HalfBaudIs DEF Age
      <4> QED
        BY <4>1, <4>2, Zenon DEF Sampled
    <3>6. rx_valid
      BY <3>1, <3>5, LineIs, Zenon DEF rx_valid
    <3> QED
      BY <2>1, <3>1, <3>4, <3>6, Zenon DEF BytesInv
  <2> QED
    BY <2>1, <2>2
<1> QED
  BY <1>1, InvAlways, PTL
---------------------------------------------------------------------------
(***************************************************************************)
(* The line whose other end is not a UART of ours but a transmitter whose  *)
(* frames are a little too long or too short.  Two slots and how far each  *)
(* end is in its own tell everything again; the part u of the skew that    *)
(* the transmitter has used moves its slots against the receiver's.        *)
(***************************************************************************)
(* The transmitter's slot, and how far it is in it, counted from its end   *)
PcSlot == pc_bit - 1
PcElapsed == ClocksPerBaud - pc_left
PcLevel(slot) == Level(slot, pc_byte, TRUE)

PcTypeOK == /\ pc_bit \in 0 .. StopBit /\ pc_left \in Nat \ {0} /\ pc_byte \in Byte
            /\ pc_skew \in -Early .. Late
            /\ pc_bit = 0 => pc_left = 1
LineTypeOK == RxTypeOK /\ PcTypeOK /\ pending \in Seq(Byte)

(* The frame has used the part u of its skew: none while that is still to  *)
(* come, nor in the start bit                                              *)
SkewUsed(u) == /\ pc_skew # 0 \/ pc_bit = 1 => u = 0
               /\ pc_left <= ClocksPerBaud \/ pc_left <= ClocksPerBaud + u

(* What the receiver sampled p cycles into its slot is certainly of this   *)
(* slot, or of the next, wherever the skew u moved the slot's two ends;    *)
(* lead: the number of slots the transmitter is ahead                      *)
OfThis(u, lead, p) == /\ p >= 0 /\ p >= u
                      /\ lead = 1 => p < ClocksPerBaud /\ p < ClocksPerBaud + u
OfNext(u, lead, p) == lead = 1 /\ p >= ClocksPerBaud /\ p >= ClocksPerBaud + u

SampledSkewed(u, q, age, lead, this, next) ==
  \A i \in 0 .. 2 : /\ OfThis(u, lead, age - 1 - i) => q[i] = this
                    /\ OfNext(u, lead, age - 1 - i) => q[i] = next

(* One edge of the transmitter's within a frame: one cycle further in this *)
(* slot or, with the skew used now or not, into the next                   *)
PcEdge(u, e, tx, u1, e1, tx1) ==
  /\ -Early <= u1 /\ u1 <= Late /\ (u1 = u \/ u = 0)
  /\ \/ e # ClocksPerBaud - 1 /\ u1 = u /\ tx1 = tx /\ e1 + u1 = e + u + 1
     \/ e = ClocksPerBaud - 1 /\ tx1 = tx + 1 /\ e1 + u1 = e + u + 1 - ClocksPerBaud

(* Both ends are in the same frame                                         *)
InFrame(u) ==
  /\ pc_bit # 0 /\ pending = <<pc_byte>> /\ SkewUsed(u)
  /\ rx_state_q = "START" => rx_baud_counter_q >= HalfBaud
  /\ InStep(PcSlot, RxSlot, PcElapsed + u, Age(rx_baud_counter_q))
  /\ SampledSkewed(u, rx_q, Age(rx_baud_counter_q), PcSlot - RxSlot,
                   PcLevel(RxSlot), PcLevel(RxSlot + 1))

(* The transmitter is done, the receiver still waits for the middle of the *)
(* stop bit                                                                *)
FrameOver ==
  /\ rx_state_q = "STOP" /\ pc_bit = 0 /\ Len(pending) = 1
  /\ Age(rx_baud_counter_q) >= ClocksPerBaud - Early
  /\ \A i \in 0 .. 2 : Age(rx_baud_counter_q) - 1 - i >= Late => rx_q[i]

(* ... and the transmitter is in the next start bit already                *)
NextFrame ==
  /\ rx_state_q = "STOP" /\ pc_bit = 1
  /\ \E older \in Byte : pending = <<older, pc_byte>>
  /\ PcElapsed >= 0 /\ Age(rx_baud_counter_q) >= ClocksPerBaud - Early + PcElapsed
  /\ \A i \in 0 .. 2 :
       /\ i < PcElapsed => ~rx_q[i]
       /\ i >= PcElapsed /\ Age(rx_baud_counter_q) - 1 - i >= Late => rx_q[i]

(* The receiver waits: nothing is sent                                     *)
Quiet == /\ pc_bit \in {0, StopBit} /\ pending = <<>>
         /\ rx_q[1] => rx_q[0]
         /\ rx_q[2] => rx_q[1]

(* ... or the first e cycles of a frame are in the synchroniser            *)
FrameBegins(u, e) ==
  /\ pc_bit # 0 /\ pending = <<pc_byte>> /\ SkewUsed(u)
  /\ InStep(PcSlot, 0, PcElapsed + u, e)
  /\ (rx_q[0] <=> e = 0) /\ (rx_q[1] <=> e <= 1) /\ rx_q[2]

(* What has been received of the byte on the line                          *)
ReceivedInv ==
  /\ rx_state_q = "PROC" =>
       \A i \in 1 .. rx_bit_counter_q :
         rx_current_byte_q[Bits - rx_bit_counter_q + i] = Head(pending)[i]
  /\ rx_state_q = "STOP" => rx_current_byte_q = Head(pending)

LineInv ==
  ~coincided =>
    /\ ReceivedInv
    /\ IF rx_state_q = "IDLE"
         THEN Quiet \/ \E u \in -Early .. Late, e \in 0 .. 2 : FrameBegins(u, e)
         ELSE FrameOver \/ NextFrame \/ \E u \in -Early .. Late : InFrame(u)
---------------------------------------------------------------------------
(* A frame's skew is less than half a bit, either way                      *)
LEMMA SkewIs == /\ Early \in Nat /\ Early <= HalfBaud - 1
                /\ Late \in Nat /\ Late <= ClocksPerBaud - 1 - HalfBaud
  BY FrameAssumption, SkewAssumption, SMT DEF HalfBaud

(* The skews in inequalities                                               *)
LEMMA SkewRange == \A u : u \in -Early .. Late <=> u \in Int /\ -Early <= u /\ u <= Late
  BY SkewAssumption, SMT

(* The transmitter goes on within its frame: one edge, of which the slots  *)
(* and the skew used tell all                                              *)
LEMMA PcMoves ==
  ASSUME PcTypeOK, NEW u \in Int, -Early <= u, u <= Late, SkewUsed(u), PcHold \/ PcNextBit
  PROVE  /\ PcElapsed' \in Int /\ PcSlot' \in Int
         /\ \E u1 \in Int : SkewUsed(u1)' /\ PcEdge(u, PcElapsed, PcSlot, u1, PcElapsed', PcSlot')
<1> USE HalfBaudIs, SkewIs
<1>1. pc_bit \in Int /\ pc_left \in Nat \ {0} /\ pc_skew \in Int /\ -Early <= pc_skew /\ pc_skew <= Late
  BY DEF PcTypeOK, StopBit
<1>2. CASE PcHold
  <2>1. /\ PcElapsed # ClocksPerBaud - 1 /\ PcElapsed \in Int /\ PcElapsed' = PcElapsed + 1
        /\ PcSlot' = PcSlot /\ PcSlot \in Int /\ SkewUsed(u)'
    BY <1>1, <1>2 DEF SkewUsed, PcHold, PcSlot, PcElapsed
  <2> QED
    BY <2>1 DEF PcEdge
<1>3. CASE PcNextBit
  <2>1. /\ pc_bit' # 1 /\ PcSlot' = PcSlot + 1 /\ PcSlot \in Int /\ PcSlot' \in Int
        /\ PcElapsed = ClocksPerBaud - 1 /\ PcElapsed \in Int /\ PcElapsed' \in Int
    BY <1>1, <1>3 DEF PcNextBit, PcSlot, PcElapsed
  <2>2. ASSUME NEW s \in Int, s = pc_skew, pc_left' = ClocksPerBaud + s, pc_skew' = 0, s # 0
        PROVE  SkewUsed(s)' /\ PcEdge(u, PcElapsed, PcSlot, s, PcElapsed', PcSlot')
    <3>1. SkewUsed(s)' /\ PcElapsed' + s = 0
      BY <1>1, <2>1, <2>2 DEF SkewUsed, PcElapsed
    <3>2. u = 0
      BY <2>2, Zenon DEF SkewUsed
    <3>3. PcElapsed' + s = PcElapsed + u + 1 - ClocksPerBaud
      <4>1. PcElapsed + u + 1 - ClocksPerBaud = 0
        BY <2>1, <3>2
      <4> QED
        BY <3>1, <4>1, Zenon
    <3>4. -Early <= s /\ s <= Late
      BY <1>1, <2>2
    <3> QED
      BY <2>1, <3>1, <3>2, <3>3, <3>4, Zenon DEF PcEdge
  <2>3. CASE pc_left' = ClocksPerBaud /\ pc_skew' = pc_skew
    <3>1. SkewUsed(u)' /\ PcElapsed' = 0
      BY <1>1, <2>1, <2>3 DEF SkewUsed, PcElapsed
    <3> QED
      BY <1>1, <2>1, <3>1 DEF PcEdge
  <2>4. \/ pc_left' = ClocksPerBaud + pc_skew /\ pc_skew' = 0 /\ pc_skew # 0
        \/ pc_left' = ClocksPerBaud /\ pc_skew' = pc_skew
    BY <1>1, <1>3 DEF PcNextBit
  <2>5. CASE pc_left' = ClocksPerBaud + pc_skew /\ pc_skew' = 0 /\ pc_skew # 0
    <3>1. \E s \in Int : s = pc_skew
      BY <1>1
    <3>2. PICK s \in Int : s = pc_skew
      BY <3>1
    <3>3. SkewUsed(s)' /\ PcEdge(u, PcElapsed, PcSlot, s, PcElapsed', PcSlot')
      BY <2>2, <2>5, <3>2, Zenon
    <3> QED
      BY <2>1, <3>3, Zenon
  <2> QED
    BY <2>3, <2>4, <2>5
<1> QED
  BY <1>2, <1>3

(* The level on the line is that of the transmitter's slot                 *)
LEMMA PcLineIs ==
  ASSUME PcTypeOK
  PROVE  /\ pc_bit # 0 => PcLine = PcLevel(PcSlot) /\ PcSlot \in 0 .. Bits + 1
         /\ pc_bit \in {0, StopBit} => PcLine = TRUE
         /\ pc_bit = 1 => PcLine = FALSE
<1> USE HalfBaudIs
<1>1. pc_bit \in 0 .. Bits + 2 /\ pc_byte \in Byte /\ StopBit = Bits + 2 /\ PcSlot = pc_bit - 1
  BY DEF PcTypeOK, StopBit, PcSlot
<1>2. pc_bit \in {0, StopBit} => PcLine = TRUE
  BY Zenon DEF PcLine
<1>3. pc_bit = 1 => PcLine = FALSE /\ PcSlot = 0
  BY <1>1 DEF PcLine
<1>4. pc_bit \in 2 .. Bits + 1 => /\ PcLine = pc_byte[PcSlot] /\ PcSlot \in 1 .. Bits
  <2> SUFFICES ASSUME pc_bit \in 2 .. Bits + 1
               PROVE  PcLine = pc_byte[PcSlot] /\ PcSlot \in 1 .. Bits
    OBVIOUS
  <2>1. PcSlot \in 1 .. Bits /\ pc_bit # 0 /\ pc_bit # StopBit
    BY <1>1
  <2>2. pc_byte[PcSlot] \in BOOLEAN
    BY <1>1, <2>1 DEF Byte
  <2> QED
    BY <1>1, <2>1, <2>2, Zenon DEF PcLine
<1>5. /\ PcLevel(0) = FALSE /\ PcLevel(Bits + 1) = TRUE
      /\ \A slot \in 1 .. Bits : PcLevel(slot) = pc_byte[slot]
  BY LevelIs, Zenon DEF PcLevel
<1>6. CASE pc_bit = 1
  <2>1. pc_bit \notin {0, StopBit} /\ 0 \in 0 .. Bits + 1
    BY <1>1, <1>6
  <2> QED
    BY <1>3, <1>5, <1>6, <2>1, Zenon
<1>7. CASE pc_bit \in 2 .. Bits + 1
  <2>1. pc_bit \notin {0, StopBit} /\ pc_bit # 1 /\ PcSlot \in 0 .. Bits + 1
    BY <1>1, <1>7
  <2> QED
    BY <1>4, <1>5, <1>7, <2>1, Zenon
<1>8. CASE pc_bit = StopBit
  <2>1. PcSlot = Bits + 1 /\ pc_bit # 1 /\ PcSlot \in 0 .. Bits + 1
    BY <1>1, <1>8
  <2> QED
    BY <1>2, <1>5, <1>8, <2>1, Zenon
<1>9. CASE pc_bit = 0
  <2>1. pc_bit # 1
    BY <1>9
  <2> QED
    BY <1>2, <1>9, <2>1, Zenon
<1>10. pc_bit = 0 \/ pc_bit = 1 \/ pc_bit \in 2 .. Bits + 1 \/ pc_bit = StopBit
  BY <1>1
<1> QED
  BY <1>6, <1>7, <1>8, <1>9, <1>10, Zenon

(* The receiver's slot                                                     *)
LEMMA RxSlotIs ==
  ASSUME RxTypeOK, rx_state_q # "IDLE"
  PROVE  /\ RxSlot \in 0 .. Bits + 1
         /\ RxSlot = 0 <=> rx_state_q = "START"
         /\ RxSlot \in 1 .. Bits <=> rx_state_q = "PROC"
         /\ RxSlot = Bits + 1 <=> rx_state_q = "STOP"
         /\ rx_state_q = "PROC" => RxSlot = rx_bit_counter_q + 1
         /\ rx_state_q \in {"START", "PROC", "STOP"}
         /\ rx_baud_counter_q \in 0 .. ClocksPerBaud - 1
         /\ rx_bit_counter_q \in 0 .. Bits - 1
  BY HalfBaudIs DEF RxTypeOK, RxSlot, uart_state_t

(* One edge of the receiver's within a frame, when the start bit is still  *)
(* low in its middle                                                       *)
LEMMA RxSlotSteps ==
  ASSUME RxTypeOK, rx_state_q # "IDLE", NEW line, NEW rready, RxClock(line, rready),
         rx_state_q = "START" /\ rx_baud_counter_q = ClocksPerBaud - 1 => ~rx_q[2]
  PROVE  /\ rx_baud_counter_q # ClocksPerBaud - 1 =>
              /\ rx_baud_counter_q' = rx_baud_counter_q + 1
              /\ rx_state_q' = rx_state_q /\ RxSlot' = RxSlot
         /\ rx_baud_counter_q = ClocksPerBaud - 1 => rx_baud_counter_q' = 0
         /\ rx_baud_counter_q = ClocksPerBaud - 1 /\ rx_state_q # "STOP" =>
              rx_state_q' \in {"PROC", "STOP"} /\ RxSlot' = RxSlot + 1
         /\ rx_baud_counter_q = ClocksPerBaud - 1 /\ rx_state_q = "STOP" => rx_state_q' = "IDLE"
<1> USE HalfBaudIs
<1>1. rx_state_q \in {"START", "PROC", "STOP"} /\ rx_bit_counter_q \in 0 .. Bits - 1
  BY RxSlotIs
<1>2. CASE rx_baud_counter_q # ClocksPerBaud - 1
  <2>1. /\ rx_baud_counter_q' = rx_baud_counter_q + 1 /\ rx_state_q' = rx_state_q
        /\ rx_bit_counter_q' = rx_bit_counter_q
    BY <1>2, RxMoves
  <2> QED
    BY <1>2, <2>1 DEF RxSlot
<1>3. CASE rx_baud_counter_q = ClocksPerBaud - 1
  <2>1. rx_baud_counter_q' = 0 /\ (rx_state_q = "STOP" => rx_state_q' = "IDLE")
    BY <1>3, RxMoves
  <2>2. CASE rx_state_q = "START"
    <3>1. rx_state_q' = "PROC" /\ rx_bit_counter_q' = 0
      BY <1>3, <2>2, RxMoves, Zenon
    <3> QED
      BY <1>3, <2>1, <2>2, <3>1 DEF RxSlot
  <2>3. CASE rx_state_q = "PROC"
    <3>1. \/ rx_bit_counter_q = Bits - 1 /\ rx_state_q' = "STOP"
          \/ rx_state_q' = "PROC" /\ rx_bit_counter_q' = rx_bit_counter_q + 1
      BY <1>3, <2>3, RxMoves, Zenon
    <3> QED
      BY <1>1, <1>3, <2>1, <2>3, <3>1 DEF RxSlot
  <2>4. CASE rx_state_q = "STOP"
    BY <1>3, <2>1, <2>4
  <2> QED
    BY <1>1, <2>2, <2>3, <2>4
<1> QED
  BY <1>2, <1>3

(* Whichever end wraps, a clock edge keeps both in step; neither gets two  *)
(* slots ahead                                                             *)
LEMMA SkewedInStep ==
  ASSUME NEW u \in Int, -Early <= u, u <= Late, NEW e \in Int, e <= ClocksPerBaud - 1,
         NEW tx \in Int, NEW rx \in Int, NEW c \in 0 .. ClocksPerBaud - 1,
         InStep(tx, rx, e + u, Age(c)),
         NEW u1 \in Int, NEW e1 \in Int, NEW tx1 \in Int, PcEdge(u, e, tx, u1, e1, tx1)
  PROVE  InStep(tx1, IF c = ClocksPerBaud - 1 THEN rx + 1 ELSE rx, e1 + u1,
                Age(IF c = ClocksPerBaud - 1 THEN 0 ELSE c + 1))
  BY HalfBaudIs, SkewIs, SMT DEF InStep, Age, PcEdge

(* ... also before the receiver has seen the frame, n cycles into it       *)
LEMMA BeginsInStep ==
  ASSUME NEW u \in Int, -Early <= u, u <= Late,
         NEW e \in Int, 0 <= e \/ -u <= e, e <= ClocksPerBaud - 1,
         NEW tx \in Nat, NEW n \in 0 .. 2, InStep(tx, 0, e + u, n),
         NEW u1 \in Int, NEW e1 \in Int, NEW tx1 \in Int, PcEdge(u, e, tx, u1, e1, tx1)
  PROVE  InStep(tx1, 0, e1 + u1, n + 1)
  BY HalfBaudIs, SkewIs, SMT DEF InStep, PcEdge

(* The receiver samples a slot while its own level is on rx_q[2]           *)
LEMMA SampledInSlot ==
  ASSUME NEW u \in Int, -Early <= u, u <= Late, NEW q, NEW lead, NEW this, NEW next,
         SampledSkewed(u, q, Age(ClocksPerBaud - 1), lead, this, next)
  PROVE  q[2] = this
<1>1. OfThis(u, lead, Age(ClocksPerBaud - 1) - 1 - 2)
  BY HalfBaudIs, SkewIs, SMT DEF Age, OfThis
<1>2. 2 \in 0 .. 2
  OBVIOUS
<1> QED
  BY <1>1, <1>2, Zenon DEF SampledSkewed

(* The synchroniser moves on by one sample: what it holds is of the slots  *)
(* it was of, and the new one is of the transmitter's slot.  The receiver  *)
(* goes on, or into its next slot.                                         *)
LEMMA SkewedSlots ==
  ASSUME NEW u \in Int, -Early <= u, u <= Late,
         NEW e \in Int, 0 <= e \/ -u <= e, e <= ClocksPerBaud - 1,
         NEW tx \in Int, NEW rx \in Int, NEW c \in 0 .. ClocksPerBaud - 2,
         InStep(tx, rx, e + u, Age(c)),
         NEW u1 \in Int, NEW e1 \in Int, NEW tx1 \in Int, PcEdge(u, e, tx, u1, e1, tx1)
  PROVE  /\ OfThis(u1, tx1 - rx, Age(c + 1) - 1 - 0) => tx = rx
         /\ OfNext(u1, tx1 - rx, Age(c + 1) - 1 - 0) => tx = rx + 1
         /\ OfThis(u1, tx1 - rx, Age(c + 1) - 1 - 1) => OfThis(u, tx - rx, Age(c) - 1 - 0)
         /\ OfNext(u1, tx1 - rx, Age(c + 1) - 1 - 1) => OfNext(u, tx - rx, Age(c) - 1 - 0)
         /\ OfThis(u1, tx1 - rx, Age(c + 1) - 1 - 2) => OfThis(u, tx - rx, Age(c) - 1 - 1)
         /\ OfNext(u1, tx1 - rx, Age(c + 1) - 1 - 2) => OfNext(u, tx - rx, Age(c) - 1 - 1)
  BY HalfBaudIs, SkewIs, SMT DEF OfThis, OfNext, InStep, Age, PcEdge

(* ... also the first sample of a start bit that the receiver counts       *)
LEMMA FirstSlots ==
  ASSUME NEW u \in Int, -Early <= u, u <= Late,
         NEW e \in Int, 0 <= e \/ -u <= e, e <= ClocksPerBaud - 1,
         NEW tx \in Nat, tx = 0 => u = 0, InStep(tx, 0, e + u, 2),
         NEW u1 \in Int, NEW e1 \in Int, NEW tx1 \in Int, PcEdge(u, e, tx, u1, e1, tx1)
  PROVE  /\ OfThis(u1, tx1 - 0, 3 - 1 - 0) => tx = 0
         /\ OfNext(u1, tx1 - 0, 3 - 1 - 0) => tx = 0 + 1
         /\ ~OfNext(u1, tx1 - 0, 3 - 1 - 1) /\ ~OfNext(u1, tx1 - 0, 3 - 1 - 2)
  BY HalfBaudIs, SkewIs, SMT DEF OfThis, OfNext, InStep, PcEdge

(* ... and when the receiver goes into its next slot                       *)
LEMMA SkewedSlotsTick ==
  ASSUME NEW u \in Int, -Early <= u, u <= Late,
         NEW e \in Int, 0 <= e \/ -u <= e, e <= ClocksPerBaud - 1,
         NEW tx \in Int, NEW rx \in Int, InStep(tx, rx, e + u, Age(ClocksPerBaud - 1)),
         NEW u1 \in Int, NEW e1 \in Int, NEW tx1 \in Int, PcEdge(u, e, tx, u1, e1, tx1)
  PROVE  /\ OfThis(u1, tx1 - (rx + 1), Age(0) - 1 - 0) => tx = rx + 1
         /\ OfThis(u1, tx1 - (rx + 1), Age(0) - 1 - 1) => OfNext(u, tx - rx, Age(ClocksPerBaud - 1) - 1 - 0)
         /\ OfThis(u1, tx1 - (rx + 1), Age(0) - 1 - 2) => OfNext(u, tx - rx, Age(ClocksPerBaud - 1) - 1 - 1)
         /\ \A i \in 0 .. 2 : ~OfNext(u1, tx1 - (rx + 1), Age(0) - 1 - i)
  BY HalfBaudIs, SkewIs, SMT DEF OfThis, OfNext, InStep, Age, PcEdge
---------------------------------------------------------------------------
(* The history, as long as no start edge has met the receiver's tick       *)
LEMMA PendingMoves ==
  ASSUME pending \in Seq(Byte), NEW rready, LineClock(rready), ~coincided'
  PROVE  /\ ~coincided /\ ~(rx_start /\ rx_baud_tick)
         /\ RxClock(PcLine, rready)
         /\ \/ (PcIdle \/ PcHold \/ PcNextBit) /\ pending' = Waiting
            \/ PcBegin /\ pending' = Append(Waiting, pc_byte')
         /\ ~FrameEnds => Waiting = pending
         /\ FrameEnds => \A older : /\ pending = <<older>> => Waiting = <<>>
                                    /\ \A younger : pending = <<older, younger>> => Waiting = <<younger>>
<1>1. ~coincided /\ ~(rx_start /\ rx_baud_tick) /\ RxClock(PcLine, rready)
  BY Zenon DEF LineClock
<1>2. \/ (PcIdle \/ PcHold \/ PcNextBit) /\ pending' = Waiting
      \/ PcBegin /\ pending' = Append(Waiting, pc_byte')
  BY Zenon DEF LineClock
<1>3. ~FrameEnds => Waiting = pending
  BY Zenon DEF Waiting
<1>4. \A older : /\ <<older>> # <<>> /\ Tail(<<older>>) = <<>>
                 /\ \A younger : <<older, younger>> # <<>> /\ Tail(<<older, younger>>) = <<younger>>
  OBVIOUS
<1>5. FrameEnds => \A older : /\ pending = <<older>> => Waiting = <<>>
                              /\ \A younger : pending = <<older, younger>> => Waiting = <<younger>>
  BY <1>4, Zenon DEF Waiting
<1> QED
  BY <1>1, <1>2, <1>3, <1>5

(* Types                                                                   *)
LEMMA LineTypeStep ==
  ASSUME LineTypeOK, NEW rready \in BOOLEAN, LineClock(rready)
  PROVE  LineTypeOK'
<1> USE HalfBaudIs, SkewIs
<1>1. RxTypeOK'
  <2>1. PcLine \in BOOLEAN
    BY DEF PcLine
  <2> QED
    BY <2>1, RxStep DEF LineClock, LineTypeOK
<1>2. PcTypeOK' /\ (PcBegin => pc_byte' \in Byte)
  <2>1. /\ pc_bit \in 0 .. StopBit /\ StopBit = Bits + 2 /\ pc_left \in Nat \ {0} /\ pc_byte \in Byte
        /\ pc_skew \in -Early .. Late /\ (pc_bit = 0 => pc_left = 1)
    BY DEF LineTypeOK, PcTypeOK, StopBit
  <2>2. CASE PcIdle
    BY <2>1, <2>2 DEF PcIdle, PcTypeOK
  <2>3. CASE PcBegin
    BY <2>1, <2>3 DEF PcBegin, PcTypeOK
  <2>4. CASE PcHold
    BY <2>1, <2>4 DEF PcHold, PcTypeOK
  <2>5. CASE PcNextBit
    BY <2>1, <2>5 DEF PcNextBit, PcTypeOK
  <2>6. PcIdle \/ PcHold \/ PcNextBit \/ PcBegin
    BY Zenon DEF LineClock
  <2>7. PcBegin => pc_byte' \in Byte
    BY Zenon DEF PcBegin
  <2> QED
    BY <2>2, <2>3, <2>4, <2>5, <2>6, <2>7
<1>3. pending' \in Seq(Byte)
  <2>1. Waiting \in Seq(Byte) /\ <<>> \in Seq(Byte)
    BY DEF Waiting, LineTypeOK
  <2>2. PcBegin => Append(Waiting, pc_byte') \in Seq(Byte)
    BY <1>2, <2>1
  <2> QED
    BY <2>1, <2>2, Zenon DEF LineClock
<1> QED
  BY <1>1, <1>2, <1>3 DEF LineTypeOK

---------------------------------------------------------------------------
(* The byte comes in at the last place, a bit at each tick                 *)
LEMMA ReceivedStep ==
  ASSUME RxTypeOK, RxTypeOK', ReceivedInv, rx_state_q # "IDLE", rx_state_q' # "IDLE",
         NEW line, NEW rready, RxClock(line, rready),
         NEW byte \in Byte, Head(pending) = byte, Head(pending') = byte,
         rx_state_q = "PROC" /\ rx_baud_counter_q = ClocksPerBaud - 1 => rx_q[2] = byte[RxSlot]
  PROVE  ReceivedInv'
<1> USE HalfBaudIs
<1> DEFINE c == rx_baud_counter_q
           n == rx_bit_counter_q
           Last == ClocksPerBaud - 1
<1>1. n \in 0 .. Bits - 1 /\ n' \in 0 .. Bits - 1 /\ rx_state_q \in {"START", "PROC", "STOP"}
  BY RxSlotIs DEF RxTypeOK
<1>2. CASE c # Last
  <2>1. rx_state_q' = rx_state_q /\ n' = n /\ rx_current_byte_q' = rx_current_byte_q
    BY <1>2, RxMoves
  <2> QED
    BY <2>1, Zenon DEF ReceivedInv
<1>3. CASE c = Last /\ rx_state_q = "START"
  <2>1. rx_state_q' = "PROC" /\ n' = 0
    BY <1>3, RxMoves, Zenon
  <2> QED
    BY <2>1 DEF ReceivedInv
<1>4. CASE c = Last /\ rx_state_q = "PROC"
  <2>1. rx_current_byte_q' = ShiftIn(rx_current_byte_q, byte[n + 1])
    <3>1. RxSlot = n + 1
      BY <1>4, RxSlotIs
    <3> QED
      BY <1>4, <3>1, RxMoves
  <2>2. \A i \in 1 .. n + 1 : rx_current_byte_q'[Bits - (n + 1) + i] = byte[i]
    <3> SUFFICES ASSUME NEW i \in 1 .. n + 1
                 PROVE  rx_current_byte_q'[Bits - (n + 1) + i] = byte[i]
      OBVIOUS
    <3>1. CASE i = n + 1
      <4>1. Bits - (n + 1) + i = Bits
        BY <1>1, <3>1
      <4>2. rx_current_byte_q'[Bits] = byte[n + 1]
        BY <2>1 DEF ShiftIn
      <4> QED
        BY <3>1, <4>1, <4>2
    <3>2. CASE i # n + 1
      <4>1. /\ i \in 1 .. n
            /\ Bits - (n + 1) + i \in 1 .. Bits - 1
            /\ (Bits - (n + 1) + i) + 1 = Bits - n + i
        BY <1>1, <3>2
      <4>2. rx_current_byte_q[Bits - n + i] = byte[i]
        BY <1>4, <4>1, Zenon DEF ReceivedInv
      <4>3. rx_current_byte_q'[Bits - (n + 1) + i] = rx_current_byte_q[(Bits - (n + 1) + i) + 1]
        BY <2>1, <4>1 DEF ShiftIn
      <4> QED
        BY <4>1, <4>2, <4>3
    <3> QED
      BY <3>1, <3>2
  <2>3. CASE n = Bits - 1
    <3>1. rx_state_q' = "STOP"
      BY <1>4, <2>3, RxMoves
    <3>2. \A i \in 1 .. Bits : Bits - (n + 1) + i = i /\ i \in 1 .. n + 1
      BY <1>1, <2>3
    <3>3. \A i \in 1 .. Bits : rx_current_byte_q'[i] = byte[i]
      BY <2>2, <3>2
    <3>4. rx_current_byte_q' = byte
      BY <3>3 DEF RxTypeOK, Byte
    <3> QED
      BY <3>1, <3>4 DEF ReceivedInv
  <2>4. CASE n # Bits - 1
    <3>1. rx_state_q' = "PROC" /\ n' = n + 1
      BY <1>4, <2>4, RxMoves
    <3>2. \A i \in 1 .. n' : rx_current_byte_q'[Bits - n' + i] = Head(pending')[i]
      BY <2>2, <3>1, Zenon
    <3> QED
      BY <3>1, <3>2 DEF ReceivedInv
  <2> QED
    BY <2>3, <2>4
<1>5. CASE c = Last /\ rx_state_q = "STOP"
  BY <1>5, RxMoves
<1> QED
  BY <1>1, <1>2, <1>3, <1>4, <1>5

(* In a frame: what the counters say of the samples and the slots          *)
LEMMA InFrameIs ==
  ASSUME LineTypeOK, NEW u \in Int, -Early <= u, u <= Late, InFrame(u), rx_state_q # "IDLE"
  PROVE  /\ PcElapsed \in Int /\ (0 <= PcElapsed \/ -u <= PcElapsed) /\ PcElapsed <= ClocksPerBaud - 1
         /\ PcSlot \in 0 .. Bits + 1 /\ RxSlot \in 0 .. Bits + 1
         /\ rx_baud_counter_q \in 0 .. ClocksPerBaud - 1
         /\ PcSlot = RxSlot => PcLine = PcLevel(RxSlot)
         /\ PcSlot = RxSlot + 1 => PcLine = PcLevel(RxSlot + 1)
         /\ rx_baud_counter_q = ClocksPerBaud - 1 => rx_q[2] = PcLevel(RxSlot)
         /\ rx_state_q = "START" /\ rx_baud_counter_q = ClocksPerBaud - 1 => ~rx_q[2]
         /\ rx_state_q = "PROC" => PcLevel(RxSlot) = pc_byte[RxSlot]
         /\ pc_byte \in Byte
<1> USE HalfBaudIs
<1>1. RxTypeOK /\ PcTypeOK /\ pc_left \in Nat \ {0} /\ pc_bit # 0 /\ pc_byte \in Byte
  BY DEF LineTypeOK, PcTypeOK, InFrame
<1>2. PcElapsed \in Int /\ (0 <= PcElapsed \/ -u <= PcElapsed) /\ PcElapsed <= ClocksPerBaud - 1
  BY <1>1 DEF InFrame, SkewUsed, PcElapsed
<1>3. PcSlot \in 0 .. Bits + 1 /\ PcLine = PcLevel(PcSlot)
  BY <1>1, PcLineIs
<1>4. RxSlot \in 0 .. Bits + 1 /\ rx_baud_counter_q \in 0 .. ClocksPerBaud - 1
  BY <1>1, RxSlotIs
<1>5. rx_baud_counter_q = ClocksPerBaud - 1 => rx_q[2] = PcLevel(RxSlot)
  <2>1. SampledSkewed(u, rx_q, Age(rx_baud_counter_q), PcSlot - RxSlot,
                      PcLevel(RxSlot), PcLevel(RxSlot + 1))
    BY Zenon DEF InFrame
  <2> QED
    BY <2>1, SampledInSlot
<1>6. rx_state_q = "START" => PcLevel(RxSlot) = FALSE
  BY <1>1, RxSlotIs, LevelIs, Zenon DEF PcLevel
<1>7. rx_state_q = "PROC" => PcLevel(RxSlot) = pc_byte[RxSlot]
  BY <1>1, RxSlotIs, LevelIs, Zenon DEF PcLevel
<1> QED
  BY <1>1, <1>2, <1>3, <1>4, <1>5, <1>6, <1>7, Zenon

(* An edge within a frame: both ends stay in it, and what has been         *)
(* received stays a part of the byte                                       *)
LEMMA FrameGoesOn ==
  ASSUME LineTypeOK, LineTypeOK', ReceivedInv, NEW u \in Int, -Early <= u, u <= Late, InFrame(u),
         rx_state_q # "IDLE", rx_state_q' # "IDLE", NEW rready, RxClock(PcLine, rready),
         PcHold \/ PcNextBit, pending' = pending
  PROVE  ReceivedInv' /\ \E u1 \in -Early .. Late : InFrame(u1)'
<1> USE HalfBaudIs, SkewIs
<1> DEFINE c == rx_baud_counter_q
           Last == ClocksPerBaud - 1
<1>1. RxTypeOK /\ RxTypeOK' /\ PcTypeOK
  BY DEF LineTypeOK
<1>2. /\ pc_bit # 0 /\ pending = <<pc_byte>> /\ SkewUsed(u)
      /\ rx_state_q = "START" => rx_baud_counter_q >= HalfBaud
      /\ InStep(PcSlot, RxSlot, PcElapsed + u, Age(c))
      /\ SampledSkewed(u, rx_q, Age(c), PcSlot - RxSlot, PcLevel(RxSlot), PcLevel(RxSlot + 1))
  BY Zenon DEF InFrame
<1>3. pc_byte' = pc_byte /\ pc_bit' # 0
  BY <1>1 DEF PcHold, PcNextBit, PcTypeOK, StopBit
<1>4. PICK u1 \in Int : SkewUsed(u1)' /\ PcEdge(u, PcElapsed, PcSlot, u1, PcElapsed', PcSlot')
  BY <1>1, <1>2, PcMoves
<1>5. /\ c # Last => /\ c' = c + 1 /\ rx_state_q' = rx_state_q /\ RxSlot' = RxSlot
      /\ c = Last => c' = 0 /\ rx_state_q' \in {"PROC", "STOP"} /\ RxSlot' = RxSlot + 1
  BY <1>1, InFrameIs, RxSlotSteps
<1>6. InStep(PcSlot', RxSlot', PcElapsed' + u1, Age(c'))
  <2>1. PcSlot' \in Int /\ PcElapsed' \in Int /\ PcElapsed \in Int /\ PcSlot \in Int /\ RxSlot \in Int
    BY <1>1, <1>2, PcMoves, InFrameIs
  <2>2. InStep(PcSlot', IF c = Last THEN RxSlot + 1 ELSE RxSlot, PcElapsed' + u1,
               Age(IF c = Last THEN 0 ELSE c + 1))
    BY <1>2, <1>4, <2>1, InFrameIs, SkewedInStep
  <2> QED
    BY <1>5, <2>2
<1>7. SampledSkewed(u1, rx_q', Age(c'), PcSlot' - RxSlot', PcLevel(RxSlot'), PcLevel(RxSlot' + 1))
  <2>1. rx_q'[0] = PcLine /\ rx_q'[1] = rx_q[0] /\ rx_q'[2] = rx_q[1]
    BY SamplesMove
  <2>2. /\ c # Last => SampledSkewed(u1, rx_q', Age(c + 1), PcSlot' - RxSlot,
                                     PcLevel(RxSlot), PcLevel(RxSlot + 1))
        /\ c = Last => \A next1 : SampledSkewed(u1, rx_q', Age(0), PcSlot' - (RxSlot + 1),
                                                PcLevel(RxSlot + 1), next1)
    <3>1. PcSlot' \in Int /\ PcElapsed' \in Int /\ PcElapsed \in Int /\ PcSlot \in Int /\ RxSlot \in Int
      BY <1>1, <1>2, PcMoves, InFrameIs
    <3>2. /\ 0 <= PcElapsed \/ -u <= PcElapsed
          /\ PcElapsed <= ClocksPerBaud - 1 /\ c \in 0 .. ClocksPerBaud - 1
      BY InFrameIs
    <3>3. /\ PcSlot = RxSlot => rx_q'[0] = PcLevel(RxSlot)
          /\ PcSlot = RxSlot + 1 => rx_q'[0] = PcLevel(RxSlot + 1)
          /\ rx_q'[1] = rx_q[0] /\ rx_q'[2] = rx_q[1]
      BY <2>1, InFrameIs, Zenon
    <3>4. /\ InStep(PcSlot, RxSlot, PcElapsed + u, Age(c))
          /\ SampledSkewed(u, rx_q, Age(c), PcSlot - RxSlot, PcLevel(RxSlot), PcLevel(RxSlot + 1))
          /\ PcEdge(u, PcElapsed, PcSlot, u1, PcElapsed', PcSlot')
      BY <1>2, <1>4, Zenon
    <3>5. \A i \in 0 .. 2 : i = 0 \/ i = 1 \/ i = 2
      OBVIOUS
    <3>6. 0 \in 0 .. 2 /\ 1 \in 0 .. 2
      OBVIOUS
    <3>7. ASSUME c # Last
          PROVE  SampledSkewed(u1, rx_q', Age(c + 1), PcSlot' - RxSlot,
                               PcLevel(RxSlot), PcLevel(RxSlot + 1))
      <4>1. c \in 0 .. ClocksPerBaud - 2
        BY <3>2, <3>7
      <4>2. /\ OfThis(u1, PcSlot' - RxSlot, Age(c + 1) - 1 - 0) => PcSlot = RxSlot
            /\ OfNext(u1, PcSlot' - RxSlot, Age(c + 1) - 1 - 0) => PcSlot = RxSlot + 1
            /\ OfThis(u1, PcSlot' - RxSlot, Age(c + 1) - 1 - 1) => OfThis(u, PcSlot - RxSlot, Age(c) - 1 - 0)
            /\ OfNext(u1, PcSlot' - RxSlot, Age(c + 1) - 1 - 1) => OfNext(u, PcSlot - RxSlot, Age(c) - 1 - 0)
            /\ OfThis(u1, PcSlot' - RxSlot, Age(c + 1) - 1 - 2) => OfThis(u, PcSlot - RxSlot, Age(c) - 1 - 1)
            /\ OfNext(u1, PcSlot' - RxSlot, Age(c + 1) - 1 - 2) => OfNext(u, PcSlot - RxSlot, Age(c) - 1 - 1)
        BY <3>1, <3>2, <3>4, <4>1, SkewedSlots
      <4> QED
        BY <3>3, <3>4, <3>5, <3>6, <4>2, Zenon DEF SampledSkewed
    <3>8. ASSUME c = Last, NEW next1
          PROVE  SampledSkewed(u1, rx_q', Age(0), PcSlot' - (RxSlot + 1), PcLevel(RxSlot + 1), next1)
      <4>1. /\ OfThis(u1, PcSlot' - (RxSlot + 1), Age(0) - 1 - 0) => PcSlot = RxSlot + 1
            /\ OfThis(u1, PcSlot' - (RxSlot + 1), Age(0) - 1 - 1) => OfNext(u, PcSlot - RxSlot, Age(Last) - 1 - 0)
            /\ OfThis(u1, PcSlot' - (RxSlot + 1), Age(0) - 1 - 2) => OfNext(u, PcSlot - RxSlot, Age(Last) - 1 - 1)
            /\ \A i \in 0 .. 2 : ~OfNext(u1, PcSlot' - (RxSlot + 1), Age(0) - 1 - i)
        BY <3>1, <3>2, <3>4, <3>8, SkewedSlotsTick
      <4> QED
        BY <3>3, <3>4, <3>5, <3>6, <3>8, <4>1, Zenon DEF SampledSkewed
    <3> QED
      BY <3>7, <3>8
  <2>3. CASE c # Last
    BY <1>5, <2>2, <2>3, Zenon
  <2>4. CASE c = Last
    BY <1>5, <2>2, <2>4, Zenon
  <2> QED
    BY <2>3, <2>4
<1>8. InFrame(u1)'
  <2>1. rx_state_q' = "START" => c' >= HalfBaud
    BY <1>2, <1>5, InFrameIs
  <2>2. SampledSkewed(u1, rx_q, Age(rx_baud_counter_q), PcSlot - RxSlot,
                      PcLevel(RxSlot), PcLevel(RxSlot + 1))'
    BY <1>3, <1>7 DEF SampledSkewed, Age, PcLevel
  <2>3. InStep(PcSlot, RxSlot, PcElapsed + u1, Age(rx_baud_counter_q))'
    BY <1>6 DEF InStep, Age
  <2> QED
    BY <1>2, <1>3, <1>4, <2>1, <2>2, <2>3, Zenon DEF InFrame
<1>9. ReceivedInv'
  <2>1. Head(pending) = pc_byte /\ Head(pending') = pc_byte /\ pc_byte \in Byte
    BY <1>2, InFrameIs
  <2>2. rx_state_q = "PROC" /\ c = Last => rx_q[2] = pc_byte[RxSlot]
    BY InFrameIs, Zenon
  <2> QED
    BY <1>1, <2>1, <2>2, ReceivedStep
<1>10. u1 \in -Early .. Late
  BY <1>4 DEF PcEdge
<1> QED
  BY <1>8, <1>9, <1>10
---------------------------------------------------------------------------
(* The transmitter's stop bit ends: the receiver is in its own             *)
LEMMA StopBitEnds ==
  ASSUME LineTypeOK, NEW u \in Int, -Early <= u, u <= Late, InFrame(u),
         pc_bit = StopBit, pc_left = 1,
         rx_state_q # "IDLE", rx_state_q' # "IDLE", NEW rready, RxClock(PcLine, rready)
  PROVE  /\ rx_state_q' = "STOP" /\ Age(rx_baud_counter_q') >= ClocksPerBaud - Early
         /\ \A i \in 0 .. 2 : Age(rx_baud_counter_q') - 1 - i >= Late => rx_q'[i]
<1> USE HalfBaudIs, SkewIs
<1> DEFINE c == rx_baud_counter_q
           Last == ClocksPerBaud - 1
<1>1. RxTypeOK /\ PcTypeOK
  BY DEF LineTypeOK
<1>2. PcSlot = Bits + 1 /\ PcElapsed = ClocksPerBaud - 1
  BY DEF PcSlot, PcElapsed, StopBit
<1>3. /\ RxSlot \in 0 .. Bits + 1 /\ c \in 0 .. ClocksPerBaud - 1 /\ rx_bit_counter_q \in 0 .. Bits - 1
      /\ RxSlot = Bits + 1 => rx_state_q = "STOP"
      /\ RxSlot = Bits => rx_state_q = "PROC" /\ rx_bit_counter_q = Bits - 1
  BY <1>1, RxSlotIs
<1>4. \/ RxSlot = Bits + 1 /\ Age(c) = ClocksPerBaud - 1 + u
      \/ RxSlot = Bits /\ ClocksPerBaud = 2 /\ HalfBaud = 1 /\ c = Last /\ u = 0
  <2>1. InStep(PcSlot, RxSlot, PcElapsed + u, Age(c))
    BY Zenon DEF InFrame
  <2> QED
    BY <1>2, <1>3, <2>1 DEF InStep, Age
<1>5. rx_q'[0] = TRUE /\ rx_q'[1] = rx_q[0] /\ rx_q'[2] = rx_q[1]
  <2>1. PcLine = TRUE
    BY <1>1, PcLineIs
  <2> QED
    BY <2>1, SamplesMove
<1>6. SampledSkewed(u, rx_q, Age(c), PcSlot - RxSlot, PcLevel(RxSlot), PcLevel(RxSlot + 1))
  BY Zenon DEF InFrame
<1>7. PcLevel(Bits + 1) = TRUE
  BY LevelIs, Zenon DEF PcLevel
<1>8. 0 \in 0 .. 2 /\ 1 \in 0 .. 2 /\ \A i \in 0 .. 2 : i = 0 \/ i = 1 \/ i = 2
  OBVIOUS
<1>9. CASE RxSlot = Bits + 1 /\ Age(c) = ClocksPerBaud - 1 + u
  <2>1. rx_state_q = "STOP" /\ c # Last
    BY <1>1, <1>3, <1>9, RxMoves
  <2>2. rx_state_q' = "STOP" /\ c' = c + 1
    BY <1>1, <2>1, RxMoves
  <2>3. Age(c') = ClocksPerBaud + u /\ Age(c') >= ClocksPerBaud - Early
    BY <1>3, <1>9, <2>2 DEF Age
  <2>4. /\ Age(c') - 1 - 1 >= Late => OfThis(u, PcSlot - RxSlot, Age(c) - 1 - 0)
        /\ Age(c') - 1 - 2 >= Late => OfThis(u, PcSlot - RxSlot, Age(c) - 1 - 1)
    BY <1>2, <1>3, <1>9, <2>3 DEF OfThis
  <2>5. /\ Age(c') - 1 - 1 >= Late => rx_q[0] = TRUE
        /\ Age(c') - 1 - 2 >= Late => rx_q[1] = TRUE
    BY <1>6, <1>7, <1>8, <1>9, <2>4, Zenon DEF SampledSkewed
  <2> QED
    BY <1>5, <1>8, <2>2, <2>3, <2>5, Zenon
<1>10. CASE RxSlot = Bits /\ ClocksPerBaud = 2 /\ HalfBaud = 1 /\ c = Last /\ u = 0
  <2>1. rx_state_q' = "STOP" /\ c' = 0
    BY <1>1, <1>3, <1>10, RxMoves
  <2>2. Age(c') = 2 /\ Age(c') >= ClocksPerBaud - Early /\ Late = 0
    BY <1>10, <2>1 DEF Age
  <2>3. OfNext(u, PcSlot - RxSlot, Age(c) - 1 - 0)
    BY <1>2, <1>3, <1>10 DEF OfNext, Age
  <2>4. rx_q[0] = TRUE
    BY <1>6, <1>7, <1>8, <1>10, <2>3, Zenon DEF SampledSkewed
  <2>5. ~(Age(c') - 1 - 2 >= Late)
    BY <2>2
  <2> QED
    BY <1>5, <1>8, <2>1, <2>2, <2>4, <2>5, Zenon
<1> QED
  BY <1>4, <1>9, <1>10

(* ... and stays there while nothing more is sent                          *)
LEMMA StopBitOver ==
  ASSUME LineTypeOK, FrameOver, rx_state_q' # "IDLE", NEW rready, RxClock(PcLine, rready)
  PROVE  /\ rx_state_q' = "STOP" /\ Age(rx_baud_counter_q') >= ClocksPerBaud - Early
         /\ \A i \in 0 .. 2 : Age(rx_baud_counter_q') - 1 - i >= Late => rx_q'[i]
<1> USE HalfBaudIs, SkewIs
<1> DEFINE c == rx_baud_counter_q
<1>1. RxTypeOK /\ PcTypeOK /\ rx_state_q = "STOP" /\ pc_bit = 0
  BY DEF LineTypeOK, FrameOver
<1>2. rx_state_q' = "STOP" /\ c' = c + 1 /\ c \in 0 .. ClocksPerBaud - 1
  <2>1. c # ClocksPerBaud - 1
    BY <1>1, RxMoves
  <2> QED
    BY <1>1, <2>1, RxMoves, RxSlotIs
<1>3. rx_q'[0] = TRUE /\ rx_q'[1] = rx_q[0] /\ rx_q'[2] = rx_q[1]
  <2>1. PcLine = TRUE
    BY <1>1, PcLineIs
  <2> QED
    BY <2>1, SamplesMove
<1>4. Age(c) >= ClocksPerBaud - Early /\ \A i \in 0 .. 2 : Age(c) - 1 - i >= Late => rx_q[i]
  BY Zenon DEF FrameOver
<1>5. /\ Age(c') >= ClocksPerBaud - Early
      /\ Age(c') - 1 - 1 = Age(c) - 1 - 0 /\ Age(c') - 1 - 2 = Age(c) - 1 - 1
  BY <1>2, <1>4 DEF Age
<1>6. 0 \in 0 .. 2 /\ 1 \in 0 .. 2 /\ \A i \in 0 .. 2 : i = 0 \/ i = 1 \/ i = 2
  OBVIOUS
<1> QED
  BY <1>2, <1>3, <1>4, <1>5, <1>6, Zenon

(* The sequence with a byte appended to one                                *)
LEMMA AppendPair ==
  ASSUME NEW S, NEW d \in S, NEW e \in S
  PROVE  Append(<<d>>, e) = <<d, e>>
<1> DEFINE one == <<d>>
           two == Append(one, e)
<1>1. Len(one) = 1 /\ one[1] = d
  OBVIOUS
<1>2. one \in Seq(S)
  OBVIOUS
<1> HIDE DEF one
<1>3. /\ two \in Seq(S) /\ Len(two) = Len(one) + 1
      /\ \A i \in 1 .. Len(one) : two[i] = one[i]
      /\ two[Len(one) + 1] = e
  BY <1>2, AppendProperties
<1> HIDE DEF two
<1>4. two \in Seq(S) /\ Len(two) = 2 /\ two[1] = d /\ two[2] = e
  BY <1>1, <1>3
<1>5. two = <<d, e>>
  BY <1>4
<1> QED
  BY <1>5 DEF one, two

(* The receiver waits for the middle of the stop bit, while the line idles *)
(* or the next frame begins                                                *)
LEMMA FrameIsOver ==
  ASSUME LineTypeOK, NEW older \in Byte, pending = <<older>>,
         rx_state_q' = "STOP", Age(rx_baud_counter_q') >= ClocksPerBaud - Early,
         \A i \in 0 .. 2 : Age(rx_baud_counter_q') - 1 - i >= Late => rx_q'[i],
         \/ PcIdle /\ pending' = pending
         \/ PcBegin /\ pending' = Append(pending, pc_byte')
  PROVE  (FrameOver' \/ NextFrame') /\ Head(pending') = older
<1> USE HalfBaudIs, SkewIs
<1>1. CASE PcIdle /\ pending' = pending
  <2>1. Len(pending') = 1 /\ Head(pending') = older
    BY <1>1
  <2>2. pc_bit' = 0
    BY <1>1 DEF PcIdle
  <2>3. /\ Age(rx_baud_counter_q)' >= ClocksPerBaud - Early
        /\ \A i \in 0 .. 2 : Age(rx_baud_counter_q)' - 1 - i >= Late => rx_q'[i]
    BY Zenon DEF Age
  <2>4. FrameOver'
    BY <2>1, <2>2, <2>3, Zenon DEF FrameOver
  <2> QED
    BY <2>1, <2>4
<1>2. CASE PcBegin /\ pending' = Append(pending, pc_byte')
  <2>1. pending' = <<older, pc_byte'>>
    <3>1. pc_byte' \in Byte
      BY <1>2 DEF PcBegin
    <3> QED
      BY <1>2, <3>1, AppendPair, Zenon
  <2>2. Head(pending') = older
    BY <2>1
  <2>3. pc_bit' = 1 /\ PcElapsed' = 0
    BY <1>2 DEF PcBegin, PcElapsed
  <2>4. Age(rx_baud_counter_q)' = Age(rx_baud_counter_q') /\ Age(rx_baud_counter_q') >= ClocksPerBaud - Early + 0
    BY DEF Age
  <2>5. \A i \in 0 .. 2 : ~(i < 0)
    OBVIOUS
  <2>6. 0 >= 0
    OBVIOUS
  <2> QED
    BY <2>1, <2>2, <2>3, <2>4, <2>5, <2>6, Zenon DEF NextFrame
<1> QED
  BY <1>1, <1>2

(* The receiver leaves its stop bit with the line seen high                *)
LEMMA StopBitSeen ==
  ASSUME LineTypeOK, NEW u \in Int, -Early <= u, u <= Late, InFrame(u), FrameEnds
  PROVE  pc_bit = StopBit /\ rx_q[0] /\ rx_q[1] /\ rx_q[2]
<1> USE HalfBaudIs, SkewIs
<1> DEFINE c == rx_baud_counter_q
<1>1. RxTypeOK /\ PcTypeOK /\ rx_state_q = "STOP" /\ c = ClocksPerBaud - 1
  BY DEF LineTypeOK, FrameEnds, rx_baud_tick
<1>2. RxSlot = Bits + 1 /\ Age(c) = ClocksPerBaud + 2 - HalfBaud
  BY <1>1, RxSlotIs DEF Age
<1>3. PcSlot \in 0 .. Bits + 1 /\ PcElapsed \in Int /\ PcElapsed <= ClocksPerBaud - 1
  BY <1>1, InFrameIs
<1>4. PcSlot = Bits + 1
  <2>1. InStep(PcSlot, RxSlot, PcElapsed + u, Age(c))
    BY Zenon DEF InFrame
  <2> QED
    BY <1>2, <1>3, <2>1 DEF InStep
<1>5. pc_bit = StopBit
  BY <1>1, <1>4 DEF PcSlot, StopBit, PcTypeOK
<1>6. \A i \in 0 .. 2 : OfThis(u, PcSlot - RxSlot, Age(c) - 1 - i)
  BY <1>2, <1>4 DEF OfThis
<1>7. \A i \in 0 .. 2 : rx_q[i] = TRUE
  <2>1. SampledSkewed(u, rx_q, Age(c), PcSlot - RxSlot, PcLevel(RxSlot), PcLevel(RxSlot + 1))
    BY Zenon DEF InFrame
  <2>2. PcLevel(RxSlot) = TRUE
    BY <1>2, LevelIs, Zenon DEF PcLevel
  <2> QED
    BY <1>6, <2>1, <2>2, Zenon DEF SampledSkewed
<1> QED
  BY <1>5, <1>7

(* ... also when the transmitter is done                                   *)
LEMMA StopBitOverSeen ==
  ASSUME LineTypeOK, FrameOver, FrameEnds
  PROVE  rx_q[0] /\ rx_q[1] /\ rx_q[2]
<1>1. /\ Age(rx_baud_counter_q) - 1 - 0 >= Late /\ Age(rx_baud_counter_q) - 1 - 1 >= Late
      /\ Age(rx_baud_counter_q) - 1 - 2 >= Late /\ 0 \in 0 .. 2 /\ 1 \in 0 .. 2 /\ 2 \in 0 .. 2
  BY HalfBaudIs, SkewIs DEF FrameEnds, rx_baud_tick, Age
<1> QED
  BY <1>1, Zenon DEF FrameOver

(* A frame begins while the line has been seen high                        *)
LEMMA FirstCycle ==
  ASSUME LineTypeOK, pc_bit \in {0, StopBit}, rx_q[0], rx_q[1], NEW rready, RxClock(PcLine, rready),
         PcBegin, pending' = <<pc_byte'>>
  PROVE  \E u \in -Early .. Late, e \in 0 .. 2 : FrameBegins(u, e)'
<1> USE HalfBaudIs, SkewIs
<1>1. rx_q'[0] = TRUE /\ rx_q'[1] = rx_q[0] /\ rx_q'[2] = rx_q[1]
  <2>1. PcLine = TRUE
    BY PcLineIs DEF LineTypeOK
  <2> QED
    BY <2>1, SamplesMove
<1>2. pc_bit' = 1 /\ pc_bit' # 0 /\ pc_left' = ClocksPerBaud /\ PcSlot' = 0 /\ PcElapsed' + 0 = 0
  BY DEF PcBegin, PcSlot, PcElapsed
<1>3. SkewUsed(0)' /\ InStep(PcSlot, 0, PcElapsed + 0, 0)' /\ 0 <= 1
  BY <1>2 DEF SkewUsed, InStep
<1>4. FrameBegins(0, 0)'
  BY <1>1, <1>2, <1>3, Zenon DEF FrameBegins
<1>5. 0 \in -Early .. Late /\ 0 \in 0 .. 2
  OBVIOUS
<1> QED
  BY <1>4, <1>5, Zenon
---------------------------------------------------------------------------
(* The next start bit has been on the line for one cycle at most when the  *)
(* receiver is done with the stop bit before it                            *)
LEMMA NextFrameIs ==
  ASSUME LineTypeOK, NextFrame
  PROVE  /\ PcElapsed \in {0, 1} /\ PcSlot = 0 /\ SkewUsed(0) /\ PcLine = FALSE
         /\ ~PcIdle /\ ~PcBegin
         /\ rx_baud_counter_q \in 0 .. ClocksPerBaud - 1
         /\ rx_baud_counter_q # ClocksPerBaud - 1 => PcElapsed = 0 /\ ~PcNextBit
<1> USE HalfBaudIs, SkewIs
<1>1. RxTypeOK /\ PcTypeOK /\ rx_state_q = "STOP" /\ pc_bit = 1
  BY DEF LineTypeOK, NextFrame
<1>2. pc_left \in Nat \ {0} /\ PcElapsed = ClocksPerBaud - pc_left /\ rx_baud_counter_q \in 0 .. ClocksPerBaud - 1
  BY <1>1, RxSlotIs DEF PcTypeOK, PcElapsed
<1>3. PcElapsed >= 0 /\ Age(rx_baud_counter_q) >= ClocksPerBaud - Early + PcElapsed
  BY Zenon DEF NextFrame
<1>4. PcElapsed \in {0, 1} /\ (rx_baud_counter_q # ClocksPerBaud - 1 => PcElapsed = 0)
  BY <1>2, <1>3 DEF Age
<1>5. SkewUsed(0) /\ PcSlot = 0 /\ pc_bit # 0 /\ pc_bit # StopBit
  BY <1>1, <1>2, <1>3 DEF SkewUsed, PcSlot, StopBit
<1>6. ~PcIdle /\ ~PcBegin
  BY <1>5, Zenon DEF PcIdle, PcBegin
<1>7. PcElapsed = 0 => ~PcNextBit
  BY <1>2 DEF PcNextBit
<1> QED
  BY <1>1, <1>2, <1>4, <1>5, <1>6, <1>7, PcLineIs

(* The receiver is still in the stop bit of the frame before               *)
LEMMA NextFrameStays ==
  ASSUME LineTypeOK, NextFrame, rx_state_q' # "IDLE", NEW rready, RxClock(PcLine, rready),
         PcHold \/ PcNextBit, pending' = pending
  PROVE  NextFrame'
<1> USE HalfBaudIs, SkewIs
<1> DEFINE c == rx_baud_counter_q
<1>1. RxTypeOK /\ PcTypeOK /\ rx_state_q = "STOP" /\ pc_bit = 1
  BY DEF LineTypeOK, NextFrame
<1>2. rx_state_q' = "STOP" /\ c' = c + 1 /\ c \in 0 .. ClocksPerBaud - 1 /\ PcElapsed = 0 /\ PcHold
  <2>1. c # ClocksPerBaud - 1
    BY <1>1, RxMoves
  <2> QED
    BY <1>1, <2>1, RxMoves, NextFrameIs
<1>3. pc_bit' = 1 /\ pc_byte' = pc_byte /\ PcElapsed' = 1 /\ PcElapsed' >= 0
  BY <1>1, <1>2 DEF PcHold, PcElapsed, PcTypeOK
<1>4. rx_q'[0] = FALSE /\ rx_q'[1] = rx_q[0] /\ rx_q'[2] = rx_q[1]
  BY NextFrameIs, SamplesMove
<1>5. /\ Age(c) >= ClocksPerBaud - Early + 0
      /\ \A i \in 0 .. 2 : i >= 0 /\ Age(c) - 1 - i >= Late => rx_q[i]
      /\ \E older \in Byte : pending = <<older, pc_byte>>
  BY <1>2, Zenon DEF NextFrame
<1>6. /\ Age(c') >= ClocksPerBaud - Early + 1
      /\ Age(c') - 1 - 1 = Age(c) - 1 - 0 /\ Age(c') - 1 - 2 = Age(c) - 1 - 1
  BY <1>2, <1>5 DEF Age
<1>7. /\ 0 \in 0 .. 2 /\ 1 \in 0 .. 2 /\ 0 >= 0 /\ 1 >= 0
      /\ \A i \in 0 .. 2 : (i = 0 /\ ~(i >= 1)) \/ (i = 1 /\ ~(i < 1)) \/ (i = 2 /\ ~(i < 1))
  OBVIOUS
<1>8. \A i \in 0 .. 2 : /\ i < 1 => ~rx_q'[i]
                        /\ i >= 1 /\ Age(c') - 1 - i >= Late => rx_q'[i]
  BY <1>4, <1>5, <1>6, <1>7, Zenon
<1>9. /\ Age(rx_baud_counter_q)' >= ClocksPerBaud - Early + PcElapsed'
      /\ \A i \in 0 .. 2 :
           /\ i < PcElapsed' => ~rx_q'[i]
           /\ i >= PcElapsed' /\ Age(rx_baud_counter_q)' - 1 - i >= Late => rx_q'[i]
  BY <1>3, <1>6, <1>8, Zenon DEF Age
<1>10. \E older \in Byte : pending' = <<older, pc_byte'>>
  BY <1>3, <1>5, Zenon
<1> QED
  BY <1>2, <1>3, <1>9, <1>10, Zenon DEF NextFrame

(* The receiver is done with the frame before: the next one begins for it  *)
LEMMA NextFrameFollows ==
  ASSUME LineTypeOK, NextFrame, FrameEnds, NEW rready, RxClock(PcLine, rready),
         PcHold \/ PcNextBit, pending' = <<pc_byte>>
  PROVE  \E u \in -Early .. Late, e \in 0 .. 2 : FrameBegins(u, e)'
<1> USE HalfBaudIs, SkewIs
<1> DEFINE c == rx_baud_counter_q
<1>1. RxTypeOK /\ PcTypeOK /\ pc_bit = 1 /\ c = ClocksPerBaud - 1
  BY DEF LineTypeOK, NextFrame, FrameEnds, rx_baud_tick
<1>2. PICK e \in {0, 1} : e = PcElapsed
  BY NextFrameIs
<1>3. rx_q'[0] = FALSE /\ rx_q'[1] = rx_q[0] /\ rx_q'[2] = rx_q[1]
  BY NextFrameIs, SamplesMove
<1>4. (rx_q[0] <=> e = 0) /\ rx_q[1]
  <2>1. \A i \in 0 .. 2 : /\ i < e => ~rx_q[i]
                          /\ i >= e /\ Age(c) - 1 - i >= Late => rx_q[i]
    BY <1>2, Zenon DEF NextFrame
  <2>2. /\ Age(c) - 1 - 0 >= Late /\ Age(c) - 1 - 1 >= Late /\ 0 \in 0 .. 2 /\ 1 \in 0 .. 2
        /\ 1 >= e /\ (e = 0 => 0 >= e) /\ (e # 0 => 0 < e)
    BY <1>1, <1>2 DEF Age
  <2> QED
    BY <2>1, <2>2, Zenon
<1>5. /\ pc_byte' = pc_byte /\ pc_bit' # 0
  BY <1>1 DEF PcHold, PcNextBit
<1>6. PICK u \in Int : u = 0
  OBVIOUS
<1>7. /\ PcElapsed' \in Int /\ PcSlot' \in Int
      /\ \E u1 \in Int : SkewUsed(u1)' /\ PcEdge(u, PcElapsed, PcSlot, u1, PcElapsed', PcSlot')
  BY <1>1, <1>6, PcMoves, NextFrameIs
<1>8. PICK u1 \in Int : SkewUsed(u1)' /\ PcEdge(u, PcElapsed, PcSlot, u1, PcElapsed', PcSlot')
  BY <1>7
<1>9. InStep(PcSlot', 0, PcElapsed' + u1, e + 1)
  <2>1. PcSlot \in Nat /\ PcElapsed \in Int /\ 0 <= PcElapsed /\ PcElapsed <= ClocksPerBaud - 1
        /\ InStep(PcSlot, 0, PcElapsed + u, e) /\ e \in 0 .. 2 /\ -Early <= u /\ u <= Late
    BY <1>2, <1>6, NextFrameIs DEF InStep
  <2> QED
    BY <1>7, <1>8, <2>1, BeginsInStep
<1>10. InStep(PcSlot, 0, PcElapsed + u1, e + 1)'
  BY <1>9 DEF InStep
<1>11. e + 1 \in 0 .. 2 /\ e + 1 # 0 /\ (e + 1 <= 1 <=> e = 0) /\ u1 \in -Early .. Late
  BY <1>2, <1>8 DEF PcEdge
<1>12. FrameBegins(u1, e + 1)'
  BY <1>3, <1>4, <1>5, <1>8, <1>10, <1>11, Zenon DEF FrameBegins
<1> QED
  BY <1>11, <1>12, Zenon
---------------------------------------------------------------------------
(* The receiver waits, until it sees the line fall                         *)
LEMMA RxIdleMoves ==
  ASSUME rx_state_q = "IDLE", NEW line, NEW rready, RxClock(line, rready),
         ~(rx_start /\ rx_baud_tick)
  PROVE  /\ ~rx_start => rx_state_q' = "IDLE"
         /\ rx_start => rx_state_q' = "START" /\ rx_baud_counter_q' = HalfBaud
<1>1. rx_start \/ rx_baud_tick => RxIdle
  BY Zenon DEF RxClock, RxStartBit, RxDataBit, RxStopBit
<1>2. ~(rx_start \/ rx_baud_tick) => rx_state_q' = rx_state_q
  BY Zenon DEF RxClock
<1>3. rx_start => rx_baud_counter_q' = HalfBaud
  BY Zenon DEF RxClock, rx_baud_counter_d, HalfBaud
<1> QED
  BY <1>1, <1>2, <1>3, Zenon DEF RxIdle

(* Nothing is sent: the line has risen at most once since reset            *)
LEMMA QuietStays ==
  ASSUME LineTypeOK, rx_state_q = "IDLE", Quiet, NEW rready, RxClock(PcLine, rready),
         ~(rx_start /\ rx_baud_tick),
         \/ (PcIdle \/ PcHold \/ PcNextBit) /\ pending' = pending
         \/ PcBegin /\ pending' = Append(pending, pc_byte')
  PROVE  /\ rx_state_q' = "IDLE"
         /\ Quiet' \/ \E u \in -Early .. Late, e \in 0 .. 2 : FrameBegins(u, e)'
<1> USE HalfBaudIs, SkewIs
<1>1. pc_bit \in {0, StopBit} /\ pending = <<>> /\ (rx_q[1] => rx_q[0]) /\ (rx_q[2] => rx_q[1])
  BY Zenon DEF Quiet
<1>2. rx_state_q' = "IDLE"
  <2>1. ~rx_start
    BY <1>1, Zenon DEF rx_start
  <2> QED
    BY <2>1, RxIdleMoves
<1>3. rx_q'[0] = TRUE /\ rx_q'[1] = rx_q[0] /\ rx_q'[2] = rx_q[1]
  <2>1. PcLine = TRUE
    BY <1>1, PcLineIs DEF LineTypeOK
  <2> QED
    BY <2>1, SamplesMove
<1>4. ASSUME PcIdle \/ PcHold, pending' = pending PROVE Quiet'
  <2>1. pc_bit' \in {0, StopBit}
    BY <1>1, <1>4 DEF PcIdle, PcHold
  <2> QED
    BY <1>1, <1>3, <1>4, <2>1, Zenon DEF Quiet
<1>5. ~PcNextBit
  BY <1>1 DEF PcNextBit, StopBit
<1>6. ASSUME PcBegin, pending' = Append(pending, pc_byte')
      PROVE  \E u \in -Early .. Late, e \in 0 .. 2 : FrameBegins(u, e)'
  <2>1. rx_q[1] /\ rx_q[0]
    BY <1>1, <1>6, Zenon DEF PcBegin
  <2>2. pending' = <<pc_byte'>>
    <3>1. \A e : Append(<<>>, e) = <<e>>
      OBVIOUS
    <3> QED
      BY <1>1, <1>6, <3>1, Zenon
  <2> QED
    BY <1>1, <1>6, <2>1, <2>2, FirstCycle
<1> QED
  BY <1>2, <1>4, <1>5, <1>6

(* The first cycles of a frame, up to the edge that starts the counter     *)
LEMMA StartBitComes ==
  ASSUME LineTypeOK, rx_state_q = "IDLE", NEW u \in Int, -Early <= u, u <= Late,
         NEW e \in 0 .. 2, FrameBegins(u, e), NEW rready, RxClock(PcLine, rready),
         ~(rx_start /\ rx_baud_tick), PcHold \/ PcNextBit, pending' = pending
  PROVE  \/ rx_state_q' = "IDLE" /\ \E u1 \in -Early .. Late, e1 \in 0 .. 2 : FrameBegins(u1, e1)'
         \/ rx_state_q' = "START" /\ \E u1 \in -Early .. Late : InFrame(u1)'
<1> USE HalfBaudIs, SkewIs
<1>1. RxTypeOK /\ PcTypeOK /\ pc_left \in Nat \ {0} /\ pc_bit \in 0 .. Bits + 2
  BY DEF LineTypeOK, PcTypeOK, StopBit
<1>2. /\ pc_bit # 0 /\ pending = <<pc_byte>> /\ SkewUsed(u)
      /\ InStep(PcSlot, 0, PcElapsed + u, e)
      /\ (rx_q[0] <=> e = 0) /\ (rx_q[1] <=> e <= 1) /\ rx_q[2]
  BY Zenon DEF FrameBegins
<1>3. /\ PcElapsed \in Int /\ (0 <= PcElapsed \/ -u <= PcElapsed) /\ PcElapsed <= ClocksPerBaud - 1
      /\ PcSlot \in 0 .. Bits + 1 /\ PcLine = PcLevel(PcSlot)
  <2>1. PcElapsed \in Int /\ (0 <= PcElapsed \/ -u <= PcElapsed) /\ PcElapsed <= ClocksPerBaud - 1
    BY <1>1, <1>2 DEF SkewUsed, PcElapsed
  <2> QED
    BY <1>1, <1>2, <2>1, PcLineIs
<1>4. PICK u1 \in Int : SkewUsed(u1)' /\ PcEdge(u, PcElapsed, PcSlot, u1, PcElapsed', PcSlot')
  BY <1>1, <1>2, PcMoves
<1>5. PcElapsed' \in Int /\ PcSlot' \in Int
  BY <1>1, <1>2, PcMoves
<1>6. pc_byte' = pc_byte /\ pc_bit' # 0 /\ pending' = <<pc_byte'>>
  BY <1>1, <1>2 DEF PcHold, PcNextBit
<1>7. InStep(PcSlot', 0, PcElapsed' + u1, e + 1)
  <2>1. PcSlot \in Nat
    BY <1>3
  <2> QED
    BY <1>2, <1>3, <1>4, <1>5, <2>1, BeginsInStep
<1>8. InStep(PcSlot, 0, PcElapsed + u1, e + 1)'
  BY <1>7 DEF InStep
<1>9. rx_q'[0] = PcLevel(PcSlot) /\ rx_q'[1] = rx_q[0] /\ rx_q'[2] = rx_q[1]
  BY <1>3, SamplesMove
<1>10. PcLevel(0) = FALSE
  BY LevelIs, Zenon DEF PcLevel
<1>11. u1 \in -Early .. Late
  BY <1>4 DEF PcEdge
<1>12. CASE e # 2
  <2>1. e + 1 \in 0 .. 2 /\ e + 1 # 0 /\ (e + 1 <= 1 <=> e = 0) /\ e <= 1
    BY <1>12
  <2>2. rx_state_q' = "IDLE"
    <3>1. ~rx_start
      BY <1>2, <2>1, Zenon DEF rx_start
    <3> QED
      BY <3>1, RxIdleMoves
  <2>3. PcSlot = 0
    BY <1>2, <1>3, <2>1 DEF InStep
  <2>4. FrameBegins(u1, e + 1)'
    BY <1>2, <1>4, <1>6, <1>8, <1>9, <1>10, <2>1, <2>3, Zenon DEF FrameBegins
  <2> QED
    BY <1>11, <2>1, <2>2, <2>4, Zenon
<1>13. CASE e = 2
  <2>1. rx_state_q' = "START" /\ rx_baud_counter_q' = HalfBaud
    <3>1. rx_q[1] \in BOOLEAN /\ ~(e <= 1)
      BY <1>1, <1>13 DEF RxTypeOK
    <3>2. rx_start
      BY <1>2, <3>1, Zenon DEF rx_start
    <3> QED
      BY <3>2, RxIdleMoves
  <2>2. RxSlot' = 0 /\ Age(rx_baud_counter_q') = 3 /\ rx_baud_counter_q' >= HalfBaud
    BY <2>1 DEF RxSlot, Age
  <2>3. InStep(PcSlot, RxSlot, PcElapsed + u1, Age(rx_baud_counter_q))'
    BY <1>7, <1>13, <2>2 DEF InStep, Age
  <2>4. rx_q'[1] = FALSE /\ rx_q'[2] = FALSE
    <3>1. rx_q[0] \in BOOLEAN /\ rx_q[1] \in BOOLEAN /\ ~(e <= 1) /\ e # 0
      BY <1>1, <1>13 DEF RxTypeOK
    <3> QED
      BY <1>2, <1>9, <3>1, Zenon
  <2>5. /\ OfThis(u1, PcSlot' - 0, 3 - 1 - 0) => PcSlot = 0
        /\ OfNext(u1, PcSlot' - 0, 3 - 1 - 0) => PcSlot = 0 + 1
        /\ ~OfNext(u1, PcSlot' - 0, 3 - 1 - 1) /\ ~OfNext(u1, PcSlot' - 0, 3 - 1 - 2)
    <3>1. PcSlot \in Nat /\ (PcSlot = 0 => u = 0) /\ InStep(PcSlot, 0, PcElapsed + u, 2)
      BY <1>1, <1>2, <1>3, <1>13 DEF SkewUsed, PcSlot
    <3> QED
      BY <1>3, <1>4, <1>5, <3>1, FirstSlots
  <2>6. SampledSkewed(u1, rx_q', 3, PcSlot' - 0, PcLevel(0), PcLevel(0 + 1))
    <3>1. \A i \in 0 .. 2 : i = 0 \/ i = 1 \/ i = 2
      OBVIOUS
    <3> QED
      BY <1>9, <1>10, <2>4, <2>5, <3>1, Zenon DEF SampledSkewed
  <2>7. SampledSkewed(u1, rx_q, Age(rx_baud_counter_q), PcSlot - RxSlot,
                      PcLevel(RxSlot), PcLevel(RxSlot + 1))'
    BY <1>6, <2>2, <2>6, Zenon DEF SampledSkewed, Age, PcLevel
  <2>8. InFrame(u1)'
    BY <1>4, <1>6, <2>2, <2>3, <2>7, Zenon DEF InFrame
  <2> QED
    BY <1>11, <2>1, <2>8, Zenon
<1> QED
  BY <1>12, <1>13
---------------------------------------------------------------------------
(* The edge that puts the byte into the FIFO: the line is quiet, or the    *)
(* next frame begins with this very edge                                   *)
LEMMA QuietAgain ==
  ASSUME LineTypeOK, pc_bit \in {0, StopBit}, rx_q[0], rx_q[1], rx_q[2],
         NEW rready, RxClock(PcLine, rready),
         \/ (PcIdle \/ PcHold \/ PcNextBit) /\ pending' = <<>>
         \/ PcBegin /\ pending' = Append(<<>>, pc_byte')
  PROVE  Quiet' \/ \E u \in -Early .. Late, e \in 0 .. 2 : FrameBegins(u, e)'
<1> USE HalfBaudIs
<1>1. rx_q'[0] = TRUE /\ rx_q'[1] = rx_q[0] /\ rx_q'[2] = rx_q[1]
  <2>1. PcLine = TRUE
    BY PcLineIs DEF LineTypeOK
  <2> QED
    BY <2>1, SamplesMove
<1>2. ASSUME PcIdle \/ PcHold, pending' = <<>> PROVE Quiet'
  <2>1. pc_bit' \in {0, StopBit}
    BY <1>2 DEF PcIdle, PcHold
  <2> QED
    BY <1>1, <1>2, <2>1, Zenon DEF Quiet
<1>3. ~PcNextBit
  BY DEF PcNextBit, StopBit
<1>4. \A e : Append(<<>>, e) = <<e>>
  OBVIOUS
<1>5. ASSUME PcBegin, pending' = Append(<<>>, pc_byte')
      PROVE  \E u \in -Early .. Late, e \in 0 .. 2 : FrameBegins(u, e)'
  <2>1. pending' = <<pc_byte'>>
    BY <1>4, <1>5, Zenon
  <2> QED
    BY <1>5, <2>1, FirstCycle
<1> QED
  BY <1>2, <1>3, <1>5

(* An edge of a receiver that waits                                        *)
LEMMA IdleLineStep ==
  ASSUME LineTypeOK, LineInv, ~coincided, rx_state_q = "IDLE",
         NEW rready, LineClock(rready), ~coincided'
  PROVE  LineInv'
<1> USE HalfBaudIs, SkewIs
<1>1. ~FrameEnds
  BY DEF FrameEnds
<1>2. /\ ~(rx_start /\ rx_baud_tick) /\ RxClock(PcLine, rready)
      /\ \/ (PcIdle \/ PcHold \/ PcNextBit) /\ pending' = pending
         \/ PcBegin /\ pending' = Append(pending, pc_byte')
  BY <1>1, PendingMoves, Zenon DEF LineTypeOK
<1>3. rx_state_q' \in {"IDLE", "START"} => ReceivedInv'
  BY DEF ReceivedInv
<1>4. CASE Quiet
  <2>1. /\ rx_state_q' = "IDLE"
        /\ Quiet' \/ \E u \in -Early .. Late, e \in 0 .. 2 : FrameBegins(u, e)'
    BY <1>2, <1>4, QuietStays
  <2> QED
    BY <1>3, <2>1, Zenon DEF LineInv
<1>5. ASSUME NEW u \in -Early .. Late, NEW e \in 0 .. 2, FrameBegins(u, e) PROVE LineInv'
  <2>1. pc_bit # 0 /\ pc_bit # StopBit
    <3>1. pc_bit # 0 /\ InStep(PcSlot, 0, PcElapsed + u, e)
      BY <1>5, Zenon DEF FrameBegins
    <3> QED
      BY <3>1 DEF InStep, PcSlot, StopBit
  <2>2. (PcHold \/ PcNextBit) /\ pending' = pending
    BY <1>2, <2>1, Zenon DEF PcIdle, PcBegin
  <2>3. u \in Int /\ -Early <= u /\ u <= Late
    BY SkewRange
  <2>4. \/ rx_state_q' = "IDLE" /\ \E u1 \in -Early .. Late, e1 \in 0 .. 2 : FrameBegins(u1, e1)'
        \/ rx_state_q' = "START" /\ \E u1 \in -Early .. Late : InFrame(u1)'
    BY <1>2, <1>5, <2>2, <2>3, StartBitComes
  <2>5. "IDLE" # "START"
    OBVIOUS
  <2> QED
    BY <1>3, <2>4, <2>5 DEF LineInv
<1> QED
  BY <1>4, <1>5, Zenon DEF LineInv

(* A sequence of one element                                               *)
LEMMA OneElement == ASSUME NEW S, NEW s \in Seq(S), Len(s) = 1 PROVE s[1] \in S /\ s = <<s[1]>>
<1>1. s[1] \in S
  OBVIOUS
<1>2. <<s[1]>> \in Seq(S) /\ Len(<<s[1]>>) = 1 /\ <<s[1]>>[1] = s[1]
  BY <1>1
<1>3. \A i \in 1 .. Len(s) : s[i] = <<s[1]>>[i]
  BY <1>2
<1> QED
  BY <1>1, <1>2, <1>3, SeqEqual

(* The edge in which the stop bit is sampled                               *)
LEMMA FrameEndStep ==
  ASSUME LineTypeOK, LineInv, ~coincided, FrameEnds,
         NEW rready, LineClock(rready), ~coincided'
  PROVE  LineInv'
<1> USE HalfBaudIs, SkewIs
<1>1. RxTypeOK /\ PcTypeOK /\ pending \in Seq(Byte) /\ rx_state_q = "STOP" /\ rx_state_q # "IDLE"
      /\ rx_baud_counter_q = ClocksPerBaud - 1
  BY DEF LineTypeOK, FrameEnds, rx_baud_tick
<1>2. /\ RxClock(PcLine, rready)
      /\ \/ (PcIdle \/ PcHold \/ PcNextBit) /\ pending' = Waiting
         \/ PcBegin /\ pending' = Append(Waiting, pc_byte')
      /\ \A older : /\ pending = <<older>> => Waiting = <<>>
                    /\ \A younger : pending = <<older, younger>> => Waiting = <<younger>>
  BY <1>1, PendingMoves, Zenon
<1>3. rx_state_q' = "IDLE"
  BY <1>1, <1>2, RxMoves
<1>4. ReceivedInv'
  BY <1>3 DEF ReceivedInv
<1>5. ASSUME pc_bit \in {0, StopBit}, rx_q[0], rx_q[1], rx_q[2], NEW older, pending = <<older>>
      PROVE  LineInv'
  <2>1. \/ (PcIdle \/ PcHold \/ PcNextBit) /\ pending' = <<>>
        \/ PcBegin /\ pending' = Append(<<>>, pc_byte')
    BY <1>2, <1>5, Zenon
  <2>2. Quiet' \/ \E u \in -Early .. Late, e \in 0 .. 2 : FrameBegins(u, e)'
    BY <1>2, <1>5, <2>1, QuietAgain
  <2> QED
    BY <1>3, <1>4, <2>2, Zenon DEF LineInv
<1>6. ASSUME NEW u \in -Early .. Late, InFrame(u) PROVE LineInv'
  <2>1. u \in Int /\ -Early <= u /\ u <= Late
    BY SkewRange
  <2>2. pc_bit = StopBit /\ rx_q[0] /\ rx_q[1] /\ rx_q[2]
    BY <1>6, <2>1, StopBitSeen
  <2>3. pending = <<pc_byte>>
    BY <1>6, Zenon DEF InFrame
  <2> QED
    BY <1>5, <2>2, <2>3
<1>7. CASE FrameOver
  <2>1. rx_q[0] /\ rx_q[1] /\ rx_q[2]
    BY <1>7, StopBitOverSeen
  <2>2. pc_bit = 0 /\ pending = <<pending[1]>>
    BY <1>1, <1>7 DEF FrameOver
  <2> QED
    BY <1>5, <2>1, <2>2
<1>8. CASE NextFrame
  <2>1. (PcHold \/ PcNextBit) /\ pending' = <<pc_byte>>
    <3>1. ~PcIdle /\ ~PcBegin
      BY <1>8, NextFrameIs
    <3>2. Waiting = <<pc_byte>>
      BY <1>2, <1>8, Zenon DEF NextFrame
    <3> QED
      BY <1>2, <3>1, <3>2, Zenon
  <2>2. \E u \in -Early .. Late, e \in 0 .. 2 : FrameBegins(u, e)'
    BY <1>2, <1>8, <2>1, NextFrameFollows
  <2> QED
    BY <1>3, <1>4, <2>2, Zenon DEF LineInv
<1> QED
  BY <1>1, <1>6, <1>7, <1>8, Zenon DEF LineInv

(* Any other edge of a receiver that is in a frame                         *)
LEMMA InFrameStep ==
  ASSUME LineTypeOK, LineTypeOK', LineInv, ~coincided, rx_state_q # "IDLE", ~FrameEnds,
         NEW rready, LineClock(rready), ~coincided'
  PROVE  LineInv'
<1> USE HalfBaudIs, SkewIs
<1> DEFINE c == rx_baud_counter_q
           Last == ClocksPerBaud - 1
<1>1. RxTypeOK /\ RxTypeOK' /\ PcTypeOK /\ pending \in Seq(Byte) /\ ReceivedInv
  BY Zenon DEF LineTypeOK, LineInv
<1>2. /\ RxClock(PcLine, rready)
      /\ \/ (PcIdle \/ PcHold \/ PcNextBit) /\ pending' = pending
         \/ PcBegin /\ pending' = Append(pending, pc_byte')
  BY <1>1, PendingMoves, Zenon
<1>3. ~(rx_state_q = "STOP" /\ c = Last)
  BY Zenon DEF FrameEnds, rx_baud_tick
<1>4. rx_state_q = "STOP" => rx_state_q' = "STOP"
  BY <1>1, <1>2, <1>3, RxMoves
<1>5. ASSUME NEW older \in Byte, pending = <<older>>, rx_state_q' = "STOP", ReceivedInv',
             Age(c') >= ClocksPerBaud - Early,
             \A i \in 0 .. 2 : Age(c') - 1 - i >= Late => rx_q'[i],
             PcIdle \/ PcBegin, ~PcHold, ~PcNextBit
      PROVE  LineInv'
  <2>1. FrameOver' \/ NextFrame'
    <3>1. \/ PcIdle /\ pending' = pending
          \/ PcBegin /\ pending' = Append(pending, pc_byte')
      BY <1>2, <1>5, Zenon
    <3> QED
      BY <1>5, <3>1, FrameIsOver
  <2>2. rx_state_q' # "IDLE"
    BY <1>5
  <2> QED
    BY <1>5, <2>1, <2>2, Zenon DEF LineInv
<1>6. ASSUME NEW older \in Byte, pending = <<older>>, PcIdle \/ PcBegin, ~PcHold, ~PcNextBit
      PROVE  Head(pending) = older /\ Head(pending') = older
  <2>1. PcBegin => pc_byte' \in Byte
    BY DEF PcBegin
  <2>2. Head(pending) = older
    BY <1>6
  <2>3. ASSUME PcBegin, pending' = Append(pending, pc_byte') PROVE Head(pending') = older
    <3>1. pending' = <<older, pc_byte'>>
      BY <1>6, <2>1, <2>3, AppendPair, Zenon
    <3> QED
      BY <3>1
  <2> QED
    BY <1>2, <1>6, <2>2, <2>3, Zenon
<1>7. ASSUME NEW u \in -Early .. Late, InFrame(u) PROVE LineInv'
  <2>1. u \in Int /\ -Early <= u /\ u <= Late
    BY SkewRange
  <2>2. rx_state_q' # "IDLE"
    <3>1. /\ c # Last => rx_state_q' = rx_state_q
          /\ c = Last => rx_state_q' \in {"PROC", "STOP"}
      BY <1>1, <1>2, <1>3, <1>7, <2>1, InFrameIs, RxSlotSteps
    <3> QED
      BY <3>1
  <2>3. CASE (PcHold \/ PcNextBit) /\ pending' = pending
    <3>1. ReceivedInv' /\ \E u1 \in -Early .. Late : InFrame(u1)'
      BY <1>1, <1>2, <1>7, <2>1, <2>2, <2>3, FrameGoesOn
    <3> QED
      BY <2>2, <3>1, Zenon DEF LineInv
  <2>4. CASE PcIdle \/ PcBegin
    <3>1. pc_bit # 0 /\ pending = <<pc_byte>>
      BY <1>7, Zenon DEF InFrame
    <3>2. pc_bit = StopBit /\ pc_left = 1
      BY <2>4, <3>1, Zenon DEF PcIdle, PcBegin
    <3>3. ~PcHold /\ ~PcNextBit
      BY <3>2 DEF PcHold, PcNextBit, StopBit
    <3>4. /\ rx_state_q' = "STOP" /\ Age(c') >= ClocksPerBaud - Early
          /\ \A i \in 0 .. 2 : Age(c') - 1 - i >= Late => rx_q'[i]
      BY <1>2, <1>7, <2>1, <2>2, <3>2, StopBitEnds
    <3>5. ReceivedInv'
      <4>1. pc_byte \in Byte /\ (rx_state_q = "PROC" /\ c = Last => rx_q[2] = pc_byte[RxSlot])
        BY <1>7, <2>1, InFrameIs, Zenon
      <4>2. Head(pending) = pc_byte /\ Head(pending') = pc_byte
        BY <1>6, <2>4, <3>1, <3>3, <4>1, Zenon
      <4> QED
        BY <1>1, <1>2, <2>2, <4>1, <4>2, ReceivedStep
    <3> QED
      BY <1>1, <1>5, <2>4, <3>1, <3>3, <3>4, <3>5, Zenon DEF PcTypeOK
  <2> QED
    BY <1>2, <2>3, <2>4, Zenon
<1>8. CASE FrameOver
  <2>1. rx_state_q = "STOP" /\ rx_state_q' = "STOP" /\ rx_state_q' # "IDLE" /\ pc_bit = 0
    BY <1>4, <1>8 DEF FrameOver
  <2>2. PICK older \in Byte : pending = <<older>>
    <3>1. pending \in Seq(Byte) /\ Len(pending) = 1
      BY <1>1, <1>8, Zenon DEF FrameOver, LineTypeOK
    <3> QED
      BY <3>1, OneElement
  <2>3. (PcIdle \/ PcBegin) /\ ~PcHold /\ ~PcNextBit
    <3>1. ~PcHold /\ ~PcNextBit
      BY <2>1 DEF PcHold, PcNextBit
    <3> QED
      BY <1>2, <3>1, Zenon
  <2>4. /\ Age(c') >= ClocksPerBaud - Early
        /\ \A i \in 0 .. 2 : Age(c') - 1 - i >= Late => rx_q'[i]
    BY <1>2, <1>8, <2>1, StopBitOver
  <2>5. ReceivedInv'
    <3>1. Head(pending) = older /\ Head(pending') = older
      BY <1>6, <2>2, <2>3, Zenon
    <3>2. rx_state_q # "PROC" /\ rx_state_q # "IDLE"
      BY <2>1
    <3> QED
      BY <1>1, <1>2, <2>1, <3>1, <3>2, ReceivedStep
  <2> QED
    BY <1>5, <2>1, <2>2, <2>3, <2>4, <2>5, Zenon
<1>9. CASE NextFrame
  <2>1. rx_state_q = "STOP" /\ rx_state_q' = "STOP" /\ rx_state_q' # "IDLE"
    BY <1>4, <1>9 DEF NextFrame
  <2>2. (PcHold \/ PcNextBit) /\ pending' = pending
    BY <1>2, <1>9, NextFrameIs, Zenon
  <2>3. NextFrame'
    BY <1>2, <1>9, <2>1, <2>2, NextFrameStays
  <2>4. ReceivedInv'
    <3>1. PICK older \in Byte : pending = <<older, pc_byte>>
      BY <1>9, Zenon DEF NextFrame
    <3>2. Head(pending) = older /\ Head(pending') = older
      BY <2>2, <3>1
    <3>3. rx_state_q # "PROC" /\ rx_state_q # "IDLE"
      BY <2>1
    <3> QED
      BY <1>1, <1>2, <2>1, <3>2, <3>3, ReceivedStep
  <2> QED
    BY <2>1, <2>3, <2>4, Zenon DEF LineInv
<1> QED
  BY <1>7, <1>8, <1>9, Zenon DEF LineInv
---------------------------------------------------------------------------
(* The initial states and every step                                       *)
LEMMA LineInitInv == LineInit => LineTypeOK /\ LineInv
<1> SUFFICES ASSUME LineInit PROVE LineTypeOK /\ LineInv
  OBVIOUS
<1> USE FrameAssumption, RxAssumption, ZeroByteType, SkewIs
<1>1. RxTypeOK
  <2>1. rx_q \in [0 .. 2 -> BOOLEAN]
    BY SMT DEF LineInit, RxInit
  <2> QED
    BY <2>1, SMT DEF LineInit, RxInit, RxTypeOK, uart_state_t
<1>2. PcTypeOK /\ pending \in Seq(Byte)
  BY SMT DEF LineInit, PcTypeOK, StopBit
<1>3. Quiet
  <2>1. rx_q[1] = FALSE /\ rx_q[2] = FALSE
    BY SMT DEF LineInit, RxInit
  <2> QED
    BY <2>1 DEF LineInit, Quiet
<1>4. rx_state_q = "IDLE" /\ ReceivedInv
  BY DEF LineInit, RxInit, ReceivedInv
<1> QED
  BY <1>1, <1>2, <1>3, <1>4, Zenon DEF LineTypeOK, LineInv

LEMMA LineStepInv ==
  LineTypeOK /\ LineInv /\ [LineNext]_linevars => LineTypeOK' /\ LineInv'
<1> SUFFICES ASSUME LineTypeOK, LineInv, [LineNext]_linevars PROVE LineTypeOK' /\ LineInv'
  OBVIOUS
<1>1. ASSUME NEW rready \in BOOLEAN, LineClock(rready) PROVE LineTypeOK' /\ LineInv'
  <2>1. LineTypeOK'
    BY <1>1, LineTypeStep
  <2>2. CASE coincided'
    BY <2>1, <2>2, Zenon DEF LineInv
  <2>3. CASE ~coincided'
    <3>1. ~coincided
      BY <1>1, <2>3, PendingMoves, Zenon DEF LineTypeOK
    <3>2. CASE rx_state_q = "IDLE"
      BY <1>1, <2>1, <2>3, <3>1, <3>2, IdleLineStep
    <3>3. CASE FrameEnds
      BY <1>1, <2>1, <2>3, <3>1, <3>3, FrameEndStep
    <3>4. CASE rx_state_q # "IDLE" /\ ~FrameEnds
      BY <1>1, <2>1, <2>3, <3>1, <3>4, InFrameStep
    <3> QED
      BY <3>2, <3>3, <3>4
  <2> QED
    BY <2>2, <2>3
<1>2. CASE UNCHANGED linevars
  <2>1. /\ rx_q' = rx_q /\ rx_baud_counter_q' = rx_baud_counter_q /\ rx_state_q' = rx_state_q
        /\ rx_bit_counter_q' = rx_bit_counter_q /\ rx_current_byte_q' = rx_current_byte_q
        /\ rx_fifo' = rx_fifo /\ pending' = pending /\ coincided' = coincided
        /\ pc_bit' = pc_bit /\ pc_left' = pc_left /\ pc_byte' = pc_byte /\ pc_skew' = pc_skew
    BY <1>2 DEF linevars, rxvars, pcvars
  <2>2. LineTypeOK'
    BY <2>1, Zenon DEF LineTypeOK, RxTypeOK, PcTypeOK
  <2>3. ReceivedInv' = ReceivedInv /\ Quiet' = Quiet
    BY <2>1, Zenon DEF ReceivedInv, Quiet
  <2>4. /\ PcSlot' = PcSlot /\ PcElapsed' = PcElapsed /\ RxSlot' = RxSlot
        /\ PcLevel(RxSlot)' = PcLevel(RxSlot) /\ PcLevel(RxSlot + 1)' = PcLevel(RxSlot + 1)
    BY <2>1, Zenon DEF PcSlot, PcElapsed, RxSlot, PcLevel
  <2>5. FrameOver' = FrameOver /\ NextFrame' = NextFrame
    BY <2>1, <2>4, Zenon DEF FrameOver, NextFrame, Age
  <2>6. \A u : SkewUsed(u)' = SkewUsed(u)
    BY <2>1, Zenon DEF SkewUsed
  <2>7. \A u : InFrame(u)' = InFrame(u)
    BY <2>1, <2>4, <2>6, Zenon DEF InFrame, InStep, SampledSkewed, Age
  <2>8. \A u, e : FrameBegins(u, e)' = FrameBegins(u, e)
    BY <2>1, <2>4, <2>6, Zenon DEF FrameBegins, InStep
  <2> QED
    BY <2>1, <2>2, <2>3, <2>5, <2>7, <2>8, Zenon DEF LineInv
<1> QED
  BY <1>1, <1>2 DEF LineNext

(* Every byte of a transmitter whose frames are off by less than half a    *)
(* bit in all is received, once, whole and in order, whatever cycle the    *)
(* skew falls in and also when frames follow without a pause, as long as   *)
(* no start edge meets the free-running tick (uart.sv:170-232).            *)
THEOREM AlwaysReceivedDespiteSkew == LineSpec => []ReceivedDespiteSkew
<1>1. LineTypeOK /\ LineInv => ReceivedDespiteSkew
  <2> SUFFICES ASSUME LineTypeOK, LineInv, ~coincided
               PROVE  /\ FrameEnds => pending # <<>> /\ rx_valid /\ rx_current_byte_q = Head(pending)
                      /\ Len(pending) <= 2
                      /\ Len(pending) = 2 => rx_state_q = "STOP"
    BY Zenon DEF ReceivedDespiteSkew
  <2>1. /\ ReceivedInv /\ pending \in Seq(Byte)
        /\ rx_state_q = "IDLE" =>
             Quiet \/ \E u \in -Early .. Late, e \in 0 .. 2 : FrameBegins(u, e)
        /\ rx_state_q # "IDLE" => FrameOver \/ NextFrame \/ \E u \in -Early .. Late : InFrame(u)
    BY Zenon DEF LineInv, LineTypeOK
  <2>2. /\ Len(pending) <= 2 /\ (Len(pending) = 2 => rx_state_q = "STOP")
        /\ rx_state_q # "IDLE" => pending # <<>>
    <3>1. Quiet => pending = <<>>
      BY Zenon DEF Quiet
    <3>2. \A u, e : FrameBegins(u, e) => pending = <<pc_byte>>
      BY Zenon DEF FrameBegins
    <3>3. \A u : InFrame(u) => pending = <<pc_byte>>
      BY Zenon DEF InFrame
    <3>4. FrameOver => Len(pending) = 1
      BY Zenon DEF FrameOver
    <3>5. NextFrame => rx_state_q = "STOP" /\ \E older \in Byte : pending = <<older, pc_byte>>
      BY Zenon DEF NextFrame
    <3>6. \/ pending = <<>> /\ rx_state_q = "IDLE"
          \/ pending = <<pc_byte>>
          \/ Len(pending) = 1
          \/ rx_state_q = "STOP" /\ \E older \in Byte : pending = <<older, pc_byte>>
      BY <2>1, <3>1, <3>2, <3>3, <3>4, <3>5, Zenon
    <3>7. CASE pending = <<>> /\ rx_state_q = "IDLE"
      BY <3>7
    <3>8. CASE pending = <<pc_byte>>
      <4>1. Len(pending) = 1 /\ pending # <<>>
        BY <3>8
      <4> QED
        BY <4>1
    <3>9. CASE Len(pending) = 1
      <4>1. pending # <<>>
        BY <3>9
      <4> QED
        BY <3>9, <4>1
    <3>10. CASE rx_state_q = "STOP" /\ \E older \in Byte : pending = <<older, pc_byte>>
      <4>1. PICK older \in Byte : pending = <<older, pc_byte>>
        BY <3>10
      <4>2. Len(pending) = 2 /\ pending # <<>>
        BY <4>1
      <4> QED
        BY <3>10, <4>2
    <3> QED
      BY <3>6, <3>7, <3>8, <3>9, <3>10, Zenon
  <2>3. ASSUME FrameEnds PROVE rx_valid /\ rx_current_byte_q = Head(pending) /\ rx_state_q # "IDLE"
    <3>1. rx_state_q = "STOP" /\ rx_state_q # "IDLE"
      BY <2>3 DEF FrameEnds
    <3>2. rx_q[2]
      <4>1. FrameOver => rx_q[2]
        BY <2>3, StopBitOverSeen
      <4>2. ASSUME NEW u \in -Early .. Late, InFrame(u) PROVE rx_q[2]
        BY <2>3, <4>2, SkewRange, StopBitSeen
      <4>3. ASSUME NextFrame PROVE rx_q[2]
        <5>1. /\ 2 >= PcElapsed /\ Age(rx_baud_counter_q) - 1 - 2 >= Late /\ 2 \in 0 .. 2
          BY <2>3, <4>3, NextFrameIs, HalfBaudIs, SkewIs DEF FrameEnds, rx_baud_tick, Age
        <5> QED
          BY <4>3, <5>1, Zenon DEF NextFrame
      <4> QED
        BY <2>1, <3>1, <4>1, <4>2, <4>3, Zenon
    <3> QED
      BY <2>1, <3>1, <3>2, Zenon DEF rx_valid, ReceivedInv
  <2> QED
    BY <2>2, <2>3
<1> QED
  BY <1>1, LineInitInv, LineStepInv, PTL DEF LineSpec
=============================================================================
