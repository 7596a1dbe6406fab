------------------------------ MODULE UartLine ------------------------------
(***************************************************************************)
(* The receiver of uart.sv and the serial line it listens to, driven by a  *)
(* transmitter whose bits are not exactly ClocksPerBaud of our clocks long.*)
(* The processor reads the RX register in any cycle.                       *)
(***************************************************************************)
EXTENDS UartRx

CONSTANTS Early, Late   \* by how many cycles one bit of a frame may be off

(* A frame is off by less than half a bit in all: the stop bit begins      *)
(* before it is sampled, and ends after that                               *)
ASSUME SkewAssumption ==
  /\ Early \in Nat /\ Early <= ClocksPerBaud \div 2 - 1
  /\ Late \in Nat /\ Late <= ClocksPerBaud - 1 - ClocksPerBaud \div 2

VARIABLES pc_bit,     \* bit on the line: 0 idle, 1 start, then data, then stop
          pc_left,    \* cycles this bit still lasts
          pc_byte,    \* byte of the current frame
          pc_skew,    \* skew the current frame has not used yet
          pending,    \* history: bytes sent whose stop bit was not sampled
          start_age   \* history: cycles the start bit has been seen on rx_q[2]

pcvars == <<pc_bit, pc_left, pc_byte, pc_skew>>
linevars == <<rxvars, pcvars, pending, coincided, start_age>>

StopBit == Bits + 2

PcLine == \/ pc_bit = 0 \/ pc_bit = StopBit
          \/ pc_bit \in 2 .. Bits + 1 /\ pc_byte[pc_bit - 1]
---------------------------------------------------------------------------
LineInit == /\ RxInit
            /\ pc_bit = 0 /\ pc_left = 1 /\ pc_byte = ZeroByte /\ pc_skew = 0
            /\ pending = <<>> /\ coincided = FALSE /\ start_age = 0

(* The transmitter: wait, begin a frame (also right after a stop bit), hold*)
(* the bit, or go on to the next bit, whose length takes up the skew or not*)
PcIdle == /\ pc_bit = 0 \/ (pc_bit = StopBit /\ pc_left = 1)
          /\ pc_bit' = 0 /\ pc_left' = 1 /\ pc_skew' = 0
          /\ UNCHANGED pc_byte

(* rx_q is 0 after reset: the line must have been seen high first          *)
PcBegin == /\ pc_bit = 0 \/ (pc_bit = StopBit /\ pc_left = 1)
           /\ rx_q[1]
           /\ pc_byte' \in Byte
           /\ pc_skew' \in -Early .. Late
           /\ pc_bit' = 1 /\ pc_left' = ClocksPerBaud

PcHold == /\ pc_bit # 0 /\ pc_left > 1
          /\ pc_left' = pc_left - 1
          /\ UNCHANGED <<pc_bit, pc_byte, pc_skew>>

PcNextBit == /\ pc_bit \in 1 .. StopBit - 1 /\ pc_left = 1
             /\ pc_bit' = pc_bit + 1
             /\ \/ pc_left' = ClocksPerBaud + pc_skew /\ pc_skew' = 0
                \/ pc_left' = ClocksPerBaud /\ UNCHANGED pc_skew
             /\ UNCHANGED pc_byte

Waiting == IF FrameEnds /\ pending # <<>> THEN Tail(pending) ELSE pending

(* One clock edge of the whole; the history of frames is given up for good *)
(* once a start edge has coincided with the tick                           *)
LineClock(rready) ==
  /\ RxClock(PcLine, rready)
  /\ coincided' = (coincided \/ (rx_start /\ rx_baud_tick))
  /\ \/ /\ PcIdle \/ PcHold \/ PcNextBit
        /\ pending' = IF coincided' THEN <<>> ELSE Waiting
     \/ /\ PcBegin
        /\ pending' = IF coincided' THEN <<>> ELSE Append(Waiting, pc_byte')
  /\ start_age' = IF rx_start THEN 1 ELSE IF rx_state_q = "START" THEN start_age + 1 ELSE 0

LineNext == \E rready \in BOOLEAN : LineClock(rready)

LineSpec == LineInit /\ [][LineNext]_linevars
LineFairSpec == LineSpec /\ WF_linevars(LineNext)
---------------------------------------------------------------------------
(* Unless a start edge coincided with the free-running tick, the byte that *)
(* goes into the FIFO is the byte the transmitter sent, and no frame is    *)
(* skipped, split or invented, back-to-back frames and skew included.      *)
ReceivedDespiteSkew ==
  ~coincided =>
    /\ FrameEnds => pending # <<>> /\ rx_valid /\ rx_current_byte_q = Head(pending)
    /\ Len(pending) <= 2
    /\ Len(pending) = 2 => rx_state_q = "STOP"

(* "Set the rx_baud_counter half-way on rx_start to ensure sampling the    *)
(* bits 'in the middle'": a start bit is sampled half a bit after it came. *)
SampledInTheMiddle ==
  rx_state_q = "START" /\ rx_baud_tick => 2 * start_age - ClocksPerBaud \in -2 .. 2

(* A frame that was begun is received.                                     *)
FrameReceived == (pending # <<>>) ~> (FrameEnds \/ coincided)
=============================================================================
