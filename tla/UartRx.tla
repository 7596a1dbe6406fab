------------------------------- MODULE UartRx -------------------------------
(***************************************************************************)
(* The receive half of uart.sv.  One RxClock step is one rising edge of    *)
(* clk_i; every expression in it reads the registers before the edge.      *)
(***************************************************************************)
EXTENDS UartFrame

CONSTANTS RxFifoDepth      \* 128 in the code

ASSUME RxAssumption == RxFifoDepth \in Nat \ {0}

VARIABLES rx_q,               \* synchroniser, rx_q[2] the oldest sample
          rx_baud_counter_q, rx_state_q, rx_bit_counter_q, rx_current_byte_q,
          rx_fifo,            \* u_rx_fifo, as the queue PrimFifo implements
          coincided           \* history: a start edge met the free-running tick

rxvars == <<rx_q, rx_baud_counter_q, rx_state_q, rx_bit_counter_q, rx_current_byte_q, rx_fifo>>

---------------------------------------------------------------------------
rx_baud_tick == rx_baud_counter_q = ClocksPerBaud - 1

rx_start == ~rx_q[1] /\ rx_q[2] /\ rx_state_q = "IDLE"

rx_valid == rx_state_q = "STOP" /\ rx_q[2]

FrameEnds == rx_state_q = "STOP" /\ rx_baud_tick

rx_fifo_wvalid == rx_baud_tick /\ rx_valid

uart_irq_o == rx_fifo # <<>>

rx_baud_counter_d_FreeRunning == IF rx_baud_tick THEN 0 ELSE rx_baud_counter_q + 1
(* The tick has priority over the start edge                               *)
rx_baud_counter_d == IF rx_baud_tick THEN 0
                     ELSE IF rx_start THEN ClocksPerBaud \div 2
                     ELSE rx_baud_counter_q + 1
---------------------------------------------------------------------------
RxInit == /\ rx_q = [i \in 0 .. 2 |-> FALSE]
          /\ rx_baud_counter_q = 0
          /\ rx_state_q = "IDLE"
          /\ rx_bit_counter_q = 0
          /\ rx_current_byte_q = ZeroByte
          /\ rx_fifo = <<>>

RxIdle == /\ rx_state_q = "IDLE"
          /\ rx_state_q' = IF rx_start THEN "START" ELSE "IDLE"
          /\ UNCHANGED <<rx_bit_counter_q, rx_current_byte_q>>

RxStartBit == /\ rx_state_q = "START"
              /\ rx_current_byte_q' = ZeroByte
              /\ rx_bit_counter_q' = 0
              /\ rx_state_q' = IF rx_q[2] THEN "IDLE" ELSE "PROC"

RxLastBit_OneMore == rx_bit_counter_q = Bits
RxLastBit == rx_bit_counter_q = Bits - 1

RxDataBit == /\ rx_state_q = "PROC"
             /\ rx_current_byte_q' = ShiftIn(rx_current_byte_q, rx_q[2])
             /\ IF RxLastBit
                  THEN rx_state_q' = "STOP" /\ UNCHANGED rx_bit_counter_q
                  ELSE rx_bit_counter_q' = (rx_bit_counter_q + 1) % Bits /\ UNCHANGED rx_state_q

RxStopBit == /\ rx_state_q = "STOP"
             /\ rx_state_q' = "IDLE"
             /\ UNCHANGED <<rx_bit_counter_q, rx_current_byte_q>>

(* line is uart_rx_i; rready is a read of the RX register                  *)
RxClock(line, rready) ==
  /\ rx_q' = [i \in 0 .. 2 |-> IF i = 0 THEN line ELSE rx_q[i - 1]]
  /\ rx_baud_counter_q' = rx_baud_counter_d
  /\ IF rx_start \/ rx_baud_tick
       THEN RxIdle \/ RxStartBit \/ RxDataBit \/ RxStopBit
       ELSE UNCHANGED <<rx_state_q, rx_bit_counter_q, rx_current_byte_q>>
  /\ rx_fifo' = QueueStep(rx_fifo, RxFifoDepth, rx_fifo_wvalid, rx_current_byte_q, rready)

(* The registers hold values of their width and the FIFO does not overflow *)
RxTypeOK == /\ rx_q \in [0 .. 2 -> BOOLEAN]
            /\ rx_baud_counter_q \in 0 .. ClocksPerBaud - 1
            /\ rx_state_q \in uart_state_t
            /\ rx_bit_counter_q \in 0 .. Bits - 1
            /\ rx_current_byte_q \in Byte
            /\ rx_fifo \in Seq(Byte) /\ Len(rx_fifo) <= RxFifoDepth
=============================================================================
