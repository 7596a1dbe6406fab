------------------------------- MODULE UartTx -------------------------------
(***************************************************************************)
(* The transmit half of uart.sv.  The baud counter runs freely; the state  *)
(* machine moves on its tick only.                                         *)
(***************************************************************************)
EXTENDS UartFrame

CONSTANTS TxFifoDepth         \* 128 in the code

ASSUME TxAssumption == TxFifoDepth \in Nat \ {0}

VARIABLES tx_baud_counter_q, tx_state_q, tx_bit_counter_q, tx_current_byte_q,
          tx_fifo             \* u_tx_fifo, as the queue PrimFifo implements

txvars == <<tx_baud_counter_q, tx_state_q, tx_bit_counter_q, tx_current_byte_q, tx_fifo>>

---------------------------------------------------------------------------
tx_baud_tick == tx_baud_counter_q = ClocksPerBaud - 1

tx_fifo_full == ~Accepts(tx_fifo, TxFifoDepth)

tx_fifo_rready == tx_baud_tick /\ tx_state_q = "START"

uart_tx_o == \/ tx_state_q \in {"IDLE", "STOP"}
             \/ tx_state_q = "PROC" /\ tx_current_byte_q[1]
---------------------------------------------------------------------------
TxInit == /\ tx_baud_counter_q = 0
          /\ tx_state_q = "IDLE"
          /\ tx_bit_counter_q = 0
          /\ tx_current_byte_q = ZeroByte
          /\ tx_fifo = <<>>

AfterStop_AlwaysStart == "START"
(* IDLE and STOP look at the FIFO before they start a frame                *)
AfterStop == IF tx_fifo # <<>> THEN "START" ELSE "IDLE"

TxIdleOrStop == /\ tx_state_q \in {"IDLE", "STOP"}
                /\ tx_state_q' = AfterStop
                /\ UNCHANGED <<tx_bit_counter_q, tx_current_byte_q>>

TxStartBit == /\ tx_state_q = "START"
              /\ tx_state_q' = "PROC"
              /\ tx_bit_counter_q' = 0
              /\ tx_current_byte_q' = QueueOut(tx_fifo, ZeroByte)

TxLastBit_OneLess == tx_bit_counter_q = Bits - 2
TxLastBit == tx_bit_counter_q = Bits - 1

TxDataBit == /\ tx_state_q = "PROC"
             /\ tx_current_byte_q' = ShiftIn(tx_current_byte_q, FALSE)
             /\ IF TxLastBit
                  THEN tx_state_q' = "STOP" /\ UNCHANGED tx_bit_counter_q
                  ELSE tx_bit_counter_q' = (tx_bit_counter_q + 1) % Bits /\ UNCHANGED tx_state_q

(* wvalid, wdata: a write of the TX register; a full FIFO ignores it       *)
TxClock(wvalid, wdata) ==
  /\ tx_baud_counter_q' = IF tx_baud_tick THEN 0 ELSE tx_baud_counter_q + 1
  /\ IF tx_baud_tick
       THEN TxIdleOrStop \/ TxStartBit \/ TxDataBit
       ELSE UNCHANGED <<tx_state_q, tx_bit_counter_q, tx_current_byte_q>>
  /\ tx_fifo' = QueueStep(tx_fifo, TxFifoDepth, wvalid, wdata, tx_fifo_rready)

TxTypeOK == /\ tx_baud_counter_q \in 0 .. ClocksPerBaud - 1
            /\ tx_state_q \in uart_state_t
            /\ tx_bit_counter_q \in 0 .. Bits - 1
            /\ tx_current_byte_q \in Byte
            /\ tx_fifo \in Seq(Byte) /\ Len(tx_fifo) <= TxFifoDepth
=============================================================================
