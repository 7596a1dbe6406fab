------------------------------ MODULE UartLink ------------------------------
(***************************************************************************)
(* Two UARTs of this design: what the program of one writes to its TX      *)
(* register, the program of the other reads from its RX register.  Both    *)
(* run at the same clock rate, but left reset at different times, so the   *)
(* free-running baud counters have any phase to each other.  The programs  *)
(* access the registers in any cycle, without polling the status first.    *)
(***************************************************************************)
EXTENDS UartRx, UartTx

VARIABLES wire        \* history: byte popped for sending, stop bit not sampled

vars == <<rxvars, txvars, wire, coincided>>
---------------------------------------------------------------------------
Init == /\ TxInit
        /\ rx_q = [i \in 0 .. 2 |-> TRUE]
        /\ rx_baud_counter_q \in 0 .. ClocksPerBaud - 1
        /\ rx_state_q = "IDLE" /\ rx_bit_counter_q = 0 /\ rx_current_byte_q = ZeroByte
        /\ rx_fifo = <<>>
        /\ wire = <<>> /\ coincided = FALSE

(* The history follows the two FIFO ports: a byte enters the wire when     *)
(* u_tx_fifo is popped and leaves it when its stop bit is sampled.         *)
Wire == IF FrameEnds /\ wire # <<>> THEN Tail(wire) ELSE wire

Clock(wvalid, wdata, rready) ==
  /\ TxClock(wvalid, wdata)
  /\ RxClock(uart_tx_o, rready)
  /\ coincided' = (coincided \/ (rx_start /\ rx_baud_tick))
  /\ wire' = IF coincided' THEN <<>>
             ELSE IF tx_fifo_rready THEN Append(Wire, QueueOut(tx_fifo, ZeroByte))
             ELSE Wire

Next == \E wvalid, rready \in BOOLEAN, wdata \in Byte : Clock(wvalid, wdata, rready)

Spec == Init /\ [][Next]_vars /\ WF_vars(Next)
---------------------------------------------------------------------------
TypeOK == RxTypeOK /\ TxTypeOK /\ wire \in Seq(Byte)

(* A frame is started only for a byte: nothing but the state machine pops, *)
(* so the byte seen when leaving IDLE or STOP is there one bit later, and  *)
(* the zero an empty FIFO shows is never sent.                             *)
FrameHasByte == tx_state_q = "START" => tx_fifo # <<>>

(* The receiver puts into its FIFO the bytes the transmitter popped, once  *)
(* each, in order: the two state machines agree on the frame format.       *)
ReceivedAsSent ==
  ~coincided =>
    /\ FrameEnds => wire # <<>> /\ rx_valid /\ rx_current_byte_q = Head(wire)
    /\ Len(wire) <= 1
=============================================================================
