------------------------------- MODULE SpiTop -------------------------------
(***************************************************************************)
(* spi_top.sv with its spi_host.sv, CPOL = 0 and CPHA = 1 as the system    *)
(* instantiates it.  One SpiClock step is one rising edge of clk_i.  A     *)
(* byte is the sequence of its bits, the most significant first.           *)
(***************************************************************************)
EXTENDS Integers, Sequences, QueueOps

CONSTANTS ToggleCount,   \* clock cycles per half SCK period: 2
          Bits,          \* 8 in the code
          TxFifoDepth    \* 127 in the code

ASSUME SpiAssumption == /\ ToggleCount \in Nat /\ ToggleCount >= 2
                        /\ Bits \in Nat \ {0} /\ TxFifoDepth \in Nat \ {0}

VARIABLES count, sck,                       \* SCK generator
          state_q, bit_counter_q, current_byte_q, next_tx_byte_q,
          tx_fifo                           \* u_tx_fifo, as the queue PrimFifo implements

spivars == <<count, sck, state_q, bit_counter_q, current_byte_q, next_tx_byte_q, tx_fifo>>

Byte == [1 .. Bits -> BOOLEAN]
ZeroByte == [i \in 1 .. Bits |-> FALSE]
ShiftLeft(byte, in) == Append(Tail(byte), in)
---------------------------------------------------------------------------
start_i == tx_fifo # <<>>            \* tx_fifo_rvalid
sck_en == state_q = "SEND"
sck_o == sck_en /\ sck               \* CPOL while not sending
count_at_limit == count >= ToggleCount - 1
sck_pos == count_at_limit /\ ~sck
sck_neg == count_at_limit /\ sck

spi_tx_o == state_q = "SEND" => current_byte_q[1]

next_tx_byte_AtStart == state_q = "START"
next_tx_byte == state_q = "STOP"

(* The state machine asks for a byte for many cycles: pop on the first one *)
tx_fifo_rready_Level == next_tx_byte
tx_fifo_rready == next_tx_byte /\ ~next_tx_byte_q

tx_fifo_empty == tx_fifo = <<>>
tx_fifo_full == ~Accepts(tx_fifo, TxFifoDepth)
---------------------------------------------------------------------------
SpiInit == /\ count = 0 /\ sck = FALSE
           /\ state_q = "IDLE" /\ bit_counter_q = 0
           /\ current_byte_q = ZeroByte
           /\ next_tx_byte_q = FALSE
           /\ tx_fifo = <<>>

SckClock == IF ~(sck_en \/ start_i) THEN count' = 0 /\ sck' = FALSE
            ELSE IF count_at_limit THEN count' = 0 /\ sck' = ~sck
            ELSE count' = count + 1 /\ UNCHANGED sck

(* state_d and bit_counter_d, taken over on a positive edge of sck         *)
LastBit == bit_counter_q = 0

Advance == \/ /\ state_q = "IDLE"
              /\ state_q' = IF start_i THEN "START" ELSE "IDLE"
              /\ UNCHANGED bit_counter_q
           \/ /\ state_q = "START"
              /\ state_q' = "SEND" /\ bit_counter_q' = Bits - 1
           \/ /\ state_q = "SEND" /\ LastBit
              /\ state_q' = "STOP" /\ UNCHANGED bit_counter_q
           \/ /\ state_q = "SEND" /\ ~LastBit
              /\ bit_counter_q' = (bit_counter_q - 1) % Bits /\ UNCHANGED state_q
           \/ /\ state_q = "STOP"
              /\ state_q' = "IDLE" /\ UNCHANGED bit_counter_q

(* current_byte_d, taken over on a negative edge                           *)
current_byte_d == CASE state_q = "START" -> QueueOut(tx_fifo, ZeroByte)
                    [] state_q = "SEND"  -> ShiftLeft(current_byte_q, FALSE)
                    [] OTHER             -> current_byte_q

(* gen_cpha; the received byte is not modelled: the system leaves it open  *)
OnPosedge == sck_pos /\ Advance /\ UNCHANGED current_byte_q

OnNegedge == sck_neg /\ current_byte_q' = current_byte_d /\ UNCHANGED <<state_q, bit_counter_q>>

NoEdge == ~sck_pos /\ ~sck_neg /\ UNCHANGED <<state_q, bit_counter_q, current_byte_q>>

(* wvalid, wdata: a write of the TX register                               *)
SpiClock(wvalid, wdata) ==
  /\ SckClock
  /\ OnPosedge \/ OnNegedge \/ NoEdge
  /\ next_tx_byte_q' = next_tx_byte
  /\ tx_fifo' = QueueStep(tx_fifo, TxFifoDepth, wvalid, wdata, tx_fifo_rready)

SpiTypeOK == /\ count \in 0 .. ToggleCount - 1 /\ sck \in BOOLEAN
             /\ state_q \in {"IDLE", "START", "SEND", "STOP"}
             /\ bit_counter_q \in 0 .. Bits - 1
             /\ current_byte_q \in Byte
             /\ next_tx_byte_q \in BOOLEAN
             /\ tx_fifo \in Seq(Byte) /\ Len(tx_fifo) <= TxFifoDepth
=============================================================================
