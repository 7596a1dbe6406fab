----------------------------- MODULE UartFrame -----------------------------
(* What the two halves of uart.sv share.  A byte is the function of its    *)
(* bits, bit 1 the least significant; TRUE is a high line.                 *)
EXTENDS Integers, Sequences, QueueOps

CONSTANTS ClocksPerBaud,   \* clock cycles per bit: 434 on the FPGA
          Bits             \* data bits of a frame: 8 in the code, a 3-bit counter

ASSUME FrameAssumption == ClocksPerBaud \in Nat /\ ClocksPerBaud >= 2 /\ Bits \in Nat \ {0}

Byte == [1 .. Bits -> BOOLEAN]
ZeroByte == [i \in 1 .. Bits |-> FALSE]
uart_state_t == {"IDLE", "START", "PROC", "STOP"}

(* {in, byte[7:1]}                                                         *)
ShiftIn(byte, in) == [i \in 1 .. Bits |-> IF i = Bits THEN in ELSE byte[i + 1]]
=============================================================================
