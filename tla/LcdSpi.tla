------------------------------- MODULE LcdSpi -------------------------------
(***************************************************************************)
(* The LCD driver on top of the SPI controller.  lcd_st7735.c turns every  *)
(* drawing operation into calls of gpio_write(cs, dc) and spi_write(bytes) *)
(* (sw/c/demo/lcd_st7735/main.c); D/C and CS are two bits of the GPIO      *)
(* output register, changed by a read and a write each, and must be right  *)
(* for every byte while the controller, running on its own, shifts it out. *)
(***************************************************************************)
EXTENDS SpiWires

CONSTANTS Command, Pixel,   \* two bytes, one sent with D/C low, one with high
          MaxData           \* bound: data bytes after one command

ASSUME LcdAssumption == /\ {Command, Pixel} \subseteq Byte /\ Command # Pixel
                        /\ MaxData \in Nat

VARIABLES gpio,    \* the two bits of the GPIO output register
          calls,   \* calls of the interface still to make, the current one first
          stage,   \* the device access the current call makes next
          bits     \* output_bits of set_output_bit

swvars == <<gpio, calls, stage, bits>>
vars == <<wirevars, swvars>>

GpioWrite(cs, dc) == [fn |-> "gpio_write", cs |-> cs, dc |-> dc]
SpiWrite(data) == [fn |-> "spi_write", data |-> data]
---------------------------------------------------------------------------
(* The driver's operations as sequences of interface calls                 *)
write_command == << GpioWrite(FALSE, FALSE), SpiWrite(<<Command>>) >>

(* write_buffer makes no call for an empty buffer                          *)
write_buffer(n) == IF n = 0 THEN <<>> ELSE << SpiWrite([i \in 1 .. n |-> Pixel]) >>

data_phase(n) == << GpioWrite(FALSE, TRUE) >> \o write_buffer(n) \o << GpioWrite(TRUE, TRUE) >>

(* write_register, run_script, set_address and the drawing functions are   *)
(* made of commands with n bytes of data and commands left selected (RAMWR)*)
Operation == {write_command} \cup {write_command \o data_phase(n) : n \in 0 .. MaxData}
---------------------------------------------------------------------------
Init == /\ WiresInit
        /\ gpio \in [cs : BOOLEAN, dc : BOOLEAN]
        /\ bits = [cs |-> FALSE, dc |-> FALSE]
        /\ calls = <<>> /\ stage = "next"

call == Head(calls)
FirstStage(c) == IF c.fn = "gpio_write" THEN "dc_read" ELSE "wait"

Quiet == UNCHANGED <<gpio, bits>>

NextCall == /\ stage = "next"
            /\ \/ calls = <<>> /\ calls' \in Operation
               \/ calls # <<>> /\ UNCHANGED calls
            /\ stage' = FirstStage(calls'[1])
            /\ Quiet

Return == calls' = Tail(calls) /\ stage' = "next"

(* gpio_write: set_output_bit for D/C, then for CS                         *)
ReadBits == /\ stage \in {"dc_read", "cs_read"}
            /\ bits' = gpio
            /\ stage' = IF stage = "dc_read" THEN "dc_write" ELSE "cs_write"
            /\ UNCHANGED <<gpio, calls>>

WriteDc == /\ stage = "dc_write"
           /\ gpio' = [bits EXCEPT !.dc = call.dc]
           /\ stage' = "cs_read"
           /\ UNCHANGED <<bits, calls>>

WriteCs == /\ stage = "cs_write"
           /\ gpio' = [bits EXCEPT !.cs = call.cs]
           /\ Return
           /\ UNCHANGED bits

(* spi_write: spi_tx, then spi_wait_idle again                             *)
WaitIdle == /\ stage = "wait"
            /\ stage' = IF tx_fifo_empty THEN "poll_full" ELSE "wait"
            /\ Quiet /\ UNCHANGED calls

PollFull == /\ stage = "poll_full"
            /\ stage' = IF tx_fifo_full THEN "poll_full" ELSE "push"
            /\ Quiet /\ UNCHANGED calls

Push_WithoutPoll == /\ stage = "push"
                    /\ IF Len(call.data) = 1
                         THEN stage' = "drain" /\ UNCHANGED calls
                         ELSE stage' = "push" /\ calls' = << SpiWrite(Tail(call.data)) >> \o Tail(calls)
                    /\ Quiet
Push == /\ stage = "push"
        /\ IF Len(call.data) = 1
             THEN stage' = "drain" /\ UNCHANGED calls
             ELSE stage' = "poll_full" /\ calls' = << SpiWrite(Tail(call.data)) >> \o Tail(calls)
        /\ Quiet

Drained_WhenNotFull == ~tx_fifo_full
Drained_WhenFull == tx_fifo_full
Drained == tx_fifo_empty

Drain == /\ stage = "drain"
         /\ IF Drained THEN Return ELSE UNCHANGED <<calls, stage>>
         /\ Quiet

SwStep == \/ NextCall \/ ReadBits \/ WriteDc \/ WriteCs
          \/ WaitIdle \/ PollFull \/ Push \/ Drain

pushes == stage = "push"
pushed == IF pushes THEN Head(call.data) ELSE ZeroByte

(* A clock edge with or without a step of the program                      *)
Access == SwStep /\ WiresClock(pushes, pushed)
Wait == UNCHANGED swvars /\ WiresClock(FALSE, ZeroByte)

Next == Access \/ Wait

Spec == Init /\ [][Next]_vars /\ WF_vars(Next) /\ WF_vars(Access)
---------------------------------------------------------------------------
TypeOK == /\ WiresTypeOK
          /\ gpio \in [cs : BOOLEAN, dc : BOOLEAN] /\ bits \in [cs : BOOLEAN, dc : BOOLEAN]
          /\ stage \in {"next", "dc_read", "dc_write", "cs_read", "cs_write",
                        "wait", "poll_full", "push", "drain"}

(* While the controller shifts a byte out, the LCD is selected and D/C     *)
(* tells what kind of byte it is, although the program polls only the FIFO.*)
SelectedWhileSending ==
  state_q \in {"START", "SEND"} => /\ ~gpio.cs
                                   /\ gpio.dc <=> Head(tx_fifo) # Command

(* spi_send_byte_blocking never writes to a full FIFO, which would lose the*)
(* byte, although it polls and writes in separate accesses.                *)
NeverLost == stage = "push" => ~tx_fifo_full

(* The two polling loops and the engine do not wait for each other: every  *)
(* operation of the driver finishes.                                       *)
OperationFinishes == (calls # <<>>) ~> (calls = <<>>)
=============================================================================
