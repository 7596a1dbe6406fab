---------------------------- MODULE MCHelloWorld ----------------------------
(***************************************************************************)
(* Layouts for HelloWorld: the vectors at the start of the RAM (link.ld),  *)
(* handlers near them and at the far end of its 120 KiB, so that between   *)
(* them their distances have every bit from 1 to 16 both set and clear.    *)
(***************************************************************************)
EXTENDS HelloWorld

MCVectorsStart == 1048576

MCLayouts ==
  { [test_uart_irq_handler |-> MCVectorsStart + 64 + 2730,
     simple_timer_handler  |-> MCVectorsStart + 28 + 5460,
     default_exc_handler   |-> MCVectorsStart + 132],
    [test_uart_irq_handler |-> MCVectorsStart + 64 + 111958,
     simple_timer_handler  |-> MCVectorsStart + 28 + 87720,
     default_exc_handler   |-> MCVectorsStart + 122838] }
=============================================================================
