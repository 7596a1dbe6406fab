----------------------------- MODULE HelloWorld -----------------------------
(***************************************************************************)
(* The hello_world demo: main prints a line at every tick of the timer and *)
(* sleeps; the UART interrupt handler echoes what is typed; the timer      *)
(* interrupt handler counts the ticks.  All share one UART.  A character   *)
(* is not told from another, only which program wrote it.  Before its loop *)
(* main installs the handlers and enables the interrupts.                  *)
(***************************************************************************)
EXTENDS ExcVectors, Sequences

CONSTANTS RxFifoDepth, TxFifoDepth,
          LineLength,   \* characters of a "Hello World!" line, without the newline
          MaxInput,     \* bound: bytes typed before the input pauses for good
          Layouts       \* where the linker puts the handlers

(* The RAM, from the vectors on (link.ld): the handlers are in it, apart   *)
(* from each other                                                         *)
Ram == VectorsStart .. VectorsStart + 122880 - 1

ASSUME HelloAssumption ==
  /\ {RxFifoDepth, TxFifoDepth, LineLength} \subseteq Nat \ {0} /\ MaxInput \in Nat
  /\ Layouts \subseteq [test_uart_irq_handler : Ram, simple_timer_handler : Ram,
                        default_exc_handler : Ram]
  /\ \A l \in Layouts :
       /\ \A f \in DOMAIN l : l[f] % 2 = 0
       /\ \A f, g \in DOMAIN l : f # g => l[f] # l[g]

VARIABLES at, vectors,          \* addresses of the handlers, the jumps to them
          main, isr,            \* next step of main and of the handler that runs, if any
          left,                 \* characters main has yet to print
          MIE, mie,             \* mstatus.MIE as the program set it (off in a handler
                                \* too), interrupts enabled by the mie register
          unshown,              \* time_elapsed # last_elapsed_time
          rx, tx,               \* bytes in the UART FIFOs: a number, a sequence of authors
          armed, timer_irq,     \* the timer will fire, has fired
          typed,                \* bytes received so far
          line                  \* history: authors of the line that goes out

vars == <<at, vectors, main, isr, left, MIE, mie, unshown, rx, tx, armed, timer_irq, typed, line>>

UART_IRQ_NUM == 16
TIMER_IRQ_NUM == 7

uart_irq == rx > 0
Pending(irq) == IF irq = UART_IRQ_NUM THEN uart_irq ELSE timer_irq
Enabled(irq) == Pending(irq) /\ irq \in mie /\ MIE /\ isr = "none"
---------------------------------------------------------------------------
(* Out of reset the timer's interrupt is pending: mtime and mtimecmp are   *)
(* both 0                                                                  *)
Init == /\ at \in Layouts /\ vectors = DefaultVectors(at.default_exc_handler)
        /\ main = "install_uart" /\ isr = "none" /\ left = 0 /\ MIE = FALSE /\ mie = {}
        /\ unshown = FALSE
        /\ rx = 0 /\ tx = <<>> /\ armed = FALSE /\ timer_irq = TRUE /\ typed = 0 /\ line = <<>>

uartvars == <<rx, tx, typed, line>>
timevars == <<unshown, armed, timer_irq>>
bootvars == <<at, vectors, mie>>

(* uart_out waits for room; nothing else fills the FIFO meanwhile          *)
uart_out(author) == Len(tx) < TxFifoDepth /\ tx' = Append(tx, author)

(* An interrupt is taken before the next instruction of main, the UART     *)
(* before the timer                                                        *)
MainRuns == isr = "none" /\ ~Enabled(UART_IRQ_NUM) /\ ~Enabled(TIMER_IRQ_NUM)
---------------------------------------------------------------------------
(* install_exception_handler, for the UART and, in timer_init, the timer   *)
InstallUart == /\ MainRuns /\ main = "install_uart" /\ main' = "enable_uart"
               /\ vectors' = install_exception_handler(vectors, UART_IRQ_NUM,
                                                       at.test_uart_irq_handler)
               /\ UNCHANGED <<at, isr, left, MIE, mie, uartvars, timevars>>

InstallTimer == /\ MainRuns /\ main = "install_timer" /\ main' = "arm_timer"
                /\ vectors' = install_exception_handler(vectors, TIMER_IRQ_NUM,
                                                        at.simple_timer_handler)
                /\ UNCHANGED <<at, isr, left, MIE, mie, uartvars, timevars>>

(* enable_interrupts, then set_global_interrupt_enable(1)                  *)
EnableUart == /\ MainRuns /\ main = "enable_uart" /\ main' = "install_timer"
              /\ mie' = mie \cup {UART_IRQ_NUM} /\ MIE' = TRUE
              /\ UNCHANGED <<at, vectors, isr, left, uartvars, timevars>>

(* timer_enable clears the interrupt that was pending before it enables it *)
ArmTimer == /\ MainRuns /\ main = "arm_timer" /\ main' = "enable_timer"
            /\ unshown' = FALSE /\ armed' = TRUE /\ timer_irq' = FALSE
            /\ UNCHANGED <<bootvars, isr, left, MIE, uartvars>>

EnableTimer == /\ MainRuns /\ main = "enable_timer" /\ main' = "last_elapsed_time"
               /\ mie' = mie \cup {TIMER_IRQ_NUM} /\ MIE' = TRUE
               /\ UNCHANGED <<at, vectors, isr, left, uartvars, timevars>>

LastElapsedTime == /\ MainRuns /\ main = "last_elapsed_time" /\ main' = "read"
                   /\ unshown' = FALSE
                   /\ UNCHANGED <<bootvars, isr, left, MIE, uartvars, armed, timer_irq>>
---------------------------------------------------------------------------
(* get_elapsed_time, and the comparison with last_elapsed_time             *)
ReadTime == /\ MainRuns /\ main = "read"
            /\ main' = IF unshown THEN "mask" ELSE "wfi"
            /\ unshown' = FALSE
            /\ UNCHANGED <<bootvars, isr, left, MIE, uartvars, armed, timer_irq>>

MIE_off_Skipped == MIE
MIE_off == FALSE
Mask == /\ MainRuns /\ main = "mask"
        /\ MIE' = MIE_off /\ main' = "print" /\ left' = LineLength + 2   \* and CR LF
        /\ UNCHANGED <<bootvars, isr, uartvars, timevars>>

(* puts, puthex, putchar: one character                                    *)
PutCharacter == /\ MainRuns /\ main = "print" /\ left > 0
                /\ uart_out(IF left = 1 THEN "newline" ELSE "main")
                /\ left' = left - 1
                /\ UNCHANGED <<bootvars, main, isr, MIE, rx, typed, line, timevars>>

MIE_on_Forgotten == MIE
MIE_on == TRUE
Unmask == /\ MainRuns /\ main = "print" /\ left = 0
          /\ MIE' = MIE_on /\ main' = "wfi"     \* after the LEDs and the PWMs
          /\ UNCHANGED <<bootvars, isr, left, uartvars, timevars>>

(* wfi ends when an interrupt is pending.  One that was taken before it    *)
(* is gone: main sleeps until the next.                                    *)
WaitForInterrupt == /\ MainRuns /\ main = "wfi"
                    /\ main' = "sleep"
                    /\ UNCHANGED <<bootvars, isr, left, MIE, uartvars, timevars>>

WakeUp == /\ main = "sleep" /\ isr = "none" /\ (uart_irq \/ timer_irq)
          /\ main' = "read"
          /\ UNCHANGED <<bootvars, isr, left, MIE, uartvars, timevars>>
---------------------------------------------------------------------------
(* The code the vector jumps to: the first step of a handler, or           *)
(* simple_exc_handler, which prints what happened and loops for ever       *)
Reached(irq) == LET address == JumpsTo(vectors, irq)
                IN CASE address = at.test_uart_irq_handler -> "uart_in"
                     [] address = at.simple_timer_handler  -> "timer"
                     [] address = at.default_exc_handler   -> "exception"
                     [] OTHER                              -> "lost"

TakeUartInterrupt == /\ Enabled(UART_IRQ_NUM) /\ main # "sleep"
                     /\ isr' = Reached(UART_IRQ_NUM)
                     /\ UNCHANGED <<bootvars, main, left, MIE, uartvars, timevars>>

TakeTimerInterrupt == /\ Enabled(TIMER_IRQ_NUM) /\ ~Enabled(UART_IRQ_NUM) /\ main # "sleep"
                      /\ isr' = Reached(TIMER_IRQ_NUM)
                      /\ UNCHANGED <<bootvars, main, left, MIE, uartvars, timevars>>

(* test_uart_irq_handler: uart_in returns a byte, or UART_EOF              *)
UartIn == /\ isr = "uart_in"
          /\ rx' = IF rx > 0 THEN rx - 1 ELSE 0
          /\ isr' = IF rx > 0 THEN "echo" ELSE "none"
          /\ UNCHANGED <<bootvars, main, left, MIE, tx, typed, line, timevars>>

Echo == /\ isr \in {"echo", "cr", "lf"}
        /\ uart_out(IF isr = "lf" THEN "newline" ELSE "echo")
        /\ isr' = CASE isr = "echo" -> "cr" [] isr = "cr" -> "lf" [] isr = "lf" -> "uart_in"
        /\ UNCHANGED <<bootvars, main, left, MIE, rx, typed, line, timevars>>

(* simple_timer_handler: re-arms the timer, which drops the interrupt, and *)
(* counts the tick                                                         *)
Rearmed_Not == FALSE
Rearmed == TRUE
TimerHandler == /\ isr = "timer" /\ isr' = "none"
                /\ armed' = Rearmed /\ timer_irq' = FALSE /\ unshown' = TRUE
                /\ UNCHANGED <<bootvars, main, left, MIE, uartvars>>
---------------------------------------------------------------------------
TimerFires == /\ armed /\ armed' = FALSE /\ timer_irq' = TRUE
              /\ UNCHANGED <<bootvars, main, isr, left, MIE, uartvars, unshown>>

(* A full receive FIFO drops the byte                                      *)
RxRoom == rx < RxFifoDepth
Receive == /\ typed < MaxInput /\ typed' = typed + 1
           /\ rx' = IF RxRoom THEN rx + 1 ELSE rx
           /\ UNCHANGED <<bootvars, main, isr, left, MIE, tx, line, timevars>>

Transmit == /\ tx # <<>> /\ tx' = Tail(tx)
            /\ line' = IF Head(tx) = "newline" THEN <<>> ELSE Append(line, Head(tx))
            /\ UNCHANGED <<bootvars, main, isr, left, MIE, rx, typed, timevars>>

Boot == \/ InstallUart \/ EnableUart \/ InstallTimer \/ ArmTimer \/ EnableTimer
        \/ LastElapsedTime
Main == Boot \/ ReadTime \/ Mask \/ PutCharacter \/ Unmask \/ WaitForInterrupt \/ WakeUp
Handlers == TakeUartInterrupt \/ TakeTimerInterrupt \/ UartIn \/ Echo \/ TimerHandler
Next == Main \/ Handlers \/ TimerFires \/ Receive \/ Transmit

(* The processor, the timer and the transmitter run; nobody has to type.   *)
(* main gets on between two ticks, which are 5,000,000 cycles apart.       *)
Spec == /\ Init /\ [][Next]_vars
        /\ SF_vars(Main) /\ WF_vars(Handlers) /\ WF_vars(TimerFires) /\ WF_vars(Transmit)
---------------------------------------------------------------------------
TypeOK == /\ at \in Layouts /\ vectors \in [VectorNums -> SUBSET (0 .. 31)]
          /\ mie \subseteq {UART_IRQ_NUM, TIMER_IRQ_NUM}
          /\ main \in {"install_uart", "enable_uart", "install_timer", "arm_timer",
                       "enable_timer", "last_elapsed_time", "read", "mask", "print", "wfi", "sleep"}
          /\ isr \in {"none", "uart_in", "echo", "cr", "lf", "timer", "exception", "lost"}
          /\ left \in 0 .. LineLength + 2 /\ {MIE, unshown, armed, timer_irq} \subseteq BOOLEAN
          /\ rx \in 0 .. RxFifoDepth /\ Len(tx) <= TxFifoDepth /\ typed \in 0 .. MaxInput
          /\ \A i \in DOMAIN tx : tx[i] \in {"main", "echo", "newline"}

(* An interrupt ends up in its handler, whatever bits the distance of the  *)
(* handler is made of, and none is taken before its handler is installed,  *)
(* nor for what was pending before (demo_system.c:78-104, timer.c:48-55).  *)
HandlersReached ==
  [][isr = "none" /\ isr' # "none" => isr' = IF uart_irq THEN "uart_in" ELSE "timer"]_vars

(* A line on the wire has one author: the output of the receive interrupt  *)
(* never happens in the middle of a line of main ("Disable interrupts      *)
(* whilst outputting to prevent output for RX IRQ happening in the         *)
(* middle", main.c:52-53), and main prints nothing inside an echo.         *)
WholeLines == \A i, j \in DOMAIN line : line[i] = line[j]

(* What is typed is taken out of the FIFO and answered, also while main    *)
(* prints with interrupts off or is about to sleep.                        *)
InputAnswered == uart_irq ~> isr = "echo"

(* A tick counted by the handler is shown, if later than it should: when   *)
(* it falls between the test of the time and wfi, main sleeps and the next *)
(* tick has to wake it (main.c:47, 104).                                   *)
TickShown == unshown ~> main = "print"
=============================================================================
