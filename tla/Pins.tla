-------------------------------- MODULE Pins --------------------------------
(***************************************************************************)
(* The lights of the hello_world demo: main walks a green LED through the  *)
(* GPIO output register, from the left again while the debounced BTN0 is   *)
(* held, and fades the colours of the RGB LEDs by PWM (main.c:26-43,       *)
(* 67-102).  One step is one clock cycle, in which the program accesses a  *)
(* device or does not; of the PWMs one is looked at, the accesses to the   *)
(* others are cycles without one.                                          *)
(***************************************************************************)
EXTENDS Gpio, Pwm

CONSTANTS FirstLed, LastLed,  \* GPIO_LED_MASK: bits of the output register
          PwmIndex,           \* i of this PWM
          FullBrightness      \* the level at which the fading turns round
ASSUME PinsAssumption == /\ {FirstLed, LastLed} \subseteq GpoBits /\ FirstLed < LastLed
                         /\ PwmIndex \in Nat /\ FullBrightness \in Nat \ {0}

VARIABLES pc, in_val, out_val,            \* main: next access, what it read
          brightness, ascending, color,   \* main: of the fading
          run, level, seen,     \* history: cycles the synchronised pin has been what it is,
                                \* the level it was last at for more than ClkCount of them,
                                \* that level when main read its input
          highs, settled        \* history: cycles the PWM was high in this period, in
                                \* which neither of its registers was written

ledvars == <<pc, in_val, out_val, brightness, ascending, color>>
vars == <<gpiovars, pwmvars, ledvars, run, level, seen, highs, settled>>

LedMask == FirstLed .. LastLed
First == {FirstLed}
---------------------------------------------------------------------------
Init == /\ GpioInit /\ PwmInit
        /\ pc = "reset_leds" /\ in_val = {} /\ out_val = {}
        /\ brightness = 0 /\ ascending = TRUE /\ color = 7
        /\ run = 1 /\ level = FALSE /\ seen = FALSE /\ highs = 0 /\ settled = FALSE

GpioHistory ==
  /\ run' = IF gp_i_q'[Stages] # gp_i_q[Stages] THEN 1
            ELSE IF run > ClkCount THEN run ELSE run + 1
  /\ level' = IF run > ClkCount THEN gp_i_q[Stages] ELSE level

PwmHistory ==
  /\ settled' = (/\ counter_q' = counter_q /\ pulse_width_q' = pulse_width_q
                 /\ counter_q # 0 /\ (settled \/ counter = 0))
  /\ highs' = IF ~settled' THEN 0
              ELSE (IF counter = 0 THEN 0 ELSE highs) + (IF modulated_o' THEN 1 ELSE 0)

(* A clock cycle in which the program makes the access req                 *)
Cycle(req) == /\ \E gp_i \in BOOLEAN : GpioClock(req, gp_i)
              /\ PwmClock(req) /\ GpioHistory /\ PwmHistory
---------------------------------------------------------------------------
fading == <<brightness, ascending, color>>

(* set_outputs(GPIO_OUT, 0x10), before the loop                            *)
ResetLeds == /\ pc = "reset_leds" /\ pc' = "tick"
             /\ Cycle(Store("GPIO_OUT_REG", First))
             /\ UNCHANGED <<in_val, out_val, fading, seen>>

(* read_gpio(GPIO_IN_DBNC), once a tick; the answer comes a cycle later    *)
ReadInput == /\ pc = "tick" /\ pc' = "in_val"
             /\ Cycle(Load("GPIO_IN_DBNC_REG"))
             /\ UNCHANGED <<in_val, out_val, fading, seen>>

InputRead == /\ pc = "in_val" /\ pc' = "leds"
             /\ in_val' = device_rdata_o /\ seen' = level
             /\ Cycle(NoAccess)
             /\ UNCHANGED <<out_val, fading>>

(* read_gpio(GPIO_OUT)                                                     *)
ReadLeds == /\ pc = "leds" /\ pc' = "out_val"
            /\ Cycle(Load("GPIO_OUT_REG"))
            /\ UNCHANGED <<in_val, out_val, fading, seen>>

Shifted(bits) == {b + 1 : b \in bits} \cap LedMask
NextLeds(bits, restart) == IF restart \/ Shifted(bits) = {} THEN First ELSE Shifted(bits)

LedsRead == /\ pc = "out_val" /\ pc' = "set_leds"
            /\ out_val' = NextLeds(device_rdata_o, 0 \in in_val)
            /\ Cycle(NoAccess)
            /\ UNCHANGED <<in_val, fading, seen>>

SetLeds == /\ pc = "set_leds" /\ pc' = "set_counter"
           /\ Cycle(Store("GPIO_OUT_REG", out_val))
           /\ UNCHANGED <<in_val, out_val, fading, seen>>

(* set_pwm(pwm, counter, pulse_width): the counter first                   *)
Lit == (color \div 2 ^ (PwmIndex % 3)) % 2 = 1
SetCounter == /\ pc = "set_counter" /\ pc' = "set_width"
              /\ Cycle(Store("counter", IF Lit THEN CtrSize - 1 ELSE 0))
              /\ UNCHANGED <<in_val, out_val, fading, seen>>

Width == IF brightness = 0 THEN 0 ELSE 2 ^ (brightness - 1)
Fade == IF ascending
        THEN /\ brightness' = brightness + 1
             /\ ascending' = (brightness + 1 < FullBrightness)
             /\ UNCHANGED color
        ELSE /\ brightness' = brightness - 1
             /\ ascending' = (brightness = 1)
             /\ color' = IF brightness # 1 THEN color
                         ELSE IF color = 7 THEN 1 ELSE color + 1

SetWidth == /\ pc = "set_width" /\ pc' = "tick"
            /\ Cycle(Store("pulse_width", Width)) /\ Fade
            /\ UNCHANGED <<in_val, out_val, seen>>

(* A cycle without an access, except while a load waits for its answer     *)
NoStep == /\ pc \notin {"in_val", "out_val"}
          /\ Cycle(NoAccess)
          /\ UNCHANGED <<ledvars, seen>>

Next == \/ ResetLeds \/ ReadInput \/ InputRead \/ ReadLeds \/ LedsRead \/ SetLeds
        \/ SetCounter \/ SetWidth \/ NoStep

Spec == Init /\ [][Next]_vars
---------------------------------------------------------------------------
TypeOK == /\ GpioTypeOK /\ PwmTypeOK
          /\ in_val \subseteq {0} /\ out_val \subseteq GpoBits
          /\ brightness \in 0 .. FullBrightness /\ ascending \in BOOLEAN /\ color \in 1 .. 7
          /\ run \in 1 .. ClkCount + 1 /\ {level, seen, settled} \subseteq BOOLEAN
          /\ highs \in 0 .. CtrSize

(* The LEDs move one place at a tick, and start anew at the first one      *)
(* after the last, or at a tick that found the button held: a bounce of up *)
(* to ClkCount cycles never does it, whenever main reads, and what main    *)
(* read back is what it wrote a tick ago (main.c:72-78, gpio.sv:93-100).  *)
LedsFollowButton == [][gp_o' # gp_o => gp_o' = NextLeds(gp_o, seen)]_vars

(* In a period in which no register was written the output is high for     *)
(* pulse_width cycles, from the first on; for all of it if the width is    *)
(* larger than the maximum (pwm.sv:13).                                    *)
DutyCycle == settled =>
  LET due == IF counter = 0 THEN counter_q + 1 ELSE counter
  IN highs = IF pulse_width_q < due THEN pulse_width_q ELSE due
=============================================================================
