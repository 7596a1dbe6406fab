-------------------------------- MODULE Pwm --------------------------------
(***************************************************************************)
(* pwm.sv with its two registers in pwm_wrapper.sv.  PwmClock(req) is one  *)
(* clock edge with the access req on the bus.                              *)
(***************************************************************************)
EXTENDS Integers

CONSTANTS CtrSize      \* values of a register: 2 ^ PwmCtrSize
ASSUME CtrSizeAssumption == CtrSize \in Nat \ {0}

VARIABLES counter_q, pulse_width_q,    \* pwm_wrapper: the maximum and the width
          counter, modulated_o         \* pwm
pwmvars == <<counter_q, pulse_width_q, counter, modulated_o>>

PwmValue == 0 .. CtrSize - 1

PwmInit == counter_q = 0 /\ pulse_width_q = 0 /\ counter = 0 /\ modulated_o = FALSE

(* Only the low bits of the stored word are kept                           *)
data_d(d) == d % CtrSize
Written(req, reg, old) == IF req.we /\ req.reg = reg THEN data_d(req.wdata) ELSE old

Below == counter < counter_q
High_Inclusive == pulse_width_q >= counter
High == pulse_width_q > counter

PwmClock(req) ==
  /\ counter_q' = Written(req, "counter", counter_q)
  /\ pulse_width_q' = Written(req, "pulse_width", pulse_width_q)
  /\ IF counter_q = 0
     THEN counter' = 0 /\ modulated_o' = FALSE
     ELSE /\ counter' = IF Below THEN counter + 1 ELSE 0
          /\ modulated_o' = High

PwmTypeOK == {counter_q, pulse_width_q, counter} \subseteq PwmValue /\ modulated_o \in BOOLEAN
=============================================================================
