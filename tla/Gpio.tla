-------------------------------- MODULE Gpio --------------------------------
(***************************************************************************)
(* gpio.sv: an output register, and inputs that reach the bus through a    *)
(* synchroniser, raw or debounced.  A word is the set of its bits that are *)
(* one; of the inputs one, BTN0, is looked at, the others are its copies.  *)
(* GpioClock(req, gp_i) is one clock edge with the access req of the bus   *)
(* and the pin at gp_i; a load is answered one cycle later.                *)
(***************************************************************************)
EXTENDS Debounce, Sequences

CONSTANTS GpoWidth
ASSUME GpoWidthAssumption == GpoWidth \in Nat \ {0}

VARIABLES gp_i_q, gp_o, gp_i_rd_en_q, gp_i_dbnc_rd_en_q
gpiovars == <<debouncevars, gp_i_q, gp_o, gp_i_rd_en_q, gp_i_dbnc_rd_en_q>>

GpoBits == 0 .. GpoWidth - 1
Stages == 3                           \* the synchroniser's flip-flops

NoAccess == [we |-> FALSE, reg |-> "none"]
Load(reg) == [we |-> FALSE, reg |-> reg]
Store(reg, data) == [we |-> TRUE, reg |-> reg, wdata |-> data]

gp_o_wr_en(req) == req.we /\ req.reg = "GPIO_OUT_REG"
gp_i_rd_en_d(req) == ~req.we /\ req.reg = "GPIO_IN_REG"
gp_i_dbnc_rd_en_d(req) == ~req.we /\ req.reg = "GPIO_IN_DBNC_REG"

BTN0(level) == IF level THEN {0} ELSE {}

(* Which word answers was decided when the load was on the bus             *)
device_rdata_o_RawInput == IF gp_i_dbnc_rd_en_q \/ gp_i_rd_en_q THEN BTN0(gp_i_q[Stages])
                           ELSE gp_o
device_rdata_o == IF gp_i_dbnc_rd_en_q THEN BTN0(btn_q)
                  ELSE IF gp_i_rd_en_q THEN BTN0(gp_i_q[Stages])
                  ELSE gp_o

GpioInit == /\ DebounceInit
            /\ gp_i_q = [s \in 1 .. Stages |-> FALSE] /\ gp_o = {}
            /\ gp_i_rd_en_q = FALSE /\ gp_i_dbnc_rd_en_q = FALSE

GpioClock(req, gp_i) ==
  /\ DebounceClock(gp_i_q[Stages])
  /\ gp_i_q' = [s \in 1 .. Stages |-> IF s = 1 THEN gp_i ELSE gp_i_q[s - 1]]
  /\ gp_o' = IF gp_o_wr_en(req) THEN req.wdata \cap GpoBits ELSE gp_o
  /\ gp_i_rd_en_q' = gp_i_rd_en_d(req)
  /\ gp_i_dbnc_rd_en_q' = gp_i_dbnc_rd_en_d(req)

GpioTypeOK == /\ DebounceTypeOK
              /\ gp_i_q \in [1 .. Stages -> BOOLEAN] /\ gp_o \subseteq GpoBits
              /\ gp_i_rd_en_q \in BOOLEAN /\ gp_i_dbnc_rd_en_q \in BOOLEAN
=============================================================================
