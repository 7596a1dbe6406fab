------------------------------ MODULE SpiWires ------------------------------
(***************************************************************************)
(* The SPI controller and the device on its wires, which shifts MOSI in    *)
(* with the rising edges of SCK.  The system leaves byte_data_o open and   *)
(* ties MISO low on the Sonata board: what is received is not observed.    *)
(***************************************************************************)
EXTENDS SpiTop

VARIABLES shifted   \* external: bits the device has shifted in for this byte

wirevars == <<spivars, shifted>>

WiresInit == SpiInit /\ shifted = <<>>

SckRises == ~sck_o /\ sck_o'

WiresClock(wvalid, wdata) ==
  /\ SpiClock(wvalid, wdata)
  /\ shifted' = IF tx_fifo_rready THEN <<>>
                ELSE IF SckRises THEN Append(shifted, spi_tx_o')
                ELSE shifted

WiresTypeOK == SpiTypeOK /\ shifted \in Seq(BOOLEAN) /\ Len(shifted) <= Bits

(* A byte leaves the FIFO exactly when the device has shifted in all of    *)
(* its bits, most significant first, and nothing else.                     *)
PoppedWhenSent == tx_fifo_rready => ~tx_fifo_empty /\ shifted = Head(tx_fifo)

(* spi_wait_idle polls only the FIFO flag, and the LCD driver then changes *)
(* D/C and CS: when the FIFO is empty no byte is on the wires any more.    *)
EmptyMeansQuiet == tx_fifo_empty => /\ state_q \in {"IDLE", "STOP"}
                                    /\ ~sck_o
                                    /\ shifted = <<>>
=============================================================================
