------------------------------ MODULE MCLcdSpi ------------------------------
(* LcdSpi with three-bit bytes and a FIFO shorter than the longest transfer. *)
EXTENDS LcdSpi

MCCommand == <<FALSE, TRUE, TRUE>>
MCPixel == <<TRUE, FALSE, TRUE>>
=============================================================================
