--------------------------- MODULE MCBufferedUarte ---------------------------
(* Model-checking instance of the buffered UART driver.                    *)
EXTENDS BufferedUarte, TLC
=============================================================================
