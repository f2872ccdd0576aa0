--------------------------- MODULE MCUsbDispatch ----------------------------
(* Finite instances of UsbDispatch for TLC. *)
EXTENDS UsbDispatch

\* Success, NAK, bus timeout, and a toggle error for all other codes.
MCResults == {hrSUCCESS, hrNAK, hrTIMEOUT, 6}
=============================================================================
