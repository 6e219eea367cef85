---------------------------- MODULE MCUsbSession ----------------------------
(* Small instances of UsbSession: two characters, so that a changed or      *)
(* repeated one shows, and as many lines as MaxLines.                       *)
EXTENDS UsbSession
=============================================================================
