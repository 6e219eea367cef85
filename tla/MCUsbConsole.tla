---------------------------- MODULE MCUsbConsole ----------------------------
(* Small instances of UsbConsole.  The state space is finite as it stands:  *)
(* every queue of the code has a limit, given here by RxDepth, TxLoads and  *)
(* MaxCmdLen.                                                               *)
EXTENDS UsbConsole
=============================================================================
