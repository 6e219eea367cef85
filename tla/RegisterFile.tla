---------------------------- MODULE RegisterFile ----------------------------
(***************************************************************************)
(* What the caller of i2c_write_verify counts on: the devices are register *)
(* files, a call writes the one register it names and no other, and it     *)
(* ends with the answer 1 once that register holds the value.              *)
(***************************************************************************)
CONSTANTS Devices, Registers, Values

VARIABLES
  regs,       \* the registers of every device
  calling,    \* is a call under way?
  dest,       \* the device, the register and the value of the call
  reg,
  value,
  result      \* what the last call returned

fileVars == <<regs, calling, dest, reg, value, result>>

FileInit == regs \in [Devices -> [Registers -> Values]] /\ calling = FALSE

Ask ==
  /\ ~calling /\ calling' = TRUE
  /\ dest' \in Devices /\ reg' \in Registers /\ value' \in Values
  /\ UNCHANGED <<regs, result>>

Update ==
  /\ calling
  /\ regs' = [regs EXCEPT ![dest][reg] = value]
  /\ UNCHANGED <<calling, dest, reg, value, result>>

Answer ==
  /\ calling /\ regs[dest][reg] = value
  /\ calling' = FALSE /\ result' = 1
  /\ UNCHANGED <<regs, dest, reg, value>>

FileNext == Ask \/ Update \/ Answer

FileSpec == FileInit /\ [][FileNext]_fileVars /\ WF_fileVars(Answer) /\ WF_fileVars(Update)
=============================================================================
