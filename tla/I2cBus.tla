------------------------------- MODULE I2cBus -------------------------------
(***************************************************************************)
(* A register write over I2C: i2c_write_verify and what it calls           *)
(* (i2c_common.c), the interrupt-driven driver I2C_Controller.c, and the   *)
(* bus with its devices.  The main loop is one process with a program      *)
(* counter; the bus moves, and interrupts come, between any two steps.     *)
(*                                                                         *)
(* A call writes one register of a device, selects it and reads it back:   *)
(* every call of the program but dac_set is of this form (length = 2).     *)
(* There is one controller on each bus, so arbitration is never lost.      *)
(***************************************************************************)
EXTENDS Integers, Sequences

CONSTANTS
  Devices,     \* the target addresses
  Flaky,       \* the devices that may leave their address unacknowledged
  Bytes,       \* register numbers and register values
  FifoDepth,   \* entries of the controller's FIFOs
  Stalls       \* may a transfer take longer than the 500 ms of the wait?

ASSUME DevicesAssumption == Devices # {}
ASSUME BytesAssumption == Bytes # {}
ASSUME FlakyAssumption == Flaky \subseteq Devices
ASSUME FifoAssumption == FifoDepth \in Nat \ {0, 1}
ASSUME StallsAssumption == Stalls \in BOOLEAN

VARIABLES
  state,      \* I2C_Controller.state
  error,      \* I2C_Controller.error
  numTx,      \* the transmission: length, bytes handed to the FIFO, the bytes
  tmpNumTx,
  txBuffer,
  tmpNumRx,   \* bytes of the reception taken from the FIFO; numRx is 1
  verify,     \* verify_data[0]
  bus,        \* the transfer on the bus: direction, target, bytes left, progress
  txFifo,     \* the FIFOs of the controller
  rxFifo,
  irq,        \* pending interrupts
  regs,       \* the devices: registers and the selected register
  pointer,
  pc,         \* where the main loop is in i2c_write_verify
  phase,      \* which of its three transactions it is in
  dest,       \* its arguments: device, register (data[0]) and value (data[1])
  reg,
  value,
  result,     \* its last result
  nacked,     \* history: was a transaction of this call left unacknowledged?
  late        \* history: has a wait been given up while its transfer still moved?

driverVars == <<state, error, numTx, tmpNumTx, txBuffer, tmpNumRx, verify>>
busVars    == <<bus, txFifo, rxFifo, irq, regs, pointer>>
callVars   == <<pc, phase, dest, reg, value, result>>
vars       == <<driverVars, busVars, callVars, nacked, late>>

RxLen == 1   \* numRx

Zero == CHOOSE b \in Bytes : TRUE   \* what buffers and registers hold at first

NoTransfer == [dir |-> "idle", to |-> CHOOSE d \in Devices : TRUE, left |-> 0, at |-> "address"]
Transfers  == [dir : {"idle", "tx", "rx"}, to : Devices, left : 0 .. 2,
               at : {"address", "pointer", "data"}]
Interrupts == {"RXFIFO", "TXFIFO", "RX_DONE", "TX_DONE", "NACK"}

TypeOK ==
  /\ state \in {"IDLE", "BUSY"} /\ error \in {"NONE", "NACK"}
  /\ numTx \in 0 .. 2 /\ tmpNumTx \in 0 .. numTx /\ txBuffer \in Seq(Bytes)
  /\ tmpNumRx \in 0 .. RxLen + 1 /\ verify \in Bytes
  /\ bus \in Transfers /\ irq \subseteq Interrupts
  /\ txFifo \in Seq(Bytes) /\ Len(txFifo) <= FifoDepth
  /\ rxFifo \in Seq(Bytes) /\ Len(rxFifo) <= FifoDepth
  /\ regs \in [Devices -> [Bytes -> Bytes]] /\ pointer \in [Devices -> Bytes]
  /\ pc \in {"ready", "prepare", "fill", "spin", "receive", "wait", "compare"}
  /\ phase \in {"write", "select", "read"}
  /\ dest \in Devices /\ reg \in Bytes /\ value \in Bytes
  /\ result \in {1, 0, -4, -5} /\ nacked \in BOOLEAN /\ late \in BOOLEAN

Init ==
  /\ state = "IDLE" /\ error = "NONE"
  /\ numTx = 0 /\ tmpNumTx = 0 /\ txBuffer = <<>> /\ tmpNumRx = 0
  /\ bus = NoTransfer /\ irq = {} /\ txFifo = <<>> /\ rxFifo = <<>>
  /\ verify = Zero /\ reg = Zero /\ value = Zero
  /\ regs = [d \in Devices |-> [r \in Bytes |-> Zero]]
  /\ pointer = [d \in Devices |-> Zero]
  /\ pc = "ready" /\ phase = "write" /\ dest = NoTransfer.to
  /\ result = 0 /\ nacked = FALSE /\ late = FALSE

-----------------------------------------------------------------------------
(* The bus                                                                 *)

\* The addressed device answers ...
Acknowledge ==
  /\ bus.dir # "idle" /\ bus.at = "address"
  /\ bus' = [bus EXCEPT !.at = IF bus.dir = "tx" THEN "pointer" ELSE "data"]
  /\ UNCHANGED <<txFifo, rxFifo, irq, regs, pointer, nacked>>

\* ... or does not: the controller gives the transfer up.  What was to be sent
\* stays in its FIFO.
NotAcknowledge ==
  /\ bus.dir # "idle" /\ bus.at = "address" /\ bus.to \in Flaky
  /\ bus' = NoTransfer
  /\ irq' = irq \union {"NACK"}
  /\ nacked' = TRUE
  /\ UNCHANGED <<txFifo, rxFifo, regs, pointer>>

\* The transfer with one byte less to go.
Shorter == IF bus.left = 1 THEN NoTransfer ELSE [bus EXCEPT !.left = @ - 1, !.at = "data"]

\* A byte goes to the device: the first one selects a register, the next one is
\* written to it.
SendByte ==
  /\ bus.dir = "tx" /\ bus.at # "address" /\ txFifo # <<>>
  /\ bus' = Shorter
  /\ txFifo' = Tail(txFifo)
  /\ irq' = irq \union {i \in {"TXFIFO", "TX_DONE"} :
                          IF i = "TXFIFO" THEN Len(txFifo) = 1 ELSE bus.left = 1}
  /\ IF bus.at = "pointer"
     THEN pointer' = [pointer EXCEPT ![bus.to] = Head(txFifo)] /\ UNCHANGED regs
     ELSE /\ regs' = [regs EXCEPT ![bus.to][pointer[bus.to]] = Head(txFifo)]
          /\ UNCHANGED pointer
  /\ UNCHANGED <<rxFifo, nacked>>

\* A byte comes from the selected register.
ReceiveByte ==
  /\ bus.dir = "rx" /\ bus.at = "data" /\ Len(rxFifo) < FifoDepth
  /\ bus' = Shorter
  /\ rxFifo' = Append(rxFifo, regs[bus.to][pointer[bus.to]])
  /\ irq' = irq \union {i \in {"RXFIFO", "RX_DONE"} : i = "RX_DONE" => bus.left = 1}
  /\ UNCHANGED <<txFifo, regs, pointer, nacked>>

Bus == (Acknowledge \/ NotAcknowledge \/ SendByte \/ ReceiveByte)
       /\ UNCHANGED <<driverVars, callVars, late>>

-----------------------------------------------------------------------------
(* I2C_Controller_IRQ, one action per case                                 *)

\* The bound of the receive loop, tmpNumRx <= numRx, is met by every byte that
\* waits in the FIFO.
RoomForRx == tmpNumRx + Len(rxFifo) <= RxLen + 1

\* The receive loop: every byte in the FIFO goes to the buffer, of which only
\* the first entry is looked at.  Without room the loop never ends.
OnRxFifo ==
  /\ "RXFIFO" \in irq
  /\ irq' = irq \ {"RXFIFO"}
  /\ RoomForRx
  /\ tmpNumRx' = tmpNumRx + Len(rxFifo)
  /\ verify' = IF tmpNumRx = 0 /\ rxFifo # <<>> THEN Head(rxFifo) ELSE verify
  /\ rxFifo' = <<>>
  /\ UNCHANGED <<state, error, numTx, tmpNumTx, txBuffer, bus, txFifo, regs, pointer>>

\* A variant of FillTx that does not look at the room in the FIFO.
FillTxAll(sent) ==
  /\ txFifo' = txFifo \o SubSeq(txBuffer, sent + 1, numTx)
  /\ tmpNumTx' = numTx

\* What of the transmission fits into the FIFO is put there, from entry sent on.
FillTx(sent) ==
  LET room == FifoDepth - Len(txFifo)
      n    == IF numTx - sent < room THEN numTx - sent ELSE room
  IN
  /\ txFifo' = txFifo \o SubSeq(txBuffer, sent + 1, sent + n)
  /\ tmpNumTx' = sent + n

OnTxFifo ==
  /\ "TXFIFO" \in irq
  /\ irq' = irq \ {"TXFIFO"}
  /\ FillTx(tmpNumTx)
  /\ UNCHANGED <<state, error, numTx, txBuffer, tmpNumRx, verify, bus, rxFifo, regs, pointer>>

OnDone ==
  /\ \E i \in {"RX_DONE", "TX_DONE"} : i \in irq /\ irq' = irq \ {i}
  /\ state' = "IDLE"
  /\ UNCHANGED <<error, numTx, tmpNumTx, txBuffer, tmpNumRx, verify,
                 bus, txFifo, rxFifo, regs, pointer>>

\* A variant of OnNack that frees the driver without a word.
NackSilent == UNCHANGED error /\ state' = "IDLE"

\* The call is told of the error and the driver freed.
Nack == error' = "NACK" /\ state' = "IDLE"

OnNack ==
  /\ "NACK" \in irq
  /\ irq' = irq \ {"NACK"}
  /\ Nack
  /\ UNCHANGED <<numTx, tmpNumTx, txBuffer, tmpNumRx, verify,
                 bus, txFifo, rxFifo, regs, pointer>>

Irq == (OnRxFifo \/ OnTxFifo \/ OnDone \/ OnNack) /\ UNCHANGED <<callVars, nacked, late>>

-----------------------------------------------------------------------------
(* i2c_write_verify                                                        *)

\* A pending interrupt preempts the main loop.
At(step) == pc = step /\ irq = {}

\* Nothing moves on the bus until the program does something.
Quiet == bus.dir = "idle" \/ (bus.dir = "tx" /\ bus.at # "address" /\ txFifo = <<>>)

\* A variant of Return that tries again whatever fails.
ReturnRetry(r) ==
  /\ pc' = IF r < 0 THEN "prepare" ELSE "ready"
  /\ result' = r /\ UNCHANGED phase

\* The call ends with r.
Return(r) == pc' = "ready" /\ result' = r /\ UNCHANGED phase

\* A transaction that is refused or fails ends the call.
FailCode == IF phase = "write" THEN -4 ELSE -5

\* A call: the state of the driver is looked at before the write ...
Call ==
  /\ At("ready")
  /\ dest' \in Devices /\ reg' \in Bytes /\ value' \in Bytes
  /\ nacked' = FALSE
  /\ IF state = "IDLE" THEN pc' = "prepare" /\ phase' = "write" /\ UNCHANGED result
                       ELSE Return(-4)
  /\ UNCHANGED <<driverVars, busVars, late>>

\* A variant of Message with the value before the register.
MessageSwapped == IF phase = "write" THEN <<value, reg>> ELSE <<reg>>

\* The bytes of a transmission.
Message == IF phase = "write" THEN <<reg, value>> ELSE <<reg>>

\* Start_Transmit.  Its flush is of the FIFO of the target mode, which this
\* controller does not use.
Prepare ==
  /\ At("prepare")
  /\ txBuffer' = Message
  /\ numTx' = Len(txBuffer') /\ tmpNumTx' = 0
  /\ error' = "NONE" /\ state' = "BUSY"
  /\ pc' = "fill"
  /\ UNCHANGED <<tmpNumRx, verify, busVars, phase, dest, reg, value, result, nacked, late>>

Fill ==
  /\ At("fill")
  /\ FillTx(0)
  /\ pc' = "spin"
  /\ UNCHANGED <<state, error, numTx, txBuffer, tmpNumRx, verify, bus, rxFifo, irq,
                 regs, pointer, phase, dest, reg, value, result, nacked, late>>

\* Starting a transfer while another is on the bus either replaces it or is lost.
StartTransfer(dir, n) ==
  \/ bus' = [dir |-> dir, to |-> dest, left |-> n, at |-> "address"]
  \/ bus.dir # "idle" /\ UNCHANGED bus

\* The transmission waits, without a limit, for the bus.
Spin ==
  /\ At("spin") /\ bus.dir = "idle"
  /\ StartTransfer("tx", numTx)
  /\ pc' = "wait"
  /\ UNCHANGED <<driverVars, txFifo, rxFifo, irq, regs, pointer,
                 phase, dest, reg, value, result, nacked, late>>

\* A variant of RewindRx that leaves the count of the last reception.
RewindRxNot == UNCHANGED tmpNumRx

\* A reception counts its bytes from zero.
RewindRx == tmpNumRx' = 0

\* Start_Receive does not.
Receive ==
  /\ At("receive")
  /\ RewindRx /\ error' = "NONE" /\ state' = "BUSY"
  /\ StartTransfer("rx", RxLen)
  /\ pc' = "wait"
  /\ UNCHANGED <<numTx, tmpNumTx, txBuffer, verify, txFifo, rxFifo, irq, regs, pointer,
                 phase, dest, reg, value, result, nacked, late>>

\* The transaction is done: an error ends the call, otherwise the next one of
\* the three begins.
Done ==
  /\ At("wait") /\ state = "IDLE"
  /\ IF error # "NONE"
     THEN Return(FailCode)
     ELSE /\ CASE phase = "write"  -> phase' = "select" /\ pc' = "prepare"
               [] phase = "select" -> phase' = "read" /\ pc' = "receive"
               [] phase = "read"   -> UNCHANGED phase /\ pc' = "compare"
          /\ UNCHANGED result
  /\ UNCHANGED <<driverVars, busVars, dest, reg, value, nacked, late>>

\* A variant of GiveUp that leaves the driver busy.
GiveUpBusy == UNCHANGED state

\* The wait is over: the driver is freed.
GiveUp == state' = "IDLE"

\* 500 ms have passed: longer than any transfer that moves.
Timeout ==
  /\ At("wait") /\ state = "BUSY" /\ (Quiet \/ Stalls)
  /\ GiveUp
  /\ Return(FailCode)
  /\ late' = (late \/ ~Quiet)
  /\ UNCHANGED <<error, numTx, tmpNumTx, txBuffer, tmpNumRx, verify, busVars,
                 dest, reg, value, nacked>>

Compare ==
  /\ At("compare")
  /\ Return(IF verify = value THEN 1 ELSE 0)
  /\ UNCHANGED <<driverVars, busVars, dest, reg, value, nacked, late>>

Main == Prepare \/ Fill \/ Spin \/ Receive \/ Done \/ Timeout \/ Compare

Next == Call \/ Main \/ Irq \/ Bus

Spec == Init /\ [][Next]_vars

\* The processor runs, and a transfer ends sooner or later.
FairSpec == Spec /\ WF_vars(Main) /\ WF_vars(Irq) /\ WF_vars(Bus)

\* The processor runs; a transfer may hold the bus for ever.
StuckSpec == Spec /\ WF_vars(Main) /\ WF_vars(Irq)

-----------------------------------------------------------------------------
(* Properties                                                              *)

\* A call that returns 1 has left the register with the value: it writes, then
\* reads back and compares (i2c_common.h:42, i2c_common.c:143-159).
VerifyHonest == pc = "ready" /\ result = 1 => regs[dest][reg] = value

\* A device that did not answer is reported, whichever of the three transactions
\* it was and whatever the error field held before, as long as no wait has been
\* given up while its transfer still moved (I2C_Controller.c:134-137,
\* i2c_common.c:45-47, 74, 105, 113).
NackReported == pc = "ready" /\ nacked /\ ~late => result # 1

\* No call leaves the driver busy, so the next one is not refused: neither a
\* timed-out wait nor the interrupt that comes after it (i2c_common.c:40, 69,
\* 101).
NeverRefused == pc = "ready" => state = "IDLE"

\* The receive loop stores no byte beyond what was asked for, although its bound
\* admits one more, and it ends: a late reception never adds its bytes to those
\* of the next one (I2C_Controller.c:111-114).
ReceiveInBounds == "RXFIFO" \in irq => tmpNumRx + Len(rxFifo) <= RxLen

\* Every call returns.
CallReturns == pc # "ready" ~> pc = "ready"

\* On a bus whose devices answer in time, i2c_write_verify is a write of one
\* register that ends with 1.
File == INSTANCE RegisterFile WITH Registers <- Bytes, Values <- Bytes,
                                   calling <- pc # "ready"
ImplementsRegisterFile == File!FileSpec
=============================================================================
