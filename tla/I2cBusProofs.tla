---------------------------- MODULE I2cBusProofs ----------------------------
(***************************************************************************)
(* What holds of a register write over I2C for any devices, bytes and      *)
(* FIFO depth, on a bus that may stall and with devices that may not       *)
(* answer; and, when they all answer in time, that a write is a write of a *)
(* register file.                                                          *)
(***************************************************************************)
EXTENDS I2cBus, TLAPS

\* The driver is busy only while the call prepares or awaits a transaction.
BusyInv == state = "BUSY" => pc \in {"fill", "spin", "wait"}

\* What is under way on the bus has bytes left; the length is that of the buffer.
LeftInv ==
  /\ bus.dir # "idle" => bus.left >= 1
  /\ numTx = Len(txBuffer)
  /\ pc \in {"fill", "spin"} => numTx >= 1

TypeInv == TypeOK /\ BusyInv /\ LeftInv

\* A shortened or new transfer is a transfer.
LEMMA ShorterType ==
  ASSUME TypeInv, bus.dir # "idle"
  PROVE  Shorter \in Transfers /\ (Shorter.dir # "idle" => Shorter.left >= 1)
<1>1. bus \in Transfers /\ bus.left >= 1
  BY DEF TypeInv, TypeOK, LeftInv
<1>2. NoTransfer \in Transfers /\ NoTransfer.dir = "idle"
  BY DevicesAssumption DEF NoTransfer, Transfers
<1>3. CASE bus.left = 1
  BY <1>2, <1>3 DEF Shorter
<1>4. CASE bus.left # 1
  <2>1. bus.left - 1 \in 0 .. 2 /\ bus.left - 1 >= 1
    BY <1>1, <1>4 DEF Transfers
  <2>2. Shorter \in Transfers /\ Shorter.left = bus.left - 1
    BY <1>1, <1>4, <2>1 DEF Shorter, Transfers
  <2>. QED BY <2>1, <2>2
<1>. QED BY <1>3, <1>4

LEMMA InitType == Init => TypeInv
<1> SUFFICES ASSUME Init PROVE TypeInv
  OBVIOUS
<1>1. NoTransfer \in Transfers /\ NoTransfer.dir = "idle" /\ NoTransfer.to \in Devices
  BY DevicesAssumption DEF NoTransfer, Transfers
<1>2. Zero \in Bytes
  BY BytesAssumption DEF Zero
<1>3. <<>> \in Seq(Bytes) /\ Len(<<>>) = 0
  OBVIOUS
<1>4. nacked \in BOOLEAN /\ late \in BOOLEAN
  BY DEF Init
<1>5. regs \in [Devices -> [Bytes -> Bytes]] /\ pointer \in [Devices -> Bytes]
  BY <1>2 DEF Init
<1>6. BusyInv /\ LeftInv
  BY <1>1, <1>3 DEF Init, BusyInv, LeftInv
<1>. QED BY <1>1, <1>2, <1>3, <1>4, <1>5, <1>6, FifoAssumption DEF Init, TypeInv, TypeOK, RxLen, Interrupts

LEMMA BusType == TypeInv /\ Bus => TypeInv'
<1> SUFFICES ASSUME TypeInv, Bus PROVE TypeInv'
  OBVIOUS
<1>1. UNCHANGED <<driverVars, callVars, late>>
  BY DEF Bus
<1>2. NoTransfer \in Transfers /\ NoTransfer.dir = "idle"
  BY DevicesAssumption DEF NoTransfer, Transfers
<1>3. CASE Acknowledge
  <2>1. bus' \in Transfers /\ bus'.left = bus.left /\ bus.dir # "idle"
    BY <1>3 DEF Acknowledge, TypeInv, TypeOK, Transfers
  <2>. QED BY <1>1, <1>3, <2>1 DEF Acknowledge, TypeInv, TypeOK, BusyInv, LeftInv, driverVars, callVars
<1>4. CASE NotAcknowledge
  BY <1>1, <1>2, <1>4 DEF NotAcknowledge, TypeInv, TypeOK, BusyInv, LeftInv, driverVars, callVars, Interrupts
<1>5. CASE SendByte
  <2>1. bus.dir # "idle" /\ bus' = Shorter
    BY <1>5 DEF SendByte
  <2>2. bus' \in Transfers /\ (bus'.dir # "idle" => bus'.left >= 1)
    BY <2>1, ShorterType
  <2>3. txFifo' \in Seq(Bytes) /\ Len(txFifo') <= FifoDepth /\ Head(txFifo) \in Bytes
    BY <1>5, FifoAssumption DEF SendByte, TypeInv, TypeOK
  <2>4. irq' \subseteq Interrupts
    BY <1>5 DEF SendByte, TypeInv, TypeOK, Interrupts
  <2>5. regs' \in [Devices -> [Bytes -> Bytes]] /\ pointer' \in [Devices -> Bytes]
    <3>1. /\ regs \in [Devices -> [Bytes -> Bytes]] /\ pointer \in [Devices -> Bytes]
          /\ bus.to \in Devices /\ Head(txFifo) \in Bytes
      BY <2>3 DEF TypeInv, TypeOK, Transfers
    <3>2. CASE bus.at = "pointer"
      BY <1>5, <3>1, <3>2 DEF SendByte
    <3>3. CASE bus.at # "pointer"
      <4>1. /\ regs' = [regs EXCEPT ![bus.to][pointer[bus.to]] = Head(txFifo)]
            /\ pointer' = pointer
        BY <1>5, <3>3 DEF SendByte
      <4>. QED BY <3>1, <4>1
    <3>. QED BY <3>2, <3>3
  <2>. QED BY <1>1, <1>5, <2>2, <2>3, <2>4, <2>5 DEF SendByte, TypeInv, TypeOK, BusyInv, LeftInv, driverVars, callVars
<1>6. CASE ReceiveByte
  <2>1. bus.dir # "idle" /\ bus' = Shorter
    BY <1>6 DEF ReceiveByte
  <2>2. bus' \in Transfers /\ (bus'.dir # "idle" => bus'.left >= 1)
    BY <2>1, ShorterType
  <2>3. regs[bus.to][pointer[bus.to]] \in Bytes
    BY DEF TypeInv, TypeOK, Transfers
  <2>4. rxFifo' \in Seq(Bytes) /\ Len(rxFifo') <= FifoDepth
    BY <1>6, <2>3, FifoAssumption DEF ReceiveByte, TypeInv, TypeOK
  <2>5. irq' \subseteq Interrupts
    BY <1>6 DEF ReceiveByte, TypeInv, TypeOK, Interrupts
  <2>. QED BY <1>1, <1>6, <2>2, <2>4, <2>5 DEF ReceiveByte, TypeInv, TypeOK, BusyInv, LeftInv, driverVars, callVars
<1>. QED BY <1>3, <1>4, <1>5, <1>6 DEF Bus

LEMMA ConcatType ==
  ASSUME NEW S, NEW a \in Seq(S), NEW b \in Seq(S)
  PROVE  a \o b \in Seq(S) /\ Len(a \o b) = Len(a) + Len(b)
  OBVIOUS

\* FillTx hands over bytes of the buffer, within the room of the FIFO, and at
\* least one if there is one to hand over and the FIFO is empty.
LEMMA FillTxType ==
  ASSUME TypeInv, NEW sent \in 0 .. numTx, FillTx(sent)
  PROVE  /\ txFifo' \in Seq(Bytes) /\ Len(txFifo') <= FifoDepth
         /\ tmpNumTx' \in sent .. numTx
         /\ Len(txFifo') = Len(txFifo) + tmpNumTx' - sent
         /\ Len(txFifo) = 0 /\ sent < numTx => Len(txFifo') >= 1
<1> DEFINE room == FifoDepth - Len(txFifo)
           n == IF numTx - sent < room THEN numTx - sent ELSE room
           added == SubSeq(txBuffer, sent + 1, sent + n)
<1>1. /\ numTx \in 0 .. 2 /\ numTx = Len(txBuffer) /\ txBuffer \in Seq(Bytes)
      /\ txFifo \in Seq(Bytes) /\ Len(txFifo) \in Nat /\ Len(txFifo) <= FifoDepth
  BY DEF TypeInv, TypeOK, LeftInv
<1>2. n \in Nat /\ sent + n <= Len(txBuffer) /\ Len(txFifo) + n <= FifoDepth
      /\ (Len(txFifo) = 0 /\ sent < numTx => n >= 1)
  BY <1>1, FifoAssumption
<1>3. added \in Seq(Bytes) /\ Len(added) = n
  BY <1>1, <1>2
<1>4. txFifo' = txFifo \o added /\ tmpNumTx' = sent + n
  BY DEF FillTx
<1>5. txFifo' \in Seq(Bytes) /\ Len(txFifo') = Len(txFifo) + n
  BY <1>1, <1>3, <1>4, ConcatType
<1>6. sent \in Nat
  BY <1>1
<1>. HIDE DEF added, n
<1>. QED BY <1>1, <1>2, <1>4, <1>5, <1>6, FifoAssumption

LEMMA IrqType == TypeInv /\ Irq => TypeInv'
<1> SUFFICES ASSUME TypeInv, Irq PROVE TypeInv'
  OBVIOUS
<1>1. UNCHANGED <<callVars, nacked, late>>
  BY DEF Irq
<1>2. CASE OnRxFifo
  <2>1. tmpNumRx' \in 0 .. RxLen + 1 /\ verify' \in Bytes /\ rxFifo' \in Seq(Bytes) /\ Len(rxFifo') <= FifoDepth
    BY <1>2, FifoAssumption DEF OnRxFifo, RoomForRx, TypeInv, TypeOK, RxLen
  <2>. QED BY <1>1, <1>2, <2>1 DEF OnRxFifo, TypeInv, TypeOK, BusyInv, LeftInv, callVars
<1>3. CASE OnTxFifo
  <2>1. tmpNumTx \in 0 .. numTx /\ numTx \in 0 .. 2 /\ FillTx(tmpNumTx)
    BY <1>3 DEF OnTxFifo, TypeInv, TypeOK
  <2>2. txFifo' \in Seq(Bytes) /\ Len(txFifo') <= FifoDepth /\ tmpNumTx' \in 0 .. numTx
    BY <2>1, FillTxType
  <2>. QED BY <1>1, <1>3, <2>2 DEF OnTxFifo, TypeInv, TypeOK, BusyInv, LeftInv, callVars
<1>4. CASE OnDone
  BY <1>1, <1>4 DEF OnDone, TypeInv, TypeOK, BusyInv, LeftInv, callVars
<1>5. CASE OnNack
  BY <1>1, <1>5 DEF OnNack, Nack, TypeInv, TypeOK, BusyInv, LeftInv, callVars
<1>. QED BY <1>2, <1>3, <1>4, <1>5 DEF Irq
LEMMA CallType == TypeInv /\ Call => TypeInv'
<1> SUFFICES ASSUME TypeInv, Call PROVE TypeInv'
  OBVIOUS
<1>. QED BY DEF Call, At, Return, TypeInv, TypeOK, BusyInv, LeftInv, driverVars, busVars

LEMMA MainType == TypeInv /\ Main => TypeInv'
<1> SUFFICES ASSUME TypeInv, Main PROVE TypeInv'
  OBVIOUS
<1>1. CASE Prepare
  <2>1. txBuffer' \in Seq(Bytes) /\ Len(txBuffer') \in 1 .. 2
    BY <1>1 DEF Prepare, Message, TypeInv, TypeOK
  <2>. QED BY <1>1, <2>1 DEF Prepare, At, TypeInv, TypeOK, BusyInv, LeftInv, busVars
<1>2. CASE Fill
  <2>1. txFifo' \in Seq(Bytes) /\ Len(txFifo') <= FifoDepth /\ tmpNumTx' \in 0 .. numTx
    BY <1>2, FillTxType DEF Fill, TypeInv, TypeOK
  <2>. QED BY <1>2, <2>1 DEF Fill, At, TypeInv, TypeOK, BusyInv, LeftInv
<1>3. CASE Spin
  <2>1. bus' \in Transfers /\ (bus'.dir # "idle" => bus'.left >= 1)
    BY <1>3 DEF Spin, At, StartTransfer, TypeInv, TypeOK, LeftInv, Transfers
  <2>. QED BY <1>3, <2>1 DEF Spin, At, TypeInv, TypeOK, BusyInv, LeftInv, driverVars
<1>4. CASE Receive
  <2>1. bus' \in Transfers /\ (bus'.dir # "idle" => bus'.left >= 1)
    BY <1>4 DEF Receive, At, StartTransfer, TypeInv, TypeOK, LeftInv, Transfers, RxLen
  <2>. QED BY <1>4, <2>1 DEF Receive, RewindRx, At, TypeInv, TypeOK, BusyInv, LeftInv, RxLen
<1>5. CASE Done
  BY <1>5 DEF Done, At, Return, FailCode, TypeInv, TypeOK, BusyInv, LeftInv, driverVars, busVars
<1>6. CASE Timeout
  BY <1>6 DEF Timeout, GiveUp, At, Return, FailCode, TypeInv, TypeOK, BusyInv, LeftInv, busVars
<1>7. CASE Compare
  BY <1>7 DEF Compare, At, Return, TypeInv, TypeOK, BusyInv, LeftInv, driverVars, busVars
<1>. QED BY <1>1, <1>2, <1>3, <1>4, <1>5, <1>6, <1>7 DEF Main

LEMMA TypeInvariance == Spec => []TypeInv
<1>1. TypeInv /\ UNCHANGED vars => TypeInv'
  BY DEF TypeInv, TypeOK, BusyInv, LeftInv, vars, driverVars, busVars, callVars
<1>2. TypeInv /\ [Next]_vars => TypeInv'
  BY <1>1, BusType, IrqType, CallType, MainType DEF Next
<1>. QED BY InitType, <1>2, PTL DEF Spec

\* Every reachable state is well typed; in particular the driver never hands more
\* to the FIFO than it holds, nor more than there is to send.
THEOREM TypeCorrect == Spec => []TypeOK
<1>1. TypeInv => TypeOK
  BY DEF TypeInv
<1>. QED BY <1>1, TypeInvariance, PTL

\* No call finds the driver busy, not even after a timeout on a bus that stalls.
THEOREM NeverRefusedAlways == Spec => []NeverRefused
<1>1. TypeInv => NeverRefused
  BY DEF TypeInv, TypeOK, BusyInv, NeverRefused
<1>. QED BY <1>1, TypeInvariance, PTL

-----------------------------------------------------------------------------
(* Until a wait is given up while its transfer still moves                 *)

\* A transfer is on the bus, or an interrupt pending, only while the call waits
\* for it, and the driver is busy as long as the transfer is under way.
WaitInv ==
  /\ bus.dir # "idle" => pc = "wait" /\ state = "BUSY" /\ ~nacked
  /\ irq # {} => pc = "wait"
  /\ "RX_DONE" \in irq \/ "TX_DONE" \in irq => bus.dir = "idle" /\ ~nacked
  /\ "NACK" \in irq => bus.dir = "idle"
  /\ pc \in {"fill", "spin"} => state = "BUSY"

\* A transmission never starves: what the FIFO lacks is still to be handed over,
\* and an empty FIFO has raised its interrupt.
FedInv ==
  /\ pc = "spin" => tmpNumTx <= Len(txFifo) /\ Len(txFifo) >= 1
  /\ bus.dir = "tx" => bus.left <= Len(txFifo) + numTx - tmpNumTx
  /\ bus.dir = "tx" /\ Len(txFifo) = 0 => "TXFIFO" \in irq

\* The news of a missing answer is on its way, or with the driver, or out.
NewsInv ==
  nacked => \/ pc = "wait" /\ "NACK" \in irq
            \/ pc = "wait" /\ error = "NACK" /\ state = "IDLE"
            \/ pc = "ready" /\ result # 1

NackInv == WaitInv /\ FedInv /\ NewsInv

LEMMA InitNack == Init => TypeInv /\ NackInv
<1> SUFFICES ASSUME Init PROVE TypeInv /\ NackInv
  OBVIOUS
<1>1. NoTransfer.dir = "idle"
  BY DEF NoTransfer
<1>. QED BY <1>1, InitType DEF Init, NackInv, WaitInv, FedInv, NewsInv

\* Shorter either ends the transfer or keeps all of it but the count.
LEMMA ShorterFields ==
  ASSUME TypeInv, bus.dir # "idle"
  PROVE  /\ bus.left = 1 => Shorter.dir = "idle"
         /\ bus.left # 1 => Shorter.dir = bus.dir /\ Shorter.left = bus.left - 1
<1>1. bus \in Transfers
  BY DEF TypeInv, TypeOK
<1>. QED BY <1>1 DEF Shorter, NoTransfer, Transfers

LEMMA BusNack == TypeInv /\ NackInv /\ Bus => NackInv'
<1> SUFFICES ASSUME TypeInv, NackInv, Bus PROVE NackInv'
  OBVIOUS
<1>1. TypeInv /\ TypeInv'
  BY BusType
<1>2. UNCHANGED <<driverVars, callVars, late>>
  BY DEF Bus
<1>3. NoTransfer.dir = "idle"
  BY DEF NoTransfer
<1>4. CASE Acknowledge
  <2>1. bus'.dir = bus.dir /\ bus'.left = bus.left
    BY <1>1, <1>4 DEF Acknowledge, TypeInv, TypeOK, Transfers
  <2>. QED BY <1>1, <1>2, <1>4, <2>1 DEF Acknowledge, NackInv, WaitInv, FedInv, NewsInv, driverVars, callVars
<1>5. CASE NotAcknowledge
  BY <1>1, <1>2, <1>3, <1>5 DEF NotAcknowledge, NackInv, WaitInv, FedInv, NewsInv, driverVars, callVars
<1>6. CASE SendByte
  <2>1. /\ bus.dir = "tx" /\ bus' = Shorter /\ UNCHANGED nacked
        /\ (bus.left = 1 => bus'.dir = "idle")
        /\ (bus.left # 1 => bus'.dir = "tx" /\ bus'.left = bus.left - 1)
    BY <1>1, <1>6, ShorterFields DEF SendByte
  <2>2. Len(txFifo') = Len(txFifo) - 1 /\ Len(txFifo) \in Nat
    BY <1>1, <1>6 DEF SendByte, TypeInv, TypeOK
  <2>3. /\ "TX_DONE" \in irq' <=> "TX_DONE" \in irq \/ bus.left = 1
        /\ "RX_DONE" \in irq' <=> "RX_DONE" \in irq
        /\ "TXFIFO" \in irq' <=> "TXFIFO" \in irq \/ Len(txFifo) = 1
        /\ "NACK" \in irq' <=> "NACK" \in irq
    BY <1>6 DEF SendByte
  <2>4. WaitInv'
    BY <1>2, <2>1, <2>3 DEF NackInv, WaitInv, driverVars, callVars
  <2>5. FedInv'
    BY <1>1, <1>2, <2>1, <2>2, <2>3 DEF NackInv, WaitInv, FedInv, TypeInv, TypeOK, Transfers, driverVars, callVars
  <2>6. NewsInv'
    BY <1>2, <2>1, <2>3 DEF NackInv, NewsInv, driverVars, callVars
  <2>. QED BY <1>1, <2>4, <2>5, <2>6 DEF NackInv
<1>7. CASE ReceiveByte
  <2>1. /\ bus.dir = "rx" /\ bus' = Shorter /\ UNCHANGED <<nacked, txFifo>>
        /\ (bus.left = 1 => bus'.dir = "idle")
        /\ (bus.left # 1 => bus'.dir = "rx")
    BY <1>1, <1>7, ShorterFields DEF ReceiveByte
  <2>2. /\ "RX_DONE" \in irq' <=> "RX_DONE" \in irq \/ bus.left = 1
        /\ "TX_DONE" \in irq' <=> "TX_DONE" \in irq
        /\ "NACK" \in irq' <=> "NACK" \in irq
    BY <1>7 DEF ReceiveByte
  <2>3. WaitInv'
    BY <1>2, <2>1, <2>2 DEF NackInv, WaitInv, driverVars, callVars
  <2>4. FedInv'
    BY <1>2, <2>1 DEF NackInv, WaitInv, FedInv, driverVars, callVars
  <2>5. NewsInv'
    BY <1>2, <2>1, <2>2 DEF NackInv, NewsInv, driverVars, callVars
  <2>. QED BY <1>1, <2>3, <2>4, <2>5 DEF NackInv
<1>. QED BY <1>4, <1>5, <1>6, <1>7 DEF Bus

LEMMA IrqNack == TypeInv /\ NackInv /\ Irq => NackInv'
<1> SUFFICES ASSUME TypeInv, NackInv, Irq PROVE NackInv'
  OBVIOUS
<1>1. TypeInv /\ TypeInv'
  BY IrqType
<1>2. UNCHANGED <<callVars, nacked, late>>
  BY DEF Irq
<1>3. pc = "wait"
  BY DEF Irq, OnRxFifo, OnTxFifo, OnDone, OnNack, NackInv, WaitInv
<1>4. CASE OnRxFifo
  BY <1>1, <1>2, <1>3, <1>4 DEF OnRxFifo, NackInv, WaitInv, FedInv, NewsInv, callVars
<1>5. CASE OnTxFifo
  <2>1. /\ Len(txFifo') = Len(txFifo) + tmpNumTx' - tmpNumTx
        /\ Len(txFifo) = 0 /\ tmpNumTx < numTx => Len(txFifo') >= 1
        /\ tmpNumTx \in 0 .. numTx /\ numTx \in 0 .. 2 /\ tmpNumTx' \in tmpNumTx .. numTx
    BY <1>1, <1>5, FillTxType DEF OnTxFifo, TypeInv, TypeOK
  <2>2. UNCHANGED <<bus, numTx, state, error>> /\ irq' = irq \ {"TXFIFO"}
    BY <1>5 DEF OnTxFifo
  <2>3. FedInv'
    <3>1. Len(txFifo) \in Nat /\ (bus.dir = "tx" => bus.left \in Nat /\ bus.left >= 1)
      BY <1>1 DEF TypeInv, TypeOK, LeftInv, Transfers
    <3>2. pc' # "spin"
      BY <1>2, <1>3 DEF callVars
    <3>3. bus.dir = "tx" => bus.left <= Len(txFifo) + numTx - tmpNumTx
      BY DEF NackInv, FedInv
    <3>4. bus.dir = "tx" => bus.left <= Len(txFifo') + numTx - tmpNumTx'
      BY <2>1, <3>1, <3>3
    <3>5. ASSUME bus.dir = "tx" PROVE Len(txFifo') # 0
      <4>1. bus.left >= 1 /\ bus.left \in Nat /\ bus.left <= Len(txFifo) + numTx - tmpNumTx
        BY <3>1, <3>3, <3>5
      <4>2. numTx \in Nat /\ tmpNumTx \in Nat /\ tmpNumTx' \in Nat /\ tmpNumTx' >= tmpNumTx
        BY <2>1
      <4>3. CASE Len(txFifo) = 0
        <5>1. tmpNumTx < numTx
          BY <4>1, <4>2, <4>3
        <5>2. Len(txFifo') >= 1
          BY <2>1, <4>3, <5>1
        <5>3. Len(txFifo') \in Nat
          BY <1>1 DEF TypeInv, TypeOK
        <5>. QED BY <5>2, <5>3
      <4>4. CASE Len(txFifo) # 0
        BY <2>1, <3>1, <4>2, <4>4
      <4>. QED BY <4>3, <4>4
    <3>. QED BY <2>2, <3>2, <3>4, <3>5 DEF FedInv
  <2>. QED BY <1>1, <1>2, <2>2, <2>3 DEF NackInv, WaitInv, NewsInv, callVars
<1>6. CASE OnDone
  BY <1>1, <1>2, <1>3, <1>6 DEF OnDone, NackInv, WaitInv, FedInv, NewsInv, callVars
<1>7. CASE OnNack
  <2>1. bus.dir = "idle" /\ UNCHANGED <<bus, txFifo, numTx, tmpNumTx>>
    BY <1>7 DEF OnNack, NackInv, WaitInv
  <2>2. irq' = irq \ {"NACK"} /\ error' = "NACK" /\ state' = "IDLE"
    BY <1>7 DEF OnNack, Nack
  <2>. QED BY <1>1, <1>2, <1>3, <2>1, <2>2 DEF NackInv, WaitInv, FedInv, NewsInv, callVars
<1>. QED BY <1>4, <1>5, <1>6, <1>7 DEF Irq

LEMMA CallNack == TypeInv /\ NackInv /\ Call => NackInv'
<1> SUFFICES ASSUME TypeInv, NackInv, Call PROVE NackInv'
  OBVIOUS
<1>1. TypeInv'
  BY CallType
<1>. QED BY <1>1 DEF Call, At, Return, NackInv, WaitInv, FedInv, NewsInv, driverVars, busVars

LEMMA MainNack == TypeInv /\ NackInv /\ Main /\ ~late' => NackInv'
<1> SUFFICES ASSUME TypeInv, NackInv, Main, ~late' PROVE NackInv'
  OBVIOUS
<1>1. TypeInv /\ TypeInv'
  BY MainType
<1>2. CASE Prepare
  BY <1>1, <1>2 DEF Prepare, At, NackInv, WaitInv, FedInv, NewsInv, busVars
<1>3. CASE Fill
  <2>1. FillTx(0) /\ pc = "fill"
    BY <1>3 DEF Fill, At
  <2>2. numTx \in 1 .. 2 /\ Len(txFifo) \in Nat
    BY <1>1, <2>1 DEF TypeInv, TypeOK, LeftInv
  <2>3. /\ tmpNumTx' \in 0 .. numTx
        /\ Len(txFifo') = Len(txFifo) + tmpNumTx' - 0
        /\ Len(txFifo) = 0 /\ 0 < numTx => Len(txFifo') >= 1
    <3>1. 0 \in 0 .. numTx
      BY <2>2
    <3>. QED BY <1>1, <2>1, <3>1, FillTxType
  <2>4. Len(txFifo') = Len(txFifo) + tmpNumTx' /\ tmpNumTx' \in Nat
    <3>1. tmpNumTx' \in Nat
      BY <2>2, <2>3
    <3>. QED BY <2>2, <2>3, <3>1
  <2>5. Len(txFifo) = 0 => Len(txFifo') >= 1
    <3>1. 0 < numTx
      BY <2>2
    <3>. QED BY <2>3, <3>1
  <2>. QED BY <1>1, <1>3, <2>2, <2>4, <2>5 DEF Fill, At, NackInv, WaitInv, FedInv, NewsInv
<1>4. CASE Spin
  <2>1. /\ bus'.dir = "tx" /\ bus'.left = numTx /\ irq = {} /\ irq' = {} /\ pc = "spin" /\ pc' = "wait"
        /\ UNCHANGED <<state, error, nacked, numTx, tmpNumTx, txFifo>>
    BY <1>4 DEF Spin, At, StartTransfer, driverVars
  <2>2. ~nacked /\ state = "BUSY"
    BY <2>1 DEF NackInv, NewsInv, WaitInv
  <2>3. numTx \in 0 .. 2 /\ tmpNumTx \in 0 .. 2 /\ Len(txFifo) \in Nat
    BY <1>1 DEF TypeInv, TypeOK
  <2>. QED BY <1>1, <2>1, <2>2, <2>3 DEF NackInv, WaitInv, FedInv, NewsInv
<1>5. CASE Receive
  <2>1. bus.dir = "idle" /\ pc = "receive" /\ irq = {} /\ irq' = {} /\ pc' = "wait" /\ ~nacked
    BY <1>5 DEF Receive, At, NackInv, WaitInv, NewsInv
  <2>2. bus'.dir = "rx" /\ state' = "BUSY" /\ nacked' = nacked
    BY <1>5, <2>1 DEF Receive, StartTransfer
  <2>. QED BY <1>1, <2>1, <2>2 DEF NackInv, WaitInv, FedInv, NewsInv
<1>6. CASE Done
  <2>1. state = "IDLE" /\ irq = {} /\ bus.dir = "idle" /\ (nacked => error = "NACK")
        /\ UNCHANGED <<driverVars, busVars, nacked>>
    BY <1>6 DEF Done, At, NackInv, WaitInv, NewsInv
  <2>2. nacked => pc' = "ready" /\ result' # 1
    BY <1>6, <2>1 DEF Done, Return, FailCode
  <2>3. pc' \notin {"fill", "spin", "wait"}
    BY <1>1, <1>6 DEF Done, Return, TypeInv, TypeOK
  <2>. QED BY <1>1, <2>1, <2>2, <2>3 DEF NackInv, WaitInv, FedInv, NewsInv, driverVars, busVars
<1>7. CASE Timeout
  <2>1. state = "BUSY" /\ irq = {} /\ pc' = "ready" /\ result' # 1
        /\ UNCHANGED <<busVars, nacked>>
    BY <1>7 DEF Timeout, At, Return, FailCode
  <2>2. bus.dir = "idle"
    <3>1. late' = (late \/ ~Quiet)
      BY <1>7 DEF Timeout
    <3>2. Quiet
      BY <3>1, Zenon
    <3>. QED BY <2>1, <3>2 DEF Quiet, NackInv, FedInv
  <2>. QED BY <1>1, <2>1, <2>2 DEF NackInv, WaitInv, FedInv, NewsInv, busVars
<1>8. CASE Compare
  BY <1>1, <1>8 DEF Compare, At, Return, NackInv, WaitInv, FedInv, NewsInv, driverVars, busVars
<1>. QED BY <1>2, <1>3, <1>4, <1>5, <1>6, <1>7, <1>8 DEF Main

\* The invariant: well typed, and as above unless such a wait has happened.
ReportInv == TypeInv /\ (~late => NackInv)

LEMMA ReportStep == ReportInv /\ [Next]_vars => ReportInv'
<1> SUFFICES ASSUME ReportInv, [Next]_vars PROVE ReportInv'
  OBVIOUS
<1>1. TypeInv
  BY DEF ReportInv
<1>2. CASE UNCHANGED vars
  BY <1>2 DEF ReportInv, TypeInv, TypeOK, BusyInv, LeftInv, NackInv, WaitInv, FedInv, NewsInv,
              vars, driverVars, busVars, callVars
<1>3. CASE Next
  <2>1. TypeInv'
    BY <1>1, <1>3, BusType, IrqType, CallType, MainType DEF Next
  <2>2. ASSUME ~late' PROVE ~late
    <3>1. CASE Main
      BY <2>2, <3>1 DEF Main, Prepare, Fill, Spin, Receive, Done, Timeout, Compare
    <3>. QED BY <1>3, <2>2, <3>1 DEF Next, Call, Irq, Bus
  <2>3. ASSUME ~late' PROVE NackInv'
    <3>1. NackInv
      BY <2>2, <2>3 DEF ReportInv
    <3>. QED BY <1>1, <1>3, <2>3, <3>1, BusNack, IrqNack, CallNack, MainNack DEF Next
  <2>. QED BY <2>1, <2>3 DEF ReportInv
<1>. QED BY <1>2, <1>3

\* Until a wait is given up while its transfer still moves, a device that does not
\* answer is reported to the caller.
THEOREM NackAlwaysReported == Spec => []NackReported
<1>1. Init => ReportInv
  BY InitNack DEF ReportInv
<1>2. ReportInv => NackReported
  BY DEF ReportInv, NackInv, NewsInv, NackReported
<1>. QED BY <1>1, <1>2, ReportStep, PTL DEF Spec
-----------------------------------------------------------------------------
(* The receive loop                                                        *)

\* Bytes of the reception that are still to come.
Expected == IF bus.dir = "rx" THEN bus.left ELSE 0

\* What has been stored, what waits in the FIFO and what is still to come are the
\* bytes of one reception; the FIFO is empty when its interrupt is served.
BoundInv ==
  /\ tmpNumRx + Len(rxFifo) + Expected <= RxLen
  /\ "RXFIFO" \notin irq => rxFifo = <<>>

\* The bus and the program outside of a reception add no byte to it.
LEMMA BoundKept ==
  ASSUME BoundInv, UNCHANGED <<tmpNumRx, rxFifo>>,
         "RXFIFO" \in irq => "RXFIFO" \in irq',
         bus'.dir = "rx" => bus.dir = "rx" /\ bus'.left = bus.left,
         bus.left \in Nat, tmpNumRx \in Nat, Len(rxFifo) \in Nat
  PROVE  BoundInv'
<1>1. Expected' <= Expected /\ Expected \in Nat /\ Expected' \in Nat
  BY DEF Expected
<1>2. tmpNumRx' = tmpNumRx /\ rxFifo' = rxFifo
  OBVIOUS
<1>. QED BY <1>1, <1>2 DEF BoundInv, RxLen

LEMMA BoundTypes ==
  ASSUME TypeInv
  PROVE  /\ bus.left \in Nat /\ (bus.dir # "idle" => bus.left >= 1)
         /\ tmpNumRx \in Nat /\ Len(rxFifo) \in Nat
BY DEF TypeInv, TypeOK, LeftInv, Transfers, RxLen

LEMMA BusBound == TypeInv /\ BoundInv /\ Bus => BoundInv'
<1> SUFFICES ASSUME TypeInv, BoundInv, Bus PROVE BoundInv'
  OBVIOUS
<1>1. UNCHANGED tmpNumRx
  BY DEF Bus, driverVars
<1>2. NoTransfer.dir = "idle"
  BY DEF NoTransfer
<1>3. CASE Acknowledge
  <2>1. bus'.dir = bus.dir /\ bus'.left = bus.left
    BY <1>3 DEF Acknowledge, TypeInv, TypeOK, Transfers
  <2>. QED BY <1>1, <1>3, <2>1, BoundTypes, BoundKept DEF Acknowledge
<1>4. CASE NotAcknowledge
  BY <1>1, <1>2, <1>4, BoundTypes, BoundKept DEF NotAcknowledge
<1>5. CASE SendByte
  <2>1. bus'.dir # "rx"
    BY <1>2, <1>5 DEF SendByte, Shorter, TypeInv, TypeOK, Transfers
  <2>. QED BY <1>1, <1>5, <2>1, BoundTypes, BoundKept DEF SendByte
<1>6. CASE ReceiveByte
  <2>1. bus.dir = "rx" /\ bus' = Shorter
    BY <1>6 DEF ReceiveByte
  <2>2. bus.left = 1
    BY <2>1, BoundTypes DEF BoundInv, Expected, RxLen
  <2>3. Expected = 1 /\ Expected' = 0
    BY <1>2, <2>1, <2>2 DEF Shorter, Expected
  <2>4. Len(rxFifo') = Len(rxFifo) + 1 /\ "RXFIFO" \in irq'
    BY <1>6 DEF ReceiveByte, TypeInv, TypeOK
  <2>. QED BY <1>1, <2>3, <2>4, BoundTypes DEF BoundInv, RxLen
<1>. QED BY <1>3, <1>4, <1>5, <1>6 DEF Bus

LEMMA IrqBound == TypeInv /\ BoundInv /\ Irq => BoundInv'
<1> SUFFICES ASSUME TypeInv, BoundInv, Irq PROVE BoundInv'
  OBVIOUS
<1>1. CASE OnRxFifo
  <2>1. tmpNumRx' = tmpNumRx + Len(rxFifo) /\ rxFifo' = <<>> /\ bus' = bus
    BY <1>1 DEF OnRxFifo
  <2>2. Len(rxFifo') = 0 /\ Expected' = Expected /\ Expected \in Nat
    BY <2>1, BoundTypes DEF Expected
  <2>. QED BY <2>1, <2>2, BoundTypes DEF BoundInv, RxLen
<1>2. CASE OnTxFifo
  BY <1>2, BoundTypes, BoundKept DEF OnTxFifo
<1>3. CASE OnDone
  BY <1>3, BoundTypes, BoundKept DEF OnDone
<1>4. CASE OnNack
  BY <1>4, BoundTypes, BoundKept DEF OnNack
<1>. QED BY <1>1, <1>2, <1>3, <1>4 DEF Irq

\* A reception begins with an empty FIFO, whatever transfer is still on the bus.
LEMMA MainBound == TypeInv /\ BoundInv /\ Main => BoundInv'
<1> SUFFICES ASSUME TypeInv, BoundInv, Main PROVE BoundInv'
  OBVIOUS
<1>1. CASE Prepare
  BY <1>1, BoundTypes, BoundKept DEF Prepare, busVars
<1>2. CASE Fill
  BY <1>2, BoundTypes, BoundKept DEF Fill
<1>3. CASE Spin
  <2>1. bus'.dir # "rx"
    BY <1>3 DEF Spin, StartTransfer
  <2>. QED BY <1>3, <2>1, BoundTypes, BoundKept DEF Spin, driverVars
<1>4. CASE Receive
  <2>1. tmpNumRx' = 0 /\ rxFifo' = <<>>
    BY <1>4 DEF Receive, RewindRx, At, BoundInv
  <2>2. bus'.dir = "rx" => bus'.left <= RxLen /\ bus'.left \in Nat
    <3>1. bus.dir = "rx" => bus.left <= RxLen
      BY BoundTypes DEF BoundInv, Expected, RxLen
    <3>2. bus'.left = RxLen \/ bus' = bus
      BY <1>4 DEF Receive, StartTransfer
    <3>. QED BY <3>1, <3>2, BoundTypes DEF RxLen
  <2>3. Expected' <= RxLen /\ Expected' \in Nat
    BY <2>2 DEF Expected, RxLen
  <2>4. Len(rxFifo') = 0
    BY <2>1
  <2>5. tmpNumRx' + Len(rxFifo') + Expected' <= RxLen
    <3>1. tmpNumRx' + Len(rxFifo') = 0
      BY <2>1, <2>4
    <3>. QED BY <2>3, <3>1 DEF RxLen
  <2>. QED BY <2>1, <2>5 DEF BoundInv, RxLen
<1>5. CASE Done
  BY <1>5, BoundTypes, BoundKept DEF Done, driverVars, busVars
<1>6. CASE Timeout
  BY <1>6, BoundTypes, BoundKept DEF Timeout, busVars
<1>7. CASE Compare
  BY <1>7, BoundTypes, BoundKept DEF Compare, driverVars, busVars
<1>. QED BY <1>1, <1>2, <1>3, <1>4, <1>5, <1>6, <1>7 DEF Main

\* The receive loop stores no byte beyond what was asked for, although its bound
\* admits one more, even when a reception that was given up still moves.
THEOREM ReceiveAlwaysInBounds == Spec => []ReceiveInBounds
<1>1. Init => BoundInv
  BY DEF Init, BoundInv, Expected, NoTransfer, RxLen
<1>2. TypeInv /\ BoundInv /\ [Next]_vars => BoundInv'
  <2> SUFFICES ASSUME TypeInv, BoundInv, [Next]_vars PROVE BoundInv'
    OBVIOUS
  <2>1. CASE Call
    BY <2>1, BoundTypes, BoundKept DEF Call, driverVars, busVars
  <2>2. CASE UNCHANGED vars
    BY <2>2, BoundTypes, BoundKept DEF vars, driverVars, busVars
  <2>. QED BY <2>1, <2>2, BusBound, IrqBound, MainBound DEF Next
<1>3. TypeInv /\ BoundInv => ReceiveInBounds
  <2> SUFFICES ASSUME TypeInv, BoundInv PROVE ReceiveInBounds
    OBVIOUS
  <2>1. Expected \in Nat
    BY BoundTypes DEF Expected
  <2>. QED BY <2>1, BoundTypes DEF BoundInv, ReceiveInBounds, RxLen
<1>. QED BY <1>1, <1>2, <1>3, TypeInvariance, PTL DEF Spec

-----------------------------------------------------------------------------
(* The register file                                                       *)

\* The register of the call holds its value; its device has it selected.
Written  == regs[dest][reg] = value
Selected == pointer[dest] = reg

\* Nothing is on the bus, in the FIFOs or pending.
Resting == bus.dir = "idle" /\ txFifo = <<>> /\ rxFifo = <<>> /\ irq = {}

\* A transfer of the call is on the bus.
Under(dir, n, at) == bus = [dir |-> dir, to |-> dest, left |-> n, at |-> at]

\* The stages of a call on a bus whose devices answer in time: between two calls,
\* before the message is formed, handed over, and sent ...
AtReady   == pc = "ready" /\ state = "IDLE" /\ Resting /\ (result = 1 => Written)
AtPrepare == pc = "prepare" /\ phase \in {"write", "select"} /\ Resting /\ (phase = "select" => Written)
AtFill    == /\ pc = "fill" /\ phase \in {"write", "select"} /\ Resting /\ (phase = "select" => Written)
             /\ state = "BUSY" /\ txBuffer = Message /\ numTx = Len(Message)
AtSpin    == /\ pc = "spin" /\ state = "BUSY" /\ phase \in {"write", "select"} /\ bus.dir = "idle"
             /\ rxFifo = <<>> /\ irq = {} /\ (phase = "select" => Written)
             /\ numTx = Len(Message) /\ tmpNumTx = numTx /\ txFifo = Message

\* ... its address and its first byte, its second byte, the interrupts at its end ...
OnTx   == /\ pc = "wait" /\ phase \in {"write", "select"} /\ state = "BUSY"
          /\ Under("tx", Len(Message), "address") \/ Under("tx", Len(Message), "pointer")
          /\ rxFifo = <<>> /\ irq = {} /\ (phase = "select" => Written)
          /\ tmpNumTx = numTx /\ txFifo = Message
OnData == /\ pc = "wait" /\ phase = "write" /\ state = "BUSY" /\ Under("tx", 1, "data")
          /\ rxFifo = <<>> /\ irq = {} /\ Selected /\ tmpNumTx = numTx /\ txFifo = <<value>>
TxOver == /\ pc = "wait" /\ phase \in {"write", "select"} /\ bus.dir = "idle"
          /\ rxFifo = <<>> /\ txFifo = <<>> /\ tmpNumTx = numTx /\ Written /\ Selected
          /\ irq \subseteq {"TXFIFO", "TX_DONE"} /\ (state = "BUSY" => "TX_DONE" \in irq)

\* ... before the reception, its address and its byte, the interrupts at its
\* end, and before the comparison.
AtReceive == pc = "receive" /\ phase = "read" /\ Resting /\ Written /\ Selected
OnRx   == /\ pc = "wait" /\ phase = "read" /\ state = "BUSY"
          /\ Under("rx", 1, "address") \/ Under("rx", 1, "data")
          /\ rxFifo = <<>> /\ txFifo = <<>> /\ irq = {} /\ tmpNumRx = 0 /\ Written /\ Selected
RxOver == /\ pc = "wait" /\ phase = "read" /\ bus.dir = "idle" /\ txFifo = <<>> /\ Written
          /\ irq \subseteq {"RXFIFO", "RX_DONE"} /\ (state = "BUSY" => "RX_DONE" \in irq)
          /\ IF "RXFIFO" \in irq THEN rxFifo = <<value>> /\ tmpNumRx = 0
             ELSE rxFifo = <<>> /\ verify = value
AtCompare == pc = "compare" /\ Resting /\ Written /\ verify = value

Stages == \/ AtReady \/ AtPrepare \/ AtFill \/ AtSpin \/ OnTx \/ OnData \/ TxOver
          \/ AtReceive \/ OnRx \/ RxOver \/ AtCompare

\* The inductive invariant of a healthy bus.
HealthyInv == TypeInv /\ error = "NONE" /\ Stages

\* What a step is for the register file: nothing, or one of its steps.
Step == [File!FileNext]_(File!fileVars)

\* A step of which the register file sees nothing.
LEMMA Unseen ==
  ASSUME UNCHANGED <<regs, dest, reg, value, result>>, (pc' # "ready") <=> (pc # "ready")
  PROVE  Step
BY DEF Step, File!fileVars

\* No transfer is on the bus.
LEMMA Idle == NoTransfer.dir = "idle"
BY DEF NoTransfer

\* A message has the register, and in the first transaction its value.
LEMMA MessageFacts ==
  /\ phase = "write" => /\ Message = <<reg, value>> /\ Len(Message) = 2
                        /\ Head(Message) = reg /\ Tail(Message) = <<value>>
  /\ phase = "select" => /\ Message = <<reg>> /\ Len(Message) = 1
                         /\ Head(Message) = reg /\ Tail(Message) = <<>>
BY DEF Message

\* The program begins in the first stage, with idle devices.
LEMMA HealthyInit == Init => HealthyInv /\ File!FileInit
<1> SUFFICES ASSUME Init PROVE HealthyInv /\ File!FileInit
  OBVIOUS
<1>1. TypeInv
  BY InitType
<1>2. AtReady
  BY Idle DEF Init, AtReady, Resting
<1>3. File!FileInit
  BY <1>1 DEF Init, TypeInv, TypeOK, File!FileInit
<1>. QED BY <1>1, <1>2, <1>3 DEF HealthyInv, Stages, Init

\* The devices acknowledge and take or send their bytes.
LEMMA HealthyBus ==
  ASSUME HealthyInv, Flaky = {}, Bus
  PROVE  Stages' /\ error' = "NONE" /\ Step
<1>1. UNCHANGED <<state, error, numTx, tmpNumTx, txBuffer, tmpNumRx, verify,
                  pc, phase, dest, reg, value, result>>
  BY DEF Bus, driverVars, callVars
<1>2. Message' = Message /\ error' = "NONE"
  BY <1>1 DEF Message, HealthyInv
<1>3. bus.dir # "idle" => OnTx \/ OnData \/ OnRx
  BY DEF HealthyInv, Stages, AtReady, AtPrepare, AtFill, AtSpin, TxOver, AtReceive, RxOver, AtCompare, Resting
<1>4. CASE Acknowledge
  <2>1. UNCHANGED <<txFifo, rxFifo, irq, regs, pointer>> /\ bus.dir # "idle" /\ bus.at = "address"
        /\ bus' = [bus EXCEPT !.at = IF bus.dir = "tx" THEN "pointer" ELSE "data"]
    BY <1>4 DEF Acknowledge
  <2>2. ~OnData
    BY <2>1 DEF OnData, Under
  <2>3. CASE OnTx
    <3>1. bus = [dir |-> "tx", to |-> dest, left |-> Len(Message), at |-> "address"]
      BY <2>1, <2>3 DEF OnTx, Under
    <3>2. bus' = [dir |-> "tx", to |-> dest, left |-> Len(Message), at |-> "pointer"]
      BY <2>1, <3>1
    <3>3. OnTx'
      BY <1>1, <1>2, <2>1, <2>3, <3>2 DEF OnTx, Under, Written
    <3>. QED BY <1>1, <1>2, <2>1, <3>3, Unseen DEF Stages
  <2>4. CASE OnRx
    <3>1. bus = [dir |-> "rx", to |-> dest, left |-> 1, at |-> "address"]
      BY <2>1, <2>4 DEF OnRx, Under
    <3>2. bus' = [dir |-> "rx", to |-> dest, left |-> 1, at |-> "data"]
      BY <2>1, <3>1
    <3>3. OnRx'
      BY <1>1, <2>1, <2>4, <3>2 DEF OnRx, Under, Written, Selected
    <3>. QED BY <1>1, <1>2, <2>1, <3>3, Unseen DEF Stages
  <2>. QED BY <1>3, <2>1, <2>2, <2>3, <2>4
<1>5. CASE NotAcknowledge
  BY <1>5 DEF NotAcknowledge
<1>6. CASE SendByte
  <2>1. /\ bus.dir = "tx" /\ bus.at # "address" /\ bus' = Shorter /\ txFifo' = Tail(txFifo)
        /\ irq' = irq \union {i \in {"TXFIFO", "TX_DONE"} :
                               IF i = "TXFIFO" THEN Len(txFifo) = 1 ELSE bus.left = 1}
        /\ rxFifo' = rxFifo
    BY <1>6 DEF SendByte
  <2>2. dest \in Devices /\ reg \in Bytes /\ value \in Bytes
        /\ regs \in [Devices -> [Bytes -> Bytes]] /\ pointer \in [Devices -> Bytes]
    BY DEF HealthyInv, TypeInv, TypeOK
  <2>3. CASE OnTx /\ phase = "write"
    <3>1. bus = [dir |-> "tx", to |-> dest, left |-> 2, at |-> "pointer"] /\ txFifo = Message /\ irq = {}
      BY <2>1, <2>3, MessageFacts DEF OnTx, Under
    <3>2. bus' = [dir |-> "tx", to |-> dest, left |-> 1, at |-> "data"]
      <4>1. bus.left = 2 /\ bus.left # 1 /\ 2 - 1 = 1
        BY <3>1
      <4>2. bus' = [bus EXCEPT !.left = bus.left - 1, !.at = "data"]
        BY <2>1, <4>1 DEF Shorter
      <4>3. bus' = [bus EXCEPT !.left = 1, !.at = "data"]
        BY <4>1, <4>2
      <4>. QED BY <3>1, <4>3
    <3>3. txFifo' = <<value>> /\ irq' = {} /\ Head(txFifo) = reg
      BY <2>1, <2>3, <3>1, MessageFacts
    <3>4. regs' = regs /\ pointer' = [pointer EXCEPT ![dest] = reg]
      BY <1>6, <3>1, <3>3 DEF SendByte
    <3>5. Selected'
      BY <1>1, <2>2, <3>4 DEF Selected
    <3>6. OnData'
      BY <1>1, <2>1, <2>3, <3>2, <3>3, <3>5 DEF OnTx, OnData, Under
    <3>. QED BY <1>1, <1>2, <3>4, <3>6, Unseen DEF Stages
  <2>4. CASE OnTx /\ phase = "select"
    <3>1. bus = [dir |-> "tx", to |-> dest, left |-> 1, at |-> "pointer"] /\ txFifo = Message /\ irq = {}
      BY <2>1, <2>4, MessageFacts DEF OnTx, Under
    <3>2. bus'.dir = "idle"
      BY <2>1, <3>1, Idle DEF Shorter
    <3>3. txFifo' = <<>> /\ irq' = {"TXFIFO", "TX_DONE"} /\ Head(txFifo) = reg
      BY <2>1, <2>4, <3>1, MessageFacts
    <3>4. regs' = regs /\ pointer' = [pointer EXCEPT ![dest] = reg]
      BY <1>6, <3>1, <3>3 DEF SendByte
    <3>5. Selected' /\ Written'
      BY <1>1, <2>2, <2>4, <3>4 DEF Selected, Written, OnTx
    <3>6. TxOver'
      BY <1>1, <2>1, <2>4, <3>2, <3>3, <3>5 DEF OnTx, TxOver
    <3>. QED BY <1>1, <1>2, <3>4, <3>6, Unseen DEF Stages
  <2>5. CASE OnData
    <3>1. bus = [dir |-> "tx", to |-> dest, left |-> 1, at |-> "data"] /\ txFifo = <<value>> /\ irq = {}
          /\ pointer[dest] = reg
      BY <2>5 DEF OnData, Under, Selected
    <3>2. bus'.dir = "idle"
      BY <2>1, <3>1, Idle DEF Shorter
    <3>3. Len(txFifo) = 1 /\ Tail(txFifo) = <<>> /\ Head(txFifo) = value
      BY <3>1
    <3>4. txFifo' = <<>> /\ irq' = {"TXFIFO", "TX_DONE"}
      BY <2>1, <3>1, <3>3
    <3>5. pointer' = pointer /\ regs' = [regs EXCEPT ![dest][reg] = value]
      BY <1>6, <3>1, <3>3 DEF SendByte
    <3>6. Selected' /\ Written'
      BY <1>1, <2>2, <3>1, <3>5 DEF Selected, Written
    <3>7. TxOver'
      BY <1>1, <2>1, <2>5, <3>2, <3>4, <3>6 DEF OnData, TxOver
    <3>8. pc = "wait"
      BY <2>5 DEF OnData
    <3>9. File!Update
      BY <1>1, <3>5, <3>8 DEF File!Update
    <3>. QED BY <1>2, <3>7, <3>9 DEF Stages, Step, File!FileNext
  <2>6. ~OnRx
    BY <2>1 DEF OnRx, Under
  <2>. QED BY <1>3, <2>1, <2>3, <2>4, <2>5, <2>6 DEF OnTx
<1>7. CASE ReceiveByte
  <2>1. /\ bus.dir = "rx" /\ bus.at = "data" /\ bus' = Shorter
        /\ rxFifo' = Append(rxFifo, regs[bus.to][pointer[bus.to]])
        /\ irq' = irq \union {i \in {"RXFIFO", "RX_DONE"} : i = "RX_DONE" => bus.left = 1}
        /\ UNCHANGED <<txFifo, regs, pointer>>
    BY <1>7 DEF ReceiveByte
  <2>2. OnRx
    BY <1>3, <2>1 DEF OnTx, OnData, Under
  <2>3. bus = [dir |-> "rx", to |-> dest, left |-> 1, at |-> "data"] /\ rxFifo = <<>> /\ irq = {}
    BY <2>1, <2>2 DEF OnRx, Under
  <2>4. bus'.dir = "idle"
    BY <2>1, <2>3, Idle DEF Shorter
  <2>5. regs[bus.to][pointer[bus.to]] = value
    BY <2>2, <2>3 DEF OnRx, Written, Selected
  <2>6. rxFifo' = <<value>> /\ irq' = {"RXFIFO", "RX_DONE"}
    BY <2>1, <2>3, <2>5
  <2>7. RxOver'
    BY <1>1, <2>1, <2>2, <2>4, <2>6 DEF OnRx, RxOver, Written
  <2>. QED BY <1>1, <1>2, <2>1, <2>7, Unseen DEF Stages
<1>. QED BY <1>4, <1>5, <1>6, <1>7 DEF Bus

\* The interrupts at the end of a transfer.
LEMMA HealthyIrq ==
  ASSUME HealthyInv, Irq
  PROVE  Stages' /\ error' = "NONE" /\ Step
<1>1. UNCHANGED <<pc, phase, dest, reg, value, result>>
  BY DEF Irq, callVars
<1>2. irq # {} => TxOver \/ RxOver
  BY DEF HealthyInv, Stages, AtReady, AtPrepare, AtFill, AtSpin, OnTx, OnData, AtReceive, OnRx, AtCompare, Resting
<1>3. CASE OnRxFifo
  <2>1. /\ "RXFIFO" \in irq /\ irq' = irq \ {"RXFIFO"} /\ rxFifo' = <<>>
        /\ verify' = IF tmpNumRx = 0 /\ rxFifo # <<>> THEN Head(rxFifo) ELSE verify
        /\ UNCHANGED <<state, error, bus, txFifo, regs, pointer>>
    BY <1>3 DEF OnRxFifo
  <2>2. RxOver
    BY <1>2, <2>1 DEF TxOver
  <2>3. rxFifo = <<value>> /\ tmpNumRx = 0
    BY <2>1, <2>2 DEF RxOver
  <2>4. verify' = value
    BY <2>1, <2>3
  <2>5. RxOver'
    BY <1>1, <2>1, <2>2, <2>4 DEF RxOver, Written
  <2>. QED BY <1>1, <2>1, <2>5, Unseen DEF Stages, HealthyInv
<1>4. CASE OnTxFifo
  <2>1. /\ "TXFIFO" \in irq /\ irq' = irq \ {"TXFIFO"} /\ FillTx(tmpNumTx)
        /\ UNCHANGED <<state, error, numTx, bus, rxFifo, regs, pointer>>
    BY <1>4 DEF OnTxFifo
  <2>2. TxOver
    BY <1>2, <2>1 DEF RxOver
  <2>3. txFifo = <<>> /\ tmpNumTx = numTx /\ numTx \in 0 .. 2
    BY <2>2 DEF TxOver, HealthyInv, TypeInv, TypeOK
  <2>4. txFifo' = <<>> /\ tmpNumTx' = numTx
    <3>1. tmpNumTx' \in numTx .. numTx /\ Len(txFifo') = Len(txFifo) + tmpNumTx' - numTx
          /\ txFifo' \in Seq(Bytes)
      BY <2>1, <2>3, FillTxType DEF HealthyInv
    <3>2. tmpNumTx' = numTx /\ Len(txFifo') = 0
      BY <2>3, <3>1
    <3>. QED BY <3>1, <3>2
  <2>5. TxOver'
    BY <1>1, <2>1, <2>2, <2>4 DEF TxOver, Written, Selected
  <2>. QED BY <1>1, <2>1, <2>5, Unseen DEF Stages, HealthyInv
<1>5. CASE OnDone
  <2>1. PICK i \in {"RX_DONE", "TX_DONE"} : i \in irq /\ irq' = irq \ {i}
    BY <1>5 DEF OnDone
  <2>2. state' = "IDLE" /\ UNCHANGED <<error, numTx, tmpNumTx, txBuffer, tmpNumRx, verify,
                                       bus, txFifo, rxFifo, regs, pointer>>
    BY <1>5 DEF OnDone
  <2>3. CASE TxOver
    <3>1. TxOver'
      BY <1>1, <2>1, <2>2, <2>3 DEF TxOver, Written, Selected
    <3>. QED BY <1>1, <2>2, <3>1, Unseen DEF Stages, HealthyInv
  <2>4. CASE RxOver
    <3>1. RxOver'
      BY <1>1, <2>1, <2>2, <2>4 DEF RxOver, Written
    <3>. QED BY <1>1, <2>2, <3>1, Unseen DEF Stages, HealthyInv
  <2>. QED BY <1>2, <2>1, <2>3, <2>4
<1>6. CASE OnNack
  BY <1>2, <1>6 DEF OnNack, TxOver, RxOver
<1>. QED BY <1>3, <1>4, <1>5, <1>6 DEF Irq

\* A message fits into the empty FIFO: all of it is handed over.
LEMMA MessageFits ==
  ASSUME txFifo = <<>>, txBuffer = Message, numTx = Len(Message), reg \in Bytes, value \in Bytes,
         FillTx(0)
  PROVE  txFifo' = Message /\ tmpNumTx' = numTx
<1> DEFINE room == FifoDepth - Len(txFifo)
           n    == IF numTx - 0 < room THEN numTx - 0 ELSE room
<1>1. Message \in Seq(Bytes) /\ Len(Message) \in 1 .. 2
  BY DEF Message
<1>2. n = numTx
  BY <1>1, FifoAssumption
<1>3. txFifo' = txFifo \o SubSeq(txBuffer, 0 + 1, 0 + n) /\ tmpNumTx' = 0 + n
  BY DEF FillTx
<1> HIDE DEF room, n
<1>4. SubSeq(txBuffer, 0 + 1, 0 + n) = Message
  BY <1>1, <1>2
<1>. QED BY <1>1, <1>2, <1>3, <1>4

\* The steps of the program.
LEMMA HealthyMain ==
  ASSUME HealthyInv, Stalls = FALSE, Main
  PROVE  Stages' /\ error' = "NONE" /\ Step
<1>1. CASE Prepare
  <2>1. /\ pc = "prepare" /\ pc' = "fill" /\ error' = "NONE" /\ state' = "BUSY"
        /\ txBuffer' = Message /\ numTx' = Len(Message)
        /\ UNCHANGED <<bus, txFifo, rxFifo, irq, regs, pointer, phase, dest, reg, value, result>>
    BY <1>1 DEF Prepare, busVars, At
  <2>2. AtPrepare
    BY <2>1 DEF HealthyInv, Stages, AtReady, AtFill, AtSpin, OnTx, OnData, TxOver, AtReceive, OnRx,
                RxOver, AtCompare
  <2>3. Message' = Message
    BY <2>1 DEF Message
  <2>4. AtFill'
    BY <2>1, <2>2, <2>3 DEF AtPrepare, AtFill, Resting, Written
  <2>. QED BY <2>1, <2>4, Unseen DEF Stages
<1>2. CASE Fill
  <2>1. /\ pc = "fill" /\ pc' = "spin" /\ FillTx(0)
        /\ UNCHANGED <<state, error, numTx, txBuffer, bus, rxFifo, irq, regs, pointer,
                       phase, dest, reg, value, result>>
    BY <1>2 DEF Fill, At
  <2>2. AtFill
    BY <2>1 DEF HealthyInv, Stages, AtReady, AtPrepare, AtSpin, OnTx, OnData, TxOver, AtReceive, OnRx,
                RxOver, AtCompare
  <2>3. Message' = Message
    BY <2>1 DEF Message
  <2>4. reg \in Bytes /\ value \in Bytes
    BY DEF HealthyInv, TypeInv, TypeOK
  <2>5. txFifo' = Message /\ tmpNumTx' = numTx
    BY <2>1, <2>2, <2>4, MessageFits DEF AtFill, Resting
  <2>6. AtSpin'
    BY <2>1, <2>2, <2>3, <2>5 DEF AtFill, AtSpin, Resting, Written
  <2>. QED BY <2>1, <2>6, Unseen DEF Stages, HealthyInv
<1>3. CASE Spin
  <2>1. /\ pc = "spin" /\ pc' = "wait" /\ bus.dir = "idle" /\ StartTransfer("tx", numTx)
        /\ UNCHANGED <<state, error, numTx, tmpNumTx, txFifo, rxFifo, irq, regs, pointer,
                       phase, dest, reg, value, result>>
    BY <1>3 DEF Spin, At, driverVars
  <2>2. AtSpin
    BY <2>1 DEF HealthyInv, Stages, AtReady, AtPrepare, AtFill, OnTx, OnData, TxOver, AtReceive, OnRx,
                RxOver, AtCompare
  <2>3. Message' = Message
    BY <2>1 DEF Message
  <2>4. bus' = [dir |-> "tx", to |-> dest, left |-> Len(Message), at |-> "address"]
    BY <2>1, <2>2 DEF StartTransfer, AtSpin
  <2>5. OnTx'
    BY <2>1, <2>2, <2>3, <2>4 DEF AtSpin, OnTx, Under, Written
  <2>. QED BY <2>1, <2>5, Unseen DEF Stages, HealthyInv
<1>4. CASE Receive
  <2>1. /\ pc = "receive" /\ pc' = "wait" /\ tmpNumRx' = 0 /\ error' = "NONE" /\ state' = "BUSY"
        /\ StartTransfer("rx", 1)
        /\ UNCHANGED <<txFifo, rxFifo, irq, regs, pointer, phase, dest, reg, value, result>>
    BY <1>4 DEF Receive, RewindRx, RxLen, At
  <2>2. AtReceive
    BY <2>1 DEF HealthyInv, Stages, AtReady, AtPrepare, AtFill, AtSpin, OnTx, OnData, TxOver, OnRx,
                RxOver, AtCompare
  <2>3. bus' = [dir |-> "rx", to |-> dest, left |-> 1, at |-> "address"]
    BY <2>1, <2>2 DEF StartTransfer, AtReceive, Resting
  <2>4. OnRx'
    BY <2>1, <2>2, <2>3 DEF AtReceive, OnRx, Resting, Under, Written, Selected
  <2>. QED BY <2>1, <2>4, Unseen DEF Stages
<1>5. CASE Done
  <2>1. /\ pc = "wait" /\ state = "IDLE" /\ irq = {} /\ error = "NONE"
        /\ CASE phase = "write"  -> phase' = "select" /\ pc' = "prepare"
             [] phase = "select" -> phase' = "read" /\ pc' = "receive"
             [] phase = "read"   -> phase' = phase /\ pc' = "compare"
        /\ UNCHANGED <<state, error, verify, bus, txFifo, rxFifo, irq, regs, pointer,
                       dest, reg, value, result>>
    BY <1>5 DEF Done, At, driverVars, busVars, HealthyInv
  <2>2. TxOver \/ RxOver
    BY <2>1 DEF HealthyInv, Stages, AtReady, AtPrepare, AtFill, AtSpin, OnTx, OnData, AtReceive, OnRx,
                AtCompare
  <2>3. CASE TxOver /\ phase = "write"
    <3>1. phase' = "select" /\ pc' = "prepare"
      BY <2>1, <2>3
    <3>2. AtPrepare'
      BY <2>1, <2>3, <3>1 DEF TxOver, AtPrepare, Resting, Written
    <3>. QED BY <2>1, <3>1, <3>2, Unseen DEF Stages
  <2>4. CASE TxOver /\ phase = "select"
    <3>1. phase' = "read" /\ pc' = "receive"
      BY <2>1, <2>4
    <3>2. AtReceive'
      BY <2>1, <2>4, <3>1 DEF TxOver, AtReceive, Resting, Written, Selected
    <3>. QED BY <2>1, <3>1, <3>2, Unseen DEF Stages
  <2>5. CASE RxOver
    <3>1. phase = "read" /\ rxFifo = <<>> /\ verify = value
      BY <2>1, <2>5 DEF RxOver
    <3>2. phase' = "read" /\ pc' = "compare"
      BY <2>1, <3>1
    <3>3. AtCompare'
      BY <2>1, <2>5, <3>1, <3>2 DEF RxOver, AtCompare, Resting, Written
    <3>. QED BY <2>1, <3>2, <3>3, Unseen DEF Stages
  <2>. QED BY <2>2, <2>3, <2>4, <2>5 DEF TxOver
<1>6. CASE Timeout
  <2>1. pc = "wait" /\ state = "BUSY" /\ Quiet /\ irq = {}
    BY <1>6 DEF Timeout, At
  <2>2. OnTx \/ OnData \/ OnRx
    BY <2>1 DEF HealthyInv, Stages, AtReady, AtPrepare, AtFill, AtSpin, TxOver, AtReceive, RxOver,
                AtCompare
  <2>3. OnTx => txFifo # <<>>
    BY MessageFacts DEF OnTx
  <2>4. OnData => txFifo # <<>>
    BY DEF OnData
  <2>. QED BY <2>1, <2>2, <2>3, <2>4 DEF Quiet, OnTx, OnData, OnRx, Under
<1>7. CASE Compare
  <2>1. /\ pc = "compare" /\ pc' = "ready" /\ result' = IF verify = value THEN 1 ELSE 0
        /\ UNCHANGED <<state, error, bus, txFifo, rxFifo, irq, regs, dest, reg, value>>
    BY <1>7 DEF Compare, Return, At, driverVars, busVars
  <2>2. AtCompare
    BY <2>1 DEF HealthyInv, Stages, AtReady, AtPrepare, AtFill, AtSpin, OnTx, OnData, TxOver, AtReceive,
                OnRx, RxOver
  <2>3. state = "IDLE"
    BY <2>1 DEF HealthyInv, TypeInv, TypeOK, BusyInv
  <2>4. AtReady'
    BY <2>1, <2>2, <2>3 DEF AtCompare, AtReady, Resting, Written
  <2>5. File!Answer
    BY <2>1, <2>2 DEF File!Answer, AtCompare, Written
  <2>. QED BY <2>1, <2>4, <2>5 DEF Stages, Step, File!FileNext, HealthyInv
<1>. QED BY <1>1, <1>2, <1>3, <1>4, <1>5, <1>6, <1>7 DEF Main

\* A call begins.
LEMMA HealthyCall ==
  ASSUME HealthyInv, Call
  PROVE  Stages' /\ error' = "NONE" /\ Step
<1>1. /\ pc = "ready" /\ dest' \in Devices /\ reg' \in Bytes /\ value' \in Bytes
      /\ IF state = "IDLE" THEN pc' = "prepare" /\ phase' = "write" /\ UNCHANGED result
                           ELSE Return(-4)
      /\ UNCHANGED <<error, bus, txFifo, rxFifo, irq, regs>>
  BY DEF Call, At, driverVars, busVars
<1>2. AtReady
  BY <1>1 DEF HealthyInv, Stages, AtPrepare, AtFill, AtSpin, OnTx, OnData, TxOver, AtReceive, OnRx,
              RxOver, AtCompare
<1>3. pc' = "prepare" /\ phase' = "write" /\ UNCHANGED result
  BY <1>1, <1>2 DEF AtReady
<1>4. AtPrepare'
  BY <1>1, <1>2, <1>3 DEF AtReady, AtPrepare, Resting
<1>5. File!Ask
  BY <1>1, <1>3 DEF File!Ask
<1>. QED BY <1>1, <1>4, <1>5 DEF Stages, Step, File!FileNext, HealthyInv

\* Every step keeps the stages and is one of the register file.
LEMMA HealthyStep ==
  Flaky = {} /\ Stalls = FALSE => (HealthyInv /\ [Next]_vars /\ TypeInv' => HealthyInv' /\ Step)
<1> SUFFICES ASSUME Flaky = {}, Stalls = FALSE, HealthyInv, [Next]_vars, TypeInv' PROVE HealthyInv' /\ Step
  OBVIOUS
<1>1. CASE UNCHANGED vars
  <2>1. UNCHANGED <<state, error, numTx, tmpNumTx, txBuffer, tmpNumRx, verify, bus, txFifo, rxFifo,
                    irq, regs, pointer, pc, phase, dest, reg, value, result>>
    BY <1>1 DEF vars, driverVars, busVars, callVars
  <2>2. Stages'
    BY <2>1 DEF HealthyInv, Stages, AtReady, AtPrepare, AtFill, AtSpin, OnTx, OnData, TxOver,
                AtReceive, OnRx, RxOver, AtCompare, Resting, Written, Selected, Under, Message
  <2>. QED BY <2>1, <2>2, Unseen DEF HealthyInv
<1>. QED BY <1>1, HealthyCall, HealthyMain, HealthyIrq, HealthyBus DEF Next, HealthyInv

\* On a bus whose devices answer in time, what the program, the interrupts and
\* the bus do is, step by step, what a register file does: a call changes the one
\* register it names to the value and no other, and ends with the answer 1, after
\* that.  The safety half of ImplementsRegisterFile.
THEOREM WritesARegister ==
  Flaky = {} /\ Stalls = FALSE => (Spec => File!FileInit /\ [][File!FileNext]_(File!fileVars))
<1> SUFFICES ASSUME Flaky = {}, Stalls = FALSE
             PROVE  Spec => File!FileInit /\ [][File!FileNext]_(File!fileVars)
  OBVIOUS
<1>1. Step => [File!FileNext]_(File!fileVars)
  BY DEF Step
<1>. QED BY <1>1, HealthyStep, HealthyInit, TypeInvariance, PTL DEF Spec

\* How far the violation of VerifyHonest goes: a call that returns 1 has left the
\* register with the value as long as every device answers in time.  That a device
\* may be late is enough to break it, and so is that one may not answer.
THEOREM HonestWhenAnswered == Flaky = {} /\ Stalls = FALSE => (Spec => []VerifyHonest)
<1> SUFFICES ASSUME Flaky = {}, Stalls = FALSE PROVE Spec => []VerifyHonest
  OBVIOUS
<1>1. HealthyInv => VerifyHonest
  BY DEF HealthyInv, Stages, AtReady, AtPrepare, AtFill, AtSpin, OnTx, OnData, TxOver, AtReceive, OnRx,
         RxOver, AtCompare, Written, VerifyHonest
<1>. QED BY <1>1, HealthyStep, HealthyInit, TypeInvariance, PTL DEF Spec
=============================================================================
