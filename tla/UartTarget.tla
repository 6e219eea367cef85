----------------------------- MODULE UartTarget -----------------------------
(***************************************************************************)
(* The interrupt-driven UART link of the board: the byte driver            *)
(* UART_Interface.c, the protocol layer UART_Target.c above it, the        *)
(* one-shot idle timer Timer_Timeout.c, and the hardware they talk to.     *)
(*                                                                         *)
(* The three layers share one interrupt: an interrupt handler of the       *)
(* driver runs the callbacks of the layer above, so a handler is one       *)
(* action.  Handlers have one priority and never nest.  The functions that *)
(* the main loop calls (UART_Target_Receive, UART_Target_Transmit) are     *)
(* cut at each access to a variable a handler also uses; the module that   *)
(* owns the main loop strings the pieces together with its pc.             *)
(*                                                                         *)
(* Main receives one byte at a time (numRx = 1) and without DMA.  The      *)
(* error field is left out: no caller reads it.                            *)
(***************************************************************************)
EXTENDS Naturals, Sequences

CONSTANTS
  Chars,      \* the printable bytes the host may send
  EOL,        \* the byte that ends a command, CR or LF
  RxDepth,    \* entries of the receive FIFO
  TxLoads     \* FIFO loads a response still needs after its first one

ASSUME EOLAssumption == EOL \notin Chars
ASSUME RxDepthAssumption == RxDepth \in Nat \ {0}
ASSUME TxLoadsAssumption == TxLoads \in Nat \ {0}

Bytes == Chars \union {EOL}

VARIABLES
  rxFifo,      \* receive FIFO, oldest byte first
  rxFlag,      \* pending RX interrupt
  txFifo,      \* TRUE while the transmit FIFO holds a load
  txFlag,      \* pending TX interrupt
  timer,       \* the counter of the idle timer: "off", "young" or "old"
  timerFlag,   \* pending LOAD interrupt of the idle timer
  rxState,     \* UART_Interface.rxState
  tmpNumRx,    \* UART_Interface.tmpNumRx
  rxBuffer,    \* TRUE once UART_Interface.rxBuffer points to rx_byte
  txState,     \* UART_Interface.txState
  txLeft,      \* FIFO loads still to be written, from numTx - tmpNumTx
  timerState,  \* Timer_Timeout.state
  state,       \* UART_Target.state
  rxByte       \* USB_DATA.rx_byte, the buffer the driver receives into

rxVars     == <<rxFifo, rxFlag, rxState, tmpNumRx, rxBuffer, rxByte>>
txVars     == <<txFifo, txFlag, txState, txLeft>>
timerVars  == <<timer, timerFlag, timerState>>
targetVars == <<rxVars, txVars, timerVars, state>>

DriverStates == {"UART_IDLE", "UART_BUSY"}
TimerStates  == {"TIMER_TIMEOUT_IDLE", "TIMER_TIMEOUT_RUNNING"}
TargetStates == {"IDLE", "WAITING", "RECEIVING", "RECEIVED", "SENDING"}

TargetTypeOK ==
  /\ rxFifo \in Seq(Bytes) /\ Len(rxFifo) <= RxDepth
  /\ rxFlag \in BOOLEAN /\ txFifo \in BOOLEAN /\ txFlag \in BOOLEAN
  /\ timer \in {"off", "young", "old"} /\ timerFlag \in BOOLEAN
  /\ rxState \in DriverStates /\ tmpNumRx \in {0, 1} /\ rxBuffer \in BOOLEAN
  /\ txState \in DriverStates /\ txLeft \in 0..TxLoads
  /\ txState = "UART_BUSY" => txLeft # 0
  /\ timerState \in TimerStates
  /\ state \in TargetStates
  /\ rxByte \in Bytes

\* The link after UART_Interface_Initialize, Timer_Timeout_Inialize and
\* UART_Target_Initialize.  The buffer is zeroed; EOL stands for that zero,
\* which no step reads before a byte has been received.
TargetInit ==
  /\ rxFifo = <<>> /\ rxFlag = FALSE /\ txFifo = FALSE /\ txFlag = FALSE
  /\ timer = "off" /\ timerFlag = FALSE
  /\ rxState = "UART_IDLE" /\ tmpNumRx = 0 /\ rxBuffer = FALSE
  /\ txState = "UART_IDLE" /\ txLeft = 0
  /\ timerState = "TIMER_TIMEOUT_IDLE"
  /\ state = "IDLE"
  /\ rxByte = EOL

IrqPending == rxFlag \/ txFlag \/ timerFlag

-----------------------------------------------------------------------------
(* The hardware                                                            *)

\* A byte reaches the receive FIFO and raises the RX interrupt (threshold of
\* one entry); a full FIFO drops it.
Arrive(b) ==
  /\ rxFifo' = IF Len(rxFifo) < RxDepth THEN Append(rxFifo, b) ELSE rxFifo
  /\ rxFlag' = TRUE
  /\ UNCHANGED <<rxState, tmpNumRx, rxBuffer, rxByte, txVars, timerVars, state>>

\* The shift register has taken all but one entry of the transmit FIFO.
TxDrain ==
  /\ txFifo
  /\ txFifo' = FALSE
  /\ txFlag' = TRUE
  /\ UNCHANGED <<txState, txLeft, rxVars, timerVars, state>>

\* Time passes for a running idle timer.  The period (34 ms or more) is longer
\* than a response takes to send (64 bytes, 6 ms), so a transmission that was
\* under way when the timer was restarted is over before the timer is old.
Age ==
  /\ timer = "young" /\ txState = "UART_IDLE"
  /\ timer' = "old"
  /\ UNCHANGED <<timerFlag, timerState, rxVars, txVars, state>>

\* The one-shot counter reaches its load value and stops.
Expire ==
  /\ timer = "old"
  /\ timer' = "off"
  /\ timerFlag' = TRUE
  /\ UNCHANGED <<timerState, rxVars, txVars, state>>

-----------------------------------------------------------------------------
(* The interrupt handlers                                                  *)

\* A variant of RestartTimer that forgets to start the counter.
RestartTimerLost ==
  /\ UNCHANGED timer
  /\ timerState' = "TIMER_TIMEOUT_RUNNING"

\* targetRxInProgressCb restarts the idle timer, through Timer_Timeout_Start or
\* Timer_Timeout_reStart: both leave the counter at zero and running.
RestartTimer ==
  /\ timer' = "young"
  /\ timerState' = "TIMER_TIMEOUT_RUNNING"

\* The case RX of UART_Interface_IRQ.  An idle driver leaves the byte in the
\* FIFO and has consumed the interrupt; an armed one takes a byte, restarts the
\* idle timer, and, the buffer of one byte being full, reports RECEIVED.
\* Through an unassigned rxBuffer the byte goes to address 0.
RxIrq ==
  /\ rxFlag
  /\ rxFlag' = FALSE
  /\ IF rxState = "UART_IDLE"
     THEN UNCHANGED <<rxFifo, rxState, tmpNumRx, rxByte, timer, timerState, state>>
     ELSE /\ RestartTimer
          /\ IF rxFifo = <<>>
             THEN /\ state' = "RECEIVING"
                  /\ UNCHANGED <<rxFifo, rxState, tmpNumRx, rxByte>>
             ELSE /\ rxFifo' = Tail(rxFifo)
                  /\ tmpNumRx' = 1
                  /\ rxByte' = IF rxBuffer THEN Head(rxFifo) ELSE rxByte
                  /\ rxState' = "UART_IDLE"
                  /\ state' = "RECEIVED"
  /\ UNCHANGED <<rxBuffer, timerFlag, txVars>>

\* A variant of TxDone without the callback.
TxDoneSilent == txState' = "UART_IDLE" /\ UNCHANGED state

\* The last load is written: the driver is idle and targetTxDoneCb reports it.
TxDone == txState' = "UART_IDLE" /\ state' = "IDLE"

\* The case TX of UART_Interface_IRQ: an idle driver ignores it, a busy one
\* refills the FIFO and is done when nothing is left to write; targetTxDoneCb
\* then sets the state of the target whatever it was.
TxIrq ==
  /\ txFlag
  /\ txFlag' = FALSE
  /\ IF txState = "UART_IDLE"
     THEN UNCHANGED <<txFifo, txState, txLeft, state>>
     ELSE /\ txFifo' = TRUE
          /\ txLeft' = txLeft - 1
          /\ IF txLeft = 1
             THEN TxDone
             ELSE UNCHANGED <<txState, state>>
  /\ UNCHANGED <<rxVars, timerVars>>

\* Timer_Timeout_IRQ and timerCallback: the driver stops receiving, whether it
\* has received a byte or not, and the target reports RECEIVED.
TimerIrq ==
  /\ timerFlag
  /\ timerFlag' = FALSE
  /\ timerState' = "TIMER_TIMEOUT_IDLE"
  /\ rxState' = "UART_IDLE"
  /\ state' = "RECEIVED"
  /\ UNCHANGED <<rxFifo, rxFlag, tmpNumRx, rxBuffer, rxByte, timer, txVars>>

-----------------------------------------------------------------------------
(* The pieces of UART_Target_Receive and UART_Target_Transmit              *)

\* Start_Receive empties the FIFO of whatever arrived while it was idle.
FlushRx ==
  /\ rxFifo' = <<>>
  /\ UNCHANGED <<rxFlag, rxState, tmpNumRx, rxBuffer, rxByte, txVars, timerVars, state>>

\* It then opens the driver ...
OpenRx ==
  /\ tmpNumRx' = 0
  /\ rxState' = "UART_BUSY"
  /\ UNCHANGED <<rxFifo, rxFlag, rxBuffer, rxByte, txVars, timerVars, state>>

\* ... and only after that tells it where to put the byte.
SetRxBuffer ==
  /\ rxBuffer' = TRUE
  /\ UNCHANGED <<rxFifo, rxFlag, rxState, tmpNumRx, rxByte, txVars, timerVars, state>>

\* UART_Target_Receive and UART_Target_Transmit end by setting the state of the
\* target, whatever a handler has set it to since the call began.
SetTargetState(s) ==
  /\ state' = s
  /\ UNCHANGED <<rxVars, txVars, timerVars>>

\* Start_Transmit refuses while a transmission is under way; otherwise it
\* fills the FIFO with the first load.
StartTransmit ==
  /\ IF txState = "UART_BUSY"
     THEN UNCHANGED <<txFifo, txState, txLeft>>
     ELSE /\ txState' = "UART_BUSY"
          /\ txLeft' = TxLoads
          /\ txFifo' = TRUE
  /\ UNCHANGED <<txFlag, rxVars, timerVars, state>>
=============================================================================
