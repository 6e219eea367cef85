-------------------------- MODULE UsbConsoleProofs --------------------------
(***************************************************************************)
(* Type correctness of the console, the command timeout's hold on every    *)
(* partial command, and that the link goes deaf in one way only, by the    *)
(* wake-up that UART_Target_Receive overwrites.  With a patient host, no   *)
(* command disturbs the response before it and every step is one of the    *)
(* command channel.  All for any size of buffers and responses and any     *)
(* number of lines.                                                        *)
(***************************************************************************)
EXTENDS UsbSession, TLAPS

\* The steps of the main loop between taking a byte and adding it to the command.
Receiving == \/ pc \in {"take", "collect"}
             \/ pc \in {"arm", "flush", "open", "buffer", "waiting"} /\ ret = "collect"

\* A timer that is old again while its interrupt is pending aged in silence.
FlagSilent == timerFlag /\ timer = "old" => txState = "UART_IDLE"

\* A response under way belongs to an earlier command, so the timer, restarted
\* since by a byte of the present one, is not old.
EarlierResponse ==
  /\ Receiving \/ pc = "transmit" \/ (active /\ pc \notin {"sending", "reset"})
  /\ txState = "UART_BUSY"
  => timer # "old" /\ ~timerFlag

\* After Start_Transmit, the response is the one just accepted, whole in the
\* FIFO, or an earlier one.
NewResponse ==
  pc = "sending" => \/ txState = "UART_BUSY" /\ txLeft = TxLoads /\ ~txFlag
                    \/ timer # "old" /\ ~timerFlag

UntakenByte ==
  pc \in {"poll", "deadline", "reset"} /\ state = "RECEIVED" /\ txState = "UART_BUSY"
  => timer # "old"

\* Which part of the program answers for a closed receiver, step by step.
ClosedReceiver ==
  rxState = "UART_IDLE" =>
    /\ pc \in {"buffer", "waiting", "collect"} =>
         \/ timer = "young"
         \/ /\ wakeLost \/ (pc = "collect" /\ state = "RECEIVED")
            /\ Receiving \/ active => txState = "UART_IDLE"
    /\ pc \in {"poll", "deadline", "process", "reset"} => Wakeable \/ wakeLost
    /\ pc \in {"process", "transmit"} \/ (pc = "deadline" /\ active)
       => (txState = "UART_BUSY" => timer = "young")
    /\ pc = "poll" /\ active /\ txState = "UART_BUSY"
       => timer = "young" \/ state \in {"IDLE", "RECEIVED"}
    /\ pc = "sending" => \/ timer = "young"
                         \/ txState = "UART_BUSY" /\ txLeft = TxLoads /\ ~txFlag

ActiveSteps ==
  /\ pc = "process" => active
  /\ pc \in {"transmit", "sending"} /\ ret = "deadline" => ~active

LinkInv == /\ FlagSilent /\ EarlierResponse /\ NewResponse
           /\ UntakenByte /\ ClosedReceiver /\ ActiveSteps
-----------------------------------------------------------------------------
(* Type correctness                                                        *)

\* TypeOK in two halves: the Boolean variables, and the rest.
BooleansOK ==
  /\ rxFlag \in BOOLEAN /\ txFifo \in BOOLEAN /\ txFlag \in BOOLEAN
  /\ timerFlag \in BOOLEAN /\ rxBuffer \in BOOLEAN
  /\ active \in BOOLEAN /\ late \in BOOLEAN /\ wakeLost \in BOOLEAN

ValuesOK ==
  /\ rxFifo \in Seq(Bytes) /\ Len(rxFifo) <= RxDepth
  /\ timer \in {"off", "young", "old"}
  /\ rxState \in DriverStates /\ tmpNumRx \in {0, 1}
  /\ txState \in DriverStates /\ txLeft \in 0..TxLoads
  /\ txState = "UART_BUSY" => txLeft # 0
  /\ timerState \in TimerStates
  /\ state \in TargetStates
  /\ rxByte \in Bytes
  /\ pc \in Steps /\ ret \in Returns
  /\ byte \in Bytes
  /\ cmd \in Seq(Chars) /\ Len(cmd) <= MaxCmdLen - 1

LEMMA TypeHalves == TypeOK <=> BooleansOK /\ ValuesOK
  BY DEF TypeOK, TargetTypeOK, BooleansOK, ValuesOK

LEMMA InitTypeOK == Init => TypeOK
<1> SUFFICES ASSUME Init PROVE BooleansOK /\ ValuesOK
  BY TypeHalves
<1>1. BooleansOK
  BY DEF Init, TargetInit, BooleansOK
<1>2. ValuesOK
  BY MaxCmdLenAssumption, RxDepthAssumption, TxLoadsAssumption
  DEF Init, TargetInit, ValuesOK, Bytes, DriverStates, TimerStates,
      TargetStates, Steps, Returns
<1>. QED BY <1>1, <1>2

\* Every step of the main loop keeps the types: the command buffer never
\* outgrows cmd_buffer, the transmit count never leaves its range.
LEMMA MainTypeOK == TypeOK /\ Main => TypeOK'
<1> SUFFICES ASSUME BooleansOK, ValuesOK, Main PROVE BooleansOK' /\ ValuesOK'
  BY TypeHalves DEF TypeOK, TargetTypeOK, BooleansOK, ValuesOK
<1> USE DEF BooleansOK, ValuesOK, DriverStates, TimerStates, TargetStates, Steps, Returns,
            rxVars, txVars, timerVars, targetVars, consoleVars
<1>1. CASE Poll /\ wakeLost' \in BOOLEAN
  BY <1>1 DEF Poll, Overdue
<1>2. CASE Take /\ wakeLost' \in BOOLEAN
  BY <1>2 DEF Take
<1>3. CASE Arm /\ wakeLost' \in BOOLEAN
  BY <1>3 DEF Arm
<1>4. CASE Flush /\ wakeLost' \in BOOLEAN
  BY <1>4, RxDepthAssumption DEF Flush, FlushRx
<1>5. CASE Open /\ wakeLost' \in BOOLEAN
  BY <1>5 DEF Open, OpenRx
<1>6. CASE Buffer /\ wakeLost' \in BOOLEAN
  BY <1>6 DEF Buffer, SetRxBuffer
<1>7. CASE Waiting /\ wakeLost' \in BOOLEAN
  BY <1>7 DEF Waiting, SetTargetState
<1>8. CASE Collect /\ wakeLost' \in BOOLEAN
  <2>1. byte # EOL => byte \in Chars
    BY DEF Bytes
  <2>2. Len(cmd) \in Nat
    OBVIOUS
  <2>3. byte # EOL /\ Room
        => Append(cmd, byte) \in Seq(Chars) /\ Len(Append(cmd, byte)) <= MaxCmdLen - 1
    BY <2>1, <2>2, MaxCmdLenAssumption DEF Room
  <2>4. <<>> \in Seq(Chars) /\ Len(<<>>) <= MaxCmdLen - 1
    BY MaxCmdLenAssumption
  <2>5. BooleansOK'
    BY <1>8 DEF Collect, Activate, EmptyBuffer
  <2>6. cmd' \in Seq(Chars) /\ Len(cmd') <= MaxCmdLen - 1
    BY <1>8, <2>3, <2>4 DEF Collect, Activate, EmptyBuffer
  <2>7. UNCHANGED <<byte, targetVars>> /\ pc' \in Steps /\ ret' \in Returns
    BY <1>8 DEF Collect, Activate, EmptyBuffer
  <2>8. ValuesOK'
    BY <2>6, <2>7
  <2>. QED BY <2>5, <2>8
<1>9. CASE Process /\ wakeLost' \in BOOLEAN
  BY <1>9 DEF Process
<1>10. CASE Transmit /\ wakeLost' \in BOOLEAN
  <2>1. BooleansOK'
    BY <1>10 DEF Transmit, StartTransmit
  <2>2. ValuesOK'
    BY <1>10, TxLoadsAssumption DEF Transmit, StartTransmit
  <2>. QED BY <2>1, <2>2
<1>11. CASE Sending /\ wakeLost' \in BOOLEAN
  BY <1>11 DEF Sending, SetTargetState
<1>12. CASE Reset /\ wakeLost' \in BOOLEAN
  <2>1. BooleansOK'
    BY <1>12 DEF Reset, EmptyBuffer
  <2>2. ValuesOK'
    BY <1>12, MaxCmdLenAssumption DEF Reset, EmptyBuffer
  <2>. QED BY <2>1, <2>2
<1>13. CASE Deadline /\ wakeLost' \in BOOLEAN
  BY <1>13 DEF Deadline, Overdue
<1>14. wakeLost' \in BOOLEAN
  BY DEF Main
<1>. QED BY <1>14, <1>1, <1>2, <1>3, <1>4, <1>5, <1>6, <1>7, <1>8, <1>9, <1>10, <1>11, <1>12, <1>13 DEF Main

\* So do the handlers, the hardware and the host.
LEMMA EnvironmentTypeOK ==
  TypeOK /\ (Irq \/ Hardware \/ \E b \in Bytes : HostByte(b)) => TypeOK'
<1> SUFFICES ASSUME BooleansOK, ValuesOK, Irq \/ Hardware \/ \E b \in Bytes : HostByte(b)
             PROVE  BooleansOK' /\ ValuesOK'
  BY TypeHalves DEF TypeOK, TargetTypeOK, BooleansOK, ValuesOK
<1> USE DEF BooleansOK, ValuesOK, DriverStates, TimerStates, TargetStates, Steps, Returns,
            rxVars, txVars, timerVars, targetVars, consoleVars
<1>1. CASE OnRx
  <2>1. rxFifo # <<>> => /\ Head(rxFifo) \in Bytes /\ Tail(rxFifo) \in Seq(Bytes)
                        /\ Len(Tail(rxFifo)) <= RxDepth
    BY RxDepthAssumption
  <2>2. BooleansOK'
    BY <1>1 DEF OnRx, RxIrq, RestartTimer
  <2>3. /\ rxFifo' \in Seq(Bytes) /\ Len(rxFifo') <= RxDepth /\ rxByte' \in Bytes
    BY <1>1, <2>1 DEF OnRx, RxIrq
  <2>4. /\ UNCHANGED <<pc, ret, byte, cmd, txVars>>
        /\ timer' \in {"off", "young", "old"} /\ timerState' \in TimerStates
        /\ rxState' \in DriverStates /\ tmpNumRx' \in {0, 1} /\ state' \in TargetStates
    BY <1>1 DEF OnRx, RxIrq, RestartTimer
  <2>5. ValuesOK'
    BY <2>3, <2>4
  <2>. QED BY <2>2, <2>5
<1>2. CASE OnTx
  <2>1. BooleansOK'
    BY <1>2 DEF OnTx, TxIrq, TxDone
  <2>2. ValuesOK'
    BY <1>2, TxLoadsAssumption DEF OnTx, TxIrq, TxDone
  <2>. QED BY <2>1, <2>2
<1>3. CASE OnTimer
  <2>1. BooleansOK'
    <3>1. (pc \in {"buffer", "waiting"}) \in BOOLEAN
      OBVIOUS
    <3>2. wakeLost' \in BOOLEAN
      BY <1>3, <3>1, Zenon DEF OnTimer
    <3>. QED BY <1>3, <3>2 DEF OnTimer, TimerIrq
  <2>2. ValuesOK'
    BY <1>3 DEF OnTimer, TimerIrq
  <2>. QED BY <2>1, <2>2
<1>4. CASE Hardware
  <2>1. BooleansOK'
    BY <1>4 DEF Hardware, Drain, TxDrain, TimerAge, Age, TimerExpire, Expire, CommandLate
  <2>2. ValuesOK'
    BY <1>4 DEF Hardware, Drain, TxDrain, TimerAge, Age, TimerExpire, Expire, CommandLate
  <2>. QED BY <2>1, <2>2
<1>5. ASSUME NEW b \in Bytes, HostByte(b) PROVE BooleansOK' /\ ValuesOK'
  <2>1. Len(rxFifo) < RxDepth
        => Append(rxFifo, b) \in Seq(Bytes) /\ Len(Append(rxFifo, b)) <= RxDepth
    BY RxDepthAssumption
  <2>. QED BY <1>5, <2>1 DEF HostByte, Arrive
<1>. QED BY <1>1, <1>2, <1>3, <1>4, <1>5 DEF Irq

\* Type correctness of the console, for every size of the buffers.
THEOREM TypeCorrect == Spec => []TypeOK
<1>1. TypeOK /\ UNCHANGED vars => TypeOK'
  BY DEF TypeOK, TargetTypeOK, vars, rxVars, txVars, timerVars, targetVars, consoleVars
<1>2. TypeOK /\ [Next]_vars => TypeOK'
  BY <1>1, MainTypeOK, EnvironmentTypeOK DEF Next
<1>. QED BY InitTypeOK, <1>2, PTL DEF Spec

-----------------------------------------------------------------------------
(* A partial command is always under the command timeout.  The property is  *)
(* inductive once the exempt steps are known to lead to Reset.              *)

TimedInv ==
  /\ PartialIsTimed
  /\ pc \in {"transmit", "sending"} /\ ret = "deadline" => cmd = <<>>
  /\ pc \in {"transmit", "sending"} => ret # "collect"

LEMMA TimedStep == TypeOK /\ TimedInv /\ [Next]_vars => TimedInv'
<1> SUFFICES ASSUME TypeOK, TimedInv, [Next]_vars PROVE TimedInv'
  OBVIOUS
<1> USE DEF TimedInv, PartialIsTimed, TypeOK, Steps, Returns
<1>1. CASE Main
  <2>1. CASE Collect
    BY <2>1 DEF Collect, At, Activate, EmptyBuffer
  <2>2. CASE Waiting \/ Sending
    BY <2>2 DEF Waiting, Sending, At
  <2>3. CASE Deadline \/ Reset
    BY <2>3 DEF Deadline, Reset, At, EmptyBuffer, Overdue
  <2>4. CASE Poll \/ Take \/ Arm \/ Flush \/ Open \/ Buffer \/ Process \/ Transmit
    BY <2>4 DEF Poll, Take, Arm, Flush, Open, Buffer, Process, Transmit, At
  <2>. QED BY <1>1, <2>1, <2>2, <2>3, <2>4 DEF Main
<1>2. CASE Irq \/ (\E b \in Bytes : HostByte(b)) \/ UNCHANGED vars
  BY <1>2 DEF Irq, OnRx, OnTx, OnTimer, HostByte, vars, consoleVars
<1>3. CASE Hardware
  BY <1>3 DEF Hardware, Drain, TimerAge, TimerExpire, CommandLate, consoleVars
<1>. QED BY <1>1, <1>2, <1>3 DEF Next

\* No part of a command waits in the buffer without the command timeout.
THEOREM PartialCommandsTimed == Spec => []PartialIsTimed
<1>1. Init => TimedInv
  BY DEF Init, TimedInv, PartialIsTimed
<1>2. TimedInv => PartialIsTimed
  BY DEF TimedInv
<1>. QED BY <1>1, <1>2, TimedStep, TypeCorrect, PTL DEF Spec
-----------------------------------------------------------------------------
(* The link goes deaf only by the wake-up that is overwritten.               *)

LEMMA LinkStep ==
  ASSUME TypeOK, TimedInv, LinkInv, [Next]_vars
  PROVE  LinkInv'
<1> USE DEF LinkInv, FlagSilent, EarlierResponse, NewResponse, UntakenByte, ClosedReceiver,
            ActiveSteps, Receiving, Wakeable, TypeOK, TargetTypeOK, DriverStates, TargetStates,
            At, IrqPending, rxVars, txVars, timerVars, targetVars, consoleVars
<1> DEFINE History == wakeLost' = (wakeLost /\ pc # "open")
<1>1. CASE Poll /\ History
  BY <1>1 DEF Poll, Overdue
<1>2. CASE Take /\ History
  BY <1>2 DEF Take
<1>3. CASE Arm /\ History
  BY <1>3 DEF Arm
<1>4. CASE Flush /\ History
  BY <1>4 DEF Flush, FlushRx
<1>5. CASE Open /\ History
  BY <1>5 DEF Open, OpenRx
<1>6. CASE Buffer /\ History
  BY <1>6 DEF Buffer, SetRxBuffer
<1>7. CASE Waiting /\ History
  BY <1>7 DEF Waiting, SetTargetState, Returns
<1>8. CASE Collect /\ History
  BY <1>8 DEF Collect, Activate, EmptyBuffer
<1>9. CASE Process /\ History
  BY <1>9 DEF Process
<1>10. CASE Transmit /\ History
  BY <1>10 DEF Transmit, StartTransmit
<1>11. CASE Sending /\ History
  BY <1>11 DEF Sending, SetTargetState, Returns, TimedInv
<1>12. CASE Reset /\ History
  BY <1>12 DEF Reset, EmptyBuffer
<1>13. CASE Deadline /\ History
  BY <1>13 DEF Deadline, Overdue
<1>14. CASE OnRx
  BY <1>14 DEF OnRx, RxIrq, RestartTimer
<1>15. CASE OnTx
  BY <1>15 DEF OnTx, TxIrq, TxDone
<1>16. CASE OnTimer
  BY <1>16 DEF OnTimer, TimerIrq
<1>17. CASE Drain
  BY <1>17 DEF Drain, TxDrain
<1>18. CASE TimerAge
  BY <1>18 DEF TimerAge, Age, Slow, Idling
<1>19. CASE TimerExpire
  BY <1>19 DEF TimerExpire, Expire, Slow, Idling
<1>20. CASE CommandLate
  BY <1>20 DEF CommandLate, Idling
<1>21. ASSUME NEW b \in Bytes, HostByte(b) PROVE LinkInv'
  BY <1>21 DEF HostByte, Arrive
<1>22. CASE UNCHANGED vars
  BY <1>22 DEF vars
<1>. QED BY <1>1, <1>2, <1>3, <1>4, <1>5, <1>6, <1>7, <1>8, <1>9, <1>10, <1>11, <1>12, <1>13, <1>14, <1>15, <1>16, <1>17, <1>18, <1>19, <1>20, <1>21, <1>22 DEF Next, Main, Irq, Hardware

\* LinkInv holds throughout; whatever the order of bytes, interrupts and calls,
\* a main loop that waits with its receiver closed will open it, or the idle
\* timer closed it between Start_Receive and the assignment of WAITING.
THEOREM OneWayToGoDeaf == Spec => []LinkAlive
<1>1. Init => TimedInv /\ LinkInv
  BY DEF Init, TargetInit, TimedInv, PartialIsTimed, LinkInv, FlagSilent,
         EarlierResponse, NewResponse, UntakenByte, ClosedReceiver, ActiveSteps, Receiving, Wakeable
<1>2. TypeOK /\ TimedInv /\ LinkInv /\ [Next]_vars => TimedInv' /\ LinkInv'
  BY TimedStep, LinkStep
<1>3. LinkInv => LinkAlive
  BY DEF LinkInv, ClosedReceiver, LinkAlive, AlwaysHears
<1>. QED BY <1>1, <1>2, <1>3, TypeCorrect, PTL DEF Spec
-----------------------------------------------------------------------------
(* The session of a patient host                                           *)

\* Every step of a session is one of the console, so what is proved of the
\* console holds of a session.
LEMMA SessionStep == [SessionNext]_sessionVars => [Next]_vars
<1> SUFFICES ASSUME [SessionNext]_sessionVars PROVE [Next]_vars
  OBVIOUS
<1>1. CASE SendChar \/ SendEnd
  BY <1>1 DEF SendChar, SendEnd, Next, Bytes
<1>2. CASE SessionMain \/ SessionIrq
  BY <1>2 DEF SessionMain, SessionIrq, Next
<1>3. CASE SessionTime
  BY <1>3 DEF SessionTime, Next, Hardware
<1>4. CASE UNCHANGED sessionVars
  BY <1>4 DEF sessionVars
<1>. QED BY <1>1, <1>2, <1>3, <1>4 DEF SessionNext

LEMMA SessionIsConsole == SessionSpec => []TypeOK /\ []TimedInv
<1>1. SessionInit => Init
  BY DEF SessionInit
<1>2. Init => TimedInv
  BY DEF Init, TimedInv, PartialIsTimed
<1>3. SessionSpec => Spec
  BY <1>1, SessionStep, PTL DEF SessionSpec, Spec
<1>. QED BY <1>2, <1>3, TypeCorrect, TimedStep, PTL DEF Spec

-----------------------------------------------------------------------------
(* The invariant                                                           *)

\* A byte on its way finds the board ready, and ends the line or not.
Flight ==
  IF rxFlag
  THEN /\ pc = "poll" /\ rxState = "UART_BUSY" /\ state = "WAITING"
       /\ txState = "UART_IDLE" /\ ~timerFlag
       /\ \E b \in Bytes : rxFifo = <<b>> /\ (b = EOL <=> line = <<>>)
  ELSE rxFifo = <<>>

\* The driver knows the buffer whenever a byte can come.
BufferKnown == rxState = "UART_BUSY" /\ pc # "buffer" => rxBuffer

\* The idle timer does not interrupt a line.
NoTimerInLine == line # <<>> => ~timerFlag

Called     == pc \in {"arm", "flush", "open", "buffer", "waiting"}
Collecting == (Called /\ ret = "collect") \/ pc = "collect"

\* Between two lines, what the main loop may take again is a line end.
LineEnds ==
  line = <<>> =>
    /\ ~rxFlag => rxByte = EOL
    /\ Collecting => byte = EOL

\* A whole command in the buffer has its line end on the way, or is run.
CommandDue ==
  cmd # <<>> /\ line = <<>> =>
    \/ rxFlag \/ (pc = "poll" /\ state = "RECEIVED")
    \/ pc = "take" \/ Collecting
    \/ pc \in {"process", "transmit", "sending", "reset"}

\* No command is overdue.
LateEmpty == late => cmd = <<>>

\* While a response is being sent there is no other command, and no byte that
\* could make one.
Responding ==
  txState = "UART_BUSY" =>
    /\ ~rxFlag /\ pc \notin {"process", "transmit"}
    /\ cmd = <<>> \/ pc \in {"sending", "reset"}
    /\ line # <<>> => /\ pc # "take" /\ ~Collecting
                      /\ state = "RECEIVED" => pc = "sending"

SessionInv ==
  /\ Flight /\ BufferKnown /\ NoTimerInLine /\ LineEnds
  /\ CommandDue /\ LateEmpty /\ Responding

\* A byte that arrives in an empty FIFO is alone in it.
LEMMA ArriveAlone ==
  ASSUME NEW b \in Bytes, Arrive(b), rxFifo = <<>>
  PROVE  rxFifo' = <<b>>
BY RxDepthAssumption DEF Arrive

LEMMA SessionInvInit == SessionInit => SessionInv
BY DEF SessionInit, Init, TargetInit, SessionInv, Flight, BufferKnown, NoTimerInLine, LineEnds,
       CommandDue, LateEmpty, Responding, Collecting, Called

LEMMA SessionInvStep ==
  ASSUME TypeOK, TimedInv, SessionInv, [SessionNext]_sessionVars
  PROVE  SessionInv'
<1> USE DEF SessionInv, Flight, BufferKnown, NoTimerInLine, LineEnds, CommandDue, LateEmpty,
            Responding, Collecting, Called, TypeOK, TargetTypeOK, DriverStates, TargetStates, At,
            IrqPending, rxVars, txVars, timerVars, targetVars, consoleVars, hostVars
<1>1. CASE Poll /\ UNCHANGED <<line, written>>
  BY <1>1 DEF Poll, Overdue
<1>2. CASE Take /\ UNCHANGED <<line, written>>
  BY <1>2 DEF Take
<1>3. CASE Arm /\ UNCHANGED <<line, written>>
  BY <1>3 DEF Arm
<1>4. CASE Flush /\ UNCHANGED <<line, written>>
  BY <1>4 DEF Flush, FlushRx
<1>5. CASE Open /\ UNCHANGED <<line, written>>
  BY <1>5 DEF Open, OpenRx
<1>6. CASE Buffer /\ UNCHANGED <<line, written>>
  BY <1>6 DEF Buffer, SetRxBuffer
<1>7. CASE Waiting /\ UNCHANGED <<line, written>>
  BY <1>7 DEF Waiting, SetTargetState, Returns
<1>8. CASE Collect /\ UNCHANGED <<line, written>>
  BY <1>8 DEF Collect, Activate, EmptyBuffer
<1>9. CASE Process /\ UNCHANGED <<line, written>>
  BY <1>9 DEF Process
<1>10. CASE Transmit /\ UNCHANGED <<line, written>>
  BY <1>10 DEF Transmit, StartTransmit
<1>11. CASE Sending /\ UNCHANGED <<line, written>>
  BY <1>11 DEF Sending, SetTargetState, Returns, TimedInv
<1>12. CASE Reset /\ UNCHANGED <<line, written>>
  BY <1>12 DEF Reset, EmptyBuffer
<1>13. CASE Deadline /\ UNCHANGED <<line, written>>
  BY <1>13 DEF Deadline, Overdue
<1>14. CASE OnRx /\ UNCHANGED hostVars
  <2>1. PICK b \in Bytes : rxFifo = <<b>> /\ (b = EOL <=> line = <<>>)
    BY <1>14 DEF OnRx, RxIrq
  <2>2. Head(rxFifo) = b /\ Tail(rxFifo) = <<>> /\ rxFifo # <<>>
    BY <2>1
  <2>3. pc = "poll" /\ rxState = "UART_BUSY" /\ rxBuffer /\ txState = "UART_IDLE"
    BY <1>14 DEF OnRx, RxIrq
  <2>4. /\ rxFlag' = FALSE /\ rxFifo' = <<>> /\ rxByte' = b
        /\ rxState' = "UART_IDLE" /\ state' = "RECEIVED"
        /\ UNCHANGED <<rxBuffer, timerFlag, txVars, consoleVars, hostVars>>
    BY <1>14, <2>2, <2>3 DEF OnRx, RxIrq
  <2>. QED BY <2>1, <2>3, <2>4
<1>15. CASE OnTx /\ UNCHANGED hostVars
  BY <1>15 DEF OnTx, TxIrq, TxDone
<1>16. CASE OnTimer /\ UNCHANGED hostVars
  BY <1>16 DEF OnTimer, TimerIrq
<1>17. CASE SessionTime
  <2>1. CASE Drain
    BY <1>17, <2>1 DEF SessionTime, Drain, TxDrain
  <2>2. CASE TimerAge
    BY <1>17, <2>2 DEF SessionTime, TimerAge, Age
  <2>3. CASE line = <<>> /\ ~rxFlag /\ TimerExpire
    BY <1>17, <2>3 DEF SessionTime, TimerExpire, Expire
  <2>4. CASE line = <<>> /\ ~rxFlag /\ CommandLate
    BY <1>17, <2>4 DEF SessionTime, CommandLate, Idling
  <2>. QED BY <1>17, <2>1, <2>2, <2>3, <2>4 DEF SessionTime
<1>18. CASE SendChar
  <2>1. PICK c \in Chars : HostByte(c) /\ line' = Append(line, c)
    BY <1>18 DEF SendChar
  <2>2. c \in Bytes /\ c # EOL /\ line' # <<>>
    BY <2>1, EOLAssumption DEF Bytes
  <2>. QED BY <1>18, <2>1, <2>2, ArriveAlone DEF SendChar, HostByte, Arrive, Ready
<1>19. CASE SendEnd
  <2>1. EOL \in Bytes /\ HostByte(EOL) /\ line' = <<>> /\ Ready
    BY <1>19 DEF SendEnd, Bytes
  <2>. QED BY <2>1, ArriveAlone DEF HostByte, Arrive, Ready
<1>20. CASE UNCHANGED sessionVars
  BY <1>20 DEF sessionVars, vars
<1>. QED BY <1>1, <1>2, <1>3, <1>4, <1>5, <1>6, <1>7, <1>8, <1>9, <1>10, <1>11, <1>12, <1>13,
            <1>14, <1>15, <1>16, <1>17, <1>18, <1>19, <1>20
         DEF SessionNext, SessionMain, SessionIrq, Main, Irq

\* No command runs while the response to another is still being sent, whatever
\* the idle timer does.
THEOREM ResponseNeverDisturbed == SessionSpec => []ResponseUndisturbed
<1>1. SessionInv => ResponseUndisturbed
  BY DEF SessionInv, Responding, ResponseUndisturbed
<1>. QED BY <1>1, SessionInvInit, SessionIsConsole, SessionInvStep, PTL DEF SessionSpec
-----------------------------------------------------------------------------
(* Lines and commands                                                      *)

\* A byte of the line is still to be added to the command, and which it is.
OnTheWay == rxFlag \/ (pc = "poll" /\ state = "RECEIVED") \/ pc = "take" \/ Collecting
Coming   == IF rxFlag THEN Head(rxFifo) ELSE IF pc \in {"poll", "take"} THEN rxByte ELSE byte

LinesOK ==
  /\ line \in Seq(Chars) /\ Len(line) < MaxCmdLen
  /\ written \in Seq(Seq(Chars)) /\ executed \in Seq(Seq(Chars))

\* Inside a line, the command and the byte on its way are the line so far, and
\* everything before it has been run.
InLine ==
  line # <<>> =>
    /\ txState = "UART_IDLE" /\ pc \notin {"process", "transmit", "sending", "reset"}
    /\ pc \in {"collect", "deadline"} => state # "RECEIVED"
    /\ line = IF OnTheWay THEN Append(cmd, Coming) ELSE cmd
    /\ written = executed

\* Between two lines, the command is the last line, until it is run.
BetweenLines ==
  line = <<>> =>
    written = IF cmd = <<>> \/ pc \in {"process", "transmit", "sending", "reset"}
              THEN executed ELSE Append(executed, cmd)

\* UART_Target_Receive is called in two places.
Receives == Called => ret # "reset"

LinesInv == LinesOK /\ InLine /\ BetweenLines /\ Receives

LEMMA AppendEnds ==
  ASSUME NEW S, NEW s \in Seq(S), NEW e
  PROVE  /\ Len(Append(s, e)) = Len(s) + 1 /\ Append(s, e)[Len(s) + 1] = e
         /\ \A T : Append(s, e) \in Seq(T) => e \in T
OBVIOUS

LEMMA LinesStep ==
  ASSUME TypeOK, TimedInv, SessionInv, LinesInv, [SessionNext]_sessionVars
  PROVE  LinesInv' /\ [Channel!ChannelNext]_(Channel!chanVars)
<1> DEFINE Same == UNCHANGED <<line, written, executed>>
<1> USE DEF SessionInv, Flight, LineEnds, CommandDue, LateEmpty, LinesInv, InLine, BetweenLines, Receives,
            OnTheWay, Coming, Collecting, Called, TypeOK, TargetTypeOK, DriverStates, TargetStates,
            At, IrqPending, rxVars, txVars, timerVars, targetVars, consoleVars, hostVars
<1>1. Same => LinesOK' /\ UNCHANGED Channel!chanVars
  BY DEF LinesOK, Channel!chanVars
<1>2. CASE Poll /\ Same
  BY <1>1, <1>2 DEF Poll, Overdue
<1>3. CASE Take /\ Same
  BY <1>1, <1>3 DEF Take
<1>4. CASE Arm /\ Same
  BY <1>1, <1>4 DEF Arm
<1>5. CASE Flush /\ Same
  BY <1>1, <1>5 DEF Flush, FlushRx
<1>6. CASE Open /\ Same
  BY <1>1, <1>6 DEF Open, OpenRx
<1>7. CASE Buffer /\ Same
  BY <1>1, <1>7 DEF Buffer, SetRxBuffer
<1>8. CASE Waiting /\ Same
  BY <1>1, <1>8 DEF Waiting, SetTargetState, Returns
<1>9. CASE Process /\ Same
  BY <1>1, <1>9 DEF Process
<1>10. CASE Transmit /\ Same
  BY <1>1, <1>10 DEF Transmit, StartTransmit
<1>11. CASE Sending /\ Same
  BY <1>1, <1>11 DEF Sending, SetTargetState, Returns, TimedInv
<1>12. CASE Reset /\ Same
  BY <1>1, <1>12 DEF Reset, EmptyBuffer
<1>13. CASE OnTx /\ Same
  BY <1>1, <1>13 DEF OnTx, TxIrq, TxDone
<1>14. CASE OnTimer /\ Same
  BY <1>1, <1>14 DEF OnTimer, TimerIrq, NoTimerInLine
<1>15. CASE UNCHANGED sessionVars
  BY <1>1, <1>15 DEF sessionVars, vars
<1>16. CASE Collect /\ SessionMain
  <2>1. /\ cmd \in Seq(Chars) /\ byte \in Bytes /\ UNCHANGED <<line, written, targetVars>>
        /\ pc = "collect" /\ ~rxFlag
    BY <1>16 DEF Collect, SessionMain
  <2>2. CASE line # <<>>
    <3>1. line = Append(cmd, byte) /\ state # "RECEIVED" /\ written = executed
      BY <2>1, <2>2
    <3>2. byte \in Chars /\ Len(line) = Len(cmd) + 1
      BY <2>1, <3>1, AppendEnds DEF LinesOK
    <3>3. byte # EOL /\ Room
      BY <3>2, EOLAssumption, MaxCmdLenAssumption, <2>1 DEF LinesOK, Room
    <3>4. cmd' = Append(cmd, byte) /\ pc' = "deadline" /\ Same
      BY <1>16, <2>1, <3>3 DEF Collect, SessionMain
    <3>. QED BY <1>1, <2>1, <2>2, <3>1, <3>4
  <2>3. CASE line = <<>> /\ cmd = <<>>
    <3>1. byte = EOL /\ pc' = "deadline" /\ cmd' = cmd /\ Same
      BY <1>16, <2>1, <2>3 DEF Collect, SessionMain
    <3>. QED BY <1>1, <2>1, <2>3, <3>1
  <2>4. CASE line = <<>> /\ cmd # <<>>
    <3>1. byte = EOL /\ written = Append(executed, cmd)
      BY <2>1, <2>4
    <3>2. pc' = "process" /\ cmd' = cmd /\ executed' = Append(executed, cmd)
      BY <1>16, <2>1, <2>4, <3>1 DEF Collect, SessionMain
    <3>3. executed \in Seq(Seq(Chars)) /\ executed' \in Seq(Seq(Chars))
      BY <2>1, <3>2 DEF LinesOK
    <3>4. Channel!Execute
      BY <2>1, <3>1, <3>2, <3>3, AppendEnds DEF Channel!Execute
    <3>5. LinesOK'
      BY <2>1, <3>3 DEF LinesOK
    <3>. QED BY <2>1, <2>4, <3>1, <3>2, <3>4, <3>5 DEF Channel!ChannelNext
  <2>. QED BY <2>2, <2>3, <2>4
<1>17. CASE Deadline /\ SessionMain
  <2>1. cmd # <<>> => ~late
    OBVIOUS
  <2>2. pc' \in {"reset", "poll"} /\ Same
    BY <1>17, <2>1 DEF Deadline, SessionMain, Overdue
  <2>3. pc' = "reset" => cmd = <<>>
    BY <1>17, <2>1 DEF Deadline, Overdue
  <2>. QED BY <1>1, <1>17, <2>2, <2>3 DEF Deadline
<1>18. CASE OnRx /\ Same
  <2>1. PICK b \in Bytes : rxFifo = <<b>> /\ (b = EOL <=> line = <<>>)
    BY <1>18 DEF OnRx, RxIrq
  <2>2. Head(rxFifo) = b /\ Tail(rxFifo) = <<>> /\ rxFifo # <<>>
    BY <2>1
  <2>3. rxFlag /\ pc = "poll" /\ rxState = "UART_BUSY" /\ rxBuffer
    BY <1>18 DEF OnRx, RxIrq, BufferKnown
  <2>4. /\ rxFlag' = FALSE /\ rxByte' = b /\ state' = "RECEIVED"
        /\ UNCHANGED <<rxBuffer, timerFlag, txVars, consoleVars>>
    BY <1>18, <2>2, <2>3 DEF OnRx, RxIrq
  <2>. QED BY <1>1, <1>18, <2>1, <2>2, <2>3, <2>4
<1>19. CASE SessionTime
  <2>1. Same /\ UNCHANGED <<pc, ret, byte, cmd, state, rxFlag, rxFifo, rxByte, txState>>
    BY <1>19 DEF SessionTime, Drain, TxDrain, TimerAge, Age, TimerExpire, Expire, CommandLate
  <2>. QED BY <1>1, <2>1
<1>20. CASE SendChar
  <2>1. PICK c \in Chars : HostByte(c) /\ line' = Append(line, c)
    BY <1>20 DEF SendChar
  <2>2. /\ pc = "poll" /\ state = "WAITING" /\ ~rxFlag /\ rxFifo = <<>> /\ txState = "UART_IDLE"
        /\ Len(line) < MaxCmdLen - 1 /\ UNCHANGED <<written, executed>>
    BY <1>20 DEF SendChar, Ready
  <2>3. /\ rxFlag' = TRUE /\ UNCHANGED <<pc, ret, byte, cmd, state, txState>>
    BY <2>1 DEF HostByte, Arrive
  <2>4. Head(rxFifo') = c
    BY <2>1, <2>2, ArriveAlone DEF HostByte, Bytes
  <2>5. cmd = line /\ written = executed
    BY <2>2
  <2>6. line' \in Seq(Chars) /\ Len(line') < MaxCmdLen /\ line' # <<>>
    <3>1. line \in Seq(Chars) /\ c \in Chars /\ Len(line) < MaxCmdLen - 1 /\ MaxCmdLen \in Nat
      BY <2>1, <2>2, MaxCmdLenAssumption DEF LinesOK
    <3>2. Append(line, c) \in Seq(Chars) /\ Len(Append(line, c)) = Len(line) + 1
      BY <3>1, AppendEnds
    <3>3. line' # <<>>
      BY <2>1
    <3>. QED BY <2>1, <3>1, <3>2, <3>3
  <2>7. LinesOK'
    BY <2>2, <2>6 DEF LinesOK
  <2>. QED BY <2>1, <2>2, <2>3, <2>4, <2>5, <2>6, <2>7 DEF Channel!chanVars
<1>21. CASE SendEnd
  <2>1. /\ pc = "poll" /\ state = "WAITING" /\ ~rxFlag /\ line' = <<>>
        /\ written' = IF line = <<>> THEN written ELSE Append(written, line)
        /\ UNCHANGED executed
    BY <1>21 DEF SendEnd, Ready
  <2>2. UNCHANGED <<pc, ret, cmd, state>>
    BY <1>21 DEF SendEnd, HostByte, Arrive
  <2>3. cmd = line /\ written = executed
    BY <2>1
  <2>4. LinesOK'
    BY <2>1, MaxCmdLenAssumption DEF LinesOK
  <2>5. line # <<>> => line \in Lines
    <3>1. line \in Seq(Chars) /\ Len(line) <= MaxCmdLen - 1 /\ MaxCmdLen \in Nat
      BY MaxCmdLenAssumption DEF LinesOK
    <3>. QED BY <3>1 DEF Lines
  <2>6. [Channel!ChannelNext]_(Channel!chanVars)
    BY <2>1, <2>5 DEF Channel!ChannelNext, Channel!Write, Channel!chanVars
  <2>. QED BY <2>1, <2>2, <2>3, <2>4, <2>6
<1>22. CASE SessionIrq
  BY <1>13, <1>14, <1>18, <1>22 DEF SessionIrq, Irq
<1>23. CASE SessionMain
  <2>1. CASE Collect \/ Deadline
    BY <1>16, <1>17, <1>23, <2>1
  <2>2. CASE ~(Collect \/ Deadline)
    <3>1. pc' = "process" => pc = "process"
      BY <1>23, <2>2 DEF SessionMain, Main, Poll, Take, Arm, Flush, Open, Buffer, Waiting, Process,
                         Transmit, Sending, Reset, TimedInv, Returns
    <3>2. Same
      BY <1>23, <3>1 DEF SessionMain
    <3>. QED BY <1>2, <1>3, <1>4, <1>5, <1>6, <1>7, <1>8, <1>9, <1>10, <1>11, <1>12, <1>23, <2>2, <3>2
             DEF SessionMain, Main
  <2>. QED BY <2>1, <2>2
<1>. QED BY <1>15, <1>19, <1>20, <1>21, <1>22, <1>23 DEF SessionNext

\* Whatever the idle timer does, a session is one of the command channel: the
\* lines of a patient host are executed at most once each, in order, unaltered,
\* and nothing else is.  (That each is executed is for the model checker.)
THEOREM SessionKeepsChannel == SessionSpec => Channel!ChannelInit /\ [][Channel!ChannelNext]_(Channel!chanVars)
<1>1. SessionInit => SessionInv /\ LinesInv /\ Channel!ChannelInit
  <2>1. SessionInit => SessionInv
    BY SessionInvInit
  <2>. QED BY <2>1, MaxCmdLenAssumption
       DEF SessionInit, Init, TargetInit, LinesInv, LinesOK, InLine, BetweenLines, Receives, Called,
           Channel!ChannelInit
<1>. QED BY <1>1, SessionIsConsole, SessionInvStep, LinesStep, PTL DEF SessionSpec
=============================================================================
