----------------------------- MODULE UsbConsole -----------------------------
(***************************************************************************)
(* The command console of the board: the endless loop of main (empty.c)    *)
(* around usb_fsm (usb.c), over the interrupt-driven link of UartTarget.   *)
(* The main loop is one process with a program counter; an interrupt may   *)
(* come between any two of its steps, and the host may send any byte at    *)
(* any time.                                                               *)
(***************************************************************************)
EXTENDS UartTarget

CONSTANT MaxCmdLen   \* MAX_CMD_LEN, the size of cmd_buffer

ASSUME MaxCmdLenAssumption == MaxCmdLen \in Nat /\ MaxCmdLen >= 2

VARIABLES
  pc,         \* where the main loop is
  ret,        \* where the call of UART_Target_Receive or _Transmit returns to
  byte,       \* the local variable byte of usb_fsm
  cmd,        \* cmd_buffer[0 .. cmd_index - 1]
  active,     \* command_active
  late,       \* has cmd_start_time been USB_CMD_TIMEOUT_US or more ago?
  wakeLost    \* history: did the idle timer last close the receiver while
              \* UART_Target_Receive, having opened it, was about to set WAITING?

consoleVars == <<pc, ret, byte, cmd, active, late>>
vars == <<targetVars, consoleVars, wakeLost>>

\* The steps of the loop: poll reads the state, take reads the byte; arm to
\* waiting are UART_Target_Receive; collect adds the byte to the command;
\* process runs a command; transmit and sending are UART_Target_Transmit; reset
\* empties the buffer and deadline is the command timeout.
Steps == {"poll", "take", "arm", "flush", "open", "buffer", "waiting", "collect",
          "process", "transmit", "sending", "reset", "deadline"}
Returns == {"collect", "deadline", "reset"}

\* Where the main loop can spend a time that compares with the idle timer: going
\* round with nothing to do, and running a command (conversions, bus transfers).
\* Everything else is a few dozen instructions.
Idling == pc = "poll" /\ state \notin {"IDLE", "RECEIVED"}
Slow   == Idling \/ pc = "process"

TypeOK ==
  /\ TargetTypeOK
  /\ pc \in Steps /\ ret \in Returns
  /\ byte \in Bytes
  /\ cmd \in Seq(Chars) /\ Len(cmd) <= MaxCmdLen - 1
  /\ active \in BOOLEAN /\ late \in BOOLEAN /\ wakeLost \in BOOLEAN

Init ==
  /\ TargetInit
  /\ pc = "poll" /\ ret = "deadline" /\ byte = EOL
  /\ cmd = <<>> /\ active = FALSE /\ late = FALSE /\ wakeLost = FALSE

-----------------------------------------------------------------------------
(* The main loop.  A pending interrupt preempts it.                        *)

At(step) == pc = step /\ ~IrqPending

\* A variant of Room that forgets the terminating zero.
RoomForOneMore == Len(cmd) <= MaxCmdLen - 1

\* Room in cmd_buffer for a byte and the terminating zero.
Room == Len(cmd) < MaxCmdLen - 1

\* A variant of Activate that restarts the time but not the command.
ActivateTimeOnly == UNCHANGED active /\ late' = FALSE

\* Every byte of a command makes it active and restarts its timeout.
Activate == active' = TRUE /\ late' = FALSE

\* A variant of EmptyBuffer that leaves cmd_index as it was.
EmptyBufferNot == UNCHANGED cmd /\ active' = FALSE

\* The command is over: cmd_index and command_active are reset.
EmptyBuffer == cmd' = <<>> /\ active' = FALSE

\* A variant of Overdue that forgets commands with bytes in the buffer.
OverdueEmpty == active /\ late /\ cmd = <<>>

\* The command timeout has run out.
Overdue == active /\ late

\* usb_fsm reads the state of the target and branches.  A pass that finds
\* nothing to do and no overdue command changes nothing and is not a step.
Poll ==
  /\ At("poll")
  /\ \/ state = "IDLE" /\ pc' = "arm" /\ ret' = "deadline"
     \/ state = "RECEIVED" /\ pc' = "take" /\ UNCHANGED ret
     \/ /\ state \in {"WAITING", "RECEIVING", "SENDING"}
        /\ Overdue
        /\ pc' = "deadline" /\ UNCHANGED ret
  /\ UNCHANGED <<byte, cmd, active, late, targetVars>>

\* It copies the received byte before it arms the next one.
Take ==
  /\ At("take")
  /\ byte' = rxByte
  /\ pc' = "arm" /\ ret' = "collect"
  /\ UNCHANGED <<cmd, active, late, targetVars>>

\* Start_Receive returns at once if the driver is still receiving.
Arm ==
  /\ At("arm")
  /\ pc' = IF rxState = "UART_BUSY" THEN "waiting" ELSE "flush"
  /\ UNCHANGED <<ret, byte, cmd, active, late, targetVars>>

Flush ==
  /\ At("flush") /\ FlushRx
  /\ pc' = "open"
  /\ UNCHANGED <<ret, byte, cmd, active, late>>

Open ==
  /\ At("open") /\ OpenRx
  /\ pc' = "buffer"
  /\ UNCHANGED <<ret, byte, cmd, active, late>>

Buffer ==
  /\ At("buffer") /\ SetRxBuffer
  /\ pc' = "waiting"
  /\ UNCHANGED <<ret, byte, cmd, active, late>>

Waiting ==
  /\ At("waiting") /\ SetTargetState("WAITING")
  /\ pc' = ret
  /\ UNCHANGED <<ret, byte, cmd, active, late>>

\* The byte restarts the command timeout; a line end starts the command unless
\* it is empty, a full buffer is dropped and answered, any other byte appended.
Collect ==
  /\ At("collect")
  /\ \/ byte = EOL /\ cmd = <<>>
        /\ Activate /\ pc' = "deadline" /\ UNCHANGED <<cmd, ret>>
     \/ byte = EOL /\ cmd # <<>>
        /\ Activate /\ pc' = "process" /\ UNCHANGED <<cmd, ret>>
     \/ byte # EOL /\ Room
        /\ cmd' = Append(cmd, byte)
        /\ Activate /\ pc' = "deadline" /\ UNCHANGED ret
     \/ byte # EOL /\ ~Room
        /\ EmptyBuffer /\ late' = FALSE
        /\ pc' = "transmit" /\ ret' = "deadline"
  /\ UNCHANGED <<byte, targetVars>>

\* process_usb_command takes any time; nearly every command answers, a TEST
\* command with an unknown subject does not.
Process ==
  /\ At("process")
  /\ \/ pc' = "transmit" /\ ret' = "reset"
     \/ pc' = "reset" /\ UNCHANGED ret
  /\ UNCHANGED <<byte, cmd, active, late, targetVars>>

Transmit ==
  /\ At("transmit") /\ StartTransmit
  /\ pc' = "sending"
  /\ UNCHANGED <<ret, byte, cmd, active, late>>

Sending ==
  /\ At("sending") /\ SetTargetState("SENDING")
  /\ pc' = ret
  /\ UNCHANGED <<ret, byte, cmd, active, late>>

Reset ==
  /\ At("reset")
  /\ EmptyBuffer
  /\ pc' = "poll"
  /\ UNCHANGED <<ret, byte, late, targetVars>>

\* The command timeout at the end of usb_fsm: a command that has waited for
\* longer than the limit is run as it is, and an empty one forgotten.
Deadline ==
  /\ At("deadline")
  /\ pc' = IF Overdue
           THEN IF cmd # <<>> THEN "process" ELSE "reset"
           ELSE "poll"
  /\ UNCHANGED <<ret, byte, cmd, active, late, targetVars>>

Main ==
  /\ \/ Poll \/ Take \/ Arm \/ Flush \/ Open \/ Buffer \/ Waiting \/ Collect
     \/ Process \/ Transmit \/ Sending \/ Reset \/ Deadline
  /\ wakeLost' = (wakeLost /\ pc # "open")

-----------------------------------------------------------------------------
(* Interrupts, hardware and time                                           *)

OnRx == RxIrq /\ UNCHANGED <<consoleVars, wakeLost>>
OnTx == TxIrq /\ UNCHANGED <<consoleVars, wakeLost>>

OnTimer ==
  /\ TimerIrq
  /\ wakeLost' = (pc \in {"buffer", "waiting"})
  /\ UNCHANGED consoleVars

Irq == OnRx \/ OnTx \/ OnTimer

HostByte(b) == Arrive(b) /\ UNCHANGED <<consoleVars, wakeLost>>

\* A response just accepted has filled the FIFO, and three of its bytes take
\* far longer than the assignment that follows Start_Transmit.
Drain ==
  /\ pc = "sending" => txLeft < TxLoads
  /\ TxDrain
  /\ UNCHANGED <<consoleVars, wakeLost>>

\* A counter grows old only where time passes; once old it may come to its end
\* between any two steps.
TimerAge    == Slow /\ Age /\ UNCHANGED <<consoleVars, wakeLost>>
TimerExpire == Expire /\ UNCHANGED <<consoleVars, wakeLost>>

\* One second has passed since the last byte of an unfinished command.
CommandLate ==
  /\ active /\ ~late /\ Idling
  /\ late' = TRUE
  /\ UNCHANGED <<pc, ret, byte, cmd, active, targetVars, wakeLost>>

Hardware == Drain \/ TimerAge \/ TimerExpire \/ CommandLate

Next == Main \/ Irq \/ Hardware \/ \E b \in Bytes : HostByte(b)

Spec == Init /\ [][Next]_vars

\* The processor runs every enabled interrupt, and the main loop gets its turn
\* between them (strong: each byte preempts it, for less than the time of a
\* byte); the UART shifts bytes out whatever the program does; an idle timer
\* that nobody restarts and a command that nobody continues come to their
\* limits (weak: a host that goes on sending keeps either from its limit).
\* Nothing is assumed of the host.
Fairness ==
  /\ SF_vars(Main)
  /\ WF_vars(OnRx) /\ WF_vars(OnTx) /\ WF_vars(OnTimer)
  /\ SF_vars(Drain)
  /\ WF_vars(TimerAge) /\ WF_vars(TimerExpire) /\ WF_vars(CommandLate)

FairSpec == Spec /\ Fairness

-----------------------------------------------------------------------------
(* Properties                                                              *)

\* Who can still wake the main loop when the receiver is closed: a byte that
\* waits to be taken, a response whose end will report IDLE, or the idle timer.
Wakeable ==
  \/ state \in {"IDLE", "RECEIVED"}
  \/ txState = "UART_BUSY"
  \/ timer # "off" \/ timerFlag

\* When the main loop waits with the receiver closed, something is under way
\* that makes it open the receiver again.  False (UART_Target.c:68-73): see
\* LinkAlive.
AlwaysHears == pc = "poll" /\ rxState = "UART_IDLE" => Wakeable

\* The link goes deaf in one way only.  Three handlers and two calls overwrite
\* state without looking at it (usb.c:109-144, UART_Target.c:23-80); whatever
\* their order, a closed receiver will be opened again, unless the idle timer
\* closed it between Start_Receive and the assignment of WAITING, which then
\* overwrites RECEIVED.
LinkAlive == AlwaysHears \/ wakeLost

\* A part of a command in the buffer is always under the command timeout, so it
\* cannot stay there and be joined to the next command (usb.c:150-267).
PartialIsTimed == cmd # <<>> /\ pc \notin {"process", "transmit", "sending", "reset"} => active

\* The board hears nothing until its next start: the wake-up is lost, and there
\* is no command whose timeout would answer and so wake it.
Deaf == wakeLost /\ ~active /\ pc = "poll"

\* The receiver is opened again and again, whatever the host sends and whenever
\* it pauses, unless the board has gone deaf; a lost wake-up with a command in
\* the buffer is made good by the command timeout (usb.c:109-144, 250-267 and
\* the idle timer of UART_Target.c).
Rearmed == []<>(rxState = "UART_BUSY" \/ Deaf)

\* Whatever is in the command buffer leaves it: by a line end, by the overflow
\* or by the command timeout (usb.c:165-267).
PartialFlushed == (cmd # <<>>) ~> (cmd = <<>>)

\* RECEIVED means that data was received: the byte the main loop takes came in
\* since it last opened the receiver (UART_Target.c:5-6, usb.c:135-138).
TakenByteIsNew == pc = "take" => tmpNumRx = 1
=============================================================================
