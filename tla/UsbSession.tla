----------------------------- MODULE UsbSession -----------------------------
(***************************************************************************)
(* The console of UsbConsole with a patient host, the one the firmware is  *)
(* written for: it sends the bytes of a line one after another, each once  *)
(* the board waits for it (the main loop takes a byte in less than the     *)
(* time of a byte), and starts a line only when the board has been quiet   *)
(* for longer than the idle timer.                                         *)
(***************************************************************************)
EXTENDS UsbConsole

CONSTANT MaxLines   \* bound: the number of lines the host completes

ASSUME MaxLinesAssumption == MaxLines \in Nat

VARIABLES
  line,       \* what the host has sent of the current line
  written,    \* history: the lines the host has completed
  executed    \* history: the commands process_usb_command was called with

hostVars    == <<line, written, executed>>
sessionVars == <<vars, hostVars>>

Lines == UNION {[1 .. n -> Chars] : n \in 1 .. MaxCmdLen - 1}

SessionInit == Init /\ line = <<>> /\ written = <<>> /\ executed = <<>>

\* The board waits for a byte and nothing else is going on.
Ready == /\ pc = "poll" /\ state = "WAITING" /\ rxState = "UART_BUSY"
         /\ ~IrqPending /\ txState = "UART_IDLE"

\* The host begins or continues a line that fits into the buffer ...
SendChar ==
  /\ Ready /\ (line = <<>> => timer = "off")
  /\ Len(line) < MaxCmdLen - 1 /\ Len(written) < MaxLines
  /\ \E c \in Chars : HostByte(c) /\ line' = Append(line, c)
  /\ UNCHANGED <<written, executed>>

\* ... and ends it, or sends an empty line.
SendEnd ==
  /\ Ready /\ (line = <<>> => timer = "off")
  /\ HostByte(EOL)
  /\ written' = IF line = <<>> THEN written ELSE Append(written, line)
  /\ line' = <<>>
  /\ UNCHANGED executed

\* The main loop, recording the command whenever it calls process_usb_command.
SessionMain ==
  /\ Main
  /\ executed' = IF pc # "process" /\ pc' = "process"
                 THEN Append(executed, cmd) ELSE executed
  /\ UNCHANGED <<line, written>>

SessionIrq == Irq /\ UNCHANGED hostVars

\* The host does not pause inside a line, so neither the idle timer nor the
\* command timeout comes to its limit there.
SessionTime ==
  /\ \/ Drain
     \/ TimerAge
     \/ line = <<>> /\ ~rxFlag /\ (TimerExpire \/ CommandLate)
  /\ UNCHANGED hostVars

SessionNext == SessionMain \/ SessionIrq \/ SessionTime \/ SendChar \/ SendEnd

SessionFairness ==
  /\ WF_sessionVars(SessionMain) /\ WF_sessionVars(SessionIrq)
  /\ WF_sessionVars(SessionTime)

SessionSpec == SessionInit /\ [][SessionNext]_sessionVars /\ SessionFairness

-----------------------------------------------------------------------------
(* Properties                                                              *)

Channel == INSTANCE CommandChannel WITH Commands <- Lines

\* A patient host's lines are executed exactly once each, in order, unaltered,
\* and all of them are: the console implements CommandChannel although the last
\* byte of every line is delivered a second time by the idle timer (usb.c:135-268,
\* UART_Target.c:44-48).
ImplementsChannel == Channel!ChannelSpec

\* A response is neither refused by Start_Transmit because the one before it is
\* still being sent, nor rewritten in tx_buffer by the next command while it is
\* (usb.c:221,306,328; measurement.c:280-283; UART_Interface.c:94-97).
ResponseUndisturbed == txState = "UART_BUSY" => pc \notin {"process", "transmit"}

\* The board always comes back to waiting for a byte with an open receiver and
\* nothing pending, the state in which the host may begin the next line, unless
\* the idle timer has made it deaf (usb.c:109-268, UART_Target.c:68-73).
ComesBack == []<>(Ready \/ Deaf)
=============================================================================
