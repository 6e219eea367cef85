---------------------------- MODULE ModbusServer ----------------------------
(***************************************************************************)
(* The Modbus server of the library: the request handlers of               *)
(* Modbus_Protocol.c, the state machine Modbus_RTU_FSM above a             *)
(* UART_Target (module UartTarget has its bytes), a master that retries,   *)
(* and the other stations of the line.                                     *)
(*                                                                         *)
(* A frame is one message: its bytes are told apart only into the whole    *)
(* frame and a part of one.  16-bit addresses count modulo Wrap.  An       *)
(* interrupt may come between any two steps of the state machine, also     *)
(* inside UART_Target_Receive and UART_Target_Transmit.                    *)
(***************************************************************************)
EXTENDS Naturals, Sequences

CONSTANTS
  Wrap,         \* 2^16
  NumRegs,      \* numHoldingRegs
  MaxQuantity,  \* 125, the most registers of one read
  Illegal,      \* illegalModbusAddresses
  Registered,   \* the addresses of holdingRegInfo
  ErrorReg,     \* errorRegAddr
  Starts,       \* register addresses of requests, besides 0
  Quantities,   \* quantities of requests
  Values,       \* register values of requests
  Datas,        \* the sequences of values that requests carry
  Requests,     \* the requests of the master, some of Sendable
  MaxNoise      \* bound: frames on the line that are not the master's

Own == "own"   \* modbusAddr; "all" is address 0, "group" is groupAddr

\* A frame leaves room in rx_data, fills it with its last byte, or is longer.
Frames ==
  [addr : {Own, "all", "group", "other"}, ok : BOOLEAN, fn : {"read", "single", "multiple", "unknown"},
   start : Starts \union {0}, qty : Quantities \union {0}, data : Datas,
   fill : {"short", "exact", "over"}]

\* Requests are without the fields that they do not have; only writes are sent
\* to many.
Sendable ==
  {f \in Frames :
     /\ f.ok /\ f.fill # "over" /\ f.addr # "other"
     /\ f.addr = Own \/ f.fn \in {"single", "multiple"}
     /\ CASE f.fn = "read"     -> f.data = <<>> /\ f.qty \in Quantities
          [] f.fn = "single"   -> Len(f.data) = 1 /\ f.qty = 0
          [] f.fn = "multiple" -> f.qty \in Quantities
          [] f.fn = "unknown"  -> f.data = <<>> /\ f.qty = 0 /\ f.start = 0}

ASSUME SizeAssumption == {Wrap, NumRegs, MaxQuantity, MaxNoise} \subseteq Nat /\ NumRegs < Wrap
ASSUME RegisterAssumption == Registered \subseteq 0 .. NumRegs - 1 /\ ErrorReg \in 0 .. NumRegs - 1
ASSUME RequestAssumption ==
  /\ Requests \subseteq Sendable
  /\ Starts \subseteq 0 .. Wrap - 1 /\ Quantities \subseteq 0 .. Wrap - 1
  /\ Values \subseteq Nat \ {0} /\ Datas \subseteq Seq(Values) /\ <<>> \in Datas

VARIABLES
  regs,      \* holdingRegisters, with the word behind it in memory
  got,       \* the frame in rx_data
  state,     \* UART_Target.state
  pending,   \* the state that a call under way of UART_Target_Receive or
             \* _Transmit is still to set, or "none"
  rx,        \* the driver: "closed" (rxState idle), "empty" (tmpNumRx = 0) or "some"
  timer,     \* the idle timer runs
  line,      \* the frame on its way to the server, or NoFrame
  heard,     \* what of it is for rx_data: "none", "whole", the "tail", or all of
             \* it "joined" to what came before
  tx,        \* the response on its way to the master, or NoResponse
  asked,     \* the request that the master waits for an answer to, or NoFrame
  answer,    \* the last answer, until the master sends again
  noise,     \* frames of others so far
  wakeLost   \* history: did the idle timer last close the receiver inside
             \* UART_Target_Receive?

linkVars   == <<state, pending, rx, timer, wakeLost>>
lineVars   == <<line, heard>>
masterVars == <<asked, answer>>
vars == <<regs, got, linkVars, lineVars, tx, masterVars, noise>>

\* What a buffer that holds no whole frame is read as: its CRC is wrong.  A
\* zeroed rx_data bears the address 0.
NoFrame == [addr |-> "all", ok |-> FALSE, fn |-> "unknown",
            start |-> 0, qty |-> 0, data |-> <<>>, fill |-> "short"]

\* The rest of a frame that has filled rx_data.
Rest == [NoFrame EXCEPT !.addr = "other"]

\* to is history: the request that is answered; ok says that the bytes in
\* tx_data are still those that were computed.
Response(f, code, data) == [to |-> f, code |-> code, data |-> data, ok |-> TRUE]
NoResponse == Response(NoFrame, 0, <<>>)

ErrorCodes == 1 .. 4   \* MB_ILLEGAL_FUNCTION .. MB_SLAVE_DEVICE_FAILURE

Cells == Values \union {0} \union ErrorCodes

IsResponse(r) ==
  /\ r.to \in Frames /\ r.code \in ErrorCodes \union {0} /\ r.data \in Seq(Cells)
  /\ Len(r.data) <= MaxQuantity /\ r.ok \in BOOLEAN

TypeOK ==
  /\ regs \in [0 .. NumRegs -> Cells]
  /\ {got, line, asked} \subseteq Frames
  /\ state \in {"IDLE", "WAITING", "RECEIVING", "RECEIVED", "SENDING"}
  /\ pending \in {"none", "WAITING", "SENDING"} /\ rx \in {"closed", "empty", "some"}
  /\ heard \in {"none", "whole", "tail", "joined"}
  /\ {timer, wakeLost} \subseteq BOOLEAN /\ noise \in 0 .. MaxNoise
  /\ IsResponse(tx) /\ IsResponse(answer)

Init ==
  /\ regs = [a \in 0 .. NumRegs |-> 0]
  /\ got = NoFrame /\ state = "IDLE" /\ pending = "none" /\ rx = "closed"
  /\ timer = FALSE /\ wakeLost = FALSE
  /\ line = NoFrame /\ heard = "none" /\ tx = NoResponse
  /\ asked = NoFrame /\ answer = NoResponse /\ noise = 0

-----------------------------------------------------------------------------
(* Modbus_Protocol.c: what a request does to the registers and what is     *)
(* answered.  An outcome is a pair of both.                                *)

Outcome(r, code, data) == [regs |-> r, code |-> code, data |-> data]
Refuse(code) == {Outcome(regs, code, <<>>)}

\* The action function of the application, for the first address only: it may
\* refuse, and an address nobody has registered is refused.
ActionResults(addr) == IF addr \in Registered THEN {0, 4} ELSE {2}

\* A failed action leaves its code in the error register.
Acted(addr, r, data) ==
  {IF e = 0 THEN Outcome(r, 0, data) ELSE Outcome([r EXCEPT ![ErrorReg] = e], 4, <<>>) :
     e \in ActionResults(addr)}

\* illegalModbusAddress
IllegalAddress(a) == a # 0 /\ a \in Illegal

\* start_address + register_len, in 16 bits
EndAddress(f) == (f.start + f.qty) % Wrap

\* The registers of the loop from start_address to end_address.
Span(f) == {a \in 0 .. NumRegs : f.start <= a /\ a < EndAddress(f)}

\* Only the first address is looked up among the illegal ones.
OutOfTable(f) == EndAddress(f) > NumRegs \/ IllegalAddress(f.start)

\* A variant of Readable that takes any quantity.
ReadableAny(f) == TRUE

Readable(f) == f.qty \in 1 .. MaxQuantity

readHoldingRegisters(f) ==
  IF ~Readable(f) THEN Refuse(3)
  ELSE IF OutOfTable(f) THEN Refuse(2)
  ELSE Acted(f.start, regs, [i \in 1 .. (IF EndAddress(f) > f.start THEN f.qty ELSE 0) |->
                               regs[f.start + i - 1]])

\* The bound admits the address behind the table.
writeSingleRegister(f) ==
  IF f.start > NumRegs \/ IllegalAddress(f.start) THEN Refuse(2)
  ELSE Acted(f.start, [regs EXCEPT ![f.start] = f.data[1]], <<>>)

\* The registers of the span that the frame bears no value for: the byte count
\* is not looked at, and the loop reads on behind the frame.
Unsent(f) == {a \in Span(f) : a - f.start >= Len(f.data)}

\* A variant of Stored that does not advance data_index.
StoredFirst(f, stray) ==
  [a \in 0 .. NumRegs |->
     IF a \in Unsent(f) THEN stray[a] ELSE IF a \in Span(f) THEN f.data[1] ELSE regs[a]]

Stored(f, stray) ==
  [a \in 0 .. NumRegs |->
     IF a \in Unsent(f) THEN stray[a]
     ELSE IF a \in Span(f) THEN f.data[a - f.start + 1] ELSE regs[a]]

\* The check of the quantity never refuses: it is and-ed bit by bit with an
\* assigned multiple of four.
writeMultipleRegister(f) ==
  IF OutOfTable(f) THEN Refuse(2)
  ELSE UNION {Acted(f.start, Stored(f, stray), <<>>) : stray \in [Unsent(f) -> Values \union {0}]}

processModbusRequest(f) ==
  CASE f.fn = "read"     -> readHoldingRegisters(f)
    [] f.fn = "single"   -> writeSingleRegister(f)
    [] f.fn = "multiple" -> writeMultipleRegister(f)
    [] f.fn = "unknown"  -> Refuse(1)

\* A variant of RequestOk that does not check the CRC.
RequestOkAny(f) == f.addr \in {Own, "all", "group"}

\* modbusRequestAdu
RequestOk(f) == f.addr \in {Own, "all", "group"} /\ f.ok

\* A variant of Replies that forgets the group address.
RepliesGroup(f) == f.addr # "all"

\* modbusHandler answers neither a broadcast nor the group.
Replies(f) == f.addr # "all" /\ f.addr # "group"

-----------------------------------------------------------------------------
(* Modbus_RTU_FSM                                                          *)

\* UART_Target_Receive calls Start_Receive, which refuses while the driver
\* receives; what is on the line is received from here on, into a buffer with
\* nothing in it.
Open ==
  /\ pending = "none" /\ state = "IDLE"
  /\ IF rx = "closed"
     THEN /\ rx' = "empty" /\ got' = NoFrame
          /\ heard' = IF line = NoFrame THEN "none" ELSE "tail"
     ELSE UNCHANGED <<rx, got, heard>>
  /\ pending' = "WAITING" /\ wakeLost' = FALSE
  /\ UNCHANGED <<regs, state, timer, line, tx, masterVars, noise>>

\* It and UART_Target_Transmit end with the assignment of the state, whatever an
\* interrupt has set it to meanwhile.
Assign ==
  /\ pending # "none"
  /\ state' = pending /\ pending' = "none"
  /\ UNCHANGED <<regs, got, rx, timer, wakeLost, lineVars, tx, masterVars, noise>>

\* UART_Target_Transmit calls Start_Transmit; the driver refuses while it still
\* sends.
Respond(f, o) ==
  /\ tx' = IF tx = NoResponse THEN Response(f, o.code, o.data) ELSE tx
  /\ pending' = "SENDING" /\ UNCHANGED state

\* A variant of Release that stays in RECEIVED.
ReleaseNot(sent) == tx' = sent /\ UNCHANGED <<pending, state>>

\* UART_Target_setState: nothing is to be sent.  What is still to be sent of the
\* response before is what is left in tx_data.
Release(sent) == tx' = sent /\ state' = "IDLE" /\ UNCHANGED pending

\* tx_data is zeroed: what the driver has not fetched of a response is lost.
Zeroed ==
  IF tx = NoResponse THEN {tx}
  ELSE {tx, [Response(tx.to, tx.code, tx.data) EXCEPT !.ok = FALSE]}

Handle ==
  /\ pending = "none" /\ state = "RECEIVED"
  /\ IF RequestOk(got)
     THEN \E o \in processModbusRequest(got) :
            /\ regs' = o.regs
            /\ IF Replies(got) THEN Respond(got, o) ELSE \E sent \in Zeroed : Release(sent)
     ELSE UNCHANGED regs /\ \E sent \in Zeroed : Release(sent)
  /\ got' = NoFrame
  /\ UNCHANGED <<rx, timer, wakeLost, lineVars, masterVars, noise>>

FSM == Open \/ Assign \/ Handle

-----------------------------------------------------------------------------
(* The link and its interrupts                                             *)

\* targetRxInProgressCb restarts the timer; the driver has more to come.
InProgress == rx' = "some" /\ timer' = TRUE /\ state' = "RECEIVING"

\* The last byte of numRx: targetRxDoneCb; the idle timer goes on.
Full == rx' = "closed" /\ timer' = TRUE /\ state' = "RECEIVED"

\* A frame begins.  One that follows another without a pause is one with it,
\* and neither is whole.
Begin(f) ==
  /\ line = NoFrame
  /\ line' = f
  /\ heard' = CASE rx = "closed" -> "none" [] rx = "empty" -> "whole" [] rx = "some" -> "joined"
  /\ IF rx = "closed" THEN UNCHANGED <<rx, timer, state>> ELSE InProgress
  /\ UNCHANGED <<regs, pending, wakeLost, tx>>

\* The last byte; what has been received lies in rx_data.
EndFrame ==
  /\ line # NoFrame /\ ~(heard = "whole" /\ line.fill = "over")
  /\ line' = NoFrame /\ heard' = "none"
  /\ IF rx = "closed"
     THEN UNCHANGED <<got, rx, timer, state>>
     ELSE /\ got' = IF heard = "whole" THEN line ELSE NoFrame
          /\ IF heard = "whole" /\ line.fill = "exact" THEN Full ELSE InProgress
  /\ UNCHANGED <<regs, pending, wakeLost, tx, masterVars, noise>>

\* A frame that is too long, or joined to what came before, fills rx_data.
Fill ==
  /\ line # NoFrame /\ rx # "closed"
  /\ line.fill = "over" \/ heard = "joined"
  /\ Full
  /\ line' = Rest /\ heard' = "none" /\ got' = NoFrame
  /\ UNCHANGED <<regs, pending, wakeLost, tx, masterVars, noise>>

\* A variant of Stop that does not report the end.
StopSilent == rx' = "closed" /\ heard' = "none" /\ UNCHANGED state

\* Stop_Receive, and RECEIVED whatever the state is.
Stop == rx' = "closed" /\ heard' = "none" /\ state' = "RECEIVED"

\* timerCallback.  The bytes of a frame that is received restart the timer.
TimerIrq ==
  /\ timer /\ (line # NoFrame => rx # "some")
  /\ timer' = FALSE
  /\ Stop
  /\ wakeLost' = (pending = "WAITING")
  /\ UNCHANGED <<regs, got, pending, line, tx, masterVars, noise>>

\* targetTxDoneCb, whatever the state is; the master has its answer if it is as
\* it was computed.  A response just accepted is longer than the FIFO of the UART,
\* whose bytes take far longer than the assignment of SENDING.
TxDone ==
  /\ tx # NoResponse /\ pending # "SENDING"
  /\ tx' = NoResponse /\ state' = "IDLE"
  /\ IF tx.to = asked /\ tx.ok THEN asked' = NoFrame /\ answer' = tx ELSE UNCHANGED masterVars
  /\ UNCHANGED <<regs, got, pending, rx, timer, wakeLost, lineVars, noise>>

-----------------------------------------------------------------------------
(* The master and the other stations                                       *)

Ask(f) ==
  /\ asked = NoFrame /\ tx = NoResponse
  /\ Begin(f)
  /\ asked' = IF f.addr = Own THEN f ELSE NoFrame
  /\ answer' = NoResponse
  /\ UNCHANGED <<got, noise>>

\* The master's timeout is longer than the server needs: it gives up waiting
\* when the request was lost, or its answer.
Retry ==
  /\ asked # NoFrame
  /\ state = "WAITING" /\ pending = "none" /\ ~timer /\ tx = NoResponse
  /\ Begin(asked)
  /\ UNCHANGED <<got, masterVars, noise>>

Others ==
  {f \in Frames : f.addr \in {Own, "other"} /\ (f.ok => f.addr = "other")
                  /\ f.fn = "single" /\ f.start = 0 /\ f.qty = 0 /\ Len(f.data) = 1}

\* A frame for somebody else, or a garbled one, of any length.
Disturb ==
  /\ noise < MaxNoise /\ noise' = noise + 1
  /\ \E f \in Others : Begin(f)
  /\ UNCHANGED <<got, masterVars>>

Next ==
  \/ FSM \/ EndFrame \/ Fill \/ TimerIrq \/ TxDone
  \/ \E f \in Requests : Ask(f)
  \/ Retry \/ Disturb

\* The loop calls the state machine again and again, a frame ends, interrupts
\* are served, and the master repeats what was not answered.
Spec ==
  /\ Init /\ [][Next]_vars
  /\ WF_vars(FSM) /\ WF_vars(EndFrame \/ Fill) /\ WF_vars(TimerIrq) /\ WF_vars(TxDone) /\ WF_vars(Retry)

-----------------------------------------------------------------------------
(* Properties                                                              *)

\* An answer is true when the master has it: after a positive one the registers
\* that were written hold the values that the request bears for them, each its
\* own, or those that were read are what was told, except for a write whose
\* addresses wrap (ConfirmedWritten); after a failure of the application the
\* error register tells of it.
\* (writeSingleRegister, writeMultipleRegister, readHoldingRegisters)
AnswerTrue ==
  answer # NoResponse =>
    LET f == answer.to IN
    /\ answer.code = 4 => regs[ErrorReg] \in ErrorCodes
    /\ answer.code = 0 =>
         CASE f.fn = "single"   -> regs[f.start] = f.data[1]
           [] f.fn = "multiple" ->
                f.start + f.qty < Wrap =>
                  \A i \in 1 .. f.qty : i <= Len(f.data) => regs[f.start + i - 1] = f.data[i]
           [] f.fn = "read"     -> /\ Len(answer.data) = f.qty
                                   /\ \A i \in 1 .. f.qty : answer.data[i] = regs[f.start + i - 1]
           [] f.fn = "unknown"  -> FALSE

\* Nothing but a whole request with a good CRC that is meant for this server
\* changes a register, and then only one that it names, or the error register
\* after a failure.  (modbusRequestAdu, and the bounds of the three handlers)
OnlyNamedChange ==
  [][\A a \in 0 .. NumRegs : regs'[a] # regs[a] =>
       /\ got.ok /\ got.addr # "other"
       /\ \/ got.fn = "single" /\ a = got.start
          \/ got.fn = "multiple" /\ got.start <= a /\ a < got.start + got.qty
          \/ a = ErrorReg /\ regs'[a] \in ErrorCodes]_vars

\* What the comment on its bound says of a single write ("if reg address is
\* illegal") and that of the multiple write does ("if end address is greater than
\* max"): no request changes the word behind the table.  (Modbus_Protocol.c:231)
TableOnly == [][regs'[NumRegs] = regs[NumRegs]]_vars

\* What the comments on its bound say of a write of several registers ("number of
\* registers to write", "if end address is greater than max"): one that is
\* confirmed was in the table and done.  (Modbus_Protocol.c:283-307)
ConfirmedWritten ==
  answer # NoResponse /\ answer.code = 0 /\ answer.to.fn = "multiple" =>
    \A i \in 1 .. answer.to.qty :
      LET a == answer.to.start + i - 1 IN
      a < NumRegs /\ (i <= Len(answer.to.data) => regs[a] = answer.to.data[i])

\* The server speaks only when it is asked alone.  (modbusHandler)
SpeaksWhenAsked == tx # NoResponse => tx.to.addr = Own /\ tx.to = asked

\* The server goes deaf in one way only: with its receiver closed and nothing to
\* handle, an idle timer or the end of a response will wake it, unless the idle
\* timer closed the receiver between Start_Receive and the assignment of WAITING,
\* which then overwrites RECEIVED.  (UART_Target.c:23-80, Modbus_RTU.c:56-84)
ServerHears ==
  state \notin {"IDLE", "RECEIVED"} /\ pending = "none" /\ rx = "closed" =>
    timer \/ tx # NoResponse \/ wakeLost

\* The wake-up is lost, and the server hears nothing until its next start.
Deaf == wakeLost /\ pending = "none" /\ tx = NoResponse

\* A master that repeats its request gets an answer, whatever comes over the
\* line in between, with two exceptions: the server has gone deaf, or the request
\* fills rx_data with its last byte, where the idle timer, still running, makes
\* the state machine zero tx_data under the response each time.
\* (Modbus_RTU_FSM, UART_Interface.c:160-166)
RetryAnswered ==
  asked # NoFrame ~> asked = NoFrame \/ Deaf \/ (asked.fill = "exact" /\ ~tx.ok)
=============================================================================
