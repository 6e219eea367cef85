----------------------------- MODULE ModbusProofs -----------------------------
(***************************************************************************)
(* What the Modbus server does for any table, any requests and any number  *)
(* of frames of others: whom it answers, what it changes in the registers  *)
(* and behind them, what its answers say, and of which type they are.      *)
(***************************************************************************)
EXTENDS ModbusServer, TLAPS

\* A whole request to this server alone.
Mine(f) == f.addr = Own /\ f.ok

\* The wake-up is lost: nothing is received or handled any more.
Stuck == state = "WAITING" /\ pending = "none" /\ rx = "closed" /\ ~timer /\ tx = NoResponse

\* There is one such request at a time: it is on the line, in the buffer, or
\* being answered, and the one the master waits for.  Only a server that has gone
\* deaf with it in its buffer is sent it again.
AskedInv ==
  /\ Mine(line) => line = asked
  /\ Mine(got) => /\ got = asked /\ tx = NoResponse
                  /\ Stuck \/ (~Mine(line) /\ (timer \/ state = "RECEIVED"))
  /\ tx # NoResponse => tx.to = asked /\ tx.to.addr = Own /\ ~Mine(line)
  /\ state = "RECEIVED" => rx = "closed"
  /\ pending = "SENDING" => tx # NoResponse
  /\ pending \in {"none", "WAITING", "SENDING"}

LEMMA NoFrameNotMine == ~Mine(NoFrame) /\ ~Mine(Rest)
BY DEF Mine, NoFrame, Rest, Own

LEMMA StuckStays == Stuck /\ [Next]_vars => Stuck'
<1> SUFFICES ASSUME Stuck, [Next]_vars PROVE Stuck'
  OBVIOUS
<1> USE DEF Stuck, linkVars
<1>1. CASE FSM \/ TimerIrq \/ TxDone \/ Fill
  BY <1>1 DEF FSM, Open, Assign, Handle, TimerIrq, TxDone, Fill
<1>2. CASE EndFrame
  BY <1>2 DEF EndFrame
<1>3. ASSUME NEW f, Begin(f) PROVE Stuck'
  BY <1>3 DEF Begin
<1>4. CASE (\E f \in Requests : Ask(f)) \/ Retry \/ Disturb
  BY <1>3, <1>4 DEF Ask, Retry, Disturb
<1>5. CASE UNCHANGED vars
  BY <1>5 DEF vars
<1>. QED BY <1>1, <1>2, <1>4, <1>5 DEF Next

\* How a frame that begins changes the driver.
LEMMA BeginStep ==
  ASSUME NEW f, Begin(f)
  PROVE  /\ line' = f /\ UNCHANGED <<regs, tx, pending, wakeLost>>
         /\ \/ UNCHANGED <<state, rx, timer>> /\ rx = "closed"
            \/ state' = "RECEIVING" /\ rx' = "some" /\ timer'
BY DEF Begin, InProgress

\* How its end does.
LEMMA EndStep ==
  ASSUME EndFrame
  PROVE  /\ line' = NoFrame /\ UNCHANGED <<regs, tx, pending, wakeLost, asked, answer, noise>>
         /\ \/ UNCHANGED <<got, state, rx, timer>> /\ rx = "closed"
            \/ /\ got' \in {line, NoFrame} /\ timer'
               /\ \/ state' = "RECEIVING" /\ rx' = "some"
                  \/ state' = "RECEIVED" /\ rx' = "closed"
BY DEF EndFrame, InProgress, Full, masterVars

\* What a handled frame does to the response: another cannot be under way when
\* it is the master's.
LEMMA HandleStep ==
  ASSUME AskedInv, Handle
  PROVE  /\ state = "RECEIVED" /\ pending = "none" /\ got' = NoFrame
         /\ UNCHANGED <<rx, timer, wakeLost, line, heard, asked, answer, noise>>
         /\ \/ /\ pending' = "SENDING" /\ state' = state /\ RequestOk(got) /\ Mine(got) /\ tx = NoResponse
               /\ \E o \in processModbusRequest(got) :
                    regs' = o.regs /\ tx' = Response(got, o.code, o.data)
            \/ /\ pending' = pending /\ state' = "IDLE" /\ tx' \in Zeroed
               /\ \/ UNCHANGED regs
                  \/ RequestOk(got) /\ ~Replies(got) /\ \E o \in processModbusRequest(got) : regs' = o.regs
<1>1. /\ state = "RECEIVED" /\ pending = "none" /\ got' = NoFrame
      /\ UNCHANGED <<rx, timer, wakeLost, line, heard, asked, answer, noise>>
  BY DEF Handle, lineVars, masterVars
<1>2. CASE ~RequestOk(got)
  BY <1>1, <1>2 DEF Handle, Release
<1>3. CASE RequestOk(got) /\ ~Replies(got)
  BY <1>1, <1>3 DEF Handle, Release
<1>4. CASE RequestOk(got) /\ Replies(got)
  <2>1. Mine(got)
    BY <1>4 DEF RequestOk, Replies, Mine
  <2>2. tx = NoResponse
    BY <2>1 DEF AskedInv
  <2>3. PICK o \in processModbusRequest(got) : regs' = o.regs /\ Respond(got, o)
    BY <1>4 DEF Handle
  <2>. QED BY <1>1, <1>4, <2>1, <2>2, <2>3 DEF Respond
<1>. QED BY <1>2, <1>3, <1>4

\* Zeroing tx_data keeps whom the response is to, and whether there is one.
LEMMA ZeroedSame ==
  ASSUME NEW r \in Zeroed
  PROVE  /\ r = NoResponse <=> tx = NoResponse
         /\ r.to = tx.to /\ r.code = tx.code /\ r.data = tx.data
         /\ r = tx \/ r.ok = FALSE
<1>1. CASE r = tx
  BY <1>1
<1>2. CASE r # tx
  <2>1. tx # NoResponse /\ r = [Response(tx.to, tx.code, tx.data) EXCEPT !.ok = FALSE]
    BY <1>2 DEF Zeroed
  <2>2. r.ok = FALSE /\ r.to = tx.to /\ r.code = tx.code /\ r.data = tx.data
    BY <2>1 DEF Response
  <2>3. NoResponse.ok = TRUE
    BY DEF NoResponse, Response
  <2>. QED BY <2>1, <2>2, <2>3
<1>. QED BY <1>1, <1>2

LEMMA AskedStep == AskedInv /\ [Next]_vars => AskedInv'
<1> SUFFICES ASSUME AskedInv, [Next]_vars PROVE AskedInv'
  OBVIOUS
<1> USE DEF AskedInv
<1>0. Stuck => Stuck'
  BY StuckStays
<1>1. CASE Open
  <2>1. /\ state = "IDLE" /\ pending' = "WAITING" /\ got' \in {got, NoFrame}
        /\ UNCHANGED <<state, timer, tx, line, asked>>
    BY <1>1 DEF Open, masterVars
  <2>2. ~Stuck
    BY <2>1 DEF Stuck
  <2>. QED BY <2>1, <2>2, NoFrameNotMine DEF Mine
<1>2. CASE Assign
  <2>1. /\ pending # "none" /\ state' = pending /\ pending' = "none"
        /\ UNCHANGED <<got, rx, timer, line, tx, asked>>
    BY <1>2 DEF Assign, lineVars, masterVars
  <2>2. Mine(got) => pending = "WAITING"
    BY <2>1
  <2>3. Mine(got) /\ ~timer => Stuck'
    BY <2>1, <2>2 DEF Stuck
  <2>. QED BY <1>0, <2>1, <2>3 DEF Mine
<1>3. CASE Handle
  <2>1. ~Stuck
    BY <1>3, HandleStep DEF Stuck
  <2>2. CASE pending' = "SENDING"
    <3>1. /\ state' = state /\ Mine(got) /\ got' = NoFrame /\ UNCHANGED <<rx, timer, line, asked>>
          /\ tx'.to = got
      BY <1>3, <2>2, HandleStep DEF Response
    <3>2. tx'.to = asked /\ tx'.to.addr = Own
      BY <3>1 DEF Mine
    <3>3. tx' # NoResponse
      BY <3>1, NoFrameNotMine DEF NoResponse, Response
    <3>. QED BY <2>1, <2>2, <3>1, <3>2, <3>3, NoFrameNotMine DEF Mine
  <2>3. CASE pending' # "SENDING"
    <3>1. /\ state' = "IDLE" /\ got' = NoFrame /\ UNCHANGED <<rx, timer, line, asked, pending>>
          /\ tx' \in Zeroed
      BY <1>3, <2>3, HandleStep
    <3>2. tx'.to = tx.to /\ (tx' = NoResponse <=> tx = NoResponse)
      BY <3>1, ZeroedSame
    <3>. QED BY <3>1, <3>2, NoFrameNotMine DEF Mine
  <2>. QED BY <2>2, <2>3
<1>4. CASE EndFrame
  <2>1. CASE UNCHANGED <<got, state, rx, timer>>
    BY <1>0, <1>4, <2>1, EndStep, NoFrameNotMine DEF Mine
  <2>2. CASE got' \in {line, NoFrame} /\ timer' /\ (state' = "RECEIVED" => rx' = "closed")
    BY <1>4, <2>2, EndStep, NoFrameNotMine DEF Mine
  <2>. QED BY <1>4, <2>1, <2>2, EndStep
<1>5. CASE Fill
  <2>1. /\ got' = NoFrame /\ line' = Rest /\ rx' = "closed" /\ UNCHANGED <<tx, pending, asked>>
    BY <1>5 DEF Fill, Full, masterVars
  <2>. QED BY <2>1, NoFrameNotMine DEF Mine
<1>6. CASE TimerIrq
  <2>1. /\ state' = "RECEIVED" /\ rx' = "closed" /\ UNCHANGED <<got, pending, line, tx, asked>>
    BY <1>6 DEF TimerIrq, Stop, masterVars
  <2>. QED BY <1>0, <2>1 DEF Mine
<1>7. CASE TxDone
  <2>1. /\ tx # NoResponse /\ tx' = NoResponse /\ state' = "IDLE" /\ pending # "SENDING"
        /\ UNCHANGED <<got, line, pending>>
    BY <1>7 DEF TxDone, lineVars
  <2>. QED BY <2>1 DEF Mine
<1>8. ASSUME NEW f \in Requests, Ask(f) PROVE AskedInv'
  <2>1. /\ asked = NoFrame /\ tx = NoResponse /\ asked' = IF f.addr = Own THEN f ELSE NoFrame
        /\ Begin(f) /\ UNCHANGED got
    BY <1>8 DEF Ask
  <2>2. ~Mine(got)
    BY <2>1, NoFrameNotMine
  <2>. QED BY <2>1, <2>2, BeginStep DEF Mine
<1>9. CASE Retry
  <2>1. /\ state = "WAITING" /\ ~timer /\ tx = NoResponse /\ UNCHANGED <<asked, got>> /\ Begin(asked)
    BY <1>9 DEF Retry, masterVars
  <2>2. Mine(got) => Stuck'
    BY <1>0, <2>1
  <2>. QED BY <2>1, <2>2, BeginStep DEF Mine
<1>10. CASE Disturb
  <2>1. PICK f \in Others : Begin(f)
    BY <1>10 DEF Disturb
  <2>2. UNCHANGED <<got, asked>>
    BY <1>10 DEF Disturb, masterVars
  <2>3. ~Mine(f)
    BY DEF Others, Mine, Own
  <2>. QED BY <1>0, <2>1, <2>2, <2>3, BeginStep DEF Mine
<1>11. CASE UNCHANGED vars
  BY <1>0, <1>11 DEF vars, linkVars, lineVars, masterVars, Mine
<1>. QED BY <1>1, <1>2, <1>3, <1>4, <1>5, <1>6, <1>7, <1>8, <1>9, <1>10, <1>11 DEF Next, FSM

\* The server answers nobody but the master that waits, and only the request
\* it waits for.  (modbusHandler, Modbus_RTU_FSM)
THEOREM AlwaysSpeaksWhenAsked == Spec => []SpeaksWhenAsked
<1>1. Init => AskedInv
  BY NoFrameNotMine DEF Init, AskedInv
<1>2. AskedInv => SpeaksWhenAsked
  BY DEF AskedInv, SpeaksWhenAsked
<1>. QED BY <1>1, <1>2, AskedStep, PTL DEF Spec
-----------------------------------------------------------------------------
(* Going deaf                                                              *)

HearsInv ==
  /\ ServerHears
  /\ pending = "WAITING" /\ rx = "closed" => timer \/ wakeLost

LEMMA HearsStep == AskedInv /\ HearsInv /\ [Next]_vars => HearsInv'
<1> SUFFICES ASSUME AskedInv, HearsInv, [Next]_vars PROVE HearsInv'
  OBVIOUS
<1> USE DEF HearsInv, ServerHears
<1>1. CASE Open
  BY <1>1 DEF Open
<1>2. CASE Assign
  <2>1. /\ state' = pending /\ pending' = "none" /\ UNCHANGED <<rx, timer, wakeLost, tx>>
    BY <1>2 DEF Assign
  <2>2. pending \in {"WAITING", "SENDING"} /\ (pending = "SENDING" => tx # NoResponse)
    BY <1>2 DEF Assign, AskedInv
  <2>. QED BY <2>1, <2>2
<1>3. CASE Handle
  <2>1. pending = "none" /\ (pending' = "SENDING" \/ (state' = "IDLE" /\ pending' = pending))
    BY <1>3, HandleStep
  <2>. QED BY <2>1
<1>4. CASE EndFrame
  BY <1>4, EndStep
<1>5. CASE Fill
  BY <1>5 DEF Fill, Full
<1>6. CASE TimerIrq
  BY <1>6 DEF TimerIrq, Stop
<1>7. CASE TxDone
  BY <1>7 DEF TxDone
<1>8. CASE (\E f \in Requests : Ask(f)) \/ Retry \/ Disturb
  <2>1. PICK f : Begin(f)
    BY <1>8 DEF Ask, Retry, Disturb
  <2>. QED BY <2>1, BeginStep
<1>9. CASE UNCHANGED vars
  BY <1>9 DEF vars, linkVars
<1>. QED BY <1>1, <1>2, <1>3, <1>4, <1>5, <1>6, <1>7, <1>8, <1>9 DEF Next, FSM

\* The server goes deaf in one way only, whatever is sent and whenever frames,
\* idle timer and ends of responses come: the idle timer closes the receiver
\* between Start_Receive and the assignment of WAITING.  (UART_Target.c:71-72)
THEOREM OneWayToGoDeaf == Spec => []ServerHears
<1>1. Init => AskedInv /\ HearsInv
  BY NoFrameNotMine DEF Init, AskedInv, HearsInv, ServerHears
<1>2. HearsInv => ServerHears
  BY DEF HearsInv
<1>. QED BY <1>1, <1>2, AskedStep, HearsStep, PTL DEF Spec
-----------------------------------------------------------------------------
(* The registers                                                           *)

\* The frames that can be met: a single write bears a value.
Known == {f \in Frames : f.fn = "single" => Len(f.data) = 1}

FramesInv == {got, line, asked} \subseteq Known

RegsInv == regs \in [0 .. NumRegs -> Cells]

TableInv == FramesInv /\ RegsInv

LEMMA KnownFrames == NoFrame \in Known /\ Rest \in Known /\ Requests \subseteq Known /\ Others \subseteq Known
<1>1. NoFrame \in Known /\ Rest \in Known
  BY RequestAssumption DEF Known, Frames, NoFrame, Rest
<1>2. Requests \subseteq Known
  BY RequestAssumption DEF Known, Sendable
<1>3. Others \subseteq Known
  BY DEF Known, Others
<1>. QED BY <1>1, <1>2, <1>3

\* Addresses that wrap stay below the sum, so that a span never leaves what the
\* request names.
LEMMA EndBound ==
  ASSUME NEW f, f.start \in Nat, f.qty \in Nat
  PROVE  EndAddress(f) \in Nat /\ EndAddress(f) <= f.start + f.qty
<1>1. Wrap \in Nat \ {0}
  BY SizeAssumption
<1>2. \A n \in Nat, w \in Nat \ {0} : n % w \in Nat /\ n % w <= n
  OBVIOUS
<1>. QED BY <1>1, <1>2 DEF EndAddress

LEMMA FrameFields ==
  ASSUME NEW f \in Known
  PROVE  /\ f.start \in Nat /\ f.qty \in Nat /\ f.data \in Seq(Values)
         /\ f.fn = "single" => f.data[1] \in Values
         /\ f.fn \in {"read", "single", "multiple", "unknown"}
<1>1. f.start \in Starts \union {0} /\ f.qty \in Quantities \union {0} /\ f.data \in Datas
      /\ f.fn \in {"read", "single", "multiple", "unknown"} /\ (f.fn = "single" => Len(f.data) = 1)
  BY DEF Known, Frames
<1>2. Starts \subseteq Nat /\ Quantities \subseteq Nat /\ Datas \subseteq Seq(Values)
  BY RequestAssumption, SizeAssumption
<1>3. f.data \in Seq(Values)
  BY <1>1, <1>2
<1>4. f.fn = "single" => f.data[1] \in Values
  BY <1>1, <1>3
<1>5. \A n \in Starts \union Quantities \union {0} : n \in Nat
  BY <1>2
<1>. QED BY ONLY <1>1, <1>3, <1>4, <1>5

\* Every register of a span holds a value after a write.
LEMMA StoredType ==
  ASSUME TableInv, NEW f \in Known, NEW stray \in [Unsent(f) -> Values \union {0}]
  PROVE  /\ Stored(f, stray) \in [0 .. NumRegs -> Cells]
         /\ \A a \in 0 .. NumRegs : Stored(f, stray)[a] # regs[a] => a \in Span(f)
<1>1. f.start \in Nat /\ f.qty \in Nat /\ f.data \in Seq(Values)
  BY FrameFields
<1>2. ASSUME NEW a \in 0 .. NumRegs
      PROVE  Stored(f, stray)[a] \in Cells /\ (Stored(f, stray)[a] # regs[a] => a \in Span(f))
  <2>1. CASE a \in Unsent(f)
    BY <1>2, <2>1 DEF Stored, Unsent, Cells
  <2>2. CASE a \notin Unsent(f) /\ a \in Span(f)
    <3>1. f.start <= a /\ a - f.start < Len(f.data) /\ a \in Nat /\ Len(f.data) \in Nat
      BY <1>1, <1>2, <2>2 DEF Unsent, Span
    <3>2. a - f.start + 1 \in 1 .. Len(f.data)
      BY <1>1, <3>1
    <3>3. f.data[a - f.start + 1] \in Values
      BY <1>1, <3>2
    <3>. QED BY <1>2, <2>2, <3>3 DEF Stored, Cells
  <2>3. CASE a \notin Span(f)
    BY <1>2, <2>3 DEF Stored, Unsent, TableInv, RegsInv
  <2>. QED BY <2>1, <2>2, <2>3
<1>. QED BY <1>2 DEF Stored

\* What an outcome leaves in the registers.
Kept(r, f) ==
  /\ r \in [0 .. NumRegs -> Cells]
  /\ \A a \in 0 .. NumRegs : r[a] # regs[a] =>
       \/ f.fn = "single" /\ a = f.start
       \/ f.fn = "multiple" /\ f.start <= a /\ a < f.start + f.qty
       \/ a = ErrorReg /\ r[a] \in ErrorCodes

LEMMA ActedKept ==
  ASSUME NEW f, NEW addr, NEW r, NEW data, Kept(r, f), NEW o \in Acted(addr, r, data)
  PROVE  Kept(o.regs, f)
<1>1. PICK e \in ActionResults(addr) :
        o = IF e = 0 THEN Outcome(r, 0, data) ELSE Outcome([r EXCEPT ![ErrorReg] = e], 4, <<>>)
  BY DEF Acted
<1>2. e \in {0} \union ErrorCodes
  BY DEF ActionResults, ErrorCodes
<1>3. CASE e = 0
  BY <1>1, <1>3 DEF Outcome
<1>4. CASE e # 0
  <2>1. o.regs = [r EXCEPT ![ErrorReg] = e] /\ e \in ErrorCodes
    BY <1>1, <1>2, <1>4 DEF Outcome
  <2>2. ErrorReg \in 0 .. NumRegs
    BY RegisterAssumption, SizeAssumption
  <2>. QED BY <2>1, <2>2 DEF Kept, Cells
<1>. QED BY <1>3, <1>4

LEMMA RequestKept ==
  ASSUME TableInv, NEW f \in Known, NEW o \in processModbusRequest(f)
  PROVE  Kept(o.regs, f)
<1>1. /\ f.start \in Nat /\ f.qty \in Nat
      /\ f.fn = "single" => f.data[1] \in Values
  BY FrameFields
<1>2. Kept(regs, f)
  BY DEF Kept, TableInv, RegsInv
<1>3. ASSUME NEW code, o \in Refuse(code) PROVE o.regs = regs
  BY <1>3 DEF Refuse, Outcome
<1>4. CASE f.fn = "read" /\ o \in readHoldingRegisters(f)
  BY <1>2, <1>3, <1>4, ActedKept DEF readHoldingRegisters
<1>5. CASE f.fn = "single" /\ o \in writeSingleRegister(f)
  <2>1. CASE f.start > NumRegs \/ IllegalAddress(f.start)
    BY <1>2, <1>3, <1>5, <2>1 DEF writeSingleRegister
  <2>2. CASE ~(f.start > NumRegs \/ IllegalAddress(f.start))
    <3>1. f.start \in 0 .. NumRegs
      BY <1>1, <2>2, SizeAssumption
    <3>2. Kept([regs EXCEPT ![f.start] = f.data[1]], f)
      BY <1>1, <1>5, <3>1 DEF Kept, TableInv, RegsInv, Cells
    <3>. QED BY <1>5, <2>2, <3>2, ActedKept DEF writeSingleRegister
  <2>. QED BY <2>1, <2>2
<1>6. CASE f.fn = "multiple" /\ o \in writeMultipleRegister(f)
  <2>1. CASE OutOfTable(f)
    BY <1>2, <1>3, <1>6, <2>1 DEF writeMultipleRegister
  <2>2. CASE ~OutOfTable(f)
    <3>1. \A a \in Span(f) : f.start <= a /\ a < f.start + f.qty
      BY <1>1, EndBound, SizeAssumption DEF Span
    <3>2. PICK stray \in [Unsent(f) -> Values \union {0}] : o \in Acted(f.start, Stored(f, stray), <<>>)
      BY <1>6, <2>2 DEF writeMultipleRegister
    <3>3. Kept(Stored(f, stray), f)
      BY <1>6, <3>1, StoredType DEF Kept
    <3>. QED BY <3>2, <3>3, ActedKept
  <2>. QED BY <2>1, <2>2
<1>7. CASE f.fn = "unknown" /\ o \in Refuse(1)
  BY <1>2, <1>3, <1>7
<1>8. f.fn \in {"read", "single", "multiple", "unknown"}
  BY FrameFields
<1>. QED BY <1>4, <1>5, <1>6, <1>7, <1>8 DEF processModbusRequest

LEMMA TableStep == AskedInv /\ TableInv /\ [Next]_vars => TableInv'
<1> SUFFICES ASSUME AskedInv, TableInv, [Next]_vars PROVE TableInv'
  OBVIOUS
<1>1. ASSUME UNCHANGED regs, {got', line', asked'} \subseteq Known
      PROVE  TableInv'
  BY <1>1 DEF TableInv, FramesInv, RegsInv
<1>2. {got, line, asked, NoFrame, Rest} \subseteq Known
  BY KnownFrames DEF TableInv, FramesInv
<1>3. CASE Open \/ Assign \/ Fill \/ TimerIrq \/ TxDone \/ UNCHANGED vars
  <2>1. UNCHANGED regs /\ {got', line', asked'} \subseteq {got, line, asked, NoFrame, Rest}
    BY <1>3 DEF Open, Assign, Fill, TimerIrq, TxDone, vars, lineVars, masterVars
  <2>. QED BY <1>1, <1>2, <2>1
<1>4. CASE EndFrame
  <2>1. UNCHANGED regs /\ {got', line', asked'} \subseteq {got, line, asked, NoFrame}
    BY <1>4, EndStep
  <2>. QED BY <1>1, <1>2, <2>1
<1>5. CASE Handle
  <2>1. got' = NoFrame /\ UNCHANGED <<line, asked>>
        /\ \/ UNCHANGED regs
           \/ \E o \in processModbusRequest(got) : regs' = o.regs
    BY <1>5, HandleStep
  <2>2. RegsInv'
    BY <2>1, RequestKept DEF TableInv, FramesInv, RegsInv, Kept
  <2>. QED BY <1>2, <2>1, <2>2 DEF TableInv, FramesInv
<1>6. ASSUME NEW f \in Requests, Ask(f) PROVE TableInv'
  <2>1. UNCHANGED <<regs, got>> /\ line' = f /\ asked' \in {f, NoFrame} /\ f \in Known
    BY <1>6, KnownFrames DEF Ask, Begin
  <2>. QED BY <1>1, <1>2, <2>1
<1>7. CASE Retry
  <2>1. UNCHANGED <<regs, got, asked>> /\ line' = asked
    BY <1>7 DEF Retry, Begin, masterVars
  <2>. QED BY <1>1, <1>2, <2>1
<1>8. CASE Disturb
  <2>1. UNCHANGED <<regs, got, asked>> /\ line' \in Known
    BY <1>8, KnownFrames DEF Disturb, Begin, masterVars
  <2>. QED BY <1>1, <1>2, <2>1
<1>. QED BY <1>3, <1>4, <1>5, <1>6, <1>7, <1>8 DEF Next, FSM

\* Only the handler of a frame changes a register.
LEMMA RegsStep ==
  ASSUME AskedInv, Next, regs' # regs
  PROVE  Handle /\ RequestOk(got) /\ \E o \in processModbusRequest(got) : regs' = o.regs
<1>1. Handle
  <2>1. ~(Open \/ Assign \/ Fill \/ TimerIrq \/ TxDone)
    BY DEF Open, Assign, Fill, TimerIrq, TxDone
  <2>2. ~EndFrame
    BY DEF EndFrame
  <2>3. ~((\E f \in Requests : Ask(f)) \/ Retry \/ Disturb)
    BY DEF Ask, Retry, Disturb, Begin
  <2>. QED BY <2>1, <2>2, <2>3 DEF Next, FSM
<1>. QED BY <1>1, HandleStep

\* The registers change only as a good request of the server's own, of the group
\* or of all names them, wherever its addresses begin and wrap, besides the error
\* register.  (readHoldingRegisters, writeSingleRegister, writeMultipleRegister)
THEOREM OnlyNamedAlwaysChange == Spec => OnlyNamedChange
<1>1. Init => AskedInv /\ TableInv
  BY NoFrameNotMine, KnownFrames DEF Init, AskedInv, TableInv, FramesInv, RegsInv, Cells
<1>2. AskedInv /\ TableInv /\ [Next]_vars =>
        [\A a \in 0 .. NumRegs : regs'[a] # regs[a] =>
           /\ got.ok /\ got.addr # "other"
           /\ \/ got.fn = "single" /\ a = got.start
              \/ got.fn = "multiple" /\ got.start <= a /\ a < got.start + got.qty
              \/ a = ErrorReg /\ regs'[a] \in ErrorCodes]_vars
  <2> SUFFICES ASSUME AskedInv, TableInv, Next, NEW a \in 0 .. NumRegs, regs'[a] # regs[a]
               PROVE  /\ got.ok /\ got.addr # "other"
                      /\ \/ got.fn = "single" /\ a = got.start
                         \/ got.fn = "multiple" /\ got.start <= a /\ a < got.start + got.qty
                         \/ a = ErrorReg /\ regs'[a] \in ErrorCodes
    OBVIOUS
  <2>1. RequestOk(got) /\ \E o \in processModbusRequest(got) : regs' = o.regs
    BY RegsStep
  <2>2. Kept(regs', got)
    BY <2>1, RequestKept DEF TableInv, FramesInv
  <2>. QED BY <2>1, <2>2 DEF Kept, RequestOk, Own
<1>. QED BY <1>1, <1>2, AskedStep, TableStep, PTL DEF Spec, OnlyNamedChange
-----------------------------------------------------------------------------
(* The answers *)

\* What a frame has to be to be executed, for the server alone or not.
Good(f) == f.ok /\ f.addr # "other"

\* While a response is on its way, or the master has it and has not sent again,
\* nothing that would be executed is on the line or in the buffer.
QuietInv ==
  /\ asked # NoFrame => answer = NoResponse
  /\ tx # NoResponse \/ answer # NoResponse \/ (Mine(got) /\ ~Stuck) => ~Good(line)
  /\ tx # NoResponse \/ answer # NoResponse => ~Good(got)

\* A positive response r tells the truth of the registers.
PositiveTrue(r, cells) ==
  LET f == r.to IN
  CASE f.fn = "single"   -> cells[f.start] = f.data[1]
    [] f.fn = "multiple" ->
         f.start + f.qty < Wrap =>
           \A i \in 1 .. f.qty : i <= Len(f.data) => cells[f.start + i - 1] = f.data[i]
    [] f.fn = "read"     -> /\ Len(r.data) = f.qty
                            /\ \A i \in 1 .. f.qty : r.data[i] = cells[f.start + i - 1]
    [] f.fn = "unknown"  -> FALSE

\* So does one that tells of a failure of the application.
Truth(r, cells) ==
  /\ r.code = 4 => cells[ErrorReg] \in ErrorCodes
  /\ r.code = 0 => PositiveTrue(r, cells)

TruthInv == /\ tx # NoResponse => Truth(tx, regs)
            /\ answer # NoResponse => Truth(answer, regs)

LEMMA NoFrameNotGood == ~Good(NoFrame) /\ ~Good(Rest)
BY DEF Good, NoFrame, Rest

\* The bounds of a request that are not refused.
LEMMA NoWrap ==
  ASSUME NEW f, f.start \in Nat, f.qty \in Nat, f.start + f.qty < Wrap
  PROVE  EndAddress(f) = f.start + f.qty
<1>1. Wrap \in Nat
  BY SizeAssumption
<1>2. ASSUME NEW n \in Nat, NEW w \in Nat, n < w PROVE n % w = n
  BY <1>2
<1>3. f.start + f.qty \in Nat
  OBVIOUS
<1> QED  BY <1>1, <1>2, <1>3 DEF EndAddress

\* A positive outcome is that of an address that is registered.
LEMMA ActedTrue ==
  ASSUME NEW addr, NEW r, NEW data, NEW o \in Acted(addr, r, data), o.code = 0
  PROVE  addr \in Registered /\ o = Outcome(r, 0, data)
<1>1. PICK e \in ActionResults(addr) :
        o = IF e = 0 THEN Outcome(r, 0, data) ELSE Outcome([r EXCEPT ![ErrorReg] = e], 4, <<>>)
  BY DEF Acted
<1>2. e = 0
  BY <1>1 DEF Outcome
<1> QED  BY <1>1, <1>2 DEF ActionResults

\* A failure of the application is told in the error register.
LEMMA ActedFails ==
  ASSUME NEW addr, NEW r \in [0 .. NumRegs -> Cells], NEW data, NEW o \in Acted(addr, r, data), o.code = 4
  PROVE  o.regs[ErrorReg] \in ErrorCodes
<1>1. PICK e \in ActionResults(addr) :
        o = IF e = 0 THEN Outcome(r, 0, data) ELSE Outcome([r EXCEPT ![ErrorReg] = e], 4, <<>>)
  BY DEF Acted
<1>2. e # 0 /\ e \in {0, 2, 4}
  BY <1>1 DEF Outcome, ActionResults
<1>3. ErrorReg \in 0 .. NumRegs
  BY RegisterAssumption, SizeAssumption
<1>4. o.regs = [r EXCEPT ![ErrorReg] = e]
  BY <1>1, <1>2 DEF Outcome
<1>. QED BY <1>2, <1>3, <1>4 DEF ErrorCodes

LEMMA OutcomeTrue ==
  ASSUME NumRegs + MaxQuantity <= Wrap, TableInv,
         NEW f \in Known, NEW o \in processModbusRequest(f)
  PROVE  Truth(Response(f, o.code, o.data), o.regs)
<1>0. /\ f.start \in Nat /\ f.qty \in Nat /\ f.data \in Seq(Values)
      /\ f.fn = "single" => f.data[1] \in Values
      /\ f.fn \in {"read", "single", "multiple", "unknown"}
      /\ NumRegs \in Nat /\ MaxQuantity \in Nat /\ Wrap \in Nat
  BY FrameFields, SizeAssumption
<1>1. ASSUME NEW code \in 1 .. 3, o \in Refuse(code)
      PROVE  Truth(Response(f, o.code, o.data), o.regs)
  BY <1>1 DEF Refuse, Outcome, Truth, Response
<1>a. ASSUME NEW addr, NEW r \in [0 .. NumRegs -> Cells], NEW data, o \in Acted(addr, r, data),
             o.code = 0 => PositiveTrue(Response(f, o.code, o.data), o.regs)
      PROVE  Truth(Response(f, o.code, o.data), o.regs)
  <2>1. o.code = 4 => o.regs[ErrorReg] \in ErrorCodes
    BY <1>a, ActedFails
  <2>. QED BY <1>a, <2>1 DEF Truth, Response
<1>2. CASE f.fn = "read"
  <2> DEFINE n    == IF EndAddress(f) > f.start THEN f.qty ELSE 0
             data == [i \in 1 .. n |-> regs[f.start + i - 1]]
  <2>0. CASE ~(Readable(f) /\ ~OutOfTable(f))
    BY <1>1, <1>2, <2>0 DEF processModbusRequest, readHoldingRegisters
  <2>1. CASE Readable(f) /\ ~OutOfTable(f)
    <3>1. o \in Acted(f.start, regs, data)
      BY <1>2, <2>1 DEF processModbusRequest, readHoldingRegisters
    <3>2. ASSUME o.code = 0 PROVE PositiveTrue(Response(f, o.code, o.data), o.regs)
      <4>2. f.start \in Registered /\ o.regs = regs /\ o.data = data
        BY <3>1, <3>2, ActedTrue DEF Outcome
      <4>3. f.qty >= 1 /\ f.qty <= MaxQuantity /\ f.start < NumRegs
        BY <1>0, <2>1, <4>2, RegisterAssumption DEF Readable
      <4>4. EndAddress(f) = f.start + f.qty
        BY <1>0, <4>3, NoWrap
      <4>5. n = f.qty
        BY <1>0, <4>3, <4>4
      <4> HIDE DEF n
      <4>6. Len(data) = f.qty /\ \A i \in 1 .. f.qty : data[i] = regs[f.start + i - 1]
        BY <1>0, <4>5
      <4> HIDE DEF data
      <4> QED  BY <1>2, <4>2, <4>6 DEF PositiveTrue, Response
    <3> HIDE DEF data
    <3>. QED BY <1>a, <3>1, <3>2 DEF TableInv, RegsInv
  <2>. QED BY <2>0, <2>1
<1>3. CASE f.fn = "single"
  <2> DEFINE r == [regs EXCEPT ![f.start] = f.data[1]]
  <2>0. CASE f.start > NumRegs \/ IllegalAddress(f.start)
    BY <1>1, <1>3, <2>0 DEF processModbusRequest, writeSingleRegister
  <2>1. CASE ~(f.start > NumRegs \/ IllegalAddress(f.start))
    <3>1. f.start <= NumRegs /\ o \in Acted(f.start, r, <<>>)
      BY <1>0, <1>3, <2>1 DEF processModbusRequest, writeSingleRegister
    <3>2. r \in [0 .. NumRegs -> Cells] /\ r[f.start] = f.data[1]
      BY <1>0, <1>3, <3>1 DEF TableInv, RegsInv, Cells
    <3>3. ASSUME o.code = 0 PROVE PositiveTrue(Response(f, o.code, o.data), o.regs)
      <4>1. o.regs = r
        BY <3>1, <3>3, ActedTrue DEF Outcome
      <4>. QED BY <1>3, <3>2, <4>1 DEF PositiveTrue, Response
    <3> HIDE DEF r
    <3>. QED BY <1>a, <3>1, <3>2, <3>3
  <2>. QED BY <2>0, <2>1
<1>4. CASE f.fn = "multiple"
  <2>0. CASE OutOfTable(f)
    BY <1>1, <1>4, <2>0 DEF processModbusRequest, writeMultipleRegister
  <2>1. CASE ~OutOfTable(f)
    <3>1. PICK stray \in [Unsent(f) -> Values \union {0}] : o \in Acted(f.start, Stored(f, stray), <<>>)
      BY <1>4, <2>1 DEF processModbusRequest, writeMultipleRegister
    <3>2. ASSUME o.code = 0 PROVE PositiveTrue(Response(f, o.code, o.data), o.regs)
      <4>1. o.regs = Stored(f, stray)
        BY <3>1, <3>2, ActedTrue DEF Outcome
      <4>2. ASSUME f.start + f.qty < Wrap, NEW i \in 1 .. f.qty, i <= Len(f.data)
            PROVE  o.regs[f.start + i - 1] = f.data[i]
        <5>1. EndAddress(f) = f.start + f.qty /\ EndAddress(f) <= NumRegs
          BY <1>0, <2>1, <4>2, NoWrap DEF OutOfTable
        <5>2. f.start + i - 1 \in Span(f) /\ Len(f.data) \in Nat
          BY <1>0, <5>1 DEF Span
        <5>3. f.start + i - 1 \notin Unsent(f) /\ f.start + i - 1 - f.start + 1 = i
          BY <1>0, <4>2, <5>2 DEF Unsent
        <5>4. f.start + i - 1 \in 0 .. NumRegs
          BY <5>2 DEF Span
        <5> DEFINE a == f.start + i - 1
        <5>5. a \in 0 .. NumRegs /\ a \in Span(f) /\ a \notin Unsent(f) /\ a - f.start + 1 = i
          BY <1>0, <4>2, <5>2, <5>3, <5>4
        <5> HIDE DEF a
        <5>6. Stored(f, stray)[a] = f.data[a - f.start + 1]
          BY <5>5 DEF Stored
        <5>7. Stored(f, stray)[a] = f.data[i]
          BY <5>5, <5>6
        <5> QED  BY <4>1, <5>7 DEF a
      <4> QED  BY <1>4, <4>2 DEF PositiveTrue, Response
    <3>3. Stored(f, stray) \in [0 .. NumRegs -> Cells]
      BY StoredType
    <3>. QED BY <1>a, <3>1, <3>2, <3>3
  <2>. QED BY <2>0, <2>1
<1>5. CASE f.fn = "unknown"
  BY <1>1, <1>5 DEF processModbusRequest
<1> QED  BY <1>0, <1>2, <1>3, <1>4, <1>5

LEMMA QuietStep == AskedInv /\ QuietInv /\ [Next]_vars => QuietInv'
<1> SUFFICES ASSUME AskedInv, QuietInv, [Next]_vars PROVE QuietInv'
  OBVIOUS
<1> USE DEF QuietInv
<1>0. Stuck => Stuck'
  BY StuckStays
<1>1. CASE Open \/ Assign \/ UNCHANGED vars
  <2>1. got' \in {got, NoFrame} /\ UNCHANGED <<line, tx, asked, answer>>
    BY <1>1 DEF Open, Assign, vars, lineVars, masterVars
  <2>. QED BY <1>0, <2>1, NoFrameNotGood, NoFrameNotMine DEF Good, Mine
<1>2. CASE Handle
  <2>1. got' = NoFrame /\ UNCHANGED <<line, asked, answer>> /\ ~Stuck
    BY <1>2, HandleStep DEF Stuck
  <2>2. (tx' = NoResponse <=> tx = NoResponse) \/ Mine(got)
    BY <1>2, HandleStep, ZeroedSame
  <2>3. Mine(got) => answer = NoResponse
    BY NoFrameNotMine DEF AskedInv
  <2> QED  BY <2>1, <2>2, <2>3, NoFrameNotGood, NoFrameNotMine DEF Good, Mine
<1>3. CASE EndFrame
  <2>1. line' = NoFrame /\ got' \in {got, line, NoFrame} /\ UNCHANGED <<tx, asked, answer>>
    BY <1>3, EndStep
  <2> QED  BY <2>1, NoFrameNotGood DEF Good
<1>4. CASE Fill
  <2>1. line' = Rest /\ got' = NoFrame /\ UNCHANGED <<tx, asked, answer>>
    BY <1>4 DEF Fill, masterVars
  <2>. QED BY <2>1, NoFrameNotGood, NoFrameNotMine DEF Good
<1>5. CASE TimerIrq
  <2>1. UNCHANGED <<got, line, tx, asked, answer>>
    BY <1>5 DEF TimerIrq, masterVars
  <2>. QED BY <1>0, <2>1 DEF Good, Mine
<1>6. CASE TxDone
  <2>1. tx # NoResponse /\ UNCHANGED <<got, line>> /\ ~Mine(got)
        /\ (asked' = NoFrame \/ UNCHANGED <<asked, answer>>)
    BY <1>6 DEF TxDone, lineVars, masterVars, AskedInv
  <2>. QED BY <2>1 DEF Good, Mine
<1>7. ASSUME NEW f \in Requests, Ask(f) PROVE QuietInv'
  <2>1. /\ asked = NoFrame /\ tx = NoResponse /\ tx' = tx /\ answer' = NoResponse /\ got' = got
    BY <1>7 DEF Ask, Begin
  <2>2. ~Mine(got')
    BY <2>1, NoFrameNotMine DEF AskedInv, Mine
  <2> QED  BY <2>1, <2>2
<1>8. CASE Retry
  <2>1. /\ asked # NoFrame /\ tx = NoResponse /\ state = "WAITING" /\ ~timer
        /\ UNCHANGED <<tx, got, asked, answer>>
    BY <1>8 DEF Retry, Begin, masterVars
  <2>2. Mine(got) => Stuck'
    BY <1>0, <2>1 DEF AskedInv
  <2> QED  BY <2>1, <2>2 DEF Mine
<1>9. CASE Disturb
  <2>1. PICK f \in Others : Begin(f)
    BY <1>9 DEF Disturb
  <2>2. line' = f /\ UNCHANGED <<tx, got, asked, answer>>
    BY <1>9, <2>1 DEF Disturb, Begin, masterVars
  <2>3. ~Good(line')
    BY <2>2 DEF Good, Others
  <2> QED  BY <1>0, <2>2, <2>3 DEF Mine, Good
<1> QED  BY <1>1, <1>2, <1>3, <1>4, <1>5, <1>6, <1>7, <1>8, <1>9 DEF Next, FSM

LEMMA TruthStep ==
  NumRegs + MaxQuantity <= Wrap =>
    (AskedInv /\ TableInv /\ QuietInv /\ TruthInv /\ [Next]_vars => TruthInv')
<1> SUFFICES ASSUME NumRegs + MaxQuantity <= Wrap, AskedInv, TableInv, QuietInv, TruthInv, [Next]_vars
             PROVE  TruthInv'
  OBVIOUS
<1>1. CASE Handle
  <2>1. CASE tx' \in Zeroed /\ UNCHANGED regs
    <3>1. (tx' # NoResponse => tx # NoResponse) /\ tx'.to = tx.to /\ tx'.code = tx.code /\ tx'.data = tx.data
      BY <2>1, ZeroedSame
    <3>2. Truth(tx, regs) => Truth(tx', regs)
      BY <3>1 DEF Truth, PositiveTrue
    <3>3. UNCHANGED answer
      BY <1>1, HandleStep
    <3>. QED BY <2>1, <3>1, <3>2, <3>3 DEF TruthInv
  <2>2. CASE RequestOk(got)
    <3>1. tx = NoResponse /\ answer = NoResponse
      BY <2>2 DEF QuietInv, Good, RequestOk, Own
    <3>2. PICK o \in processModbusRequest(got) :
            (tx' # NoResponse => regs' = o.regs) /\ tx' \in {NoResponse, Response(got, o.code, o.data)}
      <4>1. CASE tx' \in Zeroed
        <5>1. tx' = NoResponse
          BY <3>1, <4>1, ZeroedSame
        <5>2. \E o \in processModbusRequest(got) : TRUE
          BY <1>1, <2>2 DEF Handle
        <5>. QED BY <5>1, <5>2
      <4>. QED BY <1>1, <4>1, HandleStep
    <3>3. answer' = NoResponse
      BY <1>1, <3>1, HandleStep
    <3>4. got \in Known
      BY DEF TableInv, FramesInv
    <3>5. Truth(Response(got, o.code, o.data), o.regs)
      BY <3>4, OutcomeTrue
    <3> QED  BY <3>2, <3>3, <3>5 DEF TruthInv
  <2> QED  BY <1>1, <2>1, <2>2, HandleStep
<1>2. CASE Open \/ Assign \/ Fill \/ TimerIrq \/ TxDone \/ UNCHANGED vars
  <2>1. UNCHANGED regs /\ tx' \in {tx, NoResponse} /\ answer' \in {answer, tx}
        /\ (answer' = tx => tx = answer \/ tx # NoResponse)
    BY <1>2 DEF Open, Assign, Fill, TimerIrq, TxDone, vars, masterVars
  <2> QED  BY <2>1 DEF TruthInv
<1>3. CASE EndFrame
  BY <1>3, EndStep DEF TruthInv
<1>4. ASSUME NEW f \in Requests, Ask(f) PROVE TruthInv'
  BY <1>4 DEF Ask, Begin, TruthInv
<1>5. CASE Retry \/ Disturb
  BY <1>5 DEF Retry, Disturb, Begin, masterVars, TruthInv
<1> QED  BY <1>1, <1>2, <1>3, <1>4, <1>5 DEF Next, FSM

\* A positive answer is true for as long as the master has it, whoever else is
\* on the line: what it wrote is in the registers, what it read is what they
\* hold, and a failure of the application is told in the error register.  The table has to end a read of the largest size before the addresses
\* wrap: else a read at its end is answered well, with no register in the
\* answer (Modbus_Protocol.c:170).
THEOREM AnswerAlwaysTrue == NumRegs + MaxQuantity <= Wrap => (Spec => []AnswerTrue)
<1> DEFINE AllInv == AskedInv /\ TableInv /\ QuietInv /\ TruthInv
<1> SUFFICES ASSUME NumRegs + MaxQuantity <= Wrap PROVE Spec => []AnswerTrue
  OBVIOUS
<1>1. Init => AllInv
  <2> SUFFICES ASSUME Init PROVE AllInv
    OBVIOUS
  <2>1. AskedInv
    BY NoFrameNotMine DEF Init, AskedInv
  <2>2. TableInv
    BY KnownFrames DEF Init, TableInv, FramesInv, RegsInv, Cells
  <2>3. QuietInv
    BY NoFrameNotMine DEF Init, QuietInv
  <2>4. TruthInv
    BY DEF Init, TruthInv
  <2> QED  BY <2>1, <2>2, <2>3, <2>4
<1>2. AllInv /\ [Next]_vars => AllInv'
  BY AskedStep, TableStep, QuietStep, TruthStep
<1>3. AllInv => AnswerTrue
  BY DEF TruthInv, Truth, PositiveTrue, AnswerTrue
<1> QED  BY <1>1, <1>2, <1>3, PTL DEF Spec

-----------------------------------------------------------------------------
(* The types                                                               *)

\* The registers of a request, which lie in 16 bits.
LEMMA FrameRange ==
  ASSUME NEW f \in Known
  PROVE  f.start \in 0 .. Wrap - 1 /\ f.qty \in 0 .. Wrap - 1
<1>1. 0 \in 0 .. Wrap - 1
  BY SizeAssumption
<1>2. f.start \in Starts \union {0} /\ f.qty \in Quantities \union {0}
  BY DEF Known, Frames
<1>. QED BY <1>1, <1>2, RequestAssumption

\* A sum of two words that wraps is below either of them: a span that ends above
\* its start did not wrap.
LEMMA EndAbove ==
  ASSUME NEW f \in Known, EndAddress(f) > f.start
  PROVE  EndAddress(f) = f.start + f.qty
<1>1. Wrap \in Nat /\ f.start \in 0 .. Wrap - 1 /\ f.qty \in 0 .. Wrap - 1
  BY FrameRange, SizeAssumption
<1>2. CASE f.start + f.qty < Wrap
  BY <1>1, <1>2, NoWrap
<1>3. CASE f.start + f.qty >= Wrap
  <2>1. f.start + f.qty - Wrap \in 0 .. Wrap - 1 /\ f.start + f.qty - Wrap < f.start
    BY <1>1, <1>3
  <2>2. ASSUME NEW n \in Nat, NEW w \in Nat, w <= n, n < w + w PROVE n % w = n - w
    BY <2>2
  <2>3. EndAddress(f) = f.start + f.qty - Wrap
    BY <1>1, <1>3, <2>1, <2>2 DEF EndAddress
  <2>. QED BY <1>1, <2>1, <2>3
<1>. QED BY <1>1, <1>2, <1>3

\* An outcome says what was done with a code and at most as many registers as
\* one read may ask for.
OutcomeType(o) == o.code \in ErrorCodes \union {0} /\ o.data \in Seq(Cells) /\ Len(o.data) <= MaxQuantity

LEMMA ActedType ==
  ASSUME NEW addr, NEW r, NEW data \in Seq(Cells), Len(data) <= MaxQuantity,
         NEW o \in Acted(addr, r, data)
  PROVE  OutcomeType(o)
<1>1. PICK e \in ActionResults(addr) :
        o = IF e = 0 THEN Outcome(r, 0, data) ELSE Outcome([r EXCEPT ![ErrorReg] = e], 4, <<>>)
  BY DEF Acted
<1>2. <<>> \in Seq(Cells) /\ Len(<<>>) = 0 /\ 0 <= MaxQuantity
  BY SizeAssumption
<1>3. CASE e = 0
  BY <1>1, <1>3 DEF Outcome, OutcomeType
<1>4. CASE e # 0
  BY <1>1, <1>2, <1>4 DEF Outcome, OutcomeType, ErrorCodes
<1>. QED BY <1>3, <1>4

\* So does every outcome of a request.
LEMMA RequestType ==
  ASSUME TableInv, NEW f \in Known, NEW o \in processModbusRequest(f)
  PROVE  OutcomeType(o)
<1>1. NumRegs \in Nat /\ MaxQuantity \in Nat /\ Wrap \in Nat
  BY SizeAssumption
<1>2. <<>> \in Seq(Cells) /\ Len(<<>>) = 0 /\ Len(<<>>) <= MaxQuantity
  BY <1>1
<1>3. ASSUME NEW code \in ErrorCodes, o \in Refuse(code) PROVE OutcomeType(o)
  <2>1. o.code = code /\ o.data = <<>>
    BY <1>3 DEF Refuse, Outcome
  <2>. QED BY <1>2, <1>3, <2>1 DEF OutcomeType
<1>4. CASE f.fn = "read" /\ o \in readHoldingRegisters(f)
  <2> DEFINE n    == IF EndAddress(f) > f.start THEN f.qty ELSE 0
             data == [i \in 1 .. n |-> regs[f.start + i - 1]]
  <2>1. CASE ~Readable(f) \/ OutOfTable(f)
    BY <1>3, <1>4, <2>1 DEF readHoldingRegisters, ErrorCodes
  <2>2. CASE Readable(f) /\ ~OutOfTable(f)
    <3>1. o \in Acted(f.start, regs, data)
      BY <1>4, <2>2 DEF readHoldingRegisters
    <3>2. f.start \in Nat /\ f.qty \in 1 .. MaxQuantity
      BY <2>2, FrameFields DEF Readable
    <3>3. n \in 0 .. MaxQuantity
      BY <1>1, <3>2
    <3>4. ASSUME NEW i \in 1 .. n PROVE regs[f.start + i - 1] \in Cells
      <4>1. EndAddress(f) > f.start /\ n = f.qty
        BY <1>1, <3>2, <3>4
      <4>2. f.start + f.qty <= NumRegs
        <5>1. EndAddress(f) = f.start + f.qty
          BY <4>1, EndAbove
        <5>. QED BY <1>1, <2>2, <3>2, <5>1 DEF OutOfTable
      <4>3. f.start + i - 1 \in 0 .. NumRegs
        BY <1>1, <3>2, <3>4, <4>1, <4>2
      <4>. QED BY <4>3 DEF TableInv, RegsInv
    <3> HIDE DEF n
    <3>5. data \in Seq(Cells) /\ Len(data) = n
      BY <3>3, <3>4
    <3> HIDE DEF data
    <3>6. Len(data) <= MaxQuantity
      BY <1>1, <3>3, <3>5
    <3>. QED BY <3>1, <3>5, <3>6, ActedType
  <2>. QED BY <2>1, <2>2
<1>5. CASE f.fn = "single" /\ o \in writeSingleRegister(f)
  <2>1. CASE f.start > NumRegs \/ IllegalAddress(f.start)
    BY <1>3, <1>5, <2>1 DEF writeSingleRegister, ErrorCodes
  <2>2. CASE ~(f.start > NumRegs \/ IllegalAddress(f.start))
    <3>1. o \in Acted(f.start, [regs EXCEPT ![f.start] = f.data[1]], <<>>)
      BY <1>5, <2>2 DEF writeSingleRegister
    <3>. QED BY <1>2, <3>1, ActedType
  <2>. QED BY <2>1, <2>2
<1>6. CASE f.fn = "multiple" /\ o \in writeMultipleRegister(f)
  <2>1. CASE OutOfTable(f)
    BY <1>3, <1>6, <2>1 DEF writeMultipleRegister, ErrorCodes
  <2>2. CASE ~OutOfTable(f)
    <3>1. PICK stray \in [Unsent(f) -> Values \union {0}] : o \in Acted(f.start, Stored(f, stray), <<>>)
      BY <1>6, <2>2 DEF writeMultipleRegister
    <3>. QED BY <1>2, <3>1, ActedType
  <2>. QED BY <2>1, <2>2
<1>7. CASE f.fn = "unknown" /\ o \in Refuse(1)
  BY <1>3, <1>7 DEF ErrorCodes
<1>8. f.fn \in {"read", "single", "multiple", "unknown"}
  BY FrameFields
<1>. QED BY <1>4, <1>5, <1>6, <1>7, <1>8 DEF processModbusRequest

\* The state machine, the driver and the answers.
StateInv == state \in {"IDLE", "WAITING", "RECEIVING", "RECEIVED", "SENDING"}

LinkInv ==
  /\ StateInv
  /\ rx \in {"closed", "empty", "some"} /\ heard \in {"none", "whole", "tail", "joined"}
  /\ timer \in BOOLEAN /\ wakeLost \in BOOLEAN
  /\ IsResponse(tx) /\ IsResponse(answer)

\* No response is a response of no registers.
LEMMA NoResponseType == IsResponse(NoResponse)
BY SizeAssumption, KnownFrames DEF IsResponse, NoResponse, Response, Known

\* A frame that begins starts the timer of a driver that receives.
LEMMA BeginType ==
  ASSUME LinkInv, NEW f, Begin(f), answer' \in {answer, NoResponse}
  PROVE  LinkInv'
<1>1. /\ heard' \in {"none", "whole", "joined"} /\ UNCHANGED <<tx, wakeLost>>
      /\ \/ UNCHANGED <<rx, timer, state>>
         \/ rx' = "some" /\ timer' = TRUE /\ state' = "RECEIVING"
  BY DEF Begin, InProgress, LinkInv
<1>. QED BY <1>1, NoResponseType DEF LinkInv, StateInv, IsResponse

\* Every step of the server, the link and the master keeps the types.
LEMMA LinkStep == AskedInv /\ TableInv /\ LinkInv /\ [Next]_vars => LinkInv'
<1> SUFFICES ASSUME AskedInv, TableInv, LinkInv, [Next]_vars PROVE LinkInv'
  OBVIOUS
<1>1. ASSUME UNCHANGED <<tx, answer>>, StateInv', rx' \in {"closed", "empty", "some"},
             heard' \in {"none", "whole", "tail", "joined"}, timer' \in BOOLEAN, wakeLost' \in BOOLEAN
      PROVE  LinkInv'
  BY <1>1 DEF LinkInv, IsResponse
<1>2. CASE Open
  <2>1. UNCHANGED <<tx, answer, state, timer>> /\ wakeLost' = FALSE
        /\ rx' \in {"empty", rx} /\ heard' \in {"none", "tail", heard}
    BY <1>2 DEF Open, masterVars
  <2>. QED BY <1>1, <2>1 DEF LinkInv, StateInv
<1>3. CASE Assign
  <2>1. UNCHANGED <<tx, answer, rx, heard, timer, wakeLost>> /\ state' = pending /\ pending # "none"
    BY <1>3 DEF Assign, lineVars, masterVars
  <2>. QED BY <1>1, <2>1 DEF LinkInv, StateInv, AskedInv
<1>4. CASE Fill
  <2>1. UNCHANGED <<tx, answer, wakeLost>> /\ state' = "RECEIVED" /\ rx' = "closed" /\ timer' = TRUE
        /\ heard' = "none"
    BY <1>4 DEF Fill, Full, masterVars
  <2>. QED BY <1>1, <2>1 DEF LinkInv, StateInv
<1>5. CASE EndFrame
  <2>1. UNCHANGED <<tx, answer, wakeLost>> /\ heard' = "none"
        /\ \/ UNCHANGED <<rx, timer, state>>
           \/ rx' = "closed" /\ timer' = TRUE /\ state' = "RECEIVED"
           \/ rx' = "some" /\ timer' = TRUE /\ state' = "RECEIVING"
    BY <1>5 DEF EndFrame, Full, InProgress, masterVars
  <2>. QED BY <1>1, <2>1 DEF LinkInv, StateInv
<1>6. CASE TimerIrq
  <2>1. UNCHANGED <<tx, answer>> /\ state' = "RECEIVED" /\ rx' = "closed" /\ timer' = FALSE
        /\ heard' = "none" /\ wakeLost' \in BOOLEAN
    BY <1>6 DEF TimerIrq, Stop, masterVars
  <2>. QED BY <1>1, <2>1 DEF LinkInv, StateInv
<1>7. CASE TxDone
  <2>1. UNCHANGED <<rx, timer, heard, wakeLost>> /\ state' = "IDLE" /\ tx' = NoResponse
        /\ answer' \in {tx, answer}
    BY <1>7 DEF TxDone, lineVars, masterVars
  <2>. QED BY <2>1, NoResponseType DEF LinkInv, StateInv, IsResponse
<1>8. CASE Handle
  <2>1. UNCHANGED <<rx, timer, heard, wakeLost, answer>> /\ state' \in {state, "IDLE"}
    BY <1>8, HandleStep
  <2>2. IsResponse(answer)' /\ StateInv'
    BY <2>1 DEF LinkInv, StateInv, IsResponse
  <2>3. CASE tx' \in Zeroed
    <3>1. tx'.to = tx.to /\ tx'.code = tx.code /\ tx'.data = tx.data /\ (tx' = tx \/ tx'.ok = FALSE)
      BY <2>3, ZeroedSame
    <3>2. IsResponse(tx')
      BY <3>1 DEF LinkInv, IsResponse
    <3>. QED BY <2>1, <2>2, <3>2 DEF LinkInv, IsResponse
  <2>4. ASSUME NEW o \in processModbusRequest(got), tx' = Response(got, o.code, o.data)
        PROVE  LinkInv'
    <3>1. got \in Known
      BY DEF TableInv, FramesInv
    <3>2. OutcomeType(o)
      BY <3>1, RequestType
    <3>3. IsResponse(tx')
      BY <2>4, <3>1, <3>2 DEF IsResponse, Response, OutcomeType, Known
    <3>. QED BY <2>1, <2>2, <3>3 DEF LinkInv, IsResponse
  <2>. QED BY <1>8, <2>3, <2>4, HandleStep
<1>9. ASSUME NEW f \in Requests, Ask(f) PROVE LinkInv'
  BY <1>9, BeginType DEF Ask
<1>10. CASE Retry \/ Disturb
  BY <1>10, BeginType DEF Retry, Disturb, masterVars
<1>11. CASE UNCHANGED vars
  BY <1>1, <1>11 DEF vars, linkVars, lineVars, masterVars, LinkInv, StateInv
<1>. QED BY <1>2, <1>3, <1>4, <1>5, <1>6, <1>7, <1>8, <1>9, <1>10, <1>11 DEF Next, FSM

\* Whatever is asked and whatever else is on the line, the registers, with the
\* word behind them, hold values or error codes, and no answer has more registers
\* than a read may ask for: the bound of the table is checked after the addition
\* has wrapped, and a span that ends above its start has not.
THEOREM TypeCorrect == Spec => []TypeOK
<1>1. Init => AskedInv /\ TableInv /\ LinkInv /\ noise \in 0 .. MaxNoise
  <2> SUFFICES ASSUME Init PROVE AskedInv /\ TableInv /\ LinkInv /\ noise \in 0 .. MaxNoise
    OBVIOUS
  <2>1. TableInv
    BY KnownFrames DEF Init, TableInv, FramesInv, RegsInv, Cells
  <2>2. LinkInv
    BY NoResponseType DEF Init, LinkInv, StateInv
  <2>3. AskedInv
    BY NoFrameNotMine DEF Init, AskedInv
  <2>. QED BY <2>1, <2>2, <2>3, SizeAssumption DEF Init
<1>2. noise \in 0 .. MaxNoise /\ [Next]_vars => (noise \in 0 .. MaxNoise)'
  <2>1. [Next]_vars => noise' = noise \/ (noise < MaxNoise /\ noise' = noise + 1)
    BY DEF Next, FSM, Open, Assign, Handle, EndFrame, Fill, TimerIrq, TxDone, Ask, Retry, Disturb, vars
  <2>. QED BY <2>1, SizeAssumption
<1>3. AskedInv /\ TableInv /\ LinkInv /\ noise \in 0 .. MaxNoise => TypeOK
  BY DEF AskedInv, TableInv, FramesInv, RegsInv, LinkInv, StateInv, Known, TypeOK
<1>. QED BY <1>1, <1>2, <1>3, AskedStep, TableStep, LinkStep, PTL DEF Spec

-----------------------------------------------------------------------------
(* The word behind the table                                               *)

\* What an outcome leaves behind the table: all but a single write to the
\* address one past its end leave the word there alone, and that write is
\* answered with a failure.
Spared(o, f) == o.regs[NumRegs] # regs[NumRegs] => f.fn = "single" /\ f.start = NumRegs /\ o.code = 4

\* The error register is in the table, and the addresses with an action are.
LEMMA ActedSpares ==
  ASSUME NEW f, NEW addr, NEW r \in [0 .. NumRegs -> Cells], NEW data, NEW o \in Acted(addr, r, data),
         r[NumRegs] # regs[NumRegs] => f.fn = "single" /\ f.start = NumRegs /\ addr = NumRegs
  PROVE  Spared(o, f)
<1>1. PICK e \in ActionResults(addr) :
        o = IF e = 0 THEN Outcome(r, 0, data) ELSE Outcome([r EXCEPT ![ErrorReg] = e], 4, <<>>)
  BY DEF Acted
<1>2. NumRegs \notin Registered /\ ErrorReg # NumRegs /\ NumRegs \in 0 .. NumRegs
  BY RegisterAssumption, SizeAssumption
<1>3. CASE e = 0
  <2>1. o.regs = r /\ addr \in Registered
    BY <1>1, <1>3 DEF Outcome, ActionResults
  <2>. QED BY <1>2, <2>1 DEF Spared
<1>4. CASE e # 0
  <2>1. o.regs = [r EXCEPT ![ErrorReg] = e] /\ o.code = 4
    BY <1>1, <1>4 DEF Outcome
  <2>2. o.regs[NumRegs] = r[NumRegs]
    BY <1>2, <2>1
  <2>. QED BY <2>1, <2>2 DEF Spared
<1>. QED BY <1>3, <1>4

\* A span that is in the table does not reach the word behind it.
LEMMA RequestSpares ==
  ASSUME TableInv, NEW f \in Known, NEW o \in processModbusRequest(f)
  PROVE  Spared(o, f)
<1>1. /\ f.start \in Nat /\ f.qty \in Nat /\ NumRegs \in Nat
      /\ f.fn = "single" => f.data[1] \in Cells
  BY FrameFields, SizeAssumption DEF Cells
<1>2. regs \in [0 .. NumRegs -> Cells]
  BY DEF TableInv, RegsInv
<1>3. ASSUME NEW code, o \in Refuse(code) PROVE Spared(o, f)
  BY <1>3 DEF Refuse, Outcome, Spared
<1>4. CASE f.fn = "read" /\ o \in readHoldingRegisters(f)
  BY <1>2, <1>3, <1>4, ActedSpares DEF readHoldingRegisters
<1>5. CASE f.fn = "single" /\ o \in writeSingleRegister(f)
  <2>1. CASE f.start > NumRegs \/ IllegalAddress(f.start)
    BY <1>3, <1>5, <2>1 DEF writeSingleRegister
  <2>2. CASE ~(f.start > NumRegs \/ IllegalAddress(f.start))
    <3> DEFINE r == [regs EXCEPT ![f.start] = f.data[1]]
    <3>1. o \in Acted(f.start, r, <<>>)
      BY <1>5, <2>2 DEF writeSingleRegister
    <3>2. r \in [0 .. NumRegs -> Cells] /\ (r[NumRegs] # regs[NumRegs] => f.start = NumRegs)
      <4>1. r \in [0 .. NumRegs -> Cells]
        BY <1>1, <1>2, <1>5
      <4>2. f.start # NumRegs /\ NumRegs \in 0 .. NumRegs => r[NumRegs] = regs[NumRegs]
        BY <1>2
      <4>. QED BY <1>1, <4>1, <4>2
    <3> HIDE DEF r
    <3>. QED BY <1>5, <3>1, <3>2, ActedSpares
  <2>. QED BY <2>1, <2>2
<1>6. CASE f.fn = "multiple" /\ o \in writeMultipleRegister(f)
  <2>1. CASE OutOfTable(f)
    BY <1>3, <1>6, <2>1 DEF writeMultipleRegister
  <2>2. CASE ~OutOfTable(f)
    <3>1. PICK stray \in [Unsent(f) -> Values \union {0}] : o \in Acted(f.start, Stored(f, stray), <<>>)
      BY <1>6, <2>2 DEF writeMultipleRegister
    <3>2. EndAddress(f) \in Nat /\ EndAddress(f) <= NumRegs
      BY <1>1, <2>2, EndBound DEF OutOfTable
    <3>3. NumRegs \notin Span(f)
      BY <1>1, <3>2 DEF Span
    <3>4. Stored(f, stray) \in [0 .. NumRegs -> Cells] /\ Stored(f, stray)[NumRegs] = regs[NumRegs]
      BY <1>1, <3>3, StoredType
    <3>. QED BY <3>1, <3>4, ActedSpares
  <2>. QED BY <2>1, <2>2
<1>7. CASE f.fn = "unknown" /\ o \in Refuse(1)
  BY <1>3, <1>7
<1>8. f.fn \in {"read", "single", "multiple", "unknown"}
  BY FrameFields
<1>. QED BY <1>4, <1>5, <1>6, <1>7, <1>8 DEF processModbusRequest

\* A request that is executed is answered with its own outcome, if at all.
LEMMA HandleReplies ==
  ASSUME AskedInv, Handle, RequestOk(got)
  PROVE  \E o \in processModbusRequest(got) :
           regs' = o.regs /\ (Replies(got) => tx' = Response(got, o.code, o.data))
<1>1. PICK o \in processModbusRequest(got) : regs' = o.regs /\ (Replies(got) => Respond(got, o))
  BY DEF Handle
<1>2. Replies(got) => tx = NoResponse
  BY DEF RequestOk, Replies, Mine, AskedInv
<1>. QED BY <1>1, <1>2 DEF Respond

\* The single write one past the end is handled, and a failure is answered.
Overrun ==
  /\ state = "RECEIVED" /\ got.fn = "single" /\ got.start = NumRegs
  /\ Replies(got) => tx'.code = 4

\* How far the violation of TableOnly goes: the word behind the table is changed
\* by nothing but a single write to the address one past the end, and its sender
\* is told of a failure.  (Modbus_Protocol.c:232)
THEOREM OnlySingleOverruns == Spec => [][regs'[NumRegs] # regs[NumRegs] => Overrun]_vars
<1>1. Init => TableInv /\ AskedInv
  BY NoFrameNotMine, KnownFrames DEF Init, TableInv, FramesInv, RegsInv, Cells, AskedInv
<1>2. TableInv /\ AskedInv /\ [Next]_vars => [regs'[NumRegs] # regs[NumRegs] => Overrun]_vars
  <2> SUFFICES ASSUME TableInv, AskedInv, Next, regs'[NumRegs] # regs[NumRegs] PROVE Overrun
    OBVIOUS
  <2>1. Handle /\ RequestOk(got)
    BY RegsStep
  <2>2. PICK o \in processModbusRequest(got) :
          regs' = o.regs /\ (Replies(got) => tx' = Response(got, o.code, o.data))
    BY <2>1, HandleReplies
  <2>3. Spared(o, got)
    BY RequestSpares DEF TableInv, FramesInv
  <2>4. got.fn = "single" /\ got.start = NumRegs /\ o.code = 4
    BY <2>2, <2>3 DEF Spared
  <2>5. Replies(got) => tx'.code = 4
    BY <2>2, <2>4 DEF Response
  <2>. QED BY <2>1, <2>4, <2>5 DEF Overrun, Handle
<1>. QED BY <1>1, <1>2, TableStep, AskedStep, PTL DEF Spec
=============================================================================
