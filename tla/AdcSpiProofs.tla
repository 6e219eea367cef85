---------------------------- MODULE AdcSpiProofs ----------------------------
(***************************************************************************)
(* What holds of the reads of the converter for any set of channels and    *)
(* any number of register writes that it misses.                           *)
(***************************************************************************)
EXTENDS AdcSpi, TLAPS

\* Main has handed words to the port, or the exchange is over: as many words are
\* in as are out, and main has the converter selected.
PortInv ==
  /\ cs => pc \in Exchanges /\ spi.num = Words[pc]
  /\ spi.busy => /\ cs /\ wire # "quiet"
                 /\ spi.tmpRx = spi.tmpTx - 1 /\ spi.tmpTx >= 1 /\ spi.tmpTx <= spi.num
  /\ ~spi.busy => wire = "quiet" /\ spi.tmpRx = spi.num /\ spi.tmpTx = spi.num

\* The status byte names the channel of a result that main has let through; the
\* converter starts to send it before there is any.
ChannelInv ==
  /\ pc \in {"reset", "id", "clear", "stat", "setup", "mode0"} => result = {}
  /\ ChannelRight

TypeInv == TypeOK /\ PortInv /\ ChannelInv

LEMMA WordsBounds == \A x \in Exchanges : Words[x] \in 1 .. 4
BY DEF Exchanges, Writes, Words

LEMMA InitType == Init => TypeInv
<1> SUFFICES ASSUME Init PROVE TypeInv
  OBVIOUS
<1>1. NoSample \in Samples /\ 0 \in Channels
  BY ChannelsAssumption DEF NoSample, Samples
<1>2. TypeOK
  <2>1. /\ dev \in [enabled : SUBSET Channels, stat : BOOLEAN, pending : SUBSET Channels, fresh : BOOLEAN]
        /\ out \in [ready : BOOLEAN, sample : Samples]
    BY <1>1 DEF Init
  <2>2. /\ reply \in [ready : BOOLEAN, sample : Samples]
        /\ spi \in [busy : BOOLEAN, num : 0 .. 4, tmpRx : 0 .. 4, tmpTx : 0 .. 4]
        /\ missed \in 0 .. MaxMissed /\ pc \in Exchanges
    BY <1>1, MaxMissedAssumption DEF Init, Exchanges
  <2>. QED BY <1>1, <2>1, <2>2 DEF Init, TypeOK
<1>3. PortInv /\ ChannelInv
  BY DEF Init, PortInv, ChannelInv, ChannelRight
<1>. QED BY <1>2, <1>3 DEF TypeInv

LEMMA ConvertType == TypeInv /\ Convert => TypeInv'
<1> SUFFICES ASSUME TypeInv, Convert PROVE TypeInv'
  OBVIOUS
<1>1. PICK c \in dev.pending :
        /\ dev' = [dev EXCEPT !.pending = @ \ {c}]
        /\ out' = [ready |-> TRUE, sample |-> [channel |-> c, fresh |-> dev.fresh]]
  BY DEF Convert
<1>2. /\ dev' \in [enabled : SUBSET Channels, stat : BOOLEAN, pending : SUBSET Channels, fresh : BOOLEAN]
      /\ dev'.stat = dev.stat /\ out' \in [ready : BOOLEAN, sample : Samples]
  BY <1>1 DEF TypeInv, TypeOK, Samples
<1>. QED BY <1>2 DEF TypeInv, TypeOK, PortInv, ChannelInv, ChannelRight, Convert, mainVars, portVars

LEMMA ShiftType == TypeInv /\ Shift => TypeInv'
<1> SUFFICES ASSUME TypeInv, Shift PROVE TypeInv'
  OBVIOUS
<1>1. /\ UNCHANGED <<mainVars, cs, spi, heard, missed>> /\ wire = "shifting" /\ wire' = "idle"
  BY DEF Shift, Respond
<1>2. spi.busy
  BY <1>1 DEF TypeInv, PortInv
<1>3. PortInv'
  BY <1>1, <1>2 DEF TypeInv, PortInv, mainVars
<1>4. NoSample \in Samples /\ {0} \subseteq Channels
  BY ChannelsAssumption DEF NoSample, Samples
<1>5. Trigger \in [enabled : SUBSET Channels, stat : BOOLEAN, pending : SUBSET Channels, fresh : BOOLEAN]
      /\ Trigger.stat = dev.stat
  BY DEF Trigger, TypeInv, TypeOK
<1>6. pc \in Writes =>
        /\ Written \in [enabled : SUBSET Channels, stat : BOOLEAN, pending : SUBSET Channels, fresh : BOOLEAN]
        /\ pc # "stat" => Written.stat = dev.stat
  BY <1>5 DEF Written, Writes, TypeInv, TypeOK
<1>7. /\ dev' \in [enabled : SUBSET Channels, stat : BOOLEAN, pending : SUBSET Channels, fresh : BOOLEAN]
      /\ out' \in [ready : BOOLEAN, sample : Samples]
      /\ reply' \in [ready : BOOLEAN, sample : Samples]
      /\ dev'.stat => dev.stat \/ pc = "stat"
  <2>1. CASE pc = "reset" /\ dev' = [enabled |-> {0}, stat |-> FALSE, pending |-> {}, fresh |-> FALSE]
             /\ out' = [ready |-> FALSE, sample |-> NoSample] /\ UNCHANGED reply
    BY <1>4, <2>1 DEF TypeInv, TypeOK
  <2>2. CASE pc \in Writes /\ dev' = Written
             /\ out' = [out EXCEPT !.ready = @ /\ pc \notin {"mode0", "mode"}] /\ UNCHANGED reply
    BY <1>6, <2>2 DEF TypeInv, TypeOK
  <2>3. CASE reply' = [reply EXCEPT !.ready = out.ready] /\ UNCHANGED <<dev, out>>
    BY <2>3 DEF TypeInv, TypeOK
  <2>4. CASE reply' = [reply EXCEPT !.sample = out.sample] /\ out' = [out EXCEPT !.ready = FALSE]
             /\ UNCHANGED dev
    BY <2>4 DEF TypeInv, TypeOK
  <2>5. CASE UNCHANGED <<reply, dev, out>>
    BY <2>5 DEF TypeInv, TypeOK
  <2>. QED BY <2>1, <2>2, <2>3, <2>4, <2>5 DEF Shift, Respond
<1>8. TypeOK'
  BY <1>1, <1>7 DEF TypeInv, TypeOK, mainVars
<1>9. ChannelInv'
  BY <1>1, <1>7 DEF TypeInv, ChannelInv, ChannelRight, mainVars
<1>. QED BY <1>3, <1>8, <1>9 DEF TypeInv

LEMMA IrqType == TypeInv /\ SPI_IRQ => TypeInv'
<1> SUFFICES ASSUME TypeInv, SPI_IRQ PROVE TypeInv'
  OBVIOUS
<1>1. UNCHANGED <<mainVars, cs, devVars>> /\ wire = "idle"
  BY DEF SPI_IRQ
<1>2. /\ spi.busy /\ cs /\ pc \in Exchanges /\ spi.num = Words[pc]
      /\ spi.tmpRx = spi.tmpTx - 1 /\ spi.tmpTx >= 1 /\ spi.tmpTx <= spi.num
  BY <1>1 DEF TypeInv, PortInv
<1>3. spi.num \in 0 .. 4 /\ spi.tmpRx \in 0 .. 4 /\ spi.tmpTx \in 0 .. 4
  BY DEF TypeInv, TypeOK
<1>4. spi.tmpRx < spi.num /\ spi.tmpRx + 1 = spi.tmpTx
  BY <1>2, <1>3
<1>5. CASE spi.tmpTx = spi.num
  <2>1. spi' = [spi EXCEPT !.tmpRx = spi.tmpTx, !.busy = FALSE] /\ wire' = "quiet"
    BY <1>4, <1>5 DEF SPI_IRQ, LastWord
  <2>2. /\ spi' \in [busy : BOOLEAN, num : 0 .. 4, tmpRx : 0 .. 4, tmpTx : 0 .. 4]
        /\ ~spi'.busy /\ spi'.tmpRx = spi'.num /\ spi'.tmpTx = spi'.num /\ spi'.num = spi.num
    BY <1>3, <1>5, <2>1 DEF TypeInv, TypeOK
  <2>. QED BY <1>1, <1>2, <2>1, <2>2 DEF TypeInv, TypeOK, PortInv, ChannelInv, ChannelRight, mainVars, devVars
<1>6. CASE spi.tmpTx # spi.num
  <2>1. spi' = [spi EXCEPT !.tmpRx = spi.tmpTx, !.tmpTx = @ + 1] /\ wire' = "shifting"
    BY <1>4, <1>6 DEF SPI_IRQ, LastWord
  <2>2. spi.tmpTx + 1 \in 0 .. 4 /\ spi.tmpTx + 1 <= spi.num
    BY <1>2, <1>3, <1>6
  <2>3. /\ spi' \in [busy : BOOLEAN, num : 0 .. 4, tmpRx : 0 .. 4, tmpTx : 0 .. 4]
        /\ spi'.busy /\ spi'.tmpRx = spi.tmpTx /\ spi'.tmpTx = spi.tmpTx + 1 /\ spi'.num = spi.num
    BY <1>2, <2>1, <2>2 DEF TypeInv, TypeOK
  <2>4. spi'.tmpRx = spi'.tmpTx - 1 /\ spi'.tmpTx >= 1 /\ spi'.tmpTx <= spi'.num
    BY <1>2, <1>3, <2>2, <2>3
  <2>. QED BY <1>1, <1>2, <2>1, <2>3, <2>4 DEF TypeInv, TypeOK, PortInv, ChannelInv, ChannelRight, mainVars, devVars
<1>. QED BY <1>5, <1>6

LEMMA BeginType == TypeInv /\ Begin => TypeInv'
<1> SUFFICES ASSUME TypeInv, Begin PROVE TypeInv'
  OBVIOUS
<1>1. /\ UNCHANGED <<mainVars, reply, dev, out>> /\ cs' /\ wire' = "shifting"
      /\ spi' = [busy |-> TRUE, num |-> Words[pc], tmpRx |-> 0, tmpTx |-> 1]
  BY DEF Begin, SPI_Transact
<1>2. pc \in Exchanges /\ Words[pc] \in 1 .. 4
  BY WordsBounds DEF Begin, TypeInv, TypeOK
<1>3. missed' \in 0 .. MaxMissed /\ heard' \in BOOLEAN
  <2>1. missed \in 0 .. MaxMissed
    BY DEF TypeInv, TypeOK
  <2>2. CASE heard' = TRUE /\ UNCHANGED missed
    BY <2>1, <2>2
  <2>3. CASE missed < MaxMissed /\ heard' = FALSE /\ missed' = missed + 1
    <3>1. missed + 1 \in 0 .. MaxMissed
      BY <2>1, <2>3, MaxMissedAssumption
    <3>. QED BY <2>3, <3>1
  <2>. QED BY <2>2, <2>3 DEF Begin
<1>4. /\ spi' \in [busy : BOOLEAN, num : 0 .. 4, tmpRx : 0 .. 4, tmpTx : 0 .. 4]
      /\ spi'.busy /\ spi'.num = Words[pc] /\ spi'.tmpRx = 0 /\ spi'.tmpTx = 1
  BY <1>1, <1>2
<1>5. spi'.tmpRx = spi'.tmpTx - 1 /\ spi'.tmpTx >= 1 /\ spi'.tmpTx <= spi'.num
  BY <1>2, <1>4
<1>. QED BY <1>1, <1>2, <1>3, <1>4, <1>5 DEF TypeInv, TypeOK, PortInv, ChannelInv, ChannelRight, mainVars

\* The ends of the exchanges, and the calls and the clock: main alone moves.
Ends == Reset \/ ReadID \/ Clear \/ Stat \/ Setup \/ Mode0 \/ On \/ Mode \/ Status
        \/ TimeOff \/ Data \/ Off

LEMMA EndsType == TypeInv /\ Ends => TypeInv'
<1> SUFFICES ASSUME TypeInv, Ends PROVE TypeInv'
  OBVIOUS
<1>1. /\ cs' = FALSE /\ ~spi.busy /\ UNCHANGED <<spi, wire, devVars>>
  BY DEF Ends, End, Reset, ReadID, Clear, Stat, Setup, Mode0, On, Mode, Status, TimeOff, Data, Off
<1>2. PortInv'
  BY <1>1 DEF TypeInv, PortInv
<1>3. /\ pc' \in Exchanges \union {"rest"} /\ channel' \in Channels /\ UNCHANGED late
      /\ result' \in {{}} \union {{s} : s \in Samples}
      /\ ChannelInv'
  <2>1. CASE Clear
    <3>1. pc = "clear" /\ pc' \in {"clear", "stat"} /\ channel' \in Channels /\ UNCHANGED <<late, result>>
      BY <2>1 DEF Clear, End, Goto, First, TypeInv, TypeOK
    <3>2. result' = {}
      BY <3>1 DEF TypeInv, ChannelInv
    <3>. QED BY <3>1, <3>2 DEF Exchanges, Writes, ChannelInv, ChannelRight
  <2>2. CASE Off
    <3>1. PICK tag \in Tag(reply.sample) : result' = IF Accepted(tag) THEN {reply.sample} ELSE {}
      BY <2>2 DEF Off
    <3>2. reply.sample \in Samples /\ pc' = "rest" /\ UNCHANGED <<channel, late, dev>>
      BY <1>1, <2>2 DEF Off, TypeInv, TypeOK, devVars
    <3>3. dev.stat => tag = reply.sample.channel
      BY DEF Tag
    <3>. QED BY <3>1, <3>2, <3>3 DEF Accepted, ChannelInv, ChannelRight, TypeInv, TypeOK
  <2>3. CASE Reset \/ ReadID \/ Stat \/ Setup \/ Mode0
    <3>1. /\ pc \in {"reset", "id", "stat", "setup", "mode0"} /\ UNCHANGED <<channel, late, result>>
          /\ pc' \in {"id", "clear", "setup", "mode0", "rest"}
      BY <2>3 DEF Reset, ReadID, Stat, Setup, Mode0, End, Goto
    <3>. QED BY <3>1 DEF TypeInv, TypeOK, ChannelInv, ChannelRight, Exchanges, Writes
  <2>4. CASE On \/ Mode \/ Status \/ TimeOff \/ Data
    <3>1. /\ UNCHANGED <<channel, late, result>>
          /\ pc' \in {"mode", "status", "timeoff", "data", "rest", "off"}
      BY <2>4 DEF On, Mode, Status, TimeOff, Data, Abandon, End, Goto
    <3>2. UNCHANGED dev
      BY <1>1 DEF devVars
    <3>. QED BY <3>1, <3>2 DEF TypeInv, TypeOK, ChannelInv, ChannelRight, Exchanges, Writes
  <2>. QED BY <2>1, <2>2, <2>3, <2>4 DEF Ends
<1>4. TypeOK'
  BY <1>1, <1>3 DEF TypeInv, TypeOK, devVars
<1>. QED BY <1>2, <1>3, <1>4 DEF TypeInv

LEMMA AskType == TypeInv /\ Ask => TypeInv'
<1> SUFFICES ASSUME TypeInv, Ask PROVE TypeInv'
  OBVIOUS
<1>1. /\ channel' \in Channels /\ pc = "rest" /\ pc' = "on" /\ late' = FALSE /\ result' = {}
      /\ UNCHANGED <<portVars, reply, heard, missed>>
      /\ dev' = [dev EXCEPT !.fresh = FALSE] /\ out' = [out EXCEPT !.sample.fresh = FALSE]
  BY DEF Ask
<1>2. [out.sample EXCEPT !.fresh = FALSE] \in Samples
  BY DEF TypeInv, TypeOK, Samples
<1>3. out' = [out EXCEPT !.sample = [out.sample EXCEPT !.fresh = FALSE]]
  BY <1>1 DEF TypeInv, TypeOK
<1>4. /\ dev' \in [enabled : SUBSET Channels, stat : BOOLEAN, pending : SUBSET Channels, fresh : BOOLEAN]
      /\ out' \in [ready : BOOLEAN, sample : Samples]
  BY <1>1, <1>2, <1>3 DEF TypeInv, TypeOK
<1>5. ~cs
  BY <1>1 DEF TypeInv, PortInv, Exchanges, Writes
<1>. QED BY <1>1, <1>4, <1>5 DEF TypeInv, TypeOK, PortInv, ChannelInv, ChannelRight, portVars, Exchanges, Writes

LEMMA ElapseType == TypeInv /\ Elapse => TypeInv'
BY DEF TypeInv, TypeOK, PortInv, ChannelInv, ChannelRight, Elapse, portVars, devVars

LEMMA StepType == TypeInv /\ [Next]_vars => TypeInv'
<1> SUFFICES ASSUME TypeInv, [Next]_vars PROVE TypeInv'
  OBVIOUS
<1>1. CASE Begin BY <1>1, BeginType
<1>2. CASE Ends BY <1>2, EndsType
<1>3. CASE Ask BY <1>3, AskType
<1>4. CASE Elapse BY <1>4, ElapseType
<1>5. CASE Shift BY <1>5, ShiftType
<1>6. CASE SPI_IRQ BY <1>6, IrqType
<1>7. CASE Convert BY <1>7, ConvertType
<1>8. CASE UNCHANGED vars
  BY <1>8 DEF TypeInv, TypeOK, PortInv, ChannelInv, ChannelRight, vars, mainVars, portVars, devVars
<1>. QED BY <1>1, <1>2, <1>3, <1>4, <1>5, <1>6, <1>7, <1>8 DEF Next, Main, Ends

\* Every variable keeps its type: no count of the driver leaves its buffer, and
\* no channel but those of the board is ever enabled.  (SPI_IRQ, adc_spi.c)
THEOREM TypeCorrect == Spec => []TypeOK
<1>1. TypeInv => TypeOK
  BY DEF TypeInv
<1>. QED BY <1>1, InitType, StepType, PTL DEF Spec

\* No exchange is under way when main has deselected the converter: no interrupt
\* writes into a buffer that is left, and every word of the reply is stored.
\* (AD4115_Wait looks at txState only)
THEOREM ExchangeAlwaysOver == Spec => []ExchangeOver
<1>1. TypeInv => ExchangeOver
  BY DEF TypeInv, PortInv, ExchangeOver
<1>. QED BY <1>1, InitType, StepType, PTL DEF Spec

\* Whatever writes the converter has missed, a sample is of the channel asked
\* for, if the converter sends the channel with it.  (adc_spi.c:122-135)
THEOREM ChannelAlwaysRight == Spec => []ChannelRight
<1>1. TypeInv => ChannelRight
  BY DEF TypeInv, ChannelInv
<1>. QED BY <1>1, InitType, StepType, PTL DEF Spec
-----------------------------------------------------------------------------
(* The sample of a read, when the converter takes every write              *)

\* The last word of the exchange is in, or the first.
LastIn  == cs /\ (~spi.busy \/ (wire = "idle" /\ spi.tmpTx = spi.num))
FirstIn == cs /\ (wire # "shifting" \/ spi.tmpTx # 1)

\* The sample of the read that goes on.
Wanted == [channel |-> channel, fresh |-> TRUE]

\* At most one channel is enabled, and none between the reads.
EnabledInv ==
  /\ pc \in {"reset", "id"} => channel = 0
  /\ (pc = "reset" /\ LastIn) \/ pc = "id" => dev.enabled = {0}
  /\ pc \in {"clear", "on", "timeoff", "off"} => dev.enabled \subseteq {channel}
  /\ pc \in {"clear", "timeoff", "off"} /\ LastIn => dev.enabled = {}
  /\ pc \in {"stat", "setup", "mode0", "rest"} => dev.enabled = {}
  /\ (pc = "on" /\ LastIn) \/ pc \in {"mode", "status", "data"} => dev.enabled = {channel}

\* Once its conversion is triggered, what the converter has ready, what it sends
\* and what is returned belong to the read.
SampleInv ==
  /\ (pc = "mode" /\ LastIn) \/ pc \in {"status", "data", "timeoff", "off"} =>
       /\ dev.pending \subseteq {channel} /\ dev.fresh
       /\ out.ready => out.sample = Wanted
  /\ (pc = "status" /\ LastIn /\ reply.ready) \/ pc = "data" => out.sample = Wanted
  /\ (pc = "data" /\ FirstIn) \/ pc = "off" => reply.sample = Wanted
  /\ result \subseteq {Wanted}

FreshInv == missed = 0 => (cs => heard) /\ EnabledInv /\ SampleInv

LEMMA InitFresh == Init => FreshInv
BY DEF Init, FreshInv, EnabledInv, SampleInv, LastIn, FirstIn

LEMMA ConvertFresh == TypeInv /\ FreshInv /\ Convert => FreshInv'
<1> SUFFICES ASSUME TypeInv, FreshInv, Convert, missed = 0
             PROVE  ((cs => heard) /\ EnabledInv /\ SampleInv)'
  BY DEF FreshInv, Convert
<1>1. PICK c \in dev.pending :
        /\ dev' = [dev EXCEPT !.pending = @ \ {c}]
        /\ out' = [ready |-> TRUE, sample |-> [channel |-> c, fresh |-> dev.fresh]]
  BY DEF Convert
<1>2. UNCHANGED <<mainVars, portVars, reply, heard, missed>>
  BY DEF Convert
<1>3. /\ dev'.pending = dev.pending \ {c} /\ dev'.enabled = dev.enabled /\ dev'.fresh = dev.fresh
      /\ out'.ready /\ out'.sample = [channel |-> c, fresh |-> dev.fresh]
  BY <1>1 DEF TypeInv, TypeOK
<1>4. EnabledInv /\ SampleInv /\ (cs => heard)
  BY DEF FreshInv
<1>5. /\ pc' = pc /\ channel' = channel /\ result' = result /\ reply' = reply
      /\ LastIn' = LastIn /\ FirstIn' = FirstIn /\ Wanted' = Wanted
  BY <1>2 DEF mainVars, portVars, LastIn, FirstIn, Wanted
<1>6. EnabledInv'
  BY <1>3, <1>4, <1>5 DEF EnabledInv
<1>7. dev.pending \subseteq {channel} /\ dev.fresh => out'.sample = Wanted
  <2>1. dev.fresh \in BOOLEAN
    BY DEF TypeInv, TypeOK
  <2>. QED BY <1>1, <1>3, <2>1 DEF Wanted
<1>8. pc \in {"status", "data"} => out'.sample = Wanted
  BY <1>4, <1>7 DEF SampleInv
<1>9. SampleInv'
  BY <1>3, <1>4, <1>5, <1>7, <1>8 DEF SampleInv
<1>. QED BY <1>2, <1>4, <1>6, <1>9 DEF portVars

LEMMA ShiftFresh == TypeInv /\ FreshInv /\ Shift => FreshInv'
<1> SUFFICES ASSUME TypeInv, FreshInv, Shift, missed = 0
             PROVE  ((cs => heard) /\ EnabledInv /\ SampleInv)'
  BY DEF FreshInv, Shift, Respond
<1>1. UNCHANGED <<mainVars, cs, spi, heard, missed>> /\ wire = "shifting" /\ wire' = "idle"
  BY DEF Shift, Respond
<1>2. EnabledInv /\ SampleInv /\ spi.busy /\ cs /\ heard /\ pc \in Exchanges /\ spi.num = Words[pc]
  BY <1>1 DEF FreshInv, TypeInv, PortInv
<1>3. /\ pc' = pc /\ channel' = channel /\ result' = result /\ Wanted' = Wanted
      /\ ~LastIn /\ (LastIn' <=> spi.tmpTx = spi.num) /\ FirstIn'
  BY <1>1, <1>2 DEF mainVars, LastIn, FirstIn, Wanted
<1>4. dev \in [enabled : SUBSET Channels, stat : BOOLEAN, pending : SUBSET Channels, fresh : BOOLEAN]
      /\ out \in [ready : BOOLEAN, sample : Samples] /\ reply \in [ready : BOOLEAN, sample : Samples]
  BY DEF TypeInv, TypeOK
<1>5. CASE pc = "reset"
  <2>1. LastIn' => dev' = [enabled |-> {0}, stat |-> FALSE, pending |-> {}, fresh |-> FALSE]
    BY <1>2, <1>3, <1>5 DEF Shift, Respond, Words, Exchanges, Writes
  <2>. QED BY <1>1, <1>2, <1>3, <1>5, <2>1 DEF EnabledInv, SampleInv
<1>6. CASE pc \in Writes
  <2>1. Words[pc] = 2
    BY <1>6 DEF Words, Exchanges, Writes
  <2>2. CASE spi.tmpTx = 2
    <3>1. /\ dev' = Written /\ out' = [out EXCEPT !.ready = @ /\ pc \notin {"mode0", "mode"}]
          /\ UNCHANGED reply
      BY <1>2, <1>6, <2>2 DEF Shift, Respond, Writes
    <3>2. /\ out'.sample = out.sample /\ (out'.ready => out.ready)
          /\ pc = "mode" => ~out'.ready
      BY <1>4, <3>1
    <3>3. CASE pc \in {"clear", "timeoff", "off"}
      <4>1. dev' = [dev EXCEPT !.enabled = @ \ {channel}]
        BY <3>1, <3>3 DEF Written
      <4>2. dev'.enabled = {} /\ dev'.pending = dev.pending /\ dev'.fresh = dev.fresh
        BY <1>2, <1>4, <3>3, <4>1 DEF EnabledInv
      <4>. QED BY <1>1, <1>2, <1>3, <3>1, <3>2, <3>3, <4>2 DEF EnabledInv, SampleInv
    <3>4. CASE pc = "on"
      <4>1. dev' = [dev EXCEPT !.enabled = @ \union {channel}]
        BY <3>1, <3>4 DEF Written
      <4>2. dev'.enabled = {channel}
        BY <1>2, <1>4, <3>4, <4>1 DEF EnabledInv
      <4>. QED BY <1>1, <1>2, <1>3, <3>4, <4>2 DEF EnabledInv, SampleInv
    <3>5. CASE pc = "mode"
      <4>1. dev' = [dev EXCEPT !.pending = dev.enabled, !.fresh = TRUE]
        BY <3>1, <3>5 DEF Written, Trigger
      <4>2. dev'.enabled = {channel} /\ dev'.pending = {channel} /\ dev'.fresh
        BY <1>2, <1>4, <3>5, <4>1 DEF EnabledInv
      <4>. QED BY <1>1, <1>2, <1>3, <3>2, <3>5, <4>2 DEF EnabledInv, SampleInv
    <3>6. CASE pc \in {"stat", "setup", "mode0"}
      <4>1. dev'.enabled = dev.enabled
        BY <1>4, <3>1, <3>6 DEF Written, Trigger
      <4>. QED BY <1>1, <1>2, <1>3, <3>6, <4>1 DEF EnabledInv, SampleInv
    <3>. QED BY <1>6, <3>3, <3>4, <3>5, <3>6 DEF Writes
  <2>3. CASE spi.tmpTx # 2
    <3>1. UNCHANGED <<reply, dev, out>> /\ ~LastIn'
      BY <1>2, <1>3, <1>6, <2>1, <2>3 DEF Shift, Respond, Writes
    <3>. QED BY <1>1, <1>2, <1>3, <1>6, <3>1 DEF EnabledInv, SampleInv, Writes
  <2>. QED BY <2>2, <2>3
<1>7. CASE pc = "id"
  <2>1. UNCHANGED <<reply, dev, out>>
    BY <1>7 DEF Shift, Respond, Writes
  <2>. QED BY <1>1, <1>2, <1>3, <1>7, <2>1 DEF EnabledInv, SampleInv
<1>8. CASE pc = "status"
  <2>1. reply' = [reply EXCEPT !.ready = out.ready] /\ UNCHANGED <<dev, out>>
    BY <1>8 DEF Shift, Respond, Writes
  <2>2. reply'.ready = out.ready
    BY <1>4, <2>1
  <2>. QED BY <1>1, <1>2, <1>3, <1>8, <2>1, <2>2 DEF EnabledInv, SampleInv
<1>9. CASE pc = "data"
  <2>1. CASE spi.tmpTx = 1
    <3>1. /\ reply' = [reply EXCEPT !.sample = out.sample] /\ out' = [out EXCEPT !.ready = FALSE]
          /\ UNCHANGED dev
      BY <1>9, <2>1 DEF Shift, Respond, Writes
    <3>2. reply'.sample = out.sample /\ out'.sample = out.sample /\ ~out'.ready
      BY <1>4, <3>1
    <3>. QED BY <1>1, <1>2, <1>3, <1>9, <3>1, <3>2 DEF EnabledInv, SampleInv
  <2>2. CASE spi.tmpTx # 1
    <3>1. UNCHANGED <<reply, dev, out>> /\ FirstIn
      BY <1>2, <1>9, <2>2 DEF Shift, Respond, Writes, FirstIn
    <3>. QED BY <1>1, <1>2, <1>3, <1>9, <3>1 DEF EnabledInv, SampleInv
  <2>. QED BY <2>1, <2>2
<1>. QED BY <1>2, <1>5, <1>6, <1>7, <1>8, <1>9 DEF Exchanges

LEMMA IrqFresh == TypeInv /\ FreshInv /\ SPI_IRQ => FreshInv'
<1> SUFFICES ASSUME TypeInv, FreshInv, SPI_IRQ, missed = 0
             PROVE  ((cs => heard) /\ EnabledInv /\ SampleInv)'
  BY DEF FreshInv, SPI_IRQ, devVars
<1>1. UNCHANGED <<mainVars, cs, devVars>> /\ wire = "idle" /\ EnabledInv /\ SampleInv /\ (cs => heard)
  BY DEF SPI_IRQ, FreshInv
<1>2. spi.busy /\ cs
  BY <1>1 DEF TypeInv, PortInv
<1>3. LastIn' => LastIn
  <2>1. CASE LastWord(spi.tmpTx)
    BY <1>1, <1>2, <2>1 DEF LastIn, LastWord
  <2>2. CASE ~LastWord(spi.tmpTx)
    <3>1. spi'.busy /\ wire' = "shifting"
      BY <1>2, <2>2 DEF SPI_IRQ, TypeInv, TypeOK
    <3>. QED BY <3>1 DEF LastIn
  <2>. QED BY <2>1, <2>2
<1>4. FirstIn
  BY <1>1, <1>2 DEF FirstIn
<1>. QED BY <1>1, <1>3, <1>4 DEF EnabledInv, SampleInv, mainVars, devVars, Wanted

LEMMA BeginFresh == TypeInv /\ FreshInv /\ Begin => FreshInv'
<1> SUFFICES ASSUME TypeInv, FreshInv, Begin, missed' = 0
             PROVE  ((cs => heard) /\ EnabledInv /\ SampleInv)'
  BY DEF FreshInv
<1>1. missed = 0 /\ heard'
  <2>1. missed \in Nat
    BY MaxMissedAssumption DEF TypeInv, TypeOK
  <2>2. missed + 1 # 0
    BY <2>1
  <2>. QED BY <2>2 DEF Begin
<1>2. UNCHANGED <<mainVars, reply, dev, out>> /\ ~LastIn' /\ ~FirstIn'
  BY DEF Begin, SPI_Transact, LastIn, FirstIn
<1>3. EnabledInv /\ SampleInv
  BY <1>1 DEF FreshInv
<1>. QED BY <1>1, <1>2, <1>3 DEF EnabledInv, SampleInv, mainVars, Wanted

LEMMA EndsFresh == TypeInv /\ FreshInv /\ Ends => FreshInv'
<1> SUFFICES ASSUME TypeInv, FreshInv, Ends, missed = 0
             PROVE  ((cs => heard) /\ EnabledInv /\ SampleInv)'
  <2>1. Ends => UNCHANGED missed
    BY DEF Ends, End, Reset, ReadID, Clear, Stat, Setup, Mode0, On, Mode, Status, TimeOff, Data, Off, devVars
  <2>. QED BY <2>1 DEF FreshInv
<1>1. /\ cs /\ cs' = FALSE /\ ~spi.busy /\ UNCHANGED <<reply, dev, out>>
  BY DEF Ends, End, Reset, ReadID, Clear, Stat, Setup, Mode0, On, Mode, Status, TimeOff, Data, Off, devVars
<1>2. EnabledInv /\ SampleInv /\ LastIn /\ ~LastIn' /\ ~FirstIn'
  BY <1>1 DEF FreshInv, LastIn, FirstIn
<1>3. FirstIn
  BY <1>1 DEF TypeInv, PortInv, FirstIn
<1>4. CASE Clear
  <2>1. pc = "clear" /\ pc' \in {"clear", "stat"} /\ result' = {}
    BY <1>4 DEF Clear, End, Goto, TypeInv, ChannelInv
  <2>. QED BY <1>1, <1>2, <2>1 DEF EnabledInv, SampleInv
<1>5. CASE Off
  <2>1. pc = "off" /\ pc' = "rest" /\ channel' = channel /\ result' \subseteq {reply.sample}
    BY <1>5 DEF Off, End
  <2>. QED BY <1>1, <1>2, <2>1 DEF EnabledInv, SampleInv, Wanted
<1>6. CASE Reset \/ ReadID \/ Stat \/ Setup \/ Mode0 \/ On \/ Mode \/ Data \/ TimeOff
  <2>1. /\ UNCHANGED <<channel, result>>
        /\ <<pc, pc'>> \in {<<"reset", "id">>, <<"id", "clear">>, <<"stat", "setup">>,
                            <<"setup", "mode0">>, <<"mode0", "rest">>, <<"on", "mode">>,
                            <<"mode", "status">>, <<"data", "off">>, <<"timeoff", "rest">>}
    BY <1>6 DEF Reset, ReadID, Stat, Setup, Mode0, On, Mode, Data, TimeOff, End, Goto
  <2>. QED BY <1>1, <1>2, <1>3, <2>1 DEF EnabledInv, SampleInv, Wanted
<1>7. CASE Status
  <2>1. /\ UNCHANGED <<channel, result>> /\ pc = "status" /\ pc' \in {"timeoff", "data", "status"}
        /\ pc' = "data" => reply.ready
    BY <1>7 DEF Status, End, Goto, Abandon, Ready
  <2>. QED BY <1>1, <1>2, <2>1 DEF EnabledInv, SampleInv, Wanted
<1>. QED BY <1>4, <1>5, <1>6, <1>7 DEF Ends

LEMMA AskFresh == TypeInv /\ FreshInv /\ Ask => FreshInv'
<1> SUFFICES ASSUME TypeInv, FreshInv, Ask, missed = 0
             PROVE  ((cs => heard) /\ EnabledInv /\ SampleInv)'
  BY DEF FreshInv, Ask
<1>1. pc = "rest" /\ pc' = "on" /\ result' = {} /\ UNCHANGED <<portVars, heard>> /\ (cs => heard)
  BY DEF Ask, FreshInv
<1>2. dev'.enabled = {}
  BY <1>1 DEF Ask, FreshInv, EnabledInv, TypeInv, TypeOK
<1>3. ~LastIn'
  BY <1>1 DEF LastIn, portVars, TypeInv, PortInv, Exchanges, Writes
<1>. QED BY <1>1, <1>2, <1>3 DEF EnabledInv, SampleInv, portVars

LEMMA StepFresh == TypeInv /\ FreshInv /\ [Next]_vars => FreshInv'
<1> SUFFICES ASSUME TypeInv, FreshInv, [Next]_vars PROVE FreshInv'
  OBVIOUS
<1>1. CASE Begin BY <1>1, BeginFresh
<1>2. CASE Ends BY <1>2, EndsFresh
<1>3. CASE Ask BY <1>3, AskFresh
<1>4. CASE Shift BY <1>4, ShiftFresh
<1>5. CASE SPI_IRQ BY <1>5, IrqFresh
<1>6. CASE Convert BY <1>6, ConvertFresh
<1>7. CASE Elapse \/ UNCHANGED vars
  <2>1. UNCHANGED <<pc, channel, result, portVars, devVars>>
    BY <1>7 DEF Elapse, vars, mainVars
  <2>. QED BY <2>1 DEF FreshInv, EnabledInv, SampleInv, LastIn, FirstIn, Wanted, portVars, devVars
<1>. QED BY <1>1, <1>2, <1>3, <1>4, <1>5, <1>6, <1>7 DEF Next, Main, Ends

\* While the converter takes every write, what a read returns was converted for
\* it, never for a read that had timed out before: its result, if one is ready,
\* is dropped by the write that starts the conversion.  (adc_spi.c:100-135)
THEOREM ResultAlwaysFresh == Spec => []ResultFresh
<1>1. TypeInv /\ FreshInv => ResultFresh
  BY DEF FreshInv, SampleInv, Wanted, ResultFresh
<1>. QED BY <1>1, InitType, InitFresh, StepType, StepFresh, PTL DEF Spec

\* The write that starts the conversion of a read starts no other one, for any
\* set of channels and after every exit of the reads before.  (adc_spi.c:104-131)
THEOREM ConvertsAlways == Spec => ConvertsAlone
<1>1. TypeInv /\ FreshInv /\ [Next]_vars =>
        [Shift /\ pc = "mode" /\ spi.tmpTx = 2 /\ missed = 0 => dev'.pending = {channel}]_vars
  <2> SUFFICES ASSUME TypeInv, FreshInv, Shift, pc = "mode", spi.tmpTx = 2, missed = 0
               PROVE  dev'.pending = {channel}
    OBVIOUS
  <2>1. cs /\ heard /\ dev.enabled = {channel}
    BY DEF Shift, FreshInv, TypeInv, PortInv, EnabledInv
  <2>2. dev' = Written
    BY <2>1 DEF Shift, Respond, Writes
  <2>3. Written = Trigger
    BY DEF Written
  <2>4. Trigger.pending = dev.enabled
    BY DEF Trigger, TypeInv, TypeOK
  <2>. QED BY <2>1, <2>2, <2>3, <2>4
<1>. QED BY <1>1, InitType, InitFresh, StepType, StepFresh, PTL DEF Spec, ConvertsAlone

=============================================================================
