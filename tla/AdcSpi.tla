------------------------------- MODULE AdcSpi -------------------------------
(***************************************************************************)
(* The AD4115 converter of the board (adc_spi.c) over the interrupt driven *)
(* SPI exchange (SPI_Interface.c): AD4115BCPZ_RL7_init, then one           *)
(* AD4115_ReadSingleChannel after the other.                               *)
(*                                                                         *)
(* An exchange goes word by word: the port shifts a word, its IDLE         *)
(* interrupt stores the received word and sends the next one.  The         *)
(* converter may miss register writes, and may take any time, for ever     *)
(* included, over a conversion.                                            *)
(***************************************************************************)
EXTENDS Integers

CONSTANTS
  Channels,    \* channels of the converter
  MaxMissed    \* bound: register writes the converter does not take

ASSUME ChannelsAssumption == Channels \subseteq 0 .. 15 /\ 0 \in Channels
ASSUME MaxMissedAssumption == MaxMissed \in Nat

VARIABLES
  pc,        \* the exchange that main runs, or runs next
  channel,   \* the channel it is for
  late,      \* more than 100 ms since the conversion was started
  result,    \* the sample that was returned: one, or none for 0
  cs,        \* is the converter selected?
  spi,       \* txState, rxNum and txNum, tmpRxNum, tmpTxNum
  wire,      \* the port: "shifting" a word, "idle" interrupt pending, or "quiet"
  reply,     \* what the converter has sent
  dev,       \* the converter: channels enabled, status byte, conversions to come
  out,       \* its result: marked as ready? which sample?
  heard,     \* it takes this exchange
  missed     \* exchanges it has not taken

mainVars == <<pc, channel, late, result>>
portVars == <<cs, spi, wire>>
devVars  == <<reply, dev, out, heard, missed>>
vars == <<mainVars, portVars, devVars>>

Writes == {"clear", "stat", "setup", "mode0", "on", "mode", "timeoff", "off"}
Exchanges == Writes \union {"reset", "id", "status", "data"}

\* numTx and numRx of SPI_Transact.
Words == [x \in Exchanges |->
            CASE x = "reset" -> 4 [] x = "status" -> 1 [] x = "data" -> 3 [] OTHER -> 2]

\* A result of the converter: its channel, and whether it was converted for the
\* read that goes on (history).
Samples == [channel : Channels, fresh : BOOLEAN]

NoSample == [channel |-> 0, fresh |-> FALSE]

TypeOK ==
  /\ pc \in Exchanges \union {"rest"} /\ channel \in Channels /\ late \in BOOLEAN
  /\ result \in {{}} \union {{s} : s \in Samples}
  /\ cs \in BOOLEAN /\ wire \in {"shifting", "idle", "quiet"}
  /\ spi \in [busy : BOOLEAN, num : 0 .. 4, tmpRx : 0 .. 4, tmpTx : 0 .. 4]
  /\ reply \in [ready : BOOLEAN, sample : Samples]
  /\ dev \in [enabled : SUBSET Channels, stat : BOOLEAN, pending : SUBSET Channels, fresh : BOOLEAN]
  /\ out \in [ready : BOOLEAN, sample : Samples]
  /\ heard \in BOOLEAN /\ missed \in 0 .. MaxMissed

\* The processor starts; the converter may have run before.
Init ==
  /\ pc = "reset" /\ channel = 0 /\ late = FALSE /\ result = {}
  /\ cs = FALSE /\ wire = "quiet"
  /\ spi = [busy |-> FALSE, num |-> 0, tmpRx |-> 0, tmpTx |-> 0]
  /\ reply = [ready |-> FALSE, sample |-> NoSample] /\ heard = FALSE /\ missed = 0
  /\ dev \in [enabled : {{}, Channels}, stat : BOOLEAN, pending : {{}, Channels}, fresh : {FALSE}]
  /\ out \in [ready : BOOLEAN, sample : {NoSample}]

-----------------------------------------------------------------------------
(* The converter                                                           *)

\* A write to the mode register starts a conversion of every enabled channel.
Trigger == [dev EXCEPT !.pending = dev.enabled, !.fresh = (pc = "mode")]

\* What a register write does, once its second word is in.
Written ==
  CASE pc = "on"                 -> [dev EXCEPT !.enabled = @ \union {channel}]
    [] pc \in {"clear", "timeoff", "off"} -> [dev EXCEPT !.enabled = @ \ {channel}]
    [] pc = "stat"               -> [dev EXCEPT !.stat = TRUE]
    [] pc \in {"mode0", "mode"}  -> Trigger
    [] pc = "setup"              -> dev

\* The channel in the status byte behind the data: anything if it is not sent.
Tag(sample) == IF dev.stat THEN {sample.channel} ELSE Channels

Respond(word) ==
  /\ \/ /\ pc = "reset" /\ word = 4 /\ heard
        /\ dev' = [enabled |-> {0}, stat |-> FALSE, pending |-> {}, fresh |-> FALSE]
        /\ out' = [ready |-> FALSE, sample |-> NoSample]
        /\ UNCHANGED reply
     \/ /\ pc \in Writes /\ word = 2 /\ heard
        /\ dev' = Written
        /\ out' = [out EXCEPT !.ready = @ /\ pc \notin {"mode0", "mode"}]
        /\ UNCHANGED reply
     \/ pc = "status" /\ reply' = [reply EXCEPT !.ready = out.ready] /\ UNCHANGED <<dev, out>>
     \/ /\ pc = "data" /\ word = 1
        /\ reply' = [reply EXCEPT !.sample = out.sample] /\ out' = [out EXCEPT !.ready = FALSE]
        /\ UNCHANGED dev
     \/ /\ \/ pc = "reset" /\ (word < 4 \/ ~heard)
           \/ pc \in Writes /\ (word < 2 \/ ~heard)
           \/ pc = "id"
           \/ pc = "data" /\ word > 1
        /\ UNCHANGED <<reply, dev, out>>
  /\ UNCHANGED <<heard, missed>>

First(c, set) == c \in set /\ \A d \in set : c <= d

\* The enabled channels are converted in turn.
Convert ==
  /\ \E c \in dev.pending :
     /\ First(c, dev.pending)
     /\ dev' = [dev EXCEPT !.pending = @ \ {c}]
     /\ out' = [ready |-> TRUE, sample |-> [channel |-> c, fresh |-> dev.fresh]]
  /\ UNCHANGED <<mainVars, portVars, reply, heard, missed>>

\* The port has shifted a word out and one in.
Shift ==
  /\ wire = "shifting" /\ wire' = "idle"
  /\ Respond(spi.tmpTx)
  /\ UNCHANGED <<mainVars, cs, spi>>

-----------------------------------------------------------------------------
(* SPI_Interface.c                                                         *)

\* SPI_Transact sends the first word.
SPI_Transact(n) ==
  /\ spi' = [busy |-> TRUE, num |-> n, tmpRx |-> 0, tmpTx |-> 1]
  /\ wire' = "shifting"

\* A variant of LastWord that ends the exchange with the word last sent.
LastWordEarly(tx) == tx >= spi.num - 1

\* A variant of LastWord that sends one word too many.
LastWordLate(tx) == tx > spi.num

\* There is nothing left to send.
LastWord(tx) == tx = spi.num

\* SPI_IRQ: first the received word, then the next one to send.
SPI_IRQ ==
  /\ wire = "idle"
  /\ LET rx == IF spi.tmpRx < spi.num THEN spi.tmpRx + 1 ELSE spi.tmpRx IN
     IF LastWord(spi.tmpTx)
     THEN /\ spi' = [spi EXCEPT !.tmpRx = rx, !.busy = FALSE]
          /\ wire' = "quiet"
     ELSE /\ spi' = [spi EXCEPT !.tmpRx = rx, !.tmpTx = @ + 1]
          /\ wire' = "shifting"
  /\ UNCHANGED <<mainVars, cs, devVars>>

-----------------------------------------------------------------------------
(* adc_spi.c                                                               *)

\* Select the converter and begin the exchange.  Only writes can be missed.
Begin ==
  /\ pc # "rest" /\ ~cs
  /\ cs' = TRUE
  /\ SPI_Transact(Words[pc])
  /\ \/ heard' = TRUE /\ UNCHANGED missed
     \/ /\ pc \in Writes \union {"reset"} /\ missed < MaxMissed
        /\ heard' = FALSE /\ missed' = missed + 1
  /\ UNCHANGED <<mainVars, reply, dev, out>>

\* AD4115_Wait has seen txState idle: deselect, and go on.
End(x) ==
  /\ pc = x /\ cs /\ ~spi.busy
  /\ cs' = FALSE
  /\ UNCHANGED <<spi, wire, devVars>>

Goto(next) == pc' = next /\ UNCHANGED <<channel, late, result>>

Reset == End("reset") /\ Goto("id")

ReadID == End("id") /\ Goto("clear")

\* The loop over the channels, which all are switched off.
Clear ==
  /\ End("clear")
  /\ LET rest == {c \in Channels : c > channel} IN
     IF rest = {}
     THEN Goto("stat")
     ELSE pc' = "clear" /\ channel' \in rest /\ First(channel', rest) /\ UNCHANGED <<late, result>>

Stat == End("stat") /\ Goto("setup")
Setup == End("setup") /\ Goto("mode0")
Mode0 == End("mode0") /\ Goto("rest")

\* AD4115_ReadSingleChannel is called.
Ask ==
  /\ pc = "rest"
  /\ channel' \in Channels
  /\ pc' = "on" /\ late' = FALSE /\ result' = {}
  /\ dev' = [dev EXCEPT !.fresh = FALSE] /\ out' = [out EXCEPT !.sample.fresh = FALSE]
  /\ UNCHANGED <<portVars, reply, heard, missed>>

On == End("on") /\ Goto("mode")
Mode == End("mode") /\ Goto("status")

Elapse ==
  /\ pc = "status" /\ ~late /\ late' = TRUE
  /\ UNCHANGED <<pc, channel, result, portVars, devVars>>

\* A variant of TimedOut without a limit.
TimedOutNever == FALSE

TimedOut == late

\* A variant of Ready that reads the bit the other way round.
ReadyNot == ~reply.ready

\* /RDY of the status is low.
Ready == reply.ready

\* A variant of Abandon that leaves the channel switched on.
AbandonNot == pc' = "rest" /\ result' = {} /\ UNCHANGED <<channel, late>>

\* The time is over: the channel is switched off on this exit, too.
Abandon == Goto("timeoff")

\* The status is read before the time is looked at.
Status ==
  /\ End("status")
  /\ IF TimedOut THEN Abandon ELSE Goto(IF Ready THEN "data" ELSE "status")

TimeOff == End("timeoff") /\ Goto("rest")

Data == End("data") /\ Goto("off")

\* A variant of Accepted that returns every sample.
AcceptedAny(c) == TRUE

\* The channel of the status byte is the requested one.
Accepted(c) == c = channel

Off ==
  /\ End("off") /\ pc' = "rest"
  /\ \E tag \in Tag(reply.sample) : result' = IF Accepted(tag) THEN {reply.sample} ELSE {}
  /\ UNCHANGED <<channel, late>>

Main ==
  \/ Begin \/ Reset \/ ReadID \/ Clear \/ Stat \/ Setup \/ Mode0
  \/ On \/ Mode \/ Status \/ TimeOff \/ Data \/ Off

Next == Main \/ Ask \/ Elapse \/ Shift \/ SPI_IRQ \/ Convert

\* Main, port, interrupt and clock go on; the converter need not convert.
Spec ==
  /\ Init /\ [][Next]_vars
  /\ WF_vars(Main) /\ WF_vars(Shift) /\ WF_vars(SPI_IRQ) /\ WF_vars(Elapse)

-----------------------------------------------------------------------------
(* Properties                                                              *)

\* When main goes on, the exchange is over: every word of the reply is stored,
\* and no interrupt will write into a buffer that its caller has left.
\* (SPI_IRQ and AD4115_Wait, which looks at txState only)
ExchangeOver == ~cs => wire = "quiet" /\ spi.tmpRx = spi.num

\* A sample that is returned was converted on the requested channel, also after
\* a write that the converter has not taken, as long as it sends the channel
\* with the data.  (the check of actualChannel)
ChannelRight == dev.stat => \A s \in result : s.channel = channel

\* As long as the converter takes every write, a sample that is returned was
\* converted for this very read, and not for one that had timed out before.
\* (AD4115_ReadSingleChannel)
ResultFresh == missed = 0 => \A s \in result : s.fresh /\ s.channel = channel

\* The conversion of a read is of one channel, whatever was enabled before the
\* reset and however the reads before have ended.  (AD4115BCPZ_RL7_init and both
\* exits of AD4115_ReadSingleChannel)
ConvertsAlone ==
  [][Shift /\ pc = "mode" /\ spi.tmpTx = 2 /\ missed = 0 => dev'.pending = {channel}]_vars

\* The initialisation and every read end, even if the converter never converts.
\* (AD4115_Wait and the 100 ms of AD4115_ReadSingleChannel)
ReadReturns == pc # "rest" ~> pc = "rest"
=============================================================================
