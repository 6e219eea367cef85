----------------------- MODULE CommandDispatchProofs -----------------------
(***************************************************************************)
(* Theorems of CommandDispatch, for every set of names, pins and channels, *)
(* every spelling of the pins and every bound: what process_usb_command,   *)
(* the dispatcher and the handlers of measurement.c, test.c and demo.c     *)
(* make of a line, and how the loop-back test of uart_mux.c judges a site. *)
(*                                                                         *)
(* The proof has two parts.  What a line asks for is read off its fields,  *)
(* family by family, and compared with what each handler does (lemmas      *)
(* ...Means and ...Outcome); the inductive invariant then carries the      *)
(* comparison through the stages of a command, and the history of a site   *)
(* through the loop.                                                       *)
(***************************************************************************)
EXTENDS CommandDispatch, FiniteSetTheorems, TLAPS

\* What the dispatcher hands to the board.
Runnable == Commands \union {[kind |-> "DEMO"]}

\* What a site sends before its farewell, at most.
Heard == MaxHeard - 3

\* The words and line ends of k tests, one after the other.
TestsUpTo(k) == \A i \in 1 .. k : said[i] = IF i % 2 = 0 THEN End ELSE "test"

\* The fields that string_to_pin takes for a pin.
TakenFields == {f \in DOMAIN Digits \union {"PIN_"} : PinOf(f) # Invalid}

\* The shapes of the lines that the handlers take.
IsSingle == /\ Len(line) = 5 /\ line[1] = "MES" /\ line[2] = "VOLT" /\ line[3] = "SINGLE"
            /\ line[4] \in Muxes /\ line[5] \in TakenFields
IsDiff   == /\ Len(line) = 7 /\ line[1] = "MES" /\ line[2] = "VOLT" /\ line[3] = "DIFF"
            /\ line[4] \in Muxes /\ line[5] \in TakenFields
            /\ line[6] \in Muxes /\ line[7] \in TakenFields
IsMult   == /\ Len(line) = 4 /\ line[1] = "MES" /\ line[2] = "VOLT" /\ line[3] = "MULT"
            /\ line[4] \in TakenFields
IsRes(type, names) ==
            /\ Len(line) = 7 /\ line[1] = "MES" /\ line[2] = "RES" /\ line[3] = type
            /\ line[4] \in VCoils /\ line[5] \in names
            /\ line[6] \in RCoils /\ line[7] \in TakenFields
IsTest(subject) ==
            /\ Len(line) = 3 /\ line[1] = "TEST" /\ line[2] = subject
            /\ line[3] \in ChannelFields(TestChannel)
IsDemo   == Len(line) >= 2 /\ line[1] = "DEMO" /\ line[2] = "RES"

\* The commands that they mean.
SingleOf == [kind |-> "SINGLE", mux |-> line[4], pin |-> PinOf(line[5])]
DiffOf   == [kind |-> "DIFF", mux |-> line[4], pin |-> PinOf(line[5]),
             mux2 |-> line[6], pin2 |-> PinOf(line[7])]
MultOf   == [kind |-> "MULT", pin |-> PinOf(line[4])]
MuxOf    == Res(line[4], PinOf(line[5]), line[6], PinOf(line[7]), 0, 0)
UsbOf    == Res(line[4], 0, line[6], PinOf(line[7]), UsbChannel[line[5]], 0)
UartOf   == Res(line[4], 0, line[6], PinOf(line[7]), 0, UartChannel[line[5]])
UsbTestOf  == [kind |-> "TEST_USB", ch |-> TestChannel[line[3]]]
UartTestOf == [kind |-> "TEST_UART", ch |-> TestChannel[line[3]]]

\* The commands that the handlers take the line for: one or none.
Asked == IF IsDemo THEN {[kind |-> "DEMO"]}
         ELSE {c \in Commands :
                 \/ IsSingle /\ c = SingleOf
                 \/ IsDiff /\ c = DiffOf
                 \/ IsMult /\ c = MultOf
                 \/ IsRes("MUX", TakenFields) /\ c = MuxOf
                 \/ IsRes("USB", ChannelFields(UsbChannel)) /\ c = UsbOf
                 \/ IsRes("UART", ChannelFields(UartChannel)) /\ c = UartOf
                 \/ IsTest("USB") /\ c = UsbTestOf
                 \/ IsTest("UART") /\ c = UartTestOf}

\* What has been run and answered in each stage of a command.
StageInv ==
  /\ pc \in {"ready", "dispatch"} => ran = <<>> /\ answers = <<>>
  /\ pc \in {"run", "loop"} => answers = <<>> /\ \E c \in Runnable : ran = <<c>>
  /\ pc = "loop" => ran[1].kind = "TEST_UART"
  /\ pc = "answered" =>
       \/ \E c \in Runnable : /\ ran = <<c>> /\ c.kind # "TEST_UART"
                              /\ answers = <<Done[c.kind]>>
       \/ \E c \in Runnable : /\ ran = <<c>> /\ c.kind = "TEST_UART"
                              /\ (\E v \in Verdicts : answers = <<v>>)
       \/ ran = <<>> /\ \E a \in Refusals : answers = <<a>>
       \/ /\ ran = <<>> /\ answers = <<>>
          /\ Starts(<<"TEST">>) /\ ~\E k \in {"USB", "UART"} : Starts(<<"TEST", k>>)

\* What has been run is what the line asks for.
MeantInv ==
  pc \in {"run", "loop", "answered"} =>
    \/ ran = <<>> /\ Asked = {}
    \/ \E c \in Runnable : ran = <<c>> /\ Asked = {c}

\* A farewell that waits in the FIFO is alone there, and the site has sent it;
\* and something waits only if the site spoke early.
FifoInv ==
  /\ "EXIT" \in Range(fifo) => fifo = <<"EXIT">> /\ "EXIT" \in Range(said)
  /\ ~early => fifo = <<>>

\* The command is the test of a UART.
UartTested == ran # <<>> /\ ran[1].kind = "TEST_UART"

\* The history is never at its bound when a word is added: a farewell has three.
LengthInv ==
  \/ Len(said) <= Heard
  \/ pc = "loop" /\ fifo = <<>> /\ word = "" /\ Len(said) <= Heard + 1
  \/ pc = "loop" /\ fifo = <<>> /\ word = "EXIT" /\ Len(said) <= Heard + 2
  \/ pc = "answered" /\ UartTested

\* In the loop, the word collected is what the site has sent since the last test
\* text; before it there were test texts only.
LoopInv ==
  pc = "loop" =>
    /\ word = "EXIT" => "EXIT" \in Range(said)
    /\ ~early =>
         /\ word = "" => Len(said) % 2 = 0 /\ TestsUpTo(Len(said))
         /\ word \in Words => /\ Len(said) % 2 = 1 /\ said[Len(said)] = word
                              /\ TestsUpTo(Len(said) - 1)
         /\ word = "other" => \E i \in 1 .. Len(said) : i % 2 = 0 /\ said[i] # End

\* The site has sent test texts and then its farewell, and nothing else.
Clean ==
  LET n == Len(said)
  IN /\ n >= 2 /\ n % 2 = 0 /\ said[n - 1] = "EXIT"
     /\ \A i \in 1 .. n : said[i] = IF i % 2 = 0 THEN End ELSE IF i = n - 1 THEN "EXIT" ELSE "test"

\* The verdict is right about what the site has sent, all of it heard.
Judged ==
  /\ "EXIT" \notin Range(fifo)
  /\ IF early THEN answers = <<"UART_TEST_PASS">> => "EXIT" \in Range(said)
     ELSE (answers = <<"UART_TEST_PASS">>) <=> Clean

\* A finished test is judged rightly, and between tests no history is left but
\* that of an early site.
VerdictInv ==
  /\ pc = "answered" /\ UartTested => Judged
  /\ ~early /\ pc # "loop" /\ ~(pc = "answered" /\ UartTested) => said = <<>>

\* The inductive invariant.
IInv == TypeOK /\ StageInv /\ MeantInv /\ FifoInv /\ LengthInv /\ LoopInv /\ VerdictInv

-----------------------------------------------------------------------------
(* Lines and their fields                                                  *)

\* Every line of the grammar is a sequence of fields.
LEMMA SpelledFields == \A l \in Spelled : l \in Seq(Fields)
<1> SUFFICES ASSUME NEW g \in Grammar PROVE g[1] \in Seq(Fields)
  BY DEF Spelled
<1>1. CASE g \in SingleLines
  <2>1. PICK m \in Muxes, p \in PinFields :
          g[1] = <<"MES", "VOLT", "SINGLE", m, p>>
    BY <1>1 DEF SingleLines
  <2> QED
    BY <2>1 DEF Fields, Keywords, PinFields
<1>2. CASE g \in DiffLines
  <2>1. PICK m \in Muxes, n \in Muxes, p \in PinFields, q \in PinFields :
          g[1] = <<"MES", "VOLT", "DIFF", m, p, n, q>>
    BY <1>2 DEF DiffLines
  <2> QED
    BY <2>1 DEF Fields, Keywords, PinFields
<1>3. CASE g \in MultLines
  <2>1. PICK p \in PinFields :
          g[1] = <<"MES", "VOLT", "MULT", p>>
    BY <1>3 DEF MultLines
  <2> QED
    BY <2>1 DEF Fields, Keywords, PinFields
<1>4. CASE g \in MuxLines
  <2>1. PICK v \in VCoils, r \in RCoils, p \in PinFields, q \in PinFields :
          g[1] = <<"MES", "RES", "MUX", v, p, r, q>>
    BY <1>4 DEF MuxLines
  <2> QED
    BY <2>1 DEF Fields, Keywords, PinFields
<1>10. CASE g \in BetLines
  <2>1. PICK v \in VCoils, r \in RCoils, p \in PinFields, q \in PinFields :
          g[1] = <<"MES", "RES", "BET", v, p, r, q>>
    BY <1>10 DEF BetLines
  <2> QED
    BY <2>1 DEF Fields, Keywords, PinFields
<1>5. CASE g \in UsbLines
  <2>1. PICK v \in VCoils, r \in RCoils, c \in ChannelFields(UsbChannel), q \in PinFields :
          g[1] = <<"MES", "RES", "USB", v, c, r, q>>
    BY <1>5 DEF UsbLines
  <2> QED
    BY <2>1 DEF Fields, Keywords, PinFields
<1>6. CASE g \in UartLines
  <2>1. PICK v \in VCoils, r \in RCoils, c \in ChannelFields(UartChannel), q \in PinFields :
          g[1] = <<"MES", "RES", "UART", v, c, r, q>>
    BY <1>6 DEF UartLines
  <2> QED
    BY <2>1 DEF Fields, Keywords, PinFields
<1>7. CASE g \in UsbTests
  <2>1. PICK c \in ChannelFields(TestChannel) :
          g[1] = <<"TEST", "USB", c>>
    BY <1>7 DEF UsbTests
  <2> QED
    BY <2>1 DEF Fields, Keywords, PinFields
<1>8. CASE g \in UartTests
  <2>1. PICK c \in ChannelFields(TestChannel) :
          g[1] = <<"TEST", "UART", c>>
    BY <1>8 DEF UartTests
  <2> QED
    BY <2>1 DEF Fields, Keywords, PinFields
<1>9. CASE g \in DemoLines
  <2>1. g[1] = <<"DEMO", "RES">>
    BY <1>9 DEF DemoLines
  <2> QED
    BY <2>1 DEF Fields, Keywords, PinFields
<1> QED
  BY <1>1, <1>2, <1>3, <1>4, <1>5, <1>6, <1>7, <1>8, <1>9, <1>10 DEF Grammar

\* Every line of the host is a sequence of fields.
LEMMA LinesFields == \A l \in Lines : l \in Seq(Fields)
<1>1. ASSUME NEW l \in Seq(Fields), NEW i \in 1 .. Len(l), NEW f \in Fields
      PROVE ReplaceAt(l, i, f) \in Seq(Fields)
  BY <1>1 DEF ReplaceAt
<1>2. ASSUME NEW l \in Seq(Fields), NEW i \in 1 .. Len(l) + 1, NEW f \in Fields
      PROVE InsertAt(l, i, f) \in Seq(Fields)
  <2>1. SubSeq(l, 1, i - 1) \in Seq(Fields) /\ SubSeq(l, i, Len(l)) \in Seq(Fields)
    BY <1>2
  <2> QED
    BY <2>1, <1>2 DEF InsertAt
<1>3. ASSUME NEW l \in Seq(Fields), NEW i \in 1 .. Len(l)
      PROVE RemoveAt(l, i) \in Seq(Fields)
  <2>1. SubSeq(l, 1, i - 1) \in Seq(Fields) /\ SubSeq(l, i + 1, Len(l)) \in Seq(Fields)
    BY <1>3
  <2> QED
    BY <2>1 DEF RemoveAt
<1>4. \A f \in Fields : [i \in 1 .. MaxTokens + 1 |-> f] \in Seq(Fields)
  BY BoundAssumption
<1> SUFFICES ASSUME NEW m \in Lines PROVE m \in Seq(Fields)
  OBVIOUS
<1>6. CASE m \in Spelled
  BY <1>6, SpelledFields
<1>7. CASE m \in UNION Replaced
  <2>1. PICK l \in Spelled : m \in {ReplaceAt(l, i, f) : i \in 1 .. Len(l), f \in Fields}
    BY <1>7 DEF Replaced
  <2>2. PICK i \in 1 .. Len(l), f \in Fields : m = ReplaceAt(l, i, f)
    BY <2>1
  <2> QED
    BY <2>2, <1>1, SpelledFields
<1>8. CASE m \in UNION PutIn
  <2>1. PICK l \in Spelled : m \in {InsertAt(l, i, f) : i \in 1 .. Len(l) + 1, f \in Fields}
    BY <1>8 DEF PutIn
  <2>2. PICK i \in 1 .. Len(l) + 1, f \in Fields : m = InsertAt(l, i, f)
    BY <2>1
  <2> QED
    BY <2>2, <1>2, SpelledFields
<1>9. CASE m \in UNION LeftOut
  <2>1. PICK l \in Spelled : m \in {RemoveAt(l, i) : i \in 1 .. Len(l)}
    BY <1>9 DEF LeftOut
  <2>2. PICK i \in 1 .. Len(l) : m = RemoveAt(l, i)
    BY <2>1
  <2> QED
    BY <2>2, <1>3, SpelledFields
<1>10. CASE m \in TooLong
  BY <1>10, <1>4 DEF TooLong
<1>11. CASE m = <<>>
  BY <1>11
<1> QED
  BY <1>6, <1>7, <1>8, <1>9, <1>10, <1>11 DEF Lines

\* The array holds the first fields of a line, and all of a short one.
LEMMA TokenFacts ==
  ASSUME line \in Seq(Fields)
  PROVE  /\ Tokens \in Seq(Fields) /\ Len(Tokens) <= Len(line)
         /\ \A i \in 1 .. Len(Tokens) : Tokens[i] = line[i] /\ Tokens[i] \in Fields
         /\ Len(Tokens) <= 7 => Len(line) = Len(Tokens)
         /\ Len(line) >= 7 => Len(Tokens) >= 7
<1> DEFINE n == IF Len(line) > MaxTokens THEN MaxTokens ELSE Len(line)
<1>1. n \in Nat /\ n <= Len(line) /\ (n <= 7 => n = Len(line)) /\ (Len(line) >= 7 => n >= 7)
  BY BoundAssumption
<1>2. Tokens = SubSeq(line, 1, n)
  BY DEF Tokens
<1> HIDE DEF n
<1>3. Tokens \in Seq(Fields) /\ Len(Tokens) = n /\ \A i \in 1 .. n : Tokens[i] = line[i]
  BY <1>1, <1>2
<1> QED
  BY <1>1, <1>3

-----------------------------------------------------------------------------
(* What a line means                                                       *)

\* string_to_pin gives a pin of the board, or refuses the field.
LEMMA PinFacts ==
  /\ \A f : PinOf(f) # Invalid <=> f \in TakenFields
  /\ \A f \in TakenFields : PinOf(f) \in Pins
<1>1. PinValue(0) = 0
  BY DEF PinValue
<1>2. ASSUME NEW f \in DOMAIN Digits
      PROVE  PinValue(Digits[f]) # Invalid => PinValue(Digits[f]) \in Pins
  BY DigitsAssumption DEF PinValue
<1> QED
  BY <1>1, <1>2, DigitsAssumption, Zenon DEF PinOf, TakenFields

\* A field that spells a pin is taken for that pin; of the fields that are not
\* loosely written no other is taken for one.
LEMMA StrictFacts ==
  /\ \A f \in PinFields : f \in TakenFields /\ PinOf(f) = Pin(f)
  /\ \A f \in TakenFields : f \notin Loose => f \in PinFields
<1>1. ASSUME NEW f \in DOMAIN Digits
      PROVE  /\ f # "PIN_" /\ PinOf(f) = PinValue(Digits[f])
             /\ Digits[f] <= 15 => PinValue(Digits[f]) = Digits[f] /\ Digits[f] # Invalid
             /\ Digits[f] <= 255 /\ PinValue(Digits[f]) # Invalid => Digits[f] <= 15
  BY DigitsAssumption DEF PinOf, PinValue, Invalid
<1> QED
  BY <1>1, DigitsAssumption DEF TakenFields, PinFields, Pin, Loose

\* Of the fields of a line, those that the handlers compare with channel names
\* name a channel.
LEMMA ChannelFacts ==
  /\ \A f \in Fields : /\ f \in DOMAIN UsbChannel <=> f \in ChannelFields(UsbChannel)
                       /\ f \in DOMAIN UartChannel <=> f \in ChannelFields(UartChannel)
                       /\ f \in DOMAIN TestChannel <=> f \in ChannelFields(TestChannel)
  /\ \A f \in ChannelFields(UsbChannel) : UsbChannel[f] \in Channels
  /\ \A f \in ChannelFields(UartChannel) : UartChannel[f] \in Channels
  /\ \A f \in ChannelFields(TestChannel) : TestChannel[f] \in Channels
<1>1. /\ DOMAIN UsbChannel = {"USB_CH0", "USB_CH1", "USB_CH2", "USB_CH3"}
      /\ DOMAIN UartChannel = {"UART_CH0", "UART_CH1", "UART_CH2", "UART_CH3"}
      /\ DOMAIN TestChannel = {"CH0", "CH1", "CH2", "CH3"}
  BY DEF UsbChannel, UartChannel, TestChannel
<1>2. (Keywords \union {"PIN_"} \union Muxes \union VCoils \union RCoils)
        \intersect (DOMAIN UsbChannel \union DOMAIN UartChannel \union DOMAIN TestChannel) = {}
  BY <1>1, NamesAssumption DEF Keywords, ConMuxes, Con3Muxes, MuxCoils, UsbCoils, UartCoils, Con3Coils
<1>3. /\ DOMAIN UsbChannel \intersect DOMAIN UartChannel = {}
      /\ DOMAIN UsbChannel \intersect DOMAIN TestChannel = {}
      /\ DOMAIN UartChannel \intersect DOMAIN TestChannel = {}
  BY <1>1
<1> HIDE DEF UsbChannel, UartChannel, TestChannel
<1> QED
  BY <1>2, <1>3, FieldsAssumption DEF Fields, ChannelFields

\* What the lines are taken for are commands of the board.
LEMMA CommandsTyped ==
  ASSUME line \in Seq(Fields)
  PROVE  /\ IsSingle => SingleOf \in Commands
         /\ IsDiff => DiffOf \in Commands
         /\ IsMult => MultOf \in Commands
         /\ IsRes("MUX", TakenFields) => MuxOf \in Commands
         /\ IsRes("USB", ChannelFields(UsbChannel)) => UsbOf \in Commands
         /\ IsRes("UART", ChannelFields(UartChannel)) => UartOf \in Commands
         /\ IsTest("USB") => UsbTestOf \in Commands
         /\ IsTest("UART") => UartTestOf \in Commands
<1> HIDE DEF UsbChannel, UartChannel, TestChannel,  TakenFields, ChannelFields
<1>1. IsSingle => SingleOf \in Commands
  BY PinFacts DEF IsSingle, SingleOf, Single, Commands
<1>2. IsDiff => DiffOf \in Commands
  BY PinFacts DEF IsDiff, DiffOf, Diff, Commands
<1>3. IsMult => MultOf \in Commands
  BY PinFacts DEF IsMult, MultOf, Multiple, Commands
<1>4. IsRes("MUX", TakenFields) => MuxOf \in Resist
  BY PinFacts DEF IsRes, MuxOf, Res, Resist
<1>5. IsRes("USB", ChannelFields(UsbChannel)) => UsbOf \in Resist
  BY PinFacts, ChannelFacts DEF IsRes, UsbOf, Res, Resist
<1>6. IsRes("UART", ChannelFields(UartChannel)) => UartOf \in Resist
  BY PinFacts, ChannelFacts DEF IsRes, UartOf, Res, Resist
<1>7. IsTest("USB") => UsbTestOf \in Commands
  BY ChannelFacts DEF IsTest, UsbTestOf, Test, Commands
<1>8. IsTest("UART") => UartTestOf \in Commands
  BY ChannelFacts DEF IsTest, UartTestOf, Test, Commands
<1> QED
  BY <1>1, <1>2, <1>3, <1>4, <1>5, <1>6, <1>7, <1>8 DEF Commands

\* What a line is taken for: it is of one family at most, and its fields are the
\* command's.
LEMMA AskedFamily ==
  ASSUME line \in Seq(Fields), ~IsDemo
  PROVE  \A c : c \in Asked <=>
           \/ IsSingle /\ c = SingleOf
           \/ IsDiff /\ c = DiffOf
           \/ IsMult /\ c = MultOf
           \/ IsRes("MUX", TakenFields) /\ c = MuxOf
           \/ IsRes("USB", ChannelFields(UsbChannel)) /\ c = UsbOf
           \/ IsRes("UART", ChannelFields(UartChannel)) /\ c = UartOf
           \/ IsTest("USB") /\ c = UsbTestOf
           \/ IsTest("UART") /\ c = UartTestOf
<1> HIDE DEF TakenFields, UsbChannel, UartChannel, TestChannel
<1> QED
  BY CommandsTyped, Zenon DEF Asked

\* A demonstration is asked for by its first two fields.
LEMMA AskedDemo == ASSUME IsDemo PROVE Asked = {[kind |-> "DEMO"]}
BY DEF Asked

\* A line and a command are a pair of the grammar iff the line has the shape and
\* the command its fields: MES:VOLT:SINGLE.
LEMMA SingleMeans == ASSUME line \in Seq(Fields), ~Loosely, NEW c
                     PROVE  <<line, c>> \in SingleLines <=> IsSingle /\ c = SingleOf
<1>1. ASSUME <<line, c>> \in SingleLines PROVE IsSingle /\ c = SingleOf
  <2>1. PICK m \in Muxes, p \in PinFields :
          /\ line = <<"MES", "VOLT", "SINGLE", m, p>>
          /\ c = [kind |-> "SINGLE", mux |-> m, pin |-> Pin(p)]
    BY <1>1 DEF SingleLines
  <2> QED
    BY <2>1, StrictFacts DEF IsSingle, SingleOf
<1>2. ASSUME IsSingle, c = SingleOf PROVE <<line, c>> \in SingleLines
  <2>1. line = <<"MES", "VOLT", "SINGLE", line[4], line[5]>>
    BY <1>2 DEF IsSingle
  <2> QED
    BY <2>1, <1>2, StrictFacts DEF IsSingle, SingleOf, SingleLines, Loosely
<1> QED
  BY <1>1, <1>2

\* The same of MES:VOLT:DIFF.
LEMMA DiffMeans == ASSUME line \in Seq(Fields), ~Loosely, NEW c
  PROVE  <<line, c>> \in DiffLines <=> IsDiff /\ c = DiffOf
<1>1. ASSUME <<line, c>> \in DiffLines PROVE IsDiff /\ c = DiffOf
  <2>1. PICK m \in Muxes, n \in Muxes, p \in PinFields, q \in PinFields :
          /\ line = <<"MES", "VOLT", "DIFF", m, p, n, q>>
          /\ c = [kind |-> "DIFF", mux |-> m, pin |-> Pin(p), mux2 |-> n, pin2 |-> Pin(q)]
    BY <1>1 DEF DiffLines
  <2> QED
    BY <2>1, StrictFacts DEF IsDiff, DiffOf
<1>2. ASSUME IsDiff, c = DiffOf PROVE <<line, c>> \in DiffLines
  <2>1. line = <<"MES", "VOLT", "DIFF", line[4], line[5], line[6], line[7]>>
    BY <1>2 DEF IsDiff
  <2> QED
    BY <2>1, <1>2, StrictFacts DEF IsDiff, DiffOf, DiffLines, Loosely
<1> QED
  BY <1>1, <1>2

\* The same of MES:VOLT:MULT.
LEMMA MultMeans == ASSUME line \in Seq(Fields), ~Loosely, NEW c
  PROVE  <<line, c>> \in MultLines <=> IsMult /\ c = MultOf
<1>1. ASSUME <<line, c>> \in MultLines PROVE IsMult /\ c = MultOf
  <2>1. PICK p \in PinFields :
          /\ line = <<"MES", "VOLT", "MULT", p>>
          /\ c = [kind |-> "MULT", pin |-> Pin(p)]
    BY <1>1 DEF MultLines
  <2> QED
    BY <2>1, StrictFacts DEF IsMult, MultOf
<1>2. ASSUME IsMult, c = MultOf PROVE <<line, c>> \in MultLines
  <2>1. line = <<"MES", "VOLT", "MULT", line[4]>>
    BY <1>2 DEF IsMult
  <2> QED
    BY <2>1, <1>2, StrictFacts DEF IsMult, MultOf, MultLines, Loosely
<1> QED
  BY <1>1, <1>2

\* The same of MES:RES:MUX.
LEMMA MuxMeans == ASSUME line \in Seq(Fields), ~Loosely, NEW c
  PROVE  <<line, c>> \in MuxLines <=> IsRes("MUX", TakenFields) /\ c = MuxOf
<1>1. ASSUME <<line, c>> \in MuxLines PROVE IsRes("MUX", TakenFields) /\ c = MuxOf
  <2>1. PICK v \in VCoils, r \in RCoils, p \in PinFields, q \in PinFields :
          /\ line = <<"MES", "RES", "MUX", v, p, r, q>>
          /\ c = Res(v, Pin(p), r, Pin(q), 0, 0)
    BY <1>1 DEF MuxLines
  <2> QED
    BY <2>1, StrictFacts DEF IsRes, MuxOf
<1>2. ASSUME IsRes("MUX", TakenFields), c = MuxOf PROVE <<line, c>> \in MuxLines
  <2>1. line = <<"MES", "RES", "MUX", line[4], line[5], line[6], line[7]>>
    BY <1>2 DEF IsRes
  <2> QED
    BY <2>1, <1>2, StrictFacts DEF IsRes, MuxOf, MuxLines, Loosely
<1> QED
  BY <1>1, <1>2

\* The same of MES:RES:USB.
LEMMA UsbMeans == ASSUME line \in Seq(Fields), ~Loosely, NEW c
  PROVE  <<line, c>> \in UsbLines <=> IsRes("USB", ChannelFields(UsbChannel)) /\ c = UsbOf
<1>1. ASSUME <<line, c>> \in UsbLines PROVE IsRes("USB", ChannelFields(UsbChannel)) /\ c = UsbOf
  <2>1. PICK v \in VCoils, r \in RCoils, c1 \in ChannelFields(UsbChannel), q \in PinFields :
          /\ line = <<"MES", "RES", "USB", v, c1, r, q>>
          /\ c = Res(v, 0, r, Pin(q), UsbChannel[c1], 0)
    BY <1>1 DEF UsbLines
  <2> QED
    BY <2>1, StrictFacts DEF IsRes, UsbOf
<1>2. ASSUME IsRes("USB", ChannelFields(UsbChannel)), c = UsbOf PROVE <<line, c>> \in UsbLines
  <2>1. line = <<"MES", "RES", "USB", line[4], line[5], line[6], line[7]>>
    BY <1>2 DEF IsRes
  <2> QED
    BY <2>1, <1>2, StrictFacts DEF IsRes, UsbOf, UsbLines, Loosely
<1> QED
  BY <1>1, <1>2

\* The same of MES:RES:UART.
LEMMA UartMeans == ASSUME line \in Seq(Fields), ~Loosely, NEW c
  PROVE  <<line, c>> \in UartLines <=> IsRes("UART", ChannelFields(UartChannel)) /\ c = UartOf
<1>1. ASSUME <<line, c>> \in UartLines PROVE IsRes("UART", ChannelFields(UartChannel)) /\ c = UartOf
  <2>1. PICK v \in VCoils, r \in RCoils, c1 \in ChannelFields(UartChannel), q \in PinFields :
          /\ line = <<"MES", "RES", "UART", v, c1, r, q>>
          /\ c = Res(v, 0, r, Pin(q), 0, UartChannel[c1])
    BY <1>1 DEF UartLines
  <2> QED
    BY <2>1, StrictFacts DEF IsRes, UartOf
<1>2. ASSUME IsRes("UART", ChannelFields(UartChannel)), c = UartOf PROVE <<line, c>> \in UartLines
  <2>1. line = <<"MES", "RES", "UART", line[4], line[5], line[6], line[7]>>
    BY <1>2 DEF IsRes
  <2> QED
    BY <2>1, <1>2, StrictFacts DEF IsRes, UartOf, UartLines, Loosely
<1> QED
  BY <1>1, <1>2

\* The same of TEST:USB.
LEMMA UsbTestMeans == ASSUME line \in Seq(Fields), ~Loosely, NEW c
  PROVE  <<line, c>> \in UsbTests <=> IsTest("USB") /\ c = UsbTestOf
<1>1. ASSUME <<line, c>> \in UsbTests PROVE IsTest("USB") /\ c = UsbTestOf
  <2>1. PICK c1 \in ChannelFields(TestChannel) :
          /\ line = <<"TEST", "USB", c1>>
          /\ c = [kind |-> "TEST_USB", ch |-> TestChannel[c1]]
    BY <1>1 DEF UsbTests
  <2> QED
    BY <2>1, StrictFacts DEF IsTest, UsbTestOf
<1>2. ASSUME IsTest("USB"), c = UsbTestOf PROVE <<line, c>> \in UsbTests
  <2>1. line = <<"TEST", "USB", line[3]>>
    BY <1>2 DEF IsTest
  <2> QED
    BY <2>1, <1>2, StrictFacts DEF IsTest, UsbTestOf, UsbTests, Loosely
<1> QED
  BY <1>1, <1>2

\* The same of TEST:UART.
LEMMA UartTestMeans == ASSUME line \in Seq(Fields), ~Loosely, NEW c
  PROVE  <<line, c>> \in UartTests <=> IsTest("UART") /\ c = UartTestOf
<1>1. ASSUME <<line, c>> \in UartTests PROVE IsTest("UART") /\ c = UartTestOf
  <2>1. PICK c1 \in ChannelFields(TestChannel) :
          /\ line = <<"TEST", "UART", c1>>
          /\ c = [kind |-> "TEST_UART", ch |-> TestChannel[c1]]
    BY <1>1 DEF UartTests
  <2> QED
    BY <2>1, StrictFacts DEF IsTest, UartTestOf
<1>2. ASSUME IsTest("UART"), c = UartTestOf PROVE <<line, c>> \in UartTests
  <2>1. line = <<"TEST", "UART", line[3]>>
    BY <1>2 DEF IsTest
  <2> QED
    BY <2>1, <1>2, StrictFacts DEF IsTest, UartTestOf, UartTests, Loosely
<1> QED
  BY <1>1, <1>2

\* What a line means is what it is taken for, of the lines that are as written.
LEMMA MeantAsked ==
  ASSUME line \in Seq(Fields), ~Loosely, ~IsDemo,
         ~IsPrefix(<<"MES", "RES", "BET">>, line)
  PROVE  \A c : c \in Meant <=> c \in Asked
<1> SUFFICES ASSUME NEW c PROVE c \in Meant <=> c \in Asked
  OBVIOUS
<1>1. \A g \in Grammar : g = <<g[1], g[2]>>
  BY DEF Grammar, SingleLines, DiffLines, MultLines, MuxLines, BetLines, UsbLines, UartLines,
         UsbTests, UartTests, DemoLines
<1>2. c \in Meant <=> <<line, c>> \in Grammar
  <2>1. c \in Meant <=> \E g \in Grammar : g[1] = line /\ g[2] = c
    BY DEF Meant
  <2> QED
    BY <2>1, <1>1
<1>3. <<line, c>> \notin DemoLines
  BY DEF DemoLines, IsDemo
<1>4. <<line, c>> \notin BetLines
  <2> SUFFICES ASSUME <<line, c>> \in BetLines PROVE FALSE
    OBVIOUS
  <2>1. PICK v \in VCoils, r \in RCoils, p \in PinFields, q \in PinFields :
          line = <<"MES", "RES", "BET", v, p, r, q>>
    BY DEF BetLines
  <2>2. Len(line) = 7 /\ line[1] = "MES" /\ line[2] = "RES" /\ line[3] = "BET"
    BY <2>1
  <2> QED
    BY <2>2 DEF IsPrefix
<1>5. <<line, c>> \in Grammar <=>
        \/ <<line, c>> \in SingleLines \/ <<line, c>> \in DiffLines
        \/ <<line, c>> \in MultLines \/ <<line, c>> \in MuxLines
        \/ <<line, c>> \in UsbLines \/ <<line, c>> \in UartLines
        \/ <<line, c>> \in UsbTests \/ <<line, c>> \in UartTests
  BY <1>3, <1>4 DEF Grammar
<1> QED
  BY <1>2, <1>5, AskedFamily, SingleMeans, DiffMeans, MultMeans, MuxMeans, UsbMeans, UartMeans,
     UsbTestMeans, UartTestMeans

-----------------------------------------------------------------------------
(* Dispatch                                                                *)

\* What a handler may do with a line: run the one command that it asks for, or,
\* of a line that asks for none, answer a refusal or forget it.
Outcome ==
  \/ \E c \in Runnable : Run(c) /\ Asked = {c}
  \/ \E a \in Refusals : Answer(a) /\ Asked = {}
  \/ /\ Asked = {} /\ pc' = "answered" /\ UNCHANGED <<line, ran, answers, siteVars>>
     /\ Starts(<<"TEST">>) /\ ~\E k \in {"USB", "UART"} : Starts(<<"TEST", k>>)

\* The first fields of the array, one by one.
LEMMA StartsFacts ==
  ASSUME Tokens \in Seq(Fields)
  PROVE  /\ \A a : Starts(<<a>>) <=> Len(Tokens) >= 1 /\ Tokens[1] = a
         /\ \A a, b : Starts(<<a, b>>) <=> Len(Tokens) >= 2 /\ Tokens[1] = a /\ Tokens[2] = b
         /\ \A a, b, c : Starts(<<a, b, c>>) <=>
              Len(Tokens) >= 3 /\ Tokens[1] = a /\ Tokens[2] = b /\ Tokens[3] = c
<1> HIDE DEF Tokens
<1>1. ASSUME NEW a PROVE Starts(<<a>>) <=> Len(Tokens) >= 1 /\ Tokens[1] = a
  BY DEF Starts
<1>2. ASSUME NEW a, NEW b
      PROVE  Starts(<<a, b>>) <=> Len(Tokens) >= 2 /\ Tokens[1] = a /\ Tokens[2] = b
  BY DEF Starts
<1>3. ASSUME NEW a, NEW b, NEW c
      PROVE  Starts(<<a, b, c>>) <=>
               Len(Tokens) >= 3 /\ Tokens[1] = a /\ Tokens[2] = b /\ Tokens[3] = c
  BY DEF Starts
<1> QED
  BY <1>1, <1>2, <1>3

\* The array and the line agree on what the handlers look at: up to seven fields.
LEMMA TokensAre ==
  ASSUME line \in Seq(Fields)
  PROVE  /\ Tokens \in Seq(Fields)
         /\ \A k \in 0 .. 7 : Len(Tokens) = k <=> Len(line) = k
         /\ \A k \in 1 .. 7 : Len(Tokens) >= k <=> Len(line) >= k
         /\ \A k \in 1 .. Len(Tokens) : Tokens[k] = line[k] /\ line[k] \in Fields
<1>1. Len(line) \in Nat /\ Len(Tokens) \in Nat
  BY TokenFacts
<1>2. ASSUME NEW k \in 0 .. 7
      PROVE  (Len(Tokens) = k <=> Len(line) = k) /\ (Len(Tokens) >= k <=> Len(line) >= k)
  BY <1>1, TokenFacts
<1>3. ASSUME NEW k \in 1 .. Len(Tokens) PROVE Tokens[k] = line[k] /\ line[k] \in Fields
  BY TokenFacts
<1>4. \A k \in 1 .. 7 : k \in 0 .. 7
  OBVIOUS
<1> QED
  BY <1>2, <1>3, <1>4, TokenFacts

\* A line that asks for nothing, or for one command.
LEMMA AskedOne ==
  ASSUME NEW S, NEW c, \A d : d \in S <=> d = c
  PROVE  S = {c}
OBVIOUS

\* voltage_single_handler has one of the outcomes.
LEMMA SingleOutcome ==
  ASSUME line \in Seq(Fields), voltage_single_handler
  PROVE  Outcome
<1> DEFINE valid == Tokens[4] \in Muxes /\ PinOf(Tokens[5]) # Invalid
           command == [kind |-> "SINGLE", mux |-> Tokens[4], pin |-> PinOf(Tokens[5])]
<1>1. /\ Len(line) >= 3 /\ line[1] = "MES" /\ line[2] = "VOLT" /\ line[3] = "SINGLE"
      /\ Handle(5, "INVALID_VOLT_SINGLE", valid, "INVALID_PARAMETER", command)
  <2>1. Starts(<<"MES", "VOLT", "SINGLE">>)
    BY DEF voltage_single_handler
  <2>2. Handle(5, "INVALID_VOLT_SINGLE", valid, "INVALID_PARAMETER", command)
    BY DEF voltage_single_handler
  <2> HIDE DEF valid, command
  <2>3. /\ Len(Tokens) >= 3 /\ Tokens[1] = "MES" /\ Tokens[2] = "VOLT" /\ Tokens[3] = "SINGLE"
    BY <2>1, TokensAre, StartsFacts
  <2> QED
    BY <2>2, <2>3, TokensAre
<1>2. \A c : c \in Asked <=> IsSingle /\ c = SingleOf
  <2>1. ~IsDemo
    BY <1>1 DEF IsDemo
  <2>2. ~IsDiff /\ ~IsMult /\ ~IsTest("USB") /\ ~IsTest("UART")
    BY <1>1 DEF IsDiff, IsMult, IsTest
  <2>3. ~IsRes("MUX", TakenFields) /\ ~IsRes("USB", ChannelFields(UsbChannel))
        /\ ~IsRes("UART", ChannelFields(UartChannel))
    BY <1>1 DEF IsRes
  <2> QED
    BY <2>1, <2>2, <2>3, AskedFamily
<1>3. IsSingle <=> Len(Tokens) = 5 /\ valid
  <2>1. CASE Len(Tokens) # 5
    BY <2>1, TokensAre DEF IsSingle
  <2>2. CASE Len(Tokens) = 5
    <3>1. Len(line) = 5 /\ Tokens[4] = line[4] /\ Tokens[5] = line[5]
      BY <2>2, TokensAre
    <3> QED
      BY <3>1, <2>2, <1>1, PinFacts DEF IsSingle
  <2> QED
    BY <2>1, <2>2
<1>4. ASSUME IsSingle PROVE command = SingleOf
  <2>1. Tokens[4] = line[4] /\ Tokens[5] = line[5]
    BY <1>4, <1>3, TokensAre
  <2> QED
    BY <2>1, <1>4, PinFacts DEF IsSingle, SingleOf
<1> HIDE DEF valid, command
<1>5. CASE Len(Tokens) # 5
  <2>1. Answer("INVALID_VOLT_SINGLE") /\ Asked = {}
    BY <1>5, <1>1, <1>2, <1>3 DEF Handle
  <2> QED
    BY <2>1 DEF Outcome, Refusals
<1>6. CASE Len(Tokens) = 5 /\ ~valid
  <2>1. Answer("INVALID_PARAMETER") /\ Asked = {}
    BY <1>6, <1>1, <1>2, <1>3 DEF Handle
  <2> QED
    BY <2>1 DEF Outcome, Refusals
<1>7. CASE Len(Tokens) = 5 /\ valid
  <2>1. Run(command)
    BY <1>7, <1>1 DEF Handle
  <2>2. \A c : c \in Asked <=> c = SingleOf
    BY <1>7, <1>2, <1>3
  <2>3. Asked = {SingleOf}
    BY <2>2, AskedOne
  <2>4. SingleOf \in Runnable
    BY <1>7, <1>3, CommandsTyped DEF Runnable
  <2> QED
    BY <2>1, <2>3, <2>4, <1>3, <1>4, <1>7 DEF Outcome
<1> QED
  BY <1>5, <1>6, <1>7

\* The same of voltage_diff_handler.
LEMMA DiffOutcome ==
  ASSUME line \in Seq(Fields), voltage_diff_handler
  PROVE  Outcome
<1> DEFINE valid == /\ {Tokens[4], Tokens[6]} \subseteq Muxes
                    /\ Invalid \notin {PinOf(Tokens[5]), PinOf(Tokens[7])}
           command == [kind |-> "DIFF", mux |-> Tokens[4], pin |-> PinOf(Tokens[5]),
                       mux2 |-> Tokens[6], pin2 |-> PinOf(Tokens[7])]
<1>1. /\ Len(line) >= 3 /\ line[1] = "MES" /\ line[2] = "VOLT" /\ line[3] = "DIFF"
      /\ Handle(7, "INVALID_VOLT_DIFF", valid, "INVALID_PARAMETER", command)
  <2>1. Starts(<<"MES", "VOLT", "DIFF">>)
    BY DEF voltage_diff_handler
  <2>2. Handle(7, "INVALID_VOLT_DIFF", valid, "INVALID_PARAMETER", command)
    BY DEF voltage_diff_handler
  <2> HIDE DEF valid, command
  <2>3. /\ Len(Tokens) >= 3 /\ Tokens[1] = "MES" /\ Tokens[2] = "VOLT" /\ Tokens[3] = "DIFF"
    BY <2>1, TokensAre, StartsFacts
  <2> QED
    BY <2>2, <2>3, TokensAre
<1>2. \A c : c \in Asked <=> IsDiff /\ c = DiffOf
  <2>1. ~IsDemo
    BY <1>1 DEF IsDemo
  <2>2. /\ ~IsSingle
        /\ ~IsMult
        /\ ~IsRes("MUX", TakenFields)
        /\ ~IsRes("USB", ChannelFields(UsbChannel))
        /\ ~IsRes("UART", ChannelFields(UartChannel))
        /\ ~IsTest("USB")
        /\ ~IsTest("UART")
    BY <1>1 DEF IsSingle, IsDiff, IsMult, IsTest, IsRes
  <2> QED
    BY <2>1, <2>2, AskedFamily
<1>3. IsDiff <=> Len(Tokens) = 7 /\ valid
  <2>1. CASE Len(Tokens) # 7
    BY <2>1, TokensAre DEF IsDiff
  <2>2. CASE Len(Tokens) = 7
    <3>1. Len(line) = 7 /\ \A i \in 1 .. 7 : Tokens[i] = line[i] /\ line[i] \in Fields
      BY <2>2, TokensAre
    <3> QED
      BY <3>1, <2>2, <1>1, PinFacts, ChannelFacts DEF IsDiff
  <2> QED
    BY <2>1, <2>2
<1>4. ASSUME IsDiff PROVE command = DiffOf
  <2>1. \A i \in 1 .. 7 : Tokens[i] = line[i]
    BY <1>4, <1>3, TokensAre
  <2> QED
    BY <2>1, <1>4, PinFacts DEF IsDiff, DiffOf
<1> HIDE DEF valid, command
<1>5. CASE Len(Tokens) # 7
  <2>1. Answer("INVALID_VOLT_DIFF") /\ Asked = {}
    BY <1>5, <1>1, <1>2, <1>3 DEF Handle
  <2> QED
    BY <2>1 DEF Outcome, Refusals
<1>6. CASE Len(Tokens) = 7 /\ ~valid
  <2>1. Answer("INVALID_PARAMETER") /\ Asked = {}
    BY <1>6, <1>1, <1>2, <1>3 DEF Handle
  <2> QED
    BY <2>1 DEF Outcome, Refusals
<1>7. CASE Len(Tokens) = 7 /\ valid
  <2>1. Run(command)
    BY <1>7, <1>1 DEF Handle
  <2>2. \A c : c \in Asked <=> c = DiffOf
    BY <1>7, <1>2, <1>3
  <2>3. Asked = {DiffOf}
    BY <2>2, AskedOne
  <2>4. DiffOf \in Runnable
    BY <1>7, <1>3, CommandsTyped DEF Runnable
  <2> QED
    BY <2>1, <2>3, <2>4, <1>3, <1>4, <1>7 DEF Outcome
<1> QED
  BY <1>5, <1>6, <1>7

\* The same of voltage_multiple_handler.
LEMMA MultOutcome ==
  ASSUME line \in Seq(Fields), voltage_multiple_handler
  PROVE  Outcome
<1> DEFINE valid == PinOf(Tokens[4]) # Invalid
           command == [kind |-> "MULT", pin |-> PinOf(Tokens[4])]
<1>1. /\ Len(line) >= 3 /\ line[1] = "MES" /\ line[2] = "VOLT" /\ line[3] = "MULT"
      /\ Handle(4, "INVALID_VOLT_MULT", valid, "INVALID_PIN", command)
  <2>1. Starts(<<"MES", "VOLT", "MULT">>)
    BY DEF voltage_multiple_handler
  <2>2. Handle(4, "INVALID_VOLT_MULT", valid, "INVALID_PIN", command)
    BY DEF voltage_multiple_handler
  <2> HIDE DEF valid, command
  <2>3. /\ Len(Tokens) >= 3 /\ Tokens[1] = "MES" /\ Tokens[2] = "VOLT" /\ Tokens[3] = "MULT"
    BY <2>1, TokensAre, StartsFacts
  <2> QED
    BY <2>2, <2>3, TokensAre
<1>2. \A c : c \in Asked <=> IsMult /\ c = MultOf
  <2>1. ~IsDemo
    BY <1>1 DEF IsDemo
  <2>2. /\ ~IsSingle
        /\ ~IsDiff
        /\ ~IsRes("MUX", TakenFields)
        /\ ~IsRes("USB", ChannelFields(UsbChannel))
        /\ ~IsRes("UART", ChannelFields(UartChannel))
        /\ ~IsTest("USB")
        /\ ~IsTest("UART")
    BY <1>1 DEF IsSingle, IsDiff, IsMult, IsTest, IsRes
  <2> QED
    BY <2>1, <2>2, AskedFamily
<1>3. IsMult <=> Len(Tokens) = 4 /\ valid
  <2>1. CASE Len(Tokens) # 4
    BY <2>1, TokensAre DEF IsMult
  <2>2. CASE Len(Tokens) = 4
    <3>1. Len(line) = 4 /\ \A i \in 1 .. 4 : Tokens[i] = line[i] /\ line[i] \in Fields
      BY <2>2, TokensAre
    <3> QED
      BY <3>1, <2>2, <1>1, PinFacts, ChannelFacts DEF IsMult
  <2> QED
    BY <2>1, <2>2
<1>4. ASSUME IsMult PROVE command = MultOf
  <2>1. \A i \in 1 .. 4 : Tokens[i] = line[i]
    BY <1>4, <1>3, TokensAre
  <2> QED
    BY <2>1, <1>4, PinFacts DEF IsMult, MultOf
<1> HIDE DEF valid, command
<1>5. CASE Len(Tokens) # 4
  <2>1. Answer("INVALID_VOLT_MULT") /\ Asked = {}
    BY <1>5, <1>1, <1>2, <1>3 DEF Handle
  <2> QED
    BY <2>1 DEF Outcome, Refusals
<1>6. CASE Len(Tokens) = 4 /\ ~valid
  <2>1. Answer("INVALID_PIN") /\ Asked = {}
    BY <1>6, <1>1, <1>2, <1>3 DEF Handle
  <2> QED
    BY <2>1 DEF Outcome, Refusals
<1>7. CASE Len(Tokens) = 4 /\ valid
  <2>1. Run(command)
    BY <1>7, <1>1 DEF Handle
  <2>2. \A c : c \in Asked <=> c = MultOf
    BY <1>7, <1>2, <1>3
  <2>3. Asked = {MultOf}
    BY <2>2, AskedOne
  <2>4. MultOf \in Runnable
    BY <1>7, <1>3, CommandsTyped DEF Runnable
  <2> QED
    BY <2>1, <2>3, <2>4, <1>3, <1>4, <1>7 DEF Outcome
<1> QED
  BY <1>5, <1>6, <1>7

\* The same of resistance_handler and a multiplexer.
LEMMA MuxOutcome ==
  ASSUME line \in Seq(Fields), Resistance("MUX", PinOf(Tokens[5]) # Invalid, PinOf(Tokens[5]), 0, 0)
  PROVE  Outcome
<1> DEFINE valid == /\ Tokens[4] \in VCoils /\ PinOf(Tokens[5]) # Invalid
                    /\ Tokens[6] \in RCoils /\ PinOf(Tokens[7]) # Invalid
           command == [kind |-> "RES", num1 |-> Tokens[4], num2 |-> Tokens[6],
                       pin1 |-> PinOf(Tokens[5]), pin2 |-> PinOf(Tokens[7]),
                       ch1 |-> 0, ch2 |-> 0]
<1>1. /\ Len(line) >= 3 /\ line[1] = "MES" /\ line[2] = "RES" /\ line[3] = "MUX"
      /\ Handle(7, "INVALID_RES_FORMAT", valid, "INVALID_PARAMETER", command)
  <2>1. Starts(<<"MES", "RES", "MUX">>)
    BY DEF Resistance
  <2>2. Handle(7, "INVALID_RES_FORMAT", valid, "INVALID_PARAMETER", command)
    BY DEF Resistance
  <2> HIDE DEF valid, command
  <2>3. /\ Len(Tokens) >= 3 /\ Tokens[1] = "MES" /\ Tokens[2] = "RES" /\ Tokens[3] = "MUX"
    BY <2>1, TokensAre, StartsFacts
  <2> QED
    BY <2>2, <2>3, TokensAre
<1>2. \A c : c \in Asked <=> IsRes("MUX", TakenFields) /\ c = MuxOf
  <2>1. ~IsDemo
    BY <1>1 DEF IsDemo
  <2>2. /\ ~IsSingle
        /\ ~IsDiff
        /\ ~IsMult
        /\ ~IsRes("USB", ChannelFields(UsbChannel))
        /\ ~IsRes("UART", ChannelFields(UartChannel))
        /\ ~IsTest("USB")
        /\ ~IsTest("UART")
    BY <1>1 DEF IsSingle, IsDiff, IsMult, IsTest, IsRes
  <2> QED
    BY <2>1, <2>2, AskedFamily
<1>3. IsRes("MUX", TakenFields) <=> Len(Tokens) = 7 /\ valid
  <2>1. CASE Len(Tokens) # 7
    BY <2>1, TokensAre DEF IsRes
  <2>2. CASE Len(Tokens) = 7
    <3>1. Len(line) = 7 /\ \A i \in 1 .. 7 : Tokens[i] = line[i] /\ line[i] \in Fields
      BY <2>2, TokensAre
    <3> QED
      BY <3>1, <2>2, <1>1, PinFacts, ChannelFacts DEF IsRes
  <2> QED
    BY <2>1, <2>2
<1>4. ASSUME IsRes("MUX", TakenFields) PROVE command = MuxOf
  <2>1. \A i \in 1 .. 7 : Tokens[i] = line[i]
    BY <1>4, <1>3, TokensAre
  <2> QED
    BY <2>1, <1>4, PinFacts DEF IsRes, MuxOf, Res
<1> HIDE DEF valid, command
<1>5. CASE Len(Tokens) # 7
  <2>1. Answer("INVALID_RES_FORMAT") /\ Asked = {}
    BY <1>5, <1>1, <1>2, <1>3 DEF Handle
  <2> QED
    BY <2>1 DEF Outcome, Refusals
<1>6. CASE Len(Tokens) = 7 /\ ~valid
  <2>1. Answer("INVALID_PARAMETER") /\ Asked = {}
    BY <1>6, <1>1, <1>2, <1>3 DEF Handle
  <2> QED
    BY <2>1 DEF Outcome, Refusals
<1>7. CASE Len(Tokens) = 7 /\ valid
  <2>1. Run(command)
    BY <1>7, <1>1 DEF Handle
  <2>2. \A c : c \in Asked <=> c = MuxOf
    BY <1>7, <1>2, <1>3
  <2>3. Asked = {MuxOf}
    BY <2>2, AskedOne
  <2>4. MuxOf \in Runnable
    BY <1>7, <1>3, CommandsTyped DEF Runnable
  <2> QED
    BY <2>1, <2>3, <2>4, <1>3, <1>4, <1>7 DEF Outcome
<1> QED
  BY <1>5, <1>6, <1>7

\* The same of resistance_handler and a USB channel.
LEMMA UsbOutcome ==
  ASSUME line \in Seq(Fields), Resistance("USB", Tokens[5] \in DOMAIN UsbChannel, 0, UsbChannel[Tokens[5]], 0)
  PROVE  Outcome
<1> DEFINE valid == /\ Tokens[4] \in VCoils /\ Tokens[5] \in DOMAIN UsbChannel
                    /\ Tokens[6] \in RCoils /\ PinOf(Tokens[7]) # Invalid
           command == [kind |-> "RES", num1 |-> Tokens[4], num2 |-> Tokens[6],
                       pin1 |-> 0, pin2 |-> PinOf(Tokens[7]),
                       ch1 |-> UsbChannel[Tokens[5]], ch2 |-> 0]
<1>1. /\ Len(line) >= 3 /\ line[1] = "MES" /\ line[2] = "RES" /\ line[3] = "USB"
      /\ Handle(7, "INVALID_RES_FORMAT", valid, "INVALID_PARAMETER", command)
  <2>1. Starts(<<"MES", "RES", "USB">>)
    BY DEF Resistance
  <2>2. Handle(7, "INVALID_RES_FORMAT", valid, "INVALID_PARAMETER", command)
    BY DEF Resistance
  <2> HIDE DEF valid, command
  <2>3. /\ Len(Tokens) >= 3 /\ Tokens[1] = "MES" /\ Tokens[2] = "RES" /\ Tokens[3] = "USB"
    BY <2>1, TokensAre, StartsFacts
  <2> QED
    BY <2>2, <2>3, TokensAre
<1>2. \A c : c \in Asked <=> IsRes("USB", ChannelFields(UsbChannel)) /\ c = UsbOf
  <2>1. ~IsDemo
    BY <1>1 DEF IsDemo
  <2>2. /\ ~IsSingle
        /\ ~IsDiff
        /\ ~IsMult
        /\ ~IsRes("MUX", TakenFields)
        /\ ~IsRes("UART", ChannelFields(UartChannel))
        /\ ~IsTest("USB")
        /\ ~IsTest("UART")
    BY <1>1 DEF IsSingle, IsDiff, IsMult, IsTest, IsRes
  <2> QED
    BY <2>1, <2>2, AskedFamily
<1>3. IsRes("USB", ChannelFields(UsbChannel)) <=> Len(Tokens) = 7 /\ valid
  <2>1. CASE Len(Tokens) # 7
    BY <2>1, TokensAre DEF IsRes
  <2>2. CASE Len(Tokens) = 7
    <3>1. Len(line) = 7 /\ \A i \in 1 .. 7 : Tokens[i] = line[i] /\ line[i] \in Fields
      BY <2>2, TokensAre
    <3> QED
      BY <3>1, <2>2, <1>1, PinFacts, ChannelFacts DEF IsRes
  <2> QED
    BY <2>1, <2>2
<1>4. ASSUME IsRes("USB", ChannelFields(UsbChannel)) PROVE command = UsbOf
  <2>1. \A i \in 1 .. 7 : Tokens[i] = line[i]
    BY <1>4, <1>3, TokensAre
  <2> QED
    BY <2>1, <1>4, PinFacts DEF IsRes, UsbOf, Res
<1> HIDE DEF valid, command
<1>5. CASE Len(Tokens) # 7
  <2>1. Answer("INVALID_RES_FORMAT") /\ Asked = {}
    BY <1>5, <1>1, <1>2, <1>3 DEF Handle
  <2> QED
    BY <2>1 DEF Outcome, Refusals
<1>6. CASE Len(Tokens) = 7 /\ ~valid
  <2>1. Answer("INVALID_PARAMETER") /\ Asked = {}
    BY <1>6, <1>1, <1>2, <1>3 DEF Handle
  <2> QED
    BY <2>1 DEF Outcome, Refusals
<1>7. CASE Len(Tokens) = 7 /\ valid
  <2>1. Run(command)
    BY <1>7, <1>1 DEF Handle
  <2>2. \A c : c \in Asked <=> c = UsbOf
    BY <1>7, <1>2, <1>3
  <2>3. Asked = {UsbOf}
    BY <2>2, AskedOne
  <2>4. UsbOf \in Runnable
    BY <1>7, <1>3, CommandsTyped DEF Runnable
  <2> QED
    BY <2>1, <2>3, <2>4, <1>3, <1>4, <1>7 DEF Outcome
<1> QED
  BY <1>5, <1>6, <1>7

\* The same of resistance_handler and a UART channel.
LEMMA UartOutcome ==
  ASSUME line \in Seq(Fields), Resistance("UART", Tokens[5] \in DOMAIN UartChannel, 0, 0, UartChannel[Tokens[5]])
  PROVE  Outcome
<1> DEFINE valid == /\ Tokens[4] \in VCoils /\ Tokens[5] \in DOMAIN UartChannel
                    /\ Tokens[6] \in RCoils /\ PinOf(Tokens[7]) # Invalid
           command == [kind |-> "RES", num1 |-> Tokens[4], num2 |-> Tokens[6],
                       pin1 |-> 0, pin2 |-> PinOf(Tokens[7]),
                       ch1 |-> 0, ch2 |-> UartChannel[Tokens[5]]]
<1>1. /\ Len(line) >= 3 /\ line[1] = "MES" /\ line[2] = "RES" /\ line[3] = "UART"
      /\ Handle(7, "INVALID_RES_FORMAT", valid, "INVALID_PARAMETER", command)
  <2>1. Starts(<<"MES", "RES", "UART">>)
    BY DEF Resistance
  <2>2. Handle(7, "INVALID_RES_FORMAT", valid, "INVALID_PARAMETER", command)
    BY DEF Resistance
  <2> HIDE DEF valid, command
  <2>3. /\ Len(Tokens) >= 3 /\ Tokens[1] = "MES" /\ Tokens[2] = "RES" /\ Tokens[3] = "UART"
    BY <2>1, TokensAre, StartsFacts
  <2> QED
    BY <2>2, <2>3, TokensAre
<1>2. \A c : c \in Asked <=> IsRes("UART", ChannelFields(UartChannel)) /\ c = UartOf
  <2>1. ~IsDemo
    BY <1>1 DEF IsDemo
  <2>2. /\ ~IsSingle
        /\ ~IsDiff
        /\ ~IsMult
        /\ ~IsRes("MUX", TakenFields)
        /\ ~IsRes("USB", ChannelFields(UsbChannel))
        /\ ~IsTest("USB")
        /\ ~IsTest("UART")
    BY <1>1 DEF IsSingle, IsDiff, IsMult, IsTest, IsRes
  <2> QED
    BY <2>1, <2>2, AskedFamily
<1>3. IsRes("UART", ChannelFields(UartChannel)) <=> Len(Tokens) = 7 /\ valid
  <2>1. CASE Len(Tokens) # 7
    BY <2>1, TokensAre DEF IsRes
  <2>2. CASE Len(Tokens) = 7
    <3>1. Len(line) = 7 /\ \A i \in 1 .. 7 : Tokens[i] = line[i] /\ line[i] \in Fields
      BY <2>2, TokensAre
    <3> QED
      BY <3>1, <2>2, <1>1, PinFacts, ChannelFacts DEF IsRes
  <2> QED
    BY <2>1, <2>2
<1>4. ASSUME IsRes("UART", ChannelFields(UartChannel)) PROVE command = UartOf
  <2>1. \A i \in 1 .. 7 : Tokens[i] = line[i]
    BY <1>4, <1>3, TokensAre
  <2> QED
    BY <2>1, <1>4, PinFacts DEF IsRes, UartOf, Res
<1> HIDE DEF valid, command
<1>5. CASE Len(Tokens) # 7
  <2>1. Answer("INVALID_RES_FORMAT") /\ Asked = {}
    BY <1>5, <1>1, <1>2, <1>3 DEF Handle
  <2> QED
    BY <2>1 DEF Outcome, Refusals
<1>6. CASE Len(Tokens) = 7 /\ ~valid
  <2>1. Answer("INVALID_PARAMETER") /\ Asked = {}
    BY <1>6, <1>1, <1>2, <1>3 DEF Handle
  <2> QED
    BY <2>1 DEF Outcome, Refusals
<1>7. CASE Len(Tokens) = 7 /\ valid
  <2>1. Run(command)
    BY <1>7, <1>1 DEF Handle
  <2>2. \A c : c \in Asked <=> c = UartOf
    BY <1>7, <1>2, <1>3
  <2>3. Asked = {UartOf}
    BY <2>2, AskedOne
  <2>4. UartOf \in Runnable
    BY <1>7, <1>3, CommandsTyped DEF Runnable
  <2> QED
    BY <2>1, <2>3, <2>4, <1>3, <1>4, <1>7 DEF Outcome
<1> QED
  BY <1>5, <1>6, <1>7

\* A line of no shape asks for nothing.
LEMMA AskedNothing ==
  ASSUME line \in Seq(Fields),
         ~IsDemo,
         ~IsSingle,
         ~IsDiff,
         ~IsMult,
         ~IsRes("MUX", TakenFields),
         ~IsRes("USB", ChannelFields(UsbChannel)),
         ~IsRes("UART", ChannelFields(UartChannel)),
         ~IsTest("USB"),
         ~IsTest("UART")
  PROVE  Asked = {}
BY AskedFamily

\* A refusal of a line that asks for nothing.
LEMMA Refused ==
  ASSUME NEW a \in Refusals, Answer(a), Asked = {}
  PROVE  Outcome
BY DEF Outcome

\* resistance_handler refuses a type that it does not know.
LEMMA ResTypeOutcome ==
  ASSUME line \in Seq(Fields), ResType
  PROVE  Outcome
<1>1. Len(Tokens) >= 3 /\ Tokens[3] \notin {"MUX", "USB", "UART"} /\ Answer("INVALID_RES_TYPE")
  BY DEF ResType
<1>2. Tokens[1] = "MES" /\ Tokens[2] = "RES"
  BY TokensAre, StartsFacts DEF ResType
<1>3. line[1] = "MES" /\ line[2] = "RES" /\ line[3] \notin {"MUX", "USB", "UART"}
  BY <1>1, <1>2, TokensAre
<1>4. Asked = {}
  BY <1>3, AskedNothing DEF IsSingle, IsDiff, IsMult, IsRes, IsTest, IsDemo
<1> QED
  BY <1>1, <1>4, Refused DEF Refusals

\* process_usb_command refuses a line without fields.
LEMMA NoTokenOutcome ==
  ASSUME line \in Seq(Fields), NoToken
  PROVE  Outcome
<1>1. Len(line) = 0 /\ Answer("INVALID_COMMAND")
  BY TokensAre DEF NoToken
<1>2. Asked = {}
  BY <1>1, AskedNothing DEF IsSingle, IsDiff, IsMult, IsRes, IsTest, IsDemo
<1> QED
  BY <1>1, <1>2, Refused DEF Refusals

\* It refuses a line of another first field.
LEMMA UnknownOutcome ==
  ASSUME line \in Seq(Fields), Unknown
  PROVE  Outcome
<1>1. Len(Tokens) >= 1 /\ Tokens[1] \notin {"MES", "TEST", "DEMO"} /\ Answer("UNKNOWN_COMMAND")
  BY TokensAre DEF Unknown
<1>2. line[1] \notin {"MES", "TEST", "DEMO"}
  BY <1>1, TokensAre
<1>3. Asked = {}
  BY <1>2, AskedNothing DEF IsSingle, IsDiff, IsMult, IsRes, IsTest, IsDemo
<1> QED
  BY <1>1, <1>3, Refused DEF Refusals

\* The dispatcher refuses a measurement that it does not know.
LEMMA MesUnknownOutcome ==
  ASSUME line \in Seq(Fields), MesUnknown
  PROVE  Outcome
<1>1. Len(Tokens) >= 1 /\ Tokens[1] = "MES" /\ Answer("INVALID_MEASUREMENT")
  BY TokensAre, StartsFacts DEF MesUnknown
<1>2. line[1] = "MES"
  BY <1>1, TokensAre
<1>3. CASE Len(Tokens) < 3
  <2>1. Len(line) < 3
    BY <1>3, TokensAre
  <2>2. Asked = {}
    BY <2>1, <1>2, AskedNothing DEF IsSingle, IsDiff, IsMult, IsRes, IsTest, IsDemo
  <2> QED
    BY <1>1, <2>2, Refused DEF Refusals
<1>4. CASE Len(Tokens) >= 3
  <2>1. ~Starts(<<"MES", "RES">>) /\ ~\E k \in {"SINGLE", "DIFF", "MULT"} : Starts(<<"MES", "VOLT", k>>)
    BY <1>4, TokensAre DEF MesUnknown
  <2>2. Tokens[2] # "RES" /\ (Tokens[2] = "VOLT" => Tokens[3] \notin {"SINGLE", "DIFF", "MULT"})
    BY <2>1, <1>1, <1>4, TokensAre, StartsFacts
  <2>3. line[2] # "RES" /\ (line[2] = "VOLT" => line[3] \notin {"SINGLE", "DIFF", "MULT"})
    BY <2>2, <1>4, TokensAre
  <2>4. Asked = {}
    BY <2>3, <1>2, AskedNothing DEF IsSingle, IsDiff, IsMult, IsRes, IsTest, IsDemo
  <2> QED
    BY <1>1, <2>4, Refused DEF Refusals
<1> QED
  BY <1>3, <1>4, TokensAre

\* demo_command_handler runs or refuses.
LEMMA DemoOutcome ==
  ASSUME line \in Seq(Fields), demo_command_handler
  PROVE  Outcome
<1>1. Len(Tokens) >= 1 /\ Tokens[1] = "DEMO"
  BY TokensAre, StartsFacts DEF demo_command_handler
<1>2. line[1] = "DEMO"
  BY <1>1, TokensAre
<1>3. CASE Starts(<<"DEMO", "RES">>)
  <2>1. Len(Tokens) >= 2 /\ Tokens[2] = "RES"
    BY <1>3, TokensAre, StartsFacts
  <2>2. IsDemo
    BY <2>1, <1>2, TokensAre DEF IsDemo
  <2>3. Asked = {[kind |-> "DEMO"]}
    BY <2>2, AskedDemo
  <2>4. Run([kind |-> "DEMO"])
    BY <1>3 DEF demo_command_handler
  <2> QED
    BY <2>3, <2>4 DEF Outcome, Runnable
<1>4. CASE ~Starts(<<"DEMO", "RES">>)
  <2>1. ~IsDemo
    <3> SUFFICES ASSUME IsDemo PROVE FALSE
      OBVIOUS
    <3>1. Len(Tokens) >= 2
      BY TokensAre DEF IsDemo
    <3>2. Tokens[2] = "RES"
      BY <3>1, TokensAre DEF IsDemo
    <3> QED
      BY <3>1, <3>2, <1>1, <1>4, TokensAre, StartsFacts
  <2>2. Asked = {}
    BY <2>1, <1>2, AskedNothing DEF IsSingle, IsDiff, IsMult, IsRes, IsTest
  <2>3. Answer("INVALID_DEMO_COMMAND")
    BY <1>4 DEF demo_command_handler
  <2> QED
    BY <2>2, <2>3, Refused DEF Refusals
<1> QED
  BY <1>3, <1>4

\* test_command_handler with the test of a USB channel.
LEMMA TestUsbOutcome ==
  ASSUME line \in Seq(Fields), Len(Tokens) >= 3, Tokens[1] = "TEST", Tokens[2] = "USB",
         Handle(3, "INVALID_USB_TEST", Tokens[3] \in DOMAIN TestChannel, "INVALID_USB_CH",
                [kind |-> "TEST_USB", ch |-> TestChannel[Tokens[3]]])
  PROVE  Outcome
<1>1. line[1] = "TEST" /\ line[2] = "USB" /\ Tokens[3] = line[3] /\ line[3] \in Fields
  BY TokensAre
<1>2. \A c : c \in Asked <=> IsTest("USB") /\ c = UsbTestOf
  <2>1. ~IsDemo /\ ~IsTest("UART")
    BY <1>1 DEF IsDemo, IsTest
  <2>2. /\ ~IsSingle
        /\ ~IsDiff
        /\ ~IsMult
        /\ ~IsRes("MUX", TakenFields)
        /\ ~IsRes("USB", ChannelFields(UsbChannel))
        /\ ~IsRes("UART", ChannelFields(UartChannel))
    BY <1>1 DEF IsSingle, IsDiff, IsMult, IsRes
  <2> QED
    BY <2>1, <2>2, AskedFamily
<1>3. IsTest("USB") <=> Len(Tokens) = 3 /\ Tokens[3] \in DOMAIN TestChannel
  BY <1>1, TokensAre, ChannelFacts DEF IsTest
<1>4. [kind |-> "TEST_USB", ch |-> TestChannel[Tokens[3]]] = UsbTestOf
  BY <1>1 DEF UsbTestOf
<1>5. CASE Len(Tokens) # 3
  <2>1. Answer("INVALID_USB_TEST") /\ Asked = {}
    BY <1>5, <1>2, <1>3 DEF Handle
  <2> QED
    BY <2>1, Refused DEF Refusals
<1>6. CASE Len(Tokens) = 3 /\ Tokens[3] \notin DOMAIN TestChannel
  <2>1. Answer("INVALID_USB_CH") /\ Asked = {}
    BY <1>6, <1>2, <1>3 DEF Handle
  <2> QED
    BY <2>1, Refused DEF Refusals
<1>7. CASE Len(Tokens) = 3 /\ Tokens[3] \in DOMAIN TestChannel
  <2>1. Run(UsbTestOf)
    BY <1>7, <1>4 DEF Handle
  <2>2. \A c : c \in Asked <=> c = UsbTestOf
    BY <1>7, <1>2, <1>3
  <2>3. Asked = {UsbTestOf}
    BY <2>2, AskedOne
  <2>4. UsbTestOf \in Runnable
    BY <1>7, <1>3, CommandsTyped DEF Runnable
  <2> QED
    BY <2>1, <2>3, <2>4 DEF Outcome
<1> QED
  BY <1>5, <1>6, <1>7

\* test_command_handler with the test of a UART channel.
LEMMA TestUartOutcome ==
  ASSUME line \in Seq(Fields), Len(Tokens) >= 3, Tokens[1] = "TEST", Tokens[2] = "UART",
         Handle(3, "INVALID_UART_TEST", Tokens[3] \in DOMAIN TestChannel, "INVALID_UART_CH",
                [kind |-> "TEST_UART", ch |-> TestChannel[Tokens[3]]])
  PROVE  Outcome
<1>1. line[1] = "TEST" /\ line[2] = "UART" /\ Tokens[3] = line[3] /\ line[3] \in Fields
  BY TokensAre
<1>2. \A c : c \in Asked <=> IsTest("UART") /\ c = UartTestOf
  <2>1. ~IsDemo /\ ~IsTest("USB")
    BY <1>1 DEF IsDemo, IsTest
  <2>2. /\ ~IsSingle
        /\ ~IsDiff
        /\ ~IsMult
        /\ ~IsRes("MUX", TakenFields)
        /\ ~IsRes("USB", ChannelFields(UsbChannel))
        /\ ~IsRes("UART", ChannelFields(UartChannel))
    BY <1>1 DEF IsSingle, IsDiff, IsMult, IsRes
  <2> QED
    BY <2>1, <2>2, AskedFamily
<1>3. IsTest("UART") <=> Len(Tokens) = 3 /\ Tokens[3] \in DOMAIN TestChannel
  BY <1>1, TokensAre, ChannelFacts DEF IsTest
<1>4. [kind |-> "TEST_UART", ch |-> TestChannel[Tokens[3]]] = UartTestOf
  BY <1>1 DEF UartTestOf
<1>5. CASE Len(Tokens) # 3
  <2>1. Answer("INVALID_UART_TEST") /\ Asked = {}
    BY <1>5, <1>2, <1>3 DEF Handle
  <2> QED
    BY <2>1, Refused DEF Refusals
<1>6. CASE Len(Tokens) = 3 /\ Tokens[3] \notin DOMAIN TestChannel
  <2>1. Answer("INVALID_UART_CH") /\ Asked = {}
    BY <1>6, <1>2, <1>3 DEF Handle
  <2> QED
    BY <2>1, Refused DEF Refusals
<1>7. CASE Len(Tokens) = 3 /\ Tokens[3] \in DOMAIN TestChannel
  <2>1. Run(UartTestOf)
    BY <1>7, <1>4 DEF Handle
  <2>2. \A c : c \in Asked <=> c = UartTestOf
    BY <1>7, <1>2, <1>3
  <2>3. Asked = {UartTestOf}
    BY <2>2, AskedOne
  <2>4. UartTestOf \in Runnable
    BY <1>7, <1>3, CommandsTyped DEF Runnable
  <2> QED
    BY <2>1, <2>3, <2>4 DEF Outcome
<1> QED
  BY <1>5, <1>6, <1>7

\* test_command_handler, its silence about another subject included.
LEMMA TestOutcome ==
  ASSUME line \in Seq(Fields), test_command_handler
  PROVE  Outcome
<1>1. Len(Tokens) >= 1 /\ Tokens[1] = "TEST"
  BY TokensAre, StartsFacts DEF test_command_handler
<1>2. line[1] = "TEST"
  BY <1>1, TokensAre
<1>3. CASE Len(Tokens) < 3
  <2>1. Len(line) < 3 /\ Answer("INVALID_TEST")
    BY <1>3, TokensAre DEF test_command_handler
  <2>2. Asked = {}
    BY <2>1, <1>2, AskedNothing DEF IsSingle, IsDiff, IsMult, IsRes, IsTest, IsDemo
  <2> QED
    BY <2>1, <2>2, Refused DEF Refusals
<1>4. CASE Len(Tokens) >= 3 /\ Tokens[2] \notin {"USB", "UART"}
  <2>1. line[2] \notin {"USB", "UART"}
    BY <1>4, TokensAre
  <2>2. Asked = {}
    BY <2>1, <1>2, AskedNothing DEF IsSingle, IsDiff, IsMult, IsRes, IsTest, IsDemo
  <2>3. pc' = "answered" /\ UNCHANGED <<line, ran, answers, siteVars>>
    BY <1>4 DEF test_command_handler
  <2>4. Starts(<<"TEST">>) /\ ~\E k \in {"USB", "UART"} : Starts(<<"TEST", k>>)
    BY <1>1, <1>4, TokensAre, StartsFacts
  <2> QED
    BY <2>2, <2>3, <2>4 DEF Outcome
<1>5. CASE Len(Tokens) >= 3 /\ Tokens[2] = "USB"
  BY <1>1, <1>5, TestUsbOutcome DEF test_command_handler
<1>6. CASE Len(Tokens) >= 3 /\ Tokens[2] = "UART"
  BY <1>1, <1>6, TestUartOutcome DEF test_command_handler
<1> QED
  BY <1>3, <1>4, <1>5, <1>6, TokensAre

\* Dispatch runs the one command that the line asks for, or it answers, or
\* forgets, a line that asks for none.
LEMMA DispatchOutcome ==
  ASSUME line \in Seq(Fields), Dispatch
  PROVE  Outcome
<1>1. CASE resistance_handler
  BY <1>1, MuxOutcome, UsbOutcome, UartOutcome, ResTypeOutcome DEF resistance_handler
<1> QED
  BY <1>1, NoTokenOutcome, UnknownOutcome, MesUnknownOutcome, SingleOutcome, DiffOutcome,
     MultOutcome, TestOutcome, DemoOutcome DEF Dispatch

-----------------------------------------------------------------------------
(* Stages of a command                                                     *)

\* What a line asks for, and how it starts, changes only with the line.
LEMMA SameLine ==
  ASSUME line' = line
  PROVE  /\ Asked' = Asked
         /\ Starts(<<"TEST">>)' <=> Starts(<<"TEST">>)
         /\ (\E k \in {"USB", "UART"} : Starts(<<"TEST", k>>))'
              <=> \E k \in {"USB", "UART"} : Starts(<<"TEST", k>>)
<1>1. Asked' = Asked
  BY DEF Asked, IsDemo, IsSingle, IsDiff, IsMult, IsRes, IsTest, SingleOf, DiffOf, MultOf, MuxOf,
         UsbOf, UartOf, UsbTestOf, UartTestOf
<1>2. Tokens' = Tokens
  BY DEF Tokens
<1> QED
  BY <1>1, <1>2 DEF Starts

\* The answer of a finished command is one that Done lists.
LEMMA DoneFacts ==
  /\ \A c \in Runnable : c.kind \in {"SINGLE", "DIFF", "MULT", "RES", "TEST_USB", "TEST_UART", "DEMO"}
  /\ DOMAIN Done = {"SINGLE", "DIFF", "MULT", "RES", "TEST_USB", "DEMO"}
  /\ \A k \in DOMAIN Done : Done[k] \notin Refusals \union Verdicts
<1>1. \A c \in Runnable : c.kind \in {"SINGLE", "DIFF", "MULT", "RES", "TEST_USB", "TEST_UART", "DEMO"}
  BY DEF Runnable, Commands, Single, Diff, Multiple, Resist, Test
<1> QED
  BY <1>1 DEF Done, Refusals, Verdicts

\* The first answer, or the first word.
LEMMA AppendEmpty == \A a : Append(<<>>, a) = <<a>>
OBVIOUS

\* Everything that the loop hears leaves it in the loop or ends the test with
\* one verdict.
LEMMA HearFacts ==
  ASSUME TypeOK, NEW s \in Words \union {End}, Hear(s), pc = "loop", answers = <<>>
  PROVE  /\ word' \in Words \union {"", "other"}
         /\ \/ pc' = "loop" /\ answers' = <<>>
            \/ pc' = "answered" /\ \E v \in Verdicts : answers' = <<v>>
<1> USE DEF TypeOK, Words, Verdicts, Collected, Verdict, IsEnd, End
<1>1. CASE ~IsEnd(s) /\ word' = Collected(word, s) /\ UNCHANGED <<pc, answers>>
  BY <1>1
<1>2. CASE IsEnd(s) /\ word = "test" /\ word' = "" /\ UNCHANGED <<pc, answers>>
  BY <1>2
<1>3. CASE IsEnd(s) /\ word = "EXIT" /\ Verdict("UART_TEST_PASS")
  <2>1. pc' = "answered" /\ word' = "" /\ answers' = <<"UART_TEST_PASS">>
    BY <1>3, AppendEmpty
  <2> QED
    BY <2>1
<1>4. CASE IsEnd(s) /\ word \notin {"test", "EXIT"} /\ Verdict("UART_TEST_FAIL")
  <2>1. pc' = "answered" /\ word' = "" /\ answers' = <<"UART_TEST_FAIL">>
    BY <1>4, AppendEmpty
  <2> QED
    BY <2>1
<1> QED
  BY <1>1, <1>2, <1>3, <1>4 DEF Hear

\* The stages, for a step in the loop.
LEMMA LoopStages ==
  ASSUME TypeOK, StageInv, MeantInv, NEW s \in Words \union {End}, Hear(s),
         pc = "loop", UNCHANGED <<line, ran>>
  PROVE  StageInv' /\ MeantInv'
<1>1. answers = <<>> /\ \E c \in Runnable : ran = <<c>> /\ c.kind = "TEST_UART"
  BY DEF StageInv
<1>2. PICK c \in Runnable : ran = <<c>> /\ c.kind = "TEST_UART"
  BY <1>1
<1>3. \/ pc' = "loop" /\ answers' = <<>>
      \/ pc' = "answered" /\ \E v \in Verdicts : answers' = <<v>>
  BY <1>1, HearFacts
<1>4. StageInv'
  BY <1>2, <1>3 DEF StageInv
<1>5. MeantInv'
  BY SameLine DEF MeantInv
<1> QED
  BY <1>4, <1>5

\* Every step takes a command to its next stage.
LEMMA StagesStep ==
  ASSUME TypeOK, StageInv, MeantInv, [Next]_vars
  PROVE  StageInv' /\ MeantInv'
<1>1. CASE Dispatch
  <2>1. pc = "dispatch" /\ ran = <<>> /\ answers = <<>> /\ Outcome
    BY <1>1, DispatchOutcome DEF Dispatch, StageInv, TypeOK
  <2>2. CASE \E c \in Runnable : Run(c) /\ Asked = {c}
    <3>1. PICK c \in Runnable : Run(c) /\ Asked = {c}
      BY <2>2
    <3>2. pc' = "run" /\ ran' = <<c>> /\ answers' = <<>> /\ line' = line
      BY <2>1, <3>1 DEF Run
    <3>3. StageInv'
      BY <3>2 DEF StageInv
    <3>4. MeantInv'
      BY <3>1, <3>2, SameLine DEF MeantInv
    <3> QED
      BY <3>3, <3>4
  <2>3. CASE \E a \in Refusals : Answer(a) /\ Asked = {}
    <3>1. PICK a \in Refusals : Answer(a) /\ Asked = {}
      BY <2>3
    <3>2. pc' = "answered" /\ ran' = <<>> /\ answers' = <<a>> /\ line' = line
      BY <2>1, <3>1 DEF Answer
    <3>3. StageInv'
      BY <3>2 DEF StageInv
    <3>4. MeantInv'
      BY <3>1, <3>2, SameLine DEF MeantInv
    <3> QED
      BY <3>3, <3>4
  <2>4. CASE /\ Asked = {} /\ pc' = "answered" /\ UNCHANGED <<line, ran, answers, siteVars>>
             /\ Starts(<<"TEST">>) /\ ~\E k \in {"USB", "UART"} : Starts(<<"TEST", k>>)
    <3>1. StageInv'
      BY <2>1, <2>4, SameLine DEF StageInv
    <3>2. MeantInv'
      BY <2>1, <2>4, SameLine DEF MeantInv
    <3> QED
      BY <3>1, <3>2
  <2> QED
    BY <2>1, <2>2, <2>3, <2>4 DEF Outcome
<1>2. CASE Execute
  <2>1. PICK c \in Runnable : ran = <<c>>
    BY <1>2 DEF Execute, StageInv
  <2>2. pc = "run" /\ answers = <<>> /\ Last(ran) = c /\ line' = line /\ ran' = ran
    BY <1>2, <2>1 DEF Execute, StageInv, Last, Answer
  <2>3. CASE c.kind # "TEST_UART"
    <3>1. Answer(Done[c.kind])
      BY <2>2, <2>3, <1>2 DEF Execute
    <3>4. pc' = "answered" /\ answers' = <<Done[c.kind]>>
      BY <3>1, <2>2, AppendEmpty DEF Answer
    <3>2. StageInv'
      BY <2>1, <2>2, <2>3, <3>4 DEF StageInv
    <3>3. MeantInv'
      BY <2>2, SameLine DEF MeantInv
    <3> QED
      BY <3>2, <3>3
  <2>4. CASE c.kind = "TEST_UART"
    <3>1. pc' = "loop" /\ answers' = <<>>
      BY <2>2, <2>4, <1>2 DEF Execute
    <3>2. StageInv'
      BY <2>1, <2>2, <2>4, <3>1 DEF StageInv
    <3>3. MeantInv'
      BY <2>2, SameLine DEF MeantInv
    <3> QED
      BY <3>2, <3>3
  <2> QED
    BY <2>3, <2>4
<1>3. CASE HearStale
  <2>1. Head(fifo) \in Words \union {End}
    <3>1. fifo \in Seq({"EXIT", "part", End}) /\ fifo # <<>>
      BY <1>3 DEF HearStale, TypeOK
    <3>2. Head(fifo) \in {"EXIT", "part", End}
      BY <3>1
    <3> QED
      BY <3>2 DEF Words
  <2> QED
    BY <1>3, <2>1, LoopStages DEF HearStale
<1>4. CASE Chat
  BY <1>4, LoopStages DEF Chat, Say
<1>5. CASE Farewell
  BY <1>5, LoopStages DEF Farewell, Say, Words
<1>6. CASE Reset \/ Send \/ SpeakEarly
  <2>1. pc' \in {"ready", "dispatch"} /\ ran' = <<>> /\ answers' = <<>>
    BY <1>6 DEF Reset, Send, SpeakEarly, StageInv
  <2> QED
    BY <2>1 DEF StageInv, MeantInv
<1>7. CASE UNCHANGED vars
  <2>1. UNCHANGED <<pc, line, ran, answers>>
    BY <1>7 DEF vars
  <2> QED
    BY <2>1, SameLine DEF StageInv, MeantInv
<1> QED
  BY <1>1, <1>2, <1>3, <1>4, <1>5, <1>6, <1>7 DEF Next, Firmware

-----------------------------------------------------------------------------
(* Types                                                                   *)

\* The empty sequence has every type.
LEMMA EmptySeq == \A S : <<>> \in Seq(S)
OBVIOUS

\* Every text that is answered.
Texts == Refusals \union Verdicts \union {Done[k] : k \in DOMAIN Done}

\* In every stage, what is run and what is answered has its type.
LEMMA StageTypes ==
  StageInv /\ pc \in {"ready", "dispatch", "run", "loop", "answered"}
    => ran \in Seq(Runnable) /\ answers \in Seq(Texts)
<1>1. /\ <<>> \in Seq(Runnable) /\ <<>> \in Seq(Texts)
      /\ \A c \in Runnable : <<c>> \in Seq(Runnable)
      /\ \A a \in Texts : <<a>> \in Seq(Texts)
  OBVIOUS
<1>2. /\ \A c \in Runnable : c.kind # "TEST_UART" => Done[c.kind] \in Texts
      /\ \A a \in Refusals \union Verdicts : a \in Texts
  BY DoneFacts DEF Texts
<1> HIDE DEF Texts
<1> QED
  BY <1>1, <1>2 DEF StageInv

\* Every step keeps the types.
LEMMA TypeStep ==
  ASSUME TypeOK, StageInv, StageInv', [Next]_vars
  PROVE  TypeOK'
<1>1. pc' \in {"ready", "dispatch", "run", "loop", "answered"}
  BY DEF TypeOK, Next, Firmware, Dispatch, Execute, HearStale, Reset, Send, Chat, Farewell,
         SpeakEarly, Say, Hear, Verdict, Answer, Run, NoToken, Unknown, MesUnknown,
         voltage_single_handler, voltage_diff_handler, voltage_multiple_handler, Handle,
         resistance_handler, Resistance, ResType, test_command_handler, demo_command_handler, vars
<1>2. line' \in Seq(Fields)
  <2>1. CASE Send
    <3>1. line' \in Lines
      BY <2>1 DEF Send, Lines
    <3> QED
      BY <3>1, LinesFields
  <2>2. CASE Reset
    BY <2>2 DEF Reset
  <2>3. CASE Dispatch
    BY <2>3, DispatchOutcome DEF TypeOK, Outcome, Run, Answer
  <2>4. CASE UNCHANGED line
    BY <2>4 DEF TypeOK
  <2> QED
    BY <2>1, <2>2, <2>3, <2>4 DEF Next, Firmware, Execute, HearStale, Chat, Farewell, Say, SpeakEarly,
                                  Answer, vars
<1>3. ran' \in Seq(Runnable) /\ answers' \in Seq(Texts)
  <2>1. (StageInv /\ pc \in {"ready", "dispatch", "run", "loop", "answered"}
           => ran \in Seq(Runnable) /\ answers \in Seq(Texts))'
    BY StageTypes, PTL
  <2> QED
    BY <2>1, <1>1
<1>4. fifo' \in Seq({"EXIT", "part", End}) /\ Len(fifo') <= 4
  <2>1. CASE UNCHANGED fifo
    BY <2>1 DEF TypeOK
  <2>2. CASE HearStale
    <3>1. fifo \in Seq({"EXIT", "part", End}) /\ Len(fifo) <= 4 /\ fifo # <<>> /\ fifo' = Tail(fifo)
      BY <2>2 DEF TypeOK, HearStale
    <3> QED
      BY <3>1
  <2>3. CASE SpeakEarly
    <3>1. PICK s \in Words \union {End} : fifo' = IF Room THEN Append(fifo, Kept(s)) ELSE fifo
      BY <2>3 DEF SpeakEarly
    <3>2. Kept(s) \in {"EXIT", "part", End}
      BY DEF Kept
    <3>3. fifo \in Seq({"EXIT", "part", End}) /\ Len(fifo) <= 4 /\ (Room => Len(fifo) < 4)
      BY DEF TypeOK, Room
    <3> QED
      BY <3>1, <3>2, <3>3
  <2>4. CASE Reset
    BY <2>4 DEF Reset, TypeOK, siteVars
  <2>5. CASE Dispatch
    BY <2>5, DispatchOutcome DEF TypeOK, Outcome, Run, Answer, siteVars
  <2> QED
    BY <2>1, <2>2, <2>3, <2>4, <2>5
    DEF Next, Firmware, Execute, Send, Chat, Farewell, Say, Answer, siteVars, vars
<1>5. word' \in Words \union {"", "other"}
  <2>1. ASSUME pc = "loop", NEW s \in Words \union {End}, Hear(s)
        PROVE  word' \in Words \union {"", "other"}
    <3>1. answers = <<>>
      BY <2>1 DEF StageInv
    <3> QED
      BY <2>1, <3>1, HearFacts
  <2>2. CASE HearStale
    <3>1. fifo \in Seq({"EXIT", "part", End}) /\ fifo # <<>>
      BY <2>2 DEF HearStale, TypeOK
    <3>2. Head(fifo) \in {"EXIT", "part", End}
      BY <3>1
    <3> QED
      BY <3>2, <2>1, <2>2 DEF HearStale, Words
  <2>3. CASE Chat \/ Farewell
    BY <2>1, <2>3 DEF Chat, Farewell, Say, Words
  <2>4. CASE Dispatch
    BY <2>4, DispatchOutcome DEF TypeOK, Outcome, Run, Answer, siteVars
  <2>5. CASE Execute \/ Reset \/ Send \/ SpeakEarly \/ UNCHANGED vars
    BY <2>5 DEF Execute, Reset, Send, SpeakEarly, Answer, siteVars, vars, TypeOK
  <2> QED
    BY <2>2, <2>3, <2>4, <2>5 DEF Next, Firmware
<1>6. said' \in Seq(Words \union {End})
  <2>1. ASSUME NEW s \in Words \union {End}, Say(s) PROVE said' \in Seq(Words \union {End})
    <3>1. said \in Seq(Words \union {End})
      BY DEF TypeOK
    <3>2. said' = Append(said, s) \/ said' = said
      BY <2>1 DEF Say
    <3> QED
      BY <3>1, <3>2
  <2>2. CASE Chat \/ Farewell
    BY <2>1, <2>2 DEF Chat, Farewell, Words
  <2>3. CASE SpeakEarly
    <3>1. PICK s \in Words \union {End} : said' = Append(said, s)
      BY <2>3 DEF SpeakEarly
    <3>2. said \in Seq(Words \union {End})
      BY DEF TypeOK
    <3> QED
      BY <3>1, <3>2
  <2>4. CASE Dispatch
    BY <2>4, DispatchOutcome DEF TypeOK, Outcome, Run, Answer, siteVars
  <2>5. CASE Execute \/ HearStale \/ Reset \/ Send \/ UNCHANGED vars
    <3>1. said' = said \/ said' = <<>>
      BY <2>5 DEF Execute, HearStale, Reset, Send, Answer, siteVars, vars
    <3>2. said \in Seq(Words \union {End})
      BY DEF TypeOK
    <3> QED
      BY <3>1, <3>2, EmptySeq
  <2> QED
    BY <2>2, <2>3, <2>4, <2>5 DEF Next, Firmware
<1>7. early' \in BOOLEAN
  <2>1. CASE Dispatch
    BY <2>1, DispatchOutcome DEF TypeOK, Outcome, Run, Answer, siteVars
  <2>2. CASE Chat \/ Farewell \/ SpeakEarly \/ Execute \/ HearStale \/ Reset \/ Send \/ UNCHANGED vars
    BY <2>2 DEF Chat, Farewell, Say, SpeakEarly, Execute, HearStale, Reset, Send, Answer, siteVars, vars, TypeOK
  <2> QED
    BY <2>1, <2>2 DEF Next, Firmware
<1> QED
  BY <1>1, <1>2, <1>3, <1>4, <1>5, <1>6, <1>7 DEF TypeOK, Runnable, Texts

-----------------------------------------------------------------------------
(* The loop-back test                                                      *)

\* The bounds on what a site sends.
LEMMA HeardFacts == Heard \in Nat /\ Heard >= MaxEarly /\ Heard >= MaxSaid /\ MaxHeard = Heard + 3
BY BoundAssumption DEF Heard, MaxHeard

\* The range of a sequence and of one that is longer by an element.
LEMMA RangeFacts ==
  ASSUME NEW S, NEW q \in Seq(S), NEW e \in S
  PROVE  /\ \A x : x \in Range(Append(q, e)) <=> x \in Range(q) \/ x = e
         /\ \A x : x \in Range(q) <=> \E i \in 1 .. Len(q) : q[i] = x
         /\ q # <<>> => \A x : x \in Range(Tail(q)) => x \in Range(q)
<1>1. \A x : x \in Range(q) <=> \E i \in 1 .. Len(q) : q[i] = x
  BY DEF Range
<1>2. \A x : x \in Range(Append(q, e)) <=> \E i \in 1 .. Len(q) + 1 : Append(q, e)[i] = x
  BY DEF Range
<1>3. /\ \A i \in 1 .. Len(q) : Append(q, e)[i] = q[i] /\ i \in 1 .. Len(q) + 1
      /\ Append(q, e)[Len(q) + 1] = e /\ Len(q) + 1 \in 1 .. Len(q) + 1
      /\ \A i \in 1 .. Len(q) + 1 : i \in 1 .. Len(q) \/ i = Len(q) + 1
  OBVIOUS
<1>4. ASSUME NEW x PROVE x \in Range(Append(q, e)) <=> x \in Range(q) \/ x = e
  <2>1. ASSUME x \in Range(Append(q, e)) PROVE x \in Range(q) \/ x = e
    BY <2>1, <1>1, <1>2, <1>3
  <2>2. ASSUME x \in Range(q) PROVE x \in Range(Append(q, e))
    BY <2>2, <1>1, <1>2, <1>3
  <2>3. ASSUME x = e PROVE x \in Range(Append(q, e))
    BY <2>3, <1>2, <1>3
  <2> QED
    BY <2>1, <2>2, <2>3
<1>5. ASSUME q # <<>>, NEW x \in Range(Tail(q)) PROVE x \in Range(q)
  <2>1. PICK i \in 1 .. Len(q) - 1 : Tail(q)[i] = x
    BY <1>5 DEF Range
  <2>2. i + 1 \in 1 .. Len(q) /\ q[i + 1] = x
    BY <2>1, <1>5
  <2> QED
    BY <2>2, <1>1
<1> QED
  BY <1>1, <1>4, <1>5

\* The history has its type.
LEMMA SaidSeq == TypeOK => said \in Seq(Words \union {End})
BY DEF TypeOK

\* Its length is a number.
LEMMA SaidLength == TypeOK => Len(said) \in Nat
BY SaidSeq

\* A word makes it longer by one.
LEMMA LongerSaid ==
  ASSUME TypeOK, NEW s \in Words \union {End}, said' = Append(said, s)
  PROVE  Len(said') = Len(said) + 1
<1>1. said \in Seq(Words \union {End})
  BY SaidSeq
<1> QED
  BY <1>1

\* What the site has sent is longer by what it says: its history is never cut.
LEMMA SayFacts ==
  ASSUME TypeOK, LengthInv, pc = "loop", NEW s \in Words \union {End}, Say(s)
  PROVE  said' = Append(said, s) /\ Len(said') = Len(said) + 1
<1>1. Len(said) \in Nat /\ Heard \in Nat /\ MaxHeard = Heard + 3
  BY SaidLength, HeardFacts
<1>2. Len(said) <= Heard \/ Len(said) <= Heard + 1 \/ Len(said) <= Heard + 2
  BY Zenon DEF LengthInv
<1>3. Len(said) < MaxHeard
  BY <1>1, <1>2
<1>4. said' = Append(said, s)
  BY <1>3 DEF Say
<1> QED
  BY <1>4, LongerSaid

\* Every step keeps the history within its bound.
LEMMA LengthStep ==
  ASSUME TypeOK, StageInv, LengthInv, [Next]_vars
  PROVE  LengthInv'
<1>0. Len(said) \in Nat /\ Heard \in Nat /\ MaxSaid \in Nat /\ MaxEarly \in Nat
      /\ Heard >= MaxSaid /\ Heard >= MaxEarly /\ Heard' = Heard
  BY SaidLength, HeardFacts, BoundAssumption DEF Heard, MaxHeard
<1>1. CASE Dispatch
  BY <1>0, <1>1, DispatchOutcome DEF Dispatch, TypeOK, LengthInv, Outcome, Run, Answer, siteVars
<1>2. CASE Execute \/ Send
  BY <1>0, <1>2 DEF Execute, Send, Answer, LengthInv, siteVars
<1>3. CASE HearStale
  <2>1. pc = "loop" /\ fifo # <<>> /\ said' = said
    BY <1>3 DEF HearStale
  <2> QED
    BY <1>0, <2>1 DEF LengthInv
<1>4. CASE Reset
  <2>1. CASE UartTested
    <3>1. said' = <<>>
      BY <1>4, <2>1 DEF Reset, UartTested, StageInv, Last
    <3>2. Len(said') = 0
      BY <3>1
    <3>3. Len(said') <= Heard
      BY <3>2, <1>0
    <3> QED
      BY <1>0, <3>3 DEF LengthInv
  <2>2. CASE ~UartTested
    BY <1>0, <1>4, <2>2 DEF Reset, UartTested, StageInv, Last, LengthInv, siteVars
  <2> QED
    BY <2>1, <2>2
<1>5. CASE Chat
  <2>1. PICK s \in Words \union {End} : Say(s) /\ Len(said) < MaxSaid
    BY <1>5 DEF Chat
  <2>2. Len(said') = Len(said) + 1
    BY <2>1, SayFacts DEF Say
  <2>3. Len(said') <= Heard
    BY <2>1, <2>2, <1>0
  <2> QED
    BY <1>0, <2>3 DEF LengthInv
<1>6. CASE Farewell
  <2>1. pc = "loop"
    BY <1>6 DEF Farewell, Say
  <2>2. CASE word = "" /\ Say("EXIT")
    <3>1. Len(said') = Len(said) + 1
      BY <2>1, <2>2, SayFacts DEF Words
    <3>2. word' = "EXIT" /\ pc' = "loop" /\ fifo' = <<>>
      BY <2>1, <2>2 DEF Say, Hear, IsEnd, End, Collected
    <3>3. Len(said) <= Heard \/ Len(said) <= Heard + 1
      BY <2>1, <2>2, Zenon DEF LengthInv
    <3>4. Len(said') <= Heard + 2
      BY <3>1, <3>3, <1>0
    <3> QED
      BY <1>0, <3>2, <3>4 DEF LengthInv
  <2>3. CASE word # "" /\ Say(End)
    <3>1. Len(said') = Len(said) + 1
      BY <2>1, <2>3, SayFacts DEF Words
    <3>2. CASE pc' = "answered"
      <4>1. UartTested
        BY <2>1 DEF StageInv, UartTested
      <4>2. UartTested'
        BY <4>1, <2>3 DEF Say, UartTested
      <4> QED
        BY <3>2, <4>2 DEF LengthInv
    <3>3. CASE pc' # "answered"
      <4>1. word = "test" /\ word' = "" /\ pc' = "loop" /\ fifo' = <<>>
        BY <3>3, <2>1, <2>3 DEF Say, Hear, IsEnd, Verdict
      <4>2. Len(said) <= Heard
        BY <2>1, <4>1, Zenon DEF LengthInv
      <4>3. Len(said') <= Heard + 1
        BY <3>1, <4>2, <1>0
      <4> QED
        BY <1>0, <4>1, <4>3 DEF LengthInv
    <3> QED
      BY <3>2, <3>3
  <2> QED
    BY <1>6, <2>2, <2>3 DEF Farewell
<1>7. CASE SpeakEarly
  <2>1. PICK s \in Words \union {End} : said' = Append(said, s) /\ Len(said) < MaxEarly
    BY <1>7 DEF SpeakEarly
  <2>2. Len(said') = Len(said) + 1
    BY <2>1, LongerSaid
  <2>3. Len(said') <= Heard
    BY <2>1, <2>2, <1>0
  <2> QED
    BY <1>0, <2>3 DEF LengthInv
<1>8. CASE UNCHANGED vars
  BY <1>0, <1>8 DEF vars, siteVars, LengthInv, UartTested
<1> QED
  BY <1>1, <1>2, <1>3, <1>4, <1>5, <1>6, <1>7, <1>8 DEF Next, Firmware

\* The first element of a sequence.
LEMMA HeadFacts ==
  ASSUME NEW S, NEW q \in Seq(S), q # <<>>
  PROVE  Head(q) = q[1] /\ 1 \in DOMAIN q /\ Head(q) \in Range(q)
<1>1. Head(q) = q[1] /\ 1 \in DOMAIN q
  OBVIOUS
<1> QED
  BY <1>1 DEF Range

\* The empty sequence has no element.
LEMMA RangeEmpty == \A x : x \notin Range(<<>>)
BY DEF Range

\* The next number has the other parity.
LEMMA Parity ==
  ASSUME NEW n \in Nat
  PROVE  /\ n % 2 = 0 <=> (n + 1) % 2 = 1
         /\ n % 2 = 1 <=> (n + 1) % 2 = 0
         /\ n % 2 \in {0, 1}
OBVIOUS

\* A step of the loop with the site's next word: either the loop goes on, and
\* its word is what the site has sent since the last test text, or its verdict
\* is right.
LEMMA SayStep ==
  ASSUME TypeOK, StageInv, FifoInv, LengthInv, LoopInv,
         NEW s \in Words \union {End}, pc = "loop", Say(s)
  PROVE  LoopInv' /\ (pc' = "answered" => Judged')
<1> DEFINE n == Len(said)
<1>1. n \in Nat /\ said' = Append(said, s) /\ Len(said') = n + 1
  BY SayFacts, SaidLength
<1>2. /\ \A i \in 1 .. n : said'[i] = said[i]
      /\ said'[n + 1] = s
  <2>1. said \in Seq(Words \union {End})
    BY SaidSeq
  <2> QED
    BY <1>1, <2>1
<1>3. \A x : x \in Range(said') <=> x \in Range(said) \/ x = s
  BY <1>1, SaidSeq, RangeFacts
<1>4. fifo = <<>> /\ fifo' = <<>> /\ early' = early /\ answers = <<>>
      /\ word \in Words \union {"", "other"} /\ early \in BOOLEAN
  BY DEF Say, StageInv, TypeOK
<1>5. "EXIT" \notin Range(fifo')
  BY <1>4, RangeEmpty
<1>6. /\ n % 2 = 0 <=> (n + 1) % 2 = 1
      /\ n % 2 = 1 <=> (n + 1) % 2 = 0
  BY <1>1, Parity
<1>7. Hear(s)
  BY DEF Say
<1>8. /\ word = "EXIT" => "EXIT" \in Range(said)
      /\ ~early =>
           /\ word = "" => n % 2 = 0 /\ TestsUpTo(n)
           /\ word \in Words => n % 2 = 1 /\ said[n] = word /\ TestsUpTo(n - 1)
           /\ word = "other" => \E i \in 1 .. n : i % 2 = 0 /\ said[i] # End
  BY DEF LoopInv
<1> HIDE DEF n
<1>9. CASE s # End
  <2>1. pc' = "loop" /\ word' = Collected(word, s) /\ s \in Words
    BY <1>7, <1>9 DEF Hear, IsEnd
  <2>2. CASE word = ""
    <3>1. word' = s
      BY <2>1, <2>2 DEF Collected
    <3>2. ASSUME ~early PROVE \A i \in 1 .. n : said'[i] = IF i % 2 = 0 THEN End ELSE "test"
      BY <3>2, <2>2, <1>2, <1>8 DEF TestsUpTo
    <3>3. s # "" /\ s # "other"
      BY <2>1 DEF Words
    <3> QED
      <4>1. word' = "EXIT" => "EXIT" \in Range(said')
        BY <3>1, <1>3
      <4>2. ASSUME ~early' PROVE Len(said') % 2 = 1 /\ said'[Len(said')] = word'
        BY <4>2, <3>1, <2>2, <1>1, <1>2, <1>4, <1>6, <1>8
      <4>3. ASSUME ~early' PROVE \A i \in 1 .. Len(said') - 1 : said'[i] = IF i % 2 = 0 THEN End ELSE "test"
        <5>1. Len(said') - 1 = n
          BY <1>1
        <5> QED
          BY <4>3, <5>1, <3>2, <1>4
      <4> QED
        BY <4>1, <4>2, <4>3, <3>1, <3>3, <2>1 DEF LoopInv, TestsUpTo
  <2>3. CASE word # ""
    <3>1. word' = "other"
      BY <2>1, <2>3 DEF Collected
    <3>2. ASSUME ~early PROVE \E i \in 1 .. n + 1 : i % 2 = 0 /\ said'[i] # End
      <4>1. CASE word = "other"
        <5>1. PICK i \in 1 .. n : i % 2 = 0 /\ said[i] # End
          BY <4>1, <3>2, <1>8
        <5>2. i \in 1 .. n + 1
          BY <1>1
        <5> QED
          BY <5>1, <5>2, <1>2
      <4>2. CASE word \in Words
        <5>1. (n + 1) % 2 = 0 /\ n + 1 \in 1 .. n + 1
          <6>1. n % 2 = 1
            BY <4>2, <3>2, <1>8
          <6> QED
            BY <6>1, <1>1, <1>6
        <5> QED
          BY <5>1, <1>2, <1>9
      <4> QED
        BY <4>1, <4>2, <2>3, <1>4
    <3>3. "other" \notin Words
      BY DEF Words
    <3> QED
      BY <3>1, <3>2, <3>3, <2>1, <1>1, <1>4 DEF LoopInv
  <2> QED
    BY <2>1, <2>2, <2>3
<1>10. CASE s = End /\ word = "test"
  <2>1. pc' = "loop" /\ word' = ""
    BY <1>7, <1>10 DEF Hear, IsEnd
  <2>2. ASSUME ~early PROVE \A i \in 1 .. n + 1 : said'[i] = IF i % 2 = 0 THEN End ELSE "test"
    <3>1. n % 2 = 1 /\ said[n] = "test" /\ TestsUpTo(n - 1)
      BY <2>2, <1>8, <1>10 DEF Words
    <3> SUFFICES ASSUME NEW i \in 1 .. n + 1
                 PROVE  said'[i] = IF i % 2 = 0 THEN End ELSE "test"
      OBVIOUS
    <3>2. CASE i = n + 1
      BY <3>1, <3>2, <1>2, <1>6, <1>10
    <3>3. CASE i = n
      <4>1. i \in 1 .. n
        BY <3>3, <1>1
      <4> QED
        BY <3>1, <3>3, <4>1, <1>2
    <3>4. CASE i \in 1 .. n - 1
      <4>1. i \in 1 .. n
        BY <3>4, <1>1
      <4> QED
        BY <3>1, <3>4, <4>1, <1>2 DEF TestsUpTo
    <3> QED
      BY <3>2, <3>3, <3>4, <1>1
  <2>3. "" \notin Words
    BY DEF Words
  <2>4. ASSUME ~early' PROVE Len(said') % 2 = 0
    BY <2>4, <1>1, <1>4, <1>6, <1>8, <1>10 DEF Words
  <2> QED
    BY <2>1, <2>2, <2>3, <2>4, <1>1, <1>4 DEF LoopInv, TestsUpTo
<1>11. CASE s = End /\ word = "EXIT"
  <2>1. Verdict("UART_TEST_PASS")
    BY <1>7, <1>11 DEF Hear, IsEnd
  <2>2. pc' = "answered" /\ answers' = <<"UART_TEST_PASS">>
    BY <2>1, <1>4, AppendEmpty DEF Verdict
  <2>3. "EXIT" \in Range(said')
    BY <1>3, <1>8, <1>11
  <2>4. ASSUME ~early PROVE Clean'
    <3>1. n % 2 = 1 /\ said[n] = "EXIT" /\ TestsUpTo(n - 1)
      BY <2>4, <1>8, <1>11 DEF Words
    <3>2. n >= 1
      BY <3>1, <1>1
    <3>3. n + 1 >= 2 /\ (n + 1) % 2 = 0 /\ said'[n] = "EXIT"
      BY <3>1, <3>2, <1>1, <1>2, <1>6
    <3>4. ASSUME NEW i \in 1 .. n + 1
          PROVE  said'[i] = IF i % 2 = 0 THEN End ELSE IF i = n THEN "EXIT" ELSE "test"
      <4>1. CASE i = n + 1
        BY <4>1, <3>3, <1>2, <1>11
      <4>2. CASE i = n
        BY <4>2, <3>1, <3>3
      <4>3. CASE i \in 1 .. n - 1
        <5>1. i \in 1 .. n /\ i # n
          BY <4>3, <1>1
        <5> QED
          BY <3>1, <4>3, <5>1, <1>2 DEF TestsUpTo
      <4> QED
        BY <4>1, <4>2, <4>3, <1>1
    <3>5. Len(said') - 1 = n
      BY <1>1
    <3> QED
      BY <3>3, <3>4, <3>5, <1>1 DEF Clean
  <2> QED
    BY <2>2, <2>3, <2>4, <1>4, <1>5 DEF LoopInv, Judged
<1>12. CASE s = End /\ word \notin {"test", "EXIT"}
  <2>1. Verdict("UART_TEST_FAIL")
    BY <1>7, <1>12 DEF Hear, IsEnd
  <2>2. pc' = "answered" /\ answers' = <<"UART_TEST_FAIL">>
    BY <2>1, <1>4, AppendEmpty DEF Verdict
  <2>3. answers' # <<"UART_TEST_PASS">>
    BY <2>2
  <2>4. ASSUME ~early, Clean' PROVE FALSE
    <3>1. /\ (n + 1) % 2 = 0 /\ said'[n + 1 - 1] = "EXIT" /\ n + 1 >= 2
          /\ \A i \in 1 .. n + 1 : i % 2 = 0 => said'[i] = End
      BY <2>4, <1>1 DEF Clean
    <3>2. n \in 1 .. n /\ n + 1 - 1 = n
      BY <3>1, <1>1
    <3>3. said[n] = "EXIT"
      BY <3>1, <3>2, <1>2
    <3>4. CASE word = ""
      <4>1. n % 2 = 0
        BY <3>4, <2>4, <1>8
      <4>2. (n + 1) % 2 = 1
        BY <4>1, <1>6
      <4> QED
        BY <4>2, <3>1
    <3>5. CASE word = "part"
      BY <3>3, <3>5, <2>4, <1>8 DEF Words
    <3>6. CASE word = "other"
      <4>1. PICK i \in 1 .. n : i % 2 = 0 /\ said[i] # End
        BY <3>6, <2>4, <1>8
      <4>2. i \in 1 .. n + 1
        BY <1>1
      <4> QED
        BY <3>1, <4>1, <4>2, <1>2
    <3> QED
      BY <3>4, <3>5, <3>6, <1>4, <1>12 DEF Words
  <2> QED
    BY <2>2, <2>3, <2>4, <1>4, <1>5 DEF LoopInv, Judged
<1> QED
  BY <1>9, <1>10, <1>11, <1>12

\* A step of the loop with what the FIFO holds: the site spoke early.
LEMMA StaleStep ==
  ASSUME TypeOK, StageInv, FifoInv, LoopInv, HearStale
  PROVE  FifoInv' /\ LoopInv' /\ (pc' = "answered" => Judged')
<1>1. /\ pc = "loop" /\ fifo # <<>> /\ Hear(Head(fifo)) /\ fifo' = Tail(fifo)
      /\ said' = said /\ early' = early
  BY DEF HearStale
<1>2. early /\ early'
  BY <1>1 DEF FifoInv, TypeOK
<1>3. fifo \in Seq({"EXIT", "part", End}) /\ answers = <<>>
      /\ word \in Words \union {"", "other"}
  BY <1>1 DEF TypeOK, StageInv
<1>4. Head(fifo) \in Range(fifo)
  BY <1>1, <1>3, HeadFacts
<1>5. "EXIT" \notin Range(fifo')
  <2> SUFFICES ASSUME "EXIT" \in Range(fifo') PROVE FALSE
    OBVIOUS
  <2>1. \A x : x \in Range(Tail(fifo)) => x \in Range(fifo)
    <3>1. End \in {"EXIT", "part", End}
      OBVIOUS
    <3> QED
      BY <3>1, <1>1, <1>3, RangeFacts
  <2>2. fifo = <<"EXIT">>
    BY <2>1, <1>1 DEF FifoInv
  <2>3. Tail(fifo) = <<>>
    BY <2>2
  <2> QED
    BY <2>3, <1>1, RangeEmpty
<1>6. FifoInv'
  BY <1>2, <1>5 DEF FifoInv
<1>7. word' = "EXIT" => "EXIT" \in Range(said')
  <2> SUFFICES ASSUME word' = "EXIT" PROVE "EXIT" \in Range(said)
    BY <1>1
  <2>1. Head(fifo) = "EXIT"
    BY <1>1 DEF Hear, Verdict, Collected
  <2> QED
    BY <2>1, <1>4 DEF FifoInv
<1>8. LoopInv'
  BY <1>2, <1>7 DEF LoopInv
<1>9. ASSUME pc' = "answered", answers' = <<"UART_TEST_PASS">> PROVE "EXIT" \in Range(said')
  <2>1. word = "EXIT"
    <3> SUFFICES ASSUME word # "EXIT" PROVE FALSE
      OBVIOUS
    <3>1. Verdict("UART_TEST_FAIL")
      BY <1>1, <1>9 DEF Hear
    <3>2. answers' = <<"UART_TEST_FAIL">>
      BY <3>1, <1>3, AppendEmpty DEF Verdict
    <3> QED
      BY <3>2, <1>9
  <2> QED
    BY <2>1, <1>1 DEF LoopInv
<1>10. pc' = "answered" => Judged'
  BY <1>2, <1>5, <1>9 DEF Judged
<1> QED
  BY <1>6, <1>8, <1>10

\* Before the loop listens, the FIFO keeps a farewell only as its first word.
LEMMA EarlyStep ==
  ASSUME TypeOK, FifoInv, SpeakEarly
  PROVE  FifoInv'
<1>1. PICK s \in Words \union {End} :
        /\ said' = Append(said, s) /\ early' = TRUE
        /\ fifo' = IF Room THEN Append(fifo, Kept(s)) ELSE fifo
  BY DEF SpeakEarly
<1>2. fifo \in Seq({"EXIT", "part", End})
  BY DEF TypeOK
<1>3. \A x : x \in Range(said') <=> x \in Range(said) \/ x = s
  BY <1>1, SaidSeq, RangeFacts
<1>4. CASE "EXIT" \in Range(fifo)
  <2>1. fifo = <<"EXIT">> /\ "EXIT" \in Range(said)
    BY <1>4 DEF FifoInv
  <2>2. ~Room
    <3>1. 1 \in 1 .. Len(fifo) /\ fifo[1] = "EXIT"
      BY <2>1
    <3> QED
      BY <3>1 DEF Room, End
  <2> QED
    BY <1>1, <1>3, <2>1, <2>2 DEF FifoInv
<1>5. CASE "EXIT" \notin Range(fifo) /\ ~Room
  BY <1>1, <1>5 DEF FifoInv
<1>6. CASE "EXIT" \notin Range(fifo) /\ Room
  <2>1. Kept(s) \in {"EXIT", "part", End}
    BY DEF Kept
  <2>2. fifo' = Append(fifo, Kept(s))
    BY <1>1, <1>6
  <2>3. \A x : x \in Range(fifo') <=> x \in Range(fifo) \/ x = Kept(s)
    BY <1>2, <2>1, <2>2, RangeFacts
  <2>4. ASSUME Kept(s) = "EXIT" PROVE s = "EXIT" /\ fifo' = <<"EXIT">>
    <3>1. s = "EXIT" /\ fifo = <<>>
      BY <2>4 DEF Kept, End
    <3> QED
      BY <3>1, <2>2, <2>4, AppendEmpty
  <2> QED
    BY <1>1, <1>3, <1>6, <2>3, <2>4 DEF FifoInv
<1> QED
  BY <1>4, <1>5, <1>6

\* History is kept for the verdict, and forgotten with it.
LEMMA VerdictStep ==
  ASSUME TypeOK, StageInv, FifoInv, LengthInv, LoopInv, VerdictInv, StageInv', [Next]_vars
  PROVE  FifoInv' /\ LoopInv' /\ VerdictInv'
<1>1. CASE Dispatch
  <2>1. /\ pc = "dispatch" /\ ran = <<>> /\ UNCHANGED siteVars
        /\ \/ pc' = "run"
           \/ pc' = "answered" /\ ran' = <<>>
    BY <1>1, DispatchOutcome DEF Dispatch, StageInv, TypeOK, Outcome, Run, Answer
  <2>2. ~early => said = <<>>
    BY <2>1 DEF VerdictInv
  <2> QED
    BY <2>1, <2>2 DEF FifoInv, LoopInv, VerdictInv, UartTested, siteVars
<1>2. CASE Execute
  <2>1. pc = "run" /\ UNCHANGED <<fifo, said, early, ran>> /\ (~early => said = <<>>)
    BY <1>2 DEF Execute, Answer, VerdictInv, siteVars
  <2>2. FifoInv'
    BY <2>1 DEF FifoInv
  <2>3. CASE Last(ran).kind # "TEST_UART"
    <3>1. pc' = "answered" /\ ran[1].kind # "TEST_UART"
      BY <1>2, <2>1, <2>3 DEF Execute, Answer, StageInv, Last
    <3> QED
      BY <2>1, <2>2, <3>1 DEF LoopInv, VerdictInv, UartTested
  <2>4. CASE Last(ran).kind = "TEST_UART"
    <3>1. pc' = "loop" /\ word' = ""
      BY <1>2, <2>4 DEF Execute
    <3>2. ASSUME ~early' PROVE Len(said') % 2 = 0 /\ TestsUpTo(Len(said))'
      <4>1. said' = <<>>
        BY <3>2, <2>1
      <4>2. Len(said') = 0
        BY <4>1
      <4> QED
        BY <4>2 DEF TestsUpTo
    <3>3. "" \notin Words
      BY DEF Words
    <3> QED
      BY <2>2, <3>1, <3>2, <3>3 DEF LoopInv, VerdictInv
  <2> QED
    BY <2>3, <2>4
<1>3. CASE HearStale
  <2>1. FifoInv' /\ LoopInv' /\ (pc' = "answered" => Judged')
    BY <1>3, StaleStep
  <2>2. early' /\ pc' \in {"loop", "answered"}
    BY <1>3 DEF HearStale, Hear, Verdict, FifoInv, TypeOK
  <2> QED
    BY <2>1, <2>2 DEF VerdictInv
<1>4. CASE Chat \/ Farewell
  <2>1. PICK s \in Words \union {End} : Say(s)
    BY <1>4 DEF Chat, Farewell, Words
  <2>2. LoopInv' /\ (pc' = "answered" => Judged')
    BY <2>1, SayStep DEF Say
  <2>3. FifoInv'
    BY <2>1, RangeEmpty DEF Say, FifoInv
  <2>6. pc = "loop" /\ pc' \in {"loop", "answered"}
    BY <2>1 DEF Say, Hear, Verdict
  <2>4. pc' \in {"loop", "answered"} /\ UartTested
    BY <2>6 DEF StageInv, UartTested
  <2>5. UartTested'
    BY <2>1, <2>4 DEF Say, UartTested
  <2> QED
    BY <2>2, <2>3, <2>4, <2>5 DEF VerdictInv
<1>5. CASE Reset
  <2>1. pc = "answered" /\ pc' = "ready"
    BY <1>5 DEF Reset
  <2>2. LoopInv'
    BY <2>1 DEF LoopInv
  <2>3. CASE UartTested
    <3>1. said' = <<>> /\ early' = (fifo # <<>>) /\ fifo' = fifo
      BY <1>5, <2>1, <2>3 DEF Reset, UartTested, StageInv, Last
    <3>2. "EXIT" \notin Range(fifo)
      BY <2>1, <2>3 DEF VerdictInv, Judged
    <3> QED
      BY <2>1, <2>2, <3>1, <3>2 DEF FifoInv, VerdictInv
  <2>4. CASE ~UartTested
    <3>1. UNCHANGED siteVars
      BY <1>5, <2>1, <2>4 DEF Reset, UartTested, StageInv, Last
    <3>2. ~early => said = <<>>
      BY <2>1, <2>4 DEF VerdictInv
    <3> QED
      BY <2>1, <2>2, <3>1, <3>2 DEF FifoInv, VerdictInv, siteVars
  <2> QED
    BY <2>3, <2>4
<1>6. CASE Send
  BY <1>6 DEF Send, FifoInv, LoopInv, VerdictInv, siteVars
<1>7. CASE SpeakEarly
  <2>1. FifoInv'
    BY <1>7, EarlyStep
  <2>2. pc' = "ready" /\ early'
    BY <1>7 DEF SpeakEarly
  <2> QED
    BY <2>1, <2>2 DEF LoopInv, VerdictInv
<1>8. CASE UNCHANGED vars
  BY <1>8 DEF vars, siteVars, FifoInv, LoopInv, VerdictInv, Judged, Clean, TestsUpTo, UartTested
<1> QED
  BY <1>1, <1>2, <1>3, <1>4, <1>5, <1>6, <1>7, <1>8 DEF Next, Firmware

-----------------------------------------------------------------------------
(* The theorems                                                            *)

\* The invariant holds at first.
LEMMA InitInv == Init => IInv
<1> SUFFICES ASSUME Init PROVE IInv
  OBVIOUS
<1>1. TypeOK
  <2>1. pc = "ready" /\ word = "" /\ early = FALSE
    BY DEF Init
  <2>2. /\ line \in Seq(Fields)
        /\ ran \in Seq(Commands \union {[kind |-> "DEMO"]})
        /\ answers \in Seq(Refusals \union Verdicts \union {Done[k] : k \in DOMAIN Done})
        /\ fifo \in Seq({"EXIT", "part", End}) /\ said \in Seq(Words \union {End})
    BY EmptySeq, Zenon DEF Init
  <2>3. Len(fifo) <= 4
    <3>1. Len(fifo) = 0
      BY DEF Init
    <3> QED
      BY <3>1
  <2> QED
    BY <2>1, <2>2, <2>3, Zenon DEF TypeOK
<1>2. StageInv /\ MeantInv /\ LoopInv
  BY DEF Init, StageInv, MeantInv, LoopInv
<1>3. FifoInv /\ VerdictInv
  BY RangeEmpty DEF Init, FifoInv, VerdictInv
<1>4. LengthInv
  <2>1. Len(said) = 0
    BY DEF Init
  <2>2. Len(said) <= Heard
    BY <2>1, HeardFacts
  <2> QED
    BY <2>2 DEF LengthInv
<1> QED
  BY <1>1, <1>2, <1>3, <1>4 DEF IInv

\* Every step keeps it.
LEMMA StepInv == IInv /\ [Next]_vars => IInv'
<1> SUFFICES ASSUME IInv, [Next]_vars PROVE IInv'
  OBVIOUS
<1> USE DEF IInv
<1>1. StageInv' /\ MeantInv'
  BY StagesStep
<1>2. TypeOK'
  BY <1>1, TypeStep
<1>3. LengthInv'
  BY LengthStep
<1>4. FifoInv' /\ LoopInv' /\ VerdictInv'
  BY <1>1, VerdictStep
<1> QED
  BY <1>1, <1>2, <1>3, <1>4

\* It always holds.
LEMMA Invariance == Spec => []IInv
BY InitInv, StepInv, PTL DEF Spec

\* Everything always has its type: whatever the host sends, the dispatcher
\* hands to the board nothing but a command of BoardCommands, with a pin the
\* board has and a channel it has, or the demonstration.
THEOREM TypeCorrect == Spec => []TypeOK
<1>1. IInv => TypeOK
  BY DEF IInv
<1> QED
  BY <1>1, Invariance, PTL

\* Every line has one answer, which says whether its command was run: no handler
\* answers twice, falls through to the next, or answers without returning.
THEOREM EveryLineAnswered == Spec => []OneAnswer
<1>1. IInv => OneAnswer
  <2> SUFFICES ASSUME IInv, pc = "answered" PROVE OneAnswer
    BY DEF OneAnswer
  <2>1. ASSUME NEW c \in Runnable, ran = <<c>>, c.kind # "TEST_UART", answers = <<Done[c.kind]>>
        PROVE  OneAnswer
    <3>1. Done[c.kind] \notin Refusals
      BY <2>1, DoneFacts
    <3>2. ran # <<>> /\ Len(answers) = 1 /\ answers[1] = Done[c.kind]
      BY <2>1
    <3> QED
      BY <3>1, <3>2 DEF OneAnswer
  <2>2. ASSUME NEW c \in Runnable, ran = <<c>>, NEW v \in Verdicts, answers = <<v>>
        PROVE  OneAnswer
    <3>1. v \notin Refusals
      BY DEF Verdicts, Refusals
    <3>2. ran # <<>> /\ Len(answers) = 1 /\ answers[1] = v
      BY <2>2
    <3> QED
      BY <3>1, <3>2 DEF OneAnswer
  <2>3. ASSUME ran = <<>>, NEW a \in Refusals, answers = <<a>> PROVE OneAnswer
    <3>1. Len(answers) = 1 /\ answers[1] = a
      BY <2>3
    <3> QED
      BY <3>1, <2>3 DEF OneAnswer
  <2>4. ASSUME ran = <<>>, answers = <<>>, Starts(<<"TEST">>),
               ~\E k \in {"USB", "UART"} : Starts(<<"TEST", k>>)
        PROVE  OneAnswer
    BY <2>4 DEF OneAnswer
  <2> QED
    BY <2>1, <2>2, <2>3, <2>4 DEF IInv, StageInv
<1> QED
  BY <1>1, Invariance, PTL

\* uart_loopback_start passes the sites that send test texts and then EXIT, and
\* no other, as long as the site is silent until the loop listens; one that spoke
\* early passes only if it has sent EXIT.
THEOREM VerdictAlwaysRight == Spec => []VerdictRight
<1>1. IInv => VerdictRight
  <2> SUFFICES ASSUME IInv, pc = "answered", Range(answers) \subseteq Verdicts, answers # <<>>
               PROVE  VerdictRight
    BY DEF VerdictRight
  <2>1. UartTested
    <3>1. ASSUME NEW a, answers = <<a>> PROVE a \in Verdicts
      <4>1. a \in Range(answers)
        BY <3>1 DEF Range
      <4> QED
        BY <4>1
    <3>2. \A a \in Refusals : a \notin Verdicts
      BY DEF Refusals, Verdicts
    <3>3. \A c \in Runnable : c.kind # "TEST_UART" => Done[c.kind] \notin Verdicts
      BY DoneFacts
    <3>4. \E c \in Runnable : ran = <<c>> /\ c.kind = "TEST_UART"
      BY <3>1, <3>2, <3>3 DEF IInv, StageInv
    <3> QED
      BY <3>4 DEF UartTested
  <2>2. Judged
    BY <2>1 DEF IInv, VerdictInv
  <2> QED
    BY <2>2 DEF VerdictRight, Judged, Clean
<1> QED
  BY <1>1, Invariance, PTL

\* A line without a loosely written pin, neither a demonstration nor a resistance
\* of the kind BET, runs the command that it spells, once, with its multiplexers,
\* pins, coils and channels in their places, and nothing if it spells none.
THEOREM RunsAsWritten == Spec => []AsWritten
<1>1. IInv => AsWritten
  <2> SUFFICES ASSUME IInv, pc = "answered" PROVE AsWritten
    BY DEF AsWritten
  <2>1. line \in Seq(Fields)
    BY DEF IInv, TypeOK
  <2>2. /\ Len(ran) <= 1
        /\ \A c : c \in Range(ran) <=> c \in Asked
        /\ \A c : Asked = {c} => ran = <<c>>
        /\ Asked = {} => ran = <<>>
    <3>1. CASE ran = <<>> /\ Asked = {}
      BY <3>1, RangeEmpty
    <3>2. ASSUME NEW c \in Runnable, ran = <<c>>, Asked = {c}
          PROVE  Len(ran) = 1 /\ Range(ran) = {c}
      BY <3>2 DEF Range
    <3>3. \/ ran = <<>> /\ Asked = {}
          \/ \E c \in Runnable : ran = <<c>> /\ Asked = {c}
      BY DEF IInv, MeantInv
    <3>4. ASSUME NEW c \in Runnable, ran = <<c>>, Asked = {c}
          PROVE  /\ Len(ran) <= 1
                 /\ \A d : d \in Range(ran) <=> d \in Asked
                 /\ \A d : Asked = {d} => ran = <<d>>
                 /\ Asked = {} => ran = <<>>
      <4>1. Len(ran) <= 1 /\ Range(ran) = Asked
        BY <3>2, <3>4
      <4>2. \A d : Asked = {d} => d = c
        BY <3>4
      <4> QED
        BY <4>1, <4>2, <3>4
    <3> QED
      BY <3>1, <3>3, <3>4
  <2>3. IsPrefix(<<"DEMO", "RES">>, line) <=> IsDemo
    BY <2>1 DEF IsPrefix, IsDemo
  <2>4. ASSUME IsDemo PROVE ran = <<[kind |-> "DEMO"]>>
    BY <2>4, <2>2, AskedDemo
  <2>5. ASSUME IsPrefix(<<"MES", "RES", "BET">>, line) PROVE ran = <<>>
    <3>1. Len(line) >= 3 /\ line[1] = "MES" /\ line[2] = "RES" /\ line[3] = "BET"
      BY <2>1, <2>5 DEF IsPrefix
    <3>2. Asked = {}
      BY <3>1, <2>1, AskedNothing DEF IsSingle, IsDiff, IsMult, IsRes, IsTest, IsDemo
    <3> QED
      BY <3>2, <2>2
  <2>6. ASSUME ~Loosely, ~IsDemo, ~IsPrefix(<<"MES", "RES", "BET">>, line)
        PROVE  Range(ran) = Meant
    <3>1. \A c : c \in Range(ran) <=> c \in Meant
      BY <2>1, <2>2, <2>6, MeantAsked
    <3> QED
      BY <3>1
  <2> QED
    BY <2>2, <2>3, <2>4, <2>5, <2>6 DEF AsWritten
<1> QED
  BY <1>1, Invariance, PTL
=============================================================================
