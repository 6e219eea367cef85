-------------------------- MODULE CommandDispatch --------------------------
(***************************************************************************)
(* From the line of a command to its answer: process_usb_command, the      *)
(* parser, the dispatcher and the handlers of measurement.c, test.c and    *)
(* demo.c, with the loop-back test of a site's UART (uart_mux.c), which    *)
(* holds the console until the site ends it.                               *)
(*                                                                         *)
(* A line is the sequence of its fields, the strings between the colons;   *)
(* strtok takes adjoining colons for one, so no field is empty.  What      *)
(* RelayRouting makes of a command that is run is one step here.           *)
(***************************************************************************)
EXTENDS BoardCommands, Sequences, SequencesExt, FiniteSets

CONSTANTS
  MaxTokens,   \* MAX_TOKENS
  Digits,      \* the number that a pin field spells, of those with a digit
  Others,      \* fields that are neither a keyword nor a name nor a pin
  MaxEarly,    \* bound: words of a site while no test runs
  MaxSaid      \* bound: words of a site between two tests, without its farewell

\* The longest command has seven fields, and one too many has to be seen.
ASSUME BoundAssumption == MaxTokens \in Nat /\ MaxTokens > 7 /\ MaxEarly \in Nat /\ MaxSaid \in Nat

VARIABLES
  pc,        \* "ready", "dispatch", "run", "loop" (in uart_loopback_start) or "answered"
  line,      \* the fields of the command
  ran,       \* the commands executed for it
  answers,   \* the answers to it
  fifo,      \* what the receive FIFO of the site's UART holds
  word,      \* rxBuffer of the loop
  said,      \* history: what the site has sent since the last loop-back test
  early      \* history: some of it came before the loop listened

siteVars == <<fifo, word, said, early>>
vars == <<pc, line, ran, answers, siteVars>>

-----------------------------------------------------------------------------
(* Fields                                                                  *)

UsbChannel  == [USB_CH0 |-> 0, USB_CH1 |-> 1, USB_CH2 |-> 2, USB_CH3 |-> 3]
UartChannel == [UART_CH0 |-> 0, UART_CH1 |-> 1, UART_CH2 |-> 2, UART_CH3 |-> 3]
TestChannel == [CH0 |-> 0, CH1 |-> 1, CH2 |-> 2, CH3 |-> 3]

ASSUME DigitsAssumption ==
  /\ Digits \in [DOMAIN Digits -> Nat] /\ "PIN_" \notin DOMAIN Digits
  /\ 0 \in Pins /\ \A f \in DOMAIN Digits : Digits[f] % 256 <= 15 => Digits[f] % 256 \in Pins
ASSUME FieldsAssumption ==
  (Others \union DOMAIN Digits)
    \intersect (DOMAIN UsbChannel \union DOMAIN UartChannel \union DOMAIN TestChannel) = {}

Keywords == {"MES", "VOLT", "SINGLE", "DIFF", "MULT", "RES", "MUX", "USB", "UART", "BET", "TEST", "DEMO"}

ChannelFields(table) == {f \in DOMAIN table : table[f] \in Channels}

Fields == Keywords \union Others \union DOMAIN Digits \union {"PIN_"} \union Muxes \union VCoils \union RCoils
          \union ChannelFields(UsbChannel) \union ChannelFields(UartChannel)
          \union ChannelFields(TestChannel)

Invalid == 255

\* A variant of PinValue whose last pin is one too many.
PinValueOff(n) == IF n % 256 > 16 THEN Invalid ELSE n % 256

\* string_to_pin counts in a uint8_t.
PinValue(n) == IF n % 256 > 15 THEN Invalid ELSE n % 256

\* Without a digit the count stays at its first value.
PinOf(f) == IF f = "PIN_" THEN PinValue(0)
            ELSE IF f \in DOMAIN Digits THEN PinValue(Digits[f]) ELSE Invalid

\* The array holds MaxTokens fields.
Tokens == SubSeq(line, 1, IF Len(line) > MaxTokens THEN MaxTokens ELSE Len(line))

-----------------------------------------------------------------------------
(* Dispatch                                                                *)

Answer(text) ==
  /\ answers' = Append(answers, text) /\ pc' = "answered"
  /\ UNCHANGED <<line, ran, siteVars>>

Run(command) ==
  /\ ran' = Append(ran, command) /\ pc' = "run"
  /\ UNCHANGED <<line, answers, siteVars>>

Starts(keys) == Len(keys) <= Len(Tokens) /\ \A i \in DOMAIN keys : Tokens[i] = keys[i]

\* The fixed commands' table is empty and never matches.
NoToken == Tokens = <<>> /\ Answer("INVALID_COMMAND")

Unknown ==
  /\ Tokens # <<>> /\ Tokens[1] \notin {"MES", "TEST", "DEMO"}
  /\ Answer("UNKNOWN_COMMAND")

MesUnknown ==
  /\ Starts(<<"MES">>)
  /\ \/ Len(Tokens) < 3
     \/ ~Starts(<<"MES", "RES">>) /\ ~\E k \in {"SINGLE", "DIFF", "MULT"} : Starts(<<"MES", "VOLT", k>>)
  /\ Answer("INVALID_MEASUREMENT")

\* The shape shared by the handlers: a count of fields, then their values.
Handle(count, wrongCount, valid, wrongValue, command) ==
  \/ Len(Tokens) # count /\ Answer(wrongCount)
  \/ Len(Tokens) = count /\ ~valid /\ Answer(wrongValue)
  \/ Len(Tokens) = count /\ valid /\ Run(command)

voltage_single_handler ==
  /\ Starts(<<"MES", "VOLT", "SINGLE">>)
  /\ Handle(5, "INVALID_VOLT_SINGLE",
            Tokens[4] \in Muxes /\ PinOf(Tokens[5]) # Invalid, "INVALID_PARAMETER",
            [kind |-> "SINGLE", mux |-> Tokens[4], pin |-> PinOf(Tokens[5])])

voltage_diff_handler ==
  /\ Starts(<<"MES", "VOLT", "DIFF">>)
  /\ Handle(7, "INVALID_VOLT_DIFF",
            /\ {Tokens[4], Tokens[6]} \subseteq Muxes
            /\ Invalid \notin {PinOf(Tokens[5]), PinOf(Tokens[7])},
            "INVALID_PARAMETER",
            [kind |-> "DIFF", mux |-> Tokens[4], pin |-> PinOf(Tokens[5]),
             mux2 |-> Tokens[6], pin2 |-> PinOf(Tokens[7])])

voltage_multiple_handler ==
  /\ Starts(<<"MES", "VOLT", "MULT">>)
  /\ Handle(4, "INVALID_VOLT_MULT", PinOf(Tokens[4]) # Invalid, "INVALID_PIN",
            [kind |-> "MULT", pin |-> PinOf(Tokens[4])])

\* Of the first pin, the USB channel and the UART channel a resistance command
\* names one; the others are 0.
Resistance(type, named, pin1, ch1, ch2) ==
  /\ Starts(<<"MES", "RES", type>>)
  /\ Handle(7, "INVALID_RES_FORMAT",
            /\ Tokens[4] \in VCoils /\ named
            /\ Tokens[6] \in RCoils /\ PinOf(Tokens[7]) # Invalid,
            "INVALID_PARAMETER",
            [kind |-> "RES", num1 |-> Tokens[4], num2 |-> Tokens[6],
             pin1 |-> pin1, pin2 |-> PinOf(Tokens[7]), ch1 |-> ch1, ch2 |-> ch2])

\* A variant of ResType that goes on to the answer of a measurement.
ResTypeNoReturn ==
  /\ Starts(<<"MES", "RES">>) /\ Len(Tokens) >= 3 /\ Tokens[3] \notin {"MUX", "USB", "UART"}
  /\ answers' = answers \o <<"INVALID_RES_TYPE", "RES_DONE">> /\ pc' = "answered"
  /\ UNCHANGED <<line, ran, siteVars>>

ResType ==
  /\ Starts(<<"MES", "RES">>) /\ Len(Tokens) >= 3 /\ Tokens[3] \notin {"MUX", "USB", "UART"}
  /\ Answer("INVALID_RES_TYPE")

resistance_handler ==
  \/ Resistance("MUX", PinOf(Tokens[5]) # Invalid, PinOf(Tokens[5]), 0, 0)
  \/ Resistance("USB", Tokens[5] \in DOMAIN UsbChannel, 0, UsbChannel[Tokens[5]], 0)
  \/ Resistance("UART", Tokens[5] \in DOMAIN UartChannel, 0, 0, UartChannel[Tokens[5]])
  \/ ResType

\* A subject that is neither USB nor UART is not answered at all.
test_command_handler ==
  /\ Starts(<<"TEST">>)
  /\ \/ Len(Tokens) < 3 /\ Answer("INVALID_TEST")
     \/ /\ Len(Tokens) >= 3 /\ Tokens[2] \notin {"USB", "UART"}
        /\ pc' = "answered" /\ UNCHANGED <<line, ran, answers, siteVars>>
     \/ /\ Len(Tokens) >= 3 /\ Tokens[2] = "USB"
        /\ Handle(3, "INVALID_USB_TEST", Tokens[3] \in DOMAIN TestChannel, "INVALID_USB_CH",
                  [kind |-> "TEST_USB", ch |-> TestChannel[Tokens[3]]])
     \/ /\ Len(Tokens) >= 3 /\ Tokens[2] = "UART"
        /\ Handle(3, "INVALID_UART_TEST", Tokens[3] \in DOMAIN TestChannel, "INVALID_UART_CH",
                  [kind |-> "TEST_UART", ch |-> TestChannel[Tokens[3]]])

demo_command_handler ==
  /\ Starts(<<"DEMO">>)
  /\ \/ Starts(<<"DEMO", "RES">>) /\ Run([kind |-> "DEMO"])
     \/ ~Starts(<<"DEMO", "RES">>) /\ Answer("INVALID_DEMO_COMMAND")

Dispatch ==
  /\ pc = "dispatch"
  /\ \/ NoToken \/ Unknown \/ MesUnknown
     \/ voltage_single_handler \/ voltage_diff_handler \/ voltage_multiple_handler
     \/ resistance_handler \/ test_command_handler \/ demo_command_handler

\* What a command answers when it is done.
Done == [SINGLE |-> "VOLT", DIFF |-> "DIFF", MULT |-> "MULT_DONE", RES |-> "RES_DONE",
         TEST_USB |-> "USB_TEST_OK", DEMO |-> "DEMO:RES"]

\* The board executes it; the test of a UART enters its loop.
Execute ==
  /\ pc = "run"
  /\ \/ Last(ran).kind # "TEST_UART" /\ Answer(Done[Last(ran).kind])
     \/ /\ Last(ran).kind = "TEST_UART"
        /\ pc' = "loop" /\ word' = "" /\ UNCHANGED <<line, ran, answers, fifo, said, early>>

-----------------------------------------------------------------------------
(* The loop-back test                                                      *)

Words == {"test", "EXIT", "part"}   \* what the firmware compares with, and anything else
End   == "\r"                       \* a carriage return or a line feed

\* A variant of IsEnd that knows none of the site's line ends.
IsEndNot(s) == s = "\n"

IsEnd(s) == s = End

\* A variant of Collected that forgets what came before.
CollectedLast(w, s) == s

\* rxBuffer after the characters s.
Collected(w, s) == IF w = "" THEN s ELSE "other"

Verdict(text) ==
  /\ answers' = Append(answers, text) /\ pc' = "answered" /\ word' = ""

\* The loop takes s from the FIFO: EXIT ends the test well, and anything but
\* the test text ends it badly, an empty line too.
Hear(s) ==
  \/ ~IsEnd(s) /\ word' = Collected(word, s) /\ UNCHANGED <<pc, answers>>
  \/ IsEnd(s) /\ word = "test" /\ word' = "" /\ UNCHANGED <<pc, answers>>
  \/ IsEnd(s) /\ word = "EXIT" /\ Verdict("UART_TEST_PASS")
  \/ IsEnd(s) /\ word \notin {"test", "EXIT"} /\ Verdict("UART_TEST_FAIL")

HearStale ==
  /\ pc = "loop" /\ fifo # <<>>
  /\ Hear(Head(fifo)) /\ fifo' = Tail(fifo)
  /\ UNCHANGED <<line, ran, said, early>>

\* A farewell takes three words at most, so the history is kept that far.
MaxHeard == (IF MaxSaid > MaxEarly THEN MaxSaid ELSE MaxEarly) + 3

\* The loop is far faster than the line: it hears what the site sends at once.
Say(s) ==
  /\ pc = "loop" /\ fifo = <<>>
  /\ Hear(s)
  /\ said' = IF Len(said) < MaxHeard THEN Append(said, s) ELSE said
  /\ UNCHANGED <<line, ran, fifo, early>>

Chat == Len(said) < MaxSaid /\ \E s \in Words \union {End} : Say(s)

\* The site ends what it has begun, and then the test.
Farewell == \/ word = "" /\ Say("EXIT")
            \/ word # "" /\ Say(End)

\* Without the loop, the FIFO keeps the first four bytes: of the test text its
\* beginning, of EXIT and its line end the word alone.  Words have four bytes.
Room    == Len(fifo) < 4 /\ \A i \in 1 .. Len(fifo) : fifo[i] = End
Kept(s) == IF s = End \/ (s = "EXIT" /\ fifo = <<>>) THEN s ELSE "part"

SpeakEarly ==
  /\ pc = "ready" /\ Len(said) < MaxEarly
  /\ \E s \in Words \union {End} :
       /\ said' = Append(said, s) /\ early' = TRUE
       /\ fifo' = IF Room THEN Append(fifo, Kept(s)) ELSE fifo
  /\ UNCHANGED <<pc, line, ran, answers, word>>

-----------------------------------------------------------------------------
(* Lines                                                                   *)

\* What the comments above the handlers give as their commands, as pairs of the
\* fields and the command they mean: a pin is the number that is written.
Pin(f)    == Digits[f]
PinFields == {f \in DOMAIN Digits : Pin(f) <= 15}

SingleLines == {<<<<"MES", "VOLT", "SINGLE", m, p>>, [kind |-> "SINGLE", mux |-> m, pin |-> Pin(p)]>> :
                  m \in Muxes, p \in PinFields}
DiffLines   == {<<<<"MES", "VOLT", "DIFF", m, p, n, q>>,
                  [kind |-> "DIFF", mux |-> m, pin |-> Pin(p), mux2 |-> n, pin2 |-> Pin(q)]>> :
                  m \in Muxes, n \in Muxes, p \in PinFields, q \in PinFields}
MultLines   == {<<<<"MES", "VOLT", "MULT", p>>, [kind |-> "MULT", pin |-> Pin(p)]>> : p \in PinFields}

Res(v, p1, r, p2, c1, c2) ==
  [kind |-> "RES", num1 |-> v, num2 |-> r, pin1 |-> p1, pin2 |-> p2, ch1 |-> c1, ch2 |-> c2]
MuxLines  == {<<<<"MES", "RES", "MUX", v, p, r, q>>, Res(v, Pin(p), r, Pin(q), 0, 0)>> :
                v \in VCoils, r \in RCoils, p \in PinFields, q \in PinFields}
BetLines  == {<<<<"MES", "RES", "BET", v, p, r, q>>, Res(v, Pin(p), r, Pin(q), 0, 0)>> :
                v \in VCoils, r \in RCoils, p \in PinFields, q \in PinFields}
UsbLines  == {<<<<"MES", "RES", "USB", v, c, r, q>>, Res(v, 0, r, Pin(q), UsbChannel[c], 0)>> :
                v \in VCoils, r \in RCoils, c \in ChannelFields(UsbChannel), q \in PinFields}
UartLines == {<<<<"MES", "RES", "UART", v, c, r, q>>, Res(v, 0, r, Pin(q), 0, UartChannel[c])>> :
                v \in VCoils, r \in RCoils, c \in ChannelFields(UartChannel), q \in PinFields}

UsbTests  == {<<<<"TEST", "USB", c>>, [kind |-> "TEST_USB", ch |-> TestChannel[c]]>> :
                c \in ChannelFields(TestChannel)}
UartTests == {<<<<"TEST", "UART", c>>, [kind |-> "TEST_UART", ch |-> TestChannel[c]]>> :
                c \in ChannelFields(TestChannel)}
DemoLines == {<<<<"DEMO", "RES">>, [kind |-> "DEMO"]>>}

Grammar == SingleLines \union DiffLines \union MultLines \union MuxLines \union BetLines
           \union UsbLines \union UartLines \union UsbTests \union UartTests \union DemoLines

Spelled == {g[1] : g \in Grammar}

\* A line of the host: a command, with at most one field replaced, put in or
\* left out; or one of more fields than the parser takes.
Replaced == {{ReplaceAt(l, i, f) : i \in 1 .. Len(l), f \in Fields} : l \in Spelled}
PutIn    == {{InsertAt(l, i, f) : i \in 1 .. Len(l) + 1, f \in Fields} : l \in Spelled}
LeftOut  == {{RemoveAt(l, i) : i \in 1 .. Len(l)} : l \in Spelled}
TooLong  == {[i \in 1 .. MaxTokens + 1 |-> f] : f \in Fields}
Lines == Spelled \union (UNION Replaced) \union (UNION PutIn) \union (UNION LeftOut)
         \union TooLong \union {<<>>}

\* Bound: when a site has spoken, the host sends commands as they are spelled.
Send ==
  /\ pc = "ready"
  /\ \E l \in IF said = <<>> /\ fifo = <<>> THEN Lines ELSE Spelled : line' = l
  /\ pc' = "dispatch"
  /\ UNCHANGED <<ran, answers, siteVars>>

\* usb_fsm empties the buffer.  History: a test's words are forgotten with it.
Reset ==
  /\ pc = "answered"
  /\ pc' = "ready" /\ line' = <<>> /\ ran' = <<>> /\ answers' = <<>>
  /\ IF ran # <<>> /\ Last(ran).kind = "TEST_UART"
     THEN /\ said' = <<>> /\ early' = (fifo # <<>>)
          /\ UNCHANGED <<fifo, word>>
     ELSE UNCHANGED siteVars

Init ==
  /\ pc = "ready" /\ line = <<>> /\ ran = <<>> /\ answers = <<>>
  /\ fifo = <<>> /\ word = "" /\ said = <<>> /\ early = FALSE

Firmware == Dispatch \/ Execute \/ HearStale \/ Reset
Next == Firmware \/ Send \/ Chat \/ Farewell \/ SpeakEarly

\* The main loop runs.  Nothing makes a site under test speak, and nothing in
\* uart_loopback_start bounds its time.
Spec == Init /\ [][Next]_vars /\ WF_vars(Firmware)

-----------------------------------------------------------------------------
(* Properties                                                              *)

Refusals == {"INVALID_COMMAND", "UNKNOWN_COMMAND", "INVALID_MEASUREMENT", "INVALID_VOLT_SINGLE",
             "INVALID_VOLT_DIFF", "INVALID_VOLT_MULT", "INVALID_PIN", "INVALID_PARAMETER",
             "INVALID_RES_FORMAT", "INVALID_RES_TYPE", "INVALID_TEST", "INVALID_USB_TEST",
             "INVALID_USB_CH", "INVALID_UART_TEST", "INVALID_UART_CH", "INVALID_DEMO_COMMAND"}
Verdicts == {"UART_TEST_PASS", "UART_TEST_FAIL"}

\* Everything has its type: what is handed to the board is one of the commands
\* that RelayRouting executes.
TypeOK ==
  /\ pc \in {"ready", "dispatch", "run", "loop", "answered"}
  /\ line \in Seq(Fields)
  /\ ran \in Seq(Commands \union {[kind |-> "DEMO"]})
  /\ answers \in Seq(Refusals \union Verdicts \union {Done[k] : k \in DOMAIN Done})
  /\ fifo \in Seq({"EXIT", "part", End}) /\ Len(fifo) <= 4
  /\ word \in Words \union {"", "other"} /\ said \in Seq(Words \union {End}) /\ early \in BOOLEAN

\* The commands that the line means: one, or none.
Meant == {g[2] : g \in {h \in Grammar : h[1] = line}}

\* Pin fields of eight bits too many, or of no digit.
Loose == {f \in DOMAIN Digits : Digits[f] > 255} \union {"PIN_"}
Loosely == \E i \in DOMAIN line : line[i] \in Loose

\* What the comments promise of every line: it runs what it spells, and a line
\* that spells nothing runs nothing.  The code does not keep it.
AsSpelled == pc = "answered" => Len(ran) = Cardinality(Meant) /\ Range(ran) = Meant

\* What the code does keep: of the third kind of a resistance, BET, it knows
\* nothing, of a demonstration it reads two fields, and with a pin that is
\* loosely written a line may run another command than it spells.  Every other
\* line runs what it spells, and none more than one command.
AsWritten ==
  pc = "answered" =>
    /\ Len(ran) <= 1
    /\ IsPrefix(<<"DEMO", "RES">>, line) => ran = <<[kind |-> "DEMO"]>>
    /\ IsPrefix(<<"MES", "RES", "BET">>, line) => ran = <<>>
    /\ \/ IsPrefix(<<"DEMO", "RES">>, line) \/ IsPrefix(<<"MES", "RES", "BET">>, line) \/ Loosely
       \/ Range(ran) = Meant

\* Every line has one answer, which says whether its command was run; a test of
\* something unknown alone has none.
OneAnswer ==
  pc = "answered" =>
    \/ ran # <<>> /\ Len(answers) = 1 /\ answers[1] \notin Refusals
    \/ ran = <<>> /\ Len(answers) = 1 /\ answers[1] \in Refusals
    \/ ran = <<>> /\ answers = <<>> /\ Starts(<<"TEST">>) /\ ~\E k \in {"USB", "UART"} : Starts(<<"TEST", k>>)

\* A loop-back test passes for a site that sends the test text any number of
\* times and then EXIT, and fails for any other, unless the site spoke before
\* the loop listened: then even so it passes only for one that sent EXIT.
VerdictRight ==
  pc = "answered" /\ Range(answers) \subseteq Verdicts /\ answers # <<>> =>
    LET n == Len(said)
        clean == /\ n >= 2 /\ n % 2 = 0 /\ said[n - 1] = "EXIT"
                 /\ \A i \in 1 .. n : said[i] = IF i % 2 = 0 THEN End ELSE IF i = n - 1 THEN "EXIT" ELSE "test"
    IN IF early THEN answers = <<"UART_TEST_PASS">> => "EXIT" \in Range(said)
       ELSE (answers = <<"UART_TEST_PASS">>) <=> clean

\* The console takes its next line, or it waits in the loop for a site that says
\* nothing more, which it may do for ever.  From a site that ends what it has
\* begun, and then the test, it comes back.
ConsoleReturns ==
  /\ pc = "dispatch" ~> pc = "ready" \/ (pc = "loop" /\ fifo = <<>>)
  /\ WF_vars(Farewell) => (pc = "dispatch" ~> pc = "ready")
=============================================================================
