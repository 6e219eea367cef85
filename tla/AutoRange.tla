----------------------------- MODULE AutoRange -----------------------------
(***************************************************************************)
(* The resistance front end (DB_board.c) behind the DEMO:RES command       *)
(* (demo.c): five current sources, a converter that reads the voltage over *)
(* the unknown resistor and over the sense resistor, and the loop that     *)
(* looks for the current whose voltage is in the window.                   *)
(*                                                                         *)
(* An I2C transaction is one step (module I2cBus has its inside).  The     *)
(* converter may stop answering for good, or miss single receptions, and   *)
(* each device single transmissions; another resistor may be connected at  *)
(* any time.  The bytes of a transmission that is missed stay in the FIFO  *)
(* in front of all later ones, until the board is reset: what source and   *)
(* converter do from then on is not followed, and what is read is anything *)
(* at all.  Voltages are in microvolts, currents in microamperes,          *)
(* resistances in ohms.                                                    *)
(***************************************************************************)
EXTENDS Integers

CONSTANTS
  Resistors,     \* what may be connected
  Garbage,       \* what an uninitialised buffer or a stray answer may hold, as a voltage
  MaxFailures,   \* bound: what is missed by devices that are there
  MaxChanges     \* bound: how often another resistor is connected

ASSUME ResistorsAssumption == Resistors # {} /\ Resistors \subseteq Nat
ASSUME BoundsAssumption == MaxFailures \in Nat /\ MaxChanges \in Nat

FullScale  == 5000000
SenseOhms  == 330
OpenLine   == 4900000

\* A code below zero is read as zero.
ASSUME GarbageAssumption == Garbage # {} /\ Garbage \subseteq 0 .. FullScale

VARIABLES
  pc,         \* where the loop is
  phase,      \* which reading ads122c04_read is for: "sense" or "input"
  tier,       \* fsm_current_tier, from 1
  applied,    \* applied_current_amps
  answer,     \* what the last command printed
  dac, sel,   \* the current source: the code of its DAC and its selection
  adc,        \* the converter: its input and gain, its conversion, its result
  ohms,       \* the resistor
  lost,       \* the converter answers no longer
  leftover,   \* bytes of a missed transmission are in the FIFO
  failures,   \* transmissions and receptions missed by devices that are there
  changes,    \* resistors changed
  disturbed,  \* history: was this measurement disturbed?
  lostBefore  \* history: was the converter lost when it began?

source    == <<dac, sel>>
loopVars  == <<phase, tier, applied, answer>>
histVars  == <<failures, changes, disturbed, lostBefore>>
vars == <<pc, loopVars, source, adc, ohms, lost, leftover, histVars>>

Tiers == 1 .. 5   \* STATE_1UA .. STATE_10MA

Amps    == <<1, 10, 100, 1000, 10000>>
DacCode == <<"6B6C", "6B6C", "6784", "6784", "6B1C">>

Codes      == {DacCode[t] : t \in Tiers} \union {"none"}
Selections == Tiers \union {0}

Inputs == {"short", "sense", "input"}
ReadSteps == {"start", "poll", "status", "rdata", "data"}

TypeOK ==
  /\ pc \in {"ready", "dac", "select", "short", "sense", "input", "off"} \union ReadSteps
  /\ phase \in {"sense", "input"} /\ tier \in Tiers
  /\ applied \in 0 .. FullScale /\ answer \in [ol : BOOLEAN, ohms : 0 .. OpenLine - 1]
  /\ dac \in Codes /\ sel \in Selections
  /\ adc.input \in Inputs /\ adc.gain \in {1, 2} /\ adc.code \in 0 .. FullScale
  /\ adc.converting \in BOOLEAN /\ adc.ready \in BOOLEAN
  /\ ohms \in Resistors /\ {lost, leftover, disturbed, lostBefore} \subseteq BOOLEAN
  /\ failures \in 0 .. MaxFailures /\ changes \in 0 .. MaxChanges

\* After db_board_init: the source is off, the converter reset.
Init ==
  /\ pc = "ready" /\ phase = "sense" /\ tier = 1 /\ applied = 0
  /\ answer = [ol |-> FALSE, ohms |-> 0]
  /\ dac = "none" /\ sel = 0
  /\ adc = [input |-> "input", gain |-> 1, converting |-> FALSE, ready |-> FALSE, code |-> 0]
  /\ ohms \in Resistors
  /\ lost = FALSE /\ leftover = FALSE /\ failures = 0 /\ changes = 0
  /\ disturbed = TRUE /\ lostBefore = FALSE

-----------------------------------------------------------------------------
(* The board                                                               *)

\* The current the source drives; without its DAC code it is off.
Current == IF sel # 0 /\ dac = DacCode[sel] THEN Amps[sel] ELSE 0

\* The voltage over the unknown and the sense resistor, or over one of them
\* shorted; the supply limits it.
Volts(input) ==
  LET total   == ohms + SenseOhms
      limited == Current > FullScale \div total
      flowing == IF limited THEN FullScale \div total ELSE Current
  IN CASE input = "short" -> 0
       [] input = "sense" -> flowing * SenseOhms
       [] input = "input" -> IF limited THEN FullScale ELSE flowing * total

\* A conversion ends.
Convert ==
  /\ adc.converting
  /\ LET v == Volts(adc.input) * adc.gain IN
     adc' = [adc EXCEPT !.converting = FALSE, !.ready = TRUE,
                        !.code = IF v > FullScale THEN FullScale ELSE v]
  /\ UNCHANGED <<pc, loopVars, source, ohms, lost, leftover, histVars>>

Reconnect ==
  /\ changes < MaxChanges /\ changes' = changes + 1
  /\ ohms' \in Resistors
  /\ disturbed' = TRUE
  /\ UNCHANGED <<pc, loopVars, source, adc, lost, leftover, failures, lostBefore>>

Lose ==
  /\ ~lost /\ lost' = TRUE
  /\ disturbed' = TRUE
  /\ UNCHANGED <<pc, loopVars, source, adc, ohms, leftover, failures, changes, lostBefore>>

-----------------------------------------------------------------------------
(* get_single_shot_resistance and run_differential_fsm_tick                *)

\* A variant of LowThreshold in whose window only one source fits.
LowThresholdHigh == 500000

LowThreshold == 100000
HighThreshold == 4250000

\* DEMO:RES.  What an earlier failure has left in the converter may disturb it.
Measure ==
  /\ pc = "ready"
  /\ pc' = "dac" /\ tier' = 1
  /\ disturbed' = (adc.ready \/ adc.converting \/ lost \/ leftover)
  /\ lostBefore' = lost
  /\ UNCHANGED <<phase, applied, answer, source, adc, ohms, lost, leftover, failures, changes>>

\* A device that is there misses a transmission.
Unheard ==
  /\ ~lost /\ failures < MaxFailures /\ failures' = failures + 1
  /\ leftover' = TRUE /\ disturbed' = TRUE
  /\ UNCHANGED <<changes, lostBefore>>

\* A write to the source, the result of which is not looked at.
SetSource(d, s) ==
  \/ Unheard /\ UNCHANGED source
  \/ /\ UNCHANGED <<leftover, histVars>>
     /\ IF leftover THEN UNCHANGED source ELSE dac' = d /\ sel' = s

SetDac ==
  /\ pc = "dac" /\ pc' = "select"
  /\ SetSource(DacCode[tier], sel)
  /\ UNCHANGED <<loopVars, adc, ohms, lost>>

Select ==
  /\ pc = "select" /\ pc' = "short"
  /\ SetSource(dac, tier)
  /\ UNCHANGED <<loopVars, adc, ohms, lost>>

\* The tick has found that the current is not the right one, and the next tick
\* begins with another; or it has a resistance (demo.c takes the sense resistor
\* off and tells an open line).
NextTier(t) == pc' = "dac" /\ tier' = t /\ UNCHANGED answer
Shown(r) ==
  /\ pc' = "off" /\ UNCHANGED tier
  /\ answer' = LET net == IF r > SenseOhms THEN r - SenseOhms ELSE 0 IN
               IF net >= OpenLine THEN [ol |-> TRUE, ohms |-> 0] ELSE [ol |-> FALSE, ohms |-> net]

\* A variant of HasLarger that steps past the last source.
HasLargerAlways == TRUE

HasLarger == tier < 5

\* The decision on a voltage.
Decide(v) ==
  \/ v < LowThreshold /\ HasLarger /\ NextTier(tier + 1)
  \/ v > HighThreshold /\ tier > 1 /\ NextTier(tier - 1)
  \/ /\ v < LowThreshold => ~HasLarger
     /\ v > HighThreshold => tier = 1
     /\ Shown(IF v = 0 \/ applied = 0 THEN 0 ELSE v \div applied)

\* The current that the tick reckons with: the measured one for the three
\* larger sources, the nominal one for the others.
Reckoned(measured) == IF tier <= 2 THEN Amps[tier] ELSE measured

\* ads122c04_calibration has a current, or 0.
Calibrated(measured) ==
  /\ applied' = Reckoned(measured)
  /\ pc' = "input"
  /\ UNCHANGED <<tier, answer>>

\* The gain bits of the sense configuration.
SenseGain == IF tier = 3 THEN 2 ELSE 1

\* A variant of Divisor that forgets the gain of the configuration.
DivisorOne == 1

\* The gain that the code of the sense reading is divided by.
Divisor == IF tier = 3 THEN 2 ELSE 1

\* A reading of the converter, converted to a voltage.
Reading(code) ==
  IF phase = "sense"
  THEN Calibrated((code \div Divisor) \div SenseOhms)
  ELSE Decide(code) /\ UNCHANGED applied

\* A transmission to the converter: missed, it leaves its bytes; taken, it has
\* one of the effects.
NotSent ==
  /\ \/ lost /\ leftover' = TRUE /\ UNCHANGED histVars
     \/ Unheard
  /\ UNCHANGED adc
Sent(effects) ==
  /\ ~lost /\ adc' \in IF leftover THEN {adc} ELSE effects
  /\ UNCHANGED <<leftover, histVars>>

\* Configuration register 0: the input and the gain.  Without it the function
\* returns 0.
Configure(input, gain) == Sent({[adc EXCEPT !.input = input, !.gain = gain]})

Short ==
  /\ pc = "short"
  /\ \/ Configure("short", SenseGain) /\ pc' = "sense" /\ UNCHANGED <<tier, applied, answer>>
     \/ NotSent /\ Calibrated(0)
  /\ UNCHANGED <<phase, source, ohms, lost>>

Sense ==
  /\ pc = "sense"
  /\ \/ /\ Configure("sense", SenseGain)
        /\ pc' = "start" /\ phase' = "sense" /\ UNCHANGED <<tier, applied, answer>>
     \/ NotSent /\ Calibrated(0) /\ UNCHANGED phase
  /\ UNCHANGED <<source, ohms, lost>>

-----------------------------------------------------------------------------
(* ads122c04_read                                                          *)

\* It returns without data; its caller goes on with what the buffer holds.
Unread == \E g \in Garbage : Reading(g)

\* A variant of InputFailed that reads the converter all the same.
InputFailedOn == NotSent /\ \E g \in Garbage : Decide(g) /\ UNCHANGED applied

\* read_adc_differential returns 0.
InputFailed == NotSent /\ Decide(0) /\ UNCHANGED applied

\* A variant of ConfigureInput that leaves input and gain as they are.
ConfigureInputNot == Sent({adc})

ConfigureInput == Configure("input", 1)

\* read_adc_differential
Input ==
  /\ pc = "input"
  /\ \/ ConfigureInput /\ pc' = "start" /\ phase' = "input" /\ UNCHANGED <<tier, applied, answer>>
     \/ InputFailed /\ UNCHANGED phase
  /\ UNCHANGED <<source, ohms, lost>>

\* One command byte to the converter.
Transmit(step, next, effects) ==
  /\ pc = step
  /\ \/ Sent(effects) /\ pc' = next /\ UNCHANGED <<tier, applied, answer>>
     \/ NotSent /\ Unread
  /\ UNCHANGED <<phase, source, ohms, lost>>

\* START.  A result that has not been read may stay marked as ready.
Start == Transmit("start", "poll",
                  {[adc EXCEPT !.converting = TRUE, !.ready = r] : r \in {FALSE, adc.ready}})

Poll == Transmit("poll", "status", {adc})

\* A reception that is not acknowledged leaves no bytes.
Missed ==
  /\ IF lost THEN UNCHANGED failures
             ELSE failures < MaxFailures /\ failures' = failures + 1
  /\ disturbed' = TRUE
  /\ UNCHANGED <<adc, changes, lostBefore>>
  /\ Unread

\* The wait for the result, without a limit.
Status ==
  /\ pc = "status"
  /\ \/ /\ ~lost
        /\ \/ (adc.ready \/ leftover) /\ pc' = "rdata"
           \/ (~adc.ready \/ leftover) /\ pc' = "poll"
        /\ UNCHANGED <<tier, applied, answer, adc, histVars>>
     \/ Missed
  /\ UNCHANGED <<phase, source, ohms, lost, leftover>>

Rdata == Transmit("rdata", "data", {adc})

Data ==
  /\ pc = "data"
  /\ \/ /\ ~lost /\ ~leftover /\ adc' = [adc EXCEPT !.ready = FALSE]
        /\ Reading(adc.code)
        /\ UNCHANGED histVars
     \/ ~lost /\ leftover /\ Unread /\ UNCHANGED <<adc, histVars>>
     \/ Missed
  /\ UNCHANGED <<phase, source, ohms, lost, leftover>>

\* io_expander_daughter_reset, and the answer is sent.
Off ==
  /\ pc = "off" /\ pc' = "ready" /\ tier' = 1
  /\ SetSource(dac, 0)
  /\ UNCHANGED <<phase, applied, answer, adc, ohms, lost>>

Main == SetDac \/ Select \/ Short \/ Sense \/ Input \/ Start \/ Poll \/ Status \/ Rdata \/ Data \/ Off

Next == Measure \/ Main \/ Convert \/ Reconnect \/ Lose

\* The processor runs and the converter converts.
Spec == Init /\ [][Next]_vars /\ WF_vars(Main) /\ WF_vars(Convert)

-----------------------------------------------------------------------------
(* Properties                                                              *)

\* What is to be printed for a resistor: an open line from 4.9 MOhm.
Meant == IF ohms >= OpenLine THEN [ol |-> TRUE, ohms |-> 0] ELSE [ol |-> FALSE, ohms |-> ohms]

\* A measurement that nothing disturbed prints the resistor that is connected,
\* whatever the measurements before it have left behind: source, sense gain,
\* converter input and window fit together at every resistor.
\* (get_single_shot_resistance, resistance_demo_handler)
ResultRight == pc = "ready" /\ ~disturbed => answer = Meant

\* The search never goes back to a smaller current unless something disturbed
\* it: the windows of neighbouring sources overlap.  (run_differential_fsm_tick)
NeverSwings == [][tier' < tier => disturbed' \/ pc' = "ready"]_vars

\* With a converter that was gone before the command, the answer is 0 and never
\* what an uninitialised buffer holds.  (read_adc_differential)
LostReadsZero == pc = "ready" /\ lostBefore => answer = [ol |-> FALSE, ohms |-> 0]

\* A measurement ends, even if the converter is lost or another resistor is
\* connected meanwhile.  What is missed by a device that is there is the
\* exception.  A missed reception leaves a result marked as ready, from which on
\* the readings can be one conversion behind for as long as no START finds a
\* conversion unfinished; a missed transmission shifts all commands after it, and
\* the wait can be for a conversion that was never asked for.  (the loop of
\* get_single_shot_resistance and the wait of ads122c04_read, without a limit)
MeasureEnds == pc # "ready" /\ failures = 0 ~> pc = "ready" \/ failures > 0
=============================================================================
