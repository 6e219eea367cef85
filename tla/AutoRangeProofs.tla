--------------------------- MODULE AutoRangeProofs ---------------------------
(***************************************************************************)
(* What a measurement prints, for any resistors: without its converter,    *)
(* whatever an uninitialised buffer holds, and when nothing disturbs it.   *)
(***************************************************************************)
EXTENDS AutoRange, TLAPS

Zero == [ol |-> FALSE, ohms |-> 0]

\* A measurement that began without the converter never gets to a reading: each
\* configuration fails before it, and the tick goes on with 0.
LostInv ==
  lostBefore =>
    /\ lost
    /\ pc \in {"ready", "dac", "select", "short", "input", "off"}
    /\ pc \in {"ready", "off"} => answer = Zero

LEMMA ShownZero == Shown(0) => pc' = "off" /\ answer' = Zero
BY DEF Shown, Zero, SenseOhms, OpenLine

LEMMA DecideZero == Decide(0) => pc' = "dac" \/ (pc' = "off" /\ answer' = Zero)
BY ShownZero DEF Decide, NextTier

LEMMA LostStep == LostInv /\ [Next]_vars => LostInv'
<1> SUFFICES ASSUME LostInv, [Next]_vars PROVE LostInv'
  OBVIOUS
<1>1. CASE Measure
  BY <1>1 DEF Measure, LostInv
<1>2. CASE Convert \/ Reconnect \/ Lose \/ UNCHANGED vars
  BY <1>2 DEF Convert, Reconnect, Lose, LostInv, vars, loopVars, histVars
<1>3. CASE SetDac \/ Select \/ Off
  BY <1>3 DEF SetDac, Select, Off, SetSource, Unheard, LostInv, loopVars, histVars, Zero
<1>4. CASE Short
  BY <1>4 DEF Short, Configure, Sent, NotSent, Unheard, Calibrated, LostInv, histVars
<1>5. CASE Input
  BY <1>5, DecideZero DEF Input, InputFailed, ConfigureInput, Configure, Sent, NotSent, Unheard, LostInv, histVars
<1>6. CASE Sense \/ Start \/ Poll \/ Status \/ Rdata \/ Data
  <2>1. pc \in {"sense"} \union ReadSteps /\ UNCHANGED lostBefore
    BY <1>6 DEF Sense, Configure, Start, Poll, Status, Rdata, Data, Transmit, Sent, NotSent, Unheard,
                ReadSteps, Missed, histVars
  <2>. QED BY <2>1 DEF LostInv, ReadSteps
<1>. QED BY <1>1, <1>2, <1>3, <1>4, <1>5, <1>6 DEF Next, Main

\* A measurement whose converter was gone before it answers 0 at each of its
\* ends, and never what the buffer on its stack holds.  (read_adc_differential,
\* ads122c04_calibration)
THEOREM LostAlwaysZero == Spec => []LostReadsZero
<1>1. Init => LostInv
  BY DEF Init, LostInv
<1>2. LostInv => LostReadsZero
  BY DEF LostInv, LostReadsZero, Zero
<1>. QED BY <1>1, <1>2, LostStep, PTL DEF Spec
-----------------------------------------------------------------------------
(* A measurement that nothing disturbs                                     *)

Total == ohms + SenseOhms

\* What the converter makes of the input: the voltage, up to the supply.
Expected == IF Amps[tier] * Total > FullScale THEN FullScale ELSE Amps[tier] * Total

\* The source before this one was too small.
Fits == tier > 1 => Amps[tier - 1] * Total < LowThreshold

Driven     == dac = DacCode[tier] /\ sel = tier
Idle       == ~adc.ready /\ ~adc.converting
Configured == adc.input = phase /\ adc.gain = IF phase = "sense" THEN SenseGain ELSE 1

\* The result of the reading.  The sense resistor counts for the larger sources.
RightCode ==
  /\ phase = "sense" /\ tier > 2 => adc.code = Amps[tier] * SenseOhms * SenseGain
  /\ phase = "input" => adc.code = Expected

Undisturbed ==
  /\ ~lost /\ ~leftover /\ Fits
  /\ pc \in {"ready", "off"} => answer = Meant
  /\ pc = "select" => dac = DacCode[tier]
  /\ pc \in {"short", "sense", "input"} \union ReadSteps => Driven
  /\ pc \in {"dac", "select", "short", "sense", "input", "start"} => Idle
  /\ pc \in ReadSteps => Configured
  /\ (pc \in {"poll", "status"} /\ adc.ready) \/ pc \in {"rdata", "data"} =>
       ~adc.converting /\ RightCode
  /\ pc = "input" \/ (pc \in ReadSteps /\ phase = "input") => applied = Amps[tier]

\* tier and what is connected have their types, and adc is a record.
ShapeInv ==
  /\ tier \in Tiers /\ ohms \in Nat /\ phase \in {"sense", "input"}
  /\ adc = [input |-> adc.input, gain |-> adc.gain, converting |-> adc.converting,
            ready |-> adc.ready, code |-> adc.code]
  /\ pc = "ready" => tier = 1

RangeInv == ShapeInv /\ (~disturbed => Undisturbed)

-----------------------------------------------------------------------------
(* The arithmetic of the five sources                                      *)

LEMMA Amperes ==
  /\ Amps[1] = 1 /\ Amps[2] = 10 /\ Amps[3] = 100 /\ Amps[4] = 1000 /\ Amps[5] = 10000
  /\ \A t \in Tiers : Amps[t] \in Nat /\ Amps[t] >= 1 /\ Amps[t] <= 10000
  /\ \A t \in Tiers : t > 1 => Amps[t] = 10 * Amps[t - 1]
BY DEF Amps, Tiers

LEMMA Quotient ==
  \A n \in Nat, d \in Nat \ {0} : n \div d \in Nat /\ d * (n \div d) <= n /\ n < d * (n \div d) + d
OBVIOUS

\* Of a product, the division gives the factor back.
LEMMA QuotientOf ==
  ASSUME NEW a \in Nat \ {0}, NEW b \in Nat
  PROVE  (a * b) \div a = b
OBVIOUS

\* A current flows unlimited exactly if its voltage is within the supply.
LEMMA Limit ==
  ASSUME NEW a \in Nat, a >= 1, NEW d \in Nat \ {0}
  PROVE  a > FullScale \div d <=> a * d > FullScale
<1> DEFINE q == FullScale \div d
<1>1. q \in Nat /\ d * q <= FullScale /\ FullScale < d * q + d /\ FullScale \in Nat
  BY Quotient, SMT DEF FullScale
<1> HIDE DEF q
<1>2. CASE a > q
  <2>1. PICK k \in Nat : a = q + 1 + k
    <3>1. a - q - 1 \in Nat /\ a = q + 1 + (a - q - 1)
      BY <1>1, <1>2
    <3>. QED BY <3>1
  <2>2. a * d = d * q + d + k * d /\ k * d >= 0
    BY <1>1, <2>1
  <2>3. d * q \in Nat /\ k * d \in Nat
    BY <1>1, <2>1
  <2>. QED BY <1>1, <1>2, <2>2, <2>3 DEF q
<1>3. CASE ~(a > q)
  <2>1. PICK k \in Nat : q = a + k
    <3>1. q - a \in Nat /\ q = a + (q - a)
      BY <1>1, <1>3
    <3>. QED BY <3>1
  <2>2. d * q = a * d + k * d /\ k * d >= 0
    BY <1>1, <2>1
  <2>3. a * d \in Nat /\ k * d \in Nat
    BY <1>1, <2>1
  <2>. QED BY <1>1, <1>3, <2>2, <2>3 DEF q
<1>. QED BY <1>2, <1>3

LEMMA TotalNat == ASSUME ShapeInv PROVE Total \in Nat \ {0} /\ Total >= SenseOhms
BY DEF ShapeInv, Total, SenseOhms

LEMMA AmpereNat ==
  ASSUME ShapeInv
  PROVE  Amps[tier] \in Nat \ {0} /\ Amps[tier] >= 1 /\ Amps[tier] * Total \in Nat \ {0}
<1>1. Amps[tier] \in Nat /\ Amps[tier] >= 1
  BY Amperes DEF ShapeInv
<1>2. \A a, b \in Nat \ {0} : a * b \in Nat \ {0}
  OBVIOUS
<1>. QED BY <1>1, <1>2, TotalNat

LEMMA CurrentDriven == ASSUME ShapeInv, Driven PROVE Current = Amps[tier]
BY DEF ShapeInv, Driven, Current, Tiers

\* A larger source is not limited by the supply.
LEMMA LargerFits == ASSUME ShapeInv, Fits, tier > 1 PROVE Amps[tier] * Total < 10 * LowThreshold
<1>1. /\ tier - 1 \in Tiers /\ Amps[tier] = 10 * Amps[tier - 1] /\ Amps[tier - 1] \in Nat
      /\ Total \in Nat
  BY Amperes, TotalNat DEF ShapeInv, Tiers
<1>2. Amps[tier - 1] * Total < LowThreshold
  BY DEF Fits
<1>3. \A a, t \in Nat : (10 * a) * t = 10 * (a * t) /\ a * t \in Nat
  OBVIOUS
<1>. QED BY <1>1, <1>2, <1>3, SMT DEF LowThreshold

LEMMA InputVolts == ASSUME ShapeInv, Driven PROVE Volts("input") = Expected
<1>1. Current > FullScale \div Total <=> Amps[tier] * Total > FullScale
  BY CurrentDriven, AmpereNat, TotalNat, Limit
<1>. QED BY <1>1, CurrentDriven DEF Volts, Total, Expected

LEMMA SenseVolts ==
  ASSUME ShapeInv, Fits, Driven, tier > 2
  PROVE  Volts("sense") = Amps[tier] * SenseOhms
<1>1. ~(Amps[tier] * Total > FullScale)
  BY LargerFits, AmpereNat, SMT DEF LowThreshold, FullScale, ShapeInv, Tiers
<1>2. ~(Current > FullScale \div Total)
  BY <1>1, CurrentDriven, AmpereNat, TotalNat, Limit
<1>. QED BY <1>2, CurrentDriven DEF Volts, Total

\* With a sense reading that counts, the current reckoned with is the nominal one.
LEMMA ReckonedRight ==
  ASSUME ShapeInv, NEW c, tier > 2 => c = Amps[tier] * SenseOhms * SenseGain
  PROVE  Reckoned((c \div Divisor) \div SenseOhms) = Amps[tier]
<1>1. CASE tier <= 2
  BY <1>1 DEF Reckoned
<1>2. CASE tier > 2
  <2>1. tier \in {3, 4, 5}
    BY <1>2 DEF ShapeInv, Tiers
  <2>2. (c \div Divisor) \div SenseOhms = Amps[tier]
    BY <1>2, <2>1, Amperes DEF Divisor, SenseGain, SenseOhms
  <2>. QED BY <1>2, <2>1, <2>2 DEF Reckoned
<1>. QED BY <1>1, <1>2 DEF ShapeInv, Tiers

LEMMA ShownTotal ==
  ASSUME NEW r \in Nat, ohms \in Nat, r = ohms + SenseOhms, Shown(r)
  PROVE  pc' = "off" /\ tier' = tier /\ answer' = Meant
<1> DEFINE net == IF r > SenseOhms THEN r - SenseOhms ELSE 0
<1>1. net = ohms
  BY SMT DEF SenseOhms
<1>2. /\ pc' = "off" /\ tier' = tier
      /\ answer' = IF net >= OpenLine THEN [ol |-> TRUE, ohms |-> 0] ELSE [ol |-> FALSE, ohms |-> net]
  BY Zenon DEF Shown
<1> HIDE DEF net
<1>. QED BY <1>1, <1>2 DEF Meant

\* What is shown of a reading is the resistor.
LEMMA ShownMeant ==
  ASSUME ShapeInv, Fits, Shown(Expected \div Amps[tier])
  PROVE  pc' = "off" /\ tier' = tier /\ answer' = Meant
<1>1. Total \in Nat /\ Total = ohms + SenseOhms /\ ohms \in Nat /\ Amps[tier] \in Nat \ {0}
  BY TotalNat, AmpereNat DEF Total, ShapeInv
<1>2. CASE Amps[tier] * Total > FullScale
  <2>1. tier = 1 /\ Amps[tier] = 1
    BY <1>2, LargerFits, AmpereNat, Amperes, SMT DEF ShapeInv, Tiers, FullScale, LowThreshold
  <2>2. Total > FullScale /\ Expected \div Amps[tier] = FullScale
    BY <1>1, <1>2, <2>1, SMT DEF Expected, FullScale
  <2>. QED BY <1>1, <2>2, SMT DEF Shown, Meant, SenseOhms, OpenLine, FullScale
<1>3. CASE ~(Amps[tier] * Total > FullScale)
  <2>1. Expected \div Amps[tier] = Total
    BY <1>1, <1>3, QuotientOf DEF Expected
  <2>2. Shown(Total)
    BY <2>1
  <2>. QED BY <1>1, <2>2, ShownTotal
<1>. QED BY <1>2, <1>3

\* A tick that has read the right voltage finishes, or steps to a larger source
\* for which this one was too small.
LEMMA DecideRight ==
  ASSUME ShapeInv, Fits, applied = Amps[tier], UNCHANGED ohms, Decide(Expected)
  PROVE  \/ pc' = "off" /\ tier' = tier /\ answer' = Meant
         \/ pc' = "dac" /\ tier' = tier + 1 /\ tier' \in Tiers /\ UNCHANGED answer /\ Fits'
<1>1. Expected \in Nat \ {0} /\ tier \in 1 .. 5 /\ applied # 0
  BY AmpereNat, SMT DEF Expected, FullScale, ShapeInv, Tiers
<1>2. CASE Expected < LowThreshold /\ HasLarger /\ NextTier(tier + 1)
  <2>1. pc' = "dac" /\ tier' = tier + 1 /\ UNCHANGED answer /\ tier' \in Tiers /\ tier' - 1 = tier
    BY <1>1, <1>2 DEF NextTier, HasLarger, Tiers
  <2>2. Amps[tier] * Total < LowThreshold
    BY <1>2, SMT DEF Expected, LowThreshold, FullScale
  <2>3. Total' = Total
    BY DEF Total
  <2>. QED BY <2>1, <2>2, <2>3 DEF Fits
<1>3. ~(Expected > HighThreshold /\ tier > 1)
  BY LargerFits, AmpereNat, SMT DEF Expected, FullScale, LowThreshold, HighThreshold
<1>4. CASE Shown(Expected \div applied)
  BY <1>4, ShownMeant
<1>. QED BY <1>1, <1>2, <1>3, <1>4 DEF Decide

-----------------------------------------------------------------------------
(* The steps                                                               *)

LEMMA DecideShape ==
  ASSUME ShapeInv, NEW v, Decide(v) PROVE tier' \in Tiers /\ pc' \in {"dac", "off"}
<1>1. CASE v < LowThreshold /\ HasLarger /\ NextTier(tier + 1)
  BY <1>1 DEF ShapeInv, HasLarger, NextTier, Tiers
<1>2. CASE v > HighThreshold /\ tier > 1 /\ NextTier(tier - 1)
  BY <1>2 DEF ShapeInv, NextTier, Tiers
<1>3. CASE \E r : Shown(r)
  BY <1>3 DEF ShapeInv, Shown
<1>. QED BY <1>1, <1>2, <1>3 DEF Decide

LEMMA ReadingShape ==
  ASSUME ShapeInv, NEW c, Reading(c) PROVE tier' \in Tiers /\ pc' \in {"input", "dac", "off"}
BY DecideShape DEF Reading, Calibrated, ShapeInv

IsAdc(a) == a = [input |-> a.input, gain |-> a.gain, converting |-> a.converting,
                 ready |-> a.ready, code |-> a.code]

LEMMA ShapeStep == ShapeInv /\ [Next]_vars => ShapeInv'
<1> SUFFICES ASSUME ShapeInv, [Next]_vars PROVE ShapeInv'
  OBVIOUS
<1>1. IsAdc(adc) /\ tier \in Tiers
  BY DEF ShapeInv, IsAdc
<1>2. IsAdc(adc')
  <2>1. CASE UNCHANGED adc
    BY <1>1, <2>1
  <2>2. CASE Convert
    BY <1>1, <2>2 DEF Convert, IsAdc
  <2>3. ASSUME NEW i, NEW g, Configure(i, g) PROVE IsAdc(adc')
    BY <1>1, <2>3 DEF Configure, Sent, IsAdc
  <2>4. CASE Start \/ Poll \/ Rdata
    BY <1>1, <2>4 DEF Start, Poll, Rdata, Transmit, Sent, NotSent, IsAdc
  <2>5. CASE Status \/ Data
    BY <1>1, <2>5 DEF Status, Data, Missed, IsAdc
  <2>6. CASE Short \/ Sense \/ Input
    BY <2>1, <2>3, <2>6 DEF Short, Sense, Input, ConfigureInput, NotSent, InputFailed
  <2>. QED BY <2>1, <2>2, <2>4, <2>5, <2>6
           DEF Next, Main, Measure, Reconnect, Lose, SetDac, Select, Off, vars
<1>3. ohms' \in Nat /\ phase' \in {"sense", "input"}
  BY ResistorsAssumption
     DEF ShapeInv, Next, Main, Measure, Convert, Reconnect, Lose, SetDac, Select, Short, Sense, Input,
         Start, Poll, Rdata, Transmit, Status, Data, Off, vars, loopVars
<1>5. tier' \in Tiers /\ (pc' = "ready" => tier' = 1)
  <2>1. CASE Measure \/ Off
    BY <2>1 DEF Measure, Off, Tiers
  <2>2. CASE Convert \/ Reconnect \/ Lose \/ SetDac \/ Select \/ UNCHANGED vars
    BY <2>2 DEF ShapeInv, Convert, Reconnect, Lose, SetDac, Select, vars, loopVars
  <2>3. CASE Short \/ Sense
    BY <2>3 DEF ShapeInv, Short, Sense, Calibrated
  <2>4. CASE Input
    BY <2>4, DecideShape DEF ShapeInv, Input, InputFailed
  <2>5. CASE Start \/ Poll \/ Rdata
    BY <2>5, ReadingShape DEF ShapeInv, Start, Poll, Rdata, Transmit, Unread
  <2>6. CASE Status
    BY <2>6, ReadingShape DEF ShapeInv, Status, Missed, Unread
  <2>7. CASE Data
    BY <2>7, ReadingShape DEF ShapeInv, Data, Missed, Unread
  <2>. QED BY <2>1, <2>2, <2>3, <2>4, <2>5, <2>6, <2>7 DEF Next, Main
<1>. QED BY <1>2, <1>3, <1>5 DEF ShapeInv, IsAdc

LEMMA MainUndisturbed ==
  ASSUME RangeInv, Main, ~disturbed'
  PROVE  Undisturbed'
<1>1. ~disturbed /\ Undisturbed /\ ShapeInv /\ ~lost /\ ~leftover /\ UNCHANGED <<ohms, lost, leftover, histVars>>
  BY DEF RangeInv, ShapeInv, Undisturbed, Main, SetDac, Select, Short, Sense, Input, Start, Poll, Rdata,
         Transmit, Status, Data, Missed, Off, SetSource, Configure, ConfigureInput, InputFailed, Sent,
         NotSent, Unheard, histVars
<1>2. UNCHANGED <<Total, Meant>>
  BY <1>1 DEF Total, Meant
<1>3. ShapeInv'
  BY ShapeStep DEF RangeInv, Next
<1>4. UNCHANGED tier => (Fits' <=> Fits) /\ (SenseGain' <=> SenseGain) /\ UNCHANGED Expected
  BY <1>2 DEF Fits, SenseGain, Expected
<1>5. CASE SetDac
  <2>1. pc' = "select" /\ dac' = DacCode[tier] /\ UNCHANGED <<tier, adc>> /\ Idle
    BY <1>1, <1>5 DEF SetDac, SetSource, Unheard, loopVars, Undisturbed
  <2>. QED BY <1>1, <1>4, <2>1 DEF Undisturbed, Idle, ReadSteps
<1>6. CASE Select
  <2>1. pc = "select" /\ pc' = "short" /\ dac' = dac /\ sel' = tier /\ UNCHANGED <<tier, adc>>
    BY <1>1, <1>6 DEF Select, SetSource, Unheard, loopVars
  <2>2. Driven' /\ Idle'
    BY <1>1, <2>1 DEF Undisturbed, Driven, Idle
  <2>. QED BY <1>1, <1>4, <2>1, <2>2 DEF Undisturbed, ReadSteps
<1>7. ASSUME pc \in {"short", "sense", "input"}, UNCHANGED <<tier, source>>, NEW i, NEW g, Configure(i, g)
      PROVE  Fits' /\ Driven' /\ Idle' /\ adc'.input = i /\ adc'.gain = g
  BY <1>1, <1>4, <1>7 DEF Undisturbed, Driven, Idle, Configure, Sent, source, ShapeInv
<1>8. CASE Short
  <2>1. /\ pc = "short" /\ pc' = "sense" /\ UNCHANGED <<tier, source>> /\ Configure("short", SenseGain)
    BY <1>1, <1>8 DEF Short, NotSent, Unheard, Sent
  <2>. QED BY <1>1, <1>7, <2>1 DEF Undisturbed, ReadSteps
<1>9. CASE Sense
  <2>1. /\ pc = "sense" /\ pc' = "start" /\ phase' = "sense" /\ UNCHANGED <<tier, source>>
        /\ Configure("sense", SenseGain)
    BY <1>1, <1>9 DEF Sense, NotSent, Unheard, Sent
  <2>2. Configured'
    BY <1>4, <1>7, <2>1 DEF Configured, SenseGain
  <2>. QED BY <1>1, <1>7, <2>1, <2>2 DEF Undisturbed, ReadSteps
<1>10. CASE Input
  <2>1. /\ pc = "input" /\ pc' = "start" /\ phase' = "input" /\ UNCHANGED <<tier, source, applied>>
        /\ Configure("input", 1)
    BY <1>1, <1>10 DEF Input, InputFailed, NotSent, Unheard, Sent, ConfigureInput
  <2>2. Configured' /\ applied' = Amps[tier']
    BY <1>1, <1>7, <2>1 DEF Configured, Undisturbed
  <2>. QED BY <1>1, <1>7, <2>1, <2>2 DEF Undisturbed, ReadSteps
<1>11. ASSUME pc \in ReadSteps, pc' \in ReadSteps, UNCHANGED <<phase, tier, applied, source>>,
              adc'.input = adc.input, adc'.gain = adc.gain
       PROVE  Fits' /\ Driven' /\ Configured' /\ (phase' = "input" => applied' = Amps[tier'])
  BY <1>1, <1>4, <1>11 DEF Undisturbed, Driven, Configured, SenseGain, source
<1>12. CASE Start
  <2>1. /\ pc = "start" /\ pc' = "poll" /\ UNCHANGED <<phase, tier, applied, source>>
        /\ \E r \in {FALSE, adc.ready} : adc' = [adc EXCEPT !.converting = TRUE, !.ready = r]
    BY <1>1, <1>12 DEF Start, Transmit, NotSent, Unheard, Sent
  <2>2. adc'.input = adc.input /\ adc'.gain = adc.gain /\ ~adc'.ready
    BY <1>1, <2>1 DEF ShapeInv, Undisturbed, Idle
  <2>3. Fits' /\ Driven' /\ Configured' /\ (phase' = "input" => applied' = Amps[tier'])
    BY <1>11, <2>1, <2>2 DEF ReadSteps
  <2>. QED BY <1>1, <2>1, <2>2, <2>3 DEF Undisturbed
<1>13. CASE Poll \/ Rdata \/ Status
  <2>1. /\ pc \in {"poll", "rdata", "status"} /\ UNCHANGED <<adc, phase, tier, applied, source>>
        /\ <<pc, pc'>> \in {<<"poll", "status">>, <<"rdata", "data">>, <<"status", "poll">>, <<"status", "rdata">>}
        /\ pc' = "rdata" => adc.ready
    BY <1>1, <1>13 DEF Poll, Rdata, Transmit, Status, Missed, NotSent, Unheard, Sent
  <2>2. Fits' /\ Driven' /\ Configured' /\ (phase' = "input" => applied' = Amps[tier'])
    BY <1>11, <2>1 DEF ReadSteps
  <2>3. (RightCode' <=> RightCode)
    BY <1>4, <2>1 DEF RightCode, SenseGain
  <2>. QED BY <1>1, <2>1, <2>2, <2>3 DEF Undisturbed, ReadSteps
<1>14. CASE Data
  <2>1. /\ pc = "data" /\ adc' = [adc EXCEPT !.ready = FALSE] /\ Reading(adc.code)
        /\ UNCHANGED <<phase, source>>
    BY <1>1, <1>14 DEF Data, Missed
  <2>2. Idle' /\ RightCode /\ Fits /\ Driven
    BY <1>1, <2>1 DEF Undisturbed, Idle, ShapeInv, ReadSteps
  <2>3. CASE phase = "sense"
    <3>1. pc' = "input" /\ UNCHANGED tier /\ applied' = Amps[tier]
      BY <1>1, <2>1, <2>2, <2>3, ReckonedRight DEF Reading, Calibrated, RightCode
    <3>2. Driven'
      BY <2>1, <2>2, <3>1 DEF Driven, source
    <3>. QED BY <1>1, <1>4, <2>2, <3>1, <3>2 DEF Undisturbed, ReadSteps
  <2>4. CASE phase = "input"
    <3>1. Decide(Expected) /\ applied = Amps[tier]
      BY <1>1, <2>1, <2>2, <2>4 DEF Reading, RightCode, Undisturbed, ReadSteps
    <3>2. \/ pc' = "off" /\ tier' = tier /\ answer' = Meant
          \/ pc' = "dac" /\ tier' = tier + 1 /\ tier' \in Tiers /\ UNCHANGED answer /\ Fits'
      BY <1>1, <2>2, <3>1, DecideRight
    <3>. QED BY <1>1, <1>2, <1>4, <2>2, <3>2 DEF Undisturbed, ReadSteps
  <2>. QED BY <1>1, <2>3, <2>4 DEF ShapeInv
<1>15. CASE Off
  <2>1. pc = "off" /\ pc' = "ready" /\ tier' = 1 /\ UNCHANGED answer
    BY <1>15 DEF Off
  <2>. QED BY <1>1, <1>2, <2>1 DEF Undisturbed, Fits, ReadSteps
<1>. QED BY <1>5, <1>6, <1>8, <1>9, <1>10, <1>12, <1>13, <1>14, <1>15 DEF Main

LEMMA RangeStep == RangeInv /\ [Next]_vars => RangeInv'
<1> SUFFICES ASSUME RangeInv, [Next]_vars, ~disturbed' PROVE Undisturbed'
  BY ShapeStep DEF RangeInv
<1>1. CASE Main BY <1>1, MainUndisturbed
<1>2. CASE Measure
  <2>1. pc' = "dac" /\ tier' = 1 /\ Idle' /\ ~lost' /\ ~leftover'
    BY <1>2 DEF Measure, Idle
  <2>. QED BY <2>1 DEF Undisturbed, Fits, ReadSteps
<1>3. CASE Convert
  <2>1. /\ adc.converting /\ UNCHANGED <<pc, loopVars, source, ohms, lost, leftover>> /\ ~disturbed
    BY <1>3 DEF Convert, histVars
  <2>2. Undisturbed /\ ShapeInv
    BY <2>1 DEF RangeInv
  <2>3. pc \notin {"dac", "select", "short", "sense", "input", "start", "rdata", "data"}
    BY <2>1, <2>2 DEF Undisturbed, Idle
  <2>4. CASE pc \notin {"poll", "status"}
    BY <2>1, <2>2, <2>3, <2>4 DEF Undisturbed, Fits, Total, Meant, loopVars, ReadSteps
  <2>5. CASE pc \in {"poll", "status"}
    <3>1. Configured /\ Driven /\ Fits
      BY <2>2, <2>5 DEF Undisturbed, ReadSteps
    <3>2. /\ adc'.input = adc.input /\ adc'.gain = adc.gain /\ ~adc'.converting
          /\ LET v == Volts(adc.input) * adc.gain IN
             adc'.code = IF v > FullScale THEN FullScale ELSE v
      BY <1>3, <2>2 DEF Convert, ShapeInv
    <3>3. RightCode'
      <4>1. CASE phase = "input"
        <5>1. Volts(adc.input) * adc.gain = Expected
          <6>1. Volts(adc.input) = Expected /\ adc.gain = 1 /\ Expected \in Nat
            BY <2>2, <3>1, <4>1, InputVolts, AmpereNat, SMT DEF Configured, Expected, FullScale
          <6>. QED BY <6>1
        <5>2. Expected <= FullScale /\ Expected \in Nat /\ FullScale \in Nat
          BY <2>2, AmpereNat, SMT DEF Expected, FullScale
        <5>3. adc'.code = Expected
          BY <3>2, <5>1, <5>2
        <5>. QED BY <2>1, <4>1, <5>3 DEF RightCode, Expected, Total, loopVars
      <4>2. CASE phase = "sense" /\ tier > 2
        <5>1. Volts(adc.input) * adc.gain = Amps[tier] * SenseOhms * SenseGain
          BY <2>2, <3>1, <4>2, SenseVolts DEF Configured
        <5>2. Amps[tier] * SenseOhms * SenseGain <= FullScale
          BY <2>2, Amperes, SMT DEF ShapeInv, Tiers, SenseOhms, SenseGain, FullScale
        <5>3. Amps[tier] * SenseOhms * SenseGain \in Nat /\ FullScale \in Nat
          BY <2>2, Amperes DEF ShapeInv, SenseOhms, SenseGain, FullScale
        <5>4. adc'.code = Amps[tier] * SenseOhms * SenseGain
          BY <3>2, <5>1, <5>2, <5>3
        <5>. QED BY <2>1, <4>2, <5>4 DEF RightCode, SenseGain, loopVars
      <4>3. CASE phase = "sense" /\ ~(tier > 2)
        BY <2>1, <4>3 DEF RightCode, loopVars
      <4>. QED BY <2>2, <4>1, <4>2, <4>3 DEF ShapeInv
    <3>4. Fits' /\ Driven' /\ Configured'
      BY <2>1, <3>1, <3>2 DEF Fits, Total, Driven, Configured, SenseGain, loopVars, source
    <3>. QED BY <2>1, <2>2, <2>5, <3>2, <3>3, <3>4 DEF Undisturbed, ReadSteps, loopVars
  <2>. QED BY <2>4, <2>5
<1>4. CASE Reconnect \/ Lose
  BY <1>4 DEF Reconnect, Lose
<1>5. CASE UNCHANGED vars
  BY <1>5 DEF vars, loopVars, source, histVars, RangeInv, Undisturbed, Fits, Total, Meant, Driven, Idle,
              Configured, SenseGain, RightCode, Expected
<1>. QED BY <1>1, <1>2, <1>3, <1>4, <1>5 DEF Next

\* A measurement that nothing disturbs prints the resistor, for every resistor:
\* the source it settles on is one whose current flows, and is divided by.
\* (run_differential_fsm_tick, resistance_demo_handler)
THEOREM ResultAlwaysRight == Spec => []ResultRight
<1>1. Init => RangeInv
  BY ResistorsAssumption DEF Init, RangeInv, ShapeInv, Tiers
<1>2. RangeInv => ResultRight
  BY DEF RangeInv, Undisturbed, ResultRight
<1>. QED BY <1>1, <1>2, RangeStep, PTL DEF Spec

\* The windows of the sources overlap at every resistor: the search goes to a
\* smaller current only when something disturbed it.  (DB_board.c:251-276)
THEOREM SearchNeverSwings == Spec => NeverSwings
<1>1. Init => RangeInv
  BY ResistorsAssumption DEF Init, RangeInv, ShapeInv, Tiers
<1>2. RangeInv /\ [Next]_vars => [tier' < tier => disturbed' \/ pc' = "ready"]_vars
  <2> SUFFICES ASSUME RangeInv, Next, tier' < tier, ~disturbed' PROVE pc' = "ready"
    OBVIOUS
  <2>1. RangeInv'
    BY RangeStep
  <2>2. CASE Data
    <3>1. ~disturbed /\ Undisturbed /\ ShapeInv /\ pc = "data" /\ Reading(adc.code) /\ UNCHANGED ohms
      BY <2>2 DEF Data, Missed, RangeInv, Undisturbed, histVars
    <3>2. CASE phase = "sense"
      BY <3>1, <3>2 DEF Reading, Calibrated, ShapeInv, Tiers
    <3>3. CASE phase = "input"
      <4>1. Decide(Expected) /\ applied = Amps[tier] /\ Fits
        BY <3>1, <3>3 DEF Reading, RightCode, Undisturbed, ReadSteps
      <4>2. tier' \in {tier, tier + 1}
        BY <3>1, <4>1, DecideRight
      <4>. QED BY <3>1, <4>2 DEF ShapeInv, Tiers
    <3>. QED BY <3>1, <3>2, <3>3 DEF ShapeInv
  <2>3. CASE Off
    BY <2>3 DEF Off
  <2>4. CASE Measure
    BY <2>4 DEF Measure, RangeInv, ShapeInv
  <2>5. CASE Convert \/ Reconnect \/ Lose \/ SetDac \/ Select
    BY <2>5 DEF Convert, Reconnect, Lose, SetDac, Select, loopVars, RangeInv, ShapeInv, Tiers
  <2>6. CASE Short \/ Sense \/ Input \/ Start \/ Poll \/ Rdata \/ Status
    <3>1. ~lost
      BY <2>6 DEF RangeInv, Undisturbed, Short, Sense, Input, InputFailed, ConfigureInput, Configure, Start,
                  Poll, Rdata, Transmit, Sent, NotSent, Unheard, Status, Missed, histVars
    <3>2. UNCHANGED tier
      BY <2>6, <3>1 DEF Short, Sense, Input, InputFailed, NotSent, Unheard, Start, Poll, Rdata, Transmit, Status, Missed
    <3>. QED BY <3>2 DEF RangeInv, ShapeInv, Tiers
  <2>. QED BY <2>2, <2>3, <2>4, <2>5, <2>6 DEF Next, Main
<1>. QED BY <1>1, <1>2, RangeStep, PTL DEF Spec, NeverSwings

-----------------------------------------------------------------------------
(* The types                                                               *)

Places  == {"ready", "dac", "select", "short", "sense", "input", "off"} \union ReadSteps
Answers == [ol : BOOLEAN, ohms : 0 .. OpenLine - 1]
Scale   == 0 .. FullScale

\* The limits, as far as the proofs look at their values.
LEMMA Limits == FullScale \in Nat /\ FullScale >= 10 /\ OpenLine \in Nat /\ OpenLine >= 1
BY SMT DEF FullScale, OpenLine

LEMMA InScale == \A v : v \in Scale <=> v \in Nat /\ v <= FullScale
BY Limits DEF Scale

\* What is shown of a quotient: an open line, or less.
LEMMA ShownType == ASSUME NEW r \in Nat, Shown(r) PROVE pc' = "off" /\ answer' \in Answers
<1> DEFINE net == IF r > SenseOhms THEN r - SenseOhms ELSE 0
<1>1. net \in Nat
  BY SMT DEF SenseOhms
<1>2. /\ pc' = "off"
      /\ answer' = IF net >= OpenLine THEN [ol |-> TRUE, ohms |-> 0] ELSE [ol |-> FALSE, ohms |-> net]
  BY Zenon DEF Shown
<1> HIDE DEF net
<1>3. CASE net >= OpenLine
  BY <1>2, <1>3, Limits DEF Answers
<1>4. CASE ~(net >= OpenLine)
  <2>1. net \in 0 .. OpenLine - 1
    BY <1>1, <1>4, Limits
  <2>. QED BY <1>2, <1>4, <2>1 DEF Answers
<1>. QED BY <1>2, <1>3, <1>4

\* A decision divides by a current only if it has one.
LEMMA DecideType ==
  ASSUME answer \in Answers, applied \in Scale, NEW v \in Scale, Decide(v)
  PROVE  pc' \in {"dac", "off"} /\ answer' \in Answers
<1>1. CASE pc' = "dac" /\ UNCHANGED answer
  BY <1>1
<1>2. CASE Shown(IF v = 0 \/ applied = 0 THEN 0 ELSE v \div applied)
  <2>1. (IF v = 0 \/ applied = 0 THEN 0 ELSE v \div applied) \in Nat
    BY Quotient, InScale
  <2>. QED BY <1>2, <2>1, ShownType
<1>. QED BY <1>1, <1>2 DEF Decide, NextTier

\* The measured current is a part of the code, the nominal one less than all of it.
LEMMA CalibratedType ==
  ASSUME tier \in Tiers, NEW m \in Scale, Calibrated(m)
  PROVE  applied' \in Scale /\ pc' = "input" /\ UNCHANGED answer
<1>1. CASE tier <= 2
  <2>1. tier \in {1, 2} /\ Amps[tier] \in Nat /\ Amps[tier] <= 10
    BY <1>1, Amperes DEF Tiers
  <2>. QED BY <1>1, <2>1, InScale, Limits DEF Calibrated, Reckoned
<1>2. CASE ~(tier <= 2)
  BY <1>2 DEF Calibrated, Reckoned
<1>. QED BY <1>1, <1>2

\* A reading leaves a current and an answer of their types.
LEMMA ReadingType ==
  ASSUME tier \in Tiers, answer \in Answers, applied \in Scale, NEW c \in Scale, Reading(c)
  PROVE  applied' \in Scale /\ answer' \in Answers /\ pc' \in {"input", "dac", "off"}
<1>1. CASE phase = "sense"
  <2>1. (c \div Divisor) \div SenseOhms \in Scale
    <3>1. c \in Nat /\ c <= FullScale
      BY InScale
    <3>2. (c \div Divisor) \div SenseOhms \in Nat /\ (c \div Divisor) \div SenseOhms <= c
      BY <3>1 DEF Divisor, SenseOhms
    <3>. QED BY <3>1, <3>2, InScale, Limits
  <2>2. Calibrated((c \div Divisor) \div SenseOhms)
    BY <1>1 DEF Reading
  <2>. QED BY <2>1, <2>2, CalibratedType
<1>2. CASE phase # "sense"
  BY <1>2, DecideType DEF Reading
<1>. QED BY <1>1, <1>2

\* So does what the buffer happens to hold.
LEMMA UnreadType ==
  ASSUME tier \in Tiers, answer \in Answers, applied \in Scale, Unread
  PROVE  applied' \in Scale /\ answer' \in Answers /\ pc' \in {"input", "dac", "off"}
BY ReadingType, GarbageAssumption DEF Unread, Scale

\* No voltage is negative.
LEMMA VoltsType ==
  ASSUME sel \in Selections, ohms \in Nat, NEW i \in Inputs
  PROVE  Volts(i) \in Nat
<1> DEFINE total   == ohms + SenseOhms
           limited == Current > FullScale \div total
           flowing == IF limited THEN FullScale \div total ELSE Current
<1>1. Current \in Nat
  BY Amperes, SMT DEF Current, Selections, Tiers
<1>2. total \in Nat \ {0} /\ FullScale \in Nat
  BY SMT DEF SenseOhms, FullScale
<1>3. FullScale \div total \in Nat
  BY <1>2, Quotient
<1>4. flowing \in Nat
  BY <1>1, <1>3
<1>5. \A a, b \in Nat : a * b \in Nat
  OBVIOUS
<1>6. flowing * SenseOhms \in Nat /\ flowing * total \in Nat
  BY <1>2, <1>4, <1>5 DEF SenseOhms
<1>7. Volts(i) = CASE i = "short" -> 0
                   [] i = "sense" -> flowing * SenseOhms
                   [] i = "input" -> IF limited THEN FullScale ELSE flowing * total
  BY DEF Volts
<1> HIDE DEF total, limited, flowing
<1>. QED BY <1>2, <1>6, <1>7 DEF Inputs

\* The converter: a code never leaves the scale, whatever the gain.
AdcInv == /\ adc.input \in Inputs /\ adc.gain \in {1, 2} /\ adc.code \in Scale
          /\ adc.converting \in BOOLEAN /\ adc.ready \in BOOLEAN

\* What the loop computes and prints, and how often it was disturbed.
LoopInv == pc \in Places /\ applied \in Scale /\ answer \in Answers
HistInv == /\ lost \in BOOLEAN /\ leftover \in BOOLEAN /\ disturbed \in BOOLEAN /\ lostBefore \in BOOLEAN
           /\ failures \in 0 .. MaxFailures /\ changes \in 0 .. MaxChanges
BoardInv == dac \in Codes /\ sel \in Selections /\ ohms \in Resistors

\* Every step keeps them.
LEMMA BoardStep == ShapeInv /\ BoardInv /\ [Next]_vars => BoardInv'
<1> SUFFICES ASSUME ShapeInv, BoardInv, [Next]_vars PROVE BoardInv'
  OBVIOUS
<1>1. CASE SetDac \/ Select \/ Off
  <2>1. DacCode[tier] \in Codes /\ tier \in Selections /\ 0 \in Selections
    BY DEF ShapeInv, Codes, Selections
  <2>. QED BY <1>1, <2>1 DEF BoardInv, SetDac, Select, Off, SetSource, source
<1>2. CASE Reconnect
  BY <1>2 DEF BoardInv, Reconnect, source
<1>3. CASE Measure \/ Convert \/ Lose \/ Short \/ Sense \/ Input \/ Start \/ Poll \/ Status \/ Rdata
           \/ Data \/ UNCHANGED vars
  BY <1>3 DEF BoardInv, Measure, Convert, Lose, Short, Sense, Input, Start, Poll, Rdata, Transmit, Status,
              Data, vars, source
<1>. QED BY <1>1, <1>2, <1>3 DEF Next, Main

LEMMA AdcStep == ShapeInv /\ BoardInv /\ AdcInv /\ [Next]_vars => AdcInv'
<1> SUFFICES ASSUME ShapeInv, BoardInv, AdcInv, [Next]_vars PROVE AdcInv'
  OBVIOUS
<1>1. IsAdc(adc)
  BY DEF ShapeInv, IsAdc
<1>2. CASE UNCHANGED adc
  BY <1>2 DEF AdcInv
<1>3. CASE Convert
  <2> DEFINE v    == Volts(adc.input) * adc.gain
             code == IF v > FullScale THEN FullScale ELSE v
  <2>1. Volts(adc.input) \in Nat /\ adc.gain \in {1, 2}
    BY VoltsType DEF AdcInv, BoardInv, ShapeInv
  <2>2. v \in Nat
    BY <2>1
  <2>3. adc' = [adc EXCEPT !.converting = FALSE, !.ready = TRUE, !.code = code]
    BY <1>3 DEF Convert
  <2> HIDE DEF v
  <2>4. code \in Scale
    BY <2>2, InScale, Limits
  <2> HIDE DEF code
  <2>. QED BY <1>1, <2>3, <2>4 DEF AdcInv, IsAdc
<1>4. ASSUME NEW i \in Inputs, NEW g \in {1, 2}, Configure(i, g) PROVE AdcInv'
  BY <1>1, <1>4 DEF Configure, Sent, AdcInv, IsAdc
<1>5. CASE Short \/ Sense \/ Input
  <2>1. SenseGain \in {1, 2} /\ 1 \in {1, 2}
    BY DEF SenseGain
  <2>2. {"short", "sense", "input"} \subseteq Inputs
    BY DEF Inputs
  <2>. QED BY <1>2, <1>4, <1>5, <2>1, <2>2
           DEF Short, Sense, Input, ConfigureInput, NotSent, InputFailed
<1>6. CASE Start \/ Poll \/ Rdata
  BY <1>1, <1>2, <1>6 DEF Start, Poll, Rdata, Transmit, Sent, NotSent, AdcInv, IsAdc
<1>7. CASE Status \/ Data
  BY <1>1, <1>2, <1>7 DEF Status, Data, Missed, AdcInv, IsAdc
<1>. QED BY <1>2, <1>3, <1>5, <1>6, <1>7
         DEF Next, Main, Measure, Reconnect, Lose, SetDac, Select, Off, vars

LEMMA LoopStep == ShapeInv /\ AdcInv /\ LoopInv /\ [Next]_vars => LoopInv'
<1> SUFFICES ASSUME ShapeInv, AdcInv, LoopInv, [Next]_vars PROVE LoopInv'
  OBVIOUS
<1>1. tier \in Tiers /\ answer \in Answers /\ applied \in Scale /\ adc.code \in Scale
  BY DEF ShapeInv, LoopInv, AdcInv
<1>2. 0 \in Scale
  BY InScale, Limits
<1>3. ASSUME applied' \in Scale, answer' \in Answers, pc' \in {"input", "dac", "off"} PROVE LoopInv'
  BY <1>3 DEF LoopInv, Places
<1>4. CASE Measure \/ Convert \/ Reconnect \/ Lose \/ SetDac \/ Select \/ Off \/ UNCHANGED vars
  BY <1>4 DEF LoopInv, Places, Measure, Convert, Reconnect, Lose, SetDac, Select, Off, vars, loopVars
<1>5. ASSUME Calibrated(0) PROVE LoopInv'
  BY <1>1, <1>2, <1>3, <1>5, CalibratedType
<1>6. CASE Short \/ Sense
  BY <1>5, <1>6 DEF LoopInv, Places, ReadSteps, Short, Sense
<1>7. CASE Input
  <2>1. CASE InputFailed
    BY <1>1, <1>2, <1>3, <2>1, DecideType DEF InputFailed
  <2>. QED BY <1>7, <2>1 DEF Input, LoopInv, Places, ReadSteps
<1>8. ASSUME Unread PROVE LoopInv'
  BY <1>1, <1>3, <1>8, UnreadType
<1>9. CASE Start \/ Poll \/ Rdata
  BY <1>8, <1>9 DEF Start, Poll, Rdata, Transmit, LoopInv, Places, ReadSteps
<1>10. CASE Status
  BY <1>8, <1>10 DEF Status, Missed, LoopInv, Places, ReadSteps
<1>11. CASE Data
  BY <1>1, <1>3, <1>8, <1>11, ReadingType DEF Data, Missed
<1>. QED BY <1>4, <1>6, <1>7, <1>9, <1>10, <1>11 DEF Next, Main

LEMMA HistStep == AdcInv /\ HistInv /\ [Next]_vars => HistInv'
<1> SUFFICES ASSUME AdcInv, HistInv, [Next]_vars PROVE HistInv'
  OBVIOUS
<1>1. lost' \in BOOLEAN
  BY DEF HistInv, Next, Main, Measure, Convert, Reconnect, Lose, SetDac, Select, Short, Sense, Input,
         Start, Poll, Rdata, Transmit, Status, Data, Off, vars
<1>2. leftover' \in BOOLEAN
  BY DEF HistInv, Next, Main, Measure, Convert, Reconnect, Lose, SetDac, Select, Short, Sense, Input,
         Start, Poll, Rdata, Transmit, Status, Data, Off, vars, SetSource, Unheard, Sent, NotSent, Configure,
         ConfigureInput, InputFailed
<1>3. disturbed' \in BOOLEAN /\ lostBefore' \in BOOLEAN
  BY DEF HistInv, AdcInv, Next, Main, Measure, Convert, Reconnect, Lose, SetDac, Select, Short, Sense,
         Input, Start, Poll, Rdata, Transmit, Status, Data, Missed, Off, vars, histVars,
         SetSource, Unheard, Sent, NotSent, Configure, ConfigureInput, InputFailed
<1>4. failures' = failures \/ (failures < MaxFailures /\ failures' = failures + 1)
  BY DEF Next, Main, Measure, Convert, Reconnect, Lose, SetDac, Select, Short, Sense, Input,
         Start, Poll, Rdata, Transmit, Status, Data, Missed, Off, vars, histVars,
         SetSource, Unheard, Sent, NotSent, Configure, ConfigureInput, InputFailed
<1>5. changes' = changes \/ (changes < MaxChanges /\ changes' = changes + 1)
  BY DEF Next, Main, Measure, Convert, Reconnect, Lose, SetDac, Select, Short, Sense, Input,
         Start, Poll, Rdata, Transmit, Status, Data, Missed, Off, vars, histVars,
         SetSource, Unheard, Sent, NotSent, Configure, ConfigureInput, InputFailed
<1>6. failures' \in 0 .. MaxFailures /\ changes' \in 0 .. MaxChanges
  BY <1>4, <1>5, BoundsAssumption DEF HistInv
<1>. QED BY <1>1, <1>2, <1>3, <1>6 DEF HistInv

\* Whatever the converter and its buffer do, no code leaves the scale, no current
\* is negative, nothing is divided by zero, and a printed resistance is below that
\* of an open line.
THEOREM TypeCorrect == Spec => []TypeOK
<1> DEFINE AllInv == ShapeInv /\ BoardInv /\ AdcInv /\ LoopInv /\ HistInv
<1>1. Init => AllInv
  <2> SUFFICES ASSUME Init PROVE AllInv
    OBVIOUS
  <2>1. ShapeInv
    BY ResistorsAssumption DEF Init, ShapeInv, Tiers
  <2>2. BoardInv
    BY DEF Init, BoardInv, Codes, Selections
  <2>3. AdcInv
    BY InScale, Limits DEF Init, AdcInv, Inputs
  <2>4. LoopInv
    BY InScale, Limits DEF Init, LoopInv, Places, Answers
  <2>5. HistInv
    <3>1. failures = 0 /\ changes = 0 /\ 0 \in 0 .. MaxFailures /\ 0 \in 0 .. MaxChanges
      BY BoundsAssumption DEF Init
    <3>. QED BY <3>1 DEF Init, HistInv
  <2>. QED BY <2>1, <2>2, <2>3, <2>4, <2>5
<1>2. AllInv /\ [Next]_vars => AllInv'
  BY ShapeStep, BoardStep, AdcStep, LoopStep, HistStep
<1>3. AllInv => TypeOK
  BY DEF ShapeInv, BoardInv, AdcInv, LoopInv, HistInv, TypeOK, Places, Answers, Scale
<1>. QED BY <1>1, <1>2, <1>3, PTL DEF Spec
=============================================================================
