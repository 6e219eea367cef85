-------------------------- MODULE DelayTimerProofs --------------------------
(***************************************************************************)
(* Delay_Timer_Get returns the time of its counter read, and no timeout    *)
(* fires early or late, for every width of the counter, of the time and of *)
(* the overflow count, which is wider than the time has room for.          *)
(***************************************************************************)
EXTENDS DelayTimer, Integers, TLAPS

\* n overflows after a, and d counts after t, in unsigned arithmetic.
EpochAfter(a, n) == IF a + n < Wrap THEN a + n ELSE a + n - Wrap
TimeAfter(t, d)  == IF t + d < Turn THEN t + d ELSE t + d - Turn

\* The time of an epoch and a counter value, and the true one.
Time(e, c) == e * Period + c
Now == Time(epoch, count)

\* The handler is at most one overflow behind.
NextEpoch(e) == IF e = Wrap - 1 THEN 0 ELSE e + 1

ClockInv == /\ ~flag => epoch = overflowCount % Wrap
            /\ flag => epoch = NextEpoch(overflowCount % Wrap)

\* What the two reads so far say about the overflows between them.
ReadInv ==
  /\ pc \in {"current", "overflow2"} => epoch = EpochAfter(overflow1 % Wrap, since)
  /\ pc = "overflow2" /\ since = 0 => readEpoch = overflow1 % Wrap

\* elapsed is what has passed since the start time.
WaitInv ==
  /\ waiting => Now = TimeAfter(start, elapsed)
  /\ pc = "overflow2" /\ ~waiting => Now = TimeAfter(Time(readEpoch, current), elapsed)
  /\ pc = "overflow2" /\ waiting => Time(readEpoch, current) = TimeAfter(start, readElapsed)

\* The parts of TypeOK, for the prover that knows each: the Boolean variables ...
BooleansOK == flag \in BOOLEAN /\ waiting \in BOOLEAN

\* ... and the numbers.
NumbersOK ==
  /\ count \in 0 .. Period - 1 /\ current \in 0 .. Period - 1
  /\ epoch \in 0 .. Wrap - 1 /\ overflowCount \in 0 .. Counts - 1
  /\ overflow1 \in 0 .. Counts - 1 /\ readEpoch \in 0 .. Wrap - 1
  /\ since \in 0 .. Wrap - 1
  /\ pc \in {"overflow1", "current", "overflow2", "done"}
  /\ start \in 0 .. Turn - 1
  /\ elapsed \in 0 .. Turn - 1 /\ readElapsed \in 0 .. Turn - 1

Inv == TypeOK /\ ClockInv /\ ReadInv /\ WaitInv /\ NotEarly

\* Times stay below the full turn, and the next time is one count later.
LEMMA TimeRange ==
  ASSUME NEW e \in 0 .. Wrap - 1, NEW c \in 0 .. Period - 1
  PROVE  Time(e, c) \in 0 .. Turn - 1
<1>1. e * Period <= (Wrap - 1) * Period /\ (Wrap - 1) * Period = Turn - Period
  BY PeriodAssumption, WrapAssumption DEF Turn
<1>2. e * Period \in Nat /\ Turn \in Nat
  BY PeriodAssumption, WrapAssumption DEF Turn
<1>. QED BY <1>1, <1>2, PeriodAssumption DEF Time

LEMMA TimeNext ==
  ASSUME NEW e \in 0 .. Wrap - 1
  PROVE  /\ e < Wrap - 1 => Time(e + 1, 0) = Time(e, Period - 1) + 1
         /\ e = Wrap - 1 => Time(e, Period - 1) + 1 = Turn /\ Time(0, 0) = 0
<1>1. (e + 1) * Period = e * Period + Period
  BY PeriodAssumption, WrapAssumption
<1>2. 0 * Period = 0 /\ e * Period \in Nat
  BY PeriodAssumption, WrapAssumption
<1>3. e = Wrap - 1 => Wrap * Period = e * Period + Period
  BY <1>1, WrapAssumption
<1>4. Period * Wrap = Wrap * Period
  BY PeriodAssumption, WrapAssumption
<1>. QED BY <1>1, <1>2, <1>3, <1>4, PeriodAssumption, WrapAssumption DEF Time, Turn

\* Division with remainder, and that the remainder is the only one.
LEMMA DivMod ==
  ASSUME NEW n \in Nat, NEW w \in Nat \ {0}
  PROVE  /\ n % w \in 0 .. w - 1 /\ n \div w \in Nat
         /\ n = w * (n \div w) + (n % w)
  OBVIOUS

LEMMA ModUnique ==
  ASSUME NEW q \in Nat, NEW r \in Nat, NEW w \in Nat \ {0}, r < w
  PROVE  (w * q + r) % w = r
<1> DEFINE n == w * q + r
<1>0. n \in Nat
  OBVIOUS
<1>1. /\ n % w \in 0 .. w - 1 /\ n \div w \in Nat
      /\ n = w * (n \div w) + (n % w)
  BY <1>0, DivMod
<1>2. CASE n \div w = q
  BY <1>1, <1>2
<1>3. CASE n \div w >= q + 1
  <2>1. w * (n \div w) >= w * (q + 1)
    BY <1>1, <1>3
  <2>2. w * (q + 1) = w * q + w
    OBVIOUS
  <2>3. w * q \in Nat /\ w * (q+1) \in Nat /\ w * (n \div w) \in Nat
    BY <1>1
  <2>. HIDE DEF n
  <2>4. n = w * q + r
    BY DEF n
  <2>. QED BY <1>1, <2>1, <2>2, <2>3, <2>4
<1>4. CASE n \div w <= q - 1
  <2>1. w * (n \div w) <= w * (q - 1)
    BY <1>1, <1>4
  <2>2. w * (q - 1) = w * q - w
    OBVIOUS
  <2>3. w * q \in Int /\ w * (q-1) \in Int /\ w * (n \div w) \in Int
    BY <1>1
  <2>. HIDE DEF n
  <2>4. n = w * q + r
    BY DEF n
  <2>. QED BY <1>1, <2>1, <2>2, <2>3, <2>4
<1>. QED BY <1>1, <1>2, <1>3, <1>4

LEMMA CountsNat == Counts \in Nat /\ Counts >= 1
<1>1. Laps * Wrap \in Nat /\ Laps * Wrap >= 1
  BY WrapAssumption, LapsAssumption
<1>. QED BY <1>1 DEF Counts

\* The time sees the increment of overflowCount as one of the epoch, also where
\* the count itself wraps.
LEMMA IncEpoch ==
  ASSUME NEW n \in 0 .. Counts - 1
  PROVE  /\ n % Wrap \in 0 .. Wrap - 1 /\ Inc(n) \in 0 .. Counts - 1
         /\ Inc(n) % Wrap = NextEpoch(n % Wrap)
<1> DEFINE q == n \div Wrap
           r == n % Wrap
<1>1. Counts \in Nat /\ Counts >= 1 /\ Wrap \in Nat /\ Wrap >= 2
  BY CountsNat, WrapAssumption
<1>2. r \in 0 .. Wrap - 1 /\ q \in Nat /\ n = Wrap * q + r
  <2>1. n \in Nat /\ Wrap \in Nat \ {0}
    BY <1>1
  <2>. QED BY <2>1, DivMod
<1>3. Inc(n) \in 0 .. Counts - 1
  BY <1>1 DEF Inc
<1>4. CASE n = Counts - 1
  <2>1. Counts = Wrap * (Laps - 1) + Wrap
    BY WrapAssumption, LapsAssumption DEF Counts
  <2>2. n = Wrap * (Laps - 1) + (Wrap - 1)
    BY <1>4, <2>1, WrapAssumption, LapsAssumption
  <2>3. n % Wrap = Wrap - 1
    BY <2>2, ModUnique, WrapAssumption, LapsAssumption
  <2>4. (Wrap * 0 + 0) % Wrap = 0
    BY ModUnique, WrapAssumption
  <2>5. 0 % Wrap = 0
    BY <2>4, WrapAssumption
  <2>. QED BY <1>1, <1>3, <1>4, <2>3, <2>5 DEF Inc, NextEpoch
<1>5. CASE n # Counts - 1 /\ r # Wrap - 1
  <2> HIDE DEF q, r
  <2>1. n + 1 = Wrap * q + (r + 1)
    <3>1. Wrap * q \in Nat
      BY <1>1, <1>2
    <3>. QED BY <1>2, <3>1
  <2>2. (Wrap * q + (r + 1)) % Wrap = r + 1
    BY <1>1, <1>2, <1>5, ModUnique
  <2>3. Inc(n) = n + 1
    BY <1>5 DEF Inc
  <2>4. Inc(n) % Wrap = r + 1
    BY <2>1, <2>2, <2>3
  <2>. QED BY <1>2, <1>3, <1>5, <2>4 DEF NextEpoch, r
<1>6. CASE n # Counts - 1 /\ r = Wrap - 1
  <2> HIDE DEF q, r
  <2>1. n + 1 = Wrap * (q + 1) + 0
    <3>1. Wrap * q \in Nat /\ Wrap * (q + 1) = Wrap * q + Wrap
      BY <1>1, <1>2
    <3>. QED BY <1>1, <1>2, <1>6, <3>1
  <2>2. (Wrap * (q + 1) + 0) % Wrap = 0
    BY <1>1, <1>2, ModUnique
  <2>3. Inc(n) = n + 1
    BY <1>6 DEF Inc
  <2>4. Inc(n) % Wrap = 0
    BY <2>1, <2>2, <2>3
  <2>. QED BY <1>2, <1>3, <1>6, <2>4 DEF NextEpoch, r
<1>. QED BY <1>4, <1>5, <1>6

\* A stamp is the time of the epoch that the count shows.
LEMMA StampTime ==
  ASSUME NEW n \in 0 .. Counts - 1, NEW c
  PROVE  Stamp(n, c) = Time(n % Wrap, c)
  BY DEF Stamp, Time

LEMMA StampRange ==
  ASSUME NEW n \in 0 .. Counts - 1, NEW c \in 0 .. Period - 1
  PROVE  Stamp(n, c) \in 0 .. Turn - 1
  BY StampTime, IncEpoch, TimeRange

LEMMA StampEpoch ==
  ASSUME NEW e \in 0 .. Wrap - 1, NEW c
  PROVE  Stamp(e, c) = Time(e, c)
<1>1. (Wrap * 0 + e) % Wrap = e
  BY ModUnique, WrapAssumption
<1>2. e % Wrap = e
  BY <1>1, WrapAssumption
<1>. QED BY <1>2 DEF Stamp, Time

LEMMA TurnNat == Turn \in Nat /\ Turn >= 4 /\ Timeout \in 1 .. Turn - 1
<1>1. Period * Wrap >= 4
  BY PeriodAssumption, WrapAssumption
<1>. QED BY <1>1, PeriodAssumption, WrapAssumption, TimeoutAssumption DEF Turn

LEMMA TypeParts == (TypeOK <=> BooleansOK /\ NumbersOK) /\ (TypeOK' <=> BooleansOK' /\ NumbersOK')
  BY Zenon DEF TypeOK, BooleansOK, NumbersOK

LEMMA InitInv == Init => Inv
<1> SUFFICES ASSUME Init PROVE Inv
  OBVIOUS
<1>1. TypeOK
  <2>1. BooleansOK
    BY DEF Init, BooleansOK
  <2>2. NumbersOK
    <3>1. epoch \in 0 .. Wrap - 1 /\ overflowCount \in 0 .. Counts - 1
      BY IncEpoch DEF Init
    <3>. QED BY <3>1, PeriodAssumption, WrapAssumption, CountsNat, TurnNat DEF Init, NumbersOK
  <2>. QED BY <2>1, <2>2, TypeParts
<1>. QED BY <1>1 DEF Init, Inv, ClockInv, ReadInv, WaitInv, NotEarly

LEMMA TickInv == Inv /\ Tick => Inv'
<1> SUFFICES ASSUME Inv, Tick PROVE Inv'
  OBVIOUS
<1> USE PeriodAssumption, WrapAssumption, TurnNat DEF Inv
<1>1. TypeOK'
  <2>1. BooleansOK'
    BY TypeParts, Zenon DEF Tick, localVars, BooleansOK
  <2>2. NumbersOK'
    BY TypeParts DEF NumbersOK, Tick, clockVars, localVars
  <2>. QED BY <2>1, <2>2, TypeParts
<1>2. ClockInv'
  BY DEF TypeOK, Tick, ClockInv, NextEpoch, localVars
<1>3. ReadInv'
  BY DEF TypeOK, Tick, ReadInv, EpochAfter, localVars
<1>4. Now' = TimeAfter(Now, 1)
  <2>1. CASE count < Period - 1
    <3>1. epoch' = epoch /\ count' = count + 1 /\ epoch \in 0 .. Wrap - 1 /\ count \in 0 .. Period - 1
      BY <2>1 DEF Tick, TypeOK
    <3>2. Time(epoch, count + 1) = Time(epoch, count) + 1
      BY <3>1 DEF Time
    <3>3. Time(epoch, count + 1) \in 0 .. Turn - 1
      BY <2>1, <3>1, TimeRange
    <3>. QED BY <3>1, <3>2, <3>3 DEF Now, TimeAfter
  <2>2. CASE ~(count < Period - 1)
    <3>1. /\ epoch \in 0 .. Wrap - 1 /\ count = Period - 1 /\ count' = 0
          /\ epoch' = IF epoch = Wrap - 1 THEN 0 ELSE epoch + 1
      BY <2>2 DEF Tick, TypeOK
    <3>2. Time(epoch, count) \in 0 .. Turn - 1
      BY <3>1, TimeRange
    <3>3. CASE epoch = Wrap - 1
      BY <3>1, <3>2, <3>3, TimeNext DEF Now, TimeAfter
    <3>4. CASE epoch # Wrap - 1
      <4>1. Time(epoch + 1, 0) \in 0 .. Turn - 1
        BY <3>1, <3>4, TimeRange
      <4>. QED BY <3>1, <3>2, <3>4, <4>1, TimeNext DEF Now, TimeAfter
    <3>. QED BY <3>3, <3>4
  <2>. QED BY <2>1, <2>2
<1>5. WaitInv'
  <2>1. /\ elapsed' = elapsed + 1 /\ elapsed < Turn - 1 /\ elapsed \in Nat
        /\ start \in 0 .. Turn - 1
        /\ UNCHANGED <<current, waiting, start, readEpoch, readElapsed, pc>>
    BY DEF Tick, TypeOK, localVars
  <2>2. Time(readEpoch, current) \in 0 .. Turn - 1
    BY TimeRange DEF TypeOK
  <2>3. \A t \in 0 .. Turn - 1 : TimeAfter(TimeAfter(t, elapsed), 1) = TimeAfter(t, elapsed + 1)
    BY <2>1 DEF TimeAfter
  <2>4. Time(readEpoch, current)' = Time(readEpoch, current)
    BY <2>1 DEF Time
  <2>. QED BY <1>4, <2>1, <2>2, <2>3, <2>4 DEF WaitInv
<1>6. NotEarly'
  BY DEF Tick, NotEarly, localVars
<1>. QED BY <1>1, <1>2, <1>3, <1>5, <1>6

\* A pass that is not torn has seen no overflow: the counter was read in the
\* epoch that overflow1 names.
LEMMA InvExact == Inv => GetExact
<1> SUFFICES ASSUME Inv, pc = "overflow2", ~flag, ~Torn
             PROVE  Stamp(overflow1, current) = Stamp(readEpoch, current)
  BY DEF GetExact
<1> USE DEF Inv
<1>1. overflow1 % Wrap \in 0 .. Wrap - 1 /\ readEpoch \in 0 .. Wrap - 1
  BY IncEpoch DEF TypeOK
<1>2. overflow1 % Wrap = EpochAfter(overflow1 % Wrap, since)
  BY DEF ClockInv, ReadInv, Torn
<1>3. since = 0
  <2>1. since \in 0 .. Wrap - 1
    BY DEF TypeOK
  <2>. QED BY <1>1, <1>2, <2>1, WrapAssumption DEF EpochAfter
<1>4. Stamp(overflow1, current) = Time(overflow1 % Wrap, current)
  BY StampTime DEF TypeOK
<1>. QED BY <1>1, <1>3, <1>4, StampEpoch DEF ReadInv

\* Unsigned subtraction gives the time that has passed.
LEMMA SinceExact ==
  ASSUME NEW t \in 0 .. Turn - 1, NEW d \in 0 .. Turn - 1
  PROVE  Since(TimeAfter(t, d), t) = d
  BY TurnNat DEF Since, TimeAfter

LEMMA MainInv == Inv /\ (Main \/ Overflow \/ Again) => Inv'
<1> SUFFICES ASSUME Inv, Main \/ Overflow \/ Again PROVE Inv'
  OBVIOUS
<1> USE PeriodAssumption, WrapAssumption, TurnNat DEF Inv
<1>1. CASE ReadOverflow1
  <2>1. TypeOK'
    BY <1>1 DEF TypeOK, ReadOverflow1
  <2>2. ClockInv' /\ NotEarly'
    BY <1>1 DEF ClockInv, NotEarly, ReadOverflow1
  <2>3. ReadInv'
    BY <1>1 DEF TypeOK, ClockInv, ReadInv, EpochAfter, ReadOverflow1
  <2>4. WaitInv'
    BY <1>1 DEF WaitInv, Now, ReadOverflow1
  <2>. QED BY <2>1, <2>2, <2>3, <2>4
<1>2. CASE ReadCurrent
  <2>1. TypeOK'
    BY <1>2 DEF TypeOK, ReadCurrent, clockVars
  <2>2. ClockInv' /\ NotEarly'
    BY <1>2 DEF ClockInv, NotEarly, ReadCurrent, clockVars
  <2>3. ReadInv'
    BY <1>2 DEF TypeOK, ReadInv, EpochAfter, ReadCurrent, clockVars
  <2>4. WaitInv'
    <3>1. Time(epoch, count) \in 0 .. Turn - 1
      BY TimeRange DEF TypeOK
    <3>2. TimeAfter(Time(epoch, count), 0) = Time(epoch, count)
      BY <3>1 DEF TimeAfter
    <3>3. /\ readEpoch' = epoch /\ current' = count /\ epoch' = epoch /\ count' = count
          /\ elapsed' = (IF waiting THEN elapsed ELSE 0) /\ readElapsed' = elapsed'
          /\ waiting' = waiting /\ start' = start /\ pc' = "overflow2"
      BY <1>2 DEF ReadCurrent, clockVars
    <3>4. Now' = Now /\ Time(readEpoch, current)' = Now
      BY <3>3 DEF Now, Time
    <3>. QED BY <3>2, <3>3, <3>4 DEF WaitInv, Now
  <2>. QED BY <2>1, <2>2, <2>3, <2>4
<1>3. CASE ReadOverflow2
  <2> DEFINE now == Stamp(overflow1, current)
  <2>0. /\ UNCHANGED <<count, epoch, flag, overflowCount, since, overflow1, current,
                       readEpoch, readElapsed, elapsed>>
        /\ pc = "overflow2" /\ ~flag
        /\ pc' \in {"overflow1", "done"}
    BY <1>3 DEF ReadOverflow2, clockVars
  <2>1. now \in 0 .. Turn - 1
    BY StampRange DEF TypeOK
  <2>2. TypeOK'
    BY <1>3, <2>0, <2>1 DEF TypeOK, ReadOverflow2
  <2>3. ClockInv' /\ ReadInv'
    BY <2>0 DEF ClockInv, ReadInv
  <2>4. ~Torn => now = Time(readEpoch, current)
    BY <2>0, InvExact, StampEpoch DEF GetExact, TypeOK
  <2>5. Now' = Now
    BY <2>0 DEF Now, Time
  <2>6. CASE Torn \/ ~waiting
    <3>1. NotEarly'
      BY <1>3, <2>6 DEF ReadOverflow2, NotEarly
    <3>2. WaitInv'
      BY <1>3, <2>0, <2>4, <2>5, <2>6 DEF ReadOverflow2, WaitInv
    <3>. QED BY <2>2, <2>3, <3>1, <3>2
  <2>7. CASE ~Torn /\ waiting
    <3>1. waiting' = waiting /\ start' = start
          /\ pc' = (IF Since(now, start) >= Timeout THEN "done" ELSE "overflow1")
      BY <1>3, <2>7 DEF ReadOverflow2
    <3>2. now = TimeAfter(start, readElapsed)
      BY <2>0, <2>4, <2>7 DEF WaitInv
    <3>3. Since(now, start) = readElapsed
      BY <3>2, SinceExact DEF TypeOK
    <3>4. NotEarly'
      BY <2>0, <3>1, <3>3 DEF NotEarly
    <3>5. WaitInv'
      BY <2>0, <2>5, <3>1 DEF WaitInv
    <3>. QED BY <2>2, <2>3, <3>4, <3>5
  <2>. QED BY <2>6, <2>7
<1>4. CASE Overflow
  <2>1. TypeOK'
    <3>1. BooleansOK'
      BY <1>4, TypeParts, Zenon DEF Overflow, localVars, BooleansOK
    <3>2. NumbersOK'
      <4>1. Inc(overflowCount) \in 0 .. Counts - 1
        BY IncEpoch DEF TypeOK
      <4>. QED BY <1>4, <4>1, TypeParts DEF NumbersOK, Overflow, localVars
    <3>. QED BY <3>1, <3>2, TypeParts
  <2>2. ClockInv'
    BY <1>4, IncEpoch DEF ClockInv, Overflow, TypeOK
  <2>3. ReadInv' /\ WaitInv' /\ NotEarly'
    BY <1>4 DEF ReadInv, WaitInv, NotEarly, Now, Overflow, localVars
  <2>. QED BY <2>1, <2>2, <2>3
<1>5. CASE Again
  <2>1. TypeOK'
    <3>1. BooleansOK'
      BY <1>5, TypeParts, Zenon DEF Again, clockVars, BooleansOK
    <3>2. NumbersOK'
      BY <1>5, TypeParts DEF NumbersOK, Again, clockVars
    <3>. QED BY <3>1, <3>2, TypeParts
  <2>2. ClockInv' /\ ReadInv' /\ WaitInv' /\ NotEarly'
    BY <1>5 DEF ClockInv, ReadInv, WaitInv, NotEarly, Again, clockVars
  <2>. QED BY <2>1, <2>2
<1>. QED BY <1>1, <1>2, <1>3, <1>4, <1>5 DEF Main

LEMMA StutterInv == Inv /\ UNCHANGED vars => Inv'
<1> SUFFICES ASSUME Inv, UNCHANGED vars PROVE Inv'
  OBVIOUS
<1>. QED BY DEF Inv, TypeOK, ClockInv, ReadInv, WaitInv, NotEarly, Now, vars, clockVars, localVars

LEMMA Invariance == Spec => []Inv
<1>1. Inv /\ [Next]_vars => Inv'
  BY TickInv, MainInv, StutterInv DEF Next
<1>. QED BY InitInv, <1>1, PTL DEF Spec

\* The overflow re-read makes every result of Delay_Timer_Get the time at which
\* its counter was read.
THEOREM GetIsExact == Spec => []GetExact
  BY InvExact, Invariance, PTL

\* No timeout of the program fires early.
THEOREM TimeoutsNotEarly == Spec => []NotEarly
<1>1. Inv => NotEarly
  BY DEF Inv
<1>. QED BY <1>1, Invariance, PTL

\* Nor does one fire late: the client goes on only if the limit had not been
\* reached at the moment Delay_Timer_Get read the counter.
THEOREM TimeoutsNotLate == Spec => NotLate
<1>1. ASSUME Inv, [Next]_vars, pc = "overflow2", waiting, ~Torn, pc' = "overflow1"
      PROVE  readElapsed < Timeout
  <2>1. ReadOverflow2
    BY <1>1 DEF Next, Main, Tick, Overflow, ReadOverflow1, ReadCurrent, Again, vars, localVars
  <2>2. ~flag /\ ~(Since(Stamp(overflow1, current), start) >= Timeout)
    BY <1>1, <2>1 DEF ReadOverflow2
  <2>3. Stamp(overflow1, current) = TimeAfter(start, readElapsed)
    BY <1>1, <2>2, InvExact, StampEpoch DEF Inv, GetExact, WaitInv, TypeOK
  <2>4. start \in 0 .. Turn - 1 /\ readElapsed \in 0 .. Turn - 1
    BY <1>1 DEF Inv, TypeOK
  <2>5. Since(Stamp(overflow1, current), start) = readElapsed
    BY <2>3, <2>4, SinceExact
  <2>. QED BY <2>2, <2>4, <2>5, TurnNat
<1>2. Inv /\ [Next]_vars => [pc = "overflow2" /\ waiting /\ ~Torn /\ pc' = "overflow1"
                             => readElapsed < Timeout]_vars
  BY <1>1
<1>. QED BY <1>2, Invariance, PTL DEF Spec, NotLate
=============================================================================
