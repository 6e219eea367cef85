----------------------------- MODULE DelayTimer -----------------------------
(***************************************************************************)
(* The microsecond clock of the board (delay_timer.c): a free-running      *)
(* counter of the hardware, an interrupt that counts its overflows, and    *)
(* Delay_Timer_Get, which puts the two together while both move.  The      *)
(* client is every timeout of the program: it takes a start time and calls *)
(* Delay_Timer_Get until now - start reaches the limit (i2c_common.c:36-43,*)
(* usb.c:159 and 245-250, adc_spi.c).                                      *)
(*                                                                         *)
(* An interrupt is taken before the main loop reads again: the model has   *)
(* no latency between the overflow and its handler.                        *)
(***************************************************************************)
EXTENDS Naturals

CONSTANTS
  Period,    \* counts of the hardware counter, 2^16
  Wrap,      \* values of overflowCount the result has room for, 2^16
  Laps,      \* how often overflowCount, of 32 bits, goes through them, 2^16
  Timeout    \* the limit of the client, in counts

ASSUME PeriodAssumption == Period \in Nat /\ Period >= 2
ASSUME WrapAssumption == Wrap \in Nat /\ Wrap >= 2
ASSUME LapsAssumption == Laps \in Nat /\ Laps >= 1
ASSUME TimeoutAssumption == Timeout \in 1 .. Period * Wrap - 1

VARIABLES
  count,          \* the hardware counter
  epoch,          \* the overflows there have been, as far as a time tells them
  flag,           \* pending ZERO interrupt
  overflowCount,  \* Delay_Timer.overflowCount
  pc,             \* where Delay_Timer_Get is, or "done"
  overflow1,      \* its local variables
  current,
  waiting,        \* FALSE while it fetches the start time, then TRUE
  start,          \* the start time of the client
  elapsed,        \* history: counts since the start time was read
  since,          \* history: overflows since overflow1 was read
  readEpoch,      \* history: the true epoch when current was read
  readElapsed     \* history: elapsed when current was read

clockVars == <<count, epoch, flag, overflowCount, since>>
localVars == <<overflow1, current, waiting, start, readEpoch, readElapsed>>
vars == <<clockVars, localVars, pc, elapsed>>

Turn == Period * Wrap

\* The values of overflowCount.
Counts == Laps * Wrap

\* A variant of Inc that saturates.
IncSaturating(n) == IF n = Counts - 1 THEN n ELSE n + 1

\* Unsigned increment.
Inc(n) == IF n = Counts - 1 THEN 0 ELSE n + 1

\* The value Delay_Timer_Get returns for an overflow count and a counter value:
\* the shift by 16 drops the upper half of the count.
Stamp(overflow, cur) == (overflow % Wrap) * Period + cur

\* A variant of Since without the wrap-around of unsigned subtraction.
SinceTruncated(now, begin) == IF now >= begin THEN now - begin ELSE 0

\* now - start in unsigned arithmetic.
Since(now, begin) == IF now >= begin THEN now - begin ELSE now + Turn - begin

TypeOK ==
  /\ count \in 0 .. Period - 1 /\ current \in 0 .. Period - 1
  /\ epoch \in 0 .. Wrap - 1 /\ overflowCount \in 0 .. Counts - 1
  /\ overflow1 \in 0 .. Counts - 1 /\ readEpoch \in 0 .. Wrap - 1
  /\ since \in 0 .. Wrap - 1
  /\ flag \in BOOLEAN /\ waiting \in BOOLEAN
  /\ pc \in {"overflow1", "current", "overflow2", "done"}
  /\ start \in 0 .. Turn - 1
  /\ elapsed \in 0 .. Turn - 1 /\ readElapsed \in 0 .. Turn - 1

\* The client begins at any time.
Init ==
  /\ count \in 0 .. Period - 1 /\ overflowCount \in 0 .. Counts - 1
  /\ epoch = overflowCount % Wrap /\ flag = FALSE
  /\ pc = "overflow1" /\ overflow1 = 0 /\ current = 0
  /\ waiting = FALSE /\ start = 0 /\ elapsed = 0
  /\ since = 0 /\ readEpoch = 0 /\ readElapsed = 0

\* One microsecond.  An overflow raises the interrupt, which is served before
\* the next overflow; a wait is over before the clock has gone a full turn
\* (71 minutes), and so is one pass of Delay_Timer_Get.
Tick ==
  /\ elapsed < Turn - 1
  /\ elapsed' = elapsed + 1
  /\ IF count < Period - 1
     THEN count' = count + 1 /\ UNCHANGED <<epoch, flag, since>>
     ELSE /\ ~flag /\ since < Wrap - 1
          /\ count' = 0 /\ flag' = TRUE
          /\ epoch' = IF epoch = Wrap - 1 THEN 0 ELSE epoch + 1
          /\ since' = since + 1
  /\ UNCHANGED <<overflowCount, localVars, pc>>

\* Delay_Timer_IRQ
Overflow ==
  /\ flag
  /\ flag' = FALSE
  /\ overflowCount' = Inc(overflowCount)
  /\ UNCHANGED <<count, epoch, since, localVars, pc, elapsed>>

\* The first read of overflowCount.
ReadOverflow1 ==
  /\ pc = "overflow1" /\ ~flag
  /\ overflow1' = overflowCount
  /\ since' = 0
  /\ pc' = "current"
  /\ UNCHANGED <<count, epoch, flag, overflowCount, elapsed,
                 current, waiting, start, readEpoch, readElapsed>>

\* The read of the counter, the moment whose time is returned.
ReadCurrent ==
  /\ pc = "current" /\ ~flag
  /\ current' = count
  /\ pc' = "overflow2"
  /\ readEpoch' = epoch
  /\ elapsed' = IF waiting THEN elapsed ELSE 0
  /\ readElapsed' = elapsed'
  /\ UNCHANGED <<clockVars, overflow1, waiting, start>>

\* A variant of Torn that accepts any second read.
TornNever == FALSE

\* The counter overflowed between the two reads of overflowCount.
Torn == overflow1 # overflowCount

\* The second read of overflowCount: read again when torn, otherwise the client
\* takes the result as its start time, or compares it with it.
ReadOverflow2 ==
  /\ pc = "overflow2" /\ ~flag
  /\ LET now == Stamp(overflow1, current) IN
     \/ Torn /\ pc' = "overflow1" /\ UNCHANGED <<waiting, start>>
     \/ ~Torn /\ ~waiting /\ pc' = "overflow1" /\ waiting' = TRUE /\ start' = now
     \/ /\ ~Torn /\ waiting
        /\ pc' = IF Since(now, start) >= Timeout THEN "done" ELSE "overflow1"
        /\ UNCHANGED <<waiting, start>>
  /\ UNCHANGED <<clockVars, overflow1, current, readEpoch, readElapsed, elapsed>>

\* The client may begin another wait.
Again ==
  /\ pc = "done"
  /\ pc' = "overflow1" /\ waiting' = FALSE
  /\ elapsed' = 0
  /\ UNCHANGED <<clockVars, overflow1, current, start, readEpoch, readElapsed>>

Main == ReadOverflow1 \/ ReadCurrent \/ ReadOverflow2

Next == Tick \/ Overflow \/ Main \/ Again

Spec == Init /\ [][Next]_vars

\* Time passes, the interrupt is served, and the client runs between two
\* interrupts.
FairSpec == Spec /\ WF_vars(Tick) /\ WF_vars(Overflow) /\ SF_vars(Main)

-----------------------------------------------------------------------------
(* Properties                                                              *)

\* A result that is not read again is the time at which the counter was read:
\* the two halves belong together, whatever overflowed meanwhile
\* (delay_timer.c:94-107).
GetExact ==
  pc = "overflow2" /\ ~flag /\ ~Torn
  => Stamp(overflow1, current) = Stamp(readEpoch, current)

\* No timeout of the program fires early, across overflows of the counter and
\* the wrap-around of the 32-bit time (i2c_common.c:39, usb.c:250).
NotEarly == pc = "done" => readElapsed >= Timeout

\* Nor does one fire late: when the client decides to go on, the limit had not
\* been reached at the moment it read the time.
NotLate == [][pc = "overflow2" /\ waiting /\ ~Torn /\ pc' = "overflow1"
              => readElapsed < Timeout]_vars

\* Every wait ends.
WaitEnds == waiting ~> pc = "done"
=============================================================================
