------------------------------- MODULE Detector -------------------------------
(***************************************************************************)
(* The degradation detector of a process (src/signal/degradation.ts): for  *)
(* each cohort of method and issuer the attempts of its window, the        *)
(* success rate that it has learnt to expect, and how many windows in a    *)
(* row fell short of it.                                                   *)
(*                                                                         *)
(* Rates are per cent, rounded.  The comparison with the upper end of a    *)
(* Wilson interval is exact in whole numbers: a rate b is above it when    *)
(* n (b - p)^2 > z^2 b (1 - b).  The baseline of an hour of the day needs  *)
(* windows on as many days as the warm-up has windows, which is longer     *)
(* than any run of the model; only the cohort's own is here.  The onset of *)
(* an incident (cusum) is reported and decides nothing; it is left out.    *)
(***************************************************************************)
EXTENDS Integers, FiniteSetsExt, Functions

CONSTANTS
  WINDOW, RETENTION,   \* DETECTOR_WINDOW_MS and DETECTOR_RETENTION_MS
  MIN_VOLUME,          \* DETECTOR_MIN_VOLUME
  WARMUP,              \* baselineWarmupWindows
  CONSECUTIVE,         \* consecutiveWindowsToAlert
  DROP,                \* dropThreshold, in per cent
  Z2                   \* the square of significanceZ, in hundredths

ASSUME DetectorAssumption ==
  /\ {WINDOW, RETENTION, WARMUP, DROP, Z2} \subseteq Nat
  /\ {MIN_VOLUME, CONSECUTIVE} \subseteq Nat \ {0}

\* Attempts are counted by the hour in which they are made.
NewCohort == [made |-> <<>>, rate |-> 0, samples |-> 0, suspect |-> FALSE, inARow |-> 0]

CountsAt(c, at) == IF at \in DOMAIN c.made THEN c.made[at] ELSE [n |-> 0, s |-> 0]

observe(c, at, n, s) ==
  [c EXCEPT !.made = [t \in DOMAIN @ \cup {at} |->
     IF t = at THEN [n |-> CountsAt(c, at).n + n, s |-> CountsAt(c, at).s + s] ELSE @[t]]]

InWindow(c, at) == {t \in DOMAIN c.made : t >= at - WINDOW /\ t <= at}
Attempts(c, at) == MapThenSumSet(LAMBDA t : c.made[t].n, InWindow(c, at))
Successes(c, at) == MapThenSumSet(LAMBDA t : c.made[t].s, InWindow(c, at))

Square(i) == i * i

\* With n attempts, s successes and an expected rate.
FallsShort(n, s, rate) ==
  /\ n >= MIN_VOLUME
  /\ 100 * Square(rate * n - 100 * s) > Z2 * rate * (100 - rate) * n
  /\ rate * n - 100 * s > DROP * n

Warm(c) == c.samples >= WARMUP

\* A slip: a window that is well does not end the row.
JudgedAll(c, short) == [c EXCEPT !.suspect = short, !.inARow = IF short THEN @ + 1 ELSE @]

Judged(c, short) ==
  [c EXCEPT !.suspect = short, !.inARow = IF short THEN @ + 1 ELSE 0]

evaluate(c, at) ==
  Judged(c, Warm(c) /\ FallsShort(Attempts(c, at), Successes(c, at), c.rate))

Rounded(a, b) == (2 * a + b) \div (2 * b)

\* The first window counts in full, the next ones by ewmaAlpha, a fifth.
Learnt(c, rate) ==
  [c EXCEPT !.rate = IF c.samples = 0 THEN rate ELSE Rounded(4 * @ + rate, 5),
            !.samples = @ + 1]

\* A slip: a window that fell short is learnt as well.
learnBaselinesAlways(c, at) ==
  IF Attempts(c, at) < MIN_VOLUME THEN c
  ELSE Learnt(c, Rounded(100 * Successes(c, at), Attempts(c, at)))

learnBaselines(c, at) ==
  IF Attempts(c, at) < MIN_VOLUME \/ c.suspect THEN c
  ELSE Learnt(c, Rounded(100 * Successes(c, at), Attempts(c, at)))

prune(c, before) == [c EXCEPT !.made = Restrict(@, {t \in DOMAIN @ : t >= before})]

\* What a tick makes of a cohort; the attempts that are too old go last.
Sensed(c, at) == prune(learnBaselines(evaluate(c, at), at), at - RETENTION)

Degraded(c) == c.inARow >= CONSECUTIVE

=============================================================================
