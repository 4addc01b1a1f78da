------------------------------ MODULE MaiRatio ------------------------------
(***************************************************************************)
(* The ratio N/M that makes the audio clock of the HDMI output from the    *)
(* HSM clock (hdmi_audio_poc.c, choose_mai_ratio): one pass over M, for    *)
(* each the nearest N, and a comparison of the errors without a division.  *)
(***************************************************************************)
EXTENDS Naturals

CONSTANTS
  Clocks, Rates,   \* the clock and sample rates
  MaxN, MaxM       \* 2^24 - 1 and 256

RatioAssumption ==
  /\ Clocks \subseteq Nat \ {0} /\ Rates \subseteq Nat \ {0}
  /\ MaxN \in Nat \ {0} /\ MaxM \in Nat \ {0}

VARIABLES
  clock_rate, sample_rate,
  m,                             \* the next M, or beyond MaxM at the end
  chosen_n, chosen_m, best_error   \* chosen_m = 0: none yet

ratioVars == <<clock_rate, sample_rate, m, chosen_n, chosen_m, best_error>>

RatioInit ==
  /\ clock_rate \in Clocks /\ sample_rate \in Rates
  /\ m = 1 /\ chosen_n = 0 /\ chosen_m = 0 /\ best_error = 0

-----------------------------------------------------------------------------
\* Fault: the nearest N below.
NearestBelow(k) == (clock_rate * k) \div sample_rate
Nearest(k) == (clock_rate * k + sample_rate \div 2) \div sample_rate

InRange(n) == n # 0 /\ n <= MaxN

Distance(a, b) == IF a > b THEN a - b ELSE b - a
Error(n, k) == Distance(n * sample_rate, clock_rate * k)

\* Fault: the errors are compared without their denominators.
BetterPlain(err, k) == chosen_m = 0 \/ err < best_error
Better(err, k) == chosen_m = 0 \/ err * chosen_m < best_error * k

Searching == m <= MaxM /\ UNCHANGED <<clock_rate, sample_rate>>

Skip ==
  /\ Searching /\ ~(InRange(Nearest(m)) /\ Better(Error(Nearest(m), m), m))
  /\ m' = m + 1 /\ UNCHANGED <<chosen_n, chosen_m, best_error>>

\* An exact ratio ends the search.
Choose ==
  /\ Searching /\ InRange(Nearest(m)) /\ Better(Error(Nearest(m), m), m)
  /\ chosen_n' = Nearest(m) /\ chosen_m' = m /\ best_error' = Error(Nearest(m), m)
  /\ m' = IF best_error' = 0 THEN MaxM + 1 ELSE m + 1

ReturnRatio == m > MaxM /\ UNCHANGED ratioVars

RatioNext == Skip \/ Choose \/ ReturnRatio

RatioSpec == RatioInit /\ [][RatioNext]_ratioVars

-----------------------------------------------------------------------------
RatioTypeOK ==
  /\ clock_rate \in Clocks /\ sample_rate \in Rates
  /\ m \in 1 .. MaxM + 1 /\ chosen_m \in 0 .. MaxM
  /\ chosen_n \in 0 .. MaxN /\ (chosen_m # 0 => chosen_n # 0)
  /\ best_error \in Nat

(* "Find N/M ~= clock/sample_rate, with N in 24 bits and M in 1..256": no    *)
(* other ratio in these bounds is nearer, and those as near have a larger M, *)
(* so that the one chosen is in lowest terms.                                *)
NoneIsNearer ==
  m > MaxM /\ chosen_m # 0 =>
    \A n \in 1 .. MaxN, k \in 1 .. MaxM :
      /\ Error(n, k) * chosen_m >= Error(chosen_n, chosen_m) * k
      /\ Error(n, k) * chosen_m = Error(chosen_n, chosen_m) * k => chosen_m <= k

(* The search fails only if no N in the bounds is the nearest for any M: the *)
(* clock is beyond MaxN times the sample rate, or below it 2 * MaxM times.   *)
FailsOnlyOutOfRange ==
  m > MaxM /\ chosen_m = 0 =>
    2 * clock_rate >= (2 * MaxN + 1) * sample_rate \/ 2 * clock_rate * MaxM <= sample_rate

(* The ratio that is found is the nearest, and one is found if there is any. *)
RatioIsNearest == NoneIsNearer /\ FailsOnlyOutOfRange

=============================================================================
