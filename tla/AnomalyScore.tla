--------------------------- MODULE AnomalyScore ---------------------------
(***************************************************************************)
(* The rule-based scores of app/api/anomaly_detect.py, in hundredths.  The *)
(* three functions are one, applied to three bands of app/shared/config.py.*)
(* Inputs are whole: exact for volumes, units of currency for amounts; with*)
(* the bands of the program the quotient then needs no rounding.           *)
(***************************************************************************)
EXTENDS Integers

CONSTANT Bands  \* the bands in use: records of min and max

ASSUME BandsAssumption ==
  \A b \in Bands : b.min \in Nat /\ b.max \in Nat \ {0} /\ b.min <= b.max

Normal == 10

InBand(b, value) == b.min <= value /\ value <= b.max

Deviation(b, value) == IF value < b.min THEN b.min - value ELSE value - b.max

\* Mutant: what is missing below the band is divided by its lower end.
Share_OfOwnEnd(b, value) ==
  (100 * Deviation(b, value)) \div (IF value < b.min THEN b.min ELSE b.max)

Share(b, value) == (100 * Deviation(b, value)) \div b.max

Score(b, value) ==
  IF InBand(b, value) THEN Normal
  ELSE IF Share(b, value) > 100 THEN 100 ELSE Share(b, value)
=============================================================================
