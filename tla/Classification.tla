--------------------------- MODULE Classification ---------------------------
(***************************************************************************)
(* What a reading means: Django's classification of gases, which decides    *)
(* over alarms, and of power, which depends on the last day's readings; and *)
(* the gas that the data generator names as the cause, which goes into the  *)
(* alarm's text.  The limits exist twice.  Values are integers in a unit    *)
(* in which all limits are.                                                 *)
(***************************************************************************)
EXTENDS Integers, Sequences, SequencesExt, FiniteSetsExt

CONSTANTS
    None,
    Keys,       \* the gases, in the order of the reading, without duplicates
    Limits,     \* classifiers.GAS_THRESHOLDS: gas -> [caution, danger], but o2
    Oxygen,     \* the limits of o2 in classify_gas: [low2, low1, high1, high2]
    GenLimits,  \* generators.GAS_THRESHOLDS: set of [key, operator, caution, danger]
    Readings,   \* of a gas sensor: set of gas -> value
    Watts,      \* the values of power readings
    MinSamples, \* _POWER_MIN_SAMPLES
    MaxSamples  \* bound: readings of one day

VARIABLES
    gas,      \* the reading of a gas sensor: gas -> value, None if it has none
    samples   \* the watt values of a power device within 24 hours, oldest first

classVars == <<gas, samples>>

Rank(s) == CASE s = "normal" -> 0 [] s = "caution" -> 1 [] s = "danger" -> 2

\* What one value means: the reference for the whole reading.
StatusOf(key, v) ==
    IF v = None THEN "normal"
    ELSE IF key = "o2"
    THEN CASE v < Oxygen.low2 \/ v >= Oxygen.high2 -> "danger"
           [] v >= Oxygen.low2 /\ v < Oxygen.low1 -> "caution"
           [] v > Oxygen.high1 /\ v < Oxygen.high2 -> "caution"
           [] OTHER -> "normal"
    ELSE CASE v >= Limits[key].danger -> "danger"
           [] v >= Limits[key].caution /\ v < Limits[key].danger -> "caution"
           [] OTHER -> "normal"

\* Faulty variants of the definition that follows each of them, named
\* <definition>_<fault>, are used by no specification: they record which
\* mistake in the code each property would catch.
Judge_GoesOn(worst, key, v) ==
    IF v = None THEN worst
    ELSE IF key = "o2"
    THEN IF v < Oxygen.low2 \/ v >= Oxygen.high2 THEN "danger"
         ELSE IF v < Oxygen.low1 \/ v > Oxygen.high1 THEN "caution" ELSE worst
    ELSE IF v >= Limits[key].danger THEN "danger"
         ELSE IF v >= Limits[key].caution /\ worst = "normal" THEN "caution" ELSE worst

\* One gas: danger ends the loop, o2 sets caution without looking at what was
\* found before.
Judge(worst, key, v) ==
    IF worst = "danger" \/ v = None THEN worst
    ELSE IF key = "o2"
    THEN IF v < Oxygen.low2 \/ v >= Oxygen.high2 THEN "danger"
         ELSE IF v < Oxygen.low1 \/ v > Oxygen.high1 THEN "caution" ELSE worst
    ELSE IF v >= Limits[key].danger THEN "danger"
         ELSE IF v >= Limits[key].caution /\ worst = "normal" THEN "caution" ELSE worst

\* classify_gas: gas by gas.
ClassifyGas(reading) ==
    LET worst[n \in 0 .. Len(Keys)] ==
          IF n = 0 THEN "normal" ELSE Judge(worst[n - 1], Keys[n], reading[Keys[n]])
    IN  worst[Len(Keys)]

\* The limits that the generator applies to a gas; o2 has one in each direction.
Candidates(key) == {l \in GenLimits : l.key = key}

Score_ByExcess(l, v) ==
    IF l.operator = "over"
    THEN IF v < l.caution THEN {} ELSE {[num |-> v - l.caution, den |-> 1]}
    ELSE IF v > l.caution THEN {} ELSE {[num |-> l.caution - v, den |-> 1]}

\* How far a value has gone from caution to danger, as a fraction, or none.
Score(l, v) ==
    IF l.operator = "over"
    THEN IF v < l.caution THEN {} ELSE {[num |-> v - l.caution, den |-> l.danger - l.caution]}
    ELSE IF v > l.caution THEN {} ELSE {[num |-> l.caution - v, den |-> l.caution - l.danger]}

Scores(key, v) == IF v = None THEN {} ELSE UNION {Score(l, v) : l \in Candidates(key)}

Less(a, b) == a.num * b.den < b.num * a.den

\* One gas: it becomes the cause if it has gone farther than the cause so far.
Worse(best, key, v) ==
    IF \E x \in Scores(key, v) : best.key = None \/ Less(best.score, x)
    THEN [key |-> key,
          score |-> CHOOSE x \in Scores(key, v) : \A y \in Scores(key, v) : ~Less(x, y)]
    ELSE best

\* identify_worst_gas: the first gas with the highest score.
WorstGas(reading) ==
    LET best[n \in 0 .. Len(Keys)] ==
          IF n = 0 THEN [key |-> None, score |-> None]
          ELSE Worse(best[n - 1], Keys[n], reading[Keys[n]])
    IN  best[Len(Keys)].key

\* The k-th value of a sequence in ascending order.
AtRank(s, k) ==
    CHOOSE v \in ToSet(s) : /\ Cardinality({i \in DOMAIN s : s[i] < v}) < k
                            /\ Cardinality({i \in DOMAIN s : s[i] <= v}) >= k

\* Twice the median of the last day, or None while there are too few samples.
Median2_IsMean(s) ==
    IF Len(s) < MinSamples THEN None
    ELSE (2 * FoldLeft(LAMBDA a, b : a + b, 0, s)) \div Len(s)

\* _get_24h_avg_watt.
Median2(s) ==
    IF Len(s) < MinSamples THEN None
    ELSE AtRank(s, (Len(s) + 1) \div 2) + AtRank(s, Len(s) \div 2 + 1)

\* classify_power, with a normal voltage and a known device: over 2.25 and 1.65
\* times the median.
ClassifyPower(watt, s) ==
    LET m == Median2(s) IN
    IF m = None \/ m = 0 THEN None
    ELSE CASE 8 * watt > 9 * m -> "danger"
           [] 8 * watt <= 9 * m /\ 40 * watt > 33 * m -> "caution"
           [] OTHER -> "normal"

Init ==
    /\ gas \in Readings
    /\ samples = <<>>

\* Another reading of the power device.
Measure(watt) ==
    /\ Len(samples) < MaxSamples
    /\ samples' = Append(samples, watt)
    /\ UNCHANGED gas

\* A reading is a day old.
Forget ==
    /\ samples # <<>>
    /\ samples' = Tail(samples)
    /\ UNCHANGED gas

Next == (\E watt \in Watts : Measure(watt)) \/ Forget

Spec == Init /\ [][Next]_classVars

-----------------------------------------------------------------------------
\* The status of a reading is that of its worst value, in whatever order the gases
\* come and whichever of them are missing (classifiers.py:42-72).
WorstDecides ==
    Rank(ClassifyGas(gas)) = Max({Rank(StatusOf(k, gas[k])) : k \in ToSet(Keys)} \cup {0})

\* The text of an alarm names a gas that is as bad as the alarm says: the generator
\* finds the same cause with its own limits and its own arithmetic
\* (generators.py:329-385), except with oxygen at exactly one of its limits, which
\* only the generator counts as reached.
CauseIsNamed ==
    ClassifyGas(gas) # "normal" /\ gas["o2"] \notin {Oxygen.low2, Oxygen.low1, Oxygen.high1} =>
        /\ WorstGas(gas) # None
        /\ StatusOf(WorstGas(gas), gas[WorstGas(gas)]) = ClassifyGas(gas)

\* Spikes in fewer than half of the samples of a day do not change what another
\* spike or the rated power means: the one stays dangerous, the other normal
\* (classifiers.py:85-87).
SpikesChangeNothing ==
    LET rated == Min(Watts)
        spikes == {i \in DOMAIN samples : samples[i] # rated}
    IN  Len(samples) >= MinSamples /\ 2 * Cardinality(spikes) < Len(samples) =>
          /\ ClassifyPower(rated, samples) = "normal"
          /\ \A watt \in Watts : 4 * watt > 9 * rated => ClassifyPower(watt, samples) = "danger"

=============================================================================
