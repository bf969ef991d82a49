---------------------------- MODULE EarlyWarning ----------------------------
(***************************************************************************)
(* The two learners of one sensor value: ARIMA, which is fitted again in a  *)
(* thread of its own while requests judge values with the last fit, and     *)
(* IsolationForest, which predicts that the value will reach its limit and  *)
(* is proved right or wrong later.  What a model has learned is abstracted  *)
(* to the number of the fit; a verdict and a trend are what they may be.    *)
(***************************************************************************)
EXTENDS Integers, FiniteSets

CONSTANTS
    None,
    MinSamples,  \* MIN_TRAIN_SAMPLES: of ARIMA, in values
    MinTrend,    \* MIN_TRAIN_SAMPLES of the forest, in values
    RefitEvery,  \* REFIT_EVERY_N
    RefitTime,   \* REFIT_INTERVAL_SEC
    Throttle,    \* _AI_PRED_THROTTLE_SEC
    Horizons,    \* predicted_ticks * 2, in seconds
    Requests,    \* ids of requests under way
    MaxValues, MaxFits, MaxTime  \* bounds: values, fits, seconds

VARIABLES
    now,          \* seconds
    values,       \* the values in the two buffers, [arima, trend]
    arima,        \* [model, std, at, fitting]: the fits they are from, None before
    threads,      \* fits under way: set of [no, step]
    fits,         \* fits begun
    judged,       \* [model, std] of the last verdict, or None
    forest,       \* [model, fitted]: is there one, and the value it was fitted at
    lastPrediction, \* _ai_pred_throttle, None before
    asking,       \* request -> None or "predicts": between predict_trend and the throttle
    predictions   \* AIPrediction and its alarm: set of [no, at, due, result]

warningVars == <<now, values, arima, threads, fits, judged, forest, lastPrediction, asking,
                 predictions>>

arimaVars == <<arima, threads, fits, judged>>
trendVars == <<forest, lastPrediction, asking, predictions>>

Init ==
    /\ now = 0
    /\ values = [arima |-> 0, trend |-> 0]
    /\ arima = [model |-> None, std |-> None, at |-> 0, fitting |-> FALSE]
    /\ threads = {}
    /\ fits = 0
    /\ judged = None
    /\ forest = [model |-> FALSE, fitted |-> 0]
    /\ lastPrediction = None
    /\ asking = [r \in Requests |-> None]
    /\ predictions = {}

Pass ==
    /\ now < MaxTime
    /\ now' = now + 1
    /\ UNCHANGED <<values, arimaVars, trendVars>>

-----------------------------------------------------------------------------
(* ARIMA.                                                                   *)

\* Faulty variants of the definition that follows each of them, named
\* <definition>_<fault>, are used by no specification: they record which
\* mistake in the code each property would catch.
FitIsDue_NoFlag(n) ==
    /\ arima.model = None \/ now - arima.at >= RefitTime
    /\ n >= MinSamples

\* _maybe_refit_async: with n values, when none is under way.
FitIsDue(n) ==
    /\ ~arima.fitting
    /\ arima.model = None \/ now - arima.at >= RefitTime
    /\ n >= MinSamples

\* detect_anomaly, which holds the lock of the sensor: the value is kept, a fit is
\* begun if one is due, and the value judged with what model and standard deviation
\* are now.
Detect ==
    /\ values.arima < MaxValues
    /\ values' = [values EXCEPT !.arima = @ + 1]
    /\ IF FitIsDue(values'.arima) /\ fits < MaxFits
       THEN /\ fits' = fits + 1
            /\ threads' = threads \cup {[no |-> fits', step |-> "fit"]}
            /\ arima' = [arima EXCEPT !.fitting = TRUE]
       ELSE UNCHANGED <<arima, threads, fits>>
    /\ judged' = IF values'.arima < MinSamples \/ arima.model = None \/ arima.std = None
                 THEN None ELSE [model |-> arima.model, std |-> arima.std]
    /\ UNCHANGED <<now, trendVars>>

\* _fit_model writes the model, then the standard deviation and the time, without
\* the lock ...
WriteModel(t) ==
    /\ t.step = "fit"
    /\ arima' = [arima EXCEPT !.model = t.no]
    /\ threads' = (threads \ {t}) \cup {[t EXCEPT !.step = "std"]}
    /\ UNCHANGED <<now, values, fits, judged, trendVars>>

\* ... and allows the next fit.
WriteDeviation(t) ==
    /\ t.step = "std"
    /\ arima' = [model |-> arima.model, std |-> t.no, at |-> now, fitting |-> FALSE]
    /\ threads' = threads \ {t}
    /\ UNCHANGED <<now, values, fits, judged, trendVars>>

\* A fit that fails changes nothing and allows the next.
FailFit(t) ==
    /\ t.step = "fit"
    /\ arima' = [arima EXCEPT !.fitting = FALSE]
    /\ threads' = threads \ {t}
    /\ UNCHANGED <<now, values, fits, judged, trendVars>>

-----------------------------------------------------------------------------
(* The trend.                                                               *)

\* _fit drops outliers and keeps the model it had when too little is left: if it
\* had none, the score raises and the request fails.
\* predict_trend of a request, under the lock of the sensor: fits when due, and
\* then the value is odd and rising, or not.
Predict(r) ==
    /\ values.trend < MaxValues
    /\ asking[r] = None
    /\ values' = [values EXCEPT !.trend = @ + 1]
    /\ \/ values'.trend < MinTrend /\ UNCHANGED <<forest, asking>>
       \/ /\ values'.trend >= MinTrend
          /\ IF ~forest.model \/ values'.trend - forest.fitted >= RefitEvery
             THEN forest' \in {forest, [model |-> TRUE, fitted |-> values'.trend]}
             ELSE forest' = forest
          /\ asking' \in {asking} \cup
                 (IF forest'.model THEN {[asking EXCEPT ![r] = "predicts"]} ELSE {})
    /\ UNCHANGED <<now, arimaVars, lastPrediction, predictions>>

MayPredict == lastPrediction = None \/ now - lastPrediction >= Throttle

Predictions(due) ==
    predictions \cup {[no |-> Cardinality(predictions), at |-> now, due |-> now + due,
                       result |-> "pending"]}

Record_CheckOnly(r) ==
    /\ asking[r] = "predicts"
    /\ asking' = [asking EXCEPT ![r] = None]
    /\ predictions' \in {predictions} \cup
           (IF MayPredict THEN {Predictions(due) : due \in Horizons} ELSE {})
    /\ UNCHANGED <<now, values, arimaVars, forest, lastPrediction>>

\* _create_ai_prediction: the throttle is checked and set under one lock, and then
\* alarm and prediction are saved, or the save fails.
Record(r) ==
    /\ asking[r] = "predicts"
    /\ asking' = [asking EXCEPT ![r] = None]
    /\ IF MayPredict
       THEN /\ lastPrediction' = now
            /\ predictions' \in {predictions} \cup {Predictions(due) : due \in Horizons}
       ELSE UNCHANGED <<lastPrediction, predictions>>
    /\ UNCHANGED <<now, values, arimaVars, forest>>

Verified_All(reached) ==
    {IF p.due <= now THEN [p EXCEPT !.result = IF reached THEN "success" ELSE "failure"] ELSE p :
       p \in predictions}

\* verify_predictions: a value decides over what is pending and due.
Verified(reached) ==
    {IF p.result = "pending" /\ p.due <= now
     THEN [p EXCEPT !.result = IF reached THEN "success" ELSE "failure"] ELSE p : p \in predictions}

Verify(reached) ==
    /\ predictions' = Verified(reached)
    /\ UNCHANGED <<now, values, arimaVars, forest, lastPrediction, asking>>

Next ==
    \/ Pass
    \/ Detect
    \/ \E t \in threads : WriteModel(t) \/ WriteDeviation(t) \/ FailFit(t)
    \/ \E r \in Requests : Predict(r) \/ Record(r)
    \/ \E reached \in BOOLEAN : Verify(reached)

Spec == Init /\ [][Next]_warningVars

-----------------------------------------------------------------------------
\* Every variable has its type.
TypeOK ==
    /\ arima.model \in 1 .. MaxFits \cup {None}
    /\ arima.std \in 1 .. MaxFits \cup {None}
    /\ arima.fitting \in BOOLEAN
    /\ forest.fitted \in 0 .. MaxValues
    /\ \A r \in Requests : asking[r] \in {None, "predicts"}
    /\ \A p \in predictions : p.result \in {"pending", "success", "failure"}

\* Although the fit writes without the lock, a value is never judged by a model with
\* the deviation of a later fit, nor is a later fit replaced by an earlier one
\* (anomaly_detector.py:101-156).
FitsInOrder ==
    /\ judged # None => judged.std <= judged.model
    /\ \A t \in threads : \A n \in {arima.model, arima.std} \ {None} : n <= t.no

\* Between two predictions of one sensor value lies the throttle's time, whichever
\* requests predict at once (devices/views.py:73, :384-388).
PredictionsSpaced ==
    \A p, q \in predictions : p.no < q.no => q.at - p.at >= Throttle

\* A prediction is judged once, and not before it is due
\* (trend_predictor.py:209-234).
JudgedOnce ==
    [][\A p \in predictions :
         \/ p \in predictions'
         \/ p.result = "pending" /\ p.due <= now /\
            \E q \in predictions' : q.no = p.no /\ q.result # "pending"]_warningVars

=============================================================================
