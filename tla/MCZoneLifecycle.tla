-------------------------- MODULE MCZoneLifecycle --------------------------
(* Model-checking instance of ZoneLifecycle: two neighbours, one inside the *)
(* first radius and one that the growing zone reaches later.                *)
EXTENDS ZoneLifecycle, TLC

CONSTANTS near, far

TwoDistances == (near :> 1 @@ far :> 2)

TickerSymmetry == Permutations(Tickers)

=============================================================================
