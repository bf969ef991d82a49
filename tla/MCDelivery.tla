----------------------------- MODULE MCDelivery -----------------------------
(***************************************************************************)
(* Small instances of what leaves an alarm or a row behind: each behaviour  *)
(* moves one of the parts and leaves the others at rest, since they share   *)
(* no state.                                                                *)
(***************************************************************************)
EXTENDS Delivery

CONSTANTS u1, u2

VARIABLE focus

GasDanger == {[type |-> "sensor_danger", sensor |-> "gas", level |-> "danger"]}

PolicyForms ==
    {[risk |-> "RISK_GAS", priority |-> 30, channels |-> {"app"}, active |-> TRUE,
      tokens |-> {}],
     [risk |-> "RISK_GAS", priority |-> 30, channels |-> {"app"}, active |-> TRUE,
      tokens |-> {{u1}, {u1, u2}}],
     [risk |-> "RISK_GAS", priority |-> 90, channels |-> {"email", "app"}, active |-> TRUE,
      tokens |-> {{u1}}]}

DatedForms ==
    {[valid |-> TRUE, published |-> TRUE, from |-> -1, to |-> 1],
     [valid |-> TRUE, published |-> FALSE, from |-> 1, to |-> -1],
     [valid |-> TRUE, published |-> TRUE, from |-> 1, to |-> 0]}

ZoneEvents ==
    {[type |-> "created", dynamic |-> TRUE, zoneType |-> "danger"],
     [type |-> "expired", dynamic |-> TRUE, zoneType |-> "danger"],
     [type |-> "worker_zone_entry", dynamic |-> FALSE, zoneType |-> "danger"]}

MCInit ==
    /\ focus \in {"alarms", "notices", "external", "rows"}
    /\ Init
    /\ focus # "alarms" => ~async /\ \A p \in Policies : policies[p] = NoRow
    /\ focus # "external" => webhooks = {} /\ ~dryRun
    /\ focus # "rows" => policy.days = 1

MCNext ==
    /\ UNCHANGED focus
    /\ \/ focus = "alarms" /\ TellOfAlarms
       \/ focus = "notices" /\ TellOfNotices
       \/ focus = "external" /\ TellOutside
       \/ focus = "rows" /\ KeepRows

MCSpec == MCInit /\ [][MCNext]_<<focus, deliveryVars>>

=============================================================================
