-------------------------- MODULE MCHealthMonitor --------------------------
(* A small instance of HealthMonitor: one metric that can raise an alert. *)
EXTENDS BulletinRefinement

MCMetricAlerts == {"liquidation_risk"}

===========================================================================
