----------------------------- MODULE MCTelemetry -----------------------------
(* The instance of Telemetry that TLC checks. *)
EXTENDS Telemetry
=============================================================================
