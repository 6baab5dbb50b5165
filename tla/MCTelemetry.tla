----------------------------- MODULE MCTelemetry -----------------------------
(* Instances of TelemetryRecorder for TLC. *)
EXTENDS TelemetryRecorder

CONSTANTS w1, w2
=============================================================================
