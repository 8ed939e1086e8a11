------------------------- MODULE MCTelemetryPipeline -------------------------
(* Small instances of TelemetryPipeline for TLC: a queue shorter than what  *)
(* is captured, batches shorter than the queue, and two requests at once.   *)
EXTENDS TelemetryPipeline, TLC

CONSTANTS s1, s2
MCSlots == {s1, s2}
=============================================================================
