--------------------------- MODULE MCQueueMetrics ---------------------------
(* QueueMetrics on the instance of the cfg file. *)
EXTENDS QueueMetrics, MCJobQueue

=============================================================================
