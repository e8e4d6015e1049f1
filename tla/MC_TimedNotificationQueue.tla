---------------------- MODULE MC_TimedNotificationQueue ----------------------
(* Model value for the dequeuing thread of TimedNotificationQueue.       *)
EXTENDS TimedNotificationQueue

CONSTANTS c1
=============================================================================
