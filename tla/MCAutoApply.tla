---------------------------- MODULE MCAutoApply ----------------------------
(* Instances of AutoApply for TLC.                                         *)
EXTENDS AutoApply

CONSTANTS d1, d2, w1, w2

BothOnD1 == [w \in Workers |-> d1]

(* The interval job of d1 beside the re-polls of the scheduler.            *)
IntervalAndRepoll == [w \in Workers |-> IF w = w1 THEN "interval" ELSE "repoll"]

(* Polls that messages of d1 start, beside the follow-up checks of the     *)
(* API's applies in the API's process.                                     *)
SyslogAndApi == [w \in Workers |-> IF w = w1 THEN "syslog" ELSE "api_repoll"]
============================================================================
