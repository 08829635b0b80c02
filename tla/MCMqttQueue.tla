---------------------------- MODULE MCMqttQueue ----------------------------
EXTENDS MqttQueue

(* The progress a print reports, in hundredths of a per cent, as the       *)
(* protocol has it: 50 is taken for 50 %, 100 reads as complete before its *)
(* time, and 10000 is the end.  A printer that reports percents is one     *)
(* whose second value was not fetched.  The last print's 10000 may be      *)
(* shown at first.                                                         *)
MCReports == <<50, 100, 10000>>

=============================================================================
