--------------------------- MODULE PanelServices ---------------------------
(***************************************************************************)
(* The panel's small services beside the switch, in one event loop with    *)
(* their helper processes: the recorder of the last connection and the     *)
(* traffic display.                                                        *)
(***************************************************************************)
EXTENDS Recorder, Traffic

vars == <<recorderVars, trafficVars>>

Init == RecorderInit /\ TrafficInit

Next == \/ RecorderNext /\ UNCHANGED trafficVars
        \/ TrafficNext /\ UNCHANGED recorderVars

Spec == Init /\ [][Next]_vars

-----------------------------------------------------------------------------
(* Once the writer has come to rest, the file has the connection that was  *)
(* made last, in whatever order records, exits and deferred calls came,    *)
(* unless the write of that very record failed or the panel went away with *)
(* it.                                                                     *)
LastRecordKept ==
  writer = None /\ deferred = "no" => file = newest \/ excused

(* What is displayed is of the profile to display; all of its numbers were *)
(* read from one interface, although it can be deleted and created again   *)
(* between any two reads, and a rate is never the difference of counters   *)
(* of two interfaces.                                                      *)
RatesOfOneTunnel ==
  traffic # NoSample =>
    /\ traffic.profile = profile
    /\ traffic.rx = traffic.index /\ traffic.tx = traffic.index
    /\ traffic.base \in {Gone, traffic.index}
=============================================================================
