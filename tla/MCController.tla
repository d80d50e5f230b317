---------------------------- MODULE MCController ----------------------------
(* An instance of Controller for TLC: a city with two profiles, one of     *)
(* which can also be named exactly.                                        *)
EXTENDS ControllerProperties

CONSTANTS eth, wlan, p1, p2, city, exact

MCCandidates == [t \in Targets |-> IF t = city THEN {p1, p2} ELSE {p2}]
=============================================================================
