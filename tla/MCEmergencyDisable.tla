------------------------- MODULE MCEmergencyDisable -------------------------
(* An instance of EmergencyDisable for TLC: one link and one profile,      *)
(* whose endpoint is a host name.                                          *)
EXTENDS EmergencyDisableProperties

CONSTANTS eth, p1, city

MCCandidates == [t \in Targets |-> {p1}]
=============================================================================
