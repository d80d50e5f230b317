----------------------------- MODULE Protection -----------------------------
(***************************************************************************)
(* What the backend promises its user, without the daemon's steps: which   *)
(* protection is reported, which is wanted, which is stored, and what the  *)
(* host's firewall lets through meanwhile.  Controller implements it.      *)
(*                                                                         *)
(* The barrier (default drop) is removed on the user's word alone, a       *)
(* pause or a disconnect, or when nothing is wanted.  Exceptions are made  *)
(* for one profile of the wanted target at a time, behind the barrier, and *)
(* every way into connecting, and into failed but for the user's word,     *)
(* leads through a barrier without exceptions.                             *)
(***************************************************************************)
CONSTANTS
  Profiles,
  Targets,
  CandidatesOf,   \* the profiles that can serve a target
  NoTarget

VARIABLES
  mode,      \* what status reports, "off" without a daemon
  wanted,    \* the target the daemon works for, or NoTarget
  stored,    \* what a restart would read: a target, NoTarget or "damaged"
  barrier,   \* is traffic dropped by default?
  through,   \* profiles with an endpoint or a tunnel exception
  leaving    \* is a pause or a disconnect being carried out?

vars == <<mode, wanted, stored, barrier, through, leaving>>

firewall == <<barrier, through>>

Running == mode # "off"

Sealed == barrier /\ through = {}

\* The user's word, or nothing to protect.
MayOpen == leaving \/ wanted = NoTarget

\* A leave may be given up at any step; only AskToLeave begins one.
NoNewLeave == leaving' => leaving

Init ==
  /\ mode = "off" /\ wanted = NoTarget /\ stored = NoTarget
  /\ barrier = FALSE /\ through = {}
  /\ leaving = FALSE

-----------------------------------------------------------------------------
(* The machine.                                                            *)

Gone == mode' = "off" /\ wanted' = NoTarget /\ leaving' = FALSE

Crash == Running /\ Gone /\ UNCHANGED <<stored, firewall>>

PowerLoss ==
  /\ Gone
  /\ barrier' = FALSE /\ through' = {}
  /\ UNCHANGED stored

Damage ==
  /\ ~Running
  /\ stored' = "damaged"
  /\ UNCHANGED <<mode, wanted, firewall, leaving>>

\* The early-boot unit opens the network for a machine without an intent.
BootOpen ==
  /\ ~Running /\ stored = NoTarget
  /\ barrier' = FALSE /\ through' = {}
  /\ UNCHANGED <<mode, wanted, stored, leaving>>

\* The daemon resumes what is stored, behind the barrier.
Resume ==
  /\ ~Running /\ stored \in Targets
  /\ mode' = "connecting" /\ wanted' = stored
  /\ Sealed'
  /\ ~leaving'
  /\ UNCHANGED stored

Idle ==
  /\ ~Running /\ stored = NoTarget
  /\ mode' = "disabled"
  /\ ~leaving'
  /\ UNCHANGED <<wanted, stored, firewall>>

-----------------------------------------------------------------------------
(* The service.                                                            *)

\* The barrier may come, and exceptions may go, at any time.
Tighten ==
  /\ barrier => barrier'
  /\ through' \in SUBSET through
  /\ NoNewLeave
  /\ UNCHANGED <<mode, wanted, stored>>

AskToLeave ==
  /\ Running
  /\ leaving' = TRUE
  /\ UNCHANGED <<mode, wanted, stored, firewall>>

\* A connect, a retry, the end of a pause, the next attempt.
Seek(t) ==
  /\ Running
  /\ mode' = "connecting" /\ wanted' = t
  /\ Sealed'
  /\ NoNewLeave
  /\ UNCHANGED stored

\* Only what is wanted is stored, and behind the barrier.
Store ==
  /\ wanted # NoTarget /\ Sealed
  /\ stored' = wanted
  /\ NoNewLeave
  /\ UNCHANGED <<mode, wanted, firewall>>

Allow(p) ==
  /\ mode = "connecting"
  /\ p \in CandidatesOf[wanted]
  /\ barrier /\ through \subseteq {p}
  /\ barrier' /\ through' \subseteq {p}
  /\ NoNewLeave
  /\ UNCHANGED <<mode, wanted, stored>>

Settle ==
  /\ mode = "connecting" /\ barrier
  /\ \E p \in CandidatesOf[wanted] : through = {p}
  /\ mode' = "connected"
  /\ stored' \in {stored, wanted}
  /\ NoNewLeave
  /\ UNCHANGED <<wanted, firewall>>

Fail ==
  /\ Running
  /\ Sealed \/ MayOpen
  /\ mode' = "failed"
  /\ stored' \in IF leaving THEN {stored, wanted} ELSE {stored}
  /\ NoNewLeave
  /\ UNCHANGED <<wanted, firewall>>

Open ==
  /\ Running /\ MayOpen
  /\ barrier' = FALSE /\ through' = {}
  /\ NoNewLeave
  /\ UNCHANGED <<mode, wanted, stored>>

Pause ==
  /\ Running /\ leaving /\ wanted # NoTarget
  /\ ~barrier
  /\ mode' = "paused"
  /\ stored' \in {stored, wanted}
  /\ leaving' = FALSE
  /\ UNCHANGED <<wanted, firewall>>

Disable ==
  /\ Running /\ MayOpen
  /\ ~barrier
  /\ mode' = "disabled" /\ wanted' = NoTarget
  /\ stored' \in IF leaving THEN {stored, NoTarget} ELSE {stored}
  /\ NoNewLeave
  /\ UNCHANGED firewall

Next ==
  \/ Crash \/ PowerLoss \/ Damage \/ BootOpen \/ Resume \/ Idle
  \/ Tighten \/ AskToLeave \/ Store \/ Settle \/ Fail \/ Open
  \/ Pause \/ Disable
  \/ \E t \in Targets : Seek(t)
  \/ \E p \in Profiles : Allow(p)

Spec == Init /\ [][Next]_vars

-----------------------------------------------------------------------------
(* A reported connection is a protected one: default drop, with exceptions *)
(* for one profile of the wanted target, for as long as it is reported and *)
(* nobody asked to leave it.                                               *)
ConnectedIsConfined ==
  mode = "connected" =>
    \E p \in CandidatesOf[wanted] : through \subseteq {p}
=============================================================================
