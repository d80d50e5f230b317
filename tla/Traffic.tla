------------------------------ MODULE Traffic ------------------------------
(***************************************************************************)
(* The traffic display: the helper traffic.py, which reads the counters of *)
(* one interface in several steps while tunnels come and go, and           *)
(* TrafficService.qml with Traffic.js, which take its late answers for     *)
(* what they are and turn two samples into a rate.                         *)
(*                                                                         *)
(* An interface is known by its index, which is new each time the tunnel   *)
(* is created.  Instead of a counter's value the model keeps the index of  *)
(* the interface it was read from.  Only one reader runs at a time, so     *)
(* samples are taken in the order in which they arrive.                    *)
(***************************************************************************)
EXTENDS Naturals

CONSTANTS Profiles,     \* what can be displayed, "@proton" among them
          NoProfile,
          MaxIndex      \* bound: how many interfaces are created

ASSUME TrafficAssumption == NoProfile \notin Profiles /\ MaxIndex \in Nat

Gone == 0               \* no interface

VARIABLES
  link,      \* of each profile: the index of its interface, or Gone
  indexes,   \* how many interfaces there have been
  profile,   \* the profile to display, or NoProfile
  step,      \* where the reader is, "off" when it is not running
  of,        \* requestedProfile
  current,   \* its revision is the present generation
  index, rx, tx,  \* what it has read
  traffic    \* what is displayed

host        == <<link, indexes>>
helper      == <<of, current, index, rx, tx>>
trafficVars == <<host, profile, step, helper, traffic>>

\* No displayed sample.  `base` is the index of the sample that a rate starts
\* from, Gone when no rate is shown.
NoSample == [profile |-> NoProfile, index |-> Gone, rx |-> Gone, tx |-> Gone,
             base |-> Gone]

TrafficInit ==
  /\ link = [p \in Profiles |-> Gone] /\ indexes = 0
  /\ profile = NoProfile
  /\ step = "off" /\ of = NoProfile /\ current = FALSE
  /\ index = Gone /\ rx = Gone /\ tx = Gone
  /\ traffic = NoSample

-----------------------------------------------------------------------------
(* The host: NetworkManager brings tunnels up and down.                    *)

Up(p) ==
  /\ link[p] = Gone /\ indexes < MaxIndex
  /\ indexes' = indexes + 1
  /\ link' = [link EXCEPT ![p] = indexes']
  /\ UNCHANGED <<profile, step, helper, traffic>>

Down(p) ==
  /\ link[p] # Gone
  /\ link' = [link EXCEPT ![p] = Gone]
  /\ UNCHANGED <<indexes, profile, step, helper, traffic>>

-----------------------------------------------------------------------------
(* sample() of traffic.py.                                                 *)

Fail == step' = "failed" /\ UNCHANGED <<index, rx, tx>>

\* mapping_for(query(), profile)
Query ==
  /\ step = "query"
  /\ IF link[of] # Gone
     THEN step' = "index" /\ UNCHANGED <<index, rx, tx>>
     ELSE Fail
  /\ UNCHANGED <<host, profile, of, current, traffic>>

ReadIndex ==
  /\ step = "index"
  /\ IF link[of] # Gone
     THEN step' = "rx" /\ index' = link[of] /\ UNCHANGED <<rx, tx>>
     ELSE Fail
  /\ UNCHANGED <<host, profile, of, current, traffic>>

ReadRx ==
  /\ step = "rx"
  /\ IF link[of] # Gone
     THEN step' = "tx" /\ rx' = link[of] /\ UNCHANGED <<index, tx>>
     ELSE Fail
  /\ UNCHANGED <<host, profile, of, current, traffic>>

ReadTx ==
  /\ step = "tx"
  /\ IF link[of] # Gone
     THEN step' = "reread" /\ tx' = link[of] /\ UNCHANGED <<index, rx>>
     ELSE Fail
  /\ UNCHANGED <<host, profile, of, current, traffic>>

\* Mutant: the index is not read again.
RereadNothing ==
  /\ step = "reread"
  /\ step' = "requery"
  /\ UNCHANGED <<host, profile, helper, traffic>>

\* The interface is still the one whose index was read first.
Reread ==
  /\ step = "reread"
  /\ IF link[of] = index
     THEN step' = "requery" /\ UNCHANGED <<index, rx, tx>>
     ELSE Fail
  /\ UNCHANGED <<host, profile, of, current, traffic>>

Requery ==
  /\ step = "requery"
  /\ IF link[of] # Gone
     THEN step' = "sampled" /\ UNCHANGED <<index, rx, tx>>
     ELSE Fail
  /\ UNCHANGED <<host, profile, of, current, traffic>>

-----------------------------------------------------------------------------
(* TrafficService.qml.                                                     *)

\* onProfileChanged: the reader goes on under an old generation.
SelectProfile ==
  /\ \E p \in (Profiles \union {NoProfile}) \ {profile} : profile' = p
  /\ current' = FALSE /\ traffic' = NoSample
  /\ UNCHANGED <<host, step, of, index, rx, tx>>

\* sample() of the service, every second.
StartReader ==
  /\ profile # NoProfile /\ step = "off"
  /\ step' = "query" /\ of' = profile /\ current' = TRUE
  /\ index' = Gone /\ rx' = Gone /\ tx' = Gone
  /\ UNCHANGED <<host, profile, traffic>>

\* The deadline passes: the reader is stopped, and ends some time later.
ExpireReader ==
  /\ step # "off"
  /\ current' = FALSE /\ traffic' = NoSample
  /\ UNCHANGED <<host, profile, step, of, index, rx, tx>>

\* stale: nothing new for three seconds.
ExpireSample ==
  /\ traffic # NoSample /\ traffic' = NoSample
  /\ UNCHANGED <<host, profile, step, helper>>

\* accept: a rate is shown for two samples of one tunnel and interface.
SameTunnel(previous) == previous.profile = profile /\ previous.index = index

\* Traffic.accept; a gap of more than three seconds, or a smaller counter,
\* starts a new base.
Accept ==
  \E gap \in BOOLEAN :
    traffic' = [profile |-> profile, index |-> index, rx |-> rx, tx |-> tx,
                base |-> IF SameTunnel(traffic) /\ ~gap
                         THEN traffic.index ELSE Gone]

\* onExited; applySample drops what is not of the present generation.  A
\* stopped reader may have been done, or end anywhere.
ReaderDone ==
  /\ step # "off" /\ step' = "off"
  /\ of' = NoProfile /\ current' = FALSE
  /\ index' = Gone /\ rx' = Gone /\ tx' = Gone
  /\ IF current /\ of = profile
     THEN IF step = "sampled" THEN Accept ELSE traffic' = NoSample
     ELSE UNCHANGED traffic
  /\ UNCHANGED <<host, profile>>

TrafficNext ==
  \/ \E p \in Profiles : Up(p) \/ Down(p)
  \/ Query \/ ReadIndex \/ ReadRx \/ ReadTx \/ Reread \/ Requery
  \/ SelectProfile \/ StartReader \/ ExpireReader \/ ExpireSample \/ ReaderDone
=============================================================================
