------------------------ MODULE PanelServicesProofs -------------------------
(***************************************************************************)
(* Proofs about the panel's small services, for every number of records,   *)
(* of profiles and of interfaces that come and go.  The two services share *)
(* nothing, so each has an inductive invariant of its own:                 *)
(*                                                                         *)
(*   RecordOK   where the newest record is, if it is not in the file, and  *)
(*              that no older one can still be written over it;            *)
(*   SampleOK   in which order the interfaces can have been created of     *)
(*              which a reader has read something.                         *)
(***************************************************************************)
EXTENDS PanelServices, TLAPS

\* The newest record is in the file, in the writer, or in a queue that is
\* bound to be looked at.
UnderWay ==
  \/ file = newest \/ excused \/ writer = newest
  \/ queued = newest /\ (writer # None \/ deferred # "no")

RecordOK ==
  /\ newest \in Nat
  /\ file \in 0..newest /\ writer \in 0..newest /\ queued \in 0..newest
  /\ deferred \in {"no", "due", "overtaken"}
  /\ writer # None /\ replaced => file = writer
  /\ writer # None /\ file = newest => writer = newest
  /\ deferred = "due" => writer = None
  /\ deferred = "overtaken" => writer = newest /\ writer # None
  /\ deferred # "overtaken" => queued \in {None, newest}
  /\ writer = None /\ deferred = "no" => queued = None
  /\ UnderWay

\* Interfaces are numbered in the order of their creation, and the profile's
\* present one is not older than any that was read of it.
NotOlder(read) == link[of] # Gone => read <= link[of]

SampleOK ==
  /\ indexes \in Nat /\ link \in [Profiles -> 0..indexes]
  /\ index \in 0..indexes /\ rx \in 0..indexes /\ tx \in 0..indexes
  /\ profile \in Profiles \union {NoProfile}
  /\ step # "off" => of \in Profiles
  /\ step = "rx" => index # Gone /\ NotOlder(index)
  /\ step = "tx" => index # Gone /\ index <= rx /\ NotOlder(rx)
  /\ step = "reread" => index # Gone /\ index <= rx /\ rx <= tx /\ NotOlder(tx)
  /\ step \in {"requery", "sampled"} => rx = index /\ tx = index
  /\ RatesOfOneTunnel

-----------------------------------------------------------------------------
(* Every step of the recorder, and every step of the traffic display,      *)
(* preserves what is known of the last record.                             *)
LEMMA RecordStep == RecordOK /\ [RecorderNext]_recorderVars => RecordOK'
<1> SUFFICES ASSUME RecordOK, [RecorderNext]_recorderVars PROVE RecordOK'
  OBVIOUS
<1> USE DEF RecordOK, UnderWay, StartWriter, None
<1>1. CASE RecordConnection
  BY <1>1 DEF RecordConnection
<1>2. CASE Replace
  BY <1>2 DEF Replace
<1>3. CASE WriterExits
  <2>1. excused \/ (~replaced /\ writer = newest) => excused'
    BY <1>3, Zenon DEF WriterExits
  <2> QED
    BY <1>3, <2>1 DEF WriterExits
<1>4. CASE Written
  <2>1. excused \/ (queued = newest /\ ~active) => excused'
    BY <1>4, Zenon DEF Written
  <2> QED
    BY <1>4, <2>1 DEF Written
<1>5. CASE Read
  BY <1>5 DEF Read
<1>6. CASE ReaderExits
  BY <1>6 DEF ReaderExits
<1>7. CASE SetActive
  BY <1>7 DEF SetActive
<1>8. CASE RestartPanel
  <2>1. file # newest => excused'
    BY <1>8, Zenon DEF RestartPanel
  <2> QED
    BY <1>8, <2>1 DEF RestartPanel
<1>9. CASE UNCHANGED recorderVars
  BY <1>9 DEF recorderVars
<1> QED
  BY <1>1, <1>2, <1>3, <1>4, <1>5, <1>6, <1>7, <1>8, <1>9 DEF RecorderNext

(* The inductive invariant of the recorder.                                *)
THEOREM RecorderCorrect == Spec => []RecordOK
<1>1. Init => RecordOK
  BY DEF Init, RecorderInit, RecordOK, UnderWay, None
<1>2. [Next]_vars => [RecorderNext]_recorderVars
  BY DEF Next, vars, trafficVars
<1> QED
  BY <1>1, <1>2, RecordStep, PTL DEF Spec

(* Whatever records, exits, deferred calls, deactivations and restarts     *)
(* come in whatever order, the file has the newest record when the writer  *)
(* rests, unless that record's own write failed or the panel went away.    *)
THEOREM Spec_LastRecordKept == Spec => []LastRecordKept
<1>1. RecordOK => LastRecordKept
  BY DEF RecordOK, UnderWay, LastRecordKept, None
<1> QED
  BY <1>1, RecorderCorrect, PTL

-----------------------------------------------------------------------------
(* Every step of the host, the reader and the display preserves what is    *)
(* known of a sample.                                                      *)
LEMMA SampleStep == SampleOK /\ [TrafficNext]_trafficVars => SampleOK'
<1> SUFFICES ASSUME SampleOK, [TrafficNext]_trafficVars PROVE SampleOK'
  OBVIOUS
<1> USE TrafficAssumption
    DEF SampleOK, NotOlder, RatesOfOneTunnel, Gone, host, helper
<1>1. ASSUME NEW p \in Profiles, Up(p) PROVE SampleOK'
  BY <1>1 DEF Up
<1>2. ASSUME NEW p \in Profiles, Down(p) PROVE SampleOK'
  BY <1>2 DEF Down
<1>3. CASE Query
  BY <1>3 DEF Query, Fail
<1>4. CASE ReadIndex
  BY <1>4 DEF ReadIndex, Fail
<1>5. CASE ReadRx
  BY <1>5 DEF ReadRx, Fail
<1>6. CASE ReadTx
  BY <1>6 DEF ReadTx, Fail
<1>7. CASE Reread
  BY <1>7 DEF Reread, Fail
<1>8. CASE Requery
  BY <1>8 DEF Requery, Fail
<1>9. CASE SelectProfile
  BY <1>9 DEF SelectProfile
<1>10. CASE StartReader
  BY <1>10 DEF StartReader
<1>11. CASE ExpireReader
  BY <1>11 DEF ExpireReader
<1>12. CASE ExpireSample
  BY <1>12 DEF ExpireSample
<1>13. CASE ReaderDone
  BY <1>13 DEF ReaderDone, Accept, SameTunnel
<1>14. CASE UNCHANGED trafficVars
  BY <1>14 DEF trafficVars
<1> QED
  BY <1>1, <1>2, <1>3, <1>4, <1>5, <1>6, <1>7, <1>8, <1>9, <1>10, <1>11,
     <1>12, <1>13, <1>14 DEF TrafficNext

(* The inductive invariant of the traffic display.                         *)
THEOREM TrafficCorrect == Spec => []SampleOK
<1>1. Init => SampleOK
  BY DEF Init, TrafficInit, SampleOK, RatesOfOneTunnel, Gone
<1>2. [Next]_vars => [TrafficNext]_trafficVars
  BY DEF Next, vars, recorderVars
<1> QED
  BY <1>1, <1>2, SampleStep, PTL DEF Spec

(* Whatever tunnels are deleted and created between the reads of a sample, *)
(* and however late it arrives, what is displayed is of the profile to     *)
(* display and of one interface, and so is the sample its rate starts from.*)
THEOREM Spec_RatesOfOneTunnel == Spec => []RatesOfOneTunnel
<1>1. SampleOK => RatesOfOneTunnel
  BY DEF SampleOK
<1> QED
  BY <1>1, TrafficCorrect, PTL
=============================================================================
