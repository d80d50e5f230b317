------------------------------ MODULE Recorder ------------------------------
(***************************************************************************)
(* The last VPN choice: the panel's memory of it and its writer queue in   *)
(* plugin/Service.qml, the helper last_connection.py that keeps the file,  *)
(* and the reader that fetches it when the panel starts.                   *)
(*                                                                         *)
(* Records are numbered in the order in which the panel makes them.  A     *)
(* helper is a process: it can fail, be stopped, and end at any time.      *)
(***************************************************************************)
EXTENDS Naturals

CONSTANT MaxRecords   \* bound: how many connections are recorded

ASSUME RecordsAssumption == MaxRecords \in Nat \ {0}

None == 0             \* no record

VARIABLES
  active,    \* the panel is active
  last,      \* lastConnection
  queued,    \* queuedConnection
  writer,    \* what lastConnectionWriter is to write, None: not running
  replaced,  \* it has replaced the file
  deferred,  \* lastConnectionWritten: "no", "due", "overtaken" by a record
  reader,    \* lastConnectionReader: "off", "opening", "done"
  fetched,   \* what it has read
  file,      \* the record in last-connection.json
  newest,    \* history: the last record that was made
  excused    \* history: the write of it failed, or the panel went away

recorderVars == <<active, last, queued, writer, replaced, deferred, reader,
                  fetched, file, newest, excused>>

\* Component.onCompleted, with whatever an earlier panel left.
RecorderInit ==
  /\ active = TRUE /\ last = None /\ queued = None
  /\ writer = None /\ replaced = FALSE /\ deferred = "no"
  /\ reader = "opening" /\ fetched = None
  /\ file \in {None, 1} /\ newest = file /\ excused = FALSE

\* The writer is started with r.
StartWriter(r) == writer' = r /\ replaced' = FALSE

\* A connection succeeded.  Two of them are at least a command apart, so that
\* a deferred call is overtaken by one record at most.
RecordConnection ==
  /\ active /\ newest < MaxRecords /\ deferred # "overtaken"
  /\ newest' = newest + 1 /\ last' = newest' /\ excused' = FALSE
  /\ deferred' = IF deferred = "due" THEN "overtaken" ELSE "no"
  /\ IF writer # None
     THEN queued' = newest' /\ UNCHANGED <<writer, replaced>>
     ELSE StartWriter(newest') /\ UNCHANGED queued
  /\ UNCHANGED <<active, reader, fetched, file>>

\* os.replace, the last thing write() does.
Replace ==
  /\ writer # None /\ ~replaced
  /\ file' = writer /\ replaced' = TRUE
  /\ UNCHANGED <<active, last, queued, writer, deferred, reader, fetched,
                 newest, excused>>

\* The writer ends, with or without success; the queue waits for the next
\* turn of the event loop.
WriterExits ==
  /\ writer # None /\ deferred = "no"
  /\ writer' = None /\ deferred' = "due"
  /\ excused' = (excused \/ (~replaced /\ writer = newest))
  /\ UNCHANGED <<active, last, queued, replaced, reader, fetched, file,
                 newest>>

\* Mutant: the queue is written whatever happened since.
WrittenRegardless ==
  /\ deferred # "no" /\ deferred' = "no"
  /\ queued' = None
  /\ IF active /\ queued # None
     THEN StartWriter(queued)
     ELSE UNCHANGED <<writer, replaced>>
  /\ excused' = (excused \/ (queued = newest /\ ~active))
  /\ UNCHANGED <<active, last, reader, fetched, file, newest>>

\* lastConnectionWritten.
Written ==
  /\ deferred # "no" /\ deferred' = "no"
  /\ queued' = None
  /\ IF active /\ queued # None /\ writer = None
     THEN StartWriter(queued)
     ELSE UNCHANGED <<writer, replaced>>
  /\ excused' = (excused \/ (queued = newest /\ ~active))
  /\ UNCHANGED <<active, last, reader, fetched, file, newest>>

-----------------------------------------------------------------------------
\* The reader opens the file: the old record or the new one, never half of it.
Read ==
  /\ reader = "opening"
  /\ reader' = "done" /\ fetched' \in {file, None}
  /\ UNCHANGED <<active, last, queued, writer, replaced, deferred, file, newest,
                 excused>>

\* It exits, done, failed or stopped (expireLastConnection, onActiveChanged).
ReaderExits ==
  /\ reader # "off" /\ reader' = "off"
  /\ last' = IF ~active THEN last ELSE IF reader = "done" THEN fetched ELSE None
  /\ fetched' = None
  /\ UNCHANGED <<active, queued, writer, replaced, deferred, file, newest,
                 excused>>

SetActive ==
  /\ active' = ~active
  /\ UNCHANGED <<last, queued, writer, replaced, deferred, reader, fetched, file,
                 newest, excused>>

\* The shell ends, with its processes, and starts again.
RestartPanel ==
  /\ active' = TRUE /\ last' = None /\ queued' = None
  /\ writer' = None /\ replaced' = FALSE /\ deferred' = "no"
  /\ reader' = "opening" /\ fetched' = None
  /\ excused' = (file # newest)
  /\ UNCHANGED <<file, newest>>

RecorderNext ==
  \/ RecordConnection \/ Replace \/ WriterExits \/ Written
  \/ Read \/ ReaderExits \/ SetActive \/ RestartPanel
=============================================================================
