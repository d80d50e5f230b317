------------------------------- MODULE Socket -------------------------------
(***************************************************************************)
(* The control socket: the clients of bin/omarchy-wireguard, the loop of   *)
(* daemon.py, which serves one connection per wake-up, and read_request    *)
(* and send_response of protocol.py.  What a request does is Controller's  *)
(* business; here it is whether, when and with which descriptors it is     *)
(* handled at all, whatever clients do: send in pieces, stall, send        *)
(* descriptors nobody asked for, give up.                                  *)
(*                                                                         *)
(* A client's bytes are the pieces that it sends at once; one recvmsg may  *)
(* return several.  Time is counted while the daemon waits for a client.   *)
(***************************************************************************)
EXTENDS Naturals, Sequences, FiniteSetsExt

CONSTANTS Clients,         \* one connection each
          Strangers,       \* the peers that are not authorized
          Nobody,
          Chunks,          \* of each client: what it may send at once
          RequestTimeout,  \* REQUEST_TIMEOUT, in units of time
          MaxChunks,       \* MAX_REQUEST
          Backlog          \* of server.listen

\* A chunk is a part of a line, or the end of one: of a request that needs no
\* descriptor ("plain"), of an import from a descriptor, or of something that
\* the checks of read_request refuse ("invalid", bytes behind the newline
\* included).  Of more than two descriptors the kernel delivers two.
Endings == {"plain", "import", "invalid"}

ASSUME SocketAssumption ==
  /\ Chunks \in [Clients -> SUBSET [text : {"part"} \union Endings, fds : 0..3]]
  /\ {RequestTimeout, MaxChunks, Backlog} \subseteq Nat \ {0}
  /\ Strangers \subseteq Clients /\ Nobody \notin Clients

VARIABLES
  conn,     \* of each client: "new", "open", "finished" (SHUT_WR), "closed"
  sent,     \* of each client: the chunks sent on its connection
  queue,    \* connections that wait for accept
  pc,       \* where the daemon is
  cur,      \* the connection it serves
  read,     \* how many of its chunks are read
  waited,   \* how long the daemon has waited for it
  limit,    \* the timeout that was last set on it
  left,     \* what is left of it for the present call
  held,     \* descriptors that read_request has listed
  source,   \* source_fd: 0 or 1
  open,     \* all descriptors that the process has from clients
  result    \* of the request, to be answered

clients == <<conn, sent>>
timing  == <<waited, limit, left>>
files   == <<held, source, open>>
daemon  == <<queue, pc, cur, read, timing, files, result>>
vars    == <<clients, daemon>>

Init ==
  /\ conn = [c \in Clients |-> "new"]
  /\ sent = [c \in Clients |-> << >>]
  /\ queue = << >>
  /\ pc = "select" /\ cur = Nobody /\ read = 0 /\ result = "none"
  /\ waited = 0 /\ limit = 0 /\ left = 0
  /\ held = 0 /\ source = 0 /\ open = 0

-----------------------------------------------------------------------------
(* The clients.                                                            *)

Ended(chunks) == chunks # << >> /\ chunks[Len(chunks)].text \in Endings

Connect(c) ==
  /\ conn[c] = "new" /\ pc # "down" /\ Len(queue) < Backlog
  /\ conn' = [conn EXCEPT ![c] = "open"]
  /\ queue' = Append(queue, c)
  /\ UNCHANGED <<sent, pc, cur, read, timing, files, result>>

\* One more piece of the line; one more than the daemon takes is enough.
Send(c) ==
  /\ conn[c] = "open" /\ ~Ended(sent[c]) /\ Len(sent[c]) <= MaxChunks
  /\ \E chunk \in Chunks[c] : sent' = [sent EXCEPT ![c] = Append(@, chunk)]
  /\ UNCHANGED <<conn, daemon>>

\* The shutdown that ends a request, perhaps an unfinished one.
Finish(c) ==
  /\ conn[c] = "open"
  /\ conn' = [conn EXCEPT ![c] = "finished"]
  /\ UNCHANGED <<sent, daemon>>

\* The client times out or is killed; what it sent can still be read.
Leave(c) ==
  /\ conn[c] \in {"open", "finished"}
  /\ conn' = [conn EXCEPT ![c] = "closed"]
  /\ UNCHANGED <<sent, daemon>>

-----------------------------------------------------------------------------
(* serve: select, one connection, tick.                                    *)

\* An unauthorized peer is answered on a connection without a timeout.
Accept ==
  /\ pc = "select" /\ queue # << >>
  /\ cur' = Head(queue) /\ queue' = Tail(queue)
  /\ IF cur' \in Strangers
     THEN pc' = "answer" /\ result' = "rejected" /\ limit' = 0
     ELSE pc' = "read" /\ result' = "none" /\ limit' = RequestTimeout
  /\ left' = limit' /\ read' = 0 /\ waited' = 0
  /\ UNCHANGED <<clients, files>>

\* select times out, or the tick behind a connection is done.
Loop ==
  /\ \/ pc = "select" /\ queue = << >> /\ pc' = "tick"
     \/ pc = "tick" /\ pc' = "select"
  /\ UNCHANGED <<clients, queue, cur, read, timing, files, result>>

\* `with connection`: it is closed, and what was not read is gone.
Close ==
  /\ pc' = "tick" /\ cur' = Nobody
  /\ conn' = [conn EXCEPT ![cur] = "closed"]
  /\ sent' = [sent EXCEPT ![cur] = << >>]
  /\ read' = 0 /\ waited' = 0 /\ limit' = 0 /\ left' = 0 /\ result' = "none"
  /\ UNCHANGED queue

-----------------------------------------------------------------------------
(* read_request.                                                           *)

Unread == SubSeq(sent[cur], read + 1, Len(sent[cur]))

\* How much one recvmsg can return: some of what is there, but nothing that
\* lies behind a chunk with descriptors.
Available == {n \in 1..Len(Unread) : \A i \in 1..(n - 1) : Unread[i].fds = 0}

\* What the kernel installs of a chunk's descriptors; MSG_CTRUNC.
Installed(chunk) == Min({chunk.fds, 2})
Truncated(chunk) == chunk.fds > 2

\* Mutant: a truncated message is refused before its descriptors are listed.
ListedUnlessTruncated(chunk) == IF Truncated(chunk) THEN 0 ELSE chunk.fds

Listed(chunk) == Installed(chunk)

\* Mutant: the time limit is one for each recvmsg.
RemainingAlways == RequestTimeout

\* Until the deadline of the whole request.
Remaining == RequestTimeout - waited

\* What the checks make of the chunk that was received last.
Verdict(chunk, fds, size) ==
  IF Truncated(chunk) \/ fds > 1 \/ size > MaxChunks THEN "refused"
  ELSE IF chunk.text = "part" THEN "incomplete"
  ELSE IF chunk.text = IF fds = 1 THEN "import" ELSE "plain" THEN "request"
  ELSE "refused"

\* Whatever is raised on the way, every listed descriptor is closed.
Refuse(fds, received) ==
  /\ pc' = "answer" /\ result' = "rejected" /\ left' = limit
  /\ held' = 0 /\ open' = received - fds
  /\ UNCHANGED <<limit, source>>

Receive ==
  /\ pc = "read" /\ left > 0
  /\ \E n \in Available :
       LET chunk    == Unread[n]
           fds      == held + Listed(chunk)
           received == open + Installed(chunk)
           verdict  == Verdict(chunk, fds, read + n)
       IN  /\ read' = read + n
           /\ \/ verdict = "refused" /\ Refuse(fds, received)
              \/ /\ verdict = "incomplete"
                 /\ held' = fds /\ open' = received
                 /\ limit' = Remaining /\ left' = limit'
                 /\ UNCHANGED <<pc, source, result>>
              \/ /\ verdict = "request"
                 /\ pc' = "handle" /\ held' = 0 /\ source' = fds /\ open' = received
                 /\ UNCHANGED <<limit, left, result>>
  /\ UNCHANGED <<clients, queue, cur, waited>>

\* Mutant: what came before the end of the input is taken for the request.
EndOfInputTaken ==
  /\ pc = "read" /\ left > 0 /\ Unread = << >> /\ conn[cur] # "open"
  /\ pc' = "handle" /\ source' = held /\ held' = 0
  /\ UNCHANGED <<clients, queue, cur, read, timing, open, result>>

\* An empty recvmsg: the request ended before its newline.
EndOfInput ==
  /\ pc = "read" /\ left > 0 /\ Unread = << >> /\ conn[cur] # "open"
  /\ Refuse(held, open)
  /\ UNCHANGED <<clients, queue, cur, read, waited>>

\* recvmsg waits.
Wait ==
  /\ pc = "read" /\ left > 0 /\ Unread = << >> /\ conn[cur] = "open"
  /\ left' = left - 1 /\ waited' = waited + 1
  /\ UNCHANGED <<clients, queue, pc, cur, read, limit, files, result>>

Expire ==
  /\ pc = "read" /\ left = 0
  /\ Refuse(held, open)
  /\ UNCHANGED <<clients, queue, cur, read, waited>>

\* recvmsg fails: nothing is answered.
Break ==
  /\ pc = "read" /\ conn[cur] = "closed"
  /\ held' = 0 /\ open' = open - held
  /\ Close
  /\ UNCHANGED source

-----------------------------------------------------------------------------
(* _handle_connection.                                                     *)

\* controller.handle answers, rejects, or fails and leaves an isolated
\* machine behind; source_fd is closed in any case.
Handle ==
  /\ pc = "handle"
  /\ pc' = "answer" /\ result' \in {"ok", "rejected", "internal"}
  /\ left' = limit
  /\ source' = 0 /\ open' = open - source
  /\ UNCHANGED <<clients, queue, cur, read, waited, limit, held>>

\* send_response succeeds, or finds the client gone.
Answer ==
  /\ pc = "answer"
  /\ Close
  /\ UNCHANGED files

\* A long answer waits for a client that does not read it, and is given up.
Stall ==
  /\ pc = "answer" /\ result = "ok" /\ left > 0
  /\ left' = left - 1 /\ waited' = waited + 1
  /\ UNCHANGED <<clients, queue, pc, cur, read, limit, files, result>>

\* The process ends, killed, stopped or by an exception; the kernel closes
\* what it had.
Die ==
  /\ pc # "down"
  /\ pc' = "down" /\ cur' = Nobody /\ queue' = << >>
  /\ conn' = [c \in Clients |-> IF conn[c] = "new" THEN "new" ELSE "closed"]
  /\ sent' = [c \in Clients |-> << >>]
  /\ read' = 0 /\ waited' = 0 /\ limit' = 0 /\ left' = 0 /\ result' = "none"
  /\ held' = 0 /\ source' = 0 /\ open' = 0

\* serve binds a new socket after boot().
Restart ==
  /\ pc = "down" /\ pc' = "select"
  /\ UNCHANGED <<clients, queue, cur, read, timing, files, result>>

Serving == \/ Accept \/ Loop
           \/ Receive \/ EndOfInput \/ Wait \/ Expire \/ Break
           \/ Handle \/ Answer \/ Stall

Next == \/ \E c \in Clients : Connect(c) \/ Send(c) \/ Finish(c) \/ Leave(c)
        \/ Serving \/ Die \/ Restart

Spec == Init /\ [][Next]_vars
=============================================================================
