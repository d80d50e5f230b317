-------------------------- MODULE SocketProperties --------------------------
(***************************************************************************)
(* What the control socket guarantees, whatever its clients do.            *)
(***************************************************************************)
EXTENDS Socket

(* No descriptor of a client is lost or closed twice: at every step the    *)
(* process has exactly those which read_request has listed or the handler  *)
(* was given, and none is left when a response is sent or the next         *)
(* connection awaited, however the request ended.  (A leak would end the   *)
(* daemon at its limit; a second close would hit what reuses the number.)  *)
DescriptorsClosed ==
  /\ open = held + source
  /\ pc \notin {"read", "handle"} => open = 0

(* One client holds up the loop, and with it tick() and everybody else,    *)
(* for a bounded time: a line that arrives in pieces has one deadline, and *)
(* its answer no more than what was left of it.                            *)
LoopHeldBriefly == waited < 2 * RequestTimeout

(* What is handled is a request that an authorized client sent to its end: *)
(* no part of one, nothing longer than allowed, and with a descriptor if   *)
(* and only if it imports from one.                                        *)
HandledAsSent ==
  pc = "handle" =>
    LET chunks == sent[cur]
    IN  /\ cur \notin Strangers
        /\ Len(chunks) \in 1..MaxChunks
        /\ \A i \in 1..Len(chunks) :
             chunks[i].text = IF i < Len(chunks) THEN "part"
                              ELSE IF source = 1 THEN "import" ELSE "plain"
        /\ source = Cardinality({i \in 1..Len(chunks) : chunks[i].fds > 0})

=============================================================================
