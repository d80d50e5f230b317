---------------------------- MODULE SocketProofs -----------------------------
(***************************************************************************)
(* Proofs about the control socket, for every set of clients, whatever     *)
(* they may send, and every timeout, limit and backlog.  The inductive     *)
(* invariant has one part per promise:                                     *)
(*                                                                         *)
(*   ShapeOK   the types, and whose connection is served at which step;    *)
(*   FilesOK   where the descriptors are at each step;                     *)
(*   TimeOK    how much of the request's time is left at each step;        *)
(*   LineOK    what of the client's line has been read, and which of its   *)
(*             chunks brought the descriptor that is held.                 *)
(***************************************************************************)
EXTENDS SocketProperties, FiniteSetTheorems, SequenceTheorems, TLAPS

Chunk == [text : {"part"} \union Endings, fds : 0..3]

ShapeOK ==
  /\ conn \in [Clients -> {"new", "open", "finished", "closed"}]
  /\ sent \in [Clients -> Seq(Chunk)]
  /\ queue \in Seq(Clients)
  /\ pc \in {"select", "tick", "read", "handle", "answer", "down"}
  /\ pc \in {"read", "handle", "answer"} => cur \in Clients
  /\ pc \in {"read", "handle"} => cur \notin Strangers
  /\ result \in {"none", "ok", "rejected", "internal"}
  /\ read \in Nat

FilesOK ==
  /\ held \in 0..1 /\ source \in 0..1 /\ open = held + source
  /\ pc # "read" => held = 0
  /\ pc # "handle" => source = 0

TimeOK ==
  /\ waited \in Nat /\ left \in Nat /\ limit \in 0..RequestTimeout
  /\ pc = "read" => waited + left = RequestTimeout
  /\ pc = "handle" => waited < RequestTimeout
  /\ pc = "answer" /\ result = "ok" => waited + left < 2 * RequestTimeout
  /\ waited < 2 * RequestTimeout

\* Of the first m chunks, as many brought descriptors as there are fds.
Carried(chunks, m, fds) ==
  \/ fds = 0 /\ \A i \in 1..m : chunks[i].fds = 0
  \/ fds = 1 /\ \E k \in 1..m :
       /\ chunks[k].fds > 0
       /\ \A i \in (1..m) \ {k} : chunks[i].fds = 0

LineOK ==
  /\ \A c \in Clients : \A i \in 1..(Len(sent[c]) - 1) : sent[c][i].text = "part"
  /\ pc = "read" => read <= Len(sent[cur]) /\ Carried(sent[cur], read, held)
  /\ pc = "handle" =>
       LET chunks == sent[cur]
       IN  /\ Len(chunks) \in 1..MaxChunks
           /\ chunks[Len(chunks)].text = IF source = 1 THEN "import" ELSE "plain"
           /\ Carried(chunks, Len(chunks), source)

SocketOK == ShapeOK /\ FilesOK /\ TimeOK /\ LineOK

-----------------------------------------------------------------------------
(* The kernel installs two descriptors of a chunk at most, and read_request*)
(* lists all that are installed.                                           *)
LEMMA Descriptors ==
  ASSUME NEW chunk \in Chunk
  PROVE  /\ Installed(chunk) = IF chunk.fds <= 2 THEN chunk.fds ELSE 2
         /\ Listed(chunk) = Installed(chunk)
<1>1. chunk.fds \in 0..3
  BY DEF Chunk
<1>2. \A n \in 0..3 : Min({n, 2}) = IF n <= 2 THEN n ELSE 2
  <2> SUFFICES ASSUME NEW n \in 0..3 PROVE Min({n, 2}) = IF n <= 2 THEN n ELSE 2
    OBVIOUS
  <2>1. \E m \in {n, 2} : \A k \in {n, 2} : m <= k
    OBVIOUS
  <2>2. Min({n, 2}) \in {n, 2} /\ \A k \in {n, 2} : Min({n, 2}) <= k
    BY <2>1 DEF Min
  <2> QED
    BY <2>2
<1> QED
  BY <1>1, <1>2 DEF Installed, Listed

(* What one recvmsg returns: the next chunks of the line, of which only    *)
(* the last can have descriptors.                                          *)
LEMMA Received ==
  ASSUME ShapeOK, cur \in Clients, NEW n \in Available
  PROVE  /\ n \in Nat \ {0} /\ read + n <= Len(sent[cur])
         /\ Unread[n] = sent[cur][read + n] /\ Unread[n] \in Chunk
         /\ \A i \in 1..(n - 1) : sent[cur][read + i].fds = 0
<1> DEFINE line == sent[cur]
<1>1. line \in Seq(Chunk) /\ read \in Nat
  BY DEF ShapeOK
<1>2. Len(line) \in Nat /\ \A i \in 1..Len(line) : line[i] \in Chunk
  BY <1>1, LenProperties, ElementOfSeq
<1>3. \A i \in (read + 1)..Len(line) : line[i] \in Chunk
  BY <1>1, <1>2
<1> HIDE DEF line
<1>4. /\ Len(SubSeq(line, read + 1, Len(line)))
           = IF read + 1 <= Len(line) THEN Len(line) - (read + 1) + 1 ELSE 0
      /\ \A i \in 1..(Len(line) - (read + 1) + 1) :
           SubSeq(line, read + 1, Len(line))[i] = line[read + 1 + i - 1]
  BY <1>1, <1>2, <1>3, SubSeqProperties
<1>5. Unread = SubSeq(line, read + 1, Len(line))
  BY DEF Unread, line
<1>6. n \in 1..Len(Unread) /\ \A i \in 1..(n - 1) : Unread[i].fds = 0
  BY DEF Available
<1>7. n \in Nat \ {0} /\ read + n <= Len(line)
  BY <1>1, <1>2, <1>4, <1>5, <1>6
<1>8. \A i \in 1..n : Unread[i] = line[read + i]
  BY <1>1, <1>2, <1>4, <1>5, <1>7
<1>9. Unread[n] \in Chunk
  BY <1>1, <1>2, <1>7, <1>8
<1>10. \A i \in 1..(n - 1) : line[read + i].fds = 0
  BY <1>6, <1>7, <1>8
<1> QED
  BY <1>7, <1>8, <1>9, <1>10 DEF line

-----------------------------------------------------------------------------
(* Every step keeps types, and serves authorized clients only.             *)
LEMMA ShapeStep == ShapeOK /\ [Next]_vars => ShapeOK'
<1> SUFFICES ASSUME ShapeOK, [Next]_vars PROVE ShapeOK'
  OBVIOUS
<1> USE SocketAssumption
    DEF ShapeOK, clients, timing, files, daemon
<1>1. ASSUME NEW c \in Clients, Connect(c) PROVE ShapeOK'
  BY <1>1 DEF Connect
<1>2. ASSUME NEW c \in Clients, Send(c) PROVE ShapeOK'
  <2>1. PICK chunk \in Chunks[c] : sent' = [sent EXCEPT ![c] = Append(@, chunk)]
    BY <1>2 DEF Send
  <2>2. chunk \in Chunk
    BY DEF Chunk
  <2>3. Append(sent[c], chunk) \in Seq(Chunk)
    BY <2>2
  <2> QED
    BY <1>2, <2>1, <2>3 DEF Send
<1>3. ASSUME NEW c \in Clients, Finish(c) PROVE ShapeOK'
  BY <1>3 DEF Finish
<1>4. ASSUME NEW c \in Clients, Leave(c) PROVE ShapeOK'
  BY <1>4 DEF Leave
<1>5. CASE Accept
  BY <1>5 DEF Accept
<1>6. CASE Loop
  BY <1>6 DEF Loop
<1>7. CASE Receive
  <2>1. PICK n \in Available : read' = read + n
    BY <1>7 DEF Receive
  <2>2. read' \in Nat
    BY <1>7, <2>1, Received DEF Receive
  <2> QED
    BY <1>7, <2>2 DEF Receive, Refuse
<1>8. CASE EndOfInput
  BY <1>8 DEF EndOfInput, Refuse
<1>9. CASE Wait
  BY <1>9 DEF Wait
<1>10. CASE Expire
  BY <1>10 DEF Expire, Refuse
<1>11. CASE Break
  BY <1>11 DEF Break, Close
<1>12. CASE Handle
  BY <1>12 DEF Handle
<1>13. CASE Answer
  BY <1>13 DEF Answer, Close
<1>14. CASE Stall
  BY <1>14 DEF Stall
<1>15. CASE Die
  BY <1>15 DEF Die
<1>16. CASE Restart
  BY <1>16 DEF Restart
<1>17. CASE UNCHANGED vars
  BY <1>17 DEF vars
<1> QED
  BY <1>1, <1>2, <1>3, <1>4, <1>5, <1>6, <1>7, <1>8, <1>9,
     <1>10, <1>11, <1>12, <1>13, <1>14, <1>15, <1>16, <1>17 DEF Next, Serving

(* Every step keeps account of the descriptors.                            *)
LEMMA FilesStep == ShapeOK /\ FilesOK /\ [Next]_vars => FilesOK'
<1> SUFFICES ASSUME ShapeOK, FilesOK, [Next]_vars PROVE FilesOK'
  OBVIOUS
<1> USE DEF FilesOK, clients, timing, files, daemon
<1>1. ASSUME NEW c \in Clients, Connect(c) PROVE FilesOK'
  BY <1>1 DEF Connect
<1>2. ASSUME NEW c \in Clients, Send(c) PROVE FilesOK'
  BY <1>2 DEF Send
<1>3. ASSUME NEW c \in Clients, Finish(c) PROVE FilesOK'
  BY <1>3 DEF Finish
<1>4. ASSUME NEW c \in Clients, Leave(c) PROVE FilesOK'
  BY <1>4 DEF Leave
<1>5. CASE Accept
  BY <1>5 DEF Accept
<1>6. CASE Loop
  BY <1>6 DEF Loop
<1>7. CASE Receive
  <2> DEFINE Fds(n) == held + Listed(Unread[n])
  <2>1. \A n \in Available : /\ Listed(Unread[n]) = Installed(Unread[n])
                             /\ Installed(Unread[n]) \in 0..2
    <3> TAKE n \in Available
    <3>1. Unread[n] \in Chunk /\ Unread[n].fds \in 0..3
      BY <1>7, Received DEF Receive, ShapeOK, Chunk
    <3> QED
      BY <3>1, Descriptors
  <2>2. \A n \in Available :
          Verdict(Unread[n], Fds(n), read + n) # "refused" => Fds(n) <= 1
    BY <2>1 DEF Verdict, FilesOK
  <2> QED
    BY <1>7, <2>1, <2>2 DEF Receive, Refuse
<1>8. CASE EndOfInput
  BY <1>8 DEF EndOfInput, Refuse
<1>9. CASE Wait
  BY <1>9 DEF Wait
<1>10. CASE Expire
  BY <1>10 DEF Expire, Refuse
<1>11. CASE Break
  BY <1>11 DEF Break, Close
<1>12. CASE Handle
  BY <1>12 DEF Handle
<1>13. CASE Answer
  BY <1>13 DEF Answer, Close
<1>14. CASE Stall
  BY <1>14 DEF Stall
<1>15. CASE Die
  BY <1>15 DEF Die
<1>16. CASE Restart
  BY <1>16 DEF Restart
<1>17. CASE UNCHANGED vars
  BY <1>17 DEF vars
<1> QED
  BY <1>1, <1>2, <1>3, <1>4, <1>5, <1>6, <1>7, <1>8, <1>9,
     <1>10, <1>11, <1>12, <1>13, <1>14, <1>15, <1>16, <1>17 DEF Next, Serving

(* Every step leaves the present request less than two timeouts in all.    *)
LEMMA TimeStep == ShapeOK /\ TimeOK /\ [Next]_vars => TimeOK'
<1> SUFFICES ASSUME ShapeOK, TimeOK, [Next]_vars PROVE TimeOK'
  OBVIOUS
<1> USE SocketAssumption DEF TimeOK, clients, timing, files, daemon
<1>1. ASSUME NEW c \in Clients, Connect(c) PROVE TimeOK'
  BY <1>1 DEF Connect
<1>2. ASSUME NEW c \in Clients, Send(c) PROVE TimeOK'
  BY <1>2 DEF Send
<1>3. ASSUME NEW c \in Clients, Finish(c) PROVE TimeOK'
  BY <1>3 DEF Finish
<1>4. ASSUME NEW c \in Clients, Leave(c) PROVE TimeOK'
  BY <1>4 DEF Leave
<1>5. CASE Accept
  BY <1>5 DEF Accept
<1>6. CASE Loop
  BY <1>6 DEF Loop
<1>7. CASE Receive
  BY <1>7 DEF Receive, Refuse, Remaining
<1>8. CASE EndOfInput
  BY <1>8 DEF EndOfInput, Refuse
<1>9. CASE Wait
  BY <1>9 DEF Wait
<1>10. CASE Expire
  BY <1>10 DEF Expire, Refuse
<1>11. CASE Break
  BY <1>11 DEF Break, Close
<1>12. CASE Handle
  BY <1>12 DEF Handle
<1>13. CASE Answer
  BY <1>13 DEF Answer, Close
<1>14. CASE Stall
  BY <1>14 DEF Stall
<1>15. CASE Die
  BY <1>15 DEF Die
<1>16. CASE Restart
  BY <1>16 DEF Restart
<1>17. CASE UNCHANGED vars
  BY <1>17 DEF vars
<1> QED
  BY <1>1, <1>2, <1>3, <1>4, <1>5, <1>6, <1>7, <1>8, <1>9,
     <1>10, <1>11, <1>12, <1>13, <1>14, <1>15, <1>16, <1>17 DEF Next, Serving

-----------------------------------------------------------------------------
(* What has been read of a line stays as it is while more of it comes.     *)
LEMMA Prefix ==
  ASSUME NEW line \in Seq(Chunk), NEW chunk \in Chunk,
         NEW m \in 0..Len(line), NEW fds
  PROVE  /\ Len(Append(line, chunk)) = Len(line) + 1
         /\ \A i \in 1..Len(line) : Append(line, chunk)[i] = line[i]
         /\ Append(line, chunk)[Len(line) + 1] = chunk
         /\ Carried(line, m, fds) => Carried(Append(line, chunk), m, fds)
<1>1. Len(line) \in Nat
  BY LenProperties
<1>2. /\ Len(Append(line, chunk)) = Len(line) + 1
      /\ \A i \in 1..Len(line) : Append(line, chunk)[i] = line[i]
      /\ Append(line, chunk)[Len(line) + 1] = chunk
  BY <1>1
<1>3. \A i \in 1..m : Append(line, chunk)[i] = line[i]
  BY <1>1, <1>2
<1>4. Carried(line, m, fds) => Carried(Append(line, chunk), m, fds)
  BY <1>3, Zenon DEF Carried
<1> QED
  BY <1>2, <1>4

(* The accounts of descriptors over consecutive chunks add up: there was   *)
(* one before, or there is one on the last chunk, or none at all.          *)
LEMMA Carry ==
  ASSUME NEW line \in Seq(Chunk), NEW m \in Nat, NEW n \in Nat \ {0},
         NEW before \in 0..1, m + n <= Len(line),
         Carried(line, m, before),
         \A i \in 1..(n - 1) : line[m + i].fds = 0,
         before + line[m + n].fds <= 1
  PROVE  Carried(line, m + n, before + line[m + n].fds)
<1> DEFINE last == line[m + n].fds
<1>1. Len(line) \in Nat /\ last \in 0..3
  <2>1. Len(line) \in Nat
    BY LenProperties
  <2>2. m + n \in 1..Len(line)
    BY <2>1
  <2>3. line[m + n] \in Chunk
    BY <2>2, ElementOfSeq
  <2> QED
    BY <2>1, <2>3 DEF Chunk
<1>2. \A i \in 1..(m + n) :
        i \in 1..m \/ i = m + n \/ line[i].fds = 0
  <2> SUFFICES ASSUME NEW i \in (m + 1)..(m + n - 1) PROVE line[i].fds = 0
    OBVIOUS
  <2>1. i - m \in 1..(n - 1) /\ m + (i - m) = i
    OBVIOUS
  <2> QED
    BY <2>1
<1>3. CASE before = 0
  <2>1. \A i \in 1..m : line[i].fds = 0
    BY <1>3 DEF Carried
  <2>2. CASE last = 0
    <3>1. \A i \in 1..(m + n) : line[i].fds = 0
      BY <1>2, <2>1, <2>2
    <3> QED
      BY <1>3, <2>2, <3>1 DEF Carried
  <2>3. CASE last = 1
    <3>1. m + n \in 1..(m + n) /\ line[m + n].fds > 0
      BY <2>3
    <3>2. \A i \in (1..(m + n)) \ {m + n} : line[i].fds = 0
      BY <1>2, <2>1
    <3> QED
      BY <1>3, <2>3, <3>1, <3>2 DEF Carried
  <2> QED
    BY <1>1, <1>3, <2>2, <2>3
<1>4. CASE before = 1
  <2>1. last = 0
    BY <1>1, <1>4
  <2>2. PICK k \in 1..m : /\ line[k].fds > 0
                          /\ \A i \in (1..m) \ {k} : line[i].fds = 0
    BY <1>4 DEF Carried
  <2>3. k \in 1..(m + n)
    OBVIOUS
  <2>4. \A i \in (1..(m + n)) \ {k} : line[i].fds = 0
    BY <1>2, <2>1, <2>2
  <2> QED
    BY <1>4, <2>1, <2>2, <2>3, <2>4 DEF Carried
<1> QED
  BY <1>3, <1>4

(* A line ends with its last chunk.                                        *)
LEMMA OneEnding ==
  ASSUME ShapeOK, LineOK, NEW c \in Clients, NEW i \in 1..Len(sent[c]),
         sent[c][i].text # "part"
  PROVE  i = Len(sent[c])
<1>1. Len(sent[c]) \in Nat
  BY LenProperties DEF ShapeOK
<1>2. i \notin 1..(Len(sent[c]) - 1)
  BY DEF LineOK
<1> QED
  BY <1>1, <1>2

(* Clients disturb neither what was read nor what is being handled.        *)
LEMMA SendKeepsLines ==
  ASSUME ShapeOK, LineOK, NEW c \in Clients, Send(c)
  PROVE  LineOK'
<1> USE SocketAssumption
<1>1. PICK chunk \in Chunks[c] : sent' = [sent EXCEPT ![c] = Append(@, chunk)]
  BY DEF Send
<1>2. chunk \in Chunk
  BY DEF Chunk
<1>3. \A d \in Clients : sent[d] \in Seq(Chunk) /\ Len(sent[d]) \in Nat
  BY LenProperties DEF ShapeOK
<1>4. /\ sent'[c] = Append(sent[c], chunk)
      /\ \A d \in Clients \ {c} : sent'[d] = sent[d]
  BY <1>1 DEF ShapeOK
<1>5. /\ Len(sent'[c]) = Len(sent[c]) + 1
      /\ \A i \in 1..Len(sent[c]) : sent'[c][i] = sent[c][i]
      /\ \A m \in 0..Len(sent[c]), fds \in 0..1 :
           Carried(sent[c], m, fds) => Carried(sent'[c], m, fds)
  BY <1>2, <1>3, <1>4, Prefix
<1>6. UNCHANGED <<pc, cur, read, held, source>>
  BY DEF Send, daemon, files, timing
<1>7. ~Ended(sent[c])
  BY DEF Send
<1>8. \A i \in 1..Len(sent[c]) : sent[c][i].text = "part"
  <2> SUFFICES ASSUME NEW i \in 1..Len(sent[c]), sent[c][i].text # "part"
               PROVE  FALSE
    OBVIOUS
  <2>1. i = Len(sent[c])
    BY OneEnding
  <2>2. sent[c][i] \in Chunk
    BY <1>3, ElementOfSeq
  <2>3. sent[c][Len(sent[c])].text \in Endings /\ sent[c] # << >>
    BY <1>3, <2>1, <2>2 DEF Chunk
  <2> QED
    BY <1>7, <2>3 DEF Ended
<1>9. \A d \in Clients : \A i \in 1..(Len(sent'[d]) - 1) : sent'[d][i].text = "part"
  <2>1. \A i \in 1..(Len(sent'[c]) - 1) : sent'[c][i].text = "part"
    BY <1>3, <1>5, <1>8
  <2>2. \A d \in Clients \ {c} :
          \A i \in 1..(Len(sent'[d]) - 1) : sent'[d][i].text = "part"
    BY <1>4 DEF LineOK
  <2> QED
    BY <2>1, <2>2
<1>10. CASE pc = "read"
  <2>1. cur \in Clients /\ read \in 0..Len(sent[cur]) /\ held \in 0..1
    BY <1>3, <1>10 DEF ShapeOK, LineOK, Carried
  <2>2. Carried(sent[cur], read, held)
    BY <1>10 DEF LineOK
  <2>3. read <= Len(sent'[cur]) /\ Carried(sent'[cur], read, held)
    <3>1. CASE cur = c
      BY <1>3, <1>5, <2>1, <2>2, <3>1
    <3>2. CASE cur # c
      BY <1>4, <2>1, <2>2, <3>2
    <3> QED
      BY <3>1, <3>2
  <2> QED
    BY <1>6, <1>9, <1>10, <2>3 DEF LineOK
<1>11. CASE pc = "handle"
  <2>1. cur \in Clients
    BY <1>11 DEF ShapeOK
  <2>2. Len(sent[cur]) \in 1..MaxChunks /\ sent[cur][Len(sent[cur])].text # "part"
    BY <1>11 DEF LineOK
  <2>3. cur # c
    BY <1>3, <1>8, <2>1, <2>2
  <2>4. sent'[cur] = sent[cur]
    BY <1>4, <2>1, <2>3
  <2> QED
    BY <1>6, <1>9, <1>11, <2>4 DEF LineOK
<1> QED
  BY <1>6, <1>9, <1>10, <1>11 DEF LineOK

(* What the daemon accepts as one more part of a line, or as its end, is   *)
(* within the limit and adds its descriptors to the account.               *)
LEMMA ReceiveKeepsLines ==
  ASSUME ShapeOK, FilesOK, LineOK, Receive
  PROVE  LineOK'
<1> USE SocketAssumption
<1> DEFINE Fds(n) == held + Listed(Unread[n])
           Judged(n) == Verdict(Unread[n], Fds(n), read + n)
<1>1. cur \in Clients /\ read \in Nat /\ held \in 0..1 /\ Carried(sent[cur], read, held)
  BY DEF ShapeOK, FilesOK, LineOK, Receive
<1>2. sent[cur] \in Seq(Chunk) /\ Len(sent[cur]) \in Nat
  BY <1>1, LenProperties DEF ShapeOK
<1>3. PICK n \in Available :
        /\ read' = read + n
        /\ \/ Judged(n) = "refused" /\ pc' = "answer"
           \/ Judged(n) = "incomplete" /\ held' = Fds(n) /\ UNCHANGED pc
           \/ Judged(n) = "request" /\ pc' = "handle" /\ source' = Fds(n)
  BY DEF Receive, Refuse
<1>4. /\ n \in Nat \ {0} /\ read + n <= Len(sent[cur])
      /\ Unread[n] = sent[cur][read + n] /\ Unread[n] \in Chunk
      /\ \A i \in 1..(n - 1) : sent[cur][read + i].fds = 0
  BY <1>1, Received
<1>5. UNCHANGED <<conn, sent, cur>>
  BY DEF Receive, clients
<1>6. Judged(n) # "refused" =>
        /\ Unread[n].fds <= 2 /\ Fds(n) <= 1 /\ read + n <= MaxChunks
        /\ Fds(n) = held + sent[cur][read + n].fds
  <2>1. Unread[n].fds \in 0..3
    BY <1>4 DEF Chunk
  <2>2. Fds(n) \in Nat
    BY <1>1, <1>4, <2>1, Descriptors
  <2>3. Judged(n) # "refused" =>
          Unread[n].fds <= 2 /\ Fds(n) <= 1 /\ read + n <= MaxChunks
    BY <1>1, <1>4, <2>1, <2>2 DEF Verdict, Truncated
  <2> QED
    BY <1>4, <2>1, <2>3, Descriptors
<1>7. Judged(n) # "refused" => Carried(sent[cur], read + n, Fds(n))
  <2> SUFFICES ASSUME Judged(n) # "refused"
               PROVE  Carried(sent[cur], read + n, held + sent[cur][read + n].fds)
    BY <1>6
  <2> HIDE DEF Judged
  <2> QED
    BY <1>1, <1>2, <1>4, <1>6, Carry
<1>8. CASE Judged(n) = "refused"
  BY <1>3, <1>5, <1>8 DEF LineOK
<1>9. CASE Judged(n) = "incomplete"
  <2>1. pc' = "read" /\ held' = Fds(n)
    BY <1>3, <1>9 DEF Receive
  <2> QED
    BY <1>3, <1>4, <1>5, <1>7, <1>9, <2>1 DEF LineOK
<1>10. CASE Judged(n) = "request"
  <2>1. pc' = "handle" /\ source' = Fds(n)
    BY <1>3, <1>10
  <2>2. /\ Unread[n].text # "part"
        /\ Unread[n].text = IF Fds(n) = 1 THEN "import" ELSE "plain"
    BY <1>10 DEF Verdict
  <2>3. read + n = Len(sent[cur])
    <3>1. read + n \in 1..Len(sent[cur])
      BY <1>1, <1>2, <1>4
    <3> QED
      BY <1>1, <1>4, <2>2, <3>1, OneEnding
  <2> QED
    BY <1>1, <1>4, <1>5, <1>6, <1>7, <1>10, <2>1, <2>2, <2>3 DEF LineOK
<1> QED
  BY <1>3, <1>8, <1>9, <1>10

(* Every step preserves what is known of the lines.                        *)
LEMMA LineStep == ShapeOK /\ FilesOK /\ LineOK /\ [Next]_vars => LineOK'
<1> SUFFICES ASSUME ShapeOK, FilesOK, LineOK, [Next]_vars PROVE LineOK'
  OBVIOUS
<1> USE DEF clients, timing, files, daemon
<1>1. \A c \in Clients : sent[c] \in Seq(Chunk) /\ Len(sent[c]) \in Nat
  BY LenProperties DEF ShapeOK
<1>2. ASSUME NEW c \in Clients, Connect(c) \/ Finish(c) \/ Leave(c) PROVE LineOK'
  BY <1>2 DEF Connect, Finish, Leave, LineOK
<1>3. ASSUME NEW c \in Clients, Send(c) PROVE LineOK'
  BY <1>3, SendKeepsLines
<1>4. CASE Accept
  <2>1. cur' \in Clients
    BY <1>4, HeadTailProperties DEF Accept, ShapeOK
  <2>2. read' = 0 /\ held' = 0 /\ sent' = sent /\ pc' # "handle"
    BY <1>4 DEF Accept, FilesOK
  <2>3. read' <= Len(sent'[cur']) /\ Carried(sent'[cur'], read', held')
    BY <1>1, <2>1, <2>2 DEF Carried
  <2> QED
    BY <2>2, <2>3 DEF LineOK
<1>5. CASE Loop
  BY <1>5 DEF Loop, LineOK
<1>6. CASE Receive
  BY <1>6, ReceiveKeepsLines
<1>7. CASE EndOfInput \/ Expire \/ Handle
  BY <1>7 DEF EndOfInput, Expire, Handle, Refuse, LineOK
<1>8. CASE Wait \/ Stall
  BY <1>8 DEF Wait, Stall, LineOK
<1>9. CASE Break \/ Answer
  <2>1. pc' = "tick" /\ \A c \in Clients : sent'[c] \in {sent[c], << >>}
    BY <1>9 DEF Break, Answer, Close, ShapeOK
  <2>2. \A c \in Clients : \A i \in 1..(Len(sent'[c]) - 1) : sent'[c][i].text = "part"
    BY <2>1, EmptySeq DEF LineOK
  <2> QED
    BY <2>1, <2>2 DEF LineOK
<1>10. CASE Die
  BY <1>10, EmptySeq DEF Die, LineOK
<1>11. CASE Restart
  BY <1>11 DEF Restart, LineOK
<1>12. CASE UNCHANGED vars
  BY <1>12 DEF vars, LineOK
<1> QED
  BY <1>2, <1>3, <1>4, <1>5, <1>6, <1>7, <1>8, <1>9, <1>10, <1>11, <1>12
     DEF Next, Serving

-----------------------------------------------------------------------------
(* The inductive invariant of the control socket.                          *)
THEOREM SocketCorrect == Spec => []SocketOK
<1>1. Init => SocketOK
  <2> SUFFICES ASSUME Init PROVE SocketOK
    OBVIOUS
  <2>1. ShapeOK
    BY EmptySeq DEF Init, ShapeOK
  <2>2. FilesOK /\ TimeOK
    BY SocketAssumption DEF Init, FilesOK, TimeOK
  <2>3. LineOK
    BY EmptySeq DEF Init, LineOK
  <2> QED
    BY <2>1, <2>2, <2>3 DEF SocketOK
<1>2. SocketOK /\ [Next]_vars => SocketOK'
  BY ShapeStep, FilesStep, TimeStep, LineStep DEF SocketOK
<1> QED
  BY <1>1, <1>2, PTL DEF Spec

(* However a request ends, the process has exactly the descriptors that    *)
(* read_request has listed or the handler was given, and none between      *)
(* requests.                                                               *)
THEOREM Spec_DescriptorsClosed == Spec => []DescriptorsClosed
<1>1. SocketOK => DescriptorsClosed
  BY DEF SocketOK, FilesOK, DescriptorsClosed
<1> QED
  BY <1>1, SocketCorrect, PTL

(* However slowly a client sends and reads, the loop waits for it less     *)
(* than two request timeouts.                                              *)
THEOREM Spec_LoopHeldBriefly == Spec => []LoopHeldBriefly
<1>1. SocketOK => LoopHeldBriefly
  BY DEF SocketOK, TimeOK, LoopHeldBriefly
<1> QED
  BY <1>1, SocketCorrect, PTL

(* What is handled was sent to its end by an authorized client, within the *)
(* limit, with a descriptor if and only if it imports from one.            *)
THEOREM Spec_HandledAsSent == Spec => []HandledAsSent
<1>1. SocketOK => HandledAsSent
  <2> SUFFICES ASSUME SocketOK, pc = "handle" PROVE HandledAsSent
    BY DEF HandledAsSent
  <2> DEFINE chunks == sent[cur]
             Bringing == {i \in 1..Len(chunks) : chunks[i].fds > 0}
  <2>1. cur \in Clients /\ cur \notin Strangers /\ source \in 0..1
    BY DEF SocketOK, ShapeOK, FilesOK
  <2>2. /\ Len(chunks) \in 1..MaxChunks
        /\ chunks[Len(chunks)].text = IF source = 1 THEN "import" ELSE "plain"
        /\ \A i \in 1..(Len(chunks) - 1) : chunks[i].text = "part"
        /\ Carried(chunks, Len(chunks), source)
    BY <2>1 DEF SocketOK, LineOK
  <2>3. \A i \in 1..Len(chunks) :
          chunks[i].text = IF i < Len(chunks) THEN "part"
                           ELSE IF source = 1 THEN "import" ELSE "plain"
    BY <2>2
  <2>4. source = Cardinality(Bringing)
    <3>1. CASE source = 0
      <4>1. \A i \in 1..Len(chunks) : chunks[i].fds = 0
        BY <2>2, <3>1 DEF Carried
      <4>2. Bringing = {}
        BY <4>1
      <4> QED
        BY <3>1, <4>2, FS_EmptySet
    <3>2. CASE source = 1
      <4>1. PICK k \in 1..Len(chunks) :
              /\ chunks[k].fds > 0
              /\ \A i \in (1..Len(chunks)) \ {k} : chunks[i].fds = 0
        BY <2>2, <3>2 DEF Carried
      <4>2. Bringing = {k}
        BY <4>1
      <4> QED
        BY <3>2, <4>2, FS_Singleton
    <3> QED
      BY <2>1, <3>1, <3>2
  <2> QED
    BY <2>1, <2>2, <2>3, <2>4 DEF HandledAsSent
<1> QED
  BY <1>1, SocketCorrect, PTL
=============================================================================
