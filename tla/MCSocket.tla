------------------------------ MODULE MCSocket ------------------------------
\* A small instance of the control socket for TLC: a client that may send
\* almost anything, one that sends a line, and one that is not
\* authorized (of which nothing is read).
EXTENDS SocketProperties

CONSTANTS c1, c2, s1

Piece(n)  == [text |-> "part", fds |-> n]
Plain     == [text |-> "plain", fds |-> 0]
Import(n) == [text |-> "import", fds |-> n]
Invalid   == [text |-> "invalid", fds |-> 0]

SomeChunks ==
  [c \in Clients |->
     CASE c = c1 -> {Piece(0), Piece(1), Piece(3), Plain, Import(0), Import(1)}
       [] c = c2 -> {Plain, Import(1), Invalid}
       [] OTHER  -> {}]
=============================================================================
