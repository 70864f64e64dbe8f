-------------------------------- MODULE Fifo --------------------------------
(***************************************************************************)
(* What a pipe promises: a queue of at most Size bytes, in order, each     *)
(* delivered once.  A read takes what there is, up to what it asked for,   *)
(* and finds the queue empty only if the write end has been closed.  That  *)
(* a read has returned can be seen, also when it returned nothing.         *)
(***************************************************************************)
EXTENDS Naturals, Sequences

CONSTANTS Byte, Size, Req

VARIABLES
  q,           \* the bytes in the pipe
  got,         \* <<s>> when the last step was a read that returned s, else <<>>
  wopen,       \* 1 while a write end is open
  ropen        \* 1 while a read end is open

vars == <<q, got, wopen, ropen>>

Init == q = <<>> /\ got = <<>> /\ wopen = 1 /\ ropen = 1

Put ==
  /\ wopen = 1
  /\ \E k \in 1 .. Size - Len(q), s \in [1 .. Size -> Byte] :
       q' = q \o SubSeq(s, 1, k)
  /\ got' = <<>>
  /\ UNCHANGED <<wopen, ropen>>

Least(m, n) == IF m <= n THEN m ELSE n

Take ==
  \E n \in Req :
    LET k == Least(n, Len(q)) IN
    /\ ropen = 1
    /\ q = <<>> => wopen = 0
    /\ got' = <<SubSeq(q, 1, k)>>
    /\ q' = SubSeq(q, k + 1, Len(q))
    /\ UNCHANGED <<wopen, ropen>>

Close ==
  /\ \/ wopen = 1 /\ wopen' = 0 /\ UNCHANGED ropen
     \/ ropen = 1 /\ ropen' = 0 /\ UNCHANGED wopen
  /\ got' = <<>>
  /\ UNCHANGED q

\* Anything else the processes do: no read returns.
Other == got' = <<>> /\ UNCHANGED <<q, wopen, ropen>>

Next == Put \/ Take \/ Close \/ Other

Spec == Init /\ [][Next]_vars
=============================================================================
