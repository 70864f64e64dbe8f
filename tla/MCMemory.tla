------------------------------ MODULE MCMemory ------------------------------
(* Address spaces of five pages of two bytes, for TLC.                     *)
EXTENDS Memory

Segment(end, header, bytes) == [end |-> end, header |-> header, bytes |-> bytes]
Good(end) == Segment(end, TRUE, TRUE)

\* A program with overlapping segments, which can be loaded, and one for each way to
\* fail after pages have been allocated.
MCProgram == {
  [segs |-> <<Good(1)>>, args |-> FALSE],
  [segs |-> <<Good(3), Good(2)>>, args |-> TRUE],
  [segs |-> <<Good(2), Segment(3, TRUE, FALSE)>>, args |-> TRUE],
  [segs |-> <<Good(2), Segment(3, FALSE, TRUE)>>, args |-> TRUE],
  [segs |-> <<Good(6)>>, args |-> TRUE],
  [segs |-> <<Good(0)>>, args |-> TRUE]}

MCDelta == {<<"+", 1>>, <<"+", 3>>, <<"-", 1>>, <<"-", 3>>, <<"-", 6>>}
=============================================================================
