--------------------------------- MODULE Tty ---------------------------------
(***************************************************************************)
(* What the console promises to a reader: the line that is being edited,   *)
(* and the bytes of finished lines, in the order in which they were typed. *)
(* A byte that is taken can be put back in front.                          *)
(***************************************************************************)
EXTENDS Naturals, Sequences

CONSTANT Room      \* bytes that the console keeps

VARIABLES edit, done

Init == edit = <<>> /\ done = <<>>

\* A byte joins the line; one that ends it, or fills the console, finishes it.
Type(c) ==
  /\ Len(edit) + Len(done) < Room
  /\ IF c \in {"NL", "EOF"} \/ Len(edit) + Len(done) + 1 = Room
     THEN done' = done \o Append(edit, c) /\ edit' = <<>>
     ELSE edit' = Append(edit, c) /\ UNCHANGED done

Erase == edit # <<>> /\ edit' = SubSeq(edit, 1, Len(edit) - 1) /\ UNCHANGED done

Kill == edit' = <<>> /\ UNCHANGED done

Take == done # <<>> /\ done' = Tail(done) /\ UNCHANGED edit

Next == (\E c \in {"x", "NL", "EOF"} : Type(c)) \/ Erase \/ Kill \/ Take

Spec == Init /\ [][Next]_<<edit, done>>
=============================================================================
