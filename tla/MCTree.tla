------------------------------- MODULE MCTree -------------------------------
(* A small file system, for TLC: /a belongs to user 1, and /a/b is a file. *)
EXTENDS Tree

Abs(names) == [abs |-> TRUE, names |-> names]
Rel(names) == [abs |-> FALSE, names |-> names]
Do(op, path, arg) == [op |-> op, path |-> path, arg |-> arg]

Mode0755 == Mode0644 \cup {<<"u", "x">>, <<"o", "x">>}

Dir(nlink, uid, ents) ==
  [type |-> "dir", nlink |-> nlink, uid |-> uid, mode |-> Mode0755, up |-> ROOTINO, ents |-> ents]
File == [NoNode EXCEPT !.type = "file", !.nlink = 1, !.mode = Mode0644, !.up = 2]

MCNode0 == [i \in Inum |-> CASE i = 1 -> Dir(2, 0, << <<"a", 2>> >>)
                             [] i = 2 -> Dir(1, 1, << <<"b", 3>> >>)
                             [] i = 3 -> File
                             [] OTHER -> NoNode]
MCUidOf == [p \in Proc |-> IF p = "root" THEN 0 ELSE 1]
MCCwd0 == [p \in Proc |-> 1]

MCCall ==
  ({"user"} \X {Do("create", Abs(<<"a", "b">>), 0), Do("open", Rel(<<"a", "c">>), 0),
                Do("open", Abs(<<"a", "b">>), 0),
                Do("unlink", Abs(<<"a">>), 0), Do("unlink", Abs(<<"a", "c">>), 0)})
  \cup
  ({"root"} \X {Do("unlink", Abs(<<"a", "b">>), 0), Do("mkdir", Abs(<<"a", "c">>), 0),
                Do("chdir", Abs(<<"a", "c">>), 0), Do("chmod", Rel(<<"..">>), {}),
                Do("owner", Abs(<<"a">>), 2)})

\* After a panic nothing changes any more.
View == IF panicked # "no" THEN <<panicked, LookupSafe>> ELSE vars
=============================================================================
