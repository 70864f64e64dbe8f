------------------------------ MODULE MCUsers -------------------------------
(* A small user database for TLC: see the .cfg file for the sizes.         *)
EXTENDS Users, TLC

CONSTANT j1

User(n, pw, id) == <<n, pw, id, id, n>>
Line(n, id, ms) == [name |-> n, gid |-> id, members |-> ms]

\* A part of the files passwd and group that mkfs puts on the disk.
MCPasswd == <<User("root", "password", 0), User("ken", "abcd1234", 1000)>>
MCGroup == <<Line("root", 0, <<"root">>), Line("ken", 1000, <<"ken">>)>>

MCNumber == "0" :> 0 @@ "1000" :> 1000 @@ "1002" :> 1002
MCSplit == "root,bwk" :> <<"root", "bwk">>

Run(op, words) == [op |-> op, argv |-> words]
PasswdRun(words, old, new, re) ==
  [op |-> "passwd", argv |-> words, old |-> old, new |-> new, retype |-> re]

\* uids that are free, taken, or no number; homes that are free or taken; names that
\* are free or taken; several groups, with and without -a; wrong command lines.
MCCommand ==
  {Run("useradd", ws) :
     ws \in {<<"bwk">>, <<"-u", "1000", "bwk">>, <<"-u", "bwk">>, <<"-d", "bwk", "ken">>,
             <<"-c", "Brian", "-d", "ken", "bwk">>, <<"-x", "bwk">>, <<>>}}
    \cup {Run("groupadd", ws) : ws \in {<<"staff">>, <<"-g", "0", "staff">>, <<"-g", "1000", "staff">>}}
    \cup {Run("usermod", ws) :
            ws \in {<<"-u", "1002", "-G", "root,bwk", "ken">>,
                    <<"-u", "1002", "-m", "-d", "root", "ken">>,
                    <<"-u", "0", "ken">>, <<"-l", "ken", "-d", "bwk2", "bwk">>,
                    <<"-l", "dmr", "-d", "bwk2", "bwk">>,
                    <<"-a", "-G", "root,bwk", "ken">>}}
    \cup {PasswdRun(<<"ken">>, "", "password", re) : re \in {"password", "short"}}
    \cup {PasswdRun(<<>>, "abcd1234", new, new) : new \in {"password", "short"}}
=============================================================================
