------------------------------ MODULE MCShell -------------------------------
(* Lines for the shell.                                                    *)
EXTENDS Shell

\* echo | cat | cat;  echo > x >> y ; cat < x;  (cat ; echo) < x | cat;
\* cat &;  echo & echo, which is refused;  cd x
Lines == {
  <<"echo", "|", "cat", "|", "cat">>,
  <<"echo", ">", "x", ">>", "y", ";", "cat", "<", "x">>,
  <<"(", "cat", ";", "echo", ")", "<", "x", "|", "cat">>,
  <<"cat", "&">>,
  <<"echo", "&", "echo">>,
  <<"cd", "x">>}
=============================================================================
