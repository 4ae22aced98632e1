------------------------------- MODULE MCEcho -------------------------------
(***************************************************************************)
(* TLC instances of Echo.                                                  *)
(***************************************************************************)
EXTENDS Echo

\* With MAXLINE = 4 a line holds three bytes: a line that fits, one that is
\* cut, a command and the end by "quit" before the input is used up, and an
\* input that ends within a line.
MCInputs ==
  {<<"x", "nl", "help", "nl", "quit", "nl", "y">>,
   <<"x", "y", "z", "x", "nl">>,
   <<"x", "y", "nl", "help", "nl">>,
   <<"x", "y">>}
=============================================================================
