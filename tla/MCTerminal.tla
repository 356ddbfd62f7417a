---------------------------- MODULE MCTerminal ----------------------------
(* What the child may print, for Terminal.                                    *)
EXTENDS Terminal

MCScripts ==
    { <<"p", "x", "nl", "a", "p", "y", "nl", "p", "y", "l3", "c", "c">>,
      <<"a", "nl", "p", "l2", "c">>,
      <<"l2", "a", "nl">> }                                     \* not UTF-8
=============================================================================
