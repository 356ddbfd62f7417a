---------------------------- MODULE MCConfigFile ----------------------------
(* Two terminals, two profiles, and two documents written by hand: one with *)
(* a profile and an old credential, one with a setting and an old key.      *)
EXTENDS ConfigFile

CONSTANTS a, b

Written == { Doc(Unset, <<a>>, {"credential"}),
             Doc("own", Unset, {"legacy"}) }
From == { <<"inside", "env", None>>, <<"outside", Unset, None>>,
          <<"override", Unset, "project">> }
Symmetric == Permutations(Procs)
=============================================================================
