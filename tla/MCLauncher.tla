----------------------------- MODULE MCLauncher -----------------------------
(* Machines where nobody has signed in yet, where somebody has, and where    *)
(* only another program has, beside a profile with an API key.               *)
EXTENDS Launcher

Machines == { <<None, 0>>, <<"oauth", 1>>, <<"key", 1>> }
=============================================================================
