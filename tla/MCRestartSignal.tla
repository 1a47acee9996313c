-------------------------- MODULE MCRestartSignal ---------------------------
(* Instances of RestartSignal for TLC.                                     *)
EXTENDS RestartSignal

OneHook == {<<"s1", 1>>}
TwoHooks == {<<"s1", 1>>, <<"s2", 1>>}
=============================================================================
