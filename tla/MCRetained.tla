------------------------------ MODULE MCRetained ------------------------------
(* A topic, one below it, and messages that live for any time of the run.  *)
EXTENDS RetainedTimer

MCTopics == {<<"a">>, <<"a", "b">>}
MCLives == 1 .. MaxTime
=============================================================================
