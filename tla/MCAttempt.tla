------------------------------ MODULE MCAttempt ------------------------------
(* Attempt with writes of a few bytes, around a limit of four. *)
EXTENDS Attempt

MCChunks == {<<"a">>, <<"a", "a", "a">>, <<"c", "c", "c">>, <<"h", "t">>,
             <<"g", "t", "t", "t">>, <<"t">>, <<"0">>}
=============================================================================
