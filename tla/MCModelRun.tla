----------------------------- MODULE MCModelRun -----------------------------
(* An instance of ModelRun for TLC: a leader, two descendants, and a         *)
(* document that fills the buffer exactly.                                   *)
EXTENDS ModelRun

MCBytes == {"a", "b"}
MCDocuments == {<<"a">>, <<"a", "b">>}

=============================================================================
