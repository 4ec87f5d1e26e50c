------------------------ MODULE MCEmbeddedRuntime --------------------------
(* Two workers, each with up to three texts. *)
EXTENDS EmbeddedRuntime
CONSTANTS Main, A, B
MCWorkers == {A, B}
=============================================================================
