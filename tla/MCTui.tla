------------------------------- MODULE MCTui -------------------------------
(* An instance of Tui for TLC. *)
EXTENDS Tui

CONSTANTS ann, bob
AnnBob == <<ann, bob>>
BobByLetter == <<{ann, bob}, {bob}>>
=============================================================================
