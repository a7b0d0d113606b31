-------------------------- MODULE MCSessionTracker --------------------------
(* The addresses of SessionTracker, for TLC.                               *)
EXTENDS SessionTracker
CONSTANTS a, b
FirstA == <<{a}, {b}, {a, b}>>
=============================================================================
