-------------------------- MODULE MCInProcessStream --------------------------
(* Constants for model checking InProcessStream.                           *)
EXTENDS InProcessStream

\* No program writes its next message into the value it sent last.
NobodyReuses == {}
=============================================================================
