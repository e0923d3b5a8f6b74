---------------------------- MODULE MCNegotiation ----------------------------
(* Symmetry for model checking Negotiation.                                *)
EXTENDS Negotiation, TLC

\* Compressions have names and nothing else; no order among them is modelled.
CompressorSymmetry == Permutations(Compressors)
=============================================================================
