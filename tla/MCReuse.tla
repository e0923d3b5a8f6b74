------------------------------- MODULE MCReuse -------------------------------
(***************************************************************************)
(* What one call leaves for another to use again: the buffer of a unary    *)
(* request, and pooled gzip writers and readers.  The two components share *)
(* no state, so every interleaving of them is one behaviour of each; they  *)
(* are explored one beside the untouched other.                            *)
(***************************************************************************)
EXTENDS UnaryRequestBody, GzipPool

reuseVars == <<vars, poolVars>>

ReuseInit == Init /\ PoolInit

PoolsUntouched == PoolInit /\ \A u \in Users : role[u] = "compress"

ReuseNext ==
    \/ PoolsUntouched /\ Next /\ UNCHANGED poolVars
    \/ Init /\ PoolNext /\ UNCHANGED vars

ReuseSpec == ReuseInit /\ [][ReuseNext]_reuseVars /\ Fairness
=============================================================================
