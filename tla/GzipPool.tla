------------------------------ MODULE GzipPool ------------------------------
(***************************************************************************)
(* The pools of gzip writers and of gzip readers behind                    *)
(* connectgzip.Compressor, used by concurrent calls of                     *)
(* compressionPool.Compress and Decompress.  A pooled object is one for    *)
(* all who hold it in turn: whoever closed it still has the pointer when   *)
(* the next user gets it.                                                  *)
(***************************************************************************)
EXTENDS Naturals, Sequences

CONSTANTS
    Users,      \* calls that compress or decompress a message
    Writers,    \* compressWriter objects
    Readers,    \* decompressReader objects
    MaxUses     \* bound on the writes to a destination, or the reads of a call

ASSUME PoolAssumption == MaxUses \in Nat /\ Writers \cap Readers = {}

None == "none"
Objects == Writers \cup Readers
Roles == {"compress", "decompress"}
Kind(role) == IF role = "compress" THEN Writers ELSE Readers

VARIABLES
    role,      \* per user: what it does
    user,      \* per user: "idle", "open" or "closed"
    holds,     \* per user: the object it got, which it keeps a pointer to
    closed,    \* compressWriter.closed, decompressReader.closed
    bound,     \* per object: whose destination or source it was reset to
    made,      \* the objects created so far
    pool,      \* the two sync.Pools: how often each object is in one
    out,       \* per user: whose bytes reached its destination, or it read
    late       \* the outcome of a use after Close: "none", "rejected" or "done"

poolVars == <<role, user, holds, closed, bound, made, pool, out, late>>

PoolInit ==
    /\ role \in [Users -> Roles]
    /\ user = [u \in Users |-> "idle"]
    /\ holds = [u \in Users |-> None]
    /\ closed = [o \in Objects |-> FALSE]
    /\ bound = [o \in Objects |-> None]
    /\ made = {}
    /\ pool = [o \in Objects |-> 0]
    /\ out = [u \in Users |-> <<>>]
    /\ late = "none"

\* User u gets object o, from the pool.
Pooled(u, o) ==
    /\ user[u] = "idle" /\ o \in Kind(role[u]) /\ pool[o] > 0
    /\ pool' = [pool EXCEPT ![o] = @ - 1]
    /\ holds' = [holds EXCEPT ![u] = o]
    /\ user' = [user EXCEPT ![u] = "open"]
    /\ UNCHANGED <<role, made, out, late>>

\* Fault: a pooled object is not reset to the new destination or source.
GetPooledNoReset(u, o) ==
    /\ Pooled(u, o)
    /\ closed' = [closed EXCEPT ![o] = FALSE]
    /\ UNCHANGED bound

\* Compress or Decompress with an object of the pool: it is reset to the destination
\* or source.
GetPooled(u, o) ==
    /\ Pooled(u, o)
    /\ bound' = [bound EXCEPT ![o] = u]
    /\ closed' = [closed EXCEPT ![o] = FALSE]

\* Compress or Decompress with a new one.  sync.Pool may have dropped what it held.
GetNew(u, o) ==
    /\ user[u] = "idle" /\ o \in Kind(role[u]) \ made
    /\ made' = made \cup {o}
    /\ holds' = [holds EXCEPT ![u] = o]
    /\ user' = [user EXCEPT ![u] = "open"]
    /\ bound' = [bound EXCEPT ![o] = u]
    /\ UNCHANGED <<role, closed, pool, out, late>>

\* Decompress of what does not start with a gzip header: no reader is made, or the
\* one from the pool is reset in vain and dropped.
DecompressFails(u) ==
    /\ user[u] = "idle" /\ role[u] = "decompress"
    /\ user' = [user EXCEPT ![u] = "closed"]
    /\ \/ UNCHANGED <<bound, pool>>
       \/ \E r \in Readers :
            /\ pool[r] > 0
            /\ bound' = [bound EXCEPT ![r] = u]
            /\ pool' = [pool EXCEPT ![r] = @ - 1]
    /\ UNCHANGED <<role, holds, closed, made, out, late>>

\* u writes to its destination through o, or reads its source: an error when o is
\* closed, bytes otherwise.
Uses(u, o) ==
    out' = IF closed[o] THEN out
           ELSE IF role[u] = "compress" THEN [out EXCEPT ![bound[o]] = Append(@, u)]
           ELSE [out EXCEPT ![u] = Append(@, bound[o])]

\* WriteTo the compressor, or ReadFrom the (limited) decompressor.
Transfer(u) ==
    /\ user[u] = "open"
    /\ Len(out[IF role[u] = "compress" THEN bound[holds[u]] ELSE u]) < MaxUses
    /\ Uses(u, holds[u])
    /\ UNCHANGED <<role, user, holds, closed, bound, made, pool, late>>

\* Fault: an object that is closed already is closed and recycled again.
ClosesAgain(o) ==
    /\ closed' = [closed EXCEPT ![o] = TRUE]
    /\ pool' = [pool EXCEPT ![o] = @ + 1]

\* Close of o does nothing when it is closed already; otherwise it closes the gzip
\* writer or reader and recycles o, or drops it when that fails.
Closes(o) ==
    IF closed[o] THEN UNCHANGED <<closed, pool>>
    ELSE /\ closed' = [closed EXCEPT ![o] = TRUE]
         /\ pool' \in {pool, [pool EXCEPT ![o] = @ + 1]}

\* Compress and Decompress close what they got, however they end.
Close(u) ==
    /\ user[u] = "open"
    /\ Closes(holds[u])
    /\ user' = [user EXCEPT ![u] = "closed"]
    /\ UNCHANGED <<role, holds, bound, made, out, late>>

\* Somebody who is done uses its object once more.
MayUseLate(u) == user[u] = "closed" /\ holds[u] # None /\ late = "none"

LateTransfer(u) ==
    /\ MayUseLate(u)
    /\ Uses(u, holds[u])
    /\ late' = IF closed[holds[u]] THEN "rejected" ELSE "done"
    /\ UNCHANGED <<role, user, holds, closed, bound, made, pool>>

LateClose(u) ==
    /\ MayUseLate(u)
    /\ Closes(holds[u])
    /\ late' = IF closed[holds[u]] THEN "rejected" ELSE "done"
    /\ UNCHANGED <<role, user, holds, bound, made, out>>

PoolFinished == (\A u \in Users : user[u] = "closed") /\ UNCHANGED poolVars

PoolNext ==
    \/ \E u \in Users :
         \/ \E o \in Objects : GetPooled(u, o) \/ GetNew(u, o)
         \/ DecompressFails(u) \/ Transfer(u) \/ Close(u)
         \/ LateTransfer(u) \/ LateClose(u)
    \/ PoolFinished

PoolSpec == PoolInit /\ [][PoolNext]_poolVars

-----------------------------------------------------------------------------
(* Properties.                                                             *)

\* errClosed "is returned when a recycled writer or reader is used after Close".
\* The code can tell only until the pool gives the object to its next user.  Until a
\* use after Close slips through then, however often objects were recycled, dropped
\* or reset in vain: a user's destination gets that user's bytes, a user reads its own
\* source, and nobody closes or has open what another user has open.
OutputIsOwn ==
    late # "done" =>
        \A u \in Users :
          /\ \A i \in DOMAIN out[u] : out[u][i] = u
          /\ user[u] = "open" =>
               /\ ~closed[holds[u]]
               /\ \A v \in Users \ {u} : user[v] = "open" => holds[v] # holds[u]
=============================================================================
