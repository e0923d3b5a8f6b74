---------------------------- MODULE MessageLimits ----------------------------
(***************************************************************************)
(* What becomes of one message between its marshaler and its unmarshaler:  *)
(* whether it is compressed, and what sendMaxBytes of the one side and     *)
(* readMaxBytes of the other let through.  A message is its size, its size *)
(* on the wire and the compression it went through.  Sizes are integers of *)
(* a type whose largest value is MaxInt (int64 in the code).               *)
(***************************************************************************)
EXTENDS Integers

CONSTANT MaxInt

ASSUME MaxIntAssumption == MaxInt \in Nat \ {0}

Identity == "identity"
Sizes == 0 .. MaxInt

\* A limit of zero is none.
Exceeds(n, limit) == limit > 0 /\ n > limit

\* What an unmarshaler makes of a message, beside the number of its bytes.
Refused == -1     \* resource_exhausted
Garbage == -2     \* not what was sent, or an error that says so

\* A compressor may make a message larger; it makes it empty only if it was.
Packed(size) == IF size = 0 THEN Sizes ELSE Sizes \ {0}

-----------------------------------------------------------------------------
(* Sending.                                                                *)

\* envelopeWriter.Write, and the same decision in connectUnaryMarshaler.Marshal: a
\* message of at least minBytes is compressed if there is a pool.  Empty when what
\* goes on the wire exceeds the limit.
Write(size, packed, pool, minBytes, sendMaxBytes) ==
    {m \in {IF pool = Identity \/ size < minBytes
            THEN [size |-> size, wire |-> size, by |-> Identity]
            ELSE [size |-> size, wire |-> packed, by |-> pool]} :
        ~Exceeds(m.wire, sendMaxBytes)}

-----------------------------------------------------------------------------
(* Receiving.                                                              *)

\* n + 1 in the width of the sizes: it wraps around.
Successor(n) == IF n = MaxInt THEN -MaxInt - 1 ELSE n + 1

\* io.LimitReader: how many of size bytes a reader limited to n yields.
LimitReader(size, n) == IF n <= 0 THEN 0 ELSE IF size < n THEN size ELSE n

\* Fault: the reader is limited also by a limit that has no successor.
readLimitedWrapping(size, limit) ==
    LET bytesRead == IF limit > 0 THEN LimitReader(size, Successor(limit)) ELSE size
    IN  IF Exceeds(bytesRead, limit) THEN Refused ELSE bytesRead

\* Fault: the reader stops at the limit, and an oversized message looks whole.
readLimitedShort(size, limit) ==
    LET bytesRead == IF limit > 0 THEN LimitReader(size, limit) ELSE size
    IN  IF Exceeds(bytesRead, limit) THEN Refused ELSE bytesRead

\* Reading at most one byte more than the limit shows that a message is too large;
\* the largest limit has no successor and needs none.
readLimited(size, limit) ==
    LET bytesRead == IF limit > 0 /\ limit < MaxInt
                     THEN LimitReader(size, Successor(limit)) ELSE size
    IN  IF Exceeds(bytesRead, limit) THEN Refused ELSE bytesRead

\* compressionPool.Decompress of the bytes read of message m.
Decompress(m, bytesRead, pool, limit) ==
    IF pool # m.by \/ bytesRead # m.wire THEN Garbage ELSE readLimited(m.size, limit)

\* envelopeReader.Read: the prefix says how large the envelope is.
Read(m, limit) == IF Exceeds(m.wire, limit) THEN Refused ELSE m.wire

\* envelopeReader.Unmarshal.  An empty envelope is the zero message, compressed or
\* not.
Unmarshal(m, pool, limit) ==
    LET bytesRead == Read(m, limit)
    IN  IF bytesRead = Refused THEN Refused
        ELSE IF m.by # Identity /\ pool = Identity THEN Garbage
        ELSE IF bytesRead > 0 /\ m.by # Identity THEN Decompress(m, bytesRead, pool, limit)
        ELSE bytesRead

\* connectUnaryUnmarshaler.UnmarshalFunc: the body is the message, and only the
\* headers say whether it is compressed.
UnmarshalFunc(m, pool, limit) ==
    LET bytesRead == readLimited(m.wire, limit)
    IN  IF bytesRead = Refused THEN Refused
        ELSE IF bytesRead > 0 /\ pool # Identity THEN Decompress(m, bytesRead, pool, limit)
        ELSE IF bytesRead > 0 /\ m.by # Identity THEN Garbage
        ELSE bytesRead
=============================================================================
