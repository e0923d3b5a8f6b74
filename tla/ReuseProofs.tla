----------------------------- MODULE ReuseProofs -----------------------------
(***************************************************************************)
(* Proofs about what is used again by another call: the buffer of a unary  *)
(* request, for messages of any length and any number of attempts, and     *)
(* pooled gzip writers and readers, for any number of users of them.       *)
(***************************************************************************)
EXTENDS UnaryRequestBody, GzipPool, SequenceTheorems, TLAPS

-----------------------------------------------------------------------------
(* UnaryRequestBody.                                                       *)

TypeOK ==
    /\ send \in {"new", "do", "release", "returned"}
    /\ payload \in {"nil", "envelope"}
    /\ mu \in {0} \cup Attempts
    /\ offset \in 0..ContentLength
    /\ buffer \in {"message", "reused"}
    /\ attempt \in {0} \cup Attempts
    /\ reader \in [Attempts -> {"none", "reading", "eof", "stopped"}]
    /\ received \in [Attempts -> Seq(Nat)]

\* Whoever may read finds the message in the buffer: the payload is released before
\* Send returns, not while WriteTo holds the lock, and the buffer is reused after that.
ReleasedFirst ==
    /\ buffer = "reused" => send = "returned"
    /\ send = "returned" => payload = "nil"
    /\ payload = "nil" => mu = 0

\* The current attempt is given bytes in order, each from the first on as long as
\* nobody takes one in between: a bound from below and from above for each of them,
\* which meet when it has all.
InOrder ==
    attempt > 0 =>
        LET r == received[attempt]
        IN  /\ Len(r) <= offset
            /\ \A i \in DOMAIN r : i <= r[i] /\ r[i] <= offset - (Len(r) - i)

\* No byte of the body is left when the current attempt has seen its end, and only
\* an earlier attempt can have taken what the current one was not given.
EndIsReached ==
    attempt > 0 =>
        /\ payload = "envelope" /\ reader[attempt] = "eof" => offset = ContentLength
        /\ ~shared => Len(received[attempt]) = offset

\* Attempts begin one after the other.
Untried == \A a \in Attempts : a > attempt => reader[a] = "none" /\ received[a] = <<>> /\ mu # a

IInv ==
    /\ TypeOK /\ ReleasedFirst /\ ReusedIsUnread /\ InOrder /\ EndIsReached /\ Untried
    /\ send = "new" => attempt = 0 /\ offset = 0

-----------------------------------------------------------------------------
(* Bytes.                                                                  *)

LEMMA ContentLengthNat == ContentLength \in Nat
BY BodyAssumption DEF ContentLength, PrefixLen

\* envelope.Read copies what fits and is left.
LEMMA MinIsBoth ==
    ASSUME NEW m \in Nat, NEW n \in Nat
    PROVE  Min({m, n}) \in Nat /\ Min({m, n}) <= m /\ Min({m, n}) <= n
<1>1. \E x \in {m, n} : \A y \in {m, n} : x <= y  OBVIOUS
<1> QED  BY <1>1 DEF Min

\* What the message's buffer gives.
LEMMA BytesAreMessage ==
    ASSUME TypeOK, buffer = "message", NEW n \in 0..Remaining
    PROVE  /\ Bytes(n) \in Seq(Nat) /\ Len(Bytes(n)) = n
           /\ \A i \in 1..n : Bytes(n)[i] = offset + i
BY ContentLengthNat DEF TypeOK, Bytes, Remaining

\* A reader that has r is given the n bytes after place k, and has t: the bounds of
\* InOrder for r give those for t.
LEMMA AppendedInOrder ==
    ASSUME NEW r \in Seq(Nat), NEW t \in Seq(Nat), NEW n \in Nat, NEW k \in Nat,
           Len(t) = Len(r) + n, Len(r) <= k,
           \A i \in 1..Len(r) : i <= r[i] /\ r[i] <= k - (Len(r) - i),
           \A i \in 1..Len(r) : t[i] = r[i],
           \A i \in 1..(Len(r) + n) : i > Len(r) => t[i] = k + (i - Len(r))
    PROVE  /\ Len(t) <= k + n
           /\ \A i \in DOMAIN t : i <= t[i] /\ t[i] <= k + n - (Len(t) - i)
<1>1. Len(r) \in Nat /\ DOMAIN t = 1..(Len(r) + n)  OBVIOUS
<1>2. ASSUME NEW i \in 1..(Len(r) + n)
      PROVE  i <= t[i] /\ t[i] <= k + n - (Len(t) - i)
  <2>1. CASE i <= Len(r)
    <3>0. i \in 1..Len(r)  BY <1>1, <2>1
    <3>1. i \in 1..Len(r) /\ r[i] \in Nat  BY <3>0, ElementOfSeq
    <3>2. t[i] = r[i] /\ i <= r[i] /\ r[i] <= k - (Len(r) - i)  BY <3>1
    <3> QED  BY <1>1, <3>1, <3>2
  <2>2. CASE i > Len(r)
    <3>1. t[i] = k + (i - Len(r))  BY <2>2
    <3> QED  BY <1>1, <2>2, <3>1
  <2> QED  BY <1>1, <2>1, <2>2
<1> QED  BY <1>1, <1>2

\* n bytes more, for the reader of attempt a.
LEMMA DeliverIsSound ==
    ASSUME IInv, buffer = "message", NEW a \in Attempts, NEW n \in 0..Remaining, Deliver(a, n),
           a <= attempt, attempt' = attempt
    PROVE  /\ offset' \in 0..ContentLength /\ received' \in [Attempts -> Seq(Nat)]
           /\ ReusedIsUnread' /\ InOrder'
           /\ attempt > 0 /\ ~shared' => Len(received'[attempt]) = offset'
           /\ \A b \in Attempts : b > attempt => received'[b] = received[b]
<1> DEFINE r == received[a]
           s == Bytes(n)
           t == r \o s
<1>1. n \in Nat /\ offset \in Nat /\ r \in Seq(Nat)
  BY ContentLengthNat DEF IInv, TypeOK, Remaining
<1>2. s \in Seq(Nat) /\ Len(s) = n /\ \A i \in 1..n : s[i] = offset + i
  BY BytesAreMessage DEF IInv
<1>3. received' = [received EXCEPT ![a] = t] /\ offset' = offset + n
      /\ (~shared' => ~shared /\ (a = attempt \/ ~(n > 0)))
  BY DEF Deliver
<1>4. /\ t \in Seq(Nat) /\ Len(t) = Len(r) + Len(s)
       /\ \A i \in 1..Len(r) + Len(s) : t[i] = IF i <= Len(r) THEN r[i] ELSE s[i - Len(r)]
  <2> HIDE DEF r, s
  <2> QED  BY <1>1, <1>2, ConcatProperties
<1> HIDE DEF r, s, t
<1>5. /\ t \in Seq(Nat) /\ Len(t) = Len(r) + n /\ DOMAIN t = 1..(Len(r) + n)
      /\ \A i \in 1..Len(r) : t[i] = r[i]
      /\ \A i \in 1..(Len(r) + n) : i > Len(r) => t[i] = offset + (i - Len(r))
  <2>1. Len(r) \in Nat /\ Len(t) = Len(r) + n  BY <1>1, <1>2, <1>4
  <2>2. DOMAIN t = 1..(Len(r) + n)
    <3>1. t \in Seq(Nat)  BY <1>4
    <3>2. DOMAIN t = 1..Len(t)  BY <3>1, LenProperties
    <3> QED  BY <2>1, <3>2, Zenon
  <2>3. ASSUME NEW i \in 1..Len(r)  PROVE t[i] = r[i]
    <3>1. i \in 1..Len(r) + Len(s) /\ i <= Len(r)  BY <1>1, <1>2, <2>1
    <3> QED  BY <1>4, <3>1
  <2>4. ASSUME NEW i \in 1..(Len(r) + n), i > Len(r)
        PROVE  t[i] = offset + (i - Len(r))
    <3>1. t[i] = s[i - Len(r)]  BY <1>1, <1>2, <1>4, <2>1, <2>4
    <3>2. i - Len(r) \in 1..n  BY <1>1, <2>1, <2>4
    <3> QED  BY <1>2, <3>1, <3>2
  <2> QED  BY <1>4, <2>1, <2>2, <2>3, <2>4
<1>6. Len(r) \in Nat /\ DOMAIN r = 1..Len(r)  BY <1>1
<1> USE DEF r
<1>7. received'[a] = t /\ \A b \in Attempts \ {a} : received'[b] = received[b]
  BY <1>3 DEF IInv, TypeOK
<1>8. offset' \in 0..ContentLength /\ received' \in [Attempts -> Seq(Nat)]
  BY <1>1, <1>3, <1>5, ContentLengthNat DEF IInv, TypeOK, Remaining
<1>9. ReusedIsUnread'
  <2> SUFFICES ASSUME NEW b \in Attempts, NEW i \in DOMAIN received'[b]
               PROVE  received'[b][i] # Garbage
    BY DEF ReusedIsUnread
  <2>1. CASE b # a  BY <1>7, <2>1 DEF IInv, ReusedIsUnread
  <2>2. CASE b = a
    <3>1. i \in 1..(Len(r) + n)  BY <1>5, <1>7, <2>2
    <3>2. CASE i <= Len(r)
      <4>1. i \in DOMAIN received[a] /\ t[i] = r[i]  BY <1>5, <1>6, <3>1, <3>2
      <4> QED  BY <1>7, <2>2, <4>1 DEF IInv, ReusedIsUnread
    <3>3. CASE i > Len(r)
      <4>1. t[i] = offset + (i - Len(r))  BY <1>5, <3>1, <3>3
      <4> QED  BY <1>1, <1>6, <1>7, <2>2, <3>1, <3>3, <4>1 DEF Garbage
    <3> QED  BY <1>6, <3>1, <3>2, <3>3
  <2> QED  BY <2>1, <2>2
<1>10. attempt \in Nat /\ (attempt > 0 => attempt \in Attempts)
  BY BodyAssumption DEF IInv, TypeOK, Attempts
<1>11. ASSUME attempt > 0
       PROVE  /\ Len(received'[attempt]) <= offset'
              /\ \A i \in DOMAIN received'[attempt] :
                   /\ i <= received'[attempt][i]
                   /\ received'[attempt][i] <= offset' - (Len(received'[attempt]) - i)
  <2>1. CASE a = attempt
    <3>1. Len(r) <= offset /\ \A i \in 1..Len(r) : i <= r[i] /\ r[i] <= offset - (Len(r) - i)
      BY <1>6, <1>11, <2>1 DEF IInv, InOrder
    <3>2. /\ Len(t) <= offset + n
          /\ \A i \in DOMAIN t : i <= t[i] /\ t[i] <= offset + n - (Len(t) - i)
      BY <1>1, <1>5, <3>1, AppendedInOrder
    <3>3. received'[attempt] = t /\ offset' = offset + n  BY <1>3, <1>7, <2>1
    <3>4. Len(t) \in Nat /\ \A i \in DOMAIN t : i \in Nat /\ t[i] \in Nat  BY <1>5
    <3> QED  BY <1>1, <3>2, <3>3, <3>4
  <2>2. CASE a # attempt
    <3> DEFINE q == received[attempt]
    <3>1. q \in Seq(Nat) /\ received'[attempt] = q
      BY <1>7, <1>10, <1>11, <2>2 DEF IInv, TypeOK
    <3>2. Len(q) <= offset /\ \A i \in DOMAIN q : i <= q[i] /\ q[i] <= offset - (Len(q) - i)
      BY <1>11 DEF IInv, InOrder
    <3> HIDE DEF q
    <3>3. Len(q) \in Nat /\ \A i \in DOMAIN q : i \in Nat /\ q[i] \in Nat  BY <3>1
    <3>4. n \in Nat /\ offset \in Nat /\ offset' = offset + n  BY <1>1, <1>3
    <3>5. ASSUME NEW i \in DOMAIN q  PROVE i <= q[i] /\ q[i] <= offset' - (Len(q) - i)
      <4>1. i \in Nat /\ q[i] \in Nat /\ Len(q) \in Nat  BY <3>3
      <4>2. i <= q[i] /\ q[i] <= offset - (Len(q) - i)  BY <3>2
      <4> QED  BY <3>4, <4>1, <4>2
    <3>6. Len(q) <= offset'  BY <3>2, <3>3, <3>4
    <3> QED  BY <3>1, <3>5, <3>6
  <2> QED  BY <2>1, <2>2
<1>12. InOrder'  BY <1>11 DEF InOrder
<1>13. ASSUME attempt > 0, ~shared'
       PROVE  Len(received'[attempt]) = offset'
  <2>1. Len(received[attempt]) = offset  BY <1>3, <1>13 DEF IInv, EndIsReached
  <2>2. CASE a = attempt  BY <1>3, <1>5, <1>7, <2>1, <2>2
  <2>3. CASE a # attempt
    <3>1. n = 0  BY <1>1, <1>3, <1>13, <2>3
    <3> QED  BY <1>1, <1>3, <1>7, <1>10, <1>13, <2>1, <2>3, <3>1
  <2> QED  BY <2>2, <2>3
<1>14. \A b \in Attempts : b > attempt => received'[b] = received[b]
  BY <1>7, <1>10 DEF Attempts
<1> QED  BY <1>8, <1>9, <1>12, <1>13, <1>14

-----------------------------------------------------------------------------
(* The actions.                                                            *)

\* The attempts are numbered from 1.
LEMMA AttemptsFromOne == 1 \in Attempts /\ \A a \in Attempts : a \in Nat /\ a > 0
BY BodyAssumption DEF Attempts

\* The first attempt, or another one: nothing was given to it, and it starts at 0.
LEMMA BeginIsSound ==
    ASSUME IInv, NEW a \in Attempts, a > attempt, attempt' = a, offset' = 0,
           reader' = [reader EXCEPT ![a] = "reading"],
           send' = "do", payload' = "envelope", buffer = "message", mu = 0,
           UNCHANGED <<mu, buffer, received>>
    PROVE  IInv'
<1>1. received[a] = <<>> /\ Len(<<>>) = 0 /\ DOMAIN <<>> = {}
  BY DEF IInv, Untried
<1>2. TypeOK' /\ ReleasedFirst' /\ ReusedIsUnread'
  BY ContentLengthNat DEF IInv, TypeOK, ReleasedFirst, ReusedIsUnread
<1>3. InOrder'  BY <1>1 DEF InOrder
<1>4. reader'[a] = "reading" /\ \A b \in Attempts \ {a} : reader'[b] = reader[b]
  BY DEF IInv, TypeOK
<1>5. EndIsReached'  BY <1>1, <1>4 DEF EndIsReached
<1>6. Untried'
  <2> SUFFICES ASSUME NEW b \in Attempts, b > a
               PROVE  reader'[b] = "none" /\ received[b] = <<>> /\ mu # b
    BY DEF Untried
  <2>1. b > attempt /\ b # a
    BY AttemptsFromOne DEF IInv, TypeOK
  <2> QED  BY <1>4, <2>1 DEF IInv, Untried
<1> QED  BY <1>2, <1>3, <1>5, <1>6 DEF IInv

LEMMA SendUnaryIsSound == IInv /\ SendUnary => IInv'
<1> SUFFICES ASSUME IInv, SendUnary  PROVE IInv'  OBVIOUS
<1>1. attempt = 0 /\ offset = 0 /\ buffer = "message" /\ mu = 0
  BY AttemptsFromOne DEF IInv, SendUnary, TypeOK, ReleasedFirst, Untried
<1> QED  BY <1>1, AttemptsFromOne, BeginIsSound DEF SendUnary

LEMMA RetryIsSound == IInv /\ Retry => IInv'
<1> SUFFICES ASSUME IInv, Retry  PROVE IInv'  OBVIOUS
<1>1. attempt + 1 \in Attempts /\ attempt + 1 > attempt
  BY BodyAssumption DEF Retry, Attempts
<1>2. buffer = "message"  BY DEF IInv, Retry, TypeOK, ReleasedFirst
<1> QED  BY <1>1, <1>2, BeginIsSound DEF Retry, Rewind

\* What the sender does moves no byte.
LEMMA SenderIsSound == IInv /\ (DoReturns \/ Release \/ BufferReused) => IInv'
<1> SUFFICES ASSUME IInv, DoReturns \/ Release \/ BufferReused  PROVE IInv'  OBVIOUS
<1>1. UNCHANGED <<mu, offset, attempt, reader, received, shared>>
  BY DEF DoReturns, Release, BufferReused
<1>2. /\ send' \in {"release", "returned"} /\ buffer' \in {"message", "reused"}
      /\ payload' \in {payload, "nil"} /\ ReleasedFirst'
  BY DEF IInv, TypeOK, ReleasedFirst, DoReturns, Release, BufferReused
<1>3. TypeOK' /\ ReusedIsUnread' /\ InOrder' /\ Untried'
  BY <1>1, <1>2 DEF IInv, TypeOK, ReusedIsUnread, InOrder, Untried
<1>4. EndIsReached'  BY <1>1, <1>2 DEF IInv, EndIsReached
<1> QED  BY <1>2, <1>3, <1>4 DEF IInv

\* A reader is given nothing, or stops: it is at the end only of a payload that was
\* released or read.
LEMMA EndIsSound ==
    ASSUME IInv, NEW a \in Attempts, a <= attempt, NEW x \in {"eof", "stopped"},
           reader' = [reader EXCEPT ![a] = x],
           x = "eof" => payload = "nil" \/ offset = ContentLength,
           UNCHANGED <<send, payload, mu, offset, buffer, attempt, received, shared>>
    PROVE  IInv'
<1>1. TypeOK' /\ ReleasedFirst' /\ ReusedIsUnread' /\ InOrder'
  BY DEF IInv, TypeOK, ReleasedFirst, ReusedIsUnread, InOrder
<1>2. reader'[a] = x /\ \A b \in Attempts \ {a} : reader'[b] = reader[b]
  BY DEF IInv, TypeOK
<1>3. attempt > 0 => attempt \in Attempts
  BY AttemptsFromOne DEF IInv, TypeOK
<1>4. EndIsReached'  BY <1>2, <1>3 DEF IInv, EndIsReached
<1>5. Untried'
  <2> SUFFICES ASSUME NEW b \in Attempts, b > attempt
               PROVE  reader'[b] = "none" /\ received[b] = <<>> /\ mu # b
    BY DEF Untried
  <2>1. b # a  BY AttemptsFromOne DEF IInv, TypeOK
  <2> QED  BY <1>2, <2>1 DEF IInv, Untried
<1> QED  BY <1>1, <1>4, <1>5 DEF IInv

\* Only an attempt that has begun reads.
LEMMA ReadersHaveBegun ==
    ASSUME IInv, NEW a \in Attempts, reader[a] = "reading" \/ mu = a
    PROVE  a <= attempt
BY AttemptsFromOne DEF IInv, TypeOK, Untried

LEMMA ReadIsSound ==
    ASSUME IInv, NEW a \in Attempts, NEW n \in 1..ContentLength, Read(a, n)
    PROVE  IInv'
<1>1. a <= attempt  BY ReadersHaveBegun DEF Read
<1>2. offset \in Nat /\ Remaining \in Nat /\ n \in Nat
  BY ContentLengthNat DEF IInv, TypeOK, Remaining
<1>3. CASE payload = "nil" \/ Remaining = 0
  <2>1. Remaining = 0 => offset = ContentLength
    BY <1>2, ContentLengthNat DEF Remaining
  <2> QED  BY <1>1, <1>3, <2>1, EndIsSound DEF Read
<1>4. CASE ~(payload = "nil" \/ Remaining = 0)
  <2> DEFINE m == Min({n, Remaining})
  <2>1. Deliver(a, m) /\ UNCHANGED <<reader, send, payload, mu, buffer, attempt>>
    BY <1>4 DEF Read
  <2>2. m \in 0..Remaining  BY <1>2, MinIsBoth
  <2> HIDE DEF m
  <2>3. buffer = "message" /\ payload = "envelope"
    BY <1>4 DEF IInv, TypeOK, ReleasedFirst
  <2>4. /\ offset' \in 0..ContentLength /\ received' \in [Attempts -> Seq(Nat)]
        /\ ReusedIsUnread' /\ InOrder'
        /\ attempt > 0 /\ ~shared' => Len(received'[attempt]) = offset'
        /\ \A b \in Attempts : b > attempt => received'[b] = received[b]
    BY <1>1, <2>1, <2>2, <2>3, DeliverIsSound
  <2>5. TypeOK' /\ ReleasedFirst' /\ Untried' /\ send' # "new"
    BY <2>1, <2>3, <2>4, <1>1, AttemptsFromOne DEF IInv, TypeOK, ReleasedFirst, Untried
  <2>6. EndIsReached'
    <3>1. offset # ContentLength
      BY <1>2, <1>4, ContentLengthNat DEF Remaining
    <3> QED  BY <2>1, <2>3, <2>4, <3>1 DEF IInv, EndIsReached
  <2> QED  BY <2>4, <2>5, <2>6 DEF IInv
<1> QED  BY <1>3, <1>4

LEMMA WriteToIsSound ==
    ASSUME IInv, NEW a \in Attempts, WriteTo(a)
    PROVE  IInv'
<1>1. a <= attempt  BY ReadersHaveBegun DEF WriteTo
<1>2. CASE payload = "nil"  BY <1>1, <1>2, EndIsSound DEF WriteTo
<1>3. CASE payload # "nil"
  <2>1. mu' = a /\ UNCHANGED <<reader, send, payload, offset, buffer, attempt, received, shared>>
    BY <1>3 DEF WriteTo
  <2>2. TypeOK' /\ ReleasedFirst' /\ ReusedIsUnread' /\ InOrder' /\ EndIsReached'
    BY <1>3, <2>1 DEF IInv, TypeOK, ReleasedFirst, ReusedIsUnread, InOrder, EndIsReached
  <2>3. Untried'
    BY <1>1, <2>1, AttemptsFromOne DEF IInv, TypeOK, Untried
  <2> QED  BY <2>1, <2>2, <2>3 DEF IInv
<1> QED  BY <1>2, <1>3

LEMMA WriteToReturnsIsSound ==
    ASSUME IInv, NEW a \in Attempts, WriteToReturns(a)
    PROVE  IInv'
<1>1. a <= attempt  BY ReadersHaveBegun DEF WriteToReturns
<1>2. PICK n \in 0..Remaining :
        /\ Deliver(a, n)
        /\ reader' = [reader EXCEPT ![a] = IF n = Remaining THEN "eof" ELSE "stopped"]
  BY DEF WriteToReturns
<1>3. mu = a /\ mu' = 0 /\ UNCHANGED <<send, payload, buffer, attempt>>
  BY DEF WriteToReturns
<1>4. buffer = "message" /\ payload = "envelope"
  BY <1>3, AttemptsFromOne DEF IInv, TypeOK, ReleasedFirst
<1>5. /\ offset' \in 0..ContentLength /\ received' \in [Attempts -> Seq(Nat)]
      /\ ReusedIsUnread' /\ InOrder'
      /\ attempt > 0 /\ ~shared' => Len(received'[attempt]) = offset'
      /\ \A b \in Attempts : b > attempt => received'[b] = received[b]
  BY <1>1, <1>2, <1>3, <1>4, DeliverIsSound
<1>6. /\ reader'[a] = "eof" => n = Remaining
      /\ \A b \in Attempts \ {a} : reader'[b] = reader[b]
  BY <1>2 DEF IInv, TypeOK
<1>7. TypeOK' /\ ReleasedFirst' /\ send' # "new"
  <2>1. reader' \in [Attempts -> {"none", "reading", "eof", "stopped"}]
    BY <1>2 DEF IInv, TypeOK
  <2>2. TypeOK'  BY <1>3, <1>5, <2>1 DEF IInv, TypeOK
  <2>3. ReleasedFirst'  BY <1>3 DEF IInv, ReleasedFirst
  <2>4. send' # "new"  BY <1>1, <1>3, AttemptsFromOne DEF IInv
  <2> QED  BY <2>2, <2>3, <2>4
<1>8. Untried'
  <2> SUFFICES ASSUME NEW b \in Attempts, b > attempt
               PROVE  reader'[b] = "none" /\ received'[b] = <<>> /\ mu' # b
    BY <1>3 DEF Untried
  <2>1. b # a /\ b # 0  BY <1>1, AttemptsFromOne DEF IInv, TypeOK
  <2> QED  BY <1>3, <1>5, <1>6, <2>1 DEF IInv, Untried
<1>9. EndIsReached'
  <2>1. offset \in 0..ContentLength /\ offset' = offset + n /\ n \in 0..(ContentLength - offset)
    BY <1>2 DEF IInv, TypeOK, Deliver, Remaining
  <2>2. attempt > 0 => attempt \in Attempts
    BY AttemptsFromOne DEF IInv, TypeOK
  <2>3. ASSUME attempt > 0, reader'[attempt] = "eof"  PROVE offset' = ContentLength
    <3>1. CASE a = attempt
      BY <1>6, <2>1, <2>3, <3>1, ContentLengthNat DEF Remaining
    <3>2. CASE a # attempt
      <4>1. offset = ContentLength
        BY <1>4, <1>6, <2>2, <2>3, <3>2 DEF IInv, EndIsReached
      <4> QED  BY <2>1, <4>1, ContentLengthNat
    <3> QED  BY <3>1, <3>2
  <2> QED  BY <1>3, <1>5, <2>3 DEF EndIsReached
<1> QED  BY <1>5, <1>7, <1>8, <1>9 DEF IInv

LEMMA ReaderStopsIsSound ==
    ASSUME IInv, NEW a \in Attempts, ReaderStops(a)
    PROVE  IInv'
<1>1. a <= attempt  BY ReadersHaveBegun DEF ReaderStops
<1> QED  BY <1>1, EndIsSound DEF ReaderStops

-----------------------------------------------------------------------------
(* The theorems.                                                           *)

LEMMA InitIsSound == Init => IInv
BY BodyAssumption, ContentLengthNat
   DEF Init, IInv, TypeOK, ReleasedFirst, ReusedIsUnread, InOrder, EndIsReached, Untried

LEMMA NextIsSound == IInv /\ [Next]_vars => IInv'
<1> SUFFICES ASSUME IInv, [Next]_vars  PROVE IInv'  OBVIOUS
<1>1. CASE SendUnary  BY <1>1, SendUnaryIsSound
<1>2. CASE DoReturns \/ Release \/ BufferReused  BY <1>2, SenderIsSound
<1>3. ASSUME NEW a \in Attempts, NEW n \in 1..ContentLength, Read(a, n)  PROVE IInv'
  BY <1>3, ReadIsSound
<1>4. ASSUME NEW a \in Attempts, WriteTo(a)  PROVE IInv'  BY <1>4, WriteToIsSound
<1>5. ASSUME NEW a \in Attempts, WriteToReturns(a)  PROVE IInv'  BY <1>5, WriteToReturnsIsSound
<1>6. ASSUME NEW a \in Attempts, ReaderStops(a)  PROVE IInv'  BY <1>6, ReaderStopsIsSound
<1>7. CASE Retry  BY <1>7, RetryIsSound
<1>8. CASE ContextEnds \/ Finished \/ UNCHANGED vars
  BY <1>8 DEF ContextEnds, Finished, vars, IInv, TypeOK, ReleasedFirst, ReusedIsUnread, InOrder, EndIsReached,
              Untried
<1> QED  BY <1>1, <1>2, <1>3, <1>4, <1>5, <1>6, <1>7, <1>8 DEF Next

LEMMA AlwaysIInv == Spec => []IInv
BY InitIsSound, NextIsSound, PTL DEF Spec

\* The bounds of InOrder meet for an attempt that was given all bytes.
LEMMA AllIsMessage == IInv => RetrySendsAll
<1> SUFFICES ASSUME IInv, attempt > 0,
                    \/ Len(received[attempt]) = ContentLength
                    \/ payload = "envelope" /\ ~shared /\ reader[attempt] = "eof"
             PROVE  received[attempt] = Message
  BY DEF RetrySendsAll
<1> DEFINE r == received[attempt]
<1>1. r \in Seq(Nat) /\ offset \in 0..ContentLength
  BY AttemptsFromOne DEF IInv, TypeOK
<1>2. Len(r) = ContentLength  BY DEF IInv, EndIsReached
<1>3. Len(r) <= offset /\ \A i \in DOMAIN r : i <= r[i] /\ r[i] <= offset - (Len(r) - i)
  BY DEF IInv, InOrder
<1> HIDE DEF r
<1>4. DOMAIN r = 1..ContentLength  BY <1>1, <1>2
<1>5. ASSUME NEW i \in 1..ContentLength  PROVE r[i] = i
  <2>1. i \in Nat /\ r[i] \in Nat  BY <1>1, <1>2, ElementOfSeq
  <2>2. offset = ContentLength  BY <1>1, <1>2, <1>3, ContentLengthNat
  <2>3. i <= r[i] /\ r[i] <= offset - (ContentLength - i)  BY <1>2, <1>3, <1>4
  <2> QED  BY <2>1, <2>2, <2>3, ContentLengthNat
<1>6. Message \in Seq(Nat) /\ Len(Message) = ContentLength
      /\ \A i \in 1..ContentLength : Message[i] = i
  BY ContentLengthNat DEF Message
<1>7. r = Message  BY <1>1, <1>2, <1>5, <1>6, SeqEqual
<1> QED  BY <1>7 DEF r

\* A reader that is late, of whichever attempt, never sees a byte of the buffer's next
\* user: sendUnary's Release discards the payload under the lock before Send returns.
THEOREM LateReadersSeeNoReuse == Spec => []ReusedIsUnread
<1>1. IInv => ReusedIsUnread  BY DEF IInv
<1> QED  BY <1>1, AlwaysIInv, PTL

\* An attempt of net/http that was given as many bytes as the request declares, or the
\* end of a body it shared with no earlier attempt, was given the message: GetBody's
\* Rewind starts it at the first byte.
THEOREM RetriesSendTheMessage == Spec => []RetrySendsAll
BY AllIsMessage, AlwaysIInv, PTL

-----------------------------------------------------------------------------
(* GzipPool.                                                               *)

PoolTypeOK ==
    /\ role \in [Users -> Roles]
    /\ user \in [Users -> {"idle", "open", "closed"}]
    /\ holds \in [Users -> Objects \cup {None}]
    /\ closed \in [Objects -> BOOLEAN]
    /\ bound \in [Objects -> Users \cup {None}]
    /\ made \subseteq Objects
    /\ pool \in [Objects -> Nat]
    /\ out \in [Users -> Seq(Users)]

\* Who has an object open has it alone, and the object works for that user.
OpenIsOwn ==
    \A u \in Users : user[u] = "open" =>
        /\ holds[u] \in made /\ bound[holds[u]] = u /\ ~closed[holds[u]] /\ pool[holds[u]] = 0
        /\ \A v \in Users \ {u} : user[v] = "open" => holds[v] # holds[u]

\* An object is in the pool once at most, closed, after it was made.
PooledIsClosed ==
    /\ \A o \in Objects : pool[o] <= 1 /\ (pool[o] > 0 => o \in made /\ closed[o])
    /\ \A o \in Objects \ made : ~closed[o]

\* What reached a destination, or was read.
BytesAreOwn == \A u \in Users : \A i \in DOMAIN out[u] : out[u][i] = u

Sound == PoolTypeOK /\ OpenIsOwn /\ PooledIsClosed /\ BytesAreOwn

\* All of it may break once a use after Close was done.
PoolInv == late # "done" => Sound

-----------------------------------------------------------------------------
\* Getting an object: nobody has it open, and nothing is written or read.
LEMMA GetIsSound ==
    ASSUME Sound, NEW u \in Users, NEW o \in Objects, user[u] = "idle",
           \A v \in Users : user[v] = "open" => holds[v] # o,
           holds' = [holds EXCEPT ![u] = o], user' = [user EXCEPT ![u] = "open"],
           bound' = [bound EXCEPT ![o] = u], UNCHANGED <<role, out>>,
           made' \in SUBSET Objects, made \subseteq made', o \in made',
           closed' \in [Objects -> BOOLEAN], ~closed'[o],
           pool' \in [Objects -> Nat], pool'[o] = 0,
           \A p \in Objects \ {o} :
               closed'[p] = closed[p] /\ pool'[p] = pool[p] /\ (p \in made' => p \in made)
    PROVE  Sound'
<1>1. PoolTypeOK'  BY DEF Sound, PoolTypeOK
<1>2. /\ user'[u] = "open" /\ holds'[u] = o /\ bound'[o] = u
      /\ \A v \in Users \ {u} : user'[v] = user[v] /\ holds'[v] = holds[v]
      /\ \A p \in Objects \ {o} : bound'[p] = bound[p]
  BY DEF Sound, PoolTypeOK
<1>3. ASSUME NEW v \in Users, user'[v] = "open"
      PROVE  /\ holds'[v] \in made' /\ bound'[holds'[v]] = v
             /\ ~closed'[holds'[v]] /\ pool'[holds'[v]] = 0
             /\ \A w \in Users \ {v} : user'[w] = "open" => holds'[w] # holds'[v]
  <2>1. CASE v = u  BY <1>2, <2>1
  <2>2. CASE v # u
    <3>1. user[v] = "open" /\ holds[v] \in Objects \ {o} /\ holds'[v] = holds[v]
      BY <1>2, <1>3, <2>2 DEF Sound, PoolTypeOK, OpenIsOwn
    <3>2. /\ holds[v] \in made' /\ bound'[holds[v]] = v
          /\ ~closed'[holds[v]] /\ pool'[holds[v]] = 0
      BY <1>2, <3>1 DEF Sound, OpenIsOwn
    <3>3. ASSUME NEW w \in Users \ {v}, user'[w] = "open"  PROVE holds'[w] # holds[v]
      BY <1>2, <3>1, <3>3 DEF Sound, OpenIsOwn
    <3> QED  BY <3>1, <3>2, <3>3
  <2> QED  BY <2>1, <2>2
<1>4. OpenIsOwn'  BY <1>3 DEF OpenIsOwn
<1>5. PooledIsClosed'  BY DEF Sound, PooledIsClosed
<1>6. BytesAreOwn'  BY DEF Sound, BytesAreOwn
<1> QED  BY <1>1, <1>4, <1>5, <1>6 DEF Sound

LEMMA GetPooledIsSound ==
    ASSUME Sound, NEW u \in Users, NEW o \in Objects, GetPooled(u, o)
    PROVE  Sound'
<1>1. \A v \in Users : user[v] = "open" => holds[v] # o
  BY DEF Sound, OpenIsOwn, GetPooled, Pooled
<1>2. pool[o] = 1 /\ o \in made  BY DEF Sound, PoolTypeOK, PooledIsClosed, GetPooled, Pooled
<1>3. pool' \in [Objects -> Nat] /\ pool'[o] = 0 /\ \A p \in Objects \ {o} : pool'[p] = pool[p]
  BY <1>2 DEF Sound, PoolTypeOK, GetPooled, Pooled
<1>4. /\ closed' \in [Objects -> BOOLEAN] /\ ~closed'[o]
      /\ \A p \in Objects \ {o} : closed'[p] = closed[p]
  BY DEF Sound, PoolTypeOK, GetPooled
<1>5. made' \in SUBSET Objects /\ made' = made  BY DEF Sound, PoolTypeOK, GetPooled, Pooled
<1> QED  BY <1>1, <1>2, <1>3, <1>4, <1>5, GetIsSound DEF GetPooled, Pooled

LEMMA GetNewIsSound ==
    ASSUME Sound, NEW u \in Users, NEW o \in Objects, GetNew(u, o)
    PROVE  Sound'
<1>1. o \notin made  BY DEF GetNew
<1>2. \A v \in Users : user[v] = "open" => holds[v] # o
  BY <1>1 DEF Sound, OpenIsOwn
<1>3. pool[o] = 0 /\ ~closed[o]  BY <1>1 DEF Sound, PoolTypeOK, PooledIsClosed
<1>4. made' \in SUBSET Objects /\ made' = made \cup {o}  BY DEF Sound, PoolTypeOK, GetNew
<1>5. UNCHANGED <<closed, pool>> /\ pool \in [Objects -> Nat] /\ closed \in [Objects -> BOOLEAN]
  BY DEF Sound, PoolTypeOK, GetNew
<1> QED  BY <1>2, <1>3, <1>4, <1>5, GetIsSound DEF GetNew

\* A reader that was taken from the pool and dropped is nobody's.
LEMMA DecompressFailsIsSound ==
    ASSUME Sound, NEW u \in Users, DecompressFails(u)
    PROVE  Sound'
<1>1. /\ user[u] = "idle" /\ user' = [user EXCEPT ![u] = "closed"]
      /\ UNCHANGED <<role, holds, closed, made, out, late>>
  BY DEF DecompressFails
<1>2. \A v \in Users : user'[v] = "open" => user[v] = "open"
  BY <1>1 DEF Sound, PoolTypeOK
<1>3. CASE UNCHANGED <<bound, pool>>
  <2>1. PoolTypeOK'  BY <1>1, <1>3 DEF Sound, PoolTypeOK
  <2>2. OpenIsOwn' /\ PooledIsClosed' /\ BytesAreOwn'
    BY <1>1, <1>2, <1>3 DEF Sound, OpenIsOwn, PooledIsClosed, BytesAreOwn
  <2> QED  BY <2>1, <2>2 DEF Sound
<1>4. ASSUME NEW r \in Readers, pool[r] > 0, bound' = [bound EXCEPT ![r] = u],
             pool' = [pool EXCEPT ![r] = @ - 1]
      PROVE  Sound'
  <2>1. r \in Objects /\ pool[r] = 1
    BY <1>4 DEF Objects, Sound, PoolTypeOK, PooledIsClosed
  <2>2. /\ pool' \in [Objects -> Nat] /\ pool'[r] = 0
        /\ \A p \in Objects \ {r} : pool'[p] = pool[p] /\ bound'[p] = bound[p]
    BY <1>4, <2>1 DEF Sound, PoolTypeOK
  <2>3. PoolTypeOK'  BY <1>1, <1>4, <2>1, <2>2 DEF Sound, PoolTypeOK
  <2>4. \A v \in Users : user[v] = "open" => holds[v] \in Objects \ {r}
    BY <1>4 DEF Sound, PoolTypeOK, OpenIsOwn
  <2>5. OpenIsOwn'  BY <1>1, <1>2, <2>2, <2>4 DEF Sound, OpenIsOwn
  <2>6. PooledIsClosed' /\ BytesAreOwn'
    BY <1>1, <2>2 DEF Sound, PooledIsClosed, BytesAreOwn
  <2> QED  BY <2>3, <2>5, <2>6 DEF Sound
<1> QED  BY <1>3, <1>4 DEF DecompressFails

\* A user's bytes: to its own destination, or from its own source.
LEMMA TransferIsSound ==
    ASSUME Sound, NEW u \in Users, Transfer(u)
    PROVE  Sound'
<1>1. bound[holds[u]] = u /\ ~closed[holds[u]]  BY DEF Sound, OpenIsOwn, Transfer
<1>2. out' = [out EXCEPT ![u] = Append(@, u)]  BY <1>1 DEF Transfer, Uses
<1>3. out[u] \in Seq(Users)  BY DEF Sound, PoolTypeOK
<1>4. /\ Append(out[u], u) \in Seq(Users)
      /\ \A i \in DOMAIN Append(out[u], u) : Append(out[u], u)[i] = u
  BY <1>3 DEF Sound, BytesAreOwn
<1>5. /\ out' \in [Users -> Seq(Users)] /\ out'[u] = Append(out[u], u)
      /\ \A v \in Users \ {u} : out'[v] = out[v]
  BY <1>2, <1>4 DEF Sound, PoolTypeOK
<1>6. BytesAreOwn'  BY <1>4, <1>5 DEF Sound, BytesAreOwn
<1>7. PoolTypeOK' /\ OpenIsOwn' /\ PooledIsClosed'
  BY <1>5 DEF Transfer, Sound, PoolTypeOK, OpenIsOwn, PooledIsClosed
<1> QED  BY <1>6, <1>7 DEF Sound

\* Closing: nobody else has the object open, and it was in no pool.
LEMMA CloseIsSound ==
    ASSUME Sound, NEW u \in Users, Close(u)
    PROVE  Sound'
<1> DEFINE o == holds[u]
<1>1. /\ o \in made /\ o \in Objects /\ ~closed[o] /\ pool[o] = 0
      /\ \A v \in Users \ {u} : user[v] = "open" => holds[v] # o
  BY DEF Sound, PoolTypeOK, OpenIsOwn, Close
<1>2. /\ closed' = [closed EXCEPT ![o] = TRUE] /\ pool' \in {pool, [pool EXCEPT ![o] = @ + 1]}
      /\ user' = [user EXCEPT ![u] = "closed"]
      /\ UNCHANGED <<role, holds, bound, made, out, late>>
  BY <1>1 DEF Close, Closes
<1> HIDE DEF o
<1>3. /\ pool' \in [Objects -> Nat] /\ pool'[o] \in {0, 1}
      /\ \A p \in Objects \ {o} : pool'[p] = pool[p]
  <2>1. CASE pool' = pool  BY <1>1, <2>1 DEF Sound, PoolTypeOK
  <2>2. CASE pool' = [pool EXCEPT ![o] = @ + 1]  BY <1>1, <2>2 DEF Sound, PoolTypeOK
  <2> QED  BY <1>2, <2>1, <2>2
<1>4. /\ closed' \in [Objects -> BOOLEAN] /\ closed'[o]
      /\ \A p \in Objects \ {o} : closed'[p] = closed[p]
  BY <1>1, <1>2 DEF Sound, PoolTypeOK
<1>5. PoolTypeOK'  BY <1>2, <1>3, <1>4 DEF Sound, PoolTypeOK
<1>6. \A v \in Users : user'[v] = "open" => user[v] = "open" /\ holds[v] \in Objects \ {o}
  BY <1>1, <1>2 DEF Sound, PoolTypeOK, OpenIsOwn
<1>7. OpenIsOwn'  BY <1>2, <1>3, <1>4, <1>6 DEF Sound, OpenIsOwn
<1>8. PooledIsClosed' /\ BytesAreOwn'
  BY <1>1, <1>2, <1>3, <1>4 DEF Sound, PooledIsClosed, BytesAreOwn
<1> QED  BY <1>5, <1>7, <1>8 DEF Sound

\* A use after Close is rejected and changes nothing, or it is done.
LEMMA LateIsSound ==
    ASSUME Sound, NEW u \in Users, LateTransfer(u) \/ LateClose(u), late' # "done"
    PROVE  Sound'
<1>1. closed[holds[u]]  BY DEF LateTransfer, LateClose
<1>2. UNCHANGED <<role, user, holds, closed, bound, made, pool, out>>
  BY <1>1 DEF LateTransfer, LateClose, Uses, Closes
<1> QED  BY <1>2 DEF Sound, PoolTypeOK, OpenIsOwn, PooledIsClosed, BytesAreOwn

-----------------------------------------------------------------------------
LEMMA PoolInitIsSound == PoolInit => PoolInv
BY DEF PoolInit, PoolInv, Sound, PoolTypeOK, OpenIsOwn, PooledIsClosed, BytesAreOwn

LEMMA PoolNextIsSound == PoolInv /\ [PoolNext]_poolVars => PoolInv'
<1> SUFFICES ASSUME PoolInv, [PoolNext]_poolVars, late' # "done"  PROVE Sound'
  BY DEF PoolInv
<1>1. late # "done"
  BY DEF PoolNext, poolVars, GetPooled, Pooled, GetNew, DecompressFails, Transfer, Close, LateTransfer,
         LateClose, MayUseLate, PoolFinished
<1>2. Sound  BY <1>1 DEF PoolInv
<1>3. ASSUME NEW u \in Users, NEW o \in Objects, GetPooled(u, o)  PROVE Sound'
  BY <1>2, <1>3, GetPooledIsSound
<1>4. ASSUME NEW u \in Users, NEW o \in Objects, GetNew(u, o)  PROVE Sound'
  BY <1>2, <1>4, GetNewIsSound
<1>5. ASSUME NEW u \in Users, DecompressFails(u)  PROVE Sound'
  BY <1>2, <1>5, DecompressFailsIsSound
<1>6. ASSUME NEW u \in Users, Transfer(u)  PROVE Sound'  BY <1>2, <1>6, TransferIsSound
<1>7. ASSUME NEW u \in Users, Close(u)  PROVE Sound'  BY <1>2, <1>7, CloseIsSound
<1>8. ASSUME NEW u \in Users, LateTransfer(u) \/ LateClose(u)  PROVE Sound'
  BY <1>2, <1>8, LateIsSound
<1>9. CASE PoolFinished \/ UNCHANGED poolVars
  BY <1>2, <1>9 DEF PoolFinished, poolVars, Sound, PoolTypeOK, OpenIsOwn, PooledIsClosed, BytesAreOwn
<1> QED  BY <1>3, <1>4, <1>5, <1>6, <1>7, <1>8, <1>9 DEF PoolNext

\* Until a use after Close slips through, however the pools recycle, drop or fail to
\* reset the objects: every message is compressed to its own destination and read from
\* its own source, and no two calls have the same gzip writer or reader open.
THEOREM OutputIsAlwaysOwn == PoolSpec => []OutputIsOwn
<1>1. PoolInv => OutputIsOwn
  BY DEF PoolInv, Sound, OpenIsOwn, BytesAreOwn, OutputIsOwn
<1> QED  BY <1>1, PoolInitIsSound, PoolNextIsSound, PTL DEF PoolSpec
=============================================================================
