-------------------------- MODULE NegotiationProofs --------------------------
(***************************************************************************)
(* Proofs about ErrorWire, MessageLimits and Negotiation.                  *)
(*                                                                         *)
(* Messages of any length and of any bytes go through the percent encoding *)
(* of gRPC, and through JSON if they are ASCII; sizes of any number of     *)
(* bytes go through base64; and so whole errors go through Connect, gRPC   *)
(* and gRPC-Web.                                                           *)
(*                                                                         *)
(* For all codecs, compressors and limits, and sizes of any width, what an *)
(* unmarshaler takes is the message that was marshaled or is refused for   *)
(* its size, and what the client is told is what the server decided.       *)
(***************************************************************************)
EXTENDS Negotiation, SequenceTheorems, WellFoundedInduction, TLAPS

-----------------------------------------------------------------------------
(* Induction.  The provers cannot instantiate a theorem that takes a       *)
(* predicate; the same is said here of the set of the numbers it holds of. *)

\* Numbers are well-founded.
LEMMA LeastNumber ==
    ASSUME NEW T, T \subseteq Nat, T # {}
    PROVE  \E n \in T : \A m \in T : n <= m
<1>1. IsWellFoundedOn(OpToRel(<, Nat), Nat)  BY NatLessThanWellFounded
<1>2. PICK n \in T : \A m \in T : ~(<<m, n>> \in OpToRel(<, Nat))
  BY <1>1, WFMin
<1>3. ASSUME NEW m \in T PROVE n <= m
  <2>1. ~(<<m, n>> \in {ss \in Nat \X Nat : ss[1] < ss[2]})
    BY <1>2 DEF OpToRel
  <2> QED  BY <2>1
<1> QED  BY <1>3

\* What holds of zero and of the successor of each it holds of, holds of all.
LEMMA SetInduction ==
    ASSUME NEW T, 0 \in T, \A n \in Nat : n \in T => n + 1 \in T
    PROVE  Nat \subseteq T
<1> SUFFICES ASSUME NEW k \in Nat, k \notin T PROVE FALSE  OBVIOUS
<1> DEFINE Others == {n \in Nat : n \notin T}
<1>1. PICK n \in Others : \A m \in Others : n <= m
  <2>1. Others \subseteq Nat /\ k \in Others  OBVIOUS
  <2> HIDE DEF Others
  <2> QED  BY Zenon, <2>1, LeastNumber
<1>2. n \in Nat /\ n # 0  BY <1>1
<1>3. n - 1 \in Nat /\ (n - 1) + 1 = n  BY <1>2
<1>4. n - 1 \notin T  BY <1>1, <1>3
<1>5. n - 1 \in Others  BY <1>3, <1>4
<1>6. n <= n - 1  BY <1>1, <1>5
<1> QED  BY <1>2, <1>6

-----------------------------------------------------------------------------
(* Written: what is written piece by piece.                                *)

\* s is the concatenation of the pieces p, the i-th of which ends at off[i].
Laid(s, p, off) ==
    /\ off \in [0 .. Len(p) -> Nat] /\ off[0] = 0 /\ off[Len(p)] = Len(s)
    /\ \A i \in 1 .. Len(p) : off[i] = off[i - 1] + Len(p[i])
    /\ \A i \in 1 .. Len(p) : \A k \in 1 .. Len(p[i]) : s[off[i - 1] + k] = p[i][k]

\* The recursive function in the definition of Written exists.
LEMMA WrittenExists ==
    ASSUME NEW p
    PROVE  \A n \in Nat : \E g :
             g = [i \in 0 .. n |-> IF i = 0 THEN <<>> ELSE g[i - 1] \o p[i]]
<1> DEFINE D(g, n) == [i \in 0 .. n |-> IF i = 0 THEN <<>> ELSE g[i - 1] \o p[i]]
           T == {n \in Nat : \E g : g = D(g, n)}
<1>1. 0 \in T
  <2>1. [i \in 0 .. 0 |-> <<>>] = D([i \in 0 .. 0 |-> <<>>], 0)  OBVIOUS
  <2> HIDE DEF D
  <2> QED  BY <2>1
<1>2. ASSUME NEW n \in Nat, n \in T PROVE n + 1 \in T
  <2>1. PICK g : g = D(g, n)  BY Zenon, <1>2
  <2> DEFINE h == [i \in 0 .. n + 1 |-> IF i = n + 1 THEN g[i - 1] \o p[i] ELSE g[i]]
  <2>2. \A i \in 0 .. n : h[i] = g[i]  OBVIOUS
  <2>3. ASSUME NEW i \in 0 .. n + 1
        PROVE  h[i] = IF i = 0 THEN <<>> ELSE h[i - 1] \o p[i]
    <3>1. i = 0 \/ h[i - 1] = g[i - 1]  BY <2>2
    <3>2. CASE i = n + 1
      <4>1. n + 1 \in 0 .. n + 1 /\ i # 0  BY <3>2
      <4>2. h[n + 1] = g[(n + 1) - 1] \o p[n + 1]  BY <4>1, Zenon
      <4> HIDE DEF h
      <4> QED  BY <3>2, <4>1, <4>2, <3>1, Zenon
    <3>3. CASE i \in 0 .. n
      <4>1. h[i] = g[i]  BY <3>3, <2>2
      <4>2. g[i] = IF i = 0 THEN <<>> ELSE g[i - 1] \o p[i]  BY Zenon, <3>3, <2>1
      <4> HIDE DEF h
      <4> QED  BY <4>1, <4>2, <3>1
    <3> QED  BY <3>2, <3>3
  <2>4. h = D(h, n + 1)
    <3>1. h = [i \in 0 .. n + 1 |-> h[i]]  OBVIOUS
    <3> HIDE DEF h
    <3> QED  BY Zenon, <3>1, <2>3
  <2>5. \E x : x = D(x, n + 1)
    <3> HIDE DEF h, D
    <3> QED  BY <2>4
  <2> HIDE DEF D
  <2> QED  BY <2>5
<1>3. Nat \subseteq T
  <2> HIDE DEF T
  <2> QED  BY <1>1, <1>2, SetInduction
<1> QED  BY Zenon, <1>3

\* Written appends one piece after the other.
LEMMA WrittenUnfolds ==
    ASSUME NEW p, Len(p) \in Nat
    PROVE  \E f : /\ Written(p) = f[Len(p)]
                  /\ f[0] = <<>>
                  /\ \A i \in 1 .. Len(p) : f[i] = f[i - 1] \o p[i]
<1> DEFINE upto[n \in 0 .. Len(p)] == IF n = 0 THEN <<>> ELSE upto[n - 1] \o p[n]
<1>1. Written(p) = upto[Len(p)]  BY DEF Written
<1>2. upto = CHOOSE g : g = [n \in 0 .. Len(p) |-> IF n = 0 THEN <<>> ELSE g[n - 1] \o p[n]]
  BY DEF upto
<1> HIDE DEF upto
<1>3. upto = [n \in 0 .. Len(p) |-> IF n = 0 THEN <<>> ELSE upto[n - 1] \o p[n]]
  BY Zenon, <1>2, WrittenExists
<1>4. 0 \in 0 .. Len(p)  OBVIOUS
<1>5. upto[0] = <<>>  BY <1>3, <1>4
<1>6. ASSUME NEW i \in 1 .. Len(p) PROVE upto[i] = upto[i - 1] \o p[i]
  <2>1. i \in 0 .. Len(p) /\ i # 0  OBVIOUS
  <2>2. upto[i] = IF i = 0 THEN <<>> ELSE upto[i - 1] \o p[i]  BY Zenon, <1>3, <2>1
  <2> QED  BY <2>1, <2>2, Zenon
<1> QED  BY Zenon, <1>1, <1>5, <1>6

\* A concatenation has the one sequence and then the other.
LEMMA ConcatLays ==
    ASSUME NEW S, NEW a \in Seq(S), NEW b \in Seq(S)
    PROVE  /\ a \o b \in Seq(S) /\ Len(a) \in Nat /\ Len(b) \in Nat
           /\ Len(a \o b) = Len(a) + Len(b)
           /\ \A j \in 1 .. Len(a) : (a \o b)[j] = a[j]
           /\ \A k \in 1 .. Len(b) : (a \o b)[Len(a) + k] = b[k]
<1>1. Len(a) \in Nat /\ Len(b) \in Nat  BY LenProperties
<1>2. /\ a \o b \in Seq(S)
      /\ Len(a \o b) = Len(a) + Len(b)
      /\ \A i \in 1 .. Len(a) + Len(b) :
           (a \o b)[i] = IF i <= Len(a) THEN a[i] ELSE b[i - Len(a)]
  BY ConcatProperties
<1>3. ASSUME NEW j \in 1 .. Len(a) PROVE (a \o b)[j] = a[j]
  <2>1. j \in 1 .. Len(a) + Len(b) /\ j <= Len(a)  BY <1>1
  <2> QED  BY <1>2, <2>1
<1>4. ASSUME NEW k \in 1 .. Len(b) PROVE (a \o b)[Len(a) + k] = b[k]
  <2>1. /\ Len(a) + k \in 1 .. Len(a) + Len(b) /\ ~(Len(a) + k <= Len(a))
        /\ (Len(a) + k) - Len(a) = k
    BY <1>1
  <2> QED  BY <1>2, <2>1
<1> QED  BY <1>1, <1>2, <1>3, <1>4

\* Written lays its pieces side by side.
LEMMA WrittenIsLaid ==
    ASSUME NEW S
    PROVE  \A p \in Seq(Seq(S)) :
             Written(p) \in Seq(S) /\ \E off : Laid(Written(p), p, off)
<1>s. SUFFICES ASSUME NEW p, p \in Seq(Seq(S))
               PROVE  Written(p) \in Seq(S) /\ \E off : Laid(Written(p), p, off)
  OBVIOUS
<1>n. Len(p) \in Nat  BY <1>s, LenProperties
<1>p. ASSUME NEW i \in 1 .. Len(p) PROVE p[i] \in Seq(S)
  BY <1>s, ElementOfSeq
<1>1. PICK f : /\ Written(p) = f[Len(p)] /\ f[0] = <<>>
               /\ \A i \in 1 .. Len(p) : f[i] = f[i - 1] \o p[i]
  BY Zenon, <1>n, WrittenUnfolds
<1> DEFINE off == [i \in 0 .. Len(p) |-> Len(f[i])]
           \* What is written once the pieces up to the n-th are.
           LaidTo(n) ==
             /\ f[n] \in Seq(S) /\ Len(f[n]) \in Nat
             /\ n > 0 => Len(f[n]) = Len(f[n - 1]) + Len(p[n])
             /\ \A i \in 1 .. n : \A k \in 1 .. Len(p[i]) :
                  off[i - 1] + k \in 1 .. Len(f[n]) /\ f[n][off[i - 1] + k] = p[i][k]
           T == {n \in Nat : n <= Len(p) => LaidTo(n)}
<1>2. 0 \in T
  <2>1. f[0] \in Seq(S) /\ Len(f[0]) = 0  BY <1>1, EmptySeq
  <2> HIDE DEF off
  <2> QED  BY <2>1
<1>3. ASSUME NEW n \in Nat, n \in T PROVE n + 1 \in T
  <2> SUFFICES ASSUME n + 1 <= Len(p) PROVE LaidTo(n + 1)
    <3> HIDE DEF LaidTo
    <3> QED  OBVIOUS
  <2>1. LaidTo(n)
    <3>1. n <= Len(p)  BY <1>n
    <3> HIDE DEF LaidTo
    <3> QED  BY <1>3, <3>1
  <2>2. n + 1 \in 1 .. Len(p) /\ n \in 0 .. Len(p) /\ (n + 1) - 1 = n  BY <1>n
  <2>3. PICK a, b : a = f[n] /\ b = p[n + 1]  OBVIOUS
  <2>4. f[n + 1] = a \o b  BY Zenon, <1>1, <2>2, <2>3
  <2>5. /\ a \in Seq(S) /\ b \in Seq(S)
        /\ \A i \in 1 .. n : \A k \in 1 .. Len(p[i]) :
             off[i - 1] + k \in 1 .. Len(a) /\ a[off[i - 1] + k] = p[i][k]
    BY Zenon, <2>1, <2>2, <2>3, <1>p
  <2>6. /\ a \o b \in Seq(S) /\ Len(a) \in Nat /\ Len(b) \in Nat
        /\ Len(a \o b) = Len(a) + Len(b)
        /\ \A j \in 1 .. Len(a) : (a \o b)[j] = a[j]
        /\ \A k \in 1 .. Len(b) : (a \o b)[Len(a) + k] = b[k]
    BY <2>5, ConcatLays
  <2>7. off[n] = Len(a)  BY <2>2, <2>3
  <2>8. Len(a \o b) \in Nat /\ 1 .. Len(a) \subseteq 1 .. Len(a \o b)  BY <2>6
  <2> HIDE DEF off
  <2>9. ASSUME NEW i \in 1 .. n + 1, NEW k \in 1 .. Len(p[i])
        PROVE  off[i - 1] + k \in 1 .. Len(a \o b) /\ (a \o b)[off[i - 1] + k] = p[i][k]
    <3>1. CASE i \in 1 .. n
      <4>1. off[i - 1] + k \in 1 .. Len(a) /\ a[off[i - 1] + k] = p[i][k]
        BY <2>5, <3>1, <2>9
      <4> QED  BY Zenon, <4>1, <2>6, <2>8
    <3>2. CASE i = n + 1
      <4>1. off[i - 1] = Len(a) /\ p[i] = b  BY <3>2, <2>2, <2>3, <2>7
      <4>2. k \in 1 .. Len(b)  BY <4>1, <2>9
      <4>3. Len(a) + k \in 1 .. Len(a \o b)  BY <4>2, <2>6
      <4> QED  BY <4>1, <4>2, <4>3, <2>6
    <3> QED  BY <3>1, <3>2
  <2> QED  BY Zenon, <2>2, <2>3, <2>4, <2>6, <2>8, <2>9
<1>4. Nat \subseteq T
  <2> HIDE DEF T
  <2> QED  BY <1>2, <1>3, SetInduction
<1>5. ASSUME NEW n \in 0 .. Len(p) PROVE LaidTo(n)
  <2>1. n \in Nat /\ n <= Len(p)  BY <1>n
  <2> HIDE DEF LaidTo
  <2> QED  BY <2>1, <1>4
<1>6. ASSUME NEW i \in 1 .. Len(p) PROVE off[i] = off[i - 1] + Len(p[i])
  <2>1. i \in 0 .. Len(p) /\ i - 1 \in 0 .. Len(p) /\ i > 0  BY <1>n
  <2>2. Len(f[i]) = Len(f[i - 1]) + Len(p[i])  BY Zenon, <2>1, <1>5
  <2>3. off[i] = Len(f[i]) /\ off[i - 1] = Len(f[i - 1])  BY <2>1
  <2> HIDE DEF off
  <2> QED  BY <2>2, <2>3, Zenon
<1>7. Len(p) \in 0 .. Len(p) /\ 0 \in 0 .. Len(p)  BY <1>n
<1>8. off[Len(p)] = Len(Written(p)) /\ off[0] = 0  BY <1>1, <1>7
<1>9. off \in [0 .. Len(p) -> Nat]
  <2>1. \A i \in 0 .. Len(p) : Len(f[i]) \in Nat  BY <1>5
  <2> QED  BY <2>1, Zenon
<1>10. LaidTo(Len(p))  BY Zenon, <1>5, <1>7
<1>11. /\ Written(p) \in Seq(S)
       /\ \A i \in 1 .. Len(p) : \A k \in 1 .. Len(p[i]) : Written(p)[off[i - 1] + k] = p[i][k]
  BY <1>1, <1>10
<1> HIDE DEF off
<1>12. Laid(Written(p), p, off)  BY <1>6, <1>8, <1>9, <1>11 DEF Laid
<1> QED  BY <1>11, <1>12

\* Later pieces end later.
LEMMA EndsGrow ==
    ASSUME NEW n \in Nat, NEW off \in [0 .. n -> Nat],
           \A i \in 1 .. n : off[i - 1] <= off[i]
    PROVE  \A i, j \in 0 .. n : i <= j => off[i] <= off[j]
<1> SUFFICES ASSUME NEW i \in 0 .. n, NEW j \in 0 .. n, i <= j PROVE off[i] <= off[j]
  OBVIOUS
<1> DEFINE T == {d \in Nat : i + d <= n => off[i] <= off[i + d]}
<1>1. 0 \in T  OBVIOUS
<1>2. ASSUME NEW d \in Nat, d \in T PROVE d + 1 \in T
  <2> SUFFICES ASSUME i + d + 1 <= n PROVE off[i] <= off[i + d + 1]
    <3>1. i + (d + 1) = i + d + 1  OBVIOUS
    <3> QED  BY <3>1
  <2>1. i + d \in 0 .. n /\ i + d + 1 \in 1 .. n /\ (i + d + 1) - 1 = i + d  OBVIOUS
  <2>2. off[i] <= off[i + d]  BY <1>2, <2>1
  <2>3. off[i + d] <= off[i + d + 1]  BY <2>1
  <2>4. off[i] \in Nat /\ off[i + d] \in Nat /\ off[i + d + 1] \in Nat  BY <2>1
  <2> QED  BY <2>2, <2>3, <2>4
<1>3. Nat \subseteq T
  <2> HIDE DEF T
  <2> QED  BY Zenon, <1>1, <1>2, SetInduction
<1>4. j - i \in Nat /\ i + (j - i) = j  OBVIOUS
<1>5. j - i \in T  BY Zenon, <1>3, <1>4
<1> QED  BY <1>4, <1>5

\* Every place is that of a piece.
LEMMA EndsCover ==
    ASSUME NEW n \in Nat, NEW off \in [0 .. n -> Nat], off[0] = 0, NEW j \in 1 .. off[n]
    PROVE  \E i \in 1 .. n : off[i - 1] < j /\ j <= off[i]
<1> DEFINE T == {i \in 0 .. n : j <= off[i]}
<1>1. T \subseteq Nat /\ n \in T  OBVIOUS
<1>2. PICK i \in T : \A k \in T : i <= k
  <2> HIDE DEF T
  <2> QED  BY Zenon, <1>1, LeastNumber
<1>3. i \in 0 .. n /\ i # 0 /\ j <= off[i]  BY <1>2
<1>4. i - 1 \in 0 .. n /\ i \in 1 .. n /\ ~(i <= i - 1)  BY <1>3
<1>5. ~(j <= off[i - 1])  BY <1>2, <1>4
<1>6. off[i - 1] \in Nat /\ j \in Nat  BY <1>4
<1> QED  BY <1>3, <1>4, <1>5, <1>6

-----------------------------------------------------------------------------
(* The percent encoding of a message.                                      *)

Byte == 0 .. 255

\* What grpcPercentEncode makes of one byte, and of those of a message.
Escape(b) ==
    IF grpcShouldEscape(b) THEN <<Percent, upperhex(b \div 16), upperhex(b % 16)>> ELSE <<b>>
Escapes(msg) == [i \in DOMAIN msg |-> Escape(msg[i])]

\* One turn of the loop of grpcPercentDecode.
DecodeAt(input, rest, i) ==
    IF i > Len(input) THEN <<>>
    ELSE IF input[i] # Percent THEN <<input[i]>> \o rest[i + 1]
    ELSE IF ~validateHex(input, i) THEN Undecodable
    ELSE <<16 * unhex(input[i + 1]) + unhex(input[i + 2])>> \o rest[i + 3]

\* The two digits that upperhex makes of a byte are what unhex makes that byte of.
LEMMA EscapeIsHex ==
    ASSUME NEW b \in Byte, grpcShouldEscape(b)
    PROVE  LET h == upperhex(b \div 16)
               l == upperhex(b % 16)
           IN  /\ h \in 48 .. 57 \cup 65 .. 70 /\ l \in 48 .. 57 \cup 65 .. 70
               /\ isHex(h) /\ isHex(l) /\ 16 * unhex(h) + unhex(l) = b
<1>1. PICK q \in 0 .. 15, r \in 0 .. 15 : q = b \div 16 /\ r = b % 16 /\ b = 16 * q + r
  BY DEF Byte
<1>2. ASSUME NEW x \in 0 .. 15
      PROVE  upperhex(x) \in 48 .. 57 \cup 65 .. 70 /\ unhex(upperhex(x)) = x
  <2>1. CASE x < 10  BY <2>1 DEF upperhex, unhex
  <2>2. CASE x >= 10
    <3>1. upperhex(x) = 55 + x /\ 55 + x \in 65 .. 70  BY <2>2 DEF upperhex
    <3>2. unhex(55 + x) = (55 + x) - 55  BY <3>1 DEF unhex
    <3> QED  BY <3>1, <3>2
  <2> QED  BY <2>1, <2>2
<1>3. upperhex(q) \in 48 .. 57 \cup 65 .. 70 /\ unhex(upperhex(q)) = q  BY <1>2
<1>4. upperhex(r) \in 48 .. 57 \cup 65 .. 70 /\ unhex(upperhex(r)) = r  BY <1>2
<1>5. isHex(upperhex(q)) /\ isHex(upperhex(r))  BY <1>3, <1>4 DEF isHex
<1> QED  BY <1>1, <1>3, <1>4, <1>5

\* An escape has three bytes, and what needs none is a byte.
LEMMA EscapeIsBytes ==
    ASSUME NEW b \in Byte
    PROVE  /\ Escape(b) \in Seq(Byte)
           /\ Len(Escape(b)) = IF grpcShouldEscape(b) THEN 3 ELSE 1
<1>1. CASE grpcShouldEscape(b)
  <2>1. /\ upperhex(b \div 16) \in 48 .. 57 \cup 65 .. 70
        /\ upperhex(b % 16) \in 48 .. 57 \cup 65 .. 70
    BY <1>1, EscapeIsHex, Zenon
  <2>2. 48 .. 57 \cup 65 .. 70 \subseteq Byte /\ Percent \in Byte  BY DEF Byte, Percent
  <2>3. PICK h \in Byte, l \in Byte : h = upperhex(b \div 16) /\ l = upperhex(b % 16)
    BY <2>1, <2>2, Zenon
  <2> QED  BY <1>1, <2>2, <2>3 DEF Escape
<1>2. CASE ~grpcShouldEscape(b)  BY <1>2 DEF Escape
<1> QED  BY <1>1, <1>2

\* The recursive function in the definition of grpcPercentDecode exists.
LEMMA DecodeExists ==
    ASSUME NEW input, Len(input) \in Nat
    PROVE  \E g : g = [i \in 1 .. Len(input) + 1 |-> DecodeAt(input, g, i)]
<1>n. PICK n \in Nat : n = Len(input)  OBVIOUS
<1> DEFINE D(g, d) == [i \in n + 1 - d .. n + 1 |-> DecodeAt(input, g, i)]
           T == {d \in Nat : d <= n => \E g : g = D(g, d)}
\* A turn of the loop only uses what comes after it.
<1>1. ASSUME NEW i \in 1 .. n + 1, NEW g, NEW h, \A j \in i + 1 .. n + 1 : g[j] = h[j]
      PROVE  DecodeAt(input, g, i) = DecodeAt(input, h, i)
  <2>1. CASE i > n  BY <2>1, <1>n DEF DecodeAt
  <2>2. CASE i <= n /\ input[i] # Percent
    <3>1. g[i + 1] = h[i + 1]  BY <2>2, <1>1
    <3>2. ASSUME NEW x PROVE DecodeAt(input, x, i) = <<input[i]>> \o x[i + 1]
      BY <2>2, <1>n DEF DecodeAt
    <3> QED  BY Zenon, <3>1, <3>2
  <2>3. CASE i <= n /\ input[i] = Percent
    <3>1. ASSUME NEW x
          PROVE  DecodeAt(input, x, i) =
                   IF ~validateHex(input, i) THEN Undecodable
                   ELSE <<16 * unhex(input[i + 1]) + unhex(input[i + 2])>> \o x[i + 3]
      BY <2>3, <1>n DEF DecodeAt
    <3>2. validateHex(input, i) => g[i + 3] = h[i + 3]
      <4> SUFFICES ASSUME validateHex(input, i) PROVE g[i + 3] = h[i + 3]  OBVIOUS
      <4>1. i + 2 <= n  BY <1>n DEF validateHex
      <4> QED  BY <4>1, <1>1
    <3> QED  BY <3>1, <3>2, Zenon
  <2> QED  BY <2>1, <2>2, <2>3
<1>2. 0 \in T
  <2> DEFINE h == [i \in n + 1 .. n + 1 |-> DecodeAt(input, <<>>, i)]
  <2>1. ASSUME NEW i \in n + 1 .. n + 1 PROVE h[i] = DecodeAt(input, h, i)
    <3>1. h[i] = DecodeAt(input, <<>>, i)  OBVIOUS
    <3> HIDE DEF h
    <3>2. i \in 1 .. n + 1 /\ \A j \in i + 1 .. n + 1 : <<>>[j] = h[j]  OBVIOUS
    <3> QED  BY <3>1, <3>2, <1>1
  <2>2. h = [i \in n + 1 .. n + 1 |-> h[i]]  OBVIOUS
  <2> HIDE DEF h
  <2>3. h = D(h, 0)  BY <2>1, <2>2
  <2> HIDE DEF D
  <2> QED  BY <2>3
<1>3. ASSUME NEW d \in Nat, d \in T PROVE d + 1 \in T
  <2> SUFFICES ASSUME d + 1 <= n PROVE \E x : x = D(x, d + 1)  OBVIOUS
  <2>1. PICK g : g = D(g, d)  BY <1>3
  <2>2. PICK k \in 1 .. n : k = n - d /\ n + 1 - (d + 1) = k /\ n + 1 - d = k + 1
    OBVIOUS
  <2> DEFINE h == [i \in k .. n + 1 |-> IF i = k THEN DecodeAt(input, g, k) ELSE g[i]]
  <2>3. \A j \in k + 1 .. n + 1 : g[j] = h[j]  OBVIOUS
  <2>4. h = [i \in k .. n + 1 |-> h[i]] /\ h[k] = DecodeAt(input, g, k)  OBVIOUS
  <2> HIDE DEF h
  <2>5. ASSUME NEW i \in k .. n + 1 PROVE h[i] = DecodeAt(input, h, i)
    <3>1. i \in 1 .. n + 1 /\ \A j \in i + 1 .. n + 1 : g[j] = h[j]  BY <2>3
    <3>2. DecodeAt(input, g, i) = DecodeAt(input, h, i)  BY <3>1, <1>1
    <3>3. CASE i = k  BY <3>2, <3>3, <2>4
    <3>4. CASE i \in k + 1 .. n + 1
      <4>1. g[i] = DecodeAt(input, g, i)  BY Zenon, <2>1, <2>2, <3>4
      <4> QED  BY <4>1, <3>2, <3>4, <2>3
    <3> QED  BY <3>3, <3>4
  <2>6. h = D(h, d + 1)  BY <2>2, <2>4, <2>5
  <2> HIDE DEF D
  <2> QED  BY <2>6
<1>4. Nat \subseteq T
  <2> HIDE DEF T
  <2> QED  BY <1>2, <1>3, SetInduction
<1>5. \E g : g = D(g, n)
  <2> HIDE DEF D
  <2> QED  BY <1>4
<1>6. n + 1 - n = 1  OBVIOUS
<1> QED  BY <1>5, <1>6, <1>n

\* grpcPercentDecode goes through its input from left to right.
LEMMA DecodeUnfolds ==
    ASSUME NEW input, Len(input) \in Nat
    PROVE  \E rest :
             /\ rest = [i \in 1 .. Len(input) + 1 |-> DecodeAt(input, rest, i)]
             /\ grpcPercentDecode(input) =
                  IF \E i \in DOMAIN rest[1] : rest[1][i] = -1 THEN Undecodable ELSE rest[1]
<1> DEFINE rest[i \in 1 .. Len(input) + 1] ==
             IF i > Len(input) THEN <<>>
             ELSE IF input[i] # Percent THEN <<input[i]>> \o rest[i + 1]
             ELSE IF ~validateHex(input, i) THEN Undecodable
             ELSE <<16 * unhex(input[i + 1]) + unhex(input[i + 2])>> \o rest[i + 3]
<1>1. grpcPercentDecode(input) =
        IF \E i \in DOMAIN rest[1] : rest[1][i] = -1 THEN Undecodable ELSE rest[1]
  BY DEF grpcPercentDecode
<1>2. rest = CHOOSE g : g = [i \in 1 .. Len(input) + 1 |->
             IF i > Len(input) THEN <<>>
             ELSE IF input[i] # Percent THEN <<input[i]>> \o g[i + 1]
             ELSE IF ~validateHex(input, i) THEN Undecodable
             ELSE <<16 * unhex(input[i + 1]) + unhex(input[i + 2])>> \o g[i + 3]]
  BY DEF rest
<1> HIDE DEF rest
<1>3. rest = [i \in 1 .. Len(input) + 1 |-> DecodeAt(input, rest, i)]
  BY <1>2, DecodeExists DEF DecodeAt
<1> QED  BY Zenon, <1>1, <1>3

\* Every byte of a message has its escape.
LEMMA EscapesOfBytes ==
    ASSUME NEW m \in Seq(Byte)
    PROVE  /\ Escapes(m) \in Seq(Seq(Byte)) /\ Len(Escapes(m)) = Len(m)
           /\ \A i \in 1 .. Len(m) : Escapes(m)[i] = Escape(m[i]) /\ m[i] \in Byte
<1>1. Len(m) \in Nat /\ DOMAIN m = 1 .. Len(m)  BY LenProperties
<1>2. ASSUME NEW i \in 1 .. Len(m) PROVE m[i] \in Byte /\ Escape(m[i]) \in Seq(Byte)
  <2>1. m[i] \in Byte  BY ElementOfSeq
  <2> QED  BY <2>1, EscapeIsBytes
<1>3. Escapes(m) = [i \in 1 .. Len(m) |-> Escape(m[i])]  BY <1>1 DEF Escapes
<1> QED  BY <1>1, <1>2, <1>3

\* grpcPercentEncode writes the escapes side by side.
LEMMA EncodeIsLaid ==
    ASSUME NEW m \in Seq(Byte)
    PROVE  /\ grpcPercentEncode(m) \in Seq(Byte)
           /\ \E off : Laid(grpcPercentEncode(m), Escapes(m), off)
<1>1. grpcPercentEncode(m) = Written(Escapes(m))
  BY DEF grpcPercentEncode, Escapes, Escape
<1> QED  BY <1>1, EscapesOfBytes, WrittenIsLaid

\* The escape of a byte in its place.
LEMMA EscapeAt ==
    ASSUME NEW m, m \in Seq(Byte), NEW e, NEW off, Laid(e, Escapes(m), off),
           NEW i \in 1 .. Len(m)
    PROVE  /\ m[i] \in Byte
           /\ off[i] = off[i - 1] + IF grpcShouldEscape(m[i]) THEN 3 ELSE 1
           /\ \A k \in 1 .. IF grpcShouldEscape(m[i]) THEN 3 ELSE 1 :
                e[off[i - 1] + k] = Escape(m[i])[k]
<1>1. Len(Escapes(m)) = Len(m) /\ Escapes(m)[i] = Escape(m[i]) /\ m[i] \in Byte
  BY EscapesOfBytes
<1>2. Len(Escape(m[i])) = IF grpcShouldEscape(m[i]) THEN 3 ELSE 1  BY Zenon, <1>1, EscapeIsBytes
<1>3. /\ off[i] = off[i - 1] + Len(Escapes(m)[i])
      /\ \A k \in 1 .. Len(Escapes(m)[i]) : e[off[i - 1] + k] = Escapes(m)[i][k]
  BY Zenon, <1>1 DEF Laid
<1> QED  BY <1>1, <1>2, <1>3, Zenon

\* The places of the escapes, in the order of the message.
LEMMA EscapePlaces ==
    ASSUME NEW m, m \in Seq(Byte), NEW e, NEW off, Laid(e, Escapes(m), off)
    PROVE  /\ Len(m) \in Nat /\ off \in [0 .. Len(m) -> Nat]
           /\ off[0] = 0 /\ off[Len(m)] = Len(e)
           /\ \A i, j \in 0 .. Len(m) : i <= j => off[i] <= off[j]
<1>1. Len(m) \in Nat  BY LenProperties
<1>2. Len(Escapes(m)) = Len(m)  BY EscapesOfBytes
<1>3. off \in [0 .. Len(m) -> Nat] /\ off[0] = 0 /\ off[Len(m)] = Len(e)  BY <1>2 DEF Laid
<1>4. ASSUME NEW i \in 1 .. Len(m) PROVE off[i - 1] <= off[i]
  <2>1. i - 1 \in 0 .. Len(m)  BY <1>1
  <2>2. off[i - 1] \in Nat  BY <1>3, <2>1
  <2>3. PICK w \in {1, 3} : off[i] = off[i - 1] + w  BY EscapeAt
  <2> QED  BY <2>2, <2>3
<1>5. \A i, j \in 0 .. Len(m) : i <= j => off[i] <= off[j]
  BY Zenon, <1>1, <1>3, <1>4, EndsGrow
<1> QED  BY <1>1, <1>3, <1>5

\* grpcPercentDecode of what grpcPercentEncode makes of a message, whatever its bytes.
LEMMA DecodeOfLaid ==
    ASSUME NEW m, m \in Seq(Byte), NEW e, NEW off, Laid(e, Escapes(m), off)
    PROVE  grpcPercentDecode(e) = m
<1>1. /\ Len(m) \in Nat /\ off \in [0 .. Len(m) -> Nat]
      /\ off[0] = 0 /\ off[Len(m)] = Len(e)
  BY EscapePlaces
<1>2. PICK n, size \in Nat : n = Len(m) /\ n \in Nat /\ size = Len(e) /\ size = off[n]
  <2>1. Len(m) \in 0 .. Len(m)  BY <1>1
  <2> QED  BY <1>1, <2>1
<1>3. PICK rest : /\ rest = [i \in 1 .. size + 1 |-> DecodeAt(e, rest, i)]
                  /\ grpcPercentDecode(e) =
                       IF \E i \in DOMAIN rest[1] : rest[1][i] = -1 THEN Undecodable ELSE rest[1]
  <2>1. Len(e) \in Nat  BY <1>2
  <2> QED  BY Zenon, <1>2, <2>1, DecodeUnfolds
<1>r. ASSUME NEW i \in 1 .. size + 1 PROVE rest[i] = DecodeAt(e, rest, i)
  BY <1>3, Zenon
<1> DEFINE T == {d \in Nat : d <= n => rest[off[n - d] + 1] = SubSeq(m, n - d + 1, n)}
<1>4. 0 \in T
  <2>1. n - 0 = n /\ off[n] + 1 = size + 1 /\ size + 1 \in 1 .. size + 1  BY <1>2
  <2>2. rest[size + 1] = DecodeAt(e, rest, size + 1)  BY Zenon, <1>3, <2>1
  <2>3. DecodeAt(e, rest, size + 1) = <<>>  BY <1>2 DEF DecodeAt
  <2>4. SubSeq(m, n + 1, n) = <<>>  BY <1>2, SubSeqEmpty
  <2> QED  BY Zenon, <2>1, <2>2, <2>3, <2>4
<1>5. ASSUME NEW d \in Nat, d \in T PROVE d + 1 \in T
  <2>1. SUFFICES ASSUME d + 1 <= n
                 PROVE  rest[off[n - (d + 1)] + 1] = SubSeq(m, n - (d + 1) + 1, n)
    OBVIOUS
  <2>2. PICK k \in 1 .. n : k = n - d /\ n - (d + 1) = k - 1 /\ n - (d + 1) + 1 = k
    BY <1>2, <2>1
  <2>3. rest[off[k] + 1] = SubSeq(m, k + 1, n)  BY <1>5, <2>1, <2>2, <1>2
  <2>4. /\ m[k] \in Byte
        /\ off[k] = off[k - 1] + IF grpcShouldEscape(m[k]) THEN 3 ELSE 1
        /\ \A j \in 1 .. IF grpcShouldEscape(m[k]) THEN 3 ELSE 1 :
             e[off[k - 1] + j] = Escape(m[k])[j]
    BY <1>2, EscapeAt
  <2>5. off[k] <= size
    <3>1. k \in 0 .. n /\ n \in 0 .. n /\ k <= n  BY <1>2
    <3>2. off[k] <= off[n]  BY <1>2, <3>1, EscapePlaces
    <3> QED  BY <3>2, <1>2
  <2>6. PICK i \in Nat \ {0} : i = off[k - 1] + 1
    <3>1. k - 1 \in 0 .. n  BY <1>2
    <3>2. off[k - 1] \in Nat  BY Zenon, <3>1, <1>1, <1>2
    <3> QED  BY <3>2
  <2>7. rest[i] = <<m[k]>> \o rest[off[k] + 1]
    <3>1. CASE ~grpcShouldEscape(m[k])
      <4>1. off[k] + 1 = i + 1 /\ i <= size  BY Zenon, <2>4, <2>5, <2>6, <3>1, <1>1, <1>2
      <4>2. e[i] = m[k] /\ m[k] # Percent
        <5>1. e[off[k - 1] + 1] = Escape(m[k])[1]  BY <2>4, <3>1
        <5> QED  BY <5>1, <2>6, <3>1 DEF Escape, grpcShouldEscape
      <4>3. rest[i] = DecodeAt(e, rest, i)
        <5>1. i \in 1 .. size + 1  BY <4>1, <2>6
        <5> QED  BY <5>1, <1>r
      <4>4. DecodeAt(e, rest, i) = <<e[i]>> \o rest[i + 1]  BY <4>1, <4>2, <2>6, <1>2 DEF DecodeAt
      <4> QED  BY Zenon, <4>1, <4>2, <4>3, <4>4
    <3>2. CASE grpcShouldEscape(m[k])
      <4>1. off[k] + 1 = i + 3 /\ i + 2 <= size  BY <2>4, <2>5, <2>6, <3>2, <1>1, <1>2
      <4>2. PICK h, l : h = upperhex(m[k] \div 16) /\ l = upperhex(m[k] % 16)  OBVIOUS
      <4>3. isHex(h) /\ isHex(l) /\ 16 * unhex(h) + unhex(l) = m[k]
        BY <4>2, <2>4, <3>2, EscapeIsHex, Zenon
      <4>4. e[i] = Percent /\ e[i + 1] = h /\ e[i + 2] = l
        <5>1. /\ e[off[k - 1] + 1] = Escape(m[k])[1] /\ e[off[k - 1] + 2] = Escape(m[k])[2]
              /\ e[off[k - 1] + 3] = Escape(m[k])[3]
          BY <2>4, <3>2
        <5>2. Escape(m[k]) = <<Percent, h, l>>  BY <3>2, <4>2 DEF Escape
        <5>3. off[k - 1] + 1 = i /\ off[k - 1] + 2 = i + 1 /\ off[k - 1] + 3 = i + 2
          <6>1. k - 1 \in 0 .. n  BY <1>2
          <6>2. off[k - 1] \in Nat  BY Zenon, <6>1, <1>1, <1>2
          <6> QED  BY <2>6, <6>2
        <5> QED  BY <5>1, <5>2, <5>3
      <4>5. validateHex(e, i)  BY <4>1, <4>3, <4>4, <1>2 DEF validateHex
      <4>6. i <= Len(e) /\ ~(i > Len(e))  BY <4>1, <2>6, <1>2
      <4>7. rest[i] = DecodeAt(e, rest, i)
        <5>1. i \in 1 .. size + 1  BY <4>1, <2>6
        <5> QED  BY <5>1, <1>r
      <4>8. DecodeAt(e, rest, i) = <<16 * unhex(e[i + 1]) + unhex(e[i + 2])>> \o rest[i + 3]
        BY <4>4, <4>5, <4>6, Zenon DEF DecodeAt
      <4>9. 16 * unhex(e[i + 1]) + unhex(e[i + 2]) = m[k]  BY <4>3, <4>4, Zenon
      <4> QED  BY Zenon, <4>1, <4>7, <4>8, <4>9
    <3> QED  BY Zenon, <3>1, <3>2
  <2>8. SubSeq(m, k, n) = <<m[k]>> \o SubSeq(m, k + 1, n)
    BY <1>2, SubSeqRecursiveFirst
  <2> QED  BY Zenon, <2>2, <2>3, <2>6, <2>7, <2>8
<1>6. Nat \subseteq T
  <2> HIDE DEF T
  <2> QED  BY <1>4, <1>5, SetInduction
<1>7. rest[1] = m
  <2>1. n \in T /\ n - n = 0 /\ 0 + 1 = 1  BY <1>6, <1>2
  <2>2. rest[off[0] + 1] = SubSeq(m, 1, n)  BY <2>1, <1>2
  <2> QED  BY <2>2, <1>1, <1>2, SubSeqFull
<1>8. \A i \in DOMAIN m : m[i] # -1
  <2>1. ASSUME NEW i \in 1 .. Len(m) PROVE m[i] # -1
    <3>1. m[i] \in Byte /\ -1 \notin Byte  BY ElementOfSeq DEF Byte
    <3> QED  BY <3>1, Zenon
  <2> QED  BY <2>1, LenProperties
<1> QED  BY Zenon, <1>3, <1>7, <1>8

\* A message goes through the Grpc-Message header as it is, whatever its length and its
\* bytes: grpcPercentDecode undoes grpcPercentEncode.
THEOREM PercentRoundTrip ==
    \A m \in Seq(Byte) : grpcPercentDecode(grpcPercentEncode(m)) = m
BY EncodeIsLaid, DecodeOfLaid

-----------------------------------------------------------------------------
(* The spaces around the value of a header.                                *)

Space == 32

\* What is left between the first and the last byte that is not a space.
Between(s, a, b) ==
    /\ a \in 1 .. Len(s) /\ b \in 1 .. Len(s) /\ a <= b
    /\ s[a] # Space /\ s[b] # Space
    /\ \A j \in 1 .. Len(s) : j < a \/ b < j => s[j] = Space

\* What TrimSpace leaves: nothing of spaces only, otherwise what is between.
LEMMA TrimIs ==
    ASSUME NEW s, DOMAIN s = 1 .. Len(s), Len(s) \in Nat
    PROVE  /\ (\A j \in 1 .. Len(s) : s[j] = Space) => TrimSpace(s) = <<>>
           /\ \A a, b : Between(s, a, b) => TrimSpace(s) = SubSeq(s, a, b)
<1> DEFINE kept == {i \in DOMAIN s : s[i] # 32}
           first == CHOOSE i \in kept : \A j \in kept : i <= j
           last == CHOOSE i \in kept : \A j \in kept : i >= j
<1>1. TrimSpace(s) = IF kept = {} THEN <<>> ELSE SubSeq(s, first, last)
  BY DEF TrimSpace
<1>2. ASSUME \A j \in 1 .. Len(s) : s[j] = Space PROVE TrimSpace(s) = <<>>
  BY <1>1, <1>2 DEF Space
<1>3. ASSUME NEW a, NEW b, Between(s, a, b) PROVE TrimSpace(s) = SubSeq(s, a, b)
  <2>1. a \in kept /\ b \in kept /\ a \in Nat /\ b \in Nat  BY <1>3 DEF Between, Space
  <2>2. ASSUME NEW j \in kept PROVE j \in Nat /\ a <= j /\ j <= b
    BY <1>3, <2>1 DEF Between, Space
  <2>3. first = a
    <3>1. \E i \in kept : \A j \in kept : i <= j  BY <2>1, <2>2
    <3>2. first \in kept /\ \A j \in kept : first <= j
      <4> HIDE DEF kept
      <4> QED  BY <3>1
    <3> HIDE DEF kept, first
    <3>3. first <= a /\ a <= first /\ first \in Nat  BY <3>2, <2>1, <2>2
    <3> QED  BY <3>3, <2>1
  <2>4. last = b
    <3>1. \E i \in kept : \A j \in kept : i >= j  BY Zenon, <2>1, <2>2
    <3>2. last \in kept /\ \A j \in kept : last >= j
      <4> HIDE DEF kept
      <4> QED  BY <3>1
    <3> HIDE DEF kept, last
    <3>3. last >= b /\ last <= b /\ last \in Nat  BY <3>2, <2>1, <2>2
    <3> QED  BY <3>3, <2>1
  <2> HIDE DEF kept, first, last
  <2> QED  BY <1>1, <2>1, <2>3, <2>4
<1> QED  BY <1>2, <1>3

\* A text is of spaces only or has a first and a last byte that is none.
LEMMA TrimCases ==
    ASSUME NEW s, Len(s) \in Nat
    PROVE  (\A j \in 1 .. Len(s) : s[j] = Space) \/ \E a, b : Between(s, a, b)
<1> SUFFICES ASSUME NEW k \in 1 .. Len(s), s[k] # Space PROVE \E a, b : Between(s, a, b)
  OBVIOUS
<1> DEFINE kept == {i \in 1 .. Len(s) : s[i] # Space}
           back == {d \in 0 .. Len(s) : Len(s) - d \in kept}
<1>1. kept \subseteq Nat /\ k \in kept  OBVIOUS
<1>2. back \subseteq Nat /\ Len(s) - k \in back
  <2>1. Len(s) - k \in 0 .. Len(s) /\ Len(s) - (Len(s) - k) = k  OBVIOUS
  <2> QED  BY <2>1, <1>1
<1>3. PICK a \in kept : \A j \in kept : a <= j
  <2> HIDE DEF kept
  <2> QED  BY Zenon, <1>1, LeastNumber
<1>4. PICK d \in back : \A x \in back : d <= x
  <2> HIDE DEF back
  <2> QED  BY Zenon, <1>2, LeastNumber
<1>5. PICK b \in kept : b = Len(s) - d  BY <1>4
<1>6. ASSUME NEW j \in kept PROVE j <= b
  <2>1. Len(s) - j \in 0 .. Len(s) /\ Len(s) - (Len(s) - j) = j  OBVIOUS
  <2>2. d <= Len(s) - j  BY Zenon, <1>4, <2>1
  <2>3. d \in Nat /\ j \in Nat  BY <1>4
  <2> QED  BY <2>2, <2>3, <1>5
<1>7. a <= b  BY Zenon, <1>3, <1>5
<1>8. ASSUME NEW j \in 1 .. Len(s), j < a \/ b < j PROVE s[j] = Space
  <2> SUFFICES ASSUME j \in kept PROVE FALSE  OBVIOUS
  <2>1. a <= j /\ j <= b  BY Zenon, <1>3, <1>6
  <2>2. a \in Nat /\ b \in Nat /\ j \in Nat  BY <1>3, <1>5
  <2> QED  BY <2>1, <2>2, <1>8
<1>9. Between(s, a, b)  BY <1>3, <1>5, <1>7, <1>8 DEF Between
<1> QED  BY <1>9

\* A space is the escape of a space, and of nothing else.
LEMMA SpacesOfLaid ==
    ASSUME NEW m, m \in Seq(Byte), NEW e, NEW off, Laid(e, Escapes(m), off)
    PROVE  \A i \in 1 .. Len(m) :
             \E w \in {1, 3} :
               /\ off[i] = off[i - 1] + w
               /\ m[i] = Space => w = 1
               /\ \A k \in 1 .. w : e[off[i - 1] + k] = Space <=> m[i] = Space
<1> SUFFICES ASSUME NEW i \in 1 .. Len(m)
             PROVE  \E w \in {1, 3} :
                      /\ off[i] = off[i - 1] + w
                      /\ m[i] = Space => w = 1
                      /\ \A k \in 1 .. w : e[off[i - 1] + k] = Space <=> m[i] = Space
  BY Zenon
<1>1. /\ m[i] \in Byte
      /\ off[i] = off[i - 1] + IF grpcShouldEscape(m[i]) THEN 3 ELSE 1
      /\ \A k \in 1 .. IF grpcShouldEscape(m[i]) THEN 3 ELSE 1 :
           e[off[i - 1] + k] = Escape(m[i])[k]
  BY EscapeAt
<1>2. CASE ~grpcShouldEscape(m[i])
  <2>1. off[i] = off[i - 1] + 1 /\ \A k \in 1 .. 1 : e[off[i - 1] + k] = <<m[i]>>[k]
    BY <1>1, <1>2 DEF Escape
  <2>2. \A k \in 1 .. 1 : <<m[i]>>[k] = m[i]  OBVIOUS
  <2> QED  BY <2>1, <2>2
<1>3. CASE grpcShouldEscape(m[i])
  <2>1. m[i] # Space  BY <1>3 DEF grpcShouldEscape, Space, Percent
  <2>2. PICK h, l : h = upperhex(m[i] \div 16) /\ l = upperhex(m[i] % 16)  OBVIOUS
  <2>3. h \in 48 .. 57 \cup 65 .. 70 /\ l \in 48 .. 57 \cup 65 .. 70
    BY <2>2, <1>1, <1>3, EscapeIsHex, Zenon
  <2>4. Percent # Space /\ h # Space /\ l # Space  BY <2>3 DEF Percent, Space
  <2>5. Escape(m[i]) = <<Percent, h, l>>  BY <1>3, <2>2 DEF Escape
  <2>6. \A k \in 1 .. 3 : <<Percent, h, l>>[k] # Space  BY <2>4
  <2>7. off[i] = off[i - 1] + 3 /\ \A k \in 1 .. 3 : e[off[i - 1] + k] # Space
    BY <1>1, <1>3, <2>5, <2>6
  <2> QED  BY Zenon, <2>1, <2>7
<1> QED  BY Zenon, <1>2, <1>3

\* The encoding of a part of a message is a part of its encoding.
LEMMA PartIsLaid ==
    ASSUME NEW m, m \in Seq(Byte), NEW e, e \in Seq(Byte), NEW off, Laid(e, Escapes(m), off),
           NEW a \in 1 .. Len(m), NEW b \in 1 .. Len(m), a <= b
    PROVE  /\ SubSeq(m, a, b) \in Seq(Byte)
           /\ \E off2 : Laid(SubSeq(e, off[a - 1] + 1, off[b]), Escapes(SubSeq(m, a, b)), off2)
<1>1. PICK n \in Nat : n = Len(m)  BY LenProperties
<1>2. /\ off \in [0 .. n -> Nat] /\ off[0] = 0 /\ off[n] = Len(e)
      /\ \A i, j \in 0 .. n : i <= j => off[i] <= off[j]
  BY <1>1, EscapePlaces
<1>3. PICK A \in Nat, B \in Nat : A = off[a - 1] /\ B = off[b] /\ A <= B /\ B <= Len(e)
  <2>1. a - 1 \in 0 .. n /\ b \in 0 .. n /\ n \in 0 .. n /\ a - 1 <= b /\ b <= n  BY <1>1
  <2>2. off[a - 1] \in Nat /\ off[b] \in Nat  BY <1>2, <2>1
  <2>3. off[a - 1] <= off[b] /\ off[b] <= off[n]  BY Zenon, <1>2, <2>1
  <2> QED  BY Zenon, <2>2, <2>3, <1>2
<1>4. PICK c \in Nat : c = b - a + 1  BY <1>1
<1>5. PICK m2 : m2 = SubSeq(m, a, b)  BY Zenon
<1>6. m2 \in Seq(Byte) /\ Len(m2) = c /\ \A k \in 1 .. c : m2[k] = m[a + k - 1]
  <2>1. ASSUME NEW i \in a .. b PROVE m[i] \in Byte
    <3>1. i \in 1 .. Len(m)  BY <1>1
    <3> QED  BY <3>1, ElementOfSeq
  <2>2. a \in Int /\ b \in Int  BY <1>1
  <2>3. /\ SubSeq(m, a, b) \in Seq(Byte)
        /\ Len(SubSeq(m, a, b)) = IF a <= b THEN b - a + 1 ELSE 0
        /\ \A k \in 1 .. b - a + 1 : SubSeq(m, a, b)[k] = m[a + k - 1]
    BY <2>1, <2>2, SubSeqProperties
  <2> QED  BY Zenon, <2>3, <1>4, <1>5
<1>7. PICK e2 : e2 = SubSeq(e, A + 1, B)  BY Zenon
<1>8. Len(e2) = B - A /\ \A k \in 1 .. B - A : e2[k] = e[A + k]
  <2>1. ASSUME NEW i \in A + 1 .. B PROVE e[i] \in Byte
    <3>1. Len(e) \in Nat  BY LenProperties
    <3>2. i \in 1 .. Len(e)  BY <1>3, <3>1
    <3> QED  BY <3>2, ElementOfSeq
  <2>2. A + 1 \in Int /\ B \in Int /\ B - (A + 1) + 1 = B - A  BY <1>3
  <2>3. /\ Len(SubSeq(e, A + 1, B)) = IF A + 1 <= B THEN B - (A + 1) + 1 ELSE 0
        /\ \A k \in 1 .. B - (A + 1) + 1 : SubSeq(e, A + 1, B)[k] = e[A + 1 + k - 1]
    BY <2>1, <2>2, SubSeqProperties
  <2>4. (IF A + 1 <= B THEN B - (A + 1) + 1 ELSE 0) = B - A  BY <1>3
  <2>5. ASSUME NEW k \in 1 .. B - A PROVE A + 1 + k - 1 = A + k  BY <1>3
  <2> QED  BY <2>2, <2>3, <2>4, <2>5, <1>7
<1> DEFINE off2 == [k \in 0 .. c |-> off[a - 1 + k] - A]
<1>9. ASSUME NEW k \in 0 .. c
      PROVE  off2[k] = off[a - 1 + k] - A /\ off2[k] \in Nat /\ off[a - 1 + k] \in Nat
  <2>1. a - 1 + k \in 0 .. n /\ a - 1 \in 0 .. n /\ a - 1 <= a - 1 + k  BY <1>1, <1>4
  <2>2. off[a - 1 + k] \in Nat /\ off[a - 1] <= off[a - 1 + k]  BY Zenon, <1>2, <2>1
  <2> QED  BY <2>2, <1>3
<1>10. off2 \in [0 .. c -> Nat]  BY Zenon, <1>9
<1> HIDE DEF off2
<1>11. off2[0] = 0 /\ off2[c] = Len(e2)
  <2>1. 0 \in 0 .. c /\ c \in 0 .. c /\ a - 1 + 0 = a - 1 /\ a - 1 + c = b  BY <1>1, <1>4
  <2>2. off2[0] = A - A /\ off2[c] = B - A  BY Zenon, <2>1, <1>9, <1>3
  <2> QED  BY <2>2, <1>8
<1>12. ASSUME NEW k \in 1 .. c
       PROVE  /\ off2[k] = off2[k - 1] + Len(Escapes(m2)[k])
              /\ \A j \in 1 .. Len(Escapes(m2)[k]) : e2[off2[k - 1] + j] = Escapes(m2)[k][j]
  <2>1. PICK i \in 1 .. n : i = a + k - 1 /\ a - 1 + k = i /\ a - 1 + (k - 1) = i - 1
    BY <1>1, <1>4
  <2>2. Escapes(m2)[k] = Escape(m2[k]) /\ m2[k] = m[i]  BY Zenon, <1>6, <2>1, EscapesOfBytes
  <2>3. /\ m[i] \in Byte
        /\ off[i] = off[i - 1] + IF grpcShouldEscape(m[i]) THEN 3 ELSE 1
        /\ \A j \in 1 .. IF grpcShouldEscape(m[i]) THEN 3 ELSE 1 :
             e[off[i - 1] + j] = Escape(m[i])[j]
    <3>1. i \in 1 .. Len(m)  BY <1>1
    <3> QED  BY <3>1, EscapeAt
  <2>4. PICK w \in {1, 3} : w = IF grpcShouldEscape(m[i]) THEN 3 ELSE 1  OBVIOUS
  <2>5. Len(Escapes(m2)[k]) = w  BY Zenon, <2>2, <2>3, <2>4, EscapeIsBytes
  <2>6. k \in 0 .. c /\ k - 1 \in 0 .. c /\ k <= c  BY <1>4
  <2>7. PICK x \in Nat, y \in Nat, u \in Nat, v \in Nat :
          /\ x = off[i - 1] /\ y = off[i] /\ u = off2[k - 1] /\ v = off2[k]
          /\ u = x - A /\ v = y - A
    <3>1. /\ off2[k] = off[i] - A /\ off2[k - 1] = off[i - 1] - A
          /\ off[i] \in Nat /\ off[i - 1] \in Nat /\ off2[k] \in Nat /\ off2[k - 1] \in Nat
      BY Zenon, <2>1, <2>6, <1>9
    <3> QED  BY <3>1, Zenon
  <2>8. y = x + w  BY <2>3, <2>4, <2>7, Zenon
  <2>s. u = x - A /\ v = y - A  BY Zenon, <2>7
  <2>9. v = u + w  BY <2>s, <2>8
  <2>10. v <= B - A
    <3>1. i \in 0 .. n /\ b \in 0 .. n /\ i <= b  BY <2>1, <1>1, <1>4
    <3>2. off[i] <= off[b]  BY Zenon, <3>1, <1>2
    <3>3. y <= B  BY <3>2, <2>7, <1>3, Zenon
    <3> QED  BY <3>3, <2>s
  <2>11. ASSUME NEW j \in 1 .. w PROVE e2[u + j] = Escapes(m2)[k][j]
    <3>1. u + j \in 1 .. B - A /\ A + (u + j) = x + j
      BY <2>s, <2>9, <2>10
    <3>2. e2[u + j] = e[x + j]  BY Zenon, <3>1, <1>8
    <3>3. e[x + j] = Escape(m[i])[j]  BY <2>3, <2>4, <2>7, Zenon
    <3> QED  BY Zenon, <3>2, <3>3, <2>2
  <2> QED  BY <2>5, <2>7, <2>9, <2>11, Zenon
<1>13. Len(Escapes(m2)) = c  BY Zenon, <1>6, EscapesOfBytes
<1>14. Laid(e2, Escapes(m2), off2)  BY Zenon, <1>10, <1>11, <1>12, <1>13 DEF Laid
<1> QED  BY Zenon, <1>3, <1>5, <1>6, <1>7, <1>14

\* Trimming a header value is trimming the message it stands for.
LEMMA TrimIsLaid ==
    ASSUME NEW m, m \in Seq(Byte), NEW e, e \in Seq(Byte), NEW off, Laid(e, Escapes(m), off)
    PROVE  /\ TrimSpace(m) \in Seq(Byte)
           /\ \E off2 : Laid(TrimSpace(e), Escapes(TrimSpace(m)), off2)
<1>1. PICK n \in Nat : n = Len(m)  BY LenProperties
<1>2. /\ off \in [0 .. n -> Nat] /\ off[0] = 0 /\ off[n] = Len(e)
      /\ \A i, j \in 0 .. n : i <= j => off[i] <= off[j]
  BY Zenon, <1>1, EscapePlaces
<1>3. DOMAIN m = 1 .. Len(m) /\ DOMAIN e = 1 .. Len(e) /\ Len(e) \in Nat /\ Len(m) \in Nat
  BY LenProperties
\* Every place of the header is that of a byte of the message.
<1>4. ASSUME NEW j \in 1 .. Len(e)
      PROVE  \E i \in 1 .. n : off[i - 1] < j /\ j <= off[i] /\ (e[j] = Space <=> m[i] = Space)
  <2>1. PICK i \in 1 .. n : off[i - 1] < j /\ j <= off[i]  BY Zenon, <1>2, EndsCover
  <2>2. PICK w \in {1, 3} :
          /\ off[i] = off[i - 1] + w
          /\ \A k \in 1 .. w : e[off[i - 1] + k] = Space <=> m[i] = Space
    BY <1>1, SpacesOfLaid
  <2>3. PICK x \in Nat : x = off[i - 1]
    <3>1. i - 1 \in 0 .. n  OBVIOUS
    <3> QED  BY Zenon, <3>1, <1>2
  <2>4. x < j /\ j <= x + w  BY <2>1, <2>2, <2>3, Zenon
  <2>5. j - x \in 1 .. w /\ x + (j - x) = j  BY <2>4, <1>3
  <2>6. e[x + (j - x)] = Space <=> m[i] = Space  BY <2>2, <2>3, <2>5, Zenon
  <2> QED  BY Zenon, <2>1, <2>5, <2>6
<1>5. CASE \A i \in 1 .. Len(m) : m[i] = Space
  <2>1. TrimSpace(m) = <<>>  BY Zenon, <1>3, <1>5, TrimIs
  <2>2. \A j \in 1 .. Len(e) : e[j] = Space  BY Zenon, <1>1, <1>4, <1>5
  <2>3. TrimSpace(e) = <<>>  BY Zenon, <1>3, <2>2, TrimIs
  <2>4. <<>> \in Seq(Byte) /\ Len(<<>>) = 0  OBVIOUS
  <2>5. Len(Escapes(<<>>)) = 0  BY Zenon, <2>4, EscapesOfBytes
  <2>6. Laid(<<>>, Escapes(<<>>), [i \in 0 .. 0 |-> 0])  BY <2>4, <2>5 DEF Laid
  <2> QED  BY Zenon, <2>1, <2>3, <2>4, <2>6
<1>6. CASE \E a, b : Between(m, a, b)
  <2>1. PICK a, b : Between(m, a, b)  BY <1>6
  <2>2. /\ a \in 1 .. n /\ b \in 1 .. n /\ a <= b /\ m[a] # Space /\ m[b] # Space
        /\ \A i \in 1 .. n : i < a \/ b < i => m[i] = Space
    BY <2>1, <1>1 DEF Between
  <2>3. TrimSpace(m) = SubSeq(m, a, b)  BY Zenon, <2>1, <1>3, TrimIs
  <2>4. PICK wa \in {1, 3}, wb \in {1, 3} :
          /\ off[a] = off[a - 1] + wa /\ off[b] = off[b - 1] + wb
          /\ \A k \in 1 .. wa : e[off[a - 1] + k] # Space
          /\ \A k \in 1 .. wb : e[off[b - 1] + k] # Space
    BY <2>2, <1>1, SpacesOfLaid
  <2>5. PICK A \in Nat, A1 \in Nat, B \in Nat, B1 \in Nat :
          A = off[a - 1] /\ A1 = off[a] /\ B1 = off[b - 1] /\ B = off[b]
    <3>1. a - 1 \in 0 .. n /\ b - 1 \in 0 .. n /\ a \in 0 .. n /\ b \in 0 .. n  BY <2>2
    <3> QED  BY Zenon, <3>1, <1>2
  <2>6. A1 = A + wa /\ B = B1 + wb /\ A1 <= B /\ B <= Len(e)
    <3>1. a \in 0 .. n /\ b \in 0 .. n /\ n \in 0 .. n /\ a <= b /\ b <= n  BY <2>2
    <3>2. off[a] <= off[b] /\ off[b] <= off[n]  BY Zenon, <3>1, <1>2
    <3> QED  BY <3>2, <2>4, <2>5, <1>2, Zenon
  <2>7. A + 1 \in 1 .. Len(e) /\ B \in 1 .. Len(e) /\ A + 1 <= B
    <3>1. PICK size \in Nat : size = Len(e)  BY Zenon, <1>3
    <3>2. A1 = A + wa /\ A1 <= B /\ B <= size  BY <2>6, <3>1
    <3>3. A + 1 \in 1 .. size /\ B \in 1 .. size /\ A + 1 <= B  BY <3>2
    <3> QED  BY <3>1, <3>3
  <2>8. e[A + 1] # Space /\ e[B] # Space
    <3>1. 1 \in 1 .. wa /\ wb \in 1 .. wb  BY <2>4
    <3>2. e[A + 1] # Space /\ e[B1 + wb] # Space  BY <3>1, <2>4, <2>5, Zenon
    <3> QED  BY <3>2, <2>6
  <2>9. ASSUME NEW j \in 1 .. Len(e), j < A + 1 \/ B < j PROVE e[j] = Space
    <3>1. PICK i \in 1 .. n : off[i - 1] < j /\ j <= off[i] /\ (e[j] = Space <=> m[i] = Space)
      BY Zenon, <1>4
    <3>2. PICK x \in Nat, y \in Nat : x = off[i - 1] /\ y = off[i]
      <4>1. i - 1 \in 0 .. n /\ i \in 0 .. n  OBVIOUS
      <4> QED  BY Zenon, <4>1, <1>2
    <3>3. x < j /\ j <= y  BY <3>1, <3>2, Zenon
    <3>4. i < a \/ b < i
      <4> SUFFICES ASSUME ~(i < a), ~(b < i) PROVE FALSE  OBVIOUS
      <4>1. /\ a - 1 \in 0 .. n /\ i - 1 \in 0 .. n /\ a - 1 <= i - 1
            /\ i \in 0 .. n /\ b \in 0 .. n /\ i <= b
        BY <2>2
      <4>2. off[a - 1] <= off[i - 1] /\ off[i] <= off[b]  BY Zenon, <4>1, <1>2
      <4>3. A <= x /\ y <= B  BY <4>2, <3>2, <2>5, Zenon
      <4> QED  BY <4>3, <3>3, <2>5, <2>9, <1>3
    <3> QED  BY Zenon, <3>1, <3>4, <2>2
  <2>10. Between(e, A + 1, B)  BY Zenon, <2>7, <2>8, <2>9 DEF Between
  <2>11. TrimSpace(e) = SubSeq(e, A + 1, B)  BY Zenon, <2>10, <1>3, TrimIs
  <2>12. a \in 1 .. Len(m) /\ b \in 1 .. Len(m) /\ a <= b  BY <2>2, <1>1
  <2>13. /\ SubSeq(m, a, b) \in Seq(Byte)
         /\ \E off2 : Laid(SubSeq(e, off[a - 1] + 1, off[b]), Escapes(SubSeq(m, a, b)), off2)
    BY Zenon, <2>12, PartIsLaid
  <2> QED  BY Zenon, <2>3, <2>5, <2>11, <2>13
<1> QED  BY Zenon, <1>3, <1>5, <1>6, TrimCases

\* A message goes through a header that loses the spaces around its value as the message
\* without the spaces around it: no escape is cut off.
THEOREM TrimmedRoundTrip ==
    ASSUME NEW m, m \in Seq(Byte)
    PROVE  /\ TrimSpace(m) \in Seq(Byte)
           /\ grpcPercentDecode(TrimSpace(grpcPercentEncode(m))) = TrimSpace(m)
<1>1. PICK e, off : e = grpcPercentEncode(m) /\ e \in Seq(Byte) /\ Laid(e, Escapes(m), off)
  BY EncodeIsLaid
<1>2. /\ TrimSpace(m) \in Seq(Byte)
      /\ \E off2 : Laid(TrimSpace(e), Escapes(TrimSpace(m)), off2)
  BY <1>1, TrimIsLaid
<1>3. grpcPercentDecode(TrimSpace(e)) = TrimSpace(m)  BY <1>2, DecodeOfLaid
<1> QED  BY Zenon, <1>1, <1>2, <1>3

-----------------------------------------------------------------------------
(* JSON text, and lengths in base64.                                       *)

\* What ToJSON takes for a byte of a character.
WholeAt(text, i) ==
    \/ text[i] < 128
    \/ text[i] \in 194 .. 223 /\ i < Len(text) /\ text[i + 1] \in 128 .. 191
    \/ text[i] \in 128 .. 191 /\ i > 1 /\ text[i - 1] \in 194 .. 223

\* Pieces of one element each.
LEMMA WrittenSingles ==
    ASSUME NEW S, NEW t, t \in Seq(S)
    PROVE  Written([i \in DOMAIN t |-> <<t[i]>>]) = t
<1>1. PICK n \in Nat : n = Len(t) /\ DOMAIN t = 1 .. n  BY LenProperties
<1>2. PICK p : p = [i \in 1 .. n |-> <<t[i]>>]  BY Zenon
<1>3. p \in Seq(Seq(S)) /\ Len(p) = n
  <2>1. ASSUME NEW i \in 1 .. n PROVE <<t[i]>> \in Seq(S)
    <3>1. t[i] \in S  BY <1>1, ElementOfSeq
    <3> QED  BY <3>1
  <2> QED  BY <1>2, <2>1
<1>4. ASSUME NEW i \in 1 .. n PROVE Len(p[i]) = 1 /\ p[i][1] = t[i]  BY <1>2
<1>5. PICK s, off : s = Written(p) /\ s \in Seq(S) /\ Laid(s, p, off)
  BY <1>3, WrittenIsLaid
<1>6. /\ off \in [0 .. n -> Nat] /\ off[0] = 0 /\ off[n] = Len(s)
      /\ \A i \in 1 .. n : off[i] = off[i - 1] + 1 /\ s[off[i - 1] + 1] = t[i]
  <2>1. \A i \in 1 .. n : 1 \in 1 .. Len(p[i])  BY <1>4
  <2> QED  BY Zenon, <1>3, <1>4, <1>5, <2>1 DEF Laid
<1> DEFINE T == {k \in Nat : k <= n => off[k] = k}
<1>7. 0 \in T  BY <1>6
<1>8. ASSUME NEW k \in Nat, k \in T PROVE k + 1 \in T
  <2> SUFFICES ASSUME k + 1 <= n PROVE off[k + 1] = k + 1  OBVIOUS
  <2>1. k + 1 \in 1 .. n /\ (k + 1) - 1 = k /\ k <= n  OBVIOUS
  <2>2. off[k + 1] = off[k] + 1  BY Zenon, <2>1, <1>6
  <2>3. off[k] = k  BY Zenon, <1>8, <2>1
  <2> QED  BY <2>2, <2>3
<1>9. Nat \subseteq T
  <2> HIDE DEF T
  <2> QED  BY Zenon, <1>7, <1>8, SetInduction
<1>10. ASSUME NEW k \in 0 .. n PROVE off[k] = k  BY <1>9
<1>11. Len(s) = n
  <2>1. n \in 0 .. n  OBVIOUS
  <2> QED  BY Zenon, <2>1, <1>6, <1>10
<1>12. ASSUME NEW i \in 1 .. n PROVE s[i] = t[i]
  <2>1. i - 1 \in 0 .. n /\ (i - 1) + 1 = i  OBVIOUS
  <2>2. off[i - 1] = i - 1  BY <2>1, <1>10
  <2> QED  BY Zenon, <2>1, <2>2, <1>6
<1>13. s = t  BY <1>1, <1>5, <1>11, <1>12, SeqEqual
<1> QED  BY Zenon, <1>1, <1>2, <1>5, <1>13

\* encoding/json leaves ASCII, and whole characters, as they are.
LEMMA JSONKeeps ==
    ASSUME NEW t, t \in Seq(Byte),
           (\A i \in DOMAIN t : t[i] < 128) \/ t = <<195, 169>>
    PROVE  ToJSON(t) = t
<1>1. ASSUME NEW i \in DOMAIN t PROVE WholeAt(t, i)
  <2>1. CASE \A j \in DOMAIN t : t[j] < 128  BY <2>1 DEF WholeAt
  <2>2. CASE t = <<195, 169>>
    <3>1. i \in {1, 2} /\ Len(t) = 2 /\ t[1] = 195 /\ t[2] = 169  BY <2>2
    <3>2. CASE i = 1  BY <3>1, <3>2 DEF WholeAt
    <3>3. CASE i = 2  BY <3>1, <3>3 DEF WholeAt
    <3> QED  BY <3>1, <3>2, <3>3
  <2> QED  BY <2>1, <2>2
<1>2. ToJSON(t) = Written([i \in DOMAIN t |-> IF WholeAt(t, i) THEN <<t[i]>>
                                                 ELSE <<239, 191, 189>>])
  BY Zenon DEF ToJSON, WholeAt
<1>3. [i \in DOMAIN t |-> IF WholeAt(t, i) THEN <<t[i]>> ELSE <<239, 191, 189>>]
        = [i \in DOMAIN t |-> <<t[i]>>]
  BY <1>1
<1> QED  BY Zenon, <1>2, <1>3, WrittenSingles

\* EncodeBinaryHeader and DecodeBinaryHeader, without padding: every number of bytes.
THEOREM BinaryRoundTrip ==
    ASSUME NEW n \in Nat
    PROVE  EncodeBinaryHeader(n) \in Nat /\ DecodeBinaryHeader(EncodeBinaryHeader(n)) = n
<1>1. PICK q \in Nat, r \in {0, 1, 2} : n = 3 * q + r
  <2>1. PICK q \in Nat, r \in 0 .. 2 : q = n \div 3 /\ r = n % 3 /\ n = 3 * q + r  OBVIOUS
  <2>2. r \in {0, 1, 2}  BY <2>1
  <2> QED  BY <2>1, <2>2
<1>2. PICK c \in Nat : c = EncodeBinaryHeader(n) /\ c = 4 * q + (IF r = 0 THEN 0 ELSE r + 1)
  BY <1>1 DEF EncodeBinaryHeader
<1>3. CASE r = 0
  <2>1. c % 4 = 0 /\ c \div 4 = q  BY <1>2, <1>3
  <2> QED  BY <1>1, <1>2, <1>3, <2>1 DEF DecodeBinaryHeader
<1>4. CASE r = 1
  <2>1. c % 4 = 2 /\ (3 * c) \div 4 = 3 * q + 1  BY <1>2, <1>4
  <2> QED  BY <1>1, <1>2, <1>4, <2>1 DEF DecodeBinaryHeader
<1>5. CASE r = 2
  <2>1. c % 4 = 3 /\ (3 * c) \div 4 = 3 * q + 2  BY <1>2, <1>5
  <2> QED  BY <1>1, <1>2, <1>5, <2>1 DEF DecodeBinaryHeader
<1> QED  BY Zenon, <1>3, <1>4, <1>5

\* The recursive function in the definition of grpcMarshalStatus exists, and is a size.
LEMMA SizeExists ==
    ASSUME NEW d
    PROVE  \A n \in Nat : \E g :
             g = [i \in 0 .. n |-> IF i = 0 THEN 0 ELSE g[i - 1] + 2 + d[i]]
<1> DEFINE D(g, n) == [i \in 0 .. n |-> IF i = 0 THEN 0 ELSE g[i - 1] + 2 + d[i]]
           T == {n \in Nat : \E g : g = D(g, n)}
<1>1. 0 \in T
  <2>1. [i \in 0 .. 0 |-> 0] = D([i \in 0 .. 0 |-> 0], 0)  OBVIOUS
  <2> HIDE DEF D
  <2> QED  BY <2>1
<1>2. ASSUME NEW n \in Nat, n \in T PROVE n + 1 \in T
  <2>1. PICK g : g = D(g, n)  BY <1>2
  <2> DEFINE h == [i \in 0 .. n + 1 |-> IF i = n + 1 THEN g[i - 1] + 2 + d[i] ELSE g[i]]
  <2>2. \A i \in 0 .. n : h[i] = g[i]  OBVIOUS
  <2>3. ASSUME NEW i \in 0 .. n + 1
        PROVE  h[i] = IF i = 0 THEN 0 ELSE h[i - 1] + 2 + d[i]
    <3>1. i = 0 \/ h[i - 1] = g[i - 1]  BY <2>2
    <3>2. CASE i = n + 1  BY <3>1, <3>2
    <3>3. CASE i \in 0 .. n
      <4>1. h[i] = g[i]  BY Zenon, <3>3, <2>2
      <4>2. g[i] = IF i = 0 THEN 0 ELSE g[i - 1] + 2 + d[i]  BY Zenon, <3>3, <2>1
      <4> HIDE DEF h
      <4> QED  BY <4>1, <4>2, <3>1
    <3> QED  BY <3>2, <3>3
  <2>4. h = D(h, n + 1)
    <3>1. h = [i \in 0 .. n + 1 |-> h[i]]  OBVIOUS
    <3> HIDE DEF h
    <3> QED  BY Zenon, <3>1, <2>3
  <2>5. \E x : x = D(x, n + 1)
    <3> HIDE DEF h, D
    <3> QED  BY <2>4
  <2> HIDE DEF D
  <2> QED  BY <2>5
<1>3. Nat \subseteq T
  <2> HIDE DEF T
  <2> QED  BY <1>1, <1>2, SetInduction
<1> QED  BY Zenon, <1>3

\* grpcMarshalStatus of details that Protobuf takes has a size.
LEMMA StatusIsSized ==
    ASSUME NEW e, e.message \in Seq(Byte), e.details \in Seq(Nat)
    PROVE  grpcMarshalStatus(e) \in Nat
<1>d. PICK d : d = e.details  OBVIOUS
<1>1. PICK n \in Nat : d = e.details /\ n = Len(d) /\ d \in Seq(Nat) /\ DOMAIN d = 1 .. n
  BY Zenon, <1>d, LenProperties
<1>2. ASSUME NEW i \in 1 .. n PROVE d[i] \in Nat  BY Zenon, <1>1, ElementOfSeq
<1> DEFINE bytes[i \in 0 .. Len(e.details)] ==
             IF i = 0 THEN 0 ELSE bytes[i - 1] + 2 + e.details[i]
<1>3. grpcMarshalStatus(e) =
        IF \E i \in DOMAIN e.details : e.details[i] = BadDetail THEN -1
        ELSE 2 + (IF e.message = <<>> THEN 0 ELSE 2 + Len(e.message)) + bytes[Len(e.details)]
  BY Zenon DEF grpcMarshalStatus
<1>4. bytes = CHOOSE g : g = [i \in 0 .. Len(e.details) |->
                                IF i = 0 THEN 0 ELSE g[i - 1] + 2 + e.details[i]]
  BY DEF bytes
<1> HIDE DEF bytes
<1>5. bytes = [i \in 0 .. n |-> IF i = 0 THEN 0 ELSE bytes[i - 1] + 2 + d[i]]
  BY Zenon, <1>1, <1>4, SizeExists
<1> DEFINE T == {k \in Nat : k <= n => bytes[k] \in Nat}
<1>6. 0 \in T  BY <1>5
<1>7. ASSUME NEW k \in Nat, k \in T PROVE k + 1 \in T
  <2> SUFFICES ASSUME k + 1 <= n PROVE bytes[k + 1] \in Nat  OBVIOUS
  <2>1. k + 1 \in 0 .. n /\ k + 1 \in 1 .. n /\ k + 1 # 0 /\ (k + 1) - 1 = k  OBVIOUS
  <2>2. bytes[k + 1] = bytes[(k + 1) - 1] + 2 + d[k + 1]  BY Zenon, <1>5, <2>1
  <2>3. bytes[k] \in Nat /\ d[k + 1] \in Nat  BY <1>7, <1>2, <2>1
  <2> QED  BY <2>1, <2>2, <2>3
<1>8. Nat \subseteq T
  <2> HIDE DEF T
  <2> QED  BY Zenon, <1>6, <1>7, SetInduction
<1>9. bytes[n] \in Nat  BY <1>8
<1>10. \A i \in DOMAIN e.details : e.details[i] # BadDetail
  BY <1>1, <1>2 DEF BadDetail
<1>11. Len(e.message) \in Nat  BY LenProperties
<1>12. PICK x \in Nat, y \in Nat : x = bytes[Len(e.details)] /\ y = Len(e.message)
  BY Zenon, <1>1, <1>9, <1>11
<1> QED  BY <1>3, <1>10, <1>12

-----------------------------------------------------------------------------
(* Whole errors.                                                           *)

\* The codes have names of their own.
LEMMA CodesAreNamed ==
    /\ Canonical = 1 .. 16
    /\ \A c \in 1 .. 16 : CodeNamed(CodeNames[c]) = c /\ CodeNames[c] \notin {"none", "code"}
    /\ CodeNamed("unknown") = 2 /\ CodeNamed("invalid_argument") = 3
    /\ CodeNamed("resource_exhausted") = 8 /\ CodeNamed("unimplemented") = 12
    /\ CodeNamed("internal") = 13
<1>1. Canonical = 1 .. 16  BY DEF Canonical, CodeNames
<1>2. \A c \in 1 .. 16 : c \in {1, 2, 3, 4, 5, 6, 7, 8, 9, 10, 11, 12, 13, 14, 15, 16}  OBVIOUS
<1>3. \A c, d \in 1 .. 16 : CodeNames[c] = CodeNames[d] => c = d  BY <1>2 DEF CodeNames
<1>4. \A c \in 1 .. 16 : CodeNames[c] \notin {"none", "code"}  BY <1>2 DEF CodeNames
<1>5. /\ CodeNames[2] = "unknown" /\ CodeNames[3] = "invalid_argument"
      /\ CodeNames[8] = "resource_exhausted" /\ CodeNames[12] = "unimplemented"
      /\ CodeNames[13] = "internal"
  BY DEF CodeNames
<1>6. ASSUME NEW c \in 1 .. 16 PROVE CodeNamed(CodeNames[c]) = c
  <2>1. \A d \in Canonical : CodeNames[d] = CodeNames[c] <=> d = c  BY Zenon, <1>1, <1>3
  <2>2. c \in Canonical  BY <1>1
  <2> QED  BY <2>1, <2>2 DEF CodeNamed
<1>7. 2 \in 1 .. 16 /\ 3 \in 1 .. 16 /\ 8 \in 1 .. 16 /\ 12 \in 1 .. 16 /\ 13 \in 1 .. 16  OBVIOUS
<1>8. /\ CodeNamed("unknown") = 2 /\ CodeNamed("invalid_argument") = 3
      /\ CodeNamed("resource_exhausted") = 8 /\ CodeNamed("unimplemented") = 12
      /\ CodeNamed("internal") = 13
  BY <1>5, <1>6, <1>7, Zenon
<1> QED  BY Zenon, <1>1, <1>4, <1>6, <1>8

\* Any error: of any code, message and details.
AnyError == [code : 0 .. 17, message : Seq(Byte), details : Seq({BadDetail} \cup Nat)]

\* It has details that Protobuf does not marshal.
Spoiled(e) == \E i \in DOMAIN e.details : e.details[i] = BadDetail

\* The parts of an error.
LEMMA DetailsOfAny ==
    ASSUME NEW e \in AnyError
    PROVE  /\ e.code \in 0 .. 17 /\ e.message \in Seq(Byte)
           /\ \A i \in DOMAIN e.details : e.details[i] \in {BadDetail} \cup Nat
           /\ ~Spoiled(e) => e.details \in Seq(Nat)
           /\ e.details # <<>> \/ DOMAIN e.details = {}
<1>1. e.code \in 0 .. 17 /\ e.message \in Seq(Byte) /\ e.details \in Seq({BadDetail} \cup Nat)
  BY DEF AnyError
<1>2. PICK d : d = e.details  OBVIOUS
<1>3. d \in Seq({BadDetail} \cup Nat)  BY <1>1, <1>2
<1>4. Len(d) \in Nat /\ DOMAIN d = 1 .. Len(d)  BY <1>3, LenProperties
<1>5. \A i \in DOMAIN d : d[i] \in {BadDetail} \cup Nat  BY <1>3, <1>4, ElementOfSeq
<1>6. ASSUME ~Spoiled(e) PROVE d \in Seq(Nat)
  <2>1. \A i \in 1 .. Len(d) : d[i] \in Nat  BY Zenon, <1>2, <1>4, <1>5, <1>6 DEF Spoiled
  <2>2. d = [i \in 1 .. Len(d) |-> d[i]]  BY <1>3
  <2> QED  BY <2>1, <2>2, <1>4
<1>7. d # <<>> \/ DOMAIN d = {}  BY <1>4
<1> QED  BY Zenon, <1>1, <1>2, <1>5, <1>6, <1>7

\* connectWireDetail.MarshalJSON and UnmarshalJSON: a detail comes back, or changed.
LEMMA DetailReturns ==
    ASSUME NEW d \in {BadDetail} \cup Nat
    PROVE  UnmarshalDetail(MarshalDetail(d)) = IF d = BadDetail THEN ChangedDetail ELSE d
<1>1. CASE d = BadDetail  BY <1>1 DEF MarshalDetail, UnmarshalDetail
<1>2. CASE d \in Nat
  <2>1. EncodeBinaryHeader(d) \in Nat /\ DecodeBinaryHeader(EncodeBinaryHeader(d)) = d
    BY <1>2, BinaryRoundTrip
  <2>2. d # BadDetail /\ EncodeBinaryHeader(d) # ChangedDetail
    BY <1>2, <2>1 DEF BadDetail, ChangedDetail
  <2> QED  BY <2>1, <2>2 DEF MarshalDetail, UnmarshalDetail
<1> QED  BY <1>1, <1>2

\* The code in Connect.
LEMMA ConnectCode ==
    ASSUME NEW c \in 1 .. 17
    PROVE  /\ String(c) # NoText
           /\ LET code == UnmarshalText(String(c))
              IN  (IF code \in Canonical THEN code ELSE 2) = IF c = 17 THEN 2 ELSE c
<1>1. CASE c \in 1 .. 16
  <2>1. String(c) = [name |-> CodeNames[c], number |-> 0]  BY Zenon, <1>1, CodesAreNamed DEF String
  <2>2. CodeNames[c] # "none" /\ CodeNames[c] # "code" /\ CodeNamed(CodeNames[c]) = c
    BY Zenon, <1>1, CodesAreNamed
  <2>3. UnmarshalText(String(c)) = c  BY <2>1, <2>2 DEF UnmarshalText
  <2> QED  BY <1>1, <2>1, <2>2, <2>3, CodesAreNamed DEF NoText
<1>2. CASE c = 17
  <2>1. c \notin Canonical  BY <1>2, CodesAreNamed
  <2>2. String(c) = [name |-> "code", number |-> c]  BY Zenon, <2>1 DEF String
  <2>3. UnmarshalText(String(c)) = c  BY <2>1, <2>2 DEF UnmarshalText
  <2> QED  BY <1>2, <2>1, <2>2, <2>3 DEF NoText
<1> QED  BY <1>1, <1>2

\* Error.Code is never that of a success.
LEMMA CodeOfAny ==
    ASSUME NEW e \in AnyError
    PROVE  Code(e) \in 1 .. 17 /\ Code(e) = IF e.code = 0 THEN 2 ELSE e.code
<1>1. e.code \in 0 .. 17  BY DetailsOfAny
<1>2. Code(e) = IF e.code = 0 THEN 2 ELSE e.code  BY Zenon, CodesAreNamed DEF Code
<1> QED  BY <1>1, <1>2

\* asError of newConnectWireError: the code is that of the error, unknown when it has
\* none or one that is not canonical; the message is what JSON makes of it; the details
\* are the same, but for those that are not UTF-8.  Details never spoil the rest.
THEOREM ConnectReturnsTheError ==
    ASSUME NEW e \in AnyError, NEW otherwise
    PROVE  /\ newConnectWireError(e).text # NoText
           /\ asError(newConnectWireError(e), otherwise) =
                [code |-> IF e.code \in {0, 17} THEN CodeNamed("unknown") ELSE e.code,
                 message |-> ToJSON(e.message),
                 details |-> [i \in DOMAIN e.details |->
                                IF e.details[i] = BadDetail THEN ChangedDetail ELSE e.details[i]]]
<1> DEFINE wire == newConnectWireError(e)
           back == [i \in DOMAIN wire.details |-> UnmarshalDetail(wire.details[i])]
           kept == [i \in DOMAIN e.details |->
                      IF e.details[i] = BadDetail THEN ChangedDetail ELSE e.details[i]]
           code == UnmarshalText(wire.text)
<1>1. /\ wire.text = String(Code(e)) /\ wire.message = ToJSON(e.message)
      /\ wire.details = [i \in DOMAIN e.details |-> MarshalDetail(e.details[i])]
  BY DEF newConnectWireError, Success
<1> HIDE DEF wire
<1>2. back = [i \in DOMAIN e.details |-> UnmarshalDetail(MarshalDetail(e.details[i]))]
  BY Zenon, <1>1
<1>3. \A i \in DOMAIN e.details : e.details[i] \in {BadDetail} \cup Nat  BY Zenon, DetailsOfAny
<1>4. back = kept  BY Zenon, <1>2, <1>3, DetailReturns
<1>5. \A i \in DOMAIN kept : kept[i] # -1
  BY <1>3 DEF BadDetail, ChangedDetail
<1>6. Code(e) \in 1 .. 17 /\ Code(e) = IF e.code = 0 THEN 2 ELSE e.code  BY Zenon, CodeOfAny
<1>7. /\ wire.text # NoText
      /\ (IF code \in Canonical THEN code ELSE 2) = IF Code(e) = 17 THEN 2 ELSE Code(e)
  BY Zenon, <1>1, <1>6, ConnectCode
<1>8. (IF code \in Canonical THEN code ELSE 2) = IF e.code \in {0, 17} THEN 2 ELSE e.code
  BY Zenon, <1>6, <1>7
<1>9. asError(wire, otherwise) =
        IF \E i \in DOMAIN back : back[i] = -1 THEN Plain(otherwise)
        ELSE [code |-> IF code \in Canonical THEN code ELSE CodeNamed("unknown"),
              message |-> wire.message, details |-> back]
  BY Zenon DEF asError
<1> HIDE DEF back, kept, code
<1>10. asError(wire, otherwise) =
        [code |-> IF code \in Canonical THEN code ELSE 2, message |-> wire.message,
         details |-> kept]
  BY Zenon, <1>9, <1>4, <1>5, CodesAreNamed
<1>11. asError(wire, otherwise) =
        [code |-> IF e.code \in {0, 17} THEN CodeNamed("unknown") ELSE e.code,
         message |-> ToJSON(e.message), details |-> kept]
  BY Zenon, <1>10, <1>8, <1>1, CodesAreNamed
<1> QED  BY Zenon, <1>7, <1>11 DEF wire, kept

\* A header without a message.
LEMMA NoMessageIsNone == grpcPercentDecode(<<>>) = <<>> /\ TrimSpace(<<>>) = <<>>
<1>1. <<>> \in Seq(Byte) /\ Len(<<>>) = 0  BY EmptySeq
<1>2. PICK e, off : e = grpcPercentEncode(<<>>) /\ e \in Seq(Byte) /\ Laid(e, Escapes(<<>>), off)
  BY Zenon, <1>1, EncodeIsLaid
<1>3. off[0] = 0 /\ off[0] = Len(e)  BY Zenon, <1>1, <1>2, EscapePlaces
<1>4. e = <<>>  BY Zenon, <1>2, <1>3, EmptySeq
<1>5. grpcPercentDecode(<<>>) = <<>>  BY <1>1, <1>2, <1>4, PercentRoundTrip
<1>6. TrimSpace(<<>>) = <<>>  BY <1>1 DEF TrimSpace
<1> QED  BY <1>5, <1>6

\* The error of grpcPercentDecode is not a text.
LEMMA TextIsDecodable == ASSUME NEW m, m \in Seq(Byte) PROVE m # Undecodable
<1>1. ASSUME m = Undecodable PROVE FALSE
  <2>1. 1 \in 1 .. Len(m) /\ m[1] = -1  BY <1>1 DEF Undecodable
  <2>2. m[1] \in Byte  BY <2>1, ElementOfSeq
  <2> QED  BY <2>1, <2>2 DEF Byte
<1> QED  BY <1>1

\* What is in a trailer: the message may lose the spaces around it.
LEMMA TrailerHas ==
    ASSUME NEW e, NEW t,
           t \in {grpcErrorToTrailer(e), [grpcErrorToTrailer(e) EXCEPT !.message = TrimSpace(@)]}
    PROVE  LET size == grpcMarshalStatus(e)
               coded == [e EXCEPT !.code = Code(e)]
           IN  IF e.details # <<>> /\ size = -1
               THEN /\ t.code = CodeNamed("internal") /\ t.message \in {<<>>, TrimSpace(<<>>)}
                    /\ t.status = <<>>
               ELSE /\ t.code = Code(e)
                    /\ t.message \in {grpcPercentEncode(e.message),
                                      TrimSpace(grpcPercentEncode(e.message))}
                    /\ t.status = IF e.details = <<>> THEN <<>>
                                  ELSE <<[chars |-> EncodeBinaryHeader(size), of |-> coded]>>
<1> DEFINE size == grpcMarshalStatus(e)
           coded == [e EXCEPT !.code = Code(e)]
           whole == grpcErrorToTrailer(e)
<1>1. CASE e.details # <<>> /\ size = -1
  <2>1. whole = [Success EXCEPT !.code = CodeNamed("internal")]  BY <1>1 DEF grpcErrorToTrailer
  <2>2. /\ whole.code = CodeNamed("internal") /\ whole.message = <<>> /\ whole.status = <<>>
        /\ whole = [code |-> whole.code, text |-> whole.text, message |-> whole.message,
                    details |-> whole.details, status |-> whole.status]
    BY <2>1 DEF Success
  <2> HIDE DEF whole, size, coded
  <2>3. t \in {whole, [whole EXCEPT !.message = TrimSpace(@)]}  BY DEF whole
  <2>4. /\ t.code = whole.code /\ t.status = whole.status
        /\ t.message \in {whole.message, TrimSpace(whole.message)}
    BY <2>2, <2>3
  <2> QED  BY <1>1, <2>2, <2>4 DEF size
<1>2. CASE ~(e.details # <<>> /\ size = -1)
  <2>1. whole = [Success EXCEPT
                !.code = Code(e), !.message = grpcPercentEncode(e.message),
                !.status = IF e.details = <<>> THEN <<>>
                           ELSE <<[chars |-> EncodeBinaryHeader(size), of |-> coded]>>]
    BY <1>2 DEF grpcErrorToTrailer
  <2> HIDE DEF size, coded
  <2>2. /\ whole.code = Code(e) /\ whole.message = grpcPercentEncode(e.message)
        /\ whole.status = IF e.details = <<>> THEN <<>>
                           ELSE <<[chars |-> EncodeBinaryHeader(size), of |-> coded]>>
        /\ whole = [code |-> whole.code, text |-> whole.text, message |-> whole.message,
                    details |-> whole.details, status |-> whole.status]
    BY Zenon, <2>1 DEF Success
  <2> HIDE DEF whole
  <2>3. t \in {whole, [whole EXCEPT !.message = TrimSpace(@)]}  BY DEF whole
  <2>4. /\ t.code = whole.code /\ t.status = whole.status
        /\ t.message \in {whole.message, TrimSpace(whole.message)}
    BY <2>2, <2>3
  <2> QED  BY <1>2, <2>2, <2>4 DEF size, coded
<1> QED  BY <1>1, <1>2

\* grpcErrorForTrailer of grpcErrorToTrailer, with or without the spaces around the
\* header's value: the code and the details are those of the error, and so is its
\* message, of which spaces around it are lost only when no status goes along; an error
\* with details that cannot be marshaled is internal.
THEOREM TrailersReturnTheError ==
    ASSUME NEW e \in AnyError, NEW t,
           t \in {grpcErrorToTrailer(e), [grpcErrorToTrailer(e) EXCEPT !.message = TrimSpace(@)]}
    PROVE  IF Spoiled(e) THEN grpcErrorForTrailer(t) = Plain("internal")
           ELSE /\ grpcErrorForTrailer(t).code = Code(e)
                /\ grpcErrorForTrailer(t).details = e.details
                /\ \/ grpcErrorForTrailer(t).message = e.message
                   \/ e.details = <<>> /\ grpcErrorForTrailer(t).message = TrimSpace(e.message)
<1> DEFINE size == grpcMarshalStatus(e)
           coded == [e EXCEPT !.code = Code(e)]
           message == grpcPercentDecode(t.message)
<1>a. /\ e.code \in 0 .. 17 /\ e.message \in Seq(Byte)
      /\ ~Spoiled(e) => e.details \in Seq(Nat)
      /\ e.details # <<>> \/ DOMAIN e.details = {}
  BY DetailsOfAny
<1>b. Code(e) # 0  BY CodeOfAny
<1>c. grpcErrorForTrailer(t) =
        IF t.code = 0 THEN NoError
        ELSE IF message = Undecodable THEN Plain("internal")
        ELSE IF t.status = <<>>
        THEN [code |-> t.code, message |-> message, details |-> <<>>]
        ELSE grpcUnmarshalStatus(t.status[1], DecodeBinaryHeader(t.status[1].chars))
  BY DEF grpcErrorForTrailer
<1>1. CASE Spoiled(e)
  <2>1. size = -1 /\ e.details # <<>>  BY <1>1, <1>a DEF grpcMarshalStatus, Spoiled
  <2>2. t.code = CodeNamed("internal") /\ t.message \in {<<>>, TrimSpace(<<>>)} /\ t.status = <<>>
    BY Zenon, <2>1, TrailerHas
  <2>3. t.code # 0 /\ message = <<>>  BY <2>2, CodesAreNamed, NoMessageIsNone
  <2>4. message # Undecodable  BY <2>3 DEF Undecodable
  <2> HIDE DEF message
  <2> QED  BY <1>1, <1>c, <2>2, <2>3, <2>4 DEF Plain, Coded
<1>2. CASE ~Spoiled(e)
  <2>1. size \in Nat  BY <1>2, <1>a, StatusIsSized
  <2>2. size # -1  BY <2>1
  <2> HIDE DEF size
  <2>3. /\ t.code = Code(e)
        /\ t.message \in {grpcPercentEncode(e.message), TrimSpace(grpcPercentEncode(e.message))}
        /\ t.status = IF e.details = <<>> THEN <<>>
                      ELSE <<[chars |-> EncodeBinaryHeader(size), of |-> coded]>>
    BY <2>2, TrailerHas DEF size
  <2>4. message \in {e.message, TrimSpace(e.message)} /\ message # Undecodable
    <3>1. /\ grpcPercentDecode(grpcPercentEncode(e.message)) = e.message
          /\ TrimSpace(e.message) \in Seq(Byte)
          /\ grpcPercentDecode(TrimSpace(grpcPercentEncode(e.message))) = TrimSpace(e.message)
      BY <1>a, PercentRoundTrip, TrimmedRoundTrip
    <3> QED  BY <1>a, <2>3, <3>1, TextIsDecodable
  <2> HIDE DEF message, coded
  <2>5. CASE e.details = <<>>
    <3>1. grpcErrorForTrailer(t) = [code |-> t.code, message |-> message, details |-> <<>>]
      BY <1>b, <1>c, <2>3, <2>4, <2>5
    <3> QED  BY <1>2, <2>3, <2>4, <2>5, <3>1
  <2>6. CASE e.details # <<>>
    <3>1. t.status # <<>> /\ t.status[1].chars = EncodeBinaryHeader(size) /\ t.status[1].of = coded
      BY <2>3, <2>6
    <3>2. DecodeBinaryHeader(t.status[1].chars) = size  BY <3>1, <2>1, BinaryRoundTrip
    <3>3. grpcErrorForTrailer(t) = coded
      BY <1>b, <1>c, <2>2, <2>3, <2>4, <3>1, <3>2 DEF grpcUnmarshalStatus
    <3>4. coded.code = Code(e) /\ coded.message = e.message /\ coded.details = e.details
      BY DEF coded, AnyError
    <3> QED  BY <1>2, <3>3, <3>4
  <2> QED  BY <2>5, <2>6
<1> QED  BY <1>1, <1>2

-----------------------------------------------------------------------------
(* One message.                                                            *)

\* What marshalers make: as it is, or compressed to something that is empty only if
\* it was.
Sound(m) ==
    /\ m.size \in Sizes /\ m.wire \in Sizes
    /\ m.by = Identity => m.wire = m.size
    /\ m.wire = 0 => m.size = 0

\* The result for a message that arrives: refused when it or what is on the wire
\* exceeds the limit, whole otherwise.
Whole(m, limit, got) ==
    got = IF Exceeds(m.size, limit) \/ Exceeds(m.wire, limit) THEN Refused ELSE m.size

\* Decompress and UnmarshalFunc read one byte more than the limit, if there is one:
\* enough to tell every message that is too large, for every limit.
LEMMA LimitIsExact ==
    ASSUME NEW size \in Sizes, NEW limit \in Sizes
    PROVE  readLimited(size, limit) = IF Exceeds(size, limit) THEN Refused ELSE size
BY MaxIntAssumption DEF readLimited, LimitReader, Successor, Exceeds, Sizes, Refused

\* envelopeWriter.Write and connectUnaryMarshaler.Marshal.
LEMMA WriteIsSound ==
    ASSUME NEW size \in Sizes, NEW packed \in Packed(size), NEW pool, NEW minBytes,
           NEW sendMaxBytes, NEW m \in Write(size, packed, pool, minBytes, sendMaxBytes)
    PROVE  Sound(m) /\ m.by \in {Identity, pool}
BY MaxIntAssumption DEF Write, Sound, Packed, Sizes

\* envelopeReader.Unmarshal with the pool that the headers name.
LEMMA UnmarshalIsWhole ==
    ASSUME NEW m, Sound(m), NEW pool, m.by \in {Identity, pool}, NEW limit \in Sizes
    PROVE  Whole(m, limit, Unmarshal(m, pool, limit))
<1>1. readLimited(m.size, limit) = IF Exceeds(m.size, limit) THEN Refused ELSE m.size
  BY Zenon, LimitIsExact DEF Sound
<1> QED
  BY <1>1, MaxIntAssumption DEF Unmarshal, Read, Decompress, Whole, Sound, Exceeds, Sizes, Refused

\* connectUnaryUnmarshaler.UnmarshalFunc with the pool that the headers name.
LEMMA UnmarshalFuncIsWhole ==
    ASSUME NEW m, Sound(m), NEW limit \in Sizes
    PROVE  Whole(m, limit, UnmarshalFunc(m, m.by, limit))
<1>1. readLimited(m.size, limit) = IF Exceeds(m.size, limit) THEN Refused ELSE m.size
  BY Zenon, LimitIsExact DEF Sound
<1>2. readLimited(m.wire, limit) = IF Exceeds(m.wire, limit) THEN Refused ELSE m.wire
  BY Zenon, LimitIsExact DEF Sound
<1> QED
  BY <1>1, <1>2, MaxIntAssumption DEF UnmarshalFunc, Decompress, Whole, Sound, Exceeds, Sizes, Refused

-----------------------------------------------------------------------------
(* The exchange.                                                           *)

\* A message on the wire and the compression its headers name: a Connect unary
\* message has just that, an envelope may have none.
Carries(m, encoding) ==
    /\ Sound(m)
    /\ m.by \in {Identity, encoding}
    /\ ConnectUnary => m.by = encoding

CarriesBoth(r) ==
    /\ Carries(r.msg, r.encoding)
    /\ Sound(r.end) /\ r.end.by \in {Identity, r.encoding}

\* MessageIsWhole is not inductive: what is taken depends on what is on its way, and on
\* what the handler chose for it.
IInv ==
    /\ MessageIsWhole
    /\ pc = "serve" => Carries(request.msg, request.encoding)
    /\ pc = "handle" => Carries(request.msg, pools.request)
    /\ pc = "receive" => CarriesBoth(response)

LEMMA NothingIsSound == Sound(NoMessage)
BY MaxIntAssumption DEF Sound, NoMessage, Sizes

LEMMA InitIsSound == Init => IInv
BY DEF Init, IInv, MessageIsWhole, NotTaken, Exceeds

\* The server's answers differ in the response only.
Answered ==
    /\ pc' = "receive" /\ taken' = NotTaken /\ config' = config
    /\ CarriesBoth(response')

LEMMA AnsweredIsSound == Answered => IInv'
BY DEF Answered, IInv, MessageIsWhole, NotTaken, Exceeds, CarriesBoth, Carries, ConnectUnary, config

\* The client: Marshal, marshalWithGet and what they send.
LEMMA SendsIsSound ==
    ASSUME IInv, NEW method, NEW m, Sound(m), m.by \in {Identity, client.send}, Sends(method, m)
    PROVE  IInv'
BY DEF IInv, MessageIsWhole, Sends, Carries, ConnectUnary, config

LEMMA FailsIsSound == ASSUME IInv, NEW code, Fails(code) PROVE IInv'
BY Zenon DEF IInv, MessageIsWhole, Fails, config

LEMMA MarshalIsSound ==
    ASSUME IInv, NEW size \in Sizes, NEW packed \in Packed(size), Marshal(size, packed)
    PROVE  IInv'
<1>1. PICK minBytes \in {0, 2}, sendMaxBytes \in Sizes :
        LET written == Write(size, packed, client.send, minBytes, sendMaxBytes)
        IN  IF written = {} THEN Fails("resource_exhausted")
            ELSE \E m \in written : Sends("POST", m)
  BY Zenon DEF Marshal
<1>2. CASE Fails("resource_exhausted")  BY Zenon, <1>2, FailsIsSound
<1>3. ASSUME NEW m \in Write(size, packed, client.send, minBytes, sendMaxBytes), Sends("POST", m)
      PROVE  IInv'
  <2>1. Sound(m) /\ m.by \in {Identity, client.send}  BY Zenon, WriteIsSound
  <2> QED  BY Zenon, <1>3, <2>1, SendsIsSound
<1> QED  BY Zenon, <1>1, <1>2, <1>3

LEMMA marshalWithGetIsSound ==
    ASSUME IInv, NEW size \in Sizes, NEW packed \in Packed(size), marshalWithGet(size, packed)
    PROVE  IInv'
<1> DEFINE plain == [size |-> size, wire |-> size, by |-> Identity]
           compressed == [size |-> size, wire |-> packed, by |-> client.send]
<1>1. \/ Fails("resource_exhausted") \/ Sends("GET", plain) \/ Sends("POST", plain)
      \/ client.send # Identity /\ (Sends("GET", compressed) \/ Sends("POST", compressed))
  BY Zenon DEF marshalWithGet
<1>2. Sound(plain) /\ plain.by = Identity  BY Zenon DEF Sound
<1>3. client.send # Identity => Sound(compressed) /\ compressed.by = client.send
  BY Zenon, MaxIntAssumption DEF Sound, Packed, Sizes
<1> HIDE DEF plain, compressed
<1> QED  BY Zenon, <1>1, <1>2, <1>3, FailsIsSound, SendsIsSound

LEMMA SendIsSound == IInv /\ Send => IInv'
<1> SUFFICES ASSUME IInv, Send PROVE IInv'  OBVIOUS
<1>1. PICK size \in Sizes : \E packed \in Packed(size) :
        \/ Marshal(size, packed)
        \/ ConnectUnary /\ client.get # "off" /\ MarshalGet(size, packed)
  BY Zenon DEF Send
<1>2. PICK packed \in Packed(size) :
        \/ Marshal(size, packed) \/ marshalWithGet(size, packed) \/ Fails("internal")
  BY Zenon, <1>1 DEF MarshalGet
<1> QED  BY Zenon, <1>2, MarshalIsSound, marshalWithGetIsSound, FailsIsSound

\* The server: what Refuse, CloseWith and an ErrorWriter answer.
LEMMA AnswersIsSound ==
    ASSUME NEW error, NEW r, CarriesBoth(r), Answers(error, r)
    PROVE  IInv'
<1>1. Answered  BY Zenon DEF Answers, Answered, config
<1> QED  BY <1>1, AnsweredIsSound

\* A response without a message.
LEMMA ReplyIsSound ==
    ASSUME NEW status, NEW media, NEW error, NEW encoding, ConnectUnary => encoding = Identity
    PROVE  CarriesBoth(Reply(status, media, error, encoding, FALSE, NoMessage))
BY Zenon, NothingIsSound DEF Reply, CarriesBoth, Carries, NoMessage

LEMMA RefuseIsSound == ASSUME NEW status, Refuse(status) PROVE IInv'
<1>1. PICK error : Answers(error, Reply(status, "plain", Success, Identity, FALSE, NoMessage))
  BY Zenon DEF Refuse
<1> QED  BY Zenon, <1>1, ReplyIsSound, AnswersIsSound

\* An end of its own beside what a response carries.
LEMMA EndedIsSound ==
    ASSUME NEW r, Carries(r.msg, r.encoding), NEW ends, NEW end, Sound(end),
           end.by \in {Identity, r.encoding}
    PROVE  CarriesBoth(Ended(r, ends, end))
BY Zenon DEF Ended, CarriesBoth, Carries

LEMMA MarshalEndIsSound ==
    ASSUME NEW r, Carries(r.msg, r.encoding), NEW minBytes, NEW sendMaxBytes,
           NEW ended \in MarshalEnd(r, r.encoding, minBytes, sendMaxBytes)
    PROVE  CarriesBoth(ended)
<1>1. PICK size \in {1, MaxInt}, packed \in {1, MaxInt} :
        LET written == Write(size, packed, r.encoding, minBytes, sendMaxBytes)
        IN  ended = IF written = {} THEN Ended(r, "missing", NoMessage)
                    ELSE Ended(r, "enveloped", CHOOSE m \in written : TRUE)
  BY DEF MarshalEnd
<1> DEFINE written == Write(size, packed, r.encoding, minBytes, sendMaxBytes)
<1>2. size \in Sizes /\ packed \in Packed(size)  BY MaxIntAssumption DEF Packed, Sizes
<1>3. CASE written = {}
  <2>1. ended = Ended(r, "missing", NoMessage)  BY Zenon, <1>1, <1>3
  <2>2. NoMessage.by = Identity  BY Zenon DEF NoMessage
  <2> QED  BY Zenon, <2>1, <2>2, NothingIsSound, EndedIsSound
<1>4. CASE written # {}
  <2> DEFINE m == CHOOSE m \in written : TRUE
  <2>1. m \in written  BY Zenon, <1>4
  <2>2. ended = Ended(r, "enveloped", m)  BY Zenon, <1>1, <1>4
  <2> HIDE DEF m
  <2>3. Sound(m) /\ m.by \in {Identity, r.encoding}  BY Zenon, <1>2, <2>1, WriteIsSound
  <2> QED  BY Zenon, <2>2, <2>3, EndedIsSound
<1> QED  BY Zenon, <1>3, <1>4

LEMMA CloseWithIsSound ==
    ASSUME NEW error, NEW pool, NEW sendMaxBytes, NEW tried,
           CloseWith(error, pool, sendMaxBytes, tried)
    PROVE  IInv'
<1> DEFINE unary(wire) == Reply(connectCodeToHTTP(Code(error)), "json", wire, Identity,
                                FALSE, NoMessage)
           stream(wire) == Reply(200, client.codec, wire, pool, FALSE, NoMessage)
<1>1. \/ ConnectUnary /\ \E wire : Answers(error, unary(wire))
      \/ ~ConnectUnary /\ \E wire : Answers(error, stream(wire))
      \/ /\ ~ConnectUnary
         /\ \E minBytes, wire : \E ended \in MarshalEnd(stream(wire), pool, minBytes, sendMaxBytes) :
              Answers(error, ended)
  BY DEF CloseWith, Enveloped
<1>2. ASSUME ConnectUnary, NEW wire, Answers(error, unary(wire)) PROVE IInv'
  BY Zenon, <1>2, ReplyIsSound, AnswersIsSound
<1>3. ASSUME ~ConnectUnary, NEW wire, Answers(error, stream(wire)) PROVE IInv'
  BY Zenon, <1>3, ReplyIsSound, AnswersIsSound
<1>4. ASSUME ~ConnectUnary, NEW minBytes, NEW wire,
             NEW ended \in MarshalEnd(stream(wire), pool, minBytes, sendMaxBytes),
             Answers(error, ended)
      PROVE  IInv'
  <2>1. CarriesBoth(stream(wire))  BY Zenon, <1>4, ReplyIsSound
  <2>2. stream(wire).encoding = pool  BY Zenon DEF Reply
  <2> HIDE DEF stream
  <2>3. CarriesBoth(ended)  BY Zenon, <2>1, <2>2, MarshalEndIsSound DEF CarriesBoth
  <2> QED  BY Zenon, <1>4, <2>3, AnswersIsSound
<1> QED  BY <1>1, <1>2, <1>3, <1>4

LEMMA MiddlewareIsSound == Middleware => IInv'
<1> SUFFICES ASSUME Middleware PROVE IInv'  OBVIOUS
<1>1. PICK error, required : writeError(error, required)  BY DEF Middleware
<1>2. PICK wire \in Encoded(error, FALSE), size \in {1, MaxInt} :
        LET type == classifyRequest(required)
            r == IF type \in {"connectunary", "unknown"}
                 THEN Reply(connectCodeToHTTP(Code(error)), "json", wire, Identity,
                            FALSE, NoMessage)
                 ELSE Reply(200, client.codec, wire, Identity, FALSE, NoMessage)
        IN  Answers(error, IF type # "connectstream" THEN r
                           ELSE Ended(r, "enveloped",
                                      [size |-> size, wire |-> size, by |-> Identity]))
  BY Zenon, <1>1 DEF writeError
<1> DEFINE unary == Reply(connectCodeToHTTP(Code(error)), "json", wire, Identity,
                          FALSE, NoMessage)
           stream == Reply(200, client.codec, wire, Identity, FALSE, NoMessage)
           end == [size |-> size, wire |-> size, by |-> Identity]
<1>3. CarriesBoth(unary) /\ CarriesBoth(stream)  BY Zenon, ReplyIsSound
<1>4. Sound(end) /\ end.by = Identity  BY MaxIntAssumption DEF Sound, Sizes
<1>5. CarriesBoth(Ended(stream, "enveloped", end))
  <2> HIDE DEF stream, end
  <2> QED  BY Zenon, <1>3, <1>4, EndedIsSound DEF CarriesBoth
<1>6. \/ Answers(error, unary) \/ Answers(error, stream)
      \/ Answers(error, Ended(stream, "enveloped", end))
  BY Zenon, <1>2
<1> HIDE DEF unary, stream, end
<1> QED  BY Zenon, <1>3, <1>5, <1>6, AnswersIsSound

\* NewConn keeps the request's compression for reading it.
LEMMA NewConnIsSound ==
    ASSUME IInv, pc = "serve", NEW specType, NEW flusher, NEW required,
           NewConn(specType, flusher, required)
    PROVE  IInv'
<1> DEFINE chosen == negotiateCompression(request.encoding, request.accept)
<1>1. ASSUME NEW p \in chosen PROVE p.request = request.encoding
  BY DEF negotiateCompression
<1>2. ASSUME NEW p \in chosen, pools' = p, pc' = "handle",
             UNCHANGED <<config, request, decided, response, taken, verdict>>
      PROVE  IInv'
  BY Zenon, <1>1, <1>2 DEF IInv, MessageIsWhole, Carries, ConnectUnary, config
<1>3. \/ \E error, pool, sendMaxBytes, tried : CloseWith(error, pool, sendMaxBytes, tried)
      \/ \E p \in chosen : /\ pools' = p /\ pc' = "handle"
                           /\ UNCHANGED <<config, request, decided, response, taken, verdict>>
  BY Zenon DEF NewConn
<1> QED  BY Zenon, <1>2, <1>3, CloseWithIsSound

LEMMA ServeProcedureIsSound ==
    ASSUME IInv, pc = "serve", NEW specType, NEW idempotent, NEW protoMajor, NEW flusher,
           NEW required, ServeProcedure(specType, idempotent, protoMajor, flusher, required)
    PROVE  IInv'
<1>1. Refuse(505) \/ Refuse(405) \/ Refuse(415) \/ NewConn(specType, flusher, required)
  BY Zenon DEF ServeProcedure
<1> QED  BY <1>1, RefuseIsSound, NewConnIsSound

LEMMA ServeHTTPIsSound == IInv /\ ServeHTTP => IInv'
<1> SUFFICES ASSUME IInv, ServeHTTP PROVE IInv'  OBVIOUS
<1>1. pc = "serve"  BY Zenon DEF ServeHTTP
<1>2. PICK protoMajor, flusher, required :
        \/ ServeProcedure(streamType, server.idempotent, protoMajor, flusher, required)
        \/ newUnknownMethodHandler(protoMajor, flusher, required)
        \/ Refuse(404)
  BY DEF ServeHTTP
<1>3. newUnknownMethodHandler(protoMajor, flusher, required) =>
        \/ Refuse(404)
        \/ \E specType : ServeProcedure(specType, FALSE, protoMajor, flusher, required)
  BY Zenon DEF newUnknownMethodHandler
<1> QED  BY Zenon, <1>1, <1>2, <1>3, RefuseIsSound, ServeProcedureIsSound

\* A message that is taken whole is what MessageIsWhole asks for.
LEMMA TakeIsWhole ==
    ASSUME NEW m, NEW limit, NEW got, Whole(m, limit, got), taken' = Take(m, limit, got)
    PROVE  MessageIsWhole'
BY Zenon DEF Whole, Take, MessageIsWhole, Exceeds

\* Both unmarshalers, of a message and the compression its headers name.
LEMMA CarriedIsWhole ==
    ASSUME NEW m, NEW encoding, Carries(m, encoding), NEW limit \in Sizes
    PROVE  Whole(m, limit, IF ConnectUnary THEN UnmarshalFunc(m, encoding, limit)
                           ELSE Unmarshal(m, encoding, limit))
BY UnmarshalIsWhole, UnmarshalFuncIsWhole DEF Carries

LEMMA TakeRequestIsSound == IInv /\ TakeRequest => IInv'
<1> SUFFICES ASSUME IInv, TakeRequest PROVE IInv'  OBVIOUS
<1> DEFINE got(limit) == IF ConnectUnary THEN UnmarshalFunc(request.msg, pools.request, limit)
                         ELSE Unmarshal(request.msg, pools.request, limit)
<1>1. PICK limit \in Sizes : taken' = Take(request.msg, limit, got(limit))
  BY Zenon DEF TakeRequest
<1>2. pc' = "handled" /\ Carries(request.msg, pools.request)  BY Zenon DEF TakeRequest, IInv
<1>3. Whole(request.msg, limit, got(limit))  BY Zenon, <1>2, CarriedIsWhole
<1> HIDE DEF got
<1>4. MessageIsWhole'  BY Zenon, <1>1, <1>3, TakeIsWhole
<1> QED  BY Zenon, <1>2, <1>4 DEF IInv

LEMMA HandleIsSound == Handle => IInv'
BY DEF Handle, IInv, MessageIsWhole, NotTaken, Exceeds

LEMMA RespondIsSound == Respond => IInv'
<1> SUFFICES ASSUME Respond PROVE IInv'  OBVIOUS
<1> DEFINE written(size, packed, minBytes, max) ==
             Write(size, packed, pools.response, minBytes, max)
           r(m) == Reply(200, client.codec, Success,
                         IF ConnectUnary THEN m.by ELSE pools.response, TRUE, m)
<1>1. PICK sendMaxBytes \in Sizes :
        IF decided # NoError THEN CloseWith(decided, pools.response, sendMaxBytes, FALSE)
        ELSE \E size \in Sizes, minBytes \in {0, 2} : \E packed \in Packed(size) :
          IF written(size, packed, minBytes, sendMaxBytes) = {}
          THEN CloseWith(Plain("resource_exhausted"), pools.response, sendMaxBytes, TRUE)
          ELSE \E m \in written(size, packed, minBytes, sendMaxBytes) :
            \/ ~Enveloped /\ Answers(decided, r(m))
            \/ /\ Enveloped
               /\ \E ended \in MarshalEnd(r(m), pools.response, minBytes, sendMaxBytes) :
                    Answers(decided, ended)
  BY Zenon DEF Respond
<1>2. ASSUME NEW size \in Sizes, NEW minBytes \in {0, 2}, NEW packed \in Packed(size),
             NEW m \in written(size, packed, minBytes, sendMaxBytes)
      PROVE  /\ CarriesBoth(r(m))
             /\ Enveloped => r(m).encoding = pools.response
  <2>1. Sound(m) /\ m.by \in {Identity, pools.response}  BY Zenon, WriteIsSound
  <2> QED  BY Zenon, <2>1, NothingIsSound DEF Reply, CarriesBoth, Carries, NoMessage, Enveloped
<1> HIDE DEF r, written
<1>3. ASSUME NEW size \in Sizes, NEW minBytes \in {0, 2}, NEW packed \in Packed(size),
             NEW m \in written(size, packed, minBytes, sendMaxBytes), Enveloped,
             NEW ended \in MarshalEnd(r(m), pools.response, minBytes, sendMaxBytes)
      PROVE  CarriesBoth(ended)
  <2>1. Carries(r(m).msg, r(m).encoding) /\ r(m).encoding = pools.response
    BY Zenon, <1>2, <1>3 DEF CarriesBoth
  <2>2. ended \in MarshalEnd(r(m), r(m).encoding, minBytes, sendMaxBytes)  BY Zenon, <1>3, <2>1
  <2> QED  BY Zenon, <2>1, <2>2, MarshalEndIsSound
<1> QED  BY Zenon, <1>1, <1>2, <1>3, CloseWithIsSound, AnswersIsSound

LEMMA ReceiveIsSound == IInv /\ Receive => IInv'
<1> SUFFICES ASSUME IInv, Receive PROVE IInv'  OBVIOUS
<1> DEFINE got(limit) == IF ConnectUnary
                         THEN UnmarshalFunc(response.msg, response.encoding, limit)
                         ELSE Unmarshal(response.msg, response.encoding, limit)
           ended(limit) == Unmarshal(response.end, response.encoding, limit)
<1>1. PICK limit \in Sizes : \/ taken' = Take(response.msg, limit, got(limit))
                             \/ taken' = Take(response.end, limit, ended(limit))
                             \/ taken' = taken
  BY Zenon DEF Receive
<1>2. pc' = "done" /\ CarriesBoth(response)  BY Zenon DEF Receive, IInv
<1>3. Whole(response.msg, limit, got(limit))  BY Zenon, <1>2, CarriedIsWhole DEF CarriesBoth
<1>4. Whole(response.end, limit, ended(limit))  BY <1>2, UnmarshalIsWhole DEF CarriesBoth
<1> HIDE DEF got, ended
<1>5. MessageIsWhole'
  <2>1. CASE taken' = taken  BY Zenon, <2>1 DEF IInv, MessageIsWhole
  <2> QED  BY Zenon, <1>1, <1>3, <1>4, <2>1, TakeIsWhole
<1> QED  BY Zenon, <1>2, <1>5 DEF IInv

LEMMA IInvHolds == Spec => []IInv
<1>1. IInv /\ [Next]_vars => IInv'
  <2> SUFFICES ASSUME IInv, [Next]_vars PROVE IInv'  OBVIOUS
  <2>1. CASE UNCHANGED vars
    BY Zenon, <2>1 DEF vars, config, IInv, MessageIsWhole, CarriesBoth, Carries, ConnectUnary
  <2>2. CASE Next
    BY Zenon, <2>1, <2>2, SendIsSound, MiddlewareIsSound, ServeHTTPIsSound, TakeRequestIsSound,
       HandleIsSound, RespondIsSound, ReceiveIsSound DEF Next, Finished
  <2> QED  BY <2>1, <2>2
<1> QED  BY <1>1, InitIsSound, PTL DEF Spec

\* MessageIsWhole holds of every exchange, for all codecs, compressors and limits: no
\* combination of headers, GET or POST, response or end of stream makes an unmarshaler
\* cut a message off, refuse one within the limit, or decompress it with what it was
\* not compressed with.
THEOREM MessageArrivesWhole == Spec => []MessageIsWhole
<1>1. IInv => MessageIsWhole  BY Zenon DEF IInv
<1> QED  BY <1>1, IInvHolds, PTL

-----------------------------------------------------------------------------
(* What the client is told.                                                *)

\* The compressions a client can read.
Agreed == client.compressors \cup {Identity}

\* The response r tells the client what was decided: a success, an error in the way
\* of the protocol, or the 404 of a procedure that is not there.
Tells(r, e) ==
    /\ r.encoding \in Agreed
    /\ \/ e = NoError /\ r.status = 200 /\ r.media = client.codec /\ r.error = Success
       \/ /\ e \in AnyError
          /\ r.error \in Encoded(e, FALSE)
          /\ IF ConnectUnary THEN r.status = connectCodeToHTTP(Code(e)) /\ r.media = "json"
             ELSE r.status = 200 /\ r.media = client.codec
       \/ e = Plain("unimplemented") /\ r.status = 404 /\ r.media = "plain"

\* DecisionIsTold and ErrorIsWhole are not inductive: what the client is told depends
\* on the response, its compression on what the client said it reads, and what the
\* server decided comes last of all.
TellInv ==
    /\ client \in Clients(streamType)
    /\ pc \in {"send", "serve", "handle", "handled"} => decided = Nothing
    /\ pc = "serve" => request.accept = client.compressors /\ request.encoding \in Agreed
    /\ pc \in {"handle", "handled", "respond"} => pools.response \in Agreed
    /\ pc = "respond" => decided \in AnyError \cup {NoError}
    /\ pc = "receive" /\ decided # Nothing => Tells(response, decided)
    /\ DecisionIsTold /\ ErrorIsWhole

\* What the client is told of an error that reaches it.
Heard(e, v) ==
    LET bad == \E i \in DOMAIN e.details : e.details[i] = BadDetail
        ascii == \A i \in DOMAIN e.message : e.message[i] < 128
        character == e.message = <<195, 169>>
    IN  /\ v.code = IF client.protocol # "connect" /\ bad THEN CodeNamed("internal")
                    ELSE IF e.code = 0 \/ (e.code = 17 /\ client.protocol = "connect")
                    THEN CodeNamed("unknown") ELSE e.code
        /\ e # NoError /\ ~bad =>
             /\ v.details = e.details
             /\ \/ v.message = e.message
                \/ client.protocol = "connect" /\ ~ascii /\ ~character
                \/ /\ client.protocol # "connect" /\ e.details = <<>>
                   /\ v.message = TrimSpace(e.message)

\* What the model decides is an error.
LEMMA PlainIsAny ==
    ASSUME NEW name \in {"invalid_argument", "resource_exhausted", "unimplemented", "internal"}
    PROVE  Plain(name) \in AnyError
<1>1. CodeNamed(name) \in 0 .. 17  BY CodesAreNamed
<1>2. <<>> \in Seq(Byte) /\ <<>> \in Seq({BadDetail} \cup Nat)  BY EmptySeq
<1> QED  BY Zenon, <1>1, <1>2 DEF Plain, Coded, AnyError

LEMMA ErrorsAreAny == Errors \subseteq AnyError
<1>1. /\ <<>> \in Seq(Byte) /\ <<>> \in Seq({BadDetail} \cup Nat)
      /\ << 1 >> \in Seq({BadDetail} \cup Nat)
  BY EmptySeq
<1>2. \A n \in 0 .. MaxMessage : [1 .. n -> Bytes] \subseteq Seq(Byte)
  <2>1. Bytes \subseteq Byte /\ MaxMessage \in Nat  BY BytesAssumption DEF Byte
  <2>2. ASSUME NEW n \in 0 .. MaxMessage, NEW f \in [1 .. n -> Bytes] PROVE f \in Seq(Byte)
    <3>1. n \in Nat /\ f \in [1 .. n -> Byte]  BY <2>1
    <3> QED  BY <3>1
  <2> QED  BY Zenon, <2>2
<1>3. \A n \in 1 .. 2 : [1 .. n -> {BadDetail} \cup 0 .. 3] \subseteq Seq({BadDetail} \cup Nat)
  <2>1. ASSUME NEW n \in 1 .. 2, NEW f \in [1 .. n -> {BadDetail} \cup 0 .. 3]
        PROVE  f \in Seq({BadDetail} \cup Nat)
    <3>1. n \in Nat /\ f \in [1 .. n -> {BadDetail} \cup Nat]  OBVIOUS
    <3> QED  BY <3>1
  <2> QED  BY <2>1
<1>4. ASSUME NEW code \in 0 .. 17 PROVE Coded(code) \in AnyError  BY Zenon, <1>1 DEF Coded, AnyError
<1>5. ASSUME NEW e \in [code : {5}, message : UNION {[1 .. n -> Bytes] : n \in 0 .. MaxMessage},
                        details : {<<>>, << 1 >>}]
      PROVE  e \in AnyError
  <2>1. /\ e = [code |-> e.code, message |-> e.message, details |-> e.details]
        /\ e.code = 5 /\ e.details \in {<<>>, << 1 >>}
        /\ e.message \in UNION {[1 .. n -> Bytes] : n \in 0 .. MaxMessage}
    BY Zenon, <1>5
  <2>2. e.message \in Seq(Byte)  BY <2>1, <1>2, Zenon
  <2>3. e.details \in Seq({BadDetail} \cup Nat)  BY <2>1, <1>1, Zenon
  <2>4. e.code \in 0 .. 17  BY <2>1
  <2> QED  BY <2>1, <2>2, <2>3, <2>4, Zenon DEF AnyError
<1>6. ASSUME NEW e \in [code : {5}, message : {<<>>},
                        details : UNION {[1 .. n -> {BadDetail} \cup 0 .. 3] : n \in 1 .. 2}]
      PROVE  e \in AnyError
  <2>1. /\ e = [code |-> e.code, message |-> e.message, details |-> e.details]
        /\ e.code = 5 /\ e.message = <<>>
        /\ e.details \in UNION {[1 .. n -> {BadDetail} \cup 0 .. 3] : n \in 1 .. 2}
    BY Zenon, <1>6
  <2>2. e.message \in Seq(Byte)  BY Zenon, <2>1, <1>1
  <2>3. e.details \in Seq({BadDetail} \cup Nat)  BY <2>1, <1>3, Zenon
  <2>4. e.code \in 0 .. 17  BY <2>1
  <2> QED  BY <2>1, <2>2, <2>3, <2>4, Zenon DEF AnyError
<1>7. ASSUME NEW e \in Errors PROVE e \in AnyError
  <2> DEFINE A == {Coded(code) : code \in 0 .. 17}
             B == [code : {5}, message : UNION {[1 .. n -> Bytes] : n \in 0 .. MaxMessage},
                   details : {<<>>, << 1 >>}]
             C == [code : {5}, message : {<<>>},
                   details : UNION {[1 .. n -> {BadDetail} \cup 0 .. 3] : n \in 1 .. 2}]
  <2>1. \A x \in A : x \in AnyError  BY Zenon, <1>4
  <2>2. \A x \in B : x \in AnyError  BY Zenon, <1>5
  <2>3. \A x \in C : x \in AnyError  BY Zenon, <1>6
  <2>4. Errors = A \cup B \cup C  BY Zenon DEF Errors
  <2> HIDE DEF A, B, C
  <2> QED  BY Zenon, <2>1, <2>2, <2>3, <2>4
<1> QED  BY <1>7

\* connectCodeToHTTP makes no success of an error.
LEMMA StatusIsAnError == ASSUME NEW e \in AnyError PROVE connectCodeToHTTP(Code(e)) # 200
<1>1. Code(e) \in 1 .. 17  BY Zenon, CodeOfAny
<1>2. Code(e) \in {1, 2, 3, 4, 5, 6, 7, 8, 9, 10, 11, 12, 13, 14, 15, 16, 17}  BY <1>1
<1>3. Canonical = 1 .. 16  BY Zenon, CodesAreNamed
<1> QED  BY <1>2, <1>3 DEF connectCodeToHTTP

\* An error in a response is heard.
LEMMA EncodedIsHeard ==
    ASSUME NEW e \in AnyError, response.error \in Encoded(e, FALSE), NEW otherwise
    PROVE  Heard(e, EndError(otherwise))
<1>c. e.code \in 0 .. 17 /\ e.message \in Seq(Byte)  BY Zenon, DetailsOfAny
<1>1. CASE client.protocol = "connect"
  <2>1. response.error = newConnectWireError(e)  BY <1>1 DEF Encoded
  <2> DEFINE kept == [i \in DOMAIN e.details |->
                        IF e.details[i] = BadDetail THEN ChangedDetail ELSE e.details[i]]
             v == EndError(otherwise)
  <2>2. v = [code |-> IF e.code \in {0, 17} THEN CodeNamed("unknown") ELSE e.code,
             message |-> ToJSON(e.message), details |-> kept]
    BY Zenon, <1>1, <2>1, ConnectReturnsTheError DEF EndError
  <2>3. ASSUME ~Spoiled(e) PROVE kept = e.details
    <3>1. e.details \in Seq(Nat)  BY Zenon, <2>3, DetailsOfAny
    <3>2. e.details = [i \in DOMAIN e.details |-> e.details[i]]  BY <3>1
    <3> QED  BY Zenon, <2>3, <3>2 DEF Spoiled
  <2>4. (\A i \in DOMAIN e.message : e.message[i] < 128) \/ e.message = <<195, 169>> =>
          ToJSON(e.message) = e.message
    BY Zenon, <1>c, JSONKeeps
  <2>5. /\ v.code = IF e.code \in {0, 17} THEN CodeNamed("unknown") ELSE e.code
        /\ v.message = ToJSON(e.message) /\ v.details = kept
    BY <2>2
  <2> HIDE DEF v, kept
  <2>6. Heard(e, v)  BY Zenon, <1>1, <2>3, <2>4, <2>5 DEF Heard, Spoiled
  <2> QED  BY Zenon, <2>6 DEF v
<1>2. CASE client.protocol # "connect"
  <2>1. response.error \in {grpcErrorToTrailer(e),
                            [grpcErrorToTrailer(e) EXCEPT !.message = TrimSpace(@)]}
    BY <1>2 DEF Encoded
  <2> DEFINE v == EndError(otherwise)
  <2>2. v = grpcErrorForTrailer(response.error)  BY Zenon, <1>2 DEF EndError
  <2>3. IF Spoiled(e) THEN v = Plain("internal")
        ELSE /\ v.code = Code(e) /\ v.details = e.details
             /\ \/ v.message = e.message
                \/ e.details = <<>> /\ v.message = TrimSpace(e.message)
    <3> HIDE DEF v
    <3>1. PICK t : t = response.error  BY Zenon
    <3> QED  BY <2>1, <2>2, <3>1, TrailersReturnTheError
  <2> HIDE DEF v
  <2>4. Plain("internal").code = CodeNamed("internal")  BY Zenon DEF Plain, Coded
  <2>5. Code(e) = IF e.code = 0 THEN CodeNamed("unknown") ELSE e.code  BY Zenon DEF Code
  <2>6. Heard(e, v)  BY Zenon, <1>2, <2>3, <2>4, <2>5 DEF Heard, Spoiled
  <2> QED  BY <2>6 DEF v
<1> QED  BY Zenon, <1>1, <1>2

\* Every step keeps to the invariant.
LEMMA InitTells == Init => TellInv
<1> SUFFICES ASSUME Init PROVE TellInv  OBVIOUS
<1>1. pc = "send" /\ decided = Nothing /\ client \in Clients(streamType)  BY Zenon DEF Init
<1> QED  BY Zenon, <1>1 DEF TellInv, DecisionIsTold, ErrorIsWhole

\* Before the server answers, nothing is told.
LEMMA UndecidedTells ==
    ASSUME TellInv, UNCHANGED config, decided' = Nothing,
           pc' \notin {"serve", "handle", "handled", "respond"}
    PROVE  TellInv'
BY Zenon DEF TellInv, config, DecisionIsTold, ErrorIsWhole

LEMMA AnswersTells ==
    ASSUME TellInv, NEW error, NEW r, error = Nothing \/ Tells(r, error), Answers(error, r)
    PROVE  TellInv'
<1>1. /\ pc' = "receive" /\ decided' = error /\ response' = r
      /\ client' = client /\ streamType' = streamType
  BY Zenon DEF Answers, config
<1>2. error # Nothing => Tells(response, decided)'
  BY <1>1 DEF Tells, Agreed, Encoded, ConnectUnary
<1> QED  BY Zenon, <1>1, <1>2 DEF TellInv, DecisionIsTold, ErrorIsWhole

LEMMA FailsTells == ASSUME TellInv, pc = "send", NEW code, Fails(code) PROVE TellInv'
<1>1. pc' = "done" /\ decided' = Nothing /\ UNCHANGED config  BY Zenon DEF TellInv, Fails
<1> QED  BY Zenon, <1>1, UndecidedTells

LEMMA SendsTells ==
    ASSUME TellInv, pc = "send", NEW method, NEW m, m.by \in {Identity, client.send},
           Sends(method, m)
    PROVE  TellInv'
<1>1. /\ pc' = "serve" /\ decided' = decided /\ client' = client /\ streamType' = streamType
      /\ request'.accept = client.compressors
      /\ request'.encoding \in {Identity, client.send}
  BY DEF Sends, config
<1>2. client.send \in Agreed  BY Zenon DEF TellInv, Clients, Agreed
<1> QED  BY Zenon, <1>1, <1>2 DEF TellInv, DecisionIsTold, ErrorIsWhole, Agreed

LEMMA MarshalTells ==
    ASSUME TellInv, pc = "send", NEW size \in Sizes, NEW packed \in Packed(size),
           Marshal(size, packed)
    PROVE  TellInv'
<1>1. PICK minBytes \in {0, 2}, sendMaxBytes \in Sizes :
        LET written == Write(size, packed, client.send, minBytes, sendMaxBytes)
        IN  IF written = {} THEN Fails("resource_exhausted")
            ELSE \E m \in written : Sends("POST", m)
  BY Zenon DEF Marshal
<1>2. CASE Fails("resource_exhausted")  BY Zenon, <1>2, FailsTells
<1>3. ASSUME NEW m \in Write(size, packed, client.send, minBytes, sendMaxBytes), Sends("POST", m)
      PROVE  TellInv'
  <2>1. m.by \in {Identity, client.send}  BY Zenon, WriteIsSound
  <2> QED  BY <1>3, <2>1, SendsTells
<1> QED  BY Zenon, <1>1, <1>2, <1>3

LEMMA marshalWithGetTells ==
    ASSUME TellInv, pc = "send", NEW size, NEW packed, marshalWithGet(size, packed)
    PROVE  TellInv'
<1> DEFINE plain == [size |-> size, wire |-> size, by |-> Identity]
           compressed == [size |-> size, wire |-> packed, by |-> client.send]
<1>1. \/ Fails("resource_exhausted") \/ Sends("GET", plain) \/ Sends("POST", plain)
      \/ Sends("GET", compressed) \/ Sends("POST", compressed)
  BY Zenon DEF marshalWithGet
<1>2. plain.by = Identity /\ compressed.by = client.send  BY Zenon
<1> HIDE DEF plain, compressed
<1> QED  BY <1>1, <1>2, FailsTells, SendsTells

LEMMA SendTells == TellInv /\ Send => TellInv'
<1> SUFFICES ASSUME TellInv, Send PROVE TellInv'  OBVIOUS
<1>0. pc = "send"  BY Zenon DEF Send
<1>1. PICK size \in Sizes : \E packed \in Packed(size) :
        \/ Marshal(size, packed)
        \/ ConnectUnary /\ client.get # "off" /\ MarshalGet(size, packed)
  BY DEF Send
<1>2. PICK packed \in Packed(size) :
        \/ Marshal(size, packed) \/ marshalWithGet(size, packed) \/ Fails("internal")
  BY <1>1 DEF MarshalGet
<1> QED  BY Zenon, <1>0, <1>2, MarshalTells, marshalWithGetTells, FailsTells

LEMMA RefuseTells == ASSUME TellInv, NEW status, Refuse(status) PROVE TellInv'
<1> DEFINE r == Reply(status, "plain", Success, Identity, FALSE, NoMessage)
           error == IF status = 404 THEN Plain("unimplemented") ELSE Nothing
<1>1. Answers(error, r)  BY Zenon DEF Refuse
<1>2. r.encoding = Identity /\ r.status = status /\ r.media = "plain"  BY Zenon DEF Reply
<1> HIDE DEF r
<1>3. error = Nothing \/ Tells(r, error)  BY Zenon, <1>2 DEF Tells, Agreed
<1> HIDE DEF error
<1> QED  BY Zenon, <1>1, <1>3, AnswersTells

\* A response without a message, in the way of the protocol.
ErrorReply(e, wire, pool) ==
    IF ConnectUnary THEN Reply(connectCodeToHTTP(Code(e)), "json", wire, Identity, FALSE, NoMessage)
    ELSE Reply(200, client.codec, wire, pool, FALSE, NoMessage)

LEMMA ReplyTells ==
    ASSUME NEW e \in AnyError, NEW enveloped, NEW wire \in Encoded(e, enveloped),
           NEW pool \in Agreed
    PROVE  Tells(ErrorReply(e, wire, pool), e)
<1>1. wire \in Encoded(e, FALSE)  BY Zenon DEF Encoded
<1>2. Identity \in Agreed  BY Zenon DEF Agreed
<1> QED  BY Zenon, <1>1, <1>2 DEF Tells, ErrorReply, Reply

\* The end of a stream does not change what is told.
LEMMA EndedTells ==
    ASSUME NEW r, NEW e, Tells(r, e), NEW ends, NEW end
    PROVE  Tells(Ended(r, ends, end), e)
BY Zenon DEF Tells, Ended

LEMMA MarshalEndTells ==
    ASSUME NEW r, NEW e, Tells(r, e), NEW pool, NEW minBytes, NEW sendMaxBytes,
           NEW ended \in MarshalEnd(r, pool, minBytes, sendMaxBytes)
    PROVE  Tells(ended, e)
<1>1. \E ends, end : ended = Ended(r, ends, end)  BY DEF MarshalEnd
<1> QED  BY Zenon, <1>1, EndedTells

LEMMA CloseWithTells ==
    ASSUME TellInv, NEW error \in AnyError, NEW pool \in Agreed, NEW sendMaxBytes, NEW tried,
           CloseWith(error, pool, sendMaxBytes, tried)
    PROVE  TellInv'
<1>1. \/ \E wire \in Encoded(error, FALSE) : Answers(error, ErrorReply(error, wire, pool))
      \/ \E minBytes \in {0, 2}, wire \in Encoded(error, TRUE) :
           \E ended \in MarshalEnd(ErrorReply(error, wire, pool), pool, minBytes, sendMaxBytes) :
             Answers(error, ended)
  BY Zenon DEF CloseWith, ErrorReply
<1>2. CASE \E wire \in Encoded(error, FALSE) : Answers(error, ErrorReply(error, wire, pool))
  BY Zenon, <1>2, ReplyTells, AnswersTells
<1>3. ASSUME NEW minBytes, NEW wire \in Encoded(error, TRUE),
             NEW ended \in MarshalEnd(ErrorReply(error, wire, pool), pool, minBytes, sendMaxBytes),
             Answers(error, ended)
      PROVE  TellInv'
  <2>1. Tells(ended, error)  BY Zenon, ReplyTells, MarshalEndTells
  <2> QED  BY Zenon, <1>3, <2>1, AnswersTells
<1> QED  BY Zenon, <1>1, <1>2, <1>3

LEMMA MiddlewareTells == TellInv /\ Middleware => TellInv'
<1> SUFFICES ASSUME TellInv, Middleware PROVE TellInv'  OBVIOUS
<1> DEFINE error == Plain("resource_exhausted")
<1>1. PICK required : writeError(error, required)  BY Zenon DEF Middleware
<1>2. PICK wire \in Encoded(error, FALSE), size \in {1, MaxInt} :
        LET type == classifyRequest(required)
            r == IF type \in {"connectunary", "unknown"}
                 THEN Reply(connectCodeToHTTP(Code(error)), "json", wire, Identity,
                            FALSE, NoMessage)
                 ELSE Reply(200, client.codec, wire, Identity, FALSE, NoMessage)
        IN  Answers(error, IF type # "connectstream" THEN r
                           ELSE Ended(r, "enveloped",
                                      [size |-> size, wire |-> size, by |-> Identity]))
  BY Zenon, <1>1 DEF writeError
<1>3. error \in AnyError  BY Zenon, PlainIsAny
<1> HIDE DEF error
<1>4. client.protocol \in {"connect", "grpc", "grpcweb"}
  BY Zenon, NegotiationAssumption DEF TellInv, Clients
<1>5. classifyRequest(required) \in {"connectunary", "unknown"} <=> ConnectUnary
  BY Zenon, <1>4 DEF classifyRequest, ConnectUnary
<1> DEFINE r == ErrorReply(error, wire, Identity)
           end == [size |-> size, wire |-> size, by |-> Identity]
<1>6. Answers(error, r) \/ Answers(error, Ended(r, "enveloped", end))
  BY Zenon, <1>2, <1>5 DEF ErrorReply
<1>7. Tells(r, error)
  <2>1. Identity \in Agreed  BY Zenon DEF Agreed
  <2> QED  BY Zenon, <2>1, <1>3, ReplyTells
<1> HIDE DEF r, end
<1>8. Tells(Ended(r, "enveloped", end), error)  BY Zenon, <1>7, EndedTells
<1> QED  BY Zenon, <1>6, <1>7, <1>8, AnswersTells

\* negotiateCompression chooses what the client reads.
LEMMA NewConnTells ==
    ASSUME TellInv, pc = "serve", NEW specType, NEW flusher, NEW required,
           NewConn(specType, flusher, required)
    PROVE  TellInv'
<1> DEFINE chosen == negotiateCompression(request.encoding, request.accept)
<1>1. ASSUME NEW p \in chosen PROVE p.response \in Agreed
  BY DEF negotiateCompression, TellInv, Agreed
<1>2. ASSUME NEW p \in chosen, pools' = p, pc' = "handle",
             UNCHANGED <<config, request, decided, response, taken, verdict>>
      PROVE  TellInv'
  <2>1. pools'.response \in Agreed /\ client' = client /\ streamType' = streamType
        /\ decided' = Nothing
    BY Zenon, <1>1, <1>2 DEF config, TellInv
  <2> QED  BY Zenon, <1>2, <2>1 DEF TellInv, DecisionIsTold, ErrorIsWhole, Agreed
<1>3. Identity \in Agreed  BY Zenon DEF Agreed
<1> HIDE DEF chosen
<1>4. \/ \E sendMaxBytes, pool : \E name \in {"unimplemented", "internal", "invalid_argument"} :
           pool \in Agreed /\ CloseWith(Plain(name), pool, sendMaxBytes, FALSE)
      \/ \E p \in chosen : /\ pools' = p /\ pc' = "handle"
                           /\ UNCHANGED <<config, request, decided, response, taken, verdict>>
  BY Zenon, <1>1, <1>3 DEF NewConn, chosen
<1> QED  BY Zenon, <1>2, <1>4, PlainIsAny, CloseWithTells

LEMMA ServeProcedureTells ==
    ASSUME TellInv, pc = "serve", NEW specType, NEW idempotent, NEW protoMajor, NEW flusher,
           NEW required, ServeProcedure(specType, idempotent, protoMajor, flusher, required)
    PROVE  TellInv'
<1>1. Refuse(505) \/ Refuse(405) \/ Refuse(415) \/ NewConn(specType, flusher, required)
  BY DEF ServeProcedure
<1> QED  BY <1>1, RefuseTells, NewConnTells

LEMMA ServeHTTPTells == TellInv /\ ServeHTTP => TellInv'
<1> SUFFICES ASSUME TellInv, ServeHTTP PROVE TellInv'  OBVIOUS
<1>1. pc = "serve"  BY DEF ServeHTTP
<1>2. PICK protoMajor, flusher, required :
        \/ ServeProcedure(streamType, server.idempotent, protoMajor, flusher, required)
        \/ newUnknownMethodHandler(protoMajor, flusher, required)
        \/ Refuse(404)
  BY DEF ServeHTTP
<1>3. newUnknownMethodHandler(protoMajor, flusher, required) =>
        \/ Refuse(404)
        \/ \E specType : ServeProcedure(specType, FALSE, protoMajor, flusher, required)
  BY Zenon DEF newUnknownMethodHandler
<1> QED  BY Zenon, <1>1, <1>2, <1>3, RefuseTells, ServeProcedureTells

LEMMA TakeRequestTells == TellInv /\ TakeRequest => TellInv'
<1> SUFFICES ASSUME TellInv, TakeRequest PROVE TellInv'  OBVIOUS
<1>1. /\ pc = "handle" /\ pc' = "handled" /\ decided' = decided /\ pools' = pools
      /\ client' = client /\ streamType' = streamType
  BY Zenon DEF TakeRequest, config
<1> QED  BY Zenon, <1>1 DEF TellInv, DecisionIsTold, ErrorIsWhole, Agreed

LEMMA HandleTells == TellInv /\ Handle => TellInv'
<1> SUFFICES ASSUME TellInv, Handle PROVE TellInv'  OBVIOUS
<1>1. /\ pc \in {"handle", "handled"} /\ pc' = "respond" /\ pools' = pools
      /\ client' = client /\ streamType' = streamType
      /\ \/ decided' \in Errors \cup {NoError}
         \/ \E name \in {"unimplemented", "resource_exhausted", "invalid_argument"} :
              decided' = Plain(name)
  BY Zenon DEF Handle, config
<1>2. decided' \in AnyError \cup {NoError}  BY Zenon, <1>1, ErrorsAreAny, PlainIsAny
<1> QED  BY Zenon, <1>1, <1>2 DEF TellInv, DecisionIsTold, ErrorIsWhole, Agreed

LEMMA RespondTells == TellInv /\ Respond => TellInv'
<1> SUFFICES ASSUME TellInv, Respond PROVE TellInv'  OBVIOUS
<1> DEFINE written(size, packed, minBytes, max) ==
             Write(size, packed, pools.response, minBytes, max)
           r(m) == Reply(200, client.codec, Success,
                         IF ConnectUnary THEN m.by ELSE pools.response, TRUE, m)
<1>1. pools.response \in Agreed /\ decided \in AnyError \cup {NoError}
  BY Zenon DEF TellInv, Respond
<1>2. PICK sendMaxBytes \in Sizes :
        IF decided # NoError THEN CloseWith(decided, pools.response, sendMaxBytes, FALSE)
        ELSE \E size \in Sizes, minBytes \in {0, 2} : \E packed \in Packed(size) :
          IF written(size, packed, minBytes, sendMaxBytes) = {}
          THEN CloseWith(Plain("resource_exhausted"), pools.response, sendMaxBytes, TRUE)
          ELSE \E m \in written(size, packed, minBytes, sendMaxBytes) :
            \/ ~Enveloped /\ Answers(decided, r(m))
            \/ /\ Enveloped
               /\ \E ended \in MarshalEnd(r(m), pools.response, minBytes, sendMaxBytes) :
                    Answers(decided, ended)
  BY Zenon DEF Respond
<1>3. ASSUME decided = NoError, NEW size \in Sizes, NEW minBytes \in {0, 2},
             NEW packed \in Packed(size), NEW m \in written(size, packed, minBytes, sendMaxBytes)
      PROVE  Tells(r(m), decided)
  <2>1. m.by \in {Identity, pools.response}  BY Zenon, WriteIsSound
  <2>2. Identity \in Agreed  BY Zenon DEF Agreed
  <2>3. /\ r(m).status = 200 /\ r(m).media = client.codec /\ r(m).error = Success
        /\ r(m).encoding \in {m.by, pools.response}
    BY Zenon DEF Reply
  <2> HIDE DEF r, written
  <2>4. r(m).encoding \in Agreed  BY Zenon, <1>1, <2>1, <2>2, <2>3
  <2> QED  BY Zenon, <1>3, <2>3, <2>4 DEF Tells
<1> HIDE DEF r, written
<1>4. CASE decided # NoError  BY Zenon, <1>1, <1>2, <1>4, CloseWithTells
<1>5. CASE CloseWith(Plain("resource_exhausted"), pools.response, sendMaxBytes, TRUE)
  BY Zenon, <1>1, <1>5, PlainIsAny, CloseWithTells
<1>6. ASSUME decided = NoError, NEW size \in Sizes, NEW minBytes \in {0, 2},
             NEW packed \in Packed(size), NEW m \in written(size, packed, minBytes, sendMaxBytes),
             \/ Answers(decided, r(m))
             \/ \E ended \in MarshalEnd(r(m), pools.response, minBytes, sendMaxBytes) :
                  Answers(decided, ended)
      PROVE  TellInv'
  <2>1. Tells(r(m), decided)  BY Zenon, <1>3, <1>6
  <2>2. \A ended \in MarshalEnd(r(m), pools.response, minBytes, sendMaxBytes) : Tells(ended, decided)
    BY Zenon, <2>1, MarshalEndTells
  <2> QED  BY Zenon, <1>6, <2>1, <2>2, AnswersTells
<1> QED  BY Zenon, <1>2, <1>4, <1>5, <1>6

\* validateResponse and the end of the response, of a response that tells what was
\* decided.
LEMMA ValidatedIsHeard ==
    ASSUME NEW e, Tells(response, e)
    PROVE  Heard(e, validateResponse)
<1> DEFINE invalid == IF ConnectUnary THEN connectValidateUnaryResponseContentType
                      ELSE IF client.protocol = "connect"
                      THEN connectValidateStreamResponseContentType
                      ELSE grpcValidateResponseContentType
           otherwise == IF ConnectUnary THEN httpToCode(response.status) ELSE "internal"
           v == validateResponse
<1>1. v = IF invalid # {} THEN Plain(CHOOSE code \in invalid : TRUE)
          ELSE IF response.encoding \notin client.compressors \cup {Identity} THEN Plain("internal")
          ELSE EndError(otherwise)
  BY Zenon DEF validateResponse
<1>2. response.encoding \in client.compressors \cup {Identity}  BY Zenon DEF Tells, Agreed
<1> HIDE DEF v, otherwise
<1>3. CASE e = NoError /\ response.status = 200 /\ response.media = client.codec
           /\ response.error = Success
  <2>1. invalid = {}
    BY Zenon, <1>3 DEF connectValidateUnaryResponseContentType,
                connectValidateStreamResponseContentType, grpcValidateResponseContentType
  <2>2. EndError(otherwise) = NoError
    <3>1. response.error.code = 0 /\ response.error.text = NoText  BY <1>3 DEF Success
    <3>2. grpcErrorForTrailer(response.error) = NoError  BY Zenon, <3>1 DEF grpcErrorForTrailer
    <3> QED  BY Zenon, <3>1, <3>2 DEF EndError
  <2>3. v = NoError  BY Zenon, <1>1, <1>2, <2>1, <2>2
  <2>4. NoError.code = -1 /\ DOMAIN NoError.details = {}  BY DEF NoError, Coded
  <2>5. Heard(e, v)
    <3> HIDE DEF invalid
    <3> QED  BY <1>3, <2>3, <2>4 DEF Heard
  <2> QED  BY Zenon, <2>5 DEF v
<1>4. CASE /\ e \in AnyError /\ response.error \in Encoded(e, FALSE)
           /\ IF ConnectUnary
              THEN response.status = connectCodeToHTTP(Code(e)) /\ response.media = "json"
              ELSE response.status = 200 /\ response.media = client.codec
  <2>1. invalid = {}
    BY <1>4, StatusIsAnError
       DEF connectValidateUnaryResponseContentType,
           connectValidateStreamResponseContentType, grpcValidateResponseContentType
  <2>2. v = EndError(otherwise)  BY Zenon, <1>1, <1>2, <2>1
  <2> QED  BY Zenon, <1>4, <2>2, EncodedIsHeard DEF v
<1>5. CASE e = Plain("unimplemented") /\ response.status = 404 /\ response.media = "plain"
  <2>1. httpToCode(404) = "unimplemented"  BY DEF httpToCode
  <2>2. invalid = {"unimplemented"}
    BY <1>5, <2>1
       DEF connectValidateUnaryResponseContentType,
           connectValidateStreamResponseContentType, grpcValidateResponseContentType
  <2> HIDE DEF invalid
  <2>3. v = e  BY Zenon, <1>1, <1>5, <2>2
  <2>4. e.code = 12 /\ e.message = <<>> /\ e.details = <<>> /\ DOMAIN e.details = {}
    BY <1>5, CodesAreNamed DEF Plain, Coded
  <2>5. Heard(e, v)  BY <2>3, <2>4 DEF Heard
  <2> QED  BY <2>5 DEF v
<1> QED  BY Zenon, <1>3, <1>4, <1>5 DEF Tells

\* What was heard, or withheld, is what the properties ask for.
LEMMA HeardTells ==
    ASSUME TellInv, pc' = "done", UNCHANGED config, decided' = decided, NEW v, verdict' = v,
           decided = Nothing \/ Withheld' \/ Heard(decided, v)
    PROVE  TellInv'
<1>1. client' = client /\ streamType' = streamType  BY Zenon DEF config
<1>2. DecisionIsTold'
  BY Zenon, <1>1 DEF Heard, DecisionIsTold
<1>3. ErrorIsWhole'
  BY Zenon, <1>1 DEF Heard, ErrorIsWhole
<1> QED  BY Zenon, <1>1, <1>2, <1>3 DEF TellInv

\* A message that could not be read was too large.
LEMMA UnreadIsWithheld ==
    ASSUME NEW m, Sound(m), NEW limit, NEW got, Whole(m, limit, got), got < 0,
           taken' = Take(m, limit, got), verdict' = Unread(got)
    PROVE  Withheld'
<1>1. got = Refused  BY MaxIntAssumption DEF Whole, Sound, Sizes
<1> QED  BY Zenon, <1>1 DEF Withheld, Take, Unread

LEMMA ReceiveTells == IInv /\ TellInv /\ Receive => TellInv'
<1> SUFFICES ASSUME IInv, TellInv, Receive PROVE TellInv'  OBVIOUS
<1> DEFINE got(limit) == IF ConnectUnary
                         THEN UnmarshalFunc(response.msg, response.encoding, limit)
                         ELSE Unmarshal(response.msg, response.encoding, limit)
           ended(limit) == Unmarshal(response.end, response.encoding, limit)
<1>1. PICK limit \in Sizes :
        \/ /\ got(limit) < 0
           /\ taken' = Take(response.msg, limit, got(limit)) /\ verdict' = Unread(got(limit))
        \/ response.ends = "missing" /\ verdict' = Plain("internal")
        \/ /\ ended(limit) < 0
           /\ taken' = Take(response.end, limit, ended(limit)) /\ verdict' = Unread(ended(limit))
        \/ verdict' = validateResponse
  BY Zenon DEF Receive
<1>2. /\ pc = "receive" /\ pc' = "done" /\ UNCHANGED config /\ decided' = decided
      /\ response' = response
  BY Zenon DEF Receive
<1>3. CarriesBoth(response)  BY Zenon, <1>2 DEF IInv
<1>4. Whole(response.msg, limit, got(limit)) /\ Sound(response.msg)
  BY Zenon, <1>3, CarriedIsWhole DEF CarriesBoth, Carries
<1>5. Whole(response.end, limit, ended(limit)) /\ Sound(response.end)
  BY <1>3, UnmarshalIsWhole DEF CarriesBoth
<1> HIDE DEF got, ended
<1>6. CASE got(limit) < 0 /\ taken' = Take(response.msg, limit, got(limit))
           /\ verdict' = Unread(got(limit))
  <2>1. Withheld'  BY Zenon, <1>4, <1>6, UnreadIsWithheld
  <2> QED  BY Zenon, <1>2, <2>1, HeardTells
<1>7. CASE response.ends = "missing" /\ verdict' = Plain("internal")
  <2>1. Withheld'  BY Zenon, <1>2, <1>7 DEF Withheld
  <2> QED  BY <1>2, <2>1, HeardTells
<1>8. CASE ended(limit) < 0 /\ taken' = Take(response.end, limit, ended(limit))
           /\ verdict' = Unread(ended(limit))
  <2>1. Withheld'  BY Zenon, <1>5, <1>8, UnreadIsWithheld
  <2> QED  BY <1>2, <2>1, HeardTells
<1>9. CASE verdict' = validateResponse
  <2>1. decided = Nothing \/ Tells(response, decided)  BY Zenon, <1>2 DEF TellInv
  <2>2. decided = Nothing \/ Heard(decided, validateResponse)  BY Zenon, <2>1, ValidatedIsHeard
  <2> QED  BY Zenon, <1>2, <1>9, <2>2, HeardTells
<1> QED  BY Zenon, <1>1, <1>6, <1>7, <1>8, <1>9

LEMMA TellInvHolds == Spec => []TellInv
<1>1. IInv /\ TellInv /\ [Next]_vars => TellInv'
  <2> SUFFICES ASSUME IInv, TellInv, [Next]_vars PROVE TellInv'  BY Zenon
  <2>1. CASE UNCHANGED vars
    <3>1. /\ client' = client /\ streamType' = streamType /\ pc' = pc /\ decided' = decided
          /\ request' = request /\ pools' = pools /\ response' = response /\ taken' = taken
          /\ verdict' = verdict
      BY Zenon, <2>1 DEF vars
    <3>2. Tells(response, decided) => Tells(response, decided)'
      BY <3>1 DEF Tells, Agreed, Encoded, ConnectUnary
    <3>3. DecisionIsTold' /\ ErrorIsWhole'
      BY Zenon, <3>1 DEF TellInv, DecisionIsTold, ErrorIsWhole, Withheld
    <3> QED  BY Zenon, <3>1, <3>2, <3>3 DEF TellInv, Agreed
  <2>2. CASE Next
    BY Zenon, <2>1, <2>2, SendTells, MiddlewareTells, ServeHTTPTells, TakeRequestTells,
       HandleTells, RespondTells, ReceiveTells DEF Next, Finished
  <2> QED  BY <2>1, <2>2
<1> QED  BY <1>1, InitTells, IInvHolds, PTL DEF Spec

\* DecisionIsTold holds of every exchange, for all codecs, compressors and limits and
\* whatever the bytes and the length of messages: through CloseWith, ErrorWriter.Write,
\* the 404 of Mount, and validateResponse, the client has the code that the server
\* decided on, unless a limit kept it back.
THEOREM ClientsAreTold == Spec => []DecisionIsTold
<1>1. TellInv => DecisionIsTold  BY Zenon DEF TellInv
<1> QED  BY <1>1, TellInvHolds, PTL

\* ErrorIsWhole holds of every exchange, for messages of any bytes and any length: the
\* percent encoding, the status message, the spaces that headers lose and JSON return
\* the message and the details of the error to the client.
THEOREM ErrorsArriveWhole == Spec => []ErrorIsWhole
<1>1. TellInv => ErrorIsWhole  BY Zenon DEF TellInv
<1> QED  BY <1>1, TellInvHolds, PTL
=============================================================================
