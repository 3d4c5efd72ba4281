------------------------ MODULE StreamAssemblerProofs ------------------------
(***************************************************************************)
(* Proofs about StreamAssembler, for every magic number, every size of the *)
(* message, the buffer and the reads, and every sequence of writes.        *)
(***************************************************************************)
EXTENDS StreamAssembler, SetInduction, SequenceTheorems, TLAPS

-----------------------------------------------------------------------------
(* Sizes, places in a sequence, and the magic number *)

LEMMA Sizes ==
    /\ Magic \in Seq(Nat) /\ Len(Magic) \in Nat \ {0}
    /\ MessageSizeAt = Len(Magic) + 3
    /\ MessageSize \in Nat /\ Len(Magic) + 4 <= MessageSize
    /\ BufferCap \in Nat /\ ReadMax \in Nat \ {0}
    /\ MessageSize + ReadMax <= BufferCap
BY AssemblerAssumption DEF MessageSizeAt, PayloadAt

LEMMA GoodSize ==
    ASSUME NEW size \in Nat
    PROVE  ~BadSize(size) <=> Len(Magic) + 4 <= size /\ MessageSize <= size
                                /\ size <= BufferCap
BY Sizes DEF BadSize

LEMMA ByteAt ==
    ASSUME NEW s \in Seq(Nat), NEW i \in 1..Len(s) PROVE s[i] \in Nat
OBVIOUS

LEMMA LenType == ASSUME NEW S, NEW s \in Seq(S) PROVE Len(s) \in Nat
OBVIOUS

\* Where the size of a message at place i is, in n bytes.
LEMMA SizeAt ==
    ASSUME NEW i \in Nat \ {0}, NEW n \in Nat, ~(i + MessageSizeAt - 1 > n)
    PROVE  i + MessageSizeAt - 1 \in 1..n
BY Sizes

\* A message holds its own size.
LEMMA SizeInside ==
    ASSUME NEW n \in Nat, Len(Magic) + 4 <= n PROVE MessageSizeAt \in 1..n
BY Sizes

LEMMA DropFacts ==
    ASSUME NEW s \in Seq(Nat), NEW k \in 0..Len(s)
    PROVE  /\ Drop(s, k) \in Seq(Nat) /\ Len(Drop(s, k)) = Len(s) - k
           /\ \A i \in 1..Len(s) - k : Drop(s, k)[i] = s[i + k]
<1>1. \A i \in k + 1..Len(s) : s[i] \in Nat
    OBVIOUS
<1>2. k + 1 \in Int /\ Len(s) \in Int
    OBVIOUS
<1>3. /\ SubSeq(s, k + 1, Len(s)) \in Seq(Nat)
      /\ Len(SubSeq(s, k + 1, Len(s))) =
            IF k + 1 <= Len(s) THEN Len(s) - (k + 1) + 1 ELSE 0
      /\ \A i \in 1..Len(s) - (k + 1) + 1 :
            SubSeq(s, k + 1, Len(s))[i] = s[k + 1 + i - 1]
    BY <1>1, <1>2, SubSeqProperties
<1> HIDE DEF Drop
<1>4. QED
    BY <1>3 DEF Drop

\* A piece of a sequence, position by position.
LEMMA PieceFacts ==
    ASSUME NEW s \in Seq(Nat), NEW i \in 1..Len(s) + 1, NEW n \in i - 1..Len(s)
    PROVE  /\ SubSeq(s, i, n) \in Seq(Nat) /\ Len(SubSeq(s, i, n)) = n - i + 1
           /\ \A j \in 1..n - i + 1 : SubSeq(s, i, n)[j] = s[i + j - 1]
<1>1. \A j \in i..n : s[j] \in Nat
    OBVIOUS
<1>2. i \in Int /\ n \in Int
    OBVIOUS
<1>3. /\ SubSeq(s, i, n) \in Seq(Nat)
      /\ Len(SubSeq(s, i, n)) = IF i <= n THEN n - i + 1 ELSE 0
      /\ \A j \in 1..n - i + 1 : SubSeq(s, i, n)[j] = s[i + j - 1]
    BY <1>1, <1>2, SubSeqProperties
<1>4. QED
    BY <1>3

LEMMA PieceConcat ==
    ASSUME NEW s \in Seq(Nat), NEW i \in 1..Len(s) + 1,
           NEW k \in i - 1..Len(s), NEW n \in k..Len(s)
    PROVE  SubSeq(s, i, k) \o SubSeq(s, k + 1, n) = SubSeq(s, i, n)
BY ConcatAdjacentSubSeq

\* A magic number, byte by byte.
LEMMA MagicBytes ==
    ASSUME NEW s \in Seq(Nat), NEW i \in Nat \ {0}
    PROVE  MagicAt(s, i) <=> /\ i + Len(Magic) - 1 <= Len(s)
                             /\ \A k \in 1..Len(Magic) : s[i + k - 1] = Magic[k]
<1> DEFINE n == i + Len(Magic) - 1
           piece == SubSeq(s, i, n)
<1>1. CASE n <= Len(s)
  <2>1. i \in 1..Len(s) + 1 /\ n \in i - 1..Len(s)
      BY <1>1, Sizes
  <2>2. /\ piece \in Seq(Nat) /\ Len(piece) = Len(Magic)
        /\ \A k \in 1..Len(Magic) : piece[k] = s[i + k - 1]
    <3>1. n - i + 1 = Len(Magic)
        BY Sizes
    <3> HIDE DEF n
    <3>2. /\ piece \in Seq(Nat) /\ Len(piece) = n - i + 1
          /\ \A k \in 1..n - i + 1 : piece[k] = s[i + k - 1]
        BY <2>1, PieceFacts
    <3> HIDE DEF piece
    <3>3. QED
        BY <3>1, <3>2
  <2>3. piece = Magic <=> \A k \in 1..Len(Magic) : piece[k] = Magic[k]
    <3> HIDE DEF piece
    <3>1. QED
        BY <2>2, Sizes, SeqEqual
  <2> HIDE DEF piece
  <2>4. QED
      BY <2>2, <2>3, <1>1 DEF MagicAt, piece
<1>2. CASE ~(n <= Len(s))
    BY <1>2 DEF MagicAt
<1>3. QED
    BY <1>1, <1>2

\* What is left of a sequence after k bytes has the same magic numbers and the
\* same pieces, k places earlier.
LEMMA MagicShift ==
    ASSUME NEW s \in Seq(Nat), NEW k \in 0..Len(s), NEW i \in Nat \ {0}
    PROVE  MagicAt(Drop(s, k), i) <=> MagicAt(s, i + k)
<1>1. MagicAt(Drop(s, k), i) <=>
        /\ i + Len(Magic) - 1 <= Len(s) - k
        /\ \A j \in 1..Len(Magic) : Drop(s, k)[i + j - 1] = Magic[j]
    BY DropFacts, MagicBytes
<1>2. MagicAt(s, i + k) <=>
        /\ i + k + Len(Magic) - 1 <= Len(s)
        /\ \A j \in 1..Len(Magic) : s[i + k + j - 1] = Magic[j]
    BY MagicBytes
<1>3. CASE i + Len(Magic) - 1 <= Len(s) - k
  <2>1. \A j \in 1..Len(Magic) : Drop(s, k)[i + j - 1] = s[i + k + j - 1]
    <3> TAKE j \in 1..Len(Magic)
    <3>1. i + j - 1 \in 1..Len(s) - k
        BY <1>3, Sizes
    <3>2. (i + j - 1) + k = i + k + j - 1
        BY Sizes
    <3>3. QED
        BY <3>1, <3>2, DropFacts
  <2>2. i + k + Len(Magic) - 1 <= Len(s)
      BY <1>3, Sizes
  <2>3. (\A j \in 1..Len(Magic) : Drop(s, k)[i + j - 1] = Magic[j])
            <=> \A j \in 1..Len(Magic) : s[i + k + j - 1] = Magic[j]
      BY <2>1
  <2>4. QED
      BY <1>1, <1>2, <2>2, <2>3, <1>3
<1>4. CASE ~(i + Len(Magic) - 1 <= Len(s) - k)
    BY <1>1, <1>2, <1>4, Sizes
<1>5. QED
    BY <1>3, <1>4

LEMMA PieceShift ==
    ASSUME NEW s \in Seq(Nat), NEW k \in 0..Len(s),
           NEW i \in 1..Len(s) - k + 1, NEW n \in i - 1..Len(s) - k
    PROVE  SubSeq(Drop(s, k), i, n) = SubSeq(s, i + k, n + k)
<1> DEFINE t == Drop(s, k)
           u == SubSeq(t, i, n)
           v == SubSeq(s, i + k, n + k)
<1>1. t \in Seq(Nat) /\ Len(t) = Len(s) - k
      /\ \A j \in 1..Len(s) - k : t[j] = s[j + k]
    BY DropFacts
<1> HIDE DEF t
<1>2. u \in Seq(Nat) /\ Len(u) = n - i + 1
      /\ \A j \in 1..n - i + 1 : u[j] = t[i + j - 1]
  <2>1. t \in Seq(Nat) /\ i \in 1..Len(t) + 1 /\ n \in i - 1..Len(t)
      BY <1>1
  <2>2. QED
      BY <2>1, PieceFacts
<1>3. v \in Seq(Nat) /\ Len(v) = n - i + 1
      /\ \A j \in 1..n - i + 1 : v[j] = s[i + k + j - 1]
  <2>1. i + k \in 1..Len(s) + 1 /\ n + k \in i + k - 1..Len(s)
      OBVIOUS
  <2>2. (n + k) - (i + k) + 1 = n - i + 1
      OBVIOUS
  <2>3. QED
      BY <2>1, <2>2, PieceFacts
<1> HIDE DEF u, v
<1>4. \A j \in 1..n - i + 1 : u[j] = v[j]
  <2> TAKE j \in 1..n - i + 1
  <2>1. i + j - 1 \in 1..Len(s) - k /\ (i + j - 1) + k = i + k + j - 1
      OBVIOUS
  <2>2. QED
      BY <2>1, <1>1, <1>2, <1>3
<1>5. u = v
    BY <1>2, <1>3, <1>4, SeqEqual
<1>6. QED
    BY <1>5 DEF t, u, v

-----------------------------------------------------------------------------
(* The reference Messages(s): its recursion has exactly one solution *)

\* What the reference gives at position i, if g says what it gives further on.
Step(s, g, i) ==
    IF i > Len(s) THEN <<>>
    ELSE IF ~MagicAt(s, i) THEN g[i + 1]
    ELSE IF i + MessageSizeAt - 1 > Len(s) THEN <<>>
    ELSE LET size == s[i + MessageSizeAt - 1]
             m == SubSeq(s, i, i + size - 1)
         IN  IF BadSize(size) THEN g[i + 1]
             ELSE IF i + size - 1 > Len(s) THEN <<>>
             ELSE (IF Decode(m) = "ok" THEN <<m>> ELSE <<>>) \o g[i + size]

From(s) == CHOOSE f : f = [i \in 1..Len(s) + 1 |-> Step(s, f, i)]

LEMMA MessagesIsFrom == \A s : Messages(s) = From(s)[1]
BY DEF Messages, From, Step

\* (The places that the step looks at.)
LEMMA ShiftNumbers ==
    ASSUME NEW ls \in Nat, NEW k \in 0..ls, NEW lt, lt = ls - k,
           NEW i \in 1..lt + 1, NEW m \in Nat
    PROVE  /\ i > lt <=> i + k > ls
           /\ i + m - 1 > lt <=> i + k + m - 1 > ls
           /\ (i + m - 1) + k = i + k + m - 1
           /\ (i + m) + k = i + k + m
           /\ m >= 1 /\ i + m - 1 <= lt => /\ i + m \in i + 1..lt + 1
                                           /\ i + m - 1 \in i - 1..lt
OBVIOUS

\* From place i of s on, g has what h has k places later.
Agree(s, k, g, h, i) == \A j \in i + 1..Len(s) - k + 1 : g[j] = h[j + k]

\* The step looks at later positions only: in what is left of s after k bytes it
\* gives what it gives in s, k places further on.
LEMMA StepShift ==
    ASSUME NEW s \in Seq(Nat), NEW k \in 0..Len(s), NEW g, NEW h,
           NEW i \in 1..Len(s) - k + 1,
           Agree(s, k, g, h, i)
    PROVE  Step(Drop(s, k), g, i) = Step(s, h, i + k)
<1> DEFINE t == Drop(s, k)
           at == i + MessageSizeAt - 1
           size == s[at + k]
<1>1. t \in Seq(Nat) /\ Len(t) = Len(s) - k
      /\ \A j \in 1..Len(s) - k : t[j] = s[j + k]
    BY DropFacts
<1>2. MagicAt(t, i) <=> MagicAt(s, i + k)
    BY MagicShift
<1>3. \A n \in i - 1..Len(s) - k : SubSeq(t, i, n) = SubSeq(s, i + k, n + k)
    BY PieceShift
<1>4. at \in Nat \ {0} /\ (i + k) + MessageSizeAt - 1 = at + k
    BY Sizes
<1>7. /\ i > Len(t) <=> i + k > Len(s)
      /\ at > Len(t) <=> at + k > Len(s)
      /\ \A m \in Nat :
            /\ i + m - 1 > Len(t) <=> i + k + m - 1 > Len(s)
            /\ (i + m - 1) + k = i + k + m - 1
            /\ (i + m) + k = i + k + m
            /\ m >= 1 /\ ~(i + m - 1 > Len(t)) =>
                    /\ i + m \in i + 1..Len(s) - k + 1
                    /\ i + m - 1 \in i - 1..Len(s) - k
  <2>1. /\ Len(s) \in Nat /\ Len(t) = Len(s) - k /\ i \in 1..Len(t) + 1
        /\ MessageSizeAt \in Nat
      BY <1>1, Sizes
  <2> DEFINE ls == Len(s)
             lt == Len(t)
  <2>2. ls \in Nat /\ lt = ls - k /\ k \in 0..ls /\ i \in 1..lt + 1
      BY <2>1
  <2> HIDE DEF ls, lt, t
  <2>3. \A m \in Nat :
            /\ i > lt <=> i + k > ls
            /\ i + m - 1 > lt <=> i + k + m - 1 > ls
            /\ (i + m - 1) + k = i + k + m - 1
            /\ (i + m) + k = i + k + m
            /\ m >= 1 /\ ~(i + m - 1 > lt) =>
                    /\ i + m \in i + 1..ls - k + 1
                    /\ i + m - 1 \in i - 1..ls - k
    <3> TAKE m \in Nat
    <3>1. ~(i + m - 1 > lt) => i + m - 1 <= lt
        BY <2>2
    <3>2. QED
        BY <2>2, <3>1, ShiftNumbers
  <2>4. at + k = i + k + MessageSizeAt - 1
      BY <2>1, <2>3
  <2>5. /\ i > lt <=> i + k > ls
        /\ at > lt <=> at + k > ls
      BY <2>1, <2>3, <2>4
  <2>6. QED
      BY <2>3, <2>5 DEF ls, lt
<1> HIDE DEF t, at
<1> SUFFICES Step(t, g, i) = Step(s, h, i + k)
    BY DEF t
<1>5. CASE i > Len(t)
  <2>1. i + k > Len(s)
      BY <1>5, <1>7
  <2>2. QED
      BY <1>5, <2>1 DEF Step
<1>6. CASE ~(i > Len(t))
  <2>1. g[i + 1] = h[i + k + 1]
    <3>1. i + 1 \in i + 1..Len(s) - k + 1 /\ (i + 1) + k = i + k + 1
        BY <1>6, <1>1
    <3>2. QED
        BY <3>1 DEF Agree
  <2>2. ~(i + k > Len(s)) /\ (at > Len(t) <=> at + k > Len(s))
      BY <1>6, <1>7
  <2>3. CASE ~MagicAt(t, i)
      BY <2>1, <2>2, <2>3, <1>2, <1>6 DEF Step
  <2>4. CASE MagicAt(t, i) /\ at > Len(t)
      BY <2>2, <2>4, <1>2, <1>4, <1>6 DEF Step, at
  <2>5. CASE MagicAt(t, i) /\ ~(at > Len(t))
    <3>1. t[at] = size /\ size \in Nat
      <4>1. at \in 1..Len(t) /\ Len(t) = Len(s) - k /\ t \in Seq(Nat)
          BY <2>5, <1>1, <1>4
      <4>2. t[at] \in Nat
          BY <4>1, ByteAt
      <4>3. at \in 1..Len(s) - k
          BY <4>1
      <4>4. t[at] = s[at + k]
          BY <4>3, <1>1
      <4>5. QED
          BY <4>2, <4>4
    <3> HIDE DEF size
    <3>2. /\ Step(t, g, i) = 
                IF BadSize(size) THEN g[i + 1]
                ELSE IF i + size - 1 > Len(t) THEN <<>>
                ELSE (IF Decode(SubSeq(t, i, i + size - 1)) = "ok"
                      THEN <<SubSeq(t, i, i + size - 1)>> ELSE <<>>)
                            \o g[i + size]
          /\ Step(s, h, i + k) = 
                IF BadSize(size) THEN h[i + k + 1]
                ELSE IF i + k + size - 1 > Len(s) THEN <<>>
                ELSE (IF Decode(SubSeq(s, i + k, i + k + size - 1)) = "ok"
                      THEN <<SubSeq(s, i + k, i + k + size - 1)>> ELSE <<>>)
                            \o h[i + k + size]
      <4>1. ~(i > Len(t)) /\ ~(at > Len(t)) /\ ~(i + k > Len(s))
            /\ ~(at + k > Len(s)) /\ MagicAt(t, i) /\ MagicAt(s, i + k)
          BY <1>2, <1>6, <2>2, <2>5
      <4>2. QED
          BY <4>1, <3>1, <1>4 DEF Step, at, size
    <3>3. CASE BadSize(size)
        BY <3>2, <3>3, <2>1
    <3>4. CASE ~BadSize(size) /\ i + size - 1 > Len(t)
      <4>1. i + k + size - 1 > Len(s)
          BY <3>4, <3>1, <1>7
      <4>2. QED
          BY <3>2, <3>4, <4>1
    <3>5. CASE ~BadSize(size) /\ ~(i + size - 1 > Len(t))
      <4>1. size >= 1
          BY <3>1, <3>5, GoodSize, Sizes
      <4>2. i + size \in i + 1..Len(s) - k + 1
          BY <4>1, <3>5, <1>7, <3>1
      <4>3. g[i + size] = h[i + k + size]
        <5>1. (i + size) + k = i + k + size
            BY <3>1, <1>7
        <5>2. QED
            BY <4>2, <5>1 DEF Agree
      <4>4. SubSeq(t, i, i + size - 1) = SubSeq(s, i + k, i + k + size - 1)
        <5>1. i + size - 1 \in i - 1..Len(s) - k
              /\ (i + size - 1) + k = i + k + size - 1
            BY <3>1, <3>5, <4>1, <1>7
        <5>2. QED
            BY <5>1, <1>3
      <4>5. ~(i + size - 1 > Len(t)) /\ ~(i + k + size - 1 > Len(s))
          BY <3>1, <3>5, <1>7
      <4>6. QED
        <5>1. Step(t, g, i) =
                (IF Decode(SubSeq(t, i, i + size - 1)) = "ok"
                 THEN <<SubSeq(t, i, i + size - 1)>> ELSE <<>>) \o g[i + size]
            BY <3>2, <3>5, <4>5
        <5>2. Step(s, h, i + k) =
                (IF Decode(SubSeq(s, i + k, i + k + size - 1)) = "ok"
                 THEN <<SubSeq(s, i + k, i + k + size - 1)>> ELSE <<>>)
                    \o h[i + k + size]
            BY <3>2, <3>5, <4>5
        <5> DEFINE p == SubSeq(t, i, i + size - 1)
                   q == SubSeq(s, i + k, i + k + size - 1)
                   x == g[i + size]
                   y == h[i + k + size]
        <5>3. p = q /\ x = y
            BY <4>3, <4>4
        <5>4. /\ Step(t, g, i) = (IF Decode(p) = "ok" THEN <<p>> ELSE <<>>) \o x
              /\ Step(s, h, i + k) = (IF Decode(q) = "ok" THEN <<q>> ELSE <<>>) \o y
            BY <5>1, <5>2
        <5> HIDE DEF p, q, x, y
        <5>5. QED
            BY <5>3, <5>4
    <3>6. QED
        BY <3>3, <3>4, <3>5, <3>1, <1>1
  <2>6. QED
      BY <2>3, <2>4, <2>5, <1>1, <1>4
<1>8. QED
    BY <1>5, <1>6, <1>1

LEMMA DropNothing ==
    ASSUME NEW s \in Seq(Nat)
    PROVE  Drop(s, 0) = s
BY SubSeqFull DEF Drop

LEMMA StepIsLocal ==
    ASSUME NEW s \in Seq(Nat), NEW g, NEW h, NEW i \in 1..Len(s) + 1,
           \A j \in i + 1..Len(s) + 1 : g[j] = h[j]
    PROVE  Step(s, g, i) = Step(s, h, i)
<1>1. 0 \in 0..Len(s) /\ i \in 1..Len(s) - 0 + 1 /\ i + 0 = i
    OBVIOUS
<1>2. Agree(s, 0, g, h, i)
    BY DEF Agree
<1>3. Step(Drop(s, 0), g, i) = Step(s, h, i + 0)
    BY <1>1, <1>2, StepShift
<1>4. QED
    BY <1>1, <1>3, DropNothing

\* The recursion has a solution: solutions on ever longer ends of the positions.
LEMMA FromExists ==
    ASSUME NEW s \in Seq(Nat)
    PROVE  \E f : f = [i \in 1..Len(s) + 1 |-> Step(s, f, i)]
<1> DEFINE N == Len(s) + 1
           T == {n \in Nat : \E f : f = [i \in N - n..N |-> Step(s, f, i)]}
<1>1. 0 \in T
  <2> DEFINE f == [i \in N - 0..N |-> <<>>]
  <2>1. \A i \in N - 0..N : Step(s, f, i) = <<>>
      BY DEF Step
  <2>2. f = [i \in N - 0..N |-> Step(s, f, i)]
    <3> HIDE DEF N
    <3>1. QED
        BY <2>1
  <2> HIDE DEF f
  <2>3. QED
      BY <2>2
<1>2. ASSUME NEW n \in 0..Len(s) - 1, n \in T PROVE n + 1 \in T
  <2>1. PICK f : f = [i \in N - n..N |-> Step(s, f, i)]
      BY <1>2
  <2> DEFINE low == N - (n + 1)
             g == [i \in low..N |-> IF i = low THEN Step(s, f, low) ELSE f[i]]
  <2>2. \A i \in low..N : Step(s, f, i) = Step(s, g, i)
    <3> TAKE i \in low..N
    <3>1. i \in 1..Len(s) + 1
        BY <1>2
    <3>2. \A j \in i + 1..Len(s) + 1 : f[j] = g[j]
        OBVIOUS
    <3> HIDE DEF g, low, N
    <3>3. QED
        BY <3>1, <3>2, StepIsLocal
  <2>3. \A i \in low..N : g[i] = Step(s, f, i)
    <3> TAKE i \in low..N
    <3>1. CASE i = low
        BY <3>1
    <3>2. CASE i # low
      <4>1. i \in N - n..N
          BY <3>2
      <4>2. f[i] = Step(s, f, i)
          BY <2>1, <4>1
      <4>3. g[i] = f[i]
          BY <3>2
      <4>4. QED
          BY <4>2, <4>3
    <3>3. QED
        BY <3>1, <3>2
  <2>4. g = [i \in low..N |-> g[i]]
      OBVIOUS
  <2> HIDE DEF g
  <2>5. g = [i \in low..N |-> Step(s, g, i)]
    <3> HIDE DEF low, N
    <3>1. QED
        BY <2>2, <2>3, <2>4
  <2>6. QED
      BY <2>5
<1>3. \A n \in 0..Len(s) : n \in T
  <2> HIDE DEF T
  <2>1. Len(s) \in Nat
      OBVIOUS
  <2>2. QED
      BY <1>1, <1>2, <2>1, BoundedInduction
<1>4. Len(s) \in T /\ N - Len(s) = 1
    BY <1>3
<1>5. QED
    BY <1>4

LEMMA StepType ==
    ASSUME NEW s \in Seq(Nat), NEW g, NEW i \in 1..Len(s) + 1,
           \A j \in i + 1..Len(s) + 1 : g[j] \in Seq(Seq(Nat))
    PROVE  Step(s, g, i) \in Seq(Seq(Nat))
<1>1. <<>> \in Seq(Seq(Nat))
    OBVIOUS
<1>2. CASE ~(i > Len(s))
  <2> DEFINE at == i + MessageSizeAt - 1
             size == s[at]
             m == SubSeq(s, i, i + size - 1)
             ok == IF Decode(m) = "ok" THEN <<m>> ELSE <<>>
  <2>1. g[i + 1] \in Seq(Seq(Nat))
      BY <1>2
  <2>2. CASE ~MagicAt(s, i)
      BY <2>1, <2>2, <1>2 DEF Step
  <2>3. CASE MagicAt(s, i) /\ at > Len(s)
      BY <2>3, <1>2, <1>1 DEF Step
  <2>4. CASE MagicAt(s, i) /\ ~(at > Len(s))
    <3>1. size \in Nat
      <4>1. i \in Nat \ {0} /\ Len(s) \in Nat
          BY LenType
      <4>2. at \in 1..Len(s)
          BY <4>1, <2>4, SizeAt
      <4> HIDE DEF at
      <4>3. QED
          BY <4>2, ByteAt
    <3> HIDE DEF size
    <3>2. Step(s, g, i) = IF BadSize(size) THEN g[i + 1]
                          ELSE IF i + size - 1 > Len(s) THEN <<>>
                          ELSE ok \o g[i + size]
      <4>1. ~(i > Len(s)) /\ ~(at > Len(s)) /\ MagicAt(s, i)
          BY <2>4, <1>2
      <4>2. Step(s, g, i) =
                IF BadSize(size) THEN g[i + 1]
                ELSE IF i + size - 1 > Len(s) THEN <<>>
                ELSE (IF Decode(SubSeq(s, i, i + size - 1)) = "ok"
                      THEN <<SubSeq(s, i, i + size - 1)>> ELSE <<>>)
                            \o g[i + size]
          BY <4>1 DEF Step, size
      <4>3. QED
          BY <4>2
    <3>3. CASE BadSize(size)
        BY <3>2, <3>3, <2>1
    <3>4. CASE ~BadSize(size) /\ i + size - 1 > Len(s)
        BY <3>2, <3>4, <1>1
    <3>5. CASE ~BadSize(size) /\ i + size - 1 <= Len(s)
      <4>1. i + size \in i + 1..Len(s) + 1
          BY <3>1, <3>5, GoodSize, Sizes
      <4>2. g[i + size] \in Seq(Seq(Nat))
          BY <4>1
      <4>3. i \in 1..Len(s) + 1 /\ i + size - 1 \in i - 1..Len(s)
          BY <4>1, <3>1
      <4>4. m \in Seq(Nat)
          BY <4>3, PieceFacts
      <4> HIDE DEF m
      <4>5. ok \in Seq(Seq(Nat))
          BY <4>4
      <4> HIDE DEF ok
      <4>6. ok \o g[i + size] \in Seq(Seq(Nat))
          BY <4>2, <4>5, ConcatProperties
      <4>7. QED
          BY <3>2, <3>5, <4>6
    <3>6. QED
        BY <3>3, <3>4, <3>5, <3>1
  <2>5. QED
      BY <2>2, <2>3, <2>4, Sizes
<1>3. CASE i > Len(s)
    BY <1>3, <1>1 DEF Step
<1>4. QED
    BY <1>2, <1>3

LEMMA FromFacts ==
    ASSUME NEW s \in Seq(Nat)
    PROVE  \A i \in 1..Len(s) + 1 : /\ From(s)[i] = Step(s, From(s), i)
                                    /\ From(s)[i] \in Seq(Seq(Nat))
<1>1. From(s) = [i \in 1..Len(s) + 1 |-> Step(s, From(s), i)]
    BY FromExists DEF From
<1>2. \A i \in 1..Len(s) + 1 : From(s)[i] = Step(s, From(s), i)
    BY <1>1
<1> DEFINE T == {n \in Nat : n <= Len(s) =>
                                From(s)[Len(s) + 1 - n] \in Seq(Seq(Nat))}
<1>3. ASSUME NEW n \in Nat, \A m \in 0..n - 1 : m \in T PROVE n \in T
  <2> SUFFICES ASSUME n <= Len(s)
               PROVE  From(s)[Len(s) + 1 - n] \in Seq(Seq(Nat))
      OBVIOUS
  <2> DEFINE i == Len(s) + 1 - n
  <2>1. i \in 1..Len(s) + 1
      OBVIOUS
  <2>2. \A j \in i + 1..Len(s) + 1 : From(s)[j] \in Seq(Seq(Nat))
    <3> TAKE j \in i + 1..Len(s) + 1
    <3>1. Len(s) + 1 - j \in 0..n - 1 /\ Len(s) + 1 - j <= Len(s)
          /\ Len(s) + 1 - (Len(s) + 1 - j) = j
        OBVIOUS
    <3>2. QED
        BY <3>1, <1>3
  <2> HIDE DEF i
  <2>3. From(s)[i] \in Seq(Seq(Nat))
      BY <2>1, <2>2, <1>2, StepType
  <2>4. QED
      BY <2>3 DEF i
<1>4. \A n \in Nat : n \in T
  <2> HIDE DEF T
  <2>1. QED
      BY <1>3, StrongInduction
<1>5. \A i \in 1..Len(s) + 1 : From(s)[i] \in Seq(Seq(Nat))
  <2> TAKE i \in 1..Len(s) + 1
  <2>1. Len(s) + 1 - i \in Nat /\ Len(s) + 1 - i <= Len(s)
        /\ Len(s) + 1 - (Len(s) + 1 - i) = i
      OBVIOUS
  <2>2. QED
      BY <2>1, <1>4
<1>6. QED
    BY <1>2, <1>5

\* What the reference reads from a position on does not depend on what precedes.
LEMMA FromShift ==
    ASSUME NEW s \in Seq(Nat), NEW k \in 0..Len(s)
    PROVE  \A i \in 1..Len(s) - k + 1 : From(Drop(s, k))[i] = From(s)[i + k]
<1> DEFINE t == Drop(s, k)
           N == Len(s) - k + 1
           T == {n \in Nat : n < N => From(t)[N - n] = From(s)[N - n + k]}
<1>1. t \in Seq(Nat) /\ Len(t) + 1 = N /\ N \in Nat \ {0}
    BY DropFacts
<1>2. ASSUME NEW n \in Nat, \A m \in 0..n - 1 : m \in T PROVE n \in T
  <2> SUFFICES ASSUME n < N PROVE From(t)[N - n] = From(s)[N - n + k]
      OBVIOUS
  <2> DEFINE i == N - n
  <2>1. i \in 1..Len(s) - k + 1 /\ i \in 1..Len(t) + 1 /\ i + k \in 1..Len(s) + 1
      BY <1>1
  <2>2. \A j \in i + 1..Len(s) - k + 1 : From(t)[j] = From(s)[j + k]
    <3> TAKE j \in i + 1..Len(s) - k + 1
    <3>1. N - j \in 0..n - 1 /\ N - j < N /\ N - (N - j) = j
        BY <2>1
    <3>2. QED
        BY <3>1, <1>2
  <2>3. Step(t, From(t), i) = Step(s, From(s), i + k)
    <3> DEFINE g == From(t)
               h == From(s)
    <3>1. i \in 1..Len(s) - k + 1 /\ Agree(s, k, g, h, i)
        BY <2>1, <2>2, Zenon DEF Agree
    <3> HIDE DEF i, N, T, g, h
    <3>2. Step(Drop(s, k), g, i) = Step(s, h, i + k)
        BY <3>1, StepShift
    <3>3. QED
        BY <3>2, Zenon DEF g, h
  <2> HIDE DEF i, t
  <2>4. From(t)[i] = From(s)[i + k]
      BY <2>1, <2>3, <1>1, FromFacts
  <2>5. QED
      BY <2>4 DEF i
<1>3. \A n \in Nat : n \in T
  <2> HIDE DEF T
  <2>1. QED
      BY <1>2, StrongInduction
<1>4. SUFFICES ASSUME NEW i \in 1..N PROVE From(t)[i] = From(s)[i + k]
    OBVIOUS
<1>5. N - i \in Nat /\ N - i < N /\ N - (N - i) = i
    BY <1>1
<1> HIDE DEF t, N
<1>6. QED
    BY <1>3, <1>5

-----------------------------------------------------------------------------
(* The equations of the reference, one for each way the loop can go *)

LEMMA MessagesType ==
    ASSUME NEW s \in Seq(Nat)
    PROVE  Messages(s) \in Seq(Seq(Nat))
<1>1. 1 \in 1..Len(s) + 1
    OBVIOUS
<1>2. QED
    BY <1>1, FromFacts, MessagesIsFrom

LEMMA MessagesOfRest ==
    ASSUME NEW s \in Seq(Nat), NEW k \in 0..Len(s)
    PROVE  Messages(Drop(s, k)) = From(s)[k + 1]
<1>1. 1 \in 1..Len(s) - k + 1 /\ 1 + k = k + 1
    OBVIOUS
<1>2. From(Drop(s, k))[1] = From(s)[1 + k]
    BY <1>1, FromShift
<1>3. QED
    BY <1>1, <1>2, MessagesIsFrom

\* Bytes in front of the first magic number say nothing.
LEMMA SkipNoise ==
    ASSUME NEW s \in Seq(Nat), NEW k \in 0..Len(s),
           \A j \in 1..k : ~MagicAt(s, j)
    PROVE  Messages(s) = Messages(Drop(s, k))
<1> DEFINE T == {n \in Nat : From(s)[n + 1] = From(s)[1]}
<1>1. 0 \in T
    OBVIOUS
<1>2. ASSUME NEW n \in 0..k - 1, n \in T PROVE n + 1 \in T
  <2>1. n + 1 \in 1..Len(s) + 1 /\ n + 1 <= Len(s) /\ ~MagicAt(s, n + 1)
        /\ n + 1 + 1 = n + 2
      OBVIOUS
  <2>2. From(s)[n + 1] = From(s)[n + 1 + 1]
    <3>1. From(s)[n + 1] = Step(s, From(s), n + 1)
        BY <2>1, FromFacts
    <3>2. QED
        BY <3>1, <2>1 DEF Step
  <2>3. QED
      BY <2>2, <1>2
<1>3. k \in T
  <2> HIDE DEF T
  <2>1. k \in Nat /\ k \in 0..k
      OBVIOUS
  <2>2. QED
      BY <1>1, <1>2, <2>1, BoundedInduction
<1>4. QED
    BY <1>3, MessagesOfRest, MessagesIsFrom

\* Too few bytes for a magic number hold no message.
LEMMA TooShort ==
    ASSUME NEW s \in Seq(Nat), Len(s) < Len(Magic)
    PROVE  Messages(s) = <<>>
<1>1. \A j \in 1..Len(s) : ~MagicAt(s, j)
    BY Sizes DEF MagicAt
<1>2. Len(s) \in 0..Len(s) /\ Len(s) + 1 \in 1..Len(s) + 1 /\ Len(s) + 1 > Len(s)
    OBVIOUS
<1>3. Messages(s) = From(s)[Len(s) + 1]
    BY <1>1, <1>2, SkipNoise, MessagesOfRest
<1>4. From(s)[Len(s) + 1] = Step(s, From(s), Len(s) + 1)
    BY <1>2, FromFacts
<1>5. Step(s, From(s), Len(s) + 1) = <<>>
    BY <1>2 DEF Step
<1>6. QED
    BY <1>3, <1>4, <1>5

\* At a magic number the header decides.
LEMMA AtMagic ==
    ASSUME NEW s \in Seq(Nat), MagicAt(s, 1)
    PROVE  /\ Len(s) < MessageSizeAt => Messages(s) = <<>>
           /\ Len(s) >= MessageSizeAt =>
                LET size == s[MessageSizeAt]
                    m == SubSeq(s, 1, size)
                IN  /\ size \in Nat
                    /\ BadSize(size) => Messages(s) = Messages(Drop(s, 1))
                    /\ ~BadSize(size) /\ Len(s) < size => Messages(s) = <<>>
                    /\ ~BadSize(size) /\ Len(s) >= size =>
                        Messages(s) = (IF Decode(m) = "ok" THEN <<m>> ELSE <<>>)
                                        \o Messages(Drop(s, size))
<1>1. Len(s) >= 1 /\ 1 \in 1..Len(s) + 1 /\ 1 \in 0..Len(s) /\ ~(1 > Len(s))
    BY Sizes DEF MagicAt
<1>2. 1 + MessageSizeAt - 1 = MessageSizeAt
    BY Sizes
<1>3. Messages(s) = Step(s, From(s), 1)
    BY <1>1, FromFacts, MessagesIsFrom
<1>4. Messages(Drop(s, 1)) = From(s)[1 + 1]
    BY <1>1, MessagesOfRest
<1>5. ASSUME Len(s) < MessageSizeAt PROVE Messages(s) = <<>>
  <2>1. MessageSizeAt > Len(s)
      BY <1>5, Sizes
  <2>2. QED
      BY <2>1, <1>1, <1>2, <1>3 DEF Step
<1>6. ASSUME Len(s) >= MessageSizeAt
      PROVE  LET size == s[MessageSizeAt]
                 m == SubSeq(s, 1, size)
             IN  /\ size \in Nat
                 /\ BadSize(size) => Messages(s) = Messages(Drop(s, 1))
                 /\ ~BadSize(size) /\ Len(s) < size => Messages(s) = <<>>
                 /\ ~BadSize(size) /\ Len(s) >= size =>
                        Messages(s) = (IF Decode(m) = "ok" THEN <<m>> ELSE <<>>)
                                        \o Messages(Drop(s, size))
  <2> DEFINE size == s[MessageSizeAt]
             m == SubSeq(s, 1, size)
  <2>1. size \in Nat /\ ~(MessageSizeAt > Len(s))
      BY <1>6, Sizes
  <2>2. 1 + size - 1 = size /\ 1 + size = size + 1
      BY <2>1
  <2> HIDE DEF size
  <2>3. Messages(s) =
            IF BadSize(size) THEN From(s)[1 + 1]
            ELSE IF 1 + size - 1 > Len(s) THEN <<>>
            ELSE (IF Decode(SubSeq(s, 1, 1 + size - 1)) = "ok"
                  THEN <<SubSeq(s, 1, 1 + size - 1)>> ELSE <<>>)
                        \o From(s)[1 + size]
      BY <1>1, <1>2, <1>3, <2>1 DEF Step, size
  <2>4. Messages(s) =
            IF BadSize(size) THEN From(s)[1 + 1]
            ELSE IF size > Len(s) THEN <<>>
            ELSE (IF Decode(m) = "ok" THEN <<m>> ELSE <<>>) \o From(s)[size + 1]
      BY <2>2, <2>3
  <2>5. ASSUME ~BadSize(size), Len(s) >= size
        PROVE  Messages(s) = (IF Decode(m) = "ok" THEN <<m>> ELSE <<>>)
                                \o Messages(Drop(s, size))
    <3>1. size \in 0..Len(s) /\ ~(size > Len(s))
        BY <2>1, <2>5
    <3>2. Messages(Drop(s, size)) = From(s)[size + 1]
        BY <3>1, MessagesOfRest
    <3> HIDE DEF m
    <3>3. QED
        BY <3>1, <3>2, <2>4, <2>5
  <2>6. ASSUME ~BadSize(size), Len(s) < size PROVE Messages(s) = <<>>
    <3>1. size > Len(s)
        BY <2>1, <2>6
    <3>2. QED
        BY <3>1, <2>4, <2>6
  <2>7. BadSize(size) => Messages(s) = Messages(Drop(s, 1))
      BY <2>4, <1>4
  <2> HIDE DEF m
  <2>8. QED
      BY <2>1, <2>5, <2>6, <2>7 DEF size, m
<1>7. QED
    BY <1>5, <1>6

-----------------------------------------------------------------------------
(* Bytes that follow *)

LEMMA ConcatFacts ==
    ASSUME NEW b \in Seq(Nat), NEW x \in Seq(Nat)
    PROVE  /\ b \o x \in Seq(Nat) /\ Len(b \o x) = Len(b) + Len(x)
           /\ \A i \in 1..Len(b) : (b \o x)[i] = b[i]
           /\ \A i \in 1..Len(x) : (b \o x)[Len(b) + i] = x[i]
           /\ \A i \in Len(b) + 1..Len(b) + Len(x) : (b \o x)[i] = x[i - Len(b)]
<1>1. b \o x \in Seq(Nat) /\ Len(b \o x) = Len(b) + Len(x)
      /\ \A i \in 1..Len(b) + Len(x) :
            (b \o x)[i] = IF i <= Len(b) THEN b[i] ELSE x[i - Len(b)]
    BY ConcatProperties
<1>2. \A i \in 1..Len(x) : (b \o x)[Len(b) + i] = x[i]
  <2> TAKE i \in 1..Len(x)
  <2>1. Len(b) + i \in 1..Len(b) + Len(x) /\ ~(Len(b) + i <= Len(b))
        /\ Len(b) + i - Len(b) = i
      OBVIOUS
  <2>2. QED
      BY <2>1, <1>1
<1>3. QED
    BY <1>1, <1>2

LEMMA Regroup ==
    ASSUME NEW u \in Seq(Seq(Nat)), NEW v \in Seq(Seq(Nat)),
           NEW w \in Seq(Seq(Nat))
    PROVE  (u \o v) \o w = u \o (v \o w)
OBVIOUS

LEMMA RegroupBytes ==
    ASSUME NEW u \in Seq(Nat), NEW v \in Seq(Nat), NEW w \in Seq(Nat)
    PROVE  (u \o v) \o w = u \o (v \o w)
OBVIOUS

LEMMA ConcatDrop ==
    ASSUME NEW b \in Seq(Nat), NEW x \in Seq(Nat), NEW k \in 0..Len(b)
    PROVE  Drop(b \o x, k) = Drop(b, k) \o x
<1> DEFINE bx == b \o x
           u == Drop(bx, k)
           d == Drop(b, k)
           v == d \o x
<1>1. bx \in Seq(Nat) /\ Len(bx) = Len(b) + Len(x)
      /\ (\A i \in 1..Len(b) : bx[i] = b[i])
      /\ \A i \in Len(b) + 1..Len(b) + Len(x) : bx[i] = x[i - Len(b)]
    BY ConcatFacts
<1>2. k \in 0..Len(bx)
    BY <1>1
<1> HIDE DEF bx
<1>3. u \in Seq(Nat) /\ Len(u) = Len(b) + Len(x) - k
      /\ \A i \in 1..Len(b) + Len(x) - k : u[i] = bx[i + k]
  <2>1. u \in Seq(Nat) /\ Len(u) = Len(bx) - k
        /\ \A i \in 1..Len(bx) - k : u[i] = bx[i + k]
      BY <1>1, <1>2, DropFacts
  <2>2. QED
      BY <2>1, <1>1
<1>4. d \in Seq(Nat) /\ Len(d) = Len(b) - k
      /\ \A i \in 1..Len(b) - k : d[i] = b[i + k]
    BY DropFacts
<1> HIDE DEF u, d
<1>5. v \in Seq(Nat) /\ Len(v) = Len(b) - k + Len(x)
      /\ (\A i \in 1..Len(d) : v[i] = d[i])
      /\ \A i \in Len(d) + 1..Len(d) + Len(x) : v[i] = x[i - Len(d)]
    BY <1>4, ConcatFacts
<1> HIDE DEF v
<1>6. Len(d) = Len(b) - k /\ Len(u) = Len(d) + Len(x) /\ Len(v) = Len(u)
      /\ Len(b) \in Nat /\ Len(x) \in Nat
    BY <1>3, <1>4, <1>5
<1>7. \A i \in 1..Len(u) : u[i] = v[i]
  <2> TAKE i \in 1..Len(u)
  <2>1. CASE i <= Len(d)
    <3>1. i \in 1..Len(b) - k /\ i + k \in 1..Len(b)
        BY <2>1, <1>4
    <3>2. u[i] = b[i + k]
        BY <3>1, <1>3, <1>1
    <3>3. v[i] = b[i + k]
        BY <3>1, <1>4, <1>5
    <3>4. QED
        BY <3>2, <3>3
  <2>2. CASE i > Len(d)
    <3>1. i + k \in Len(b) + 1..Len(b) + Len(x) /\ i + k - Len(b) = i - Len(d)
          /\ i \in Len(d) + 1..Len(d) + Len(x)
        BY <2>2, <1>6
    <3>2. u[i] = x[i + k - Len(b)]
        BY <3>1, <1>3, <1>1
    <3>3. v[i] = x[i - Len(d)]
        BY <3>1, <1>5
    <3>4. QED
        BY <3>1, <3>2, <3>3
  <2>3. QED
      BY <2>1, <2>2, <1>4
<1>8. u = v
    BY <1>3, <1>5, <1>6, <1>7, SeqEqual
<1>9. QED
    BY <1>8 DEF u, v, d, bx

LEMMA ConcatPiece ==
    ASSUME NEW b \in Seq(Nat), NEW x \in Seq(Nat), NEW n \in 0..Len(b)
    PROVE  SubSeq(b \o x, 1, n) = SubSeq(b, 1, n)
<1> DEFINE bx == b \o x
           u == SubSeq(bx, 1, n)
           v == SubSeq(b, 1, n)
<1>1. bx \in Seq(Nat) /\ Len(bx) = Len(b) + Len(x)
      /\ (\A i \in 1..Len(b) : bx[i] = b[i])
    BY ConcatFacts
<1> HIDE DEF bx
<1>2. 1 \in 1..Len(bx) + 1 /\ n \in 1 - 1..Len(bx) /\ 1 \in 1..Len(b) + 1
      /\ n \in 1 - 1..Len(b) /\ n - 1 + 1 = n
    BY <1>1
<1>3. u \in Seq(Nat) /\ Len(u) = n /\ \A j \in 1..n : u[j] = bx[1 + j - 1]
    BY <1>1, <1>2, PieceFacts
<1>4. v \in Seq(Nat) /\ Len(v) = n /\ \A j \in 1..n : v[j] = b[1 + j - 1]
    BY <1>2, PieceFacts
<1> HIDE DEF u, v
<1>5. \A j \in 1..n : u[j] = v[j]
  <2> TAKE j \in 1..n
  <2>1. 1 + j - 1 \in 1..Len(b)
      OBVIOUS
  <2>2. QED
      BY <2>1, <1>1, <1>3, <1>4
<1>6. u = v
    BY <1>3, <1>4, <1>5, SeqEqual
<1>7. QED
    BY <1>6 DEF u, v, bx

\* A magic number within the first bytes is there whatever follows.
LEMMA ConcatMagic ==
    ASSUME NEW b \in Seq(Nat), NEW x \in Seq(Nat), NEW i \in Nat \ {0},
           i + Len(Magic) - 1 <= Len(b)
    PROVE  MagicAt(b \o x, i) <=> MagicAt(b, i)
<1> DEFINE bx == b \o x
<1>1. bx \in Seq(Nat) /\ Len(bx) = Len(b) + Len(x)
      /\ (\A j \in 1..Len(b) : bx[j] = b[j])
    BY ConcatFacts
<1> HIDE DEF bx
<1>2. \A k \in 1..Len(Magic) : bx[i + k - 1] = b[i + k - 1]
  <2> TAKE k \in 1..Len(Magic)
  <2>1. i + k - 1 \in 1..Len(b)
      BY Sizes
  <2>2. QED
      BY <2>1, <1>1
<1>3. MagicAt(bx, i) <=> \A k \in 1..Len(Magic) : bx[i + k - 1] = Magic[k]
  <2>1. i + Len(Magic) - 1 <= Len(bx)
      BY <1>1, Sizes
  <2>2. QED
      BY <2>1, <1>1, MagicBytes
<1>4. MagicAt(b, i) <=> \A k \in 1..Len(Magic) : b[i + k - 1] = Magic[k]
    BY MagicBytes
<1>5. MagicAt(bx, i) <=> MagicAt(b, i)
    BY <1>2, <1>3, <1>4
<1>6. QED
    BY <1>5 DEF bx

\* The first magic number, where the loop looks for it.
LEMMA FindMagicFacts ==
    ASSUME NEW s \in Seq(Nat)
    PROVE  /\ FindMagic(s, 1) \in 0..Len(s)
           /\ FindMagic(s, 1) = 0 => \A i \in 1..Len(s) : ~MagicAt(s, i)
           /\ FindMagic(s, 1) > 0 =>
                /\ MagicAt(s, FindMagic(s, 1))
                /\ \A i \in 1..FindMagic(s, 1) - 1 : ~MagicAt(s, i)
<1> DEFINE At == {i \in 1..Len(s) : MagicAt(s, i)}
           First(j) == MagicAt(s, j) /\ \A k \in 1..j - 1 : ~MagicAt(s, k)
<1>1. CASE \A i \in 1..Len(s) : ~MagicAt(s, i)
    BY <1>1 DEF FindMagic
<1>2. CASE \E i \in 1..Len(s) : MagicAt(s, i)
  <2>1. \E j \in 1..Len(s) : First(j)
    <3>1. At \in SUBSET Nat /\ At # {}
        BY <1>2
    <3>2. PICK j \in At : \A i \in At : j <= i
        BY <3>1, HasSmallest
    <3>3. \A k \in 1..j - 1 : ~MagicAt(s, k)
        BY <3>2
    <3>4. QED
        BY <3>2, <3>3
  <2>2. FindMagic(s, 1) = CHOOSE j \in 1..Len(s) : First(j)
      BY <1>2 DEF FindMagic
  <2> HIDE DEF First
  <2>3. FindMagic(s, 1) \in 1..Len(s) /\ First(FindMagic(s, 1))
      BY <2>1, <2>2
  <2>4. QED
      BY <2>3 DEF First
<1>3. QED
    BY <1>1, <1>2

-----------------------------------------------------------------------------
(* The bytes of the first items *)

\* The recursion of Bytes: what the first n items hold.
FirstBytes(items) ==
    CHOOSE f : f = [n \in 0..Len(items) |->
                        IF n = 0 THEN <<>> ELSE f[n - 1] \o items[n]]

LEMMA BytesIsFirstBytes == \A items : Bytes(items) = FirstBytes(items)[Len(items)]
BY DEF Bytes, FirstBytes

LEMMA FirstBytesExists ==
    ASSUME NEW items, Len(items) \in Nat
    PROVE  \E f : f = [n \in 0..Len(items) |->
                            IF n = 0 THEN <<>> ELSE f[n - 1] \o items[n]]
<1> DEFINE N == Len(items)
           More(f, n) == IF n = 0 THEN <<>> ELSE f[n - 1] \o items[n]
           T == {m \in Nat : \E f : f = [n \in 0..m |-> More(f, n)]}
<1>1. 0 \in T
  <2> DEFINE f == [n \in 0..0 |-> <<>>]
  <2>1. f = [n \in 0..0 |-> More(f, n)]
      OBVIOUS
  <2> HIDE DEF f, More
  <2>2. QED
      BY <2>1
<1>2. ASSUME NEW m \in 0..N - 1, m \in T PROVE m + 1 \in T
  <2>1. PICK f : f = [n \in 0..m |-> More(f, n)]
      BY <1>2
  <2> DEFINE g == [n \in 0..m + 1 |-> IF n = m + 1 THEN More(f, m + 1) ELSE f[n]]
  <2>2. \A n \in 0..m + 1 : More(g, n) = More(f, n)
    <3> TAKE n \in 0..m + 1
    <3>1. n # 0 => g[n - 1] = f[n - 1]
        OBVIOUS
    <3> HIDE DEF g
    <3>2. QED
        BY <3>1
  <2>3. \A n \in 0..m + 1 : g[n] = More(f, n)
    <3> TAKE n \in 0..m + 1
    <3>1. CASE n = m + 1
        BY <3>1
    <3>2. CASE n # m + 1
      <4>1. n \in 0..m /\ g[n] = f[n]
          BY <3>2
      <4> HIDE DEF More, g
      <4>2. QED
          BY <4>1, <2>1
    <3>3. QED
        BY <3>1, <3>2
  <2>4. g = [n \in 0..m + 1 |-> g[n]]
      OBVIOUS
  <2> HIDE DEF g, More
  <2>5. g = [n \in 0..m + 1 |-> More(g, n)]
      BY <2>2, <2>3, <2>4
  <2>6. QED
      BY <2>5
<1>3. N \in T
  <2> HIDE DEF T
  <2>1. N \in Nat /\ N \in 0..N
      OBVIOUS
  <2>2. QED
      BY <1>1, <1>2, <2>1, BoundedInduction
<1>4. QED
    BY <1>3

LEMMA FirstBytesStep ==
    ASSUME NEW items, Len(items) \in Nat
    PROVE  /\ FirstBytes(items)[0] = <<>>
           /\ \A n \in 0..Len(items) - 1 :
                FirstBytes(items)[n + 1] = FirstBytes(items)[n] \o items[n + 1]
<1> DEFINE f == FirstBytes(items)
<1>1. f = [n \in 0..Len(items) |-> IF n = 0 THEN <<>> ELSE f[n - 1] \o items[n]]
    BY FirstBytesExists DEF FirstBytes
<1> HIDE DEF f
<1>2. f[0] = <<>>
    BY <1>1
<1>3. \A n \in 0..Len(items) - 1 : f[n + 1] = f[n] \o items[n + 1]
  <2> TAKE n \in 0..Len(items) - 1
  <2> DEFINE m == n + 1
  <2>1. m \in 0..Len(items) /\ m # 0 /\ m - 1 = n
      OBVIOUS
  <2> HIDE DEF m
  <2>2. f[m] = IF m = 0 THEN <<>> ELSE f[m - 1] \o items[m]
      BY <1>1, <2>1, Zenon
  <2>3. f[m] = f[n] \o items[m]
      BY <2>1, <2>2, Zenon
  <2>4. QED
      BY <2>3 DEF m
<1>4. QED
    BY <1>2, <1>3 DEF f

LEMMA FirstBytesType ==
    ASSUME NEW items \in Seq(Seq(Nat))
    PROVE  /\ \A n \in 0..Len(items) : FirstBytes(items)[n] \in Seq(Nat)
           /\ Bytes(items) \in Seq(Nat)
<1> DEFINE f == FirstBytes(items)
           T == {n \in Nat : f[n] \in Seq(Nat)}
<1>0. Len(items) \in Nat
    OBVIOUS
<1>1. 0 \in T
  <2>1. f[0] = <<>>
      BY <1>0, FirstBytesStep
  <2> HIDE DEF f
  <2>2. <<>> \in Seq(Nat)
      OBVIOUS
  <2>3. QED
      BY <2>1, <2>2
<1>2. ASSUME NEW n \in 0..Len(items) - 1, n \in T PROVE n + 1 \in T
  <2>1. f[n + 1] = f[n] \o items[n + 1]
      BY <1>0, FirstBytesStep
  <2>2. items[n + 1] \in Seq(Nat)
      OBVIOUS
  <2>3. f[n] \o items[n + 1] \in Seq(Nat)
    <3>1. f[n] \in Seq(Nat)
        BY <1>2
    <3> HIDE DEF T, f
    <3>2. QED
        BY <3>1, <2>2, ConcatProperties
  <2>4. f[n + 1] \in Seq(Nat)
      BY <2>1, <2>3
  <2> HIDE DEF f
  <2>5. QED
      BY <2>4
<1>3. \A n \in 0..Len(items) : n \in T
  <2> HIDE DEF T
  <2>1. Len(items) \in Nat
      OBVIOUS
  <2>2. QED
      BY <1>1, <1>2, <2>1, BoundedInduction
<1>4. QED
    BY <1>3, BytesIsFirstBytes

-----------------------------------------------------------------------------
(* The inductive invariant *)

AssemblerTypeOK ==
    /\ written \in Seq(Items)
    /\ arrived \in 0..Len(Bytes(written)) /\ start \in 0..arrived
    /\ stream_buffer \in Seq(Nat) /\ Buffered <= BufferCap
    /\ delivered \in Seq(Seq(Nat))
    /\ a_pc \in {"read", "scan"}

\* b holds the last of the first a bytes of s.
EndsAt(b, s, a) ==
    Len(b) <= a /\ \A i \in 1..Len(b) : b[i] = s[(a - Len(b)) + i]

\* The buffer holds the last bytes that arrived, and none that was given up.
BufferIsSuffix ==
    Buffered <= arrived - start /\ EndsAt(stream_buffer, Bytes(written), arrived)

\* The bytes that came since bytes were last given up.
Kept == SubSeq(Bytes(written), start + 1, arrived)

\* Whatever bytes follow, the reference finds in all that was kept what has been
\* delivered and then what it finds in the buffer: the loop has forgotten
\* nothing that later bytes could turn into a message.
ForgotNothing ==
    \A x \in Seq(Nat) :
        Messages(Kept \o x) = delivered \o Messages(stream_buffer \o x)

\* Between reads, the buffer begins with an incomplete message, or is shorter
\* than a magic number.
Waiting ==
    a_pc = "read" =>
        \/ Buffered < Len(Magic)
        \/ /\ MagicAt(stream_buffer, 1)
           /\ \/ Buffered < MessageSizeAt
              \/ ~BadSize(Declared) /\ Buffered < Declared

AssemblerInv == AssemblerTypeOK /\ BufferIsSuffix /\ ForgotNothing /\ Waiting

LEMMA WrittenBytes ==
    ASSUME written \in Seq(Items)
    PROVE  /\ written \in Seq(Seq(Nat)) /\ Len(written) \in Nat
           /\ Bytes(written) \in Seq(Nat)
<1>1. written \in Seq(Seq(Nat)) /\ Len(written) \in Nat
    BY AssemblerAssumption
<1>2. QED
    BY <1>1, FirstBytesType

LEMMA InvInit == AssemblerInit => AssemblerInv
<1> SUFFICES ASSUME AssemblerInit PROVE AssemblerInv
    OBVIOUS
<1> USE DEF AssemblerInit
<1>1. written \in Seq(Items)
  <2>1. PICK n \in 0..MaxItems : written \in [1..n -> Items]
      OBVIOUS
  <2>2. QED
      BY <2>1, AssemblerAssumption
<1>2. Bytes(written) \in Seq(Nat) /\ <<>> \in Seq(Seq(Nat)) /\ <<>> \in Seq(Nat)
    BY <1>1, WrittenBytes
<1>3. Len(Bytes(written)) \in Nat /\ Buffered = 0
    BY <1>2 DEF Buffered
<1>4. AssemblerTypeOK
    BY <1>1, <1>2, <1>3, Sizes DEF AssemblerTypeOK
<1>5. BufferIsSuffix
    BY <1>3 DEF BufferIsSuffix, EndsAt, Buffered
<1>6. ForgotNothing
  <2>1. Kept = <<>>
    <3>1. start + 1 \in Int /\ arrived \in Int /\ arrived < start + 1
        OBVIOUS
    <3>2. QED
        BY <3>1, SubSeqEmpty DEF Kept
  <2> SUFFICES ASSUME NEW x \in Seq(Nat)
               PROVE  Messages(Kept \o x) = <<>> \o Messages(stream_buffer \o x)
      BY DEF ForgotNothing
  <2>2. Kept \o x = x /\ stream_buffer \o x = x
      BY <2>1, ConcatEmptySeq
  <2>3. <<>> \o Messages(x) = Messages(x)
      BY MessagesType, ConcatEmptySeq
  <2>4. QED
      BY <2>2, <2>3
<1>7. Waiting
    BY <1>3, Sizes DEF Waiting
<1>8. QED
    BY <1>4, <1>5, <1>6, <1>7 DEF AssemblerInv

\* What the invariant says about the bytes.
LEMMA InvFacts ==
    ASSUME AssemblerInv
    PROVE  /\ Bytes(written) \in Seq(Nat) /\ Len(Bytes(written)) \in Nat
           /\ arrived \in Nat /\ start \in Nat /\ Buffered \in Nat
           /\ arrived <= Len(Bytes(written)) /\ start <= arrived
           /\ Buffered <= BufferCap /\ Buffered <= arrived - start
           /\ Kept \in Seq(Nat) /\ Len(Kept) = arrived - start
           /\ \A i \in 1..arrived - start : Kept[i] = Bytes(written)[start + i]
           /\ stream_buffer \in Seq(Nat)
<1> USE DEF AssemblerInv, AssemblerTypeOK, BufferIsSuffix
<1>1. Bytes(written) \in Seq(Nat) /\ stream_buffer \in Seq(Nat)
    BY WrittenBytes
<1>2. Len(Bytes(written)) \in Nat /\ Buffered \in Nat
    BY <1>1 DEF Buffered
<1>3. arrived \in Nat /\ start \in Nat /\ arrived <= Len(Bytes(written))
      /\ start <= arrived
    BY <1>2
<1>4. start + 1 \in 1..Len(Bytes(written)) + 1
      /\ arrived \in start + 1 - 1..Len(Bytes(written))
      /\ arrived - (start + 1) + 1 = arrived - start
    BY <1>2, <1>3
<1>5. Kept \in Seq(Nat) /\ Len(Kept) = arrived - start
      /\ \A i \in 1..arrived - start :
            Kept[i] = Bytes(written)[start + 1 + i - 1]
    BY <1>1, <1>4, PieceFacts DEF Kept
<1>6. \A i \in 1..arrived - start : start + 1 + i - 1 = start + i
    BY <1>3
<1>7. QED
    BY <1>1, <1>2, <1>3, <1>5, <1>6

LEMMA DropSuffix ==
    ASSUME NEW s, NEW a \in Nat, NEW b \in Seq(Nat), NEW k \in 0..Len(b),
           EndsAt(b, s, a)
    PROVE  EndsAt(Drop(b, k), s, a)
<1> DEFINE d == Drop(b, k)
<1>1. d \in Seq(Nat) /\ Len(d) = Len(b) - k
      /\ \A i \in 1..Len(b) - k : d[i] = b[i + k]
    BY DropFacts
<1> HIDE DEF d
<1>2. Len(d) <= a
    BY <1>1 DEF EndsAt
<1>3. ASSUME NEW i \in 1..Len(d) PROVE d[i] = s[(a - Len(d)) + i]
  <2>1. i + k \in 1..Len(b) /\ (a - Len(b)) + (i + k) = (a - Len(d)) + i
      BY <1>1
  <2>2. b[i + k] = s[(a - Len(b)) + (i + k)]
      BY <2>1 DEF EndsAt
  <2>3. QED
      BY <2>1, <2>2, <1>1
<1>4. QED
    BY <1>2, <1>3 DEF EndsAt, d

\* The next n bytes are appended to the last of the first a.
LEMMA AppendSuffix ==
    ASSUME NEW s \in Seq(Nat), NEW a \in Nat, NEW n \in Nat \ {0},
           a + n <= Len(s), NEW b \in Seq(Nat), EndsAt(b, s, a)
    PROVE  /\ b \o SubSeq(s, a + 1, a + n) \in Seq(Nat)
           /\ Len(b \o SubSeq(s, a + 1, a + n)) = Len(b) + n
           /\ EndsAt(b \o SubSeq(s, a + 1, a + n), s, a + n)
<1> DEFINE p == SubSeq(s, a + 1, a + n)
           v == b \o p
<1>1. a + 1 \in 1..Len(s) + 1 /\ a + n \in a + 1 - 1..Len(s)
      /\ (a + n) - (a + 1) + 1 = n
    OBVIOUS
<1>2. p \in Seq(Nat) /\ Len(p) = n
      /\ \A i \in 1..n : p[i] = s[a + 1 + i - 1]
    BY <1>1, PieceFacts
<1> HIDE DEF p
<1>3. v \in Seq(Nat) /\ Len(v) = Len(b) + Len(p)
      /\ (\A i \in 1..Len(b) : v[i] = b[i])
      /\ \A i \in Len(b) + 1..Len(b) + Len(p) : v[i] = p[i - Len(b)]
    BY <1>2, ConcatFacts
<1> HIDE DEF v
<1>4. Len(v) = Len(b) + n /\ Len(b) \in Nat /\ Len(b) <= a
    BY <1>2, <1>3 DEF EndsAt
<1>5. ASSUME NEW i \in 1..Len(v) PROVE v[i] = s[((a + n) - Len(v)) + i]
  <2>1. CASE i <= Len(b)
    <3>1. i \in 1..Len(b) /\ ((a + n) - Len(v)) + i = (a - Len(b)) + i
        BY <1>4, <2>1
    <3>2. b[i] = s[(a - Len(b)) + i]
        BY <3>1 DEF EndsAt
    <3>3. QED
        BY <3>1, <3>2, <1>3
  <2>2. CASE i > Len(b)
    <3>1. i \in Len(b) + 1..Len(b) + Len(p) /\ i - Len(b) \in 1..n
          /\ a + 1 + (i - Len(b)) - 1 = ((a + n) - Len(v)) + i
        BY <1>2, <1>4, <2>2
    <3>2. v[i] = p[i - Len(b)]
        BY <3>1, <1>3
    <3>3. p[i - Len(b)] = s[a + 1 + (i - Len(b)) - 1]
        BY <3>1, <1>2
    <3>4. QED
        BY <3>1, <3>2, <3>3
  <2>3. QED
      BY <2>1, <2>2, <1>4
<1>6. Len(v) <= a + n
    BY <1>4
<1>7. EndsAt(v, s, a + n)
    BY <1>5, <1>6 DEF EndsAt
<1>8. QED
    BY <1>3, <1>4, <1>7 DEF v, p

\* A turn of the loop drops k bytes from the front of the buffer; the invariant
\* holds if they say nothing more than what was delivered for them.
LEMMA InvDrop ==
    ASSUME AssemblerInv, NEW k \in 0..Buffered,
           stream_buffer' = Drop(stream_buffer, k),
           UNCHANGED <<written, arrived, start>>,
           delivered' \in Seq(Seq(Nat)), a_pc' \in {"read", "scan"},
           \A x \in Seq(Nat) :
                delivered \o Messages(stream_buffer \o x) =
                delivered' \o Messages(Drop(stream_buffer, k) \o x)
    PROVE  AssemblerTypeOK' /\ BufferIsSuffix' /\ ForgotNothing'
<1>1. /\ Buffered \in Nat /\ Buffered = Len(stream_buffer)
      /\ arrived \in Nat /\ start \in Nat /\ Buffered <= arrived - start
      /\ Buffered <= BufferCap
    BY InvFacts DEF Buffered
<1>2. /\ stream_buffer' \in Seq(Nat) /\ Buffered' = Buffered - k
      /\ \A i \in 1..Buffered - k : stream_buffer'[i] = stream_buffer[i + k]
    BY <1>1, DropFacts DEF AssemblerInv, AssemblerTypeOK, Buffered
<1>3. AssemblerTypeOK'
    BY <1>1, <1>2, Sizes DEF AssemblerInv, AssemblerTypeOK
<1>4. BufferIsSuffix'
  <2>1. Buffered' <= arrived' - start'
      BY <1>1, <1>2
  <2>2. EndsAt(Drop(stream_buffer, k), Bytes(written), arrived)
    <3>1. stream_buffer \in Seq(Nat) /\ k \in 0..Len(stream_buffer)
          /\ EndsAt(stream_buffer, Bytes(written), arrived)
        BY <1>1, InvFacts DEF AssemblerInv, BufferIsSuffix
    <3>2. QED
        BY <3>1, <1>1, DropSuffix
  <2>3. QED
      BY <2>1, <2>2 DEF BufferIsSuffix
<1>5. ForgotNothing'
  <2> SUFFICES ASSUME NEW x \in Seq(Nat)
               PROVE  Messages(Kept' \o x) =
                            delivered' \o Messages(stream_buffer' \o x)
      BY DEF ForgotNothing
  <2>1. Kept' = Kept
      BY DEF Kept
  <2>2. Messages(Kept \o x) = delivered \o Messages(stream_buffer \o x)
      BY DEF AssemblerInv, ForgotNothing
  <2>3. QED
      BY <2>1, <2>2
<1>6. QED
    BY <1>3, <1>4, <1>5

\* Bytes in front of the first magic number can be dropped, whatever follows.
LEMMA DropNoise ==
    ASSUME AssemblerInv, NEW k \in 0..Buffered,
           k + Len(Magic) <= Buffered + 1,
           \A j \in 1..k : ~MagicAt(stream_buffer, j),
           NEW x \in Seq(Nat)
    PROVE  Messages(stream_buffer \o x) = Messages(Drop(stream_buffer, k) \o x)
<1> DEFINE bx == stream_buffer \o x
<1>1. stream_buffer \in Seq(Nat) /\ Buffered \in Nat
      /\ Buffered = Len(stream_buffer)
    BY InvFacts DEF Buffered
<1>2. bx \in Seq(Nat) /\ Len(bx) = Buffered + Len(x) /\ Len(x) \in Nat
    BY <1>1, ConcatFacts
<1>3. k \in 0..Len(bx)
    BY <1>1, <1>2
<1>4. \A j \in 1..k : ~MagicAt(bx, j)
  <2> TAKE j \in 1..k
  <2>1. j \in Nat \ {0} /\ j + Len(Magic) - 1 <= Len(stream_buffer)
      BY <1>1, Sizes
  <2>2. QED
      BY <2>1, <1>1, ConcatMagic
<1>5. Drop(bx, k) = Drop(stream_buffer, k) \o x
    BY <1>1, ConcatDrop
<1> HIDE DEF bx
<1>6. Messages(bx) = Messages(Drop(bx, k))
    BY <1>2, <1>3, <1>4, SkipNoise
<1>7. QED
    BY <1>5, <1>6 DEF bx

LEMMA InvKeepTail ==
    ASSUME AssemblerInv, KeepTail PROVE AssemblerInv'
<1> DEFINE k == Buffered - Smaller(Buffered, Len(Magic) - 1)
<1>1. Buffered \in Nat /\ Buffered >= Len(Magic) /\ stream_buffer \in Seq(Nat)
      /\ Buffered = Len(stream_buffer)
    BY InvFacts DEF KeepTail, Buffered
<1>2. k = Buffered - (Len(Magic) - 1) /\ k \in 0..Buffered
      /\ k + Len(Magic) <= Buffered + 1 /\ Buffered - k < Len(Magic)
  <2>1. Smaller(Buffered, Len(Magic) - 1) = Len(Magic) - 1
      BY <1>1, Sizes DEF Smaller
  <2>2. k = Buffered - (Len(Magic) - 1) /\ Buffered \in Nat
        /\ Len(Magic) <= Buffered /\ Len(Magic) \in Nat \ {0}
      BY <2>1, <1>1, Sizes
  <2> HIDE DEF k, Buffered
  <2>3. QED
      BY <2>2
<1>3. \A j \in 1..Buffered : ~MagicAt(stream_buffer, j)
    BY <1>1, FindMagicFacts DEF KeepTail
<1>4. stream_buffer' = Drop(stream_buffer, k) /\ a_pc' = "read"
      /\ delivered' = delivered /\ UNCHANGED <<written, arrived, start>>
    BY DEF KeepTail
<1> HIDE DEF k
<1>5. \A x \in Seq(Nat) : Messages(stream_buffer \o x) =
                            Messages(Drop(stream_buffer, k) \o x)
  <2> TAKE x \in Seq(Nat)
  <2>1. \A j \in 1..k : ~MagicAt(stream_buffer, j)
      BY <1>1, <1>2, <1>3
  <2>2. QED
      BY <2>1, <1>2, DropNoise
<1>6. delivered' \in Seq(Seq(Nat))
    BY <1>4 DEF AssemblerInv, AssemblerTypeOK
<1>7. AssemblerTypeOK' /\ BufferIsSuffix' /\ ForgotNothing'
    BY <1>2, <1>4, <1>5, <1>6, InvDrop
<1>8. Waiting'
  <2>1. Buffered' = Buffered - k
      BY <1>1, <1>2, <1>4, DropFacts DEF Buffered
  <2>2. QED
      BY <2>1, <1>2 DEF Waiting
<1>9. QED
    BY <1>7, <1>8 DEF AssemblerInv

LEMMA InvSkipToMagic ==
    ASSUME AssemblerInv, SkipToMagic PROVE AssemblerInv'
<1> DEFINE k == FindMagic(stream_buffer, 1) - 1
<1>1. Buffered \in Nat /\ stream_buffer \in Seq(Nat)
      /\ Buffered = Len(stream_buffer)
    BY InvFacts DEF Buffered
<1>2. /\ FindMagic(stream_buffer, 1) \in 0..Buffered
      /\ FindMagic(stream_buffer, 1) > 1
      /\ MagicAt(stream_buffer, FindMagic(stream_buffer, 1))
      /\ \A j \in 1..k : ~MagicAt(stream_buffer, j)
    BY <1>1, FindMagicFacts DEF SkipToMagic
<1>3. k \in 0..Buffered /\ k + Len(Magic) <= Buffered + 1
  <2>1. FindMagic(stream_buffer, 1) + Len(Magic) - 1 <= Buffered
      BY <1>1, <1>2, Zenon DEF MagicAt
  <2>2. FindMagic(stream_buffer, 1) \in 0..Buffered /\ Buffered \in Nat
        /\ FindMagic(stream_buffer, 1) > 1
      BY <1>1, <1>2
  <2> HIDE DEF Buffered
  <2>3. QED
      BY <2>1, <2>2, Sizes
<1>4. stream_buffer' = Drop(stream_buffer, k) /\ a_pc' = "scan"
      /\ delivered' = delivered /\ UNCHANGED <<written, arrived, start>>
    BY DEF SkipToMagic, AssemblerInv, AssemblerTypeOK
<1> HIDE DEF k
<1>5. \A x \in Seq(Nat) : Messages(stream_buffer \o x) =
                            Messages(Drop(stream_buffer, k) \o x)
    BY <1>2, <1>3, DropNoise
<1>6. delivered' \in Seq(Seq(Nat))
    BY <1>4 DEF AssemblerInv, AssemblerTypeOK
<1>7. AssemblerTypeOK' /\ BufferIsSuffix' /\ ForgotNothing'
    BY <1>3, <1>4, <1>5, <1>6, InvDrop
<1>8. Waiting'
    BY <1>4 DEF Waiting
<1>9. QED
    BY <1>7, <1>8 DEF AssemblerInv

LEMMA AtHeaderFacts ==
    ASSUME AssemblerInv, AtHeader
    PROVE  /\ stream_buffer \in Seq(Nat) /\ Buffered = Len(stream_buffer)
           /\ Buffered \in Nat /\ Buffered >= MessageSizeAt
           /\ MagicAt(stream_buffer, 1) /\ Declared \in Nat
           /\ \A x \in Seq(Nat) :
                /\ stream_buffer \o x \in Seq(Nat)
                /\ Len(stream_buffer \o x) = Buffered + Len(x)
                /\ MagicAt(stream_buffer \o x, 1)
                /\ (stream_buffer \o x)[MessageSizeAt] = Declared
<1>1. stream_buffer \in Seq(Nat) /\ Buffered = Len(stream_buffer)
      /\ Buffered \in Nat
    BY InvFacts DEF Buffered
<1>2. Buffered >= MessageSizeAt /\ MagicAt(stream_buffer, 1)
    BY <1>1, FindMagicFacts DEF AtHeader
<1>3. Declared \in Nat
    BY <1>1, <1>2, Sizes DEF Declared
<1>4. ASSUME NEW x \in Seq(Nat)
      PROVE  /\ stream_buffer \o x \in Seq(Nat)
             /\ Len(stream_buffer \o x) = Buffered + Len(x)
             /\ MagicAt(stream_buffer \o x, 1)
             /\ (stream_buffer \o x)[MessageSizeAt] = Declared
  <2>1. 1 \in Nat \ {0} /\ 1 + Len(Magic) - 1 <= Len(stream_buffer)
        /\ MessageSizeAt \in 1..Len(stream_buffer)
      BY <1>1, <1>2, Sizes
  <2>2. MagicAt(stream_buffer \o x, 1)
      BY <2>1, <1>1, <1>2, ConcatMagic
  <2>3. QED
      BY <2>1, <2>2, <1>1, ConcatFacts DEF Declared
<1>5. QED
    BY <1>1, <1>2, <1>3, <1>4

LEMMA InvSkipBadSize ==
    ASSUME AssemblerInv, SkipBadSize PROVE AssemblerInv'
<1>1. AtHeader /\ BadSize(Declared) /\ stream_buffer' = Drop(stream_buffer, 1)
      /\ a_pc' = "scan" /\ delivered' = delivered
      /\ UNCHANGED <<written, arrived, start>>
    BY DEF SkipBadSize, AtHeader
<1>2. 1 \in 0..Buffered
    BY <1>1, AtHeaderFacts, Sizes
<1>3. \A x \in Seq(Nat) : Messages(stream_buffer \o x) =
                            Messages(Drop(stream_buffer, 1) \o x)
  <2> TAKE x \in Seq(Nat)
  <2> DEFINE bx == stream_buffer \o x
  <2>1. bx \in Seq(Nat) /\ MagicAt(bx, 1) /\ Len(bx) >= MessageSizeAt
        /\ bx[MessageSizeAt] = Declared
    <3>1. Buffered \in Nat /\ Buffered >= MessageSizeAt /\ Len(x) \in Nat
        BY <1>1, AtHeaderFacts
    <3>2. /\ bx \in Seq(Nat) /\ MagicAt(bx, 1) /\ bx[MessageSizeAt] = Declared
          /\ Len(bx) = Buffered + Len(x)
        BY <1>1, AtHeaderFacts
    <3> HIDE DEF bx
    <3>3. QED
        BY <3>1, <3>2, Sizes
  <2>2. Drop(bx, 1) = Drop(stream_buffer, 1) \o x
      BY <1>1, <1>2, AtHeaderFacts, ConcatDrop
  <2> HIDE DEF bx
  <2>3. Messages(bx) = Messages(Drop(bx, 1))
      BY <2>1, <1>1, AtMagic
  <2>4. QED
      BY <2>2, <2>3 DEF bx
<1>4. delivered' \in Seq(Seq(Nat))
    BY <1>1 DEF AssemblerInv, AssemblerTypeOK
<1>5. AssemblerTypeOK' /\ BufferIsSuffix' /\ ForgotNothing'
    BY <1>1, <1>2, <1>3, <1>4, InvDrop
<1>6. Waiting'
    BY <1>1 DEF Waiting
<1>7. QED
    BY <1>5, <1>6 DEF AssemblerInv

LEMMA InvTakeMessage ==
    ASSUME AssemblerInv, TakeMessage PROVE AssemblerInv'
<1> DEFINE m == SubSeq(stream_buffer, 1, Declared)
           found == IF Decode(m) = "ok" THEN <<m>> ELSE <<>>
<1>1. AtHeader /\ ~BadSize(Declared) /\ Buffered >= Declared
      /\ stream_buffer' = Drop(stream_buffer, Declared)
      /\ delivered' = (IF Decode(m) = "ok" THEN Append(delivered, m)
                       ELSE delivered)
      /\ a_pc' = "scan" /\ UNCHANGED <<written, arrived, start>>
    BY DEF TakeMessage, ProcessFrameBytes, AtHeader
<1>2. Declared \in 0..Buffered /\ Declared \in Nat
    BY <1>1, AtHeaderFacts
<1>3. m \in Seq(Nat)
  <2>1. 1 \in 1..Len(stream_buffer) + 1 /\ Declared \in 1 - 1..Len(stream_buffer)
      BY <1>2, <1>1, AtHeaderFacts
  <2>2. QED
      BY <2>1, <1>1, AtHeaderFacts, PieceFacts
<1> HIDE DEF m
<1>4. found \in Seq(Seq(Nat)) /\ delivered \in Seq(Seq(Nat))
    BY <1>3 DEF AssemblerInv, AssemblerTypeOK
<1>5. delivered' = delivered \o found
  <2>1. CASE Decode(m) = "ok"
    <3>1. delivered' = Append(delivered, m) /\ found = <<m>>
        BY <1>1, <2>1
    <3>2. Append(delivered, m) = delivered \o <<m>>
        BY <1>3, <1>4, AppendIsConcat
    <3>3. QED
        BY <3>1, <3>2
  <2>2. CASE ~(Decode(m) = "ok")
    <3>1. delivered' = delivered /\ found = <<>>
        BY <1>1, <2>2
    <3>2. QED
        BY <3>1, <1>4, ConcatEmptySeq
  <2>3. QED
      BY <2>1, <2>2
<1> HIDE DEF found
<1>6. delivered' \in Seq(Seq(Nat))
    BY <1>4, <1>5, ConcatProperties
<1>7. ASSUME NEW x \in Seq(Nat)
      PROVE  delivered \o Messages(stream_buffer \o x) =
                delivered' \o Messages(Drop(stream_buffer, Declared) \o x)
  <2> DEFINE bx == stream_buffer \o x
             rest == Messages(Drop(stream_buffer, Declared) \o x)
  <2>1. bx \in Seq(Nat) /\ MagicAt(bx, 1) /\ Len(bx) >= MessageSizeAt
        /\ bx[MessageSizeAt] = Declared /\ Len(bx) >= Declared
    <3>1. Buffered \in Nat /\ Buffered >= MessageSizeAt /\ Len(x) \in Nat
        BY <1>1, AtHeaderFacts
    <3>2. /\ bx \in Seq(Nat) /\ MagicAt(bx, 1) /\ bx[MessageSizeAt] = Declared
          /\ Len(bx) = Buffered + Len(x)
        BY <1>1, AtHeaderFacts
    <3>3. Len(bx) >= MessageSizeAt /\ Len(bx) >= Declared
      <4> DEFINE lb == Len(bx)
                 lx == Len(x)
      <4>1. lb = Buffered + lx /\ lx \in Nat /\ Buffered \in Nat
            /\ Buffered >= MessageSizeAt /\ Declared \in 0..Buffered
          BY <3>1, <3>2, <1>2
      <4> HIDE DEF lb, lx, Buffered, Declared, bx
      <4>2. lb >= MessageSizeAt /\ lb >= Declared
          BY <4>1, Sizes
      <4>3. QED
          BY <4>2 DEF lb
    <3>4. QED
        BY <3>2, <3>3, Zenon
  <2>2. Drop(bx, Declared) = Drop(stream_buffer, Declared) \o x
      BY <1>1, <1>2, AtHeaderFacts, ConcatDrop
  <2>3. SubSeq(bx, 1, Declared) = m
      BY <1>1, <1>2, AtHeaderFacts, ConcatPiece DEF m
  <2>4. rest \in Seq(Seq(Nat))
    <3>1. Drop(stream_buffer, Declared) \in Seq(Nat)
        BY <1>1, <1>2, AtHeaderFacts, DropFacts
    <3>2. Drop(stream_buffer, Declared) \o x \in Seq(Nat)
        BY <3>1, ConcatProperties
    <3>3. QED
        BY <3>2, MessagesType
  <2> HIDE DEF bx
  <2>5. Messages(bx) = (IF Decode(m) = "ok" THEN <<m>> ELSE <<>>)
                            \o Messages(Drop(bx, Declared))
      BY <2>1, <2>3, <1>1, AtMagic
  <2>6. Messages(bx) = found \o rest
      BY <2>2, <2>5 DEF found
  <2> HIDE DEF rest
  <2>7. (delivered \o found) \o rest = delivered \o (found \o rest)
      BY <1>4, <2>4, Regroup
  <2>8. QED
      BY <2>6, <2>7, <1>5 DEF bx, rest
<1>8. AssemblerTypeOK' /\ BufferIsSuffix' /\ ForgotNothing'
    BY <1>1, <1>2, <1>6, <1>7, InvDrop
<1>9. Waiting'
    BY <1>1 DEF Waiting
<1>10. QED
    BY <1>8, <1>9 DEF AssemblerInv

LEMMA InvWait ==
    ASSUME AssemblerInv, Wait PROVE AssemblerInv'
<1>1. AssemblerTypeOK' /\ BufferIsSuffix' /\ ForgotNothing'
    BY DEF Wait, AssemblerInv, AssemblerTypeOK, BufferIsSuffix, ForgotNothing,
           Kept, Buffered
<1>2. stream_buffer \in Seq(Nat) /\ UNCHANGED stream_buffer
    BY InvFacts DEF Wait
<1>3. FindMagic(stream_buffer, 1) = 1 => MagicAt(stream_buffer, 1)
    BY <1>2, FindMagicFacts
<1>4. Waiting'
  <2>1. CASE Buffered < Len(Magic)
      BY <2>1, <1>2 DEF Waiting, Buffered
  <2>2. CASE FindMagic(stream_buffer, 1) = 1 /\ Buffered < MessageSizeAt
      BY <2>2, <1>2, <1>3 DEF Waiting, Buffered
  <2>3. CASE AtHeader /\ ~BadSize(Declared) /\ Buffered < Declared
      BY <2>3, <1>2, <1>3 DEF Waiting, Buffered, AtHeader, Declared
  <2>4. QED
      BY <2>1, <2>2, <2>3 DEF Wait
<1>5. QED
    BY <1>1, <1>4 DEF AssemblerInv

LEMMA ReadFacts ==
    ASSUME AssemblerInv, NEW n \in 1..ReadMax, Read(n)
    PROVE  LET bytes == SubSeq(Bytes(written), arrived + 1, arrived + n)
               over == Buffered + n - BufferCap
           IN  /\ bytes \in Seq(Nat) /\ Len(bytes) = n /\ over \in Int
               /\ arrived + n <= Len(Bytes(written))
               /\ arrived' = arrived + n /\ a_pc' = "scan" /\ written' = written
               /\ over > 0 => /\ stream_buffer' = Drop(stream_buffer, over) \o bytes
                              /\ start' = (arrived + n) - BufferCap
                              /\ delivered' = <<>>
               /\ ~(over > 0) => /\ stream_buffer' = stream_buffer \o bytes
                                 /\ start' = start /\ delivered' = delivered
<1> DEFINE s == Bytes(written)
           bytes == SubSeq(s, arrived + 1, arrived + n)
<1>1. /\ arrived + n <= Len(s) /\ s \in Seq(Nat) /\ arrived \in Nat
      /\ n \in Nat \ {0} /\ Buffered \in Nat /\ Len(s) \in Nat
    BY InvFacts, Sizes DEF Read
<1>2. arrived + 1 \in 1..Len(s) + 1 /\ arrived + n \in (arrived + 1) - 1..Len(s)
      /\ (arrived + n) - (arrived + 1) + 1 = n
    BY <1>1
<1>3. bytes \in Seq(Nat) /\ Len(bytes) = n
  <2> HIDE DEF s
  <2>1. QED
      BY <1>1, <1>2, PieceFacts
<1>4. Buffered + n - BufferCap \in Int
    BY <1>1, Sizes
<1>5. arrived' = arrived + n /\ a_pc' = "scan" /\ written' = written
    BY DEF Read
<1>6. ASSUME Buffered + n - BufferCap > 0
      PROVE  /\ stream_buffer' =
                    Drop(stream_buffer, Buffered + n - BufferCap) \o bytes
             /\ start' = (arrived + n) - BufferCap /\ delivered' = <<>>
    BY <1>6, Zenon DEF Read, Buffered
<1>7. ASSUME ~(Buffered + n - BufferCap > 0)
      PROVE  /\ stream_buffer' = stream_buffer \o bytes
             /\ start' = start /\ delivered' = delivered
    BY <1>7, Zenon DEF Read, Buffered
<1> HIDE DEF bytes, s
<1>8. QED
    BY <1>1, <1>3, <1>4, <1>5, <1>6, <1>7 DEF bytes, s

LEMMA InvRead ==
    ASSUME AssemblerInv, NEW n \in 1..ReadMax, Read(n) PROVE AssemblerInv'
<1> DEFINE s == Bytes(written)
           bytes == SubSeq(s, arrived + 1, arrived + n)
           over == Buffered + n - BufferCap
<1>1. /\ s \in Seq(Nat) /\ Len(s) \in Nat /\ arrived \in Nat /\ start \in Nat
      /\ Buffered \in Nat /\ Buffered = Len(stream_buffer)
      /\ arrived <= Len(s) /\ start <= arrived
      /\ Buffered <= BufferCap /\ Buffered <= arrived - start
      /\ Kept \in Seq(Nat) /\ stream_buffer \in Seq(Nat)
      /\ n \in Nat \ {0} /\ n <= BufferCap
    BY InvFacts, Sizes DEF Buffered
<1>2. bytes \in Seq(Nat) /\ Len(bytes) = n /\ arrived + n <= Len(s)
      /\ arrived' = arrived + n /\ a_pc' = "scan" /\ written' = written
      /\ (over > 0 => /\ stream_buffer' = Drop(stream_buffer, over) \o bytes
                      /\ start' = (arrived + n) - BufferCap
                      /\ delivered' = <<>>)
      /\ (~(over > 0) => /\ stream_buffer' = stream_buffer \o bytes
                         /\ start' = start /\ delivered' = delivered)
    BY ReadFacts
<1>3. written \in Seq(Items) /\ delivered \in Seq(Seq(Nat))
      /\ EndsAt(stream_buffer, s, arrived)
      /\ \A x \in Seq(Nat) :
            Messages(Kept \o x) = delivered \o Messages(stream_buffer \o x)
    BY DEF AssemblerInv, AssemblerTypeOK, BufferIsSuffix, ForgotNothing
<1>4. Waiting' /\ Bytes(written)' = s
    BY <1>2 DEF Waiting
<1> HIDE DEF s, bytes
<1>5. CASE ~(over > 0)
  <2>1. /\ stream_buffer' = stream_buffer \o bytes
        /\ start' = start /\ delivered' = delivered
      BY <1>2, <1>5
  <2>2. /\ stream_buffer' \in Seq(Nat) /\ Len(stream_buffer') = Buffered + n
        /\ EndsAt(stream_buffer', s, arrived')
    <3>1. arrived + n <= Len(s)
        BY <1>2
    <3>2. /\ stream_buffer \o bytes \in Seq(Nat)
          /\ Len(stream_buffer \o bytes) = Len(stream_buffer) + n
          /\ EndsAt(stream_buffer \o bytes, s, arrived + n)
        BY <3>1, <1>1, <1>3, AppendSuffix DEF bytes
    <3>3. QED
        BY <3>2, <2>1, <1>1, <1>2
  <2>3. Buffered' = Buffered + n /\ Buffered + n <= BufferCap
        /\ Buffered' = Len(stream_buffer')
      BY <2>2, <1>5, <1>1, Sizes DEF Buffered
  <2>4. AssemblerTypeOK'
    <3>1. arrived' \in 0..Len(Bytes(written)') /\ start' \in 0..arrived'
        BY <2>1, <1>1, <1>2, <1>4
    <3>2. QED
        BY <3>1, <2>1, <2>2, <2>3, <1>2, <1>3 DEF AssemblerTypeOK
  <2>5. BufferIsSuffix'
    <3>1. Buffered' <= arrived' - start'
        BY <2>1, <2>3, <1>1, <1>2
    <3>2. QED
        BY <3>1, <2>2, <1>4 DEF BufferIsSuffix
  <2>6. Kept' = Kept \o bytes
    <3>1. start + 1 \in 1..Len(s) + 1 /\ arrived \in (start + 1) - 1..Len(s)
          /\ arrived + n \in arrived..Len(s) /\ s \in Seq(Nat)
        BY <1>1, <1>2
    <3>2. SubSeq(s, start + 1, arrived) \o SubSeq(s, arrived + 1, arrived + n)
            = SubSeq(s, start + 1, arrived + n)
        BY <3>1, PieceConcat
    <3>3. QED
        BY <3>2, <2>1, <1>2, <1>4 DEF Kept, s, bytes
  <2>7. ForgotNothing'
    <3> SUFFICES ASSUME NEW x \in Seq(Nat)
                 PROVE  Messages(Kept' \o x) =
                            delivered' \o Messages(stream_buffer' \o x)
        BY DEF ForgotNothing
    <3>1. bytes \o x \in Seq(Nat)
        BY <1>2, ConcatProperties
    <3>2. (Kept \o bytes) \o x = Kept \o (bytes \o x)
        BY <1>1, <1>2, RegroupBytes
    <3>3. (stream_buffer \o bytes) \o x = stream_buffer \o (bytes \o x)
        BY <1>1, <1>2, RegroupBytes
    <3>4. QED
        BY <3>1, <3>2, <3>3, <2>1, <2>6, <1>3
  <2>8. QED
      BY <2>4, <2>5, <2>7, <1>4 DEF AssemblerInv
<1>6. CASE over > 0
  <2> DEFINE d == Drop(stream_buffer, over)
  <2>1. /\ stream_buffer' = d \o bytes
        /\ start' = (arrived + n) - BufferCap /\ delivered' = <<>>
      BY <1>2, <1>6
  <2>2. over \in 0..Buffered /\ (arrived + n) - BufferCap \in 0..arrived
        /\ Buffered - over = BufferCap - n
      BY <1>1, <1>6, Sizes
  <2>3. d \in Seq(Nat) /\ Len(d) = Buffered - over /\ EndsAt(d, s, arrived)
    <3> HIDE DEF over
    <3>1. QED
        BY <2>2, <1>1, <1>3, DropFacts, DropSuffix
  <2> HIDE DEF d, over
  <2>4. /\ stream_buffer' \in Seq(Nat) /\ Len(stream_buffer') = Len(d) + n
        /\ EndsAt(stream_buffer', s, arrived')
    <3>1. arrived + n <= Len(s)
        BY <1>2
    <3>2. /\ d \o bytes \in Seq(Nat) /\ Len(d \o bytes) = Len(d) + n
          /\ EndsAt(d \o bytes, s, arrived + n)
      <4>1. /\ s \in Seq(Nat) /\ arrived \in Nat /\ n \in Nat \ {0}
            /\ d \in Seq(Nat) /\ EndsAt(d, s, arrived)
          BY <1>1, <2>3
      <4> HIDE DEF s
      <4>2. /\ d \o SubSeq(s, arrived + 1, arrived + n) \in Seq(Nat)
            /\ Len(d \o SubSeq(s, arrived + 1, arrived + n)) = Len(d) + n
            /\ EndsAt(d \o SubSeq(s, arrived + 1, arrived + n), s, arrived + n)
          BY <3>1, <4>1, AppendSuffix
      <4>3. QED
          BY <4>2, Zenon DEF bytes
    <3>3. QED
        BY <3>2, <2>1, <1>2
  <2>5. Buffered' = BufferCap /\ Len(stream_buffer') = BufferCap
        /\ BufferCap \in Nat
      BY <2>2, <2>3, <2>4, <1>1, Sizes DEF Buffered
  <2>6. <<>> \in Seq(Seq(Nat))
      OBVIOUS
  <2>7. AssemblerTypeOK'
    <3>1. arrived' \in 0..Len(Bytes(written)') /\ start' \in 0..arrived'
        BY <2>1, <2>2, <1>1, <1>2, <1>4
    <3>2. QED
        BY <3>1, <2>1, <2>4, <2>5, <2>6, <1>2, <1>3 DEF AssemblerTypeOK
  <2>8. BufferIsSuffix'
    <3>1. Buffered' <= arrived' - start'
        BY <2>1, <2>5, <1>1, <1>2
    <3>2. QED
        BY <3>1, <2>4, <1>4 DEF BufferIsSuffix
  <2>9. Kept' = stream_buffer'
    <3> DEFINE from == (arrived + n) - BufferCap
    <3>1. from + 1 \in 1..Len(s) + 1 /\ arrived + n \in (from + 1) - 1..Len(s)
          /\ (arrived + n) - (from + 1) + 1 = BufferCap /\ from \in Nat
        BY <2>2, <2>5, <1>1, <1>2
    <3>2. Kept' = SubSeq(s, from + 1, arrived + n)
        BY <2>1, <1>2, <1>4 DEF Kept, s
    <3> HIDE DEF from
    <3>3. Kept' \in Seq(Nat) /\ Len(Kept') = BufferCap
          /\ \A i \in 1..BufferCap : Kept'[i] = s[from + 1 + i - 1]
        BY <3>1, <3>2, <1>1, PieceFacts
    <3>4. \A i \in 1..BufferCap : Kept'[i] = stream_buffer'[i]
      <4> TAKE i \in 1..BufferCap
      <4>1. from + 1 + i - 1 = (arrived' - Len(stream_buffer')) + i
          BY <2>5, <1>1, <1>2 DEF from
      <4>2. stream_buffer'[i] = s[(arrived' - Len(stream_buffer')) + i]
          BY <2>4, <2>5 DEF EndsAt
      <4>3. QED
          BY <4>1, <4>2, <3>3
    <3>5. QED
        BY <3>3, <3>4, <2>4, <2>5, SeqEqual
  <2>10. ForgotNothing'
    <3> SUFFICES ASSUME NEW x \in Seq(Nat)
                 PROVE  Messages(Kept' \o x) =
                            delivered' \o Messages(stream_buffer' \o x)
        BY DEF ForgotNothing
    <3>1. stream_buffer' \o x \in Seq(Nat)
        BY <2>4, ConcatProperties
    <3>2. <<>> \o Messages(stream_buffer' \o x) = Messages(stream_buffer' \o x)
        BY <3>1, MessagesType, ConcatEmptySeq
    <3>3. QED
        BY <3>2, <2>1, <2>9
  <2>11. QED
      BY <2>7, <2>8, <2>10, <1>4 DEF AssemblerInv
<1>7. QED
    BY <1>5, <1>6, <1>1, Sizes

LEMMA InvReadOversized ==
    ASSUME AssemblerInv, NEW n \in ReadMax + 1..BufferCap, ReadOversized(n)
    PROVE  AssemblerInv'
<1>1. /\ arrived + n <= Len(Bytes(written)) /\ arrived' = arrived + n
      /\ start' = arrived + n /\ stream_buffer' = <<>> /\ delivered' = <<>>
      /\ written' = written /\ a_pc' = a_pc
    BY DEF ReadOversized
<1>2. Bytes(written) \in Seq(Nat) /\ Len(Bytes(written)) \in Nat
      /\ arrived \in Nat /\ n \in Nat
    BY InvFacts, Sizes
<1>3. <<>> \in Seq(Seq(Nat)) /\ <<>> \in Seq(Nat) /\ Buffered' = 0
      /\ stream_buffer' \in Seq(Nat) /\ delivered' \in Seq(Seq(Nat))
    BY <1>1 DEF Buffered
<1>4. Bytes(written)' = Bytes(written)
    BY <1>1
<1>5. AssemblerTypeOK'
  <2>1. arrived' \in 0..Len(Bytes(written)') /\ start' \in 0..arrived'
      BY <1>1, <1>2, <1>4
  <2>2. written' \in Seq(Items) /\ a_pc' \in {"read", "scan"}
      BY <1>1 DEF AssemblerInv, AssemblerTypeOK
  <2>3. QED
      BY <2>1, <2>2, <1>3, Sizes DEF AssemblerTypeOK
<1>6. BufferIsSuffix'
    BY <1>1, <1>2, <1>3 DEF BufferIsSuffix, EndsAt, Buffered
<1>7. ForgotNothing'
  <2> DEFINE end == arrived + n
  <2>1. Kept' = <<>>
    <3>1. end + 1 \in Int /\ end \in Int /\ end < end + 1
        BY <1>2
    <3>2. Kept' = SubSeq(Bytes(written), end + 1, end)
        BY <1>1, <1>4 DEF Kept
    <3> HIDE DEF end
    <3>3. QED
        BY <3>1, <3>2, SubSeqEmpty
  <2> SUFFICES ASSUME NEW x \in Seq(Nat)
               PROVE  Messages(Kept' \o x) =
                            delivered' \o Messages(stream_buffer' \o x)
      BY DEF ForgotNothing
  <2>2. <<>> \o x = x /\ <<>> \o Messages(x) = Messages(x)
      BY MessagesType, ConcatEmptySeq
  <2>3. QED
      BY <2>1, <2>2, <1>1
<1>8. Waiting'
    BY <1>3, Sizes DEF Waiting
<1>9. QED
    BY <1>5, <1>6, <1>7, <1>8 DEF AssemblerInv

LEMMA InvNext ==
    AssemblerInv /\ [AssemblerNext]_assemblerVars => AssemblerInv'
<1> SUFFICES ASSUME AssemblerInv, [AssemblerNext]_assemblerVars
             PROVE  AssemblerInv'
    OBVIOUS
<1>1. ASSUME NEW n \in 1..ReadMax, Read(n) PROVE AssemblerInv'
    BY <1>1, InvRead
<1>2. ASSUME NEW n \in ReadMax + 1..BufferCap, ReadOversized(n)
      PROVE  AssemblerInv'
    BY <1>2, InvReadOversized
<1>3. CASE Wait
    BY <1>3, InvWait
<1>4. CASE KeepTail
    BY <1>4, InvKeepTail
<1>5. CASE SkipToMagic
    BY <1>5, InvSkipToMagic
<1>6. CASE SkipBadSize
    BY <1>6, InvSkipBadSize
<1>7. CASE TakeMessage
    BY <1>7, InvTakeMessage
<1>8. CASE UNCHANGED assemblerVars
    BY <1>8 DEF assemblerVars, AssemblerInv, AssemblerTypeOK, BufferIsSuffix,
                ForgotNothing, Kept, Waiting, Buffered, Declared
<1>9. QED
    BY <1>1, <1>2, <1>3, <1>4, <1>5, <1>6, <1>7, <1>8 DEF AssemblerNext, Scan

-----------------------------------------------------------------------------
(* What the invariant gives *)

\* At every step the buffer (stream_buffer in roi_ipc_process_stream_bytes)
\* holds at most BufferCap bytes, all of them the last that arrived, and the
\* bytes still to come can make no message that the loop has forgotten.
THEOREM AssemblerInvariant == AssemblerSpec => []AssemblerInv
<1>1. QED
    BY InvInit, InvNext, PTL DEF AssemblerSpec

\* The append never writes behind the end of stream_buffer: what is left after
\* the oldest bytes are given up, and the bytes of the read, fit in it.
ReadFits ==
    \A n \in 1..ReadMax : Read(n) =>
        LET over == Buffered + n - BufferCap
        IN  /\ over <= Buffered
            /\ Buffered - (IF over > 0 THEN over ELSE 0) + n <= BufferCap
            /\ Buffered' <= BufferCap

THEOREM ReadFitsCorrect == AssemblerSpec => [][ReadFits]_assemblerVars
<1>1. AssemblerInv /\ AssemblerInv' => ReadFits
  <2> SUFFICES ASSUME AssemblerInv, AssemblerInv', NEW n \in 1..ReadMax
               PROVE  LET over == Buffered + n - BufferCap
                      IN  /\ over <= Buffered
                          /\ Buffered - (IF over > 0 THEN over ELSE 0) + n
                                <= BufferCap
                          /\ Buffered' <= BufferCap
      BY DEF ReadFits
  <2>1. Buffered \in Nat /\ Buffered <= BufferCap /\ n <= BufferCap
      BY InvFacts, Sizes
  <2>2. Buffered' <= BufferCap
      BY DEF AssemblerInv, AssemblerTypeOK
  <2>3. QED
      BY <2>1, <2>2, Sizes
<1>2. QED
    BY <1>1, AssemblerInvariant, PTL

\* Every turn of the loop in roi_ipc_process_stream_bytes that does not end it
\* takes at least one byte out of the buffer, so the loop ends.
TurnShrinks == Scan /\ a_pc' = "scan" => Buffered' < Buffered

\* No byte sequence and no declared size keeps the worker in the loop: a turn
\* that goes on leaves fewer bytes than it found.
THEOREM LoopEnds == AssemblerSpec => [][TurnShrinks]_assemblerVars
<1>1. AssemblerInv => TurnShrinks
  <2> SUFFICES ASSUME AssemblerInv, Scan, a_pc' = "scan"
               PROVE  Buffered' < Buffered
      BY DEF TurnShrinks
  <2>1. stream_buffer \in Seq(Nat) /\ Buffered = Len(stream_buffer)
        /\ Buffered \in Nat
      BY InvFacts DEF Buffered
  <2>2. ASSUME NEW k \in 1..Buffered, stream_buffer' = Drop(stream_buffer, k)
        PROVE  Buffered' < Buffered
    <3>1. k \in 0..Len(stream_buffer)
        BY <2>1
    <3>2. Buffered' = Buffered - k
        BY <2>1, <2>2, <3>1, DropFacts DEF Buffered
    <3> HIDE DEF Buffered
    <3>3. QED
        BY <2>1, <3>2
  <2>3. CASE SkipToMagic
    <3>1. /\ FindMagic(stream_buffer, 1) > 1
          /\ stream_buffer' = Drop(stream_buffer, FindMagic(stream_buffer, 1) - 1)
        BY <2>3 DEF SkipToMagic
    <3>2. FindMagic(stream_buffer, 1) \in 0..Buffered
        BY <2>1, FindMagicFacts
    <3>3. FindMagic(stream_buffer, 1) - 1 \in 1..Buffered
        BY <2>1, <3>1, <3>2
    <3>4. QED
        BY <2>2, <3>1, <3>3
  <2>4. CASE SkipBadSize
    <3>1. AtHeader /\ stream_buffer' = Drop(stream_buffer, 1)
        BY <2>4 DEF SkipBadSize
    <3>2. 1 \in 1..Buffered
        BY <3>1, AtHeaderFacts, Sizes
    <3>3. QED
        BY <2>2, <3>1, <3>2
  <2>5. CASE TakeMessage
    <3>1. /\ AtHeader /\ ~BadSize(Declared) /\ Buffered >= Declared
          /\ stream_buffer' = Drop(stream_buffer, Declared)
        BY <2>5 DEF TakeMessage
    <3>2. Declared \in Nat /\ Len(Magic) + 4 <= Declared
        BY <3>1, AtHeaderFacts, GoodSize
    <3>3. Declared \in 1..Buffered
      <4> HIDE DEF Declared, Buffered
      <4>1. QED
          BY <2>1, <3>1, <3>2, Sizes
    <3>4. QED
        BY <2>2, <3>1, <3>3
  <2>6. CASE Wait \/ KeepTail
      BY <2>6 DEF Wait, KeepTail
  <2>7. QED
      BY <2>3, <2>4, <2>5, <2>6 DEF Scan
<1>2. QED
    BY <1>1, AssemblerInvariant, PTL

\* Between reads, the buffer holds no message that could be delivered.
LEMMA NothingLeft ==
    ASSUME AssemblerInv, a_pc = "read" PROVE Messages(stream_buffer) = <<>>
<1>1. stream_buffer \in Seq(Nat) /\ Buffered = Len(stream_buffer)
      /\ Buffered \in Nat
    BY InvFacts DEF Buffered
<1>2. CASE Buffered < Len(Magic)
    BY <1>1, <1>2, TooShort
<1>3. CASE MagicAt(stream_buffer, 1) /\ Buffered < MessageSizeAt
    BY <1>1, <1>3, AtMagic
<1>4. CASE /\ MagicAt(stream_buffer, 1) /\ ~(Buffered < MessageSizeAt)
           /\ ~BadSize(Declared) /\ Buffered < Declared
  <2>1. Len(stream_buffer) >= MessageSizeAt
      BY <1>1, <1>4, Sizes
  <2>2. QED
      BY <1>1, <1>4, <2>1, AtMagic DEF Declared
<1>5. QED
    BY <1>2, <1>3, <1>4 DEF AssemblerInv, Waiting

\* However the bytes are cut into reads, what roi_ipc_process_stream_bytes has
\* delivered since bytes were last given up is what a reader of all the bytes
\* at once finds in them.
THEOREM ChunkingCorrect == AssemblerSpec => []ChunkingIsIrrelevant
<1>1. AssemblerInv => ChunkingIsIrrelevant
  <2> SUFFICES ASSUME AssemblerInv, a_pc = "read"
               PROVE  delivered = Messages(Kept)
      BY DEF ChunkingIsIrrelevant, Kept
  <2>1. /\ Kept \in Seq(Nat) /\ stream_buffer \in Seq(Nat) /\ <<>> \in Seq(Nat)
        /\ delivered \in Seq(Seq(Nat))
      BY InvFacts DEF AssemblerInv, AssemblerTypeOK
  <2>2. Messages(Kept \o <<>>) = delivered \o Messages(stream_buffer \o <<>>)
      BY <2>1 DEF AssemblerInv, ForgotNothing
  <2>3. Kept \o <<>> = Kept /\ stream_buffer \o <<>> = stream_buffer
        /\ delivered \o <<>> = delivered
      BY <2>1, ConcatEmptySeq
  <2>4. QED
      BY <2>2, <2>3, NothingLeft
<1>2. QED
    BY <1>1, AssemblerInvariant, PTL

-----------------------------------------------------------------------------
(* Where each item lies in the bytes *)

\* Where the first n items end.
Ends(items, n) == Len(FirstBytes(items)[n])

LEMMA EndsFacts ==
    ASSUME NEW items \in Seq(Seq(Nat))
    PROVE  /\ Len(items) \in Nat /\ Ends(items, 0) = 0
           /\ Ends(items, Len(items)) = Len(Bytes(items))
           /\ \A n \in 0..Len(items) : Ends(items, n) \in Nat
           /\ \A n \in 0..Len(items) - 1 :
                /\ items[n + 1] \in Seq(Nat)
                /\ Ends(items, n + 1) = Ends(items, n) + Len(items[n + 1])
<1> DEFINE f == FirstBytes(items)
<1>1. Len(items) \in Nat
    OBVIOUS
<1>2. f[0] = <<>> /\ (\A n \in 0..Len(items) - 1 : f[n + 1] = f[n] \o items[n + 1])
      /\ \A n \in 0..Len(items) : f[n] \in Seq(Nat)
    BY <1>1, FirstBytesStep, FirstBytesType
<1>3. Ends(items, Len(items)) = Len(Bytes(items))
    BY BytesIsFirstBytes DEF Ends
<1>4. \A n \in 0..Len(items) : Ends(items, n) = Len(f[n])
    BY DEF Ends
<1> HIDE DEF f
<1>5. ASSUME NEW n \in 0..Len(items) - 1
      PROVE  /\ items[n + 1] \in Seq(Nat)
             /\ Ends(items, n + 1) = Ends(items, n) + Len(items[n + 1])
  <2>1. n \in 0..Len(items) /\ n + 1 \in 0..Len(items) /\ n + 1 \in 1..Len(items)
      OBVIOUS
  <2>2. items[n + 1] \in Seq(Nat)
      BY <2>1
  <2>3. f[n] \in Seq(Nat) /\ f[n + 1] = f[n] \o items[n + 1]
      BY <2>1, <1>2
  <2>4. Len(f[n] \o items[n + 1]) = Len(f[n]) + Len(items[n + 1])
      BY <2>2, <2>3, ConcatProperties
  <2>5. QED
      BY <2>1, <2>2, <2>3, <2>4, <1>4
<1>6. Ends(items, 0) = 0
  <2>1. 0 \in 0..Len(items)
      OBVIOUS
  <2>2. Ends(items, 0) = Len(f[0])
      BY <2>1, <1>4
  <2>3. QED
      BY <2>2, <1>2
<1>7. \A n \in 0..Len(items) : Ends(items, n) \in Nat
    BY <1>2, <1>4
<1>8. QED
    BY <1>1, <1>3, <1>5, <1>6, <1>7

LEMMA EndsMonotone ==
    ASSUME NEW items \in Seq(Seq(Nat))
    PROVE  \A n \in 0..Len(items) : \A m \in 0..n : Ends(items, m) <= Ends(items, n)
<1> DEFINE e(n) == Ends(items, n)
           T == {n \in Nat : \A m \in 0..n : e(m) <= e(n)}
<1>1. 0 \in T
    BY EndsFacts
<1>2. ASSUME NEW n \in 0..Len(items) - 1, n \in T PROVE n + 1 \in T
  <2> SUFFICES ASSUME NEW m \in 0..n + 1 PROVE e(m) <= e(n + 1)
      OBVIOUS
  <2>1. e(n) <= e(n + 1) /\ e(n) \in Nat /\ e(n + 1) \in Nat
    <3>1. n \in 0..Len(items) /\ n + 1 \in 0..Len(items)
        OBVIOUS
    <3>2. e(n + 1) = e(n) + Len(items[n + 1]) /\ items[n + 1] \in Seq(Nat)
          /\ e(n) \in Nat /\ e(n + 1) \in Nat
        BY <3>1, EndsFacts
    <3> HIDE DEF e
    <3>3. QED
        BY <3>2
  <2>2. CASE m = n + 1
      BY <2>1, <2>2
  <2>3. CASE m # n + 1
    <3>1. m \in 0..n /\ m \in 0..Len(items)
        BY <2>3
    <3>2. e(m) <= e(n) /\ e(m) \in Nat
        BY <3>1, <1>2, EndsFacts
    <3> HIDE DEF e
    <3>3. QED
        BY <3>2, <2>1
  <2>4. QED
      BY <2>2, <2>3
<1>3. \A n \in 0..Len(items) : n \in T
  <2> HIDE DEF T
  <2>1. Len(items) \in Nat
      OBVIOUS
  <2>2. QED
      BY <1>1, <1>2, <2>1, BoundedInduction
<1>4. QED
    BY <1>3

\* The bytes of an item, where it lies.
LEMMA ItemByte ==
    ASSUME NEW items \in Seq(Seq(Nat)), NEW n \in 0..Len(items) - 1,
           NEW j \in 1..Len(items[n + 1])
    PROVE  Bytes(items)[Ends(items, n) + j] = items[n + 1][j]
<1> DEFINE f == FirstBytes(items)
           p == Ends(items, n) + j
           T == {k \in Nat : p <= Len(f[n + 1 + k]) /\
                                f[n + 1 + k][p] = items[n + 1][j]}
<1>1. /\ \A m \in 0..Len(items) - 1 : f[m + 1] = f[m] \o items[m + 1]
      /\ \A m \in 0..Len(items) - 1 : items[m + 1] \in Seq(Nat)
      /\ \A m \in 0..Len(items) : f[m] \in Seq(Nat)
  <2>1. Len(items) \in Nat
      OBVIOUS
  <2>2. QED
      BY <2>1, FirstBytesStep, FirstBytesType, EndsFacts
<1>2. Ends(items, n) = Len(f[n])
    BY DEF Ends
<1>3. Bytes(items) = f[Len(items)]
    BY BytesIsFirstBytes
<1> HIDE DEF f
<1>4. p \in Nat \ {0}
  <2>1. f[n] \in Seq(Nat)
      BY <1>1
  <2>2. QED
      BY <2>1, <1>2
<1>5. 0 \in T
  <2>1. f[n] \in Seq(Nat) /\ items[n + 1] \in Seq(Nat)
        /\ f[n + 1] = f[n] \o items[n + 1]
    <3>1. n \in 0..Len(items) /\ n \in 0..Len(items) - 1
        OBVIOUS
    <3> HIDE DEF p
    <3>2. QED
        BY <3>1, <1>1
  <2>2. /\ Len(f[n] \o items[n + 1]) = Len(f[n]) + Len(items[n + 1])
        /\ (f[n] \o items[n + 1])[Len(f[n]) + j] = items[n + 1][j]
      BY <2>1, ConcatFacts
  <2>3. p = Len(f[n]) + j
      BY <1>2
  <2>4. Len(f[n]) \in Nat /\ Len(items[n + 1]) \in Nat
      BY <2>1
  <2>5. p <= Len(f[n + 1])
    <3> HIDE DEF p
    <3>1. QED
        BY <2>1, <2>2, <2>3, <2>4
  <2>6. f[n + 1][p] = items[n + 1][j]
      BY <2>1, <2>2, <2>3
  <2>7. n + 1 + 0 = n + 1
      OBVIOUS
  <2> HIDE DEF p
  <2>8. QED
      BY <2>5, <2>6, <2>7
<1>6. ASSUME NEW k \in 0..(Len(items) - (n + 1)) - 1, k \in T PROVE k + 1 \in T
  <2> DEFINE m == n + 1 + k
  <2>1. m \in 0..Len(items) - 1 /\ m \in 0..Len(items) /\ n + 1 + (k + 1) = m + 1
      OBVIOUS
  <2> HIDE DEF p, m
  <2>2. p <= Len(f[m]) /\ f[m][p] = items[n + 1][j]
      BY <1>6 DEF m
  <2>3. f[m] \in Seq(Nat) /\ items[m + 1] \in Seq(Nat)
        /\ f[m + 1] = f[m] \o items[m + 1]
      BY <2>1, <1>1
  <2>4. /\ Len(f[m] \o items[m + 1]) = Len(f[m]) + Len(items[m + 1])
        /\ (f[m] \o items[m + 1])[p] = f[m][p]
    <3>1. p \in 1..Len(f[m])
        BY <2>2, <2>3, <1>4
    <3>2. QED
        BY <3>1, <2>3, ConcatFacts
  <2>5. Len(f[m]) \in Nat /\ Len(items[m + 1]) \in Nat
      BY <2>3, LenType, Zenon
  <2>6. Len(f[m + 1]) = Len(f[m]) + Len(items[m + 1]) /\ f[m + 1][p] = f[m][p]
      BY <2>3, <2>4
  <2>7. p <= Len(f[m + 1]) /\ f[m + 1][p] = items[n + 1][j]
    <3>1. f[m + 1][p] = items[n + 1][j]
        BY <2>2, <2>6
    <3>2. p <= Len(f[m]) /\ Len(f[m + 1]) = Len(f[m]) + Len(items[m + 1])
        BY <2>2, <2>6
    <3>3. p <= Len(f[m + 1])
      <4> DEFINE a == Len(f[m])
                 b == Len(items[m + 1])
                 c == Len(f[m + 1])
      <4>1. a \in Nat /\ b \in Nat /\ p \in Nat /\ p <= a /\ c = a + b
          BY <3>2, <2>5, <1>4
      <4> HIDE DEF a, b, c
      <4>2. p <= c
          BY <4>1
      <4>3. QED
          BY <4>2 DEF c
    <3>4. QED
        BY <3>1, <3>3
  <2>8. k + 1 \in Nat
      OBVIOUS
  <2>9. QED
      BY <2>1, <2>7, <2>8
<1>7. Len(items) - (n + 1) \in T
  <2> DEFINE K == Len(items) - (n + 1)
  <2>1. K \in Nat /\ K \in 0..K
      OBVIOUS
  <2> HIDE DEF T, K
  <2>2. \A k \in 0..K - 1 : k \in T => k + 1 \in T
      BY <1>6 DEF K
  <2>3. K \in T
      BY <2>1, <2>2, <1>5, BoundedInduction
  <2>4. QED
      BY <2>3 DEF K
<1>8. n + 1 + (Len(items) - (n + 1)) = Len(items)
    OBVIOUS
<1> HIDE DEF p
<1>9. Bytes(items)[p] = items[n + 1][j]
    BY <1>3, <1>7, <1>8
<1>10. QED
    BY <1>9 DEF p

\* The bytes of the first n items.
LEMMA FirstItems ==
    ASSUME NEW items \in Seq(Seq(Nat)), NEW n \in 0..Len(items)
    PROVE  Len(Bytes(SubSeq(items, 1, n))) = Ends(items, n)
<1> DEFINE t == SubSeq(items, 1, n)
           f == FirstBytes(items)
           g == FirstBytes(t)
           T == {m \in Nat : g[m] = f[m]}
<1>1. Len(t) = n /\ \A i \in 1..n : t[i] = items[i]
  <2>1. \A i \in 1..n : items[i] \in Seq(Nat)
      OBVIOUS
  <2>2. /\ Len(t) = IF 1 <= n THEN n - 1 + 1 ELSE 0
        /\ \A i \in 1..n - 1 + 1 : t[i] = items[1 + i - 1]
    <3>1. 1 \in Int /\ n \in Int
        OBVIOUS
    <3>2. QED
        BY <3>1, <2>1, SubSeqProperties
  <2> HIDE DEF t
  <2>3. QED
      BY <2>2
<1> HIDE DEF t
<1>2. /\ f[0] = <<>> /\ \A m \in 0..Len(items) - 1 : f[m + 1] = f[m] \o items[m + 1]
      /\ g[0] = <<>> /\ \A m \in 0..n - 1 : g[m + 1] = g[m] \o t[m + 1]
  <2>1. Len(items) \in Nat /\ Len(t) \in Nat
      BY <1>1
  <2>2. QED
      BY <2>1, <1>1, FirstBytesStep
<1>3. Bytes(t) = g[n] /\ Ends(items, n) = Len(f[n])
    BY <1>1, BytesIsFirstBytes DEF Ends
<1> HIDE DEF f, g
<1>4. 0 \in T
    BY <1>2
<1>5. ASSUME NEW m \in 0..n - 1, m \in T PROVE m + 1 \in T
  <2>1. m \in 0..Len(items) - 1 /\ m + 1 \in 1..n /\ m + 1 \in Nat
      OBVIOUS
  <2>2. f[m + 1] = f[m] \o items[m + 1] /\ g[m + 1] = g[m] \o t[m + 1]
      BY <2>1, <1>2
  <2>3. g[m] = f[m] /\ t[m + 1] = items[m + 1]
      BY <2>1, <1>1, <1>5
  <2>4. g[m + 1] = f[m + 1]
      BY <2>2, <2>3
  <2>5. QED
      BY <2>1, <2>4
<1>6. n \in T
  <2> HIDE DEF T
  <2>1. n \in Nat /\ n \in 0..n
      OBVIOUS
  <2>2. QED
      BY <2>1, <1>4, <1>5, BoundedInduction
<1>7. Len(Bytes(t)) = Ends(items, n)
    BY <1>3, <1>6
<1>8. QED
    BY <1>7 DEF t

\* Every byte lies in an item.
LEMMA InItem ==
    ASSUME NEW items \in Seq(Seq(Nat)), NEW q \in 1..Len(Bytes(items))
    PROVE  \E n \in 0..Len(items) - 1 :
                Ends(items, n) < q /\ q <= Ends(items, n + 1)
<1> DEFINE e(n) == Ends(items, n)
           T == {n \in 0..Len(items) : q <= e(n)}
<1>1. /\ Len(items) \in Nat /\ e(0) = 0 /\ q <= e(Len(items)) /\ q \in Nat \ {0}
      /\ \A n \in 0..Len(items) : e(n) \in Nat
  <2>1. Bytes(items) \in Seq(Nat)
      BY FirstBytesType
  <2>2. QED
      BY <2>1, EndsFacts
<1> HIDE DEF e
<1>2. Len(items) \in T /\ T \in SUBSET Nat
    BY <1>1
<1>3. PICK m \in T : \A k \in T : m <= k
    BY <1>2, HasSmallest
<1>4. m # 0
    BY <1>1, <1>3
<1>5. m - 1 \in 0..Len(items) - 1 /\ m - 1 + 1 = m /\ m - 1 \notin T
    BY <1>1, <1>3, <1>4
<1>6. e(m - 1) < q /\ q <= e(m)
  <2>1. m - 1 \in 0..Len(items) /\ q <= e(m)
      BY <1>1, <1>3, <1>5
  <2>2. ~(q <= e(m - 1)) /\ e(m - 1) \in Nat
      BY <2>1, <1>1, <1>5
  <2>3. QED
      BY <2>1, <2>2, <1>1
<1>7. QED
    BY <1>5, <1>6 DEF e

-----------------------------------------------------------------------------
(* Writes that keep the stream in step *)

\* (A step about lengths that mentions no sequence.)
LEMMA NotOne ==
    ASSUME NEW n \in Nat
    PROVE  n > 1 <=> n # 0 /\ n # 1
OBVIOUS

LEMMA InStepFacts ==
    ASSUME NEW item \in Seq(Nat), InStep(item)
    PROVE  /\ Len(item) \in Nat \ {0}
           /\ Len(item) > 1 =>
                /\ MessageSize <= Len(item) /\ Len(item) + ReadMax <= BufferCap + 1
                /\ ~BadSize(Len(item)) /\ Len(Magic) + 4 <= Len(item)
                /\ item[MessageSizeAt] = Len(item)
                /\ \A k \in 1..Len(Magic) : item[k] = Magic[k]
           /\ Len(item) = 1 => item[1] # Magic[Len(Magic)]
<1>1. Len(item) \in Nat
    OBVIOUS
<1>2. CASE /\ Len(item) \in MessageSize..BufferCap - ReadMax + 1
           /\ MagicAt(item, 1) /\ item[MessageSizeAt] = Len(item)
  <2>1. MessageSize <= Len(item) /\ Len(item) + ReadMax <= BufferCap + 1
        /\ Len(Magic) + 4 <= Len(item) /\ Len(item) <= BufferCap
    <3> DEFINE len == Len(item)
    <3>1. len \in Nat /\ len \in MessageSize..BufferCap - ReadMax + 1
        BY <1>1, <1>2
    <3> HIDE DEF len
    <3>2. MessageSize <= len /\ len + ReadMax <= BufferCap + 1
          /\ Len(Magic) + 4 <= len /\ len <= BufferCap
        BY <3>1, Sizes
    <3>3. QED
        BY <3>2 DEF len
  <2>2. ~BadSize(Len(item))
      BY <1>1, <2>1, GoodSize
  <2>3. \A k \in 1..Len(Magic) : item[k] = Magic[k]
    <3>1. \A k \in 1..Len(Magic) : item[1 + k - 1] = Magic[k]
        BY <1>2, MagicBytes
    <3>2. \A k \in 1..Len(Magic) : 1 + k - 1 = k
        BY Sizes
    <3>3. QED
        BY <3>1, <3>2
  <2>4. Len(item) > 1
      BY <1>1, <2>1, Sizes
  <2>5. Len(item) # 1 /\ Len(item) \in Nat \ {0}
      BY <2>4, <1>1, NotOne
  <2>6. QED
      BY <2>1, <2>2, <2>3, <2>5, <1>2
<1>3. CASE Len(item) = 1 /\ item[1] # Magic[Len(Magic)]
    BY <1>3
<1>4. QED
    BY <1>2, <1>3 DEF InStep

\* No magic number begins at a byte of its own: the first place where the last
\* byte of the magic number stands in it would be inside a later message, before
\* that place in the message's own magic number.
LEMMA NoStraddling ==
    ASSUME NEW items \in Seq(Seq(Nat)),
           \A i \in 1..Len(items) : InStep(items[i]),
           NEW n \in 0..Len(items) - 1, Len(items[n + 1]) = 1
    PROVE  ~MagicAt(Bytes(items), Ends(items, n) + 1)
<1> DEFINE s == Bytes(items)
           e(m) == Ends(items, m)
           p == e(n) + 1
           L == Len(Magic)
           Same == {r \in 1..L : Magic[r] = Magic[L]}
<1> SUFFICES ASSUME MagicAt(s, p) PROVE FALSE
    OBVIOUS
<1>1. s \in Seq(Nat) /\ Len(items) \in Nat
      /\ (\A m \in 0..Len(items) : e(m) \in Nat)
      /\ \A m \in 0..Len(items) - 1 : /\ items[m + 1] \in Seq(Nat)
                                      /\ e(m + 1) = e(m) + Len(items[m + 1])
    BY FirstBytesType, EndsFacts
<1>2. L \in Nat \ {0} /\ p \in Nat \ {0} /\ e(n + 1) = p
  <2>1. n \in 0..Len(items) - 1 /\ n \in 0..Len(items)
      OBVIOUS
  <2> HIDE DEF e
  <2>2. e(n) \in Nat /\ e(n + 1) = e(n) + Len(items[n + 1])
      BY <2>1, <1>1
  <2>3. e(n + 1) = e(n) + 1
      BY <2>2
  <2>4. p \in Nat \ {0}
      BY <2>2
  <2>5. QED
      BY <2>3, <2>4, Sizes, Zenon
<1>3. \A m \in 0..Len(items) : \A k \in 0..m : e(k) <= e(m)
    BY EndsMonotone
<1>4. \A m \in 0..Len(items) - 1 : \A j \in 1..Len(items[m + 1]) :
            s[e(m) + j] = items[m + 1][j]
    BY ItemByte
<1>5. \A q \in 1..Len(s) : \E m \in 0..Len(items) - 1 : e(m) < q /\ q <= e(m + 1)
    BY InItem
<1> HIDE DEF s, e, p
<1>6. p + L - 1 <= Len(s) /\ \A k \in 1..L : s[p + k - 1] = Magic[k]
    BY <1>1, <1>2, MagicBytes
<1>7. PICK r \in Same : \A k \in Same : r <= k
  <2>1. L \in Same /\ Same \in SUBSET Nat
      BY <1>2
  <2> HIDE DEF Same
  <2>2. QED
      BY <2>1, HasSmallest
<1> DEFINE q == p + r - 1
<1>8. r \in 1..L /\ Magic[r] = Magic[L] /\ q \in 1..Len(s) /\ s[q] = Magic[L]
      /\ p <= q /\ q <= p + r - 1
    BY <1>1, <1>2, <1>6, <1>7
<1>9. PICK m \in 0..Len(items) - 1 : e(m) < q /\ q <= e(m + 1)
    BY <1>5, <1>8
<1> DEFINE item == items[m + 1]
           o == q - e(m)
<1>10. /\ m + 1 \in 1..Len(items) /\ item \in Seq(Nat) /\ e(m) \in Nat
       /\ e(m + 1) = e(m) + Len(item) /\ InStep(item)
  <2>1. m + 1 \in 1..Len(items) /\ m \in 0..Len(items)
      BY <1>1
  <2>2. item \in Seq(Nat) /\ e(m + 1) = e(m) + Len(item)
      BY <1>1
  <2>3. e(m) \in Nat
      BY <2>1, <1>1
  <2>4. InStep(item)
      BY <2>1
  <2>5. QED
      BY <2>1, <2>2, <2>3, <2>4, Zenon
<1> HIDE DEF q, item
<1>11. o \in 1..Len(item) /\ item[o] = Magic[L] /\ o \in Nat
       /\ e(m) + o = q
  <2>1. o \in 1..Len(item) /\ e(m) + o = q
    <3>1. q \in Nat /\ Len(item) \in Nat /\ e(m) \in Nat
        BY <1>1, <1>8, <1>10
    <3>2. e(m) < q /\ q <= e(m) + Len(item)
        BY <1>9, <1>10
    <3> DEFINE len == Len(item)
               a == e(m)
    <3>3. q \in Nat /\ len \in Nat /\ a \in Nat /\ a < q /\ q <= a + len
        BY <3>1, <3>2
    <3> HIDE DEF len, a
    <3>4. q - a \in 1..len /\ a + (q - a) = q
        BY <3>3
    <3>5. QED
        BY <3>4 DEF len, a
  <2> HIDE DEF o
  <2>2. s[e(m) + o] = item[o]
      BY <2>1, <1>4 DEF item
  <2>3. QED
      BY <2>1, <2>2, <1>8
<1> HIDE DEF o
<1>12. CASE Len(item) = 1
  <2>1. o = 1
      BY <1>11, <1>12
  <2>2. item[1] # Magic[L]
      BY <1>10, <1>12, InStepFacts
  <2>3. QED
      BY <2>1, <2>2, <1>11
<1>13. CASE Len(item) # 1
  <2>1. m # n
      BY <1>13 DEF item
  <2>2. m > n
    <3> SUFFICES ASSUME m < n PROVE FALSE
        BY <2>1
    <3>1. m + 1 \in 0..n /\ n \in 0..Len(items)
        OBVIOUS
    <3>2. e(m + 1) <= e(n) /\ e(n) \in Nat /\ e(m + 1) \in Nat
        BY <3>1, <1>1, <1>3
    <3>3. q <= e(n) /\ p = e(n) + 1
        BY <3>2, <1>8, <1>9 DEF p
    <3>4. QED
        BY <3>2, <3>3, <1>2, <1>8
  <2>3. p <= e(m)
    <3>1. n + 1 \in 0..m /\ m \in 0..Len(items)
        BY <2>2
    <3>2. QED
        BY <3>1, <1>2, <1>3
  <2>4. o < r /\ o \in 1..L
    <3>1. o \in Nat /\ o >= 1 /\ e(m) + o = q /\ e(m) \in Nat
        BY <1>10, <1>11
    <3>2. r \in Nat /\ r <= L /\ p \in Nat /\ q = p + r - 1
        BY <1>2, <1>8 DEF q
    <3>3. QED
        BY <3>1, <3>2, <2>3, <1>2
  <2>5. item[o] = Magic[o]
    <3>1. Len(item) > 1
      <4>1. Len(item) \in Nat \ {0}
          BY <1>10, InStepFacts
      <4>2. QED
          BY <4>1, <1>13, NotOne
    <3>2. QED
        BY <3>1, <2>4, <1>10, InStepFacts
  <2>6. o \in Same
      BY <2>4, <2>5, <1>11
  <2>7. QED
      BY <2>4, <2>6, <1>7, <1>8
<1>14. QED
    BY <1>12, <1>13

LEMMA DropDrop ==
    ASSUME NEW s \in Seq(Nat), NEW k \in 0..Len(s), NEW i \in 0..Len(s) - k
    PROVE  Drop(Drop(s, k), i) = Drop(s, k + i)
<1>1. i + 1 \in 1..Len(s) - k + 1 /\ Len(s) - k \in (i + 1) - 1..Len(s) - k
      /\ (i + 1) + k = (k + i) + 1 /\ (Len(s) - k) + k = Len(s)
    OBVIOUS
<1>2. SubSeq(Drop(s, k), i + 1, Len(s) - k) =
            SubSeq(s, (i + 1) + k, (Len(s) - k) + k)
    BY <1>1, PieceShift
<1>3. Len(Drop(s, k)) = Len(s) - k
    BY DropFacts
<1>4. Drop(Drop(s, k), i) = SubSeq(Drop(s, k), i + 1, Len(Drop(s, k)))
    BY DEF Drop
<1>5. Drop(s, k + i) = SubSeq(s, (k + i) + 1, Len(s))
    BY DEF Drop
<1>6. QED
    BY <1>1, <1>2, <1>3, <1>4, <1>5

\* The first a bytes hold the magic numbers of all bytes that end among them.
LEMMA FirstMagic ==
    ASSUME NEW s \in Seq(Nat), NEW a \in 0..Len(s), NEW i \in Nat \ {0},
           MagicAt(SubSeq(s, 1, a), i)
    PROVE  MagicAt(s, i)
<1> DEFINE k == SubSeq(s, 1, a)
<1>1. 1 \in 1..Len(s) + 1 /\ a \in 1 - 1..Len(s) /\ a - 1 + 1 = a
    OBVIOUS
<1>2. k \in Seq(Nat) /\ Len(k) = a /\ \A j \in 1..a : k[j] = s[1 + j - 1]
    BY <1>1, PieceFacts
<1> HIDE DEF k
<1>3. i + Len(Magic) - 1 <= a /\ \A j \in 1..Len(Magic) : k[i + j - 1] = Magic[j]
    BY <1>2, MagicBytes DEF k
<1>4. \A j \in 1..Len(Magic) : s[i + j - 1] = Magic[j]
  <2> TAKE j \in 1..Len(Magic)
  <2>1. i + j - 1 \in 1..a /\ 1 + (i + j - 1) - 1 = i + j - 1
      BY <1>3, Sizes
  <2>2. QED
      BY <2>1, <1>2, <1>3
<1>5. i + Len(Magic) - 1 <= Len(s)
    BY <1>3, Sizes
<1>6. QED
    BY <1>4, <1>5, MagicBytes

\* What the first a bytes hold from the beginning of item n + 1 on.
LEMMA ItemAt ==
    ASSUME NEW items \in Seq(Seq(Nat)), NEW a \in 0..Len(Bytes(items)),
           NEW n \in 0..Len(items) - 1, Ends(items, n) <= a
    PROVE  LET k == SubSeq(Bytes(items), 1, a)
               t == Drop(k, Ends(items, n))
               item == items[n + 1]
           IN  /\ k \in Seq(Nat) /\ Len(k) = a /\ Ends(items, n) \in 0..Len(k)
               /\ t \in Seq(Nat) /\ Len(t) = a - Ends(items, n)
               /\ item \in Seq(Nat)
               /\ \A j \in 1..Len(item) : j <= Len(t) => t[j] = item[j]
<1> DEFINE s == Bytes(items)
           k == SubSeq(s, 1, a)
           e == Ends(items, n)
           t == Drop(k, e)
           item == items[n + 1]
<1>1. s \in Seq(Nat) /\ item \in Seq(Nat) /\ e \in Nat
  <2>1. n \in 0..Len(items)
      OBVIOUS
  <2>2. QED
      BY <2>1, FirstBytesType, EndsFacts
<1>2. \A j \in 1..Len(item) : s[e + j] = item[j]
    BY ItemByte
<1> HIDE DEF s, e, item
<1>3. a \in 0..Len(s) /\ e <= a
    BY DEF s, e
<1>4. k \in Seq(Nat) /\ Len(k) = a /\ \A j \in 1..a : k[j] = s[1 + j - 1]
  <2>1. 1 \in 1..Len(s) + 1 /\ a \in 1 - 1..Len(s) /\ a - 1 + 1 = a
      BY <1>1, <1>3
  <2>2. QED
      BY <2>1, <1>1, PieceFacts
<1> HIDE DEF k
<1>5. e \in 0..Len(k)
    BY <1>1, <1>3, <1>4
<1>6. t \in Seq(Nat) /\ Len(t) = Len(k) - e
      /\ \A j \in 1..Len(k) - e : t[j] = k[j + e]
    BY <1>4, <1>5, DropFacts
<1> HIDE DEF t
<1>7. ASSUME NEW j \in 1..Len(item), j <= Len(t) PROVE t[j] = item[j]
  <2>1. j \in 1..Len(k) - e /\ j + e \in 1..a /\ 1 + (j + e) - 1 = e + j
      BY <1>1, <1>4, <1>5, <1>6, <1>7
  <2>2. QED
      BY <2>1, <1>2, <1>4, <1>6
<1>8. QED
    BY <1>1, <1>4, <1>5, <1>6, <1>7 DEF s, k, e, t, item

\* An item that has not arrived completely gives nothing yet.
LEMMA PartialItem ==
    ASSUME NEW items \in Seq(Seq(Nat)), NEW a \in 0..Len(Bytes(items)),
           NEW n \in 0..Len(items) - 1, InStep(items[n + 1]),
           Ends(items, n) <= a, a < Ends(items, n + 1)
    PROVE  Messages(Drop(SubSeq(Bytes(items), 1, a), Ends(items, n))) = <<>>
<1> DEFINE t == Drop(SubSeq(Bytes(items), 1, a), Ends(items, n))
           item == items[n + 1]
           len == Len(item)
           have == Len(t)
<1> SUFFICES Messages(t) = <<>>
    OBVIOUS
<1>1. t \in Seq(Nat) /\ item \in Seq(Nat) /\ have = a - Ends(items, n)
      /\ \A j \in 1..len : j <= have => t[j] = item[j]
    BY ItemAt
<1>2. have \in Nat /\ len \in Nat
    BY <1>1
<1>0. t \in Seq(Nat)
    BY <1>1
<1>3. InStep(item) /\ Ends(items, n + 1) = Ends(items, n) + len
      /\ Ends(items, n) \in Nat
  <2>1. n \in 0..Len(items)
      OBVIOUS
  <2>2. QED
      BY <2>1, EndsFacts
<1> HIDE DEF t, item
<1>4. have < len
  <2> DEFINE e == Ends(items, n)
  <2>1. e \in Nat /\ have = a - e /\ a < e + len /\ a \in Nat
      BY <1>1, <1>3
  <2> HIDE DEF e, have, len
  <2>2. QED
      BY <2>1, <1>2
<1>5. CASE have < Len(Magic)
    BY <1>0, <1>5, TooShort
<1>6. CASE ~(have < Len(Magic))
  <2>1. len > 1
    <3> HIDE DEF have, len
    <3>1. QED
        BY <1>2, <1>4, <1>6, Sizes
  <2>2. /\ item[MessageSizeAt] = len /\ ~BadSize(len) /\ Len(Magic) + 4 <= len
        /\ \A j \in 1..Len(Magic) : item[j] = Magic[j]
      BY <2>1, <1>1, <1>3, InStepFacts
  <2>3. MagicAt(t, 1)
    <3>1. \A j \in 1..Len(Magic) : t[1 + j - 1] = Magic[j]
      <4> TAKE j \in 1..Len(Magic)
      <4>1. 1 + j - 1 = j /\ j \in 1..len /\ j <= have
        <5> HIDE DEF have, len
        <5>1. QED
            BY <1>2, <1>6, <2>2, Sizes
      <4>2. QED
          BY <4>1, <1>1, <2>2
    <3>2. 1 + Len(Magic) - 1 <= have
      <4> HIDE DEF have
      <4>1. QED
          BY <1>2, <1>6, Sizes
    <3>3. QED
      <4>1. 1 \in Nat \ {0}
          OBVIOUS
      <4>2. QED
          BY <3>1, <3>2, <4>1, <1>0, MagicBytes
  <2>4. CASE have < MessageSizeAt
      BY <2>3, <2>4, <1>0, AtMagic
  <2>5. CASE ~(have < MessageSizeAt)
    <3>1. have >= MessageSizeAt /\ MessageSizeAt \in 1..len
      <4>1. /\ Len(Magic) + 4 <= len /\ len \in Nat /\ have \in Nat
            /\ ~(have < MessageSizeAt)
          BY <2>2, <2>5, <1>2
      <4> HIDE DEF have, len
      <4>2. MessageSizeAt \in 1..len
          BY <4>1, SizeInside
      <4>3. MessageSizeAt \in Nat
          BY Sizes
      <4>4. QED
          BY <4>1, <4>2, <4>3
    <3>2. t[MessageSizeAt] = len
        BY <3>1, <1>1, <2>2
    <3>3. QED
      <4>1. Len(t) >= MessageSizeAt /\ ~BadSize(t[MessageSizeAt])
            /\ Len(t) < t[MessageSizeAt]
          BY <3>1, <3>2, <2>2, <1>4
      <4>2. QED
          BY <4>1, <2>3, <1>0, AtMagic
  <2>6. QED
      BY <2>4, <2>5
<1>7. QED
    BY <1>5, <1>6

\* An item that has arrived completely gives itself, if it decodes, and then
\* what follows it.
LEMMA WholeItem ==
    ASSUME NEW items \in Seq(Seq(Nat)), NEW a \in 0..Len(Bytes(items)),
           \A i \in 1..Len(items) : InStep(items[i]),
           NEW n \in 0..Len(items) - 1, Ends(items, n + 1) <= a
    PROVE  LET k == SubSeq(Bytes(items), 1, a)
               item == items[n + 1]
           IN  Messages(Drop(k, Ends(items, n))) =
                    (IF Decode(item) = "ok" THEN <<item>> ELSE <<>>)
                        \o Messages(Drop(k, Ends(items, n + 1)))
<1> DEFINE k == SubSeq(Bytes(items), 1, a)
           e == Ends(items, n)
           f == Ends(items, n + 1)
           t == Drop(k, e)
           item == items[n + 1]
           len == Len(item)
           rest == Messages(Drop(k, f))
<1> SUFFICES Messages(t) = (IF Decode(item) = "ok" THEN <<item>> ELSE <<>>)
                                \o rest
    OBVIOUS
<1>1. f = e + len /\ e \in Nat /\ len \in Nat \ {0} /\ e <= a /\ f <= a
      /\ a \in Nat /\ InStep(item) /\ item \in Seq(Nat)
  <2>1. n \in 0..Len(items) /\ n + 1 \in 1..Len(items)
        /\ Bytes(items) \in Seq(Nat)
      BY FirstBytesType
  <2>2. f = e + len /\ e \in Nat /\ item \in Seq(Nat) /\ InStep(item)
        /\ f <= a /\ a \in Nat
      BY <2>1, EndsFacts
  <2>3. len \in Nat \ {0}
      BY <2>2, InStepFacts
  <2> HIDE DEF f, e, len, item
  <2>4. QED
      BY <2>2, <2>3
<1>2. /\ k \in Seq(Nat) /\ Len(k) = a /\ e \in 0..Len(k)
      /\ t \in Seq(Nat) /\ Len(t) = a - e
      /\ \A j \in 1..len : j <= Len(t) => t[j] = item[j]
    BY <1>1, ItemAt
<1>3. \A i \in Nat \ {0} : MagicAt(k, i) => MagicAt(Bytes(items), i)
    BY FirstBytesType, FirstMagic
<1>4. \A i \in Nat \ {0} : MagicAt(t, i) <=> MagicAt(k, i + e)
    BY <1>2, MagicShift
<1>5. len = 1 => ~MagicAt(Bytes(items), e + 1)
    BY NoStraddling
<1> DEFINE have == Len(t)
<1>6. have \in Nat /\ len <= have
  <2>1. have \in Nat /\ have = a - e
      BY <1>2
  <2> HIDE DEF have, len, e, f
  <2>2. QED
      BY <2>1, <1>1
<1>7. Drop(t, len) = Drop(k, f)
  <2>1. len \in 0..Len(k) - e
    <3> HIDE DEF k, e, f, len
    <3>1. QED
        BY <1>1, <1>2
  <2> HIDE DEF k, e, f, len
  <2>2. Drop(Drop(k, e), len) = Drop(k, e + len)
      BY <2>1, <1>2, DropDrop
  <2>3. QED
      BY <2>2, <1>1
<1>8. rest \in Seq(Seq(Nat))
  <2>1. f \in 0..Len(k)
    <3> HIDE DEF k, f, e, len
    <3>1. QED
        BY <1>1, <1>2
  <2> HIDE DEF k, f
  <2>2. Drop(k, f) \in Seq(Nat)
      BY <2>1, <1>2, DropFacts
  <2>3. QED
      BY <2>2, MessagesType
<1>9. t \in Seq(Nat)
    BY <1>2
<1>10. CASE len = 1
  <2>1. ~MagicAt(t, 1)
    <3> HIDE DEF k, t, e
    <3>1. MagicAt(t, 1) => MagicAt(k, 1 + e)
        BY <1>4
    <3>2. 1 + e \in Nat \ {0} /\ 1 + e = e + 1
        BY <1>1
    <3>3. QED
        BY <3>1, <3>2, <1>3, <1>5, <1>10
  <2>2. Messages(t) = Messages(Drop(t, 1))
    <3> HIDE DEF t, len
    <3>1. 1 \in 0..Len(t) /\ \A j \in 1..1 : ~MagicAt(t, j)
        BY <1>6, <1>10, <2>1
    <3>2. QED
        BY <3>1, <1>9, SkipNoise
  <2>3. Decode(item) # "ok"
    <3>1. len < MessageSize
      <4> HIDE DEF len
      <4>1. QED
          BY <1>10, Sizes
    <3>2. QED
        BY <3>1 DEF Decode
  <2>4. Messages(t) = rest
    <3> HIDE DEF t, k, f, len
    <3>1. QED
        BY <2>2, <1>7, <1>10
  <2>5. <<>> \o rest = rest
    <3> HIDE DEF rest
    <3>1. QED
        BY <1>8, ConcatEmptySeq
  <2> HIDE DEF t, rest, item
  <2>6. QED
      BY <2>3, <2>4, <2>5
<1>11. CASE len # 1
  <2>1. len > 1
    <3> HIDE DEF len
    <3>1. QED
        BY <1>1, <1>11
  <2>2. /\ item[MessageSizeAt] = len /\ ~BadSize(len) /\ Len(Magic) + 4 <= len
        /\ \A j \in 1..Len(Magic) : item[j] = Magic[j]
      BY <2>1, <1>1, InStepFacts
  <2>3. /\ len \in Nat /\ MessageSizeAt \in 1..len
        /\ \A j \in 1..len : t[j] = item[j]
    <3>1. len \in Nat /\ MessageSizeAt \in 1..len
      <4> HIDE DEF len
      <4>1. len \in Nat /\ Len(Magic) + 4 <= len
          BY <1>1, <2>2
      <4> HIDE DEF item
      <4>2. QED
          BY <4>1, Sizes
    <3>2. ASSUME NEW j \in 1..len PROVE j <= have
      <4> HIDE DEF len, have
      <4>1. QED
          BY <1>6, <3>1
    <3>3. QED
        BY <3>1, <3>2, <1>2
  <2>4. MagicAt(t, 1)
    <3> HIDE DEF t, item
    <3>1. \A j \in 1..Len(Magic) : t[1 + j - 1] = Magic[j]
      <4> TAKE j \in 1..Len(Magic)
      <4>1. 1 + j - 1 = j /\ j \in 1..len
        <5> HIDE DEF len
        <5>1. QED
            BY <2>2, <2>3, Sizes
      <4>2. QED
          BY <4>1, <2>2, <2>3
    <3>2. 1 + Len(Magic) - 1 <= Len(t)
      <4>1. 1 + Len(Magic) - 1 <= have
        <5> HIDE DEF have, len
        <5>1. QED
            BY <1>6, <2>2, <2>3, Sizes
      <4>2. QED
          BY <4>1
    <3>3. 1 \in Nat \ {0}
        OBVIOUS
    <3>4. QED
        BY <3>1, <3>2, <3>3, <1>9, MagicBytes
  <2>5. SubSeq(t, 1, len) = item
    <3> DEFINE u == SubSeq(t, 1, len)
    <3>1. 1 \in 1..Len(t) + 1 /\ len \in 1 - 1..Len(t) /\ len - 1 + 1 = len
      <4>1. 1 \in 1..have + 1 /\ len \in 1 - 1..have /\ len - 1 + 1 = len
        <5> HIDE DEF have, len
        <5>1. QED
            BY <1>6, <2>3
      <4>2. QED
          BY <4>1
    <3> HIDE DEF t, len
    <3>2. u \in Seq(Nat) /\ Len(u) = len /\ \A j \in 1..len : u[j] = t[1 + j - 1]
        BY <3>1, <1>9, PieceFacts
    <3> HIDE DEF u
    <3>3. \A j \in 1..len : u[j] = item[j]
      <4> TAKE j \in 1..len
      <4>1. 1 + j - 1 = j
          BY <2>3
      <4>2. QED
          BY <4>1, <3>2, <2>3
    <3>4. u = item
      <4>1. Len(u) = Len(item) /\ \A j \in 1..Len(u) : u[j] = item[j]
          BY <3>2, <3>3 DEF len
      <4> HIDE DEF item
      <4>2. QED
          BY <4>1, <3>2, <1>1, SeqEqual
    <3>5. QED
        BY <3>4 DEF u
  <2>6. t[MessageSizeAt] = len
      BY <2>2, <2>3
  <2>7. Len(t) >= MessageSizeAt /\ Len(t) >= len
    <3>1. have >= MessageSizeAt /\ have >= len
      <4> HIDE DEF have, len
      <4>1. QED
          BY <1>6, <2>3
    <3>2. QED
        BY <3>1
  <2> HIDE DEF t, item, len
  <2>8. Messages(t) =
            (IF Decode(SubSeq(t, 1, len)) = "ok" THEN <<SubSeq(t, 1, len)>>
             ELSE <<>>) \o Messages(Drop(t, len))
      BY <2>2, <2>4, <2>6, <2>7, <1>9, AtMagic
  <2> HIDE DEF k, f, e
  <2>9. QED
      BY <2>5, <2>8, <1>7
<1>12. QED
    BY <1>10, <1>11

-----------------------------------------------------------------------------
(* The messages that have arrived *)

\* The recursion of ArrivedMessages.
ArrivedTake(items, a, f, n) ==
    IF n = 0 THEN <<>>
    ELSE IF Len(Bytes(SubSeq(items, 1, n))) <= a /\ Decode(items[n]) = "ok"
    THEN Append(f[n - 1], items[n]) ELSE f[n - 1]

ArrivedFirst(items, a) ==
    CHOOSE f : f = [n \in 0..Len(items) |-> ArrivedTake(items, a, f, n)]

LEMMA ArrivedIsFirst == ArrivedMessages = ArrivedFirst(written, arrived)[Len(written)]
BY DEF ArrivedMessages, ArrivedFirst, ArrivedTake

LEMMA ArrivedExists ==
    ASSUME NEW items, Len(items) \in Nat, NEW a
    PROVE  \E f : f = [n \in 0..Len(items) |-> ArrivedTake(items, a, f, n)]
<1> DEFINE N == Len(items)
           More(f, n) == ArrivedTake(items, a, f, n)
           T == {m \in Nat : \E f : f = [n \in 0..m |-> More(f, n)]}
<1> SUFFICES \E f : f = [n \in 0..N |-> More(f, n)]
    OBVIOUS
<1>1. 0 \in T
  <2> DEFINE f == [n \in 0..0 |-> <<>>]
  <2>1. f = [n \in 0..0 |-> More(f, n)]
      BY DEF ArrivedTake
  <2> HIDE DEF f, More
  <2>2. QED
      BY <2>1
<1>2. ASSUME NEW m \in 0..N - 1, m \in T PROVE m + 1 \in T
  <2>1. PICK f : f = [n \in 0..m |-> More(f, n)]
      BY <1>2
  <2> DEFINE g == [n \in 0..m + 1 |-> IF n = m + 1 THEN More(f, m + 1) ELSE f[n]]
  <2>2. \A n \in 0..m + 1 : More(g, n) = More(f, n)
    <3> TAKE n \in 0..m + 1
    <3>1. n # 0 => g[n - 1] = f[n - 1]
        OBVIOUS
    <3> HIDE DEF g
    <3>2. QED
        BY <3>1 DEF ArrivedTake
  <2>3. \A n \in 0..m + 1 : g[n] = More(f, n)
    <3> TAKE n \in 0..m + 1
    <3>1. CASE n = m + 1
        BY <3>1
    <3>2. CASE n # m + 1
      <4>1. n \in 0..m /\ g[n] = f[n]
          BY <3>2
      <4> HIDE DEF More, g
      <4>2. QED
          BY <4>1, <2>1
    <3>3. QED
        BY <3>1, <3>2
  <2>4. g = [n \in 0..m + 1 |-> g[n]]
      OBVIOUS
  <2> HIDE DEF g, More
  <2>5. g = [n \in 0..m + 1 |-> More(g, n)]
      BY <2>2, <2>3, <2>4
  <2>6. QED
      BY <2>5
<1>3. N \in T
  <2> HIDE DEF T
  <2>1. N \in Nat /\ N \in 0..N
      OBVIOUS
  <2>2. QED
      BY <1>1, <1>2, <2>1, BoundedInduction
<1>4. QED
    BY <1>3

LEMMA ArrivedStep ==
    ASSUME NEW items \in Seq(Seq(Nat)), NEW a
    PROVE  /\ ArrivedFirst(items, a)[0] = <<>>
           /\ \A n \in 0..Len(items) - 1 :
                ArrivedFirst(items, a)[n + 1] =
                    IF Ends(items, n + 1) <= a /\ Decode(items[n + 1]) = "ok"
                    THEN Append(ArrivedFirst(items, a)[n], items[n + 1])
                    ELSE ArrivedFirst(items, a)[n]
<1> DEFINE f == ArrivedFirst(items, a)
           Take(n) == Len(Bytes(SubSeq(items, 1, n))) <= a /\ Decode(items[n]) = "ok"
           More(n) == ArrivedTake(items, a, f, n)
<1>0. Len(items) \in Nat
    OBVIOUS
<1>1. f = [n \in 0..Len(items) |-> More(n)]
    BY <1>0, ArrivedExists DEF ArrivedFirst
<1>2. \A n \in 0..Len(items) :
            Take(n) <=> Ends(items, n) <= a /\ Decode(items[n]) = "ok"
    BY FirstItems
<1> HIDE DEF f, Take
<1>3. \A n \in 0..Len(items) :
            f[n] = IF n = 0 THEN <<>>
                   ELSE IF Take(n) THEN Append(f[n - 1], items[n]) ELSE f[n - 1]
  <2> TAKE n \in 0..Len(items)
  <2>1. f[n] = ArrivedTake(items, a, f, n)
      BY <1>1
  <2>2. QED
      BY <2>1 DEF ArrivedTake, Take
<1>4. f[0] = <<>>
    BY <1>0, <1>3
<1>5. ASSUME NEW n \in 0..Len(items) - 1
      PROVE  f[n + 1] = IF Ends(items, n + 1) <= a /\ Decode(items[n + 1]) = "ok"
                        THEN Append(f[n], items[n + 1]) ELSE f[n]
  <2>1. n + 1 \in 0..Len(items) /\ n + 1 # 0 /\ (n + 1) - 1 = n
      OBVIOUS
  <2>2. f[n + 1] = IF Take(n + 1) THEN Append(f[n], items[n + 1]) ELSE f[n]
      BY <1>3, <2>1
  <2>3. QED
      BY <2>1, <2>2, <1>2
<1>6. QED
    BY <1>4, <1>5 DEF f

\* What a reader finds in the first a bytes of items that keep the stream in
\* step: the valid ones among those that end there.
LEMMA MessagesAreArrived ==
    ASSUME NEW items \in Seq(Seq(Nat)), NEW a \in 0..Len(Bytes(items)),
           \A i \in 1..Len(items) : InStep(items[i])
    PROVE  Messages(SubSeq(Bytes(items), 1, a)) =
                ArrivedFirst(items, a)[Len(items)]
<1> DEFINE k == SubSeq(Bytes(items), 1, a)
           f == ArrivedFirst(items, a)
           e(n) == Ends(items, n)
           R(n) == IF e(n) <= a THEN Messages(Drop(k, e(n))) ELSE <<>>
           T == {n \in Nat : f[n] \in Seq(Seq(Nat)) /\ Messages(k) = f[n] \o R(n)}
<1>1. /\ Bytes(items) \in Seq(Nat) /\ Len(items) \in Nat /\ e(0) = 0 /\ a \in Nat
      /\ e(Len(items)) = Len(Bytes(items)) /\ a <= Len(Bytes(items))
      /\ \A n \in 0..Len(items) : e(n) \in Nat
      /\ \A n \in 0..Len(items) - 1 : /\ items[n + 1] \in Seq(Nat)
                                      /\ e(n + 1) = e(n) + Len(items[n + 1])
    BY FirstBytesType, EndsFacts
<1>2. k \in Seq(Nat) /\ Len(k) = a
  <2>1. 1 \in 1..Len(Bytes(items)) + 1 /\ a \in 1 - 1..Len(Bytes(items))
        /\ a - 1 + 1 = a
      BY <1>1
  <2>2. QED
      BY <2>1, <1>1, PieceFacts
<1>3. \A n \in 0..Len(items) - 1 :
            e(n + 1) <= a =>
                Messages(Drop(k, e(n))) =
                    (IF Decode(items[n + 1]) = "ok" THEN <<items[n + 1]>> ELSE <<>>)
                        \o Messages(Drop(k, e(n + 1)))
    BY WholeItem
<1>4. \A n \in 0..Len(items) - 1 :
            e(n) <= a /\ a < e(n + 1) => Messages(Drop(k, e(n))) = <<>>
  <2> TAKE n \in 0..Len(items) - 1
  <2>1. InStep(items[n + 1])
    <3>1. n + 1 \in 1..Len(items)
        OBVIOUS
    <3>2. QED
        BY <3>1
  <2>2. QED
      BY <2>1, PartialItem
<1>5. /\ f[0] = <<>>
      /\ \A n \in 0..Len(items) - 1 :
            f[n + 1] = IF e(n + 1) <= a /\ Decode(items[n + 1]) = "ok"
                       THEN Append(f[n], items[n + 1]) ELSE f[n]
    BY ArrivedStep
<1>6. f[Len(items)] = ArrivedFirst(items, a)[Len(items)]
    OBVIOUS
<1> HIDE DEF k, f, e
<1>7. \A n \in 0..Len(items) : e(n) <= a => /\ Drop(k, e(n)) \in Seq(Nat)
                                            /\ Len(Drop(k, e(n))) = a - e(n)
  <2> TAKE n \in 0..Len(items)
  <2> HAVE e(n) <= a
  <2>1. e(n) \in 0..Len(k)
      BY <1>1, <1>2
  <2>2. QED
      BY <2>1, <1>2, DropFacts
<1>8. \A n \in 0..Len(items) : R(n) \in Seq(Seq(Nat))
  <2> TAKE n \in 0..Len(items)
  <2>1. <<>> \in Seq(Seq(Nat))
      OBVIOUS
  <2>2. QED
      BY <2>1, <1>7, MessagesType
<1>9. 0 \in T
  <2>1. R(0) = Messages(k)
      BY <1>1, <1>2, DropNothing
  <2>2. Messages(k) \in Seq(Seq(Nat)) /\ <<>> \in Seq(Seq(Nat))
      BY <1>2, MessagesType
  <2>3. <<>> \o Messages(k) = Messages(k)
      BY <2>2, ConcatEmptySeq
  <2>4. f[0] \in Seq(Seq(Nat)) /\ Messages(k) = f[0] \o R(0)
      BY <2>1, <2>2, <2>3, <1>5
  <2> HIDE DEF R
  <2>5. QED
      BY <2>4
<1>10. ASSUME NEW n \in 0..Len(items) - 1, n \in T PROVE n + 1 \in T
  <2>1. /\ n \in 0..Len(items) /\ n + 1 \in 0..Len(items) /\ n + 1 \in Nat
        /\ f[n] \in Seq(Seq(Nat)) /\ Messages(k) = f[n] \o R(n)
        /\ R(n) \in Seq(Seq(Nat)) /\ R(n + 1) \in Seq(Seq(Nat))
        /\ items[n + 1] \in Seq(Nat)
    <3>1. n \in 0..Len(items) /\ n + 1 \in 0..Len(items) /\ n + 1 \in Nat
        OBVIOUS
    <3>2. f[n] \in Seq(Seq(Nat)) /\ Messages(k) = f[n] \o R(n)
        BY <1>10
    <3> HIDE DEF R
    <3>3. QED
        BY <3>1, <3>2, <1>1, <1>8
  <2>2. e(n) \in Nat /\ e(n + 1) \in Nat /\ e(n) <= e(n + 1)
    <3>1. e(n) \in Nat /\ e(n + 1) \in Nat
          /\ e(n + 1) = e(n) + Len(items[n + 1])
        BY <2>1, <1>1
    <3> DEFINE len == Len(items[n + 1])
    <3>2. len \in Nat
        BY <2>1
    <3> HIDE DEF len
    <3>3. QED
        BY <3>1, <3>2 DEF len
  <2>3. f[n + 1] \in Seq(Seq(Nat)) /\ Messages(k) = f[n + 1] \o R(n + 1)
    <3>1. CASE e(n + 1) <= a
      <4> DEFINE found == IF Decode(items[n + 1]) = "ok" THEN <<items[n + 1]>>
                          ELSE <<>>
      <4>1. e(n) <= a
          BY <3>1, <2>2, <1>1
      <4>2. R(n) = found \o R(n + 1)
          BY <3>1, <4>1, <1>3
      <4> HIDE DEF R
      <4>3. found \in Seq(Seq(Nat))
          BY <2>1
      <4>4. f[n + 1] = f[n] \o found
        <5>1. CASE Decode(items[n + 1]) = "ok"
          <6>1. f[n + 1] = Append(f[n], items[n + 1]) /\ found = <<items[n + 1]>>
              BY <5>1, <3>1, <1>5
          <6>2. Append(f[n], items[n + 1]) = f[n] \o <<items[n + 1]>>
              BY <2>1, AppendIsConcat
          <6>3. QED
              BY <6>1, <6>2
        <5>2. CASE ~(Decode(items[n + 1]) = "ok")
          <6>1. f[n + 1] = f[n] /\ found = <<>>
              BY <5>2, <1>5
          <6>2. f[n] \o <<>> = f[n]
              BY <2>1, ConcatEmptySeq
          <6>3. QED
              BY <6>1, <6>2
        <5>3. QED
            BY <5>1, <5>2
      <4> HIDE DEF found
      <4>5. f[n] \o found \in Seq(Seq(Nat))
          BY <2>1, <4>3, ConcatProperties
      <4>6. (f[n] \o found) \o R(n + 1) = f[n] \o (found \o R(n + 1))
        <5> DEFINE u == f[n]
                   w == R(n + 1)
                   All == Seq(Seq(Nat))
        <5>1. u \in All /\ w \in All /\ found \in All
            BY <2>1, <4>3
        <5>2. \A x, y, z \in All : (x \o y) \o z = x \o (y \o z)
            BY Regroup, Zenon
        <5> HIDE DEF u, w, All
        <5>3. (u \o found) \o w = u \o (found \o w)
            BY <5>1, <5>2, Zenon
        <5>4. QED
            BY <5>3 DEF u, w
      <4>7. QED
          BY <2>1, <4>2, <4>4, <4>5, <4>6
    <3>2. CASE ~(e(n + 1) <= a)
      <4>1. f[n + 1] = f[n]
          BY <3>2, <1>5
      <4>2. R(n + 1) = <<>>
          BY <3>2
      <4>3. R(n) = <<>>
        <5>1. a < e(n + 1)
            BY <3>2, <2>2, <1>1
        <5>2. QED
            BY <5>1, <1>4
      <4> HIDE DEF R
      <4>4. QED
          BY <2>1, <4>1, <4>2, <4>3
    <3>3. QED
        BY <3>1, <3>2
  <2> HIDE DEF R
  <2>4. QED
      BY <2>1, <2>3
<1>11. Len(items) \in T
  <2> HIDE DEF T
  <2>1. Len(items) \in 0..Len(items)
      BY <1>1
  <2>2. QED
      BY <1>1, <1>9, <1>10, <2>1, BoundedInduction
<1>12. R(Len(items)) = <<>>
  <2> DEFINE N == Len(items)
  <2>1. CASE e(N) <= a
    <3>1. N \in 0..Len(items) /\ a - e(N) = 0 /\ 0 < Len(Magic)
        BY <1>1, <2>1, Sizes
    <3>2. Drop(k, e(N)) \in Seq(Nat) /\ Len(Drop(k, e(N))) < Len(Magic)
        BY <3>1, <2>1, <1>7
    <3>3. Messages(Drop(k, e(N))) = <<>>
        BY <3>2, TooShort
    <3>4. QED
        BY <3>3
  <2>2. CASE ~(e(N) <= a)
      BY <2>2
  <2>3. QED
      BY <2>1, <2>2
<1>13. Messages(k) = f[Len(items)]
  <2>1. f[Len(items)] \in Seq(Seq(Nat))
        /\ Messages(k) = f[Len(items)] \o R(Len(items))
      BY <1>11
  <2> HIDE DEF R
  <2>2. f[Len(items)] \o <<>> = f[Len(items)]
      BY <2>1, ConcatEmptySeq
  <2>3. QED
      BY <2>1, <2>2, <1>12
<1>14. QED
    BY <1>13, <1>6 DEF k, f

-----------------------------------------------------------------------------
(* The buffer begins where an item begins *)

AllInStep == \A i \in 1..Len(written) : InStep(written[i])

\* As long as no byte was given up, and every write keeps the stream in step,
\* the buffer begins where one of them does.
InSync ==
    start = 0 /\ AllInStep =>
        \E n \in 0..Len(written) : arrived - Buffered = Ends(written, n)

LEMMA SyncFacts ==
    ASSUME AssemblerInv
    PROVE  /\ written \in Seq(Seq(Nat)) /\ Len(written) \in Nat
           /\ Bytes(written) \in Seq(Nat) /\ Len(Bytes(written)) \in Nat
           /\ stream_buffer \in Seq(Nat)
           /\ Buffered \in Nat /\ Len(stream_buffer) = Buffered
           /\ arrived \in Nat /\ arrived - Buffered \in Nat
           /\ Buffered <= arrived /\ arrived <= Len(Bytes(written))
           /\ \A i \in 1..Buffered : stream_buffer[i] =
                        Bytes(written)[(arrived - Buffered) + i]
<1>1. written \in Seq(Seq(Nat)) /\ Len(written) \in Nat
    BY WrittenBytes DEF AssemblerInv, AssemblerTypeOK
<1>2. /\ Bytes(written) \in Seq(Nat) /\ Len(Bytes(written)) \in Nat
      /\ stream_buffer \in Seq(Nat) /\ Buffered \in Nat /\ arrived \in Nat
      /\ arrived <= Len(Bytes(written))
    BY InvFacts
<1>3. Buffered <= arrived /\ arrived - Buffered \in Nat
    BY InvFacts
<1>4. Len(stream_buffer) = Buffered
    BY DEF Buffered
<1>5. \A i \in 1..Buffered : stream_buffer[i] =
                Bytes(written)[(arrived - Buffered) + i]
    BY DEF AssemblerInv, BufferIsSuffix, EndsAt, Buffered
<1>6. QED
    BY <1>1, <1>2, <1>3, <1>4, <1>5

\* (Numbers only: where an item that begins at e lies in a buffer of h bytes that
\* begins at f, when the b - f bytes before the first magic number, of g bytes,
\* are dropped.)
LEMMA InNoise ==
    ASSUME NEW f \in Nat, NEW e \in Nat, NEW k \in Nat, NEW h \in Nat,
           NEW g \in Nat \ {0}, f <= e, e < f + k, k + g <= h + 1
    PROVE  /\ (e - f) + 1 \in 1..k /\ (e - f) + 1 \in Nat \ {0}
           /\ ((e - f) + 1) + g - 1 <= h /\ f + ((e - f) + 1) = e + 1
OBVIOUS

LEMMA InNoiseByte ==
    ASSUME NEW f \in Nat, NEW e \in Nat, NEW h \in Nat, NEW g \in Nat,
           NEW j \in Nat \ {0}, j + g - 1 <= h, f + j = e + 1, NEW i \in 1..g
    PROVE  j + i - 1 \in 1..h /\ f + (j + i - 1) = e + i
OBVIOUS

LEMMA Inside ==
    ASSUME NEW e \in Nat, NEW b \in Nat, NEW l \in Nat,
           e < b + 1, b + 1 <= e + l, e # b
    PROVE  e < b /\ l > 1
OBVIOUS

\* Dropping bytes in front of the first magic number, but none that may begin
\* one, ends where an item begins: a message that begins before that place would
\* have its magic number among the dropped bytes.
LEMMA NoiseEndsAtItem ==
    ASSUME AssemblerInv, AllInStep, NEW m \in 0..Len(written),
           arrived - Buffered = Ends(written, m), NEW k \in 0..Buffered,
           k + Len(Magic) <= Buffered + 1,
           \A j \in 1..k : ~MagicAt(stream_buffer, j)
    PROVE  \E n \in 0..Len(written) :
                (arrived - Buffered) + k = Ends(written, n)
<1> DEFINE s == Bytes(written)
           e(n) == Ends(written, n)
           N == Len(written)
           front == arrived - Buffered
           b == front + k
<1>1. /\ written \in Seq(Seq(Nat)) /\ N \in Nat /\ s \in Seq(Nat)
      /\ front \in Nat /\ Buffered \in Nat /\ arrived \in Nat
      /\ arrived <= Len(s) /\ Len(s) \in Nat /\ Buffered <= arrived
      /\ stream_buffer \in Seq(Nat) /\ Len(stream_buffer) = Buffered
      /\ \A i \in 1..Buffered : stream_buffer[i] = s[front + i]
    BY SyncFacts
<1>2. /\ e(N) = Len(s) /\ (\A n \in 0..N : e(n) \in Nat)
      /\ \A n \in 0..N - 1 : /\ written[n + 1] \in Seq(Nat)
                             /\ e(n + 1) = e(n) + Len(written[n + 1])
    BY <1>1, EndsFacts
<1>3. /\ \A n \in 0..N : \A i \in 0..n : e(i) <= e(n)
      /\ \A n \in 0..N - 1 : \A j \in 1..Len(written[n + 1]) :
                s[e(n) + j] = written[n + 1][j]
      /\ \A q \in 1..Len(s) : \E n \in 0..N - 1 : e(n) < q /\ q <= e(n + 1)
    BY <1>1, EndsMonotone, ItemByte, InItem
<1>4. front = e(m) /\ m \in 0..N /\ (\A j \in 1..k : ~MagicAt(stream_buffer, j))
    OBVIOUS
<1> SUFFICES \E n \in 0..N : b = e(n)
    OBVIOUS
<1>5. b \in Nat /\ b <= Len(s) /\ front <= b /\ b = front + k /\ k \in Nat
      /\ b <= arrived
  <2>1. front = arrived - Buffered
      OBVIOUS
  <2> HIDE DEF front, s
  <2>2. QED
      BY <2>1, <1>1
<1> HIDE DEF s, e, front, N
<1>6. CASE b = Len(s)
  <2>1. N \in 0..N
      BY <1>1
  <2>2. QED
      BY <2>1, <1>2, <1>6
<1>7. CASE b # Len(s)
  <2>1. b + 1 \in 1..Len(s)
      BY <1>1, <1>5, <1>7
  <2> HIDE DEF b
  <2>2. PICK n \in 0..N - 1 : e(n) < b + 1 /\ b + 1 <= e(n + 1)
      BY <2>1, <1>3
  <2> DEFINE item == written[n + 1]
             len == Len(item)
  <2>3. /\ n \in 0..N /\ n + 1 \in 0..N /\ e(n) \in Nat /\ e(n + 1) \in Nat
        /\ item \in Seq(Nat) /\ e(n + 1) = e(n) + len /\ len \in Nat
        /\ InStep(item)
    <3>1. n \in 0..N /\ n + 1 \in 0..N /\ n + 1 \in 1..N
        BY <1>1
    <3>2. InStep(item)
        BY <3>1 DEF AllInStep, N
    <3>3. e(n) \in Nat /\ e(n + 1) \in Nat /\ item \in Seq(Nat)
          /\ e(n + 1) = e(n) + len
        BY <3>1, <1>2
    <3>4. len \in Nat
        BY <3>3
    <3> HIDE DEF item, len
    <3>5. QED
        BY <3>1, <3>2, <3>3, <3>4
  <2> SUFFICES ASSUME e(n) # b PROVE FALSE
      BY <2>3
  <2>4. e(n) < b /\ len > 1
    <3>1. /\ e(n) \in Nat /\ b \in Nat /\ len \in Nat
          /\ e(n) < b + 1 /\ b + 1 <= e(n) + len
        BY <2>2, <2>3, <1>5
    <3> HIDE DEF len
    <3>2. QED
        BY <3>1, Inside
  <2>5. /\ \A i \in 1..Len(Magic) : item[i] = Magic[i]
        /\ Len(Magic) + 4 <= len
      BY <2>3, <2>4, InStepFacts
  <2>6. front <= e(n)
    <3>1. CASE m <= n
      <4>1. m \in 0..n
          BY <3>1, <1>4
      <4>2. QED
          BY <4>1, <2>3, <1>3, <1>4
    <3>2. CASE m > n
      <4>1. n + 1 \in 0..m
          BY <3>2, <1>1, <1>4
      <4>2. e(n + 1) <= front
          BY <4>1, <1>3, <1>4
      <4>3. /\ e(n + 1) \in Nat /\ front \in Nat /\ b \in Nat
            /\ front <= b /\ b + 1 <= e(n + 1)
          BY <2>2, <2>3, <1>1, <1>5
      <4>4. QED
          BY <4>2, <4>3
    <3>3. QED
        BY <3>1, <3>2, <1>1, <1>4
  <2> DEFINE j == (e(n) - front) + 1
  <2>7. j \in 1..k /\ j \in Nat \ {0} /\ j + Len(Magic) - 1 <= Buffered
        /\ front + j = e(n) + 1
    <3>1. /\ front \in Nat /\ e(n) \in Nat /\ k \in Nat /\ Buffered \in Nat
          /\ Len(Magic) \in Nat \ {0}
        BY <1>1, <2>3, <1>5, Sizes
    <3>2. front <= e(n) /\ e(n) < front + k
        BY <2>4, <2>6, <1>5
    <3>3. k + Len(Magic) <= Buffered + 1
        OBVIOUS
    <3> HIDE DEF Buffered
    <3>4. QED
        BY <3>1, <3>2, <3>3, InNoise
  <2> HIDE DEF j
  <2>8. \A i \in 1..Len(Magic) : stream_buffer[j + i - 1] = Magic[i]
    <3> TAKE i \in 1..Len(Magic)
    <3>1. j + i - 1 \in 1..Buffered /\ front + (j + i - 1) = e(n) + i
      <4> DEFINE g == Len(Magic)
                 en == e(n)
      <4>1. /\ front \in Nat /\ en \in Nat /\ Buffered \in Nat /\ g \in Nat
            /\ i \in 1..g
          BY <1>1, <2>3, Sizes
      <4>2. j \in Nat \ {0} /\ j + g - 1 <= Buffered /\ front + j = en + 1
          BY <2>7
      <4> HIDE DEF Buffered, g, en
      <4>3. j + i - 1 \in 1..Buffered /\ front + (j + i - 1) = en + i
          BY <4>1, <4>2, InNoiseByte
      <4>4. QED
          BY <4>3 DEF en
    <3>2. i \in 1..len
      <4> HIDE DEF len
      <4>1. QED
          BY <2>3, <2>5, Sizes
    <3>3. s[e(n) + i] = item[i]
        BY <3>2, <1>3
    <3>4. stream_buffer[j + i - 1] = s[front + (j + i - 1)]
        BY <3>1, <1>1
    <3>5. QED
        BY <3>1, <3>3, <3>4, <2>5
  <2>9. MagicAt(stream_buffer, j)
    <3>1. j + Len(Magic) - 1 <= Len(stream_buffer)
        BY <2>7, <1>1
    <3>2. QED
        BY <3>1, <2>7, <2>8, <1>1, MagicBytes
  <2>10. QED
      BY <2>7, <2>9, <1>4
<1>8. QED
    BY <1>6, <1>7

\* A magic number where an item begins is that item's own.
LEMMA MagicAtItem ==
    ASSUME AssemblerInv, AllInStep, NEW n \in 0..Len(written),
           arrived - Buffered = Ends(written, n), MagicAt(stream_buffer, 1)
    PROVE  /\ n + 1 \in 1..Len(written)
           /\ LET item == written[n + 1]
              IN  /\ Len(item) \in Nat /\ ~BadSize(Len(item))
                  /\ Len(item) + ReadMax <= BufferCap + 1
                  /\ MessageSize <= Len(item)
                  /\ Ends(written, n + 1) = (arrived - Buffered) + Len(item)
                  /\ Buffered >= MessageSizeAt => Declared = Len(item)
<1> DEFINE s == Bytes(written)
           e(i) == Ends(written, i)
           N == Len(written)
           front == arrived - Buffered
           item == written[n + 1]
           len == Len(item)
<1>1. /\ written \in Seq(Seq(Nat)) /\ N \in Nat /\ s \in Seq(Nat)
      /\ front \in Nat /\ Buffered \in Nat /\ arrived \in Nat
      /\ arrived <= Len(s) /\ Len(s) \in Nat /\ Buffered <= arrived
      /\ stream_buffer \in Seq(Nat) /\ Len(stream_buffer) = Buffered
      /\ \A i \in 1..Buffered : stream_buffer[i] = s[front + i]
    BY SyncFacts
<1>2. e(N) = Len(s) /\ front = e(n) /\ n \in 0..N
    BY <1>1, EndsFacts
<1>3. 1 + Len(Magic) - 1 <= Buffered
      /\ \A i \in 1..Len(Magic) : stream_buffer[1 + i - 1] = Magic[i]
  <2>1. stream_buffer \in Seq(Nat) /\ 1 \in Nat \ {0}
        /\ MagicAt(stream_buffer, 1)
      BY <1>1
  <2>2. /\ 1 + Len(Magic) - 1 <= Len(stream_buffer)
        /\ \A i \in 1..Len(Magic) : stream_buffer[1 + i - 1] = Magic[i]
      BY <2>1, MagicBytes
  <2>3. QED
      BY <2>2, <1>1
<1>4. front < arrived
  <2>1. front = arrived - Buffered
      OBVIOUS
  <2> HIDE DEF front
  <2>2. QED
      BY <2>1, <1>1, <1>3, Sizes
<1>5. n \in 0..N - 1 /\ n + 1 \in 1..N /\ n \in 0..N
  <2>1. n # N
    <3> HIDE DEF s, e, front, N
    <3>1. QED
        BY <1>1, <1>2, <1>4
  <2> HIDE DEF N
  <2>2. QED
      BY <2>1, <1>1, <1>2
<1>6. item \in Seq(Nat) /\ InStep(item) /\ e(n + 1) = e(n) + len
    BY <1>1, <1>5, EndsFacts DEF AllInStep
<1>7. \A j \in 1..len : s[e(n) + j] = item[j]
    BY <1>1, <1>5, ItemByte
<1>8. Len(item) = 1 => ~MagicAt(s, e(n) + 1)
    BY <1>1, <1>5, NoStraddling DEF AllInStep
<1> HIDE DEF s, e, front, N
<1>9. MagicAt(s, e(n) + 1)
  <2>1. \A i \in 1..Len(Magic) : s[(front + 1) + i - 1] = Magic[i]
    <3> TAKE i \in 1..Len(Magic)
    <3>1. 1 + i - 1 \in 1..Buffered /\ front + (1 + i - 1) = (front + 1) + i - 1
        BY <1>1, <1>3, Sizes
    <3>2. QED
        BY <3>1, <1>1, <1>3
  <2>2. (front + 1) + Len(Magic) - 1 <= Len(s) /\ front + 1 \in Nat \ {0}
    <3>1. front = arrived - Buffered
        BY DEF front
    <3>2. /\ front \in Nat /\ Buffered \in Nat /\ arrived \in Nat
          /\ arrived <= Len(s) /\ Len(s) \in Nat /\ Len(Magic) \in Nat
          /\ 1 + Len(Magic) - 1 <= Buffered
        BY <1>1, <1>3, Sizes
    <3> HIDE DEF Buffered
    <3>3. QED
        BY <3>1, <3>2
  <2>3. QED
      BY <2>1, <2>2, <1>1, <1>2, MagicBytes
<1>10. len \in Nat /\ len > 1
  <2>1. len \in Nat \ {0} /\ len # 1
      BY <1>6, <1>8, <1>9, InStepFacts
  <2> HIDE DEF len
  <2>2. QED
      BY <2>1
<1>11. /\ ~BadSize(len) /\ len + ReadMax <= BufferCap + 1 /\ MessageSize <= len
       /\ Len(Magic) + 4 <= len /\ item[MessageSizeAt] = len
    BY <1>6, <1>10, InStepFacts
<1>12. ASSUME Buffered >= MessageSizeAt PROVE Declared = len
  <2>1. MessageSizeAt \in 1..len /\ MessageSizeAt \in 1..Buffered
    <3>1. /\ Len(Magic) + 4 <= len /\ len \in Nat /\ Buffered \in Nat
          /\ Buffered >= MessageSizeAt
        BY <1>1, <1>10, <1>11, <1>12
    <3> HIDE DEF len, Buffered
    <3>2. QED
        BY <3>1, Sizes
  <2>2. stream_buffer[MessageSizeAt] = s[front + MessageSizeAt]
      BY <2>1, <1>1
  <2>3. s[e(n) + MessageSizeAt] = item[MessageSizeAt]
      BY <2>1, <1>7
  <2>4. QED
      BY <2>2, <2>3, <1>2, <1>11 DEF Declared
<1>13. QED
    BY <1>2, <1>5, <1>6, <1>10, <1>11, <1>12 DEF N, e, front

LEMMA SyncKept ==
    ASSUME InSync, UNCHANGED <<written, start>>,
           arrived' - Buffered' = arrived - Buffered
    PROVE  InSync'
BY DEF InSync, AllInStep

LEMMA SyncInit == AssemblerInit => InSync
<1> SUFFICES ASSUME AssemblerInit PROVE InSync
    OBVIOUS
<1>1. AssemblerInv
    BY InvInit
<1>2. written \in Seq(Seq(Nat)) /\ Len(written) \in Nat
    BY <1>1, SyncFacts
<1>3. Ends(written, 0) = 0 /\ 0 \in 0..Len(written)
    BY <1>2, EndsFacts
<1>4. arrived - Buffered = 0
  <2>1. arrived = 0 /\ Buffered = 0
      BY DEF AssemblerInit, Buffered
  <2> HIDE DEF Buffered
  <2>2. QED
      BY <2>1
<1>5. QED
    BY <1>3, <1>4 DEF InSync

LEMMA SyncRead ==
    ASSUME AssemblerInv, InSync, NEW n \in 1..ReadMax, Read(n) PROVE InSync'
<1> DEFINE bytes == SubSeq(Bytes(written), arrived + 1, arrived + n)
           over == Buffered + n - BufferCap
<1>1. /\ stream_buffer \in Seq(Nat) /\ Buffered \in Nat /\ arrived \in Nat
      /\ Len(stream_buffer) = Buffered /\ Buffered <= arrived
      /\ n \in Nat /\ BufferCap \in Nat
    BY SyncFacts, Sizes
<1>2. /\ bytes \in Seq(Nat) /\ Len(bytes) = n /\ over \in Int
      /\ arrived' = arrived + n /\ written' = written
      /\ over > 0 => start' = (arrived + n) - BufferCap
      /\ ~(over > 0) => /\ stream_buffer' = stream_buffer \o bytes
                        /\ start' = start
    BY ReadFacts
<1> HIDE DEF bytes
<1>3. CASE over > 0
  <2>1. start' = (arrived + n) - BufferCap /\ Buffered + n - BufferCap > 0
      BY <1>2, <1>3
  <2>2. start' # 0
    <3> HIDE DEF Buffered
    <3>1. QED
        BY <2>1, <1>1
  <2>3. QED
      BY <2>2 DEF InSync
<1>4. CASE ~(over > 0)
  <2>1. Buffered' = Buffered + n
      BY <1>1, <1>2, <1>4, ConcatFacts DEF Buffered
  <2>2. arrived' - Buffered' = arrived - Buffered
    <3>1. arrived' = arrived + n
        BY <1>2
    <3> HIDE DEF Buffered
    <3>2. QED
        BY <3>1, <2>1, <1>1
  <2>3. QED
      BY <2>2, <1>2, <1>4, SyncKept
<1>5. QED
    BY <1>3, <1>4

LEMMA SyncReadOversized ==
    ASSUME AssemblerInv, NEW n \in ReadMax + 1..BufferCap, ReadOversized(n)
    PROVE  InSync'
<1>1. arrived \in Nat /\ n \in Nat \ {0} /\ start' = arrived + n
    BY SyncFacts, Sizes DEF ReadOversized
<1>2. start' # 0
    BY <1>1
<1>3. QED
    BY <1>2 DEF InSync

\* Dropping noise in front of what may become a magic number keeps the buffer
\* at the beginning of an item.
LEMMA SyncDropNoise ==
    ASSUME AssemblerInv, InSync, NEW k \in 0..Buffered,
           k + Len(Magic) <= Buffered + 1,
           \A j \in 1..k : ~MagicAt(stream_buffer, j),
           stream_buffer' = Drop(stream_buffer, k),
           UNCHANGED <<written, arrived, start>>
    PROVE  InSync'
<1> SUFFICES ASSUME start = 0, AllInStep
             PROVE  \E n \in 0..Len(written) :
                        arrived' - Buffered' = Ends(written, n)
    BY DEF InSync, AllInStep
<1>1. PICK m \in 0..Len(written) : arrived - Buffered = Ends(written, m)
    BY DEF InSync
<1>2. PICK n \in 0..Len(written) :
            (arrived - Buffered) + k = Ends(written, n)
    BY <1>1, NoiseEndsAtItem
<1>3. /\ stream_buffer \in Seq(Nat) /\ Buffered \in Nat /\ arrived \in Nat
      /\ Len(stream_buffer) = Buffered /\ arrived' = arrived
    BY SyncFacts
<1>4. Buffered' = Buffered - k
    BY <1>3, DropFacts DEF Buffered
<1>5. arrived' - Buffered' = (arrived - Buffered) + k
  <2> HIDE DEF Buffered
  <2>1. QED
      BY <1>3, <1>4
<1>6. QED
    BY <1>2, <1>5

LEMMA SyncKeepTail ==
    ASSUME AssemblerInv, InSync, KeepTail PROVE InSync'
<1> DEFINE k == Buffered - Smaller(Buffered, Len(Magic) - 1)
<1>1. Buffered \in Nat /\ Buffered >= Len(Magic) /\ stream_buffer \in Seq(Nat)
      /\ Buffered = Len(stream_buffer)
    BY SyncFacts DEF KeepTail
<1>2. k \in 0..Buffered /\ k + Len(Magic) <= Buffered + 1
  <2>1. Smaller(Buffered, Len(Magic) - 1) = Len(Magic) - 1
      BY <1>1, Sizes DEF Smaller
  <2>2. k = Buffered - (Len(Magic) - 1) /\ Buffered \in Nat
        /\ Len(Magic) <= Buffered /\ Len(Magic) \in Nat \ {0}
      BY <2>1, <1>1, Sizes
  <2> HIDE DEF k, Buffered
  <2>3. QED
      BY <2>2
<1>3. \A j \in 1..Buffered : ~MagicAt(stream_buffer, j)
    BY <1>1, FindMagicFacts DEF KeepTail
<1>4. \A j \in 1..k : ~MagicAt(stream_buffer, j)
  <2> HIDE DEF k, Buffered
  <2>1. QED
      BY <1>1, <1>2, <1>3
<1>5. stream_buffer' = Drop(stream_buffer, k)
      /\ UNCHANGED <<written, arrived, start>>
    BY DEF KeepTail
<1> HIDE DEF k
<1>6. QED
    BY <1>2, <1>4, <1>5, SyncDropNoise

LEMMA SyncSkipToMagic ==
    ASSUME AssemblerInv, InSync, SkipToMagic PROVE InSync'
<1> DEFINE k == FindMagic(stream_buffer, 1) - 1
<1>1. Buffered \in Nat /\ stream_buffer \in Seq(Nat)
      /\ Buffered = Len(stream_buffer)
    BY SyncFacts
<1>2. /\ FindMagic(stream_buffer, 1) \in 0..Buffered
      /\ FindMagic(stream_buffer, 1) > 1
      /\ MagicAt(stream_buffer, FindMagic(stream_buffer, 1))
      /\ \A j \in 1..k : ~MagicAt(stream_buffer, j)
    BY <1>1, FindMagicFacts DEF SkipToMagic
<1>3. k \in 0..Buffered /\ k + Len(Magic) <= Buffered + 1
  <2>1. FindMagic(stream_buffer, 1) + Len(Magic) - 1 <= Buffered
      BY <1>1, <1>2, Zenon DEF MagicAt
  <2>2. FindMagic(stream_buffer, 1) \in 0..Buffered /\ Buffered \in Nat
        /\ FindMagic(stream_buffer, 1) > 1
      BY <1>1, <1>2
  <2> HIDE DEF Buffered
  <2>3. QED
      BY <2>1, <2>2, Sizes
<1>4. stream_buffer' = Drop(stream_buffer, k)
      /\ UNCHANGED <<written, arrived, start>>
    BY DEF SkipToMagic
<1> HIDE DEF k
<1>5. QED
    BY <1>2, <1>3, <1>4, SyncDropNoise

\* The size of an item that is in step is never bad.
LEMMA SyncSkipBadSize ==
    ASSUME AssemblerInv, InSync, SkipBadSize PROVE InSync'
<1>1. AtHeader /\ BadSize(Declared) /\ UNCHANGED <<written, start>>
    BY DEF SkipBadSize
<1>2. MagicAt(stream_buffer, 1) /\ Buffered >= MessageSizeAt
    BY <1>1, AtHeaderFacts
<1>3. ~(start = 0 /\ AllInStep)
  <2> SUFFICES ASSUME start = 0, AllInStep PROVE FALSE
      OBVIOUS
  <2>1. PICK n \in 0..Len(written) : arrived - Buffered = Ends(written, n)
      BY DEF InSync
  <2>2. /\ ~BadSize(Len(written[n + 1]))
        /\ Declared = Len(written[n + 1])
      BY <2>1, <1>2, MagicAtItem
  <2>3. QED
      BY <2>2, <1>1
<1>4. QED
    BY <1>1, <1>3 DEF InSync, AllInStep

LEMMA SyncTakeMessage ==
    ASSUME AssemblerInv, InSync, TakeMessage PROVE InSync'
<1>1. AtHeader /\ Buffered >= Declared
      /\ stream_buffer' = Drop(stream_buffer, Declared)
      /\ UNCHANGED <<written, arrived, start>>
    BY DEF TakeMessage
<1>2. MagicAt(stream_buffer, 1) /\ Buffered >= MessageSizeAt
      /\ Declared \in Nat
    BY <1>1, AtHeaderFacts
<1> SUFFICES ASSUME start = 0, AllInStep
             PROVE  \E n \in 0..Len(written) :
                        arrived' - Buffered' = Ends(written, n)
    BY <1>1 DEF InSync, AllInStep
<1>3. PICK n \in 0..Len(written) : arrived - Buffered = Ends(written, n)
    BY DEF InSync
<1>4. /\ n + 1 \in 1..Len(written)
      /\ Declared = Len(written[n + 1])
      /\ Ends(written, n + 1) = (arrived - Buffered) + Len(written[n + 1])
    BY <1>2, <1>3, MagicAtItem
<1>5. /\ stream_buffer \in Seq(Nat) /\ Buffered \in Nat /\ arrived \in Nat
      /\ Len(stream_buffer) = Buffered /\ arrived' = arrived
      /\ Declared \in 0..Buffered /\ Len(written) \in Nat
    BY <1>1, <1>2, SyncFacts
<1>6. Buffered' = Buffered - Declared
    BY <1>1, <1>5, DropFacts DEF Buffered
<1>7. arrived' - Buffered' = (arrived - Buffered) + Declared
  <2> HIDE DEF Buffered, Declared
  <2>1. QED
      BY <1>5, <1>6
<1>8. n + 1 \in 0..Len(written)
    BY <1>4, <1>5
<1>9. QED
    BY <1>4, <1>7, <1>8

LEMMA SyncNext ==
    AssemblerInv /\ InSync /\ [AssemblerNext]_assemblerVars => InSync'
<1> SUFFICES ASSUME AssemblerInv, InSync, [AssemblerNext]_assemblerVars
             PROVE  InSync'
    OBVIOUS
<1>1. ASSUME NEW n \in 1..ReadMax, Read(n) PROVE InSync'
    BY <1>1, SyncRead
<1>2. ASSUME NEW n \in ReadMax + 1..BufferCap, ReadOversized(n) PROVE InSync'
    BY <1>2, SyncReadOversized
<1>3. CASE Wait
    BY <1>3, SyncKept DEF Wait, Buffered
<1>4. CASE KeepTail
    BY <1>4, SyncKeepTail
<1>5. CASE SkipToMagic
    BY <1>5, SyncSkipToMagic
<1>6. CASE SkipBadSize
    BY <1>6, SyncSkipBadSize
<1>7. CASE TakeMessage
    BY <1>7, SyncTakeMessage
<1>8. CASE UNCHANGED assemblerVars
    BY <1>8, SyncKept DEF assemblerVars, Buffered
<1>9. QED
    BY <1>1, <1>2, <1>3, <1>4, <1>5, <1>6, <1>7, <1>8 DEF AssemblerNext, Scan

\* As long as every write of the producer keeps the stream in step and no bytes
\* were given up, stream_buffer begins where one of the writes begins, however
\* the reads cut them.
THEOREM InSyncCorrect == AssemblerSpec => []InSync
<1>1. QED
    BY SyncInit, SyncNext, AssemblerInvariant, PTL DEF AssemblerSpec

\* What waits in the buffer leaves room for a whole read.
LEMMA Room ==
    ASSUME AssemblerInv, InSync, a_pc = "read", start = 0, AllInStep
    PROVE  Buffered + ReadMax <= BufferCap
<1>1. Buffered \in Nat
    BY SyncFacts
<1>2. CASE Buffered < Len(Magic)
  <2> HIDE DEF Buffered
  <2>1. QED
      BY <1>1, <1>2, Sizes
<1>3. CASE MagicAt(stream_buffer, 1) /\ Buffered < MessageSizeAt
  <2> HIDE DEF Buffered
  <2>1. QED
      BY <1>1, <1>3, Sizes
<1>4. CASE /\ MagicAt(stream_buffer, 1) /\ Buffered >= MessageSizeAt
           /\ Buffered < Declared
  <2>1. PICK n \in 0..Len(written) : arrived - Buffered = Ends(written, n)
      BY DEF InSync
  <2> DEFINE size == Len(written[n + 1])
  <2>2. /\ size \in Nat /\ size + ReadMax <= BufferCap + 1
        /\ Declared = size
      BY <2>1, <1>4, MagicAtItem
  <2>3. Buffered < size
      BY <2>2, <1>4
  <2> HIDE DEF size, Buffered
  <2>4. QED
      BY <2>2, <2>3, <1>1, Sizes
<1>5. Buffered < MessageSizeAt \/ Buffered >= MessageSizeAt
  <2> HIDE DEF Buffered
  <2>1. QED
      BY <1>1, Sizes
<1>6. QED
    BY <1>2, <1>3, <1>4, <1>5 DEF AssemblerInv, Waiting

\* If the producer's writes keep the stream in step, roi_ipc_process_stream_bytes
\* has delivered exactly the valid messages whose last byte has arrived, in
\* order, each once, whenever it waits for a read; and the next read does not
\* make it give up bytes.
THEOREM NothingLostCorrect == AssemblerSpec => []NothingLost
<1>1. AssemblerInv /\ InSync /\ ChunkingIsIrrelevant => NothingLost
  <2> SUFFICES ASSUME AssemblerInv, InSync, ChunkingIsIrrelevant,
                      a_pc = "read", start = 0,
                      \A i \in 1..Len(written) : InStep(written[i])
               PROVE  /\ delivered = ArrivedMessages
                      /\ Len(stream_buffer) + ReadMax <= BufferCap
      BY DEF NothingLost
  <2>1. Buffered + ReadMax <= BufferCap
      BY Room DEF AllInStep
  <2>2. written \in Seq(Seq(Nat)) /\ arrived \in 0..Len(Bytes(written))
      BY SyncFacts
  <2>3. Messages(SubSeq(Bytes(written), 1, arrived)) =
            ArrivedFirst(written, arrived)[Len(written)]
      BY <2>2, MessagesAreArrived
  <2>4. delivered = Messages(SubSeq(Bytes(written), start + 1, arrived))
        /\ start + 1 = 1
      BY DEF ChunkingIsIrrelevant
  <2>5. QED
      BY <2>1, <2>3, <2>4, ArrivedIsFirst DEF Buffered
<1>2. QED
    BY <1>1, AssemblerInvariant, InSyncCorrect, ChunkingCorrect, PTL
=============================================================================
