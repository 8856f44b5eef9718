--------------------------- MODULE ExchangeProofs ---------------------------
(***************************************************************************)
(* Proofs about modules MessageCodec and Exchange, for any version, any    *)
(* payload that msgpack can carry, and wherever a message is cut off.      *)
(***************************************************************************)
EXTENDS Exchange, FiniteSetTheorems, FunctionTheorems, SequenceTheorems,
        WellFoundedInduction, TLAPS

-----------------------------------------------------------------------------
(* Induction over numbers *)

LEMMA NatMinimum ==
  ASSUME NEW T \in SUBSET Nat, T # {}
  PROVE  \E m \in T : \A n \in T : m <= n
  <1>1. PICK m \in T : \A n \in T : ~ (<<n, m>> \in OpToRel(<, Nat))
    <2>1. IsWellFoundedOn(OpToRel(<, Nat), Nat)
      BY NatLessThanWellFounded
    <2>2. QED
      BY <2>1, WFMin
  <1>2. ASSUME NEW n \in T PROVE ~(n < m)
    BY <1>1 DEF OpToRel
  <1>3. QED
    BY <1>2

(* A set that holds 0 and is closed under successor up to N holds what is   *)
(* up to N.                                                                 *)
LEMMA SetInduction ==
  ASSUME NEW N \in Nat, NEW T, 0 \in T,
         \A n \in Nat : n < N /\ n \in T => n + 1 \in T
  PROVE  0..N \subseteq T
  <1> SUFFICES ASSUME NEW k \in 0..N, k \notin T PROVE FALSE
    OBVIOUS
  <1>1. PICK m \in 0..N \ T : \A n \in 0..N \ T : m <= n
    <2>1. 0..N \ T \in SUBSET Nat /\ 0..N \ T # {}
      OBVIOUS
    <2>2. QED
      BY <2>1, NatMinimum
  <1>2. m - 1 \in Nat /\ m - 1 < N /\ m - 1 \in T
    BY <1>1
  <1>3. QED
    BY <1>1, <1>2

LEMMA MaxOfSet ==
  ASSUME NEW N \in Nat, NEW s \in SUBSET (1..N), N \in s
  PROVE  Max(s) = N
  <1>1. \A y \in s : N >= y
    OBVIOUS
  <1>2. PICK x \in s : Max(s) = x /\ \A y \in s : x >= y
    <2> DEFINE P(x) == \A y \in s : x >= y
    <2>1. \E x \in s : P(x)
      BY <1>1
    <2>2. (CHOOSE x \in s : P(x)) \in s /\ P(CHOOSE x \in s : P(x))
      <3> HIDE DEF P
      <3>1. QED
        BY <2>1
    <2>3. QED
      BY <2>2 DEF Max
  <1>3. QED
    BY <1>2

-----------------------------------------------------------------------------
(* Folds *)

(* What the folds of MessageCodec do with one element, by a name for each.  *)
Step(name, acc, x) ==
    CASE name = "unpack" -> UnpackField(acc, x)
      [] name = "length" -> acc + Size(x)
      [] name = "number" -> 256 * acc + x

(* FoldLeft takes the elements of a sequence one after the other: it is the *)
(* last value of a function of the number of elements taken.                *)
IsRun(run, name, base, seq, n) ==
    run = [k \in 0..n |-> IF k = 0 THEN base
                          ELSE Step(name, run[k - 1], seq[k])]

(* Its definition recurs over the sets of positions.                        *)
IsIter(iter, name, base, seq, n) ==
    iter = [s \in SUBSET (1..n) |->
              IF s = {} THEN base
              ELSE Step(name, iter[s \ {Max(s)}], seq[Max(s)])]

LEMMA RunExists ==
  ASSUME NEW name, NEW base, NEW seq, NEW N \in Nat
  PROVE  \E run : IsRun(run, name, base, seq, N)
  <1> DEFINE T == {n \in Nat : \E f : IsRun(f, name, base, seq, n)}
  <1>1. 0 \in T
    <2> DEFINE f == [k \in 0..0 |-> base]
    <2>1. f = [k \in 0..0 |-> IF k = 0 THEN base
                              ELSE Step(name, f[k - 1], seq[k])]
      OBVIOUS
    <2> HIDE DEF f
    <2>2. QED
      BY <2>1 DEF IsRun
  <1>2. ASSUME NEW n \in Nat, n \in T PROVE n + 1 \in T
    <2>1. PICK f : IsRun(f, name, base, seq, n)
      BY <1>2
    <2> DEFINE last == Step(name, f[n], seq[n + 1])
               g == [k \in 0..n + 1 |-> IF k = n + 1 THEN last ELSE f[k]]
               h == [k \in 0..n + 1 |-> IF k = 0 THEN base
                                        ELSE Step(name, g[k - 1], seq[k])]
    <2>2. f = [k \in 0..n |-> IF k = 0 THEN base
                              ELSE Step(name, f[k - 1], seq[k])]
      BY <2>1 DEF IsRun
    <2>3. ASSUME NEW k \in 0..n + 1 PROVE g[k] = h[k]
      <3>1. CASE k = n + 1
        <4>1. g[k] = last /\ g[k - 1] = f[n] /\ k # 0
          BY <3>1
        <4>2. h[k] = Step(name, g[k - 1], seq[k])
          BY <4>1
        <4>3. QED
          BY <3>1, <4>1, <4>2
      <3>2. CASE k = 0
        <4>1. g[k] = f[0] /\ f[0] = base
          BY <2>2, <3>2
        <4>2. QED
          BY <3>2, <4>1
      <3>3. CASE k \in 1..n
        <4>1. g[k] = f[k] /\ g[k - 1] = f[k - 1]
          BY <3>3
        <4>2. f[k] = Step(name, f[k - 1], seq[k])
          BY <2>2, <3>3
        <4>3. h[k] = Step(name, g[k - 1], seq[k])
          BY <3>3
        <4>4. QED
          BY <4>1, <4>2, <4>3
      <3>4. QED
        BY <3>1, <3>2, <3>3
    <2>4. g = h
      BY <2>3
    <2>5. IsRun(g, name, base, seq, n + 1)
      <3> HIDE DEF g
      <3>1. QED
        BY <2>4 DEF IsRun
    <2>6. QED
      BY <2>5
  <1>3. 0..N \subseteq T
    <2> HIDE DEF T
    <2>1. QED
      BY <1>1, <1>2, SetInduction
  <1>4. QED
    BY <1>3

LEMMA IterExists ==
  ASSUME NEW name, NEW base, NEW seq, NEW N \in Nat
  PROVE  \E iter : IsIter(iter, name, base, seq, N)
  <1> DEFINE T == {n \in Nat : \E f : IsIter(f, name, base, seq, n)}
  <1>1. 0 \in T
    <2> DEFINE f == [s \in SUBSET (1..0) |-> base]
    <2>1. f = [s \in SUBSET (1..0) |->
                 IF s = {} THEN base
                 ELSE Step(name, f[s \ {Max(s)}], seq[Max(s)])]
      OBVIOUS
    <2> HIDE DEF f
    <2>2. QED
      BY <2>1 DEF IsIter
  <1>2. ASSUME NEW n \in Nat, n \in T PROVE n + 1 \in T
    <2>1. PICK f : IsIter(f, name, base, seq, n)
      BY <1>2
    <2> DEFINE g == [s \in SUBSET (1..n + 1) |->
                       IF n + 1 \in s
                         THEN Step(name, f[s \ {n + 1}], seq[n + 1])
                         ELSE f[s]]
               h == [s \in SUBSET (1..n + 1) |->
                       IF s = {} THEN base
                       ELSE Step(name, g[s \ {Max(s)}], seq[Max(s)])]
    <2>2. f = [s \in SUBSET (1..n) |->
                 IF s = {} THEN base
                 ELSE Step(name, f[s \ {Max(s)}], seq[Max(s)])]
      BY <2>1 DEF IsIter
    <2>3. ASSUME NEW s \in SUBSET (1..n + 1) PROVE g[s] = h[s]
      <3>1. CASE n + 1 \in s
        <4>1. Max(s) = n + 1
          BY <3>1, MaxOfSet
        <4>2. g[s] = Step(name, f[s \ {n + 1}], seq[n + 1])
          BY <3>1
        <4>3. /\ s \ {n + 1} \in SUBSET (1..n + 1)
              /\ n + 1 \notin s \ {n + 1}
          OBVIOUS
        <4>4. g[s \ {n + 1}] = f[s \ {n + 1}]
          BY <4>3
        <4>5. h[s] = Step(name, g[s \ {n + 1}], seq[n + 1])
          BY <3>1, <4>1
        <4>6. QED
          BY <4>2, <4>4, <4>5
      <3>2. CASE n + 1 \notin s
        <4>1. s \in SUBSET (1..n)
          BY <3>2
        <4>2. g[s] = f[s]
          BY <3>2
        <4>3. CASE s = {}
          <5>1. f[s] = base
            BY <2>2, <4>1, <4>3
          <5>2. h[s] = base
            BY <4>3
          <5>3. QED
            BY <4>2, <5>1, <5>2
        <4>4. CASE s # {}
          <5> DEFINE m == Max(s)
          <5>1. f[s] = Step(name, f[s \ {m}], seq[m])
            BY <2>2, <4>1, <4>4
          <5>2. h[s] = Step(name, g[s \ {m}], seq[m])
            BY <4>4
          <5>3. g[s \ {m}] = f[s \ {m}]
            <6>1. s \ {m} \in SUBSET (1..n + 1) /\ n + 1 \notin s \ {m}
              BY <3>2
            <6>2. QED
              BY <6>1
          <5>4. QED
            BY <4>2, <5>1, <5>2, <5>3
        <4>5. QED
          BY <4>3, <4>4
      <3>3. QED
        BY <3>1, <3>2
    <2>4. g = h
      BY <2>3
    <2>5. IsIter(g, name, base, seq, n + 1)
      <3> HIDE DEF g
      <3>1. QED
        BY <2>4 DEF IsIter
    <2>6. QED
      BY <2>5
  <1>3. 0..N \subseteq T
    <2> HIDE DEF T
    <2>1. QED
      BY <1>1, <1>2, SetInduction
  <1>4. QED
    BY <1>3

(* The two agree on the first k positions, for every k. *)
LEMMA IterIsRun ==
  ASSUME NEW name, NEW base, NEW seq, NEW N \in Nat,
         NEW iter, IsIter(iter, name, base, seq, N),
         NEW run, IsRun(run, name, base, seq, N)
  PROVE  iter[1..N] = run[N]
  <1> DEFINE T == {n \in 0..N : iter[1..n] = run[n]}
  <1>1. 0 \in T
    <2>1. 1..0 = {} /\ {} \in SUBSET (1..N)
      OBVIOUS
    <2>2. iter[{}] = base
      BY <2>1 DEF IsIter
    <2>3. run[0] = base
      BY DEF IsRun
    <2>4. QED
      BY <2>1, <2>2, <2>3
  <1>2. ASSUME NEW n \in Nat, n < N, n \in T PROVE n + 1 \in T
    <2>1. /\ 1..(n + 1) \in SUBSET (1..N) /\ 1..(n + 1) # {}
          /\ Max(1..(n + 1)) = n + 1 /\ 1..(n + 1) \ {n + 1} = 1..n
      <3>1. n + 1 \in 1..(n + 1) /\ 1..(n + 1) \ {n + 1} = 1..n
        OBVIOUS
      <3>2. 1..(n + 1) \in SUBSET (1..(n + 1)) /\ n + 1 \in Nat
        OBVIOUS
      <3>3. Max(1..(n + 1)) = n + 1
        BY <3>1, <3>2, MaxOfSet
      <3>4. 1..(n + 1) \in SUBSET (1..N)
        BY <1>2
      <3>5. QED
        BY <3>1, <3>3, <3>4
    <2>2. iter[1..(n + 1)] = Step(name, iter[1..n], seq[n + 1])
      BY <2>1 DEF IsIter
    <2>3. run[n + 1] = Step(name, run[n], seq[n + 1])
      <3>1. n + 1 \in 0..N /\ n + 1 # 0 /\ (n + 1) - 1 = n
        BY <1>2
      <3>2. QED
        BY <3>1 DEF IsRun
    <2>4. QED
      BY <1>2, <2>2, <2>3
  <1>3. 0..N \subseteq T
    <2> HIDE DEF T
    <2>1. QED
      BY <1>1, <1>2, SetInduction
  <1>4. QED
    BY <1>3


(* The three folds of the codec. *)
LEMMA UnpackFold ==
  ASSUME NEW base, NEW seq, NEW N \in Nat, DOMAIN seq = 1..N
  PROVE  \E run : /\ IsRun(run, "unpack", base, seq, N)
                  /\ FoldLeft(UnpackField, base, seq) = run[N]
  <1> DEFINE P(f) == f = [s \in SUBSET DOMAIN seq |->
                            IF s = {} THEN base
                            ELSE UnpackField(f[s \ {Max(s)}], seq[Max(s)])]
             iter == CHOOSE f : P(f)
  <1>1. \A a, x : Step("unpack", a, x) = UnpackField(a, x)
    BY DEF Step
  <1>2. \A f : P(f) <=> IsIter(f, "unpack", base, seq, N)
    BY <1>1 DEF IsIter
  <1>3. \E f : P(f)
    <2> HIDE DEF P
    <2>1. QED
      BY <1>2, IterExists
  <1>4. P(iter)
    <2> HIDE DEF P
    <2>1. QED
      BY <1>3
  <1>5. IsIter(iter, "unpack", base, seq, N)
    <2> HIDE DEF P, iter
    <2>1. QED
      BY <1>2, <1>4
  <1>6. PICK run : IsRun(run, "unpack", base, seq, N)
    BY RunExists
  <1>7. iter[1..N] = run[N]
    <2> HIDE DEF iter
    <2>1. QED
      BY <1>5, <1>6, IterIsRun
  <1>8. FoldLeft(UnpackField, base, seq) = iter[DOMAIN seq]
    BY DEF FoldLeft, MapThenFoldSet
  <1>9. QED
    BY <1>6, <1>7, <1>8

LEMMA LengthFold ==
  ASSUME NEW base, NEW seq, NEW N \in Nat, DOMAIN seq = 1..N
  PROVE  \E run : /\ IsRun(run, "length", base, seq, N)
                  /\ FoldLeft(LAMBDA sum, item : sum + Size(item), base, seq) = run[N]
  <1> DEFINE P(f) == f = [s \in SUBSET DOMAIN seq |->
                            IF s = {} THEN base
                            ELSE f[s \ {Max(s)}] + Size(seq[Max(s)])]
             iter == CHOOSE f : P(f)
  <1>1. \A a, x : Step("length", a, x) = a + Size(x)
    BY DEF Step
  <1>2. \A f : P(f) <=> IsIter(f, "length", base, seq, N)
    BY <1>1 DEF IsIter
  <1>3. \E f : P(f)
    <2> HIDE DEF P
    <2>1. QED
      BY <1>2, IterExists
  <1>4. P(iter)
    <2> HIDE DEF P
    <2>1. QED
      BY <1>3
  <1>5. IsIter(iter, "length", base, seq, N)
    <2> HIDE DEF P, iter
    <2>1. QED
      BY <1>2, <1>4
  <1>6. PICK run : IsRun(run, "length", base, seq, N)
    BY RunExists
  <1>7. iter[1..N] = run[N]
    <2> HIDE DEF iter
    <2>1. QED
      BY <1>5, <1>6, IterIsRun
  <1>8. FoldLeft(LAMBDA sum, item : sum + Size(item), base, seq) = iter[DOMAIN seq]
    BY DEF FoldLeft, MapThenFoldSet
  <1>9. QED
    BY <1>6, <1>7, <1>8

LEMMA NumberFold ==
  ASSUME NEW base, NEW seq, NEW N \in Nat, DOMAIN seq = 1..N
  PROVE  \E run : /\ IsRun(run, "number", base, seq, N)
                  /\ FoldLeft(LAMBDA n, byte : 256 * n + byte, base, seq) = run[N]
  <1> DEFINE P(f) == f = [s \in SUBSET DOMAIN seq |->
                            IF s = {} THEN base
                            ELSE 256 * f[s \ {Max(s)}] + seq[Max(s)]]
             iter == CHOOSE f : P(f)
  <1>1. \A a, x : Step("number", a, x) = 256 * a + x
    BY DEF Step
  <1>2. \A f : P(f) <=> IsIter(f, "number", base, seq, N)
    <2> TAKE f
    <2> DEFINE g == [s \in SUBSET DOMAIN seq |->
                       IF s = {} THEN base
                       ELSE 256 * f[s \ {Max(s)}] + seq[Max(s)]]
               h == [s \in SUBSET DOMAIN seq |->
                       IF s = {} THEN base
                       ELSE Step("number", f[s \ {Max(s)}], seq[Max(s)])]
    <2>1. g = h
      BY <1>1
    <2>2. P(f) <=> f = g
      OBVIOUS
    <2>3. IsIter(f, "number", base, seq, N) <=> f = h
      BY DEF IsIter
    <2>4. QED
      BY <2>1, <2>2, <2>3
  <1>3. \E f : P(f)
    <2> HIDE DEF P
    <2>1. QED
      BY <1>2, IterExists
  <1>4. P(iter)
    <2> HIDE DEF P
    <2>1. QED
      BY <1>3
  <1>5. IsIter(iter, "number", base, seq, N)
    <2> HIDE DEF P, iter
    <2>1. QED
      BY <1>2, <1>4
  <1>6. PICK run : IsRun(run, "number", base, seq, N)
    BY RunExists
  <1>7. iter[1..N] = run[N]
    <2> HIDE DEF iter
    <2>1. QED
      BY <1>5, <1>6, IterIsRun
  <1>8. FoldLeft(LAMBDA n, byte : 256 * n + byte, base, seq) = iter[DOMAIN seq]
    BY DEF FoldLeft, MapThenFoldSet
  <1>9. QED
    BY <1>6, <1>7, <1>8
-----------------------------------------------------------------------------
(* The header of a payload *)

LEMMA NumberOfByte ==
  ASSUME NEW a \in Nat
  PROVE  NumberOf(<<a>>) = a
  <1>1. \A acc, x : Step("number", acc, x) = 256 * acc + x
    BY DEF Step
  <1>2. DOMAIN <<a>> = 1..1 /\ 1 \in Nat
    OBVIOUS
  <1>3. PICK run : /\ IsRun(run, "number", 0, <<a>>, 1)
                   /\ NumberOf(<<a>>) = run[1]
    BY <1>2, NumberFold DEF NumberOf
  <1>4. run[0] = 0
    BY <1>3 DEF IsRun
  <1>5. run[1] = Step("number", run[0], a)
    BY <1>3 DEF IsRun
  <1>6. run[1] = a
    BY <1>1, <1>4, <1>5
  <1>7. QED
    BY <1>3, <1>6

LEMMA NumberOfTwo ==
  ASSUME NEW a \in Nat, NEW b \in Nat
  PROVE  NumberOf(<<a, b>>) = 256 * a + b
  <1>1. \A acc, x : Step("number", acc, x) = 256 * acc + x
    BY DEF Step
  <1>2. DOMAIN <<a, b>> = 1..2 /\ 2 \in Nat
    OBVIOUS
  <1>3. PICK run : /\ IsRun(run, "number", 0, <<a, b>>, 2)
                   /\ NumberOf(<<a, b>>) = run[2]
    BY <1>2, NumberFold DEF NumberOf
  <1>4. run[0] = 0
    BY <1>3 DEF IsRun
  <1>5. run[1] = Step("number", run[0], a)
    BY <1>3 DEF IsRun
  <1>6. run[1] = a
    BY <1>1, <1>4, <1>5
  <1>7. run[2] = Step("number", run[1], b)
    BY <1>3 DEF IsRun
  <1>8. run[2] = 256 * a + b
    BY <1>1, <1>6, <1>7
  <1>9. QED
    BY <1>3, <1>8

LEMMA NumberOfFour ==
  ASSUME NEW a \in Nat, NEW b \in Nat, NEW c \in Nat, NEW d \in Nat
  PROVE  NumberOf(<<a, b, c, d>>) = 256 * (256 * (256 * a + b) + c) + d
  <1>1. \A acc, x : Step("number", acc, x) = 256 * acc + x
    BY DEF Step
  <1>2. DOMAIN <<a, b, c, d>> = 1..4 /\ 4 \in Nat
    OBVIOUS
  <1>3. PICK run : /\ IsRun(run, "number", 0, <<a, b, c, d>>, 4)
                   /\ NumberOf(<<a, b, c, d>>) = run[4]
    BY <1>2, NumberFold DEF NumberOf
  <1>4. run[0] = 0
    BY <1>3 DEF IsRun
  <1>5. run[1] = Step("number", run[0], a)
    BY <1>3 DEF IsRun
  <1>6. run[1] = a
    BY <1>1, <1>4, <1>5
  <1>7. run[2] = Step("number", run[1], b)
    BY <1>3 DEF IsRun
  <1>8. run[2] = 256 * a + b
    BY <1>1, <1>6, <1>7
  <1>9. run[3] = Step("number", run[2], c)
    BY <1>3 DEF IsRun
  <1>10. run[3] = 256 * (256 * a + b) + c
    BY <1>1, <1>8, <1>9
  <1>11. run[4] = Step("number", run[3], d)
    BY <1>3 DEF IsRun
  <1>12. run[4] = 256 * (256 * (256 * a + b) + c) + d
    BY <1>1, <1>10, <1>11
  <1>13. QED
    BY <1>3, <1>12

LEMMA DivTwice ==
  ASSUME NEW n \in Nat
  PROVE  n \div 65536 = (n \div 256) \div 256
  BY SMT

LEMMA DivThrice ==
  ASSUME NEW n \in Nat
  PROVE  n \div 16777216 = (n \div 65536) \div 256
  BY SMT

LEMMA Base256 ==
  ASSUME NEW n \in Nat
  PROVE  /\ n = 256 * (n \div 256) + (n % 256)
         /\ n \div 256 \in Nat /\ n % 256 \in Nat
         /\ n < 256 => n % 256 = n
         /\ n < 65536 => n \div 256 < 256
  <1>1. n = 256 * (n \div 256) + (n % 256)
    BY SMT
  <1>2. n \div 256 \in Nat /\ n % 256 \in Nat
    BY SMT
  <1>3. n < 256 => n % 256 = n
    BY SMT
  <1>4. n < 65536 => n \div 256 < 256
    BY SMT
  <1>5. QED
    BY <1>1, <1>2, <1>3, <1>4

LEMMA BigEndianBytes ==
  ASSUME NEW n \in Nat, NEW q1, NEW q2, NEW q3,
         q1 = n \div 256, q2 = q1 \div 256, q3 = q2 \div 256
  PROVE  /\ BigEndian(n, 1) = <<n % 256>>
         /\ BigEndian(n, 2) = <<q1 % 256, n % 256>>
         /\ BigEndian(n, 4) = <<q3 % 256, q2 % 256, q1 % 256, n % 256>>
  <1>1. /\ 256^0 = 1 /\ 256^1 = 256 /\ 256^2 = 65536 /\ 256^3 = 16777216
    BY SMT
  <1>2. /\ n \div 256^0 = n /\ n \div 256^1 = q1
        /\ n \div 256^2 = q2 /\ n \div 256^3 = q3
    <2>1. n \div 1 = n
      BY SMT
    <2>2. n \div 65536 = q2
      BY DivTwice
    <2>3. n \div 16777216 = q3
      BY <2>2, DivThrice, SMT
    <2>4. QED
      BY <1>1, <2>1, <2>2, <2>3, SMT
  <1>3. BigEndian(n, 1) = <<n % 256>>
    <2>1. BigEndian(n, 1) = [i \in 1..1 |-> (n \div 256^(1 - i)) % 256]
      BY DEF BigEndian
    <2>2. 1 - 1 = 0
      OBVIOUS
    <2>3. BigEndian(n, 1)[1] = n % 256
      BY <1>2, <2>1, <2>2
    <2>4. QED
      BY <2>1, <2>3
  <1>4. BigEndian(n, 2) = <<q1 % 256, n % 256>>
    <2>1. BigEndian(n, 2) = [i \in 1..2 |-> (n \div 256^(2 - i)) % 256]
      BY DEF BigEndian
    <2>2. 2 - 1 = 1 /\ 2 - 2 = 0
      OBVIOUS
    <2>3. BigEndian(n, 2)[1] = q1 % 256 /\ BigEndian(n, 2)[2] = n % 256
      BY <1>2, <2>1, <2>2
    <2>4. QED
      BY <2>1, <2>3
  <1>5. BigEndian(n, 4) = <<q3 % 256, q2 % 256, q1 % 256, n % 256>>
    <2>1. BigEndian(n, 4) = [i \in 1..4 |-> (n \div 256^(4 - i)) % 256]
      BY DEF BigEndian
    <2>2. 4 - 1 = 3 /\ 4 - 2 = 2 /\ 4 - 3 = 1 /\ 4 - 4 = 0
      OBVIOUS
    <2>3. /\ BigEndian(n, 4)[1] = q3 % 256 /\ BigEndian(n, 4)[2] = q2 % 256
          /\ BigEndian(n, 4)[3] = q1 % 256 /\ BigEndian(n, 4)[4] = n % 256
      BY <1>2, <2>1, <2>2
    <2>4. QED
      BY <2>1, <2>3
  <1>6. QED
    BY <1>3, <1>4, <1>5

(* msgpack has four bytes for the length of a string or a buffer. *)
FourBytes(n) == n \in Nat /\ n \div 65536 < 65536

(* What BigEndian makes of a number is read back as that number.  *)
LEMMA NumberBack ==
  ASSUME NEW n \in Nat
  PROVE  /\ n < 256 => NumberOf(BigEndian(n, 1)) = n
         /\ n < 65536 => NumberOf(BigEndian(n, 2)) = n
         /\ n \div 65536 < 65536 => NumberOf(BigEndian(n, 4)) = n
  <1> DEFINE q1 == n \div 256
             q2 == q1 \div 256
             q3 == q2 \div 256
  <1>1. n = 256 * q1 + (n % 256) /\ q1 \in Nat /\ n % 256 \in Nat
    BY Base256
  <1>2. q1 = 256 * q2 + (q1 % 256) /\ q2 \in Nat /\ q1 % 256 \in Nat
    <2> HIDE DEF q1
    <2>1. QED
      BY <1>1, Base256
  <1>3. q2 = 256 * q3 + (q2 % 256) /\ q3 \in Nat /\ q2 % 256 \in Nat
    <2> HIDE DEF q2
    <2>1. QED
      BY <1>2, Base256
  <1>4. q3 % 256 \in Nat
    <2> HIDE DEF q3
    <2>1. QED
      BY <1>3, Base256
  <1>5. /\ BigEndian(n, 1) = <<n % 256>>
        /\ BigEndian(n, 2) = <<q1 % 256, n % 256>>
        /\ BigEndian(n, 4) = <<q3 % 256, q2 % 256, q1 % 256, n % 256>>
    BY BigEndianBytes
  <1>6. n < 256 => n % 256 = n
    BY Base256
  <1>7. n < 65536 => q1 % 256 = q1
    <2>1. n < 65536 => q1 < 256
      BY Base256
    <2> HIDE DEF q1
    <2>2. QED
      BY <1>1, <2>1, Base256
  <1>8. n \div 65536 < 65536 => q3 % 256 = q3
    <2>1. n \div 65536 = q2
      BY DivTwice
    <2>2. q2 < 65536 => q3 < 256
      <3> HIDE DEF q2
      <3>1. QED
        BY <1>2, Base256
    <2> HIDE DEF q2, q3
    <2>3. QED
      BY <1>3, <2>1, <2>2, Base256
  <1> HIDE DEF q1, q2, q3
  <1>9. n < 256 => NumberOf(BigEndian(n, 1)) = n
    BY <1>1, <1>5, <1>6, NumberOfByte, SMT
  <1>10. ASSUME n < 65536 PROVE NumberOf(BigEndian(n, 2)) = n
    <2>1. NumberOf(BigEndian(n, 2)) = 256 * q1 + (n % 256)
      BY <1>1, <1>5, <1>7, <1>10, NumberOfTwo, SMT
    <2>2. QED
      BY <1>1, <2>1, SMT
  <1>11. ASSUME n \div 65536 < 65536 PROVE NumberOf(BigEndian(n, 4)) = n
    <2>1. NumberOf(BigEndian(n, 4))
            = 256 * (256 * (256 * q3 + (q2 % 256)) + (q1 % 256)) + (n % 256)
      <3>1. BigEndian(n, 4) = <<q3, q2 % 256, q1 % 256, n % 256>>
        BY <1>5, <1>8, <1>11, SMT
      <3>2. QED
        BY <1>1, <1>2, <1>3, <3>1, NumberOfFour, SMT
    <2>2. NumberOf(BigEndian(n, 4)) = 256 * (256 * q2 + (q1 % 256)) + (n % 256)
      BY <1>3, <2>1, SMT
    <2>3. NumberOf(BigEndian(n, 4)) = 256 * q1 + (n % 256)
      BY <1>2, <2>2, SMT
    <2>4. QED
      BY <1>1, <2>3, SMT
  <1>12. QED
    BY <1>9, <1>10, <1>11

(* The header is a first byte, and the length in 0, 1, 2 or 4 more. *)
LEMMA BinHeadForms ==
  ASSUME NEW kind \in {"string", "buffer"}, NEW n, FourBytes(n)
  PROVE  \/ /\ BinHead(kind, n) = <<160 + n>> /\ n < 32
         \/ \E first \in Nat, width \in {1, 2, 4} :
              /\ BinHead(kind, n) = <<first>> \o BigEndian(n, width)
              /\ NumberOf(BigEndian(n, width)) = n
              /\ DataOffset(first) = width + 1
  <1> DEFINE width == IF n < 256 THEN 1 ELSE IF n < 65536 THEN 2 ELSE 4
             first == (IF kind = "string" THEN 217 ELSE 196)
                        + (CASE width = 1 -> 0 [] width = 2 -> 1
                             [] width = 4 -> 2)
  <1>1. \/ BinHead(kind, n) = <<160 + n>> /\ n < 32
        \/ BinHead(kind, n) = <<first>> \o BigEndian(n, width)
    <2> USE DEF FourBytes
    <2>1. CASE kind = "string" /\ n < 32
      BY <2>1, SMT DEF BinHead
    <2>2. CASE ~(kind = "string" /\ n < 32)
      <3>1. BinHead(kind, n) = <<first>> \o BigEndian(n, width)
        BY <2>2, SMT DEF BinHead
      <3>2. QED
        BY <3>1, SMT
    <2>3. QED
      BY <2>1, <2>2, SMT
  <1>2. width \in {1, 2, 4}
    BY SMT
  <1>3. NumberOf(BigEndian(n, width)) = n
    BY NumberBack, SMT DEF FourBytes
  <1>4. first \in {217, 196, 218, 197, 219, 198} /\ DataOffset(first) = width + 1
    <2>1. /\ DataOffset(217) = 2 /\ DataOffset(196) = 2
          /\ DataOffset(218) = 3 /\ DataOffset(197) = 3
          /\ DataOffset(219) = 5 /\ DataOffset(198) = 5
      BY SMT DEF DataOffset
    <2>2. CASE width = 1
      <3>1. first = IF kind = "string" THEN 217 ELSE 196
        BY <2>2, SMT
      <3>2. QED
        BY <2>1, <2>2, <3>1, SMT
    <2>3. CASE width = 2
      <3>1. first = IF kind = "string" THEN 218 ELSE 197
        BY <2>3, SMT
      <3>2. QED
        BY <2>1, <2>3, <3>1, SMT
    <2>4. CASE width = 4
      <3>1. first = IF kind = "string" THEN 219 ELSE 198
        BY <2>4, SMT
      <3>2. QED
        BY <2>1, <2>4, <3>1, SMT
    <2>5. QED
      BY <1>2, <2>2, <2>3, <2>4, SMT
  <1> HIDE DEF width, first
  <1>5. first \in Nat
    BY <1>4, SMT
  <1>6. CASE BinHead(kind, n) = <<first>> \o BigEndian(n, width)
    <2> SUFFICES \E f \in Nat, w \in {1, 2, 4} :
                    /\ BinHead(kind, n) = <<f>> \o BigEndian(n, w)
                    /\ NumberOf(BigEndian(n, w)) = n
                    /\ DataOffset(f) = w + 1
      OBVIOUS
    <2>1. first \in Nat /\ width \in {1, 2, 4}
      BY <1>2, <1>5
    <2>2. WITNESS first \in Nat, width \in {1, 2, 4}
    <2>3. QED
      BY <1>3, <1>4, <1>6
  <1>7. QED
    BY <1>1, <1>6, Zenon

LEMMA ShortTuples ==
  ASSUME NEW a \in Int, NEW b \in Int, NEW c \in Int, NEW d \in Int
  PROVE  /\ <<a>> \in Seq(Int) /\ Len(<<a>>) = 1
         /\ <<a, b>> \in Seq(Int) /\ Len(<<a, b>>) = 2
         /\ <<a, b, c, d>> \in Seq(Int) /\ Len(<<a, b, c, d>>) = 4
  OBVIOUS

(* The first byte tells how long the header is; the rest of it is the       *)
(* length of the payload.                                                   *)
LEMMA BinHeader ==
  ASSUME NEW kind \in {"string", "buffer"}, NEW n, FourBytes(n)
  PROVE  /\ Len(BinHead(kind, n)) \in Nat /\ Len(BinHead(kind, n)) > 0
         /\ DataOffset(BinHead(kind, n)[1]) = Len(BinHead(kind, n))
         /\ \A available \in Int :
              DataLength(BinHead(kind, n), Len(BinHead(kind, n)), available)
                = IF available < Len(BinHead(kind, n)) THEN -1 ELSE n
  <1> DEFINE head == BinHead(kind, n)
  <1>0. n \in Nat
    BY SMT DEF FourBytes
  <1>1. CASE head = <<160 + n>> /\ n < 32
    <2>1. Len(head) = 1 /\ head[1] = 160 + n
      BY <1>0, <1>1, SMT
    <2>2. (160 + n) \div 32 = 5 /\ (160 + n) % 32 = n
      BY <1>0, <1>1, SMT
    <2> HIDE DEF head
    <2>3. DataOffset(head[1]) = 1
      BY <1>0, <2>1, <2>2, SMT DEF DataOffset
    <2>4. \A available \in Int : DataLength(head, 1, available)
            = IF available < 1 THEN -1 ELSE n
      BY <1>0, <2>1, <2>2, SMT DEF DataLength
    <2>5. QED
      BY <2>1, <2>3, <2>4, SMT DEF head
  <1>2. ASSUME NEW first \in Nat, NEW width \in {1, 2, 4},
               head = <<first>> \o BigEndian(n, width),
               NumberOf(BigEndian(n, width)) = n,
               DataOffset(first) = width + 1
        PROVE  /\ Len(head) = width + 1 /\ head[1] = first
               /\ \A available \in Int : DataLength(head, width + 1, available)
                    = IF available < width + 1 THEN -1 ELSE n
    <2> DEFINE tail == BigEndian(n, width)
    <2>1. tail \in Seq(Int) /\ Len(tail) = width
      <3> DEFINE q1 == n \div 256
                 q2 == q1 \div 256
                 q3 == q2 \div 256
      <3>1. q1 \in Nat
        BY <1>0, Base256
      <3>2. q2 \in Nat
        <4> HIDE DEF q1
        <4>1. QED
          BY <3>1, Base256
      <3>3. q3 \in Nat
        <4> HIDE DEF q2
        <4>1. QED
          BY <3>2, Base256
      <3>4. /\ BigEndian(n, 1) = <<n % 256>>
            /\ BigEndian(n, 2) = <<q1 % 256, n % 256>>
            /\ BigEndian(n, 4) = <<q3 % 256, q2 % 256, q1 % 256, n % 256>>
        BY <1>0, BigEndianBytes
      <3> HIDE DEF q1, q2, q3
      <3>5. /\ n % 256 \in Int /\ q1 % 256 \in Int
            /\ q2 % 256 \in Int /\ q3 % 256 \in Int
        BY <1>0, <3>1, <3>2, <3>3, SMT
      <3>6. BigEndian(n, 1) \in Seq(Int) /\ Len(BigEndian(n, 1)) = 1
        <4>1. <<n % 256>> \in Seq(Int) /\ Len(<<n % 256>>) = 1
          BY <3>5, ShortTuples
        <4>2. QED
          BY <3>4, <4>1, Zenon
      <3>7. BigEndian(n, 2) \in Seq(Int) /\ Len(BigEndian(n, 2)) = 2
        <4>1. <<q1 % 256, n % 256>> \in Seq(Int) /\ Len(<<q1 % 256, n % 256>>) = 2
          BY <3>5, ShortTuples
        <4>2. QED
          BY <3>4, <4>1, Zenon
      <3>8. BigEndian(n, 4) \in Seq(Int) /\ Len(BigEndian(n, 4)) = 4
        <4>1. /\ <<q3 % 256, q2 % 256, q1 % 256, n % 256>> \in Seq(Int)
              /\ Len(<<q3 % 256, q2 % 256, q1 % 256, n % 256>>) = 4
          BY <3>5, ShortTuples
        <4>2. QED
          BY <3>4, <4>1, Zenon
      <3>9. QED
        BY <3>6, <3>7, <3>8
    <2> HIDE DEF tail, head
    <2>2. head = <<first>> \o tail
      BY <1>2 DEF tail
    <2>3. Len(head) = width + 1 /\ head[1] = first
      BY <2>1, <2>2, SMT
    <2>4. SubSeq(head, 2, width + 1) = tail
      BY <2>1, <2>2, SMT
    <2>5. NumberOf(SubSeq(head, 2, width + 1)) = n
      BY <1>2, <2>4 DEF tail
    <2>6. QED
      BY <1>0, <2>3, <2>5, SMT DEF DataLength
  <1>3. QED
    <2>1. CASE head = <<160 + n>> /\ n < 32
      BY <1>1, <2>1
    <2>2. CASE ~(head = <<160 + n>> /\ n < 32)
      <3>1. PICK first \in Nat, width \in {1, 2, 4} :
                   /\ head = <<first>> \o BigEndian(n, width)
                   /\ NumberOf(BigEndian(n, width)) = n
                   /\ DataOffset(first) = width + 1
        BY <2>2, BinHeadForms, Zenon
      <3> HIDE DEF head
      <3>2. /\ Len(head) = width + 1 /\ head[1] = first
            /\ \A available \in Int : DataLength(head, width + 1, available)
                 = IF available < width + 1 THEN -1 ELSE n
        BY <1>2, <3>1, Zenon
      <3>3. QED
        BY <3>1, <3>2, SMT DEF head
    <2>3. QED
      BY <2>1, <2>2
-----------------------------------------------------------------------------
(* The length of a buffer *)

Total(items) == FoldLeft(LAMBDA sum, item : sum + Size(item), 0, items)

LEMMA LengthIsTotal ==
  ASSUME NEW buffer
  PROVE  Length(buffer) = Total(buffer.items) - buffer.missing
  BY DEF Length, Total

LEMMA TotalRun ==
  ASSUME NEW S, \A x \in S : Size(x) \in Nat, NEW items \in Seq(S)
  PROVE  \E run : /\ Total(items) = run[Len(items)] /\ run[0] = 0
                  /\ \A k \in 0..Len(items) : run[k] \in Nat
                  /\ \A k \in 1..Len(items) : run[k] = run[k - 1] + Size(items[k])
  <1> DEFINE N == Len(items)
  <1>1. N \in Nat /\ DOMAIN items = 1..N /\ \A k \in 1..N : items[k] \in S
    OBVIOUS
  <1> HIDE DEF N
  <1>2. PICK run : IsRun(run, "length", 0, items, N) /\ Total(items) = run[N]
    BY <1>1, LengthFold DEF Total
  <1>3. \A acc, x : Step("length", acc, x) = acc + Size(x)
    BY DEF Step
  <1>4. run[0] = 0
    BY <1>1, <1>2 DEF IsRun
  <1>5. \A k \in 1..N : run[k] = run[k - 1] + Size(items[k])
    <2> TAKE k \in 1..N
    <2>1. k \in 0..N /\ k # 0
      BY <1>1
    <2>2. run[k] = Step("length", run[k - 1], items[k])
      BY <1>2, <2>1 DEF IsRun
    <2>3. QED
      BY <1>3, <2>2
  <1>6. \A k \in 0..N : run[k] \in Nat
    <2> DEFINE T == {k \in 0..N : run[k] \in Nat}
    <2>1. 0 \in T
      BY <1>1, <1>4
    <2>2. ASSUME NEW k \in Nat, k < N, k \in T PROVE k + 1 \in T
      <3>1. k + 1 \in 1..N /\ (k + 1) - 1 = k
        BY <1>1, <2>2
      <3>2. run[k + 1] = run[k] + Size(items[k + 1])
        BY <1>5, <3>1
      <3>3. Size(items[k + 1]) \in Nat
        BY <1>1, <3>1
      <3>4. QED
        BY <2>2, <3>1, <3>2, <3>3
    <2>3. 0..N \subseteq T
      <3> HIDE DEF T
      <3>1. QED
        BY <1>1, <2>1, <2>2, SetInduction
    <2>4. QED
      BY <2>3
  <1>7. QED
    BY <1>2, <1>4, <1>5, <1>6 DEF N

(* Without its first item a buffer is that much shorter. *)
LEMMA TotalOfTail ==
  ASSUME NEW S, \A x \in S : Size(x) \in Nat, NEW items \in Seq(S)
  PROVE  /\ Total(items) \in Nat
         /\ items = <<>> => Total(items) = 0
         /\ items # <<>> =>
              Total(items) = Size(Head(items)) + Total(Tail(items))
  <1> DEFINE N == Len(items)
  <1>1. PICK run : /\ Total(items) = run[N] /\ run[0] = 0
                   /\ \A k \in 0..N : run[k] \in Nat
                   /\ \A k \in 1..N : run[k] = run[k - 1] + Size(items[k])
    BY TotalRun
  <1>2. N \in Nat
    OBVIOUS
  <1>3. Total(items) \in Nat
    BY <1>1, <1>2
  <1>4. items = <<>> => Total(items) = 0
    BY <1>1
  <1>5. ASSUME items # <<>>
        PROVE  Total(items) = Size(Head(items)) + Total(Tail(items))
    <2> DEFINE rest == Tail(items)
    <2>1. /\ rest \in Seq(S) /\ N > 0 /\ Len(rest) = N - 1
          /\ \A k \in 1..(N - 1) : rest[k] = items[k + 1]
          /\ Head(items) = items[1] /\ items[1] \in S
      BY <1>5
    <2> HIDE DEF rest, N
    <2>2. PICK after : /\ Total(rest) = after[N - 1] /\ after[0] = 0
                       /\ \A k \in 0..(N - 1) : after[k] \in Nat
                       /\ \A k \in 1..(N - 1) :
                            after[k] = after[k - 1] + Size(rest[k])
      <3>1. PICK after : /\ Total(rest) = after[Len(rest)] /\ after[0] = 0
                         /\ \A k \in 0..Len(rest) : after[k] \in Nat
                         /\ \A k \in 1..Len(rest) :
                              after[k] = after[k - 1] + Size(rest[k])
        BY <2>1, TotalRun
      <3>2. Len(rest) = N - 1
        BY <2>1
      <3>3. QED
        BY <3>1, <3>2
    <2> DEFINE first == Size(items[1])
               T == {k \in 0..(N - 1) : run[k + 1] = first + after[k]}
    <2>3. first \in Nat
      BY <2>1
    <2>4. 0 \in T
      <3>1. 1 \in 1..N /\ 0 \in 0..(N - 1) /\ 0 + 1 = 1 /\ 1 - 1 = 0
        BY <1>2, <2>1
      <3>2. run[1] = run[0] + first
        BY <1>1, <3>1
      <3>3. QED
        BY <1>1, <2>2, <2>3, <3>1, <3>2
    <2>5. ASSUME NEW k \in Nat, k < N - 1, k \in T PROVE k + 1 \in T
      <3>1. /\ k + 2 \in 1..N /\ (k + 2) - 1 = k + 1 /\ (k + 1) + 1 = k + 2
            /\ k + 1 \in 1..(N - 1) /\ (k + 1) - 1 = k /\ k + 1 \in 0..(N - 1)
            /\ k \in 0..(N - 1)
        BY <1>2, <2>5
      <3>2. run[k + 2] = run[k + 1] + Size(items[k + 2])
        BY <1>1, <3>1
      <3>3. after[k + 1] = after[k] + Size(items[k + 2])
        BY <2>1, <2>2, <3>1
      <3>4. run[k + 1] = first + after[k]
        BY <2>5
      <3>5. Size(items[k + 2]) \in Nat
        BY <2>1, <3>1 DEF N
      <3>6. run[k + 2] = first + after[k + 1]
        <4> HIDE DEF first
        <4>1. after[k] \in Nat
          BY <2>2, <3>1
        <4>2. QED
          BY <2>3, <3>2, <3>3, <3>4, <3>5, <4>1
      <3>7. QED
        BY <3>1, <3>6
    <2>6. 0..(N - 1) \subseteq T
      <3>1. N - 1 \in Nat
        BY <1>2, <2>1
      <3> HIDE DEF T
      <3>2. QED
        BY <2>4, <2>5, <3>1, SetInduction
    <2>7. N - 1 \in 0..(N - 1) /\ (N - 1) + 1 = N
      BY <1>2, <2>1
    <2>8. run[N] = first + after[N - 1]
      <3>1. N - 1 \in T
        BY <2>6, <2>7
      <3>2. QED
        BY <2>7, <3>1
    <2>9. Total(items) = first + Total(rest)
      BY <1>1, <2>2, <2>8
    <2>10. QED
      BY <2>1, <2>9 DEF rest
  <1>6. QED
    BY <1>3, <1>4, <1>5
-----------------------------------------------------------------------------
(* The other fields of a message *)

Pairs(keys, values, n) ==
    [j \in 1..(2 * n) |-> IF j % 2 = 1 THEN keys[(j + 1) \div 2]
                                       ELSE values[j \div 2]]

LEMMA PairsGrow ==
  ASSUME NEW S, NEW N \in Nat, NEW keys \in [1..N -> S], NEW values \in [1..N -> S]
  PROVE  /\ N >= 1 => Pairs(keys, values, 1) = <<keys[1], values[1]>>
         /\ \A n \in 1..(N - 1) :
              Pairs(keys, values, n + 1)
                = Pairs(keys, values, n) \o <<keys[n + 1], values[n + 1]>>
  <1>1. ASSUME N >= 1
        PROVE  Pairs(keys, values, 1) = <<keys[1], values[1]>>
    <2>1. /\ 2 * 1 = 2 /\ 1 % 2 = 1 /\ 2 % 2 = 0
          /\ (1 + 1) \div 2 = 1 /\ 2 \div 2 = 1
      OBVIOUS
    <2>2. Pairs(keys, values, 1)
            = [j \in 1..2 |-> IF j % 2 = 1 THEN keys[(j + 1) \div 2]
                                           ELSE values[j \div 2]]
      BY <2>1 DEF Pairs
    <2>3. QED
      BY <2>1, <2>2
  <1>2. ASSUME NEW n \in 1..(N - 1)
        PROVE  Pairs(keys, values, n + 1)
                 = Pairs(keys, values, n) \o <<keys[n + 1], values[n + 1]>>
    <2> DEFINE p == Pairs(keys, values, n)
               q == Pairs(keys, values, n + 1)
               last == <<keys[n + 1], values[n + 1]>>
    <2>1. last \in Seq(S) /\ Len(last) = 2 /\ last[1] = keys[n + 1]
          /\ last[2] = values[n + 1]
      OBVIOUS
    <2>2. p \in Seq(S) /\ Len(p) = 2 * n
      <3>1. \A j \in 1..(2 * n) : (IF j % 2 = 1 THEN keys[(j + 1) \div 2]
                                               ELSE values[j \div 2]) \in S
        <4> TAKE j \in 1..(2 * n)
        <4>1. j % 2 = 1 => (j + 1) \div 2 \in 1..N
          OBVIOUS
        <4>2. j % 2 # 1 => j \div 2 \in 1..N
          OBVIOUS
        <4>3. QED
          BY <4>1, <4>2
      <3>2. 2 * n \in Nat
        OBVIOUS
      <3>3. QED
        BY <3>1, <3>2 DEF Pairs
    <2>3. q = [j \in 1..(2 * n + 2) |->
                 IF j % 2 = 1 THEN keys[(j + 1) \div 2] ELSE values[j \div 2]]
      <3>1. 2 * (n + 1) = 2 * n + 2
        OBVIOUS
      <3>2. QED
        BY <3>1 DEF Pairs
    <2>4. \A j \in 1..(2 * n) : q[j] = p[j]
      BY <2>3 DEF Pairs
    <2>5. q[2 * n + 1] = last[1] /\ q[2 * n + 2] = last[2]
      <3>1. /\ 2 * n + 1 \in 1..(2 * n + 2) /\ 2 * n + 2 \in 1..(2 * n + 2)
            /\ (2 * n + 1) % 2 = 1 /\ (2 * n + 2) % 2 = 0
            /\ ((2 * n + 1) + 1) \div 2 = n + 1 /\ (2 * n + 2) \div 2 = n + 1
        OBVIOUS
      <3>2. QED
        BY <2>1, <2>3, <3>1
    <2> HIDE DEF p, q, last
    <2>6. /\ p \o last \in Seq(S) /\ Len(p \o last) = 2 * n + 2
          /\ \A j \in 1..(2 * n + 2) :
               (p \o last)[j] = IF j <= 2 * n THEN p[j] ELSE last[j - 2 * n]
      <3>1. /\ p \o last \in Seq(S) /\ Len(p \o last) = Len(p) + Len(last)
            /\ \A j \in 1..(Len(p) + Len(last)) :
                 (p \o last)[j] = IF j <= Len(p) THEN p[j] ELSE last[j - Len(p)]
        BY <2>1, <2>2, ConcatProperties
      <3>2. QED
        BY <2>1, <2>2, <3>1
    <2>7. ASSUME NEW j \in 1..(2 * n + 2)
          PROVE  q[j] = IF j <= 2 * n THEN p[j] ELSE last[j - 2 * n]
      <3>1. CASE j <= 2 * n
        BY <2>4, <3>1
      <3>2. CASE j > 2 * n
        <4>1. j = 2 * n + 1 \/ j = 2 * n + 2
          BY <3>2
        <4>2. (2 * n + 1) - 2 * n = 1 /\ (2 * n + 2) - 2 * n = 2
          OBVIOUS
        <4>3. QED
          BY <2>5, <3>2, <4>1, <4>2
      <3>3. QED
        BY <3>1, <3>2
    <2>8. q = p \o last
      <3>1. DOMAIN q = 1..(2 * n + 2) /\ q = [j \in DOMAIN q |-> q[j]]
        BY <2>3
      <3>2. p \o last = [j \in 1..(2 * n + 2) |-> (p \o last)[j]]
        <4> DEFINE t == p \o last
        <4>1. t \in Seq(S) /\ Len(t) = 2 * n + 2
          BY <2>6
        <4> HIDE DEF t
        <4>2. t = [j \in 1..(2 * n + 2) |-> t[j]]
          BY <4>1
        <4>3. QED
          BY <4>2 DEF t
      <3>3. \A j \in 1..(2 * n + 2) : q[j] = (p \o last)[j]
        BY <2>6, <2>7
      <3>4. QED
        BY <3>1, <3>2, <3>3
    <2>9. QED
      BY <2>8 DEF p, q, last
  <1>3. QED
    BY <1>1, <1>2

LEMMA FlattenPairs ==
  ASSUME NEW S, NEW N \in Nat, N # 0,
         NEW keys \in [1..N -> S], NEW values \in [1..N -> S],
         NEW seqs, seqs = [i \in 1..N |-> <<keys[i], values[i]>>]
  PROVE  FlattenSeq(seqs) = Pairs(keys, values, N)
  <1> DEFINE P(f) == f = [i \in 1..Len(seqs) |->
                            IF i = 1 THEN seqs[i] ELSE f[i - 1] \o seqs[i]]
             flat == [i \in 1..N |-> Pairs(keys, values, i)]
             flatten == CHOOSE f : P(f)
  <1>1. Len(seqs) = N /\ N \in Nat /\ N >= 1
    OBVIOUS
  <1>0. /\ Pairs(keys, values, 1) = <<keys[1], values[1]>>
        /\ \A n \in 1..(N - 1) :
             Pairs(keys, values, n + 1)
               = Pairs(keys, values, n) \o <<keys[n + 1], values[n + 1]>>
    <2>1. /\ N >= 1 => Pairs(keys, values, 1) = <<keys[1], values[1]>>
          /\ \A n \in 1..(N - 1) :
               Pairs(keys, values, n + 1)
                 = Pairs(keys, values, n) \o <<keys[n + 1], values[n + 1]>>
      BY PairsGrow, Zenon
    <2>2. QED
      BY <1>1, <2>1
  <1>2. P(flat)
    <2> DEFINE g == [i \in 1..N |->
                       IF i = 1 THEN seqs[i] ELSE flat[i - 1] \o seqs[i]]
    <2>1. ASSUME NEW i \in 1..N PROVE flat[i] = g[i]
      <3>1. CASE i = 1
        BY <1>0, <3>1
      <3>2. CASE i # 1
        <4>1. i - 1 \in 1..(N - 1) /\ (i - 1) + 1 = i /\ i - 1 \in 1..N
          BY <3>2
        <4>2. Pairs(keys, values, i)
                = Pairs(keys, values, i - 1) \o <<keys[i], values[i]>>
          <5>1. Pairs(keys, values, (i - 1) + 1)
                  = Pairs(keys, values, i - 1)
                      \o <<keys[(i - 1) + 1], values[(i - 1) + 1]>>
            BY <1>0, <4>1
          <5>2. QED
            BY <4>1, <5>1
        <4>3. QED
          BY <3>2, <4>1, <4>2
      <3>3. QED
        BY <3>1, <3>2
    <2>2. flat = g
      BY <2>1
    <2>3. QED
      <3> HIDE DEF flat
      <3>1. QED
        BY <1>1, <2>2
  <1>3. P(flatten)
    <2>1. \E f : P(f)
      <3> HIDE DEF P
      <3>1. QED
        BY <1>2
    <2> HIDE DEF P
    <2>2. QED
      BY <2>1
  <1>4. FlattenSeq(seqs) = flatten[N]
    BY <1>1 DEF FlattenSeq
  <1> HIDE DEF flatten
  <1>5. flatten[1] = seqs[1]
    BY <1>1, <1>3
  <1>6. \A i \in 1..(N - 1) : flatten[i + 1] = flatten[i] \o seqs[i + 1]
    <2> TAKE i \in 1..(N - 1)
    <2>1. i + 1 \in 1..N /\ i + 1 # 1 /\ (i + 1) - 1 = i
      OBVIOUS
    <2>2. QED
      BY <1>1, <1>3, <2>1
  <1> DEFINE T == {i \in 0..N : i > 0 => flatten[i] = Pairs(keys, values, i)}
  <1>7. 0 \in T
    BY <1>1
  <1>8. ASSUME NEW i \in Nat, i < N, i \in T PROVE i + 1 \in T
    <2>1. i + 1 \in 1..N
      BY <1>8
    <2>2. CASE i = 0
      <3>1. i + 1 = 1
        BY <2>2
      <3>2. flatten[1] = Pairs(keys, values, 1)
        BY <1>0, <1>1, <1>5
      <3>3. QED
        BY <2>1, <3>1, <3>2
    <2>3. CASE i # 0
      <3>1. i \in 1..(N - 1) /\ flatten[i] = Pairs(keys, values, i)
        BY <1>8, <2>3
      <3>2. flatten[i + 1]
              = Pairs(keys, values, i) \o <<keys[i + 1], values[i + 1]>>
        BY <1>6, <2>1, <3>1
      <3>3. flatten[i + 1] = Pairs(keys, values, i + 1)
        BY <1>0, <3>1, <3>2
      <3>4. QED
        BY <2>1, <3>3
    <2>4. QED
      BY <2>2, <2>3
  <1>9. 0..N \subseteq T
    <2> HIDE DEF T
    <2>1. QED
      BY <1>1, <1>7, <1>8, SetInduction
  <1>10. QED
    BY <1>1, <1>4, <1>9

LEMMA SetToSeqOnto ==
  ASSUME NEW S, IsFiniteSet(S)
  PROVE  /\ Cardinality(S) \in Nat
         /\ SetToSeq(S) \in [1..Cardinality(S) -> S]
         /\ \A x \in S : \E i \in 1..Cardinality(S) : SetToSeq(S)[i] = x
         /\ \A i, j \in 1..Cardinality(S) :
              SetToSeq(S)[i] = SetToSeq(S)[j] => i = j
  <1> DEFINE c == Cardinality(S)
             names == SetToSeq(S)
  <1>1. c \in Nat /\ ExistsBijection(1..c, S)
    BY FS_CardinalityType
  <1>2. \E f \in [1..c -> S] : IsInjective(f)
    BY <1>1 DEF ExistsBijection, Bijection, Injection, IsInjective
  <1>3. names \in [1..c -> S] /\ IsInjective(names)
    BY <1>2 DEF SetToSeq
  <1> HIDE DEF names
  <1>4. names \in Injection(1..c, S)
    BY <1>3 DEF Injection, IsInjective
  <1>5. IsFiniteSet(1..c) /\ Cardinality(1..c) = c
    BY <1>1, FS_Interval
  <1>6. names \in Surjection(1..c, S)
    <2> HIDE DEF c
    <2>1. Cardinality(1..c) = Cardinality(S)
      BY <1>5 DEF c
    <2>2. QED
      BY <1>4, <2>1, FS_Injection
  <1>7. \A x \in S : \E i \in 1..c : names[i] = x
    BY <1>6 DEF Surjection
  <1>8. QED
    BY <1>1, <1>3, <1>7 DEF IsInjective, names

(* The other fields are read back as they were set, in whatever order they  *)
(* are packed.                                                              *)
LEMMA OtherFieldsBack ==
  ASSUME NEW fields, IsFiniteSet(DOMAIN fields),
         fields = [name \in DOMAIN fields |-> fields[name]]
  PROVE  OtherFields(OtherFieldsAsArray(fields)) = fields
  <1> DEFINE D == DOMAIN fields
             c == Cardinality(D)
             keys == SetToSeq(D)
             seqs == [i \in 1..c |-> <<keys[i], fields[keys[i]]>>]
             array == OtherFieldsAsArray(fields)
  <1>1. /\ c \in Nat /\ keys \in [1..c -> D]
        /\ \A x \in D : \E i \in 1..c : keys[i] = x
        /\ \A i, j \in 1..c : keys[i] = keys[j] => i = j
    BY SetToSeqOnto
  <1>2. array = FlattenSeq(seqs)
    BY DEF OtherFieldsAsArray
  <1> HIDE DEF keys, c, D, array
  <1>3. array = Pairs(keys, [i \in 1..c |-> fields[keys[i]]], c)
    <2> DEFINE values == [i \in 1..c |-> fields[keys[i]]]
               S == D \cup {fields[x] : x \in D}
    <2>1. CASE c = 0
      <3>1. Len(seqs) = 0 /\ seqs = [i \in 1..0 |-> i]
        BY <2>1
      <3>2. FlattenSeq(seqs) = seqs
        BY <3>1 DEF FlattenSeq
      <3>3. 2 * 0 = 0
        OBVIOUS
      <3>4. Pairs(keys, values, 0) = [i \in 1..0 |-> i]
        BY <3>3 DEF Pairs
      <3>5. QED
        BY <1>2, <2>1, <3>1, <3>2, <3>4
    <2>2. CASE c # 0
      <3>1. c \in Nat \ {0}
        BY <1>1, <2>2
      <3>2. keys \in [1..c -> S] /\ values \in [1..c -> S]
        BY <1>1
      <3>3. seqs = [i \in 1..c |-> <<keys[i], values[i]>>]
        OBVIOUS
      <3> HIDE DEF values, S, seqs
      <3>4. FlattenSeq(seqs) = Pairs(keys, values, c)
        BY <3>1, <3>2, <3>3, FlattenPairs
      <3>5. QED
        BY <1>2, <3>4 DEF values
    <2>3. QED
      BY <2>1, <2>2
  <1>4. /\ DOMAIN array = 1..(2 * c)
        /\ \A i \in 1..c : /\ 2 * i - 1 \in DOMAIN array /\ (2 * i - 1) % 2 = 1
                           /\ array[2 * i - 1] = keys[i]
                           /\ array[2 * i] = fields[keys[i]]
        /\ \A j \in DOMAIN array :
             j % 2 = 1 => \E i \in 1..c : j = 2 * i - 1
    <2>1. DOMAIN array = 1..(2 * c)
      BY <1>3 DEF Pairs
    <2>2. ASSUME NEW i \in 1..c
          PROVE  /\ 2 * i - 1 \in DOMAIN array /\ (2 * i - 1) % 2 = 1
                 /\ array[2 * i - 1] = keys[i]
                 /\ array[2 * i] = fields[keys[i]]
      <3>1. /\ 2 * i - 1 \in 1..(2 * c) /\ 2 * i \in 1..(2 * c)
            /\ (2 * i - 1) % 2 = 1 /\ (2 * i) % 2 = 0
            /\ ((2 * i - 1) + 1) \div 2 = i /\ (2 * i) \div 2 = i
        BY <1>1
      <3>2. /\ array[2 * i - 1] = keys[i]
            /\ array[2 * i] = [k \in 1..c |-> fields[keys[k]]][i]
        <4>1. \A j \in 1..(2 * c) :
                array[j] = IF j % 2 = 1 THEN keys[(j + 1) \div 2]
                           ELSE [k \in 1..c |-> fields[keys[k]]][j \div 2]
          BY <1>3 DEF Pairs
        <4>2. ASSUME NEW o, NEW e, o = 2 * i - 1, e = 2 * i
              PROVE  array[o] = keys[i] /\ array[e] = fields[keys[i]]
          <5>1. /\ o \in 1..(2 * c) /\ e \in 1..(2 * c)
                /\ o % 2 = 1 /\ e % 2 # 1
                /\ (o + 1) \div 2 = i /\ e \div 2 = i
            BY <3>1, <4>2
          <5>2. array[o] = keys[i]
            BY <4>1, <5>1
          <5>3. array[e] = [k \in 1..c |-> fields[keys[k]]][i]
            BY <4>1, <5>1
          <5>4. QED
            BY <5>2, <5>3
        <4>3. QED
          BY <4>2
      <3>3. QED
        BY <2>1, <3>1, <3>2
    <2>3. ASSUME NEW j \in DOMAIN array, j % 2 = 1
          PROVE  \E i \in 1..c : j = 2 * i - 1
      <3>1. j \in 1..(2 * c)
        BY <2>1
      <3>2. (j + 1) \div 2 \in 1..c /\ j = 2 * ((j + 1) \div 2) - 1
        <4>1. c \in Nat /\ j \in Nat /\ j % 2 = 1 /\ j >= 1 /\ j <= 2 * c
          BY <1>1, <2>3, <3>1
        <4>2. QED
          BY <4>1, SMT
      <3>3. QED
        BY <3>2
    <2>4. QED
      BY <2>1, <2>2, <2>3
  <1>5. {array[i] : i \in {j \in DOMAIN array : j % 2 = 1}} = D
    <2>1. ASSUME NEW i \in DOMAIN array, i % 2 = 1 PROVE array[i] \in D
      BY <1>1, <1>4, <2>1
    <2>2. ASSUME NEW x \in D
          PROVE  \E i \in DOMAIN array : i % 2 = 1 /\ array[i] = x
      BY <1>1, <1>4
    <2>3. QED
      BY <2>1, <2>2
  <1>6. ASSUME NEW name \in D
        PROVE  array[1 + CHOOSE i \in DOMAIN array : i % 2 = 1 /\ array[i] = name]
                 = fields[name]
    <2> DEFINE at == CHOOSE i \in DOMAIN array : i % 2 = 1 /\ array[i] = name
    <2>1. PICK k \in 1..c : keys[k] = name
      BY <1>1
    <2>2. at \in DOMAIN array /\ at % 2 = 1 /\ array[at] = name
      BY <1>4, <2>1
    <2> HIDE DEF at
    <2>3. PICK i \in 1..c : at = 2 * i - 1
      BY <1>4, <2>2
    <2>4. i = k
      BY <1>1, <1>4, <2>1, <2>2, <2>3
    <2>5. 1 + at = 2 * k
      BY <1>1, <2>3, <2>4
    <2>6. QED
      BY <1>4, <2>1, <2>5 DEF at
  <1>7. OtherFields(array) = [name \in D |-> fields[name]]
    BY <1>5, <1>6 DEF OtherFields
  <1>8. QED
    BY <1>7 DEF array, D
-----------------------------------------------------------------------------
(* Messages *)

CommonFields ==
    {"version", "messageType", "messageId", "destinationTopic",
     "sourceClientId", "sourceBrokerId", "brokerIds", "clientIds", "payload", "otherFields",
     "sourceTenantGuid", "destinationTenantGuids"}

OwnFields(type) ==
    CASE type = REQUEST -> {"replyToTopic", "serviceId"}
      [] type = RESPONSE -> {"requestMessageId", "serviceId"}
      [] type = EVENT -> {}
      [] type = ERROR -> {"requestMessageId", "serviceId", "errorCode",
                          "errorMessage"}

FieldsOf(type) == CommonFields \cup OwnFields(type)

LEMMA DistinctTypes ==
  /\ Types = {0, 1, 2, 3}
  /\ REQUEST = 0 /\ RESPONSE = 1 /\ EVENT = 2 /\ ERROR = 3
  BY DEF Types, REQUEST, RESPONSE, EVENT, ERROR

LEMMA DefaultsAre ==
  ASSUME NEW type, NEW id
  PROVE  LET m == MessageDefaults(type, id)
         IN  /\ DOMAIN m = CommonFields
             /\ m = [f \in CommonFields |-> m[f]]
             /\ m.version = 2 /\ m.messageType = type /\ m.messageId = id
             /\ m.destinationTopic = ""
             /\ m.sourceClientId = "" /\ m.sourceBrokerId = ""
             /\ m.brokerIds = <<>> /\ m.clientIds = <<>>
             /\ m.payload = Payload("string", 0) /\ m.otherFields = EmptyMap
             /\ m.sourceTenantGuid = "" /\ m.destinationTenantGuids = <<>>
  BY DEF MessageDefaults, CommonFields

(* The constructors, field by field. *)
LEMMA NewMessageIs ==
  ASSUME NEW type \in Types, NEW id
  PROVE  /\ NewMessage(type, id)
              = [f \in FieldsOf(type) |-> NewMessage(type, id)[f]]
         /\ \A f \in CommonFields :
              NewMessage(type, id)[f] = MessageDefaults(type, id)[f]
         /\ \A f \in OwnFields(type) :
              NewMessage(type, id)[f] =
                CASE f = "requestMessageId" -> "null"
                  [] f = "errorCode" -> 0
                  [] OTHER -> ""
  <1> DEFINE m == MessageDefaults(type, id)
  <1>1. DOMAIN m = CommonFields
    BY DefaultsAre
  <1> HIDE DEF m
  <1>2. CASE type = EVENT
    <2>1. NewMessage(type, id) = m /\ OwnFields(type) = {}
      BY <1>2, DistinctTypes DEF NewMessage, OwnFields, m
    <2>2. m = [f \in CommonFields |-> m[f]]
      BY DefaultsAre DEF m
    <2>3. FieldsOf(type) = CommonFields
      BY <2>1 DEF FieldsOf
    <2>4. QED
      BY <2>1, <2>2, <2>3 DEF m
  <1>3. CASE type = REQUEST
    <2> DEFINE own == [replyToTopic |-> "", serviceId |-> ""]
    <2>1. NewMessage(type, id) = Extend(m, own)
      BY <1>3, DistinctTypes DEF NewMessage, RequestDefaults, m
    <2>2. DOMAIN own = OwnFields(type)
      BY <1>3, DistinctTypes DEF OwnFields
    <2>3. CommonFields \cap OwnFields(type) = {}
      BY <1>3, DistinctTypes DEF OwnFields, CommonFields
    <2>4. \A f \in OwnFields(type) : own[f] = ""
          /\ f # "requestMessageId" /\ f # "errorCode"
      <3>1. OwnFields(type) = {"replyToTopic", "serviceId"}
        BY <2>2
      <3>2. own["replyToTopic"] = "" /\ own["serviceId"] = ""
        OBVIOUS
      <3> HIDE DEF own
      <3>3. QED
        BY <3>1, <3>2
    <2> HIDE DEF own
    <2>5. NewMessage(type, id)
            = [f \in FieldsOf(type) |-> IF f \in OwnFields(type) THEN own[f]
                                        ELSE m[f]]
      BY <1>1, <2>1, <2>2 DEF Extend, FieldsOf
    <2>6. QED
      BY <2>3, <2>4, <2>5 DEF m, FieldsOf
  <1>4. CASE type = RESPONSE
    <2> DEFINE own == [requestMessageId |-> "null", serviceId |-> ""]
    <2>1. NewMessage(type, id) = Extend(m, own)
      BY <1>4, DistinctTypes DEF NewMessage, ResponseDefaults, m
    <2>2. DOMAIN own = OwnFields(type)
      BY <1>4, DistinctTypes DEF OwnFields
    <2>3. CommonFields \cap OwnFields(type) = {}
      BY <1>4, DistinctTypes DEF OwnFields, CommonFields
    <2>4. \A f \in OwnFields(type) :
             /\ own[f] = IF f = "requestMessageId" THEN "null" ELSE ""
             /\ f # "errorCode"
      <3>1. OwnFields(type) = {"requestMessageId", "serviceId"}
        BY <2>2
      <3>2. own["requestMessageId"] = "null" /\ own["serviceId"] = ""
        OBVIOUS
      <3> HIDE DEF own
      <3>3. QED
        BY <3>1, <3>2
    <2> HIDE DEF own
    <2>5. NewMessage(type, id)
            = [f \in FieldsOf(type) |-> IF f \in OwnFields(type) THEN own[f]
                                        ELSE m[f]]
      BY <1>1, <2>1, <2>2 DEF Extend, FieldsOf
    <2>6. QED
      BY <2>3, <2>4, <2>5 DEF m, FieldsOf
  <1>5. CASE type = ERROR
    <2> DEFINE own == [requestMessageId |-> "null", serviceId |-> ""]
               more == [errorCode |-> 0, errorMessage |-> ""]
    <2>1. NewMessage(type, id) = Extend(Extend(m, own), more)
      BY <1>5, DistinctTypes DEF NewMessage, ErrorDefaults, ResponseDefaults, m
    <2>2. /\ DOMAIN own = {"requestMessageId", "serviceId"}
          /\ DOMAIN more = {"errorCode", "errorMessage"}
          /\ OwnFields(type) = DOMAIN own \cup DOMAIN more
      BY <1>5, DistinctTypes DEF OwnFields
    <2>3. /\ CommonFields \cap DOMAIN own = {}
          /\ CommonFields \cap DOMAIN more = {}
          /\ DOMAIN own \cap DOMAIN more = {}
      BY <2>2 DEF CommonFields
    <2>4. /\ own.requestMessageId = "null" /\ own.serviceId = ""
          /\ more.errorCode = 0 /\ more.errorMessage = ""
      OBVIOUS
    <2> HIDE DEF own, more
    <2>5. Extend(m, own)
            = [f \in CommonFields \cup DOMAIN own |->
                 IF f \in DOMAIN own THEN own[f] ELSE m[f]]
      BY <1>1 DEF Extend
    <2>6. NewMessage(type, id)
            = [f \in FieldsOf(type) |->
                 IF f \in DOMAIN more THEN more[f]
                 ELSE IF f \in DOMAIN own THEN own[f] ELSE m[f]]
      BY <2>1, <2>2, <2>3, <2>5 DEF Extend, FieldsOf
    <2>7. \A f \in OwnFields(type) :
             (IF f \in DOMAIN more THEN more[f] ELSE own[f]) =
                CASE f = "requestMessageId" -> "null"
                  [] f = "errorCode" -> 0
                  [] OTHER -> ""
      BY <2>2, <2>4
    <2>8. QED
      BY <2>2, <2>3, <2>6, <2>7 DEF m, FieldsOf
  <1>6. QED
    BY <1>2, <1>3, <1>4, <1>5, DistinctTypes
-----------------------------------------------------------------------------
(* What is packed, and in which order *)

Elements(s) == {s[i] : i \in 1..Len(s)}

LEMMA ElementsOfConcat ==
  ASSUME NEW S, NEW s \in Seq(S), NEW t \in Seq(S)
  PROVE  s \o t \in Seq(S) /\ Elements(s \o t) = Elements(s) \cup Elements(t)
  <1>1. /\ s \o t \in Seq(S) /\ Len(s \o t) = Len(s) + Len(t)
        /\ \A i \in 1..(Len(s) + Len(t)) :
             (s \o t)[i] = IF i <= Len(s) THEN s[i] ELSE t[i - Len(s)]
    BY ConcatProperties
  <1> DEFINE c == s \o t
             m == Len(s)
             n == Len(t)
  <1>2. m \in Nat /\ n \in Nat
    OBVIOUS
  <1> HIDE DEF c, m, n
  <1>3. Elements(c) \subseteq Elements(s) \cup Elements(t)
    <2> SUFFICES ASSUME NEW i \in 1..(m + n)
                 PROVE  c[i] \in Elements(s) \cup Elements(t)
      BY <1>1 DEF Elements, c, m, n
    <2>1. CASE i <= m
      <3>1. c[i] = s[i] /\ i \in 1..m
        BY <1>1, <2>1 DEF c, m, n
      <3>2. QED
        BY <3>1 DEF Elements, m
    <2>2. CASE i > m
      <3>1. c[i] = t[i - m] /\ i - m \in 1..n
        BY <1>1, <1>2, <2>2 DEF c, m, n
      <3>2. QED
        BY <3>1 DEF Elements, n
    <2>3. QED
      BY <1>2, <2>1, <2>2
  <1>4. ASSUME NEW i \in 1..m PROVE s[i] \in Elements(c)
    <2>1. i \in 1..(m + n) /\ i <= m
      BY <1>2
    <2>2. c[i] = s[i]
      BY <1>1, <2>1 DEF c, m, n
    <2>3. i \in 1..Len(c)
      BY <1>1, <2>1 DEF c, m, n
    <2>4. QED
      BY <2>2, <2>3 DEF Elements
  <1>5. ASSUME NEW i \in 1..n PROVE t[i] \in Elements(c)
    <2>1. m + i \in 1..(m + n) /\ ~(m + i <= m) /\ (m + i) - m = i
      BY <1>2
    <2>2. c[m + i] = t[i]
      BY <1>1, <2>1 DEF c, m, n
    <2>3. m + i \in 1..Len(c)
      BY <1>1, <2>1 DEF c, m, n
    <2>4. QED
      BY <2>2, <2>3 DEF Elements
  <1>6. QED
    BY <1>1, <1>3, <1>4, <1>5 DEF Elements, c, m, n

(* The fields after the type, in the order they are read. *)
Unpacked(type, version) ==
    UnpackMessage(type)
      \o (IF version > 0 THEN UnpackMessageV1 ELSE <<>>)
      \o (IF version > 1 THEN UnpackMessageV2 ELSE <<>>)

Packed(type, version) ==
    <<"version", "messageType">> \o PackMessage(type)
      \o (IF version > 0 THEN PackMessageV1 ELSE <<>>)
      \o (IF version > 1 THEN PackMessageV2 ELSE <<>>)

LEMMA UnpackMessageFields ==
  ASSUME NEW type \in Types
  PROVE  /\ UnpackMessage(type) \in Seq(FieldsOf(type))
         /\ Elements(UnpackMessage(type)) =
              {"messageId", "sourceClientId", "sourceBrokerId", "brokerIds",
               "clientIds", "payload"} \cup OwnFields(type)
         /\ PackMessage(type) = UnpackMessage(type)
  <1> DEFINE common == <<"messageId", "sourceClientId", "sourceBrokerId",
                         "brokerIds", "clientIds", "payload">>
             own == CASE type = REQUEST -> <<"replyToTopic", "serviceId">>
                      [] type = RESPONSE -> <<"requestMessageId", "serviceId">>
                      [] type = EVENT -> <<>>
                      [] type = ERROR ->
                           <<"requestMessageId", "serviceId", "errorCode",
                             "errorMessage">>
  <1>1. UnpackMessage(type) = common \o own /\ PackMessage(type) = common \o own
    BY DEF UnpackMessage, PackMessage
  <1>2. common \in Seq(FieldsOf(type))
    BY DEF FieldsOf, CommonFields
  <1>3. Elements(common) = {"messageId", "sourceClientId", "sourceBrokerId",
                            "brokerIds", "clientIds", "payload"}
    <2>1. Len(common) = 6
      OBVIOUS
    <2>2. 1..6 = {1, 2, 3, 4, 5, 6}
      OBVIOUS
    <2>3. Elements(common) = {common[i] : i \in {1, 2, 3, 4, 5, 6}}
      BY <2>1, <2>2 DEF Elements
    <2>4. Elements(common) = {common[1], common[2], common[3], common[4],
                              common[5], common[6]}
      <3> HIDE DEF common
      <3>1. QED
        BY <2>3
    <2>5. QED
      BY <2>4
  <1>4. own \in Seq(FieldsOf(type)) /\ Elements(own) = OwnFields(type)
    <2>1. CASE type = REQUEST
      <3>1. own = <<"replyToTopic", "serviceId">>
        BY <2>1, DistinctTypes
      <3>2. OwnFields(type) = {"replyToTopic", "serviceId"}
        BY <2>1, DistinctTypes DEF OwnFields
      <3> HIDE DEF own
      <3>3. QED
        BY <3>1, <3>2 DEF Elements, FieldsOf
    <2>2. CASE type = RESPONSE
      <3>1. own = <<"requestMessageId", "serviceId">>
        BY <2>2, DistinctTypes
      <3>2. OwnFields(type) = {"requestMessageId", "serviceId"}
        BY <2>2, DistinctTypes DEF OwnFields
      <3> HIDE DEF own
      <3>3. QED
        BY <3>1, <3>2 DEF Elements, FieldsOf
    <2>3. CASE type = EVENT
      <3>1. own = <<>>
        BY <2>3, DistinctTypes
      <3>2. OwnFields(type) = {}
        BY <2>3, DistinctTypes DEF OwnFields
      <3> HIDE DEF own
      <3>3. QED
        BY <3>1, <3>2 DEF Elements, FieldsOf
    <2>4. CASE type = ERROR
      <3>1. own = <<"requestMessageId", "serviceId", "errorCode", "errorMessage">>
        BY <2>4, DistinctTypes
      <3>2. OwnFields(type) = {"requestMessageId", "serviceId", "errorCode",
                               "errorMessage"}
        BY <2>4, DistinctTypes DEF OwnFields
      <3> HIDE DEF own
      <3>3. own \in Seq(FieldsOf(type)) /\ Len(own) = 4
        BY <3>1, <3>2 DEF FieldsOf
      <3>4. 1..4 = {1, 2, 3, 4}
        OBVIOUS
      <3>5. Elements(own) = {own[1], own[2], own[3], own[4]}
        BY <3>3, <3>4 DEF Elements
      <3>6. QED
        BY <3>1, <3>2, <3>3, <3>5
    <2>5. QED
      BY <2>1, <2>2, <2>3, <2>4, DistinctTypes
  <1> HIDE DEF common, own
  <1>5. QED
    BY <1>1, <1>2, <1>3, <1>4, ElementsOfConcat

(* A receiver reads the fields that a sender packs for that version, in the *)
(* same order.                                                              *)
LEMMA UnpackedFields ==
  ASSUME NEW type \in Types, NEW version \in Nat
  PROVE  /\ Unpacked(type, version) \in Seq(FieldsOf(type))
         /\ Elements(Unpacked(type, version)) =
              {f \in FieldsOf(type) \ {"version", "messageType"} :
                 Carries(version, f)}
         /\ Packed(type, version)
              = <<"version", "messageType">> \o Unpacked(type, version)
  <1> DEFINE F == FieldsOf(type)
             u == UnpackMessage(type)
             v1 == IF version > 0 THEN <<"otherFields">> ELSE <<>>
             v2 == IF version > 1 THEN <<"sourceTenantGuid",
                                         "destinationTenantGuids">> ELSE <<>>
             head == <<"version", "messageType">>
  <1>1. /\ Unpacked(type, version) = (u \o v1) \o v2
        /\ Packed(type, version) = ((head \o u) \o v1) \o v2
    BY UnpackMessageFields
       DEF Unpacked, Packed, UnpackMessageV1, UnpackMessageV2, PackMessageV1,
           PackMessageV2
  <1>2. v1 \in Seq(F) /\ Elements(v1) = IF version > 0 THEN {"otherFields"} ELSE {}
    <2>1. "otherFields" \in F
      BY DEF FieldsOf, CommonFields
    <2> HIDE DEF F
    <2>2. CASE version > 0
      BY <2>1, <2>2 DEF Elements
    <2>3. CASE ~(version > 0)
      BY <2>3 DEF Elements
    <2>4. QED
      BY <2>2, <2>3
  <1>3. /\ v2 \in Seq(F)
        /\ Elements(v2) = IF version > 1
                            THEN {"sourceTenantGuid", "destinationTenantGuids"}
                          ELSE {}
    <2>1. "sourceTenantGuid" \in F /\ "destinationTenantGuids" \in F
      BY DEF FieldsOf, CommonFields
    <2> HIDE DEF F
    <2>2. CASE version > 1
      BY <2>1, <2>2 DEF Elements
    <2>3. CASE ~(version > 1)
      BY <2>3 DEF Elements
    <2>4. QED
      BY <2>2, <2>3
  <1>4. head \in Seq(F)
    BY DEF FieldsOf, CommonFields
  <1>5. u \in Seq(F)
    BY UnpackMessageFields
  <1> HIDE DEF head, u, v1, v2, F
  <1>6. u \o v1 \in Seq(F) /\ Elements(u \o v1) = Elements(u) \cup Elements(v1)
    BY <1>2, <1>5, ElementsOfConcat
  <1>7. /\ (u \o v1) \o v2 \in Seq(F)
        /\ Elements((u \o v1) \o v2)
             = (Elements(u) \cup Elements(v1)) \cup Elements(v2)
    <2> DEFINE w == u \o v1
    <2>1. w \in Seq(F)
      BY <1>6
    <2> HIDE DEF w
    <2>2. w \o v2 \in Seq(F) /\ Elements(w \o v2) = Elements(w) \cup Elements(v2)
      BY <1>3, <2>1, ElementsOfConcat
    <2>3. QED
      BY <1>6, <2>2 DEF w
  <1>8. Packed(type, version) = head \o Unpacked(type, version)
    <2>1. (head \o u) \o v1 = head \o (u \o v1)
      BY <1>2, <1>4, <1>5, ConcatAssociative
    <2>2. (head \o (u \o v1)) \o v2 = head \o ((u \o v1) \o v2)
      BY <1>3, <1>4, <1>6, ConcatAssociative
    <2>3. QED
      BY <1>1, <2>1, <2>2
  <1>9. (Elements(u) \cup Elements(v1)) \cup Elements(v2)
          = {f \in F \ {"version", "messageType"} : Carries(version, f)}
    <2>1. Elements(u) = {"messageId", "sourceClientId", "sourceBrokerId",
                         "brokerIds", "clientIds", "payload"} \cup OwnFields(type)
      BY UnpackMessageFields DEF u
    <2>2. OwnFields(type) \subseteq {"replyToTopic", "serviceId",
                         "requestMessageId", "errorCode", "errorMessage"}
      BY DistinctTypes DEF OwnFields
    <2>3. F \ {"version", "messageType"}
            = Elements(u) \cup {"otherFields", "sourceTenantGuid",
                                "destinationTenantGuids",
                                "destinationTopic"}
      BY <2>1, <2>2 DEF F, FieldsOf, CommonFields
    <2>4. \A f \in Elements(u) : Carries(version, f)
      BY <2>1, <2>2 DEF Carries
    <2>5. /\ Carries(version, "otherFields") <=> version > 0
          /\ Carries(version, "sourceTenantGuid") <=> version > 1
          /\ Carries(version, "destinationTenantGuids") <=> version > 1
          /\ ~Carries(version, "destinationTopic")
      BY DEF Carries
    <2>6. QED
      BY <1>2, <1>3, <2>3, <2>4, <2>5
  <1>10. QED
    BY <1>1, <1>7, <1>8, <1>9 DEF F, head
-----------------------------------------------------------------------------
(* A message is decoded as it was encoded *)

IsMessage(m) ==
    /\ m.messageType \in Types /\ m.version \in Nat
    /\ m = [f \in FieldsOf(m.messageType) |-> m[f]]
    /\ m.payload = Payload(m.payload.as, m.payload.length)
    /\ FourBytes(m.payload.length)
    /\ IsFiniteSet(DOMAIN m.otherFields)
    /\ m.otherFields = [name \in DOMAIN m.otherFields |-> m.otherFields[name]]

(* What is read from the bytes of a field: a payload is a buffer, however   *)
(* it was encoded.                                                          *)
Read(m, f) == IF f = "payload" THEN Payload("buffer", m.payload.length) ELSE m[f]

(* The message as it is decoded, and as a receiver has it. *)
Received(m) ==
    [f \in FieldsOf(m.messageType) |->
       IF Carries(m.version, f) THEN Read(m, f)
       ELSE NewMessage(m.messageType, "new")[f]]
Arrived(m) == [Received(m) EXCEPT !.destinationTopic = m.destinationTopic]

Items(m) == {PackField(m, f) : f \in FieldsOf(m.messageType)}

LEMMA PayloadItem ==
  ASSUME NEW p, FourBytes(p.length)
  PROVE  \E kind \in {"string", "buffer"} :
           /\ BinItem(p).head = BinHead(kind, p.length)
           /\ BinItem(p).body = p.length /\ BinItem(p).value = p
           /\ Size(BinItem(p)) = Len(BinHead(kind, p.length)) + p.length
           /\ Size(BinItem(p)) \in Nat
  <1> DEFINE kind == IF p.as = "buffer" THEN "buffer" ELSE "string"
  <1>1. kind \in {"string", "buffer"}
    OBVIOUS
  <1> HIDE DEF kind
  <1>2. Len(BinHead(kind, p.length)) \in Nat
    BY <1>1, BinHeader
  <1>3. p.length \in Nat
    BY DEF FourBytes
  <1>4. BinItem(p) = [head |-> BinHead(kind, p.length), body |-> p.length,
                      value |-> p]
    BY DEF BinItem, kind
  <1>5. QED
    BY <1>1, <1>2, <1>3, <1>4 DEF Size

LEMMA OtherItem ==
  ASSUME NEW value
  PROVE  Size(Item(value)) = 1 /\ Item(value).value = value
  BY DEF Size, Item

LEMMA ItemSizes ==
  ASSUME NEW m, IsMessage(m)
  PROVE  \A item \in Items(m) : Size(item) \in Nat
  <1> SUFFICES ASSUME NEW f \in FieldsOf(m.messageType)
               PROVE  Size(PackField(m, f)) \in Nat
    BY DEF Items
  <1>1. CASE f = "payload"
    <2>1. PackField(m, f) = BinItem(m.payload)
      BY <1>1 DEF PackField
    <2>2. Size(BinItem(m.payload)) \in Nat
      BY PayloadItem DEF IsMessage
    <2>3. QED
      BY <2>1, <2>2
  <1>2. CASE f = "otherFields"
    <2>1. PackField(m, f) = Item(OtherFieldsAsArray(m.otherFields))
      BY <1>2 DEF PackField
    <2>2. QED
      BY <2>1, OtherItem
  <1>3. CASE f \notin {"payload", "otherFields"}
    <2>1. PackField(m, f) = Item(m[f])
      BY <1>3 DEF PackField
    <2>2. QED
      BY <2>1, OtherItem
  <1>4. QED
    BY <1>1, <1>2, <1>3

(* A payload is read when all of it is there. *)
LEMMA UnpackPayload ==
  ASSUME NEW p, FourBytes(p.length), NEW buffer, Length(buffer) \in Int,
         Head(buffer.items) = BinItem(p)
  PROVE  UnpackBinObject(buffer) =
           IF Length(buffer) >= Size(BinItem(p))
             THEN Returns(buffer, Payload("buffer", p.length))
           ELSE Throws(buffer)
  <1> DEFINE item == Head(buffer.items)
             n == p.length
             available == Length(buffer)
             offset == DataOffset(item.head[1])
             length == DataLength(item.head, offset, available)
  <1>1. PICK kind \in {"string", "buffer"} :
           /\ item.head = BinHead(kind, n)
           /\ item.body = n
           /\ Size(item) = Len(BinHead(kind, n)) + n
    BY PayloadItem
  <1>2. n \in Nat /\ available \in Int
    BY DEF FourBytes
  <1>3. /\ Len(item.head) \in Nat /\ Len(item.head) > 0
        /\ offset = Len(item.head)
        /\ length = IF available < Len(item.head) THEN -1 ELSE n
    BY <1>1, <1>2, BinHeader
  <1>4. UnpackBinObject(buffer) =
          IF available > 0 /\ length >= 0 /\ available >= length + offset
            THEN Returns(buffer, IF offset = Len(item.head) /\ length = item.body
                                   THEN Payload("buffer", length) ELSE Garbled)
          ELSE Throws(buffer)
    BY DEF UnpackBinObject
  <1>5. Size(BinItem(p)) = Len(item.head) + n
    BY <1>1
  <1> HIDE DEF item, n, available, offset, length
  <1> DEFINE h == Len(item.head)
  <1> HIDE DEF h
  <1>6. h \in Nat /\ h > 0 /\ offset = h /\ Size(BinItem(p)) = h + n
        /\ length = IF available < h THEN -1 ELSE n
    BY <1>3, <1>5 DEF h
  <1>7. (available > 0 /\ length >= 0 /\ available >= length + offset)
          <=> available >= h + n
    <2>1. CASE available < h
      <3>1. length = -1
        BY <1>6, <2>1
      <3>2. ~(length >= 0)
        BY <3>1
      <3>3. ~(available >= h + n)
        BY <1>2, <1>6, <2>1
      <3>4. QED
        BY <3>2, <3>3
    <2>2. CASE ~(available < h)
      <3>1. length = n
        BY <1>6, <2>2
      <3>2. QED
        BY <1>2, <1>6, <2>2, <3>1
    <2>3. QED
      BY <2>1, <2>2
  <1>8. CASE available >= h + n
    <2>1. length = n
      BY <1>2, <1>6, <1>8
    <2>2. UnpackBinObject(buffer) = Returns(buffer, Payload("buffer", n))
      BY <1>1, <1>4, <1>6, <1>7, <1>8, <2>1 DEF h
    <2>3. QED
      BY <1>6, <1>8, <2>2 DEF available, n
  <1>9. CASE ~(available >= h + n)
    <2>1. UnpackBinObject(buffer) = Throws(buffer)
      BY <1>4, <1>7, <1>9
    <2>2. QED
      BY <1>6, <1>9, <2>1 DEF available, n
  <1>10. QED
    BY <1>8, <1>9

LEMMA ConsumeIs ==
  ASSUME NEW items, NEW missing
  PROVE  Consume([items |-> items, missing |-> missing])
           = [items |-> Tail(items), missing |-> missing]
  <1>1. \A t : [[items |-> items, missing |-> missing] EXCEPT !.items = t]
                 = [items |-> t, missing |-> missing]
    OBVIOUS
  <1>2. QED
    BY <1>1, Zenon DEF Consume

(* One field, packed at the front of what is left of the buffer. *)
LEMMA UnpackPacked ==
  ASSUME NEW m, IsMessage(m), NEW f \in FieldsOf(m.messageType),
         NEW items, items # <<>>, Head(items) = PackField(m, f),
         NEW missing, NEW message,
         Length([items |-> items, missing |-> missing]) \in Int
  PROVE  LET buffer == [items |-> items, missing |-> missing]
             acc == [buffer |-> buffer, ok |-> TRUE, message |-> message]
         IN  UnpackField(acc, f) =
               IF Length(buffer) >= Size(Head(items))
                 THEN [buffer |-> [items |-> Tail(items), missing |-> missing],
                       ok |-> TRUE,
                       message |-> [message EXCEPT ![f] = Read(m, f)]]
               ELSE [acc EXCEPT !.ok = FALSE]
  <1> DEFINE buffer == [items |-> items, missing |-> missing]
             acc == [buffer |-> buffer, ok |-> TRUE, message |-> message]
             next == IF f = "payload" THEN UnpackBinObject(buffer)
                                      ELSE UnpackObject(buffer)
             value == IF f = "otherFields" THEN OtherFields(next.value)
                                           ELSE next.value
             enough == Length(buffer) >= Size(Head(items))
  <1>1. UnpackField(acc, f) =
          IF ~next.ok THEN [acc EXCEPT !.ok = FALSE]
          ELSE [acc EXCEPT !.buffer = next.buffer, !.message[f] = value]
    BY DEF UnpackField
  <1>2. Consume(buffer) = [items |-> Tail(items), missing |-> missing]
    BY ConsumeIs
  <1>3. ASSUME NEW object, enough, next = Returns(buffer, object), value = Read(m, f)
        PROVE  UnpackField(acc, f) =
                 [buffer |-> [items |-> Tail(items), missing |-> missing],
                  ok |-> TRUE,
                  message |-> [message EXCEPT ![f] = Read(m, f)]]
    <2>1. next.ok /\ next.buffer = Consume(buffer)
      BY <1>3 DEF Returns
    <2> HIDE DEF next, value, buffer
    <2>2. UnpackField(acc, f) =
            [acc EXCEPT !.buffer = Consume(buffer), !.message[f] = Read(m, f)]
      BY <1>1, <1>3, <2>1
    <2>3. QED
      BY <1>2, <2>2
  <1>4. ASSUME ~enough, next = Throws(buffer)
        PROVE  UnpackField(acc, f) = [acc EXCEPT !.ok = FALSE]
    <2>1. ~next.ok
      BY <1>4 DEF Throws
    <2> HIDE DEF next, value, buffer
    <2>2. QED
      BY <1>1, <2>1
  <1>5. CASE f = "payload"
    <2>1. /\ Head(buffer.items) = BinItem(m.payload)
          /\ FourBytes(m.payload.length)
      BY <1>5 DEF PackField, IsMessage
    <2>2. UnpackBinObject(buffer) =
           IF Length(buffer) >= Size(BinItem(m.payload))
             THEN Returns(buffer, Payload("buffer", m.payload.length))
           ELSE Throws(buffer)
      <3> HIDE DEF buffer
      <3>1. QED
        BY <2>1, UnpackPayload DEF buffer
    <2>3. Head(items) = BinItem(m.payload)
      BY <2>1
    <2>4. CASE enough
      <3>1. next = Returns(buffer, Payload("buffer", m.payload.length))
        BY <1>5, <2>2, <2>3, <2>4
      <3>2. value = Read(m, f)
        BY <1>5, <3>1 DEF Returns, Read
      <3>3. QED
        BY <1>3, <2>4, <3>1, <3>2
    <2>5. CASE ~enough
      <3>1. next = Throws(buffer)
        BY <1>5, <2>2, <2>3, <2>5
      <3>2. QED
        BY <1>4, <2>5, <3>1
    <2>6. QED
      BY <2>4, <2>5
  <1>6. CASE f # "payload"
    <2>1. UnpackObject(buffer) =
            IF enough THEN Returns(buffer, Head(items).value) ELSE Throws(buffer)
      BY DEF UnpackObject
    <2>2. Head(items).value = IF f = "otherFields"
                                THEN OtherFieldsAsArray(m.otherFields) ELSE m[f]
      BY <1>6, OtherItem DEF PackField
    <2>3. CASE enough
      <3>1. next = Returns(buffer, Head(items).value)
        BY <1>6, <2>1, <2>3
      <3>2. value = Read(m, f)
        <4>1. next.value = Head(items).value
          BY <3>1 DEF Returns
        <4>2. OtherFields(OtherFieldsAsArray(m.otherFields)) = m.otherFields
          BY OtherFieldsBack DEF IsMessage
        <4> HIDE DEF next
        <4>3. QED
          BY <1>6, <2>2, <4>1, <4>2 DEF Read
      <3>3. QED
        BY <1>3, <2>3, <3>1, <3>2
    <2>4. CASE ~enough
      <3>1. next = Throws(buffer)
        BY <1>6, <2>1, <2>4
      <3>2. QED
        BY <1>4, <2>4, <3>1
    <2>5. QED
      BY <2>3, <2>4
  <1>7. QED
    BY <1>5, <1>6, <1>3, <1>4
LEMMA RestOf ==
  ASSUME NEW S, NEW s \in Seq(S)
  PROVE  /\ SubSeq(s, 1, Len(s)) = s /\ SubSeq(s, Len(s) + 1, Len(s)) = <<>>
         /\ \A k \in 0..Len(s) : SubSeq(s, k + 1, Len(s)) \in Seq(S)
         /\ \A k \in 0..(Len(s) - 1) :
              /\ SubSeq(s, k + 1, Len(s)) # <<>>
              /\ Head(SubSeq(s, k + 1, Len(s))) = s[k + 1]
              /\ Tail(SubSeq(s, k + 1, Len(s))) = SubSeq(s, (k + 1) + 1, Len(s))
  <1>1. SubSeq(s, 1, Len(s)) = s /\ SubSeq(s, Len(s) + 1, Len(s)) = <<>>
    OBVIOUS
  <1>2. ASSUME NEW k \in 0..Len(s) PROVE SubSeq(s, k + 1, Len(s)) \in Seq(S)
    OBVIOUS
  <1>3. ASSUME NEW k \in 0..(Len(s) - 1)
        PROVE  /\ SubSeq(s, k + 1, Len(s)) # <<>>
               /\ Head(SubSeq(s, k + 1, Len(s))) = s[k + 1]
               /\ Tail(SubSeq(s, k + 1, Len(s)))
                    = SubSeq(s, (k + 1) + 1, Len(s))
    <2> DEFINE r == SubSeq(s, k + 1, Len(s))
    <2>1. k + 1 \in 1..Len(s) /\ Len(s) \in (k + 1)..Len(s)
      OBVIOUS
    <2>2. Len(r) = Len(s) - k /\ Len(s) - k > 0
      OBVIOUS
    <2>3. /\ Head(r) = s[k + 1]
          /\ Tail(r) = SubSeq(s, (k + 1) + 1, Len(s))
      BY <2>1, HeadTailOfSubSeq
    <2> HIDE DEF r
    <2>4. r # <<>>
      BY <2>2, EmptySeq
    <2>5. QED
      BY <2>3, <2>4 DEF r
  <1>4. QED
    BY <1>1, <1>2, <1>3

LEMMA BytesOf ==
  ASSUME NEW m, IsMessage(m)
  PROVE  LET u == Unpacked(m.messageType, m.version)
             items == ToBytes(m).items
         IN  /\ ToBytes(m) = [items |-> items, missing |-> 0]
             /\ items \in Seq(Items(m)) /\ Len(items) = Len(u) + 2
             /\ Len(u) \in Nat
             /\ items[1] = Item(m.version) /\ items[2] = Item(m.messageType)
             /\ \A i \in 1..Len(u) : /\ u[i] \in FieldsOf(m.messageType)
                                     /\ items[i + 2] = PackField(m, u[i])
  <1> DEFINE F == FieldsOf(m.messageType)
             u == Unpacked(m.messageType, m.version)
             p == Packed(m.messageType, m.version)
             items == ToBytes(m).items
             head == <<"version", "messageType">>
  <1>1. m.messageType \in Types /\ m.version \in Nat
    BY DEF IsMessage
  <1>2. u \in Seq(F) /\ p = head \o u
    BY <1>1, UnpackedFields
  <1>3. ToBytes(m) = [items |-> [i \in DOMAIN p |-> PackField(m, p[i])],
                      missing |-> 0]
    BY DEF ToBytes, Packed
  <1>4. head \in Seq(F) /\ Len(head) = 2
        /\ head[1] = "version" /\ head[2] = "messageType"
    BY DEF FieldsOf, CommonFields
  <1> HIDE DEF head, u, p, F
  <1>5. /\ p \in Seq(F) /\ Len(p) = 2 + Len(u)
        /\ \A i \in 1..(2 + Len(u)) :
             p[i] = IF i <= 2 THEN head[i] ELSE u[i - 2]
    <2>1. /\ head \o u \in Seq(F) /\ Len(head \o u) = Len(head) + Len(u)
          /\ \A i \in 1..(Len(head) + Len(u)) :
               (head \o u)[i] = IF i <= Len(head) THEN head[i]
                                 ELSE u[i - Len(head)]
      BY <1>2, <1>4, ConcatProperties
    <2>2. QED
      BY <1>2, <1>4, <2>1
  <1> DEFINE n == Len(u)
  <1>6. n \in Nat
    BY <1>2
  <1> HIDE DEF n
  <1>7. DOMAIN p = 1..(n + 2) /\ \A i \in 1..(n + 2) : p[i] \in F
    BY <1>5, <1>6 DEF n
  <1>8. items = [i \in 1..(n + 2) |-> PackField(m, p[i])]
    BY <1>3, <1>7
  <1>9. ToBytes(m) = [items |-> items, missing |-> 0]
    BY <1>3
  <1> HIDE DEF items
  <1>10. items \in Seq(Items(m)) /\ Len(items) = n + 2
    <2>1. \A i \in 1..(n + 2) : PackField(m, p[i]) \in Items(m)
      BY <1>7 DEF Items, F
    <2>2. n + 2 \in Nat
      BY <1>6
    <2>3. QED
      BY <1>8, <2>1, <2>2
  <1>11. items[1] = Item(m.version) /\ items[2] = Item(m.messageType)
    <2>1. 1 \in 1..(n + 2) /\ 2 \in 1..(n + 2)
      BY <1>6
    <2>2. p[1] = "version" /\ p[2] = "messageType"
      BY <1>4, <1>5, <2>1 DEF n
    <2>3. QED
      BY <1>8, <2>1, <2>2 DEF PackField
  <1>12. ASSUME NEW i \in 1..n
         PROVE  u[i] \in F /\ items[i + 2] = PackField(m, u[i])
    <2>1. i + 2 \in 1..(n + 2) /\ ~(i + 2 <= 2) /\ (i + 2) - 2 = i
      BY <1>6
    <2>2. p[i + 2] = u[i]
      BY <1>5, <2>1 DEF n
    <2>3. QED
      BY <1>7, <1>8, <2>1, <2>2
  <1>13. QED
    BY <1>6, <1>9, <1>10, <1>11, <1>12 DEF items, n, u, F

(* A whole message is decoded as it was encoded, and what is cut off is not *)
(* decoded at all.                                                          *)
LEMMA Decoded ==
  ASSUME NEW m, IsMessage(m), NEW c \in Nat, c <= Length(ToBytes(m))
  PROVE  DecodeMessage([ToBytes(m) EXCEPT !.missing = c]) =
           IF c = 0 THEN Received(m) ELSE Failed
  <1> DEFINE T == m.messageType
             F == FieldsOf(T)
             u == Unpacked(T, m.version)
             n == Len(u)
             items == ToBytes(m).items
             S == Items(m)
             N == Len(items)
             rest(k) == SubSeq(items, k + 1, N)
             left(k) == [items |-> rest(k), missing |-> c]
  <1>1. T \in Types /\ m.version \in Nat
    BY DEF IsMessage
  <1>2. /\ ToBytes(m) = [items |-> items, missing |-> 0]
        /\ items \in Seq(S) /\ N = n + 2 /\ n \in Nat
        /\ items[1] = Item(m.version) /\ items[2] = Item(T)
        /\ \A i \in 1..n : u[i] \in F /\ items[i + 2] = PackField(m, u[i])
    BY BytesOf
  <1>3. \A x \in S : Size(x) \in Nat
    BY ItemSizes
  <1> HIDE DEF u, n, items, N, S
  <1>4. /\ rest(0) = items /\ rest(N) = <<>>
        /\ \A k \in 0..N : rest(k) \in Seq(S)
        /\ \A k \in 0..(N - 1) : /\ rest(k) # <<>> /\ Head(rest(k)) = items[k + 1]
                                 /\ Tail(rest(k)) = rest(k + 1)
    <2>1. /\ SubSeq(items, 1, N) = items
          /\ SubSeq(items, N + 1, N) = <<>>
          /\ \A k \in 0..N : SubSeq(items, k + 1, N) \in Seq(S)
          /\ \A k \in 0..(N - 1) :
               /\ SubSeq(items, k + 1, N) # <<>>
               /\ Head(SubSeq(items, k + 1, N)) = items[k + 1]
               /\ Tail(SubSeq(items, k + 1, N)) = SubSeq(items, (k + 1) + 1, N)
      BY <1>2, RestOf DEF N
    <2>2. 0 + 1 = 1
      OBVIOUS
    <2>3. QED
      BY <2>1, <2>2
  <1> HIDE DEF rest
  <1>5. \A k \in 0..N : /\ Total(rest(k)) \in Nat
                        /\ Length(left(k)) = Total(rest(k)) - c
                        /\ Length(left(k)) \in Int
    <2> TAKE k \in 0..N
    <2>1. Total(rest(k)) \in Nat
      BY <1>3, <1>4, TotalOfTail
    <2>2. Length(left(k)) = Total(rest(k)) - c
      BY LengthIsTotal
    <2>3. QED
      BY <2>1, <2>2
  <1>6. \A k \in 0..(N - 1) :
          Length(left(k)) = Size(items[k + 1]) + Length(left(k + 1))
    <2> TAKE k \in 0..(N - 1)
    <2>1. k \in 0..N /\ k + 1 \in 0..N /\ k + 1 \in 1..N
      BY <1>2
    <2>2. Total(rest(k)) = Size(items[k + 1]) + Total(rest(k + 1))
      BY <1>3, <1>4, <2>1, TotalOfTail
    <2>3. Size(items[k + 1]) \in Nat
      <3>1. items[k + 1] \in S
        BY <1>2, <2>1, ElementOfSeq DEF N
      <3>2. QED
        BY <1>3, <3>1
    <2>4. /\ Total(rest(k)) \in Nat /\ Length(left(k)) = Total(rest(k)) - c
          /\ Total(rest(k + 1)) \in Nat
          /\ Length(left(k + 1)) = Total(rest(k + 1)) - c
      BY <1>5, <2>1
    <2> HIDE DEF left
    <2>5. QED
      BY <2>2, <2>3, <2>4
  <1>7. Length(left(N)) = 0 - c
    <2>1. N \in 0..N
      BY <1>2
    <2>2. Total(rest(N)) = 0
      BY <1>3, <1>4, <2>1, TotalOfTail
    <2>3. QED
      BY <1>5, <2>1, <2>2
  <1>8. [ToBytes(m) EXCEPT !.missing = c] = left(0)
    BY <1>2, <1>4
  <1>9. Length(left(0)) >= 0 /\ (c = 0 => Length(left(0)) = Total(items))
    <2>1. Length(ToBytes(m)) = Total(items) - 0
      BY <1>2, LengthIsTotal
    <2>2. 0 \in 0..N
      BY <1>2
    <2>3. Total(items) \in Nat /\ Length(left(0)) = Total(items) - c
      BY <1>4, <1>5, <2>2
    <2>4. QED
      BY <2>1, <2>3
  <1> HIDE DEF left
  <1>10. \A k \in 0..(N - 1) : Consume(left(k)) = left(k + 1)
    <2> TAKE k \in 0..(N - 1)
    <2>1. left(k) = [items |-> rest(k), missing |-> c]
      BY DEF left
    <2>2. Consume(left(k)) = [items |-> Tail(rest(k)), missing |-> c]
      <3>1. Consume([items |-> rest(k), missing |-> c])
              = [items |-> Tail(rest(k)), missing |-> c]
        BY ConsumeIs
      <3>2. QED
        BY <2>1, <3>1
    <2>3. QED
      BY <1>4, <2>2 DEF left
  <1>11. \A k \in 0..N : c = 0 => Length(left(k)) >= 0
    BY <1>5
  <1>12. /\ 0 \in 0..(N - 1) /\ 1 \in 0..(N - 1) /\ 0 \in 0..N /\ 1 \in 0..N
         /\ 2 \in 0..N /\ 0 + 1 = 1 /\ 1 + 1 = 2
    BY <1>2
  <1>13. /\ UnpackObject(left(0)) =
              IF Length(left(0)) >= 1 THEN Returns(left(0), m.version)
              ELSE Throws(left(0))
         /\ UnpackObject(left(1)) =
              IF Length(left(1)) >= 1 THEN Returns(left(1), T)
              ELSE Throws(left(1))
    <2>1. /\ left(0).items # <<>> /\ Head(left(0).items) = Item(m.version)
          /\ left(1).items # <<>> /\ Head(left(1).items) = Item(T)
      BY <1>2, <1>4, <1>12 DEF left
    <2>2. QED
      BY <2>1, OtherItem DEF UnpackObject
  <1>14. /\ Length(left(0)) = 1 + Length(left(1))
         /\ Length(left(1)) = 1 + Length(left(2))
         /\ Length(left(0)) \in Int /\ Length(left(1)) \in Int
         /\ Length(left(2)) \in Int
    <2>1. Size(items[1]) = 1 /\ Size(items[2]) = 1
      BY <1>2, OtherItem
    <2>2. QED
      BY <1>5, <1>6, <1>12, <2>1
  <1> DEFINE version == UnpackObject(left(0))
             type == UnpackObject(version.buffer)
             fields == Unpacked(type.value, version.value)
             start == [buffer |-> type.buffer, ok |-> TRUE,
                       message |-> [NewMessage(type.value, "new") EXCEPT
                                      !.version = version.value]]
             end == FoldLeft(UnpackField, start, fields)
  <1>15. DecodeMessage(left(0)) =
           IF ~version.ok \/ ~type.ok THEN Failed
           ELSE IF type.value \notin Types THEN Failed
           ELSE IF end.ok THEN end.message ELSE Failed
    BY DEF DecodeMessage, Unpacked
  <1>16. CASE ~(Length(left(0)) >= 1)
    <2>1. ~version.ok
      BY <1>13, <1>16 DEF Throws
    <2>2. c # 0
      BY <1>11, <1>12, <1>14, <1>16
    <2> HIDE DEF version, type, end
    <2>3. QED
      BY <1>8, <1>15, <2>1, <2>2
  <1>17. ASSUME Length(left(0)) >= 1
         PROVE  /\ version.ok /\ version.value = m.version
                /\ version.buffer = left(1)
    BY <1>10, <1>12, <1>13, <1>17 DEF Returns
  <1>18. CASE Length(left(0)) >= 1 /\ ~(Length(left(1)) >= 1)
    <2>1. ~type.ok
      <3> HIDE DEF version
      <3>1. QED
        BY <1>13, <1>17, <1>18 DEF Throws
    <2>2. c # 0
      BY <1>11, <1>12, <1>14, <1>18
    <2> HIDE DEF version, type, end
    <2>3. QED
      BY <1>8, <1>15, <2>1, <2>2
  <1>19. CASE Length(left(0)) >= 1 /\ Length(left(1)) >= 1
    <2>1. type.ok /\ type.value = T /\ type.buffer = left(2)
      <3>1. type = UnpackObject(left(1))
        BY <1>17, <1>19
      <3> HIDE DEF type
      <3>2. type = Returns(left(1), T)
        BY <1>13, <1>19, <3>1
      <3>3. QED
        BY <1>10, <1>12, <3>2 DEF Returns
    <2>2. version.ok /\ version.value = m.version
      BY <1>17, <1>19
    <2> DEFINE first == [NewMessage(T, "new") EXCEPT !.version = m.version]
               begin == [buffer |-> left(2), ok |-> TRUE, message |-> first]
    <2>3. end = FoldLeft(UnpackField, begin, u)
      <3> HIDE DEF version, type
      <3>1. QED
        BY <2>1, <2>2 DEF u
    <2> HIDE DEF version, type, end
    <2>4. DecodeMessage(left(0)) = IF end.ok THEN end.message ELSE Failed
      BY <1>1, <1>15, <2>1, <2>2
    <2> HIDE DEF begin, first
    <2>5. u \in Seq(F) /\ Elements(u)
             = {f \in F \ {"version", "messageType"} : Carries(m.version, f)}
      BY <1>1, UnpackedFields DEF u
    <2>6. PICK run : IsRun(run, "unpack", begin, u, n) /\ end = run[n]
      <3>1. DOMAIN u = 1..n
        BY <2>5 DEF n
      <3>2. QED
        BY <1>2, <2>3, <3>1, UnpackFold
    <2>7. run[0] = begin
      BY <1>2, <2>6 DEF IsRun
    <2>8. \A k \in 0..(n - 1) : run[k + 1] = UnpackField(run[k], u[k + 1])
      <3> TAKE k \in 0..(n - 1)
      <3>1. k + 1 \in 0..n /\ k + 1 # 0 /\ (k + 1) - 1 = k
        BY <1>2
      <3>2. run[k + 1] = Step("unpack", run[k], u[k + 1])
        BY <2>6, <3>1 DEF IsRun
      <3>3. QED
        BY <3>2 DEF Step
    <2> DEFINE M(k) == [f \in F |-> IF f \in {u[i] : i \in 1..k} THEN Read(m, f)
                                    ELSE first[f]]
               at(k) == [buffer |-> left(k + 2), ok |-> TRUE, message |-> M(k)]
               I == {k \in 0..n :
                       \/ run[k] = at(k) /\ Length(left(k + 2)) >= 0
                       \/ run[k].ok = FALSE /\ c # 0}
    <2>9. /\ first = [f \in F |-> first[f]] /\ first["version"] = m.version
          /\ first["messageType"] = T
          /\ \A f \in F : f # "version" => first[f] = NewMessage(T, "new")[f]
      <3>1. NewMessage(T, "new") = [f \in F |-> NewMessage(T, "new")[f]]
        BY <1>1, NewMessageIs
      <3>2. "version" \in F /\ "messageType" \in CommonFields /\ "messageType" \in F
        BY DEF FieldsOf, CommonFields
      <3>3. NewMessage(T, "new")["messageType"] = T
        <4>1. NewMessage(T, "new")["messageType"]
                = MessageDefaults(T, "new")["messageType"]
          BY <1>1, <3>2, NewMessageIs
        <4>2. MessageDefaults(T, "new").messageType = T
          BY DEF MessageDefaults
        <4>3. QED
          BY <4>1, <4>2
      <3> HIDE DEF F
      <3>4. QED
        BY <3>1, <3>2, <3>3 DEF first
    <2>10. M(0) = first
      <3>1. 1..0 = {}
        OBVIOUS
      <3>2. QED
        BY <2>9, <3>1
    <2>11. ASSUME NEW k \in 0..(n - 1)
           PROVE  M(k + 1) = [M(k) EXCEPT ![u[k + 1]] = Read(m, u[k + 1])]
      <3>1. 1..(k + 1) = 1..k \cup {k + 1}
        BY <1>2
      <3>2. {u[i] : i \in 1..(k + 1)} = {u[i] : i \in 1..k} \cup {u[k + 1]}
        BY <3>1
      <3>3. QED
        BY <3>2
    <2> HIDE DEF M
    <2>12. 0 \in I
      <3>1. 0 + 2 = 2 /\ 0 \in 0..n
        BY <1>2
      <3>2. run[0] = at(0)
        BY <2>7, <2>10, <3>1 DEF begin
      <3>3. Length(left(0 + 2)) >= 0
        BY <1>14, <1>19, <3>1
      <3>4. QED
        BY <3>1, <3>2, <3>3
    <2>13. ASSUME NEW k \in Nat, k < n, k \in I PROVE k + 1 \in I
      <3>1. /\ k \in 0..(n - 1) /\ k + 1 \in 0..n /\ k + 1 \in 1..n
            /\ k + 2 \in 0..(N - 1) /\ k + 2 \in 0..N /\ k + 3 \in 0..N
            /\ (k + 2) + 1 = k + 3 /\ (k + 1) + 2 = k + 3
        BY <1>2, <2>13
      <3>2. /\ rest(k + 2) # <<>> /\ Tail(rest(k + 2)) = rest(k + 3)
            /\ Head(rest(k + 2)) = PackField(m, u[k + 1])
            /\ items[k + 3] = PackField(m, u[k + 1]) /\ u[k + 1] \in F
        BY <1>2, <1>4, <3>1
      <3>3. run[k + 1] = UnpackField(run[k], u[k + 1])
        BY <2>8, <3>1
      <3>4. /\ Length(left(k + 2))
                 = Size(PackField(m, u[k + 1])) + Length(left(k + 3))
            /\ Length(left(k + 2)) \in Int /\ Length(left(k + 3)) \in Int
        BY <1>5, <1>6, <3>1, <3>2
      <3>5. Size(PackField(m, u[k + 1])) \in Nat
        BY <1>3, <3>2 DEF S, Items
      <3>6. CASE run[k] = at(k) /\ Length(left(k + 2)) >= 0
        <4>1. run[k] = [buffer |-> [items |-> rest(k + 2), missing |-> c],
                        ok |-> TRUE, message |-> M(k)]
          BY <3>6 DEF left
        <4>2. UnpackField(run[k], u[k + 1]) =
                IF Length(left(k + 2)) >= Size(PackField(m, u[k + 1]))
                  THEN [buffer |-> [items |-> rest(k + 3), missing |-> c],
                        ok |-> TRUE,
                        message |-> [M(k) EXCEPT ![u[k + 1]]
                                                   = Read(m, u[k + 1])]]
                ELSE [run[k] EXCEPT !.ok = FALSE]
          <5> DEFINE f == u[k + 1]
                     its == rest(k + 2)
                     message == M(k)
          <5>1. f \in F /\ its # <<>> /\ Head(its) = PackField(m, f)
            BY <3>2
          <5>2. Length([items |-> its, missing |-> c]) \in Int
            BY <3>4 DEF left
          <5>3. run[k] = [buffer |-> [items |-> its, missing |-> c],
                          ok |-> TRUE, message |-> message]
            BY <4>1
          <5> HIDE DEF f, its, message
          <5>4. UnpackField([buffer |-> [items |-> its, missing |-> c],
                             ok |-> TRUE, message |-> message], f) =
                  IF Length([items |-> its, missing |-> c]) >= Size(Head(its))
                    THEN [buffer |-> [items |-> Tail(its), missing |-> c],
                          ok |-> TRUE,
                          message |-> [message EXCEPT ![f] = Read(m, f)]]
                  ELSE [[buffer |-> [items |-> its, missing |-> c],
                         ok |-> TRUE, message |-> message] EXCEPT !.ok = FALSE]
            BY <5>1, <5>2, UnpackPacked
          <5>5. UnpackField(run[k], f) =
                  IF Length([items |-> its, missing |-> c]) >= Size(Head(its))
                    THEN [buffer |-> [items |-> Tail(its), missing |-> c],
                          ok |-> TRUE,
                          message |-> [message EXCEPT ![f] = Read(m, f)]]
                  ELSE [run[k] EXCEPT !.ok = FALSE]
            BY <5>3, <5>4
          <5>6. /\ Tail(its) = rest(k + 3)
                /\ Length([items |-> its, missing |-> c]) = Length(left(k + 2))
            BY <3>2 DEF its, left
          <5>7. QED
            BY <5>1, <5>5, <5>6 DEF f, message
        <4>3. CASE Length(left(k + 2)) >= Size(PackField(m, u[k + 1]))
          <5>1. run[k + 1] = at(k + 1)
            BY <2>11, <3>1, <3>3, <4>2, <4>3 DEF left
          <5>2. Length(left(k + 3)) >= 0
            BY <3>4, <3>5, <4>3
          <5>3. QED
            BY <3>1, <5>1, <5>2
        <4>4. CASE ~(Length(left(k + 2)) >= Size(PackField(m, u[k + 1])))
          <5>1. run[k + 1].ok = FALSE
            BY <3>3, <4>1, <4>2, <4>4
          <5>2. c # 0
            BY <1>11, <3>1, <3>4, <3>5, <4>4
          <5>3. QED
            BY <3>1, <5>1, <5>2
        <4>5. QED
          BY <4>3, <4>4
      <3>7. CASE run[k].ok = FALSE /\ c # 0
        <4>1. UnpackField(run[k], u[k + 1]) = run[k]
          BY <3>7 DEF UnpackField
        <4>2. QED
          BY <3>1, <3>3, <3>7, <4>1
      <3>8. QED
        BY <2>13, <3>6, <3>7
    <2>14. n \in I
      <3>1. 0..n \subseteq I
        <4> HIDE DEF I
        <4>1. QED
          BY <1>2, <2>12, <2>13, SetInduction
      <3>2. QED
        BY <1>2, <3>1
    <2>15. M(n) = Received(m)
      <3>1. {u[i] : i \in 1..n} = Elements(u)
        BY DEF Elements, n
      <3>2. Received(m) = [f \in F |-> IF Carries(m.version, f) THEN Read(m, f)
                                       ELSE NewMessage(T, "new")[f]]
        BY DEF Received
      <3>3. ASSUME NEW f \in F
            PROVE  (IF f \in Elements(u) THEN Read(m, f) ELSE first[f])
                     = IF Carries(m.version, f) THEN Read(m, f)
                       ELSE NewMessage(T, "new")[f]
        <4>1. CASE f = "version"
          <5>1. Carries(m.version, f) /\ Read(m, f) = m.version
            BY <4>1 DEF Carries, Read
          <5>2. QED
            BY <2>5, <2>9, <4>1, <5>1
        <4>2. CASE f = "messageType"
          <5>1. Carries(m.version, f) /\ Read(m, f) = T
            BY <4>2 DEF Carries, Read
          <5>2. QED
            BY <2>5, <2>9, <4>2, <5>1
        <4>3. CASE f \notin {"version", "messageType"}
          BY <2>5, <2>9, <4>3
        <4>4. QED
          BY <4>1, <4>2, <4>3
      <3>4. QED
        BY <3>1, <3>2, <3>3 DEF M
    <2>16. CASE run[n] = at(n) /\ Length(left(n + 2)) >= 0
      <3>1. c = 0
        BY <1>2, <1>7, <2>16
      <3>2. end.ok /\ end.message = Received(m)
        BY <2>6, <2>15, <2>16
      <3>3. QED
        BY <1>8, <2>4, <3>1, <3>2
    <2>17. CASE run[n].ok = FALSE /\ c # 0
      BY <1>8, <2>4, <2>6, <2>17
    <2>18. QED
      BY <2>14, <2>16, <2>17
  <1>20. QED
    BY <1>16, <1>18, <1>19
-----------------------------------------------------------------------------
(* The invariant of the exchange *)

(* The bytes under way are those of the message, less what was cut off.     *)
WireInv ==
    /\ IsMessage(carried)
    /\ topic = carried.destinationTopic
    /\ wire = [ToBytes(carried) EXCEPT !.missing = wire.missing]
    /\ wire.missing \in Nat /\ wire.missing <= Length(ToBytes(carried))
    /\ cut \in BOOLEAN /\ (cut <=> wire.missing # 0)
    /\ leg \in Legs
    /\ leg \notin {"relayed", "returned", "failed"} => ~cut
    /\ leg = "failed" => cut

(* What each leg knows of where the message came from. *)
Stamped(m) ==
    /\ m.messageId = asked
    /\ m.sourceClientId = "client1" /\ m.sourceBrokerId = "broker1"
    /\ m.messageType = REQUEST =>
         m.serviceId = "service1" /\ m.replyToTopic = ReplyTopic

Answers(m) ==
    /\ m.destinationTopic = ReplyTopic
    /\ m.requestMessageId = asked /\ m.serviceId = "service1"
    /\ m.clientIds = <<"client1">> /\ m.brokerIds = <<"broker1">>
    /\ m.messageType = ERROR => m.errorCode \in Codes

LegInv ==
    /\ leg \in {"sent", "relayed", "received"} =>
         carried.messageType \in {REQUEST, EVENT}
    /\ leg = "sent" =>
         /\ carried.messageId = asked
         /\ carried.messageType = REQUEST => carried.replyToTopic = ReplyTopic
    /\ leg \in {"relayed", "received"} => Stamped(carried)
    /\ leg = "received" => carried.messageType = REQUEST
    /\ leg \in {"answered", "returned"} =>
         carried.messageType \in {RESPONSE, ERROR} /\ Answers(carried)
    /\ (leg = "done" /\ carried.messageType \in {RESPONSE, ERROR}) =>
         Answers(carried)

GotInv ==
    /\ leg \in {"received", "done"} => got = Arrived(carried)
    /\ got # None => \E m : IsMessage(m) /\ got = Arrived(m)
    /\ error \in {"none", "SERVICE_UNAVAILABLE", "SERVICE_OVERLOADED",
                  "RESPONSE_TIMEOUT", "undefined"}
    /\ (leg = "done" /\ carried.messageType = ERROR) =>
         error = NameOf(NormalizedCode(carried.errorCode))

IInv == WireInv /\ LegInv /\ GotInv

LEMMA FieldMembers ==
  ASSUME NEW type \in Types
  PROVE  /\ CommonFields \subseteq FieldsOf(type)
         /\ "version" \in FieldsOf(type) /\ "messageType" \in FieldsOf(type)
         /\ "messageId" \in FieldsOf(type)
         /\ "destinationTopic" \in FieldsOf(type)
         /\ "sourceClientId" \in FieldsOf(type)
         /\ "sourceBrokerId" \in FieldsOf(type)
         /\ "brokerIds" \in FieldsOf(type) /\ "clientIds" \in FieldsOf(type)
         /\ "payload" \in FieldsOf(type) /\ "otherFields" \in FieldsOf(type)
         /\ "sourceTenantGuid" \in FieldsOf(type)
         /\ type # EVENT => "serviceId" \in FieldsOf(type)
         /\ type = REQUEST => "replyToTopic" \in FieldsOf(type)
         /\ type \in {RESPONSE, ERROR} => "requestMessageId" \in FieldsOf(type)
         /\ type = ERROR => "errorCode" \in FieldsOf(type)
  BY DistinctTypes DEF FieldsOf, CommonFields, OwnFields

(* What a new message starts with. *)
LEMMA FreshMessage ==
  ASSUME NEW type \in Types, NEW id
  PROVE  /\ NewMessage(type, id)
              = [f \in FieldsOf(type) |-> NewMessage(type, id)[f]]
         /\ NewMessage(type, id)["version"] = 2
         /\ NewMessage(type, id)["messageType"] = type
         /\ NewMessage(type, id)["messageId"] = id
         /\ NewMessage(type, id)["payload"] = Payload("string", 0)
         /\ NewMessage(type, id)["otherFields"] = EmptyMap
  <1>1. NewMessage(type, id)
              = [f \in FieldsOf(type) |-> NewMessage(type, id)[f]]
    BY NewMessageIs
  <1>2. \A f \in CommonFields :
          NewMessage(type, id)[f] = MessageDefaults(type, id)[f]
    BY NewMessageIs
  <1>3. {"version", "messageType", "messageId", "payload", "otherFields"}
          \subseteq CommonFields
    BY DEF CommonFields
  <1>4. /\ MessageDefaults(type, id)["version"] = 2
        /\ MessageDefaults(type, id)["messageType"] = type
        /\ MessageDefaults(type, id)["messageId"] = id
        /\ MessageDefaults(type, id)["payload"] = Payload("string", 0)
        /\ MessageDefaults(type, id)["otherFields"] = EmptyMap
    BY DEF MessageDefaults
  <1>5. QED
    BY <1>1, <1>2, <1>3, <1>4

LEMMA FreshTopic ==
  ASSUME NEW type \in Types, NEW id
  PROVE  NewMessage(type, id)["destinationTopic"] = ""
  <1>1. \A f \in CommonFields :
          NewMessage(type, id)[f] = MessageDefaults(type, id)[f]
    BY NewMessageIs
  <1>2. "destinationTopic" \in CommonFields
    BY DEF CommonFields
  <1>3. MessageDefaults(type, id)["destinationTopic"] = ""
    BY DEF MessageDefaults
  <1>4. QED
    BY <1>1, <1>2, <1>3

LEMMA PayloadsFit ==
  /\ \A p \in Payloads : p = Payload(p.as, p.length) /\ FourBytes(p.length)
  /\ FourBytes(0)
  <1>1. \A p \in Payloads : p = Payload(p.as, p.length) /\ FourBytes(p.length)
    BY PayloadsAssumption DEF FourBytes
  <1>2. FourBytes(0)
    BY SMT DEF FourBytes
  <1>3. QED
    BY <1>1, <1>2

LEMMA EmptyMapIs ==
  /\ IsFiniteSet(DOMAIN EmptyMap)
  /\ EmptyMap = [name \in DOMAIN EmptyMap |-> EmptyMap[name]]
  <1>1. DOMAIN EmptyMap = {}
    BY DEF EmptyMap
  <1>2. QED
    BY <1>1, FS_EmptySet DEF EmptyMap

(* A message with all that its bytes take, whole on the wire. *)
LEMMA Whole ==
  ASSUME NEW m, IsMessage(m)
  PROVE  /\ Length(ToBytes(m)) \in Nat
         /\ ToBytes(m).missing = 0
         /\ ToBytes(m) = [ToBytes(m) EXCEPT !.missing = 0]
  <1> DEFINE items == ToBytes(m).items
  <1>1. ToBytes(m) = [items |-> items, missing |-> 0] /\ items \in Seq(Items(m))
    BY BytesOf
  <1> HIDE DEF items
  <1>2. \A x \in Items(m) : Size(x) \in Nat
    BY ItemSizes
  <1>3. Total(items) \in Nat
    BY <1>1, <1>2, TotalOfTail
  <1>4. Length(ToBytes(m)) = Total(items) - 0
    BY <1>1, LengthIsTotal
  <1>5. QED
    BY <1>1, <1>3, <1>4

LEMMA ReceivedIs ==
  ASSUME NEW m, IsMessage(m)
  PROVE  /\ DOMAIN Received(m) = FieldsOf(m.messageType)
         /\ DOMAIN m = FieldsOf(m.messageType)
         /\ Received(m) # Failed
         /\ Received(m)["messageType"] = m.messageType
         /\ Received(m)["payload"] = Payload("buffer", m.payload.length)
         /\ \A f \in FieldsOf(m.messageType) \ {"payload"} :
              Carries(m.version, f) => Received(m)[f] = m[f]
         /\ \A f \in FieldsOf(m.messageType) :
              ~Carries(m.version, f) =>
                Received(m)[f] = NewMessage(m.messageType, "new")[f]
  <1> DEFINE F == FieldsOf(m.messageType)
  <1>1. m.messageType \in Types /\ m = [f \in F |-> m[f]]
    BY DEF IsMessage
  <1>2. "messageType" \in F /\ "payload" \in F
    BY <1>1, FieldMembers
  <1>3. Carries(m.version, "messageType") /\ Carries(m.version, "payload")
    BY DEF Carries
  <1> HIDE DEF F
  <1>4. Received(m) = [f \in F |-> IF Carries(m.version, f) THEN Read(m, f)
                                  ELSE NewMessage(m.messageType, "new")[f]]
    BY DEF Received, F
  <1>5. Received(m) # Failed
    <2>1. DOMAIN Failed = {}
      BY DEF Failed
    <2>2. QED
      BY <1>2, <1>4, <2>1
  <1>6. QED
    BY <1>1, <1>2, <1>3, <1>4, <1>5 DEF Read, F

(* A receiver has what was encoded, and the topic it was published on. *)
LEMMA ArrivedIs ==
  ASSUME NEW m, IsMessage(m)
  PROVE  /\ DOMAIN Arrived(m) = FieldsOf(m.messageType)
         /\ DOMAIN m = FieldsOf(m.messageType)
         /\ Arrived(m)["messageType"] = m.messageType
         /\ Arrived(m)["payload"] = Payload("buffer", m.payload.length)
         /\ Arrived(m)["destinationTopic"] = m.destinationTopic
         /\ \A f \in FieldsOf(m.messageType) \ {"payload"} :
              Carries(m.version, f) => Arrived(m)[f] = m[f]
         /\ \A f \in FieldsOf(m.messageType) \ {"destinationTopic"} :
              ~Carries(m.version, f) =>
                Arrived(m)[f] = NewMessage(m.messageType, "new")[f]
  <1> DEFINE F == FieldsOf(m.messageType)
             r == Received(m)
             t == m.destinationTopic
  <1>1. /\ DOMAIN r = F /\ DOMAIN m = F
        /\ r["messageType"] = m.messageType
        /\ r["payload"] = Payload("buffer", m.payload.length)
        /\ \A f \in F \ {"payload"} : Carries(m.version, f) => r[f] = m[f]
        /\ \A f \in F :
             ~Carries(m.version, f) => r[f] = NewMessage(m.messageType, "new")[f]
    BY ReceivedIs
  <1>2. m.messageType \in Types
    BY DEF IsMessage
  <1>3. "destinationTopic" \in F
    BY <1>2, FieldMembers
  <1>4. ~Carries(m.version, "destinationTopic")
    BY DEF Carries
  <1>5. Arrived(m) = [r EXCEPT !.destinationTopic = t]
    BY DEF Arrived
  <1> HIDE DEF F, r, t
  <1>6. /\ DOMAIN Arrived(m) = F
        /\ Arrived(m)["destinationTopic"] = t
        /\ \A f \in F \ {"destinationTopic"} : Arrived(m)[f] = r[f]
    BY <1>1, <1>3, <1>5
  <1>7. "messageType" \in F /\ "payload" \in F
    BY <1>2, FieldMembers DEF F
  <1>8. QED
    BY <1>1, <1>4, <1>6, <1>7 DEF F, t

LEMMA OthersFit ==
  ASSUME NEW others \in {EmptyMap, [k1 |-> "v1"], [k1 |-> "v1", k2 |-> "k1"]}
  PROVE  /\ IsFiniteSet(DOMAIN others)
         /\ others = [name \in DOMAIN others |-> others[name]]
  <1>1. CASE others = EmptyMap
    BY <1>1, EmptyMapIs
  <1>2. CASE others = [k1 |-> "v1"]
    <2>1. DOMAIN others = {"k1"}
      BY <1>2
    <2>2. others = [name \in DOMAIN others |-> others[name]]
      BY <1>2
    <2>3. QED
      BY <2>1, <2>2, FS_Singleton
  <1>3. CASE others = [k1 |-> "v1", k2 |-> "k1"]
    <2>1. DOMAIN others = {"k1"} \cup {"k2"}
      BY <1>3
    <2>2. others = [name \in DOMAIN others |-> others[name]]
      BY <1>3
    <2>3. IsFiniteSet({"k1"}) /\ IsFiniteSet({"k2"})
      BY FS_Singleton
    <2>4. QED
      <3>1. IsFiniteSet({"k1"} \cup {"k2"})
        BY <2>3, FS_Union
      <3>2. QED
        BY <2>1, <2>2, <3>1
  <1>4. QED
    BY <1>1, <1>2, <1>3

(* Whatever is encoded is on the wire, whole. *)
LEMMA Encoded ==
  ASSUME NEW m, IsMessage(m), Publish(m), UNCHANGED cut, ~cut, leg' \in Legs,
         leg' # "failed"
  PROVE  WireInv'
  <1>1. /\ carried' = m /\ topic' = m.destinationTopic /\ wire' = ToBytes(m)
        /\ cut' = FALSE
    <2>1. cut' = cut
      OBVIOUS
    <2>2. QED
      BY <2>1 DEF Publish
  <1>2. /\ Length(ToBytes(m)) \in Nat /\ ToBytes(m).missing = 0
        /\ ToBytes(m) = [ToBytes(m) EXCEPT !.missing = 0]
    BY Whole
  <1>3. wire'.missing = 0 /\ wire' = [ToBytes(carried') EXCEPT !.missing = 0]
    BY <1>1, <1>2
  <1>4. wire'.missing \in Nat /\ wire'.missing <= Length(ToBytes(carried'))
    BY <1>1, <1>2, <1>3
  <1>5. wire' = [ToBytes(carried') EXCEPT !.missing = wire'.missing]
    BY <1>3
  <1>6. QED
    BY <1>1, <1>3, <1>4, <1>5 DEF WireInv

LEMMA InitInv == Init => IInv
  <1> SUFFICES ASSUME Init PROVE IInv
    OBVIOUS
  <1> DEFINE m == NewMessage(EVENT, "none")
  <1>1. EVENT \in Types
    BY DistinctTypes
  <1>2. IsMessage(m)
    <2>1. /\ m = [f \in FieldsOf(EVENT) |-> m[f]]
          /\ m["version"] = 2 /\ m["messageType"] = EVENT
          /\ m["payload"] = Payload("string", 0) /\ m["otherFields"] = EmptyMap
      BY <1>1, FreshMessage
    <2> HIDE DEF m
    <2>2. /\ m.payload = Payload(m.payload.as, m.payload.length)
          /\ FourBytes(m.payload.length)
      BY <2>1, PayloadsFit DEF Payload
    <2>3. QED
      BY <1>1, <2>1, <2>2, EmptyMapIs DEF IsMessage
  <1> HIDE DEF m
  <1>3. carried = m /\ wire = ToBytes(m) /\ cut = FALSE /\ leg = "none"
        /\ got = None /\ error = "none"
    BY DEF Init, m
  <1>4. /\ Length(ToBytes(m)) \in Nat /\ ToBytes(m).missing = 0
        /\ ToBytes(m) = [ToBytes(m) EXCEPT !.missing = 0]
    BY <1>2, Whole
  <1>5. WireInv
    <2>1. wire.missing = 0 /\ wire = [ToBytes(carried) EXCEPT !.missing = 0]
      BY <1>3, <1>4
    <2>2. wire.missing \in Nat /\ wire.missing <= Length(ToBytes(carried))
      BY <1>3, <1>4, <2>1
    <2>3. wire = [ToBytes(carried) EXCEPT !.missing = wire.missing]
      BY <2>1
    <2>4. topic = carried.destinationTopic
      <3>1. NewMessage(EVENT, "none")["destinationTopic"] = ""
        BY <1>1, FreshTopic
      <3>2. QED
        BY <3>1 DEF Init
    <2>5. QED
      BY <1>2, <1>3, <2>1, <2>2, <2>3, <2>4 DEF WireInv, Legs
  <1>6. LegInv /\ GotInv
    BY <1>3 DEF LegInv, GotInv
  <1>7. QED
    BY <1>5, <1>6 DEF IInv

LEMMA SendStep ==
  ASSUME IInv, NEW type \in {REQUEST, EVENT}, NEW version \in Versions,
         NEW payload \in Payloads,
         NEW others \in {EmptyMap, [k1 |-> "v1"], [k1 |-> "v1", k2 |-> "k1"]},
         Send(type, version, payload, others)
  PROVE  IInv'
  <1> DEFINE F == FieldsOf(type)
             fresh == NewMessage(type, "m1")
             message == [fresh EXCEPT !.destinationTopic = Topic,
                                      !.version = version, !.payload = payload,
                                      !.otherFields = others]
             m == IF type = REQUEST
                    THEN [message EXCEPT !.replyToTopic = ReplyTopic] ELSE message
  <1>1. type \in Types /\ version \in Nat
    BY DistinctTypes, VersionsAssumption
  <1>2. /\ fresh = [f \in F |-> fresh[f]] /\ fresh["messageType"] = type
        /\ fresh["messageId"] = "m1"
    BY <1>1, FreshMessage
  <1>3. /\ "version" \in F /\ "payload" \in F /\ "otherFields" \in F
        /\ "messageType" \in F /\ "messageId" \in F
        /\ type = REQUEST => "replyToTopic" \in F
    BY <1>1, FieldMembers
  <1>4. /\ asked' = message.messageId /\ Publish(m) /\ leg = "none"
        /\ leg' = "sent" /\ UNCHANGED <<got, error, cut>>
    BY DEF Send
  <1> HIDE DEF F, fresh
  <1>5. /\ message = [f \in F |-> message[f]] /\ message["version"] = version
        /\ message["payload"] = payload /\ message["otherFields"] = others
        /\ message["messageType"] = type /\ message["messageId"] = "m1"
    BY <1>2, <1>3
  <1> HIDE DEF message
  <1>6. /\ m = [f \in F |-> m[f]] /\ m["version"] = version
        /\ m["payload"] = payload /\ m["otherFields"] = others
        /\ m["messageType"] = type /\ m["messageId"] = "m1"
        /\ type = REQUEST => m["replyToTopic"] = ReplyTopic
    BY <1>3, <1>5
  <1> HIDE DEF m
  <1>7. IsMessage(m)
    <2>1. payload = Payload(payload.as, payload.length) /\ FourBytes(payload.length)
      BY PayloadsFit
    <2>2. QED
      BY <1>1, <1>6, <2>1, OthersFit DEF IsMessage, F
  <1>8. WireInv'
    BY <1>4, <1>7, Encoded DEF IInv, WireInv, Legs
  <1>9. carried' = m
    BY <1>4 DEF Publish
  <1>10. LegInv'
    BY <1>4, <1>5, <1>6, <1>9 DEF LegInv
  <1>11. GotInv'
    BY <1>4 DEF IInv, GotInv
  <1>12. QED
    BY <1>8, <1>10, <1>11 DEF IInv

LEMMA RelayStep ==
  ASSUME IInv, NEW kind \in {"string", "buffer"}, Relay(kind)
  PROVE  IInv'
  <1> DEFINE T == carried.messageType
             F == FieldsOf(T)
             stamped == [carried EXCEPT
                           !.sourceClientId =
                             IF leg = "sent" THEN "client1" ELSE "client2",
                           !.sourceBrokerId = "broker1",
                           !.payload.as = kind]
             tenant == IF carried.version > 1
                         THEN [stamped EXCEPT !.sourceTenantGuid = "tenant1"]
                       ELSE stamped
             m == IF T = REQUEST
                    THEN [tenant EXCEPT !.serviceId = "service1"] ELSE tenant
  <1>1. /\ IsMessage(carried) /\ T \in Types /\ carried.version \in Nat
        /\ carried = [f \in F |-> carried[f]]
    BY DEF IInv, WireInv, IsMessage
  <1>2. /\ Publish(m) /\ leg \in {"sent", "answered"}
        /\ leg' = (IF leg = "sent" THEN "relayed" ELSE "returned")
        /\ UNCHANGED <<got, error, asked, cut>>
    BY DEF Relay
  <1>3. /\ "sourceClientId" \in F /\ "sourceBrokerId" \in F
        /\ "payload" \in F /\ "sourceTenantGuid" \in F
        /\ "version" \in F /\ "messageType" \in F /\ "otherFields" \in F
        /\ "messageId" \in F /\ "brokerIds" \in F /\ "clientIds" \in F
        /\ "destinationTopic" \in F
        /\ T = REQUEST => "serviceId" \in F /\ "replyToTopic" \in F
        /\ T \in {RESPONSE, ERROR} =>
             "requestMessageId" \in F /\ "serviceId" \in F
        /\ T = ERROR => "errorCode" \in F
    BY <1>1, FieldMembers, DistinctTypes
  <1> HIDE DEF F
  <1>4. /\ stamped = [f \in F |-> stamped[f]]
        /\ stamped["sourceClientId"]
             = (IF leg = "sent" THEN "client1" ELSE "client2")
        /\ stamped["sourceBrokerId"] = "broker1"
        /\ stamped["payload"] = [carried.payload EXCEPT !.as = kind]
        /\ \A f \in F \ {"sourceClientId", "sourceBrokerId", "payload"} :
             stamped[f] = carried[f]
    BY <1>1, <1>3
  <1> HIDE DEF stamped
  <1>5. /\ tenant = [f \in F |-> tenant[f]]
        /\ \A f \in F \ {"sourceTenantGuid"} : tenant[f] = stamped[f]
    BY <1>3, <1>4
  <1> HIDE DEF tenant
  <1>6. /\ m = [f \in F |-> m[f]]
        /\ T = REQUEST => m["serviceId"] = "service1"
        /\ \A f \in F \ {"serviceId"} : m[f] = tenant[f]
        /\ T # REQUEST => m = tenant
    BY <1>3, <1>5
  <1> HIDE DEF m
  <1>7. /\ m["messageType"] = T /\ m["version"] = carried["version"]
        /\ m["otherFields"] = carried["otherFields"]
        /\ m["payload"] = [carried.payload EXCEPT !.as = kind]
        /\ m["messageId"] = carried["messageId"]
        /\ m["sourceClientId"] = (IF leg = "sent" THEN "client1" ELSE "client2")
        /\ m["sourceBrokerId"] = "broker1"
        /\ m["brokerIds"] = carried["brokerIds"]
        /\ m["clientIds"] = carried["clientIds"]
        /\ m["destinationTopic"] = carried["destinationTopic"]
        /\ T = REQUEST => m["replyToTopic"] = carried["replyToTopic"]
    BY <1>3, <1>4, <1>5, <1>6
  <1>8. T \in {RESPONSE, ERROR} =>
          /\ m["requestMessageId"] = carried["requestMessageId"]
          /\ m["serviceId"] = carried["serviceId"]
          /\ T = ERROR => m["errorCode"] = carried["errorCode"]
    BY <1>3, <1>4, <1>5, <1>6, DistinctTypes
  <1>9. IsMessage(m)
    <2>1. /\ carried.payload = Payload(carried.payload.as, carried.payload.length)
          /\ FourBytes(carried.payload.length)
      BY <1>1 DEF IsMessage
    <2> DEFINE p == m.payload
    <2>2. p.length = carried.payload.length /\ p = Payload(p.as, p.length)
      BY <1>7, <2>1 DEF Payload
    <2>3. QED
      BY <1>1, <1>6, <1>7, <2>1, <2>2 DEF IsMessage, F
  <1>10. WireInv'
    BY <1>2, <1>9, Encoded DEF IInv, WireInv, Legs
  <1>11. carried' = m
    BY <1>2 DEF Publish
  <1>12. LegInv'
    <2>1. CASE leg = "sent"
      <3>1. /\ T \in {REQUEST, EVENT} /\ carried.messageId = asked
            /\ T = REQUEST => carried.replyToTopic = ReplyTopic
        BY <2>1 DEF IInv, LegInv
      <3>2. Stamped(carried)'
        BY <1>2, <1>6, <1>7, <1>11, <2>1, <3>1 DEF Stamped
      <3>3. QED
        BY <1>2, <1>7, <1>11, <2>1, <3>1, <3>2 DEF LegInv
    <2>2. CASE leg = "answered"
      <3>1. T \in {RESPONSE, ERROR} /\ Answers(carried)
        BY <2>2 DEF IInv, LegInv
      <3>2. Answers(carried)'
        BY <1>2, <1>7, <1>8, <1>11, <3>1 DEF Answers
      <3>3. QED
        BY <1>2, <1>7, <1>11, <2>2, <3>1, <3>2 DEF LegInv
    <2>3. QED
      BY <1>2, <2>1, <2>2
  <1>13. GotInv'
    BY <1>2 DEF IInv, GotInv
  <1>14. QED
    BY <1>10, <1>12, <1>13 DEF IInv

LEMMA CutStep ==
  ASSUME IInv, NEW n, Cut(n)
  PROVE  IInv'
  <1>1. /\ IsMessage(carried) /\ wire.missing = 0 /\ ~cut
        /\ wire = [ToBytes(carried) EXCEPT !.missing = 0]
        /\ leg \in {"relayed", "returned"}
    BY DEF IInv, WireInv, Cut
  <1>2. /\ Length(ToBytes(carried)) \in Nat
        /\ ToBytes(carried) = [ToBytes(carried) EXCEPT !.missing = 0]
    BY <1>1, Whole
  <1>3. wire = ToBytes(carried)
    BY <1>1, <1>2
  <1>4. /\ n \in 1..Length(ToBytes(carried))
        /\ wire' = [ToBytes(carried) EXCEPT !.missing = n]
        /\ cut' = TRUE /\ UNCHANGED <<leg, topic, got, error, carried, asked>>
    BY <1>3 DEF Cut
  <1>5. wire'.missing = n
    <2>1. ToBytes(carried) = [items |-> ToBytes(carried).items, missing |-> 0]
      BY <1>1, BytesOf
    <2>2. QED
      BY <1>4, <2>1
  <1>6. wire' = [ToBytes(carried') EXCEPT !.missing = wire'.missing]
    BY <1>4, <1>5
  <1>7. wire'.missing \in Nat /\ wire'.missing # 0
        /\ wire'.missing <= Length(ToBytes(carried'))
    BY <1>2, <1>4, <1>5
  <1>8. WireInv'
    BY <1>1, <1>4, <1>6, <1>7 DEF IInv, WireInv
  <1>9. LegInv' /\ GotInv'
    BY <1>4 DEF IInv, LegInv, GotInv, Stamped, Answers
  <1>10. QED
    BY <1>8, <1>9 DEF IInv

(* What is received is the message as it was sent, or nothing. *)
LEMMA OnTheWire ==
  ASSUME IInv
  PROVE  DecodeMessage(wire) = IF cut THEN Failed ELSE Received(carried)
  <1>1. /\ IsMessage(carried) /\ cut \in BOOLEAN /\ (cut <=> wire.missing # 0)
        /\ wire.missing \in Nat /\ wire.missing <= Length(ToBytes(carried))
        /\ wire = [ToBytes(carried) EXCEPT !.missing = wire.missing]
    BY DEF IInv, WireInv
  <1> DEFINE c == wire.missing
  <1> HIDE DEF c
  <1>2. DecodeMessage([ToBytes(carried) EXCEPT !.missing = c])
          = IF c = 0 THEN Received(carried) ELSE Failed
    BY <1>1, Decoded DEF c
  <1>3. wire = [ToBytes(carried) EXCEPT !.missing = c]
    BY <1>1 DEF c
  <1>4. QED
    BY <1>1, <1>2, <1>3 DEF c

LEMMA ReceiveStep ==
  ASSUME IInv, Receive
  PROVE  IInv'
  <1> DEFINE message == DecodeMessage(wire)
  <1>1. IsMessage(carried) /\ carried.messageType \in Types /\ cut \in BOOLEAN
    BY DEF IInv, WireInv, IsMessage
  <1>2. message = IF cut THEN Failed ELSE Received(carried)
    BY OnTheWire
  <1>3. /\ leg \in {"relayed", "returned"}
        /\ UNCHANGED <<topic, wire, carried, asked, cut>>
        /\ IF message = Failed
             THEN leg' = "failed" /\ got' = None /\ UNCHANGED error
           ELSE /\ got' = [message EXCEPT !.destinationTopic = topic]
                /\ leg' = IF message.messageType = REQUEST THEN "received"
                                                           ELSE "done"
                /\ error' = IF message.messageType = ERROR
                              THEN NameOf(NormalizedCode(message.errorCode))
                              ELSE error
    BY DEF Receive
  <1> HIDE DEF message
  <1>4. Received(carried) # Failed
    BY <1>1, ReceivedIs
  <1>5. CASE cut
    <2>1. leg' = "failed" /\ got' = None /\ error' = error
      BY <1>2, <1>3, <1>5
    <2>2. QED
      BY <1>3, <1>5, <2>1 DEF IInv, WireInv, LegInv, GotInv, Legs
  <1>6. CASE ~cut
    <2>1. message = Received(carried) /\ message # Failed
      BY <1>2, <1>4, <1>6
    <2>2. message.messageType = carried.messageType
      BY <1>1, <2>1, ReceivedIs
    <2>3. carried.messageType = ERROR => message.errorCode = carried.errorCode
      <3> SUFFICES ASSUME carried.messageType = ERROR
                   PROVE  message.errorCode = carried.errorCode
        OBVIOUS
      <3>1. "errorCode" \in FieldsOf(carried.messageType) \ {"payload"}
        BY <1>1, FieldMembers
      <3>2. Carries(carried.version, "errorCode")
        BY DEF Carries
      <3>3. QED
        BY <1>1, <2>1, <3>1, <3>2, ReceivedIs
    <2>4. /\ got' = Arrived(carried)
          /\ leg' = (IF carried.messageType = REQUEST THEN "received" ELSE "done")
          /\ error' = IF carried.messageType = ERROR
                        THEN NameOf(NormalizedCode(carried.errorCode))
                        ELSE error
      <3>1. topic = carried.destinationTopic
        BY DEF IInv, WireInv
      <3>2. QED
        BY <1>3, <2>1, <2>2, <2>3, <3>1 DEF Arrived
    <2>5. WireInv'
      BY <1>3, <1>6, <2>4 DEF IInv, WireInv, Legs
    <2>6. LegInv'
      <3>1. CASE leg = "relayed"
        BY <1>3, <2>4, <3>1, DistinctTypes DEF IInv, LegInv, Stamped
      <3>2. CASE leg = "returned"
        BY <1>3, <2>4, <3>2, DistinctTypes DEF IInv, LegInv, Answers
      <3>3. QED
        BY <1>3, <3>1, <3>2
    <2>7. GotInv'
      <3>1. got' = Arrived(carried') /\ IsMessage(carried')
        BY <1>1, <1>3, <2>4
      <3>2. \A code : NameOf(code) \in {"SERVICE_UNAVAILABLE",
              "SERVICE_OVERLOADED", "RESPONSE_TIMEOUT", "undefined"}
        BY DEF NameOf
      <3>3. error' \in {"none", "SERVICE_UNAVAILABLE", "SERVICE_OVERLOADED",
                        "RESPONSE_TIMEOUT", "undefined"}
        BY <2>4, <3>2 DEF IInv, GotInv
      <3>4. carried'.messageType = ERROR =>
              error' = NameOf(NormalizedCode(carried'.errorCode))
        BY <1>3, <2>4
      <3>5. QED
        BY <3>1, <3>3, <3>4 DEF GotInv
    <2>8. QED
      BY <2>5, <2>6, <2>7 DEF IInv
  <1>7. QED
    BY <1>1, <1>5, <1>6

LEMMA AnswerStep ==
  ASSUME IInv, NEW type \in {RESPONSE, ERROR}, NEW payload,
         payload = Payload(payload.as, payload.length), FourBytes(payload.length),
         NEW code, type = ERROR => code \in Codes,
         Answer(type, payload, code)
  PROVE  IInv'
  <1> DEFINE F == FieldsOf(type)
             fresh == NewMessage(type, "m2")
             response == ResponseTo(type, got, "m2")
             answer == [response EXCEPT !.payload = payload]
             m == IF type = ERROR THEN [answer EXCEPT !.errorCode = code]
                  ELSE answer
  <1>1. type \in Types /\ type # REQUEST /\ type # EVENT
    BY DistinctTypes
  <1>2. /\ leg = "received" /\ leg' = "answered" /\ Publish(m)
        /\ UNCHANGED <<got, error, asked, cut>>
    BY DEF Answer
  <1>3. /\ IsMessage(carried) /\ got = Arrived(carried)
        /\ carried.messageType = REQUEST /\ Stamped(carried)
    BY <1>2 DEF IInv, WireInv, LegInv, GotInv
  <1>4. /\ got["messageId"] = asked /\ got["serviceId"] = "service1"
        /\ got["sourceClientId"] = "client1"
        /\ got["sourceBrokerId"] = "broker1"
        /\ got["replyToTopic"] = ReplyTopic
    <2>1. {"messageId", "serviceId", "sourceClientId", "sourceBrokerId",
           "replyToTopic"}
            \subseteq FieldsOf(carried.messageType) \ {"payload"}
      BY <1>3, FieldMembers, DistinctTypes
    <2>2. \A f \in {"messageId", "serviceId", "sourceClientId", "sourceBrokerId",
           "replyToTopic"} :
            Carries(carried.version, f)
      BY DEF Carries
    <2>3. \A f \in {"messageId", "serviceId", "sourceClientId", "sourceBrokerId",
           "replyToTopic"} :
            got[f] = carried[f]
      BY <1>3, <2>1, <2>2, ArrivedIs
    <2>4. QED
      BY <1>3, <2>3 DEF Stamped
  <1>5. /\ fresh = [f \in F |-> fresh[f]] /\ fresh["version"] = 2
        /\ fresh["messageType"] = type /\ fresh["otherFields"] = EmptyMap
    BY <1>1, FreshMessage
  <1>6. /\ "requestMessageId" \in F /\ "serviceId" \in F /\ "clientIds" \in F
        /\ "brokerIds" \in F /\ "payload" \in F /\ "version" \in F
        /\ "messageType" \in F /\ "otherFields" \in F
        /\ "destinationTopic" \in F
        /\ type = ERROR => "errorCode" \in F
    BY <1>1, FieldMembers
  <1>7. response = [fresh EXCEPT !.destinationTopic = ReplyTopic,
                                 !.requestMessageId = asked,
                                 !.serviceId = "service1",
                                 !.clientIds = <<"client1">>,
                                 !.brokerIds = <<"broker1">>]
    BY <1>4 DEF ResponseTo
  <1> HIDE DEF F, fresh, response
  <1>8. /\ response = [f \in F |-> response[f]]
        /\ response["destinationTopic"] = ReplyTopic
        /\ response["requestMessageId"] = asked
        /\ response["serviceId"] = "service1"
        /\ response["clientIds"] = <<"client1">>
        /\ response["brokerIds"] = <<"broker1">>
        /\ response["version"] = 2 /\ response["messageType"] = type
        /\ response["otherFields"] = EmptyMap
    BY <1>5, <1>6, <1>7
  <1>9. /\ answer = [f \in F |-> answer[f]] /\ answer["payload"] = payload
        /\ \A f \in F \ {"payload"} : answer[f] = response[f]
    BY <1>6, <1>8
  <1> HIDE DEF answer
  <1>10. /\ m = [f \in F |-> m[f]]
         /\ \A f \in F \ {"errorCode"} : m[f] = answer[f]
         /\ type = ERROR => m["errorCode"] = code
    BY <1>6, <1>9
  <1> HIDE DEF m
  <1>11. /\ m["destinationTopic"] = ReplyTopic
         /\ m["requestMessageId"] = asked /\ m["serviceId"] = "service1"
         /\ m["clientIds"] = <<"client1">> /\ m["brokerIds"] = <<"broker1">>
         /\ m["version"] = 2 /\ m["messageType"] = type
         /\ m["otherFields"] = EmptyMap /\ m["payload"] = payload
    BY <1>6, <1>8, <1>9, <1>10
  <1>12. IsMessage(m)
    BY <1>1, <1>10, <1>11, EmptyMapIs DEF IsMessage, F
  <1>13. WireInv'
    BY <1>2, <1>12, Encoded DEF IInv, WireInv, Legs
  <1>14. carried' = m
    BY <1>2 DEF Publish
  <1>15. LegInv'
    <2>1. Answers(carried)'
      BY <1>2, <1>10, <1>11, <1>14 DEF Answers
    <2>2. QED
      BY <1>2, <1>11, <1>14, <2>1 DEF LegInv
  <1>16. GotInv'
    BY <1>2 DEF IInv, GotInv
  <1>17. QED
    BY <1>13, <1>15, <1>16 DEF IInv

(* The bytes are those of the message as it was last encoded, whole unless   *)
(* cut, and every leg knows what the answer needs to find its way.           *)
THEOREM Invariant == Spec => []IInv
  <1>1. ASSUME IInv, [Next]_vars PROVE IInv'
    <2>1. ASSUME NEW type \in {REQUEST, EVENT}, NEW version \in Versions,
                 NEW payload \in Payloads,
                 NEW others \in {EmptyMap, [k1 |-> "v1"],
                                 [k1 |-> "v1", k2 |-> "k1"]},
                 Send(type, version, payload, others)
          PROVE  IInv'
      BY <1>1, <2>1, SendStep
    <2>2. ASSUME NEW kind \in {"string", "buffer"}, Relay(kind)
          PROVE  IInv'
      BY <1>1, <2>2, RelayStep
    <2>3. ASSUME NEW n, Cut(n)
          PROVE  IInv'
      BY <1>1, <2>3, CutStep
    <2>4. CASE Receive
      BY <1>1, <2>4, ReceiveStep
    <2>5. ASSUME NEW code \in Codes, Answer(ERROR, Payload("string", 0), code)
          PROVE  IInv'
      <3> DEFINE payload == Payload("string", 0)
      <3>1. payload = Payload(payload.as, payload.length)
            /\ FourBytes(payload.length)
        BY PayloadsFit DEF Payload
      <3> HIDE DEF payload
      <3>2. QED
        BY <1>1, <2>5, <3>1, AnswerStep DEF payload
    <2>6. ASSUME NEW payload \in Payloads, Answer(RESPONSE, payload, 0)
          PROVE  IInv'
      <3>1. payload = Payload(payload.as, payload.length)
            /\ FourBytes(payload.length)
        BY PayloadsFit
      <3>2. RESPONSE # ERROR
        BY DistinctTypes
      <3>3. QED
        BY <1>1, <2>6, <3>1, <3>2, AnswerStep
    <2>7. CASE UNCHANGED vars
      BY <1>1, <2>7 DEF vars, IInv, WireInv, LegInv, GotInv, Stamped, Answers
    <2>8. QED
      BY <1>1, <2>1, <2>2, <2>3, <2>4, <2>5, <2>6, <2>7 DEF Next
  <1>2. QED
    BY <1>1, InitInv, PTL DEF Spec

-----------------------------------------------------------------------------
(* The properties that TLC checks *)

(* Whatever the id of a new message, its defaults are the same.             *)
LEMMA DefaultsOfAny ==
  ASSUME NEW type \in Types,
         NEW f \in {"otherFields", "sourceTenantGuid", "destinationTenantGuids"}
  PROVE  NewMessage(type, "new")[f] = NewMessage(type, "")[f]
  <1>1. f \in CommonFields
    BY DEF CommonFields
  <1>2. NewMessage(type, "new")[f] = MessageDefaults(type, "new")[f]
    <2>1. \A g \in CommonFields :
            NewMessage(type, "new")[g] = MessageDefaults(type, "new")[g]
      BY NewMessageIs
    <2>2. QED
      BY <1>1, <2>1
  <1>3. NewMessage(type, "")[f] = MessageDefaults(type, "")[f]
    <2>1. \A g \in CommonFields :
            NewMessage(type, "")[g] = MessageDefaults(type, "")[g]
      BY NewMessageIs
    <2>2. QED
      BY <1>1, <2>1
  <1>4. MessageDefaults(type, "new")[f] = MessageDefaults(type, "")[f]
    <2>1. CASE f = "otherFields"
      BY <2>1 DEF MessageDefaults
    <2>2. CASE f = "sourceTenantGuid"
      BY <2>2 DEF MessageDefaults
    <2>3. CASE f = "destinationTenantGuids"
      BY <2>3 DEF MessageDefaults
    <2>4. QED
      BY <2>1, <2>2, <2>3
  <1>5. QED
    BY <1>2, <1>3, <1>4

(* A receiver has what the sender encoded, in every field its version       *)
(* carries, and the defaults of the constructors in the others              *)
(* (Message._unpackMessage in lib/message.js and its classes).              *)
THEOREM Carried == Spec => []CarriedInv
  <1>1. IInv => CarriedInv
    <2> SUFFICES ASSUME IInv, leg \in {"received", "done"} PROVE CarriedInv
      BY DEF CarriedInv
    <2> DEFINE T == carried.messageType
    <2>1. IsMessage(carried) /\ got = Arrived(carried)
      BY DEF IInv, WireInv, GotInv
    <2>2. T \in Types
      BY <2>1 DEF IsMessage
    <2>3. /\ DOMAIN got = FieldsOf(T) /\ DOMAIN carried = FieldsOf(T)
          /\ got["messageType"] = T
          /\ got["payload"] = Payload("buffer", carried.payload.length)
          /\ got["destinationTopic"] = carried.destinationTopic
          /\ \A f \in FieldsOf(T) \ {"payload"} :
               Carries(carried.version, f) => got[f] = carried[f]
          /\ \A f \in FieldsOf(T) \ {"destinationTopic"} :
               ~Carries(carried.version, f) => got[f] = NewMessage(T, "new")[f]
      BY <2>1, ArrivedIs
    <2>4. got.payload.length = carried.payload.length
      BY <2>3 DEF Payload
    <2>5. ASSUME NEW f \in FieldsOf(T) \ {"destinationTopic"},
                 ~Carries(carried.version, f)
          PROVE  NewMessage(T, "new")[f] = NewMessage(T, "")[f]
      <3>1. f \in {"otherFields", "sourceTenantGuid", "destinationTenantGuids"}
        BY <2>5 DEF Carries
      <3>2. QED
        BY <2>2, <3>1, DefaultsOfAny
    <2>6. ASSUME NEW f \in DOMAIN got \ {"payload", "destinationTopic"}
          PROVE  IF Carries(carried.version, f) THEN got[f] = carried[f]
                 ELSE got[f] = NewMessage(got.messageType, "")[f]
      BY <2>3, <2>5
    <2>7. QED
      BY <2>3, <2>4, <2>6 DEF CarriedInv
  <1>2. QED
    BY <1>1, Invariant, PTL

(* Decoding fails for a message whose end was left out, wherever it breaks  *)
(* off, and for no other (MessageDecodeException in lib/decode-message.js). *)
THEOREM WholeMessages == Spec => []WholeInv
  <1>1. IInv => WholeInv
    BY DEF IInv, WireInv, WholeInv
  <1>2. QED
    BY <1>1, Invariant, PTL

(* The answer goes to the topic the requester waits for answers on, where   *)
(* it is given to the callbacks of that topic, and names the request as its *)
(* sender made it and the client and the broker it came from (the           *)
(* constructor of Response, sendResponse() and the 'message' event).        *)
THEOREM AnswersFindTheirWay == Spec => []AnswerInv
  <1>1. IInv => AnswerInv
    <2> SUFFICES ASSUME IInv PROVE AnswerInv
      OBVIOUS
    <2> DEFINE T == carried.messageType
               fields == {"requestMessageId", "serviceId", "clientIds",
                          "brokerIds"}
    <2>1. ASSUME leg \in {"answered", "returned"}
          PROVE  topic = ReplyTopic
      BY <2>1 DEF IInv, WireInv, LegInv, Answers
    <2>2. ASSUME leg = "done", got.messageType \in {RESPONSE, ERROR}
          PROVE  /\ got.destinationTopic = ReplyTopic
                 /\ got.requestMessageId = asked
                 /\ got.serviceId = "service1"
                 /\ got.clientIds = <<"client1">> /\ got.brokerIds = <<"broker1">>
      <3>1. IsMessage(carried) /\ got = Arrived(carried)
        BY <2>2 DEF IInv, WireInv, GotInv
      <3>2. T \in Types
        BY <3>1 DEF IsMessage
      <3>3. T \in {RESPONSE, ERROR}
        BY <2>2, <3>1, ArrivedIs
      <3>4. Answers(carried)
        BY <2>2, <3>3 DEF IInv, LegInv
      <3>5. fields \subseteq FieldsOf(T) \ {"payload"}
        BY <3>2, <3>3, FieldMembers, DistinctTypes
      <3>6. \A f \in fields : Carries(carried.version, f)
        BY DEF Carries
      <3>7. \A f \in fields : got[f] = carried[f]
        BY <3>1, <3>5, <3>6, ArrivedIs
      <3>8. got.destinationTopic = carried.destinationTopic
        BY <3>1, ArrivedIs
      <3>9. QED
        BY <3>4, <3>7, <3>8 DEF Answers
    <2>3. QED
      BY <2>1, <2>2 DEF AnswerInv
  <1>2. QED
    BY <1>1, Invariant, PTL

(* Made positive, a code is what it is modulo two to the power of its width. *)
LEMMA NormalizedIs ==
  ASSUME NEW code \in Codes
  PROVE  NormalizedCode(code) = code % (2 * HighBit)
  <1> DEFINE N == 2 * HighBit
  <1>1. N \in Nat \ {0} /\ code \in -N..N - 1 /\ N = 2 * HighBit
    BY HighBitAssumption, CodesAssumption
  <1> HIDE DEF N
  <1>2. code % N = IF code < 0 THEN N + code ELSE code
    BY <1>1
  <1>3. NormalizedCode(code) = IF code < 0 THEN N - 1 + code + 1 ELSE code
    BY DEF NormalizedCode, N
  <1>4. QED
    BY <1>1, <1>2, <1>3 DEF N

(* The requester's callback tells an error by the name of its code, signed  *)
(* or unsigned, for every code of either kind (lib/request-error.js).       *)
THEOREM ErrorCodes == Spec => []ErrorCodeInv
  <1>1. IInv => ErrorCodeInv
    <2> SUFFICES ASSUME IInv, leg = "done", got.messageType = ERROR
                 PROVE  ErrorCodeInv
      BY DEF ErrorCodeInv
    <2>1. IsMessage(carried) /\ got = Arrived(carried)
      BY DEF IInv, WireInv, GotInv
    <2>2. carried.messageType = ERROR
      BY <2>1, ArrivedIs
    <2>3. carried.errorCode \in Codes
      BY <2>2 DEF IInv, LegInv, Answers
    <2>4. error = NameOf(NormalizedCode(carried.errorCode))
      BY <2>2 DEF IInv, GotInv
    <2>5. QED
      BY <2>3, <2>4, NormalizedIs DEF ErrorCodeInv
  <1>2. QED
    BY <1>1, Invariant, PTL

(* Whatever a payload was sent as, applications are given a buffer.         *)
THEOREM TypeCorrect == Spec => []TypeOK
  <1>1. IInv => TypeOK
    <2> SUFFICES ASSUME IInv PROVE TypeOK
      OBVIOUS
    <2>1. got # None => /\ got.messageType \in Types
                        /\ got.payload.as = "buffer"
      <3> SUFFICES ASSUME got # None
                   PROVE  got.messageType \in Types /\ got.payload.as = "buffer"
        OBVIOUS
      <3>1. PICK m : IsMessage(m) /\ got = Arrived(m)
        BY DEF IInv, GotInv
      <3>2. got["messageType"] = m.messageType
            /\ got["payload"] = Payload("buffer", m.payload.length)
        BY <3>1, ArrivedIs
      <3>3. m.messageType \in Types
        BY <3>1 DEF IsMessage
      <3>4. QED
        BY <3>2, <3>3 DEF Payload
    <2>2. QED
      BY <2>1 DEF IInv, WireInv, GotInv, IsMessage, TypeOK
  <1>2. QED
    BY <1>1, Invariant, PTL
=============================================================================
