-------------------------- MODULE ConfigFileProofs --------------------------
(***************************************************************************)
(* Proofs about modules Config and ConfigFile, for files of any length,    *)
(* edited and updated any number of times.                                 *)
(***************************************************************************)
EXTENDS ConfigFile, FiniteSetTheorems, FunctionTheorems, SequenceTheorems,
        WellFoundedInduction, TLAPS
-----------------------------------------------------------------------------
(* Induction over numbers *)

LEMMA NatMinimum ==
  ASSUME NEW T \in SUBSET Nat, T # {}
  PROVE  \E m \in T : \A n \in T : m <= n
  <1>1. PICK m \in T : \A n \in T : ~ (<<n, m>> \in OpToRel(<, Nat))
    <2>1. IsWellFoundedOn(OpToRel(<, Nat), Nat)
      BY NatLessThanWellFounded
    <2>2. QED
      BY <2>1, WFMin
  <1>2. ASSUME NEW n \in T PROVE ~(n < m)
    BY <1>1 DEF OpToRel
  <1>3. QED
    BY <1>2

(* A set that holds 0 and is closed under successor up to N holds what is   *)
(* up to N.                                                                 *)
LEMMA SetInduction ==
  ASSUME NEW N \in Nat, NEW T, 0 \in T,
         \A n \in Nat : n < N /\ n \in T => n + 1 \in T
  PROVE  0..N \subseteq T
  <1> SUFFICES ASSUME NEW k \in 0..N, k \notin T PROVE FALSE
    OBVIOUS
  <1>1. PICK m \in 0..N \ T : \A n \in 0..N \ T : m <= n
    <2>1. 0..N \ T \in SUBSET Nat /\ 0..N \ T # {}
      OBVIOUS
    <2>2. QED
      BY <2>1, NatMinimum
  <1>2. m - 1 \in Nat /\ m - 1 < N /\ m - 1 \in T
    BY <1>1
  <1>3. QED
    BY <1>1, <1>2

LEMMA MaxOfSet ==
  ASSUME NEW N \in Nat, NEW s \in SUBSET (1..N), N \in s
  PROVE  Max(s) = N
  <1>1. \A y \in s : N >= y
    OBVIOUS
  <1>2. PICK x \in s : Max(s) = x /\ \A y \in s : x >= y
    <2> DEFINE P(x) == \A y \in s : x >= y
    <2>1. \E x \in s : P(x)
      BY <1>1
    <2>2. (CHOOSE x \in s : P(x)) \in s /\ P(CHOOSE x \in s : P(x))
      <3> HIDE DEF P
      <3>1. QED
        BY <2>1
    <2>3. QED
      BY <2>2 DEF Max
  <1>3. QED
    BY <1>2

-----------------------------------------------------------------------------
(* Folds *)

(* What the constructor of Client does with one host of a broker.           *)
AddHost(broker, servers, host) ==
    LET server == [host |-> host.text, port |-> broker.port]
    IN  IF Contains(servers, server) THEN servers ELSE Append(servers, server)

AddHosts(broker, servers, hosts) ==
    FoldLeft(LAMBDA result, host : AddHost(broker, result, host), servers, hosts)
AddBrokers(servers, brokers) ==
    FoldLeft(LAMBDA result, broker : AddHosts(broker, result, broker.hosts),
             servers, brokers)

(* What updateBrokerListInConfigFile() does with the lines of the file.     *)
Replaced(section, brokerLines, start, file) ==
    FoldLeft(LAMBDA acc, line : Replace(acc, line, section, brokerLines),
             start, file)

(* What the folds of the two modules do with one element, by a name for     *)
(* each; some need more to know than the element.                           *)
Step(name, arg, acc, x) ==
    CASE name = "replace" -> Replace(acc, x, arg.section, arg.brokerLines)
      [] name = "parse" -> ParseLine(acc, x)
      [] name = "host" -> AddHost(arg, acc, x)
      [] name = "broker" -> AddHosts(x, acc, x.hosts)

(* FoldLeft takes the elements of a sequence one after the other: it is the *)
(* last value of a function of the number of elements taken.                *)
IsRun(run, name, arg, base, seq, n) ==
    run = [k \in 0..n |-> IF k = 0 THEN base
                          ELSE Step(name, arg, run[k - 1], seq[k])]

(* Its definition recurs over the sets of positions.                        *)
IsIter(iter, name, arg, base, seq, n) ==
    iter = [s \in SUBSET (1..n) |->
              IF s = {} THEN base
              ELSE Step(name, arg, iter[s \ {Max(s)}], seq[Max(s)])]

LEMMA RunExists ==
  ASSUME NEW name, NEW arg, NEW base, NEW seq, NEW N \in Nat
  PROVE  \E run : IsRun(run, name, arg, base, seq, N)
  <1> DEFINE T == {n \in Nat : \E f : IsRun(f, name, arg, base, seq, n)}
  <1>1. 0 \in T
    <2> DEFINE f == [k \in 0..0 |-> base]
    <2>1. f = [k \in 0..0 |-> IF k = 0 THEN base
                              ELSE Step(name, arg, f[k - 1], seq[k])]
      OBVIOUS
    <2> HIDE DEF f
    <2>2. QED
      BY <2>1 DEF IsRun
  <1>2. ASSUME NEW n \in Nat, n \in T PROVE n + 1 \in T
    <2>1. PICK f : IsRun(f, name, arg, base, seq, n)
      BY <1>2
    <2> DEFINE last == Step(name, arg, f[n], seq[n + 1])
               g == [k \in 0..n + 1 |-> IF k = n + 1 THEN last ELSE f[k]]
               h == [k \in 0..n + 1 |-> IF k = 0 THEN base
                                        ELSE Step(name, arg, g[k - 1], seq[k])]
    <2>2. f = [k \in 0..n |-> IF k = 0 THEN base
                              ELSE Step(name, arg, f[k - 1], seq[k])]
      BY <2>1 DEF IsRun
    <2>3. ASSUME NEW k \in 0..n + 1 PROVE g[k] = h[k]
      <3>1. CASE k = n + 1
        <4>1. g[k] = last /\ g[k - 1] = f[n] /\ k # 0
          BY <3>1
        <4>2. h[k] = Step(name, arg, g[k - 1], seq[k])
          BY <4>1
        <4>3. QED
          BY <3>1, <4>1, <4>2
      <3>2. CASE k = 0
        <4>1. g[k] = f[0] /\ f[0] = base
          BY <2>2, <3>2
        <4>2. QED
          BY <3>2, <4>1
      <3>3. CASE k \in 1..n
        <4>1. g[k] = f[k] /\ g[k - 1] = f[k - 1]
          BY <3>3
        <4>2. f[k] = Step(name, arg, f[k - 1], seq[k])
          BY <2>2, <3>3
        <4>3. h[k] = Step(name, arg, g[k - 1], seq[k])
          BY <3>3
        <4>4. QED
          BY <4>1, <4>2, <4>3
      <3>4. QED
        BY <3>1, <3>2, <3>3
    <2>4. g = h
      BY <2>3
    <2>5. IsRun(g, name, arg, base, seq, n + 1)
      <3> HIDE DEF g
      <3>1. QED
        BY <2>4 DEF IsRun
    <2>6. QED
      BY <2>5
  <1>3. 0..N \subseteq T
    <2> HIDE DEF T
    <2>1. QED
      BY <1>1, <1>2, SetInduction
  <1>4. QED
    BY <1>3

LEMMA IterExists ==
  ASSUME NEW name, NEW arg, NEW base, NEW seq, NEW N \in Nat
  PROVE  \E iter : IsIter(iter, name, arg, base, seq, N)
  <1> DEFINE T == {n \in Nat : \E f : IsIter(f, name, arg, base, seq, n)}
  <1>1. 0 \in T
    <2> DEFINE f == [s \in SUBSET (1..0) |-> base]
    <2>1. f = [s \in SUBSET (1..0) |->
                 IF s = {} THEN base
                 ELSE Step(name, arg, f[s \ {Max(s)}], seq[Max(s)])]
      OBVIOUS
    <2> HIDE DEF f
    <2>2. QED
      BY <2>1 DEF IsIter
  <1>2. ASSUME NEW n \in Nat, n \in T PROVE n + 1 \in T
    <2>1. PICK f : IsIter(f, name, arg, base, seq, n)
      BY <1>2
    <2> DEFINE g == [s \in SUBSET (1..n + 1) |->
                       IF n + 1 \in s
                         THEN Step(name, arg, f[s \ {n + 1}], seq[n + 1])
                         ELSE f[s]]
               h == [s \in SUBSET (1..n + 1) |->
                       IF s = {} THEN base
                       ELSE Step(name, arg, g[s \ {Max(s)}], seq[Max(s)])]
    <2>2. f = [s \in SUBSET (1..n) |->
                 IF s = {} THEN base
                 ELSE Step(name, arg, f[s \ {Max(s)}], seq[Max(s)])]
      BY <2>1 DEF IsIter
    <2>3. ASSUME NEW s \in SUBSET (1..n + 1) PROVE g[s] = h[s]
      <3>1. CASE n + 1 \in s
        <4>1. Max(s) = n + 1
          BY <3>1, MaxOfSet
        <4>2. g[s] = Step(name, arg, f[s \ {n + 1}], seq[n + 1])
          BY <3>1
        <4>3. /\ s \ {n + 1} \in SUBSET (1..n + 1)
              /\ n + 1 \notin s \ {n + 1}
          OBVIOUS
        <4>4. g[s \ {n + 1}] = f[s \ {n + 1}]
          BY <4>3
        <4>5. h[s] = Step(name, arg, g[s \ {n + 1}], seq[n + 1])
          BY <3>1, <4>1
        <4>6. QED
          BY <4>2, <4>4, <4>5
      <3>2. CASE n + 1 \notin s
        <4>1. s \in SUBSET (1..n)
          BY <3>2
        <4>2. g[s] = f[s]
          BY <3>2
        <4>3. CASE s = {}
          <5>1. f[s] = base
            BY <2>2, <4>1, <4>3
          <5>2. h[s] = base
            BY <4>3
          <5>3. QED
            BY <4>2, <5>1, <5>2
        <4>4. CASE s # {}
          <5> DEFINE m == Max(s)
          <5>1. f[s] = Step(name, arg, f[s \ {m}], seq[m])
            BY <2>2, <4>1, <4>4
          <5>2. h[s] = Step(name, arg, g[s \ {m}], seq[m])
            BY <4>4
          <5>3. g[s \ {m}] = f[s \ {m}]
            <6>1. s \ {m} \in SUBSET (1..n + 1) /\ n + 1 \notin s \ {m}
              BY <3>2
            <6>2. QED
              BY <6>1
          <5>4. QED
            BY <4>2, <5>1, <5>2, <5>3
        <4>5. QED
          BY <4>3, <4>4
      <3>3. QED
        BY <3>1, <3>2
    <2>4. g = h
      BY <2>3
    <2>5. IsIter(g, name, arg, base, seq, n + 1)
      <3> HIDE DEF g
      <3>1. QED
        BY <2>4 DEF IsIter
    <2>6. QED
      BY <2>5
  <1>3. 0..N \subseteq T
    <2> HIDE DEF T
    <2>1. QED
      BY <1>1, <1>2, SetInduction
  <1>4. QED
    BY <1>3

(* The two agree on the first k positions, for every k. *)
LEMMA IterIsRun ==
  ASSUME NEW name, NEW arg, NEW base, NEW seq, NEW N \in Nat,
         NEW iter, IsIter(iter, name, arg, base, seq, N),
         NEW run, IsRun(run, name, arg, base, seq, N)
  PROVE  iter[1..N] = run[N]
  <1> DEFINE T == {n \in 0..N : iter[1..n] = run[n]}
  <1>1. 0 \in T
    <2>1. 1..0 = {} /\ {} \in SUBSET (1..N)
      OBVIOUS
    <2>2. iter[{}] = base
      BY <2>1 DEF IsIter
    <2>3. run[0] = base
      BY DEF IsRun
    <2>4. QED
      BY <2>1, <2>2, <2>3
  <1>2. ASSUME NEW n \in Nat, n < N, n \in T PROVE n + 1 \in T
    <2>1. /\ 1..(n + 1) \in SUBSET (1..N) /\ 1..(n + 1) # {}
          /\ Max(1..(n + 1)) = n + 1 /\ 1..(n + 1) \ {n + 1} = 1..n
      <3>1. n + 1 \in 1..(n + 1) /\ 1..(n + 1) \ {n + 1} = 1..n
        OBVIOUS
      <3>2. 1..(n + 1) \in SUBSET (1..(n + 1)) /\ n + 1 \in Nat
        OBVIOUS
      <3>3. Max(1..(n + 1)) = n + 1
        BY <3>1, <3>2, MaxOfSet
      <3>4. 1..(n + 1) \in SUBSET (1..N)
        BY <1>2
      <3>5. QED
        BY <3>1, <3>3, <3>4
    <2>2. iter[1..(n + 1)] = Step(name, arg, iter[1..n], seq[n + 1])
      BY <2>1 DEF IsIter
    <2>3. run[n + 1] = Step(name, arg, run[n], seq[n + 1])
      <3>1. n + 1 \in 0..N /\ n + 1 # 0 /\ (n + 1) - 1 = n
        BY <1>2
      <3>2. QED
        BY <3>1 DEF IsRun
    <2>4. QED
      BY <1>2, <2>2, <2>3
  <1>3. 0..N \subseteq T
    <2> HIDE DEF T
    <2>1. QED
      BY <1>1, <1>2, SetInduction
  <1>4. QED
    BY <1>3


(* The folds of the two modules. *)
LEMMA ReplaceFold ==
  ASSUME NEW section, NEW brokerLines, NEW base, NEW seq, NEW N \in Nat, DOMAIN seq = 1..N
  PROVE  \E run : /\ IsRun(run, "replace", [section |-> section, brokerLines |-> brokerLines], base, seq, N)
                  /\ Replaced(section, brokerLines, base, seq) = run[N]
  <1> DEFINE P(f) == f = [s \in SUBSET DOMAIN seq |->
                            IF s = {} THEN base
                            ELSE Replace(f[s \ {Max(s)}], seq[Max(s)], section, brokerLines)]
             arg == [section |-> section, brokerLines |-> brokerLines]
             iter == CHOOSE f : P(f)
  <1>1. \A a, x : Step("replace", arg, a, x) = Replace(a, x, section, brokerLines)
    BY DEF Step
  <1> HIDE DEF arg
  <1>2. \A f : P(f) <=> IsIter(f, "replace", arg, base, seq, N)
    BY <1>1 DEF IsIter
  <1>3. \E f : P(f)
    <2> HIDE DEF P
    <2>1. QED
      BY <1>2, IterExists
  <1>4. P(iter)
    <2> HIDE DEF P
    <2>1. QED
      BY <1>3
  <1>5. IsIter(iter, "replace", arg, base, seq, N)
    <2> HIDE DEF P, iter
    <2>1. QED
      BY <1>2, <1>4
  <1>6. PICK run : IsRun(run, "replace", arg, base, seq, N)
    BY RunExists
  <1>7. iter[1..N] = run[N]
    <2> HIDE DEF iter
    <2>1. QED
      BY <1>5, <1>6, IterIsRun
  <1>8. Replaced(section, brokerLines, base, seq) = iter[DOMAIN seq]
    BY DEF Replaced, FoldLeft, MapThenFoldSet
  <1>9. QED
    BY <1>6, <1>7, <1>8 DEF arg

LEMMA ParseFold ==
  ASSUME NEW base, NEW seq, NEW N \in Nat, DOMAIN seq = 1..N
  PROVE  \E run : /\ IsRun(run, "parse", "none", base, seq, N)
                  /\ FoldLeft(ParseLine, base, seq) = run[N]
  <1> DEFINE P(f) == f = [s \in SUBSET DOMAIN seq |->
                            IF s = {} THEN base
                            ELSE ParseLine(f[s \ {Max(s)}], seq[Max(s)])]
             arg == "none"
             iter == CHOOSE f : P(f)
  <1>1. \A a, x : Step("parse", arg, a, x) = ParseLine(a, x)
    BY DEF Step
  <1> HIDE DEF arg
  <1>2. \A f : P(f) <=> IsIter(f, "parse", arg, base, seq, N)
    BY <1>1 DEF IsIter
  <1>3. \E f : P(f)
    <2> HIDE DEF P
    <2>1. QED
      BY <1>2, IterExists
  <1>4. P(iter)
    <2> HIDE DEF P
    <2>1. QED
      BY <1>3
  <1>5. IsIter(iter, "parse", arg, base, seq, N)
    <2> HIDE DEF P, iter
    <2>1. QED
      BY <1>2, <1>4
  <1>6. PICK run : IsRun(run, "parse", arg, base, seq, N)
    BY RunExists
  <1>7. iter[1..N] = run[N]
    <2> HIDE DEF iter
    <2>1. QED
      BY <1>5, <1>6, IterIsRun
  <1>8. FoldLeft(ParseLine, base, seq) = iter[DOMAIN seq]
    BY DEF FoldLeft, MapThenFoldSet
  <1>9. QED
    BY <1>6, <1>7, <1>8 DEF arg

LEMMA HostFold ==
  ASSUME NEW broker, NEW base, NEW seq, NEW N \in Nat, DOMAIN seq = 1..N
  PROVE  \E run : /\ IsRun(run, "host", broker, base, seq, N)
                  /\ AddHosts(broker, base, seq) = run[N]
  <1> DEFINE P(f) == f = [s \in SUBSET DOMAIN seq |->
                            IF s = {} THEN base
                            ELSE AddHost(broker, f[s \ {Max(s)}], seq[Max(s)])]
             arg == broker
             iter == CHOOSE f : P(f)
  <1>1. \A a, x : Step("host", arg, a, x) = AddHost(broker, a, x)
    BY DEF Step
  <1> HIDE DEF arg
  <1>2. \A f : P(f) <=> IsIter(f, "host", arg, base, seq, N)
    BY <1>1 DEF IsIter
  <1>3. \E f : P(f)
    <2> HIDE DEF P
    <2>1. QED
      BY <1>2, IterExists
  <1>4. P(iter)
    <2> HIDE DEF P
    <2>1. QED
      BY <1>3
  <1>5. IsIter(iter, "host", arg, base, seq, N)
    <2> HIDE DEF P, iter
    <2>1. QED
      BY <1>2, <1>4
  <1>6. PICK run : IsRun(run, "host", arg, base, seq, N)
    BY RunExists
  <1>7. iter[1..N] = run[N]
    <2> HIDE DEF iter
    <2>1. QED
      BY <1>5, <1>6, IterIsRun
  <1>8. AddHosts(broker, base, seq) = iter[DOMAIN seq]
    BY DEF AddHosts, FoldLeft, MapThenFoldSet
  <1>9. QED
    BY <1>6, <1>7, <1>8 DEF arg

LEMMA BrokerFold ==
  ASSUME NEW base, NEW seq, NEW N \in Nat, DOMAIN seq = 1..N
  PROVE  \E run : /\ IsRun(run, "broker", "none", base, seq, N)
                  /\ AddBrokers(base, seq) = run[N]
  <1> DEFINE P(f) == f = [s \in SUBSET DOMAIN seq |->
                            IF s = {} THEN base
                            ELSE AddHosts(seq[Max(s)], f[s \ {Max(s)}], seq[Max(s)].hosts)]
             arg == "none"
             iter == CHOOSE f : P(f)
  <1>1. \A a, x : Step("broker", arg, a, x) = AddHosts(x, a, x.hosts)
    BY DEF Step
  <1> HIDE DEF arg
  <1>2. \A f : P(f) <=> IsIter(f, "broker", arg, base, seq, N)
    BY <1>1 DEF IsIter
  <1>3. \E f : P(f)
    <2> HIDE DEF P
    <2>1. QED
      BY <1>2, IterExists
  <1>4. P(iter)
    <2> HIDE DEF P
    <2>1. QED
      BY <1>3
  <1>5. IsIter(iter, "broker", arg, base, seq, N)
    <2> HIDE DEF P, iter
    <2>1. QED
      BY <1>2, <1>4
  <1>6. PICK run : IsRun(run, "broker", arg, base, seq, N)
    BY RunExists
  <1>7. iter[1..N] = run[N]
    <2> HIDE DEF iter
    <2>1. QED
      BY <1>5, <1>6, IterIsRun
  <1>8. AddBrokers(base, seq) = iter[DOMAIN seq]
    BY DEF AddBrokers, FoldLeft, MapThenFoldSet
  <1>9. QED
    BY <1>6, <1>7, <1>8 DEF arg

-----------------------------------------------------------------------------
(* Files *)

(* Every line there may ever be in the file. *)
Alphabet ==
    (UNION {Range(head) : head \in Heads}) \cup EditLines
      \cup (UNION {Range(list) : list \in BrokerLists}) \cup {Blank}

LEMMA AlphabetIs ==
  /\ \A line \in Alphabet : IsLine(line)
  /\ \A head \in Heads : head \in Seq(Alphabet)
  /\ \A list \in BrokerLists :
       /\ list \in Seq(Alphabet)
       /\ \A i \in 1..Len(list) : list[i].type = "entry"
  /\ Blank \in Alphabet
  <1>1. IsLine(Blank) /\ Blank \in Alphabet
    <2>1. IsLine(Blank)
      BY DEF Blank, Filler, IsLine
    <2>2. Blank \in Alphabet
      BY DEF Alphabet
    <2>3. QED
      BY <2>1, <2>2
  <1>2. ASSUME NEW head \in Heads
        PROVE  head \in Seq(Alphabet) /\ \A line \in Range(head) : IsLine(line)
    <2>1. head \in Seq(Range(head)) /\ \A line \in Range(head) : IsLine(line)
      BY HeadsAssumption
    <2>2. Range(head) \subseteq Alphabet
      BY DEF Alphabet
    <2>3. head \in Seq(Alphabet)
      BY <2>1, <2>2, SeqMonotonic
    <2>4. QED
      BY <2>1, <2>3
  <1>3. ASSUME NEW list \in BrokerLists
        PROVE  /\ list \in Seq(Alphabet)
               /\ \A line \in Range(list) : IsLine(line)
               /\ \A i \in 1..Len(list) : list[i].type = "entry"
    <2>1. /\ list \in Seq(Range(list))
          /\ \A line \in Range(list) : IsLine(line) /\ line.type = "entry"
      BY BrokersAssumption
    <2>2. Range(list) \subseteq Alphabet
      <3>1. Range(list) \in {Range(b) : b \in BrokerLists}
        OBVIOUS
      <3>2. QED
        BY <3>1 DEF Alphabet
    <2>3. list \in Seq(Alphabet)
      BY <2>1, <2>2, SeqMonotonic
    <2>4. \A i \in 1..Len(list) : list[i] \in Range(list)
      BY <2>1, ElementOfSeq
    <2>5. QED
      BY <2>1, <2>3, <2>4
  <1>4. \A line \in EditLines : IsLine(line)
    BY EditsAssumption
  <1>5. \A line \in Alphabet : IsLine(line)
    <2> TAKE line \in Alphabet
    <2>1. CASE line \in UNION {Range(head) : head \in Heads}
      BY <1>2, <2>1
    <2>2. CASE line \in UNION {Range(list) : list \in BrokerLists}
      BY <1>3, <2>2
    <2>3. QED
      BY <1>1, <1>4, <2>1, <2>2 DEF Alphabet
  <1>6. QED
    BY <1>1, <1>2, <1>3, <1>5

(* The lines of a kind, between two positions. *)
NoHeader(file, a, b) == \A i \in a..b : file[i].type # "header"
Fillers(file, a, b) == \A i \in a..b : file[i].type = "filler"

(* The section begins at h and nowhere else. *)
At(file, section, h) ==
    /\ h \in 1..Len(file) /\ file[h] = Header(section)
    /\ \A i \in 1..Len(file) : file[i] = Header(section) => i = h

(* It is the last one, or another begins at q; p is the last line before    *)
(* that which is not a filler.                                              *)
Ends(file, section, h) ==
    At(file, section, h) /\ NoHeader(file, h + 1, Len(file))
Followed(file, section, h, p, q) ==
    /\ At(file, section, h)
    /\ q \in (h + 1)..Len(file) /\ file[q].type = "header"
    /\ NoHeader(file, h + 1, q - 1)
    /\ p \in h..(q - 1) /\ file[p].type # "filler"
    /\ Fillers(file, p + 1, q - 1)
Absent(file, section) == \A i \in 1..Len(file) : file[i] # Header(section)

(* The last line up to k that is not a filler, where there is one. *)
LEMMA LastSolid ==
  ASSUME NEW file \in Seq(Alphabet), NEW h \in 1..Len(file), file[h].type # "filler",
         NEW k \in h..Len(file)
  PROVE  \E p \in h..k : file[p].type # "filler" /\ Fillers(file, p + 1, k)
  <1> DEFINE T == {k - i : i \in {j \in h..k : file[j].type # "filler"}}
  <1>1. Len(file) \in Nat
    OBVIOUS
  <1>2. T \in SUBSET Nat /\ T # {}
    BY <1>1
  <1>3. PICK m \in T : \A n \in T : m <= n
    <2> HIDE DEF T
    <2>1. QED
      BY <1>2, NatMinimum
  <1>4. PICK p \in h..k : m = k - p /\ file[p].type # "filler"
    BY <1>3
  <1>5. ASSUME NEW j \in (p + 1)..k, file[j].type # "filler" PROVE FALSE
    <2>1. k - j \in T
      BY <1>1, <1>5
    <2>2. k - p <= k - j
      BY <1>3, <1>4, <2>1
    <2>3. QED
      BY <1>1, <1>5, <2>2
  <1>6. QED
    BY <1>4, <1>5 DEF Fillers

(* In a file that opens no section twice it is one of the three. *)
LEMMA Layouts ==
  ASSUME NEW file \in Seq(Alphabet), OpenedOnce(file), NEW section
  PROVE  \/ Absent(file, section)
         \/ \E h \in 1..Len(file) : Ends(file, section, h)
         \/ \E h, p, q \in 1..Len(file) : Followed(file, section, h, p, q)
  <1> SUFFICES ASSUME ~Absent(file, section)
               PROVE  \/ \E h \in 1..Len(file) : Ends(file, section, h)
                      \/ \E h, p, q \in 1..Len(file) :
                           Followed(file, section, h, p, q)
    OBVIOUS
  <1>1. Len(file) \in Nat /\ DOMAIN file = 1..Len(file)
    OBVIOUS
  <1>2. PICK h \in 1..Len(file) : file[h] = Header(section)
    BY DEF Absent
  <1>3. At(file, section, h) /\ file[h].type = "header"
    BY <1>1, <1>2 DEF At, OpenedOnce, Header
  <1>4. CASE NoHeader(file, h + 1, Len(file))
    BY <1>3, <1>4 DEF Ends
  <1>5. CASE ~NoHeader(file, h + 1, Len(file))
    <2> DEFINE T == {i \in (h + 1)..Len(file) : file[i].type = "header"}
    <2>1. T \in SUBSET Nat /\ T # {}
      BY <1>1, <1>5 DEF NoHeader
    <2>2. PICK q \in T : \A n \in T : q <= n
      <3> HIDE DEF T
      <3>1. QED
        BY <2>1, NatMinimum
    <2>3. q \in (h + 1)..Len(file) /\ NoHeader(file, h + 1, q - 1)
      BY <1>1, <2>2 DEF NoHeader
    <2>4. q - 1 \in h..Len(file)
      BY <1>1, <2>3
    <2>5. PICK p \in h..(q - 1) : /\ file[p].type # "filler"
                                  /\ Fillers(file, p + 1, q - 1)
      BY <1>3, <2>4, LastSolid
    <2>6. Followed(file, section, h, p, q)
      BY <1>3, <2>2, <2>3, <2>5 DEF Followed
    <2>7. p \in 1..Len(file) /\ q \in 1..Len(file)
      BY <1>1, <2>3, <2>5
    <2>8. QED
      BY <2>6, <2>7
  <1>6. QED
    BY <1>4, <1>5

-----------------------------------------------------------------------------
(* The loop of updateBrokerListInConfigFile() *)

(* Its state before the section, in it, and after it.                       *)
State(acc) ==
    /\ DOMAIN acc = {"out", "inside", "after", "failed"}
    /\ acc = [f \in DOMAIN acc |-> acc[f]]
Before(acc, out) ==
    /\ State(acc) /\ acc.out = out /\ acc.inside = FALSE
    /\ acc.after = <<>> /\ acc.failed = FALSE
Inside(acc, out, after) ==
    /\ State(acc) /\ acc.out = out /\ acc.inside = TRUE
    /\ acc.after = after /\ acc.failed = FALSE
After(acc, out, after) ==
    /\ State(acc) /\ acc.out = out /\ acc.inside = FALSE
    /\ acc.after = after /\ (acc.failed <=> after = <<>>)

(* One step of it, by where it is and the kind of the line. *)
LEMMA StepBefore ==
  ASSUME NEW section, NEW brokerLines, NEW out, NEW acc, Before(acc, out),
         NEW line, NEW next, next = Replace(acc, line, section, brokerLines)
  PROVE  /\ line = Header(section) => Inside(next, Append(out, line), <<>>)
         /\ line # Header(section) => Before(next, Append(out, line))
  <1>1. ASSUME line = Header(section)
        PROVE  Inside(next, Append(out, line), <<>>)
    <2>1. next = [acc EXCEPT !.out = Append(acc.out, line), !.inside = TRUE]
      BY <1>1 DEF Replace
    <2>2. QED
      BY <2>1 DEF Before, Inside, State
  <1>2. ASSUME line # Header(section)
        PROVE  Before(next, Append(out, line))
    <2>1. next = [acc EXCEPT !.out = Append(acc.out, line)]
      BY <1>2 DEF Replace, Before
    <2>2. QED
      BY <2>1 DEF Before, State
  <1>3. QED
    BY <1>1, <1>2

LEMMA StepInside ==
  ASSUME NEW section, NEW brokerLines, NEW out, NEW after, NEW acc,
         Inside(acc, out, after), NEW line, line # Header(section),
         NEW next, next = Replace(acc, line, section, brokerLines)
  PROVE  /\ line.type = "filler" => Inside(next, out, Append(after, line))
         /\ line.type = "header" =>
              After(next, out \o brokerLines \o after \o <<line>>, after)
         /\ line.type = "entry" => Inside(next, out, <<>>)
  <1>1. ASSUME line.type = "filler"
        PROVE  Inside(next, out, Append(after, line))
    <2>1. next = [acc EXCEPT !.after = Append(acc.after, line)]
      BY <1>1 DEF Replace, Inside
    <2>2. QED
      BY <2>1 DEF Inside, State
  <1>2. ASSUME line.type = "header"
        PROVE  After(next, out \o brokerLines \o after \o <<line>>, after)
    <2> DEFINE all == out \o brokerLines \o after \o <<line>>
    <2>1. next = [acc EXCEPT !.inside = FALSE, !.failed = @ \/ acc.after = <<>>,
                             !.out = all]
      BY <1>2 DEF Replace, Inside
    <2> HIDE DEF all
    <2>2. After(next, all, after)
      BY <2>1 DEF Inside, After, State
    <2>3. QED
      BY <2>2 DEF all
  <1>3. ASSUME line.type = "entry" PROVE Inside(next, out, <<>>)
    <2>1. next = [acc EXCEPT !.after = <<>>]
      BY <1>3 DEF Replace, Inside
    <2>2. QED
      BY <2>1 DEF Inside, State
  <1>4. QED
    BY <1>1, <1>2, <1>3

LEMMA StepAfter ==
  ASSUME NEW section, NEW brokerLines, NEW out, NEW after, NEW acc,
         After(acc, out, after), NEW line, line # Header(section),
         NEW next, next = Replace(acc, line, section, brokerLines)
  PROVE  After(next, Append(out, line), after)
  <1>1. next = [acc EXCEPT !.out = Append(acc.out, line)]
    BY DEF Replace, After
  <1>2. QED
    BY <1>1 DEF After, State

LEMMA Grows ==
  ASSUME NEW S, NEW seq \in Seq(S), NEW a \in 1..(Len(seq) + 1),
         NEW k \in Nat, a - 1 <= k, k < Len(seq)
  PROVE  Append(SubSeq(seq, a, k), seq[k + 1]) = SubSeq(seq, a, k + 1)
  <1> DEFINE t == SubSeq(seq, a, k)
  <1>1. Len(seq) \in Nat /\ k + 1 \in 1..Len(seq) /\ seq[k + 1] \in S
    OBVIOUS
  <1>2. a \in 1..Len(seq) /\ k + 1 \in a..Len(seq) /\ (k + 1) - 1 = k
    BY <1>1
  <1>3. SubSeq(seq, a, k + 1) = SubSeq(seq, a, (k + 1) - 1) \o <<seq[k + 1]>>
    BY <1>2, SubSeqRecursiveSecond
  <1>4. t \in Seq(S)
    BY <1>2
  <1> HIDE DEF t
  <1>5. Append(t, seq[k + 1]) = t \o <<seq[k + 1]>>
    BY <1>1, <1>4, AppendIsConcat
  <1>6. QED
    BY <1>2, <1>3, <1>5 DEF t

(* What the loop goes through. *)
Runs(run, file, brokerLines, section) ==
    IsRun(run, "replace", [section |-> section, brokerLines |-> brokerLines],
          [out |-> <<>>, inside |-> FALSE, after |-> <<>>, failed |-> FALSE],
          file, Len(file))

LEMMA RunStep ==
  ASSUME NEW file \in Seq(Alphabet), NEW brokerLines, NEW section, NEW run,
         Runs(run, file, brokerLines, section)
  PROVE  /\ Before(run[0], <<>>)
         /\ \A k \in 0..(Len(file) - 1) :
              run[k + 1] = Replace(run[k], file[k + 1], section, brokerLines)
  <1> DEFINE arg == [section |-> section, brokerLines |-> brokerLines]
             base == [out |-> <<>>, inside |-> FALSE, after |-> <<>>,
                      failed |-> FALSE]
  <1>1. Len(file) \in Nat
    OBVIOUS
  <1>2. arg.section = section /\ arg.brokerLines = brokerLines
    OBVIOUS
  <1>3. IsRun(run, "replace", arg, base, file, Len(file))
    BY DEF Runs
  <1>0. Before(base, <<>>)
    BY DEF Before, State
  <1> HIDE DEF arg, base
  <1>4. run[0] = base
    BY <1>1, <1>3 DEF IsRun
  <1>5. ASSUME NEW k \in 0..(Len(file) - 1)
        PROVE  run[k + 1] = Replace(run[k], file[k + 1], section, brokerLines)
    <2>1. k + 1 \in 0..Len(file) /\ k + 1 # 0 /\ (k + 1) - 1 = k
      BY <1>1
    <2>2. run[k + 1] = Step("replace", arg, run[k], file[k + 1])
      BY <1>3, <2>1 DEF IsRun
    <2>3. QED
      BY <1>2, <2>2 DEF Step
  <1>6. QED
    BY <1>0, <1>4, <1>5

LEMMA StageBefore ==
  ASSUME NEW file \in Seq(Alphabet), NEW brokerLines, NEW section, NEW run,
         Runs(run, file, brokerLines, section),
         NEW m \in 0..Len(file), \A i \in 1..m : file[i] # Header(section)
  PROVE  \A k \in 0..m : Before(run[k], SubSeq(file, 1, k))
  <1> DEFINE T == {k \in 0..m : Before(run[k], SubSeq(file, 1, k))}
  <1>1. Len(file) \in Nat /\ m \in Nat
    OBVIOUS
  <1>2. /\ Before(run[0], <<>>)
        /\ \A k \in 0..(Len(file) - 1) :
             run[k + 1] = Replace(run[k], file[k + 1], section, brokerLines)
    BY RunStep
  <1>3. 0 \in T
    <2>1. SubSeq(file, 1, 0) = <<>>
      BY SubSeqEmpty
    <2>2. Before(run[0], SubSeq(file, 1, 0))
      BY <1>2, <2>1
    <2>3. QED
      BY <1>1, <2>2
  <1>4. ASSUME NEW k \in Nat, k < m, k \in T PROVE k + 1 \in T
    <2> DEFINE out == SubSeq(file, 1, k)
    <2>1. k + 1 \in 1..m /\ k \in 0..(Len(file) - 1) /\ k < Len(file)
      BY <1>1, <1>4
    <2>2. Before(run[k], out)
      BY <1>4
    <2>3. run[k + 1] = Replace(run[k], file[k + 1], section, brokerLines)
      BY <1>2, <2>1
    <2>4. Append(out, file[k + 1]) = SubSeq(file, 1, k + 1)
      BY <1>1, <2>1, Grows
    <2>5. file[k + 1] # Header(section)
      BY <2>1
    <2> HIDE DEF out
    <2>6. Before(run[k + 1], Append(out, file[k + 1]))
      BY <2>2, <2>3, <2>5, StepBefore
    <2>7. QED
      BY <2>1, <2>4, <2>6
  <1>5. 0..m \subseteq T
    <2> HIDE DEF T
    <2>1. QED
      BY <1>1, <1>3, <1>4, SetInduction
  <1>6. QED
    BY <1>5

LEMMA StageInside ==
  ASSUME NEW file \in Seq(Alphabet), NEW brokerLines, NEW section, NEW run,
         Runs(run, file, brokerLines, section), NEW h, At(file, section, h),
         NEW m \in h..Len(file), NoHeader(file, h + 1, m)
  PROVE  \A k \in h..m : \E p \in h..k :
           /\ file[p].type # "filler" /\ Fillers(file, p + 1, k)
           /\ Inside(run[k], SubSeq(file, 1, h), SubSeq(file, p + 1, k))
  <1> DEFINE Good(k) ==
        \E p \in h..k :
           /\ file[p].type # "filler" /\ Fillers(file, p + 1, k)
           /\ Inside(run[k], SubSeq(file, 1, h), SubSeq(file, p + 1, k))
             T == {j \in 0..(m - h) : Good(h + j)}
             out == SubSeq(file, 1, h)
  <1>1. /\ Len(file) \in Nat /\ h \in 1..Len(file) /\ m \in Nat /\ m - h \in Nat
        /\ file[h] = Header(section) /\ file[h].type = "header"
        /\ \A i \in 1..Len(file) : file[i] = Header(section) => i = h
        /\ \A i \in 1..Len(file) : IsLine(file[i])
    <2>1. \A i \in 1..Len(file) : file[i] \in Alphabet
      OBVIOUS
    <2>2. QED
      BY <2>1, AlphabetIs DEF At, Header
  <1>2. \A k \in 0..(Len(file) - 1) :
           run[k + 1] = Replace(run[k], file[k + 1], section, brokerLines)
    BY RunStep
  <1>3. 0 \in T
    <2> DEFINE before == SubSeq(file, 1, h - 1)
    <2>1. h - 1 \in 0..(Len(file) - 1) /\ (h - 1) + 1 = h /\ h - 1 \in Nat
          /\ h - 1 < Len(file) /\ h - 1 \in 0..Len(file)
      BY <1>1
    <2>2. \A i \in 1..(h - 1) : file[i] # Header(section)
      BY <1>1
    <2>3. \A k \in 0..(h - 1) : Before(run[k], SubSeq(file, 1, k))
      BY <2>1, <2>2, StageBefore
    <2>4. Before(run[h - 1], before)
      BY <2>1, <2>3
    <2>5. run[h] = Replace(run[h - 1], file[h], section, brokerLines)
      BY <1>2, <2>1
    <2>6. Append(before, file[h]) = out
      <3>1. 1 \in 1..(Len(file) + 1)
        BY <1>1
      <3>2. Append(SubSeq(file, 1, h - 1), file[(h - 1) + 1])
              = SubSeq(file, 1, (h - 1) + 1)
        BY <2>1, <3>1, Grows
      <3>3. QED
        BY <2>1, <3>2
    <2> HIDE DEF before
    <2>7. Inside(run[h], Append(before, file[h]), <<>>)
      BY <1>1, <2>4, <2>5, StepBefore
    <2>8. SubSeq(file, h + 1, h) = <<>>
      BY <1>1, SubSeqEmpty
    <2>9. Inside(run[h], SubSeq(file, 1, h), SubSeq(file, h + 1, h))
      BY <2>6, <2>7, <2>8
    <2>10. Fillers(file, h + 1, h)
      BY <1>1 DEF Fillers
    <2>11. Good(h)
      BY <1>1, <2>9, <2>10
    <2>12. h + 0 = h /\ 0 \in 0..(m - h)
      BY <1>1
    <2> HIDE DEF Good
    <2>13. QED
      BY <2>11, <2>12
  <1>4. ASSUME NEW j \in Nat, j < m - h, j \in T PROVE j + 1 \in T
    <2> DEFINE k == h + j
               line == file[k + 1]
    <2>1. /\ k \in h..m /\ k \in 0..(Len(file) - 1) /\ k + 1 \in (h + 1)..m
          /\ k + 1 \in 1..Len(file) /\ k < Len(file) /\ k \in Nat
          /\ h + (j + 1) = k + 1 /\ j + 1 \in 0..(m - h)
      <3>1. j < m - h
        BY <1>4
      <3>2. /\ k \in h..m /\ k + 1 \in (h + 1)..m
            /\ h + (j + 1) = k + 1 /\ j + 1 \in 0..(m - h)
        BY <1>1, <3>1
      <3>3. k \in Nat /\ k < Len(file) /\ k + 1 \in 1..Len(file)
        BY <1>1, <3>2
      <3>4. k \in 0..(Len(file) - 1)
        BY <1>1, <3>3
      <3>5. QED
        BY <3>2, <3>3, <3>4
    <2>2. PICK p \in h..k :
           /\ file[p].type # "filler" /\ Fillers(file, p + 1, k)
           /\ Inside(run[k], SubSeq(file, 1, h), SubSeq(file, p + 1, k))
      BY <1>4
    <2> HIDE DEF k
    <2>3. run[k + 1] = Replace(run[k], line, section, brokerLines)
      BY <1>2, <2>1
    <2>4. line # Header(section) /\ line.type \in {"entry", "filler"}
      BY <1>1, <2>1 DEF IsLine, NoHeader
    <2>5. CASE line.type = "filler"
      <3> DEFINE after == SubSeq(file, p + 1, k)
      <3>1. Append(after, line) = SubSeq(file, p + 1, k + 1)
        <4>1. p + 1 \in 1..(Len(file) + 1) /\ (p + 1) - 1 <= k
          BY <1>1, <2>1
        <4>2. QED
          BY <2>1, <4>1, Grows
      <3> HIDE DEF after, line
      <3>2. Inside(run[k + 1], SubSeq(file, 1, h), Append(after, line))
        BY <2>2, <2>3, <2>4, <2>5, StepInside DEF after
      <3>3. Fillers(file, p + 1, k + 1)
        BY <1>1, <2>1, <2>2, <2>5 DEF Fillers, line
      <3>4. p \in h..(k + 1)
        BY <1>1, <2>1
      <3>5. Good(k + 1)
        BY <2>2, <3>1, <3>2, <3>3, <3>4
      <3> HIDE DEF Good
      <3>6. QED
        BY <2>1, <3>5
    <2>6. CASE line.type = "entry"
      <3> HIDE DEF line
      <3>1. Inside(run[k + 1], SubSeq(file, 1, h), <<>>)
        BY <2>2, <2>3, <2>4, <2>6, StepInside
      <3>2. SubSeq(file, (k + 1) + 1, k + 1) = <<>>
        <4>1. k + 1 \in Int /\ (k + 1) + 1 \in Int /\ k + 1 < (k + 1) + 1
          BY <2>1
        <4>2. QED
          BY <4>1, SubSeqEmpty
      <3>3. Fillers(file, (k + 1) + 1, k + 1) /\ file[k + 1].type # "filler"
        BY <1>1, <2>1, <2>6 DEF Fillers, line
      <3>4. k + 1 \in h..(k + 1)
        BY <1>1, <2>1
      <3>5. Good(k + 1)
        BY <3>1, <3>2, <3>3, <3>4
      <3> HIDE DEF Good
      <3>6. QED
        BY <2>1, <3>5
    <2>7. QED
      BY <2>4, <2>5, <2>6
  <1>5. 0..(m - h) \subseteq T
    <2> HIDE DEF T
    <2>1. QED
      BY <1>1, <1>3, <1>4, SetInduction
  <1>6. ASSUME NEW k \in h..m PROVE Good(k)
    <2>1. k - h \in 0..(m - h) /\ h + (k - h) = k
      BY <1>1
    <2>2. k - h \in T
      BY <1>5, <2>1
    <2> HIDE DEF Good
    <2>3. QED
      BY <2>1, <2>2
  <1>7. QED
    BY <1>6

LEMMA StageAfter ==
  ASSUME NEW file \in Seq(Alphabet), NEW brokerLines \in Seq(Alphabet),
         NEW section, NEW run,
         Runs(run, file, brokerLines, section),
         NEW h, NEW p, NEW q, Followed(file, section, h, p, q)
  PROVE  \A k \in q..Len(file) :
           After(run[k], (SubSeq(file, 1, h) \o brokerLines)
                            \o SubSeq(file, p + 1, k),
                 SubSeq(file, p + 1, q - 1))
  <1> DEFINE first == SubSeq(file, 1, h) \o brokerLines
             after == SubSeq(file, p + 1, q - 1)
             Good(k) == After(run[k], first \o SubSeq(file, p + 1, k), after)
             n == Len(file)
             T == {j \in 0..(n - q) : Good(q + j)}
  <1>1. /\ n \in Nat /\ h \in 1..n /\ q \in (h + 1)..n /\ p \in h..(q - 1)
        /\ file[q].type = "header" /\ At(file, section, h)
        /\ \A i \in 1..n : file[i] = Header(section) => i = h
        /\ file[p].type # "filler" /\ Fillers(file, p + 1, q - 1)
        /\ NoHeader(file, h + 1, q - 1)
    BY DEF Followed, At
  <1>2. \A k \in 0..(n - 1) :
           run[k + 1] = Replace(run[k], file[k + 1], section, brokerLines)
    BY RunStep
  <1>3. first \in Seq(Alphabet)
    <2>1. SubSeq(file, 1, h) \in Seq(Alphabet)
      BY <1>1
    <2>2. QED
      BY <2>1, ConcatProperties
  <1>4. ASSUME NEW k \in p..(n - 1)
        PROVE  /\ SubSeq(file, p + 1, k) \in Seq(Alphabet)
               /\ Append(SubSeq(file, p + 1, k), file[k + 1])
                    = SubSeq(file, p + 1, k + 1)
    <2>1. p + 1 \in 1..(n + 1) /\ k \in Nat /\ (p + 1) - 1 <= k /\ k < n
      BY <1>1
    <2>2. SubSeq(file, p + 1, k) \in Seq(Alphabet)
      BY <1>1
    <2>3. QED
      BY <2>1, <2>2, Grows
  <1> HIDE DEF first
  <1>5. 0 \in T
    <2>1. /\ q - 1 \in h..n /\ q - 1 \in h..(q - 1) /\ q - 1 \in 0..(n - 1)
          /\ (q - 1) + 1 = q /\ q - 1 \in p..(n - 1) /\ q \in 1..n
      BY <1>1
    <2>2. \A k \in h..(q - 1) : \E r \in h..k :
           /\ file[r].type # "filler" /\ Fillers(file, r + 1, k)
           /\ Inside(run[k], SubSeq(file, 1, h), SubSeq(file, r + 1, k))
      BY <1>1, <2>1, StageInside
    <2>3. PICK r \in h..(q - 1) :
           /\ file[r].type # "filler" /\ Fillers(file, r + 1, q - 1)
           /\ Inside(run[q - 1], SubSeq(file, 1, h), SubSeq(file, r + 1, q - 1))
      BY <2>1, <2>2
    <2>4. r = p
      BY <1>1, <2>3 DEF Fillers
    <2>5. file[q] # Header(section)
      BY <1>1, <2>1
    <2>6. run[q] = Replace(run[q - 1], file[q], section, brokerLines)
      BY <1>2, <2>1
    <2>7. After(run[q], SubSeq(file, 1, h) \o brokerLines \o after \o <<file[q]>>,
                after)
      <3>1. Inside(run[q - 1], SubSeq(file, 1, h), after)
        BY <2>3, <2>4
      <3> HIDE DEF after
      <3>2. QED
        BY <1>1, <2>5, <2>6, <3>1, StepInside
    <2>8. first \o after \o <<file[q]>> = first \o SubSeq(file, p + 1, q)
      <3>1. /\ after \in Seq(Alphabet)
            /\ Append(after, file[q]) = SubSeq(file, p + 1, q)
        <4>1. /\ SubSeq(file, p + 1, q - 1) \in Seq(Alphabet)
              /\ Append(SubSeq(file, p + 1, q - 1), file[(q - 1) + 1])
                   = SubSeq(file, p + 1, (q - 1) + 1)
          BY <1>4, <2>1
        <4>2. QED
          BY <2>1, <4>1
      <3>2. file[q] \in Alphabet /\ <<file[q]>> \in Seq(Alphabet)
        BY <2>1
      <3> HIDE DEF after
      <3>3. Append(after, file[q]) = after \o <<file[q]>>
        BY <3>1, <3>2, AppendIsConcat
      <3>4. (first \o after) \o <<file[q]>> = first \o (after \o <<file[q]>>)
        <4> DEFINE last == <<file[q]>>
        <4>1. last \in Seq(Alphabet) /\ after \in Seq(Alphabet)
          BY <3>1, <3>2
        <4> HIDE DEF last
        <4>2. (first \o after) \o last = first \o (after \o last)
          BY <1>3, <4>1, ConcatAssociative
        <4>3. QED
          BY <4>2 DEF last
      <3>5. QED
        BY <3>1, <3>3, <3>4
    <2>9. Good(q)
      BY <2>7, <2>8 DEF first
    <2>10. q + 0 = q /\ 0 \in 0..(n - q)
      BY <1>1
    <2> HIDE DEF Good
    <2>11. QED
      BY <2>9, <2>10
  <1>6. ASSUME NEW j \in Nat, j < n - q, j \in T PROVE j + 1 \in T
    <2> DEFINE k == q + j
               line == file[k + 1]
               rest == SubSeq(file, p + 1, k)
    <2>1. /\ k \in q..n /\ k \in p..(n - 1) /\ k \in 0..(n - 1) /\ k + 1 \in 1..n
          /\ q + (j + 1) = k + 1 /\ j + 1 \in 0..(n - q) /\ k + 1 # h
      BY <1>1, <1>6
    <2>2. After(run[k], first \o rest, after)
      BY <1>6
    <2> HIDE DEF k
    <2>3. run[k + 1] = Replace(run[k], line, section, brokerLines)
      BY <1>2, <2>1
    <2>4. line # Header(section) /\ line \in Alphabet
      BY <1>1, <2>1
    <2>5. rest \in Seq(Alphabet) /\ Append(rest, line) = SubSeq(file, p + 1, k + 1)
      BY <1>4, <2>1
    <2>6. After(run[k + 1], Append(first \o rest, line), after)
      <3> HIDE DEF rest, line, after
      <3>1. QED
        BY <2>2, <2>3, <2>4, StepAfter
    <2>7. Append(first \o rest, line) = first \o Append(rest, line)
      <3> HIDE DEF rest, line
      <3>1. first \o rest \in Seq(Alphabet)
        BY <1>3, <2>5, ConcatProperties
      <3>2. /\ Append(first \o rest, line) = (first \o rest) \o <<line>>
            /\ Append(rest, line) = rest \o <<line>>
        BY <2>4, <2>5, <3>1, AppendIsConcat
      <3>3. (first \o rest) \o <<line>> = first \o (rest \o <<line>>)
        <4>1. <<line>> \in Seq(Alphabet)
          BY <2>4
        <4>2. QED
          BY <1>3, <2>5, <4>1, ConcatAssociative
      <3>4. QED
        BY <3>2, <3>3
    <2>8. Good(k + 1)
      BY <2>5, <2>6, <2>7
    <2> HIDE DEF Good
    <2>9. QED
      BY <2>1, <2>8
  <1>7. 0..(n - q) \subseteq T
    <2>1. n - q \in Nat
      BY <1>1
    <2> HIDE DEF T
    <2>2. QED
      BY <1>5, <1>6, <2>1, SetInduction
  <1>8. ASSUME NEW k \in q..n PROVE Good(k)
    <2>1. k - q \in 0..(n - q) /\ q + (k - q) = k
      BY <1>1
    <2>2. k - q \in T
      BY <1>7, <2>1
    <2> HIDE DEF Good
    <2>3. QED
      BY <2>1, <2>2
  <1>9. QED
    BY <1>8 DEF first

(* The files with the new brokers, where the section is the last one and    *)
(* where another follows.                                                   *)
WithLast(file, brokerLines, h) ==
    SubSeq(file, 1, h) \o brokerLines \o <<Blank>>
With(file, brokerLines, h, p) ==
    (SubSeq(file, 1, h) \o brokerLines) \o SubSeq(file, p + 1, Len(file))

(* What updateBrokerListInConfigFile() returns for the three layouts. *)
LEMMA UpdateIs ==
  ASSUME NEW file \in Seq(Alphabet), NEW brokerLines, NEW section
  PROVE  \E run : /\ Runs(run, file, brokerLines, section)
                  /\ UpdateBrokerList(file, brokerLines, section)
                       = LET end == run[Len(file)]
                         IN  IF end.failed THEN Failed
                             ELSE IF end.inside
                               THEN end.out \o brokerLines \o <<Blank>>
                             ELSE end.out
  <1> DEFINE base == [out |-> <<>>, inside |-> FALSE, after |-> <<>>,
                      failed |-> FALSE]
             N == Len(file)
  <1>1. N \in Nat /\ DOMAIN file = 1..N
    OBVIOUS
  <1> HIDE DEF base, N
  <1>2. PICK run :
          /\ IsRun(run, "replace", [section |-> section, brokerLines |-> brokerLines],
                   base, file, N)
          /\ Replaced(section, brokerLines, base, file) = run[N]
    BY <1>1, ReplaceFold
  <1>3. Runs(run, file, brokerLines, section)
    BY <1>2 DEF Runs, base, N
  <1>4. UpdateBrokerList(file, brokerLines, section)
          = LET end == run[N]
            IN  IF end.failed THEN Failed
                ELSE IF end.inside THEN end.out \o brokerLines \o <<Blank>>
                ELSE end.out
    BY <1>2 DEF UpdateBrokerList, Replaced, base
  <1>5. QED
    BY <1>3, <1>4 DEF N

LEMMA UpdateAbsent ==
  ASSUME NEW file \in Seq(Alphabet), NEW brokerLines, NEW section,
         Absent(file, section)
  PROVE  UpdateBrokerList(file, brokerLines, section) = file
  <1> DEFINE n == Len(file)
             updated == UpdateBrokerList(file, brokerLines, section)
  <1>1. n \in Nat /\ n \in 0..n /\ \A i \in 1..n : file[i] # Header(section)
    BY DEF Absent
  <1>2. PICK run : /\ Runs(run, file, brokerLines, section)
                   /\ updated
                       = LET end == run[n]
                         IN  IF end.failed THEN Failed
                             ELSE IF end.inside
                               THEN end.out \o brokerLines \o <<Blank>>
                             ELSE end.out
    BY UpdateIs
  <1> HIDE DEF updated
  <1>3. \A k \in 0..n : Before(run[k], SubSeq(file, 1, k))
    BY <1>1, <1>2, StageBefore
  <1>4. Before(run[n], SubSeq(file, 1, n))
    BY <1>1, <1>3
  <1>5. SubSeq(file, 1, n) = file
    BY SubSeqFull
  <1>6. QED
    BY <1>2, <1>4, <1>5 DEF Before, updated

LEMMA UpdateLast ==
  ASSUME NEW file \in Seq(Alphabet), NEW brokerLines, NEW section,
         NEW h, Ends(file, section, h)
  PROVE  UpdateBrokerList(file, brokerLines, section)
           = WithLast(file, brokerLines, h)
  <1> DEFINE n == Len(file)
             updated == UpdateBrokerList(file, brokerLines, section)
  <1>1. /\ n \in Nat /\ n \in h..n /\ NoHeader(file, h + 1, n)
        /\ At(file, section, h)
    BY DEF Ends, At
  <1>2. PICK run : /\ Runs(run, file, brokerLines, section)
                   /\ updated
                       = LET end == run[n]
                         IN  IF end.failed THEN Failed
                             ELSE IF end.inside
                               THEN end.out \o brokerLines \o <<Blank>>
                             ELSE end.out
    BY UpdateIs
  <1> HIDE DEF updated
  <1>3. \A k \in h..n : \E p \in h..k :
           /\ file[p].type # "filler" /\ Fillers(file, p + 1, k)
           /\ Inside(run[k], SubSeq(file, 1, h), SubSeq(file, p + 1, k))
    BY <1>1, <1>2, StageInside
  <1>4. PICK p : Inside(run[n], SubSeq(file, 1, h), SubSeq(file, p + 1, n))
    BY <1>1, <1>3
  <1>5. QED
    BY <1>2, <1>4 DEF Inside, updated, WithLast

LEMMA UpdateBetween ==
  ASSUME NEW file \in Seq(Alphabet), NEW brokerLines \in Seq(Alphabet),
         NEW section, NEW h, NEW p, NEW q, Followed(file, section, h, p, q)
  PROVE  UpdateBrokerList(file, brokerLines, section)
           = IF p + 1 = q THEN Failed ELSE With(file, brokerLines, h, p)
  <1> DEFINE n == Len(file)
             updated == UpdateBrokerList(file, brokerLines, section)
             out == (SubSeq(file, 1, h) \o brokerLines) \o SubSeq(file, p + 1, n)
             after == SubSeq(file, p + 1, q - 1)
  <1>1. n \in Nat /\ q \in 1..n /\ p \in 1..(q - 1) /\ n \in q..n
    BY DEF Followed, At
  <1>2. PICK run : /\ Runs(run, file, brokerLines, section)
                   /\ updated
                       = LET end == run[n]
                         IN  IF end.failed THEN Failed
                             ELSE IF end.inside
                               THEN end.out \o brokerLines \o <<Blank>>
                             ELSE end.out
    BY UpdateIs
  <1> HIDE DEF updated
  <1>3. \A k \in q..n :
           After(run[k], (SubSeq(file, 1, h) \o brokerLines)
                            \o SubSeq(file, p + 1, k),
                 SubSeq(file, p + 1, q - 1))
    BY <1>2, StageAfter
  <1>4. After(run[n], out, after)
    BY <1>1, <1>3
  <1>5. after = <<>> <=> p + 1 = q
    <2>1. Len(after) = q - 1 - p
      BY <1>1
    <2>2. CASE p + 1 = q
      <3>1. q - 1 < p + 1
        BY <1>1, <2>2
      <3>2. QED
        BY <1>1, <2>2, <3>1, SubSeqEmpty
    <2>3. CASE p + 1 # q
      <3>1. Len(after) # 0
        BY <1>1, <2>1, <2>3
      <3> HIDE DEF after
      <3>2. after # <<>>
        BY <3>1
      <3>3. QED
        BY <2>3, <3>2
    <2>4. QED
      BY <2>2, <2>3
  <1> HIDE DEF out, after
  <1>6. QED
    BY <1>2, <1>4, <1>5 DEF After, updated, out, With

-----------------------------------------------------------------------------
(* What the properties say of the three layouts *)

LEMMA FlattenIs ==
  ASSUME NEW N \in Nat, N # 0, NEW seqs, Len(seqs) = N,
         NEW flat, flat[1] = seqs[1],
         \A i \in 1..(N - 1) : flat[i + 1] = flat[i] \o seqs[i + 1]
  PROVE  FlattenSeq(seqs) = flat[N]
  <1> DEFINE P(f) == f = [i \in 1..Len(seqs) |->
                            IF i = 1 THEN seqs[i] ELSE f[i - 1] \o seqs[i]]
             flatten == CHOOSE f : P(f)
             own == [i \in 1..N |-> flat[i]]
  <1>1. P(own)
    <2> DEFINE g == [i \in 1..N |->
                       IF i = 1 THEN seqs[i] ELSE own[i - 1] \o seqs[i]]
    <2>1. ASSUME NEW i \in 1..N PROVE own[i] = g[i]
      <3>1. CASE i = 1
        BY <3>1
      <3>2. CASE i # 1
        <4>1. i - 1 \in 1..(N - 1) /\ (i - 1) + 1 = i /\ i - 1 \in 1..N
          BY <3>2
        <4>2. flat[(i - 1) + 1] = flat[i - 1] \o seqs[(i - 1) + 1]
          BY <4>1
        <4>3. QED
          BY <3>2, <4>1, <4>2
      <3>3. QED
        BY <3>1, <3>2
    <2>2. own = g
      BY <2>1
    <2>3. QED
      <3> HIDE DEF own
      <3>1. QED
        BY <2>2
  <1>2. P(flatten)
    <2>1. \E f : P(f)
      <3> HIDE DEF P
      <3>1. QED
        BY <1>1
    <2> HIDE DEF P
    <2>2. QED
      BY <2>1
  <1>3. FlattenSeq(seqs) = flatten[N]
    BY DEF FlattenSeq
  <1> HIDE DEF flatten, own
  <1>4. flatten[1] = seqs[1]
    BY <1>2
  <1>5. \A i \in 1..(N - 1) : flatten[i + 1] = flatten[i] \o seqs[i + 1]
    <2> TAKE i \in 1..(N - 1)
    <2>1. i + 1 \in 1..N /\ i + 1 # 1 /\ (i + 1) - 1 = i
      OBVIOUS
    <2>2. QED
      BY <1>2, <2>1
  <1> DEFINE T == {i \in 0..N : i > 0 => flatten[i] = flat[i]}
  <1>6. 0 \in T
    OBVIOUS
  <1>7. ASSUME NEW i \in Nat, i < N, i \in T PROVE i + 1 \in T
    <2>1. i + 1 \in 1..N
      BY <1>7
    <2>2. CASE i = 0
      BY <1>4, <2>1, <2>2
    <2>3. CASE i # 0
      <3>1. i \in 1..(N - 1) /\ flatten[i] = flat[i]
        BY <1>7, <2>3
      <3>2. flatten[i + 1] = flat[i + 1]
        BY <1>5, <3>1
      <3>3. QED
        BY <2>1, <3>2
    <2>4. QED
      BY <2>2, <2>3
  <1>8. 0..N \subseteq T
    <2> HIDE DEF T
    <2>1. QED
      BY <1>6, <1>7, SetInduction
  <1>9. N \in T
    BY <1>8
  <1>10. QED
    BY <1>3, <1>9

(* The pieces Expected puts together. *)
Piece(file, brokerLines, section, i) ==
    IF file[i] = Header(section) THEN <<file[i]>> \o brokerLines
    ELSE IF Owned(file, i, section) /\ ~KeptFiller(file, i) THEN <<>>
    ELSE <<file[i]>>

LEMMA ExpectedIs ==
  ASSUME NEW file \in Seq(Alphabet), Len(file) # 0, NEW brokerLines, NEW section,
         NEW flat, flat[1] = Piece(file, brokerLines, section, 1),
         \A i \in 1..(Len(file) - 1) :
           flat[i + 1] = flat[i] \o Piece(file, brokerLines, section, i + 1)
  PROVE  Expected(file, brokerLines, section) = flat[Len(file)]
  <1> DEFINE N == Len(file)
             seqs == [i \in 1..N |-> Piece(file, brokerLines, section, i)]
  <1>1. N \in Nat /\ N # 0 /\ DOMAIN file = 1..N /\ Len(seqs) = N
    OBVIOUS
  <1>2. \A i \in 1..N : seqs[i] = Piece(file, brokerLines, section, i)
    OBVIOUS
  <1>3. Expected(file, brokerLines, section) = FlattenSeq(seqs)
    BY <1>1 DEF Expected, Piece
  <1> HIDE DEF seqs
  <1>4. flat[1] = seqs[1]
    BY <1>1, <1>2
  <1>5. \A i \in 1..(N - 1) : flat[i + 1] = flat[i] \o seqs[i + 1]
    <2> TAKE i \in 1..(N - 1)
    <2>1. i + 1 \in 1..N
      BY <1>1
    <2>2. QED
      BY <1>2, <2>1
  <1>6. FlattenSeq(seqs) = flat[N]
    <2> HIDE DEF N
    <2>1. QED
      BY <1>1, <1>4, <1>5, FlattenIs
  <1>7. QED
    BY <1>3, <1>6

LEMMA PieceUnowned ==
  ASSUME NEW file \in Seq(Alphabet), NEW brokerLines, NEW section,
         NEW i \in 1..Len(file), file[i] # Header(section),
         \A h \in 1..Len(file) : file[h] = Header(section) => ~(h < i)
  PROVE  Piece(file, brokerLines, section, i) = <<file[i]>>
  <1>1. ~Owned(file, i, section)
    BY DEF Owned, Headers
  <1>2. QED
    BY <1>1 DEF Piece

LEMMA PieceOfHeader ==
  ASSUME NEW file \in Seq(Alphabet), NEW brokerLines, NEW section,
         NEW h, At(file, section, h)
  PROVE  Piece(file, brokerLines, section, h) = <<file[h]>> \o brokerLines
  BY DEF Piece, At

LEMMA PieceOfLast ==
  ASSUME NEW file \in Seq(Alphabet), NEW brokerLines, NEW section,
         NEW h, Ends(file, section, h), NEW i \in (h + 1)..Len(file)
  PROVE  Piece(file, brokerLines, section, i) = <<>>
  <1>1. /\ h \in 1..Len(file) /\ Len(file) \in Nat /\ DOMAIN file = 1..Len(file)
        /\ file[h] = Header(section) /\ NoHeader(file, h + 1, Len(file))
        /\ file[i] # Header(section)
    BY DEF Ends, At
  <1>2. h \in Headers(file) /\ h < i
    BY <1>1 DEF Headers, Header
  <1>3. (h + 1)..i \cap Headers(file) = {}
    BY <1>1 DEF Headers, NoHeader
  <1>4. Owned(file, i, section)
    BY <1>1, <1>2, <1>3 DEF Owned
  <1>5. ~KeptFiller(file, i)
    BY <1>1 DEF KeptFiller, Headers, NoHeader
  <1>6. QED
    BY <1>1, <1>4, <1>5 DEF Piece

LEMMA PieceBetween ==
  ASSUME NEW file \in Seq(Alphabet), NEW brokerLines, NEW section,
         NEW h, NEW p, NEW q, Followed(file, section, h, p, q),
         NEW i \in (h + 1)..Len(file)
  PROVE  Piece(file, brokerLines, section, i)
           = IF i <= p THEN <<>> ELSE <<file[i]>>
  <1>1. /\ h \in 1..Len(file) /\ Len(file) \in Nat /\ DOMAIN file = 1..Len(file)
        /\ file[h] = Header(section) /\ file[i] # Header(section)
        /\ \A j \in 1..Len(file) : file[j] = Header(section) => j = h
        /\ q \in (h + 1)..Len(file) /\ file[q].type = "header"
        /\ NoHeader(file, h + 1, q - 1)
        /\ p \in h..(q - 1) /\ file[p].type # "filler"
        /\ Fillers(file, p + 1, q - 1)
    BY DEF Followed, At
  <1>2. h \in Headers(file) /\ q \in Headers(file) /\ h < i
    BY <1>1 DEF Headers, Header
  <1>3. CASE i <= p
    <2>1. (h + 1)..i \cap Headers(file) = {}
      BY <1>1, <1>3 DEF Headers, NoHeader
    <2>2. Owned(file, i, section)
      BY <1>1, <1>2, <2>1 DEF Owned
    <2>3. ASSUME NEW k \in Headers(file), i < k,
                 \A j \in i..(k - 1) : file[j].type = "filler"
          PROVE  FALSE
      <3>1. k >= q
        BY <1>1, <1>2, <2>3 DEF Headers, NoHeader
      <3>2. p \in i..(k - 1)
        BY <1>1, <1>3, <3>1 DEF Headers
      <3>3. QED
        BY <1>1, <2>3, <3>2
    <2>4. ~KeptFiller(file, i)
      BY <2>3 DEF KeptFiller
    <2>5. QED
      BY <1>1, <1>3, <2>2, <2>4 DEF Piece
  <1>4. CASE i > p /\ i < q
    <2>1. \A j \in i..(q - 1) : file[j].type = "filler"
      BY <1>1, <1>4 DEF Fillers
    <2>2. KeptFiller(file, i)
      BY <1>2, <1>4, <2>1 DEF KeptFiller
    <2>3. ~(i <= p)
      BY <1>1, <1>4
    <2>4. QED
      BY <1>1, <2>2, <2>3 DEF Piece
  <1>5. CASE i >= q
    <2>1. q \in (h + 1)..i
      BY <1>1, <1>5
    <2>2. ~Owned(file, i, section)
      <3>1. ASSUME NEW k \in Headers(file), file[k] = Header(section)
            PROVE  k = h
        BY <1>1, <3>1 DEF Headers
      <3>2. QED
        BY <1>2, <2>1, <3>1 DEF Owned
    <2>3. ~(i <= p)
      BY <1>1, <1>5
    <2>4. QED
      BY <1>1, <2>2, <2>3 DEF Piece
  <1>6. QED
    BY <1>1, <1>3, <1>4, <1>5

LEMMA GrowsByOne ==
  ASSUME NEW S, NEW seq \in Seq(S), NEW pre \in Seq(S),
         NEW a \in 1..(Len(seq) + 1), NEW k \in Nat, a - 1 <= k, k < Len(seq)
  PROVE  (pre \o SubSeq(seq, a, k)) \o <<seq[k + 1]>>
           = pre \o SubSeq(seq, a, k + 1)
  <1>1. Len(seq) \in Nat /\ k + 1 \in 1..Len(seq) /\ seq[k + 1] \in S
    OBVIOUS
  <1>2. a \in 1..Len(seq) /\ k + 1 \in a..Len(seq) /\ (k + 1) - 1 = k
    BY <1>1
  <1>3. SubSeq(seq, a, k + 1) = SubSeq(seq, a, (k + 1) - 1) \o <<seq[k + 1]>>
    BY <1>2, SubSeqRecursiveSecond
  <1> DEFINE t == SubSeq(seq, a, k)
             last == <<seq[k + 1]>>
  <1>4. t \in Seq(S) /\ last \in Seq(S)
    BY <1>1, <1>2
  <1> HIDE DEF t, last
  <1>5. (pre \o t) \o last = pre \o (t \o last)
    BY <1>4, ConcatAssociative
  <1>6. QED
    BY <1>2, <1>3, <1>5 DEF t, last

LEMMA GrowsAlone ==
  ASSUME NEW S, NEW seq \in Seq(S), NEW k \in Nat, k < Len(seq)
  PROVE  SubSeq(seq, 1, k) \o <<seq[k + 1]>> = SubSeq(seq, 1, k + 1)
  <1>1. Len(seq) \in Nat /\ k + 1 \in 1..Len(seq) /\ (k + 1) - 1 = k
    OBVIOUS
  <1>2. SubSeq(seq, 1, k + 1) = SubSeq(seq, 1, (k + 1) - 1) \o <<seq[k + 1]>>
    BY <1>1, SubSeqRecursiveSecond
  <1>3. QED
    BY <1>1, <1>2

LEMMA OneLine ==
  ASSUME NEW S, NEW seq \in Seq(S), Len(seq) # 0
  PROVE  SubSeq(seq, 1, 1) = <<seq[1]>>
  <1>1. Len(seq) \in Nat /\ 1 \in 1..Len(seq) /\ 1 \in 1..Len(seq)
    OBVIOUS
  <1>2. SubSeq(seq, 1, 1) \in Seq(S) /\ Len(SubSeq(seq, 1, 1)) = 1
        /\ SubSeq(seq, 1, 1)[1] = seq[1]
    BY <1>1
  <1> DEFINE one == SubSeq(seq, 1, 1)
             line == <<seq[1]>>
  <1>3. line \in Seq(S) /\ Len(line) = 1 /\ line[1] = seq[1]
    BY <1>1
  <1>4. \A i \in 1..Len(one) : one[i] = line[i]
    BY <1>2, <1>3
  <1> HIDE DEF one, line
  <1>5. one = line
    BY <1>2, <1>3, <1>4, SeqEqual DEF one
  <1>6. QED
    BY <1>5 DEF one, line

LEMMA ExpectedAbsent ==
  ASSUME NEW file \in Seq(Alphabet), NEW brokerLines, NEW section,
         Absent(file, section), Len(file) # 0
  PROVE  Expected(file, brokerLines, section) = file
  <1> DEFINE n == Len(file)
             flat == [i \in 1..n |-> SubSeq(file, 1, i)]
  <1>1. n \in Nat /\ n \in 1..n /\ 1 \in 1..n
    OBVIOUS
  <1>2. \A i \in 1..n : Piece(file, brokerLines, section, i) = <<file[i]>>
    BY PieceUnowned DEF Absent
  <1>3. flat[1] = Piece(file, brokerLines, section, 1)
    BY <1>1, <1>2, OneLine
  <1>4. \A i \in 1..(n - 1) :
          flat[i + 1] = flat[i] \o Piece(file, brokerLines, section, i + 1)
    <2> TAKE i \in 1..(n - 1)
    <2>1. i \in Nat /\ i < n /\ i + 1 \in 1..n /\ i \in 1..n
      BY <1>1
    <2>2. SubSeq(file, 1, i) \o <<file[i + 1]>> = SubSeq(file, 1, i + 1)
      BY <2>1, GrowsAlone
    <2>3. QED
      BY <1>2, <2>1, <2>2
  <1>5. flat[n] = file
    BY <1>1, SubSeqFull
  <1> HIDE DEF flat
  <1>6. Expected(file, brokerLines, section) = flat[n]
    BY <1>3, <1>4, ExpectedIs
  <1>7. QED
    BY <1>5, <1>6

LEMMA ExpectedLast ==
  ASSUME NEW file \in Seq(Alphabet), NEW brokerLines \in Seq(Alphabet),
         NEW section, NEW h, Ends(file, section, h)
  PROVE  Expected(file, brokerLines, section) = SubSeq(file, 1, h) \o brokerLines
  <1> DEFINE n == Len(file)
             all == SubSeq(file, 1, h) \o brokerLines
             flat == [i \in 1..n |-> IF i < h THEN SubSeq(file, 1, i) ELSE all]
             piece(i) == Piece(file, brokerLines, section, i)
  <1>1. /\ n \in Nat /\ h \in 1..n /\ file[h] = Header(section)
        /\ \A i \in 1..n : file[i] = Header(section) => i = h
        /\ n \in 1..n /\ 1 \in 1..n /\ n # 0
    BY DEF Ends, At
  <1>2. \A i \in 1..n : i < h => piece(i) = <<file[i]>>
    BY <1>1, PieceUnowned
  <1>3. piece(h) = <<file[h]>> \o brokerLines
    BY PieceOfHeader DEF Ends
  <1>4. \A i \in 1..n : i > h => piece(i) = <<>>
    <2> SUFFICES ASSUME NEW i \in 1..n, i > h PROVE piece(i) = <<>>
      OBVIOUS
    <2>1. i \in (h + 1)..n
      BY <1>1
    <2>2. QED
      BY <2>1, PieceOfLast
  <1>5. all \in Seq(Alphabet) /\ all \o <<>> = all
    <2>1. SubSeq(file, 1, h) \in Seq(Alphabet)
      BY <1>1
    <2>2. all \in Seq(Alphabet)
      BY <2>1, ConcatProperties
    <2>3. QED
      BY <2>2, ConcatEmptySeq
  <1>6. flat[1] = piece(1)
    <2>1. CASE h = 1
      BY <1>1, <1>3, <2>1, OneLine
    <2>2. CASE h # 1
      BY <1>1, <1>2, <2>2, OneLine
    <2>3. QED
      BY <2>1, <2>2
  <1> HIDE DEF piece, all
  <1>7. \A i \in 1..(n - 1) : flat[i + 1] = flat[i] \o piece(i + 1)
    <2> TAKE i \in 1..(n - 1)
    <2>1. i \in Nat /\ i < n /\ i + 1 \in 1..n /\ i \in 1..n
      BY <1>1
    <2>2. SubSeq(file, 1, i) \o <<file[i + 1]>> = SubSeq(file, 1, i + 1)
      BY <2>1, GrowsAlone
    <2>3. CASE i + 1 < h
      <3>1. /\ flat[i] = SubSeq(file, 1, i)
            /\ flat[i + 1] = SubSeq(file, 1, i + 1)
        BY <1>1, <2>1, <2>3
      <3>2. piece(i + 1) = <<file[i + 1]>>
        BY <1>2, <2>1, <2>3
      <3>3. QED
        BY <2>2, <3>1, <3>2
    <2>4. CASE i + 1 = h
      <3>1. flat[i] = SubSeq(file, 1, i) /\ flat[i + 1] = all
        BY <1>1, <2>1, <2>4
      <3>2. SubSeq(file, 1, i) \in Seq(Alphabet) /\ <<file[h]>> \in Seq(Alphabet)
        BY <1>1, <2>1
      <3>3. SubSeq(file, 1, i) \o (<<file[h]>> \o brokerLines)
              = (SubSeq(file, 1, i) \o <<file[h]>>) \o brokerLines
        BY <3>2, ConcatAssociative
      <3>4. QED
        BY <1>3, <2>2, <2>4, <3>1, <3>3 DEF all
    <2>5. CASE i + 1 > h
      <3>1. flat[i] = all /\ flat[i + 1] = all /\ piece(i + 1) = <<>>
        BY <1>1, <1>4, <2>1, <2>5
      <3>2. QED
        BY <1>5, <3>1
    <2>6. i + 1 < h \/ i + 1 = h \/ i + 1 > h
      BY <1>1
    <2> HIDE DEF flat
    <2>7. QED
      BY <2>3, <2>4, <2>5, <2>6
  <1>8. flat[n] = all
    BY <1>1
  <1> HIDE DEF flat
  <1>9. QED
    BY <1>1, <1>6, <1>7, <1>8, ExpectedIs DEF all, piece

LEMMA ExpectedBetween ==
  ASSUME NEW file \in Seq(Alphabet), NEW brokerLines \in Seq(Alphabet),
         NEW section, NEW h, NEW p, NEW q, Followed(file, section, h, p, q)
  PROVE  /\ Expected(file, brokerLines, section) = With(file, brokerLines, h, p)
         /\ With(file, brokerLines, h, p) \in Seq(Alphabet)
  <1> DEFINE n == Len(file)
             all == SubSeq(file, 1, h) \o brokerLines
             flat == [i \in 1..n |->
                        IF i < h THEN SubSeq(file, 1, i)
                        ELSE IF i <= p THEN all
                        ELSE all \o SubSeq(file, p + 1, i)]
             piece(i) == Piece(file, brokerLines, section, i)
  <1>1. /\ n \in Nat /\ h \in 1..n /\ file[h] = Header(section)
        /\ \A i \in 1..n : file[i] = Header(section) => i = h
        /\ n \in 1..n /\ 1 \in 1..n /\ n # 0
        /\ p \in h..(n - 1) /\ n > p
    BY DEF Followed, At
  <1>2. \A i \in 1..n : i < h => piece(i) = <<file[i]>>
    BY <1>1, PieceUnowned
  <1>3. piece(h) = <<file[h]>> \o brokerLines
    BY PieceOfHeader DEF Followed
  <1>4. \A i \in 1..n : i > h => piece(i) = IF i <= p THEN <<>> ELSE <<file[i]>>
    <2> SUFFICES ASSUME NEW i \in 1..n, i > h
                 PROVE  piece(i) = IF i <= p THEN <<>> ELSE <<file[i]>>
      OBVIOUS
    <2>1. i \in (h + 1)..n
      BY <1>1
    <2>2. QED
      BY <2>1, PieceBetween
  <1>5. all \in Seq(Alphabet) /\ all \o <<>> = all
    <2>1. SubSeq(file, 1, h) \in Seq(Alphabet)
      BY <1>1
    <2>2. all \in Seq(Alphabet)
      BY <2>1, ConcatProperties
    <2>3. QED
      BY <2>2, ConcatEmptySeq
  <1>6. flat[1] = piece(1)
    <2>1. CASE h = 1
      BY <1>1, <1>3, <2>1, OneLine
    <2>2. CASE h # 1
      BY <1>1, <1>2, <2>2, OneLine
    <2>3. QED
      BY <2>1, <2>2
  <1> HIDE DEF piece, all
  <1>7. \A i \in 1..(n - 1) : flat[i + 1] = flat[i] \o piece(i + 1)
    <2> TAKE i \in 1..(n - 1)
    <2>1. i \in Nat /\ i < n /\ i + 1 \in 1..n /\ i \in 1..n
      BY <1>1
    <2>2. SubSeq(file, 1, i) \o <<file[i + 1]>> = SubSeq(file, 1, i + 1)
      BY <2>1, GrowsAlone
    <2>3. CASE i + 1 < h
      <3>1. /\ flat[i] = SubSeq(file, 1, i)
            /\ flat[i + 1] = SubSeq(file, 1, i + 1)
        BY <1>1, <2>1, <2>3
      <3>2. piece(i + 1) = <<file[i + 1]>>
        BY <1>2, <2>1, <2>3
      <3>3. QED
        BY <2>2, <3>1, <3>2
    <2>4. CASE i + 1 = h
      <3>1. flat[i] = SubSeq(file, 1, i) /\ flat[i + 1] = all
        BY <1>1, <2>1, <2>4
      <3>2. SubSeq(file, 1, i) \in Seq(Alphabet) /\ <<file[h]>> \in Seq(Alphabet)
        BY <1>1, <2>1
      <3>3. SubSeq(file, 1, i) \o (<<file[h]>> \o brokerLines)
              = (SubSeq(file, 1, i) \o <<file[h]>>) \o brokerLines
        BY <3>2, ConcatAssociative
      <3>4. QED
        BY <1>3, <2>2, <2>4, <3>1, <3>3 DEF all
    <2>5. CASE i + 1 > h /\ i + 1 <= p
      <3>1. flat[i] = all /\ flat[i + 1] = all /\ piece(i + 1) = <<>>
        BY <1>1, <1>4, <2>1, <2>5
      <3>2. QED
        BY <1>5, <3>1
    <2>6. CASE i + 1 > h /\ i + 1 > p
      <3>1. piece(i + 1) = <<file[i + 1]>>
        BY <1>1, <1>4, <2>1, <2>6
      <3>2. flat[i + 1] = all \o SubSeq(file, p + 1, i + 1)
        BY <1>1, <2>1, <2>6
      <3>3. /\ p + 1 \in 1..(n + 1) /\ (p + 1) - 1 <= i /\ p \in Nat
            /\ ~(i < h) /\ i >= p
        BY <1>1, <2>1, <2>6
      <3>4. flat[i] = all \o SubSeq(file, p + 1, i)
        <4>1. CASE i = p
          <5>1. SubSeq(file, p + 1, i) = <<>>
            BY <3>3, <4>1, SubSeqEmpty
          <5>2. QED
            BY <1>5, <2>1, <3>3, <4>1, <5>1
        <4>2. CASE i # p
          BY <2>1, <3>3, <4>2
        <4>3. QED
          BY <4>1, <4>2
      <3>5. (all \o SubSeq(file, p + 1, i)) \o <<file[i + 1]>>
              = all \o SubSeq(file, p + 1, i + 1)
        <4> HIDE DEF n
        <4>1. i < Len(file) /\ p + 1 \in 1..(Len(file) + 1)
          BY <2>1, <3>3 DEF n
        <4>2. QED
          BY <1>5, <2>1, <3>3, <4>1, GrowsByOne
      <3>6. QED
        BY <3>1, <3>2, <3>4, <3>5
    <2>7. /\ i + 1 < h \/ i + 1 = h \/ i + 1 > h
          /\ i + 1 <= p \/ i + 1 > p
      BY <1>1
    <2> HIDE DEF flat
    <2>8. QED
      BY <2>3, <2>4, <2>5, <2>6, <2>7
  <1>8. flat[n] = all \o SubSeq(file, p + 1, n)
    <2>1. ~(n < h) /\ ~(n <= p)
      BY <1>1
    <2>2. n \in 1..n
      BY <1>1
    <2> HIDE DEF n
    <2>3. flat[n] = IF n < h THEN SubSeq(file, 1, n)
                    ELSE IF n <= p THEN all
                    ELSE all \o SubSeq(file, p + 1, n)
      BY <2>2, Zenon
    <2>4. QED
      BY <2>1, <2>3, Zenon
  <1> HIDE DEF flat
  <1>9. Expected(file, brokerLines, section) = With(file, brokerLines, h, p)
    BY <1>1, <1>6, <1>7, <1>8, ExpectedIs DEF all, piece, With
  <1>10. With(file, brokerLines, h, p) \in Seq(Alphabet)
    <2>1. SubSeq(file, p + 1, n) \in Seq(Alphabet)
      BY <1>1
    <2>2. QED
      BY <1>5, <2>1, ConcatProperties DEF all, With
  <1>11. QED
    BY <1>9, <1>10

(* The files an update may leave. *)
LEMMA Replaces ==
  ASSUME NEW file \in Seq(Alphabet), OpenedOnce(file),
         NEW brokerLines \in Seq(Alphabet), NEW section
  PROVE  UpdateBrokerList(file, brokerLines, section)
           \in {Failed,
                Expected(file, brokerLines, section)
                  \o IF LastSection(file, section) THEN <<Blank>> ELSE <<>>}
  <1> DEFINE updated == UpdateBrokerList(file, brokerLines, section)
             expected == Expected(file, brokerLines, section)
  <1>1. Len(file) \in Nat /\ DOMAIN file = 1..Len(file)
    OBVIOUS
  <1>2. CASE Absent(file, section)
    <2>1. updated = file
      BY <1>2, UpdateAbsent
    <2>2. CASE Len(file) = 0
      <3>1. file = <<>>
        BY <2>2
      <3>2. QED
        BY <2>1, <3>1 DEF Failed
    <2>3. CASE Len(file) # 0
      <3>1. expected = file
        BY <1>2, <2>3, ExpectedAbsent
      <3>2. ~LastSection(file, section)
        BY <1>1, <1>2 DEF LastSection, Headers, Absent
      <3>3. file \o <<>> = file
        BY ConcatEmptySeq
      <3>4. QED
        BY <2>1, <3>1, <3>2, <3>3
    <2>4. QED
      BY <2>2, <2>3
  <1>3. ASSUME NEW h \in 1..Len(file), Ends(file, section, h)
        PROVE  updated = expected \o <<Blank>> /\ LastSection(file, section)
    <2>1. updated = WithLast(file, brokerLines, h)
      BY <1>3, UpdateLast
    <2>2. expected = SubSeq(file, 1, h) \o brokerLines
      BY <1>3, ExpectedLast
    <2>3. LastSection(file, section)
      BY <1>1, <1>3 DEF LastSection, Headers, Ends, At, NoHeader, Header
    <2>4. QED
      BY <2>1, <2>2, <2>3 DEF WithLast
  <1>4. ASSUME NEW h \in 1..Len(file), NEW p \in 1..Len(file),
               NEW q \in 1..Len(file), Followed(file, section, h, p, q)
        PROVE  /\ updated \in {Failed, expected \o <<>>}
               /\ ~LastSection(file, section)
    <2>1. updated = IF p + 1 = q THEN Failed ELSE With(file, brokerLines, h, p)
      BY <1>4, UpdateBetween
    <2>2. /\ expected = With(file, brokerLines, h, p)
          /\ With(file, brokerLines, h, p) \in Seq(Alphabet)
      BY <1>4, ExpectedBetween
    <2>3. ~LastSection(file, section)
      BY <1>1, <1>4 DEF LastSection, Headers, Followed, At
    <2>4. expected \o <<>> = expected
      BY <2>2, ConcatEmptySeq
    <2>5. QED
      BY <2>1, <2>2, <2>3, <2>4
  <1> HIDE DEF updated, expected
  <1>5. \/ updated = Failed
        \/ LastSection(file, section) /\ updated = expected \o <<Blank>>
        \/ ~LastSection(file, section) /\ updated = expected \o <<>>
        \/ Absent(file, section)
    BY <1>3, <1>4, Layouts
  <1>6. QED
    BY <1>2, <1>5 DEF updated, expected

-----------------------------------------------------------------------------
(* What an update leaves *)

(* new is file with the lines after h up to p, of which none is a header,   *)
(* replaced by body, up to k, in which there is none either.                *)
Spliced(file, new, h, p, body, k) ==
    /\ file \in Seq(Alphabet) /\ new \in Seq(Alphabet) /\ body \in Seq(Alphabet)
    /\ h \in 1..Len(file) /\ file[h].type = "header" /\ p \in h..Len(file)
    /\ NoHeader(file, h + 1, p) /\ NoHeader(body, 1, Len(body))
    /\ k = h + Len(body) /\ Len(new) = k + (Len(file) - p)
    /\ \A i \in 1..h : new[i] = file[i]
    /\ \A i \in 1..Len(body) : new[h + i] = body[i]
    /\ \A i \in 1..(Len(file) - p) : new[k + i] = file[p + i]

LEMMA ConcatAt ==
  ASSUME NEW S, NEW s \in Seq(S), NEW t \in Seq(S)
  PROVE  /\ s \o t \in Seq(S) /\ Len(s \o t) = Len(s) + Len(t)
         /\ \A i \in 1..Len(s) : (s \o t)[i] = s[i]
         /\ \A i \in 1..Len(t) : (s \o t)[Len(s) + i] = t[i]
  <1>1. Len(s) \in Nat /\ Len(t) \in Nat
    OBVIOUS
  <1>2. /\ s \o t \in Seq(S) /\ Len(s \o t) = Len(s) + Len(t)
        /\ \A i \in 1..(Len(s) + Len(t)) :
             (s \o t)[i] = IF i <= Len(s) THEN s[i] ELSE t[i - Len(s)]
    BY ConcatProperties
  <1> DEFINE all == s \o t
  <1> HIDE DEF all
  <1>3. \A i \in 1..Len(s) : all[i] = s[i]
    BY <1>1, <1>2 DEF all
  <1>4. \A i \in 1..Len(t) : all[Len(s) + i] = t[i]
    <2> TAKE i \in 1..Len(t)
    <2>1. /\ Len(s) + i \in 1..(Len(s) + Len(t)) /\ ~(Len(s) + i <= Len(s))
          /\ (Len(s) + i) - Len(s) = i
      BY <1>1
    <2>2. all[Len(s) + i] = IF Len(s) + i <= Len(s) THEN s[Len(s) + i]
                            ELSE t[(Len(s) + i) - Len(s)]
      BY <1>2, <2>1 DEF all
    <2>3. QED
      BY <2>1, <2>2
  <1>5. QED
    BY <1>2, <1>3, <1>4 DEF all

LEMMA SubSeqAt ==
  ASSUME NEW S, NEW s \in Seq(S), NEW m \in 1..(Len(s) + 1),
         NEW n \in (m - 1)..Len(s)
  PROVE  /\ SubSeq(s, m, n) \in Seq(S) /\ Len(SubSeq(s, m, n)) = (n - m) + 1
         /\ \A i \in 1..((n - m) + 1) : SubSeq(s, m, n)[i] = s[(m + i) - 1]
  <1>1. Len(s) \in Nat /\ m \in Int /\ n \in Int
    OBVIOUS
  <1>2. \A i \in m..n : s[i] \in S
    BY <1>1
  <1>3. /\ SubSeq(s, m, n) \in Seq(S)
        /\ Len(SubSeq(s, m, n)) = IF m <= n THEN n - m + 1 ELSE 0
        /\ \A i \in 1..(n - m + 1) : SubSeq(s, m, n)[i] = s[m + i - 1]
    BY <1>1, <1>2, SubSeqProperties
  <1>4. QED
    BY <1>1, <1>3

(* The two results of an update are splices. *)
LEMMA SpliceIs ==
  ASSUME NEW file \in Seq(Alphabet), NEW body \in Seq(Alphabet),
         NoHeader(body, 1, Len(body)), NEW h \in 1..Len(file),
         file[h].type = "header", NEW p \in h..Len(file),
         NoHeader(file, h + 1, p)
  PROVE  Spliced(file,
                 (SubSeq(file, 1, h) \o body) \o SubSeq(file, p + 1, Len(file)),
                 h, p, body, h + Len(body))
  <1> DEFINE n == Len(file)
             head == SubSeq(file, 1, h)
             tail == SubSeq(file, p + 1, n)
             front == head \o body
             new == front \o tail
             k == h + Len(body)
  <1>1. n \in Nat /\ Len(body) \in Nat /\ h \in Nat /\ p \in Nat
    OBVIOUS
  <1>2. /\ head \in Seq(Alphabet) /\ Len(head) = h
        /\ \A i \in 1..h : head[i] = file[i]
    <2>1. 1 \in 1..(n + 1) /\ h \in (1 - 1)..n /\ (h - 1) + 1 = h
      BY <1>1
    <2>2. /\ head \in Seq(Alphabet) /\ Len(head) = (h - 1) + 1
          /\ \A i \in 1..((h - 1) + 1) : head[i] = file[(1 + i) - 1]
      BY <2>1, SubSeqAt
    <2> HIDE DEF head
    <2>3. QED
      BY <1>1, <2>1, <2>2
  <1>3. /\ tail \in Seq(Alphabet) /\ Len(tail) = n - p
        /\ \A i \in 1..(n - p) : tail[i] = file[p + i]
    <2>1. /\ p + 1 \in 1..(n + 1) /\ n \in ((p + 1) - 1)..n
          /\ (n - (p + 1)) + 1 = n - p
      BY <1>1
    <2>2. /\ tail \in Seq(Alphabet) /\ Len(tail) = (n - (p + 1)) + 1
          /\ \A i \in 1..((n - (p + 1)) + 1) : tail[i] = file[((p + 1) + i) - 1]
      BY <2>1, SubSeqAt
    <2> HIDE DEF tail
    <2>3. QED
      BY <1>1, <2>1, <2>2
  <1> HIDE DEF head, tail
  <1>0. \A s, t \in Seq(Alphabet) :
          /\ s \o t \in Seq(Alphabet) /\ Len(s \o t) = Len(s) + Len(t)
          /\ \A i \in 1..Len(s) : (s \o t)[i] = s[i]
          /\ \A i \in 1..Len(t) : (s \o t)[Len(s) + i] = t[i]
    <2> TAKE s, t \in Seq(Alphabet)
    <2>1. s \o t \in Seq(Alphabet) /\ Len(s \o t) = Len(s) + Len(t)
      BY ConcatAt
    <2>2. \A i \in 1..Len(s) : (s \o t)[i] = s[i]
      BY ConcatAt
    <2>3. \A i \in 1..Len(t) : (s \o t)[Len(s) + i] = t[i]
      BY ConcatAt
    <2>4. QED
      BY <2>1, <2>2, <2>3
  <1>4. /\ front \in Seq(Alphabet) /\ Len(front) = Len(head) + Len(body)
        /\ \A i \in 1..Len(head) : front[i] = head[i]
        /\ \A i \in 1..Len(body) : front[Len(head) + i] = body[i]
    BY <1>0, <1>2, Zenon
  <1> HIDE DEF front
  <1>5. /\ new \in Seq(Alphabet) /\ Len(new) = Len(front) + Len(tail)
        /\ \A i \in 1..Len(front) : new[i] = front[i]
        /\ \A i \in 1..Len(tail) : new[Len(front) + i] = tail[i]
    BY <1>0, <1>3, <1>4, Zenon
  <1> HIDE DEF new
  <1>6. Len(front) = k /\ Len(new) = k + (n - p)
    BY <1>2, <1>3, <1>4, <1>5
  <1>7. \A i \in 1..h : new[i] = file[i]
    BY <1>1, <1>2, <1>4, <1>5
  <1>8. \A i \in 1..Len(body) : new[h + i] = body[i]
    BY <1>1, <1>2, <1>4, <1>5
  <1>9. \A i \in 1..(n - p) : new[k + i] = file[p + i]
    BY <1>1, <1>3, <1>5, <1>6
  <1>10. Spliced(file, new, h, p, body, k)
    BY <1>5, <1>6, <1>7, <1>8, <1>9 DEF Spliced
  <1>11. QED
    BY <1>10 DEF new, front, head, tail

(* A header of the new file was one of the old file, at the same place up   *)
(* to h and moved after it.                                                 *)
LEMMA SplicedHeader ==
  ASSUME NEW file, NEW new, NEW h, NEW p, NEW body, NEW k,
         Spliced(file, new, h, p, body, k),
         NEW i \in 1..Len(new), new[i].type = "header"
  PROVE  \/ i \in 1..h /\ new[i] = file[i]
         \/ /\ i \in (k + 1)..Len(new) /\ (i - k) + p \in (p + 1)..Len(file)
            /\ new[i] = file[(i - k) + p]
  <1> DEFINE n == Len(file)
             b == Len(body)
             m == Len(new)
  <1>1. /\ n \in Nat /\ b \in Nat /\ m \in Nat
        /\ h \in Nat /\ p \in Nat /\ k \in Nat /\ i \in Nat
        /\ k = h + b /\ m = k + (n - p) /\ i \in 1..m /\ p <= n
    BY DEF Spliced
  <1>2. /\ \A j \in 1..h : new[j] = file[j]
        /\ \A j \in 1..b : new[h + j] = body[j] /\ body[j].type # "header"
        /\ \A j \in 1..(n - p) : new[k + j] = file[p + j]
    BY DEF Spliced, NoHeader
  <1> HIDE DEF n, b, m
  <1>3. CASE i <= h
    BY <1>1, <1>2, <1>3
  <1>4. CASE i > h /\ i <= k
    <2>1. i - h \in 1..b /\ h + (i - h) = i
      BY <1>1, <1>4
    <2>2. new[h + (i - h)] = body[i - h] /\ body[i - h].type # "header"
      BY <1>2, <2>1
    <2>3. QED
      BY <2>1, <2>2
  <1>5. CASE i > k
    <2>1. i - k \in 1..(n - p)
      BY <1>1, <1>5
    <2>2. i \in (k + 1)..m
      BY <1>1, <1>5
    <2>3. (i - k) + p \in (p + 1)..n
      BY <1>1, <1>5, <2>1
    <2>4. k + (i - k) = i /\ p + (i - k) = (i - k) + p
      BY <1>1
    <2>5. new[k + (i - k)] = file[p + (i - k)]
      BY <1>2, <2>1
    <2>6. QED
      BY <2>2, <2>3, <2>4, <2>5 DEF n, m
  <1>6. i <= h \/ (i > h /\ i <= k) \/ i > k
    BY <1>1
  <1>7. QED
    BY <1>3, <1>4, <1>5, <1>6

LEMMA SplicedTail ==
  ASSUME NEW file, NEW new, NEW h, NEW p, NEW body, NEW k,
         Spliced(file, new, h, p, body, k), NEW j \in (p + 1)..Len(file)
  PROVE  /\ (j - p) + k \in (k + 1)..Len(new)
         /\ new[(j - p) + k] = file[j]
  <1> USE DEF Spliced
  <1>1. /\ Len(file) \in Nat /\ Len(body) \in Nat /\ Len(new) \in Nat
        /\ h \in Nat /\ p \in Nat /\ k \in Nat /\ j \in Nat
    OBVIOUS
  <1>2. j - p \in 1..(Len(file) - p) /\ p + (j - p) = j /\ k + (j - p) = (j - p) + k
    BY <1>1
  <1>3. new[k + (j - p)] = file[p + (j - p)]
    BY <1>2
  <1>4. QED
    BY <1>1, <1>2, <1>3

LEMMA Listed ==
  ASSUME NEW list \in BrokerLists
  PROVE  /\ list \in Seq(Alphabet) /\ Len(list) \in Nat
         /\ \A i \in 1..Len(list) : list[i].type = "entry"
         /\ NoHeader(list, 1, Len(list))
  <1>1. /\ list \in Seq(Alphabet)
        /\ \A i \in 1..Len(list) : list[i].type = "entry"
    BY AlphabetIs
  <1>2. QED
    BY <1>1 DEF NoHeader

LEMMA BetweenSpliced ==
  ASSUME NEW file \in Seq(Alphabet), NEW list \in BrokerLists,
         NEW section, NEW h, NEW p, NEW q, Followed(file, section, h, p, q)
  PROVE  Spliced(file, With(file, list, h, p), h, p, list, h + Len(list))
  <1>1. list \in Seq(Alphabet) /\ NoHeader(list, 1, Len(list))
    BY Listed
  <1>2. /\ h \in 1..Len(file) /\ file[h].type = "header" /\ p \in h..Len(file)
        /\ NoHeader(file, h + 1, p)
    BY DEF Followed, At, Header, NoHeader
  <1>3. QED
    BY <1>1, <1>2, SpliceIs DEF With

LEMMA LastSpliced ==
  ASSUME NEW file \in Seq(Alphabet), NEW list \in BrokerLists,
         NEW section, NEW h, Ends(file, section, h)
  PROVE  Spliced(file, WithLast(file, list, h), h, Len(file),
                 Append(list, Blank), h + (Len(list) + 1))
  <1> DEFINE n == Len(file)
             body == Append(list, Blank)
             head == SubSeq(file, 1, h)
  <1>1. /\ list \in Seq(Alphabet) /\ Len(list) \in Nat
        /\ \A i \in 1..Len(list) : list[i].type = "entry"
        /\ Blank \in Alphabet /\ Blank.type # "header"
    BY Listed, AlphabetIs DEF Blank, Filler
  <1>2. /\ body \in Seq(Alphabet) /\ Len(body) = Len(list) + 1
        /\ \A i \in 1..Len(list) : body[i] = list[i]
        /\ body[Len(list) + 1] = Blank
    BY <1>1, AppendProperties
  <1>3. body = list \o <<Blank>>
    BY <1>1, AppendIsConcat
  <1> HIDE DEF body
  <1>4. NoHeader(body, 1, Len(body))
    BY <1>1, <1>2 DEF NoHeader
  <1>5. /\ h \in 1..n /\ file[h].type = "header" /\ n \in h..n /\ n \in Nat
        /\ NoHeader(file, h + 1, n)
    BY DEF Ends, At, Header
  <1>6. Spliced(file, (head \o body) \o SubSeq(file, n + 1, n),
                h, n, body, h + Len(body))
    BY <1>2, <1>4, <1>5, SpliceIs
  <1>7. SubSeq(file, n + 1, n) = <<>>
    BY <1>5, SubSeqEmpty
  <1>8. head \in Seq(Alphabet)
    BY <1>5
  <1>9. (head \o body) \o <<>> = head \o body
    <2>1. head \o body \in Seq(Alphabet)
      BY <1>2, <1>8, ConcatProperties
    <2>2. QED
      BY <2>1, ConcatEmptySeq
  <1>10. head \o (list \o <<Blank>>) = (head \o list) \o <<Blank>>
    <2>1. <<Blank>> \in Seq(Alphabet)
      BY <1>1
    <2> DEFINE blank == <<Blank>>
    <2> HIDE DEF head, blank
    <2>2. (head \o list) \o blank = head \o (list \o blank)
      BY <1>1, <1>8, <2>1, ConcatAssociative DEF blank
    <2>3. QED
      BY <2>2 DEF blank
  <1>11. WithLast(file, list, h) = (head \o body) \o SubSeq(file, n + 1, n)
    BY <1>3, <1>7, <1>9, <1>10 DEF WithLast
  <1>12. QED
    BY <1>2, <1>6, <1>11 DEF body

LEMMA SplicedNumbers ==
  ASSUME NEW file, NEW new, NEW h, NEW p, NEW body, NEW k,
         Spliced(file, new, h, p, body, k)
  PROVE  /\ file \in Seq(Alphabet) /\ new \in Seq(Alphabet)
         /\ Len(file) \in Nat /\ Len(body) \in Nat /\ Len(new) \in Nat
         /\ h \in Nat /\ p \in Nat /\ k \in Nat
         /\ 1 <= h /\ h <= p /\ p <= Len(file)
         /\ k = h + Len(body) /\ Len(new) = k + (Len(file) - p)
         /\ h \in 1..Len(new) /\ k <= Len(new)
         /\ \A i \in 1..h : new[i] = file[i]
  <1>1. /\ file \in Seq(Alphabet) /\ new \in Seq(Alphabet)
        /\ Len(file) \in Nat /\ Len(body) \in Nat /\ Len(new) \in Nat
        /\ h \in Nat /\ p \in Nat /\ k \in Nat
        /\ 1 <= h /\ h <= p /\ p <= Len(file)
        /\ k = h + Len(body) /\ Len(new) = k + (Len(file) - p)
        /\ \A i \in 1..h : new[i] = file[i]
    BY DEF Spliced
  <1> DEFINE n == Len(file)
             b == Len(body)
             m == Len(new)
  <1> HIDE DEF n, b, m
  <1>2. /\ n \in Nat /\ b \in Nat /\ m \in Nat
        /\ h \in Nat /\ p \in Nat /\ k \in Nat
        /\ 1 <= h /\ h <= p /\ p <= n /\ k = h + b /\ m = k + (n - p)
    BY <1>1 DEF n, b, m
  <1>3. h \in 1..m /\ k <= m
    BY <1>2
  <1>4. QED
    BY <1>1, <1>3 DEF m

LEMMA SplicedAt ==
  ASSUME NEW file, NEW new, NEW h, NEW p, NEW body, NEW k,
         Spliced(file, new, h, p, body, k), NEW section, At(file, section, h)
  PROVE  At(new, section, h)
  <1>1. /\ h \in Nat /\ p \in Nat /\ h <= p /\ Len(file) \in Nat
        /\ h \in 1..Len(new) /\ 1 <= h /\ \A i \in 1..h : new[i] = file[i]
    BY SplicedNumbers
  <1>0. new[h] = file[h]
    BY <1>1
  <1>2. ASSUME NEW i \in 1..Len(new), new[i] = Header(section) PROVE i = h
    <2>1. new[i].type = "header"
      BY <1>2 DEF Header
    <2>2. CASE i \in 1..h /\ new[i] = file[i]
      BY <1>1, <1>2, <2>2 DEF At
    <2>3. CASE (i - k) + p \in (p + 1)..Len(file) /\ new[i] = file[(i - k) + p]
      <3> DEFINE j == (i - k) + p
      <3> HIDE DEF j
      <3>1. j \in (p + 1)..Len(file) /\ file[j] = Header(section)
        BY <1>2, <2>3 DEF j
      <3>2. j \in 1..Len(file) /\ j # h
        BY <1>1, <3>1
      <3>3. QED
        BY <3>1, <3>2 DEF At
    <2>4. QED
      BY <2>1, <2>2, <2>3, SplicedHeader
  <1>3. QED
    BY <1>0, <1>1, <1>2 DEF At

LEMMA SplicedOnce ==
  ASSUME NEW file, NEW new, NEW h, NEW p, NEW body, NEW k,
         Spliced(file, new, h, p, body, k), OpenedOnce(file)
  PROVE  OpenedOnce(new)
  <1>1. /\ DOMAIN file = 1..Len(file) /\ DOMAIN new = 1..Len(new)
        /\ Len(file) \in Nat /\ Len(new) \in Nat
        /\ h \in Nat /\ p \in Nat /\ k \in Nat /\ h <= p /\ p <= Len(file)
    BY SplicedNumbers
  <1> DEFINE Old(i, j) == \/ i \in 1..h /\ j = i
                          \/ i \in (k + 1)..Len(new) /\ j = (i - k) + p
                                /\ j \in (p + 1)..Len(file)
  <1>2. ASSUME NEW i \in 1..Len(new), new[i].type = "header"
        PROVE  \E j \in 1..Len(file) : Old(i, j) /\ new[i] = file[j]
    <2>1. CASE i \in 1..h /\ new[i] = file[i]
      <3>1. i \in 1..Len(file)
        BY <1>1, <2>1
      <3>2. QED
        BY <2>1, <3>1
    <2>2. CASE /\ i \in (k + 1)..Len(new) /\ (i - k) + p \in (p + 1)..Len(file)
               /\ new[i] = file[(i - k) + p]
      <3>1. (i - k) + p \in 1..Len(file)
        BY <1>1, <2>2
      <3>2. QED
        BY <2>2, <3>1
    <2>3. QED
      BY <1>2, <2>1, <2>2, SplicedHeader
  <1>3. ASSUME NEW i \in 1..Len(new), NEW i2 \in 1..Len(new),
               NEW j \in 1..Len(file), Old(i, j), Old(i2, j)
        PROVE  i = i2
    BY <1>1, <1>3
  <1> HIDE DEF Old
  <1>4. ASSUME NEW i \in 1..Len(new), NEW i2 \in 1..Len(new),
               new[i].type = "header", new[i] = new[i2]
        PROVE  i = i2
    <2>1. PICK j \in 1..Len(file) : Old(i, j) /\ new[i] = file[j]
      BY <1>2, <1>4
    <2>2. PICK j2 \in 1..Len(file) : Old(i2, j2) /\ new[i2] = file[j2]
      BY <1>2, <1>4
    <2>3. j = j2
      BY <1>1, <1>4, <2>1, <2>2 DEF OpenedOnce
    <2>4. QED
      BY <1>3, <2>1, <2>2, <2>3
  <1>5. QED
    BY <1>1, <1>4 DEF OpenedOnce

LEMMA SplicedAbsent ==
  ASSUME NEW file, NEW new, NEW h, NEW p, NEW body, NEW k,
         Spliced(file, new, h, p, body, k), NEW section, Absent(file, section)
  PROVE  Absent(new, section)
  <1>1. Len(file) \in Nat /\ h \in Nat /\ p \in Nat /\ h <= p /\ p <= Len(file)
    BY SplicedNumbers
  <1>2. ASSUME NEW i \in 1..Len(new), new[i] = Header(section) PROVE FALSE
    <2>1. new[i].type = "header"
      BY <1>2 DEF Header
    <2>2. CASE i \in 1..h /\ new[i] = file[i]
      <3>1. i \in 1..Len(file)
        BY <1>1, <2>2
      <3>2. QED
        BY <1>2, <2>2, <3>1 DEF Absent
    <2>3. CASE (i - k) + p \in (p + 1)..Len(file) /\ new[i] = file[(i - k) + p]
      <3>1. (i - k) + p \in 1..Len(file)
        BY <1>1, <2>3
      <3>2. QED
        BY <1>2, <2>3, <3>1 DEF Absent
    <2>4. QED
      BY <2>1, <2>2, <2>3, SplicedHeader
  <1>3. QED
    BY <1>2 DEF Absent

(* The section holds those lines, and fillers up to q. *)
Holds(file, section, list, h, q) ==
    /\ At(file, section, h)
    /\ q \in (h + Len(list) + 1)..(Len(file) + 1)
    /\ \A i \in 1..Len(list) : file[h + i] = list[i]
    /\ Fillers(file, h + Len(list) + 1, q - 1)
    /\ q <= Len(file) => file[q].type = "header"
SectionIs(file, section, list) ==
    \/ Absent(file, section)
    \/ \E h, q \in Nat : Holds(file, section, list, h, q)

LEMMA BetweenHolds ==
  ASSUME NEW file \in Seq(Alphabet), NEW list \in BrokerLists, NEW section,
         NEW h, NEW p, NEW q, Followed(file, section, h, p, q),
         NEW k, k = h + Len(list), NEW r, r = k + (q - p)
  PROVE  LET new == With(file, list, h, p)
         IN  /\ Holds(new, section, list, h, r)
             /\ Followed(new, section, h, k, r)
             /\ r \in Nat /\ h \in Nat
  <1> DEFINE new == With(file, list, h, p)
             n == Len(file)
             b == Len(list)
             m == Len(new)
  <1>1. Spliced(file, new, h, p, list, k)
    BY BetweenSpliced
  <1>2. /\ q \in (h + 1)..n /\ file[q].type = "header" /\ p \in h..(q - 1)
        /\ Fillers(file, p + 1, q - 1) /\ At(file, section, h)
        /\ h \in 1..n /\ file[h] = Header(section)
    BY DEF Followed, At
  <1> HIDE DEF new
  <1>3. At(new, section, h)
    BY <1>1, <1>2, SplicedAt
  <1>4. /\ n \in Nat /\ b \in Nat /\ m \in Nat /\ h \in Nat /\ p \in Nat
        /\ k \in Nat /\ m = k + (n - p) /\ 1 <= h /\ p <= n /\ h <= k
    <2>1. /\ n \in Nat /\ b \in Nat /\ m \in Nat /\ h \in Nat /\ p \in Nat
          /\ k \in Nat /\ m = k + (n - p) /\ 1 <= h /\ p <= n
      BY <1>1, SplicedNumbers
    <2>2. QED
      BY <2>1
  <1>5. \A i \in 1..b : new[h + i] = list[i] /\ list[i].type = "entry"
    BY <1>1, Listed DEF Spliced
  <1>6. \A j \in (p + 1)..n : new[(j - p) + k] = file[j]
    BY <1>1, SplicedTail
  <1> HIDE DEF n, b, m
  <1>7. /\ r \in Nat /\ r \in (k + 1)..m
        /\ \A i \in (k + 1)..r : (i - k) + p \in (p + 1)..q
    BY <1>2, <1>4 DEF b
  <1>8. \A i \in (k + 1)..r : new[i] = file[(i - k) + p]
    <2> TAKE i \in (k + 1)..r
    <2>0. i \in Int /\ k \in Int /\ p \in Int
      BY <1>4
    <2>1. (i - k) + p \in (p + 1)..n /\ (((i - k) + p) - p) + k = i
      <3>1. (((i - k) + p) - p) + k = i
        BY <2>0
      <3>2. (i - k) + p \in (p + 1)..q /\ q \in (h + 1)..n
        BY <1>2, <1>7 DEF n
      <3>3. (i - k) + p \in (p + 1)..n
        BY <1>4, <2>0, <3>2
      <3>4. QED
        BY <3>1, <3>3
    <2> DEFINE j == (i - k) + p
    <2> HIDE DEF j
    <2>2. new[(j - p) + k] = file[j]
      BY <1>6, <2>1 DEF j
    <2>3. QED
      BY <2>1, <2>2 DEF j
  <1>9. new[r].type = "header"
    <2>1. r \in (k + 1)..r /\ (r - k) + p = q
      BY <1>2, <1>4, <1>7
    <2>2. QED
      BY <1>2, <1>8, <2>1
  <1>10. Fillers(new, k + 1, r - 1)
    <2> SUFFICES ASSUME NEW i \in (k + 1)..(r - 1) PROVE new[i].type = "filler"
      BY DEF Fillers
    <2>0. i \in Int /\ k \in Int /\ p \in Int /\ q \in Int /\ r \in Int
      BY <1>2, <1>4, <1>7
    <2>1. i \in (k + 1)..r
      BY <2>0
    <2>3. (i - k) + p \in (p + 1)..(q - 1)
      BY <2>0
    <2>2. QED
      BY <1>2, <1>8, <2>1, <2>3 DEF Fillers
  <1>11. \A i \in (h + 1)..k : new[i].type = "entry"
    <2> TAKE i \in (h + 1)..k
    <2>1. i - h \in 1..b /\ h + (i - h) = i
      BY <1>4 DEF b
    <2>2. new[h + (i - h)] = list[i - h] /\ list[i - h].type = "entry"
      BY <1>5, <2>1
    <2>3. QED
      BY <2>1, <2>2
  <1>12. NoHeader(new, h + 1, r - 1)
    <2> SUFFICES ASSUME NEW i \in (h + 1)..(r - 1) PROVE new[i].type # "header"
      BY DEF NoHeader
    <2>1. i \in (h + 1)..k \/ i \in (k + 1)..(r - 1)
      BY <1>4, <1>7
    <2>2. QED
      BY <1>10, <1>11, <2>1 DEF Fillers
  <1>13. new[k].type # "filler"
    <2>1. CASE b = 0
      <3>1. k = h
        BY <1>4, <2>1 DEF b
      <3>2. QED
        BY <1>3, <3>1 DEF At, Header
    <2>2. CASE b # 0
      <3>1. k \in (h + 1)..k
        BY <1>4, <2>2 DEF b
      <3>2. QED
        BY <1>11, <3>1
    <2>3. QED
      BY <2>1, <2>2
  <1>14. Holds(new, section, list, h, r)
    <2>1. r \in (h + b + 1)..(m + 1)
      BY <1>4, <1>7 DEF b
    <2>2. QED
      BY <1>3, <1>5, <1>9, <1>10, <2>1 DEF Holds, b, m
  <1>15. Followed(new, section, h, k, r)
    <2>1. r \in (h + 1)..m /\ k \in h..(r - 1)
      BY <1>4, <1>7
    <2>2. QED
      BY <1>3, <1>9, <1>10, <1>12, <1>13, <2>1 DEF Followed, m
  <1>16. QED
    BY <1>4, <1>7, <1>14, <1>15 DEF new

LEMMA LastHolds ==
  ASSUME NEW file \in Seq(Alphabet), NEW list \in BrokerLists, NEW section,
         NEW h, Ends(file, section, h)
  PROVE  LET new == WithLast(file, list, h)
         IN  /\ Holds(new, section, list, h, Len(new) + 1)
             /\ Ends(new, section, h)
             /\ Len(new) + 1 \in Nat /\ h \in Nat
  <1> DEFINE new == WithLast(file, list, h)
             n == Len(file)
             b == Len(list)
             m == Len(new)
             k == h + (b + 1)
             body == Append(list, Blank)
  <1>1. Spliced(file, new, h, n, body, k)
    BY LastSpliced
  <1>2. At(file, section, h)
    BY DEF Ends
  <1> HIDE DEF new
  <1>3. At(new, section, h)
    BY <1>1, <1>2, SplicedAt
  <1>4. n \in Nat /\ m \in Nat /\ h \in Nat /\ m = k + (n - n) /\ 1 <= h
    BY <1>1, SplicedNumbers
  <1>5. /\ list \in Seq(Alphabet) /\ b \in Nat
        /\ \A i \in 1..b : list[i].type = "entry"
        /\ Blank \in Alphabet /\ Blank.type = "filler"
    BY Listed, AlphabetIs DEF Blank, Filler
  <1>6. /\ Len(body) = b + 1 /\ \A i \in 1..b : body[i] = list[i]
        /\ body[b + 1] = Blank
    BY <1>5, AppendProperties
  <1> HIDE DEF body
  <1>7. \A i \in 1..(b + 1) : new[h + i] = body[i]
    BY <1>1, <1>6 DEF Spliced
  <1> HIDE DEF n, b, m
  <1>8. m = h + (b + 1)
    BY <1>4, <1>5
  <1>9. \A i \in 1..b : new[h + i] = list[i]
    BY <1>5, <1>6, <1>7
  <1>10. new[m] = Blank
    <2>1. b + 1 \in 1..(b + 1)
      BY <1>5
    <2>2. QED
      BY <1>6, <1>7, <1>8, <2>1
  <1>11. Fillers(new, h + b + 1, (m + 1) - 1)
    <2> SUFFICES ASSUME NEW i \in (h + b + 1)..((m + 1) - 1)
                 PROVE  new[i].type = "filler"
      BY DEF Fillers
    <2>1. i = m
      BY <1>4, <1>5, <1>8
    <2>2. QED
      BY <1>5, <1>10, <2>1
  <1>12. NoHeader(new, h + 1, m)
    <2> SUFFICES ASSUME NEW i \in (h + 1)..m PROVE new[i].type # "header"
      BY DEF NoHeader
    <2>1. CASE i = m
      BY <1>5, <1>10, <2>1
    <2>2. CASE i # m
      <3>1. i - h \in 1..b /\ h + (i - h) = i
        BY <1>4, <1>5, <1>8, <2>2
      <3>2. new[h + (i - h)] = list[i - h] /\ list[i - h].type = "entry"
        BY <1>5, <1>9, <3>1
      <3>3. QED
        BY <3>1, <3>2
    <2>3. QED
      BY <2>1, <2>2
  <1>13. /\ m + 1 \in Nat /\ m + 1 \in (h + b + 1)..(m + 1) /\ ~(m + 1 <= m)
    BY <1>4, <1>5, <1>8
  <1>14. Holds(new, section, list, h, m + 1)
    BY <1>3, <1>9, <1>11, <1>13 DEF Holds, b, m
  <1>15. Ends(new, section, h)
    BY <1>3, <1>12 DEF Ends, m
  <1>16. QED
    BY <1>4, <1>13, <1>14, <1>15 DEF new, m

(* A section elsewhere stays, or moves with what is below it. *)
LEMMA BeforeHolds ==
  ASSUME NEW file, NEW new, NEW h, NEW p, NEW body, NEW k,
         Spliced(file, new, h, p, body, k),
         NEW list \in BrokerLists, NEW section, NEW h1 \in Nat, NEW q1 \in Nat,
         Holds(file, section, list, h1, q1), h1 < h
  PROVE  Holds(new, section, list, h1, q1)
  <1> DEFINE n == Len(file)
             b == Len(list)
             m == Len(new)
  <1>1. /\ n \in Nat /\ m \in Nat /\ h \in Nat /\ p \in Nat /\ k \in Nat
        /\ 1 <= h /\ h <= p /\ p <= n /\ h \in 1..m
        /\ \A i \in 1..h : new[i] = file[i]
    BY SplicedNumbers
  <1>2. file[h].type = "header"
    BY DEF Spliced
  <1>3. /\ b \in Nat /\ \A i \in 1..b : list[i].type = "entry"
    BY Listed
  <1>4. /\ h1 \in 1..n /\ file[h1] = Header(section)
        /\ \A i \in 1..n : file[i] = Header(section) => i = h1
        /\ q1 \in (h1 + b + 1)..(n + 1)
        /\ \A i \in 1..b : file[h1 + i] = list[i]
        /\ Fillers(file, h1 + b + 1, q1 - 1)
        /\ q1 <= n => file[q1].type = "header"
    BY DEF Holds, At
  <1> HIDE DEF n, b, m
  <1>5. q1 <= h
    <2> SUFFICES ASSUME h < q1 PROVE FALSE
      BY <1>1
    <2>1. CASE h <= h1 + b
      <3>1. h - h1 \in 1..b /\ h1 + (h - h1) = h
        BY <1>1, <1>3, <2>1
      <3>2. file[h1 + (h - h1)] = list[h - h1] /\ list[h - h1].type = "entry"
        BY <1>3, <1>4, <3>1
      <3>3. QED
        BY <1>2, <3>1, <3>2
    <2>2. CASE h > h1 + b
      <3>1. h \in (h1 + b + 1)..(q1 - 1)
        BY <1>1, <1>3, <2>2
      <3>2. QED
        BY <1>2, <1>4, <3>1 DEF Fillers
    <2>3. QED
      BY <1>1, <1>3, <2>1, <2>2
  <1>6. ASSUME NEW i \in 1..m, new[i] = Header(section) PROVE i = h1
    <2>1. new[i].type = "header"
      BY <1>6 DEF Header
    <2>2. CASE i \in 1..h /\ new[i] = file[i]
      <3>1. i \in 1..n
        BY <1>1, <2>2
      <3>2. QED
        BY <1>4, <1>6, <2>2, <3>1
    <2>3. CASE (i - k) + p \in (p + 1)..n /\ new[i] = file[(i - k) + p]
      <3> DEFINE j == (i - k) + p
      <3> HIDE DEF j
      <3>1. j \in (p + 1)..n /\ file[j] = Header(section)
        BY <1>6, <2>3 DEF j
      <3>2. j \in 1..n /\ j # h1
        BY <1>1, <3>1
      <3>3. QED
        BY <1>4, <3>1, <3>2
    <2>4. QED
      BY <2>1, <2>2, <2>3, SplicedHeader DEF m, n
  <1>7. At(new, section, h1)
    <2>1. h1 \in 1..m /\ h1 \in 1..h
      BY <1>1, <1>4
    <2>2. QED
      BY <1>1, <1>4, <1>6, <2>1 DEF At, m
  <1>8. q1 \in (h1 + b + 1)..(m + 1) /\ q1 \in 1..h
    BY <1>1, <1>3, <1>4, <1>5
  <1>9. \A i \in 1..b : new[h1 + i] = list[i]
    <2> TAKE i \in 1..b
    <2>0. h \in Nat /\ b \in Nat /\ q1 <= h /\ q1 >= h1 + b + 1 /\ h1 >= 1
      BY <1>1, <1>3, <1>4, <1>5
    <2>1. h1 + i \in 1..h
      BY <2>0
    <2>2. QED
      BY <1>1, <1>4, <2>1
  <1>10. Fillers(new, h1 + b + 1, q1 - 1)
    <2> SUFFICES ASSUME NEW i \in (h1 + b + 1)..(q1 - 1)
                 PROVE  new[i].type = "filler"
      BY DEF Fillers
    <2>0. h \in Nat /\ b \in Nat /\ q1 <= h
      BY <1>1, <1>3, <1>5
    <2>1. i \in 1..h
      BY <2>0
    <2>2. QED
      BY <1>1, <1>4, <2>1 DEF Fillers
  <1>11. new[q1].type = "header"
    <2>1. q1 <= n
      BY <1>1, <1>5
    <2>2. QED
      BY <1>1, <1>4, <1>8, <2>1
  <1>12. QED
    BY <1>7, <1>8, <1>9, <1>10, <1>11 DEF Holds, b, m

LEMMA AfterHolds ==
  ASSUME NEW file, NEW new, NEW h, NEW p, NEW body, NEW k,
         Spliced(file, new, h, p, body, k),
         NEW list \in BrokerLists, NEW section, NEW h1 \in Nat, NEW q1 \in Nat,
         Holds(file, section, list, h1, q1), h1 > h
  PROVE  \E h2, q2 \in Nat : Holds(new, section, list, h2, q2)
  <1> DEFINE n == Len(file)
             b == Len(list)
             m == Len(new)
             d == k - p
             h2 == h1 + d
             q2 == q1 + d
  <1>1. /\ n \in Nat /\ m \in Nat /\ h \in Nat /\ p \in Nat /\ k \in Nat
        /\ 1 <= h /\ h <= p /\ p <= n /\ m = k + (n - p)
    BY SplicedNumbers
  <1>2. NoHeader(file, h + 1, p)
    BY DEF Spliced
  <1>3. /\ b \in Nat /\ \A i \in 1..b : list[i].type = "entry"
    BY Listed
  <1>4. /\ h1 \in 1..n /\ file[h1] = Header(section)
        /\ \A i \in 1..n : file[i] = Header(section) => i = h1
        /\ q1 \in (h1 + b + 1)..(n + 1)
        /\ \A i \in 1..b : file[h1 + i] = list[i]
        /\ Fillers(file, h1 + b + 1, q1 - 1)
        /\ q1 <= n => file[q1].type = "header"
    BY DEF Holds, At
  <1>5. \A j \in (p + 1)..n : new[(j - p) + k] = file[j]
    BY SplicedTail
  <1> HIDE DEF n, b, m, h2, q2, d
  <1>6. d \in Int /\ m = n + d /\ p + d = k
    BY <1>1 DEF d
  <1>7. \A j \in (p + 1)..n : new[j + d] = file[j]
    <2> TAKE j \in (p + 1)..n
    <2>1. (j - p) + k = j + d
      BY <1>1 DEF d
    <2>2. QED
      BY <1>5, <2>1
  <1>8. h1 > p
    <2> SUFFICES ASSUME h1 <= p PROVE FALSE
      BY <1>1
    <2>1. h1 \in (h + 1)..p
      BY <1>1
    <2>2. QED
      BY <1>2, <1>4, <2>1 DEF NoHeader, Header
  <1>9. /\ h2 \in Nat /\ q2 \in Nat /\ h2 \in 1..m
        /\ q2 \in (h2 + b + 1)..(m + 1)
    BY <1>1, <1>3, <1>4, <1>6, <1>8 DEF h2, q2
  <1>10. ASSUME NEW i \in 1..m, new[i] = Header(section) PROVE i = h2
    <2>1. new[i].type = "header"
      BY <1>10 DEF Header
    <2>2. CASE i \in 1..h /\ new[i] = file[i]
      <3>1. i \in 1..n /\ i # h1
        BY <1>1, <2>2
      <3>2. QED
        BY <1>4, <1>10, <2>2, <3>1
    <2>3. CASE (i - k) + p \in (p + 1)..n /\ new[i] = file[(i - k) + p]
      <3> DEFINE j == (i - k) + p
      <3>0. i = j + d
        BY <1>1 DEF d
      <3> HIDE DEF j
      <3>1. j \in (p + 1)..n /\ file[j] = Header(section)
        BY <1>10, <2>3 DEF j
      <3>2. j \in 1..n
        BY <1>1, <3>1
      <3>3. j = h1
        BY <1>4, <3>1, <3>2
      <3>4. QED
        BY <3>0, <3>3 DEF h2
    <2>4. QED
      BY <2>1, <2>2, <2>3, SplicedHeader DEF m, n
  <1>11. At(new, section, h2)
    <2>1. h1 \in (p + 1)..n
      BY <1>1, <1>4, <1>8
    <2>2. new[h2] = Header(section)
      BY <1>4, <1>7, <2>1 DEF h2
    <2>3. QED
      BY <1>9, <1>10, <2>2 DEF At, m
  <1>12. \A i \in 1..b : new[h2 + i] = list[i]
    <2> TAKE i \in 1..b
    <2>1. h1 + i \in (p + 1)..n /\ h2 + i = (h1 + i) + d
      BY <1>1, <1>3, <1>4, <1>6, <1>8 DEF h2
    <2>2. QED
      BY <1>4, <1>7, <2>1
  <1>13. Fillers(new, h2 + b + 1, q2 - 1)
    <2> SUFFICES ASSUME NEW i \in (h2 + b + 1)..(q2 - 1)
                 PROVE  new[i].type = "filler"
      BY DEF Fillers
    <2> DEFINE j == i - d
    <2>1. /\ j \in (h1 + b + 1)..(q1 - 1) /\ j \in (p + 1)..n /\ j + d = i
      BY <1>1, <1>3, <1>4, <1>6, <1>8, <1>9 DEF h2, q2
    <2> HIDE DEF j
    <2>2. new[j + d] = file[j] /\ file[j].type = "filler"
      BY <1>4, <1>7, <2>1 DEF Fillers
    <2>3. QED
      BY <2>1, <2>2
  <1>14. q2 <= m => new[q2].type = "header"
    <2> SUFFICES ASSUME q2 <= m PROVE new[q2].type = "header"
      OBVIOUS
    <2>1. q1 \in (p + 1)..n /\ q1 <= n /\ q2 = q1 + d
      BY <1>1, <1>3, <1>4, <1>6, <1>8 DEF q2
    <2>2. QED
      BY <1>4, <1>7, <2>1
  <1>15. Holds(new, section, list, h2, q2)
    BY <1>9, <1>11, <1>12, <1>13, <1>14 DEF Holds, b, m
  <1>16. QED
    BY <1>9, <1>15

LEMMA SplicedSection ==
  ASSUME NEW file, NEW new, NEW h, NEW p, NEW body, NEW k,
         Spliced(file, new, h, p, body, k),
         NEW section, file[h] = Header(section),
         NEW other, other # section, NEW list \in BrokerLists,
         SectionIs(file, other, list)
  PROVE  SectionIs(new, other, list)
  <1>1. CASE Absent(file, other)
    BY <1>1, SplicedAbsent DEF SectionIs
  <1>2. ASSUME NEW h1 \in Nat, NEW q1 \in Nat, Holds(file, other, list, h1, q1)
        PROVE  SectionIs(new, other, list)
    <2>1. h1 # h
      BY <1>2 DEF Holds, At, Header
    <2>2. h \in Nat
      BY SplicedNumbers
    <2>3. CASE h1 < h
      BY <1>2, <2>3, BeforeHolds DEF SectionIs
    <2>4. CASE h1 > h
      BY <1>2, <2>4, AfterHolds DEF SectionIs
    <2>5. QED
      BY <2>1, <2>2, <2>3, <2>4
  <1>3. QED
    BY <1>1, <1>2 DEF SectionIs

(* What an update that succeeds leaves of a file. *)
LEMMA UpdateKeeps ==
  ASSUME NEW file \in Seq(Alphabet), OpenedOnce(file),
         NEW list \in BrokerLists, NEW section,
         NEW new, new = UpdateBrokerList(file, list, section), new # Failed
  PROVE  /\ new \in Seq(Alphabet) /\ OpenedOnce(new)
         /\ SectionIs(new, section, list)
         /\ \A other, l : other # section /\ l \in BrokerLists
              /\ SectionIs(file, other, l) => SectionIs(new, other, l)
  <1> DEFINE Kept(f) ==
        /\ f \in Seq(Alphabet) /\ OpenedOnce(f)
        /\ SectionIs(f, section, list)
        /\ \A other, l : other # section /\ l \in BrokerLists
             /\ SectionIs(file, other, l) => SectionIs(f, other, l)
  <1>1. list \in Seq(Alphabet)
    BY Listed
  <1>2. ASSUME NEW f, NEW h, NEW p, NEW body, NEW k,
               Spliced(file, f, h, p, body, k), file[h] = Header(section),
               SectionIs(f, section, list)
        PROVE  Kept(f)
    <2>1. f \in Seq(Alphabet)
      BY <1>2, SplicedNumbers
    <2>2. OpenedOnce(f)
      BY <1>2, SplicedOnce
    <2>3. ASSUME NEW other, NEW l \in BrokerLists, other # section,
                 SectionIs(file, other, l)
          PROVE  SectionIs(f, other, l)
      BY <1>2, <2>3, SplicedSection
    <2>4. QED
      BY <1>2, <2>1, <2>2, <2>3
  <1>3. CASE Absent(file, section)
    <2>1. new = file
      BY <1>3, UpdateAbsent
    <2>2. QED
      BY <1>3, <2>1 DEF SectionIs
  <1>4. ASSUME NEW h \in 1..Len(file), Ends(file, section, h) PROVE Kept(new)
    <2>1. new = WithLast(file, list, h)
      BY <1>4, UpdateLast
    <2>2. Spliced(file, new, h, Len(file), Append(list, Blank),
                  h + (Len(list) + 1))
      BY <1>4, <2>1, LastSpliced
    <2>3. SectionIs(new, section, list)
      BY <1>4, <2>1, LastHolds DEF SectionIs
    <2>4. file[h] = Header(section)
      BY <1>4 DEF Ends, At
    <2> HIDE DEF Kept
    <2>5. QED
      BY <1>2, <2>2, <2>3, <2>4
  <1>5. ASSUME NEW h \in 1..Len(file), NEW p \in 1..Len(file),
               NEW q \in 1..Len(file), Followed(file, section, h, p, q)
        PROVE  Kept(new)
    <2>1. new = With(file, list, h, p)
      <3>1. UpdateBrokerList(file, list, section)
              = IF p + 1 = q THEN Failed ELSE With(file, list, h, p)
        BY <1>1, <1>5, UpdateBetween
      <3>2. QED
        BY <3>1
    <2>2. Spliced(file, new, h, p, list, h + Len(list))
      BY <1>5, <2>1, BetweenSpliced
    <2>3. SectionIs(new, section, list)
      <3>1. /\ Holds(new, section, list, h, (h + Len(list)) + (q - p))
            /\ (h + Len(list)) + (q - p) \in Nat /\ h \in Nat
        BY <1>5, <2>1, BetweenHolds
      <3>2. QED
        BY <3>1 DEF SectionIs
    <2>4. file[h] = Header(section)
      BY <1>5 DEF Followed, At
    <2> HIDE DEF Kept
    <2>5. QED
      BY <1>2, <2>2, <2>3, <2>4
  <1> HIDE DEF Kept
  <1>6. Kept(new)
    <2>1. Absent(file, section) => Kept(new)
      BY <1>3 DEF Kept
    <2>2. QED
      BY <1>4, <1>5, <2>1, Layouts
  <1>7. QED
    BY <1>6 DEF Kept

(* The l lines after d, and those after e. *)
SameLines(s, t, d, e, l) ==
    SubSeq(s, d + 1, d + l) = SubSeq(t, e + 1, e + l)

LEMMA SubSeqSame ==
  ASSUME NEW S, NEW s \in Seq(S), NEW t \in Seq(S), NEW d \in Nat, NEW e \in Nat,
         d <= Len(s), e <= Len(t), NEW l \in Nat, d + l <= Len(s), e + l <= Len(t),
         \A i \in 1..l : s[d + i] = t[e + i]
  PROVE  SameLines(s, t, d, e, l)
  <1> DEFINE x == SubSeq(s, d + 1, d + l)
             y == SubSeq(t, e + 1, e + l)
  <1>1. Len(s) \in Nat /\ Len(t) \in Nat
    OBVIOUS
  <1>2. /\ x \in Seq(S) /\ Len(x) = l /\ \A i \in 1..l : x[i] = s[d + i]
    <2>1. /\ d + 1 \in 1..(Len(s) + 1) /\ d + l \in ((d + 1) - 1)..Len(s)
          /\ ((d + l) - (d + 1)) + 1 = l
      BY <1>1
    <2>2. /\ x \in Seq(S) /\ Len(x) = ((d + l) - (d + 1)) + 1
          /\ \A i \in 1..(((d + l) - (d + 1)) + 1) : x[i] = s[((d + 1) + i) - 1]
      BY <2>1, SubSeqAt
    <2> HIDE DEF x
    <2>3. \A i \in 1..l : ((d + 1) + i) - 1 = d + i
      OBVIOUS
    <2>4. QED
      BY <2>1, <2>2, <2>3
  <1>3. /\ y \in Seq(S) /\ Len(y) = l /\ \A i \in 1..l : y[i] = t[e + i]
    <2>1. /\ e + 1 \in 1..(Len(t) + 1) /\ e + l \in ((e + 1) - 1)..Len(t)
          /\ ((e + l) - (e + 1)) + 1 = l
      BY <1>1
    <2>2. /\ y \in Seq(S) /\ Len(y) = ((e + l) - (e + 1)) + 1
          /\ \A i \in 1..(((e + l) - (e + 1)) + 1) : y[i] = t[((e + 1) + i) - 1]
      BY <2>1, SubSeqAt
    <2> HIDE DEF y
    <2>3. \A i \in 1..l : ((e + 1) + i) - 1 = e + i
      OBVIOUS
    <2>4. QED
      BY <2>1, <2>2, <2>3
  <1> HIDE DEF x, y
  <1>4. \A i \in 1..l : x[i] = y[i]
    BY <1>2, <1>3
  <1>5. x = y
    BY <1>2, <1>3, <1>4, SeqEqual
  <1>6. QED
    BY <1>5 DEF x, y, SameLines

(* What is above h and below p is still there. *)
SameAround(file, new, h, p, k) ==
    /\ SubSeq(new, 1, h) = SubSeq(file, 1, h)
    /\ SubSeq(new, k + 1, Len(new)) = SubSeq(file, p + 1, Len(file))

LEMMA SplicedParts ==
  ASSUME NEW file, NEW new, NEW h, NEW p, NEW body, NEW k,
         Spliced(file, new, h, p, body, k)
  PROVE  SameAround(file, new, h, p, k)
  <1> DEFINE l == Len(file) - p
  <1>1. /\ file \in Seq(Alphabet) /\ new \in Seq(Alphabet) /\ h \in 1..Len(new)
        /\ \A i \in 1..h : new[i] = file[i]
        /\ Len(file) \in Nat /\ Len(new) \in Nat /\ h \in Nat /\ p \in Nat
        /\ k \in Nat /\ h <= p /\ p <= Len(file) /\ k <= Len(new)
        /\ Len(new) = k + (Len(file) - p)
    BY SplicedNumbers
  <1>2. \A i \in 1..l : new[k + i] = file[p + i]
    BY DEF Spliced
  <1>3. SubSeq(new, 1, h) = SubSeq(file, 1, h)
    <2>1. /\ h \in Nat /\ 0 \in Nat /\ 0 <= Len(new) /\ 0 <= Len(file)
          /\ 0 + h <= Len(new) /\ 0 + h <= Len(file) /\ 0 + h = h /\ 0 + 1 = 1
          /\ \A i \in 1..h : new[0 + i] = file[0 + i]
      BY <1>1
    <2>2. SameLines(new, file, 0, 0, h)
      BY <1>1, <2>1, SubSeqSame
    <2>3. QED
      BY <2>1, <2>2 DEF SameLines
  <1>4. SubSeq(new, k + 1, Len(new)) = SubSeq(file, p + 1, Len(file))
    <2>1. /\ l \in Nat /\ k + l = Len(new) /\ p + l = Len(file)
          /\ k + l <= Len(new) /\ p + l <= Len(file)
      BY <1>1
    <2> HIDE DEF l
    <2>2. SameLines(new, file, k, p, l)
      BY <1>1, <1>2, <2>1, SubSeqSame
    <2>3. QED
      BY <2>1, <2>2 DEF SameLines
  <1>5. QED
    BY <1>3, <1>4 DEF SameAround

LEMMA RepeatsLast ==
  ASSUME NEW file \in Seq(Alphabet), NEW list \in BrokerLists, NEW section,
         NEW h, Ends(file, section, h)
  PROVE  LET new == WithLast(file, list, h)
         IN  UpdateBrokerList(new, list, section) = new
  <1> DEFINE new == WithLast(file, list, h)
             body == Append(list, Blank)
             k == h + (Len(list) + 1)
             n == Len(file)
  <1>1. Spliced(file, new, h, n, body, k)
    BY LastSpliced
  <1>2. Ends(new, section, h)
    BY LastHolds
  <1> HIDE DEF new, body, k, n
  <1>3. new \in Seq(Alphabet)
    BY <1>1 DEF Spliced
  <1>4. SameAround(file, new, h, n, k)
    BY <1>1, SplicedParts
  <1>5. UpdateBrokerList(new, list, section) = WithLast(new, list, h)
    BY <1>2, <1>3, UpdateLast
  <1>6. WithLast(new, list, h) = new
    BY <1>4 DEF SameAround, WithLast, new
  <1>7. QED
    BY <1>5, <1>6 DEF new

LEMMA RepeatsBetween ==
  ASSUME NEW file \in Seq(Alphabet), NEW list \in BrokerLists, NEW section,
         NEW h, NEW p, NEW q, Followed(file, section, h, p, q), p + 1 # q
  PROVE  LET new == With(file, list, h, p)
         IN  UpdateBrokerList(new, list, section) = new
  <1> DEFINE new == With(file, list, h, p)
             k == h + Len(list)
             r == k + (q - p)
  <1>1. Spliced(file, new, h, p, list, k)
    BY BetweenSpliced
  <1>2. Followed(new, section, h, k, r)
    BY BetweenHolds
  <1>3. list \in Seq(Alphabet) /\ Len(list) \in Nat
    BY Listed
  <1>4. k + 1 # r
    <2>1. p \in Int /\ q \in Int /\ k \in Int
      BY <1>3 DEF Followed, At
    <2> HIDE DEF k
    <2>2. QED
      BY <2>1
  <1> HIDE DEF new, k, r
  <1>5. new \in Seq(Alphabet)
    BY <1>1 DEF Spliced
  <1>6. SameAround(file, new, h, p, k)
    BY <1>1, SplicedParts
  <1>7. UpdateBrokerList(new, list, section)
          = IF k + 1 = r THEN Failed ELSE With(new, list, h, k)
    BY <1>2, <1>3, <1>5, UpdateBetween
  <1>8. With(new, list, h, k) = new
    BY <1>6 DEF SameAround, With, new
  <1>9. QED
    BY <1>4, <1>7, <1>8 DEF new

(* The second time nothing changes. *)
LEMMA Repeats ==
  ASSUME NEW file \in Seq(Alphabet), OpenedOnce(file),
         NEW list \in BrokerLists, NEW section,
         UpdateBrokerList(file, list, section) # Failed
  PROVE  LET new == UpdateBrokerList(file, list, section)
         IN  UpdateBrokerList(new, list, section) = new
  <1> DEFINE new == UpdateBrokerList(file, list, section)
             again == UpdateBrokerList(new, list, section)
  <1>1. list \in Seq(Alphabet)
    BY Listed
  <1>2. CASE Absent(file, section)
    BY <1>2, UpdateAbsent
  <1>3. ASSUME NEW h \in 1..Len(file), Ends(file, section, h) PROVE again = new
    <2>1. new = WithLast(file, list, h)
      BY <1>3, UpdateLast
    <2>2. QED
      BY <1>3, <2>1, RepeatsLast
  <1>4. ASSUME NEW h \in 1..Len(file), NEW p \in 1..Len(file),
               NEW q \in 1..Len(file), Followed(file, section, h, p, q)
        PROVE  again = new
    <2>1. new = IF p + 1 = q THEN Failed ELSE With(file, list, h, p)
      BY <1>1, <1>4, UpdateBetween
    <2>2. p + 1 # q /\ new = With(file, list, h, p)
      BY <2>1
    <2>3. QED
      BY <1>4, <2>2, RepeatsBetween
  <1> HIDE DEF again, new
  <1>5. again = new
    BY <1>2, <1>3, <1>4, Layouts DEF again, new
  <1>6. QED
    BY <1>5 DEF again, new

-----------------------------------------------------------------------------
(* What getConfigFileAsObject() makes of the lines *)

IsValue(value) == value \in Seq(Range(value))
IsConfig(config) ==
    /\ IsFiniteSet(DOMAIN config)
    /\ \A s \in DOMAIN config :
         /\ IsFiniteSet(DOMAIN config[s])
         /\ \A key \in DOMAIN config[s] : IsValue(config[s][key])
Parsed(acc) ==
    /\ DOMAIN acc = {"in", "config"} /\ acc = [f \in DOMAIN acc |-> acc[f]]
    /\ acc.in \in DOMAIN acc.config /\ IsConfig(acc.config)

PutOn(put, map, key, value) ==
    /\ DOMAIN put = DOMAIN map \cup {key} /\ put[key] = value
    /\ \A k \in DOMAIN map : k # key => put[k] = map[k]

LEMMA PutIs ==
  ASSUME NEW map, NEW key, NEW value
  PROVE  PutOn(Put(map, key, value), map, key, value)
  BY DEF Put, PutOn

LEMMA PutConfig ==
  ASSUME NEW config, IsConfig(config), NEW s, NEW map,
         IsFiniteSet(DOMAIN map), \A key \in DOMAIN map : IsValue(map[key])
  PROVE  IsConfig(Put(config, s, map))
  <1> DEFINE put == Put(config, s, map)
  <1>1. /\ DOMAIN put = DOMAIN config \cup {s} /\ put[s] = map
        /\ \A k \in DOMAIN config : k # s => put[k] = config[k]
    <2>1. PutOn(put, config, s, map)
      BY PutIs
    <2> HIDE DEF put
    <2>2. QED
      BY <2>1 DEF PutOn
  <1>2. IsFiniteSet(DOMAIN config \cup {s})
    <2>1. IsFiniteSet(DOMAIN config)
      BY DEF IsConfig
    <2>2. QED
      BY <2>1, FS_AddElement
  <1> HIDE DEF put
  <1>3. ASSUME NEW t \in DOMAIN put
        PROVE  /\ IsFiniteSet(DOMAIN put[t])
               /\ \A key \in DOMAIN put[t] : IsValue(put[t][key])
    <2>1. CASE t = s
      BY <1>1, <2>1
    <2>2. CASE t # s
      <3>1. t \in DOMAIN config /\ put[t] = config[t]
        BY <1>1, <2>2
      <3>2. QED
        BY <3>1 DEF IsConfig
    <2>3. QED
      BY <2>1, <2>2
  <1>4. IsConfig(put)
    BY <1>1, <1>2, <1>3 DEF IsConfig
  <1>5. QED
    BY <1>4 DEF put

(* A header opens its section, or goes on with it. *)
LEMMA ParseHeader ==
  ASSUME NEW acc, Parsed(acc), NEW line, IsLine(line), line.type = "header",
         NEW next, next = ParseLine(acc, line)
  PROVE  /\ Parsed(next) /\ next.in = line.name
         /\ DOMAIN next.config = DOMAIN acc.config \cup {line.name}
         /\ \A s \in DOMAIN acc.config : next.config[s] = acc.config[s]
         /\ line.name \notin DOMAIN acc.config =>
              next.config[line.name] = EmptyMap
  <1> DEFINE config == IF line.name \in DOMAIN acc.config THEN acc.config
                       ELSE Put(acc.config, line.name, EmptyMap)
  <1>1. next = [in |-> line.name, config |-> config]
    BY DEF ParseLine
  <1>2. DOMAIN EmptyMap = {}
    BY DEF EmptyMap
  <1>3. /\ DOMAIN config = DOMAIN acc.config \cup {line.name}
        /\ \A s \in DOMAIN acc.config : config[s] = acc.config[s]
        /\ line.name \notin DOMAIN acc.config => config[line.name] = EmptyMap
    <2>1. CASE line.name \in DOMAIN acc.config
      BY <2>1
    <2>2. CASE line.name \notin DOMAIN acc.config
      <3> DEFINE put == Put(acc.config, line.name, EmptyMap)
      <3>1. PutOn(put, acc.config, line.name, EmptyMap) /\ config = put
        BY <2>2, PutIs
      <3> HIDE DEF put
      <3>2. QED
        BY <2>2, <3>1 DEF PutOn
    <2>3. QED
      BY <2>1, <2>2
  <1>4. IsConfig(config)
    <2>1. IsConfig(acc.config)
      BY DEF Parsed
    <2>2. IsConfig(Put(acc.config, line.name, EmptyMap))
      <3>1. IsFiniteSet(DOMAIN EmptyMap)
        BY <1>2, FS_EmptySet
      <3>2. QED
        BY <1>2, <2>1, <3>1, PutConfig
    <2>3. QED
      BY <2>1, <2>2
  <1> HIDE DEF config
  <1>5. /\ DOMAIN next = {"in", "config"} /\ next = [f \in DOMAIN next |-> next[f]]
        /\ next.in = line.name /\ next.config = config
    BY <1>1
  <1>6. Parsed(next)
    BY <1>3, <1>4, <1>5 DEF Parsed
  <1>7. QED
    BY <1>3, <1>5, <1>6

(* An entry is added to the section that is open. *)
LEMMA ParseEntry ==
  ASSUME NEW acc, Parsed(acc), NEW line, IsLine(line), line.type = "entry",
         NEW next, next = ParseLine(acc, line)
  PROVE  /\ Parsed(next) /\ next.in = acc.in
         /\ DOMAIN next.config = DOMAIN acc.config
         /\ \A s \in DOMAIN acc.config :
              s # acc.in => next.config[s] = acc.config[s]
         /\ next.config[acc.in] = Put(acc.config[acc.in], line.key, line.value)
  <1> DEFINE map == Put(acc.config[acc.in], line.key, line.value)
             config == Put(acc.config, acc.in, map)
  <1>1. next = [acc EXCEPT !.config = config]
    BY DEF ParseLine
  <1>2. IsValue(line.value)
    BY DEF IsLine, IsValue
  <1>3. /\ acc.in \in DOMAIN acc.config /\ IsConfig(acc.config)
        /\ DOMAIN acc = {"in", "config"} /\ acc = [f \in DOMAIN acc |-> acc[f]]
    BY DEF Parsed
  <1>4. /\ IsFiniteSet(DOMAIN acc.config[acc.in])
        /\ \A key \in DOMAIN acc.config[acc.in] : IsValue(acc.config[acc.in][key])
    BY <1>3 DEF IsConfig
  <1>5. IsFiniteSet(DOMAIN map) /\ \A key \in DOMAIN map : IsValue(map[key])
    <2>1. /\ DOMAIN map = DOMAIN acc.config[acc.in] \cup {line.key}
          /\ map[line.key] = line.value
          /\ \A k \in DOMAIN acc.config[acc.in] :
               k # line.key => map[k] = acc.config[acc.in][k]
      <3>1. PutOn(map, acc.config[acc.in], line.key, line.value)
        BY PutIs
      <3> HIDE DEF map
      <3>2. QED
        BY <3>1 DEF PutOn
    <2> HIDE DEF map
    <2>2. IsFiniteSet(DOMAIN map)
      BY <1>4, <2>1, FS_AddElement
    <2>3. QED
      BY <1>2, <1>4, <2>1, <2>2
  <1> HIDE DEF map
  <1>6. /\ DOMAIN config = DOMAIN acc.config \cup {acc.in}
        /\ config[acc.in] = map
        /\ \A s \in DOMAIN acc.config : s # acc.in => config[s] = acc.config[s]
    <2>1. PutOn(config, acc.config, acc.in, map)
      BY PutIs
    <2> HIDE DEF config
    <2>2. QED
      BY <2>1 DEF PutOn
  <1>7. IsConfig(config)
    BY <1>3, <1>5, PutConfig
  <1> HIDE DEF config
  <1>8. /\ DOMAIN next = {"in", "config"} /\ next = [f \in DOMAIN next |-> next[f]]
        /\ next.in = acc.in /\ next.config = config
    BY <1>1, <1>3
  <1>9. Parsed(next)
    BY <1>3, <1>6, <1>7, <1>8 DEF Parsed
  <1>10. QED
    BY <1>3, <1>6, <1>8, <1>9 DEF map

LEMMA ParseFiller ==
  ASSUME NEW acc, NEW line, line.type = "filler"
  PROVE  ParseLine(acc, line) = acc
  BY DEF ParseLine

(* The states it goes through. *)
LEMMA ParseRun ==
  ASSUME NEW file \in Seq(Alphabet)
  PROVE  \E run :
           /\ run[0] = [in |-> "", config |-> [s \in {""} |-> EmptyMap]]
           /\ \A k \in 0..(Len(file) - 1) :
                run[k + 1] = ParseLine(run[k], file[k + 1])
           /\ \A k \in 0..Len(file) : Parsed(run[k])
           /\ GetConfigFileAsObject(file) = run[Len(file)].config
  <1> DEFINE base == [in |-> "", config |-> [s \in {""} |-> EmptyMap]]
             n == Len(file)
  <1>1. n \in Nat /\ DOMAIN file = 1..n
    OBVIOUS
  <1>2. GetConfigFileAsObject(file) = FoldLeft(ParseLine, base, file).config
    BY DEF GetConfigFileAsObject
  <1>3. Parsed(base)
    <2> DEFINE config == [s \in {""} |-> EmptyMap]
    <2>1. DOMAIN EmptyMap = {} /\ DOMAIN config = {""} /\ config[""] = EmptyMap
      BY DEF EmptyMap
    <2>2. IsFiniteSet({""}) /\ IsFiniteSet({})
      BY FS_EmptySet, FS_Singleton
    <2>3. IsConfig(config)
      BY <2>1, <2>2 DEF IsConfig
    <2> HIDE DEF config
    <2>4. base = [in |-> "", config |-> config]
      BY DEF config
    <2>5. QED
      BY <2>1, <2>3, <2>4 DEF Parsed
  <1> HIDE DEF base, n
  <1>4. PICK run : /\ IsRun(run, "parse", "none", base, file, n)
                   /\ FoldLeft(ParseLine, base, file) = run[n]
    BY <1>1, ParseFold
  <1>5. run[0] = base
    BY <1>1, <1>4 DEF IsRun
  <1>6. ASSUME NEW k \in 0..(n - 1) PROVE run[k + 1] = ParseLine(run[k], file[k + 1])
    <2>1. k + 1 \in 0..n /\ k + 1 # 0 /\ (k + 1) - 1 = k
      BY <1>1
    <2>2. run[k + 1] = Step("parse", "none", run[k], file[k + 1])
      BY <1>4, <2>1 DEF IsRun
    <2>3. QED
      BY <2>2 DEF Step
  <1> DEFINE T == {k \in 0..n : Parsed(run[k])}
  <1>7. 0 \in T
    BY <1>1, <1>3, <1>5
  <1>8. ASSUME NEW k \in Nat, k < n, k \in T PROVE k + 1 \in T
    <2>1. k \in 0..(n - 1) /\ k + 1 \in 0..n /\ k + 1 \in 1..n
      BY <1>1, <1>8
    <2> DEFINE line == file[k + 1]
    <2>2. IsLine(line)
      <3>1. line \in Alphabet
        BY <2>1, ElementOfSeq DEF n
      <3>2. QED
        BY <3>1, AlphabetIs
    <2>3. run[k + 1] = ParseLine(run[k], line) /\ Parsed(run[k])
      BY <1>6, <1>8, <2>1
    <2> HIDE DEF line
    <2>4. Parsed(run[k + 1])
      <3>1. CASE line.type = "header"
        BY <2>2, <2>3, <3>1, ParseHeader
      <3>2. CASE line.type = "entry"
        BY <2>2, <2>3, <3>2, ParseEntry
      <3>3. CASE line.type = "filler"
        BY <2>3, <3>3, ParseFiller
      <3>4. QED
        BY <2>2, <3>1, <3>2, <3>3 DEF IsLine
    <2>5. QED
      BY <2>1, <2>4
  <1>9. 0..n \subseteq T
    <2> HIDE DEF T
    <2>1. QED
      BY <1>1, <1>7, <1>8, SetInduction
  <1>10. \A k \in 0..n : Parsed(run[k])
    BY <1>9
  <1>11. QED
    BY <1>2, <1>4, <1>5, <1>6, <1>10 DEF base, n

(* Entries above the first header have no section of the configuration.     *)
LEMMA Named ==
  ASSUME NEW section \in Sections
  PROVE  section \notin DOMAIN [s \in {""} |-> EmptyMap]
  <1>1. "Brokers" # "" /\ "BrokersWebSockets" # ""
    OBVIOUS
  <1>2. QED
    BY <1>1, Zenon DEF Sections

Reads(run, file) ==
    /\ run[0] = [in |-> "", config |-> [s \in {""} |-> EmptyMap]]
    /\ \A k \in 0..(Len(file) - 1) : run[k + 1] = ParseLine(run[k], file[k + 1])
    /\ \A k \in 0..Len(file) : Parsed(run[k])
    /\ GetConfigFileAsObject(file) = run[Len(file)].config

LEMMA ReadStep ==
  ASSUME NEW file \in Seq(Alphabet), NEW run, Reads(run, file),
         NEW k \in Nat, k < Len(file)
  PROVE  /\ k + 1 \in 1..Len(file) /\ IsLine(file[k + 1]) /\ Parsed(run[k])
         /\ run[k + 1] = ParseLine(run[k], file[k + 1])
  <1>1. /\ Len(file) \in Nat /\ k \in 0..(Len(file) - 1) /\ k \in 0..Len(file)
        /\ k + 1 \in 1..Len(file)
    OBVIOUS
  <1>2. file[k + 1] \in Alphabet
    BY <1>1, ElementOfSeq
  <1>3. IsLine(file[k + 1])
    BY <1>2, AlphabetIs
  <1>4. QED
    BY <1>1, <1>3 DEF Reads

(* A section is not there before its header. *)
LEMMA ReadUnopened ==
  ASSUME NEW file \in Seq(Alphabet), NEW run, Reads(run, file),
         NEW section, section \in Sections, NEW m \in 0..Len(file),
         \A i \in 1..m : file[i] # Header(section)
  PROVE  section \notin DOMAIN run[m].config
  <1> DEFINE T == {k \in 0..m : section \notin DOMAIN run[k].config}
  <1>1. Len(file) \in Nat /\ m \in Nat
    OBVIOUS
  <1>2. 0 \in T
    <2> DEFINE config == [s \in {""} |-> EmptyMap]
    <2>1. section \notin DOMAIN config
      BY Named
    <2> HIDE DEF config
    <2>2. run[0].config = config
      <3> DEFINE nameless == ""
      <3>1. run[0] = [in |-> nameless, config |-> config]
        BY DEF Reads, config
      <3> HIDE DEF nameless
      <3>2. QED
        BY <3>1
    <2>3. QED
      BY <1>1, <2>1, <2>2
  <1>3. ASSUME NEW k \in Nat, k < m, k \in T PROVE k + 1 \in T
    <2> DEFINE line == file[k + 1]
    <2>1. k < Len(file) /\ k + 1 \in 1..m /\ k + 1 \in 0..m
      BY <1>1, <1>3
    <2>2. /\ IsLine(line) /\ Parsed(run[k])
          /\ run[k + 1] = ParseLine(run[k], line)
      BY <2>1, ReadStep
    <2>3. line # Header(section) /\ section \notin DOMAIN run[k].config
      BY <1>3, <2>1
    <2> HIDE DEF line
    <2>4. section \notin DOMAIN run[k + 1].config
      <3>1. CASE line.type = "header"
        <4>1. line.name # section
          BY <2>2, <2>3, <3>1 DEF IsLine
        <4>2. QED
          BY <2>2, <2>3, <3>1, <4>1, ParseHeader
      <3>2. CASE line.type = "entry"
        BY <2>2, <2>3, <3>2, ParseEntry
      <3>3. CASE line.type = "filler"
        BY <2>2, <2>3, <3>3, ParseFiller
      <3>4. QED
        BY <2>2, <3>1, <3>2, <3>3 DEF IsLine
    <2>5. QED
      BY <2>1, <2>4
  <1>4. 0..m \subseteq T
    <2> HIDE DEF T
    <2>1. QED
      BY <1>1, <1>2, <1>3, SetInduction
  <1>5. m \in T
    BY <1>1, <1>4
  <1>6. QED
    BY <1>5

(* The section has been read up to the j-th line of the list. *)
HasRead(acc, section, list, j) ==
    /\ section \in DOMAIN acc.config
    /\ DOMAIN acc.config[section] = {list[i].key : i \in 1..j}
    /\ \A i \in 1..j : acc.config[section][list[i].key] = list[i].value

LEMMA DistinctKeys ==
  ASSUME NEW list \in BrokerLists
  PROVE  /\ \A i, j \in 1..Len(list) : list[i].key = list[j].key => i = j
         /\ \A i \in 1..Len(list) :
              /\ list[i].type = "entry" /\ IsLine(list[i])
              /\ Len(list[i].value) = 4
              /\ ~IsPort(list[i].value[1]) /\ IsPort(list[i].value[2])
  <1>1. /\ list \in Seq(Range(list))
        /\ \A line \in Range(list) :
             /\ line.type = "entry" /\ IsLine(line) /\ Len(line.value) = 4
             /\ line.value[1].int \notin Ports /\ line.value[2].int \in Ports
        /\ \A i, j \in DOMAIN list : list[i].key = list[j].key => i = j
    BY BrokersAssumption
  <1>2. DOMAIN list = 1..Len(list)
    BY <1>1
  <1>3. \A i \in 1..Len(list) : list[i] \in Range(list)
    BY <1>1, ElementOfSeq
  <1>4. \A i \in 1..Len(list) :
          ~IsPort(list[i].value[1]) /\ IsPort(list[i].value[2])
    <2>1. \A i \in 1..Len(list) :
            list[i].value[1].int \notin Ports /\ list[i].value[2].int \in Ports
      BY <1>1, <1>3
    <2>2. \A element : IsPort(element) <=> element.int \in Ports
      BY DEF IsPort, Ports
    <2>3. QED
      BY <2>1, <2>2
  <1>5. QED
    BY <1>1, <1>2, <1>3, <1>4

LEMMA ReadOneMore ==
  ASSUME NEW list \in BrokerLists, NEW acc, Parsed(acc), NEW j \in Nat,
         j < Len(list), HasRead(acc, acc.in, list, j),
         NEW next, next = ParseLine(acc, list[j + 1])
  PROVE  Parsed(next) /\ next.in = acc.in /\ HasRead(next, acc.in, list, j + 1)
  <1> DEFINE line == list[j + 1]
             map == acc.config[acc.in]
             put == Put(map, line.key, line.value)
  <1>1. Len(list) \in Nat
    BY Listed
  <1>2. j + 1 \in 1..Len(list) /\ j + 1 \in 1..(j + 1)
    BY <1>1
  <1>3. /\ line.type = "entry" /\ IsLine(line)
        /\ \A i \in 1..j : list[i].key # line.key
    <2>1. line.type = "entry" /\ IsLine(line)
      BY <1>2, DistinctKeys
    <2>2. \A i \in 1..j : i \in 1..Len(list) /\ i # j + 1
      BY <1>1
    <2>3. QED
      BY <1>2, <2>1, <2>2, DistinctKeys
  <1> HIDE DEF line
  <1>4. /\ Parsed(next) /\ next.in = acc.in
        /\ DOMAIN next.config = DOMAIN acc.config /\ next.config[acc.in] = put
    BY <1>3, ParseEntry DEF line
  <1>5. PutOn(put, map, line.key, line.value)
    BY PutIs
  <1>6. /\ acc.in \in DOMAIN acc.config
        /\ DOMAIN map = {list[i].key : i \in 1..j}
        /\ \A i \in 1..j : map[list[i].key] = list[i].value
    BY DEF HasRead
  <1> HIDE DEF map, put
  <1>7. DOMAIN put = {list[i].key : i \in 1..(j + 1)}
    <2>1. 1..(j + 1) = 1..j \cup {j + 1}
      OBVIOUS
    <2>2. DOMAIN put = {list[i].key : i \in 1..j} \cup {line.key}
      BY <1>5, <1>6 DEF PutOn
    <2>3. QED
      BY <2>1, <2>2 DEF line
  <1>8. \A i \in 1..(j + 1) : put[list[i].key] = list[i].value
    <2> TAKE i \in 1..(j + 1)
    <2>1. CASE i = j + 1
      BY <1>5, <2>1 DEF PutOn, line
    <2>2. CASE i # j + 1
      <3>1. i \in 1..j
        BY <2>2
      <3>2. list[i].key \in DOMAIN map /\ list[i].key # line.key
        BY <1>3, <1>6, <3>1
      <3>3. QED
        BY <1>5, <1>6, <3>1, <3>2 DEF PutOn
    <2>3. QED
      BY <2>1, <2>2
  <1>9. QED
    BY <1>4, <1>6, <1>7, <1>8 DEF HasRead

LEMMA ReadList ==
  ASSUME NEW file \in Seq(Alphabet), NEW run, Reads(run, file),
         NEW list \in BrokerLists, NEW section, section \in Sections,
         NEW h \in Nat, NEW q \in Nat, Holds(file, section, list, h, q)
  PROVE  /\ run[h + Len(list)].in = section
         /\ HasRead(run[h + Len(list)], section, list, Len(list))
  <1> DEFINE n == Len(file)
             b == Len(list)
             T == {j \in 0..b : /\ run[h + j].in = section
                                /\ HasRead(run[h + j], section, list, j)}
  <1>1. /\ n \in Nat /\ b \in Nat /\ h \in 1..n /\ file[h] = Header(section)
        /\ \A i \in 1..n : file[i] = Header(section) => i = h
        /\ q \in (h + b + 1)..(n + 1)
        /\ \A i \in 1..b : file[h + i] = list[i]
    BY Listed DEF Holds, At
  <1>2. 0 \in T
    <2>1. h - 1 \in Nat /\ h - 1 < n /\ (h - 1) + 1 = h /\ h - 1 \in 0..n
      BY <1>1
    <2> DEFINE acc == run[h - 1]
               next == run[h]
    <2>2. section \notin DOMAIN acc.config
      <3>1. \A i \in 1..(h - 1) : file[i] # Header(section)
        <4> SUFFICES ASSUME NEW i \in 1..(h - 1), file[i] = Header(section)
                     PROVE  FALSE
          OBVIOUS
        <4>1. i \in 1..n /\ i # h
          BY <1>1
        <4>2. QED
          BY <1>1, <4>1
      <3>2. QED
        BY <2>1, <3>1, ReadUnopened
    <2>3. Parsed(acc) /\ next = ParseLine(acc, file[h]) /\ IsLine(file[h])
      <3>1. /\ Parsed(run[h - 1]) /\ IsLine(file[(h - 1) + 1])
            /\ run[(h - 1) + 1] = ParseLine(run[h - 1], file[(h - 1) + 1])
        BY <2>1, ReadStep
      <3>2. QED
        BY <2>1, <3>1
    <2> HIDE DEF acc, next
    <2>4. file[h].type = "header" /\ file[h].name = section
      BY <1>1 DEF Header
    <2>5. /\ next.in = section /\ section \in DOMAIN next.config
          /\ next.config[section] = EmptyMap
      BY <2>2, <2>3, <2>4, ParseHeader
    <2>6. DOMAIN EmptyMap = {} /\ 1..0 = {}
      BY DEF EmptyMap
    <2>7. HasRead(next, section, list, 0)
      BY <2>5, <2>6 DEF HasRead
    <2>8. h + 0 = h /\ 0 \in 0..b
      BY <1>1
    <2>9. QED
      BY <2>5, <2>7, <2>8 DEF next
  <1>3. ASSUME NEW j \in Nat, j < b, j \in T PROVE j + 1 \in T
    <2> DEFINE k == h + j
    <2>1. /\ k \in Nat /\ k < n /\ k + 1 = h + (j + 1) /\ j + 1 \in 1..b
          /\ j + 1 \in 0..b
      BY <1>1, <1>3
    <2>2. file[k + 1] = list[j + 1]
      BY <1>1, <2>1
    <2> HIDE DEF k
    <2>3. Parsed(run[k]) /\ run[k + 1] = ParseLine(run[k], list[j + 1])
      BY <2>1, <2>2, ReadStep
    <2>4. run[k].in = section /\ HasRead(run[k], section, list, j)
      BY <1>3 DEF k
    <2>5. run[k + 1].in = section /\ HasRead(run[k + 1], section, list, j + 1)
      BY <1>3, <2>3, <2>4, ReadOneMore
    <2>6. QED
      BY <2>1, <2>5
  <1>4. 0..b \subseteq T
    <2> HIDE DEF T, b
    <2>1. QED
      BY <1>1, <1>2, <1>3, SetInduction
  <1>5. b \in T
    BY <1>1, <1>4
  <1>6. QED
    BY <1>5

(* What comes after it is not of the section. *)
LEMMA ReadHeld ==
  ASSUME NEW file \in Seq(Alphabet), NEW run, Reads(run, file),
         NEW list \in BrokerLists, NEW section, section \in Sections,
         NEW h \in Nat, NEW q \in Nat, Holds(file, section, list, h, q)
  PROVE  HasRead(run[Len(file)], section, list, Len(list))
  <1> DEFINE n == Len(file)
             b == Len(list)
             m == h + b
             T == {j \in 0..(n - m) :
                     /\ HasRead(run[m + j], section, list, b)
                     /\ m + j >= q => run[m + j].in # section}
  <1>1. /\ n \in Nat /\ b \in Nat /\ h \in 1..n
        /\ \A i \in 1..n : file[i] = Header(section) => i = h
        /\ q \in (h + b + 1)..(n + 1)
        /\ Fillers(file, h + b + 1, q - 1)
        /\ q <= n => file[q].type = "header"
    BY Listed DEF Holds, At
  <1>2. m \in Nat /\ m <= n /\ m < q /\ n - m \in Nat /\ m + (n - m) = n
    <2>1. n \in Nat /\ b \in Nat /\ h + b + 1 <= q /\ q <= n + 1
      BY <1>1
    <2> HIDE DEF n, b
    <2>2. QED
      BY <2>1
  <1>3. 0 \in T
    <2>1. HasRead(run[m], section, list, b)
      BY ReadList
    <2>2. q \in Nat
      OBVIOUS
    <2> HIDE DEF m, n
    <2>3. m + 0 = m /\ 0 \in 0..(n - m) /\ ~(m >= q)
      BY <1>2, <2>2
    <2>4. QED
      BY <2>1, <2>3
  <1>4. ASSUME NEW j \in Nat, j < n - m, j \in T PROVE j + 1 \in T
    <2> DEFINE k == m + j
               line == file[k + 1]
    <2>1. /\ k \in Nat /\ k < n /\ k + 1 = m + (j + 1) /\ j + 1 \in 0..(n - m)
          /\ k >= m /\ k + 1 \in 1..n
      BY <1>2, <1>4
    <2>2. /\ HasRead(run[k], section, list, b)
          /\ k >= q => run[k].in # section
      BY <1>4
    <2> HIDE DEF k, m
    <2>3. /\ IsLine(line) /\ Parsed(run[k]) /\ run[k + 1] = ParseLine(run[k], line)
      BY <2>1, ReadStep
    <2>4. line # Header(section)
      <3>1. k + 1 # h
        BY <1>1, <2>1 DEF m
      <3>2. QED
        BY <1>1, <2>1, <3>1
    <2>5. k + 1 < q => line.type = "filler"
      <3>1. k + 1 < q => k + 1 \in (h + b + 1)..(q - 1)
        BY <1>1, <2>1 DEF m
      <3>2. QED
        BY <1>1, <3>1 DEF Fillers
    <2>6. k + 1 = q => line.type = "header"
      BY <1>1, <2>1
    <2>7. k + 1 < q \/ k + 1 = q \/ k >= q
      BY <1>1, <2>1
    <2> DEFINE acc == run[k]
               next == run[k + 1]
    <2> HIDE DEF line, acc, next
    <2>8. /\ HasRead(next, section, list, b)
          /\ k + 1 >= q => next.in # section
      <3>0. /\ IsLine(line) /\ Parsed(acc) /\ next = ParseLine(acc, line)
            /\ HasRead(acc, section, list, b)
            /\ k >= q => acc.in # section
        BY <2>2, <2>3 DEF acc, next
      <3>1. CASE line.type = "header"
        <4>1. line.name # section
          BY <2>4, <3>0, <3>1 DEF IsLine
        <4>2. /\ next.in = line.name
              /\ DOMAIN next.config = DOMAIN acc.config \cup {line.name}
              /\ \A s \in DOMAIN acc.config : next.config[s] = acc.config[s]
          BY <3>0, <3>1, ParseHeader
        <4>3. QED
          BY <3>0, <4>1, <4>2 DEF HasRead
      <3>2. CASE line.type = "entry"
        <4>1. k >= q
          BY <2>5, <2>6, <2>7, <3>2
        <4>2. acc.in # section
          BY <3>0, <4>1
        <4>3. /\ next.in = acc.in /\ DOMAIN next.config = DOMAIN acc.config
              /\ \A s \in DOMAIN acc.config :
                   s # acc.in => next.config[s] = acc.config[s]
          BY <3>0, <3>2, ParseEntry
        <4>4. QED
          BY <3>0, <4>2, <4>3 DEF HasRead
      <3>3. CASE line.type = "filler"
        <4>1. next = acc
          BY <3>0, <3>3, ParseFiller
        <4>2. k + 1 >= q => k >= q
          BY <1>1, <2>1, <2>6, <3>3
        <4>3. QED
          BY <3>0, <4>1, <4>2
      <3>4. QED
        BY <3>0, <3>1, <3>2, <3>3 DEF IsLine
    <2>9. QED
      BY <2>1, <2>8 DEF next
  <1>5. 0..(n - m) \subseteq T
    <2> HIDE DEF T, m, n
    <2>1. QED
      BY <1>2, <1>3, <1>4, SetInduction
  <1>6. n - m \in T
    <2>1. n - m \in 0..(n - m)
      BY <1>2
    <2> HIDE DEF T, m, n
    <2>2. QED
      BY <1>5, <2>1
  <1> HIDE DEF m
  <1>7. QED
    BY <1>2, <1>6

-----------------------------------------------------------------------------
(* What updateConfig() wrote is read again *)

LEMMA ParseListed ==
  ASSUME NEW list \in BrokerLists, NEW i \in 1..Len(list),
         NEW value, value = list[i].value
  PROVE  /\ WellFormedBroker(value)
         /\ ParseBroker(value) = [uniqueId |-> value[1].text,
                                  port |-> value[2].int,
                                  hosts |-> SubSeq(value, 3, 4)]
  <1>1. Len(value) = 4 /\ ~IsPort(value[1]) /\ IsPort(value[2])
    BY DistinctKeys
  <1>2. PortPosition(value) = 2
    BY <1>1 DEF PortPosition
  <1>3. WellFormedBroker(value)
    BY <1>1, <1>2 DEF WellFormedBroker
  <1>4. 2 # 1 /\ 2 + 1 = 3
    OBVIOUS
  <1>5. ParseBroker(value) = [uniqueId |-> value[1].text, port |-> value[2].int,
                              hosts |-> SubSeq(value, 3, 4)]
    BY <1>1, <1>2, <1>4, Zenon DEF ParseBroker
  <1>6. QED
    BY <1>3, <1>5

LEMMA ReadSection ==
  ASSUME NEW file \in Seq(Alphabet), NEW list \in BrokerLists,
         NEW section \in Sections, SectionIs(file, section, list),
         NEW config, config = GetConfigFileAsObject(file)
  PROVE  /\ BrokersFine(config, section)
         /\ section \in DOMAIN config =>
              Brokers(config, section)
                = {[uniqueId |-> list[i].value[1].text,
                    port |-> list[i].value[2].int,
                    hosts |-> SubSeq(list[i].value, 3, 4)] : i \in DOMAIN list}
  <1> DEFINE n == Len(file)
             Read(i) == [uniqueId |-> list[i].value[1].text,
                         port |-> list[i].value[2].int,
                         hosts |-> SubSeq(list[i].value, 3, 4)]
  <1>0. n \in Nat /\ n \in 0..n
    OBVIOUS
  <1>1. PICK run : Reads(run, file) /\ config = run[n].config
    BY ParseRun DEF Reads
  <1>2. CASE Absent(file, section)
    <2>1. section \notin DOMAIN config
      BY <1>0, <1>1, <1>2, ReadUnopened DEF Absent
    <2>2. QED
      BY <2>1 DEF BrokersFine
  <1>3. CASE \E h, q \in Nat : Holds(file, section, list, h, q)
    <2>1. HasRead(run[n], section, list, Len(list))
      BY <1>1, <1>3, ReadHeld
    <2>2. list \in Seq(Alphabet) /\ DOMAIN list = 1..Len(list)
      BY Listed
    <2> DEFINE map == config[section]
    <2>3. /\ section \in DOMAIN config
          /\ DOMAIN map = {list[i].key : i \in DOMAIN list}
          /\ \A i \in DOMAIN list : map[list[i].key] = list[i].value
      BY <1>1, <2>1, <2>2 DEF HasRead
    <2>4. \A i \in DOMAIN list : /\ WellFormedBroker(map[list[i].key])
                                 /\ ParseBroker(map[list[i].key]) = Read(i)
      <3> SUFFICES ASSUME NEW i \in DOMAIN list
                   PROVE  /\ WellFormedBroker(list[i].value)
                          /\ ParseBroker(list[i].value) = Read(i)
        BY <2>3
      <3>1. QED
        BY <2>2, ParseListed
    <2> HIDE DEF map, Read
    <2>5. BrokersFine(config, section)
      BY <2>3, <2>4 DEF BrokersFine, map
    <2>6. {ParseBroker(map[key]) : key \in DOMAIN map} = {Read(i) : i \in DOMAIN list}
      <3>1. ASSUME NEW x \in {ParseBroker(map[key]) : key \in DOMAIN map}
            PROVE  x \in {Read(i) : i \in DOMAIN list}
        BY <2>3, <2>4
      <3>2. ASSUME NEW x \in {Read(i) : i \in DOMAIN list}
            PROVE  x \in {ParseBroker(map[key]) : key \in DOMAIN map}
        BY <2>3, <2>4
      <3>3. QED
        BY <3>1, <3>2
    <2>7. Brokers(config, section) = {Read(i) : i \in DOMAIN list}
      BY <2>3, <2>6 DEF Brokers, map
    <2>8. QED
      BY <2>5, <2>7 DEF Read
  <1>4. QED
    BY <1>2, <1>3 DEF SectionIs

-----------------------------------------------------------------------------
(* The invariant *)

(* The lines are lines there may be, and no section is opened twice; after  *)
(* an update that succeeded each section holds what was written to it.  The *)
(* last is what RoundTripInv needs: it is false in between, while the       *)
(* second list is not written yet, and no other property says it.           *)
FileInv ==
    /\ lines \in Seq(Alphabet) /\ OpenedOnce(lines)
    /\ outcome = "updated" =>
         \A s \in Sections :
           given[s] \in BrokerLists /\ SectionIs(lines, s, given[s])

LEMMA InitFile == Init => FileInv
  <1> SUFFICES ASSUME Init PROVE FileInv
    OBVIOUS
  <1>1. lines \in Heads /\ outcome # "updated"
    BY DEF Init
  <1>2. lines \in Seq(Alphabet)
    BY <1>1, AlphabetIs
  <1>3. OpenedOnce(lines)
    BY <1>1, HeadsAssumption
  <1>4. QED
    BY <1>1, <1>2, <1>3 DEF FileInv

LEMMA EditFile ==
  ASSUME FileInv, NEW line \in EditLines, Edit(line)
  PROVE  FileInv'
  <1> DEFINE n == Len(lines)
  <1>1. /\ lines \in Seq(Alphabet) /\ OpenedOnce(lines) /\ line \in Alphabet
        /\ n \in Nat /\ DOMAIN lines = 1..n
    BY DEF FileInv, Alphabet
  <1>2. /\ lines' = Append(lines, line) /\ outcome' # "updated"
        /\ line.type = "header" => line \notin Range(lines)
    BY DEF Edit
  <1>3. /\ lines' \in Seq(Alphabet) /\ Len(lines') = n + 1
        /\ \A i \in 1..n : lines'[i] = lines[i]
        /\ lines'[n + 1] = line
    BY <1>1, <1>2, AppendProperties
  <1>4. line.type = "header" => \A i \in 1..n : lines[i] # line
    BY <1>1, <1>2, RangeEquality
  <1>5. ASSUME NEW i \in 1..(n + 1), NEW j \in 1..(n + 1),
               lines'[i].type = "header", lines'[i] = lines'[j]
        PROVE  i = j
    <2>1. CASE i \in 1..n /\ j \in 1..n
      BY <1>1, <1>3, <1>5, <2>1 DEF OpenedOnce
    <2>2. CASE i = n + 1 /\ j \in 1..n
      BY <1>3, <1>4, <1>5, <2>2
    <2>3. CASE i \in 1..n /\ j = n + 1
      BY <1>3, <1>4, <1>5, <2>3
    <2>4. QED
      BY <1>1, <2>1, <2>2, <2>3
  <1>6. DOMAIN lines' = 1..(n + 1)
    BY <1>3
  <1>7. OpenedOnce(lines')
    BY <1>5, <1>6 DEF OpenedOnce
  <1>8. QED
    BY <1>2, <1>3, <1>7 DEF FileInv, OpenedOnce

LEMMA UpdateFile ==
  ASSUME FileInv, NEW brokers \in BrokerLists, NEW wsBrokers \in BrokerLists,
         UpdateConfig(brokers, wsBrokers)
  PROVE  FileInv'
  <1> DEFINE first == UpdateBrokerList(lines, brokers, "Brokers")
             second == UpdateBrokerList(first, wsBrokers, "BrokersWebSockets")
  <1>1. lines \in Seq(Alphabet) /\ OpenedOnce(lines)
    BY DEF FileInv
  <1>2. /\ given' = [s \in Sections |-> IF s = "Brokers" THEN brokers ELSE wsBrokers]
        /\ \/ first # Failed /\ second # Failed
                /\ lines' = second /\ outcome' = "updated"
           \/ first # Failed /\ second = Failed
                /\ lines' = first /\ outcome' = "failed"
           \/ first = Failed /\ lines' = lines /\ outcome' = "failed"
    BY DEF UpdateConfig
  <1>3. first # Failed =>
          /\ first \in Seq(Alphabet) /\ OpenedOnce(first)
          /\ SectionIs(first, "Brokers", brokers)
    BY <1>1, UpdateKeeps
  <1> HIDE DEF first
  <1>4. first # Failed /\ second # Failed =>
          /\ second \in Seq(Alphabet) /\ OpenedOnce(second)
          /\ SectionIs(second, "BrokersWebSockets", wsBrokers)
          /\ SectionIs(second, "Brokers", brokers)
    <2> SUFFICES ASSUME first # Failed, second # Failed
                 PROVE  /\ second \in Seq(Alphabet) /\ OpenedOnce(second)
                        /\ SectionIs(second, "BrokersWebSockets", wsBrokers)
                        /\ SectionIs(second, "Brokers", brokers)
      OBVIOUS
    <2>1. /\ second \in Seq(Alphabet) /\ OpenedOnce(second)
          /\ SectionIs(second, "BrokersWebSockets", wsBrokers)
          /\ \A other, l :
               other # "BrokersWebSockets" /\ l \in BrokerLists
               /\ SectionIs(first, other, l) => SectionIs(second, other, l)
      BY <1>3, UpdateKeeps
    <2>2. "Brokers" # "BrokersWebSockets"
      OBVIOUS
    <2> HIDE DEF second
    <2>3. QED
      BY <1>3, <2>1, <2>2
  <1> HIDE DEF second
  <1>5. CASE outcome' = "updated"
    <2>1. first # Failed /\ second # Failed /\ lines' = second
      BY <1>2, <1>5
    <2>2. ASSUME NEW s \in Sections
          PROVE  given'[s] \in BrokerLists /\ SectionIs(second, s, given'[s])
      BY <1>2, <1>4, <2>1 DEF Sections
    <2>3. QED
      BY <1>4, <2>1, <2>2 DEF FileInv, OpenedOnce, SectionIs, Absent, Holds, At,
         Fillers
  <1>6. CASE outcome' # "updated"
    <2>1. lines' \in Seq(Alphabet) /\ OpenedOnce(lines')
      BY <1>1, <1>2, <1>3, <1>6
    <2>2. QED
      BY <1>6, <2>1 DEF FileInv, OpenedOnce
  <1>7. QED
    BY <1>5, <1>6

(* After an update that succeeded, updateConfig() in update-config.js, each  *)
(* section holds the brokers it was given, however the file was edited and  *)
(* updated before; no section is ever opened twice.                         *)
THEOREM Invariant == Spec => []FileInv
  <1>1. FileInv /\ [Next]_vars => FileInv'
    <2> SUFFICES ASSUME FileInv, [Next]_vars PROVE FileInv'
      OBVIOUS
    <2>1. CASE UNCHANGED vars
      BY <2>1 DEF FileInv, vars, OpenedOnce, SectionIs, Absent, Holds, At, Fillers
    <2>2. CASE Next
      BY <2>2, EditFile, UpdateFile DEF Next
    <2>3. QED
      BY <2>1, <2>2
  <1>2. QED
    BY <1>1, InitFile, PTL DEF Spec

-----------------------------------------------------------------------------
(* The addresses a client tries *)

(* No address twice. *)
Distinct(servers, U) ==
    /\ servers \in Seq(U)
    /\ \A i, j \in 1..Len(servers) : servers[i] = servers[j] => i = j
(* None of those before is lost. *)
Keeps(servers, next, U) == \A x \in U : Contains(servers, x) => Contains(next, x)
Address(broker, host) == [host |-> host.text, port |-> broker.port]

LEMMA AddHostIs ==
  ASSUME NEW U, NEW servers, Distinct(servers, U), NEW broker, NEW host,
         Address(broker, host) \in U,
         NEW next, next = AddHost(broker, servers, host)
  PROVE  /\ Distinct(next, U) /\ Keeps(servers, next, U)
         /\ Contains(next, Address(broker, host))
  <1> DEFINE x == Address(broker, host)
             n == Len(servers)
  <1>1. /\ servers \in Seq(U) /\ n \in Nat
        /\ \A i, j \in 1..n : servers[i] = servers[j] => i = j
    BY DEF Distinct
  <1>2. next = IF Contains(servers, x) THEN servers ELSE Append(servers, x)
    BY DEF AddHost, Address
  <1> HIDE DEF x
  <1>3. CASE Contains(servers, x)
    BY <1>2, <1>3 DEF Keeps, x
  <1>4. CASE ~Contains(servers, x)
    <2>1. next = Append(servers, x) /\ x \in U
      BY <1>2, <1>4 DEF x
    <2>2. /\ next \in Seq(U) /\ Len(next) = n + 1
          /\ \A i \in 1..n : next[i] = servers[i]
          /\ next[n + 1] = x
      BY <1>1, <2>1, AppendProperties
    <2> HIDE DEF n
    <2>3. \A i \in 1..n : servers[i] # x
      BY <1>4 DEF Contains, n
    <2>4. ASSUME NEW i \in 1..(n + 1), NEW j \in 1..(n + 1), next[i] = next[j]
          PROVE  i = j
      <3>1. CASE i \in 1..n /\ j \in 1..n
        BY <1>1, <2>2, <2>4, <3>1
      <3>2. CASE i = n + 1 /\ j \in 1..n
        BY <2>2, <2>3, <2>4, <3>2
      <3>3. CASE i \in 1..n /\ j = n + 1
        BY <2>2, <2>3, <2>4, <3>3
      <3>4. QED
        BY <1>1, <3>1, <3>2, <3>3
    <2>5. Distinct(next, U)
      BY <2>2, <2>4 DEF Distinct
    <2>6. ASSUME NEW y, Contains(servers, y) PROVE Contains(next, y)
      <3>1. PICK i \in 1..n : servers[i] = y
        BY <2>6 DEF Contains, n
      <3>2. i \in 1..(n + 1) /\ next[i] = y
        BY <1>1, <2>2, <3>1
      <3>3. QED
        BY <2>2, <3>2 DEF Contains
    <2>7. Contains(next, x)
      <3>1. n + 1 \in 1..(n + 1)
        BY <1>1
      <3>2. QED
        BY <2>2, <3>1 DEF Contains
    <2>8. QED
      BY <2>5, <2>6, <2>7 DEF Keeps, x
  <1>5. QED
    BY <1>3, <1>4

LEMMA KeepsTransitive ==
  ASSUME NEW U, NEW a, NEW b, NEW c, Keeps(a, b, U), Keeps(b, c, U)
  PROVE  Keeps(a, c, U)
  BY DEF Keeps

LEMMA AddHostsIs ==
  ASSUME NEW U, NEW servers, Distinct(servers, U), NEW broker,
         NEW H, NEW hosts \in Seq(H),
         \A i \in 1..Len(hosts) : Address(broker, hosts[i]) \in U,
         NEW next, next = AddHosts(broker, servers, hosts)
  PROVE  /\ Distinct(next, U) /\ Keeps(servers, next, U)
         /\ \A i \in 1..Len(hosts) : Contains(next, Address(broker, hosts[i]))
  <1> DEFINE n == Len(hosts)
             All(acc, k) ==
               /\ Distinct(acc, U) /\ Keeps(servers, acc, U)
               /\ \A i \in 1..k : Contains(acc, Address(broker, hosts[i]))
  <1>1. n \in Nat /\ DOMAIN hosts = 1..n
    OBVIOUS
  <1> HIDE DEF n
  <1>2. PICK run : IsRun(run, "host", broker, servers, hosts, n) /\ next = run[n]
    BY <1>1, HostFold
  <1>3. run[0] = servers
    BY <1>1, <1>2 DEF IsRun
  <1>4. ASSUME NEW k \in 0..(n - 1)
        PROVE  run[k + 1] = AddHost(broker, run[k], hosts[k + 1])
    <2>1. k + 1 \in 0..n /\ k + 1 # 0 /\ (k + 1) - 1 = k
      BY <1>1
    <2>2. run[k + 1] = Step("host", broker, run[k], hosts[k + 1])
      BY <1>2, <2>1 DEF IsRun
    <2>3. QED
      BY <2>2 DEF Step
  <1> DEFINE T == {k \in 0..n : All(run[k], k)}
  <1>5. 0 \in T
    BY <1>1, <1>3 DEF Keeps
  <1>6. ASSUME NEW k \in Nat, k < n, k \in T PROVE k + 1 \in T
    <2> DEFINE x == Address(broker, hosts[k + 1])
    <2>1. k \in 0..(n - 1) /\ k + 1 \in 0..n /\ k + 1 \in 1..n
      BY <1>1, <1>6
    <2>2. All(run[k], k)
      BY <1>6
    <2>3. x \in U
      BY <2>1 DEF n
    <2>4. run[k + 1] = AddHost(broker, run[k], hosts[k + 1])
      BY <1>4, <2>1
    <2>5. /\ Distinct(run[k + 1], U) /\ Keeps(run[k], run[k + 1], U)
          /\ Contains(run[k + 1], x)
      BY <2>2, <2>3, <2>4, AddHostIs
    <2>6. Keeps(servers, run[k + 1], U)
      BY <2>2, <2>5, KeepsTransitive
    <2> HIDE DEF x
    <2>7. ASSUME NEW i \in 1..(k + 1)
          PROVE  Contains(run[k + 1], Address(broker, hosts[i]))
      <3>1. CASE i = k + 1
        BY <2>5, <3>1 DEF x
      <3>2. CASE i # k + 1
        <4>1. i \in 1..k /\ i \in 1..n
          <5>1. i \in Int /\ i >= 1 /\ i <= k /\ i <= n
            BY <1>1, <1>6, <3>2
          <5>2. QED
            BY <5>1
        <4>2. Address(broker, hosts[i]) \in U
          BY <4>1 DEF n
        <4>3. Contains(run[k], Address(broker, hosts[i]))
          BY <2>2, <4>1
        <4>4. QED
          BY <2>5, <4>2, <4>3 DEF Keeps
      <3>3. QED
        BY <3>1, <3>2
    <2>8. QED
      BY <2>1, <2>5, <2>6, <2>7
  <1>7. 0..n \subseteq T
    <2> HIDE DEF T
    <2>1. QED
      BY <1>1, <1>5, <1>6, SetInduction
  <1>8. All(run[n], n)
    BY <1>1, <1>7
  <1>9. QED
    BY <1>2, <1>8 DEF n

(* A broker with as many hosts as there are elements left of its value.     *)
IsBroker(broker) == broker.hosts \in Seq(Range(broker.hosts))
Addresses(B) ==
    UNION {{Address(b, host) : host \in Range(b.hosts)} : b \in B}

LEMMA AddBrokersIs ==
  ASSUME NEW B, NEW brokers \in Seq(B), \A b \in B : IsBroker(b),
         NEW servers, servers = AddBrokers(<<>>, brokers)
  PROVE  /\ Distinct(servers, Addresses(B))
         /\ \A i \in 1..Len(brokers) : \A host \in Range(brokers[i].hosts) :
              Contains(servers, Address(brokers[i], host))
  <1> DEFINE n == Len(brokers)
             U == Addresses(B)
             All(acc, k) ==
               /\ Distinct(acc, U)
               /\ \A i \in 1..k : \A host \in Range(brokers[i].hosts) :
                    Contains(acc, Address(brokers[i], host))
             none == <<>>
  <1>1. n \in Nat /\ DOMAIN brokers = 1..n
    OBVIOUS
  <1>0. Distinct(none, U)
    BY DEF Distinct
  <1> HIDE DEF n, none
  <1>2. PICK run : IsRun(run, "broker", "none", none, brokers, n)
                   /\ AddBrokers(none, brokers) = run[n]
    BY <1>1, BrokerFold
  <1>3. run[0] = none
    BY <1>1, <1>2 DEF IsRun
  <1>4. ASSUME NEW k \in 0..(n - 1)
        PROVE  run[k + 1]
                 = AddHosts(brokers[k + 1], run[k], brokers[k + 1].hosts)
    <2>1. k + 1 \in 0..n /\ k + 1 # 0 /\ (k + 1) - 1 = k
      BY <1>1
    <2>2. run[k + 1] = Step("broker", "none", run[k], brokers[k + 1])
      BY <1>2, <2>1 DEF IsRun
    <2>3. QED
      BY <2>2 DEF Step
  <1>5. ASSUME NEW i \in 1..n, NEW host \in Range(brokers[i].hosts)
        PROVE  Address(brokers[i], host) \in U
    <2>1. brokers[i] \in B
      BY <1>5, ElementOfSeq DEF n
    <2> DEFINE own == {Address(brokers[i], h) : h \in Range(brokers[i].hosts)}
               all == {{Address(b, h) : h \in Range(b.hosts)} : b \in B}
    <2>2. Address(brokers[i], host) \in own
      BY <1>5
    <2>3. own \in all
      BY <2>1
    <2> HIDE DEF own, all
    <2>4. Address(brokers[i], host) \in UNION all
      BY <2>2, <2>3
    <2>5. QED
      BY <2>4 DEF all, Addresses
  <1> HIDE DEF U
  <1> DEFINE T == {k \in 0..n : All(run[k], k)}
  <1>6. 0 \in T
    BY <1>0, <1>1, <1>3
  <1>7. ASSUME NEW k \in Nat, k < n, k \in T PROVE k + 1 \in T
    <2> DEFINE broker == brokers[k + 1]
               hosts == broker.hosts
    <2>1. k \in 0..(n - 1) /\ k + 1 \in 0..n /\ k + 1 \in 1..n
      BY <1>1, <1>7
    <2>2. All(run[k], k)
      BY <1>7
    <2>3. hosts \in Seq(Range(hosts))
      <3>1. broker \in B
        BY <2>1, ElementOfSeq DEF n
      <3>2. QED
        BY <3>1 DEF IsBroker
    <2>4. /\ \A i \in 1..Len(hosts) : hosts[i] \in Range(hosts)
          /\ \A h \in Range(hosts) : \E i \in 1..Len(hosts) : h = hosts[i]
      BY <2>3, RangeEquality
    <2>5. \A i \in 1..Len(hosts) : Address(broker, hosts[i]) \in U
      BY <1>5, <2>1, <2>4
    <2>6. run[k + 1] = AddHosts(broker, run[k], hosts)
      BY <1>4, <2>1
    <2> HIDE DEF broker, hosts
    <2>7. /\ Distinct(run[k + 1], U) /\ Keeps(run[k], run[k + 1], U)
          /\ \A i \in 1..Len(hosts) :
               Contains(run[k + 1], Address(broker, hosts[i]))
      BY <2>2, <2>3, <2>5, <2>6, AddHostsIs
    <2>8. ASSUME NEW i \in 1..(k + 1), NEW host \in Range(brokers[i].hosts)
          PROVE  Contains(run[k + 1], Address(brokers[i], host))
      <3>1. CASE i = k + 1
        <4>1. PICK j \in 1..Len(hosts) : host = hosts[j]
          BY <2>4, <2>8, <3>1 DEF hosts, broker
        <4>2. QED
          BY <2>7, <3>1, <4>1 DEF broker
      <3>2. CASE i # k + 1
        <4>1. i \in 1..k /\ i \in 1..n
          <5>1. i \in Int /\ i >= 1 /\ i <= k /\ i <= n
            BY <1>1, <1>7, <3>2
          <5>2. QED
            BY <5>1
        <4>2. Address(brokers[i], host) \in U
          BY <1>5, <2>8, <4>1
        <4>3. Contains(run[k], Address(brokers[i], host))
          BY <2>2, <2>8, <4>1
        <4>4. QED
          BY <2>7, <4>2, <4>3 DEF Keeps
      <3>3. QED
        BY <3>1, <3>2
    <2>9. QED
      BY <2>1, <2>7, <2>8
  <1>8. 0..n \subseteq T
    <2> HIDE DEF T
    <2>1. QED
      BY <1>1, <1>6, <1>7, SetInduction
  <1>9. All(run[n], n)
    <2>1. n \in T
      <3> HIDE DEF T
      <3>1. QED
        BY <1>1, <1>8
    <2> HIDE DEF All
    <2>2. QED
      BY <2>1
  <1>10. servers = run[n]
    BY <1>2 DEF none
  <1>11. QED
    BY <1>9, <1>10 DEF n, U

LEMMA SeqsCover ==
  ASSUME NEW S, IsFiniteSet(S), NEW seq \in SetToSeqs(S)
  PROVE  /\ seq \in Seq(S) /\ Len(seq) \in Nat
         /\ \A x \in S : \E i \in 1..Len(seq) : seq[i] = x
  <1> DEFINE N == Cardinality(S)
  <1>1. N \in Nat
    BY FS_CardinalityType
  <1>2. /\ seq \in [1..N -> S]
        /\ \A i, j \in 1..N : i # j => seq[i] # seq[j]
    BY DEF SetToSeqs
  <1> HIDE DEF N
  <1>3. seq \in Seq(S) /\ Len(seq) = N
    BY <1>1, <1>2
  <1>4. IsFiniteSet(1..N) /\ Cardinality(1..N) = N
    <2>1. /\ IsFiniteSet(1..N)
          /\ Cardinality(1..N) = IF 1 > N THEN 0 ELSE N - 1 + 1
      BY <1>1, FS_Interval
    <2>2. QED
      BY <1>1, <2>1
  <1>5. seq \in Injection(1..N, S)
    BY <1>2 DEF Injection, IsInjective
  <1>6. seq \in Surjection(1..N, S)
    BY <1>4, <1>5, FS_Injection DEF N
  <1>7. \A x \in S : \E i \in 1..N : seq[i] = x
    BY <1>6 DEF Surjection
  <1>8. QED
    BY <1>1, <1>3, <1>7

LEMMA ReadBroker ==
  ASSUME NEW value, IsValue(value), WellFormedBroker(value)
  PROVE  IsBroker(ParseBroker(value))
  <1> DEFINE at == PortPosition(value)
             hosts == SubSeq(value, at + 1, Len(value))
  <1>1. at \in {1, 2}
    BY DEF PortPosition
  <1>2. value \in Seq(Range(value)) /\ Len(value) >= 2 /\ Len(value) \in Nat
    BY DEF IsValue, WellFormedBroker
  <1>3. ParseBroker(value).hosts = hosts
    BY DEF ParseBroker
  <1>4. hosts \in Seq(Range(value))
    <2> HIDE DEF at
    <2>1. at + 1 \in 1..(Len(value) + 1) /\ Len(value) \in ((at + 1) - 1)..Len(value)
      BY <1>1, <1>2
    <2>2. QED
      BY <1>2, <2>1, SubSeqAt
  <1> HIDE DEF hosts
  <1>5. hosts \in Seq(Range(hosts))
    BY <1>4, SeqOfRange
  <1>6. QED
    BY <1>3, <1>5 DEF IsBroker

LEMMA BrokersRead ==
  ASSUME NEW file \in Seq(Alphabet), NEW config,
         config = GetConfigFileAsObject(file),
         NEW section, BrokersFine(config, section)
  PROVE  /\ IsFiniteSet(Brokers(config, section))
         /\ \A b \in Brokers(config, section) : IsBroker(b)
  <1>1. IsConfig(config)
    <2>1. Len(file) \in 0..Len(file)
      OBVIOUS
    <2>2. PICK run : Reads(run, file)
      BY ParseRun DEF Reads
    <2>3. QED
      BY <2>1, <2>2 DEF Reads, Parsed
  <1>2. CASE section \notin DOMAIN config
    BY <1>2, FS_EmptySet DEF Brokers
  <1>3. CASE section \in DOMAIN config
    <2> DEFINE map == config[section]
               f == [key \in DOMAIN map |-> ParseBroker(map[key])]
               all == {ParseBroker(map[key]) : key \in DOMAIN map}
    <2>1. Brokers(config, section) = all
      BY <1>3 DEF Brokers
    <2>2. /\ IsFiniteSet(DOMAIN map)
          /\ \A key \in DOMAIN map : IsValue(map[key]) /\ WellFormedBroker(map[key])
      BY <1>1, <1>3 DEF IsConfig, BrokersFine
    <2> HIDE DEF map
    <2>3. f \in Surjection(DOMAIN map, all)
      BY DEF Surjection
    <2>4. IsFiniteSet(all)
      <3> HIDE DEF f, all
      <3>1. QED
        BY <2>2, <2>3, FS_Surjection
    <2>5. \A b \in all : IsBroker(b)
      BY <2>2, ReadBroker
    <2>6. QED
      BY <2>1, <2>4, <2>5
  <1>4. QED
    BY <1>2, <1>3

LEMMA ServersAre ==
  ASSUME NEW brokers
  PROVE  Servers(brokers) = AddBrokers(<<>>, brokers)
  BY DEF Servers, AddBrokers, AddHosts, AddHost

LEMMA BrokerFound ==
  ASSUME NEW B, NEW brokers \in Seq(B), NEW j \in 1..Len(brokers), NEW server,
         Serves(brokers[j], server)
  PROVE  BrokerOf(brokers, server) # 0
  <1> DEFINE I == {i \in 1..Len(brokers) : Serves(brokers[i], server)}
  <1>1. Len(brokers) \in Nat
    OBVIOUS
  <1>2. BrokerOf(brokers, server) = IF I # {} THEN Min(I) ELSE 0
    BY DEF BrokerOf, SelectInSeq
  <1>3. I \in SUBSET (1..Len(brokers)) /\ I # {}
    OBVIOUS
  <1> HIDE DEF I
  <1>4. \E m \in I : \A n \in I : m <= n
    <2>1. I \in SUBSET Nat
      BY <1>1, <1>3
    <2>2. QED
      BY <1>3, <2>1, NatMinimum
  <1>5. Min(I) \in I
    <2> DEFINE P(x) == \A y \in I : x =< y
    <2>1. (CHOOSE x \in I : P(x)) \in I
      <3> HIDE DEF P
      <3>1. (\E x \in I : P(x)) => (CHOOSE x \in I : P(x)) \in I
        OBVIOUS
      <3>2. QED
        BY <1>4, <3>1 DEF P
    <2>2. QED
      BY <2>1 DEF Min
  <1>6. QED
    BY <1>2, <1>3, <1>5

LEMMA AllServers ==
  ASSUME NEW B, IsFiniteSet(B), \A b \in B : IsBroker(b),
         NEW brokers \in SetToSeqs(B)
  PROVE  LET servers == Servers(brokers)
         IN  /\ IsInjective(servers)
             /\ \A b \in B : \A host \in Range(b.hosts) :
                  Contains(servers, [host |-> host.text, port |-> b.port])
             /\ \A i \in DOMAIN servers : BrokerOf(brokers, servers[i]) # 0
  <1> DEFINE servers == Servers(brokers)
  <1>1. /\ brokers \in Seq(B) /\ Len(brokers) \in Nat
        /\ \A b \in B : \E i \in 1..Len(brokers) : brokers[i] = b
    BY SeqsCover
  <1>2. /\ Distinct(servers, Addresses(B))
        /\ \A i \in 1..Len(brokers) : \A host \in Range(brokers[i].hosts) :
             Contains(servers, Address(brokers[i], host))
    BY <1>1, ServersAre, AddBrokersIs
  <1> HIDE DEF servers
  <1>3. DOMAIN servers = 1..Len(servers) /\ servers \in Seq(Addresses(B))
    BY <1>2 DEF Distinct
  <1>4. IsInjective(servers)
    BY <1>2, <1>3 DEF Distinct, IsInjective
  <1>5. ASSUME NEW b \in B, NEW host \in Range(b.hosts)
        PROVE  Contains(servers, [host |-> host.text, port |-> b.port])
    <2>1. PICK i \in 1..Len(brokers) : brokers[i] = b
      BY <1>1
    <2>2. Contains(servers, Address(b, host))
      BY <1>2, <1>5, <2>1
    <2>3. QED
      BY <2>2 DEF Address
  <1>6. ASSUME NEW i \in DOMAIN servers PROVE BrokerOf(brokers, servers[i]) # 0
    <2>1. servers[i] \in Addresses(B)
      BY <1>3, <1>6, ElementOfSeq
    <2>2. PICK b \in B : servers[i] \in {Address(b, host) : host \in Range(b.hosts)}
      BY <2>1 DEF Addresses
    <2>3. PICK host \in Range(b.hosts) : servers[i] = Address(b, host)
      BY <2>2
    <2>4. PICK j \in 1..Len(brokers) : brokers[j] = b
      BY <1>1
    <2>5. Serves(b, servers[i])
      BY <2>3 DEF Serves, Address
    <2>6. QED
      BY <1>1, <2>4, <2>5, BrokerFound
  <1>7. QED
    BY <1>4, <1>5, <1>6 DEF servers

-----------------------------------------------------------------------------
(* The theorems *)

(* Whatever people wrote into the file, updateBrokerListInConfigFile()      *)
(* fails or replaces what is in the section and nothing else.               *)
THEOREM Replacement == Spec => []ReplacesInv
  <1>1. FileInv => ReplacesInv
    <2> SUFFICES ASSUME FileInv, NEW section \in Sections,
                        NEW brokerLines \in BrokerLists
                 PROVE  UpdateBrokerList(lines, brokerLines, section)
                          \in {Failed,
                               Expected(lines, brokerLines, section)
                                 \o IF LastSection(lines, section)
                                      THEN <<Blank>> ELSE <<>>}
      BY DEF ReplacesInv
    <2>1. brokerLines \in Seq(Alphabet)
      BY Listed
    <2>2. QED
      BY <2>1, Replaces DEF FileInv
  <1>2. QED
    BY <1>1, Invariant, PTL

(* A second update with the same brokers finds the file as it has to be.    *)
THEOREM Idempotence == Spec => []IdempotentInv
  <1>1. FileInv => IdempotentInv
    <2> SUFFICES ASSUME FileInv, NEW section \in Sections,
                        NEW brokerLines \in BrokerLists,
                        UpdateBrokerList(lines, brokerLines, section) # Failed
                 PROVE  LET file == UpdateBrokerList(lines, brokerLines, section)
                        IN  UpdateBrokerList(file, brokerLines, section) = file
      BY DEF IdempotentInv
    <2>1. QED
      BY Repeats DEF FileInv
  <1>2. QED
    BY <1>1, Invariant, PTL

(* createDxlConfigFromFile() reads the brokers that updateConfig() wrote,   *)
(* in a file that loads if its settings are fine.                           *)
THEOREM RoundTrip == Spec => []RoundTripInv
  <1>1. FileInv => RoundTripInv
    <2> DEFINE config == GetConfigFileAsObject(lines)
               Given(s) == {[uniqueId |-> given[s][i].value[1].text,
                             port |-> given[s][i].value[2].int,
                             hosts |-> SubSeq(given[s][i].value, 3, 4)] :
                              i \in DOMAIN given[s]}
    <2> SUFFICES ASSUME FileInv, outcome = "updated"
                 PROVE  /\ SettingsFine(config) => Loads(config)
                        /\ \A s \in Sections \cap DOMAIN config :
                             Brokers(config, s) = Given(s)
      BY DEF RoundTripInv
    <2>1. ASSUME NEW s \in Sections
          PROVE  /\ BrokersFine(config, s)
                 /\ s \in DOMAIN config => Brokers(config, s) = Given(s)
      <3>1. /\ lines \in Seq(Alphabet)
            /\ given[s] \in BrokerLists /\ SectionIs(lines, s, given[s])
        BY DEF FileInv
      <3>2. QED
        BY <3>1, ReadSection
    <2> HIDE DEF config, Given
    <2>2. BrokersFine(config, "Brokers") /\ BrokersFine(config, "BrokersWebSockets")
      BY <2>1 DEF Sections
    <2>3. QED
      BY <2>1, <2>2 DEF Loads
  <1>2. QED
    BY <1>1, Invariant, PTL

(* The constructor of Client takes every address of the brokers, none of    *)
(* them twice, in whatever order the file has them, and the 'connect' event *)
(* finds a broker for each; where there are brokers it has some to try.     *)
THEOREM ServersTried == Spec => []ServersInv
  <1>1. FileInv => ServersInv
    <2> DEFINE config == GetConfigFileAsObject(lines)
               read == CreateDxlConfigFromFile(config)
               Asked == HasSetting(config, "General", "UseWebSockets")
    <2> SUFFICES ASSUME FileInv, Loads(config)
                 PROVE  /\ read.brokers = {} =>
                             \/ \A s \in Sections : Brokers(config, s) = {}
                             \/ Asked
                        /\ \A brokers \in SetToSeqs(read.brokers) :
                             LET servers == Servers(brokers)
                             IN  /\ IsInjective(servers)
                                 /\ \A b \in read.brokers :
                                      \A host \in Range(b.hosts) :
                                        Contains(servers, [host |-> host.text,
                                                           port |-> b.port])
                                 /\ \A i \in DOMAIN servers :
                                      BrokerOf(brokers, servers[i]) # 0
      BY DEF ServersInv
    <2>1. lines \in Seq(Alphabet)
      BY DEF FileInv
    <2>2. /\ BrokersFine(config, "Brokers")
          /\ BrokersFine(config, "BrokersWebSockets")
      BY DEF Loads
    <2> DEFINE plain == Brokers(config, "Brokers")
               web == Brokers(config, "BrokersWebSockets")
    <2>3. /\ IsFiniteSet(plain) /\ \A b \in plain : IsBroker(b)
          /\ IsFiniteSet(web) /\ \A b \in web : IsBroker(b)
      BY <2>1, <2>2, BrokersRead
    <2>4. read.brokers = IF UseWebSockets(config) THEN web ELSE plain
      BY DEF CreateDxlConfigFromFile
    <2>5. UseWebSockets(config) => Asked \/ (web # {} /\ plain = {})
      BY DEF UseWebSockets
    <2>6. web # {} /\ plain = {} => UseWebSockets(config)
      BY DEF UseWebSockets
    <2>7. \A s \in Sections : Brokers(config, s) \in {web, plain}
      BY DEF Sections
    <2> HIDE DEF config, read, Asked, plain, web
    <2>8. IsFiniteSet(read.brokers) /\ \A b \in read.brokers : IsBroker(b)
      BY <2>3, <2>4
    <2>9. read.brokers = {} =>
            (\A s \in Sections : Brokers(config, s) = {}) \/ Asked
      BY <2>4, <2>5, <2>6, <2>7
    <2>10. QED
      BY <2>8, <2>9, AllServers
  <1>2. QED
    BY <1>1, Invariant, PTL
=============================================================================
