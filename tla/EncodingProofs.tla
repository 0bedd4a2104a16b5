--------------------------- MODULE EncodingProofs ---------------------------
(***************************************************************************)
(* What the encodings of a request write is what their readers read, for   *)
(* every sequence of bytes: Base64, its URL form and the query string.     *)
(*                                                                         *)
(* The readers are automata.  RunConcat says that an automaton may read a  *)
(* text part by part, FlattenAppend that a text is written part by part;   *)
(* each round trip is then an induction over the parts.                    *)
(***************************************************************************)
EXTENDS Encoding, SequenceTheorems, WellFoundedInduction, TLAPS

-----------------------------------------------------------------------------
(* Induction *)

(* A set of numbers that is not empty has a least element. *)
LEMMA Least ==
  ASSUME NEW T \in SUBSET Nat, T # {}
  PROVE  \E m \in T : \A n \in T : m <= n
  <1> DEFINE R == OpToRel(<, Nat)
  <1>1. IsWellFoundedOn(R, Nat)
    BY NatLessThanWellFounded
  <1>2. \A i, j \in Nat : i < j => <<i, j>> \in R
    BY Zenon DEF OpToRel
  <1> HIDE DEF R
  <1>3. PICK m \in T : \A y \in T : ~ (<<y, m>> \in R)
    BY <1>1, WFMin
  <1>4. \A y \in T : ~(y < m)
    BY <1>2, <1>3, Zenon
  <1> QED
    BY <1>4

(* Induction over the natural numbers, for a set. *)
LEMMA Induction ==
  ASSUME NEW S \in SUBSET Nat, 0 \in S, \A n \in S : n + 1 \in S
  PROVE  S = Nat
  <1> SUFFICES ASSUME Nat \ S # {} PROVE FALSE
    OBVIOUS
  <1>1. PICK m \in Nat \ S : \A n \in Nat \ S : m <= n
    BY Least
  <1>2. m # 0 /\ m - 1 \in Nat /\ m - 1 \notin Nat \ S
    BY <1>1
  <1> QED
    BY <1>2

(* The same for the numbers up to n. *)
LEMMA Upto ==
  ASSUME NEW n \in Nat, NEW S \in SUBSET Nat, 0 \in S,
         \A i \in 1..n : i - 1 \in S => i \in S
  PROVE  \A i \in 0..n : i \in S
  <1> DEFINE good == {i \in Nat : i <= n => i \in S}
  <1>1. 0 \in good
    OBVIOUS
  <1>2. ASSUME NEW i \in good PROVE i + 1 \in good
    <2>1. CASE i + 1 <= n
      <3>1. i + 1 \in 1..n /\ (i + 1) - 1 = i /\ i \in S
        BY <2>1
      <3> QED
        BY <3>1
    <2> QED
      BY <2>1
  <1>3. good \in SUBSET Nat
    OBVIOUS
  <1> HIDE DEF good
  <1>4. good = Nat
    BY <1>1, <1>2, <1>3, Induction
  <1> QED
    BY <1>4 DEF good

-----------------------------------------------------------------------------
(* Run for a step that is a function, which a lemma may take as a parameter. *)
RunOf(f, s0, t) ==
  LET st[i \in 0..Len(t)] == IF i = 0 THEN s0 ELSE f[<<st[i - 1], t[i]>>]
  IN  st[Len(t)]

Automaton(f, S, T) == f \in [S \X T -> S]

(* g are the states of a run. *)
IsRun(g, f, s0, t, n) ==
  /\ g[0] = s0
  /\ \A i \in 1..n : g[i] = f[<<g[i - 1], t[i]>>]

LEMMA RunExists ==
  ASSUME NEW S, NEW T, NEW f, Automaton(f, S, T), NEW s0 \in S, NEW t \in Seq(T)
  PROVE  \A n \in 0..Len(t) : \E g \in [0..n -> S] : IsRun(g, f, s0, t, n)
  <1> DEFINE good == {n \in Nat : n <= Len(t) => \E g \in [0..n -> S] : IsRun(g, f, s0, t, n)}
  <1>1. 0 \in good
    <2>1. [i \in 0..0 |-> s0] \in [0..0 -> S]
      OBVIOUS
    <2>2. IsRun([i \in 0..0 |-> s0], f, s0, t, 0)
      BY DEF IsRun
    <2> QED
      BY <2>1, <2>2
  <1>2. ASSUME NEW n \in good PROVE n + 1 \in good
    <2> SUFFICES ASSUME n + 1 <= Len(t)
                 PROVE  \E g \in [0..n+1 -> S] : IsRun(g, f, s0, t, n + 1)
      OBVIOUS
    <2>1. n \in Nat /\ n <= Len(t) /\ n + 1 \in 1..Len(t)
      OBVIOUS
    <2>2. PICK g \in [0..n -> S] : IsRun(g, f, s0, t, n)
      BY <2>1
    <2> DEFINE x == f[<<g[n], t[n + 1]>>]
               h == [i \in 0..n+1 |-> IF i = n + 1 THEN x ELSE g[i]]
    <2>3. x \in S
      <3>1. g[n] \in S /\ t[n + 1] \in T
        BY <2>1, <2>2
      <3> QED
        BY <3>1 DEF Automaton
    <2>4. h \in [0..n+1 -> S]
      BY <2>1, <2>2, <2>3
    <2>5. h[n + 1] = x /\ \A i \in 0..n : h[i] = g[i]
      BY <2>1
    <2> HIDE DEF h
    <2>6. ASSUME NEW i \in 1..n+1
          PROVE  h[i] = f[<<h[i - 1], t[i]>>]
      <3>1. CASE i = n + 1
        <4>1. h[i - 1] = g[n]
          BY <2>1, <2>5, <3>1
        <4> QED
          BY <2>5, <3>1, <4>1
      <3>2. CASE i \in 1..n
        <4>1. h[i - 1] = g[i - 1] /\ h[i] = g[i]
          BY <2>1, <2>5, <3>2
        <4> QED
          BY <2>2, <3>2, <4>1 DEF IsRun
      <3> QED
        BY <2>1, <3>1, <3>2
    <2>7. h[0] = s0
      BY <2>1, <2>2, <2>5 DEF IsRun
    <2>8. IsRun(h, f, s0, t, n + 1)
      BY <2>6, <2>7 DEF IsRun
    <2> QED
      BY <2>4, <2>8
  <1>3. good \in SUBSET Nat
    OBVIOUS
  <1> HIDE DEF good
  <1>4. good = Nat
    BY <1>1, <1>2, <1>3, Induction
  <1> QED
    BY <1>4 DEF good

LEMMA RunOfRun ==
  ASSUME NEW S, NEW T, NEW f, Automaton(f, S, T), NEW s0 \in S, NEW t \in Seq(T)
  PROVE  \E g \in [0..Len(t) -> S] :
            IsRun(g, f, s0, t, Len(t)) /\ RunOf(f, s0, t) = g[Len(t)]
  <1> DEFINE n == Len(t)
             Eqn(c) == c = [i \in 0..n |-> IF i = 0 THEN s0 ELSE f[<<c[i - 1], t[i]>>]]
  <1>1. n \in Nat
    OBVIOUS
  <1>2. PICK g \in [0..n -> S] : IsRun(g, f, s0, t, n)
    <2>1. \A k \in 0..n : \E g \in [0..k -> S] : IsRun(g, f, s0, t, k)
      BY RunExists
    <2>2. n \in 0..n
      BY <1>1
    <2> QED
      BY <2>1, <2>2, Zenon
  <1>3. Eqn(g)
    <2>1. \A i \in 0..n : g[i] = IF i = 0 THEN s0 ELSE f[<<g[i - 1], t[i]>>]
      BY <1>1, <1>2 DEF IsRun
    <2> QED
      BY <1>2, <2>1
  <1>4. PICK c : Eqn(c) /\ RunOf(f, s0, t) = c[n]
    <2> DEFINE d == CHOOSE h : Eqn(h)
    <2>1. Eqn(d)
      <3> HIDE DEF Eqn
      <3> QED
        BY <1>3
    <2>2. RunOf(f, s0, t) = d[n]
      BY DEF RunOf
    <2> HIDE DEF d, Eqn, n
    <2> QED
      BY <2>1, <2>2
  <1>5. \A i \in 0..n : c[i] = IF i = 0 THEN s0 ELSE f[<<c[i - 1], t[i]>>]
    BY <1>4
  <1>6. c[0] = g[0]
    <2>1. 0 \in 0..n
      BY <1>1
    <2>2. c[0] = s0
      BY <1>5, <2>1, Zenon
    <2> QED
      BY <1>2, <2>2 DEF IsRun
  <1>7. ASSUME NEW i \in 1..n, c[i - 1] = g[i - 1]
        PROVE  c[i] = g[i]
    <2>1. c[i] = f[<<c[i - 1], t[i]>>]
      BY <1>1, <1>5
    <2> QED
      BY <1>2, <1>7, <2>1 DEF IsRun
  <1>8. c[n] = g[n]
    <2> DEFINE same == {i \in Nat : c[i] = g[i]}
    <2>1. same \in SUBSET Nat /\ 0 \in same
      BY <1>6
    <2>2. \A i \in 1..n : i - 1 \in same => i \in same
      BY <1>1, <1>7
    <2> HIDE DEF same, n
    <2>3. \A i \in 0..n : i \in same
      BY <1>1, <2>1, <2>2, Upto
    <2>4. n \in 0..n
      BY <1>1
    <2> QED
      BY <2>3, <2>4 DEF same
  <1> QED
    BY <1>2, <1>4, <1>8

LEMMA RunType ==
  ASSUME NEW S, NEW T, NEW f, Automaton(f, S, T), NEW s0 \in S, NEW t \in Seq(T)
  PROVE  RunOf(f, s0, t) \in S
  <1>1. PICK g \in [0..Len(t) -> S] :
            IsRun(g, f, s0, t, Len(t)) /\ RunOf(f, s0, t) = g[Len(t)]
    BY RunOfRun
  <1>2. Len(t) \in 0..Len(t)
    OBVIOUS
  <1> QED
    BY <1>1, <1>2

(* A run over nothing stays where it is, one more character is one more step. *)
LEMMA RunEmpty ==
  ASSUME NEW S, NEW T, NEW f, Automaton(f, S, T), NEW s0 \in S
  PROVE  RunOf(f, s0, << >>) = s0
  <1> DEFINE e == << >>
  <1>1. e \in Seq(T)
    OBVIOUS
  <1>2. Len(e) = 0
    OBVIOUS
  <1> HIDE DEF e
  <1>3. PICK g \in [0..Len(e) -> S] :
            IsRun(g, f, s0, e, Len(e)) /\ RunOf(f, s0, e) = g[Len(e)]
    BY <1>1, RunOfRun
  <1> QED
    BY <1>3, <1>2 DEF IsRun, e

LEMMA RunAppend ==
  ASSUME NEW S, NEW T, NEW f, Automaton(f, S, T), NEW s0 \in S, NEW t \in Seq(T), NEW c \in T
  PROVE  RunOf(f, s0, Append(t, c)) = f[<<RunOf(f, s0, t), c>>]
  <1> DEFINE u == Append(t, c)
             n == Len(t)
  <1>1. /\ u \in Seq(T) /\ Len(u) = n + 1 /\ u[n + 1] = c /\ n \in Nat
        /\ \A i \in 1..n : u[i] = t[i]
    OBVIOUS
  <1>2. PICK g \in [0..n -> S] : IsRun(g, f, s0, t, n) /\ RunOf(f, s0, t) = g[n]
    BY RunOfRun
  <1> HIDE DEF u
  <1>3. PICK h \in [0..Len(u) -> S] :
            IsRun(h, f, s0, u, Len(u)) /\ RunOf(f, s0, u) = h[Len(u)]
    BY <1>1, RunOfRun
  <1>4. /\ h[0] = s0 /\ g[0] = s0
        /\ \A i \in 1..n+1 : h[i] = f[<<h[i - 1], u[i]>>]
        /\ \A i \in 1..n : g[i] = f[<<g[i - 1], t[i]>>]
    BY <1>1, <1>2, <1>3 DEF IsRun
  <1> DEFINE same == {i \in Nat : h[i] = g[i]}
  <1>5. same \in SUBSET Nat /\ 0 \in same
    BY <1>4
  <1>6. ASSUME NEW i \in 1..n, i - 1 \in same PROVE i \in same
    <2>1. h[i] = f[<<h[i - 1], u[i]>>] /\ g[i] = f[<<g[i - 1], t[i]>>] /\ u[i] = t[i]
      BY <1>1, <1>4
    <2>2. h[i - 1] = g[i - 1]
      BY <1>6
    <2> QED
      BY <2>1, <2>2
  <1> HIDE DEF same, n
  <1>7. \A i \in 0..n : i \in same
    BY <1>1, <1>5, <1>6, Upto
  <1>8. h[n] = g[n]
    BY <1>1, <1>7 DEF same
  <1>9. h[n + 1] = f[<<h[n], c>>]
    <2>1. n + 1 \in 1..n+1 /\ (n + 1) - 1 = n
      BY <1>1
    <2> QED
      BY <1>1, <1>4, <2>1
  <1> QED
    BY <1>1, <1>2, <1>3, <1>8, <1>9 DEF u

(* A sequence that is not empty ends in an element. *)
LEMMA Last1 ==
  ASSUME NEW T, NEW n \in Nat, NEW t \in Seq(T), Len(t) = n + 1
  PROVE  \E b \in Seq(T), c \in T : t = Append(b, c) /\ Len(b) = n
  <1>1. t # << >>
    OBVIOUS
  <1>2. PICK b \in Seq(T), c \in T : t = Append(b, c)
    BY <1>1, SequenceEmptyOrAppend
  <1> QED
    BY <1>2, AppendProperties

LEMMA AppendConcat ==
  ASSUME NEW T, NEW a \in Seq(T), NEW b \in Seq(T), NEW c \in T
  PROVE  a \o Append(b, c) = Append(a \o b, c)
  <1>1. Append(b, c) = b \o <<c>> /\ Append(a \o b, c) = (a \o b) \o <<c>> /\ <<c>> \in Seq(T)
    BY AppendIsConcat, ConcatProperties
  <1> QED
    BY <1>1, ConcatAssociative

(* A run over two sequences is a run over the second from where the run over *)
(* the first ends.                                                           *)
LEMMA RunConcat ==
  ASSUME NEW S, NEW T, NEW f, Automaton(f, S, T), NEW s0 \in S, NEW a \in Seq(T)
  PROVE  \A b \in Seq(T) : RunOf(f, s0, a \o b) = RunOf(f, RunOf(f, s0, a), b)
  <1> DEFINE s1 == RunOf(f, s0, a)
             good == {n \in Nat : \A b \in Seq(T) :
                          Len(b) = n => RunOf(f, s0, a \o b) = RunOf(f, s1, b)}
  <1>1. s1 \in S
    BY RunType
  <1>2. 0 \in good
    <2> SUFFICES ASSUME NEW b \in Seq(T), Len(b) = 0
                 PROVE  RunOf(f, s0, a \o b) = RunOf(f, s1, b)
      OBVIOUS
    <2>1. b = << >> /\ a \o b = a
      OBVIOUS
    <2> HIDE DEF s1
    <2>2. RunOf(f, s1, b) = s1
      BY <1>1, <2>1, RunEmpty
    <2> QED
      BY <2>1, <2>2 DEF s1
  <1>3. ASSUME NEW n \in good PROVE n + 1 \in good
    <2> SUFFICES ASSUME NEW d \in Seq(T), Len(d) = n + 1
                 PROVE  RunOf(f, s0, a \o d) = RunOf(f, s1, d)
      OBVIOUS
    <2>1. PICK b \in Seq(T), c \in T : d = Append(b, c) /\ Len(b) = n
      BY Last1
    <2> DEFINE ab == a \o b
    <2>2. a \o d = Append(ab, c) /\ ab \in Seq(T)
      BY <2>1, AppendConcat, ConcatProperties
    <2>3. RunOf(f, s0, ab) = RunOf(f, s1, b)
      BY <2>1
    <2> HIDE DEF s1, ab
    <2>4. RunOf(f, s0, a \o d) = f[<<RunOf(f, s0, ab), c>>]
      BY <2>2, RunAppend
    <2>5. RunOf(f, s1, d) = f[<<RunOf(f, s1, b), c>>]
      BY <1>1, <2>1, RunAppend
    <2> QED
      BY <2>3, <2>4, <2>5
  <1>4. good \in SUBSET Nat
    OBVIOUS
  <1> HIDE DEF good
  <1>5. good = Nat
    BY <1>2, <1>3, <1>4, Induction
  <1> QED
    BY <1>5 DEF good

-----------------------------------------------------------------------------
(* FlattenSeq *)

Join(A) == [p \in Seq(A) \X Seq(A) |-> p[1] \o p[2]]

LEMMA JoinAutomaton ==
  ASSUME NEW A
  PROVE  Automaton(Join(A), Seq(A), Seq(A))
  BY DEF Automaton, Join

(* FlattenSeq is a run of the automaton that joins sequences. *)
LEMMA FlattenRun ==
  ASSUME NEW A, NEW ss \in Seq(Seq(A))
  PROVE  FlattenSeq(ss) = RunOf(Join(A), << >>, ss)
  <1> DEFINE n == Len(ss)
             f == Join(A)
             S == Seq(A)
             e == << >>
  <1>1. n \in Nat /\ e \in S /\ Automaton(f, S, S)
    BY JoinAutomaton
  <1>2. PICK g \in [0..n -> S] : IsRun(g, f, e, ss, n) /\ RunOf(f, e, ss) = g[n]
    <2> HIDE DEF f, S, e
    <2>1. ss \in Seq(S)
      BY DEF S
    <2> QED
      BY <1>1, <2>1, RunOfRun
  <1>3. \A i \in 0..n : g[i] \in Seq(A)
    BY <1>2
  <1>4. ASSUME NEW i \in 1..n PROVE g[i] = g[i - 1] \o ss[i]
    <2>1. g[i] = f[<<g[i - 1], ss[i]>>]
      BY <1>2 DEF IsRun
    <2>2. g[i - 1] \in Seq(A) /\ ss[i] \in Seq(A)
      BY <1>1, <1>3
    <2> QED
      BY <2>1, <2>2 DEF Join
  <1>5. CASE n = 0
    <2>1. ss = << >>
      BY <1>5
    <2> QED
      BY <1>2, <1>5, <2>1 DEF FlattenSeq, IsRun
  <1>6. CASE n # 0
    <2> DEFINE Eqn(c) == c = [i \in 1..n |-> IF i = 1 THEN ss[i] ELSE c[i - 1] \o ss[i]]
               h == [i \in 1..n |-> g[i]]
    <2>1. Eqn(h)
      <3>1. ASSUME NEW i \in 1..n
            PROVE  h[i] = IF i = 1 THEN ss[i] ELSE h[i - 1] \o ss[i]
        <4>1. CASE i = 1
          <5>1. g[0] = << >>
            BY <1>2 DEF IsRun
          <5>2. ss[1] \in Seq(A)
            BY <1>1, <1>6
          <5>3. g[i] = g[i - 1] \o ss[i]
            BY <1>4
          <5>4. i - 1 = 0
            BY <4>1
          <5>5. << >> \o ss[1] = ss[1]
            BY <5>2
          <5>6. g[i] = ss[i]
            BY <4>1, <5>1, <5>3, <5>4, <5>5
          <5> QED
            BY <4>1, <5>6
        <4>2. CASE i # 1
          <5>1. i - 1 \in 1..n
            BY <1>1, <4>2
          <5> QED
            BY <1>4, <4>2, <5>1
        <4> QED
          BY <4>1, <4>2
      <3> QED
        BY <3>1
    <2>2. PICK c : Eqn(c) /\ FlattenSeq(ss) = c[n]
      <3> DEFINE d == CHOOSE x : Eqn(x)
      <3>1. Eqn(d)
        <4> HIDE DEF Eqn
        <4> QED
          BY <2>1
      <3>2. FlattenSeq(ss) = d[n]
        BY <1>6 DEF FlattenSeq
      <3> HIDE DEF d, Eqn, n
      <3> QED
        BY <3>1, <3>2
    <2> DEFINE same == {i \in Nat : i = 0 \/ c[i] = g[i]}
    <2>3. same \in SUBSET Nat /\ 0 \in same
      OBVIOUS
    <2>4. ASSUME NEW i \in 1..n, i - 1 \in same PROVE i \in same
      <3>1. c[i] = IF i = 1 THEN ss[i] ELSE c[i - 1] \o ss[i]
        BY <2>2, Zenon
      <3>2. h[i] = IF i = 1 THEN ss[i] ELSE h[i - 1] \o ss[i]
        BY <2>1, Zenon
      <3>3. i # 1 => c[i - 1] = g[i - 1] /\ h[i - 1] = g[i - 1]
        BY <1>1, <2>4
      <3>4. h[i] = g[i]
        OBVIOUS
      <3> HIDE DEF h, Eqn
      <3> QED
        BY <3>1, <3>2, <3>3, <3>4
    <2> HIDE DEF same, n
    <2>5. \A i \in 0..n : i \in same
      BY <1>1, <2>3, <2>4, Upto
    <2>6. n \in same
      BY <1>1, <2>5
    <2> QED
      BY <1>2, <1>6, <2>2, <2>6 DEF same
  <1> QED
    BY <1>5, <1>6

LEMMA FlattenType ==
  ASSUME NEW A, NEW ss \in Seq(Seq(A))
  PROVE  FlattenSeq(ss) \in Seq(A)
  <1> DEFINE S == Seq(A)
             e == << >>
  <1>1. e \in S /\ ss \in Seq(S) /\ FlattenSeq(ss) = RunOf(Join(A), e, ss)
    BY FlattenRun
  <1>2. Automaton(Join(A), S, S)
    BY JoinAutomaton
  <1> HIDE DEF S, e
  <1>3. RunOf(Join(A), e, ss) \in S
    BY <1>1, <1>2, RunType
  <1> QED
    BY <1>1, <1>3 DEF S

LEMMA FlattenEmpty == FlattenSeq(<< >>) = << >>
  BY DEF FlattenSeq

(* A text is written part by part. *)
LEMMA FlattenAppend ==
  ASSUME NEW A, NEW ss \in Seq(Seq(A)), NEW s \in Seq(A)
  PROVE  FlattenSeq(Append(ss, s)) = FlattenSeq(ss) \o s
  <1> DEFINE S == Seq(A)
             e == << >>
  <1>1. e \in S /\ ss \in Seq(S) /\ s \in S /\ Append(ss, s) \in Seq(Seq(A))
    OBVIOUS
  <1>2. FlattenSeq(ss) = RunOf(Join(A), e, ss)
    BY FlattenRun
  <1>3. FlattenSeq(Append(ss, s)) = RunOf(Join(A), e, Append(ss, s))
    BY <1>1, FlattenRun
  <1>4. Automaton(Join(A), S, S)
    BY JoinAutomaton
  <1>5. RunOf(Join(A), e, Append(ss, s)) = Join(A)[<<RunOf(Join(A), e, ss), s>>]
    <2> HIDE DEF S, e
    <2> QED
      BY <1>1, <1>4, RunAppend
  <1>6. FlattenSeq(ss) \in Seq(A)
    BY FlattenType
  <1> QED
    BY <1>2, <1>3, <1>5, <1>6 DEF Join

-----------------------------------------------------------------------------
(* The accumulator of Base64Decode.  What matters of acc are its low bits:  *)
(* one lemma for each number of bits that may be waiting there, 0, 6, 4, 2. *)

Low2(x) == x % 4
Low4(x) == x % 16
Low6(x) == x % 64
Low8(x) == x % 256
Low10(x) == x % 1024
Low12(x) == x % 4096

LEMMA Sextet0 ==
  ASSUME NEW acc \in Nat, NEW x \in 0..63
  PROVE  Shl6Or(acc, x) \in Nat /\ Low6(Shl6Or(acc, x)) = x
  <1> DEFINE y == 64 * acc + x
             k == y \div AccSize
             z == y % AccSize
             q == acc \div 1
             r == 0
  <1>1. z = y - AccSize * k /\ k \in Nat /\ z \in Nat
    BY SMT DEF AccSize
  <1>2. acc = 1 * q + r /\ q \in Nat /\ r \in 0..0
    BY SMT
  <1> HIDE DEF k, z, q, r
  <1>3. z = 64 * (q - 262144 * k) + 64 * r + x
    BY <1>1, <1>2, SMT DEF AccSize
  <1>4. z % 64 = 64 * r + x
    BY <1>1, <1>2, <1>3, SMT
  <1> QED
    BY <1>1, <1>4, SMT DEF z, r, Shl6Or, Low6

LEMMA Sextet6 ==
  ASSUME NEW acc \in Nat, NEW x \in 0..63
  PROVE  Shl6Or(acc, x) \in Nat /\ Low12(Shl6Or(acc, x)) = 64 * Low6(acc) + x
  <1> DEFINE y == 64 * acc + x
             k == y \div AccSize
             z == y % AccSize
             q == acc \div 64
             r == Low6(acc)
  <1>1. z = y - AccSize * k /\ k \in Nat /\ z \in Nat
    BY SMT DEF AccSize
  <1>2. acc = 64 * q + r /\ q \in Nat /\ r \in 0..63
    BY SMT DEF Low6
  <1> HIDE DEF k, z, q, r
  <1>3. z = 4096 * (q - 4096 * k) + 64 * r + x
    BY <1>1, <1>2, SMT DEF AccSize
  <1>4. z % 4096 = 64 * r + x
    BY <1>1, <1>2, <1>3, SMT
  <1> QED
    BY <1>1, <1>4, SMT DEF z, r, Shl6Or, Low12

LEMMA Sextet4 ==
  ASSUME NEW acc \in Nat, NEW x \in 0..63
  PROVE  Shl6Or(acc, x) \in Nat /\ Low10(Shl6Or(acc, x)) = 64 * Low4(acc) + x
  <1> DEFINE y == 64 * acc + x
             k == y \div AccSize
             z == y % AccSize
             q == acc \div 16
             r == Low4(acc)
  <1>1. z = y - AccSize * k /\ k \in Nat /\ z \in Nat
    BY SMT DEF AccSize
  <1>2. acc = 16 * q + r /\ q \in Nat /\ r \in 0..15
    BY SMT DEF Low4
  <1> HIDE DEF k, z, q, r
  <1>3. z = 1024 * (q - 16384 * k) + 64 * r + x
    BY <1>1, <1>2, SMT DEF AccSize
  <1>4. z % 1024 = 64 * r + x
    BY <1>1, <1>2, <1>3, SMT
  <1> QED
    BY <1>1, <1>4, SMT DEF z, r, Shl6Or, Low10

LEMMA Sextet2 ==
  ASSUME NEW acc \in Nat, NEW x \in 0..63
  PROVE  Shl6Or(acc, x) \in Nat /\ Low8(Shl6Or(acc, x)) = 64 * Low2(acc) + x
  <1> DEFINE y == 64 * acc + x
             k == y \div AccSize
             z == y % AccSize
             q == acc \div 4
             r == Low2(acc)
  <1>1. z = y - AccSize * k /\ k \in Nat /\ z \in Nat
    BY SMT DEF AccSize
  <1>2. acc = 4 * q + r /\ q \in Nat /\ r \in 0..3
    BY SMT DEF Low2
  <1> HIDE DEF k, z, q, r
  <1>3. z = 256 * (q - 65536 * k) + 64 * r + x
    BY <1>1, <1>2, SMT DEF AccSize
  <1>4. z % 256 = 64 * r + x
    BY <1>1, <1>2, <1>3, SMT
  <1> QED
    BY <1>1, <1>4, SMT DEF z, r, Shl6Or, Low8

(* The byte that is taken out, and the bits that stay. *)
LEMMA Byte4 ==
  ASSUME NEW z \in Nat, NEW a \in 0..255, NEW t \in 0..15, Low12(z) = 16 * a + t
  PROVE  Shr(z, 4) % 256 = a /\ Low4(z) = t
  <1> DEFINE q == z \div 4096
  <1>1. z = 4096 * q + 16 * a + t /\ q \in Nat
    BY SMT DEF Low12
  <1> HIDE DEF q
  <1>2. z \div 16 = 256 * q + a /\ z % 16 = t
    BY <1>1, SMT
  <1>3. Shr(z, 4) = z \div 16
    BY SMT DEF Shr
  <1>4. (256 * q + a) % 256 = a
    BY <1>1, SMT
  <1> QED
    BY <1>2, <1>3, <1>4, SMT DEF Low4

LEMMA Byte2 ==
  ASSUME NEW z \in Nat, NEW a \in 0..255, NEW t \in 0..3, Low10(z) = 4 * a + t
  PROVE  Shr(z, 2) % 256 = a /\ Low2(z) = t
  <1> DEFINE q == z \div 1024
  <1>1. z = 1024 * q + 4 * a + t /\ q \in Nat
    BY SMT DEF Low10
  <1> HIDE DEF q
  <1>2. z \div 4 = 256 * q + a /\ z % 4 = t
    BY <1>1, SMT
  <1>3. Shr(z, 2) = z \div 4
    BY SMT DEF Shr
  <1>4. (256 * q + a) % 256 = a
    BY <1>1, SMT
  <1> QED
    BY <1>2, <1>3, <1>4, SMT DEF Low2

LEMMA Byte0 ==
  ASSUME NEW z \in Nat
  PROVE  Shr(z, 0) % 256 = Low8(z)
  <1>1. Shr(z, 0) = z \div 1 /\ z \div 1 = z
    BY SMT DEF Shr
  <1> QED
    BY <1>1, SMT DEF Low8

-----------------------------------------------------------------------------
(* Base64Decode as a run *)

Byte == 0..255

(* The characters of kB64Alphabet. *)
Coded == {c \in Byte : B64Value(c) \in 0..63}

LEMMA AlphabetCoded ==
  ASSUME NEW v \in 0..63
  PROVE  Alphabet(v) \in Coded /\ B64Value(Alphabet(v)) = v
  BY DEF Alphabet, B64Value, Coded, Byte

LEMMA PadNotCoded == Pad \in Byte /\ Pad \notin Coded
  BY DEF Pad, Coded, Byte, B64Value

DecodeState == [acc : Nat, bits : {0, 2, 4, 6}, out : Seq(Byte)]
DecodeStep == [p \in DecodeState \X Coded |-> DecodeChar(p[1], p[2])]

(* The state after a character, by the bits that waited before it. *)
LEMMA DecodeCharBits ==
  ASSUME NEW st, NEW c, NEW z, z = Shl6Or(st.acc, B64Value(c))
  PROVE  /\ st.bits = 0 =>
               DecodeChar(st, c) = [acc |-> z, bits |-> 6, out |-> st.out]
         /\ st.bits = 6 =>
               DecodeChar(st, c) =
                 [acc |-> z, bits |-> 4, out |-> Append(st.out, Shr(z, 4) % 256)]
         /\ st.bits = 4 =>
               DecodeChar(st, c) =
                 [acc |-> z, bits |-> 2, out |-> Append(st.out, Shr(z, 2) % 256)]
         /\ st.bits = 2 =>
               DecodeChar(st, c) =
                 [acc |-> z, bits |-> 0, out |-> Append(st.out, Shr(z, 0) % 256)]
  <1>1. ASSUME st.bits = 0
        PROVE  DecodeChar(st, c) = [acc |-> z, bits |-> 6, out |-> st.out]
    BY <1>1 DEF DecodeChar
  <1>2. ASSUME st.bits = 6
        PROVE  DecodeChar(st, c) =
                 [acc |-> z, bits |-> 4, out |-> Append(st.out, Shr(z, 4) % 256)]
    <2>1. PICK k : k = st.bits + 6 /\ ~(k < 8) /\ k - 8 = 4
      BY <1>2
    <2> QED
      BY <2>1, Zenon DEF DecodeChar
  <1>3. ASSUME st.bits = 4
        PROVE  DecodeChar(st, c) =
                 [acc |-> z, bits |-> 2, out |-> Append(st.out, Shr(z, 2) % 256)]
    <2>1. PICK k : k = st.bits + 6 /\ ~(k < 8) /\ k - 8 = 2
      BY <1>3
    <2> QED
      BY <2>1, Zenon DEF DecodeChar
  <1>4. ASSUME st.bits = 2
        PROVE  DecodeChar(st, c) =
                 [acc |-> z, bits |-> 0, out |-> Append(st.out, Shr(z, 0) % 256)]
    <2>1. PICK k : k = st.bits + 6 /\ ~(k < 8) /\ k - 8 = 0
      BY <1>4
    <2> QED
      BY <2>1, Zenon DEF DecodeChar
  <1> QED
    BY <1>1, <1>2, <1>3, <1>4

LEMMA DecodeAutomaton == Automaton(DecodeStep, DecodeState, Coded)
  <1>1. ASSUME NEW st \in DecodeState, NEW c \in Coded
        PROVE  DecodeChar(st, c) \in DecodeState
    <2>1. PICK z : z = Shl6Or(st.acc, B64Value(c))
      OBVIOUS
    <2>2. z \in Nat
      <3>1. st.acc \in Nat /\ B64Value(c) \in 0..63
        BY DEF DecodeState, Coded
      <3> QED
        BY <2>1, <3>1, Sextet0
    <2>3. (z \div 1) % 256 \in Byte /\ (z \div 4) % 256 \in Byte /\ (z \div 16) % 256 \in Byte
      BY <2>2, SMT DEF Byte
    <2>4. Shr(z, 0) = z \div 1 /\ Shr(z, 2) = z \div 4 /\ Shr(z, 4) = z \div 16
      BY SMT DEF Shr
    <2>5. st.bits \in {0, 2, 4, 6} /\ st.out \in Seq(Byte)
      BY DEF DecodeState
    <2>6. ASSUME NEW bits \in {0, 2, 4}, NEW x \in Byte,
                 DecodeChar(st, c) = [acc |-> z, bits |-> bits, out |-> Append(st.out, x)]
          PROVE  DecodeChar(st, c) \in DecodeState
      BY <2>2, <2>5, <2>6 DEF DecodeState
    <2>7. CASE st.bits = 0
      BY <2>1, <2>2, <2>5, <2>7, DecodeCharBits DEF DecodeState
    <2>8. CASE st.bits = 6
      BY <2>1, <2>3, <2>4, <2>6, <2>8, DecodeCharBits
    <2>9. CASE st.bits = 4
      BY <2>1, <2>3, <2>4, <2>6, <2>9, DecodeCharBits
    <2>10. CASE st.bits = 2
      BY <2>1, <2>3, <2>4, <2>6, <2>10, DecodeCharBits
    <2> QED
      BY <2>5, <2>7, <2>8, <2>9, <2>10
  <1> QED
    BY <1>1 DEF Automaton, DecodeStep

LEMMA DecodeRun ==
  ASSUME NEW s0 \in DecodeState, NEW t \in Seq(Coded)
  PROVE  Run(DecodeChar, s0, t) = RunOf(DecodeStep, s0, t)
  <1> DEFINE n == Len(t)
             Eqn(c) == c = [i \in 0..n |-> IF i = 0 THEN s0 ELSE DecodeChar(c[i - 1], t[i])]
  <1>1. n \in Nat
    OBVIOUS
  <1>2. PICK g \in [0..n -> DecodeState] :
            IsRun(g, DecodeStep, s0, t, n) /\ RunOf(DecodeStep, s0, t) = g[n]
    BY DecodeAutomaton, RunOfRun
  <1>3. g[0] = s0
    BY <1>2 DEF IsRun
  <1>4. ASSUME NEW i \in 1..n PROVE g[i] = DecodeChar(g[i - 1], t[i])
    <2>1. g[i] = DecodeStep[<<g[i - 1], t[i]>>]
      BY <1>2 DEF IsRun
    <2>2. g[i - 1] \in DecodeState /\ t[i] \in Coded
      BY <1>1, <1>2
    <2> QED
      BY <2>1, <2>2 DEF DecodeStep
  <1>5. Eqn(g)
    <2>1. ASSUME NEW i \in 0..n
          PROVE  g[i] = IF i = 0 THEN s0 ELSE DecodeChar(g[i - 1], t[i])
      BY <1>1, <1>3, <1>4
    <2> QED
      BY <1>2, <2>1
  <1>6. PICK c : Eqn(c) /\ Run(DecodeChar, s0, t) = c[n]
    <2> DEFINE d == CHOOSE x : Eqn(x)
    <2>1. Eqn(d)
      <3> HIDE DEF Eqn
      <3> QED
        BY <1>5
    <2>2. Run(DecodeChar, s0, t) = d[n]
      BY DEF Run
    <2> HIDE DEF d, Eqn, n
    <2> QED
      BY <2>1, <2>2
  <1>7. \A i \in 0..n : c[i] = IF i = 0 THEN s0 ELSE DecodeChar(c[i - 1], t[i])
    BY <1>6, Zenon
  <1> DEFINE same == {i \in Nat : c[i] = g[i]}
  <1>8. same \in SUBSET Nat /\ 0 \in same
    <2>1. 0 \in 0..n
      BY <1>1
    <2>2. c[0] = s0
      BY <1>7, <2>1, Zenon
    <2> QED
      BY <1>3, <2>2
  <1>9. ASSUME NEW i \in 1..n, i - 1 \in same PROVE i \in same
    <2>1. i \in 0..n /\ i # 0 /\ i \in Nat
      BY <1>1
    <2>2. c[i] = DecodeChar(c[i - 1], t[i])
      BY <1>7, <2>1, Zenon
    <2>3. c[i - 1] = g[i - 1]
      BY <1>9
    <2> QED
      BY <1>4, <2>1, <2>2, <2>3
  <1> HIDE DEF same, n
  <1>10. \A i \in 0..n : i \in same
    BY <1>1, <1>8, <1>9, Upto
  <1>11. n \in same
    BY <1>1, <1>10
  <1> QED
    BY <1>2, <1>6, <1>11 DEF same

LEMMA DecodeNext ==
  ASSUME NEW s0 \in DecodeState, NEW t \in Seq(Coded), NEW c \in Coded
  PROVE  /\ Append(t, c) \in Seq(Coded)
         /\ RunOf(DecodeStep, s0, Append(t, c)) = DecodeStep[<<RunOf(DecodeStep, s0, t), c>>]
  <1>1. Append(t, c) \in Seq(Coded)
    OBVIOUS
  <1>2. RunOf(DecodeStep, s0, Append(t, c)) = DecodeStep[<<RunOf(DecodeStep, s0, t), c>>]
    BY DecodeAutomaton, RunAppend
  <1> QED
    BY <1>1, <1>2, Zenon

(* The four characters of a group, one after the other. *)
LEMMA DecodeStepChar ==
  ASSUME NEW st \in DecodeState, NEW x \in 0..63
  PROVE  /\ DecodeStep[<<st, Alphabet(x)>>] = DecodeChar(st, Alphabet(x))
         /\ DecodeChar(st, Alphabet(x)) \in DecodeState
         /\ B64Value(Alphabet(x)) = x
  <1>1. Alphabet(x) \in Coded /\ B64Value(Alphabet(x)) = x
    BY AlphabetCoded
  <1>2. DecodeStep \in [DecodeState \X Coded -> DecodeState]
    BY DecodeAutomaton DEF Automaton
  <1>3. DecodeStep[<<st, Alphabet(x)>>] = DecodeChar(st, Alphabet(x))
    BY <1>1 DEF DecodeStep
  <1>4. DecodeStep[<<st, Alphabet(x)>>] \in DecodeState
    BY <1>1, <1>2
  <1> QED
    BY <1>1, <1>3, <1>4

(* The sextets of three bytes a, b and c, and the part of b and of c that is *)
(* in the sextet before.                                                     *)
Sextet1(a) == a \div 4
Sextet12(a, b) == 16 * (a % 4) + b \div 16
Sextet23(b, c) == 4 * (b % 16) + c \div 64
Sextet3(c) == c % 64
High4(b) == b \div 16
High2(c) == c \div 64

LEMMA SextetRange ==
  ASSUME NEW a \in Byte, NEW b \in Byte
  PROVE  /\ Sextet1(a) \in 0..63 /\ Sextet12(a, b) \in 0..63
         /\ Sextet23(a, b) \in 0..63 /\ Sextet3(a) \in 0..63
  BY SMT DEF Byte, Sextet1, Sextet12, Sextet23, Sextet3

LEMMA DecodeFirst ==
  ASSUME NEW st \in DecodeState, st.bits = 0, NEW a \in Byte
  PROVE  LET s == DecodeChar(st, Alphabet(Sextet1(a)))
         IN  s.bits = 6 /\ s.out = st.out /\ Low6(s.acc) = Sextet1(a)
  <1>1. PICK x \in 0..63 : x = Sextet1(a)
    BY SextetRange
  <1>2. PICK z : z = Shl6Or(st.acc, x)
    OBVIOUS
  <1>3. st.acc \in Nat
    BY DEF DecodeState
  <1>4. Low6(z) = x
    BY <1>2, <1>3, Sextet0
  <1>5. PICK c : c = Alphabet(x)
    OBVIOUS
  <1>6. z = Shl6Or(st.acc, B64Value(c))
    BY <1>2, <1>5, DecodeStepChar
  <1>7. DecodeChar(st, c) = [acc |-> z, bits |-> 6, out |-> st.out]
    BY <1>6, DecodeCharBits
  <1> QED
    BY <1>1, <1>4, <1>5, <1>7

LEMMA DecodeSecond ==
  ASSUME NEW st \in DecodeState, st.bits = 6, NEW a \in Byte, NEW b \in Byte,
         Low6(st.acc) = Sextet1(a)
  PROVE  LET s == DecodeChar(st, Alphabet(Sextet12(a, b)))
         IN  s.bits = 4 /\ s.out = Append(st.out, a) /\ Low4(s.acc) = High4(b)
  <1>1. PICK x \in 0..63 : x = Sextet12(a, b)
    BY SextetRange
  <1>2. a \in 0..255 /\ High4(b) \in 0..15 /\ 64 * Sextet1(a) + x = 16 * a + High4(b)
    BY <1>1, SMT DEF Byte, Sextet1, Sextet12, High4
  <1>3. PICK z : z = Shl6Or(st.acc, x)
    OBVIOUS
  <1>4. z \in Nat /\ Low12(z) = 16 * a + High4(b)
    <2>1. PICK acc \in Nat : acc = st.acc
      BY DEF DecodeState
    <2>2. Shl6Or(acc, x) \in Nat /\ Low12(Shl6Or(acc, x)) = 64 * Low6(acc) + x
      BY Sextet6, Zenon
    <2> QED
      BY <1>2, <1>3, <2>1, <2>2
  <1>5. Shr(z, 4) % 256 = a /\ Low4(z) = High4(b)
    BY <1>2, <1>4, Byte4, Zenon
  <1>6. PICK k : k = Alphabet(x)
    OBVIOUS
  <1>7. z = Shl6Or(st.acc, B64Value(k))
    BY <1>3, <1>6, DecodeStepChar
  <1>8. DecodeChar(st, k)
          = [acc |-> z, bits |-> 4, out |-> Append(st.out, Shr(z, 4) % 256)]
    BY <1>7, DecodeCharBits
  <1> QED
    BY <1>1, <1>5, <1>6, <1>8

LEMMA DecodeThird ==
  ASSUME NEW st \in DecodeState, st.bits = 4, NEW b \in Byte, NEW c \in Byte,
         Low4(st.acc) = High4(b)
  PROVE  LET s == DecodeChar(st, Alphabet(Sextet23(b, c)))
         IN  s.bits = 2 /\ s.out = Append(st.out, b) /\ Low2(s.acc) = High2(c)
  <1>1. PICK x \in 0..63 : x = Sextet23(b, c)
    BY SextetRange
  <1>2. b \in 0..255 /\ High2(c) \in 0..3 /\ 64 * High4(b) + x = 4 * b + High2(c)
    BY <1>1, SMT DEF Byte, High4, Sextet23, High2
  <1>3. PICK z : z = Shl6Or(st.acc, x)
    OBVIOUS
  <1>4. z \in Nat /\ Low10(z) = 4 * b + High2(c)
    <2>1. PICK acc \in Nat : acc = st.acc
      BY DEF DecodeState
    <2>2. Shl6Or(acc, x) \in Nat /\ Low10(Shl6Or(acc, x)) = 64 * Low4(acc) + x
      BY Sextet4, Zenon
    <2> QED
      BY <1>2, <1>3, <2>1, <2>2
  <1>5. Shr(z, 2) % 256 = b /\ Low2(z) = High2(c)
    BY <1>2, <1>4, Byte2, Zenon
  <1>6. PICK k : k = Alphabet(x)
    OBVIOUS
  <1>7. z = Shl6Or(st.acc, B64Value(k))
    BY <1>3, <1>6, DecodeStepChar
  <1>8. DecodeChar(st, k)
          = [acc |-> z, bits |-> 2, out |-> Append(st.out, Shr(z, 2) % 256)]
    BY <1>7, DecodeCharBits
  <1> QED
    BY <1>1, <1>5, <1>6, <1>8

LEMMA DecodeFourth ==
  ASSUME NEW st \in DecodeState, st.bits = 2, NEW c \in Byte,
         Low2(st.acc) = High2(c)
  PROVE  LET s == DecodeChar(st, Alphabet(Sextet3(c)))
         IN  s.bits = 0 /\ s.out = Append(st.out, c)
  <1>1. PICK x \in 0..63 : x = Sextet3(c)
    BY SextetRange
  <1>2. c \in 0..255 /\ 64 * High2(c) + x = c
    BY <1>1, SMT DEF Byte, High2, Sextet3
  <1>3. PICK z : z = Shl6Or(st.acc, x)
    OBVIOUS
  <1>4. z \in Nat /\ Low8(z) = c
    <2>1. PICK acc \in Nat : acc = st.acc
      BY DEF DecodeState
    <2>2. Shl6Or(acc, x) \in Nat /\ Low8(Shl6Or(acc, x)) = 64 * Low2(acc) + x
      BY Sextet2, Zenon
    <2> QED
      BY <1>2, <1>3, <2>1, <2>2
  <1>5. Shr(z, 0) % 256 = c
    BY <1>2, <1>4, Byte0
  <1>6. PICK k : k = Alphabet(x)
    OBVIOUS
  <1>7. z = Shl6Or(st.acc, B64Value(k))
    BY <1>3, <1>6, DecodeStepChar
  <1>8. DecodeChar(st, k)
          = [acc |-> z, bits |-> 0, out |-> Append(st.out, Shr(z, 0) % 256)]
    BY <1>7, DecodeCharBits
  <1> QED
    BY <1>1, <1>5, <1>6, <1>8

-----------------------------------------------------------------------------
(* Groups of up to three bytes *)

(* Group in terms of the sextets; missing bytes count as 0. *)
LEMMA GroupChars ==
  ASSUME NEW a \in Byte, NEW b \in Byte, NEW c \in Byte
  PROVE  LET k1 == Alphabet(Sextet1(a))
             k2 == Alphabet(Sextet12(a, b))
             k3 == Alphabet(Sextet23(b, c))
             k4 == Alphabet(Sextet3(c))
         IN  /\ Group(<<a, b, c>>) = <<k1, k2, k3, k4>>
             /\ b = 0 /\ c = 0 => Group(<<a>>) = <<k1, k2, Pad, Pad>>
             /\ c = 0 => Group(<<a, b>>) = <<k1, k2, k3, Pad>>
  <1> DEFINE v == 65536 * a + 256 * b + c
             x1 == a \div 4   a2 == a % 4
             b1 == b \div 16  b2 == b % 16
             c1 == c \div 64  x4 == c % 64
             x2 == 16 * a2 + b1
             x3 == 4 * b2 + c1
  <1>1. a \in 0..255 /\ b \in 0..255 /\ c \in 0..255
    BY SMT DEF Byte
  <1>2. /\ x1 \in 0..63 /\ a2 \in 0..3 /\ a = 4 * x1 + a2
        /\ b1 \in 0..15 /\ b2 \in 0..15 /\ b = 16 * b1 + b2
        /\ c1 \in 0..3 /\ x4 \in 0..63 /\ c = 64 * c1 + x4
    BY <1>1, SMT
  <1>3. Group(<<a, b, c>>) = <<Alphabet(v \div 262144), Alphabet((v \div 4096) % 64),
                               Alphabet((v \div 64) % 64), Alphabet(v % 64)>>
    BY <1>1, SMT DEF Group
  <1>4. ASSUME b = 0, c = 0
        PROVE  Group(<<a>>) = <<Alphabet(v \div 262144), Alphabet((v \div 4096) % 64), Pad, Pad>>
    BY <1>1, <1>4, SMT DEF Group
  <1>5. ASSUME c = 0
        PROVE  Group(<<a, b>>) = <<Alphabet(v \div 262144), Alphabet((v \div 4096) % 64),
                                   Alphabet((v \div 64) % 64), Pad>>
    BY <1>1, <1>5, SMT DEF Group
  <1> HIDE DEF x1, a2, b1, b2, c1, x4
  <1>6. v = 262144 * x1 + 4096 * x2 + 64 * x3 + x4
    BY <1>2, SMT
  <1> HIDE DEF v
  <1>7. /\ v \div 262144 = x1 /\ v \div 4096 = 64 * x1 + x2
        /\ v \div 64 = 4096 * x1 + 64 * x2 + x3 /\ v % 64 = x4
    BY <1>2, <1>6, SMT
  <1>8. (v \div 4096) % 64 = x2 /\ (v \div 64) % 64 = x3
    BY <1>2, <1>7, SMT
  <1>9. /\ Group(<<a, b, c>>) = <<Alphabet(x1), Alphabet(x2), Alphabet(x3), Alphabet(x4)>>
        /\ b = 0 /\ c = 0 => Group(<<a>>) = <<Alphabet(x1), Alphabet(x2), Pad, Pad>>
        /\ c = 0 => Group(<<a, b>>) = <<Alphabet(x1), Alphabet(x2), Alphabet(x3), Pad>>
    <2> HIDE DEF x2, x3
    <2> QED
      BY <1>3, <1>4, <1>5, <1>7, <1>8, SMT
  <1>10. /\ x1 = Sextet1(a) /\ x2 = Sextet12(a, b)
         /\ x3 = Sextet23(b, c) /\ x4 = Sextet3(c)
    BY SMT DEF Sextet1, Sextet12, Sextet23, Sextet3, x1, a2, b1, b2, c1, x4
  <1> HIDE DEF x2, x3
  <1> QED
    BY <1>9, <1>10, SMT

(* What the decoder makes of the characters of a group when no bits wait: the *)
(* bytes, and after three of them no bits wait again.                         *)
GroupRun(st, a, b, c, k1, k2, k3, k4) ==
  /\ Group(<<a, b, c>>) = <<k1, k2, k3, k4>>
  /\ b = 0 /\ c = 0 => Group(<<a>>) = <<k1, k2, Pad, Pad>>
  /\ c = 0 => Group(<<a, b>>) = <<k1, k2, k3, Pad>>
  /\ RunOf(DecodeStep, st, <<k1, k2>>).out = Append(st.out, a)
  /\ RunOf(DecodeStep, st, <<k1, k2, k3>>).out = Append(Append(st.out, a), b)
  /\ LET s == RunOf(DecodeStep, st, <<k1, k2, k3, k4>>)
     IN  /\ s \in DecodeState /\ s.bits = 0
         /\ s.out = Append(Append(Append(st.out, a), b), c)

LEMMA DecodeGroup ==
  ASSUME NEW st \in DecodeState, st.bits = 0,
         NEW a \in Byte, NEW b \in Byte, NEW c \in Byte
  PROVE  \E k1, k2, k3, k4 \in Coded : GroupRun(st, a, b, c, k1, k2, k3, k4)
  <1> DEFINE x1 == Sextet1(a)
             x2 == Sextet12(a, b)
             x3 == Sextet23(b, c)
             x4 == Sextet3(c)
             k1 == Alphabet(x1)
             k2 == Alphabet(x2)
             k3 == Alphabet(x3)
             k4 == Alphabet(x4)
             s1 == DecodeChar(st, k1)
             s2 == DecodeChar(s1, k2)
             s3 == DecodeChar(s2, k3)
             s4 == DecodeChar(s3, k4)
             t0 == << >>
             t1 == <<k1>>
             t2 == <<k1, k2>>
             t3 == <<k1, k2, k3>>
             t4 == <<k1, k2, k3, k4>>
  <1>1. /\ Group(<<a, b, c>>) = t4
        /\ b = 0 /\ c = 0 => Group(<<a>>) = <<k1, k2, Pad, Pad>>
        /\ c = 0 => Group(<<a, b>>) = <<k1, k2, k3, Pad>>
    BY GroupChars
  <1>2. x1 \in 0..63 /\ x2 \in 0..63 /\ x3 \in 0..63 /\ x4 \in 0..63
    BY SextetRange
  <1>3. k1 \in Coded /\ k2 \in Coded /\ k3 \in Coded /\ k4 \in Coded
    <2> HIDE DEF x1, x2, x3, x4
    <2> QED
      BY <1>2, AlphabetCoded
  <1>4. s1.bits = 6 /\ s1.out = st.out /\ Low6(s1.acc) = Sextet1(a)
    BY DecodeFirst
  <1>5. ASSUME s1 \in DecodeState
        PROVE  s2.bits = 4 /\ s2.out = Append(s1.out, a) /\ Low4(s2.acc) = High4(b)
    <2> HIDE DEF s1
    <2> QED
      BY <1>4, <1>5, DecodeSecond
  <1>6. ASSUME s2 \in DecodeState, s1 \in DecodeState
        PROVE  s3.bits = 2 /\ s3.out = Append(s2.out, b) /\ Low2(s3.acc) = High2(c)
    <2> HIDE DEF s2
    <2> QED
      BY <1>5, <1>6, DecodeThird
  <1>7. ASSUME s3 \in DecodeState, s2 \in DecodeState, s1 \in DecodeState
        PROVE  s4.bits = 0 /\ s4.out = Append(s3.out, c)
    <2> HIDE DEF s3
    <2> QED
      BY <1>6, <1>7, DecodeFourth
  <1> HIDE DEF x1, x2, x3, x4
  <1>8. s1 = DecodeStep[<<st, k1>>] /\ s1 \in DecodeState
    BY <1>2, DecodeStepChar
  <1> HIDE DEF s1
  <1>9. s2 = DecodeStep[<<s1, k2>>] /\ s2 \in DecodeState
    BY <1>2, <1>8, DecodeStepChar
  <1> HIDE DEF s2
  <1>10. s3 = DecodeStep[<<s2, k3>>] /\ s3 \in DecodeState
    BY <1>2, <1>9, DecodeStepChar
  <1> HIDE DEF s3
  <1>11. s4 = DecodeStep[<<s3, k4>>] /\ s4 \in DecodeState
    BY <1>2, <1>10, DecodeStepChar
  <1> HIDE DEF s4, k1, k2, k3, k4
  <1>12. t0 \in Seq(Coded) /\ t1 = Append(t0, k1)
    OBVIOUS
  <1>13. st = RunOf(DecodeStep, st, t0)
    BY DecodeAutomaton, RunEmpty
  <1>14. t2 = Append(t1, k2)
    OBVIOUS
  <1>15. t3 = Append(t2, k3)
    OBVIOUS
  <1>16. t4 = Append(t3, k4)
    OBVIOUS
  <1> HIDE DEF t0, t1, t2, t3, t4
  <1>17. t1 \in Seq(Coded) /\ RunOf(DecodeStep, st, t1) = s1
    <2>1. /\ Append(t0, k1) \in Seq(Coded)
          /\ RunOf(DecodeStep, st, Append(t0, k1))
               = DecodeStep[<<RunOf(DecodeStep, st, t0), k1>>]
      BY <1>3, <1>12, DecodeNext
    <2> QED
      BY <1>12, <1>13, <1>8, <2>1, Zenon
  <1>18. t2 \in Seq(Coded) /\ RunOf(DecodeStep, st, t2) = s2
    <2>1. /\ Append(t1, k2) \in Seq(Coded)
          /\ RunOf(DecodeStep, st, Append(t1, k2))
               = DecodeStep[<<RunOf(DecodeStep, st, t1), k2>>]
      BY <1>3, <1>17, DecodeNext
    <2> QED
      BY <1>14, <1>17, <1>9, <2>1, Zenon
  <1>19. t3 \in Seq(Coded) /\ RunOf(DecodeStep, st, t3) = s3
    <2>1. /\ Append(t2, k3) \in Seq(Coded)
          /\ RunOf(DecodeStep, st, Append(t2, k3))
               = DecodeStep[<<RunOf(DecodeStep, st, t2), k3>>]
      BY <1>3, <1>18, DecodeNext
    <2> QED
      BY <1>15, <1>18, <1>10, <2>1, Zenon
  <1>20. t4 \in Seq(Coded) /\ RunOf(DecodeStep, st, t4) = s4
    <2>1. /\ Append(t3, k4) \in Seq(Coded)
          /\ RunOf(DecodeStep, st, Append(t3, k4))
               = DecodeStep[<<RunOf(DecodeStep, st, t3), k4>>]
      BY <1>3, <1>19, DecodeNext
    <2> QED
      BY <1>16, <1>19, <1>11, <2>1, Zenon
  <1>21. /\ s2.out = Append(st.out, a) /\ s3.out = Append(Append(st.out, a), b)
         /\ s4.out = Append(Append(Append(st.out, a), b), c) /\ s4.bits = 0
    BY <1>4, <1>5, <1>6, <1>7, <1>8, <1>9, <1>10
  <1>22. /\ RunOf(DecodeStep, st, t2).out = Append(st.out, a)
         /\ RunOf(DecodeStep, st, t3).out = Append(Append(st.out, a), b)
         /\ LET s == RunOf(DecodeStep, st, t4)
            IN  /\ s \in DecodeState /\ s.bits = 0
                /\ s.out = Append(Append(Append(st.out, a), b), c)
    BY <1>11, <1>18, <1>19, <1>20, <1>21, Zenon
  <1>23. GroupRun(st, a, b, c, k1, k2, k3, k4)
    BY <1>1, <1>22, Zenon DEF GroupRun, t2, t3, t4
  <1> QED
    BY <1>3, <1>23, Zenon

(* The bytes of a group are appended to the output. *)
LEMMA WholeGroup ==
  ASSUME NEW st \in DecodeState, st.bits = 0, NEW g \in Seq(Byte), Len(g) = 3
  PROVE  /\ Group(g) \in Seq(Coded)
         /\ RunOf(DecodeStep, st, Group(g)) \in DecodeState
         /\ RunOf(DecodeStep, st, Group(g)).bits = 0
         /\ RunOf(DecodeStep, st, Group(g)).out = st.out \o g
  <1>1. PICK a \in Byte, b \in Byte, c \in Byte : g = <<a, b, c>>
    <2>1. g[1] \in Byte /\ g[2] \in Byte /\ g[3] \in Byte /\ g = <<g[1], g[2], g[3]>>
      OBVIOUS
    <2> QED
      BY <2>1
  <1>2. PICK k1, k2, k3, k4 \in Coded : GroupRun(st, a, b, c, k1, k2, k3, k4)
    BY DecodeGroup
  <1>3. /\ Group(g) = <<k1, k2, k3, k4>>
        /\ LET s == RunOf(DecodeStep, st, <<k1, k2, k3, k4>>)
           IN  /\ s \in DecodeState /\ s.bits = 0
               /\ s.out = Append(Append(Append(st.out, a), b), c)
    BY <1>2, <1>1, Zenon DEF GroupRun
  <1>4. <<k1, k2, k3, k4>> \in Seq(Coded)
    OBVIOUS
  <1>5. st.out \in Seq(Byte)
    BY DEF DecodeState
  <1>6. Append(Append(Append(st.out, a), b), c) = st.out \o g
    BY <1>1, <1>5
  <1> QED
    BY <1>3, <1>4, <1>6, Zenon

LEMMA LastGroup ==
  ASSUME NEW st \in DecodeState, st.bits = 0, NEW g \in Seq(Byte), Len(g) \in 1..2
  PROVE  \E k \in Seq(Coded), p \in Seq({Pad}) :
            /\ Group(g) = k \o p /\ p # << >>
            /\ RunOf(DecodeStep, st, k).out = st.out \o g
  <1>1. st.out \in Seq(Byte) /\ 0 \in Byte
    BY DEF DecodeState, Byte
  <1>2. CASE Len(g) = 1
    <2>1. PICK a \in Byte : g = <<a>>
      <3>1. g[1] \in Byte /\ g = <<g[1]>>
        BY <1>2
      <3> QED
        BY <3>1
    <2>2. PICK k1, k2, k3, k4 \in Coded : GroupRun(st, a, 0, 0, k1, k2, k3, k4)
      BY <1>1, DecodeGroup
    <2>3.   /\ Group(<<a>>) = <<k1, k2, Pad, Pad>>
            /\ RunOf(DecodeStep, st, <<k1, k2>>).out = Append(st.out, a)
      BY <2>2, Zenon DEF GroupRun
    <2>4. <<k1, k2, Pad, Pad>> = <<k1, k2>> \o <<Pad, Pad>> /\ <<k1, k2>> \in Seq(Coded)
      OBVIOUS
    <2>5. Append(st.out, a) = st.out \o g
      BY <1>1, <2>1
    <2>6. Group(g) = <<k1, k2>> \o <<Pad, Pad>>
      BY <2>1, <2>3, <2>4, Zenon
    <2>7. RunOf(DecodeStep, st, <<k1, k2>>).out = st.out \o g
      BY <2>3, <2>5, Zenon
    <2>8. <<Pad, Pad>> \in Seq({Pad}) /\ <<Pad, Pad>> # << >>
      OBVIOUS
    <2> QED
      BY <2>4, <2>6, <2>7, <2>8, Zenon
  <1>3. CASE Len(g) = 2
    <2>1. PICK a \in Byte, b \in Byte : g = <<a, b>>
      <3>1. g[1] \in Byte /\ g[2] \in Byte
        BY <1>3
      <3>2. g = <<g[1], g[2]>>
        BY <1>3
      <3> QED
        BY <3>1, <3>2
    <2>2. PICK k1, k2, k3, k4 \in Coded : GroupRun(st, a, b, 0, k1, k2, k3, k4)
      BY <1>1, DecodeGroup
    <2>3.   /\ Group(<<a, b>>) = <<k1, k2, k3, Pad>>
            /\ RunOf(DecodeStep, st, <<k1, k2, k3>>).out = Append(Append(st.out, a), b)
      BY <2>2, Zenon DEF GroupRun
    <2>4. <<k1, k2, k3, Pad>> = <<k1, k2, k3>> \o <<Pad>> /\ <<k1, k2, k3>> \in Seq(Coded)
      OBVIOUS
    <2>5. Append(Append(st.out, a), b) = st.out \o g
      BY <1>1, <2>1
    <2>6. Group(g) = <<k1, k2, k3>> \o <<Pad>>
      BY <2>1, <2>3, <2>4, Zenon
    <2>7. RunOf(DecodeStep, st, <<k1, k2, k3>>).out = st.out \o g
      BY <2>3, <2>5, Zenon
    <2>8. <<Pad>> \in Seq({Pad}) /\ <<Pad>> # << >>
      OBVIOUS
    <2> QED
      BY <2>4, <2>6, <2>7, <2>8, Zenon
  <1> QED
    BY <1>2, <1>3, Len(g) = 1 \/ Len(g) = 2, Zenon

Text64 == Coded \cup {Pad}

LEMMA GroupType ==
  ASSUME NEW g \in Seq(Byte), Len(g) \in 1..3
  PROVE  Group(g) \in Seq(Text64)
  <1>1. DecodeStart \in DecodeState /\ DecodeStart.bits = 0
    BY DEF DecodeStart, DecodeState
  <1>2. CASE Len(g) = 3
    <2>1. Group(g) \in Seq(Coded)
      BY <1>1, <1>2, WholeGroup
    <2> QED
      BY <2>1, SeqMonotonic DEF Text64
  <1>3. CASE Len(g) \in 1..2
    <2>1. PICK k \in Seq(Coded), p \in Seq({Pad}) : Group(g) = k \o p
      BY <1>1, <1>3, LastGroup
    <2>2. k \in Seq(Text64) /\ p \in Seq(Text64)
      BY SeqMonotonic DEF Text64
    <2> QED
      BY <2>1, <2>2, ConcatProperties
  <1> QED
    BY <1>2, <1>3

(* Base64Encode works group by group. *)
Lesser(a, b) == IF a < b THEN a ELSE b
Groups(d) == [k \in 1..((Len(d) + 2) \div 3) |-> Group(SubSeq(d, 3 * k - 2, Lesser(3 * k, Len(d))))]

LEMMA EncodeGroups ==
  ASSUME NEW d
  PROVE  Base64Encode(d) = FlattenSeq(Groups(d))
  BY Zenon DEF Base64Encode, Groups, Lesser

Cat(a, b) == a \o b

LEMMA CatAssociative ==
  ASSUME NEW T, NEW a \in Seq(T), NEW b \in Seq(T), NEW c \in Seq(T)
  PROVE  Cat(a, Cat(b, c)) = Cat(Cat(a, b), c)
  BY DEF Cat

LEMMA SubSeqEnd ==
  ASSUME NEW T, NEW a \in Seq(T), NEW b \in Seq(T)
  PROVE  SubSeq(a \o b, Len(a) + 1, Len(a) + Len(b)) = b
  <1> DEFINE s == a \o b
             i == Len(a) + 1
             j == Len(a) + Len(b)
             u == SubSeq(s, i, j)
  <1>1. /\ s \in Seq(T) /\ Len(s) = j /\ i \in Int /\ j \in Int
        /\ \A k \in 1..Len(b) : s[Len(a) + k] = b[k]
    OBVIOUS
  <1>2. \A k \in i..j : s[k] \in T
    BY <1>1
  <1> HIDE DEF s
  <1>3. u \in Seq(T) /\ Len(u) = Len(b) /\ \A k \in 1..Len(b) : u[k] = s[Len(a) + k]
    <2>1. SubSeq(s, i, j) \in Seq(T)
      BY <1>1, <1>2
    <2> QED
      BY <1>1, <2>1
  <1> HIDE DEF u
  <1>4. u = b
    BY <1>1, <1>3, SeqEqual
  <1> QED
    BY <1>4 DEF u, s

LEMMA PartsAppend ==
  ASSUME NEW n \in Nat, NEW d \in Seq(Byte), Len(d) = 3 * n,
         NEW g \in Seq(Byte), Len(g) \in 1..3
  PROVE  /\ (Len(d) + 2) \div 3 = n /\ (Len(d \o g) + 2) \div 3 = n + 1
         /\ \A k \in 1..n :
              SubSeq(d \o g, 3 * k - 2, Lesser(3 * k, Len(d \o g)))
                = SubSeq(d, 3 * k - 2, Lesser(3 * k, Len(d)))
         /\ SubSeq(d \o g, 3 * (n + 1) - 2, Lesser(3 * (n + 1), Len(d \o g))) = g
  <1>1. Len(d \o g) = 3 * n + Len(g)
    OBVIOUS
  <1>2. (Len(d) + 2) \div 3 = n /\ (Len(d \o g) + 2) \div 3 = n + 1
    <2> DEFINE m == Len(g)
    <2>1. m \in 1..3 /\ (3 * n + 2) \div 3 = n
      OBVIOUS
    <2> HIDE DEF m
    <2>2. (3 * n + m + 2) \div 3 = n + 1
      BY <2>1
    <2> QED
      BY <1>1, <2>1, <2>2 DEF m
  <1>3. ASSUME NEW k \in 1..n
        PROVE  SubSeq(d \o g, 3 * k - 2, Lesser(3 * k, Len(d \o g)))
                = SubSeq(d, 3 * k - 2, Lesser(3 * k, Len(d)))
    <2>1. Lesser(3 * k, Len(d \o g)) = 3 * k /\ Lesser(3 * k, Len(d)) = 3 * k
      BY <1>1 DEF Lesser
    <2>2. PICK i, j \in 1..Len(d) : i = 3 * k - 2 /\ j = 3 * k
      OBVIOUS
    <2>3. SubSeq(d \o g, i, j) = SubSeq(d, i, j)
      BY SubSeqOfConcat1
    <2> QED
      BY <2>1, <2>2, <2>3
  <1>4. SubSeq(d \o g, 3 * (n + 1) - 2, Lesser(3 * (n + 1), Len(d \o g))) = g
    <2>1. PICK m : m = Len(g)
      OBVIOUS
    <2>2. PICK i, j \in 3 * n + 1 .. 3 * n + m :
             /\ i = 3 * (n + 1) - 2 /\ j = 3 * n + m /\ i - 3 * n = 1 /\ j - 3 * n = m
             /\ ~(3 * (n + 1) < 3 * n + m)
      <3>1. m \in 1..3
        BY <2>1
      <3> QED
        BY <3>1
    <2>3. Lesser(3 * (n + 1), Len(d \o g)) = Len(d) + Len(g)
      BY <1>1, <2>1, <2>2 DEF Lesser
    <2>4. i = Len(d) + 1 /\ j = Len(d) + Len(g) /\ i = 3 * (n + 1) - 2
      BY <2>1, <2>2
    <2>5. SubSeq(d \o g, Len(d) + 1, Len(d) + Len(g)) = g
      BY SubSeqEnd
    <2> QED
      BY <2>3, <2>4, <2>5
  <1> QED
    BY <1>2, <1>3, <1>4

LEMMA GroupsType ==
  ASSUME NEW n \in Nat, NEW d \in Seq(Byte), Len(d) = 3 * n
  PROVE  Groups(d) \in Seq(Seq(Text64)) /\ Len(Groups(d)) = n
  <1>1. (Len(d) + 2) \div 3 = n
    BY (3 * n + 2) \div 3 = n
  <1>2. ASSUME NEW k \in 1..n
        PROVE  Group(SubSeq(d, 3 * k - 2, Lesser(3 * k, Len(d)))) \in Seq(Text64)
    <2>1. Lesser(3 * k, Len(d)) = 3 * k
      BY DEF Lesser
    <2>2. PICK i, j \in 1..Len(d) : i = 3 * k - 2 /\ j = 3 * k /\ j - i + 1 = 3 /\ i <= j
      OBVIOUS
    <2>3. SubSeq(d, i, j) \in Seq(Byte) /\ Len(SubSeq(d, i, j)) = 3
      BY <2>2
    <2> HIDE DEF Byte
    <2>4. PICK g : g = SubSeq(d, i, j)
      OBVIOUS
    <2>5. g \in Seq(Byte) /\ Len(g) \in 1..3
      BY <2>3, <2>4
    <2>6. Group(g) \in Seq(Text64)
      BY <2>5, GroupType
    <2> QED
      BY <2>1, <2>2, <2>4, <2>6
  <1>3. Groups(d) = [k \in 1..n |-> Group(SubSeq(d, 3 * k - 2, Lesser(3 * k, Len(d))))]
    BY <1>1, Zenon DEF Groups
  <1> DEFINE G(k) == Group(SubSeq(d, 3 * k - 2, Lesser(3 * k, Len(d))))
  <1>4. \A k \in 1..n : G(k) \in Seq(Text64)
    BY <1>2
  <1>5. Groups(d) = [k \in 1..n |-> G(k)]
    BY <1>3
  <1> HIDE DEF G
  <1> QED
    BY <1>4, <1>5

LEMMA EncodeAppend ==
  ASSUME NEW n \in Nat, NEW d \in Seq(Byte), Len(d) = 3 * n,
         NEW g \in Seq(Byte), Len(g) \in 1..3
  PROVE  Base64Encode(d \o g) = Base64Encode(d) \o Group(g)
  <1> DEFINE F(k) == Group(SubSeq(d \o g, 3 * k - 2, Lesser(3 * k, Len(d \o g))))
             G(k) == Group(SubSeq(d, 3 * k - 2, Lesser(3 * k, Len(d))))
  <1>1. /\ (Len(d) + 2) \div 3 = n /\ (Len(d \o g) + 2) \div 3 = n + 1
        /\ \A k \in 1..n : F(k) = G(k)
        /\ F(n + 1) = Group(g)
    BY PartsAppend, Zenon
  <1>2. Groups(d \o g) = [k \in 1..(n + 1) |-> F(k)] /\ Groups(d) = [k \in 1..n |-> G(k)]
    BY <1>1, Zenon DEF Groups
  <1>3. Groups(d) \in Seq(Seq(Text64)) /\ Len(Groups(d)) = n
    BY GroupsType
  <1>4. Group(g) \in Seq(Text64)
    BY GroupType
  <1> HIDE DEF F, G
  <1>5. Groups(d \o g) = Append(Groups(d), Group(g))
    <2>1. PICK x : x = Group(g)
      OBVIOUS
    <2>2. PICK s : s = Groups(d)
      OBVIOUS
    <2>3. s \in Seq(Seq(Text64)) /\ Len(s) = n /\ s = [k \in 1..n |-> G(k)]
      BY <1>2, <1>3, <2>2
    <2>4. [k \in 1..(n + 1) |-> F(k)] = Append(s, x)
      <3>1. Len(Append(s, x)) = n + 1 /\ DOMAIN Append(s, x) = 1..(n + 1)
        BY <2>3
      <3>2. ASSUME NEW k \in 1..(n + 1) PROVE Append(s, x)[k] = F(k)
        <4>1. CASE k = n + 1
          BY <1>1, <2>1, <2>3, <4>1
        <4>2. CASE k # n + 1
          <5>1. k \in 1..n
            BY <4>2
          <5>2. s[k] = G(k) /\ F(k) = G(k)
            BY <1>1, <2>3, <5>1
          <5>3. Append(s, x)[k] = s[k]
            BY <2>3, <5>1
          <5> QED
            BY <5>2, <5>3
        <4> QED
          BY <4>1, <4>2
      <3> QED
        BY <2>3, <3>1, <3>2
    <2> QED
      BY <1>2, <2>1, <2>2, <2>4
  <1>6. FlattenSeq(Append(Groups(d), Group(g))) = FlattenSeq(Groups(d)) \o Group(g)
    BY <1>3, <1>4, FlattenAppend
  <1> QED
    BY <1>5, <1>6, EncodeGroups, Zenon

LEMMA EncodeEmpty == Base64Encode(<< >>) = << >>
  <1>1. Groups(<< >>) = << >>
    <2>1. (Len(<< >>) + 2) \div 3 = 0
      BY 2 \div 3 = 0
    <2> QED
      BY <2>1 DEF Groups
  <1> QED
    BY <1>1, EncodeGroups, FlattenEmpty, Zenon

(* A sequence of m + r elements is one of m and one of r. *)
IsSplit(d, a, b, m, r) == d = a \o b /\ Len(a) = m /\ Len(b) = r

LEMMA Split ==
  ASSUME NEW T, NEW d \in Seq(T), NEW m \in Nat, NEW r \in Nat, Len(d) = m + r
  PROVE  \E a, b \in Seq(T) : IsSplit(d, a, b, m, r)
  <1> DEFINE a == SubSeq(d, 1, m)
             b == SubSeq(d, m + 1, Len(d))
  <1>1. a \in Seq(T) /\ Len(a) = m
    OBVIOUS
  <1>2. b \in Seq(T) /\ Len(b) = r
    OBVIOUS
  <1>3. a \o b = d
    <2>1. SubSeq(d, 1, m) \o SubSeq(d, m + 1, Len(d)) = SubSeq(d, 1, Len(d))
      BY ConcatAdjacentSubSeq, 1 \in 1..Len(d)+1, m \in 1-1..Len(d), Len(d) \in m..Len(d)
    <2>2. SubSeq(d, 1, Len(d)) = d
      BY SubSeqFull
    <2> QED
      BY <2>1, <2>2
  <1> HIDE DEF a, b
  <1> QED
    BY <1>1, <1>2, <1>3 DEF IsSplit

LEMMA WholeGroups ==
  ASSUME NEW n \in Nat
  PROVE  \A d \in Seq(Byte) : Len(d) = 3 * n =>
            /\ Base64Encode(d) \in Seq(Coded)
            /\ RunOf(DecodeStep, DecodeStart, Base64Encode(d)) \in DecodeState
            /\ RunOf(DecodeStep, DecodeStart, Base64Encode(d)).bits = 0
            /\ RunOf(DecodeStep, DecodeStart, Base64Encode(d)).out = d
  <1> DEFINE P(d) == 
            /\ Base64Encode(d) \in Seq(Coded)
            /\ RunOf(DecodeStep, DecodeStart, Base64Encode(d)) \in DecodeState
            /\ RunOf(DecodeStep, DecodeStart, Base64Encode(d)).bits = 0
            /\ RunOf(DecodeStep, DecodeStart, Base64Encode(d)).out = d
             good == {k \in Nat : \A d \in Seq(Byte) : Len(d) = 3 * k => P(d)}
  <1>1. DecodeStart \in DecodeState /\ DecodeStart.bits = 0 /\ DecodeStart.out = << >>
    BY DEF DecodeStart, DecodeState
  <1>2. 0 \in good
    <2> SUFFICES ASSUME NEW d \in Seq(Byte), Len(d) = 0 PROVE P(d)
      OBVIOUS
    <2>1. d = << >> /\ << >> \in Seq(Coded)
      OBVIOUS
    <2>2. RunOf(DecodeStep, DecodeStart, << >>) = DecodeStart
      BY <1>1, DecodeAutomaton, RunEmpty
    <2> QED
      BY <1>1, <2>1, <2>2, EncodeEmpty, Zenon
  <1>3. ASSUME NEW k \in good PROVE k + 1 \in good
    <2> SUFFICES ASSUME NEW e \in Seq(Byte), Len(e) = 3 * (k + 1) PROVE P(e)
      OBVIOUS
    <2>1. PICK d \in Seq(Byte), g \in Seq(Byte) : e = d \o g /\ Len(d) = 3 * k /\ Len(g) = 3
      <3>1. PICK m \in Nat : m = 3 * k /\ Len(e) = m + 3
        OBVIOUS
      <3>2. PICK d, g \in Seq(Byte) : IsSplit(e, d, g, m, 3)
        BY <3>1, Split
      <3> QED
        BY <3>1, <3>2 DEF IsSplit
    <2>2. P(d)
      BY <2>1
    <2> DEFINE t == Base64Encode(d)
               u == Group(g)
               st == RunOf(DecodeStep, DecodeStart, t)
    <2>3. Base64Encode(e) = t \o u
      BY <2>1, EncodeAppend
    <2>4. t \in Seq(Coded) /\ st \in DecodeState /\ st.bits = 0 /\ st.out = d
      BY <2>2
    <2> HIDE DEF t
    <2>5. /\ u \in Seq(Coded) /\ RunOf(DecodeStep, st, u) \in DecodeState
          /\ RunOf(DecodeStep, st, u).bits = 0 /\ RunOf(DecodeStep, st, u).out = d \o g
      <3> HIDE DEF st
      <3>1. Len(g) = 3
        BY <2>1
      <3>2. RunOf(DecodeStep, st, Group(g)).out = st.out \o g
        BY <2>4, <3>1, WholeGroup
      <3> QED
        BY <2>4, <3>1, <3>2, WholeGroup
    <2> HIDE DEF u
    <2>6. RunOf(DecodeStep, DecodeStart, t \o u) = RunOf(DecodeStep, st, u)
      BY <1>1, <2>4, <2>5, DecodeAutomaton, RunConcat
    <2>7. t \o u \in Seq(Coded)
      BY <2>4, <2>5, ConcatProperties
    <2> HIDE DEF st
    <2> QED
      BY <2>1, <2>3, <2>5, <2>6, <2>7, Zenon
  <1>4. good \in SUBSET Nat
    OBVIOUS
  <1> HIDE DEF good
  <1>5. good = Nat
    BY <1>2, <1>3, <1>4, Induction
  <1> QED
    BY <1>5 DEF good

-----------------------------------------------------------------------------
(* Up to the first occurrence of a character *)

FirstOf(s, c) ==
  LET at == {i \in 1..Len(s) : s[i] = c}
  IN  IF at # {} THEN Min(at) ELSE 0

LEMMA FirstOfNone ==
  ASSUME NEW T, NEW s \in Seq(T), NEW c, c \notin T
  PROVE  FirstOf(s, c) = 0
  BY DEF FirstOf

LEMMA FirstOfConcat ==
  ASSUME NEW T, NEW c, c \notin T, NEW U, T \subseteq U, c \in U,
         NEW a \in Seq(T), NEW b \in Seq(U)
  PROVE  LET s == a \o <<c>> \o b
         IN  /\ FirstOf(s, c) = Len(a) + 1
             /\ SubSeq(s, 1, Len(a)) = a
             /\ SubSeq(s, Len(a) + 2, Len(s)) = b
             /\ s \in Seq(U) /\ Len(s) = Len(a) + 1 + Len(b)
  <1> DEFINE s == a \o <<c>> \o b
             n == Len(a) + 1
             at == {i \in 1..Len(s) : s[i] = c}
  <1>1. a \in Seq(U) /\ <<c>> \in Seq(U)
    BY SeqMonotonic
  <1>2. s \in Seq(U) /\ Len(s) = n + Len(b)
    BY <1>1
  <1>3. s[n] = c /\ \A i \in 1..Len(a) : s[i] = a[i]
    BY <1>1
  <1>4. n \in at /\ \A i \in at : n <= i
    <2> HIDE DEF s
    <2>1. n \in at
      BY <1>2, <1>3
    <2>2. ASSUME NEW i \in at PROVE n <= i
      <3>1. i \in 1..Len(s) /\ s[i] = c
        OBVIOUS
      <3>2. CASE i \in 1..Len(a)
        <4>1. a[i] \in T
          BY <3>2
        <4> QED
          BY <1>3, <3>1, <3>2, <4>1
      <3> QED
        BY <1>2, <3>1, <3>2
    <2> QED
      BY <2>1, <2>2
  <1>5. \A m \in at : m \in Int
    OBVIOUS
  <1>6. n \in Int
    OBVIOUS
  <1>7. FirstOf(s, c) = Min(at) /\ at # {}
    BY <1>4 DEF FirstOf
  <1>8. Min(at) \in at /\ \A i \in at : Min(at) <= i
    <2> HIDE DEF at, n
    <2> QED
      BY <1>4, Zenon DEF Min
  <1>9. Min(at) = n
    <2> HIDE DEF at, n
    <2>1. PICK m : m = Min(at)
      OBVIOUS
    <2>2. m \in Int /\ n <= m /\ m <= n
      BY <1>4, <1>5, <1>8, <2>1, Zenon
    <2> QED
      BY <1>6, <2>1, <2>2
  <1>10. SubSeq(s, 1, Len(a)) = a
    <2> HIDE DEF s
    <2>1. SubSeq(s, 1, Len(a)) \in Seq(U) /\ Len(SubSeq(s, 1, Len(a))) = Len(a)
      BY <1>2
    <2>2. \A i \in 1..Len(a) : SubSeq(s, 1, Len(a))[i] = a[i]
      BY <1>2, <1>3
    <2> QED
      BY <1>1, <2>1, <2>2, SeqEqual
  <1>11. SubSeq(s, Len(a) + 2, Len(s)) = b
    <2> DEFINE ac == a \o <<c>>
    <2>1. ac \in Seq(U) /\ Len(ac) + 1 = Len(a) + 2 /\ s = ac \o b
      BY <1>1
    <2>2. Len(ac) + Len(b) = Len(s)
      BY <1>1
    <2> HIDE DEF ac
    <2>3. SubSeq(ac \o b, Len(ac) + 1, Len(ac) + Len(b)) = b
      BY <2>1, SubSeqEnd
    <2> QED
      BY <2>1, <2>2, <2>3, Zenon
  <1> HIDE DEF s
  <1> QED
    BY <1>2, <1>7, <1>9, <1>10, <1>11 DEF s

LEMMA BeforePadFirst ==
  ASSUME NEW s
  PROVE  BeforePad(s) = IF FirstOf(s, Pad) = 0 THEN s ELSE SubSeq(s, 1, FirstOf(s, Pad) - 1)
  BY Zenon DEF BeforePad, FirstOf, SelectInSeq

(* The text before the padding. *)
LEMMA BeforePadOf ==
  ASSUME NEW k \in Seq(Coded), NEW p \in Seq({Pad})
  PROVE  BeforePad(k \o p) = k /\ Decodable(k \o p)
  <1>1. \A v \in 0..63 : v >= 0
    OBVIOUS
  <1>2. CASE p = << >>
    <2>1. k \o p = k
      BY <1>2
    <2>2. FirstOf(k, Pad) = 0
      BY FirstOfNone, PadNotCoded
    <2>3. BeforePad(k) = k
      BY <2>2, BeforePadFirst, Zenon
    <2>4. Decodable(k)
      <3>1. ASSUME NEW i \in DOMAIN BeforePad(k) PROVE B64Value(k[i]) >= 0
        <4>1. k[i] \in Coded
          BY <2>3
        <4>2. B64Value(k[i]) \in 0..63
          BY <4>1 DEF Coded
        <4> QED
          BY <1>1, <4>2, Zenon
      <3> QED
        BY <3>1 DEF Decodable
    <2> QED
      BY <2>1, <2>3, <2>4
  <1>3. CASE p # << >>
    <2>1. PICK q \in Seq({Pad}) : p = <<Pad>> \o q
      <3>1. PICK r \in Nat : Len(p) = 1 + r
        <4>1. Len(p) \in Nat /\ Len(p) # 0
          BY <1>3
        <4> QED
          BY <4>1, Len(p) - 1 \in Nat, Len(p) = 1 + (Len(p) - 1)
      <3>2. PICK a, b \in Seq({Pad}) : IsSplit(p, a, b, 1, r)
        BY <3>1, Split
      <3>3. Len(a) = 1 /\ p = a \o b
        BY <3>2 DEF IsSplit
      <3>4. a[1] = Pad
        <4>1. 1 \in 1..Len(a)
          BY <3>3
        <4>2. a[1] \in {Pad}
          BY <4>1, ElementOfSeq, Zenon
        <4> QED
          BY <4>2
      <3>5. a = <<Pad>>
        BY <3>3, <3>4
      <3> QED
        BY <3>3, <3>5
    <2>2. q \in Seq(Text64) /\ Pad \in Text64 /\ Coded \subseteq Text64
      BY SeqMonotonic DEF Text64
    <2> DEFINE s == k \o <<Pad>> \o q
    <2>3. s = k \o p
      <3>1. k \in Seq(Text64) /\ <<Pad>> \in Seq(Text64)
        BY <2>2, SeqMonotonic
      <3> QED
        BY <2>1, <2>2, <3>1, ConcatAssociative
    <2>4. /\ FirstOf(s, Pad) = Len(k) + 1 /\ SubSeq(s, 1, Len(k)) = k
          /\ s \in Seq(Text64) /\ Len(s) = Len(k) + 1 + Len(q)
      BY <2>2, PadNotCoded, FirstOfConcat
    <2> HIDE DEF s
    <2>5. BeforePad(s) = k
      <3>1. FirstOf(s, Pad) # 0 /\ FirstOf(s, Pad) - 1 = Len(k)
        BY <2>4
      <3> QED
        BY <2>4, <3>1, BeforePadFirst, Zenon
    <2>6. \A i \in 1..Len(k) : s[i] = k[i]
      <3>1. ASSUME NEW i \in 1..Len(k) PROVE s[i] = SubSeq(s, 1, Len(k))[i]
        BY <2>4
      <3> QED
        BY <2>4, <3>1
    <2>7. Decodable(s)
      <3>1. ASSUME NEW i \in DOMAIN BeforePad(s) PROVE B64Value(s[i]) >= 0
        <4>1. i \in 1..Len(k) /\ k[i] \in Coded /\ s[i] = k[i]
          BY <2>5, <2>6
        <4>2. B64Value(k[i]) \in 0..63
          BY <4>1 DEF Coded
        <4> QED
          BY <1>1, <4>1, <4>2, Zenon
      <3> QED
        BY <3>1 DEF Decodable
    <2> QED
      BY <2>3, <2>5, <2>7
  <1> QED
    BY <1>2, <1>3

(* The text of any bytes is the text of whole groups and that of a last one. *)
LEMMA EncodeParts ==
  ASSUME NEW data \in Seq(Byte)
  PROVE  \E k \in Seq(Coded), p \in Seq({Pad}) :
            /\ Base64Encode(data) = k \o p
            /\ RunOf(DecodeStep, DecodeStart, k).out = data
  <1> DEFINE len == Len(data)
             n == len \div 3
  <1>1. n \in Nat /\ 3 * n \in 0..len /\ len - 3 * n \in 0..2
    <2>1. len \in Nat
      OBVIOUS
    <2> HIDE DEF len
    <2> QED
      BY <2>1
  <1>2. PICK d \in Seq(Byte), g \in Seq(Byte) :
           data = d \o g /\ Len(d) = 3 * n /\ Len(g) = len - 3 * n
    <2>1. PICK m \in Nat, r \in Nat : m = 3 * n /\ r = len - 3 * n /\ Len(data) = m + r
      <3>1. len \in Nat
        OBVIOUS
      <3> HIDE DEF n
      <3> QED
        BY <1>1, <3>1, 3 * n \in Nat, len - 3 * n \in Nat, len = 3 * n + (len - 3 * n)
    <2>2. PICK d, g \in Seq(Byte) : IsSplit(data, d, g, m, r)
      BY <2>1, Split
    <2> HIDE DEF n
    <2> QED
      BY <2>1, <2>2 DEF IsSplit
  <1> HIDE DEF n
  <1> DEFINE t == Base64Encode(d)
             st == RunOf(DecodeStep, DecodeStart, t)
  <1>3. t \in Seq(Coded) /\ st \in DecodeState /\ st.bits = 0 /\ st.out = d
    BY <1>1, <1>2, WholeGroups
  <1>4. DecodeStart \in DecodeState
    BY DEF DecodeStart, DecodeState
  <1>5. CASE Len(g) = 0
    <2>1. data = d
      BY <1>2, <1>5
    <2>2. t = t \o << >> /\ << >> \in Seq({Pad})
      BY <1>3
    <2> HIDE DEF t
    <2> QED
      BY <1>3, <2>1, <2>2, Zenon DEF t
  <1>6. CASE Len(g) # 0
    <2>1. Len(g) \in 1..2 /\ Len(g) \in 1..3
      BY <1>1, <1>2, <1>6
    <2>2. Base64Encode(data) = t \o Group(g)
      BY <1>1, <1>2, <2>1, EncodeAppend
    <2> HIDE DEF t, st
    <2>3. PICK k \in Seq(Coded), p \in Seq({Pad}) :
            Group(g) = k \o p /\ RunOf(DecodeStep, st, k).out = st.out \o g
      BY <1>3, <2>1, LastGroup
    <2>4. t \o k \in Seq(Coded)
      BY <1>3, ConcatProperties
    <2>5. t \o (k \o p) = (t \o k) \o p
      <3>1. t \in Seq(Text64) /\ k \in Seq(Text64) /\ p \in Seq(Text64)
        BY <1>3, SeqMonotonic DEF Text64
      <3>2. Cat(t, Cat(k, p)) = Cat(Cat(t, k), p)
        BY <3>1, CatAssociative
      <3> QED
        BY <3>2, Zenon DEF Cat
    <2>6. RunOf(DecodeStep, DecodeStart, t \o k) = RunOf(DecodeStep, st, k)
      BY <1>3, <1>4, DecodeAutomaton, RunConcat DEF st
    <2>7. Base64Encode(data) = (t \o k) \o p
      BY <2>2, <2>3, <2>5, Zenon
    <2>8. RunOf(DecodeStep, DecodeStart, t \o k).out = data
      BY <1>2, <1>3, <2>3, <2>6, Zenon
    <2> QED
      BY <2>4, <2>7, <2>8, Zenon
  <1> QED
    BY <1>5, <1>6

(* Base64Decode gives back what Base64Encode was given, and does not throw. *)
THEOREM Base64RoundTrip ==
  ASSUME NEW data \in Seq(Byte)
  PROVE  /\ Decodable(Base64Encode(data))
         /\ Base64Decode(Base64Encode(data)) = data
  <1>1. PICK k \in Seq(Coded), p \in Seq({Pad}) :
            /\ Base64Encode(data) = k \o p
            /\ RunOf(DecodeStep, DecodeStart, k).out = data
    BY EncodeParts
  <1>2. BeforePad(k \o p) = k /\ Decodable(k \o p)
    BY BeforePadOf
  <1>3. DecodeStart \in DecodeState
    BY DEF DecodeStart, DecodeState
  <1>4. Run(DecodeChar, DecodeStart, k) = RunOf(DecodeStep, DecodeStart, k)
    BY <1>3, DecodeRun
  <1>5. Base64Decode(k \o p) = Run(DecodeChar, DecodeStart, k).out
    BY <1>2, Zenon DEF Base64Decode
  <1> QED
    BY <1>1, <1>2, <1>4, <1>5, Zenon

LEMMA EncodeType ==
  ASSUME NEW data \in Seq(Byte)
  PROVE  /\ Base64Encode(data) \in Seq(Text64)
         /\ data # << >> => Base64Encode(data) # << >>
  <1>1. PICK k \in Seq(Coded), p \in Seq({Pad}) :
            /\ Base64Encode(data) = k \o p
            /\ RunOf(DecodeStep, DecodeStart, k).out = data
    BY EncodeParts
  <1>2. k \in Seq(Text64) /\ p \in Seq(Text64)
    BY SeqMonotonic DEF Text64
  <1>3. k \o p \in Seq(Text64)
    BY <1>2, ConcatProperties
  <1>4. ASSUME k \o p = << >> PROVE data = << >>
    <2>1. k = << >>
      BY <1>2, <1>4, ConcatEqualIffEmpty
    <2>2. DecodeStart \in DecodeState /\ DecodeStart.out = << >>
      BY DEF DecodeStart, DecodeState
    <2>3. RunOf(DecodeStep, DecodeStart, << >>) = DecodeStart
      BY <2>2, DecodeAutomaton, RunEmpty
    <2> QED
      BY <1>1, <2>1, <2>2, <2>3, Zenon
  <1> QED
    BY <1>1, <1>3, <1>4, Zenon

-----------------------------------------------------------------------------
(* The URL form *)

UrlChar(c) == IF c = 43 THEN 42 ELSE IF c = 47 THEN 45 ELSE IF c = Pad THEN 95 ELSE c
StdChar(c) == IF c = 95 THEN Pad ELSE IF c = 45 THEN 47 ELSE IF c = 42 THEN 43 ELSE c

LEMMA UrlCharBack ==
  ASSUME NEW c \in Text64
  PROVE  UrlChar(c) \in Byte /\ StdChar(UrlChar(c)) = c
  <1>1. c \in Byte /\ c \notin {42, 45, 95}
    BY DEF Text64, Coded, Byte, Pad, B64Value
  <1> QED
    BY <1>1 DEF UrlChar, StdChar, Pad, Byte

(* The text form of a UserSig decodes to the document, and is made of bytes. *)
THEOREM Base64UrlRoundTrip ==
  ASSUME NEW data \in Seq(Byte)
  PROVE  /\ Base64UrlEncode(data) \in Seq(Byte)
         /\ Base64UrlDecode(Base64UrlEncode(data)) = data
  <1> DEFINE s == Base64Encode(data)
             u == [i \in DOMAIN s |-> UrlChar(s[i])]
             v == [i \in DOMAIN u |-> StdChar(u[i])]
  <1>1. s \in Seq(Text64)
    BY EncodeType
  <1>2. Base64UrlEncode(data) = u
    BY Zenon DEF Base64UrlEncode, UrlChar
  <1>3. Base64UrlDecode(u) = Base64Decode(v)
    BY Zenon DEF Base64UrlDecode, StdChar
  <1>4. Base64Decode(s) = data
    BY Base64RoundTrip
  <1> HIDE DEF s
  <1>5. DOMAIN s = 1..Len(s) /\ Len(s) \in Nat /\ \A i \in 1..Len(s) : s[i] \in Text64
    BY <1>1
  <1>6. \A i \in 1..Len(s) : UrlChar(s[i]) \in Byte /\ StdChar(UrlChar(s[i])) = s[i]
    BY <1>5, UrlCharBack
  <1>7. u \in Seq(Byte)
    BY <1>5, <1>6
  <1>8. v = s
    <2>1. v = [i \in 1..Len(s) |-> s[i]]
      BY <1>5, <1>6
    <2> QED
      BY <1>1, <2>1
  <1> QED
    BY <1>2, <1>3, <1>4, <1>7, <1>8, Zenon

-----------------------------------------------------------------------------
(* Escaping *)

(* What may stand in a key or an escaped value. *)
QueryChar == Byte \ {Amp, Equals}

UnescapeState == [due : {0, 1, 2}, high : Int, out : Seq(Int)]
UnescapeStep == [p \in UnescapeState \X Byte |-> UnescapeChar(p[1], p[2])]

LEMMA UnescapeAutomaton == Automaton(UnescapeStep, UnescapeState, Byte)
  <1>1. ASSUME NEW st \in UnescapeState, NEW c \in Byte
        PROVE  UnescapeChar(st, c) \in UnescapeState
    <2>1. UnHex(c) \in Int /\ c \in Int
      BY DEF UnHex, Byte
    <2>2. st.due \in {0, 1, 2} /\ st.high \in Int /\ st.out \in Seq(Int)
      BY DEF UnescapeState
    <2>3. PICK y \in Int : y = 16 * st.high + UnHex(c)
      BY <2>1, <2>2
    <2>4. PICK z \in Int : z = IF c = 43 THEN 32 ELSE c
      BY <2>1
    <2>5. Append(st.out, y) \in Seq(Int) /\ Append(st.out, z) \in Seq(Int)
      BY <2>2
    <2>6. \/ UnescapeChar(st, c) = [due |-> 1, high |-> UnHex(c), out |-> st.out]
          \/ UnescapeChar(st, c) = [due |-> 0, high |-> 0, out |-> Append(st.out, y)]
          \/ UnescapeChar(st, c) = [due |-> 2, high |-> 0, out |-> st.out]
          \/ UnescapeChar(st, c) = [due |-> 0, high |-> 0, out |-> Append(st.out, z)]
      BY <2>3, <2>4, Zenon DEF UnescapeChar
    <2>7. /\ [due |-> 1, high |-> UnHex(c), out |-> st.out] \in UnescapeState
          /\ [due |-> 0, high |-> 0, out |-> Append(st.out, y)] \in UnescapeState
          /\ [due |-> 2, high |-> 0, out |-> st.out] \in UnescapeState
          /\ [due |-> 0, high |-> 0, out |-> Append(st.out, z)] \in UnescapeState
      BY <2>1, <2>2, <2>5 DEF UnescapeState
    <2> QED
      BY <2>6, <2>7, Zenon
  <1> QED
    BY <1>1 DEF Automaton, UnescapeStep

LEMMA UnescapeRun ==
  ASSUME NEW s0 \in UnescapeState, NEW t \in Seq(Byte)
  PROVE  Run(UnescapeChar, s0, t) = RunOf(UnescapeStep, s0, t)
  <1> DEFINE n == Len(t)
             Eqn(c) == c = [i \in 0..n |-> IF i = 0 THEN s0 ELSE UnescapeChar(c[i - 1], t[i])]
  <1>1. n \in Nat
    OBVIOUS
  <1>2. PICK g \in [0..n -> UnescapeState] :
            IsRun(g, UnescapeStep, s0, t, n) /\ RunOf(UnescapeStep, s0, t) = g[n]
    BY UnescapeAutomaton, RunOfRun
  <1>3. g[0] = s0
    BY <1>2 DEF IsRun
  <1>4. ASSUME NEW i \in 1..n PROVE g[i] = UnescapeChar(g[i - 1], t[i])
    <2>1. g[i] = UnescapeStep[<<g[i - 1], t[i]>>]
      BY <1>2 DEF IsRun
    <2>2. g[i - 1] \in UnescapeState /\ t[i] \in Byte
      BY <1>1, <1>2
    <2> QED
      BY <2>1, <2>2 DEF UnescapeStep
  <1>5. Eqn(g)
    <2>1. ASSUME NEW i \in 0..n
          PROVE  g[i] = IF i = 0 THEN s0 ELSE UnescapeChar(g[i - 1], t[i])
      BY <1>1, <1>3, <1>4
    <2> QED
      BY <1>2, <2>1
  <1>6. PICK c : Eqn(c) /\ Run(UnescapeChar, s0, t) = c[n]
    <2> DEFINE d == CHOOSE x : Eqn(x)
    <2>1. Eqn(d)
      <3> HIDE DEF Eqn
      <3> QED
        BY <1>5
    <2>2. Run(UnescapeChar, s0, t) = d[n]
      BY DEF Run
    <2> HIDE DEF d, Eqn, n
    <2> QED
      BY <2>1, <2>2
  <1>7. \A i \in 0..n : c[i] = IF i = 0 THEN s0 ELSE UnescapeChar(c[i - 1], t[i])
    BY <1>6, Zenon
  <1> DEFINE same == {i \in Nat : c[i] = g[i]}
  <1>8. same \in SUBSET Nat /\ 0 \in same
    <2>1. 0 \in 0..n
      BY <1>1
    <2>2. c[0] = s0
      BY <1>7, <2>1, Zenon
    <2> QED
      BY <1>3, <2>2
  <1>9. ASSUME NEW i \in 1..n, i - 1 \in same PROVE i \in same
    <2>1. i \in 0..n /\ i # 0 /\ i \in Nat
      BY <1>1
    <2>2. c[i] = UnescapeChar(c[i - 1], t[i])
      BY <1>7, <2>1, Zenon
    <2>3. c[i - 1] = g[i - 1]
      BY <1>9
    <2> QED
      BY <1>4, <2>1, <2>2, <2>3
  <1> HIDE DEF same, n
  <1>10. \A i \in 0..n : i \in same
    BY <1>1, <1>8, <1>9, Upto
  <1>11. n \in same
    BY <1>1, <1>10
  <1> QED
    BY <1>2, <1>6, <1>11 DEF same


LEMMA UnescapeNext ==
  ASSUME NEW s0 \in UnescapeState, NEW t \in Seq(Byte), NEW c \in Byte
  PROVE  /\ Append(t, c) \in Seq(Byte)
         /\ RunOf(UnescapeStep, s0, Append(t, c))
              = UnescapeChar(RunOf(UnescapeStep, s0, t), c)
  <1>1. Append(t, c) \in Seq(Byte)
    OBVIOUS
  <1>2. RunOf(UnescapeStep, s0, Append(t, c)) = UnescapeStep[<<RunOf(UnescapeStep, s0, t), c>>]
    BY UnescapeAutomaton, RunAppend
  <1>3. RunOf(UnescapeStep, s0, t) \in UnescapeState
    BY UnescapeAutomaton, RunType
  <1> DEFINE s == RunOf(UnescapeStep, s0, t)
  <1> HIDE DEF s
  <1>4. s \in UnescapeState => UnescapeStep[<<s, c>>] = UnescapeChar(s, c)
    BY DEF UnescapeStep
  <1> QED
    BY <1>1, <1>2, <1>3, <1>4, Zenon DEF s

(* The characters of Hex, and the digit they stand for. *)
LEMMA HexBack ==
  ASSUME NEW n \in 0..15
  PROVE  Hex(n) \in QueryChar /\ UnHex(Hex(n)) = n
  BY DEF Hex, UnHex, QueryChar, Byte, Amp, Equals

LEMMA UnreservedChar ==
  ASSUME NEW c \in Byte, Unreserved(c)
  PROVE  c \in QueryChar /\ c # 37 /\ c # 43
  BY DEF Unreserved, QueryChar, Byte, Amp, Equals

(* Unescaping what stands for a character gives the character. *)
LEMMA EscapeCharBack ==
  ASSUME NEW st \in UnescapeState, st.due = 0, NEW c \in Byte
  PROVE  /\ EscapeChar(c) \in Seq(QueryChar)
         /\ RunOf(UnescapeStep, st, EscapeChar(c))
              = [due |-> 0, high |-> 0, out |-> Append(st.out, c)]
  <1> DEFINE t0 == << >>
  <1>1. t0 \in Seq(Byte) /\ RunOf(UnescapeStep, st, t0) = st
    BY UnescapeAutomaton, RunEmpty
  <1>2. {37, 43} \subseteq QueryChar /\ QueryChar \subseteq Byte
    BY DEF QueryChar, Byte, Amp, Equals
  <1>3. CASE Unreserved(c)
    <2>1. EscapeChar(c) = <<c>> /\ c \in QueryChar /\ c # 37 /\ c # 43
      BY <1>3, UnreservedChar DEF EscapeChar
    <2>2. <<c>> = Append(t0, c) /\ <<c>> \in Seq(QueryChar)
      BY <2>1
    <2> HIDE DEF t0
    <2>3. RunOf(UnescapeStep, st, Append(t0, c)) = UnescapeChar(st, c)
      BY <1>1, UnescapeNext
    <2>4. UnescapeChar(st, c) = [due |-> 0, high |-> 0, out |-> Append(st.out, c)]
      BY <2>1 DEF UnescapeChar
    <2> QED
      BY <2>1, <2>2, <2>3, <2>4, Zenon
  <1>4. CASE ~Unreserved(c) /\ c = 32
    <2>1. EscapeChar(c) = <<43>> /\ 43 \in Byte
      BY <1>2, <1>4 DEF EscapeChar
    <2>2. <<43>> = Append(t0, 43) /\ <<43>> \in Seq(QueryChar)
      BY <1>2
    <2> HIDE DEF t0
    <2>3. RunOf(UnescapeStep, st, Append(t0, 43)) = UnescapeChar(st, 43)
      BY <1>1, <2>1, UnescapeNext
    <2>4. UnescapeChar(st, 43) = [due |-> 0, high |-> 0, out |-> Append(st.out, c)]
      BY <1>4 DEF UnescapeChar
    <2> QED
      BY <2>1, <2>2, <2>3, <2>4, Zenon
  <1>5. CASE ~Unreserved(c) /\ c # 32
    <2>1. PICK h \in 0..15, l \in 0..15 : h = c \div 16 /\ l = c % 16 /\ c = 16 * h + l
      BY DEF Byte
    <2>2. PICK x \in QueryChar, y \in QueryChar :
             x = Hex(h) /\ y = Hex(l) /\ UnHex(x) = h /\ UnHex(y) = l
      BY HexBack
    <2>3. EscapeChar(c) = <<37, x, y>>
      BY <1>5, <2>1, <2>2, Zenon DEF EscapeChar
    <2>4. <<37, x, y>> \in Seq(QueryChar)
      BY <1>2
    <2>5. 37 \in Byte /\ x \in Byte /\ y \in Byte
      BY <1>2
    <2> DEFINE t1 == <<37>>
               t2 == <<37, x>>
               t3 == <<37, x, y>>
               s1 == [due |-> 2, high |-> 0, out |-> st.out]
               s2 == [due |-> 1, high |-> h, out |-> st.out]
               s3 == [due |-> 0, high |-> 0, out |-> Append(st.out, c)]
    <2>6. t1 = Append(t0, 37) /\ t2 = Append(t1, x) /\ t3 = Append(t2, y)
      OBVIOUS
    <2>7. UnescapeChar(st, 37) = s1
      BY DEF UnescapeChar
    <2>8. UnescapeChar(s1, x) = s2
      BY <2>2 DEF UnescapeChar
    <2>9. UnescapeChar(s2, y) = s3
      <3>1. 16 * h + UnHex(y) = c
        BY <2>1, <2>2
      <3> QED
        BY <3>1 DEF UnescapeChar
    <2> HIDE DEF t0, t1, t2, t3, s1, s2, s3
    <2>10. t1 \in Seq(Byte) /\ RunOf(UnescapeStep, st, t1) = s1
      <3>1. /\ Append(t0, 37) \in Seq(Byte)
            /\ RunOf(UnescapeStep, st, Append(t0, 37))
                 = UnescapeChar(RunOf(UnescapeStep, st, t0), 37)
        BY <1>1, <2>5, UnescapeNext
      <3> QED
        BY <1>1, <2>6, <2>7, <3>1, Zenon
    <2>11. t2 \in Seq(Byte) /\ RunOf(UnescapeStep, st, t2) = s2
      <3>1. /\ Append(t1, x) \in Seq(Byte)
            /\ RunOf(UnescapeStep, st, Append(t1, x))
                 = UnescapeChar(RunOf(UnescapeStep, st, t1), x)
        BY <2>10, <2>5, UnescapeNext
      <3> QED
        BY <2>10, <2>6, <2>8, <3>1, Zenon
    <2>12. t3 \in Seq(Byte) /\ RunOf(UnescapeStep, st, t3) = s3
      <3>1. /\ Append(t2, y) \in Seq(Byte)
            /\ RunOf(UnescapeStep, st, Append(t2, y))
                 = UnescapeChar(RunOf(UnescapeStep, st, t2), y)
        BY <2>11, <2>5, UnescapeNext
      <3> QED
        BY <2>11, <2>6, <2>9, <3>1, Zenon
    <2> QED
      BY <2>3, <2>4, <2>12, Zenon DEF t3, s3
  <1> QED
    BY <1>3, <1>4, <1>5

(* An escaped text is longer by what stands for the next character. *)
LEMMA EscapeAppend ==
  ASSUME NEW v \in Seq(Byte), NEW c \in Byte
  PROVE  QueryEscape(Append(v, c)) = QueryEscape(v) \o EscapeChar(c)
  <1> DEFINE w == Append(v, c)
             n == Len(v)
             E(s) == [i \in DOMAIN s |-> EscapeChar(s[i])]
  <1>1. UnescapeStart \in UnescapeState /\ UnescapeStart.due = 0
    BY DEF UnescapeStart, UnescapeState
  <1>2. \A x \in Byte : EscapeChar(x) \in Seq(QueryChar)
    BY <1>1, EscapeCharBack
  <1>3. E(v) \in Seq(Seq(QueryChar)) /\ Len(E(v)) = n
    <2>1. DOMAIN v = 1..n /\ n \in Nat /\ \A i \in 1..n : v[i] \in Byte
      OBVIOUS
    <2>2. \A i \in 1..n : EscapeChar(v[i]) \in Seq(QueryChar)
      BY <1>2, <2>1
    <2>3. E(v) = [i \in 1..n |-> EscapeChar(v[i])]
      BY <2>1
    <2> QED
      BY <2>1, <2>2, <2>3
  <1>4. E(w) = Append(E(v), EscapeChar(c))
    <2>1. /\ w \in Seq(Byte) /\ DOMAIN w = 1..(n + 1) /\ w[n + 1] = c
          /\ \A i \in 1..n : w[i] = v[i]
      OBVIOUS
    <2>2. PICK x : x = EscapeChar(c)
      OBVIOUS
    <2>3. PICK e : e = E(v)
      OBVIOUS
    <2>4. e \in Seq(Seq(QueryChar)) /\ Len(e) = n /\ \A i \in 1..n : e[i] = EscapeChar(v[i])
      BY <1>3, <2>3
    <2> HIDE DEF w
    <2>5. E(w) = [i \in 1..(n + 1) |-> EscapeChar(w[i])]
      BY <2>1
    <2>6. ASSUME NEW i \in 1..(n + 1) PROVE EscapeChar(w[i]) = Append(e, x)[i]
      <3>1. CASE i = n + 1
        BY <2>1, <2>2, <2>4, <3>1
      <3>2. CASE i # n + 1
        <4>1. i \in 1..n
          BY <3>2
        <4>2. Append(e, x)[i] = e[i]
          BY <2>4, <4>1
        <4> QED
          BY <2>1, <2>4, <4>1, <4>2
      <3> QED
        BY <3>1, <3>2
    <2>7. Append(e, x) = [i \in 1..(n + 1) |-> Append(e, x)[i]]
      <3>1. x \in Seq(QueryChar)
        BY <1>2, <2>2
      <3>2. PICK a : a = Append(e, x)
        OBVIOUS
      <3>3. a \in Seq(Seq(QueryChar)) /\ Len(a) = n + 1
        BY <2>4, <3>1, <3>2
      <3>4. a = [i \in 1..(n + 1) |-> a[i]]
        BY <3>3
      <3> QED
        BY <3>2, <3>4, Zenon
    <2>8. E(w) = Append(e, x)
      BY <2>5, <2>6, <2>7
    <2> QED
      BY <2>2, <2>3, <2>8, Zenon
  <1>5. FlattenSeq(Append(E(v), EscapeChar(c))) = FlattenSeq(E(v)) \o EscapeChar(c)
    <2>1. PICK e : e = E(v)
      OBVIOUS
    <2>2. e \in Seq(Seq(QueryChar)) /\ EscapeChar(c) \in Seq(QueryChar)
      BY <1>2, <1>3, <2>1
    <2>3. FlattenSeq(Append(e, EscapeChar(c))) = FlattenSeq(e) \o EscapeChar(c)
      BY <2>2, FlattenAppend
    <2> QED
      BY <2>1, <2>3, Zenon
  <1> QED
    BY <1>4, <1>5, Zenon DEF QueryEscape

LEMMA EscapeEmpty == QueryEscape(<< >>) = << >>
  <1>1. [i \in DOMAIN << >> |-> EscapeChar(<< >>[i])] = << >>
    OBVIOUS
  <1> QED
    BY <1>1, FlattenEmpty, Zenon DEF QueryEscape

LEMMA EscapedRun ==
  ASSUME NEW n \in Nat
  PROVE  \A v \in Seq(Byte) : Len(v) = n =>
            /\ QueryEscape(v) \in Seq(QueryChar)
            /\ RunOf(UnescapeStep, UnescapeStart, QueryEscape(v))
                 = [due |-> 0, high |-> 0, out |-> v]
  <1> DEFINE P(v) ==
               /\ QueryEscape(v) \in Seq(QueryChar)
               /\ RunOf(UnescapeStep, UnescapeStart, QueryEscape(v))
                    = [due |-> 0, high |-> 0, out |-> v]
             good == {k \in Nat : \A v \in Seq(Byte) : Len(v) = k => P(v)}
  <1>1. UnescapeStart \in UnescapeState
    BY DEF UnescapeStart, UnescapeState
  <1>2. 0 \in good
    <2> SUFFICES ASSUME NEW v \in Seq(Byte), Len(v) = 0 PROVE P(v)
      OBVIOUS
    <2>1. v = << >> /\ << >> \in Seq(QueryChar)
      OBVIOUS
    <2>2. RunOf(UnescapeStep, UnescapeStart, << >>) = UnescapeStart
      BY <1>1, UnescapeAutomaton, RunEmpty
    <2> QED
      BY <2>1, <2>2, EscapeEmpty, Zenon DEF UnescapeStart
  <1>3. ASSUME NEW k \in good PROVE k + 1 \in good
    <2> SUFFICES ASSUME NEW v \in Seq(Byte), Len(v) = k + 1 PROVE P(v)
      OBVIOUS
    <2>1. PICK u \in Seq(Byte), c \in Byte : v = Append(u, c) /\ Len(u) = k
      BY Last1
    <2>2. P(u)
      BY <2>1
    <2> DEFINE t == QueryEscape(u)
               x == EscapeChar(c)
               st == RunOf(UnescapeStep, UnescapeStart, t)
    <2>3. t \in Seq(QueryChar) /\ st = [due |-> 0, high |-> 0, out |-> u]
      BY <2>2
    <2>4. QueryEscape(v) = t \o x
      BY <2>1, EscapeAppend
    <2>5. u \in Seq(Int) /\ QueryChar \subseteq Byte
      <3>1. Byte \subseteq Int
        BY DEF Byte
      <3> QED
        BY <3>1, SeqMonotonic DEF QueryChar
    <2> HIDE DEF t
    <2>6. st \in UnescapeState /\ st.due = 0 /\ st.out = u
      BY <2>3, <2>5 DEF UnescapeState
    <2> HIDE DEF st
    <2>7. /\ x \in Seq(QueryChar)
          /\ RunOf(UnescapeStep, st, x) = [due |-> 0, high |-> 0, out |-> Append(st.out, c)]
      BY <2>6, EscapeCharBack
    <2> HIDE DEF x
    <2>8. t \in Seq(Byte) /\ x \in Seq(Byte)
      BY <2>3, <2>5, <2>7, SeqMonotonic
    <2>9. RunOf(UnescapeStep, UnescapeStart, t \o x) = RunOf(UnescapeStep, st, x)
      BY <1>1, <2>8, UnescapeAutomaton, RunConcat DEF st
    <2>10. t \o x \in Seq(QueryChar)
      BY <2>3, <2>7, ConcatProperties
    <2> QED
      BY <2>1, <2>4, <2>6, <2>7, <2>9, <2>10, Zenon
  <1>4. good \in SUBSET Nat
    OBVIOUS
  <1> HIDE DEF good
  <1>5. good = Nat
    BY <1>2, <1>3, <1>4, Induction
  <1> QED
    BY <1>5 DEF good

(* What QueryEscape writes has no & and no =, and unescapes to what it was *)
(* given.                                                                  *)
THEOREM EscapeRoundTrip ==
  ASSUME NEW v \in Seq(Byte)
  PROVE  QueryEscape(v) \in Seq(QueryChar) /\ Unescape(QueryEscape(v)) = v
  <1>1. Len(v) \in Nat
    OBVIOUS
  <1>2. /\ QueryEscape(v) \in Seq(QueryChar)
        /\ RunOf(UnescapeStep, UnescapeStart, QueryEscape(v))
             = [due |-> 0, high |-> 0, out |-> v]
    BY <1>1, EscapedRun
  <1>3. UnescapeStart \in UnescapeState
    BY DEF UnescapeStart, UnescapeState
  <1>4. QueryEscape(v) \in Seq(Byte)
    BY <1>2, SeqMonotonic DEF QueryChar
  <1>5. Run(UnescapeChar, UnescapeStart, QueryEscape(v))
          = RunOf(UnescapeStep, UnescapeStart, QueryEscape(v))
    BY <1>3, <1>4, UnescapeRun
  <1>6. [due |-> 0, high |-> 0, out |-> v].out = v
    OBVIOUS
  <1> QED
    BY <1>2, <1>5, <1>6, Zenon DEF Unescape
-----------------------------------------------------------------------------
(* The query string *)

(* w is e and one more element, x. *)
Extends(w, e, x, n) ==
  /\ w = [i \in 1..(n + 1) |-> w[i]]
  /\ w[n + 1] = x
  /\ \A i \in 1..n : w[i] = e[i]

LEMMA Extend ==
  ASSUME NEW B, NEW n \in Nat, NEW e \in Seq(B), Len(e) = n, NEW x \in B,
         NEW w, Extends(w, e, x, n)
  PROVE  w = Append(e, x)
  <1>1. PICK a : a = Append(e, x)
    OBVIOUS
  <1>2. a \in Seq(B) /\ Len(a) = n + 1 /\ a[n + 1] = x /\ \A i \in 1..n : a[i] = e[i]
    BY <1>1
  <1>3. a = [i \in 1..(n + 1) |-> a[i]]
    BY <1>2
  <1>4. ASSUME NEW i \in 1..(n + 1) PROVE a[i] = w[i]
    <2>1. i = n + 1 \/ i \in 1..n
      OBVIOUS
    <2> QED
      BY <1>2, <2>1, Zenon DEF Extends
  <1> QED
    BY <1>1, <1>3, <1>4 DEF Extends

CutState == [done : Seq(Seq(Byte)), last : Seq(Byte)]
CutStep == [p \in CutState \X Byte |-> CutChar(p[1], p[2])]

LEMMA CutAutomaton == Automaton(CutStep, CutState, Byte)
  <1>1. ASSUME NEW st \in CutState, NEW c \in Byte
        PROVE  CutChar(st, c) \in CutState
    <2>1. st.done \in Seq(Seq(Byte)) /\ st.last \in Seq(Byte)
      BY DEF CutState
    <2>2. Append(st.done, st.last) \in Seq(Seq(Byte)) /\ Append(st.last, c) \in Seq(Byte)
      BY <2>1
    <2>3. << >> \in Seq(Byte)
      OBVIOUS
    <2>4. /\ [done |-> Append(st.done, st.last), last |-> << >>] \in CutState
          /\ [done |-> st.done, last |-> Append(st.last, c)] \in CutState
      BY <2>1, <2>2, <2>3 DEF CutState
    <2> QED
      BY <2>4, Zenon DEF CutChar
  <1> QED
    BY <1>1 DEF Automaton, CutStep

LEMMA CutRun ==
  ASSUME NEW s0 \in CutState, NEW t \in Seq(Byte)
  PROVE  Run(CutChar, s0, t) = RunOf(CutStep, s0, t)
  <1> DEFINE n == Len(t)
             Eqn(c) == c = [i \in 0..n |-> IF i = 0 THEN s0 ELSE CutChar(c[i - 1], t[i])]
  <1>1. n \in Nat
    OBVIOUS
  <1>2. PICK g \in [0..n -> CutState] :
            IsRun(g, CutStep, s0, t, n) /\ RunOf(CutStep, s0, t) = g[n]
    BY CutAutomaton, RunOfRun
  <1>3. g[0] = s0
    BY <1>2 DEF IsRun
  <1>4. ASSUME NEW i \in 1..n PROVE g[i] = CutChar(g[i - 1], t[i])
    <2>1. g[i] = CutStep[<<g[i - 1], t[i]>>]
      BY <1>2 DEF IsRun
    <2>2. g[i - 1] \in CutState /\ t[i] \in Byte
      BY <1>1, <1>2
    <2> QED
      BY <2>1, <2>2 DEF CutStep
  <1>5. Eqn(g)
    <2>1. ASSUME NEW i \in 0..n
          PROVE  g[i] = IF i = 0 THEN s0 ELSE CutChar(g[i - 1], t[i])
      BY <1>1, <1>3, <1>4
    <2> QED
      BY <1>2, <2>1
  <1>6. PICK c : Eqn(c) /\ Run(CutChar, s0, t) = c[n]
    <2> DEFINE d == CHOOSE x : Eqn(x)
    <2>1. Eqn(d)
      <3> HIDE DEF Eqn
      <3> QED
        BY <1>5
    <2>2. Run(CutChar, s0, t) = d[n]
      BY DEF Run
    <2> HIDE DEF d, Eqn, n
    <2> QED
      BY <2>1, <2>2
  <1>7. \A i \in 0..n : c[i] = IF i = 0 THEN s0 ELSE CutChar(c[i - 1], t[i])
    BY <1>6, Zenon
  <1> DEFINE same == {i \in Nat : c[i] = g[i]}
  <1>8. same \in SUBSET Nat /\ 0 \in same
    <2>1. 0 \in 0..n
      BY <1>1
    <2>2. c[0] = s0
      BY <1>7, <2>1, Zenon
    <2> QED
      BY <1>3, <2>2
  <1>9. ASSUME NEW i \in 1..n, i - 1 \in same PROVE i \in same
    <2>1. i \in 0..n /\ i # 0 /\ i \in Nat
      BY <1>1
    <2>2. c[i] = CutChar(c[i - 1], t[i])
      BY <1>7, <2>1, Zenon
    <2>3. c[i - 1] = g[i - 1]
      BY <1>9
    <2> QED
      BY <1>4, <2>1, <2>2, <2>3
  <1> HIDE DEF same, n
  <1>10. \A i \in 0..n : i \in same
    BY <1>1, <1>8, <1>9, Upto
  <1>11. n \in same
    BY <1>1, <1>10
  <1> QED
    BY <1>2, <1>6, <1>11 DEF same


LEMMA CutNext ==
  ASSUME NEW s0 \in CutState, NEW t \in Seq(Byte), NEW c \in Byte
  PROVE  RunOf(CutStep, s0, Append(t, c)) = CutChar(RunOf(CutStep, s0, t), c)
  <1>1. RunOf(CutStep, s0, Append(t, c)) = CutStep[<<RunOf(CutStep, s0, t), c>>]
    BY CutAutomaton, RunAppend
  <1>2. RunOf(CutStep, s0, t) \in CutState
    BY CutAutomaton, RunType
  <1> DEFINE s == RunOf(CutStep, s0, t)
  <1> HIDE DEF s
  <1>3. s \in CutState => CutStep[<<s, c>>] = CutChar(s, c)
    BY DEF CutStep
  <1> QED
    BY <1>1, <1>2, <1>3, Zenon DEF s

(* An & ends the piece. *)
LEMMA CutAmp ==
  ASSUME NEW st \in CutState
  PROVE  RunOf(CutStep, st, <<Amp>>) = [done |-> Append(st.done, st.last), last |-> << >>]
  <1> DEFINE t0 == << >>
  <1>1. t0 \in Seq(Byte) /\ <<Amp>> = Append(t0, Amp) /\ Amp \in Byte
    BY DEF Amp, Byte
  <1>2. RunOf(CutStep, st, t0) = st
    BY CutAutomaton, RunEmpty
  <1> HIDE DEF t0
  <1>3. RunOf(CutStep, st, Append(t0, Amp)) = CutChar(RunOf(CutStep, st, t0), Amp)
    BY <1>1, CutNext
  <1> QED
    BY <1>1, <1>2, <1>3, Zenon DEF CutChar

PieceChar == Byte \ {Amp}

(* Everything else goes into it. *)
LEMMA CutPlain ==
  ASSUME NEW st \in CutState, NEW n \in Nat
  PROVE  \A t \in Seq(PieceChar) : Len(t) = n =>
            RunOf(CutStep, st, t) = [done |-> st.done, last |-> st.last \o t]
  <1> DEFINE P(t) == RunOf(CutStep, st, t) = [done |-> st.done, last |-> st.last \o t]
             good == {k \in Nat : \A t \in Seq(PieceChar) : Len(t) = k => P(t)}
  <1>1. st.last \in Seq(Byte) /\ st = [done |-> st.done, last |-> st.last]
    BY DEF CutState
  <1>2. 0 \in good
    <2> SUFFICES ASSUME NEW t \in Seq(PieceChar), Len(t) = 0 PROVE P(t)
      OBVIOUS
    <2>1. t = << >>
      OBVIOUS
    <2>2. st.last \o << >> = st.last
      BY <1>1
    <2>3. RunOf(CutStep, st, << >>) = st
      BY CutAutomaton, RunEmpty
    <2> QED
      BY <1>1, <2>1, <2>2, <2>3, Zenon
  <1>3. ASSUME NEW k \in good PROVE k + 1 \in good
    <2> SUFFICES ASSUME NEW t \in Seq(PieceChar), Len(t) = k + 1 PROVE P(t)
      OBVIOUS
    <2>1. PICK u \in Seq(PieceChar), c \in PieceChar : t = Append(u, c) /\ Len(u) = k
      BY Last1
    <2>2. P(u)
      BY <2>1
    <2>3. c \in Byte /\ c # Amp /\ u \in Seq(Byte)
      BY SeqMonotonic DEF PieceChar
    <2>4. RunOf(CutStep, st, Append(u, c)) = CutChar(RunOf(CutStep, st, u), c)
      BY <2>3, CutNext
    <2>5. CutChar([done |-> st.done, last |-> st.last \o u], c)
            = [done |-> st.done, last |-> Append(st.last \o u, c)]
      BY <2>3, Zenon DEF CutChar
    <2>6. st.last \o Append(u, c) = Append(st.last \o u, c)
      BY <1>1, <2>3, AppendConcat
    <2> QED
      BY <2>1, <2>2, <2>4, <2>5, <2>6, Zenon
  <1>4. good \in SUBSET Nat
    OBVIOUS
  <1> HIDE DEF good
  <1>5. good = Nat
    BY <1>2, <1>3, <1>4, Induction
  <1> QED
    BY <1>5 DEF good

(* A parameter: its key has no & and no =. *)
Param == [key : Seq(QueryChar), value : Seq(Byte)]
Piece(p) == p.key \o << Equals >> \o QueryEscape(p.value)
PiecesOf(ps) == [i \in DOMAIN ps |-> Piece(ps[i])]

LEMMA PieceFacts ==
  ASSUME NEW p \in Param
  PROVE  Piece(p) \in Seq(PieceChar) /\ ParseParam(Piece(p)) = p
  <1> DEFINE a == p.key
             b == QueryEscape(p.value)
             s == Piece(p)
  <1>1. a \in Seq(QueryChar) /\ p.value \in Seq(Byte) /\ p = [key |-> a, value |-> p.value]
    BY DEF Param
  <1>2. b \in Seq(QueryChar) /\ Unescape(b) = p.value
    BY <1>1, EscapeRoundTrip
  <1>3. QueryChar \subseteq PieceChar /\ Equals \in PieceChar /\ Equals \notin QueryChar
    BY DEF QueryChar, PieceChar, Equals, Amp, Byte
  <1>4. b \in Seq(PieceChar)
    BY <1>2, <1>3, SeqMonotonic
  <1>5. s = a \o <<Equals>> \o b
    BY DEF Piece
  <1> HIDE DEF a, b, s
  <1>6. /\ FirstOf(s, Equals) = Len(a) + 1 /\ SubSeq(s, 1, Len(a)) = a
        /\ SubSeq(s, Len(a) + 2, Len(s)) = b /\ s \in Seq(PieceChar)
    <2>1. LET u == a \o <<Equals>> \o b
          IN  /\ FirstOf(u, Equals) = Len(a) + 1
              /\ SubSeq(u, 1, Len(a)) = a
              /\ SubSeq(u, Len(a) + 2, Len(u)) = b
              /\ u \in Seq(PieceChar)
      BY <1>1, <1>3, <1>4, FirstOfConcat
    <2> QED
      BY <1>5, <2>1, Zenon
  <1>7. ParseParam(s) = [key |-> SubSeq(s, 1, FirstOf(s, Equals) - 1),
                         value |-> Unescape(SubSeq(s, FirstOf(s, Equals) + 1, Len(s)))]
    BY Zenon DEF ParseParam, FirstOf, SelectInSeq
  <1>8. FirstOf(s, Equals) - 1 = Len(a) /\ FirstOf(s, Equals) + 1 = Len(a) + 2
    <2>1. Len(a) \in Nat
      BY <1>1
    <2> QED
      BY <1>6, <2>1
  <1>9. ParseParam(s) = [key |-> a, value |-> Unescape(b)]
    BY <1>6, <1>7, <1>8, Zenon
  <1> QED
    BY <1>1, <1>2, <1>6, <1>9, Zenon DEF s

Separator(n) == IF n > 0 THEN <<Amp>> ELSE << >>
Section(ps, i) == (IF i > 1 THEN << Amp >> ELSE << >>)
                    \o ps[i].key \o << Equals >> \o QueryEscape(ps[i].value)
Sections(ps) == [i \in DOMAIN ps |-> Section(ps, i)]

LEMMA SectionPiece ==
  ASSUME NEW ps, NEW i, ps[i] \in Param
  PROVE  Section(ps, i) = (IF i > 1 THEN << Amp >> ELSE << >>) \o Piece(ps[i])
         /\ Section(ps, i) \in Seq(Byte)
  <1>1. PICK x : x = IF i > 1 THEN << Amp >> ELSE << >>
    OBVIOUS
  <1>2. x \in Seq(Byte)
    <2>1. << >> \in Seq(Byte) /\ <<Amp>> \in Seq(Byte)
      BY DEF Amp, Byte
    <2> QED
      BY <1>1, <2>1, Zenon
  <1>3. PICK y, z, e : y = ps[i].key /\ z = QueryEscape(ps[i].value) /\ e = <<Equals>>
    OBVIOUS
  <1>4. y \in Seq(Byte) /\ z \in Seq(Byte) /\ e \in Seq(Byte)
    <2>1. y \in Seq(QueryChar) /\ z \in Seq(QueryChar)
      <3>1. ps[i].key \in Seq(QueryChar) /\ ps[i].value \in Seq(Byte)
        BY DEF Param
      <3> QED
        BY <1>3, <3>1, EscapeRoundTrip
    <2>2. e \in Seq(Byte)
      BY <1>3 DEF Equals, Byte
    <2> QED
      BY <2>1, <2>2, SeqMonotonic DEF QueryChar
  <1>5. ((x \o y) \o e) \o z = x \o ((y \o e) \o z)
    BY <1>2, <1>4
  <1>6. ((x \o y) \o e) \o z \in Seq(Byte)
    BY <1>2, <1>4
  <1>7. Section(ps, i) = ((x \o y) \o e) \o z
    BY <1>1, <1>3, Zenon DEF Section
  <1>8. Piece(ps[i]) = (y \o e) \o z
    BY <1>3, Zenon DEF Piece
  <1> QED
    BY <1>1, <1>5, <1>6, <1>7, <1>8, Zenon

LEMMA BuildSections ==
  ASSUME NEW ps
  PROVE  BuildQueryString(ps) = FlattenSeq(Sections(ps))
  BY Zenon DEF BuildQueryString, Sections, Section

(* One more parameter is one more section of the query and one more piece. *)
LEMMA BuildAppend ==
  ASSUME NEW ps \in Seq(Param), NEW p \in Param
  PROVE  /\ BuildQueryString(Append(ps, p))
              = BuildQueryString(ps) \o (Separator(Len(ps)) \o Piece(p))
         /\ BuildQueryString(ps) \in Seq(Byte)
         /\ Separator(Len(ps)) \o Piece(p) \in Seq(Byte)
         /\ PiecesOf(Append(ps, p)) = Append(PiecesOf(ps), Piece(p))
  <1> DEFINE qs == Append(ps, p)
             n == Len(ps)
  <1>1. /\ qs \in Seq(Param) /\ DOMAIN qs = 1..(n + 1) /\ qs[n + 1] = p /\ n \in Nat
        /\ \A i \in 1..n : qs[i] = ps[i] /\ ps[i] \in Param
        /\ DOMAIN ps = 1..n
    OBVIOUS
  <1> HIDE DEF qs, n
  <1>2. \A i \in 1..n : Section(qs, i) = Section(ps, i)
    BY <1>1, Zenon DEF Section
  <1>3. \A i \in 1..n : Section(ps, i) \in Seq(Byte)
    BY <1>1, SectionPiece, Zenon
  <1>4. /\ Section(qs, n + 1) = Separator(n) \o Piece(p)
        /\ Section(qs, n + 1) \in Seq(Byte)
    <2>1. PICK i : i = n + 1 /\ (i > 1 <=> n > 0)
      BY <1>1
    <2>2. /\ Section(qs, i) = (IF i > 1 THEN << Amp >> ELSE << >>) \o Piece(qs[i])
          /\ Section(qs, i) \in Seq(Byte)
      BY <1>1, <2>1, SectionPiece, Zenon
    <2>3. Separator(n) = IF i > 1 THEN << Amp >> ELSE << >>
      BY <2>1, Zenon DEF Separator
    <2> QED
      BY <1>1, <2>1, <2>2, <2>3, Zenon
  <1> DEFINE s == Sections(ps)
  <1>5. s \in Seq(Seq(Byte)) /\ Len(s) = n /\ \A i \in 1..n : s[i] = Section(ps, i)
    <2>1. s = [i \in 1..n |-> Section(ps, i)]
      BY <1>1, Zenon DEF Sections
    <2>2. n \in Nat
      BY <1>1
    <2> HIDE DEF s
    <2> QED
      BY <1>3, <2>1, <2>2
  <1>6. PICK w : w = Sections(qs) /\ w = [i \in 1..(n + 1) |-> w[i]]
                   /\ \A i \in 1..(n + 1) : w[i] = Section(qs, i)
    <2>1. Sections(qs) = [i \in 1..(n + 1) |-> Section(qs, i)]
      BY <1>1, Zenon DEF Sections
    <2> QED
      BY <2>1
  <1>7. PICK x \in Seq(Byte) : x = Section(qs, n + 1)
    BY <1>4
  <1>8. w = Append(s, x)
    <2>1. w[n + 1] = x
      BY <1>1, <1>6, <1>7
    <2>2. \A i \in 1..n : w[i] = s[i]
      BY <1>1, <1>2, <1>5, <1>6
    <2>3. Extends(w, s, x, n)
      BY <1>6, <2>1, <2>2, Zenon DEF Extends
    <2>4. n \in Nat
      BY <1>1
    <2> HIDE DEF s
    <2> QED
      BY <1>5, <2>3, <2>4, Extend
  <1>9. FlattenSeq(Append(s, x)) = FlattenSeq(s) \o x
    <2> HIDE DEF s
    <2> QED
      BY <1>5, FlattenAppend
  <1>10. FlattenSeq(s) \in Seq(Byte)
    <2> HIDE DEF s
    <2> QED
      BY <1>5, FlattenType
  <1>11. BuildQueryString(qs) = BuildQueryString(ps) \o (Separator(n) \o Piece(p))
    BY <1>4, <1>5, <1>6, <1>7, <1>8, <1>9, BuildSections, Zenon
  <1>12. BuildQueryString(ps) \in Seq(Byte)
    BY <1>5, <1>10, BuildSections, Zenon
  <1>13. PiecesOf(qs) = Append(PiecesOf(ps), Piece(p))
    <2>1. \A i \in 1..n : Piece(ps[i]) \in Seq(PieceChar)
      BY <1>1, PieceFacts
    <2>2. PICK y \in Seq(PieceChar) : y = Piece(p)
      BY PieceFacts
    <2> DEFINE u == PiecesOf(ps)
               F(i) == Piece(ps[i])
    <2>3. u \in Seq(Seq(PieceChar)) /\ Len(u) = n /\ \A i \in 1..n : u[i] = Piece(ps[i])
      <3>1. u = [i \in 1..n |-> F(i)]
        BY <1>1, Zenon DEF PiecesOf
      <3>2. n \in Nat /\ \A i \in 1..n : F(i) \in Seq(PieceChar)
        BY <1>1, <2>1
      <3> HIDE DEF u, F
      <3>3. u \in Seq(Seq(PieceChar)) /\ Len(u) = n /\ \A i \in 1..n : u[i] = F(i)
        BY <3>1, <3>2
      <3> QED
        BY <3>3, Zenon DEF F
    <2>4. PICK v : v = PiecesOf(qs) /\ v = [i \in 1..(n + 1) |-> v[i]]
                     /\ \A i \in 1..(n + 1) : v[i] = Piece(qs[i])
      <3>1. PiecesOf(qs) = [i \in 1..(n + 1) |-> Piece(qs[i])]
        BY <1>1, Zenon DEF PiecesOf
      <3> QED
        BY <3>1
    <2>5. v[n + 1] = y
      BY <1>1, <2>2, <2>4
    <2>6. \A i \in 1..n : v[i] = u[i]
      BY <1>1, <2>3, <2>4
    <2>7. v = Append(u, y)
      <3>1. Extends(v, u, y, n)
        BY <2>4, <2>5, <2>6, Zenon DEF Extends
      <3>2. n \in Nat
        BY <1>1
      <3> HIDE DEF u
      <3> QED
        BY <2>3, <3>1, <3>2, Extend
    <2> QED
      BY <2>2, <2>3, <2>4, <2>7, Zenon
  <1> QED
    BY <1>4, <1>11, <1>12, <1>13, Zenon DEF qs, n

LEMMA BuildEmpty == BuildQueryString(<< >>) = << >>
  <1>1. Sections(<< >>) = << >>
    BY DEF Sections
  <1> QED
    BY <1>1, BuildSections, FlattenEmpty, Zenon

(* Cut where the last of ps ends. *)
CutAfter(ps) == RunOf(CutStep, CutStart, BuildQueryString(ps))

LEMMA CutQuery ==
  ASSUME NEW n \in Nat
  PROVE  \A ps \in Seq(Param) : Len(ps) = n =>
            /\ BuildQueryString(ps) \in Seq(Byte)
            /\ CutAfter(ps) \in CutState
            /\ IF n = 0 THEN CutAfter(ps) = CutStart
               ELSE Append(CutAfter(ps).done, CutAfter(ps).last) = PiecesOf(ps)
  <1> DEFINE P(k, ps) ==
               /\ BuildQueryString(ps) \in Seq(Byte)
               /\ CutAfter(ps) \in CutState
               /\ IF k = 0 THEN CutAfter(ps) = CutStart
                  ELSE Append(CutAfter(ps).done, CutAfter(ps).last) = PiecesOf(ps)
             good == {k \in Nat : \A ps \in Seq(Param) : Len(ps) = k => P(k, ps)}
  <1>1. CutStart \in CutState /\ CutStart.done = << >> /\ CutStart.last = << >>
    BY DEF CutStart, CutState
  <1>2. 0 \in good
    <2> SUFFICES ASSUME NEW ps \in Seq(Param), Len(ps) = 0 PROVE P(0, ps)
      OBVIOUS
    <2>1. ps = << >> /\ << >> \in Seq(Byte)
      OBVIOUS
    <2>2. RunOf(CutStep, CutStart, << >>) = CutStart
      BY <1>1, CutAutomaton, RunEmpty
    <2> QED
      BY <1>1, <2>1, <2>2, BuildEmpty, Zenon DEF CutAfter
  <1>3. ASSUME NEW k \in good PROVE k + 1 \in good
    <2> SUFFICES ASSUME NEW qs \in Seq(Param), Len(qs) = k + 1 PROVE P(k + 1, qs)
      OBVIOUS
    <2>1. k \in Nat /\ k + 1 # 0
      OBVIOUS
    <2>2. PICK ps \in Seq(Param), p \in Param : qs = Append(ps, p) /\ Len(ps) = k
      BY Last1
    <2>3. P(k, ps)
      BY <2>2
    <2> DEFINE t == BuildQueryString(ps)
               st == CutAfter(ps)
               x == Separator(k)
               y == Piece(p)
    <2>4. /\ BuildQueryString(qs) = t \o (x \o y) /\ t \in Seq(Byte) /\ x \o y \in Seq(Byte)
          /\ PiecesOf(qs) = Append(PiecesOf(ps), y)
      BY <2>2, BuildAppend
    <2>5. y \in Seq(PieceChar) /\ y \in Seq(Byte)
      BY PieceFacts, SeqMonotonic DEF PieceChar
    <2>6. x \in Seq(Byte)
      <3>1. << >> \in Seq(Byte) /\ <<Amp>> \in Seq(Byte)
        BY DEF Amp, Byte
      <3> QED
        BY <3>1, Zenon DEF Separator
    <2> HIDE DEF x, y, t
    <2>7. st \in CutState
      BY <2>3
    <2>8. CutAfter(qs) = RunOf(CutStep, st, x \o y)
      <3>1. RunOf(CutStep, CutStart, t \o (x \o y))
              = RunOf(CutStep, RunOf(CutStep, CutStart, t), x \o y)
        <4>1. PICK xy \in Seq(Byte) : xy = x \o y
          BY <2>4
        <4>2. RunOf(CutStep, CutStart, t \o xy)
              = RunOf(CutStep, RunOf(CutStep, CutStart, t), xy)
          BY <1>1, <2>4, CutAutomaton, RunConcat
        <4> QED
          BY <4>1, <4>2, Zenon
      <3> QED
        BY <2>4, <3>1, Zenon DEF CutAfter, t
    <2> HIDE DEF st
    <2> DEFINE s1 == RunOf(CutStep, st, x)
    <2>9. RunOf(CutStep, st, x \o y) = RunOf(CutStep, s1, y)
      BY <2>5, <2>6, <2>7, CutAutomaton, RunConcat
    <2>10. s1 \in CutState
      BY <2>6, <2>7, CutAutomaton, RunType
    <2>11. s1.last = << >> /\ Append(s1.done, y) = PiecesOf(qs)
      <3>1. CASE k = 0
        <4>1. st = CutStart
          BY <2>3, <3>1 DEF st
        <4>2. ps = << >> /\ st = CutStart
          BY <2>2, <3>1, <4>1
        <4>3. x = << >>
          BY <3>1 DEF x, Separator
        <4>4. RunOf(CutStep, st, << >>) = st
          BY <2>7, CutAutomaton, RunEmpty
        <4>5. s1 = CutStart
          BY <4>2, <4>3, <4>4, Zenon
        <4>6. PiecesOf(<< >>) = << >>
          BY DEF PiecesOf
        <4> QED
          BY <1>1, <2>4, <4>2, <4>5, <4>6, Zenon
      <3>2. CASE k # 0
        <4>1. Append(st.done, st.last) = PiecesOf(ps)
          BY <2>3, <3>2 DEF st
        <4>2. x = <<Amp>>
          BY <2>1, <3>2 DEF x, Separator
        <4>3. s1 = [done |-> Append(st.done, st.last), last |-> << >>]
          BY <2>7, <4>2, CutAmp, Zenon
        <4>4. s1.done = PiecesOf(ps) /\ s1.last = << >>
          BY <4>1, <4>3
        <4> QED
          BY <2>4, <4>4, Zenon
      <3> QED
        BY <3>1, <3>2
    <2>12. RunOf(CutStep, s1, y) = [done |-> s1.done, last |-> s1.last \o y]
      <3> HIDE DEF s1
      <3>1. Len(y) \in Nat
        BY <2>5
      <3> QED
        BY <2>5, <2>10, <3>1, CutPlain
    <2>13. s1.last \o y = y
      BY <2>5, <2>11, << >> \o y = y, Zenon
    <2>14. RunOf(CutStep, s1, y) \in CutState
      <3> HIDE DEF s1
      <3> QED
        BY <2>5, <2>10, CutAutomaton, RunType
    <2>15. CutAfter(qs) = [done |-> s1.done, last |-> y] /\ CutAfter(qs) \in CutState
      BY <2>8, <2>9, <2>12, <2>13, <2>14, Zenon
    <2>16. CutAfter(qs).done = s1.done /\ CutAfter(qs).last = y
      BY <2>15
    <2>17. BuildQueryString(qs) \in Seq(Byte)
      <3>1. PICK xy \in Seq(Byte) : xy = x \o y
        BY <2>4
      <3>2. t \o xy \in Seq(Byte)
        BY <2>4, ConcatProperties
      <3> QED
        BY <2>4, <3>1, <3>2, Zenon
    <2> HIDE DEF s1
    <2> QED
      BY <2>1, <2>11, <2>15, <2>16, <2>17, Zenon
  <1>4. good \in SUBSET Nat
    OBVIOUS
  <1> HIDE DEF good
  <1>5. good = Nat
    BY <1>2, <1>3, <1>4, Induction
  <1> QED
    BY <1>5 DEF good

(* The gateway reads the parameters that were put into the query string. *)
THEOREM QueryRoundTrip ==
  ASSUME NEW ps \in Seq(Param), ps # << >>
  PROVE  ParseQuery(BuildQueryString(ps)) = ps
  <1> DEFINE q == BuildQueryString(ps)
  <1>1. Len(ps) \in Nat /\ Len(ps) # 0
    OBVIOUS
  <1>2. q \in Seq(Byte) /\ Append(CutAfter(ps).done, CutAfter(ps).last) = PiecesOf(ps)
    BY <1>1, CutQuery, Zenon
  <1>3. CutStart \in CutState
    BY DEF CutStart, CutState
  <1>4. Run(CutChar, CutStart, q) = CutAfter(ps)
    <2>1. Run(CutChar, CutStart, q) = RunOf(CutStep, CutStart, q)
      <3> HIDE DEF q
      <3> QED
        BY <1>2, <1>3, CutRun
    <2> QED
      BY <2>1, Zenon DEF CutAfter
  <1>5. Pieces(q) = PiecesOf(ps)
    <2> HIDE DEF q
    <2> QED
      BY <1>2, <1>4, Zenon DEF Pieces
  <1>6. ParseQuery(q) = [k \in DOMAIN PiecesOf(ps) |-> ParseParam(PiecesOf(ps)[k])]
    <2> HIDE DEF q
    <2> QED
      BY <1>5, Zenon DEF ParseQuery
  <1>7. DOMAIN ps = 1..Len(ps) /\ \A i \in 1..Len(ps) : ps[i] \in Param
    OBVIOUS
  <1>8. DOMAIN PiecesOf(ps) = 1..Len(ps) /\ \A i \in 1..Len(ps) : PiecesOf(ps)[i] = Piece(ps[i])
    BY <1>7 DEF PiecesOf
  <1>9. \A i \in 1..Len(ps) : ParseParam(PiecesOf(ps)[i]) = ps[i]
    BY <1>7, <1>8, PieceFacts
  <1>10. [k \in DOMAIN PiecesOf(ps) |-> ParseParam(PiecesOf(ps)[k])] = [k \in 1..Len(ps) |-> ps[k]]
    BY <1>8, <1>9
  <1>11. [k \in 1..Len(ps) |-> ps[k]] = ps
    OBVIOUS
  <1> QED
    BY <1>6, <1>10, <1>11, Zenon
=============================================================================
