----------------------------- MODULE CodecProofs -----------------------------
(***************************************************************************)
(* What the codec computes, for every input (src/parser.cpp,               *)
(* src/scenario.cpp): the operators of FixCodec and ScenarioDsl are        *)
(* loops, written as recursive functions, and these are the facts about    *)
(* them, by induction over the turns of each loop. A conclusion of each    *)
(* part that is of use by itself is a theorem.                             *)
(***************************************************************************)
EXTENDS ScenarioDsl, SequenceTheorems, WellFoundedInduction, FiniteSetTheorems, TLAPS

-----------------------------------------------------------------------------
(* Recursive functions and sums                                            *)

(* A set of numbers that is not empty has a smallest element.              *)
LEMMA Smallest ==
  ASSUME NEW T, T \subseteq Nat, T # {}
  PROVE  \E p \in T : \A q \in T : p <= q
<1> DEFINE R == {ss \in Nat \X Nat : ss[1] < ss[2]}
<1>1. IsWellFoundedOn(R, Nat)
  BY NatLessThanWellFounded DEF OpToRel
<1>2. PICK p \in T : \A q \in T : ~(<<q, p>> \in R)
  <2> HIDE DEF R
  <2> QED  BY <1>1, WFMin, Zenon
<1>3. \A q \in T : ~(q < p)
  BY <1>2
<1> QED  BY <1>3

(* Induction over the numbers, stated of a set.                            *)
LEMMA Induction ==
  ASSUME NEW T, 0 \in T, \A n \in Nat : n \in T => n + 1 \in T
  PROVE  \A n \in Nat : n \in T
<1> SUFFICES ASSUME Nat \ T # {}  PROVE FALSE
  OBVIOUS
<1>1. PICK p \in Nat \ T : \A q \in Nat \ T : p <= q
  BY Smallest
<1>2. p # 0 /\ p - 1 \in Nat
  BY <1>1
<1>3. p - 1 \in T
  BY <1>1, <1>2
<1> QED  BY <1>1, <1>2, <1>3

(* g is the function that begins with a and takes the step F(n) to n.      *)
Runs(g, S, a, F, N) ==
  /\ g \in [0..N -> S]
  /\ g[0] = a
  /\ \A n \in 1..N : g[n] = F[n][g[n - 1]]

(* There is such a function for every step, however it is chosen.          *)
LEMMA Recursion ==
  ASSUME NEW S, NEW a \in S, NEW F \in [Nat -> [S -> S]], NEW N \in Nat
  PROVE  \E g : Runs(g, S, a, F, N)
<1> DEFINE Is(g, k) == g \in [0..k -> S] /\ g[0] = a /\ \A n \in 1..k : g[n] = F[n][g[n - 1]]
           T == {k \in Nat : \E g : Is(g, k)}
<1>1. 0 \in T
  <2>1. Is([n \in 0..0 |-> a], 0)
    OBVIOUS
  <2> QED  BY <2>1
<1>2. ASSUME NEW k \in Nat, k \in T  PROVE k + 1 \in T
  <2>1. PICK g : Is(g, k)
    BY <1>2
  <2> DEFINE h == [n \in 0..(k + 1) |-> IF n <= k THEN g[n] ELSE F[k + 1][g[k]]]
  <2>2. g[k] \in S /\ F[k + 1][g[k]] \in S
    BY <2>1
  <2>3. h \in [0..(k + 1) -> S] /\ h[0] = a
    BY <2>1, <2>2
  <2>4. ASSUME NEW n \in 1..(k + 1)  PROVE h[n] = F[n][h[n - 1]]
    <3>1. CASE n = k + 1
      BY <3>1
    <3>2. CASE n # k + 1
      <4>1. n \in 1..k /\ n - 1 \in 0..(k + 1) /\ n - 1 <= k /\ n <= k
        BY <3>2
      <4> QED  BY <2>1, <4>1
    <3> QED  BY <3>1, <3>2
  <2>5. Is(h, k + 1)
    BY <2>3, <2>4
  <2> HIDE DEF h, Is
  <2> QED  BY <2>5
<1> HIDE DEF T
<1>3. N \in T
  BY <1>1, <1>2, Induction
<1>4. PICK g : Is(g, N)
  BY <1>3 DEF T
<1> QED  BY <1>4 DEF Runs

(* The running sums of a text (parser.cpp:132-137, 369-374) are what       *)
(* their recursion says.                                                   *)
LEMMA SumsDef ==
  ASSUME NEW t \in Seq(Int)
  PROVE  Sums(t) = [n \in 0..Len(t) |-> IF n = 0 THEN 0 ELSE Sums(t)[n - 1] + t[n]]
         /\ Sums(t) \in [0..Len(t) -> Int]
<1> DEFINE N == Len(t)
           F == [n \in Nat |-> [s \in Int |-> IF n \in 1..N THEN s + t[n] ELSE 0]]
           Is(s) == s = [n \in 0..N |-> IF n = 0 THEN 0 ELSE s[n - 1] + t[n]]
<1>1. N \in Nat /\ 0 \in Int /\ \A n \in 1..N : t[n] \in Int
  OBVIOUS
<1>2. F \in [Nat -> [Int -> Int]]
  BY <1>1
<1>3. PICK g : Runs(g, Int, 0, F, N)
  <2> HIDE DEF F, N
  <2> QED BY <1>1, <1>2, Recursion
<1>4. g \in [0..N -> Int] /\ g[0] = 0 /\ \A n \in 1..N : g[n] = F[n][g[n - 1]]
  BY <1>3 DEF Runs
<1>5. ASSUME NEW n \in 1..N  PROVE g[n] = g[n - 1] + t[n]
  <2>1. g[n - 1] \in Int /\ n \in Nat
    BY <1>1, <1>4
  <2> QED  BY <1>1, <1>4, <2>1
<1>6. Is(g)
  BY <1>1, <1>4, <1>5
<1>7. Sums(t) = CHOOSE s : Is(s)
  BY DEF Sums
<1>8. Is(Sums(t))
  <2> HIDE DEF Is
  <2> QED  BY <1>6, <1>7
<1>9. \A n \in 0..N : Sums(t)[n] \in Int
  <2> DEFINE s == Sums(t)
             T == {k \in Nat : k <= N => s[k] \in Int}
  <2>1. 0 \in T
    BY <1>1, <1>8
  <2>2. ASSUME NEW k \in Nat, k \in T  PROVE k + 1 \in T
    BY <1>1, <1>8, <2>2
  <2> HIDE DEF T
  <2>3. \A k \in Nat : k \in T
    BY <2>1, <2>2, Induction
  <2> QED  BY <1>1, <2>3 DEF T
<1> QED  BY <1>8, <1>9

-----------------------------------------------------------------------------
(* Numbers as text: to_chars and from_chars                                *)

(* Min of numbers is the smallest of them.                                 *)
LEMMA MinIsSmallest ==
  ASSUME NEW T, T \subseteq Nat, T # {}
  PROVE  Min(T) \in T /\ \A q \in T : Min(T) <= q
BY Smallest DEF Min

(* A find goes to the first such byte from there on, or to the end         *)
(* (parser.cpp:47, 62).                                                    *)
LEMMA FindProps ==
  ASSUME NEW text \in Seq(Int), NEW b, NEW from \in 1..(Len(text) + 1)
  PROVE  /\ Find(text, b, from) \in from..(Len(text) + 1)
         /\ \A p \in from..(Find(text, b, from) - 1) : text[p] # b
         /\ Find(text, b, from) <= Len(text) => text[Find(text, b, from)] = b
<1> DEFINE at == {p \in from..Len(text) : text[p] = b}
<1>1. Len(text) \in Nat
  OBVIOUS
<1>2. CASE at = {}
  BY <1>1, <1>2 DEF Find
<1>3. CASE at # {}
  <2>1. at \subseteq Nat
    BY <1>1
  <2>2. Min(at) \in at /\ \A q \in at : Min(at) <= q
    <3> HIDE DEF at
    <3> QED  BY <1>3, <2>1, MinIsSmallest
  <2>3. Find(text, b, from) = Min(at)
    BY <1>3 DEF Find
  <2> HIDE DEF Find
  <2>4. Min(at) \in from..Len(text) /\ text[Min(at)] = b
    BY <2>2
  <2>5. ASSUME NEW p \in from..(Min(at) - 1)  PROVE text[p] # b
    <3>1. p \in from..Len(text) /\ ~(Min(at) <= p)
      BY <1>1, <2>4
    <3> QED  BY <2>2, <3>1
  <2> QED  BY <1>1, <2>3, <2>4, <2>5
<1> QED  BY <1>2, <1>3

(* The first such byte is the one that is found.                           *)
LEMMA FindIs ==
  ASSUME NEW text \in Seq(Int), NEW b, NEW from \in 1..(Len(text) + 1),
         NEW p \in from..Len(text), text[p] = b, \A q \in from..(p - 1) : text[q] # b
  PROVE  Find(text, b, from) = p
<1>1. Len(text) \in Nat
  OBVIOUS
<1> QED  BY <1>1, FindProps, SMTT(30)

(* The number read so far, digit by digit, as from_chars computes it.      *)
LEMMA MagnitudesDef ==
  ASSUME NEW t \in Seq(Int)
  PROVE  /\ Magnitudes(t)[0] = 0
         /\ \A n \in 1..Len(t) :
              Magnitudes(t)[n] = IF Magnitudes(t)[n - 1] > MaxInt THEN Magnitudes(t)[n - 1]
                                 ELSE 10 * Magnitudes(t)[n - 1] + t[n] - 48
         /\ \A n \in 0..Len(t) : Magnitudes(t)[n] \in Int
<1> DEFINE N == Len(t)
           Step(m, b) == IF m > MaxInt THEN m ELSE 10 * m + b - Digit(0)
           F == [n \in Nat |-> [s \in Int |-> IF n \in 1..N THEN Step(s, t[n]) ELSE 0]]
           Is(s) == s = [n \in 0..N |-> IF n = 0 THEN 0
                           ELSE IF s[n - 1] > MaxInt THEN s[n - 1]
                           ELSE 10 * s[n - 1] + t[n] - Digit(0)]
<1>1. N \in Nat /\ 0 \in Int /\ \A n \in 1..N : t[n] \in Int
  OBVIOUS
<1>2. F \in [Nat -> [Int -> Int]]
  BY <1>1 DEF Digit
<1>3. PICK g : Runs(g, Int, 0, F, N)
  <2> HIDE DEF F, N
  <2> QED BY <1>1, <1>2, Recursion
<1>4. g \in [0..N -> Int] /\ g[0] = 0 /\ \A n \in 1..N : g[n] = F[n][g[n - 1]]
  BY <1>3 DEF Runs
<1>5. ASSUME NEW n \in 1..N  PROVE g[n] = Step(g[n - 1], t[n])
  <2>1. g[n - 1] \in Int /\ n \in Nat
    BY <1>1, <1>4
  <2> QED  BY <1>1, <1>4, <2>1
<1>6. Is(g)
  BY <1>1, <1>4, <1>5
<1>7. Magnitudes(t) = CHOOSE s : Is(s)
  BY DEF Magnitudes
<1>8. Is(Magnitudes(t))
  <2> HIDE DEF Is
  <2> QED  BY <1>6, <1>7
<1>9. \A n \in 0..N : Magnitudes(t)[n] \in Int
  <2> DEFINE s == Magnitudes(t)
             T == {k \in Nat : k <= N => s[k] \in Int}
  <2>1. 0 \in T
    BY <1>1, <1>8
  <2>2. ASSUME NEW k \in Nat, k \in T  PROVE k + 1 \in T
    BY <1>1, <1>8, <2>2, SMTT(30) DEF Digit
  <2> HIDE DEF T
  <2>3. \A k \in Nat : k \in T
    BY <2>1, <2>2, Induction
  <2> QED  BY <1>1, <2>3 DEF T
<1>10. ASSUME NEW n \in 1..N
       PROVE  Magnitudes(t)[n] = IF Magnitudes(t)[n - 1] > MaxInt THEN Magnitudes(t)[n - 1]
                                 ELSE 10 * Magnitudes(t)[n - 1] + t[n] - 48
  <2>1. Magnitudes(t)[n] = Step(Magnitudes(t)[n - 1], t[n])
    BY <1>1, <1>8, SMTT(30)
  <2>2. Magnitudes(t)[n - 1] \in Int /\ t[n] \in Int
    BY <1>1, <1>9
  <2>3. \A m, b \in Int : Step(m, b) = IF m > MaxInt THEN m ELSE 10 * m + b - 48
    BY DEF Digit
  <2> HIDE DEF Step
  <2> QED  BY <2>1, <2>2, <2>3
<1>11. Magnitudes(t)[0] = 0
  BY <1>1, <1>8
<1> QED  BY <1>9, <1>10, <1>11

(* What follows a number does not change what was read of it.              *)
LEMMA MagnitudesOfPrefix ==
  ASSUME NEW s \in Seq(Int), NEW t \in Seq(Int), Len(s) <= Len(t),
         \A i \in 1..Len(s) : s[i] = t[i]
  PROVE  Magnitudes(t)[Len(s)] = Magnitude(s)
<1> DEFINE T == {k \in Nat : k <= Len(s) => Magnitudes(t)[k] = Magnitudes(s)[k]}
<1>0. Len(s) \in Nat /\ Len(t) \in Nat
  OBVIOUS
<1>1. 0 \in T
  BY MagnitudesDef
<1>2. ASSUME NEW k \in Nat, k \in T  PROVE k + 1 \in T
  <2> SUFFICES ASSUME k + 1 <= Len(s)
               PROVE  Magnitudes(t)[k + 1] = Magnitudes(s)[k + 1]
    OBVIOUS
  <2>1. k + 1 \in 1..Len(s) /\ k + 1 \in 1..Len(t) /\ (k + 1) - 1 = k /\ s[k + 1] = t[k + 1]
    BY <1>0
  <2>2. Magnitudes(t)[k] = Magnitudes(s)[k]
    BY <1>2, <2>1
  <2>3. \A u \in Seq(Int) : k + 1 \in 1..Len(u) =>
          Magnitudes(u)[k + 1] = IF Magnitudes(u)[k] > MaxInt THEN Magnitudes(u)[k]
                                 ELSE 10 * Magnitudes(u)[k] + u[k + 1] - 48
    BY <2>1, MagnitudesDef, SMTT(30)
  <2> QED  BY <2>1, <2>2, <2>3
<1> HIDE DEF T
<1>3. \A k \in Nat : k \in T
  BY <1>1, <1>2, Induction
<1>4. Len(s) \in T
  BY <1>0, <1>3
<1> QED  BY <1>0, <1>4 DEF T, Magnitude

(* The digits are the codes from 48 to 57.                                 *)
LEMMA DigitsAre == Digits = 48..57
BY DEF Digits, Digit

(* The decimal digits of a number: those of its tenth and one more.        *)
LEMMA DecimalDef ==
  \A n \in Nat :
    /\ Decimal[n] \in Seq(Digits) /\ Decimal[n] # <<>>
    /\ Decimal[n] = IF n < 10 THEN <<48 + n>> ELSE Append(Decimal[n \div 10], 48 + (n % 10))
<1> DEFINE Body(h, n) == IF n < 10 THEN <<48 + n>> ELSE Append(h[n \div 10], 48 + (n % 10))
           P(h, k) == h \in [0..k -> Seq(Digits)] /\ \A n \in 0..k : h[n] = Body(h, n)
           H(k) == CHOOSE h : P(h, k)
           T == {k \in Nat : \E h : P(h, k)}
<1>1. \A n \in Nat : n >= 10 => n \div 10 \in 0..(n - 1)
  OBVIOUS
<1>2. ASSUME NEW h, NEW n \in Nat, n >= 10 => h[n \div 10] \in Seq(Digits)
      PROVE  Body(h, n) \in Seq(Digits) /\ Body(h, n) # <<>>
  <2>1. 48 + (n % 10) \in Digits /\ (n < 10 => 48 + n \in Digits)
    BY DigitsAre
  <2>2. CASE n < 10
    BY <2>1, <2>2
  <2>3. CASE n >= 10
    BY <1>2, <2>1, <2>3
  <2> QED  BY <2>2, <2>3
<1>3. 0 \in T
  <2> DEFINE h == [n \in 0..0 |-> <<48>>]
  <2>1. <<48>> \in Seq(Digits)
    BY DigitsAre
  <2>2. Body(h, 0) = <<48>>
    BY <2>1
  <2> HIDE DEF Body
  <2>3. P(h, 0)
    BY <2>1, <2>2
  <2> HIDE DEF h, P
  <2> QED  BY <2>3
<1>4. ASSUME NEW k \in Nat, k \in T  PROVE k + 1 \in T
  <2>1. PICK h : P(h, k)
    BY <1>4
  <2> DEFINE g == [n \in 0..(k + 1) |-> IF n <= k THEN h[n] ELSE Body(h, k + 1)]
  <2>2. k + 1 >= 10 => (k + 1) \div 10 \in 0..k
    BY <1>1
  <2>3. Body(h, k + 1) \in Seq(Digits)
    <3>1. k + 1 \in Nat /\ (k + 1 >= 10 => h[(k + 1) \div 10] \in Seq(Digits))
      BY <2>1, <2>2
    <3> HIDE DEF Body
    <3> QED  BY <1>2, <3>1
  <2>4. g \in [0..(k + 1) -> Seq(Digits)]
    <3> HIDE DEF Body
    <3> QED  BY <2>1, <2>3
  <2>5. ASSUME NEW n \in 0..(k + 1)  PROVE g[n] = Body(g, n)
    <3>1. n >= 10 => n \div 10 \in 0..k
      BY <1>1
    <3>2. n >= 10 => g[n \div 10] = h[n \div 10]
      <4> HIDE DEF Body
      <4> QED  BY <3>1
    <3> HIDE DEF g
    <3>3. Body(g, n) = Body(h, n)
      BY <3>2
    <3>4. g[n] = Body(h, n)
      <4> HIDE DEF Body
      <4> QED  BY <2>1 DEF g
    <3> QED  BY <3>3, <3>4
  <2>6. P(g, k + 1)
    BY <2>4, <2>5
  <2> HIDE DEF g, P
  <2> QED  BY <2>6
<1> HIDE DEF T
<1>5. \A k \in Nat : k \in T
  BY <1>3, <1>4, Induction
<1>6. \A k \in Nat : P(H(k), k)
  <2> HIDE DEF P
  <2> QED  BY <1>5 DEF T
<1>7. ASSUME NEW k \in Nat, NEW m \in Nat
      PROVE  \A n \in Nat : n <= k /\ n <= m => H(k)[n] = H(m)[n]
  <2> DEFINE U == {j \in Nat : \A n \in 0..j : n <= k /\ n <= m => H(k)[n] = H(m)[n]}
  <2>1. P(H(k), k) /\ P(H(m), m)
    BY <1>6
  <2> HIDE DEF H
  <2>2. ASSUME NEW n \in Nat, n <= k, n <= m, n >= 10 => H(k)[n \div 10] = H(m)[n \div 10]
        PROVE  H(k)[n] = H(m)[n]
    <3>1. n \in 0..k /\ n \in 0..m
      BY <2>2
    <3>2. H(k)[n] = Body(H(k), n) /\ H(m)[n] = Body(H(m), n)
      <4> HIDE DEF Body
      <4> QED  BY <2>1, <3>1
    <3> QED  BY <2>2, <3>2
  <2>3. 0 \in U
    BY <2>2
  <2>4. ASSUME NEW j \in Nat, j \in U  PROVE j + 1 \in U
    <3> SUFFICES ASSUME NEW n \in 0..(j + 1), n <= k, n <= m  PROVE H(k)[n] = H(m)[n]
      OBVIOUS
    <3>1. CASE n <= j
      BY <2>4, <3>1
    <3>2. CASE n = j + 1
      <4>1. n >= 10 => n \div 10 \in 0..j /\ n \div 10 <= k /\ n \div 10 <= m
        BY <1>1, <3>2
      <4>2. n >= 10 => H(k)[n \div 10] = H(m)[n \div 10]
        BY <2>4, <4>1
      <4> QED  BY <2>2, <4>2
    <3> QED  BY <3>1, <3>2
  <2> HIDE DEF U
  <2>5. \A j \in Nat : j \in U
    BY <2>3, <2>4, Induction
  <2> QED  BY <2>5 DEF U
<1> DEFINE G == [n \in Nat |-> H(n)[n]]
           Is(f) == f = [n \in Nat |-> IF n < 10 THEN <<Digit(n)>> ELSE Append(f[n \div 10], Digit(n % 10))]
<1>8. ASSUME NEW n \in Nat  PROVE G[n] = Body(G, n) /\ G[n] \in Seq(Digits) /\ G[n] # <<>>
  <2>1. P(H(n), n)
    BY <1>6
  <2> HIDE DEF H
  <2>2. n >= 10 => n \div 10 \in Nat /\ n \div 10 <= n /\ n \div 10 \in 0..n
    BY <1>1
  <2>3. n >= 10 => H(n \div 10)[n \div 10] = H(n)[n \div 10]
    BY <1>7, <2>2
  <2>4. n >= 10 => G[n \div 10] = H(n)[n \div 10]
    BY <2>2, <2>3
  <2>5. G[n] = H(n)[n]
    OBVIOUS
  <2> HIDE DEF G
  <2>6. Body(G, n) = Body(H(n), n)
    BY <2>4
  <2>7. H(n)[n] = Body(H(n), n) /\ (n >= 10 => H(n)[n \div 10] \in Seq(Digits))
    <3> HIDE DEF Body
    <3> QED  BY <2>1, <2>2
  <2>8. Body(H(n), n) \in Seq(Digits) /\ Body(H(n), n) # <<>>
    BY <1>2, <2>7
  <2> HIDE DEF Body
  <2> QED  BY <2>5, <2>6, <2>7, <2>8
<1>9. Is(G)
  <2>1. G = [n \in Nat |-> G[n]]
    OBVIOUS
  <2> HIDE DEF G, H
  <2>2. \A n \in Nat : G[n] = IF n < 10 THEN <<Digit(n)>> ELSE Append(G[n \div 10], Digit(n % 10))
    BY <1>8 DEF Digit
  <2>3. [n \in Nat |-> G[n]] = [n \in Nat |-> IF n < 10 THEN <<Digit(n)>> ELSE Append(G[n \div 10], Digit(n % 10))]
    BY <2>2, Zenon
  <2> QED  BY <2>1, <2>3, Zenon
<1>10. Decimal = CHOOSE f : Is(f)
  BY DEF Decimal
<1>11. Is(Decimal)
  <2> HIDE DEF Is, G
  <2> QED  BY <1>9, <1>10
<1>12. ASSUME NEW n \in Nat  PROVE Decimal[n] = Body(Decimal, n)
  BY <1>11 DEF Digit
<1>13. \A j \in Nat : Decimal[j] \in Seq(Digits) /\ Decimal[j] # <<>>
  <2> DEFINE U == {j \in Nat : \A n \in 0..j : Decimal[n] \in Seq(Digits) /\ Decimal[n] # <<>>}
  <2>1. \A n \in Nat : (n >= 10 => Decimal[n \div 10] \in Seq(Digits))
                        => Decimal[n] \in Seq(Digits) /\ Decimal[n] # <<>>
    <3> HIDE DEF Body
    <3> QED  BY <1>2, <1>12
  <2>2. 0 \in U
    BY <2>1
  <2>3. ASSUME NEW j \in Nat, j \in U  PROVE j + 1 \in U
    <3>1. j + 1 >= 10 => (j + 1) \div 10 \in 0..j
      BY <1>1
    <3>2. Decimal[j + 1] \in Seq(Digits) /\ Decimal[j + 1] # <<>>
      BY <2>1, <2>3, <3>1
    <3> QED  BY <2>3, <3>2
  <2> HIDE DEF U
  <2>4. \A j \in Nat : j \in U
    BY <2>2, <2>3, Induction
  <2>5. \A j \in Nat : j \in 0..j
    OBVIOUS
  <2> QED  BY <2>4, <2>5 DEF U
<1> QED  BY <1>12, <1>13

(* What was written is read back.                                          *)
LEMMA MagnitudeOfDecimal ==
  ASSUME NEW n \in 0..(MaxInt + 1)
  PROVE  Magnitude(Decimal[n]) = n
<1> DEFINE U == {j \in Nat : \A m \in 0..j : m <= MaxInt + 1 => Magnitude(Decimal[m]) = m}
<1>0. MaxInt \in Nat
  BY CodecAssumption
<1>1. ASSUME NEW m \in 0..(MaxInt + 1), m >= 10 => Magnitude(Decimal[m \div 10]) = m \div 10
      PROVE  Magnitude(Decimal[m]) = m
  <2> DEFINE d == Decimal[m]
             e == Decimal[m \div 10]
  <2>0. m \in Nat /\ 0 <= MaxInt
    BY <1>0
  <2>1. Digits \subseteq Int
    BY DigitsAre
  <2>2. CASE m < 10
    <3>1. d = <<48 + m>>
      BY <2>0, <2>2, DecimalDef
    <3> HIDE DEF d
    <3>2. d \in Seq(Int) /\ Len(d) = 1 /\ d[1] = 48 + m
      BY <2>0, <3>1
    <3>3. Magnitudes(d)[0] = 0 /\ Magnitudes(d)[1] = m
      <4>1. 1 \in 1..Len(d) /\ 1 - 1 = 0
        BY <3>2
      <4>2. Magnitudes(d)[0] = 0
        BY <3>2, MagnitudesDef
      <4>3. Magnitudes(d)[1] = IF Magnitudes(d)[0] > MaxInt THEN Magnitudes(d)[0]
                               ELSE 10 * Magnitudes(d)[0] + d[1] - 48
        BY <3>2, <4>1, MagnitudesDef
      <4> QED  BY <1>0, <2>0, <3>2, <4>2, <4>3
    <3>4. Magnitude(d) = m
      BY <3>2, <3>3 DEF Magnitude
    <3> QED  BY <3>4 DEF d
  <2>3. CASE m >= 10
    <3>1. m \div 10 \in Nat /\ m \div 10 <= MaxInt /\ m = 10 * (m \div 10) + (m % 10)
          /\ m % 10 \in 0..9
      BY <1>0, <2>0, <2>3
    <3>2. d = Append(e, 48 + (m % 10)) /\ e \in Seq(Digits)
      <4>1. ~(m < 10)
        BY <2>0, <2>3
      <4> QED  BY <2>0, <3>1, <4>1, DecimalDef
    <3>3. Magnitude(e) = m \div 10
      BY <1>1, <2>3
    <3> HIDE DEF d, e
    <3>4. e \in Seq(Int)
      <4> HIDE DEF Digits
      <4> QED  BY <2>1, <3>2, SeqMonotonic
    <3>5. d \in Seq(Int) /\ Len(e) \in Nat /\ Len(d) = Len(e) + 1 /\ d[Len(e) + 1] = 48 + (m % 10)
          /\ \A i \in 1..Len(e) : e[i] = d[i]
      BY <3>1, <3>2, <3>4
    <3>6. Magnitudes(d)[Len(e)] = m \div 10
      <4>1. Len(e) <= Len(d) /\ d \in Seq(Int) /\ \A i \in 1..Len(e) : e[i] = d[i]
        BY <3>5
      <4>2. Magnitudes(d)[Len(e)] = Magnitude(e)
        BY <3>4, <4>1, MagnitudesOfPrefix
      <4> QED  BY <3>3, <4>2
    <3>7. Len(e) + 1 \in 1..Len(d) /\ (Len(e) + 1) - 1 = Len(e)
      BY <3>5
    <3>8. Magnitudes(d)[Len(e) + 1] = 10 * (m \div 10) + (48 + (m % 10)) - 48
      <4> DEFINE k == Len(e) + 1
      <4>1. k \in 1..Len(d) /\ k - 1 = Len(e) /\ d[k] = 48 + (m % 10)
        BY <3>5, <3>7
      <4> HIDE DEF k
      <4>2. Magnitudes(d)[k] = IF Magnitudes(d)[k - 1] > MaxInt THEN Magnitudes(d)[k - 1]
                               ELSE 10 * Magnitudes(d)[k - 1] + d[k] - 48
        BY <3>5, <4>1, MagnitudesDef
      <4>3. Magnitudes(d)[k] = 10 * (m \div 10) + (48 + (m % 10)) - 48
        BY <1>0, <3>1, <3>6, <4>1, <4>2
      <4> QED  BY <4>3 DEF k
    <3>9. Magnitudes(d)[Len(e) + 1] = m
      BY <3>1, <3>8
    <3> QED  BY <3>5, <3>9 DEF Magnitude, d
  <2> QED  BY <2>0, <2>2, <2>3
<1>2. 0 \in U
  BY <1>0, <1>1
<1>3. ASSUME NEW j \in Nat, j \in U  PROVE j + 1 \in U
  <2>1. j + 1 >= 10 => (j + 1) \div 10 \in 0..j
    OBVIOUS
  <2>2. j + 1 <= MaxInt + 1 => Magnitude(Decimal[j + 1]) = j + 1
    BY <1>0, <1>1, <1>3, <2>1
  <2> QED  BY <1>3, <2>2
<1> HIDE DEF U
<1>4. \A j \in Nat : j \in U
  BY <1>2, <1>3, Induction
<1>5. n \in U /\ n \in 0..n /\ n <= MaxInt + 1
  BY <1>0, <1>4
<1> QED  BY <1>5 DEF U

(* Digits, with or without a minus, and nothing else.                      *)
LEMMA FromCharsOfDigits ==
  ASSUME NEW d \in Seq(Digits), d # <<>>, NEW t \in Seq(Int), NEW first \in {1, 2},
         Len(t) = Len(d) + first - 1, first = 2 <=> t[1] = Minus,
         \A i \in 1..Len(d) : t[i + first - 1] = d[i]
  PROVE  LET value == (IF first = 2 THEN -1 ELSE 1) * Magnitude(d)
         IN FromChars(t) = IF value \in (-MaxInt - 1)..MaxInt
                           THEN [ok |-> TRUE, value |-> value, length |-> Len(t)]
                           ELSE [ok |-> FALSE]
<1> DEFINE fst == IF t # <<>> /\ t[1] = Minus THEN 2 ELSE 1
           Ends == {p \in fst..Len(t) : t[p] \notin Digits} \cup {Len(t) + 1}
<1>1. Len(d) \in Nat \ {0} /\ Len(t) \in Nat \ {0} /\ Digits \subseteq Int
  BY DigitsAre
<1>2. fst = first
  BY <1>1
<1>3. \A p \in first..Len(t) : t[p] \in Digits
  <2> SUFFICES ASSUME NEW p \in first..Len(t)  PROVE t[p] \in Digits
    OBVIOUS
  <2>1. p - first + 1 \in 1..Len(d) /\ (p - first + 1) + first - 1 = p
    BY <1>1
  <2>2. d[p - first + 1] \in Digits
    <3> HIDE DEF Digits
    <3> QED  BY <2>1
  <2> QED  BY <2>1, <2>2
<1>4. Ends = {Len(t) + 1}
  BY <1>2, <1>3
<1>5. Min(Ends) = Len(t) + 1
  <2>1. Ends \subseteq Nat /\ Ends # {}
    BY <1>1, <1>4
  <2> HIDE DEF Ends
  <2>2. Min(Ends) \in Ends
    BY <2>1, MinIsSmallest
  <2> QED  BY <1>4, <2>2
<1>6. SubSeq(t, first, Len(t)) = d
  <2> DEFINE u == SubSeq(t, first, Len(t))
  <2>1. u \in Seq(Int) /\ Len(u) = Len(d)
    BY <1>1
  <2>2. \A i \in 1..Len(d) : u[i] = d[i]
    BY <1>1
  <2>3. d \in Seq(Int)
    <3> HIDE DEF Digits
    <3> QED  BY <1>1, SeqMonotonic
  <2> HIDE DEF u
  <2>4. u = d
    BY <2>1, <2>2, <2>3, SeqEqual
  <2> QED  BY <2>4 DEF u
<1>7. Len(t) + 1 - 1 = Len(t) /\ ~(Len(t) < first)
  BY <1>1
<1> DEFINE last == Min(Ends) - 1
           value == (IF fst = 2 THEN -1 ELSE 1) * Magnitude(SubSeq(t, fst, last))
<1>8. FromChars(t) = IF last < fst \/ value \notin (-MaxInt - 1)..MaxInt
                     THEN [ok |-> FALSE]
                     ELSE [ok |-> TRUE, value |-> value, length |-> last]
  BY DEF FromChars
<1>9. last = Len(t)
  BY <1>1, <1>5
<1> HIDE DEF Ends, fst, last
<1> QED  BY <1>2, <1>6, <1>7, <1>8, <1>9

(* What to_chars writes, and the ints there are.                           *)
CharsOfInt == Digits \cup {Minus}
Ints == (-MaxInt - 1)..MaxInt

(* What to_chars writes of an int, from_chars reads back as that int, and  *)
(* to its last character: a tag, a length or a sequence number that was    *)
(* serialized is the same after parsing. (parser.cpp:70-74, 285-290, 330)  *)
THEOREM ToCharsIsRead ==
  ASSUME NEW n \in Ints
  PROVE  /\ ToChars(n) \in Seq(CharsOfInt) /\ Len(ToChars(n)) \in Nat \ {0}
         /\ FromChars(ToChars(n)) = [ok |-> TRUE, value |-> n, length |-> Len(ToChars(n))]
<1>0. MaxInt \in Nat /\ n \in Int
  BY CodecAssumption DEF Ints
<1>1. Digits \subseteq Int /\ Digits \subseteq CharsOfInt /\ Minus \in CharsOfInt
      /\ CharsOfInt \subseteq Int /\ Minus \notin Digits
  BY DigitsAre DEF CharsOfInt, Minus
<1> HIDE DEF CharsOfInt, Digits
<1>2. CASE n >= 0
  <2> DEFINE d == Decimal[n]
  <2>1. n \in Nat /\ n \in 0..(MaxInt + 1)
    BY <1>0, <1>2 DEF Ints
  <2>2. d \in Seq(Digits) /\ d # <<>> /\ Magnitude(d) = n
    BY <2>1, DecimalDef, MagnitudeOfDecimal
  <2>3. ToChars(n) = d
    BY <1>0, <1>2 DEF ToChars
  <2> HIDE DEF d
  <2>4. d \in Seq(CharsOfInt) /\ d \in Seq(Int)
    BY <1>1, <2>2, SeqMonotonic
  <2>5. Len(d) \in Nat \ {0} /\ d[1] \in Digits
    BY <2>2
  <2>6. FromChars(d) = IF 1 * n \in Ints THEN [ok |-> TRUE, value |-> 1 * n, length |-> Len(d)]
                       ELSE [ok |-> FALSE]
    <3>1. Len(d) = Len(d) + 1 - 1 /\ (1 = 2 <=> d[1] = Minus) /\ \A i \in 1..Len(d) : d[i + 1 - 1] = d[i]
      BY <1>1, <2>5
    <3> QED  BY <2>2, <2>4, <3>1, FromCharsOfDigits DEF Ints
  <2>7. 1 * n = n /\ n \in Ints
    BY <1>0
  <2>8. FromChars(d) = [ok |-> TRUE, value |-> n, length |-> Len(d)]
    BY <2>6, <2>7
  <2> QED  BY <2>3, <2>4, <2>5, <2>8
<1>3. CASE n < 0
  <2> DEFINE d == Decimal[-n]
             t == <<Minus>> \o d
  <2>1. -n \in Nat /\ -n \in 0..(MaxInt + 1) /\ -1 * (-n) = n
    BY <1>0, <1>3 DEF Ints
  <2>2. d \in Seq(Digits) /\ d # <<>> /\ Magnitude(d) = -n
    BY <2>1, DecimalDef, MagnitudeOfDecimal
  <2>3. ToChars(n) = t
    BY <1>0, <1>3 DEF ToChars
  <2> HIDE DEF d
  <2>4. d \in Seq(CharsOfInt) /\ d \in Seq(Int)
    BY <1>1, <2>2, SeqMonotonic
  <2>5. t \in Seq(CharsOfInt) /\ t \in Seq(Int) /\ Len(t) = Len(d) + 1 /\ t[1] = Minus
        /\ Len(d) \in Nat \ {0} /\ \A i \in 1..Len(d) : t[i + 1] = d[i]
    <3>1. <<Minus>> \in Seq(CharsOfInt) /\ <<Minus>> \in Seq(Int)
      BY <1>1
    <3> QED  BY <2>2, <2>4, <3>1
  <2> HIDE DEF t
  <2>6. FromChars(t) = IF -1 * (-n) \in Ints
                       THEN [ok |-> TRUE, value |-> -1 * (-n), length |-> Len(t)]
                       ELSE [ok |-> FALSE]
    <3>1. Len(t) = Len(d) + 2 - 1 /\ (2 = 2 <=> t[1] = Minus) /\ \A i \in 1..Len(d) : t[i + 2 - 1] = d[i]
      BY <2>5
    <3> QED  BY <2>2, <2>5, <3>1, FromCharsOfDigits, SMTT(30) DEF Ints
  <2>7. FromChars(t) = [ok |-> TRUE, value |-> n, length |-> Len(t)]
    BY <2>1, <2>6
  <2>8. Len(t) \in Nat \ {0}
    BY <2>5
  <2> QED  BY <2>3, <2>5, <2>7, <2>8
<1> QED  BY <1>0, <1>2, <1>3

(* from_chars reads digits that make an int to their end, leading zeros    *)
(* or not.                                                                 *)
LEMMA DigitsOnlyAreRead ==
  ASSUME NEW d \in Seq(Digits), d # <<>>, Magnitude(d) \in 0..MaxInt
  PROVE  FromChars(d) = [ok |-> TRUE, value |-> Magnitude(d), length |-> Len(d)]
<1>1. MaxInt \in Nat
  BY CodecAssumption
<1>2. Digits \subseteq Int /\ Minus \notin Digits
  BY DigitsAre DEF Minus
<1> HIDE DEF Digits
<1>3. d \in Seq(Int)
  BY <1>2, SeqMonotonic
<1>4. Len(d) \in Nat \ {0} /\ d[1] \in Digits
  OBVIOUS
<1>5. Len(d) = Len(d) + 1 - 1 /\ (1 = 2 <=> d[1] = Minus) /\ \A i \in 1..Len(d) : d[i + 1 - 1] = d[i]
  BY <1>2, <1>4
<1>6. FromChars(d) = IF 1 * Magnitude(d) \in (-MaxInt - 1)..MaxInt
                     THEN [ok |-> TRUE, value |-> 1 * Magnitude(d), length |-> Len(d)]
                     ELSE [ok |-> FALSE]
  BY <1>3, <1>5, FromCharsOfDigits
<1>7. 1 * Magnitude(d) = Magnitude(d) /\ Magnitude(d) \in (-MaxInt - 1)..MaxInt
  BY <1>1
<1> QED  BY <1>6, <1>7

(* The three digits of a checksum are read as that checksum.               *)
(* (parser.cpp:376-380)                                                    *)
LEMMA ThreeDigitsAreRead ==
  ASSUME NEW n \in 0..255
  PROVE  /\ ThreeDigits(n) \in Seq(Digits) /\ Len(ThreeDigits(n)) = 3
         /\ FromChars(ThreeDigits(n)) = [ok |-> TRUE, value |-> n, length |-> 3]
<1> DEFINE a == n \div 100
           b == (n \div 10) % 10
           c == n % 10
           d == ThreeDigits(n)
<1>0. MaxInt \in Nat /\ MaxInt >= 255
  BY CodecAssumption
<1>1. a \in 0..2 /\ b \in 0..9 /\ c \in 0..9 /\ 100 * a + 10 * b + c = n /\ 10 * a + b <= 25
  OBVIOUS
<1>2. d = <<48 + a, 48 + b, 48 + c>>
  BY DEF ThreeDigits, Digit
<1> HIDE DEF a, b, c, d
<1>3. 48 + a \in Digits /\ 48 + b \in Digits /\ 48 + c \in Digits
  BY <1>1, DigitsAre
<1>4. /\ d \in Seq(Digits) /\ d \in Seq(Int) /\ Len(d) = 3 /\ d # <<>>
      /\ d[1] = 48 + a /\ d[2] = 48 + b /\ d[3] = 48 + c
  <2> HIDE DEF Digits
  <2> QED  BY <1>1, <1>2, <1>3
<1>5. Magnitudes(d)[0] = 0
  BY <1>4, MagnitudesDef
<1>6. \A k \in 1..3 :
        Magnitudes(d)[k] = IF Magnitudes(d)[k - 1] > MaxInt THEN Magnitudes(d)[k - 1]
                           ELSE 10 * Magnitudes(d)[k - 1] + d[k] - 48
  BY <1>4, MagnitudesDef
<1>7. Magnitudes(d)[1] = a
  <2>1. 1 \in 1..3 /\ 1 - 1 = 0
    OBVIOUS
  <2> QED  BY <1>0, <1>1, <1>4, <1>5, <1>6, <2>1
<1>8. Magnitudes(d)[2] = 10 * a + b
  <2>1. 2 \in 1..3 /\ 2 - 1 = 1
    OBVIOUS
  <2>2. Magnitudes(d)[2] = IF Magnitudes(d)[1] > MaxInt THEN Magnitudes(d)[1]
                           ELSE 10 * Magnitudes(d)[1] + d[2] - 48
    BY <1>6, <2>1
  <2>3. ~(Magnitudes(d)[1] > MaxInt)
    BY <1>0, <1>1, <1>7
  <2>4. Magnitudes(d)[2] = 10 * (a) + (48 + b) - 48
    BY <1>4, <1>7, <2>2, <2>3
  <2> QED  BY <1>1, <2>4
<1>9. Magnitudes(d)[3] = n
  <2>1. 3 \in 1..3 /\ 3 - 1 = 2
    OBVIOUS
  <2>2. Magnitudes(d)[3] = IF Magnitudes(d)[2] > MaxInt THEN Magnitudes(d)[2]
                           ELSE 10 * Magnitudes(d)[2] + d[3] - 48
    BY <1>6, <2>1
  <2>3. ~(Magnitudes(d)[2] > MaxInt)
    BY <1>0, <1>1, <1>8
  <2>4. Magnitudes(d)[3] = 10 * (10 * a + b) + (48 + c) - 48
    BY <1>4, <1>8, <2>2, <2>3
  <2> QED  BY <1>1, <2>4
<1>10. Magnitude(d) = n
  BY <1>4, <1>9 DEF Magnitude
<1>11. Magnitude(d) \in 0..MaxInt
  BY <1>0, <1>10
<1>12. FromChars(d) = [ok |-> TRUE, value |-> Magnitude(d), length |-> Len(d)]
  <2> HIDE DEF Digits
  <2> QED  BY <1>4, <1>11, DigitsOnlyAreRead
<1>13. FromChars(d) = [ok |-> TRUE, value |-> n, length |-> 3]
  BY <1>4, <1>10, <1>12
<1> QED  BY <1>4, <1>13 DEF d

(* FlattenSeq, as it goes.                                                 *)
Flats(s) ==
  LET flatten[i \in 1..Len(s)] ==
        IF i = 1 THEN s[i] ELSE flatten[i-1] \o s[i]
  IN flatten

-----------------------------------------------------------------------------
(* Lists of texts, and fields taken out of lists                           *)

(* The concatenations of the first n of some sequences.                    *)
LEMMA FlatsDef ==
  ASSUME NEW S, NEW s \in Seq(Seq(S)), s # <<>>
  PROVE  /\ Flats(s)[1] = s[1]
         /\ \A n \in 2..Len(s) : Flats(s)[n] = Flats(s)[n - 1] \o s[n]
         /\ \A n \in 1..Len(s) : Flats(s)[n] \in Seq(S)
<1> DEFINE N == Len(s)
           F == [n \in Nat |-> [u \in Seq(S) |-> IF n \in 1..N THEN u \o s[n] ELSE <<>>]]
           Is(f) == f = [i \in 1..N |-> IF i = 1 THEN s[i] ELSE f[i - 1] \o s[i]]
<1>1. N \in Nat \ {0} /\ <<>> \in Seq(S) /\ \A n \in 1..N : s[n] \in Seq(S)
  OBVIOUS
<1>2. F \in [Nat -> [Seq(S) -> Seq(S)]]
  <2>1. \A n \in Nat, u \in Seq(S) : (IF n \in 1..N THEN u \o s[n] ELSE <<>>) \in Seq(S)
    BY <1>1
  <2> QED  BY <2>1
<1>3. PICK g : Runs(g, Seq(S), <<>>, F, N)
  <2> HIDE DEF F, N
  <2> QED BY <1>1, <1>2, Recursion
<1>4. g \in [0..N -> Seq(S)] /\ g[0] = <<>> /\ \A n \in 1..N : g[n] = F[n][g[n - 1]]
  BY <1>3 DEF Runs
<1>5. ASSUME NEW n \in 1..N  PROVE g[n] = g[n - 1] \o s[n]
  <2>1. n \in Nat /\ n - 1 \in 0..N
    BY <1>1
  <2>2. g[n - 1] \in Seq(S)
    <3> HIDE DEF N
    <3> QED  BY <1>4, <2>1
  <2> QED  BY <1>1, <1>4, <2>1, <2>2
<1> DEFINE h == [i \in 1..N |-> g[i]]
<1>6. ASSUME NEW i \in 1..N  PROVE h[i] = IF i = 1 THEN s[i] ELSE h[i - 1] \o s[i]
  <2>1. CASE i = 1
    <3>1. g[1] = <<>> \o s[1] /\ s[1] \in Seq(S)
      <4>1. 1 \in 1..N /\ 1 - 1 = 0
        BY <1>1
      <4>2. g[1] = g[0] \o s[1]
        BY <1>5, <4>1
      <4> QED  BY <1>1, <1>4, <4>1, <4>2
    <3> QED  BY <2>1, <3>1
  <2>2. CASE i # 1
    <3>1. i - 1 \in 1..N
      BY <1>1, <2>2
    <3>2. h[i] = g[i] /\ h[i - 1] = g[i - 1]
      BY <3>1
    <3> QED  BY <1>5, <2>2, <3>2
  <2> QED  BY <2>1, <2>2
<1>7. Is(h)
  <2> HIDE DEF N
  <2>1. h = [i \in 1..N |-> h[i]]
    OBVIOUS
  <2> HIDE DEF h
  <2>2. [i \in 1..N |-> h[i]] = [i \in 1..N |-> IF i = 1 THEN s[i] ELSE h[i - 1] \o s[i]]
    BY <1>6, Zenon
  <2> QED  BY <2>1, <2>2, Zenon
<1>8. Flats(s) = CHOOSE f : Is(f)
  BY DEF Flats
<1>9. Is(Flats(s))
  <2> HIDE DEF Is, h
  <2> QED  BY <1>7, <1>8
<1>10. \A n \in 1..N : Flats(s)[n] = IF n = 1 THEN s[n] ELSE Flats(s)[n - 1] \o s[n]
  BY <1>9
<1>11. Flats(s)[1] = s[1] /\ \A n \in 2..N : Flats(s)[n] = Flats(s)[n - 1] \o s[n]
  <2>1. 1 \in 1..N /\ \A n \in 2..N : n \in 1..N /\ n # 1
    BY <1>1
  <2> QED  BY <1>10, <2>1
<1>12. \A n \in 1..N : Flats(s)[n] \in Seq(S)
  <2> DEFINE f == Flats(s)
             T == {k \in Nat : k \in 1..N => f[k] \in Seq(S)}
  <2>1. 0 \in T
    OBVIOUS
  <2>2. ASSUME NEW k \in Nat, k \in T  PROVE k + 1 \in T
    <3> SUFFICES ASSUME k + 1 \in 1..N  PROVE f[k + 1] \in Seq(S)
      OBVIOUS
    <3>1. CASE k = 0
      BY <1>1, <1>11, <3>1
    <3>2. CASE k # 0
      <4>1. k \in 1..N /\ k + 1 \in 2..N /\ (k + 1) - 1 = k
        BY <1>1, <3>2
      <4>2. f[k] \in Seq(S) /\ s[k + 1] \in Seq(S)
        BY <1>1, <2>2, <4>1
      <4>3. f[k + 1] = f[k] \o s[k + 1]
        BY <1>11, <4>1
      <4> QED  BY <4>2, <4>3
    <3> QED  BY <3>1, <3>2
  <2> HIDE DEF T
  <2>3. \A k \in Nat : k \in T
    BY <2>1, <2>2, Induction
  <2> QED  BY <1>1, <2>3 DEF T
<1> QED  BY <1>11, <1>12

(* Induction over sequences that grow at their end.                        *)
LEMMA SeqInduction ==
  ASSUME NEW S, NEW T, <<>> \in T,
         \A s \in Seq(S), x \in S : s \in T => Append(s, x) \in T
  PROVE  \A s \in Seq(S) : s \in T
<1> DEFINE U == {n \in Nat : \A s \in Seq(S) : Len(s) = n => s \in T}
<1>1. 0 \in U
  <2>1. \A s \in Seq(S) : Len(s) = 0 => s = <<>>
    BY EmptySeq
  <2> QED  BY <2>1
<1>2. ASSUME NEW n \in Nat, n \in U  PROVE n + 1 \in U
  <2> SUFFICES ASSUME NEW s \in Seq(S), Len(s) = n + 1  PROVE s \in T
    OBVIOUS
  <2> DEFINE f == SubSeq(s, 1, n)
             x == s[n + 1]
  <2>1. f \in Seq(S) /\ Len(f) = n /\ x \in S
    OBVIOUS
  <2>2. Append(f, x) = s
    <3>1. Append(f, x) \in Seq(S) /\ Len(Append(f, x)) = Len(s)
      BY <2>1
    <3>2. \A i \in 1..Len(s) : Append(f, x)[i] = s[i]
      BY <2>1
    <3> HIDE DEF f, x
    <3> QED  BY <3>1, <3>2, SeqEqual
  <2>3. f \in T
    BY <1>2, <2>1
  <2> HIDE DEF f, x
  <2> QED  BY <2>1, <2>2, <2>3
<1> HIDE DEF U
<1>3. \A n \in Nat : n \in U
  BY <1>1, <1>2, Induction
<1> QED  BY <1>3 DEF U

(* FlattenSeq is the last of these concatenations.                         *)
LEMMA FlattenIsFlats ==
  ASSUME NEW S, NEW s \in Seq(Seq(S))
  PROVE  /\ s = <<>> => FlattenSeq(s) = <<>>
         /\ s # <<>> => FlattenSeq(s) = Flats(s)[Len(s)]
<1>1. s = <<>> => Len(s) = 0
  OBVIOUS
<1>2. s # <<>> => ~(Len(s) = 0)
  BY EmptySeq
<1>3. FlattenSeq(s) = IF Len(s) = 0 THEN s ELSE Flats(s)[Len(s)]
  BY Zenon DEF FlattenSeq, Flats
<1> HIDE DEF Flats
<1> QED  BY <1>1, <1>2, <1>3, Zenon

(* Flattened sequences over a set are a sequence over it.                  *)
LEMMA FlattenType ==
  ASSUME NEW S, NEW s \in Seq(Seq(S))
  PROVE  FlattenSeq(s) \in Seq(S)
<1>1. CASE s = <<>>
  <2>1. FlattenSeq(s) = <<>>
    BY <1>1, FlattenIsFlats
  <2> QED  BY <2>1
<1>2. CASE s # <<>>
  <2>1. Len(s) \in 1..Len(s)
    BY <1>2, EmptySeq
  <2> QED  BY <1>2, <2>1, FlattenIsFlats, FlatsDef
<1> QED  BY <1>1, <1>2

(* One more sequence is put behind the others.                             *)
LEMMA FlattenAppend ==
  ASSUME NEW S, NEW s \in Seq(Seq(S)), NEW x \in Seq(S)
  PROVE  FlattenSeq(Append(s, x)) = FlattenSeq(s) \o x
<1> DEFINE t == Append(s, x)
           N == Len(s)
<1>1. t \in Seq(Seq(S)) /\ N \in Nat /\ Len(t) = N + 1 /\ t[N + 1] = x
      /\ \A i \in 1..N : t[i] = s[i]
  OBVIOUS
<1> HIDE DEF t
<1>0. t # <<>> /\ t[1] = IF N = 0 THEN x ELSE s[1]
  BY <1>1
<1>2. FlattenSeq(t) = Flats(t)[N + 1]
  BY <1>0, <1>1, FlattenIsFlats
<1>3. CASE s = <<>>
  <2>1. N = 0
    BY <1>3
  <2>2. FlattenSeq(t) = x /\ FlattenSeq(s) = <<>>
    <3>1. t[1] = x /\ FlattenSeq(t) = Flats(t)[1]
      BY <1>1, <1>2, <2>1
    <3>2. Flats(t)[1] = t[1]
      BY <1>0, <1>1, FlatsDef
    <3> QED  BY <1>3, <3>1, <3>2, FlattenIsFlats
  <2> QED  BY <2>2 DEF t
<1>4. CASE s # <<>>
  <2>1. N \in 1..N /\ N + 1 \in 2..Len(t) /\ (N + 1) - 1 = N
    BY <1>1, <1>4, EmptySeq
  <2>2. Flats(t)[N + 1] = Flats(t)[N] \o x
    <3> DEFINE k == N + 1
    <3>1. k \in 2..Len(t) /\ k - 1 = N /\ t[k] = x
      BY <1>1, <2>1
    <3> HIDE DEF k, N
    <3>2. Flats(t)[k] = Flats(t)[k - 1] \o t[k]
      BY <1>0, <1>1, <3>1, FlatsDef
    <3> QED  BY <3>1, <3>2 DEF k
  <2> DEFINE T == {k \in Nat : k \in 1..N => Flats(t)[k] = Flats(s)[k]}
  <2>3. 0 \in T
    OBVIOUS
  <2>4. ASSUME NEW k \in Nat, k \in T  PROVE k + 1 \in T
    <3> SUFFICES ASSUME k + 1 \in 1..N  PROVE Flats(t)[k + 1] = Flats(s)[k + 1]
      OBVIOUS
    <3>1. CASE k = 0
      <4>1. Flats(t)[1] = t[1] /\ Flats(s)[1] = s[1]
        BY <1>0, <1>1, <1>4, FlatsDef
      <4>2. t[1] = s[1] /\ k + 1 = 1
        BY <1>1, <2>1, <3>1
      <4> QED  BY <4>1, <4>2
    <3>2. CASE k # 0
      <4> DEFINE j == k + 1
      <4>1. j \in 2..Len(t) /\ j \in 2..N /\ j - 1 = k /\ k \in 1..N /\ j \in 1..N
        BY <1>1, <3>2
      <4> HIDE DEF j, N, T
      <4>2. Flats(t)[j] = Flats(t)[j - 1] \o t[j]
        BY <1>0, <1>1, <4>1, FlatsDef
      <4>3. Flats(s)[j] = Flats(s)[j - 1] \o s[j]
        BY <1>1, <1>4, <4>1, FlatsDef DEF N
      <4>4. Flats(t)[k] = Flats(s)[k]
        BY <2>4, <4>1 DEF T
      <4> QED  BY <1>1, <4>1, <4>2, <4>3, <4>4 DEF j
    <3> QED  BY <3>1, <3>2
  <2> HIDE DEF T
  <2>5. N \in T
    BY <1>1, <2>3, <2>4, Induction
  <2>6. Flats(t)[N] = Flats(s)[N]
    BY <2>1, <2>5 DEF T
  <2>7. FlattenSeq(s) = Flats(s)[N]
    BY <1>4, FlattenIsFlats
  <2> QED  BY <1>2, <2>2, <2>6, <2>7 DEF t
<1> QED  BY <1>3, <1>4

(* One sequence flattened is itself.                                       *)
LEMMA FlattenOne ==
  ASSUME NEW S, NEW x \in Seq(S)
  PROVE  FlattenSeq(<<x>>) = x
<1>1. <<>> \in Seq(Seq(S)) /\ Append(<<>>, x) = <<x>>
  OBVIOUS
<1>2. FlattenSeq(<<>>) = <<>>
  BY <1>1, FlattenIsFlats
<1>3. FlattenSeq(Append(<<>>, x)) = <<>> \o x
  BY <1>1, <1>2, FlattenAppend
<1> QED  BY <1>1, <1>3

(* Concatenation is associative.                                           *)
LEMMA ConcatAssoc ==
  ASSUME NEW S, NEW a \in Seq(S), NEW b \in Seq(S), NEW c \in Seq(S)
  PROVE  (a \o b) \o c = a \o (b \o c)
OBVIOUS

(* Two lists of sequences can be flattened one after the other.            *)
LEMMA FlattenConcat ==
  ASSUME NEW S, NEW a \in Seq(Seq(S)), NEW b \in Seq(Seq(S))
  PROVE  FlattenSeq(a \o b) = FlattenSeq(a) \o FlattenSeq(b)
<1> DEFINE T == {c \in Seq(Seq(S)) : FlattenSeq(a \o c) = FlattenSeq(a) \o FlattenSeq(c)}
<1>1. <<>> \in T
  <2>1. a \o <<>> = a /\ <<>> \in Seq(Seq(S)) /\ FlattenSeq(a) \in Seq(S)
    BY FlattenType
  <2>2. FlattenSeq(<<>>) = <<>>
    BY <2>1, FlattenIsFlats
  <2>3. FlattenSeq(a) \o <<>> = FlattenSeq(a)
    BY <2>1
  <2> QED  BY <2>1, <2>2, <2>3
<1>2. ASSUME NEW c \in Seq(Seq(S)), NEW x \in Seq(S), c \in T  PROVE Append(c, x) \in T
  <2>1. a \o Append(c, x) = Append(a \o c, x) /\ a \o c \in Seq(Seq(S)) /\ Append(c, x) \in Seq(Seq(S))
    OBVIOUS
  <2>2. FlattenSeq(Append(a \o c, x)) = FlattenSeq(a \o c) \o x
    BY <2>1, FlattenAppend
  <2>3. FlattenSeq(Append(c, x)) = FlattenSeq(c) \o x
    BY FlattenAppend
  <2>4. FlattenSeq(a) \in Seq(S) /\ FlattenSeq(c) \in Seq(S)
    BY FlattenType
  <2>5. (FlattenSeq(a) \o FlattenSeq(c)) \o x = FlattenSeq(a) \o (FlattenSeq(c) \o x)
    BY <2>4, ConcatAssoc, SMTT(30)
  <2> QED  BY <1>2, <2>1, <2>2, <2>3, <2>5
<1> HIDE DEF T
<1>3. \A c \in Seq(Seq(S)) : c \in T
  BY <1>1, <1>2, SeqInduction
<1>4. b \in T
  BY <1>3
<1> QED  BY <1>4 DEF T

(* What Without takes of each field.                                       *)
Stays(fields, tags) ==
  [i \in DOMAIN fields |-> IF fields[i].tag \in tags THEN <<>> ELSE <<fields[i]>>]

(* What Without takes is one field or none, in each place.                 *)
LEMMA StaysType ==
  ASSUME NEW S, NEW s \in Seq(S), NEW T
  PROVE  Stays(s, T) \in Seq(Seq({x \in S : x.tag \notin T})) /\ Len(Stays(s, T)) = Len(s)
<1> DEFINE R == {x \in S : x.tag \notin T}
           n == Len(s)
<1>1. DOMAIN s = 1..n /\ n \in Nat
  OBVIOUS
<1>2. \A i \in 1..n : (IF s[i].tag \in T THEN <<>> ELSE <<s[i]>>) \in Seq(R)
  <2> SUFFICES ASSUME NEW i \in 1..n  PROVE (IF s[i].tag \in T THEN <<>> ELSE <<s[i]>>) \in Seq(R)
    OBVIOUS
  <2>1. s[i] \in S
    OBVIOUS
  <2>2. s[i].tag \notin T => s[i] \in R
    BY <2>1
  <2> HIDE DEF R
  <2> QED  BY <2>2
<1> HIDE DEF R, n
<1>3. Stays(s, T) = [i \in 1..n |-> IF s[i].tag \in T THEN <<>> ELSE <<s[i]>>]
  BY <1>1 DEF Stays
<1>4. Stays(s, T) \in Seq(Seq(R)) /\ Len(Stays(s, T)) = n
  BY <1>1, <1>2, <1>3
<1> QED  BY <1>4 DEF R, n

(* Without takes of the fields it is given.                                *)
LEMMA WithoutType ==
  ASSUME NEW S, NEW s \in Seq(S), NEW T
  PROVE  Without(s, T) \in Seq(S)
<1> DEFINE R == {x \in S : x.tag \notin T}
<1>1. Without(s, T) = FlattenSeq(Stays(s, T))
  BY DEF Without, Stays
<1>2. R \subseteq S
  OBVIOUS
<1>3. Stays(s, T) \in Seq(Seq(R))
  BY StaysType
<1> HIDE DEF R
<1>4. Without(s, T) \in Seq(R)
  BY <1>1, <1>3, FlattenType
<1>5. Without(s, T) \in Seq(S)
  BY <1>2, <1>4, SeqMonotonic
<1> QED  BY <1>5

(* None of the tags is left.                                               *)
LEMMA WithoutTags ==
  ASSUME NEW S, NEW s \in Seq(S), NEW T
  PROVE  \A i \in 1..Len(Without(s, T)) : Without(s, T)[i].tag \notin T
<1> DEFINE R == {x \in S : x.tag \notin T}
<1>1. Without(s, T) = FlattenSeq(Stays(s, T))
  BY DEF Without, Stays
<1>2. R \subseteq S
  OBVIOUS
<1>3. Stays(s, T) \in Seq(Seq(R))
  BY StaysType
<1> HIDE DEF R
<1>4. Without(s, T) \in Seq(R)
  BY <1>1, <1>3, FlattenType
<1>5. \A i \in 1..Len(Without(s, T)) : Without(s, T)[i] \in R
  BY <1>4
<1> QED  BY <1>5 DEF R

(* Without goes through the fields one by one.                             *)
LEMMA WithoutConcat ==
  ASSUME NEW S, NEW a \in Seq(S), NEW b \in Seq(S), NEW T
  PROVE  Without(a \o b, T) = Without(a, T) \o Without(b, T)
<1> DEFINE R == {x \in S : x.tag \notin T}
           c == a \o b
<1>1. c \in Seq(S) /\ Len(c) = Len(a) + Len(b) /\ Len(a) \in Nat /\ Len(b) \in Nat
      /\ DOMAIN c = 1..Len(c) /\ DOMAIN a = 1..Len(a) /\ DOMAIN b = 1..Len(b)
      /\ \A i \in 1..Len(c) : c[i] = IF i <= Len(a) THEN a[i] ELSE b[i - Len(a)]
  OBVIOUS
<1>2. /\ Stays(a, T) \in Seq(Seq(R)) /\ Len(Stays(a, T)) = Len(a)
      /\ Stays(b, T) \in Seq(Seq(R)) /\ Len(Stays(b, T)) = Len(b)
      /\ Stays(c, T) \in Seq(Seq(R)) /\ Len(Stays(c, T)) = Len(c)
  BY <1>1, StaysType
<1> HIDE DEF R, c
<1>3. Stays(c, T) = Stays(a, T) \o Stays(b, T)
  <2> DEFINE x == Stays(c, T)
             y == Stays(a, T) \o Stays(b, T)
  <2>1. y \in Seq(Seq(R)) /\ x \in Seq(Seq(R)) /\ Len(x) = Len(y)
    BY <1>1, <1>2
  <2>2. ASSUME NEW i \in 1..Len(x)  PROVE x[i] = y[i]
    <3>1. i \in 1..Len(c)
      BY <1>2
    <3>2. y[i] = IF i <= Len(a) THEN Stays(a, T)[i] ELSE Stays(b, T)[i - Len(a)]
      BY <1>1, <1>2, <3>1
    <3>3. x[i] = IF c[i].tag \in T THEN <<>> ELSE <<c[i]>>
      BY <1>1, <3>1 DEF Stays
    <3>4. CASE i <= Len(a)
      <4>1. i \in 1..Len(a) /\ c[i] = a[i]
        BY <1>1, <3>1, <3>4
      <4>2. Stays(a, T)[i] = IF a[i].tag \in T THEN <<>> ELSE <<a[i]>>
        BY <1>1, <4>1 DEF Stays
      <4> HIDE DEF x, y
      <4> QED  BY <3>2, <3>3, <3>4, <4>1, <4>2
    <3>5. CASE ~(i <= Len(a))
      <4> DEFINE j == i - Len(a)
      <4>1. j \in 1..Len(b) /\ c[i] = b[j]
        BY <1>1, <3>1, <3>5
      <4> HIDE DEF j
      <4>2. Stays(b, T)[j] = IF b[j].tag \in T THEN <<>> ELSE <<b[j]>>
        BY <1>1, <4>1 DEF Stays
      <4>3. y[i] = Stays(b, T)[j]
        BY <3>2, <3>5 DEF j
      <4> HIDE DEF x, y
      <4> QED  BY <3>3, <4>1, <4>2, <4>3
    <3> QED  BY <3>4, <3>5
  <2> HIDE DEF x, y
  <2>3. x = y
    BY <2>1, <2>2, SeqEqual
  <2> QED  BY <2>3 DEF x, y
<1>4. FlattenSeq(Stays(a, T) \o Stays(b, T)) = FlattenSeq(Stays(a, T)) \o FlattenSeq(Stays(b, T))
  BY <1>2, FlattenConcat
<1>5. /\ Without(a, T) = FlattenSeq(Stays(a, T)) /\ Without(b, T) = FlattenSeq(Stays(b, T))
      /\ Without(c, T) = FlattenSeq(Stays(c, T))
  BY Zenon DEF Without, Stays
<1>6. Without(c, T) = Without(a, T) \o Without(b, T)
  BY <1>3, <1>4, <1>5
<1> QED  BY <1>6 DEF c

(* Only tags that occur matter.                                            *)
LEMMA WithoutSame ==
  ASSUME NEW s, NEW T, NEW U, \A i \in DOMAIN s : s[i].tag \in T <=> s[i].tag \in U
  PROVE  Without(s, T) = Without(s, U)
<1>1. Stays(s, T) = Stays(s, U)
  BY DEF Stays
<1> QED  BY <1>1 DEF Without, Stays

(* Without of a single field.                                              *)
LEMMA WithoutOne ==
  ASSUME NEW S, NEW x \in S, NEW T
  PROVE  Without(<<x>>, T) = IF x.tag \in T THEN <<>> ELSE <<x>>
<1> DEFINE y == IF x.tag \in T THEN <<>> ELSE <<x>>
<1>1. Stays(<<x>>, T) = <<y>>
  BY DEF Stays
<1>2. y \in Seq(S)
  OBVIOUS
<1> HIDE DEF y
<1>3. FlattenSeq(<<y>>) = y
  BY <1>2, FlattenOne
<1> QED  BY <1>1, <1>3 DEF Without, Stays, y

(* Without of one more field.                                              *)
LEMMA WithoutAppend ==
  ASSUME NEW S, NEW s \in Seq(S), NEW x \in S, NEW T
  PROVE  Without(Append(s, x), T) = IF x.tag \in T THEN Without(s, T)
                                    ELSE Append(Without(s, T), x)
<1> DEFINE one == <<x>>
<1>1. one \in Seq(S) /\ Without(one, T) = IF x.tag \in T THEN <<>> ELSE one
  BY WithoutOne
<1>2. Without(s, T) \in Seq(S)
  BY WithoutType
<1>3. Append(s, x) = s \o one /\ Append(Without(s, T), x) = Without(s, T) \o one
      /\ Without(s, T) \o <<>> = Without(s, T)
  BY <1>2
<1> HIDE DEF one
<1>4. Without(s \o one, T) = Without(s, T) \o Without(one, T)
  <2>1. one \in Seq(S)
    BY <1>1
  <2> QED  BY <2>1, WithoutConcat
<1> QED  BY <1>1, <1>3, <1>4

(* Without of no fields.                                                   *)
LEMMA WithoutNothing == \A T : Without(<<>>, T) = <<>>
<1> SUFFICES ASSUME NEW T  PROVE Without(<<>>, T) = <<>>
  OBVIOUS
<1>1. Stays(<<>>, T) = <<>> /\ <<>> \in Seq(Seq({}))
  BY DEF Stays
<1>2. FlattenSeq(<<>>) = <<>>
  BY <1>1, FlattenIsFlats
<1> QED  BY <1>1, <1>2 DEF Without, Stays

(* Fields that have none of the tags all stay.                             *)
LEMMA WithoutAll ==
  ASSUME NEW S, NEW s \in Seq(S), NEW T, \A i \in 1..Len(s) : s[i].tag \notin T
  PROVE  Without(s, T) = s
<1> DEFINE R == {x \in S : x.tag \notin T}
           U == {r \in Seq(R) : Without(r, T) = r}
<1>1. s \in Seq(R)
  <2>1. \A i \in 1..Len(s) : s[i] \in R
    OBVIOUS
  <2> HIDE DEF R
  <2> QED  BY <2>1, SeqDef
<1>2. <<>> \in U
  BY WithoutNothing
<1>3. ASSUME NEW r \in Seq(R), NEW x \in R, r \in U  PROVE Append(r, x) \in U
  <2>0. x.tag \notin T
    OBVIOUS
  <2> HIDE DEF R
  <2>1. Append(r, x) \in Seq(R)
    OBVIOUS
  <2>2. Without(Append(r, x), T) = Append(Without(r, T), x)
    BY <2>0, WithoutAppend
  <2> QED  BY <1>3, <2>1, <2>2
<1> HIDE DEF R, U
<1>4. s \in U
  BY <1>1, <1>2, <1>3, SeqInduction
<1> QED  BY <1>4 DEF U

-----------------------------------------------------------------------------
(* Fields as text                                                          *)

(* Fields that can be written; the alphabet S of their values has what is  *)
(* written around them.                                                    *)
Pairs(S) == [tag : Ints, value : Seq(S)]

(* What is written around values.                                          *)
Alphabet(S, separator) == CharsOfInt \cup {Equals, separator} \subseteq S

(* A written field is its tag, its value and two bytes more                *)
(* (parser.cpp:285-298).                                                   *)
LEMMA WrittenType ==
  ASSUME NEW S, NEW sep, Alphabet(S, sep), NEW t \in Ints, NEW v \in Seq(S)
  PROVE  /\ Written(t, v, sep) \in Seq(S)
         /\ Len(Written(t, v, sep)) = Len(ToChars(t)) + Len(v) + 2
         /\ Len(Written(t, v, sep)) \in Nat
<1> DEFINE n == ToChars(t)
<1>1. n \in Seq(CharsOfInt)
  BY ToCharsIsRead
<1>2. CharsOfInt \subseteq S /\ Equals \in S /\ sep \in S
  BY DEF Alphabet
<1> HIDE DEF n, CharsOfInt, Equals
<1>3. n \in Seq(S)
  BY <1>1, <1>2, SeqMonotonic
<1>4. Written(t, v, sep) = n \o <<Equals>> \o v \o <<sep>>
  BY DEF Written, n
<1>5. n \o <<Equals>> \o v \o <<sep>> \in Seq(S)
      /\ Len(n \o <<Equals>> \o v \o <<sep>>) = Len(n) + Len(v) + 2
      /\ Len(n) + Len(v) + 2 \in Nat
  BY <1>2, <1>3
<1>6. Len(ToChars(t)) = Len(n)
  BY DEF n
<1> QED  BY <1>4, <1>5, <1>6
WrittenPieces(fields, sep) == [i \in DOMAIN fields |-> Written(fields[i].tag, fields[i].value, sep)]

(* Each field is written as a text.                                        *)
LEMMA WrittenPiecesType ==
  ASSUME NEW S, NEW sep, Alphabet(S, sep), NEW s \in Seq(Pairs(S))
  PROVE  WrittenPieces(s, sep) \in Seq(Seq(S)) /\ Len(WrittenPieces(s, sep)) = Len(s)
<1> DEFINE n == Len(s)
<1>1. DOMAIN s = 1..n /\ n \in Nat
  OBVIOUS
<1>2. \A i \in 1..n : Written(s[i].tag, s[i].value, sep) \in Seq(S)
  <2> SUFFICES ASSUME NEW i \in 1..n  PROVE Written(s[i].tag, s[i].value, sep) \in Seq(S)
    OBVIOUS
  <2>1. s[i] \in Pairs(S)
    OBVIOUS
  <2>2. s[i].tag \in Ints /\ s[i].value \in Seq(S)
    BY <2>1 DEF Pairs
  <2> QED  BY <2>2, WrittenType
<1> HIDE DEF n
<1>3. WrittenPieces(s, sep) = [i \in 1..n |-> Written(s[i].tag, s[i].value, sep)]
  BY <1>1 DEF WrittenPieces
<1>4. WrittenPieces(s, sep) \in Seq(Seq(S)) /\ Len(WrittenPieces(s, sep)) = n
  BY <1>1, <1>2, <1>3
<1> QED  BY <1>4 DEF n

(* Written fields are a text.                                              *)
LEMMA WrittenAllType ==
  ASSUME NEW S, NEW sep, Alphabet(S, sep), NEW s \in Seq(Pairs(S))
  PROVE  WrittenAll(s, sep) \in Seq(S)
<1>1. WrittenAll(s, sep) = FlattenSeq(WrittenPieces(s, sep))
  BY DEF WrittenAll, WrittenPieces
<1>2. WrittenPieces(s, sep) \in Seq(Seq(S))
  BY WrittenPiecesType
<1> QED  BY <1>1, <1>2, FlattenType

(* Nothing is written of no fields.                                        *)
LEMMA WrittenAllNothing == \A sep : WrittenAll(<<>>, sep) = <<>>
<1> SUFFICES ASSUME NEW sep  PROVE WrittenAll(<<>>, sep) = <<>>
  OBVIOUS
<1>1. WrittenPieces(<<>>, sep) = <<>> /\ <<>> \in Seq(Seq({}))
  BY DEF WrittenPieces
<1>2. FlattenSeq(<<>>) = <<>>
  BY <1>1, FlattenIsFlats
<1> QED  BY <1>1, <1>2 DEF WrittenAll, WrittenPieces

(* A sequence is told from its length and its items.                       *)
LEMMA AppendIs ==
  ASSUME NEW S, NEW p \in Seq(S), NEW w \in S, NEW q \in Seq(S), Len(q) = Len(p) + 1,
         q[Len(p) + 1] = w, \A i \in 1..Len(p) : q[i] = p[i]
  PROVE  q = Append(p, w)
<1> DEFINE r == Append(p, w)
           n == Len(p)
<1>1. r \in Seq(S) /\ Len(r) = n + 1 /\ (\A i \in 1..n : r[i] = p[i]) /\ r[n + 1] = w /\ n \in Nat
  OBVIOUS
<1> HIDE DEF r
<1>2. \A i \in 1..Len(q) : q[i] = r[i]
  <2> SUFFICES ASSUME NEW i \in 1..Len(q)  PROVE q[i] = r[i]
    OBVIOUS
  <2>1. i = n + 1 \/ i \in 1..n
    BY <1>1
  <2> QED  BY <1>1, <2>1
<1>3. q = r
  BY <1>1, <1>2, SeqEqual
<1> QED  BY <1>3 DEF r

(* One more field is written behind the others.                            *)
LEMMA WrittenAllAppend ==
  ASSUME NEW S, NEW sep, Alphabet(S, sep), NEW s \in Seq(Pairs(S)), NEW x \in Pairs(S)
  PROVE  WrittenAll(Append(s, x), sep) = WrittenAll(s, sep) \o Written(x.tag, x.value, sep)
<1> DEFINE c == Append(s, x)
           w == Written(x.tag, x.value, sep)
           p == WrittenPieces(s, sep)
           q == WrittenPieces(c, sep)
<1>1. c \in Seq(Pairs(S)) /\ Len(c) = Len(s) + 1 /\ Len(s) \in Nat
      /\ DOMAIN c = 1..Len(c) /\ DOMAIN s = 1..Len(s)
      /\ (\A i \in 1..Len(s) : c[i] = s[i]) /\ c[Len(s) + 1] = x
  OBVIOUS
<1>2. x.tag \in Ints /\ x.value \in Seq(S)
  BY DEF Pairs
<1>3. w \in Seq(S)
  BY <1>2, WrittenType
<1>4. p \in Seq(Seq(S)) /\ Len(p) = Len(s)
  BY WrittenPiecesType
<1>5. q \in Seq(Seq(S)) /\ Len(q) = Len(s) + 1
  BY <1>1, WrittenPiecesType
<1>6. \A i \in 1..Len(s) : p[i] = Written(s[i].tag, s[i].value, sep)
  BY <1>1 DEF WrittenPieces
<1>7. \A i \in 1..(Len(s) + 1) : q[i] = Written(c[i].tag, c[i].value, sep)
  <2> HIDE DEF c
  <2> QED  BY <1>1 DEF WrittenPieces
<1> HIDE DEF c, p, q, w
<1>8. q[Len(s) + 1] = w
  BY <1>1, <1>7 DEF w
<1>9. \A i \in 1..Len(s) : q[i] = p[i]
  BY <1>1, <1>6, <1>7
<1>10. q = Append(p, w)
  <2>1. Len(q) = Len(p) + 1 /\ q[Len(p) + 1] = w /\ \A i \in 1..Len(p) : q[i] = p[i]
    BY <1>4, <1>5, <1>8, <1>9
  <2> QED  BY <1>3, <1>4, <1>5, <2>1, AppendIs
<1>11. FlattenSeq(q) = FlattenSeq(p) \o w
  BY <1>3, <1>4, <1>10, FlattenAppend
<1>12. WrittenAll(s, sep) = FlattenSeq(p) /\ WrittenAll(c, sep) = FlattenSeq(q)
  BY DEF WrittenAll, WrittenPieces, p, q
<1> QED  BY <1>11, <1>12 DEF c, w

(* A single field written.                                                 *)
LEMMA WrittenAllOne ==
  ASSUME NEW S, NEW sep, Alphabet(S, sep), NEW x \in Pairs(S)
  PROVE  WrittenAll(<<x>>, sep) = Written(x.tag, x.value, sep)
<1> DEFINE none == <<>>
           w == Written(x.tag, x.value, sep)
<1>1. none \in Seq(Pairs(S)) /\ Append(none, x) = <<x>> /\ WrittenAll(none, sep) = none
  BY WrittenAllNothing
<1>2. w \in Seq(S)
  BY WrittenType DEF Pairs
<1>3. none \o w = w
  BY <1>2
<1> HIDE DEF none
<1>4. WrittenAll(Append(none, x), sep) = WrittenAll(none, sep) \o w
  <2> HIDE DEF w
  <2>1. none \in Seq(Pairs(S))
    BY <1>1
  <2> QED  BY <2>1, WrittenAllAppend DEF w
<1> QED  BY <1>1, <1>3, <1>4

(* Two lists of fields are written one after the other.                    *)
LEMMA WrittenAllConcat ==
  ASSUME NEW S, NEW sep, Alphabet(S, sep), NEW a \in Seq(Pairs(S)), NEW b \in Seq(Pairs(S))
  PROVE  WrittenAll(a \o b, sep) = WrittenAll(a, sep) \o WrittenAll(b, sep)
<1> DEFINE T == {c \in Seq(Pairs(S)) : WrittenAll(a \o c, sep) = WrittenAll(a, sep) \o WrittenAll(c, sep)}
<1>1. <<>> \in T
  <2>1. a \o <<>> = a /\ <<>> \in Seq(Pairs(S)) /\ WrittenAll(a, sep) \in Seq(S)
    BY WrittenAllType
  <2>2. WrittenAll(<<>>, sep) = <<>>
    BY WrittenAllNothing
  <2>3. WrittenAll(a, sep) \o <<>> = WrittenAll(a, sep)
    BY <2>1
  <2> QED  BY <2>1, <2>2, <2>3
<1>2. ASSUME NEW c \in Seq(Pairs(S)), NEW x \in Pairs(S), c \in T  PROVE Append(c, x) \in T
  <2> DEFINE w == Written(x.tag, x.value, sep)
             d == Append(c, x)
  <2>1. a \o d = Append(a \o c, x) /\ a \o c \in Seq(Pairs(S)) /\ d \in Seq(Pairs(S))
    OBVIOUS
  <2>2. WrittenAll(Append(a \o c, x), sep) = WrittenAll(a \o c, sep) \o w
    BY <2>1, WrittenAllAppend
  <2>3. WrittenAll(d, sep) = WrittenAll(c, sep) \o w
    BY WrittenAllAppend
  <2>4. WrittenAll(a, sep) \in Seq(S) /\ WrittenAll(c, sep) \in Seq(S) /\ w \in Seq(S)
    BY WrittenAllType, WrittenType DEF Pairs
  <2> HIDE DEF w, d
  <2>5. (WrittenAll(a, sep) \o WrittenAll(c, sep)) \o w = WrittenAll(a, sep) \o (WrittenAll(c, sep) \o w)
    BY <2>4, ConcatAssoc, SMTT(30)
  <2>6. WrittenAll(a \o d, sep) = WrittenAll(a, sep) \o WrittenAll(d, sep)
    BY <1>2, <2>1, <2>2, <2>3, <2>5
  <2> QED  BY <2>1, <2>6 DEF d
<1> HIDE DEF T
<1>3. b \in T
  BY <1>1, <1>2, SeqInduction
<1> QED  BY <1>3 DEF T

-----------------------------------------------------------------------------
(* The loop of parse                                                       *)

(* from_chars answers with an int, and has taken at least one byte and no  *)
(* more than there are if it has read one.                                 *)
LEMMA FromCharsType ==
  ASSUME NEW text
  PROVE  /\ FromChars(text).ok \in BOOLEAN
         /\ FromChars(text).ok => FromChars(text).value \in Ints
<1> DEFINE first == IF text # <<>> /\ text[1] = Minus THEN 2 ELSE 1
           last == Min({p \in first..Len(text) : text[p] \notin Digits}
                    \cup {Len(text) + 1}) - 1
           value == (IF first = 2 THEN -1 ELSE 1) * Magnitude(SubSeq(text, first, last))
<1>1. FromChars(text) = IF last < first \/ value \notin (-MaxInt - 1)..MaxInt
                        THEN [ok |-> FALSE]
                        ELSE [ok |-> TRUE, value |-> value, length |-> last]
  BY DEF FromChars
<1> HIDE DEF first, last, value
<1>2. CASE last < first \/ value \notin (-MaxInt - 1)..MaxInt
  <2>1. FromChars(text) = [ok |-> FALSE]
    BY <1>1, <1>2
  <2> QED  BY <2>1
<1>3. CASE ~(last < first \/ value \notin (-MaxInt - 1)..MaxInt)
  <2>1. FromChars(text) = [ok |-> TRUE, value |-> value, length |-> last] /\ value \in Ints
    BY <1>1, <1>3 DEF Ints
  <2> QED  BY <2>1
<1> QED  BY <1>2, <1>3
ReadFields == [tag : Ints, value : Seq(Int), from : Nat, next : Nat]
ScanErrors ==
  {"None", "Ok", "TooManyFields", "InvalidFormat", "InvalidBeginString", "MissingBodyLength"}
TurnSet(raw) == [error : ScanErrors, pos : 1..(Len(raw) + 1), fields : Seq(ReadFields)]

(* The loop of parse before its first turn.                                *)
FirstTurn == [error |-> "None", pos |-> 1, fields |-> <<>>]

(* Where the loop stands: between the start of the field and the end.      *)
LEMMA EndsAre ==
  ASSUME NEW raw \in Seq(Int), NEW sep, NEW here \in 1..(Len(raw) + 1)
  PROVE  /\ TagEnd(raw, here) \in here..(Len(raw) + 1)
         /\ ValueEnd(raw, sep, here) \in TagEnd(raw, here)..(Len(raw) + 1)
         /\ ValueEnd(raw, sep, here) <= Len(raw) /\ sep # Equals =>
              TagEnd(raw, here) < ValueEnd(raw, sep, here)
<1> DEFINE e == TagEnd(raw, here)
           v == ValueEnd(raw, sep, here)
<1>0. Len(raw) \in Nat
  OBVIOUS
<1>1. e \in here..(Len(raw) + 1) /\ (e <= Len(raw) => raw[e] = Equals)
  BY FindProps DEF TagEnd
<1>2. v = Find(raw, sep, e)
  BY DEF ValueEnd
<1> HIDE DEF e, v
<1>3. e \in 1..(Len(raw) + 1)
  BY <1>0, <1>1
<1>4. v \in e..(Len(raw) + 1) /\ (v <= Len(raw) => raw[v] = sep)
  BY <1>2, <1>3, FindProps
<1>5. v <= Len(raw) /\ sep # Equals => e < v
  BY <1>0, <1>1, <1>3, <1>4
<1> QED  BY <1>1, <1>4, <1>5 DEF e, v

(* A field that is read has an int for a tag and lies within the message.  *)
LEMMA FieldAtType ==
  ASSUME NEW raw \in Seq(Int), NEW sep, NEW here \in 1..(Len(raw) + 1),
         ValueEnd(raw, sep, here) <= Len(raw), IsTagAt(raw, here)
  PROVE  FieldAt(raw, sep, here) \in ReadFields
<1> DEFINE e == TagEnd(raw, here)
           v == ValueEnd(raw, sep, here)
<1>0. Len(raw) \in Nat
  OBVIOUS
<1>1. e \in here..(Len(raw) + 1) /\ v \in e..(Len(raw) + 1) /\ v <= Len(raw)
  BY EndsAre
<1>2. TagAt(raw, here).value \in Ints
  BY FromCharsType DEF IsTagAt, TagAt
<1>3. FieldAt(raw, sep, here) = [tag |-> TagAt(raw, here).value, value |-> SubSeq(raw, e + 1, v - 1),
                                from |-> here, next |-> v + 1]
  BY DEF FieldAt
<1> HIDE DEF e, v
<1>4. SubSeq(raw, e + 1, v - 1) \in Seq(Int)
  BY <1>0, <1>1
<1>5. here \in Nat /\ v + 1 \in Nat
  BY <1>0, <1>1
<1> QED  BY <1>2, <1>3, <1>4, <1>5 DEF ReadFields

(* A turn of the loop of parse keeps its variables in their types.         *)
LEMMA NextFieldType ==
  ASSUME NEW raw \in Seq(Int), NEW sep, NEW turn \in TurnSet(raw)
  PROVE  NextField(raw, sep, turn) \in TurnSet(raw)
<1> DEFINE here == turn.pos
           fields == turn.fields
           next == [turn EXCEPT !.pos = ValueEnd(raw, sep, here) + 1,
                                !.fields = Append(fields, FieldAt(raw, sep, here))]
<1>1. here \in 1..(Len(raw) + 1) /\ fields \in Seq(ReadFields) /\ Len(raw) \in Nat
  BY DEF TurnSet
<1>2. \A why \in ScanErrors : [turn EXCEPT !.error = why] \in TurnSet(raw)
  BY DEF TurnSet
<1>3. ASSUME ValueEnd(raw, sep, here) <= Len(raw), IsTagAt(raw, here)
      PROVE  next \in TurnSet(raw)
  <2>1. FieldAt(raw, sep, here) \in ReadFields
    BY <1>1, <1>3, FieldAtType
  <2>2. ValueEnd(raw, sep, here) + 1 \in 1..(Len(raw) + 1)
    BY <1>1, <1>3, EndsAre
  <2>3. Append(fields, FieldAt(raw, sep, here)) \in Seq(ReadFields)
    BY <1>1, <2>1
  <2> HIDE DEF here, fields
  <2> QED  BY <2>2, <2>3 DEF TurnSet
<1>4. ~(ValueEnd(raw, sep, here) > Len(raw)) => ValueEnd(raw, sep, here) <= Len(raw)
  BY <1>1, EndsAre
<1>5. {"Ok", "TooManyFields", "InvalidFormat", "InvalidBeginString", "MissingBodyLength"}
        \subseteq ScanErrors
  BY DEF ScanErrors
<1> HIDE DEF ScanErrors
<1> QED  BY <1>1, <1>2, <1>3, <1>4, <1>5 DEF NextField

(* The loop of parse (parser.cpp:36-98), turn by turn.                     *)
LEMMA TurnsDef ==
  ASSUME NEW raw \in Seq(Int), NEW sep
  PROVE  /\ Turns(raw, sep)[0] = FirstTurn
         /\ \A n \in 1..(Len(raw) + 1) : Turns(raw, sep)[n] = NextField(raw, sep, Turns(raw, sep)[n - 1])
<1> DEFINE N == Len(raw) + 1
           S == TurnSet(raw)
           F == [n \in Nat |-> [u \in S |-> NextField(raw, sep, u)]]
           Is(f) == f = [n \in 0..N |-> IF n = 0 THEN [error |-> "None", pos |-> 1, fields |-> <<>>]
                                        ELSE NextField(raw, sep, f[n - 1])]
<1>1. N \in Nat
  OBVIOUS
<1>2. F \in [Nat -> [S -> S]]
  <2> HIDE DEF S
  <2>1. \A u \in S : NextField(raw, sep, u) \in S
    BY NextFieldType DEF S
  <2> QED  BY <2>1
<1>3. FirstTurn \in S
  <2>1. "None" \in ScanErrors /\ 1 \in 1..(Len(raw) + 1) /\ <<>> \in Seq(ReadFields)
    BY DEF ScanErrors
  <2> QED  BY <2>1 DEF FirstTurn, TurnSet
<1>4. PICK g : Runs(g, S, FirstTurn, F, N)
  <2> HIDE DEF F, N, S
  <2> QED BY <1>1, <1>2, <1>3, Recursion
<1>5. g \in [0..N -> S] /\ g[0] = FirstTurn /\ \A n \in 1..N : g[n] = F[n][g[n - 1]]
  <2> HIDE DEF F, N, S
  <2> QED  BY <1>4 DEF Runs
<1>6. ASSUME NEW n \in 1..N  PROVE g[n] = NextField(raw, sep, g[n - 1])
  <2> HIDE DEF N, S
  <2>1. n \in Nat /\ n - 1 \in 0..N
    BY <1>1
  <2>2. g[n - 1] \in S
    BY <1>5, <2>1
  <2> QED  BY <1>5, <2>1, <2>2
<1> HIDE DEF F, S, N
<1>7. Is(g)
  <2>1. g = [n \in 0..N |-> g[n]]
    BY <1>5
  <2>2. ASSUME NEW n \in 0..N
        PROVE  g[n] = IF n = 0 THEN FirstTurn ELSE NextField(raw, sep, g[n - 1])
    BY <1>1, <1>5, <1>6
  <2>3. [n \in 0..N |-> g[n]] = [n \in 0..N |-> IF n = 0 THEN FirstTurn ELSE NextField(raw, sep, g[n - 1])]
    BY <2>2, Zenon
  <2> QED  BY <2>1, <2>3, Zenon DEF FirstTurn
<1>8. Turns(raw, sep) = CHOOSE f : Is(f)
  BY DEF Turns, N
<1>9. Is(Turns(raw, sep))
  <2> HIDE DEF Is
  <2> QED  BY <1>7, <1>8
<1>10. \A n \in 0..N : Turns(raw, sep)[n] = IF n = 0 THEN FirstTurn ELSE NextField(raw, sep, Turns(raw, sep)[n - 1])
  BY <1>9 DEF FirstTurn
<1>11. Turns(raw, sep)[0] = FirstTurn /\ \A n \in 1..N : Turns(raw, sep)[n] = NextField(raw, sep, Turns(raw, sep)[n - 1])
  <2>1. 0 \in 0..N /\ \A n \in 1..N : n \in 0..N /\ n # 0
    BY <1>1
  <2> QED  BY <1>10, <2>1
<1> QED  BY <1>11 DEF N

(* What every turn keeps holds after all of them.                          *)
LEMMA TurnInduction ==
  ASSUME NEW raw \in Seq(Int), NEW sep, NEW T, FirstTurn \in T,
         \A turn \in T : NextField(raw, sep, turn) \in T
  PROVE  \A n \in 0..(Len(raw) + 1) : Turns(raw, sep)[n] \in T
<1> DEFINE N == Len(raw) + 1
           t == Turns(raw, sep)
           U == {n \in Nat : n \in 0..N => t[n] \in T}
<1>1. N \in Nat /\ t[0] = FirstTurn /\ \A n \in 1..N : t[n] = NextField(raw, sep, t[n - 1])
  BY TurnsDef
<1> HIDE DEF N, t
<1>2. 0 \in U
  BY <1>1
<1>3. ASSUME NEW n \in Nat, n \in U  PROVE n + 1 \in U
  <2> SUFFICES ASSUME n + 1 \in 0..N  PROVE t[n + 1] \in T
    OBVIOUS
  <2>1. n + 1 \in 1..N /\ n \in 0..N /\ (n + 1) - 1 = n
    BY <1>1
  <2>2. t[n] \in T
    BY <1>3, <2>1
  <2>3. t[n + 1] = NextField(raw, sep, t[n])
    BY <1>1, <2>1
  <2> QED  BY <2>2, <2>3
<1> HIDE DEF U
<1>4. \A n \in Nat : n \in U
  BY <1>2, <1>3, Induction
<1> QED  BY <1>1, <1>4 DEF U, t, N

(* A turn of the loop that reads a field.                                  *)
Advances(raw, sep, turn, next) ==
  /\ turn.error = "None" /\ turn.pos <= Len(raw) /\ Len(turn.fields) # MAX_FIELDS
  /\ ValueEnd(raw, sep, turn.pos) <= Len(raw) /\ IsTagAt(raw, turn.pos)
  /\ turn.fields = <<>> => TagAt(raw, turn.pos).value = 8
  /\ Len(turn.fields) = 1 => TagAt(raw, turn.pos).value = 9
  /\ next.error = "None" /\ next.pos = ValueEnd(raw, sep, turn.pos) + 1
  /\ next.fields = Append(turn.fields, FieldAt(raw, sep, turn.pos))

(* Where the loop may end well.                                            *)
AtEnd(raw, sep, here) == here > Len(raw) \/ (TagEnd(raw, here) > Len(raw) /\ Trailing(raw, here, sep))

(* A turn does nothing once the loop has ended, or ends it, or reads a     *)
(* field (parser.cpp:36-98).                                               *)
LEMMA NextFieldCases ==
  ASSUME NEW raw \in Seq(Int), NEW sep, NEW turn \in TurnSet(raw)
  PROVE  \/ NextField(raw, sep, turn) = turn /\ turn.error # "None"
         \/ \E why \in ScanErrors \ {"None"} :
              /\ turn.error = "None"
              /\ NextField(raw, sep, turn) = [turn EXCEPT !.error = why]
              /\ why = "Ok" => AtEnd(raw, sep, turn.pos)
         \/ Advances(raw, sep, turn, NextField(raw, sep, turn))
<1> DEFINE here == turn.pos
           fields == turn.fields
           Stopped(why) == [turn EXCEPT !.error = why]
           v == ValueEnd(raw, sep, here)
           e == TagEnd(raw, here)
           tag == TagAt(raw, here).value
           next == [turn EXCEPT !.pos = v + 1, !.fields = Append(fields, FieldAt(raw, sep, here))]
           fld == Append(fields, FieldAt(raw, sep, here))
<1>1. here \in 1..(Len(raw) + 1) /\ fields \in Seq(ReadFields) /\ Len(raw) \in Nat
      /\ turn = [error |-> turn.error, pos |-> here, fields |-> fields]
  BY DEF TurnSet
<1>2. e \in Int /\ v \in Int
  BY <1>1, EndsAre
<1>3. /\ "Ok" \in ScanErrors \ {"None"} /\ "TooManyFields" \in ScanErrors \ {"None"}
      /\ "InvalidFormat" \in ScanErrors \ {"None"} /\ "InvalidBeginString" \in ScanErrors \ {"None"}
      /\ "MissingBodyLength" \in ScanErrors \ {"None"}
      /\ "TooManyFields" # "Ok" /\ "InvalidFormat" # "Ok" /\ "InvalidBeginString" # "Ok"
      /\ "MissingBodyLength" # "Ok"
  BY DEF ScanErrors
<1>4. NextField(raw, sep, turn) =
        IF turn.error # "None" THEN turn
        ELSE IF here > Len(raw) THEN Stopped("Ok")
        ELSE IF Full(fields) THEN Stopped("TooManyFields")
        ELSE IF e > Len(raw) /\ Trailing(raw, here, sep) THEN Stopped("Ok")
        ELSE IF v > Len(raw) \/ ~IsTagAt(raw, here) THEN Stopped("InvalidFormat")
        ELSE IF fields = <<>> /\ tag # 8 THEN Stopped("InvalidBeginString")
        ELSE IF Len(fields) = 1 /\ tag # 9 THEN Stopped("MissingBodyLength")
        ELSE next
  BY DEF NextField
<1>5. next.error = turn.error /\ next.pos = v + 1 /\ next.fields = fld
  <2>1. next = [turn EXCEPT !.pos = v + 1, !.fields = fld]
    OBVIOUS
  <2>2. \A a, b : [turn EXCEPT !.pos = a, !.fields = b].error = turn.error
               /\ [turn EXCEPT !.pos = a, !.fields = b].pos = a
               /\ [turn EXCEPT !.pos = a, !.fields = b].fields = b
    BY DEF TurnSet
  <2> HIDE DEF fld, v, next
  <2> QED  BY <2>1, <2>2
<1>6. Full(fields) <=> Len(fields) = MAX_FIELDS
  BY DEF Full
<1>7. AtEnd(raw, sep, turn.pos) <=> (here > Len(raw) \/ (e > Len(raw) /\ Trailing(raw, here, sep)))
  BY DEF AtEnd
<1>8. Advances(raw, sep, turn, next) <=>
        /\ turn.error = "None" /\ here <= Len(raw) /\ Len(fields) # MAX_FIELDS
        /\ v <= Len(raw) /\ IsTagAt(raw, here)
        /\ fields = <<>> => tag = 8
        /\ Len(fields) = 1 => tag = 9
        /\ next.error = "None" /\ next.pos = v + 1 /\ next.fields = fld
  BY DEF Advances
<1>0. here > Len(raw) => AtEnd(raw, sep, turn.pos)
  BY DEF AtEnd
<1> HIDE DEF here, fields, v, e, tag, next, fld, ScanErrors
<1>9. CASE turn.error # "None"
  BY <1>4, <1>9
<1>10. CASE turn.error = "None" /\ here > Len(raw)
  BY <1>0, <1>3, <1>4, <1>10
<1>11. CASE turn.error = "None" /\ ~(here > Len(raw)) /\ Full(fields)
  BY <1>3, <1>4, <1>11
<1>12. CASE turn.error = "None" /\ ~(here > Len(raw)) /\ ~Full(fields) /\ e > Len(raw) /\ Trailing(raw, here, sep)
  BY <1>3, <1>4, <1>7, <1>12
<1>13. CASE /\ turn.error = "None" /\ ~(here > Len(raw)) /\ ~Full(fields)
            /\ ~(e > Len(raw) /\ Trailing(raw, here, sep))
  <2>1. CASE v > Len(raw) \/ ~IsTagAt(raw, here)
    BY <1>3, <1>4, <1>13, <2>1
  <2>2. CASE ~(v > Len(raw) \/ ~IsTagAt(raw, here)) /\ fields = <<>> /\ tag # 8
    BY <1>3, <1>4, <1>13, <2>2
  <2>3. CASE /\ ~(v > Len(raw) \/ ~IsTagAt(raw, here)) /\ ~(fields = <<>> /\ tag # 8)
             /\ Len(fields) = 1 /\ tag # 9
    BY <1>3, <1>4, <1>13, <2>3
  <2>4. CASE /\ ~(v > Len(raw) \/ ~IsTagAt(raw, here)) /\ ~(fields = <<>> /\ tag # 8)
             /\ ~(Len(fields) = 1 /\ tag # 9)
    <3>1. NextField(raw, sep, turn) = next
      BY <1>4, <1>13, <2>4
    <3>2. here <= Len(raw) /\ v <= Len(raw)
      BY <1>1, <1>2, <1>13, <2>4
    <3>3. next.error = "None" /\ next.pos = v + 1 /\ next.fields = fld
      BY <1>5, <1>13
    <3>4. Advances(raw, sep, turn, next)
      BY <1>6, <1>8, <1>13, <2>4, <3>2, <3>3
    <3> QED  BY <3>1, <3>4
  <2> QED  BY <2>1, <2>2, <2>3, <2>4
<1> QED  BY <1>9, <1>10, <1>11, <1>12, <1>13

(* The loop reads at most MAX_FIELDS fields, the first two of them 8 and 9.*)
Shape(fields) ==
  /\ Len(fields) <= MAX_FIELDS
  /\ Len(fields) >= 1 => fields[1].tag = 8
  /\ Len(fields) >= 2 => fields[2].tag = 9

(* After n turns the loop is past n bytes, unless it has ended.            *)
LEMMA TurnShape ==
  ASSUME NEW raw \in Seq(Int), NEW sep
  PROVE  \A n \in 0..(Len(raw) + 1) :
           /\ Turns(raw, sep)[n] \in TurnSet(raw) /\ Shape(Turns(raw, sep)[n].fields)
           /\ Turns(raw, sep)[n].error = "None" => Turns(raw, sep)[n].pos > n
<1> DEFINE T == {turn \in TurnSet(raw) : Shape(turn.fields)}
<1>0. MAX_FIELDS \in Nat /\ Len(raw) \in Nat
  BY CodecAssumption
<1>1. FirstTurn \in T
  <2>1. FirstTurn \in TurnSet(raw)
    <3>1. "None" \in ScanErrors /\ 1 \in 1..(Len(raw) + 1) /\ <<>> \in Seq(ReadFields)
      BY DEF ScanErrors
    <3> QED  BY <3>1 DEF FirstTurn, TurnSet
  <2>2. Shape(<<>>)
    BY <1>0 DEF Shape
  <2> QED  BY <2>1, <2>2 DEF FirstTurn
<1>2. ASSUME NEW turn \in T  PROVE NextField(raw, sep, turn) \in T
  <2> DEFINE next == NextField(raw, sep, turn)
  <2>1. next \in TurnSet(raw)
    BY NextFieldType
  <2>2. turn.fields \in Seq(ReadFields) /\ turn.pos \in 1..(Len(raw) + 1) /\ Shape(turn.fields)
    BY DEF TurnSet
  <2>3. CASE next.fields = turn.fields
    BY <2>1, <2>2, <2>3
  <2>4. CASE Advances(raw, sep, turn, next)
    <3> DEFINE f == FieldAt(raw, sep, turn.pos)
               fs == turn.fields
    <3>1. f.tag = TagAt(raw, turn.pos).value /\ f \in ReadFields
      BY <2>2, <2>4, FieldAtType DEF FieldAt, Advances
    <3>2. next.fields = Append(fs, f) /\ Len(fs) # MAX_FIELDS
          /\ (fs = <<>> => f.tag = 8) /\ (Len(fs) = 1 => f.tag = 9)
      BY <2>4, <3>1 DEF Advances
    <3> HIDE DEF f, fs
    <3>3. fs \in Seq(ReadFields) /\ Shape(fs)
      BY <2>2 DEF fs
    <3>4. Shape(Append(fs, f))
      <4> HIDE DEF ReadFields
      <4>1. Len(Append(fs, f)) = Len(fs) + 1 /\ Append(fs, f)[Len(fs) + 1] = f
            /\ (\A i \in 1..Len(fs) : Append(fs, f)[i] = fs[i]) /\ Len(fs) \in Nat
        BY <3>1, <3>3
      <4> DEFINE n == Len(fs)
                 a == Append(fs, f)
      <4>2. n = 0 => fs = <<>>
        BY <3>3, EmptySeq
      <4>3. n \in Nat /\ n # MAX_FIELDS /\ (n = 0 => f.tag = 8) /\ (n = 1 => f.tag = 9)
            /\ Len(a) = n + 1 /\ a[n + 1] = f /\ (\A i \in 1..n : a[i] = fs[i])
        BY <3>2, <4>1, <4>2
      <4>4. n <= MAX_FIELDS /\ (n >= 1 => fs[1].tag = 8) /\ (n >= 2 => fs[2].tag = 9)
        BY <3>3 DEF Shape
      <4> HIDE DEF n, a
      <4>5. Len(a) <= MAX_FIELDS
        BY <1>0, <4>3, <4>4
      <4>6. a[1].tag = 8
        <5>1. CASE n = 0
          BY <4>3, <5>1
        <5>2. CASE n >= 1
          BY <4>3, <4>4, <5>2
        <5> QED  BY <4>3, <5>1, <5>2
      <4>7. n >= 1 => a[2].tag = 9
        <5>1. CASE n = 1
          BY <4>3, <5>1
        <5>2. CASE n >= 2
          BY <4>3, <4>4, <5>2
        <5> QED  BY <4>3, <5>1, <5>2
      <4>8. Shape(a)
        BY <4>3, <4>5, <4>6, <4>7 DEF Shape
      <4> QED  BY <4>8 DEF a
    <3> QED  BY <2>1, <3>2, <3>4
  <2>5. next.fields = turn.fields \/ Advances(raw, sep, turn, next)
    <3>1. \A why : [turn EXCEPT !.error = why].fields = turn.fields
      BY DEF TurnSet
    <3> HIDE DEF T
    <3>2. turn \in TurnSet(raw)
      BY DEF T
    <3> QED  BY <3>1, <3>2, NextFieldCases
  <2> QED  BY <2>3, <2>4, <2>5
<1>3. \A n \in 0..(Len(raw) + 1) : Turns(raw, sep)[n] \in T
  <2> HIDE DEF T
  <2> QED  BY <1>1, <1>2, TurnInduction
<1> DEFINE t == Turns(raw, sep)
           N == Len(raw) + 1
           U == {n \in Nat : n \in 0..N => (t[n].error = "None" => t[n].pos > n)}
<1>4. 0 \in U
  BY TurnsDef DEF FirstTurn
<1>5. ASSUME NEW n \in Nat, n \in U  PROVE n + 1 \in U
  <2> SUFFICES ASSUME n + 1 \in 0..N, t[n + 1].error = "None"  PROVE t[n + 1].pos > n + 1
    OBVIOUS
  <2>1. n + 1 \in 1..N /\ n \in 0..N /\ (n + 1) - 1 = n
    BY <1>0
  <2>2. t[n + 1] = NextField(raw, sep, t[n])
    BY <2>1, TurnsDef
  <2>3. t[n] \in TurnSet(raw)
    BY <1>3, <2>1
  <2> HIDE DEF t
  <2>4. Advances(raw, sep, t[n], t[n + 1])
    <3>1. \A why \in ScanErrors \ {"None"} : [t[n] EXCEPT !.error = why].error # "None"
      BY <2>3 DEF TurnSet
    <3> QED  BY <2>2, <2>3, <3>1, NextFieldCases
  <2>5. t[n].error = "None" /\ t[n + 1].pos = ValueEnd(raw, sep, t[n].pos) + 1
    BY <2>4 DEF Advances
  <2>6. t[n].pos \in 1..N
    BY <2>3 DEF TurnSet
  <2>7. ValueEnd(raw, sep, t[n].pos) \in Int /\ ValueEnd(raw, sep, t[n].pos) >= t[n].pos
    BY <1>0, <2>6, EndsAre
  <2>8. t[n].pos > n
    BY <1>5, <2>1, <2>5
  <2> QED  BY <2>5, <2>6, <2>7, <2>8
<1> HIDE DEF U
<1>6. \A n \in Nat : n \in U
  BY <1>4, <1>5, Induction
<1>7. \A n \in 0..N : t[n].error = "None" => t[n].pos > n
  BY <1>0, <1>6 DEF U
<1> QED  BY <1>3, <1>7

(* The loop ends before the turns are used up.                             *)
LEMMA LastTurnType ==
  ASSUME NEW raw \in Seq(Int), NEW sep
  PROVE  /\ LastTurn(raw, sep) \in TurnSet(raw) /\ Shape(LastTurn(raw, sep).fields)
         /\ LastTurn(raw, sep).error # "None"
<1> DEFINE n == Len(raw) + 1
           last == LastTurn(raw, sep)
<1>1. n \in 0..(Len(raw) + 1) /\ n \in Nat
  OBVIOUS
<1>2. last = Turns(raw, sep)[n]
  BY DEF LastTurn
<1> HIDE DEF last
<1>3. last \in TurnSet(raw) /\ Shape(last.fields) /\ (last.error = "None" => last.pos > n)
  <2> HIDE DEF n
  <2> QED  BY <1>1, <1>2, TurnShape
<1>4. last.pos \in 1..n
  BY <1>3 DEF TurnSet
<1> QED  BY <1>3, <1>4 DEF last

(* What parse may answer but for Ok.                                       *)
ParseErrors ==
  {"EmptyBuffer", "TooManyFields", "InvalidFormat", "InvalidBeginString", "MissingBodyLength",
   "MissingChecksum", "InvalidBodyLength", "BodyLengthMismatch", "InvalidChecksum",
   "ChecksumMismatch"}

-----------------------------------------------------------------------------
(* parse, whatever it is given                                             *)

(* What a message has that was parsed.                                     *)
WellFormed(raw, sep, fields) ==
  /\ raw # <<>> /\ LastTurn(raw, sep).error = "Ok" /\ fields = LastTurn(raw, sep).fields
  /\ Len(fields) >= 3 /\ Last(fields).tag = 10
  /\ HasInt(fields, 9) /\ GetInt(fields, 9) = BodyLength(fields)
  /\ FromChars(Last(fields).value).ok
  /\ FromChars(Last(fields).value).value = SumOf(Checked(raw, fields))

(* parse answers Ok if the loop ended well and its checks of length and    *)
(* checksum hold, and with an error otherwise (parser.cpp:100-151).        *)
LEMMA ParseIs ==
  ASSUME NEW raw \in Seq(Int), NEW sep
  PROVE  /\ WellFormed(raw, sep, LastTurn(raw, sep).fields)
              /\ FromChars(Last(LastTurn(raw, sep).fields).value).value \in 0..255
              => parse(raw, sep) = [error |-> "Ok", fields |-> LastTurn(raw, sep).fields]
         /\ \/ WellFormed(raw, sep, LastTurn(raw, sep).fields)
               /\ parse(raw, sep) = [error |-> "Ok", fields |-> LastTurn(raw, sep).fields]
            \/ \E why \in ParseErrors : parse(raw, sep) = Error(why)
<1> DEFINE loop == LastTurn(raw, sep)
           fields == loop.fields
           checksum == FromChars(Last(fields).value)
<1>1. loop \in TurnSet(raw) /\ loop.error # "None"
  BY LastTurnType
<1>2. loop.error # "Ok" => loop.error \in ParseErrors
  BY <1>1 DEF TurnSet, ScanErrors, ParseErrors
<1>3. parse(raw, sep) =
        IF raw = <<>> THEN Error("EmptyBuffer")
        ELSE IF loop.error # "Ok" THEN Error(loop.error)
        ELSE IF Len(fields) < 3 THEN Error("InvalidFormat")
        ELSE IF Last(fields).tag # 10 THEN Error("MissingChecksum")
        ELSE IF ~HasInt(fields, 9) THEN Error("InvalidBodyLength")
        ELSE IF GetInt(fields, 9) # BodyLength(fields) THEN Error("BodyLengthMismatch")
        ELSE IF ~checksum.ok \/ checksum.value \notin 0..255 THEN Error("InvalidChecksum")
        ELSE IF checksum.value # SumOf(Checked(raw, fields)) THEN Error("ChecksumMismatch")
        ELSE [error |-> "Ok", fields |-> fields]
  BY DEF parse
<1>4. /\ "EmptyBuffer" \in ParseErrors /\ "InvalidFormat" \in ParseErrors
      /\ "MissingChecksum" \in ParseErrors /\ "InvalidBodyLength" \in ParseErrors
      /\ "BodyLengthMismatch" \in ParseErrors /\ "InvalidChecksum" \in ParseErrors
      /\ "ChecksumMismatch" \in ParseErrors
  BY DEF ParseErrors
<1>5. WellFormed(raw, sep, fields) <=>
        /\ raw # <<>> /\ loop.error = "Ok"
        /\ Len(fields) >= 3 /\ Last(fields).tag = 10
        /\ HasInt(fields, 9) /\ GetInt(fields, 9) = BodyLength(fields)
        /\ checksum.ok
        /\ checksum.value = SumOf(Checked(raw, fields))
  BY DEF WellFormed
<1>6. Len(fields) \in Nat
  BY <1>1 DEF TurnSet
<1>7. ~(Len(fields) < 3) <=> Len(fields) >= 3
  BY <1>6
<1> DEFINE parsed == [error |-> "Ok", fields |-> fields]
<1> HIDE DEF loop, fields, checksum, ParseErrors, parsed
<1>8. CASE WellFormed(raw, sep, fields) /\ checksum.value \in 0..255
  BY <1>3, <1>5, <1>7, <1>8 DEF parsed, loop, fields, checksum
<1>9. CASE ~(WellFormed(raw, sep, fields) /\ checksum.value \in 0..255)
  <2>1. \E why \in ParseErrors : parse(raw, sep) = Error(why)
    <3>1. CASE raw = <<>>
      BY <1>3, <1>4, <3>1
    <3>2. CASE raw # <<>> /\ loop.error # "Ok"
      BY <1>2, <1>3, <3>2
    <3>3. CASE raw # <<>> /\ loop.error = "Ok" /\ ~(Len(fields) >= 3)
      BY <1>3, <1>4, <1>7, <3>3
    <3>4. CASE raw # <<>> /\ loop.error = "Ok" /\ Len(fields) >= 3
      BY <1>3, <1>4, <1>5, <1>7, <1>9, <3>4
    <3> QED  BY <3>1, <3>2, <3>3, <3>4
  <2> QED  BY <1>9, <2>1 DEF loop, fields, checksum
<1> QED  BY <1>8, <1>9

(* Whatever the bytes: parse answers with one of its errors or with at     *)
(* most MAX_FIELDS fields that lie one behind the other, begin with the    *)
(* tags 8 and 9, and whose length and checksum are right                   *)
(* (parser.cpp:26-152).                                                    *)
THEOREM ParseType ==
  ASSUME NEW raw \in Seq(Int), NEW sep
  PROVE  /\ parse(raw, sep).error \in ParseErrors \cup {"Ok"}
         /\ parse(raw, sep).fields \in Seq(ReadFields)
         /\ Len(parse(raw, sep).fields) <= MAX_FIELDS
         /\ parse(raw, sep).error = "Ok" =>
              /\ WellFormed(raw, sep, parse(raw, sep).fields)
              /\ Shape(parse(raw, sep).fields)
<1> DEFINE fields == LastTurn(raw, sep).fields
<1>1. fields \in Seq(ReadFields) /\ Shape(fields)
  BY LastTurnType DEF TurnSet
<1>2. MAX_FIELDS \in Nat
  BY CodecAssumption
<1> HIDE DEF fields
<1>3. CASE WellFormed(raw, sep, fields) /\ parse(raw, sep) = [error |-> "Ok", fields |-> fields]
  <2>1. Len(fields) <= MAX_FIELDS
    BY <1>1 DEF Shape
  <2> QED  BY <1>1, <1>3, <2>1
<1>4. ASSUME NEW why \in ParseErrors, parse(raw, sep) = Error(why)  PROVE /\ parse(raw, sep).error \in ParseErrors \cup {"Ok"}
         /\ parse(raw, sep).fields \in Seq(ReadFields)
         /\ Len(parse(raw, sep).fields) <= MAX_FIELDS
         /\ parse(raw, sep).error # "Ok"
  <2>1. why # "Ok"
    BY DEF ParseErrors
  <2>2. Error(why).error = why /\ Error(why).fields = <<>>
    BY DEF Error
  <2>3. <<>> \in Seq(ReadFields) /\ Len(<<>>) = 0
    OBVIOUS
  <2> QED  BY <1>2, <1>4, <2>1, <2>2, <2>3
<1>5. \/ WellFormed(raw, sep, fields) /\ parse(raw, sep) = [error |-> "Ok", fields |-> fields]
      \/ \E why \in ParseErrors : parse(raw, sep) = Error(why)
  BY ParseIs DEF fields
<1> QED  BY <1>3, <1>4, <1>5

-----------------------------------------------------------------------------
(* Scripts                                                                 *)

(* Max of numbers that have a bound is the largest of them.                *)
LEMMA MaxIsLargest ==
  ASSUME NEW n \in Nat, NEW T, T \subseteq 0..n, T # {}
  PROVE  Max(T) \in T /\ \A q \in T : Max(T) >= q
<1> DEFINE U == {n - p : p \in T}
<1>1. U \subseteq Nat /\ U # {}
  OBVIOUS
<1>2. PICK u \in U : \A q \in U : u <= q
  <2> HIDE DEF U
  <2> QED  BY <1>1, Smallest
<1>3. PICK p \in T : u = n - p
  BY <1>2
<1>4. \A q \in T : p >= q
  <2> SUFFICES ASSUME NEW q \in T  PROVE p >= q
    OBVIOUS
  <2>1. n - q \in U
    OBVIOUS
  <2> QED  BY <1>2, <1>3, <2>1
<1>5. \E x \in T : \A y \in T : x >= y
  BY <1>4
<1> QED  BY <1>5 DEF Max

(* The elements below one of a set, and those with k below them.           *)
Below(T, p) == {q \in T : q < p}

(* Of finitely many, finitely many are below p.                            *)
LEMMA BelowFinite ==
  ASSUME NEW T, T \subseteq Nat, IsFiniteSet(T), NEW p
  PROVE  IsFiniteSet(Below(T, p)) /\ Cardinality(Below(T, p)) \in Nat
         /\ Cardinality(Below(T, p)) <= Cardinality(T)
<1>1. Below(T, p) \in SUBSET T
  BY DEF Below
<1> QED  BY <1>1, FS_Subset, FS_CardinalityType

(* A set with one more element.                                            *)
LEMMA OneMore ==
  ASSUME NEW D, IsFiniteSet(D), NEW x, x \notin D, NEW E, E = D \cup {x}
  PROVE  IsFiniteSet(E) /\ Cardinality(E) = Cardinality(D) + 1
BY FS_AddElement, Zenon

(* As one goes up, one more is below.                                      *)
LEMMA BelowNext ==
  ASSUME NEW T, T \subseteq Nat, IsFiniteSet(T), NEW p \in T, NEW r \in T, p < r,
         \A q \in T : q < r => q <= p
  PROVE  Cardinality(Below(T, r)) = Cardinality(Below(T, p)) + 1
<1>0. p \in Nat /\ r \in Nat
  OBVIOUS
<1>1. Below(T, r) = Below(T, p) \cup {p} /\ p \notin Below(T, p)
  <2>1. \A q \in T : q < r <=> (q < p \/ q = p)
    <3> TAKE q \in T
    <3>1. q \in Nat /\ (q < r => q <= p)
      OBVIOUS
    <3> QED  BY <1>0, <3>1
  <2>2. ~(p < p)
    BY <1>0
  <2> QED  BY <2>1, <2>2 DEF Below
<1>2. IsFiniteSet(Below(T, p))
  BY BelowFinite
<1> HIDE DEF Below
<1> QED  BY <1>1, <1>2, OneMore, Zenon

(* The higher of two elements has more below it.                           *)
LEMMA BelowLess ==
  ASSUME NEW T, T \subseteq Nat, IsFiniteSet(T), NEW p \in T, NEW r \in T, p < r
  PROVE  Cardinality(Below(T, p)) < Cardinality(Below(T, r))
<1>0. p \in Nat /\ r \in Nat
  OBVIOUS
<1>1. Below(T, p) \cup {p} \in SUBSET Below(T, r) /\ p \notin Below(T, p)
  <2>1. \A q \in T : q < p => q < r
    <3> TAKE q \in T
    <3>1. q \in Nat
      OBVIOUS
    <3> QED  BY <1>0, <3>1
  <2>2. ~(p < p)
    BY <1>0
  <2> QED  BY <2>1, <2>2 DEF Below
<1>2. IsFiniteSet(Below(T, p)) /\ IsFiniteSet(Below(T, r)) /\ Cardinality(Below(T, p)) \in Nat
      /\ Cardinality(Below(T, r)) \in Nat
  BY BelowFinite
<1> HIDE DEF Below
<1>3. Cardinality(Below(T, p) \cup {p}) = Cardinality(Below(T, p)) + 1
  BY <1>1, <1>2, OneMore, Zenon
<1>4. Cardinality(Below(T, p) \cup {p}) <= Cardinality(Below(T, r))
  BY <1>1, <1>2, FS_Subset
<1> QED  BY <1>2, <1>3, <1>4

(* There is one of each rank.                                              *)
LEMMA Ranked ==
  ASSUME NEW T, T \subseteq Nat, IsFiniteSet(T)
  PROVE  \A k \in Nat : k < Cardinality(T) => \E p \in T : Cardinality(Below(T, p)) = k
<1> DEFINE U == {k \in Nat : k < Cardinality(T) => \E p \in T : Cardinality(Below(T, p)) = k}
<1>0. Cardinality(T) \in Nat /\ (T = {} => Cardinality(T) = 0)
  BY FS_CardinalityType, FS_EmptySet
<1>1. 0 \in U
  <2> SUFFICES ASSUME 0 < Cardinality(T)  PROVE \E p \in T : Cardinality(Below(T, p)) = 0
    OBVIOUS
  <2>1. T # {}
    BY <1>0
  <2>2. PICK p \in T : \A q \in T : p <= q
    BY <2>1, Smallest
  <2>3. Below(T, p) = {}
    <3>1. \A q \in T : ~(q < p)
      <4> TAKE q \in T
      <4>1. q \in Nat /\ p \in Nat /\ p <= q
        BY <2>2
      <4> QED  BY <4>1
    <3> QED  BY <3>1 DEF Below
  <2> QED  BY <2>3, FS_EmptySet
<1>2. ASSUME NEW k \in Nat, k \in U  PROVE k + 1 \in U
  <2> SUFFICES ASSUME k + 1 < Cardinality(T)  PROVE \E p \in T : Cardinality(Below(T, p)) = k + 1
    OBVIOUS
  <2>1. PICK p \in T : Cardinality(Below(T, p)) = k
    BY <1>0, <1>2
  <2> DEFINE A == {q \in T : p < q}
  <2>2. A # {}
    <3> SUFFICES ASSUME A = {}  PROVE FALSE
      OBVIOUS
    <3>1. T = Below(T, p) \cup {p} /\ p \notin Below(T, p)
      <4>1. \A q \in T : q < p \/ q = p
        <5> TAKE q \in T
        <5>1. q \in Nat /\ p \in Nat /\ ~(p < q)
          OBVIOUS
        <5> QED  BY <5>1
      <4>2. ~(p < p)
        OBVIOUS
      <4> QED  BY <4>1, <4>2 DEF Below
    <3>2. IsFiniteSet(Below(T, p))
      BY BelowFinite
    <3>4. Cardinality(T) = Cardinality(Below(T, p)) + 1
      BY <3>1, <3>2, OneMore, Zenon
    <3>5. Cardinality(T) = k + 1
      BY <2>1, <3>4
    <3> QED  BY <1>0, <3>5
  <2>3. A \subseteq Nat
    OBVIOUS
  <2>4. PICK r \in A : \A q \in A : r <= q
    <3> HIDE DEF A
    <3> QED  BY <2>2, <2>3, Smallest
  <2>5. r \in T /\ p < r /\ \A q \in T : q < r => q <= p
    <3>1. ASSUME NEW q \in T, q < r  PROVE q <= p
      <4>1. q \notin A
        BY <2>4, <3>1
      <4> QED  BY <4>1
    <3> QED  BY <3>1
  <2>6. Cardinality(Below(T, r)) = k + 1
    BY <2>1, <2>5, BelowNext
  <2> QED  BY <2>5, <2>6
<1> HIDE DEF U
<1>3. \A k \in Nat : k \in U
  BY <1>1, <1>2, Induction
<1> QED  BY <1>3 DEF U

(* trim takes a part of its text (scenario.cpp:21-26).                     *)
LEMMA TrimType ==
  ASSUME NEW S, NEW text \in Seq(S)
  PROVE  trim(text) \in Seq(S)
<1> DEFINE kept == {p \in DOMAIN text : text[p] \notin Blanks}
<1>1. DOMAIN text = 1..Len(text) /\ Len(text) \in Nat
  OBVIOUS
<1>2. CASE kept = {}
  <2>1. trim(text) = <<>>
    BY <1>2 DEF trim
  <2> QED  BY <2>1
<1>3. CASE kept # {}
  <2> DEFINE a == Min(kept)
             b == Max(kept)
  <2>1. trim(text) = SubSeq(text, a, b)
    BY <1>3 DEF trim
  <2>2. kept \subseteq 1..Len(text)
    BY <1>1
  <2>3. a \in 1..Len(text)
    <3> HIDE DEF kept
    <3>1. kept \subseteq Nat
      BY <2>2
    <3>2. a \in kept
      BY <1>3, <3>1, MinIsSmallest
    <3> QED  BY <2>2, <3>2
  <2>4. b \in 1..Len(text)
    <3> HIDE DEF kept
    <3>1. kept \subseteq 0..Len(text)
      BY <1>1, <2>2
    <3>2. b \in kept
      BY <1>1, <1>3, <3>1, MaxIsLargest
    <3> QED  BY <2>2, <3>2
  <2> HIDE DEF a, b
  <2>5. \A i \in a..b : text[i] \in S
    BY <1>1, <2>3, <2>4
  <2>6. a \in Int /\ b \in Int
    BY <2>3, <2>4
  <2> QED  BY <2>1, <2>5, <2>6, SubSeqProperties
<1> QED  BY <1>2, <1>3

(* The pieces have what the text has at other places than the cuts.        *)
LEMMA PiecesType ==
  ASSUME NEW S, NEW text \in Seq(S), NEW cuts, cuts \subseteq 1..Len(text),
         NEW D, \A p \in 1..Len(text) : p \notin cuts => text[p] \in D
  PROVE  Pieces(text, cuts) \in Seq(Seq(D))
<1> DEFINE L == Len(text)
           bounds == cuts \cup {0, L + 1}
           Cut(k) == CHOOSE p \in bounds : Cardinality({q \in bounds : q < p}) = k
           n == Cardinality(bounds) - 1
<1>0. L \in Nat
  OBVIOUS
<1>1. bounds \subseteq Nat /\ bounds \subseteq 0..(L + 1) /\ 0 \in bounds
  <2>1. \A p \in cuts : p \in Nat /\ p \in 0..(L + 1)
    <3> TAKE p \in cuts
    <3>1. p \in 1..L
      OBVIOUS
    <3> HIDE DEF L
    <3> QED  BY <1>0, <3>1
  <2> HIDE DEF L
  <2>2. 0 \in Nat /\ L + 1 \in Nat /\ 0 \in 0..(L + 1) /\ L + 1 \in 0..(L + 1)
    BY <1>0
  <2> QED  BY <2>1, <2>2
<1>2. IsFiniteSet(bounds)
  <2>1. bounds \in SUBSET (0..(L + 1)) /\ 0 \in Int /\ L + 1 \in Int
    BY <1>0, <1>1
  <2>2. IsFiniteSet(0..(L + 1))
    BY <2>1, FS_Interval
  <2> HIDE DEF bounds
  <2> QED  BY <2>1, <2>2, FS_Subset
<1>3. Cardinality(bounds) \in Nat /\ Cardinality(bounds) # 0
  <2> HIDE DEF bounds
  <2> QED  BY <1>1, <1>2, FS_CardinalityType, FS_EmptySet
<1>4. \A k \in Nat : k < Cardinality(bounds) =>
        Cut(k) \in bounds /\ Cardinality(Below(bounds, Cut(k))) = k
  <2> SUFFICES ASSUME NEW k \in Nat, k < Cardinality(bounds)
               PROVE  Cut(k) \in bounds /\ Cardinality(Below(bounds, Cut(k))) = k
    OBVIOUS
  <2> HIDE DEF bounds
  <2>1. \E p \in bounds : Cardinality(Below(bounds, p)) = k
    BY <1>1, <1>2, Ranked
  <2>2. \E p \in bounds : Cardinality({q \in bounds : q < p}) = k
    BY <2>1 DEF Below
  <2>3. Cut(k) \in bounds /\ Cardinality({q \in bounds : q < Cut(k)}) = k
    BY <2>2
  <2> QED  BY <2>3 DEF Below
<1> HIDE DEF Cut
<1>5. ASSUME NEW k \in 1..n
      PROVE  SubSeq(text, Cut(k - 1) + 1, Cut(k) - 1) \in Seq(D)
  <2> DEFINE a == Cut(k - 1)
             b == Cut(k)
  <2>1. k - 1 \in Nat /\ k \in Nat /\ k - 1 < Cardinality(bounds) /\ k < Cardinality(bounds)
    BY <1>3
  <2>2. a \in bounds /\ Cardinality(Below(bounds, a)) = k - 1
        /\ b \in bounds /\ Cardinality(Below(bounds, b)) = k
    <3> HIDE DEF bounds
    <3> QED  BY <1>4, <2>1
  <2> HIDE DEF a, b
  <2>3. a \in 0..(L + 1) /\ b \in 0..(L + 1)
    BY <1>1, <2>2
  <2>4. ASSUME NEW i \in (a + 1)..(b - 1)  PROVE text[i] \in D
    <3>1. i \in 1..L /\ a < i /\ i < b /\ i \in Nat
      BY <1>0, <2>3
    <3>2. i \notin bounds
      <4> HIDE DEF bounds
      <4> SUFFICES ASSUME i \in bounds  PROVE FALSE
        OBVIOUS
      <4>1. Cardinality(Below(bounds, a)) < Cardinality(Below(bounds, i))
        BY <1>1, <1>2, <2>2, <3>1, BelowLess
      <4>2. Cardinality(Below(bounds, i)) < Cardinality(Below(bounds, b))
        BY <1>1, <1>2, <2>2, <3>1, BelowLess
      <4>3. Cardinality(Below(bounds, i)) \in Nat
        BY <1>1, <1>2, BelowFinite
      <4> QED  BY <2>1, <2>2, <4>1, <4>2, <4>3
    <3> QED  BY <3>1, <3>2
  <2>5. a + 1 \in Int /\ b - 1 \in Int
    BY <2>3
  <2>6. SubSeq(text, a + 1, b - 1) \in Seq(D)
    BY <2>4, <2>5, SubSeqProperties
  <2> QED  BY <2>6 DEF a, b
<1>6. Pieces(text, cuts) = [k \in 1..n |-> SubSeq(text, Cut(k - 1) + 1, Cut(k) - 1)]
  BY DEF Pieces, Cut
<1>7. n \in Nat
  BY <1>3
<1> HIDE DEF n, bounds
<1> QED  BY <1>5, <1>6, <1>7

(* Those of the texts that are of use.                                     *)
LEMMA KeptType ==
  ASSUME NEW S, NEW texts \in Seq(S), NEW U
  PROVE  FlattenSeq([i \in DOMAIN texts |-> IF i \in U THEN <<texts[i]>> ELSE <<>>]) \in Seq(S)
<1> DEFINE f == [i \in DOMAIN texts |-> IF i \in U THEN <<texts[i]>> ELSE <<>>]
           n == Len(texts)
<1>1. DOMAIN texts = 1..n /\ n \in Nat
  OBVIOUS
<1>2. \A i \in 1..n : (IF i \in U THEN <<texts[i]>> ELSE <<>>) \in Seq(S)
  OBVIOUS
<1>3. f = [i \in 1..n |-> IF i \in U THEN <<texts[i]>> ELSE <<>>]
  BY <1>1
<1> HIDE DEF f, n
<1>4. f \in Seq(Seq(S))
  BY <1>1, <1>2, <1>3
<1>5. FlattenSeq(f) \in Seq(S)
  BY <1>4, FlattenType
<1> QED  BY <1>5 DEF f

(* So it does with each of some texts.                                     *)
LEMMA TrimmedType ==
  ASSUME NEW S, NEW texts \in Seq(Seq(S))
  PROVE  Trimmed(texts) \in Seq(Seq(S))
<1>1. DOMAIN texts = 1..Len(texts) /\ Len(texts) \in Nat
  OBVIOUS
<1>2. \A i \in 1..Len(texts) : trim(texts[i]) \in Seq(S)
  BY TrimType
<1>3. Trimmed(texts) = [i \in 1..Len(texts) |-> trim(texts[i])]
  BY <1>1 DEF Trimmed
<1> QED  BY <1>1, <1>2, <1>3

(* No token has a '|' in it.                                               *)
LEMMA TokensType ==
  ASSUME NEW S, NEW args \in Seq(S)
  PROVE  Tokens(args) \in Seq(Seq(S \ {Pipe}))
<1> DEFINE D == S \ {Pipe}
           t == Trimmed(Pieces(args, FieldEnds(args)))
           U == {i \in DOMAIN t : t[i] # <<>>}
<1>1. FieldEnds(args) \subseteq 1..Len(args)
  BY DEF FieldEnds
<1>2. \A p \in 1..Len(args) : p \notin FieldEnds(args) => args[p] \in D
  BY DEF FieldEnds
<1> HIDE DEF D
<1>3. Pieces(args, FieldEnds(args)) \in Seq(Seq(D))
  BY <1>1, <1>2, PiecesType
<1>4. t \in Seq(Seq(D))
  BY <1>3, TrimmedType
<1>5. Tokens(args) = FlattenSeq([i \in DOMAIN t |-> IF t[i] # <<>> THEN <<t[i]>> ELSE <<>>])
  BY DEF Tokens, Kept
<1> HIDE DEF t
<1>6. [i \in DOMAIN t |-> IF t[i] # <<>> THEN <<t[i]>> ELSE <<>>]
        = [i \in DOMAIN t |-> IF i \in U THEN <<t[i]>> ELSE <<>>]
  OBVIOUS
<1> HIDE DEF U
<1>7. Tokens(args) \in Seq(Seq(D))
  BY <1>4, <1>5, <1>6, KeptType
<1> QED  BY <1>7 DEF D

(* The lines of a script are texts over its bytes (scenario.cpp:89-101).   *)
LEMMA LinesType ==
  ASSUME NEW S, NEW dsl \in Seq(S)
  PROVE  Lines(dsl) \in Seq(Seq(S))
<1> DEFINE cuts == {p \in DOMAIN dsl : dsl[p] = LineFeed}
           t == Trimmed(Pieces(dsl, cuts))
           U == {i \in DOMAIN t : t[i] # <<>> /\ t[i][1] # Hash}
<1>1. cuts \subseteq 1..Len(dsl)
  OBVIOUS
<1>2. \A p \in 1..Len(dsl) : p \notin cuts => dsl[p] \in S
  OBVIOUS
<1>5. Lines(dsl) = FlattenSeq([i \in DOMAIN t |-> IF t[i] # <<>> /\ t[i][1] # Hash THEN <<t[i]>> ELSE <<>>])
  BY DEF Lines, Kept
<1> HIDE DEF cuts
<1>3. Pieces(dsl, cuts) \in Seq(Seq(S))
  BY <1>1, <1>2, PiecesType
<1>4. t \in Seq(Seq(S))
  BY <1>3, TrimmedType
<1> HIDE DEF t
<1>6. [i \in DOMAIN t |-> IF t[i] # <<>> /\ t[i][1] # Hash THEN <<t[i]>> ELSE <<>>]
        = [i \in DOMAIN t |-> IF i \in U THEN <<t[i]>> ELSE <<>>]
  OBVIOUS
<1> HIDE DEF U
<1>7. FlattenSeq([i \in DOMAIN t |-> IF i \in U THEN <<t[i]>> ELSE <<>>]) \in Seq(Seq(S))
  BY <1>4, KeptType
<1> QED  BY <1>5, <1>6, <1>7

(* The steps that parse_dsl may return.                                    *)
StepSet(S) == [type : DOMAIN Keyword, fields : Seq(Pairs(S \ {Pipe}))]

(* The field a token stands for (scenario.cpp:141-156).                    *)
LEMMA FieldOfType ==
  ASSUME NEW T, T \subseteq Int, NEW token \in Seq(T), FieldIn(token)
  PROVE  FieldOf(token) \in Pairs(T)
<1> DEFINE e == Find(token, Equals, 1)
           v == SubSeq(token, e + 1, Len(token))
<1>1. Len(token) \in Nat /\ token \in Seq(Int)
  <2>1. token \in Seq(Int)
    BY SeqMonotonic
  <2> QED  BY <2>1
<1>2. e \in 1..(Len(token) + 1)
  BY <1>1, FindProps
<1>3. FromChars(TagText(token)).value \in Ints
  BY FromCharsType DEF FieldIn
<1>4. Value(token) = trim(v)
  BY DEF Value
<1>5. v \in Seq(T)
  <2> HIDE DEF e
  <2>1. e + 1 \in Int /\ Len(token) \in Int /\ \A i \in (e + 1)..Len(token) : token[i] \in T
    BY <1>1, <1>2
  <2> QED  BY <2>1, SubSeqProperties
<1> HIDE DEF v
<1>6. Value(token) \in Seq(T)
  BY <1>4, <1>5, TrimType
<1> QED  BY <1>3, <1>6 DEF FieldOf, Pairs

(* What a line has behind its keyword is a part of it.                     *)
LEMMA ArgumentsType ==
  ASSUME NEW S, NEW line \in Seq(S)
  PROVE  Arguments(line) \in Seq(S)
<1> DEFINE at == {p \in DOMAIN line : line[p] \in {Space, Tab}} \cup {Len(line) + 1}
           c == Command(line)
           v == SubSeq(line, Len(c) + 1, Len(line))
<1>1. Len(line) \in Nat
  OBVIOUS
<1>2. Min(at) \in 1..(Len(line) + 1)
  <2>1. at \subseteq 1..(Len(line) + 1) /\ at # {}
    BY <1>1
  <2> HIDE DEF at
  <2>2. at \subseteq Nat
    BY <1>1, <2>1
  <2> QED  BY <2>1, <2>2, MinIsSmallest
<1>3. c = SubSeq(line, 1, Min(at) - 1)
  BY DEF Command
<1> HIDE DEF at, c
<1>4. Len(c) \in Nat
  BY <1>1, <1>2, <1>3
<1>5. v \in Seq(S)
  <2>1. Len(c) + 1 \in Int /\ Len(line) \in Int /\ \A i \in (Len(c) + 1)..Len(line) : line[i] \in S
    BY <1>1, <1>4
  <2> QED  BY <2>1, SubSeqProperties
<1>6. Arguments(line) = trim(v)
  BY DEF Arguments, c
<1> HIDE DEF v
<1> QED  BY <1>5, <1>6, TrimType

(* The step a line stands for (scenario.cpp:103-162).                      *)
LEMMA StepOfType ==
  ASSUME NEW S, S \subseteq Int, NEW line \in Seq(S), StepIn(line)
  PROVE  StepOf(line) \in StepSet(S)
<1> DEFINE tokens == Tokens(Arguments(line))
           T == S \ {Pipe}
           type == CHOOSE type \in DOMAIN Keyword : Keyword[type] = Command(line)
           fields == [i \in DOMAIN tokens |-> FieldOf(tokens[i])]
<1>1. tokens \in Seq(Seq(T))
  BY ArgumentsType, TokensType
<1>2. type \in DOMAIN Keyword
  BY DEF StepIn
<1>3. \A i \in DOMAIN tokens : FieldIn(tokens[i])
  BY DEF StepIn
<1>4. StepOf(line) = [type |-> type, fields |-> fields]
  BY DEF StepOf
<1>7. T \subseteq Int
  OBVIOUS
<1> HIDE DEF tokens, T, type
<1>5. DOMAIN tokens = 1..Len(tokens) /\ Len(tokens) \in Nat
  BY <1>1
<1>6. \A i \in 1..Len(tokens) : FieldOf(tokens[i]) \in Pairs(T)
  <2> TAKE i \in 1..Len(tokens)
  <2>0. tokens[i] \in Seq(T)
    BY <1>1
  <2>1. tokens[i] \in Seq(T) /\ FieldIn(tokens[i])
    BY <1>3, <1>5, <2>0
  <2> QED  BY <1>7, <2>1, FieldOfType
<1>8. fields \in Seq(Pairs(T))
  <2>1. fields = [i \in 1..Len(tokens) |-> FieldOf(tokens[i])]
    BY <1>5
  <2> HIDE DEF fields
  <2> QED  BY <1>5, <1>6, <2>1
<1> HIDE DEF fields
<1> QED  BY <1>2, <1>4, <1>8 DEF StepSet, T

(* Whatever the script: parse_dsl answers with steps whose fields have     *)
(* int tags and values without a '|', and with no steps at all if it       *)
(* fails. (scenario.cpp:84-166)                                            *)
THEOREM ParseDslType ==
  ASSUME NEW S, S \subseteq Int, NEW dsl \in Seq(S)
  PROVE  /\ parse_dsl(dsl).ok \in BOOLEAN
         /\ parse_dsl(dsl).steps \in Seq(StepSet(S))
         /\ ~parse_dsl(dsl).ok => parse_dsl(dsl).steps = <<>>
<1> DEFINE lines == Lines(dsl)
           each == [i \in DOMAIN lines |-> StepOf(lines[i])]
<1>1. lines \in Seq(Seq(S))
  BY LinesType
<1>2. parse_dsl(dsl) = IF \A i \in DOMAIN lines : StepIn(lines[i])
                       THEN [ok |-> TRUE, steps |-> each]
                       ELSE [ok |-> FALSE, steps |-> <<>>]
  BY DEF parse_dsl
<1> HIDE DEF lines
<1>3. CASE \A i \in DOMAIN lines : StepIn(lines[i])
  <2>1. DOMAIN lines = 1..Len(lines) /\ Len(lines) \in Nat
    BY <1>1
  <2>2. \A i \in 1..Len(lines) : StepOf(lines[i]) \in StepSet(S)
    <3> TAKE i \in 1..Len(lines)
    <3>1. lines[i] \in Seq(S) /\ StepIn(lines[i])
      BY <1>1, <1>3, <2>1, SMTT(30)
    <3> QED  BY <3>1, StepOfType
  <2>3. each = [i \in 1..Len(lines) |-> StepOf(lines[i])]
    BY <2>1
  <2> HIDE DEF each
  <2>4. each \in Seq(StepSet(S))
    BY <2>1, <2>2, <2>3
  <2>5. parse_dsl(dsl) = [ok |-> TRUE, steps |-> each]
    BY <1>2, <1>3
  <2> QED  BY <2>4, <2>5
<1>4. CASE ~(\A i \in DOMAIN lines : StepIn(lines[i]))
  <2>1. parse_dsl(dsl) = [ok |-> FALSE, steps |-> <<>>]
    BY <1>2, <1>4
  <2>2. <<>> \in Seq(StepSet(S))
    OBVIOUS
  <2> QED  BY <2>1, <2>2
<1> QED  BY <1>3, <1>4

-----------------------------------------------------------------------------
(* serialize_message                                                       *)

(* A number that is not negative is written by its digits alone.           *)
LEMMA ToCharsOfNat ==
  ASSUME NEW n \in Nat
  PROVE  ToChars(n) = Decimal[n] /\ ToChars(n) \in Seq(Digits) /\ ToChars(n) # <<>>
         /\ Len(ToChars(n)) \in Nat \ {0}
<1>1. ToChars(n) = Decimal[n]
  BY DEF ToChars
<1> HIDE DEF Digits
<1>2. Decimal[n] \in Seq(Digits) /\ Decimal[n] # <<>>
  BY DecimalDef
<1>3. Len(Decimal[n]) \in Nat \ {0}
  BY <1>2, EmptySeq
<1> QED  BY <1>1, <1>2, <1>3

(* A checksum is in 0..255.                                                *)
LEMMA SumOfType ==
  ASSUME NEW text \in Seq(Int)
  PROVE  SumOf(text) \in 0..255 /\ Total(text) \in Int
<1>1. Len(text) \in 0..Len(text)
  OBVIOUS
<1>2. Total(text) \in Int
  <2>1. Sums(text) \in [0..Len(text) -> Int]
    BY SumsDef
  <2>2. Sums(text)[Len(text)] \in Int
    BY <1>1, <2>1
  <2> QED  BY <2>2 DEF Total
<1>3. \A s \in Int : s % 256 \in 0..255
  OBVIOUS
<1> QED  BY <1>2, <1>3 DEF SumOf

(* A concatenation can be cut where it was joined.                         *)
LEMMA SplitAt ==
  ASSUME NEW S, NEW a \in Seq(S), NEW b \in Seq(S)
  PROVE  /\ SubSeq(a \o b, 1, Len(a)) = a
         /\ SubSeq(a \o b, Len(a) + 1, Len(a \o b)) = b
<1> DEFINE c == a \o b
           x == SubSeq(c, 1, Len(a))
           y == SubSeq(c, Len(a) + 1, Len(c))
<1>1. c \in Seq(S) /\ Len(c) = Len(a) + Len(b) /\ Len(a) \in Nat /\ Len(b) \in Nat
      /\ (\A i \in 1..Len(a) : c[i] = a[i]) /\ (\A i \in 1..Len(b) : c[Len(a) + i] = b[i])
  OBVIOUS
<1> HIDE DEF c
<1>2. x \in Seq(S) /\ Len(x) = Len(a) /\ \A i \in 1..Len(a) : x[i] = c[i]
  <2>1. 1 \in Int /\ Len(a) \in Int /\ \A i \in 1..Len(a) : c[i] \in S
    BY <1>1
  <2>2. /\ x \in Seq(S) /\ Len(x) = (IF 1 <= Len(a) THEN Len(a) - 1 + 1 ELSE 0)
        /\ \A i \in 1..(Len(a) - 1 + 1) : x[i] = c[1 + i - 1]
    BY <2>1, SubSeqProperties
  <2> HIDE DEF x
  <2>3. \A i \in 1..Len(a) : 1 + i - 1 = i
    BY <1>1
  <2>4. Len(a) - 1 + 1 = Len(a)
    BY <1>1
  <2> QED  BY <1>1, <2>2, <2>3, <2>4
<1>3. y \in Seq(S) /\ Len(y) = Len(b) /\ \A i \in 1..Len(b) : y[i] = c[Len(a) + i]
  <2> DEFINE m == Len(a) + 1
             n == Len(c)
  <2>1. m \in Int /\ n \in Int /\ \A i \in m..n : c[i] \in S
    BY <1>1
  <2>2. n - m + 1 = Len(b) /\ (m <= n <=> Len(b) # 0) /\ (\A i \in 1..Len(b) : m + i - 1 = Len(a) + i)
    BY <1>1
  <2> HIDE DEF m, n
  <2>3. /\ SubSeq(c, m, n) \in Seq(S) /\ Len(SubSeq(c, m, n)) = (IF m <= n THEN n - m + 1 ELSE 0)
        /\ \A i \in 1..(n - m + 1) : SubSeq(c, m, n)[i] = c[m + i - 1]
    BY <2>1, SubSeqProperties
  <2>4. SubSeq(c, m, n) \in Seq(S) /\ Len(SubSeq(c, m, n)) = Len(b)
        /\ \A i \in 1..Len(b) : SubSeq(c, m, n)[i] = c[Len(a) + i]
    BY <1>1, <2>2, <2>3
  <2> QED  BY <2>4 DEF m, n
<1> HIDE DEF x, y
<1>4. x = a
  BY <1>1, <1>2, SeqEqual
<1>5. y = b
  BY <1>1, <1>3, SeqEqual
<1> QED  BY <1>4, <1>5 DEF x, y, c

(* The parts of a serialized message.                                      *)
Begun(fields, sep) == Written(8, fields[1].value, sep)
Body(fields, sep) == WrittenAll(Without(Tail(fields), Generated), sep)
Sized(fields, sep) == Written(9, ToChars(Len(Body(fields, sep))), sep)
Summed(fields, sep) == (Begun(fields, sep) \o Sized(fields, sep)) \o Body(fields, sep)
Trailer(fields, sep) == Written(10, ThreeDigits(SumOf(Summed(fields, sep))), sep)
Whole(fields, sep) == Summed(fields, sep) \o Trailer(fields, sep)

(* The tags that serialize_message writes itself.                          *)
LEMMA SmallTags ==
  /\ ToChars(8) = <<56>> /\ ToChars(9) = <<57>> /\ ToChars(10) = <<49, 48>>
  /\ 8 \in Ints /\ 9 \in Ints /\ 10 \in Ints
<1>1. ToChars(8) = <<56>> /\ ToChars(9) = <<57>> /\ Decimal[1] = <<49>> /\ ToChars(10) = Append(Decimal[1], 48)
  <2>1. ToChars(8) = Decimal[8] /\ ToChars(9) = Decimal[9] /\ ToChars(10) = Decimal[10]
    BY ToCharsOfNat
  <2>2. Decimal[1] = <<49>> /\ Decimal[8] = <<56>> /\ Decimal[9] = <<57>>
    <3>1. 1 \in Nat /\ 8 \in Nat /\ 9 \in Nat
      OBVIOUS
    <3>2. Decimal[1] = IF 1 < 10 THEN <<48 + 1>> ELSE Append(Decimal[1 \div 10], 48 + (1 % 10))
      BY <3>1, DecimalDef
    <3>3. Decimal[8] = IF 8 < 10 THEN <<48 + 8>> ELSE Append(Decimal[8 \div 10], 48 + (8 % 10))
      BY <3>1, DecimalDef
    <3>4. Decimal[9] = IF 9 < 10 THEN <<48 + 9>> ELSE Append(Decimal[9 \div 10], 48 + (9 % 10))
      BY <3>1, DecimalDef
    <3> QED  BY <3>2, <3>3, <3>4
  <2>3. Decimal[10] = Append(Decimal[1], 48)
    <3>1. 10 \in Nat /\ ~(10 < 10) /\ 10 \div 10 = 1 /\ 48 + (10 % 10) = 48
      OBVIOUS
    <3>2. Decimal[10] = IF 10 < 10 THEN <<48 + 10>> ELSE Append(Decimal[10 \div 10], 48 + (10 % 10))
      BY <3>1, DecimalDef
    <3> QED  BY <3>1, <3>2
  <2> QED  BY <2>1, <2>2, <2>3
<1>2. ToChars(10) = <<49, 48>>
  BY <1>1
<1>3. 8 \in Ints /\ 9 \in Ints /\ 10 \in Ints
  BY CodecAssumption DEF Ints
<1> QED  BY <1>1, <1>2, <1>3

(* The fields that serialize_message writes itself.                        *)
LEMMA WrittenSmall ==
  ASSUME NEW S, NEW sep, Alphabet(S, sep), NEW v \in Seq(S)
  PROVE  /\ Written(8, v, sep) \in Seq(S) /\ Len(Written(8, v, sep)) = Len(v) + 3
         /\ Written(9, v, sep) \in Seq(S) /\ Len(Written(9, v, sep)) = Len(v) + 3
         /\ Written(10, v, sep) \in Seq(S) /\ Len(Written(10, v, sep)) = Len(v) + 4
<1>1. ASSUME NEW t \in Ints, NEW k \in Nat, Len(ToChars(t)) = k
      PROVE  Written(t, v, sep) \in Seq(S) /\ Len(Written(t, v, sep)) = Len(v) + k + 2
  <2>1. Written(t, v, sep) \in Seq(S) /\ Len(Written(t, v, sep)) = Len(ToChars(t)) + Len(v) + 2
    BY WrittenType
  <2>2. Len(v) \in Nat
    OBVIOUS
  <2> DEFINE l == Len(v)
  <2>3. k + l + 2 = l + k + 2
    BY <2>2
  <2> QED  BY <1>1, <2>1, <2>3
<1>2. 8 \in Ints /\ 9 \in Ints /\ 10 \in Ints
      /\ Len(ToChars(8)) = 1 /\ Len(ToChars(9)) = 1 /\ Len(ToChars(10)) = 2
  BY SmallTags
<1>3. Written(8, v, sep) \in Seq(S) /\ Len(Written(8, v, sep)) = Len(v) + 1 + 2
  BY <1>1, <1>2
<1>4. Written(9, v, sep) \in Seq(S) /\ Len(Written(9, v, sep)) = Len(v) + 1 + 2
  BY <1>1, <1>2
<1>5. Written(10, v, sep) \in Seq(S) /\ Len(Written(10, v, sep)) = Len(v) + 2 + 2
  BY <1>1, <1>2
<1>6. Len(v) \in Nat
  OBVIOUS
<1> DEFINE l == Len(v)
<1>7. l + 1 + 2 = l + 3 /\ l + 2 + 2 = l + 4
  BY <1>6
<1> QED  BY <1>3, <1>4, <1>5, <1>7

(* The parts of a serialized message are texts, and how long they are.     *)
LEMMA PartsType ==
  ASSUME NEW S, NEW sep, Alphabet(S, sep), S \subseteq Int, NEW fields \in Seq(Pairs(S)), fields # <<>>
  PROVE  /\ Begun(fields, sep) \in Seq(S) /\ Body(fields, sep) \in Seq(S)
         /\ Sized(fields, sep) \in Seq(S) /\ Summed(fields, sep) \in Seq(S)
         /\ SumOf(Summed(fields, sep)) \in 0..255
         /\ Trailer(fields, sep) \in Seq(S) /\ Whole(fields, sep) \in Seq(S)
         /\ Len(Begun(fields, sep)) = Len(fields[1].value) + 3
         /\ Len(Sized(fields, sep)) = Len(ToChars(Len(Body(fields, sep)))) + 3
         /\ Len(Trailer(fields, sep)) = 7
         /\ ToChars(Len(Body(fields, sep))) \in Seq(S)
         /\ ThreeDigits(SumOf(Summed(fields, sep))) \in Seq(S)
         /\ fields[1].value \in Seq(S) /\ Without(Tail(fields), Generated) \in Seq(Pairs(S))
<1> DEFINE v == fields[1].value
           b == Begun(fields, sep)
           body == Body(fields, sep)
           l == ToChars(Len(body))
           n == Sized(fields, sep)
           p == Summed(fields, sep)
           w == Without(Tail(fields), Generated)
           t == ThreeDigits(SumOf(p))
           tr == Trailer(fields, sep)
<1>0. Digits \subseteq S
  BY DEF Alphabet, CharsOfInt
<1>1. fields[1] \in Pairs(S) /\ Tail(fields) \in Seq(Pairs(S))
  BY EmptySeq
<1>2. v \in Seq(S)
  BY <1>1 DEF Pairs
<1>3. w \in Seq(Pairs(S))
  BY <1>1, WithoutType
<1>4. body \in Seq(S)
  <2> HIDE DEF w
  <2>1. body = WrittenAll(w, sep)
    BY DEF Body, w
  <2> QED  BY <1>3, <2>1, WrittenAllType
<1> HIDE DEF v, body, w
<1>5. b \in Seq(S) /\ Len(b) = Len(v) + 3 /\ Len(v) \in Nat
  <2>1. b = Written(8, v, sep)
    BY DEF Begun, v
  <2> HIDE DEF b
  <2> QED  BY <1>2, <2>1, WrittenSmall
<1>6. l \in Seq(S) /\ Len(l) \in Nat
  <2>1. Len(body) \in Nat
    BY <1>4
  <2> HIDE DEF Digits
  <2>2. l \in Seq(Digits)
    BY <2>1, ToCharsOfNat
  <2>3. l \in Seq(S)
    BY <1>0, <2>2, SeqMonotonic
  <2> QED  BY <2>3
<1>7. n \in Seq(S) /\ Len(n) = Len(l) + 3
  <2>1. n = Written(9, l, sep)
    BY DEF Sized, l, body
  <2> HIDE DEF n, l
  <2> QED  BY <1>6, <2>1, WrittenSmall
<1>8. p \in Seq(S)
  <2>1. p = (b \o n) \o body
    BY DEF Summed, body
  <2> HIDE DEF p, b, n
  <2> QED  BY <1>4, <1>5, <1>7, <2>1
<1>9. SumOf(p) \in 0..255
  <2> HIDE DEF p
  <2>1. p \in Seq(Int)
    BY <1>8, SeqMonotonic
  <2> QED  BY <2>1, SumOfType
<1>10. t \in Seq(S) /\ Len(t) = 3
  <2> DEFINE s == SumOf(p)
  <2> HIDE DEF s, Digits
  <2>1. ThreeDigits(s) \in Seq(Digits) /\ Len(ThreeDigits(s)) = 3
    BY <1>9, ThreeDigitsAreRead DEF s
  <2>2. ThreeDigits(s) \in Seq(S)
    BY <1>0, <2>1, SeqMonotonic
  <2> QED  BY <2>1, <2>2 DEF s
<1>11. tr \in Seq(S) /\ Len(tr) = 7
  <2>1. tr = Written(10, t, sep)
    BY DEF Trailer, t
  <2> HIDE DEF tr, t
  <2>2. tr \in Seq(S) /\ Len(tr) = Len(t) + 4
    BY <1>10, <2>1, WrittenSmall
  <2> QED  BY <1>10, <2>2
<1>12. Whole(fields, sep) \in Seq(S)
  <2>1. Whole(fields, sep) = p \o tr
    BY DEF Whole
  <2> HIDE DEF p, tr
  <2> QED  BY <1>8, <1>11, <2>1
<1> QED  BY <1>2, <1>3, <1>4, <1>5, <1>6, <1>7, <1>8, <1>9, <1>10, <1>11, <1>12 DEF v, body, w

(* Concatenation, by a name.                                               *)
Cat(a, b) == a \o b

(* Writing the length over its placeholder and closing the gap puts it     *)
(* between what is in front and what is behind (parser.cpp:334-367).       *)
LEMMA PatchedIs ==
  ASSUME NEW S, NEW a \in Seq(S), NEW z \in Seq(S), NEW c \in Seq(S), NEW d \in Seq(S),
         Len(z) = Placeholder
  PROVE  Patched(Cat(a, Cat(z, c)), Len(a), d) = Cat(Cat(a, d), c)
<1> DEFINE zc == z \o c
           az == a \o z
           whole == a \o zc
<1>1. zc \in Seq(S) /\ az \in Seq(S) /\ Len(az) = Len(a) + Placeholder
  BY ConcatProperties
<1>2. whole = az \o c
  <2>1. (a \o z) \o c = a \o (z \o c)
    BY ConcatAssociative, SMTT(30)
  <2> QED  BY <2>1, Zenon
<1> HIDE DEF zc, az
<1>3. SubSeq(whole, 1, Len(a)) = a
  BY <1>1, SplitAt
<1>4. SubSeq(az \o c, Len(az) + 1, Len(az \o c)) = c
  BY <1>1, SplitAt
<1>5. SubSeq(whole, Len(az) + 1, Len(whole)) = c
  BY <1>2, <1>4
<1> HIDE DEF whole
<1>6. Len(a) \in Nat /\ Placeholder \in Nat
  BY CodecAssumption
<1>7. SubSeq(whole, Len(a) + Placeholder + 1, Len(whole)) = c
  BY <1>1, <1>5
<1>8. Patched(whole, Len(a), d) = a \o d \o c
  BY <1>3, <1>7 DEF Patched
<1> QED  BY <1>8 DEF whole, zc, Cat

(* A concatenation has the items and the lengths of both.                  *)
LEMMA ConcatType ==
  ASSUME NEW S, NEW a \in Seq(S), NEW b \in Seq(S)
  PROVE  a \o b \in Seq(S) /\ Len(a \o b) = Len(a) + Len(b) /\ Len(a) \in Nat /\ Len(b) \in Nat
OBVIOUS

(* The parts of a message can be joined in any order.                      *)
LEMMA Regrouped ==
  ASSUME NEW S, NEW a \in Seq(S), NEW b \in Seq(S), NEW c \in Seq(S), NEW d \in Seq(S), NEW e \in Seq(S)
  PROVE  /\ Cat(Cat(Cat(Cat(a, b), c), d), e) = Cat(Cat(a, b), Cat(c, Cat(d, e)))
         /\ Cat(Cat(Cat(a, b), c), Cat(d, e)) = Cat(Cat(a, Cat(Cat(b, c), d)), e)
<1> DEFINE ab == a \o b
<1>1. ab \in Seq(S)
  OBVIOUS
<1> HIDE DEF ab
<1>2. ab \o c \o (d \o e) = ab \o c \o d \o e
  BY <1>1, SMTT(30)
<1>3. ab \o (c \o (d \o e)) = ab \o c \o d \o e
  BY <1>1, SMTT(30)
<1>4. (a \o b) \o c \o (d \o e) = a \o (b \o c \o d) \o e
  BY <1>2 DEF ab
<1> QED  BY <1>3, <1>4 DEF ab, Cat

(* No more room is needed while the length is a placeholder than for the   *)
(* message itself: where the one does not fit, neither does the other.     *)
LEMMA Sizes ==
  ASSUME NEW b \in Nat, NEW bn \in Nat, NEW sb \in Nat, NEW body \in Nat, NEW zs \in Nat, NEW l \in Nat \ {0},
         NEW n \in Nat, NEW d, NEW w, NEW p, NEW bnn, NEW q \in 0..8,
         bn = b + 2, sb = 1 + body, zs = q + sb, d = bn + zs, n = l + 3,
         bnn = b + n, p = bnn + body, w = p + 7
  PROVE  d = b + 2 + q + 1 + body /\ w = b + n + body + 7 /\ d <= w /\ d \in Int /\ w \in Int
<1>1. bn \in Int /\ sb \in Int /\ zs \in Int /\ n \in Int /\ q \in Int
  OBVIOUS
<1>2. d \in Int /\ bnn \in Int
  BY <1>1
<1>3. p \in Int
  BY <1>2
<1>4. w \in Int
  BY <1>3
<1> QED  BY <1>1, <1>2, <1>3, <1>4

(* serialize_message writes the first field, the length of the body, all   *)
(* other fields but for lengths and checksums, and the checksum, in this   *)
(* order; it fails exactly if that is longer than the buffer, although it  *)
(* writes the length into a gap that it then closes. (parser.cpp:257-387)  *)
THEOREM SerializeIs ==
  ASSUME NEW S, NEW sep, Alphabet(S, sep), S \subseteq Int, NEW fields \in Seq(Pairs(S)), fields # <<>>,
         fields[1].tag = 8, NEW capacity \in Int
  PROVE  serialize_message(fields, capacity, sep)
           = IF Len(Whole(fields, sep)) <= capacity
             THEN [error |-> "Ok", bytes |-> Whole(fields, sep)]
             ELSE [error |-> "no_buffer_space", bytes |-> <<>>]
<1> DEFINE b == Begun(fields, sep)
           body == Body(fields, sep)
           l == ToChars(Len(body))
           n == Sized(fields, sep)
           p == Summed(fields, sep)
           w == Whole(fields, sep)
           t == Trailer(fields, sep)
           nine == <<Digit(9), Equals>>
           zeros == [i \in 1..Placeholder |-> Digit(0)]
           draft == b \o nine \o zeros \o <<sep>> \o body
<1>1. /\ b \in Seq(S) /\ body \in Seq(S) /\ n \in Seq(S) /\ p \in Seq(S) /\ t \in Seq(S) /\ l \in Seq(S)
      /\ Len(n) = Len(l) + 3 /\ Len(t) = 7
  BY PartsType, ZenonT(30)
<1>2. Digits \subseteq S /\ Equals \in S /\ sep \in S
  BY DEF Alphabet, CharsOfInt
<1>3. nine \in Seq(S) /\ Len(nine) = 2 /\ zeros \in Seq(S) /\ Len(zeros) = Placeholder
  <2>1. Digit(9) \in S /\ Digit(0) \in S
    BY <1>2 DEF Digits
  <2>2. Placeholder \in Nat
    BY CodecAssumption
  <2> HIDE DEF Digits, Digit, Equals
  <2> QED  BY <1>2, <2>1, <2>2
<1>4. n = nine \o l \o <<sep>>
  <2>1. n = <<57>> \o <<Equals>> \o l \o <<sep>>
    BY SmallTags DEF Sized, Written, body
  <2>2. nine = <<57>> \o <<Equals>>
    BY DEF Digit
  <2> QED  BY <2>1, <2>2
<1>5. p = b \o n \o body /\ w = p \o t
  BY DEF Summed, Whole
<1> HIDE DEF b, body, l, n, p, w, t, nine, zeros
<1> DEFINE o == <<sep>>
           bn == b \o nine
           sb == o \o body
           zs == zeros \o sb
<1>0. o \in Seq(S) /\ Len(o) = 1
  BY <1>2
<1> HIDE DEF o
<1>6. /\ bn \in Seq(S) /\ Len(bn) = Len(b) + 2
      /\ sb \in Seq(S) /\ Len(sb) = 1 + Len(body)
      /\ zs \in Seq(S) /\ Len(zs) = Placeholder + Len(sb)
  <2>1. bn \in Seq(S) /\ Len(bn) = Len(b) + 2
    BY <1>1, <1>3, ConcatType, ZenonT(30)
  <2>2. sb \in Seq(S) /\ Len(sb) = 1 + Len(body)
    BY <1>0, <1>1, ConcatType
  <2> HIDE DEF sb
  <2>3. zs \in Seq(S) /\ Len(zs) = Placeholder + Len(sb)
    BY <1>3, <2>2, ConcatType
  <2> QED  BY <2>1, <2>2, <2>3
<1>7. draft = bn \o zs
  <2>1. Cat(Cat(Cat(Cat(b, nine), zeros), o), body) = Cat(Cat(b, nine), Cat(zeros, Cat(o, body)))
    BY <1>0, <1>1, <1>3, Regrouped, SMTT(30)
  <2> QED  BY <2>1 DEF o, Cat
<1>8. Patched(draft, Len(b) + 2, l) = p
  <2>0. Cat(Cat(Cat(b, nine), l), Cat(o, body)) = Cat(Cat(b, Cat(Cat(nine, l), o)), body)
    BY <1>0, <1>1, <1>3, Regrouped, SMTT(30)
  <2>1. bn \o l \o sb = b \o (nine \o l \o o) \o body
    BY <2>0 DEF Cat
  <2>2. nine \o l \o o = n
    BY <1>4 DEF o
  <2>3. bn \o l \o sb = p
    BY <1>5, <2>1, <2>2
  <2> HIDE DEF draft, bn, sb
  <2>5. Patched(Cat(bn, Cat(zeros, sb)), Len(bn), l) = Cat(Cat(bn, l), sb)
    BY <1>1, <1>3, <1>6, PatchedIs, SMTT(30)
  <2>4. Patched(bn \o (zeros \o sb), Len(bn), l) = bn \o l \o sb
    BY <2>5 DEF Cat
  <2> QED  BY <1>6, <1>7, <2>3, <2>4
<1>9. Len(draft) = Len(b) + 2 + Placeholder + 1 + Len(body) /\ Len(w) = Len(b) + Len(n) + Len(body) + 7
      /\ Len(draft) <= Len(w) /\ Len(draft) \in Int /\ Len(w) \in Int
  <2> HIDE DEF draft, bn, sb, zs
  <2>2. Len(draft) = Len(bn) + Len(zs)
    BY <1>6, <1>7, ConcatType
  <2> DEFINE bnn == b \o n
  <2>7. bnn \in Seq(S) /\ Len(bnn) = Len(b) + Len(n)
    BY <1>1, ConcatType
  <2> HIDE DEF bnn
  <2>8. Len(p) = Len(bnn) + Len(body)
    BY <1>1, <1>5, <2>7, ConcatType DEF bnn
  <2>3. Len(w) = Len(p) + 7
    BY <1>1, <1>5, ConcatType, ZenonT(30)
  <2>4. Len(b) \in Nat /\ Len(body) \in Nat /\ Len(n) \in Nat
        /\ Len(bn) \in Nat /\ Len(sb) \in Nat /\ Len(zs) \in Nat
    BY <1>1, <1>6
  <2>10. Len(l) \in Nat \ {0}
    BY <2>4, ToCharsOfNat DEF l
  <2>5. Placeholder \in 0..8
    BY CodecAssumption
  <2>6. Len(bn) = Len(b) + 2 /\ Len(sb) = 1 + Len(body) /\ Len(zs) = Placeholder + Len(sb) /\ Len(n) = Len(l) + 3
    BY <1>1, <1>6
  <2>9. Len(bnn) = Len(b) + Len(n)
    BY <2>7
  <2> QED  BY <2>2, <2>3, <2>4, <2>5, <2>6, <2>8, <2>9, <2>10, Sizes
<1>10. Fits(draft, w, capacity) <=> Len(w) <= capacity
  <2> HIDE DEF draft
  <2> QED  BY <1>9 DEF Fits
<1>11. serialize_message(fields, capacity, sep)
         = IF ~Fits(draft, w, capacity) THEN [error |-> "no_buffer_space", bytes |-> <<>>]
           ELSE [error |-> "Ok", bytes |-> w]
  <2>1. t = Written(10, ThreeDigits(SumOf(p)), sep)
    BY DEF t, Trailer, p
  <2> HIDE DEF Patched, Fits
  <2>2. /\ b = Written(8, fields[1].value, sep)
        /\ body = WrittenAll(Without(Tail(fields), Generated), sep)
        /\ nine = <<Digit(9), Equals>> /\ zeros = [i \in 1..Placeholder |-> Digit(0)]
        /\ l = ToChars(Len(body))
    BY DEF b, body, Begun, Body, nine, zeros, l
  <2> QED  BY <1>5, <1>8, <2>1, <2>2 DEF serialize_message
<1> QED  BY <1>10, <1>11 DEF w

(* The bytes of what is sent.                                              *)
Text == Byte \ {Pipe}

(* The bytes of a script, and what is written around them.                 *)
LEMMA TextFacts ==
  /\ Text \subseteq Int /\ Text \subseteq Byte /\ Byte \subseteq Int /\ Alphabet(Text, SOH) /\ LineFeed \in Byte
  /\ SOH # Equals
<1>1. CharsOfInt \cup {Equals, SOH} \subseteq Text
  BY DEF CharsOfInt, Digits, Digit, Minus, Equals, SOH, Text, Byte, Pipe
<1>2. Text \subseteq Int /\ Text \subseteq Byte /\ Byte \subseteq Int /\ LineFeed \in Byte
  BY DEF Text, Byte, LineFeed
<1>3. SOH # Equals
  BY DEF SOH, Equals
<1> QED  BY <1>1, <1>2, <1>3 DEF Alphabet

(* The items of a concatenation.                                           *)
LEMMA ConcatItems ==
  ASSUME NEW S, NEW a \in Seq(S), NEW b \in Seq(S)
  PROVE  /\ \A i \in 1..Len(a) : (a \o b)[i] = a[i]
         /\ \A i \in 1..Len(b) : (a \o b)[Len(a) + i] = b[i]
<1> DEFINE c == a \o b
<1>1. c \in Seq(S) /\ Len(c) = Len(a) + Len(b) /\ Len(a) \in Nat /\ Len(b) \in Nat
      /\ (\A i \in 1..Len(a) : c[i] = a[i]) /\ (\A i \in 1..Len(b) : c[Len(a) + i] = b[i])
  OBVIOUS
<1> QED  BY <1>1

-----------------------------------------------------------------------------
(* Sums and sizes                                                          *)

(* The running sums of equal beginnings are equal.                         *)
LEMMA SumsOfPrefix ==
  ASSUME NEW s \in Seq(Int), NEW t \in Seq(Int), NEW n \in Nat, n <= Len(s), n <= Len(t),
         \A i \in 1..n : s[i] = t[i]
  PROVE  Sums(s)[n] = Sums(t)[n]
<1> DEFINE a == Sums(s)
           b == Sums(t)
           T == {k \in Nat : k <= n => a[k] = b[k]}
<1>1. a = [k \in 0..Len(s) |-> IF k = 0 THEN 0 ELSE a[k - 1] + s[k]]
  BY SumsDef
<1>2. b = [k \in 0..Len(t) |-> IF k = 0 THEN 0 ELSE b[k - 1] + t[k]]
  BY SumsDef
<1>3. Len(s) \in Nat /\ Len(t) \in Nat
  OBVIOUS
<1> HIDE DEF a, b
<1>4. 0 \in T
  BY <1>1, <1>2, <1>3
<1>5. ASSUME NEW k \in Nat, k \in T  PROVE k + 1 \in T
  <2> SUFFICES ASSUME k + 1 <= n  PROVE a[k + 1] = b[k + 1]
    OBVIOUS
  <2>1. k + 1 \in 0..Len(s) /\ k + 1 \in 0..Len(t) /\ k + 1 \in 1..n /\ k + 1 - 1 = k /\ k <= n /\ k + 1 # 0
    BY <1>3
  <2>2. a[k + 1] = a[k] + s[k + 1]
    BY <1>1, <2>1
  <2>3. b[k + 1] = b[k] + t[k + 1]
    BY <1>2, <2>1
  <2> QED  BY <1>5, <2>1, <2>2, <2>3
<1> HIDE DEF T
<1>6. \A k \in Nat : k \in T
  BY <1>4, <1>5, Induction
<1> QED  BY <1>6 DEF T, a, b

(* The sum of a text with one more byte.                                   *)
LEMMA TotalAppend ==
  ASSUME NEW s \in Seq(Int), NEW x \in Int
  PROVE  Total(Append(s, x)) = Total(s) + x /\ Total(s) \in Int
<1> DEFINE t == Append(s, x)
           n == Len(s)
           b == Sums(t)
<1>1. t \in Seq(Int) /\ n \in Nat /\ Len(t) = n + 1 /\ t[n + 1] = x /\ \A i \in 1..n : s[i] = t[i]
  OBVIOUS
<1>2. Total(t) = b[n + 1] /\ Total(s) = Sums(s)[n]
  BY <1>1 DEF Total
<1> HIDE DEF t, n
<1>3. b = [k \in 0..Len(t) |-> IF k = 0 THEN 0 ELSE b[k - 1] + t[k]]
  BY <1>1, SumsDef
<1> HIDE DEF b
<1>4. b[n + 1] = b[n] + t[n + 1]
  <2> DEFINE k == n + 1
  <2>1. k \in 0..Len(t) /\ k # 0 /\ k - 1 = n
    BY <1>1
  <2> HIDE DEF k
  <2>2. b[k] = b[k - 1] + t[k]
    BY <1>3, <2>1
  <2>3. b[k] = b[n] + t[k]
    BY <2>1, <2>2
  <2> QED  BY <2>3 DEF k
<1>5. Sums(s)[n] = b[n]
  <2>1. n <= Len(s) /\ n <= Len(t)
    BY <1>1 DEF n
  <2>2. t \in Seq(Int) /\ n \in Nat /\ \A i \in 1..n : s[i] = t[i]
    BY <1>1
  <2>3. Sums(s)[n] = Sums(t)[n]
    BY <2>1, <2>2, SumsOfPrefix
  <2> QED  BY <2>3 DEF b
<1>6. Total(s) \in Int
  BY SumOfType
<1>7. Total(t) = Total(s) + x
  <2>1. t[n + 1] = x
    BY <1>1
  <2> QED  BY <1>2, <1>4, <1>5, <2>1
<1> QED  BY <1>6, <1>7 DEF t

(* The sum of nothing.                                                     *)
LEMMA TotalNothing == Total(<<>>) = 0
<1>1. <<>> \in Seq(Int) /\ Len(<<>>) = 0 /\ 0 \in 0..0
  OBVIOUS
<1> DEFINE e == <<>>
<1> HIDE DEF e
<1>2. Sums(e) = [n \in 0..Len(e) |-> IF n = 0 THEN 0 ELSE Sums(e)[n - 1] + e[n]]
  BY <1>1, SumsDef DEF e
<1>3. Sums(e)[0] = 0
  BY <1>1, <1>2 DEF e
<1>4. Total(e) = Sums(e)[0]
  BY <1>1 DEF Total, e
<1> QED  BY <1>3, <1>4 DEF e

(* The bytes a field takes.                                                *)
Each(f) == Len(ToChars(f.tag)) + Len(f.value) + 2
EachOf(s) == [i \in DOMAIN s |-> Each(s[i])]

(* How many bytes a field takes.                                           *)
LEMMA EachType ==
  ASSUME NEW S, NEW x \in Pairs(S)
  PROVE  Each(x) \in Nat
<1>1. x.tag \in Ints /\ x.value \in Seq(S)
  BY DEF Pairs
<1>2. Len(ToChars(x.tag)) \in Nat
  BY <1>1, ToCharsIsRead
<1>3. Len(x.value) \in Nat
  BY <1>1
<1>4. \A a, b \in Nat : a + b + 2 \in Nat
  OBVIOUS
<1>5. Len(ToChars(x.tag)) + Len(x.value) + 2 \in Nat
  BY <1>2, <1>3, <1>4
<1> QED  BY <1>5 DEF Each

(* Fields take as many bytes as each of them.                              *)
LEMMA TotalOfWritten ==
  ASSUME NEW S, NEW sep, Alphabet(S, sep)
  PROVE  \A s \in Seq(Pairs(S)) : Len(WrittenAll(s, sep)) = Total(EachOf(s))
<1> DEFINE P == Pairs(S)
           T == {s \in Seq(P) : EachOf(s) \in Seq(Int) /\ Len(WrittenAll(s, sep)) = Total(EachOf(s))}
<1>1. <<>> \in T
  <2>1. EachOf(<<>>) = <<>>
    BY DEF EachOf
  <2>2. <<>> \in Seq(P) /\ <<>> \in Seq(Int) /\ Len(<<>>) = 0
    OBVIOUS
  <2> QED  BY <2>1, <2>2, WrittenAllNothing, TotalNothing
<1>2. ASSUME NEW s \in Seq(P), NEW x \in P, s \in T  PROVE Append(s, x) \in T
  <2> DEFINE e == Each(x)
             es == EachOf(s)
             w == Written(x.tag, x.value, sep)
             ws == WrittenAll(s, sep)
  <2>1. e \in Nat
    BY EachType
  <2>2. es \in Seq(Int) /\ Len(ws) = Total(es) /\ Len(es) = Len(s)
    BY <1>2 DEF EachOf
  <2>3. EachOf(Append(s, x)) = Append(es, e)
    <3> DEFINE q == EachOf(Append(s, x))
               n == Len(s)
    <3>0. n \in Nat /\ DOMAIN s = 1..n
      OBVIOUS
    <3> HIDE DEF P
    <3>1. Append(s, x) \in Seq(P) /\ DOMAIN Append(s, x) = 1..(n + 1)
          /\ Append(s, x)[n + 1] = x /\ \A i \in 1..n : Append(s, x)[i] = s[i]
      OBVIOUS
    <3> HIDE DEF e
    <3>2. q = [i \in 1..(n + 1) |-> Each(Append(s, x)[i])]
      BY <3>1 DEF EachOf
    <3>3. q[n + 1] = e /\ \A i \in 1..n : q[i] = Each(s[i])
      BY <3>0, <3>1, <3>2 DEF e
    <3>4. \A i \in 1..n : es[i] = Each(s[i])
      BY <3>0 DEF EachOf
    <3>5. \A i \in 1..n : es[i] \in Int
      BY <2>2, <3>0
    <3>6. \A i \in 1..(n + 1) : q[i] \in Int
      <4> TAKE i \in 1..(n + 1)
      <4>1. i \in 1..n \/ i = n + 1
        BY <3>0
      <4> QED  BY <2>1, <3>3, <3>4, <3>5, <4>1
    <3> HIDE DEF n
    <3>7. q \in Seq(Int) /\ Len(q) = n + 1
      <4> DEFINE a == Append(s, x)
      <4> HIDE DEF a
      <4>1. q = [i \in 1..(n + 1) |-> Each(a[i])]
        BY <3>2 DEF a
      <4> HIDE DEF q
      <4> QED  BY <3>0, <3>6, <4>1
    <3> HIDE DEF q, es
    <3>8. q[Len(es) + 1] = e /\ Len(q) = Len(es) + 1 /\ \A i \in 1..Len(es) : q[i] = es[i]
      BY <2>2, <3>3, <3>4, <3>7 DEF n
    <3> QED  BY <2>1, <2>2, <3>7, <3>8, AppendIs DEF q, es
  <2>4. Total(Append(es, e)) = Total(es) + e
    BY <2>1, <2>2, TotalAppend
  <2>5. WrittenAll(Append(s, x), sep) = ws \o w
    BY WrittenAllAppend
  <2>6. ws \in Seq(S) /\ w \in Seq(S) /\ Len(w) = e
    <3>1. x.tag \in Ints /\ x.value \in Seq(S)
      BY DEF Pairs
    <3>2. w \in Seq(S) /\ Len(w) = e
      BY <3>1, WrittenType DEF Each
    <3> QED  BY <3>2, WrittenAllType
  <2>7. Len(WrittenAll(Append(s, x), sep)) = Total(es) + e
    <3> HIDE DEF ws, w, e, es
    <3> QED  BY <2>2, <2>5, <2>6, ConcatType
  <2>8. Append(es, e) \in Seq(Int)
    <3> HIDE DEF es, e
    <3> QED  BY <2>1, <2>2
  <2>9. Append(s, x) \in Seq(P)
    <3> HIDE DEF P
    <3> QED  OBVIOUS
  <2> HIDE DEF e, es, P
  <2> QED  BY <2>3, <2>4, <2>7, <2>8, <2>9
<1> HIDE DEF T, P
<1>3. \A s \in Seq(P) : s \in T
  BY <1>1, <1>2, SeqInduction
<1> QED  BY <1>3 DEF T, P

(* A sequence is its head and its tail.                                    *)
LEMMA HeadAndTail ==
  ASSUME NEW S, NEW s \in Seq(S), s # <<>>
  PROVE  /\ s = <<s[1]>> \o Tail(s) /\ s[1] \in S /\ Tail(s) \in Seq(S)
         /\ \A i \in DOMAIN Tail(s) : i + 1 \in DOMAIN s /\ Tail(s)[i] = s[i + 1]
<1> DEFINE o == <<s[1]>>
           t == Tail(s)
           r == o \o t
<1>1. Len(s) \in Nat \ {0} /\ 1 \in 1..Len(s)
  BY EmptySeq
<1>2. s[1] \in S
  BY <1>1
<1>3. o \in Seq(S) /\ Len(o) = 1 /\ o[1] = s[1]
  BY <1>2
<1>4. t \in Seq(S) /\ Len(t) = Len(s) - 1 /\ \A i \in 1..Len(t) : t[i] = s[i + 1]
  BY <1>1
<1> HIDE DEF o, t
<1>5. r \in Seq(S) /\ Len(r) = Len(s) /\ (\A i \in 1..Len(o) : r[i] = o[i]) /\ (\A i \in 1..Len(t) : r[Len(o) + i] = t[i])
  <2>1. o \o t \in Seq(S) /\ Len(o \o t) = Len(o) + Len(t)
    BY <1>3, <1>4, ConcatType
  <2>2. Len(o) + Len(t) = Len(s)
    BY <1>1, <1>3, <1>4
  <2>3. /\ \A i \in 1..Len(o) : (o \o t)[i] = o[i]
        /\ \A i \in 1..Len(t) : (o \o t)[Len(o) + i] = t[i]
    <3>1. o \in Seq(S) /\ t \in Seq(S)
      BY <1>3, <1>4
    <3> QED  BY <3>1, ConcatItems
  <2> QED  BY <2>1, <2>2, <2>3
<1> HIDE DEF r
<1>6. \A i \in 1..Len(s) : r[i] = s[i]
  <2> TAKE i \in 1..Len(s)
  <2>1. CASE i = 1
    BY <1>3, <1>5, <2>1
  <2>2. CASE i # 1
    <3>1. i - 1 \in 1..Len(t) /\ 1 + (i - 1) = i /\ (i - 1) + 1 = i
      BY <1>1, <1>4, <2>2
    <3>2. r[Len(o) + (i - 1)] = t[i - 1] /\ t[i - 1] = s[(i - 1) + 1]
      BY <1>4, <1>5, <3>1
    <3> QED  BY <1>3, <3>1, <3>2
  <2> QED  BY <2>1, <2>2
<1>7. r = s
  BY <1>5, <1>6, SeqEqual
<1>8. \A i \in DOMAIN t : i + 1 \in DOMAIN s /\ t[i] = s[i + 1]
  BY <1>1, <1>4
<1> QED  BY <1>2, <1>4, <1>7, <1>8 DEF r, o, t

(* The tail of a sequence with an item in front.                           *)
LEMMA TailOfOne ==
  ASSUME NEW S, NEW x \in S, NEW s \in Seq(S)
  PROVE  Tail(<<x>> \o s) = s /\ (<<x>> \o s)[1] = x
<1> DEFINE o == <<x>>
           r == o \o s
           t == Tail(r)
<1>1. o \in Seq(S) /\ Len(o) = 1 /\ o[1] = x
  OBVIOUS
<1> HIDE DEF o
<1>2. r \in Seq(S) /\ Len(r) = 1 + Len(s) /\ Len(s) \in Nat
      /\ (\A i \in 1..Len(o) : r[i] = o[i]) /\ (\A i \in 1..Len(s) : r[Len(o) + i] = s[i])
  BY <1>1, ConcatType, ConcatItems
<1> HIDE DEF r
<1>3. t \in Seq(S) /\ Len(t) = Len(s) /\ \A i \in 1..Len(s) : t[i] = r[i + 1]
  <2>1. Len(r) # 0 /\ Len(r) - 1 = Len(s)
    BY <1>2
  <2>2. r # <<>>
    BY <2>1
  <2> QED  BY <1>2, <2>1, <2>2
<1> HIDE DEF t
<1>4. \A i \in 1..Len(s) : t[i] = s[i]
  <2> TAKE i \in 1..Len(s)
  <2>1. i + 1 = Len(o) + i
    BY <1>1, <1>2
  <2> QED  BY <1>2, <1>3, <2>1
<1>5. t = s
  BY <1>3, <1>4, SeqEqual
<1>6. r[1] = x
  <2>1. 1 \in 1..Len(o)
    BY <1>1
  <2> QED  BY <1>1, <1>2, <2>1
<1> QED  BY <1>5, <1>6 DEF t, r, o

-----------------------------------------------------------------------------
(* parse, given what was written                                           *)

(* A piece is told from its parts.                                         *)
LEMMA FourParts ==
  ASSUME NEW S, NEW a \in Seq(S), NEW e \in S, NEW v \in Seq(S), NEW s \in S, NEW w, w = a \o <<e>> \o v \o <<s>>
  PROVE  /\ Len(w) = Len(a) + Len(v) + 2
         /\ \A i \in 1..Len(a) : w[i] = a[i]
         /\ w[Len(a) + 1] = e
         /\ \A i \in 1..Len(v) : w[Len(a) + 1 + i] = v[i]
         /\ w[Len(a) + Len(v) + 2] = s
OBVIOUS

(* The parts of a piece.                                                   *)
Parted(w, a, v, sep) ==
  /\ Len(w) = Len(a) + Len(v) + 2
  /\ \A i \in 1..Len(a) : w[i] = a[i]
  /\ w[Len(a) + 1] = Equals
  /\ \A i \in 1..Len(v) : w[Len(a) + 1 + i] = v[i]
  /\ w[Len(a) + Len(v) + 2] = sep

(* A written field consists of its tag, '=', its value and a separator.    *)
LEMMA WrittenItems ==
  ASSUME NEW S, NEW sep, Alphabet(S, sep), NEW t \in Ints, NEW v \in Seq(S)
  PROVE  /\ Parted(Written(t, v, sep), ToChars(t), v, sep)
         /\ ToChars(t) \in Seq(CharsOfInt) /\ Len(ToChars(t)) \in Nat \ {0}
<1>1. Equals \in S /\ sep \in S /\ CharsOfInt \subseteq S
  BY DEF Alphabet
<1>2. ToChars(t) \in Seq(CharsOfInt) /\ Len(ToChars(t)) \in Nat \ {0}
  BY ToCharsIsRead
<1>3. ToChars(t) \in Seq(S)
  BY <1>1, <1>2, SeqMonotonic
<1> DEFINE a == ToChars(t)
           e == Equals
           w == Written(t, v, sep)
<1>4. w = a \o <<e>> \o v \o <<sep>>
  BY DEF Written
<1>5. a \in Seq(S) /\ e \in S
  BY <1>1, <1>3
<1> HIDE DEF a, e, w
<1>6. /\ Len(w) = Len(a) + Len(v) + 2
      /\ \A i \in 1..Len(a) : w[i] = a[i]
      /\ w[Len(a) + 1] = e
      /\ \A i \in 1..Len(v) : w[Len(a) + 1 + i] = v[i]
      /\ w[Len(a) + Len(v) + 2] = sep
  BY <1>1, <1>4, <1>5, FourParts
<1>7. Parted(w, a, v, sep)
  BY <1>6 DEF Parted, e
<1> QED  BY <1>2, <1>7 DEF a, w

(* Part of raw is a text; a text does without a byte.                      *)
Placed(raw, at, text) ==
  /\ at + Len(text) - 1 <= Len(raw)
  /\ \A i \in 1..Len(text) : raw[at + i - 1] = text[i]

(* b does not occur in text.                                               *)
Lacks(text, b) == \A i \in 1..Len(text) : text[i] # b

(* A text that is there is what one cuts out there.                        *)
LEMMA SubSeqIs ==
  ASSUME NEW S, NEW T, NEW raw \in Seq(S), NEW a \in Seq(T), NEW from \in Nat \ {0}, NEW to,
         to = from + Len(a) - 1, Placed(raw, from, a)
  PROVE  SubSeq(raw, from, to) = a
<1> DEFINE b == SubSeq(raw, from, to)
<1>0. to \in Int /\ to <= Len(raw) /\ \A i \in 1..Len(a) : raw[from + i - 1] = a[i]
  BY DEF Placed
<1>1. Len(b) = Len(a) /\ \A i \in 1..Len(a) : b[i] = raw[from + i - 1]
  BY <1>0
<1>2. b \in Seq(S)
  BY <1>0
<1> HIDE DEF b
<1>3. b = a
  BY <1>0, <1>1, <1>2
<1> QED  BY <1>3 DEF b

(* What a text lacks is found behind it.                                   *)
LEMMA FindAfter ==
  ASSUME NEW raw \in Seq(Int), NEW at \in Nat \ {0}, NEW a, NEW n \in Nat, n = Len(a), NEW b, NEW p,
         Placed(raw, at, a), Lacks(a, b), p = at + n, p <= Len(raw), raw[p] = b
  PROVE  Find(raw, b, at) = p
<1>1. at \in 1..(Len(raw) + 1) /\ p \in at..Len(raw)
  OBVIOUS
<1>2. \A q \in at..(p - 1) : raw[q] # b
  <2> TAKE q \in at..(p - 1)
  <2>1. PICK i \in 1..n : at + i - 1 = q
    <3>1. q - at + 1 \in 1..n /\ at + (q - at + 1) - 1 = q
      OBVIOUS
    <3> QED  BY <3>1
  <2>2. raw[at + i - 1] = a[i] /\ a[i] # b
    BY DEF Placed, Lacks
  <2> QED  BY <2>1, <2>2
<1> QED  BY <1>1, <1>2, FindIs

(* What is not here is found further on.                                   *)
LEMMA FindFurther ==
  ASSUME NEW raw \in Seq(Int), NEW at \in Nat \ {0}, at <= Len(raw), NEW b, raw[at] # b, NEW p \in Nat,
         Find(raw, b, at + 1) = p, p <= Len(raw)
  PROVE  Find(raw, b, at) = p
<1>1. at + 1 \in 1..(Len(raw) + 1) /\ at \in 1..(Len(raw) + 1)
  OBVIOUS
<1>2. p \in (at + 1)..(Len(raw) + 1) /\ raw[p] = b /\ \A q \in (at + 1)..(p - 1) : raw[q] # b
  BY <1>1, FindProps
<1>3. p \in at..Len(raw) /\ \A q \in at..(p - 1) : q = at \/ q \in (at + 1)..(p - 1)
  BY <1>2
<1>4. \A q \in at..(p - 1) : raw[q] # b
  BY <1>2, <1>3
<1> QED  BY <1>1, <1>2, <1>3, <1>4, FindIs

(* Where the parts of a piece are.                                         *)
LEMMA PartsPlaced ==
  ASSUME NEW S, NEW sep, Alphabet(S, sep), NEW t \in Ints, NEW v \in Seq(S),
         NEW raw \in Seq(Int), NEW at \in Nat \ {0}, NEW w, w = Written(t, v, sep), Placed(raw, at, w)
  PROVE  \E a, n, l, eq, end :
           /\ a = ToChars(t) /\ n = Len(a) /\ l = Len(v) /\ eq = at + n /\ end = eq + l + 1
           /\ n \in Nat \ {0} /\ l \in Nat /\ eq \in Nat /\ end \in Nat /\ end <= Len(raw)
           /\ end + 1 = at + Len(w)
           /\ Placed(raw, at, a) /\ raw[eq] = Equals
           /\ Placed(raw, eq + 1, v) /\ raw[end] = sep
<1>0. Parted(w, ToChars(t), v, sep) /\ Len(ToChars(t)) \in Nat \ {0}
  BY WrittenItems
<1>a. PICK a, n, l, eq, end : a = ToChars(t) /\ n = Len(a) /\ l = Len(v) /\ eq = at + n /\ end = eq + l + 1
  OBVIOUS
<1>b. n = Len(a) /\ l = Len(v) /\ eq = at + n /\ end = eq + l + 1
  BY <1>a
<1>c. Parted(w, a, v, sep) /\ n \in Nat \ {0}
  BY <1>0, <1>a
<1>1. /\ n \in Nat \ {0} /\ Len(w) = n + l + 2
      /\ \A i \in 1..n : w[i] = a[i]
      /\ w[n + 1] = Equals
      /\ \A i \in 1..l : w[n + 1 + i] = v[i]
      /\ w[n + l + 2] = sep
  BY <1>b, <1>c DEF Parted
<1>2. l \in Nat /\ Len(w) = n + l + 2 /\ Len(raw) \in Nat
  BY <1>1, <1>b
<1>4. eq \in Nat /\ end \in Nat /\ end <= Len(raw) /\ end + 1 = at + Len(w)
  BY <1>1, <1>2, <1>b, SMTT(30) DEF Placed
<1>5. \A k \in 1..(n + l + 2) : raw[at + k - 1] = w[k]
  BY <1>2 DEF Placed
<1>6. Placed(raw, at, a)
  <2>1. \A i \in 1..n : i \in 1..(n + l + 2)
    BY <1>1, <1>2
  <2>2. \A i \in 1..n : raw[at + i - 1] = a[i]
    BY <1>1, <1>5, <2>1
  <2>3. at + n - 1 <= Len(raw)
    BY <1>1, <1>2, <1>4, <1>b
  <2> QED  BY <1>b, <2>2, <2>3 DEF Placed
<1>7. raw[eq] = Equals
  <2>1. PICK k \in 1..(n + l + 2) : k = n + 1
    BY <1>1, <1>2
  <2>2. at + k - 1 = eq
    BY <1>1, <1>b, <2>1
  <2> QED  BY <1>1, <1>5, <2>1, <2>2
<1>8. Placed(raw, eq + 1, v)
  <2>1. ASSUME NEW i \in 1..l  PROVE raw[eq + 1 + i - 1] = v[i]
    <3>1. PICK k \in 1..(n + l + 2) : k = n + 1 + i
      BY <1>1, <1>2
    <3>2. at + k - 1 = eq + 1 + i - 1
      BY <1>1, <1>b, <3>1
    <3> QED  BY <1>1, <1>5, <3>1, <3>2
  <2>2. eq + 1 + l - 1 <= Len(raw)
    BY <1>2, <1>4, <1>b
  <2> QED  BY <1>b, <2>1, <2>2 DEF Placed
<1>9. raw[end] = sep
  <2>1. PICK k \in 1..(n + l + 2) : k = n + l + 2
    BY <1>1, <1>2
  <2>2. at + k - 1 = end
    BY <1>1, <1>2, <1>b, <2>1
  <2> QED  BY <1>1, <1>5, <2>1, <2>2
<1>10. n \in Nat \ {0} /\ l \in Nat
  BY <1>1, <1>2
<1> QED  BY <1>10, <1>a, <1>4, <1>6, <1>7, <1>8, <1>9

(* The field at that position is read.                                     *)
ReadsAs(raw, sep, at, t, v, next) ==
  /\ TagEnd(raw, at) <= Len(raw)
  /\ ValueEnd(raw, sep, at) = next - 1 /\ next - 1 <= Len(raw)
  /\ IsTagAt(raw, at) /\ TagAt(raw, at).value = t
  /\ FieldAt(raw, sep, at) = [tag |-> t, value |-> v, from |-> at, next |-> next]
  /\ next \in Nat /\ at < next

(* A written field, wherever it is, is read as its tag and value and ends  *)
(* where it was written to end.                                            *)
LEMMA ReadsWritten ==
  ASSUME NEW S, S \subseteq Int, NEW sep, sep # Equals, Alphabet(S, sep), NEW t \in Ints, NEW v \in Seq(S),
         Lacks(v, sep), NEW raw \in Seq(Int), NEW at \in Nat \ {0},
         NEW w, w = Written(t, v, sep), Placed(raw, at, w), NEW next, next = at + Len(w)
  PROVE  ReadsAs(raw, sep, at, t, v, next)
<1>1. PICK a, n, l, eq, end :
        /\ a = ToChars(t) /\ n = Len(a) /\ l = Len(v) /\ eq = at + n /\ end = eq + l + 1
        /\ n \in Nat \ {0} /\ l \in Nat /\ eq \in Nat /\ end \in Nat /\ end <= Len(raw)
        /\ end + 1 = at + Len(w)
        /\ Placed(raw, at, a) /\ raw[eq] = Equals
        /\ Placed(raw, eq + 1, v) /\ raw[end] = sep
  BY PartsPlaced, SMTT(30)
<1>3. n = Len(a) /\ l = Len(v) /\ eq = at + n /\ end = eq + l + 1
  BY <1>1
<1>4. /\ n \in Nat \ {0} /\ l \in Nat /\ eq \in Nat /\ end \in Nat /\ end <= Len(raw)
      /\ end + 1 = at + Len(w)
      /\ Placed(raw, at, a) /\ raw[eq] = Equals
      /\ Placed(raw, eq + 1, v) /\ raw[end] = sep
  BY <1>1
<1>5. a \in Seq(CharsOfInt) /\ FromChars(a) = [ok |-> TRUE, value |-> t, length |-> n]
  BY <1>1, ToCharsIsRead
<1>6. Lacks(a, Equals)
  <2>1. Equals \notin CharsOfInt
    BY DigitsAre DEF CharsOfInt, Equals, Minus
  <2> HIDE DEF CharsOfInt, Equals
  <2> QED  BY <1>5, <2>1 DEF Lacks
<1>7. n = Len(a) /\ Placed(raw, at, a)
  BY <1>3, <1>4
<1>8. TagEnd(raw, at) = eq
  <2>1. eq <= Len(raw)
    BY <1>3, <1>4
  <2>2. Find(raw, Equals, at) = eq
    BY <1>3, <1>4, <1>6, <1>7, <2>1, FindAfter
  <2> QED  BY <2>2 DEF TagEnd
<1>9. ValueEnd(raw, sep, at) = end
  <2>1. PICK from \in Nat \ {0} : from = eq + 1
    BY <1>4
  <2>2. Placed(raw, from, v) /\ end = from + l
    BY <1>3, <1>4, <2>1
  <2>3. Find(raw, sep, from) = end
    BY <1>3, <1>4, <2>2, FindAfter
  <2>4. Find(raw, sep, eq) = end
    <3>1. eq \in Nat \ {0} /\ eq <= Len(raw) /\ raw[eq] # sep
      BY <1>3, <1>4, SMTT(30)
    <3>2. Find(raw, sep, eq + 1) = end
      BY <2>1, <2>3
    <3> QED  BY <1>4, <3>1, <3>2, FindFurther
  <2> QED  BY <1>8, <2>4 DEF ValueEnd
<1>10. SubSeq(raw, at, eq - 1) = a
  <2>1. PICK to : to = eq - 1
    OBVIOUS
  <2>2. to = at + Len(a) - 1
    BY <1>3, <1>4, <1>7, <2>1
  <2>3. a \in Seq(CharsOfInt) /\ Placed(raw, at, a)
    BY <1>5, <1>7
  <2>4. SubSeq(raw, at, to) = a
    BY <2>2, <2>3, SubSeqIs
  <2> QED  BY <2>1, <2>4
<1>11. SubSeq(raw, eq + 1, end - 1) = v
  <2>1. PICK from \in Nat \ {0}, to \in Int : from = eq + 1 /\ to = end - 1
    BY <1>4
  <2>2. Placed(raw, from, v) /\ to = from + Len(v) - 1
    BY <1>3, <1>4, <2>1
  <2>3. SubSeq(raw, from, to) = v
    BY <2>2, SubSeqIs
  <2> QED  BY <2>1, <2>3
<1>12. TagAt(raw, at) = [ok |-> TRUE, value |-> t, length |-> n]
  BY <1>5, <1>8, <1>10 DEF TagAt
<1>13. n = eq - at
  BY <1>3, <1>4
<1>14. IsTagAt(raw, at) /\ TagAt(raw, at).value = t
  BY <1>8, <1>12, <1>13 DEF IsTagAt
<1>15. next = end + 1 /\ next \in Nat /\ next - 1 = end /\ at < next /\ eq <= Len(raw)
  BY <1>3, <1>4, SMTT(30)
<1>16. FieldAt(raw, sep, at) = [tag |-> t, value |-> v, from |-> at, next |-> next]
  BY <1>8, <1>9, <1>11, <1>14, <1>15 DEF FieldAt
<1> QED  BY <1>4, <1>8, <1>9, <1>14, <1>15, <1>16 DEF ReadsAs

(* What is there stays there when something is put behind.                 *)
LEMMA PlacedMore ==
  ASSUME NEW S, NEW a \in Seq(S), NEW b \in Seq(S), NEW at \in Nat \ {0}, NEW text, Len(text) \in Nat,
         Placed(a, at, text)
  PROVE  Placed(Cat(a, b), at, text)
<1>1. Len(Cat(a, b)) = Len(a) + Len(b) /\ Len(a) \in Nat /\ Len(b) \in Nat
  BY ConcatType DEF Cat
<1>2. \A i \in 1..Len(a) : Cat(a, b)[i] = a[i]
  BY ConcatItems DEF Cat
<1>3. at + Len(text) - 1 <= Len(a) /\ \A i \in 1..Len(text) : a[at + i - 1] = text[i]
  BY DEF Placed
<1>4. ASSUME NEW i \in 1..Len(text)  PROVE Cat(a, b)[at + i - 1] = text[i]
  <2>1. at + i - 1 \in 1..Len(a)
    BY <1>1, <1>3
  <2> QED  BY <1>2, <1>3, <2>1
<1>5. at + Len(text) - 1 <= Len(Cat(a, b))
  BY <1>1, <1>3
<1> QED  BY <1>4, <1>5 DEF Placed

(* What is put behind is there.                                            *)
LEMMA PlacedEnd ==
  ASSUME NEW S, NEW a \in Seq(S), NEW b \in Seq(S), NEW at, at = Len(a) + 1
  PROVE  Placed(Cat(a, b), at, b)
<1>1. Len(Cat(a, b)) = Len(a) + Len(b) /\ Len(a) \in Nat /\ Len(b) \in Nat
  BY ConcatType DEF Cat
<1>2. \A i \in 1..Len(b) : Cat(a, b)[Len(a) + i] = b[i]
  BY ConcatItems DEF Cat
<1>3. \A i \in 1..Len(b) : at + i - 1 = Len(a) + i
  BY <1>1
<1>4. at + Len(b) - 1 <= Len(Cat(a, b))
  BY <1>1
<1> QED  BY <1>2, <1>3, <1>4 DEF Placed

(* Where the n-th of some written fields ends and the next one begins.     *)
Reached(fields, n) == 1 + Sums(EachOf(fields))[n]

(* How many bytes each field takes.                                        *)
LEMMA EachOfType ==
  ASSUME NEW S, NEW s \in Seq(Pairs(S))
  PROVE  /\ EachOf(s) \in Seq(Int) /\ Len(EachOf(s)) = Len(s) /\ Len(s) \in Nat
         /\ \A i \in 1..Len(s) : EachOf(s)[i] = Each(s[i]) /\ Each(s[i]) \in Nat /\ s[i] \in Pairs(S)
<1>1. \A i \in 1..Len(s) : s[i] \in Pairs(S)
  OBVIOUS
<1>2. \A i \in 1..Len(s) : Each(s[i]) \in Nat
  BY <1>1, EachType
<1>3. DOMAIN s = 1..Len(s) /\ Len(s) \in Nat
  OBVIOUS
<1> HIDE DEF Each
<1>4. EachOf(s) \in [1..Len(s) -> Int] /\ \A i \in 1..Len(s) : EachOf(s)[i] = Each(s[i])
  BY <1>2, <1>3 DEF EachOf
<1>5. \A N \in Nat : \A f \in [1..N -> Int] : f \in Seq(Int) /\ Len(f) = N
  OBVIOUS
<1>6. EachOf(s) \in Seq(Int) /\ Len(EachOf(s)) = Len(s)
  BY <1>3, <1>4, <1>5
<1> QED  BY <1>1, <1>2, <1>3, <1>4, <1>6

(* Each field ends its bytes further on than the one before.               *)
LEMMA ReachedIs ==
  ASSUME NEW S, NEW s \in Seq(Pairs(S))
  PROVE  /\ Reached(s, 0) = 1
         /\ \A n \in 1..Len(s) : Reached(s, n) = Reached(s, n - 1) + Each(s[n])
         /\ \A n \in 0..Len(s) : Reached(s, n) \in Nat \ {0}
<1> DEFINE e == EachOf(s)
           N == Len(s)
<1>1. e \in Seq(Int) /\ Len(e) = N /\ N \in Nat /\ \A i \in 1..N : e[i] = Each(s[i]) /\ Each(s[i]) \in Nat
  BY EachOfType
<1> HIDE DEF e
<1>2. Sums(e) = [n \in 0..Len(e) |-> IF n = 0 THEN 0 ELSE Sums(e)[n - 1] + e[n]]
      /\ Sums(e) \in [0..Len(e) -> Int]
  BY <1>1, SumsDef
<1>3. Sums(e)[0] = 0 /\ \A n \in 1..N : Sums(e)[n] = Sums(e)[n - 1] + e[n]
  <2> DEFINE f == Sums(e)
  <2> HIDE DEF f
  <2>1. f = [n \in 0..N |-> IF n = 0 THEN 0 ELSE f[n - 1] + e[n]]
    BY <1>1, <1>2 DEF f
  <2>2. f[0] = 0 /\ \A n \in 1..N : f[n] = f[n - 1] + e[n]
    BY <1>1, <2>1
  <2> QED  BY <2>2 DEF f
<1>4. \A n \in 0..N : Sums(e)[n] \in Int /\ Reached(s, n) = 1 + Sums(e)[n]
  BY <1>1, <1>2 DEF Reached, e
<1>5. Reached(s, 0) = 1
  BY <1>1, <1>3, <1>4
<1>6. ASSUME NEW n \in 1..N  PROVE Reached(s, n) = Reached(s, n - 1) + Each(s[n])
  <2>1. n - 1 \in 0..N /\ n \in 0..N
    BY <1>1
  <2>2. Reached(s, n) = 1 + (Sums(e)[n - 1] + e[n]) /\ Reached(s, n - 1) = 1 + Sums(e)[n - 1]
    BY <1>3, <1>4, <2>1
  <2>3. Sums(e)[n - 1] \in Int /\ e[n] = Each(s[n]) /\ Each(s[n]) \in Nat
    BY <1>1, <1>4, <2>1
  <2> HIDE DEF Each
  <2> QED  BY <2>2, <2>3
<1> DEFINE U == {n \in Nat : n \in 0..N => Reached(s, n) \in Nat \ {0}}
<1>7. 0 \in U
  BY <1>5
<1>8. ASSUME NEW n \in Nat, n \in U  PROVE n + 1 \in U
  <2> SUFFICES ASSUME n + 1 \in 0..N  PROVE Reached(s, n + 1) \in Nat \ {0}
    OBVIOUS
  <2>1. n + 1 \in 1..N /\ n \in 0..N /\ (n + 1) - 1 = n
    BY <1>1
  <2>2. Reached(s, n + 1) = Reached(s, n) + Each(s[n + 1]) /\ Reached(s, n) \in Nat \ {0} /\ Each(s[n + 1]) \in Nat
    BY <1>1, <1>6, <1>8, <2>1
  <2> HIDE DEF Each
  <2> QED  BY <2>2
<1> HIDE DEF U
<1>9. \A n \in Nat : n \in U
  BY <1>7, <1>8, Induction
<1> QED  BY <1>1, <1>5, <1>6, <1>9 DEF U

(* The last field ends where what is written does.                         *)
LEMMA ReachedAll ==
  ASSUME NEW S, NEW sep, Alphabet(S, sep), NEW s \in Seq(Pairs(S))
  PROVE  Reached(s, Len(s)) = 1 + Len(WrittenAll(s, sep))
<1>1. Len(EachOf(s)) = Len(s)
  BY EachOfType
<1>2. Len(WrittenAll(s, sep)) = Sums(EachOf(s))[Len(s)]
  BY <1>1, TotalOfWritten DEF Total
<1> QED  BY <1>2 DEF Reached

(* One more field does not move those before it.                           *)
LEMMA ReachedAppend ==
  ASSUME NEW S, NEW s \in Seq(Pairs(S)), NEW x \in Pairs(S), NEW n \in 0..Len(s)
  PROVE  Reached(Append(s, x), n) = Reached(s, n)
<1> DEFINE t == Append(s, x)
<1>1. t \in Seq(Pairs(S)) /\ Len(t) = Len(s) + 1 /\ Len(s) \in Nat /\ \A i \in 1..Len(s) : t[i] = s[i]
  OBVIOUS
<1> HIDE DEF t
<1>2. /\ EachOf(s) \in Seq(Int) /\ EachOf(t) \in Seq(Int)
      /\ Len(EachOf(s)) = Len(s) /\ Len(EachOf(t)) = Len(t)
      /\ \A i \in 1..Len(s) : EachOf(s)[i] = Each(s[i])
      /\ \A i \in 1..Len(t) : EachOf(t)[i] = Each(t[i])
  BY <1>1, EachOfType
<1>3. \A i \in 1..n : EachOf(s)[i] = EachOf(t)[i]
  <2> TAKE i \in 1..n
  <2>1. i \in 1..Len(s) /\ i \in 1..Len(t)
    BY <1>1
  <2> QED  BY <1>1, <1>2, <2>1
<1>4. n \in Nat /\ n <= Len(EachOf(s)) /\ n <= Len(EachOf(t))
  BY <1>1, <1>2
<1>5. Sums(EachOf(s))[n] = Sums(EachOf(t))[n]
  BY <1>2, <1>3, <1>4, SumsOfPrefix
<1> QED  BY <1>5 DEF Reached, t

(* The fields are written in raw, from its beginning.                      *)
AllPlaced(raw, fields, sep) ==
  \A n \in 1..Len(fields) :
     Placed(raw, Reached(fields, n - 1), Written(fields[n].tag, fields[n].value, sep))

(* Written fields are where they should be.                                *)
LEMMA WrittenPlaced ==
  ASSUME NEW S, NEW sep, Alphabet(S, sep)
  PROVE  \A s \in Seq(Pairs(S)) : AllPlaced(WrittenAll(s, sep), s, sep)
<1> DEFINE T == {s \in Seq(Pairs(S)) : AllPlaced(WrittenAll(s, sep), s, sep)}
<1>1. <<>> \in T
  BY DEF AllPlaced
<1>2. ASSUME NEW s \in Seq(Pairs(S)), NEW x \in Pairs(S), s \in T  PROVE Append(s, x) \in T
  <2> DEFINE t == Append(s, x)
             w == Written(x.tag, x.value, sep)
             a == WrittenAll(s, sep)
  <2>1. t \in Seq(Pairs(S)) /\ Len(t) = Len(s) + 1 /\ Len(s) \in Nat /\ t[Len(s) + 1] = x
        /\ \A i \in 1..Len(s) : t[i] = s[i] /\ s[i] \in Pairs(S)
    OBVIOUS
  <2>2. WrittenAll(t, sep) = Cat(a, w)
    BY WrittenAllAppend DEF Cat
  <2>3. a \in Seq(S)
    BY WrittenAllType
  <2>4. w \in Seq(S)
    BY WrittenType DEF Pairs
  <2>5. Reached(s, Len(s)) = 1 + Len(a) /\ \A n \in 0..Len(s) : Reached(t, n) = Reached(s, n) /\ Reached(s, n) \in Nat \ {0}
    BY ReachedAll, ReachedAppend, ReachedIs
  <2>6. AllPlaced(a, s, sep)
    BY <1>2
  <2> HIDE DEF t, a
  <2>7. ASSUME NEW n \in 1..Len(s)
        PROVE  Placed(Cat(a, w), Reached(t, n - 1), Written(t[n].tag, t[n].value, sep))
    <3> DEFINE wn == Written(s[n].tag, s[n].value, sep)
    <3>1. n - 1 \in 0..Len(s)
      BY <2>1
    <3>2. Placed(a, Reached(s, n - 1), wn)
      BY <2>6 DEF AllPlaced
    <3>3. s[n].tag \in Ints /\ s[n].value \in Seq(S)
      BY <2>1 DEF Pairs
    <3>4. Len(wn) \in Nat
      BY <3>3, WrittenType
    <3> HIDE DEF wn, w
    <3>5. Placed(Cat(a, w), Reached(s, n - 1), wn)
      <4>1. PICK q \in Nat \ {0} : q = Reached(s, n - 1)
        BY <2>5, <3>1
      <4>2. Placed(a, q, wn)
        BY <3>2, <4>1
      <4>3. Placed(Cat(a, w), q, wn)
        BY <2>3, <2>4, <3>4, <4>2, PlacedMore
      <4> QED  BY <4>1, <4>3
    <3>6. Reached(t, n - 1) = Reached(s, n - 1) /\ t[n] = s[n]
      BY <2>1, <2>5, <3>1
    <3> QED  BY <3>5, <3>6 DEF wn
  <2>8. Placed(Cat(a, w), Reached(t, Len(s)), w)
    <3>1. Len(s) \in 0..Len(s) /\ Len(a) + 1 = 1 + Len(a)
      BY <2>1, <2>3
    <3>2. Reached(t, Len(s)) = Len(a) + 1
      BY <2>5, <3>1
    <3> HIDE DEF w
    <3> QED  BY <2>3, <2>4, <3>2, PlacedEnd
  <2>9. AllPlaced(Cat(a, w), t, sep)
    <3> SUFFICES ASSUME NEW n \in 1..Len(t)
                 PROVE  Placed(Cat(a, w), Reached(t, n - 1), Written(t[n].tag, t[n].value, sep))
      BY DEF AllPlaced
    <3>1. CASE n \in 1..Len(s)
      BY <2>7, <3>1
    <3>2. CASE n = Len(s) + 1
      <4>1. n - 1 = Len(s) /\ t[n] = x
        BY <2>1, <3>2
      <4> QED  BY <2>8, <4>1
    <3> QED  BY <2>1, <3>1, <3>2
  <2> QED  BY <2>1, <2>2, <2>9 DEF t, a
<1> HIDE DEF T
<1>3. \A s \in Seq(Pairs(S)) : s \in T
  BY <1>1, <1>2, SeqInduction
<1> QED  BY <1>3 DEF T

(* A turn that goes on.                                                    *)
LEMMA NextFieldGoesOn ==
  ASSUME NEW raw \in Seq(Int), NEW sep, NEW turn \in TurnSet(raw),
         turn.error = "None", turn.pos <= Len(raw), Len(turn.fields) # MAX_FIELDS,
         TagEnd(raw, turn.pos) <= Len(raw), ValueEnd(raw, sep, turn.pos) <= Len(raw), IsTagAt(raw, turn.pos),
         turn.fields = <<>> => TagAt(raw, turn.pos).value = 8,
         Len(turn.fields) = 1 => TagAt(raw, turn.pos).value = 9
  PROVE  Advances(raw, sep, turn, NextField(raw, sep, turn))
<1> DEFINE at == turn.pos
           fields == turn.fields
           Ended(why) == [turn EXCEPT !.error = why]
           v == ValueEnd(raw, sep, at)
           e == TagEnd(raw, at)
           tag == TagAt(raw, at).value
           next == [turn EXCEPT !.pos = v + 1, !.fields = Append(fields, FieldAt(raw, sep, at))]
           fld == Append(fields, FieldAt(raw, sep, at))
<1>1. at \in 1..(Len(raw) + 1) /\ Len(raw) \in Nat
  BY DEF TurnSet
<1>2. e \in Int /\ v \in Int
  BY <1>1, EndsAre
<1>3. NextField(raw, sep, turn) =
        IF turn.error # "None" THEN turn
        ELSE IF at > Len(raw) THEN Ended("Ok")
        ELSE IF Full(fields) THEN Ended("TooManyFields")
        ELSE IF e > Len(raw) /\ Trailing(raw, at, sep) THEN Ended("Ok")
        ELSE IF v > Len(raw) \/ ~IsTagAt(raw, at) THEN Ended("InvalidFormat")
        ELSE IF fields = <<>> /\ tag # 8 THEN Ended("InvalidBeginString")
        ELSE IF Len(fields) = 1 /\ tag # 9 THEN Ended("MissingBodyLength")
        ELSE next
  BY DEF NextField
<1>4. next.error = turn.error /\ next.pos = v + 1 /\ next.fields = fld
  <2>1. next = [turn EXCEPT !.pos = v + 1, !.fields = fld]
    OBVIOUS
  <2>2. \A a, b : [turn EXCEPT !.pos = a, !.fields = b].error = turn.error
               /\ [turn EXCEPT !.pos = a, !.fields = b].pos = a
               /\ [turn EXCEPT !.pos = a, !.fields = b].fields = b
    BY DEF TurnSet
  <2> HIDE DEF fld, v, next
  <2> QED  BY <2>1, <2>2
<1>5. Full(fields) <=> Len(fields) = MAX_FIELDS
  BY DEF Full
<1>6. /\ turn.error = "None" /\ at <= Len(raw) /\ Len(fields) # MAX_FIELDS /\ e <= Len(raw)
      /\ v <= Len(raw) /\ IsTagAt(raw, at) /\ (fields = <<>> => tag = 8) /\ (Len(fields) = 1 => tag = 9)
  OBVIOUS
<1>7. Advances(raw, sep, turn, next) <=>
        /\ turn.error = "None" /\ at <= Len(raw) /\ Len(fields) # MAX_FIELDS
        /\ v <= Len(raw) /\ IsTagAt(raw, at)
        /\ fields = <<>> => tag = 8
        /\ Len(fields) = 1 => tag = 9
        /\ next.error = "None" /\ next.pos = v + 1 /\ next.fields = fld
  BY DEF Advances
<1>8. ~(at > Len(raw)) /\ ~(e > Len(raw)) /\ ~(v > Len(raw))
  BY <1>1, <1>2, <1>6
<1> HIDE DEF at, fields, v, e, tag, next, fld, Ended
<1>9. NextField(raw, sep, turn) = next
  BY <1>3, <1>5, <1>6, <1>8
<1>10. next.error = "None"
  BY <1>4, <1>6
<1> QED  BY <1>4, <1>6, <1>7, <1>9, <1>10

(* The last turn.                                                          *)
LEMMA NextFieldEnds ==
  ASSUME NEW raw \in Seq(Int), NEW sep, NEW turn \in TurnSet(raw), turn.error = "None",
         turn.pos > Len(raw) \/
           (Len(turn.fields) # MAX_FIELDS /\ TagEnd(raw, turn.pos) > Len(raw) /\ Trailing(raw, turn.pos, sep))
  PROVE  NextField(raw, sep, turn).error = "Ok" /\ NextField(raw, sep, turn).fields = turn.fields
<1> DEFINE at == turn.pos
           fields == turn.fields
           Ended(why) == [turn EXCEPT !.error = why]
           v == ValueEnd(raw, sep, at)
           e == TagEnd(raw, at)
           tag == TagAt(raw, at).value
           next == [turn EXCEPT !.pos = v + 1, !.fields = Append(fields, FieldAt(raw, sep, at))]
<1>1. at \in 1..(Len(raw) + 1) /\ Len(raw) \in Nat
  BY DEF TurnSet
<1>2. \A why : Ended(why).error = why /\ Ended(why).fields = fields
  BY DEF TurnSet
<1>3. NextField(raw, sep, turn) =
        IF turn.error # "None" THEN turn
        ELSE IF at > Len(raw) THEN Ended("Ok")
        ELSE IF Full(fields) THEN Ended("TooManyFields")
        ELSE IF e > Len(raw) /\ Trailing(raw, at, sep) THEN Ended("Ok")
        ELSE IF v > Len(raw) \/ ~IsTagAt(raw, at) THEN Ended("InvalidFormat")
        ELSE IF fields = <<>> /\ tag # 8 THEN Ended("InvalidBeginString")
        ELSE IF Len(fields) = 1 /\ tag # 9 THEN Ended("MissingBodyLength")
        ELSE next
  BY DEF NextField
<1>4. Full(fields) <=> Len(fields) = MAX_FIELDS
  BY DEF Full
<1>5. /\ turn.error = "None"
      /\ at > Len(raw) \/ (Len(fields) # MAX_FIELDS /\ e > Len(raw) /\ Trailing(raw, at, sep))
  OBVIOUS
<1>6. Ended("Ok").error = "Ok" /\ Ended("Ok").fields = fields
  BY <1>2
<1> HIDE DEF at, fields, v, e, tag, next, Ended
<1>7. NextField(raw, sep, turn) = Ended("Ok")
  BY <1>3, <1>4, <1>5
<1> QED  BY <1>6, <1>7 DEF fields

(* A loop that has ended stays as it is.                                   *)
LEMMA NextFieldEnded ==
  ASSUME NEW raw, NEW sep, NEW turn, turn.error # "None"
  PROVE  NextField(raw, sep, turn) = turn
BY DEF NextField

(* What has ended stays as it is.                                          *)
LEMMA TurnsStay ==
  ASSUME NEW raw \in Seq(Int), NEW sep, NEW n \in 0..(Len(raw) + 1), Turns(raw, sep)[n].error # "None"
  PROVE  LastTurn(raw, sep) = Turns(raw, sep)[n]
<1> DEFINE t == Turns(raw, sep)
           N == Len(raw) + 1
           U == {k \in Nat : n + k \in 0..N => t[n + k] = t[n]}
<1>0. Len(raw) \in Nat /\ N \in Nat
  OBVIOUS
<1>1. 0 \in U
  OBVIOUS
<1>2. ASSUME NEW k \in Nat, k \in U  PROVE k + 1 \in U
  <2> SUFFICES ASSUME n + (k + 1) \in 0..N  PROVE t[n + (k + 1)] = t[n]
    OBVIOUS
  <2>1. PICK m \in 1..N : m = n + (k + 1) /\ m - 1 = n + k /\ n + k \in 0..N
    BY <1>0
  <2>2. t[m] = NextField(raw, sep, t[m - 1])
    BY <2>1, TurnsDef
  <2>3. t[m - 1] = t[n]
    BY <1>2, <2>1
  <2>4. t[n] \in TurnSet(raw) /\ t[n].error # "None"
    BY TurnShape
  <2> HIDE DEF t
  <2>5. NextField(raw, sep, t[n]) = t[n]
    BY <2>4, NextFieldEnded
  <2> QED  BY <2>1, <2>2, <2>3, <2>5
<1> HIDE DEF U
<1>3. \A k \in Nat : k \in U
  BY <1>1, <1>2, Induction
<1>4. PICK k \in Nat : k = N - n
  BY <1>0
<1>5. n + k = N /\ N \in 0..N
  BY <1>0, <1>4
<1>6. t[N] = t[n]
  BY <1>3, <1>5 DEF U
<1> QED  BY <1>6 DEF LastTurn
PieceOf(fields, i) ==
  [tag |-> fields[i].tag, value |-> fields[i].value,
   from |-> Reached(fields, i - 1), next |-> Reached(fields, i)]

(* The first n of some written fields have been read.                      *)
Behind(turn, fields, n) ==
  /\ turn.error = "None" /\ turn.pos = Reached(fields, n)
  /\ Len(turn.fields) = n /\ \A i \in 1..n : turn.fields[i] = PieceOf(fields, i)

(* Fields a message may consist of.                                        *)
Readable(fields, sep) ==
  /\ Len(fields) <= MAX_FIELDS
  /\ Len(fields) >= 1 => fields[1].tag = 8
  /\ Len(fields) >= 2 => fields[2].tag = 9
  /\ \A i \in 1..Len(fields) : Lacks(fields[i].value, sep)

(* How many bytes a written field takes.                                   *)
LEMMA WrittenLength ==
  ASSUME NEW S, NEW sep, Alphabet(S, sep), NEW x \in Pairs(S)
  PROVE  Each(x) = Len(Written(x.tag, x.value, sep)) /\ Each(x) \in Nat /\ x.tag \in Ints /\ x.value \in Seq(S)
<1>1. PICK t \in Ints, v \in Seq(S) : t = x.tag /\ v = x.value
  BY DEF Pairs
<1>2. Len(Written(t, v, sep)) = Len(ToChars(t)) + Len(v) + 2
  BY WrittenType
<1>3. Each(x) \in Nat
  BY EachType
<1> QED  BY <1>1, <1>2, <1>3 DEF Each

(* The loop of parse reads the next of the fields that were written        *)
(* (parser.cpp:36-98).                                                     *)
LEMMA OneMoreRead ==
  ASSUME NEW S, S \subseteq Int, NEW sep, sep # Equals, Alphabet(S, sep), NEW s \in Seq(Pairs(S)),
         Readable(s, sep), NEW raw \in Seq(Int), AllPlaced(raw, s, sep),
         NEW n \in Nat, n + 1 <= Len(s), NEW turn \in TurnSet(raw), Behind(turn, s, n)
  PROVE  Behind(NextField(raw, sep, turn), s, n + 1)
<1>1. PICK k \in 1..Len(s) : k = n + 1 /\ k - 1 = n /\ n \in 0..Len(s) /\ Len(s) \in Nat
  OBVIOUS
<1>a. PICK x \in Pairs(S) : x = s[k]
  BY EachOfType
<1>b. PICK t \in Ints, v \in Seq(S) : t = x.tag /\ v = x.value
  BY WrittenLength
<1>2. s[k] = x /\ s[k].tag = t /\ s[k].value = v
  BY <1>a, <1>b
<1>c. PICK w : w = Written(t, v, sep)
  OBVIOUS
<1>d. Each(x) = Len(w) /\ Each(x) \in Nat
  BY <1>b, <1>c, WrittenLength
<1>e. /\ Reached(s, n) \in Nat \ {0} /\ Reached(s, k) = Reached(s, n) + Each(x)
  BY <1>1, <1>2, ReachedIs
<1>f. PICK at \in Nat \ {0} : at = Reached(s, n)
  BY <1>e
<1>g. PICK next : next = Reached(s, k)
  OBVIOUS
<1>7. next = at + Len(w) /\ w = Written(t, v, sep)
  BY <1>c, <1>d, <1>e, <1>f, <1>g
<1>5. Placed(raw, at, w)
  BY <1>1, <1>2, <1>c, <1>f, <1>g DEF AllPlaced
<1>6. Lacks(v, sep)
  BY <1>1, <1>2 DEF Readable
<1> DEFINE f == FieldAt(raw, sep, at)
<1>8. /\ TagEnd(raw, at) <= Len(raw)
      /\ ValueEnd(raw, sep, at) = next - 1 /\ next - 1 <= Len(raw)
      /\ IsTagAt(raw, at) /\ TagAt(raw, at).value = t
      /\ f = [tag |-> t, value |-> v, from |-> at, next |-> next]
      /\ next \in Nat /\ at < next
  <2>1. ReadsAs(raw, sep, at, t, v, next)
    BY <1>5, <1>6, <1>7, ReadsWritten
  <2> QED  BY <2>1 DEF ReadsAs
<1>9. /\ turn.error = "None" /\ turn.pos = at /\ Len(turn.fields) = n
      /\ \A i \in 1..n : turn.fields[i] = PieceOf(s, i)
  BY <1>f, <1>g DEF Behind
<1>10. Len(raw) \in Nat /\ at <= Len(raw) /\ MAX_FIELDS \in Nat /\ n < MAX_FIELDS /\ n # MAX_FIELDS
  BY <1>1, <1>8, CodecAssumption DEF Readable
<1>11. n = 0 => t = 8
  BY <1>1, <1>2 DEF Readable
<1>12. n = 1 => t = 9
  BY <1>1, <1>2 DEF Readable
<1>13. turn.fields \in Seq(ReadFields)
  BY DEF TurnSet
<1> DEFINE after == NextField(raw, sep, turn)
           fs == turn.fields
<1>14. Advances(raw, sep, turn, after)
  <2>1. turn.pos <= Len(raw) /\ Len(turn.fields) # MAX_FIELDS
    BY <1>9, <1>10
  <2>2. TagEnd(raw, turn.pos) <= Len(raw) /\ ValueEnd(raw, sep, turn.pos) <= Len(raw) /\ IsTagAt(raw, turn.pos)
    BY <1>8, <1>9
  <2>3. turn.fields = <<>> => TagAt(raw, turn.pos).value = 8
    <3>1. turn.fields = <<>> => n = 0
      BY <1>9
    <3> QED  BY <1>8, <1>9, <1>11, <3>1
  <2>4. Len(turn.fields) = 1 => TagAt(raw, turn.pos).value = 9
    BY <1>8, <1>9, <1>12
  <2>5. turn.error = "None"
    BY <1>9
  <2> QED  BY <2>1, <2>2, <2>3, <2>4, <2>5, NextFieldGoesOn
<1>15. after.error = "None" /\ after.pos = ValueEnd(raw, sep, at) + 1 /\ after.fields = Append(fs, f)
  BY <1>9, <1>14 DEF Advances
<1>16. f \in ReadFields
  <2>1. v \in Seq(Int)
    BY SeqMonotonic
  <2> QED  BY <1>8, <2>1 DEF ReadFields
<1> HIDE DEF f, fs, after, ReadFields
<1>17. fs \in Seq(ReadFields) /\ Len(fs) = n
  BY <1>9, <1>13 DEF fs
<1>18. Len(Append(fs, f)) = n + 1 /\ (\A i \in 1..n : Append(fs, f)[i] = fs[i]) /\ Append(fs, f)[n + 1] = f
  BY <1>16, <1>17
<1>19. f = PieceOf(s, n + 1)
  <2>1. (n + 1) - 1 = n
    OBVIOUS
  <2> QED  BY <1>1, <1>2, <1>8, <1>f, <1>g, <2>1 DEF PieceOf
<1>20. after.pos = Reached(s, n + 1)
  <2>1. (next - 1) + 1 = next
    BY <1>8
  <2> QED  BY <1>1, <1>8, <1>15, <1>f, <1>g, <2>1
<1>21. \A i \in 1..(n + 1) : Append(fs, f)[i] = PieceOf(s, i)
  <2> TAKE i \in 1..(n + 1)
  <2>0. i \in 1..n \/ i = n + 1
    OBVIOUS
  <2>1. CASE i \in 1..n
    BY <1>9, <1>18, <2>1 DEF fs
  <2>2. CASE i = n + 1
    BY <1>18, <1>19, <2>2
  <2> QED  BY <2>0, <2>1, <2>2
<1>22. Behind(after, s, n + 1)
  BY <1>15, <1>18, <1>20, <1>21 DEF Behind
<1> QED  BY <1>22 DEF after

(* The loop of parse reads all of the fields that were written             *)
(* (parser.cpp:36-98).                                                     *)
LEMMA ScanReads ==
  ASSUME NEW S, S \subseteq Int, NEW sep, sep # Equals, Alphabet(S, sep), NEW s \in Seq(Pairs(S)),
         Readable(s, sep), NEW raw \in Seq(Int), AllPlaced(raw, s, sep)
  PROVE  Len(s) <= Len(raw) /\ Behind(Turns(raw, sep)[Len(s)], s, Len(s))
<1> DEFINE t == Turns(raw, sep)
           U == {n \in Nat : n <= Len(s) => n <= Len(raw) /\ Behind(t[n], s, n)}
<1>0. Len(raw) \in Nat /\ Len(s) \in Nat
  OBVIOUS
<1>1. 0 \in U
  <2>1. Reached(s, 0) = 1
    BY ReachedIs
  <2>2. t[0] = FirstTurn
    BY TurnsDef
  <2>3. FirstTurn.error = "None" /\ FirstTurn.pos = 1 /\ FirstTurn.fields = <<>>
    BY DEF FirstTurn
  <2> HIDE DEF t
  <2> QED  BY <1>0, <2>1, <2>2, <2>3 DEF Behind
<1>2. ASSUME NEW n \in Nat, n \in U  PROVE n + 1 \in U
  <2> SUFFICES ASSUME n + 1 <= Len(s)  PROVE n + 1 <= Len(raw) /\ Behind(t[n + 1], s, n + 1)
    OBVIOUS
  <2>1. n <= Len(raw) /\ Behind(t[n], s, n)
    BY <1>0, <1>2
  <2>2. n + 1 \in 1..(Len(raw) + 1) /\ (n + 1) - 1 = n /\ n \in 0..(Len(raw) + 1) /\ n + 1 \in 0..(Len(raw) + 1)
    BY <1>0, <2>1
  <2>3. t[n + 1] = NextField(raw, sep, t[n])
    BY <2>2, TurnsDef
  <2>4. t[n] \in TurnSet(raw)
    BY <2>2, TurnShape
  <2>5. t[n + 1] \in TurnSet(raw) /\ (t[n + 1].error = "None" => t[n + 1].pos > n + 1)
    BY <2>2, TurnShape
  <2> HIDE DEF t
  <2>6. Behind(t[n + 1], s, n + 1)
    BY <2>1, <2>3, <2>4, OneMoreRead
  <2>7. t[n + 1].pos > n + 1 /\ t[n + 1].pos \in 1..(Len(raw) + 1)
    BY <2>5, <2>6 DEF Behind, TurnSet
  <2> QED  BY <1>0, <2>6, <2>7
<1> HIDE DEF U
<1>3. \A n \in Nat : n \in U
  BY <1>1, <1>2, Induction
<1> QED  BY <1>0, <1>3 DEF U

(* Nothing is behind the fields, or the line feed that a file ends in.     *)
Ends(raw, fields) ==
  \/ Reached(fields, Len(fields)) = Len(raw) + 1
  \/ /\ Reached(fields, Len(fields)) = Len(raw) /\ raw[Len(raw)] = LineFeed
     /\ Len(fields) # MAX_FIELDS

(* The loop has ended well with these fields.                              *)
AllRead(last, raw, fields) ==
  /\ last.error = "Ok" /\ Len(fields) <= Len(raw)
  /\ Len(last.fields) = Len(fields)
  /\ \A i \in 1..Len(fields) : last.fields[i] = PieceOf(fields, i)

(* The loop ends well with all of the fields that were written             *)
(* (parser.cpp:36-98).                                                     *)
LEMMA ScanEnds ==
  ASSUME NEW S, S \subseteq Int, NEW sep, sep # Equals, Alphabet(S, sep), NEW s \in Seq(Pairs(S)),
         Readable(s, sep), NEW raw \in Seq(Int), AllPlaced(raw, s, sep), Ends(raw, s)
  PROVE  AllRead(LastTurn(raw, sep), raw, s)
<1> DEFINE t == Turns(raw, sep)
           n == Len(s)
           turn == t[n]
<1>0. Len(raw) \in Nat /\ n \in Nat
  OBVIOUS
<1>1. n <= Len(raw) /\ Behind(turn, s, n)
  BY ScanReads
<1>2. n \in 0..(Len(raw) + 1) /\ n + 1 \in 1..(Len(raw) + 1) /\ (n + 1) - 1 = n /\ n + 1 \in 0..(Len(raw) + 1)
  BY <1>0, <1>1
<1>3. turn \in TurnSet(raw)
  BY <1>2, TurnShape
<1>4. t[n + 1] = NextField(raw, sep, turn)
  BY <1>2, TurnsDef
<1> HIDE DEF turn
<1>5. turn.error = "None" /\ turn.pos = Reached(s, n) /\ Len(turn.fields) = n
      /\ \A i \in 1..n : turn.fields[i] = PieceOf(s, i)
  BY <1>1 DEF Behind
<1>6. turn.pos > Len(raw) \/
        (Len(turn.fields) # MAX_FIELDS /\ TagEnd(raw, turn.pos) > Len(raw) /\ Trailing(raw, turn.pos, sep))
  <2>1. CASE Reached(s, n) = Len(raw) + 1
    BY <1>0, <1>5, <2>1
  <2>2. CASE Reached(s, n) = Len(raw) /\ raw[Len(raw)] = LineFeed /\ n # MAX_FIELDS
    <3>1. PICK at : at = turn.pos
      OBVIOUS
    <3>2. at = Len(raw) /\ at \in 1..(Len(raw) + 1) /\ raw[at] = LineFeed
      BY <1>3, <1>5, <2>2, <3>1 DEF TurnSet
    <3>3. /\ Find(raw, Equals, at) \in at..(Len(raw) + 1)
          /\ Find(raw, Equals, at) <= Len(raw) => raw[Find(raw, Equals, at)] = Equals
      BY <3>2, FindProps
    <3>4. LineFeed # Equals
      BY DEF LineFeed, Equals
    <3>5. Find(raw, Equals, at) > Len(raw)
      BY <1>0, <3>2, <3>3, <3>4
    <3>6. Trailing(raw, at, sep)
      <4>1. \A p \in at..Len(raw) : p = at
        BY <1>0, <3>2
      <4> QED  BY <3>2, <4>1 DEF Trailing
    <3> QED  BY <1>5, <2>2, <3>1, <3>5, <3>6 DEF TagEnd
  <2> QED  BY <2>1, <2>2 DEF Ends
<1>7. t[n + 1].error = "Ok" /\ t[n + 1].fields = turn.fields
  BY <1>3, <1>4, <1>5, <1>6, NextFieldEnds
<1>8. LastTurn(raw, sep) = t[n + 1]
  <2>1. PICK k \in 0..(Len(raw) + 1) : k = n + 1
    BY <1>2
  <2>2. t[k].error # "None"
    BY <1>7, <2>1
  <2>3. LastTurn(raw, sep) = t[k]
    BY <2>2, TurnsStay
  <2> QED  BY <2>1, <2>3
<1> QED  BY <1>1, <1>5, <1>7, <1>8 DEF AllRead

(* The length and the checksum are those of what is there.                 *)
Sealed(raw, fields) ==
  LET last == Len(fields)
      length == Reached(fields, last - 1) - Reached(fields, 2)
      summed == SubSeq(raw, 1, Reached(fields, last - 1) - 1)
  IN /\ last >= 3 /\ fields[last].tag = 10
     /\ length \in Ints /\ fields[2].value = ToChars(length)
     /\ summed \in Seq(Int) /\ fields[last].value = ThreeDigits(SumOf(summed))

(* parse has returned these fields.                                        *)
ParsedAs(parsed, fields) ==
  /\ parsed.error = "Ok" /\ Len(parsed.fields) = Len(fields)
  /\ \A i \in 1..Len(fields) : parsed.fields[i] = PieceOf(fields, i)

(* parse gives back exactly the fields that were written, in their order   *)
(* and where they are, if they can be told apart: no separator within a    *)
(* value, no more than MAX_FIELDS, the tags 8 and 9 in front, 10 at the    *)
(* end, and the right length and checksum. (parser.cpp:26-152)             *)
THEOREM ParsesWritten ==
  ASSUME NEW S, S \subseteq Int, NEW sep, sep # Equals, Alphabet(S, sep), NEW s \in Seq(Pairs(S)),
         Readable(s, sep), NEW raw \in Seq(Int), AllPlaced(raw, s, sep), Ends(raw, s), Sealed(raw, s)
  PROVE  ParsedAs(parse(raw, sep), s)
<1> DEFINE fs == LastTurn(raw, sep).fields
<1>0. PICK n \in Nat : n = Len(s)
  OBVIOUS
<1>1. LastTurn(raw, sep).error = "Ok" /\ n <= Len(raw) /\ Len(fs) = n /\ \A i \in 1..n : fs[i] = PieceOf(s, i)
  <2>1. /\ LastTurn(raw, sep).error = "Ok" /\ Len(s) <= Len(raw) /\ Len(fs) = Len(s)
        /\ \A i \in 1..Len(s) : fs[i] = PieceOf(s, i)
    <3>1. AllRead(LastTurn(raw, sep), raw, s)
      BY ScanEnds
    <3> QED  BY <3>1 DEF AllRead
  <2> HIDE DEF fs
  <2> QED  BY <1>0, <2>1
<1>2. PICK from, two : from = Reached(s, n - 1) /\ two = Reached(s, 2)
  OBVIOUS
<1>3. PICK length \in Ints, summed \in Seq(Int) : length = from - two /\ summed = SubSeq(raw, 1, from - 1)
  <2>1. /\ Reached(s, Len(s) - 1) - Reached(s, 2) \in Ints
        /\ SubSeq(raw, 1, Reached(s, Len(s) - 1) - 1) \in Seq(Int)
    BY DEF Sealed
  <2>2. from - two \in Ints /\ SubSeq(raw, 1, from - 1) \in Seq(Int)
    BY <1>0, <1>2, <2>1
  <2> QED  BY <2>2
<1>4. /\ n >= 3 /\ s[n].tag = 10 /\ s[2].value = ToChars(length)
      /\ s[n].value = ThreeDigits(SumOf(summed))
  BY <1>0, <1>2, <1>3 DEF Sealed
<1>5. 1 \in 1..n /\ 2 \in 1..n /\ n \in 1..n /\ 2 <= n /\ 1 <= n
  BY <1>4
<1>6. s[1].tag = 8 /\ s[2].tag = 9
  BY <1>0, <1>5 DEF Readable
<1>7. \A i \in 1..n : /\ fs[i].tag = s[i].tag /\ fs[i].value = s[i].value
                      /\ fs[i].from = Reached(s, i - 1) /\ fs[i].next = Reached(s, i)
  <2> HIDE DEF fs
  <2> SUFFICES ASSUME NEW i \in 1..n
               PROVE  /\ fs[i].tag = s[i].tag /\ fs[i].value = s[i].value
                      /\ fs[i].from = Reached(s, i - 1) /\ fs[i].next = Reached(s, i)
    OBVIOUS
  <2>1. fs[i] = [tag |-> s[i].tag, value |-> s[i].value, from |-> Reached(s, i - 1), next |-> Reached(s, i)]
    BY <1>1 DEF PieceOf
  <2> QED  BY <2>1
<1> HIDE DEF fs
<1>8. /\ fs[1].tag = 8 /\ fs[2].tag = 9 /\ fs[2].value = ToChars(length) /\ fs[2].next = two
      /\ fs[n].tag = 10 /\ fs[n].value = ThreeDigits(SumOf(summed)) /\ fs[n].from = from
  <2>1. fs[1].tag = 8 /\ fs[2].tag = 9
    BY <1>5, <1>6, <1>7
  <2>2. fs[2].value = ToChars(length) /\ fs[2].next = two
    BY <1>2, <1>4, <1>5, <1>7
  <2>3. fs[n].tag = 10 /\ fs[n].value = ThreeDigits(SumOf(summed))
    BY <1>4, <1>5, <1>7
  <2>4. fs[n].from = from
    BY <1>2, <1>5, <1>7
  <2> QED  BY <2>1, <2>2, <2>3, <2>4
<1>9. fs \in Seq(ReadFields)
  BY LastTurnType DEF fs, TurnSet
<1>10. Last(fs) = fs[n]
  BY <1>1 DEF Last
<1>11. HasInt(fs, 9) /\ GetInt(fs, 9) = length
  <2> DEFINE T == Positions(fs, 9)
  <2>1. DOMAIN fs = 1..n
    BY <1>1, <1>9
  <2>2. T \subseteq 1..n /\ 2 \in T /\ 1 \notin T
    BY <1>5, <1>8, <2>1 DEF Positions
  <2> HIDE DEF T
  <2>3. T \subseteq Nat /\ T # {}
    BY <2>2
  <2>4. Min(T) \in T /\ \A q \in T : Min(T) <= q
    BY <2>3, MinIsSmallest
  <2>5. Min(T) = 2
    <3>1. PICK m : m = Min(T)
      OBVIOUS
    <3>2. m \in 1..n /\ m # 1 /\ m <= 2
      BY <2>2, <2>4, <3>1
    <3>3. m = 2
      BY <3>2
    <3> QED  BY <3>1, <3>3
  <2>6. FromChars(ToChars(length)) = [ok |-> TRUE, value |-> length, length |-> Len(ToChars(length))]
    BY ToCharsIsRead
  <2>7. Get(fs, 9) = ToChars(length)
    BY <1>8, <2>5 DEF Get, T
  <2>8. FromChars(ToChars(length)).ok /\ FromChars(ToChars(length)).value = length
    BY <2>6
  <2> QED  BY <2>3, <2>7, <2>8 DEF HasInt, GetInt, Has, T
<1>12. BodyLength(fs) = length
  BY <1>3, <1>8, <1>10 DEF BodyLength
<1>13. Checked(raw, fs) = summed
  BY <1>3, <1>8, <1>10 DEF Checked
<1>14. PICK sum \in 0..255 : sum = SumOf(summed)
  BY SumOfType
<1>15. FromChars(ThreeDigits(sum)) = [ok |-> TRUE, value |-> sum, length |-> 3]
  BY ThreeDigitsAreRead
<1>16. FromChars(Last(fs).value).ok /\ FromChars(Last(fs).value).value = sum
  BY <1>8, <1>10, <1>14, <1>15
<1>17. raw # <<>>
  BY <1>1, <1>4
<1>18. WellFormed(raw, sep, fs)
  BY <1>1, <1>4, <1>8, <1>10, <1>11, <1>12, <1>13, <1>14, <1>16, <1>17 DEF WellFormed, fs
<1>19. parse(raw, sep) = [error |-> "Ok", fields |-> fs]
  BY <1>14, <1>16, <1>18, ParseIs DEF fs
<1> QED  BY <1>0, <1>1, <1>19 DEF ParsedAs

-----------------------------------------------------------------------------
(* parse, given what serialize_message wrote                               *)

(* The length and the checksum of a serialized message, its other fields,  *)
(* and all of them.                                                        *)
NineOf(fields, sep) == [tag |-> 9, value |-> ToChars(Len(Body(fields, sep)))]
TenOf(fields, sep) == [tag |-> 10, value |-> ThreeDigits(SumOf(Summed(fields, sep)))]
KeptOf(fields) == Without(Tail(fields), Generated)
Everything(fields, sep) ==
  Append(Cat(Append(<<fields[1]>>, NineOf(fields, sep)), KeptOf(fields)), TenOf(fields, sep))

(* A field, another, some more and a last one.                             *)
Joined(x, y, r, z) == Append(Cat(Append(<<x>>, y), r), z)

JoinedAs(e, x, y, r, z) ==
  /\ Len(e) = Len(r) + 3 /\ Len(r) \in Nat
  /\ e[1] = x /\ e[2] = y /\ e[Len(r) + 3] = z
  /\ \A i \in 1..Len(r) : e[i + 2] = r[i]

(* The fields of a serialized message, one by one.                         *)
LEMMA FourPieces ==
  ASSUME NEW S, NEW x \in S, NEW y \in S, NEW r \in Seq(S), NEW z \in S, NEW e,
         e = Joined(x, y, r, z)
  PROVE  e \in Seq(S) /\ JoinedAs(e, x, y, r, z)
<1> DEFINE a == Append(<<x>>, y)
           b == Cat(a, r)
<1>0. e = Append(b, z)
  BY DEF Joined
<1>1. a \in Seq(S) /\ Len(a) = 2 /\ a[1] = x /\ a[2] = y
  OBVIOUS
<1> HIDE DEF a
<1>2. b \in Seq(S) /\ Len(b) = Len(a) + Len(r) /\ Len(r) \in Nat
  BY <1>1, ConcatType DEF Cat
<1>3. (\A i \in 1..Len(a) : b[i] = a[i]) /\ (\A i \in 1..Len(r) : b[Len(a) + i] = r[i])
  <2>1. a \in Seq(S) /\ b = a \o r
    BY <1>1 DEF Cat
  <2> HIDE DEF b
  <2>2. (\A i \in 1..Len(a) : (a \o r)[i] = a[i]) /\ (\A i \in 1..Len(r) : (a \o r)[Len(a) + i] = r[i])
    BY <2>1, ConcatItems
  <2> QED  BY <2>1, <2>2
<1> HIDE DEF b
<1>5. e \in Seq(S) /\ Len(e) = Len(b) + 1 /\ e[Len(b) + 1] = z /\ (\A i \in 1..Len(b) : e[i] = b[i])
  <2>1. b \in Seq(S)
    BY <1>2
  <2>2. Append(b, z) \in Seq(S) /\ Len(Append(b, z)) = Len(b) + 1 /\ Append(b, z)[Len(b) + 1] = z
        /\ \A i \in 1..Len(b) : Append(b, z)[i] = b[i]
    BY <2>1
  <2> QED  BY <1>0, <2>2
<1>6. Len(b) = Len(r) + 2
  BY <1>1, <1>2
<1>7. e[1] = x /\ e[2] = y
  <2>1. 1 \in 1..Len(a) /\ 2 \in 1..Len(a) /\ 1 \in 1..Len(b) /\ 2 \in 1..Len(b)
    BY <1>1, <1>2, <1>6
  <2> QED  BY <1>1, <1>3, <1>5, <2>1
<1>8. ASSUME NEW i \in 1..Len(r)  PROVE e[i + 2] = r[i]
  <2>1. Len(a) + i = i + 2 /\ i + 2 \in 1..Len(b)
    BY <1>1, <1>2, <1>6
  <2> QED  BY <1>3, <1>5, <2>1
<1>9. Len(b) + 1 = Len(r) + 3
  BY <1>2, <1>6
<1> QED  BY <1>2, <1>5, <1>6, <1>7, <1>8, <1>9 DEF JoinedAs

(* Those fields, written, are the serialized message.                      *)
LEMMA EverythingIs ==
  ASSUME NEW S, NEW sep, Alphabet(S, sep), S \subseteq Int, NEW fields \in Seq(Pairs(S)), fields # <<>>,
         fields[1].tag = 8
  PROVE  /\ fields[1] \in Pairs(S) /\ NineOf(fields, sep) \in Pairs(S) /\ TenOf(fields, sep) \in Pairs(S)
         /\ KeptOf(fields) \in Seq(Pairs(S))
         /\ Everything(fields, sep) \in Seq(Pairs(S))
         /\ WrittenAll(Everything(fields, sep), sep) = Whole(fields, sep)
<1> DEFINE x == fields[1]
           y == NineOf(fields, sep)
           r == KeptOf(fields)
           z == TenOf(fields, sep)
<1>1. 9 \in Ints /\ 10 \in Ints
  BY SmallTags
<1>2. /\ Begun(fields, sep) \in Seq(S) /\ Body(fields, sep) \in Seq(S)
      /\ Sized(fields, sep) \in Seq(S) /\ Summed(fields, sep) \in Seq(S)
      /\ Trailer(fields, sep) \in Seq(S)
      /\ ToChars(Len(Body(fields, sep))) \in Seq(S)
      /\ ThreeDigits(SumOf(Summed(fields, sep))) \in Seq(S)
      /\ KeptOf(fields) \in Seq(Pairs(S))
  BY PartsType DEF KeptOf
<1>3. x \in Pairs(S)
  BY HeadAndTail
<1>4. y \in Pairs(S) /\ y.tag = 9 /\ y.value = ToChars(Len(Body(fields, sep)))
  BY <1>1, <1>2 DEF Pairs, NineOf
<1>5. z \in Pairs(S) /\ z.tag = 10 /\ z.value = ThreeDigits(SumOf(Summed(fields, sep)))
  BY <1>1, <1>2 DEF Pairs, TenOf
<1>6. /\ Begun(fields, sep) = Written(x.tag, x.value, sep)
      /\ Sized(fields, sep) = Written(y.tag, y.value, sep)
      /\ Trailer(fields, sep) = Written(z.tag, z.value, sep)
      /\ Body(fields, sep) = WrittenAll(r, sep)
  BY <1>4, <1>5 DEF Begun, Sized, Trailer, Body, KeptOf
<1>7. Whole(fields, sep) = ((Begun(fields, sep) \o Sized(fields, sep)) \o Body(fields, sep)) \o Trailer(fields, sep)
  BY DEF Whole, Summed
<1>8. Everything(fields, sep) = Append(Cat(Append(<<x>>, y), r), z)
  BY DEF Everything
<1> HIDE DEF x, y, r, z
<1>9. <<x>> \in Seq(Pairs(S)) /\ Append(<<x>>, y) \in Seq(Pairs(S)) /\ r \in Seq(Pairs(S))
  BY <1>2, <1>3, <1>4 DEF r
<1>10. Cat(Append(<<x>>, y), r) \in Seq(Pairs(S))
  <2>1. PICK a \in Seq(Pairs(S)) : a = Append(<<x>>, y)
    BY <1>9
  <2>2. Cat(a, r) \in Seq(Pairs(S))
    BY <1>9, ConcatType DEF Cat
  <2> QED  BY <2>1, <2>2
<1>11. WrittenAll(<<x>>, sep) = Begun(fields, sep)
  BY <1>3, <1>6, WrittenAllOne
<1>12. WrittenAll(Append(<<x>>, y), sep) = Begun(fields, sep) \o Sized(fields, sep)
  <2>1. PICK a \in Seq(Pairs(S)) : a = <<x>>
    BY <1>9
  <2>2. WrittenAll(Append(a, y), sep) = WrittenAll(a, sep) \o Written(y.tag, y.value, sep)
    BY <1>4, WrittenAllAppend
  <2> QED  BY <1>6, <1>11, <2>1, <2>2
<1>13. WrittenAll(Cat(Append(<<x>>, y), r), sep) = (Begun(fields, sep) \o Sized(fields, sep)) \o Body(fields, sep)
  <2>1. PICK a \in Seq(Pairs(S)) : a = Append(<<x>>, y)
    BY <1>9
  <2>2. WrittenAll(a \o r, sep) = WrittenAll(a, sep) \o WrittenAll(r, sep)
    BY <1>9, WrittenAllConcat
  <2> QED  BY <1>6, <1>12, <2>1, <2>2 DEF Cat
<1>14. WrittenAll(Everything(fields, sep), sep) = Whole(fields, sep)
  <2>1. PICK a \in Seq(Pairs(S)) : a = Cat(Append(<<x>>, y), r)
    BY <1>10
  <2>2. WrittenAll(Append(a, z), sep) = WrittenAll(a, sep) \o Written(z.tag, z.value, sep)
    BY <1>5, WrittenAllAppend
  <2> QED  BY <1>6, <1>7, <1>8, <1>13, <2>1, <2>2
<1>15. Everything(fields, sep) \in Seq(Pairs(S))
  <2>1. PICK a \in Seq(Pairs(S)) : a = Cat(Append(<<x>>, y), r)
    BY <1>10
  <2>2. Append(a, z) \in Seq(Pairs(S))
    BY <1>5
  <2> QED  BY <1>8, <2>1, <2>2
<1> QED  BY <1>2, <1>3, <1>4, <1>5, <1>14, <1>15 DEF x, y, z

(* Fields stay where they are when something is put behind.                *)
LEMMA AllPlacedMore ==
  ASSUME NEW S, S \subseteq Int, NEW sep, Alphabet(S, sep), NEW s \in Seq(Pairs(S)), NEW a \in Seq(Int), NEW b \in Seq(Int),
         AllPlaced(a, s, sep)
  PROVE  AllPlaced(Cat(a, b), s, sep)
<1> SUFFICES ASSUME NEW n \in 1..Len(s)
             PROVE  Placed(Cat(a, b), Reached(s, n - 1), Written(s[n].tag, s[n].value, sep))
  BY DEF AllPlaced
<1>1. PICK w : w = Written(s[n].tag, s[n].value, sep)
  OBVIOUS
<1>2. s[n] \in Pairs(S)
  BY EachOfType
<1>3. Len(w) \in Nat
  <2>1. Each(s[n]) = Len(w) /\ Each(s[n]) \in Nat
    BY <1>1, <1>2, WrittenLength
  <2> QED  BY <2>1
<1>4. n - 1 \in 0..Len(s)
  OBVIOUS
<1>5. PICK at \in Nat \ {0} : at = Reached(s, n - 1)
  BY <1>4, ReachedIs
<1>6. Placed(a, at, w)
  BY <1>1, <1>5 DEF AllPlaced
<1>7. Placed(Cat(a, b), at, w)
  BY <1>3, <1>6, PlacedMore
<1> QED  BY <1>1, <1>5, <1>7

(* How the parts of a message follow each other.                           *)
Follows(fields, sep, s, n, begun, sized, body) ==
  /\ s = Everything(fields, sep) /\ n = Len(s)
  /\ begun = Len(Begun(fields, sep)) /\ sized = Len(Sized(fields, sep)) /\ body = Len(Body(fields, sep))
  /\ begun \in Nat /\ sized \in Nat /\ body \in Nat
  /\ n = Len(KeptOf(fields)) + 3 /\ n \in Nat /\ Len(KeptOf(fields)) \in Nat
  /\ s[1] = fields[1] /\ s[2] = NineOf(fields, sep) /\ s[n] = TenOf(fields, sep)
  /\ \A i \in 1..Len(KeptOf(fields)) : s[i + 2] = KeptOf(fields)[i]
  /\ Reached(s, 2) = 1 + begun + sized
  /\ Reached(s, n - 1) = 1 + begun + sized + body
  /\ Reached(s, n) = 1 + begun + sized + body + 7
  /\ Len(Summed(fields, sep)) = begun + sized + body
  /\ Len(Whole(fields, sep)) = begun + sized + body + 7

(* The parts of a serialized message follow each other in this way.        *)
LEMMA PartsFollow ==
  ASSUME NEW S, NEW sep, Alphabet(S, sep), S \subseteq Int, NEW fields \in Seq(Pairs(S)), fields # <<>>,
         fields[1].tag = 8
  PROVE  \E s, n, begun, sized, body : Follows(fields, sep, s, n, begun, sized, body)
<1>1. PICK s, n, begun, sized, body :
        /\ s = Everything(fields, sep) /\ n = Len(s)
        /\ begun = Len(Begun(fields, sep)) /\ sized = Len(Sized(fields, sep)) /\ body = Len(Body(fields, sep))
  OBVIOUS
<1>2. PICK x, y, r, z : /\ x = fields[1] /\ y = NineOf(fields, sep) /\ r = KeptOf(fields) /\ z = TenOf(fields, sep)
  OBVIOUS
<1>3. /\ x \in Pairs(S) /\ y \in Pairs(S) /\ z \in Pairs(S) /\ r \in Seq(Pairs(S)) /\ s \in Seq(Pairs(S))
      /\ WrittenAll(s, sep) = Whole(fields, sep)
  BY <1>1, <1>2, EverythingIs
<1>4. s = Joined(x, y, r, z)
  BY <1>1, <1>2 DEF Everything, Joined
<1>5. /\ Len(s) = Len(r) + 3 /\ Len(r) \in Nat
      /\ s[1] = x /\ s[2] = y /\ s[Len(r) + 3] = z
      /\ \A i \in 1..Len(r) : s[i + 2] = r[i]
  <2>1. PICK T : T = Pairs(S)
    OBVIOUS
  <2>2. x \in T /\ y \in T /\ z \in T /\ r \in Seq(T)
    BY <1>3, <2>1
  <2>3. JoinedAs(s, x, y, r, z)
    BY <1>4, <2>2, FourPieces
  <2> QED  BY <2>3 DEF JoinedAs
<1>6. /\ Begun(fields, sep) = Written(x.tag, x.value, sep)
      /\ Sized(fields, sep) = Written(y.tag, y.value, sep)
      /\ Trailer(fields, sep) = Written(z.tag, z.value, sep)
  BY <1>2 DEF Begun, Sized, Trailer, NineOf, TenOf
<1>7. /\ Begun(fields, sep) \in Seq(S) /\ Body(fields, sep) \in Seq(S)
      /\ Sized(fields, sep) \in Seq(S) /\ Summed(fields, sep) \in Seq(S)
      /\ Trailer(fields, sep) \in Seq(S) /\ Len(Trailer(fields, sep)) = 7
  BY PartsType
<1>8. Each(x) = begun /\ Each(y) = sized /\ Each(z) = 7
  BY <1>1, <1>3, <1>6, <1>7, WrittenLength
<1>9. begun \in Nat /\ sized \in Nat /\ body \in Nat
  BY <1>1, <1>7
<1>10. Len(Summed(fields, sep)) = begun + sized + body
  <2>1. PICK a \in Seq(S), b \in Seq(S), c \in Seq(S) : a = Begun(fields, sep) /\ b = Sized(fields, sep) /\ c = Body(fields, sep)
    BY <1>7
  <2>2. Summed(fields, sep) = (a \o b) \o c
    BY <2>1 DEF Summed
  <2>3. a \o b \in Seq(S) /\ Len(a \o b) = Len(a) + Len(b)
    BY ConcatType
  <2>4. Len((a \o b) \o c) = Len(a \o b) + Len(c)
    BY <2>3, ConcatType
  <2> QED  BY <1>1, <2>1, <2>2, <2>3, <2>4
<1>11. Len(Whole(fields, sep)) = begun + sized + body + 7
  <2>1. Len(Whole(fields, sep)) = Len(Summed(fields, sep)) + Len(Trailer(fields, sep))
    BY <1>7, ConcatType DEF Whole
  <2> QED  BY <1>7, <1>9, <1>10, <2>1
<1>12. n = Len(r) + 3 /\ n \in Nat
  BY <1>1, <1>5
<1> HIDE DEF Each
<1>13. Reached(s, 2) = 1 + begun + sized
  <2>1. 1 \in 1..Len(s) /\ 2 \in 1..Len(s) /\ 1 - 1 = 0 /\ 2 - 1 = 1
    BY <1>5
  <2>2. Reached(s, 0) = 1 /\ Reached(s, 1) = Reached(s, 1 - 1) + Each(s[1]) /\ Reached(s, 2) = Reached(s, 2 - 1) + Each(s[2])
    BY <1>3, <2>1, ReachedIs
  <2>3. Reached(s, 1) = 1 + begun
    BY <1>5, <1>8, <2>1, <2>2
  <2>4. Reached(s, 2) = (1 + begun) + sized
    BY <1>5, <1>8, <2>1, <2>2, <2>3
  <2> QED  BY <1>9, <2>4
<1>14. Reached(s, n) = 1 + begun + sized + body + 7
  <2>1. Reached(s, n) = 1 + Len(WrittenAll(s, sep))
    BY <1>1, <1>3, ReachedAll
  <2>2. Len(WrittenAll(s, sep)) = begun + sized + body + 7
    BY <1>3, <1>11
  <2> HIDE DEF Reached
  <2> QED  BY <1>9, <2>1, <2>2
<1>15. Reached(s, n - 1) = 1 + begun + sized + body
  <2>1. n \in 1..Len(s) /\ n - 1 \in 0..Len(s)
    BY <1>1, <1>12, <1>5
  <2>2. Reached(s, n) = Reached(s, n - 1) + Each(s[n]) /\ Reached(s, n - 1) \in Nat
    BY <1>3, <2>1, ReachedIs
  <2>3. Each(s[n]) = 7
    BY <1>5, <1>8, <1>12
  <2> QED  BY <1>9, <1>14, <2>2, <2>3
<1>16. /\ n = Len(KeptOf(fields)) + 3 /\ n \in Nat /\ Len(KeptOf(fields)) \in Nat
       /\ s[1] = fields[1] /\ s[2] = NineOf(fields, sep) /\ s[n] = TenOf(fields, sep)
       /\ \A i \in 1..Len(KeptOf(fields)) : s[i + 2] = KeptOf(fields)[i]
  BY <1>2, <1>5, <1>12
<1>17. Follows(fields, sep, s, n, begun, sized, body)
  BY <1>1, <1>9, <1>10, <1>11, <1>13, <1>14, <1>15, <1>16 DEF Follows
<1> QED  BY <1>17

(* A serialized message as it arrives, or is saved in a file.              *)
ArrivesAs(raw, fields, sep) ==
  raw \in {Whole(fields, sep), Cat(Whole(fields, sep), <<LineFeed>>)}

(* There is no separator in a number.                                      *)
LEMMA ToCharsLacks ==
  /\ \A n \in Ints : Lacks(ToChars(n), SOH)
  /\ \A n \in 0..255 : Lacks(ThreeDigits(n), SOH)
<1>1. SOH \notin CharsOfInt /\ Digits \subseteq CharsOfInt
  BY DigitsAre DEF CharsOfInt, SOH, Minus
<1> HIDE DEF CharsOfInt, SOH
<1>2. ASSUME NEW t \in Seq(CharsOfInt)  PROVE Lacks(t, SOH)
  BY <1>1 DEF Lacks
<1>3. \A n \in Ints : ToChars(n) \in Seq(CharsOfInt)
  BY ToCharsIsRead
<1>4. \A n \in 0..255 : ThreeDigits(n) \in Seq(CharsOfInt)
  <2> TAKE n \in 0..255
  <2>1. ThreeDigits(n) \in Seq(Digits)
    BY ThreeDigitsAreRead
  <2> QED  BY <1>1, <2>1, SeqMonotonic
<1> QED  BY <1>2, <1>3, <1>4

(* The fields of a serialized message are where they were written, a line  *)
(* feed behind or not.                                                     *)
LEMMA SummedPlaced ==
  ASSUME NEW S, NEW sep, Alphabet(S, sep), S \subseteq Int, NEW fields \in Seq(Pairs(S)), fields # <<>>,
         fields[1].tag = 8, LineFeed \in Int, NEW raw, ArrivesAs(raw, fields, sep)
  PROVE  /\ raw \in Seq(Int) /\ Placed(raw, 1, Summed(fields, sep))
         /\ AllPlaced(raw, Everything(fields, sep), sep)
<1>1. PICK a \in Seq(Int), b \in Seq(Int), c \in Seq(Int), w \in Seq(Int) :
        a = Summed(fields, sep) /\ b = Trailer(fields, sep) /\ c = <<LineFeed>> /\ w = Whole(fields, sep)
  <2>1. Summed(fields, sep) \in Seq(S) /\ Trailer(fields, sep) \in Seq(S) /\ Whole(fields, sep) \in Seq(S)
    BY PartsType
  <2>2. Summed(fields, sep) \in Seq(Int) /\ Trailer(fields, sep) \in Seq(Int) /\ Whole(fields, sep) \in Seq(Int)
    BY <2>1, SeqMonotonic
  <2>3. <<LineFeed>> \in Seq(Int)
    OBVIOUS
  <2> QED  BY <2>2, <2>3
<1>2. w = Cat(a, b) /\ raw \in {w, Cat(w, c)}
  BY <1>1 DEF Whole, Cat, ArrivesAs
<1>3. Placed(a, 1, a)
  BY DEF Placed
<1>4. Len(a) \in Nat
  OBVIOUS
<1>5. Placed(w, 1, a)
  BY <1>2, <1>3, <1>4, PlacedMore
<1>6. Placed(Cat(w, c), 1, a)
  BY <1>4, <1>5, PlacedMore
<1>7. Cat(w, c) \in Seq(Int)
  BY ConcatType DEF Cat
<1>8. PICK s \in Seq(Pairs(S)) : s = Everything(fields, sep)
  BY EverythingIs
<1>9. WrittenAll(s, sep) = w
  BY <1>1, <1>8, EverythingIs
<1>10. AllPlaced(w, s, sep)
  BY <1>9, WrittenPlaced
<1>11. AllPlaced(Cat(w, c), s, sep)
  BY <1>10, AllPlacedMore
<1> QED  BY <1>1, <1>2, <1>5, <1>6, <1>7, <1>8, <1>10, <1>11

(* What a serialized message has no more of than a message can have.       *)
Arriving(fields, sep, raw) ==
  /\ Lacks(fields[1].value, sep)
  /\ \A i \in 1..Len(KeptOf(fields)) : Lacks(KeptOf(fields)[i].value, sep)
  /\ Len(KeptOf(fields)) + 3 <= MAX_FIELDS
  /\ raw # Whole(fields, sep) => Len(KeptOf(fields)) + 4 <= MAX_FIELDS
  /\ Len(Whole(fields, sep)) <= MaxInt

(* They can be told apart if their values have no separator.               *)
LEMMA EverythingReadable ==
  ASSUME NEW S, Alphabet(S, SOH), S \subseteq Int, NEW fields \in Seq(Pairs(S)), fields # <<>>,
         fields[1].tag = 8, NEW raw, Arriving(fields, SOH, raw)
  PROVE  Readable(Everything(fields, SOH), SOH)
<1>1. PICK s, n, begun, sized, body : Follows(fields, SOH, s, n, begun, sized, body)
  BY PartsFollow
<1>2. PICK r, k : r = KeptOf(fields) /\ k = Len(r) /\ k \in Nat
  <2>1. Len(KeptOf(fields)) \in Nat
    BY <1>1 DEF Follows
  <2> QED  BY <2>1
<1>3. /\ s = Everything(fields, SOH) /\ Len(s) = k + 3 /\ n = k + 3 /\ body \in Nat /\ body = Len(Body(fields, SOH))
      /\ s[1] = fields[1] /\ s[2] = NineOf(fields, SOH) /\ s[n] = TenOf(fields, SOH)
      /\ \A i \in 1..k : s[i + 2] = r[i]
      /\ Len(Whole(fields, SOH)) = begun + sized + body + 7 /\ begun \in Nat /\ sized \in Nat
  BY <1>1, <1>2 DEF Follows
<1>4. /\ Lacks(fields[1].value, SOH) /\ (\A i \in 1..k : Lacks(r[i].value, SOH))
      /\ k + 3 <= MAX_FIELDS /\ Len(Whole(fields, SOH)) <= MaxInt
  BY <1>2 DEF Arriving
<1>5. body \in Ints
  BY <1>3, <1>4, CodecAssumption DEF Ints
<1>6. Lacks(s[2].value, SOH) /\ s[2].tag = 9
  <2>1. s[2].value = ToChars(body) /\ s[2].tag = 9
    BY <1>3 DEF NineOf
  <2> QED  BY <1>5, <2>1, ToCharsLacks
<1>7. Lacks(s[n].value, SOH)
  <2>1. PICK sum \in 0..255 : sum = SumOf(Summed(fields, SOH))
    BY PartsType
  <2>2. s[n].value = ThreeDigits(sum)
    BY <1>3, <2>1 DEF TenOf
  <2> QED  BY <2>2, ToCharsLacks
<1>8. \A i \in 1..Len(s) : Lacks(s[i].value, SOH)
  <2> SUFFICES ASSUME NEW i \in 1..Len(s)  PROVE Lacks(s[i].value, SOH)
    OBVIOUS
  <2>1. i = 1 \/ i = 2 \/ i = n \/ (i - 2 \in 1..k /\ (i - 2) + 2 = i)
    BY <1>2, <1>3
  <2>2. CASE i = 1
    BY <1>3, <1>4, <2>2
  <2>3. CASE i = 2
    BY <1>6, <2>3
  <2>4. CASE i = n
    BY <1>7, <2>4
  <2>5. CASE i - 2 \in 1..k /\ (i - 2) + 2 = i
    <3>1. PICK j \in 1..k : j + 2 = i
      BY <2>5
    <3> QED  BY <1>3, <1>4, <3>1
  <2> QED  BY <2>1, <2>2, <2>3, <2>4, <2>5
<1>9. s[1].tag = 8 /\ Len(s) <= MAX_FIELDS
  BY <1>3, <1>4
<1> QED  BY <1>3, <1>6, <1>8, <1>9 DEF Readable

(* Length and checksum are those serialize_message wrote                   *)
(* (parser.cpp:329-385).                                                   *)
LEMMA EverythingSealed ==
  ASSUME NEW S, Alphabet(S, SOH), S \subseteq Int, NEW fields \in Seq(Pairs(S)), fields # <<>>,
         fields[1].tag = 8, NEW raw, ArrivesAs(raw, fields, SOH), Len(Whole(fields, SOH)) <= MaxInt
  PROVE  Sealed(raw, Everything(fields, SOH))
<1>1. PICK s, n, begun, sized, body : Follows(fields, SOH, s, n, begun, sized, body)
  BY PartsFollow
<1>2. /\ s = Everything(fields, SOH) /\ n = Len(s) /\ n >= 3 /\ body \in Nat /\ body = Len(Body(fields, SOH))
      /\ s[2] = NineOf(fields, SOH) /\ s[n] = TenOf(fields, SOH)
      /\ Reached(s, 2) = 1 + begun + sized
      /\ Reached(s, n - 1) = 1 + begun + sized + body
      /\ Len(Summed(fields, SOH)) = begun + sized + body
      /\ Len(Whole(fields, SOH)) = begun + sized + body + 7 /\ begun \in Nat /\ sized \in Nat
  BY <1>1 DEF Follows
<1>3. body \in Ints
  <2>1. begun + sized + body + 7 <= MaxInt
    BY <1>2
  <2>2. body <= MaxInt /\ MaxInt \in Nat
    <3>1. begun \in Nat /\ sized \in Nat /\ body \in Nat
      BY <1>2
    <3> QED  BY <2>1, <3>1, CodecAssumption
  <2>3. body \in Nat
    BY <1>2
  <2> QED  BY <2>2, <2>3 DEF Ints
<1>4. PICK summed \in Seq(Int) : summed = Summed(fields, SOH)
  <2>1. Summed(fields, SOH) \in Seq(S)
    BY PartsType
  <2> QED  BY <2>1, SeqMonotonic
<1>5. PICK from, length : from = Reached(s, n - 1) - 1 /\ length = Reached(s, n - 1) - Reached(s, 2)
  OBVIOUS
<1>6. length = body /\ from = Len(summed) /\ from \in Nat
  BY <1>2, <1>4, <1>5
<1>7. SubSeq(raw, 1, from) = summed
  <2>0. LineFeed \in Int
    BY DEF LineFeed
  <2>1. raw \in Seq(Int) /\ Placed(raw, 1, summed)
    BY <1>4, <2>0, SummedPlaced
  <2>2. PICK one \in Nat \ {0} : one = 1
    OBVIOUS
  <2>3. Placed(raw, one, summed) /\ from = one + Len(summed) - 1
    BY <1>6, <2>1, <2>2
  <2>4. SubSeq(raw, one, from) = summed
    BY <2>1, <2>3, SubSeqIs
  <2> QED  BY <2>2, <2>4
<1>8. s[n].tag = 10 /\ s[n].value = ThreeDigits(SumOf(summed))
  BY <1>2, <1>4 DEF TenOf
<1>9. s[2].value = ToChars(body)
  BY <1>2 DEF NineOf
<1>10. Sealed(raw, s)
  <2>1. length \in Ints /\ s[2].value = ToChars(length)
    BY <1>3, <1>6, <1>9
  <2>2. SubSeq(raw, 1, from) \in Seq(Int) /\ s[n].value = ThreeDigits(SumOf(SubSeq(raw, 1, from)))
    BY <1>7, <1>8
  <2> QED  BY <1>2, <1>5, <1>8, <2>1, <2>2 DEF Sealed
<1> QED  BY <1>2, <1>10

(* There is nothing behind them but a line feed.                           *)
LEMMA EverythingEnds ==
  ASSUME NEW S, Alphabet(S, SOH), S \subseteq Int, NEW fields \in Seq(Pairs(S)), fields # <<>>,
         fields[1].tag = 8, NEW raw, ArrivesAs(raw, fields, SOH), Arriving(fields, SOH, raw)
  PROVE  Ends(raw, Everything(fields, SOH))
<1>1. PICK s, n, begun, sized, body : Follows(fields, SOH, s, n, begun, sized, body)
  BY PartsFollow
<1>2. /\ s = Everything(fields, SOH) /\ n = Len(s)
      /\ Reached(s, n) = 1 + begun + sized + body + 7
      /\ Len(Whole(fields, SOH)) = begun + sized + body + 7 /\ begun \in Nat /\ sized \in Nat /\ body \in Nat
      /\ n = Len(KeptOf(fields)) + 3 /\ Len(KeptOf(fields)) \in Nat
  BY <1>1 DEF Follows
<1>3. PICK w \in Seq(Int), c \in Seq(Int) : w = Whole(fields, SOH) /\ c = <<LineFeed>>
  <2>1. Whole(fields, SOH) \in Seq(S)
    BY PartsType
  <2>2. Whole(fields, SOH) \in Seq(Int)
    BY <2>1, SeqMonotonic
  <2>3. <<LineFeed>> \in Seq(Int)
    BY DEF LineFeed
  <2> QED  BY <2>2, <2>3
<1>4. Reached(s, n) = Len(w) + 1 /\ Len(w) \in Nat
  BY <1>2, <1>3
<1>5. CASE raw = w
  BY <1>2, <1>4, <1>5 DEF Ends
<1>6. CASE raw # w
  <2>1. raw = Cat(w, c)
    BY <1>3, <1>6 DEF ArrivesAs
  <2>2. Len(raw) = Len(w) + 1
    <3>1. Len(raw) = Len(w) + Len(c)
      BY <2>1, ConcatType DEF Cat
    <3>2. Len(c) = 1
      BY <1>3
    <3> QED  BY <3>1, <3>2
  <2>3. raw[Len(raw)] = LineFeed
    <3>1. \A i \in 1..Len(c) : (w \o c)[Len(w) + i] = c[i]
      BY ConcatItems
    <3>2. 1 \in 1..Len(c) /\ c[1] = LineFeed
      BY <1>3
    <3>3. (w \o c)[Len(w) + 1] = LineFeed
      BY <3>1, <3>2
    <3> QED  BY <2>1, <2>2, <3>3 DEF Cat
  <2>4. n # MAX_FIELDS
    BY <1>2, <1>3, <1>6, CodecAssumption DEF Arriving
  <2> QED  BY <1>2, <1>4, <2>2, <2>3, <2>4 DEF Ends
<1> QED  BY <1>2, <1>5, <1>6

(* A text that does not contain a byte lacks it.                           *)
LEMMA LacksIs ==
  ASSUME NEW text, NEW b, ~Contains(text, b)
  PROVE  Lacks(text, b)
BY DEF Contains, Lacks

(* Without length and checksum, the fields are those that were given.      *)
LEMMA EverythingWithout ==
  ASSUME NEW c \in Seq(Pairs(Text)), c # <<>>, c[1].tag = 8
  PROVE  Without(Everything(c, SOH), {9, 10}) = <<c[1]>> \o KeptOf(c)
<1>1. PICK x, y, r, z : x = c[1] /\ y = NineOf(c, SOH) /\ r = KeptOf(c) /\ z = TenOf(c, SOH)
  OBVIOUS
<1>2. PICK P : P = Pairs(Text)
  OBVIOUS
<1>3. x \in P /\ y \in P /\ z \in P /\ r \in Seq(P) /\ x.tag = 8 /\ y.tag = 9 /\ z.tag = 10
  BY <1>1, <1>2, EverythingIs, TextFacts DEF NineOf, TenOf
<1>4. Everything(c, SOH) = Append(Cat(Append(<<x>>, y), r), z)
  BY <1>1 DEF Everything
<1>5. \A i \in 1..Len(r) : r[i].tag \notin {9, 10}
  <2>1. Tail(c) \in Seq(P)
    BY <1>2
  <2>2. \A i \in 1..Len(Without(Tail(c), Generated)) : Without(Tail(c), Generated)[i].tag \notin Generated
    BY <2>1, WithoutTags
  <2> QED  BY <1>1, <2>2 DEF KeptOf, Generated
<1>6. PICK T : T = {9, 10}
  OBVIOUS
<1>7. x.tag \notin T /\ y.tag \in T /\ z.tag \in T /\ \A i \in 1..Len(r) : r[i].tag \notin T
  BY <1>3, <1>5, <1>6
<1>a. x \in P /\ y \in P /\ z \in P /\ r \in Seq(P)
  BY <1>3
<1>8. PICK o \in Seq(P) : o = <<x>>
  <2>1. <<x>> \in Seq(P)
    BY <1>a
  <2> QED  BY <2>1
<1>9. Without(o, T) = o
  BY <1>3, <1>7, <1>8, WithoutOne
<1>10. PICK a \in Seq(P) : a = Append(o, y)
  <2>1. Append(o, y) \in Seq(P)
    BY <1>a
  <2> QED  BY <2>1
<1>11. Without(a, T) = o
  BY <1>3, <1>7, <1>9, <1>10, WithoutAppend
<1>12. Without(r, T) = r
  BY <1>3, <1>7, WithoutAll
<1>13. PICK b \in Seq(P) : b = a \o r
  BY <1>3, ConcatType
<1>14. Without(b, T) = o \o r
  <2>1. Without(a \o r, T) = Without(a, T) \o Without(r, T)
    BY <1>a, WithoutConcat, SMTT(30)
  <2> QED  BY <1>11, <1>12, <1>13, <2>1
<1>15. Without(Append(b, z), T) = o \o r
  BY <1>3, <1>7, <1>14, WithoutAppend
<1> QED  BY <1>1, <1>4, <1>6, <1>8, <1>10, <1>13, <1>15 DEF Cat

-----------------------------------------------------------------------------
(* get_field                                                               *)

(* get_field with one more field.                                          *)
LEMMA GetAppend ==
  ASSUME NEW S, NEW s \in Seq(S), NEW x \in S, NEW t
  PROVE  /\ Has(Append(s, x), t) <=> Has(s, t) \/ x.tag = t
         /\ Has(s, t) => Get(Append(s, x), t) = Get(s, t)
         /\ ~Has(s, t) /\ x.tag = t => Get(Append(s, x), t) = x.value
<1> DEFINE n == Len(s)
           a == Append(s, x)
           P == Positions(s, t)
           Q == Positions(a, t)
<1>1. /\ n \in Nat /\ DOMAIN s = 1..n /\ DOMAIN a = 1..(n + 1) /\ a[n + 1] = x
      /\ \A i \in 1..n : a[i] = s[i]
  OBVIOUS
<1> HIDE DEF n, a
<1>2. P \subseteq 1..n /\ Q \subseteq 1..(n + 1)
  BY <1>1 DEF Positions
<1>3. \A i \in 1..n : i \in P <=> i \in Q
  <2> TAKE i \in 1..n
  <2>1. i \in DOMAIN s /\ i \in DOMAIN a /\ a[i] = s[i]
    BY <1>1
  <2> QED  BY <2>1 DEF Positions
<1>4. n + 1 \in Q <=> x.tag = t
  <2>1. n + 1 \in DOMAIN a
    BY <1>1
  <2> QED  BY <1>1, <2>1 DEF Positions
<1> HIDE DEF P, Q
<1>5. Q # {} <=> P # {} \/ x.tag = t
  <2>1. \A i \in Q : i \in 1..n \/ i = n + 1
    BY <1>1, <1>2
  <2> QED  BY <1>2, <1>3, <1>4, <2>1
<1>6. ASSUME P # {}  PROVE Min(Q) = Min(P) /\ Min(P) \in 1..n
  <2>1. P \subseteq Nat /\ Q \subseteq Nat /\ Q # {}
    BY <1>1, <1>2, <1>5, <1>6
  <2>2. Min(P) \in P /\ (\A q \in P : Min(P) <= q) /\ Min(Q) \in Q /\ (\A q \in Q : Min(Q) <= q)
    BY <1>6, <2>1, MinIsSmallest
  <2>3. PICK p, q : p = Min(P) /\ q = Min(Q)
    OBVIOUS
  <2>4. p \in 1..n /\ q \in 1..(n + 1) /\ p \in Q
    BY <1>2, <1>3, <2>2, <2>3
  <2>5. q <= p
    BY <2>2, <2>3, <2>4
  <2>6. q \in P
    BY <1>1, <1>3, <2>2, <2>3, <2>4, <2>5
  <2>7. p <= q
    BY <2>2, <2>3, <2>6
  <2> QED  BY <2>3, <2>4, <2>5, <2>7
<1>7. ASSUME P = {}, x.tag = t  PROVE Min(Q) = n + 1
  <2>1. Q \subseteq Nat /\ Q # {}
    BY <1>1, <1>2, <1>5, <1>7
  <2>2. Min(Q) \in Q
    BY <2>1, MinIsSmallest
  <2>3. PICK q : q = Min(Q)
    OBVIOUS
  <2>4. q \in 1..n \/ q = n + 1
    <3>1. q \in 1..(n + 1) /\ n \in Nat
      BY <1>1, <1>2, <2>2, <2>3
    <3> QED  BY <3>1
  <2>5. q \notin 1..n
    <3>1. q \in Q /\ P = {}
      BY <1>7, <2>2, <2>3
    <3> QED  BY <1>3, <3>1
  <2> QED  BY <2>3, <2>4, <2>5
<1>8. Has(a, t) <=> Has(s, t) \/ x.tag = t
  BY <1>5 DEF Has, P, Q
<1>9. Has(s, t) => Get(a, t) = Get(s, t)
  BY <1>1, <1>6 DEF Has, Get, P, Q
<1>10. ~Has(s, t) /\ x.tag = t => Get(a, t) = x.value
  BY <1>1, <1>7 DEF Has, Get, P, Q
<1> QED  BY <1>8, <1>9, <1>10 DEF a

(* get_field returns the same.                                             *)
SameGet(a, b, t) == (Has(a, t) <=> Has(b, t)) /\ (Has(a, t) => Get(a, t) = Get(b, t))

(* The first field of a tag that stays is the same.                        *)
LEMMA GetWithout ==
  ASSUME NEW S, NEW T, NEW t, t \notin T
  PROVE  \A s \in Seq(S) : SameGet(s, Without(s, T), t)
<1> DEFINE U == {s \in Seq(S) : SameGet(s, Without(s, T), t)}
<1>1. <<>> \in U
  BY WithoutNothing DEF SameGet
<1>2. ASSUME NEW s \in Seq(S), NEW x \in S, s \in U  PROVE Append(s, x) \in U
  <2>1. PICK w \in Seq(S) : w = Without(s, T)
    BY WithoutType
  <2>2. SameGet(s, w, t)
    BY <1>2, <2>1
  <2>3. /\ Has(Append(s, x), t) <=> Has(s, t) \/ x.tag = t
        /\ Has(s, t) => Get(Append(s, x), t) = Get(s, t)
        /\ ~Has(s, t) /\ x.tag = t => Get(Append(s, x), t) = x.value
    BY GetAppend
  <2>4. /\ Has(Append(w, x), t) <=> Has(w, t) \/ x.tag = t
        /\ Has(w, t) => Get(Append(w, x), t) = Get(w, t)
        /\ ~Has(w, t) /\ x.tag = t => Get(Append(w, x), t) = x.value
    BY GetAppend
  <2>5. Without(Append(s, x), T) = IF x.tag \in T THEN w ELSE Append(w, x)
    BY <2>1, WithoutAppend
  <2>6. x.tag \in T => x.tag # t
    OBVIOUS
  <2>7. SameGet(Append(s, x), Without(Append(s, x), T), t)
    <3>1. CASE x.tag \in T
      BY <2>2, <2>3, <2>5, <2>6, <3>1 DEF SameGet
    <3>2. CASE x.tag \notin T
      BY <2>2, <2>3, <2>4, <2>5, <3>2 DEF SameGet
    <3> QED  BY <3>1, <3>2
  <2>8. Append(s, x) \in Seq(S)
    OBVIOUS
  <2> QED  BY <2>7, <2>8
<1> HIDE DEF U
<1>3. \A s \in Seq(S) : s \in U
  BY <1>1, <1>2, SeqInduction
<1> QED  BY <1>3 DEF U

(* A field of a part is one of the whole.                                  *)
LEMMA HasConcat ==
  ASSUME NEW S, NEW a \in Seq(S), NEW b \in Seq(S), NEW t, Has(a, t) \/ Has(b, t)
  PROVE  Has(Cat(a, b), t)
<1>1. Cat(a, b) \in Seq(S) /\ Len(Cat(a, b)) = Len(a) + Len(b) /\ Len(a) \in Nat /\ Len(b) \in Nat
  BY ConcatType DEF Cat
<1>2. (\A i \in 1..Len(a) : Cat(a, b)[i] = a[i]) /\ (\A i \in 1..Len(b) : Cat(a, b)[Len(a) + i] = b[i])
  BY ConcatItems DEF Cat
<1>3. DOMAIN a = 1..Len(a) /\ DOMAIN b = 1..Len(b) /\ DOMAIN Cat(a, b) = 1..(Len(a) + Len(b))
  BY <1>1
<1>4. CASE Has(a, t)
  <2>1. PICK i \in 1..Len(a) : a[i].tag = t
    BY <1>3, <1>4 DEF Has, Positions
  <2>2. i \in DOMAIN Cat(a, b) /\ Cat(a, b)[i].tag = t
    BY <1>1, <1>2, <1>3, <2>1
  <2> QED  BY <2>2 DEF Has, Positions
<1>5. CASE Has(b, t)
  <2>1. PICK i \in 1..Len(b) : b[i].tag = t
    BY <1>3, <1>5 DEF Has, Positions
  <2>2. PICK j : j = Len(a) + i
    OBVIOUS
  <2>3. j \in DOMAIN Cat(a, b) /\ Cat(a, b)[j].tag = t
    BY <1>1, <1>2, <1>3, <2>1, <2>2
  <2> QED  BY <2>3 DEF Has, Positions
<1> QED  BY <1>4, <1>5

-----------------------------------------------------------------------------
(* parse, given a message that was damaged                                 *)

(* The loop reads N fields and ends.                                       *)
HistoryOf(raw, sep, N) ==
  /\ N \in 0..Len(raw)
  /\ \A k \in 0..N : Turns(raw, sep)[k].error = "None" /\ Len(Turns(raw, sep)[k].fields) = k
  /\ \A k \in 1..N : Advances(raw, sep, Turns(raw, sep)[k - 1], Turns(raw, sep)[k])
  /\ LastTurn(raw, sep).fields = Turns(raw, sep)[N].fields
  /\ LastTurn(raw, sep).error = "Ok" => AtEnd(raw, sep, Turns(raw, sep)[N].pos)

(* The turns of the loop of parse up to the one that ends it.              *)
LEMMA History ==
  ASSUME NEW raw \in Seq(Int), NEW sep
  PROVE  \E N : HistoryOf(raw, sep, N)
<1> DEFINE t == Turns(raw, sep)
           L == Len(raw)
           E == {n \in 0..(L + 1) : t[n].error # "None"}
<1>0. L \in Nat
  OBVIOUS
<1>1. L + 1 \in E
  <2>1. t[L + 1].error # "None"
    BY LastTurnType DEF LastTurn
  <2> QED  BY <1>0, <2>1
<1>2. PICK m \in E : \A n \in E : m <= n
  <2>1. E \subseteq Nat /\ E # {}
    BY <1>1
  <2> HIDE DEF E
  <2> QED  BY <2>1, Smallest
<1>3. m \in 0..(L + 1) /\ t[m].error # "None"
  OBVIOUS
<1>4. t[0] = FirstTurn /\ FirstTurn.error = "None" /\ FirstTurn.fields = <<>>
  BY TurnsDef DEF FirstTurn
<1>5. m # 0
  BY <1>3, <1>4
<1>6. PICK N : N = m - 1 /\ N \in 0..L /\ m = N + 1
  BY <1>0, <1>3, <1>5
<1>7. \A k \in 0..N : t[k].error = "None"
  <2> SUFFICES ASSUME NEW k \in 0..N, t[k].error # "None"  PROVE FALSE
    OBVIOUS
  <2>1. k \in 0..(L + 1) /\ ~(m <= k)
    BY <1>0, <1>6
  <2>2. k \in E
    BY <2>1
  <2> QED  BY <1>2, <2>1, <2>2
<1>8. \A k \in 1..(L + 1) : t[k] = NextField(raw, sep, t[k - 1])
  BY TurnsDef
<1>9. \A k \in 0..(L + 1) : t[k] \in TurnSet(raw)
  BY TurnShape
<1>10. m \in 0..(L + 1) /\ \A n \in 0..(L + 1) : t[n].error # "None" => m <= n
  BY <1>2
<1> HIDE DEF t, E
<1>11. ASSUME NEW k \in 1..N  PROVE Advances(raw, sep, t[k - 1], t[k])
  <2>1. k \in 1..(L + 1) /\ k - 1 \in 0..N /\ k \in 0..N /\ k - 1 \in 0..(L + 1)
    BY <1>0, <1>6
  <2>2. t[k] = NextField(raw, sep, t[k - 1]) /\ t[k - 1] \in TurnSet(raw) /\ t[k].error = "None" /\ t[k - 1].error = "None"
    BY <1>7, <1>8, <1>9, <2>1
  <2>3. \A why \in ScanErrors \ {"None"} : [t[k - 1] EXCEPT !.error = why].error # "None"
    BY <2>2 DEF TurnSet
  <2> QED  BY <2>2, <2>3, NextFieldCases
<1> DEFINE U == {k \in Nat : k \in 0..N => Len(t[k].fields) = k}
<1>12. 0 \in U
  BY <1>4 DEF t
<1>13. ASSUME NEW k \in Nat, k \in U  PROVE k + 1 \in U
  <2> SUFFICES ASSUME k + 1 \in 0..N  PROVE Len(t[k + 1].fields) = k + 1
    OBVIOUS
  <2>1. k + 1 \in 1..N /\ (k + 1) - 1 = k /\ k \in 0..N /\ k \in 0..(L + 1)
    BY <1>0, <1>6
  <2>2. Advances(raw, sep, t[k], t[k + 1])
    BY <1>11, <2>1
  <2>3. PICK fs, f : fs = t[k].fields /\ f = FieldAt(raw, sep, t[k].pos)
    OBVIOUS
  <2>4. fs \in Seq(ReadFields) /\ Len(fs) = k
    BY <1>9, <1>13, <2>1, <2>3 DEF TurnSet
  <2>5. t[k + 1].fields = Append(fs, f)
    BY <2>2, <2>3 DEF Advances
  <2>6. Len(Append(fs, f)) = Len(fs) + 1
    <3> HIDE DEF ReadFields
    <3> QED  BY <2>4
  <2> QED  BY <2>4, <2>5, <2>6
<1> HIDE DEF U
<1>14. \A k \in Nat : k \in U
  BY <1>12, <1>13, Induction
<1>15. \A k \in 0..N : Len(t[k].fields) = k
  BY <1>6, <1>14 DEF U
<1>16. LastTurn(raw, sep) = t[m]
  BY <1>3, TurnsStay DEF t
<1>17. t[m].fields = t[N].fields /\ (t[m].error = "Ok" => AtEnd(raw, sep, t[N].pos))
  <2>1. m \in 1..(L + 1) /\ m - 1 = N /\ N \in 0..N /\ N \in 0..(L + 1)
    BY <1>0, <1>6
  <2>2. t[m] = NextField(raw, sep, t[N]) /\ t[N] \in TurnSet(raw) /\ t[N].error = "None"
    BY <1>7, <1>8, <1>9, <2>1
  <2>3. \A why \in ScanErrors : [t[N] EXCEPT !.error = why].error = why /\ [t[N] EXCEPT !.error = why].fields = t[N].fields
    BY <2>2 DEF TurnSet
  <2>4. ~Advances(raw, sep, t[N], t[m])
    BY <1>3 DEF Advances, t
  <2>5. PICK why \in ScanErrors \ {"None"} :
          t[m] = [t[N] EXCEPT !.error = why] /\ (why = "Ok" => AtEnd(raw, sep, t[N].pos))
    BY <2>2, <2>4, NextFieldCases
  <2>6. t[m].error = why /\ t[m].fields = t[N].fields
    BY <2>3, <2>5
  <2> QED  BY <2>5, <2>6
<1> QED  BY <1>6, <1>7, <1>11, <1>15, <1>16, <1>17 DEF HistoryOf, t

(* Each turn is further on, behind a separator, and has one field more.    *)
TurnIs(raw, sep, k, t, u, at, v) ==
  /\ t = Turns(raw, sep)[k - 1] /\ u = Turns(raw, sep)[k] /\ at = t.pos /\ v = ValueEnd(raw, sep, at)
  /\ Advances(raw, sep, t, u) /\ t \in TurnSet(raw) /\ u \in TurnSet(raw)
  /\ at \in 1..Len(raw) /\ v \in 1..Len(raw) /\ at <= TagEnd(raw, at) /\ TagEnd(raw, at) < v
  /\ TagEnd(raw, at) \in Nat
  /\ u.pos = v + 1 /\ raw[v] = sep
  /\ t.fields \in Seq(ReadFields) /\ Len(t.fields) = k - 1
  /\ u.fields = Append(t.fields, FieldAt(raw, sep, at)) /\ FieldAt(raw, sep, at) \in ReadFields

(* One of these turns.                                                     *)
LEMMA HistoryStep ==
  ASSUME NEW raw \in Seq(Int), NEW sep, sep # Equals, NEW N, HistoryOf(raw, sep, N), NEW k \in 1..N
  PROVE  \E t, u, at, v : TurnIs(raw, sep, k, t, u, at, v)
<1>1. PICK t, u, at, v : t = Turns(raw, sep)[k - 1] /\ u = Turns(raw, sep)[k] /\ at = t.pos /\ v = ValueEnd(raw, sep, at)
  OBVIOUS
<1>2. N \in 0..Len(raw) /\ Len(raw) \in Nat
  BY DEF HistoryOf
<1>3. k - 1 \in 0..N /\ k \in 0..N /\ k - 1 \in 0..(Len(raw) + 1) /\ k \in 0..(Len(raw) + 1)
  BY <1>2
<1>4. Advances(raw, sep, t, u) /\ Len(t.fields) = k - 1
  BY <1>1, <1>3 DEF HistoryOf
<1>5. t \in TurnSet(raw) /\ u \in TurnSet(raw)
  BY <1>1, <1>3, TurnShape
<1>6. at \in 1..(Len(raw) + 1) /\ t.fields \in Seq(ReadFields)
  BY <1>1, <1>5 DEF TurnSet
<1>7. /\ at <= Len(raw) /\ v <= Len(raw) /\ IsTagAt(raw, at) /\ u.pos = v + 1
      /\ u.fields = Append(t.fields, FieldAt(raw, sep, at))
  BY <1>1, <1>4 DEF Advances
<1>8. /\ TagEnd(raw, at) \in at..(Len(raw) + 1)
      /\ v \in TagEnd(raw, at)..(Len(raw) + 1)
      /\ TagEnd(raw, at) < v
  BY <1>1, <1>6, <1>7, EndsAre
<1>9. FieldAt(raw, sep, at) \in ReadFields
  BY <1>1, <1>6, <1>7, FieldAtType
<1>10. raw[v] = sep
  <2>1. PICK e : e = TagEnd(raw, at)
    OBVIOUS
  <2>2. e \in 1..(Len(raw) + 1) /\ v = Find(raw, sep, e)
    BY <1>1, <1>2, <1>6, <1>8, <2>1 DEF ValueEnd
  <2> QED  BY <1>7, <2>2, FindProps
<1>11. at \in 1..Len(raw) /\ v \in 1..Len(raw) /\ at <= TagEnd(raw, at) /\ TagEnd(raw, at) \in Nat
  BY <1>2, <1>6, <1>7, <1>8
<1>12. TurnIs(raw, sep, k, t, u, at, v)
  BY <1>1, <1>4, <1>5, <1>6, <1>7, <1>8, <1>9, <1>10, <1>11 DEF TurnIs
<1> QED  BY <1>12

(* A text that is read as a number to its end has only digits and a minus. *)
LEMMA FromCharsAll ==
  ASSUME NEW text \in Seq(Int), FromChars(text).ok, FromChars(text).length = Len(text)
  PROVE  \A i \in 1..Len(text) : text[i] \in CharsOfInt
<1> DEFINE first == IF text # <<>> /\ text[1] = Minus THEN 2 ELSE 1
           T == {p \in first..Len(text) : text[p] \notin Digits}
           last == Min(T \cup {Len(text) + 1}) - 1
           value == (IF first = 2 THEN -1 ELSE 1) * Magnitude(SubSeq(text, first, last))
<1>0. Len(text) \in Nat
  OBVIOUS
<1>1. FromChars(text) = IF last < first \/ value \notin (-MaxInt - 1)..MaxInt
                        THEN [ok |-> FALSE]
                        ELSE [ok |-> TRUE, value |-> value, length |-> last]
  BY DEF FromChars
<1>2. first \in {1, 2} /\ (first = 2 => text # <<>> /\ text[1] = Minus)
  OBVIOUS
<1> HIDE DEF first, value
<1>3. T \subseteq first..Len(text)
  OBVIOUS
<1>a. \A i \in first..Len(text) : i \in T <=> text[i] \notin Digits
  OBVIOUS
<1> DEFINE U == T \cup {Len(text) + 1}
<1> HIDE DEF T
<1>4. U \subseteq Nat /\ U # {} /\ T \subseteq U
  <2>1. \A q \in T : q \in Nat
    <3> SUFFICES ASSUME NEW q \in T  PROVE q \in Nat
      OBVIOUS
    <3>1. q \in first..Len(text) /\ first \in {1, 2}
      BY <1>2, <1>3
    <3> QED  BY <3>1
  <2>2. Len(text) + 1 \in Nat
    BY <1>0
  <2> QED  BY <2>1, <2>2
<1>5. last = Min(U) - 1
  OBVIOUS
<1> HIDE DEF last, U
<1>6. \A q \in U : Min(U) <= q
  BY <1>4, MinIsSmallest
<1>7. last = Len(text)
  <2>1. [ok |-> FALSE].ok = FALSE
    OBVIOUS
  <2>2. FromChars(text) = [ok |-> TRUE, value |-> value, length |-> last]
    BY <1>1, <2>1
  <2> QED  BY <2>2
<1>8. T = {}
  <2>1. \A q \in T : last + 1 <= q /\ q <= Len(text) /\ q \in Nat
    <3> SUFFICES ASSUME NEW q \in T  PROVE last + 1 <= q /\ q <= Len(text) /\ q \in Nat
      OBVIOUS
    <3>1. PICK m \in Nat : m = Min(U)
      BY <1>4, MinIsSmallest
    <3>2. q \in first..Len(text) /\ m <= q /\ last = m - 1
      BY <1>3, <1>4, <1>5, <1>6, <3>1
    <3>3. first \in {1, 2}
      BY <1>2
    <3> QED  BY <3>2, <3>3
  <2> QED  BY <1>0, <1>7, <2>1
<1> SUFFICES ASSUME NEW i \in 1..Len(text)  PROVE text[i] \in CharsOfInt
  OBVIOUS
<1>9. CASE i \in first..Len(text)
  <2>1. text[i] \in Digits
    BY <1>a, <1>8, <1>9
  <2> QED  BY <2>1 DEF CharsOfInt
<1>10. CASE i \notin first..Len(text)
  <2>1. first = 2 /\ i = 1
    BY <1>0, <1>2, <1>10
  <2> QED  BY <1>2, <2>1 DEF CharsOfInt
<1> QED  BY <1>9, <1>10

(* A tag that is read consists of digits and a minus.                      *)
LEMMA TagLacks ==
  ASSUME NEW raw \in Seq(Int), NEW at \in 1..Len(raw), IsTagAt(raw, at), TagEnd(raw, at) \in at..Len(raw),
         NEW b, b \notin CharsOfInt
  PROVE  \A i \in at..(TagEnd(raw, at) - 1) : raw[i] # b
<1>1. PICK e \in at..Len(raw) : e = TagEnd(raw, at)
  OBVIOUS
<1>2. PICK text : text = SubSeq(raw, at, e - 1)
  OBVIOUS
<1>3. text \in Seq(Int) /\ Len(text) = e - at /\ \A i \in 1..(e - at) : text[i] = raw[at + i - 1]
  <2>1. PICK to : to = e - 1
    OBVIOUS
  <2>2. to \in Int /\ to <= Len(raw) /\ at \in 1..Len(raw) /\ Len(raw) \in Nat /\ to - at + 1 = e - at /\ at <= to + 1
    BY <2>1
  <2>3. SubSeq(raw, at, to) \in Seq(Int) /\ Len(SubSeq(raw, at, to)) = to - at + 1
        /\ \A i \in 1..(to - at + 1) : SubSeq(raw, at, to)[i] = raw[at + i - 1]
    BY <2>2
  <2> QED  BY <1>2, <2>1, <2>2, <2>3
<1>4. FromChars(text).ok /\ FromChars(text).length = e - at
  BY <1>1, <1>2 DEF IsTagAt, TagAt
<1>5. \A i \in 1..Len(text) : text[i] \in CharsOfInt
  BY <1>3, <1>4, FromCharsAll
<1> SUFFICES ASSUME NEW i \in at..(e - 1)  PROVE raw[i] # b
  BY <1>1
<1>6. PICK j \in 1..(e - at) : at + j - 1 = i
  <2>1. i - at + 1 \in 1..(e - at) /\ at + (i - at + 1) - 1 = i
    OBVIOUS
  <2> QED  BY <2>1
<1>7. text[j] = raw[i] /\ text[j] \in CharsOfInt
  BY <1>3, <1>5, <1>6
<1> QED  BY <1>7

(* A field ends at its first separator (parser.cpp:62).                    *)
LEMMA EndsBefore ==
  ASSUME NEW raw \in Seq(Int), NEW sep, sep # Equals, sep \notin CharsOfInt,
         NEW at \in 1..Len(raw), NEW v \in 1..Len(raw), v = ValueEnd(raw, sep, at),
         at <= TagEnd(raw, at), TagEnd(raw, at) < v, TagEnd(raw, at) \in Nat, IsTagAt(raw, at),
         NEW q \in 1..Len(raw), at <= q, raw[q] = sep
  PROVE  v <= q
<1>0. Len(raw) \in Nat
  OBVIOUS
<1>1. PICK e \in at..Len(raw) : e = TagEnd(raw, at)
  OBVIOUS
<1>2. \A i \in at..(e - 1) : raw[i] # sep
  BY <1>1, TagLacks
<1>3. raw[e] = Equals
  <2>1. at \in 1..(Len(raw) + 1) /\ e = Find(raw, Equals, at) /\ e <= Len(raw)
    BY <1>0, <1>1 DEF TagEnd
  <2> QED  BY <2>1, FindProps
<1>4. e < q
  <2>1. q \notin at..(e - 1)
    BY <1>2
  <2>2. q # e
    BY <1>3
  <2> QED  BY <2>1, <2>2
<1>5. e \in 1..(Len(raw) + 1) /\ v = Find(raw, sep, e)
  BY <1>0, <1>1 DEF ValueEnd
<1>6. \A i \in e..(v - 1) : raw[i] # sep
  BY <1>5, FindProps
<1>7. q \notin e..(v - 1)
  BY <1>6
<1> QED  BY <1>4, <1>7

(* Every separator in front of a '=' ends a field.                         *)
LEMMA SeparatorEnds ==
  ASSUME NEW raw \in Seq(Int), NEW sep, sep # Equals, sep \notin CharsOfInt, NEW N, HistoryOf(raw, sep, N),
         LastTurn(raw, sep).error = "Ok", NEW q \in 1..Len(raw), raw[q] = sep,
         NEW r \in 1..Len(raw), q < r, raw[r] = Equals
  PROVE  \E n \in 0..N : Turns(raw, sep)[n].pos = q + 1
<1> DEFINE t == Turns(raw, sep)
           U == {k \in Nat : k \in 0..N => t[k].pos <= q \/ \E n \in 0..k : t[n].pos = q + 1}
<1>0. Len(raw) \in Nat /\ N \in 0..Len(raw) /\ N \in Nat
  BY DEF HistoryOf
<1>1. 0 \in U
  BY TurnsDef DEF FirstTurn
<1>2. ASSUME NEW k \in Nat, k \in U  PROVE k + 1 \in U
  <2> SUFFICES ASSUME k + 1 \in 0..N  PROVE t[k + 1].pos <= q \/ \E n \in 0..(k + 1) : t[n].pos = q + 1
    OBVIOUS
  <2>1. PICK j \in 1..N : j = k + 1 /\ j - 1 = k /\ k \in 0..N
    BY <1>0
  <2>2. t[k].pos <= q \/ \E n \in 0..k : t[n].pos = q + 1
    BY <1>2, <2>1
  <2>3. CASE \E n \in 0..k : t[n].pos = q + 1
    <3>1. \A n \in 0..k : n \in 0..(k + 1)
      OBVIOUS
    <3> HIDE DEF t
    <3> QED  BY <2>3, <3>1
  <2>4. CASE t[k].pos <= q
    <3>1. PICK at, v : /\ at = t[k].pos /\ v = ValueEnd(raw, sep, at) /\ at \in 1..Len(raw) /\ v \in 1..Len(raw)
                       /\ Advances(raw, sep, t[k], t[k + 1])
                       /\ at <= TagEnd(raw, at) /\ TagEnd(raw, at) < v /\ TagEnd(raw, at) \in Nat
                       /\ t[k + 1].pos = v + 1
      <4>1. PICK tt, u, at, v : TurnIs(raw, sep, j, tt, u, at, v)
        BY HistoryStep
      <4>2. tt = t[k] /\ u = t[k + 1]
        BY <2>1, <4>1 DEF TurnIs
      <4> HIDE DEF t
      <4>3. /\ at = t[k].pos /\ v = ValueEnd(raw, sep, at) /\ at \in 1..Len(raw) /\ v \in 1..Len(raw)
            /\ Advances(raw, sep, t[k], t[k + 1])
            /\ at <= TagEnd(raw, at) /\ TagEnd(raw, at) < v /\ TagEnd(raw, at) \in Nat
            /\ t[k + 1].pos = v + 1
        BY <4>1, <4>2 DEF TurnIs
      <4> QED  BY <4>3
    <3>2. IsTagAt(raw, at)
      BY <3>1 DEF Advances
    <3>3. v <= q
      <4>1. PICK a \in 1..Len(raw), w \in 1..Len(raw) : a = at /\ w = v
        BY <3>1
      <4>2. a <= q
        BY <2>4, <3>1, <4>1
      <4>3. /\ w = ValueEnd(raw, sep, a) /\ a <= TagEnd(raw, a) /\ TagEnd(raw, a) < w
            /\ TagEnd(raw, a) \in Nat /\ IsTagAt(raw, a)
        BY <3>1, <3>2, <4>1
      <4>4. w <= q
        BY <4>2, <4>3, EndsBefore
      <4> QED  BY <4>1, <4>4
    <3>10. t[k + 1].pos <= q \/ t[k + 1].pos = q + 1
      <4>0. PICK p : p = t[k + 1].pos
        OBVIOUS
      <4>1. PICK a \in 1..Len(raw) : a = v /\ p = a + 1
        BY <3>1, <4>0
      <4>2. a <= q
        BY <3>3, <4>1
      <4>3. p <= q \/ p = q + 1
        BY <1>0, <4>1, <4>2
      <4> QED  BY <4>0, <4>1, <4>3
    <3>11. k + 1 \in 0..(k + 1)
      OBVIOUS
    <3> HIDE DEF t
    <3> QED  BY <3>10, <3>11
  <2> QED  BY <2>2, <2>3, <2>4
<1> HIDE DEF U
<1>3. \A k \in Nat : k \in U
  BY <1>1, <1>2, Induction
<1>4. t[N].pos <= q \/ \E n \in 0..N : t[n].pos = q + 1
  BY <1>0, <1>3 DEF U
<1>5. ~(t[N].pos <= q)
  <2> SUFFICES ASSUME t[N].pos <= q  PROVE FALSE
    OBVIOUS
  <2>1. PICK at : at = t[N].pos
    OBVIOUS
  <2>2. t[N] \in TurnSet(raw)
    <3>1. N \in 0..(Len(raw) + 1)
      BY <1>0
    <3> QED  BY <3>1, TurnShape
  <2>3. at \in 1..(Len(raw) + 1) /\ at <= q
    BY <2>1, <2>2 DEF TurnSet
  <2>4. AtEnd(raw, sep, at)
    BY <2>1 DEF HistoryOf
  <2>5. TagEnd(raw, at) > Len(raw)
    BY <1>0, <2>3, <2>4 DEF AtEnd
  <2>6. \A p \in at..(Find(raw, Equals, at) - 1) : raw[p] # Equals
    BY <2>3, FindProps
  <2>7. Find(raw, Equals, at) \in at..(Len(raw) + 1)
    BY <2>3, FindProps
  <2> QED  BY <1>0, <2>3, <2>5, <2>6, <2>7 DEF TagEnd
<1> QED  BY <1>4, <1>5

(* A text that differs in one byte has another sum.                        *)
LEMMA OneByteSum ==
  ASSUME NEW a \in Seq(Byte), NEW b \in Seq(Byte), Len(a) = Len(b), NEW p \in 1..Len(a), a[p] # b[p],
         \A i \in 1..Len(a) : i # p => a[i] = b[i]
  PROVE  SumOf(a) # SumOf(b)
<1>a. Byte \subseteq Int
  BY DEF Byte
<1>0. Byte \subseteq Int /\ Len(a) \in Nat
  BY <1>a
<1>b. a \in Seq(Int)
  BY <1>a, SeqMonotonic
<1>c. b \in Seq(Int)
  BY <1>a, SeqMonotonic
<1>1. a \in Seq(Int) /\ b \in Seq(Int)
  BY <1>b, <1>c
<1>d. PICK sa, sb : sa = Sums(a) /\ sb = Sums(b)
  OBVIOUS
<1>2. PICK x \in Byte, y \in Byte : x = a[p] /\ y = b[p]
  <2>1. a[p] \in Byte /\ b[p] \in Byte
    OBVIOUS
  <2> QED  BY <2>1
<1>3. /\ sa[0] = 0 /\ sb[0] = 0
      /\ \A n \in 1..Len(a) : sa[n] = sa[n - 1] + a[n] /\ sb[n] = sb[n - 1] + b[n]
      /\ \A n \in 0..Len(a) : sa[n] \in Int /\ sb[n] \in Int
  <2>1. sa = [n \in 0..Len(a) |-> IF n = 0 THEN 0 ELSE sa[n - 1] + a[n]] /\ sa \in [0..Len(a) -> Int]
    BY <1>1, <1>d, SumsDef
  <2>2. sb = [n \in 0..Len(a) |-> IF n = 0 THEN 0 ELSE sb[n - 1] + b[n]] /\ sb \in [0..Len(a) -> Int]
    BY <1>1, <1>d, SumsDef
  <2>3. 0 \in 0..Len(a) /\ \A n \in 1..Len(a) : n \in 0..Len(a) /\ n # 0
    BY <1>0
  <2>4. sa[0] = 0 /\ \A n \in 1..Len(a) : sa[n] = sa[n - 1] + a[n]
    BY <2>1, <2>3
  <2>5. sb[0] = 0 /\ \A n \in 1..Len(a) : sb[n] = sb[n - 1] + b[n]
    BY <2>2, <2>3
  <2> QED  BY <2>1, <2>2, <2>4, <2>5
<1>4. \A n \in 1..Len(a) : a[n] \in Int /\ b[n] \in Int
  BY <1>1
<1> DEFINE U == {n \in Nat : n \in 0..Len(a) => sa[n] = sb[n] + (IF n < p THEN 0 ELSE x - y)}
<1>5. 0 \in U
  <2>1. 0 < p /\ 0 \in Nat /\ 0 \in 0..Len(a)
    BY <1>0
  <2>2. sa[0] = sb[0] + (IF 0 < p THEN 0 ELSE x - y)
    BY <1>3, <2>1
  <2> QED  BY <2>1, <2>2
<1>6. ASSUME NEW n \in Nat, n \in U  PROVE n + 1 \in U
  <2> SUFFICES ASSUME n + 1 \in 0..Len(a)
               PROVE  sa[n + 1] = sb[n + 1] + (IF n + 1 < p THEN 0 ELSE x - y)
    OBVIOUS
  <2>1. n + 1 \in 1..Len(a) /\ n \in 0..Len(a) /\ (n + 1) - 1 = n
    BY <1>0
  <2>2. sa[n] = sb[n] + (IF n < p THEN 0 ELSE x - y)
    BY <1>6, <2>1
  <2>3. PICK m \in Int, k \in Int, c \in Int, d \in Int : m = sa[n] /\ k = sb[n] /\ c = a[n + 1] /\ d = b[n + 1]
    BY <1>3, <1>4, <2>1
  <2>4. sa[n + 1] = m + c /\ sb[n + 1] = k + d
    BY <1>3, <2>1, <2>3
  <2>5. CASE n + 1 = p
    <3>1. c = x /\ d = y
      BY <1>2, <2>3, <2>5
    <3>2. m = k
      BY <2>2, <2>3, <2>5
    <3> QED  BY <1>0, <2>4, <2>5, <3>1, <3>2
  <2>6. CASE n + 1 # p
    <3>1. c = d
      BY <2>1, <2>3, <2>6
    <3>2. m = k + (IF n + 1 < p THEN 0 ELSE x - y)
      BY <2>2, <2>3, <2>6
    <3> QED  BY <1>0, <2>4, <3>1, <3>2
  <2> QED  BY <2>5, <2>6
<1> HIDE DEF U
<1>7. \A n \in Nat : n \in U
  BY <1>5, <1>6, Induction
<1>8. sa[Len(a)] = sb[Len(a)] + (x - y)
  BY <1>0, <1>7 DEF U
<1>9. PICK m \in Int, k \in Int : m = sa[Len(a)] /\ k = sb[Len(a)]
  BY <1>0, <1>3
<1>10. m = k + (x - y) /\ x # y /\ x \in 0..255 /\ y \in 0..255
  BY <1>2, <1>8, <1>9 DEF Byte
<1>11. m % 256 # k % 256
  <2>1. PICK d \in (-255)..255 : d = x - y
    BY <1>10
  <2>2. d # 0 /\ m = k + d
    BY <1>10, <2>1
  <2> QED  BY <2>2
<1>12. SumOf(a) = m % 256 /\ SumOf(b) = k % 256
  BY <1>d, <1>9 DEF SumOf, Total
<1> QED  BY <1>11, <1>12

(* The fields are those that were read, each where the one before it ended.*)
LEMMA HistoryFields ==
  ASSUME NEW raw \in Seq(Int), NEW sep, sep # Equals, NEW N, HistoryOf(raw, sep, N)
  PROVE  /\ Len(LastTurn(raw, sep).fields) = N
         /\ \A m \in 0..N : \A i \in 1..m :
              Turns(raw, sep)[m].fields[i] = FieldAt(raw, sep, Turns(raw, sep)[i - 1].pos)
         /\ \A i \in 1..N :
              LastTurn(raw, sep).fields[i] = FieldAt(raw, sep, Turns(raw, sep)[i - 1].pos)
<1> DEFINE At(i) == FieldAt(raw, sep, Turns(raw, sep)[i - 1].pos)
           U == {m \in Nat : m \in 0..N => \A i \in 1..m : Turns(raw, sep)[m].fields[i] = At(i)}
<1>0. N \in Nat
  BY DEF HistoryOf
<1>1. 0 \in U
  OBVIOUS
<1>2. ASSUME NEW m \in Nat, m \in U  PROVE m + 1 \in U
  <2> SUFFICES ASSUME m + 1 \in 0..N, NEW i \in 1..(m + 1)
               PROVE  Turns(raw, sep)[m + 1].fields[i] = At(i)
    OBVIOUS
  <2>1. PICK k \in 1..N : k = m + 1 /\ k - 1 = m /\ m \in 0..N
    BY <1>0
  <2>2. \A j \in 1..m : Turns(raw, sep)[m].fields[j] = At(j)
    BY <1>2, <2>1
  <2>3. PICK t, u, at, v : TurnIs(raw, sep, k, t, u, at, v)
    BY HistoryStep
  <2>4. PICK fs, f : fs = t.fields /\ f = FieldAt(raw, sep, at)
    OBVIOUS
  <2>5. /\ fs \in Seq(ReadFields) /\ Len(fs) = m /\ f \in ReadFields
        /\ u.fields = Append(fs, f) /\ t = Turns(raw, sep)[m] /\ u = Turns(raw, sep)[m + 1]
        /\ at = Turns(raw, sep)[m].pos
    BY <2>1, <2>3, <2>4 DEF TurnIs
  <2>6. Append(fs, f)[m + 1] = f /\ \A j \in 1..m : Append(fs, f)[j] = fs[j]
    <3> HIDE DEF ReadFields
    <3> QED  BY <2>5
  <2>7. CASE i \in 1..m
    <3>1. Turns(raw, sep)[m + 1].fields[i] = Turns(raw, sep)[m].fields[i]
      BY <2>4, <2>5, <2>6, <2>7
    <3> QED  BY <2>2, <2>7, <3>1
  <2>8. CASE i = m + 1
    <3>1. (m + 1) - 1 = m
      OBVIOUS
    <3>2. At(m + 1) = f
      BY <2>4, <2>5, <3>1
    <3> QED  BY <2>5, <2>6, <2>8, <3>2
  <2> QED  BY <2>7, <2>8
<1> HIDE DEF U
<1>3. \A m \in Nat : m \in U
  BY <1>1, <1>2, Induction
<1>4. \A m \in 0..N : \A i \in 1..m : Turns(raw, sep)[m].fields[i] = At(i)
  <2> SUFFICES ASSUME NEW m \in 0..N  PROVE \A i \in 1..m : Turns(raw, sep)[m].fields[i] = At(i)
    OBVIOUS
  <2>1. m \in Nat /\ m \in U
    BY <1>0, <1>3
  <2> QED  BY <2>1 DEF U
<1>5. N \in 0..N /\ LastTurn(raw, sep).fields = Turns(raw, sep)[N].fields /\ Len(Turns(raw, sep)[N].fields) = N
  BY <1>0 DEF HistoryOf
<1> QED  BY <1>4, <1>5

(* The loop only moves on.                                                 *)
LEMMA PositionsGrow ==
  ASSUME NEW raw \in Seq(Int), NEW sep, sep # Equals, NEW N, HistoryOf(raw, sep, N)
  PROVE  /\ \A k \in 0..N : Turns(raw, sep)[k].pos \in 1..(Len(raw) + 1)
         /\ \A k \in 0..N, j \in 0..N : j < k => Turns(raw, sep)[j].pos < Turns(raw, sep)[k].pos
<1>0. N \in Nat /\ N <= Len(raw) /\ Len(raw) \in Nat
  BY DEF HistoryOf
<1>1. \A k \in 0..N : Turns(raw, sep)[k].pos \in 1..(Len(raw) + 1)
  <2> SUFFICES ASSUME NEW k \in 0..N  PROVE Turns(raw, sep)[k].pos \in 1..(Len(raw) + 1)
    OBVIOUS
  <2>1. k \in 0..(Len(raw) + 1)
    BY <1>0
  <2>2. Turns(raw, sep)[k] \in TurnSet(raw)
    BY <2>1, TurnShape
  <2> QED  BY <2>2 DEF TurnSet
<1>2. PICK x : x = [k \in 0..N |-> Turns(raw, sep)[k].pos]
  OBVIOUS
<1>3. \A k \in 0..N : x[k] = Turns(raw, sep)[k].pos /\ x[k] \in Nat
  BY <1>0, <1>1, <1>2
<1>4. \A k \in 1..N : x[k - 1] < x[k]
  <2> SUFFICES ASSUME NEW k \in 1..N  PROVE x[k - 1] < x[k]
    OBVIOUS
  <2>1. PICK t, u, at, v : TurnIs(raw, sep, k, t, u, at, v)
    BY HistoryStep
  <2>2. k - 1 \in 0..N /\ k \in 0..N
    BY <1>0
  <2>3. x[k - 1] = at /\ x[k] = u.pos
    BY <1>3, <2>1, <2>2 DEF TurnIs
  <2>4. PICK e \in Nat : e = TagEnd(raw, at)
    BY <2>1 DEF TurnIs
  <2>5. at \in 1..Len(raw) /\ v \in 1..Len(raw) /\ at <= e /\ e < v /\ u.pos = v + 1
    BY <2>1, <2>4 DEF TurnIs
  <2> QED  BY <1>0, <2>3, <2>5
<1> DEFINE U == {k \in Nat : k \in 0..N => \A j \in 0..N : j < k => x[j] < x[k]}
<1>5. 0 \in U
  OBVIOUS
<1>6. ASSUME NEW k \in Nat, k \in U  PROVE k + 1 \in U
  <2> SUFFICES ASSUME k + 1 \in 0..N, NEW j \in 0..N, j < k + 1  PROVE x[j] < x[k + 1]
    OBVIOUS
  <2>1. k \in 0..N /\ k + 1 \in 1..N /\ (k + 1) - 1 = k /\ j \in Nat
    BY <1>0
  <2>2. x[k] < x[k + 1] /\ x[k] \in Nat /\ x[k + 1] \in Nat /\ x[j] \in Nat
    BY <1>3, <1>4, <2>1
  <2>3. j < k => x[j] < x[k]
    BY <1>6, <2>1
  <2> QED  BY <2>1, <2>2, <2>3
<1> HIDE DEF U
<1>7. \A k \in Nat : k \in U
  BY <1>5, <1>6, Induction
<1>8. \A k \in 0..N, j \in 0..N : j < k => x[j] < x[k]
  <2> SUFFICES ASSUME NEW k \in 0..N, NEW j \in 0..N, j < k  PROVE x[j] < x[k]
    OBVIOUS
  <2>1. k \in Nat /\ k \in U
    BY <1>0, <1>7
  <2> QED  BY <2>1 DEF U
<1> QED  BY <1>1, <1>3, <1>8

(* A byte that is not at least twice in a text does not separate its       *)
(* fields: parse takes no message in which the separator occurs once       *)
(* only, whatever it is. So the proxy, which tries '|' where there is      *)
(* one, never takes a message of SOH with a damaged byte for another.      *)
(* (parser.cpp:36-151, proxy.cpp:224)                                      *)
THEOREM OnePipe ==
  ASSUME NEW raw \in Seq(Int), NEW sep, sep # Equals, \A i, j \in 1..Len(raw) : raw[i] = sep /\ raw[j] = sep => i = j
  PROVE  parse(raw, sep).error # "Ok"
<1> SUFFICES ASSUME parse(raw, sep).error = "Ok"  PROVE FALSE
  OBVIOUS
<1>1. PICK N : HistoryOf(raw, sep, N)
  BY History
<1>2. N \in Nat /\ N >= 3
  <2>1. WellFormed(raw, sep, parse(raw, sep).fields)
    BY ParseType
  <2>2. Len(LastTurn(raw, sep).fields) >= 3
    BY <2>1 DEF WellFormed
  <2>3. Len(LastTurn(raw, sep).fields) = N /\ N \in Nat
    BY <1>1, HistoryFields DEF HistoryOf
  <2> QED  BY <2>2, <2>3
<1>3. 1 \in 1..N /\ 2 \in 1..N /\ 2 - 1 = 1
  BY <1>2
<1>4. PICK t, u, at, v : TurnIs(raw, sep, 1, t, u, at, v)
  BY <1>1, <1>3, HistoryStep
<1>5. PICK t2, u2, at2, v2 : TurnIs(raw, sep, 2, t2, u2, at2, v2)
  BY <1>1, <1>3, HistoryStep
<1>6. v \in 1..Len(raw) /\ v2 \in 1..Len(raw) /\ raw[v] = sep /\ raw[v2] = sep
  BY <1>4, <1>5 DEF TurnIs
<1>7. at2 = v + 1
  BY <1>3, <1>4, <1>5 DEF TurnIs
<1>8. PICK e \in Nat : e = TagEnd(raw, at2)
  BY <1>5 DEF TurnIs
<1>9. at2 <= e /\ e < v2
  BY <1>5, <1>8 DEF TurnIs
<1>10. v = v2
  BY <1>6
<1> QED  BY <1>6, <1>7, <1>9, <1>10

(* The first field with the tag 9 is the second one.                       *)
LEMMA GetNine ==
  ASSUME NEW fields, Shape(fields), NEW n \in Nat, n = Len(fields), n >= 2, DOMAIN fields = 1..n
  PROVE  Has(fields, 9) /\ Get(fields, 9) = fields[2].value
<1>1. fields[1].tag = 8 /\ fields[2].tag = 9
  BY DEF Shape
<1>2. PICK T : T = Positions(fields, 9)
  OBVIOUS
<1>3. T \subseteq Nat /\ 2 \in T /\ 1 \notin T /\ 0 \notin T
  BY <1>1, <1>2 DEF Positions
<1>4. PICK m \in Nat : m = Min(T) /\ m \in T /\ \A k \in T : m <= k
  BY <1>3, MinIsSmallest
<1>5. m <= 2
  BY <1>3, <1>4
<1>6. m # 0 /\ m # 1
  BY <1>3, <1>4
<1>7. m = 2
  BY <1>5, <1>6
<1> QED  BY <1>2, <1>3, <1>4, <1>7 DEF Has, Get

(* One byte of a message is another than was sent; a file ends in a line   *)
(* feed, or not.                                                           *)
DamagedAs(raw, w, p) ==
  /\ raw \in Seq(Byte) /\ p \in 1..Len(w) /\ raw[p] # w[p]
  /\ \A i \in 1..Len(w) : i # p => raw[i] = w[i]
  /\ Len(raw) = Len(w) \/ (Len(raw) = Len(w) + 1 /\ raw[Len(raw)] = LineFeed)

(* Damage elsewhere leaves a text where it is.                             *)
LEMMA PlacedStill ==
  ASSUME NEW w, Len(w) \in Nat, NEW raw, NEW p, DamagedAs(raw, w, p), NEW at \in Nat \ {0}, NEW text, Len(text) \in Nat,
         Placed(w, at, text), p < at \/ p > at + Len(text) - 1
  PROVE  Placed(raw, at, text)
<1>1. PICK n \in Nat, l \in Nat : n = Len(text) /\ l = Len(w)
  OBVIOUS
<1>2. at + n - 1 <= l /\ \A i \in 1..n : w[at + i - 1] = text[i]
  BY <1>1 DEF Placed
<1>3. p \in 1..l /\ Len(raw) \in Nat /\ Len(raw) >= l /\ \A i \in 1..l : i # p => raw[i] = w[i]
  BY <1>1 DEF DamagedAs
<1>4. \A i \in 1..n : raw[at + i - 1] = text[i]
  <2> SUFFICES ASSUME NEW i \in 1..n  PROVE raw[at + i - 1] = text[i]
    OBVIOUS
  <2>1. PICK j \in 1..l : j = at + i - 1
    BY <1>2
  <2>2. j # p
    BY <1>1, <1>3, <2>1
  <2>3. raw[j] = w[j] /\ w[j] = text[i]
    BY <1>2, <1>3, <2>1, <2>2
  <2> QED  BY <2>1, <2>3
<1> QED  BY <1>1, <1>2, <1>3, <1>4 DEF Placed

(* The trailer is read as what it says.                                    *)
LEMMA TrailerReads ==
  ASSUME NEW raw \in Seq(Int), NEW q \in Nat, NEW sum \in 0..255,
         NEW tr, tr = Written(10, ThreeDigits(sum), SOH), Placed(raw, q + 1, tr)
  PROVE  /\ ReadsAs(raw, SOH, q + 1, 10, ThreeDigits(sum), q + 8)
         /\ raw[q + 3] = Equals
<1>1. SOH # Equals
  BY TextFacts
<1>2. ThreeDigits(sum) \in Seq(Int) /\ Len(ThreeDigits(sum)) = 3 /\ Lacks(ThreeDigits(sum), SOH)
  <2>1. ThreeDigits(sum) \in Seq(Digits)
    BY ThreeDigitsAreRead
  <2>2. Digits \subseteq Int
    BY DigitsAre
  <2>3. ThreeDigits(sum) \in Seq(Int)
    BY <2>1, <2>2, SeqMonotonic
  <2> QED  BY <2>3, ThreeDigitsAreRead, ToCharsLacks
<1>3. Alphabet(Int, SOH)
  BY DigitsAre DEF Alphabet, CharsOfInt, Minus, Equals, SOH
<1>4. 10 \in Ints /\ ToChars(10) = <<49, 48>>
  BY SmallTags
<1>5. Len(tr) = 7 /\ tr[3] = Equals
  <2>1. PICK a, v : a = ToChars(10) /\ v = ThreeDigits(sum)
    OBVIOUS
  <2>2. Parted(tr, a, v, SOH)
    BY <1>2, <1>3, <1>4, <2>1, WrittenItems
  <2>3. Len(a) = 2 /\ Len(v) = 3
    BY <1>2, <1>4, <2>1
  <2>4. Len(tr) = Len(a) + Len(v) + 2 /\ tr[Len(a) + 1] = Equals
    BY <2>2 DEF Parted
  <2>5. Len(tr) = 2 + 3 + 2 /\ tr[2 + 1] = Equals
    BY <2>3, <2>4
  <2> QED  BY <2>5
<1>6. PICK first \in Nat \ {0} : first = q + 1
  OBVIOUS
<1>7. PICK next \in Nat : next = first + Len(tr) /\ next = q + 8
  <2>1. first + 7 = q + 8 /\ first + 7 \in Nat
    BY <1>6
  <2> QED  BY <1>5, <2>1
<1>8. ReadsAs(raw, SOH, first, 10, ThreeDigits(sum), next)
  BY <1>1, <1>2, <1>3, <1>4, <1>6, <1>7, ReadsWritten
<1>9. raw[q + 3] = Equals
  <2>1. \A i \in 1..7 : raw[first + i - 1] = tr[i]
    BY <1>5, <1>6 DEF Placed
  <2>2. 3 \in 1..7 /\ first + 3 - 1 = q + 3
    BY <1>6
  <2>3. raw[q + 3] = tr[3]
    BY <2>1, <2>2
  <2> QED  BY <1>5, <2>3
<1> QED  BY <1>6, <1>7, <1>8, <1>9

(* The trailer, if the byte in front of it is a separator, is the last     *)
(* field that is read.                                                     *)
LEMMA TrailerIsLast ==
  ASSUME NEW raw \in Seq(Int), NEW N, HistoryOf(raw, SOH, N), LastTurn(raw, SOH).error = "Ok",
         NEW q \in 1..Len(raw), raw[q] = SOH, NEW sum \in 0..255,
         NEW tr, tr = Written(10, ThreeDigits(sum), SOH), Placed(raw, q + 1, tr),
         Len(raw) \in {q + 7, q + 8}
  PROVE  N >= 1 /\ LastTurn(raw, SOH).fields[N]
                     = [tag |-> 10, value |-> ThreeDigits(sum), from |-> q + 1, next |-> q + 8]
<1>0. N \in Nat /\ Len(raw) \in Nat /\ q \in Nat
  BY DEF HistoryOf
<1>1. SOH # Equals /\ SOH \notin CharsOfInt
  BY DigitsAre DEF SOH, Equals, CharsOfInt, Minus
<1>6. PICK first \in Nat \ {0} : first = q + 1
  BY <1>0
<1>7. ReadsAs(raw, SOH, first, 10, ThreeDigits(sum), q + 8) /\ raw[q + 3] = Equals
  BY <1>0, <1>6, TrailerReads
<1>9. /\ TagEnd(raw, first) <= Len(raw) /\ ValueEnd(raw, SOH, first) = q + 7
      /\ FieldAt(raw, SOH, first) = [tag |-> 10, value |-> ThreeDigits(sum), from |-> q + 1, next |-> q + 8]
  <2>1. (q + 8) - 1 = q + 7
    BY <1>0
  <2>2. /\ TagEnd(raw, first) <= Len(raw) /\ ValueEnd(raw, SOH, first) = (q + 8) - 1
        /\ FieldAt(raw, SOH, first) = [tag |-> 10, value |-> ThreeDigits(sum), from |-> first, next |-> q + 8]
    BY <1>7 DEF ReadsAs
  <2> QED  BY <1>6, <2>1, <2>2
<1>10. raw[q + 3] = Equals /\ q + 3 \in 1..Len(raw)
  <2>1. q + 3 \in 1..Len(raw)
    BY <1>0
  <2> QED  BY <1>7, <2>1
<1>11. PICK n \in 0..N : Turns(raw, SOH)[n].pos = q + 1
  <2>1. PICK r \in 1..Len(raw) : r = q + 3 /\ q < r /\ raw[r] = Equals
    <3>1. q < q + 3
      BY <1>0
    <3> QED  BY <1>10, <3>1
  <2> QED  BY <1>1, <2>1, SeparatorEnds, SMTT(30)
<1>12. n # N
  <2> SUFFICES ASSUME n = N  PROVE FALSE
    OBVIOUS
  <2>1. AtEnd(raw, SOH, first)
    BY <1>6, <1>11 DEF HistoryOf
  <2>2. PICK e \in Nat : e = TagEnd(raw, first)
    <3>1. first \in 1..(Len(raw) + 1)
      BY <1>0, <1>6
    <3>2. TagEnd(raw, first) \in first..(Len(raw) + 1)
      BY <3>1, EndsAre
    <3> QED  BY <1>0, <3>2
  <2>3. ~(first > Len(raw)) /\ ~(e > Len(raw))
    BY <1>0, <1>6, <1>9, <2>2
  <2> QED  BY <2>1, <2>2, <2>3 DEF AtEnd
<1>13. PICK k \in 1..N : k = n + 1 /\ k - 1 = n
  BY <1>0, <1>12
<1>14. PICK t, u, at, v : TurnIs(raw, SOH, k, t, u, at, v)
  BY <1>1, HistoryStep
<1>15. at = first /\ u.pos = q + 8 /\ u = Turns(raw, SOH)[k]
  <2>1. at = first
    BY <1>6, <1>11, <1>13, <1>14 DEF TurnIs
  <2>2. v = q + 7
    BY <1>9, <1>14, <2>1 DEF TurnIs
  <2>3. u.pos = v + 1 /\ u = Turns(raw, SOH)[k]
    BY <1>14 DEF TurnIs
  <2> QED  BY <1>0, <2>1, <2>2, <2>3
<1>16. k = N
  <2> SUFFICES ASSUME k # N  PROVE FALSE
    OBVIOUS
  <2>1. PICK m \in 1..N : m = k + 1 /\ m - 1 = k
    BY <1>0
  <2>2. PICK tt, uu, aa, vv : TurnIs(raw, SOH, m, tt, uu, aa, vv)
    BY <1>1, HistoryStep
  <2>3. aa = q + 8
    BY <1>15, <2>1, <2>2 DEF TurnIs
  <2>4. PICK e \in Nat : e = TagEnd(raw, aa)
    BY <2>2 DEF TurnIs
  <2>5. aa <= e /\ e < vv /\ vv \in 1..Len(raw)
    BY <2>2, <2>4 DEF TurnIs
  <2> QED  BY <1>0, <2>3, <2>5
<1>17. LastTurn(raw, SOH).fields[k] = FieldAt(raw, SOH, Turns(raw, SOH)[k - 1].pos)
  BY <1>1, HistoryFields
<1>18. LastTurn(raw, SOH).fields[k] = FieldAt(raw, SOH, first)
  BY <1>6, <1>11, <1>13, <1>17
<1> QED  BY <1>0, <1>9, <1>16, <1>18

(* What is summed, and where it ends.                                      *)
SummedIs(c, w, sm, tr, q, sum) ==
  /\ w = Whole(c, SOH) /\ sm = Summed(c, SOH) /\ q = Len(sm) /\ sum = SumOf(sm)
  /\ w = Cat(sm, tr) /\ tr = Written(10, ThreeDigits(sum), SOH)
  /\ w \in Seq(Text) /\ sm \in Seq(Text) /\ tr \in Seq(Text) /\ q \in Nat \ {0} /\ sum \in 0..255
  /\ Len(tr) = 7 /\ Len(w) = q + 7
  /\ \A i \in 1..q : w[i] = sm[i]
  /\ w[q] = SOH /\ Placed(w, q + 1, tr)

(* Every serialized message has such parts.                                *)
LEMMA SummedEnds ==
  ASSUME NEW c \in Seq(Pairs(Text)), c # <<>>, c[1].tag = 8
  PROVE  \E w, sm, tr, q, sum : SummedIs(c, w, sm, tr, q, sum)
<1>0. Text \subseteq Int /\ Alphabet(Text, SOH)
  BY TextFacts
<1>1. PICK w \in Seq(Text), sm \in Seq(Text), tr \in Seq(Text), sum \in 0..255 :
        w = Whole(c, SOH) /\ sm = Summed(c, SOH) /\ tr = Trailer(c, SOH) /\ sum = SumOf(sm)
  BY <1>0, PartsType
<1>2. w = Cat(sm, tr) /\ tr = Written(10, ThreeDigits(sum), SOH) /\ Len(tr) = 7
  BY <1>0, <1>1, PartsType DEF Whole, Trailer, Cat
<1>3. PICK q \in Nat : q = Len(sm)
  BY <1>1
<1>4. Len(w) = q + 7 /\ \A i \in 1..q : w[i] = sm[i]
  <2>1. Len(w) = Len(sm) + Len(tr)
    BY <1>1, <1>2, ConcatType DEF Cat
  <2>2. \A i \in 1..Len(sm) : (sm \o tr)[i] = sm[i]
    BY <1>1, ConcatItems
  <2> QED  BY <1>2, <1>3, <2>1, <2>2 DEF Cat
<1>5. PICK s, n, begun, sized, body : Follows(c, SOH, s, n, begun, sized, body)
  BY <1>0, PartsFollow
<1>6. PICK k \in Nat : n = k + 3
  BY <1>5 DEF Follows
<1>7. s = Everything(c, SOH) /\ n = Len(s) /\ Reached(s, n - 1) = 1 + q
  BY <1>1, <1>3, <1>5 DEF Follows
<1>8. s \in Seq(Pairs(Text))
  BY <1>0, <1>7, EverythingIs
<1>9. AllPlaced(w, s, SOH)
  <2>1. LineFeed \in Int /\ ArrivesAs(w, c, SOH)
    BY <1>1 DEF LineFeed, ArrivesAs
  <2> QED  BY <1>0, <1>7, <2>1, SummedPlaced
<1>10. PICK j : j = k + 2 /\ j \in 1..Len(s) /\ j = n - 1 /\ j \in 0..Len(s)
  BY <1>6, <1>7
<1>11. PICK x \in Pairs(Text) : x = s[j]
  BY <1>8, <1>10
<1>12. PICK piece, from : piece = Written(x.tag, x.value, SOH) /\ from = Reached(s, j - 1) /\ Placed(w, from, piece)
  BY <1>9, <1>10, <1>11 DEF AllPlaced
<1>13. from \in Nat \ {0} /\ 1 + q = from + Len(piece) /\ Len(piece) \in Nat
  <2>1. Each(x) = Len(piece) /\ Each(x) \in Nat
    BY <1>0, <1>12, WrittenLength
  <2>2. Reached(s, j) = Reached(s, j - 1) + Each(s[j])
    BY <1>8, <1>10, ReachedIs
  <2>3. j - 1 \in 0..Len(s)
    BY <1>6, <1>7, <1>10
  <2>4. from \in Nat \ {0}
    BY <1>8, <1>12, <2>3, ReachedIs
  <2> QED  BY <1>7, <1>10, <1>11, <1>12, <2>1, <2>2, <2>4
<1>14. PICK a, v : a = ToChars(x.tag) /\ v = x.value
  OBVIOUS
<1>15. x.tag \in Ints /\ v \in Seq(Text)
  BY <1>0, <1>14, WrittenLength
<1>16. Parted(piece, a, v, SOH) /\ Len(a) \in Nat /\ Len(v) \in Nat
  <2>1. Parted(piece, a, v, SOH) /\ Len(a) \in Nat
    BY <1>0, <1>12, <1>14, <1>15, WrittenItems
  <2> QED  BY <1>15, <2>1
<1>17. piece[Len(piece)] = SOH /\ Len(piece) \in 1..Len(piece)
  BY <1>13, <1>16 DEF Parted
<1>18. w[q] = SOH /\ q # 0
  <2>1. PICK l \in Nat : l = Len(piece) /\ l >= 1
    BY <1>13, <1>17
  <2>2. w[from + l - 1] = piece[l]
    BY <1>12, <1>17, <2>1 DEF Placed
  <2>3. from + l - 1 = q /\ q # 0
    BY <1>13, <2>1
  <2> QED  BY <1>17, <2>1, <2>2, <2>3
<1>19. Placed(w, q + 1, tr)
  BY <1>1, <1>2, <1>3, PlacedEnd
<1>20. SummedIs(c, w, sm, tr, q, sum)
  BY <1>1, <1>2, <1>3, <1>4, <1>18, <1>19 DEF SummedIs
<1> QED  BY <1>20

(* What is known of a text that was parsed.                                *)
Parsed(raw, N, fields) ==
  /\ fields = parse(raw, SOH).fields /\ fields = LastTurn(raw, SOH).fields
  /\ HistoryOf(raw, SOH, N) /\ LastTurn(raw, SOH).error = "Ok"
  /\ N \in Nat /\ N >= 3 /\ N <= MAX_FIELDS /\ N <= Len(raw)
  /\ fields \in Seq(ReadFields) /\ Len(fields) = N /\ DOMAIN fields = 1..N
  /\ fields[N].tag = 10 /\ FromChars(fields[N].value).ok
  /\ FromChars(fields[N].value).value = SumOf(SubSeq(raw, 1, fields[N].from - 1))
  /\ FromChars(fields[2].value).ok
  /\ FromChars(fields[2].value).value = fields[N].from - fields[2].next
  /\ \A i \in 1..N : fields[i] = FieldAt(raw, SOH, Turns(raw, SOH)[i - 1].pos)
  /\ \A i \in 1..N : fields[i].from = Turns(raw, SOH)[i - 1].pos

(* A text that parses has a history that ends well.                        *)
LEMMA ParsedIs ==
  ASSUME NEW raw \in Seq(Int), parse(raw, SOH).error = "Ok"
  PROVE  \E N, fields : Parsed(raw, N, fields)
<1>0. SOH # Equals
  BY TextFacts
<1>1. PICK N : HistoryOf(raw, SOH, N)
  BY History
<1>2. PICK fields : fields = parse(raw, SOH).fields
  OBVIOUS
<1>3. WellFormed(raw, SOH, fields) /\ Shape(fields) /\ fields \in Seq(ReadFields) /\ Len(fields) <= MAX_FIELDS
  BY <1>2, ParseType
<1>4. fields = LastTurn(raw, SOH).fields /\ LastTurn(raw, SOH).error = "Ok" /\ Len(fields) >= 3
  BY <1>3 DEF WellFormed
<1>5. N \in Nat /\ N <= Len(raw) /\ Len(fields) = N
  BY <1>0, <1>1, <1>4, HistoryFields DEF HistoryOf
<1>6. DOMAIN fields = 1..N /\ N >= 3 /\ N <= MAX_FIELDS
  BY <1>3, <1>4, <1>5
<1>7. Last(fields) = fields[N]
  BY <1>5 DEF Last
<1>8. Has(fields, 9) /\ Get(fields, 9) = fields[2].value
  <2>1. N >= 2
    BY <1>5, <1>6
  <2> QED  BY <1>3, <1>5, <1>6, <2>1, GetNine
<1>9. /\ fields[N].tag = 10 /\ FromChars(fields[N].value).ok
      /\ FromChars(fields[N].value).value = SumOf(SubSeq(raw, 1, fields[N].from - 1))
      /\ FromChars(fields[2].value).ok
      /\ FromChars(fields[2].value).value = fields[N].from - fields[2].next
  BY <1>3, <1>7, <1>8 DEF WellFormed, Checked, HasInt, GetInt, BodyLength
<1>10. \A i \in 1..N : fields[i] = FieldAt(raw, SOH, Turns(raw, SOH)[i - 1].pos)
  BY <1>0, <1>1, <1>4, HistoryFields
<1>11. \A i \in 1..N : fields[i].from = Turns(raw, SOH)[i - 1].pos
  <2> SUFFICES ASSUME NEW i \in 1..N  PROVE fields[i].from = Turns(raw, SOH)[i - 1].pos
    OBVIOUS
  <2>1. PICK at : at = Turns(raw, SOH)[i - 1].pos
    OBVIOUS
  <2>2. fields[i] = FieldAt(raw, SOH, at)
    BY <1>10, <2>1
  <2>3. FieldAt(raw, SOH, at).from = at
    BY DEF FieldAt
  <2> QED  BY <2>1, <2>2, <2>3
<1>12. Parsed(raw, N, fields)
  BY <1>1, <1>2, <1>3, <1>4, <1>5, <1>6, <1>9, <1>10, <1>11 DEF Parsed
<1> QED  BY <1>12

(* Damage to one byte of a serialized message in front of its trailer,     *)
(* wherever it is and whatever the byte turns into, makes parse fail: the  *)
(* checksum is another then, or the format or the length is wrong.         *)
(* (parser.cpp:36-149, 257-387)                                            *)
THEOREM DamageBefore ==
  ASSUME NEW c \in Seq(Pairs(Text)), c # <<>>, c[1].tag = 8,
         NEW raw, NEW p, DamagedAs(raw, Whole(c, SOH), p), p < Len(Summed(c, SOH))
  PROVE  parse(raw, SOH).error # "Ok"
<1> SUFFICES ASSUME parse(raw, SOH).error = "Ok"  PROVE FALSE
  OBVIOUS
<1>1. PICK w, sm, tr, q, sum : SummedIs(c, w, sm, tr, q, sum)
  BY SummedEnds
<1>2. /\ w = Whole(c, SOH) /\ q = Len(sm) /\ sm = Summed(c, SOH) /\ sum = SumOf(sm)
      /\ w \in Seq(Text) /\ sm \in Seq(Text) /\ q \in Nat \ {0} /\ sum \in 0..255
      /\ tr = Written(10, ThreeDigits(sum), SOH) /\ Len(tr) = 7 /\ Len(w) = q + 7
      /\ w[q] = SOH /\ Placed(w, q + 1, tr)
  BY <1>1 DEF SummedIs
<1>a. \A i \in 1..q : w[i] = sm[i]
  BY <1>1 DEF SummedIs
<1>3. /\ raw \in Seq(Byte) /\ p \in 1..(q + 7) /\ raw[p] # w[p] /\ p < q
      /\ Len(raw) \in {q + 7, q + 8}
      /\ \A i \in 1..(q + 7) : i # p => raw[i] = w[i]
  BY <1>2 DEF DamagedAs
<1>4. raw \in Seq(Int)
  <2>1. Byte \subseteq Int
    BY DEF Byte
  <2> QED  BY <1>3, <2>1, SeqMonotonic
<1>5. raw[q] = SOH /\ q \in 1..Len(raw)
  <2>1. q \in 1..(q + 7) /\ q # p /\ q \in 1..Len(raw)
    BY <1>2, <1>3
  <2>2. raw[q] = w[q]
    BY <1>3, <2>1
  <2> QED  BY <1>2, <2>1, <2>2
<1>6. Placed(raw, q + 1, tr)
  <2>1. q + 1 \in Nat \ {0} /\ p < q + 1 /\ Len(w) \in Nat /\ Len(tr) \in Nat
    BY <1>2, <1>3
  <2>2. DamagedAs(raw, w, p)
    BY <1>2
  <2> QED  BY <1>2, <2>1, <2>2, PlacedStill
<1>7. PICK N, fields : Parsed(raw, N, fields)
  BY <1>4, ParsedIs
<1>8. /\ HistoryOf(raw, SOH, N) /\ LastTurn(raw, SOH).error = "Ok" /\ fields = LastTurn(raw, SOH).fields
      /\ FromChars(fields[N].value).value = SumOf(SubSeq(raw, 1, fields[N].from - 1))
  BY <1>7 DEF Parsed
<1>9. N >= 1 /\ LastTurn(raw, SOH).fields[N]
                  = [tag |-> 10, value |-> ThreeDigits(sum), from |-> q + 1, next |-> q + 8]
  <2>1. /\ HistoryOf(raw, SOH, N) /\ LastTurn(raw, SOH).error = "Ok"
        /\ raw[q] = SOH /\ tr = Written(10, ThreeDigits(sum), SOH) /\ Placed(raw, q + 1, tr)
    BY <1>2, <1>5, <1>6, <1>8
  <2>2. q \in 1..Len(raw) /\ Len(raw) \in {q + 7, q + 8} /\ sum \in 0..255
    BY <1>2, <1>3, <1>5
  <2> QED  BY <1>4, <2>1, <2>2, TrailerIsLast
<1>10. fields[N].value = ThreeDigits(sum) /\ fields[N].from - 1 = q
  BY <1>2, <1>8, <1>9
<1>11. sum = SumOf(SubSeq(raw, 1, q))
  <2>1. FromChars(ThreeDigits(sum)).value = sum
    <3>1. FromChars(ThreeDigits(sum)) = [ok |-> TRUE, value |-> sum, length |-> 3]
      <4>1. sum \in 0..255
        BY <1>2
      <4> QED  BY <4>1, ThreeDigitsAreRead
    <3> QED  BY <3>1
  <2>2. PICK v, to : v = fields[N].value /\ to = fields[N].from - 1
    OBVIOUS
  <2>3. v = ThreeDigits(sum) /\ to = q
    BY <1>10, <2>2
  <2>4. FromChars(v).value = SumOf(SubSeq(raw, 1, to))
    BY <1>8, <2>2, Zenon
  <2> QED  BY <2>1, <2>3, <2>4, Zenon
<1>12. PICK part : part = SubSeq(raw, 1, q)
  OBVIOUS
<1>13. part \in Seq(Byte) /\ Len(part) = q /\ \A i \in 1..q : part[i] = raw[i]
  <2>1. q <= Len(raw) /\ q \in Nat
    BY <1>2, <1>3
  <2> HIDE DEF Byte
  <2> QED  BY <1>3, <1>12, <2>1
<1>14. sm \in Seq(Byte)
  BY <1>2, TextFacts, SeqMonotonic
<1>15. p \in 1..q
  BY <1>2, <1>3
<1>16. part[p] # sm[p] /\ \A i \in 1..q : i # p => part[i] = sm[i]
  <2>1. \A i \in 1..q : i \in 1..(q + 7)
    BY <1>2
  <2> QED  BY <1>a, <1>3, <1>13, <1>15, <2>1
<1>17. SumOf(part) # SumOf(sm)
  <2>1. Len(part) = Len(sm) /\ p \in 1..Len(part) /\ \A i \in 1..Len(part) : i # p => part[i] = sm[i]
    BY <1>2, <1>13, <1>15, <1>16
  <2>2. part \in Seq(Byte) /\ part[p] # sm[p]
    BY <1>13, <1>16
  <2> QED  BY <1>14, <2>1, <2>2, OneByteSum
<1> QED  BY <1>2, <1>11, <1>12, <1>17

(* The two fields in front of the body.                                    *)
Lead(c) == Append(<<c[1]>>, NineOf(c, SOH))

(* They are in front of every serialized message.                          *)
LEMMA FrontPlaced ==
  ASSUME NEW c \in Seq(Pairs(Text)), c # <<>>, c[1].tag = 8
  PROVE  /\ Lead(c) \in Seq(Pairs(Text)) /\ Len(Lead(c)) = 2
         /\ Lead(c)[1] = c[1] /\ Lead(c)[2] = NineOf(c, SOH)
         /\ AllPlaced(Whole(c, SOH), Lead(c), SOH)
         /\ Reached(Lead(c), 2) \in Nat
         /\ Reached(Lead(c), 2) + Len(Body(c, SOH)) = Len(Summed(c, SOH)) + 1
<1>0. Text \subseteq Int /\ Alphabet(Text, SOH)
  BY TextFacts
<1>1. PICK x \in Pairs(Text), y \in Pairs(Text) : x = c[1] /\ y = NineOf(c, SOH)
  BY <1>0, EverythingIs
<1>2. PICK s : s = Lead(c)
  OBVIOUS
<1>3. s \in Seq(Pairs(Text)) /\ Len(s) = 2 /\ s[1] = x /\ s[2] = y
  <2>1. s = Append(<<x>>, y)
    BY <1>1, <1>2 DEF Lead
  <2> HIDE DEF Pairs
  <2> QED  BY <1>1, <2>1
<1>4. PICK begun \in Seq(Text), sized \in Seq(Text), body \in Seq(Text), tr \in Seq(Text) :
        begun = Begun(c, SOH) /\ sized = Sized(c, SOH) /\ body = Body(c, SOH) /\ tr = Trailer(c, SOH)
  BY <1>0, PartsType
<1>5. WrittenAll(s, SOH) = Cat(begun, sized)
  <2>1. <<x>> \in Seq(Pairs(Text))
    <3> HIDE DEF Pairs
    <3> QED  BY <1>1
  <2>2. WrittenAll(Append(<<x>>, y), SOH) = WrittenAll(<<x>>, SOH) \o Written(y.tag, y.value, SOH)
    BY <1>0, <1>1, <2>1, WrittenAllAppend
  <2>3. WrittenAll(<<x>>, SOH) = Written(x.tag, x.value, SOH)
    BY <1>0, <1>1, WrittenAllOne
  <2>4. begun = Written(x.tag, x.value, SOH)
    BY <1>1, <1>4 DEF Begun
  <2>5. sized = Written(y.tag, y.value, SOH)
    BY <1>1, <1>4 DEF Sized, NineOf
  <2> QED  BY <1>1, <1>2, <2>2, <2>3, <2>4, <2>5 DEF Lead, Cat
<1>6. PICK head \in Seq(Text) : head = Cat(begun, sized)
  <2>1. begun \o sized \in Seq(Text)
    BY ConcatType
  <2> QED  BY <2>1 DEF Cat
<1>7. PICK sm \in Seq(Text) : sm = Summed(c, SOH) /\ sm = Cat(head, body)
  <2>1. Summed(c, SOH) \in Seq(Text)
    BY <1>0, PartsType
  <2> QED  BY <1>4, <1>6, <2>1 DEF Summed, Cat
<1>8. Whole(c, SOH) = Cat(sm, tr)
  BY <1>4, <1>7 DEF Whole, Cat
<1>9. head \in Seq(Int) /\ body \in Seq(Int)
  BY <1>0, SeqMonotonic
<1>10. sm \in Seq(Int) /\ tr \in Seq(Int)
  BY <1>0, SeqMonotonic
<1>11. AllPlaced(head, s, SOH)
  BY <1>0, <1>3, <1>5, <1>6, WrittenPlaced
<1>12. AllPlaced(sm, s, SOH)
  BY <1>0, <1>3, <1>7, <1>9, <1>11, AllPlacedMore
<1>13. AllPlaced(Whole(c, SOH), s, SOH)
  BY <1>0, <1>3, <1>8, <1>10, <1>12, AllPlacedMore
<1>14. Reached(s, 2) = 1 + Len(head)
  <2>1. Reached(s, Len(s)) = 1 + Len(WrittenAll(s, SOH))
    BY <1>0, <1>3, ReachedAll
  <2> QED  BY <1>3, <1>5, <1>6, <2>1
<1>15. Len(sm) = Len(head) + Len(body) /\ Len(head) \in Nat /\ Len(body) \in Nat
  BY <1>7, ConcatType DEF Cat
<1>16. Reached(s, 2) \in Nat /\ Reached(s, 2) + Len(body) = Len(sm) + 1
  BY <1>14, <1>15
<1> QED  BY <1>1, <1>2, <1>3, <1>4, <1>7, <1>13, <1>16

(* What is read of a message whose damage is behind its first two fields:  *)
(* the length still says where the trailer begins, so that the byte in     *)
(* front of it still is a separator.                                       *)
LEMMA LengthHolds ==
  ASSUME NEW c \in Seq(Pairs(Text)), c # <<>>, c[1].tag = 8, Lacks(c[1].value, SOH),
         Len(Whole(c, SOH)) <= MaxInt, Len(Body(c, SOH)) > 0,
         NEW raw, NEW p, DamagedAs(raw, Whole(c, SOH), p), p >= Len(Summed(c, SOH)),
         NEW N, NEW fields, Parsed(raw, N, fields)
  PROVE  /\ p > Len(Summed(c, SOH))
         /\ Turns(raw, SOH)[N - 1].pos = Len(Summed(c, SOH)) + 1
<1>0. Text \subseteq Int /\ Alphabet(Text, SOH) /\ SOH # Equals
  BY TextFacts
<1>1. PICK w, sm, tr, q, sum : SummedIs(c, w, sm, tr, q, sum)
  BY SummedEnds
<1>2. w = Whole(c, SOH) /\ q = Len(Summed(c, SOH)) /\ q \in Nat \ {0} /\ Len(w) = q + 7 /\ w[q] = SOH
  BY <1>1 DEF SummedIs
<1>3. DamagedAs(raw, w, p) /\ p >= q
  BY <1>2
<1>4. raw \in Seq(Byte) /\ p \in 1..(q + 7) /\ raw[p] # w[p] /\ \A i \in 1..(q + 7) : i # p => raw[i] = w[i]
  BY <1>2, <1>3 DEF DamagedAs
<1>5. raw \in Seq(Int)
  <2>1. Byte \subseteq Int
    BY DEF Byte
  <2> QED  BY <1>4, <2>1, SeqMonotonic
<1>6. PICK s, body : s = Lead(c) /\ body = Len(Body(c, SOH))
  OBVIOUS
<1>7. /\ s \in Seq(Pairs(Text)) /\ Len(s) = 2 /\ s[1] = c[1] /\ s[2] = NineOf(c, SOH)
      /\ AllPlaced(w, s, SOH) /\ Reached(s, 2) \in Nat /\ Reached(s, 2) + body = q + 1
  BY <1>2, <1>6, FrontPlaced
<1>8. body \in Nat \ {0} /\ body \in Ints
  <2>1. Len(Body(c, SOH)) \in Nat
    BY <1>0, PartsType
  <2>2. body \in Nat /\ body > 0 /\ q + 7 <= MaxInt
    BY <1>2, <1>6, <2>1
  <2>3. PICK two \in Nat : two = Reached(s, 2)
    BY <1>7
  <2>4. body <= q + 1
    BY <1>2, <1>7, <2>2, <2>3
  <2>5. body <= MaxInt
    BY <1>2, <2>2, <2>4, CodecAssumption
  <2> QED  BY <2>2, <2>5, CodecAssumption DEF Ints
<1>9. s[1].tag = 8 /\ s[2].tag = 9 /\ s[2].value = ToChars(body)
  BY <1>6, <1>7 DEF NineOf
<1>10. N \in Nat /\ N >= 3 /\ N <= MAX_FIELDS
  BY DEF Parsed
<1>11. Readable(s, SOH)
  <2>1. Lacks(s[1].value, SOH) /\ Lacks(s[2].value, SOH)
    BY <1>7, <1>8, <1>9, ToCharsLacks
  <2>2. \A i \in 1..Len(s) : i = 1 \/ i = 2
    BY <1>7
  <2>3. \A i \in 1..Len(s) : Lacks(s[i].value, SOH)
    BY <2>1, <2>2
  <2>4. Len(s) <= MAX_FIELDS
    BY <1>7, <1>10, CodecAssumption
  <2> QED  BY <1>9, <2>3, <2>4 DEF Readable
<1>12. AllPlaced(raw, s, SOH)
  <2> SUFFICES ASSUME NEW n \in 1..Len(s)
               PROVE  Placed(raw, Reached(s, n - 1), Written(s[n].tag, s[n].value, SOH))
    BY DEF AllPlaced
  <2>1. PICK x \in Pairs(Text) : x = s[n]
    BY <1>7, EachOfType
  <2>2. PICK piece, at : piece = Written(x.tag, x.value, SOH) /\ at = Reached(s, n - 1)
    OBVIOUS
  <2>3. Placed(w, at, piece)
    BY <1>7, <2>1, <2>2 DEF AllPlaced
  <2>4. Each(x) = Len(piece) /\ Len(piece) \in Nat
    BY <1>0, <2>2, WrittenLength
  <2>5. Reached(s, n) = at + Len(piece) /\ at \in Nat \ {0}
    <3>1. n - 1 \in 0..Len(s) /\ n \in 1..Len(s)
      BY <1>7
    <3>2. Reached(s, n) = Reached(s, n - 1) + Each(s[n]) /\ Reached(s, n - 1) \in Nat \ {0}
      BY <1>7, <3>1, ReachedIs
    <3> QED  BY <2>1, <2>2, <2>4, <3>2
  <2>6. PICK one, two : one = Reached(s, 1) /\ two = Reached(s, 2)
    OBVIOUS
  <2>7. two \in Nat /\ one \in Nat /\ one <= two /\ two + body = q + 1
    <3>1. Each(s[2]) \in Nat
      <4>1. 2 \in 1..Len(s)
        BY <1>7
      <4> QED  BY <1>7, <4>1, EachOfType
    <3>2. Reached(s, 2) = Reached(s, 1) + Each(s[2]) /\ Reached(s, 1) \in Nat
      <4>1. 2 \in 1..Len(s) /\ 2 - 1 = 1 /\ 1 \in 0..Len(s)
        BY <1>7
      <4> QED  BY <1>7, <4>1, ReachedIs
    <3> QED  BY <1>7, <2>6, <3>1, <3>2
  <2>8. at + Len(piece) <= two
    <3>1. n = 1 \/ n = 2
      BY <1>7
    <3>2. n = 1 => at + Len(piece) = one
      BY <2>5, <2>6
    <3>3. n = 2 => at + Len(piece) = two
      BY <2>5, <2>6
    <3> QED  BY <2>7, <3>1, <3>2, <3>3
  <2>9. p > at + Len(piece) - 1
    BY <1>2, <1>3, <1>4, <1>8, <2>4, <2>5, <2>7, <2>8
  <2>10. Placed(raw, at, piece)
    <3>1. Len(w) \in Nat
      BY <1>2
    <3> QED  BY <1>3, <2>3, <2>4, <2>5, <2>9, <3>1, PlacedStill
  <2> QED  BY <2>1, <2>2, <2>10
<1>13. Behind(Turns(raw, SOH)[2], s, 2)
  <2>1. Behind(Turns(raw, SOH)[Len(s)], s, Len(s))
    BY <1>0, <1>5, <1>7, <1>11, <1>12, ScanReads
  <2> QED  BY <1>7, <2>1
<1>14. HistoryOf(raw, SOH, N)
  BY DEF Parsed
<1>15. fields[2] = PieceOf(s, 2)
  <2>1. Turns(raw, SOH)[2].fields[2] = PieceOf(s, 2)
    <3>1. 2 \in 1..2
      OBVIOUS
    <3> QED  BY <1>13, <3>1 DEF Behind
  <2>2. 2 \in 0..N /\ 2 \in 1..2 /\ 2 \in 1..N
    BY <1>10
  <2>3. Turns(raw, SOH)[2].fields[2] = FieldAt(raw, SOH, Turns(raw, SOH)[2 - 1].pos)
    BY <1>0, <1>5, <1>14, <2>2, HistoryFields
  <2>4. fields[2] = FieldAt(raw, SOH, Turns(raw, SOH)[2 - 1].pos)
    BY <2>2 DEF Parsed
  <2> QED  BY <2>1, <2>3, <2>4
<1>16. fields[2].value = ToChars(body) /\ fields[2].next = Reached(s, 2)
  BY <1>9, <1>15 DEF PieceOf
<1>17. FromChars(ToChars(body)).value = body
  <2>1. FromChars(ToChars(body)) = [ok |-> TRUE, value |-> body, length |-> Len(ToChars(body))]
    BY <1>8, ToCharsIsRead
  <2> QED  BY <2>1
<1>18. PICK at : at = Turns(raw, SOH)[N - 1].pos
  OBVIOUS
<1>19. at = fields[N].from
  <2>1. N \in 1..N
    BY <1>10
  <2> QED  BY <1>18, <2>1 DEF Parsed
<1>20. at \in Nat
  <2>1. N - 1 \in 0..N
    BY <1>10
  <2>2. at \in 1..(Len(raw) + 1)
    BY <1>0, <1>5, <1>14, <1>18, <2>1, PositionsGrow
  <2> QED  BY <2>2
<1>21. at = q + 1
  <2>1. FromChars(fields[2].value).value = fields[N].from - fields[2].next
    BY DEF Parsed
  <2>2. PICK two \in Nat : two = Reached(s, 2)
    BY <1>7
  <2>3. body = at - two
    BY <1>16, <1>17, <1>19, <2>1, <2>2
  <2>4. two + body = q + 1
    BY <1>7, <2>2
  <2> QED  BY <1>2, <1>8, <1>20, <2>3, <2>4
<1>22. raw[q] = SOH
  <2>1. PICK k \in 1..N : k = N - 1
    BY <1>10
  <2>2. PICK t, u, first, v : TurnIs(raw, SOH, k, t, u, first, v)
    BY <1>0, <1>5, <1>14, HistoryStep
  <2>3. at = v + 1 /\ v \in 1..Len(raw) /\ raw[v] = SOH
    BY <1>18, <2>1, <2>2 DEF TurnIs
  <2>4. v = q
    BY <1>2, <1>21, <2>3
  <2> QED  BY <2>3, <2>4
<1>23. p # q
  BY <1>2, <1>4, <1>22
<1> QED  BY <1>2, <1>3, <1>4, <1>18, <1>21, <1>23

(* Two texts that are the same up to q.                                    *)
Alike(raw, w, q) ==
  /\ raw \in Seq(Int) /\ w \in Seq(Int) /\ q \in Nat /\ q <= Len(raw) /\ q <= Len(w)
  /\ \A i \in 1..q : raw[i] = w[i]

(* Cut out of either, a part is the same.                                  *)
LEMMA SameSubSeq ==
  ASSUME NEW raw, NEW w, NEW q, Alike(raw, w, q),
         NEW from \in Nat \ {0}, NEW to \in Nat, to >= from - 1, to <= q
  PROVE  SubSeq(raw, from, to) = SubSeq(w, from, to)
<1>1. /\ raw \in Seq(Int) /\ w \in Seq(Int) /\ q \in Nat /\ q <= Len(raw) /\ q <= Len(w)
      /\ Len(raw) \in Nat /\ Len(w) \in Nat
  BY DEF Alike
<1>2. PICK a : a = SubSeq(raw, from, to)
  OBVIOUS
<1>3. PICK n \in Nat : n = to - from + 1
  OBVIOUS
<1>4. a \in Seq(Int) /\ Len(a) = n /\ \A i \in 1..n : a[i] = raw[from + i - 1]
  <2>1. to <= Len(raw) /\ from <= to + 1
    BY <1>1
  <2>2. SubSeq(raw, from, to) \in Seq(Int) /\ Len(SubSeq(raw, from, to)) = to - from + 1
        /\ \A i \in 1..(to - from + 1) : SubSeq(raw, from, to)[i] = raw[from + i - 1]
    <3>1. from \in Int /\ to \in Int
      OBVIOUS
    <3>2. \A i \in from..to : raw[i] \in Int
      BY <1>1, <2>1
    <3>3. /\ SubSeq(raw, from, to) \in Seq(Int)
          /\ Len(SubSeq(raw, from, to)) = IF from <= to THEN to - from + 1 ELSE 0
          /\ \A i \in 1..(to - from + 1) : SubSeq(raw, from, to)[i] = raw[from + i - 1]
      BY <3>1, <3>2, SubSeqProperties
    <3>4. (IF from <= to THEN to - from + 1 ELSE 0) = to - from + 1
      BY <2>1
    <3> QED  BY <3>3, <3>4
  <2> QED  BY <1>2, <1>3, <2>2
<1>5. \A i \in 1..n : w[from + i - 1] = a[i]
  <2> SUFFICES ASSUME NEW i \in 1..n  PROVE w[from + i - 1] = a[i]
    OBVIOUS
  <2>1. PICK j \in 1..q : j = from + i - 1
    BY <1>1, <1>3
  <2>2. raw[j] = w[j]
    BY <2>1 DEF Alike
  <2> QED  BY <1>4, <2>1, <2>2
<1>6. from + n - 1 <= Len(w) /\ to = from + n - 1
  BY <1>1, <1>3
<1>7. Placed(w, from, a) /\ to = from + Len(a) - 1
  BY <1>4, <1>5, <1>6 DEF Placed
<1>8. SubSeq(w, from, to) = a
  BY <1>1, <1>4, <1>7, SubSeqIs
<1> QED  BY <1>2, <1>8

(* A field that ends within what is the same is the same.                  *)
SameAt(raw, w, sep, at) ==
  /\ TagEnd(w, at) = TagEnd(raw, at) /\ ValueEnd(w, sep, at) = ValueEnd(raw, sep, at)
  /\ TagAt(w, at) = TagAt(raw, at) /\ (IsTagAt(w, at) <=> IsTagAt(raw, at))
  /\ FieldAt(w, sep, at) = FieldAt(raw, sep, at)

(* A field within what is the same is the same.                            *)
LEMMA SameField ==
  ASSUME NEW raw, NEW w, NEW q, Alike(raw, w, q), NEW sep, NEW at \in Nat \ {0}, NEW v \in Nat, v <= q,
         v = ValueEnd(raw, sep, at), TagEnd(raw, at) \in Nat, at <= TagEnd(raw, at), TagEnd(raw, at) < v
  PROVE  SameAt(raw, w, sep, at)
<1>1. /\ raw \in Seq(Int) /\ w \in Seq(Int) /\ q \in Nat /\ q <= Len(raw) /\ q <= Len(w)
      /\ Len(raw) \in Nat /\ Len(w) \in Nat
  BY SMTT(30) DEF Alike
<1>a. q \in Nat /\ v <= q /\ v \in Nat /\ at \in Nat \ {0}
  BY DEF Alike
<1>2. PICK e \in Nat : e = TagEnd(raw, at) /\ at <= e /\ e < v
  OBVIOUS
<1>3. at \in 1..(Len(raw) + 1) /\ at \in 1..(Len(w) + 1) /\ e \in at..Len(w) /\ e <= Len(raw)
      /\ e \in 1..(Len(raw) + 1) /\ e \in 1..(Len(w) + 1) /\ v \in e..Len(w) /\ v <= Len(raw)
  BY <1>1, <1>2, SMTT(30)
<1>4. \A i \in at..v : raw[i] = w[i]
  <2> SUFFICES ASSUME NEW i \in at..v  PROVE raw[i] = w[i]
    OBVIOUS
  <2>1. i \in 1..q
    BY <1>1
  <2> QED  BY <2>1 DEF Alike
<1>5. TagEnd(w, at) = e
  <2>1. Find(raw, Equals, at) = e
    BY <1>2 DEF TagEnd
  <2>2. raw[e] = Equals /\ \A i \in at..(e - 1) : raw[i] # Equals
    BY <1>1, <1>3, <2>1, FindProps
  <2>3. w[e] = Equals
    <3>1. e \in at..v
      BY <1>2
    <3> QED  BY <1>4, <2>2, <3>1
  <2>4. \A i \in at..(e - 1) : w[i] # Equals
    <3> SUFFICES ASSUME NEW i \in at..(e - 1)  PROVE w[i] # Equals
      OBVIOUS
    <3>1. i \in at..v
      BY <1>2
    <3> QED  BY <1>4, <2>2, <3>1
  <2> QED  BY <1>1, <1>3, <2>3, <2>4, FindIs DEF TagEnd
<1>6. ValueEnd(w, sep, at) = v
  <2>1. Find(raw, sep, e) = v
    BY <1>2 DEF ValueEnd
  <2>2. raw[v] = sep /\ \A i \in e..(v - 1) : raw[i] # sep
    <3>1. e \in 1..(Len(raw) + 1) /\ v <= Len(raw)
      BY <1>3
    <3>2. /\ \A p \in e..(Find(raw, sep, e) - 1) : raw[p] # sep
          /\ Find(raw, sep, e) <= Len(raw) => raw[Find(raw, sep, e)] = sep
      BY <1>1, <3>1, FindProps
    <3> QED  BY <2>1, <3>1, <3>2, Zenon
  <2>3. w[v] = sep
    <3>1. v \in at..v
      BY <1>2
    <3> QED  BY <1>4, <2>2, <3>1
  <2>4. \A i \in e..(v - 1) : w[i] # sep
    <3> SUFFICES ASSUME NEW i \in e..(v - 1)  PROVE w[i] # sep
      OBVIOUS
    <3>1. i \in at..v
      BY <1>2
    <3> QED  BY <1>4, <2>2, <3>1
  <2>5. Find(w, sep, e) = v
    BY <1>1, <1>3, <2>3, <2>4, FindIs
  <2> QED  BY <1>5, <2>5 DEF ValueEnd
<1>7. SubSeq(w, at, e - 1) = SubSeq(raw, at, e - 1)
  <2>1. PICK to \in Nat : to = e - 1
    BY <1>2
  <2>2. to >= at - 1 /\ to <= q
    BY <1>a, <1>2, <2>1
  <2>3. SubSeq(raw, at, to) = SubSeq(w, at, to)
    BY <2>2, SameSubSeq
  <2> QED  BY <2>1, <2>3
<1>8. SubSeq(w, e + 1, v - 1) = SubSeq(raw, e + 1, v - 1)
  <2>1. PICK to \in Nat, from \in Nat \ {0} : to = v - 1 /\ from = e + 1
    <3>1. v - 1 \in Nat /\ e + 1 \in Nat \ {0}
      BY <1>2
    <3> QED  BY <3>1
  <2>2. to >= from - 1 /\ to <= q
    BY <1>a, <1>2, <2>1
  <2>3. SubSeq(raw, from, to) = SubSeq(w, from, to)
    BY <2>2, SameSubSeq
  <2> QED  BY <2>1, <2>3
<1>9. TagAt(w, at) = TagAt(raw, at)
  BY <1>2, <1>5, <1>7 DEF TagAt
<1>10. FieldAt(w, sep, at) = FieldAt(raw, sep, at)
  BY <1>2, <1>5, <1>6, <1>8, <1>9 DEF FieldAt
<1> QED  BY <1>2, <1>5, <1>6, <1>9, <1>10 DEF SameAt, IsTagAt

(* The loop does the same to both, as far as they are the same.            *)
SameTurn(raw, w, k) ==
  /\ Turns(w, SOH)[k].error = "None"
  /\ Turns(w, SOH)[k].pos = Turns(raw, SOH)[k].pos
  /\ Turns(w, SOH)[k].fields = Turns(raw, SOH)[k].fields

(* So is the history of the loop up to there.                              *)
LEMMA SameTurns ==
  ASSUME NEW raw, NEW w, NEW q, Alike(raw, w, q), NEW N, HistoryOf(raw, SOH, N),
         NEW n \in 0..N, Turns(raw, SOH)[n].pos = q + 1, n <= Len(w)
  PROVE  \A k \in 0..n : SameTurn(raw, w, k)
<1>0. SOH # Equals
  BY TextFacts
<1>1. /\ raw \in Seq(Int) /\ w \in Seq(Int) /\ q \in Nat /\ q <= Len(raw) /\ q <= Len(w)
      /\ Len(raw) \in Nat /\ Len(w) \in Nat /\ N \in Nat /\ N <= Len(raw)
  BY DEF Alike, HistoryOf
<1> DEFINE U == {k \in Nat : k \in 0..n => SameTurn(raw, w, k)}
<1>2. 0 \in U
  <2>1. Turns(raw, SOH)[0] = FirstTurn /\ Turns(w, SOH)[0] = FirstTurn
    BY <1>1, TurnsDef
  <2> QED  BY <2>1 DEF SameTurn, FirstTurn
<1>3. ASSUME NEW k \in Nat, k \in U  PROVE k + 1 \in U
  <2> SUFFICES ASSUME k + 1 \in 0..n  PROVE SameTurn(raw, w, k + 1)
    OBVIOUS
  <2>1. k \in 0..n /\ k + 1 \in 1..N /\ (k + 1) - 1 = k /\ k + 1 \in 0..N
    BY <1>1
  <2>2. SameTurn(raw, w, k)
    BY <1>3, <2>1
  <2>3. PICK t, u, at, v : TurnIs(raw, SOH, k + 1, t, u, at, v)
    BY <1>0, <1>1, <2>1, HistoryStep
  <2>4. t = Turns(raw, SOH)[k] /\ u = Turns(raw, SOH)[k + 1]
    BY <2>1, <2>3 DEF TurnIs
  <2>5. /\ at = t.pos /\ v = ValueEnd(raw, SOH, at)
        /\ at \in 1..Len(raw) /\ v \in 1..Len(raw) /\ at <= TagEnd(raw, at) /\ TagEnd(raw, at) < v
        /\ TagEnd(raw, at) \in Nat /\ u.pos = v + 1 /\ Advances(raw, SOH, t, u)
        /\ u.fields = Append(t.fields, FieldAt(raw, SOH, at))
    BY <2>3 DEF TurnIs
  <2>6. v <= q
    <3>1. Turns(raw, SOH)[k + 1].pos <= q + 1
      <4>1. n \in 0..N /\ (k + 1 = n \/ k + 1 < n)
        BY <1>1
      <4>2. CASE k + 1 = n
        BY <1>1, <4>2
      <4>3. CASE k + 1 < n
        <5>1. Turns(raw, SOH)[k + 1].pos < Turns(raw, SOH)[n].pos
          BY <1>0, <1>1, <2>1, <4>1, <4>3, PositionsGrow
        <5>2. PICK x \in Nat : x = Turns(raw, SOH)[k + 1].pos
          BY <2>4, <2>5
        <5> QED  BY <1>1, <5>1, <5>2, SMTT(30)
      <4> QED  BY <4>1, <4>2, <4>3
    <3>2. v + 1 <= q + 1
      BY <2>4, <2>5, <3>1
    <3> QED  BY <1>1, <2>5, <3>2
  <2>7. SameAt(raw, w, SOH, at)
    <3>1. at \in Nat \ {0} /\ v \in Nat
      <4>1. at \in 1..Len(raw) /\ v \in 1..Len(raw)
        BY <2>5
      <4> QED  BY <4>1
    <3> QED  BY <2>5, <2>6, <3>1, SameField
  <2>8. PICK t2, u2 : t2 = Turns(w, SOH)[k] /\ u2 = Turns(w, SOH)[k + 1]
    OBVIOUS
  <2>9. t2.error = "None" /\ t2.pos = at /\ t2.fields = t.fields
    BY <2>2, <2>4, <2>5, <2>8 DEF SameTurn
  <2>10. t2 \in TurnSet(w) /\ u2 = NextField(w, SOH, t2)
    <3>1. k \in 0..(Len(w) + 1) /\ k + 1 \in 1..(Len(w) + 1)
      BY <1>1, <2>1, SMTT(30)
    <3> QED  BY <1>1, <2>1, <2>8, <3>1, TurnsDef, TurnShape
  <2>11. /\ ValueEnd(w, SOH, at) = v /\ TagEnd(w, at) = TagEnd(raw, at) /\ IsTagAt(w, at) /\ TagAt(w, at) = TagAt(raw, at)
         /\ FieldAt(w, SOH, at) = FieldAt(raw, SOH, at)
    BY <2>5, <2>7 DEF SameAt, Advances
  <2>12. /\ Len(t.fields) # MAX_FIELDS
         /\ t.fields = <<>> => TagAt(raw, at).value = 8
         /\ Len(t.fields) = 1 => TagAt(raw, at).value = 9
    BY <2>5 DEF Advances
  <2>13. at <= Len(w) /\ TagEnd(w, at) <= Len(w) /\ ValueEnd(w, SOH, at) <= Len(w)
    <3>1. PICK e \in Nat : e = TagEnd(raw, at)
      BY <2>5
    <3>2. at <= e /\ e < v /\ at \in 1..Len(raw) /\ v \in 1..Len(raw)
      BY <2>5, <3>1
    <3>3. at <= Len(w) /\ e <= Len(w) /\ v <= Len(w)
      <4>1. PICK l \in Nat, m \in Nat : l = Len(w) /\ m = Len(raw)
        BY <1>1
      <4>2. q \in Nat /\ q <= l /\ v <= q /\ at \in 1..m /\ v \in 1..m /\ e \in Nat
        BY <1>1, <2>6, <3>1, <3>2, <4>1
      <4>3. at <= l /\ e <= l /\ v <= l
        BY <3>2, <4>2
      <4> QED  BY <4>1, <4>3
    <3> QED  BY <2>11, <3>1, <3>3
  <2>14. Advances(w, SOH, t2, u2)
    <3>1. t2.error = "None" /\ t2.pos <= Len(w) /\ TagEnd(w, t2.pos) <= Len(w)
          /\ ValueEnd(w, SOH, t2.pos) <= Len(w) /\ IsTagAt(w, t2.pos)
      BY <2>9, <2>11, <2>13
    <3>2. /\ Len(t2.fields) # MAX_FIELDS
          /\ t2.fields = <<>> => TagAt(w, t2.pos).value = 8
          /\ Len(t2.fields) = 1 => TagAt(w, t2.pos).value = 9
      BY <2>9, <2>11, <2>12
    <3> QED  BY <1>1, <2>10, <3>1, <3>2, NextFieldGoesOn
  <2>15. u2.error = "None" /\ u2.pos = v + 1 /\ u2.fields = u.fields
    BY <2>5, <2>9, <2>11, <2>14 DEF Advances
  <2> QED  BY <2>4, <2>5, <2>8, <2>15 DEF SameTurn
<1> HIDE DEF U
<1>4. \A k \in Nat : k \in U
  BY <1>2, <1>3, Induction
<1> SUFFICES ASSUME NEW k \in 0..n  PROVE SameTurn(raw, w, k)
  OBVIOUS
<1>5. k \in Nat
  OBVIOUS
<1> QED  BY <1>4, <1>5 DEF U

(* The items of a sequence with one more.                                  *)
LEMMA AppendItems ==
  ASSUME NEW S, NEW s \in Seq(S), NEW x \in S, NEW y, y = Append(s, x)
  PROVE  /\ y \in Seq(S) /\ Len(y) = Len(s) + 1 /\ Len(s) \in Nat /\ y[Len(s) + 1] = x
         /\ \A i \in 1..Len(s) : y[i] = s[i]
OBVIOUS

(* What is read before the trailer, damaged or not.                        *)
BeforeTrailer(raw, q, n, x) ==
  /\ x = Turns(raw, SOH)[n].fields /\ x \in Seq(ReadFields) /\ Len(x) = n /\ n \in Nat /\ n >= 2
  /\ n <= q /\ Len(x) # MAX_FIELDS
  /\ Turns(raw, SOH)[n].pos = q + 1

(* What is read before the last field.                                     *)
LEMMA FieldsBefore ==
  ASSUME NEW raw \in Seq(Int), NEW q \in Nat \ {0}, NEW N, NEW fields, Parsed(raw, N, fields),
         Turns(raw, SOH)[N - 1].pos = q + 1
  PROVE  \E n, x, f : /\ n = N - 1 /\ BeforeTrailer(raw, q, n, x) /\ f \in ReadFields /\ fields = Append(x, f)
                      /\ n \in 0..N
<1>0. SOH # Equals
  BY TextFacts
<1>1. N \in Nat /\ N >= 3 /\ HistoryOf(raw, SOH, N) /\ N <= Len(raw) /\ Len(raw) \in Nat
  BY DEF Parsed
<1>2. PICK n \in Nat : n = N - 1 /\ n >= 2 /\ n \in 0..N /\ N \in 1..N /\ n \in 0..(Len(raw) + 1)
  BY <1>1
<1>3. PICK t, u, at, v : TurnIs(raw, SOH, N, t, u, at, v)
  BY <1>0, <1>1, <1>2, HistoryStep
<1>4. PICK x, f : x = t.fields /\ f = FieldAt(raw, SOH, at)
  OBVIOUS
<1>5. /\ t = Turns(raw, SOH)[n] /\ x \in Seq(ReadFields) /\ Len(x) = n /\ u = Turns(raw, SOH)[N]
      /\ u.fields = Append(x, f) /\ f \in ReadFields /\ Advances(raw, SOH, t, u)
  BY <1>2, <1>3, <1>4 DEF TurnIs
<1>6. fields = u.fields
  <2>1. fields = LastTurn(raw, SOH).fields
    BY DEF Parsed
  <2>2. LastTurn(raw, SOH).fields = Turns(raw, SOH)[N].fields
    BY <1>1 DEF HistoryOf
  <2> QED  BY <1>5, <2>1, <2>2
<1>7. Len(x) # MAX_FIELDS
  BY <1>4, <1>5 DEF Advances
<1>8. n <= q
  <2>1. Turns(raw, SOH)[n].error = "None"
    BY <1>1, <1>2 DEF HistoryOf
  <2>2. Turns(raw, SOH)[n].pos > n
    BY <1>2, <2>1, TurnShape
  <2>3. q + 1 > n
    BY <1>2, <2>2
  <2> QED  BY <1>2, <2>3
<1>9. BeforeTrailer(raw, q, n, x)
  BY <1>2, <1>4, <1>5, <1>7, <1>8 DEF BeforeTrailer
<1> QED  BY <1>2, <1>5, <1>6, <1>9

(* After the same fields, the loop reads the trailer of what was sent and  *)
(* ends.                                                                   *)
LEMMA ScanOfSent ==
  ASSUME NEW c \in Seq(Pairs(Text)), c # <<>>, c[1].tag = 8, NEW w, NEW sm, NEW tr, NEW q, NEW sum,
         SummedIs(c, w, sm, tr, q, sum), NEW raw, NEW n, NEW x, BeforeTrailer(raw, q, n, x), SameTurn(raw, w, n)
  PROVE  \E g : /\ g \in ReadFields /\ g.tag = 10 /\ g.value = ThreeDigits(sum) /\ g.from = q + 1
                /\ LastTurn(w, SOH).error = "Ok" /\ LastTurn(w, SOH).fields = Append(x, g)
<1>0. SOH # Equals /\ Text \subseteq Int
  BY TextFacts
<1>1. /\ w \in Seq(Text) /\ q \in Nat \ {0} /\ sum \in 0..255 /\ tr = Written(10, ThreeDigits(sum), SOH)
      /\ Len(w) = q + 7 /\ Placed(w, q + 1, tr)
  BY DEF SummedIs
<1>2. w \in Seq(Int)
  BY <1>0, <1>1, SeqMonotonic
<1>3. /\ x = Turns(raw, SOH)[n].fields /\ x \in Seq(ReadFields) /\ Len(x) = n /\ n \in Nat /\ n >= 2
      /\ n <= q /\ Len(x) # MAX_FIELDS /\ Turns(raw, SOH)[n].pos = q + 1
  BY DEF BeforeTrailer
<1>4. PICK t, u, e : t = Turns(w, SOH)[n] /\ u = Turns(w, SOH)[n + 1] /\ e = Turns(w, SOH)[n + 2]
  OBVIOUS
<1>5. t.error = "None" /\ t.pos = q + 1 /\ t.fields = x
  BY <1>3, <1>4 DEF SameTurn
<1>6. /\ n \in 0..(Len(w) + 1) /\ n + 1 \in 1..(Len(w) + 1) /\ n + 2 \in 1..(Len(w) + 1)
      /\ n + 1 \in 0..(Len(w) + 1) /\ n + 2 \in 0..(Len(w) + 1) /\ (n + 1) - 1 = n /\ (n + 2) - 1 = n + 1
  BY <1>1, <1>3
<1>7. t \in TurnSet(w) /\ u \in TurnSet(w)
  BY <1>2, <1>4, <1>6, TurnShape
<1>8. u = NextField(w, SOH, t) /\ e = NextField(w, SOH, u)
  BY <1>2, <1>4, <1>6, TurnsDef
<1>9. PICK first, next : first = q + 1 /\ next = q + 8 /\ ReadsAs(w, SOH, first, 10, ThreeDigits(sum), next)
  BY <1>1, <1>2, TrailerReads
<1>10. PICK g : g = FieldAt(w, SOH, first)
  OBVIOUS
<1>11. /\ TagEnd(w, first) <= Len(w) /\ ValueEnd(w, SOH, first) = next - 1 /\ next - 1 <= Len(w)
       /\ IsTagAt(w, first) /\ g = [tag |-> 10, value |-> ThreeDigits(sum), from |-> first, next |-> next]
  BY <1>9, <1>10 DEF ReadsAs
<1>12. first \in 1..(Len(w) + 1) /\ first <= Len(w) /\ next - 1 = q + 7 /\ next = Len(w) + 1
  BY <1>1, <1>9
<1>13. g \in ReadFields
  BY <1>2, <1>10, <1>11, <1>12, FieldAtType
<1>14. Advances(w, SOH, t, u)
  <2>1. /\ t.pos <= Len(w) /\ TagEnd(w, t.pos) <= Len(w) /\ ValueEnd(w, SOH, t.pos) <= Len(w) /\ IsTagAt(w, t.pos)
    BY <1>5, <1>9, <1>11, <1>12
  <2>2. t.fields # <<>> /\ Len(t.fields) # 1 /\ Len(t.fields) # MAX_FIELDS
    <3>1. Len(x) # 0 /\ Len(x) # 1 /\ Len(x) # MAX_FIELDS
      BY <1>3
    <3>2. Len(<<>>) = 0
      OBVIOUS
    <3> QED  BY <1>5, <3>1, <3>2
  <2> QED  BY <1>2, <1>5, <1>7, <1>8, <2>1, <2>2, NextFieldGoesOn
<1>15. u.error = "None" /\ u.fields = Append(x, g) /\ u.pos > Len(w)
  <2>1. u.error = "None" /\ u.pos = ValueEnd(w, SOH, first) + 1 /\ u.fields = Append(x, g)
    BY <1>5, <1>9, <1>10, <1>14 DEF Advances
  <2>2. ValueEnd(w, SOH, first) = q + 7
    BY <1>11, <1>12
  <2>3. u.pos = (q + 7) + 1
    BY <2>1, <2>2
  <2> QED  BY <1>1, <2>1, <2>3
<1>16. e.error = "Ok" /\ e.fields = Append(x, g)
  BY <1>2, <1>7, <1>8, <1>15, NextFieldEnds
<1>17. LastTurn(w, SOH) = e
  <2>1. Turns(w, SOH)[n + 2].error # "None"
    BY <1>4, <1>16
  <2> QED  BY <1>2, <1>4, <1>6, <2>1, TurnsStay
<1>18. g.tag = 10 /\ g.value = ThreeDigits(sum) /\ g.from = q + 1
  BY <1>9, <1>11
<1> QED  BY <1>13, <1>16, <1>17, <1>18

(* Damage to one byte from there on, if the message parses all the same,   *)
(* is in the trailer: every field in front of it is read as it was sent.   *)
(* (parser.cpp:36-149, 257-387)                                            *)
THEOREM DamageBehind ==
  ASSUME NEW c \in Seq(Pairs(Text)), c # <<>>, c[1].tag = 8, Lacks(c[1].value, SOH),
         Len(Whole(c, SOH)) <= MaxInt, Len(Body(c, SOH)) > 0,
         NEW raw, NEW p, DamagedAs(raw, Whole(c, SOH), p), p >= Len(Summed(c, SOH)),
         parse(raw, SOH).error = "Ok"
  PROVE  \E x \in Seq(ReadFields) : \E f, g \in ReadFields :
           /\ parse(raw, SOH).fields = Append(x, f)
           /\ parse(Whole(c, SOH), SOH).fields = Append(x, g)
<1>0. Text \subseteq Int /\ Alphabet(Text, SOH)
  BY TextFacts
<1>1. PICK w, sm, tr, q, sum : SummedIs(c, w, sm, tr, q, sum)
  BY SummedEnds
<1>2. /\ w = Whole(c, SOH) /\ sm = Summed(c, SOH) /\ q = Len(sm) /\ sum = SumOf(sm)
      /\ w \in Seq(Text) /\ sm \in Seq(Text) /\ q \in Nat \ {0} /\ sum \in 0..255 /\ Len(w) = q + 7
      /\ \A i \in 1..q : w[i] = sm[i]
  BY <1>1 DEF SummedIs
<1>3. w \in Seq(Int) /\ sm \in Seq(Int)
  <2>1. w \in Seq(Int)
    BY <1>0, <1>2, SeqMonotonic
  <2>2. sm \in Seq(Int)
    BY <1>0, <1>2, SeqMonotonic
  <2> QED  BY <2>1, <2>2
<1>4. /\ raw \in Seq(Byte) /\ \A i \in 1..(q + 7) : i # p => raw[i] = w[i]
      /\ Len(raw) \in {q + 7, q + 8} /\ p \in 1..(q + 7)
  BY <1>2 DEF DamagedAs
<1>5. raw \in Seq(Int)
  <2>1. Byte \subseteq Int
    BY DEF Byte
  <2> QED  BY <1>4, <2>1, SeqMonotonic
<1>6. PICK N, fields : Parsed(raw, N, fields)
  BY <1>5, ParsedIs
<1>7. p > q /\ Turns(raw, SOH)[N - 1].pos = q + 1
  <2>1. p > Len(Summed(c, SOH)) /\ Turns(raw, SOH)[N - 1].pos = Len(Summed(c, SOH)) + 1
    BY <1>6, LengthHolds
  <2> QED  BY <1>2, <2>1
<1>8. Alike(raw, w, q)
  <2>1. \A i \in 1..q : raw[i] = w[i]
    <3> SUFFICES ASSUME NEW i \in 1..q  PROVE raw[i] = w[i]
      OBVIOUS
    <3>1. i \in 1..(q + 7) /\ i # p
      BY <1>2, <1>4, <1>7
    <3> QED  BY <1>4, <3>1
  <2>2. q <= Len(raw) /\ q <= Len(w) /\ q \in Nat
    BY <1>2, <1>4
  <2> QED  BY <1>3, <1>5, <2>1, <2>2 DEF Alike
<1>9. PICK n, x, f : /\ n = N - 1 /\ BeforeTrailer(raw, q, n, x) /\ f \in ReadFields /\ fields = Append(x, f)
                     /\ n \in 0..N
  BY <1>2, <1>5, <1>6, <1>7, FieldsBefore
<1>10. SameTurn(raw, w, n)
  <2>1. HistoryOf(raw, SOH, N)
    BY <1>6 DEF Parsed
  <2>2. Turns(raw, SOH)[n].pos = q + 1 /\ n \in Nat /\ n <= q
    BY <1>9 DEF BeforeTrailer
  <2>3. n <= Len(w) /\ n \in 0..n
    BY <1>2, <2>2
  <2>4. \A k \in 0..n : SameTurn(raw, w, k)
    BY <1>8, <1>9, <2>1, <2>2, <2>3, SameTurns
  <2> QED  BY <2>3, <2>4
<1>11. PICK g : /\ g \in ReadFields /\ g.tag = 10 /\ g.value = ThreeDigits(sum) /\ g.from = q + 1
                /\ LastTurn(w, SOH).error = "Ok" /\ LastTurn(w, SOH).fields = Append(x, g)
  BY <1>1, <1>9, <1>10, ScanOfSent
<1>12. x \in Seq(ReadFields) /\ Len(x) = n /\ n \in Nat /\ n >= 2 /\ N = n + 1
  <2>1. N \in Nat
    BY <1>6 DEF Parsed
  <2> QED  BY <1>9, <2>1 DEF BeforeTrailer
<1>13. PICK y : y = Append(x, g)
  OBVIOUS
<1>14. y \in Seq(ReadFields) /\ Len(y) = n + 1 /\ y[n + 1] = g /\ \A i \in 1..n : y[i] = x[i]
  BY <1>11, <1>12, <1>13, AppendItems
<1>15. fields[n + 1] = f /\ \A i \in 1..n : fields[i] = x[i]
  BY <1>9, <1>12, AppendItems
<1>16. y = LastTurn(w, SOH).fields
  BY <1>11, <1>13
<1>17. Shape(y)
  BY <1>3, <1>16, LastTurnType
<1>18. Has(y, 9) /\ Get(y, 9) = y[2].value
  <2>1. DOMAIN y = 1..(n + 1) /\ n + 1 \in Nat /\ n + 1 >= 2
    BY <1>12, <1>14
  <2> QED  BY <1>14, <1>17, <2>1, GetNine
<1>19. y[2] = fields[2]
  <2>1. 2 \in 1..n
    BY <1>12
  <2> QED  BY <1>14, <1>15, <2>1
<1>20. FromChars(fields[2].value).ok /\ FromChars(fields[2].value).value = fields[N].from - fields[2].next
  BY <1>6 DEF Parsed
<1>21. fields[N].from = q + 1
  <2>1. \A i \in 1..N : fields[i].from = Turns(raw, SOH)[i - 1].pos
    BY <1>6 DEF Parsed
  <2>2. N \in 1..N
    BY <1>12
  <2> QED  BY <1>7, <2>1, <2>2
<1>22. Last(y) = g
  BY <1>14 DEF Last
<1>23. GetInt(y, 9) = BodyLength(y) /\ HasInt(y, 9)
  <2>1. BodyLength(y) = (q + 1) - y[2].next
    BY <1>11, <1>22 DEF BodyLength
  <2>2. GetInt(y, 9) = FromChars(y[2].value).value
    BY <1>18 DEF GetInt
  <2>3. FromChars(y[2].value).value = (q + 1) - y[2].next
    BY <1>19, <1>20, <1>21
  <2>4. HasInt(y, 9)
    BY <1>18, <1>19, <1>20 DEF HasInt
  <2> QED  BY <2>1, <2>2, <2>3, <2>4
<1>24. SubSeq(w, 1, q) = sm
  <2>1. PICK one \in Nat \ {0} : one = 1
    OBVIOUS
  <2>2. one + Len(sm) - 1 <= Len(w) /\ q = one + Len(sm) - 1
    BY <1>2, <2>1
  <2>3. \A i \in 1..Len(sm) : w[one + i - 1] = sm[i]
    <3> SUFFICES ASSUME NEW i \in 1..Len(sm)  PROVE w[one + i - 1] = sm[i]
      OBVIOUS
    <3>1. i \in 1..q /\ one + i - 1 = i
      BY <1>2, <2>1
    <3> QED  BY <1>2, <3>1
  <2>4. Placed(w, one, sm)
    BY <2>2, <2>3 DEF Placed
  <2>5. SubSeq(w, one, q) = sm
    BY <1>3, <2>2, <2>4, SubSeqIs
  <2> QED  BY <2>1, <2>5
<1>25. SumOf(Checked(w, y)) = sum
  <2>1. Last(y).from - 1 = q
    BY <1>2, <1>11, <1>22
  <2>2. Checked(w, y) = sm
    BY <1>24, <2>1 DEF Checked
  <2> QED  BY <1>2, <2>2
<1>26. FromChars(g.value).ok /\ FromChars(g.value).value = sum /\ sum \in 0..255
  <2>0. sum \in 0..255
    BY <1>2
  <2>1. FromChars(ThreeDigits(sum)) = [ok |-> TRUE, value |-> sum, length |-> 3]
    BY <2>0, ThreeDigitsAreRead
  <2> QED  BY <1>11, <2>0, <2>1
<1>27. WellFormed(w, SOH, y)
  <2>1. w # <<>>
    <3>1. Len(w) # 0
      BY <1>2
    <3> QED  BY <3>1
  <2>2. Len(y) >= 3
    BY <1>12, <1>14
  <2> QED  BY <1>11, <1>16, <1>22, <1>23, <1>25, <1>26, <2>1, <2>2 DEF WellFormed
<1>28. parse(w, SOH).fields = y
  <2>1. /\ WellFormed(w, SOH, LastTurn(w, SOH).fields)
        /\ FromChars(Last(LastTurn(w, SOH).fields).value).value \in 0..255
    BY <1>16, <1>22, <1>26, <1>27
  <2>2. parse(w, SOH) = [error |-> "Ok", fields |-> LastTurn(w, SOH).fields]
    BY <1>3, <2>1, ParseIs
  <2> QED  BY <1>16, <2>2
<1>29. parse(raw, SOH).fields = Append(x, f)
  <2>1. fields = parse(raw, SOH).fields
    BY <1>6 DEF Parsed
  <2> QED  BY <1>9, <2>1
<1> QED  BY <1>2, <1>9, <1>11, <1>12, <1>13, <1>28, <1>29, SMTT(30)

(* Two lists of fields that differ in their last one at most.              *)
AlikeButLast(a, b) ==
  \E x \in Seq(ReadFields) : \E f, g \in ReadFields : a = Append(x, f) /\ b = Append(x, g)

(* The same of a message whose damage is not before its trailer.           *)
LEMMA DamageBehindIs ==
  ASSUME NEW c, NEW raw, NEW p,
         /\ c \in Seq(Pairs(Text)) /\ c # <<>> /\ c[1].tag = 8
         /\ Lacks(c[1].value, SOH) /\ Len(Whole(c, SOH)) <= MaxInt
         /\ Len(Body(c, SOH)) > 0 /\ DamagedAs(raw, Whole(c, SOH), p)
         /\ p >= Len(Summed(c, SOH)) /\ parse(raw, SOH).error = "Ok"
  PROVE  AlikeButLast(parse(raw, SOH).fields, parse(Whole(c, SOH), SOH).fields)
<1>1. c \in Seq(Pairs(Text)) /\ c # <<>> /\ c[1].tag = 8
  OBVIOUS
<1>2. Lacks(c[1].value, SOH)
  OBVIOUS
<1>3. Len(Whole(c, SOH)) <= MaxInt /\ Len(Body(c, SOH)) > 0
  OBVIOUS
<1>4. DamagedAs(raw, Whole(c, SOH), p) /\ p >= Len(Summed(c, SOH)) /\ parse(raw, SOH).error = "Ok"
  OBVIOUS
<1>5. \E x \in Seq(ReadFields) : \E f, g \in ReadFields :
           /\ parse(raw, SOH).fields = Append(x, f)
           /\ parse(Whole(c, SOH), SOH).fields = Append(x, g)
  BY <1>1, <1>2, <1>3, <1>4, DamageBehind
<1> QED  BY <1>5 DEF AlikeButLast

-----------------------------------------------------------------------------
(* get_group                                                               *)

(* One more is below the next number if this one is in the set.            *)
LEMMA RankStep ==
  ASSUME NEW B \in SUBSET Nat, IsFiniteSet(B), NEW i \in Nat
  PROVE  /\ Rank(B, i) \in Nat
         /\ i \in B => Rank(B, i + 1) = Rank(B, i) + 1
         /\ i \notin B => Rank(B, i + 1) = Rank(B, i)
<1> DEFINE T == {b \in B : b < i}
           U == {b \in B : b < i + 1}
<1>0. \A b \in B : b \in Nat
  OBVIOUS
<1>1. IsFiniteSet(T)
  <2>1. T \subseteq B
    OBVIOUS
  <2> HIDE DEF T
  <2> QED  BY <2>1, FS_Subset
<1>2. Cardinality(T) \in Nat
  BY <1>1, FS_CardinalityType
<1>3. ASSUME i \in B  PROVE Cardinality(U) = Cardinality(T) + 1
  <2>1. U = T \cup {i}
    <3>1. \A b \in B : b < i + 1 <=> b < i \/ b = i
      BY <1>0
    <3> QED  BY <1>3, <3>1
  <2>2. i \notin T
    OBVIOUS
  <2> HIDE DEF T, U
  <2>3. Cardinality(T \cup {i}) = Cardinality(T) + 1
    BY <1>1, <2>2, FS_AddElement
  <2> QED  BY <2>1, <2>3
<1>4. ASSUME i \notin B  PROVE U = T
  <2>1. \A b \in B : b < i + 1 <=> b < i
    BY <1>0, <1>4
  <2> QED  BY <2>1
<1> HIDE DEF T, U
<1>5. Rank(B, i) = Cardinality(T) /\ Rank(B, i + 1) = Cardinality(U)
  BY DEF Rank, T, U
<1> QED  BY <1>2, <1>3, <1>4, <1>5

(* The higher of two numbers has as many below it, more if the lower is in *)
(* the set.                                                                *)
LEMMA RankGrows ==
  ASSUME NEW B \in SUBSET Nat, IsFiniteSet(B), NEW i \in Nat, NEW j \in Nat, i <= j
  PROVE  Rank(B, i) <= Rank(B, j)
<1> DEFINE T == {b \in B : b < i}
           U == {b \in B : b < j}
<1>1. T \subseteq U /\ U \subseteq B
  <2>1. \A b \in B : b \in Nat
    OBVIOUS
  <2>2. \A b \in B : b < i => b < j
    BY <2>1
  <2> QED  BY <2>2
<1> HIDE DEF T, U
<1>2. IsFiniteSet(U)
  BY <1>1, FS_Subset
<1>3. Cardinality(T) <= Cardinality(U)
  BY <1>1, <1>2, FS_Subset
<1> QED  BY <1>3 DEF Rank, T, U

(* A number above an element has more below it.                            *)
LEMMA RankAbove ==
  ASSUME NEW B \in SUBSET Nat, IsFiniteSet(B), NEW i \in B, NEW j \in Nat, i < j
  PROVE  Rank(B, i) < Rank(B, j)
<1>1. i \in Nat /\ i + 1 \in Nat /\ i + 1 <= j
  OBVIOUS
<1>2. Rank(B, i) \in Nat /\ Rank(B, i + 1) = Rank(B, i) + 1 /\ Rank(B, j) \in Nat
  BY <1>1, RankStep
<1>3. Rank(B, i + 1) <= Rank(B, j)
  BY <1>1, RankGrows
<1> QED  BY <1>2, <1>3

(* A number is told by how many are below it.                              *)
LEMMA BeginIs ==
  ASSUME NEW B \in SUBSET Nat, IsFiniteSet(B), NEW end \in Nat, \A b \in B : b < end,
         NEW i \in B \cup {end}
  PROVE  BeginOf(B, end, Rank(B, i) + 1) = i
<1>1. \A j \in B \cup {end} : j \in Nat /\ Rank(B, j) \in Nat
  BY RankStep
<1>2. ASSUME NEW j \in B \cup {end}, Rank(B, j) = Rank(B, i)  PROVE j = i
  <2>1. i \in Nat /\ j \in Nat /\ Rank(B, i) \in Nat /\ Rank(B, j) \in Nat
    BY <1>1
  <2>2. CASE j < i
    <3>1. j \in B
      BY <2>1, <2>2
    <3>2. Rank(B, j) < Rank(B, i)
      BY <2>1, <2>2, <3>1, RankAbove
    <3> QED  BY <1>2, <2>1, <3>2
  <2>3. CASE i < j
    <3>1. i \in B
      BY <2>1, <2>3
    <3>2. Rank(B, i) < Rank(B, j)
      BY <2>1, <2>3, <3>1, RankAbove
    <3> QED  BY <1>2, <2>1, <3>2
  <2> QED  BY <2>1, <2>2, <2>3
<1>3. PICK r \in Nat : r = Rank(B, i)
  BY <1>1
<1>4. (r + 1) - 1 = r
  OBVIOUS
<1>5. PICK j : j = BeginOf(B, end, r + 1)
  OBVIOUS
<1>6. j = CHOOSE n \in B \cup {end} : Rank(B, n) = r
  BY <1>4, <1>5 DEF BeginOf
<1>7. j \in B \cup {end} /\ Rank(B, j) = r
  BY <1>3, <1>6
<1> QED  BY <1>2, <1>3, <1>5, <1>7

(* One more item of a function from the numbers up.                        *)
LEMMA UpToOneMore ==
  ASSUME NEW T, NEW m \in Nat, NEW f \in [1..(m + 1) -> T]
  PROVE  /\ Append([k \in 1..m |-> f[k]], f[m + 1]) = [k \in 1..(m + 1) |-> f[k]]
         /\ Len([k \in 1..m |-> f[k]]) = m
<1> DEFINE s == [k \in 1..m |-> f[k]]
           u == [k \in 1..(m + 1) |-> f[k]]
<1>1. s \in Seq(T) /\ u \in Seq(T) /\ Len(s) = m /\ Len(u) = m + 1
  OBVIOUS
<1>2. u[m + 1] = f[m + 1] /\ f[m + 1] \in T /\ \A k \in 1..m : u[k] = s[k]
  OBVIOUS
<1> HIDE DEF s, u
<1>3. u = Append(s, f[m + 1])
  BY <1>1, <1>2, AppendIs
<1> QED  BY <1>1, <1>3 DEF s, u

(* get_group                                                               *)

(* The fields of a group: those between its count and the header or        *)
(* trailer that ends it, B being where delim begins an instance.           *)
GroupOf(fields, delim, count, end, B) ==
  /\ count \in 1..Len(fields) /\ end \in (count + 1)..Len(fields) /\ Len(fields) \in Nat
  /\ fields[end].tag \in {8, 9, 10} /\ delim \notin {8, 9, 10}
  /\ \A i \in (count + 1)..(end - 1) : fields[i].tag \notin {8, 9, 10}
  /\ B \in SUBSET Nat /\ IsFiniteSet(B)
  /\ B = {i \in (count + 1)..(end - 1) : fields[i].tag = delim}

(* The first no and the first m + 1 instances.                             *)
LEMMA UpToNothing ==
  ASSUME NEW fields, NEW B, NEW end
  PROVE  UpTo(fields, B, end, 0) = <<>>
<1> DEFINE I(k) == SubSeq(fields, BeginOf(B, end, k), BeginOf(B, end, k + 1) - 1)
           s == [k \in 1..0 |-> I(k)]
<1>1. s \in Seq({}) /\ Len(s) = 0
  <2> HIDE DEF I
  <2> QED  OBVIOUS
<1>2. s = UpTo(fields, B, end, 0)
  BY DEF UpTo
<1> HIDE DEF s
<1>3. s = <<>>
  BY <1>1
<1> QED  BY <1>2, <1>3

(* One more instance.                                                      *)
LEMMA UpToMore ==
  ASSUME NEW fields, NEW B, NEW end, NEW m \in Nat
  PROVE  /\ Append(UpTo(fields, B, end, m),
                   SubSeq(fields, BeginOf(B, end, m + 1), BeginOf(B, end, m + 2) - 1))
              = UpTo(fields, B, end, m + 1)
         /\ Len(UpTo(fields, B, end, m)) = m
<1> DEFINE I(k) == SubSeq(fields, BeginOf(B, end, k), BeginOf(B, end, k + 1) - 1)
           T == {I(k) : k \in 1..(m + 1)}
           f == [k \in 1..(m + 1) |-> I(k)]
<1>1. f \in [1..(m + 1) -> T]
  <2> HIDE DEF I
  <2> QED  OBVIOUS
<1>2. /\ \A k \in 1..(m + 1) : f[k] = I(k)
      /\ m + 1 \in 1..(m + 1)
  <2> HIDE DEF I
  <2> QED  OBVIOUS
<1>3. /\ UpTo(fields, B, end, m) = [k \in 1..m |-> I(k)]
      /\ UpTo(fields, B, end, m + 1) = [k \in 1..(m + 1) |-> I(k)]
  BY DEF UpTo
<1>4. (m + 1) + 1 = m + 2
  OBVIOUS
<1>5. f[m + 1] = SubSeq(fields, BeginOf(B, end, m + 1), BeginOf(B, end, m + 2) - 1)
  BY <1>2, <1>4
<1> HIDE DEF f, I, T
<1>6. /\ UpTo(fields, B, end, m) = [k \in 1..m |-> f[k]]
      /\ UpTo(fields, B, end, m + 1) = [k \in 1..(m + 1) |-> f[k]]
  <2>1. \A k \in 1..m : k \in 1..(m + 1)
    OBVIOUS
  <2> QED  BY <1>2, <1>3, <2>1
<1> QED  BY <1>1, <1>5, <1>6, UpToOneMore

(* What a turn of the loop over the fields of a group makes of another.    *)
GroupSet(S, n) == [over : BOOLEAN, start : 0..n, found : Seq(Seq(S))]

(* The loop of get_group before its first turn.                            *)
NoInstance == [over |-> FALSE, start |-> 0, found |-> <<>>]

(* The open instance is closed (parser.cpp:231-238, 247-252).              *)
LEMMA CloseType ==
  ASSUME NEW S, NEW fields \in Seq(S), NEW at \in 1..(Len(fields) + 1), NEW u \in GroupSet(S, Len(fields))
  PROVE  Close(fields, at, u) \in Seq(Seq(S))
<1>1. PICK n \in Nat : n = Len(fields)
  OBVIOUS
<1>2. PICK from \in 0..n, f \in Seq(Seq(S)) : from = u.start /\ f = u.found
  BY <1>1 DEF GroupSet
<1>3. PICK to \in 0..n : to = at - 1
  BY <1>1
<1>4. from # 0 => SubSeq(fields, from, to) \in Seq(S)
  <2> SUFFICES ASSUME from # 0  PROVE SubSeq(fields, from, to) \in Seq(S)
    OBVIOUS
  <2>1. \A i \in from..to : fields[i] \in S
    BY <1>1
  <2> QED  BY <1>1, <2>1, SubSeqProperties
<1>5. PICK x : x = SubSeq(fields, from, to)
  OBVIOUS
<1>6. from # 0 => Append(f, x) \in Seq(Seq(S))
  BY <1>4, <1>5
<1>7. Close(fields, at, u) = IF from = 0 THEN f ELSE Append(f, x)
  BY <1>2, <1>3, <1>5 DEF Close
<1> QED  BY <1>6, <1>7

(* A turn of the loop of get_group keeps its variables in their types      *)
(* (parser.cpp:228-245).                                                   *)
LEMMA NextInstanceType ==
  ASSUME NEW S, NEW fields \in Seq(S), NEW delim, NEW wanted, NEW at \in 1..Len(fields),
         NEW u \in GroupSet(S, Len(fields))
  PROVE  NextInstance(fields, delim, wanted, at, u) \in GroupSet(S, Len(fields))
<1>1. PICK n \in Nat : n = Len(fields)
  OBVIOUS
<1>2. PICK c \in Seq(Seq(S)) : c = Close(fields, at, u)
  <2>1. at \in 1..(Len(fields) + 1)
    OBVIOUS
  <2> QED  BY <2>1, CloseType
<1>3. PICK T : T = Seq(Seq(S))
  OBVIOUS
<1>4. u \in [over : BOOLEAN, start : 0..n, found : T] /\ c \in T /\ at \in 0..n
  BY <1>1, <1>2, <1>3 DEF GroupSet
<1>5. NextInstance(fields, delim, wanted, at, u) \in [over : BOOLEAN, start : 0..n, found : T]
  BY <1>2, <1>4 DEF NextInstance
<1> QED  BY <1>1, <1>3, <1>5 DEF GroupSet

(* h is the loop of get_group behind count.                                *)
Looks(fields, delim, wanted, count, h) ==
  /\ h[count] = NoInstance
  /\ \A at \in (count + 1)..Len(fields) : h[at] = NextInstance(fields, delim, wanted, at, h[at - 1])
  /\ h[Len(fields)].over => Instances(fields, delim, wanted, count) = h[Len(fields)].found

(* The loop of get_group, turn by turn (parser.cpp:228-252).               *)
LEMMA InstancesDef ==
  ASSUME NEW S, NEW fields \in Seq(S), NEW delim, NEW wanted, NEW count \in 1..Len(fields)
  PROVE  \E h : Looks(fields, delim, wanted, count, h)
<1> DEFINE G == GroupSet(S, Len(fields))
           F == [n \in Nat |-> [u \in G |-> IF n \in 1..(Len(fields) - count)
                                            THEN NextInstance(fields, delim, wanted, count + n, u) ELSE u]]
           Is(f) == f = [at \in count..Len(fields) |->
                           IF at = count THEN [over |-> FALSE, start |-> 0, found |-> <<>>]
                           ELSE NextInstance(fields, delim, wanted, at, f[at - 1])]
<1>1. PICK N \in Nat : N = Len(fields) - count
  OBVIOUS
<1>2. Len(fields) \in Nat /\ count \in Nat \ {0} /\ count + N = Len(fields)
  BY <1>1
<1>3. F \in [Nat -> [G -> G]]
  <2>1. ASSUME NEW n \in Nat, NEW u \in G, n \in 1..(Len(fields) - count)
        PROVE  NextInstance(fields, delim, wanted, count + n, u) \in G
    <3>1. count + n \in 1..Len(fields)
      BY <1>2, <2>1
    <3> QED  BY <3>1, NextInstanceType
  <2> HIDE DEF G
  <2> QED  BY <2>1
<1>4. NoInstance \in G
  <2>1. 0 \in 0..Len(fields) /\ FALSE \in BOOLEAN /\ <<>> \in Seq(Seq(S))
    BY <1>2
  <2> QED  BY <2>1 DEF NoInstance, GroupSet
<1>5. PICK g : Runs(g, G, NoInstance, F, N)
  <2> HIDE DEF F, G
  <2> QED  BY <1>3, <1>4, Recursion
<1>6. g \in [0..N -> G] /\ g[0] = NoInstance /\ \A n \in 1..N : g[n] = F[n][g[n - 1]]
  <2> HIDE DEF F, G
  <2> QED  BY <1>5 DEF Runs
<1>7. ASSUME NEW n \in 1..N  PROVE g[n] = NextInstance(fields, delim, wanted, count + n, g[n - 1])
  <2> HIDE DEF G
  <2>1. n \in Nat /\ n - 1 \in 0..N /\ n \in 1..(Len(fields) - count)
    BY <1>1
  <2>2. g[n - 1] \in G
    BY <1>6, <2>1
  <2> QED  BY <1>6, <2>1, <2>2
<1>8. PICK f : f = [at \in count..Len(fields) |-> g[at - count]]
  OBVIOUS
<1>9. Is(f)
  <2>1. ASSUME NEW at \in count..Len(fields), at # count
        PROVE  g[at - count] = NextInstance(fields, delim, wanted, at, f[at - 1])
    <3>1. at - count \in 1..N /\ count + (at - count) = at
      BY <1>1, <1>2, <2>1
    <3>2. at - 1 \in count..Len(fields) /\ (at - count) - 1 = (at - 1) - count
      BY <1>1, <1>2, <2>1
    <3>3. f[at - 1] = g[(at - count) - 1]
      BY <1>8, <3>2
    <3> QED  BY <1>7, <3>1, <3>3
  <2>2. count - count = 0 /\ g[0] = [over |-> FALSE, start |-> 0, found |-> <<>>]
    BY <1>2, <1>6 DEF NoInstance
  <2>3. \A at \in count..Len(fields) :
          g[at - count] = IF at = count THEN [over |-> FALSE, start |-> 0, found |-> <<>>]
                          ELSE NextInstance(fields, delim, wanted, at, f[at - 1])
    BY <2>1, <2>2
  <2> QED  BY <1>8, <2>3
<1> HIDE DEF F, G
<1>10. PICK h : h = CHOOSE x : Is(x)
  OBVIOUS
<1>11. Is(h)
  <2> HIDE DEF Is
  <2> QED  BY <1>9, <1>10
<1>12. h[Len(fields)].over => Instances(fields, delim, wanted, count) = h[Len(fields)].found
  BY <1>10 DEF Instances
<1>13. h[count] = NoInstance
  <2>1. count \in count..Len(fields)
    BY <1>2
  <2> QED  BY <1>11, <2>1 DEF NoInstance
<1>14. \A at \in (count + 1)..Len(fields) : h[at] = NextInstance(fields, delim, wanted, at, h[at - 1])
  <2> SUFFICES ASSUME NEW at \in (count + 1)..Len(fields)
               PROVE  h[at] = NextInstance(fields, delim, wanted, at, h[at - 1])
    OBVIOUS
  <2>1. at \in count..Len(fields) /\ at # count
    BY <1>2
  <2> QED  BY <1>11, <2>1
<1> HIDE DEF Is
<1> QED  BY <1>12, <1>13, <1>14 DEF Looks

(* The loop when r instances of a group have begun: all but the open one   *)
(* are found, if there is room for them.                                   *)
Holds(fields, B, end, room, u, r) ==
  /\ r \in Nat /\ room \in Nat \ {0}
  /\ r > room => u.found = UpTo(fields, B, end, room)
  /\ r <= room => /\ ~u.over
                  /\ r = 0 => u.start = 0 /\ u.found = UpTo(fields, B, end, 0)
                  /\ r # 0 => /\ u.start \in B /\ Rank(B, u.start) = r - 1
                              /\ u.found = UpTo(fields, B, end, r - 1)

(* Closing the open instance adds it to those that are found.              *)
LEMMA Closes ==
  ASSUME NEW fields, NEW delim, NEW count, NEW end, NEW B, GroupOf(fields, delim, count, end, B),
         NEW room, NEW u, NEW r, Holds(fields, B, end, room, u, r), r <= room,
         NEW at \in B \cup {end}, Rank(B, at) = r
  PROVE  Close(fields, at, u) = UpTo(fields, B, end, r)
<1>1. B \in SUBSET Nat /\ IsFiniteSet(B) /\ end \in Nat /\ \A b \in B : b < end /\ b # 0
  BY DEF GroupOf
<1>2. BeginOf(B, end, r + 1) = at
  BY <1>1, BeginIs
<1>3. CASE r = 0
  BY <1>3 DEF Holds, Close
<1>4. CASE r # 0
  <2>1. /\ r \in Nat /\ u.start \in B /\ Rank(B, u.start) = r - 1
        /\ u.found = UpTo(fields, B, end, r - 1)
    BY <1>4 DEF Holds
  <2>2. PICK from \in B : from = u.start
    BY <2>1
  <2>3. PICK m \in Nat : m = r - 1 /\ r = m + 1
    BY <1>4, <2>1
  <2>4. BeginOf(B, end, m + 1) = from
    <3>1. Rank(B, from) = m
      BY <2>1, <2>2, <2>3
    <3> QED  BY <1>1, <3>1, BeginIs
  <2>5. BeginOf(B, end, m + 2) = at
    <3>1. m + 2 = r + 1
      BY <2>3
    <3> QED  BY <1>2, <3>1
  <2>6. Close(fields, at, u) = Append(UpTo(fields, B, end, m), SubSeq(fields, from, at - 1))
    BY <1>1, <2>1, <2>2, <2>3 DEF Close
  <2>7. Append(UpTo(fields, B, end, m), SubSeq(fields, from, at - 1)) = UpTo(fields, B, end, m + 1)
    BY <2>4, <2>5, UpToMore
  <2> QED  BY <2>3, <2>6, <2>7
<1> QED  BY <1>3, <1>4

(* What is wanted and has room.                                            *)
Room(wanted, room) ==
  /\ wanted \in Nat \ {0} /\ room \in Nat \ {0}
  /\ room = wanted \/ room = MAX_INSTANCES
  /\ room <= wanted /\ room <= MAX_INSTANCES

(* The loop stops when there is no more room, and not before.              *)
LEMMA Stops ==
  ASSUME NEW fields, NEW B, NEW end, NEW wanted, NEW room, Room(wanted, room),
         NEW u, NEW r, Holds(fields, B, end, room, u, r)
  PROVE  Len(u.found) \in {wanted, MAX_INSTANCES} <=> r > room
<1>1. /\ r \in Nat /\ room \in Nat \ {0} /\ wanted \in Nat \ {0} /\ MAX_INSTANCES \in Nat
      /\ (room = wanted \/ room = MAX_INSTANCES) /\ room <= wanted /\ room <= MAX_INSTANCES
  BY CodecAssumption DEF Room, Holds
<1>2. CASE r > room
  <2>1. Len(u.found) = room
    BY <1>1, <1>2, UpToMore DEF Holds
  <2> QED  BY <1>1, <1>2, <2>1
<1>3. CASE r <= room
  <2>1. PICK m \in Nat : m < room /\ u.found = UpTo(fields, B, end, m)
    <3>1. CASE r = 0
      BY <1>1, <1>3, <3>1 DEF Holds
    <3>2. CASE r # 0
      <4>1. r - 1 \in Nat /\ r - 1 < room
        BY <1>1, <1>3, <3>2
      <4>2. u.found = UpTo(fields, B, end, r - 1)
        BY <1>3, <3>2 DEF Holds
      <4> QED  BY <4>1, <4>2
    <3> QED  BY <3>1, <3>2
  <2>2. Len(u.found) = m
    BY <2>1, UpToMore
  <2> QED  BY <1>1, <1>3, <2>1, <2>2
<1> QED  BY <1>1, <1>2, <1>3

(* A field of the group keeps it so.                                       *)
LEMMA LooksOn ==
  ASSUME NEW fields, NEW delim, NEW count, NEW end, NEW B, GroupOf(fields, delim, count, end, B),
         NEW wanted, NEW room, Room(wanted, room), NEW at \in (count + 1)..(end - 1),
         NEW u, Holds(fields, B, end, room, u, Rank(B, at)),
         NEW X, NEW S, u \in [over : BOOLEAN, start : S, found : X], at \in S
  PROVE  Holds(fields, B, end, room, NextInstance(fields, delim, wanted, at, u), Rank(B, at + 1))
<1> DEFINE next == NextInstance(fields, delim, wanted, at, u)
<1>1. /\ count \in Nat /\ end \in Nat /\ at \in Nat /\ at < end
      /\ B \in SUBSET Nat /\ IsFiniteSet(B) /\ \A b \in B : b < end /\ b # 0
      /\ fields[at].tag \notin {8, 9, 10} /\ (at \in B <=> fields[at].tag = delim)
  BY DEF GroupOf
<1>2. PICK r \in Nat, q \in Nat : r = Rank(B, at) /\ q = Rank(B, at + 1)
  <2>1. at + 1 \in Nat
    BY <1>1
  <2> QED  BY <1>1, <2>1, RankStep
<1>3. (at \in B => q = r + 1) /\ (at \notin B => q = r)
  BY <1>1, <1>2, RankStep
<1>4. room \in Nat \ {0}
  BY DEF Room
<1>5. Holds(fields, B, end, room, u, r)
  BY <1>2
<1>6. CASE r > room
  <2>1. next = [u EXCEPT !.over = TRUE]
    <3>1. Len(u.found) \in {wanted, MAX_INSTANCES}
      BY <1>5, <1>6, Stops
    <3> QED  BY <3>1 DEF NextInstance
  <2>2. u.found = UpTo(fields, B, end, room)
    BY <1>5, <1>6 DEF Holds
  <2>3. next.found = u.found
    BY <2>1
  <2>4. q > room /\ ~(q <= room)
    BY <1>3, <1>4, <1>6
  <2> HIDE DEF next
  <2>5. Holds(fields, B, end, room, next, q)
    BY <1>4, <2>2, <2>3, <2>4 DEF Holds
  <2> QED  BY <1>2, <2>5 DEF next
<1>7. CASE r <= room
  <2>1. ~u.over /\ ~(Len(u.found) \in {wanted, MAX_INSTANCES})
    <3>1. ~(r > room)
      BY <1>4, <1>7
    <3> QED  BY <1>5, <1>7, <3>1, Stops DEF Holds
  <2>2. CASE at \in B
    <3>1. next = [u EXCEPT !.start = at, !.found = Close(fields, at, u)]
      BY <1>1, <2>1, <2>2 DEF NextInstance
    <3>2. Close(fields, at, u) = UpTo(fields, B, end, r)
      BY <1>2, <1>5, <1>7, <2>2, Closes
    <3>3. ~next.over /\ next.start = at /\ next.found = UpTo(fields, B, end, r)
      BY <2>1, <3>1, <3>2
    <3>4. q = r + 1 /\ q - 1 = r /\ q # 0 /\ (q > room => r = room)
      BY <1>3, <1>4, <1>7, <2>2
    <3>5. PICK v : v = next
      OBVIOUS
    <3> HIDE DEF next
    <3>6. Rank(B, v.start) = q - 1 /\ v.start \in B /\ v.found = UpTo(fields, B, end, q - 1) /\ ~v.over
          /\ (q > room => v.found = UpTo(fields, B, end, room))
      BY <1>2, <2>2, <3>3, <3>4, <3>5
    <3>7. Holds(fields, B, end, room, v, q)
      BY <1>4, <3>4, <3>6 DEF Holds
    <3> QED  BY <1>2, <3>5, <3>7 DEF next
  <2>3. CASE at \notin B
    <3>1. next = u
      BY <1>1, <2>1, <2>3 DEF NextInstance, EndsGroup
    <3> HIDE DEF next
    <3>2. q = r
      BY <1>3, <2>3
    <3>3. Holds(fields, B, end, room, next, q)
      BY <1>5, <3>1, <3>2
    <3> QED  BY <1>2, <3>3 DEF next
  <2> QED  BY <2>2, <2>3
<1> QED  BY <1>2, <1>4, <1>6, <1>7

(* What ends the group closes its last instance.                           *)
LEMMA LooksTo ==
  ASSUME NEW fields, NEW delim, NEW count, NEW end, NEW B, GroupOf(fields, delim, count, end, B),
         NEW wanted, NEW room, Room(wanted, room),
         NEW u, NEW r, r = Rank(B, end), Holds(fields, B, end, room, u, r),
         NEW X, NEW S, u \in [over : BOOLEAN, start : S, found : X]
  PROVE  /\ NextInstance(fields, delim, wanted, end, u).over
         /\ NextInstance(fields, delim, wanted, end, u).found
              = UpTo(fields, B, end, IF r > room THEN room ELSE r)
<1> DEFINE next == NextInstance(fields, delim, wanted, end, u)
<1>1. room \in Nat \ {0} /\ r \in Nat
  BY DEF Room, Holds
<1>2. fields[end].tag \in {8, 9, 10} /\ fields[end].tag # delim
  BY DEF GroupOf
<1>3. CASE r > room
  <2>1. next = [u EXCEPT !.over = TRUE]
    BY <1>3, Stops DEF NextInstance
  <2> QED  BY <1>3, <2>1 DEF Holds
<1>4. CASE r <= room
  <2>1. ~u.over /\ ~(Len(u.found) \in {wanted, MAX_INSTANCES}) /\ ~(r > room)
    <3>1. ~(r > room)
      BY <1>1, <1>4
    <3> QED  BY <1>4, <3>1, Stops DEF Holds
  <2>2. next = [u EXCEPT !.over = TRUE, !.found = Close(fields, end, u)]
    BY <1>2, <2>1 DEF NextInstance, EndsGroup
  <2>3. Close(fields, end, u) = UpTo(fields, B, end, r)
    <3>1. end \in B \cup {end}
      OBVIOUS
    <3> QED  BY <1>4, <3>1, Closes
  <2> QED  BY <2>1, <2>2, <2>3
<1> QED  BY <1>1, <1>3, <1>4

(* The instances get_group finds, as many as are wanted, begun and have    *)
(* room.                                                                   *)
LEMMA InstancesAre ==
  ASSUME NEW S, NEW fields \in Seq(S), NEW delim, NEW count, NEW end, NEW B,
         GroupOf(fields, delim, count, end, B), NEW wanted, NEW room, Room(wanted, room)
  PROVE  Instances(fields, delim, wanted, count)
           = UpTo(fields, B, end, IF Rank(B, end) > room THEN room ELSE Rank(B, end))
<1>1. /\ count \in 1..Len(fields) /\ end \in (count + 1)..Len(fields) /\ Len(fields) \in Nat
      /\ B \in SUBSET Nat /\ IsFiniteSet(B) /\ \A b \in B : b > count
  BY DEF GroupOf
<1>2. PICK h : Looks(fields, delim, wanted, count, h)
  BY <1>1, InstancesDef
<1>3. PICK G : G = GroupSet(S, Len(fields))
  OBVIOUS
<1>4. h[count] \in G /\ Holds(fields, B, end, room, h[count], Rank(B, count + 1))
  <2>1. h[count] = NoInstance
    BY <1>2 DEF Looks
  <2>2. NoInstance \in G
    <3>1. 0 \in 0..Len(fields) /\ FALSE \in BOOLEAN /\ <<>> \in Seq(Seq(S))
      BY <1>1
    <3> QED  BY <1>3, <3>1 DEF NoInstance, GroupSet
  <2>3. Rank(B, count + 1) = 0
    <3>1. {b \in B : b < count + 1} = {}
      <4>1. \A b \in B : b \in Nat /\ b > count
        BY <1>1
      <4>2. \A b \in B : ~(b < count + 1)
        BY <1>1, <4>1
      <4> QED  BY <4>2
    <3> QED  BY <3>1, FS_EmptySet DEF Rank
  <2>4. NoInstance.found = UpTo(fields, B, end, 0)
    BY UpToNothing DEF NoInstance
  <2>5. ~NoInstance.over /\ NoInstance.start = 0
    BY DEF NoInstance
  <2> QED  BY <2>1, <2>2, <2>3, <2>4, <2>5 DEF Holds, Room
<1>5. \A at \in (count + 1)..Len(fields) : h[at] = NextInstance(fields, delim, wanted, at, h[at - 1])
  BY <1>2 DEF Looks
<1> DEFINE T == {n \in Nat : count + n < end =>
                   /\ h[count + n] \in G
                   /\ Holds(fields, B, end, room, h[count + n], Rank(B, count + n + 1))}
<1>6. 0 \in T
  <2>1. count + 0 = count
    BY <1>1
  <2> QED  BY <1>4, <2>1
<1>7. ASSUME NEW n \in Nat, n \in T  PROVE n + 1 \in T
  <2> SUFFICES ASSUME count + (n + 1) < end
               PROVE  /\ h[count + (n + 1)] \in G
                      /\ Holds(fields, B, end, room, h[count + (n + 1)], Rank(B, count + (n + 1) + 1))
    OBVIOUS
  <2>1. PICK at \in (count + 1)..(end - 1) : at = count + (n + 1)
    BY <1>1
  <2>2. at \in 1..Len(fields) /\ at \in (count + 1)..Len(fields) /\ at - 1 = count + n
        /\ count + n + 1 = at /\ count + n < end /\ at \in 0..Len(fields)
    BY <1>1, <2>1
  <2>3. PICK u : u = h[at - 1]
    OBVIOUS
  <2>4. u \in G /\ Holds(fields, B, end, room, u, Rank(B, at))
    BY <1>7, <2>2, <2>3
  <2>5. h[at] = NextInstance(fields, delim, wanted, at, u)
    BY <1>5, <2>2, <2>3
  <2>6. h[at] \in G
    BY <1>3, <2>2, <2>4, <2>5, NextInstanceType
  <2>7. Holds(fields, B, end, room, h[at], Rank(B, at + 1))
    <3>1. u \in [over : BOOLEAN, start : 0..Len(fields), found : Seq(Seq(S))]
      BY <1>3, <2>4 DEF GroupSet
    <3> QED  BY <2>1, <2>2, <2>4, <2>5, <3>1, LooksOn
  <2> QED  BY <2>1, <2>6, <2>7
<1> HIDE DEF T
<1>8. \A n \in Nat : n \in T
  BY <1>6, <1>7, Induction
<1>9. PICK q : q = UpTo(fields, B, end, IF Rank(B, end) > room THEN room ELSE Rank(B, end))
  OBVIOUS
<1>10. h[end] \in G /\ h[end].over /\ h[end].found = q
  <2>1. PICK n \in Nat : n = (end - 1) - count
    BY <1>1
  <2>2. count + n = end - 1 /\ count + n + 1 = end /\ count + n < end /\ end \in 1..Len(fields)
    BY <1>1, <2>1
  <2>3. PICK u : u = h[end - 1]
    OBVIOUS
  <2>4. u \in G /\ Holds(fields, B, end, room, u, Rank(B, end))
    BY <1>8, <2>2, <2>3 DEF T
  <2>5. h[end] = NextInstance(fields, delim, wanted, end, u)
    BY <1>1, <1>5, <2>3
  <2>6. h[end] \in G
    BY <1>3, <2>2, <2>4, <2>5, NextInstanceType
  <2>7. u \in [over : BOOLEAN, start : 0..Len(fields), found : Seq(Seq(S))]
    BY <1>3, <2>4 DEF GroupSet
  <2> QED  BY <1>9, <2>4, <2>5, <2>6, <2>7, LooksTo
<1> DEFINE U == {n \in Nat : end + n <= Len(fields) =>
                   h[end + n] \in G /\ h[end + n].over /\ h[end + n].found = q}
<1>11. 0 \in U
  <2>1. end + 0 = end
    BY <1>1
  <2> QED  BY <1>10, <2>1
<1>12. ASSUME NEW n \in Nat, n \in U  PROVE n + 1 \in U
  <2> SUFFICES ASSUME end + (n + 1) <= Len(fields)
               PROVE  h[end + (n + 1)] \in G /\ h[end + (n + 1)].over /\ h[end + (n + 1)].found = q
    OBVIOUS
  <2>1. PICK at \in (count + 1)..Len(fields) : at = end + (n + 1)
    BY <1>1
  <2>2. at - 1 = end + n /\ end + n <= Len(fields)
    BY <1>1, <2>1
  <2>3. PICK u : u = h[at - 1]
    OBVIOUS
  <2>4. u \in G /\ u.over /\ u.found = q
    BY <1>12, <2>2, <2>3
  <2>5. h[at] = [u EXCEPT !.over = TRUE]
    BY <1>5, <2>3, <2>4 DEF NextInstance
  <2>6. [u EXCEPT !.over = TRUE] \in G /\ [u EXCEPT !.over = TRUE].over /\ [u EXCEPT !.over = TRUE].found = q
    BY <1>3, <2>4 DEF GroupSet
  <2> QED  BY <2>1, <2>5, <2>6
<1> HIDE DEF U
<1>13. \A n \in Nat : n \in U
  BY <1>11, <1>12, Induction
<1>14. h[Len(fields)].over /\ h[Len(fields)].found = q
  <2>1. PICK n \in Nat : n = Len(fields) - end
    BY <1>1
  <2>2. end + n = Len(fields) /\ end + n <= Len(fields)
    BY <1>1, <2>1
  <2> QED  BY <1>13, <2>2 DEF U
<1> QED  BY <1>2, <1>9, <1>14 DEF Looks

(* The last field of a message that is read is its trailer.                *)
Trailed(fields) ==
  /\ fields \in Seq(ReadFields) /\ Len(fields) \in Nat
  /\ fields # <<>> => fields[Len(fields)].tag = 10

(* The smallest and the largest of three numbers.                          *)
LEMMA LeastOfThree ==
  ASSUME NEW a \in Nat \ {0}, NEW b \in Nat, NEW c \in Nat \ {0}, NEW room, room = IF a <= c THEN a ELSE c
  PROVE  Max({0, Min({a, b, c})}) = IF b > room THEN room ELSE b
<1>1. PICK T : T = {a, b, c}
  OBVIOUS
<1>2. PICK m \in Nat : m = Min(T)
  <2>1. T \subseteq Nat /\ T # {}
    BY <1>1
  <2> QED  BY <2>1, MinIsSmallest
<1>3. m \in T /\ \A x \in T : m <= x
  <2>1. T \subseteq Nat /\ T # {}
    BY <1>1
  <2> QED  BY <1>2, <2>1, MinIsSmallest
<1>4. m = IF b > room THEN room ELSE b
  <2>1. m \in {a, b, c} /\ m <= a /\ m <= b /\ m <= c
    BY <1>1, <1>3
  <2> QED  BY <2>1
<1>5. Max({0, m}) = m
  <2>1. PICK x : x = CHOOSE y \in {0, m} : \A z \in {0, m} : y >= z
    OBVIOUS
  <2>2. m \in {0, m} /\ \A z \in {0, m} : m >= z
    OBVIOUS
  <2>3. x \in {0, m} /\ \A z \in {0, m} : x >= z
    BY <2>1, <2>2
  <2>4. x = m
    BY <2>3
  <2> QED  BY <2>1, <2>4 DEF Max
<1> QED  BY <1>1, <1>2, <1>4, <1>5

=============================================================================
