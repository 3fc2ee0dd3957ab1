--------------------------- MODULE NearMAPProofs ---------------------------
(***************************************************************************)
(* Proofs about the access tracer and the analysis of its log.             *)
(***************************************************************************)
EXTENDS NearMAP, SumTheorems, SequenceTheorems

----------------------------------------------------------------------------
(* The page size.                                                          *)

\* f is defined by recursion on numbers: the value at n > lim is computed by op
\* from the one at prev[n].
Recursive(f, lim, b, op, prev) ==
    f = [n \in Nat |-> IF n > lim THEN op[f[prev[n]]] ELSE b]

\* Such a function exists if prev[n] is smaller than n.
LEMMA RecursionOnNat ==
  ASSUME NEW lim \in Nat, NEW b \in Nat, NEW op \in [Nat -> Nat],
         NEW prev \in [Nat -> Nat], \A n \in Nat : n > lim => prev[n] < n
  PROVE  \E f \in [Nat -> Nat] : Recursive(f, lim, b, op, prev)
<1> DEFINE Val(g, n) == IF n > lim THEN op[g[prev[n]]] ELSE b
           Upto(m, g) == g \in [0..m -> Nat] /\ \A n \in 0..m : g[n] = Val(g, n)
<1>1. \A m \in Nat : \E g : Upto(m, g)
  <2> DEFINE T == {m \in Nat : ~ \E g : Upto(m, g)}
  <2>1. SUFFICES ASSUME T # {} PROVE FALSE
    OBVIOUS
  <2>2. PICK m \in T : \A y \in T : m <= y
    <3>1. T \subseteq Nat
      OBVIOUS
    <3> HIDE DEF T
    <3>2. QED
      BY <2>1, <3>1, LeastNumber
  <2>3. m \in Nat /\ ~ \E g : Upto(m, g)
    BY <2>2
  <2>4. \A k \in Nat : k < m => \E g : Upto(k, g)
    <3> HIDE DEF Upto
    <3>1. QED
      BY <2>2, <2>3, SMTT(60)
  <2>5. CASE m = 0
    <3>1. Upto(0, [n \in 0..0 |-> b])
      OBVIOUS
    <3>2. QED
      BY <2>3, <2>5, <3>1
  <2>6. CASE m # 0
    <3>1. m - 1 \in Nat /\ m - 1 < m
      BY <2>3, <2>6
    <3>2. PICK g : Upto(m - 1, g)
      <4> HIDE DEF Upto
      <4>1. QED
        BY <2>4, <3>1
    <3> DEFINE h == [n \in 0..m |-> IF n = m THEN Val(g, n) ELSE g[n]]
    <3>3. ASSUME NEW n \in 0..m
          PROVE  /\ Val(g, n) \in Nat /\ Val(h, n) = Val(g, n)
                 /\ n # m => g[n] \in Nat /\ g[n] = Val(g, n)
      <4>1. n \in Nat /\ n <= m
        BY <2>3
      <4>2. n > lim => prev[n] \in 0..(m - 1)
        BY <4>1, <2>3
      <4>3. n > lim => h[prev[n]] = g[prev[n]] /\ g[prev[n]] \in Nat
        BY <3>2, <4>2, <2>3
      <4>4. n # m => n \in 0..(m - 1)
        BY <4>1, <2>3
      <4>5. Val(g, n) \in Nat
        BY <4>3
      <4>6. Val(h, n) = Val(g, n)
        <5> HIDE DEF h
        <5>1. QED
          BY <4>3
      <4>7. n # m => g[n] \in Nat /\ g[n] = Val(g, n)
        BY <3>2, <4>4
      <4>8. QED
        BY <4>5, <4>6, <4>7
    <3> HIDE DEF Val
    <3>4. \A n \in 0..m : h[n] \in Nat /\ h[n] = Val(h, n)
      BY <3>3
    <3>5. Upto(m, h)
      BY <3>4
    <3>6. QED
      BY <2>3, <3>5
  <2>7. QED
    BY <2>5, <2>6
<1>2. ASSUME NEW m \in Nat, NEW k \in Nat, m <= k, NEW g, NEW h, Upto(m, g), Upto(k, h)
      PROVE  \A n \in 0..m : g[n] = h[n]
  <2> DEFINE T == {n \in 0..m : g[n] # h[n]}
  <2>1. SUFFICES ASSUME T # {} PROVE FALSE
    OBVIOUS
  <2>2. PICK n \in T : \A y \in T : n <= y
    <3>1. T \subseteq Nat
      OBVIOUS
    <3> HIDE DEF T
    <3>2. QED
      BY <2>1, <3>1, LeastNumber
  <2>3. n \in 0..m /\ n \in 0..k /\ g[n] # h[n]
    BY <1>2, <2>2
  <2>4. g[n] = Val(g, n) /\ h[n] = Val(h, n)
    BY <1>2, <2>3
  <2>5. n > lim => prev[n] \in 0..m /\ prev[n] < n
    BY <2>3
  <2>6. n > lim => g[prev[n]] = h[prev[n]]
    BY <2>2, <2>3, <2>5
  <2>7. QED
    BY <2>3, <2>4, <2>6
<1> DEFINE G(m) == CHOOSE g : Upto(m, g)
           f == [n \in Nat |-> G(n)[n]]
<1>3. \A m \in Nat : Upto(m, G(m))
  BY <1>1
<1> HIDE DEF G
<1>4. ASSUME NEW n \in Nat
      PROVE  f[n] \in Nat /\ f[n] = Val(f, n)
  <2>1. f[n] = G(n)[n] /\ Upto(n, G(n))
    BY <1>3
  <2>2. G(n)[n] \in Nat /\ G(n)[n] = Val(G(n), n)
    BY <2>1
  <2>3. ASSUME n > lim PROVE G(n)[prev[n]] = f[prev[n]]
    <3>1. prev[n] \in Nat /\ prev[n] < n
      BY <2>3
    <3>2. Upto(prev[n], G(prev[n]))
      BY <1>3, <3>1
    <3> HIDE DEF Upto
    <3>3. \A i \in 0..prev[n] : G(prev[n])[i] = G(n)[i]
      BY <1>2, <2>1, <3>1, <3>2
    <3>4. QED
      BY <3>1, <3>3
  <2>4. QED
    BY <2>1, <2>2, <2>3
<1>5. f \in [Nat -> Nat] /\ f = [n \in Nat |-> Val(f, n)]
  BY <1>4
<1>6. QED
  BY <1>5 DEF Recursive

\* The equations of the loop of main and of the shift.
LEMMA Log2Def == Log2 \in [Nat -> Nat]
                 /\ \A n \in Nat : Log2[n] = IF n > 1 THEN 1 + Log2[n \div 2] ELSE 0
<1> DEFINE op == [x \in Nat |-> 1 + x]
           prev == [n \in Nat |-> n \div 2]
           Eq(f) == f = [n \in Nat |-> IF n > 1 THEN 1 + f[n \div 2] ELSE 0]
<1>1. op \in [Nat -> Nat] /\ prev \in [Nat -> Nat] /\ \A n \in Nat : n > 1 => prev[n] < n
  OBVIOUS
<1>2. \E f \in [Nat -> Nat] : Recursive(f, 1, 0, op, prev)
  <2> HIDE DEF op, prev
  <2>1. 1 \in Nat /\ 0 \in Nat
    OBVIOUS
  <2>2. QED
    BY <1>1, <2>1, RecursionOnNat
<1>3. PICK f \in [Nat -> Nat] : Recursive(f, 1, 0, op, prev)
  BY <1>2
<1>4. \A n \in Nat : n > 1 => op[f[prev[n]]] = 1 + f[n \div 2]
  OBVIOUS
<1>5. Eq(f)
  BY <1>3, <1>4 DEF Recursive
<1>6. Log2 = CHOOSE g : Eq(g)
  BY DEF Log2
<1>7. Eq(Log2)
  BY <1>5, <1>6
<1>8. \A n \in Nat : Log2[n] = IF n > 1 THEN 1 + Log2[n \div 2] ELSE 0
  BY <1>7
<1>9. Log2 = [n \in Nat |-> Log2[n]]
  BY <1>7
<1> DEFINE T == {n \in Nat : Log2[n] \notin Nat}
<1>10. T = {}
  <2>1. SUFFICES ASSUME T # {} PROVE FALSE
    OBVIOUS
  <2>2. PICK n \in T : \A y \in T : n <= y
    <3>1. T \subseteq Nat
      OBVIOUS
    <3> HIDE DEF T
    <3>2. QED
      BY <2>1, <3>1, LeastNumber
  <2>3. n > 1 => n \div 2 \in Nat /\ n \div 2 < n
    OBVIOUS
  <2>4. QED
    BY <1>8, <2>2, <2>3
<1>11. QED
  BY <1>8, <1>9, <1>10

LEMMA ShiftDef == ShiftLeft1 \in [Nat -> Nat]
                  /\ \A n \in Nat : ShiftLeft1[n] = IF n = 0 THEN 1 ELSE 2 * ShiftLeft1[n - 1]
<1> DEFINE op == [x \in Nat |-> 2 * x]
           prev == [n \in Nat |-> IF n = 0 THEN 0 ELSE n - 1]
           Eq(f) == f = [n \in Nat |-> IF n = 0 THEN 1 ELSE 2 * f[n - 1]]
<1>1. op \in [Nat -> Nat] /\ prev \in [Nat -> Nat] /\ \A n \in Nat : n > 0 => prev[n] < n
  OBVIOUS
<1>2. \E f \in [Nat -> Nat] : Recursive(f, 0, 1, op, prev)
  <2> HIDE DEF op, prev
  <2>1. 1 \in Nat /\ 0 \in Nat
    OBVIOUS
  <2>2. QED
    BY <1>1, <2>1, RecursionOnNat
<1>3. PICK f \in [Nat -> Nat] : Recursive(f, 0, 1, op, prev)
  BY <1>2
<1>4. \A n \in Nat : n > 0 => op[f[prev[n]]] = 2 * f[n - 1]
  OBVIOUS
<1>5. Eq(f)
  <2> HIDE DEF op, prev
  <2>1. ASSUME NEW n \in Nat
        PROVE  f[n] = IF n = 0 THEN 1 ELSE 2 * f[n - 1]
    <3>1. f[n] = IF n > 0 THEN op[f[prev[n]]] ELSE 1
      BY <1>3 DEF Recursive
    <3>2. QED
      BY <1>4, <3>1
  <2>2. QED
    BY <2>1
<1>6. ShiftLeft1 = CHOOSE g : Eq(g)
  BY DEF ShiftLeft1
<1>7. Eq(ShiftLeft1)
  BY <1>5, <1>6
<1>8. \A n \in Nat : ShiftLeft1[n] = IF n = 0 THEN 1 ELSE 2 * ShiftLeft1[n - 1]
  BY <1>7
<1>9. ShiftLeft1 = [n \in Nat |-> ShiftLeft1[n]]
  BY <1>7
<1> DEFINE T == {n \in Nat : ShiftLeft1[n] \notin Nat}
<1>10. T = {}
  <2>1. SUFFICES ASSUME T # {} PROVE FALSE
    OBVIOUS
  <2>2. PICK n \in T : \A y \in T : n <= y
    <3>1. T \subseteq Nat
      OBVIOUS
    <3> HIDE DEF T
    <3>2. QED
      BY <2>1, <3>1, LeastNumber
  <2>3. n # 0 => n - 1 \in Nat /\ n - 1 < n
    OBVIOUS
  <2>4. QED
    BY <1>8, <2>2, <2>3
<1>11. QED
  BY <1>8, <1>9, <1>10

\* The page size asked for is rounded down to a power of two.
LEMMA PageSizeRounded ==
  /\ PageSize \in Nat \ {0}
  /\ KnobPageSize > 0 => PageSize <= KnobPageSize /\ KnobPageSize < 2 * PageSize
<1> DEFINE P(n) == LET s == ShiftLeft1[Log2[n]]
                   IN  s \in Nat \ {0} /\ (n > 0 => s <= n /\ n < 2 * s)
           T == {n \in Nat : ~P(n)}
<1>1. T = {}
  <2>1. SUFFICES ASSUME T # {} PROVE FALSE
    OBVIOUS
  <2>2. PICK n \in T : \A y \in T : n <= y
    <3>1. T \subseteq Nat
      OBVIOUS
    <3> HIDE DEF T
    <3>2. QED
      BY <2>1, <3>1, LeastNumber
  <2>3. CASE n > 1
    <3> DEFINE k == Log2[n \div 2]
    <3>1. n \div 2 \in Nat /\ n \div 2 < n /\ n \div 2 > 0
      BY <2>3
    <3>2. P(n \div 2) /\ k \in Nat
      BY <2>2, <3>1, Log2Def
    <3>3. Log2[n] = 1 + k
      BY <2>3, Log2Def
    <3>4. 1 + k \in Nat /\ 1 + k # 0 /\ (1 + k) - 1 = k
      BY <3>2
    <3> HIDE DEF k
    <3>5. ShiftLeft1[1 + k] = 2 * ShiftLeft1[k]
      BY <3>4, ShiftDef
    <3>6. QED
      BY <2>2, <3>1, <3>2, <3>3, <3>5 DEF k
  <2>4. CASE ~(n > 1)
    BY <2>2, <2>4, Log2Def, ShiftDef
  <2>5. QED
    BY <2>3, <2>4
<1>2. KnobPageSize \in Nat
  BY NearMAPAssumption
<1>3. QED
  BY <1>1, <1>2 DEF PageSize, TracePageSizeLog2

----------------------------------------------------------------------------
(* The parser, line by line.                                               *)

Start == [phases |-> <<>>, next_phase |-> "pre-main", panicked |-> FALSE]

\* g is the recursive function whose value at DOMAIN lines is the fold.
Parses(lines, S, g) ==
    g = [s \in SUBSET S |->
           IF s = {} THEN Start ELSE ParseLine(g[s \ {Max(s)}], lines[Max(s)])]

\* What Parse computes is the value of such a function, if there is one.
LEMMA ParseUnfold ==
  ASSUME NEW lines
  PROVE  Parse(lines) = (CHOOSE g : Parses(lines, DOMAIN lines, g))[DOMAIN lines]
  BY DEF Parse, FoldLeft, MapThenFoldSet, Parses, Start

\* A nonempty set of numbers up to n has a greatest one.
LEMMA GreatestNumber ==
  ASSUME NEW n \in Nat, NEW s \in SUBSET (1..n), s # {}
  PROVE  Max(s) \in s /\ \A y \in s : Max(s) >= y
<1> DEFINE B == {m \in Nat : \A y \in s : y <= m}
<1>1. PICK m \in B : \A k \in B : m <= k
  <2>1. B \subseteq Nat /\ n \in B
    OBVIOUS
  <2> HIDE DEF B
  <2>2. QED
    BY <2>1, LeastNumber
<1>2. m \in s
  <2>1. SUFFICES ASSUME m \notin s PROVE FALSE
    OBVIOUS
  <2>0. \A y \in s : y \in Nat /\ y >= 1
    OBVIOUS
  <2>5. m \in Nat /\ \A y \in s : y <= m
    BY <1>1
  <2>6. \A y \in s : y # m
    BY <2>1
  <2>7. PICK y \in s : TRUE
    OBVIOUS
  <2>8. m > 0
    BY <2>0, <2>5, <2>7
  <2>2. \A z \in s : z <= m - 1
    BY <2>0, <2>5, <2>6
  <2>3. m - 1 \in B
    BY <2>2, <2>5, <2>8
  <2>4. QED
    BY <1>1, <2>3
<1>3. \E x \in s : \A y \in s : x >= y
  BY <1>1, <1>2
<1>4. QED
  BY <1>3 DEF Max

\* Numbers that Max can take one by one, as those of the lines of a log are.
Enumerable(D) == IsFiniteSet(D) /\ \A s \in SUBSET D : s # {} => Max(s) \in s

LEMMA LinesEnumerable ==
  ASSUME NEW n \in Nat
  PROVE  Enumerable(1..n)
<1>1. IsFiniteSet(1..n)
  BY FS_Interval
<1>2. \A s \in SUBSET (1..n) : s # {} => Max(s) \in s
  BY GreatestNumber
<1>3. QED
  BY <1>1, <1>2 DEF Enumerable

\* Two such functions agree where both are defined.
LEMMA ParsesAgree ==
  ASSUME NEW lines, NEW D, Enumerable(D), NEW U \in SUBSET D, NEW V \in SUBSET D,
         NEW g, NEW h, Parses(lines, U, g), Parses(lines, V, h)
  PROVE  \A s \in SUBSET (U \cap V) : g[s] = h[s]
<1> DEFINE T == {s \in SUBSET (U \cap V) : g[s] # h[s]}
<1>1. SUFFICES ASSUME T # {}
               PROVE  FALSE
  OBVIOUS
<1>0. T \subseteq SUBSET D /\ IsFiniteSet(D)
  BY DEF Enumerable
<1>2. PICK s \in T : \A y \in T : y \subseteq s => y = s
  <2> HIDE DEF T
  <2>1. QED
    BY <1>0, <1>1, MinimalSubset
<1>3. CASE s = {}
  BY <1>3, <1>2 DEF Parses
<1>4. CASE s # {}
  <2> DEFINE t == s \ {Max(s)}
  <2>1. Max(s) \in s
    BY <1>4, <1>0 DEF Enumerable
  <2>2. t \in SUBSET (U \cap V) /\ t \subseteq s /\ t # s
    BY <2>1
  <2>3. g[t] = h[t]
    BY <1>2, <2>2
  <2>4. g[s] = ParseLine(g[t], lines[Max(s)]) /\ h[s] = ParseLine(h[t], lines[Max(s)])
    BY <1>4, <1>2 DEF Parses
  <2>5. QED
    BY <2>3, <2>4, <1>2
<1>5. QED
  BY <1>3, <1>4

\* There is one for every number of lines.
LEMMA ParsesExist ==
  ASSUME NEW lines, NEW D, Enumerable(D)
  PROVE  \E g : Parses(lines, D, g)
<1> DEFINE T == {U \in SUBSET D : ~ \E g : Parses(lines, U, g)}
<1>1. SUFFICES ASSUME T # {}
               PROVE  FALSE
  OBVIOUS
<1>0. T \subseteq SUBSET D /\ IsFiniteSet(D)
  BY DEF Enumerable
<1>2. PICK U \in T : \A y \in T : y \subseteq U => y = U
  <2> HIDE DEF T
  <2>1. QED
    BY <1>0, <1>1, MinimalSubset
<1> DEFINE G(V) == CHOOSE g : Parses(lines, V, g)
           h == [s \in SUBSET U |->
                   IF s = {} THEN Start
                   ELSE ParseLine(G(s \ {Max(s)})[s \ {Max(s)}], lines[Max(s)])]
<1>3. ASSUME NEW V \in SUBSET U, V # U
      PROVE  Parses(lines, V, G(V))
  BY <1>2, <1>3
<1>4. ASSUME NEW s \in SUBSET U, s # {}
      PROVE  Max(s) \in s
  BY <1>2, <1>4 DEF Enumerable
<1>5. ASSUME NEW t \in SUBSET U, t # U
      PROVE  h[t] = G(t)[t]
  <2>1. Parses(lines, t, G(t))
    BY <1>3, <1>5
  <2>2. CASE t = {}
    BY <2>1, <2>2 DEF Parses
  <2>3. CASE t # {}
    <3> DEFINE u == t \ {Max(t)}
    <3>1. Max(t) \in t
      BY <2>3, <1>4
    <3>2. u \in SUBSET U /\ u # U /\ u \in SUBSET t /\ u \in SUBSET D /\ t \in SUBSET D
      BY <3>1, <1>2
    <3>3. Parses(lines, u, G(u))
      BY <1>3, <3>2
    <3> HIDE DEF G
    <3>4. G(t)[u] = G(u)[u]
      <4>1. u \in SUBSET (t \cap u)
        BY <3>2
      <4>2. QED
        BY <2>1, <3>3, <3>2, <4>1, ParsesAgree
    <3>5. G(t)[t] = ParseLine(G(t)[u], lines[Max(t)])
      BY <2>1, <2>3 DEF Parses
    <3>6. h[t] = ParseLine(G(u)[u], lines[Max(t)])
      BY <2>3
    <3>7. QED
      BY <3>4, <3>5, <3>6
  <2>4. QED
    BY <2>2, <2>3
<1>6. ASSUME NEW s \in SUBSET U, s # {}
      PROVE  h[s] = ParseLine(h[s \ {Max(s)}], lines[Max(s)])
  <2>1. Max(s) \in s
    BY <1>4, <1>6
  <2>2. s \ {Max(s)} \in SUBSET U /\ s \ {Max(s)} # U
    BY <2>1
  <2>3. h[s \ {Max(s)}] = G(s \ {Max(s)})[s \ {Max(s)}]
    BY <1>5, <2>2
  <2>4. h[s] = ParseLine(G(s \ {Max(s)})[s \ {Max(s)}], lines[Max(s)])
    BY <1>6
  <2>5. QED
    BY <2>3, <2>4
<1>7. h[{}] = Start
  OBVIOUS
<1>8. Parses(lines, U, h)
  <2>1. h = [s \in SUBSET U |-> h[s]]
    OBVIOUS
  <2> HIDE DEF h
  <2>2. [s \in SUBSET U |-> h[s]]
          = [s \in SUBSET U |-> IF s = {} THEN Start
                                ELSE ParseLine(h[s \ {Max(s)}], lines[Max(s)])]
    BY <1>6, <1>7
  <2>3. QED
    BY <2>1, <2>2 DEF Parses
<1>9. QED
  BY <1>8, <1>2

\* The empty log.
LEMMA ParseEmpty == Parse(<<>>) = Start
<1>1. DOMAIN <<>> = 1..0
  OBVIOUS
<1>2. \E g : Parses(<<>>, DOMAIN <<>>, g)
  BY <1>1, LinesEnumerable, ParsesExist
<1> DEFINE h == CHOOSE g : Parses(<<>>, DOMAIN <<>>, g)
<1>3. Parses(<<>>, DOMAIN <<>>, h)
  BY <1>2
<1>4. Parse(<<>>) = h[DOMAIN <<>>]
  BY ParseUnfold
<1> HIDE DEF h
<1>5. DOMAIN <<>> = {}
  OBVIOUS
<1>6. h[{}] = Start
  BY <1>3 DEF Parses
<1>7. QED
  BY <1>4, <1>5, <1>6

\* One line after another.
LEMMA ParseAppend ==
  ASSUME NEW S, NEW lines \in Seq(S), NEW line \in S
  PROVE  Parse(Append(lines, line)) = ParseLine(Parse(lines), line)
<1> DEFINE more == Append(lines, line)
           n == Len(lines)
           D == 1..n
           E == 1..(n + 1)
<1>1. /\ n \in Nat /\ DOMAIN lines = D /\ DOMAIN more = E
      /\ \A i \in D : more[i] = lines[i]
      /\ more[n + 1] = line
  OBVIOUS
<1> DEFINE g == CHOOSE k : Parses(lines, D, k)
           h == CHOOSE k : Parses(more, E, k)
<1>0. Enumerable(D) /\ Enumerable(E)
  BY <1>1, LinesEnumerable
<1>2. Parses(lines, D, g) /\ Parses(more, E, h)
  <2> HIDE DEF D, E, more
  <2>1. QED
    BY <1>0, ParsesExist
<1>3. Parse(lines) = g[D] /\ Parse(more) = h[E]
  BY <1>1, ParseUnfold
<1> HIDE DEF g, h
<1> HIDE DEF more
<1>4. Parses(more, D, g)
  <2>1. ASSUME NEW s \in SUBSET D, s # {}
        PROVE  lines[Max(s)] = more[Max(s)]
    BY <1>1, <2>1, GreatestNumber
  <2>2. QED
    BY <1>2, <2>1 DEF Parses
<1>5. Max(E) = n + 1 /\ E \ {Max(E)} = D /\ E # {}
  <2>1. E # {} /\ n + 1 \in Nat /\ n + 1 \in E
    BY <1>1
  <2>2. Max(E) \in E /\ \A y \in E : Max(E) >= y
    BY <2>1, GreatestNumber
  <2>3. Max(E) = n + 1
    BY <1>1, <2>1, <2>2
  <2>4. QED
    BY <1>1, <2>1, <2>3
<1>6. h[E] = ParseLine(h[D], line)
  BY <1>1, <1>2, <1>5 DEF Parses
<1>7. h[D] = g[D]
  <2>1. D \in SUBSET E /\ E \in SUBSET E /\ D \in SUBSET (E \cap D)
    BY <1>1
  <2> HIDE DEF D, E
  <2>2. QED
    BY <1>0, <1>2, <1>4, <2>1, ParsesAgree
<1>8. QED
  BY <1>3, <1>6, <1>7 DEF more

----------------------------------------------------------------------------
(* The invariant.                                                          *)

Pages(bytes) == {b \div PageSize : b \in bytes}

Names == PhaseNames \cup {"pre-main", "program-finish"}

Phase == [name : Names, reads : SUBSET Nat, writes : SUBSET Nat, insns : Nat, io : Nat]

PhaseLine ==
    [kind : {"phase"}, page_size : Nat, start : Nat, name : Names, insns : Nat, io : Nat]

Line == PhaseLine \cup [kind : {"trace"}, page : Nat, read : BOOLEAN, write : BOOLEAN]

\* st is a well-formed AccessState: the clock is ahead of all stamps, and the
\* phases begin one after the other.
WellFormed(st) ==
    LET map == st.pageLastAccesses
    IN  /\ st = [currTime |-> st.currTime, ioBytes |-> st.ioBytes,
                 pageLastAccesses |-> map, phaseTimes |-> st.phaseTimes]
        /\ st.currTime \in Nat /\ st.ioBytes \in Nat
        /\ map = [p \in DOMAIN map |-> map[p]]
        /\ DOMAIN map \subseteq Nat /\ IsFiniteSet(DOMAIN map)
        /\ \A p \in DOMAIN map : /\ map[p] \in [lastRead : Nat, lastWrite : Nat]
                                 /\ map[p].lastRead < st.currTime
                                 /\ map[p].lastWrite < st.currTime
        /\ st.phaseTimes \in Seq(Nat) /\ st.phaseTimes # <<>>
        /\ st.phaseTimes[1] = 0
        /\ \A i \in 1 .. Len(st.phaseTimes) :
              /\ st.phaseTimes[i] =< st.currTime
              /\ i > 1 => st.phaseTimes[i - 1] < st.phaseTimes[i]

\* The stamps that are not before the begin of the current phase are those of
\* the pages that the phase t has touched; in the first phase, which begins at
\* time 0, a page that was touched has both.
Stamps(st, t) ==
    LET map   == st.pageLastAccesses
        begin == Last(st.phaseTimes)
    IN  /\ Pages(t.reads \cup t.writes) \subseteq DOMAIN map
        /\ \A p \in DOMAIN map :
              /\ map[p].lastRead >= begin \/ map[p].lastWrite >= begin
                    <=> p \in Pages(t.reads \cup t.writes)
              /\ begin > 0 => /\ map[p].lastRead >= begin <=> p \in Pages(t.reads)
                              /\ map[p].lastWrite >= begin <=> p \in Pages(t.writes)

\* What the tool knows of the phase t that has not ended yet.
Tracing(st, t) == WellFormed(st) /\ t \in Phase /\ Stamps(st, t)

\* p is what the log says of the i-th phase, of which t is the truth.
Recorded(p, t, i) ==
    /\ p.name = t.name /\ p.instructions = t.insns
    /\ p.io_bytes = t.io /\ p.page_size = PageSize
    /\ DOMAIN p.accesses = Pages(t.reads \cup t.writes)
    /\ i > 1 => ReadPages(p) = Pages(t.reads) /\ WrittenPages(p) = Pages(t.writes)

\* The log holds the phases that have ended.
LogInv ==
    LET phases == Parse(log).phases
    IN  /\ log \in Seq(Line)
        /\ Parse(log) = [phases |-> phases, next_phase |-> Last(truth).name, panicked |-> FALSE]
        /\ phases \in Seq(Range(phases)) /\ Len(phases) = Len(truth) - 1
        /\ \A i \in 1 .. Len(phases) : Recorded(phases[i], truth[i], i)

IInv ==
    /\ running \in BOOLEAN
    /\ accessState.currTime =< MaxTime + (IF running THEN 0 ELSE 1)
    /\ truth \in Seq(Phase) /\ truth # <<>>
    /\ \A i \in 1 .. Len(truth) : IsFiniteSet(truth[i].reads) /\ IsFiniteSet(truth[i].writes)
    /\ Len(accessState.phaseTimes) = Len(truth)
    /\ Tracing(accessState, Last(truth))
    /\ InstructionCounter = Last(truth).insns /\ accessState.ioBytes = Last(truth).io
    /\ LogInv

----------------------------------------------------------------------------
(* Accesses.                                                               *)

LEMMA PagesOfUnion ==
  ASSUME NEW A, NEW B
  PROVE  Pages(A \cup B) = Pages(A) \cup Pages(B)
  BY DEF Pages

\* An operand touches the pages from the one of its first byte to the one of its
\* last.
LEMMA PagesOfOperand ==
  ASSUME NEW op \in Operands
  PROVE  /\ Pages(Bytes(op)) = PageRange(op[1], op[2])
         /\ Bytes(op) \in SUBSET Nat /\ IsFiniteSet(Bytes(op))
         /\ PageRange(op[1], op[2]) \in SUBSET Nat /\ IsFiniteSet(PageRange(op[1], op[2]))
<1> DEFINE a == op[1]
           n == op[2]
           z == a + n - 1
<1>1. a \in Nat /\ n \in Nat \ {0}
  BY NearMAPAssumption
<1> HIDE DEF a, n
<1>2. z \in Nat /\ a <= z
  BY <1>1
<1>3. PageSize \in Nat \ {0}
  BY PageSizeRounded
<1> DEFINE lo == a \div PageSize
           hi == z \div PageSize
<1>4. lo \in Nat /\ hi \in Nat
  BY <1>1, <1>2, <1>3
<1>5. IsFiniteSet(a .. z) /\ IsFiniteSet(lo .. hi)
  BY <1>1, <1>2, <1>4, FS_Interval
<1>6. ASSUME NEW b \in a .. z PROVE b \div PageSize \in lo .. hi
  <2>1. b \in Nat /\ a <= b /\ b <= z
    BY <1>1, <1>2
  <2> HIDE DEF z
  <2>2. b \div PageSize \in Nat /\ lo <= b \div PageSize /\ b \div PageSize <= hi
    BY <1>1, <1>2, <1>3, <2>1
  <2>3. QED
    BY <2>2
<1>7. ASSUME NEW p \in lo .. hi PROVE \E b \in a .. z : p = b \div PageSize
  <2>1. p \in Nat /\ lo <= p /\ p <= hi
    BY <1>4
  <2> HIDE DEF z
  <2>2. CASE p = lo
    BY <1>1, <1>2, <2>2
  <2>3. CASE p # lo
    <3> DEFINE b == p * PageSize
    <3>1. b \in Nat /\ b \div PageSize = p
      BY <1>3, <2>1
    <3>2. b <= hi * PageSize /\ hi * PageSize <= z
      <4>1. hi * PageSize <= z
        BY <1>2, <1>3
      <4> HIDE DEF hi
      <4>2. b <= hi * PageSize
        BY <1>3, <1>4, <2>1
      <4>3. QED
        BY <4>1, <4>2
    <3>3. a < (lo + 1) * PageSize /\ (lo + 1) * PageSize <= b
      <4>1. a < (lo + 1) * PageSize
        BY <1>1, <1>3
      <4> HIDE DEF lo
      <4>2. (lo + 1) * PageSize <= b
        BY <1>3, <1>4, <2>1, <2>3
      <4>3. QED
        BY <4>1, <4>2
    <3>4. a <= b /\ b <= z
      <4>1. hi * PageSize \in Nat /\ (lo + 1) * PageSize \in Nat
        BY <1>3, <1>4
      <4> HIDE DEF b
      <4>2. QED
        BY <1>1, <1>2, <3>1, <3>2, <3>3, <4>1
    <3> HIDE DEF b
    <3>5. QED
      BY <1>1, <1>2, <3>1, <3>4
  <2>4. QED
    BY <2>2, <2>3
<1>8. Pages(Bytes(op)) = lo .. hi
  <2>1. Bytes(op) = a .. z
    BY DEF Bytes, a, n
  <2> HIDE DEF lo, hi, z
  <2>2. QED
    BY <1>6, <1>7, <2>1 DEF Pages, lo
<1>9. Bytes(op) = a .. z /\ PageRange(op[1], op[2]) = lo .. hi
  BY DEF Bytes, PageRange, a, n
<1>10. a .. z \in SUBSET Nat /\ lo .. hi \in SUBSET Nat
  BY <1>1, <1>2, <1>4
<1>11. QED
  BY <1>5, <1>8, <1>9, <1>10

\* The stamps of a page that has none yet are 0.
LEMMA TimesFacts ==
  ASSUME NEW st, WellFormed(st), NEW p
  PROVE  /\ Times(st, p) \in [lastRead : Nat, lastWrite : Nat]
         /\ p \in DOMAIN st.pageLastAccesses => Times(st, p) = st.pageLastAccesses[p]
         /\ p \notin DOMAIN st.pageLastAccesses => Times(st, p) = [lastRead |-> 0, lastWrite |-> 0]
  BY DEF Times, WellFormed

\* What OnRead and OnWrite make of the struct, field by field.
LEMMA OnReadFacts ==
  ASSUME NEW st, WellFormed(st), NEW op \in Operands
  PROVE  LET new == OnRead(st, op)
             map == new.pageLastAccesses
             hit == PageRange(op[1], op[2])
         IN  /\ new = [currTime |-> st.currTime + 1, ioBytes |-> st.ioBytes,
                       pageLastAccesses |-> map, phaseTimes |-> st.phaseTimes]
             /\ map = [p \in DOMAIN map |-> map[p]]
             /\ DOMAIN map = DOMAIN st.pageLastAccesses \cup hit
             /\ \A p \in hit : map[p] = [lastRead |-> st.currTime,
                                         lastWrite |-> Times(st, p).lastWrite]
             /\ \A p \in DOMAIN st.pageLastAccesses \ hit : map[p] = st.pageLastAccesses[p]
<1> DEFINE old == st.pageLastAccesses
           hit == PageRange(op[1], op[2])
           new == OnRead(st, op)
           map == [p \in DOMAIN old \cup hit |->
                     IF p \in hit THEN [Times(st, p) EXCEPT !.lastRead = st.currTime] ELSE old[p]]
<1>1. new = [st EXCEPT !.currTime = @ + 1, !.pageLastAccesses = map]
  BY DEF OnRead, Stamped
<1>2. st = [currTime |-> st.currTime, ioBytes |-> st.ioBytes,
            pageLastAccesses |-> old, phaseTimes |-> st.phaseTimes]
  BY DEF WellFormed
<1> HIDE DEF hit, new
<1>3. new = [currTime |-> st.currTime + 1, ioBytes |-> st.ioBytes,
             pageLastAccesses |-> map, phaseTimes |-> st.phaseTimes]
  <2> HIDE DEF map
  <2>1. QED
    BY <1>1, <1>2
<1>4. new.pageLastAccesses = map
  BY <1>3
<1>5. ASSUME NEW p \in hit
      PROVE  map[p] = [lastRead |-> st.currTime, lastWrite |-> Times(st, p).lastWrite]
  <2>1. Times(st, p) \in [lastRead : Nat, lastWrite : Nat]
    BY TimesFacts
  <2>2. map[p] = [Times(st, p) EXCEPT !.lastRead = st.currTime]
    OBVIOUS
  <2> HIDE DEF map
  <2>3. QED
    BY <2>1, <2>2
<1>6. \A p \in DOMAIN old \ hit : map[p] = old[p]
  OBVIOUS
<1>7. DOMAIN map = DOMAIN old \cup hit /\ map = [p \in DOMAIN map |-> map[p]]
  OBVIOUS
<1> HIDE DEF map
<1>8. QED
  BY <1>3, <1>4, <1>5, <1>6, <1>7 DEF hit, new

LEMMA OnWriteFacts ==
  ASSUME NEW st, WellFormed(st), NEW op \in Operands
  PROVE  LET new == OnWrite(st, op)
             map == new.pageLastAccesses
             hit == PageRange(op[1], op[2])
         IN  /\ new = [currTime |-> st.currTime + 1, ioBytes |-> st.ioBytes,
                       pageLastAccesses |-> map, phaseTimes |-> st.phaseTimes]
             /\ map = [p \in DOMAIN map |-> map[p]]
             /\ DOMAIN map = DOMAIN st.pageLastAccesses \cup hit
             /\ \A p \in hit : map[p] = [lastRead |-> Times(st, p).lastRead,
                                         lastWrite |-> st.currTime]
             /\ \A p \in DOMAIN st.pageLastAccesses \ hit : map[p] = st.pageLastAccesses[p]
<1> DEFINE old == st.pageLastAccesses
           hit == PageRange(op[1], op[2])
           new == OnWrite(st, op)
           map == [p \in DOMAIN old \cup hit |->
                     IF p \in hit THEN [Times(st, p) EXCEPT !.lastWrite = st.currTime] ELSE old[p]]
<1>1. new = [st EXCEPT !.currTime = @ + 1, !.pageLastAccesses = map]
  BY DEF OnWrite, Stamped
<1>2. st = [currTime |-> st.currTime, ioBytes |-> st.ioBytes,
            pageLastAccesses |-> old, phaseTimes |-> st.phaseTimes]
  BY DEF WellFormed
<1> HIDE DEF hit, new
<1>3. new = [currTime |-> st.currTime + 1, ioBytes |-> st.ioBytes,
             pageLastAccesses |-> map, phaseTimes |-> st.phaseTimes]
  <2> HIDE DEF map
  <2>1. QED
    BY <1>1, <1>2
<1>4. new.pageLastAccesses = map
  BY <1>3
<1>5. ASSUME NEW p \in hit
      PROVE  map[p] = [lastRead |-> Times(st, p).lastRead, lastWrite |-> st.currTime]
  <2>1. Times(st, p) \in [lastRead : Nat, lastWrite : Nat]
    BY TimesFacts
  <2>2. map[p] = [Times(st, p) EXCEPT !.lastWrite = st.currTime]
    OBVIOUS
  <2> HIDE DEF map
  <2>3. QED
    BY <2>1, <2>2
<1>6. \A p \in DOMAIN old \ hit : map[p] = old[p]
  OBVIOUS
<1>7. DOMAIN map = DOMAIN old \cup hit /\ map = [p \in DOMAIN map |-> map[p]]
  OBVIOUS
<1> HIDE DEF map
<1>8. QED
  BY <1>3, <1>4, <1>5, <1>6, <1>7 DEF hit, new

\* A read is recorded with its phase.
LEMMA ReadTraced ==
  ASSUME NEW st, NEW t, Tracing(st, t), NEW op \in Operands
  PROVE  Tracing(OnRead(st, op), [t EXCEPT !.reads = @ \cup Bytes(op)])
<1> DEFINE old == st.pageLastAccesses
           hit == PageRange(op[1], op[2])
           new == OnRead(st, op)
           map == new.pageLastAccesses
           u == [t EXCEPT !.reads = @ \cup Bytes(op)]
           begin == Last(st.phaseTimes)
<1>1. WellFormed(st) /\ t \in Phase /\ Stamps(st, t)
  BY DEF Tracing
<1>2. /\ new = [currTime |-> st.currTime + 1, ioBytes |-> st.ioBytes,
                pageLastAccesses |-> map, phaseTimes |-> st.phaseTimes]
      /\ map = [p \in DOMAIN map |-> map[p]]
      /\ DOMAIN map = DOMAIN old \cup hit
      /\ \A p \in hit : map[p] = [lastRead |-> st.currTime, lastWrite |-> Times(st, p).lastWrite]
      /\ \A p \in DOMAIN old \ hit : map[p] = old[p]
  BY <1>1, OnReadFacts
<1>3. /\ Pages(Bytes(op)) = hit /\ Bytes(op) \in SUBSET Nat
      /\ hit \in SUBSET Nat /\ IsFiniteSet(hit)
  BY PagesOfOperand
<1>4. u \in Phase /\ u.reads = t.reads \cup Bytes(op) /\ u.writes = t.writes
  BY <1>1, <1>3 DEF Phase
<1> HIDE DEF new, map, u, hit
<1>5. /\ st.currTime \in Nat /\ st.ioBytes \in Nat /\ st.phaseTimes \in Seq(Nat)
      /\ st.phaseTimes # <<>> /\ st.phaseTimes[1] = 0
      /\ DOMAIN old \in SUBSET Nat /\ IsFiniteSet(DOMAIN old)
      /\ \A p \in DOMAIN old : /\ old[p] \in [lastRead : Nat, lastWrite : Nat]
                               /\ old[p].lastRead < st.currTime
                               /\ old[p].lastWrite < st.currTime
      /\ \A i \in 1 .. Len(st.phaseTimes) :
            /\ st.phaseTimes[i] \in Nat
            /\ st.phaseTimes[i] =< st.currTime
            /\ i > 1 => st.phaseTimes[i - 1] < st.phaseTimes[i]
  BY <1>1 DEF WellFormed
<1>6. begin \in Nat /\ begin =< st.currTime
  BY <1>5 DEF Last
<1> HIDE DEF begin
<1>7. ASSUME NEW p \in hit
      PROVE  /\ Times(st, p).lastWrite \in Nat
             /\ p \in DOMAIN old => Times(st, p) = old[p]
             /\ p \notin DOMAIN old => Times(st, p).lastWrite = 0
  BY <1>1, TimesFacts
<1>8. /\ new.currTime = st.currTime + 1 /\ new.ioBytes = st.ioBytes
      /\ new.pageLastAccesses = map /\ new.phaseTimes = st.phaseTimes
  BY <1>2
<1>9. WellFormed(new)
  <2>1. IsFiniteSet(DOMAIN map) /\ DOMAIN map \subseteq Nat
    <3>1. IsFiniteSet(DOMAIN old \cup hit)
      BY <1>3, <1>5, FS_Union
    <3>2. QED
      BY <1>2, <1>3, <1>5, <3>1
  <2>2. ASSUME NEW p \in DOMAIN map
        PROVE  /\ map[p] \in [lastRead : Nat, lastWrite : Nat]
               /\ map[p].lastRead < st.currTime + 1
               /\ map[p].lastWrite < st.currTime + 1
    <3>1. CASE p \in hit
      <4>1. Times(st, p).lastWrite \in Nat /\ Times(st, p).lastWrite < st.currTime + 1
        <5>1. CASE p \in DOMAIN old
          BY <1>5, <1>7, <3>1, <5>1
        <5>2. CASE p \notin DOMAIN old
          BY <1>5, <1>7, <3>1, <5>2
        <5>3. QED
          BY <5>1, <5>2
      <4>2. QED
        BY <1>2, <1>5, <3>1, <4>1
    <3>2. CASE p \notin hit
      <4>1. p \in DOMAIN old /\ map[p] = old[p]
        BY <1>2, <3>2
      <4>2. QED
        BY <1>5, <4>1
    <3>3. QED
      BY <3>1, <3>2
  <2>3. \A i \in 1 .. Len(st.phaseTimes) :
            /\ st.phaseTimes[i] =< st.currTime + 1
            /\ i > 1 => st.phaseTimes[i - 1] < st.phaseTimes[i]
    BY <1>5, SMTT(60)
  <2>4. QED
    BY <1>2, <1>5, <1>8, <2>1, <2>2, <2>3 DEF WellFormed
<1>10. /\ Pages(t.reads \cup t.writes) \subseteq DOMAIN old
       /\ \A p \in DOMAIN old :
             /\ old[p].lastRead >= begin \/ old[p].lastWrite >= begin
                   <=> p \in Pages(t.reads \cup t.writes)
             /\ begin > 0 => /\ old[p].lastRead >= begin <=> p \in Pages(t.reads)
                             /\ old[p].lastWrite >= begin <=> p \in Pages(t.writes)
  BY <1>1 DEF Stamps, begin
<1>11. /\ Pages(u.reads) = Pages(t.reads) \cup hit
       /\ Pages(u.writes) = Pages(t.writes)
       /\ Pages(u.reads \cup u.writes) = Pages(t.reads \cup t.writes) \cup hit
       /\ Pages(t.reads \cup t.writes) = Pages(t.reads) \cup Pages(t.writes)
  <2>1. u.reads \cup u.writes = (t.reads \cup t.writes) \cup Bytes(op)
    BY <1>4
  <2>2. QED
    BY <1>3, <1>4, <2>1, PagesOfUnion
<1>12. Stamps(new, u)
  <2>1. Pages(u.reads \cup u.writes) \subseteq DOMAIN map
    BY <1>2, <1>10, <1>11
  <2>2. ASSUME NEW p \in DOMAIN map
        PROVE  /\ map[p].lastRead >= begin \/ map[p].lastWrite >= begin
                     <=> p \in Pages(u.reads \cup u.writes)
               /\ begin > 0 => /\ map[p].lastRead >= begin <=> p \in Pages(u.reads)
                               /\ map[p].lastWrite >= begin <=> p \in Pages(u.writes)
    <3>1. CASE p \in hit
      <4>1. map[p].lastRead = st.currTime /\ map[p].lastWrite = Times(st, p).lastWrite
        BY <1>2, <3>1
      <4>2. p \in Pages(u.reads) /\ p \in Pages(u.reads \cup u.writes)
        BY <1>11, <3>1
      <4>3. begin > 0 => (map[p].lastWrite >= begin <=> p \in Pages(u.writes))
        <5>1. CASE p \in DOMAIN old
          BY <1>7, <1>10, <1>11, <3>1, <4>1, <5>1
        <5>2. CASE p \notin DOMAIN old
          <6>1. map[p].lastWrite = 0 /\ p \notin Pages(t.reads \cup t.writes)
            BY <1>7, <1>10, <3>1, <4>1, <5>2
          <6>2. p \notin Pages(u.writes)
            BY <1>11, <6>1
          <6>3. begin > 0 => ~(0 >= begin)
            BY <1>6
          <6>4. QED
            BY <6>1, <6>2, <6>3
        <5>3. QED
          BY <5>1, <5>2
      <4>4. map[p].lastRead >= begin
        BY <1>5, <1>6, <4>1
      <4>5. QED
        BY <4>2, <4>3, <4>4
    <3>2. CASE p \notin hit
      <4>1. p \in DOMAIN old /\ map[p] = old[p]
        BY <1>2, <3>2
      <4>2. QED
        BY <1>10, <1>11, <3>2, <4>1
    <3>3. QED
      BY <3>1, <3>2
  <2>3. QED
    BY <1>8, <2>1, <2>2 DEF Stamps, begin
<1>13. QED
  BY <1>4, <1>9, <1>12 DEF Tracing, new, u

\* A write is recorded with its phase.
LEMMA WriteTraced ==
  ASSUME NEW st, NEW t, Tracing(st, t), NEW op \in Operands
  PROVE  Tracing(OnWrite(st, op), [t EXCEPT !.writes = @ \cup Bytes(op)])
<1> DEFINE old == st.pageLastAccesses
           hit == PageRange(op[1], op[2])
           new == OnWrite(st, op)
           map == new.pageLastAccesses
           u == [t EXCEPT !.writes = @ \cup Bytes(op)]
           begin == Last(st.phaseTimes)
<1>1. WellFormed(st) /\ t \in Phase /\ Stamps(st, t)
  BY DEF Tracing
<1>2. /\ new = [currTime |-> st.currTime + 1, ioBytes |-> st.ioBytes,
                pageLastAccesses |-> map, phaseTimes |-> st.phaseTimes]
      /\ map = [p \in DOMAIN map |-> map[p]]
      /\ DOMAIN map = DOMAIN old \cup hit
      /\ \A p \in hit : map[p] = [lastRead |-> Times(st, p).lastRead, lastWrite |-> st.currTime]
      /\ \A p \in DOMAIN old \ hit : map[p] = old[p]
  BY <1>1, OnWriteFacts
<1>3. /\ Pages(Bytes(op)) = hit /\ Bytes(op) \in SUBSET Nat
      /\ hit \in SUBSET Nat /\ IsFiniteSet(hit)
  BY PagesOfOperand
<1>4. u \in Phase /\ u.writes = t.writes \cup Bytes(op) /\ u.reads = t.reads
  BY <1>1, <1>3 DEF Phase
<1> HIDE DEF new, map, u, hit
<1>5. /\ st.currTime \in Nat /\ st.ioBytes \in Nat /\ st.phaseTimes \in Seq(Nat)
      /\ st.phaseTimes # <<>> /\ st.phaseTimes[1] = 0
      /\ DOMAIN old \in SUBSET Nat /\ IsFiniteSet(DOMAIN old)
      /\ \A p \in DOMAIN old : /\ old[p] \in [lastRead : Nat, lastWrite : Nat]
                               /\ old[p].lastRead < st.currTime
                               /\ old[p].lastWrite < st.currTime
      /\ \A i \in 1 .. Len(st.phaseTimes) :
            /\ st.phaseTimes[i] \in Nat
            /\ st.phaseTimes[i] =< st.currTime
            /\ i > 1 => st.phaseTimes[i - 1] < st.phaseTimes[i]
  BY <1>1 DEF WellFormed
<1>6. begin \in Nat /\ begin =< st.currTime
  BY <1>5 DEF Last
<1> HIDE DEF begin
<1>7. ASSUME NEW p \in hit
      PROVE  /\ Times(st, p).lastRead \in Nat
             /\ p \in DOMAIN old => Times(st, p) = old[p]
             /\ p \notin DOMAIN old => Times(st, p).lastRead = 0
  BY <1>1, TimesFacts
<1>8. /\ new.currTime = st.currTime + 1 /\ new.ioBytes = st.ioBytes
      /\ new.pageLastAccesses = map /\ new.phaseTimes = st.phaseTimes
  BY <1>2
<1>9. WellFormed(new)
  <2>1. IsFiniteSet(DOMAIN map) /\ DOMAIN map \subseteq Nat
    <3>1. IsFiniteSet(DOMAIN old \cup hit)
      BY <1>3, <1>5, FS_Union
    <3>2. QED
      BY <1>2, <1>3, <1>5, <3>1
  <2>2. ASSUME NEW p \in DOMAIN map
        PROVE  /\ map[p] \in [lastRead : Nat, lastWrite : Nat]
               /\ map[p].lastRead < st.currTime + 1
               /\ map[p].lastWrite < st.currTime + 1
    <3>1. CASE p \in hit
      <4>1. Times(st, p).lastRead \in Nat /\ Times(st, p).lastRead < st.currTime + 1
        <5>1. CASE p \in DOMAIN old
          BY <1>5, <1>7, <3>1, <5>1
        <5>2. CASE p \notin DOMAIN old
          BY <1>5, <1>7, <3>1, <5>2
        <5>3. QED
          BY <5>1, <5>2
      <4>2. QED
        BY <1>2, <1>5, <3>1, <4>1
    <3>2. CASE p \notin hit
      <4>1. p \in DOMAIN old /\ map[p] = old[p]
        BY <1>2, <3>2
      <4>2. QED
        BY <1>5, <4>1
    <3>3. QED
      BY <3>1, <3>2
  <2>3. \A i \in 1 .. Len(st.phaseTimes) :
            /\ st.phaseTimes[i] =< st.currTime + 1
            /\ i > 1 => st.phaseTimes[i - 1] < st.phaseTimes[i]
    BY <1>5, SMTT(60)
  <2>4. QED
    BY <1>2, <1>5, <1>8, <2>1, <2>2, <2>3 DEF WellFormed
<1>10. /\ Pages(t.reads \cup t.writes) \subseteq DOMAIN old
       /\ \A p \in DOMAIN old :
             /\ old[p].lastRead >= begin \/ old[p].lastWrite >= begin
                   <=> p \in Pages(t.reads \cup t.writes)
             /\ begin > 0 => /\ old[p].lastRead >= begin <=> p \in Pages(t.reads)
                             /\ old[p].lastWrite >= begin <=> p \in Pages(t.writes)
  BY <1>1 DEF Stamps, begin
<1>11. /\ Pages(u.writes) = Pages(t.writes) \cup hit
       /\ Pages(u.reads) = Pages(t.reads)
       /\ Pages(u.reads \cup u.writes) = Pages(t.reads \cup t.writes) \cup hit
       /\ Pages(t.reads \cup t.writes) = Pages(t.reads) \cup Pages(t.writes)
  <2>1. u.reads \cup u.writes = (t.reads \cup t.writes) \cup Bytes(op)
    BY <1>4
  <2>2. QED
    BY <1>3, <1>4, <2>1, PagesOfUnion
<1>12. Stamps(new, u)
  <2>1. Pages(u.reads \cup u.writes) \subseteq DOMAIN map
    BY <1>2, <1>10, <1>11
  <2>2. ASSUME NEW p \in DOMAIN map
        PROVE  /\ map[p].lastRead >= begin \/ map[p].lastWrite >= begin
                     <=> p \in Pages(u.reads \cup u.writes)
               /\ begin > 0 => /\ map[p].lastRead >= begin <=> p \in Pages(u.reads)
                               /\ map[p].lastWrite >= begin <=> p \in Pages(u.writes)
    <3>1. CASE p \in hit
      <4>1. map[p].lastWrite = st.currTime /\ map[p].lastRead = Times(st, p).lastRead
        BY <1>2, <3>1
      <4>2. p \in Pages(u.writes) /\ p \in Pages(u.reads \cup u.writes)
        BY <1>11, <3>1
      <4>3. begin > 0 => (map[p].lastRead >= begin <=> p \in Pages(u.reads))
        <5>1. CASE p \in DOMAIN old
          BY <1>7, <1>10, <1>11, <3>1, <4>1, <5>1
        <5>2. CASE p \notin DOMAIN old
          <6>1. map[p].lastRead = 0 /\ p \notin Pages(t.reads \cup t.writes)
            BY <1>7, <1>10, <3>1, <4>1, <5>2
          <6>2. p \notin Pages(u.reads)
            BY <1>11, <6>1
          <6>3. begin > 0 => ~(0 >= begin)
            BY <1>6
          <6>4. QED
            BY <6>1, <6>2, <6>3
        <5>3. QED
          BY <5>1, <5>2
      <4>4. map[p].lastWrite >= begin
        BY <1>5, <1>6, <4>1
      <4>5. QED
        BY <4>2, <4>3, <4>4
    <3>2. CASE p \notin hit
      <4>1. p \in DOMAIN old /\ map[p] = old[p]
        BY <1>2, <3>2
      <4>2. QED
        BY <1>10, <1>11, <3>2, <4>1
    <3>3. QED
      BY <3>1, <3>2
  <2>3. QED
    BY <1>8, <2>1, <2>2 DEF Stamps, begin
<1>13. QED
  BY <1>4, <1>9, <1>12 DEF Tracing, new, u

----------------------------------------------------------------------------
(* The lines of one phase.                                                 *)

\* The line of a page.
TraceLine(p, R, W) == [kind |-> "trace", page |-> p, read |-> p \in R, write |-> p \in W]
Listed(order, n) == {order[i] : i \in 1 .. n}
TraceLines(order, n, R, W) == [i \in 1 .. n |-> TraceLine(order[i], R, W)]

\* The accesses of the phase x, after lines for the pages D.
Access(p, R, W) == [read |-> p \in R, write |-> p \in W]
With(x, D, R, W) == [x EXCEPT !.accesses = [p \in D |-> Access(p, R, W)]]
Parsed(st) == /\ st = [phases |-> st.phases, next_phase |-> st.next_phase,
                        panicked |-> st.panicked]
              /\ st.panicked = FALSE
After(seq, x, next) == [phases |-> Append(seq, x), next_phase |-> next, panicked |-> FALSE]

IsPhase(x) == x = [name |-> x.name, page_size |-> x.page_size, start_time |-> x.start_time,
                   instructions |-> x.instructions, io_bytes |-> x.io_bytes,
                   accesses |-> x.accesses]

\* Changing the last element of a sequence.
LEMMA ChangeLast ==
  ASSUME NEW S, NEW seq \in Seq(S), NEW x, NEW y
  PROVE  LET s == Append(seq, x)
         IN  /\ s # <<>> /\ s[Len(s)] = x /\ Len(s) = Len(seq) + 1
             /\ [s EXCEPT ![Len(s)] = y] = Append(seq, y)
<1> DEFINE T == S \cup {x, y}
           s == Append(seq, x)
           r == Append(seq, y)
           e == [s EXCEPT ![Len(s)] = y]
<1>1. seq \in Seq(T)
  BY SeqMonotonic
<1>2. /\ s \in Seq(T) /\ s # <<>> /\ Len(s) = Len(seq) + 1
      /\ \A i \in 1 .. Len(seq) : s[i] = seq[i]
      /\ s[Len(seq) + 1] = x
  BY <1>1, AppendProperties
<1>3. /\ r \in Seq(T) /\ Len(r) = Len(seq) + 1
      /\ \A i \in 1 .. Len(seq) : r[i] = seq[i]
      /\ r[Len(seq) + 1] = y
  BY <1>1, AppendProperties
<1>4. Len(seq) \in Nat /\ Len(s) \in 1 .. Len(s) /\ y \in T
  BY <1>2
<1> HIDE DEF s, r, T
<1>5. /\ e \in Seq(T) /\ Len(e) = Len(s)
      /\ \A j \in 1 .. Len(s) : e[j] = IF j = Len(s) THEN y ELSE s[j]
  BY <1>2, <1>4, ExceptSeq
<1> HIDE DEF e
<1>6. \A i \in 1 .. Len(e) : e[i] = r[i]
  BY <1>2, <1>3, <1>4, <1>5, SMTT(60)
<1>7. e = r
  BY <1>2, <1>3, <1>5, <1>6, SeqEqual
<1>8. QED
  BY <1>2, <1>7 DEF s, r, e

\* A line of a page that was read or written adds the page to the last phase.
LEMMA ParseTraceLine ==
  ASSUME NEW S, NEW seq \in Seq(S), NEW x, IsPhase(x), NEW next, NEW D, NEW R, NEW W,
         NEW q \in R \cup W
  PROVE  ParseLine(After(seq, With(x, D, R, W), next), TraceLine(q, R, W))
           = After(seq, With(x, D \cup {q}, R, W), next)
<1> DEFINE line == [kind |-> "trace", page |-> q, read |-> q \in R, write |-> q \in W]
           y == With(x, D, R, W)
           z == With(x, D \cup {q}, R, W)
           st == After(seq, y, next)
           s == Append(seq, y)
           acc == [p \in DOMAIN y.accesses \cup {q} |->
                     IF p = q THEN CHOOSE a \in try_from_rw(q \in R, q \in W) : TRUE
                     ELSE y.accesses[p]]
<1>1. y.accesses = [p \in D |-> Access(p, R, W)]
  BY DEF With, IsPhase
<1>2. try_from_rw(q \in R, q \in W) = {Access(q, R, W)}
  BY DEF try_from_rw, Access
<1>3. acc = [p \in D \cup {q} |-> Access(p, R, W)]
  <2> HIDE DEF y
  <2>1. (CHOOSE a \in try_from_rw(q \in R, q \in W) : TRUE) = Access(q, R, W)
    BY <1>2
  <2>2. DOMAIN y.accesses = D /\ \A p \in D : y.accesses[p] = Access(p, R, W)
    BY <1>1
  <2>3. QED
    BY <2>1, <2>2
<1>4. [y EXCEPT !.accesses = acc] = z
  <2> HIDE DEF acc
  <2>1. QED
    BY <1>3 DEF With, IsPhase
<1>5. st.phases = s /\ st = [phases |-> s, next_phase |-> next, panicked |-> FALSE]
  BY DEF After
<1>6. /\ s # <<>> /\ s[Len(s)] = y
      /\ [s EXCEPT ![Len(s)] = z] = Append(seq, z)
  <2> HIDE DEF y, z
  <2>1. QED
    BY ChangeLast
<1>7. ParseLine(st, line) = [st EXCEPT !.phases[Len(st.phases)].accesses =
            [p \in DOMAIN @ \cup {q} |->
                IF p = q THEN CHOOSE a \in try_from_rw(q \in R, q \in W) : TRUE
                ELSE @[p]]]
  <2>1. try_from_rw(line.read, line.write) # {} /\ line.kind # "phase"
    BY <1>2
  <2>2. st.phases # <<>>
    BY <1>5, <1>6
  <2> HIDE DEF st
  <2>3. QED
    BY <2>1, <2>2 DEF ParseLine
<1>8. ParseLine(st, line) = [st EXCEPT !.phases = [s EXCEPT ![Len(s)] = z]]
  <2> DEFINE chosen == CHOOSE a \in try_from_rw(q \in R, q \in W) : TRUE
  <2>1. ParseLine(st, line) =
          [st EXCEPT !.phases = [st.phases EXCEPT ![Len(st.phases)] =
             [st.phases[Len(st.phases)] EXCEPT !.accesses =
                [p \in DOMAIN st.phases[Len(st.phases)].accesses \cup {q} |->
                   IF p = q THEN chosen ELSE st.phases[Len(st.phases)].accesses[p]]]]]
    <3> HIDE DEF st, chosen, line
    <3>1. QED
      BY <1>7 DEF chosen
  <2>2. st.phases[Len(st.phases)] = y
    BY <1>5, <1>6
  <2>3. acc = [p \in DOMAIN y.accesses \cup {q} |-> IF p = q THEN chosen ELSE y.accesses[p]]
    OBVIOUS
  <2> HIDE DEF s, y, z, st, line, acc, chosen
  <2>4. ParseLine(st, line) =
          [st EXCEPT !.phases = [s EXCEPT ![Len(s)] = [y EXCEPT !.accesses = acc]]]
    BY <1>5, <2>1, <2>2, <2>3
  <2>5. QED
    BY <1>4, <2>4
<1>9. [st EXCEPT !.phases = [s EXCEPT ![Len(s)] = z]] = After(seq, z, next)
  <2>1. st.next_phase = next /\ st.panicked = FALSE
    BY <1>5
  <2>2. st = [phases |-> st.phases, next_phase |-> st.next_phase, panicked |-> st.panicked]
    BY <1>5
  <2> DEFINE e == [s EXCEPT ![Len(s)] = z]
  <2>3. e = Append(seq, z)
    BY <1>6
  <2> HIDE DEF e, z, st
  <2>4. [st EXCEPT !.phases = e] =
          [phases |-> e, next_phase |-> st.next_phase, panicked |-> st.panicked]
    BY <2>2
  <2>5. QED
    BY <2>1, <2>3, <2>4 DEF After, e
<1>10. QED
  BY <1>8, <1>9 DEF TraceLine

\* A phase line begins a phase, named by the phase line before it, in which no
\* page is touched yet.
LEMMA ParsePhaseLine ==
  ASSUME NEW st, Parsed(st), NEW R, NEW W, NEW line \in PhaseLine
  PROVE  LET x == TracePhase(st.next_phase, line)
         IN  /\ IsPhase(x)
             /\ ParseLine(st, line) = After(st.phases, With(x, {}, R, W), line.name)
<1> DEFINE x == TracePhase(st.next_phase, line)
           a == Append(st.phases, x)
           b == line.name
           s1 == [st EXCEPT !.phases = a]
<1>1. IsPhase(x) /\ x.accesses = <<>>
  BY DEF TracePhase, IsPhase
<1>2. <<>> = [p \in {} |-> Access(p, R, W)]
  OBVIOUS
<1> HIDE DEF x
<1>3. With(x, {}, R, W) = x
  BY <1>1, <1>2 DEF With, IsPhase
<1>4. line.kind = "phase"
  BY DEF PhaseLine
<1>5. ParseLine(st, line) = [st EXCEPT !.phases = a, !.next_phase = b]
  BY <1>4 DEF ParseLine, x
<1> HIDE DEF a, b
<1>6. s1 = [phases |-> a, next_phase |-> st.next_phase, panicked |-> st.panicked]
  BY DEF Parsed
<1>7. [st EXCEPT !.phases = a, !.next_phase = b] = [s1 EXCEPT !.next_phase = b]
  OBVIOUS
<1> HIDE DEF s1
<1>8. /\ s1 = [phases |-> s1.phases, next_phase |-> s1.next_phase, panicked |-> s1.panicked]
      /\ s1.panicked = st.panicked /\ s1.phases = a
  BY <1>6
<1>9. [s1 EXCEPT !.next_phase = b]
        = [phases |-> s1.phases, next_phase |-> b, panicked |-> s1.panicked]
  BY <1>8
<1>10. ParseLine(st, line) = [phases |-> a, next_phase |-> b, panicked |-> FALSE]
  BY <1>5, <1>7, <1>8, <1>9 DEF Parsed
<1>11. QED
  BY <1>1, <1>3, <1>10 DEF After, x, a, b

\* The lines of a phase, whatever the order of its pages.
LEMMA ParseTraces ==
  ASSUME NEW lines \in Seq(Line), NEW T, NEW seq \in Seq(T), NEW x, IsPhase(x), NEW next,
         NEW R \in SUBSET Nat, NEW W \in SUBSET Nat,
         NEW n \in Nat, NEW order \in [1 .. n -> R \cup W],
         Parse(lines) = After(seq, With(x, {}, R, W), next)
  PROVE  LET tr == TraceLines(order, n, R, W)
         IN  /\ lines \o tr \in Seq(Line)
             /\ Parse(lines \o tr)
                  = After(seq, With(x, Listed(order, n), R, W), next)
<1> DEFINE tl(q) == TraceLine(q, R, W)
           tr == [i \in 1 .. n |-> tl(order[i])]
           all == lines \o tr
           m == Len(lines)
           Pre(k) == SubSeq(all, 1, m + k)
           D(k) == {order[i] : i \in 1 .. k}
           Good(k) == Parse(Pre(k)) = After(seq, With(x, D(k), R, W), next)
<1>0. m \in Nat
  OBVIOUS
<1>1. \A q \in R \cup W : tl(q) \in Line
  BY DEF Line, TraceLine
<1>2. tr \in Seq(Line) /\ Len(tr) = n /\ \A i \in 1 .. n : tr[i] = tl(order[i])
  <2> HIDE DEF tl
  <2>1. \A i \in 1 .. n : tl(order[i]) \in Line
    BY <1>1
  <2>2. tr \in [1 .. n -> Line]
    BY <2>1
  <2>3. QED
    BY <2>2
<1> HIDE DEF tr
<1>3. /\ all \in Seq(Line) /\ Len(all) = m + n /\ m \in Nat
      /\ \A i \in 1 .. m + n : all[i] = IF i <= m THEN lines[i] ELSE tr[i - m]
  <2>1. /\ all \in Seq(Line) /\ Len(all) = Len(lines) + Len(tr)
        /\ \A i \in 1 .. Len(lines) + Len(tr) :
              all[i] = IF i <= Len(lines) THEN lines[i] ELSE tr[i - Len(lines)]
    BY <1>2, ConcatProperties
  <2> HIDE DEF all, m
  <2>2. /\ Len(all) = m + n
        /\ \A i \in 1 .. m + n : all[i] = IF i <= m THEN lines[i] ELSE tr[i - m]
    BY <1>2, <2>1 DEF m
  <2>3. QED
    BY <1>0, <2>1, <2>2
<1> HIDE DEF all, tl, m
<1>4. ASSUME NEW k \in 0 .. n
      PROVE  /\ Pre(k) \in Seq(Line) /\ Len(Pre(k)) = m + k
             /\ \A i \in 1 .. m + k : Pre(k)[i] = all[i]
  <2>1. m + k \in Nat /\ m + k \in Int /\ 1 \in Int /\ m + k <= Len(all)
    BY <1>0, <1>3
  <2>2. \A i \in 1 .. m + k : all[i] \in Line
    BY <1>3, <2>1
  <2> DEFINE z == m + k
  <2> HIDE DEF z
  <2>3. /\ SubSeq(all, 1, z) \in Seq(Line)
        /\ Len(SubSeq(all, 1, z)) = IF 1 <= z THEN z - 1 + 1 ELSE 0
        /\ \A i \in 1 .. z - 1 + 1 : SubSeq(all, 1, z)[i] = all[1 + i - 1]
    BY <2>1, <2>2, SubSeqProperties DEF z
  <2>4. z \in Nat
    BY <2>1 DEF z
  <2>5. z - 1 + 1 = z /\ (~(1 <= z) => z = 0) /\ \A i \in 1 .. z : 1 + i - 1 = i
    BY <2>4
  <2>6. Len(SubSeq(all, 1, z)) = z
    BY <2>3, <2>5
  <2>7. \A i \in 1 .. z : SubSeq(all, 1, z)[i] = all[i]
    BY <2>3, <2>5
  <2>8. QED
    BY <2>3, <2>6, <2>7 DEF z
<1>5. Pre(0) = lines /\ Pre(n) = all
  <2>1. 0 \in 0 .. n /\ n \in 0 .. n
    OBVIOUS
  <2>2. Pre(0) = lines
    <3>1. /\ Pre(0) \in Seq(Line) /\ Len(Pre(0)) = Len(lines)
          /\ \A i \in 1 .. Len(lines) : Pre(0)[i] = lines[i]
      BY <1>3, <1>4, <2>1 DEF m
    <3> HIDE DEF Pre
    <3>2. QED
      BY <3>1, SeqEqual
  <2>3. Pre(n) = all
    BY <1>3, SubSeqFull
  <2>4. QED
    BY <2>2, <2>3
<1>6. ASSUME NEW k \in 1 .. n
      PROVE  Pre(k) = Append(Pre(k - 1), tl(order[k])) /\ Pre(k - 1) \in Seq(Line)
             /\ tl(order[k]) \in Line /\ order[k] \in R \cup W
  <2>1. k \in 0 .. n /\ k - 1 \in 0 .. n /\ k \in Nat
    OBVIOUS
  <2>2. /\ Pre(k) \in Seq(Line) /\ Len(Pre(k)) = m + k
        /\ \A i \in 1 .. m + k : Pre(k)[i] = all[i]
    BY <1>4, <2>1
  <2>3. /\ Pre(k - 1) \in Seq(Line) /\ Len(Pre(k - 1)) = m + k - 1
        /\ \A i \in 1 .. m + k - 1 : Pre(k - 1)[i] = all[i]
    BY <1>3, <1>4, <2>1
  <2>4. all[m + k] = tl(order[k]) /\ tl(order[k]) \in Line /\ order[k] \in R \cup W
    <3>1. m + k \in 1 .. m + n /\ ~(m + k <= m) /\ m + k - m = k
      BY <1>3, <2>1
    <3>2. all[m + k] = tr[k]
      BY <1>3, <3>1, SMTT(60)
    <3>3. QED
      BY <1>1, <1>2, <3>2
  <2> HIDE DEF Pre
  <2> DEFINE b == Append(Pre(k - 1), tl(order[k]))
  <2>5. /\ b \in Seq(Line) /\ Len(b) = m + k - 1 + 1
        /\ \A i \in 1 .. m + k - 1 : b[i] = Pre(k - 1)[i]
        /\ b[m + k - 1 + 1] = tl(order[k])
    BY <2>3, <2>4, AppendProperties
  <2> HIDE DEF b
  <2>6. ASSUME NEW i \in 1 .. m + k PROVE Pre(k)[i] = b[i]
    <3>1. CASE i = m + k
      <4>1. b[i] = tl(order[k])
        BY <1>3, <2>1, <2>5, <3>1
      <4>2. QED
        BY <2>2, <2>4, <3>1, <4>1
    <3>2. CASE i # m + k
      <4>1. i \in 1 .. m + k - 1
        BY <1>0, <2>1, <3>2
      <4>2. QED
        BY <2>2, <2>3, <2>5, <4>1
    <3>3. QED
      BY <3>1, <3>2
  <2>7. Pre(k) = b
    BY <1>3, <2>1, <2>2, <2>5, <2>6, SeqEqual
  <2>8. QED
    BY <2>3, <2>4, <2>7 DEF b
<1>7. ASSUME NEW k \in 1 .. n, Good(k - 1) PROVE Good(k)
  <2>1. Parse(Pre(k)) = ParseLine(Parse(Pre(k - 1)), tl(order[k]))
    <3> HIDE DEF Pre
    <3>1. QED
      BY <1>6, ParseAppend
  <2>2. D(k) = D(k - 1) \cup {order[k]}
    OBVIOUS
  <2>3. order[k] \in R \cup W
    BY <1>6
  <2> HIDE DEF Pre, D
  <2>4. ParseLine(After(seq, With(x, D(k - 1), R, W), next), tl(order[k]))
          = After(seq, With(x, D(k - 1) \cup {order[k]}, R, W), next)
    BY <2>3, ParseTraceLine DEF tl
  <2>5. QED
    BY <1>7, <2>1, <2>2, <2>4
<1>8. Good(0)
  <2>1. D(0) = {}
    OBVIOUS
  <2> HIDE DEF Pre, D
  <2>2. QED
    BY <1>5, <2>1
<1>9. Good(n)
  <2> HIDE DEF Good
  <2> DEFINE B == {k \in 0 .. n : ~Good(k)}
  <2>1. SUFFICES ASSUME B # {} PROVE FALSE
    OBVIOUS
  <2>2. B \subseteq Nat
    OBVIOUS
  <2>3. PICK k \in B : \A y \in B : k <= y
    <3> HIDE DEF B
    <3>1. QED
      BY <2>1, <2>2, LeastNumber
  <2>4. k # 0
    BY <1>8, <2>3
  <2>5. k \in 1 .. n /\ k - 1 \in 0 .. n /\ k - 1 \notin B
    BY <2>3, <2>4
  <2>6. QED
    BY <1>7, <2>3, <2>5
<1>10. QED
  <2> HIDE DEF Pre
  <2>1. QED
    BY <1>3, <1>5, <1>9 DEF all, tr, tl, TraceLines, Listed

\* SetToSeq enumerates a finite set.
LEMMA SetToSeqFacts ==
  ASSUME NEW S, IsFiniteSet(S)
  PROVE  LET f == SetToSeq(S)
             n == Cardinality(S)
         IN  n \in Nat /\ f \in [1 .. n -> S] /\ S = {f[i] : i \in 1 .. n}
<1> DEFINE f == SetToSeq(S)
           n == Cardinality(S)
<1>1. n \in Nat /\ ExistsBijection(1 .. n, S)
  BY FS_CardinalityType
<1>2. \E g \in [1 .. n -> S] : IsInjective(g)
  BY <1>1 DEF ExistsBijection, Bijection, Injection
<1>3. f \in [1 .. n -> S] /\ IsInjective(f)
  BY <1>2 DEF SetToSeq
<1> HIDE DEF f
<1>4. f \in Injection(1 .. n, S)
  BY <1>3 DEF Injection
<1>5. Cardinality(1 .. n) = n
  BY <1>1, FS_Interval
<1>6. f \in Surjection(1 .. n, S)
  BY <1>4, <1>5, FS_Injection
<1>7. QED
  BY <1>1, <1>3, <1>6 DEF f, Surjection

----------------------------------------------------------------------------
(* The end of a phase.                                                     *)

\* The next phase begins after all stamps.
LEMMA NewPhaseTraced ==
  ASSUME NEW st, WellFormed(st), NEW name \in Names
  PROVE  LET now == st.currTime + 1
             new == [st EXCEPT !.currTime = now, !.ioBytes = 0,
                               !.phaseTimes = Append(st.phaseTimes, now)]
         IN  /\ Tracing(new, NewPhase(name))
             /\ new.currTime = now /\ new.ioBytes = 0
             /\ Len(new.phaseTimes) = Len(st.phaseTimes) + 1
<1> DEFINE now == st.currTime + 1
           times == st.phaseTimes
           more == Append(times, now)
           map == st.pageLastAccesses
           n == Len(times)
           new == [st EXCEPT !.currTime = now, !.ioBytes = 0, !.phaseTimes = more]
<1>1. /\ st.currTime \in Nat /\ now \in Nat /\ st.currTime < now
      /\ times \in Seq(Nat) /\ times # <<>> /\ times[1] = 0 /\ n \in Nat /\ n > 0
  BY DEF WellFormed
<1>2. /\ map = [p \in DOMAIN map |-> map[p]]
      /\ DOMAIN map \subseteq Nat /\ IsFiniteSet(DOMAIN map)
      /\ \A p \in DOMAIN map : /\ map[p] \in [lastRead : Nat, lastWrite : Nat]
                               /\ map[p].lastRead < st.currTime
                               /\ map[p].lastWrite < st.currTime
  BY DEF WellFormed
<1>3. \A i \in 1 .. n : /\ times[i] \in Nat /\ times[i] =< st.currTime
                        /\ i > 1 => times[i - 1] < times[i]
  BY DEF WellFormed
<1>4. new = [currTime |-> now, ioBytes |-> 0, pageLastAccesses |-> map, phaseTimes |-> more]
  <2>1. st = [currTime |-> st.currTime, ioBytes |-> st.ioBytes,
              pageLastAccesses |-> st.pageLastAccesses, phaseTimes |-> st.phaseTimes]
    BY DEF WellFormed
  <2> DEFINE s1 == [st EXCEPT !.currTime = now]
             s2 == [s1 EXCEPT !.ioBytes = 0]
  <2> HIDE DEF now, more
  <2>2. s1 = [currTime |-> now, ioBytes |-> st.ioBytes,
              pageLastAccesses |-> st.pageLastAccesses, phaseTimes |-> st.phaseTimes]
    BY <2>1
  <2>3. new = [s2 EXCEPT !.phaseTimes = more]
    OBVIOUS
  <2> HIDE DEF s1, new
  <2>4. s2 = [currTime |-> now, ioBytes |-> 0,
              pageLastAccesses |-> st.pageLastAccesses, phaseTimes |-> st.phaseTimes]
    BY <2>2
  <2> HIDE DEF s2
  <2>5. QED
    BY <2>3, <2>4
<1> HIDE DEF new
<1>5. /\ new.currTime = now /\ new.ioBytes = 0 /\ new.pageLastAccesses = map
      /\ new.phaseTimes = more
  BY <1>4
<1>6. /\ more \in Seq(Nat) /\ more # <<>> /\ Len(more) = n + 1
      /\ \A i \in 1 .. n : more[i] = times[i]
      /\ more[n + 1] = now
  BY <1>1, AppendProperties, SMTT(60)
<1> HIDE DEF more, now, times, map, n
<1>7. \A i \in 1 .. Len(more) : more[i] =< now /\ (i > 1 => more[i - 1] < more[i])
  <2> SUFFICES ASSUME NEW i \in 1 .. Len(more)
               PROVE  more[i] =< now /\ (i > 1 => more[i - 1] < more[i])
    OBVIOUS
  <2>1. CASE i = n + 1
    <3>1. more[i] = now
      BY <1>6, <2>1
    <3>2. n \in 1 .. n /\ i - 1 = n
      BY <1>1, <2>1
    <3>3. more[i - 1] = times[n] /\ times[n] \in Nat /\ times[n] =< st.currTime
      BY <1>3, <1>6, <3>2
    <3>4. QED
      BY <1>1, <3>1, <3>3, SMTT(60)
  <2>2. CASE i # n + 1
    <3>1. i \in 1 .. n /\ (i > 1 => i - 1 \in 1 .. n)
      BY <1>1, <1>6, <2>2
    <3>2. more[i] = times[i] /\ (i > 1 => more[i - 1] = times[i - 1])
      BY <1>6, <3>1
    <3>3. QED
      BY <1>1, <1>3, <3>1, <3>2, SMTT(60)
  <2>3. QED
    BY <2>1, <2>2
<1>8. more[1] = 0
  BY <1>1, <1>6
<1>9. \A p \in DOMAIN map : map[p].lastRead < now /\ map[p].lastWrite < now
  BY <1>1, <1>2
<1>10. WellFormed(new)
  BY <1>1, <1>2, <1>4, <1>5, <1>6, <1>7, <1>8, <1>9 DEF WellFormed
<1>11. NewPhase(name) \in Phase /\ NewPhase(name).reads = {} /\ NewPhase(name).writes = {}
  BY DEF NewPhase, Phase
<1>12. Pages({} \cup {}) = {} /\ Pages({}) = {}
  BY DEF Pages
<1>13. Last(new.phaseTimes) = now
  BY <1>5, <1>6 DEF Last
<1>14. \A p \in DOMAIN map : ~(map[p].lastRead >= now) /\ ~(map[p].lastWrite >= now)
  BY <1>1, <1>2, <1>9
<1>15. Stamps(new, NewPhase(name))
  BY <1>5, <1>11, <1>12, <1>13, <1>14 DEF Stamps
<1>16. QED
  BY <1>5, <1>6, <1>10, <1>11, <1>15 DEF Tracing, new, more, now, times, n

Summarised(st, t, R, W, n, order) ==
    LET begin == Last(st.phaseTimes)
    IN  /\ summarizeLastAccesses(st, begin, st.currTime + 1) = TraceLines(order, n, R, W)
        /\ R \cup W = Listed(order, n)
        /\ R \cup W = Pages(t.reads \cup t.writes)
        /\ begin > 0 => R = Pages(t.reads) /\ W = Pages(t.writes)

\* The summary by time stamps has a line for each page the phase touched, and
\* says how, but for the first phase.
LEMMA Summary ==
  ASSUME NEW st, NEW t, Tracing(st, t)
  PROVE  \E R, W \in SUBSET Nat : \E n \in Nat : \E order \in [1 .. n -> R \cup W] :
            Summarised(st, t, R, W, n, order)
<1> DEFINE begin == Last(st.phaseTimes)
           end == st.currTime + 1
           map == st.pageLastAccesses
           R == {p \in DOMAIN map : Within(map[p].lastRead, begin, end)}
           W == {p \in DOMAIN map : Within(map[p].lastWrite, begin, end)}
           order == SetToSeq(R \cup W)
           n == Cardinality(R \cup W)
<1>1. WellFormed(st) /\ t \in Phase /\ Stamps(st, t)
  BY DEF Tracing
<1>2. /\ DOMAIN map \subseteq Nat /\ IsFiniteSet(DOMAIN map) /\ st.currTime \in Nat
      /\ \A p \in DOMAIN map : /\ map[p] \in [lastRead : Nat, lastWrite : Nat]
                               /\ map[p].lastRead < st.currTime
                               /\ map[p].lastWrite < st.currTime
  BY <1>1 DEF WellFormed
<1>3. begin \in Nat
  BY <1>1 DEF WellFormed, Last
<1>4. /\ Pages(t.reads \cup t.writes) \subseteq DOMAIN map
      /\ \A p \in DOMAIN map :
            /\ map[p].lastRead >= begin \/ map[p].lastWrite >= begin
                  <=> p \in Pages(t.reads \cup t.writes)
            /\ begin > 0 => /\ map[p].lastRead >= begin <=> p \in Pages(t.reads)
                            /\ map[p].lastWrite >= begin <=> p \in Pages(t.writes)
  BY <1>1 DEF Stamps
<1>5. Pages(t.reads \cup t.writes) = Pages(t.reads) \cup Pages(t.writes)
  BY PagesOfUnion
<1> HIDE DEF begin, map
<1>6. \A p \in DOMAIN map : /\ Within(map[p].lastRead, begin, end) <=> map[p].lastRead >= begin
                            /\ Within(map[p].lastWrite, begin, end) <=> map[p].lastWrite >= begin
  BY <1>2, <1>3 DEF Within
<1>7. R \cup W = Pages(t.reads \cup t.writes)
  BY <1>4, <1>6
<1>8. ASSUME begin > 0 PROVE R = Pages(t.reads) /\ W = Pages(t.writes)
  BY <1>4, <1>5, <1>6, <1>8
<1>9. summarizeLastAccesses(st, begin, end) = [i \in DOMAIN order |-> TraceLine(order[i], R, W)]
  BY DEF summarizeLastAccesses, map, TraceLine
<1>10. R \in SUBSET Nat /\ W \in SUBSET Nat /\ IsFiniteSet(R \cup W)
  <2>1. R \cup W \in SUBSET DOMAIN map
    OBVIOUS
  <2>2. IsFiniteSet(R \cup W)
    <3> HIDE DEF R, W
    <3>1. QED
      BY <1>2, <2>1, FS_Subset
  <2>3. QED
    BY <1>2, <2>2
<1> HIDE DEF R, W
<1>11. n \in Nat /\ order \in [1 .. n -> R \cup W] /\ R \cup W = {order[i] : i \in 1 .. n}
  BY <1>10, SetToSeqFacts
<1> HIDE DEF n, order
<1>12. summarizeLastAccesses(st, begin, end) = [i \in 1 .. n |-> TraceLine(order[i], R, W)]
  BY <1>9, <1>11
<1>13. Summarised(st, t, R, W, n, order)
  BY <1>7, <1>8, <1>11, <1>12 DEF begin, Summarised, TraceLines, Listed
<1>14. QED
  BY <1>10, <1>11, <1>13

\* When a phase ends, its lines are parsed to what it did.
LEMMA PhaseLogged ==
  ASSUME IInv, NEW name \in Names, EndPhase(name), truth' = Append(truth, NewPhase(name))
  PROVE  LogInv'
<1> DEFINE st == Parse(log)
           phases == st.phases
           t == Last(truth)
           k == Len(truth)
           begin == Last(accessState.phaseTimes)
           line == [kind |-> "phase", page_size |-> PageSize, start |-> begin, name |-> name,
                    insns |-> InstructionCounter, io |-> accessState.ioBytes]
           first == Append(log, line)
           x == TracePhase(st.next_phase, line)
<1>1. /\ truth \in Seq(Phase) /\ k \in Nat /\ k > 0 /\ t \in Phase
      /\ Len(accessState.phaseTimes) = k
      /\ WellFormed(accessState) /\ Tracing(accessState, t)
      /\ InstructionCounter = t.insns /\ accessState.ioBytes = t.io
  BY DEF IInv, Tracing
<1>2. /\ log \in Seq(Line) /\ phases \in Seq(Range(phases)) /\ Len(phases) = k - 1
      /\ \A i \in 1 .. Len(phases) : Recorded(phases[i], truth[i], i)
  BY DEF IInv, LogInv
<1>3. st = [phases |-> phases, next_phase |-> t.name, panicked |-> FALSE]
  BY DEF IInv, LogInv
<1>4. begin \in Nat /\ (k > 1 => begin > 0)
  <2>1. /\ accessState.phaseTimes \in Seq(Nat)
        /\ \A i \in 1 .. Len(accessState.phaseTimes) :
             i > 1 => accessState.phaseTimes[i - 1] < accessState.phaseTimes[i]
    BY <1>1 DEF WellFormed
  <2>2. begin = accessState.phaseTimes[k] /\ k \in 1 .. k /\ begin \in Nat
    BY <1>1, <2>1 DEF Last
  <2>3. ASSUME k > 1 PROVE begin > 0
    <3>1. accessState.phaseTimes[k - 1] \in Nat /\ accessState.phaseTimes[k - 1] < begin
      BY <1>1, <2>1, <2>2, <2>3
    <3>2. QED
      BY <2>2, <3>1
  <2>4. QED
    BY <2>2, <2>3
<1>5. line \in PhaseLine /\ line.name = name
  <2>1. PageSize \in Nat
    BY PageSizeRounded
  <2>2. InstructionCounter \in Nat /\ accessState.ioBytes \in Nat
    BY <1>1 DEF Phase
  <2> HIDE DEF begin
  <2>3. QED
    BY <1>4, <2>1, <2>2 DEF PhaseLine
<1>6. /\ x.name = st.next_phase /\ x.page_size = PageSize /\ x.instructions = InstructionCounter
      /\ x.io_bytes = accessState.ioBytes
  BY DEF TracePhase
<1>7. /\ log' = first \o summarizeLastAccesses(accessState, begin, accessState.currTime + 1)
  BY DEF EndPhase
<1> HIDE DEF st, t, begin, line
<1>8. line \in Line
  BY <1>5 DEF Line
<1>9. first \in Seq(Line) /\ Parse(first) = ParseLine(st, line)
  BY <1>2, <1>8, AppendProperties, ParseAppend DEF st
<1>10. PICK R \in SUBSET Nat, W \in SUBSET Nat :
         \E n \in Nat : \E order \in [1 .. n -> R \cup W] :
            Summarised(accessState, t, R, W, n, order)
  <2>1. Tracing(accessState, t)
    BY <1>1
  <2>2. QED
    BY <2>1, Summary
<1>0. PICK n \in Nat : \E order \in [1 .. n -> R \cup W] :
         Summarised(accessState, t, R, W, n, order)
  BY <1>10
<1>11. PICK order \in [1 .. n -> R \cup W] : Summarised(accessState, t, R, W, n, order)
  BY <1>0
<1>12. Parsed(st) /\ st.next_phase = t.name
  BY <1>3 DEF Parsed
<1>13. IsPhase(x) /\ ParseLine(st, line) = After(phases, With(x, {}, R, W), name)
  <2>1. Parsed(st) /\ line \in PhaseLine
    BY <1>5, <1>12
  <2>2. IsPhase(x) /\ ParseLine(st, line) = After(phases, With(x, {}, R, W), line.name)
    BY <2>1, ParsePhaseLine
  <2>3. QED
    BY <1>5, <2>2
<1> DEFINE y == With(x, R \cup W, R, W)
<1>14. log' \in Seq(Line) /\ Parse(log') = After(phases, y, name)
  <2> DEFINE tr == TraceLines(order, n, R, W)
  <2> HIDE DEF first, x, phases
  <2>1. Parse(first) = After(phases, With(x, {}, R, W), name)
    BY <1>9, <1>13
  <2>2. /\ first \o tr \in Seq(Line)
        /\ Parse(first \o tr) = After(phases, With(x, Listed(order, n), R, W), name)
    <3>1. /\ phases \in Seq(Range(phases)) /\ first \in Seq(Line) /\ IsPhase(x)
          /\ R \in SUBSET Nat /\ W \in SUBSET Nat
          /\ n \in Nat /\ order \in [1 .. n -> R \cup W]
      BY <1>2, <1>9, <1>13
    <3>2. QED
      BY <2>1, <3>1, ParseTraces, SMTT(60)
  <2>3. log' = first \o tr
    BY <1>7, <1>11 DEF Summarised, begin
  <2> HIDE DEF tr
  <2>4. QED
    BY <1>11, <2>2, <2>3 DEF Summarised
<1>15. Recorded(y, t, k)
  <2> HIDE DEF x
  <2>1. /\ y.name = x.name /\ y.page_size = x.page_size /\ y.instructions = x.instructions
        /\ y.io_bytes = x.io_bytes /\ y.accesses = [p \in R \cup W |-> Access(p, R, W)]
    BY <1>13 DEF With, IsPhase
  <2> HIDE DEF y
  <2>2. DOMAIN y.accesses = R \cup W
    BY <2>1
  <2>3. \A p \in R \cup W : /\ y.accesses[p].read <=> p \in R
                            /\ y.accesses[p].write <=> p \in W
    <3>1. \A p \in R \cup W : y.accesses[p] = Access(p, R, W)
      BY <2>1
    <3>2. \A p : (Access(p, R, W).read <=> p \in R) /\ (Access(p, R, W).write <=> p \in W)
      BY DEF Access
    <3>3. QED
      BY <3>1, <3>2, Zenon
  <2>4. ReadPages(y) = R /\ WrittenPages(y) = W
    BY <2>2, <2>3 DEF ReadPages, WrittenPages
  <2>5. QED
    BY <1>1, <1>4, <1>6, <1>11, <1>12, <2>1, <2>2, <2>4 DEF Recorded, Summarised, begin
<1> HIDE DEF y
<1>16. /\ truth' \in Seq(Phase) /\ Len(truth') = k + 1 /\ Last(truth').name = name
       /\ \A i \in 1 .. k : truth'[i] = truth[i]
  <2>1. NewPhase(name) \in Phase /\ NewPhase(name).name = name
    BY DEF NewPhase, Phase
  <2>2. /\ truth' \in Seq(Phase) /\ Len(truth') = k + 1
        /\ \A i \in 1 .. k : truth'[i] = truth[i]
        /\ truth'[k + 1] = NewPhase(name)
    BY <1>1, <2>1, AppendProperties
  <2>3. QED
    BY <2>1, <2>2 DEF Last
<1> DEFINE more == Append(phases, y)
           T == Range(phases) \cup {y}
<1>17. /\ more \in Seq(T) /\ Len(more) = k
       /\ \A i \in 1 .. k - 1 : more[i] = phases[i]
       /\ more[k] = y
  <2> HIDE DEF phases
  <2>1. phases \in Seq(T) /\ y \in T
    BY <1>2, SeqMonotonic
  <2>2. /\ more \in Seq(T) /\ Len(more) = Len(phases) + 1
        /\ \A i \in 1 .. Len(phases) : more[i] = phases[i]
        /\ more[Len(phases) + 1] = y
    BY <2>1, AppendProperties
  <2> HIDE DEF more, T
  <2>3. Len(phases) + 1 = k
    BY <1>1, <1>2
  <2>4. QED
    BY <1>2, <2>2, <2>3
<1>18. more \in Seq(Range(more))
  <2> HIDE DEF more, T
  <2>1. QED
    BY <1>17, SeqOfRange
<1>19. ASSUME NEW i \in 1 .. k PROVE Recorded(more[i], truth'[i], i)
  <2> HIDE DEF more, phases
  <2>1. CASE i = k
    BY <1>1, <1>15, <1>16, <1>17, <2>1 DEF t, Last
  <2>2. CASE i # k
    <3>1. i \in 1 .. k - 1
      BY <1>1, <2>2
    <3>2. QED
      BY <1>2, <1>16, <1>17, <3>1
  <2>3. QED
    BY <2>1, <2>2
<1>20. Parse(log') = [phases |-> more, next_phase |-> name, panicked |-> FALSE]
       /\ Parse(log').phases = more
  BY <1>14 DEF After
<1>21. LogInv' = LET ps == Parse(log').phases
                 IN  /\ log' \in Seq(Line)
                     /\ Parse(log') = [phases |-> ps, next_phase |-> Last(truth').name,
                                       panicked |-> FALSE]
                     /\ ps \in Seq(Range(ps)) /\ Len(ps) = Len(truth') - 1
                     /\ \A i \in 1 .. Len(ps) : Recorded(ps[i], truth'[i], i)
  BY DEF LogInv
<1>22. QED
  <2> HIDE DEF more
  <2>1. Len(more) = Len(truth') - 1
    BY <1>1, <1>16, <1>17
  <2>2. \A i \in 1 .. Len(more) : Recorded(more[i], truth'[i], i)
    BY <1>17, <1>19
  <2>3. QED
    BY <1>14, <1>16, <1>18, <1>20, <1>21, <2>1, <2>2

\* The phase change, whether the program goes on or exits.
LEMMA PhaseEnds ==
  ASSUME IInv, NEW name \in Names, EndPhase(name), truth' = Append(truth, NewPhase(name)),
         running' \in BOOLEAN,
         accessState.currTime + 1 =< MaxTime + (IF running' THEN 0 ELSE 1)
  PROVE  IInv'
<1> DEFINE t == NewPhase(name)
           k == Len(truth)
<1>1. /\ truth \in Seq(Phase) /\ truth # <<>> /\ k \in Nat
      /\ \A i \in 1 .. k : IsFiniteSet(truth[i].reads) /\ IsFiniteSet(truth[i].writes)
      /\ Len(accessState.phaseTimes) = k /\ WellFormed(accessState)
  BY DEF IInv, Tracing
<1>2. accessState' = [accessState EXCEPT !.currTime = accessState.currTime + 1, !.ioBytes = 0,
                        !.phaseTimes = Append(accessState.phaseTimes, accessState.currTime + 1)]
  BY DEF EndPhase
<1>3. /\ Tracing(accessState', t)
      /\ accessState'.currTime = accessState.currTime + 1 /\ accessState'.ioBytes = 0
      /\ Len(accessState'.phaseTimes) = k + 1
  BY <1>1, <1>2, NewPhaseTraced
<1>4. t \in Phase /\ t.reads = {} /\ t.writes = {} /\ t.insns = 0 /\ t.io = 0
  BY DEF NewPhase, Phase
<1> HIDE DEF t
<1>5. /\ truth' \in Seq(Phase) /\ truth' # <<>> /\ Len(truth') = k + 1
      /\ \A i \in 1 .. k : truth'[i] = truth[i]
      /\ truth'[k + 1] = t /\ Last(truth') = t
  <2>1. truth' = Append(truth, t)
    BY DEF t
  <2>2. QED
    BY <1>1, <1>4, <2>1, AppendProperties DEF Last
<1>6. ASSUME NEW i \in 1 .. Len(truth')
      PROVE  IsFiniteSet(truth'[i].reads) /\ IsFiniteSet(truth'[i].writes)
  <2>1. CASE i = k + 1
    BY <1>4, <1>5, <2>1, FS_EmptySet
  <2>2. CASE i # k + 1
    <3>1. i \in 1 .. k
      BY <1>1, <1>5, <2>2
    <3>2. QED
      BY <1>1, <1>5, <3>1
  <2>3. QED
    BY <2>1, <2>2
<1>7. LogInv'
  BY PhaseLogged
<1>8. InstructionCounter' = 0
  BY DEF EndPhase
<1>9. QED
  BY <1>3, <1>4, <1>5, <1>6, <1>7, <1>8 DEF IInv

\* A step in which the current phase does something.
LEMMA PhaseGoesOn ==
  ASSUME IInv, running = TRUE, running' = running, log' = log,
         NEW t \in Phase, truth' = [truth EXCEPT ![Len(truth)] = t],
         t.name = Last(truth).name, IsFiniteSet(t.reads), IsFiniteSet(t.writes),
         Tracing(accessState', t), accessState'.phaseTimes = accessState.phaseTimes,
         accessState'.currTime =< MaxTime,
         InstructionCounter' = t.insns, accessState'.ioBytes = t.io
  PROVE  IInv'
<1> DEFINE k == Len(truth)
<1>1. /\ truth \in Seq(Phase) /\ truth # <<>> /\ k \in Nat /\ k \in 1 .. k
      /\ \A i \in 1 .. k : IsFiniteSet(truth[i].reads) /\ IsFiniteSet(truth[i].writes)
      /\ Len(accessState.phaseTimes) = k /\ LogInv
  BY DEF IInv
<1>2. /\ truth' \in Seq(Phase) /\ Len(truth') = k
      /\ \A i \in 1 .. k : truth'[i] = IF i = k THEN t ELSE truth[i]
  BY <1>1, ExceptSeq
<1>3. truth' # <<>> /\ Last(truth') = t
  BY <1>1, <1>2 DEF Last
<1>4. \A i \in 1 .. k : IsFiniteSet(truth'[i].reads) /\ IsFiniteSet(truth'[i].writes)
  BY <1>1, <1>2
<1> DEFINE phases == Parse(log).phases
<1>5. /\ log \in Seq(Line)
      /\ Parse(log) = [phases |-> phases, next_phase |-> Last(truth).name, panicked |-> FALSE]
      /\ phases \in Seq(Range(phases)) /\ Len(phases) = k - 1
      /\ \A i \in 1 .. Len(phases) : Recorded(phases[i], truth[i], i)
  BY <1>1 DEF LogInv
<1> HIDE DEF phases
<1>6. \A i \in 1 .. Len(phases) : Recorded(phases[i], truth'[i], i)
  <2> SUFFICES ASSUME NEW i \in 1 .. Len(phases)
               PROVE  Recorded(phases[i], truth'[i], i)
    OBVIOUS
  <2>1. i \in 1 .. k /\ i # k
    BY <1>1, <1>5
  <2>2. truth'[i] = truth[i]
    BY <1>2, <2>1
  <2>3. QED
    BY <1>5, <2>2
<1>7. LogInv'
  <2>1. LogInv' = LET ps == Parse(log').phases
                  IN  /\ log' \in Seq(Line)
                      /\ Parse(log') = [phases |-> ps, next_phase |-> Last(truth').name,
                                        panicked |-> FALSE]
                      /\ ps \in Seq(Range(ps)) /\ Len(ps) = Len(truth') - 1
                      /\ \A i \in 1 .. Len(ps) : Recorded(ps[i], truth'[i], i)
    BY DEF LogInv
  <2>2. Last(truth').name = Last(truth).name
    BY <1>3
  <2>3. Parse(log').phases = phases /\ Parse(log') = Parse(log)
    BY DEF phases
  <2>4. QED
    BY <1>2, <1>5, <1>6, <2>1, <2>2, <2>3
<1>8. running' \in BOOLEAN /\ accessState'.currTime =< MaxTime + (IF running' THEN 0 ELSE 1)
  <2>1. MaxTime \in Nat
    BY NearMAPAssumption
  <2>2. QED
    BY <2>1
<1>9. QED
  BY <1>1, <1>2, <1>3, <1>4, <1>7, <1>8 DEF IInv

----------------------------------------------------------------------------
(* The invariant holds.                                                    *)

\* The first phase has begun, and nothing is known of it.
LEMMA InitIInv == Init => IInv
<1> SUFFICES ASSUME Init PROVE IInv
  OBVIOUS
<1> DEFINE t == NewPhase("pre-main")
<1>1. /\ accessState.currTime = 0 /\ accessState.ioBytes = 0
      /\ accessState.pageLastAccesses = <<>> /\ accessState.phaseTimes = <<0>>
      /\ accessState = [currTime |-> 0, ioBytes |-> 0, pageLastAccesses |-> <<>>,
                        phaseTimes |-> <<0>>]
      /\ InstructionCounter = 0 /\ log = <<>> /\ running = TRUE /\ truth = <<t>>
  BY DEF Init
<1>2. /\ t \in Phase /\ t.reads = {} /\ t.writes = {} /\ t.insns = 0 /\ t.io = 0
      /\ t.name = "pre-main"
  BY DEF NewPhase, Phase, Names
<1> HIDE DEF t
<1>3. DOMAIN <<>> = {} /\ <<>> = [p \in DOMAIN <<>> |-> <<>>[p]] /\ IsFiniteSet({})
  BY FS_EmptySet
<1>4. <<0>> \in Seq(Nat) /\ <<0>> # <<>> /\ Len(<<0>>) = 1 /\ <<0>>[1] = 0 /\ Last(<<0>>) = 0
  BY DEF Last
<1>5. WellFormed(accessState)
  BY <1>1, <1>3, <1>4 DEF WellFormed
<1>6. Stamps(accessState, t)
  <2>1. Pages(t.reads \cup t.writes) = {}
    BY <1>2 DEF Pages
  <2>2. QED
    BY <1>1, <1>3, <2>1 DEF Stamps
<1>7. /\ truth \in Seq(Phase) /\ truth # <<>> /\ Len(truth) = 1 /\ Last(truth) = t /\ truth[1] = t
  BY <1>1, <1>2 DEF Last
<1>8. Parse(log) = Start
  BY <1>1, ParseEmpty
<1>9. LogInv
  <2>1. Parse(log).phases = <<>>
    BY <1>8 DEF Start
  <2>2. Parse(log) = [phases |-> <<>>, next_phase |-> t.name, panicked |-> FALSE]
    BY <1>2, <1>8 DEF Start
  <2>3. log \in Seq(Line) /\ <<>> \in Seq(Range(<<>>)) /\ Len(<<>>) = 0
    BY <1>1
  <2>4. QED
    BY <1>7, <2>1, <2>2, <2>3 DEF LogInv
<1>10. 0 =< MaxTime + (IF running THEN 0 ELSE 1)
  BY <1>1, NearMAPAssumption
<1>11. \A i \in 1 .. Len(truth) : IsFiniteSet(truth[i].reads) /\ IsFiniteSet(truth[i].writes)
  <2>1. \A i \in 1 .. Len(truth) : i = 1
    BY <1>7
  <2>2. QED
    BY <1>2, <1>3, <1>7, <2>1
<1>12. Len(accessState.phaseTimes) = Len(truth)
  BY <1>1, <1>4, <1>7
<1>13. QED
  BY <1>1, <1>2, <1>5, <1>6, <1>7, <1>9, <1>10, <1>11, <1>12 DEF IInv, Tracing

\* What an action that belongs to the current phase may rely on.
LEMMA Current ==
  ASSUME IInv
  PROVE  LET t == Last(truth)
         IN  /\ Tracing(accessState, t) /\ WellFormed(accessState) /\ t \in Phase
             /\ IsFiniteSet(t.reads) /\ IsFiniteSet(t.writes)
             /\ truth[Len(truth)] = t
             /\ t = [name |-> t.name, reads |-> t.reads, writes |-> t.writes,
                     insns |-> t.insns, io |-> t.io]
             /\ InstructionCounter = t.insns /\ accessState.ioBytes = t.io
             /\ accessState.currTime \in Nat /\ InstructionCounter \in Nat
             /\ accessState.ioBytes \in Nat
<1> DEFINE t == Last(truth)
<1>1. Tracing(accessState, t) /\ InstructionCounter = t.insns /\ accessState.ioBytes = t.io
  BY DEF IInv
<1>2. t \in Phase /\ WellFormed(accessState)
  BY <1>1 DEF Tracing
<1>3. /\ truth \in Seq(Phase) /\ truth # <<>> /\ Len(truth) \in 1 .. Len(truth)
      /\ \A i \in 1 .. Len(truth) : IsFiniteSet(truth[i].reads) /\ IsFiniteSet(truth[i].writes)
  BY DEF IInv
<1>4. truth[Len(truth)] = t
  BY DEF Last
<1>5. IsFiniteSet(t.reads) /\ IsFiniteSet(t.writes)
  BY <1>3, <1>4
<1> HIDE DEF t
<1>6. /\ t = [name |-> t.name, reads |-> t.reads, writes |-> t.writes,
              insns |-> t.insns, io |-> t.io]
      /\ t.insns \in Nat /\ t.io \in Nat
  BY <1>2 DEF Phase
<1>7. accessState.currTime \in Nat
  BY <1>2 DEF WellFormed
<1>8. QED
  BY <1>1, <1>2, <1>4, <1>5, <1>6, <1>7 DEF t

LEMMA ReadStep ==
  ASSUME IInv, NEW op \in Operands, ReadInstruction(op)
  PROVE  IInv'
<1> DEFINE t == Last(truth)
           u == [t EXCEPT !.reads = @ \cup Bytes(op)]
<1>1. /\ Tracing(accessState, t) /\ WellFormed(accessState) /\ t \in Phase
      /\ IsFiniteSet(t.reads) /\ IsFiniteSet(t.writes) /\ truth[Len(truth)] = t
      /\ InstructionCounter = t.insns /\ accessState.ioBytes = t.io
      /\ accessState.currTime \in Nat
  BY Current
<1>2. IsFiniteSet(Bytes(op)) /\ Bytes(op) \in SUBSET Nat
  BY PagesOfOperand
<1>3. /\ running = TRUE /\ running' = running /\ log' = log
      /\ accessState.currTime + 1 =< MaxTime
      /\ accessState' = OnRead(accessState, op) /\ InstructionCounter' = InstructionCounter
  BY DEF ReadInstruction, Ticks, IInv
<1>4. truth' = [truth EXCEPT ![Len(truth)] = u]
  <2>1. truth' = [truth EXCEPT ![Len(truth)] =
                    [truth[Len(truth)] EXCEPT !["reads"] = truth[Len(truth)].reads \cup Bytes(op)]]
    BY DEF ReadInstruction, Observed
  <2> HIDE DEF t
  <2>2. [t EXCEPT !["reads"] = @ \cup Bytes(op)] = u
    BY <1>1 DEF Phase
  <2> HIDE DEF u
  <2>3. QED
    BY <1>1, <2>1, <2>2
<1>5. Tracing(accessState', u)
  BY <1>1, <1>3, ReadTraced
<1>6. /\ accessState'.currTime = accessState.currTime + 1
      /\ accessState'.ioBytes = accessState.ioBytes
      /\ accessState'.phaseTimes = accessState.phaseTimes
  <2>1. accessState' = [currTime |-> accessState.currTime + 1, ioBytes |-> accessState.ioBytes,
                        pageLastAccesses |-> accessState'.pageLastAccesses,
                        phaseTimes |-> accessState.phaseTimes]
    BY <1>1, <1>3, OnReadFacts
  <2>2. QED
    BY <2>1
<1>7. /\ u \in Phase /\ u.name = t.name /\ u.insns = t.insns /\ u.io = t.io
      /\ u.reads = t.reads \cup Bytes(op) /\ u.writes = t.writes
  BY <1>1, <1>2 DEF Phase
<1>8. IsFiniteSet(t.reads \cup Bytes(op))
  BY <1>1, <1>2, FS_Union
<1> HIDE DEF t, u
<1>9. QED
  BY <1>1, <1>3, <1>4, <1>5, <1>6, <1>7, <1>8, PhaseGoesOn DEF t

LEMMA WriteStep ==
  ASSUME IInv, NEW op \in Operands, WriteInstruction(op)
  PROVE  IInv'
<1> DEFINE t == Last(truth)
           u == [t EXCEPT !.writes = @ \cup Bytes(op)]
<1>1. /\ Tracing(accessState, t) /\ WellFormed(accessState) /\ t \in Phase
      /\ IsFiniteSet(t.reads) /\ IsFiniteSet(t.writes) /\ truth[Len(truth)] = t
      /\ InstructionCounter = t.insns /\ accessState.ioBytes = t.io
      /\ accessState.currTime \in Nat
  BY Current
<1>2. IsFiniteSet(Bytes(op)) /\ Bytes(op) \in SUBSET Nat
  BY PagesOfOperand
<1>3. /\ running = TRUE /\ running' = running /\ log' = log
      /\ accessState.currTime + 1 =< MaxTime
      /\ accessState' = OnWrite(accessState, op) /\ InstructionCounter' = InstructionCounter
  BY DEF WriteInstruction, Ticks, IInv
<1>4. truth' = [truth EXCEPT ![Len(truth)] = u]
  <2>1. truth' = [truth EXCEPT ![Len(truth)] =
                    [truth[Len(truth)] EXCEPT !["writes"] = truth[Len(truth)].writes \cup Bytes(op)]]
    BY DEF WriteInstruction, Observed
  <2> HIDE DEF t
  <2>2. [t EXCEPT !["writes"] = @ \cup Bytes(op)] = u
    BY <1>1 DEF Phase
  <2> HIDE DEF u
  <2>3. QED
    BY <1>1, <2>1, <2>2
<1>5. Tracing(accessState', u)
  BY <1>1, <1>3, WriteTraced
<1>6. /\ accessState'.currTime = accessState.currTime + 1
      /\ accessState'.ioBytes = accessState.ioBytes
      /\ accessState'.phaseTimes = accessState.phaseTimes
  <2>1. accessState' = [currTime |-> accessState.currTime + 1, ioBytes |-> accessState.ioBytes,
                        pageLastAccesses |-> accessState'.pageLastAccesses,
                        phaseTimes |-> accessState.phaseTimes]
    BY <1>1, <1>3, OnWriteFacts
  <2>2. QED
    BY <2>1
<1>7. /\ u \in Phase /\ u.name = t.name /\ u.insns = t.insns /\ u.io = t.io
      /\ u.writes = t.writes \cup Bytes(op) /\ u.reads = t.reads
  BY <1>1, <1>2 DEF Phase
<1>8. IsFiniteSet(t.writes \cup Bytes(op))
  BY <1>1, <1>2, FS_Union
<1> HIDE DEF t, u
<1>9. QED
  BY <1>1, <1>3, <1>4, <1>5, <1>6, <1>7, <1>8, PhaseGoesOn DEF t

LEMMA ReadWriteStep ==
  ASSUME IInv, NEW rd \in Operands, NEW wr \in Operands, ReadWriteInstruction(rd, wr)
  PROVE  IInv'
<1> DEFINE t == Last(truth)
           u == [t EXCEPT !.reads = @ \cup Bytes(rd)]
           v == [u EXCEPT !.writes = @ \cup Bytes(wr)]
           mid == OnRead(accessState, rd)
<1>1. /\ Tracing(accessState, t) /\ WellFormed(accessState) /\ t \in Phase
      /\ IsFiniteSet(t.reads) /\ IsFiniteSet(t.writes) /\ truth[Len(truth)] = t
      /\ InstructionCounter = t.insns /\ accessState.ioBytes = t.io
      /\ accessState.currTime \in Nat
  BY Current
<1>2. /\ IsFiniteSet(Bytes(rd)) /\ Bytes(rd) \in SUBSET Nat
      /\ IsFiniteSet(Bytes(wr)) /\ Bytes(wr) \in SUBSET Nat
  BY PagesOfOperand
<1>3. /\ running = TRUE /\ running' = running /\ log' = log
      /\ accessState.currTime + 2 =< MaxTime
      /\ accessState' = OnWrite(mid, wr) /\ InstructionCounter' = InstructionCounter
  BY DEF ReadWriteInstruction, Ticks, IInv
<1>4. /\ u \in Phase /\ u.name = t.name /\ u.insns = t.insns /\ u.io = t.io
      /\ u.reads = t.reads \cup Bytes(rd) /\ u.writes = t.writes
  BY <1>1, <1>2 DEF Phase
<1>5. Tracing(mid, u)
  BY <1>1, ReadTraced
<1>6. mid = [currTime |-> accessState.currTime + 1, ioBytes |-> accessState.ioBytes,
             pageLastAccesses |-> mid.pageLastAccesses, phaseTimes |-> accessState.phaseTimes]
  BY <1>1, OnReadFacts
<1>7. v = [t EXCEPT !.reads = t.reads \cup Bytes(rd), !.writes = t.writes \cup Bytes(wr)]
  <2> HIDE DEF t
  <2>1. QED
    BY <1>4
<1>8. truth' = [truth EXCEPT ![Len(truth)] = v]
  <2>1. truth' = [truth EXCEPT ![Len(truth)] =
                    [truth[Len(truth)] EXCEPT !.reads = truth[Len(truth)].reads \cup Bytes(rd),
                                              !.writes = truth[Len(truth)].writes \cup Bytes(wr)]]
    BY <1>1 DEF ReadWriteInstruction, IInv
  <2> HIDE DEF t, v
  <2>2. QED
    BY <1>1, <1>7, <2>1
<1> HIDE DEF u, mid
<1>9. /\ v \in Phase /\ v.name = t.name /\ v.insns = t.insns /\ v.io = t.io
      /\ v.reads = t.reads \cup Bytes(rd) /\ v.writes = t.writes \cup Bytes(wr)
  BY <1>2, <1>4 DEF Phase
<1>10. Tracing(accessState', v)
  BY <1>3, <1>5, WriteTraced
<1>11. /\ accessState'.currTime = accessState.currTime + 2
       /\ accessState'.ioBytes = accessState.ioBytes
       /\ accessState'.phaseTimes = accessState.phaseTimes
  <2>1. /\ mid.currTime = accessState.currTime + 1 /\ mid.ioBytes = accessState.ioBytes
        /\ mid.phaseTimes = accessState.phaseTimes /\ WellFormed(mid)
    BY <1>5, <1>6 DEF Tracing
  <2>2. accessState' = [currTime |-> mid.currTime + 1, ioBytes |-> mid.ioBytes,
                        pageLastAccesses |-> accessState'.pageLastAccesses,
                        phaseTimes |-> mid.phaseTimes]
    BY <1>3, <2>1, OnWriteFacts
  <2>3. accessState.currTime + 1 + 1 = accessState.currTime + 2
    BY <1>1
  <2>4. QED
    BY <2>1, <2>2, <2>3
<1>12. IsFiniteSet(t.reads \cup Bytes(rd)) /\ IsFiniteSet(t.writes \cup Bytes(wr))
  BY <1>1, <1>2, FS_Union
<1> HIDE DEF t, v
<1>13. QED
  BY <1>1, <1>3, <1>8, <1>9, <1>10, <1>11, <1>12, PhaseGoesOn DEF t

LEMMA CountStep ==
  ASSUME IInv, NEW n \in BlockSizes, CountBbl(n)
  PROVE  IInv'
<1> DEFINE t == Last(truth)
           u == [t EXCEPT !.insns = t.insns + n]
<1>1. /\ Tracing(accessState, t) /\ WellFormed(accessState) /\ t \in Phase
      /\ IsFiniteSet(t.reads) /\ IsFiniteSet(t.writes) /\ truth[Len(truth)] = t
      /\ InstructionCounter = t.insns /\ accessState.ioBytes = t.io
      /\ InstructionCounter \in Nat
  BY Current
<1>2. n \in Nat /\ MaxTime \in Nat
  BY NearMAPAssumption
<1>3. /\ running = TRUE /\ running' = running /\ log' = log /\ accessState' = accessState
      /\ InstructionCounter' = InstructionCounter + n
  BY DEF CountBbl, IInv
<1>4. truth' = [truth EXCEPT ![Len(truth)] = u]
  <2>1. truth' = [truth EXCEPT ![Len(truth)] =
                    [truth[Len(truth)] EXCEPT !["insns"] = truth[Len(truth)].insns + n]]
    BY DEF CountBbl, Counted
  <2> HIDE DEF t
  <2>2. [t EXCEPT !["insns"] = t.insns + n] = u
    BY <1>1 DEF Phase
  <2> HIDE DEF u
  <2>3. QED
    BY <1>1, <2>1, <2>2
<1>5. /\ u \in Phase /\ u.name = t.name /\ u.insns = t.insns + n /\ u.io = t.io
      /\ u.reads = t.reads /\ u.writes = t.writes
  BY <1>1, <1>2, SMTT(60) DEF Phase
<1>6. accessState.currTime =< MaxTime
  <2>1. accessState.currTime =< MaxTime + 0
    BY <1>3 DEF IInv
  <2>2. QED
    BY <1>2, <2>1
<1> HIDE DEF t, u
<1>7. Tracing(accessState', u)
  BY <1>1, <1>3, <1>5 DEF Tracing, Stamps
<1>8. QED
  BY <1>1, <1>3, <1>4, <1>5, <1>6, <1>7, PhaseGoesOn DEF t

LEMMA IoStep ==
  ASSUME IInv, NEW n \in IoSizes, IoStubReplacement(n)
  PROVE  IInv'
<1> DEFINE t == Last(truth)
           u == [t EXCEPT !.io = t.io + n]
           st == accessState
           new == [st EXCEPT !.currTime = st.currTime + 1, !.ioBytes = st.ioBytes + n]
<1>1. /\ Tracing(accessState, t) /\ WellFormed(accessState) /\ t \in Phase
      /\ IsFiniteSet(t.reads) /\ IsFiniteSet(t.writes) /\ truth[Len(truth)] = t
      /\ InstructionCounter = t.insns /\ accessState.ioBytes = t.io
      /\ accessState.ioBytes \in Nat /\ accessState.currTime \in Nat
  BY Current
<1>2. n \in Nat /\ MaxTime \in Nat
  BY NearMAPAssumption
<1>3. /\ running = TRUE /\ running' = running /\ log' = log /\ accessState' = new
      /\ InstructionCounter' = InstructionCounter /\ accessState.currTime + 1 =< MaxTime
  BY DEF IoStubReplacement, Ticks, IInv
<1>4. truth' = [truth EXCEPT ![Len(truth)] = u]
  <2>1. truth' = [truth EXCEPT ![Len(truth)] =
                    [truth[Len(truth)] EXCEPT !["io"] = truth[Len(truth)].io + n]]
    BY DEF IoStubReplacement, Counted
  <2> HIDE DEF t
  <2>2. [t EXCEPT !["io"] = t.io + n] = u
    BY <1>1 DEF Phase
  <2> HIDE DEF u
  <2>3. QED
    BY <1>1, <2>1, <2>2
<1>5. /\ u \in Phase /\ u.name = t.name /\ u.insns = t.insns /\ u.io = t.io + n
      /\ u.reads = t.reads /\ u.writes = t.writes
  BY <1>1, <1>2, SMTT(60) DEF Phase
<1> HIDE DEF t, u
<1>6. new = [currTime |-> st.currTime + 1, ioBytes |-> st.ioBytes + n,
             pageLastAccesses |-> st.pageLastAccesses, phaseTimes |-> st.phaseTimes]
  <2> DEFINE a == st.currTime + 1
             b == st.ioBytes + n
             s1 == [st EXCEPT !.currTime = a]
  <2>1. st = [currTime |-> st.currTime, ioBytes |-> st.ioBytes,
              pageLastAccesses |-> st.pageLastAccesses, phaseTimes |-> st.phaseTimes]
    BY <1>1 DEF WellFormed
  <2> HIDE DEF a, b
  <2>2. s1 = [currTime |-> a, ioBytes |-> st.ioBytes,
              pageLastAccesses |-> st.pageLastAccesses, phaseTimes |-> st.phaseTimes]
    BY <2>1
  <2>3. new = [s1 EXCEPT !.ioBytes = b]
    BY DEF a, b
  <2> HIDE DEF s1, new
  <2>4. QED
    BY <2>2, <2>3 DEF a, b
<1> HIDE DEF new
<1>7. /\ new.currTime = st.currTime + 1 /\ new.ioBytes = st.ioBytes + n
      /\ new.pageLastAccesses = st.pageLastAccesses /\ new.phaseTimes = st.phaseTimes
  BY <1>6
<1>8. WellFormed(new)
  <2>1. st.currTime + 1 \in Nat /\ st.ioBytes + n \in Nat
    BY <1>1, <1>2
  <2>2. LET map == st.pageLastAccesses
        IN  /\ map = [p \in DOMAIN map |-> map[p]]
            /\ DOMAIN map \subseteq Nat /\ IsFiniteSet(DOMAIN map)
            /\ st.phaseTimes \in Seq(Nat) /\ st.phaseTimes # <<>>
            /\ st.phaseTimes[1] = 0
    BY <1>1 DEF WellFormed
  <2>3. LET map == st.pageLastAccesses
        IN  \A p \in DOMAIN map : /\ map[p] \in [lastRead : Nat, lastWrite : Nat]
                                  /\ map[p].lastRead < st.currTime + 1
                                  /\ map[p].lastWrite < st.currTime + 1
    BY <1>1 DEF WellFormed
  <2>4. \A i \in 1 .. Len(st.phaseTimes) :
              /\ st.phaseTimes[i] =< st.currTime + 1
              /\ i > 1 => st.phaseTimes[i - 1] < st.phaseTimes[i]
    BY <1>1 DEF WellFormed
  <2>5. QED
    BY <1>6, <1>7, <2>1, <2>2, <2>3, <2>4 DEF WellFormed
<1>9. Tracing(new, u)
  BY <1>1, <1>5, <1>7, <1>8 DEF Tracing, Stamps
<1>10. QED
  BY <1>1, <1>3, <1>4, <1>5, <1>7, <1>9, PhaseGoesOn DEF t

\* IInv is inductive.
LEMMA NextIInv == IInv /\ [Next]_vars => IInv'
<1> SUFFICES ASSUME IInv, [Next]_vars PROVE IInv'
  OBVIOUS
<1>1. ASSUME NEW op \in Operands, ReadInstruction(op) PROVE IInv'
  BY <1>1, ReadStep
<1>2. ASSUME NEW op \in Operands, WriteInstruction(op) PROVE IInv'
  BY <1>2, WriteStep
<1>3. ASSUME NEW rd \in Operands, NEW wr \in Operands, ReadWriteInstruction(rd, wr)
      PROVE  IInv'
  BY <1>3, ReadWriteStep
<1>4. ASSUME NEW n \in BlockSizes, CountBbl(n) PROVE IInv'
  BY <1>4, CountStep
<1>5. ASSUME NEW n \in IoSizes, IoStubReplacement(n) PROVE IInv'
  BY <1>5, IoStep
<1>6. ASSUME NEW name \in PhaseNames, PhaseStubReplacement(name) PROVE IInv'
  <2>1. /\ EndPhase(name) /\ truth' = Append(truth, NewPhase(name))
        /\ running' = TRUE /\ accessState.currTime + 1 =< MaxTime
    BY <1>6 DEF PhaseStubReplacement, Ticks, IInv
  <2>2. name \in Names
    BY DEF Names
  <2>3. accessState.currTime + 1 =< MaxTime + (IF running' THEN 0 ELSE 1)
    BY <2>1, NearMAPAssumption
  <2>4. QED
    BY <2>1, <2>2, <2>3, PhaseEnds
<1>7. CASE Fini
  <2>1. /\ EndPhase("program-finish") /\ truth' = Append(truth, NewPhase("program-finish"))
        /\ running' = FALSE /\ running = TRUE
    BY <1>7 DEF Fini, IInv
  <2>2. "program-finish" \in Names
    BY DEF Names
  <2>3. accessState.currTime + 1 =< MaxTime + (IF running' THEN 0 ELSE 1)
    <3>1. accessState.currTime \in Nat /\ MaxTime \in Nat
      BY Current, NearMAPAssumption
    <3>2. accessState.currTime =< MaxTime + 0
      BY <2>1 DEF IInv
    <3>3. QED
      BY <2>1, <3>1, <3>2
  <2>4. QED
    BY <2>1, <2>2, <2>3, PhaseEnds
<1>8. CASE UNCHANGED vars
  <2>1. /\ accessState' = accessState /\ InstructionCounter' = InstructionCounter
        /\ log' = log /\ running' = running /\ truth' = truth
    BY <1>8 DEF vars
  <2>2. LogInv'
    BY <2>1 DEF IInv, LogInv
  <2>3. QED
    BY <2>1, <2>2 DEF IInv
<1>9. QED
  BY <1>1, <1>2, <1>3, <1>4, <1>5, <1>6, <1>7, <1>8 DEF Next

LEMMA SpecIInv == Spec => []IInv
  BY InitIInv, NextIInv, PTL DEF Spec

\* accessState is a well-formed AccessState in every state: the clock is ahead of
\* the stamps that OnRead and OnWrite leave (NearMAP.cpp:93-111), and the phases
\* begin one after the other (:113-127).
THEOREM NearMAPTypeCorrect == Spec => []TypeOK
<1>1. ASSUME IInv PROVE TypeOK
  <2> DEFINE map == accessState.pageLastAccesses
             times == accessState.phaseTimes
  <2>1. /\ InstructionCounter \in Nat /\ accessState.ioBytes \in Nat
        /\ accessState.currTime \in Nat /\ WellFormed(accessState)
    BY <1>1, Current
  <2>2. running \in BOOLEAN
    BY <1>1 DEF IInv
  <2>3. accessState.currTime \in 0 .. MaxTime + 1
    <3>1. MaxTime \in Nat
      BY NearMAPAssumption
    <3>2. accessState.currTime =< MaxTime + (IF running THEN 0 ELSE 1)
      BY <1>1 DEF IInv
    <3>3. QED
      BY <2>1, <2>2, <3>1, <3>2
  <2>4. ASSUME NEW p \in DOMAIN map
        PROVE  {map[p].lastRead, map[p].lastWrite} \subseteq 0 .. accessState.currTime - 1
    <3>1. /\ map[p] \in [lastRead : Nat, lastWrite : Nat]
          /\ map[p].lastRead < accessState.currTime /\ map[p].lastWrite < accessState.currTime
      BY <2>1 DEF WellFormed
    <3> HIDE DEF map
    <3>2. QED
      BY <2>1, <3>1
  <2>5. ASSUME NEW i \in DOMAIN times
        PROVE  /\ times[i] \in 0 .. accessState.currTime
               /\ i > 1 => times[i - 1] < times[i]
    <3>1. /\ times \in Seq(Nat)
          /\ \A j \in 1 .. Len(times) : /\ times[j] =< accessState.currTime
                                        /\ j > 1 => times[j - 1] < times[j]
      BY <2>1 DEF WellFormed
    <3> HIDE DEF times
    <3>2. i \in 1 .. Len(times) /\ times[i] \in Nat
      BY <3>1
    <3>3. QED
      BY <2>1, <3>1, <3>2
  <2>6. QED
    BY <2>1, <2>2, <2>3, <2>4, <2>5 DEF TypeOK
<1>2. QED
  BY <1>1, SpecIInv, PTL

\* The phases of the log, as the properties use them.
LEMMA LoggedPhases ==
  ASSUME IInv
  PROVE  LET phases == Parse(log).phases
         IN  /\ ~Parse(log).panicked
             /\ Len(phases) \in Nat /\ Len(phases) = Len(truth) - 1
             /\ DOMAIN phases = 1 .. Len(phases)
             /\ \A i \in 1 .. Len(phases) : Recorded(phases[i], truth[i], i)
<1> DEFINE phases == Parse(log).phases
<1>1. /\ Parse(log) = [phases |-> phases, next_phase |-> Last(truth).name, panicked |-> FALSE]
      /\ phases \in Seq(Range(phases)) /\ Len(phases) = Len(truth) - 1
      /\ \A i \in 1 .. Len(phases) : Recorded(phases[i], truth[i], i)
  BY DEF IInv, LogInv
<1>2. Parse(log).panicked = FALSE
  BY <1>1
<1> HIDE DEF phases
<1>3. Len(phases) \in Nat /\ DOMAIN phases = 1 .. Len(phases)
  BY <1>1
<1>4. QED
  BY <1>1, <1>2, <1>3 DEF phases

\* The log always says what the phases that have ended did, whatever the pages,
\* the operands and the page size: the summary by time stamps (NearMAP.cpp:51-88),
\* the resets (:113-127) and the names shifted by a row (main.rs:94-96) lose
\* nothing, but for how the first phase touched a page.
THEOREM NearMAPTraceExact == Spec => []TraceExact
<1>1. ASSUME IInv PROVE TraceExact
  <2> DEFINE phases == Parse(log).phases
  <2>1. /\ ~Parse(log).panicked /\ Len(phases) = Len(truth) - 1
        /\ DOMAIN phases = 1 .. Len(phases)
        /\ \A i \in 1 .. Len(phases) : Recorded(phases[i], truth[i], i)
    BY <1>1, LoggedPhases
  <2> HIDE DEF phases
  <2>2. ASSUME NEW i \in DOMAIN phases
        PROVE  LET p == phases[i]
                   t == truth[i]
               IN  /\ p.name = t.name /\ p.instructions = t.insns /\ p.io_bytes = t.io
                   /\ DOMAIN p.accesses = {b \div PageSize : b \in t.reads \cup t.writes}
                   /\ i > 1 => /\ ReadPages(p) = {b \div PageSize : b \in t.reads}
                               /\ WrittenPages(p) = {b \div PageSize : b \in t.writes}
    <3>1. Recorded(phases[i], truth[i], i)
      BY <2>1
    <3>2. QED
      BY <3>1 DEF Recorded, Pages
  <2>3. QED
    BY <2>1, <2>2 DEF TraceExact, phases
<1>2. QED
  BY <1>1, SpecIInv, PTL

\* The pages of a finite set of bytes are finitely many.
LEMMA FinitePages ==
  ASSUME NEW B, IsFiniteSet(B)
  PROVE  IsFiniteSet(Pages(B))
<1> DEFINE f == [b \in B |-> b \div PageSize]
<1>1. f \in Surjection(B, Pages(B))
  BY DEF Surjection, Pages
<1>2. QED
  BY <1>1, FS_Surjection

\* The pages a row counts as dead, and those it counts as new.
LEMMA CountedPages ==
  ASSUME IInv, NEW i \in 1 .. Len(Parse(log).phases)
  PROVE  LET phases == Parse(log).phases
             past == UNION {truth[j].reads \cup truth[j].writes : j \in 1 .. i - 1}
             later == UNION {truth[j].reads : j \in i + 1 .. Len(phases)}
         IN  /\ \A p \in DeadWrites(phases, i) : p \notin Pages(later)
             /\ i > 1 => /\ DeadWrites(phases, i) = Pages(truth[i].writes) \ Pages(later)
                         /\ NewReads(phases, i) = Pages(truth[i].reads) \ Pages(past)
<1> DEFINE phases == Parse(log).phases
           N == Len(phases)
           past == UNION {truth[j].reads \cup truth[j].writes : j \in 1 .. i - 1}
           later == UNION {truth[j].reads : j \in i + 1 .. N}
<1>1. N \in Nat /\ i \in 1 .. N /\ \A j \in 1 .. N : Recorded(phases[j], truth[j], j)
  BY LoggedPhases
<1> HIDE DEF phases, N
<1>2. \A j \in i + 1 .. N : j \in 1 .. N /\ ReadPages(phases[j]) = Pages(truth[j].reads)
  <2> SUFFICES ASSUME NEW j \in i + 1 .. N
               PROVE  j \in 1 .. N /\ ReadPages(phases[j]) = Pages(truth[j].reads)
    OBVIOUS
  <2>1. j \in 1 .. N /\ j > 1
    BY <1>1
  <2>2. Recorded(phases[j], truth[j], j)
    BY <1>1, <2>1
  <2>3. QED
    BY <2>1, <2>2 DEF Recorded
<1>3. \A j \in 1 .. i - 1 :
         DOMAIN phases[j].accesses = Pages(truth[j].reads \cup truth[j].writes)
  BY <1>1 DEF Recorded
<1>4. i > 1 => /\ WrittenPages(phases[i]) = Pages(truth[i].writes)
               /\ ReadPages(phases[i]) = Pages(truth[i].reads)
  BY <1>1 DEF Recorded
<1>5. \A p : p \in Pages(later) <=> \E j \in i + 1 .. N : p \in Pages(truth[j].reads)
  BY DEF Pages
<1>6. \A p : p \in Pages(past)
             <=> \E j \in 1 .. i - 1 : p \in Pages(truth[j].reads \cup truth[j].writes)
  BY DEF Pages
<1> HIDE DEF past, later
<1>7. DeadWrites(phases, i) = {p \in WrittenPages(phases[i]) : p \notin Pages(later)}
  BY <1>2, <1>5 DEF DeadWrites, N
<1>8. NewReads(phases, i) = {p \in ReadPages(phases[i]) : p \notin Pages(past)}
  BY <1>3, <1>6 DEF NewReads
<1>9. QED
  BY <1>4, <1>7, <1>8 DEF phases, past, later, N

\* The columns of the CSV file are what their names say in every row, whatever
\* the program and the number of its phases: no page counted as dead is read
\* later, and after the first phase none is missed (main.rs:103-139).
THEOREM NearMAPReportExact == Spec => []ReportExact
<1>1. ASSUME IInv PROVE ReportExact
  <2> DEFINE phases == Parse(log).phases
             rows == analyse_file(log)
             past(i) == UNION {truth[j].reads \cup truth[j].writes : j \in 1 .. i - 1}
             later(i) == UNION {truth[j].reads : j \in i + 1 .. Len(phases)}
  <2>1. /\ DOMAIN phases = 1 .. Len(phases) /\ Len(phases) = Len(truth) - 1
        /\ Len(phases) \in Nat
        /\ \A i \in 1 .. Len(phases) : Recorded(phases[i], truth[i], i)
    BY <1>1, LoggedPhases
  <2>2. rows = [i \in DOMAIN phases |-> Row(phases, i)]
    BY DEF analyse_file
  <2>3. PageSize \in Nat
    BY PageSizeRounded
  <2>4. ASSUME NEW i \in DOMAIN rows
        PROVE  /\ \A p \in DeadWrites(phases, i) : ~Touches(p, later(i))
               /\ i > 1 => /\ rows[i].dead =
                                PageSize * Cardinality(Pages(truth[i].writes) \ Pages(later(i)))
                           /\ rows[i].new =
                                PageSize * Cardinality(Pages(truth[i].reads) \ Pages(past(i)))
    <3>1. i \in 1 .. Len(phases) /\ rows[i] = Row(phases, i)
      BY <2>1, <2>2
    <3>2. /\ \A p \in DeadWrites(phases, i) : p \notin Pages(later(i))
          /\ i > 1 => /\ DeadWrites(phases, i) = Pages(truth[i].writes) \ Pages(later(i))
                      /\ NewReads(phases, i) = Pages(truth[i].reads) \ Pages(past(i))
      BY <1>1, <3>1, CountedPages
    <3>3. \A p : Touches(p, later(i)) <=> p \in Pages(later(i))
      BY DEF Touches, Pages
    <3>4. /\ IsFiniteSet(Pages(truth[i].writes) \ Pages(later(i)))
          /\ IsFiniteSet(Pages(truth[i].reads) \ Pages(past(i)))
      <4>1. IsFiniteSet(truth[i].reads) /\ IsFiniteSet(truth[i].writes)
        <5>1. i \in 1 .. Len(truth)
          BY <1>1, <2>1, <3>1 DEF IInv
        <5>2. QED
          BY <1>1, <5>1 DEF IInv
      <4>2. IsFiniteSet(Pages(truth[i].reads)) /\ IsFiniteSet(Pages(truth[i].writes))
        BY <4>1, FinitePages
      <4>3. QED
        BY <4>2, FS_Subset
    <3> HIDE DEF phases, rows, past, later
    <3>5. /\ rows[i].dead = Cardinality(DeadWrites(phases, i)) * phases[i].page_size
          /\ rows[i].new = Cardinality(NewReads(phases, i)) * phases[i].page_size
      BY <3>1 DEF Row
    <3>6. phases[i].page_size = PageSize
      BY <2>1, <3>1 DEF Recorded
    <3>7. /\ Cardinality(Pages(truth[i].writes) \ Pages(later(i))) \in Nat
          /\ Cardinality(Pages(truth[i].reads) \ Pages(past(i))) \in Nat
      BY <3>4, FS_CardinalityType
    <3>8. \A c \in Nat : c * PageSize = PageSize * c
      BY <2>3
    <3>9. QED
      BY <3>2, <3>3, <3>5, <3>6, <3>7, <3>8
  <2>5. QED
    BY <2>4 DEF ReportExact, Pages
<1>2. QED
  BY <1>1, SpecIInv, PTL
=============================================================================
