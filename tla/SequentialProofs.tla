--------------------------- MODULE SequentialProofs ---------------------------
(***************************************************************************)
(* Proofs about the two parts of faasmspeed that run in a single task: the *)
(* generator of a function's requests (RequestGenerator), for every        *)
(* fraction, pool and number of requests, and the report on what they      *)
(* returned (Report), for every answer, error and number of them.          *)
(***************************************************************************)
EXTENDS RequestGenerator, Report, SumTheorems, SequenceTheorems, FunctionTheorems

------------------------------------------------------------------------------
(* Arithmetic *)

\* Multiples are ordered as their factors.
LEMMA ProductOrdered ==
  ASSUME NEW p \in Int, NEW q \in Int, p <= q, NEW d \in Nat
  PROVE  p * d <= q * d
<1>1. PICK m \in Nat : q = p + m
  <2>1. q - p \in Nat /\ q = p + (q - p)
    OBVIOUS
  <2>2. QED
    BY <2>1
<1>2. m * d \in Nat /\ (p + m) * d = p * d + m * d
  OBVIOUS
<1>3. p * d \in Int
  OBVIOUS
<1>4. QED
  BY <1>1, <1>2, <1>3

\* A multiple of d that lies in 0 .. d-1 is zero.
LEMMA NoMultipleBetween ==
  ASSUME NEW p \in Int, NEW q \in Int, NEW d \in Nat \ {0}, NEW r \in 0..(d - 1),
         q * d = p * d + r
  PROVE  r = 0
<1>0. p * d \in Int /\ q * d \in Int
  OBVIOUS
<1>1. CASE q <= p
  <2>1. q * d <= p * d
    BY <1>1, ProductOrdered
  <2>2. QED
    BY <1>0, <2>1
<1>2. CASE q > p
  <2>1. p + 1 \in Int /\ p + 1 <= q /\ (p + 1) * d = p * d + d
    BY <1>2
  <2>2. (p + 1) * d <= q * d
    BY <2>1, ProductOrdered
  <2>3. QED
    BY <1>0, <2>1, <2>2
<1>3. QED
  BY <1>1, <1>2

\* The remainder of a number, positive or not, is the one by which it exceeds a
\* multiple.
LEMMA RemainderIs ==
  ASSUME NEW q \in Int, NEW d \in Nat \ {0}, NEW r \in 0..(d - 1)
  PROVE  (q * d + r) % d = r
<1> DEFINE n == q * d + r
           p == n \div d
           m == n % d
<1>1. n \in Int
  OBVIOUS
<1> HIDE DEF n
<1>2. p \in Int /\ m \in 0..(d - 1) /\ n = p * d + m
  BY <1>1
<1> HIDE DEF p, m
<1>3. q * d + r = p * d + m /\ q * d \in Int /\ p * d \in Int
  BY <1>2 DEF n
<1>4. ASSUME r <= m PROVE m = r
  <2>1. q * d = p * d + (m - r) /\ m - r \in 0..(d - 1)
    BY <1>2, <1>3, <1>4
  <2>2. m - r = 0
    BY <1>2, <2>1, NoMultipleBetween
  <2>3. QED
    BY <1>2, <2>2
<1>5. ASSUME m < r PROVE m = r
  <2>1. p * d = q * d + (r - m) /\ r - m \in 0..(d - 1)
    BY <1>2, <1>3, <1>5
  <2>2. r - m = 0
    BY <1>2, <2>1, NoMultipleBetween
  <2>3. QED
    BY <1>2, <2>2
<1>6. m = r
  BY <1>4, <1>5, <1>2
<1>7. QED
  BY <1>6 DEF m, n

------------------------------------------------------------------------------
(***************************************************************************)
(* The generator.  The inductive invariant says where in its period it is: *)
(* ndp_var determines how many requests of the current period were sent    *)
(* (InPeriod) and how many of those were offloadable (NdpInPeriod); the p  *)
(* complete periods before it contribute Den and PerPeriod each.           *)
(***************************************************************************)

InPeriod(v) == IF v = Den THEN 1 ELSE IF v = Den - 1 THEN 0 ELSE v + 1

NdpInPeriod(v) ==
    IF v = Den - 1 THEN 0
    ELSE (IF PerPeriod = Den THEN 1 ELSE 0)
         + (IF v = Den THEN 0 ELSE IF v <= PerPeriod THEN v ELSE PerPeriod)

Position(p) ==
    /\ sent = p * Den + InPeriod(ndp_var)
    /\ ndp = p * PerPeriod + NdpInPeriod(ndp_var)

PeriodInv ==
    /\ TypeOK
    /\ ndp_var = 0 => Den = 1
    /\ \E p \in Nat : Position(p)

------------------------------------------------------------------------------
(* The generator: positions in a period *)

\* d % d = 0: what the wrap makes of ndp_var = offload_frac_den + 1.
LEMMA SelfMod == ASSUME NEW d \in Nat \ {0} PROVE d % d = 0
  OBVIOUS

\* The wrap takes ndp_var from Den to 1 and leaves any other successor alone.
LEMMA NextNdpVarValue ==
    ASSUME NEW v \in 0..Den
    PROVE  NextNdpVar(v, Den) = IF v = Den THEN 1 ELSE v + 1
  BY SelfMod, GeneratorAssumption DEF NextNdpVar, Wrap

\* Within a period a request is offloadable iff its position is at most PerPeriod.
LEMMA AllowNdpValue ==
    ASSUME NEW v \in 1..Den
    PROVE  AllowNdp(v, Num, Den) <=> v <= PerPeriod
  BY GeneratorAssumption DEF AllowNdp, ForceNdp, PerPeriod

\* At most all requests of a period are offloadable.
LEMMA PerPeriodRange == PerPeriod \in 0..Den
  BY GeneratorAssumption DEF PerPeriod

\* Multiplication is monotonic.
LEMMA TimesMonotone ==
    ASSUME NEW a \in Nat, NEW b \in Nat, NEW c \in Nat, a <= b
    PROVE  a * c <= b * c
  OBVIOUS

\* A multiple of d that lies in 0 .. d-1 is zero.
LEMMA SmallMultiple ==
    ASSUME NEW p \in Nat, NEW q \in Nat, NEW d \in Nat \ {0}, NEW r \in 0..(d - 1),
           q * d = p * d + r
    PROVE  q = p /\ r = 0
<1>1. CASE q <= p
  <2>1. q * d <= p * d
    BY <1>1, TimesMonotone
  <2>2. r = 0 /\ q * d = p * d
    BY <2>1
  <2>3. CASE q < p
    <3>1. (q + 1) * d <= p * d
      BY <2>3, TimesMonotone
    <3> QED
      BY <3>1, <2>2
  <2> QED
    BY <1>1, <2>2, <2>3
<1>2. CASE q > p
  <2>1. (p + 1) * d <= q * d
    BY <1>2, TimesMonotone
  <2> QED
    BY <2>1
<1> QED
  BY <1>1, <1>2

------------------------------------------------------------------------------
(* The generator: the inductive invariant *)

\* The loop starts one step before the end of a period.
LEMMA PeriodInit == Init => PeriodInv
<1> SUFFICES ASSUME Init PROVE PeriodInv
  OBVIOUS
<1>1. TypeOK /\ (ndp_var = 0 => Den = 1)
  BY GeneratorAssumption DEF Init, TypeOK, FirstNdpVar
<1>2. Position(0)
  BY GeneratorAssumption, PerPeriodRange
     DEF Init, Position, InPeriod, NdpInPeriod, FirstNdpVar
<1> QED
  BY <1>1, <1>2 DEF PeriodInv

\* Every iteration of the request loop keeps the position in the period and the
\* count of offloadable requests in step.
LEMMA PeriodStep == PeriodInv /\ [Next]_genVars => PeriodInv'
<1> SUFFICES ASSUME PeriodInv, [Next]_genVars PROVE PeriodInv'
  OBVIOUS
<1>a. TypeOK /\ (ndp_var = 0 => Den = 1)
  BY DEF PeriodInv
<1>1. CASE Generate
  <2> DEFINE v == ndp_var'
  <2>1. v = IF ndp_var = Den THEN 1 ELSE ndp_var + 1
    BY <1>1, <1>a, NextNdpVarValue DEF Generate, TypeOK
  <2>2. v \in 1..Den
    BY <2>1, <1>a, GeneratorAssumption DEF TypeOK
  <2>3. ndp' = IF v <= PerPeriod THEN ndp + 1 ELSE ndp
    BY <1>1, <2>2, AllowNdpValue DEF Generate
  <2>4. TypeOK'
    <3>1. which_request' \in 0..(PoolSize - 1)
      BY <1>1, <1>a, GeneratorAssumption DEF Generate, NextRequest, TypeOK
    <3> QED
      BY <1>1, <1>a, <2>2, <2>3, <3>1, GeneratorAssumption DEF Generate, TypeOK
  <2>5. PICK p \in Nat : Position(p)
    BY DEF PeriodInv
  <2>6. sent' = p * Den + InPeriod(ndp_var) + 1
    BY <1>1, <2>5, <1>a, GeneratorAssumption DEF Generate, Position, InPeriod, TypeOK
  <2>7. PerPeriod \in 0..Den
    BY PerPeriodRange
  <2> HIDE DEF v
  \* The period is complete: one more of them, nothing yet in the next.
  <2>8. CASE v = Den - 1 \/ (ndp_var = Den /\ Den = 1)
    <3>1. (p + 1) * Den = p * Den + Den /\ (p + 1) * PerPeriod = p * PerPeriod + PerPeriod
      BY <2>7, GeneratorAssumption
    <3>2. sent' = (p + 1) * Den + InPeriod(v)
      BY <2>1, <2>2, <2>6, <2>8, <3>1, <1>a, GeneratorAssumption DEF InPeriod, TypeOK
    <3>3. ndp' = (p + 1) * PerPeriod + NdpInPeriod(v)
      BY <2>1, <2>2, <2>3, <2>5, <2>7, <2>8, <3>1, <1>a, GeneratorAssumption
         DEF Position, NdpInPeriod, TypeOK
    <3>4. p + 1 \in Nat /\ Position(p + 1)'
      BY <3>2, <3>3, <2>5, GeneratorAssumption
         DEF v, Position, InPeriod, NdpInPeriod, PerPeriod
    <3> QED
      BY <3>4, <2>2, <2>4 DEF PeriodInv, v
  \* It is not: one more request of the current period.
  <2>9. CASE ~(v = Den - 1) /\ ~(ndp_var = Den /\ Den = 1)
    <3> DEFINE Advance ==
          /\ InPeriod(v) = InPeriod(ndp_var) + 1
          /\ NdpInPeriod(v) = NdpInPeriod(ndp_var) + (IF v <= PerPeriod THEN 1 ELSE 0)
    <3>a. ASSUME ndp_var = Den PROVE Advance
      <4>1. v = 1 /\ Den > 2
        BY <3>a, <2>1, <2>9, GeneratorAssumption
      <4> QED
        BY <3>a, <4>1, <2>7, GeneratorAssumption DEF InPeriod, NdpInPeriod
    <3>b. ASSUME ndp_var = Den - 1 PROVE Advance
      <4>1. v = Den /\ ndp_var # Den
        BY <3>b, <2>1, GeneratorAssumption
      <4> QED
        BY <3>b, <4>1, <2>7, GeneratorAssumption DEF InPeriod, NdpInPeriod
    <3>c. ASSUME ndp_var # Den /\ ndp_var # Den - 1 PROVE Advance
      <4>1. ndp_var \in 1..(Den - 3) /\ v = ndp_var + 1
        BY <3>c, <2>1, <2>9, <1>a, GeneratorAssumption DEF TypeOK
      <4> QED
        BY <3>c, <4>1, <2>7, GeneratorAssumption DEF InPeriod, NdpInPeriod
    <3>d. Advance
      BY <3>a, <3>b, <3>c
    <3>1. sent' = p * Den + InPeriod(v)
      BY <3>d, <2>6, <1>a, GeneratorAssumption DEF InPeriod, TypeOK
    <3>2. ndp' = p * PerPeriod + NdpInPeriod(v)
      BY <3>d, <2>2, <2>3, <2>5, <2>7, <1>a, GeneratorAssumption
         DEF Position, NdpInPeriod, TypeOK
    <3>3. Position(p)'
      BY <3>1, <3>2, GeneratorAssumption DEF v, Position, InPeriod, NdpInPeriod, PerPeriod
    <3> QED
      BY <3>3, <2>5, <2>2, <2>4 DEF PeriodInv, v
  <2> QED
    BY <2>8, <2>9
<1>2. CASE UNCHANGED genVars
  BY <1>2 DEF genVars, PeriodInv, TypeOK, Position, InPeriod, NdpInPeriod, PerPeriod
<1> QED
  BY <1>1, <1>2 DEF Next

\* The types of the generator's variables, for every value of the options:
\* ndp_var stays within 0..offload_frac_den and which_request within the pool.
THEOREM GeneratorTypes == Spec => []TypeOK
<1>1. PeriodInv => TypeOK
  BY DEF PeriodInv
<1> QED
  BY <1>1, PeriodInit, PeriodStep, PTL DEF Spec

\* At every end of a period the offloaded share is exactly the requested one.
THEOREM FractionIsExact == Spec => []FractionExact
<1>1. PeriodInv => FractionExact
  <2> SUFFICES ASSUME PeriodInv, NEW q \in 0..Total, sent = q * Den
               PROVE  ndp = q * PerPeriod
    BY DEF FractionExact
  <2>1. PICK p \in Nat : Position(p)
    BY DEF PeriodInv
  <2>2. ndp_var \in 0..Den /\ q \in Nat
    BY GeneratorAssumption DEF PeriodInv, TypeOK
  <2>3. PerPeriod \in 0..Den
    BY PerPeriodRange
  <2>4. CASE Den = 1
    BY <2>1, <2>2, <2>3, <2>4 DEF Position, InPeriod, NdpInPeriod
  <2>5. CASE Den # 1
    <3>1. InPeriod(ndp_var) \in 0..(Den - 1)
      BY <2>2, <2>5, GeneratorAssumption DEF InPeriod
    <3>2. q = p /\ InPeriod(ndp_var) = 0
      BY <2>1, <2>2, <3>1, SmallMultiple, GeneratorAssumption DEF Position
    <3>3. ndp_var = Den - 1
      BY <3>2, <2>2, GeneratorAssumption DEF InPeriod
    <3>4. NdpInPeriod(ndp_var) = 0
      BY <3>3 DEF NdpInPeriod
    <3> QED
      BY <2>1, <2>2, <2>3, <3>2, <3>4 DEF Position
  <2> QED
    BY <2>4, <2>5
<1> QED
  BY <1>1, PeriodInit, PeriodStep, PTL DEF Spec

\* At any time the offloaded share is less than one period's bunching away
\* from the requested one: at most PerPeriod/Den requests behind it and at most
\* PerPeriod * (Den - PerPeriod) / Den requests ahead.
THEOREM FractionIsTracked == Spec => []FractionTracked
<1>1. PeriodInv => FractionTracked
  <2> SUFFICES ASSUME PeriodInv PROVE FractionTracked
    OBVIOUS
  <2> DEFINE m == PerPeriod
             r == InPeriod(ndp_var)
             c == NdpInPeriod(ndp_var)
             drift == Den * ndp - m * sent
  <2>1. PICK p \in Nat : Position(p)
    BY DEF PeriodInv
  <2>2. ndp_var \in 0..Den /\ m \in 0..Den /\ Den \in Nat \ {0}
    BY PerPeriodRange, GeneratorAssumption DEF PeriodInv, TypeOK
  <2>3. r \in Nat /\ c \in Nat
    BY <2>2 DEF InPeriod, NdpInPeriod
  <2>4. drift = Den * c - m * r
    <3> HIDE DEF m, r, c
    <3>1. sent = p * Den + r /\ ndp = p * m + c
      BY <2>1 DEF Position, m, r, c
    <3> QED
      BY <3>1, <2>2, <2>3
  <2>5. 0 <= m * (Den - m)
    <3> HIDE DEF m
    <3> QED
      BY <2>2, TimesMonotone
  <2>6. -m <= Den * c - m * r /\ Den * c - m * r <= m * (Den - m)
    <3>1. CASE ndp_var = Den - 1
      <4>1. r = 0 /\ c = 0
        BY <3>1, <2>2 DEF InPeriod, NdpInPeriod
      <4> HIDE DEF m, r, c
      <4> QED
        BY <4>1, <2>2, <2>5
    <3>2. CASE ndp_var = Den
      <4>1. r = 1 /\ c = IF m = Den THEN 1 ELSE 0
        BY <3>2, <2>2 DEF InPeriod, NdpInPeriod
      <4> HIDE DEF m, r, c
      <4> QED
        BY <4>1, <2>2, <2>5
    <3>3. CASE ndp_var < Den - 1
      <4>1. r = ndp_var + 1
        BY <3>3, <2>2 DEF InPeriod
      <4>2. c = (IF m = Den THEN 1 ELSE 0) + (IF ndp_var <= m THEN ndp_var ELSE m)
        BY <3>3, <2>2 DEF NdpInPeriod
      <4> HIDE DEF m, r, c
      <4>3. CASE m = Den
        BY <4>1, <4>2, <4>3, <3>3, <2>2
      <4>4. CASE m < Den /\ ndp_var <= m
        <5>1. Den * c - m * r = ndp_var * (Den - m) - m
          BY <4>1, <4>2, <4>4, <2>2
        <5>2. ndp_var * (Den - m) <= m * (Den - m) /\ 0 <= ndp_var * (Den - m)
          BY <4>4, <2>2, TimesMonotone
        <5> QED
          BY <5>1, <5>2, <2>2
      <4>5. CASE m < Den /\ ndp_var > m
        <5>1. Den * c - m * r = (Den - ndp_var - 1) * m
          BY <4>1, <4>2, <4>5, <2>2
        <5>2. (Den - ndp_var - 1) * m <= (Den - m) * m /\ 0 <= (Den - ndp_var - 1) * m
          BY <4>5, <3>3, <2>2, TimesMonotone
        <5> QED
          BY <5>1, <5>2, <2>2
      <4> QED
        BY <4>3, <4>4, <4>5, <2>2
    <3> QED
      BY <3>1, <3>2, <3>3, <2>2
  <2> QED
    BY <2>4, <2>6 DEF FractionTracked
<1> QED
  BY <1>1, PeriodInit, PeriodStep, PTL DEF Spec

\* How often the pool was walked through, and where in it the loop is.
PoolInv ==
    /\ TypeOK
    /\ \E q \in Nat : sent = q * PoolSize + which_request

\* Request number i takes the data set i modulo the length of the pool, for every
\* pool and number of requests: the index wraps at the length and not after it.
THEOREM PoolIsRoundRobin == Spec => []PoolRoundRobin
<1>1. Init => \E q \in Nat : sent = q * PoolSize + which_request
  <2>1. Init => sent = 0 * PoolSize + which_request
    BY GeneratorAssumption DEF Init
  <2> QED
    BY <2>1
<1>2. TypeOK /\ (\E q \in Nat : sent = q * PoolSize + which_request) /\ [Next]_genVars
        => (\E q \in Nat : sent = q * PoolSize + which_request)'
  <2> SUFFICES ASSUME TypeOK, [Next]_genVars,
                      NEW q \in Nat, sent = q * PoolSize + which_request
               PROVE  \E p \in Nat : sent' = p * PoolSize + which_request'
    BY GeneratorAssumption
  <2>1. CASE UNCHANGED genVars
    BY <2>1 DEF genVars
  <2>2. CASE Generate
    <3>1. sent' = sent + 1 /\ which_request \in Nat /\ sent \in Nat /\ PoolSize \in Nat
      BY <2>2, GeneratorAssumption DEF Generate, TypeOK
    <3>2. CASE which_request + 1 = PoolSize
      <4>1. which_request' = 0
        BY <2>2, <3>2 DEF Generate, NextRequest
      <4>2. sent' = (q + 1) * PoolSize + 0 /\ q + 1 \in Nat
        BY <3>1, <3>2
      <4> QED
        BY <4>1, <4>2
    <3>3. CASE which_request + 1 # PoolSize
      <4>1. which_request' = which_request + 1
        BY <2>2, <3>3 DEF Generate, NextRequest
      <4>2. sent' = q * PoolSize + (which_request + 1)
        BY <3>1
      <4> QED
        BY <4>1, <4>2
    <3> QED
      BY <3>2, <3>3
  <2> QED
    BY <2>1, <2>2 DEF Next
<1>3. PoolInv => PoolRoundRobin
  <2> SUFFICES ASSUME TypeOK, NEW q \in Nat, sent = q * PoolSize + which_request
               PROVE  which_request = sent % PoolSize
    BY DEF PoolInv, PoolRoundRobin
  <2>1. PoolSize \in Nat \ {0} /\ which_request \in 0..(PoolSize - 1)
    BY GeneratorAssumption DEF TypeOK
  <2> QED
    BY <2>1, RemainderIs
<1> QED
  BY <1>1, <1>2, <1>3, GeneratorTypes, PTL DEF Spec, PoolInv

------------------------------------------------------------------------------
(***************************************************************************)
(* The report.  The inductive invariant says of which answers the vectors  *)
(* are a rearrangement at each stage, so that no order that an unstable    *)
(* sort may leave matters: what a sorted rearrangement of some values has  *)
(* at a place is the value of that rank, and the sum does not depend on    *)
(* the order either.                                                       *)
(***************************************************************************)

\* The values of a field of the answers, as they lie in s.
Column(s, c) == [j \in DOMAIN s |-> s[j][c]]

\* e holds the values of d, each as often, in some order.
Rearranged(e, d) ==
    \E h \in Bijection(DOMAIN e, DOMAIN d) : \A k \in DOMAIN e : e[k] = d[h[k]]

Ascending(e) == \A i, j \in DOMAIN e : i <= j => e[i] <= e[j]

\* What the first n requests returned, answers and errors apart.
Oks(n) == {j \in 1..n : outcome[j].ok}
Errs(n) == {j \in 1..n : ~outcome[j].ok}
OkTill(n) == [j \in Oks(n) |-> outcome[j].res]
ErrTill(n) == [j \in Errs(n) |-> outcome[j]]

\* No field of an answer is larger than B.
AtMost(B) == \A s \in Samples : \A c \in Fields : s[c] <= B

\* The numbers that are no larger than the fields of the answers may be.
Values == {v \in 0..(Word - 1) : \A B \in Nat : AtMost(B) => v <= B}
Results == [Fields -> Values]
Failures == {[ok |-> FALSE, msg |-> m] : m \in Messages}
Stages == {"collect", "errors", "sort", "diff"} \cup Range(Columns)

ShapeInv ==
    /\ outcome \in Seq(Outcomes) /\ Len(outcome) <= MaxResults
    /\ results \in Seq(Results) /\ errors \in Seq(Failures)
    /\ stage \in Stages
    /\ idx \in 0..MaxResults
    /\ Len(results) + Len(errors) = IF stage = "collect" THEN idx ELSE Len(outcome)
    /\ idx <= Len(outcome)

\* Until the start times are overwritten, results and errors hold what the
\* requests returned, in some order.
CollectInv ==
    LET n == IF stage = "collect" THEN idx ELSE Len(outcome)
    IN  /\ stage \in {"collect", "errors", "sort"} => Rearranged(results, OkTill(n))
        /\ stage \in {"collect", "errors"} => Rearranged(errors, ErrTill(n))

\* The start times that the loop has passed are intervals, the others are not.
DiffInv ==
    stage = "diff" =>
      /\ idx <= Len(results) /\ (results # <<>> => idx >= 1)
      /\ \A c \in Fields \ {"start_time"} : Rearranged(Column(results, c), Answers(c))
      /\ \E e \in Seq(Values) :
           /\ Len(e) = Len(results) /\ Ascending(e)
           /\ Rearranged(e, Answers("start_time"))
           /\ \A j \in DOMAIN results :
                results[j].start_time = IF j > idx THEN e[j] - e[j - 1] ELSE e[j]

\* What the start times are overwritten with: the interval from the start before,
\* and for the first one the second's interval if there are more than two.
StartColumn ==
    [j \in DOMAIN Starts |-> IF j > 1 THEN Starts[j] - Starts[j - 1]
                             ELSE IF Len(Starts) > 2 THEN Starts[2] - Starts[1] ELSE Starts[1]]

\* What a column holds.
Held(c) == IF c = "start_time" THEN StartColumn ELSE Answers(c)

\* No value of d is negative or larger than every answer's field c.
Within(d, c) ==
    \A k \in DOMAIN d : \E o \in DOMAIN Answers(c) : 0 <= d[k] /\ d[k] <= Answers(c)[o]

\* After the loop every column holds what it is about.
ColumnsInv ==
    stage \in Range(Columns) =>
      /\ \A c \in Fields : Rearranged(Column(results, c), Held(c))
      /\ Within(StartColumn, "start_time")

\* What was printed was printed of the column's own values, sorted.
PrintedInv ==
    /\ \A c \in DOMAIN printed :
         c \in Fields /\ \E e \in Seq(Values) :
           Ascending(e) /\ Rearranged(e, Held(c)) /\ printed[c] = print_stats(e)
    /\ stage \notin Range(Columns) => DOMAIN printed = {}
    /\ \A k \in 1..Len(Columns) :
         stage = Columns[k] => DOMAIN printed = {Columns[j] : j \in 1..(k - 1)}

\* The errors were counted in the order of their texts.
TallyInv ==
    stage \notin {"collect", "errors"} =>
      \E s \in Seq(Failures) :
        /\ Ascending(Column(s, "msg"))
        /\ Rearranged(s, ErrTill(Len(outcome)))
        /\ tally = group_by(s)

ReportInv ==
    ShapeInv /\ CollectInv /\ DiffInv /\ ColumnsInv /\ PrintedInv /\ TallyInv

------------------------------------------------------------------------------
(* Rearrangements *)

\* A bijection, by its parts.
LEMMA IsBijection ==
  ASSUME NEW S, NEW T, NEW h \in [S -> T],
         \A i, j \in S : h[i] = h[j] => i = j,
         \A t \in T : \E s \in S : h[s] = t
  PROVE  h \in Bijection(S, T)
  BY DEF Bijection, Injection, Surjection, IsInjective

\* Rearranging twice is rearranging.
LEMMA RearrangedAgain ==
  ASSUME NEW e, NEW d, NEW f, Rearranged(e, d), Rearranged(d, f)
  PROVE  Rearranged(e, f)
<1>1. PICK h \in Bijection(DOMAIN e, DOMAIN d) : \A k \in DOMAIN e : e[k] = d[h[k]]
  BY DEF Rearranged
<1>2. PICK g \in Bijection(DOMAIN d, DOMAIN f) : \A k \in DOMAIN d : d[k] = f[g[k]]
  BY DEF Rearranged
<1> DEFINE m == [k \in DOMAIN e |-> g[h[k]]]
<1>3. m \in Bijection(DOMAIN e, DOMAIN f)
  BY Fun_BijTransitive
<1>4. \A k \in DOMAIN e : h[k] \in DOMAIN d
  BY Fun_BijectionProperties
<1>5. \A k \in DOMAIN e : e[k] = f[m[k]]
  BY <1>1, <1>2, <1>4
<1> HIDE DEF m
<1>6. QED
  BY <1>3, <1>5 DEF Rearranged

\* Everything is a rearrangement of itself.
LEMMA RearrangedSame ==
  ASSUME NEW e
  PROVE  Rearranged(e, e)
<1> DEFINE h == [k \in DOMAIN e |-> k]
<1>1. h \in Bijection(DOMAIN e, DOMAIN e)
  BY IsBijection
<1>2. QED
  BY <1>1 DEF Rearranged

\* A column of a rearrangement is a rearrangement of the column.
LEMMA RearrangedColumn ==
  ASSUME NEW s, NEW t, Rearranged(s, t), NEW c
  PROVE  Rearranged(Column(s, c), Column(t, c))
<1>1. PICK h \in Bijection(DOMAIN s, DOMAIN t) : \A k \in DOMAIN s : s[k] = t[h[k]]
  BY DEF Rearranged
<1>2. DOMAIN Column(s, c) = DOMAIN s /\ DOMAIN Column(t, c) = DOMAIN t
  BY DEF Column
<1>3. \A k \in DOMAIN s : h[k] \in DOMAIN t
  BY Fun_BijectionProperties
<1>4. \A k \in DOMAIN s : Column(s, c)[k] = Column(t, c)[h[k]]
  BY <1>1, <1>3 DEF Column
<1>5. QED
  BY <1>2, <1>4 DEF Rearranged

\* One more element on both sides.
LEMMA RearrangedAppend ==
  ASSUME NEW S, NEW e \in Seq(S), NEW d, NEW f, NEW x, x \notin DOMAIN d,
         DOMAIN f = DOMAIN d \cup {x}, \A j \in DOMAIN d : f[j] = d[j], f[x] \in S,
         Rearranged(e, d)
  PROVE  Rearranged(Append(e, f[x]), f)
<1>1. PICK h \in Bijection(DOMAIN e, DOMAIN d) : \A k \in DOMAIN e : e[k] = d[h[k]]
  BY DEF Rearranged
<1> DEFINE n == Len(e) + 1
           e2 == Append(e, f[x])
           g == [k \in 1..n |-> IF k = n THEN x ELSE h[k]]
<1>2. DOMAIN e2 = 1..n /\ DOMAIN e = 1..Len(e) /\ e2[n] = f[x]
      /\ \A k \in 1..Len(e) : e2[k] = e[k]
  BY AppendProperties
<1>3. /\ h \in [1..Len(e) -> DOMAIN d]
      /\ \A a, b \in 1..Len(e) : h[a] = h[b] => a = b
      /\ \A t \in DOMAIN d : \E s \in 1..Len(e) : h[s] = t
  BY <1>2, Fun_BijectionProperties
<1>4. n \in Nat /\ \A k \in 1..n : k # n => k \in 1..Len(e)
  OBVIOUS
<1>5. g \in Bijection(1..n, DOMAIN f)
  <2>1. g \in [1..n -> DOMAIN f]
    BY <1>3, <1>4
  <2>2. \A a, b \in 1..n : g[a] = g[b] => a = b
    BY <1>3, <1>4
  <2>3. \A t \in DOMAIN f : \E s \in 1..n : g[s] = t
    <3>1. n \in 1..n /\ g[n] = x
      OBVIOUS
    <3>2. \A s \in 1..Len(e) : s \in 1..n /\ g[s] = h[s]
      OBVIOUS
    <3> HIDE DEF g
    <3>3. QED
      BY <1>3, <3>1, <3>2
  <2> HIDE DEF g
  <2>4. QED
    BY <2>1, <2>2, <2>3, IsBijection
<1>6. \A k \in 1..n : e2[k] = f[g[k]]
  BY <1>1, <1>2, <1>3, <1>4
<1> HIDE DEF g, e2
<1>7. QED
  BY <1>2, <1>5, <1>6 DEF Rearranged, e2


\* A rearrangement of a sequence has as many elements.
LEMMA RearrangedSize ==
  ASSUME NEW n \in Nat, NEW e, DOMAIN e = 1..n, NEW d, Rearranged(e, d)
  PROVE  IsFiniteSet(DOMAIN d) /\ Cardinality(DOMAIN d) = n
<1>1. IsFiniteSet(1..n) /\ Cardinality(1..n) = n
  BY FS_Interval
<1>2. ExistsBijection(1..n, DOMAIN d)
  BY DEF Rearranged, ExistsBijection
<1>3. QED
  BY <1>1, <1>2, FS_Bijection

\* A rearrangement has the same values.
LEMMA RearrangedValues ==
  ASSUME NEW e, NEW d, Rearranged(e, d), NEW V
  PROVE  (\A k \in DOMAIN e : e[k] \in V) <=> (\A k \in DOMAIN d : d[k] \in V)
<1>1. PICK h \in Bijection(DOMAIN e, DOMAIN d) : \A k \in DOMAIN e : e[k] = d[h[k]]
  BY DEF Rearranged
<1>2. \A k \in DOMAIN e : h[k] \in DOMAIN d
  BY Fun_BijectionProperties
<1>3. \A t \in DOMAIN d : \E s \in DOMAIN e : h[s] = t
  BY Fun_BijectionProperties
<1>4. QED
  BY <1>1, <1>2, <1>3

Below(x, d) == {j \in DOMAIN d : d[j] < x}
NotAbove(x, d) == {j \in DOMAIN d : d[j] <= x}

LEMMA HasRankParts ==
  ASSUME NEW x, NEW n, NEW d
  PROVE  HasRank(x, n, d)
           <=> Cardinality(Below(x, d)) <= n /\ n < Cardinality(NotAbove(x, d))
  BY DEF HasRank, Below, NotAbove

\* The element at place k + 1 of the sorted values has rank k among them.
LEMMA RankOfSorted ==
  ASSUME NEW n \in Nat, NEW e, DOMAIN e = 1..n, \A k \in 1..n : e[k] \in Int,
         Ascending(e), NEW d, Rearranged(e, d), NEW k \in 0..(n - 1)
  PROVE  HasRank(e[k + 1], k, d)
<1> DEFINE x == e[k + 1]
<1>0. PICK h \in Bijection(1..n, DOMAIN d) : \A i \in 1..n : e[i] = d[h[i]]
  BY DEF Rearranged
<1>1. /\ \A i \in 1..n : h[i] \in DOMAIN d
      /\ \A i, j \in 1..n : h[i] = h[j] => i = j
      /\ \A t \in DOMAIN d : \E s \in 1..n : h[s] = t
  BY Fun_BijectionProperties
<1>2. IsFiniteSet(DOMAIN d)
  BY RearrangedSize
<1>3. IsFiniteSet(1..k) /\ Cardinality(1..k) = k
      /\ IsFiniteSet(1..(k + 1)) /\ Cardinality(1..(k + 1)) = k + 1
  <2>1. k \in Nat /\ k + 1 \in Nat
    OBVIOUS
  <2>2. QED
    BY <2>1, FS_Interval
<1>4. 1..k \subseteq 1..n /\ 1..(k + 1) \subseteq 1..n /\ k + 1 \in 1..n
  OBVIOUS
<1>5. Cardinality(Below(x, d)) <= k
  <2> DEFINE B == {h[i] : i \in 1..k}
             g == [i \in 1..k |-> h[i]]
  <2>1. g \in Surjection(1..k, B)
    BY DEF Surjection
  <2>2. IsFiniteSet(B) /\ Cardinality(B) <= k
    <3> HIDE DEF g, B
    <3>1. QED
      BY <2>1, <1>3, FS_Surjection
  <2>3. Below(x, d) \subseteq B
    <3>1. SUFFICES ASSUME NEW j \in DOMAIN d, d[j] < x
                   PROVE  j \in B
      BY DEF Below
    <3>2. PICK i \in 1..n : h[i] = j
      BY <1>1
    <3>3. e[i] < e[k + 1]
      BY <1>0, <3>1, <3>2
    <3>4. ~ (k + 1 <= i)
      <4>1. k + 1 <= i => e[k + 1] <= e[i]
        BY <1>4 DEF Ascending
      <4>2. e[i] \in Int /\ e[k + 1] \in Int
        BY <1>4
      <4>3. QED
        BY <3>3, <4>1, <4>2
    <3>5. i \in 1..k
      BY <3>4
    <3>6. QED
      BY <3>2, <3>5
  <2> HIDE DEF B
  <2>4. IsFiniteSet(Below(x, d)) /\ Cardinality(Below(x, d)) <= Cardinality(B)
    BY <2>2, <2>3, FS_Subset
  <2>5. Cardinality(Below(x, d)) \in Nat /\ Cardinality(B) \in Nat
    BY <2>2, <2>4, FS_CardinalityType
  <2>6. QED
    BY <2>2, <2>4, <2>5
<1>6. k < Cardinality(NotAbove(x, d))
  <2> DEFINE g == [i \in 1..(k + 1) |-> h[i]]
             C == NotAbove(x, d)
  <2>1. \A i \in 1..(k + 1) : h[i] \in C
    <3>1. SUFFICES ASSUME NEW i \in 1..(k + 1)
                   PROVE  h[i] \in DOMAIN d /\ d[h[i]] <= x
      BY DEF NotAbove
    <3>2. i \in 1..n /\ i <= k + 1
      OBVIOUS
    <3>3. e[i] <= e[k + 1]
      BY <1>4, <3>2 DEF Ascending
    <3>4. QED
      BY <1>0, <1>1, <3>2, <3>3
  <2>2. g \in Injection(1..(k + 1), C)
    <3>1. g \in [1..(k + 1) -> C]
      BY <2>1
    <3>2. IsInjective(g)
      BY <1>1, <1>4 DEF IsInjective
    <3>3. QED
      BY <3>1, <3>2 DEF Injection
  <2>3. C \subseteq DOMAIN d
    BY DEF NotAbove
  <2> HIDE DEF g, C
  <2>4. IsFiniteSet(C)
    BY <1>2, <2>3, FS_Subset
  <2>5. k + 1 <= Cardinality(C)
    BY <2>2, <2>4, <1>3, FS_Injection
  <2>6. Cardinality(C) \in Nat
    BY <2>4, FS_CardinalityType
  <2>7. QED
    BY <2>5, <2>6 DEF C
<1>7. QED
  BY <1>5, <1>6, HasRankParts

\* Only one value has a given rank.
LEMMA RankUnique ==
  ASSUME NEW d, IsFiniteSet(DOMAIN d), \A j \in DOMAIN d : d[j] \in Int,
         NEW x \in Int, NEW y \in Int, NEW n \in Int, HasRank(x, n, d), HasRank(y, n, d)
  PROVE  x = y
<1>1. ASSUME NEW a \in Int, NEW b \in Int, a < b, HasRank(a, n, d), HasRank(b, n, d)
      PROVE  FALSE
  <2>1. NotAbove(a, d) \subseteq Below(b, d)
    BY <1>1 DEF NotAbove, Below
  <2>2. IsFiniteSet(Below(b, d))
    <3>1. Below(b, d) \subseteq DOMAIN d
      BY DEF Below
    <3>2. QED
      BY <3>1, FS_Subset
  <2>3. IsFiniteSet(NotAbove(a, d)) /\ Cardinality(NotAbove(a, d)) <= Cardinality(Below(b, d))
    BY <2>1, <2>2, FS_Subset
  <2>4. Cardinality(NotAbove(a, d)) \in Nat /\ Cardinality(Below(b, d)) \in Nat
    BY <2>2, <2>3, FS_CardinalityType
  <2>5. n < Cardinality(NotAbove(a, d)) /\ Cardinality(Below(b, d)) <= n
    BY <1>1, HasRankParts
  <2>6. QED
    BY <2>3, <2>4, <2>5
<1>2. QED
  BY <1>1

\* Ordered(d) is the sorted sequence of d's values.
LEMMA OrderedIsSorted ==
  ASSUME NEW n \in Nat, NEW e, e = [k \in 1..n |-> e[k]], \A k \in 1..n : e[k] \in Int,
         Ascending(e), NEW d, Rearranged(e, d)
  PROVE  Ordered(d) = e
<1>0. DOMAIN e = 1..n
  OBVIOUS
<1>1. IsFiniteSet(DOMAIN d) /\ Cardinality(DOMAIN d) = n
  BY <1>0, RearrangedSize
<1>2. \A j \in DOMAIN d : d[j] \in Int
  BY <1>0, RearrangedValues
<1>3. ASSUME NEW j \in 1..n
      PROVE  (CHOOSE x \in Range(d) : HasRank(x, j - 1, d)) = e[j]
  <2>1. j - 1 \in 0..(n - 1) /\ (j - 1) + 1 = j
    OBVIOUS
  <2>2. HasRank(e[j], j - 1, d)
    <3> DEFINE k == j - 1
    <3>1. k \in 0..(n - 1) /\ j = k + 1
      OBVIOUS
    <3> HIDE DEF k
    <3>2. HasRank(e[k + 1], k, d)
      BY <1>0, <3>1, RankOfSorted
    <3>3. QED
      BY <3>1, <3>2 DEF k
  <2>3. e[j] \in Range(d)
    <3>1. PICK h \in Bijection(DOMAIN e, DOMAIN d) : \A k \in DOMAIN e : e[k] = d[h[k]]
      BY DEF Rearranged
    <3>2. h[j] \in DOMAIN d
      BY <1>0, Fun_BijectionProperties
    <3>3. QED
      BY <1>0, <3>1, <3>2 DEF Range
  <2>4. \A x \in Range(d) : x \in Int
    BY <1>2 DEF Range
  <2>5. \A x \in Range(d) : HasRank(x, j - 1, d) => x = e[j]
    <3>1. j - 1 \in Int /\ e[j] \in Int
      OBVIOUS
    <3>2. QED
      BY <1>1, <1>2, <2>2, <2>4, <3>1, RankUnique
  <2>6. QED
    BY <2>2, <2>3, <2>5
<1>4. QED
  BY <1>1, <1>3 DEF Ordered

------------------------------------------------------------------------------
(* Sorting *)

\* A sequence in which no neighbours are out of order is sorted.
LEMMA NeighboursSorted ==
  ASSUME NEW n \in Nat, NEW e, DOMAIN e = 1..n, \A k \in 1..n : e[k] \in Int,
         \A j \in 1..(n - 1) : e[j] <= e[j + 1]
  PROVE  Ascending(e)
<1>1. SUFFICES ASSUME NEW i \in 1..n, \E j \in 1..n : i <= j /\ ~(e[i] <= e[j])
               PROVE  FALSE
  BY DEF Ascending
<1> DEFINE B == {j \in 1..n : i <= j /\ ~(e[i] <= e[j])}
<1>2. B \subseteq Nat /\ B # {}
  BY <1>1, SMTT(60)
<1>3. PICK j \in B : \A l \in B : j <= l
  <2> HIDE DEF B
  <2>1. QED
    BY <1>2, LeastNumber
<1>4. j \in 1..n /\ i <= j /\ ~(e[i] <= e[j])
  BY <1>3
<1>5. j # i
  BY <1>4
<1>6. j - 1 \in 1..n /\ i <= j - 1 /\ j - 1 \in 1..(n - 1) /\ (j - 1) + 1 = j
  BY <1>4, <1>5
<1>7. j - 1 \notin B
  <2> HIDE DEF B
  <2>1. QED
    BY <1>3, <1>6
<1>8. e[i] <= e[j - 1]
  BY <1>6, <1>7
<1>9. e[j - 1] <= e[j]
  BY <1>6
<1>10. e[i] \in Int /\ e[j] \in Int /\ e[j - 1] \in Int
  BY <1>4, <1>6
<1>11. QED
  BY <1>4, <1>8, <1>9, <1>10

\* What sort_unstable_by_key leaves: the same elements, in order of the key.
LEMMA SortsFacts ==
  ASSUME NEW S, NEW s \in Seq(S), NEW c, \A x \in S : x[c] \in Int,
         NEW t \in Sorts(s, c)
  PROVE  /\ t \in Seq(S) /\ Len(t) = Len(s) /\ DOMAIN t = DOMAIN s
         /\ Rearranged(t, s)
         /\ Ascending(Column(t, c))
<1> DEFINE n == Len(s)
<1>1. n \in Nat /\ DOMAIN s = 1..n /\ \A k \in 1..n : s[k] \in S
  BY LenProperties, ElementOfSeq
<1> HIDE DEF n
<1>2. PICK p \in Bijection(1..n, 1..n) : t = [j \in 1..n |-> s[p[j]]]
  BY <1>1 DEF Sorts, Shuffles
<1>3. \A j \in 1..n : p[j] \in 1..n
  BY DEF Bijection, Surjection
<1>4. DOMAIN t = 1..n /\ \A j \in 1..n : t[j] = s[p[j]] /\ t[j] \in S
  BY <1>1, <1>2, <1>3
<1>5. t \in [1..n -> S]
  BY <1>1, <1>2, <1>3
<1>6. t \in Seq(S) /\ Len(t) = n
  <2>1. t \in Seq(S)
    BY <1>1, <1>5, SeqDef
  <2>2. Len(t) \in Nat /\ DOMAIN t = 1..Len(t)
    BY <2>1, LenProperties
  <2>3. QED
    BY <1>1, <1>4, <2>1, <2>2
<1>7. Rearranged(t, s)
  BY <1>1, <1>4 DEF Rearranged
<1>8. \A j \in 1..(n - 1) : t[j][c] <= t[j + 1][c]
  BY <1>6 DEF Sorts
<1>9. Ascending(Column(t, c))
  <2> DEFINE e == Column(t, c)
  <2>1. DOMAIN e = 1..n /\ \A k \in 1..n : e[k] = t[k][c] /\ e[k] \in Int
    BY <1>4 DEF Column
  <2>2. \A j \in 1..(n - 1) : e[j] <= e[j + 1]
    <3>1. \A j \in 1..(n - 1) : j \in 1..n /\ j + 1 \in 1..n
      BY <1>1
    <3>2. QED
      BY <1>8, <2>1, <3>1
  <2> HIDE DEF e
  <2>3. Ascending(e)
    BY <1>1, <2>1, <2>2, NeighboursSorted
  <2>4. QED
    BY <2>3 DEF e
<1>10. QED
  BY <1>1, <1>4, <1>6, <1>7, <1>9 DEF n

------------------------------------------------------------------------------
(* Wrapping sums *)

\* Wrapping early or late comes to the same.
LEMMA WrappedSum ==
  ASSUME NEW a \in Int, NEW b \in Int, NEW d \in Nat \ {0}
  PROVE  (a + (b % d)) % d = (a + b) % d
<1> DEFINE q == b \div d
           r == b % d
           m == a + r
           p == m \div d
           s == m % d
<1>1. q \in Int /\ r \in 0..(d - 1) /\ b = q * d + r
  OBVIOUS
<1> HIDE DEF q, r
<1>2. m \in Int
  BY <1>1
<1>3. p \in Int /\ s \in 0..(d - 1) /\ m = p * d + s
  <2> HIDE DEF m
  <2>1. QED
    BY <1>2
<1> HIDE DEF p, s
<1>4. a + b = (q + p) * d + s
  <2>1. (q + p) * d = q * d + p * d /\ q * d \in Int /\ p * d \in Int
    BY <1>1, <1>3
  <2>2. QED
    BY <2>1, <1>1, <1>3
<1>5. (a + b) % d = s
  <2>1. q + p \in Int
    BY <1>1, <1>3
  <2>2. QED
    BY <1>3, <1>4, <2>1, RemainderIs
<1>6. QED
  BY <1>5 DEF s, r

\* g is the recursive function whose value at S is the wrapping sum.
Wraps(fun, S, g) ==
    g = [s \in SUBSET S |->
           IF s = {} THEN 0 ELSE (fun[Pick(s)] + g[s \ {Pick(s)}]) % Word]

LEMMA SumOfUnfold ==
  ASSUME NEW d
  PROVE  SumOf(d) = (CHOOSE g : Wraps(d, DOMAIN d, g))[DOMAIN d]
  BY DEF SumOf, FoldSeq, FoldFunction, FoldFunctionOnSet, MapThenFoldSet, Wraps, Pick

\* The wrapping sum is the remainder of the sum.
LEMMA SumOfIsRemainder ==
  ASSUME NEW d, IsFiniteSet(DOMAIN d), \A j \in DOMAIN d : d[j] \in Int
  PROVE  SumOf(d) = SUM(d, DOMAIN d) % Word
<1> DEFINE S == DOMAIN d
           w == [s \in SUBSET S |-> SUM(d, s) % Word]
<1>0. Word \in Nat \ {0}
  BY ReportAssumption
<1>1. \A s \in SUBSET S : IsFiniteSet(s) /\ SUM(d, s) \in Int
  <2>1. SUFFICES ASSUME NEW s \in SUBSET S
                 PROVE  IsFiniteSet(s) /\ SUM(d, s) \in Int
    OBVIOUS
  <2>2. IsFiniteSet(s)
    BY FS_Subset
  <2>3. QED
    BY <2>2, SumIsInt
<1>2. ASSUME NEW s \in SUBSET S, s # {}
      PROVE  /\ Pick(s) \in s /\ s \ {Pick(s)} \in SUBSET S
             /\ SUM(d, s) % Word = (d[Pick(s)] + (SUM(d, s \ {Pick(s)}) % Word)) % Word
  <2>1. Pick(s) \in s
    BY <1>2 DEF Pick
  <2>2. SUM(d, s) = d[Pick(s)] + SUM(d, s \ {Pick(s)})
    BY <1>1, <1>2, SumStep
  <2>3. d[Pick(s)] \in Int /\ s \ {Pick(s)} \in SUBSET S
    BY <2>1
  <2>4. SUM(d, s \ {Pick(s)}) \in Int
    BY <1>1, <2>3
  <2> DEFINE a == d[Pick(s)]
             b == SUM(d, s \ {Pick(s)})
  <2>5. a \in Int /\ b \in Int /\ SUM(d, s) = a + b
    BY <2>2, <2>3, <2>4
  <2> HIDE DEF a, b
  <2>6. (a + (b % Word)) % Word = (a + b) % Word
    BY <1>0, <2>5, WrappedSum
  <2>7. SUM(d, s) % Word = (a + (b % Word)) % Word
    BY <2>5, <2>6
  <2>8. QED
    BY <2>1, <2>3, <2>7 DEF a, b
<1>3. SUM(d, {}) % Word = 0
  BY <1>0, SumOfNothing
<1>4. Wraps(d, S, w)
  <2>1. w = [s \in SUBSET S |-> w[s]]
    OBVIOUS
  <2>2. \A s \in SUBSET S : w[s] = IF s = {} THEN 0 ELSE (d[Pick(s)] + w[s \ {Pick(s)}]) % Word
    BY <1>2, <1>3
  <2> HIDE DEF w
  <2>3. [s \in SUBSET S |-> w[s]]
         = [s \in SUBSET S |-> IF s = {} THEN 0 ELSE (d[Pick(s)] + w[s \ {Pick(s)}]) % Word]
    BY <2>2
  <2>4. QED
    BY <2>1, <2>3 DEF Wraps
<1>5. ASSUME NEW g, Wraps(d, S, g)
      PROVE  g[S] = w[S]
  <2> DEFINE T == {s \in SUBSET S : g[s] # w[s]}
  <2>1. SUFFICES ASSUME T # {}
                 PROVE  FALSE
    OBVIOUS
  <2>2. T \subseteq SUBSET S
    OBVIOUS
  <2>3. PICK s \in T : \A y \in T : y \subseteq s => y = s
    <3> HIDE DEF T
    <3>1. QED
      BY <2>1, <2>2, MinimalSubset
  <2>4. CASE s = {}
    BY <1>3, <1>5, <2>3, <2>4 DEF Wraps
  <2>5. CASE s # {}
    <3> DEFINE t == s \ {Pick(s)}
    <3>1. s \in SUBSET S /\ g[s] # w[s]
      BY <2>3
    <3>2. Pick(s) \in s /\ t \in SUBSET S /\ t \subseteq s /\ t # s
      BY <1>2, <2>5, <3>1
    <3>3. g[t] = w[t]
      BY <2>3, <3>2
    <3>4. g[s] = (d[Pick(s)] + g[t]) % Word
      BY <1>5, <2>5, <3>1 DEF Wraps
    <3>5. w[s] = (d[Pick(s)] + w[t]) % Word
      BY <1>2, <2>5, <3>1, <3>2
    <3> HIDE DEF w, T, t
    <3>6. QED
      BY <3>1, <3>3, <3>4, <3>5
  <2>6. QED
    BY <2>4, <2>5
<1>6. SumOf(d) = (CHOOSE g : Wraps(d, S, g))[S]
  BY SumOfUnfold
<1>7. Wraps(d, S, CHOOSE g : Wraps(d, S, g))
  <2> HIDE DEF w
  <2>1. QED
    BY <1>4
<1>8. w[S] = SUM(d, S) % Word
  OBVIOUS
<1> DEFINE G == CHOOSE g : Wraps(d, S, g)
<1>9. Wraps(d, S, G) /\ SumOf(d) = G[S]
  BY <1>6, <1>7
<1> HIDE DEF w, G
<1>10. QED
  BY <1>5, <1>8, <1>9

Image(h, U) == {h[i] : i \in U}

\* The sum does not depend on the order.
LEMMA SumRearranged ==
  ASSUME NEW e, NEW d, IsFiniteSet(DOMAIN e), Rearranged(e, d),
         \A i \in DOMAIN e : e[i] \in Int
  PROVE  SUM(e, DOMAIN e) = SUM(d, DOMAIN d)
<1>1. PICK h \in Bijection(DOMAIN e, DOMAIN d) : \A k \in DOMAIN e : e[k] = d[h[k]]
  BY DEF Rearranged
<1>2. /\ \A i \in DOMAIN e : h[i] \in DOMAIN d
      /\ \A i, j \in DOMAIN e : h[i] = h[j] => i = j
      /\ \A t \in DOMAIN d : \E s \in DOMAIN e : h[s] = t
  BY Fun_BijectionProperties
<1> DEFINE S == DOMAIN e
           P(U) == SUM(e, U) = SUM(d, Image(h, U))
           T == {U \in SUBSET S : ~P(U)}
<1>3. IsFiniteSet(DOMAIN d) /\ \A j \in DOMAIN d : d[j] \in Int
  <2>1. ExistsBijection(DOMAIN e, DOMAIN d)
    BY DEF ExistsBijection
  <2>2. IsFiniteSet(DOMAIN d)
    BY <2>1, FS_Bijection
  <2>3. QED
    BY <2>2, RearrangedValues
<1>4. P(S)
  <2>1. SUFFICES ASSUME T # {}
                 PROVE  FALSE
    OBVIOUS
  <2>2. T \subseteq SUBSET S
    OBVIOUS
  <2>3. PICK U \in T : \A y \in T : y \subseteq U => y = U
    <3> HIDE DEF T
    <3>1. QED
      BY <2>1, <2>2, MinimalSubset
  <2>4. U \in SUBSET S /\ ~P(U) /\ IsFiniteSet(U)
    BY <2>3, FS_Subset
  <2>5. CASE U = {}
    <3>1. Image(h, U) = {}
      BY <2>5 DEF Image
    <3>2. QED
      BY <2>4, <2>5, <3>1, SumOfNothing
  <2>6. CASE U # {}
    <3> DEFINE p == Pick(U)
               V == U \ {p}
    <3>1. p \in U /\ p \in S
      BY <2>6, <2>4 DEF Pick
    <3>2. V \in SUBSET S /\ V # U /\ V \subseteq U
      BY <3>1, <2>4
    <3>3. P(V)
      BY <2>3, <3>2
    <3>4. SUM(e, U) = e[p] + SUM(e, V)
      BY <2>4, <2>6, SumStep
    <3>5. h[p] \in Image(h, U) /\ Image(h, U) \subseteq DOMAIN d
      BY <1>2, <2>4, <3>1 DEF Image
    <3>6. IsFiniteSet(Image(h, U)) /\ \A j \in Image(h, U) : d[j] \in Int
      BY <1>3, <3>5, FS_Subset
    <3>7. Image(h, U) \ {h[p]} = Image(h, V)
      BY <1>2, <2>4, <3>1 DEF Image
    <3>8. SUM(d, Image(h, U)) = d[h[p]] + SUM(d, Image(h, U) \ {h[p]})
      BY <3>5, <3>6, SumAnyOrder
    <3>9. e[p] = d[h[p]]
      BY <1>1, <3>1
    <3>10. QED
      BY <2>4, <3>3, <3>4, <3>7, <3>8, <3>9
  <2>7. QED
    BY <2>5, <2>6
<1>5. Image(h, S) = DOMAIN d
  BY <1>2 DEF Image
<1>6. QED
  BY <1>4, <1>5

\* A sum of n numbers up to B is at most n * B.
LEMMA SumBounded ==
  ASSUME NEW f, NEW S, IsFiniteSet(S), NEW B \in Nat, \A i \in S : f[i] \in 0..B
  PROVE  SUM(f, S) \in 0..(Cardinality(S) * B)
<1> DEFINE P(U) == SUM(f, U) \in 0..(Cardinality(U) * B)
           T == {U \in SUBSET S : ~P(U)}
<1>1. SUFFICES ASSUME T # {}
               PROVE  FALSE
  OBVIOUS
<1>2. T \subseteq SUBSET S
  OBVIOUS
<1>3. PICK U \in T : \A y \in T : y \subseteq U => y = U
  <2> HIDE DEF T
  <2>1. QED
    BY <1>1, <1>2, MinimalSubset
<1>4. U \in SUBSET S /\ ~P(U) /\ IsFiniteSet(U)
  BY <1>3, FS_Subset
<1>5. CASE U = {}
  <2>1. Cardinality(U) = 0 /\ SUM(f, U) = 0
    BY <1>5, FS_EmptySet, SumOfNothing
  <2>2. Cardinality(U) * B = 0
    BY <2>1
  <2>3. QED
    BY <1>4, <2>1, <2>2
<1>6. CASE U # {}
  <2> DEFINE p == Pick(U)
             V == U \ {p}
  <2>1. p \in U /\ p \in S
    BY <1>6, <1>4 DEF Pick
  <2>2. V \in SUBSET S /\ V # U /\ V \subseteq U
    BY <2>1, <1>4
  <2>3. P(V)
    BY <1>3, <2>2
  <2>4. SUM(f, U) = f[p] + SUM(f, V)
    BY <1>4, <1>6, SumStep
  <2>5. IsFiniteSet(V) /\ Cardinality(V) = Cardinality(U) - 1
    BY <1>4, <2>1, FS_RemoveElement
  <2>6. Cardinality(V) \in Nat /\ Cardinality(U) \in Nat
    BY <1>4, <2>5, FS_CardinalityType
  <2> DEFINE m == Cardinality(V)
  <2>7. (m + 1) * B = m * B + B /\ m * B \in Nat
    <3>1. m \in Nat
      BY <2>6
    <3> HIDE DEF m
    <3>2. QED
      BY <3>1
  <2>8. Cardinality(U) = m + 1 /\ SUM(f, V) \in 0..(m * B) /\ f[p] \in 0..B
    BY <2>1, <2>3, <2>5, <2>6
  <2> HIDE DEF m, V, p
  <2>9. SUM(f, U) \in 0..(m * B + B)
    BY <2>4, <2>7, <2>8
  <2>10. QED
    BY <1>4, <2>7, <2>8, <2>9
<1>7. QED
  BY <1>5, <1>6

------------------------------------------------------------------------------
(* print_stats *)

\* The square of the wrapped difference, wrapped, is the square of the difference.
LEMMA WrappedSquare ==
  ASSUME NEW B \in Nat, B * B < Word, NEW x \in 0..B, NEW a \in 0..B
  PROVE  /\ (Sub(x, a) * Sub(x, a)) % Word = (x - a) * (x - a)
         /\ (x - a) * (x - a) \in 0..(B * B)
<1>0. Word \in Nat \ {0}
  BY ReportAssumption
<1> DEFINE m == IF x >= a THEN x - a ELSE a - x
<1>1. m \in 0..B
  OBVIOUS
<1>2. (x - a) * (x - a) = m * m
  <2>1. CASE x >= a
    BY <2>1
  <2>2. CASE x < a
    <3>1. x - a = -m /\ m \in Int
      BY <2>2
    <3> HIDE DEF m
    <3>2. (-m) * (-m) = m * m
      BY <3>1
    <3>3. QED
      BY <3>1, <3>2
  <2>3. QED
    BY <2>1, <2>2
<1>3. m * m \in 0..(B * B)
  <2> HIDE DEF m
  <2>1. m * m <= B * m
    BY <1>1, ProductOrdered
  <2>2. m * B <= B * B
    BY <1>1, ProductOrdered
  <2>3. m * m \in Nat /\ B * m = m * B /\ m * B \in Nat /\ B * B \in Nat
    BY <1>1
  <2>4. QED
    BY <2>1, <2>2, <2>3
<1>4. m < Word
  <2>1. CASE m = 0
    BY <1>0, <2>1
  <2>2. CASE m # 0
    <3> HIDE DEF m
    <3>1. 1 * m <= m * m
      BY <1>1, <2>2, ProductOrdered
    <3>2. 1 * m = m /\ m * m \in Nat /\ B * B \in Nat
      BY <1>1
    <3>3. QED
      BY <1>0, <1>1, <1>3, <3>1, <3>2
  <2>3. QED
    BY <2>1, <2>2
<1>5. m * m \in 0..(Word - 1)
  <2>1. B * B \in Nat
    OBVIOUS
  <2> HIDE DEF m
  <2>2. QED
    BY <1>0, <1>3, <2>1
<1>6. (m * m) % Word = m * m
  <2> DEFINE r == m * m
  <2>1. r \in 0..(Word - 1)
    BY <1>5
  <2> HIDE DEF r
  <2>2. (0 * Word + r) % Word = r
    BY <1>0, <2>1, RemainderIs
  <2>3. 0 * Word + r = r
    BY <1>0, <2>1
  <2>4. QED
    BY <2>2, <2>3 DEF r
<1>7. CASE x >= a
  <2>1. x - a = m /\ m \in 0..(Word - 1)
    BY <1>0, <1>1, <1>4, <1>7
  <2> HIDE DEF m
  <2>2. (0 * Word + m) % Word = m
    BY <1>0, <2>1, RemainderIs
  <2>3. 0 * Word + m = m
    BY <1>0, <1>1
  <2>4. Sub(x, a) = m
    BY <2>1, <2>2, <2>3 DEF Sub
  <2>5. QED
    BY <1>2, <1>3, <1>6, <2>4
<1>8. CASE x < a
  <2>1. x - a = -m /\ m \in 1..(Word - 1)
    BY <1>0, <1>1, <1>4, <1>8
  <2> HIDE DEF m
  <2> DEFINE r == Word - m
  <2>2. r \in 0..(Word - 1) /\ x - a = (-1) * Word + r
    BY <1>0, <2>1
  <2>3. ((-1) * Word + r) % Word = r
    <3> HIDE DEF r
    <3>1. QED
      BY <1>0, <2>2, RemainderIs
  <2>4. Sub(x, a) = r
    BY <2>2, <2>3 DEF Sub
  <2>5. r * r = (Word - 2 * m) * Word + m * m
    <3>1. m \in Int /\ Word \in Int
      BY <1>0, <2>1
    <3>2. QED
      BY <3>1
  <2> DEFINE q == Word - 2 * m
             t == m * m
  <2>6. q \in Int /\ t \in 0..(Word - 1)
    BY <1>0, <1>5, <2>1
  <2>7. (q * Word + t) % Word = t
    <3> HIDE DEF q, t
    <3>1. QED
      BY <1>0, <2>6, RemainderIs
  <2>8. QED
    BY <1>2, <1>3, <2>4, <2>5, <2>7
<1>9. QED
  BY <1>7, <1>8

\* The averages of numbers up to B are up to B.
LEMMA QuotientBounded ==
  ASSUME NEW n \in Nat \ {0}, NEW B \in Nat, NEW s \in 0..(n * B)
  PROVE  s \div n \in 0..B
<1> DEFINE q == s \div n
<1>0. s \in Nat /\ n * B = B * n /\ B * n \in Nat /\ s <= B * n
  OBVIOUS
<1>1. q \in Int /\ q >= 0 /\ q * n <= s
  BY <1>0
<1> HIDE DEF q
<1>2. ASSUME q > B
      PROVE  FALSE
  <2>1. (B + 1) * n <= q * n
    BY <1>1, <1>2, ProductOrdered
  <2>2. (B + 1) * n = B * n + n /\ q * n \in Int
    BY <1>1
  <2>3. QED
    BY <1>0, <1>1, <2>1, <2>2
<1>3. QED
  BY <1>1, <1>2 DEF q

Count(n) == IF n = 0 THEN 1 ELSE n
Average(d, n) == SUM(d, DOMAIN d) \div Count(n)
Deviations(d, a) == [j \in DOMAIN d |-> (d[j] - a) * (d[j] - a)]
Usable(v) == IF v < Usize THEN v ELSE 0

\* A number below Word is not wrapped.
LEMMA NotWrapped ==
  ASSUME NEW v \in Nat, v < Word
  PROVE  v % Word = v
<1>0. Word \in Nat \ {0}
  BY ReportAssumption
<1>1. v \in 0..(Word - 1)
  BY <1>0
<1>2. (0 * Word + v) % Word = v
  BY <1>0, <1>1, RemainderIs
<1>3. QED
  BY <1>0, <1>2

\* Average and variance, by their parts.
LEMMA MomentsParts ==
  ASSUME NEW n \in Nat, NEW d, IsFiniteSet(DOMAIN d), Cardinality(DOMAIN d) = n, NEW p,
         p.avg = Average(d, n),
         p.variance = Usable(SUM(Deviations(d, Average(d, n)), DOMAIN d) \div Count(n))
  PROVE  MomentsOf(p, d)
<1>1. DOMAIN d = {} <=> n = 0
  BY FS_EmptySet
<1> DEFINE m == IF DOMAIN d = {} THEN 1 ELSE Cardinality(DOMAIN d)
           avg == SumFunction(d) \div m
           f == [j \in DOMAIN d |-> (d[j] - avg) * (d[j] - avg)]
           v == SumFunction(f) \div m
<1>2. m = Count(n)
  BY <1>1 DEF Count
<1>3. avg = Average(d, n)
  BY <1>2 DEF Average, SumFunction, SUM
<1>4. f = Deviations(d, avg)
  BY DEF Deviations
<1>5. DOMAIN f = DOMAIN d
  OBVIOUS
<1>6. v = SUM(Deviations(d, avg), DOMAIN d) \div Count(n)
  <2> HIDE DEF f, m
  <2>1. SumFunction(f) = SUM(f, DOMAIN d)
    BY <1>5 DEF SumFunction, SUM
  <2>2. QED
    BY <1>2, <1>4, <2>1
<1>7. p.avg = avg /\ p.variance = IF v < Usize THEN v ELSE 0
  <2> HIDE DEF avg, v
  <2>1. QED
    BY <1>3, <1>6 DEF Usable
<1>8. QED
  BY <1>7 DEF MomentsOf

\* Average and variance that print_stats makes of a sequence are those of the
\* numbers, when their squares do not add up to Word.
LEMMA MomentsOfSorted ==
  ASSUME NEW B \in Nat, MaxResults * (B * B) < Word,
         NEW e \in Seq(0..B), Len(e) <= MaxResults, NEW d, Rearranged(e, d)
  PROVE  MomentsOf(print_stats(e), d)
<1> DEFINE n == Len(e)
           cnt == Count(n)
           BB == B * B
<1>0. Word \in Nat \ {0} /\ MaxResults \in Nat
  BY ReportAssumption
<1>1. n \in Nat /\ DOMAIN e = 1..n /\ \A j \in 1..n : e[j] \in 0..B
  BY LenProperties, ElementOfSeq
<1>2. n <= MaxResults
  OBVIOUS
<1> HIDE DEF n
<1>3. IsFiniteSet(1..n) /\ Cardinality(1..n) = n
  BY <1>1, FS_Interval
<1>4. IsFiniteSet(DOMAIN d) /\ Cardinality(DOMAIN d) = n
  BY <1>1, RearrangedSize
<1>5. cnt \in Nat \ {0} /\ n <= cnt
  BY <1>1 DEF Count
<1>6. BB \in Nat /\ B <= BB
  <2>1. BB \in Nat
    OBVIOUS
  <2>2. CASE B = 0
    BY <2>1, <2>2
  <2>3. CASE B # 0
    <3>1. 1 * B <= B * B
      BY <2>3, ProductOrdered
    <3>2. QED
      BY <2>1, <3>1
  <2>4. QED
    BY <2>1, <2>2, <2>3
<1>61. MaxResults * BB < Word
  OBVIOUS
<1>62. n # 0 => BB < Word
  <2> HIDE DEF BB
  <2>1. n # 0 => 1 * BB <= MaxResults * BB
    BY <1>0, <1>1, <1>2, <1>6, ProductOrdered
  <2>2. 1 * BB = BB /\ MaxResults * BB \in Nat
    BY <1>0, <1>6
  <2>3. QED
    BY <1>0, <1>6, <1>61, <2>1, <2>2
<1>63. n * BB \in Nat /\ n * BB < Word /\ n * B \in Nat /\ n * B <= n * BB /\ n * B <= cnt * B
       /\ cnt * B \in Nat
  <2>1. cnt \in Int
    BY <1>5
  <2> HIDE DEF BB, cnt
  <2>2. n * BB <= MaxResults * BB
    BY <1>0, <1>1, <1>2, <1>6, ProductOrdered
  <2>3. n * BB \in Nat /\ MaxResults * BB \in Nat /\ n * B \in Nat /\ cnt * B \in Nat
    BY <1>0, <1>1, <1>5, <1>6
  <2>4. n * B <= cnt * B
    BY <1>1, <1>5, ProductOrdered
  <2>5. B * n <= BB * n
    BY <1>1, <1>6, ProductOrdered
  <2>6. B * n = n * B /\ BB * n = n * BB
    BY <1>1, <1>6
  <2>7. QED
    BY <1>0, <1>61, <2>2, <2>3, <2>4, <2>5, <2>6
<1> HIDE DEF BB
<1> DEFINE T == SUM(e, 1..n)
<1>7. T = SUM(d, DOMAIN d) /\ T \in 0..(n * B)
  <2>1. \A i \in 1..n : e[i] \in Int
    BY <1>1
  <2>2. T = SUM(d, DOMAIN d)
    BY <1>1, <1>3, <2>1, SumRearranged
  <2>3. T \in 0..(n * B)
    BY <1>1, <1>3, SumBounded
  <2>4. QED
    BY <2>2, <2>3
<1> HIDE DEF T
<1>8. SumOf(e) = T
  <2>1. SumOf(e) = T % Word
    <3>1. \A j \in DOMAIN e : e[j] \in Int
      BY <1>1
    <3>2. QED
      BY <1>1, <1>3, <3>1, SumOfIsRemainder DEF T
  <2>2. T \in Nat /\ T < Word
    BY <1>0, <1>7, <1>63
  <2>3. QED
    BY <2>1, <2>2, NotWrapped
<1> DEFINE avg == T \div cnt
<1>9. avg = Average(d, n)
  BY <1>7 DEF Average
<1>10. avg \in 0..B
  <2>1. T \in 0..(cnt * B)
    BY <1>7, <1>63
  <2> HIDE DEF cnt
  <2>2. QED
    BY <1>5, <2>1, QuotientBounded
<1> HIDE DEF avg
<1> DEFINE sq == Squares(e, avg)
<1>11. DOMAIN sq = 1..n
  BY <1>1 DEF Squares
<1>12. \A j \in 1..n : sq[j] = (e[j] - avg) * (e[j] - avg) /\ sq[j] \in 0..BB
  <2>1. SUFFICES ASSUME NEW j \in 1..n
                 PROVE  sq[j] = (e[j] - avg) * (e[j] - avg) /\ sq[j] \in 0..BB
    OBVIOUS
  <2> DEFINE x == e[j]
  <2>2. x \in 0..B
    BY <1>1
  <2>3. sq[j] = (Sub(x, avg) * Sub(x, avg)) % Word
    BY <1>1 DEF Squares
  <2>4. B * B < Word
    BY <1>1, <1>62 DEF BB
  <2> HIDE DEF x, sq
  <2>5. /\ (Sub(x, avg) * Sub(x, avg)) % Word = (x - avg) * (x - avg)
        /\ (x - avg) * (x - avg) \in 0..BB
    BY <1>10, <2>2, <2>4, WrappedSquare DEF BB
  <2>6. QED
    BY <2>3, <2>5 DEF x
<1> HIDE DEF sq
<1> DEFINE dv == Deviations(d, avg)
<1>13. Rearranged(sq, dv)
  <2>1. DOMAIN dv = DOMAIN d
    BY DEF Deviations
  <2>2. PICK h \in Bijection(DOMAIN e, DOMAIN d) : \A k \in DOMAIN e : e[k] = d[h[k]]
    BY DEF Rearranged
  <2>3. \A k \in 1..n : h[k] \in DOMAIN d
    BY <1>1, Fun_BijectionProperties
  <2>4. \A k \in 1..n : sq[k] = dv[h[k]]
    BY <1>1, <1>12, <2>2, <2>3 DEF Deviations
  <2> HIDE DEF dv
  <2>5. QED
    BY <1>1, <1>11, <2>1, <2>2, <2>4 DEF Rearranged
<1>14. SUM(sq, 1..n) = SUM(dv, DOMAIN d) /\ SUM(sq, 1..n) \in 0..(n * BB)
  <2>1. \A i \in 1..n : sq[i] \in Int
    BY <1>12
  <2>2. DOMAIN dv = DOMAIN d
    BY DEF Deviations
  <2> HIDE DEF dv
  <2>3. SUM(sq, 1..n) = SUM(dv, DOMAIN d)
    BY <1>3, <1>11, <1>13, <2>1, <2>2, SumRearranged
  <2>4. SUM(sq, 1..n) \in 0..(n * BB)
    BY <1>3, <1>6, <1>12, SumBounded
  <2>5. QED
    BY <2>3, <2>4
<1>15. SumOf(sq) = SUM(dv, DOMAIN d)
  <2> DEFINE s == SUM(sq, 1..n)
  <2>1. \A i \in 1..n : sq[i] \in Int
    BY <1>12
  <2>2. SumOf(sq) = s % Word
    BY <1>3, <1>11, <2>1, SumOfIsRemainder
  <2>3. s \in Nat /\ s < Word
    BY <1>0, <1>14, <1>63
  <2> HIDE DEF s, dv
  <2>4. s % Word = s
    BY <2>3, NotWrapped
  <2>5. QED
    BY <1>14, <2>2, <2>4 DEF s
<1>16. /\ print_stats(e).avg = avg
       /\ print_stats(e).variance = Usable(SumOf(sq) \div cnt)
  BY <1>8 DEF print_stats, Count, Usable, n, sq, avg
<1> HIDE DEF cnt, dv
<1>17. QED
  BY <1>1, <1>4, <1>9, <1>15, <1>16, MomentsParts DEF cnt, dv

\* The quantiles that print_stats reads off a sorted sequence are those of the
\* numbers.
LEMMA QuantilesOfSorted ==
  ASSUME NEW e \in Seq(Int), Ascending(e), NEW d, Rearranged(e, d)
  PROVE  QuantilesOf(print_stats(e), d)
<1> DEFINE n == Len(e)
           p == print_stats(e)
<1>1. n \in Nat /\ DOMAIN e = 1..n /\ \A j \in 1..n : e[j] \in Int
  BY LenProperties, ElementOfSeq
<1>2. /\ p.min = Nth(e, 0) /\ p.max = IF n = 0 THEN 0 ELSE e[n]
      /\ p.q01 = Nth(e, n \div 100) /\ p.q1 = Nth(e, n \div 4) /\ p.q2 = Nth(e, n \div 2)
      /\ p.q3 = Nth(e, (3 * n) \div 4) /\ p.q99 = Nth(e, (99 * n) \div 100)
  BY DEF print_stats
<1>3. \A k \in Nat : Nth(e, k) = IF k < n THEN e[k + 1] ELSE 0
  BY DEF Nth
<1> HIDE DEF n, p
<1>4. Cardinality(DOMAIN d) = n
  BY <1>1, RearrangedSize
<1>5. CASE n = 0
  <2>1. {p.min, p.q01, p.q1, p.q2, p.q3, p.q99, p.max} = {0}
    <3>1. n \div 100 = 0 /\ n \div 4 = 0 /\ n \div 2 = 0
          /\ (3 * n) \div 4 = 0 /\ (99 * n) \div 100 = 0
      BY <1>5
    <3>2. Nth(e, 0) = 0
      BY <1>3, <1>5
    <3>3. QED
      BY <1>2, <1>5, <3>1, <3>2
  <2>2. QED
    BY <1>4, <1>5, <2>1 DEF QuantilesOf, p
<1>6. CASE n # 0
  <2>1. /\ n \div 100 \in 0..(n - 1) /\ n \div 4 \in 0..(n - 1) /\ n \div 2 \in 0..(n - 1)
        /\ (3 * n) \div 4 \in 0..(n - 1) /\ (99 * n) \div 100 \in 0..(n - 1)
        /\ 0 \in 0..(n - 1) /\ n - 1 \in 0..(n - 1)
    BY <1>1, <1>6
  <2>2. \A k \in 0..(n - 1) : HasRank(Nth(e, k), k, d)
    <3>1. SUFFICES ASSUME NEW k \in 0..(n - 1)
                   PROVE  HasRank(Nth(e, k), k, d)
      OBVIOUS
    <3>2. Nth(e, k) = e[k + 1]
      BY <1>1, <1>3
    <3>3. HasRank(e[k + 1], k, d)
      BY <1>1, RankOfSorted
    <3>4. QED
      BY <3>2, <3>3
  <2>3. p.max = Nth(e, n - 1)
    BY <1>1, <1>2, <1>3, <1>6
  <2>4. /\ HasRank(p.min, 0, d) /\ HasRank(p.q01, n \div 100, d)
        /\ HasRank(p.q1, n \div 4, d) /\ HasRank(p.q2, n \div 2, d)
        /\ HasRank(p.q3, (3 * n) \div 4, d)
        /\ HasRank(p.q99, (99 * n) \div 100, d) /\ HasRank(p.max, n - 1, d)
    BY <1>2, <2>1, <2>2, <2>3
  <2>5. QED
    BY <1>4, <1>6, <2>4 DEF QuantilesOf, p
<1>7. QED
  BY <1>5, <1>6

------------------------------------------------------------------------------
(* group_by *)

First(s) == {j \in DOMAIN s : j = 1 \/ s[j - 1].msg # s[j].msg}
Run(s, j) == {i \in DOMAIN s : i >= j /\ \A l \in j..i : s[l].msg = s[j].msg}
Text(s, m) == {i \in DOMAIN s : s[i].msg = m}

LEMMA GroupParts ==
  ASSUME NEW s
  PROVE  /\ DOMAIN group_by(s) = First(s)
         /\ \A j \in First(s) : /\ group_by(s)[j].msg = s[j].msg
                                /\ group_by(s)[j].num = Cardinality(Run(s, j))
  BY DEF group_by, First, Run

\* Of sorted texts each makes one group, as long as there are texts like it.
LEMMA GroupsOfSorted ==
  ASSUME NEW n \in Nat, NEW s, DOMAIN s = 1..n, \A j \in 1..n : s[j].msg \in Int,
         Ascending(Column(s, "msg")), NEW m
  PROVE  {group_by(s)[j].num : j \in {i \in DOMAIN group_by(s) : group_by(s)[i].msg = m}}
           = IF Text(s, m) = {} THEN {} ELSE {Cardinality(Text(s, m))}
<1> DEFINE G == {i \in DOMAIN group_by(s) : group_by(s)[i].msg = m}
<1>1. G = First(s) \cap Text(s, m)
  BY GroupParts DEF First, Text
<1>2. \A i, j \in 1..n : i <= j => s[i].msg <= s[j].msg
  BY DEF Ascending, Column
<1>3. \A j \in G : group_by(s)[j].num = Cardinality(Run(s, j))
  BY <1>1, GroupParts
<1>4. ASSUME NEW j \in G
      PROVE  Run(s, j) = Text(s, m) /\ \A i \in Text(s, m) : j <= i
  <2>1. j \in 1..n /\ s[j].msg = m /\ (j = 1 \/ s[j - 1].msg # m)
    BY <1>1, <1>4 DEF First, Text
  <2>2. ASSUME NEW i \in 1..n, s[i].msg = m
        PROVE  j <= i /\ \A l \in j..i : s[l].msg = m
    <3>1. j <= i
      <4>1. SUFFICES ASSUME i < j
                     PROVE  FALSE
        BY <2>1
      <4>2. j - 1 \in 1..n /\ i <= j - 1 /\ j - 1 <= j
        BY <2>1, <4>1
      <4>3. s[i].msg <= s[j - 1].msg /\ s[j - 1].msg <= s[j].msg
        BY <1>2, <2>1, <4>2
      <4>4. s[j - 1].msg \in Int /\ m \in Int
        BY <2>1, <4>2
      <4>5. s[j - 1].msg = m
        BY <2>1, <2>2, <4>3, <4>4
      <4>6. QED
        BY <2>1, <4>1, <4>5
    <3>2. ASSUME NEW l \in j..i
          PROVE  s[l].msg = m
      <4>1. l \in 1..n /\ j <= l /\ l <= i
        BY <2>1
      <4>2. s[j].msg <= s[l].msg /\ s[l].msg <= s[i].msg
        BY <1>2, <2>1, <4>1
      <4>3. s[l].msg \in Int /\ m \in Int
        BY <2>1, <4>1
      <4>4. QED
        BY <2>1, <2>2, <4>2, <4>3
    <3>3. QED
      BY <3>1, <3>2
  <2>3. \A i \in Run(s, j) : i \in Text(s, m)
    <3>1. \A i \in Run(s, j) : i \in 1..n /\ i >= j /\ i \in j..i
      BY <2>1 DEF Run
    <3>2. QED
      BY <2>1, <3>1 DEF Run, Text
  <2>4. \A i \in Text(s, m) : i \in Run(s, j) /\ j <= i
    BY <2>1, <2>2 DEF Run, Text
  <2>5. QED
    BY <2>3, <2>4
<1>5. Text(s, m) # {} => \E j \in G : TRUE
  <2>1. SUFFICES ASSUME Text(s, m) # {}
                 PROVE  \E j \in G : TRUE
    OBVIOUS
  <2>2. Text(s, m) \subseteq Nat
    BY DEF Text
  <2>3. PICK j \in Text(s, m) : \A i \in Text(s, m) : j <= i
    BY <2>1, <2>2, LeastNumber
  <2>4. j \in 1..n /\ s[j].msg = m
    BY <2>3 DEF Text
  <2>5. j # 1 => s[j - 1].msg # m
    <3>1. SUFFICES ASSUME j # 1, s[j - 1].msg = m
                   PROVE  FALSE
      OBVIOUS
    <3>2. j - 1 \in 1..n
      BY <2>4, <3>1
    <3>3. j - 1 \in Text(s, m)
      BY <3>1, <3>2 DEF Text
    <3>4. QED
      BY <2>3, <2>4, <3>3
  <2>6. j \in First(s)
    BY <2>4, <2>5 DEF First
  <2>7. QED
    BY <1>1, <2>3, <2>6
<1>6. G # {} => Text(s, m) # {}
  BY <1>1
<1> HIDE DEF G
<1>7. {group_by(s)[j].num : j \in G} = IF Text(s, m) = {} THEN {} ELSE {Cardinality(Text(s, m))}
  BY <1>3, <1>4, <1>5, <1>6
<1>8. QED
  BY <1>7 DEF G

------------------------------------------------------------------------------
(* The invariant holds in the beginning, and while the results are collected *)

\* The fields of answers are Values, the texts of errors are numbers.
LEMMA OutcomeFacts ==
  ASSUME NEW o \in Outcomes
  PROVE  /\ o.ok \in BOOLEAN
         /\ o.ok => o.res \in Results
         /\ ~o.ok => o \in Failures
<1>1. CASE o \in Failures
  <2>1. PICK m \in Messages : o = [ok |-> FALSE, msg |-> m]
    BY <1>1 DEF Failures
  <2>2. o.ok = FALSE
    BY <2>1
  <2>3. QED
    BY <1>1, <2>2
<1>2. CASE o \notin Failures
  <2>1. PICK s \in Samples : o = [ok |-> TRUE, res |-> s]
    BY <1>2 DEF Outcomes, Failures
  <2>2. s \in [Fields -> 0..(Word - 1)]
    BY ReportAssumption
  <2>3. \A c \in Fields : s[c] \in Values
    BY <2>2 DEF Values, AtMost
  <2>4. s \in Results
    BY <2>2, <2>3 DEF Results
  <2>5. o.ok = TRUE /\ o.res = s
    BY <2>1
  <2>6. QED
    BY <2>4, <2>5
<1>3. QED
  BY <1>1, <1>2

LEMMA FailureFacts ==
  ASSUME NEW o \in Failures
  PROVE  o.ok = FALSE /\ o.msg \in Messages /\ o.msg \in Int /\ o = [ok |-> FALSE, msg |-> o.msg]
  BY ReportAssumption DEF Failures

LEMMA ResultFacts ==
  ASSUME NEW r \in Results, NEW c \in Fields
  PROVE  r[c] \in Values /\ r[c] \in Int /\ r[c] \in 0..(Word - 1)
  BY ReportAssumption DEF Results, Values

\* What the requests returned does not change with them.
LEMMA SameOutcome ==
  ASSUME outcome' = outcome
  PROVE  /\ \A n : OkTill(n)' = OkTill(n) /\ ErrTill(n)' = ErrTill(n)
         /\ \A c : Answers(c)' = Answers(c)
         /\ \A c : Held(c)' = Held(c)
         /\ StartColumn' = StartColumn
<1>1. \A n : OkTill(n)' = OkTill(n) /\ ErrTill(n)' = ErrTill(n)
  BY DEF OkTill, ErrTill, Oks, Errs
<1>2. \A c : Answers(c)' = Answers(c)
  BY DEF Answers
<1>3. StartColumn' = StartColumn
  BY <1>2 DEF StartColumn, Starts
<1>4. \A c : Held(c)' = Held(c)
  BY <1>2, <1>3 DEF Held
<1>5. QED
  BY <1>1, <1>2, <1>3, <1>4

LEMMA ColumnFacts ==
  /\ Len(Columns) = 5 /\ DOMAIN Columns = 1..5
  /\ Columns[1] = "start_time" /\ Columns[2] = "us_request" /\ Columns[3] = "us_status"
  /\ Columns[4] = "num_bytes" /\ Columns[5] = "done"
  /\ Range(Columns) = {"start_time", "us_request", "us_status", "num_bytes", "done"}
  /\ Range(Columns) = Fields \cup {"done"}
<1>1. /\ Len(Columns) = 5 /\ DOMAIN Columns = 1..5
      /\ Columns[1] = "start_time" /\ Columns[2] = "us_request" /\ Columns[3] = "us_status"
      /\ Columns[4] = "num_bytes" /\ Columns[5] = "done"
  BY DEF Columns
<1>2. \A x : x \in 1..5 <=> x \in {1, 2, 3, 4, 5}
  OBVIOUS
<1>3. Range(Columns) = {Columns[j] : j \in {1, 2, 3, 4, 5}}
  BY <1>1, <1>2 DEF Range
<1>4. Range(Columns) = {"start_time", "us_request", "us_status", "num_bytes", "done"}
  BY <1>1, <1>3
<1>5. QED
  BY <1>1, <1>4 DEF Fields

LEMMA ReportInvInit == ReportInit => ReportInv
<1> SUFFICES ASSUME ReportInit PROVE ReportInv
  OBVIOUS
<1>0. MaxResults \in Nat
  BY ReportAssumption
<1>1. outcome \in Seq(Outcomes) /\ Len(outcome) <= MaxResults
  <2>1. PICK n \in 0..MaxResults : outcome \in [1..n -> Outcomes]
    BY DEF ReportInit, BoundedSeq, SeqOf
  <2>2. outcome \in Seq(Outcomes)
    BY <1>0, <2>1, SeqDef
  <2>3. Len(outcome) \in Nat /\ DOMAIN outcome = 1..Len(outcome) /\ DOMAIN outcome = 1..n
    BY <2>1, <2>2, LenProperties
  <2>4. QED
    BY <1>0, <2>2, <2>3
<1>2. results = <<>> /\ errors = <<>> /\ stage = "collect" /\ idx = 0 /\ printed = <<>>
  BY DEF ReportInit
<1>3. ShapeInv
  <2>1. results \in Seq(Results) /\ errors \in Seq(Failures) /\ Len(results) = 0 /\ Len(errors) = 0
    BY <1>2
  <2>2. Len(outcome) \in Nat
    BY <1>1, LenProperties
  <2>3. QED
    BY <1>0, <1>1, <1>2, <2>1, <2>2 DEF ShapeInv, Stages
<1>4. CollectInv
  <2>1. DOMAIN results = {} /\ DOMAIN errors = {}
    BY <1>2
  <2>2. DOMAIN OkTill(0) = {} /\ DOMAIN ErrTill(0) = {}
    BY DEF OkTill, ErrTill, Oks, Errs
  <2>3. ASSUME NEW e, NEW d, DOMAIN e = {}, DOMAIN d = {}
        PROVE  Rearranged(e, d)
    <3> DEFINE h == [k \in DOMAIN e |-> k]
    <3>1. h \in [DOMAIN e -> DOMAIN d]
      BY <2>3
    <3>2. h \in Bijection(DOMAIN e, DOMAIN d)
      BY <2>3, <3>1, IsBijection
    <3> HIDE DEF h
    <3>3. QED
      BY <2>3, <3>2 DEF Rearranged
  <2>4. QED
    BY <1>2, <2>1, <2>2, <2>3 DEF CollectInv
<1>5. DiffInv /\ ColumnsInv /\ TallyInv
  BY <1>2, ColumnFacts DEF DiffInv, ColumnsInv, TallyInv
<1>6. PrintedInv
  <2>1. DOMAIN printed = {}
    BY <1>2
  <2>2. \A k \in 1..Len(Columns) : stage # Columns[k]
    BY <1>2, ColumnFacts
  <2>3. QED
    BY <2>1, <2>2 DEF PrintedInv
<1>7. QED
  BY <1>3, <1>4, <1>5, <1>6 DEF ReportInv

\* The next result goes to the answers or to the errors.
LEMMA CollectStep == ReportInv /\ Collect => ReportInv'
<1> SUFFICES ASSUME ReportInv, Collect PROVE ReportInv'
  OBVIOUS
<1> DEFINE o == outcome[idx + 1]
           n == idx + 1
<1>0. MaxResults \in Nat
  BY ReportAssumption
<1>1. /\ stage = "collect" /\ idx < Len(outcome) /\ idx' = n
      /\ results' = (IF o.ok THEN Append(results, o.res) ELSE results)
      /\ errors' = (IF o.ok THEN errors ELSE Append(errors, o))
      /\ outcome' = outcome /\ stage' = stage /\ printed' = printed /\ tally' = tally
  BY DEF Collect
<1>2. /\ outcome \in Seq(Outcomes) /\ Len(outcome) <= MaxResults /\ idx \in 0..MaxResults
      /\ results \in Seq(Results) /\ errors \in Seq(Failures)
      /\ Len(results) + Len(errors) = idx
  BY <1>1 DEF ReportInv, ShapeInv
<1>3. /\ Len(outcome) \in Nat /\ DOMAIN outcome = 1..Len(outcome)
      /\ Len(results) \in Nat /\ Len(errors) \in Nat
  BY <1>2, LenProperties
<1>4. n \in 1..Len(outcome) /\ n \in 0..MaxResults /\ n \in Nat /\ o \in Outcomes
  BY <1>0, <1>1, <1>2, <1>3, ElementOfSeq
<1>5. o.ok \in BOOLEAN /\ (o.ok => o.res \in Results) /\ (~o.ok => o \in Failures)
  BY <1>4, OutcomeFacts
<1> HIDE DEF o
<1>6. ShapeInv'
  <2>0. results' \in Seq(Results) /\ errors' \in Seq(Failures) /\ Len(results') + Len(errors') = n
    <3>1. CASE o.ok
      <4>1. results' \in Seq(Results) /\ Len(results') = Len(results) + 1
        BY <1>1, <1>2, <1>5, <3>1, AppendProperties
      <4>2. errors' = errors /\ Len(errors') = Len(errors)
        BY <1>1, <3>1
      <4>3. Len(results') + Len(errors') = (Len(results) + 1) + Len(errors)
        BY <4>1, <4>2
      <4>4. \A a, b \in Nat : (a + 1) + b = (a + b) + 1
        OBVIOUS
      <4>5. Len(results') + Len(errors') = (Len(results) + Len(errors)) + 1
        BY <1>3, <4>3, <4>4
      <4>6. QED
        BY <1>2, <4>1, <4>2, <4>5
    <3>2. CASE ~o.ok
      <4>1. errors' \in Seq(Failures) /\ Len(errors') = Len(errors) + 1
        BY <1>1, <1>2, <1>5, <3>2, AppendProperties
      <4>2. results' = results /\ Len(results') = Len(results)
        BY <1>1, <3>2
      <4>3. Len(results') + Len(errors') = Len(results) + (Len(errors) + 1)
        BY <4>1, <4>2
      <4>4. \A a, b \in Nat : a + (b + 1) = (a + b) + 1
        OBVIOUS
      <4>5. Len(results') + Len(errors') = (Len(results) + Len(errors)) + 1
        BY <1>3, <4>3, <4>4
      <4>6. QED
        BY <1>2, <4>1, <4>2, <4>5
    <3>3. QED
      BY <3>1, <3>2
  <2>1. QED
    BY <1>1, <1>2, <1>3, <1>4, <2>0 DEF ShapeInv, Stages
<1>7. Rearranged(results, OkTill(idx)) /\ Rearranged(errors, ErrTill(idx))
  BY <1>1 DEF ReportInv, CollectInv
<1>8. /\ 1..n = (1..idx) \cup {n} /\ n \notin 1..idx
  BY <1>2
<1>9. Rearranged(results', OkTill(n)) /\ Rearranged(errors', ErrTill(n))
  <2>1. CASE o.ok
    <3>1. Oks(n) = Oks(idx) \cup {n} /\ Errs(n) = Errs(idx) /\ n \notin Oks(idx)
      BY <1>8, <2>1 DEF Oks, Errs, o
    <3>2. ErrTill(n) = ErrTill(idx)
      BY <3>1 DEF ErrTill
    <3> DEFINE d == OkTill(idx)
               f == OkTill(n)
    <3>3. /\ DOMAIN d = Oks(idx) /\ DOMAIN f = Oks(n) /\ f[n] = o.res
          /\ \A j \in DOMAIN d : f[j] = d[j]
      BY <3>1 DEF OkTill, o
    <3>4. f[n] \in Results /\ n \notin DOMAIN d /\ DOMAIN f = DOMAIN d \cup {n} /\ Rearranged(results, d)
      BY <1>5, <1>7, <2>1, <3>1, <3>3
    <3> HIDE DEF d, f
    <3>5. Rearranged(Append(results, f[n]), f)
      BY <1>2, <3>3, <3>4, RearrangedAppend
    <3>6. QED
      BY <1>1, <1>7, <2>1, <3>2, <3>3, <3>5 DEF f
  <2>2. CASE ~o.ok
    <3>1. Errs(n) = Errs(idx) \cup {n} /\ Oks(n) = Oks(idx) /\ n \notin Errs(idx)
      BY <1>8, <2>2 DEF Oks, Errs, o
    <3>2. OkTill(n) = OkTill(idx)
      BY <3>1 DEF OkTill
    <3> DEFINE d == ErrTill(idx)
               f == ErrTill(n)
    <3>3. /\ DOMAIN d = Errs(idx) /\ DOMAIN f = Errs(n) /\ f[n] = o
          /\ \A j \in DOMAIN d : f[j] = d[j]
      BY <3>1 DEF ErrTill, o
    <3>4. f[n] \in Failures /\ n \notin DOMAIN d /\ DOMAIN f = DOMAIN d \cup {n} /\ Rearranged(errors, d)
      BY <1>5, <1>7, <2>2, <3>1, <3>3
    <3> HIDE DEF d, f
    <3>5. Rearranged(Append(errors, f[n]), f)
      BY <1>2, <3>3, <3>4, RearrangedAppend
    <3>6. QED
      BY <1>1, <1>7, <2>2, <3>2, <3>3, <3>5 DEF f
  <2>3. QED
    BY <2>1, <2>2
<1>10. CollectInv'
  <2>2. OkTill(idx)' = OkTill(n) /\ ErrTill(idx)' = ErrTill(n)
    BY <1>1 DEF OkTill, ErrTill, Oks, Errs
  <2>3. QED
    BY <1>1, <1>9, <2>2 DEF CollectInv
<1>11. DiffInv' /\ ColumnsInv' /\ TallyInv'
  BY <1>1, ColumnFacts DEF DiffInv, ColumnsInv, TallyInv
<1>12. PrintedInv'
  <2>1. DOMAIN printed = {}
    BY <1>1, ColumnFacts DEF ReportInv, PrintedInv
  <2>2. \A k \in 1..Len(Columns) : stage' # Columns[k]
    BY <1>1, ColumnFacts
  <2>3. QED
    BY <1>1, <2>1, <2>2 DEF PrintedInv
<1>13. QED
  BY <1>6, <1>10, <1>11, <1>12 DEF ReportInv

\* The loop over the results ends when all of them are taken.
LEMMA CollectedStep == ReportInv /\ Collected => ReportInv'
<1> SUFFICES ASSUME ReportInv, Collected PROVE ReportInv'
  OBVIOUS
<1>1. /\ stage = "collect" /\ idx = Len(outcome) /\ stage' = "errors"
      /\ UNCHANGED <<outcome, results, errors, tally, idx, printed>>
  BY DEF Collected
<1>2. ShapeInv'
  BY <1>1 DEF ReportInv, ShapeInv, Stages
<1>3. CollectInv'
  <2>1. OkTill(Len(outcome))' = OkTill(idx) /\ ErrTill(Len(outcome))' = ErrTill(idx)
    BY <1>1 DEF OkTill, ErrTill, Oks, Errs
  <2>2. Rearranged(results, OkTill(idx)) /\ Rearranged(errors, ErrTill(idx))
    BY <1>1 DEF ReportInv, CollectInv
  <2>3. QED
    BY <1>1, <2>1, <2>2 DEF CollectInv
<1>4. DiffInv' /\ ColumnsInv' /\ TallyInv'
  BY <1>1, ColumnFacts DEF DiffInv, ColumnsInv, TallyInv
<1>5. PrintedInv'
  <2>1. DOMAIN printed = {}
    BY <1>1, ColumnFacts DEF ReportInv, PrintedInv
  <2>2. \A k \in 1..Len(Columns) : stage' # Columns[k]
    BY <1>1, ColumnFacts
  <2>3. QED
    BY <1>1, <2>1, <2>2 DEF PrintedInv
<1>6. QED
  BY <1>2, <1>3, <1>4, <1>5 DEF ReportInv

------------------------------------------------------------------------------
(* The invariant is kept by the steps after that *)

LEMMA NothingPrinted ==
  ASSUME PrintedInv, stage \notin Range(Columns), printed' = printed,
         stage' \notin Range(Columns) \ {"start_time"}
  PROVE  PrintedInv'
<1>1. DOMAIN printed' = {}
  BY DEF PrintedInv
<1>2. ASSUME NEW k \in 1..Len(Columns), stage' = Columns[k]
      PROVE  DOMAIN printed' = {Columns[j] : j \in 1..(k - 1)}
  <2>1. k \in 1..5 /\ stage' = "start_time"
    BY <1>2, ColumnFacts
  <2>2. k \in {1, 2, 3, 4, 5}
    BY <2>1
  <2>3. k = 1
    BY <1>2, <2>1, <2>2, ColumnFacts
  <2>4. 1..(k - 1) = {}
    BY <2>3
  <2>5. QED
    BY <1>1, <2>4
<1>3. QED
  BY <1>1, <1>2 DEF PrintedInv

LEMMA TallyKept ==
  ASSUME TallyInv, stage \notin {"collect", "errors"}, tally' = tally, outcome' = outcome
  PROVE  TallyInv'
<1>1. PICK s \in Seq(Failures) :
        /\ Ascending(Column(s, "msg"))
        /\ Rearranged(s, ErrTill(Len(outcome)))
        /\ tally = group_by(s)
  BY DEF TallyInv
<1>2. ErrTill(Len(outcome))' = ErrTill(Len(outcome))
  BY DEF ErrTill, Errs
<1>3. QED
  BY <1>1, <1>2 DEF TallyInv

\* The errors are sorted by their texts and grouped.
LEMMA CountStep == ReportInv /\ CountErrors => ReportInv'
<1> SUFFICES ASSUME ReportInv, CountErrors PROVE ReportInv'
  OBVIOUS
<1>1. /\ stage = "errors" /\ stage' = "sort"
      /\ UNCHANGED <<outcome, results, errors, idx, printed>>
  BY DEF CountErrors
<1>2. PICK s \in Sorts(errors, "msg") : tally' = group_by(s)
  BY DEF CountErrors
<1>3. errors \in Seq(Failures)
  BY DEF ReportInv, ShapeInv
<1>4. s \in Seq(Failures) /\ Rearranged(s, errors) /\ Ascending(Column(s, "msg"))
  <2>1. \A x \in Failures : x["msg"] \in Int
    BY FailureFacts
  <2>2. QED
    BY <1>3, <2>1, SortsFacts
<1>5. ShapeInv'
  BY <1>1 DEF ReportInv, ShapeInv, Stages
<1>6. Rearranged(results, OkTill(Len(outcome))) /\ Rearranged(errors, ErrTill(Len(outcome)))
  BY <1>1 DEF ReportInv, CollectInv
<1>7. OkTill(Len(outcome))' = OkTill(Len(outcome)) /\ ErrTill(Len(outcome))' = ErrTill(Len(outcome))
  BY <1>1 DEF OkTill, ErrTill, Oks, Errs
<1>8. CollectInv'
  BY <1>1, <1>6, <1>7 DEF CollectInv
<1>9. TallyInv'
  <2>1. Rearranged(s, ErrTill(Len(outcome)))
    BY <1>4, <1>6, RearrangedAgain
  <2>2. QED
    BY <1>2, <1>4, <1>7, <2>1 DEF TallyInv
<1>10. DiffInv' /\ ColumnsInv'
  BY <1>1, ColumnFacts DEF DiffInv, ColumnsInv
<1>11. PrintedInv'
  <2>1. PrintedInv
    BY DEF ReportInv
  <2>2. QED
    BY <1>1, <2>1, ColumnFacts, NothingPrinted
<1>12. QED
  BY <1>5, <1>8, <1>9, <1>10, <1>11 DEF ReportInv

\* A field of all answers.
LEMMA AnswersColumn ==
  ASSUME outcome \in Seq(Outcomes), NEW c
  PROVE  Column(OkTill(Len(outcome)), c) = Answers(c)
<1>1. DOMAIN outcome = 1..Len(outcome)
  BY LenProperties
<1>2. DOMAIN OkTill(Len(outcome)) = {j \in DOMAIN outcome : outcome[j].ok}
  BY <1>1 DEF OkTill, Oks
<1>3. \A j \in DOMAIN OkTill(Len(outcome)) : OkTill(Len(outcome))[j][c] = outcome[j].res[c]
  BY <1>1 DEF OkTill, Oks
<1>4. QED
  BY <1>2, <1>3 DEF Column, Answers

\* A column of results is a sequence of Values.
LEMMA ColumnIsSeq ==
  ASSUME NEW s \in Seq(Results), NEW c \in Fields
  PROVE  /\ Column(s, c) \in Seq(Values) /\ Len(Column(s, c)) = Len(s)
         /\ DOMAIN Column(s, c) = 1..Len(s)
         /\ \A j \in 1..Len(s) : Column(s, c)[j] = s[j][c] /\ s[j][c] \in Values
<1> DEFINE n == Len(s)
           e == Column(s, c)
<1>1. n \in Nat /\ DOMAIN s = 1..n /\ \A j \in 1..n : s[j] \in Results
  BY LenProperties, ElementOfSeq
<1> HIDE DEF n
<1>2. \A j \in 1..n : s[j][c] \in Values
  BY <1>1, ResultFacts
<1>3. e \in [1..n -> Values] /\ DOMAIN e = 1..n /\ \A j \in 1..n : e[j] = s[j][c]
  BY <1>1, <1>2 DEF Column
<1> HIDE DEF e
<1>4. e \in Seq(Values)
  BY <1>1, <1>3, SeqDef
<1>5. Len(e) \in Nat /\ DOMAIN e = 1..Len(e)
  BY <1>4, LenProperties
<1>6. Len(e) = n
  BY <1>1, <1>3, <1>5
<1>7. QED
  BY <1>2, <1>3, <1>4, <1>6 DEF e, n

\* The answers are sorted by their start times.
LEMMA SortStep == ReportInv /\ SortByStart => ReportInv'
<1> SUFFICES ASSUME ReportInv, SortByStart PROVE ReportInv'
  OBVIOUS
<1>1. /\ stage = "sort" /\ stage' = "diff" /\ results' \in Sorts(results, "start_time")
      /\ idx' = Len(results) /\ UNCHANGED <<outcome, errors, tally, printed>>
  BY DEF SortByStart
<1>2. /\ outcome \in Seq(Outcomes) /\ Len(outcome) <= MaxResults
      /\ results \in Seq(Results) /\ errors \in Seq(Failures)
      /\ Len(results) + Len(errors) = Len(outcome)
  BY <1>1 DEF ReportInv, ShapeInv
<1>3. /\ Len(outcome) \in Nat /\ Len(results) \in Nat /\ Len(errors) \in Nat /\ MaxResults \in Nat
  BY <1>2, LenProperties, ReportAssumption
<1>4. /\ results' \in Seq(Results) /\ Len(results') = Len(results)
      /\ Rearranged(results', results) /\ Ascending(Column(results', "start_time"))
  <2>1. \A x \in Results : x["start_time"] \in Int
    BY ResultFacts DEF Fields
  <2>2. QED
    BY <1>1, <1>2, <2>1, SortsFacts
<1>5. ShapeInv'
  <2>1. Len(results') + Len(errors') = Len(outcome)
    BY <1>1, <1>2, <1>4
  <2>2. idx' \in 0..MaxResults /\ idx' <= Len(outcome)
    BY <1>1, <1>2, <1>3
  <2>3. QED
    BY <1>1, <1>2, <1>4, <2>1, <2>2 DEF ShapeInv, Stages
<1>6. \A c : Rearranged(Column(results', c), Answers(c))
  <2>1. SUFFICES ASSUME NEW c
                 PROVE  Rearranged(Column(results', c), Answers(c))
    OBVIOUS
  <2>2. Rearranged(results, OkTill(Len(outcome)))
    BY <1>1 DEF ReportInv, CollectInv
  <2>3. Rearranged(results', OkTill(Len(outcome)))
    BY <1>4, <2>2, RearrangedAgain
  <2>4. QED
    BY <1>2, <2>3, RearrangedColumn, AnswersColumn
<1>7. \A c : Answers(c)' = Answers(c)
  BY <1>1, SameOutcome
<1>8. DiffInv'
  <2> DEFINE e == Column(results', "start_time")
  <2>1. /\ e \in Seq(Values) /\ Len(e) = Len(results')
        /\ DOMAIN results' = 1..Len(results')
        /\ \A j \in 1..Len(results') : e[j] = results'[j]["start_time"]
    <3>1. "start_time" \in Fields
      BY DEF Fields
    <3>2. QED
      BY <1>4, <3>1, ColumnIsSeq, LenProperties
  <2>2. Ascending(e) /\ Rearranged(e, Answers("start_time"))
    BY <1>4, <1>6
  <2>3. \A j \in DOMAIN results' :
          results'[j].start_time = IF j > idx' THEN e[j] - e[j - 1] ELSE e[j]
    <3>1. \A j \in DOMAIN results' : j \in 1..Len(results') /\ ~(j > idx')
      BY <1>1, <1>3, <1>4, <2>1
    <3> HIDE DEF e
    <3>2. QED
      BY <2>1, <3>1
  <2>4. results' # <<>> => idx' >= 1
    <3>1. results' # <<>> => Len(results') # 0
      BY <1>4, EmptySeq
    <3>2. QED
      BY <1>1, <1>3, <1>4, <3>1
  <2>5. idx' <= Len(results')
    BY <1>1, <1>3, <1>4
  <2> HIDE DEF e
  <2>6. QED
    BY <1>6, <1>7, <2>1, <2>2, <2>3, <2>4, <2>5 DEF DiffInv
<1>9. CollectInv' /\ ColumnsInv'
  BY <1>1, ColumnFacts DEF CollectInv, ColumnsInv
<1>10. TallyInv'
  <2>1. TallyInv
    BY DEF ReportInv
  <2>2. QED
    BY <1>1, <2>1, TallyKept
<1>11. PrintedInv'
  <2>1. PrintedInv
    BY DEF ReportInv
  <2>2. QED
    BY <1>1, <2>1, ColumnFacts, NothingPrinted
<1>12. QED
  BY <1>5, <1>8, <1>9, <1>10, <1>11 DEF ReportInv

\* Overwriting a start time.
Overwrite(s, i, v) == [s EXCEPT ![i].start_time = v]

LEMMA OverwriteFacts ==
  ASSUME NEW s \in Seq(Results), NEW i \in 1..Len(s), NEW v \in Values
  PROVE  LET t == Overwrite(s, i, v)
         IN  /\ t \in Seq(Results) /\ Len(t) = Len(s)
             /\ \A j \in 1..Len(s) : t[j]["start_time"] = IF j = i THEN v ELSE s[j]["start_time"]
             /\ \A j \in 1..Len(s), c \in Fields \ {"start_time"} : t[j][c] = s[j][c]
<1> DEFINE n == Len(s)
           t == Overwrite(s, i, v)
           r == [s[i] EXCEPT !["start_time"] = v]
<1>1. n \in Nat /\ s \in [1..n -> Results] /\ DOMAIN s = 1..n /\ i \in 1..n
  BY LenProperties, ElementOfSeq, SeqDef
<1>2. t = [s EXCEPT ![i] = r]
  BY DEF Overwrite
<1> HIDE DEF n, t
<1>3. s[i] \in [Fields -> Values]
  BY <1>1 DEF Results
<1>4. r \in [Fields -> Values] /\ r["start_time"] = v
      /\ \A c \in Fields \ {"start_time"} : r[c] = s[i][c]
  BY <1>3 DEF Fields
<1> HIDE DEF r
<1>5. t \in [1..n -> Results] /\ t[i] = r /\ \A j \in 1..n : j # i => t[j] = s[j]
  BY <1>1, <1>2, <1>4 DEF Results
<1>6. t \in Seq(Results) /\ DOMAIN t = 1..n
  BY <1>1, <1>5, SeqDef
<1>7. Len(t) = n
  <2>1. Len(t) \in Nat /\ DOMAIN t = 1..Len(t)
    BY <1>6, LenProperties
  <2>2. QED
    BY <1>1, <1>6, <2>1
<1>8. \A j \in 1..n : t[j]["start_time"] = IF j = i THEN v ELSE s[j]["start_time"]
  BY <1>4, <1>5
<1>9. \A j \in 1..n, c \in Fields \ {"start_time"} : t[j][c] = s[j][c]
  BY <1>4, <1>5
<1>10. QED
  BY <1>6, <1>7, <1>8, <1>9 DEF n, t

\* The difference of Values in order is one of them, and is not wrapped.
LEMMA DifferenceOfValues ==
  ASSUME NEW x \in Values, NEW y \in Values, y <= x
  PROVE  Sub(x, y) = x - y /\ x - y \in Values
<1>1. x \in 0..(Word - 1) /\ y \in 0..(Word - 1)
  BY DEF Values
<1>2. Word \in Nat \ {0}
  BY ReportAssumption
<1>3. x - y \in Nat /\ x - y < Word /\ x - y <= x
  BY <1>1, <1>2
<1>4. Sub(x, y) = x - y
  BY <1>3, NotWrapped DEF Sub
<1>5. x - y \in 0..(Word - 1)
  BY <1>2, <1>3
<1>6. \A B \in Nat : AtMost(B) => x - y <= B
  <2>1. \A B \in Nat : AtMost(B) => x <= B
    BY DEF Values
  <2>2. QED
    BY <1>1, <1>3, <2>1
<1>7. QED
  BY <1>4, <1>5, <1>6 DEF Values

\* An interval takes the place of a start time that is not read again.
LEMMA DifferenceStep == ReportInv /\ Difference => ReportInv'
<1> SUFFICES ASSUME ReportInv, Difference PROVE ReportInv'
  OBVIOUS
<1>1. /\ stage = "diff" /\ idx >= 2 /\ idx' = idx - 1 /\ stage' = stage
      /\ UNCHANGED <<outcome, errors, tally, printed>>
  BY DEF Difference
<1>2. /\ outcome \in Seq(Outcomes) /\ Len(outcome) <= MaxResults
      /\ results \in Seq(Results) /\ errors \in Seq(Failures)
      /\ Len(results) + Len(errors) = Len(outcome) /\ idx \in 0..MaxResults
      /\ idx <= Len(outcome)
  BY <1>1 DEF ReportInv, ShapeInv
<1> DEFINE n == Len(results)
<1>3. /\ Len(outcome) \in Nat /\ n \in Nat /\ MaxResults \in Nat /\ DOMAIN results = 1..n
  BY <1>2, LenProperties, ReportAssumption
<1>4. idx <= n
  BY <1>1 DEF ReportInv, DiffInv
<1>5. \A c \in Fields \ {"start_time"} : Rearranged(Column(results, c), Answers(c))
  BY <1>1 DEF ReportInv, DiffInv
<1>6. PICK e \in Seq(Values) :
           /\ Len(e) = Len(results) /\ Ascending(e)
           /\ Rearranged(e, Answers("start_time"))
           /\ \A j \in DOMAIN results :
                results[j].start_time = IF j > idx THEN e[j] - e[j - 1] ELSE e[j]
  BY <1>1 DEF ReportInv, DiffInv
<1>7. idx \in 1..n /\ idx - 1 \in 1..n /\ ~(idx > idx) /\ ~(idx - 1 > idx) /\ idx - 1 <= idx
  BY <1>1, <1>2, <1>3, <1>4
<1>8. DOMAIN e = 1..n /\ e[idx] \in Values /\ e[idx - 1] \in Values
  BY <1>6, <1>7, LenProperties, ElementOfSeq
<1>9. e[idx - 1] <= e[idx]
  BY <1>6, <1>7, <1>8 DEF Ascending
<1> DEFINE v == e[idx] - e[idx - 1]
<1>10. v \in Values /\ Sub(e[idx], e[idx - 1]) = v
  BY <1>8, <1>9, DifferenceOfValues
<1>11. results[idx].start_time = e[idx] /\ results[idx - 1].start_time = e[idx - 1]
  BY <1>3, <1>6, <1>7
<1>12. results' = Overwrite(results, idx, v)
  BY <1>3, <1>7, <1>10, <1>11 DEF Difference, Overwrite
<1> HIDE DEF v, n
<1>13. /\ results' \in Seq(Results) /\ Len(results') = n
       /\ \A j \in 1..n : results'[j].start_time = IF j = idx THEN v ELSE results[j].start_time
       /\ \A j \in 1..n, c \in Fields \ {"start_time"} : results'[j][c] = results[j][c]
  <2> DEFINE t == Overwrite(results, idx, v)
  <2>1. /\ t \in Seq(Results) /\ Len(t) = n
        /\ \A j \in 1..n : t[j]["start_time"] = IF j = idx THEN v ELSE results[j]["start_time"]
        /\ \A j \in 1..n, c \in Fields \ {"start_time"} : t[j][c] = results[j][c]
    BY <1>2, <1>7, <1>10, OverwriteFacts, ZenonT(60) DEF n
  <2> HIDE DEF t
  <2>2. results' = t
    BY <1>12 DEF t
  <2>3. QED
    BY <2>1, <2>2
<1>14. DOMAIN results' = 1..n
  BY <1>13, LenProperties
<1>15. ShapeInv'
  <2>1. Len(results') + Len(errors') = Len(outcome)
    BY <1>1, <1>2, <1>13 DEF n
  <2>2. idx' \in 0..MaxResults /\ idx' <= Len(outcome)
    BY <1>1, <1>2, <1>3
  <2>3. QED
    BY <1>1, <1>2, <1>13, <2>1, <2>2 DEF ShapeInv, Stages
<1>16. \A c \in Fields \ {"start_time"} : Column(results', c) = Column(results, c)
  BY <1>3, <1>13, <1>14 DEF Column
<1>17. \A j \in 1..n : results'[j].start_time = IF j > idx' THEN e[j] - e[j - 1] ELSE e[j]
  <2>1. SUFFICES ASSUME NEW j \in 1..n
                 PROVE  results'[j].start_time = IF j > idx' THEN e[j] - e[j - 1] ELSE e[j]
    OBVIOUS
  <2>2. CASE j = idx
    BY <1>1, <1>7, <1>13, <2>2 DEF v
  <2>3. CASE j # idx
    <3>1. results'[j].start_time = results[j].start_time
      BY <1>13, <2>3
    <3>2. (j > idx') <=> (j > idx)
      BY <1>1, <1>2, <2>3
    <3>3. QED
      BY <1>3, <1>6, <3>1, <3>2
  <2>4. QED
    BY <2>2, <2>3
<1>18. \A c : Answers(c)' = Answers(c)
  BY <1>1, SameOutcome
<1>19. DiffInv'
  <2>1. idx' <= Len(results') /\ idx' >= 1
    BY <1>1, <1>2, <1>3, <1>4, <1>13
  <2>2. Len(e) = Len(results')
    BY <1>6, <1>13 DEF n
  <2>3. QED
    BY <1>5, <1>6, <1>14, <1>16, <1>17, <1>18, <2>1, <2>2 DEF DiffInv
<1>20. CollectInv' /\ ColumnsInv'
  BY <1>1, ColumnFacts DEF CollectInv, ColumnsInv
<1>21. TallyInv'
  <2>1. TallyInv
    BY DEF ReportInv
  <2>2. QED
    BY <1>1, <2>1, TallyKept
<1>22. PrintedInv'
  <2>1. PrintedInv
    BY DEF ReportInv
  <2>2. QED
    BY <1>1, <2>1, ColumnFacts, NothingPrinted
<1>23. QED
  BY <1>15, <1>19, <1>20, <1>21, <1>22 DEF ReportInv

\* After the loop the start times are the intervals.
LEMMA FirstStep == ReportInv /\ FirstInterval => ReportInv'
<1> SUFFICES ASSUME ReportInv, FirstInterval PROVE ReportInv'
  OBVIOUS
<1>1. /\ stage = "diff" /\ idx < 2 /\ stage' = "start_time"
      /\ results' = (IF Len(results) > 2 THEN Overwrite(results, 1, results[2].start_time)
                     ELSE results)
      /\ UNCHANGED <<outcome, errors, tally, idx, printed>>
  BY ColumnFacts DEF FirstInterval, Overwrite
<1>2. /\ outcome \in Seq(Outcomes) /\ Len(outcome) <= MaxResults
      /\ results \in Seq(Results) /\ errors \in Seq(Failures)
      /\ Len(results) + Len(errors) = Len(outcome) /\ idx \in 0..MaxResults
      /\ idx <= Len(outcome)
  BY <1>1 DEF ReportInv, ShapeInv
<1> DEFINE n == Len(results)
<1>3. /\ n \in Nat /\ MaxResults \in Nat /\ DOMAIN results = 1..n
  BY <1>2, LenProperties, ReportAssumption
<1>4. idx <= n /\ (n # 0 => idx = 1)
  <2>1. n # 0 => results # <<>>
    BY <1>2
  <2>2. QED
    BY <1>1, <1>2, <1>3, <2>1 DEF ReportInv, DiffInv
<1>5. \A c \in Fields \ {"start_time"} : Rearranged(Column(results, c), Answers(c))
  BY <1>1 DEF ReportInv, DiffInv
<1>6. PICK e \in Seq(Values) :
           /\ Len(e) = Len(results) /\ Ascending(e)
           /\ Rearranged(e, Answers("start_time"))
           /\ \A j \in DOMAIN results :
                results[j].start_time = IF j > idx THEN e[j] - e[j - 1] ELSE e[j]
  BY <1>1 DEF ReportInv, DiffInv
<1>7. DOMAIN e = 1..n /\ e = [k \in 1..n |-> e[k]] /\ \A k \in 1..n : e[k] \in Int
  <2>1. \A k \in 1..n : e[k] \in Values
    BY <1>6, ElementOfSeq
  <2>2. \A x \in Values : x \in Int
    BY ReportAssumption DEF Values
  <2>3. e \in [1..n -> Values]
    BY <1>6, SeqDef, LenProperties
  <2>4. QED
    BY <2>1, <2>2, <2>3
<1>8. Ordered(Answers("start_time")) = e
  BY <1>3, <1>6, <1>7, OrderedIsSorted
<1>9. \A j \in 1..n : results[j].start_time = IF j > 1 THEN e[j] - e[j - 1] ELSE e[j]
  <2>1. ASSUME NEW j \in 1..n
        PROVE  idx = 1
    BY <1>3, <1>4
  <2>2. QED
    BY <1>3, <1>6, <2>1
<1>10. /\ results' \in Seq(Results) /\ Len(results') = n
       /\ \A j \in 1..n : results'[j].start_time
                            = IF j > 1 THEN e[j] - e[j - 1]
                              ELSE IF n > 2 THEN e[2] - e[1] ELSE e[1]
       /\ \A j \in 1..n, c \in Fields \ {"start_time"} : results'[j][c] = results[j][c]
  <2>1. CASE n > 2
    <3> DEFINE v == results[2]["start_time"]
               t == Overwrite(results, 1, v)
    <3>1. 1 \in 1..n /\ 2 \in 1..n
      BY <1>3, <2>1
    <3>2. v \in Values
      <4>1. results[2] \in Results
        BY <1>2, <3>1, ElementOfSeq
      <4>2. QED
        BY <4>1, ResultFacts DEF Fields
    <3>3. v = e[2] - e[1]
      BY <1>9, <3>1
    <3>4. results' = t
      BY <1>1, <2>1
    <3> HIDE DEF v
    <3>5. /\ t \in Seq(Results) /\ Len(t) = n
          /\ \A j \in 1..n : t[j]["start_time"] = IF j = 1 THEN v ELSE results[j]["start_time"]
          /\ \A j \in 1..n, c \in Fields \ {"start_time"} : t[j][c] = results[j][c]
      BY <1>2, <3>1, <3>2, OverwriteFacts
    <3> HIDE DEF t, n
    <3>6. ASSUME NEW j \in 1..n
          PROVE  t[j].start_time = IF j > 1 THEN e[j] - e[j - 1] ELSE e[2] - e[1]
      <4>1. CASE j = 1
        BY <3>3, <3>5, <4>1
      <4>2. CASE j # 1
        BY <1>3, <1>9, <3>5, <4>2
      <4>3. QED
        BY <4>1, <4>2
    <3>7. QED
      BY <2>1, <3>4, <3>5, <3>6
  <2>2. CASE ~(n > 2)
    <3>1. results' = results
      BY <1>1, <2>2
    <3>2. \A j \in 1..n : results[j].start_time = IF j > 1 THEN e[j] - e[j - 1] ELSE e[1]
      BY <1>3, <1>9
    <3>3. QED
      BY <1>2, <2>2, <3>1, <3>2
  <2>3. QED
    BY <2>1, <2>2
<1>11. DOMAIN results' = 1..n
  BY <1>10, LenProperties
<1>12. ShapeInv'
  <2>1. Len(results') + Len(errors') = Len(outcome)
    BY <1>1, <1>2, <1>10
  <2>2. QED
    BY <1>1, <1>2, <1>10, <2>1, ColumnFacts DEF ShapeInv, Stages
<1>13. Column(results', "start_time") = StartColumn
  <2>1. Len(e) = n
    BY <1>6
  <2> HIDE DEF n
  <2>2. Column(results', "start_time")
         = [j \in 1..n |-> IF j > 1 THEN e[j] - e[j - 1]
                           ELSE IF n > 2 THEN e[2] - e[1] ELSE e[1]]
    BY <1>10, <1>11 DEF Column
  <2>3. Starts = e
    BY <1>8 DEF Starts
  <2>4. QED
    BY <1>7, <2>1, <2>2, <2>3 DEF StartColumn
<1>14. \A c \in Fields \ {"start_time"} : Column(results', c) = Column(results, c)
  BY <1>3, <1>10, <1>11 DEF Column
<1>15. ColumnsInv'
  <2>1. ASSUME NEW c \in Fields
        PROVE  Rearranged(Column(results', c), Held(c))
    <3>1. CASE c = "start_time"
      BY <1>13, <3>1, RearrangedSame DEF Held
    <3>2. CASE c # "start_time"
      BY <1>5, <1>14, <3>2 DEF Held
    <3>3. QED
      BY <3>1, <3>2
  <2>2. \A c : Held(c)' = Held(c) /\ Answers(c)' = Answers(c)
    BY <1>1, SameOutcome
  <2>3. Within(StartColumn, "start_time")
    <3> DEFINE v == Column(results', "start_time")
               d == Answers("start_time")
    <3>1. /\ DOMAIN v = 1..n
          /\ \A j \in 1..n : v[j] = IF j > 1 THEN e[j] - e[j - 1]
                                     ELSE IF n > 2 THEN e[2] - e[1] ELSE e[1]
      BY <1>10, <1>11 DEF Column
    <3>2. \A j \in 1..n : e[j] \in Nat
      <4>1. \A j \in 1..n : e[j] \in Values
        BY <1>6, ElementOfSeq
      <4>2. \A x \in Values : x \in Nat
        BY ReportAssumption DEF Values
      <4>3. QED
        BY <4>1, <4>2
    <3>3. \A j \in 1..n : \E o \in DOMAIN d : d[o] = e[j]
      <4>1. PICK h \in Bijection(DOMAIN e, DOMAIN d) : \A k \in DOMAIN e : e[k] = d[h[k]]
        BY <1>6 DEF Rearranged
      <4>2. \A k \in DOMAIN e : h[k] \in DOMAIN d
        BY Fun_BijectionProperties
      <4>3. QED
        BY <1>7, <4>1, <4>2
    <3>4. \A i, j \in 1..n : i <= j => e[i] <= e[j]
      BY <1>6, <1>7 DEF Ascending
    <3> HIDE DEF v, d, n
    <3>5. ASSUME NEW j \in 1..n
          PROVE  \E i \in 1..n : 0 <= v[j] /\ v[j] <= e[i]
      <4>1. CASE j > 1
        <5>1. j - 1 \in 1..n /\ v[j] = e[j] - e[j - 1]
          BY <1>3, <3>1, <4>1
        <5>2. e[j - 1] <= e[j] /\ e[j - 1] \in Nat /\ e[j] \in Nat
          BY <1>3, <3>2, <3>4, <5>1
        <5>3. 0 <= v[j] /\ v[j] <= e[j]
          BY <5>1, <5>2
        <5>4. QED
          BY <5>3
      <4>2. CASE j = 1 /\ n > 2
        <5>1. 1 \in 1..n /\ 2 \in 1..n /\ v[j] = e[2] - e[1]
          BY <1>3, <3>1, <4>2
        <5>2. e[1] <= e[2] /\ e[1] \in Nat /\ e[2] \in Nat
          BY <3>2, <3>4, <5>1
        <5>3. 0 <= v[j] /\ v[j] <= e[2]
          BY <5>1, <5>2
        <5>4. QED
          BY <5>1, <5>3
      <4>3. CASE j = 1 /\ ~(n > 2)
        <5>1. v[j] = e[1] /\ e[1] \in Nat
          BY <3>1, <3>2, <4>3
        <5>2. QED
          BY <4>3, <5>1
      <4>4. QED
        BY <1>3, <4>1, <4>2, <4>3
    <3>6. Within(v, "start_time")
      <4>1. ASSUME NEW j \in DOMAIN v
            PROVE  \E o \in DOMAIN d : 0 <= v[j] /\ v[j] <= d[o]
        <5>1. PICK i \in 1..n : 0 <= v[j] /\ v[j] <= e[i]
          BY <3>1, <3>5
        <5>2. PICK o \in DOMAIN d : d[o] = e[i]
          BY <3>3
        <5>3. QED
          BY <5>1, <5>2
      <4>2. QED
        BY <4>1 DEF Within, d
    <3>7. QED
      BY <1>13, <3>6 DEF v
  <2>4. Within(StartColumn, "start_time")'
    <3>1. StartColumn' = StartColumn
      BY <1>1, SameOutcome
    <3>2. QED
      BY <2>2, <2>3, <3>1 DEF Within
  <2>5. QED
    BY <2>1, <2>2, <2>4 DEF ColumnsInv
<1>16. CollectInv' /\ DiffInv'
  BY <1>1 DEF CollectInv, DiffInv
<1>17. TallyInv'
  <2>1. TallyInv
    BY DEF ReportInv
  <2>2. QED
    BY <1>1, <2>1, TallyKept
<1>18. PrintedInv'
  <2>1. PrintedInv
    BY DEF ReportInv
  <2>2. QED
    BY <1>1, <2>1, ColumnFacts, NothingPrinted
<1>19. QED
  BY <1>12, <1>15, <1>16, <1>17, <1>18 DEF ReportInv

\* The columns are printed one after the other.
LEMMA AfterFacts ==
  ASSUME NEW k \in 1..4
  PROVE  After(Columns[k]) = Columns[k + 1]
<1>1. k \in {1, 2, 3, 4}
  OBVIOUS
<1>2. \A j \in 1..5 : j \in {1, 2, 3, 4, 5}
  OBVIOUS
<1>3. \A j \in DOMAIN Columns : Columns[j] = Columns[k] => j = k
  BY <1>1, <1>2, ColumnFacts
<1>4. k \in DOMAIN Columns
  BY ColumnFacts
<1>5. (CHOOSE j \in DOMAIN Columns : Columns[j] = Columns[k]) = k
  BY <1>3, <1>4
<1>6. After(Columns[k]) = Columns[1 + k]
  BY <1>5 DEF After
<1>7. 1 + k = k + 1
  OBVIOUS
<1>8. QED
  BY <1>6, <1>7

\* A column is printed of its own values in order, and keeps them with their rows.
LEMMA PrintStep ==
  ASSUME NEW c \in Fields, ReportInv, PrintColumn(c)
  PROVE  ReportInv'
<1>1. /\ stage = c /\ results' \in Sorts(results, c) /\ stage' = After(c)
      /\ printed' = Entered(c, print_stats([j \in DOMAIN results |-> results'[j][c]]))
      /\ UNCHANGED <<outcome, errors, tally, idx>>
  BY DEF PrintColumn
<1>2. PICK k \in 1..4 : c = Columns[k]
  <2>1. 1 \in 1..4 /\ 2 \in 1..4 /\ 3 \in 1..4 /\ 4 \in 1..4
    OBVIOUS
  <2>2. QED
    BY <2>1, ColumnFacts DEF Fields
<1>3. stage' = Columns[k + 1] /\ k + 1 \in 2..5 /\ k \in 1..5
  BY <1>1, <1>2, AfterFacts
<1>31. stage' \in Range(Columns) \ {"start_time"}
  <2>1. k + 1 \in {2, 3, 4, 5}
    BY <1>3
  <2>2. QED
    BY <1>3, <2>1, ColumnFacts
<1>4. /\ outcome \in Seq(Outcomes) /\ Len(outcome) <= MaxResults
      /\ results \in Seq(Results) /\ errors \in Seq(Failures)
      /\ Len(results) + Len(errors) = Len(outcome) /\ idx \in 0..MaxResults
      /\ idx <= Len(outcome)
  BY <1>1, ColumnFacts DEF ReportInv, ShapeInv, Fields
<1>5. /\ results' \in Seq(Results) /\ Len(results') = Len(results)
      /\ DOMAIN results' = DOMAIN results
      /\ Rearranged(results', results) /\ Ascending(Column(results', c))
  <2>1. \A x \in Results : x[c] \in Int
    BY ResultFacts
  <2>2. QED
    BY <1>1, <1>4, <2>1, SortsFacts
<1>6. \A f \in Fields : Rearranged(Column(results', f), Held(f))
  <2>1. SUFFICES ASSUME NEW f \in Fields
                 PROVE  Rearranged(Column(results', f), Held(f))
    OBVIOUS
  <2>2. stage \in Range(Columns)
    BY <1>1, ColumnFacts
  <2>3. Rearranged(Column(results, f), Held(f))
    BY <2>2 DEF ReportInv, ColumnsInv
  <2>4. Rearranged(Column(results', f), Column(results, f))
    BY <1>5, RearrangedColumn
  <2>5. QED
    BY <2>3, <2>4, RearrangedAgain
<1>7. \A f : Held(f)' = Held(f)
  BY <1>1, SameOutcome
<1>8. ColumnsInv'
  <2>1. Within(StartColumn, "start_time")
    BY <1>1, ColumnFacts DEF ReportInv, ColumnsInv
  <2>2. /\ StartColumn' = StartColumn
        /\ Answers("start_time")' = Answers("start_time")
    BY <1>1, SameOutcome
  <2>3. Within(StartColumn, "start_time")'
    BY <2>1, <2>2 DEF Within
  <2>4. QED
    BY <1>6, <1>7, <2>3 DEF ColumnsInv
<1>9. ShapeInv'
  <2>1. Len(results') + Len(errors') = Len(outcome)
    BY <1>1, <1>4, <1>5
  <2>2. QED
    BY <1>1, <1>4, <1>5, <1>31, <2>1, ColumnFacts DEF ShapeInv, Stages
<1>10. CollectInv' /\ DiffInv'
  BY <1>31, ColumnFacts DEF CollectInv, DiffInv
<1>11. TallyInv'
  <2>1. TallyInv
    BY DEF ReportInv
  <2>2. stage \notin {"collect", "errors"}
    BY <1>1 DEF Fields
  <2>3. QED
    BY <1>1, <2>1, <2>2, TallyKept
<1>12. PrintedInv'
  <2> DEFINE e == Column(results', c)
  <2>1. e = [j \in DOMAIN results |-> results'[j][c]]
    BY <1>5 DEF Column
  <2>2. e \in Seq(Values)
    BY <1>5, ColumnIsSeq
  <2>3. Ascending(e) /\ Rearranged(e, Held(c))
    BY <1>5, <1>6
  <2> HIDE DEF e
  <2>4. /\ DOMAIN printed' = DOMAIN printed \cup {c}
        /\ printed'[c] = print_stats(e)
        /\ \A f \in DOMAIN printed : f # c => printed'[f] = printed[f]
    BY <1>1, <2>1 DEF Entered
  <2>5. ASSUME NEW f \in DOMAIN printed'
        PROVE  f \in Fields /\ \E s \in Seq(Values) :
                 Ascending(s) /\ Rearranged(s, Held(f)) /\ printed'[f] = print_stats(s)
    <3>1. CASE f = c
      BY <2>2, <2>3, <2>4, <3>1
    <3>2. CASE f # c
      <4>1. f \in DOMAIN printed /\ printed'[f] = printed[f]
        BY <2>4, <2>5, <3>2
      <4>2. QED
        BY <4>1 DEF ReportInv, PrintedInv
    <3>3. QED
      BY <3>1, <3>2
  <2>6. DOMAIN printed = {Columns[j] : j \in 1..(k - 1)}
    <3>1. k \in 1..Len(Columns)
      BY <1>3, ColumnFacts
    <3>2. QED
      BY <1>1, <1>2, <3>1 DEF ReportInv, PrintedInv
  <2>7. ASSUME NEW i \in 1..Len(Columns), stage' = Columns[i]
        PROVE  DOMAIN printed' = {Columns[j] : j \in 1..(i - 1)}
    <3>1. i \in {1, 2, 3, 4, 5} /\ k \in {1, 2, 3, 4}
      BY ColumnFacts
    <3>2. i = k + 1
      <4>1. Columns[i] = Columns[k + 1] /\ i \in 1..5 /\ k + 1 \in 1..5
        BY <1>3, <2>7, ColumnFacts
      <4>2. \A a, b \in {1, 2, 3, 4, 5} : Columns[a] = Columns[b] => a = b
        BY ColumnFacts
      <4>3. \A a \in 1..5 : a \in {1, 2, 3, 4, 5}
        OBVIOUS
      <4>4. QED
        BY <4>1, <4>2, <4>3
    <3>3. 1..(i - 1) = 1..(k - 1) \cup {k}
      BY <3>2
    <3>4. QED
      BY <1>2, <2>4, <2>6, <3>3
  <2>8. QED
    BY <1>7, <1>31, <2>5, <2>7 DEF PrintedInv
<1>13. QED
  BY <1>8, <1>9, <1>10, <1>11, <1>12 DEF ReportInv

LEMMA ReportInvStep == ReportInv /\ [ReportNext]_reportVars => ReportInv'
<1> SUFFICES ASSUME ReportInv, [ReportNext]_reportVars PROVE ReportInv'
  OBVIOUS
<1>1. CASE Collect \/ Collected \/ CountErrors \/ SortByStart \/ Difference \/ FirstInterval
  BY <1>1, CollectStep, CollectedStep, CountStep, SortStep, DifferenceStep, FirstStep
<1>2. CASE \E c \in Fields : PrintColumn(c)
  BY <1>2, PrintStep
<1>3. CASE UNCHANGED reportVars
  <2>1. /\ outcome' = outcome /\ results' = results /\ errors' = errors /\ tally' = tally
        /\ stage' = stage /\ idx' = idx /\ printed' = printed
    BY <1>3 DEF reportVars
  <2>2. ShapeInv'
    BY <2>1 DEF ReportInv, ShapeInv
  <2>3. CollectInv'
    <3>1. /\ OkTill(idx)' = OkTill(idx) /\ ErrTill(idx)' = ErrTill(idx)
          /\ OkTill(Len(outcome))' = OkTill(Len(outcome))
          /\ ErrTill(Len(outcome))' = ErrTill(Len(outcome))
      BY <2>1 DEF OkTill, ErrTill, Oks, Errs
    <3>2. CASE stage = "collect"
      BY <2>1, <3>1, <3>2 DEF ReportInv, CollectInv
    <3>3. CASE stage # "collect"
      BY <2>1, <3>1, <3>3 DEF ReportInv, CollectInv
    <3>4. QED
      BY <3>2, <3>3
  <2>4. DiffInv'
    <3>1. \A c : Answers(c)' = Answers(c)
      BY <2>1, SameOutcome
    <3>2. QED
      BY <2>1, <3>1 DEF ReportInv, DiffInv
  <2>5. \A c : Held(c)' = Held(c)
    BY <2>1, SameOutcome
  <2>6. ColumnsInv'
    <3>1. /\ StartColumn' = StartColumn
          /\ Answers("start_time")' = Answers("start_time")
      BY <2>1, SameOutcome
    <3>2. Within(StartColumn, "start_time")' <=> Within(StartColumn, "start_time")
      BY <3>1 DEF Within
    <3>3. QED
      BY <2>1, <2>5, <3>2 DEF ReportInv, ColumnsInv
  <2>7. PrintedInv'
    BY <2>1, <2>5 DEF ReportInv, PrintedInv
  <2>8. TallyInv'
    <3>1. ErrTill(Len(outcome))' = ErrTill(Len(outcome))
      BY <2>1 DEF ErrTill, Errs
    <3>2. QED
      BY <2>1, <3>1 DEF ReportInv, TallyInv
  <2>9. QED
    BY <2>2, <2>3, <2>4, <2>6, <2>7, <2>8 DEF ReportInv
<1>4. QED
  BY <1>1, <1>2, <1>3 DEF ReportNext

LEMMA SpecReportInv == ReportSpec => []ReportInv
  BY ReportInvInit, ReportInvStep, PTL DEF ReportSpec

------------------------------------------------------------------------------
(* The theorems *)

\* Whatever e holds of the answers' field c is one of its values.
LEMMA RearrangedWithin ==
  ASSUME outcome \in Seq(Outcomes), NEW c \in Fields, NEW e, Rearranged(e, Answers(c))
  PROVE  Within(e, c)
<1> DEFINE d == Answers(c)
<1>1. PICK h \in Bijection(DOMAIN e, DOMAIN d) : \A k \in DOMAIN e : e[k] = d[h[k]]
  BY DEF Rearranged
<1>2. \A k \in DOMAIN e : h[k] \in DOMAIN d
  BY Fun_BijectionProperties
<1>3. \A o \in DOMAIN d : d[o] \in Nat
  <2>1. ASSUME NEW o \in DOMAIN d
        PROVE  d[o] \in Nat
    <3>1. o \in DOMAIN outcome /\ outcome[o].ok /\ d[o] = outcome[o].res[c]
      BY DEF Answers
    <3>2. outcome[o] \in Outcomes
      BY <3>1, ElementOfSeq, LenProperties
    <3>3. outcome[o].res[c] \in Values
      BY <3>1, <3>2, OutcomeFacts, ResultFacts
    <3>4. \A x \in Values : x \in Nat
      BY ReportAssumption DEF Values
    <3>5. QED
      BY <3>1, <3>3, <3>4
  <2>2. QED
    BY <2>1
<1> HIDE DEF d
<1>4. ASSUME NEW k \in DOMAIN e
      PROVE  \E o \in DOMAIN d : 0 <= e[k] /\ e[k] <= d[o]
  <2>1. h[k] \in DOMAIN d /\ e[k] = d[h[k]] /\ d[h[k]] \in Nat
    BY <1>1, <1>2, <1>3
  <2>2. 0 <= e[k] /\ e[k] <= d[h[k]]
    BY <2>1
  <2>3. QED
    BY <2>1, <2>2
<1>5. QED
  BY <1>4 DEF Within, d

\* No field of the results is more than that field of some answer.
LEMMA FieldsWithin ==
  ASSUME ReportInv, NEW c \in Fields
  PROVE  Within(Column(results, c), c)
<1>1. /\ outcome \in Seq(Outcomes) /\ results \in Seq(Results) /\ stage \in Stages
      /\ idx \in 0..MaxResults /\ idx <= Len(outcome)
  BY DEF ReportInv, ShapeInv
<1>2. DOMAIN outcome = 1..Len(outcome) /\ Len(outcome) \in Nat
  BY <1>1, LenProperties
<1>3. CASE stage \in {"collect", "errors", "sort"}
  <2> DEFINE n == IF stage = "collect" THEN idx ELSE Len(outcome)
             d == OkTill(n)
             f == Column(results, c)
  <2>1. Rearranged(results, d) /\ n \in Nat /\ n <= Len(outcome)
    BY <1>1, <1>2, <1>3, ReportAssumption DEF ReportInv, CollectInv
  <2> HIDE DEF n
  <2>2. Rearranged(f, Column(d, c))
    BY <2>1, RearrangedColumn
  <2>3. PICK h \in Bijection(DOMAIN f, DOMAIN Column(d, c)) :
             \A k \in DOMAIN f : f[k] = Column(d, c)[h[k]]
    BY <2>2 DEF Rearranged
  <2>4. \A k \in DOMAIN f : h[k] \in DOMAIN Column(d, c)
    BY Fun_BijectionProperties
  <2>5. \A o \in DOMAIN Column(d, c) :
           o \in DOMAIN Answers(c) /\ Column(d, c)[o] = Answers(c)[o]
    BY <1>2, <2>1 DEF Column, OkTill, Oks, Answers
  <2>6. \A k \in DOMAIN f : f[k] \in Nat
    <3>1. \A k \in DOMAIN f : f[k] \in Values
      BY <1>1, ColumnIsSeq
    <3>2. \A x \in Values : x \in Nat
      BY ReportAssumption DEF Values
    <3>3. QED
      BY <3>1, <3>2
  <2> HIDE DEF f, d
  <2>7. ASSUME NEW k \in DOMAIN f
        PROVE  \E o \in DOMAIN Answers(c) : 0 <= f[k] /\ f[k] <= Answers(c)[o]
    <3>1. h[k] \in DOMAIN Answers(c) /\ f[k] = Answers(c)[h[k]] /\ f[k] \in Nat
      BY <2>3, <2>4, <2>5, <2>6
    <3>2. 0 <= f[k] /\ f[k] <= Answers(c)[h[k]]
      BY <3>1
    <3>3. QED
      BY <3>1, <3>2
  <2>8. QED
    BY <2>7 DEF Within, f
<1>4. CASE stage = "diff"
  <2>1. CASE c # "start_time"
    <3>1. Rearranged(Column(results, c), Answers(c))
      BY <1>4, <2>1 DEF ReportInv, DiffInv
    <3>2. QED
      BY <1>1, <3>1, RearrangedWithin
  <2>2. CASE c = "start_time"
    <3>1. PICK e \in Seq(Values) :
            /\ Len(e) = Len(results) /\ Ascending(e)
            /\ Rearranged(e, Answers("start_time"))
            /\ \A j \in DOMAIN results :
                 results[j].start_time = IF j > idx THEN e[j] - e[j - 1] ELSE e[j]
      BY <1>4 DEF ReportInv, DiffInv
    <3> DEFINE n == Len(results)
               f == Column(results, "start_time")
    <3>2. n \in Nat /\ DOMAIN results = 1..n /\ DOMAIN e = 1..n
      BY <1>1, <3>1, LenProperties
    <3>3. \A j \in 1..n : e[j] \in Nat
      <4>1. \A j \in 1..n : e[j] \in Values
        BY <3>1, ElementOfSeq
      <4>2. \A x \in Values : x \in Nat
        BY ReportAssumption DEF Values
      <4>3. QED
        BY <4>1, <4>2
    <3>4. Within(e, "start_time")
      BY <1>1, <2>2, <3>1, RearrangedWithin
    <3>5. (results # <<>> => idx >= 1) /\ idx \in Int
      BY <1>1, <1>4, ReportAssumption DEF ReportInv, DiffInv
    <3>6. DOMAIN f = 1..n /\ \A j \in 1..n : f[j] = results[j].start_time
      BY <3>2 DEF Column
    <3>7. n >= 1 => results # <<>>
      BY <1>1
    <3> HIDE DEF n, f
    <3>8. ASSUME NEW j \in 1..n
          PROVE  0 <= f[j] /\ f[j] <= e[j]
      <4>1. CASE j > idx
        <5>1. j - 1 \in 1..n /\ f[j] = e[j] - e[j - 1]
          BY <3>1, <3>2, <3>5, <3>6, <3>7, <4>1
        <5>2. e[j - 1] <= e[j] /\ e[j - 1] \in Nat /\ e[j] \in Nat
          <6>1. \A i, k \in 1..n : i < k => e[i] <= e[k]
            BY <3>1, <3>2 DEF Ascending
          <6>2. j - 1 < j
            OBVIOUS
          <6>3. e[j - 1] <= e[j]
            BY <5>1, <6>1, <6>2
          <6>4. QED
            BY <3>3, <5>1, <6>3
        <5>3. QED
          BY <5>1, <5>2
      <4>2. CASE ~(j > idx)
        <5>1. f[j] = e[j] /\ e[j] \in Nat
          BY <3>1, <3>2, <3>3, <3>6, <4>2
        <5>2. QED
          BY <5>1
      <4>3. QED
        BY <4>1, <4>2
    <3>9. \A o \in DOMAIN Answers("start_time") : Answers("start_time")[o] \in Nat
      <4>1. \A j \in DOMAIN e : e[j] \in Nat
        BY <3>2, <3>3
      <4>2. QED
        BY <3>1, <4>1, RearrangedValues
    <3>10. ASSUME NEW j \in 1..n
           PROVE  \E o \in DOMAIN Answers("start_time") :
                    0 <= f[j] /\ f[j] <= Answers("start_time")[o]
      <4>1. PICK o \in DOMAIN Answers("start_time") : e[j] <= Answers("start_time")[o]
        BY <3>2, <3>4 DEF Within
      <4>2. f[j] \in Int /\ e[j] \in Int /\ Answers("start_time")[o] \in Int
        <5>1. results[j] \in Results
          BY <1>1, ElementOfSeq DEF n
        <5>2. results[j].start_time \in Values
          BY <5>1, ResultFacts DEF Fields
        <5>3. QED
          BY <3>3, <3>6, <3>9, <5>2, ReportAssumption DEF Values
      <4>3. f[j] <= Answers("start_time")[o]
        BY <3>8, <4>1, <4>2
      <4>4. QED
        BY <3>8, <4>3
    <3>11. Within(f, "start_time")
      BY <3>6, <3>10 DEF Within
    <3>12. QED
      BY <2>2, <3>11 DEF f
  <2>3. QED
    BY <2>1, <2>2
<1>5. CASE stage \in Range(Columns)
  <2>1. Rearranged(Column(results, c), Held(c)) /\ Within(StartColumn, "start_time")
    BY <1>5 DEF ReportInv, ColumnsInv
  <2>2. CASE c # "start_time"
    BY <1>1, <2>1, <2>2, RearrangedWithin DEF Held
  <2>3. CASE c = "start_time"
    <3> DEFINE f == Column(results, c)
    <3>1. PICK h \in Bijection(DOMAIN f, DOMAIN StartColumn) :
             \A k \in DOMAIN f : f[k] = StartColumn[h[k]]
      BY <2>1, <2>3 DEF Rearranged, Held
    <3>2. \A k \in DOMAIN f : h[k] \in DOMAIN StartColumn
      BY Fun_BijectionProperties
    <3> HIDE DEF f
    <3>3. Within(f, "start_time")
      BY <2>1, <3>1, <3>2 DEF Within
    <3>4. QED
      BY <2>3, <3>3 DEF f
  <2>4. QED
    BY <2>2, <2>3
<1>6. QED
  BY <1>1, <1>3, <1>4, <1>5 DEF Stages

\* The results and errors are never more than what the tasks returned; no start
\* time wraps around when it becomes an interval, so that no field is ever more
\* than what some answer has; and the columns are printed one after the other, for
\* any answers, errors and number of requests.
THEOREM ReportTypeCorrect == ReportSpec => []ReportTypeOK
<1>1. ReportInv => ReportTypeOK
  <2>1. SUFFICES ASSUME ReportInv PROVE ReportTypeOK
    OBVIOUS
  <2>2. /\ outcome \in Seq(Outcomes) /\ results \in Seq(Results) /\ errors \in Seq(Failures)
        /\ Len(results) + Len(errors) = IF stage = "collect" THEN idx ELSE Len(outcome)
        /\ idx <= Len(outcome) /\ idx \in 0..MaxResults
    BY <2>1 DEF ReportInv, ShapeInv
  <2>3. Len(results) + Len(errors) <= Len(outcome)
    <3>1. Len(outcome) \in Nat
      BY <2>2, LenProperties
    <3>2. QED
      BY <2>2, <3>1
  <2>4. ASSUME NEW j \in DOMAIN results, NEW c \in Fields
        PROVE  \E o \in DOMAIN outcome :
                 outcome[o].ok /\ 0 <= results[j][c] /\ results[j][c] <= outcome[o].res[c]
    <3>1. PICK o \in DOMAIN Answers(c) :
                 0 <= results[j][c] /\ results[j][c] <= Answers(c)[o]
      BY <2>1, FieldsWithin DEF Within, Column
    <3>2. o \in DOMAIN outcome /\ outcome[o].ok /\ Answers(c)[o] = outcome[o].res[c]
      BY DEF Answers
    <3>3. QED
      BY <3>1, <3>2
  <2>5. \A k \in 1..Len(Columns) :
           stage = Columns[k] => DOMAIN printed = {Columns[j] : j \in 1..(k - 1)}
    BY <2>1 DEF ReportInv, PrintedInv
  <2>6. QED
    BY <2>2, <2>3, <2>4, <2>5 DEF ReportTypeOK
<1>2. QED
  BY <1>1, SpecReportInv, PTL

\* What a column holds is what it is about, but for the start times of one or two
\* answers.
LEMMA HeldIsData ==
  ASSUME ReportInv, NEW c, c = "start_time" => EnoughAnswers
  PROVE  Held(c) = Data(c)
<1>1. CASE c # "start_time"
  BY <1>1 DEF Held, Data
<1>2. CASE c = "start_time"
  <2> DEFINE d == Answers("start_time")
             n == Cardinality(DOMAIN d)
  <2>1. IsFiniteSet(DOMAIN d)
    <3>1. outcome \in Seq(Outcomes)
      BY DEF ReportInv, ShapeInv
    <3>2. DOMAIN outcome = 1..Len(outcome) /\ Len(outcome) \in Nat
      BY <3>1, LenProperties
    <3>3. IsFiniteSet(1..Len(outcome))
      BY <3>2, FS_Interval
    <3>4. DOMAIN d \subseteq 1..Len(outcome)
      BY <3>2 DEF Answers
    <3>5. QED
      BY <3>3, <3>4, FS_Subset
  <2>2. n \in Nat /\ n # 1 /\ n # 2
    BY <1>2, <2>1, FS_CardinalityType DEF EnoughAnswers
  <2>3. DOMAIN Starts = 1..n
    BY DEF Starts, Ordered
  <2>4. Len(Starts) = n
    BY <2>2, <2>3 DEF Starts, Ordered
  <2> HIDE DEF n
  <2>5. \A j \in 1..n : ~(j > 1) => n > 2
    BY <2>2
  <2>6. StartColumn = Intervals
    BY <2>3, <2>4, <2>5 DEF StartColumn, Intervals
  <2>7. QED
    BY <1>2, <2>6 DEF Held, Data
<1>3. QED
  BY <1>1, <1>2

\* What is printed of a column has the quantiles of what the column is about.
LEMMA PrintedQuantiles ==
  ASSUME ReportInv, NEW c \in DOMAIN printed
  PROVE  QuantilesOf(printed[c], Held(c))
<1>1. PICK e \in Seq(Values) :
        Ascending(e) /\ Rearranged(e, Held(c)) /\ printed[c] = print_stats(e)
  BY DEF ReportInv, PrintedInv
<1>2. e \in Seq(Int)
  <2>1. Values \subseteq Int
    BY ReportAssumption DEF Values
  <2>2. QED
    BY <1>1, <2>1, SeqMonotonic
<1>3. QED
  BY <1>1, <1>2, QuantilesOfSorted

\* The printed quantiles are those of the answers' own values, for any answers
\* and however equal keys come out of the unstable sorts.
THEOREM QuantilesAreExact == ReportSpec => []QuantilesExact
<1>1. ReportInv => QuantilesExact
  <2>1. SUFFICES ASSUME ReportInv, NEW c \in DOMAIN printed \ {"start_time"}
                 PROVE  QuantilesOf(printed[c], Data(c))
    BY DEF QuantilesExact
  <2>2. QED
    BY <2>1, PrintedQuantiles, HeldIsData
<1>2. QED
  BY <1>1, SpecReportInv, PTL

\* The inter-request column is about the intervals between consecutive starts, each
\* counted once and the first twice, of any number of answers but one or two.
THEOREM IntervalsAreExact == ReportSpec => []IntervalsExact
<1>1. ReportInv => IntervalsExact
  <2>1. SUFFICES ASSUME ReportInv, "start_time" \in DOMAIN printed, EnoughAnswers
                 PROVE  QuantilesOf(printed["start_time"], Intervals)
    BY DEF IntervalsExact
  <2>2. Held("start_time") = Data("start_time")
    BY <2>1, HeldIsData
  <2>3. QED
    BY <2>1, <2>2, PrintedQuantiles DEF Data
<1>2. QED
  BY <1>1, SpecReportInv, PTL

\* The squares of the answers' fields do not add up to what a u128 cannot hold.
NoOverflow == \E B \in Nat : AtMost(B) /\ MaxResults * (B * B) < Word

\* Average and variance are those of the integers although every difference from
\* the average may wrap, as long as the squares do not add up to Word (of the
\* start times, for any number of answers but one or two).
THEOREM MomentsAreExact ==
  ASSUME NoOverflow
  PROVE  ReportSpec => []MomentsExact
<1>1. ReportInv => MomentsExact
  <2>1. SUFFICES ASSUME ReportInv, NEW c \in DOMAIN printed
                 PROVE  MomentsOf(printed[c], Held(c))
    <3>1. ASSUME ReportInv, NEW c \in DOMAIN printed, c = "start_time" => EnoughAnswers
          PROVE  Held(c) = Data(c)
      BY <3>1, HeldIsData
    <3>2. QED
      BY <2>1, <3>1 DEF MomentsExact
  <2>2. PICK e \in Seq(Values) :
          Ascending(e) /\ Rearranged(e, Held(c)) /\ printed[c] = print_stats(e)
    BY <2>1 DEF ReportInv, PrintedInv
  <2>3. PICK B \in Nat : AtMost(B) /\ MaxResults * (B * B) < Word
    BY DEF NoOverflow
  <2>4. e \in Seq(0..B)
    <3>1. Values \subseteq 0..B
      BY <2>3, ReportAssumption DEF Values
    <3>2. QED
      BY <2>2, <3>1, SeqMonotonic
  <2>5. Len(e) <= MaxResults
    <3>1. c \in Fields
      BY <2>1 DEF ReportInv, PrintedInv
    <3>2. stage \in Range(Columns)
      BY <2>1 DEF ReportInv, PrintedInv
    <3>3. Rearranged(Column(results, c), Held(c))
      BY <2>1, <3>1, <3>2 DEF ReportInv, ColumnsInv
    <3>4. /\ results \in Seq(Results) /\ errors \in Seq(Failures) /\ outcome \in Seq(Outcomes)
          /\ Len(results) + Len(errors) = Len(outcome) /\ Len(outcome) <= MaxResults
      BY <2>1, <3>2, ColumnFacts DEF ReportInv, ShapeInv
    <3>5. DOMAIN Column(results, c) = 1..Len(results)
      BY <3>1, <3>4, ColumnIsSeq
    <3>6. /\ Len(results) \in Nat /\ Len(errors) \in Nat /\ Len(outcome) \in Nat
          /\ Len(e) \in Nat /\ DOMAIN e = 1..Len(e) /\ MaxResults \in Nat
      BY <2>2, <3>4, LenProperties, ReportAssumption
    <3>7. Cardinality(DOMAIN Held(c)) = Len(results)
      BY <3>3, <3>5, <3>6, RearrangedSize
    <3>8. Cardinality(DOMAIN Held(c)) = Len(e)
      BY <2>2, <3>6, RearrangedSize
    <3>9. QED
      BY <3>4, <3>6, <3>7, <3>8
  <2>6. QED
    BY <2>2, <2>3, <2>4, <2>5, MomentsOfSorted
<1>2. QED
  BY <1>1, SpecReportInv, PTL

\* Every text of an error is printed once, with the number of requests that
\* returned it, for any texts and any number of requests.
THEOREM ErrorsAreTallied == ReportSpec => []ErrorsTallied
<1>1. ReportInv => ErrorsTallied
  <2>1. SUFFICES ASSUME ReportInv, stage \notin {"collect", "errors"}, NEW m \in Messages
                 PROVE  LET num == Cardinality({j \in DOMAIN outcome :
                                                  outcome[j] = [ok |-> FALSE, msg |-> m]})
                        IN  {tally[j].num : j \in {i \in DOMAIN tally : tally[i].msg = m}}
                              = IF num = 0 THEN {} ELSE {num}
    BY DEF ErrorsTallied
  <2> DEFINE N == {j \in DOMAIN outcome : outcome[j] = [ok |-> FALSE, msg |-> m]}
             d == ErrTill(Len(outcome))
  <2>2. PICK s \in Seq(Failures) :
          Ascending(Column(s, "msg")) /\ Rearranged(s, d) /\ tally = group_by(s)
    BY <2>1 DEF ReportInv, TallyInv
  <2> DEFINE n == Len(s)
             T == Text(s, m)
  <2>3. n \in Nat /\ DOMAIN s = 1..n /\ \A j \in 1..n : s[j] \in Failures
    BY <2>2, LenProperties, ElementOfSeq
  <2>4. \A j \in 1..n : s[j].msg \in Int
    BY <2>3, FailureFacts
  <2> HIDE DEF n
  <2>5. {tally[j].num : j \in {i \in DOMAIN tally : tally[i].msg = m}}
          = IF T = {} THEN {} ELSE {Cardinality(T)}
    BY <2>2, <2>3, <2>4, GroupsOfSorted, ZenonT(60)
  <2>6. IsFiniteSet(T)
    <3>1. IsFiniteSet(1..n)
      BY <2>3, FS_Interval
    <3>2. T \subseteq 1..n
      BY <2>3 DEF Text
    <3>3. QED
      BY <3>1, <3>2, FS_Subset
  <2>7. PICK h \in Bijection(DOMAIN s, DOMAIN d) : \A k \in DOMAIN s : s[k] = d[h[k]]
    BY <2>2 DEF Rearranged
  <2>8. outcome \in Seq(Outcomes) /\ DOMAIN outcome = 1..Len(outcome)
        /\ \A j \in DOMAIN outcome : outcome[j] \in Outcomes
    BY <2>1, LenProperties, ElementOfSeq DEF ReportInv, ShapeInv
  <2>9. /\ DOMAIN d = {j \in DOMAIN outcome : ~outcome[j].ok}
        /\ \A j \in DOMAIN d : d[j] = outcome[j]
    BY <2>8 DEF ErrTill, Errs
  <2> HIDE DEF d
  <2>10. /\ \A k \in 1..n : h[k] \in DOMAIN d /\ s[k] = outcome[h[k]]
         /\ \A a, b \in 1..n : h[a] = h[b] => a = b
         /\ \A t \in DOMAIN d : \E k \in 1..n : h[k] = t
    BY <2>3, <2>7, <2>9, Fun_BijectionProperties, SMTT(60)
  <2> DEFINE g == [k \in T |-> h[k]]
  <2>11. g \in Bijection(T, N)
    <3>1. \A k \in T : k \in 1..n /\ s[k].msg = m
      BY <2>3 DEF Text
    <3>2. \A k \in T : h[k] \in N
      <4>1. SUFFICES ASSUME NEW k \in T
                     PROVE  h[k] \in N
        OBVIOUS
      <4>2. s[k] = [ok |-> FALSE, msg |-> s[k].msg]
        BY <2>3, <3>1, FailureFacts
      <4>3. QED
        BY <2>9, <2>10, <3>1, <4>2
    <3>3. g \in [T -> N]
      BY <3>2
    <3>4. \A a, b \in T : g[a] = g[b] => a = b
      BY <2>10, <3>1
    <3>5. \A t \in N : \E k \in T : g[k] = t
      <4>1. SUFFICES ASSUME NEW t \in N
                     PROVE  \E k \in T : g[k] = t
        OBVIOUS
      <4>2. t \in DOMAIN outcome /\ outcome[t] = [ok |-> FALSE, msg |-> m]
        OBVIOUS
      <4>3. outcome[t].ok = FALSE /\ outcome[t].msg = m
        BY <4>2
      <4>4. t \in DOMAIN d
        BY <2>9, <4>2, <4>3
      <4>5. PICK k \in 1..n : h[k] = t
        BY <2>10, <4>4
      <4>6. k \in T
        BY <2>3, <2>10, <4>3, <4>5 DEF Text
      <4>7. QED
        BY <4>5, <4>6
    <3> HIDE DEF g, T, N
    <3>6. QED
      BY <3>3, <3>4, <3>5, IsBijection
  <2> HIDE DEF g, T
  <2>12. Cardinality(N) = Cardinality(T)
    <3> HIDE DEF N
    <3>1. ExistsBijection(T, N)
      BY <2>11 DEF ExistsBijection
    <3>2. QED
      BY <2>6, <3>1, FS_Bijection
  <2>13. Cardinality(T) = 0 <=> T = {}
    BY <2>6, FS_EmptySet
  <2>14. QED
    BY <2>5, <2>12, <2>13
<1>2. QED
  BY <1>1, SpecReportInv, PTL
==============================================================================
