---------------------------- MODULE DpuCopyProofs ----------------------------
(***************************************************************************)
(* What the copy kernels do for every size of the buffers, length, number  *)
(* of tasklets and repetitions. Both copy units (words, or blocks) dealt   *)
(* out among the tasklets; the invariant says where each tasklet is among  *)
(* its own units, what the units passed by now hold, what the shared       *)
(* wram_cache holds in between, and how much was moved.                    *)
(***************************************************************************)
EXTENDS DpuCopy, FiniteSetTheorems, TLAPS

\* Multiples of n are in the order of their factors, and at least n apart.
LEMMA MulOrder ==
  ASSUME NEW n \in Nat \ {0}, NEW u \in Nat, NEW v \in Nat
  PROVE  /\ u * n \in Nat 
         /\ u < v <=> u * n < v * n
         /\ u < v <=> u * n + n <= v * n
  OBVIOUS

\* The rest of a number, once it is written as a multiple and a rest.
LEMMA ModUnique ==
  ASSUME NEW n \in Nat \ {0}, NEW v \in Nat, NEW k \in 0..(n - 1)
  PROVE  (v * n + k) % n = k
  OBVIOUS

\* Every number is a multiple and a rest.
LEMMA ModSplit ==
  ASSUME NEW n \in Nat \ {0}, NEW u \in Nat
  PROVE  u % n \in 0..(n - 1) /\ \E q \in Nat : u = q * n + (u % n)
<1>1. u % n \in 0..(n - 1) /\ u \div n \in Nat
  OBVIOUS
<1>2. u = (u \div n) * n + (u % n)
  OBVIOUS
<1>3. QED
  BY <1>1, <1>2

\* A step of n does not change the rest.
LEMMA ModStep ==
  ASSUME NEW n \in Nat \ {0}, NEW v \in Nat
  PROVE  (v + n) % n = v % n
<1>1. PICK q \in Nat : v = q * n + (v % n)
  BY ModSplit
<1> DEFINE r == v % n
<1>2. r \in 0..(n - 1) /\ v = q * n + r
  BY <1>1, ModSplit
<1> HIDE DEF r
<1>3. v + n = (q + 1) * n + r
  BY <1>2
<1>4. ((q + 1) * n + r) % n = r
  BY <1>2, ModUnique
<1>5. QED
  BY <1>3, <1>4 DEF r

\* Two numbers of the same rest are at least n apart.
LEMMA ModSame ==
  ASSUME NEW n \in Nat \ {0}, NEW u \in Nat, NEW v \in Nat, u % n = v % n, u < v + n
  PROVE  u <= v
<1>1. PICK q \in Nat : v = q * n + (v % n)
  BY ModSplit
<1>2. PICK p \in Nat : u = p * n + (u % n)
  BY ModSplit
<1> DEFINE r == v % n
<1>3. r \in 0..(n - 1) /\ v = q * n + r /\ u = p * n + r
  BY <1>1, <1>2, ModSplit
<1> HIDE DEF r
<1>4. p * n < q * n + n
  BY <1>3
<1>5. ~ (q < p)
  BY <1>4, MulOrder
<1>6. p = q \/ p * n < q * n
  BY <1>5, MulOrder
<1>7. QED
  BY <1>3, <1>6

------------------------------------------------------------------------------
(* The invariant.  Both kernels copy units, one after the other: words of     *)
(* buffer_a, or blocks, of which a part is moved.  Unit u is the business of   *)
(* tasklet u % threads.                                                       *)

Unit == IF args.mram THEN Block ELSE 1
Width == IF args.mram THEN Xfer ELSE 1
Units == {u \in Nat : u * Unit < args.dwords}
Of(u) == u % args.threads

Tasklets == [at : {"halted", "loop", "write"}, rep : Nat, pos : Nat]

\* A running tasklet is at one of its own units.
Placed ==
    \A t \in Me :
       /\ tasklet[t].at = "halted" => tasklet[t].rep = 0
       /\ tasklet[t].at # "halted" =>
             /\ tasklet[t].rep < args.reps
             /\ \E v \in Nat : v % args.threads = t /\ tasklet[t].pos = v * Unit
       /\ tasklet[t].at = "write" => args.mram /\ tasklet[t].pos < args.dwords

TypeInv ==
    /\ args \in Args
    /\ buffer_b \in [Words -> Words \cup {Before}]
    /\ wram_cache \in [0..(Xfer - 1) -> Words \cup {Before}]
    /\ tasklet \in [Me -> Tasklets] /\ Placed
    /\ launches \in 0..MaxLaunches
    /\ moved \in Int

\* Unit u of buffer_b holds a transfer of buffer_a.
Good(u) ==
    /\ ~args.mram => buffer_b[u] = u
    /\ args.mram => \E q \in Begins :
                       /\ \A k \in 0..(Xfer - 1) : buffer_b[u * Block + k] = q + k
                       /\ args.threads = 1 => q = u * Block

Passed(u) ==
    LET p == tasklet[Of(u)]
    IN  IF p.at = "halted" THEN launches > 0 ELSE u * Unit < p.pos

\* The units that were copied in this launch hold a transfer, the rest of the
\* buffer is as it was.
ContentInv ==
    /\ \A u \in Units : Passed(u) => Good(u)
    /\ ~args.mram => \A w \in Words : w >= args.dwords => buffer_b[w] = Before
    /\ args.mram => \A w \in Words : (w - (w % Block) \notin Begins \/ w % Block >= Xfer)
                                       => buffer_b[w] = Before

\* While a tasklet is between its two transfers, wram_cache holds one of buffer_a.
CacheInv ==
    (\E t \in Me : tasklet[t].at = "write") =>
       \E q \in Begins : /\ \A k \in 0..(Xfer - 1) : wram_cache[k] = q + k
                         /\ args.threads = 1 => q = tasklet[0].pos

\* What a launch has to copy, and what it has copied, repetition by repetition.
Full == (0..(args.reps - 1)) \X Units
Copied ==
    {x \in Full : LET p == tasklet[Of(x[2])]
                  IN  \/ p.at = "halted" \/ x[1] < p.rep
                      \/ x[1] = p.rep /\ x[2] * Unit < p.pos}

CountInv == moved = Width * (Cardinality(Full) * (launches - 1) + Cardinality(Copied))

IInv == TypeInv /\ ContentInv /\ CacheInv /\ CountInv

------------------------------------------------------------------------------
(* Facts about the arguments *)

\* What DpuAssumption says, without the remainder of Mram.
LEMMA ConstantFacts ==
  /\ Block \in Nat \ {0} /\ Xfer \in Nat \ {0} /\ Mram \in Nat \ {0} /\ Wram \in Nat \ {0}
  /\ Block = 4 * Xfer /\ Wram <= Mram /\ MaxLaunches \in Nat
  /\ Lengths \subseteq 1..Mram /\ Threads \subseteq Nat \ {0} /\ Reps \subseteq Nat \ {0}
  BY DpuAssumption

\* The types of the arguments of a launch and of what is computed from them: the
\* first unit of a tasklet and the stride, in words (wramcopy.c:18, mramcopy.c:19).
LEMMA ArgsFacts ==
  ASSUME args \in Args
  PROVE  /\ args.dwords \in Nat /\ 1 <= args.dwords /\ args.dwords <= Mram
         /\ args.reps \in Nat \ {0} /\ args.threads \in Nat \ {0} /\ args.mram \in BOOLEAN
         /\ Unit \in Nat \ {0} /\ Width \in Nat \ {0}
         /\ Stride = args.threads * Unit
         /\ \A t \in Me : First(t) = t * Unit /\ t \in Nat
         /\ \A u \in Nat : Of(u) \in Me
<1>1. /\ args.dwords \in Lengths /\ args.reps \in Reps /\ args.threads \in Threads
      /\ args.mram \in BOOLEAN
  BY DEF Args
<1>2. /\ args.dwords \in Nat /\ 1 <= args.dwords /\ args.dwords <= Mram
      /\ args.reps \in Nat \ {0} /\ args.threads \in Nat \ {0}
  <2>1. args.dwords \in 1..Mram /\ Mram \in Nat
    BY <1>1, ConstantFacts
  <2>2. args.reps \in Nat \ {0} /\ args.threads \in Nat \ {0}
    BY <1>1, ConstantFacts
  <2>3. QED
    BY <2>1, <2>2
<1>3. Unit \in Nat \ {0} /\ Width \in Nat \ {0}
  BY ConstantFacts DEF Unit, Width
<1>4. Stride = args.threads * Unit
  BY <1>2, ConstantFacts DEF Stride, Unit
<1>5. \A t \in Me : t \in Nat
  BY <1>2 DEF Me
<1>6. \A t \in Me : First(t) = t * Unit
  BY <1>5, ConstantFacts DEF First, Unit
<1>7. \A u \in Nat : Of(u) \in Me
  BY <1>2, ModSplit DEF Of, Me
<1>8. QED
  BY <1>1, <1>2, <1>3, <1>4, <1>5, <1>6, <1>7

\* The units of a launch are finitely many; it copies each of them once per repetition.
LEMMA UnitsFacts ==
  ASSUME args \in Args
  PROVE  /\ Units \subseteq 0..(args.dwords - 1)
         /\ IsFiniteSet(Units) /\ IsFiniteSet(Full)
         /\ Cardinality(Full) = args.reps * Cardinality(Units)
         /\ Cardinality(Units) \in Nat /\ Cardinality(Full) \in Nat
<1>1. /\ args.dwords \in Nat /\ args.reps \in Nat \ {0} /\ Unit \in Nat \ {0}
  BY ArgsFacts
<1>2. Units \subseteq 0..(args.dwords - 1)
  <2>1. ASSUME NEW u \in Nat, u * Unit < args.dwords
        PROVE  u \in 0..(args.dwords - 1)
    <3>1. u <= u * Unit /\ u * Unit \in Nat
      BY <1>1
    <3>2. QED
      BY <1>1, <2>1, <3>1
  <2>2. QED
    BY <2>1 DEF Units
<1>3. IsFiniteSet(Units)
  <2>1. 0 \in Int /\ args.dwords - 1 \in Int
    BY <1>1
  <2>2. IsFiniteSet(0..(args.dwords - 1))
    BY <2>1, FS_Interval
  <2>3. QED
    BY <1>2, <2>2, FS_Subset
<1>4. IsFiniteSet(0..(args.reps - 1)) /\ Cardinality(0..(args.reps - 1)) = args.reps
  <2>1. 0 \in Int /\ args.reps - 1 \in Int /\ ~ (0 > args.reps - 1) /\ args.reps - 1 - 0 + 1 = args.reps
    BY <1>1
  <2>2. QED
    BY <2>1, FS_Interval
<1>5. IsFiniteSet(Full) /\ Cardinality(Full) = args.reps * Cardinality(Units)
  BY <1>3, <1>4, FS_Product DEF Full
<1>6. QED
  BY <1>2, <1>3, <1>5, FS_CardinalityType

\* The arguments do not change.
LEMMA Fixed ==
  ASSUME args' = args
  PROVE  /\ Unit' = Unit /\ Width' = Width /\ Units' = Units /\ Me' = Me /\ Full' = Full
         /\ Begins' = Begins
<1>1. Unit' = Unit /\ Width' = Width
  BY DEF Unit, Width
<1>2. Me' = Me /\ Begins' = Begins
  BY DEF Me, Begins
<1>3. Units' = Units
  BY <1>1 DEF Units
<1>4. Full' = Full
  BY <1>3 DEF Full
<1>5. QED
  BY <1>1, <1>2, <1>3, <1>4

\* A unit of memory lies within the buffers.
LEMMA UnitFits ==
  ASSUME args \in Args, NEW v \in Nat, v * Unit < args.dwords
  PROVE  /\ v * Unit + Width <= Mram /\ v * Unit \in Nat /\ v * Unit \in Words
         /\ args.mram => v * Unit \in Begins
<1>1. CASE ~args.mram
  BY <1>1, ArgsFacts, ConstantFacts DEF Unit, Width, Words
<1>2. CASE args.mram
  <2>1. Unit = Block /\ Width = Xfer /\ v * Block \in Nat /\ v * Block < Mram
    BY <1>2, ArgsFacts, ConstantFacts DEF Unit, Width
  <2>2. PICK m \in Nat : Mram = m * Block + (Mram % Block)
    BY ConstantFacts, ModSplit
  <2>3. Mram = m * Block
    BY <2>2, DpuAssumption
  <2>4. v * Block + Block <= Mram
    BY <2>1, <2>3, ConstantFacts, MulOrder
  <2>5. (v * Block + 0) % Block = 0
    <3>1. 0 \in 0..(Block - 1) /\ Block \in Nat \ {0}
      BY ConstantFacts
    <3>2. QED
      BY <3>1, ModUnique
  <2>6. v * Block + 0 = v * Block
    BY <2>1
  <2>7. v * Block \in Words
    BY <2>1, ConstantFacts DEF Words
  <2>8. v * Block \in Begins
    BY <2>1, <2>5, <2>6, <2>7 DEF Begins
  <2>9. QED
    BY <2>1, <2>4, <2>7, <2>8, ConstantFacts
<1>3. QED
  BY <1>1, <1>2, ArgsFacts

\* From one unit of a tasklet to its next one there is no other of its units.
LEMMA NextUnit ==
  ASSUME NEW n \in Nat \ {0}, NEW k \in Nat \ {0}, NEW u \in Nat, NEW v \in Nat, u % n = v % n
  PROVE  u * k < v * k + n * k <=> u * k < v * k \/ u = v
<1>1. v * k + n * k = (v + n) * k
  OBVIOUS
<1>2. u * k < (v + n) * k <=> u < v + n
  BY MulOrder
<1>3. u * k < v * k <=> u < v
  BY MulOrder
<1>4. u < v + n => u <= v
  BY ModSame
<1>5. QED
  BY <1>1, <1>2, <1>3, <1>4

\* Tasklet t goes from its unit v to its next one.
Advances(t) ==
    /\ tasklet[t].at # "halted" /\ tasklet[t].pos < args.dwords
    /\ tasklet' \in [Me -> Tasklets] /\ tasklet'[t].at = "loop"
    /\ tasklet'[t].rep = tasklet[t].rep /\ tasklet'[t].pos = tasklet[t].pos + Stride
    /\ \A i \in Me : i # t => tasklet'[i] = tasklet[i]
    /\ UNCHANGED <<args, launches>>

\* A tasklet that copies a unit goes on to a unit of its own.
LEMMA AdvancePlaced ==
  ASSUME TypeInv, NEW t \in Me, Advances(t)
  PROVE  \E v \in Units :
            /\ v % args.threads = t /\ tasklet[t].pos = v * Unit /\ v \in Nat
            /\ tasklet'[t].pos = v * Unit + args.threads * Unit
            /\ Placed'
<1>1. PICK v \in Nat : v % args.threads = t /\ tasklet[t].pos = v * Unit
  BY DEF Advances, TypeInv, Placed
<1>2. v \in Units
  BY <1>1 DEF Advances, Units
<1>3. tasklet'[t].pos = v * Unit + args.threads * Unit
  BY <1>1, ArgsFacts DEF Advances, TypeInv
<1>4. /\ args.threads \in Nat \ {0} /\ Unit \in Nat \ {0} /\ Unit' = Unit /\ Me' = Me
      /\ args' = args
  BY ArgsFacts, Fixed DEF TypeInv, Advances
<1>5. v * Unit + args.threads * Unit = (v + args.threads) * Unit /\ v + args.threads \in Nat
  BY <1>4
<1>6. (v + args.threads) % args.threads = t
  BY <1>1, <1>4, ModStep
<1>7. tasklet[t].rep < args.reps
  BY DEF TypeInv, Placed, Advances
<1>8. ASSUME NEW i \in Me
      PROVE  /\ tasklet'[i].at = "halted" => tasklet'[i].rep = 0
             /\ tasklet'[i].at # "halted" =>
                   /\ tasklet'[i].rep < args.reps
                   /\ \E w \in Nat : w % args.threads = i /\ tasklet'[i].pos = w * Unit
             /\ tasklet'[i].at = "write" => args.mram /\ tasklet'[i].pos < args.dwords
  <2>1. CASE i = t
    <3>1. tasklet'[i].at = "loop" /\ tasklet'[i].rep < args.reps
      BY <2>1, <1>7 DEF Advances
    <3>2. \E w \in Nat : w % args.threads = i /\ tasklet'[i].pos = w * Unit
      BY <2>1, <1>3, <1>5, <1>6
    <3>3. QED
      BY <3>1, <3>2
  <2>2. CASE i # t
    BY <2>2 DEF Advances, TypeInv, Placed
  <2>3. QED
    BY <2>1, <2>2
<1>9. Placed'
  BY <1>4, <1>8 DEF Placed
<1>10. QED
  BY <1>1, <1>2, <1>3, <1>9

\* A tasklet that copies a unit adds one to what the launch has copied.
LEMMA AdvanceCopied ==
  ASSUME TypeInv, NEW t \in Me, Advances(t)
  PROVE  /\ Cardinality(Copied') = Cardinality(Copied) + 1
         /\ Cardinality(Copied) \in Nat
<1>1. PICK v \in Units : /\ v % args.threads = t /\ tasklet[t].pos = v * Unit /\ v \in Nat
                         /\ tasklet'[t].pos = v * Unit + args.threads * Unit
  BY AdvancePlaced
<1>2. /\ args.threads \in Nat \ {0} /\ Unit \in Nat \ {0} /\ Unit' = Unit /\ Me' = Me
      /\ args' = args /\ Full' = Full /\ args.reps \in Nat \ {0}
  BY ArgsFacts, Fixed DEF TypeInv, Advances
<1> DEFINE r == tasklet[t].rep
           x0 == <<r, v>>
<1>3. r \in 0..(args.reps - 1)
  BY <1>2 DEF Advances, TypeInv, Placed, Tasklets
<1>4. x0 \in Full
  BY <1>1, <1>3 DEF Full
<1>5. v * Unit \in Nat /\ ~ (v * Unit < v * Unit)
  BY <1>1, <1>2
<1>6. x0 \notin Copied
  BY <1>1, <1>3, <1>5, SMTT(60) DEF Copied, Of, Advances
<1>7. ASSUME NEW x \in Full
      PROVE  x \in Copied' <=> x \in Copied \/ x = x0
  <2>1. /\ x = <<x[1], x[2]>> /\ x[1] \in Nat /\ x[2] \in Nat
    BY <1>2 DEF Full, Units
  <2> DEFINE i == Of(x[2])
             p == tasklet[i]
             q == tasklet'[i]
  <2>2. i \in Me /\ Of(x[2])' = i
    BY <1>2, <2>1, ArgsFacts DEF Of, TypeInv
  <2>3. x \in Copied <=> p.at = "halted" \/ x[1] < p.rep \/ (x[1] = p.rep /\ x[2] * Unit < p.pos)
    BY DEF Copied
  <2>4. x \in Copied' <=> q.at = "halted" \/ x[1] < q.rep \/ (x[1] = q.rep /\ x[2] * Unit < q.pos)
    BY <1>2, <2>2 DEF Copied
  <2>5. CASE i # t
    <3>1. q = p
      BY <2>2, <2>5 DEF Advances
    <3>2. x # x0
      BY <1>1, <2>5 DEF Of
    <3> HIDE DEF p, q, i
    <3>3. QED
      BY <2>3, <2>4, <3>1, <3>2
  <2>6. CASE i = t
    <3>1. x[2] % args.threads = v % args.threads
      BY <1>1, <2>6 DEF Of
    <3>2. x[2] * Unit < q.pos <=> x[2] * Unit < p.pos \/ x[2] = v
      BY <1>1, <1>2, <2>1, <2>6, <3>1, NextUnit
    <3>3. q.rep = r /\ p.rep = r /\ q.at # "halted" /\ p.at # "halted"
      BY <2>6 DEF Advances
    <3>4. x = x0 <=> x[1] = r /\ x[2] = v
      BY <2>1
    <3> HIDE DEF p, q, r, i, x0
    <3>5. QED
      BY <2>3, <2>4, <3>2, <3>3, <3>4
  <2>7. QED
    BY <2>5, <2>6
<1>8. Copied' \subseteq Full /\ Copied \subseteq Full
  BY <1>2 DEF Copied
<1>9. Copied' = Copied \cup {x0}
  BY <1>4, <1>7, <1>8
<1>10. IsFiniteSet(Copied)
  BY <1>8, UnitsFacts, FS_Subset DEF TypeInv
<1>11. QED
  BY <1>6, <1>9, <1>10, FS_AddElement, FS_CardinalityType

\* Both kernels' copying steps advance their tasklet, and no other.
LEMMA CopyAdvances ==
  ASSUME TypeInv, NEW t \in Me, WramCopy(t) \/ MramWrite(t)
  PROVE  Advances(t)
<1> DEFINE p == tasklet[t]
           q == [at |-> "loop", rep |-> p.rep, pos |-> p.pos + Stride]
<1>1. tasklet \in [Me -> Tasklets] /\ p \in Tasklets
  BY DEF TypeInv
<1>2. Stride \in Nat
  <2>1. args.threads \in Nat /\ Unit \in Nat /\ Stride = args.threads * Unit
    BY ArgsFacts DEF TypeInv
  <2>2. QED
    BY <2>1
<1>3. p.at # "halted" /\ p.pos < args.dwords /\ UNCHANGED <<args, launches>>
  BY DEF WramCopy, MramWrite, TypeInv, Placed
<1>4. q \in Tasklets
  BY <1>1, <1>2 DEF Tasklets
<1>5. tasklet' = [tasklet EXCEPT ![t] = q]
  <2>1. CASE WramCopy(t)
    <3>1. tasklet' = [tasklet EXCEPT ![t] = [p EXCEPT !.pos = p.pos + Stride]] /\ p.at = "loop"
      BY <2>1 DEF WramCopy
    <3>2. [p EXCEPT !.pos = p.pos + Stride] = q
      BY <1>1, <3>1 DEF Tasklets
    <3>3. QED
      BY <3>1, <3>2
  <2>2. CASE MramWrite(t)
    <3> DEFINE mid == [tasklet EXCEPT ![t].at = "loop"]
    <3>1. tasklet' = [mid EXCEPT ![t].pos = @ + Stride]
      BY <2>2 DEF MramWrite
    <3>2. /\ mid \in [Me -> Tasklets] /\ mid[t] = [at |-> "loop", rep |-> p.rep, pos |-> p.pos]
          /\ \A i \in Me : i # t => mid[i] = tasklet[i]
      BY <1>1 DEF Tasklets
    <3> HIDE DEF mid
    <3>3. tasklet' = [mid EXCEPT ![t] = [mid[t] EXCEPT !.pos = mid[t].pos + Stride]]
      BY <3>1
    <3>4. [mid[t] EXCEPT !.pos = mid[t].pos + Stride] = q
      BY <3>2
    <3>5. tasklet' = [mid EXCEPT ![t] = q]
      BY <3>3, <3>4
    <3> HIDE DEF q, p
    <3>6. QED
      BY <1>1, <3>2, <3>5
  <2>3. QED
    BY <2>1, <2>2
<1>6. tasklet' \in [Me -> Tasklets] /\ tasklet'[t] = q /\ \A i \in Me : i # t => tasklet'[i] = tasklet[i]
  BY <1>1, <1>4, <1>5
<1>7. QED
  BY <1>3, <1>6 DEF Advances

\* A tasklet's first unit.
LEMMA FirstUnit ==
  ASSUME args \in Args, NEW t \in Me
  PROVE  /\ t \in Nat /\ t % args.threads = t /\ First(t) = t * Unit /\ First(t) \in Nat
         /\ \A u \in Nat : Of(u) = t => ~ (u * Unit < First(t))
<1>1. t \in Nat /\ t \in 0..(args.threads - 1) /\ First(t) = t * Unit
  BY ArgsFacts DEF Me
<1>2. args.threads \in Nat \ {0} /\ Unit \in Nat \ {0}
  BY ArgsFacts
<1>3. t % args.threads = t
  <2>1. (0 * args.threads + t) % args.threads = t
    BY <1>1, <1>2, ModUnique
  <2>2. 0 * args.threads + t = t
    BY <1>1, <1>2
  <2>3. QED
    BY <2>1, <2>2
<1>4. ASSUME NEW u \in Nat, Of(u) = t, u * Unit < t * Unit
      PROVE  FALSE
  <2>1. u < t
    BY <1>1, <1>2, <1>4, MulOrder
  <2>2. u \in 0..(args.threads - 1)
    BY <1>1, <1>2, <2>1
  <2>3. u % args.threads = u
    <3>1. (0 * args.threads + u) % args.threads = u
      BY <1>2, <2>2, ModUnique
    <3>2. 0 * args.threads + u = u
      BY <1>2
    <3>3. QED
      BY <3>1, <3>2
  <2>4. QED
    BY <1>1, <1>4, <2>1, <2>3 DEF Of
<1>5. t * Unit \in Nat
  BY <1>1, <1>2
<1>6. QED
  BY <1>1, <1>3, <1>4, <1>5

\* Every step keeps the types, and each tasklet at its own units.
LEMMA NextType == TypeInv /\ [Next]_vars => TypeInv'
<1> SUFFICES ASSUME TypeInv, [Next]_vars PROVE TypeInv'
  OBVIOUS
<1>1. CASE UNCHANGED vars
  BY <1>1, Fixed DEF vars, TypeInv, Placed
<1>2. /\ args.dwords \in Nat /\ args.reps \in Nat \ {0} /\ args.threads \in Nat \ {0}
      /\ Unit \in Nat \ {0} /\ args \in Args /\ tasklet \in [Me -> Tasklets]
      /\ launches \in 0..MaxLaunches /\ moved \in Int
      /\ buffer_b \in [Words -> Words \cup {Before}]
      /\ wram_cache \in [0..(Xfer - 1) -> Words \cup {Before}]
  BY ArgsFacts DEF TypeInv
<1>3. CASE Launch
  <2>1. /\ args' = args /\ buffer_b' = buffer_b /\ wram_cache' = wram_cache /\ moved' = moved
        /\ launches' \in 0..MaxLaunches
        /\ tasklet' = [t \in Me |-> [at |-> "loop", rep |-> 0, pos |-> First(t)]]
    BY <1>2, <1>3, ConstantFacts DEF Launch
  <2>2. Me' = Me /\ Unit' = Unit
    BY <2>1, Fixed
  <2>3. tasklet' \in [Me -> Tasklets]
    BY <1>2, <2>1, FirstUnit DEF Tasklets
  <2>4. ASSUME NEW t \in Me
        PROVE  /\ tasklet'[t].at = "loop" /\ tasklet'[t].rep < args.reps
               /\ \E v \in Nat : v % args.threads = t /\ tasklet'[t].pos = v * Unit
    <3>1. t \in Nat /\ t % args.threads = t /\ First(t) = t * Unit
      BY <1>2, FirstUnit
    <3>2. tasklet'[t].at = "loop" /\ tasklet'[t].rep = 0 /\ tasklet'[t].pos = First(t)
      BY <2>1
    <3>3. QED
      BY <1>2, <3>1, <3>2
  <2>5. Placed'
    BY <2>1, <2>2, <2>4 DEF Placed
  <2>6. QED
    BY <1>2, <2>1, <2>2, <2>3, <2>5 DEF TypeInv
<1>4. ASSUME NEW t \in Me, WramCopy(t)
      PROVE  TypeInv'
  <2>1. Advances(t)
    BY <1>4, CopyAdvances
  <2>2. tasklet' \in [Me -> Tasklets] /\ Placed' /\ Me' = Me /\ args' = args /\ launches' = launches
    BY <2>1, AdvancePlaced, Fixed DEF Advances
  <2>3. PICK v \in Units : tasklet[t].pos = v * Unit /\ v \in Nat
    BY <2>1, AdvancePlaced
  <2>4. tasklet[t].pos \in Words
    BY <1>2, <2>3, UnitFits DEF Units
  <2>5. buffer_b' \in [Words -> Words \cup {Before}]
    BY <1>2, <1>4, <2>4 DEF WramCopy
  <2>6. QED
    BY <1>2, <1>4, <2>2, <2>5 DEF WramCopy, TypeInv
<1>5. ASSUME NEW t \in Me, MramRead(t)
      PROVE  TypeInv'
  <2>1. /\ args' = args /\ buffer_b' = buffer_b /\ launches' = launches /\ moved' = moved
        /\ args.mram /\ tasklet[t].pos < args.dwords /\ tasklet[t].at = "loop"
        /\ tasklet' = [tasklet EXCEPT ![t].at = "write"]
        /\ wram_cache' = [k \in 0..(Xfer - 1) |-> tasklet[t].pos + k]
    BY <1>5 DEF MramRead
  <2>2. Me' = Me /\ Unit' = Unit
    BY <2>1, Fixed
  <2>3. PICK v \in Nat : v % args.threads = t /\ tasklet[t].pos = v * Unit
    BY <2>1 DEF TypeInv, Placed
  <2>4. tasklet[t].pos \in Nat /\ tasklet[t].pos + Xfer <= Mram
    BY <1>2, <2>1, <2>3, UnitFits DEF Width
  <2>5. wram_cache' \in [0..(Xfer - 1) -> Words \cup {Before}]
    BY <2>1, <2>4, ConstantFacts, SMTT(60) DEF Words
  <2>6. tasklet' \in [Me -> Tasklets]
    BY <1>2, <2>1, ZenonT(60) DEF Tasklets
  <2>7. \A i \in Me : /\ tasklet'[i].pos = tasklet[i].pos /\ tasklet'[i].rep = tasklet[i].rep
                      /\ i # t => tasklet'[i].at = tasklet[i].at
    BY <1>2, <2>1 DEF Tasklets
  <2>8. Placed'
    BY <2>1, <2>2, <2>7 DEF TypeInv, Placed
  <2>9. QED
    BY <1>2, <2>1, <2>2, <2>5, <2>6, <2>8 DEF TypeInv
<1>6. ASSUME NEW t \in Me, MramWrite(t)
      PROVE  TypeInv'
  <2>1. Advances(t)
    BY <1>6, CopyAdvances
  <2>2. tasklet' \in [Me -> Tasklets] /\ Placed' /\ Me' = Me /\ args' = args /\ launches' = launches
    BY <2>1, AdvancePlaced, Fixed DEF Advances
  <2>3. buffer_b' \in [Words -> Words \cup {Before}]
    BY <1>2, <1>6 DEF MramWrite
  <2>4. moved' \in Int
    BY <1>2, <1>6, ConstantFacts DEF MramWrite
  <2>5. QED
    BY <1>2, <1>6, <2>2, <2>3, <2>4 DEF MramWrite, TypeInv
<1>7. ASSUME NEW t \in Me, EndRepetition(t)
      PROVE  TypeInv'
  <2> DEFINE r == tasklet[t].rep
             p == IF r + 1 = args.reps THEN Halted
                  ELSE [at |-> "loop", rep |-> r + 1, pos |-> First(t)]
  <2>1. /\ args' = args /\ buffer_b' = buffer_b /\ launches' = launches /\ moved' = moved
        /\ wram_cache' = wram_cache /\ tasklet[t].at = "loop"
        /\ tasklet' = [tasklet EXCEPT ![t] = p]
    BY <1>7 DEF EndRepetition
  <2>2. Me' = Me /\ Unit' = Unit
    BY <2>1, Fixed
  <2>3. r \in Nat /\ r < args.reps
    BY <1>2, <2>1 DEF TypeInv, Placed, Tasklets
  <2>4. t \in Nat /\ t % args.threads = t /\ First(t) = t * Unit /\ First(t) \in Nat
    BY <1>2, FirstUnit
  <2>5. /\ p \in Tasklets /\ p.at # "write" /\ (p.at = "halted" => p.rep = 0)
        /\ p.at # "halted" => p.rep < args.reps /\ p.pos = t * Unit
    BY <1>2, <2>3, <2>4 DEF Tasklets, Halted
  <2> HIDE DEF p
  <2>6. tasklet' \in [Me -> Tasklets] /\ tasklet'[t] = p /\ \A i \in Me : i # t => tasklet'[i] = tasklet[i]
    BY <1>2, <2>1, <2>5
  <2>7. Placed'
    BY <2>1, <2>2, <2>4, <2>5, <2>6, ZenonT(60) DEF TypeInv, Placed
  <2>8. QED
    BY <1>2, <2>1, <2>2, <2>6, <2>7 DEF TypeInv
<1>8. QED
  BY <1>1, <1>3, <1>4, <1>5, <1>6, <1>7 DEF Next

\* The units a launch has passed after a copy step: one more.
LEMMA AdvancePassed ==
  ASSUME TypeInv, NEW t \in Me, Advances(t)
  PROVE  \E v \in Units : /\ tasklet[t].pos = v * Unit /\ v \in Nat
                          /\ \A u \in Units : Passed(u)' => Passed(u) \/ u = v
<1>1. PICK v \in Units : /\ v % args.threads = t /\ tasklet[t].pos = v * Unit /\ v \in Nat
                         /\ tasklet'[t].pos = v * Unit + args.threads * Unit
  BY AdvancePlaced
<1>2. /\ args.threads \in Nat \ {0} /\ Unit \in Nat \ {0} /\ Unit' = Unit
      /\ args' = args /\ launches' = launches
  BY ArgsFacts, Fixed DEF TypeInv, Advances
<1>3. ASSUME NEW u \in Units, Passed(u)', u # v
      PROVE  Passed(u)
  <2>1. u \in Nat /\ Of(u) \in Me /\ Of(u)' = Of(u)
    BY <1>2, ArgsFacts DEF Units, TypeInv, Of
  <2>2. CASE Of(u) # t
    <3>1. tasklet'[Of(u)] = tasklet[Of(u)]
      BY <2>1, <2>2 DEF Advances
    <3>2. QED
      BY <1>2, <1>3, <2>1, <3>1 DEF Passed
  <2>3. CASE Of(u) = t
    <3>1. u * Unit < v * Unit + args.threads * Unit
      BY <1>1, <1>2, <1>3, <2>1, <2>3 DEF Passed, Advances
    <3>2. u * Unit < v * Unit
      BY <1>1, <1>2, <1>3, <2>1, <2>3, <3>1, NextUnit DEF Of
    <3>3. QED
      BY <1>1, <2>3, <3>2 DEF Passed, Advances
  <2>4. QED
    BY <2>2, <2>3
<1>4. QED
  BY <1>1, <1>3

\* Steps that copy nothing pass no unit, and change no buffer.
LEMMA IdlePassed ==
  ASSUME TypeInv, [Next]_vars, ~ \E t \in Me : WramCopy(t) \/ MramWrite(t)
  PROVE  /\ args' = args /\ buffer_b' = buffer_b
         /\ \A u \in Units : Passed(u)' => Passed(u)
<1>1. /\ args \in Args /\ tasklet \in [Me -> Tasklets] /\ Unit \in Nat \ {0}
      /\ args.dwords \in Nat
  BY ArgsFacts DEF TypeInv
<1>2. args' = args /\ buffer_b' = buffer_b /\ Unit' = Unit
  BY Fixed DEF Next, vars, Launch, MramRead, EndRepetition
<1> SUFFICES ASSUME NEW u \in Units, Passed(u)'
             PROVE  Passed(u)
  BY <1>2
<1>3. u \in Nat /\ Of(u) \in Me /\ Of(u)' = Of(u) /\ u * Unit < args.dwords /\ u * Unit \in Nat
  BY <1>1, <1>2, ArgsFacts DEF Units, Of
<1>4. CASE UNCHANGED vars
  BY <1>2, <1>3, <1>4 DEF Passed, vars
<1>5. CASE Launch
  <2>1. tasklet'[Of(u)].at = "loop" /\ tasklet'[Of(u)].pos = First(Of(u))
    BY <1>3, <1>5 DEF Launch
  <2>2. u * Unit < First(Of(u))
    BY <1>2, <1>3, <2>1 DEF Passed
  <2>3. QED
    BY <1>1, <1>3, <2>2, FirstUnit
<1>6. ASSUME NEW t \in Me, MramRead(t)
      PROVE  Passed(u)
  <2>1. /\ tasklet[t].at = "loop" /\ launches' = launches
        /\ tasklet' = [tasklet EXCEPT ![t].at = "write"]
    BY <1>6 DEF MramRead
  <2>2. /\ tasklet'[Of(u)].pos = tasklet[Of(u)].pos
        /\ tasklet'[Of(u)].at = "halted" <=> tasklet[Of(u)].at = "halted"
    BY <1>1, <1>3, <2>1 DEF Tasklets
  <2>3. QED
    BY <1>2, <1>3, <2>1, <2>2 DEF Passed
<1>7. ASSUME NEW t \in Me, EndRepetition(t)
      PROVE  Passed(u)
  <2>1. tasklet[t].at = "loop" /\ tasklet[t].pos >= args.dwords /\ launches' = launches
    BY <1>7 DEF EndRepetition
  <2>2. CASE Of(u) = t
    <3>1. tasklet[t].pos \in Nat
      BY <1>1 DEF Tasklets
    <3>2. u * Unit < tasklet[t].pos
      BY <1>1, <1>3, <2>1, <3>1
    <3>3. QED
      BY <2>1, <2>2, <3>2 DEF Passed
  <2>3. CASE Of(u) # t
    <3>1. tasklet'[Of(u)] = tasklet[Of(u)]
      BY <1>1, <1>3, <1>7, <2>3 DEF EndRepetition
    <3>2. QED
      BY <1>2, <1>3, <2>1, <3>1 DEF Passed
  <2>4. QED
    BY <2>2, <2>3
<1>8. QED
  BY <1>4, <1>5, <1>6, <1>7 DEF Next

\* Two blocks do not overlap.
LEMMA BlocksApart ==
  ASSUME NEW u \in Nat, NEW v \in Nat, u # v, NEW k \in 0..(Xfer - 1)
  PROVE  u * Block + k - v * Block \notin 0..(Xfer - 1)
<1>1. Block \in Nat \ {0} /\ Xfer \in Nat \ {0} /\ Xfer <= Block
  BY ConstantFacts
<1>2. u * Block \in Nat /\ v * Block \in Nat
  BY <1>1
<1>3. u * Block + Block <= v * Block \/ v * Block + Block <= u * Block
  BY <1>1, MulOrder
<1> DEFINE a == u * Block
           b == v * Block
<1> HIDE DEF a, b
<1>4. a \in Nat /\ b \in Nat /\ (a + Block <= b \/ b + Block <= a)
  BY <1>2, <1>3 DEF a, b
<1>5. a + k - b \notin 0..(Xfer - 1)
  BY <1>1, <1>4
<1>6. QED
  BY <1>5 DEF a, b

\* What counts as copied when nothing runs is all there is to copy.
LEMMA HaltedCopied ==
  ASSUME args \in Args, AllHalted
  PROVE  Copied = Full
<1>1. ASSUME NEW x \in Full
      PROVE  tasklet[Of(x[2])].at = "halted"
  <2>1. x[2] \in Nat
    BY DEF Full, Units
  <2>2. QED
    BY <2>1, ArgsFacts DEF AllHalted
<1>2. QED
  BY <1>1 DEF Copied

\* The invariant holds before the first launch.
LEMMA InitIInv == Init => IInv
<1> SUFFICES ASSUME Init PROVE IInv
  OBVIOUS
<1>1. /\ args \in Args /\ launches = 0 /\ moved = 0
      /\ buffer_b = [w \in Words |-> Before] /\ tasklet = [t \in Me |-> Halted]
      /\ wram_cache = [k \in 0..(Xfer - 1) |-> Before]
  BY DEF Init
<1>2. \A t \in Me : tasklet[t] = Halted /\ tasklet[t].at = "halted" /\ tasklet[t].rep = 0
  BY <1>1 DEF Halted
<1>3. TypeInv
  <2>1. Halted \in Tasklets
    BY DEF Halted, Tasklets
  <2>2. tasklet \in [Me -> Tasklets]
    BY <1>1, <2>1
  <2>3. Placed
    BY <1>2 DEF Placed
  <2>4. QED
    BY <1>1, <2>2, <2>3, ConstantFacts DEF TypeInv
<1>4. ContentInv
  <2>1. ASSUME NEW u \in Units
        PROVE  ~Passed(u)
    <3>1. Of(u) \in Me
      BY <1>1, ArgsFacts DEF Units
    <3>2. QED
      BY <1>1, <1>2, <3>1 DEF Passed
  <2>2. \A w \in Words : buffer_b[w] = Before
    BY <1>1
  <2>3. QED
    BY <2>1, <2>2 DEF ContentInv
<1>5. CacheInv
  BY <1>2 DEF CacheInv
<1>6. CountInv
  <2>1. Copied = Full
    BY <1>1, <1>2, HaltedCopied DEF AllHalted
  <2>2. Cardinality(Full) \in Nat /\ Width \in Nat
    BY <1>1, UnitsFacts, ArgsFacts
  <2>3. Width * (Cardinality(Full) * (0 - 1) + Cardinality(Full)) = 0
    BY <2>2
  <2>4. QED
    BY <1>1, <2>1, <2>3 DEF CountInv
<1>7. QED
  BY <1>3, <1>4, <1>5, <1>6 DEF IInv

\* The word of a block that a transfer writes begins in Begins.
LEMMA InBlock ==
  ASSUME args \in Args, args.mram, NEW v \in Units, NEW k \in 0..(Xfer - 1)
  PROVE  /\ v * Block \in Begins /\ v * Block + k \in Words
         /\ (v * Block + k) % Block = k
         /\ (v * Block + k) - ((v * Block + k) % Block) = v * Block
<1>1. v \in Nat /\ v * Unit < args.dwords /\ Unit = Block /\ Width = Xfer
  BY DEF Units, Unit, Width
<1>2. v * Block \in Begins /\ v * Block + Xfer <= Mram /\ v * Block \in Nat
  BY <1>1, UnitFits
<1>3. Block \in Nat \ {0} /\ Xfer \in Nat \ {0} /\ Xfer <= Block /\ Mram \in Nat
  BY ConstantFacts
<1>4. k \in 0..(Block - 1) /\ k \in Nat
  BY <1>3
<1>5. (v * Block + k) % Block = k
  BY <1>1, <1>3, <1>4, ModUnique
<1> DEFINE a == v * Block
<1> HIDE DEF a
<1>6. a \in Nat /\ a + Xfer <= Mram
  BY <1>2 DEF a
<1>7. a + k \in Words /\ (a + k) - k = a
  BY <1>3, <1>4, <1>6 DEF Words
<1>8. QED
  BY <1>2, <1>5, <1>7 DEF a

\* Every step keeps what the buffer holds: the units passed are transfers, and
\* the rest is untouched.
LEMMA NextContent == TypeInv /\ ContentInv /\ CacheInv /\ [Next]_vars => ContentInv'
<1> SUFFICES ASSUME TypeInv, ContentInv, CacheInv, [Next]_vars PROVE ContentInv'
  OBVIOUS
<1>1. /\ args \in Args /\ buffer_b \in [Words -> Words \cup {Before}] /\ args.mram \in BOOLEAN
      /\ args.dwords \in Nat
  BY ArgsFacts DEF TypeInv
<1>2. CASE ~ \E t \in Me : WramCopy(t) \/ MramWrite(t)
  <2>1. args' = args /\ buffer_b' = buffer_b /\ \A u \in Units : Passed(u)' => Passed(u)
    BY <1>2, IdlePassed
  <2>2. Units' = Units /\ Begins' = Begins
    BY <2>1, Fixed
  <2>3. ASSUME NEW u \in Units, Passed(u)'
        PROVE  Good(u)'
    <3>1. Good(u)
      BY <2>1, <2>3 DEF ContentInv
    <3>2. QED
      BY <2>1, <2>2, <3>1 DEF Good
  <2>4. QED
    BY <2>1, <2>2, <2>3 DEF ContentInv
<1>3. ASSUME NEW t \in Me, WramCopy(t)
      PROVE  ContentInv'
  <2>1. Advances(t)
    BY <1>3, CopyAdvances
  <2>2. PICK v \in Units : /\ tasklet[t].pos = v * Unit /\ v \in Nat
                           /\ \A u \in Units : Passed(u)' => Passed(u) \/ u = v
    BY <2>1, AdvancePassed
  <2>3. /\ ~args.mram /\ args' = args /\ Unit = 1 /\ tasklet[t].pos < args.dwords
        /\ buffer_b' = [buffer_b EXCEPT ![tasklet[t].pos] = tasklet[t].pos]
    BY <1>3 DEF WramCopy, Unit
  <2>4. Units' = Units /\ tasklet[t].pos = v /\ v < args.dwords
    BY <2>2, <2>3, Fixed
  <2>5. buffer_b' = [buffer_b EXCEPT ![v] = v]
    BY <2>3, <2>4
  <2>6. v \in Words
    <3>1. args.dwords <= Mram /\ Mram \in Nat
      BY <1>1, ArgsFacts, ConstantFacts
    <3>2. QED
      BY <1>1, <2>2, <2>4, <3>1 DEF Words
  <2>7. ASSUME NEW u \in Units, Passed(u)'
        PROVE  Good(u)'
    <3>1. u \in Words
      <4>1. u \in 0..(args.dwords - 1) /\ args.dwords <= Mram
        BY <1>1, UnitsFacts, ArgsFacts
      <4>2. QED
        BY <1>1, <4>1, ConstantFacts DEF Words
    <3>2. u # v => buffer_b[u] = u
      BY <2>2, <2>3, <2>7 DEF ContentInv, Good
    <3>3. buffer_b'[u] = u
      BY <1>1, <2>5, <2>6, <3>1, <3>2
    <3>4. QED
      BY <2>3, <3>3 DEF Good
  <2>8. ASSUME NEW w \in Words, w >= args.dwords
        PROVE  buffer_b'[w] = Before
    <3>1. w # v /\ buffer_b[w] = Before
      BY <1>1, <2>2, <2>3, <2>4, <2>8 DEF ContentInv, Words
    <3>2. QED
      BY <1>1, <2>5, <3>1
  <2>9. QED
    BY <2>3, <2>4, <2>7, <2>8 DEF ContentInv
<1>4. ASSUME NEW t \in Me, MramWrite(t)
      PROVE  ContentInv'
  <2>1. Advances(t)
    BY <1>4, CopyAdvances
  <2>2. PICK v \in Units : /\ tasklet[t].pos = v * Unit /\ v \in Nat
                           /\ \A u \in Units : Passed(u)' => Passed(u) \/ u = v
    BY <2>1, AdvancePassed
  <2>3. args.mram /\ args' = args /\ Unit = Block /\ tasklet[t].at = "write"
    BY <1>4 DEF MramWrite, TypeInv, Placed, Unit
  <2>4. Units' = Units /\ Begins' = Begins
    BY <2>3, Fixed
  <2>5. buffer_b' = [w \in Words |-> IF w - v * Block \in 0..(Xfer - 1)
                                     THEN wram_cache[w - v * Block] ELSE buffer_b[w]]
    BY <1>4, <2>2, <2>3 DEF MramWrite
  <2>6. PICK q \in Begins : /\ \A k \in 0..(Xfer - 1) : wram_cache[k] = q + k
                            /\ args.threads = 1 => q = tasklet[0].pos
    BY <2>3 DEF CacheInv
  <2>7. args.threads = 1 => q = v * Block
    BY <2>2, <2>3, <2>6 DEF Me
  <2>8. \A k \in 0..(Xfer - 1) : (v * Block + k) - v * Block = k
    <3>1. v * Block \in Nat
      BY <2>2, ConstantFacts
    <3>2. QED
      BY <3>1, ConstantFacts
  <2>9. \A k \in 0..(Xfer - 1) : buffer_b'[v * Block + k] = q + k
    <3> TAKE k \in 0..(Xfer - 1)
    <3>1. v * Block + k \in Words
      BY <1>1, <2>3, InBlock
    <3> DEFINE w == v * Block + k
    <3>2. w \in Words /\ w - v * Block = k
      BY <2>8, <3>1
    <3> HIDE DEF w
    <3>3. buffer_b'[w] = wram_cache[k]
      BY <2>5, <3>2
    <3>4. QED
      BY <2>6, <3>3 DEF w
  <2>10. ASSUME NEW u \in Units, Passed(u)'
         PROVE  Good(u)'
    <3>1. CASE u = v
      BY <2>3, <2>4, <2>7, <2>9, <3>1 DEF Good
    <3>2. CASE u # v
      <4>0. Good(u)
        BY <2>2, <2>10, <3>2 DEF ContentInv
      <4>1. PICK p \in Begins : /\ \A k \in 0..(Xfer - 1) : buffer_b[u * Block + k] = p + k
                                /\ args.threads = 1 => p = u * Block
        BY <2>3, <4>0 DEF Good
      <4>2. ASSUME NEW k \in 0..(Xfer - 1)
            PROVE  buffer_b'[u * Block + k] = p + k
        <5>1. u * Block + k \in Words
          BY <1>1, <2>3, InBlock
        <5>2. u * Block + k - v * Block \notin 0..(Xfer - 1)
          BY <2>2, <3>2, BlocksApart DEF Units
        <5>6. buffer_b[u * Block + k] = p + k
          BY <4>1
        <5> DEFINE w == u * Block + k
        <5> HIDE DEF w
        <5>3. w \in Words /\ w - v * Block \notin 0..(Xfer - 1) /\ buffer_b[w] = p + k
          <6>1. w \in Words
            BY <5>1 DEF w
          <6>2. w - v * Block \notin 0..(Xfer - 1)
            BY <2>2, <5>2, ConstantFacts DEF w, Units
          <6>3. buffer_b[w] = p + k
            BY <5>6 DEF w
          <6>4. QED
            BY <6>1, <6>2, <6>3
        <5>4. buffer_b'[w] = p + k
          BY <2>5, <5>3
        <5>5. QED
          BY <5>4 DEF w
      <4>3. QED
        BY <2>3, <2>4, <4>1, <4>2 DEF Good
    <3>3. QED
      BY <3>1, <3>2
  <2>11. ASSUME NEW w \in Words, w - (w % Block) \notin Begins \/ w % Block >= Xfer
         PROVE  buffer_b'[w] = Before
    <3>1. buffer_b[w] = Before
      BY <2>3, <2>11 DEF ContentInv
    <3>2. w - v * Block \notin 0..(Xfer - 1)
      <4> SUFFICES ASSUME w - v * Block \in 0..(Xfer - 1) PROVE FALSE
        OBVIOUS
      <4> DEFINE a == v * Block
                 k == w - a
      <4>0. a \in Nat /\ w \in Nat
        BY <2>2, ConstantFacts DEF Words
      <4>1. k \in 0..(Xfer - 1) /\ ~ (k >= Xfer)
        BY ConstantFacts
      <4> HIDE DEF a
      <4>2. w = a + k
        BY <4>0
      <4> USE DEF a
      <4> HIDE DEF k
      <4>3. /\ v * Block \in Begins /\ (v * Block + k) % Block = k
            /\ (v * Block + k) - ((v * Block + k) % Block) = v * Block
        BY <1>1, <2>3, <4>1, InBlock
      <4>4. w % Block = k /\ w - (w % Block) = v * Block
        BY <4>2, <4>3
      <4>5. QED
        BY <2>11, <4>1, <4>3, <4>4
    <3>3. QED
      BY <2>5, <3>1, <3>2
  <2>12. QED
    BY <2>3, <2>4, <2>10, <2>11 DEF ContentInv
<1>5. QED
  BY <1>2, <1>3, <1>4

\* Every step keeps what wram_cache holds between the two transfers of a block;
\* a read puts another transfer in its place, as a whole.
LEMMA NextCache == TypeInv /\ CacheInv /\ [Next]_vars => CacheInv'
<1> SUFFICES ASSUME TypeInv, CacheInv, [Next]_vars, (\E t \in Me : tasklet[t].at = "write")'
             PROVE  \E q \in Begins' : /\ \A k \in 0..(Xfer - 1) : wram_cache'[k] = q + k
                                       /\ args'.threads = 1 => q = tasklet'[0].pos
  BY DEF CacheInv
<1> DEFINE Held == \E q \in Begins' : /\ \A k \in 0..(Xfer - 1) : wram_cache'[k] = q + k
                                      /\ args'.threads = 1 => q = tasklet'[0].pos
<1>1. /\ args \in Args /\ tasklet \in [Me -> Tasklets] /\ args.threads \in Nat \ {0}
  BY ArgsFacts DEF TypeInv
<1>2. args' = args /\ Me' = Me /\ Begins' = Begins
  BY Fixed DEF Next, vars, Launch, WramCopy, MramRead, MramWrite, EndRepetition
<1>3. PICK i \in Me : tasklet'[i].at = "write"
  BY <1>2
\* A writer that was one before, and whose block is the only one in transfer.
<1>4. ASSUME wram_cache' = wram_cache, tasklet[i].at = "write",
             args.threads = 1 => tasklet'[0].pos = tasklet[0].pos
      PROVE  Held
  BY <1>2, <1>4 DEF CacheInv
<1>5. CASE UNCHANGED vars
  BY <1>3, <1>4, <1>5 DEF vars
<1>6. CASE Launch
  BY <1>3, <1>6 DEF Launch
<1>7. ASSUME NEW t \in Me, WramCopy(t) \/ MramWrite(t)
      PROVE  Held
  <2>1. Advances(t) /\ wram_cache' = wram_cache
    BY <1>7, CopyAdvances DEF WramCopy, MramWrite
  <2>2. i # t /\ tasklet'[i] = tasklet[i]
    BY <1>3, <2>1 DEF Advances
  <2>3. args.threads # 1
    BY <1>1, <2>2 DEF Me
  <2>4. QED
    BY <1>3, <1>4, <2>1, <2>2, <2>3
<1>8. ASSUME NEW t \in Me, MramRead(t)
      PROVE  Held
  <2>1. /\ args.mram /\ tasklet[t].pos < args.dwords /\ tasklet[t].at = "loop"
        /\ tasklet' = [tasklet EXCEPT ![t].at = "write"]
        /\ wram_cache' = [k \in 0..(Xfer - 1) |-> tasklet[t].pos + k]
    BY <1>8 DEF MramRead
  <2>2. PICK v \in Nat : v % args.threads = t /\ tasklet[t].pos = v * Unit
    BY <2>1 DEF TypeInv, Placed
  <2>3. tasklet[t].pos \in Begins
    BY <1>1, <2>1, <2>2, UnitFits
  <2>4. tasklet'[t].pos = tasklet[t].pos
    BY <1>1, <2>1 DEF Tasklets
  <2>5. args.threads = 1 => t = 0
    BY DEF Me
  <2>6. QED
    BY <1>2, <2>1, <2>3, <2>4, <2>5
<1>9. ASSUME NEW t \in Me, EndRepetition(t)
      PROVE  Held
  <2>1. i # t
    BY <1>1, <1>3, <1>9 DEF EndRepetition, Halted
  <2>2. tasklet'[i] = tasklet[i] /\ wram_cache' = wram_cache
    BY <1>1, <1>9, <2>1 DEF EndRepetition
  <2>3. args.threads # 1
    BY <1>1, <2>1 DEF Me
  <2>4. QED
    BY <1>3, <1>4, <2>2, <2>3
<1>10. QED
  BY <1>5, <1>6, <1>7, <1>8, <1>9 DEF Next

\* Steps that copy nothing leave what was copied, except that a launch begins anew.
LEMMA IdleCopied ==
  ASSUME TypeInv, NEW t \in Me, MramRead(t) \/ EndRepetition(t)
  PROVE  Copied' = Copied
<1>1. /\ args \in Args /\ tasklet \in [Me -> Tasklets] /\ Unit \in Nat \ {0}
      /\ args.dwords \in Nat /\ args.reps \in Nat \ {0}
  BY ArgsFacts DEF TypeInv
<1>2. args' = args /\ Unit' = Unit /\ Full' = Full
  BY Fixed DEF MramRead, EndRepetition
<1>3. ASSUME NEW x \in Full
      PROVE  x \in Copied' <=> x \in Copied
  <2>1. /\ x[1] \in Nat /\ x[1] < args.reps /\ x[2] \in Nat /\ x[2] * Unit < args.dwords
        /\ x[2] * Unit \in Nat
    BY <1>1 DEF Full, Units
  <2> DEFINE i == Of(x[2])
             p == tasklet[i]
             q == tasklet'[i]
             z == x[2] * Unit
             Was == p.at = "halted" \/ x[1] < p.rep \/ (x[1] = p.rep /\ z < p.pos)
             Is == q.at = "halted" \/ x[1] < q.rep \/ (x[1] = q.rep /\ z < q.pos)
  <2>2. i \in Me /\ Of(x[2])' = i /\ p \in Tasklets
    BY <1>1, <1>2, <2>1, ArgsFacts DEF Of
  <2>3. x \in Copied <=> Was
    BY DEF Copied
  <2>4. x \in Copied' <=> Is
    BY <1>2, <2>2 DEF Copied
  <2>5. CASE MramRead(t)
    <3>1. tasklet[t].at = "loop" /\ tasklet' = [tasklet EXCEPT ![t].at = "write"]
      BY <2>5 DEF MramRead
    <3>2. q.rep = p.rep /\ q.pos = p.pos /\ (q.at = "halted" <=> p.at = "halted")
      BY <1>1, <2>2, <3>1 DEF Tasklets
    <3>3. QED
      BY <2>3, <2>4, <3>2
  <2>6. CASE EndRepetition(t) /\ i # t
    <3>1. q = p
      BY <1>1, <2>2, <2>6 DEF EndRepetition
    <3>2. QED
      BY <2>3, <2>4, <3>1
  <2>7. CASE EndRepetition(t) /\ i = t
    <3>1. /\ p.at = "loop" /\ p.pos >= args.dwords
          /\ q = IF p.rep + 1 = args.reps THEN Halted
                 ELSE [at |-> "loop", rep |-> p.rep + 1, pos |-> First(t)]
      BY <1>1, <2>7 DEF EndRepetition
    <3>2. p.rep \in Nat /\ p.pos \in Nat /\ p.rep < args.reps
      BY <2>2, <2>7, <3>1 DEF Tasklets, TypeInv, Placed
    <3>3. ~ (z < First(t)) /\ First(t) \in Nat
      BY <1>1, <2>1, <2>7, FirstUnit
    <3>4. z < args.dwords /\ z \in Nat /\ x[1] \in Nat
      BY <2>1
    <3> HIDE DEF z, p, q, i
    <3>5. Was <=> x[1] <= p.rep
      <4>1. z < p.pos /\ p.at # "halted"
        BY <1>1, <3>1, <3>2, <3>4
      <4>2. QED
        BY <3>2, <3>4, <4>1
    <3>6. CASE p.rep + 1 = args.reps
      <4>1. q.at = "halted"
        BY <3>1, <3>6 DEF Halted
      <4>2. x[1] <= p.rep
        BY <1>1, <2>1, <3>2, <3>6
      <4>3. QED
        BY <2>3, <2>4, <3>5, <4>1, <4>2
    <3>7. CASE p.rep + 1 # args.reps
      <4>1. q.at = "loop" /\ q.rep = p.rep + 1 /\ q.pos = First(t)
        BY <3>1, <3>7
      <4>2. Is <=> x[1] <= p.rep
        BY <2>1, <3>2, <3>3, <4>1
      <4>3. QED
        BY <2>3, <2>4, <3>5, <4>2
    <3>8. QED
      BY <3>6, <3>7
  <2>8. QED
    BY <2>5, <2>6, <2>7
<1>4. QED
  BY <1>2, <1>3 DEF Copied

\* Every step keeps the count of the words moved.
LEMMA NextCount == TypeInv /\ CountInv /\ [Next]_vars => CountInv'
<1> SUFFICES ASSUME TypeInv, CountInv, [Next]_vars PROVE CountInv'
  OBVIOUS
<1>1. /\ args \in Args /\ launches \in Int /\ moved \in Int /\ Width \in Nat
      /\ Cardinality(Full) \in Nat
  BY ArgsFacts, UnitsFacts, ConstantFacts DEF TypeInv
<1>2. args' = args /\ Width' = Width /\ Full' = Full /\ Unit' = Unit
  BY Fixed DEF Next, vars, Launch, WramCopy, MramRead, MramWrite, EndRepetition
<1> DEFINE F == Cardinality(Full)
           C == Cardinality(Copied)
           D == Cardinality(Copied')
<1>3. moved = Width * (F * (launches - 1) + C)
  BY DEF CountInv
<1>4. CountInv' <=> moved' = Width * (F * (launches' - 1) + D)
  BY <1>2 DEF CountInv
<1> HIDE DEF F, C, D
<1>5. CASE UNCHANGED vars
  <2>1. Copied' = Copied
    BY <1>2, <1>5 DEF Copied, vars, Of
  <2>2. QED
    BY <1>3, <1>4, <1>5, <2>1 DEF vars, C, D
<1>6. CASE Launch
  <2>1. C = F
    BY <1>1, <1>6, HaltedCopied DEF Launch, C, F
  <2>2. ASSUME NEW x \in Full PROVE x \notin Copied'
    <3>1. x[1] \in Nat /\ x[2] \in Nat
      <4>1. args.reps \in Nat
        BY <1>1, ArgsFacts
      <4>2. QED
        BY <4>1 DEF Full, Units
    <3>2. Of(x[2])' = Of(x[2]) /\ Of(x[2]) \in Me
      BY <1>1, <1>2, <3>1, ArgsFacts DEF Of
    <3>3. tasklet'[Of(x[2])] = [at |-> "loop", rep |-> 0, pos |-> First(Of(x[2]))]
      BY <1>6, <3>2 DEF Launch
    <3>4. ~ (x[2] * Unit < First(Of(x[2])))
      BY <1>1, <3>1, <3>2, FirstUnit
    <3> DEFINE z == x[2] * Unit
               q == tasklet'[Of(x[2])]
    <3>5. x \in Copied' => q.at = "halted" \/ x[1] < q.rep \/ z < q.pos
      BY <1>2, <3>2 DEF Copied
    <3>6. q.at = "loop" /\ q.rep = 0 /\ ~ (z < q.pos)
      BY <3>3, <3>4
    <3> HIDE DEF z, q
    <3>7. QED
      BY <3>1, <3>5, <3>6
  <2>3. Copied' = {}
    BY <1>2, <2>2 DEF Copied
  <2>4. D = 0
    BY <2>3, FS_EmptySet DEF D
  <2>5. moved' = moved /\ launches' = launches + 1 /\ F \in Nat
    BY <1>1, <1>6 DEF Launch, F
  <2>6. F * (launches - 1) + F = F * (launches' - 1) + 0
    BY <1>1, <2>5
  <2>7. QED
    BY <1>3, <1>4, <2>1, <2>4, <2>5, <2>6
<1>7. ASSUME NEW t \in Me, WramCopy(t) \/ MramWrite(t)
      PROVE  CountInv'
  <2>1. D = C + 1 /\ C \in Nat
    BY <1>7, CopyAdvances, AdvanceCopied DEF C, D
  <2>2. launches' = launches /\ moved' = moved + Width
    BY <1>7 DEF WramCopy, MramWrite, Width, TypeInv, Placed
  <2> DEFINE a == F * (launches - 1)
  <2>3. a \in Int
    BY <1>1 DEF F
  <2> HIDE DEF a
  <2>4. Width * (a + C) + Width = Width * (a + D)
    BY <1>1, <2>1, <2>3
  <2>5. QED
    BY <1>3, <1>4, <2>2, <2>4 DEF a
<1>8. ASSUME NEW t \in Me, MramRead(t) \/ EndRepetition(t)
      PROVE  CountInv'
  <2>1. D = C
    BY <1>8, IdleCopied DEF C, D
  <2>2. launches' = launches /\ moved' = moved
    BY <1>8 DEF MramRead, EndRepetition
  <2>3. QED
    BY <1>3, <1>4, <2>1, <2>2
<1>9. QED
  BY <1>5, <1>6, <1>7, <1>8 DEF Next

\* The invariant holds in every reachable state.
THEOREM Invariance == Spec => []IInv
<1>1. IInv /\ [Next]_vars => IInv'
  BY NextType, NextContent, NextCache, NextCount DEF IInv
<1>2. QED
  BY InitIInv, <1>1, PTL DEF Spec

------------------------------------------------------------------------------
(* What follows *)

\* No transfer of mramcopy leaves the buffers, and no tasklet runs a repetition
\* too many (TypeOK), whatever the sizes and the number of tasklets.
THEOREM TypeCorrect == Spec => []TypeOK
<1>1. IInv => TypeOK
  <2> SUFFICES ASSUME TypeInv PROVE TypeOK
    BY DEF IInv
  <2>1. args \in Args /\ args.reps \in Nat \ {0} /\ tasklet \in [Me -> Tasklets]
    BY ArgsFacts DEF TypeInv
  <2>2. ASSUME NEW t \in Me
        PROVE  /\ tasklet[t].at \in {"halted", "loop", "write"}
               /\ tasklet[t].rep \in 0..args.reps
               /\ tasklet[t].at = "write" => tasklet[t].pos + Xfer <= Mram
    <3>1. tasklet[t].at \in {"halted", "loop", "write"} /\ tasklet[t].rep \in Nat
      BY <2>1 DEF Tasklets
    <3>2. tasklet[t].rep \in 0..args.reps
      BY <2>1, <3>1 DEF TypeInv, Placed
    <3>3. ASSUME tasklet[t].at = "write" PROVE tasklet[t].pos + Xfer <= Mram
      <4>1. args.mram /\ tasklet[t].pos < args.dwords
        BY <3>3 DEF TypeInv, Placed
      <4>2. PICK v \in Nat : tasklet[t].pos = v * Unit
        BY <3>3 DEF TypeInv, Placed
      <4>3. QED
        BY <2>1, <4>1, <4>2, UnitFits DEF Width
    <3>4. QED
      BY <3>1, <3>2, <3>3
  <2>3. QED
    BY <2>2 DEF TypeInv, TypeOK
<1>2. QED
  BY <1>1, Invariance, PTL

\* Every unit was passed once a launch is over.
LEMMA RanPassed ==
  ASSUME TypeInv, ContentInv, Ran
  PROVE  \A u \in Units : Good(u)
<1>1. ASSUME NEW u \in Units PROVE Passed(u)
  <2>1. Of(u) \in Me
    BY ArgsFacts DEF Units, TypeInv
  <2>2. QED
    BY <2>1 DEF Passed, Ran, AllHalted
<1>2. QED
  BY <1>1 DEF ContentInv

\* wramcopy copies exactly the requested words, for any number of tasklets,
\* repetitions and launches, in any interleaving (WramExact).
THEOREM WramCopied == Spec => []WramExact
<1>1. IInv => WramExact
  <2> SUFFICES ASSUME TypeInv, ContentInv, Ran, ~args.mram, NEW w \in Words
               PROVE  buffer_b[w] = IF w < args.dwords THEN w ELSE Before
    BY DEF IInv, WramExact
  <2>1. w \in Nat /\ args.dwords \in Nat
    BY ArgsFacts, ConstantFacts DEF TypeInv, Words
  <2>2. CASE w < args.dwords
    <3>1. w \in Units
      BY <2>1, <2>2 DEF Units, Unit
    <3>2. QED
      BY <2>2, <3>1, RanPassed DEF Good
  <2>3. CASE ~ (w < args.dwords)
    BY <2>1, <2>3 DEF ContentInv
  <2>4. QED
    BY <2>2, <2>3
<1>2. QED
  BY <1>1, Invariance, PTL

\* Once mramcopy has run, every block that begins within the length holds one
\* transfer of buffer_a, a single tasklet's its own.
LEMMA MramRan ==
  ASSUME TypeInv, ContentInv, Ran, args.mram, NEW p \in Begins
  PROVE  \E q \in Begins : /\ \A k \in 0..(Xfer - 1) : buffer_b[p + k] = q + k
                           /\ args.threads = 1 => q = p
<1>1. p \in Nat /\ p % Block = 0 /\ p < args.dwords /\ Block \in Nat \ {0}
  BY ConstantFacts DEF Begins, Words
<1>2. PICK u \in Nat : p = u * Block + (p % Block)
  BY <1>1, ModSplit
<1>3. p = u * Block
  BY <1>1, <1>2
<1>4. u \in Units
  BY <1>1, <1>3 DEF Units, Unit
<1>5. Good(u)
  BY <1>4, RanPassed
<1>6. QED
  BY <1>3, <1>5 DEF Good

\* mramcopy stays within the blocks of the requested length, for any number of
\* tasklets, repetitions and launches, in any interleaving; a single tasklet copies
\* to the same place (MramConfined).
THEOREM MramStaysConfined == Spec => []MramConfined
<1>1. IInv => MramConfined
  <2> SUFFICES ASSUME TypeInv, ContentInv, Ran, args.mram
               PROVE  /\ \A w \in Words : w - (w % Block) >= args.dwords => buffer_b[w] = Before
                      /\ args.threads = 1 => /\ \A w \in Words : buffer_b[w] \in {w, Before}
                                             /\ \A p \in Begins : buffer_b[p] = p
    BY DEF IInv, MramConfined
  <2>0. /\ Block \in Nat \ {0} /\ Xfer \in Nat \ {0} /\ args.dwords \in Nat
        /\ \A w \in Words : w \in Nat
    BY ArgsFacts, ConstantFacts DEF TypeInv, Words
  <2>1. \A w \in Words : (w - (w % Block) \notin Begins \/ w % Block >= Xfer)
                            => buffer_b[w] = Before
    BY DEF ContentInv
  <2>2. ASSUME NEW w \in Words, w - (w % Block) >= args.dwords
        PROVE  buffer_b[w] = Before
    <3>1. w - (w % Block) \notin Begins
      <4>1. w % Block \in 0..(Block - 1)
        BY <2>0, ModSplit
      <4>2. w - (w % Block) \in Int
        BY <2>0, <4>1
      <4>3. QED
        BY <2>0, <2>2, <4>2 DEF Begins
    <3>2. QED
      BY <2>1, <3>1
  <2>3. ASSUME args.threads = 1, NEW p \in Begins
        PROVE  \A k \in 0..(Xfer - 1) : buffer_b[p + k] = p + k
    BY <2>3, MramRan
  <2>4. ASSUME args.threads = 1, NEW p \in Begins
        PROVE  buffer_b[p] = p
    <3>1. 0 \in 0..(Xfer - 1) /\ p + 0 = p
      BY <2>0 DEF Begins
    <3>2. QED
      BY <2>3, <2>4, <3>1
  <2>5. ASSUME args.threads = 1, NEW w \in Words
        PROVE  buffer_b[w] \in {w, Before}
    <3> DEFINE r == w % Block
               p == w - r
    <3>1. r \in 0..(Block - 1) /\ w \in Nat
      BY <2>0, ModSplit
    <3>2. CASE p \notin Begins \/ r >= Xfer
      BY <2>1, <3>2
    <3>3. CASE p \in Begins /\ ~(r >= Xfer)
      <4> HIDE DEF r
      <4>1. r \in 0..(Xfer - 1) /\ p + r = w
        BY <2>0, <3>1, <3>3
      <4> HIDE DEF p
      <4>2. buffer_b[p + r] = p + r
        BY <2>3, <2>5, <3>3, <4>1
      <4>3. QED
        BY <4>1, <4>2
    <3>4. QED
      BY <3>2, <3>3
  <2>6. QED
    BY <2>2, <2>4, <2>5
<1>2. QED
  BY <1>1, Invariance, PTL

\* The units of n * Unit words are n.
LEMMA UnitsCounted ==
  ASSUME args \in Args, NEW n \in Nat, args.dwords = n * Unit
  PROVE  Cardinality(Units) = n
<1>1. Unit \in Nat \ {0} /\ args.dwords \in Nat /\ 1 <= args.dwords
  BY ArgsFacts
<1>2. n # 0
  BY <1>1
<1>3. Units = 0..(n - 1)
  <2>1. ASSUME NEW u \in Nat PROVE u * Unit < n * Unit <=> u \in 0..(n - 1)
    <3>1. u * Unit < n * Unit <=> u < n
      BY <1>1, MulOrder
    <3>2. QED
      BY <3>1
  <2>2. QED
    BY <2>1 DEF Units
<1>4. 0 \in Int /\ n - 1 \in Int /\ ~ (0 > n - 1) /\ n - 1 - 0 + 1 = n
  BY <1>2
<1>5. Cardinality(0..(n - 1)) = n
  BY <1>4, FS_Interval
<1>6. QED
  BY <1>3, <1>5

\* The host reports what wramcopy copied, for any sizes, tasklets, repetitions and
\* launches (BytesReported).
THEOREM BytesCounted == Spec => []BytesReported
<1>1. IInv => BytesReported
  <2> SUFFICES ASSUME TypeInv, CountInv, AllHalted, ~args.mram
               PROVE  Processed = moved
    BY DEF IInv, BytesReported
  <2>1. /\ args \in Args /\ args.dwords \in Nat /\ args.reps \in Nat /\ launches \in Nat
        /\ Width \in Nat /\ Cardinality(Units) \in Nat
        /\ Cardinality(Full) = args.reps * Cardinality(Units)
    <3>1. args \in Args
      BY DEF TypeInv
    <3>2. args.dwords \in Nat /\ args.reps \in Nat /\ Width \in Nat
      BY <3>1, ArgsFacts
    <3>3. Cardinality(Units) \in Nat /\ Cardinality(Full) = args.reps * Cardinality(Units)
      BY <3>1, UnitsFacts
    <3>4. launches \in Nat
      BY ConstantFacts DEF TypeInv
    <3>5. QED
      BY <3>1, <3>2, <3>3, <3>4
  <2> DEFINE F == Cardinality(Full)
             U == Cardinality(Units)
             r == args.reps
             d == args.dwords
  <2>2. moved = Width * (F * (launches - 1) + F)
    BY <2>1, HaltedCopied DEF CountInv
  <2>3. F = r * U /\ U \in Nat /\ r \in Nat /\ d \in Nat
    BY <2>1
  <2>4. Processed = launches * d * r
    BY DEF Processed
  <2> HIDE DEF F, U, r, d
  <2>5. F \in Nat
    BY <2>3
  <2>6. F * (launches - 1) + F = F * launches
    BY <2>1, <2>5
  <2>7. moved = Width * (r * U * launches)
    BY <2>2, <2>3, <2>6
  <2>8. Unit = 1 /\ Width = 1
    BY DEF Unit, Width
  <2>9. d = d * Unit
    BY <2>3, <2>8
  <2>10. U = d
    BY <2>1, <2>3, <2>9, UnitsCounted DEF U, d
  <2>11. 1 * (r * d * launches) = launches * d * r
    BY <2>1, <2>3
  <2>12. QED
    BY <2>4, <2>7, <2>8, <2>10, <2>11
<1>2. QED
  BY <1>1, Invariance, PTL
==============================================================================
