------------------------------- MODULE DpuCopy -------------------------------
(***************************************************************************)
(* memspeed's BM_dpu_copy_within: the host loads wramcopy or mramcopy into *)
(* a DPU, fills its buffers, launches it again and again and reports how   *)
(* many bytes were copied.  The tasklets of the DPU copy buffer_a to       *)
(* buffer_b, interleaved in any way; a DMA transfer between MRAM and WRAM  *)
(* is one step (the DMA engine serves one tasklet at a time).              *)
(* mramcopy steps from block to block in words, but the size it passes to  *)
(* the DMA is taken for bytes, and its transfers all go through the same   *)
(* place, wram_cache.  To fill buffer_b the host reads beyond its array    *)
(* (upmemdpu.cpp:373-376 adds a number of bytes to a pointer to words):    *)
(* what it finds there does not matter, and that it may crash is left out. *)
(***************************************************************************)
EXTENDS Integers, FiniteSets

CONSTANTS
    Block,       \* MAX_BLOCKSIZE, in words
    Xfer,        \* the words a transfer of MAX_BLOCKSIZE bytes moves
    Mram, Wram,  \* MRAM_BUFFER_DWORDS, WRAM_BUFFER_DWORDS
    Lengths,     \* the benchmark's "dwords"
    Threads,     \* its "dpu_threads"
    Reps,        \* its "dpu_reps"
    MaxLaunches  \* bound: iterations of the benchmark

ASSUME DpuAssumption ==
    /\ {Block, Xfer, Mram, Wram} \subseteq Nat \ {0}
    /\ Block = 4 * Xfer
    /\ Mram % Block = 0 /\ Wram <= Mram
    /\ Lengths \subseteq 1..Mram
    /\ Threads \subseteq Nat \ {0} /\ Reps \subseteq Nat \ {0}
    /\ MaxLaunches \in Nat

VARIABLES
    args,        \* the benchmark's arguments
    buffer_b,    \* [word -> the word of buffer_a it holds, or Before]
    wram_cache,  \* the part of it that is used
    tasklet,     \* [tasklet -> its control state, its repetition and read_begin]
    launches,    \* iterations begun
    moved        \* history: words copied so far

vars == <<args, buffer_b, wram_cache, tasklet, launches, moved>>

Before == -1   \* what buffer_b held before: the host's choice does not matter
Words == 0..(Mram - 1)
Me == 0..(args.threads - 1)

\* DpuCopyDpuArgs
Args == {x \in [dwords : Lengths, reps : Reps, threads : Threads, mram : BOOLEAN] :
            x.threads <= x.dwords /\ (x.mram \/ x.dwords <= Wram)}

Halted == [at |-> "halted", rep |-> 0, pos |-> 0]

Init ==
    /\ args \in Args
    /\ buffer_b = [w \in Words |-> Before]
    /\ wram_cache = [k \in 0..(Xfer - 1) |-> Before]
    /\ tasklet = [t \in Me |-> Halted]
    /\ launches = 0
    /\ moved = 0

\* No transfer leaves the buffers, although a block that begins inside the
\* requested length is moved as a whole (mramcopy.c:25-27).
TypeOK ==
    /\ args \in Args
    /\ buffer_b \in [Words -> Words \cup {Before}]
    /\ wram_cache \in [0..(Xfer - 1) -> Words \cup {Before}]
    /\ \A t \in Me : /\ tasklet[t].at \in {"halted", "loop", "write"}
                     /\ tasklet[t].rep \in 0..args.reps
                     /\ tasklet[t].at = "write" => tasklet[t].pos + Xfer <= Mram
    /\ launches \in 0..MaxLaunches

------------------------------------------------------------------------------

First(t) == IF args.mram THEN t * Block ELSE t

\* Mutant: the stride does not depend on the number of tasklets.
Stride_Fixed == IF args.mram THEN 2 * Block ELSE 2

Stride == args.threads * (IF args.mram THEN Block ELSE 1)

AllHalted == \A t \in Me : tasklet[t].at = "halted"

\* dpu_launch, synchronous: every tasklet begins main; the memory is kept.
Launch ==
    /\ AllHalted
    /\ launches < MaxLaunches
    /\ launches' = launches + 1
    /\ tasklet' = [t \in Me |-> [at |-> "loop", rep |-> 0, pos |-> First(t)]]
    /\ UNCHANGED <<args, buffer_b, wram_cache, moved>>

\* *write_begin = *read_begin
WramCopy(t) ==
    /\ ~args.mram
    /\ tasklet[t].at = "loop" /\ tasklet[t].pos < args.dwords
    /\ buffer_b' = [buffer_b EXCEPT ![tasklet[t].pos] = tasklet[t].pos]
    /\ tasklet' = [tasklet EXCEPT ![t].pos = @ + Stride]
    /\ moved' = moved + 1
    /\ UNCHANGED <<args, wram_cache, launches>>

\* Mutant: a block that begins at the very end is transferred, too.
MramRead_OneMore(t) ==
    /\ args.mram
    /\ tasklet[t].at = "loop" /\ tasklet[t].pos <= args.dwords
    /\ wram_cache' = [k \in 0..(Xfer - 1) |-> tasklet[t].pos + k]
    /\ tasklet' = [tasklet EXCEPT ![t].at = "write"]
    /\ UNCHANGED <<args, buffer_b, launches, moved>>

\* mram_read into the shared wram_cache
MramRead(t) ==
    /\ args.mram
    /\ tasklet[t].at = "loop" /\ tasklet[t].pos < args.dwords
    /\ wram_cache' = [k \in 0..(Xfer - 1) |-> tasklet[t].pos + k]
    /\ tasklet' = [tasklet EXCEPT ![t].at = "write"]
    /\ UNCHANGED <<args, buffer_b, launches, moved>>

\* Mutant: write_begin is a word behind read_begin.
MramWrite_Shifted(t) ==
    /\ tasklet[t].at = "write"
    /\ buffer_b' = [w \in Words |-> IF w - tasklet[t].pos \in 1..(Xfer - 1)
                                    THEN wram_cache[w - tasklet[t].pos - 1] ELSE buffer_b[w]]
    /\ tasklet' = [tasklet EXCEPT ![t].at = "loop", ![t].pos = @ + Stride]
    /\ moved' = moved + Xfer
    /\ UNCHANGED <<args, wram_cache, launches>>

\* mram_write out of wram_cache: what was read last, whoever read it
MramWrite(t) ==
    /\ tasklet[t].at = "write"
    /\ buffer_b' = [w \in Words |-> IF w - tasklet[t].pos \in 0..(Xfer - 1)
                                    THEN wram_cache[w - tasklet[t].pos] ELSE buffer_b[w]]
    /\ tasklet' = [tasklet EXCEPT ![t].at = "loop", ![t].pos = @ + Stride]
    /\ moved' = moved + Xfer
    /\ UNCHANGED <<args, wram_cache, launches>>

\* Mutant: the last repetition is left out.
EndRepetition_OneLess(t) ==
    /\ tasklet[t].at = "loop" /\ tasklet[t].pos >= args.dwords
    /\ tasklet' = [tasklet EXCEPT ![t] =
          IF @.rep + 2 >= args.reps THEN Halted
          ELSE [at |-> "loop", rep |-> @.rep + 1, pos |-> First(t)]]
    /\ UNCHANGED <<args, buffer_b, wram_cache, launches, moved>>

\* The end of a repetition, and after the last one of main.
EndRepetition(t) ==
    /\ tasklet[t].at = "loop" /\ tasklet[t].pos >= args.dwords
    /\ tasklet' = [tasklet EXCEPT ![t] =
          IF @.rep + 1 = args.reps THEN Halted
          ELSE [at |-> "loop", rep |-> @.rep + 1, pos |-> First(t)]]
    /\ UNCHANGED <<args, buffer_b, wram_cache, launches, moved>>

\* Words the host passes to SetBytesProcessed (in words, not bytes).
Processed == launches * args.dwords * args.reps

Next ==
    \/ Launch
    \/ \E t \in Me : WramCopy(t) \/ MramRead(t) \/ MramWrite(t) \/ EndRepetition(t)

Spec == Init /\ [][Next]_vars

------------------------------------------------------------------------------
(* Properties *)

Ran == AllHalted /\ launches > 0
Begins == {w \in Words : w % Block = 0 /\ w < args.dwords}   \* blocks within the length

\* After a launch of wramcopy buffer_b is a copy of the requested length of
\* buffer_a, and the rest of it is untouched, for any number of tasklets in any
\* interleaving (wramcopy.c:18-27).
WramExact ==
    (Ran /\ ~args.mram) =>
       \A w \in Words : buffer_b[w] = IF w < args.dwords THEN w ELSE Before

\* mramcopy writes no block that begins beyond the requested length, for any
\* number of tasklets; and a single tasklet puts the beginning of every block, and
\* whatever else it copies, into its own place (mramcopy.c:22-28).
MramConfined ==
    (Ran /\ args.mram) =>
       /\ \A w \in Words : w - (w % Block) >= args.dwords => buffer_b[w] = Before
       /\ args.threads = 1 => /\ \A w \in Words : buffer_b[w] \in {w, Before}
                              /\ \A p \in Begins : buffer_b[p] = p

\* The bytes the host reports for wramcopy are the bytes that were copied, for any
\* number of launches, repetitions and tasklets (upmemdpu.cpp:389-391).
BytesReported == (AllHalted /\ ~args.mram) => Processed = moved

------------------------------------------------------------------------------
(* What mramcopy is meant to do, and does not *)

\* What the host reports as processed has been copied: of the requested length
\* (copy_words_amount, mramcopy.c:10) every word is in its place after a launch,
\* so each repetition of a launch stands for as many words (upmemdpu.cpp:389-391).
\* It takes a transfer that is as long as the step from block to block, and a
\* cache for every tasklet of its own (my_cache, mramcopy.c:22).
CopiedAsReported ==
    Ran => LET copied == {w \in Words : w < args.dwords /\ buffer_b[w] = w}
           IN  Processed = launches * args.reps * Cardinality(copied)
==============================================================================
