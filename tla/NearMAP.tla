------------------------------ MODULE NearMAP ------------------------------
(***************************************************************************)
(* pin-NearMAP: the Pin tool that traces which pages a program reads and   *)
(* writes in each of its phases (NearMAP.cpp), and the program that reads  *)
(* the tool's log and prints one CSV row per phase (analyse-results).      *)
(*                                                                         *)
(* The tool keeps no set of pages per phase.  It stamps every access with  *)
(* a logical clock, keeps for each page only the last read and the last    *)
(* write, and at a phase change takes the pages whose stamps fall between  *)
(* the clock values at the two ends of the phase.  The properties say that *)
(* this, and the parsing of the log after it, recover what the program     *)
(* did: truth records, as a history variable, the bytes each phase read    *)
(* and wrote, the instructions it executed and its I/O bytes.              *)
(*                                                                         *)
(* The traced program runs one thread: the tool takes no lock.             *)
(***************************************************************************)
EXTENDS Naturals, FiniteSets, Sequences, SequencesExt

CONSTANTS KnobPageSize,   \* -p, the page size asked for
          Operands,       \* memory operands <<addr, accessSz>> of the program
          PhaseNames,     \* names given to pinnearmap_phase
          BlockSizes,     \* numbers of instructions of its basic blocks
          IoSizes,        \* numbers given to pinnearmap_io_bytes
          MaxTime,        \* bound on the clock
          MaxCount        \* bound on the instructions and on the I/O of a phase

ASSUME NearMAPAssumption ==
    /\ {KnobPageSize, MaxTime, MaxCount} \subseteq Nat
    /\ Operands \subseteq Nat \X (Nat \ {0})
    /\ BlockSizes \subseteq Nat /\ IoSizes \subseteq Nat

VARIABLES accessState,         \* struct AccessState
          InstructionCounter,
          log,                 \* lines of the output file
          running,             \* the program has not exited
          truth                \* history: what each phase so far did

vars == <<accessState, InstructionCounter, log, running, truth>>

----------------------------------------------------------------------------
(* Page arithmetic: the size asked for is rounded down to a power of two.  *)

Log2[n \in Nat] == IF n > 1 THEN 1 + Log2[n \div 2] ELSE 0

ShiftLeft1[n \in Nat] == IF n = 0 THEN 1 ELSE 2 * ShiftLeft1[n - 1]   \* 1 << n

TracePageSizeLog2 == Log2[KnobPageSize]
PageSize == ShiftLeft1[TracePageSizeLog2]

PageRange(addr, accessSz) ==
    (addr \div PageSize) .. ((addr + accessSz - 1) \div PageSize)

----------------------------------------------------------------------------
(* Analysis routines: each is given the struct and returns it updated.     *)

Times(st, page) ==
    IF page \in DOMAIN st.pageLastAccesses THEN st.pageLastAccesses[page]
    ELSE [lastRead |-> 0, lastWrite |-> 0]

Stamped(st, pages, Stamp(_)) ==
    [st EXCEPT
       !.currTime = @ + 1,
       !.pageLastAccesses =
           [p \in DOMAIN @ \cup pages |->
               IF p \in pages THEN Stamp(Times(st, p)) ELSE @[p]]]

OnRead_NoTick(st, op) ==
    [Stamped(st, PageRange(op[1], op[2]),
             LAMBDA t : [t EXCEPT !.lastRead = st.currTime])
       EXCEPT !.currTime = st.currTime]

OnRead(st, op) ==
    Stamped(st, PageRange(op[1], op[2]),
            LAMBDA t : [t EXCEPT !.lastRead = st.currTime])

OnWrite(st, op) ==
    Stamped(st, PageRange(op[1], op[2]),
            LAMBDA t : [t EXCEPT !.lastWrite = st.currTime])

Within_Strict(time, startTime, endTime) == time > startTime /\ time < endTime
Within(time, startTime, endTime) == time >= startTime /\ time < endTime

(* The lines summarizeLastAccesses writes: one per page with a stamp in    *)
(* the phase, in the order of the hash table, which nothing may depend on. *)
summarizeLastAccesses(st, startTime, endTime) ==
    LET read == {p \in DOMAIN st.pageLastAccesses :
                   Within(st.pageLastAccesses[p].lastRead, startTime, endTime)}
        written == {p \in DOMAIN st.pageLastAccesses :
                   Within(st.pageLastAccesses[p].lastWrite, startTime, endTime)}
        line(p) == [kind |-> "trace", page |-> p,
                    read |-> p \in read, write |-> p \in written]
        order == SetToSeq(read \cup written)
    IN  [i \in DOMAIN order |-> line(order[i])]

----------------------------------------------------------------------------
(* What a phase did, as the program sees it.                               *)

NewPhase(name) ==
    [name |-> name, reads |-> {}, writes |-> {}, insns |-> 0, io |-> 0]

Bytes(op) == op[1] .. (op[1] + op[2] - 1)

Observed(field, added) ==
    truth' = [truth EXCEPT ![Len(truth)][field] = @ \cup added]

Counted(field, n) ==
    truth' = [truth EXCEPT ![Len(truth)][field] = @ + n]

----------------------------------------------------------------------------
(* main: the first phase starts at time 0.                                 *)
Init ==
    /\ accessState = [currTime |-> 0, ioBytes |-> 0, pageLastAccesses |-> <<>>,
                      phaseTimes |-> <<0>>]
    /\ InstructionCounter = 0
    /\ log = <<>>
    /\ running = TRUE
    /\ truth = <<NewPhase("pre-main")>>

Ticks(n) == running /\ accessState.currTime + n =< MaxTime

(* The calls Instruction inserts: OnRead, then OnWrite when the same       *)
(* instruction also writes.  An instruction has at most one read operand   *)
(* here: of a second one Instruction inserts no call (NearMAP.cpp:155-158).*)
ReadInstruction(op) ==
    /\ Ticks(1)
    /\ accessState' = OnRead(accessState, op)
    /\ Observed("reads", Bytes(op))
    /\ UNCHANGED <<InstructionCounter, log, running>>

WriteInstruction(op) ==
    /\ Ticks(1)
    /\ accessState' = OnWrite(accessState, op)
    /\ Observed("writes", Bytes(op))
    /\ UNCHANGED <<InstructionCounter, log, running>>

ReadWriteInstruction(rd, wr) ==
    /\ Ticks(2)
    /\ accessState' = OnWrite(OnRead(accessState, rd), wr)
    /\ truth' = [truth EXCEPT ![Len(truth)].reads = @ \cup Bytes(rd),
                              ![Len(truth)].writes = @ \cup Bytes(wr)]
    /\ UNCHANGED <<InstructionCounter, log, running>>

(* The call Trace inserts before every basic block.                        *)
CountBbl(numInstInBbl) ==
    /\ running
    /\ InstructionCounter + numInstInBbl =< MaxCount
    /\ InstructionCounter' = InstructionCounter + numInstInBbl
    /\ Counted("insns", numInstInBbl)
    /\ UNCHANGED <<accessState, log, running>>

IoStubReplacement(ioBytes) ==
    /\ Ticks(1)
    /\ accessState.ioBytes + ioBytes =< MaxCount
    /\ accessState' = [accessState EXCEPT !.currTime = @ + 1,
                                          !.ioBytes = @ + ioBytes]
    /\ Counted("io", ioBytes)
    /\ UNCHANGED <<InstructionCounter, log, running>>

(* The body shared by a phase change and by the exit: the phase line       *)
(* carries the name of the phase that begins and the numbers of the one    *)
(* that ends.                                                              *)
EndPhase(name) ==
    LET currTime == accessState.currTime + 1
        prevTime == Last(accessState.phaseTimes)
    IN  /\ log' = Append(log, [kind |-> "phase", page_size |-> PageSize,
                               start |-> prevTime, name |-> name,
                               insns |-> InstructionCounter,
                               io |-> accessState.ioBytes])
                  \o summarizeLastAccesses(accessState, prevTime, currTime)
        /\ accessState' = [accessState EXCEPT
                             !.currTime = currTime, !.ioBytes = 0,
                             !.phaseTimes = Append(@, currTime)]
        /\ InstructionCounter' = 0

PhaseStubReplacement(name) ==
    /\ Ticks(1)
    /\ EndPhase(name)
    /\ truth' = Append(truth, NewPhase(name))
    /\ UNCHANGED running

(* The program exits; the bound on the clock does not delay it.            *)
Fini ==
    /\ running
    /\ EndPhase("program-finish")
    /\ truth' = Append(truth, NewPhase("program-finish"))
    /\ running' = FALSE

Next ==
    \/ \E op \in Operands : ReadInstruction(op) \/ WriteInstruction(op)
    \/ \E rd, wr \in Operands : ReadWriteInstruction(rd, wr)
    \/ \E n \in BlockSizes : CountBbl(n)
    \/ \E n \in IoSizes : IoStubReplacement(n)
    \/ \E name \in PhaseNames : PhaseStubReplacement(name)
    \/ Fini

Spec == Init /\ [][Next]_vars

----------------------------------------------------------------------------
(* analyse_file, part one: the phases parsed from the lines of a log.  The *)
(* name on a phase line belongs to the row after it.                       *)

TracePhase(name, line) ==
    [name |-> name, page_size |-> line.page_size, start_time |-> line.start,
     instructions |-> line.insns, io_bytes |-> line.io, accesses |-> <<>>]

(* "R", "W" or "RW"; a line with neither has no AccessType.                *)
try_from_rw(read, write) == IF read \/ write THEN {[read |-> read, write |-> write]} ELSE {}

ParseLine(st, line) ==
    IF line.kind = "phase"
    THEN [st EXCEPT !.phases = Append(@, TracePhase(st.next_phase, line)),
                    !.next_phase = line.name]
    ELSE IF st.phases = <<>> \/ try_from_rw(line.read, line.write) = {}
    THEN [st EXCEPT !.panicked = TRUE]       \* the unwrap()s of this branch
    ELSE [st EXCEPT !.phases[Len(st.phases)].accesses =
            [p \in DOMAIN @ \cup {line.page} |->
                IF p = line.page THEN CHOOSE a \in try_from_rw(line.read, line.write) : TRUE
                ELSE @[p]]]

Parse(lines) ==
    FoldLeft(ParseLine,
             [phases |-> <<>>, next_phase |-> "pre-main", panicked |-> FALSE],
             lines)

(* Part two: the pages each row counts.                                    *)

ReadPages(phase) == {p \in DOMAIN phase.accesses : phase.accesses[p].read}
WrittenPages(phase) == {p \in DOMAIN phase.accesses : phase.accesses[p].write}

NewReads(phases, i) ==
    {p \in ReadPages(phases[i]) :
       \A j \in 1 .. i - 1 : p \notin DOMAIN phases[j].accesses}

DeadWrites_Next(phases, i) ==
    {p \in WrittenPages(phases[i]) :
       \A j \in (i + 1 .. Len(phases)) \cap {i + 1} : p \notin ReadPages(phases[j])}

DeadWrites(phases, i) ==
    {p \in WrittenPages(phases[i]) :
       \A j \in i + 1 .. Len(phases) : p \notin ReadPages(phases[j])}

Row(phases, i) ==
    LET size(pages) == Cardinality(pages) * phases[i].page_size
    IN  [name |-> phases[i].name, read |-> size(ReadPages(phases[i])),
         written |-> size(WrittenPages(phases[i])),
         dead |-> size(DeadWrites(phases, i)),
         new |-> size(NewReads(phases, i)),
         io |-> phases[i].io_bytes, insns |-> phases[i].instructions]

analyse_file(lines) ==
    LET phases == Parse(lines).phases IN [i \in DOMAIN phases |-> Row(phases, i)]

----------------------------------------------------------------------------
(* Properties.                                                             *)

(* The clock never runs behind a stamp or a phase boundary, and boundaries *)
(* are in order: accessState is a well-formed AccessState.                 *)
TypeOK ==
    /\ InstructionCounter \in Nat /\ running \in BOOLEAN
    /\ accessState.currTime \in 0 .. MaxTime + 1
    /\ accessState.ioBytes \in Nat
    /\ \A p \in DOMAIN accessState.pageLastAccesses :
         LET t == accessState.pageLastAccesses[p]
         IN  {t.lastRead, t.lastWrite} \subseteq 0 .. accessState.currTime - 1
    /\ \A i \in DOMAIN accessState.phaseTimes :
         /\ accessState.phaseTimes[i] \in 0 .. accessState.currTime
         /\ i > 1 => accessState.phaseTimes[i - 1] < accessState.phaseTimes[i]

(* The bytes of a set of pages. *)
Touches(page, bytes) == \E b \in bytes : page = b \div PageSize

(* What the phases after the first read and wrote, their names, their      *)
(* instructions and their I/O are recovered exactly from the log; for the  *)
(* first phase everything but whether a page was read or written is.  The  *)
(* parser never meets a trace line before the phase it belongs to.  (The   *)
(* summary by time stamps of NearMAP.cpp:51-88, the resets of :113-127 and *)
(* the names shifted by one row of main.rs:94-96.)                         *)
TraceExact ==
    LET parsed == Parse(log)
        phases == parsed.phases
    IN  /\ ~parsed.panicked
        /\ Len(phases) = Len(truth) - 1
        /\ \A i \in DOMAIN phases :
             LET p == phases[i]
                 t == truth[i]
             IN  /\ p.name = t.name /\ p.instructions = t.insns
                 /\ p.io_bytes = t.io
                 /\ DOMAIN p.accesses =
                      {b \div PageSize : b \in t.reads \cup t.writes}
                 /\ i > 1 =>
                      /\ ReadPages(p) = {b \div PageSize : b \in t.reads}
                      /\ WrittenPages(p) = {b \div PageSize : b \in t.writes}

(* The CSV columns are what their names say.  No page whose bytes are      *)
(* counted as dead in a phase is read in a later one, whatever the phase;  *)
(* after the first phase every page that was written and is never read     *)
(* later is counted, and so is every page first touched, and read, in the  *)
(* phase (main.rs:103-139).                                                *)
ReportExact ==
    LET phases == Parse(log).phases
        rows == analyse_file(log)
        pages(bytes) == {b \div PageSize : b \in bytes}
        past(i) == UNION {truth[j].reads \cup truth[j].writes : j \in 1 .. i - 1}
        later(i) == UNION {truth[j].reads : j \in i + 1 .. Len(phases)}
    IN  \A i \in DOMAIN rows :
          /\ \A p \in DeadWrites(phases, i) : ~Touches(p, later(i))
          /\ i > 1 =>
               /\ rows[i].dead = PageSize *
                    Cardinality(pages(truth[i].writes) \ pages(later(i)))
               /\ rows[i].new = PageSize *
                    Cardinality(pages(truth[i].reads) \ pages(past(i)))

(* "Read bytes" and "Written bytes" of the first row too: the CSV header   *)
(* of main.rs:146 makes no exception for it.                               *)
FirstPhaseExact ==
    LET rows == analyse_file(log)
        size(bytes) == PageSize * Cardinality({b \div PageSize : b \in bytes})
    IN  rows # <<>> => /\ rows[1].read = size(truth[1].reads)
                       /\ rows[1].written = size(truth[1].writes)
=============================================================================
