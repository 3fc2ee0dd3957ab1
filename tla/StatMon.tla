------------------------------- MODULE StatMon -------------------------------
(***************************************************************************)
(* statmon, the monitoring daemon (statmon/src/main.rs): one Stats behind  *)
(* a mutex, updated by a timer twice a second and by the commands of any   *)
(* number of TCP connections.  The runtime has one thread and no handler   *)
(* awaits while it holds the lock, so a timer tick or one command byte is  *)
(* one step.  The build modelled is the release profile, where a panic     *)
(* aborts the process.                                                     *)
(***************************************************************************)
EXTENDS Stats, FiniteSets

CONSTANTS
    Clients,
    NDisks,      \* disks of the host
    NCpus,       \* CPUs of the host
    MaxBytes,    \* bound: [client -> how many command bytes it sends]
    MaxWork,     \* bound: units of activity of the host
    MaxSamples,  \* bound: updates within one range, until the timer rests
    MaxFails     \* bound: updates that fail

ASSUME StatMonAssumption ==
    /\ IsFiniteSet(Clients)
    /\ {NDisks, NCpus} \subseteq Nat \ {0}
    /\ MaxBytes \in [Clients -> Nat]
    /\ {MaxWork, MaxSamples, MaxFails} \subseteq Nat
    /\ MaxWork + NCpus <= MaxVal   \* no counter of the host reaches 2^63
    /\ "nobody" \notin Clients      \* see NoSpan

Bytes == {"[", "]", "?", "q", "other"}   \* "other": newlines and unknown bytes

VARIABLES
    server,  \* "boot1", "boot2" (the two first updates), "up" or "dead"
    st,      \* the Stats behind the mutex
    kern,    \* the host's counters
    conn,    \* [client -> state of its connection in the server]
    alive,   \* [client -> it has not gone away]
    inbox,   \* [client -> bytes it sent that are not read yet]
    sent,    \* [client -> number of bytes it sent]
    reply,   \* [client -> the last packet it was sent, with what was to be measured]
    fails,   \* updates that have failed
    span     \* history: whose range is being measured and from where on

vars == <<server, st, kern, conn, alive, inbox, sent, reply, fails, span>>

NewHost == [work |-> 1, cpu |-> 1, disks |-> [d \in 1..NDisks |-> 1],
            cpus |-> [c \in 1..NCpus |-> 1]]
NoSpan == [owner |-> "nobody", begin |-> NewHost, lost |-> {}]
NoReply == [kind |-> "none"]

\* Every published value and every kept minimum, maximum and sum is an i64, although
\* the totals they are computed from are u64 (cpustat.rs, iostat.rs).
TypeOK ==
    /\ server \in {"boot1", "boot2", "up", "dead"}
    /\ st.in_range \in BOOLEAN
    /\ \A n \in Names :
          /\ st.now[n] \in MinVal..MaxVal /\ st.min[n] \in MinVal..MaxVal
          /\ st.max[n] \in MinVal..MaxVal /\ st.sum[n] \in MinVal..MaxVal
          /\ st.cnt[n] \in Nat
    /\ kern \in Reading
    /\ conn \in [Clients -> {"none", "open", "closed"}]
    /\ alive \in [Clients -> BOOLEAN]
    /\ inbox \in [Clients -> Seq(Bytes)]
    /\ \A c \in Clients : sent[c] \in 0..MaxBytes[c]
    /\ fails \in 0..MaxFails
    /\ span.owner \in Clients \cup {"nobody"} /\ span.lost \subseteq Names

Init ==
    /\ server = "boot1"
    /\ st = New
    /\ kern = NewHost
    /\ conn = [c \in Clients |-> "none"]
    /\ alive = [c \in Clients |-> TRUE]
    /\ inbox = [c \in Clients |-> <<>>]
    /\ sent = [c \in Clients |-> 0]
    /\ reply = [c \in Clients |-> NoReply]
    /\ fails = 0
    /\ span = NoSpan

------------------------------------------------------------------------------
(* The host *)

\* One unit of activity: traffic, CPU time, events on one CPU and I/O on one disk.
Work ==
    \E d \in 1..NDisks, c \in 1..NCpus :
       kern' = [kern EXCEPT !.work = @ + 1, !.cpu = @ + 1, !.disks[d] = @ + 1, !.cpus[c] = @ + 1]

HostWork ==
    /\ kern.work < MaxWork
    /\ Work
    /\ UNCHANGED <<server, st, conn, alive, inbox, sent, reply, fails, span>>

\* A counter of /proc/stat steps back (the kernel allows it for iowait).
CpuStepsBack ==
    /\ kern.cpu > 0
    /\ kern.cpu = kern.work
    /\ kern' = [kern EXCEPT !.cpu = @ - 1]
    /\ UNCHANGED <<server, st, conn, alive, inbox, sent, reply, fails, span>>

------------------------------------------------------------------------------
(* update(), as the server calls it: a sample is taken, or an error returned. *)

\* The timer rests when a range has MaxSamples samples (a bound of the model).
CanSample == ~st.in_range \/ st.cnt["net"] < MaxSamples

\* The readings an update throws away are lost to the span being measured.
UpdateFails(fail) ==
    /\ fails < MaxFails
    /\ fail \in Failures
    /\ st' = Update(st, kern, fail)
    /\ fails' = fails + 1
    /\ span' = IF span = NoSpan THEN span ELSE [span EXCEPT !.lost = @ \cup Lost(fail)]

\* An update fails where the error ends the process, and its Stats with it.
Die ==
    /\ fails < MaxFails
    /\ server' = "dead"
    /\ fails' = fails + 1

\* The two updates before the socket is bound; an error is returned from main.
Boot ==
    /\ server \in {"boot1", "boot2"}
    /\ \/ /\ st' = Update(st, kern, "none")
          /\ server' = IF server = "boot1" THEN "boot2" ELSE "up"
          /\ UNCHANGED <<fails, span>>
       \/ Die /\ UNCHANGED <<st, span>>
    /\ UNCHANGED <<kern, conn, alive, inbox, sent, reply>>

\* The timer task: an error panics.
Tick ==
    /\ server = "up"
    /\ CanSample
    /\ \/ /\ st' = Update(st, kern, "none")
          /\ UNCHANGED <<server, fails, span>>
       \/ Die /\ UNCHANGED <<st, span>>
    /\ UNCHANGED <<kern, conn, alive, inbox, sent, reply>>

------------------------------------------------------------------------------
(* The clients *)

Connect(c) ==
    /\ server = "up"
    /\ alive[c]
    /\ conn[c] = "none"
    /\ conn' = [conn EXCEPT ![c] = "open"]
    /\ UNCHANGED <<server, st, kern, alive, inbox, sent, reply, fails, span>>

ClientSend(c) ==
    /\ server = "up"
    /\ conn[c] = "open"
    /\ alive[c]
    /\ sent[c] < MaxBytes[c]
    /\ \E b \in Bytes : inbox' = [inbox EXCEPT ![c] = Append(@, b)]
    /\ sent' = [sent EXCEPT ![c] = @ + 1]
    /\ UNCHANGED <<server, st, kern, conn, alive, reply, fails, span>>

\* The client goes away; what it has sent is still delivered.
ClientGone(c) ==
    /\ server = "up"
    /\ conn[c] = "open"
    /\ alive[c]
    /\ alive' = [alive EXCEPT ![c] = FALSE]
    /\ UNCHANGED <<server, st, kern, conn, inbox, sent, reply, fails, span>>

------------------------------------------------------------------------------
(* conn_handler *)

Close(c) == conn' = [conn EXCEPT ![c] = "closed"]

\* wc.write_all: a packet for a client that is gone may fail, which closes.
Write(c, packet) ==
    \/ alive[c] /\ reply' = [reply EXCEPT ![c] = packet] /\ UNCHANGED conn
    \/ ~alive[c] /\ UNCHANGED <<reply, conn>>
    \/ ~alive[c] /\ Close(c) /\ UNCHANGED reply

\* One byte is read off the connection.
Take(c, b) ==
    /\ server = "up"
    /\ conn[c] = "open"
    /\ inbox[c] # <<>>
    /\ b = Head(inbox[c])
    /\ inbox' = [inbox EXCEPT ![c] = Tail(@)]

\* A failed update ends the handler; the range is left as it is.
CommandFails(c) ==
    /\ \E b \in {"[", "]"} : Take(c, b)
    /\ \E fail \in Failures : UpdateFails(fail)
    /\ Close(c)
    /\ UNCHANGED <<server, kern, alive, sent, reply>>

\* An expect() or unwrap() panics: the interface is gone, or a perf counter
\* cannot be started or stopped.
CommandPanics(c) ==
    /\ \E b \in {"[", "]"} : Take(c, b)
    /\ Die
    /\ UNCHANGED <<st, kern, conn, alive, sent, reply, span>>

\* '[': update, then begin_range.
Begin(c) ==
    /\ Take(c, "[")
    /\ st' = BeginRange(Update(st, kern, "none"), kern)
    /\ span' = [owner |-> c, begin |-> kern, lost |-> {}]
    /\ UNCHANGED <<server, kern, conn, alive, sent, reply, fails>>

\* What a packet that ends c's own range was to measure.
Measured(c, s) ==
    IF span.owner = c
    THEN [kind |-> "measured", packet |-> StatPacket(s), lost |-> span.lost,
          work |-> kern.work - span.begin.work, cpu |-> kern.cpu - span.begin.cpu,
          io |-> kern.disks[NDisks] - span.begin.disks[NDisks],
          event |-> EventTotal(kern) - EventTotal(span.begin)]
    ELSE [kind |-> "other", packet |-> StatPacket(s)]

\* Mutant: the packet is made before the last update.
End_NoUpdate(c) ==
    /\ Take(c, "]")
    /\ LET s == EndRange(st, kern)
       IN  st' = s /\ Write(c, Measured(c, s))
    /\ span' = NoSpan
    /\ UNCHANGED <<server, kern, alive, sent, fails>>

\* Mutant: the handler returns after the range instead of answering.
End_Closes(c) ==
    /\ Take(c, "]")
    /\ st' = EndRange(Update(st, kern, "none"), kern)
    /\ Close(c)
    /\ span' = NoSpan
    /\ UNCHANGED <<server, kern, alive, sent, reply, fails>>

\* Mutant: ']' is put back, to be looked at again.
End_Kept(c) ==
    /\ server = "up" /\ conn[c] = "open" /\ inbox[c] # <<>> /\ Head(inbox[c]) = "]"
    /\ UNCHANGED vars

\* ']': update, end_range and the packet, then the write.
End(c) ==
    /\ Take(c, "]")
    /\ LET s == EndRange(Update(st, kern, "none"), kern)
       IN  st' = s /\ Write(c, Measured(c, s))
    /\ span' = NoSpan
    /\ UNCHANGED <<server, kern, alive, sent, fails>>

\* '?': the packet, without an update.
Query(c) ==
    /\ Take(c, "?")
    /\ Write(c, [kind |-> "other", packet |-> StatPacket(st)])
    /\ UNCHANGED <<server, st, kern, alive, sent, fails, span>>

Quit(c) ==
    /\ Take(c, "q")
    /\ Close(c)
    /\ UNCHANGED <<server, st, kern, alive, sent, reply, fails, span>>

\* A newline is skipped, an unknown byte logged.
OtherByte(c) ==
    /\ Take(c, "other")
    /\ UNCHANGED <<server, st, kern, conn, alive, sent, reply, fails, span>>

\* read_exact fails at the end of the stream: the handler ends.
EndOfStream(c) ==
    /\ server = "up"
    /\ conn[c] = "open"
    /\ ~alive[c]
    /\ inbox[c] = <<>>
    /\ Close(c)
    /\ UNCHANGED <<server, st, kern, alive, inbox, sent, reply, fails, span>>

Handle(c) ==
    \/ Begin(c) \/ End(c) \/ Query(c) \/ Quit(c) \/ OtherByte(c)
    \/ CommandFails(c) \/ CommandPanics(c) \/ EndOfStream(c)

------------------------------------------------------------------------------

Next ==
    \/ HostWork \/ CpuStepsBack
    \/ Boot \/ Tick
    \/ \E c \in Clients : Connect(c) \/ ClientSend(c) \/ ClientGone(c) \/ Handle(c)

Spec == Init /\ [][Next]_vars

------------------------------------------------------------------------------
(* Properties *)

\* A range that one client begins and ends, with nobody else's '[' or ']' in
\* between, is measured exactly, however many timer ticks, queries and failed
\* updates of other connections fall into it: the sums of the differences are
\* what the counters moved between the two commands (even if a u64 counter
\* stepped back), except for readings that a failing update took and threw
\* away; and the perf counters show what happened since '['.  Of the disks that
\* is what the last one of /proc/diskstats did, and of the CPUs what those did
\* before the first one without a counter: nothing else is counted.
ExclusiveRangeExact ==
    \A c \in Clients : reply[c].kind = "measured" =>
       LET r == reply[c]
       IN  /\ "net" \notin r.lost => r.packet.sum["net"] = r.work
           /\ "io"  \notin r.lost => r.packet.sum["io"]  = r.io
           /\ "cpu" \notin r.lost => r.packet.sum["cpu"] = r.cpu
           /\ r.packet.now["event"] = r.event /\ r.packet.max["event"] = r.event

\* So many samples between the minimum and the maximum cannot add up to more
\* than an i64 holds: a client can tell from the packet that the sum is good.
SumFits(s, n) == s.cnt[n] * s.max[n] <= MaxVal /\ MinVal <= s.cnt[n] * s.min[n]

\* The aggregates describe one set of samples: all statistics have seen the
\* same number of them, and the average that stat_packet prints, value_sum by
\* value_cnt, lies between the minimum and the maximum, unless the samples are so
\* large and so many that the i64 sum may have wrapped (stats.rs:71-77, 198-203).
AggregatesConsistent ==
    \A n \in Names :
       /\ st.cnt[n] = st.cnt["net"]
       /\ st.cnt[n] > 0 => /\ st.min[n] <= st.max[n]
                           /\ SumFits(st, n) => /\ st.cnt[n] * st.min[n] <= st.sum[n]
                                                /\ st.sum[n] <= st.cnt[n] * st.max[n]
       /\ st.cnt[n] = 0 => st.sum[n] = 0

\* After ']' the aggregates stay as they are until the next '[': a later '?'
\* still reports the range, although the timer goes on updating.
RangeFrozen ==
    [][~st.in_range /\ ~st'.in_range => Aggregates(st') = Aggregates(st)]_vars
==============================================================================
