--------------------------- MODULE ExperimentProofs ---------------------------
(***************************************************************************)
(* Proofs about the experiment, for every workload, every number of other  *)
(* clients and every host: each of its steps is a step of the load         *)
(* generator or leaves it alone, and a step of statmon or leaves it alone. *)
(* So what is proved of the two holds of them together, and it remains to  *)
(* follow the three bytes that connect them and the work that the requests *)
(* make on the host.                                                       *)
(***************************************************************************)
EXTENDS Experiment, FaasmSpeedProofs, SequenceTheorems

\* statmon with what is proved of it.
MonP == INSTANCE StatMonProofs

link == mlink[1]
box == inbox["load"]

\* Where async_main is tells what was last done on the connection.
LinkInv ==
    /\ opts = [oneshot |-> FALSE, dry_run |-> FALSE, time |-> "positive", idle |-> {}]
    /\ mpc = "connect" => link = IF host = 1 THEN "none" ELSE "open"
    /\ mpc = "test" => link = "open"
    /\ mpc = "begin" => link = IF host = 1 THEN "open" ELSE "begun"
    /\ mpc \in {"total", "spawn", "finish"} => link = "begun"
    /\ mpc = "end" => link = IF host = 1 THEN "begun" ELSE "closed"
    /\ mpc = "read" => link = "ended"
    /\ mpc = "quit" => link \in {"line", "eof"}
    /\ mpc = "report" => link = "closed"

\* Of '[', ']' and 'q' the daemon has not read more than a tail of what was
\* written, and nothing that was not written.
Begun == {<<>>, <<"[">>}
Closing == Begun \cup {<<"]">>, <<"[", "]">>}
Quitting == Closing \cup {<<"q">>, <<"]", "q">>, <<"[", "q">>, <<"[", "]", "q">>}

BytesInv ==
    /\ link \in {"none", "open"} => box = <<>> /\ sent["load"] = 0
    /\ link = "begun" => box \in Begun /\ sent["load"] <= 1
    /\ link \in {"ended", "line", "eof"} => box \in Closing /\ sent["load"] <= 2
    /\ link = "closed" => box \in Quitting

\* The connection ends only when an update fails, or with 'q'.
WellInv ==
    /\ alive["load"]
    /\ link = "none" => conn["load"] = "none"
    /\ link \in {"open", "begun", "ended", "line", "eof"} /\ fails = 0 => Linked
    /\ LostOnlyByFailure

\* The work of the host is the requests it has executed.
Executed == SUM([f \in Functions |-> Cardinality(executed[f])], Functions)

WorkInv ==
    /\ executed \in [Functions -> SUBSET Nat]
    /\ \A f \in Functions : executed[f] \subseteq DOMAIN reqs[f]
    /\ \A f \in Functions : \A i \in DOMAIN reqs[f] : reqs[f][i].st = "ok" => i \in executed[f]
    /\ kern.work = 1 + Executed
    /\ early \in Nat

\* Of it, what statmon has not measured is what was done before it took '['.
SpanInv ==
    /\ link \in {"none", "open"} \/ Pending("[") => early = Executed
    /\ span.owner = "load" => /\ link \notin {"none", "open"}
                              /\ ~Pending("[")
                              /\ span.begin.work = 1 + early

ReplyInv ==
    reply["load"].kind = "measured" =>
       /\ link \in Ended
       /\ reply["load"].work \in Int
       /\ reply["load"].work + early >= Answered

XInv == LinkInv /\ BytesInv /\ WellInv /\ WorkInv /\ SpanInv /\ ReplyInv

------------------------------------------------------------------------------
(* statmon, instantiated with and without its proofs, is the same.  *)

\* The constants are such that statmon's theorems apply.
LEMMA MonitorConstants ==
    /\ MonP!MaxVal = Mon!MaxVal /\ MonP!MinVal = Mon!MinVal
    /\ MonP!WordAssumption
    /\ MonP!StatMonAssumption
<1>1. MonP!MaxVal = Mon!MaxVal /\ MonP!MinVal = Mon!MinVal
  BY DEF MonP!MaxVal, Mon!MaxVal, MonP!MinVal, Mon!MinVal
<1> QED
  BY <1>1, ExperimentAssumption
     DEF Mon!WordAssumption, Mon!StatMonAssumption, MonP!WordAssumption,
         MonP!StatMonAssumption, Mon!IsFiniteSet, MonP!IsFiniteSet, IsFiniteSet

\* The operators of Stats.
LEMMA SameStats ==
    /\ MonP!Names = Mon!Names /\ MonP!Failures = Mon!Failures /\ MonP!Bytes = Mon!Bytes
    /\ MonP!New = Mon!New
    /\ \A k : MonP!EventTotal(k) = Mon!EventTotal(k)
    /\ \A s, k, fail : MonP!Update(s, k, fail) = Mon!Update(s, k, fail)
    /\ \A fail : MonP!Lost(fail) = Mon!Lost(fail)
    /\ \A s, k : MonP!BeginRange(s, k) = Mon!BeginRange(s, k)
    /\ \A s, k : MonP!EndRange(s, k) = Mon!EndRange(s, k)
    /\ \A s : MonP!StatPacket(s) = Mon!StatPacket(s)
<1>1. MonP!Names = Mon!Names /\ MonP!Failures = Mon!Failures /\ MonP!Bytes = Mon!Bytes
  BY DEF MonP!Names, Mon!Names, MonP!Failures, Mon!Failures, MonP!Bytes, Mon!Bytes
<1>2. MonP!New = Mon!New
  BY <1>1, MonitorConstants
     DEF MonP!New, Mon!New, MonP!NewCpuStat, Mon!NewCpuStat, MonP!NewIoStat,
         Mon!NewIoStat, MonP!NewEventStat, Mon!NewEventStat
<1>3. ASSUME NEW k PROVE MonP!EventTotal(k) = Mon!EventTotal(k)
  BY DEF MonP!EventTotal, Mon!EventTotal, MonP!Watched, Mon!Watched,
         MonP!SumFunctionOnSet, Mon!SumFunctionOnSet, MonP!FoldFunctionOnSet,
         Mon!FoldFunctionOnSet, MonP!MapThenFoldSet, Mon!MapThenFoldSet
<1>4. ASSUME NEW s, NEW k PROVE MonP!BeginRange(s, k) = Mon!BeginRange(s, k)
  BY <1>1, <1>3, MonitorConstants
     DEF MonP!BeginRange, Mon!BeginRange, MonP!Reset, Mon!Reset, MonP!EventStart,
         Mon!EventStart
<1>5. ASSUME NEW e, NEW k PROVE MonP!EventRead(e, k) = Mon!EventRead(e, k)
  BY <1>3 DEF MonP!EventRead, Mon!EventRead
<1>6. ASSUME NEW s, NEW k PROVE MonP!EndRange(s, k) = Mon!EndRange(s, k)
  BY <1>5 DEF MonP!EndRange, Mon!EndRange, MonP!EventStop, Mon!EventStop
<1>7. ASSUME NEW s PROVE MonP!StatPacket(s) = Mon!StatPacket(s)
  BY DEF MonP!StatPacket, Mon!StatPacket
<1>8. ASSUME NEW fail
      PROVE  /\ MonP!Lost(fail) = Mon!Lost(fail)
             /\ MonP!Published(fail) = Mon!Published(fail)
  BY <1>1 DEF MonP!Lost, Mon!Lost, MonP!Published, Mon!Published
<1>9. ASSUME NEW t, NEW total
      PROVE  /\ MonP!Shift(t, total) = Mon!Shift(t, total)
             /\ MonP!ReadTotal(t, total) = Mon!ReadTotal(t, total)
  BY DEF MonP!Shift, Mon!Shift, MonP!ReadTotal, Mon!ReadTotal
<1>10. ASSUME NEW t PROVE MonP!Delta(t) = Mon!Delta(t)
  BY MonitorConstants DEF MonP!Delta, Mon!Delta, MonP!AsI64, Mon!AsI64, MonP!SubU64, Mon!SubU64
<1>11. ASSUME NEW k PROVE MonP!DiskTotal(k) = Mon!DiskTotal(k)
  BY DEF MonP!DiskTotal, Mon!DiskTotal
<1>12. ASSUME NEW s, NEW k PROVE MonP!Fresh(s, k) = Mon!Fresh(s, k)
  BY <1>5, <1>9, <1>10, <1>11 DEF MonP!Fresh, Mon!Fresh
<1>13. ASSUME NEW t, NEW total, NEW read, NEW shifted
       PROVE  MonP!Totals(t, total, read, shifted) = Mon!Totals(t, total, read, shifted)
  BY <1>9 DEF MonP!Totals, Mon!Totals
<1>14. ASSUME NEW s, NEW k, NEW fail PROVE MonP!Read(s, k, fail) = Mon!Read(s, k, fail)
  <2>1. PICK pub : pub = Mon!Published(fail)
    OBVIOUS
  <2>2. PICK fresh : fresh = Mon!Fresh(s, k)
    OBVIOUS
  <2>3. PICK names : names = Mon!Names
    OBVIOUS
  <2>4. PICK cpu : cpu = Mon!Totals(s.cpu, k.cpu, "cpu" \in pub \/ fail = "cpu parse", fail = "cpu read")
    OBVIOUS
  <2>5. PICK io : io = Mon!Totals(s.io, Mon!DiskTotal(k), "io" \in pub \/ fail = "io parse", fail = "io read")
    OBVIOUS
  <2>6. /\ MonP!Published(fail) = pub /\ MonP!Fresh(s, k) = fresh /\ MonP!Names = names
        /\ MonP!Totals(s.cpu, k.cpu, "cpu" \in pub \/ fail = "cpu parse", fail = "cpu read") = cpu
        /\ MonP!Totals(s.io, MonP!DiskTotal(k), "io" \in pub \/ fail = "io parse", fail = "io read") = io
    BY <1>1, <1>8, <1>11, <1>12, <1>13, <2>1, <2>2, <2>3, <2>4, <2>5
  <2> DEFINE read == [s EXCEPT
           !.now = [n \in names |-> IF n \in pub THEN fresh[n] ELSE @[n]],
           !.net_ref = IF "net" \in pub THEN k.work ELSE @,
           !.cpu = cpu,
           !.io = io]
  <2>7. Mon!Read(s, k, fail) = read
    BY <2>1, <2>2, <2>3, <2>4, <2>5 DEF Mon!Read
  <2>8. MonP!Read(s, k, fail) = read
    BY <2>6 DEF MonP!Read
  <2>9. QED
    BY <2>7, <2>8
<1>15. ASSUME NEW s PROVE MonP!UpdateAggregate(s) = Mon!UpdateAggregate(s)
  BY <1>1 DEF MonP!UpdateAggregate, Mon!UpdateAggregate, MonP!Lesser, Mon!Lesser,
              MonP!Greater, Mon!Greater, MonP!AddI64, Mon!AddI64, MonP!AsI64, Mon!AsI64,
              MonP!MaxVal, Mon!MaxVal
<1>16. ASSUME NEW s, NEW k, NEW fail PROVE MonP!Update(s, k, fail) = Mon!Update(s, k, fail)
  BY <1>14, <1>15 DEF MonP!Update, Mon!Update
<1> QED
  BY <1>1, <1>2, <1>3, <1>4, <1>6, <1>7, <1>8, <1>16

\* The steps of the daemon and its clients.
LEMMA SameMonitor ==
    /\ MonP!vars = monVars /\ MonP!NoSpan = Mon!NoSpan /\ MonP!NoReply = Mon!NoReply
    /\ Mon!Init => MonP!Init
    /\ Mon!Boot => MonP!Boot
    /\ Mon!Tick => MonP!Tick
    /\ \A c \in Clients : /\ Mon!Handle(c) => MonP!Handle(c)
                          /\ Mon!Connect(c) => MonP!Connect(c)
                          /\ Mon!ClientSend(c) => MonP!ClientSend(c)
<1>1. MonP!vars = monVars
  BY DEF MonP!vars, monVars
<1>2. MonP!NoSpan = Mon!NoSpan /\ MonP!NoReply = Mon!NoReply /\ MonP!NewHost = Mon!NewHost
  BY DEF MonP!NoSpan, Mon!NoSpan, MonP!NewHost, Mon!NewHost, MonP!NoReply, Mon!NoReply
<1>3. Mon!Init => MonP!Init
  BY <1>2, SameStats DEF Mon!Init, MonP!Init
<1>4. Mon!Die => MonP!Die
  BY DEF Mon!Die, MonP!Die
<1>5. Mon!Boot => MonP!Boot
  <2>1. MonP!Update(st, kern, "none") = Mon!Update(st, kern, "none")
    BY SameStats
  <2>2. QED
    BY <2>1, <1>4 DEF Mon!Boot, MonP!Boot
<1>6. Mon!Tick => MonP!Tick
  <2>1. MonP!Update(st, kern, "none") = Mon!Update(st, kern, "none")
    BY SameStats
  <2>2. QED
    BY <2>1, <1>4 DEF Mon!Tick, MonP!Tick, Mon!CanSample, MonP!CanSample
<1>7. ASSUME NEW c \in Clients
      PROVE  /\ Mon!Connect(c) => MonP!Connect(c)
             /\ Mon!ClientSend(c) => MonP!ClientSend(c)
  BY SameStats DEF Mon!Connect, MonP!Connect, Mon!ClientSend, MonP!ClientSend
<1>8. ASSUME NEW c \in Clients
      PROVE  Mon!Handle(c) => MonP!Handle(c)
  <2>1. ASSUME NEW b, Mon!Take(c, b) PROVE MonP!Take(c, b)
    BY <2>1 DEF Mon!Take, MonP!Take
  <2>2. Mon!Close(c) => MonP!Close(c)
    BY DEF Mon!Close, MonP!Close
  <2>3. ASSUME NEW packet, Mon!Write(c, packet) PROVE MonP!Write(c, packet)
    BY <2>2, <2>3 DEF Mon!Write, MonP!Write
  <2>4. Mon!Begin(c) => MonP!Begin(c)
    <3>1. MonP!BeginRange(MonP!Update(st, kern, "none"), kern)
          = Mon!BeginRange(Mon!Update(st, kern, "none"), kern)
      BY SameStats
    <3>2. QED
      BY <3>1, <2>1 DEF Mon!Begin, MonP!Begin
  <2>5. Mon!End(c) => MonP!End(c)
    <3>1. PICK s : s = Mon!EndRange(Mon!Update(st, kern, "none"), kern)
      OBVIOUS
    <3>2. s = MonP!EndRange(MonP!Update(st, kern, "none"), kern)
      BY <3>1, SameStats
    <3>3. /\ MonP!StatPacket(s) = Mon!StatPacket(s)
          /\ MonP!EventTotal(kern) = Mon!EventTotal(kern)
          /\ MonP!EventTotal(span.begin) = Mon!EventTotal(span.begin)
      BY SameStats
    <3>4. MonP!Measured(c, s) = Mon!Measured(c, s)
      BY <3>3 DEF MonP!Measured, Mon!Measured
    <3>5. QED
      BY <3>1, <3>2, <3>4, <1>2, <2>1, <2>3 DEF Mon!End, MonP!End
  <2>6. Mon!Query(c) => MonP!Query(c)
    <3>1. MonP!StatPacket(st) = Mon!StatPacket(st)
      BY SameStats
    <3>2. QED
      BY <3>1, <2>1, <2>3 DEF Mon!Query, MonP!Query
  <2>7. /\ Mon!Quit(c) => MonP!Quit(c)
        /\ Mon!OtherByte(c) => MonP!OtherByte(c)
        /\ Mon!EndOfStream(c) => MonP!EndOfStream(c)
    BY <2>1, <2>2 DEF Mon!Quit, MonP!Quit, Mon!OtherByte, MonP!OtherByte,
                      Mon!EndOfStream, MonP!EndOfStream
  <2>8. Mon!CommandPanics(c) => MonP!CommandPanics(c)
    BY <1>4, <2>1 DEF Mon!CommandPanics, MonP!CommandPanics
  <2>9. Mon!CommandFails(c) => MonP!CommandFails(c)
    <3>1. ASSUME NEW fail, Mon!UpdateFails(fail) PROVE MonP!UpdateFails(fail)
      <4>1. /\ MonP!Update(st, kern, fail) = Mon!Update(st, kern, fail)
            /\ MonP!Lost(fail) = Mon!Lost(fail) /\ MonP!Failures = Mon!Failures
        BY SameStats
      <4>2. QED
        BY <1>2, <3>1, <4>1 DEF Mon!UpdateFails, MonP!UpdateFails
    <3>2. QED
      BY <2>1, <2>2, <3>1, SameStats DEF Mon!CommandFails, MonP!CommandFails
  <2>10. QED
    BY <2>4, <2>5, <2>6, <2>7, <2>8, <2>9 DEF Mon!Handle, MonP!Handle
<1> QED
  BY <1>1, <1>2, <1>3, <1>5, <1>6, <1>7, <1>8

------------------------------------------------------------------------------
(* Short sequences of bytes *)

\* A sequence of two bytes, made from one.
LEMMA AppendToOne ==
    ASSUME NEW a, NEW b
    PROVE  Append(<<a>>, b) = <<a, b>>
<1>1. PICK s : s = <<a>>
  OBVIOUS
<1>2. PICK t : t = <<a, b>>
  OBVIOUS
<1>3. s \in Seq({a, b}) /\ Len(s) = 1 /\ s[1] = a
  BY <1>1
<1>4. t \in Seq({a, b}) /\ Len(t) = 2 /\ t[1] = a /\ t[2] = b
  BY <1>2
<1>5. PICK u : u = Append(s, b)
  OBVIOUS
<1>6. u \in Seq({a, b}) /\ Len(u) = 2 /\ u[1] = a /\ u[2] = b
  <2>1. PICK S : S = {a, b}
    OBVIOUS
  <2>2. /\ u \in Seq(S) /\ Len(u) = Len(s) + 1
        /\ \A i \in 1..Len(s) : u[i] = s[i]
        /\ u[Len(s) + 1] = b
    <3>1. s \in Seq(S) /\ b \in S
      BY <1>3, <2>1
    <3> QED
      BY <3>1, <1>5, AppendProperties
  <2> QED
    BY <1>3, <2>1, <2>2
<1>7. u = t
  BY <1>4, <1>6, SeqEqual
<1> QED
  BY <1>1, <1>2, <1>5, <1>7

\* A sequence of three, made from two.
LEMMA AppendToTwo ==
    ASSUME NEW a, NEW b, NEW c
    PROVE  Append(<<a, b>>, c) = <<a, b, c>>
<1>1. PICK s : s = <<a, b>>
  OBVIOUS
<1>2. PICK t : t = <<a, b, c>>
  OBVIOUS
<1>3. s \in Seq({a, b, c}) /\ Len(s) = 2 /\ s[1] = a /\ s[2] = b
  BY <1>1
<1>4. t \in Seq({a, b, c}) /\ Len(t) = 3 /\ t[1] = a /\ t[2] = b /\ t[3] = c
  BY <1>2
<1>5. PICK u : u = Append(s, c)
  OBVIOUS
<1>6. u \in Seq({a, b, c}) /\ Len(u) = 3 /\ u[1] = a /\ u[2] = b /\ u[3] = c
  <2>1. PICK S : S = {a, b, c}
    OBVIOUS
  <2>2. /\ u \in Seq(S) /\ Len(u) = Len(s) + 1
        /\ \A i \in 1..Len(s) : u[i] = s[i]
        /\ u[Len(s) + 1] = c
    <3>1. s \in Seq(S) /\ c \in S
      BY <1>3, <2>1
    <3> QED
      BY <3>1, <1>5, AppendProperties
  <2> QED
    BY <1>3, <2>1, <2>2
<1>7. u = t
  BY <1>4, <1>6, SeqEqual
<1> QED
  BY <1>1, <1>2, <1>5, <1>7

\* What is left when the first byte is read: nothing,
LEMMA TailOfOne ==
    ASSUME NEW a
    PROVE  Tail(<<a>>) = <<>> /\ Head(<<a>>) = a
  OBVIOUS

\* one byte,
LEMMA TailOfTwo ==
    ASSUME NEW a, NEW b
    PROVE  Tail(<<a, b>>) = <<b>> /\ Head(<<a, b>>) = a
<1>1. Append(<<a>>, b) = <<a, b>> /\ Append(<<>>, b) = <<b>>
  BY AppendToOne
<1>2. <<a>> \in Seq({a}) /\ <<a>> # <<>> /\ Tail(<<a>>) = <<>> /\ Head(<<a>>) = a
  OBVIOUS
<1> QED
  BY <1>1, <1>2, HeadTailAppend

\* two bytes.
LEMMA TailOfThree ==
    ASSUME NEW a, NEW b, NEW c
    PROVE  Tail(<<a, b, c>>) = <<b, c>> /\ Head(<<a, b, c>>) = a
<1>1. Append(<<a, b>>, c) = <<a, b, c>> /\ Append(<<b>>, c) = <<b, c>>
  BY AppendToTwo, AppendToOne
<1>2. <<a, b>> \in Seq({a, b}) /\ <<a, b>> # <<>> /\ Tail(<<a, b>>) = <<b>> /\ Head(<<a, b>>) = a
  BY TailOfTwo
<1> QED
  BY <1>1, <1>2, HeadTailAppend

------------------------------------------------------------------------------
(* What is known of a state *)

Links == {"none", "open", "begun", "ended", "line", "eof", "closed"}

\* There is one connection, and it is used.
LEMMA OneHost ==
    ASSUME IInv, LinkInv
    PROVE  /\ Hosts = {1} /\ host \in {1, 2} /\ link \in Links
           /\ mlink \in [{1} -> Links] /\ opts \in Options
           /\ reqs \in [Functions -> Seq(Request)]
<1>1. NHosts = 1 /\ 1..1 = {1} /\ 1..(1 + 1) = {1, 2}
  BY ExperimentAssumption
<1>2. /\ mlink \in [1..NHosts -> Links] /\ host \in 1..(NHosts + 1)
      /\ opts \in Options /\ reqs \in [Functions -> Seq(Request)]
  BY DEF IInv, TypeOK, Links
<1> QED
  BY <1>1, <1>2 DEF Hosts, LinkInv, link

\* No request is there before '[' was written; when ']' is, all are answered.
LEMMA Inside ==
    ASSUME IInv, LinkInv
    PROVE  /\ \A f \in Functions : DOMAIN reqs[f] # {} => link \notin {"none", "open"}
           /\ link \in Ended => \A f \in Functions :
                /\ Len(reqs[f]) = Planned(f)
                /\ \A i \in DOMAIN reqs[f] : Finished(reqs[f][i])
  BY OneHost, InsideMonitoring DEF LoadInsideMonitoring, Ended, link

\* Every function sends what it is to send, and no more.
LEMMA AllPlanned ==
    ASSUME LinkInv, NEW f \in Functions
    PROVE  Planned(f) = Total[f] /\ Total[f] \in Nat
  BY LoadAssumption DEF LinkInv, Planned

\* The types of what statmon keeps of the connection.
LEMMA MonitorTypes ==
    ASSUME MonP!IInv
    PROVE  /\ "load" \in Clients /\ Others \subseteq Clients /\ "load" \notin Others
           /\ "nobody" # "load"
           /\ conn \in [Clients -> {"none", "open", "closed"}]
           /\ alive \in [Clients -> BOOLEAN]
           /\ DOMAIN inbox = Clients /\ inbox \in [Clients -> Seq(MonP!Bytes)]
           /\ sent \in [Clients -> Nat] /\ MaxBytes["load"] = 3
           /\ DOMAIN reply = Clients
           /\ fails \in Nat
           /\ kern.work \in Nat
<1>1. "load" \in Clients /\ Others \subseteq Clients /\ "load" \notin Others
  BY ExperimentAssumption DEF Clients
<1>2. kern \in MonP!Host
  BY DEF MonP!IInv, MonP!Books, MonP!HostInv
<1>3. kern.work \in MonP!Counter
  BY <1>2 DEF MonP!Host
<1>4. MaxFails \in Nat
  BY MonitorConstants DEF MonP!StatMonAssumption
<1>5. kern.work \in Nat
  BY <1>3, MonitorConstants DEF MonP!Counter
<1>6. reply = [c \in Clients |-> reply[c]]
  BY DEF MonP!IInv, MonP!Control
<1> QED
  BY <1>1, <1>4, <1>5, <1>6, ExperimentAssumption, SMTT(60) DEF MonP!IInv, MonP!Control

\* The executed requests are finitely many, and no more than were to be sent.
LEMMA ExecutedFacts ==
    ASSUME IInv, AInv, LinkInv, WorkInv
    PROVE  /\ \A f \in Functions : /\ executed[f] \subseteq DOMAIN reqs[f]
                                   /\ IsFiniteSet(executed[f])
                                   /\ Cardinality(executed[f]) \in Nat
           /\ Executed \in Int
           /\ Answered \in Int
           /\ Answered <= Executed
<1> DEFINE u == [f \in Functions |-> Cardinality(executed[f])]
           v == [f \in Functions |-> Count(f, LAMBDA r : r.st = "ok")]
<1>1. ASSUME NEW f \in Functions
      PROVE  /\ executed[f] \subseteq DOMAIN reqs[f]
             /\ IsFiniteSet(executed[f])
             /\ Cardinality(executed[f]) \in Nat
             /\ Count(f, LAMBDA r : r.st = "ok") \in Nat
             /\ Count(f, LAMBDA r : r.st = "ok") <= Cardinality(executed[f])
  <2> DEFINE ok == {i \in DOMAIN reqs[f] : reqs[f][i].st = "ok"}
  <2>1. reqs[f] \in Seq(Request)
    BY OneHost
  <2>2. IsFiniteSet(DOMAIN reqs[f])
    BY <2>1, FS_Interval
  <2>3. executed[f] \subseteq DOMAIN reqs[f] /\ ok \subseteq executed[f]
    BY DEF WorkInv
  <2> HIDE DEF ok
  <2>4. IsFiniteSet(executed[f])
    BY <2>2, <2>3, FS_Subset
  <2>5. IsFiniteSet(ok) /\ Cardinality(ok) <= Cardinality(executed[f])
    BY <2>4, <2>3, FS_Subset
  <2>6. Cardinality(ok) \in Nat /\ Cardinality(executed[f]) \in Nat
    BY <2>4, <2>5, FS_CardinalityType
  <2>7. Count(f, LAMBDA r : r.st = "ok") = Cardinality(ok)
    BY DEF Count, ok
  <2> QED
    BY <2>3, <2>4, <2>5, <2>6, <2>7
<1>2. \A f \in Functions : v[f] \in Int /\ u[f] \in Int /\ v[f] <= u[f]
  BY <1>1
<1>3. Answered = SUM(v, Functions) /\ Executed = SUM(u, Functions)
  BY DEF Answered, Executed, SUM
<1> HIDE DEF u, v
<1>4. SUM(v, Functions) \in Int /\ SUM(u, Functions) \in Int
  BY <1>2, LoadAssumption, SumIsInt
<1>5. SUM(v, Functions) <= SUM(u, Functions)
  BY <1>2, LoadAssumption, SumOrdered
<1> QED
  BY <1>1, <1>3, <1>4, <1>5

\* The host executes one more of them.
LEMMA ExecuteOne ==
    ASSUME IInv, AInv, LinkInv, WorkInv, NEW f \in Functions, NEW i \in DOMAIN reqs[f],
           i \notin executed[f], executed' = [executed EXCEPT ![f] = @ \cup {i}]
    PROVE  /\ Executed' = Executed + 1
           /\ Executed' <= SUM(Total, Functions)
<1>1. PICK x : x = executed'
  OBVIOUS
<1> DEFINE u == [g \in Functions |-> Cardinality(executed[g])]
           v == [g \in Functions |-> Cardinality(x[g])]
<1>2. executed \in [Functions -> SUBSET Nat]
  BY DEF WorkInv
<1>3. x[f] = executed[f] \cup {i} /\ \A g \in Functions : g # f => x[g] = executed[g]
  BY <1>1, <1>2
<1>4. IsFiniteSet(executed[f]) /\ \A g \in Functions : Cardinality(executed[g]) \in Nat
  BY ExecutedFacts
<1>5. Cardinality(x[f]) = Cardinality(executed[f]) + 1
  BY <1>3, <1>4, FS_AddElement, ZenonT(60)
<1>6. \A g \in Functions : u[g] \in Int /\ v[g] = IF g = f THEN u[g] + 1 ELSE u[g]
  <2> SUFFICES ASSUME NEW g \in Functions
               PROVE  u[g] \in Int /\ v[g] = IF g = f THEN u[g] + 1 ELSE u[g]
    OBVIOUS
  <2>1. u[g] = Cardinality(executed[g]) /\ v[g] = Cardinality(x[g])
    OBVIOUS
  <2> HIDE DEF u, v
  <2>2. Cardinality(executed[g]) \in Int
    BY <1>4
  <2>3. CASE g = f
    BY <1>5, <2>1, <2>2, <2>3
  <2>4. CASE g # f
    BY <1>3, <2>1, <2>2, <2>4
  <2> QED
    BY <2>3, <2>4
<1>7. \A g \in Functions : v[g] \in Int /\ Total[g] \in Int /\ v[g] <= Total[g]
  <2> SUFFICES ASSUME NEW g \in Functions
               PROVE  v[g] \in Int /\ Total[g] \in Int /\ v[g] <= Total[g]
    OBVIOUS
  <2>1. x[g] \subseteq DOMAIN reqs[g]
    BY <1>3, ExecutedFacts
  <2>2. reqs[g] \in Seq(Request) /\ Len(reqs[g]) <= Total[g] /\ Total[g] \in Nat
    BY OneHost, AllPlanned DEF AInv, PlanInv
  <2>3. DOMAIN reqs[g] = 1..Len(reqs[g]) /\ Len(reqs[g]) \in Nat
    BY <2>2
  <2>4. IsFiniteSet(1..Len(reqs[g])) /\ Cardinality(1..Len(reqs[g])) = Len(reqs[g])
    BY <2>3, FS_Interval
  <2>5. Cardinality(x[g]) <= Len(reqs[g]) /\ IsFiniteSet(x[g])
    BY <2>1, <2>3, <2>4, FS_Subset
  <2>6. Cardinality(x[g]) \in Nat
    BY <2>5, FS_CardinalityType
  <2> QED
    BY <2>2, <2>3, <2>5, <2>6
<1>8. Executed = SUM(u, Functions) /\ Executed' = SUM(v, Functions)
  BY <1>1 DEF Executed
<1> HIDE DEF u, v
<1>9. SUM(v, Functions) = SUM(u, Functions) + 1
  BY <1>6, LoadAssumption, SumOneMore
<1>10. SUM(v, Functions) <= SUM(Total, Functions)
  BY <1>7, LoadAssumption, SumOrdered
<1> QED
  BY <1>8, <1>9, <1>10

------------------------------------------------------------------------------
(* Every step is a step of the load generator and a step of statmon. *)

\* ... of the load generator, or one that leaves it alone.
LEMMA LoadSteps == [ExperimentNext]_allVars => [Next]_vars
<1> SUFFICES ASSUME [ExperimentNext]_allVars PROVE [Next]_vars
  OBVIOUS
<1>1. CASE LoadMain
  BY <1>1 DEF LoadMain, Next, Main
<1>2. ASSUME NEW f \in Functions, LoadFunction(f) PROVE Next
  BY <1>2 DEF LoadFunction, LoadTask, Next
<1>3. ASSUME NEW f \in Functions, NEW i \in DOMAIN reqs[f], LoadRequest(f, i) PROVE Next
  BY <1>3 DEF LoadRequest, LoadTask, Next
<1>4. CASE LoadProgress
  BY <1>4 DEF LoadProgress, LoadTask, Next, Progress
<1>5. ASSUME NEW f \in Functions, NEW i \in DOMAIN reqs[f], Execute(f, i) PROVE UNCHANGED vars
  BY <1>5 DEF Execute, loadVars
<1>6. CASE MonStep \/ ExperimentOver \/ UNCHANGED allVars
  BY <1>6 DEF MonStep, ExperimentOver, allVars, loadVars
<1> QED
  BY <1>1, <1>2, <1>3, <1>4, <1>5, <1>6 DEF ExperimentNext

\* A byte is written to the daemon, or lost.
LEMMA WritingStep ==
    ASSUME MonP!IInv, WellInv, sent["load"] <= 2, NEW b \in {"[", "]", "q"}, Writing(b),
           UNCHANGED <<server, st, kern, alive, reply, fails, span>>
    PROVE  [MonP!Next]_(MonP!vars)
<1>1. CASE Linked
  <2>1. b \in MonP!Bytes
    BY DEF MonP!Bytes
  <2>2. server = "up" /\ conn["load"] = "open" /\ alive["load"] /\ sent["load"] < MaxBytes["load"]
    BY <1>1, MonitorTypes DEF Linked, WellInv
  <2>3. /\ inbox' = [inbox EXCEPT !["load"] = Append(@, b)]
        /\ sent' = [sent EXCEPT !["load"] = @ + 1]
        /\ UNCHANGED conn
    BY <1>1 DEF Writing
  <2>4. MonP!ClientSend("load")
    BY <2>1, <2>2, <2>3 DEF MonP!ClientSend
  <2> QED
    BY <2>4, MonitorTypes DEF MonP!Next
<1>2. CASE ~Linked
  BY <1>2, MonitorTypes DEF Writing, MonP!vars
<1> QED
  BY <1>1, <1>2

\* ... of statmon, or one that leaves it alone.
LEMMA MonitorSteps ==
    ASSUME IInv, AInv, MonP!IInv, XInv, [ExperimentNext]_allVars
    PROVE  [MonP!Next]_(MonP!vars)
<1>0. LinkInv /\ BytesInv /\ WellInv /\ WorkInv
  BY DEF XInv
<1>1. CASE LoadMain
  <2>0. UNCHANGED <<server, st, kern, alive, reply, fails, span>>
    BY <1>1 DEF LoadMain
  <2>1. CASE Connect /\ Linking
    <3>1. link = "none" /\ conn["load"] = "none" /\ alive["load"]
      BY <1>0, <2>1, OneHost DEF Connect, LinkInv, WellInv
    <3>2. CASE Failed
      BY <2>0, <2>1, <3>2, MonitorTypes DEF Linking, MonP!vars
    <3>3. CASE ~Failed
      <4>1. MonP!Connect("load")
        BY <2>0, <2>1, <3>1, <3>3 DEF Linking, MonP!Connect
      <4> QED
        BY <4>1, MonitorTypes DEF MonP!Next
    <3> QED
      BY <3>2, <3>3
  <2>2. CASE BeginMonitoring /\ Writing("[")
    <3>1. sent["load"] <= 2
      BY <1>0, <2>2, OneHost DEF BeginMonitoring, LinkInv, BytesInv
    <3> QED
      BY <1>0, <2>0, <2>2, <3>1, WritingStep
  <2>3. CASE EndMonitoring /\ Writing("]")
    <3>1. link = "begun"
      BY <1>0, <2>3, OneHost DEF EndMonitoring, LinkInv
    <3>2. sent["load"] <= 2
      BY <1>0, <3>1, MonitorTypes DEF BytesInv
    <3> QED
      BY <1>0, <2>0, <2>3, <3>2, WritingStep
  <2>4. CASE QuitMonitoring /\ Writing("q")
    <3>1. sent["load"] <= 2
      BY <1>0, <2>4, OneHost DEF QuitMonitoring, LinkInv, BytesInv
    <3> QED
      BY <1>0, <2>0, <2>4, <3>1, WritingStep
  <2>5. CASE UNCHANGED <<conn, inbox, sent>>
    BY <2>0, <2>5 DEF MonP!vars
  <2> QED
    BY <1>1, <2>1, <2>2, <2>3, <2>4, <2>5 DEF LoadMain, ReadingLine
<1>2. ASSUME NEW f \in Functions, LoadFunction(f) PROVE UNCHANGED MonP!vars
  BY <1>2 DEF LoadFunction, LoadTask, MonP!vars
<1>3. ASSUME NEW f \in Functions, NEW i \in DOMAIN reqs[f], LoadRequest(f, i)
      PROVE  UNCHANGED MonP!vars
  BY <1>3 DEF LoadRequest, LoadTask, MonP!vars
<1>4. CASE LoadProgress
  BY <1>4 DEF LoadProgress, LoadTask, MonP!vars
<1>5. ASSUME NEW f \in Functions, NEW i \in DOMAIN reqs[f], Execute(f, i) PROVE MonP!Next
  <2>1. i \notin executed[f] /\ executed' = [executed EXCEPT ![f] = @ \cup {i}]
    BY <1>5 DEF Execute
  <2>2. Executed' = Executed + 1 /\ Executed' <= SUM(Total, Functions)
    BY <1>0, <2>1, ExecuteOne
  <2>3. SUM(Total, Functions) < MaxWork /\ MaxWork \in Nat /\ SUM(Total, Functions) \in Int
    <3>1. \A f_1 \in Functions : Total[f_1] \in Int
      BY LoadAssumption
    <3>2. SUM(Total, Functions) \in Int
      BY <3>1, LoadAssumption, SumIsInt
    <3> QED
      BY <3>2, ExperimentAssumption, MonitorConstants DEF SUM, MonP!StatMonAssumption
  <2>4. kern.work < MaxWork
    BY <1>0, <2>2, <2>3, ExecutedFacts DEF WorkInv
  <2>5. MonP!HostWork
    BY <1>5, <2>4 DEF Execute, Mon!Work, MonP!Work, MonP!HostWork
  <2> QED
    BY <2>5 DEF MonP!Next
<1>6. CASE MonStep
  <2>1. \/ Mon!Boot \/ Mon!Tick
        \/ \E c \in Clients : Mon!Handle(c) \/ Mon!Connect(c) \/ Mon!ClientSend(c)
    BY <1>6, MonitorTypes DEF MonStep
  <2> QED
    BY <2>1, SameMonitor DEF MonP!Next
<1>7. CASE ExperimentOver \/ UNCHANGED allVars
  BY <1>7 DEF ExperimentOver, allVars, monVars, MonP!vars
<1> QED
  BY <1>1, <1>2, <1>3, <1>4, <1>5, <1>6, <1>7 DEF ExperimentNext

------------------------------------------------------------------------------
(* The invariant: its begin, and the steps of async_main *)

\* It holds before the first step.
LEMMA InitXInv == ExperimentInit => XInv
<1> SUFFICES ASSUME ExperimentInit PROVE XInv
  OBVIOUS
<1>1. /\ mpc = "connect" /\ host = 1 /\ link = "none" /\ exit = "running"
      /\ opts = [oneshot |-> FALSE, dry_run |-> FALSE, time |-> "positive", idle |-> {}]
      /\ reqs = [f \in Functions |-> <<>>]
  BY ExperimentAssumption DEF ExperimentInit, Init, link
<1>2. /\ conn["load"] = "none" /\ alive["load"] /\ box = <<>> /\ sent["load"] = 0
      /\ reply["load"] = [kind |-> "none"] /\ span.owner = "nobody" /\ kern.work = 1
      /\ executed = [f \in Functions |-> {}] /\ early = 0
  BY DEF ExperimentInit, Mon!Init, Mon!NoReply, Mon!NoSpan, Mon!NewHost, Clients, box
<1>3. Executed = 0
  <2> DEFINE u == [f \in Functions |-> Cardinality(executed[f])]
  <2>1. \A f \in Functions : u[f] = 0
    BY <1>2, FS_EmptySet
  <2> HIDE DEF u
  <2>2. SUM(u, Functions) = 0
    BY <2>1, LoadAssumption, SumOfZeros
  <2> QED
    BY <2>2 DEF Executed, u
<1>4. LinkInv /\ BytesInv /\ WellInv
  BY <1>1, <1>2 DEF LinkInv, BytesInv, WellInv, LostOnlyByFailure, link
<1>5. WorkInv
  BY <1>1, <1>2, <1>3 DEF WorkInv
<1>6. SpanInv /\ ReplyInv
  BY <1>1, <1>2, <1>3 DEF SpanInv, ReplyInv
<1> QED
  BY <1>4, <1>5, <1>6 DEF XInv

\* What a step of async_main does with the connection.
MainMoves ==
    \/ link = "none" /\ Linking /\ link' = IF Failed THEN "none" ELSE "open"
    \/ link = "open" /\ Writing("[") /\ link' = IF Failed THEN "open" ELSE "begun"
    \/ link = "begun" /\ Writing("]") /\ link' = IF Failed THEN "begun" ELSE "ended"
    \/ /\ link = "ended" /\ ReadingLine
       /\ IF Failed THEN link' = "ended" ELSE link' \in {"line", "eof"}
    \/ /\ link \in {"line", "eof"} /\ Writing("q")
       /\ link' = IF Failed THEN link ELSE "closed"
    \/ UNCHANGED <<link, conn, inbox, sent>> /\ ~Failed

\* It is where its control state says.
LEMMA MainLink ==
    ASSUME IInv, LinkInv, LoadMain
    PROVE  LinkInv' /\ MainMoves
<1>0. exit = "running"
  BY DEF LoadMain
<1>1. CASE Connect /\ Linking
  BY <1>0, <1>1, OneHost DEF Connect, Exit, LinkInv, MainMoves, link, Failed
<1>2. CASE BeginMonitoring /\ Writing("[")
  BY <1>0, <1>2, OneHost DEF BeginMonitoring, Exit, LinkInv, MainMoves, link, Failed
<1>3. CASE EndMonitoring /\ Writing("]")
  BY <1>0, <1>3, OneHost DEF EndMonitoring, Exit, LinkInv, MainMoves, link, Failed
<1>4. CASE ReadLine /\ ReadingLine
  <2>1. host = 1
    BY <1>4, OneHost DEF ReadLine, IInv, MonitorInv
  <2> QED
    BY <1>0, <1>4, <2>1, OneHost DEF ReadLine, Exit, LinkInv, MainMoves, link, Failed
<1>5. CASE QuitMonitoring /\ Writing("q")
  <2>1. host = 1
    BY <1>5, OneHost DEF QuitMonitoring, IInv, MonitorInv
  <2> QED
    BY <1>0, <1>5, <2>1, OneHost DEF QuitMonitoring, Exit, LinkInv, MainMoves, link, Failed
<1>6. CASE (AwaitTests \/ TestsDone \/ MonitoringStarted) /\ UNCHANGED <<conn, inbox, sent>>
  BY <1>0, <1>6, OneHost
     DEF AwaitTests, TestsDone, MonitoringStarted, Exit, LinkInv, MainMoves, link, Failed
<1>7. CASE (AwaitTotals \/ SpawnProgress \/ RequestsFinished) /\ UNCHANGED <<conn, inbox, sent>>
  BY <1>0, <1>7, OneHost
     DEF AwaitTotals, SpawnProgress, RequestsFinished, LinkInv, MainMoves, link, Failed
<1>8. CASE (AwaitTasks \/ Report) /\ UNCHANGED <<conn, inbox, sent>>
  BY <1>0, <1>8, OneHost
     DEF AwaitTasks, Report, mainVars, Exit, LinkInv, MainMoves, link, Failed
<1> QED
  BY <1>1, <1>2, <1>3, <1>4, <1>5, <1>6, <1>7, <1>8 DEF LoadMain

\* What was written is what the daemon has still to read, or lost.
LEMMA WritingBox ==
    ASSUME MonP!IInv, NEW b, Writing(b)
    PROVE  /\ box' = box \/ box' = Append(box, b)
           /\ sent'["load"] \in Nat /\ sent'["load"] <= sent["load"] + 1
           /\ UNCHANGED conn /\ (Failed => ~Linked)
  BY MonitorTypes DEF Writing, box

\* The bytes of the connection.
LEMMA BytesAppended ==
    /\ Append(<<>>, "[") \in Begun
    /\ \A s \in Begun : Append(s, "]") \in Closing
    /\ \A s \in Closing : Append(s, "q") \in Quitting
    /\ <<>> \in Begun /\ Begun \subseteq Closing /\ Closing \subseteq Quitting
<1>1. \A a : Append(<<>>, a) = <<a>>
  OBVIOUS
<1>2. \A a, b : Append(<<a>>, b) = <<a, b>>
  BY AppendToOne
<1>3. \A a, b, c : Append(<<a, b>>, c) = <<a, b, c>>
  BY AppendToTwo
<1>4. \A s \in Begun : Append(s, "]") \in Closing
  BY <1>1, <1>2 DEF Begun, Closing
<1>5. ASSUME NEW s \in Closing PROVE Append(s, "q") \in Quitting
  <2>1. s \in {<<>>, <<"[">>, <<"]">>, <<"[", "]">>}
    BY DEF Closing, Begun
  <2>2. {<<"q">>, <<"]", "q">>, <<"[", "q">>, <<"[", "]", "q">>} \subseteq Quitting
    BY DEF Quitting
  <2> QED
    BY <1>1, <1>2, <1>3, <2>1, <2>2, ZenonT(60)
<1> QED
  BY <1>1, <1>4, <1>5 DEF Begun, Closing, Quitting

\* Appending another byte makes no '[' pending, and takes none away.
LEMMA PendingAppend ==
    ASSUME MonP!IInv, NEW b, b # "[", Writing(b)
    PROVE  Pending("[")' <=> Pending("[")
<1>1. box \in Seq(MonP!Bytes)
  BY MonitorTypes DEF box
<1>2. CASE box' = box
  BY <1>2 DEF Pending, box
<1>3. CASE box' = Append(box, b)
  <2>1. DOMAIN box' = 1..(Len(box) + 1) /\ DOMAIN box = 1..Len(box) /\ Len(box) \in Nat
    BY <1>1, <1>3
  <2>2. box'[Len(box) + 1] = b /\ \A k \in 1..Len(box) : box'[k] = box[k]
    BY <1>1, <1>3
  <2> QED
    BY <2>1, <2>2, SMTT(60) DEF Pending, box
<1> QED
  BY <1>2, <1>3, WritingBox

\* async_main keeps the invariant.
LEMMA MainXStep ==
    ASSUME IInv, AInv, MonP!IInv, XInv, LoadMain
    PROVE  XInv'
<1>0. LinkInv /\ BytesInv /\ WellInv /\ WorkInv /\ SpanInv /\ ReplyInv
  BY DEF XInv
<1>1. LinkInv' /\ MainMoves
  BY <1>0, MainLink
<1>2. /\ UNCHANGED <<server, st, kern, alive, reply, fails, span, executed, early, reqs>>
      /\ exit = "running"
  BY DEF LoadMain, hostVars, Connect, AwaitTests, TestsDone, BeginMonitoring,
         MonitoringStarted, AwaitTotals, SpawnProgress, RequestsFinished, EndMonitoring,
         ReadLine, QuitMonitoring, AwaitTasks, Report
<1>3. sent["load"] \in Nat /\ fails \in Nat
  BY MonitorTypes
<1>4. Executed' = Executed /\ Answered' = Answered
  BY <1>2 DEF Executed, Answered, Count
<1>5. WorkInv'
  BY <1>0, <1>2, <1>4 DEF WorkInv
<1>6. BytesInv' /\ WellInv' /\ SpanInv'
  <2>1. CASE link = "none" /\ Linking /\ link' = IF Failed THEN "none" ELSE "open"
    <3>1. box' = box /\ sent' = sent /\ (~Failed => conn'["load"] = "open" /\ server = "up")
          /\ (Failed => conn'["load"] = conn["load"])
      BY <2>1, MonitorTypes DEF Linking, box
    <3>2. Pending("[")' <=> Pending("[")
      BY <2>1 DEF Pending, Linking
    <3>3. link' = "none" \/ link' = "open"
      BY <2>1
    <3>4. BytesInv'
      BY <1>0, <2>1, <3>1, <3>3 DEF BytesInv
    <3>5. WellInv'
      BY <1>0, <1>2, <2>1, <3>1 DEF WellInv, LostOnlyByFailure, Linked, Failed, link
    <3>6. SpanInv'
      BY <1>0, <1>2, <1>4, <2>1, <3>2, <3>3 DEF SpanInv
    <3> QED
      BY <3>4, <3>5, <3>6
  <2>2. CASE link = "open" /\ Writing("[") /\ link' = IF Failed THEN "open" ELSE "begun"
    <3>1. /\ box = <<>> /\ sent["load"] = 0
          /\ Linked => box' = <<"[">> /\ sent'["load"] = 1
          /\ ~Linked => box' = <<>> /\ sent'["load"] = 0
          /\ UNCHANGED conn /\ (Failed => ~Linked)
      <4>1. box = <<>> /\ sent["load"] = 0
        BY <1>0, <2>2 DEF BytesInv
      <4>2. Append(box, "[") = <<"[">>
        BY <4>1
      <4>3. /\ box' = IF Linked THEN Append(box, "[") ELSE box
            /\ sent'["load"] = IF Linked THEN sent["load"] + 1 ELSE sent["load"]
            /\ UNCHANGED conn /\ (Failed => ~Linked)
        BY <2>2, MonitorTypes DEF Writing, box
      <4> QED
        BY <4>1, <4>2, <4>3
    <3>2. ~Pending("[") /\ early = Executed /\ span.owner # "load"
      BY <1>0, <2>2, <3>1 DEF SpanInv, Pending, box
    <3>4. BytesInv'
      BY <2>2, <3>1 DEF BytesInv, Begun
    <3>5. WellInv'
      BY <1>0, <1>2, <1>3, <2>2, <3>1 DEF WellInv, LostOnlyByFailure, Linked, Failed, link
    <3>6. SpanInv'
      BY <1>2, <1>4, <3>2 DEF SpanInv
    <3> QED
      BY <3>4, <3>5, <3>6
  <2>3. CASE link = "begun" /\ Writing("]") /\ link' = IF Failed THEN "begun" ELSE "ended"
    <3>1. /\ box \in Begun /\ sent["load"] <= 1
          /\ UNCHANGED conn /\ (Failed => ~Linked)
          /\ Failed => box' = box /\ sent' = sent
          /\ box' = box \/ box' = Append(box, "]")
          /\ sent'["load"] \in Nat /\ sent'["load"] <= 2
      BY <1>0, <1>3, <2>3, WritingBox, MonitorTypes DEF BytesInv, Writing, box
    <3>2. Pending("[")' <=> Pending("[")
      BY <2>3, PendingAppend
    <3>3. box' \in Closing
      BY <3>1, BytesAppended
    <3>4. BytesInv'
      BY <2>3, <3>1, <3>3 DEF BytesInv
    <3>5. WellInv'
      BY <1>0, <1>2, <1>3, <2>3, <3>1 DEF WellInv, LostOnlyByFailure, Linked, Failed, link
    <3>6. SpanInv'
      BY <1>0, <1>2, <1>4, <2>3, <3>2 DEF SpanInv
    <3> QED
      BY <3>4, <3>5, <3>6
  <2>4. CASE /\ link = "ended" /\ ReadingLine
             /\ IF Failed THEN link' = "ended" ELSE link' \in {"line", "eof"}
    <3>1. UNCHANGED <<conn, inbox, sent>> /\ (link' # "line" => ~Linked)
      BY <2>4 DEF ReadingLine, link
    <3>2. Pending("[")' <=> Pending("[")
      BY <3>1 DEF Pending
    <3>3. link' \in {"ended", "line", "eof"}
      BY <2>4
    <3>4. BytesInv'
      BY <1>0, <2>4, <3>1, <3>3 DEF BytesInv, box
    <3>5. WellInv'
      BY <1>0, <1>2, <1>3, <2>4, <3>1, <3>3 DEF WellInv, LostOnlyByFailure, Linked, Failed, link
    <3>6. SpanInv'
      BY <1>0, <1>2, <1>4, <2>4, <3>2, <3>3 DEF SpanInv
    <3> QED
      BY <3>4, <3>5, <3>6
  <2>5. CASE /\ link \in {"line", "eof"} /\ Writing("q")
             /\ link' = IF Failed THEN link ELSE "closed"
    <3>1. /\ box \in Closing /\ sent["load"] <= 2
          /\ UNCHANGED conn /\ (Failed => ~Linked)
          /\ Failed => box' = box /\ sent' = sent
          /\ box' = box \/ box' = Append(box, "q")
      BY <1>0, <1>3, <2>5, WritingBox, MonitorTypes DEF BytesInv, Writing, box
    <3>2. Pending("[")' <=> Pending("[")
      BY <2>5, PendingAppend
    <3>3. box' \in Quitting
      BY <3>1, BytesAppended
    <3>4. BytesInv'
      BY <2>5, <3>1, <3>3 DEF BytesInv
    <3>5. WellInv'
      BY <1>0, <1>2, <1>3, <2>5, <3>1 DEF WellInv, LostOnlyByFailure, Linked, Failed, link
    <3>6. SpanInv'
      BY <1>0, <1>2, <1>4, <2>5, <3>2 DEF SpanInv
    <3> QED
      BY <3>4, <3>5, <3>6
  <2>6. CASE UNCHANGED <<link, conn, inbox, sent>> /\ ~Failed
    <3>1. BytesInv'
      BY <1>0, <2>6 DEF BytesInv, box
    <3>2. WellInv'
      BY <1>0, <1>2, <2>6 DEF WellInv, LostOnlyByFailure, Linked, Failed, link
    <3>3. SpanInv'
      BY <1>0, <1>2, <1>4, <2>6 DEF SpanInv, Pending
    <3> QED
      BY <3>1, <3>2, <3>3
  <2> QED
    BY <1>1, <2>1, <2>2, <2>3, <2>4, <2>5, <2>6 DEF MainMoves
<1>7. ReplyInv'
  <2>1. link \in Ended => link' \in Ended
    BY <1>1 DEF MainMoves, Ended
  <2> QED
    BY <1>0, <1>2, <1>4, <2>1 DEF ReplyInv
<1> QED
  BY <1>1, <1>5, <1>6, <1>7 DEF XInv

------------------------------------------------------------------------------
(* ... the other tasks and the host *)

\* A step that only moves the load generator's other tasks.
LEMMA TaskFrame ==
    ASSUME XInv, UNCHANGED <<opts, mpc, host, mlink>>, UNCHANGED monVars, UNCHANGED hostVars,
           exit' # "err", WorkInv', link \in Ended => reqs' = reqs
    PROVE  XInv'
<1>1. LinkInv' /\ BytesInv'
  BY DEF XInv, LinkInv, BytesInv, link, box, monVars
<1>2. WellInv'
  BY DEF XInv, WellInv, LostOnlyByFailure, Linked, link, monVars
<1>3. Executed' = Executed
  BY DEF Executed, hostVars
<1>4. SpanInv'
  BY <1>3 DEF XInv, SpanInv, Pending, link, monVars, hostVars
<1>5. reqs' = reqs => Answered' = Answered
  BY DEF Answered, Count
<1>6. ReplyInv'
  BY <1>5 DEF XInv, ReplyInv, link, monVars, hostVars
<1> QED
  BY <1>1, <1>2, <1>4, <1>6 DEF XInv

\* The host's books when nothing of the requests changes.
LEMMA WorkFrame ==
    ASSUME XInv, UNCHANGED <<reqs, kern, executed, early>>
    PROVE  WorkInv'
<1>1. Executed' = Executed
  BY DEF Executed
<1> QED
  BY <1>1 DEF XInv, WorkInv

\* The function tasks keep the invariant.
LEMMA FunctionXStep ==
    ASSUME IInv, XInv, NEW f \in Functions, LoadFunction(f)
    PROVE  XInv'
<1>1. UNCHANGED monVars /\ UNCHANGED hostVars /\ exit = "running" /\ RunFunction(f)
  BY DEF LoadFunction, LoadTask, monVars
<1>2. UNCHANGED <<opts, mpc, host, mlink>> /\ exit' # "err"
  BY <1>1 DEF RunFunction, TestRequest, AwaitMonitoring, RefuseTime, AddTotal, RefuseRate,
              StartSending, Generate, StartJoining, Join, AwaitFinish, Return, mainVars, Exit
<1>3. CASE Generate(f)
  <2> DEFINE v == NextNdpVar(ndp_var[f], Den)
             r == [pool |-> which_request[f], ndp |-> AllowNdp(v, Num[f], Den),
                   st |-> "spawned"]
  <2>1. Len(reqs[f]) < Planned(f) /\ reqs' = [reqs EXCEPT ![f] = Append(@, r)]
    BY <1>3 DEF Generate
  <2>2. r.st = "spawned"
    OBVIOUS
  <2> HIDE DEF r
  <2>3. LinkInv /\ WorkInv
    BY DEF XInv
  <2>4. reqs \in [Functions -> Seq(Request)]
    BY <2>3, OneHost
  <2>5. PICK t : t = reqs'[f]
    OBVIOUS
  <2>6. t = Append(reqs[f], r) /\ \A g \in Functions : g # f => reqs'[g] = reqs[g]
    BY <2>1, <2>4, <2>5
  <2>7. /\ DOMAIN reqs[f] = 1..Len(reqs[f]) /\ Len(reqs[f]) \in Nat
        /\ DOMAIN t = 1..(Len(reqs[f]) + 1)
        /\ t[Len(reqs[f]) + 1] = r
        /\ \A i \in 1..Len(reqs[f]) : t[i] = reqs[f][i]
    BY <2>4, <2>6
  <2>8. link \notin Ended
    <3>1. Planned(f) \in Nat
      BY <2>3, AllPlanned
    <3> QED
      BY <2>1, <2>3, <2>7, <3>1, Inside
  <2>9. WorkInv'
    <3>1. Executed' = Executed /\ UNCHANGED <<executed, kern, early>>
      BY <1>1 DEF Executed, monVars, hostVars
    <3>2. DOMAIN reqs[f] \subseteq DOMAIN t
      BY <2>7
    <3>3. \A i \in DOMAIN t : t[i].st = "ok" => i \in executed[f]
      BY <2>2, <2>3, <2>7, SMTT(60) DEF WorkInv
    <3>4. executed[f] \subseteq DOMAIN t
      BY <2>3, <3>2 DEF WorkInv
    <3>5. \A g \in Functions : executed'[g] \subseteq DOMAIN reqs'[g]
      BY <2>3, <2>5, <2>6, <3>1, <3>4 DEF WorkInv
    <3>6. \A g \in Functions : \A i \in DOMAIN reqs'[g] :
             reqs'[g][i].st = "ok" => i \in executed'[g]
      BY <2>3, <2>5, <2>6, <3>1, <3>3 DEF WorkInv
    <3> QED
      BY <2>3, <3>1, <3>5, <3>6 DEF WorkInv
  <2> QED
    BY <1>1, <1>2, <2>8, <2>9, TaskFrame
<1>4. CASE ~Generate(f)
  <2>1. reqs' = reqs
    BY <1>1, <1>4 DEF RunFunction, TestRequest, AwaitMonitoring, RefuseTime, AddTotal,
                      RefuseRate, StartSending, StartJoining, Join, AwaitFinish, Return
  <2>2. WorkInv'
    BY <1>1, <2>1, WorkFrame DEF monVars, hostVars
  <2> QED
    BY <1>1, <1>2, <2>1, <2>2, TaskFrame
<1> QED
  BY <1>3, <1>4

\* The request tasks keep it: an answer is one to a request that was executed.
LEMMA RequestXStep ==
    ASSUME IInv, XInv, NEW f \in Functions, NEW i \in DOMAIN reqs[f], LoadRequest(f, i)
    PROVE  XInv'
<1>1. UNCHANGED monVars /\ UNCHANGED hostVars /\ exit = "running" /\ RequestTask(f, i)
      /\ (reqs'[f][i].st = "ok" => i \in executed[f])
  BY DEF LoadRequest, LoadTask, monVars
<1>2. UNCHANGED <<opts, mpc, host, mlink>> /\ exit' # "err"
  BY <1>1 DEF RequestTask, Send, Receive, Fail, mainVars
<1>3. LinkInv /\ WorkInv
  BY DEF XInv
<1>4. reqs \in [Functions -> Seq(Request)]
  BY <1>3, OneHost
<1>5. link \notin Ended
  BY <1>1, <1>3, Inside DEF RequestTask, Send, Receive, Fail, Finished
<1>6. PICK s : reqs' = [reqs EXCEPT ![f][i].st = s]
  BY <1>1 DEF RequestTask, Send, Receive, Fail, SetRequest
<1>7. /\ \A g \in Functions : DOMAIN reqs'[g] = DOMAIN reqs[g]
      /\ \A g \in Functions : \A j \in DOMAIN reqs[g] :
            (g # f \/ j # i) => reqs'[g][j] = reqs[g][j]
  BY <1>4, <1>6
<1>8. WorkInv'
  <2>1. Executed' = Executed /\ UNCHANGED <<executed, kern, early>>
    BY <1>1 DEF Executed, monVars, hostVars
  <2>2. ASSUME NEW g \in Functions, NEW j \in DOMAIN reqs'[g], reqs'[g][j].st = "ok"
        PROVE  j \in executed'[g]
    <3>1. CASE g = f /\ j = i
      BY <1>1, <2>1, <2>2, <3>1
    <3>2. CASE g # f \/ j # i
      BY <1>3, <1>7, <2>1, <2>2, <3>2 DEF WorkInv
    <3> QED
      BY <3>1, <3>2
  <2> QED
    BY <1>3, <1>7, <2>1, <2>2 DEF WorkInv
<1> QED
  BY <1>1, <1>2, <1>5, <1>8, TaskFrame

\* So does the progress task.
LEMMA ProgressXStep ==
    ASSUME XInv, LoadProgress
    PROVE  XInv'
<1>1. UNCHANGED monVars /\ UNCHANGED hostVars /\ exit = "running" /\ ProgressCheck
  BY DEF LoadProgress, LoadTask, monVars
<1>2. UNCHANGED <<opts, mpc, host, mlink, reqs>> /\ exit' # "err"
  BY <1>1 DEF ProgressCheck, mainVars
<1>3. WorkInv'
  BY <1>1, <1>2, WorkFrame DEF monVars, hostVars
<1> QED
  BY <1>1, <1>2, <1>3, TaskFrame

\* The host, when it executes a request.
LEMMA ExecuteXStep ==
    ASSUME IInv, AInv, MonP!IInv, XInv, NEW f \in Functions, NEW i \in DOMAIN reqs[f],
           Execute(f, i)
    PROVE  XInv'
<1>0. LinkInv /\ BytesInv /\ WellInv /\ WorkInv /\ SpanInv /\ ReplyInv
  BY DEF XInv
<1>1. /\ UNCHANGED <<opts, exit, mpc, host, mlink, reqs>>
      /\ UNCHANGED <<server, conn, alive, inbox, sent, reply, fails, span>>
      /\ i \notin executed[f] /\ executed' = [executed EXCEPT ![f] = @ \cup {i}]
      /\ early' = IF Pending("[") THEN early + 1 ELSE early
  BY DEF Execute, loadVars, vars, mainVars
<1>2. Executed' = Executed + 1 /\ Executed \in Int /\ early \in Nat
  BY <1>0, <1>1, ExecuteOne, ExecutedFacts DEF WorkInv
<1>3. kern'.work = kern.work + 1
  <2>1. kern \in MonP!Host
    BY DEF MonP!IInv, MonP!Books, MonP!HostInv
  <2> QED
    BY <2>1 DEF Execute, Mon!Work, MonP!Host
<1>4. LinkInv' /\ BytesInv' /\ WellInv'
  BY <1>0, <1>1 DEF LinkInv, BytesInv, WellInv, LostOnlyByFailure, Linked, link, box
<1>5. WorkInv'
  <2>1. executed \in [Functions -> SUBSET Nat] /\ i \in Nat
    BY <1>0, OneHost DEF WorkInv
  <2>2. executed' \in [Functions -> SUBSET Nat]
    BY <1>1, <2>1
  <2>3. executed'[f] = executed[f] \cup {i} /\ \A g \in Functions : g # f => executed'[g] = executed[g]
    BY <1>1, <2>1
  <2>4. \A g \in Functions : executed[g] \subseteq executed'[g] /\ executed'[g] \subseteq DOMAIN reqs[g]
    BY <1>0, <2>3 DEF WorkInv
  <2>5. early' \in Nat /\ kern'.work = 1 + Executed'
    BY <1>0, <1>1, <1>2, <1>3, MonitorTypes DEF WorkInv
  <2> QED
    BY <1>0, <1>1, <2>2, <2>4, <2>5 DEF WorkInv
<1>6. SpanInv'
  <2>1. link \notin {"none", "open"} /\ link' = link
    BY <1>0, <1>1, Inside DEF link
  <2>2. Pending("[")' <=> Pending("[")
    BY <1>1 DEF Pending
  <2> QED
    BY <1>0, <1>1, <1>2, <2>1, <2>2 DEF SpanInv
<1>7. ReplyInv'
  <2>1. Answered' = Answered /\ link' = link /\ Answered \in Int
    BY <1>0, <1>1, ExecutedFacts DEF Answered, Count, link
  <2>2. reply["load"].kind = "measured" => reply["load"].work + early' >= Answered
    <3> SUFFICES ASSUME reply["load"].kind = "measured"
                 PROVE  reply["load"].work + early' >= Answered
      OBVIOUS
    <3>1. reply["load"].work \in Int
      BY <1>0 DEF ReplyInv
    <3> QED
      BY <1>0, <1>1, <1>2, <2>1, <3>1 DEF ReplyInv
  <2> QED
    BY <1>0, <1>1, <2>1, <2>2 DEF ReplyInv
<1> QED
  BY <1>4, <1>5, <1>6, <1>7 DEF XInv

------------------------------------------------------------------------------
(* ... and statmon *)

\* What is read first of '[', ']' and 'q', and what is left then: a '[' only in
\* the first place.
LEMMA BytesRead ==
    ASSUME NEW s \in Quitting, s # <<>>
    PROVE  /\ Head(s) \in {"[", "]", "q"}
           /\ s \in Closing => Head(s) # "q" /\ Tail(s) \in Closing
           /\ s \in Begun => Head(s) = "[" /\ Tail(s) \in Begun
           /\ Tail(s) \in Quitting
           /\ Head(s) = "[" => \E k \in DOMAIN s : s[k] = "["
           /\ ~ \E k \in DOMAIN Tail(s) : Tail(s)[k] = "["
<1>1. ASSUME NEW a PROVE Head(<<a>>) = a /\ Tail(<<a>>) = <<>> /\ <<a>>[1] = a /\ 1 \in DOMAIN <<a>>
  BY TailOfOne
<1>2. ASSUME NEW a, NEW b
      PROVE  Head(<<a, b>>) = a /\ Tail(<<a, b>>) = <<b>> /\ <<a, b>>[1] = a /\ 1 \in DOMAIN <<a, b>>
  BY TailOfTwo
<1>3. ASSUME NEW a, NEW b, NEW c
      PROVE  /\ Head(<<a, b, c>>) = a /\ Tail(<<a, b, c>>) = <<b, c>>
             /\ <<a, b, c>>[1] = a /\ 1 \in DOMAIN <<a, b, c>>
  BY TailOfThree
<1>4. /\ ~ \E k \in DOMAIN <<>> : <<>>[k] = "["
      /\ \A a : a # "[" => ~ \E k \in DOMAIN <<a>> : <<a>>[k] = "["
      /\ ~ \E k \in DOMAIN <<"]", "q">> : <<"]", "q">>[k] = "["
  OBVIOUS
<1>5. /\ Begun = {<<>>, <<"[">>}
      /\ Closing = {<<>>, <<"[">>, <<"]">>, <<"[", "]">>}
      /\ Quitting = {<<>>, <<"[">>, <<"]">>, <<"[", "]">>, <<"q">>, <<"]", "q">>, <<"[", "q">>,
                     <<"[", "]", "q">>}
  BY DEF Begun, Closing, Quitting
<1>6. CASE s = <<"[">>
  BY <1>1, <1>4, <1>5, <1>6
<1>7. CASE s = <<"]">>
  BY <1>1, <1>4, <1>5, <1>7
<1>8. CASE s = <<"q">>
  BY <1>1, <1>4, <1>5, <1>8
<1>9. CASE s = <<"[", "]">>
  BY <1>2, <1>4, <1>5, <1>9
<1>10. CASE s = <<"[", "q">>
  BY <1>2, <1>4, <1>5, <1>10
<1>11. CASE s = <<"]", "q">>
  BY <1>2, <1>4, <1>5, <1>11
<1>12. CASE s = <<"[", "]", "q">>
  BY <1>3, <1>4, <1>5, <1>12
<1> QED
  BY <1>5, <1>6, <1>7, <1>8, <1>9, <1>10, <1>11, <1>12

\* How the daemon's mishaps and ranges concern the load generator.
DaemonMoves ==
    /\ UNCHANGED <<kern, alive>>
    /\ fails' \in Nat /\ fails' >= fails
    /\ fails' = fails /\ server = "up" => server' = "up"

RangeKept == span'.owner = "load" => span.owner = "load" /\ span'.begin = span.begin

\* A span is a record, of which a failing update changes what was lost.
LEMMA SpanLost ==
    ASSUME MonP!IInv, NEW fail, Mon!UpdateFails(fail)
    PROVE  RangeKept /\ fails' \in Nat /\ fails' = fails + 1
<1>1. span \in MonP!Spans
  BY DEF MonP!IInv, MonP!Books
<1>2. span' = span \/ span' = [span EXCEPT !.lost = @ \cup Mon!Lost(fail)]
  BY DEF Mon!UpdateFails
<1>3. span'.owner = span.owner /\ span'.begin = span.begin
  BY <1>1, <1>2 DEF MonP!Spans
<1> QED
  BY <1>3, MonitorTypes DEF Mon!UpdateFails, RangeKept

\* What the timer and the other clients do does not touch the connection.
LEMMA OthersMove ==
    ASSUME MonP!IInv,
           \/ Mon!Boot \/ Mon!Tick
           \/ \E c \in Others : Mon!Handle(c) \/ Mon!Connect(c) \/ Mon!ClientSend(c)
    PROVE  /\ DaemonMoves /\ RangeKept
           /\ box' = box /\ sent'["load"] = sent["load"]
           /\ conn'["load"] = conn["load"] /\ reply'["load"] = reply["load"]
<1> USE DEF box
<1>0. /\ fails \in Nat /\ conn \in [Clients -> {"none", "open", "closed"}]
      /\ DOMAIN inbox = Clients /\ sent \in [Clients -> Nat] /\ DOMAIN reply = Clients
      /\ inbox \in [Clients -> Seq(MonP!Bytes)]
      /\ "load" \in Clients /\ \A c \in Others : c # "load"
  BY MonitorTypes
<1>1. CASE Mon!Boot \/ Mon!Tick
  BY <1>0, <1>1 DEF Mon!Boot, Mon!Tick, Mon!Die, DaemonMoves, RangeKept
<1>2. ASSUME NEW c \in Others, Mon!Connect(c) \/ Mon!ClientSend(c)
      PROVE  /\ DaemonMoves /\ RangeKept
             /\ box' = box /\ sent'["load"] = sent["load"]
             /\ conn'["load"] = conn["load"] /\ reply'["load"] = reply["load"]
  BY <1>0, <1>2 DEF Mon!Connect, Mon!ClientSend, DaemonMoves, RangeKept
<1>3. ASSUME NEW c \in Others, Mon!Handle(c)
      PROVE  /\ DaemonMoves /\ RangeKept
             /\ box' = box /\ sent'["load"] = sent["load"]
             /\ conn'["load"] = conn["load"] /\ reply'["load"] = reply["load"]
  <2>0. c # "load"
    BY <1>0
  <2>1. CASE Mon!Begin(c)
    BY <1>0, <2>0, <2>1 DEF Mon!Begin, Mon!Take, DaemonMoves, RangeKept
  <2>2. CASE Mon!End(c)
    <3>1. Mon!NoSpan.owner = "nobody"
      BY DEF Mon!NoSpan
    <3>2. PICK packet : Mon!Write(c, packet)
      BY <2>2 DEF Mon!End
    <3>3. reply'["load"] = reply["load"] /\ conn'["load"] = conn["load"]
      BY <1>0, <2>0, <3>2 DEF Mon!Write, Mon!Close
    <3> QED
      BY <1>0, <2>0, <2>2, <3>1, <3>3, MonitorTypes DEF Mon!End, Mon!Take, DaemonMoves, RangeKept
  <2>3. CASE Mon!Query(c)
    <3>1. PICK packet : Mon!Write(c, packet)
      BY <2>3 DEF Mon!Query
    <3>2. reply'["load"] = reply["load"] /\ conn'["load"] = conn["load"]
      BY <1>0, <2>0, <3>1 DEF Mon!Write, Mon!Close
    <3> QED
      BY <1>0, <2>0, <2>3, <3>2 DEF Mon!Query, Mon!Take, DaemonMoves, RangeKept
  <2>4. CASE Mon!Quit(c) \/ Mon!OtherByte(c) \/ Mon!EndOfStream(c)
    BY <1>0, <2>0, <2>4
       DEF Mon!Quit, Mon!OtherByte, Mon!EndOfStream, Mon!Take, Mon!Close, DaemonMoves, RangeKept
  <2>5. CASE Mon!CommandFails(c)
    <3>1. RangeKept /\ fails' \in Nat /\ fails' = fails + 1
      BY <2>5, SpanLost DEF Mon!CommandFails
    <3> QED
      BY <1>0, <2>0, <2>5, <3>1 DEF Mon!CommandFails, Mon!Take, Mon!Close, DaemonMoves
  <2>6. CASE Mon!CommandPanics(c)
    BY <1>0, <2>0, <2>6 DEF Mon!CommandPanics, Mon!Take, Mon!Die, DaemonMoves, RangeKept
  <2> QED
    BY <1>3, <2>1, <2>2, <2>3, <2>4, <2>5, <2>6 DEF Mon!Handle
<1> QED
  BY <1>1, <1>2, <1>3

\* A byte of the load generator's is read.
LEMMA TakenByte ==
    ASSUME IInv, MonP!IInv, BytesInv, LinkInv, NEW b, Mon!Take("load", b),
           UNCHANGED <<mlink, sent>>
    PROVE  /\ BytesInv'
           /\ b \in {"[", "]", "q"}
           /\ b = "[" => Pending("[") /\ link \notin {"none", "open"}
           /\ b = "]" => link \in Ended
           /\ b = "q" => link = "closed"
           /\ ~Pending("[")'
<1>1. box # <<>> /\ b = Head(box) /\ box' = Tail(box)
  BY MonitorTypes DEF Mon!Take, box
<1>2. link \in Links /\ link' = link /\ sent'["load"] = sent["load"]
  BY OneHost DEF link
<1>3. box \in Quitting /\ link \notin {"none", "open"}
  BY <1>1, <1>2, BytesAppended DEF BytesInv, Links
<1>4. PICK s : s = box
  OBVIOUS
<1>5. /\ Head(s) \in {"[", "]", "q"}
      /\ s \in Closing => Head(s) # "q" /\ Tail(s) \in Closing
      /\ s \in Begun => Head(s) = "[" /\ Tail(s) \in Begun
      /\ Tail(s) \in Quitting
      /\ Head(s) = "[" => \E k \in DOMAIN s : s[k] = "["
      /\ ~ \E k \in DOMAIN Tail(s) : Tail(s)[k] = "["
  BY <1>1, <1>3, <1>4, BytesRead
<1>6. b = Head(s) /\ box' = Tail(s)
  BY <1>1, <1>4
<1>7. BytesInv'
  BY <1>2, <1>3, <1>4, <1>5, <1>6 DEF BytesInv
<1>8. b = "]" => link \in Ended
  BY <1>2, <1>3, <1>4, <1>5, <1>6 DEF BytesInv, Links, Ended
<1>9. b = "q" => link = "closed"
  BY <1>2, <1>3, <1>4, <1>5, <1>6 DEF BytesInv, Links
<1>10. ~Pending("[")' /\ (b = "[" => Pending("["))
  BY <1>4, <1>5, <1>6 DEF Pending, box
<1> QED
  BY <1>3, <1>5, <1>6, <1>7, <1>8, <1>9, <1>10

\* statmon and its other clients keep the invariant.
LEMMA OthersXStep ==
    ASSUME IInv, MonP!IInv, XInv, UNCHANGED loadVars, UNCHANGED hostVars,
           \/ Mon!Boot \/ Mon!Tick
           \/ \E c \in Others : Mon!Handle(c) \/ Mon!Connect(c) \/ Mon!ClientSend(c)
    PROVE  XInv'
<1>0. LinkInv /\ BytesInv /\ WellInv /\ WorkInv /\ SpanInv /\ ReplyInv
  BY DEF XInv
<1>1. UNCHANGED <<opts, exit, mpc, host, mlink, reqs, executed, early>>
  BY DEF loadVars, vars, mainVars, hostVars
<1>2. /\ DaemonMoves /\ RangeKept
      /\ box' = box /\ sent'["load"] = sent["load"]
      /\ conn'["load"] = conn["load"] /\ reply'["load"] = reply["load"]
  BY OthersMove
<1>3. Executed' = Executed /\ Answered' = Answered /\ link' = link
  BY <1>1 DEF Executed, Answered, Count, link
<1>4. LinkInv' /\ BytesInv'
  BY <1>0, <1>1, <1>2, <1>3 DEF LinkInv, BytesInv
<1>5. fails \in Nat /\ fails' \in Nat /\ fails' >= fails
  BY <1>2, MonitorTypes DEF DaemonMoves
<1>6. WellInv'
  BY <1>0, <1>1, <1>2, <1>3, <1>5 DEF WellInv, LostOnlyByFailure, Linked, DaemonMoves, link
<1>7. WorkInv'
  BY <1>1, <1>2, WorkFrame DEF DaemonMoves
<1>8. Pending("[")' <=> Pending("[")
  BY <1>2 DEF Pending, box
<1>9. SpanInv' /\ ReplyInv'
  BY <1>0, <1>1, <1>2, <1>3, <1>8 DEF SpanInv, ReplyInv, RangeKept
<1> QED
  BY <1>4, <1>6, <1>7, <1>9 DEF XInv

\* So does the handler of the load generator's connection.
LEMMA HandlerXStep ==
    ASSUME IInv, AInv, MonP!IInv, XInv, UNCHANGED loadVars, UNCHANGED hostVars,
           Mon!Handle("load")
    PROVE  XInv'
<1>0. LinkInv /\ BytesInv /\ WellInv /\ WorkInv /\ SpanInv /\ ReplyInv
  BY DEF XInv
<1>1. UNCHANGED <<opts, exit, mpc, host, mlink, reqs, executed, early>>
  BY DEF loadVars, vars, mainVars, hostVars
<1>2. UNCHANGED <<kern, alive, sent>> /\ alive["load"]
  BY <1>0 DEF Mon!Handle, Mon!Begin, Mon!End, Mon!Query, Mon!Quit, Mon!OtherByte,
              Mon!CommandFails, Mon!CommandPanics, Mon!EndOfStream, WellInv
<1>3. Executed' = Executed /\ Answered' = Answered /\ link' = link
  BY <1>1 DEF Executed, Answered, Count, link
<1>4. LinkInv'
  BY <1>0, <1>1, <1>3 DEF LinkInv
<1>5. WorkInv'
  BY <1>1, <1>2, WorkFrame
<1>6. /\ fails \in Nat /\ "load" \in Clients /\ DOMAIN reply = Clients
      /\ conn \in [Clients -> {"none", "open", "closed"}]
  BY MonitorTypes
<1>7. ASSUME NEW b, Mon!Take("load", b)
      PROVE  /\ BytesInv' /\ ~Pending("[")' /\ Linked
             /\ b \in {"[", "]", "q"}
             /\ b = "[" => Pending("[") /\ link \notin {"none", "open"}
             /\ b = "]" => link \in Ended
             /\ b = "q" => link = "closed"
  BY <1>0, <1>1, <1>2, <1>7, TakenByte DEF Mon!Take, Linked
\* The connection stays, or ends with a failure or 'q'.
<1>8. ASSUME fails' \in Nat, fails' >= fails,
             \/ Linked' \/ fails' > 0
             \/ link = "closed" /\ fails' = fails,
             link # "none"
      PROVE  WellInv'
  BY <1>0, <1>1, <1>2, <1>3, <1>6, <1>8 DEF WellInv, LostOnlyByFailure, link
\* The range is not moved.
<1>9. ASSUME RangeKept, ~Pending("[")', reply'["load"] = reply["load"]
      PROVE  SpanInv' /\ ReplyInv'
  BY <1>0, <1>1, <1>3, <1>9 DEF SpanInv, ReplyInv, RangeKept
<1>10. ASSUME NEW packet, Mon!Write("load", packet)
       PROVE  reply'["load"] = packet /\ UNCHANGED conn
  BY <1>2, <1>6, <1>10 DEF Mon!Write
<1>11. ASSUME NEW b, Mon!Take("load", b) PROVE link # "none"
  BY <1>0, <1>11 DEF Mon!Take, WellInv
<1>12. CASE Mon!Begin("load")
  <2>1. /\ Mon!Take("load", "[") /\ UNCHANGED <<server, conn, reply, fails>>
        /\ span' = [owner |-> "load", begin |-> kern, lost |-> {}]
    BY <1>12 DEF Mon!Begin
  <2>2. BytesInv' /\ ~Pending("[")' /\ Linked /\ Pending("[") /\ link \notin {"none", "open"}
    BY <1>7, <2>1
  <2>3. WellInv'
    BY <1>6, <1>8, <2>1, <2>2 DEF Linked
  <2>4. early = Executed /\ kern.work = 1 + Executed
    BY <1>0, <2>2 DEF SpanInv, WorkInv
  <2>5. SpanInv'
    BY <1>1, <1>3, <2>1, <2>2, <2>4 DEF SpanInv
  <2>6. ReplyInv'
    BY <1>0, <1>1, <1>3, <2>1 DEF ReplyInv
  <2> QED
    BY <1>4, <1>5, <2>2, <2>3, <2>5, <2>6 DEF XInv
<1>13. CASE Mon!End("load")
  <2>1. PICK s : Mon!Write("load", Mon!Measured("load", s))
    BY <1>13 DEF Mon!End
  <2>2. Mon!Take("load", "]") /\ UNCHANGED <<server, fails>> /\ span'.owner = "nobody"
    BY <1>13 DEF Mon!End, Mon!NoSpan
  <2>3. BytesInv' /\ ~Pending("[")' /\ Linked /\ link \in Ended
    BY <1>7, <2>2
  <2>4. reply'["load"] = Mon!Measured("load", s) /\ UNCHANGED conn
    BY <1>10, <2>1
  <2>5. WellInv'
    BY <1>6, <1>8, <1>11, <2>2, <2>3, <2>4 DEF Linked
  <2>6. SpanInv'
    <3>1. link \notin {"none", "open"}
      BY <2>3 DEF Ended
    <3> QED
      BY <1>3, <2>2, <2>3, <3>1 DEF SpanInv
  <2>7. ReplyInv'
    <3> SUFFICES ASSUME reply'["load"].kind = "measured" PROVE ReplyInv'
      BY DEF ReplyInv
    <3>1. span.owner = "load" /\ reply'["load"].work = kern.work - span.begin.work
      BY <2>4 DEF Mon!Measured
    <3>2. span.begin.work = 1 + early /\ kern.work = 1 + Executed /\ early \in Nat
      BY <1>0, <3>1 DEF SpanInv, WorkInv
    <3>3. Executed \in Int /\ Answered \in Int /\ Answered <= Executed
      BY <1>0, ExecutedFacts
    <3>4. reply'["load"].work \in Int /\ reply'["load"].work + early >= Answered
      BY <3>1, <3>2, <3>3
    <3> QED
      BY <1>1, <1>3, <2>3, <3>4 DEF ReplyInv
  <2> QED
    BY <1>4, <1>5, <2>3, <2>5, <2>6, <2>7 DEF XInv
<1>14. CASE Mon!Quit("load")
  <2>1. Mon!Take("load", "q") /\ UNCHANGED <<reply, fails, span>>
    BY <1>14 DEF Mon!Quit
  <2>2. BytesInv' /\ ~Pending("[")' /\ link = "closed"
    BY <1>7, <2>1
  <2>3. WellInv'
    BY <1>6, <1>8, <2>1, <2>2
  <2>4. RangeKept
    BY <2>1 DEF RangeKept
  <2> QED
    BY <1>4, <1>5, <1>9, <2>1, <2>2, <2>3, <2>4 DEF XInv
<1>15. CASE Mon!CommandFails("load") \/ Mon!CommandPanics("load")
  <2>1. PICK b : Mon!Take("load", b)
    BY <1>15 DEF Mon!CommandFails, Mon!CommandPanics
  <2>2. RangeKept /\ fails' = fails + 1
    BY <1>15, SpanLost DEF Mon!CommandFails, Mon!CommandPanics, Mon!Die, RangeKept
  <2>3. UNCHANGED reply
    BY <1>15 DEF Mon!CommandFails, Mon!CommandPanics
  <2>4. WellInv'
    BY <1>6, <1>8, <1>11, <2>1, <2>2
  <2> QED
    BY <1>4, <1>5, <1>7, <1>9, <2>1, <2>2, <2>3, <2>4 DEF XInv
<1>16. ~ (Mon!Query("load") \/ Mon!OtherByte("load") \/ Mon!EndOfStream("load"))
  BY <1>2, <1>7 DEF Mon!Query, Mon!OtherByte, Mon!EndOfStream
<1> QED
  BY <1>12, <1>13, <1>14, <1>15, <1>16 DEF Mon!Handle

------------------------------------------------------------------------------
(* The theorems *)

\* The invariants of both programs and of what connects them.
Invariants == IInv /\ AInv /\ MonP!IInv /\ XInv

\* They hold in the beginning.
LEMMA InitInvariants == ExperimentInit => Invariants
<1>1. ExperimentInit => Init /\ MonP!Init
  BY SameMonitor DEF ExperimentInit
<1>2. MonP!Init => MonP!IInv
  BY MonitorConstants, MonP!InitIInv
<1> QED
  BY <1>1, <1>2, InitIInv, InitAInv, InitXInv DEF Invariants

\* Every step keeps what connects them ...
LEMMA StepXInv == Invariants /\ [ExperimentNext]_allVars => XInv'
<1> SUFFICES ASSUME Invariants, [ExperimentNext]_allVars PROVE XInv'
  OBVIOUS
<1>0. IInv /\ AInv /\ MonP!IInv /\ XInv
  BY DEF Invariants
<1>1. CASE LoadMain
  BY <1>0, <1>1, MainXStep
<1>2. ASSUME NEW f \in Functions, LoadFunction(f) PROVE XInv'
  BY <1>0, <1>2, FunctionXStep
<1>3. ASSUME NEW f \in Functions, NEW i \in DOMAIN reqs[f], LoadRequest(f, i) PROVE XInv'
  BY <1>0, <1>3, RequestXStep
<1>4. ASSUME NEW f \in Functions, NEW i \in DOMAIN reqs[f], Execute(f, i) PROVE XInv'
  BY <1>0, <1>4, ExecuteXStep
<1>5. CASE LoadProgress
  BY <1>0, <1>5, ProgressXStep
<1>6. CASE MonStep
  <2>1. UNCHANGED loadVars /\ UNCHANGED hostVars
    BY <1>6 DEF MonStep
  <2>2. \/ Mon!Handle("load")
        \/ Mon!Boot \/ Mon!Tick
        \/ \E c \in Others : Mon!Handle(c) \/ Mon!Connect(c) \/ Mon!ClientSend(c)
    BY <1>6 DEF MonStep, Clients
  <2> QED
    BY <1>0, <2>1, <2>2, OthersXStep, HandlerXStep
<1>7. CASE ExperimentOver \/ UNCHANGED allVars
  <2>1. UNCHANGED loadVars /\ UNCHANGED monVars /\ UNCHANGED hostVars
    BY <1>7 DEF ExperimentOver, allVars
  <2>2. UNCHANGED <<opts, mpc, host, mlink, reqs, exit>>
    BY <2>1 DEF loadVars, vars, mainVars
  <2>3. WorkInv'
    BY <1>0, <2>1, <2>2, WorkFrame DEF monVars, hostVars
  <2>4. Executed' = Executed /\ Answered' = Answered
    BY <2>1, <2>2 DEF Executed, Answered, Count, hostVars
  <2>5. LinkInv' /\ BytesInv' /\ WellInv' /\ SpanInv' /\ ReplyInv'
    BY <1>0, <2>1, <2>2, <2>4
       DEF XInv, LinkInv, BytesInv, WellInv, LostOnlyByFailure, Linked, SpanInv, Pending,
           ReplyInv, link, box, monVars, hostVars
  <2> QED
    BY <2>3, <2>5 DEF XInv
<1> QED
  BY <1>1, <1>2, <1>3, <1>4, <1>5, <1>6, <1>7 DEF ExperimentNext

\* ... and, being a step of each, what is invariant of each.
LEMMA StepInvariants == Invariants /\ [ExperimentNext]_allVars => Invariants'
<1> SUFFICES ASSUME Invariants, [ExperimentNext]_allVars PROVE Invariants'
  OBVIOUS
<1>0. IInv /\ AInv /\ MonP!IInv /\ XInv
  BY DEF Invariants
<1>1. [Next]_vars
  BY LoadSteps
<1>2. [MonP!Next]_(MonP!vars)
  BY <1>0, MonitorSteps
<1>3. IInv' /\ AInv'
  BY <1>0, <1>1, StepIInv, StepAInv
<1>4. MonP!Control'
  BY <1>0, <1>2, MonitorConstants, MonP!NextControl DEF MonP!IInv
<1>5. MonP!Books(st', kern', span')
  BY <1>0, <1>2, MonitorConstants, MonP!NextBooks DEF MonP!IInv
<1>6. MonP!ExclusiveRangeExact'
  BY <1>0, <1>2, MonitorConstants, MonP!NextExact
<1> QED
  BY <1>3, <1>4, <1>5, <1>6, StepXInv DEF Invariants, MonP!IInv

\* So they always hold.
LEMMA InvariantsHold == ExperimentSpec => []Invariants
<1> QED
  BY InitInvariants, StepInvariants, PTL DEF ExperimentSpec

\* The experiment implements the load generator: whatever statmon and the host
\* do, faasmspeed does what FaasmSpeed allows, so all that is proved of
\* FaasmSpeed holds in an experiment.
THEOREM LoadRefined == ExperimentSpec => Spec
<1>1. ExperimentInit => Init
  BY DEF ExperimentInit
<1> QED
  BY <1>1, LoadSteps, PTL DEF ExperimentSpec, Spec

\* And it implements statmon with faasmspeed as one of its clients: the bytes
\* async_main writes and the work of its requests stay in the bounds for which
\* statmon's theorems are proved.
THEOREM MonitorRefined == ExperimentSpec => MonP!Spec
<1>1. ExperimentInit => MonP!Init
  BY SameMonitor DEF ExperimentInit
<1>2. Invariants /\ [ExperimentNext]_allVars => [MonP!Next]_(MonP!vars)
  BY MonitorSteps DEF Invariants
<1> QED
  BY <1>1, <1>2, InvariantsHold, PTL DEF ExperimentSpec, MonP!Spec

\* faasmspeed gives up, or records an empty line for the host, only if statmon
\* was not listening when it connected or an update of statmon failed: no
\* interleaving of the two processes, the other clients and the load costs an
\* experiment its results otherwise.
THEOREM OnlyFailuresLose == ExperimentSpec => []LostOnlyByFailure
<1>1. Invariants => LostOnlyByFailure
  BY DEF Invariants, XInv, WellInv
<1> QED
  BY <1>1, InvariantsHold, PTL

\* The line printed of a host accounts for every answered request, but for those
\* executed before statmon took '[', for every workload, every number of other
\* clients, disks and CPUs.
THEOREM LoadIsAccountedFor == ExperimentSpec => []LoadAccountedFor
<1>1. Invariants => LoadAccountedFor
  <2> SUFFICES ASSUME Invariants, link = "line", reply["load"].kind = "measured"
               PROVE  LET r == reply["load"]
                      IN  /\ "net" \notin r.lost => r.packet.sum["net"] + early >= Answered
                          /\ "io" \notin r.lost => r.packet.sum["io"] = r.io
                          /\ r.packet.now["event"] = r.event
    BY DEF LoadAccountedFor, link
  <2>1. reply["load"].work + early >= Answered
    BY DEF Invariants, XInv, ReplyInv
  <2>2. MonP!ExclusiveRangeExact /\ "load" \in Clients
    BY MonitorTypes DEF Invariants, MonP!IInv
  <2> QED
    BY <2>1, <2>2 DEF MonP!ExclusiveRangeExact
<1> QED
  BY <1>1, InvariantsHold, PTL
==============================================================================
