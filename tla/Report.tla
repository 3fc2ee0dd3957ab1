-------------------------------- MODULE Report --------------------------------
(***************************************************************************)
(* What faasmspeed prints of one function's requests (the end of           *)
(* async_main, and print_stats): the answers are sorted in place by one    *)
(* field after the other, the start times overwritten by the intervals     *)
(* between them, and of every field quantiles, average and variance are    *)
(* printed.  The arithmetic is that of u128 in the release profile, which  *)
(* wraps; times are in abstract units.                                     *)
(***************************************************************************)
EXTENDS Integers, SequencesExt

CONSTANTS
    Samples,     \* RequestResults: start_time, us_request, us_status, num_bytes
    Messages,    \* texts of errors, as numbers that order them
    MaxResults,  \* bound: requests of the function
    Word,        \* u128 is modulo Word
    Usize        \* a variance of Usize or more is not a usize

Columns == <<"start_time", "us_request", "us_status", "num_bytes", "done">>
Fields == {"start_time", "us_request", "us_status", "num_bytes"}

ASSUME ReportAssumption ==
    /\ Samples \subseteq [Fields -> 0..(Word - 1)]
    /\ Messages \subseteq Nat
    /\ MaxResults \in Nat
    /\ Word \in Nat \ {0} /\ Usize \in 1..Word

VARIABLES
    outcome,  \* what the request tasks returned, in the order of the requests
    results,  \* results[fidx]
    errors,   \* errors[fidx]
    tally,    \* the lines "{num}x {err_str}"
    stage,    \* what async_main is about to do
    idx,      \* index of the loop that parts the results, or makes the intervals
    printed   \* [column printed so far -> its statistics]

reportVars == <<outcome, results, errors, tally, stage, idx, printed>>

Outcomes == {[ok |-> TRUE, res |-> s] : s \in Samples}
              \cup {[ok |-> FALSE, msg |-> m] : m \in Messages}

ReportInit ==
    /\ outcome \in BoundedSeq(Outcomes, MaxResults)
    /\ results = <<>> /\ errors = <<>> /\ tally = <<>>
    /\ stage = "collect"
    /\ idx = 0
    /\ printed = <<>>

\* The results and errors are never more than what the tasks returned; a field of
\* the results is never more than that field of some answer, so no interval wraps
\* around where the start times are subtracted (main.rs:474-477); and a column is
\* printed only after the ones before it.
ReportTypeOK ==
    /\ Len(results) + Len(errors) <= Len(outcome)
    /\ \A j \in DOMAIN results, c \in Fields : \E o \in DOMAIN outcome :
          outcome[o].ok /\ 0 <= results[j][c] /\ results[j][c] <= outcome[o].res[c]
    /\ idx \in 0..MaxResults
    /\ \A k \in 1..Len(Columns) :
          stage = Columns[k] => DOMAIN printed = {Columns[j] : j \in 1..(k - 1)}

------------------------------------------------------------------------------
(* sort_unstable_by_key, print_stats *)

Shuffles(s) == {[j \in DOMAIN s |-> s[p[j]]] : p \in Bijection(DOMAIN s, DOMAIN s)}

\* The orders sort_unstable_by_key may leave s in.
Sorts(s, key) ==
    {t \in Shuffles(s) : \A j \in 1..(Len(t) - 1) : t[j][key] <= t[j + 1][key]}

\* Mutant: the difference saturates.
Sub_Saturating(x, y) == IF x < y THEN 0 ELSE x - y

Sub(x, y) == (x - y) % Word

SumOf(d) == FoldSeq(LAMBDA x, y : (x + y) % Word, 0, d)
Nth(d, n) == IF n < Len(d) THEN d[n + 1] ELSE 0   \* nth(n).unwrap_or(zero)

Squares(d, avg) == [j \in DOMAIN d |-> (Sub(d[j], avg) * Sub(d[j], avg)) % Word]

\* sqrt is left out of the standard deviation.
print_stats(d) ==
    LET n   == Len(d)
        cnt == IF n = 0 THEN 1 ELSE n
        avg == SumOf(d) \div cnt
        variance == SumOf(Squares(d, avg)) \div cnt
    IN  [min |-> Nth(d, 0), max |-> IF n = 0 THEN 0 ELSE d[n],
         q01 |-> Nth(d, n \div 100), q1 |-> Nth(d, n \div 4), q2 |-> Nth(d, n \div 2),
         q3 |-> Nth(d, (3 * n) \div 4), q99 |-> Nth(d, (99 * n) \div 100),
         avg |-> avg, variance |-> IF variance < Usize THEN variance ELSE 0]

------------------------------------------------------------------------------
(* async_main *)

\* The next of the results of the function's task is pushed.
Collect ==
    /\ stage = "collect"
    /\ idx < Len(outcome)
    /\ LET o == outcome[idx + 1]
       IN  /\ results' = IF o.ok THEN Append(results, o.res) ELSE results
           /\ errors' = IF o.ok THEN errors ELSE Append(errors, o)
    /\ idx' = idx + 1
    /\ UNCHANGED <<outcome, tally, stage, printed>>

Collected ==
    /\ stage = "collect"
    /\ idx = Len(outcome)
    /\ stage' = "errors"
    /\ UNCHANGED <<outcome, results, errors, tally, idx, printed>>

\* Itertools::group_by: the lengths of the runs of equal texts.
group_by(s) ==
    LET first == {j \in DOMAIN s : j = 1 \/ s[j - 1].msg # s[j].msg}
        Run(j) == {i \in DOMAIN s : i >= j /\ \A l \in j..i : s[l].msg = s[j].msg}
    IN  [j \in first |-> [num |-> Cardinality(Run(j)), msg |-> s[j].msg]]

\* Mutant: the texts are not sorted before they are grouped.
CountErrors_Unsorted ==
    /\ stage = "errors"
    /\ tally' = group_by(errors)
    /\ stage' = "sort"
    /\ UNCHANGED <<outcome, results, errors, idx, printed>>

CountErrors ==
    /\ stage = "errors"
    /\ \E s \in Sorts(errors, "msg") : tally' = group_by(s)
    /\ stage' = "sort"
    /\ UNCHANGED <<outcome, results, errors, idx, printed>>

\* Mutant: the results are left in the order of the requests.
SortByStart_Unsorted ==
    /\ stage = "sort"
    /\ idx' = Len(results)
    /\ stage' = "diff"
    /\ UNCHANGED <<outcome, results, errors, tally, printed>>

SortByStart ==
    /\ stage = "sort"
    /\ results' \in Sorts(results, "start_time")
    /\ idx' = Len(results)
    /\ stage' = "diff"
    /\ UNCHANGED <<outcome, errors, tally, printed>>

\* Mutant: the loop runs forwards, over start times that it has overwritten.
Difference_Forward ==
    /\ stage = "diff"
    /\ idx >= 2
    /\ LET j == Len(results) + 2 - idx
       IN  results' = [results EXCEPT ![j].start_time = Sub(@, results[j - 1].start_time)]
    /\ idx' = idx - 1
    /\ UNCHANGED <<outcome, errors, tally, stage, printed>>

\* From the last result to the second: its start time becomes the interval.
Difference ==
    /\ stage = "diff"
    /\ idx >= 2
    /\ results' = [results EXCEPT ![idx].start_time = Sub(@, results[idx - 1].start_time)]
    /\ idx' = idx - 1
    /\ UNCHANGED <<outcome, errors, tally, stage, printed>>

\* The first result has no interval; of more than two it gets the second one's.
FirstInterval ==
    /\ stage = "diff"
    /\ idx < 2
    /\ results' = IF Len(results) > 2
                  THEN [results EXCEPT ![1].start_time = results[2].start_time]
                  ELSE results
    /\ stage' = Columns[1]
    /\ UNCHANGED <<outcome, errors, tally, idx, printed>>

After(c) == Columns[1 + CHOOSE k \in DOMAIN Columns : Columns[k] = c]

Entered(c, p) == [k \in DOMAIN printed \cup {c} |-> IF k = c THEN p ELSE printed[k]]

\* Mutant: the results stay in the order of the intervals.
PrintColumn_SortedOnce(c) ==
    /\ stage = c
    /\ results' \in IF c = "start_time" THEN Sorts(results, c) ELSE {results}
    /\ printed' = Entered(c, print_stats([j \in DOMAIN results |-> results'[j][c]]))
    /\ stage' = After(c)
    /\ UNCHANGED <<outcome, errors, tally, idx>>

\* Sorted by the column, then printed.
PrintColumn(c) ==
    /\ stage = c
    /\ results' \in Sorts(results, c)
    /\ printed' = Entered(c, print_stats([j \in DOMAIN results |-> results'[j][c]]))
    /\ stage' = After(c)
    /\ UNCHANGED <<outcome, errors, tally, idx>>

ReportNext ==
    \/ Collect \/ Collected \/ CountErrors \/ SortByStart \/ Difference \/ FirstInterval
    \/ \E c \in Fields : PrintColumn(c)

ReportSpec == ReportInit /\ [][ReportNext]_reportVars

------------------------------------------------------------------------------
(* Properties *)

\* x has rank n among the data: n or fewer values are below it, more are not above.
HasRank(x, n, d) ==
    /\ Cardinality({j \in DOMAIN d : d[j] < x}) <= n
    /\ n < Cardinality({j \in DOMAIN d : d[j] <= x})

\* What a field of the answers holds, by the number of the request.
Answers(c) ==
    LET ok == {j \in DOMAIN outcome : outcome[j].ok}
    IN  [j \in ok |-> outcome[j].res[c]]

\* The values of d in ascending order.
Ordered(d) ==
    [j \in 1..Cardinality(DOMAIN d) |-> CHOOSE x \in Range(d) : HasRank(x, j - 1, d)]

Starts == Ordered(Answers("start_time"))

\* How long after the one before it every answer's request started; the first
\* request has none before it and counts as the second does.
Intervals ==
    [j \in DOMAIN Starts |-> IF j > 1 THEN Starts[j] - Starts[j - 1] ELSE Starts[2] - Starts[1]]

\* The first start time is overwritten only if there are more than two answers
\* (main.rs:478): of one or two, it is printed among the intervals.
EnoughAnswers == Cardinality(DOMAIN Answers("start_time")) \notin {1, 2}

\* What the columns are about, read off the answers themselves.
Data(c) == IF c = "start_time" THEN Intervals ELSE Answers(c)

QuantilesOf(p, d) ==
    LET n == Cardinality(DOMAIN d)
    IN  IF n = 0 THEN {p.min, p.q01, p.q1, p.q2, p.q3, p.q99, p.max} = {0}
        ELSE /\ HasRank(p.min, 0, d) /\ HasRank(p.q01, n \div 100, d)
             /\ HasRank(p.q1, n \div 4, d) /\ HasRank(p.q2, n \div 2, d)
             /\ HasRank(p.q3, (3 * n) \div 4, d)
             /\ HasRank(p.q99, (99 * n) \div 100, d) /\ HasRank(p.max, n - 1, d)

\* The printed quantiles of a column are those of the answers' own values,
\* although the same vector is sorted again and again and a field of it was
\* overwritten before (main.rs:473-512).
QuantilesExact ==
    \A c \in DOMAIN printed \ {"start_time"} : QuantilesOf(printed[c], Data(c))

\* Of more than two answers, the inter-request column is about the intervals
\* between consecutive starts, each counted once and the first twice: the loop
\* that overwrites the start times reads each of them before it is overwritten
\* (main.rs:474-487).
IntervalsExact ==
    "start_time" \in DOMAIN printed /\ EnoughAnswers
       => QuantilesOf(printed["start_time"], Intervals)

MomentsOf(p, d) ==
    LET n   == IF DOMAIN d = {} THEN 1 ELSE Cardinality(DOMAIN d)
        avg == SumFunction(d) \div n
        v   == SumFunction([j \in DOMAIN d |-> (d[j] - avg) * (d[j] - avg)]) \div n
    IN  /\ p.avg = avg
        /\ p.variance = IF v < Usize THEN v ELSE 0

\* Average and variance are those of integers, rounded down, although x - avg is
\* an unsigned subtraction that wraps for every value below the average
\* (main.rs:543-545); only a variance beyond usize is printed as 0.
MomentsExact ==
    \A c \in DOMAIN printed :
       (c = "start_time" => EnoughAnswers) => MomentsOf(printed[c], Data(c))

\* Every text of an error is printed once, with the number of requests that
\* returned it (main.rs:425-437).
ErrorsTallied ==
    stage \notin {"collect", "errors"} =>
       \A m \in Messages :
          LET num == Cardinality({j \in DOMAIN outcome : outcome[j] = [ok |-> FALSE, msg |-> m]})
          IN  {tally[j].num : j \in {i \in DOMAIN tally : tally[i].msg = m}}
                 = IF num = 0 THEN {} ELSE {num}
==============================================================================
