--------------------------- MODULE RequestGenerator ---------------------------
(***************************************************************************)
(* One function's request loop in isolation: what run_function sends, one  *)
(* request after another, when nothing else of the program is looked at.   *)
(* It is the abstract specification of the generator: the load generator   *)
(* (FaasmSpeed) is shown to implement it for each of its functions.        *)
(***************************************************************************)
EXTENDS OffloadFraction

CONSTANTS
    Num,       \* offload_frac_num of this function
    Den,       \* offload_frac_den
    PoolSize,  \* request_pool.len()
    Total      \* total_requests of this function

ASSUME GeneratorAssumption ==
    /\ Num \in Int
    /\ Den \in Nat \ {0}
    /\ PoolSize \in Nat \ {0}
    /\ Total \in Nat

VARIABLES
    ndp_var,        \* position in the current offloading period
    which_request,  \* next index into the request pool
    sent,           \* requests generated so far (_request_id)
    ndp             \* how many of them were offloadable

genVars == <<ndp_var, which_request, sent, ndp>>

Init ==
    /\ ndp_var = FirstNdpVar(Den)
    /\ which_request = 0
    /\ sent = 0
    /\ ndp = 0

\* One iteration of the for loop.
Generate ==
    /\ sent < Total
    /\ ndp_var' = NextNdpVar(ndp_var, Den)
    /\ ndp' = IF AllowNdp(ndp_var', Num, Den) THEN ndp + 1 ELSE ndp
    /\ which_request' = NextRequest(which_request, PoolSize)
    /\ sent' = sent + 1

Next == Generate

Spec == Init /\ [][Next]_genVars

------------------------------------------------------------------------------

\* ndp_var stays within a period and which_request within the pool (run_function
\* indexes request_pool with it).
TypeOK ==
    /\ ndp_var \in 0..Den
    /\ which_request \in 0..(PoolSize - 1)
    /\ sent \in 0..Total
    /\ ndp \in 0..sent

\* How many requests of one period of Den requests are offloadable.
PerPeriod == IF Num < 0 THEN 0 ELSE IF Num > Den THEN Den ELSE Num

\* The requested fraction is met exactly: after q complete periods of Den
\* requests, q * Num of them (at least 0, at most all) were offloadable.  This
\* is about the wrap of ndp_var to 1, not to 0, and about <= in allow_ndp.
FractionExact == \A q \in 0..Total : sent = q * Den => ndp = q * PerPeriod

\* Between two period ends (where the start value of ndp_var matters) the share
\* never runs behind the requested fraction by a whole request, and ahead of it
\* only by what one period can bunch up: the offloadable requests of a period
\* are its second to (Num + 1)-th.
FractionTracked ==
    LET drift == Den * ndp - PerPeriod * sent
    IN  -PerPeriod <= drift /\ drift <= PerPeriod * (Den - PerPeriod)

\* The pool is walked round robin: request number i takes the data set i modulo
\* the pool's length, and the index never leaves the pool.
PoolRoundRobin == which_request = sent % PoolSize

==============================================================================
