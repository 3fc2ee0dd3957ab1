--------------------------- MODULE OffloadFraction ---------------------------
(***************************************************************************)
(* The arithmetic with which faasmspeed's request loop decides whether a   *)
(* request may be offloaded (NDP) and which request of the pool it sends   *)
(* (faasmspeed/src/main.rs, run_function).  Constant operators only: the   *)
(* request generator and the load generator both build on them.            *)
(***************************************************************************)
EXTENDS Integers

\* Mutant: the period starts two positions before its end.
FirstNdpVar_TwoEarly(den) == den - 2

\* let mut ndp_var = opts.offload_frac_den - 1
FirstNdpVar(den) == den - 1

\* Mutant: while ndp_var >= den.
Wrap_ToZero(v, den) == IF v >= den THEN v % den ELSE v

\* Mutant: the loop is forgotten.
Wrap_Never(v, den) == v

\* while ndp_var > den { ndp_var -= den }, for den >= 1 and any ndp_var.
Wrap(v, den) == IF v > den THEN ((v - 1) % den) + 1 ELSE v

\* ndp_var += 1, then the loop above.
NextNdpVar(v, den) == Wrap(v + 1, den)

\* let force_ndp = offload_frac_num > opts.offload_frac_den
ForceNdp(num, den) == num > den

\* allow_ndp || force_ndp, where allow_ndp = ndp_var <= offload_frac_num
AllowNdp(v, num, den) == v <= num \/ ForceNdp(num, den)

\* Mutant: which_request > request_pool.len().
NextRequest_PastEnd(w, len) == IF w + 1 > len THEN 0 ELSE w + 1

\* which_request += 1; if which_request == request_pool.len() { which_request = 0 }
NextRequest(w, len) == IF w + 1 = len THEN 0 ELSE w + 1

==============================================================================
