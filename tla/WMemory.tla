------------------------------ MODULE WMemory ------------------------------
(***************************************************************************)
(* struct WMemory of faultspeed.cpp as a value: one reserved mapping of    *)
(* WMEM_SIZE pages, its current size, what each page holds, and the pages  *)
(* that may be accessed.  Each operation is given the struct and returns   *)
(* it updated.  Sizes are in pages; a page is                              *)
(*   <<"missing", 0>>  not populated (never touched, or dropped),          *)
(*   <<"zero", 0>>     the kernel's zero page,                             *)
(*   <<"snap", p>>     a copy of page p of the snapshot,                   *)
(*   <<"work", k>>     data the function wrote in its k-th invocation.     *)
(***************************************************************************)
EXTENDS Naturals, FiniteSetsExt

CONSTANTS WMEM_SIZE,        \* size of the reservation
          SNAP_SIZE,        \* size of the snapshot
          WORK_SIZE,        \* size a function grows to
          WORK_FILL_START   \* where the data a function writes begins

ASSUME SizeAssumption ==
    /\ {WMEM_SIZE, SNAP_SIZE, WORK_SIZE, WORK_FILL_START} \subseteq Nat
    /\ 0 < WORK_FILL_START /\ WORK_FILL_START < SNAP_SIZE
    /\ SNAP_SIZE < WORK_SIZE /\ WORK_SIZE =< WMEM_SIZE \div 2

Pages == 0 .. WMEM_SIZE - 1

Missing == <<"missing", 0>>
Zero == <<"zero", 0>>
Snap(p) == <<"snap", p>>
Work(k) == <<"work", k>>

(* The constructor: reserved, PROT_NONE, nothing populated.                *)
NewWMemory == [size |-> 0, page |-> [p \in Pages |-> Missing], rw |-> {}]

(* Pages from .. to - 1 of m are dropped from the mapping.                 *)
Drop(m, from, to) ==
    [m EXCEPT !.page = [p \in Pages |->
                          IF from =< p /\ p < to THEN Missing ELSE @[p]]]

Unprotect(m, from, to) == [m EXCEPT !.rw = @ \cup (from .. to - 1)]
Protect(m, from, to) == [m EXCEPT !.rw = @ \ (from .. to - 1)]

resizeNoProtect(m, newSize) == [m EXCEPT !.size = newSize]

(* Shrinking maps fresh inaccessible memory over the tail.                 *)
resizeWavm_NoRemap(m, newSize) ==
    [(IF newSize < m.size THEN Protect(m, newSize, m.size)
      ELSE Unprotect(m, m.size, newSize)) EXCEPT !.size = newSize]

resizeWavm(m, newSize) ==
    [(IF newSize < m.size THEN Protect(Drop(m, newSize, m.size), newSize, m.size)
      ELSE Unprotect(m, m.size, newSize)) EXCEPT !.size = newSize]

resizeWavmDontneed(m, newSize, useMprotect) ==
    LET dropped == Drop(m, newSize, m.size)
    IN  [(IF newSize < m.size
          THEN IF useMprotect THEN Protect(dropped, newSize, m.size) ELSE dropped
          ELSE Unprotect(m, m.size, newSize)) EXCEPT !.size = newSize]

(* Growing leaves the protection alone: UffdHandler::add has lifted it.    *)
resizeWavmUffd(m, newSize) ==
    [(IF newSize < m.size THEN Drop(m, newSize, m.size) ELSE m)
       EXCEPT !.size = newSize]

(* The pages fillWithData writes: [from, upTo) cut at the current size.    *)
fillSpan_Uncut(m, from, upTo) == from .. (Min({upTo, WMEM_SIZE \div 2}) - 1)

fillSpan(m, from, upTo) ==
    LET start == Min({from, m.size})
        len == Min({upTo - start, m.size - start})
    IN  start .. (start + len - 1)

Fill(m, span, k) ==
    [m EXCEPT !.page = [p \in Pages |-> IF p \in span THEN Work(k) ELSE @[p]]]

(* Accessible before the first iteration and full of data.                 *)
setupNoProtect ==
    LET m == resizeWavm(NewWMemory, WMEM_SIZE \div 2)
    IN  Fill(m, fillSpan(m, 0, WORK_SIZE), 0)
=============================================================================
