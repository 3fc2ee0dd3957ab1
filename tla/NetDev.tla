-------------------------------- MODULE NetDev --------------------------------
(***************************************************************************)
(* How statmon reads the line of its network interface in /proc/net/dev    *)
(* (statmon/src/stats.rs, upd_net): which field of the line becomes which  *)
(* statistic, as a difference to the previous reading.                     *)
(***************************************************************************)
EXTENDS Integers

CONSTANT MaxPackets   \* bound: packets and errors of the interface

\* The fields after the interface's name, numbered as in the comment of upd_net.
Fields == 1..16
RxBytes == 1
RxErrs == 3
TxBytes == 9
TxPackets == 10
TxErrs == 11

VARIABLES
    line,    \* the kernel's counters of the interface
    ref,     \* net_rx_ref, net_rxe_ref, net_tx_ref, net_txe_ref
    now,     \* value_now of the four statistics
    counted  \* history: errors on transmission between the last two readings

vars == <<line, ref, now, counted>>

Zero == [rx |-> 0, rxe |-> 0, tx |-> 0, txe |-> 0]

Init ==
    /\ line = [i \in Fields |-> 0]
    /\ ref = Zero
    /\ now = Zero
    /\ counted = [last |-> 0, open |-> 0]

Count(i) == line[i] < MaxPackets /\ line' = [line EXCEPT ![i] = @ + 1]

\* A packet is transmitted: its bytes and the packet are counted (one byte here).
Transmit ==
    /\ line[TxPackets] < MaxPackets
    /\ line' = [line EXCEPT ![TxBytes] = @ + 1, ![TxPackets] = @ + 1]
    /\ UNCHANGED <<ref, now, counted>>

TransmitError ==
    /\ Count(TxErrs)
    /\ counted' = [counted EXCEPT !.open = @ + 1]
    /\ UNCHANGED <<ref, now>>

ReceiveError ==
    /\ Count(RxErrs)
    /\ UNCHANGED <<ref, now, counted>>

\* upd_net: fields 1, 3, 9 and 10 of the line.
UpdNet ==
    /\ LET read == [rx |-> line[1], rxe |-> line[3], tx |-> line[9], txe |-> line[10]]
       IN  /\ now' = [n \in DOMAIN read |-> read[n] - ref[n]]
           /\ ref' = read
    /\ counted' = [last |-> counted.open, open |-> 0]
    /\ UNCHANGED line

Next == Transmit \/ TransmitError \/ ReceiveError \/ UpdNet

Spec == Init /\ [][Next]_vars

------------------------------------------------------------------------------

\* NetTxErrors ("net_tx_errors") is what its name says: the errors on
\* transmission between the last two readings of /proc/net/dev.
TxErrorsAreErrors == now.txe = counted.last
==============================================================================
