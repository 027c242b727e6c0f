------------------------------ MODULE Finality ------------------------------
(***************************************************************************)
(* What the consensus loop promises about its chain and its finality index *)
(* (the Gasper rule of lib_finalizer/finalizer_index_service.py, seen from *)
(* outside): the chain grows one slot at a time, an epoch is justified     *)
(* only right after its last slot and only once, and the epoch before it   *)
(* becomes final exactly when it was the last justified one.               *)
(***************************************************************************)
EXTENDS Integers

CONSTANTS
    SlotsPerEpoch,  \* SLOTS_PER_EPOCH
    MaxSlot         \* bound: the chain never grows beyond this slot

VARIABLES
    head,           \* slot of the chain tip, -1 without a chain
    justified,      \* the last justified epoch, -1 for none
    finalized       \* the last finalized epoch, -1 for none

vars == <<head, justified, finalized>>

Init == head = -1 /\ justified = -1 /\ finalized = -1

Extend ==
    /\ head < MaxSlot
    /\ head' = head + 1
    /\ UNCHANGED <<justified, finalized>>

Justify ==
    LET e == head \div SlotsPerEpoch IN
    /\ head >= 0 /\ (head + 1) % SlotsPerEpoch = 0
    /\ justified < e
    /\ justified' = e
    /\ finalized' = IF justified >= 0 /\ justified = e - 1 THEN justified ELSE finalized
    /\ UNCHANGED head

Next == Extend \/ Justify

Spec == Init /\ [][Next]_vars

=============================================================================
