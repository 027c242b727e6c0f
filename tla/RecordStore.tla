----------------------------- MODULE RecordStore -----------------------------
(***************************************************************************)
(* What a storage provider promises the service above it: every record has *)
(* a place of its own, a write takes effect wholly or not at all, whatever *)
(* happens in the middle of it, and touches no other record.               *)
(***************************************************************************)
CONSTANTS
    Slots,      \* what records may be stored under
    Values,     \* what a record may hold
    Absent      \* no record

VARIABLES
    record,     \* the record of each slot, or Absent
    request     \* writes asked for and not yet answered, at most one

vars == <<record, request>>

Init == record = [s \in Slots |-> Absent] /\ request = {}

\* value = Absent asks for the record to be deleted
Ask(s, v) ==
    /\ request = {}
    /\ request' = {[slot |-> s, value |-> v]}
    /\ UNCHANGED record

\* The request's write, and the answer.
Take ==
    /\ \E r \in request : record' = [record EXCEPT ![r.slot] = r.value]
    /\ request' = {}

\* The request fails, or the process stops before it takes effect.
Drop ==
    /\ request # {}
    /\ request' = {}
    /\ UNCHANGED record

Next ==
    \/ \E s \in Slots, v \in Values \cup {Absent} : Ask(s, v)
    \/ Take
    \/ Drop

Spec == Init /\ [][Next]_vars

=============================================================================
