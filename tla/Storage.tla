------------------------------- MODULE Storage -------------------------------
(***************************************************************************)
(* The storage of one service: a directory (FileStorageProvider) or a      *)
(* table (SQLiteStorageProvider), and the adapter that gives the records   *)
(* of the service their keys (lib_storage and the storage adapters).       *)
(*                                                                         *)
(* A key is a sequence of tokens, the fixed parts of its name and an id,   *)
(* which never contains the text of a fixed part (ids are hashes, numbers  *)
(* and names that the node makes up). A record is a stamp: the number of   *)
(* the write that made it. Writing a file is not atomic, renaming one is,  *)
(* and so is an SQL transaction. Every other module of this project takes  *)
(* one provider call as one step: that is what is shown here.              *)
(***************************************************************************)
EXTENDS Integers, Sequences, SequencesExt, StorageLayout

CONSTANTS
    Ids,        \* tokens: hashes, indices, epochs, user ids
    Torn,       \* model value: a file cut off in the middle of a write
    Absent,     \* model value: no record
    MaxWrites,  \* bound: records written
    MaxFaults   \* bound: calls that fail, stops of the process

Backends == {"file", "sqlite"}
Adapters == DOMAIN Layout

NoId == "-"
IdsOf(k) == IF k.single THEN {NoId} ELSE Ids
SlotsOf == [a \in Adapters |-> UNION { { [kind |-> k, id |-> i] : i \in IdsOf(k) } : k \in Layout[a] }]
Slots == UNION { SlotsOf[a] : a \in Adapters }

IndexOf(a) == CHOOSE s \in SlotsOf[a] : s.kind.name = "index"

(***************************************************************************)
(* Names.                                                                  *)
(***************************************************************************)
\* The parts of a key: fixed ones before and after the id of the record.
Key(s) == s.kind.prefix \o (IF s.kind.single THEN << >> ELSE <<s.id>>) \o s.kind.suffix

\* Slashes in a key would lead out of the directory.
Safe(key) == [i \in DOMAIN key |-> IF key[i] \in {"/", "\\"} THEN "_" ELSE key[i]]
Path(key) == Append(Safe(key), ".json")

\* Faulty: the record is written where it is.
TempPathInPlace(key) == Append(Safe(key), ".json")

TempPath(key) == Append(Safe(key), ".tmp")

ASSUME StorageAssumption ==
    /\ MaxWrites \in Nat /\ MaxFaults \in Nat
    /\ Torn # Absent /\ Torn \notin Nat /\ Absent \notin Nat
    /\ \A a \in Adapters : \E s \in SlotsOf[a] : s.kind.name = "index"
    /\ \A s \in Slots : Key(s) \in Seq(STRING)

\* No two records of a service share a file, or a row.
ASSUME KeysAreApart ==
    \A a \in Adapters : \A s, t \in SlotsOf[a] :
        s # t => Key(s) # Key(t) /\ Path(Key(s)) # Path(Key(t))

VARIABLES
    adapter,    \* the service whose storage this is
    backend,
    files,      \* what is on the disk: files by path, rows by key
    state,      \* "closed", "creating" the index, "open"
    job,        \* the provider call under way, at most one
    writes,     \* stamps given
    faults      \* failed calls and stops so far

vars == <<adapter, backend, files, state, job, writes, faults>>

Values   == 0..MaxWrites
NewIndex == 0       \* the stamp of the index a factory writes
Steps    == {"begun", "written"}
Jobs     == [slot : Slots, value : Values \cup {Absent}, step : Steps]

Open == state = "open" /\ job = {}

Index == IndexOf(adapter)

Put(path, value) ==
    files' = [p \in DOMAIN files \cup {path} |-> IF p = path THEN value ELSE files[p]]
Unlinked(path) == files' = [p \in DOMAIN files \ {path} |-> files[p]]
Rename(from, to) ==
    files' = [p \in (DOMAIN files \ {from}) \cup {to} |-> IF p = to THEN files[from] ELSE files[p]]

\* Where the record of a slot is.
Place(s) == IF backend = "file" THEN Path(Key(s)) ELSE Key(s)
Exists(s) == Place(s) \in DOMAIN files

\* load: a torn file exists, but reading it raises.
Readable(s) == Exists(s) /\ files[Place(s)] # Torn

TypeOK ==
    /\ adapter \in Adapters /\ backend \in Backends
    /\ \A p \in DOMAIN files : files[p] \in Values \cup {Torn}
    /\ state \in {"closed", "creating", "open"}
    /\ job \subseteq Jobs /\ \A j, k \in job : j = k
    /\ writes \in Values /\ faults \in 0..MaxFaults

Init ==
    /\ adapter \in Adapters /\ backend \in Backends
    /\ files = << >> /\ state = "closed" /\ job = {} /\ writes = 0 /\ faults = 0

(***************************************************************************)
(* Opening: the constructor of a provider. The index of a directory is     *)
(* written in place, once.                                                 *)
(***************************************************************************)
Connect ==
    /\ state = "closed"
    /\ backend = "sqlite" \/ Exists(Index)
    /\ state' = "open"
    /\ UNCHANGED <<adapter, backend, files, job, writes, faults>>

CreateIndex ==
    /\ state = "closed" /\ backend = "file" /\ ~Exists(Index)
    /\ Put(Place(Index), Torn)
    /\ state' = "creating"
    /\ job' = {[slot |-> Index, value |-> NewIndex, step |-> "written"]}
    /\ UNCHANGED <<adapter, backend, writes, faults>>

IndexCreated ==
    /\ state = "creating"
    /\ Put(Place(Index), NewIndex)
    /\ state' = "open" /\ job' = {}
    /\ UNCHANGED <<adapter, backend, writes, faults>>

(***************************************************************************)
(* Calls. A provider writes a record beside the old one, or in a           *)
(* transaction, and then puts it in its place.                             *)
(***************************************************************************)
Begin(s, v) ==
    /\ job' = {[slot |-> s, value |-> v, step |-> "begun"]}
    /\ UNCHANGED <<adapter, backend, files, state, faults>>

Stamp == writes < MaxWrites /\ writes' = writes + 1

Save(s) ==
    /\ Open /\ "save" \in s.kind.ops
    /\ Stamp /\ Begin(s, writes + 1)

\* Loads the record under the same lock; nothing is written without one.
Update(s) ==
    /\ Open /\ "update" \in s.kind.ops
    /\ Readable(s)
    /\ Stamp /\ Begin(s, writes + 1)

Delete(s) ==
    /\ Open /\ "delete" \in s.kind.ops
    /\ Exists(s)
    /\ Begin(s, Absent) /\ UNCHANGED writes

\* An index without a chain state is replaced, too; whether one that was saved
\* has it is left open, and the new one of a factory does.
EnsureIndex(s) ==
    /\ Open /\ "ensure" \in s.kind.ops
    /\ Exists(s) => Readable(s) /\ files[Place(s)] # NewIndex
    /\ Begin(s, NewIndex) /\ UNCHANGED writes

\* The state of the mempool is copied to a backup, and back.
Backup(s) ==
    /\ Open /\ "copy" \in s.kind.ops
    /\ Readable(Index)
    /\ Begin(s, files[Place(Index)]) /\ UNCHANGED writes

Restore(s) ==
    /\ Open /\ "copy" \in s.kind.ops
    /\ Readable(s)
    /\ Begin(Index, files[Place(s)]) /\ UNCHANGED writes

(***************************************************************************)
(* Steps of a call.                                                        *)
(***************************************************************************)
StartTemp ==
    /\ state = "open" /\ backend = "file"
    /\ \E j \in job :
          /\ j.value # Absent /\ j.step = "begun"
          /\ Put(TempPath(Key(j.slot)), Torn)
          /\ job' = {[j EXCEPT !.step = "written"]}
    /\ UNCHANGED <<adapter, backend, state, writes, faults>>

FinishTemp ==
    /\ state = "open" /\ backend = "file"
    /\ \E j \in job :
          LET temp == TempPath(Key(j.slot)) IN
          /\ j.value # Absent /\ j.step = "written"
          /\ files[temp] = Torn
          /\ Put(temp, j.value)
    /\ UNCHANGED <<adapter, backend, state, job, writes, faults>>

Replace ==
    /\ state = "open" /\ backend = "file"
    /\ \E j \in job :
          LET temp == TempPath(Key(j.slot)) IN
          /\ j.value # Absent /\ j.step = "written"
          /\ files[temp] = j.value
          /\ Rename(temp, Path(Key(j.slot)))
    /\ job' = {}
    /\ UNCHANGED <<adapter, backend, state, writes, faults>>

Commit ==
    /\ state = "open" /\ backend = "sqlite"
    /\ \E j \in job : j.value # Absent /\ Put(Key(j.slot), j.value)
    /\ job' = {}
    /\ UNCHANGED <<adapter, backend, state, writes, faults>>

Unlink ==
    /\ state = "open"
    /\ \E j \in job : j.value = Absent /\ Unlinked(Place(j.slot))
    /\ job' = {}
    /\ UNCHANGED <<adapter, backend, state, writes, faults>>

\* An error: the directory provider passes it on, the table provider logs it
\* and answers False or None.
Fail ==
    /\ state = "open" /\ job # {} /\ faults < MaxFaults
    /\ faults' = faults + 1
    /\ job' = {}
    /\ UNCHANGED <<adapter, backend, files, state, writes>>

Stop ==
    /\ state # "closed" /\ faults < MaxFaults
    /\ faults' = faults + 1
    /\ state' = "closed" /\ job' = {}
    /\ UNCHANGED <<adapter, backend, files, writes>>

Next ==
    \/ Connect \/ CreateIndex \/ IndexCreated
    \/ \E s \in SlotsOf[adapter] :
          Save(s) \/ Update(s) \/ Delete(s) \/ EnsureIndex(s) \/ Backup(s) \/ Restore(s)
    \/ StartTemp \/ FinishTemp \/ Replace \/ Commit \/ Unlink
    \/ Fail \/ Stop

Spec == Init /\ [][Next]_vars

(***************************************************************************)
(* Queries.                                                                *)
(***************************************************************************)
\* list_keys: names of files end in .json, the index is left out, a prefix is
\* ignored; rows are filtered by the prefix, and the index is one of them.
ListKeys(prefix) ==
    IF backend = "file"
    THEN { Front(p) : p \in { q \in DOMAIN files : Last(q) = ".json" /\ q # Place(Index) } }
    ELSE { p \in DOMAIN files : IsPrefix(prefix, p) }

Passes(a, k, key) ==
    /\ "prefix" \in k.checks => IsPrefix(k.prefix, key)
    /\ "index" \in k.checks => key # Key(IndexOf(a))

\* The fixed parts are cut out of a key.
IdOf(k, key) == SelectSeq(key, LAMBDA t : t \notin Range(k.prefix) \cup Range(k.suffix))

\* Faulty: the adapter relies on the filter of the provider.
ListingUnchecked(k) == { IdOf(k, key) : key \in ListKeys(k.prefix) }

\* Only an adapter that checks nothing itself asks the provider for a prefix.
Listing(k) ==
    LET prefix == IF k.checks = {} THEN k.prefix ELSE << >>
    IN { IdOf(k, key) : key \in { l \in ListKeys(prefix) : Passes(adapter, k, l) } }

ListedKinds(a) == { k \in Layout[a] : "list" \in k.ops }

\* The fixed parts of the keys of a service, and ids that hold none of them and
\* no slash, tell the kinds that it lists from all others.
ASSUME KindsAreApart ==
    \A a \in Adapters : \A k \in ListedKinds(a) : \A s \in SlotsOf[a] :
        /\ Safe(Key(s)) = Key(s)
        /\ s.kind = k => /\ s # IndexOf(a)
                         /\ Passes(a, k, Key(s)) /\ IsPrefix(k.prefix, Key(s))
                         /\ IdOf(k, Key(s)) = <<s.id>>
        /\ s.kind # k /\ k.checks # {} => ~Passes(a, k, Key(s))

(***************************************************************************)
(* Properties.                                                             *)
(***************************************************************************)
\* A listing names every stored record of its kind, and, when the adapter
\* itself checks the keys, nothing else: no record of another kind, not the
\* index, no file left over by a stopped process.
ListsExactly ==
    state = "open" =>
        \A k \in ListedKinds(adapter) :
            LET stored == { <<s.id>> : s \in { t \in SlotsOf[adapter] : t.kind = k /\ Exists(t) } }
            IN /\ stored \subseteq Listing(k)
               /\ k.checks # {} => Listing(k) = stored

RecordOf(s) == IF s.kind \in Layout[adapter] /\ Readable(s) THEN files[Place(s)] ELSE Absent

\* The storage is a store of records: whatever adapter and backend, each
\* call reaches the one record it names, wholly or not at all, and a process
\* that stops leaves every record as it was or as it was to be.
Store == INSTANCE RecordStore WITH
    record  <- [s \in Slots |-> RecordOf(s)],
    request <- { [slot |-> j.slot, value |-> j.value] : j \in job }

RefinesStore == Store!Spec
=============================================================================
