--------------------------- MODULE Storage_proofs ---------------------------
(***************************************************************************)
(* Proofs about Storage, for any ids, whatever their number, and any       *)
(* bounds: a directory or a table implements the store of records that     *)
(* the other modules of this project build on.                             *)
(***************************************************************************)
EXTENDS Storage, SequenceTheorems, TLAPS

Rec == [s \in Slots |-> RecordOf(s)]
Req == { [slot |-> j.slot, value |-> j.value] : j \in job }

\* What the steps of a call rely on.
JobOK ==
    /\ \A j \in job : j.slot \in SlotsOf[adapter]
    /\ state = "closed" => job = {}
    /\ state = "creating" =>
          /\ backend = "file"
          /\ job = {[slot |-> Index, value |-> NewIndex, step |-> "written"]}
          /\ Place(Index) \in DOMAIN files /\ files[Place(Index)] = Torn
    /\ state = "open" /\ backend = "file" =>
          \A j \in job : j.step = "written" => TempPath(Key(j.slot)) \in DOMAIN files

IInv == TypeOK /\ JobOK

------------------------------------------------------------------------------
\* Slots and their places.

LEMMA SlotInside ==
    ASSUME NEW a \in Adapters, NEW s \in SlotsOf[a]
    PROVE  s \in Slots /\ s.kind \in Layout[a]
  BY DEF SlotsOf, Slots

LEMMA SlotOfKind ==
    ASSUME NEW a \in Adapters, NEW s \in Slots, s.kind \in Layout[a]
    PROVE  s \in SlotsOf[a]
  BY DEF SlotsOf, Slots

LEMMA IndexIsSlot == ASSUME adapter \in Adapters PROVE Index \in SlotsOf[adapter]
<1>1. \E s \in SlotsOf[adapter] : s.kind.name = "index"
  BY StorageAssumption
<1> QED
  BY <1>1 DEF Index, IndexOf

\* The provers take no string for a member of STRING.
Tokens == STRING \cup {"_"}

LEMMA SafeType ==
    ASSUME NEW s \in Slots
    PROVE  Safe(Key(s)) \in Seq(Tokens)
<1> DEFINE key == Key(s)
<1>1. key \in Seq(STRING)
  BY StorageAssumption
<1>2. Safe(key) = [i \in 1..Len(key) |-> IF key[i] \in {"/", "\\"} THEN "_" ELSE key[i]]
  BY <1>1 DEF Safe
<1>3. \A i \in 1..Len(key) : (IF key[i] \in {"/", "\\"} THEN "_" ELSE key[i]) \in Tokens
  <2> HIDE DEF key
  <2>1. "_" \in Tokens
    BY DEF Tokens
  <2>2. \A i \in 1..Len(key) : key[i] \in STRING
    BY <1>1
  <2> QED
    BY <2>1, <2>2 DEF Tokens
<1>4. Len(key) \in Nat
  BY <1>1
<1> HIDE DEF key
<1>5. Safe(key) \in [1..Len(key) -> Tokens]
  BY <1>2, <1>3
<1>6. Safe(key) \in Seq(Tokens)
  BY <1>4, <1>5, SeqDef
<1> QED
  BY <1>6 DEF key

LEMMA TempApart ==
    ASSUME NEW s \in Slots, NEW t \in Slots
    PROVE  TempPath(Key(s)) # Path(Key(t))
<1>1. Safe(Key(s)) \in Seq(Tokens) /\ Safe(Key(t)) \in Seq(Tokens)
  BY SafeType
<1>2. \A x, y \in Seq(Tokens) : Append(x, ".tmp") # Append(y, ".json")
  <2> SUFFICES ASSUME NEW x \in Seq(Tokens), NEW y \in Seq(Tokens), Append(x, ".tmp") = Append(y, ".json")
               PROVE FALSE
    OBVIOUS
  <2>1. Len(Append(x, ".tmp")) = Len(x) + 1 /\ Append(x, ".tmp")[Len(x) + 1] = ".tmp"
    BY AppendProperties
  <2>2. Len(Append(y, ".json")) = Len(y) + 1 /\ Append(y, ".json")[Len(y) + 1] = ".json"
    BY AppendProperties
  <2>3. Len(x) = Len(y)
    BY <2>1, <2>2, LenProperties
  <2> QED
    BY <2>1, <2>2, <2>3
<1> QED
  BY <1>1, <1>2 DEF TempPath, Path

LEMMA PlacesApart ==
    ASSUME adapter \in Adapters, NEW s \in SlotsOf[adapter], NEW t \in SlotsOf[adapter], s # t
    PROVE  Place(s) # Place(t)
  BY KeysAreApart DEF Place

------------------------------------------------------------------------------
\* What a write does to the records.

LEMMA SameRecords ==
    ASSUME UNCHANGED <<adapter, backend, files>>
    PROVE  Rec' = Rec
  BY DEF Rec, RecordOf, Readable, Exists, Place

LEMMA PutRecord ==
    ASSUME adapter \in Adapters, NEW t \in SlotsOf[adapter], NEW v,
           Put(Place(t), v), UNCHANGED <<adapter, backend>>
    PROVE  Rec' = [Rec EXCEPT ![t] = IF v = Torn THEN Absent ELSE v]
<1> SUFFICES ASSUME NEW s \in Slots
             PROVE  RecordOf(s)' = IF s = t THEN IF v = Torn THEN Absent ELSE v ELSE RecordOf(s)
  BY DEF Rec
<1>1. t \in Slots /\ t.kind \in Layout[adapter]
  BY SlotInside
<1>2. Place(s)' = Place(s)
  BY DEF Place
<1>3. DOMAIN files' = DOMAIN files \cup {Place(t)}
  BY DEF Put
<1>4. \A p \in DOMAIN files' : files'[p] = IF p = Place(t) THEN v ELSE files[p]
  BY DEF Put
<1>5. CASE s = t
  BY <1>1, <1>2, <1>3, <1>4, <1>5 DEF RecordOf, Readable, Exists
<1>6. CASE s # t /\ s.kind \in Layout[adapter]
  <2>1. s \in SlotsOf[adapter]
    BY <1>6, SlotOfKind
  <2>2. Place(s) # Place(t)
    BY <2>1, <1>6, PlacesApart
  <2> QED
    BY <1>2, <1>3, <1>4, <1>6, <2>2 DEF RecordOf, Readable, Exists
<1>7. CASE s.kind \notin Layout[adapter]
  BY <1>1, <1>7 DEF RecordOf
<1> QED
  BY <1>5, <1>6, <1>7

LEMMA PutTemp ==
    ASSUME adapter \in Adapters, backend = "file", NEW t \in SlotsOf[adapter], NEW v,
           Put(TempPath(Key(t)), v), UNCHANGED <<adapter, backend>>
    PROVE  Rec' = Rec
<1> SUFFICES ASSUME NEW s \in Slots PROVE RecordOf(s)' = RecordOf(s)
  BY DEF Rec
<1>1. Place(s)' = Place(s) /\ Place(s) = Path(Key(s))
  BY DEF Place
<1>2. TempPath(Key(t)) # Place(s)
  BY <1>1, SlotInside, TempApart
<1>3. DOMAIN files' = DOMAIN files \cup {TempPath(Key(t))}
  BY DEF Put
<1>4. \A p \in DOMAIN files' : files'[p] = IF p = TempPath(Key(t)) THEN v ELSE files[p]
  BY DEF Put
<1> QED
  BY <1>1, <1>2, <1>3, <1>4 DEF RecordOf, Readable, Exists

LEMMA RenameRecord ==
    ASSUME adapter \in Adapters, backend = "file", NEW t \in SlotsOf[adapter],
           TempPath(Key(t)) \in DOMAIN files, files[TempPath(Key(t))] # Torn,
           Rename(TempPath(Key(t)), Path(Key(t))), UNCHANGED <<adapter, backend>>
    PROVE  Rec' = [Rec EXCEPT ![t] = files[TempPath(Key(t))]]
<1> DEFINE temp == TempPath(Key(t))
<1> SUFFICES ASSUME NEW s \in Slots
             PROVE  RecordOf(s)' = IF s = t THEN files[temp] ELSE RecordOf(s)
  BY DEF Rec
<1>1. t \in Slots /\ t.kind \in Layout[adapter]
  BY SlotInside
<1>2. Place(s)' = Place(s) /\ Place(s) = Path(Key(s)) /\ Place(t) = Path(Key(t))
  BY DEF Place
<1>3. temp # Place(s)
  BY <1>1, <1>2, TempApart
<1>4. DOMAIN files' = (DOMAIN files \ {temp}) \cup {Place(t)}
  BY <1>2 DEF Rename
<1>5. \A p \in DOMAIN files' : files'[p] = IF p = Place(t) THEN files[temp] ELSE files[p]
  BY <1>2 DEF Rename
<1>6. CASE s = t
  BY <1>1, <1>2, <1>4, <1>5, <1>6 DEF RecordOf, Readable, Exists
<1>7. CASE s # t /\ s.kind \in Layout[adapter]
  <2>1. s \in SlotsOf[adapter]
    BY <1>7, SlotOfKind
  <2>2. Place(s) # Place(t)
    BY <2>1, <1>7, PlacesApart
  <2> QED
    BY <1>2, <1>3, <1>4, <1>5, <1>7, <2>2 DEF RecordOf, Readable, Exists
<1>8. CASE s.kind \notin Layout[adapter]
  BY <1>1, <1>8 DEF RecordOf
<1> QED
  BY <1>6, <1>7, <1>8

LEMMA UnlinkRecord ==
    ASSUME adapter \in Adapters, NEW t \in SlotsOf[adapter],
           Unlinked(Place(t)), UNCHANGED <<adapter, backend>>
    PROVE  Rec' = [Rec EXCEPT ![t] = Absent]
<1> SUFFICES ASSUME NEW s \in Slots
             PROVE  RecordOf(s)' = IF s = t THEN Absent ELSE RecordOf(s)
  BY DEF Rec
<1>1. t \in Slots /\ t.kind \in Layout[adapter]
  BY SlotInside
<1>2. Place(s)' = Place(s)
  BY DEF Place
<1>3. DOMAIN files' = DOMAIN files \ {Place(t)}
  BY DEF Unlinked
<1>4. \A p \in DOMAIN files' : files'[p] = files[p]
  BY DEF Unlinked
<1>5. CASE s = t
  BY <1>2, <1>3, <1>5 DEF RecordOf, Readable, Exists
<1>6. CASE s # t /\ s.kind \in Layout[adapter]
  <2>1. s \in SlotsOf[adapter]
    BY <1>6, SlotOfKind
  <2>2. Place(s) # Place(t)
    BY <2>1, <1>6, PlacesApart
  <2> QED
    BY <1>2, <1>3, <1>4, <1>6, <2>2 DEF RecordOf, Readable, Exists
<1>7. CASE s.kind \notin Layout[adapter]
  BY <1>1, <1>7 DEF RecordOf
<1> QED
  BY <1>5, <1>6, <1>7

------------------------------------------------------------------------------
\* The invariant.

LEMMA InitInv == Init => IInv
<1> SUFFICES ASSUME Init PROVE IInv
  OBVIOUS
<1>1. 0 \in Values /\ 0 \in 0..MaxFaults
  BY StorageAssumption DEF Values
<1> QED
  BY <1>1 DEF Init, IInv, TypeOK, JobOK

LEMMA SameIndex == ASSUME UNCHANGED adapter PROVE Index' = Index
  BY DEF Index

LEMMA PutType ==
    ASSUME NEW path, NEW v \in Values \cup {Torn}, Put(path, v),
           \A p \in DOMAIN files : files[p] \in Values \cup {Torn}
    PROVE  /\ \A p \in DOMAIN files' : files'[p] \in Values \cup {Torn}
           /\ DOMAIN files' = DOMAIN files \cup {path}
           /\ files'[path] = v
  BY DEF Put

\* A call begins: nothing on the disk has changed.
LEMMA BeginInv ==
    ASSUME IInv, Open, NEW s \in SlotsOf[adapter], NEW v \in Values \cup {Absent},
           Begin(s, v), writes' \in Values
    PROVE  IInv'
<1>1. s \in Slots
  BY SlotInside DEF IInv, TypeOK
<1>2. [slot |-> s, value |-> v, step |-> "begun"] \in Jobs
  BY <1>1 DEF Jobs, Steps
<1>3. TypeOK'
  BY <1>2 DEF IInv, TypeOK, Begin
<1>4. JobOK'
  BY DEF JobOK, Begin, Open
<1> QED
  BY <1>3, <1>4 DEF IInv

LEMMA StampType == ASSUME IInv, Stamp PROVE writes' \in Values /\ writes + 1 \in Values
  BY StorageAssumption DEF IInv, TypeOK, Stamp, Values

LEMMA CallInv ==
    ASSUME IInv, NEW s \in SlotsOf[adapter],
           Save(s) \/ Update(s) \/ Delete(s) \/ EnsureIndex(s) \/ Backup(s) \/ Restore(s)
    PROVE  IInv' /\ \E t \in SlotsOf[adapter], v \in Values \cup {Absent} : Open /\ Begin(t, v)
<1>1. CASE Save(s) \/ Update(s)
  BY <1>1, StampType, BeginInv DEF Save, Update
<1>2. CASE Delete(s)
  BY <1>2, BeginInv DEF Delete, IInv, TypeOK
<1>3. CASE EnsureIndex(s)
  <2>1. NewIndex \in Values
    BY StorageAssumption DEF NewIndex, Values
  <2> QED
    BY <1>3, <2>1, BeginInv DEF EnsureIndex, IInv, TypeOK
<1>4. CASE Backup(s)
  <2>1. files[Place(Index)] \in Values
    BY <1>4 DEF Backup, Readable, Exists, IInv, TypeOK
  <2> QED
    BY <1>4, <2>1, BeginInv DEF Backup, IInv, TypeOK
<1>5. CASE Restore(s)
  <2>1. files[Place(s)] \in Values
    BY <1>5 DEF Restore, Readable, Exists, IInv, TypeOK
  <2>2. Index \in SlotsOf[adapter]
    BY IndexIsSlot DEF IInv, TypeOK
  <2> QED
    BY <1>5, <2>1, <2>2, BeginInv DEF Restore, IInv, TypeOK
<1> QED
  BY <1>1, <1>2, <1>3, <1>4, <1>5

LEMMA NextInv == IInv /\ [Next]_vars => IInv'
<1> SUFFICES ASSUME IInv, [Next]_vars PROVE IInv'
  OBVIOUS
<1> USE DEF IInv
<1>0. adapter \in Adapters
  BY DEF TypeOK
<1>1. CASE Connect
  BY <1>1 DEF Connect, TypeOK, JobOK
<1>2. CASE CreateIndex
  <2>1. Index \in SlotsOf[adapter] /\ Index \in Slots /\ Index' = Index
    BY <1>2, <1>0, IndexIsSlot, SlotInside, SameIndex DEF CreateIndex
  <2>2. NewIndex \in Values
    BY StorageAssumption DEF NewIndex, Values
  <2>3. [slot |-> Index, value |-> NewIndex, step |-> "written"] \in Jobs
    BY <2>1, <2>2 DEF Jobs, Steps
  <2>4. Place(Index)' = Place(Index)
    BY <1>2, <2>1 DEF CreateIndex, Place
  <2>5. TypeOK'
    BY <1>2, <2>3, PutType DEF CreateIndex, TypeOK
  <2>6. Place(Index)' \in DOMAIN files' /\ files'[Place(Index)'] = Torn
    BY <1>2, <2>4 DEF CreateIndex, Put
  <2> QED
    BY <1>2, <2>1, <2>5, <2>6 DEF CreateIndex, JobOK
<1>3. CASE IndexCreated
  <2>1. NewIndex \in Values
    BY StorageAssumption DEF NewIndex, Values
  <2>2. TypeOK'
    BY <1>3, <2>1, PutType DEF IndexCreated, TypeOK
  <2> QED
    BY <1>3, <2>2 DEF IndexCreated, JobOK
<1>4. CASE \E s \in SlotsOf[adapter] :
              Save(s) \/ Update(s) \/ Delete(s) \/ EnsureIndex(s) \/ Backup(s) \/ Restore(s)
  BY <1>4, CallInv
<1>5. CASE StartTemp
  <2>1. PICK j \in job : /\ j.value # Absent /\ j.step = "begun"
                         /\ Put(TempPath(Key(j.slot)), Torn)
                         /\ job' = {[j EXCEPT !.step = "written"]}
    BY <1>5 DEF StartTemp
  <2>2. j \in Jobs /\ [j EXCEPT !.step = "written"] \in Jobs
    BY DEF TypeOK, Jobs, Steps
  <2>3. [j EXCEPT !.step = "written"].slot = j.slot
    BY <2>2 DEF Jobs
  <2>4. TypeOK'
    BY <1>5, <2>1, <2>2, PutType DEF StartTemp, TypeOK
  <2>5. TempPath(Key(j.slot)) \in DOMAIN files'
    BY <2>1 DEF Put
  <2> QED
    BY <1>5, <2>1, <2>3, <2>4, <2>5 DEF StartTemp, JobOK
<1>6. CASE FinishTemp
  <2>1. PICK j \in job : j.value # Absent /\ Put(TempPath(Key(j.slot)), j.value)
    BY <1>6 DEF FinishTemp
  <2>2. j.value \in Values
    BY <2>1 DEF TypeOK, Jobs
  <2>3. TypeOK'
    BY <1>6, <2>1, <2>2, PutType DEF FinishTemp, TypeOK
  <2>4. DOMAIN files \subseteq DOMAIN files'
    BY <2>1 DEF Put
  <2> QED
    BY <1>6, <2>3, <2>4 DEF FinishTemp, JobOK
<1>7. CASE Replace
  <2>1. PICK j \in job : /\ j.value # Absent /\ j.step = "written"
                         /\ files[TempPath(Key(j.slot))] = j.value
                         /\ Rename(TempPath(Key(j.slot)), Path(Key(j.slot)))
    BY <1>7 DEF Replace
  <2>2. j.value \in Values
    BY <2>1 DEF TypeOK, Jobs
  <2>3. \A p \in DOMAIN files' : files'[p] \in Values \cup {Torn}
    BY <2>1, <2>2 DEF Rename, TypeOK
  <2> QED
    BY <1>7, <2>3 DEF Replace, TypeOK, JobOK
<1>8. CASE Commit
  <2>1. PICK j \in job : j.value # Absent /\ Put(Key(j.slot), j.value)
    BY <1>8 DEF Commit
  <2>2. j.value \in Values
    BY <2>1 DEF TypeOK, Jobs
  <2> QED
    BY <1>8, <2>1, <2>2, PutType DEF Commit, TypeOK, JobOK
<1>9. CASE Unlink
  BY <1>9 DEF Unlink, Unlinked, TypeOK, JobOK
<1>10. CASE Fail
  BY <1>10, StorageAssumption DEF Fail, TypeOK, JobOK
<1>11. CASE Stop
  BY <1>11, StorageAssumption DEF Stop, TypeOK, JobOK
<1>12. CASE UNCHANGED vars
  <2>1. Index' = Index /\ Place(Index)' = Place(Index)
    BY <1>12 DEF vars, Index, Place
  <2> QED
    BY <1>12, <2>1 DEF vars, TypeOK, JobOK
<1> QED
  BY <1>1, <1>2, <1>3, <1>4, <1>5, <1>6, <1>7, <1>8, <1>9, <1>10, <1>11, <1>12 DEF Next

THEOREM Invariance == Spec => []IInv
  BY InitInv, NextInv, PTL DEF Spec

\* The disk holds only records and torn files, and at most one call is under way.
THEOREM TypeTheorem == Spec => []TypeOK
<1>1. IInv => TypeOK
  BY DEF IInv
<1> QED
  BY <1>1, Invariance, PTL

------------------------------------------------------------------------------
\* The refinement.

LEMMA InitRefines == Init => Store!Init
<1> SUFFICES ASSUME Init PROVE Store!Init
  OBVIOUS
<1>1. \A s \in Slots : RecordOf(s) = Absent
  BY DEF Init, RecordOf, Readable, Exists
<1> QED
  BY <1>1 DEF Init, Store!Init

\* With one call under way, what is asked for is what the call is to write.
LEMMA OneRequest ==
    ASSUME IInv, NEW j \in job
    PROVE  Req = {[slot |-> j.slot, value |-> j.value]}
<1>1. job = {j}
  BY DEF IInv, TypeOK
<1> QED
  BY <1>1 DEF Req

LEMMA NextRefines == IInv /\ [Next]_vars => [Store!Next]_(Store!vars)
<1> SUFFICES ASSUME IInv, [Next]_vars
             PROVE  Store!Next \/ (Rec' = Rec /\ Req' = Req)
  BY DEF Store!vars, Rec, Req
<1>0. adapter \in Adapters
  BY DEF IInv, TypeOK
<1>a. ASSUME NEW t \in Slots, NEW v \in Values \cup {Absent},
             Req = {[slot |-> t, value |-> v]}, Rec' = [Rec EXCEPT ![t] = v], job' = {}
      PROVE  Store!Next
  <2>1. \A r \in Req : r.slot = t /\ r.value = v
    BY <1>a
  <2>2. \E r \in Req : Rec' = [Rec EXCEPT ![r.slot] = r.value]
    BY <1>a, <2>1
  <2>3. Req' = {}
    BY <1>a DEF Req
  <2>4. Store!Take
    BY <2>2, <2>3 DEF Store!Take, Rec, Req
  <2> QED
    BY <2>4 DEF Store!Next
<1>b. ASSUME job # {}, job' = {}, Rec' = Rec
      PROVE  Store!Next
  <2>1. Req # {} /\ Req' = {}
    BY <1>b DEF Req
  <2>2. Store!Drop
    BY <1>b, <2>1 DEF Store!Drop, Rec, Req
  <2> QED
    BY <2>2 DEF Store!Next
<1>c. ASSUME NEW t \in Slots, NEW v \in Values \cup {Absent}, job = {}, Rec' = Rec,
             NEW step, job' = {[slot |-> t, value |-> v, step |-> step]}
      PROVE  Store!Next
  <2>1. Req = {} /\ Req' = {[slot |-> t, value |-> v]}
    BY <1>c DEF Req
  <2>2. Store!Ask(t, v)
    BY <1>c, <2>1 DEF Store!Ask, Rec, Req
  <2> QED
    BY <2>2 DEF Store!Next
<1>1. CASE Connect
  BY <1>1, SameRecords DEF Connect, Req
<1>2. CASE CreateIndex
  <2>1. Index \in SlotsOf[adapter] /\ Index \in Slots
    BY <1>0, IndexIsSlot, SlotInside
  <2>2. NewIndex \in Values
    BY StorageAssumption DEF NewIndex, Values
  <2>3. Rec' = [Rec EXCEPT ![Index] = Absent]
    BY <1>0, <1>2, <2>1, PutRecord DEF CreateIndex
  <2>4. Rec[Index] = Absent
    BY <1>2, <2>1 DEF CreateIndex, Rec, RecordOf, Readable
  <2>5. Rec' = Rec
    BY <2>1, <2>3, <2>4 DEF Rec
  <2> QED
    BY <1>c, <1>2, <2>1, <2>2, <2>5 DEF CreateIndex, IInv, JobOK
<1>3. CASE IndexCreated
  <2>1. Index \in SlotsOf[adapter] /\ Index \in Slots
    BY <1>0, IndexIsSlot, SlotInside
  <2>2. NewIndex \in Values /\ NewIndex # Torn
    BY StorageAssumption DEF NewIndex, Values
  <2>3. Rec' = [Rec EXCEPT ![Index] = NewIndex]
    BY <1>0, <1>3, <2>1, <2>2, PutRecord DEF IndexCreated
  <2>4. Req = {[slot |-> Index, value |-> NewIndex]}
    <3>1. [slot |-> Index, value |-> NewIndex, step |-> "written"] \in job
      BY <1>3 DEF IndexCreated, IInv, JobOK
    <3> QED
      BY <3>1, OneRequest
  <2> QED
    BY <1>a, <1>3, <2>1, <2>2, <2>3, <2>4 DEF IndexCreated
<1>4. CASE \E s \in SlotsOf[adapter] :
              Save(s) \/ Update(s) \/ Delete(s) \/ EnsureIndex(s) \/ Backup(s) \/ Restore(s)
  <2>1. PICK t \in SlotsOf[adapter], v \in Values \cup {Absent} : Open /\ Begin(t, v)
    BY <1>4, CallInv
  <2>2. t \in Slots
    BY <1>0, SlotInside
  <2>3. Rec' = Rec
    BY <2>1, SameRecords DEF Begin
  <2> QED
    BY <1>c, <2>1, <2>2, <2>3 DEF Begin, Open
<1>5. CASE StartTemp
  <2>1. PICK j \in job : /\ Put(TempPath(Key(j.slot)), Torn)
                         /\ job' = {[j EXCEPT !.step = "written"]}
    BY <1>5 DEF StartTemp
  <2>2. j \in Jobs /\ j.slot \in SlotsOf[adapter]
    BY DEF IInv, TypeOK, JobOK
  <2>3. Rec' = Rec
    BY <1>0, <1>5, <2>1, <2>2, PutTemp DEF StartTemp
  <2>4. Req' = {[slot |-> j.slot, value |-> j.value]}
    BY <2>1, <2>2 DEF Req, Jobs
  <2> QED
    BY <2>3, <2>4, OneRequest
<1>6. CASE FinishTemp
  <2>1. PICK j \in job : Put(TempPath(Key(j.slot)), j.value)
    BY <1>6 DEF FinishTemp
  <2>2. j.slot \in SlotsOf[adapter]
    BY DEF IInv, JobOK
  <2>3. Rec' = Rec
    BY <1>0, <1>6, <2>1, <2>2, PutTemp DEF FinishTemp
  <2> QED
    BY <1>6, <2>3 DEF FinishTemp, Req
<1>7. CASE Replace
  <2>1. PICK j \in job : /\ j.value # Absent /\ j.step = "written"
                         /\ files[TempPath(Key(j.slot))] = j.value
                         /\ Rename(TempPath(Key(j.slot)), Path(Key(j.slot)))
    BY <1>7 DEF Replace
  <2>2. j.slot \in SlotsOf[adapter] /\ TempPath(Key(j.slot)) \in DOMAIN files
    BY <1>7, <2>1 DEF Replace, IInv, JobOK
  <2>3. j.slot \in Slots /\ j.value \in Values
    BY <1>0, <2>1, <2>2, SlotInside DEF IInv, TypeOK, Jobs
  <2>4. j.value # Torn
    BY <2>3, StorageAssumption DEF Values
  <2>5. Rec' = [Rec EXCEPT ![j.slot] = j.value]
    BY <1>0, <1>7, <2>1, <2>2, <2>4, RenameRecord DEF Replace
  <2>6. Req = {[slot |-> j.slot, value |-> j.value]}
    BY OneRequest
  <2> QED
    BY <1>a, <1>7, <2>3, <2>5, <2>6 DEF Replace
<1>8. CASE Commit
  <2>1. PICK j \in job : j.value # Absent /\ Put(Key(j.slot), j.value)
    BY <1>8 DEF Commit
  <2>2. j.slot \in SlotsOf[adapter] /\ j.slot \in Slots /\ j.value \in Values
    BY <1>0, <2>1, SlotInside DEF IInv, TypeOK, JobOK, Jobs
  <2>3. j.value # Torn
    BY <2>2, StorageAssumption DEF Values
  <2>4. Key(j.slot) = Place(j.slot)
    BY <1>8 DEF Commit, Place
  <2>5. Rec' = [Rec EXCEPT ![j.slot] = j.value]
    BY <1>0, <1>8, <2>1, <2>2, <2>3, <2>4, PutRecord DEF Commit
  <2>6. Req = {[slot |-> j.slot, value |-> j.value]}
    BY OneRequest
  <2> QED
    BY <1>a, <1>8, <2>2, <2>5, <2>6 DEF Commit
<1>9. CASE Unlink
  <2>1. PICK j \in job : j.value = Absent /\ Unlinked(Place(j.slot))
    BY <1>9 DEF Unlink
  <2>2. j.slot \in SlotsOf[adapter] /\ j.slot \in Slots
    BY <1>0, SlotInside DEF IInv, JobOK
  <2>3. Rec' = [Rec EXCEPT ![j.slot] = Absent]
    BY <1>0, <1>9, <2>1, <2>2, UnlinkRecord DEF Unlink
  <2>4. Req = {[slot |-> j.slot, value |-> Absent]}
    BY <2>1, OneRequest
  <2> QED
    BY <1>a, <1>9, <2>2, <2>3, <2>4 DEF Unlink
<1>10. CASE Fail
  BY <1>b, <1>10, SameRecords DEF Fail
<1>11. CASE Stop
  <2>1. Rec' = Rec
    BY <1>11, SameRecords DEF Stop
  <2>2. CASE job = {}
    BY <1>11, <2>1, <2>2 DEF Stop, Req
  <2>3. CASE job # {}
    BY <1>b, <1>11, <2>1, <2>3 DEF Stop
  <2> QED
    BY <2>2, <2>3
<1>12. CASE UNCHANGED vars
  BY <1>12, SameRecords DEF vars, Req
<1> QED
  BY <1>1, <1>2, <1>3, <1>4, <1>5, <1>6, <1>7, <1>8, <1>9, <1>10, <1>11, <1>12 DEF Next

\* A provider behind an adapter is a store of records: a call changes the one
\* record it names, wholly or not at all, and stopping changes none.
THEOREM Refinement == Spec => RefinesStore
  BY InitRefines, NextRefines, Invariance, PTL DEF Spec, RefinesStore, Store!Spec
------------------------------------------------------------------------------
\* The listings. Everything on the disk belongs to a record of the service: its
\* file or row, or the file that a call under way, or a stopped one, has left.
DiskOK ==
    \A p \in DOMAIN files : \E s \in SlotsOf[adapter] :
        p = Place(s) \/ (backend = "file" /\ p = TempPath(Key(s)))

LEMMA PutDisk ==
    ASSUME DiskOK, UNCHANGED <<adapter, backend>>, NEW s \in SlotsOf[adapter], NEW p, NEW v,
           p = Place(s) \/ (backend = "file" /\ p = TempPath(Key(s))),
           Put(p, v)
    PROVE  DiskOK'
<1>1. DOMAIN files' = DOMAIN files \cup {p}
  BY DEF Put
<1>2. \A t : Place(t)' = Place(t)
  BY DEF Place
<1> QED
  BY <1>1, <1>2 DEF DiskOK

LEMMA DiskNext == IInv /\ DiskOK /\ [Next]_vars => DiskOK'
<1> SUFFICES ASSUME IInv, DiskOK, [Next]_vars PROVE DiskOK'
  OBVIOUS
<1>0. adapter \in Adapters /\ Index \in SlotsOf[adapter] /\ \A j \in job : j.slot \in SlotsOf[adapter]
  BY IndexIsSlot DEF IInv, TypeOK, JobOK
<1>a. ASSUME DOMAIN files' \subseteq DOMAIN files, UNCHANGED <<adapter, backend>>
      PROVE  DiskOK'
  <2>1. \A t : Place(t)' = Place(t)
    BY <1>a DEF Place
  <2> QED
    BY <1>a, <2>1 DEF DiskOK
<1>1. CASE Connect \/ Fail \/ Stop \/ UNCHANGED vars
  BY <1>a, <1>1 DEF Connect, Fail, Stop, vars
<1>2. CASE CreateIndex
  BY <1>0, <1>2, PutDisk DEF CreateIndex
<1>3. CASE IndexCreated
  BY <1>0, <1>3, PutDisk DEF IndexCreated
<1>4. CASE \E s \in SlotsOf[adapter] :
              Save(s) \/ Update(s) \/ Delete(s) \/ EnsureIndex(s) \/ Backup(s) \/ Restore(s)
  <2>1. PICK t \in SlotsOf[adapter], v \in Values \cup {Absent} : Begin(t, v)
    BY <1>4, CallInv
  <2> QED
    BY <1>a, <2>1 DEF Begin
<1>5. CASE StartTemp
  <2>1. PICK j \in job : Put(TempPath(Key(j.slot)), Torn)
    BY <1>5 DEF StartTemp
  <2> QED
    BY <1>0, <1>5, <2>1, PutDisk DEF StartTemp
<1>6. CASE FinishTemp
  <2>1. PICK j \in job : Put(TempPath(Key(j.slot)), j.value)
    BY <1>6 DEF FinishTemp
  <2> QED
    BY <1>0, <1>6, <2>1, PutDisk DEF FinishTemp
<1>7. CASE Replace
  <2>1. PICK j \in job : Rename(TempPath(Key(j.slot)), Path(Key(j.slot)))
    BY <1>7 DEF Replace
  <2>2. DOMAIN files' \subseteq DOMAIN files \cup {Path(Key(j.slot))}
    BY <2>1 DEF Rename
  <2>3. UNCHANGED <<adapter, backend>> /\ backend = "file"
    BY <1>7 DEF Replace
  <2>4. \A t : Place(t)' = Place(t)
    BY <2>3 DEF Place
  <2>5. Path(Key(j.slot)) = Place(j.slot)
    BY <2>3 DEF Place
  <2> QED
    BY <1>0, <2>2, <2>3, <2>4, <2>5 DEF DiskOK
<1>8. CASE Commit
  <2>1. PICK j \in job : Put(Key(j.slot), j.value)
    BY <1>8 DEF Commit
  <2>2. Key(j.slot) = Place(j.slot)
    BY <1>8 DEF Commit, Place
  <2> QED
    BY <1>0, <1>8, <2>1, <2>2, PutDisk DEF Commit
<1>9. CASE Unlink
  <2>1. PICK j \in job : Unlinked(Place(j.slot))
    BY <1>9 DEF Unlink
  <2>2. DOMAIN files' \subseteq DOMAIN files
    BY <2>1 DEF Unlinked
  <2> QED
    BY <1>a, <1>9, <2>2 DEF Unlink
<1> QED
  BY <1>1, <1>2, <1>3, <1>4, <1>5, <1>6, <1>7, <1>8, <1>9 DEF Next

\* The name of a file is the key of its record and the ending.
LEMMA PathEnds ==
    ASSUME NEW s \in Slots
    PROVE  /\ Front(Path(Key(s))) = Safe(Key(s)) /\ Last(Path(Key(s))) = ".json"
           /\ Last(TempPath(Key(s))) = ".tmp"
<1> DEFINE x == Safe(Key(s))
<1>1. x \in Seq(Tokens)
  BY SafeType
<1>2. \A y \in Seq(Tokens) :
        /\ Front(Append(y, ".json")) = y /\ Last(Append(y, ".json")) = ".json"
        /\ Last(Append(y, ".tmp")) = ".tmp"
  <2> SUFFICES ASSUME NEW y \in Seq(Tokens)
               PROVE  /\ Front(Append(y, ".json")) = y /\ Last(Append(y, ".json")) = ".json"
                      /\ Last(Append(y, ".tmp")) = ".tmp"
    OBVIOUS
  <2>0. Len(y) \in Nat
    OBVIOUS
  <2>1. Len(Append(y, ".json")) = Len(y) + 1 /\ Append(y, ".json")[Len(y) + 1] = ".json"
    BY AppendProperties
  <2>2. Len(Append(y, ".tmp")) = Len(y) + 1 /\ Append(y, ".tmp")[Len(y) + 1] = ".tmp"
    BY AppendProperties
  <2>3. \A i \in 1..Len(y) : Append(y, ".json")[i] = y[i]
    BY AppendProperties
  <2>4. Front(Append(y, ".json")) = SubSeq(Append(y, ".json"), 1, Len(y))
    BY <2>0, <2>1 DEF Front
  <2>5. SubSeq(Append(y, ".json"), 1, Len(y)) = [i \in 1..Len(y) |-> Append(y, ".json")[i]]
    BY <2>0
  <2>6. [i \in 1..Len(y) |-> Append(y, ".json")[i]] = [i \in 1..Len(y) |-> y[i]]
    BY <2>3
  <2>7. y = [i \in 1..Len(y) |-> y[i]]
    BY SeqDef
  <2> QED
    BY <2>1, <2>2, <2>4, <2>5, <2>6, <2>7 DEF Last
<1> HIDE DEF x
<1>3. Front(Append(x, ".json")) = x /\ Last(Append(x, ".json")) = ".json" /\ Last(Append(x, ".tmp")) = ".tmp"
  BY <1>1, <1>2
<1> QED
  BY <1>3 DEF x, Path, TempPath

\* The files that a listing names are those of the records, without the index.
LEMMA FileKeys ==
    ASSUME IInv, DiskOK, backend = "file", ListedKinds(adapter) # {}, NEW prefix
    PROVE  ListKeys(prefix) = { Key(t) : t \in { s \in SlotsOf[adapter] : Exists(s) /\ s # Index } }
<1>0. adapter \in Adapters /\ Index \in SlotsOf[adapter]
  BY IndexIsSlot DEF IInv, TypeOK
<1>1. \A s \in SlotsOf[adapter] :
        /\ Place(s) = Path(Key(s)) /\ Last(Place(s)) = ".json" /\ Front(Place(s)) = Key(s)
        /\ Last(TempPath(Key(s))) = ".tmp"
  <2> SUFFICES ASSUME NEW s \in SlotsOf[adapter]
               PROVE  /\ Place(s) = Path(Key(s)) /\ Last(Place(s)) = ".json" /\ Front(Place(s)) = Key(s)
                      /\ Last(TempPath(Key(s))) = ".tmp"
    OBVIOUS
  <2>1. s \in Slots
    BY <1>0, SlotInside
  <2>2. Safe(Key(s)) = Key(s)
    BY <1>0, KindsAreApart
  <2> QED
    BY <2>1, <2>2, PathEnds DEF Place
<1>2. ListKeys(prefix) = { Front(p) : p \in { q \in DOMAIN files : Last(q) = ".json" /\ q # Place(Index) } }
  BY DEF ListKeys
<1>3. ASSUME NEW p \in DOMAIN files, Last(p) = ".json", p # Place(Index)
      PROVE  \E t \in SlotsOf[adapter] : Exists(t) /\ t # Index /\ Front(p) = Key(t)
  <2>1. PICK t \in SlotsOf[adapter] : p = Place(t) \/ p = TempPath(Key(t))
    BY DEF DiskOK
  <2>2. p = Place(t)
    BY <1>1, <1>3, <2>1
  <2> QED
    BY <1>1, <1>3, <2>2 DEF Exists
<1>4. ASSUME NEW t \in SlotsOf[adapter], Exists(t), t # Index
      PROVE  Place(t) \in DOMAIN files /\ Last(Place(t)) = ".json" /\ Place(t) # Place(Index)
  BY <1>0, <1>1, <1>4, PlacesApart DEF Exists
<1> QED
  BY <1>1, <1>2, <1>3, <1>4

\* The rows that a listing names are those of the records, with the index.
LEMMA RowKeys ==
    ASSUME IInv, DiskOK, backend = "sqlite", NEW prefix
    PROVE  ListKeys(prefix) =
             { Key(t) : t \in { s \in SlotsOf[adapter] : Exists(s) /\ IsPrefix(prefix, Key(s)) } }
<1>1. \A s : Place(s) = Key(s)
  BY DEF Place
<1>2. ListKeys(prefix) = { p \in DOMAIN files : IsPrefix(prefix, p) }
  BY DEF ListKeys
<1>3. \A p \in DOMAIN files : \E s \in SlotsOf[adapter] : p = Key(s)
  BY <1>1 DEF DiskOK
<1> QED
  BY <1>1, <1>2, <1>3 DEF Exists

LEMMA NoPrefix == ASSUME NEW s \in Slots PROVE IsPrefix(<< >>, Key(s))
<1>1. Key(s) \in Seq(STRING)
  BY StorageAssumption
<1>2. \A x \in Seq(STRING) : IsPrefix(<< >>, x)
  BY DEF IsPrefix
<1> QED
  BY <1>1, <1>2

LEMMA ListingLemma == IInv /\ DiskOK => ListsExactly
<1> SUFFICES ASSUME IInv, DiskOK, NEW k \in ListedKinds(adapter)
             PROVE  LET stored == { <<s.id>> : s \in { t \in SlotsOf[adapter] : t.kind = k /\ Exists(t) } }
                    IN /\ stored \subseteq Listing(k)
                       /\ k.checks # {} => Listing(k) = stored
  BY DEF ListsExactly
<1> DEFINE prefix == IF k.checks = {} THEN k.prefix ELSE << >>
           listed == { l \in ListKeys(prefix) : Passes(adapter, k, l) }
<1>0. adapter \in Adapters
  BY DEF IInv, TypeOK
<1>1. Listing(k) = { IdOf(k, key) : key \in listed }
  BY DEF Listing
<1>2. ASSUME NEW s \in SlotsOf[adapter], s.kind = k
      PROVE  /\ s # Index /\ Passes(adapter, k, Key(s)) /\ IsPrefix(prefix, Key(s))
             /\ IdOf(k, Key(s)) = <<s.id>>
  <2>1. s # IndexOf(adapter) /\ Passes(adapter, k, Key(s)) /\ IsPrefix(k.prefix, Key(s))
        /\ IdOf(k, Key(s)) = <<s.id>>
    BY <1>0, <1>2, KindsAreApart
  <2>2. IsPrefix(<< >>, Key(s))
    BY <1>0, SlotInside, NoPrefix
  <2> QED
    BY <2>1, <2>2 DEF Index
<1>3. ASSUME NEW s \in SlotsOf[adapter], s.kind = k, Exists(s)
      PROVE  Key(s) \in listed
  <2>1. CASE backend = "file"
    <3>1. Key(s) \in ListKeys(prefix)
      BY <1>2, <1>3, <2>1, FileKeys
    <3> QED
      BY <1>2, <1>3, <3>1
  <2>2. CASE backend = "sqlite"
    <3>1. Key(s) \in ListKeys(prefix)
      BY <1>2, <1>3, <2>2, RowKeys
    <3> QED
      BY <1>2, <1>3, <3>1
  <2> QED
    BY <2>1, <2>2 DEF IInv, TypeOK, Backends
<1>4. ASSUME NEW key \in listed, k.checks # {}
      PROVE  \E s \in SlotsOf[adapter] : s.kind = k /\ Exists(s) /\ key = Key(s)
  <2>1. PICK s \in SlotsOf[adapter] : Exists(s) /\ key = Key(s)
    <3>1. CASE backend = "file"
      BY <3>1, FileKeys
    <3>2. CASE backend = "sqlite"
      BY <3>2, RowKeys
    <3> QED
      BY <3>1, <3>2 DEF IInv, TypeOK, Backends
  <2>2. s.kind = k
    BY <1>0, <1>4, <2>1, KindsAreApart
  <2> QED
    BY <2>1, <2>2
<1>5. { <<s.id>> : s \in { t \in SlotsOf[adapter] : t.kind = k /\ Exists(t) } } \subseteq Listing(k)
  <2> SUFFICES ASSUME NEW s \in SlotsOf[adapter], s.kind = k, Exists(s)
               PROVE  <<s.id>> \in Listing(k)
    OBVIOUS
  <2>1. Key(s) \in listed /\ IdOf(k, Key(s)) = <<s.id>>
    BY <1>2, <1>3
  <2> HIDE DEF listed
  <2> QED
    BY <1>1, <2>1
<1>6. ASSUME k.checks # {}
      PROVE  Listing(k) \subseteq { <<s.id>> : s \in { t \in SlotsOf[adapter] : t.kind = k /\ Exists(t) } }
  <2> SUFFICES ASSUME NEW key \in listed
               PROVE  \E s \in SlotsOf[adapter] : s.kind = k /\ Exists(s) /\ IdOf(k, key) = <<s.id>>
    <3> HIDE DEF listed
    <3> QED
      BY <1>1
  <2> QED
    BY <1>2, <1>4, <1>6
<1> QED
  BY <1>5, <1>6

\* Whatever calls failed and wherever the process stopped, a listing names every
\* stored record of its kind and, if the adapter checks the keys, nothing else.
THEOREM ListingTheorem == Spec => []ListsExactly
<1>1. Init => DiskOK
  BY DEF Init, DiskOK
<1> QED
  BY <1>1, DiskNext, ListingLemma, Invariance, PTL DEF Spec
==============================================================================
