--------------------------- MODULE Accounts_proofs ---------------------------
(***************************************************************************)
(* Proofs about Accounts, for any users, wallets and profiles: an index    *)
(* never names what cannot be loaded, and the index of users agrees with   *)
(* the records whenever an operation is over; validators are numbered      *)
(* without gaps; a stop damages only what it cut; and a run finds the      *)
(* right keys.                                                             *)
(*                                                                         *)
(* What makes the first inductive is the write still to come: between      *)
(* the two writes of an operation, the record is there when the entry is   *)
(* next, and the entry is gone when the record is next. A user whose entry *)
(* is next has one that the validation accepts.                            *)
(***************************************************************************)
EXTENDS Accounts, FiniteSetTheorems, WellFoundedInduction, TLAPS

Records ==
    /\ userRec \in [Users -> UserRecord \cup {None}]
    /\ walletRec \in [Wallets -> WalletRecord \cup {None}]
    /\ valRec \in [Indices -> Validator \cup {None}]

Entries ==
    /\ userIdx \in [Users -> UserRecord \cup {None}]
    /\ DOMAIN walletIdx = Wallets
    /\ DOMAIN valIdx = Indices

UserJobs   == {"index_user", "drop_user", "sync_user"}
WalletJobs == {"index_wallet", "link_wallet", "drop_wallet", "unlink_wallet", "sync_wallet"}
ValJobs    == {"index_validator", "sync_validator"}

\* What the next write relies on.
JobOK ==
    /\ job.next \in UserJobs \cup WalletJobs \cup ValJobs \cup {"nothing"}
    /\ job.next \in UserJobs => job.on \in Users
    /\ job.next \in WalletJobs => job.on \in Wallets
    /\ job.next \in ValJobs => job.on \in Indices
    /\ job.next \in {"index_user", "sync_user"} => userRec[job.on] # None
    /\ job.next = "index_user" => Indexable(job.on)
    /\ job.next = "sync_user" => userIdx[job.on] # None
    /\ job.next = "drop_user" => userIdx[job.on] = None
    /\ job.next \in {"index_wallet", "sync_wallet"} => walletRec[job.on] # None
    /\ job.next = "drop_wallet" => walletIdx[job.on] = None
    /\ job.next \in ValJobs => valRec[job.on] # None

\* The only user whose entry may differ is the one being written.
Mirrors ==
    \A u \in Users : userIdx[u] = userRec[u] \/ (job.next \in UserJobs /\ job.on = u)

IInv == Records /\ Entries /\ JobOK /\ Mirrors /\ IndexedHasRecord

LEMMA OwnerType == ASSUME NEW w \in Wallets PROVE Owner(w) \in Users
  BY DEF Wallets, Owner

\* A user record that is accepted is never without an entry because the entry is
\* refused, although the two are validated as different views.
LEMMA EntryAccepted == ASSUME NEW u \in Users, Creatable(u) PROVE Indexable(u)
<1> DEFINE r == NewUser(u, Given[u])
<1>1. UserFields(r) /\ UserFormats(r) /\ UserTimestamps(r) /\ UserRules(r, "create")
  BY DEF Creatable, UserData
<1>2. RequiredForView(r, "index")
  BY <1>1 DEF UserFields, RequiredForView
<1>3. UserRules(r, "index")
  BY <1>1 DEF UserRules, ValidatorRules
<1> QED
  BY <1>1, <1>2, <1>3 DEF Indexable, UserData

LEMMA InitInv == Init => IInv
  BY DEF Init, IInv, Records, Entries, JobOK, Mirrors, IndexedHasRecord, Idle,
         UserJobs, WalletJobs, ValJobs

LEMMA ZeroTotal == 0 \in Totals
<1> DEFINE n == Cardinality(Wallets)
<1>1. n \in Nat
  BY AccountsAssumption, FS_CardinalityType
<1>2. MaxBalance \in Nat
  BY AccountsAssumption
<1> HIDE DEF n
<1>3. 0 <= MaxBalance * n
  BY <1>1, <1>2, SMT
<1>4. MaxBalance * n \in Int
  BY <1>1, <1>2, SMT
<1>5. 0 \in 0..MaxBalance * n
  BY <1>3, <1>4
<1> QED
  BY <1>5 DEF Totals, n

\* Records that are written are records, hence something.
LEMMA UserWritten ==
  /\ [wallets |-> {}, total |-> 0] \in UserRecord
  /\ \A r \in UserRecord : \A s \in SUBSET Wallets : [r EXCEPT !.wallets = s] \in UserRecord
  /\ \A r \in UserRecord : \A t \in Totals : [r EXCEPT !.total = t] \in UserRecord
  BY ZeroTotal DEF UserRecord

LEMMA WalletWritten ==
  /\ \A a \in Addresses : [at |-> a, balance |-> 0] \in WalletRecord
  /\ \A r \in WalletRecord : \A b \in Balances : [r EXCEPT !.balance = b] \in WalletRecord
  BY AccountsAssumption DEF WalletRecord, Balances

LEMMA ValidatorWritten ==
  /\ \A u \in Users : [user |-> u, status |-> "active_ongoing"] \in Validator
  /\ \A r \in Validator : \A s \in Statuses : [r EXCEPT !.status = s] \in Validator
  BY DEF Validator, Statuses

LEMMA NotNone ==
  /\ \A r \in UserRecord : r # None
  /\ \A r \in WalletRecord : r # None
  /\ \A r \in Validator : r # None
  BY AccountsAssumption

USE DEF UserJobs, WalletJobs, ValJobs

\* Each write, with what it needs of the invariant.
LEMMA UserSteps == IInv /\ UserStep => IInv'
<1> SUFFICES ASSUME IInv, UserStep PROVE IInv'
  OBVIOUS
<1> USE DEF IInv, Records, Entries, JobOK, Mirrors, IndexedHasRecord, walletVars, valVars, Done, Idle
<1>1. CASE IndexUser
  BY <1>1 DEF IndexUser
<1>2. CASE DropUser
  BY <1>2 DEF DropUser
<1>3. CASE SyncUser
  BY <1>3 DEF SyncUser
<1> QED
  BY <1>1, <1>2, <1>3 DEF UserStep

\* An owner's record and entry agree when a wallet is linked to it.
LEMMA RelinkStep ==
  ASSUME IInv, NEW u \in Users, NEW links \in SUBSET Wallets,
         job.next \notin UserJobs, Relink(u, links),
         UNCHANGED <<userIdx, walletVars, valVars>>
  PROVE  IInv'
<1> USE DEF IInv, Records, Entries, JobOK, Mirrors, IndexedHasRecord, walletVars, valVars
<1>1. CASE userRec' = userRec /\ job' = Idle
  BY <1>1 DEF Idle
<1>2. CASE /\ userRec[u] # None
           /\ userRec' = [userRec EXCEPT ![u].wallets = links]
           /\ job' = [next |-> "sync_user", on |-> u]
  <2>1. userRec[u] \in UserRecord /\ userIdx[u] = userRec[u]
    BY <1>2
  <2>2. userRec'[u] \in UserRecord /\ userRec'[u] # None
    BY <1>2, <2>1, UserWritten, NotNone
  <2>3. Records'
    BY <1>2, <2>2
  <2>4. Entries' /\ IndexedHasRecord'
    BY <1>2, <2>2
  <2>5. JobOK' /\ Mirrors'
    BY <1>2, <2>1, <2>2
  <2> QED
    BY <2>3, <2>4, <2>5
<1> QED
  BY <1>1, <1>2 DEF Relink, Then, Done

LEMMA WalletStepInv == IInv /\ WalletStep => IInv'
<1> SUFFICES ASSUME IInv, WalletStep PROVE IInv'
  OBVIOUS
<1>1. CASE IndexWallet
  <2>1. job.on \in Wallets
    BY <1>1 DEF IndexWallet, IInv, JobOK
  <2>2. PICK e : walletIdx' = [walletIdx EXCEPT ![job.on] = e]
    BY <1>1 DEF IndexWallet
  <2> QED
    BY <1>1, <2>1, <2>2 DEF IndexWallet, Then, IInv, Records, Entries, JobOK, Mirrors,
       IndexedHasRecord, userVars, valVars
<1>2. CASE LinkWallet
  <2>1. job.on \in Wallets /\ Owner(job.on) \in Users
    BY <1>2, OwnerType DEF LinkWallet, IInv, JobOK
  <2> DEFINE u == Owner(job.on)
             links == IF userRec[u] = None THEN {} ELSE userRec[u].wallets \cup {job.on}
  <2>2. links \in SUBSET Wallets
    BY <2>1 DEF IInv, Records, UserRecord
  <2>3. Relink(u, links) /\ job.next \notin UserJobs /\ UNCHANGED <<userIdx, walletVars, valVars>>
    BY <1>2 DEF LinkWallet
  <2> QED
    BY <2>1, <2>2, <2>3, RelinkStep
<1>3. CASE DropWallet
  BY <1>3 DEF DropWallet, Then, IInv, Records, Entries, JobOK, Mirrors, IndexedHasRecord,
     userVars, valVars
<1>4. CASE UnlinkWallet
  <2>1. job.on \in Wallets /\ Owner(job.on) \in Users
    BY <1>4, OwnerType DEF UnlinkWallet, IInv, JobOK
  <2> DEFINE u == Owner(job.on)
             links == IF userRec[u] = None THEN {} ELSE userRec[u].wallets \ {job.on}
  <2>2. links \in SUBSET Wallets
    BY <2>1 DEF IInv, Records, UserRecord
  <2>3. Relink(u, links) /\ job.next \notin UserJobs /\ UNCHANGED <<userIdx, walletVars, valVars>>
    BY <1>4 DEF UnlinkWallet
  <2> QED
    BY <2>1, <2>2, <2>3, RelinkStep
<1>5. CASE SyncWallet
  <2>1. job.on \in Wallets
    BY <1>5 DEF SyncWallet, IInv, JobOK
  <2>2. \/ walletIdx' = walletIdx
        \/ /\ walletIdx[job.on] # None
           /\ \E e : walletIdx' = [walletIdx EXCEPT ![job.on] = e]
    BY <1>5 DEF SyncWallet, Indexed
  <2> QED
    BY <1>5, <2>1, <2>2 DEF SyncWallet, Done, Idle, IInv, Records, Entries, JobOK, Mirrors,
       IndexedHasRecord, userVars, valVars
<1> QED
  BY <1>1, <1>2, <1>3, <1>4, <1>5 DEF WalletStep

LEMMA ValStepInv == IInv /\ ValStep => IInv'
<1> SUFFICES ASSUME IInv, ValStep PROVE IInv'
  OBVIOUS
<1> USE DEF IInv, Records, Entries, JobOK, Mirrors, IndexedHasRecord, userVars, walletVars, Done, Idle
<1>1. CASE IndexValidator
  BY <1>1 DEF IndexValidator
<1>2. CASE SyncValidator
  BY <1>2 DEF SyncValidator
<1> QED
  BY <1>1, <1>2 DEF ValStep

\* What the first writes leave, whoever makes them.
LEMMA SaveUserInv ==
  ASSUME IInv, NEW u \in Users, job = Idle, SaveUser(u), UNCHANGED <<userIdx, walletVars, valVars>>
  PROVE  IInv'
<1> USE DEF IInv, Records, Entries, JobOK, Mirrors, IndexedHasRecord, walletVars, valVars, Idle
<1>1. CASE userRec' = userRec /\ job' = Idle
  BY <1>1
<1>2. CASE /\ userRec' = [userRec EXCEPT ![u] = [wallets |-> {}, total |-> 0]]
           /\ job' = [next |-> "index_user", on |-> u]
           /\ Creatable(u)
  BY <1>2, UserWritten, NotNone, EntryAccepted
<1> QED
  BY <1>1, <1>2 DEF SaveUser, Then, Done

LEMMA SaveWalletInv ==
  ASSUME IInv, NEW w \in Wallets, NEW a \in Addresses, job = Idle, SaveWallet(w, a),
         UNCHANGED <<userVars, walletIdx, valVars>>
  PROVE  IInv'
<1> USE DEF IInv, Records, Entries, JobOK, Mirrors, IndexedHasRecord, userVars, valVars, Idle
<1>1. CASE walletRec' = walletRec /\ job' = Idle
  BY <1>1
<1>2. CASE /\ walletRec' = [walletRec EXCEPT ![w] = [at |-> a, balance |-> 0]]
           /\ job' = [next |-> "index_wallet", on |-> w]
  BY <1>2, WalletWritten, NotNone
<1> QED
  BY <1>1, <1>2 DEF SaveWallet, Then, Done

LEMMA SaveValidatorInv ==
  ASSUME IInv, NEW u \in Users, NEW w \in Wallets, job = Idle, SaveValidator(u, w),
         UNCHANGED <<userVars, walletVars, valIdx>>
  PROVE  IInv'
<1> USE DEF IInv, Records, Entries, JobOK, Mirrors, IndexedHasRecord, userVars, walletVars, Idle
<1>1. CASE valRec' = valRec /\ job' = Idle
  BY <1>1
<1>2. CASE /\ total \in Indices
           /\ valRec' = [valRec EXCEPT ![total] = [user |-> u, status |-> "active_ongoing"]]
           /\ job' = [next |-> "index_validator", on |-> total]
  BY <1>2, ValidatorWritten, NotNone
<1> QED
  BY <1>1, <1>2 DEF SaveValidator, Then, Done

LEMMA RunStepInv == IInv /\ RunStep => IInv'
<1> SUFFICES ASSUME IInv, RunStep PROVE IInv'
  OBVIOUS
<1>1. CASE BootstrapUser
  BY <1>1, SaveUserInv DEF BootstrapUser, Doing
<1>2. CASE BootstrapWallet
  <2>1. PICK w \in Wallets, a \in Addresses : SaveWallet(w, a)
    BY <1>2 DEF BootstrapWallet
  <2> QED
    BY <1>2, <2>1, SaveWalletInv DEF BootstrapWallet, Doing
<1>3. CASE MapKeys
  BY <1>3 DEF MapKeys, IInv, Records, Entries, JobOK, Mirrors, IndexedHasRecord,
     userVars, walletVars, valVars
<1>4. CASE BootstrapValidator
  <2>1. CASE \E u \in Users, w \in Wallets : SaveValidator(u, w)
    BY <1>4, <2>1, SaveValidatorInv DEF BootstrapValidator, Doing, walletVars
  <2>2. CASE UNCHANGED <<valRec, job>>
    BY <1>4, <2>2 DEF BootstrapValidator, IInv, Records, Entries, JobOK, Mirrors, IndexedHasRecord,
       userVars, walletVars
  <2> QED
    BY <1>4, <2>1, <2>2 DEF BootstrapValidator, Found
<1> QED
  BY <1>1, <1>2, <1>3, <1>4 DEF RunStep

LEMMA CallInv == IInv /\ Call => IInv'
<1> SUFFICES ASSUME IInv, Call PROVE IInv'
  OBVIOUS
<1> USE DEF IInv, Records, Entries, JobOK, Mirrors, IndexedHasRecord, Then, Done, Idle,
        userVars, walletVars, valVars
<1>1. CASE \E u \in Users : CreateUser(u)
  BY <1>1, SaveUserInv DEF CreateUser, ByHand
<1>2. ASSUME NEW u \in Users, DeleteUser(u) PROVE IInv'
  BY <1>2 DEF DeleteUser, ByHand
<1>3. ASSUME NEW u \in Users, Reconcile(u) PROVE IInv'
  <2>1. PICK sum \in Totals : userRec' = [userRec EXCEPT ![u].total = sum]
    BY <1>3 DEF Reconcile
  <2>2. userRec[u] \in UserRecord /\ userIdx[u] # None
    BY <1>3 DEF Reconcile
  <2>3. userRec'[u] \in UserRecord /\ userRec'[u] # None
    BY <2>1, <2>2, UserWritten, NotNone
  <2>4. userRec' \in [Users -> UserRecord \cup {None}]
    BY <2>1, <2>3
  <2>5. \A v \in Users \ {u} : userRec'[v] = userRec[v]
    BY <2>1
  <2> QED
    BY <1>3, <2>2, <2>3, <2>4, <2>5 DEF Reconcile, ByHand
<1>4. ASSUME NEW w \in Wallets, NEW i \in Accounts, CreateWallet(w, <<Owner(w), i>>) PROVE IInv'
  <2>1. <<Owner(w), i>> \in Addresses
    BY OwnerType DEF Addresses
  <2> QED
    BY <1>4, <2>1, SaveWalletInv DEF CreateWallet, ByHand
<1>5. ASSUME NEW w \in Wallets, DeleteWallet(w) PROVE IInv'
  BY <1>5 DEF DeleteWallet, ByHand
<1>6. ASSUME NEW w \in Wallets, NEW b \in Balances, UpdateBalance(w, b) PROVE IInv'
  <2>1. walletRec' = [walletRec EXCEPT ![w].balance = b] /\ walletRec[w] \in WalletRecord
    BY <1>6 DEF UpdateBalance
  <2>2. walletRec'[w] \in WalletRecord /\ walletRec'[w] # None
    BY <2>1, WalletWritten, NotNone
  <2>3. walletRec' \in [Wallets -> WalletRecord \cup {None}]
    BY <2>1, <2>2
  <2>4. \A v \in Wallets \ {w} : walletRec'[v] = walletRec[v]
    BY <2>1
  <2> QED
    BY <1>6, <2>2, <2>3, <2>4 DEF UpdateBalance, ByHand
<1>7. CASE RebuildWalletIndex
  <2>1. PICK seat : walletIdx' = [w \in Wallets |-> IF walletRec[w] # None
                                                    THEN EntryAt(w, seat[w]) ELSE None]
    BY <1>7 DEF RebuildWalletIndex
  <2>2. DOMAIN walletIdx' = Wallets /\ \A w \in Wallets : walletIdx'[w] # None => walletRec[w] # None
    BY <2>1
  <2> QED
    BY <1>7, <2>2 DEF RebuildWalletIndex, ByHand
<1>8. CASE \E u \in Users, w \in Wallets : Register(u, w)
  BY <1>8, SaveValidatorInv DEF Register, ByHand
<1>9. ASSUME NEW i \in Indices, NEW s \in Statuses, UpdateStatus(i, s) PROVE IInv'
  <2>1. valRec' = [valRec EXCEPT ![i].status = s] /\ valRec[i] \in Validator
    BY <1>9 DEF UpdateStatus
  <2>2. valRec'[i] \in Validator /\ valRec'[i] # None
    BY <2>1, ValidatorWritten, NotNone
  <2>3. valRec' \in [Indices -> Validator \cup {None}]
    BY <2>1, <2>2
  <2>4. \A j \in Indices \ {i} : valRec'[j] = valRec[j]
    BY <2>1
  <2> QED
    BY <1>9, <2>2, <2>3, <2>4 DEF UpdateStatus, ByHand
<1> QED
  BY <1>1, <1>2, <1>3, <1>4, <1>5, <1>6, <1>7, <1>8, <1>9 DEF Call

LEMMA NextInv == IInv /\ [Next]_vars => IInv'
<1> SUFFICES ASSUME IInv, [Next]_vars PROVE IInv'
  OBVIOUS
<1>1. CASE Bootstrap
  BY <1>1 DEF Bootstrap, IInv, Records, Entries, JobOK, Mirrors, IndexedHasRecord,
     userVars, walletVars, valVars
<1>2. CASE Restart
  BY <1>2 DEF Restart, Done, Idle, IInv, Records, Entries, JobOK, Mirrors, IndexedHasRecord,
     userVars, walletVars, valVars
<1>3. CASE UNCHANGED vars
  BY <1>3 DEF vars, userVars, walletVars, valVars, IInv, Records, Entries, JobOK, Mirrors,
     IndexedHasRecord
<1> QED
  BY <1>1, <1>2, <1>3, UserSteps, WalletStepInv, ValStepInv, RunStepInv, CallInv DEF Next

\* What the next write relies on is there.
THEOREM Invariance == Spec => []IInv
<1> QED
  BY InitInv, NextInv, PTL DEF Spec

\* Whatever an index names can be loaded, for any users, wallets and bounds,
\* wherever the process is stopped.
THEOREM IndexedHasRecordAlways == Spec => []IndexedHasRecord
<1>1. IInv => IndexedHasRecord
  BY DEF IInv
<1> QED
  BY <1>1, Invariance, PTL

\* Once an operation is over, cut or not, the index of users is the records.
THEOREM UserIndexMirrorsAlways == Spec => []UserIndexMirrors
<1>1. IInv => UserIndexMirrors
  <2> SUFFICES ASSUME IInv, Resting PROVE userIdx = userRec
    BY DEF UserIndexMirrors
  <2>1. \A u \in Users : userIdx[u] = userRec[u]
    BY DEF Resting, Idle, IInv, Mirrors
  <2> QED
    BY <2>1 DEF IInv, Records, Entries
<1> QED
  BY <1>1, Invariance, PTL

\* Both at once, as the runs check them.
THEOREM IndexSoundAlways == Spec => []IndexSound
  BY IndexedHasRecordAlways, UserIndexMirrorsAlways, PTL DEF IndexSound

------------------------------------------------------------------------------
\* Validators.

Registered == {u \in Users : valOf[u] # None}

\* The count is the number of users with an index.
Numbers ==
    /\ valIdx \in [Indices -> Validator \cup {None}]
    /\ valOf \in [Users -> Indices \cup {None}]
    /\ total = Cardinality(Registered)

\* The indices below the count are taken, each by the user by_user has for it;
\* the one that is to be taken next is the count, by a user who has none.
Dense ==
    /\ \A i \in Indices : valIdx[i] # None <=> i < total
    /\ \A u \in Users : valOf[u] # None => valIdx[valOf[u]] # None /\ valIdx[valOf[u]].user = u
    /\ \A i \in Indices : valIdx[i] # None =>
          /\ valRec[i].user = valIdx[i].user
          /\ valOf[valIdx[i].user] = i
          /\ \/ valRec[i] = valIdx[i]
             \/ i \in tornVals
             \/ job.next = "sync_validator" /\ job.on = i
    /\ job.next = "index_validator" => job.on = total /\ valOf[valRec[total].user] = None

VInv == Numbers /\ Dense

LEMMA TotalType == Numbers => total \in 0..Cardinality(Users)
<1> SUFFICES ASSUME Numbers PROVE total \in 0..Cardinality(Users)
  OBVIOUS
<1>1. Registered \subseteq Users /\ IsFiniteSet(Users)
  BY AccountsAssumption DEF Registered
<1>2. Cardinality(Registered) <= Cardinality(Users)
  BY <1>1, FS_Subset
<1>3. Cardinality(Registered) \in Nat /\ Cardinality(Users) \in Nat
  BY <1>1, FS_Subset, FS_CardinalityType
<1> QED
  BY <1>2, <1>3 DEF Numbers

LEMMA InitV == Init => VInv
<1> SUFFICES ASSUME Init PROVE VInv
  OBVIOUS
<1>1. Registered = {}
  BY DEF Init, Registered
<1>2. Numbers
  BY <1>1, FS_EmptySet DEF Init, Numbers
<1>3. Dense
  BY DEF Init, Dense, Idle, Indices
<1> QED
  BY <1>2, <1>3 DEF VInv

\* Steps that are not about validators.
LEMMA OtherSteps ==
    ASSUME VInv, UNCHANGED <<valVars, tornVals>>,
           job' = job \/ (job.next \notin ValJobs /\ job'.next \notin ValJobs)
    PROVE  VInv'
  BY DEF VInv, Numbers, Dense, Registered, valVars

\* The first write of a registration.
LEMMA SaveValidatorV ==
    ASSUME IInv, VInv, NEW u \in Users, NEW w \in Wallets, job = Idle, SaveValidator(u, w),
           UNCHANGED <<valIdx, valOf, total, tornVals>>
    PROVE  VInv'
<1>1. CASE valRec' = valRec /\ job' = Idle
  BY <1>1, OtherSteps DEF valVars, Idle
<1>2. CASE /\ valOf[u] = None \/ valRec[valOf[u]] = None
           /\ total \in Indices
           /\ valRec' = [valRec EXCEPT ![total] = [user |-> u, status |-> "active_ongoing"]]
           /\ job' = [next |-> "index_validator", on |-> total]
  <2>1. valOf[u] = None
    BY <1>2 DEF VInv, Numbers, Dense, IInv, IndexedHasRecord
  <2>2. Numbers'
    BY <1>2 DEF VInv, Numbers, Registered
  <2>3. valIdx[total] = None
    BY <1>2 DEF VInv, Dense, Indices
  <2>4. valRec'[total].user = u /\ \A i \in Indices \ {total} : valRec'[i] = valRec[i]
    BY <1>2 DEF IInv, Records
  <2>5. Dense'
    BY <1>2, <2>1, <2>3, <2>4 DEF VInv, Dense, Idle
  <2> QED
    BY <2>2, <2>5 DEF VInv
<1> QED
  BY <1>1, <1>2 DEF SaveValidator, Then, Done

\* The second one.
LEMMA IndexValidatorV == IInv /\ VInv /\ IndexValidator => VInv'
<1> SUFFICES ASSUME IInv, VInv, IndexValidator PROVE VInv'
  OBVIOUS
<1> DEFINE u == valRec[total].user
<1>1. /\ total \in Indices /\ valRec[total] \in Validator /\ u \in Users
      /\ valOf[u] = None
      /\ valIdx' = [valIdx EXCEPT ![total] = valRec[total]]
      /\ valOf' = [valOf EXCEPT ![u] = total]
      /\ total' = total + 1
      /\ valRec' = valRec /\ tornVals' = tornVals
  BY DEF IndexValidator, IInv, JobOK, Records, VInv, Dense, Validator, counts
<1>2. total # None /\ valRec[total] # None
  BY <1>1, AccountsAssumption, NotNone DEF Indices
<1>3. Registered' = Registered \cup {u} /\ u \notin Registered
  BY <1>1, <1>2 DEF Registered, VInv, Numbers
<1>4. Cardinality(Registered \cup {u}) = Cardinality(Registered) + 1
  <2>1. IsFiniteSet(Registered)
    BY AccountsAssumption, FS_Subset DEF Registered
  <2> HIDE DEF u
  <2> QED
    BY <1>3, <2>1, FS_AddElement
<1>5. Numbers'
  <2>1. total' = Cardinality(Registered')
    BY <1>1, <1>3, <1>4 DEF VInv, Numbers
  <2> QED
    BY <1>1, <2>1 DEF VInv, Numbers
<1>6. /\ \A i \in Indices \ {total} : valIdx'[i] = valIdx[i]
      /\ valIdx'[total] = valRec[total] /\ valIdx[total] = None
  BY <1>1 DEF VInv, Numbers, Dense, Indices
<1>7. \A i \in Indices : valIdx'[i] # None <=> i < total'
  BY <1>1, <1>2, <1>6 DEF VInv, Dense, Indices
<1>8. /\ valOf'[u] = total /\ \A v \in Users \ {u} : valOf'[v] = valOf[v]
      /\ \A i \in Indices : valIdx[i] # None => valIdx[i].user \in Users \ {u}
  <2>1. \A i \in Indices : i # None
    BY AccountsAssumption DEF Indices
  <2>2. ASSUME NEW i \in Indices, valIdx[i] # None PROVE valIdx[i].user \in Users \ {u}
    BY <1>1, <2>1, <2>2 DEF VInv, Numbers, Dense, Validator
  <2> QED
    BY <1>1, <2>2 DEF VInv, Numbers
<1>9. job' = Idle /\ job.next = "index_validator"
  BY DEF IndexValidator, Done
<1> HIDE DEF u
<1>10. \A v \in Users : valOf'[v] # None => valIdx'[valOf'[v]] # None /\ valIdx'[valOf'[v]].user = v
  <2>1. ASSUME NEW v \in Users, v # u, valOf'[v] # None
        PROVE  valIdx'[valOf'[v]] # None /\ valIdx'[valOf'[v]].user = v
    <3>1. valOf'[v] = valOf[v] /\ valOf[v] \in Indices /\ valIdx[valOf[v]] # None
          /\ valIdx[valOf[v]].user = v
      BY <1>8, <2>1 DEF VInv, Numbers, Dense
    <3> QED
      BY <1>6, <3>1
  <2> QED
    BY <1>2, <1>6, <1>8, <2>1 DEF u
<1>11. ASSUME NEW i \in Indices, valIdx'[i] # None
       PROVE  /\ valRec[i].user = valIdx'[i].user
              /\ valOf'[valIdx'[i].user] = i
              /\ valRec[i] = valIdx'[i] \/ i \in tornVals
  <2>1. CASE i = total
    BY <1>6, <1>8, <2>1 DEF u
  <2>2. CASE i # total
    BY <1>6, <1>8, <1>9, <1>11, <2>2 DEF VInv, Dense
  <2> QED
    BY <2>1, <2>2
<1>12. Dense'
  BY <1>1, <1>7, <1>9, <1>10, <1>11 DEF Dense, Idle
<1> QED
  BY <1>5, <1>12 DEF VInv

\* An update of the status, and its second write.
LEMMA UpdateStatusV ==
    ASSUME IInv, VInv, NEW i \in Indices, NEW s \in Statuses, UpdateStatus(i, s)
    PROVE  VInv'
<1>1. /\ valRec' = [valRec EXCEPT ![i].status = s] /\ valRec[i] \in Validator
      /\ job = Idle /\ job' = [next |-> "sync_validator", on |-> i]
      /\ UNCHANGED <<valIdx, valOf, total, tornVals>>
  BY DEF UpdateStatus, ByHand, Then, IInv, Records
<1>2. valRec'[i].user = valRec[i].user /\ \A j \in Indices \ {i} : valRec'[j] = valRec[j]
  BY <1>1 DEF IInv, Records, Validator
<1>3. Numbers'
  BY <1>1 DEF VInv, Numbers, Registered
<1>4. Dense'
  BY <1>1, <1>2 DEF VInv, Dense, Idle
<1> QED
  BY <1>3, <1>4 DEF VInv

LEMMA SyncValidatorV == IInv /\ VInv /\ SyncValidator => VInv'
<1> SUFFICES ASSUME IInv, VInv, SyncValidator PROVE VInv'
  OBVIOUS
<1>1. /\ job.on \in Indices /\ valRec[job.on] \in Validator
      /\ job.next = "sync_validator" /\ job' = Idle
      /\ UNCHANGED <<valRec, valOf, total, tornVals>>
  BY DEF SyncValidator, Done, IInv, JobOK, Records, counts
<1>2. CASE valIdx[job.on] = None
  <2>1. valIdx' = valIdx
    BY <1>2 DEF SyncValidator
  <2> QED
    BY <1>1, <1>2, <2>1 DEF VInv, Numbers, Registered, Dense, Idle
<1>3. CASE valIdx[job.on] # None
  <2>1. valIdx' = [valIdx EXCEPT ![job.on] = valRec[job.on]]
    BY <1>3 DEF SyncValidator
  <2>2. /\ valIdx'[job.on] = valRec[job.on] /\ valRec[job.on] # None
        /\ \A j \in Indices \ {job.on} : valIdx'[j] = valIdx[j]
    BY <1>1, <2>1, NotNone DEF VInv, Numbers
  <2>3. Numbers'
    BY <1>1, <2>1 DEF VInv, Numbers, Registered
  <2>4. \A j \in Indices : /\ valIdx'[j] = None <=> valIdx[j] = None
                           /\ valIdx[j] # None => valIdx'[j].user = valIdx[j].user
    BY <1>1, <1>3, <2>2 DEF VInv, Dense
  <2>5. \A u \in Users : valOf[u] # None => valOf[u] \in Indices
    BY DEF VInv, Numbers
  <2>6. Dense'
    BY <1>1, <2>2, <2>4, <2>5 DEF VInv, Dense, Idle
  <2> QED
    BY <2>3, <2>6 DEF VInv
<1> QED
  BY <1>2, <1>3

\* A stop marks the validator whose update it cuts.
LEMMA RestartV == VInv /\ Restart => VInv'
<1> SUFFICES ASSUME VInv, Restart PROVE VInv'
  OBVIOUS
<1>1. /\ UNCHANGED valVars /\ job' = Idle /\ tornVals \subseteq tornVals'
      /\ job.next = "sync_validator" => job.on \in tornVals'
  BY DEF Restart, Done, Cut, ValidatorSteps
<1> QED
  BY <1>1 DEF VInv, Numbers, Registered, Dense, Idle, valVars

LEMMA NextV == IInv /\ VInv /\ [Next]_vars => VInv'
<1> SUFFICES ASSUME IInv, VInv, [Next]_vars PROVE VInv'
  OBVIOUS
<1> DEFINE Elsewhere == /\ UNCHANGED <<valVars, tornVals>>
                        /\ job' = job \/ (job.next \notin ValJobs /\ job'.next \notin ValJobs)
<1> USE DEF Idle, Then, Done, counts
<1>1. CASE UserStep
  <2>1. Elsewhere
    BY <1>1 DEF UserStep, IndexUser, DropUser, SyncUser
  <2> QED
    BY <2>1, OtherSteps
<1>2. CASE WalletStep
  <2>1. Elsewhere
    BY <1>2 DEF WalletStep, IndexWallet, LinkWallet, DropWallet, UnlinkWallet, SyncWallet, Relink
  <2> QED
    BY <2>1, OtherSteps
<1>3. CASE ValStep
  BY <1>3, IndexValidatorV, SyncValidatorV DEF ValStep
<1>4. CASE BootstrapUser \/ BootstrapWallet \/ MapKeys \/ Bootstrap
  <2>1. Elsewhere
    BY <1>4 DEF BootstrapUser, BootstrapWallet, MapKeys, Bootstrap, SaveUser, SaveWallet, Doing
  <2> QED
    BY <2>1, OtherSteps
<1>5. CASE BootstrapValidator
  <2>1. job = Idle /\ UNCHANGED <<valIdx, valOf, total, tornVals>>
    BY <1>5 DEF BootstrapValidator, Doing
  <2>2. CASE UNCHANGED <<valRec, job>>
    BY <2>1, <2>2, OtherSteps DEF valVars
  <2>3. CASE \E u \in Users, w \in Wallets : SaveValidator(u, w)
    BY <2>1, <2>3, SaveValidatorV
  <2> QED
    BY <1>5, <2>2, <2>3 DEF BootstrapValidator, Found
<1>6. CASE \E u \in Users : CreateUser(u) \/ DeleteUser(u) \/ Reconcile(u)
  <2>1. PICK u \in Users : CreateUser(u) \/ DeleteUser(u) \/ Reconcile(u)
    BY <1>6
  <2>2. UNCHANGED <<valVars, tornVals>> /\ job = Idle
    BY <2>1 DEF CreateUser, DeleteUser, Reconcile, ByHand
  <2>3. job' = Idle \/ job'.next \in UserJobs
    <3>1. SaveUser(u) => job' = Idle \/ job'.next = "index_user"
      BY DEF SaveUser
    <3>2. DeleteUser(u) => job'.next = "drop_user"
      BY DEF DeleteUser
    <3>3. Reconcile(u) => job'.next = "sync_user"
      BY DEF Reconcile
    <3> QED
      BY <2>1, <3>1, <3>2, <3>3 DEF CreateUser
  <2>4. Elsewhere
    BY <2>2, <2>3
  <2> QED
    BY <2>4, OtherSteps
<1>7. CASE \E w \in Wallets : \/ \E i \in Accounts : CreateWallet(w, <<Owner(w), i>>)
                              \/ DeleteWallet(w)
                              \/ \E b \in Balances : UpdateBalance(w, b)
  <2>1. UNCHANGED <<valVars, tornVals>> /\ job = Idle
    BY <1>7 DEF CreateWallet, DeleteWallet, UpdateBalance, ByHand
  <2>2. job' = Idle \/ job'.next \in WalletJobs
    <3>1. \A w, a : SaveWallet(w, a) => job' = Idle \/ job'.next = "index_wallet"
      BY DEF SaveWallet
    <3>2. \A w : DeleteWallet(w) => job'.next = "drop_wallet"
      BY DEF DeleteWallet
    <3>3. \A w, b : UpdateBalance(w, b) => job'.next = "sync_wallet"
      BY DEF UpdateBalance
    <3> HIDE DEF Done, Then, Idle
    <3>4. PICK w \in Wallets : \/ \E i \in Accounts : CreateWallet(w, <<Owner(w), i>>)
                              \/ DeleteWallet(w)
                              \/ \E b \in Balances : UpdateBalance(w, b)
      BY <1>7
    <3>5. \A i : CreateWallet(w, <<Owner(w), i>>) => SaveWallet(w, <<Owner(w), i>>)
      BY DEF CreateWallet
    <3> QED
      BY <3>1, <3>2, <3>3, <3>4, <3>5
  <2>3. Elsewhere
    BY <2>1, <2>2
  <2> QED
    BY <2>3, OtherSteps
<1>8. CASE RebuildWalletIndex
  <2>1. Elsewhere
    BY <1>8 DEF RebuildWalletIndex, ByHand
  <2> QED
    BY <2>1, OtherSteps
<1>9. CASE \E u \in Users, w \in Wallets : Register(u, w)
  <2>1. PICK u \in Users, w \in Wallets : Register(u, w)
    BY <1>9
  <2> QED
    BY <2>1, SaveValidatorV DEF Register, ByHand
<1>10. CASE \E i \in Indices, s \in Statuses : UpdateStatus(i, s)
  BY <1>10, UpdateStatusV
<1>11. CASE UNCHANGED vars
  <2>1. Elsewhere
    BY <1>11 DEF vars
  <2> QED
    BY <2>1, OtherSteps
<1> QED
  BY <1>1, <1>2, <1>3, <1>4, <1>5, <1>6, <1>7, <1>8, <1>9, <1>10, <1>11, RestartV
     DEF Next, RunStep, Call

\* Validators are numbered without gaps, but for the write that comes next.
THEOREM ValidatorInvariance == Spec => []VInv
<1> QED
  BY InitV, NextV, Invariance, PTL DEF Spec

\* For any users, cut and repeated registrations never give an index to two
\* users, two indices to a user, or leave a gap, and the active set follows the
\* records but for the updates a stop cut.
THEOREM ValidatorsDenseTheorem == Spec => []ValidatorsDense
<1>1. VInv => ValidatorsDense
  <2> SUFFICES ASSUME VInv PROVE ValidatorsDense
    OBVIOUS
  <2>1. ASSUME NEW i \in Indices, NEW j \in Indices, valIdx[i] # None, valIdx[j] # None, i # j
        PROVE  valIdx[i].user # valIdx[j].user
    BY <2>1 DEF VInv, Dense
  <2>2. Resting => \A i \in ActiveValidators \ tornVals : valRec[i] = valIdx[i]
    BY DEF Resting, Idle, ActiveValidators, VInv, Dense
  <2> QED
    BY <2>1, <2>2 DEF ValidatorsDense, VInv, Dense
<1> QED
  BY <1>1, ValidatorInvariance, PTL

------------------------------------------------------------------------------
\* Types.

\* Induction, over sets of numbers.
LEMMA SetInduction ==
    ASSUME NEW S, 0 \in S, \A n \in Nat : n \in S => n + 1 \in S
    PROVE  Nat \subseteq S
<1> DEFINE R == OpToRel(<, Nat)
           T == Nat \ S
<1>1. R = {ss \in Nat \X Nat : ss[1] < ss[2]}
  BY DEF OpToRel
<1>2. IsWellFoundedOn(R, Nat)
  BY NatLessThanWellFounded
<1> HIDE DEF R
<1>3. SUFFICES ASSUME T # {} PROVE FALSE
  OBVIOUS
<1>4. PICK x \in T : \A y \in T : <<y, x>> \notin R
  <2>1. T \subseteq Nat
    OBVIOUS
  <2> HIDE DEF T
  <2> QED
    BY <1>2, <1>3, <2>1, WFMin
<1>5. x \in Nat /\ x # 0
  OBVIOUS
<1>6. x - 1 \in T
  BY <1>5
<1>7. <<x - 1, x>> \in R
  BY <1>1, <1>5
<1> QED
  BY <1>4, <1>6, <1>7

\* A finite set of numbers has a maximum.
LEMMA MaxType ==
    ASSUME NEW S, S \subseteq Nat, IsFiniteSet(S), S # {}
    PROVE  Max(S) \in S /\ \A y \in S : Max(S) >= y
<1> DEFINE Tops(Q) == \E x \in Q : \A y \in Q : x >= y
           T == {n \in Nat : \A Q \in SUBSET Nat :
                                IsFiniteSet(Q) /\ Cardinality(Q) = n /\ Q # {} => Tops(Q)}
<1>1. 0 \in T
  BY FS_EmptySet
<1>2. ASSUME NEW n \in Nat, n \in T PROVE n + 1 \in T
  <2>1. SUFFICES ASSUME NEW Q \in SUBSET Nat, IsFiniteSet(Q), Cardinality(Q) = n + 1, Q # {}
                 PROVE  Tops(Q)
    OBVIOUS
  <2>2. PICK x \in Q : TRUE
    BY <2>1
  <2>3. IsFiniteSet(Q \ {x}) /\ Cardinality(Q \ {x}) = n
    <3>1. IsFiniteSet(Q \ {x}) /\ Cardinality(Q \ {x}) = Cardinality(Q) - 1
      BY <2>1, <2>2, FS_RemoveElement
    <3> QED
      BY <1>2, <2>1, <3>1
  <2>4. CASE Q \ {x} = {}
    BY <2>2, <2>4
  <2>5. CASE Q \ {x} # {}
    <3>1. PICK m \in Q \ {x} : \A y \in Q \ {x} : m >= y
      BY <1>2, <2>3, <2>5
    <3>2. CASE m >= x
      BY <3>1, <3>2
    <3>3. CASE x > m
      BY <2>1, <2>2, <3>1, <3>3
    <3> QED
      BY <2>1, <2>2, <3>1, <3>2, <3>3
  <2> QED
    BY <2>4, <2>5
<1>3. Nat \subseteq T
  <2> HIDE DEF T
  <2> QED
    BY <1>1, <1>2, SetInduction
<1>4. Cardinality(S) \in Nat
  BY FS_CardinalityType
<1>5. Tops(S)
  BY <1>3, <1>4
<1> QED
  BY <1>5 DEF Max

Seats == walletIdx \in [Wallets -> WalletEntry \cup {None}]
Maps  == /\ addressMap \in [Wallets -> Addresses \cup {None}]
         /\ keyMap \in [Addresses -> Addresses \cup {None}]
TInv  == Seats /\ Maps

LEMMA EntryWritten ==
    ASSUME NEW w \in Wallets, NEW s \in Nat, walletRec[w] \in WalletRecord
    PROVE  EntryAt(w, s) \in WalletEntry /\ EntryAt(w, s) # None
  BY AccountsAssumption DEF EntryAt, WalletEntry, WalletRecord

LEMMA LastSeatType ==
    Seats => LastSeat \in Nat /\ \A w \in Wallets : Indexed(w) => walletIdx[w].seat <= LastSeat
<1> SUFFICES ASSUME Seats
             PROVE  LastSeat \in Nat /\ \A w \in Wallets : Indexed(w) => walletIdx[w].seat <= LastSeat
  OBVIOUS
<1> DEFINE there == {w \in Wallets : Indexed(w)}
           S == {walletIdx[w].seat : w \in there}
<1>1. IsFiniteSet(there)
  BY AccountsAssumption, FS_Subset
<1>2. IsFiniteSet(S)
  <2> DEFINE f == [w \in there |-> walletIdx[w].seat]
  <2>1. f \in Surjection(there, S)
    BY DEF Surjection
  <2> HIDE DEF there, f, S
  <2> QED
    BY <1>1, <2>1, FS_Surjection
<1>3. S \subseteq Nat
  BY DEF Seats, Indexed, WalletEntry
<1>4. IsFiniteSet({0}) /\ IsFiniteSet({0} \cup S)
  <2> HIDE DEF S
  <2> QED
    BY <1>2, FS_Singleton, FS_Union
<1>5. LastSeat = Max({0} \cup S)
  BY DEF LastSeat
<1> HIDE DEF S
<1>6. {0} \cup S \subseteq Nat /\ {0} \cup S # {}
  BY <1>3
<1>7. Max({0} \cup S) \in {0} \cup S /\ \A y \in {0} \cup S : Max({0} \cup S) >= y
  BY <1>4, <1>6, MaxType
<1>8. \A w \in Wallets : Indexed(w) => walletIdx[w].seat \in S
  BY DEF S
<1> QED
  BY <1>5, <1>6, <1>7, <1>8

LEMMA InitT == Init => TInv
  BY DEF Init, TInv, Seats, Maps

\* The entries of wallets.
LEMMA SeatsKept == IInv /\ TInv /\ [Next]_vars => Seats'
<1> SUFFICES ASSUME IInv, TInv, [Next]_vars PROVE Seats'
  OBVIOUS
<1>1. CASE IndexWallet
  <2>1. /\ job.on \in Wallets /\ walletRec[job.on] \in WalletRecord
    BY <1>1 DEF IndexWallet, IInv, JobOK, Records
  <2>2. (IF Indexed(job.on) THEN walletIdx[job.on].seat ELSE LastSeat + 1) \in Nat
    BY <2>1, LastSeatType DEF TInv, Seats, Indexed, WalletEntry
  <2>3. \E s \in Nat : walletIdx' = [walletIdx EXCEPT ![job.on] = EntryAt(job.on, s)]
    BY <1>1, <2>2 DEF IndexWallet
  <2> QED
    BY <2>1, <2>3, EntryWritten DEF TInv, Seats
<1>2. CASE SyncWallet
  <2>1. job.on \in Wallets /\ walletRec[job.on] \in WalletRecord
    BY <1>2 DEF SyncWallet, IInv, JobOK, Records
  <2>2. CASE Indexed(job.on)
    <3> DEFINE b == walletRec[job.on].balance
    <3>1. b \in Balances /\ walletIdx[job.on] \in WalletEntry
      BY <2>1, <2>2 DEF TInv, Seats, Indexed, WalletRecord
    <3>2. walletIdx' = [walletIdx EXCEPT ![job.on].balance = b]
      BY <1>2, <2>2 DEF SyncWallet
    <3> HIDE DEF b
    <3>3. [walletIdx[job.on] EXCEPT !.balance = b] \in WalletEntry
      BY <3>1 DEF WalletEntry
    <3>4. walletIdx' = [walletIdx EXCEPT ![job.on] = [walletIdx[job.on] EXCEPT !.balance = b]]
      BY <3>2
    <3> QED
      BY <2>1, <3>3, <3>4 DEF TInv, Seats
  <2>3. CASE ~Indexed(job.on)
    BY <1>2, <2>3 DEF SyncWallet, TInv, Seats
  <2> QED
    BY <2>2, <2>3
<1>3. CASE RebuildWalletIndex
  <2> DEFINE kept == {w \in Wallets : walletRec[w] # None}
  <2>1. PICK seat \in [kept -> 1..Cardinality(kept)] :
          walletIdx' = [w \in Wallets |-> IF w \in kept THEN EntryAt(w, seat[w]) ELSE None]
    BY <1>3 DEF RebuildWalletIndex
  <2>2. ASSUME NEW w \in kept PROVE EntryAt(w, seat[w]) \in WalletEntry
    <3>1. seat[w] \in Nat /\ walletRec[w] \in WalletRecord
      BY <2>1 DEF IInv, Records
    <3> QED
      BY <3>1, EntryWritten
  <2> HIDE DEF kept
  <2> QED
    BY <2>1, <2>2 DEF Seats
<1>4. CASE \E w \in Wallets : DeleteWallet(w)
  BY <1>4 DEF DeleteWallet, TInv, Seats
<1>5. CASE walletIdx' = walletIdx
  BY <1>5 DEF TInv, Seats
<1>6. CASE UserStep \/ ValStep
  BY <1>5, <1>6 DEF UserStep, ValStep, IndexUser, DropUser, SyncUser, IndexValidator, SyncValidator,
     walletVars
<1>7. CASE LinkWallet \/ DropWallet \/ UnlinkWallet
  BY <1>5, <1>7 DEF LinkWallet, DropWallet, UnlinkWallet, walletVars
<1>8. CASE RunStep \/ Bootstrap \/ Restart
  BY <1>5, <1>8 DEF RunStep, BootstrapUser, BootstrapWallet, MapKeys, BootstrapValidator, Bootstrap,
     Restart, walletVars
<1>9. CASE \E u \in Users : CreateUser(u) \/ DeleteUser(u) \/ Reconcile(u)
  BY <1>5, <1>9 DEF CreateUser, DeleteUser, Reconcile, walletVars
<1>10. CASE \E w \in Wallets : \/ \E i \in Accounts : CreateWallet(w, <<Owner(w), i>>)
                               \/ \E b \in Balances : UpdateBalance(w, b)
  BY <1>5, <1>10 DEF CreateWallet, UpdateBalance
<1>11. CASE \/ \E u \in Users, w \in Wallets : Register(u, w)
            \/ \E i \in Indices, s \in Statuses : UpdateStatus(i, s)
  BY <1>5, <1>11 DEF Register, UpdateStatus, walletVars
<1>12. CASE UNCHANGED vars
  BY <1>5, <1>12 DEF vars, walletVars
<1> QED
  BY <1>1, <1>2, <1>3, <1>4, <1>6, <1>7, <1>8, <1>9, <1>10, <1>11, <1>12
     DEF Next, WalletStep, Call

\* What a run collects.
LEMMA MapsKept == TInv /\ [Next]_vars => Maps'
<1> SUFFICES ASSUME TInv, [Next]_vars PROVE Maps'
  OBVIOUS
<1>1. CASE addressMap' = addressMap /\ keyMap' = keyMap
  BY <1>1 DEF TInv, Maps
<1>2. CASE BootstrapWallet
  <2>1. PICK w \in Wallets, a \in Addresses :
          \/ addressMap' = addressMap
          \/ addressMap' = [addressMap EXCEPT ![w] = a]
    BY <1>2 DEF BootstrapWallet
  <2>2. keyMap' = keyMap
    BY <1>2 DEF BootstrapWallet
  <2> QED
    BY <2>1, <2>2 DEF TInv, Maps
<1>3. CASE MapKeys
  <2> DEFINE mine == {w \in Wallets : /\ Indexed(w) /\ userIdx[Owner(w)] # None
                                      /\ \E v \in Wallets : addressMap[v] = walletIdx[w].at}
             used == {walletIdx[w].at : w \in mine}
  <2>1. PICK of \in [used -> mine] :
          keyMap' = [a \in Addresses |-> IF a \in used THEN KeyFor(of[a]) ELSE None]
    BY <1>3 DEF MapKeys
  <2>2. \A w \in mine : w \in Wallets /\ walletIdx[w] \in WalletEntry
    BY DEF TInv, Seats, Indexed
  <2>3. \A a \in used : of[a] \in mine
    OBVIOUS
  <2> HIDE DEF mine, used
  <2>4. ASSUME NEW a \in used PROVE KeyFor(of[a]) \in Addresses \cup {None}
    <3>1. of[a] \in Wallets /\ walletIdx[of[a]].at \in Addresses
      BY <2>2, <2>3 DEF WalletEntry
    <3>2. Owner(of[a]) \in Users /\ walletIdx[of[a]].at[2] \in Accounts
      BY <3>1, OwnerType DEF Addresses
    <3>3. <<Owner(of[a]), walletIdx[of[a]].at[2]>> \in Addresses
      BY <3>2 DEF Addresses
    <3> QED
      BY <3>3 DEF KeyFor
  <2>5. keyMap' \in [Addresses -> Addresses \cup {None}]
    BY <2>1, <2>4
  <2>6. addressMap' = addressMap
    BY <1>3 DEF MapKeys
  <2> QED
    BY <2>5, <2>6 DEF TInv, Maps
<1>4. CASE Bootstrap \/ Restart
  BY <1>4 DEF Bootstrap, Restart, Maps
<1>5. CASE UserStep \/ ValStep \/ WalletStep
  BY <1>1, <1>5 DEF UserStep, ValStep, IndexUser, DropUser, SyncUser, IndexValidator, SyncValidator,
     WalletStep, IndexWallet, LinkWallet, DropWallet, UnlinkWallet, SyncWallet, runVars
<1>6. CASE BootstrapUser \/ BootstrapValidator
  BY <1>1, <1>6 DEF BootstrapUser, BootstrapValidator
<1>7. CASE \E u \in Users : CreateUser(u) \/ DeleteUser(u) \/ Reconcile(u)
  BY <1>1, <1>7 DEF CreateUser, DeleteUser, Reconcile, runVars
<1>8. CASE \/ RebuildWalletIndex
           \/ \E w \in Wallets : \/ \E i \in Accounts : CreateWallet(w, <<Owner(w), i>>)
                                 \/ DeleteWallet(w)
                                 \/ \E b \in Balances : UpdateBalance(w, b)
  BY <1>1, <1>8 DEF CreateWallet, DeleteWallet, UpdateBalance, RebuildWalletIndex, runVars
<1>9. CASE \/ \E u \in Users, w \in Wallets : Register(u, w)
           \/ \E i \in Indices, s \in Statuses : UpdateStatus(i, s)
  BY <1>1, <1>9 DEF Register, UpdateStatus, runVars
<1>10. CASE UNCHANGED vars
  BY <1>1, <1>10 DEF vars, runVars
<1> QED
  BY <1>2, <1>3, <1>4, <1>5, <1>6, <1>7, <1>8, <1>9, <1>10 DEF Next, RunStep, Call

\* Entries of wallets and the maps of a run have their types.
THEOREM TypeInvariance == Spec => []TInv
<1>1. IInv /\ TInv /\ [Next]_vars => TInv'
  BY SeatsKept, MapsKept DEF TInv
<1> QED
  BY <1>1, InitT, Invariance, PTL DEF Spec

\* Records, entries, counts and maps have their types, for any users and wallets.
THEOREM TypeTheorem == Spec => []TypeOK
<1>1. IInv /\ VInv /\ TInv => TypeOK
  BY TotalType DEF IInv, Records, Entries, VInv, Numbers, TInv, Seats, Maps, TypeOK
<1> QED
  BY <1>1, Invariance, ValidatorInvariance, TypeInvariance, PTL

------------------------------------------------------------------------------
\* What a run of the bootstrap has to do.

Tasks == [do : {"user", "wallet", "validator"}, user : Users, account : Nat]
         \cup [do : {"maps"}, user : {None}, account : {0}]

\* The owner of a wallet that is to be created is there, or is created before it.
Planned ==
    \A k \in 1..Len(script) : script[k].do = "wallet" =>
        \/ userRec[script[k].user] # None
        \/ \E j \in 1..(k - 1) : script[j].do = "user" /\ script[j].user = script[k].user

\* A user is dropped outside of a run, and without wallets.
Dropped ==
    job.next = "drop_user" =>
        /\ script = <<>>
        /\ userRec[job.on] # None => userRec[job.on].wallets = {}

SInv == script \in Seq(Tasks) /\ Planned /\ Dropped

\* What is gathered is in every set of sequences that has the empty one and goes on
\* with what each user has to have done.
LEMMA GatherClosed ==
    ASSUME NEW C, NEW profiles \in Seq(Users), NEW each,
           <<>> \in C,
           \A i \in 1..Len(profiles) : \A s \in C : s \o each[profiles[i]] \in C
    PROVE  Gather(profiles, each) \in C
<1> DEFINE N == Len(profiles)
           Body(f, k) == IF k = 0 THEN <<>> ELSE f[k - 1] \o each[profiles[k]]
           Good(n, f) == f = [k \in 0..n |-> Body(f, k)] /\ \A k \in 0..n : f[k] \in C
           S == {n \in Nat : n <= N => \E f : Good(n, f)}
<1>1. 0 \in S
  <2> DEFINE f == [k \in 0..0 |-> <<>>]
  <2>1. \A k \in 0..0 : Body(f, k) = <<>> /\ f[k] = <<>>
    OBVIOUS
  <2>2. <<>> \in C
    OBVIOUS
  <2>3. f = [k \in 0..0 |-> Body(f, k)]
    <3> HIDE DEF Body
    <3> QED
      BY <2>1
  <2>4. Good(0, f)
    <3> HIDE DEF Body, f
    <3> QED
      BY <2>1, <2>2, <2>3
  <2> QED
    BY <2>4
<1>2. ASSUME NEW n \in Nat, n \in S PROVE n + 1 \in S
  <2>1. SUFFICES ASSUME n + 1 <= N PROVE \E f : Good(n + 1, f)
    <3> HIDE DEF Good, N
    <3> QED
      OBVIOUS
  <2>2. PICK f : Good(n, f)
    <3> HIDE DEF Good
    <3> QED
      BY <1>2, <2>1
  <2> DEFINE g == [k \in 0..(n + 1) |-> IF k = n + 1 THEN f[n] \o each[profiles[n + 1]] ELSE f[k]]
  <2>3. \A k \in 0..n : g[k] = f[k]
    OBVIOUS
  <2>4. g[n + 1] = f[n] \o each[profiles[n + 1]]
    <3>1. n + 1 \in 0..(n + 1)
      BY <1>2
    <3> QED
      BY <3>1, Zenon
  <2>5. g = [k \in 0..(n + 1) |-> g[k]]
    OBVIOUS
  <2> HIDE DEF g
  <2>6. ASSUME NEW k \in 0..(n + 1) PROVE g[k] = Body(g, k)
    <3>1. CASE k = n + 1
      <4>1. k # 0 /\ k - 1 = n /\ n \in 0..n
        BY <1>2, <3>1
      <4>2. g[k - 1] = f[n] /\ profiles[k] = profiles[n + 1] /\ g[k] = g[n + 1]
        BY <2>3, <3>1, <4>1, Zenon
      <4> QED
        BY <2>4, <4>1, <4>2, Zenon
    <3>2. CASE k # n + 1
      <4>1. k \in 0..n /\ (k # 0 => k - 1 \in 0..n)
        BY <3>2
      <4>2. f[k] = Body(f, k)
        <5> HIDE DEF Body
        <5> QED
          BY <2>2, <4>1
      <4> QED
        BY <2>3, <4>1, <4>2
    <3> QED
      BY <3>1, <3>2
  <2>7. g[n + 1] \in C
    <3>1. f[n] \in C /\ n + 1 \in 1..Len(profiles)
      <4> HIDE DEF Body
      <4> QED
        BY <2>1, <2>2
    <3> QED
      BY <2>4, <3>1
  <2>8. \A k \in 0..(n + 1) : g[k] \in C
    <3> HIDE DEF Body
    <3> QED
      BY <2>2, <2>3, <2>7
  <2>9. Good(n + 1, g)
    <3> HIDE DEF Body
    <3> QED
      BY <2>5, <2>6, <2>8
  <2> HIDE DEF Good
  <2> QED
    BY <2>9
<1>3. Nat \subseteq S
  <2> HIDE DEF S
  <2> QED
    BY <1>1, <1>2, SetInduction
<1>4. N \in Nat
  OBVIOUS
<1>5. PICK f : Good(N, f)
  <2> HIDE DEF Good, N
  <2> QED
    BY <1>3, <1>4
<1> DEFINE upTo == CHOOSE h : h = [k \in 0..N |-> Body(h, k)]
<1>6. upTo = [k \in 0..N |-> Body(upTo, k)]
  <2> HIDE DEF Body, N
  <2> QED
    BY <1>5
<1>7. Gather(profiles, each) = upTo[N]
  BY DEF Gather
<1> HIDE DEF upTo
<1>8. \A k \in 0..N : upTo[k] \in C
  <2> DEFINE P == {k \in Nat : k <= N => upTo[k] \in C}
  <2>1. 0 \in P
    <3>1. upTo[0] = <<>>
      BY <1>4, <1>6
    <3>2. <<>> \in C
      OBVIOUS
    <3> QED
      BY <3>1, <3>2, Zenon
  <2>2. ASSUME NEW k \in Nat, k \in P PROVE k + 1 \in P
    <3>1. SUFFICES ASSUME k + 1 <= N PROVE upTo[k + 1] \in C
      OBVIOUS
    <3>2. k + 1 \in 0..N /\ k + 1 # 0 /\ (k + 1) - 1 = k
      BY <1>4, <3>1
    <3>3. upTo[k + 1] = Body(upTo, k + 1)
      <4> HIDE DEF Body, N
      <4> QED
        BY <1>6, <3>2
    <3>4. upTo[k + 1] = upTo[k] \o each[profiles[k + 1]]
      BY <3>2, <3>3
    <3>5. upTo[k] \in C /\ k + 1 \in 1..Len(profiles)
      BY <1>4, <2>2, <3>1
    <3> QED
      BY <3>4, <3>5
  <2>3. Nat \subseteq P
    <3> HIDE DEF P
    <3> QED
      BY <2>1, <2>2, SetInduction
  <2> QED
    BY <1>4, <2>3
<1> QED
  BY <1>4, <1>7, <1>8

LEMMA GatherType ==
    ASSUME NEW T, NEW profiles \in Seq(Users), NEW each,
           \A i \in 1..Len(profiles) : each[profiles[i]] \in Seq(T)
    PROVE  Gather(profiles, each) \in Seq(T)
<1>1. <<>> \in Seq(T)
  OBVIOUS
<1>2. \A i \in 1..Len(profiles) : \A s \in Seq(T) : s \o each[profiles[i]] \in Seq(T)
  OBVIOUS
<1> QED
  BY <1>1, <1>2, GatherClosed

UsersFirst(work) ==
    \A k \in 1..Len(work) : work[k].do = "wallet" =>
        \E j \in 1..(k - 1) : work[j].do = "user" /\ work[j].user = work[k].user

\* A run starts with its users.
LEMMA WorkPlanned ==
    ASSUME NEW profiles \in Profiles
    PROVE  Work(profiles) \in Seq(Tasks) /\ UsersFirst(Work(profiles))
<1> DEFINE n == Len(profiles)
           S == {profiles[i] : i \in 1..n}
           T == [do : {"wallet", "validator"}, user : S, account : Nat]
                \cup [do : {"maps"}, user : {None}, account : {0}]
           A == [k \in 1..n |-> Task("user", profiles[k], 0)]
           each1 == [u \in Users |-> WalletTasks(u)]
           each2 == [u \in Users |-> IF u \in Validators THEN <<Task("validator", u, 0)>> ELSE <<>>]
           B == Gather(profiles, each1)
           M == <<Task("maps", None, 0)>>
           C == Gather(profiles, each2)
<1>1. profiles \in Seq(Users) /\ n \in Nat /\ S \subseteq Users
  BY AccountsAssumption
<1>2. \A i \in 1..n : profiles[i] \in S /\ profiles[i] \in Users
  BY <1>1
<1>3. ASSUME NEW i \in 1..n PROVE each1[profiles[i]] \in Seq(T)
  <2> DEFINE u == profiles[i]
  <2>1. u \in Users /\ u \in S
    BY <1>2
  <2> HIDE DEF u, S
  <2>2. Standard[u] \in Seq(Types(u))
    BY <2>1, AccountsAssumption
  <2>3. DOMAIN Standard[u] = 1..Len(Standard[u]) /\ Len(Standard[u]) \in Nat
    BY <2>2
  <2>4. \A k \in 1..Len(Standard[u]) : Task("wallet", u, k - 1) \in T
    BY <2>1 DEF Task
  <2>5. WalletTasks(u) = [k \in 1..Len(Standard[u]) |-> Task("wallet", u, k - 1)]
    BY <2>3 DEF WalletTasks
  <2> HIDE DEF T
  <2>6. WalletTasks(u) \in Seq(T)
    BY <2>3, <2>4, <2>5
  <2> QED
    BY <2>1, <2>6 DEF u
<1>4. ASSUME NEW i \in 1..n PROVE each2[profiles[i]] \in Seq(T)
  <2> DEFINE u == profiles[i]
  <2>1. u \in Users /\ u \in S
    BY <1>2
  <2> HIDE DEF u, S
  <2>2. Task("validator", u, 0) \in T
    BY <2>1 DEF Task
  <2> HIDE DEF T
  <2>3. <<Task("validator", u, 0)>> \in Seq(T)
    BY <2>2
  <2>4. <<>> \in Seq(T)
    OBVIOUS
  <2> QED
    BY <2>1, <2>3, <2>4, Zenon DEF u
<1>5. B \in Seq(T) /\ C \in Seq(T)
  <2> HIDE DEF each1, each2, T, n
  <2> QED
    BY <1>1, <1>3, <1>4, GatherType DEF n
<1>6. M \in Seq(T)
  <2>1. Task("maps", None, 0) \in T
    BY DEF Task
  <2> HIDE DEF T
  <2> QED
    BY <2>1
<1>7. A \in Seq(Tasks) /\ Len(A) = n /\ \A k \in 1..n : A[k].do = "user" /\ A[k].user = profiles[k]
  <2>1. \A k \in 1..n : Task("user", profiles[k], 0) \in Tasks
    BY <1>2 DEF Task, Tasks
  <2>2. A \in Seq(Tasks) /\ Len(A) = n
    BY <1>1, <2>1
  <2>3. \A k \in 1..n : A[k].do = "user" /\ A[k].user = profiles[k]
    BY DEF Task
  <2> QED
    BY <2>2, <2>3
<1>8. T \subseteq Tasks
  BY <1>1 DEF Tasks
<1>9. \A t \in T : t.do = "wallet" => t.user \in S
  OBVIOUS
<1>10. Work(profiles) = A \o B \o M \o C
  BY DEF Work
<1> HIDE DEF A, B, M, C, T, n
<1> DEFINE W == A \o B \o M \o C
           R == B \o M \o C
<1>11. R \in Seq(T)
  BY <1>5, <1>6
<1>12. B \in Seq(Tasks) /\ M \in Seq(Tasks) /\ C \in Seq(Tasks)
  BY <1>5, <1>6, <1>8
<1>13. W = A \o R /\ W \in Seq(Tasks)
  <2>1. ASSUME NEW x \in Seq(Tasks), NEW y \in Seq(Tasks), NEW z \in Seq(Tasks)
        PROVE  (x \o y) \o z = x \o (y \o z)
    OBVIOUS
  <2>2. A \o B \in Seq(Tasks) /\ B \o M \in Seq(Tasks) /\ M \o C \in Seq(Tasks)
    BY <1>7, <1>12
  <2>3. (A \o B) \o M = A \o (B \o M)
    BY <1>7, <1>12, <2>1
  <2>4. (A \o (B \o M)) \o C = A \o ((B \o M) \o C)
    BY ZenonT(20), <1>7, <1>12, <2>1, <2>2
  <2>5. (A \o (B \o M)) \o C \in Seq(Tasks)
    BY <1>7, <1>12, <2>2
  <2> QED
    BY <2>3, <2>4, <2>5, Zenon DEF W, R
<1> HIDE DEF W, R
<1>14. ASSUME NEW k \in 1..Len(W), W[k].do = "wallet"
       PROVE  \E j \in 1..(k - 1) : W[j].do = "user" /\ W[j].user = W[k].user
  <2>1. /\ \A j \in 1..n : W[j] = A[j]
        /\ k \notin 1..n => k - n \in 1..Len(R) /\ W[k] = R[k - n]
    BY <1>1, <1>7, <1>11, <1>13
  <2>2. k \notin 1..n
    BY <1>7, <1>14, <2>1
  <2>3. R[k - n] \in T
    BY <1>11, <2>1, <2>2
  <2>4. W[k].user \in S
    BY <1>9, <1>14, <2>1, <2>2, <2>3
  <2>5. PICK j \in 1..n : profiles[j] = W[k].user
    BY <2>4
  <2> QED
    BY SMTT(20), <1>1, <1>7, <2>1, <2>2, <2>5
<1>15. Work(profiles) = W
  BY <1>10 DEF W
<1>16. UsersFirst(W)
  BY <1>14 DEF UsersFirst
<1> QED
  BY <1>13, <1>15, <1>16, Zenon

\* What the operations do to users and their wallets.
UsersStay == \A u \in Users : userRec[u] # None => userRec'[u] # None
SameLinks ==
    \A u \in Users : /\ userRec'[u] = None <=> userRec[u] = None
                     /\ userRec[u] # None => userRec'[u].wallets = userRec[u].wallets

LEMMA RelinkEffect ==
    ASSUME IInv, NEW u \in Users, NEW links \in SUBSET Wallets, Relink(u, links)
    PROVE  /\ \A v \in Users \ {u} : userRec'[v] = userRec[v]
           /\ userRec'[u] = None <=> userRec[u] = None
           /\ userRec[u] # None => userRec'[u].wallets = links
           /\ job' = Idle \/ job' = [next |-> "sync_user", on |-> u]
<1>1. CASE userRec[u] = None \/ userRec[u].wallets = links
  BY <1>1 DEF Relink, Done
<1>2. CASE userRec[u] # None /\ userRec[u].wallets # links
  <2>1. /\ userRec' = [userRec EXCEPT ![u].wallets = links]
        /\ job' = [next |-> "sync_user", on |-> u]
    BY <1>2 DEF Relink, Then
  <2>2. userRec[u] \in UserRecord
    BY <1>2 DEF IInv, Records
  <2>3. userRec'[u] = [userRec[u] EXCEPT !.wallets = links]
    BY <2>1 DEF IInv, Records
  <2>4. userRec'[u] # None
    BY <2>2, <2>3, UserWritten, NotNone
  <2>5. userRec'[u].wallets = links
    BY <2>2, <2>3 DEF UserRecord
  <2>6. \A v \in Users \ {u} : userRec'[v] = userRec[v]
    BY <2>1 DEF IInv, Records
  <2> QED
    BY <1>2, <2>1, <2>4, <2>5, <2>6
<1> QED
  BY <1>1, <1>2

LEMMA SaveUserEffect ==
    ASSUME IInv, NEW u \in Users, job = Idle, SaveUser(u)
    PROVE  /\ \A v \in Users \ {u} : userRec'[v] = userRec[v]
           /\ userRec[u] # None => userRec'[u] = userRec[u]
           /\ \/ userRec'[u] # None
              \/ userIdx[u] = None /\ ~Creatable(u)
           /\ userRec[u] = None /\ userRec'[u] # None => userRec'[u].wallets = {}
           /\ job' = Idle \/ job' = [next |-> "index_user", on |-> u]
<1>1. CASE userIdx[u] # None \/ ~Creatable(u)
  <2>1. userRec' = userRec /\ job' = Idle
    BY <1>1 DEF SaveUser, Done
  <2>2. userIdx[u] # None => userRec[u] # None
    BY DEF IInv, IndexedHasRecord
  <2> QED
    BY <1>1, <2>1, <2>2
<1>2. CASE userIdx[u] = None /\ Creatable(u)
  <2>1. /\ userRec' = [userRec EXCEPT ![u] = [wallets |-> {}, total |-> 0]]
        /\ job' = [next |-> "index_user", on |-> u]
    BY <1>2 DEF SaveUser, Then
  <2>2. userRec[u] = None
    BY <1>2 DEF IInv, Mirrors, Idle
  <2>3. userRec'[u] # None /\ userRec'[u].wallets = {}
    BY <2>1, UserWritten, NotNone DEF IInv, Records
  <2>4. \A v \in Users \ {u} : userRec'[v] = userRec[v]
    BY <2>1 DEF IInv, Records
  <2> QED
    BY <2>1, <2>2, <2>3, <2>4
<1> QED
  BY <1>1, <1>2

LEMMA ReconcileEffect ==
    ASSUME IInv, NEW u \in Users, Reconcile(u)
    PROVE  SameLinks /\ job' = [next |-> "sync_user", on |-> u]
<1>1. PICK sum \in Totals : userRec' = [userRec EXCEPT ![u].total = sum]
  BY DEF Reconcile
<1>2. userRec[u] \in UserRecord /\ userRec[u] # None
  BY DEF Reconcile, IInv, Records
<1>3. userRec'[u] = [userRec[u] EXCEPT !.total = sum]
  BY <1>1 DEF IInv, Records
<1>4. userRec'[u] # None
  BY <1>2, <1>3, UserWritten, NotNone
<1>5. userRec'[u].wallets = userRec[u].wallets
  BY <1>2, <1>3 DEF UserRecord
<1>6. \A v \in Users \ {u} : userRec'[v] = userRec[v]
  BY <1>1 DEF IInv, Records
<1> QED
  BY <1>2, <1>4, <1>5, <1>6 DEF SameLinks, Reconcile, Then

LEMMA SaveWalletEffect ==
    ASSUME NEW w, NEW a, SaveWallet(w, a)
    PROVE  \/ walletRec' = walletRec /\ job' = Idle
           \/ /\ walletRec[w] = None
              /\ walletRec' = [walletRec EXCEPT ![w] = [at |-> a, balance |-> 0]]
              /\ job' = [next |-> "index_wallet", on |-> w]
<1>1. CASE Full(Owner(w)) \/ ~Accepted(w, a) \/ walletRec[w] # None
  BY <1>1 DEF SaveWallet, Done
<1>2. CASE ~(Full(Owner(w)) \/ ~Accepted(w, a) \/ walletRec[w] # None)
  BY <1>2 DEF SaveWallet, Then
<1> QED
  BY <1>1, <1>2

\* The plan of a run under the steps: left alone, dropped, or worked off.
LEMMA PlanKept ==
    ASSUME SInv, script' = script \/ script' = <<>>, UsersStay, job'.next # "drop_user"
    PROVE  SInv'
<1>1. \A k \in 1..Len(script) : script[k].do = "wallet" => script[k].user \in Users
  BY DEF SInv, Tasks
<1>2. CASE script' = script
  BY <1>1, <1>2 DEF SInv, Planned, Dropped, UsersStay
<1>3. CASE script' = <<>>
  <2>1. Len(script') = 0 /\ script' \in Seq(Tasks)
    BY <1>3
  <2> QED
    BY <2>1 DEF SInv, Planned, Dropped
<1> QED
  BY <1>2, <1>3

LEMMA PlanAdvanced ==
    ASSUME SInv, script # <<>>, script' = Tail(script), UsersStay, job'.next # "drop_user",
           Task1.do = "user" => userRec'[Task1.user] # None
    PROVE  SInv'
<1>1. /\ script \in Seq(Tasks) /\ Task1 = script[1] /\ script' \in Seq(Tasks)
      /\ Len(script') = Len(script) - 1 /\ Len(script) \in Nat \ {0}
      /\ \A k \in 1..Len(script') : script'[k] = script[k + 1]
  BY DEF SInv, Task1
<1>2. ASSUME NEW k \in 1..Len(script'), script'[k].do = "wallet"
      PROVE  \/ userRec'[script'[k].user] # None
             \/ \E j \in 1..(k - 1) : script'[j].do = "user" /\ script'[j].user = script'[k].user
  <2>1. k + 1 \in 1..Len(script) /\ script'[k] = script[k + 1] /\ (k + 1) - 1 = k
    BY <1>1
  <2>2. script'[k].user \in Users
    BY <1>1, <1>2 DEF Tasks
  <2>3. CASE userRec[script'[k].user] # None
    BY <2>2, <2>3 DEF UsersStay
  <2>4. CASE \E j \in 1..k : script[j].do = "user" /\ script[j].user = script'[k].user
    <3>1. PICK j \in 1..k : script[j].do = "user" /\ script[j].user = script'[k].user
      BY <2>4
    <3>2. CASE j = 1
      BY <1>1, <3>1, <3>2
    <3>3. CASE j # 1
      <4>1. j - 1 \in 1..(k - 1) /\ j - 1 \in 1..Len(script') /\ (j - 1) + 1 = j
        BY <1>1, <2>1, <3>3
      <4>2. script'[j - 1] = script[j]
        BY <1>1, <4>1
      <4> QED
        BY <3>1, <4>1, <4>2
    <3> QED
      BY <3>2, <3>3
  <2> QED
    BY <1>2, <2>1, <2>3, <2>4 DEF SInv, Planned
<1> QED
  BY <1>1, <1>2 DEF SInv, Planned, Dropped

LEMMA InitS == Init => SInv
<1> SUFFICES ASSUME Init PROVE SInv
  OBVIOUS
<1>1. script = <<>> /\ job = Idle
  BY DEF Init
<1>2. script \in Seq(Tasks) /\ Len(script) = 0
  BY <1>1
<1> QED
  BY <1>1, <1>2 DEF SInv, Planned, Dropped, Idle

LEMMA NextS == IInv /\ SInv /\ [Next]_vars => SInv'
<1> SUFFICES ASSUME IInv, SInv, [Next]_vars PROVE SInv'
  OBVIOUS
<1> DEFINE Kept == /\ script' = script \/ script' = <<>>
                   /\ UsersStay /\ job'.next # "drop_user"
<1>1. Kept => SInv'
  BY PlanKept
<1>2. SameLinks \/ userRec' = userRec => UsersStay
  BY DEF SameLinks, UsersStay
<1>3. CASE DropUser
  <2>1. /\ script = <<>> /\ script' = script /\ job'.next # "drop_user"
    BY <1>3 DEF DropUser, SInv, Dropped, Done, Idle, runVars
  <2>2. Len(script') = 0 /\ script' \in Seq(Tasks)
    BY <2>1
  <2> QED
    BY <2>1, <2>2 DEF SInv, Planned, Dropped
<1>4. CASE IndexUser \/ SyncUser
  <2>1. userRec' = userRec /\ job' = Idle /\ (script' = script \/ script' = <<>>)
    BY <1>4 DEF IndexUser, SyncUser, Done, runVars
  <2> QED
    BY <1>1, <1>2, <2>1 DEF Idle
<1>5. CASE LinkWallet \/ UnlinkWallet
  <2> DEFINE u == Owner(job.on)
  <2>1. u \in Users
    BY <1>5, OwnerType DEF IInv, JobOK, LinkWallet, UnlinkWallet
  <2>2. PICK links \in SUBSET Wallets : Relink(u, links)
    <3>1. userRec[u] # None => userRec[u].wallets \in SUBSET Wallets
      BY <2>1 DEF IInv, Records, UserRecord
    <3>2. job.on \in Wallets
      BY <1>5 DEF IInv, JobOK, LinkWallet, UnlinkWallet
    <3> QED
      BY <1>5, <3>1, <3>2 DEF LinkWallet, UnlinkWallet
  <2>3. UsersStay /\ job'.next # "drop_user"
    BY <2>1, <2>2, RelinkEffect DEF UsersStay, Idle
  <2>4. script' = script
    BY <1>5 DEF LinkWallet, UnlinkWallet, runVars
  <2> QED
    BY <1>1, <2>3, <2>4
<1>6. CASE IndexWallet \/ DropWallet \/ SyncWallet
  <2>1. userRec' = userRec /\ script' = script /\ job'.next # "drop_user"
    BY <1>6 DEF IndexWallet, DropWallet, SyncWallet, Then, Done, Idle, userVars, runVars
  <2> QED
    BY <1>1, <1>2, <2>1
<1>7. CASE ValStep
  <2>1. userRec' = userRec /\ script' = script /\ job'.next # "drop_user"
    BY <1>7 DEF ValStep, IndexValidator, SyncValidator, Done, Idle, userVars, runVars
  <2> QED
    BY <1>1, <1>2, <2>1
<1>8. CASE BootstrapUser
  <2>1. PICK u \in Users : /\ u = Task1.user /\ SaveUser(u) /\ job = Idle /\ script # <<>>
                           /\ script' = IF userIdx[u] = None /\ ~Creatable(u) THEN <<>>
                                        ELSE Tail(script)
    BY <1>8 DEF BootstrapUser, Doing
  <2>2. UsersStay /\ job'.next # "drop_user"
    BY <2>1, SaveUserEffect DEF UsersStay, Idle
  <2>3. CASE userIdx[u] = None /\ ~Creatable(u)
    BY <1>1, <2>1, <2>2, <2>3
  <2>4. CASE ~(userIdx[u] = None /\ ~Creatable(u))
    <3>1. userRec'[u] # None
      BY <2>1, <2>4, SaveUserEffect
    <3> QED
      BY <2>1, <2>2, <2>4, <3>1, PlanAdvanced
  <2> QED
    BY <2>3, <2>4
<1>9. CASE BootstrapWallet \/ MapKeys \/ BootstrapValidator
  <2>1. userRec' = userRec /\ job = Idle /\ script # <<>> /\ Task1.do # "user"
    BY <1>9 DEF BootstrapWallet, MapKeys, BootstrapValidator, userVars, Doing
  <2>2. script' = <<>> \/ script' = Tail(script)
    BY <1>9 DEF BootstrapWallet, MapKeys, BootstrapValidator
  <2>3. job'.next # "drop_user"
    <3>1. \A w, a : SaveWallet(w, a) => job'.next # "drop_user"
      BY SaveWalletEffect DEF Idle
    <3>2. \A u, w : SaveValidator(u, w) => job'.next # "drop_user"
      BY DEF SaveValidator, Then, Done, Idle
    <3>3. BootstrapWallet => job'.next # "drop_user"
      BY <3>1 DEF BootstrapWallet
    <3>4. BootstrapValidator => job'.next # "drop_user"
      BY <2>1, <3>2 DEF BootstrapValidator, Idle
    <3>5. MapKeys => job' = job
      BY DEF MapKeys
    <3> QED
      BY <1>9, <2>1, <3>3, <3>4, <3>5 DEF Idle
  <2>4. UsersStay
    BY <1>2, <2>1
  <2> QED
    BY <1>1, <2>1, <2>2, <2>3, <2>4, PlanAdvanced
<1>10. CASE Bootstrap
  <2>1. PICK profiles \in Profiles : script' = Work(profiles)
    BY <1>10 DEF Bootstrap
  <2>2. script' \in Seq(Tasks) /\ UsersFirst(script')
    BY <2>1, WorkPlanned
  <2>3. job'.next # "drop_user"
    BY <1>10 DEF Bootstrap, Idle
  <2> QED
    BY <2>2, <2>3 DEF SInv, Planned, Dropped, UsersFirst
<1>11. CASE Restart
  <2>1. userRec' = userRec /\ job' = Idle /\ script' = <<>>
    BY <1>11 DEF Restart, Done
  <2> QED
    BY <1>1, <1>2, <2>1 DEF Idle
<1>12. CASE \E u \in Users : DeleteUser(u)
  <2>1. PICK u \in Users : DeleteUser(u)
    BY <1>12
  <2>2. /\ script = <<>> /\ script' = script /\ userRec' = userRec /\ userRec[u].wallets = {}
        /\ job' = [next |-> "drop_user", on |-> u]
    BY <2>1 DEF DeleteUser, ByHand, Then, runVars
  <2>3. Len(script') = 0 /\ script' \in Seq(Tasks)
    BY <2>2
  <2> QED
    BY <2>2, <2>3 DEF SInv, Planned, Dropped
<1>13. CASE \E u \in Users : CreateUser(u) \/ Reconcile(u)
  <2>1. PICK u \in Users : CreateUser(u) \/ Reconcile(u)
    BY <1>13
  <2>2. job = Idle /\ script' = script
    BY <2>1 DEF CreateUser, Reconcile, ByHand, runVars
  <2>3. CreateUser(u) => SaveUser(u)
    BY DEF CreateUser
  <2>4. UsersStay /\ job'.next # "drop_user"
    <3>1. CASE CreateUser(u)
      BY <2>2, <2>3, <3>1, SaveUserEffect DEF UsersStay, Idle
    <3>2. CASE Reconcile(u)
      BY <1>2, <3>2, ReconcileEffect
    <3> QED
      BY <2>1, <3>1, <3>2
  <2> QED
    BY <1>1, <2>2, <2>4
<1>14. CASE \E w \in Wallets : \/ \E i \in Accounts : CreateWallet(w, <<Owner(w), i>>)
                               \/ DeleteWallet(w)
                               \/ \E b \in Balances : UpdateBalance(w, b)
  <2>1. userRec' = userRec /\ script' = script
    BY <1>14 DEF CreateWallet, DeleteWallet, UpdateBalance, userVars, runVars
  <2>2. job'.next # "drop_user"
    <3>1. \A w, a : CreateWallet(w, a) => job'.next # "drop_user"
      BY SaveWalletEffect DEF CreateWallet, Idle
    <3>2. \A w : DeleteWallet(w) => job'.next # "drop_user"
      BY DEF DeleteWallet, Then
    <3>3. \A w, b : UpdateBalance(w, b) => job'.next # "drop_user"
      BY DEF UpdateBalance, Then
    <3> QED
      BY <1>14, <3>1, <3>2, <3>3
  <2> QED
    BY <1>1, <1>2, <2>1, <2>2
<1>15. CASE \/ RebuildWalletIndex
            \/ \E u \in Users, w \in Wallets : Register(u, w)
            \/ \E i \in Indices, s \in Statuses : UpdateStatus(i, s)
  <2>1. userRec' = userRec /\ script' = script /\ job = Idle
    BY <1>15 DEF RebuildWalletIndex, Register, UpdateStatus, ByHand, userVars, runVars
  <2>2. job'.next # "drop_user"
    <3>1. \A u, w : Register(u, w) => job'.next # "drop_user"
      BY DEF Register, SaveValidator, Then, Done, Idle
    <3>2. \A i, s : UpdateStatus(i, s) => job'.next # "drop_user"
      BY DEF UpdateStatus, Then
    <3>3. RebuildWalletIndex => job' = job
      BY DEF RebuildWalletIndex
    <3> QED
      BY <1>15, <2>1, <3>1, <3>2, <3>3 DEF Idle
  <2> QED
    BY <1>1, <1>2, <2>1, <2>2
<1>16. CASE UNCHANGED vars
  BY <1>16 DEF vars, userVars, runVars, SInv, Planned, Dropped
<1> QED
  BY <1>3, <1>4, <1>5, <1>6, <1>7, <1>8, <1>9, <1>10, <1>11, <1>12, <1>13, <1>14, <1>15, <1>16
     DEF Next, UserStep, WalletStep, RunStep, Call

\* What a run has left creates the owner of a wallet before it.
THEOREM PlanInvariance == Spec => []SInv
<1> QED
  BY InitS, NextS, Invariance, PTL DEF Spec

------------------------------------------------------------------------------
\* What a stop damages.

At(w, steps) == job.next \in steps /\ job.on = w

\* A wallet that no stop cut an operation on has a record, an entry and a link
\* that agree, but for the write that comes next; and it has no record without
\* an owner.
Confined(w) ==
    /\ walletRec[w] # None => Indexed(w) \/ At(w, {"index_wallet", "drop_wallet"})
    /\ Indexed(w) => /\ walletIdx[w].at = walletRec[w].at
                     /\ walletIdx[w].balance = walletRec[w].balance \/ At(w, {"sync_wallet"})
    /\ userRec[Owner(w)] = None => walletRec[w] = None
    /\ userRec[Owner(w)] # None =>
         \/ w \in userRec[Owner(w)].wallets <=> walletRec[w] # None
         \/ At(w, {"index_wallet", "link_wallet", "unlink_wallet"})
    /\ At(w, {"link_wallet"}) => walletRec[w] # None
    /\ At(w, {"unlink_wallet"}) => walletRec[w] = None

CInv == \A w \in Wallets \ torn : Confined(w)

\* A step that is not about w, nor about the wallets of its owner.
Apart(w) ==
    /\ walletRec'[w] = walletRec[w] /\ walletIdx'[w] = walletIdx[w]
    /\ userRec'[Owner(w)] = None <=> userRec[Owner(w)] = None
    /\ userRec[Owner(w)] # None =>
         (w \in userRec'[Owner(w)].wallets <=> w \in userRec[Owner(w)].wallets)
    /\ job' = job \/ (~At(w, WalletJobs) /\ ~At(w, WalletJobs)')

LEMMA ApartKept == ASSUME NEW w, Confined(w), Apart(w) PROVE Confined(w)'
  BY DEF Confined, Apart, At, Indexed

LEMMA LinksKept ==
    ASSUME NEW w \in Wallets, SameLinks
    PROVE  /\ userRec'[Owner(w)] = None <=> userRec[Owner(w)] = None
           /\ userRec[Owner(w)] # None =>
                (w \in userRec'[Owner(w)].wallets <=> w \in userRec[Owner(w)].wallets)
  BY OwnerType DEF SameLinks

\* Steps that leave wallets and links alone.
LEMMA CElsewhere ==
    ASSUME CInv, walletRec' = walletRec, walletIdx' = walletIdx, torn' = torn,
           SameLinks, job' = job \/ (job.next \notin WalletJobs /\ job'.next \notin WalletJobs)
    PROVE  CInv'
<1>1. ASSUME NEW w \in Wallets PROVE Apart(w)
  BY <1>1, LinksKept DEF Apart, At
<1> QED
  BY <1>1, ApartKept DEF CInv

LEMMA SameRecords == userRec' = userRec => SameLinks
  BY DEF SameLinks

\* A user is saved only if there is none, so has no wallets yet.
LEMMA SaveUserC ==
    ASSUME IInv, CInv, NEW u \in Users, job = Idle, SaveUser(u),
           walletRec' = walletRec, walletIdx' = walletIdx, torn' = torn
    PROVE  CInv'
<1>1. ASSUME NEW w \in Wallets \ torn PROVE Confined(w)'
  <2>1. job' = Idle \/ job'.next = "index_user"
    BY SaveUserEffect
  <2>2. job.next \notin WalletJobs /\ job'.next \notin WalletJobs
    BY <2>1 DEF Idle
  <2>3. CASE Owner(w) # u \/ userRec[u] # None \/ userRec'[u] = None
    <3>1. Apart(w)
      BY <2>2, <2>3, OwnerType, SaveUserEffect DEF Apart, At
    <3> QED
      BY <3>1, ApartKept DEF CInv
  <2>4. CASE Owner(w) = u /\ userRec[u] = None /\ userRec'[u] # None
    <3>1. userRec'[u].wallets = {} /\ walletRec[w] = None
      BY <2>4, SaveUserEffect DEF CInv, Confined
    <3>2. ~Indexed(w)
      BY <3>1 DEF Indexed, IInv, IndexedHasRecord
    <3> QED
      BY <2>2, <2>4, <3>1, <3>2 DEF Confined, At, Indexed
  <2> QED
    BY <2>3, <2>4
<1> QED
  BY <1>1 DEF CInv

\* A user is dropped only without wallets.
LEMMA DropUserC == IInv /\ SInv /\ CInv /\ DropUser => CInv'
<1> SUFFICES ASSUME IInv, SInv, CInv, DropUser PROVE CInv'
  OBVIOUS
<1> DEFINE u == job.on
<1>1. /\ u \in Users /\ job.next = "drop_user" /\ job' = Idle
      /\ userRec' = [userRec EXCEPT ![u] = None]
      /\ UNCHANGED <<walletRec, walletIdx, torn>>
      /\ userRec[u] # None => userRec[u].wallets = {}
  BY DEF DropUser, IInv, JobOK, Done, walletVars, counts, SInv, Dropped
<1> HIDE DEF u
<1>2. userRec'[u] = None /\ \A v \in Users \ {u} : userRec'[v] = userRec[v]
  BY <1>1 DEF IInv, Records
<1>3. ASSUME NEW w \in Wallets \ torn PROVE Confined(w)'
  <2>1. CASE Owner(w) # u \/ userRec[u] = None
    <3>1. Apart(w)
      BY <1>1, <1>2, <2>1, OwnerType DEF Apart, At, Idle
    <3> QED
      BY <3>1, ApartKept DEF CInv
  <2>2. CASE Owner(w) = u /\ userRec[u] # None
    <3>1. walletRec[w] = None
      BY <1>1, <2>2 DEF CInv, Confined, At
    <3>2. ~Indexed(w)
      BY <3>1 DEF Indexed, IInv, IndexedHasRecord
    <3> QED
      BY <1>1, <1>2, <2>2, <3>1, <3>2 DEF Confined, At, Indexed, Idle
  <2> QED
    BY <2>1, <2>2
<1> QED
  BY <1>1, <1>3 DEF CInv

\* The writes of an operation on one wallet: the others are left alone.
LEMMA OneWallet ==
    ASSUME CInv, NEW w \in Wallets, torn' = torn, SameLinks,
           \A v \in Wallets \ {w} : walletRec'[v] = walletRec[v] /\ walletIdx'[v] = walletIdx[v],
           job.next \in WalletJobs => job.on = w, job'.next \in WalletJobs => job'.on = w,
           w \notin torn => Confined(w)'
    PROVE  CInv'
<1>1. ASSUME NEW v \in Wallets \ {w} PROVE Apart(v)
  BY <1>1, LinksKept DEF Apart, At
<1> QED
  BY <1>1, ApartKept DEF CInv

LEMMA IndexWalletC == IInv /\ TInv /\ CInv /\ IndexWallet => CInv'
<1> SUFFICES ASSUME IInv, TInv, CInv, IndexWallet PROVE CInv'
  OBVIOUS
<1>0. PICK w \in Wallets : w = job.on
  BY DEF IndexWallet, IInv, JobOK
<1>1. /\ w \in Wallets /\ walletRec[w] \in WalletRecord /\ walletRec[w] # None
      /\ job.next = "index_wallet" /\ job' = [next |-> "link_wallet", on |-> w]
      /\ userRec' = userRec /\ walletRec' = walletRec /\ torn' = torn
  BY <1>0 DEF IndexWallet, IInv, JobOK, Records, Then, userVars, counts
<1>2. (IF Indexed(w) THEN walletIdx[w].seat ELSE LastSeat + 1) \in Nat
  BY <1>1, LastSeatType DEF TInv, Seats, Indexed, WalletEntry
<1>3. PICK s \in Nat : walletIdx' = [walletIdx EXCEPT ![w] = EntryAt(w, s)]
  BY <1>0, <1>2 DEF IndexWallet
<1>4. /\ walletIdx'[w] = EntryAt(w, s) /\ walletIdx'[w] # None
      /\ \A v \in Wallets \ {w} : walletIdx'[v] = walletIdx[v]
  BY <1>1, <1>3, EntryWritten DEF TInv, Seats
<1>5. walletIdx'[w].at = walletRec[w].at /\ walletIdx'[w].balance = walletRec[w].balance
  BY <1>4 DEF EntryAt
<1>6. w \notin torn => Confined(w)'
  BY <1>1, <1>4, <1>5 DEF CInv, Confined, At, Indexed
<1> QED
  BY <1>1, <1>4, <1>6, SameRecords, OneWallet, <1>0

LEMMA DropWalletC == IInv /\ CInv /\ DropWallet => CInv'
<1> SUFFICES ASSUME IInv, CInv, DropWallet PROVE CInv'
  OBVIOUS
<1>0. PICK w \in Wallets : w = job.on
  BY DEF DropWallet, IInv, JobOK
<1>1. /\ w \in Wallets /\ walletIdx[w] = None
      /\ job.next = "drop_wallet" /\ job' = [next |-> "unlink_wallet", on |-> w]
      /\ userRec' = userRec /\ walletIdx' = walletIdx /\ torn' = torn
      /\ walletRec' = [walletRec EXCEPT ![w] = None]
  BY <1>0 DEF DropWallet, IInv, JobOK, Then, userVars, counts
<1>2. walletRec'[w] = None /\ \A v \in Wallets \ {w} : walletRec'[v] = walletRec[v]
  BY <1>1 DEF IInv, Records
<1>3. w \notin torn => Confined(w)'
  BY <1>1, <1>2 DEF CInv, Confined, At, Indexed
<1> QED
  BY <1>1, <1>2, <1>3, SameRecords, OneWallet, <1>0

LEMMA SyncWalletC == IInv /\ TInv /\ CInv /\ SyncWallet => CInv'
<1> SUFFICES ASSUME IInv, TInv, CInv, SyncWallet PROVE CInv'
  OBVIOUS
<1>0. PICK w \in Wallets : w = job.on
  BY DEF SyncWallet, IInv, JobOK
<1> DEFINE b == walletRec[w].balance
<1>1. /\ w \in Wallets /\ walletRec[w] # None
      /\ job.next = "sync_wallet" /\ job' = Idle
      /\ userRec' = userRec /\ walletRec' = walletRec /\ torn' = torn
      /\ Indexed(w) => walletIdx' = [walletIdx EXCEPT ![w].balance = b]
      /\ ~Indexed(w) => walletIdx' = walletIdx
  BY <1>0 DEF SyncWallet, IInv, JobOK, Done, userVars, counts
<1> HIDE DEF b
<1>2. CASE ~Indexed(w)
  <2>1. w \notin torn => Confined(w)'
    BY <1>1, <1>2 DEF CInv, Confined, At, Indexed, Idle
  <2> QED
    BY <1>1, <1>2, <2>1, SameRecords, OneWallet, <1>0 DEF Idle
<1>3. CASE Indexed(w)
  <2>1. walletIdx[w] \in WalletEntry
    BY <1>1, <1>3 DEF TInv, Seats, Indexed
  <2>2. /\ walletIdx'[w] = [walletIdx[w] EXCEPT !.balance = b]
        /\ \A v \in Wallets \ {w} : walletIdx'[v] = walletIdx[v]
    BY <1>1, <1>3 DEF TInv, Seats
  <2>3. /\ walletIdx'[w].balance = b /\ walletIdx'[w].at = walletIdx[w].at
        /\ walletIdx'[w] # None
    <3>1. b \in Balances
      BY <1>1 DEF IInv, Records, WalletRecord, b
    <3>2. walletIdx'[w] \in WalletEntry
      BY <2>1, <2>2, <3>1 DEF WalletEntry
    <3> QED
      BY <2>1, <2>2, <3>2, AccountsAssumption DEF WalletEntry
  <2>4. w \notin torn => Confined(w)'
    BY <1>1, <1>3, <2>3 DEF CInv, Confined, At, Indexed, Idle, b
  <2> QED
    BY <1>1, <2>2, <2>4, SameRecords, OneWallet, <1>0 DEF Idle
<1> QED
  BY <1>2, <1>3

\* The link of one wallet is made or removed.
LEMMA RelinkC ==
    ASSUME IInv, CInv, job.on \in Wallets, job.next \in {"link_wallet", "unlink_wallet"},
           NEW links \in SUBSET Wallets, Relink(Owner(job.on), links),
           userRec[Owner(job.on)] # None =>
               /\ \A v \in Wallets \ {job.on} : v \in links <=> v \in userRec[Owner(job.on)].wallets
               /\ job.on \in links <=> job.next = "link_wallet",
           walletRec' = walletRec, walletIdx' = walletIdx, torn' = torn
    PROVE  CInv'
<1>0. PICK w \in Wallets : w = job.on
  OBVIOUS
<1> DEFINE u == Owner(w)
<1>1. /\ u \in Users
      /\ \A x \in Users \ {u} : userRec'[x] = userRec[x]
      /\ userRec'[u] = None <=> userRec[u] = None
      /\ userRec[u] # None => userRec'[u].wallets = links
      /\ job'.next \notin WalletJobs
  BY <1>0, OwnerType, RelinkEffect DEF Idle
<1>2. ASSUME NEW v \in Wallets \ torn, v # w PROVE Confined(v)'
  <2>1. Apart(v)
    BY <1>0, <1>1, <1>2, OwnerType DEF Apart, At
  <2> QED
    BY <2>1, ApartKept DEF CInv
<1>3. ASSUME w \notin torn PROVE Confined(w)'
  BY <1>0, <1>1, <1>3 DEF CInv, Confined, At, Indexed
<1> QED
  BY <1>2, <1>3 DEF CInv

LEMMA LinkWalletC == IInv /\ CInv /\ (LinkWallet \/ UnlinkWallet) => CInv'
<1> SUFFICES ASSUME IInv, CInv, LinkWallet \/ UnlinkWallet PROVE CInv'
  OBVIOUS
<1> DEFINE u == Owner(job.on)
<1>1. /\ job.on \in Wallets /\ u \in Users
      /\ walletRec' = walletRec /\ walletIdx' = walletIdx /\ torn' = torn
  BY OwnerType DEF LinkWallet, UnlinkWallet, IInv, JobOK, walletVars, counts
<1>2. userRec[u] # None => userRec[u].wallets \in SUBSET Wallets
  BY <1>1 DEF IInv, Records, UserRecord
<1>3. CASE LinkWallet
  <2> DEFINE links == IF userRec[u] = None THEN {} ELSE userRec[u].wallets \cup {job.on}
  <2>1. Relink(u, links) /\ job.next = "link_wallet" /\ links \in SUBSET Wallets
    BY <1>1, <1>2, <1>3 DEF LinkWallet
  <2>2. userRec[u] # None => /\ \A v \in Wallets \ {job.on} : v \in links <=> v \in userRec[u].wallets
                             /\ job.on \in links <=> job.next = "link_wallet"
    BY <2>1
  <2> HIDE DEF links
  <2> QED
    BY <1>1, <2>1, <2>2, RelinkC
<1>4. CASE UnlinkWallet
  <2> DEFINE links == IF userRec[u] = None THEN {} ELSE userRec[u].wallets \ {job.on}
  <2>1. Relink(u, links) /\ job.next = "unlink_wallet" /\ links \in SUBSET Wallets
    BY <1>1, <1>2, <1>4 DEF UnlinkWallet
  <2>2. userRec[u] # None => /\ \A v \in Wallets \ {job.on} : v \in links <=> v \in userRec[u].wallets
                             /\ job.on \in links <=> job.next = "link_wallet"
    BY <2>1
  <2> HIDE DEF links
  <2> QED
    BY <1>1, <2>1, <2>2, RelinkC
<1> QED
  BY <1>3, <1>4

LEMMA SaveWalletC ==
    ASSUME IInv, CInv, NEW w \in Wallets, NEW a \in Addresses, job = Idle, SaveWallet(w, a),
           userRec[Owner(w)] # None, userRec' = userRec, walletIdx' = walletIdx, torn' = torn
    PROVE  CInv'
<1>1. CASE walletRec' = walletRec /\ job' = Idle
  BY <1>1, SameRecords, CElsewhere
<1>2. CASE /\ walletRec[w] = None
           /\ walletRec' = [walletRec EXCEPT ![w] = [at |-> a, balance |-> 0]]
           /\ job' = [next |-> "index_wallet", on |-> w]
  <2>1. /\ walletRec'[w] # None /\ \A v \in Wallets \ {w} : walletRec'[v] = walletRec[v]
    BY <1>2, WalletWritten, NotNone DEF IInv, Records
  <2>2. walletIdx[w] = None
    BY <1>2 DEF IInv, IndexedHasRecord
  <2>3. w \notin torn => Confined(w)'
    BY <1>2, <2>1, <2>2 DEF Confined, At, Indexed
  <2> QED
    BY <1>2, <2>1, <2>3, SameRecords, OneWallet DEF Idle
<1> QED
  BY <1>1, <1>2, SaveWalletEffect

LEMMA DeleteWalletC ==
    ASSUME IInv, TInv, CInv, NEW w \in Wallets, DeleteWallet(w)
    PROVE  CInv'
<1>1. /\ job = Idle /\ job' = [next |-> "drop_wallet", on |-> w] /\ walletRec[w] # None
      /\ userRec' = userRec /\ walletRec' = walletRec /\ torn' = torn
      /\ walletIdx' = [walletIdx EXCEPT ![w] = None]
  BY DEF DeleteWallet, ByHand, Then, userVars
<1>2. walletIdx'[w] = None /\ \A v \in Wallets \ {w} : walletIdx'[v] = walletIdx[v]
  BY <1>1 DEF TInv, Seats
<1>3. w \notin torn => Confined(w)'
  BY <1>1, <1>2 DEF CInv, Confined, At, Indexed, Idle
<1> QED
  BY <1>1, <1>2, <1>3, SameRecords, OneWallet DEF Idle

LEMMA UpdateBalanceC ==
    ASSUME IInv, CInv, NEW w \in Wallets, NEW b \in Balances, UpdateBalance(w, b)
    PROVE  CInv'
<1>1. /\ job = Idle /\ job' = [next |-> "sync_wallet", on |-> w]
      /\ walletRec[w] \in WalletRecord /\ walletRec[w] # None
      /\ userRec' = userRec /\ walletIdx' = walletIdx /\ torn' = torn
      /\ walletRec' = [walletRec EXCEPT ![w].balance = b]
  BY DEF UpdateBalance, ByHand, Then, userVars, IInv, Records
<1>2. /\ walletRec'[w] = [walletRec[w] EXCEPT !.balance = b]
      /\ \A v \in Wallets \ {w} : walletRec'[v] = walletRec[v]
  BY <1>1 DEF IInv, Records
<1>3. walletRec'[w].at = walletRec[w].at /\ walletRec'[w] # None
  BY <1>1, <1>2, WalletWritten, NotNone DEF WalletRecord
<1>4. w \notin torn => Confined(w)'
  BY <1>1, <1>3 DEF CInv, Confined, At, Indexed, Idle
<1> QED
  BY <1>1, <1>2, <1>4, SameRecords, OneWallet DEF Idle

\* Rebuilt, every record has the entry it asks for.
LEMMA RebuildC == IInv /\ CInv /\ RebuildWalletIndex => CInv'
<1> SUFFICES ASSUME IInv, CInv, RebuildWalletIndex PROVE CInv'
  OBVIOUS
<1> DEFINE kept == {w \in Wallets : walletRec[w] # None}
<1>1. PICK seat \in [kept -> 1..Cardinality(kept)] :
        walletIdx' = [w \in Wallets |-> IF w \in kept THEN EntryAt(w, seat[w]) ELSE None]
  BY DEF RebuildWalletIndex
<1>2. job = Idle /\ job' = job /\ userRec' = userRec /\ walletRec' = walletRec /\ torn' = torn
  BY DEF RebuildWalletIndex, ByHand, userVars
<1>3. ASSUME NEW w \in Wallets, walletRec[w] # None
      PROVE  /\ walletIdx'[w] # None /\ walletIdx'[w].at = walletRec[w].at
             /\ walletIdx'[w].balance = walletRec[w].balance
  <2>1. seat[w] \in Nat /\ walletRec[w] \in WalletRecord
    BY <1>1, <1>3 DEF IInv, Records
  <2>2. walletIdx'[w] = EntryAt(w, seat[w])
    BY <1>1, <1>3
  <2>3. walletIdx'[w] # None
    BY <2>1, <2>2, EntryWritten
  <2> QED
    BY <2>2, <2>3 DEF EntryAt
<1>4. \A w \in Wallets : walletRec[w] = None => walletIdx'[w] = None
  BY <1>1
<1>5. ASSUME NEW w \in Wallets \ torn PROVE Confined(w)'
  BY <1>2, <1>3, <1>4 DEF CInv, Confined, At, Indexed, Idle
<1> QED
  BY <1>2, <1>5 DEF CInv

\* A stop marks the wallet whose operation it cuts.
LEMMA RestartC == IInv /\ CInv /\ Restart => CInv'
<1> SUFFICES ASSUME IInv, CInv, Restart PROVE CInv'
  OBVIOUS
<1>1. /\ userRec' = userRec /\ walletRec' = walletRec /\ walletIdx' = walletIdx
      /\ job' = Idle /\ torn \subseteq torn'
      /\ job.next \in WalletJobs => job.on \in torn'
  BY DEF Restart, Done, Cut, WalletSteps, walletVars
<1>2. ASSUME NEW w \in Wallets \ torn' PROVE Confined(w)'
  <2>1. Apart(w)
    BY <1>1 DEF Apart, At, Idle
  <2> QED
    BY <1>1, <2>1, ApartKept DEF CInv
<1> QED
  BY <1>2 DEF CInv

LEMMA InitC == Init => CInv
  BY OwnerType DEF Init, CInv, Confined, At, Indexed, Idle

LEMMA NextC == IInv /\ TInv /\ SInv /\ CInv /\ [Next]_vars => CInv'
<1> SUFFICES ASSUME IInv, TInv, SInv, CInv, [Next]_vars PROVE CInv'
  OBVIOUS
<1> DEFINE Alone == walletRec' = walletRec /\ walletIdx' = walletIdx /\ torn' = torn
           NoJob == job' = job \/ (job.next \notin WalletJobs /\ job'.next \notin WalletJobs)
<1>1. Alone /\ NoJob /\ (SameLinks \/ userRec' = userRec) => CInv'
  BY SameRecords, CElsewhere
<1>2. CASE IndexUser \/ SyncUser
  <2>1. Alone /\ NoJob /\ userRec' = userRec
    BY <1>2 DEF IndexUser, SyncUser, Done, Idle, walletVars, counts
  <2> QED
    BY <1>1, <2>1
<1>3. CASE ValStep
  <2>1. Alone /\ NoJob /\ userRec' = userRec
    BY <1>3 DEF ValStep, IndexValidator, SyncValidator, Done, Idle, userVars, walletVars, counts
  <2> QED
    BY <1>1, <2>1
<1>4. CASE BootstrapUser
  BY <1>4, SaveUserC DEF BootstrapUser, Doing, walletVars, counts
<1>5. CASE BootstrapWallet
  <2>1. PICK w \in Wallets, a \in Addresses :
          SaveWallet(w, a) /\ w = StandardWallet(Task1.user, Task1.account)
    BY <1>5 DEF BootstrapWallet
  <2>2. /\ job = Idle /\ script # <<>> /\ Task1.do = "wallet"
        /\ userRec' = userRec /\ walletIdx' = walletIdx /\ torn' = torn
    BY <1>5 DEF BootstrapWallet, Doing, userVars, counts
  <2>3. Owner(w) = Task1.user
    BY <2>1 DEF StandardWallet, Owner
  <2>4. 1 \in 1..Len(script) /\ Task1 = script[1]
    BY <2>2 DEF SInv, Task1
  <2>5. userRec[Owner(w)] # None
    BY <2>2, <2>3, <2>4 DEF SInv, Planned
  <2> QED
    BY <2>1, <2>2, <2>5, SaveWalletC
<1>6. CASE MapKeys \/ Bootstrap \/ UNCHANGED vars
  <2>1. Alone /\ job' = job /\ userRec' = userRec
    BY <1>6 DEF MapKeys, Bootstrap, vars, userVars, walletVars, counts
  <2> QED
    BY <1>1, <2>1
<1>7. CASE BootstrapValidator
  <2>1. Alone /\ userRec' = userRec /\ job = Idle
    BY <1>7 DEF BootstrapValidator, Doing, userVars, walletVars, counts
  <2>2. job' = job \/ job' = Idle \/ job'.next = "index_validator"
    <3>1. \A u, w : SaveValidator(u, w) => job' = Idle \/ job'.next = "index_validator"
      BY DEF SaveValidator, Then, Done
    <3> QED
      BY <1>7, <3>1 DEF BootstrapValidator
  <2>3. NoJob
    BY <2>1, <2>2 DEF Idle
  <2> QED
    BY <1>1, <2>1, <2>3
<1>8. ASSUME NEW u \in Users, CreateUser(u) PROVE CInv'
  BY <1>8, SaveUserC DEF CreateUser, ByHand, walletVars
<1>9. ASSUME NEW u \in Users, DeleteUser(u) PROVE CInv'
  <2>1. Alone /\ NoJob /\ userRec' = userRec
    BY <1>9 DEF DeleteUser, ByHand, Then, Idle, walletVars
  <2> QED
    BY <1>1, <2>1
<1>10. ASSUME NEW u \in Users, Reconcile(u) PROVE CInv'
  <2>1. SameLinks /\ job'.next = "sync_user"
    BY <1>10, ReconcileEffect
  <2>2. Alone /\ job = Idle
    BY <1>10 DEF Reconcile, ByHand, walletVars
  <2>3. NoJob
    BY <2>1, <2>2 DEF Idle
  <2> QED
    BY <1>1, <2>1, <2>2, <2>3
<1>11. ASSUME NEW w \in Wallets, NEW i \in Accounts, CreateWallet(w, <<Owner(w), i>>) PROVE CInv'
  <2>1. <<Owner(w), i>> \in Addresses
    BY OwnerType DEF Addresses
  <2>2. /\ job = Idle /\ userRec[Owner(w)] # None /\ SaveWallet(w, <<Owner(w), i>>)
        /\ userRec' = userRec /\ walletIdx' = walletIdx /\ torn' = torn
    BY <1>11 DEF CreateWallet, ByHand, userVars
  <2> QED
    BY <2>1, <2>2, SaveWalletC
<1>12. CASE \E u \in Users, w \in Wallets : Register(u, w)
  <2>1. PICK u \in Users, w \in Wallets : Register(u, w)
    BY <1>12
  <2>2. Alone /\ userRec' = userRec /\ job = Idle /\ SaveValidator(u, w)
    BY <2>1 DEF Register, ByHand, userVars, walletVars
  <2>3. NoJob
    BY <2>2 DEF SaveValidator, Then, Done, Idle
  <2> QED
    BY <1>1, <2>2, <2>3
<1>13. CASE \E i \in Indices, s \in Statuses : UpdateStatus(i, s)
  <2>1. Alone /\ NoJob /\ userRec' = userRec
    BY <1>13 DEF UpdateStatus, ByHand, Then, Idle, userVars, walletVars
  <2> QED
    BY <1>1, <2>1
<1> QED
  BY <1>2, <1>3, <1>4, <1>5, <1>6, <1>7, <1>8, <1>9, <1>10, <1>11, <1>12, <1>13,
     DropUserC, IndexWalletC, DropWalletC, SyncWalletC, LinkWalletC, DeleteWalletC, UpdateBalanceC,
     RebuildC, RestartC
     DEF Next, UserStep, WalletStep, RunStep, Call

\* Record, entry and link of a wallet no stop cut agree, but for the next write.
THEOREM ConfinedInvariance == Spec => []CInv
<1> QED
  BY InitC, NextC, Invariance, TypeInvariance, PlanInvariance, PTL DEF Spec

\* For any users, wallets and profiles, and any number of stops, a stop damages
\* only the wallet whose operation it cut.
THEOREM DamageConfinedTheorem == Spec => []DamageConfined
<1>1. IInv /\ TInv /\ CInv => DamageConfined
  <2> SUFFICES ASSUME IInv, TInv, CInv, Resting, NEW w \in Wallets \ torn
               PROVE  /\ Indexed(w) <=> walletRec[w] # None
                      /\ Indexed(w) => walletIdx[w] = EntryAt(w, walletIdx[w].seat)
                      /\ userRec[Owner(w)] # None =>
                           (w \in userRec[Owner(w)].wallets <=> walletRec[w] # None)
    BY DEF DamageConfined
  <2>1. Confined(w) /\ job = Idle
    BY DEF CInv, Resting
  <2>2. Indexed(w) <=> walletRec[w] # None
    BY <2>1 DEF Confined, At, Idle, Indexed, IInv, IndexedHasRecord
  <2>3. ASSUME Indexed(w) PROVE walletIdx[w] = EntryAt(w, walletIdx[w].seat)
    <3>1. walletIdx[w] \in WalletEntry
      BY <2>3 DEF TInv, Seats, Indexed
    <3>2. walletIdx[w].at = walletRec[w].at /\ walletIdx[w].balance = walletRec[w].balance
      BY <2>1, <2>3 DEF Confined, At, Idle
    <3> QED
      BY <3>1, <3>2 DEF WalletEntry, EntryAt
  <2>4. userRec[Owner(w)] # None => (w \in userRec[Owner(w)].wallets <=> walletRec[w] # None)
    BY <2>1 DEF Confined, At, Idle
  <2> QED
    BY <2>2, <2>3, <2>4
<1> QED
  BY <1>1, Invariance, TypeInvariance, ConfinedInvariance, PTL

------------------------------------------------------------------------------
\* The keys that a run finds.

\* What the keys rely on: no passphrase, and standard wallets that are distinct, of
\* the types there are, and fit; the ledger's three leave one to spare.
KeysAssumption ==
    /\ Phrase = None
    /\ \A u \in Users :
          /\ \A i, j \in DOMAIN Standard[u] : Standard[u][i] = Standard[u][j] => i = j
          /\ Types(u) \subseteq WalletTypes
          /\ Len(Standard[u]) <= MaxWallets
          /\ u \in Ledgers => Len(Standard[u]) < MaxWallets

Places(u)  == 0..(Len(Standard[u]) - 1)
Have(u, i) == walletRec[StandardWallet(u, i)] # None

\* Nothing but runs of the bootstrap changed wallets, and none was cut at one.
Calm == torn = {} /\ ~edited

\* Addresses are their owner's.
Own ==
    /\ \A w \in Wallets : walletRec[w] # None => walletRec[w].at[1] = Owner(w)
    /\ \A w \in Wallets : walletIdx[w] # None => walletIdx[w].at[1] = Owner(w)
    /\ \A a \in Addresses : keyMap[a] \in {None, a}

\* A wallet is one of the standard ones, at the account of its place.
Placed ==
    \A w \in Wallets : walletRec[w] # None =>
        \E i \in Places(Owner(w)) :
            w = StandardWallet(Owner(w), i) /\ walletRec[w].at = <<Owner(w), i>>

\* The wallets of a user are made, and seated, in the order of their places.
InOrder ==
    /\ job.next = "index_wallet" => ~Indexed(job.on)
    /\ \A u \in Users : \A i \in Places(u) : \A j \in 0..(i - 1) :
          /\ Have(u, i) => Have(u, j)
          /\ Indexed(StandardWallet(u, i)) /\ Indexed(StandardWallet(u, j)) =>
                walletIdx[StandardWallet(u, j)].seat < walletIdx[StandardWallet(u, i)].seat
          /\ job.next = "index_wallet" /\ job.on = StandardWallet(u, j) => ~Have(u, i)

\* The tasks of a run: users, wallets, maps, validators.
Phased(s) ==
    \A k \in 1..Len(s) :
        /\ s[k].do = "user" => \A m \in 1..(k - 1) : s[m].do = "user"
        /\ s[k].do \in {"wallet", "maps"} => \A m \in 1..(k - 1) : s[m].do \in {"user", "wallet"}
        /\ s[k].do \in {"user", "wallet"} => \E m \in (k + 1)..Len(s) : s[m].do = "maps"

PlacesOK(s) ==
    \A k \in 1..Len(s) : s[k].do = "wallet" => s[k].account \in Places(s[k].user)

Ahead(s, k, j) ==
    \E m \in 1..(k - 1) : s[m].do = "wallet" /\ s[m].user = s[k].user /\ s[m].account = j

\* Before a wallet come those at the places before its own.
Successive ==
    \A k \in 1..Len(script) : script[k].do = "wallet" =>
        \A j \in 0..(script[k].account - 1) : Have(script[k].user, j) \/ Ahead(script, k, j)

\* The address map has the wallets that the run has passed, as their records do.
Addressed ==
    \A w \in Wallets : addressMap[w] # None =>
        walletRec[w] # None /\ addressMap[w] = walletRec[w].at

Tasked(do) == \E k \in 1..Len(script) : script[k].do = do

\* The plan of a run, and what is still to be collected while its users are made.
PInv ==
    /\ Phased(script) /\ PlacesOK(script)
    /\ Tasked("user") => \A w \in Wallets : addressMap[w] = None

\* Removals are made by hand.
ByOthers == job.next \in {"drop_user", "drop_wallet", "unlink_wallet"} => edited

LInv == ByOthers /\ (Calm => Placed /\ InOrder /\ Successive /\ Addressed)

MInv ==
    Calm /\ ~Tasked("maps") =>
        \A w \in Wallets : addressMap[w] # None => keyMap[addressMap[w]] = addressMap[w]

\* Wallets at their places, each after those at the places below.
Row(s) ==
    \A k \in 1..Len(s) :
        /\ s[k].do = "wallet" /\ s[k].account \in Places(s[k].user)
        /\ \A j \in 0..(s[k].account - 1) : Ahead(s, k, j)

LEMMA RowJoined ==
    ASSUME NEW s \in Seq(Tasks), Row(s), NEW u \in Users
    PROVE  s \o WalletTasks(u) \in Seq(Tasks) /\ Row(s \o WalletTasks(u))
<1> DEFINE n == Len(Standard[u])
           r == WalletTasks(u)
           t == s \o r
<1>1. n \in Nat /\ DOMAIN Standard[u] = 1..n
  <2>1. Standard[u] \in Seq(Types(u))
    BY AccountsAssumption
  <2> QED
    BY <2>1
<1>2. r = [k \in 1..n |-> Task("wallet", u, k - 1)]
  BY <1>1 DEF WalletTasks
<1> HIDE DEF n, r
<1>3. \A k \in 1..n : r[k] = Task("wallet", u, k - 1) /\ Task("wallet", u, k - 1) \in Tasks
  BY <1>1, <1>2 DEF Task, Tasks
<1>4. r \in Seq(Tasks) /\ Len(r) = n
  BY <1>1, <1>2, <1>3
<1>5. /\ t \in Seq(Tasks) /\ Len(t) = Len(s) + n /\ Len(s) \in Nat
      /\ \A k \in 1..Len(s) : t[k] = s[k]
      /\ \A k \in 1..n : t[Len(s) + k] = r[k]
  BY <1>1, <1>4
<1> HIDE DEF t
<1>6. ASSUME NEW k \in 1..Len(t)
      PROVE  /\ t[k].do = "wallet" /\ t[k].account \in Places(t[k].user)
             /\ \A j \in 0..(t[k].account - 1) : Ahead(t, k, j)
  <2>1. CASE k \in 1..Len(s)
    <3>1. t[k] = s[k] /\ \A m \in 1..(k - 1) : t[m] = s[m]
      BY <1>5, <2>1
    <3> QED
      BY <2>1, <3>1 DEF Row, Ahead
  <2>2. CASE k \notin 1..Len(s)
    <3> DEFINE i == k - Len(s)
    <3>0. i \in 1..n /\ Len(s) + i = k
      BY <1>1, <1>5, <2>2
    <3>1. i \in 1..n /\ t[k] = Task("wallet", u, i - 1)
      <4>1. t[Len(s) + i] = r[i] /\ r[i] = Task("wallet", u, i - 1)
        BY <1>3, <1>5, <3>0
      <4> QED
        BY <3>0, <4>1, Zenon
    <3>2. i - 1 \in Places(u)
      BY <1>1, <3>1 DEF Places, n
    <3>3. ASSUME NEW j \in 0..(i - 2)
          PROVE  \E m \in 1..(k - 1) : t[m].do = "wallet" /\ t[m].user = u /\ t[m].account = j
      <4>1. j + 1 \in 1..n /\ Len(s) + (j + 1) \in 1..(k - 1) /\ (j + 1) - 1 = j
        BY <1>1, <1>5, <3>1, <3>3
      <4> DEFINE m == Len(s) + (j + 1)
      <4>2. t[m] = Task("wallet", u, j)
        <5>1. t[m] = r[j + 1] /\ r[j + 1] = Task("wallet", u, (j + 1) - 1)
          BY <1>3, <1>5, <4>1
        <5> HIDE DEF m
        <5> QED
          BY <4>1, <5>1
      <4>3. t[m].do = "wallet" /\ t[m].user = u /\ t[m].account = j
        BY <4>2 DEF Task
      <4> HIDE DEF m
      <4> QED
        BY <4>1, <4>3 DEF m
    <3>4. t[k].do = "wallet" /\ t[k].user = u /\ t[k].account = i - 1
      BY <3>1 DEF Task
    <3>5. (i - 1) - 1 = i - 2
      BY <3>1
    <3> HIDE DEF i
    <3> QED
      BY <3>2, <3>3, <3>4, <3>5 DEF Ahead
  <2> QED
    BY <2>1, <2>2
<1> QED
  BY <1>5, <1>6 DEF Row, t, r

\* A run has all its users first, then their wallets place by place, the maps, and the
\* validators.
LEMMA WorkShape ==
    ASSUME NEW profiles \in Profiles
    PROVE  \E n, b \in Nat : \E W \in Seq(Tasks) :
             /\ W = Work(profiles) /\ n + b < Len(W)
             /\ \A k \in 1..n : W[k].do = "user"
             /\ \A k \in (n + 1)..(n + b) :
                  /\ W[k].do = "wallet" /\ W[k].account \in Places(W[k].user)
                  /\ \A j \in 0..(W[k].account - 1) : Ahead(W, k, j)
             /\ W[n + b + 1].do = "maps"
             /\ \A k \in (n + b + 2)..Len(W) : W[k].do = "validator"
<1> DEFINE n == Len(profiles)
           A == [k \in 1..n |-> Task("user", profiles[k], 0)]
           each1 == [u \in Users |-> WalletTasks(u)]
           each2 == [u \in Users |-> IF u \in Validators THEN <<Task("validator", u, 0)>> ELSE <<>>]
           B == Gather(profiles, each1)
           M == <<Task("maps", None, 0)>>
           C == Gather(profiles, each2)
           V == {t \in Tasks : t.do = "validator"}
           Rows == {s \in Seq(Tasks) : Row(s)}
<1>1. profiles \in Seq(Users) /\ n \in Nat /\ \A i \in 1..n : profiles[i] \in Users
  <2>1. profiles \in Seq(Users)
    BY AccountsAssumption
  <2> QED
    BY <2>1
<1>2. B \in Rows
  <2>1. <<>> \in Rows
    <3>1. <<>> \in Seq(Tasks) /\ Len(<<>>) = 0
      OBVIOUS
    <3> QED
      BY <3>1 DEF Row
  <2>2. \A i \in 1..Len(profiles) : \A s \in Rows : s \o each1[profiles[i]] \in Rows
    BY <1>1, RowJoined
  <2> HIDE DEF Rows, each1
  <2> QED
    BY <1>1, <2>1, <2>2, GatherClosed
<1>3. C \in Seq(V)
  <2>1. ASSUME NEW i \in 1..Len(profiles) PROVE each2[profiles[i]] \in Seq(V)
    <3> DEFINE u == profiles[i]
    <3>1. u \in Users
      BY <1>1
    <3>2. Task("validator", u, 0) \in V
      BY <3>1 DEF Task, Tasks
    <3>3. <<Task("validator", u, 0)>> \in Seq(V) /\ <<>> \in Seq(V)
      <4> HIDE DEF V
      <4> QED
        BY <3>2
    <3> QED
      BY <3>1, <3>3, Zenon
  <2> HIDE DEF V, each2
  <2> QED
    BY <1>1, <2>1, GatherType
<1>4. M \in Seq(Tasks) /\ Len(M) = 1 /\ M[1].do = "maps"
  BY DEF Task, Tasks
<1>5. A \in Seq(Tasks) /\ Len(A) = n /\ \A k \in 1..n : A[k].do = "user"
  <2>1. \A k \in 1..n : Task("user", profiles[k], 0) \in Tasks
    BY <1>1 DEF Task, Tasks
  <2>2. A \in Seq(Tasks) /\ Len(A) = n
    BY <1>1, <2>1
  <2>3. \A k \in 1..n : A[k].do = "user"
    BY DEF Task
  <2> QED
    BY <2>2, <2>3
<1>6. C \in Seq(Tasks) /\ \A k \in 1..Len(C) : C[k].do = "validator"
  <2> HIDE DEF C
  <2> QED
    BY <1>3
<1>7. B \in Seq(Tasks) /\ Row(B)
  BY <1>2
<1>8. Work(profiles) = A \o B \o M \o C
  BY DEF Work
<1> HIDE DEF A, B, M, C, n
<1>9. ASSUME NEW x \in Seq(Tasks), NEW y \in Seq(Tasks)
      PROVE  /\ x \o y \in Seq(Tasks) /\ Len(x \o y) = Len(x) + Len(y)
             /\ Len(x) \in Nat /\ Len(y) \in Nat
             /\ \A k \in 1..Len(x) : (x \o y)[k] = x[k]
             /\ \A k \in 1..Len(y) : (x \o y)[Len(x) + k] = y[k]
  OBVIOUS
<1> DEFINE b == Len(B)
           AB == A \o B
           ABM == AB \o M
           W == ABM \o C
<1>10. /\ AB \in Seq(Tasks) /\ Len(AB) = n + b /\ b \in Nat
       /\ \A k \in 1..n : AB[k] = A[k]
       /\ \A k \in 1..b : AB[n + k] = B[k]
  BY <1>5, <1>7, <1>9
<1> HIDE DEF AB, b
<1>11. /\ ABM \in Seq(Tasks) /\ Len(ABM) = n + b + 1
       /\ \A k \in 1..(n + b) : ABM[k] = AB[k]
       /\ ABM[n + b + 1].do = "maps"
  <2>1. /\ ABM \in Seq(Tasks) /\ Len(ABM) = Len(AB) + 1
        /\ \A k \in 1..Len(AB) : ABM[k] = AB[k]
        /\ \A k \in 1..Len(M) : ABM[Len(AB) + k] = M[k]
    <3>1. AB \in Seq(Tasks) /\ M \in Seq(Tasks)
      BY <1>4, <1>10
    <3>2. /\ ABM \in Seq(Tasks) /\ Len(ABM) = Len(AB) + Len(M)
          /\ \A k \in 1..Len(AB) : ABM[k] = AB[k]
          /\ \A k \in 1..Len(M) : ABM[Len(AB) + k] = M[k]
      BY <1>9, <3>1
    <3> QED
      BY <1>4, <3>2
  <2>2. 1 \in 1..Len(M)
    BY <1>4
  <2>3. ABM[Len(AB) + 1] = M[1]
    BY <2>1, <2>2
  <2> HIDE DEF ABM
  <2> QED
    BY <1>1, <1>4, <1>10, <2>1, <2>3
<1> HIDE DEF ABM
<1>12. /\ W \in Seq(Tasks) /\ Len(W) = n + b + 1 + Len(C) /\ Len(C) \in Nat
       /\ \A k \in 1..(n + b + 1) : W[k] = ABM[k]
       /\ \A k \in 1..Len(C) : W[n + b + 1 + k] = C[k]
  <2>1. /\ W \in Seq(Tasks) /\ Len(W) = Len(ABM) + Len(C) /\ Len(C) \in Nat
        /\ \A k \in 1..Len(ABM) : W[k] = ABM[k]
        /\ \A k \in 1..Len(C) : W[Len(ABM) + k] = C[k]
    BY <1>6, <1>9, <1>11
  <2> HIDE DEF W
  <2> QED
    BY <1>11, <2>1
<1>13. W = Work(profiles)
  BY <1>8 DEF AB, ABM
<1> HIDE DEF W
<1>14. \A k \in 1..n : W[k].do = "user"
  BY <1>1, <1>5, <1>10, <1>11, <1>12
<1>15. \A k \in 1..b : n + k \in 1..(n + b) /\ W[n + k] = B[k]
  BY <1>1, <1>10, <1>11, <1>12
<1>16. ASSUME NEW k \in (n + 1)..(n + b)
       PROVE  /\ W[k].do = "wallet" /\ W[k].account \in Places(W[k].user)
              /\ \A j \in 0..(W[k].account - 1) : Ahead(W, k, j)
  <2>1. k - n \in 1..b /\ n + (k - n) = k
    BY <1>1, <1>10
  <2>2. W[k] = B[k - n]
    BY <1>15, <2>1
  <2>3. ASSUME NEW j \in 0..(W[k].account - 1) PROVE Ahead(W, k, j)
    <3>1. PICK m \in 1..((k - n) - 1) : /\ B[m].do = "wallet" /\ B[m].user = B[k - n].user
                                        /\ B[m].account = j
      BY <1>7, <2>1, <2>2, <2>3 DEF Row, Ahead, b
    <3>2. n + m \in 1..(k - 1) /\ m \in 1..b
      <4>1. n \in Nat /\ b \in Nat /\ k \in Int /\ k - n <= b
        BY <1>1, <1>10, <2>1
      <4>2. m \in Int /\ 1 <= m /\ m <= (k - n) - 1
        BY <3>1, <4>1
      <4> QED
        BY <4>1, <4>2
    <3>3. W[n + m] = B[m]
      BY <1>15, <3>2
    <3> QED
      BY <2>2, <3>1, <3>2, <3>3 DEF Ahead
  <2> QED
    BY <1>7, <2>1, <2>2, <2>3 DEF Row, b
<1>17. W[n + b + 1].do = "maps"
  BY <1>1, <1>10, <1>11, <1>12
<1>18. ASSUME NEW k \in (n + b + 2)..Len(W) PROVE W[k].do = "validator"
  <2>1. k - (n + b + 1) \in 1..Len(C) /\ (n + b + 1) + (k - (n + b + 1)) = k
    BY <1>1, <1>10, <1>12
  <2> QED
    BY <1>6, <1>12, <2>1
<1>19. n + b < Len(W)
  BY <1>1, <1>10, <1>12
<1> QED
  BY <1>1, <1>10, <1>12, <1>13, <1>14, <1>16, <1>17, <1>18, <1>19

------------------------------------------------------------------------------
\* Places name wallets, and no two the same one.
LEMMA StandardIn ==
    ASSUME NEW u \in Users, NEW i \in Places(u)
    PROVE  /\ i + 1 \in DOMAIN Standard[u] /\ i \in Nat /\ Len(Standard[u]) \in Nat
           /\ StandardWallet(u, i) \in Wallets /\ Owner(StandardWallet(u, i)) = u
<1>1. Standard[u] \in Seq(Types(u))
  BY AccountsAssumption
<1>2. DOMAIN Standard[u] = 1..Len(Standard[u]) /\ Len(Standard[u]) \in Nat
  BY <1>1
<1>3. i + 1 \in DOMAIN Standard[u] /\ i \in Nat
  BY <1>2 DEF Places
<1>4. Standard[u][i + 1] \in Types(u)
  BY <1>3 DEF Types
<1> QED
  BY <1>2, <1>3, <1>4 DEF StandardWallet, Wallets, Owner

LEMMA PlacesApart ==
    ASSUME KeysAssumption, NEW u \in Users, NEW v \in Users, NEW i \in Places(u), NEW j \in Places(v),
           StandardWallet(u, i) = StandardWallet(v, j)
    PROVE  u = v /\ i = j
<1>1. u = v /\ Standard[u][i + 1] = Standard[v][j + 1]
  BY DEF StandardWallet
<1>2. i + 1 \in DOMAIN Standard[u] /\ j + 1 \in DOMAIN Standard[u] /\ i \in Nat /\ j \in Nat
  BY <1>1, StandardIn
<1>3. i + 1 = j + 1
  BY <1>1, <1>2 DEF KeysAssumption
<1> QED
  BY <1>1, <1>2, <1>3

\* The first i + 1 wallets of a user are as many.
LEMMA FirstPlaces ==
    ASSUME KeysAssumption, NEW u \in Users, NEW i \in Places(u)
    PROVE  /\ IsFiniteSet({StandardWallet(u, j) : j \in 0..i})
           /\ Cardinality({StandardWallet(u, j) : j \in 0..i}) = i + 1
<1> DEFINE S == {StandardWallet(u, j) : j \in 0..i}
           f == [j \in 0..i |-> StandardWallet(u, j)]
<1>1. i \in Nat /\ \A j \in 0..i : j \in Places(u)
  BY StandardIn DEF Places
<1>2. f \in Bijection(0..i, S)
  <2>1. f \in [0..i -> S] /\ \A p \in S : \E j \in 0..i : f[j] = p
    OBVIOUS
  <2>2. \A j, k \in 0..i : f[j] = f[k] => j = k
    BY <1>1, PlacesApart
  <2> HIDE DEF f, S
  <2>3. f \in Injection(0..i, S)
    BY <2>1, <2>2 DEF Injection, IsInjective
  <2>4. f \in Surjection(0..i, S)
    BY <2>1 DEF Surjection
  <2> QED
    BY <2>3, <2>4 DEF Bijection
<1>3. IsFiniteSet(0..i) /\ Cardinality(0..i) = i + 1
  BY <1>1, FS_Interval
<1> HIDE DEF f, S
<1>4. ExistsBijection(0..i, S)
  BY <1>2 DEF ExistsBijection
<1>5. IsFiniteSet(S) /\ Cardinality(S) = i + 1
  BY <1>3, <1>4, FS_Bijection
<1> QED
  BY <1>5 DEF S

------------------------------------------------------------------------------
LEMMA InitO == Init => Own
  BY DEF Init, Own

\* The record of a new wallet has its owner's address.
LEMMA SaveWalletOwn ==
    ASSUME IInv, Own, NEW w \in Wallets, NEW a \in Addresses, SaveWallet(w, a), a[1] = Owner(w),
           walletIdx' = walletIdx, keyMap' = keyMap
    PROVE  Own'
<1>1. \A v \in Wallets : walletRec'[v] = walletRec[v] \/ (v = w /\ walletRec'[v].at = a)
  <2>1. CASE walletRec' = walletRec
    BY <2>1
  <2>2. CASE walletRec' = [walletRec EXCEPT ![w] = [at |-> a, balance |-> 0]]
    BY <2>2 DEF IInv, Records
  <2> QED
    BY <2>1, <2>2, SaveWalletEffect
<1> QED
  BY <1>1 DEF Own

LEMMA MapKeysOwn == IInv /\ TInv /\ Own /\ MapKeys => Own'
<1> SUFFICES ASSUME IInv, TInv, Own, MapKeys PROVE Own'
  OBVIOUS
<1> DEFINE mine == {w \in Wallets : /\ Indexed(w) /\ userIdx[Owner(w)] # None
                                    /\ \E v \in Wallets : addressMap[v] = walletIdx[w].at}
           used == {walletIdx[w].at : w \in mine}
<1>1. PICK of \in [used -> mine] :
        /\ \A a \in used : walletIdx[of[a]].at = a
        /\ keyMap' = [a \in Addresses |-> IF a \in used THEN KeyFor(of[a]) ELSE None]
  BY DEF MapKeys
<1>2. \A w \in mine : w \in Wallets /\ walletIdx[w] \in WalletEntry /\ walletIdx[w] # None
  BY DEF TInv, Seats, Indexed
<1>3. UNCHANGED walletVars
  BY DEF MapKeys
<1> HIDE DEF mine, used
<1>4. ASSUME NEW a \in Addresses PROVE keyMap'[a] \in {None, a}
  <2>1. CASE a \notin used
    BY <1>1, <2>1
  <2>2. CASE a \in used
    <3> DEFINE w == of[a]
    <3>1. w \in mine /\ walletIdx[w].at = a
      BY <1>1, <2>2
    <3>2. a[1] = Owner(w)
      BY <1>2, <3>1 DEF Own
    <3>3. a = <<a[1], a[2]>>
      BY DEF Addresses
    <3>4. keyMap'[a] = KeyFor(w)
      BY <1>1, <2>2
    <3> HIDE DEF w
    <3>5. KeyFor(w) \in {None, <<Owner(w), a[2]>>}
      BY <3>1 DEF KeyFor
    <3> QED
      BY <3>2, <3>3, <3>4, <3>5
  <2> QED
    BY <2>1, <2>2
<1> QED
  BY <1>3, <1>4 DEF Own, walletVars

LEMMA NextO == KeysAssumption /\ IInv /\ TInv /\ Own /\ [Next]_vars => Own'
<1> SUFFICES ASSUME KeysAssumption, IInv, TInv, Own, [Next]_vars PROVE Own'
  OBVIOUS
<1>1. CASE UNCHANGED <<walletVars, keyMap>>
  BY <1>1 DEF Own, walletVars
<1>2. CASE UserStep \/ ValStep
  BY <1>1, <1>2 DEF UserStep, ValStep, IndexUser, DropUser, SyncUser, IndexValidator, SyncValidator,
     runVars
<1>3. CASE LinkWallet \/ UnlinkWallet \/ BootstrapUser \/ BootstrapValidator \/ UNCHANGED vars
  BY <1>1, <1>3 DEF LinkWallet, UnlinkWallet, BootstrapUser, BootstrapValidator, vars, runVars
<1>4. CASE IndexWallet
  <2>1. job.on \in Wallets /\ walletRec[job.on] # None
    BY <1>4 DEF IndexWallet, IInv, JobOK
  <2>2. PICK s : walletIdx' = [walletIdx EXCEPT ![job.on] = EntryAt(job.on, s)]
    BY <1>4 DEF IndexWallet
  <2>3. walletIdx'[job.on].at = walletRec[job.on].at
    BY <2>1, <2>2 DEF TInv, Seats, EntryAt
  <2>4. \A v \in Wallets \ {job.on} : walletIdx'[v] = walletIdx[v]
    BY <2>2 DEF TInv, Seats
  <2>5. UNCHANGED <<walletRec, keyMap>>
    BY <1>4 DEF IndexWallet, runVars
  <2> QED
    BY <2>1, <2>3, <2>4, <2>5 DEF Own
<1>5. CASE DropWallet
  <2>1. job.on \in Wallets /\ walletRec' = [walletRec EXCEPT ![job.on] = None]
        /\ UNCHANGED <<walletIdx, keyMap>>
    BY <1>5 DEF DropWallet, IInv, JobOK, runVars
  <2> QED
    BY <2>1 DEF Own, IInv, Records
<1>6. CASE SyncWallet
  <2>1. job.on \in Wallets /\ UNCHANGED <<walletRec, keyMap>>
    BY <1>6 DEF SyncWallet, IInv, JobOK, runVars
  <2>2. CASE Indexed(job.on)
    <3>1. walletIdx' = [walletIdx EXCEPT ![job.on].balance = walletRec[job.on].balance]
      BY <1>6, <2>2 DEF SyncWallet
    <3>2. walletIdx[job.on] \in WalletEntry
      BY <2>1, <2>2 DEF TInv, Seats, Indexed
    <3>3. walletIdx'[job.on].at = walletIdx[job.on].at
      BY <2>1, <3>1, <3>2 DEF TInv, Seats, WalletEntry
    <3>4. \A v \in Wallets \ {job.on} : walletIdx'[v] = walletIdx[v]
      BY <3>1 DEF TInv, Seats
    <3> QED
      BY <2>1, <2>2, <3>3, <3>4 DEF Own, Indexed
  <2>3. CASE ~Indexed(job.on)
    BY <1>6, <2>1, <2>3 DEF SyncWallet, Own
  <2> QED
    BY <2>2, <2>3
<1>7. CASE BootstrapWallet
  <2>1. PICK w \in Wallets, a \in Addresses :
          /\ SaveWallet(w, a) /\ w = StandardWallet(Task1.user, Task1.account)
          /\ a = <<SeedOf(Task1.user), Task1.account>>
    BY <1>7 DEF BootstrapWallet
  <2>2. a[1] = Owner(w)
    BY <2>1 DEF KeysAssumption, SeedOf, StandardWallet, Owner
  <2>3. walletIdx' = walletIdx /\ keyMap' = keyMap
    BY <1>7 DEF BootstrapWallet
  <2> QED
    BY <2>1, <2>2, <2>3, SaveWalletOwn
<1>8. CASE Bootstrap \/ Restart
  BY <1>8 DEF Bootstrap, Restart, Own, walletVars
<1>9. CASE \E u \in Users : CreateUser(u) \/ DeleteUser(u) \/ Reconcile(u)
  BY <1>1, <1>9 DEF CreateUser, DeleteUser, Reconcile, runVars
<1>10. ASSUME NEW w \in Wallets, NEW i \in Accounts, CreateWallet(w, <<Owner(w), i>>) PROVE Own'
  <2>1. <<Owner(w), i>> \in Addresses
    BY OwnerType DEF Addresses
  <2>2. SaveWallet(w, <<Owner(w), i>>) /\ walletIdx' = walletIdx /\ keyMap' = keyMap
    BY <1>10 DEF CreateWallet, runVars
  <2>3. <<Owner(w), i>>[1] = Owner(w)
    OBVIOUS
  <2> QED
    BY <2>1, <2>2, <2>3, SaveWalletOwn
<1>11. ASSUME NEW w \in Wallets, DeleteWallet(w) PROVE Own'
  BY <1>11 DEF DeleteWallet, Own, TInv, Seats, runVars
<1>12. ASSUME NEW w \in Wallets, NEW b \in Balances, UpdateBalance(w, b) PROVE Own'
  <2>1. /\ walletRec' = [walletRec EXCEPT ![w].balance = b] /\ walletRec[w] \in WalletRecord
        /\ UNCHANGED <<walletIdx, keyMap>> /\ walletRec[w] # None
    BY <1>12 DEF UpdateBalance, runVars, IInv, Records
  <2>2. walletRec'[w].at = walletRec[w].at
    BY <2>1 DEF IInv, Records, WalletRecord
  <2>3. \A v \in Wallets \ {w} : walletRec'[v] = walletRec[v]
    BY <2>1 DEF IInv, Records
  <2> QED
    BY <2>1, <2>2, <2>3 DEF Own
<1>13. CASE RebuildWalletIndex
  <2> DEFINE kept == {w \in Wallets : walletRec[w] # None}
  <2>1. PICK seat : walletIdx' = [w \in Wallets |-> IF w \in kept THEN EntryAt(w, seat[w]) ELSE None]
    BY <1>13 DEF RebuildWalletIndex
  <2>2. \A w \in Wallets : walletIdx'[w] # None => walletRec[w] # None /\ walletIdx'[w].at = walletRec[w].at
    BY <2>1 DEF EntryAt
  <2>3. UNCHANGED <<walletRec, keyMap>>
    BY <1>13 DEF RebuildWalletIndex, runVars
  <2> QED
    BY <2>2, <2>3 DEF Own
<1>14. CASE \E u \in Users, w \in Wallets : Register(u, w)
  BY <1>1, <1>14 DEF Register, runVars
<1>15. CASE \E i \in Indices, s \in Statuses : UpdateStatus(i, s)
  BY <1>1, <1>15 DEF UpdateStatus, runVars
<1> QED
  BY <1>2, <1>3, <1>4, <1>5, <1>6, <1>7, <1>8, <1>9, <1>10, <1>11, <1>12, <1>13, <1>14, <1>15, MapKeysOwn
     DEF Next, WalletStep, RunStep, Call

\* With no passphrase, addresses and keys are their owner's, whatever is stopped or edited.
THEOREM OwnInvariance == ASSUME KeysAssumption PROVE Spec => []Own
<1>1. IInv /\ TInv /\ Own /\ [Next]_vars => Own'
  BY NextO
<1> QED
  BY <1>1, InitO, Invariance, TypeInvariance, PTL DEF Spec

------------------------------------------------------------------------------
\* The tail of a plan.
LEMMA TailFacts ==
    ASSUME NEW s \in Seq(Tasks), s # <<>>
    PROVE  /\ Tail(s) \in Seq(Tasks) /\ Len(s) \in Nat \ {0} /\ Len(Tail(s)) = Len(s) - 1
           /\ 1 \in 1..Len(s) /\ Head(s) = s[1]
           /\ \A k \in 1..Len(Tail(s)) : k + 1 \in 1..Len(s) /\ Tail(s)[k] = s[k + 1]
  OBVIOUS

LEMMA TailShape ==
    ASSUME NEW s \in Seq(Tasks), s # <<>>, Phased(s), PlacesOK(s)
    PROVE  Phased(Tail(s)) /\ PlacesOK(Tail(s))
<1> DEFINE t == Tail(s)
<1>1. /\ Len(s) \in Nat \ {0} /\ Len(t) = Len(s) - 1
      /\ \A k \in 1..Len(t) : k + 1 \in 1..Len(s) /\ t[k] = s[k + 1]
  BY TailFacts
<1> HIDE DEF t
<1>2. ASSUME NEW k \in 1..Len(t)
      PROVE  /\ t[k].do = "user" => \A m \in 1..(k - 1) : t[m].do = "user"
             /\ t[k].do \in {"wallet", "maps"} => \A m \in 1..(k - 1) : t[m].do \in {"user", "wallet"}
             /\ t[k].do \in {"user", "wallet"} => \E m \in (k + 1)..Len(t) : t[m].do = "maps"
  <2>1. t[k] = s[k + 1] /\ k + 1 \in 1..Len(s)
    BY <1>1
  <2>2. \A m \in 1..(k - 1) : m + 1 \in 1..((k + 1) - 1) /\ t[m] = s[m + 1]
    BY <1>1
  <2>3. ASSUME t[k].do \in {"user", "wallet"} PROVE \E m \in (k + 1)..Len(t) : t[m].do = "maps"
    <3>1. PICK m \in ((k + 1) + 1)..Len(s) : s[m].do = "maps"
      BY <2>1, <2>3 DEF Phased
    <3>2. m - 1 \in (k + 1)..Len(t) /\ m - 1 \in 1..Len(t) /\ (m - 1) + 1 = m
      BY <1>1, <3>1
    <3>3. t[m - 1] = s[m]
      BY <1>1, <3>2
    <3> QED
      BY <3>1, <3>2, <3>3
  <2>4. t[k].do = "user" => \A m \in 1..(k - 1) : t[m].do = "user"
    <3>1. s[k + 1].do = "user" => \A m \in 1..((k + 1) - 1) : s[m].do = "user"
      BY <2>1 DEF Phased
    <3> QED
      BY <2>1, <2>2, <3>1
  <2>5. t[k].do \in {"wallet", "maps"} => \A m \in 1..(k - 1) : t[m].do \in {"user", "wallet"}
    <3>1. s[k + 1].do \in {"wallet", "maps"} =>
            \A m \in 1..((k + 1) - 1) : s[m].do \in {"user", "wallet"}
      BY <2>1 DEF Phased
    <3> QED
      BY <2>1, <2>2, <3>1
  <2> QED
    BY <2>3, <2>4, <2>5
<1>3. PlacesOK(t)
  BY <1>1 DEF PlacesOK
<1> QED
  BY <1>2, <1>3 DEF Phased, t

LEMMA EmptyShape == ASSUME NEW s, s = <<>> PROVE Len(s) = 0 /\ Phased(s) /\ PlacesOK(s)
<1>1. Len(s) = 0
  OBVIOUS
<1> QED
  BY <1>1 DEF Phased, PlacesOK

LEMMA WorkPhased == ASSUME NEW profiles \in Profiles PROVE Phased(Work(profiles)) /\ PlacesOK(Work(profiles))
<1>1. PICK n \in Nat, b \in Nat, W \in Seq(Tasks) :
         /\ W = Work(profiles) /\ n + b < Len(W)
         /\ \A k \in 1..n : W[k].do = "user"
         /\ \A k \in (n + 1)..(n + b) : W[k].do = "wallet" /\ W[k].account \in Places(W[k].user)
         /\ W[n + b + 1].do = "maps"
         /\ \A k \in (n + b + 2)..Len(W) : W[k].do = "validator"
  BY WorkShape
<1>2. Len(W) \in Nat
  OBVIOUS
<1>3. ASSUME NEW k \in 1..Len(W)
      PROVE  /\ W[k].do = "user" => k \in 1..n
             /\ W[k].do = "wallet" => k \in (n + 1)..(n + b)
             /\ W[k].do = "maps" => k = n + b + 1
  <2>1. \/ k \in 1..n \/ k \in (n + 1)..(n + b) \/ k = n + b + 1 \/ k \in (n + b + 2)..Len(W)
    BY <1>2
  <2> QED
    BY <1>1, <2>1
<1>4. n + b + 1 \in 1..Len(W)
  BY <1>1, <1>2
<1>5. Phased(W)
  <2> SUFFICES ASSUME NEW k \in 1..Len(W)
      PROVE  /\ W[k].do = "user" => \A m \in 1..(k - 1) : W[m].do = "user"
             /\ W[k].do \in {"wallet", "maps"} => \A m \in 1..(k - 1) : W[m].do \in {"user", "wallet"}
             /\ W[k].do \in {"user", "wallet"} => \E m \in (k + 1)..Len(W) : W[m].do = "maps"
    BY DEF Phased
  <2>1. W[k].do = "user" => \A m \in 1..(k - 1) : W[m].do = "user"
    BY <1>1, <1>3
  <2>2. W[k].do \in {"wallet", "maps"} => k \in (n + 1)..(n + b + 1)
    BY <1>3
  <2>3. k \in (n + 1)..(n + b + 1) => \A m \in 1..(k - 1) : m \in 1..n \/ m \in (n + 1)..(n + b)
    OBVIOUS
  <2>4. W[k].do \in {"user", "wallet"} => n + b + 1 \in (k + 1)..Len(W)
    BY <1>3, <1>4
  <2> QED
    BY <1>1, <2>1, <2>2, <2>3, <2>4
<1>6. PlacesOK(W)
  BY <1>1, <1>3 DEF PlacesOK
<1> QED
  BY <1>1, <1>5, <1>6

\* The steps that a run of the bootstrap takes, and those that end it.
LEMMA RunSteps ==
    [Next]_vars =>
        \/ UNCHANGED runVars
        \/ Bootstrap \/ Restart
        \/ BootstrapUser \/ BootstrapWallet \/ MapKeys \/ BootstrapValidator
        \/ IndexUser /\ ~Indexable(job.on)
<1> SUFFICES ASSUME [Next]_vars, ~RunStep, ~Bootstrap, ~Restart
             PROVE  UNCHANGED runVars \/ (IndexUser /\ ~Indexable(job.on))
  BY DEF RunStep
<1>1. CASE UserStep
  BY <1>1 DEF UserStep, IndexUser, DropUser, SyncUser, runVars
<1>2. CASE WalletStep \/ ValStep
  BY <1>2 DEF WalletStep, ValStep, IndexWallet, LinkWallet, DropWallet, UnlinkWallet, SyncWallet,
     IndexValidator, SyncValidator, runVars
<1>3. CASE \E u \in Users : CreateUser(u) \/ DeleteUser(u) \/ Reconcile(u)
  BY <1>3 DEF CreateUser, DeleteUser, Reconcile, runVars
<1>4. CASE \/ RebuildWalletIndex
           \/ \E w \in Wallets : \/ \E i \in Accounts : CreateWallet(w, <<Owner(w), i>>)
                                 \/ DeleteWallet(w)
                                 \/ \E b \in Balances : UpdateBalance(w, b)
  BY <1>4 DEF CreateWallet, DeleteWallet, UpdateBalance, RebuildWalletIndex, runVars
<1>5. CASE \/ \E u \in Users, w \in Wallets : Register(u, w)
           \/ \E i \in Indices, s \in Statuses : UpdateStatus(i, s)
  BY <1>5 DEF Register, UpdateStatus, runVars
<1>6. CASE UNCHANGED vars
  BY <1>6 DEF vars, runVars
<1> QED
  BY <1>1, <1>2, <1>3, <1>4, <1>5, <1>6 DEF Next, Call

\* What a step does to the plan.
LEMMA ScriptSteps ==
    ASSUME [Next]_vars
    PROVE  \/ UNCHANGED runVars
           \/ script' = <<>>
           \/ Bootstrap /\ \E profiles \in Profiles : script' = Work(profiles)
           \/ script # <<>> /\ script' = Tail(script) /\ (Task1.do = "wallet" => BootstrapWallet)
<1>1. CASE Bootstrap \/ Restart
  BY <1>1 DEF Bootstrap, Restart
<1>2. CASE BootstrapUser \/ BootstrapWallet \/ MapKeys \/ BootstrapValidator
  BY <1>2 DEF BootstrapUser, BootstrapWallet, MapKeys, BootstrapValidator, Doing
<1>3. CASE IndexUser /\ ~Indexable(job.on)
  BY <1>3 DEF IndexUser
<1> QED
  BY <1>1, <1>2, <1>3, RunSteps

\* The address map changes at a start, at a stop, and with a wallet of the plan.
LEMMA AddressSteps ==
    ASSUME [Next]_vars
    PROVE  addressMap' = addressMap \/ BootstrapWallet \/ addressMap' = [w \in Wallets |-> None]
<1>1. CASE Bootstrap \/ Restart
  BY <1>1 DEF Bootstrap, Restart
<1>2. CASE BootstrapUser \/ MapKeys \/ BootstrapValidator \/ IndexUser
  BY <1>2 DEF BootstrapUser, MapKeys, BootstrapValidator, IndexUser
<1> QED
  BY <1>1, <1>2, RunSteps DEF runVars

LEMMA InitP == Init => PInv
<1> SUFFICES ASSUME Init PROVE PInv
  OBVIOUS
<1>1. script = <<>> /\ addressMap = [w \in Wallets |-> None]
  BY DEF Init
<1> QED
  BY <1>1, EmptyShape DEF PInv

\* Once a wallet is next no user is to be created any more.
LEMMA WalletHead ==
    ASSUME SInv, PInv, script # <<>>, Task1.do # "user"
    PROVE  ~Tasked("user")
<1>1. 1 \in 1..Len(script) /\ Task1 = script[1] /\ Len(script) \in Nat
  BY TailFacts DEF SInv, Task1
<1> SUFFICES ASSUME NEW k \in 1..Len(script), script[k].do = "user" PROVE FALSE
  BY DEF Tasked
<1>2. CASE k = 1
  BY <1>1, <1>2
<1>3. CASE k # 1
  <2>1. 1 \in 1..(k - 1)
    BY <1>1, <1>3
  <2> QED
    BY <1>1, <2>1 DEF PInv, Phased
<1> QED
  BY <1>2, <1>3

LEMMA NextP == SInv /\ PInv /\ [Next]_vars => PInv'
<1> SUFFICES ASSUME SInv, PInv, [Next]_vars PROVE PInv'
  OBVIOUS
<1>1. CASE UNCHANGED runVars
  BY <1>1 DEF PInv, Tasked, runVars
<1>2. CASE script' = <<>>
  <2>1. Len(script') = 0 /\ Phased(script') /\ PlacesOK(script')
    BY <1>2, EmptyShape
  <2> QED
    BY <2>1 DEF PInv, Tasked
<1>3. CASE Bootstrap /\ \E profiles \in Profiles : script' = Work(profiles)
  <2>1. Phased(script') /\ PlacesOK(script')
    BY <1>3, WorkPhased
  <2> QED
    BY <1>3, <2>1 DEF PInv, Bootstrap
<1>4. CASE script # <<>> /\ script' = Tail(script)
  <2>1. /\ \A k \in 1..Len(script') : k + 1 \in 1..Len(script) /\ script'[k] = script[k + 1]
        /\ Phased(script') /\ PlacesOK(script')
    BY <1>4, TailFacts, TailShape DEF SInv, PInv
  <2>2. Tasked("user")' => Tasked("user")
    BY <2>1 DEF Tasked
  <2>3. BootstrapWallet => ~Tasked("user")
    BY <1>4, WalletHead DEF BootstrapWallet, Doing
  <2> QED
    BY <2>1, <2>2, <2>3, AddressSteps DEF PInv
<1> QED
  BY <1>1, <1>2, <1>3, <1>4, ScriptSteps

\* The rest of a run keeps its order: users, wallets, maps, validators.
THEOREM PhaseInvariance == Spec => []PInv
<1> QED
  BY InitP, NextP, PlanInvariance, PTL DEF Spec

------------------------------------------------------------------------------
\* The task at the head of a plan, when it is a wallet.
LEMMA HeadPlace ==
    ASSUME SInv, PInv, script # <<>>, Task1.do = "wallet"
    PROVE  /\ Task1.user \in Users /\ Task1.account \in Places(Task1.user)
           /\ 1 \in 1..Len(script) /\ script[1] = Task1
<1>1. 1 \in 1..Len(script) /\ Task1 = script[1] /\ script[1] \in Tasks
  BY TailFacts DEF SInv, Task1
<1>2. Task1.account \in Places(Task1.user)
  BY <1>1 DEF PInv, PlacesOK
<1>3. Task1.user \in Users
  BY <1>1 DEF Tasks
<1> QED
  BY <1>1, <1>2, <1>3

\* A standard wallet passes the validation.
LEMMA StandardAccepted ==
    ASSUME KeysAssumption, NEW u \in Users, NEW i \in Places(u), NEW a
    PROVE  Accepted(StandardWallet(u, i), a)
<1>1. Standard[u][i + 1] \in Types(u)
  BY StandardIn DEF Types
<1>2. Standard[u][i + 1] \in WalletTypes
  BY <1>1 DEF KeysAssumption
<1> DEFINE t == Standard[u][i + 1]
           r == NewWallet(u, t, a)
<1>3. r = [wallet_id |-> <<u, t>>, user_id |-> u, name |-> "Unnamed Wallet", wallet_type |-> t,
           security_type |-> "hot", status |-> "active", network |-> "testnet", currency |-> "BACHI",
           balance |-> 0, nonce |-> 0, created_at |-> "now", last_modified |-> "now",
           addresses |-> [eoa |-> a]]
  BY DEF NewWallet
<1> HIDE DEF t, r
<1>4. DOMAIN r = {"wallet_id", "user_id", "name", "wallet_type", "security_type", "status", "network",
                  "currency", "balance", "nonce", "created_at", "last_modified", "addresses"}
  BY <1>3
<1>5. WalletRequired(r)
  BY <1>4 DEF WalletRequired, WalletSchema
<1>6. WalletValues(r)
  <2>1. /\ r.wallet_type \in WalletTypes /\ r.security_type = "hot" /\ r.status = "active"
        /\ r.network = "testnet" /\ r.currency = "BACHI" /\ r.balance = 0 /\ r.nonce = 0
        /\ r.created_at = "now" /\ r.last_modified = "now"
    BY <1>2, <1>3 DEF t
  <2>2. WellFormed(r, WalletSchema.formats)
    <3>1. WalletSchema.formats = {"storage_root", "code_hash", "created_at", "last_modified"}
      BY DEF WalletSchema
    <3>2. "storage_root" \notin DOMAIN r /\ "code_hash" \notin DOMAIN r
      BY <1>4
    <3> QED
      BY <2>1, <3>1, <3>2 DEF WellFormed
  <2>3. \A f \in WalletSchema.atLeast0 \cap DOMAIN r : r[f] >= 0
    <3>1. WalletSchema.atLeast0 = {"balance", "nonce"}
      BY DEF WalletSchema
    <3> QED
      BY <2>1, <3>1
  <2>4. \A f \in DOMAIN WalletSchema.choices \cap DOMAIN r : r[f] \in WalletSchema.choices[f]
    <3> DEFINE c == WalletSchema.choices
    <3>1. c = [wallet_type |-> WalletTypes,
               security_type |-> {"hot", "cold", "hardware", "multisig"},
               status |-> {"active", "inactive", "suspended", "deleted", "archived"},
               network |-> {"mainnet", "testnet", "regtest"},
               currency |-> {"BACHI", "BTC", "ETH"}]
      BY DEF WalletSchema
    <3> HIDE DEF c
    <3>2. DOMAIN c = {"wallet_type", "security_type", "status", "network", "currency"}
      BY <3>1
    <3>3. r["wallet_type"] \in c["wallet_type"]
      BY <2>1, <3>1
    <3>4. r["security_type"] \in c["security_type"] /\ r["status"] \in c["status"]
      BY <2>1, <3>1
    <3>5. r["network"] \in c["network"] /\ r["currency"] \in c["currency"]
      BY <2>1, <3>1
    <3> QED
      BY <3>2, <3>3, <3>4, <3>5 DEF c
  <2> QED
    BY <2>2, <2>3, <2>4 DEF WalletValues
<1>7. WalletAddresses(r)
  <2>1. r.addresses = [eoa |-> a]
    BY <1>3
  <2>2. DOMAIN r.addresses = {"eoa"}
    BY <2>1
  <2> QED
    BY <2>2 DEF WalletAddresses
<1>8. WalletRules(r)
  <2>1. "account_type" \notin DOMAIN r /\ r.status = "active"
    BY <1>3, <1>4
  <2> QED
    BY <2>1 DEF WalletRules
<1>9. WalletData(r)
  BY <1>5, <1>6, <1>7, <1>8 DEF WalletData
<1> QED
  BY <1>9 DEF Accepted, StandardWallet, Owner, r, t

\* Wallets of a user whose places are below some bound are at most as many.
LEMMA FewIndexed ==
    ASSUME KeysAssumption, NEW u \in Users, NEW i \in Places(u),
           IndexedOf(u) \subseteq {StandardWallet(u, j) : j \in 0..i}
    PROVE  Cardinality(IndexedOf(u)) \in Nat /\ Cardinality(IndexedOf(u)) <= i + 1
<1>1. /\ IsFiniteSet({StandardWallet(u, j) : j \in 0..i})
      /\ Cardinality({StandardWallet(u, j) : j \in 0..i}) = i + 1
  BY FirstPlaces
<1>2. IsFiniteSet(IndexedOf(u))
  BY <1>1, FS_Subset
<1>3. Cardinality(IndexedOf(u)) <= Cardinality({StandardWallet(u, j) : j \in 0..i})
  BY <1>1, FS_Subset
<1>4. Cardinality(IndexedOf(u)) \in Nat
  BY <1>2, FS_CardinalityType
<1> QED
  BY <1>1, <1>3, <1>4

\* A wallet that a run is to make, when wallets are as runs made them, is not
\* one too many.
LEMMA NotFull ==
    ASSUME KeysAssumption, IInv, Placed, InOrder, NEW u \in Users, NEW i \in Places(u),
           u \in Ledgers \/ walletRec[StandardWallet(u, i)] = None
    PROVE  ~Full(u)
<1> DEFINE n == Len(Standard[u])
           w == StandardWallet(u, i)
<1>1. n \in Nat \ {0} /\ i \in 0..(n - 1) /\ MaxWallets \in Nat
  BY StandardIn, AccountsAssumption DEF Places
<1>2. ASSUME NEW v \in IndexedOf(u)
      PROVE  \E j \in Places(u) : v = StandardWallet(u, j) /\ Have(u, j)
  <2>1. v \in Wallets /\ Owner(v) = u /\ walletRec[v] # None
    BY <1>2 DEF IndexedOf, Indexed, IInv, IndexedHasRecord
  <2> QED
    BY <2>1 DEF Placed, Have
<1>3. CASE u \in Ledgers
  <2>1. n - 1 \in Places(u) /\ n < MaxWallets
    BY <1>1, <1>3 DEF Places, KeysAssumption
  <2>2. IndexedOf(u) \subseteq {StandardWallet(u, j) : j \in 0..(n - 1)}
    BY <1>2 DEF Places
  <2>3. Cardinality(IndexedOf(u)) \in Nat /\ Cardinality(IndexedOf(u)) <= (n - 1) + 1
    BY <2>1, <2>2, FewIndexed
  <2> QED
    BY <1>1, <2>1, <2>3 DEF Full
<1>4. CASE walletRec[w] = None
  <2>0. n <= MaxWallets
    BY DEF KeysAssumption
  <2>1. ASSUME NEW v \in IndexedOf(u)
        PROVE  \E j \in 0..(i - 1) : v = StandardWallet(u, j)
    <3>1. PICK j \in Places(u) : v = StandardWallet(u, j) /\ Have(u, j)
      BY <1>2
    <3>2. j # i
      BY <1>4, <3>1 DEF Have
    <3>3. ~(i \in 0..(j - 1))
      BY <1>4, <3>1 DEF InOrder, Have
    <3>4. j \in 0..(i - 1)
      BY <1>1, <3>1, <3>2, <3>3 DEF Places
    <3> QED
      BY <3>1, <3>4
  <2>2. CASE i = 0
    <3>1. IndexedOf(u) = {}
      BY <2>1, <2>2
    <3>2. Cardinality(IndexedOf(u)) = 0
      BY <3>1, FS_EmptySet
    <3> QED
      BY <1>1, <2>0, <3>2 DEF Full
  <2>3. CASE i # 0
    <3>1. i - 1 \in Places(u)
      BY <1>1, <2>3 DEF Places
    <3>2. IndexedOf(u) \subseteq {StandardWallet(u, j) : j \in 0..(i - 1)}
      BY <2>1
    <3>3. Cardinality(IndexedOf(u)) \in Nat /\ Cardinality(IndexedOf(u)) <= (i - 1) + 1
      BY <3>1, <3>2, FewIndexed
    <3> QED
      BY <1>1, <2>0, <3>3 DEF Full
  <2> QED
    BY <2>2, <2>3
<1> QED
  BY <1>3, <1>4

------------------------------------------------------------------------------
\* When wallets are as runs made them, a run makes the next one, or finds it at
\* the account where it would make it.
LEMMA Makes ==
    ASSUME KeysAssumption, IInv, SInv, PInv, LInv, Calm, BootstrapWallet
    PROVE  \E u \in Users : \E i \in Places(u) : \E w \in Wallets : \E a \in Addresses :
             /\ w = StandardWallet(u, i) /\ a = <<u, i>> /\ u = Task1.user /\ i = Task1.account
             /\ script # <<>> /\ Task1.do = "wallet" /\ script' = Tail(script)
             /\ addressMap' = [addressMap EXCEPT ![w] = a]
             /\ walletIdx' = walletIdx /\ keyMap' = keyMap
             /\ walletRec'[w] # None /\ walletRec'[w].at = a
             /\ \A v \in Wallets \ {w} : walletRec'[v] = walletRec[v]
             /\ \A v \in Wallets : walletRec[v] # None => walletRec'[v] = walletRec[v]
             /\ \/ job' = Idle
                \/ job' = [next |-> "index_wallet", on |-> w] /\ walletRec[w] = None
             /\ \A j \in 0..(i - 1) : Have(u, j)
<1> DEFINE u == Task1.user
           i == Task1.account
           w == StandardWallet(u, i)
           a == <<u, i>>
<1>1. /\ script # <<>> /\ Task1.do = "wallet" /\ job = Idle
      /\ walletIdx' = walletIdx /\ keyMap' = keyMap
  BY DEF BootstrapWallet, Doing
<1>2. /\ u \in Users /\ i \in Places(u) /\ 1 \in 1..Len(script) /\ script[1] = Task1
  BY <1>1, HeadPlace
<1>3. w \in Wallets /\ Owner(w) = u /\ i \in Nat
  BY <1>2, StandardIn
<1>4. SeedOf(u) = u
  BY DEF SeedOf, KeysAssumption
<1>5. /\ a \in Addresses /\ SaveWallet(w, a)
      /\ IF \/ Full(u) /\ u \in Ledgers
            \/ ~Full(u) /\ ~Accepted(w, a)
         THEN script' = <<>> /\ UNCHANGED addressMap
         ELSE script' = Tail(script) /\ addressMap' = [addressMap EXCEPT ![w] = a]
  BY <1>4 DEF BootstrapWallet
<1>6. Accepted(w, a)
  BY <1>2, StandardAccepted
<1>7. Placed /\ InOrder /\ Successive
  BY DEF LInv
<1>8. u \in Ledgers \/ walletRec[w] = None => ~Full(u)
  BY <1>2, <1>7, NotFull
<1>9. script' = Tail(script) /\ addressMap' = [addressMap EXCEPT ![w] = a]
  BY <1>5, <1>6, <1>8
<1>10. \A j \in 0..(i - 1) : Have(u, j)
  <2>1. \A j \in 0..(i - 1) : Have(script[1].user, j) \/ Ahead(script, 1, j)
    BY <1>1, <1>2, <1>7 DEF Successive
  <2>2. \A j : ~Ahead(script, 1, j)
    BY DEF Ahead
  <2> QED
    BY <1>2, <2>1, <2>2
<1>11. CASE walletRec[w] # None
  <2>1. walletRec' = walletRec /\ job' = Idle
    BY <1>5, <1>11, SaveWalletEffect
  <2>2. PICK k \in Places(u) : w = StandardWallet(u, k) /\ walletRec[w].at = <<u, k>>
    BY <1>3, <1>7, <1>11 DEF Placed
  <2>3. k = i
    BY <1>2, <2>2, PlacesApart
  <2>4. walletRec'[w] # None /\ walletRec'[w].at = a
    BY <1>11, <2>1, <2>2, <2>3
  <2> HIDE DEF w, a, u, i
  <2>5. /\ \A v \in Wallets \ {w} : walletRec'[v] = walletRec[v]
        /\ \A v \in Wallets : walletRec[v] # None => walletRec'[v] = walletRec[v]
    BY <2>1
  <2>6. w = StandardWallet(u, i) /\ a = <<u, i>> /\ u = Task1.user /\ i = Task1.account
    BY DEF w, a, u, i
  <2> QED
    BY <1>1, <1>2, <1>3, <1>5, <1>9, <1>10, <2>1, <2>4, <2>5, <2>6
<1>12. CASE walletRec[w] = None
  <2>1. ~Full(Owner(w))
    BY <1>3, <1>8, <1>12
  <2>2. walletRec' = [walletRec EXCEPT ![w] = [at |-> a, balance |-> 0]]
        /\ job' = [next |-> "index_wallet", on |-> w]
    BY <1>5, <1>6, <1>12, <2>1 DEF SaveWallet, Then
  <2>3. [at |-> a, balance |-> 0] # None /\ [at |-> a, balance |-> 0].at = a
    BY <1>5, WalletWritten, NotNone
  <2> DEFINE r == [at |-> a, balance |-> 0]
  <2> HIDE DEF w, a, r
  <2>4. /\ walletRec'[w] = r
        /\ \A v \in Wallets \ {w} : walletRec'[v] = walletRec[v]
    BY <1>3, <2>2 DEF IInv, Records, r
  <2>5. \A v \in Wallets : walletRec[v] # None => walletRec'[v] = walletRec[v]
    BY <1>12, <2>4
  <2>6. walletRec'[w] # None /\ walletRec'[w].at = a
    BY <2>3, <2>4 DEF r
  <2> HIDE DEF u, i
  <2>7. w = StandardWallet(u, i) /\ a = <<u, i>> /\ u = Task1.user /\ i = Task1.account
    BY DEF w, a, u, i
  <2> QED
    BY <1>1, <1>2, <1>3, <1>5, <1>9, <1>10, <1>12, <2>2, <2>4, <2>5, <2>6, <2>7
<1> QED
  BY <1>11, <1>12

\* A step after which wallets are as runs made them: the two writes that make
\* one, or one that leaves all wallets and their places alone.
Still ==
    /\ \A w \in Wallets :
          /\ walletRec'[w] = None <=> walletRec[w] = None
          /\ walletRec[w] # None => walletRec'[w].at = walletRec[w].at
          /\ walletIdx'[w] = None <=> walletIdx[w] = None
          /\ walletIdx[w] # None => walletIdx'[w].seat = walletIdx[w].seat
    /\ job' = job \/ job'.next # "index_wallet"

\* What disturbed wallets is not forgotten.
LEMMA CalmBefore == Calm' /\ [Next]_vars => Calm
<1> SUFFICES ASSUME Calm', [Next]_vars PROVE Calm
  OBVIOUS
<1>1. CASE torn' = torn /\ edited' = edited
  BY <1>1 DEF Calm
<1>2. CASE Restart
  BY <1>2 DEF Restart, Calm
<1>3. CASE UserStep
  BY <1>1, <1>3 DEF UserStep, IndexUser, DropUser, SyncUser, counts
<1>4. CASE WalletStep \/ ValStep
  BY <1>1, <1>4 DEF WalletStep, ValStep, IndexWallet, LinkWallet, DropWallet, UnlinkWallet, SyncWallet,
     IndexValidator, SyncValidator, counts
<1>5. CASE RunStep \/ Bootstrap
  BY <1>1, <1>5 DEF RunStep, BootstrapUser, BootstrapWallet, MapKeys, BootstrapValidator, Bootstrap,
     counts
<1>6. CASE \E u \in Users : CreateUser(u) \/ DeleteUser(u) \/ Reconcile(u)
  BY <1>1, <1>6 DEF CreateUser, DeleteUser, Reconcile, ByHand, Calm
<1>7. CASE \/ RebuildWalletIndex
           \/ \E w \in Wallets : \/ \E i \in Accounts : CreateWallet(w, <<Owner(w), i>>)
                                 \/ DeleteWallet(w)
                                 \/ \E b \in Balances : UpdateBalance(w, b)
  BY <1>1, <1>7 DEF CreateWallet, DeleteWallet, UpdateBalance, RebuildWalletIndex, ByHand, Calm
<1>8. CASE \/ \E u \in Users, w \in Wallets : Register(u, w)
           \/ \E i \in Indices, s \in Statuses : UpdateStatus(i, s)
  BY <1>1, <1>8 DEF Register, UpdateStatus, ByHand
<1>9. CASE UNCHANGED vars
  BY <1>1, <1>9 DEF vars, counts
<1> QED
  BY <1>2, <1>3, <1>4, <1>5, <1>6, <1>7, <1>8, <1>9 DEF Next, Call

LEMMA CalmSteps ==
    ASSUME IInv, TInv, ByOthers, Calm', [Next]_vars
    PROVE  BootstrapWallet \/ IndexWallet \/ Still
<1>0. Calm
  BY CalmBefore
<1>1. CASE UNCHANGED walletVars /\ (job' = job \/ job'.next # "index_wallet")
  BY <1>1 DEF Still, walletVars
<1>2. CASE UserStep \/ ValStep
  BY <1>1, <1>2 DEF UserStep, ValStep, IndexUser, DropUser, SyncUser, IndexValidator, SyncValidator,
     Done, Idle
<1>3. CASE DropWallet \/ UnlinkWallet
  BY <1>0, <1>3 DEF DropWallet, UnlinkWallet, ByOthers, Calm
<1>4. CASE LinkWallet
  BY <1>1, <1>4 DEF LinkWallet, Relink, Then, Done, Idle
<1>5. CASE SyncWallet
  <2>1. job.on \in Wallets /\ walletRec' = walletRec /\ job' = Idle
    BY <1>5 DEF SyncWallet, IInv, JobOK, Done
  <2>2. CASE Indexed(job.on)
    <3>1. walletIdx' = [walletIdx EXCEPT ![job.on].balance = walletRec[job.on].balance]
      BY <1>5, <2>2 DEF SyncWallet
    <3>2. walletIdx[job.on] \in WalletEntry /\ walletRec[job.on].balance \in Balances
      BY <1>5, <2>1, <2>2 DEF TInv, Seats, Indexed, SyncWallet, IInv, JobOK, Records, WalletRecord
    <3>3. walletIdx'[job.on] = [walletIdx[job.on] EXCEPT !.balance = walletRec[job.on].balance]
      BY <2>1, <3>1 DEF TInv, Seats
    <3>4. walletIdx'[job.on].seat = walletIdx[job.on].seat /\ walletIdx'[job.on] \in WalletEntry
      BY <3>2, <3>3 DEF WalletEntry
    <3>5. \A v \in Wallets \ {job.on} : walletIdx'[v] = walletIdx[v]
      BY <3>1 DEF TInv, Seats
    <3>6. walletIdx'[job.on] # None
      BY <3>4, AccountsAssumption
    <3> QED
      BY <2>1, <2>2, <3>4, <3>5, <3>6 DEF Still, Indexed, Idle
  <2>3. CASE ~Indexed(job.on)
    BY <1>5, <2>1, <2>3 DEF SyncWallet, Still, Idle
  <2> QED
    BY <2>2, <2>3
<1>6. CASE BootstrapUser
  BY <1>1, <1>6 DEF BootstrapUser, SaveUser, Then, Done, Idle
<1>7. CASE MapKeys \/ Bootstrap \/ Restart
  BY <1>1, <1>7 DEF MapKeys, Bootstrap, Restart, Done, Idle
<1>8. CASE BootstrapValidator
  <2>1. \A u, w : SaveValidator(u, w) => job'.next # "index_wallet"
    BY DEF SaveValidator, Then, Done, Idle
  <2> QED
    BY <1>1, <1>8, <2>1 DEF BootstrapValidator
<1>9. CASE \E u \in Users : CreateUser(u) \/ DeleteUser(u) \/ Reconcile(u)
  <2>1. CASE \E u \in Users : CreateUser(u) \/ DeleteUser(u)
    BY <1>1, <2>1 DEF CreateUser, DeleteUser, SaveUser, Then, Done, Idle
  <2>2. CASE \E u \in Users : Reconcile(u)
    <3>1. PICK u \in Users : Reconcile(u)
      BY <2>2
    <3>2. UNCHANGED walletVars
      BY <3>1 DEF Reconcile
    <3>3. job'.next = "sync_user"
      BY <3>1, ReconcileEffect
    <3> QED
      BY <1>1, <3>2, <3>3
  <2> QED
    BY <1>9, <2>1, <2>2
<1>10. CASE \/ RebuildWalletIndex
            \/ \E w \in Wallets : \/ \E i \in Accounts : CreateWallet(w, <<Owner(w), i>>)
                                  \/ DeleteWallet(w)
  BY <1>10 DEF CreateWallet, DeleteWallet, RebuildWalletIndex, Calm
<1>11. ASSUME NEW w \in Wallets, NEW b \in Balances, UpdateBalance(w, b) PROVE Still
  <2>1. /\ walletRec' = [walletRec EXCEPT ![w].balance = b] /\ walletRec[w] \in WalletRecord
        /\ walletIdx' = walletIdx /\ walletRec[w] # None /\ job'.next = "sync_wallet"
    BY <1>11 DEF UpdateBalance, Then, IInv, Records
  <2>2. walletRec'[w] = [walletRec[w] EXCEPT !.balance = b]
    BY <2>1 DEF IInv, Records
  <2>3. walletRec'[w].at = walletRec[w].at /\ walletRec'[w] # None
    BY <2>1, <2>2, WalletWritten, NotNone DEF WalletRecord
  <2>4. \A v \in Wallets \ {w} : walletRec'[v] = walletRec[v]
    BY <2>1 DEF IInv, Records
  <2> QED
    BY <2>1, <2>3, <2>4 DEF Still
<1>12. CASE \E u \in Users, w \in Wallets : Register(u, w)
  BY <1>1, <1>12 DEF Register, SaveValidator, Then, Done, Idle
<1>13. CASE \E i \in Indices, s \in Statuses : UpdateStatus(i, s)
  BY <1>1, <1>13 DEF UpdateStatus, Then
<1>14. CASE UNCHANGED vars
  BY <1>1, <1>14 DEF vars
<1> QED
  BY <1>2, <1>3, <1>4, <1>5, <1>6, <1>7, <1>8, <1>9, <1>10, <1>11, <1>12, <1>13, <1>14
     DEF Next, WalletStep, RunStep, Call

LEMMA NextBy == ByOthers /\ IInv /\ [Next]_vars => ByOthers'
<1> SUFFICES ASSUME ByOthers, IInv, [Next]_vars PROVE ByOthers'
  OBVIOUS
<1> DEFINE Removals == {"drop_user", "drop_wallet", "unlink_wallet"}
<1>1. CASE edited' = edited /\ (job' = job \/ job'.next \notin Removals)
  BY <1>1 DEF ByOthers
<1>2. CASE edited'
  BY <1>2 DEF ByOthers
<1>3. CASE UserStep \/ ValStep
  BY <1>1, <1>3 DEF UserStep, ValStep, IndexUser, DropUser, SyncUser, IndexValidator, SyncValidator,
     Done, Idle, counts
<1>4. CASE IndexWallet \/ SyncWallet
  BY <1>1, <1>4 DEF IndexWallet, SyncWallet, Then, Done, Idle, counts
<1>5. CASE LinkWallet \/ UnlinkWallet
  BY <1>1, <1>5 DEF LinkWallet, UnlinkWallet, Relink, Then, Done, Idle, counts
<1>6. CASE DropWallet
  BY <1>6 DEF DropWallet, ByOthers, counts
<1>7. CASE BootstrapUser
  BY <1>1, <1>7 DEF BootstrapUser, SaveUser, Then, Done, Idle, counts
<1>8. CASE BootstrapWallet
  <2>1. \A w, a : SaveWallet(w, a) => job'.next \notin Removals
    BY SaveWalletEffect DEF Idle
  <2> QED
    BY <1>1, <1>8, <2>1 DEF BootstrapWallet, counts
<1>9. CASE MapKeys \/ Bootstrap \/ Restart
  BY <1>1, <1>9 DEF MapKeys, Bootstrap, Restart, Done, Idle, counts
<1>10. CASE BootstrapValidator
  <2>1. \A u, w : SaveValidator(u, w) => job'.next \notin Removals
    BY DEF SaveValidator, Then, Done, Idle
  <2> QED
    BY <1>1, <1>10, <2>1 DEF BootstrapValidator, counts
<1>11. CASE \E u \in Users : CreateUser(u)
  BY <1>1, <1>11 DEF CreateUser, SaveUser, Then, Done, Idle
<1>12. CASE \E u \in Users : Reconcile(u)
  <2>1. PICK u \in Users : Reconcile(u)
    BY <1>12
  <2>2. edited' = edited
    BY <2>1 DEF Reconcile
  <2>3. job'.next = "sync_user"
    BY <2>1, ReconcileEffect
  <2> QED
    BY <1>1, <2>2, <2>3
<1>13. CASE \E w \in Wallets, b \in Balances : UpdateBalance(w, b)
  BY <1>1, <1>13 DEF UpdateBalance, Then
<1>14. CASE \/ \E u \in Users : DeleteUser(u)
            \/ RebuildWalletIndex
            \/ \E w \in Wallets : DeleteWallet(w) \/ \E i \in Accounts : CreateWallet(w, <<Owner(w), i>>)
  <2>1. edited' = TRUE
    BY <1>14 DEF DeleteUser, RebuildWalletIndex, DeleteWallet, CreateWallet
  <2> QED
    BY <1>2, <2>1
<1>15. CASE \E u \in Users, w \in Wallets : Register(u, w)
  BY <1>1, <1>15 DEF Register, SaveValidator, Then, Done, Idle
<1>16. CASE \E i \in Indices, s \in Statuses : UpdateStatus(i, s)
  BY <1>1, <1>16 DEF UpdateStatus, Then
<1>17. CASE UNCHANGED vars
  BY <1>1, <1>17 DEF vars, counts
<1> QED
  BY <1>3, <1>4, <1>5, <1>6, <1>7, <1>8, <1>9, <1>10, <1>11, <1>12, <1>13, <1>14, <1>15, <1>16, <1>17
     DEF Next, WalletStep, RunStep, Call

------------------------------------------------------------------------------
\* Places below a place are places.
LEMMA Below ==
    ASSUME NEW u \in Users, NEW i \in Places(u), NEW j \in 0..(i - 1)
    PROVE  j \in Places(u) /\ j # i
  BY StandardIn DEF Places

\* A plan still has, or has had, the wallets at the places below.
LEMMA SuccessiveKept ==
    ASSUME SInv, PInv, Successive, [Next]_vars,
           \A w \in Wallets : walletRec[w] # None => walletRec'[w] # None,
           script # <<>> /\ script' = Tail(script) /\ Task1.do = "wallet" =>
               walletRec'[StandardWallet(Task1.user, Task1.account)] # None
    PROVE  Successive'
<1>1. ASSUME NEW k \in 1..Len(script), script[k].do = "wallet", NEW j \in 0..(script[k].account - 1)
      PROVE  \/ walletRec'[StandardWallet(script[k].user, j)] # None
             \/ Ahead(script, k, j)
  <2>1. script[k].user \in Users /\ script[k].account \in Places(script[k].user)
    BY <1>1 DEF SInv, Tasks, PInv, PlacesOK
  <2>2. StandardWallet(script[k].user, j) \in Wallets
    BY <1>1, <2>1, Below, StandardIn
  <2> QED
    BY <1>1, <2>2 DEF Successive, Have
<1>2. SUFFICES ASSUME NEW k \in 1..Len(script'), script'[k].do = "wallet",
                      NEW j \in 0..(script'[k].account - 1)
               PROVE  \/ walletRec'[StandardWallet(script'[k].user, j)] # None
                      \/ Ahead(script', k, j)
  BY DEF Successive, Have
<1>3. CASE UNCHANGED runVars
  <2>1. script' = script
    BY <1>3 DEF runVars
  <2> QED
    BY <1>1, <1>2, <2>1
<1>4. CASE script' = <<>>
  <2>1. Len(script') = 0
    BY <1>4
  <2> QED
    BY <1>2, <2>1
<1>5. CASE \E profiles \in Profiles : script' = Work(profiles)
  <2>0. PICK profiles \in Profiles : script' = Work(profiles)
    BY <1>5
  <2>1. PICK n \in Nat, b \in Nat, W \in Seq(Tasks) :
           /\ W = Work(profiles) /\ n + b < Len(W)
           /\ \A m \in 1..n : W[m].do = "user"
           /\ \A m \in (n + 1)..(n + b) :
                /\ W[m].do = "wallet" /\ W[m].account \in Places(W[m].user)
                /\ \A y \in 0..(W[m].account - 1) : Ahead(W, m, y)
           /\ W[n + b + 1].do = "maps"
           /\ \A m \in (n + b + 2)..Len(W) : W[m].do = "validator"
    BY WorkShape
  <2>2. W = script' /\ Len(W) \in Nat /\ k \in 1..Len(W)
    BY <2>0, <2>1
  <2>3. k \in 1..n \/ k \in (n + 1)..(n + b) \/ k = n + b + 1 \/ k \in (n + b + 2)..Len(W)
    BY <2>2
  <2>4. k \in (n + 1)..(n + b)
    BY <1>2, <2>1, <2>2, <2>3
  <2> QED
    BY <1>2, <2>1, <2>2, <2>4
<1>6. CASE script # <<>> /\ script' = Tail(script)
  <2>1. /\ 1 \in 1..Len(script) /\ Task1 = script[1] /\ Len(script) \in Nat
        /\ Len(script') = Len(script) - 1
        /\ \A m \in 1..Len(script') : m + 1 \in 1..Len(script) /\ script'[m] = script[m + 1]
    BY <1>6, TailFacts DEF SInv, Task1
  <2>2. k + 1 \in 1..Len(script) /\ script'[k] = script[k + 1]
    BY <2>1
  <2>3. \/ walletRec'[StandardWallet(script'[k].user, j)] # None
        \/ Ahead(script, k + 1, j)
    BY <1>1, <1>2, <2>2
  <2>4. CASE Ahead(script, k + 1, j)
    <3>1. PICK m \in 1..k : /\ script[m].do = "wallet" /\ script[m].user = script'[k].user
                            /\ script[m].account = j
      BY <2>1, <2>2, <2>4 DEF Ahead
    <3>2. CASE m = 1
      BY <1>6, <2>1, <3>1, <3>2
    <3>3. CASE m # 1
      <4>1. m - 1 \in 1..(k - 1) /\ m - 1 \in 1..Len(script') /\ (m - 1) + 1 = m
        BY <2>1, <3>1, <3>3
      <4>2. script'[m - 1] = script[m]
        BY <2>1, <4>1
      <4> QED
        BY <3>1, <4>1, <4>2 DEF Ahead
    <3> QED
      BY <3>2, <3>3
  <2> QED
    BY <2>3, <2>4
<1> QED
  BY <1>3, <1>4, <1>5, <1>6, ScriptSteps

LEMMA LStill ==
    ASSUME KeysAssumption, IInv, SInv, PInv, LInv, Calm, Still, ~BootstrapWallet, [Next]_vars
    PROVE  Placed' /\ InOrder' /\ Successive' /\ Addressed'
<1>1. /\ \A w \in Wallets :
            /\ walletRec'[w] = None <=> walletRec[w] = None
            /\ walletRec[w] # None => walletRec'[w].at = walletRec[w].at
            /\ walletIdx'[w] = None <=> walletIdx[w] = None
            /\ walletIdx[w] # None => walletIdx'[w].seat = walletIdx[w].seat
      /\ job' = job \/ job'.next # "index_wallet"
  BY DEF Still
<1>2. Placed /\ InOrder /\ Successive /\ Addressed
  BY DEF LInv
<1>3. Placed'
  BY <1>1, <1>2 DEF Placed
<1>4. InOrder'
  <2>1. job'.next = "index_wallet" => walletIdx'[job'.on] = None
    <3>1. job.next = "index_wallet" => job.on \in Wallets
      BY DEF IInv, JobOK
    <3> QED
      BY <1>1, <1>2, <3>1 DEF InOrder, Indexed
  <2>2. ASSUME NEW u \in Users, NEW i \in Places(u), NEW j \in 0..(i - 1)
        PROVE  /\ Have(u, i)' => Have(u, j)'
               /\ Indexed(StandardWallet(u, i))' /\ Indexed(StandardWallet(u, j))' =>
                    walletIdx'[StandardWallet(u, j)].seat < walletIdx'[StandardWallet(u, i)].seat
               /\ job'.next = "index_wallet" /\ job'.on = StandardWallet(u, j) => ~Have(u, i)'
    <3>1. StandardWallet(u, i) \in Wallets /\ StandardWallet(u, j) \in Wallets
      BY Below, StandardIn
    <3>2. /\ Have(u, i) => Have(u, j)
          /\ Indexed(StandardWallet(u, i)) /\ Indexed(StandardWallet(u, j)) =>
               walletIdx[StandardWallet(u, j)].seat < walletIdx[StandardWallet(u, i)].seat
          /\ job.next = "index_wallet" /\ job.on = StandardWallet(u, j) => ~Have(u, i)
      BY <1>2 DEF InOrder
    <3> QED
      BY <1>1, <3>1, <3>2 DEF Have, Indexed
  <2> QED
    BY <2>1, <2>2 DEF InOrder, Indexed, Have
<1>5. Successive'
  <2>1. script # <<>> /\ script' = Tail(script) /\ Task1.do = "wallet" =>
          script' = <<>> \/ script' = script \/ Bootstrap
    BY ScriptSteps DEF runVars
  <2>2. ~(script # <<>> /\ script' = Tail(script) /\ Task1.do = "wallet")
    <3> SUFFICES ASSUME script # <<>>, script' = Tail(script), Task1.do = "wallet" PROVE FALSE
      OBVIOUS
    <3>1. Len(script') # Len(script) /\ 1 \in 1..Len(script) /\ Task1 = script[1]
      BY TailFacts DEF SInv, Task1
    <3>2. PICK m \in (1 + 1)..Len(script) : script[m].do = "maps"
      BY <3>1 DEF PInv, Phased
    <3>3. Len(script') # 0
      BY <3>1, <3>2, TailFacts DEF SInv
    <3>4. script' # <<>>
      BY <3>3
    <3>5. ~Bootstrap
      BY DEF Bootstrap
    <3> QED
      BY <2>1, <3>1, <3>4, <3>5
  <2> QED
    BY <1>1, <1>2, <2>2, SuccessiveKept
<1>6. Addressed'
  <2>1. addressMap' = addressMap \/ addressMap' = [w \in Wallets |-> None]
    BY AddressSteps
  <2> QED
    BY <1>1, <1>2, <2>1 DEF Addressed
<1> QED
  BY <1>3, <1>4, <1>5, <1>6

LEMMA LIndex ==
    ASSUME KeysAssumption, IInv, TInv, SInv, PInv, LInv, Calm, IndexWallet, [Next]_vars
    PROVE  Placed' /\ InOrder' /\ Successive' /\ Addressed'
<1>1. Placed /\ InOrder /\ Successive /\ Addressed
  BY DEF LInv
<1> DEFINE w == job.on
<1>2. /\ w \in Wallets /\ job.next = "index_wallet" /\ job'.next = "link_wallet"
      /\ walletRec' = walletRec /\ UNCHANGED runVars /\ ~Indexed(w)
  BY <1>1 DEF IndexWallet, Then, IInv, JobOK, InOrder
<1>3. walletIdx' = [walletIdx EXCEPT ![w] = EntryAt(w, LastSeat + 1)]
  BY <1>2 DEF IndexWallet
<1>4. /\ walletIdx'[w].seat = LastSeat + 1
      /\ \A v \in Wallets \ {w} : walletIdx'[v] = walletIdx[v]
  BY <1>2, <1>3 DEF TInv, Seats, EntryAt
<1> HIDE DEF w
<1>5. /\ LastSeat \in Nat
      /\ \A v \in Wallets : Indexed(v) => walletIdx[v].seat <= LastSeat /\ walletIdx[v].seat \in Nat
  <2>1. \A v \in Wallets : Indexed(v) => walletIdx[v] \in WalletEntry
    BY DEF TInv, Seats, Indexed
  <2> QED
    BY <2>1, LastSeatType DEF TInv, WalletEntry
<1>6. ASSUME NEW u \in Users, NEW i \in Places(u), NEW j \in 0..(i - 1)
      PROVE  /\ Have(u, i)' => Have(u, j)'
             /\ Indexed(StandardWallet(u, i))' /\ Indexed(StandardWallet(u, j))' =>
                  walletIdx'[StandardWallet(u, j)].seat < walletIdx'[StandardWallet(u, i)].seat
  <2> DEFINE v == StandardWallet(u, i)
             x == StandardWallet(u, j)
  <2>1. v \in Wallets /\ x \in Wallets /\ v # x
    BY Below, StandardIn, PlacesApart
  <2>2. /\ Have(u, i) => Have(u, j)
        /\ Indexed(v) /\ Indexed(x) => walletIdx[x].seat < walletIdx[v].seat
        /\ w = x => ~Have(u, i)
    BY <1>1, <1>2 DEF InOrder, w
  <2>3. Have(u, i) <=> walletRec[v] # None
    BY DEF Have
  <2>4. Have(u, i)' => Have(u, j)'
    BY <1>2, <2>2 DEF Have
  <2> HIDE DEF v, x
  <2>5. ASSUME walletIdx'[v] # None, walletIdx'[x] # None PROVE walletIdx'[x].seat < walletIdx'[v].seat
    <3>1. CASE w = v
      <4>1. walletIdx'[x] = walletIdx[x] /\ Indexed(x)
        BY <1>4, <2>1, <2>5, <3>1 DEF Indexed
      <4> QED
        BY <1>4, <1>5, <2>1, <3>1, <4>1
    <3>2. CASE w = x
      <4>1. walletIdx'[v] = walletIdx[v] /\ walletRec[v] = None
        BY <1>4, <2>1, <2>2, <2>3, <3>2
      <4>2. walletIdx[v] = None
        BY <2>1, <4>1 DEF IInv, IndexedHasRecord
      <4> QED
        BY <2>5, <4>1, <4>2
    <3>3. CASE w # v /\ w # x
      BY <1>4, <2>1, <2>2, <2>5, <3>3 DEF Indexed
    <3> QED
      BY <3>1, <3>2, <3>3
  <2> QED
    BY <2>4, <2>5 DEF Indexed, v, x
<1>7. InOrder'
  BY <1>2, <1>6 DEF InOrder
<1>8. Successive'
  <2>1. ~(script # <<>> /\ script' = Tail(script))
    <3>1. script # <<>> => Len(Tail(script)) # Len(script)
      BY TailFacts DEF SInv
    <3> QED
      BY <1>2, <3>1 DEF runVars
  <2> QED
    BY <1>1, <1>2, <2>1, SuccessiveKept
<1>9. Placed' /\ Addressed'
  BY <1>1, <1>2 DEF Placed, Addressed, runVars
<1> QED
  BY <1>7, <1>8, <1>9

LEMMA LMake ==
    ASSUME KeysAssumption, IInv, TInv, SInv, PInv, LInv, Calm, BootstrapWallet, [Next]_vars
    PROVE  Placed' /\ InOrder' /\ Successive' /\ Addressed'
<1>1. Placed /\ InOrder /\ Successive /\ Addressed
  BY DEF LInv
<1>2. PICK u \in Users : \E i \in Places(u) : \E w \in Wallets : \E a \in Addresses :
             /\ w = StandardWallet(u, i) /\ a = <<u, i>> /\ u = Task1.user /\ i = Task1.account
             /\ addressMap' = [addressMap EXCEPT ![w] = a]
             /\ walletIdx' = walletIdx
             /\ walletRec'[w] # None /\ walletRec'[w].at = a
             /\ \A v \in Wallets \ {w} : walletRec'[v] = walletRec[v]
             /\ \A v \in Wallets : walletRec[v] # None => walletRec'[v] = walletRec[v]
             /\ \/ job' = Idle
                \/ job' = [next |-> "index_wallet", on |-> w] /\ walletRec[w] = None
             /\ \A j \in 0..(i - 1) : Have(u, j)
  BY Makes
<1>3. PICK i \in Places(u), w \in Wallets, a \in Addresses :
             /\ w = StandardWallet(u, i) /\ a = <<u, i>> /\ u = Task1.user /\ i = Task1.account
             /\ addressMap' = [addressMap EXCEPT ![w] = a]
             /\ walletIdx' = walletIdx
             /\ walletRec'[w] # None /\ walletRec'[w].at = a
             /\ \A v \in Wallets \ {w} : walletRec'[v] = walletRec[v]
             /\ \A v \in Wallets : walletRec[v] # None => walletRec'[v] = walletRec[v]
             /\ \/ job' = Idle
                \/ job' = [next |-> "index_wallet", on |-> w] /\ walletRec[w] = None
             /\ \A j \in 0..(i - 1) : Have(u, j)
  BY <1>2
<1>4. Owner(w) = u
  BY <1>3, StandardIn
<1>5. Placed'
  <2> SUFFICES ASSUME NEW v \in Wallets, walletRec'[v] # None
               PROVE  \E k \in Places(Owner(v)) :
                        v = StandardWallet(Owner(v), k) /\ walletRec'[v].at = <<Owner(v), k>>
    BY DEF Placed
  <2>1. CASE v = w
    BY <1>3, <1>4, <2>1
  <2>2. CASE v # w
    BY <1>1, <1>3, <2>2 DEF Placed
  <2> QED
    BY <2>1, <2>2
<1>6. ASSUME NEW x \in Users, NEW k \in Places(x), NEW j \in 0..(k - 1)
      PROVE  /\ Have(x, k)' => Have(x, j)'
             /\ Indexed(StandardWallet(x, k))' /\ Indexed(StandardWallet(x, j))' =>
                  walletIdx'[StandardWallet(x, j)].seat < walletIdx'[StandardWallet(x, k)].seat
             /\ job'.next = "index_wallet" /\ job'.on = StandardWallet(x, j) => ~Have(x, k)'
  <2>1. /\ j \in Places(x) /\ j # k
        /\ StandardWallet(x, k) \in Wallets /\ StandardWallet(x, j) \in Wallets
    BY Below, StandardIn
  <2>2. /\ Have(x, k) => Have(x, j)
        /\ Indexed(StandardWallet(x, k)) /\ Indexed(StandardWallet(x, j)) =>
             walletIdx[StandardWallet(x, j)].seat < walletIdx[StandardWallet(x, k)].seat
    BY <1>1 DEF InOrder
  <2>3. Have(x, j) => Have(x, j)'
    BY <1>3, <2>1 DEF Have
  <2>4. Have(x, k)' => Have(x, j)'
    <3>1. CASE StandardWallet(x, k) = w
      <4>1. x = u /\ k = i
        BY <1>3, <3>1, PlacesApart
      <4> QED
        BY <1>3, <2>3, <4>1
    <3>2. CASE StandardWallet(x, k) # w
      <4>1. Have(x, k)' => Have(x, k)
        BY <1>3, <2>1, <3>2 DEF Have
      <4> QED
        BY <2>2, <2>3, <4>1
    <3> QED
      BY <3>1, <3>2
  <2>5. ASSUME job'.next = "index_wallet", job'.on = StandardWallet(x, j), Have(x, k)' PROVE FALSE
    <3>1. w = StandardWallet(x, j) /\ walletRec[w] = None
      BY <1>3, <2>5 DEF Idle
    <3>2. StandardWallet(x, k) # w
      BY <2>1, <3>1, PlacesApart
    <3>3. Have(x, k)
      BY <1>3, <2>1, <2>5, <3>2 DEF Have
    <3> QED
      BY <2>2, <3>1, <3>3 DEF Have
  <2>6. /\ Indexed(StandardWallet(x, k))' /\ Indexed(StandardWallet(x, j))' =>
             walletIdx'[StandardWallet(x, j)].seat < walletIdx'[StandardWallet(x, k)].seat
    BY <1>3, <2>2 DEF Indexed
  <2> QED
    BY <2>4, <2>5, <2>6
<1>7. job'.next = "index_wallet" => walletIdx'[job'.on] = None
  <2>1. walletRec[w] = None => walletIdx[w] = None
    BY DEF IInv, IndexedHasRecord
  <2> QED
    BY <1>3, <2>1 DEF Idle, Indexed
<1>8. InOrder'
  BY <1>6, <1>7 DEF InOrder, Indexed, Have
<1>9. Successive'
  <2>1. \A v \in Wallets : walletRec[v] # None => walletRec'[v] # None
    BY <1>3
  <2>2. walletRec'[StandardWallet(Task1.user, Task1.account)] # None
    BY <1>3
  <2> QED
    BY <1>1, <2>1, <2>2, SuccessiveKept
<1>10. Addressed'
  <2>1. /\ addressMap'[w] = a
        /\ \A v \in Wallets \ {w} : addressMap'[v] = addressMap[v]
    BY <1>3 DEF TInv, Maps
  <2> QED
    BY <1>1, <1>3, <2>1 DEF Addressed
<1> QED
  BY <1>5, <1>8, <1>9, <1>10

LEMMA InitL == KeysAssumption /\ Init => LInv
<1> SUFFICES ASSUME Init PROVE LInv
  OBVIOUS
<1>1. /\ \A w \in Wallets : walletRec[w] = None /\ walletIdx[w] = None /\ addressMap[w] = None
      /\ job.next = "nothing" /\ script = <<>>
  BY DEF Init, Idle
<1>2. Len(script) = 0
  BY <1>1
<1>3. InOrder
  <2>1. ASSUME NEW u \in Users, NEW i \in Places(u), NEW j \in 0..(i - 1)
        PROVE  ~Have(u, i) /\ ~Indexed(StandardWallet(u, i))
    BY <1>1, StandardIn DEF Have, Indexed
  <2> QED
    BY <1>1, <2>1 DEF InOrder
<1> QED
  BY <1>1, <1>2, <1>3 DEF LInv, ByOthers, Placed, Successive, Addressed

LEMMA NextL == KeysAssumption /\ IInv /\ TInv /\ SInv /\ PInv /\ LInv /\ [Next]_vars => LInv'
<1> SUFFICES ASSUME KeysAssumption, IInv, TInv, SInv, PInv, LInv, [Next]_vars PROVE LInv'
  OBVIOUS
<1>1. ByOthers'
  BY NextBy DEF LInv
<1>2. ASSUME Calm' PROVE Placed' /\ InOrder' /\ Successive' /\ Addressed'
  <2>1. Calm /\ (BootstrapWallet \/ IndexWallet \/ Still)
    BY <1>2, CalmBefore, CalmSteps DEF LInv
  <2> QED
    BY <2>1, LStill, LIndex, LMake
<1> QED
  BY <1>1, <1>2 DEF LInv

\* While only runs that were not cut changed wallets, these are made and seated
\* in the order of their places, at the accounts of these places.
THEOREM OrderInvariance == ASSUME KeysAssumption PROVE Spec => []LInv
<1>1. Init => LInv
  BY InitL
<1>2. IInv /\ TInv /\ SInv /\ PInv /\ LInv /\ [Next]_vars => LInv'
  BY NextL
<1> QED
  BY <1>1, <1>2, Invariance, TypeInvariance, PlanInvariance, PhaseInvariance, PTL DEF Spec

------------------------------------------------------------------------------
\* A wallet's place among its owner's in the index is above its account.
LEMMA SeatsEnough ==
    ASSUME KeysAssumption, IInv, TInv, CInv, LInv, Calm, job = Idle,
           NEW u \in Users, NEW i \in Places(u), Indexed(StandardWallet(u, i))
    PROVE  i < SeatOf(StandardWallet(u, i))
<1> DEFINE w == StandardWallet(u, i)
           S == {StandardWallet(u, j) : j \in 0..i}
           Q == {v \in IndexedOf(u) : walletIdx[v].seat <= walletIdx[w].seat}
<1>1. i \in Nat /\ w \in Wallets /\ Owner(w) = u /\ Have(u, i)
  BY StandardIn DEF IInv, IndexedHasRecord, Indexed, Have
<1>2. \A v \in Wallets : walletRec[v] # None => Indexed(v)
  BY DEF CInv, Calm, Confined, At, Idle
<1>3. \A v \in Wallets : Indexed(v) => walletIdx[v].seat \in Nat
  BY DEF TInv, Seats, Indexed, WalletEntry
<1>4. w \in Q
  BY <1>1, <1>3 DEF IndexedOf
<1>5. ASSUME NEW j \in 0..(i - 1) PROVE StandardWallet(u, j) \in Q
  <2>1. j \in Places(u) /\ StandardWallet(u, j) \in Wallets /\ Owner(StandardWallet(u, j)) = u
    BY Below, StandardIn
  <2>2. Have(u, j)
    BY <1>1 DEF LInv, InOrder
  <2>3. Indexed(StandardWallet(u, j))
    BY <1>2, <2>1, <2>2 DEF Have
  <2>4. walletIdx[StandardWallet(u, j)].seat < walletIdx[w].seat
    BY <2>3 DEF LInv, InOrder
  <2>5. walletIdx[StandardWallet(u, j)].seat <= walletIdx[w].seat
    BY <1>1, <1>3, <2>1, <2>3, <2>4
  <2> QED
    BY <2>1, <2>3, <2>5 DEF IndexedOf
<1>6. S \subseteq Q
  <2> SUFFICES ASSUME NEW j \in 0..i PROVE StandardWallet(u, j) \in Q
    OBVIOUS
  <2>1. j = i \/ j \in 0..(i - 1)
    BY <1>1
  <2> QED
    BY <1>4, <1>5, <2>1
<1>7. IsFiniteSet(Q)
  <2>1. Q \subseteq Wallets
    BY DEF IndexedOf
  <2> QED
    BY <2>1, AccountsAssumption, FS_Subset
<1>8. Cardinality(S) = i + 1
  BY FirstPlaces
<1>9. SeatOf(w) = Cardinality(Q)
  BY <1>1 DEF SeatOf
<1> HIDE DEF S, Q, w
<1>10. Cardinality(S) <= Cardinality(Q) /\ Cardinality(Q) \in Nat
  BY <1>6, <1>7, FS_Subset, FS_CardinalityType
<1> QED
  BY <1>1, <1>8, <1>9, <1>10 DEF w

\* The maps have the right key for every wallet the run has passed.
LEMMA MapKeysFit ==
    ASSUME KeysAssumption, IInv, TInv, CInv, LInv, Calm, MapKeys,
           NEW w \in Wallets, addressMap[w] # None
    PROVE  addressMap'[w] = addressMap[w] /\ keyMap'[addressMap[w]] = addressMap[w]
<1> DEFINE mine == {v \in Wallets : /\ Indexed(v) /\ userIdx[Owner(v)] # None
                                    /\ \E x \in Wallets : addressMap[x] = walletIdx[v].at}
           used == {walletIdx[v].at : v \in mine}
           a == addressMap[w]
<1>1. PICK of \in [used -> mine] :
        /\ \A b \in used : walletIdx[of[b]].at = b
        /\ keyMap' = [b \in Addresses |-> IF b \in used THEN KeyFor(of[b]) ELSE None]
  BY DEF MapKeys
<1>2. job = Idle /\ addressMap' = addressMap
  BY DEF MapKeys, Doing
<1>3. ASSUME NEW v \in Wallets, walletRec[v] # None
      PROVE  /\ Indexed(v) /\ walletIdx[v].at = walletRec[v].at /\ userRec[Owner(v)] # None
  BY <1>2, <1>3 DEF CInv, Calm, Confined, At, Idle
<1>4. \A v \in Wallets : Indexed(v) => walletRec[v] # None
  BY DEF IInv, IndexedHasRecord, Indexed
<1>5. walletRec[w] # None /\ a = walletRec[w].at
  BY DEF LInv, Addressed
<1>6. Indexed(w) /\ walletIdx[w].at = a /\ userIdx[Owner(w)] # None
  <2>1. userIdx[Owner(w)] = userRec[Owner(w)]
    BY <1>2, OwnerType DEF IInv, Mirrors, Idle
  <2> QED
    BY <1>3, <1>5, <2>1
<1>7. w \in mine
  BY <1>6
<1>8. a \in used
  BY <1>6, <1>7
<1>9. a \in Addresses
  BY DEF TInv, Maps
<1> DEFINE v == of[a]
<1>10. v \in mine /\ walletIdx[v].at = a
  BY <1>1, <1>8
<1>11. v \in Wallets /\ Indexed(v)
  BY <1>10
<1>12. keyMap'[a] = KeyFor(v)
  BY <1>1, <1>8, <1>9
<1> HIDE DEF v, mine, used, a
<1>13. walletRec[v] # None /\ walletRec[v].at = a
  BY <1>3, <1>4, <1>10, <1>11
<1>14. PICK i \in Places(Owner(v)) : v = StandardWallet(Owner(v), i) /\ a = <<Owner(v), i>>
  BY <1>11, <1>13 DEF LInv, Placed
<1>15. Owner(v) \in Users
  BY <1>11, OwnerType
<1>16. i < SeatOf(v)
  BY <1>2, <1>11, <1>14, <1>15, SeatsEnough
<1>17. KeyFor(v) = <<Owner(v), i>>
  BY <1>10, <1>14, <1>16 DEF KeyFor
<1> QED
  BY <1>2, <1>12, <1>14, <1>17 DEF a

\* The maps are made once, before the validators: with users or wallets still to
\* do they are too, and with validators next they are done.
LEMMA MapsAhead ==
    ASSUME SInv, PInv, script # <<>>
    PROVE  /\ Task1.do \in {"user", "wallet"} /\ script' = Tail(script) => Tasked("maps")'
           /\ Task1.do = "validator" => ~Tasked("maps")
<1>1. /\ 1 \in 1..Len(script) /\ Task1 = script[1] /\ Len(script) \in Nat
      /\ Len(Tail(script)) = Len(script) - 1
      /\ \A m \in 1..Len(Tail(script)) : m + 1 \in 1..Len(script) /\ Tail(script)[m] = script[m + 1]
  BY TailFacts DEF SInv, Task1
<1>2. ASSUME Task1.do \in {"user", "wallet"}, script' = Tail(script) PROVE Tasked("maps")'
  <2>1. PICK m \in (1 + 1)..Len(script) : script[m].do = "maps"
    BY <1>1, <1>2 DEF PInv, Phased
  <2>2. m - 1 \in 1..Len(Tail(script)) /\ (m - 1) + 1 = m
    BY <1>1, <2>1
  <2>3. script'[m - 1].do = "maps" /\ m - 1 \in 1..Len(script')
    BY <1>1, <1>2, <2>1, <2>2
  <2> QED
    BY <2>3 DEF Tasked
<1>3. ASSUME Task1.do = "validator", NEW k \in 1..Len(script), script[k].do = "maps" PROVE FALSE
  <2>1. CASE k = 1
    BY <1>1, <1>3, <2>1
  <2>2. CASE k # 1
    <3>1. 1 \in 1..(k - 1)
      BY <1>1, <2>2
    <3>2. script[1].do \in {"user", "wallet"}
      BY <1>3, <3>1 DEF PInv, Phased
    <3> QED
      BY <1>1, <1>3, <3>2
  <2> QED
    BY <2>1, <2>2
<1> QED
  BY <1>2, <1>3 DEF Tasked

LEMMA InitM == Init => MInv
  BY DEF Init, MInv

LEMMA NextM ==
    KeysAssumption /\ IInv /\ TInv /\ SInv /\ CInv /\ PInv /\ LInv /\ MInv /\ [Next]_vars => MInv'
<1> SUFFICES ASSUME KeysAssumption, IInv, TInv, SInv, CInv, PInv, LInv, MInv, [Next]_vars,
                    Calm', ~Tasked("maps")', NEW w \in Wallets, addressMap'[w] # None
             PROVE  keyMap'[addressMap'[w]] = addressMap'[w]
  BY DEF MInv
<1>1. Calm
  BY CalmBefore
<1>2. CASE UNCHANGED runVars
  BY <1>1, <1>2 DEF MInv, Tasked, runVars
<1>3. CASE Bootstrap \/ Restart
  BY <1>3 DEF Bootstrap, Restart
<1>4. CASE BootstrapUser
  <2>1. script # <<>> /\ Task1.do = "user" /\ addressMap' = addressMap
    BY <1>4 DEF BootstrapUser, Doing
  <2>2. 1 \in 1..Len(script) /\ Task1 = script[1]
    BY <2>1, TailFacts DEF SInv, Task1
  <2>3. Tasked("user")
    BY <2>1, <2>2 DEF Tasked
  <2> QED
    BY <2>1, <2>3 DEF PInv
<1>5. CASE BootstrapWallet
  <2>1. script # <<>> /\ Task1.do = "wallet" /\ script' = Tail(script)
    BY <1>1, <1>5, Makes
  <2> QED
    BY <2>1, MapsAhead
<1>6. CASE MapKeys
  <2>1. addressMap' = addressMap
    BY <1>6 DEF MapKeys
  <2> QED
    BY <1>1, <1>6, <2>1, MapKeysFit
<1>7. CASE BootstrapValidator
  <2>1. script # <<>> /\ Task1.do = "validator" /\ addressMap' = addressMap /\ keyMap' = keyMap
    BY <1>7 DEF BootstrapValidator, Doing
  <2> QED
    BY <1>1, <2>1, MapsAhead DEF MInv
<1>8. CASE IndexUser /\ ~Indexable(job.on)
  BY <1>8 DEF IndexUser, IInv, JobOK
<1> QED
  BY <1>2, <1>3, <1>4, <1>5, <1>6, <1>7, <1>8, RunSteps

\* Once the maps are made they have the key of every address the run has passed.
THEOREM MapsInvariance == ASSUME KeysAssumption PROVE Spec => []MInv
<1>1. IInv /\ TInv /\ SInv /\ CInv /\ PInv /\ LInv /\ MInv /\ [Next]_vars => MInv'
  BY NextM
<1> QED
  BY <1>1, InitM, Invariance, TypeInvariance, PlanInvariance, ConfinedInvariance, PhaseInvariance,
     OrderInvariance, PTL DEF Spec

\* For any users and profiles, if the standard wallets of a user fit and there is
\* no passphrase: a run that ends has the right key for every address, and no key
\* is ever another address's.
THEOREM KeysFitTheorem == ASSUME KeysAssumption PROVE Spec => []KeysFit
<1>1. Own /\ MInv => KeysFit
  <2> SUFFICES ASSUME Own, MInv PROVE KeysFit
    OBVIOUS
  <2>1. script = <<>> => ~Tasked("maps")
    <3>1. script = <<>> => Len(script) = 0
      OBVIOUS
    <3> QED
      BY <3>1 DEF Tasked
  <2> QED
    BY <2>1 DEF Own, MInv, Calm, KeysFit
<1> QED
  BY <1>1, OwnInvariance, MapsInvariance, PTL
==============================================================================
