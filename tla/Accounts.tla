------------------------------ MODULE Accounts ------------------------------
(***************************************************************************)
(* Users, wallets and validators of one node, each kept as one file per    *)
(* record and one index file per kind (lib_user, lib_wallet, lib_validator *)
(* over lib_storage), and the bootstrap that creates them and maps         *)
(* addresses to private keys (lib_bootstrap, lib_crypto).                  *)
(*                                                                         *)
(* Nothing here suspends, so operations never interleave; but an operation *)
(* writes several files, and the process may stop between two writes. An   *)
(* action is one write, with the checks that lead to it. A write itself    *)
(* replaces a file in one step. Creating the services again, at a restart, *)
(* rebuilds the index of users from their records, and that index only.    *)
(*                                                                         *)
(* A wallet is named by its owner and type. Its identifier is a hash of    *)
(* these and of its name, and an owner's wallet of a type has one name     *)
(* here, as in the bootstrap. An address is named by the seed and the      *)
(* account it is derived from, since derivation is deterministic and does  *)
(* not collide, and it is also the name of its private key. Emails stand   *)
(* for users. What a caller says of a user matters only to the             *)
(* validations, and is a constant.                                         *)
(***************************************************************************)
EXTENDS Integers, Sequences, FiniteSets, FiniteSetsExt, AccountRules

CONSTANTS
    Users,              \* users, by email
    Given,              \* the fields a caller gives for each
    Standard,           \* wallet types the bootstrap creates for a user, in order
    Others,             \* wallet types created by hand
    MaxWallets,         \* MAX_WALLET_COUNT
    Profiles,           \* what a run of the bootstrap may be given: sequences of users
    Phrase,             \* its passphrase_seed, or None
    None,
    MaxBalance,         \* bound: balances
    MaxCalls,           \* bound: calls other than runs of the bootstrap
    MaxRuns, MaxStops   \* bounds: runs of the bootstrap, restarts

Ledgers    == {u \in Users : Given[u].user_type = "ledger"}
Validators == {u \in Users : Given[u].user_type = "validator"}

Types(u)  == {Standard[u][i] : i \in DOMAIN Standard[u]}
Wallets   == UNION {{<<u, t>> : t \in Types(u) \cup Others} : u \in Users}
Owner(w)  == w[1]
Balances  == 0..MaxBalance
Accounts  == 0..Cardinality(Others) + 3
Addresses == (Users \cup {Phrase}) \X Accounts
Totals    == 0..MaxBalance * Cardinality(Wallets)
Statuses  == {"active_ongoing", "exited_unslashed"}

UserRecord   == [wallets : SUBSET Wallets, total : Totals]
WalletRecord == [at : Addresses, balance : Balances]
WalletEntry  == [seat : Nat, at : Addresses, balance : Balances]
Validator    == [user : Users, status : Statuses]

ASSUME AccountsAssumption ==
    /\ \A u \in Users : {"user_type", "first_name"} \subseteq DOMAIN Given[u]
    /\ \A u \in Users : Standard[u] \in Seq(Types(u))
    /\ Profiles \subseteq Seq(Users) /\ IsFiniteSet(Users) /\ IsFiniteSet(Wallets)
    /\ None \notin UserRecord \cup WalletRecord \cup WalletEntry \cup Validator
    /\ None \notin Addresses /\ None \notin Nat
    /\ {MaxWallets, MaxBalance, MaxCalls, MaxRuns, MaxStops} \subseteq Nat

VARIABLES
    userRec, userIdx,     \* records and index of users
    walletRec, walletIdx, \* of wallets; an entry has its place in the order of the index
    valRec, valIdx, valOf, total, \* of validators: records, and the index's validators,
                          \* by_user and total_validators
    job,                  \* the write that comes next, and what it is about
    script,               \* what a run of the bootstrap still has to do
    addressMap, keyMap,   \* what the run has collected: wallet to address, address to key
    torn, tornVals,       \* history: wallets and validators a stop cut an operation on
    edited,               \* history: something other than the bootstrap changed a wallet
    calls, runs, stops

userVars   == <<userRec, userIdx>>
walletVars == <<walletRec, walletIdx>>
valVars    == <<valRec, valIdx, valOf, total>>
runVars    == <<script, addressMap, keyMap>>
counts     == <<torn, tornVals, edited, calls, runs, stops>>
vars == <<userVars, walletVars, valVars, job, runVars, counts>>

Indices == 0..Cardinality(Users)  \* one validator a user, and a record that was cut off

Idle == [next |-> "nothing", on |-> None]
Then(next, on) == job' = [next |-> next, on |-> on]
Done == job' = Idle

Init ==
    /\ userRec = [u \in Users |-> None] /\ userIdx = [u \in Users |-> None]
    /\ walletRec = [w \in Wallets |-> None] /\ walletIdx = [w \in Wallets |-> None]
    /\ valRec = [i \in Indices |-> None] /\ valIdx = [i \in Indices |-> None]
    /\ valOf = [u \in Users |-> None] /\ total = 0
    /\ job = Idle
    /\ script = <<>> /\ addressMap = [w \in Wallets |-> None] /\ keyMap = [a \in Addresses |-> None]
    /\ torn = {} /\ tornVals = {} /\ edited = FALSE
    /\ calls = 0 /\ runs = 0 /\ stops = 0

\* A call made by hand: nothing else is going on.
ByHand == /\ job = Idle /\ script = <<>> /\ calls < MaxCalls
          /\ calls' = calls + 1
          /\ UNCHANGED <<torn, tornVals, runs, stops>>

------------------------------------------------------------------------------
\* Users

\* validate_user_data at the creation of the record and of its entry: the views
\* differ, and only the record is written by then.
Creatable(u) == UserData(NewUser(u, Given[u]), "create")
Indexable(u) == UserData(NewUser(u, Given[u]), "index")

\* Faulty: the index is not asked for the email.
SaveUserAgain(u) ==
    /\ userRec' = [userRec EXCEPT ![u] = [wallets |-> {}, total |-> 0]]
    /\ Then("index_user", u)

\* create_user_with_index: found by email in the index, or refused, or saved
\* anew, with no wallets, over whatever record there was.
SaveUser(u) ==
    IF userIdx[u] # None \/ ~Creatable(u)
    THEN Done /\ UNCHANGED userRec
    ELSE /\ userRec' = [userRec EXCEPT ![u] = [wallets |-> {}, total |-> 0]]
         /\ Then("index_user", u)

\* An entry that is refused ends the call, and the bootstrap with it.
IndexUser ==
    /\ job.next = "index_user"
    /\ IF Indexable(job.on)
       THEN userIdx' = [userIdx EXCEPT ![job.on] = userRec[job.on]] /\ UNCHANGED script
       ELSE script' = <<>> /\ UNCHANGED userIdx
    /\ Done
    /\ UNCHANGED <<userRec, walletVars, valVars, addressMap, keyMap, counts>>

CreateUser(u) ==
    /\ ByHand /\ SaveUser(u)
    /\ UNCHANGED <<userIdx, walletVars, valVars, runVars, edited>>

\* Only a user without wallets; the index first.
DeleteUser(u) ==
    /\ ByHand /\ edited' = TRUE
    /\ userRec[u] # None /\ userRec[u].wallets = {}
    /\ userIdx' = [userIdx EXCEPT ![u] = None]
    /\ Then("drop_user", u)
    /\ UNCHANGED <<userRec, walletVars, valVars, runVars>>

DropUser ==
    /\ job.next = "drop_user"
    /\ userRec' = [userRec EXCEPT ![job.on] = None]
    /\ Done
    /\ UNCHANGED <<userIdx, walletVars, valVars, runVars, counts>>

\* The last step of update_user: an entry that is not there is not made.
SyncUser ==
    /\ job.next = "sync_user"
    /\ userIdx' = IF userIdx[job.on] = None THEN userIdx
                  ELSE [userIdx EXCEPT ![job.on] = userRec[job.on]]
    /\ Done
    /\ UNCHANGED <<userRec, walletVars, valVars, runVars, counts>>

\* add_wallet_to_user, remove_wallet_from_user
Relink(u, links) ==
    IF userRec[u] = None \/ userRec[u].wallets = links
    THEN Done /\ UNCHANGED userRec
    ELSE /\ userRec' = [userRec EXCEPT ![u].wallets = links]
         /\ Then("sync_user", u)

------------------------------------------------------------------------------
\* Wallets

Indexed(w)    == walletIdx[w] # None
IndexedOf(u)  == {w \in Wallets : Owner(w) = u /\ Indexed(w)}
EntryAt(w, s) == [seat |-> s, at |-> walletRec[w].at, balance |-> walletRec[w].balance]
LastSeat      == Max({0} \cup {walletIdx[w].seat : w \in {v \in Wallets : Indexed(v)}})

Full(u) == Cardinality(IndexedOf(u)) >= MaxWallets

\* validate_wallet_before_creation
Accepted(w, a) == WalletData(NewWallet(Owner(w), w[2], a))

\* create_wallet_with_index. A record that is there ends it: it is taken to be
\* indexed and linked.
SaveWallet(w, a) ==
    IF Full(Owner(w)) \/ ~Accepted(w, a) \/ walletRec[w] # None
    THEN Done /\ UNCHANGED walletRec
    ELSE /\ walletRec' = [walletRec EXCEPT ![w] = [at |-> a, balance |-> 0]]
         /\ Then("index_wallet", w)

IndexWallet ==
    LET w == job.on
        seat == IF Indexed(w) THEN walletIdx[w].seat ELSE LastSeat + 1
    IN
    /\ job.next = "index_wallet"
    /\ walletIdx' = [walletIdx EXCEPT ![w] = EntryAt(w, seat)]
    /\ Then("link_wallet", w)
    /\ UNCHANGED <<userVars, walletRec, valVars, runVars, counts>>

LinkWallet ==
    LET w == job.on
        u == Owner(w)
    IN
    /\ job.next = "link_wallet"
    /\ Relink(u, IF userRec[u] = None THEN {} ELSE userRec[u].wallets \cup {w})
    /\ UNCHANGED <<userIdx, walletVars, valVars, runVars, counts>>

\* By hand any type at any account, but for a user there is.
CreateWallet(w, a) ==
    /\ ByHand /\ edited' = TRUE
    /\ userRec[Owner(w)] # None
    /\ SaveWallet(w, a)
    /\ UNCHANGED <<userVars, walletIdx, valVars, runVars>>

\* Faulty: the record goes first.
DeleteWalletRecordFirst(w) ==
    /\ ByHand /\ edited' = TRUE
    /\ walletRec[w] # None
    /\ walletRec' = [walletRec EXCEPT ![w] = None]
    /\ Then("unlink_wallet", w)
    /\ UNCHANGED <<userVars, walletIdx, valVars, runVars>>

DeleteWallet(w) ==
    /\ ByHand /\ edited' = TRUE
    /\ walletRec[w] # None
    /\ walletIdx' = [walletIdx EXCEPT ![w] = None]
    /\ Then("drop_wallet", w)
    /\ UNCHANGED <<userVars, walletRec, valVars, runVars>>

DropWallet ==
    /\ job.next = "drop_wallet"
    /\ walletRec' = [walletRec EXCEPT ![job.on] = None]
    /\ Then("unlink_wallet", job.on)
    /\ UNCHANGED <<userVars, walletIdx, valVars, runVars, counts>>

UnlinkWallet ==
    LET w == job.on
        u == Owner(w)
    IN
    /\ job.next = "unlink_wallet"
    /\ Relink(u, IF userRec[u] = None THEN {} ELSE userRec[u].wallets \ {w})
    /\ UNCHANGED <<userIdx, walletVars, valVars, runVars, counts>>

\* update_account_state: the record, then the entry if there is one.
UpdateBalance(w, b) ==
    /\ ByHand /\ walletRec[w] # None
    /\ walletRec' = [walletRec EXCEPT ![w].balance = b]
    /\ Then("sync_wallet", w)
    /\ UNCHANGED <<userVars, walletIdx, valVars, runVars, edited>>

SyncWallet ==
    LET w == job.on IN
    /\ job.next = "sync_wallet"
    /\ walletIdx' = IF Indexed(w)
                    THEN [walletIdx EXCEPT ![w].balance = walletRec[w].balance]
                    ELSE walletIdx
    /\ Done
    /\ UNCHANGED <<userVars, walletRec, valVars, runVars, counts>>

\* reconcile_user_balance: by the two indices.
Reconcile(u) ==
    LET there == {w \in userIdx[u].wallets : Indexed(w)} IN
    /\ ByHand /\ userIdx[u] # None /\ userRec[u] # None
    /\ \E sum \in Totals :
         /\ sum = MapThenSumSet(LAMBDA w : walletIdx[w].balance, there)
         /\ userRec' = [userRec EXCEPT ![u].total = sum]
    /\ Then("sync_user", u)
    /\ UNCHANGED <<userIdx, walletVars, valVars, runVars, edited>>

\* rebuild_wallet_index: from all records, in the order the directory lists
\* them. Owners are not looked at.
RebuildWalletIndex ==
    LET kept == {w \in Wallets : walletRec[w] # None} IN
    /\ ByHand /\ edited' = TRUE
    /\ \E seat \in [kept -> 1..Cardinality(kept)] :
         /\ \A v, w \in kept : v # w => seat[v] # seat[w]
         /\ walletIdx' = [w \in Wallets |-> IF w \in kept THEN EntryAt(w, seat[w]) ELSE None]
    /\ UNCHANGED <<userVars, walletRec, valVars, job, runVars>>

------------------------------------------------------------------------------
\* Validators

\* Faulty: a user that is registered already is registered again.
SaveValidatorAgain(u, w) ==
    /\ total \in Indices
    /\ valRec' = [valRec EXCEPT ![total] = [user |-> u, status |-> "active_ongoing"]]
    /\ Then("index_validator", total)

\* register_validator. Once the index has a user, and the record can be
\* loaded, the user keeps that index.
SaveValidator(u, w) ==
    IF valOf[u] # None /\ valRec[valOf[u]] # None
    THEN Done /\ UNCHANGED valRec
    ELSE /\ total \in Indices
         /\ valRec' = [valRec EXCEPT ![total] = [user |-> u, status |-> "active_ongoing"]]
         /\ Then("index_validator", total)

\* The assertions of register_validator.
Registrable(u, w) ==
    \/ valOf[u] # None /\ valRec[valOf[u]] # None
    \/ userIdx[u] # None /\ walletRec[w] # None /\ Owner(w) = u

\* Faulty: total_validators is counted twice.
IndexValidatorTwice ==
    LET i == job.on IN
    /\ job.next = "index_validator"
    /\ valIdx' = [valIdx EXCEPT ![i] = valRec[i]]
    /\ valOf' = [valOf EXCEPT ![valRec[i].user] = i]
    /\ total' = total + 2
    /\ Done
    /\ UNCHANGED <<userVars, walletVars, valRec, runVars, counts>>

IndexValidator ==
    LET i == job.on IN
    /\ job.next = "index_validator"
    /\ valIdx' = [valIdx EXCEPT ![i] = valRec[i]]
    /\ valOf' = [valOf EXCEPT ![valRec[i].user] = i]
    /\ total' = total + 1
    /\ Done
    /\ UNCHANGED <<userVars, walletVars, valRec, runVars, counts>>

Register(u, w) ==
    /\ ByHand /\ Registrable(u, w) /\ SaveValidator(u, w)
    /\ UNCHANGED <<userVars, walletVars, valIdx, valOf, total, runVars, edited>>

\* update_validator_status: the record, then the entry if there is one.
UpdateStatus(i, s) ==
    /\ ByHand /\ valRec[i] # None
    /\ valRec' = [valRec EXCEPT ![i].status = s]
    /\ Then("sync_validator", i)
    /\ UNCHANGED <<userVars, walletVars, valIdx, valOf, total, runVars, edited>>

SyncValidator ==
    LET i == job.on IN
    /\ job.next = "sync_validator"
    /\ valIdx' = IF valIdx[i] = None THEN valIdx ELSE [valIdx EXCEPT ![i] = valRec[i]]
    /\ Done
    /\ UNCHANGED <<userVars, walletVars, valRec, valOf, total, runVars, counts>>

\* get_active_validators: what the index says.
ActiveValidators ==
    {i \in Indices : valIdx[i] # None /\ valIdx[i].status = "active_ongoing"}

------------------------------------------------------------------------------
\* The bootstrap

Task(do, u, i) == [do |-> do, user |-> u, account |-> i]
\* Its work: first all users, then their wallets at accounts 0, 1, ..., then
\* the maps, then the validators.
WalletTasks(u) == [k \in DOMAIN Standard[u] |-> Task("wallet", u, k - 1)]
\* What each of the users has to have done, one user after the other.
Gather(profiles, each) ==
    LET upTo[k \in 0..Len(profiles)] ==
            IF k = 0 THEN <<>> ELSE upTo[k - 1] \o each[profiles[k]]
    IN upTo[Len(profiles)]
Work(profiles) ==
    [k \in 1..Len(profiles) |-> Task("user", profiles[k], 0)]
    \o Gather(profiles, [u \in Users |-> WalletTasks(u)])
    \o <<Task("maps", None, 0)>>
    \o Gather(profiles, [u \in Users |-> IF u \in Validators THEN <<Task("validator", u, 0)>>
                                                            ELSE <<>>])

Bootstrap ==
    /\ job = Idle /\ script = <<>> /\ runs < MaxRuns
    /\ runs' = runs + 1
    /\ \E profiles \in Profiles : script' = Work(profiles)
    /\ addressMap' = [w \in Wallets |-> None] /\ keyMap' = [a \in Addresses |-> None]
    /\ UNCHANGED <<userVars, walletVars, valVars, job, torn, tornVals, edited, calls, stops>>

Task1 == Head(script)
Doing(what) == job = Idle /\ script # <<>> /\ Task1.do = what
StandardWallet(u, i) == <<u, Standard[u][i + 1]>>

\* A user that is refused ends the run.
BootstrapUser ==
    /\ Doing("user")
    /\ \E u \in Users :
         /\ u = Task1.user
         /\ SaveUser(u)
         /\ script' = IF userIdx[u] = None /\ ~Creatable(u) THEN <<>> ELSE Tail(script)
    /\ UNCHANGED <<userIdx, walletVars, valVars, addressMap, keyMap, counts>>

\* A passphrase is the seed of every user's wallets but the ledger's.
SeedOf(u) == IF u \in Ledgers \/ Phrase = None THEN u ELSE Phrase

\* create_user_wallets takes no notice of a wallet too many; create_ledger_wallets
\* does, and one that is refused ends the run. The address is reported as derived, whatever the
\* record has.
BootstrapWallet ==
    /\ Doing("wallet")
    /\ \E w \in Wallets, a \in Addresses :
         /\ w = StandardWallet(Task1.user, Task1.account)
         /\ a = <<SeedOf(Task1.user), Task1.account>>
         /\ SaveWallet(w, a)
         /\ IF \/ Full(Task1.user) /\ Task1.user \in Ledgers
               \/ ~Full(Task1.user) /\ ~Accepted(w, a)
            THEN script' = <<>> /\ UNCHANGED addressMap
            ELSE script' = Tail(script) /\ addressMap' = [addressMap EXCEPT ![w] = a]
    /\ UNCHANGED <<userVars, walletIdx, valVars, keyMap, counts>>

\* Faulty: accounts are derived from 1 on.
SeatFromOne(w) == Cardinality({v \in IndexedOf(Owner(w)) : walletIdx[v].seat < walletIdx[w].seat})

\* Its place among the wallets of its owner.
SeatOf(w) == Cardinality({v \in IndexedOf(Owner(w)) : walletIdx[v].seat <= walletIdx[w].seat})
KeyFor(w) == LET account == walletIdx[w].at[2]
             IN IF account < SeatOf(w) THEN <<Owner(w), account>> ELSE None
Last(w, mine) == \A v \in mine : Owner(v) = Owner(w) /\ walletIdx[v].at = walletIdx[w].at
                               => walletIdx[v].seat <= walletIdx[w].seat
\* get_maps_for_user_identities: account k - 1, of the user's email, is derived
\* for the k-th wallet of a user in the index, whatever account that wallet was
\* derived at; the key is then looked up by the label of the wallet's own
\* account. Of the wallets with one address the last of some user counts.
MapKeys ==
    LET mine == {w \in Wallets : /\ Indexed(w) /\ userIdx[Owner(w)] # None
                                 /\ \E v \in Wallets : addressMap[v] = walletIdx[w].at}
        used == {walletIdx[w].at : w \in mine}
    IN
    /\ Doing("maps")
    /\ \E of \in [used -> mine] :
         /\ \A a \in used : walletIdx[of[a]].at = a /\ Last(of[a], mine)
         /\ keyMap' = [a \in Addresses |-> IF a \in used THEN KeyFor(of[a]) ELSE None]
    /\ script' = Tail(script)
    /\ UNCHANGED <<userVars, walletVars, valVars, job, addressMap, counts>>

\* bootstrap_register_validators: the wallet is the first one, as the directory
\* lists the records, that has the address; without one, and when the assertions
\* fail, the run ends.
Found(address) == {w \in Wallets : walletRec[w] # None /\ walletRec[w].at = address}
BootstrapValidator ==
    /\ Doing("validator")
    /\ \E u \in Users :
         LET found == Found(addressMap[StandardWallet(u, 0)]) IN
         /\ u = Task1.user
         /\ \/ \E w \in found : Registrable(u, w) /\ SaveValidator(u, w) /\ script' = Tail(script)
            \/ /\ found = {} \/ \E w \in found : ~Registrable(u, w)
               /\ script' = <<>>
               /\ UNCHANGED <<valRec, job>>
    /\ UNCHANGED <<userVars, walletVars, valIdx, valOf, total, addressMap, keyMap, counts>>

------------------------------------------------------------------------------
\* A stop and a restart: what was in memory is gone, the users are re-indexed.

Cut(steps) == IF job.next \in steps THEN {job.on} ELSE {}
WalletSteps    == {"index_wallet", "link_wallet", "drop_wallet", "unlink_wallet", "sync_wallet"}
ValidatorSteps == {"index_validator", "sync_validator"}

Restart ==
    /\ stops < MaxStops
    /\ stops' = stops + 1
    /\ torn' = torn \cup Cut(WalletSteps)
    /\ tornVals' = tornVals \cup Cut(ValidatorSteps)
    /\ userIdx' = userRec
    /\ Done
    /\ script' = <<>> /\ addressMap' = [w \in Wallets |-> None] /\ keyMap' = [a \in Addresses |-> None]
    /\ UNCHANGED <<userRec, walletVars, valVars, edited, calls, runs>>

UserStep   == IndexUser \/ DropUser \/ SyncUser
WalletStep == IndexWallet \/ LinkWallet \/ DropWallet \/ UnlinkWallet \/ SyncWallet
ValStep    == IndexValidator \/ SyncValidator
RunStep    == BootstrapUser \/ BootstrapWallet \/ MapKeys \/ BootstrapValidator

Call ==
    \/ \E u \in Users : CreateUser(u) \/ DeleteUser(u) \/ Reconcile(u)
    \/ \E w \in Wallets : \/ \E i \in Accounts : CreateWallet(w, <<Owner(w), i>>)
                          \/ DeleteWallet(w)
                          \/ \E b \in Balances : UpdateBalance(w, b)
    \/ RebuildWalletIndex
    \/ \E u \in Users, w \in Wallets : Register(u, w)
    \/ \E i \in Indices, s \in Statuses : UpdateStatus(i, s)

Next == UserStep \/ WalletStep \/ ValStep \/ RunStep \/ Call \/ Bootstrap \/ Restart

Spec == Init /\ [][Next]_vars

------------------------------------------------------------------------------
\* Properties

Resting == job = Idle

\* Records, entries and maps have their types.
TypeOK ==
    /\ userRec \in [Users -> UserRecord \cup {None}]
    /\ userIdx \in [Users -> UserRecord \cup {None}]
    /\ walletRec \in [Wallets -> WalletRecord \cup {None}]
    /\ walletIdx \in [Wallets -> WalletEntry \cup {None}]
    /\ valRec \in [Indices -> Validator \cup {None}]
    /\ valIdx \in [Indices -> Validator \cup {None}]
    /\ valOf \in [Users -> Indices \cup {None}]
    /\ total \in 0..Cardinality(Users)
    /\ addressMap \in [Wallets -> Addresses \cup {None}]
    /\ keyMap \in [Addresses -> Addresses \cup {None}]

\* Wherever the process stops, whatever an index names can be loaded: records
\* are written before their entries and removed after them.
IndexedHasRecord ==
    /\ \A u \in Users : userIdx[u] # None => userRec[u] # None
    /\ \A w \in Wallets : walletIdx[w] # None => walletRec[w] # None
    /\ \A i \in Indices : valIdx[i] # None => valRec[i] # None

\* Once an operation is over the index of users says what the records say, and
\* a restart makes up for an operation that was cut (UserIndexService.initialize).
UserIndexMirrors == Resting => userIdx = userRec

\* Readers of the indices find what is listed, and find every user.
IndexSound == IndexedHasRecord /\ UserIndexMirrors

\* A stop damages nothing but what the operation it cut was working on: any
\* other wallet is indexed as its record says, and linked to its owner exactly
\* while it exists.
DamageConfined ==
    Resting => \A w \in Wallets \ torn :
        /\ Indexed(w) <=> walletRec[w] # None
        /\ Indexed(w) => walletIdx[w] = EntryAt(w, walletIdx[w].seat)
        /\ userRec[Owner(w)] # None => (w \in userRec[Owner(w)].wallets <=> walletRec[w] # None)

\* Registrations that are cut, repeated or made for a user that is registered
\* already never give an index to two users, two indices to a user, or leave a
\* gap; the active set follows the records but for a cut update.
ValidatorsDense ==
    /\ \A i \in Indices : valIdx[i] # None <=> i < total
    /\ \A u \in Users : valOf[u] # None => valIdx[valOf[u]] # None /\ valIdx[valOf[u]].user = u
    /\ \A i, j \in Indices : valIdx[i] # None /\ valIdx[j] # None /\ i # j =>
            valIdx[i].user # valIdx[j].user
    /\ Resting => \A i \in ActiveValidators \ tornVals : valRec[i] = valIdx[i]

\* "comprehensive address and private key maps for all specified users"
\* (bootstrap_utils.py:68): a run that ends, the second one too, has the right
\* key for every address, if only runs of the bootstrap that were not cut came
\* before it. Otherwise a key may be missing, but none is another's.
KeysFit ==
    /\ \A a \in Addresses : keyMap[a] \in {None, a}
    /\ script = <<>> /\ torn = {} /\ ~edited =>
         \A w \in Wallets : addressMap[w] # None => keyMap[addressMap[w]] = addressMap[w]
==============================================================================
