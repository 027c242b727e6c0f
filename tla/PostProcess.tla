----------------------------- MODULE PostProcess -----------------------------
(***************************************************************************)
(* The ledger: lib_postprocess/postprocess_blocks.py and                   *)
(* postprocess_state.py with the wallet, nonce, user and transaction       *)
(* services they call.  One call of run_postprocess is a "run".  It looks  *)
(* for unprocessed blocks, moves the money of their transactions wallet by *)
(* wallet, advances nonces, refreshes user totals, marks the transactions  *)
(* confirmed and the block processed.  Nothing is undone when a run ends   *)
(* in the middle: it raises at the first movement it cannot make, or the   *)
(* process stops, and the next run begins the block again.                 *)
(*                                                                         *)
(* Every write is an action of its own, except these, taken as one: the    *)
(* record and the index entry of a user, of a transaction, of a block and  *)
(* of a nonce, each of which only one of the two is read here.  The record *)
(* and the index entry of a wallet balance are kept apart: movements read  *)
(* the record, user totals the index.                                      *)
(*                                                                         *)
(* Abstractions.                                                           *)
(*   - A block is its number on the chain of the first node, number 1 is   *)
(*     genesis.  The first node is the one chosen as source of truth: its  *)
(*     chain is as high as any other (if it is not, the first block is not *)
(*     found there and the run raises before it has changed anything).     *)
(*   - Amounts are whole numbers of the smallest unit that _QUANT keeps.   *)
(*   - An address is its wallet; NoWallet is an address that no node knows *)
(*     and the address that a transaction type does not have.              *)
(*   - The Ledger System user exists with its pool and burn wallets.       *)
(*   - Blocks are added between runs only: a run is one synchronous call.  *)
(***************************************************************************)
EXTENDS Integers, Sequences, FiniteSetsExt

CONSTANTS
    Wallets,    \* wallets of all nodes
    Pool,       \* the Ledger System's pool wallet
    Burn,       \* and its burn wallet
    NoWallet,   \* an address without a wallet, or no address
    Users,
    Owner,      \* the user of each wallet
    Txs,        \* transaction hashes
    Tx,         \* what each stands for: [type, from, to, amount, fee]
    Recorded,   \* those submitted to the first node, which has their record
    Bodies,     \* the transaction lists that blocks may carry
    Opening,    \* balances before the first run
    MaxBlocks,  \* bound: length of the chain, genesis included
    MaxRuns,    \* bound: number of runs
    Targets,    \* does a caller ever ask for one block by its hash?
    Crashes     \* may the process stop during a run?

TxTypes == {"mint", "burn", "transfer", "stake", "unstake", "reward", "slash", "pool"}

ASSUME LedgerAssumption ==
    /\ IsFiniteSet(Wallets)
    /\ {Pool, Burn} \subseteq Wallets
    /\ NoWallet \notin Wallets
    /\ Owner \in [Wallets -> Users]
    /\ Opening \in [Wallets -> Nat]

ASSUME PaymentAssumption ==
    /\ Tx \in [Txs -> [type: TxTypes, from: Wallets \cup {NoWallet},
                       to: Wallets \cup {NoWallet}, amount: Nat, fee: Nat]]
    /\ IsFiniteSet(Txs)
    /\ Recorded \subseteq Txs
    /\ Bodies \subseteq Seq(Txs)

ASSUME BoundAssumption ==
    /\ MaxBlocks \in Nat
    /\ MaxRuns \in Nat
    /\ Targets \in BOOLEAN
    /\ Crashes \in BOOLEAN

VARIABLES
    chain,      \* the bodies of the blocks from genesis to the tip
    processed,  \* blocks whose state_processed is set
    confirmed,  \* transactions whose record says "confirmed"
    balance,    \* balance in the wallet record
    listed,     \* balance in the wallet index
    nonce,      \* canonical nonce of a wallet
    total,      \* balance of a user
    applied,    \* history: how often all movements of a transaction were made
    runs,       \* history: runs begun
    pc,         \* what the run does next, "idle" if there is none
    todo,       \* local: the blocks it has found and not finished
    block,      \* local: the block it is at
    at,         \* local: position in the body of the block
    leg,        \* local: position in the movements of the transaction
    counts,     \* local: transactions of the block by sender
    touched,    \* local: users whose total is to be refreshed
    unknown     \* local: the block has a transaction of an unknown type

ledger == <<processed, confirmed, balance, listed, nonce, total, applied>>
locals == <<todo, block, at, leg, counts, touched, unknown>>
vars   == <<chain, ledger, runs, pc, locals>>

-----------------------------------------------------------------------------
(* What a transaction means.                                               *)

\* The types for which _apply_block_balance_changes has a branch, and those of
\* which it counts a transaction of the sender.
KnownTypes   == {"mint", "burn", "transfer", "stake", "unstake", "reward", "slash"}
CountedTypes == {"transfer", "burn", "slash", "stake"}

Known(t) == Tx[t].type \in KnownTypes

Leg(w, d) == [wallet |-> w, change |-> d]

\* Faulty: a fee of one unit is lost.
LargeFeeLeg(t) == IF Tx[t].fee > 1 THEN <<Leg(Pool, Tx[t].fee)>> ELSE <<>>

\* The fee goes to the pool if there is one.
FeeLeg(t) == IF Tx[t].fee > 0 THEN <<Leg(Pool, Tx[t].fee)>> ELSE <<>>

\* Faulty: credits before debits.
LegsCreditFirst(t) ==
    LET tx   == Tx[t]
        cost == tx.amount + tx.fee
    IN  CASE tx.type = "mint"     -> <<Leg(tx.to, tx.amount)>>
          [] tx.type = "transfer" -> <<Leg(tx.to, tx.amount), Leg(tx.from, -cost)>> \o FeeLeg(t)
          [] tx.type = "burn"     -> <<Leg(Burn, tx.amount), Leg(tx.from, -cost)>> \o FeeLeg(t)
          [] tx.type \in {"reward", "unstake"} -> <<Leg(tx.to, tx.amount), Leg(Pool, -tx.amount)>>
          [] OTHER                -> <<Leg(Pool, cost), Leg(tx.from, -cost)>>

\* The movements of a transaction in the order in which they are made.
Legs(t) ==
    LET tx   == Tx[t]
        cost == tx.amount + tx.fee
    IN  CASE tx.type = "mint"     -> <<Leg(tx.to, tx.amount)>>
          [] tx.type = "reward"   -> <<Leg(tx.to, tx.amount), Leg(Pool, -tx.amount)>>
          [] tx.type = "transfer" -> <<Leg(tx.from, -cost), Leg(tx.to, tx.amount)>> \o FeeLeg(t)
          [] tx.type = "burn"     -> <<Leg(tx.from, -cost), Leg(Burn, tx.amount)>> \o FeeLeg(t)
          [] tx.type = "unstake"  -> <<Leg(Pool, -tx.amount), Leg(tx.to, tx.amount)>>
          [] OTHER                -> <<Leg(tx.from, -cost), Leg(Pool, cost)>>  \* stake, slash

Wallet(u) == {w \in Wallets : Owner[w] = u}

NoCounts == [w \in Wallets |-> 0]

\* The transaction and the movement a run is at.
Current    == chain[block][at]
Movement   == Legs(Current)[leg]
IsLastLeg  == leg = Len(Legs(Current))
MoreTxs    == at <= Len(chain[block])

\* _apply_debit raises if the wallet would be overdrawn, and both directions if
\* the address or its wallet is not found.
CanMove(m) ==
    /\ m.wallet \in Wallets
    /\ balance[m.wallet] + m.change >= 0

-----------------------------------------------------------------------------
Init ==
    /\ chain = << <<>> >>
    /\ processed = {}
    /\ confirmed = {}
    /\ balance = Opening
    /\ listed = Opening
    /\ nonce = [w \in Wallets |-> 0]
    /\ total = [u \in Users |-> SumFunctionOnSet(Opening, Wallet(u))]
    /\ applied = [t \in Txs |-> 0]
    /\ runs = 0
    /\ pc = "idle"
    /\ todo = {}
    /\ block = 1 /\ at = 1 /\ leg = 1
    /\ counts = NoCounts
    /\ touched = {}
    /\ unknown = FALSE

\* The run is over, its locals are gone.
Forget ==
    /\ pc' = "idle"
    /\ todo' = {}
    /\ block' = 1 /\ at' = 1 /\ leg' = 1
    /\ counts' = NoCounts
    /\ touched' = {}
    /\ unknown' = FALSE

\* Consensus extends the chain of the first node.
AddBlock(body) ==
    /\ pc = "idle"
    /\ Len(chain) < MaxBlocks
    /\ chain' = Append(chain, body)
    /\ UNCHANGED <<ledger, runs, pc, locals>>

StartWith(blocks) ==
    /\ pc = "idle"
    /\ runs < MaxRuns
    /\ runs' = runs + 1
    /\ pc' = "block"
    /\ todo' = blocks
    /\ UNCHANGED <<chain, ledger, block, at, leg, counts, touched, unknown>>

\* Faulty: the walk goes no further than the tip.
FoundTip == {Len(chain)} \ processed

\* The walk from the tip towards genesis stops at the first block that is
\* processed already.
Found == {b \in DOMAIN chain : b .. Len(chain) \cap processed = {}}

RunLatest == StartWith(Found)

\* A caller asks for one block.
RunTarget(b) ==
    /\ Targets
    /\ b \notin processed
    /\ StartWith({b})

\* update_block_state begins the oldest block that was found.
BeginBlock ==
    /\ pc = "block"
    /\ \E b \in todo : (\A c \in todo : b <= c) /\ block' = b
    /\ pc' = "tx"
    /\ at' = 1
    /\ leg' = 1
    /\ counts' = NoCounts
    /\ touched' = {}
    /\ unknown' = FALSE
    /\ UNCHANGED <<chain, ledger, runs, todo>>

Return ==
    /\ pc = "block"
    /\ todo = {}
    /\ Forget
    /\ UNCHANGED <<chain, ledger, runs>>

\* Faulty: the run returns instead of going on with the next transaction.
SkipAndReturn ==
    /\ pc = "tx" /\ MoreTxs
    /\ Current \in confirmed
    /\ Forget
    /\ UNCHANGED <<chain, ledger, runs>>

SkipConfirmed ==
    /\ pc = "tx" /\ MoreTxs
    /\ Current \in confirmed
    /\ at' = at + 1
    /\ UNCHANGED <<chain, ledger, runs, pc, todo, block, leg, counts, touched, unknown>>

\* An unknown type is only noted down.
NoteUnknown ==
    /\ pc = "tx" /\ MoreTxs
    /\ Current \notin confirmed
    /\ ~Known(Current)
    /\ unknown' = TRUE
    /\ at' = at + 1
    /\ UNCHANGED <<chain, ledger, runs, pc, todo, block, leg, counts, touched>>

\* Faulty: whether it is confirmed already is not asked.
BeginTxAgain ==
    /\ pc = "tx" /\ MoreTxs
    /\ Known(Current)
    /\ leg' = 1
    /\ pc' = "leg"
    /\ UNCHANGED <<chain, ledger, runs, todo, block, at, counts, touched, unknown>>

BeginTx ==
    /\ pc = "tx" /\ MoreTxs
    /\ Current \notin confirmed
    /\ Known(Current)
    /\ leg' = 1
    /\ pc' = "leg"
    /\ UNCHANGED <<chain, ledger, runs, todo, block, at, counts, touched, unknown>>

\* The wallet record of one movement.
Move ==
    /\ pc = "leg"
    /\ CanMove(Movement)
    /\ balance' = [balance EXCEPT ![Movement.wallet] = @ + Movement.change]
    /\ applied' = IF IsLastLeg THEN [applied EXCEPT ![Current] = @ + 1] ELSE applied
    /\ pc' = "index"
    /\ UNCHANGED <<chain, processed, confirmed, listed, nonce, total, runs, locals>>

\* Faulty: a transaction that cannot be applied is left out.
RefuseAndGoOn ==
    /\ pc = "leg"
    /\ ~CanMove(Movement)
    /\ at' = at + 1
    /\ pc' = "tx"
    /\ UNCHANGED <<chain, ledger, runs, todo, block, leg, counts, touched, unknown>>

\* What was moved before stays moved.
Refuse ==
    /\ pc = "leg"
    /\ ~CanMove(Movement)
    /\ Forget
    /\ UNCHANGED <<chain, ledger, runs>>

\* The wallet index of the movement, and what the run remembers of it.
Index ==
    /\ pc = "index"
    /\ listed' = [listed EXCEPT ![Movement.wallet] = balance[Movement.wallet]]
    /\ touched' = touched \cup {Owner[Movement.wallet]}
    /\ counts' = IF leg = 1 /\ Tx[Current].type \in CountedTypes
                 THEN [counts EXCEPT ![Movement.wallet] = @ + 1]
                 ELSE counts
    /\ IF IsLastLeg
       THEN pc' = "tx" /\ at' = at + 1 /\ leg' = 1
       ELSE pc' = "leg" /\ at' = at /\ leg' = leg + 1
    /\ UNCHANGED <<chain, processed, confirmed, balance, nonce, total, applied, runs,
                   todo, block, unknown>>

AllTaken ==
    /\ pc = "tx" /\ ~MoreTxs
    /\ pc' = "nonce"
    /\ UNCHANGED <<chain, ledger, runs, locals>>

\* increment_nonce, for one sender after the other.
AdvanceNonce(w) ==
    /\ pc = "nonce"
    /\ counts[w] > 0
    /\ nonce' = [nonce EXCEPT ![w] = @ + counts[w]]
    /\ counts' = [counts EXCEPT ![w] = 0]
    /\ UNCHANGED <<chain, processed, confirmed, balance, listed, total, applied, runs,
                   pc, todo, block, at, leg, touched, unknown>>

NoncesDone ==
    /\ pc = "nonce"
    /\ counts = NoCounts
    /\ pc' = "total"
    /\ UNCHANGED <<chain, ledger, runs, locals>>

\* reconcile_user_balance, for one user after the other.
Reconcile(u) ==
    /\ pc = "total"
    /\ u \in touched
    /\ total' = [total EXCEPT ![u] = SumFunctionOnSet(listed, Wallet(u))]
    /\ touched' = touched \ {u}
    /\ UNCHANGED <<chain, processed, confirmed, balance, listed, nonce, applied, runs,
                   pc, todo, block, at, leg, counts, unknown>>

\* Faulty: the confirmations begin after the last transaction.
TotalsDoneAtEnd ==
    /\ pc = "total"
    /\ touched = {}
    /\ pc' = "confirm"
    /\ UNCHANGED <<chain, ledger, runs, locals>>

TotalsDone ==
    /\ pc = "total"
    /\ touched = {}
    /\ pc' = "confirm"
    /\ at' = 1
    /\ UNCHANGED <<chain, ledger, runs, todo, block, leg, counts, touched, unknown>>

\* _update_tx_records asks the first node, which may have no record.
Confirm ==
    /\ pc = "confirm" /\ MoreTxs
    /\ confirmed' = confirmed \cup ({Current} \cap Recorded)
    /\ at' = at + 1
    /\ UNCHANGED <<chain, processed, balance, listed, nonce, total, applied, runs, pc,
                   todo, block, leg, counts, touched, unknown>>

\* The block is done; process_block raises if a type was unknown.
Mark ==
    /\ pc = "confirm" /\ ~MoreTxs
    /\ processed' = processed \cup {block}
    /\ \/ /\ ~unknown
          /\ pc' = "block"
          /\ todo' = todo \ {block}
          /\ UNCHANGED <<block, at, leg, counts, touched, unknown>>
       \/ /\ unknown
          /\ Forget
    /\ UNCHANGED <<chain, confirmed, balance, listed, nonce, total, applied, runs>>

\* The process stops.
Crash ==
    /\ Crashes
    /\ pc # "idle"
    /\ Forget
    /\ UNCHANGED <<chain, ledger, runs>>

TxStep     == SkipConfirmed \/ NoteUnknown \/ BeginTx \/ Move \/ Refuse \/ Index \/ AllTaken
SettleStep == \/ NoncesDone \/ TotalsDone \/ Confirm \/ Mark
              \/ \E w \in Wallets : AdvanceNonce(w)
              \/ \E u \in Users : Reconcile(u)
RunStep    == BeginBlock \/ TxStep \/ SettleStep \/ Return

Next ==
    \/ RunStep
    \/ RunLatest
    \/ \E b \in DOMAIN chain : RunTarget(b)
    \/ \E body \in Bodies : AddBlock(body)
    \/ Crash

Spec == Init /\ [][Next]_vars

\* A run is one synchronous call: once begun it goes on.  Nothing obliges a
\* caller to begin one.
SteadySpec == Spec /\ WF_vars(RunStep)
-----------------------------------------------------------------------------
(* Reference: what a transaction does to a wallet all in all, as the tests *)
(* compute the expected balances (tests/libtest_data.py:107-143).          *)

Is(t, types) == Tx[t].type \in types
When(cond, n) == IF cond THEN n ELSE 0

Effect(t, w) ==
    LET amount == Tx[t].amount
        cost   == amount + Tx[t].fee
    IN    When(w = Tx[t].to /\ Is(t, {"mint", "reward", "transfer", "unstake"}), amount)
        - When(w = Tx[t].from /\ Is(t, {"transfer", "slash", "burn", "stake"}), cost)
        + When(w = Burn /\ Is(t, {"burn"}), amount)
        + When(w = Pool /\ Is(t, {"transfer", "burn"}), Tx[t].fee)
        + When(w = Pool /\ Is(t, {"slash", "stake"}), cost)
        - When(w = Pool /\ Is(t, {"reward", "unstake"}), amount)

Expected(w) == Opening[w] + SumFunctionOnSet([t \in Txs |-> Effect(t, w)], confirmed)

SentBy(w) == {t \in confirmed : Tx[t].from = w /\ Is(t, CountedTypes)}

Minted == SumFunction([t \in {u \in Txs : Is(u, {"mint"})} |-> Tx[t].amount * applied[t]])

-----------------------------------------------------------------------------
(* Properties.                                                             *)

\* Every variable keeps its type.  The values of user totals, sums over wallets,
\* are left to LedgerAsExpected.
TypeOK ==
    /\ chain \in Seq(Seq(Txs))
    /\ processed \subseteq DOMAIN chain
    /\ confirmed \subseteq Recorded
    /\ balance \in [Wallets -> Nat]
    /\ listed \in [Wallets -> Nat]
    /\ nonce \in [Wallets -> Nat]
    /\ DOMAIN total = Users
    /\ applied \in [Txs -> Nat]
    /\ runs \in Nat
    /\ pc \in {"idle", "block", "tx", "leg", "index", "nonce", "total", "confirm"}
    /\ todo \subseteq DOMAIN chain
    /\ block \in Nat \ {0} /\ at \in Nat \ {0} /\ leg \in Nat \ {0}
    /\ counts \in [Wallets -> Nat]
    /\ touched \subseteq Users
    /\ unknown \in BOOLEAN

\* The marks never run ahead of the money: a block that is marked processed, and
\* a transaction that is marked confirmed, had all its movements made at least
\* once, wherever runs before were cut off; the types without a branch excepted.
MarksFollowMoney ==
    /\ \A t \in confirmed : Known(t) => applied[t] > 0
    /\ \A b \in processed : \A i \in DOMAIN chain[b] :
           Known(chain[b][i]) => applied[chain[b][i]] > 0

\* A confirmed transaction moves no money again, in a later block or a repeated
\* run, and neither its confirmation nor a block's mark is ever taken back.
SettledIsFinal ==
    [][/\ confirmed \subseteq confirmed'
       /\ processed \subseteq processed'
       /\ \A t \in confirmed : applied'[t] = applied[t]]_vars

\* Blocks are settled from genesis on without a gap, so a block that cannot be
\* settled holds up every later one.
OldestFirst == \A b \in processed : 1 .. b \subseteq processed

\* A run over the chain has before it every block that is not processed yet
\* (postprocess_blocks.py:116), unless one was processed out of order.
FindsAll ==
    [][RunLatest => DOMAIN chain \ processed \subseteq todo']_vars

\* Only minting makes money, whatever is refused, repeated or cut off.
NoMoneyFromNothing ==
    SumFunction(balance) <= SumFunction(Opening) + Minted

\* The transactions of a processed block are confirmed, if the first node has
\* their records.
ProcessedIsConfirmed ==
    \A b \in processed : \A i \in DOMAIN chain[b] : chain[b][i] \in confirmed

\* What is marked as processed is a confirmed beginning of the chain.
ConfirmedPrefix == OldestFirst /\ ProcessedIsConfirmed

\* Between runs, record and index of every wallet hold what the tests expect of
\* the confirmed transactions, a wallet's nonce is the number of those it sent,
\* and a user's total is the sum of its wallets.
LedgerAsExpected ==
    pc = "idle" =>
        /\ \A w \in Wallets : balance[w] = Expected(w) /\ listed[w] = Expected(w)
        /\ \A w \in Wallets : nonce[w] = Cardinality(SentBy(w))
        /\ \A u \in Users : total[u] = SumFunctionOnSet(balance, Wallet(u))

\* A block that a run has found is processed.
FoundIsProcessed ==
    \A b \in 1 .. MaxBlocks : b \in todo ~> b \in processed

=============================================================================
