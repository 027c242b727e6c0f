------------------------------ MODULE Consensus ------------------------------
(***************************************************************************)
(* The slot loop of one BachiCoin node: lib_consensus/consensus.py with    *)
(* the proposer, attestor, finalizer, validator and blockchain services it *)
(* calls.  The loop is a Python generator: one call of run_consensus is a  *)
(* "run", and between two yields the caller may do anything else.          *)
(*                                                                         *)
(* Every write the loop makes to storage is an action of its own, because  *)
(* a run may die between any two of them (process stop, AssertionError,    *)
(* TypeError, ValueError) and a later run starts from what was stored.     *)
(*                                                                         *)
(* Abstractions.                                                           *)
(*   - A block is identified with its slot.  The code identifies it with a *)
(*     hash over parent, height, time and transactions; blocks of one node *)
(*     have different parents, so they have different hashes.  A genesis   *)
(*     block that is created again after a crash is the same block 0 here. *)
(*   - A validator always has the minimum deposit as effective balance (no *)
(*     code changes it), so stake is counted in validators.                *)
(*   - A record and its index entry that are written back to back and      *)
(*     read only through the index (proposals, attestations) are one write.*)
(*     Blocks keep the two writes apart: the chain tip refers to them.     *)
(*   - A validator's record and its index entry are one write; a validator *)
(*     that does not validate is "active_exiting".                         *)
(*   - A transaction is a name; its gas is one unit.                       *)
(*   - One run at a time: nothing in the code starts a second generator on *)
(*     the same node.  The run never awaits, so validators and the mempool *)
(*     change only between runs or while the generator is suspended.       *)
(***************************************************************************)
EXTENDS Integers, FiniteSets, DutyRecords

CONSTANTS
    SlotsPerEpoch,  \* SLOTS_PER_EPOCH, 32 in the code
    MaxSlot,        \* bound: no run begins a slot after this one
    Validators,     \* bound: the indices that are ever registered, 0 .. n - 1
    Bootstrapped,   \* the validators registered before the first run
    Churners,       \* those whose status changes, or who register, later
    Txs,            \* the transactions that clients submit
    InvalidTxs,     \* admitted by the mempool, refused by TxValidation
    MaxBlockTxs     \* transactions that fit under the block gas limit

ASSUME EpochAssumption ==
    /\ SlotsPerEpoch \in Nat \ {0}
    /\ MaxSlot \in Nat
    /\ (MaxSlot + 1) % SlotsPerEpoch = 0

ASSUME ValidatorAssumption ==
    /\ Validators \subseteq Nat
    /\ IsFiniteSet(Validators)
    /\ Bootstrapped \subseteq Validators

ASSUME TxAssumption ==
    /\ InvalidTxs \subseteq Txs
    /\ MaxBlockTxs \in Nat

NoSlot   == -1      \* no chain tip, no parent, no run in progress
NoEpoch  == -1      \* justified_epoch and finalized_epoch of a new chain
NoDuty   == -2      \* attestation record does not exist
Awaiting == -1      \* AttestorStatus.AWAITING_DUTY; s >= 0 is INCLUDED_SUCCESS in s

Slots      == 0 .. MaxSlot
EpochOf(s) == s \div SlotsPerEpoch
Epochs     == 0 .. EpochOf(MaxSlot)
Duties     == Slots \X Validators   \* attestation_id "slot-validator"

IsLastOfEpoch(s) == (s + 1) % SlotsPerEpoch = 0

BlockStatus == {"proposed", "justified", "finalized"}
Block == [stored    : {"no", "record", "indexed"},
          parent    : Slots \cup {NoSlot},
          txs       : SUBSET Txs,
          atts      : SUBSET Duties,
          status    : BlockStatus,
          justified : BOOLEAN,
          finalized : BOOLEAN]

NoBlock == [stored |-> "no", parent |-> NoSlot, txs |-> {}, atts |-> {},
            status |-> "proposed", justified |-> FALSE, finalized |-> FALSE]

CheckpointStatus == {"none", "justified", "finalized"}
NoCheckpoint == [status |-> "none", root |-> NoSlot]

VARIABLES
    tip,            \* chain_state.chain_tip_hash
    blocks,         \* block records and the block index
    proposals,      \* proposal duties, by slot
    attestations,   \* attestation duties
    checkpoints,    \* checkpoint records, by epoch
    justifiedEpoch, \* finalizers.metadata.justified_epoch
    finalizedEpoch, \* finalizers.metadata.finalized_epoch
    validators,     \* status of every validator in the index
    pool,           \* the mempool queue

    pc,             \* the next step of the run, "down" between runs
    slot,           \* local of the run: the slot in work
    active,         \* local: active_validators, read once at the start
    candidate,      \* local: transactions of the candidate block
    winner,         \* local: winning_root of the tally
    todo,           \* local: what the loop in progress has still to write
    outcome         \* what the last iteration yielded or raised

chainVars    == <<tip, blocks>>
dutyVars     == <<proposals, attestations>>
finalityVars == <<checkpoints, justifiedEpoch, finalizedEpoch>>
nodeVars     == <<validators, pool>>
runVars      == <<pc, slot, active, candidate, winner, todo, outcome>>
vars == <<chainVars, dutyVars, finalityVars, nodeVars, runVars>>

\* "down": no run; "yielded": the generator is suspended, the caller runs; any
\* other stage names what the run does next.
Stages == {"down", "save_block", "index_block", "set_tip", "load_validators",
           "next_slot", "yielded", "assign_duties", "assign_proposal", "build", "drain",
           "assemble", "commit_proposal", "attest", "tally", "checkpoint",
           "mark_justified", "link", "mark_finalized", "update_finality",
           "flag_justified", "flag_finalized"}

Outcomes == {"none", "block", "skipped", "no_validators", "already_assigned",
             "no_candidate", "gas_limit", "no_supermajority", "ended", "crashed"}

-----------------------------------------------------------------------------
(* What the services compute from the stored state.                        *)

Registered == {v \in Validators : validators[v] # "none"}
ActiveNow  == {v \in Validators : validators[v] = "active_ongoing"}

\* active_validators[slot % len(active_validators)]; the list is sorted.
Proposer(s, V) ==
    CHOOSE v \in V : Cardinality({u \in V : u < v}) = s % Cardinality(V)

EpochSlots(e)  == {s \in Slots : EpochOf(s) = e}
EpochDuties(e) == {d \in Duties : EpochOf(d[1]) = e /\ attestations[d] # NoDuty}

\* Faulty: the status filter of get_attestations_for_epoch is forgotten.
WaitingOrVoted(e) == EpochDuties(e)

Waiting(e) == {d \in EpochDuties(e) : attestations[d] = Awaiting}

\* Faulty: the two loops of assign_attestation_duties_for_epoch are swapped.
BeforeByValidator(d, e) == d[2] < e[2] \/ (d[2] = e[2] /\ d[1] < e[1])

\* The order in which the duties of an epoch are assigned and listed.
Before(d, e) == d[1] < e[1] \/ (d[1] = e[1] /\ d[2] < e[2])
IsFirst(d, D) == d \in D /\ \A e \in D \ {d} : Before(d, e)

FirstN(D, n) == {d \in D : Cardinality({e \in D : Before(e, d)}) < n}

\* tally_attestations: the votes for block b among the duties of epoch e, and
\* Counter.most_common(1), which prefers the root it met first.
VotesFor(e, b) == {d \in EpochDuties(e) : attestations[d] = b}
Roots(e) == {b \in Slots : VotesFor(e, b) # {}}
Votes(e, b) == Cardinality(VotesFor(e, b))
MetBefore(e, b, c) ==
    \E d \in VotesFor(e, b) : \A f \in VotesFor(e, c) : Before(d, f)
Wins(e, b) ==
    /\ b \in Roots(e)
    /\ \A c \in Roots(e) \ {b} :
         Votes(e, b) > Votes(e, c) \/ (Votes(e, b) = Votes(e, c) /\ MetBefore(e, b, c))

\* Two thirds of the stake of all registered validators, exited ones included.
Supermajority(e, b) == Votes(e, b) * 3 >= Cardinality(Registered) * 2

\* Faulty: the slot range of an epoch ends one slot late.
IndexedBlocksAndNext(e) ==
    {s \in Slots : blocks[s].stored = "indexed" /\ (EpochOf(s) = e \/ EpochOf(s - 1) = e)}

\* get_blocks_by_slot_range over the slots of an epoch.
IndexedBlocks(e) == {s \in EpochSlots(e) : blocks[s].stored = "indexed"}

\* Faulty: any earlier justified epoch will do; the epoch itself is meant.
ExtendsAnyJustified(e) == justifiedEpoch >= 0
ExtendsItself(e) == justifiedEpoch >= 0 /\ justifiedEpoch = e

\* The previous justified epoch is the parent of the epoch in work.
ExtendsJustified(e) == justifiedEpoch >= 0 /\ justifiedEpoch = e - 1

-----------------------------------------------------------------------------
Init ==
    /\ tip = NoSlot
    /\ blocks = [s \in Slots |-> NoBlock]
    /\ proposals = [s \in Slots |-> "none"]
    /\ attestations = [d \in Duties |-> NoDuty]
    /\ checkpoints = [e \in Epochs |-> NoCheckpoint]
    /\ justifiedEpoch = NoEpoch
    /\ finalizedEpoch = NoEpoch
    /\ validators = [v \in Validators |->
                        IF v \in Bootstrapped THEN "active_ongoing" ELSE "none"]
    /\ pool = {}
    /\ pc = "down"
    /\ slot = NoSlot
    /\ active = {}
    /\ candidate = {}
    /\ winner = NoSlot
    /\ todo = {}
    /\ outcome = "none"

\* The run is over: the generator returned, raised, or the process stopped.
\* Only its locals are lost.
Finish(why) ==
    /\ pc' = "down"
    /\ slot' = NoSlot
    /\ active' = {}
    /\ candidate' = {}
    /\ winner' = NoSlot
    /\ todo' = {}
    /\ outcome' = why

Stored == <<chainVars, dutyVars, finalityVars, nodeVars>>

\* The generator yields what the iteration did and waits for its caller.
Yield(what) ==
    /\ pc' = "yielded"
    /\ slot' = NoSlot
    /\ candidate' = {}
    /\ todo' = {}
    /\ outcome' = what
    /\ UNCHANGED <<active, winner>>

GoTo(stage) ==
    /\ pc' = stage
    /\ UNCHANGED <<slot, active, candidate, winner, outcome>>

\* One turn of the loop in progress: x is written, the rest is still to do.
Continue(x) ==
    /\ todo' = todo \ {x}
    /\ UNCHANGED <<pc, slot, active, candidate, winner, outcome>>

-----------------------------------------------------------------------------
(* run_consensus up to the first slot.                                     *)

\* A caller iterates run_consensus: an empty chain gets its genesis block.
Start ==
    /\ pc = "down"
    /\ outcome' = "none"
    /\ IF tip = NoSlot
         THEN pc' = "save_block" /\ slot' = 0
         ELSE pc' = "load_validators" /\ UNCHANGED slot
    /\ UNCHANGED <<active, candidate, winner, todo, Stored>>

\* assert len(active_validators) > 0.  The list is read once for the whole run.
LoadValidators ==
    /\ pc = "load_validators"
    /\ IF ActiveNow = {}
         THEN Finish("no_validators")
         ELSE /\ pc' = "next_slot"
              /\ active' = ActiveNow
              /\ UNCHANGED <<slot, candidate, winner, todo, outcome>>
    /\ UNCHANGED Stored

\* slots_to_run is exhausted, or the caller drops the generator.
\* MaxSlot: a run that would begin a slot beyond the bound ends instead.
RunEnds ==
    /\ pc = "yielded" \/ (pc = "next_slot" /\ tip = MaxSlot)
    /\ Finish("ended")
    /\ UNCHANGED Stored

-----------------------------------------------------------------------------
(* One iteration: duties, proposal, candidate block.                       *)

\* Bounded by MaxSlot.  The slot after the tip, also when that slot was
\* skipped before.  Duties are assigned to the validators active now, when no
\* duty of the epoch exists.
BeginSlot ==
    /\ pc \in {"next_slot", "yielded"}
    /\ tip < MaxSlot
    /\ LET s == tip + 1  e == EpochOf(s) IN
         \/ /\ EpochDuties(e) # {}
            /\ slot' = s
            /\ pc' = "assign_proposal"
            /\ UNCHANGED <<active, candidate, winner, todo, outcome>>
         \/ /\ EpochDuties(e) = {} /\ ActiveNow # {}
            /\ slot' = s
            /\ pc' = "assign_duties"
            /\ todo' = EpochSlots(e) \X ActiveNow
            /\ UNCHANGED <<active, candidate, winner, outcome>>
         \/ /\ EpochDuties(e) = {} /\ ActiveNow = {}
            /\ Finish("no_validators")
    /\ UNCHANGED Stored

AssignDuty ==
    /\ pc = "assign_duties"
    /\ \/ /\ todo = {}
          /\ GoTo("assign_proposal")
          /\ UNCHANGED <<todo, attestations>>
       \/ \E d \in todo :
            /\ IsFirst(d, todo)
            /\ AttestationCreation(NewAttestation(d[1], EpochOf(d[1]), d[2]))
            /\ attestations' = [attestations EXCEPT ![d] = Awaiting]
            /\ Continue(d)
    /\ UNCHANGED <<chainVars, proposals, finalityVars, nodeVars>>

\* Faulty: a slot may be assigned again.
ReassignProposal ==
    /\ pc = "assign_proposal"
    /\ proposals' = [proposals EXCEPT ![slot] = "awaiting_duty"]
    /\ GoTo("build")
    /\ UNCHANGED <<chainVars, attestations, finalityVars, nodeVars, todo>>

\* assert str(slot) not in duties_by_slot
AssignProposal ==
    /\ pc = "assign_proposal"
    /\ IF proposals[slot] = "none"
         THEN /\ ProposalCreation(NewProposal(slot, EpochOf(slot), Proposer(slot, active)))
              /\ proposals' = [proposals EXCEPT ![slot] = "awaiting_duty"]
              /\ GoTo("build") /\ UNCHANGED todo
         ELSE Finish("already_assigned") /\ UNCHANGED proposals
    /\ UNCHANGED <<chainVars, attestations, finalityVars, nodeVars>>

\* The proposal of the slot is given up and the iteration yields "skipped".
Skip ==
    /\ MayMiss
    /\ proposals' = [proposals EXCEPT ![slot] = "missed"]
    /\ Yield("skipped")

\* validate_candidate_block: the proposer is still active, every transaction of
\* the pool is valid.
CandidateIsValid ==
    /\ validators[Proposer(slot, active)] = "active_ongoing"
    /\ pool \cap InvalidTxs = {}

\* Without a candidate the slot is skipped, unless attestations wait: then
\* candidate_block["body"] is evaluated on None and the run dies.
Build ==
    /\ pc = "build"
    /\ \/ /\ CandidateIsValid
          /\ pc' = "drain"
          /\ candidate' = pool
          /\ todo' = pool
          /\ UNCHANGED <<slot, active, winner, outcome, proposals>>
       \/ /\ ~CandidateIsValid /\ Waiting(EpochOf(slot)) = {}
          /\ Skip
       \/ /\ ~CandidateIsValid /\ Waiting(EpochOf(slot)) # {}
          /\ Finish("no_candidate")
          /\ UNCHANGED proposals
    /\ UNCHANGED <<chainVars, attestations, finalityVars, nodeVars>>

\* The pool is emptied before the block exists anywhere else.
Drain ==
    /\ pc = "drain"
    /\ \/ /\ todo = {}
          /\ GoTo("assemble")
          /\ UNCHANGED <<todo, pool>>
       \/ \E t \in todo :
            /\ pool' = pool \ {t}
            /\ Continue(t)
    /\ UNCHANGED <<chainVars, dutyVars, finalityVars, validators>>

\* Faulty: a block that fills the gas limit exactly is refused.
AssembleBelowLimit ==
    /\ pc = "assemble"
    /\ IF Cardinality(candidate) >= MaxBlockTxs
         THEN Finish("gas_limit")
         ELSE GoTo("save_block") /\ UNCHANGED todo
    /\ UNCHANGED <<chainVars, dutyVars, finalityVars, nodeVars>>

\* A block without transactions and attestations is not created; one over the
\* gas limit fails assert_valid_creation_data.
Assemble ==
    /\ pc = "assemble"
    /\ \/ /\ candidate = {} /\ Waiting(EpochOf(slot)) = {}
          /\ Skip
       \/ /\ Cardinality(candidate) > MaxBlockTxs
          /\ Finish("gas_limit")
          /\ UNCHANGED proposals
       \/ /\ candidate # {} \/ Waiting(EpochOf(slot)) # {}
          /\ Cardinality(candidate) <= MaxBlockTxs
          /\ GoTo("save_block")
          /\ UNCHANGED <<todo, proposals>>
    /\ UNCHANGED <<chainVars, attestations, finalityVars, nodeVars>>

-----------------------------------------------------------------------------
(* Committing a block: record, index entry, chain tip, proposal, votes.    *)

SaveBlock ==
    /\ pc = "save_block"
    /\ blocks' = [blocks EXCEPT ![slot] =
         IF slot = 0
           THEN [NoBlock EXCEPT !.stored = "record", !.status = "finalized"]
           ELSE [NoBlock EXCEPT !.stored = "record", !.parent = tip, !.txs = candidate,
                   !.atts = FirstN(Waiting(EpochOf(slot)), Cardinality(active))]]
    /\ GoTo("index_block")
    /\ UNCHANGED <<tip, dutyVars, finalityVars, nodeVars, todo>>

\* Faulty: the block gets no index entry.
SkipIndex ==
    /\ pc = "index_block"
    /\ GoTo("set_tip")
    /\ UNCHANGED <<chainVars, dutyVars, finalityVars, nodeVars, todo>>

IndexBlock ==
    /\ pc = "index_block"
    /\ blocks' = [blocks EXCEPT ![slot].stored = "indexed"]
    /\ GoTo("set_tip")
    /\ UNCHANGED <<tip, dutyVars, finalityVars, nodeVars, todo>>

SetTip ==
    /\ pc = "set_tip"
    /\ tip' = slot
    /\ IF slot = 0
         THEN pc' = "load_validators" /\ slot' = NoSlot
         ELSE pc' = "commit_proposal" /\ UNCHANGED slot
    /\ candidate' = {}
    /\ UNCHANGED <<blocks, dutyVars, finalityVars, nodeVars, active, winner, todo, outcome>>

\* Faulty: all waiting attestations get the block as their target.
CommitAndVoteForAll ==
    /\ pc = "commit_proposal"
    /\ proposals' = [proposals EXCEPT ![slot] = "success"]
    /\ todo' = Waiting(EpochOf(slot))
    /\ GoTo("attest")
    /\ UNCHANGED <<chainVars, attestations, finalityVars, nodeVars>>

CommitProposal ==
    /\ pc = "commit_proposal"
    /\ MayCommit(slot, Cardinality(blocks[slot].txs))
    /\ proposals' = [proposals EXCEPT ![slot] = "success"]
    /\ todo' = blocks[slot].atts
    /\ GoTo("attest")
    /\ UNCHANGED <<chainVars, attestations, finalityVars, nodeVars>>

\* process_block_attestations, then the guard of finalize_epoch_if_needed.
Attest ==
    /\ pc = "attest"
    /\ \/ /\ todo = {}
          /\ IF IsLastOfEpoch(slot) THEN GoTo("tally") /\ UNCHANGED todo
                                    ELSE Yield("block")
          /\ UNCHANGED attestations
       \/ \E d \in todo :
            /\ IsFirst(d, todo)
            /\ MayInclude(slot, EpochOf(slot))
            /\ attestations' = [attestations EXCEPT ![d] = slot]
            /\ Continue(d)
    /\ UNCHANGED <<chainVars, proposals, finalityVars, nodeVars>>

-----------------------------------------------------------------------------
(* process_epoch_finality and the flags on the blocks.                     *)

\* assert finality_result: without a supermajority the run dies.
Tally ==
    LET e == EpochOf(slot)
        Elected == {b \in Roots(e) : Wins(e, b) /\ Supermajority(e, b)}
    IN  /\ pc = "tally"
        /\ \/ \E b \in Elected :
                /\ winner' = b
                /\ pc' = "checkpoint"
                /\ UNCHANGED <<slot, active, candidate, todo, outcome>>
           \/ Elected = {} /\ Finish("no_supermajority")
        /\ UNCHANGED Stored

SaveCheckpoint ==
    LET e == EpochOf(slot) IN
    /\ pc = "checkpoint"
    /\ checkpoints' = [checkpoints EXCEPT ![e] = [status |-> "justified", root |-> winner]]
    /\ winner' = NoSlot
    /\ todo' = IndexedBlocks(e)
    /\ pc' = "mark_justified"
    /\ UNCHANGED <<slot, active, candidate, outcome>>
    /\ UNCHANGED <<chainVars, dutyVars, justifiedEpoch, finalizedEpoch, nodeVars>>

\* update_block on the next block of todo, in slot order.
MarkNext(field, value) ==
    \E s \in todo :
      /\ \A t \in todo : s <= t
      /\ blocks' = [blocks EXCEPT ![s] = [@ EXCEPT ![field] = value]]
      /\ Continue(s)
      /\ UNCHANGED tip

MarkJustified ==
    /\ pc = "mark_justified"
    /\ \/ todo = {} /\ GoTo("link") /\ UNCHANGED todo /\ UNCHANGED chainVars
       \/ MarkNext("status", "justified")
    /\ UNCHANGED <<dutyVars, finalityVars, nodeVars>>

\* The parent epoch was justified: finalize its checkpoint and then its blocks.
Link ==
    LET e == EpochOf(slot) IN
    /\ pc = "link"
    /\ IF ExtendsJustified(e)
         THEN /\ MayFinalize
              /\ checkpoints' = [checkpoints EXCEPT ![e - 1].status = "finalized"]
              /\ todo' = IndexedBlocks(e - 1)
              /\ GoTo("mark_finalized")
         ELSE GoTo("update_finality") /\ UNCHANGED <<todo, checkpoints>>
    /\ UNCHANGED <<chainVars, dutyVars, justifiedEpoch, finalizedEpoch, nodeVars>>

MarkFinalized ==
    /\ pc = "mark_finalized"
    /\ \/ todo = {} /\ GoTo("update_finality") /\ UNCHANGED todo /\ UNCHANGED chainVars
       \/ MarkNext("status", "finalized")
    /\ UNCHANGED <<dutyVars, finalityVars, nodeVars>>

UpdateFinality ==
    LET e == EpochOf(slot) IN
    /\ pc = "update_finality"
    /\ justifiedEpoch' = e
    /\ finalizedEpoch' = IF ExtendsJustified(e) THEN e - 1 ELSE finalizedEpoch
    /\ todo' = IndexedBlocks(e)
    /\ GoTo("flag_justified")
    /\ UNCHANGED <<chainVars, dutyVars, checkpoints, nodeVars>>

\* The summary is read once, before the flags: todo of the second loop is empty
\* for NoEpoch.
FlagJustified ==
    /\ pc = "flag_justified"
    /\ \/ /\ todo = {}
          /\ GoTo("flag_finalized")
          /\ todo' = IndexedBlocks(finalizedEpoch)
          /\ UNCHANGED chainVars
       \/ MarkNext("justified", TRUE)
    /\ UNCHANGED <<dutyVars, finalityVars, nodeVars>>

FlagFinalized ==
    /\ pc = "flag_finalized"
    /\ \/ todo = {} /\ Yield("block") /\ UNCHANGED chainVars
       \/ MarkNext("finalized", TRUE)
    /\ UNCHANGED <<dutyVars, finalityVars, nodeVars>>

-----------------------------------------------------------------------------
(* What the run does not control.                                          *)

\* The process stops, or storage fails, before the next write.
Crash ==
    /\ pc # "down"
    /\ Finish("crashed")
    /\ UNCHANGED Stored

CallerRuns == pc \in {"down", "yielded"}

\* register_validator hands out the indices in order, active at once.
RegisterValidator(v) ==
    /\ CallerRuns
    /\ validators[v] = "none"
    /\ \A u \in Validators : u < v => validators[u] # "none"
    /\ validators' = [validators EXCEPT ![v] = "active_ongoing"]
    /\ UNCHANGED <<chainVars, dutyVars, finalityVars, pool, runVars>>

UpdateValidatorStatus(v, status) ==
    /\ CallerRuns
    /\ validators[v] \notin {"none", status}
    /\ validators' = [validators EXCEPT ![v] = status]
    /\ UNCHANGED <<chainVars, dutyVars, finalityVars, pool, runVars>>

\* The mempool admits a transaction that is not queued already.
SubmitTx(t) ==
    /\ CallerRuns
    /\ t \notin pool
    /\ pool' = pool \cup {t}
    /\ UNCHANGED <<chainVars, dutyVars, finalityVars, validators, runVars>>

-----------------------------------------------------------------------------
ProposeStep ==
    \/ BeginSlot \/ AssignDuty \/ AssignProposal \/ Build \/ Drain \/ Assemble

CommitStep ==
    \/ SaveBlock \/ IndexBlock \/ SetTip \/ CommitProposal \/ Attest

FinalizeStep ==
    \/ Tally \/ SaveCheckpoint \/ MarkJustified \/ Link \/ MarkFinalized
    \/ UpdateFinality \/ FlagJustified \/ FlagFinalized

RunStep ==
    \/ Start \/ LoadValidators \/ RunEnds
    \/ ProposeStep \/ CommitStep \/ FinalizeStep

Submit == \E t \in Txs : SubmitTx(t)

Churn == \E v \in Churners :
    \/ RegisterValidator(v)
    \/ \E status \in {"active_ongoing", "active_exiting"} : UpdateValidatorStatus(v, status)

Next == RunStep \/ Submit \/ Churn \/ Crash

Spec == Init /\ [][Next]_vars

\* The same node when no run is interrupted: the caller keeps iterating and the
\* synchronous code goes on.
SteadySpec == Init /\ [][RunStep \/ Submit \/ Churn]_vars /\ WF_vars(RunStep)

-----------------------------------------------------------------------------
(* Invariants.                                                             *)

\* What each loop of the run has left to write.
TodoOK ==
    IF pc \in {"assign_duties", "attest"} THEN todo \subseteq Duties
    ELSE IF pc = "drain" THEN todo \subseteq Txs
    ELSE IF pc \in {"mark_justified", "mark_finalized", "flag_justified", "flag_finalized"}
      THEN todo \subseteq Slots
    ELSE todo = {}

\* A run in progress works on the slot after the tip, or on the tip once it has
\* moved there.
Idle       == {"down", "load_validators", "next_slot", "yielded"}
Proposing  == {"assign_duties", "assign_proposal", "build", "drain", "assemble"}
Storing    == {"save_block", "index_block", "set_tip"}
Finalizing == {"tally", "checkpoint", "mark_justified", "link", "mark_finalized",
               "update_finality", "flag_justified", "flag_finalized"}
Committed  == {"commit_proposal", "attest"} \cup Finalizing

StageOK ==
    /\ pc \in Idle => slot = NoSlot
    /\ pc \in Proposing \cup Storing => slot = tip + 1
    /\ pc \in Committed => slot = tip /\ tip > 0
    /\ pc \in Proposing \cup (Idle \ {"down"}) => tip >= 0
    /\ pc \in Finalizing => IsLastOfEpoch(slot)

\* Every variable has its type, at every stage of a run.
TypeOK ==
    /\ tip \in Slots \cup {NoSlot}
    /\ blocks \in [Slots -> Block]
    /\ proposals \in [Slots -> {"none", "awaiting_duty", "success", "missed"}]
    /\ attestations \in [Duties -> {NoDuty, Awaiting} \cup Slots]
    /\ checkpoints \in [Epochs -> [status : CheckpointStatus, root : Slots \cup {NoSlot}]]
    /\ justifiedEpoch \in Epochs \cup {NoEpoch}
    /\ finalizedEpoch \in Epochs \cup {NoEpoch}
    /\ validators \in [Validators -> {"none", "active_ongoing", "active_exiting"}]
    /\ pool \subseteq Txs
    /\ pc \in Stages
    /\ slot \in Slots \cup {NoSlot}
    /\ active \subseteq Validators
    /\ candidate \subseteq Txs
    /\ winner \in Slots \cup {NoSlot}
    /\ TodoOK
    /\ StageOK
    /\ outcome \in Outcomes

\* The blocks up to the tip are one chain without a gap, each fully stored and
\* pointing to the slot before it; a run that died while it stored a block left
\* at most that one block, beyond the tip.
ContiguousChain ==
    /\ \A s \in 0 .. tip : blocks[s].stored = "indexed" /\ blocks[s].parent = s - 1
    /\ \A s \in Slots : s > tip + 1 => blocks[s].stored = "no" /\ proposals[s] = "none"

\* A recorded vote is for a block of the chain in the epoch of the vote, and that
\* block carries the vote: process_block_attestations writes what was included.
VotesOnChain ==
    \A d \in Duties : attestations[d] >= 0 =>
        LET b == attestations[d] IN
        /\ b \in 1 .. tip
        /\ EpochOf(b) = EpochOf(d[1])
        /\ d \in blocks[b].atts

\* The finality index never runs ahead of the checkpoint records: the justified
\* epoch has a checkpoint, the finalized one is followed by a justified child.
FinalityBacked ==
    /\ justifiedEpoch >= 0 => checkpoints[justifiedEpoch].status # "none"
    /\ finalizedEpoch >= 0 =>
         /\ finalizedEpoch < justifiedEpoch
         /\ checkpoints[finalizedEpoch].status = "finalized"
         /\ checkpoints[finalizedEpoch + 1].status # "none"

\* A flag or a status on a block says no more than the finalizer decided: the
\* index for the flags, the checkpoint records for the status.
MarksBacked ==
    \A s \in 1 .. MaxSlot :
        LET b == blocks[s]  c == checkpoints[EpochOf(s)].status IN
        /\ b.justified => EpochOf(s) <= justifiedEpoch
        /\ b.finalized => EpochOf(s) <= finalizedEpoch
        /\ b.status # "proposed" => c # "none"
        /\ b.status = "finalized" => c = "finalized"

\* A checkpoint's root is a block of the chain in the checkpoint's epoch.
CheckpointOnChain ==
    \A e \in Epochs : checkpoints[e].status # "none" =>
        LET r == checkpoints[e].root IN r \in 1 .. tip /\ EpochOf(r) = e

\* What votes and checkpoints point to is on the chain, although blocks, votes and
\* checkpoints are written apart.
RecordsOnChain == VotesOnChain /\ CheckpointOnChain

\* Nothing claims more finality than was decided: neither the index, nor the
\* marks on blocks, each of which is a write of its own.
ClaimsBacked == FinalityBacked /\ MarksBacked

-----------------------------------------------------------------------------
(* What a step may never do.                                               *)

\* A slot is proposed once: after a block is indexed its body and parent never
\* change, a slot that was missed or given up is never proposed again.
ProposedOnce ==
    [][\A s \in Slots \ {0} :
         /\ blocks[s].stored # "no" =>
              <<blocks'[s].parent, blocks'[s].txs, blocks'[s].atts>>
                = <<blocks[s].parent, blocks[s].txs, blocks[s].atts>>
         /\ proposals[s] # "none" => proposals'[s] # "none"
         /\ proposals[s] \in {"missed", "success"} => proposals'[s] = proposals[s]]_vars

\* Finality never goes back: epochs grow, checkpoints keep their root, a vote once
\* recorded is never moved to another block.
FinalityAdvances ==
    [][/\ justifiedEpoch <= justifiedEpoch'
       /\ finalizedEpoch <= finalizedEpoch'
       /\ \A e \in Epochs :
            /\ checkpoints[e].status # "none" => checkpoints'[e].root = checkpoints[e].root
            /\ checkpoints[e].status = "finalized" => checkpoints'[e].status = "finalized"
       /\ \A d \in Duties : attestations[d] >= 0 => attestations'[d] = attestations[d]]_vars

\* What is decided stays: slots, votes and finality, whatever crashes and retries.
DecidedStays == ProposedOnce /\ FinalityAdvances

\* The slot after the tip has a proposal already, and no run is working on it: an
\* earlier iteration gave it up or died in it.
Wedged ==
    /\ tip \in 0 .. MaxSlot - 1 /\ proposals[tip + 1] # "none"
    /\ pc \in Idle \cup {"assign_duties", "assign_proposal"}

\* Such a node never extends its chain again, whatever its callers do: the slot
\* is retried and every run dies in assign_proposal_duty.
WedgedForever == [][Wedged => Wedged' /\ tip' = tip]_vars

\* What the slot loop promises to readers of tip and finality index: the protocol
\* of Finality, for every interleaving of crashes, retries and churn.
Abstract == INSTANCE Finality WITH
    head <- tip, justified <- justifiedEpoch, finalized <- finalizedEpoch
RefinesFinality == Abstract!Spec

-----------------------------------------------------------------------------
(* What holds as long as no run is interrupted.                            *)

\* No attestation is paid for twice: blocks include disjoint attestations.  (A
\* crash between the chain tip and the votes breaks this.)
NoDoubleInclusion ==
    \A s, t \in 0 .. tip : s # t => blocks[s].atts \cap blocks[t].atts = {}

\* The root about to be justified has the votes of two thirds of the registered
\* validators, each counted once.
JustifiedByTwoThirds ==
    pc = "checkpoint" =>
        LET voters == {d[2] : d \in VotesFor(EpochOf(slot), winner)}
        IN  Cardinality(voters) * 3 >= Cardinality(Registered) * 2

\* Every epoch but the newest is finalized once the chain is long enough.
EveryEpochFinalized ==
    <>(justifiedEpoch = EpochOf(MaxSlot) /\ finalizedEpoch = EpochOf(MaxSlot) - 1)

\* A transaction the mempool holds reaches the block at the tip, unless the bound
\* ends the chain first.
EveryTxIncluded ==
    \A t \in Txs : t \in pool ~> (tip = MaxSlot \/ (tip >= 0 /\ t \in blocks[tip].txs))

=============================================================================
