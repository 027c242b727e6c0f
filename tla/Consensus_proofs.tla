--------------------------- MODULE Consensus_proofs ---------------------------
(***************************************************************************)
(* Proofs about the slot loop, for every epoch length, chain length, set   *)
(* of validators and set of transactions.                                  *)
(***************************************************************************)
EXTENDS Consensus, FiniteSetTheorems, TLAPS

-----------------------------------------------------------------------------
(* Facts about the operators of the model.                                 *)

\* Slots and epochs are natural numbers, an epoch of a slot is an epoch.
LEMMA EpochOfType == \A s \in Nat : EpochOf(s) \in Nat
  BY EpochAssumption DEF EpochOf

LEMMA EpochMonotone ==
    ASSUME NEW s \in Nat, NEW t \in Nat, s <= t
    PROVE  EpochOf(s) <= EpochOf(t)
  BY EpochAssumption DEF EpochOf

LEMMA NextEpoch ==
    ASSUME NEW s \in Nat, IsLastOfEpoch(s)
    PROVE  EpochOf(s + 1) = EpochOf(s) + 1
  BY EpochAssumption DEF EpochOf, IsLastOfEpoch

\* A checkpoint's epoch is an epoch of the model.
LEMMA EpochOfSlot == \A s \in Slots : EpochOf(s) \in Epochs
  <1> TAKE s \in Slots
  <1>1. s \in Nat /\ MaxSlot \in Nat /\ s <= MaxSlot
    BY EpochAssumption DEF Slots
  <1>2. EpochOf(s) \in Nat /\ EpochOf(MaxSlot) \in Nat
    BY <1>1, EpochOfType
  <1>3. EpochOf(s) <= EpochOf(MaxSlot)
    BY <1>1, EpochMonotone
  <1> QED  BY <1>2, <1>3 DEF Epochs

\* What the loop changes in a block leaves a block.
LEMMA IndexedIsBlock == \A b \in Block : [b EXCEPT !.stored = "indexed"] \in Block
  BY DEF Block

LEMMA MarkedIsBlock ==
    ASSUME blocks \in [Slots -> Block], todo \subseteq Slots,
           NEW field, NEW value,
           \/ field = "status" /\ value \in BlockStatus
           \/ field \in {"justified", "finalized"} /\ value \in BOOLEAN,
           MarkNext(field, value)
    PROVE  blocks' \in [Slots -> Block]
  <1>1. PICK s \in todo : blocks' = [blocks EXCEPT ![s] = [@ EXCEPT ![field] = value]]
    BY DEF MarkNext
  <1>2. [blocks[s] EXCEPT ![field] = value] \in Block
    BY <1>1 DEF Block
  <1> QED  BY <1>1, <1>2

-----------------------------------------------------------------------------
(* Type correctness.                                                       *)

USE DEF Idle, Proposing, Storing, Finalizing, Committed
USE DEF chainVars, dutyVars, finalityVars, nodeVars, runVars, vars, Stored

LEMMA TypeInit == Init => TypeOK
  BY EpochAssumption, ValidatorAssumption
  DEF Init, TypeOK, TodoOK, StageOK, NoSlot, NoEpoch, NoDuty, Slots, NoBlock, Block, BlockStatus,
      NoCheckpoint, CheckpointStatus, Stages, Outcomes

\* The end of a run and a yield leave well-typed locals.
LEMMA FinishType ==
    ASSUME TypeOK, UNCHANGED Stored, NEW why \in Outcomes, Finish(why)
    PROVE  TypeOK'
  BY DEF TypeOK, TodoOK, StageOK, Finish, Stages

\* The steps up to the proposal.
LEMMA ProposeStepType ==
    ASSUME TypeOK, ProposeStep
    PROVE  TypeOK'
  <1> USE DEF TypeOK, TodoOK, StageOK, GoTo, Continue, Finish, Yield, Skip, Stages, Outcomes
  <1>1. CASE BeginSlot
    <2>1. MaxSlot \in Nat
      BY EpochAssumption
    <2>2. tip + 1 \in Slots
      BY <1>1, <2>1 DEF BeginSlot, Slots, NoSlot
    <2>3. EpochSlots(EpochOf(tip + 1)) \X ActiveNow \subseteq Duties
      BY DEF EpochSlots, ActiveNow, Duties
    <2> QED  BY <1>1, <2>2, <2>3 DEF BeginSlot
  <1>2. CASE AssignDuty
    BY <1>2 DEF AssignDuty
  <1>3. CASE AssignProposal
    BY <1>3 DEF AssignProposal
  <1>4. CASE Build
    BY <1>4 DEF Build
  <1>5. CASE Drain
    BY <1>5 DEF Drain
  <1>6. CASE Assemble
    BY <1>6 DEF Assemble
  <1> QED  BY <1>1, <1>2, <1>3, <1>4, <1>5, <1>6 DEF ProposeStep

\* The steps that commit a block.
LEMMA CommitStepType ==
    ASSUME TypeOK, CommitStep
    PROVE  TypeOK'
  <1> USE DEF TypeOK, TodoOK, StageOK, GoTo, Continue, Finish, Yield, Stages, Outcomes
  <1>0. /\ MaxSlot \in Nat
        /\ slot \in Slots
        /\ pc \in Committed => tip \in Slots \ {0}
    BY EpochAssumption DEF CommitStep, SaveBlock, IndexBlock, SetTip, CommitProposal,
       Attest, Slots, NoSlot
  <1>1. CASE SaveBlock
    <2>1. FirstN(Waiting(EpochOf(slot)), Cardinality(active)) \subseteq Duties
      BY DEF FirstN, Waiting, EpochDuties
    <2>2. blocks' \in [Slots -> Block]
      BY <1>1, <2>1 DEF SaveBlock, NoBlock, Block, BlockStatus, NoSlot
    <2> QED  BY <1>1, <2>2 DEF SaveBlock
  <1>2. CASE IndexBlock
    <2>1. blocks' \in [Slots -> Block]
      BY <1>0, <1>2, IndexedIsBlock DEF IndexBlock
    <2> QED  BY <1>2, <2>1 DEF IndexBlock
  <1>3. CASE SetTip
    BY <1>0, <1>3 DEF SetTip, Slots, NoSlot
  <1>4. CASE CommitProposal
    <2>1. blocks[slot].atts \subseteq Duties
      BY <1>0 DEF Block
    <2> QED  BY <1>0, <1>4, <2>1 DEF CommitProposal
  <1>5. CASE Attest
    <2>1. CASE todo = {}
      BY <1>0, <1>5, <2>1 DEF Attest, Slots, NoSlot
    <2>2. CASE todo # {}
      BY <1>0, <1>5, <2>2 DEF Attest
    <2> QED  BY <2>1, <2>2
  <1> QED  BY <1>1, <1>2, <1>3, <1>4, <1>5 DEF CommitStep

\* The steps of the finalizer.
LEMMA FinalizeStepType ==
    ASSUME TypeOK, FinalizeStep
    PROVE  TypeOK'
  <1> USE DEF TypeOK, TodoOK, StageOK, GoTo, Continue, Finish, Yield, Stages, Outcomes
  <1>0. /\ slot \in Slots
        /\ EpochOf(slot) \in Epochs
        /\ tip \in Slots /\ slot = tip /\ tip > 0 /\ IsLastOfEpoch(slot)
    <2>1. slot = tip /\ tip > 0 /\ IsLastOfEpoch(slot)
      BY DEF FinalizeStep, Tally, SaveCheckpoint, MarkJustified, Link, MarkFinalized,
         UpdateFinality, FlagJustified, FlagFinalized
    <2> QED  BY <2>1, EpochOfSlot DEF NoSlot
  <1>1. \A e : IndexedBlocks(e) \subseteq Slots
    BY DEF IndexedBlocks, EpochSlots
  <1>2. CASE Tally
    <2>1. Roots(EpochOf(slot)) \subseteq Slots
      BY DEF Roots
    <2> QED  BY <1>0, <1>2, <2>1 DEF Tally
  <1>3. CASE SaveCheckpoint
    BY <1>0, <1>1, <1>3 DEF SaveCheckpoint, CheckpointStatus
  <1>4. CASE MarkJustified
    <2>1. blocks' \in [Slots -> Block]
      BY <1>4, MarkedIsBlock DEF MarkJustified, BlockStatus
    <2> QED  BY <1>0, <1>4, <2>1 DEF MarkJustified, MarkNext
  <1>5. CASE Link
    BY <1>0, <1>1, <1>5 DEF Link, CheckpointStatus
  <1>6. CASE MarkFinalized
    <2>1. blocks' \in [Slots -> Block]
      BY <1>6, MarkedIsBlock DEF MarkFinalized, BlockStatus
    <2> QED  BY <1>0, <1>6, <2>1 DEF MarkFinalized, MarkNext
  <1>7. CASE UpdateFinality
    <2>1. ExtendsJustified(EpochOf(slot)) => EpochOf(slot) - 1 = justifiedEpoch
      BY DEF ExtendsJustified
    <2> QED  BY <1>0, <1>1, <1>7, <2>1 DEF UpdateFinality
  <1>8. CASE FlagJustified
    <2>1. blocks' \in [Slots -> Block]
      BY <1>8, MarkedIsBlock DEF FlagJustified
    <2> QED  BY <1>0, <1>1, <1>8, <2>1 DEF FlagJustified, MarkNext
  <1>9. CASE FlagFinalized
    <2>1. blocks' \in [Slots -> Block]
      BY <1>9, MarkedIsBlock DEF FlagFinalized
    <2> QED  BY <1>0, <1>9, <2>1, EpochAssumption DEF FlagFinalized, MarkNext, NoSlot, Slots
  <1> QED
    BY <1>2, <1>3, <1>4, <1>5, <1>6, <1>7, <1>8, <1>9 DEF FinalizeStep

\* Every step, also those of the callers and a crash.
LEMMA TypeStep ==
    ASSUME TypeOK, [Next]_vars
    PROVE  TypeOK'
  <1> USE DEF TypeOK, TodoOK, StageOK, Stages, Outcomes
  <1>1. CASE Start
    BY <1>1, EpochAssumption DEF Start, Slots, NoSlot
  <1>2. CASE LoadValidators
    <2>1. CASE ActiveNow = {}
      BY <1>2, <2>1, FinishType DEF LoadValidators
    <2>2. CASE ActiveNow # {}
      BY <1>2, <2>2 DEF LoadValidators, ActiveNow
    <2> QED  BY <2>1, <2>2
  <1>3. CASE RunEnds
    BY <1>3, FinishType DEF RunEnds
  <1>4. CASE Crash
    BY <1>4, FinishType DEF Crash
  <1>5. CASE Submit
    BY <1>5 DEF Submit, SubmitTx
  <1>6. CASE Churn
    BY <1>6 DEF Churn, RegisterValidator, UpdateValidatorStatus
  <1>7. CASE UNCHANGED vars
    BY <1>7
  <1> QED
    BY <1>1, <1>2, <1>3, <1>4, <1>5, <1>6, <1>7,
       ProposeStepType, CommitStepType, FinalizeStepType DEF Next, RunStep

\* Every state the node can reach, with any crashes, is well typed: each stage of
\* a run works on the slot and with the remaining writes that belong to it.
THEOREM TypeInvariant == Spec => []TypeOK
  BY TypeInit, TypeStep, PTL DEF Spec

-----------------------------------------------------------------------------
(* A node whose next slot is assigned already never extends its chain.     *)

\* From such a state every step leaves tip and proposals alone: the slot in work
\* is tip + 1, and assign_proposal_duty refuses it.
THEOREM Wedge == Spec => WedgedForever
  <1>1. ASSUME TypeOK, Wedged, [Next]_vars
        PROVE  Wedged' /\ tip' = tip
    <2> USE <1>1 DEF Wedged, GoTo, Continue, Finish, Yield
    <2>1. tip \in Int /\ MaxSlot \in Int
      BY EpochAssumption DEF TypeOK, Slots, NoSlot
    <2>2. CASE Start
      BY <2>1, <2>2 DEF Start, NoSlot
    <2>3. CASE BeginSlot
      BY <2>3 DEF BeginSlot
    <2>4. CASE AssignProposal
      BY <2>1, <2>4 DEF AssignProposal, TypeOK, StageOK
    <2>5. CASE LoadValidators \/ RunEnds \/ Crash
      BY <2>5 DEF LoadValidators, RunEnds, Crash
    <2>6. CASE Submit \/ Churn \/ UNCHANGED vars
      BY <2>6 DEF Submit, Churn, SubmitTx, RegisterValidator, UpdateValidatorStatus
    <2>7. CASE AssignDuty
      BY <2>7 DEF AssignDuty
    <2>8. ~(Build \/ Drain \/ Assemble \/ CommitStep \/ FinalizeStep)
      BY DEF Build, Drain, Assemble, CommitStep, SaveBlock, IndexBlock, SetTip,
         CommitProposal, Attest, FinalizeStep, Tally, SaveCheckpoint, MarkJustified, Link,
         MarkFinalized, UpdateFinality, FlagJustified, FlagFinalized
    <2> QED
      BY <2>2, <2>3, <2>4, <2>5, <2>6, <2>7, <2>8 DEF Next, RunStep, ProposeStep
  <1>2. TypeOK /\ [Next]_vars => [Wedged => Wedged' /\ tip' = tip]_vars
    BY <1>1
  <1> QED  BY <1>2, TypeInvariant, PTL DEF Spec, WedgedForever

-----------------------------------------------------------------------------
(* The chain of blocks.                                                    *)

\* A stored block has a proposal; the slot in work is not stored before
\* save_block, and from then on its block points to the tip.
ChainInv ==
    /\ ContiguousChain
    /\ \A s \in Slots \ {0} : blocks[s].stored # "no" => proposals[s] # "none"
    /\ pc \in {"build", "drain", "assemble", "save_block"} /\ slot > 0 =>
         blocks[slot].stored = "no" /\ proposals[slot] = "awaiting_duty"
    /\ pc \in {"index_block", "set_tip", "commit_proposal"} /\ slot > 0 =>
         proposals[slot] = "awaiting_duty"
    /\ pc \in {"index_block", "set_tip"} => blocks[slot].parent = tip
    /\ pc = "set_tip" => blocks[slot].stored = "indexed"

LEMMA ChainInit == Init => ChainInv
  BY EpochAssumption DEF Init, ChainInv, ContiguousChain, NoSlot, NoBlock, Slots

\* The marks of the finalizer leave the chain as it is.
LEMMA MarkKeepsChain ==
    ASSUME TypeOK, todo \subseteq Slots, NEW field \in {"status", "justified", "finalized"},
           NEW value, MarkNext(field, value)
    PROVE  \A s \in Slots :
             /\ blocks'[s].stored = blocks[s].stored
             /\ blocks'[s].parent = blocks[s].parent
             /\ blocks'[s].txs = blocks[s].txs
             /\ blocks'[s].atts = blocks[s].atts
  <1>1. PICK b \in todo : blocks' = [blocks EXCEPT ![b] = [@ EXCEPT ![field] = value]]
    BY DEF MarkNext
  <1>2. blocks \in [Slots -> Block] /\ b \in Slots
    BY DEF TypeOK
  <1> QED  BY <1>1, <1>2 DEF Block

LEMMA ChainStep ==
    ASSUME TypeOK, TypeOK', ChainInv, [Next]_vars
    PROVE  ChainInv'
  <1> USE DEF ChainInv, ContiguousChain, GoTo, Continue, Finish, Yield
  <1>0. /\ MaxSlot \in Nat /\ Slots = 0 .. MaxSlot
        /\ tip \in Int /\ tip >= -1 /\ slot \in Int /\ slot >= -1
        /\ tip <= MaxSlot /\ slot <= MaxSlot
        /\ blocks \in [Slots -> Block]
    BY EpochAssumption DEF TypeOK, Slots, NoSlot
  <1>1. CASE Start
    BY <1>0, <1>1 DEF Start
  <1>2. CASE LoadValidators \/ RunEnds \/ BeginSlot \/ AssignDuty
    BY <1>0, <1>2 DEF LoadValidators, RunEnds, BeginSlot, AssignDuty
  <1>3. CASE AssignProposal
    BY <1>0, <1>3 DEF AssignProposal, TypeOK, StageOK
  <1>4. CASE Build
    BY <1>0, <1>4 DEF Build, Skip, TypeOK, StageOK
  <1>5. CASE Drain
    BY <1>0, <1>5 DEF Drain
  <1>6. CASE Assemble
    BY <1>0, <1>6 DEF Assemble, Skip, TypeOK, StageOK
  <1>7. CASE SaveBlock
    BY <1>0, <1>7 DEF SaveBlock, NoBlock, NoSlot, TypeOK, StageOK
  <1>8. CASE IndexBlock
    BY <1>0, <1>8 DEF IndexBlock, Block, TypeOK, StageOK
  <1>9. CASE SetTip
    BY <1>0, <1>9 DEF SetTip, TypeOK, StageOK
  <1>10. CASE CommitProposal
    BY <1>0, <1>10 DEF CommitProposal, TypeOK, StageOK
  <1>11. CASE Attest \/ Tally \/ SaveCheckpoint \/ Link \/ UpdateFinality
    BY <1>0, <1>11 DEF Attest, Tally, SaveCheckpoint, Link, UpdateFinality
  <1>12. CASE MarkJustified \/ MarkFinalized \/ FlagJustified \/ FlagFinalized
    <2>1. CASE blocks' = blocks
      BY <1>0, <1>12, <2>1
      DEF MarkJustified, MarkFinalized, FlagJustified, FlagFinalized, MarkNext
    <2>2. CASE blocks' # blocks
      <3>1. /\ pc' = pc /\ slot' = slot /\ tip' = tip /\ proposals' = proposals
            /\ pc \in {"mark_justified", "mark_finalized", "flag_justified", "flag_finalized"}
        BY <1>12, <2>2
        DEF MarkJustified, MarkFinalized, FlagJustified, FlagFinalized, MarkNext
      <3>2. todo \subseteq Slots
        BY <3>1 DEF TypeOK, TodoOK
      <3>3. \A s \in Slots : blocks'[s].stored = blocks[s].stored
                            /\ blocks'[s].parent = blocks[s].parent
        BY <1>12, <2>2, <3>2, MarkKeepsChain
        DEF MarkJustified, MarkFinalized, FlagJustified, FlagFinalized
      <3> QED  BY <1>0, <3>1, <3>3
    <2> QED  BY <2>1, <2>2
  <1>13. CASE Crash \/ Submit \/ Churn \/ UNCHANGED vars
    BY <1>0, <1>13 DEF Crash, Submit, Churn, SubmitTx, RegisterValidator,
       UpdateValidatorStatus
  <1> QED
    BY <1>1, <1>2, <1>3, <1>4, <1>5, <1>6, <1>7, <1>8, <1>9, <1>10, <1>11, <1>12, <1>13
    DEF Next, RunStep, ProposeStep, CommitStep, FinalizeStep

LEMMA ChainInvariant == Spec => []ChainInv
  BY TypeInvariant, ChainInit, ChainStep, PTL DEF Spec

\* However often runs die, and wherever: the chain up to the tip has no gap, every
\* block of it is indexed and points to its predecessor, and beyond the next slot
\* nothing is stored.
THEOREM ChainTheorem == Spec => []ContiguousChain
  BY ChainInvariant, PTL DEF ChainInv

\* A run may die in a slot and the slot be retried, yet no block body is ever
\* rewritten and no proposal that was missed or succeeded is reopened.
THEOREM ProposedOnceTheorem == Spec => ProposedOnce
  <1> DEFINE Once(s) ==
        /\ blocks[s].stored # "no" =>
             <<blocks'[s].parent, blocks'[s].txs, blocks'[s].atts>>
               = <<blocks[s].parent, blocks[s].txs, blocks[s].atts>>
        /\ proposals[s] # "none" => proposals'[s] # "none"
        /\ proposals[s] \in {"missed", "success"} => proposals'[s] = proposals[s]
  <1>1. ASSUME TypeOK, ChainInv, Next, NEW s \in Slots \ {0}
        PROVE  Once(s)
    <2> USE <1>1
    <2>0. /\ slot \in Int /\ slot >= -1 /\ s \in Int /\ s > 0
          /\ blocks \in [Slots -> Block] /\ DOMAIN proposals = Slots
      BY EpochAssumption DEF TypeOK, Slots, NoSlot
    <2>1. CASE UNCHANGED <<blocks, proposals>>
      BY <2>1
    <2>2. CASE AssignProposal
      BY <2>0, <2>2 DEF AssignProposal, Finish
    <2>3. CASE Build \/ Assemble
      BY <2>0, <2>3 DEF Build, Assemble, Skip, Finish, GoTo, ChainInv, TypeOK, StageOK
    <2>4. CASE SaveBlock
      BY <2>0, <2>4 DEF SaveBlock, ChainInv, GoTo
    <2>5. CASE IndexBlock
      BY <2>0, <2>5 DEF IndexBlock, Block
    <2>6. CASE CommitProposal
      BY <2>0, <2>6 DEF CommitProposal, ChainInv, TypeOK, StageOK
    <2>7. CASE MarkJustified \/ MarkFinalized \/ FlagJustified \/ FlagFinalized
      <3>1. CASE blocks' = blocks
        BY <2>7, <3>1 DEF MarkJustified, MarkFinalized, FlagJustified, FlagFinalized
      <3>2. CASE blocks' # blocks
        <4>1. todo \subseteq Slots /\ proposals' = proposals
          BY <2>7 DEF MarkJustified, MarkFinalized, FlagJustified, FlagFinalized,
             TypeOK, TodoOK
        <4> QED
          BY <2>7, <3>2, <4>1, MarkKeepsChain
          DEF MarkJustified, MarkFinalized, FlagJustified, FlagFinalized
      <3> QED  BY <3>1, <3>2
    <2>8. CASE Start \/ LoadValidators \/ RunEnds \/ BeginSlot \/ AssignDuty \/ Drain \/ SetTip
      BY <2>1, <2>8 DEF Start, LoadValidators, RunEnds, BeginSlot, AssignDuty, Drain, SetTip
    <2>9. CASE Attest \/ Tally \/ SaveCheckpoint \/ Link \/ UpdateFinality
      BY <2>1, <2>9 DEF Attest, Tally, SaveCheckpoint, Link, UpdateFinality
    <2>10. CASE Crash \/ Submit \/ Churn
      BY <2>1, <2>10 DEF Crash, Submit, Churn, SubmitTx, RegisterValidator,
         UpdateValidatorStatus
    <2> QED
      BY <2>2, <2>3, <2>4, <2>5, <2>6, <2>7, <2>8, <2>9, <2>10
      DEF Next, RunStep, ProposeStep, CommitStep, FinalizeStep
  <1>2. TypeOK /\ ChainInv /\ [Next]_vars => [\A s \in Slots \ {0} : Once(s)]_vars
    BY <1>1
  <1> QED  BY <1>2, TypeInvariant, ChainInvariant, PTL DEF Spec, ProposedOnce

-----------------------------------------------------------------------------
(* Finality.                                                               *)

\* The epoch in work is later than every justified one until update_finality, and
\* has no checkpoint until its run saves it; the epoch after the tip is later than
\* all of them, so a run that died is never followed by one for the same epoch.
FinalityInv ==
    /\ FinalityBacked
    /\ justifiedEpoch < EpochOf(tip + 1)
    /\ \A e \in Epochs : checkpoints[e].status # "none" => e < EpochOf(tip + 1)
    /\ pc \in {"commit_proposal", "attest", "tally", "checkpoint", "mark_justified",
               "link", "mark_finalized", "update_finality"} =>
         justifiedEpoch < EpochOf(tip)
    /\ pc \in {"commit_proposal", "attest", "tally", "checkpoint"} =>
         \A e \in Epochs : checkpoints[e].status # "none" => e < EpochOf(tip)
    /\ pc \in {"mark_justified", "link", "mark_finalized", "update_finality"} =>
         checkpoints[EpochOf(slot)].status # "none"
    /\ pc = "mark_finalized" => ExtendsJustified(EpochOf(slot))
    /\ pc \in {"mark_finalized", "update_finality"} /\ ExtendsJustified(EpochOf(slot)) =>
         checkpoints[EpochOf(slot) - 1].status = "finalized"

\* How the epochs of neighbouring slots lie.
LEMMA EpochsAroundTip ==
    ASSUME TypeOK
    PROVE  /\ tip \in Int /\ slot \in Int /\ tip >= -1 /\ justifiedEpoch \in Int
           /\ finalizedEpoch \in Int /\ Epochs \subseteq Nat
           /\ justifiedEpoch >= -1 /\ finalizedEpoch >= -1
           /\ justifiedEpoch >= 0 => justifiedEpoch \in Epochs
           /\ finalizedEpoch >= 0 => finalizedEpoch \in Epochs
           /\ EpochOf(tip + 1) \in Nat /\ EpochOf(tip + 2) \in Nat
           /\ EpochOf(tip + 1) <= EpochOf(tip + 2)
           /\ tip >= 0 => EpochOf(tip) \in Epochs /\ EpochOf(tip) <= EpochOf(tip + 1)
           /\ tip >= 0 /\ IsLastOfEpoch(tip) => EpochOf(tip + 1) = EpochOf(tip) + 1
  <1>1. /\ tip \in Int /\ slot \in Int /\ tip >= -1
        /\ tip >= 0 => tip \in Slots
    BY EpochAssumption DEF TypeOK, Slots, NoSlot
  <1>2. Epochs \subseteq Nat
    BY EpochAssumption, EpochOfType DEF Epochs
  <1>3. EpochOf(tip + 1) \in Nat /\ EpochOf(tip + 2) \in Nat
    BY <1>1, EpochOfType
  <1>4. EpochOf(tip + 1) <= EpochOf(tip + 2)
    BY <1>1, EpochMonotone
  <1>5. tip >= 0 => EpochOf(tip) \in Epochs /\ EpochOf(tip) <= EpochOf(tip + 1)
    BY <1>1, EpochMonotone, EpochOfSlot
  <1>6. tip >= 0 /\ IsLastOfEpoch(tip) => EpochOf(tip + 1) = EpochOf(tip) + 1
    BY <1>1, NextEpoch
  <1> QED  BY <1>1, <1>2, <1>3, <1>4, <1>5, <1>6 DEF TypeOK, NoEpoch

LEMMA FinalityInit == Init => FinalityInv
  BY EpochAssumption
  DEF Init, FinalityInv, FinalityBacked, NoCheckpoint, NoSlot, NoEpoch, EpochOf

LEMMA FinalityStep ==
    ASSUME TypeOK, FinalityInv, [Next]_vars
    PROVE  FinalityInv'
  <1> USE EpochsAroundTip DEF FinalityInv, FinalityBacked, GoTo, Continue, Finish, Yield
  <1>1. CASE ProposeStep \/ Start \/ LoadValidators \/ RunEnds
    BY <1>1 DEF ProposeStep, Start, LoadValidators, RunEnds, BeginSlot, AssignDuty,
       AssignProposal, Build, Drain, Assemble, Skip
  <1>2. CASE SaveBlock \/ IndexBlock
    BY <1>2 DEF SaveBlock, IndexBlock
  <1>3. CASE SetTip
    BY <1>3 DEF SetTip, TypeOK, StageOK
  <1>4. CASE CommitProposal \/ Attest \/ Tally
    BY <1>4 DEF CommitProposal, Attest, Tally
  <1>5. CASE SaveCheckpoint
    <2>1. tip >= 0 /\ slot = tip /\ IsLastOfEpoch(tip)
      BY <1>5 DEF SaveCheckpoint, TypeOK, StageOK
    <2>2. \A e \in Epochs : checkpoints'[e] =
            IF e = EpochOf(tip) THEN [status |-> "justified", root |-> winner]
                                ELSE checkpoints[e]
      BY <1>5, <2>1 DEF SaveCheckpoint, TypeOK
    <2>3. UNCHANGED <<tip, slot, justifiedEpoch, finalizedEpoch>> /\ pc' = "mark_justified"
      BY <1>5 DEF SaveCheckpoint
    <2> QED  BY <1>5, <2>1, <2>2, <2>3 DEF SaveCheckpoint
  <1>6. CASE Link
    <2>1. tip >= 0 /\ slot = tip
      BY <1>6 DEF Link, TypeOK, StageOK
    <2>2. UNCHANGED <<tip, slot, justifiedEpoch, finalizedEpoch>> /\ pc = "link"
      BY <1>6 DEF Link
    <2>3. CASE ExtendsJustified(EpochOf(slot))
      <3>1. \A e \in Epochs : checkpoints'[e] =
              IF e = EpochOf(tip) - 1 THEN [checkpoints[e] EXCEPT !.status = "finalized"]
                                      ELSE checkpoints[e]
        BY <1>6, <2>1, <2>3 DEF Link, TypeOK
      <3>2. /\ EpochOf(tip) - 1 = justifiedEpoch /\ EpochOf(tip) - 1 \in Epochs
            /\ pc' = "mark_finalized"
        BY <1>6, <2>1, <2>3 DEF Link, ExtendsJustified
      <3>3. \A e \in Epochs :
              checkpoints'[e].status = IF e = EpochOf(tip) - 1 THEN "finalized"
                                                              ELSE checkpoints[e].status
        <4>1. \A e \in Epochs :
                checkpoints[e] \in [status : CheckpointStatus, root : Slots \cup {NoSlot}]
          BY DEF TypeOK
        <4> QED  BY <3>1, <4>1
      <3>4. checkpoints[EpochOf(tip) - 1].status # "none"
        BY <3>2
      <3>5. \A e \in Epochs : checkpoints'[e].status # "none" <=> checkpoints[e].status # "none"
        BY <3>3, <3>4
      <3>6. FinalityBacked'
        <4>1. finalizedEpoch < justifiedEpoch => finalizedEpoch + 1 \in Epochs \/ finalizedEpoch < 0
          <5>1. EpochOf(MaxSlot) \in Int
            BY EpochAssumption, EpochOfType
          <5> QED  BY <5>1 DEF Epochs
        <4> QED  BY <2>2, <3>3, <3>5, <4>1
      <3> QED
        BY <2>1, <2>2, <3>2, <3>3, <3>5, <3>6 DEF ExtendsJustified
    <2>4. CASE ~ExtendsJustified(EpochOf(slot))
      BY <1>6, <2>1, <2>2, <2>4 DEF Link, ExtendsJustified
    <2> QED  BY <2>3, <2>4
  <1>7. CASE UpdateFinality
    <2>1. tip >= 0 /\ slot = tip /\ IsLastOfEpoch(tip)
      BY <1>7 DEF UpdateFinality, TypeOK, StageOK
    <2> QED  BY <1>7, <2>1 DEF UpdateFinality, ExtendsJustified
  <1>8. CASE MarkJustified \/ MarkFinalized \/ FlagJustified \/ FlagFinalized
    BY <1>8 DEF MarkJustified, MarkFinalized, FlagJustified, FlagFinalized, MarkNext,
       ExtendsJustified
  <1>9. CASE Crash \/ Submit \/ Churn \/ UNCHANGED vars
    BY <1>9 DEF Crash, Submit, Churn, SubmitTx, RegisterValidator, UpdateValidatorStatus,
       ExtendsJustified
  <1> QED
    BY <1>1, <1>2, <1>3, <1>4, <1>5, <1>6, <1>7, <1>8, <1>9
    DEF Next, RunStep, CommitStep, FinalizeStep

LEMMA FinalityInvariant == Spec => []FinalityInv
  BY TypeInvariant, FinalityInit, FinalityStep, PTL DEF Spec

\* Whatever writes of the finalizer were lost: the finalized epoch has a finalized
\* checkpoint and a justified child, and the justified epoch has a checkpoint.
THEOREM FinalityTheorem == Spec => []FinalityBacked
  BY FinalityInvariant, PTL DEF FinalityInv

-----------------------------------------------------------------------------
(* Marks on blocks.                                                        *)

\* The loops of marks write only to blocks of the epoch they are for.
MarkInv ==
    /\ MarksBacked
    /\ pc = "mark_justified" => \A s \in todo : EpochOf(s) = EpochOf(slot)
    /\ pc = "mark_finalized" => \A s \in todo : EpochOf(s) = EpochOf(slot) - 1
    /\ pc = "flag_justified" => \A s \in todo : EpochOf(s) = justifiedEpoch
    /\ pc = "flag_finalized" => \A s \in todo : EpochOf(s) = finalizedEpoch

LEMMA MarkInit == Init => MarkInv
  BY EpochAssumption DEF Init, MarkInv, MarksBacked, NoBlock, Slots

\* What a mark does to the blocks.
LEMMA MarkWrites ==
    ASSUME TypeOK, todo \subseteq Slots, NEW field \in {"status", "justified", "finalized"},
           NEW value, MarkNext(field, value)
    PROVE  /\ UNCHANGED <<pc, slot>> /\ todo' \subseteq todo
           /\ \E b \in todo : \A s \in Slots :
                /\ blocks'[s].status =
                     IF s = b /\ field = "status" THEN value ELSE blocks[s].status
                /\ blocks'[s].justified =
                     IF s = b /\ field = "justified" THEN value ELSE blocks[s].justified
                /\ blocks'[s].finalized =
                     IF s = b /\ field = "finalized" THEN value ELSE blocks[s].finalized
  <1>1. PICK b \in todo : blocks' = [blocks EXCEPT ![b] = [@ EXCEPT ![field] = value]]
    BY DEF MarkNext
  <1>2. blocks \in [Slots -> Block] /\ b \in Slots
    BY DEF TypeOK
  <1>3. \A s \in Slots :
          /\ blocks'[s].status =
               IF s = b /\ field = "status" THEN value ELSE blocks[s].status
          /\ blocks'[s].justified =
               IF s = b /\ field = "justified" THEN value ELSE blocks[s].justified
          /\ blocks'[s].finalized =
               IF s = b /\ field = "finalized" THEN value ELSE blocks[s].finalized
    BY <1>1, <1>2 DEF Block
  <1> QED  BY <1>3 DEF MarkNext, Continue

LEMMA MarkStep ==
    ASSUME TypeOK, FinalityInv, MarkInv, [Next]_vars
    PROVE  MarkInv'
  <1> DEFINE Backed(s) ==
        /\ blocks[s].justified => EpochOf(s) <= justifiedEpoch
        /\ blocks[s].finalized => EpochOf(s) <= finalizedEpoch
        /\ blocks[s].status # "proposed" => checkpoints[EpochOf(s)].status # "none"
        /\ blocks[s].status = "finalized" => checkpoints[EpochOf(s)].status = "finalized"
  <1> USE DEF MarkInv, GoTo, Continue, Finish, Yield
  <1>1. /\ 1 .. MaxSlot \subseteq Slots
        /\ \A s \in Slots : EpochOf(s) \in Epochs
        /\ blocks \in [Slots -> Block]
    BY EpochAssumption, EpochOfSlot DEF Slots, TypeOK
  <1>2. /\ MarksBacked <=> \A s \in 1 .. MaxSlot : Backed(s)
        /\ MarksBacked' <=> \A s \in 1 .. MaxSlot : Backed(s)'
    BY DEF MarksBacked
  <1>3. ASSUME UNCHANGED <<blocks, checkpoints, justifiedEpoch, finalizedEpoch>>
        PROVE  MarksBacked'
    BY <1>3 DEF MarksBacked
  <1>4. CASE ProposeStep \/ Start \/ LoadValidators \/ RunEnds
    BY <1>3, <1>4 DEF ProposeStep, Start, LoadValidators, RunEnds, BeginSlot, AssignDuty,
       AssignProposal, Build, Drain, Assemble, Skip
  <1>5. CASE SaveBlock \/ IndexBlock
    <2>1. \A s \in Slots \ {0} :
            \/ /\ blocks'[s].justified = blocks[s].justified
               /\ blocks'[s].finalized = blocks[s].finalized
               /\ blocks'[s].status = blocks[s].status
            \/ /\ blocks'[s].justified = FALSE
               /\ blocks'[s].finalized = FALSE
               /\ blocks'[s].status = "proposed"
      <3>1. CASE SaveBlock
        BY <1>1, <3>1 DEF SaveBlock, NoBlock
      <3>2. CASE IndexBlock
        BY <1>1, <3>2 DEF IndexBlock, Block
      <3> QED  BY <1>5, <3>1, <3>2
    <2>2. \A s \in 1 .. MaxSlot : Backed(s)'
      BY <1>1, <1>2, <1>5, <2>1 DEF SaveBlock, IndexBlock
    <2> HIDE DEF Backed
    <2> QED  BY <1>2, <1>5, <2>2 DEF SaveBlock, IndexBlock
  <1>6. CASE SetTip \/ CommitProposal \/ Attest \/ Tally
    BY <1>3, <1>6 DEF SetTip, CommitProposal, Attest, Tally
  <1>7. CASE SaveCheckpoint
    <2>1. tip >= 0 /\ slot = tip
      BY <1>7, EpochsAroundTip DEF SaveCheckpoint, TypeOK, StageOK
    <2>2. EpochOf(tip) \in Epochs /\ checkpoints[EpochOf(tip)].status = "none"
      BY <1>7, <2>1, EpochsAroundTip DEF SaveCheckpoint, FinalityInv
    <2>3. \A e \in Epochs : checkpoints'[e].status =
            IF e = EpochOf(tip) THEN "justified" ELSE checkpoints[e].status
      BY <1>7, <2>1 DEF SaveCheckpoint, TypeOK
    <2>4. \A s \in 1 .. MaxSlot : Backed(s)'
      BY <1>1, <1>2, <1>7, <2>2, <2>3 DEF SaveCheckpoint
    <2> HIDE DEF Backed
    <2> QED  BY <1>2, <1>7, <2>4 DEF SaveCheckpoint, IndexedBlocks, EpochSlots
  <1>8. CASE Link
    <2>1. \A e \in Epochs :
            /\ checkpoints[e].status # "none" => checkpoints'[e].status # "none"
            /\ checkpoints[e].status = "finalized" => checkpoints'[e].status = "finalized"
      <3>1. \A e \in Epochs :
              checkpoints[e] \in [status : CheckpointStatus, root : Slots \cup {NoSlot}]
        BY DEF TypeOK
      <3>2. checkpoints \in [Epochs -> [status : CheckpointStatus, root : Slots \cup {NoSlot}]]
        BY DEF TypeOK
      <3> QED  BY <1>8, <3>1, <3>2 DEF Link
    <2>2. \A s \in 1 .. MaxSlot : Backed(s)'
      BY <1>1, <1>2, <1>8, <2>1 DEF Link
    <2> HIDE DEF Backed
    <2> QED  BY <1>2, <1>8, <2>2 DEF Link, IndexedBlocks, EpochSlots
  <1>9. CASE UpdateFinality
    <2>1. tip >= 0 /\ slot = tip
      BY <1>9, EpochsAroundTip DEF UpdateFinality, TypeOK, StageOK
    <2>2. justifiedEpoch <= justifiedEpoch' /\ finalizedEpoch <= finalizedEpoch'
      BY <1>9, <2>1, EpochsAroundTip
      DEF UpdateFinality, FinalityInv, FinalityBacked, ExtendsJustified
    <2>3. /\ justifiedEpoch \in Int /\ justifiedEpoch' \in Int
          /\ finalizedEpoch \in Int /\ finalizedEpoch' \in Int
          /\ \A e \in Epochs : e \in Int
      BY <1>9, <2>1, EpochsAroundTip DEF UpdateFinality
    <2>4. \A s \in 1 .. MaxSlot : Backed(s)'
      BY <1>1, <1>2, <1>9, <2>2, <2>3 DEF UpdateFinality
    <2> HIDE DEF Backed
    <2> QED  BY <1>2, <1>9, <2>4 DEF UpdateFinality, IndexedBlocks, EpochSlots
  <1>10. CASE MarkJustified
    <2>1. CASE todo = {} /\ GoTo("link") /\ UNCHANGED todo /\ UNCHANGED chainVars
      BY <1>3, <1>10, <2>1 DEF MarkJustified
    <2>2. CASE MarkNext("status", "justified")
      <3>1. todo \subseteq Slots /\ checkpoints[EpochOf(slot)].status # "none"
        BY <1>10 DEF MarkJustified, TypeOK, TodoOK, FinalityInv
      <3>2. \A s \in 1 .. MaxSlot : Backed(s)'
        BY <1>1, <1>2, <1>10, <2>2, <3>1, MarkWrites DEF MarkJustified
      <3> HIDE DEF Backed
      <3> QED  BY <1>2, <1>10, <2>2, <3>1, <3>2, MarkWrites DEF MarkJustified
    <2> QED  BY <1>10, <2>1, <2>2 DEF MarkJustified
  <1>11. CASE MarkFinalized
    <2>1. CASE todo = {} /\ GoTo("update_finality") /\ UNCHANGED todo /\ UNCHANGED chainVars
      BY <1>3, <1>11, <2>1 DEF MarkFinalized
    <2>2. CASE MarkNext("status", "finalized")
      <3>1. todo \subseteq Slots /\ checkpoints[EpochOf(slot) - 1].status = "finalized"
        BY <1>11 DEF MarkFinalized, TypeOK, TodoOK, FinalityInv
      <3>2. \A s \in 1 .. MaxSlot : Backed(s)'
        BY <1>1, <1>2, <1>11, <2>2, <3>1, MarkWrites DEF MarkFinalized
      <3> HIDE DEF Backed
      <3> QED  BY <1>2, <1>11, <2>2, <3>1, <3>2, MarkWrites DEF MarkFinalized
    <2> QED  BY <1>11, <2>1, <2>2 DEF MarkFinalized
  <1>12. CASE FlagJustified
    <2>1. CASE /\ todo = {} /\ GoTo("flag_finalized")
               /\ todo' = IndexedBlocks(finalizedEpoch) /\ UNCHANGED chainVars
      BY <1>3, <1>12, <2>1 DEF FlagJustified, IndexedBlocks, EpochSlots
    <2>2. CASE MarkNext("justified", TRUE)
      <3>1. todo \subseteq Slots /\ \A s \in todo : EpochOf(s) <= justifiedEpoch
        BY <1>12, EpochsAroundTip DEF FlagJustified, TypeOK, TodoOK
      <3>2. \A s \in 1 .. MaxSlot : Backed(s)'
        BY <1>1, <1>2, <1>12, <2>2, <3>1, MarkWrites DEF FlagJustified
      <3> HIDE DEF Backed
      <3> QED  BY <1>2, <1>12, <2>2, <3>1, <3>2, MarkWrites DEF FlagJustified
    <2> QED  BY <1>12, <2>1, <2>2 DEF FlagJustified
  <1>13. CASE FlagFinalized
    <2>1. CASE todo = {} /\ Yield("block") /\ UNCHANGED chainVars
      BY <1>3, <1>13, <2>1 DEF FlagFinalized
    <2>2. CASE MarkNext("finalized", TRUE)
      <3>1. todo \subseteq Slots /\ \A s \in todo : EpochOf(s) <= finalizedEpoch
        BY <1>13, EpochsAroundTip DEF FlagFinalized, TypeOK, TodoOK
      <3>2. \A s \in 1 .. MaxSlot : Backed(s)'
        BY ZenonT(20), <1>1, <1>2, <1>13, <2>2, <3>1, MarkWrites DEF FlagFinalized
      <3> HIDE DEF Backed
      <3> QED  BY <1>2, <1>13, <2>2, <3>1, <3>2, MarkWrites DEF FlagFinalized
    <2> QED  BY <1>13, <2>1, <2>2 DEF FlagFinalized
  <1>14. CASE Crash \/ Submit \/ Churn \/ UNCHANGED vars
    BY <1>3, <1>14 DEF Crash, Submit, Churn, SubmitTx, RegisterValidator, UpdateValidatorStatus
  <1> QED
    BY <1>4, <1>5, <1>6, <1>7, <1>8, <1>9, <1>10, <1>11, <1>12, <1>13, <1>14
    DEF Next, RunStep, CommitStep, FinalizeStep

\* The flags and statuses readers see on blocks never claim more than checkpoints
\* and finality index do, although each is a write of its own and a run may die
\* between any two.
THEOREM MarksTheorem == Spec => []MarksBacked
  <1>1. MarkInv => MarksBacked
    BY DEF MarkInv
  <1> QED  BY <1>1, TypeInvariant, FinalityInvariant, MarkInit, MarkStep, PTL DEF Spec

-----------------------------------------------------------------------------
(* Votes and checkpoints.                                                  *)

\* Attestations in a block are of its epoch, and wait until the block's run votes
\* for them; the elected root is one of the votes.
VoteInv ==
    /\ VotesOnChain
    /\ CheckpointOnChain
    /\ \A s \in Slots : \A d \in blocks[s].atts : EpochOf(d[1]) = EpochOf(s)
    /\ pc = "assign_duties" => \A d \in todo : attestations[d] = NoDuty
    /\ pc \in {"index_block", "set_tip", "commit_proposal"} =>
         \A d \in blocks[slot].atts : attestations[d] = Awaiting
    /\ pc = "attest" =>
         \A d \in todo : d \in blocks[slot].atts /\ attestations[d] = Awaiting
    /\ pc = "checkpoint" => winner \in 1 .. tip /\ EpochOf(winner) = EpochOf(slot)

LEMMA VoteInit == Init => VoteInv
  BY DEF Init, VoteInv, VotesOnChain, CheckpointOnChain, NoBlock, NoCheckpoint, NoDuty

LEMMA VoteStep ==
    ASSUME TypeOK, TypeOK', FinalityInv, VoteInv, [Next]_vars
    PROVE  VoteInv'
  <1> USE DEF VoteInv, VotesOnChain, CheckpointOnChain, GoTo, Continue, Finish, Yield
  <1>0. /\ MaxSlot \in Nat /\ Slots = 0 .. MaxSlot
        /\ tip \in Int /\ tip >= -1 /\ slot \in Int /\ slot >= -1
        /\ tip <= MaxSlot /\ slot <= MaxSlot
        /\ blocks \in [Slots -> Block]
        /\ attestations \in [Duties -> {NoDuty, Awaiting} \cup Slots]
        /\ NoDuty = -2 /\ Awaiting = -1
    BY EpochAssumption DEF TypeOK, Slots, NoSlot, NoDuty, Awaiting
  <1>1. CASE Start \/ LoadValidators \/ RunEnds
    BY <1>0, <1>1 DEF Start, LoadValidators, RunEnds
  <1>2. CASE BeginSlot
    <2>1. ASSUME NEW e, EpochDuties(e) = {}, NEW d \in EpochSlots(e) \X ActiveNow
          PROVE  attestations[d] = NoDuty
      BY <2>1 DEF EpochDuties, EpochSlots, ActiveNow, Duties
    <2> QED  BY <1>0, <1>2, <2>1 DEF BeginSlot
  <1>3. CASE AssignDuty
    <2>1. CASE todo = {}
      BY <1>0, <1>3, <2>1 DEF AssignDuty
    <2>2. CASE todo # {}
      <3>1. PICK d \in todo : /\ attestations' = [attestations EXCEPT ![d] = Awaiting]
                             /\ todo' = todo \ {d}
        BY <1>3, <2>2 DEF AssignDuty
      <3>2. UNCHANGED <<tip, blocks, checkpoints, pc, slot>> /\ pc = "assign_duties"
        BY <1>3, <2>2 DEF AssignDuty
      <3> QED  BY <1>0, <3>1, <3>2
    <2> QED  BY <2>1, <2>2
  <1>4. CASE AssignProposal \/ Build \/ Drain \/ Assemble
    BY <1>0, <1>4 DEF AssignProposal, Build, Drain, Assemble, Skip
  <1>5. CASE SaveBlock
    <2>1. \A d \in FirstN(Waiting(EpochOf(slot)), Cardinality(active)) :
            EpochOf(d[1]) = EpochOf(slot) /\ attestations[d] = Awaiting
      BY DEF FirstN, Waiting, EpochDuties
    <2>2. slot \in Slots /\ slot = tip + 1
      BY <1>0, <1>5 DEF SaveBlock, TypeOK, StageOK
    <2>3. blocks'[slot].atts = {} \/
          blocks'[slot].atts = FirstN(Waiting(EpochOf(slot)), Cardinality(active))
      BY <1>0, <1>5, <2>2 DEF SaveBlock, NoBlock
    <2>4. \A s \in Slots : s # slot => blocks'[s] = blocks[s]
      BY <1>0, <1>5 DEF SaveBlock
    <2>5. UNCHANGED <<tip, attestations, checkpoints, slot>> /\ pc' = "index_block"
      BY <1>5 DEF SaveBlock
    <2> QED  BY <1>0, <2>1, <2>2, <2>3, <2>4, <2>5
  <1>6. CASE IndexBlock
    BY <1>0, <1>6 DEF IndexBlock, Block
  <1>7. CASE SetTip
    BY <1>0, <1>7 DEF SetTip, TypeOK, StageOK
  <1>8. CASE CommitProposal
    BY <1>0, <1>8 DEF CommitProposal
  <1>9. CASE Attest
    <2>1. slot \in Slots /\ slot = tip /\ tip > 0 /\ todo \subseteq Duties
      BY <1>0, <1>9 DEF Attest, TypeOK, StageOK, TodoOK
    <2> QED  BY <1>0, <1>9, <2>1 DEF Attest
  <1>10. CASE Tally
    <2>1. \A b \in Roots(EpochOf(slot)) : b \in 1 .. tip /\ EpochOf(b) = EpochOf(slot)
      BY <1>0 DEF Roots, VotesFor, EpochDuties
    <2> QED  BY <1>0, <1>10, <2>1 DEF Tally
  <1>11. CASE SaveCheckpoint
    <2>1. /\ checkpoints' = [checkpoints EXCEPT ![EpochOf(slot)] =
                               [status |-> "justified", root |-> winner]]
          /\ UNCHANGED <<tip, blocks, attestations>> /\ pc' = "mark_justified"
      BY <1>11 DEF SaveCheckpoint
    <2>2. winner \in 1 .. tip /\ EpochOf(winner) = EpochOf(slot)
      BY <1>11 DEF SaveCheckpoint
    <2>3. \A e \in Epochs : checkpoints'[e] =
            IF e = EpochOf(slot) THEN [status |-> "justified", root |-> winner]
                                 ELSE checkpoints[e]
      BY <2>1 DEF TypeOK
    <2> QED  BY <1>0, <2>1, <2>2, <2>3
  <1>12. CASE Link
    <2>1. \A e \in Epochs : /\ checkpoints'[e].root = checkpoints[e].root
                            /\ checkpoints[e].status = "none" => checkpoints'[e].status = "none"
      BY <1>12 DEF Link, TypeOK, ExtendsJustified, FinalityInv, FinalityBacked
    <2>2. UNCHANGED <<tip, blocks, attestations>> /\ pc' \in {"mark_finalized", "update_finality"}
      BY <1>12 DEF Link
    <2> QED  BY <1>0, <2>1, <2>2
  <1>13. CASE UpdateFinality
    BY <1>0, <1>13 DEF UpdateFinality
  <1>14. CASE MarkJustified \/ MarkFinalized \/ FlagJustified \/ FlagFinalized
    <2>1. CASE blocks' = blocks
      BY <1>0, <1>14, <2>1
      DEF MarkJustified, MarkFinalized, FlagJustified, FlagFinalized, MarkNext
    <2>2. CASE blocks' # blocks
      <3>1. /\ pc' = pc /\ UNCHANGED <<tip, slot, attestations, checkpoints>>
            /\ pc \in {"mark_justified", "mark_finalized", "flag_justified", "flag_finalized"}
        BY <1>14, <2>2
        DEF MarkJustified, MarkFinalized, FlagJustified, FlagFinalized, MarkNext
      <3>2. todo \subseteq Slots
        BY <3>1 DEF TypeOK, TodoOK
      <3>3. \A s \in Slots : blocks'[s].atts = blocks[s].atts
        BY <1>14, <2>2, <3>2, MarkKeepsChain
        DEF MarkJustified, MarkFinalized, FlagJustified, FlagFinalized
      <3> QED  BY <1>0, <3>1, <3>3
    <2> QED  BY <2>1, <2>2
  <1>15. CASE Crash \/ Submit \/ Churn \/ UNCHANGED vars
    BY <1>0, <1>15 DEF Crash, Submit, Churn, SubmitTx, RegisterValidator,
       UpdateValidatorStatus
  <1> QED
    BY <1>1, <1>2, <1>3, <1>4, <1>5, <1>6, <1>7, <1>8, <1>9, <1>10, <1>11, <1>12, <1>13,
       <1>14, <1>15
    DEF Next, RunStep, ProposeStep, CommitStep, FinalizeStep

LEMMA VoteInvariant == Spec => []VoteInv
  BY TypeInvariant, FinalityInvariant, VoteInit, VoteStep, PTL DEF Spec

\* Every recorded vote is for a block of the chain, in the epoch of its duty, that
\* includes it.
THEOREM VotesTheorem == Spec => []VotesOnChain
  BY VoteInvariant, PTL DEF VoteInv

\* Every checkpoint's root is a block of the chain in the checkpoint's epoch.
THEOREM CheckpointTheorem == Spec => []CheckpointOnChain
  BY VoteInvariant, PTL DEF VoteInv

-----------------------------------------------------------------------------
(* Blocks pay every attestation once, as long as no run is interrupted.    *)

\* Every step but a crash.
SteadyStep == [RunStep \/ Submit \/ Churn]_vars

\* A block of the chain holds the vote of every attestation it includes, unless it
\* is the tip and its run has still to write that vote.
IncludedInv ==
    /\ blocks[0].atts = {}
    /\ \A s \in 0 .. tip : \A d \in blocks[s].atts :
         \/ attestations[d] = s
         \/ s = tip /\ pc = "commit_proposal"
         \/ s = tip /\ pc = "attest" /\ d \in todo

LEMMA IncludedInit == Init => IncludedInv
  BY EpochAssumption DEF Init, IncludedInv, NoBlock, NoSlot, Slots

LEMMA IncludedStep ==
    ASSUME TypeOK, VoteInv, IncludedInv, SteadyStep
    PROVE  IncludedInv'
  <1> USE DEF IncludedInv, GoTo, Continue, Finish, Yield
  <1>0. /\ MaxSlot \in Nat /\ Slots = 0 .. MaxSlot
        /\ tip \in Int /\ tip >= -1 /\ slot \in Int /\ slot >= -1
        /\ tip <= MaxSlot /\ slot <= MaxSlot
        /\ blocks \in [Slots -> Block]
        /\ attestations \in [Duties -> {NoDuty, Awaiting} \cup Slots]
        /\ NoDuty = -2 /\ Awaiting = -1
        /\ \A s \in Slots : blocks[s].atts \subseteq Duties
    <2>1. \A b \in Block : b.atts \subseteq Duties
      BY DEF Block
    <2> QED  BY SMTT(20), <2>1, EpochAssumption DEF TypeOK, Slots, NoSlot, NoDuty, Awaiting
  <1>1. CASE Start \/ LoadValidators \/ RunEnds \/ BeginSlot
    BY <1>0, <1>1 DEF Start, LoadValidators, RunEnds, BeginSlot
  <1>2. CASE AssignDuty
    <2>1. CASE todo = {}
      BY <1>0, <1>2, <2>1 DEF AssignDuty
    <2>2. CASE todo # {}
      <3>1. PICK d \in todo : attestations' = [attestations EXCEPT ![d] = Awaiting]
        BY <1>2, <2>2 DEF AssignDuty
      <3>2. UNCHANGED <<tip, blocks, pc>> /\ pc = "assign_duties"
        BY <1>2, <2>2 DEF AssignDuty
      <3>3. attestations[d] = NoDuty
        BY <3>2 DEF VoteInv
      <3> QED  BY <1>0, <3>1, <3>2, <3>3
    <2> QED  BY <2>1, <2>2
  <1>3. CASE AssignProposal \/ Build \/ Drain \/ Assemble
    BY <1>0, <1>3 DEF AssignProposal, Build, Drain, Assemble, Skip
  <1>4. CASE SaveBlock
    <2>1. slot \in Slots /\ slot = tip + 1
      BY <1>0, <1>4 DEF SaveBlock, TypeOK, StageOK
    <2>2. slot = 0 => blocks'[slot].atts = {}
      BY <1>0, <1>4, <2>1 DEF SaveBlock, NoBlock
    <2>3. \A s \in Slots : s # slot => blocks'[s] = blocks[s]
      BY <1>0, <1>4 DEF SaveBlock
    <2>4. UNCHANGED <<tip, attestations>> /\ pc = "save_block"
      BY <1>4 DEF SaveBlock
    <2> QED  BY <1>0, <2>1, <2>2, <2>3, <2>4
  <1>5. CASE IndexBlock
    <2>1. \A s \in Slots : blocks'[s].atts = blocks[s].atts
      BY <1>0, <1>5 DEF IndexBlock, Block
    <2> QED  BY <1>0, <1>5, <2>1 DEF IndexBlock
  <1>6. CASE SetTip
    BY <1>0, <1>6 DEF SetTip, TypeOK, StageOK
  <1>7. CASE CommitProposal
    <2>1. slot = tip
      BY <1>7 DEF CommitProposal, TypeOK, StageOK
    <2> QED  BY <1>0, <1>7, <2>1 DEF CommitProposal
  <1>8. CASE Attest
    <2>1. slot \in Slots /\ slot = tip /\ tip > 0 /\ todo \subseteq Duties /\ pc = "attest"
      BY <1>0, <1>8 DEF Attest, TypeOK, StageOK, TodoOK
    <2>2. \A d \in todo : attestations[d] = Awaiting
      BY <2>1 DEF VoteInv
    <2>3. CASE todo = {}
      BY <1>0, <1>8, <2>1, <2>3 DEF Attest
    <2>4. CASE todo # {}
      <3>1. PICK d \in todo : /\ attestations' = [attestations EXCEPT ![d] = slot]
                              /\ todo' = todo \ {d}
                              /\ UNCHANGED <<tip, blocks, pc>>
        BY <1>8, <2>4 DEF Attest
      <3> QED  BY <1>0, <2>1, <2>2, <3>1
    <2> QED  BY <2>3, <2>4
  <1>9. CASE Tally \/ SaveCheckpoint \/ Link \/ UpdateFinality
    BY <1>0, <1>9 DEF Tally, SaveCheckpoint, Link, UpdateFinality
  <1>10. CASE MarkJustified \/ MarkFinalized \/ FlagJustified \/ FlagFinalized
    <2>1. CASE blocks' = blocks
      BY <1>0, <1>10, <2>1
      DEF MarkJustified, MarkFinalized, FlagJustified, FlagFinalized, MarkNext
    <2>2. CASE blocks' # blocks
      <3>1. /\ pc' = pc /\ UNCHANGED <<tip, attestations>>
            /\ pc \in {"mark_justified", "mark_finalized", "flag_justified", "flag_finalized"}
        BY <1>10, <2>2
        DEF MarkJustified, MarkFinalized, FlagJustified, FlagFinalized, MarkNext
      <3>2. todo \subseteq Slots
        BY <3>1 DEF TypeOK, TodoOK
      <3>3. \A s \in Slots : blocks'[s].atts = blocks[s].atts
        BY <1>10, <2>2, <3>2, MarkKeepsChain
        DEF MarkJustified, MarkFinalized, FlagJustified, FlagFinalized
      <3> QED  BY <1>0, <3>1, <3>3
    <2> QED  BY <2>1, <2>2
  <1>11. CASE Submit \/ Churn \/ UNCHANGED vars
    BY <1>0, <1>11 DEF Submit, Churn, SubmitTx, RegisterValidator, UpdateValidatorStatus
  <1> QED
    BY <1>1, <1>2, <1>3, <1>4, <1>5, <1>6, <1>7, <1>8, <1>9, <1>10, <1>11
    DEF SteadyStep, RunStep, ProposeStep, CommitStep, FinalizeStep

\* Two blocks that share an attestation would both be its vote, or one of them
\* would be its vote while the run of the other finds it still waiting.
LEMMA IncludedDisjoint ==
    ASSUME TypeOK, VoteInv, IncludedInv
    PROVE  NoDoubleInclusion
  <1>1. SUFFICES ASSUME NEW s \in 0 .. tip, NEW t \in 0 .. tip, s < t,
                        NEW d \in blocks[s].atts, d \in blocks[t].atts
                 PROVE  FALSE
    BY EpochAssumption DEF TypeOK, Slots, NoSlot, NoDoubleInclusion
  <1>2. attestations[d] = s /\ s >= 0 /\ s # t
    BY <1>1, EpochAssumption DEF IncludedInv, TypeOK, Slots, NoSlot
  <1>3. t = tip /\ (pc = "commit_proposal" \/ (pc = "attest" /\ d \in todo))
    BY <1>1, <1>2 DEF IncludedInv
  <1>4. slot = tip
    BY <1>3 DEF TypeOK, StageOK
  <1>5. attestations[d] = -1
    BY <1>1, <1>3, <1>4 DEF VoteInv, Awaiting
  <1> QED  BY <1>2, <1>5

LEMMA SteadyIsSpec == SteadySpec => Spec
  <1>1. [RunStep \/ Submit \/ Churn]_vars => [Next]_vars
    BY DEF Next
  <1> QED  BY <1>1, PTL DEF SteadySpec, Spec

LEMMA IncludedInvariant == SteadySpec => []IncludedInv
  <1>1. TypeOK /\ VoteInv /\ IncludedInv /\ [RunStep \/ Submit \/ Churn]_vars => IncludedInv'
    BY IncludedStep DEF SteadyStep
  <1> QED
    BY <1>1, SteadyIsSpec, IncludedInit, TypeInvariant, VoteInvariant, PTL DEF SteadySpec

\* A block includes only attestations that wait, and its run votes for all of them
\* before it reads the waiting ones again: as long as no run is interrupted, no two
\* blocks of the chain include the same attestation.
THEOREM NoDoubleInclusionTheorem == SteadySpec => []NoDoubleInclusion
  BY SteadyIsSpec, IncludedInvariant, TypeInvariant, VoteInvariant, IncludedDisjoint, PTL

-----------------------------------------------------------------------------
(* A node whose validators never change, and whose runs are not interrupted. *)

\* A set of duties made of whole rows: with a duty of a slot it has that of every
\* validator in the slot.
InRows(D) == \A d \in D : d[2] \in Bootstrapped /\ \A v \in Bootstrapped : <<d[1], v>> \in D

OneRow(D) == \A d \in D : \A f \in D : d[1] = f[1]

WaitingNow == {d \in Duties : attestations[d] = Awaiting}
UnderVote  == IF pc = "attest" THEN blocks[slot].atts ELSE {}

\* Every validator takes part in every slot: the duties that wait, with those being
\* assigned or voted for, form whole rows, and a block includes one row.
RowInv ==
    /\ validators = [v \in Validators |->
                         IF v \in Bootstrapped THEN "active_ongoing" ELSE "none"]
    /\ pc \in {"next_slot", "yielded"} \cup Proposing \cup Committed => active = Bootstrapped
    /\ pc \in Storing /\ slot > 0 => active = Bootstrapped
    /\ \A s \in Slots : InRows(blocks[s].atts) /\ OneRow(blocks[s].atts)
    /\ IF pc = "assign_duties"
         THEN todo \subseteq Slots \X Bootstrapped /\ InRows(WaitingNow \cup todo)
         ELSE InRows(WaitingNow \cup UnderVote)
    /\ pc = "checkpoint" => Supermajority(EpochOf(slot), winner)

LEMMA RowsUnion ==
    ASSUME NEW D, NEW F, InRows(D), InRows(F)
    PROVE  InRows(D \cup F)
  BY DEF InRows

LEMMA RowsDifference ==
    ASSUME NEW D \in SUBSET Duties, NEW F, InRows(D), InRows(F)
    PROVE  InRows(D \ F)
  <1> SUFFICES ASSUME NEW d \in D \ F
               PROVE  d[2] \in Bootstrapped /\ \A v \in Bootstrapped : <<d[1], v>> \in D \ F
    BY DEF InRows
  <1>1. d[2] \in Bootstrapped /\ d = <<d[1], d[2]>>
    BY DEF InRows, Duties
  <1>2. ASSUME NEW v \in Bootstrapped, <<d[1], v>> \in F
        PROVE  FALSE
    <2>1. \A u \in Bootstrapped : <<d[1], u>> \in F
      BY <1>2 DEF InRows
    <2> QED  BY <1>1, <2>1
  <1> QED  BY <1>1, <1>2 DEF InRows

\* A row has as many duties as there are validators.
LEMMA RowSize ==
    ASSUME NEW r
    PROVE  /\ IsFiniteSet({r} \X Bootstrapped)
           /\ Cardinality({r} \X Bootstrapped) = Cardinality(Bootstrapped)
  <1> DEFINE f == [v \in Bootstrapped |-> <<r, v>>]
  <1>1. f \in Bijection(Bootstrapped, {r} \X Bootstrapped)
    <2>1. f \in [Bootstrapped -> {r} \X Bootstrapped]
      OBVIOUS
    <2>2. \A u, v \in Bootstrapped : f[u] = f[v] => u = v
      OBVIOUS
    <2>3. \A p \in {r} \X Bootstrapped : p[2] \in Bootstrapped /\ f[p[2]] = p
      OBVIOUS
    <2> HIDE DEF f
    <2>4. f \in Injection(Bootstrapped, {r} \X Bootstrapped)
      BY <2>1, <2>2 DEF Injection, IsInjective
    <2>5. f \in Surjection(Bootstrapped, {r} \X Bootstrapped)
      BY <2>1, <2>3 DEF Surjection
    <2> QED  BY <2>4, <2>5 DEF Bijection
  <1>2. IsFiniteSet(Bootstrapped)
    BY ValidatorAssumption, FS_Subset
  <1> HIDE DEF f
  <1>3. ExistsBijection(Bootstrapped, {r} \X Bootstrapped)
    BY <1>1 DEF ExistsBijection
  <1> QED  BY <1>2, <1>3, FS_Bijection

LEMMA DutiesFinite == IsFiniteSet(Duties)
  <1>1. IsFiniteSet(Slots)
    BY EpochAssumption, FS_Interval DEF Slots
  <1> QED  BY <1>1, ValidatorAssumption, FS_Product DEF Duties

\* As many duties as there are validators, taken from whole rows in the order of the
\* duties, are one whole row.
LEMMA FirstRow ==
    ASSUME NEW D \in SUBSET Duties, InRows(D)
    PROVE  LET F == FirstN(D, Cardinality(Bootstrapped)) IN InRows(F) /\ OneRow(F)
  <1> DEFINE n == Cardinality(Bootstrapped)
             Earlier(d) == {e \in D : Before(e, d)}
             F == FirstN(D, n)
  <1>0. n \in Nat /\ IsFiniteSet(Bootstrapped)
    BY ValidatorAssumption, FS_Subset, FS_CardinalityType
  <1>1. \A d \in D : IsFiniteSet(Earlier(d)) /\ Cardinality(Earlier(d)) \in Nat
    BY DutiesFinite, FS_Subset, FS_CardinalityType
  <1>2. ASSUME NEW d \in D
        PROVE  d = <<d[1], d[2]>> /\ d[1] \in Int /\ d[2] \in Int /\ d[2] \in Bootstrapped
    <2>1. d \in Slots \X Validators
      BY DEF Duties
    <2>2. d = <<d[1], d[2]>> /\ d[1] \in Slots /\ d[2] \in Validators
      BY <2>1
    <2>3. d[2] \in Bootstrapped
      BY DEF InRows
    <2> QED  BY <2>2, <2>3, EpochAssumption, ValidatorAssumption DEF Slots
  <1>3. ASSUME NEW d \in F, NEW e \in D, e[1] < d[1]
        PROVE  FALSE
    <2>1. {e[1]} \X Bootstrapped \subseteq Earlier(d)
      BY <1>2, <1>3 DEF InRows, Before, FirstN
    <2>2. n <= Cardinality(Earlier(d)) /\ d \in D
      BY <1>1, <2>1, RowSize, FS_Subset DEF FirstN
    <2>3. Cardinality(Earlier(d)) < n
      BY DEF FirstN
    <2> QED  BY <1>0, <1>1, <2>2, <2>3
  <1>4. OneRow(F)
    <2> SUFFICES ASSUME NEW d \in F, NEW e \in F, d[1] # e[1]
                 PROVE  FALSE
      BY DEF OneRow
    <2>1. d \in D /\ e \in D
      BY DEF FirstN
    <2>2. d[1] < e[1] \/ e[1] < d[1]
      BY <1>2, <2>1
    <2> QED  BY <1>3, <2>1, <2>2
  <1>5. InRows(F)
    <2>0. \A d \in F : d \in D /\ d[2] \in Bootstrapped
      BY DEF FirstN, InRows
    <2> SUFFICES ASSUME NEW d \in F, NEW v \in Bootstrapped
                 PROVE  <<d[1], v>> \in F
      <3> HIDE DEF F
      <3> QED  BY <2>0 DEF InRows
    <2> DEFINE f == <<d[1], v>>
    <2>1. d \in D /\ f \in D /\ d[2] \in Bootstrapped
      BY DEF FirstN, InRows
    <2>2. Earlier(f) \subseteq ({d[1]} \X Bootstrapped) \ {f}
      <3> SUFFICES ASSUME NEW e \in D, Before(e, f)
                   PROVE  e \in ({d[1]} \X Bootstrapped) \ {f}
        OBVIOUS
      <3>1. f[1] = d[1] /\ f[2] = v
        OBVIOUS
      <3>2. e[1] = d[1] /\ e[2] < v
        BY <1>2, <1>3, <2>1, <3>1 DEF Before
      <3> QED  BY <1>2, <3>1, <3>2
    <2>3. Cardinality(({d[1]} \X Bootstrapped) \ {f}) = n - 1
      <3>1. f \in {d[1]} \X Bootstrapped
        OBVIOUS
      <3> DEFINE R == {d[1]} \X Bootstrapped
      <3>2. IsFiniteSet(R) /\ Cardinality(R) = n
        BY RowSize
      <3> HIDE DEF f, R, n
      <3>3. f \in R
        BY <3>1 DEF R
      <3>4. Cardinality(R \ {f}) = Cardinality(R) - 1
        BY <3>2, <3>3, FS_RemoveElement
      <3> QED  BY <3>2, <3>4 DEF R
    <2>4. IsFiniteSet(({d[1]} \X Bootstrapped) \ {f})
      <3>1. IsFiniteSet({d[1]} \X Bootstrapped)
        BY RowSize
      <3> QED  BY <3>1, FS_RemoveElement
    <2>5. Cardinality(Earlier(f)) <= n - 1
      <3> HIDE DEF Earlier, n, f
      <3> QED  BY <2>2, <2>3, <2>4, FS_Subset
    <2>6. Cardinality(Earlier(f)) < n
      BY <1>0, <1>1, <2>1, <2>5
    <2> QED  BY <2>1, <2>6 DEF FirstN
  <1> QED  BY <1>4, <1>5

LEMMA RowInit == Init => RowInv
  <1> SUFFICES ASSUME Init PROVE RowInv
    OBVIOUS
  <1>1. \A s \in Slots : blocks[s].atts = {}
    BY DEF Init, NoBlock
  <1>2. WaitingNow = {} /\ UnderVote = {} /\ pc = "down"
    BY DEF Init, WaitingNow, UnderVote, NoDuty, Awaiting
  <1>3. validators = [v \in Validators |->
                         IF v \in Bootstrapped THEN "active_ongoing" ELSE "none"]
    BY DEF Init
  <1> QED  BY <1>1, <1>2, <1>3 DEF RowInv, InRows, OneRow

\* A step that leaves votes, blocks and validators alone, and is not one of a loop
\* that writes votes, needs only the local facts of RowInv again.
LEMMA RowsKept ==
    ASSUME TypeOK, RowInv, UNCHANGED <<attestations, validators>>,
           \A s \in Slots : blocks'[s].atts = blocks[s].atts,
           pc \notin {"assign_duties", "attest"}, pc' \notin {"assign_duties", "attest"},
           pc' \in {"next_slot", "yielded"} \cup Proposing \cup Committed => active' = Bootstrapped,
           pc' \in Storing /\ slot' > 0 => active' = Bootstrapped,
           pc' = "checkpoint" => Supermajority(EpochOf(slot), winner)'
    PROVE  RowInv'
  <1>1. WaitingNow' = WaitingNow /\ UnderVote = {} /\ UnderVote' = {}
    BY DEF WaitingNow, UnderVote
  <1>2. \A s \in Slots : InRows(blocks'[s].atts) /\ OneRow(blocks'[s].atts)
    BY DEF RowInv
  <1>3. InRows(WaitingNow' \cup UnderVote')
    BY <1>1 DEF RowInv
  <1> QED  BY <1>2, <1>3 DEF RowInv, InRows, OneRow

LEMMA RowStep ==
    ASSUME TypeOK, VoteInv, IncludedInv, RowInv, RunStep
    PROVE  RowInv'
  <1> USE DEF GoTo, Continue, Finish, Yield
  <1>0. /\ Slots = 0 .. MaxSlot /\ MaxSlot \in Nat
        /\ blocks \in [Slots -> Block]
        /\ attestations \in [Duties -> {NoDuty, Awaiting} \cup Slots]
        /\ NoDuty = -2 /\ Awaiting = -1
        /\ tip \in Int /\ tip >= -1 /\ slot \in Int /\ slot <= MaxSlot
    BY EpochAssumption DEF TypeOK, Slots, NoSlot, NoDuty, Awaiting
  <1>1. ActiveNow = Bootstrapped /\ Registered = Bootstrapped
    BY ValidatorAssumption DEF RowInv, ActiveNow, Registered
  <1>2. CASE Start \/ LoadValidators \/ RunEnds
    BY <1>1, <1>2, RowsKept DEF Start, LoadValidators, RunEnds, RowInv
  <1>3. CASE BeginSlot
    <2>1. UNCHANGED <<attestations, validators, blocks>> /\ pc \in {"next_slot", "yielded"}
          /\ active = Bootstrapped
      BY <1>3 DEF BeginSlot, RowInv
    <2>2. CASE pc' = "assign_duties"
      <3>1. active' = active /\ todo' = EpochSlots(EpochOf(tip + 1)) \X Bootstrapped
        BY <1>1, <1>3, <2>2 DEF BeginSlot
      <3>2. todo' \subseteq Slots \X Bootstrapped
        BY <3>1 DEF EpochSlots
      <3>3. InRows(todo')
        BY <3>1 DEF InRows
      <3>4. InRows(WaitingNow) /\ WaitingNow' = WaitingNow
        BY <2>1 DEF RowInv, UnderVote, WaitingNow
      <3>5. InRows(WaitingNow' \cup todo')
        BY <3>3, <3>4, RowsUnion
      <3>6. \A s \in Slots : InRows(blocks'[s].atts) /\ OneRow(blocks'[s].atts)
        BY <2>1 DEF RowInv
      <3>7. InRows((WaitingNow \cup todo)')
        BY <3>5
      <3> QED  BY <2>1, <2>2, <3>1, <3>2, <3>6, <3>7 DEF RowInv, InRows, OneRow
    <2>3. CASE pc' # "assign_duties"
      BY <1>3, <2>1, <2>3, RowsKept DEF BeginSlot
    <2> QED  BY <2>2, <2>3
  <1>4. CASE AssignDuty
    <2>1. UNCHANGED <<validators, blocks, active>> /\ pc = "assign_duties"
          /\ active = Bootstrapped
      BY <1>4 DEF AssignDuty, RowInv
    <2>2. CASE todo = {}
      <3>1. UNCHANGED attestations /\ pc' = "assign_proposal" /\ todo' = {}
        BY <1>4, <2>2 DEF AssignDuty
      <3>2. WaitingNow' = WaitingNow /\ UnderVote' = {}
        BY <3>1 DEF WaitingNow, UnderVote
      <3>3. InRows((WaitingNow \cup UnderVote)')
        BY <2>1, <2>2, <3>2 DEF RowInv
      <3>4. \A s \in Slots : InRows(blocks'[s].atts) /\ OneRow(blocks'[s].atts)
        BY <2>1 DEF RowInv
      <3> QED  BY <2>1, <3>1, <3>3, <3>4 DEF RowInv, InRows, OneRow
    <2>3. CASE todo # {}
      <3>1. PICK d \in todo : /\ attestations' = [attestations EXCEPT ![d] = Awaiting]
                              /\ todo' = todo \ {d} /\ pc' = pc
        BY <1>4, <2>3 DEF AssignDuty
      <3>2. d \in Duties
        BY <1>4 DEF AssignDuty, TypeOK, TodoOK
      <3>3. WaitingNow' = WaitingNow \cup {d}
        BY <1>0, <3>1, <3>2 DEF WaitingNow
      <3>4. (WaitingNow \cup todo)' = WaitingNow \cup todo
        BY <3>1, <3>3
      <3>5. InRows((WaitingNow \cup todo)') /\ todo' \subseteq Slots \X Bootstrapped
        BY <2>1, <3>1, <3>4 DEF RowInv
      <3>6. \A s \in Slots : InRows(blocks'[s].atts) /\ OneRow(blocks'[s].atts)
        BY <2>1 DEF RowInv
      <3> QED  BY <2>1, <3>1, <3>5, <3>6 DEF RowInv, InRows, OneRow
    <2> QED  BY <2>2, <2>3
  <1>5. CASE AssignProposal \/ Build \/ Drain \/ Assemble
    BY <1>5, RowsKept DEF AssignProposal, Build, Drain, Assemble, Skip, RowInv
  <1>6. CASE SaveBlock
    <2>1. UNCHANGED <<attestations, validators, slot, active>> /\ pc = "save_block"
          /\ pc' = "index_block" /\ slot \in Slots
      BY <1>0, <1>6 DEF SaveBlock, TypeOK, StageOK
    <2>2. \A s \in Slots : s # slot => blocks'[s] = blocks[s]
      BY <1>0, <1>6 DEF SaveBlock
    <2>3. InRows(blocks'[slot].atts) /\ OneRow(blocks'[slot].atts)
      <3>1. CASE slot = 0
        BY <1>0, <1>6, <2>1, <3>1 DEF SaveBlock, NoBlock, InRows, OneRow
      <3>2. CASE slot # 0
        <4> DEFINE D == Waiting(EpochOf(slot))
        <4>1. active = Bootstrapped
          BY <1>0, <2>1, <3>2 DEF RowInv
        <4>2. blocks'[slot].atts = FirstN(D, Cardinality(Bootstrapped))
          BY <1>0, <1>6, <2>1, <3>2, <4>1 DEF SaveBlock, NoBlock
        <4>3. D = {d \in WaitingNow : EpochOf(d[1]) = EpochOf(slot)}
          BY <1>0 DEF Waiting, EpochDuties, WaitingNow
        <4>4. InRows(WaitingNow)
          BY <2>1 DEF RowInv, UnderVote
        <4>5. InRows(D)
          BY <4>3, <4>4 DEF InRows
        <4>6. D \subseteq Duties
          BY <4>3 DEF WaitingNow
        <4> HIDE DEF D
        <4> QED  BY <4>2, <4>5, <4>6, FirstRow
      <3> QED  BY <3>1, <3>2
    <2>4. \A s \in Slots : InRows(blocks'[s].atts) /\ OneRow(blocks'[s].atts)
      BY <2>2, <2>3 DEF RowInv
    <2>5. (WaitingNow \cup UnderVote)' = WaitingNow \cup UnderVote
      BY <2>1 DEF WaitingNow, UnderVote
    <2>6. InRows((WaitingNow \cup UnderVote)')
      BY <2>1, <2>5 DEF RowInv
    <2> QED  BY <2>1, <2>4, <2>6 DEF RowInv, InRows, OneRow
  <1>7. CASE IndexBlock
    <2>1. \A s \in Slots : blocks'[s].atts = blocks[s].atts
      BY <1>0, <1>7 DEF IndexBlock, Block
    <2> QED  BY <1>7, <2>1, RowsKept DEF IndexBlock, RowInv
  <1>8. CASE SetTip
    BY <1>0, <1>8, RowsKept DEF SetTip, RowInv, TypeOK, StageOK
  <1>9. CASE CommitProposal
    <2>1. UNCHANGED <<attestations, validators, blocks, slot, active>> /\ pc = "commit_proposal"
          /\ pc' = "attest" /\ slot \in Slots
      BY <1>0, <1>9 DEF CommitProposal, TypeOK, StageOK
    <2>2. WaitingNow' = WaitingNow /\ UnderVote' = blocks[slot].atts
      BY <2>1 DEF WaitingNow, UnderVote
    <2>3. InRows(WaitingNow) /\ InRows(blocks[slot].atts)
      BY <2>1 DEF RowInv, UnderVote
    <2>4. InRows((WaitingNow \cup UnderVote)')
      BY <2>2, <2>3, RowsUnion
    <2>5. \A s \in Slots : InRows(blocks'[s].atts) /\ OneRow(blocks'[s].atts)
      BY <2>1 DEF RowInv
    <2> QED  BY <2>1, <2>4, <2>5 DEF RowInv, InRows, OneRow
  <1>10. CASE Attest
    <2>1. UNCHANGED <<validators, blocks, active>> /\ pc = "attest" /\ slot = tip
          /\ slot \in Slots /\ tip > 0 /\ active = Bootstrapped /\ todo \subseteq Duties
      BY <1>0, <1>10 DEF Attest, TypeOK, StageOK, TodoOK, RowInv
    <2>2. \A s \in Slots : InRows(blocks'[s].atts) /\ OneRow(blocks'[s].atts)
      BY <2>1 DEF RowInv
    <2>3. InRows(WaitingNow \cup blocks[slot].atts) /\ InRows(blocks[slot].atts)
      BY <2>1 DEF RowInv, UnderVote
    <2>4. CASE todo = {}
      <3>1. UNCHANGED attestations /\ pc' \in {"tally", "yielded"}
        BY <1>10, <2>4 DEF Attest
      <3>2. \A d \in blocks[slot].atts : attestations[d] # Awaiting
        BY <1>0, <2>1, <2>4 DEF IncludedInv
      <3>3. (WaitingNow \cup UnderVote)' = (WaitingNow \cup blocks[slot].atts) \ blocks[slot].atts
        BY <3>1, <3>2 DEF WaitingNow, UnderVote
      <3>4. WaitingNow \cup blocks[slot].atts \subseteq Duties
        BY <1>0, <2>1 DEF WaitingNow, Block
      <3>5. InRows((WaitingNow \cup UnderVote)')
        BY <2>3, <3>3, <3>4, RowsDifference
      <3> QED  BY <2>1, <2>2, <3>1, <3>5 DEF RowInv, InRows, OneRow
    <2>5. CASE todo # {}
      <3>1. PICK d \in todo : attestations' = [attestations EXCEPT ![d] = slot]
        BY <1>10, <2>5 DEF Attest
      <3>2. pc' = pc /\ slot' = slot
        BY <1>10, <2>5 DEF Attest
      <3>3. d \in blocks[slot].atts /\ d \in Duties /\ slot # Awaiting
        BY <1>0, <2>1, <3>1 DEF VoteInv
      <3>4. WaitingNow' = WaitingNow \ {d}
        BY <1>0, <3>1, <3>3 DEF WaitingNow
      <3>5. (WaitingNow \cup UnderVote)' = WaitingNow \cup blocks[slot].atts
        BY <2>1, <3>2, <3>3, <3>4 DEF UnderVote
      <3>6. InRows((WaitingNow \cup UnderVote)')
        BY <2>3, <3>5
      <3> QED  BY <2>1, <2>2, <3>2, <3>6 DEF RowInv, InRows, OneRow
    <2> QED  BY <2>4, <2>5
  <1>11. CASE Tally
    <2>1. CASE pc' = "checkpoint"
      <3>1. UNCHANGED <<attestations, validators, slot>> /\ Supermajority(EpochOf(slot), winner')
        BY <1>11, <2>1 DEF Tally
      <3>2. Supermajority(EpochOf(slot), winner)'
        BY <3>1 DEF Supermajority, Votes, VotesFor, EpochDuties, Registered
      <3> QED  BY <1>11, <2>1, <3>2, RowsKept DEF Tally, RowInv
    <2>2. CASE pc' # "checkpoint"
      BY <1>11, <2>2, RowsKept DEF Tally, RowInv
    <2> QED  BY <2>1, <2>2
  <1>12. CASE SaveCheckpoint \/ Link \/ UpdateFinality
    BY <1>12, RowsKept DEF SaveCheckpoint, Link, UpdateFinality, RowInv
  <1>13. CASE MarkJustified \/ MarkFinalized \/ FlagJustified \/ FlagFinalized
    <2>1. \A s \in Slots : blocks'[s].atts = blocks[s].atts
      <3>1. CASE blocks' = blocks
        BY <3>1
      <3>2. CASE blocks' # blocks
        <4>1. todo \subseteq Slots
          BY <1>13 DEF MarkJustified, MarkFinalized, FlagJustified, FlagFinalized, TypeOK, TodoOK
        <4> QED
          BY <1>13, <3>2, <4>1, MarkKeepsChain
          DEF MarkJustified, MarkFinalized, FlagJustified, FlagFinalized
      <3> QED  BY <3>1, <3>2
    <2>2. /\ UNCHANGED <<attestations, validators, active>>
          /\ pc \in Finalizing
          /\ pc' \in {"link", "update_finality", "flag_finalized", "yielded", pc}
          /\ pc \in {"mark_justified", "mark_finalized", "flag_justified", "flag_finalized"}
      BY <1>13 DEF MarkJustified, MarkFinalized, FlagJustified, FlagFinalized, MarkNext
    <2> QED  BY <2>1, <2>2, RowsKept DEF RowInv
  <1> QED
    BY <1>2, <1>3, <1>4, <1>5, <1>6, <1>7, <1>8, <1>9, <1>10, <1>11, <1>12, <1>13
    DEF RunStep, ProposeStep, CommitStep, FinalizeStep

\* The votes for the winner are of one row, hence of as many validators.
LEMMA RowsCount ==
    ASSUME TypeOK, VoteInv, RowInv
    PROVE  JustifiedByTwoThirds
  <1> SUFFICES ASSUME pc = "checkpoint" PROVE JustifiedByTwoThirds
    BY DEF JustifiedByTwoThirds
  <1> DEFINE F == VotesFor(EpochOf(slot), winner)
             G == {d[2] : d \in F}
             f == [d \in F |-> d[2]]
  <1>1. F \subseteq Duties /\ \A d \in F : attestations[d] = winner
    BY DEF VotesFor, EpochDuties
  <1>2. winner \in 1 .. tip /\ winner \in Slots
    BY EpochAssumption DEF VoteInv, TypeOK, Slots, NoSlot
  <1>3. \A d \in F : d \in blocks[winner].atts
    BY <1>1, <1>2 DEF VoteInv, VotesOnChain
  <1>4. \A d, e \in F : d[1] = e[1]
    BY <1>2, <1>3 DEF RowInv, OneRow
  <1>5. \A d, e \in F : d[2] = e[2] => d = e
    <2>1. \A d \in Duties : d = <<d[1], d[2]>>
      BY DEF Duties
    <2> HIDE DEF F
    <2> QED  BY <1>1, <1>4, <2>1
  <1>6. f \in Injection(F, G)
    <2>1. f \in [F -> G]
      OBVIOUS
    <2>2. \A d, e \in F : f[d] = f[e] => d = e
      <3> HIDE DEF F
      <3> QED  BY <1>5
    <2> HIDE DEF f
    <2> QED  BY <2>1, <2>2 DEF Injection, IsInjective
  <1>7. f \in Surjection(F, G)
    BY DEF Surjection
  <1>8. IsFiniteSet(F)
    BY <1>1, DutiesFinite, FS_Subset
  <1>9. Cardinality(G) = Cardinality(F)
    <2> HIDE DEF F, G, f
    <2> QED  BY <1>6, <1>7, <1>8, FS_Surjection
  <1>10. Cardinality(F) * 3 >= Cardinality(Registered) * 2
    BY DEF RowInv, Supermajority, Votes
  <1> QED  BY <1>9, <1>10 DEF JustifiedByTwoThirds

\* With the same validators in every slot the majority is counted in validators: the
\* root an epoch is justified with has the votes of two thirds of the registered
\* validators, no validator counted twice.
THEOREM JustifiedTheorem ==
    ASSUME Churners = {}
    PROVE  SteadySpec => []JustifiedByTwoThirds
  <1>1. /\ TypeOK /\ VoteInv /\ IncludedInv /\ RowInv
        /\ [RunStep \/ Submit \/ Churn]_vars
        => RowInv'
    <2> SUFFICES ASSUME TypeOK, VoteInv, IncludedInv, RowInv,
                        [RunStep \/ Submit \/ Churn]_vars
                 PROVE  RowInv'
      OBVIOUS
    <2>1. CASE RunStep
      BY <2>1, RowStep
    <2>2. CASE Submit \/ UNCHANGED vars
      <3>1. UNCHANGED <<attestations, validators, blocks, pc, slot, active, winner, todo>>
        BY <2>2 DEF Submit, SubmitTx
      <3> QED
        BY <3>1 DEF RowInv, InRows, OneRow, WaitingNow, UnderVote, Supermajority, Votes,
           VotesFor, EpochDuties, Registered
    <2>3. ~Churn
      BY DEF Churn
    <2> QED  BY <2>1, <2>2, <2>3
  <1>2. TypeOK /\ VoteInv /\ RowInv => JustifiedByTwoThirds
    BY RowsCount
  <1> QED
    BY <1>1, <1>2, SteadyIsSpec, RowInit, IncludedInvariant, TypeInvariant, VoteInvariant, PTL
    DEF SteadySpec

-----------------------------------------------------------------------------
(* Finality is irrevocable, and the loop implements its abstract protocol. *)

\* What one step may do to votes and checkpoints.
LEMMA AdvanceStep ==
    ASSUME TypeOK, FinalityInv, VoteInv, [Next]_vars
    PROVE  /\ justifiedEpoch <= justifiedEpoch'
           /\ finalizedEpoch <= finalizedEpoch'
           /\ \A e \in Epochs :
                /\ checkpoints[e].status # "none" => checkpoints'[e].root = checkpoints[e].root
                /\ checkpoints[e].status = "finalized" => checkpoints'[e].status = "finalized"
           /\ \A d \in Duties : attestations[d] >= 0 => attestations'[d] = attestations[d]
  <1>0. /\ justifiedEpoch \in Int /\ finalizedEpoch \in Int
        /\ attestations \in [Duties -> {NoDuty, Awaiting} \cup Slots]
        /\ NoDuty = -2 /\ Awaiting = -1
    BY EpochsAroundTip DEF TypeOK, NoDuty, Awaiting
  <1>1. CASE AssignDuty \/ Attest
    <2>1. UNCHANGED finalityVars
      BY <1>1 DEF AssignDuty, Attest
    <2>2. CASE attestations' = attestations
      BY <1>0, <2>1, <2>2 DEF finalityVars
    <2>3. CASE attestations' # attestations
      <3>1. PICK d \in todo :
              \/ attestations' = [attestations EXCEPT ![d] = Awaiting]
              \/ attestations' = [attestations EXCEPT ![d] = slot]
        BY <1>1, <2>3 DEF AssignDuty, Attest
      <3>2. attestations[d] \in {NoDuty, Awaiting}
        BY <1>1 DEF AssignDuty, Attest, VoteInv
      <3>3. \A f \in Duties : f # d => attestations'[f] = attestations[f]
        BY <1>0, <3>1
      <3> QED  BY <1>0, <2>1, <3>2, <3>3 DEF finalityVars
    <2> QED  BY <2>2, <2>3
  <1>2. CASE SaveCheckpoint
    <2>1. slot = tip /\ tip >= 0 /\ pc = "checkpoint"
      BY <1>2, EpochsAroundTip DEF SaveCheckpoint, TypeOK, StageOK, Committed, Finalizing
    <2>2. \A e \in Epochs : checkpoints[e].status # "none" => e # EpochOf(slot)
      BY <2>1, EpochsAroundTip DEF FinalityInv
    <2>3. /\ checkpoints' = [checkpoints EXCEPT ![EpochOf(slot)] =
                               [status |-> "justified", root |-> winner]]
          /\ UNCHANGED <<attestations, justifiedEpoch, finalizedEpoch>>
      BY <1>2 DEF SaveCheckpoint, dutyVars
    <2>4. \A e \in Epochs : checkpoints[e].status # "none" => checkpoints'[e] = checkpoints[e]
      BY <2>2, <2>3 DEF TypeOK
    <2> QED  BY <1>0, <2>3, <2>4
  <1>3. CASE Link
    <2>1. \/ checkpoints' = checkpoints
          \/ checkpoints' = [checkpoints EXCEPT ![EpochOf(slot) - 1].status = "finalized"]
      BY <1>3 DEF Link
    <2>2. \A e \in Epochs : /\ checkpoints'[e].root = checkpoints[e].root
                            /\ checkpoints'[e].status \in {checkpoints[e].status, "finalized"}
      BY <2>1 DEF TypeOK
    <2>3. UNCHANGED <<attestations, justifiedEpoch, finalizedEpoch>>
      BY <1>3 DEF Link, dutyVars
    <2> QED  BY <1>0, <2>2, <2>3
  <1>4. CASE UpdateFinality
    <2>1. slot = tip /\ tip >= 0 /\ pc = "update_finality"
      BY <1>4, EpochsAroundTip DEF UpdateFinality, TypeOK, StageOK, Committed, Finalizing
    <2>2. justifiedEpoch < EpochOf(slot) /\ EpochOf(slot) \in Int
      BY <2>1, EpochsAroundTip DEF FinalityInv
    <2>3. ExtendsJustified(EpochOf(slot)) => finalizedEpoch <= EpochOf(slot) - 1
      BY <1>0, <2>2 DEF ExtendsJustified, FinalityInv, FinalityBacked
    <2> QED  BY <1>0, <1>4, <2>2, <2>3 DEF UpdateFinality, dutyVars
  <1>5. CASE ~(AssignDuty \/ Attest \/ SaveCheckpoint \/ Link \/ UpdateFinality)
    <2>1. UNCHANGED <<attestations, checkpoints, justifiedEpoch, finalizedEpoch>>
      BY <1>5
      DEF Next, RunStep, ProposeStep, CommitStep, FinalizeStep, Submit, Churn, Start,
          LoadValidators, RunEnds, BeginSlot, AssignProposal, Build, Drain, Assemble,
          SaveBlock, IndexBlock, SetTip, CommitProposal, Tally, MarkJustified,
          MarkFinalized, FlagJustified, FlagFinalized, Crash, SubmitTx,
          RegisterValidator, UpdateValidatorStatus, Stored, dutyVars, finalityVars, vars
    <2> QED  BY <1>0, <2>1
  <1> QED  BY <1>1, <1>2, <1>3, <1>4, <1>5

\* The epochs of the finality index never fall, a checkpoint keeps its root and its
\* finality, a recorded vote is never moved: whatever the finalizer rewrites.
THEOREM AdvanceTheorem == Spec => FinalityAdvances
  BY TypeInvariant, FinalityInvariant, VoteInvariant, AdvanceStep, PTL
  DEF Spec, FinalityAdvances

\* The tip moves in SetTip, to the slot after it.
LEMMA SetTipExtends ==
    ASSUME TypeOK, SetTip
    PROVE  Abstract!Extend
  <1>1. slot = tip + 1 /\ slot \in Slots \cup {NoSlot} /\ tip \in Slots \cup {NoSlot}
    BY DEF SetTip, TypeOK, StageOK, Storing
  <1>2. tip < MaxSlot
    BY <1>1, EpochAssumption DEF Slots, NoSlot
  <1> QED  BY <1>1, <1>2 DEF SetTip, Abstract!Extend, finalityVars

\* The finality index is written in UpdateFinality, once per epoch.
LEMMA UpdateFinalityJustifies ==
    ASSUME TypeOK, FinalityInv, UpdateFinality
    PROVE  Abstract!Justify
  <1>1. slot = tip /\ tip >= 0 /\ IsLastOfEpoch(slot)
    BY EpochsAroundTip DEF UpdateFinality, TypeOK, StageOK, Committed, Finalizing
  <1>2. justifiedEpoch < EpochOf(slot)
    BY <1>1 DEF UpdateFinality, FinalityInv
  <1>3. /\ justifiedEpoch' = EpochOf(slot)
        /\ finalizedEpoch' = IF justifiedEpoch >= 0 /\ justifiedEpoch = EpochOf(slot) - 1
                               THEN justifiedEpoch ELSE finalizedEpoch
        /\ tip' = tip
    BY DEF UpdateFinality, ExtendsJustified, chainVars
  <1> QED  BY <1>1, <1>2, <1>3 DEF Abstract!Justify, EpochOf, IsLastOfEpoch

\* No other action touches what a reader of the node sees.
LEMMA OtherStepsStutter ==
    ASSUME [Next]_vars, ~SetTip, ~UpdateFinality
    PROVE  UNCHANGED <<tip, justifiedEpoch, finalizedEpoch>>
  BY DEF Next, RunStep, ProposeStep, CommitStep, FinalizeStep, Submit, Churn, Start,
     LoadValidators, RunEnds, BeginSlot, AssignDuty, AssignProposal, Build, Skip, Drain,
     Assemble, SaveBlock, IndexBlock, CommitProposal, Attest, Tally, SaveCheckpoint,
     MarkJustified, Link, MarkFinalized, MarkNext, FlagJustified, FlagFinalized, Crash,
     SubmitTx, RegisterValidator, UpdateValidatorStatus, Stored, chainVars, dutyVars,
     finalityVars, vars

\* For readers of chain tip and finality index the slot loop is the protocol of
\* Finality, whatever crashes, retries and churn happen underneath.
THEOREM Refinement == Spec => RefinesFinality
  <1>1. Init => Abstract!Init
    BY DEF Init, Abstract!Init, NoSlot, NoEpoch
  <1>2. TypeOK /\ FinalityInv /\ [Next]_vars => [Abstract!Next]_(Abstract!vars)
    BY SetTipExtends, UpdateFinalityJustifies, OtherStepsStutter
    DEF Abstract!Next, Abstract!vars
  <1> QED
    BY <1>1, <1>2, TypeInvariant, FinalityInvariant, PTL
    DEF Spec, RefinesFinality, Abstract!Spec

------------------------------------------------------------------------------
(* The properties above, as the runs check them.                           *)

\* What votes and checkpoints point to is on the chain.
THEOREM RecordsTheorem == Spec => []RecordsOnChain
  BY VotesTheorem, CheckpointTheorem, PTL DEF RecordsOnChain

\* No index and no mark claims more finality than was decided.
THEOREM ClaimsTheorem == Spec => []ClaimsBacked
  BY FinalityTheorem, MarksTheorem, PTL DEF ClaimsBacked

\* Slots, votes and finality that were decided stay, whatever crashes and churns.
THEOREM DecidedTheorem == Spec => DecidedStays
  BY ProposedOnceTheorem, AdvanceTheorem, PTL DEF DecidedStays

=============================================================================
