---------------------------- MODULE DutyRecords ----------------------------
(***************************************************************************)
(* The three records of the slot loop: an attestation duty, a proposal     *)
(* duty and a checkpoint.  Each service declares a schema, makes a record  *)
(* with it, and validates what it creates and what it writes later; a      *)
(* record that is refused raises AssertionError and ends the run.          *)
(*                                                                         *)
(* A record is a TLA+ record whose domain holds the fields that are set: a *)
(* field that is None or absent is left out, for no check of a record that *)
(* is made here tells the two apart.  An id is the tuple of its parts, a   *)
(* hash is the block it names, and a moment in time is left out.           *)
(***************************************************************************)
EXTENDS Integers

-----------------------------------------------------------------------------
(* Schemas.  "numbers" are the integers with min_value 0, "statuses" the   *)
(* allowed values of the status.  Every immutable field is required.       *)

AttestorSchema ==
    [immutable |-> {"attestation_id", "slot", "epoch", "validator_index", "committee_index"},
     required  |-> {"attestation_id", "slot", "epoch", "validator_index", "committee_index",
                    "status"},
     numbers   |-> {"slot", "epoch", "validator_index", "committee_index", "target_epoch",
                    "source_epoch", "inclusion_slot", "inclusion_delay"},
     statuses  |-> {"awaiting_duty", "awaiting_inclusion", "included_success",
                    "included_late", "missed", "orphaned"}]

ProposerSchema ==
    [immutable |-> {"proposal_id", "slot", "epoch", "validator_index"},
     required  |-> {"proposal_id", "slot", "epoch", "validator_index", "status"},
     numbers   |-> {"slot", "epoch", "validator_index", "payload_size_bytes",
                    "transaction_count"},
     statuses  |-> {"awaiting_duty", "proposing", "success", "missed", "orphaned"}]

CheckpointSchema ==
    [immutable |-> {"epoch", "root"},
     required  |-> {"epoch", "root", "status"},
     numbers   |-> {"epoch", "total_voting_stake", "participating_stake"},
     statuses  |-> {"justified", "finalized"}]

\* What the three copies of the validation have in common.
FieldFits(schema, r, f) ==
    /\ f \in schema.numbers => r[f] \in Nat
    /\ f = "status" => r[f] \in schema.statuses

FieldsFit(schema, r) == \A f \in DOMAIN r : FieldFits(schema, r, f)
IsComplete(schema, r) == schema.required \subseteq DOMAIN r
KeepsImmutable(schema, r) == schema.immutable \cap DOMAIN r = {}

-----------------------------------------------------------------------------
(* Attestation duties.                                                     *)

NewAttestation(s, e, v) ==
    [attestation_id |-> <<s, v>>, slot |-> s, epoch |-> e, validator_index |-> v,
     committee_index |-> 0, status |-> "awaiting_duty"]

AttestationFields(r) == FieldsFit(AttestorSchema, r)

\* validate_attestation_data: the id must be "slot-validator_index".
AttestationData(r) ==
    /\ AttestationFields(r)
    /\ r.attestation_id = <<r.slot, r.validator_index>>

AttestationCreation(r) == IsComplete(AttestorSchema, r) /\ AttestationData(r)
AttestationChange(r)   == KeepsImmutable(AttestorSchema, r) /\ AttestationFields(r)

\* update_attestation_status with the payload of an included vote.
IncludedPayload(root, e) ==
    [status |-> "included_success", target_root |-> root, target_epoch |-> e]

MayInclude(root, e) == AttestationChange(IncludedPayload(root, e))

-----------------------------------------------------------------------------
(* Proposal duties.                                                        *)

NewProposal(s, e, v) ==
    [proposal_id |-> <<e, s>>, slot |-> s, epoch |-> e, validator_index |-> v,
     status |-> "awaiting_duty", payload_size_bytes |-> 0, transaction_count |-> 0]

ProposalFields(r) == FieldsFit(ProposerSchema, r)

\* validate_proposal_data: the id must be "epoch-slot".
ProposalData(r) ==
    /\ ProposalFields(r)
    /\ r.proposal_id = <<r.epoch, r.slot>>

ProposalCreation(r) == IsComplete(ProposerSchema, r) /\ ProposalData(r)
ProposalChange(r)   == KeepsImmutable(ProposerSchema, r) /\ ProposalFields(r)

\* What update_proposal_status_after_commit writes for a block with n
\* transactions; the size in bytes is n here.
CommittedPayload(block, n) ==
    [status |-> "success", block_hash |-> block, transaction_count |-> n,
     payload_size_bytes |-> n]

MayCommit(block, n) == ProposalChange(CommittedPayload(block, n))
MayMiss == ProposalChange([status |-> "missed"])

-----------------------------------------------------------------------------
(* Checkpoints.  process_epoch_finality stores a new one unvalidated.      *)

CheckpointFields(r) == FieldsFit(CheckpointSchema, r)
CheckpointChange(r) == KeepsImmutable(CheckpointSchema, r) /\ CheckpointFields(r)

\* update_checkpoint_status validates the status it writes.
MayFinalize == CheckpointChange([status |-> "finalized"])
=============================================================================
