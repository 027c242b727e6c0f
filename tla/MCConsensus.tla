----------------------------- MODULE MCConsensus -----------------------------
(* Instances of Consensus for TLC.                                         *)
EXTENDS Consensus

CONSTANTS t1, t2    \* transactions, model values

NoTxs           == {}
OneTx           == {t1}
TwoTxs          == {t1, t2}

NoValidators    == {}
OneValidator    == {0}
SecondValidator == {1}
TwoValidators   == {0, 1}

=============================================================================
