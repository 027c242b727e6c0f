------------------------- MODULE PostProcess_proofs -------------------------
(* Proofs about PostProcess, for every value of its constants.              *)
EXTENDS PostProcess, FiniteSetTheorems, WellFoundedInduction, TLAPS

-----------------------------------------------------------------------------
(* Types.                                                                   *)

Working == {"tx", "leg", "index", "nonce", "total", "confirm"}

\* Where a run is: at the oldest block it has left, at a transaction that is not
\* confirmed, at one of its movements, and past the check of a movement's wallet.
StageOK ==
    /\ pc \in Working => block \in todo /\ \A b \in todo : block <= b
    /\ pc \in {"tx", "leg", "index", "confirm"} => at <= Len(chain[block]) + 1
    /\ pc \in {"leg", "index"} =>
           /\ MoreTxs
           /\ Current \notin confirmed
           /\ Known(Current)
           /\ leg <= Len(Legs(Current))
    /\ pc = "index" => Movement.wallet \in Wallets

\* A transaction of a known type has a movement, and each is of a whole amount
\* at a wallet or at an address that has none.
LEMMA LegsType ==
    ASSUME NEW t \in Txs, Known(t)
    PROVE  /\ Legs(t) \in Seq([wallet : Wallets \cup {NoWallet}, change : Int])
           /\ Len(Legs(t)) > 0
<1> DEFINE Leg0 == [wallet : Wallets \cup {NoWallet}, change : Int]
<1>1. /\ Tx[t].type \in TxTypes
      /\ Tx[t].from \in Wallets \cup {NoWallet}
      /\ Tx[t].to \in Wallets \cup {NoWallet}
      /\ Tx[t].amount \in Nat
      /\ Tx[t].fee \in Nat
  BY PaymentAssumption
<1>2. Pool \in Wallets /\ Burn \in Wallets
  BY LedgerAssumption
<1>3. \A w \in Wallets \cup {NoWallet}, d \in Int : Leg(w, d) \in Leg0
  BY DEF Leg
<1> DEFINE cost == Tx[t].amount + Tx[t].fee
<1>4. /\ cost \in Int /\ -cost \in Int
      /\ Tx[t].amount \in Int /\ -Tx[t].amount \in Int
      /\ Tx[t].fee \in Int
  BY <1>1
<1> HIDE DEF Leg0
<1>5. FeeLeg(t) \in Seq(Leg0)
  <2>1. Leg(Pool, Tx[t].fee) \in Leg0
    BY <1>2, <1>3, <1>4
  <2>2. <<Leg(Pool, Tx[t].fee)>> \in Seq(Leg0) /\ << >> \in Seq(Leg0)
    BY <2>1
  <2> QED BY <2>2 DEF FeeLeg
<1> HIDE DEF cost
<1>6. \A r, s \in Leg0 : /\ <<r>> \in Seq(Leg0) /\ Len(<<r>>) > 0
                         /\ <<r, s>> \in Seq(Leg0) /\ Len(<<r, s>>) > 0
                         /\ <<r, s>> \o FeeLeg(t) \in Seq(Leg0)
                         /\ Len(<<r, s>> \o FeeLeg(t)) > 0
  BY <1>5
<1>7. CASE Tx[t].type = "mint"
  BY <1>1, <1>3, <1>4, <1>6, <1>7 DEF Legs, Leg0
<1>8. CASE Tx[t].type = "reward"
  BY <1>1, <1>2, <1>3, <1>4, <1>6, <1>8 DEF Legs, Leg0
<1>9. CASE Tx[t].type = "transfer"
  BY <1>1, <1>2, <1>3, <1>4, <1>6, <1>9 DEF Legs, Leg0, cost
<1>10. CASE Tx[t].type = "burn"
  BY <1>1, <1>2, <1>3, <1>4, <1>6, <1>10 DEF Legs, Leg0, cost
<1>11. CASE Tx[t].type = "unstake"
  BY <1>1, <1>2, <1>3, <1>4, <1>6, <1>11 DEF Legs, Leg0
<1>12. CASE Tx[t].type \notin {"mint", "reward", "transfer", "burn", "unstake"}
  BY <1>1, <1>2, <1>3, <1>4, <1>6, <1>12 DEF Legs, Leg0, cost
<1> QED BY <1>7, <1>8, <1>9, <1>10, <1>11, <1>12

\* At a transaction of a known type the movement is a whole amount, at a wallet
\* or at an address that has none.
LEMMA MovementType ==
    ASSUME TypeOK, StageOK, pc \in {"leg", "index"}
    PROVE  /\ block \in DOMAIN chain
           /\ at \in DOMAIN chain[block]
           /\ Current \in Txs
           /\ Movement.wallet \in Wallets \cup {NoWallet}
           /\ Movement.change \in Int
<1>1. block \in DOMAIN chain
  BY DEF TypeOK, StageOK, Working
<1>2. chain[block] \in Seq(Txs)
  BY <1>1 DEF TypeOK
<1>3. at \in DOMAIN chain[block]
  BY <1>2 DEF TypeOK, StageOK, MoreTxs
<1>4. Current \in Txs
  BY <1>2, <1>3 DEF Current
<1>5. Legs(Current) \in Seq([wallet : Wallets \cup {NoWallet}, change : Int])
  BY <1>4, LegsType DEF StageOK
<1>6. leg \in 1 .. Len(Legs(Current))
  BY <1>5 DEF TypeOK, StageOK
<1> DEFINE Leg0 == [wallet : Wallets \cup {NoWallet}, change : Int]
<1> HIDE DEF Leg0
<1>7. \A s \in Seq(Leg0) : \A i \in 1 .. Len(s) : s[i] \in Leg0
  OBVIOUS
<1>8. Movement \in Leg0
  BY <1>5, <1>6, <1>7 DEF Movement, Leg0
<1>9. Movement.wallet \in Wallets \cup {NoWallet} /\ Movement.change \in Int
  BY <1>8 DEF Leg0
<1> QED BY <1>1, <1>3, <1>4, <1>9

TypeInv == TypeOK /\ StageOK

LEMMA NoCountsType == NoCounts \in [Wallets -> Nat]
BY DEF NoCounts

LEMMA InitType == Init => TypeInv
<1> SUFFICES ASSUME Init PROVE TypeOK /\ StageOK
  BY DEF TypeInv
<1>1. chain \in Seq(Seq(Txs)) /\ processed \subseteq DOMAIN chain
  <2>1. << >> \in Seq(Txs)
    OBVIOUS
  <2> QED BY <2>1 DEF Init
<1>2. balance \in [Wallets -> Nat] /\ listed \in [Wallets -> Nat]
  BY LedgerAssumption DEF Init
<1>3. nonce \in [Wallets -> Nat] /\ applied \in [Txs -> Nat] /\ DOMAIN total = Users
  BY DEF Init
<1>4. counts \in [Wallets -> Nat]
  BY NoCountsType DEF Init
<1>5. unknown \in BOOLEAN
  BY DEF Init
<1> QED BY <1>1, <1>2, <1>3, <1>4, <1>5 DEF Init, TypeOK, StageOK, Working

\* A run that ends keeps the types of what is stored.
LEMMA ForgetType ==
    ASSUME Forget
    PROVE  /\ StageOK'
           /\ pc' = "idle" /\ todo' = {} /\ touched' = {} /\ unknown' \in BOOLEAN
           /\ block' \in Nat \ {0} /\ at' \in Nat \ {0} /\ leg' \in Nat \ {0}
           /\ counts' \in [Wallets -> Nat]
<1>1. unknown' \in BOOLEAN
  BY DEF Forget
<1>2. StageOK'
  BY DEF Forget, StageOK, Working
<1> QED BY <1>1, <1>2, NoCountsType DEF Forget

LEMMA NextType == TypeInv /\ [Next]_vars => TypeInv'
<1> SUFFICES ASSUME TypeOK, StageOK, [Next]_vars
             PROVE  TypeOK' /\ StageOK'
  BY DEF TypeInv
<1> USE DEF ledger, locals
<1>1. ASSUME NEW body \in Bodies, AddBlock(body)
      PROVE  TypeOK' /\ StageOK'
  <2>1. chain' \in Seq(Seq(Txs)) /\ DOMAIN chain \subseteq DOMAIN chain'
    BY <1>1, PaymentAssumption DEF AddBlock, TypeOK
  <2> QED BY <1>1, <2>1 DEF AddBlock, TypeOK, StageOK, Working
<1>2. ASSUME NEW blocks \in SUBSET DOMAIN chain, StartWith(blocks)
      PROVE  TypeOK' /\ StageOK'
  BY <1>2 DEF StartWith, TypeOK, StageOK, Working
<1>3. CASE RunLatest
  BY <1>2, <1>3 DEF RunLatest, Found
<1>4. ASSUME NEW b \in DOMAIN chain, RunTarget(b)
      PROVE  TypeOK' /\ StageOK'
  BY <1>2, <1>4 DEF RunTarget
<1>5. CASE BeginBlock
  <2> PICK b \in todo : (\A c \in todo : b <= c) /\ block' = b
    BY <1>5 DEF BeginBlock
  <2>1. b \in DOMAIN chain /\ b \in Nat \ {0}
    BY DEF TypeOK
  <2>2. Len(chain[b]) \in Nat
    BY <2>1 DEF TypeOK
  <2>3. unknown' \in BOOLEAN
    BY <1>5 DEF BeginBlock
  <2> QED BY <1>5, <2>1, <2>2, <2>3, NoCountsType DEF BeginBlock, TypeOK, StageOK, Working
<1>6. CASE Return
  BY <1>6, ForgetType DEF Return, TypeOK
<1>7. ASSUME pc \in {"tx", "confirm"}, MoreTxs
      PROVE  block \in DOMAIN chain /\ at + 1 <= Len(chain[block]) + 1 /\ Current \in Txs
  <2>1. block \in DOMAIN chain /\ chain[block] \in Seq(Txs)
    BY <1>7 DEF TypeOK, StageOK, Working
  <2> QED BY <1>7, <2>1 DEF TypeOK, MoreTxs, Current
<1>8. CASE SkipConfirmed
  BY SMTT(20), <1>7, <1>8 DEF SkipConfirmed, TypeOK, StageOK, Working
<1>9. CASE NoteUnknown
  BY SMTT(20), <1>7, <1>9 DEF NoteUnknown, TypeOK, StageOK, Working
<1>10. CASE BeginTx
  <2>1. 1 <= Len(Legs(Current))
    BY <1>7, <1>10, LegsType DEF BeginTx
  <2>2. MoreTxs' /\ Current' = Current /\ Known(Current)' /\ leg' <= Len(Legs(Current))'
    BY <1>10, <2>1 DEF BeginTx, MoreTxs, Current, Legs, FeeLeg, Leg, Known
  <2> QED BY <1>10, <2>2 DEF BeginTx, TypeOK, StageOK, Working
<1>11. CASE Move
  <2>1. Movement.wallet \in Wallets /\ Movement.change \in Int /\ Current \in Txs
    BY <1>11, MovementType DEF Move, CanMove
  <2>2. balance' \in [Wallets -> Nat]
    BY <1>11, <2>1 DEF Move, CanMove, TypeOK
  <2>3. applied' \in [Txs -> Nat]
    BY <1>11, <2>1 DEF Move, TypeOK
  <2>4. UNCHANGED <<MoreTxs, Current, Known(Current), Movement, Len(Legs(Current))>>
    BY <1>11 DEF Move, MoreTxs, Current, Known, Movement, Legs, FeeLeg, Leg
  <2> QED BY <1>11, <2>1, <2>2, <2>3, <2>4 DEF Move, TypeOK, StageOK, Working
<1>12. CASE Refuse
  BY <1>12, ForgetType DEF Refuse, TypeOK
<1>13. CASE Index
  <2>1. /\ Movement.wallet \in Wallets /\ block \in DOMAIN chain
        /\ at + 1 <= Len(chain[block]) + 1
    <3>1. block \in DOMAIN chain /\ at <= Len(chain[block]) /\ Movement.wallet \in Wallets
      BY <1>13, MovementType DEF Index, StageOK, MoreTxs
    <3>2. Len(chain[block]) \in Nat /\ at \in Nat
      BY <3>1 DEF TypeOK
    <3> QED BY <3>1, <3>2
  <2>2. listed' \in [Wallets -> Nat]
    BY <1>13, <2>1 DEF Index, TypeOK
  <2>3. counts' \in [Wallets -> Nat]
    <3>1. \/ counts' = counts
          \/ counts' = [counts EXCEPT ![Movement.wallet] = @ + 1]
      BY <1>13 DEF Index
    <3>2. counts \in [Wallets -> Nat]
      BY DEF TypeOK
    <3>3. counts[Movement.wallet] + 1 \in Nat
      BY <2>1, <3>2
    <3> QED BY <2>1, <3>1, <3>2, <3>3
  <2>4. touched' \subseteq Users
    BY <1>13, <2>1, LedgerAssumption DEF Index, TypeOK
  <2>5. CASE IsLastLeg
    <3>1. pc' = "tx" /\ at' = at + 1 /\ leg' = 1
      BY <1>13, <2>5 DEF Index
    <3>2. StageOK'
      BY <1>13, <2>1, <3>1 DEF Index, StageOK, Working
    <3> QED BY <1>13, <2>2, <2>3, <2>4, <3>1, <3>2 DEF Index, TypeOK
  <2>6. CASE ~IsLastLeg
    <3>1. Len(Legs(Current)) \in Nat /\ leg + 1 <= Len(Legs(Current))
      BY <1>13, <2>6, MovementType, LegsType DEF Index, IsLastLeg, StageOK, TypeOK
    <3>2. UNCHANGED <<MoreTxs, Current, Known(Current), Len(Legs(Current))>>
      BY <1>13, <2>6 DEF Index, MoreTxs, Current, Known, Legs, FeeLeg, Leg
    <3>3. pc' = "leg" /\ at' = at /\ leg' = leg + 1
      BY <1>13, <2>6 DEF Index
    <3>4. StageOK'
      BY <1>13, <3>1, <3>2, <3>3 DEF Index, StageOK, Working
    <3> QED BY <1>13, <2>2, <2>3, <2>4, <3>3, <3>4 DEF Index, TypeOK
  <2> QED BY <2>5, <2>6
<1>14. CASE AllTaken
  BY <1>14 DEF AllTaken, TypeOK, StageOK, Working
<1>15. ASSUME NEW w \in Wallets, AdvanceNonce(w)
       PROVE  TypeOK' /\ StageOK'
  BY SMTT(20), <1>15 DEF AdvanceNonce, TypeOK, StageOK, Working
<1>16. CASE NoncesDone
  BY <1>16 DEF NoncesDone, TypeOK, StageOK, Working
<1>17. ASSUME NEW u \in Users, Reconcile(u)
       PROVE  TypeOK' /\ StageOK'
  <2>1. DOMAIN total' = Users
    BY <1>17 DEF Reconcile, TypeOK
  <2> QED BY <1>17, <2>1 DEF Reconcile, TypeOK, StageOK, Working
<1>18. CASE TotalsDone
  <2>1. Len(chain[block]) \in Nat
    BY <1>18 DEF TotalsDone, TypeOK, StageOK, Working
  <2> QED BY <1>18, <2>1 DEF TotalsDone, TypeOK, StageOK, Working
<1>19. CASE Confirm
  BY SMTT(20), <1>7, <1>19 DEF Confirm, TypeOK, StageOK, Working
<1>20. CASE Mark
  <2>1. block \in DOMAIN chain
    BY <1>20 DEF Mark, TypeOK, StageOK, Working
  <2>2. CASE unknown
    BY <1>20, <2>1, <2>2, ForgetType DEF Mark, TypeOK
  <2>3. CASE ~unknown
    BY <1>20, <2>1, <2>3 DEF Mark, TypeOK, StageOK, Working
  <2> QED BY <2>2, <2>3
<1>21. CASE Crash
  BY <1>21, ForgetType DEF Crash, TypeOK
<1>22. CASE UNCHANGED vars
  BY <1>22 DEF vars, TypeOK, StageOK, Working, MoreTxs, Current, Known, Movement, Legs, FeeLeg, Leg
<1> QED
  BY <1>1, <1>3, <1>4, <1>5, <1>6, <1>8, <1>9, <1>10, <1>11, <1>12, <1>13, <1>14, <1>15,
     <1>16, <1>17, <1>18, <1>19, <1>20, <1>21, <1>22
  DEF Next, RunStep, TxStep, SettleStep

LEMMA TypeInvariance == Spec => []TypeInv
BY InitType, NextType, PTL DEF Spec

\* Every variable of the ledger keeps its type: no wallet is ever overdrawn, no
\* mark is set for a block that is not on the chain.
THEOREM LedgerTypeInvariant == Spec => []TypeOK
BY TypeInvariance, PTL DEF TypeInv

-----------------------------------------------------------------------------
(* What is settled stays settled.                                           *)

\* A confirmed transaction moves no money again, and no confirmation and no mark
\* is taken back, wherever runs are refused or cut off: money moves only for a
\* transaction that BeginTx found unconfirmed, and nothing confirms it between.
THEOREM SettledTheorem == Spec => SettledIsFinal
<1> DEFINE Settled == /\ confirmed \subseteq confirmed'
                      /\ processed \subseteq processed'
                      /\ \A t \in confirmed : applied'[t] = applied[t]
<1>1. TypeInv /\ [Next]_vars => [Settled]_vars
  <2> SUFFICES ASSUME TypeInv, Next PROVE Settled
    OBVIOUS
  <2> USE DEF ledger, locals
  <2>1. CASE Move
    <3>1. Current \in Txs /\ Current \notin confirmed
      BY <2>1, MovementType DEF Move, TypeInv, StageOK
    <3>2. \A t \in confirmed : applied'[t] = applied[t]
      BY <2>1, <3>1 DEF Move, TypeInv, TypeOK
    <3> QED BY <2>1, <3>2 DEF Move
  <2>2. CASE Confirm
    BY <2>2 DEF Confirm
  <2>3. CASE Mark
    BY <2>3 DEF Mark
  <2>4. CASE /\ Next
             /\ ~(Move \/ Confirm \/ Mark)
    BY <2>4 DEF Next, RunStep, TxStep, SettleStep, AddBlock, StartWith, RunLatest, RunTarget,
      BeginBlock, Return, SkipConfirmed, NoteUnknown, BeginTx, Refuse, Index, AllTaken,
      AdvanceNonce, NoncesDone, Reconcile, TotalsDone, Crash
  <2> QED BY <2>1, <2>2, <2>3, <2>4
<1> QED BY <1>1, TypeInvariance, PTL DEF Spec, SettledIsFinal

-----------------------------------------------------------------------------
(* Marks follow the money.                                                  *)

Applied(t) == Known(t) => applied[t] > 0

\* What a run has applied of its block at each of its stages.
MoneyInv ==
    /\ MarksFollowMoney
    /\ pc \in {"tx", "leg", "index"} =>
           \A i \in DOMAIN chain[block] : i < at => Applied(chain[block][i])
    /\ pc = "index" /\ IsLastLeg => Applied(Current)
    /\ pc \in {"nonce", "total", "confirm"} =>
           \A i \in DOMAIN chain[block] : Applied(chain[block][i])

\* A transaction that was applied stays applied.
LEMMA AppliedGrows ==
    ASSUME TypeInv, [Next]_vars
    PROVE  \A t \in Txs : Applied(t) => Applied(t)'
<1> SUFFICES ASSUME NEW t \in Txs, applied[t] > 0 PROVE applied'[t] > 0
  BY DEF Applied, Known
<1> USE DEF ledger, locals
<1>1. CASE Move
  BY <1>1 DEF Move, TypeInv, TypeOK
<1>2. CASE Next /\ ~Move
  BY <1>2 DEF Next, RunStep, TxStep, SettleStep, AddBlock, StartWith, RunLatest, RunTarget,
    BeginBlock, Return, SkipConfirmed, NoteUnknown, BeginTx, Refuse, Index, AllTaken,
    AdvanceNonce, NoncesDone, Reconcile, TotalsDone, Confirm, Mark, Crash
<1>3. CASE UNCHANGED vars
  BY <1>3 DEF vars
<1> QED BY <1>1, <1>2, <1>3

LEMMA InitMoney == Init => MoneyInv
BY DEF Init, MoneyInv, MarksFollowMoney

LEMMA NextMoney == TypeInv /\ MoneyInv /\ [Next]_vars => MoneyInv'
<1> SUFFICES ASSUME TypeInv, MoneyInv, [Next]_vars
             PROVE  MoneyInv'
  OBVIOUS
<1> USE DEF ledger, locals
<1>1. /\ \A b \in DOMAIN chain : \A i \in DOMAIN chain[b] : chain[b][i] \in Txs
      /\ confirmed \subseteq Txs
      /\ processed \subseteq DOMAIN chain
      /\ pc \in Working => block \in DOMAIN chain
  BY PaymentAssumption DEF TypeInv, TypeOK, StageOK
<1>2. /\ \A t \in confirmed : Applied(t)
      /\ \A b \in processed : \A i \in DOMAIN chain[b] : Applied(chain[b][i])
  BY DEF MoneyInv, MarksFollowMoney, Applied
<1>3. ASSUME UNCHANGED <<chain, processed, confirmed, applied>>
      PROVE  MarksFollowMoney' /\ \A t : Applied(t)' <=> Applied(t)
  BY <1>3 DEF MoneyInv, MarksFollowMoney, Applied, Known
<1>4. ASSUME pc' \in {"idle", "block"}, MarksFollowMoney' PROVE MoneyInv'
  BY <1>4 DEF MoneyInv
<1>5. ASSUME NEW body \in Bodies, AddBlock(body) PROVE MoneyInv'
  <2>1. \A b \in DOMAIN chain : chain'[b] = chain[b]
    BY <1>5 DEF AddBlock, TypeInv, TypeOK
  <2>2. MarksFollowMoney'
    BY <1>1, <1>2, <1>5, <2>1 DEF AddBlock, MarksFollowMoney, Applied, Known
  <2> QED BY <1>4, <1>5, <2>2 DEF AddBlock
<1>6. ASSUME NEW blocks, StartWith(blocks) PROVE MoneyInv'
  BY <1>3, <1>4, <1>6 DEF StartWith
<1>7. CASE BeginBlock
  <2>1. \A i \in DOMAIN chain[block'] : ~(i < at')
    <3>1. PICK b \in todo : block' = b
      BY <1>7 DEF BeginBlock
    <3>2. chain[b] \in Seq(Txs)
      BY DEF TypeInv, TypeOK
    <3> QED BY <1>7, <3>1, <3>2 DEF BeginBlock
  <2> QED BY <1>3, <1>7, <2>1 DEF BeginBlock, MoneyInv
<1>8. CASE Return \/ Refuse \/ Crash
  BY <1>3, <1>4, <1>8 DEF Return, Refuse, Crash, Forget
<1>9. ASSUME UNCHANGED <<chain, processed, confirmed, applied, block>>,
             pc \in Working, pc' \in {"tx", "leg"}, at' = at + 1,
             Applied(Current),
             \A i \in DOMAIN chain[block] : i < at => Applied(chain[block][i])
      PROVE  MoneyInv'
  <2>1. \A i \in DOMAIN chain[block] : i < at + 1 => i < at \/ i = at
    BY <1>1, <1>9 DEF TypeInv, TypeOK
  <2>2. \A i \in DOMAIN chain[block] : i < at + 1 => Applied(chain[block][i])
    BY <1>9, <2>1 DEF Current
  <2> QED BY <1>3, <1>9, <2>2 DEF MoneyInv
<1>10. CASE SkipConfirmed
  BY <1>2, <1>9, <1>10 DEF SkipConfirmed, MoneyInv, Working
<1>11. CASE NoteUnknown
  BY <1>9, <1>11 DEF NoteUnknown, MoneyInv, Working, Applied
<1>12. CASE BeginTx
  BY <1>3, <1>12 DEF BeginTx, MoneyInv
<1>13. CASE Move
  <2>1. \A t \in Txs : Applied(t) => Applied(t)'
    BY AppliedGrows
  <2>2. MarksFollowMoney'
    BY <1>1, <1>2, <1>13, <2>1 DEF Move, MarksFollowMoney, Applied, Known
  <2>3. \A i \in DOMAIN chain[block] : i < at => Applied(chain[block][i])'
    BY <1>1, <1>13, <2>1 DEF Move, MoneyInv, Working
  <2>4. Current \in Txs /\ (IsLastLeg => applied'[Current] > 0)
    BY <1>13, MovementType DEF Move, TypeInv, TypeOK
  <2>5. UNCHANGED <<Current, IsLastLeg>>
    BY <1>13 DEF Move, Current, IsLastLeg, Legs, FeeLeg, Leg
  <2> QED BY <1>13, <2>2, <2>3, <2>4, <2>5 DEF Move, MoneyInv, Applied, Known
<1>14. CASE Index
  <2>1. CASE IsLastLeg
    BY <1>9, <1>14, <2>1 DEF Index, MoneyInv, Working
  <2>2. CASE ~IsLastLeg
    BY <1>3, <1>14, <2>2 DEF Index, MoneyInv
  <2> QED BY <2>1, <2>2
<1>15. CASE AllTaken
  <2>1. \A i \in DOMAIN chain[block] : i < at
    BY <1>1, <1>15 DEF AllTaken, MoreTxs, TypeInv, TypeOK, Working
  <2> QED BY <1>3, <1>15, <2>1 DEF AllTaken, MoneyInv
<1>16. ASSUME \/ NoncesDone \/ TotalsDone
              \/ \E w \in Wallets : AdvanceNonce(w)
              \/ \E u \in Users : Reconcile(u)
       PROVE  MoneyInv'
  BY <1>3, <1>16 DEF NoncesDone, TotalsDone, AdvanceNonce, Reconcile, MoneyInv
<1>17. CASE Confirm
  <2>1. Applied(Current)
    BY <1>1, <1>17 DEF Confirm, MoneyInv, MoreTxs, Current, TypeInv, TypeOK, Working
  <2>2. \A t \in confirmed' : Applied(t)
    BY <1>2, <1>17, <2>1 DEF Confirm
  <2>3. MarksFollowMoney'
    BY <1>2, <1>17, <2>2 DEF Confirm, MarksFollowMoney, Applied, Known
  <2> QED BY <1>17, <2>3 DEF Confirm, MoneyInv, Applied, Known
<1>18. CASE Mark
  <2>1. \A b \in processed' : \A i \in DOMAIN chain[b] : Applied(chain[b][i])
    BY <1>2, <1>18 DEF Mark, MoneyInv
  <2>2. MarksFollowMoney'
    BY <1>2, <1>18, <2>1 DEF Mark, MarksFollowMoney, Applied, Known
  <2> QED BY <1>4, <1>18, <2>2 DEF Mark, Forget
<1>19. CASE UNCHANGED vars
  <2>1. UNCHANGED <<Current, IsLastLeg>>
    BY <1>19 DEF vars, Current, IsLastLeg, Legs, FeeLeg, Leg
  <2> QED BY <1>3, <1>19, <2>1 DEF vars, MoneyInv, Applied, Known
<1> QED
  BY <1>5, <1>6, <1>7, <1>8, <1>10, <1>11, <1>12, <1>13, <1>14, <1>15, <1>16, <1>17, <1>18, <1>19
  DEF Next, RunStep, TxStep, SettleStep, RunLatest, RunTarget

\* No block is marked processed and no transaction confirmed whose money has not
\* been moved, wherever a run is refused or cut off.
THEOREM MarksTheorem == Spec => []MarksFollowMoney
<1>1. MoneyInv => MarksFollowMoney
  BY DEF MoneyInv
<1> QED BY <1>1, TypeInvariance, InitMoney, NextMoney, PTL DEF Spec

-----------------------------------------------------------------------------
(* The order of settlement, when no caller asks for one block.              *)

\* What a run has left is all that is not processed.
OrderInv ==
    /\ OldestFirst
    /\ pc # "idle" => DOMAIN chain \ processed \subseteq todo

\* The walk back finds every block that is not processed.
LEMMA FoundAll ==
    ASSUME TypeInv, OldestFirst
    PROVE  DOMAIN chain \ processed \subseteq Found
<1> SUFFICES ASSUME NEW b \in DOMAIN chain, b \notin processed,
                    NEW c \in b .. Len(chain), c \in processed
             PROVE  FALSE
  BY DEF Found
<1>1. 1 .. c \subseteq processed
  BY DEF OldestFirst
<1>2. b \in 1 .. c
  BY DEF TypeInv, TypeOK
<1> QED BY <1>1, <1>2

LEMMA NextOrder ==
    ASSUME ~Targets, TypeInv, OrderInv, [Next]_vars
    PROVE  OrderInv'
<1> USE DEF ledger, locals
<1>1. ASSUME processed' = processed PROVE OldestFirst'
  BY <1>1 DEF OrderInv, OldestFirst
<1>2. ASSUME NEW body \in Bodies, AddBlock(body) PROVE OrderInv'
  BY <1>1, <1>2 DEF AddBlock, OrderInv
<1>3. CASE RunLatest
  BY <1>1, <1>3, FoundAll DEF RunLatest, StartWith, OrderInv
<1>4. CASE Return \/ Refuse \/ Crash
  BY <1>1, <1>4 DEF Return, Refuse, Crash, Forget, OrderInv
<1>5. CASE Mark
  <2>1. /\ block \in todo /\ \A b \in todo : block <= b
        /\ block \in DOMAIN chain
    BY <1>5 DEF Mark, TypeInv, TypeOK, StageOK, Working
  <2>2. \A b \in 1 .. block : b = block \/ b \in processed
    <3> TAKE b \in 1 .. block
    <3>1. b \in DOMAIN chain
      BY <2>1 DEF TypeInv, TypeOK
    <3>2. b \in todo => b = block
      BY <2>1 DEF TypeInv, TypeOK
    <3> QED BY <1>5, <3>1, <3>2 DEF Mark, OrderInv
  <2>3. OldestFirst'
    BY <1>5, <2>2 DEF Mark, OrderInv, OldestFirst
  <2>4. pc' # "idle" => DOMAIN chain' \ processed' \subseteq todo'
    BY <1>5 DEF Mark, Forget, OrderInv
  <2> QED BY <2>3, <2>4 DEF OrderInv
<1>6. CASE BeginBlock \/ SkipConfirmed \/ NoteUnknown \/ BeginTx \/ Move \/ Index \/ AllTaken
  BY <1>1, <1>6 DEF BeginBlock, SkipConfirmed, NoteUnknown, BeginTx, Move, Index, AllTaken, OrderInv
<1>7. CASE \/ NoncesDone \/ TotalsDone \/ Confirm
           \/ \E w \in Wallets : AdvanceNonce(w)
           \/ \E u \in Users : Reconcile(u)
  BY <1>1, <1>7 DEF NoncesDone, TotalsDone, Confirm, AdvanceNonce, Reconcile, OrderInv
<1>8. CASE UNCHANGED vars
  BY <1>1, <1>8 DEF vars, OrderInv
<1> QED
  BY <1>2, <1>3, <1>4, <1>5, <1>6, <1>7, <1>8
  DEF Next, RunStep, TxStep, SettleStep, RunTarget

\* Blocks are settled from genesis on without a gap, whatever is refused or cut
\* off.
THEOREM OrderTheorem == ~Targets => (Spec => []OldestFirst)
<1> SUFFICES ASSUME ~Targets PROVE Spec => []OldestFirst
  OBVIOUS
<1>1. Init => OrderInv
  BY DEF Init, OrderInv, OldestFirst
<1>2. TypeInv /\ OrderInv /\ [Next]_vars => OrderInv'
  BY NextOrder
<1>3. OrderInv => OldestFirst
  BY DEF OrderInv
<1> QED BY <1>1, <1>2, <1>3, TypeInvariance, PTL DEF Spec

\* A run over the chain has before it all that earlier runs left.
THEOREM FindsAllTheorem == ~Targets => (Spec => FindsAll)
<1> SUFFICES ASSUME ~Targets PROVE Spec => FindsAll
  OBVIOUS
<1>1. TypeInv /\ OldestFirst /\ [Next]_vars
        => [RunLatest => DOMAIN chain \ processed \subseteq todo']_vars
  BY FoundAll DEF RunLatest, StartWith
<1>2. Spec => []OldestFirst
  BY OrderTheorem
<1> QED BY <1>1, <1>2, TypeInvariance, PTL DEF Spec, FindsAll

-----------------------------------------------------------------------------
(* Confirmations.                                                           *)

\* While it confirms, a run has confirmed what it has passed.
ConfirmInv ==
    /\ ProcessedIsConfirmed
    /\ pc = "confirm" => \A i \in DOMAIN chain[block] : i < at => chain[block][i] \in confirmed

LEMMA NextConfirm ==
    ASSUME Recorded = Txs, TypeInv, ConfirmInv, [Next]_vars
    PROVE  ConfirmInv'
<1> USE DEF ledger, locals
<1>1. /\ \A b \in DOMAIN chain : \A i \in DOMAIN chain[b] : chain[b][i] \in Txs
      /\ processed \subseteq DOMAIN chain
      /\ pc \in Working => block \in DOMAIN chain
  BY DEF TypeInv, TypeOK, StageOK
<1>2. ASSUME UNCHANGED <<processed, confirmed>>, pc' # "confirm",
             \A b \in DOMAIN chain : chain'[b] = chain[b]
      PROVE  ConfirmInv'
  BY <1>1, <1>2 DEF ConfirmInv, ProcessedIsConfirmed
<1>3. ASSUME NEW body \in Bodies, AddBlock(body) PROVE ConfirmInv'
  <2>1. \A b \in DOMAIN chain : chain'[b] = chain[b]
    BY <1>3 DEF AddBlock, TypeInv, TypeOK
  <2> QED BY <1>2, <1>3, <2>1 DEF AddBlock
<1>4. CASE TotalsDone
  <2>1. \A i \in DOMAIN chain[block] : ~(i < at')
    BY <1>1, <1>4 DEF TotalsDone, TypeInv, TypeOK, Working
  <2> QED BY <1>4, <2>1 DEF TotalsDone, ConfirmInv, ProcessedIsConfirmed
<1>5. CASE Confirm
  <2>1. Current \in confirmed'
    BY <1>1, <1>5 DEF Confirm, MoreTxs, Current, TypeInv, TypeOK, Working
  <2>2. \A i \in DOMAIN chain[block] : i < at + 1 => i < at \/ i = at
    BY <1>1, <1>5 DEF Confirm, TypeInv, TypeOK, Working
  <2>3. \A i \in DOMAIN chain[block] : i < at' => chain[block][i] \in confirmed'
    BY <1>5, <2>1, <2>2 DEF Confirm, ConfirmInv, Current
  <2> QED BY <1>5, <2>3 DEF Confirm, ConfirmInv, ProcessedIsConfirmed
<1>6. CASE Mark
  <2>1. \A i \in DOMAIN chain[block] : i < at
    BY <1>1, <1>6 DEF Mark, MoreTxs, TypeInv, TypeOK, Working
  <2>2. ProcessedIsConfirmed'
    BY <1>6, <2>1 DEF Mark, ConfirmInv, ProcessedIsConfirmed
  <2> QED BY <1>6, <2>2 DEF Mark, Forget, ConfirmInv
<1>7. CASE \/ RunLatest \/ \E b \in DOMAIN chain : RunTarget(b)
           \/ BeginBlock \/ Return \/ Crash \/ Refuse
  BY <1>2, <1>7 DEF RunLatest, RunTarget, StartWith, BeginBlock, Return, Crash, Refuse, Forget
<1>8. CASE \/ SkipConfirmed \/ NoteUnknown \/ BeginTx \/ Move \/ Index \/ AllTaken \/ NoncesDone
           \/ \E w \in Wallets : AdvanceNonce(w)
           \/ \E u \in Users : Reconcile(u)
  BY <1>2, <1>8 DEF SkipConfirmed, NoteUnknown, BeginTx, Move, Index, AllTaken, NoncesDone,
    AdvanceNonce, Reconcile
<1>9. CASE UNCHANGED vars
  BY <1>9 DEF vars, ConfirmInv, ProcessedIsConfirmed
<1> QED
  BY <1>3, <1>4, <1>5, <1>6, <1>7, <1>8, <1>9 DEF Next, RunStep, TxStep, SettleStep

\* On a network whose transactions are all submitted to the first node, the
\* transactions of every processed block are confirmed.
THEOREM ConfirmedTheorem == Recorded = Txs => (Spec => []ProcessedIsConfirmed)
<1> SUFFICES ASSUME Recorded = Txs PROVE Spec => []ProcessedIsConfirmed
  OBVIOUS
<1>1. Init => ConfirmInv
  BY DEF Init, ConfirmInv, ProcessedIsConfirmed
<1>2. TypeInv /\ ConfirmInv /\ [Next]_vars => ConfirmInv'
  BY NextConfirm
<1>3. ConfirmInv => ProcessedIsConfirmed
  BY DEF ConfirmInv
<1> QED BY <1>1, <1>2, <1>3, TypeInvariance, PTL DEF Spec

\* On the network of the code's own entry points, blocks are settled in order and
\* what is processed is confirmed.
THEOREM ConfirmedPrefixTheorem == ~Targets /\ Recorded = Txs => (Spec => []ConfirmedPrefix)
  BY OrderTheorem, ConfirmedTheorem, PTL DEF ConfirmedPrefix

-----------------------------------------------------------------------------
(* Sums over finite sets.                                                   *)

\* Induction, over sets of numbers.
LEMMA SetInduction ==
    ASSUME NEW S, 0 \in S, \A n \in Nat : n \in S => n + 1 \in S
    PROVE  Nat \subseteq S
<1> DEFINE R == OpToRel(<, Nat)
           T == Nat \ S
<1>1. R = {ss \in Nat \X Nat : ss[1] < ss[2]}
  BY DEF OpToRel
<1>2. IsWellFoundedOn(R, Nat)
  BY NatLessThanWellFounded
<1> HIDE DEF R
<1>3. SUFFICES ASSUME T # {} PROVE FALSE
  OBVIOUS
<1>4. PICK x \in T : \A y \in T : <<y, x>> \notin R
  <2>1. T \subseteq Nat
    OBVIOUS
  <2> HIDE DEF T
  <2> QED
    BY <1>2, <1>3, <2>1, WFMin
<1>5. x \in Nat /\ x # 0
  OBVIOUS
<1>6. x - 1 \in T
  BY <1>5
<1>7. <<x - 1, x>> \in R
  BY <1>1, <1>5
<1> QED
  BY <1>4, <1>6, <1>7

\* How the library adds up the values of f over the sets of D: g[s] is the sum over s.
AddStep(g, f, s) ==
    IF s = {} THEN 0 ELSE LET x == CHOOSE x \in s : TRUE IN f[x] + g[s \ {x}]
Adds(g, f, D) == g = [s \in D |-> AddStep(g, f, s)]

LEMMA SumUnfold ==
    ASSUME NEW f, NEW S
    PROVE  SumFunctionOnSet(f, S) = (CHOOSE g : Adds(g, f, SUBSET S))[S]
BY DEF SumFunctionOnSet, FoldFunctionOnSet, MapThenFoldSet, Adds, AddStep

\* The choice takes one element from a set.
LEMMA ChosenElement ==
    ASSUME NEW S, IsFiniteSet(S), S # {}
    PROVE  LET x == CHOOSE x \in S : TRUE
           IN  /\ x \in S
               /\ IsFiniteSet(S \ {x})
               /\ Cardinality(S) \in Nat \ {0}
               /\ Cardinality(S \ {x}) = Cardinality(S) - 1
<1>1. (CHOOSE x \in S : TRUE) \in S
  OBVIOUS
<1> QED BY <1>1, FS_RemoveElement, FS_CardinalityType, FS_EmptySet

LEMMA AddsExists ==
    ASSUME NEW f, NEW S, IsFiniteSet(S)
    PROVE  \E g : Adds(g, f, SUBSET S)
<1> DEFINE Upto(n) == {s \in SUBSET S : Cardinality(s) <= n}
           N == {n \in Nat : \E g : Adds(g, f, Upto(n))}
<1>0. \A s \in SUBSET S : IsFiniteSet(s) /\ Cardinality(s) \in Nat
  BY FS_Subset, FS_CardinalityType
<1>1. 0 \in N
  <2> DEFINE g == [s \in Upto(0) |-> 0]
  <2>1. \A s \in Upto(0) : s = {}
    BY <1>0, FS_EmptySet
  <2>2. \A s \in Upto(0) : AddStep(g, f, s) = 0
    BY <2>1 DEF AddStep
  <2>3. Adds(g, f, Upto(0))
    BY <2>2 DEF Adds
  <2> QED BY <2>3
<1>2. ASSUME NEW n \in Nat, n \in N PROVE n + 1 \in N
  <2>1. PICK g : Adds(g, f, Upto(n))
    BY <1>2
  <2> DEFINE h == [s \in Upto(n + 1) |-> AddStep(g, f, s)]
  <2>2. ASSUME NEW s \in Upto(n + 1)
        PROVE  AddStep(h, f, s) = AddStep(g, f, s)
    <3>1. CASE s = {}
      BY <3>1 DEF AddStep
    <3>2. CASE s # {}
      <4> DEFINE x == CHOOSE x \in s : TRUE
      <4>1. /\ Cardinality(s) \in Nat /\ Cardinality(s) <= n + 1
            /\ Cardinality(s \ {x}) = Cardinality(s) - 1
        BY <1>0, <3>2, ChosenElement
      <4>2. s \ {x} \in Upto(n) /\ s \ {x} \in Upto(n + 1)
        BY <4>1
      <4>3. h[s \ {x}] = AddStep(g, f, s \ {x})
        BY <4>2
      <4>4. g[s \ {x}] = AddStep(g, f, s \ {x})
        BY <2>1, <4>2 DEF Adds
      <4> QED BY <3>2, <4>3, <4>4 DEF AddStep
    <3> QED BY <3>1, <3>2
  <2>3. Adds(h, f, Upto(n + 1))
    BY <2>2 DEF Adds
  <2> HIDE DEF h, Upto
  <2> QED BY <2>3
<1>3. Nat \subseteq N
  <2> HIDE DEF N
  <2> QED BY <1>1, <1>2, SetInduction
<1>4. Cardinality(S) \in N
  BY <1>3, FS_CardinalityType
<1>5. Upto(Cardinality(S)) = SUBSET S
  BY FS_Subset
<1> QED BY <1>4, <1>5

\* A sum over a set does not depend on the larger set it was computed in.
LEMMA AddsUnique ==
    ASSUME NEW f, NEW S, IsFiniteSet(S), NEW T \in SUBSET S
    PROVE  \A g, h : Adds(g, f, SUBSET S) /\ Adds(h, f, SUBSET T) => g[T] = h[T]
<1> SUFFICES ASSUME NEW g, NEW h, Adds(g, f, SUBSET S), Adds(h, f, SUBSET T)
             PROVE  g[T] = h[T]
  OBVIOUS
<1> DEFINE Same(s) == g[s] = h[s]
           N == {n \in Nat : \A s \in SUBSET T : Cardinality(s) = n => Same(s)}
<1>0. \A s \in SUBSET T : IsFiniteSet(s) /\ Cardinality(s) \in Nat
  BY FS_Subset, FS_CardinalityType
<1>1. ASSUME NEW s \in SUBSET T
      PROVE  g[s] = AddStep(g, f, s) /\ h[s] = AddStep(h, f, s)
  BY DEF Adds
<1>2. 0 \in N
  <2> SUFFICES ASSUME NEW s \in SUBSET T, Cardinality(s) = 0 PROVE Same(s)
    OBVIOUS
  <2>1. s = {}
    BY <1>0, FS_EmptySet
  <2> QED BY <1>1, <2>1 DEF AddStep
<1>3. ASSUME NEW n \in Nat, n \in N PROVE n + 1 \in N
  <2> SUFFICES ASSUME NEW s \in SUBSET T, Cardinality(s) = n + 1 PROVE Same(s)
    OBVIOUS
  <2>1. s # {}
    BY <1>0, FS_EmptySet
  <2> DEFINE x == CHOOSE x \in s : TRUE
  <2>2. Cardinality(s \ {x}) = n /\ s \ {x} \in SUBSET T
    BY <1>0, <2>1, ChosenElement
  <2>3. Same(s \ {x})
    BY <1>3, <2>2
  <2> QED BY <1>1, <2>1, <2>3 DEF AddStep
<1>4. Nat \subseteq N
  <2> HIDE DEF N
  <2> QED BY <1>2, <1>3, SetInduction
<1> QED BY <1>0, <1>4

LEMMA SumDefined ==
    ASSUME NEW f, NEW S, IsFiniteSet(S)
    PROVE  \E g : Adds(g, f, SUBSET S) /\ SumFunctionOnSet(f, S) = g[S]
BY AddsExists, SumUnfold

LEMMA SumEmpty == ASSUME NEW f PROVE SumFunctionOnSet(f, {}) = 0
<1>1. PICK g : Adds(g, f, SUBSET {}) /\ SumFunctionOnSet(f, {}) = g[{}]
  BY SumDefined, FS_EmptySet
<1> QED BY <1>1 DEF Adds, AddStep

LEMMA SumChosen ==
    ASSUME NEW f, NEW S, IsFiniteSet(S), S # {}
    PROVE  LET x == CHOOSE x \in S : TRUE
           IN  SumFunctionOnSet(f, S) = f[x] + SumFunctionOnSet(f, S \ {x})
<1> DEFINE x == CHOOSE x \in S : TRUE
<1>1. IsFiniteSet(S \ {x}) /\ S \ {x} \in SUBSET S
  BY ChosenElement
<1>2. PICK g : Adds(g, f, SUBSET S) /\ SumFunctionOnSet(f, S) = g[S]
  BY SumDefined
<1>3. PICK h : Adds(h, f, SUBSET (S \ {x})) /\ SumFunctionOnSet(f, S \ {x}) = h[S \ {x}]
  BY <1>1, SumDefined
<1>4. g[S \ {x}] = h[S \ {x}]
  <2>1. PICK T \in SUBSET S : T = S \ {x}
    OBVIOUS
  <2>2. Adds(g, f, SUBSET S) /\ Adds(h, f, SUBSET T) /\ IsFiniteSet(S)
    BY <1>2, <1>3, <2>1
  <2>3. g[T] = h[T]
    BY <2>2, AddsUnique
  <2> QED BY <2>1, <2>3
<1>5. g[S] = AddStep(g, f, S)
  BY <1>2 DEF Adds
<1> QED BY <1>2, <1>3, <1>4, <1>5 DEF AddStep

\* Any element may be taken from a sum.
LEMMA SumSplit ==
    ASSUME NEW f, NEW S, IsFiniteSet(S), \A x \in S : f[x] \in Int
    PROVE  /\ SumFunctionOnSet(f, S) \in Int
           /\ \A x \in S : SumFunctionOnSet(f, S) = f[x] + SumFunctionOnSet(f, S \ {x})
<1> DEFINE Sum(s) == SumFunctionOnSet(f, s)
           Good(s) == /\ Sum(s) \in Int
                      /\ \A x \in s : /\ Sum(s \ {x}) \in Int
                                      /\ Sum(s) = f[x] + Sum(s \ {x})
           N == {n \in Nat : \A s \in SUBSET S : Cardinality(s) = n => Good(s)}
<1>0. \A s \in SUBSET S : IsFiniteSet(s) /\ Cardinality(s) \in Nat
  BY FS_Subset, FS_CardinalityType
<1>1. 0 \in N
  <2> SUFFICES ASSUME NEW s \in SUBSET S, Cardinality(s) = 0 PROVE Good(s)
    OBVIOUS
  <2>1. s = {}
    BY <1>0, FS_EmptySet
  <2> QED BY <2>1, SumEmpty
<1>2. ASSUME NEW n \in Nat, n \in N PROVE n + 1 \in N
  <2> SUFFICES ASSUME NEW s \in SUBSET S, Cardinality(s) = n + 1 PROVE Good(s)
    OBVIOUS
  <2>1. s # {}
    BY <1>0, FS_EmptySet
  <2>2. PICK p \in s : Sum(s) = f[p] + Sum(s \ {p})
    BY <1>0, <2>1, SumChosen
  <2>3. ASSUME NEW x \in s PROVE s \ {x} \in SUBSET S /\ Good(s \ {x})
    <3> HIDE DEF Good
    <3>1. Cardinality(s \ {x}) = Cardinality(s) - 1 /\ s \ {x} \in SUBSET S
      BY <1>0, FS_RemoveElement
    <3> QED BY <1>2, <3>1
  <2> HIDE DEF Sum
  <2>4. Sum(s) \in Int
    BY <2>2, <2>3
  <2>5. ASSUME NEW x \in s, x # p PROVE Sum(s) = f[x] + Sum(s \ {x})
    <3>1. (s \ {p}) \ {x} = (s \ {x}) \ {p}
      OBVIOUS
    <3>2. Sum(s \ {p}) = f[x] + Sum((s \ {p}) \ {x})
      BY <2>3, <2>5
    <3>3. Sum(s \ {x}) = f[p] + Sum((s \ {p}) \ {x}) /\ Sum(s \ {x}) \in Int
      BY <2>3, <2>5, <3>1
    <3>4. f[p] \in Int /\ f[x] \in Int /\ Sum(s \ {p}) \in Int
      BY <2>3
    <3>5. Sum((s \ {p}) \ {x}) \in Int
      BY <2>3, <2>5
    <3> QED BY <2>2, <3>2, <3>3, <3>4, <3>5
  <2> QED BY <2>2, <2>3, <2>4, <2>5
<1>3. Nat \subseteq N
  <2> HIDE DEF N
  <2> QED BY <1>1, <1>2, SetInduction
<1> QED BY <1>0, <1>3

\* Functions that agree on a set have the same sum over it.
LEMMA SumSame ==
    ASSUME NEW f, NEW g, NEW S, IsFiniteSet(S), \A x \in S : f[x] \in Int /\ g[x] = f[x]
    PROVE  SumFunctionOnSet(g, S) = SumFunctionOnSet(f, S)
<1> DEFINE Same(s) == SumFunctionOnSet(g, s) = SumFunctionOnSet(f, s)
           N == {n \in Nat : \A s \in SUBSET S : Cardinality(s) = n => Same(s)}
<1>0. \A s \in SUBSET S : IsFiniteSet(s) /\ Cardinality(s) \in Nat
  BY FS_Subset, FS_CardinalityType
<1>1. 0 \in N
  <2> SUFFICES ASSUME NEW s \in SUBSET S, Cardinality(s) = 0 PROVE Same(s)
    OBVIOUS
  <2>1. s = {}
    BY <1>0, FS_EmptySet
  <2> QED BY <2>1, SumEmpty
<1>2. ASSUME NEW n \in Nat, n \in N PROVE n + 1 \in N
  <2> SUFFICES ASSUME NEW s \in SUBSET S, Cardinality(s) = n + 1 PROVE Same(s)
    OBVIOUS
  <2>1. s # {}
    BY <1>0, FS_EmptySet
  <2>2. PICK x \in s : TRUE
    BY <2>1
  <2>3. Cardinality(s \ {x}) = Cardinality(s) - 1 /\ s \ {x} \in SUBSET S
    BY <1>0, FS_RemoveElement
  <2>4. Same(s \ {x})
    BY <1>2, <2>3
  <2>5. SumFunctionOnSet(f, s) = f[x] + SumFunctionOnSet(f, s \ {x})
    BY <1>0, SumSplit
  <2>6. SumFunctionOnSet(g, s) = g[x] + SumFunctionOnSet(g, s \ {x})
    BY <1>0, SumSplit
  <2> QED BY <2>4, <2>5, <2>6
<1>3. Nat \subseteq N
  <2> HIDE DEF N
  <2> QED BY <1>1, <1>2, SetInduction
<1> QED BY <1>0, <1>3

\* Nothing adds up to nothing.
LEMMA SumZero ==
    ASSUME NEW f, NEW S, IsFiniteSet(S), \A x \in S : f[x] = 0
    PROVE  SumFunctionOnSet(f, S) = 0
<1> DEFINE N == {n \in Nat : \A s \in SUBSET S : Cardinality(s) = n => SumFunctionOnSet(f, s) = 0}
<1>0. \A s \in SUBSET S : IsFiniteSet(s) /\ Cardinality(s) \in Nat
  BY FS_Subset, FS_CardinalityType
<1>1. 0 \in N
  <2> SUFFICES ASSUME NEW s \in SUBSET S, Cardinality(s) = 0
               PROVE  SumFunctionOnSet(f, s) = 0
    OBVIOUS
  <2>1. s = {}
    BY <1>0, FS_EmptySet
  <2> QED BY <2>1, SumEmpty
<1>2. ASSUME NEW n \in Nat, n \in N PROVE n + 1 \in N
  <2> SUFFICES ASSUME NEW s \in SUBSET S, Cardinality(s) = n + 1
               PROVE  SumFunctionOnSet(f, s) = 0
    OBVIOUS
  <2>1. s # {}
    BY <1>0, FS_EmptySet
  <2>2. PICK x \in s : SumFunctionOnSet(f, s) = f[x] + SumFunctionOnSet(f, s \ {x})
    BY <1>0, <2>1, SumChosen
  <2>3. Cardinality(s \ {x}) = Cardinality(s) - 1 /\ s \ {x} \in SUBSET S
    BY <1>0, FS_RemoveElement
  <2>4. SumFunctionOnSet(f, s \ {x}) = 0
    BY <1>2, <2>3
  <2> QED BY <2>2, <2>4
<1>3. Nat \subseteq N
  <2> HIDE DEF N
  <2> QED BY <1>1, <1>2, SetInduction
<1> QED BY <1>0, <1>3

\* A change of one value changes the sum by as much.
LEMMA SumChanged ==
    ASSUME NEW f, NEW g, NEW S, IsFiniteSet(S), NEW w \in S,
           \A x \in S : f[x] \in Int /\ g[x] \in Int,
           \A x \in S \ {w} : g[x] = f[x]
    PROVE  /\ SumFunctionOnSet(f, S) \in Int
           /\ SumFunctionOnSet(g, S) = SumFunctionOnSet(f, S) + (g[w] - f[w])
<1>1. IsFiniteSet(S \ {w})
  BY FS_RemoveElement
<1>2. SumFunctionOnSet(g, S \ {w}) = SumFunctionOnSet(f, S \ {w})
  BY <1>1, SumSame
<1>3. /\ SumFunctionOnSet(f, S) = f[w] + SumFunctionOnSet(f, S \ {w})
      /\ SumFunctionOnSet(f, S) \in Int
  BY SumSplit
<1>4. SumFunctionOnSet(g, S) = g[w] + SumFunctionOnSet(g, S \ {w})
  BY SumSplit
<1>5. SumFunctionOnSet(f, S \ {w}) \in Int
  BY <1>1, SumSplit
<1> QED BY <1>2, <1>3, <1>4, <1>5

\* An element that joins adds its value.
LEMMA SumJoined ==
    ASSUME NEW f, NEW S, IsFiniteSet(S), NEW t, t \notin S, \A x \in S \cup {t} : f[x] \in Int
    PROVE  /\ SumFunctionOnSet(f, S) \in Int
           /\ SumFunctionOnSet(f, S \cup {t}) = SumFunctionOnSet(f, S) + f[t]
<1>1. PICK T : T = S \cup {t}
  OBVIOUS
<1>2. IsFiniteSet(T) /\ T \ {t} = S /\ t \in T /\ \A x \in T : f[x] \in Int
  BY <1>1, FS_AddElement
<1>3. SumFunctionOnSet(f, T) = f[t] + SumFunctionOnSet(f, S)
  BY <1>2, SumSplit
<1>4. SumFunctionOnSet(f, S) \in Int /\ f[t] \in Int
  BY SumSplit
<1> QED BY <1>1, <1>3, <1>4

-----------------------------------------------------------------------------
(* Only minting makes money.                                                *)

Single(t, p)       == Len(Legs(t)) = 1 /\ Legs(t)[1] = p
Double(t, p, q)    == Len(Legs(t)) = 2 /\ Legs(t)[1] = p /\ Legs(t)[2] = q
Triple(t, p, q, r) == Len(Legs(t)) = 3 /\ Legs(t)[1] = p /\ Legs(t)[2] = q /\ Legs(t)[3] = r

\* The movements of a transaction, one by one.
LEMMA LegsShape ==
    ASSUME NEW t \in Txs, Known(t)
    PROVE  LET tx   == Tx[t]
               cost == tx.amount + tx.fee
           IN  /\ tx.type = "mint" => Single(t, Leg(tx.to, tx.amount))
               /\ tx.type = "reward" => Double(t, Leg(tx.to, tx.amount), Leg(Pool, -tx.amount))
               /\ tx.type = "unstake" => Double(t, Leg(Pool, -tx.amount), Leg(tx.to, tx.amount))
               /\ tx.type \in {"stake", "slash"} => Double(t, Leg(tx.from, -cost), Leg(Pool, cost))
               /\ tx.type = "transfer" =>
                    IF tx.fee > 0
                    THEN Triple(t, Leg(tx.from, -cost), Leg(tx.to, tx.amount), Leg(Pool, tx.fee))
                    ELSE Double(t, Leg(tx.from, -cost), Leg(tx.to, tx.amount))
               /\ tx.type = "burn" =>
                    IF tx.fee > 0
                    THEN Triple(t, Leg(tx.from, -cost), Leg(Burn, tx.amount), Leg(Pool, tx.fee))
                    ELSE Double(t, Leg(tx.from, -cost), Leg(Burn, tx.amount))
<1>1. \A p, q, r : LET s == <<p, q>> \o <<r>> IN Len(s) = 3 /\ s[1] = p /\ s[2] = q /\ s[3] = r
  OBVIOUS
<1>2. \A p, q : LET s == <<p, q>> \o << >> IN Len(s) = 2 /\ s[1] = p /\ s[2] = q
  OBVIOUS
<1>3. \A p, q : /\ Len(<<p>>) = 1 /\ <<p>>[1] = p
                /\ Len(<<p, q>>) = 2 /\ <<p, q>>[1] = p /\ <<p, q>>[2] = q
  OBVIOUS
<1> DEFINE tx   == Tx[t]
           cost == tx.amount + tx.fee
<1>4. tx.type = "mint" => Single(t, Leg(tx.to, tx.amount))
  BY <1>3 DEF Legs, Single
<1>5. tx.type = "reward" => Double(t, Leg(tx.to, tx.amount), Leg(Pool, -tx.amount))
  BY <1>3 DEF Legs, Double
<1>6. tx.type = "unstake" => Double(t, Leg(Pool, -tx.amount), Leg(tx.to, tx.amount))
  BY <1>3 DEF Legs, Double
<1>7. tx.type \in {"stake", "slash"} => Double(t, Leg(tx.from, -cost), Leg(Pool, cost))
  BY <1>3 DEF Legs, Double
<1>8. ASSUME NEW p, NEW q, Legs(t) = <<p, q>> \o FeeLeg(t)
      PROVE  IF tx.fee > 0 THEN Triple(t, p, q, Leg(Pool, tx.fee)) ELSE Double(t, p, q)
  <2>1. CASE tx.fee > 0
    <3>1. Legs(t) = <<p, q>> \o <<Leg(Pool, tx.fee)>>
      BY <1>8, <2>1 DEF FeeLeg
    <3>2. Triple(t, p, q, Leg(Pool, tx.fee))
      BY <1>1, <3>1 DEF Triple
    <3> QED BY <2>1, <3>2
  <2>2. CASE ~(tx.fee > 0)
    <3>1. Legs(t) = <<p, q>> \o << >>
      BY <1>8, <2>2 DEF FeeLeg
    <3>2. Double(t, p, q)
      BY <1>2, <3>1 DEF Double
    <3> QED BY <2>2, <3>2
  <2> QED BY <2>1, <2>2
<1>9. tx.type = "transfer" =>
        IF tx.fee > 0
        THEN Triple(t, Leg(tx.from, -cost), Leg(tx.to, tx.amount), Leg(Pool, tx.fee))
        ELSE Double(t, Leg(tx.from, -cost), Leg(tx.to, tx.amount))
  <2>1. tx.type = "transfer" =>
          Legs(t) = <<Leg(tx.from, -cost), Leg(tx.to, tx.amount)>> \o FeeLeg(t)
    BY DEF Legs
  <2> QED BY <1>8, <2>1
<1>10. tx.type = "burn" =>
         IF tx.fee > 0
         THEN Triple(t, Leg(tx.from, -cost), Leg(Burn, tx.amount), Leg(Pool, tx.fee))
         ELSE Double(t, Leg(tx.from, -cost), Leg(Burn, tx.amount))
  <2>1. tx.type = "burn" =>
          Legs(t) = <<Leg(tx.from, -cost), Leg(Burn, tx.amount)>> \o FeeLeg(t)
    BY DEF Legs
  <2> QED BY <1>8, <2>1
<1> QED BY <1>4, <1>5, <1>6, <1>7, <1>9, <1>10

\* What the first k movements of a transaction, none of them its last, add up to.
PartSum(t, k) ==
    (IF k >= 1 THEN Legs(t)[1].change ELSE 0) + (IF k >= 2 THEN Legs(t)[2].change ELSE 0)

\* Every transaction but a reward takes money before it gives it, and gives no more
\* than it took, a mint excepted.
NeverAhead(t) ==
    LET n == Len(Legs(t))
    IN  /\ n \in 1 .. 3
        /\ \A k \in 0 .. n - 1 : PartSum(t, k) \in Int /\ PartSum(t, k) <= 0
        /\ \A k \in 1 .. n - 1 : PartSum(t, k) = PartSum(t, k - 1) + Legs(t)[k].change
        /\ PartSum(t, n - 1) + Legs(t)[n].change = When(Is(t, {"mint"}), Tx[t].amount)

LEMMA LegsNeverAhead ==
    ASSUME NEW t \in Txs, Known(t), Tx[t].type # "reward"
    PROVE  NeverAhead(t)
<1>0. /\ Tx[t].amount \in Nat /\ Tx[t].fee \in Nat
      /\ Tx[t].type \in {"mint", "burn", "transfer", "stake", "unstake", "slash"}
  BY PaymentAssumption DEF Known, KnownTypes
<1>1. ASSUME NEW a, Single(t, Leg(a, Tx[t].amount)), Tx[t].type = "mint"
      PROVE  NeverAhead(t)
  BY <1>0, <1>1 DEF NeverAhead, PartSum, Leg, Single, When, Is
<1>2. ASSUME NEW a, NEW b, NEW v \in Int, NEW u \in Int, Double(t, Leg(a, v), Leg(b, u)),
             v <= 0, v + u = 0, Tx[t].type # "mint"
      PROVE  NeverAhead(t)
  BY <1>0, <1>2 DEF NeverAhead, PartSum, Leg, Double, When, Is
<1>3. ASSUME NEW a, NEW b, NEW c, NEW v \in Int, NEW u \in Int, NEW x \in Int,
             Triple(t, Leg(a, v), Leg(b, u), Leg(c, x)),
             v <= 0, v + u <= 0, v + u + x = 0, Tx[t].type # "mint"
      PROVE  NeverAhead(t)
  BY <1>0, <1>3 DEF NeverAhead, PartSum, Leg, Triple, When, Is
<1>4. CASE Tx[t].type = "mint"
  BY <1>1, <1>4, LegsShape
<1>5. CASE Tx[t].type = "unstake"
  <2>1. Double(t, Leg(Pool, -Tx[t].amount), Leg(Tx[t].to, Tx[t].amount))
    BY <1>5, LegsShape
  <2> QED BY <1>0, <1>2, <1>5, <2>1
<1>6. CASE Tx[t].type \in {"stake", "slash"}
  <2> DEFINE cost == Tx[t].amount + Tx[t].fee
  <2>1. Double(t, Leg(Tx[t].from, -cost), Leg(Pool, cost))
    BY <1>6, LegsShape
  <2> QED BY <1>0, <1>2, <1>6, <2>1
<1>7. CASE Tx[t].type \in {"transfer", "burn"}
  <2> DEFINE cost == Tx[t].amount + Tx[t].fee
  <2>1. PICK a : IF Tx[t].fee > 0
                 THEN Triple(t, Leg(Tx[t].from, -cost), Leg(a, Tx[t].amount), Leg(Pool, Tx[t].fee))
                 ELSE Double(t, Leg(Tx[t].from, -cost), Leg(a, Tx[t].amount))
    BY <1>7, LegsShape
  <2> QED BY <1>0, <1>2, <1>3, <1>7, <2>1
<1> QED BY <1>0, <1>4, <1>5, <1>6, <1>7

\* What the movements made of the transaction in work add up to.
Owed == CASE pc = "leg" -> PartSum(Current, leg - 1)
          [] pc = "index" /\ ~IsLastLeg -> PartSum(Current, leg)
          [] OTHER -> 0

Rewardless(body) == \A i \in DOMAIN body : Tx[body[i]].type # "reward"

\* The wallets hold no more than they did at first, what was minted since, and what
\* the transaction in work has taken and not yet given.
CoverInv ==
    /\ \A b \in DOMAIN chain : Rewardless(chain[b])
    /\ SumFunction(balance) <= SumFunction(Opening) + Minted + Owed

LEMMA OwedFacts ==
    ASSUME TypeInv, \A b \in DOMAIN chain : Rewardless(chain[b])
    PROVE  /\ Owed \in Int /\ Owed <= 0
           /\ pc \in {"leg", "index"} =>
                /\ Current \in Txs /\ NeverAhead(Current)
                /\ leg \in 1 .. Len(Legs(Current))
<1>1. CASE pc \notin {"leg", "index"}
  BY <1>1 DEF Owed
<1>2. CASE pc \in {"leg", "index"}
  <2>1. /\ Current \in Txs /\ Known(Current) /\ Tx[Current].type # "reward"
    BY <1>2, MovementType DEF TypeInv, StageOK, Rewardless, Current
  <2>2. NeverAhead(Current)
    BY <2>1, LegsNeverAhead
  <2>3. leg \in 1 .. Len(Legs(Current))
    BY <1>2, <2>2 DEF TypeInv, TypeOK, StageOK, NeverAhead
  <2>4. pc = "index" /\ ~IsLastLeg => leg \in 0 .. Len(Legs(Current)) - 1
    BY <2>2, <2>3 DEF IsLastLeg, NeverAhead
  <2>5. leg - 1 \in 0 .. Len(Legs(Current)) - 1
    BY <2>2, <2>3 DEF NeverAhead
  <2>6. Owed \in Int /\ Owed <= 0
    BY <1>2, <2>2, <2>4, <2>5 DEF Owed, NeverAhead
  <2> QED BY <2>1, <2>2, <2>3, <2>6
<1> QED BY <1>1, <1>2

MintTxs   == {t \in Txs : Is(t, {"mint"})}
Coined(a) == [t \in MintTxs |-> Tx[t].amount * a[t]]

LEMMA MintedType ==
    ASSUME NEW a \in [Txs -> Nat]
    PROVE  /\ IsFiniteSet(MintTxs)
           /\ \A t \in MintTxs : Coined(a)[t] = Tx[t].amount * a[t] /\ Coined(a)[t] \in Int
           /\ SumFunctionOnSet(Coined(a), MintTxs) \in Int
<1>1. IsFiniteSet(MintTxs)
  BY PaymentAssumption, FS_Subset DEF MintTxs
<1>2. \A m, n \in Nat : m * n \in Int
  OBVIOUS
<1>3. \A t \in MintTxs : Coined(a)[t] = Tx[t].amount * a[t] /\ Coined(a)[t] \in Int
  BY <1>2, PaymentAssumption DEF Coined, MintTxs
<1> QED BY <1>1, <1>3, SumSplit

LEMMA MintedSum ==
    /\ Minted = SumFunctionOnSet(Coined(applied), MintTxs)
    /\ Minted' = SumFunctionOnSet(Coined(applied'), MintTxs)
BY DEF Minted, SumFunction, Coined, MintTxs, Is

\* A last movement of a mint counts its amount as minted.
LEMMA MintedMove ==
    ASSUME TypeOK, NEW t \in Txs, applied' = [applied EXCEPT ![t] = @ + 1]
    PROVE  Minted' = Minted + When(Is(t, {"mint"}), Tx[t].amount)
<1>1. \A m, n \in Nat : m * (n + 1) = m * n + m
  OBVIOUS
<1>2. /\ Tx[t].amount \in Nat
      /\ applied \in [Txs -> Nat] /\ applied' \in [Txs -> Nat]
  <2>1. Tx[t].amount \in Nat
    BY PaymentAssumption
  <2>2. applied \in [Txs -> Nat]
    BY DEF TypeOK
  <2>3. applied[t] + 1 \in Nat
    BY <2>2
  <2> QED BY <2>1, <2>2, <2>3
<1> DEFINE f == Coined(applied)
           g == Coined(applied')
<1>3. /\ IsFiniteSet(MintTxs) /\ SumFunctionOnSet(f, MintTxs) \in Int
      /\ \A x \in MintTxs : /\ f[x] = Tx[x].amount * applied[x] /\ f[x] \in Int
                            /\ g[x] = Tx[x].amount * applied'[x] /\ g[x] \in Int
  BY <1>2, MintedType
<1>4. MintTxs \subseteq Txs /\ (t \in MintTxs <=> Is(t, {"mint"}))
  BY DEF MintTxs
<1> HIDE DEF f, g
<1>5. \A x \in MintTxs : x # t => g[x] = f[x]
  BY <1>2, <1>3, <1>4
<1>6. CASE t \in MintTxs
  <2>1. applied'[t] = applied[t] + 1 /\ applied[t] \in Nat
    BY <1>2
  <2>2. g[t] = Tx[t].amount * (applied[t] + 1) /\ f[t] = Tx[t].amount * applied[t]
    BY <1>3, <1>6, <2>1
  <2>3. g[t] = f[t] + Tx[t].amount
    BY <1>1, <1>2, <2>1, <2>2
  <2>4. SumFunctionOnSet(g, MintTxs) = SumFunctionOnSet(f, MintTxs) + (g[t] - f[t])
    BY <1>3, <1>5, <1>6, SumChanged
  <2>5. g[t] - f[t] = Tx[t].amount
    BY <1>2, <1>3, <1>6, <2>3
  <2> QED BY <1>4, <1>6, <2>4, <2>5, MintedSum DEF When, f, g
<1>7. CASE t \notin MintTxs
  <2>1. SumFunctionOnSet(g, MintTxs) = SumFunctionOnSet(f, MintTxs)
    BY <1>3, <1>5, <1>7, SumSame
  <2> QED BY <1>3, <1>4, <1>7, <2>1, MintedSum DEF When, f, g
<1> QED BY <1>6, <1>7

LEMMA BalanceSum == \A b \in [Wallets -> Nat] : SumFunction(b) \in Int
<1> TAKE b \in [Wallets -> Nat]
<1>1. IsFiniteSet(Wallets) /\ DOMAIN b = Wallets /\ \A w \in Wallets : b[w] \in Int
  BY LedgerAssumption
<1> QED BY <1>1, SumSplit DEF SumFunction

LEMMA BalanceMove ==
    ASSUME NEW b \in [Wallets -> Nat], NEW w \in Wallets, NEW d \in Int, b[w] + d \in Nat
    PROVE  /\ SumFunction(b) \in Int
           /\ SumFunction([b EXCEPT ![w] = @ + d]) = SumFunction(b) + d
<1> DEFINE c == [b EXCEPT ![w] = @ + d]
<1>1. c \in [Wallets -> Nat] /\ c[w] = b[w] + d /\ \A x \in Wallets \ {w} : c[x] = b[x]
  OBVIOUS
<1> HIDE DEF c
<1>2. /\ SumFunctionOnSet(b, Wallets) \in Int
      /\ SumFunctionOnSet(c, Wallets) = SumFunctionOnSet(b, Wallets) + (c[w] - b[w])
  BY <1>1, LedgerAssumption, SumChanged
<1>3. c[w] - b[w] = d /\ DOMAIN b = Wallets /\ DOMAIN c = Wallets
  BY <1>1
<1> QED BY <1>2, <1>3 DEF SumFunction, c

LEMMA InitCover == Init => CoverInv
<1> SUFFICES ASSUME Init PROVE CoverInv
  OBVIOUS
<1>1. \A b \in DOMAIN chain : Rewardless(chain[b])
  BY DEF Init, Rewardless
<1>2. /\ IsFiniteSet(Wallets) /\ \A w \in Wallets : Opening[w] \in Int
      /\ DOMAIN Opening = Wallets
  BY LedgerAssumption
<1>3. SumFunction(Opening) \in Int
  BY <1>2, SumSplit DEF SumFunction
<1>4. \A a \in [Txs -> Nat] : \A t \in Txs : a[t] = 0 =>
         Tx[t].amount * a[t] = 0
  BY PaymentAssumption
<1>5. applied \in [Txs -> Nat] /\ \A t \in Txs : applied[t] = 0
  BY DEF Init
<1>6. Minted = 0
  <2> DEFINE f == Coined(applied)
  <2>1. /\ IsFiniteSet(MintTxs) /\ \A x \in MintTxs : f[x] = 0
    BY <1>4, <1>5, MintedType DEF MintTxs
  <2> HIDE DEF f
  <2>2. SumFunctionOnSet(f, MintTxs) = 0
    BY <2>1, SumZero
  <2> QED BY <2>2, MintedSum DEF f
<1>7. Owed = 0 /\ balance = Opening
  BY DEF Init, Owed
<1> QED BY <1>1, <1>3, <1>6, <1>7 DEF CoverInv

LEMMA NextCover ==
    ASSUME \A body \in Bodies : Rewardless(body), TypeInv, CoverInv, [Next]_vars
    PROVE  CoverInv'
<1> USE DEF ledger, locals
<1>1. /\ Owed \in Int /\ Owed <= 0
      /\ pc \in {"leg", "index"} =>
           /\ Current \in Txs /\ NeverAhead(Current)
           /\ leg \in 1 .. Len(Legs(Current))
  BY OwedFacts DEF CoverInv
<1>2. /\ balance \in [Wallets -> Nat] /\ applied \in [Txs -> Nat]
      /\ SumFunction(balance) \in Int /\ SumFunction(Opening) \in Int /\ Minted \in Int
  <2>1. balance \in [Wallets -> Nat] /\ applied \in [Txs -> Nat]
    BY DEF TypeInv, TypeOK
  <2> QED BY <2>1, BalanceSum, LedgerAssumption, MintedType, MintedSum
\* A step that moves no money keeps the invariant, if it forgives no debt.
<1>3. ASSUME UNCHANGED <<balance, applied>>, Owed' \in Int, Owed <= Owed',
             \A b \in DOMAIN chain' : Rewardless(chain'[b])
      PROVE  CoverInv'
  <2>1. Minted' = Minted
    BY <1>3 DEF Minted
  <2>2. SumFunction(balance') <= SumFunction(Opening) + Minted' + Owed'
    BY <1>1, <1>2, <1>3, <2>1 DEF CoverInv
  <2> QED BY <1>3, <2>2 DEF CoverInv, Rewardless
<1>4. ASSUME UNCHANGED <<balance, applied, chain>>, pc' \notin {"leg", "index"}
      PROVE  CoverInv'
  <2>1. Owed' = 0
    BY <1>4 DEF Owed
  <2> QED BY <1>1, <1>3, <1>4, <2>1 DEF CoverInv
<1>5. ASSUME NEW body \in Bodies, AddBlock(body) PROVE CoverInv'
  <2>1. \A b \in DOMAIN chain' : Rewardless(chain'[b])
    BY <1>5 DEF AddBlock, CoverInv, TypeInv, TypeOK
  <2>2. Owed' = 0
    BY <1>5 DEF AddBlock, Owed
  <2> QED BY <1>1, <1>3, <1>5, <2>1, <2>2 DEF AddBlock
<1>6. CASE BeginTx
  <2>1. Owed' = 0
    BY <1>6 DEF BeginTx, Owed, PartSum
  <2> QED BY <1>1, <1>3, <1>6, <2>1 DEF BeginTx, CoverInv
<1>7. CASE Move
  <2>1. /\ Movement.wallet \in Wallets /\ Movement.change \in Int
        /\ balance[Movement.wallet] + Movement.change \in Nat
        /\ balance' = [balance EXCEPT ![Movement.wallet] = @ + Movement.change]
    BY <1>2, <1>7, MovementType DEF Move, CanMove, TypeInv
  <2>2. SumFunction(balance') = SumFunction(balance) + Movement.change
    BY <1>2, <2>1, BalanceMove
  <2>3. Owed = PartSum(Current, leg - 1) /\ Movement = Legs(Current)[leg]
    BY <1>7 DEF Move, Owed, Movement
  <2>4. UNCHANGED <<Current, Legs(Current), IsLastLeg, leg, chain>>
    BY <1>7 DEF Move, Current, IsLastLeg, Legs, FeeLeg, Leg
  <2>5. NeverAhead(Current) /\ leg \in 1 .. Len(Legs(Current)) /\ Current \in Txs
    BY <1>1, <1>7 DEF Move
  <2>6. CASE IsLastLeg
    <3>1. Owed' = 0
      BY <1>7, <2>4, <2>6 DEF Move, Owed
    <3>2. Minted' = Minted + When(Is(Current, {"mint"}), Tx[Current].amount)
      BY <1>7, <2>5, <2>6, MintedMove DEF Move, TypeInv
    <3>3. Owed + Movement.change = When(Is(Current, {"mint"}), Tx[Current].amount)
      BY <2>3, <2>5, <2>6 DEF IsLastLeg, NeverAhead
    <3>4. When(Is(Current, {"mint"}), Tx[Current].amount) \in Int
      BY <1>1, <2>1, <3>3
    <3>5. SumFunction(balance') <= SumFunction(Opening) + Minted' + Owed'
      BY SMTT(20), <1>1, <1>2, <2>1, <2>2, <3>1, <3>2, <3>3, <3>4 DEF CoverInv
    <3> QED BY <2>4, <3>5 DEF CoverInv, Rewardless
  <2>7. CASE ~IsLastLeg
    <3>1. Minted' = Minted
      BY <1>7, <2>7 DEF Move, Minted
    <3>2. leg \in 1 .. Len(Legs(Current)) - 1
      BY <2>5, <2>7 DEF IsLastLeg, NeverAhead
    <3>3. Owed' = PartSum(Current, leg)
      <4>1. PartSum(Current, leg)' = PartSum(Current, leg)
        BY <2>4 DEF PartSum
      <4> QED BY <1>7, <2>4, <2>7, <4>1 DEF Move, Owed
    <3>4. Owed' = Owed + Movement.change
      BY <2>3, <2>5, <3>2, <3>3 DEF NeverAhead
    <3>5. SumFunction(balance') <= SumFunction(Opening) + Minted' + Owed'
      BY <1>1, <1>2, <2>1, <2>2, <3>1, <3>4 DEF CoverInv
    <3> QED BY <2>4, <3>5 DEF CoverInv, Rewardless
  <2> QED BY <2>6, <2>7
<1>8. CASE Index
  <2>1. CASE IsLastLeg
    BY <1>4, <1>8, <2>1 DEF Index
  <2>2. CASE ~IsLastLeg
    <3>1. leg' - 1 = leg /\ pc' = "leg" /\ UNCHANGED <<Current, Legs(Current)>>
      BY SMTT(20), <1>1, <1>8, <2>2 DEF Index, Current, Legs, FeeLeg, Leg
    <3>2. Owed' = PartSum(Current, leg)
      BY <3>1 DEF Owed, PartSum
    <3>3. Owed = PartSum(Current, leg)
      BY <1>8, <2>2 DEF Index, Owed
    <3> QED BY <1>1, <1>3, <1>8, <3>2, <3>3 DEF Index, CoverInv
  <2> QED BY <2>1, <2>2
<1>9. CASE \/ RunLatest \/ \E b \in DOMAIN chain : RunTarget(b)
           \/ BeginBlock \/ Return \/ SkipConfirmed \/ NoteUnknown \/ Refuse \/ AllTaken
  BY <1>4, <1>9 DEF RunLatest, RunTarget, StartWith, BeginBlock, Return, SkipConfirmed,
    NoteUnknown, Refuse, AllTaken, Forget
<1>10. CASE \/ NoncesDone \/ TotalsDone \/ Confirm \/ Mark \/ Crash
            \/ \E w \in Wallets : AdvanceNonce(w)
            \/ \E u \in Users : Reconcile(u)
  BY <1>4, <1>10 DEF NoncesDone, TotalsDone, Confirm, Mark, Crash, AdvanceNonce, Reconcile, Forget
<1>11. CASE UNCHANGED vars
  <2>1. Owed' = Owed
    BY <1>11 DEF vars, Owed, Current, PartSum, IsLastLeg, Legs, FeeLeg, Leg
  <2> QED BY <1>1, <1>3, <1>11, <2>1 DEF vars, CoverInv
<1> QED
  BY <1>5, <1>6, <1>7, <1>8, <1>9, <1>10, <1>11 DEF Next, RunStep, TxStep, SettleStep

\* On a chain without rewards nothing but a mint makes money, whatever is refused,
\* repeated or cut off: every transaction is debited before anything is credited, so
\* a run that ends in the middle has taken more than it gave.
THEOREM NoMoneyTheorem ==
    (\A body \in Bodies : Rewardless(body)) => (Spec => []NoMoneyFromNothing)
<1> SUFFICES ASSUME \A body \in Bodies : Rewardless(body)
             PROVE  Spec => []NoMoneyFromNothing
  OBVIOUS
<1>1. TypeInv /\ CoverInv /\ [Next]_vars => CoverInv'
  BY NextCover
<1>2. TypeInv /\ CoverInv => NoMoneyFromNothing
  <2> SUFFICES ASSUME TypeInv, CoverInv PROVE NoMoneyFromNothing
    OBVIOUS
  <2>1. Owed \in Int /\ Owed <= 0
    BY OwedFacts DEF CoverInv
  <2>2. SumFunction(balance) \in Int /\ SumFunction(Opening) \in Int /\ Minted \in Int
    BY BalanceSum, LedgerAssumption, MintedType, MintedSum DEF TypeInv, TypeOK
  <2> QED BY <2>1, <2>2 DEF CoverInv, NoMoneyFromNothing
<1> QED BY <1>1, <1>2, InitCover, TypeInvariance, PTL DEF Spec

-----------------------------------------------------------------------------
(* The ledger, as long as no movement is refused.                           *)

\* Block bodies come from the mempool's queue, which holds a transaction once.
DistinctInv == \A b \in DOMAIN chain : IsInjective(chain[b])

PassedBefore(n) == {chain[block][i] : i \in {j \in DOMAIN chain[block] : j < n}}

\* The transactions that were paid: the confirmed ones, and those of the block in
\* work that the run has passed.
Paid ==
    confirmed \cup
      CASE pc \in {"tx", "leg", "index"} -> PassedBefore(at)
        [] pc \in {"nonce", "total", "confirm"} -> PassedBefore(Len(chain[block]) + 1)
        [] OTHER -> {}

\* The step that pays a transaction, or passes one of an unknown type.
Pays == NoteUnknown \/ (Index /\ IsLastLeg)

LEMMA PassedNext ==
    ASSUME TypeInv, pc \in {"tx", "leg", "index"}, MoreTxs
    PROVE  /\ Current \in Txs
           /\ PassedBefore(at + 1) = PassedBefore(at) \cup {Current}
<1>1. block \in DOMAIN chain /\ chain[block] \in Seq(Txs)
  BY DEF TypeInv, TypeOK, StageOK, Working
<1>2. at \in DOMAIN chain[block] /\ DOMAIN chain[block] \subseteq Nat
  BY <1>1 DEF TypeInv, TypeOK, MoreTxs
<1>3. \A i \in DOMAIN chain[block] : i < at + 1 <=> i < at \/ i = at
  BY <1>2
<1> QED BY <1>1, <1>2, <1>3 DEF PassedBefore, Current

LEMMA PaidType ==
    ASSUME TypeInv
    PROVE  Paid \subseteq Txs /\ IsFiniteSet(Paid)
<1>1. confirmed \subseteq Txs
  BY PaymentAssumption DEF TypeInv, TypeOK
<1>2. pc \in Working => \A n : PassedBefore(n) \subseteq Txs
  BY DEF TypeInv, TypeOK, StageOK, Working, PassedBefore
<1>3. Paid \subseteq Txs
  BY <1>1, <1>2 DEF Paid, Working
<1> QED BY <1>3, PaymentAssumption, FS_Subset

\* A transaction is paid when the run passes it, and stays paid.
LEMMA PaidStep ==
    ASSUME Recorded = Txs, ~Crashes, TypeInv, DistinctInv, ConfirmInv, Next, ~Refuse
    PROVE  IF Pays THEN Current \in Txs \ Paid /\ Paid' = Paid \cup {Current}
                   ELSE Paid' = Paid
<1> USE DEF ledger, locals
<1>0. /\ pc \in Working => block \in DOMAIN chain /\ chain[block] \in Seq(Txs)
      /\ at \in Nat
  BY DEF TypeInv, TypeOK, StageOK, Working
<1>1. ASSUME UNCHANGED <<chain, block, confirmed, pc, at>> PROVE Paid' = Paid
  BY <1>1 DEF Paid, PassedBefore
<1>2. ASSUME UNCHANGED <<chain, block, confirmed, at>>,
             \/ pc \in {"tx", "leg", "index"} /\ pc' \in {"tx", "leg", "index"}
             \/ pc \in {"nonce", "total", "confirm"} /\ pc' \in {"nonce", "total", "confirm"}
      PROVE  Paid' = Paid
  BY <1>2 DEF Paid, PassedBefore
<1>3. ASSUME pc \in {"idle", "block"}, pc' \in {"idle", "block"}, confirmed' = confirmed
      PROVE  Paid' = Paid
  BY <1>3 DEF Paid
<1>4. ASSUME pc = "tx" \/ pc = "index", MoreTxs, Current \notin confirmed,
             UNCHANGED <<chain, block, confirmed>>, pc' = "tx", at' = at + 1
      PROVE  Current \in Txs \ Paid /\ Paid' = Paid \cup {Current}
  <2>1. Current \in Txs /\ PassedBefore(at + 1) = PassedBefore(at) \cup {Current}
    BY <1>4, PassedNext
  <2>2. Current \notin PassedBefore(at)
    BY <1>0, <1>4 DEF PassedBefore, Current, MoreTxs, DistinctInv, IsInjective, Working
  <2>3. Paid = confirmed \cup PassedBefore(at)
    BY <1>4 DEF Paid
  <2>4. Paid' = confirmed \cup PassedBefore(at + 1)
    BY <1>4 DEF Paid, PassedBefore
  <2> QED BY <1>4, <2>1, <2>2, <2>3, <2>4
<1>5. CASE Pays
  BY <1>4, <1>5 DEF Pays, NoteUnknown, Index, TypeInv, StageOK
<1>6. CASE ~Pays
  <2>1. CASE SkipConfirmed
    <3>1. PassedBefore(at + 1) = PassedBefore(at) \cup {Current} /\ Current \in confirmed
      BY <2>1, PassedNext DEF SkipConfirmed
    <3>2. Paid = confirmed \cup PassedBefore(at)
      BY <2>1 DEF SkipConfirmed, Paid
    <3>3. Paid' = confirmed \cup PassedBefore(at + 1)
      BY <2>1 DEF SkipConfirmed, Paid, PassedBefore
    <3> QED BY <1>6, <3>1, <3>2, <3>3
  <2>2. CASE Index /\ ~IsLastLeg
    BY <1>2, <1>6, <2>2 DEF Index
  <2>3. CASE BeginTx \/ Move
    BY <1>2, <1>6, <2>3 DEF BeginTx, Move
  <2>4. CASE AllTaken
    <3>1. pc = "tx" /\ pc' = "nonce" /\ UNCHANGED <<chain, block, confirmed>> /\ ~MoreTxs
      BY <2>4 DEF AllTaken
    <3>2. PassedBefore(at) = PassedBefore(Len(chain[block]) + 1)
      BY <1>0, <3>1 DEF PassedBefore, MoreTxs, Working
    <3>3. Paid = confirmed \cup PassedBefore(at)
      BY <3>1 DEF Paid
    <3>4. Paid' = confirmed \cup PassedBefore(Len(chain[block]) + 1)
      BY <3>1 DEF Paid, PassedBefore
    <3> QED BY <1>6, <3>2, <3>3, <3>4
  <2>5. CASE \/ NoncesDone
             \/ \E w \in Wallets : AdvanceNonce(w)
             \/ \E u \in Users : Reconcile(u)
    BY <1>1, <1>2, <1>6, <2>5 DEF NoncesDone, AdvanceNonce, Reconcile
  <2>6. CASE TotalsDone
    BY <1>6, <2>6 DEF TotalsDone, Paid, PassedBefore
  <2>7. CASE Confirm
    <3>1. /\ pc = "confirm" /\ pc' = pc /\ UNCHANGED <<chain, block>> /\ MoreTxs
          /\ confirmed' = confirmed \cup ({Current} \cap Recorded)
      BY <2>7 DEF Confirm
    <3>2. Current \in PassedBefore(Len(chain[block]) + 1)
      BY <1>0, <3>1 DEF PassedBefore, MoreTxs, Current, Working, TypeInv, TypeOK
    <3>3. Paid = confirmed \cup PassedBefore(Len(chain[block]) + 1)
      BY <3>1 DEF Paid
    <3>4. Paid' = confirmed' \cup PassedBefore(Len(chain[block]) + 1)
      BY <3>1 DEF Paid, PassedBefore
    <3> QED BY <1>6, <3>1, <3>2, <3>3, <3>4
  <2>8. CASE Mark
    <3>1. /\ pc = "confirm" /\ confirmed' = confirmed /\ pc' \in {"block", "idle"} /\ ~MoreTxs
      BY <2>8 DEF Mark, Forget
    <3>2. PassedBefore(Len(chain[block]) + 1) \subseteq confirmed
      BY <1>0, <3>1 DEF PassedBefore, MoreTxs, ConfirmInv, Working
    <3>3. Paid = confirmed \cup PassedBefore(Len(chain[block]) + 1)
      BY <3>1 DEF Paid
    <3>4. Paid' = confirmed
      BY <3>1 DEF Paid
    <3> QED BY <1>6, <3>2, <3>3, <3>4
  <2>9. CASE BeginBlock
    <3>1. pc = "block" /\ pc' = "tx" /\ at' = 1 /\ UNCHANGED <<chain, confirmed>>
          /\ block' \in DOMAIN chain
      BY <2>9 DEF BeginBlock, TypeInv, TypeOK
    <3>2. \A i \in DOMAIN chain[block'] : ~(i < 1)
      BY <3>1 DEF TypeInv, TypeOK
    <3>3. Paid' = confirmed
      BY <3>1, <3>2 DEF Paid, PassedBefore
    <3> QED BY <1>6, <3>1, <3>3 DEF Paid
  <2>10. CASE \/ RunLatest \/ \E b \in DOMAIN chain : RunTarget(b)
              \/ Return \/ \E body \in Bodies : AddBlock(body)
    BY <1>3, <1>6, <2>10 DEF RunLatest, RunTarget, StartWith, Return, AddBlock, Forget
  <2>11. ~Crash /\ ~NoteUnknown
    BY <1>6 DEF Crash, Pays
  <2> QED
    BY <1>6, <2>1, <2>2, <2>3, <2>4, <2>5, <2>6, <2>7, <2>8, <2>9, <2>10, <2>11
    DEF Next, RunStep, TxStep, SettleStep, Pays
<1> QED BY <1>5, <1>6

\* What one movement, and the first k movements, of a transaction bring to a wallet.
Share(t, i, w)  == IF Legs(t)[i].wallet = w THEN Legs(t)[i].change ELSE 0
Shares(t, k, w) ==
    When(k >= 1, Share(t, 1, w)) + When(k >= 2, Share(t, 2, w)) + When(k >= 3, Share(t, 3, w))

\* The movements of a transaction are its effect, taken apart.
AddUp(t, w) ==
    LET n == Len(Legs(t))
    IN  /\ n \in 1 .. 3
        /\ \A k \in 1 .. n : /\ Share(t, k, w) \in Int
                             /\ Shares(t, k - 1, w) \in Int
                             /\ Shares(t, k, w) = Shares(t, k - 1, w) + Share(t, k, w)
        /\ Shares(t, n, w) = Effect(t, w)

LEMMA EffectType == \A t \in Txs, w \in Wallets : Effect(t, w) \in Int
<1> TAKE t \in Txs, w \in Wallets
<1>1. Tx[t].amount \in Nat /\ Tx[t].fee \in Nat
  BY PaymentAssumption
<1>2. \A c, n : n \in Int => When(c, n) \in Int
  BY DEF When
<1> DEFINE tx   == Tx[t]
           cost == tx.amount + tx.fee
           a == When(w = tx.to /\ Is(t, {"mint", "reward", "transfer", "unstake"}), tx.amount)
           b == When(w = tx.from /\ Is(t, {"transfer", "slash", "burn", "stake"}), cost)
           c == When(w = Burn /\ Is(t, {"burn"}), tx.amount)
           d == When(w = Pool /\ Is(t, {"transfer", "burn"}), tx.fee)
           e == When(w = Pool /\ Is(t, {"slash", "stake"}), cost)
           f == When(w = Pool /\ Is(t, {"reward", "unstake"}), tx.amount)
<1>3. a \in Int /\ b \in Int /\ c \in Int /\ d \in Int /\ e \in Int /\ f \in Int
  <2>1. tx.amount \in Int /\ tx.fee \in Int /\ cost \in Int
    BY <1>1
  <2> HIDE DEF cost
  <2> QED BY <2>1, <1>2
<1>4. Effect(t, w) = a - b + c + d + e - f
  BY DEF Effect
<1> HIDE DEF a, b, c, d, e, f
<1> QED BY <1>3, <1>4

LEMMA LegsAddUp ==
    ASSUME NEW t \in Txs, Known(t), NEW w \in Wallets
    PROVE  AddUp(t, w)
<1>0. /\ Tx[t].amount \in Nat /\ Tx[t].fee \in Nat
      /\ Tx[t].type \in KnownTypes
      /\ Effect(t, w) \in Int
  BY PaymentAssumption, EffectType DEF Known
<1> DEFINE In(a, v) == When(w = a, v)
<1>1. ASSUME NEW a, NEW v \in Int, Single(t, Leg(a, v)), Effect(t, w) = In(a, v)
      PROVE  AddUp(t, w)
  BY <1>0, <1>1 DEF AddUp, Share, Shares, Leg, Single, When
<1>2. ASSUME NEW a, NEW b, NEW v \in Int, NEW u \in Int, Double(t, Leg(a, v), Leg(b, u)),
             Effect(t, w) = In(a, v) + In(b, u)
      PROVE  AddUp(t, w)
  BY <1>0, <1>2 DEF AddUp, Share, Shares, Leg, Double, When
<1>3. ASSUME NEW a, NEW b, NEW c, NEW v \in Int, NEW u \in Int, NEW x \in Int,
             Triple(t, Leg(a, v), Leg(b, u), Leg(c, x)),
             Effect(t, w) = In(a, v) + In(b, u) + In(c, x)
      PROVE  AddUp(t, w)
  BY <1>0, <1>3 DEF AddUp, Share, Shares, Leg, Triple, When
<1> DEFINE tx == Tx[t]
           cost == tx.amount + tx.fee
<1>4. /\ tx.type = "mint" => Effect(t, w) = In(tx.to, tx.amount)
      /\ tx.type = "reward" => Effect(t, w) = In(tx.to, tx.amount) + In(Pool, -tx.amount)
      /\ tx.type = "unstake" => Effect(t, w) = In(Pool, -tx.amount) + In(tx.to, tx.amount)
      /\ tx.type \in {"stake", "slash"} => Effect(t, w) = In(tx.from, -cost) + In(Pool, cost)
  <2>1. CASE tx.type = "mint"
    BY <1>0, <2>1 DEF Effect, When, Is
  <2>2. CASE tx.type = "reward"
    BY <1>0, <2>2 DEF Effect, When, Is
  <2>3. CASE tx.type = "unstake"
    BY <1>0, <2>3 DEF Effect, When, Is
  <2>4. CASE tx.type = "stake"
    BY <1>0, <2>4 DEF Effect, When, Is
  <2>5. CASE tx.type = "slash"
    BY <1>0, <2>5 DEF Effect, When, Is
  <2> QED BY <2>1, <2>2, <2>3, <2>4, <2>5
<1>5. /\ tx.type = "transfer" =>
           Effect(t, w) = In(tx.from, -cost) + In(tx.to, tx.amount) + In(Pool, tx.fee)
      /\ tx.type = "burn" =>
           Effect(t, w) = In(tx.from, -cost) + In(Burn, tx.amount) + In(Pool, tx.fee)
  <2>1. CASE tx.type = "transfer"
    BY <1>0, <2>1 DEF Effect, When, Is
  <2>2. CASE tx.type = "burn"
    BY <1>0, <2>2 DEF Effect, When, Is
  <2> QED BY <2>1, <2>2
<1>6. ASSUME NEW a, NEW b, NEW v \in Int, NEW u \in Int, ~(tx.fee > 0),
             Effect(t, w) = In(a, v) + In(b, u) + In(Pool, tx.fee)
      PROVE  Effect(t, w) = In(a, v) + In(b, u)
  BY <1>0, <1>6 DEF When
<1> HIDE DEF In
<1>7. CASE tx.type = "mint"
  BY <1>0, <1>1, <1>4, <1>7, LegsShape
<1>8. CASE tx.type = "reward"
  <2>1. Double(t, Leg(tx.to, tx.amount), Leg(Pool, -tx.amount))
    BY <1>8, LegsShape
  <2> QED BY <1>0, <1>2, <1>4, <1>8, <2>1
<1>9. CASE tx.type = "unstake"
  <2>1. Double(t, Leg(Pool, -tx.amount), Leg(tx.to, tx.amount))
    BY <1>9, LegsShape
  <2> QED BY <1>0, <1>2, <1>4, <1>9, <2>1
<1>10. CASE tx.type \in {"stake", "slash"}
  <2>1. Double(t, Leg(tx.from, -cost), Leg(Pool, cost))
    BY <1>10, LegsShape
  <2> QED BY <1>0, <1>2, <1>4, <1>10, <2>1
<1>11. CASE tx.type \in {"transfer", "burn"}
  <2>1. PICK a : /\ IF tx.fee > 0
                    THEN Triple(t, Leg(tx.from, -cost), Leg(a, tx.amount), Leg(Pool, tx.fee))
                    ELSE Double(t, Leg(tx.from, -cost), Leg(a, tx.amount))
                 /\ Effect(t, w) = In(tx.from, -cost) + In(a, tx.amount) + In(Pool, tx.fee)
    BY <1>5, <1>11, LegsShape
  <2>2. CASE tx.fee > 0
    BY <1>0, <1>3, <2>1, <2>2
  <2>3. CASE ~(tx.fee > 0)
    BY <1>0, <1>2, <1>6, <2>1, <2>3
  <2> QED BY <2>2, <2>3
<1> QED BY <1>0, <1>7, <1>8, <1>9, <1>10, <1>11 DEF KnownTypes

\* What a wallet got of the transaction in work.
Part(w) == CASE pc = "leg" -> Shares(Current, leg - 1, w)
             [] pc = "index" -> Shares(Current, leg, w)
             [] OTHER -> 0

Effects(w) == [t \in Txs |-> Effect(t, w)]

\* Every wallet holds what the paid transactions make of its opening balance, and
\* its part of the transaction in work.
BalanceInv ==
    \A w \in Wallets : balance[w] = Opening[w] + SumFunctionOnSet(Effects(w), Paid) + Part(w)

LEMMA WorkFacts ==
    ASSUME TypeInv, pc \in {"leg", "index"}
    PROVE  /\ Current \in Txs /\ Known(Current)
           /\ \A w \in Wallets : AddUp(Current, w)
           /\ leg \in 1 .. Len(Legs(Current))
<1>1. Current \in Txs /\ Known(Current) /\ leg <= Len(Legs(Current)) /\ leg \in Nat \ {0}
  BY MovementType DEF TypeInv, TypeOK, StageOK
<1>2. \A w \in Wallets : AddUp(Current, w)
  BY <1>1, LegsAddUp
<1>3. Len(Legs(Current)) \in Nat
  BY <1>1, LegsType
<1> QED BY <1>1, <1>2, <1>3

LEMMA PartType ==
    ASSUME TypeInv
    PROVE  \A w \in Wallets : Part(w) \in Int
<1> TAKE w \in Wallets
<1>1. CASE pc \in {"leg", "index"}
  <2>1. AddUp(Current, w) /\ leg \in 1 .. Len(Legs(Current))
    BY <1>1, WorkFacts
  <2>2. Shares(Current, leg - 1, w) \in Int /\ Shares(Current, leg, w) \in Int
    BY <2>1 DEF AddUp
  <2> QED BY <1>1, <2>2 DEF Part
<1>2. CASE pc \notin {"leg", "index"}
  BY <1>2 DEF Part
<1> QED BY <1>1, <1>2

LEMMA EffectsSum ==
    ASSUME NEW w \in Wallets, NEW D \in SUBSET Txs
    PROVE  SumFunctionOnSet(Effects(w), D) \in Int
<1>1. IsFiniteSet(D) /\ \A t \in D : Effects(w)[t] \in Int
  BY PaymentAssumption, FS_Subset, EffectType DEF Effects
<1> QED BY <1>1, SumSplit

LEMMA InitBalance == Init => BalanceInv
<1> SUFFICES ASSUME Init, NEW w \in Wallets
             PROVE  balance[w] = Opening[w] + SumFunctionOnSet(Effects(w), Paid) + Part(w)
  BY DEF BalanceInv
<1>1. Paid = {} /\ Part(w) = 0 /\ balance[w] = Opening[w] /\ Opening[w] \in Nat
  BY LedgerAssumption DEF Init, Paid, Part
<1> QED BY <1>1, SumEmpty

LEMMA NextBalance ==
    ASSUME Recorded = Txs, ~Crashes, TypeInv, DistinctInv, ConfirmInv, BalanceInv, Next, ~Refuse
    PROVE  BalanceInv'
<1> USE DEF ledger, locals
<1> SUFFICES ASSUME NEW w \in Wallets
             PROVE  balance'[w] = Opening[w] + SumFunctionOnSet(Effects(w), Paid') + Part(w)'
  BY DEF BalanceInv, Effects, Effect, When, Is
<1> DEFINE S == SumFunctionOnSet(Effects(w), Paid)
<1>1. /\ balance[w] = Opening[w] + S + Part(w)
      /\ Opening[w] \in Nat /\ S \in Int /\ Part(w) \in Int
      /\ balance \in [Wallets -> Nat]
  BY PaidType, PartType, EffectsSum, LedgerAssumption DEF BalanceInv, TypeInv, TypeOK
<1>2. IF Pays THEN Current \in Txs \ Paid /\ Paid' = Paid \cup {Current} ELSE Paid' = Paid
  BY PaidStep
<1> HIDE DEF S
<1>3. CASE Pays
  <2>1. SumFunctionOnSet(Effects(w), Paid') = S + Effect(Current, w)
    <3>1. /\ IsFiniteSet(Paid) /\ Current \notin Paid /\ Current \in Txs
          /\ \A t \in Paid \cup {Current} : Effects(w)[t] \in Int
      BY <1>2, <1>3, PaidType, EffectType DEF Effects
    <3>2. SumFunctionOnSet(Effects(w), Paid \cup {Current})
            = SumFunctionOnSet(Effects(w), Paid) + Effects(w)[Current]
      BY <3>1, SumJoined
    <3> QED BY <1>2, <1>3, <3>1, <3>2 DEF S, Effects
  <2>2. Part(w)' = 0 /\ balance' = balance
    BY <1>3 DEF Pays, NoteUnknown, Index, Part
  <2>3. Part(w) = Effect(Current, w)
    <3>1. CASE NoteUnknown
      <4>1. Part(w) = 0 /\ ~Known(Current)
        BY <3>1 DEF NoteUnknown, Part
      <4> QED BY <4>1 DEF Effect, When, Is, Known, KnownTypes
    <3>2. CASE Index /\ IsLastLeg
      BY <3>2, WorkFacts DEF Index, IsLastLeg, Part, AddUp
    <3> QED BY <1>3, <3>1, <3>2 DEF Pays
  <2>4. Effect(Current, w) \in Int
    BY <1>2, <1>3, EffectType
  <2> QED BY <1>1, <2>1, <2>2, <2>3, <2>4
<1>4. CASE ~Pays
  <2>1. SumFunctionOnSet(Effects(w), Paid') = S
    BY <1>2, <1>4 DEF S
  <2>2. CASE Move
    <3>1. Part(w) = Shares(Current, leg - 1, w)
      BY <2>2 DEF Move, Part
    <3>2. Part(w)' = Shares(Current, leg, w)
      BY ZenonT(20), <2>2 DEF Move, Part, Shares, Share, Current, Legs, FeeLeg, Leg, When
    <3>3. Shares(Current, leg, w) = Shares(Current, leg - 1, w) + Share(Current, leg, w)
          /\ Share(Current, leg, w) \in Int
      BY <2>2, WorkFacts DEF Move, AddUp
    <3>4. balance'[w] = balance[w] + Share(Current, leg, w)
      BY <1>1, <2>2, MovementType DEF Move, Share, Movement, CanMove, TypeInv
    <3> QED BY <1>1, <2>1, <3>1, <3>2, <3>3, <3>4
  <2>3. CASE ~Move
    <3>1. balance' = balance
      BY <2>3
      DEF Next, RunStep, TxStep, SettleStep, AddBlock, StartWith, RunLatest, RunTarget,
        BeginBlock, Return, SkipConfirmed, NoteUnknown, BeginTx, Refuse, Index, AllTaken,
        AdvanceNonce, NoncesDone, Reconcile, TotalsDone, Confirm, Mark, Crash
    <3>2. Part(w)' = Part(w)
      <4>1. CASE BeginTx
        <5>1. Part(w) = 0 /\ pc' = "leg" /\ leg' - 1 = 0
          BY <4>1 DEF BeginTx, Part
        <5> QED BY <5>1 DEF Part, Shares, When
      <4>2. CASE Index
        <5>1. pc = "index" /\ pc' = "leg" /\ leg' - 1 = leg
          BY <1>4, <4>2, WorkFacts DEF Index, Pays
        <5>2. UNCHANGED <<chain, block, at>>
          BY <4>2, <5>1 DEF Index
        <5>3. Current' = Current
          BY <5>2 DEF Current
        <5>4. Part(w)' = Shares(Current', leg' - 1, w)
          BY <5>1 DEF Part, Shares, Share, Legs, FeeLeg, Leg, When
        <5>5. Part(w) = Shares(Current, leg, w)
          BY <5>1 DEF Part
        <5> QED BY <5>1, <5>3, <5>4, <5>5
      <4>3. CASE ~BeginTx /\ ~Index
        <5>1. pc \notin {"leg", "index"} /\ pc' \notin {"leg", "index"}
          BY <1>4, <2>3, <4>3
          DEF Next, RunStep, TxStep, SettleStep, AddBlock, StartWith, RunLatest, RunTarget,
            BeginBlock, Return, SkipConfirmed, NoteUnknown, AllTaken, Pays, Forget,
            AdvanceNonce, NoncesDone, Reconcile, TotalsDone, Confirm, Mark, Crash
        <5> QED BY <5>1 DEF Part
      <4> QED BY <4>1, <4>2, <4>3
    <3> QED BY <1>1, <2>1, <3>1, <3>2
  <2> QED BY <2>2, <2>3
<1> QED BY <1>3, <1>4

\* What a wallet sent and is counted for, of a set of transactions.
Counted(t, w) == Tx[t].from = w /\ Is(t, CountedTypes)
Sent(w, D)    == {t \in D : Counted(t, w)}

\* The transaction in work is counted with its first movement.
InWork(w) == pc \in {"leg", "index"} /\ leg > 1 /\ Counted(Current, w)

\* The nonce of a wallet, with what the run has still to add to it, is the number
\* of the paid transactions it sent.
NonceInv ==
    /\ \A w \in Wallets :
           nonce[w] + counts[w] = Cardinality(Sent(w, Paid)) + When(InWork(w), 1)
    /\ pc \in {"idle", "block", "total", "confirm"} => counts = NoCounts

LEMMA SentJoined ==
    ASSUME NEW w \in Wallets, NEW D, IsFiniteSet(D), NEW t, t \notin D
    PROVE  /\ Cardinality(Sent(w, D)) \in Nat
           /\ Cardinality(Sent(w, D \cup {t})) = Cardinality(Sent(w, D)) + When(Counted(t, w), 1)
<1>1. IsFiniteSet(Sent(w, D)) /\ t \notin Sent(w, D)
  BY FS_Subset DEF Sent
<1>2. Cardinality(Sent(w, D)) \in Nat
  BY <1>1, FS_CardinalityType
<1>3. CASE Counted(t, w)
  <2>1. Sent(w, D \cup {t}) = Sent(w, D) \cup {t}
    BY <1>3 DEF Sent
  <2>2. Cardinality(Sent(w, D) \cup {t}) = Cardinality(Sent(w, D)) + 1
    BY <1>1, FS_AddElement
  <2> QED BY <1>2, <1>3, <2>1, <2>2 DEF When
<1>4. CASE ~Counted(t, w)
  <2>1. Sent(w, D \cup {t}) = Sent(w, D)
    BY <1>4 DEF Sent
  <2> QED BY <1>2, <1>4, <2>1 DEF When
<1> QED BY <1>3, <1>4

\* The first movement of a counted transaction is at the sender, and not its last.
LEMMA CountedFirst ==
    ASSUME NEW t \in Txs, Known(t), Is(t, CountedTypes)
    PROVE  Legs(t)[1].wallet = Tx[t].from /\ Len(Legs(t)) > 1
<1> DEFINE cost == Tx[t].amount + Tx[t].fee
           from == Leg(Tx[t].from, -cost)
<1>1. from.wallet = Tx[t].from
  BY DEF Leg
<1>2. Tx[t].type \in CountedTypes
  BY DEF Is
<1> HIDE DEF from
<1>3. ASSUME NEW q, Double(t, from, q) PROVE Legs(t)[1] = from /\ Len(Legs(t)) > 1
  BY <1>3 DEF Double
<1>4. ASSUME NEW q, NEW r, Triple(t, from, q, r) PROVE Legs(t)[1] = from /\ Len(Legs(t)) > 1
  BY <1>4 DEF Triple
<1>5. CASE Tx[t].type \in {"stake", "slash"}
  <2>1. Double(t, from, Leg(Pool, cost))
    BY <1>5, LegsShape DEF from
  <2> QED BY <1>1, <1>3, <2>1
<1>6. CASE Tx[t].type \in {"transfer", "burn"}
  <2>1. \E q, r : Double(t, from, q) \/ Triple(t, from, q, r)
    BY <1>6, LegsShape DEF from
  <2> QED BY <1>1, <1>3, <1>4, <2>1
<1> QED BY <1>2, <1>5, <1>6 DEF CountedTypes

LEMMA InitNonce == Init => NonceInv
<1> SUFFICES ASSUME Init PROVE NonceInv
  OBVIOUS
<1>1. Paid = {} /\ \A w : ~InWork(w)
  BY DEF Init, Paid, InWork
<1>2. \A w \in Wallets : Sent(w, {}) = {} /\ nonce[w] = 0 /\ counts[w] = 0
  BY DEF Init, Sent, NoCounts
<1> QED BY <1>1, <1>2, FS_EmptySet DEF NonceInv, When, Init

LEMMA NextNonce ==
    ASSUME Recorded = Txs, ~Crashes, TypeInv, DistinctInv, ConfirmInv, NonceInv, Next, ~Refuse
    PROVE  NonceInv'
<1> USE DEF ledger, locals
<1>1. /\ IsFiniteSet(Paid)
      /\ IF Pays THEN Current \in Txs \ Paid /\ Paid' = Paid \cup {Current} ELSE Paid' = Paid
  BY PaidType, PaidStep
<1>2. nonce \in [Wallets -> Nat] /\ counts \in [Wallets -> Nat]
  BY DEF TypeInv, TypeOK
<1>3. pc' \in {"idle", "block", "total", "confirm"} => counts' = NoCounts
  BY <1>2
  DEF Next, RunStep, TxStep, SettleStep, AddBlock, StartWith, RunLatest, RunTarget,
    BeginBlock, Return, SkipConfirmed, NoteUnknown, BeginTx, Move, Index, AllTaken,
    AdvanceNonce, NoncesDone, Reconcile, TotalsDone, Confirm, Mark, Crash, Forget, NonceInv
<1>4. ASSUME NEW w \in Wallets
      PROVE  nonce'[w] + counts'[w] = Cardinality(Sent(w, Paid')) + When(InWork(w)', 1)
  <2> DEFINE n == Cardinality(Sent(w, Paid))
  <2>1. n \in Nat /\ nonce[w] + counts[w] = n + When(InWork(w), 1)
    <3>1. IsFiniteSet(Sent(w, Paid))
      BY <1>1, FS_Subset DEF Sent
    <3> QED BY <3>1, <1>4, FS_CardinalityType DEF NonceInv
  <2>2. Pays => Cardinality(Sent(w, Paid')) = n + When(Counted(Current, w), 1)
    BY <1>1, <1>4, SentJoined
  <2>3. ~Pays => Cardinality(Sent(w, Paid')) = n
    BY <1>1
  <2> HIDE DEF n
  <2>4. CASE Index
    <3>1. /\ Current \in Txs /\ Known(Current) /\ leg \in 1 .. Len(Legs(Current))
          /\ pc = "index" /\ nonce' = nonce /\ UNCHANGED <<chain, block>>
      BY <2>4, WorkFacts DEF Index
    <3>2. counts'[w] = counts[w] + When(leg = 1 /\ Counted(Current, w), 1)
      <4>1. Counted(Current, w) /\ leg = 1 => Movement.wallet = w
        BY <3>1, CountedFirst DEF Counted, Movement
      <4>2. leg = 1 /\ Is(Current, CountedTypes) /\ Movement.wallet = w => Counted(Current, w)
        BY <3>1, CountedFirst DEF Counted, Movement
      <4>3. counts' = IF leg = 1 /\ Is(Current, CountedTypes)
                      THEN [counts EXCEPT ![Movement.wallet] = @ + 1]
                      ELSE counts
        BY <2>4 DEF Index, Is
      <4>4. CASE leg = 1 /\ Counted(Current, w)
        BY <1>2, <1>4, <4>1, <4>3, <4>4 DEF When, Counted
      <4>5. CASE ~(leg = 1 /\ Counted(Current, w))
        BY <1>2, <1>4, <4>2, <4>3, <4>5 DEF When
      <4> QED BY <4>4, <4>5
    <3>3. InWork(w) <=> leg > 1 /\ Counted(Current, w)
      BY <3>1 DEF InWork
    <3>4. CASE IsLastLeg
      <4>1. Pays /\ pc' = "tx"
        BY <2>4, <3>4 DEF Pays, Index
      <4>2. ~InWork(w)'
        BY <4>1 DEF InWork
      <4>3. CASE Counted(Current, w)
        <5>1. leg > 1
          BY <3>1, <3>4, <4>3, CountedFirst DEF IsLastLeg, Counted
        <5> QED BY <1>2, <1>4, <2>1, <2>2, <3>1, <3>2, <3>3, <4>1, <4>2, <4>3, <5>1 DEF When
      <4>4. CASE ~Counted(Current, w)
        BY <1>2, <1>4, <2>1, <2>2, <3>1, <3>2, <3>3, <4>1, <4>2, <4>4 DEF When
      <4> QED BY <4>3, <4>4
    <3>5. CASE ~IsLastLeg
      <4>1. ~Pays /\ pc' = "leg" /\ leg' = leg + 1 /\ at' = at
        BY <2>4, <3>1, <3>5 DEF Pays, Index, NoteUnknown
      <4>2. Current' = Current
        BY <3>1, <4>1 DEF Current
      <4>3. InWork(w)' <=> Counted(Current, w)
        BY <3>1, <4>1, <4>2 DEF InWork, Counted, Is
      <4>4. leg = 1 \/ leg > 1
        BY <3>1
      <4> QED BY <1>2, <1>4, <2>1, <2>3, <3>1, <3>2, <3>3, <4>1, <4>3, <4>4 DEF When
    <3> QED BY <3>4, <3>5
  <2>5. CASE NoteUnknown
    <3>1. ~InWork(w) /\ ~InWork(w)' /\ UNCHANGED <<nonce, counts>> /\ Pays
      BY <2>5 DEF NoteUnknown, InWork, Pays
    <3>2. ~Counted(Current, w)
      BY <2>5 DEF NoteUnknown, Known, KnownTypes, CountedTypes, Counted, Is
    <3> QED BY <2>1, <2>2, <3>1, <3>2 DEF When
  <2>6. CASE ~Index /\ ~NoteUnknown
    <3>1. ~Pays
      BY <2>6 DEF Pays
    <3>2. InWork(w)' <=> InWork(w)
      <4>1. CASE Move
        <5>1. pc = "leg" /\ pc' = "index" /\ UNCHANGED <<chain, block, at, leg>>
          BY <4>1 DEF Move
        <5> QED BY <5>1 DEF InWork, Counted, Is, Current
      <4>2. CASE ~Move
        <5>1. \/ pc \notin {"leg", "index"} /\ pc' \notin {"leg", "index"}
              \/ pc \notin {"leg", "index"} /\ leg' = 1
          BY <2>6, <4>2
          DEF Next, RunStep, TxStep, SettleStep, AddBlock, StartWith, RunLatest, RunTarget,
            BeginBlock, Return, SkipConfirmed, BeginTx, AllTaken, AdvanceNonce, NoncesDone,
            Reconcile, TotalsDone, Confirm, Mark, Crash, Forget
        <5> QED BY <5>1 DEF InWork
      <4> QED BY <4>1, <4>2
    <3>3. nonce'[w] + counts'[w] = nonce[w] + counts[w]
      <4>1. ASSUME NEW v \in Wallets, AdvanceNonce(v)
            PROVE  nonce'[w] + counts'[w] = nonce[w] + counts[w]
        BY <1>2, <1>4, <4>1 DEF AdvanceNonce
      <4>2. CASE BeginBlock \/ Return \/ Mark
        <5>1. pc \in {"block", "confirm"} /\ nonce' = nonce
              /\ (counts' = NoCounts \/ counts' = counts)
          BY <4>2 DEF BeginBlock, Return, Mark, Forget
        <5> QED BY <5>1 DEF NonceInv
      <4>3. CASE ~BeginBlock /\ ~Return /\ ~Mark /\ ~\E v \in Wallets : AdvanceNonce(v)
        <5>1. UNCHANGED <<nonce, counts>>
          BY <2>6, <4>3
          DEF Next, RunStep, TxStep, SettleStep, AddBlock, StartWith, RunLatest, RunTarget,
            SkipConfirmed, BeginTx, Move, AllTaken, NoncesDone, Reconcile, TotalsDone,
            Confirm, Crash
        <5> QED BY <5>1
      <4> QED BY <4>1, <4>2, <4>3
    <3> QED BY <2>1, <2>3, <3>1, <3>2, <3>3 DEF When
  <2> QED BY <2>4, <2>5, <2>6
<1>5. \A w \in Wallets :
        nonce'[w] + counts'[w] = Cardinality(Sent(w, Paid)') + When(InWork(w), 1)'
  BY <1>4 DEF Sent, Counted, Is, When
<1> QED BY <1>3, <1>5 DEF NonceInv

\* The index follows the record but for the movement in work, and a user's total
\* is the sum of its listed balances unless the run has still to refresh it.
ListedInv ==
    /\ \A w \in Wallets : (pc = "index" /\ w = Movement.wallet) \/ listed[w] = balance[w]
    /\ \A u \in Users \ touched : total[u] = SumFunctionOnSet(listed, Wallet(u))
    /\ pc \in {"idle", "block", "confirm"} => touched = {}

LEMMA NextListed ==
    ASSUME ~Crashes, TypeInv, ListedInv, Next, ~Refuse
    PROVE  ListedInv'
<1> USE DEF ledger, locals
<1>1. CASE Move
  <2>1. /\ pc' = "index" /\ UNCHANGED <<Movement, listed, total, touched>>
        /\ pc = "leg" /\ Movement.wallet \in Wallets
        /\ balance' = [balance EXCEPT ![Movement.wallet] = @ + Movement.change]
    BY <1>1 DEF Move, CanMove, Movement, Current, Legs, FeeLeg, Leg
  <2>2. \A w \in Wallets : w = Movement.wallet \/ listed[w] = balance'[w]
    BY <2>1 DEF ListedInv, TypeInv, TypeOK
  <2> QED BY <2>1, <2>2 DEF ListedInv, Wallet
<1>2. CASE Index
  <2>1. Movement.wallet \in Wallets /\ Owner[Movement.wallet] \in Users
    BY <1>2, LedgerAssumption DEF Index, TypeInv, StageOK
  <2>2. /\ pc = "index" /\ pc' \in {"tx", "leg"} /\ UNCHANGED <<balance, total>>
        /\ listed' = [listed EXCEPT ![Movement.wallet] = balance[Movement.wallet]]
        /\ touched' = touched \cup {Owner[Movement.wallet]}
    BY <1>2 DEF Index
  <2>3. \A w \in Wallets : listed'[w] = balance[w]
    BY <2>1, <2>2 DEF ListedInv, TypeInv, TypeOK
  <2>4. ASSUME NEW u \in Users \ touched'
        PROVE  total[u] = SumFunctionOnSet(listed', Wallet(u))
    <3>1. IsFiniteSet(Wallet(u))
      BY FS_Subset, LedgerAssumption DEF Wallet
    <3>2. \A w \in Wallet(u) : listed[w] \in Int /\ listed'[w] = listed[w]
      BY <2>2, <2>4 DEF Wallet, TypeInv, TypeOK
    <3>3. SumFunctionOnSet(listed', Wallet(u)) = SumFunctionOnSet(listed, Wallet(u))
      BY <3>1, <3>2, SumSame
    <3> QED BY <2>2, <2>4, <3>3 DEF ListedInv
  <2> QED BY <2>2, <2>3, <2>4 DEF ListedInv, Wallet
<1>3. ASSUME NEW u \in Users, Reconcile(u) PROVE ListedInv'
  <2>1. /\ pc = "total" /\ UNCHANGED <<pc, balance, listed>> /\ touched' = touched \ {u}
        /\ total' = [total EXCEPT ![u] = SumFunctionOnSet(listed, Wallet(u))]
    BY <1>3 DEF Reconcile
  <2>2. \A v \in Users \ touched' : total'[v] = SumFunctionOnSet(listed, Wallet(v))
    BY <2>1 DEF ListedInv, TypeInv, TypeOK
  <2> QED BY <2>1, <2>2 DEF ListedInv, Wallet
<1>4. CASE ~Move /\ ~Index /\ ~\E u \in Users : Reconcile(u)
  <2>1. /\ UNCHANGED <<balance, listed, total>> /\ pc # "index" /\ pc' # "index"
        /\ touched' = {} \/ touched' = touched
        /\ touched # {} => touched' = touched
        /\ pc' \in {"idle", "block", "confirm"} => touched' = {}
    BY <1>4
    DEF Next, RunStep, TxStep, SettleStep, AddBlock, StartWith, RunLatest, RunTarget,
      BeginBlock, Return, SkipConfirmed, NoteUnknown, BeginTx, AllTaken,
      AdvanceNonce, NoncesDone, TotalsDone, Confirm, Mark, Crash, Forget, ListedInv
  <2> QED BY <2>1 DEF ListedInv, Wallet
<1> QED BY <1>1, <1>2, <1>3, <1>4

LEMMA NextDistinct ==
    ASSUME TypeInv, DistinctInv, Next, \A body \in Bodies : IsInjective(body)
    PROVE  DistinctInv'
<1>1. ASSUME NEW body \in Bodies, AddBlock(body) PROVE DistinctInv'
  <2>1. /\ chain' = Append(chain, body) /\ chain \in Seq(Seq(Txs))
        /\ IsInjective(body)
    BY <1>1 DEF AddBlock, TypeInv, TypeOK
  <2>2. /\ DOMAIN chain' = DOMAIN chain \cup {Len(chain) + 1}
        /\ \A b \in DOMAIN chain : chain'[b] = chain[b]
        /\ chain'[Len(chain) + 1] = body
    BY <2>1
  <2>3. \A b \in DOMAIN chain' : IsInjective(chain'[b])
    <3> TAKE b \in DOMAIN chain'
    <3>1. CASE b \in DOMAIN chain
      BY <2>2, <3>1 DEF DistinctInv
    <3>2. CASE b = Len(chain) + 1
      BY <2>1, <2>2, <3>2
    <3> QED BY <2>2, <3>1, <3>2
  <2> QED BY <2>3 DEF DistinctInv, IsInjective
<1>2. CASE ~\E body \in Bodies : AddBlock(body)
  <2>1. chain' = chain
    BY <1>2
    DEF Next, RunStep, TxStep, SettleStep, StartWith, RunLatest, RunTarget,
      BeginBlock, Return, SkipConfirmed, NoteUnknown, BeginTx, Move, Refuse, Index, AllTaken,
      AdvanceNonce, NoncesDone, Reconcile, TotalsDone, Confirm, Mark, Crash
  <2> QED BY <2>1 DEF DistinctInv, IsInjective
<1> QED BY <1>1, <1>2

LedgerInv == DistinctInv /\ ConfirmInv /\ BalanceInv /\ NonceInv /\ ListedInv

LEMMA LedgerAtRest == TypeInv /\ LedgerInv => LedgerAsExpected
<1> SUFFICES ASSUME TypeInv, LedgerInv, pc = "idle"
             PROVE  /\ \A w \in Wallets : balance[w] = Expected(w) /\ listed[w] = Expected(w)
                    /\ \A w \in Wallets : nonce[w] = Cardinality(SentBy(w))
                    /\ \A u \in Users : total[u] = SumFunctionOnSet(balance, Wallet(u))
  BY DEF LedgerAsExpected
<1>1. /\ balance \in [Wallets -> Nat] /\ listed \in [Wallets -> Nat]
      /\ nonce \in [Wallets -> Nat]
  BY DEF TypeInv, TypeOK
<1>2. /\ Paid = confirmed /\ counts = NoCounts /\ touched = {}
      /\ \A w \in Wallets : Part(w) = 0 /\ ~InWork(w) /\ listed[w] = balance[w]
  BY DEF LedgerInv, NonceInv, ListedInv, Paid, Part, InWork
<1>3. \A w \in Wallets : balance[w] = Expected(w)
  <2> TAKE w \in Wallets
  <2>1. balance[w] = Opening[w] + SumFunctionOnSet(Effects(w), confirmed) + 0
    BY <1>2 DEF LedgerInv, BalanceInv
  <2>2. SumFunctionOnSet(Effects(w), confirmed) \in Int /\ Opening[w] \in Int
    BY EffectsSum, LedgerAssumption, PaymentAssumption DEF TypeInv, TypeOK
  <2>3. Expected(w) = Opening[w] + SumFunctionOnSet(Effects(w), confirmed)
    BY DEF Expected, Effects
  <2> QED BY <2>1, <2>2, <2>3
<1>4. \A w \in Wallets : nonce[w] = Cardinality(SentBy(w))
  <2> TAKE w \in Wallets
  <2>1. Sent(w, confirmed) = SentBy(w)
    BY DEF Sent, SentBy, Counted
  <2>2. IsFiniteSet(confirmed)
    BY <1>2, PaidType
  <2>3. Cardinality(SentBy(w)) \in Nat
    BY <2>2, FS_Subset, FS_CardinalityType DEF SentBy
  <2>4. nonce[w] + counts[w] = Cardinality(SentBy(w)) + When(InWork(w), 1)
    BY <1>2, <2>1 DEF LedgerInv, NonceInv
  <2> QED BY <1>1, <1>2, <2>3, <2>4 DEF When, NoCounts
<1>5. listed = balance
  BY <1>1, <1>2
<1>6. \A u \in Users : total[u] = SumFunctionOnSet(balance, Wallet(u))
  BY <1>2, <1>5 DEF LedgerInv, ListedInv
<1> QED BY <1>2, <1>3, <1>4, <1>6

\* As long as every movement can be made and no run is cut off, the ledger is, at
\* the end of every run, what the confirmed transactions make of the opening one:
\* on a network whose transactions are all submitted to the first node and whose
\* blocks carry a transaction once.
THEOREM LedgerTheorem ==
    ASSUME ~Crashes, Recorded = Txs, \A body \in Bodies : IsInjective(body)
    PROVE  Init /\ [][Next /\ ~Refuse]_vars => []LedgerAsExpected
<1>1. Init => LedgerInv
  <2> SUFFICES ASSUME Init PROVE DistinctInv /\ ConfirmInv /\ ListedInv
    BY InitBalance, InitNonce DEF LedgerInv
  <2>1. DistinctInv
    BY DEF Init, DistinctInv, IsInjective
  <2>2. ConfirmInv
    BY DEF Init, ConfirmInv, ProcessedIsConfirmed
  <2>3. ListedInv
    BY DEF Init, ListedInv
  <2> QED BY <2>1, <2>2, <2>3
<1>2. TypeInv /\ LedgerInv /\ [Next /\ ~Refuse]_vars => LedgerInv'
  <2> SUFFICES ASSUME TypeInv, LedgerInv, [Next /\ ~Refuse]_vars PROVE LedgerInv'
    OBVIOUS
  <2>1. CASE Next /\ ~Refuse
    BY <2>1, NextDistinct, NextConfirm, NextBalance, NextNonce, NextListed DEF LedgerInv
  <2>2. CASE UNCHANGED vars
    <3> USE <2>2 DEF vars, ledger, locals
    <3>1. Current' = Current /\ Paid' = Paid
      BY DEF Current, Paid, PassedBefore
    <3>2. \A w \in Wallets : Part(w)' = Part(w)
      BY <3>1 DEF Part, Shares, Share, When, Legs, FeeLeg, Leg
    <3>3. \A w \in Wallets : InWork(w)' = InWork(w)
      BY <3>1 DEF InWork, Counted, Is
    <3>4. DistinctInv' /\ ConfirmInv'
      BY DEF LedgerInv, DistinctInv, IsInjective, ConfirmInv, ProcessedIsConfirmed
    <3>5. ListedInv'
      <4>1. Movement' = Movement
        BY <3>1 DEF Movement, Legs, FeeLeg, Leg
      <4> QED BY <4>1 DEF LedgerInv, ListedInv, Wallet
    <3>6. BalanceInv'
      BY <3>1, <3>2 DEF LedgerInv, BalanceInv, Effects, Effect, When, Is
    <3>7. NonceInv'
      BY <3>1, <3>3 DEF LedgerInv, NonceInv, Sent, Counted, Is, When, NoCounts
    <3> QED BY <3>4, <3>5, <3>6, <3>7 DEF LedgerInv
  <2> QED BY <2>1, <2>2
<1>3. Init /\ [][Next /\ ~Refuse]_vars => []TypeInv
  <2>1. TypeInv /\ [Next /\ ~Refuse]_vars => TypeInv'
    BY NextType
  <2> QED BY <2>1, InitType, PTL
<1> QED BY <1>1, <1>2, <1>3, LedgerAtRest, PTL
=============================================================================
