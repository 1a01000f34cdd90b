---------------------------- MODULE EscrowProofs ----------------------------
(***************************************************************************)
(* Proofs about Escrow for every value of the constants.                   *)
(***************************************************************************)
EXTENDS Escrow, TLAPS

(* A transfer in a configured token keeps every balance an integer.        *)
LEMMA TransferType ==
    ASSUME TypeOK, NEW t \in Token, NEW from \in Account, NEW to \in Account,
           NEW amt \in Int
    PROVE  Transfer(t, from, to, amt) \in [Token -> [Account -> Int]]
<1>1. [bal EXCEPT ![t][from] = @ - amt] \in [Token -> [Account -> Int]]
  BY DEF TypeOK
<1>. QED
  BY <1>1 DEF Transfer, TypeOK

(* Every call keeps the storage shapes: entries are EscrowEntry records    *)
(* under (depositor, escrow_id) keys with a positive amount.               *)
LEMMA TypeStep == TypeOK /\ [Next]_vars => TypeOK'
<1> SUFFICES ASSUME TypeOK, [Next]_vars PROVE TypeOK'
  OBVIOUS
<1>1. CASE Tick
  BY <1>1, U64MaxAssumption DEF Tick, TypeOK, U64
<1>2. ASSUME NEW t \in Token, Initialize(t)
      PROVE  TypeOK'
  BY <1>2 DEF Initialize, TypeOK
<1>3. ASSUME NEW d \in Address, NEW b \in Address, NEW a \in Amount,
             NEW u \in U64, NEW id \in EscrowId, Lock(d, b, a, u, id)
      PROVE  TypeOK'
  <2> DEFINE k == <<d, id>>
             e == [depositor |-> d, beneficiary |-> b, amount |-> a, unlock_ts |-> u]
  <2>1. k \in Key /\ e \in EscrowEntry
    <3>1. a > 0 /\ a \in Int
      BY <1>3, InputAssumption DEF Lock, LockGuard
    <3>. QED
      BY <3>1 DEF Key, EscrowEntry
  <2>2. entry' = [x \in DOMAIN entry \cup {k} |-> IF x = k THEN e ELSE entry[x]]
    BY <1>3 DEF Lock
  <2>3. config \in Token /\ d \in Account /\ Self \in Account
    BY <1>3 DEF Lock, TypeOK, Account
  <2>4. bal' \in [Token -> [Account -> Int]]
    <3>1. bal' = Transfer(config, d, Self, a)
      BY <1>3 DEF Lock
    <3>. QED
      BY <2>3, <3>1, InputAssumption, TransferType
  <2>. QED
    BY <1>3, <2>1, <2>2, <2>4 DEF Lock, TypeOK
<1>4. ASSUME NEW d \in Address, NEW id \in EscrowId, Release(d, id)
      PROVE  TypeOK'
  <2> DEFINE k == <<d, id>>
  <2>1. entry[k] \in EscrowEntry /\ config \in Token
    BY <1>4 DEF Release, TypeOK
  <2>2. bal' \in [Token -> [Account -> Int]]
    <3>1. bal' = Transfer(config, Self, entry[k].beneficiary, entry[k].amount)
      BY <1>4 DEF Release
    <3>2. entry[k].beneficiary \in Account /\ entry[k].amount \in Int /\ Self \in Account
      BY <2>1 DEF EscrowEntry, Account
    <3>. QED
      BY <2>1, <3>1, <3>2, TransferType
  <2>. QED
    BY <1>4, <2>2 DEF Release, TypeOK
<1>5. CASE UNCHANGED vars
  BY <1>5 DEF vars, TypeOK
<1>. QED
  BY <1>1, <1>2, <1>3, <1>4, <1>5 DEF Next, Beneficiary

(* The initial state has the storage shapes.                              *)
LEMMA TypeInit == Init => TypeOK
<1> SUFFICES ASSUME Init PROVE TypeOK
  OBVIOUS
<1>1. DOMAIN entry = {}
  BY DEF Init
<1>2. bal \in [Token -> [Account -> Int]]
  BY InitBalanceAssumption DEF Init
<1>3. now \in U64 /\ config \in Token \cup {NoConfig}
  BY U64MaxAssumption DEF Init, U64
<1>. QED
  BY <1>1, <1>2, <1>3 DEF TypeOK

(* Type correctness of the escrow contract's storage: every stored entry   *)
(* is a well-formed EscrowEntry with a positive amount and a u64 unlock    *)
(* time, the Config is set at most to a token, and balances are integers.  *)
THEOREM EscrowTypeCorrect == Spec => []TypeOK
  BY TypeInit, TypeStep, PTL DEF Spec

(* The step formula of ReleasePaysBeneficiaryWhenDue.                      *)
ReleaseStepOK ==
    \A k \in DOMAIN entry :
        k \notin DOMAIN entry' =>
            LET e == entry[k]
            IN  /\ now >= e.unlock_ts
                /\ bal'[config][e.beneficiary] = bal[config][e.beneficiary] + e.amount

(* Only release removes an entry, and only its own, after its time check, *)
(* paying the beneficiary (never Self) through the configured token.       *)
LEMMA ReleaseStep == TypeOK /\ [Next]_vars => ReleaseStepOK
<1> SUFFICES ASSUME TypeOK, [Next]_vars PROVE ReleaseStepOK
  OBVIOUS
<1>1. CASE entry' = entry
  BY <1>1 DEF ReleaseStepOK
<1>2. ASSUME NEW d \in Address, NEW b \in Address, NEW a \in Amount,
             NEW u \in U64, NEW id \in EscrowId, Lock(d, b, a, u, id)
      PROVE  ReleaseStepOK
  <2>1. DOMAIN entry' = DOMAIN entry \cup {<<d, id>>}
    BY <1>2 DEF Lock
  <2>. QED
    BY <2>1 DEF ReleaseStepOK
<1>3. ASSUME NEW d \in Address, NEW id \in EscrowId, Release(d, id)
      PROVE  ReleaseStepOK
  <2> DEFINE k0 == <<d, id>>
  <2> SUFFICES ASSUME NEW k \in DOMAIN entry, k \notin DOMAIN entry'
               PROVE  /\ now >= entry[k].unlock_ts
                      /\ bal'[config][entry[k].beneficiary]
                           = bal[config][entry[k].beneficiary] + entry[k].amount
    BY DEF ReleaseStepOK
  <2>1. DOMAIN entry' = DOMAIN entry \ {k0}
    BY <1>3 DEF Release
  <2>2. k = k0
    BY <2>1
  <2>3. now >= entry[k].unlock_ts
    BY <1>3, <2>2 DEF Release, ReleaseDue
  <2>4. /\ config \in Token
        /\ entry[k] \in EscrowEntry
        /\ bal' = Transfer(config, Self, entry[k].beneficiary, entry[k].amount)
    BY <1>3, <2>2 DEF Release, TypeOK
  <2>5. /\ entry[k].beneficiary \in Address
        /\ entry[k].beneficiary # Self
        /\ entry[k].amount \in Int
    BY <2>4, AddressAssumption DEF EscrowEntry
  <2>. QED
    BY <2>3, <2>4, <2>5 DEF Transfer, TypeOK, Account
<1>. QED
  BY <1>1, <1>2, <1>3 DEF Next, Beneficiary, vars, Tick, Initialize

(* release pays out correctly: an escrow entry only ever disappears in a   *)
(* step at or after its unlock_ts that credits exactly its amount to its   *)
(* recorded beneficiary (the property ReleasePaysBeneficiaryWhenDue).      *)
THEOREM ReleaseCorrect == Spec => ReleasePaysBeneficiaryWhenDue
<1>1. TypeOK /\ [Next]_vars => [ReleaseStepOK]_vars
  BY ReleaseStep
<1>. QED
  BY <1>1, EscrowTypeCorrect, PTL DEF ReleasePaysBeneficiaryWhenDue, ReleaseStepOK, Spec

-----------------------------------------------------------------------------
(* Before Config is written no token has moved: every address still holds *)
(* InitBalance of every token.                                             *)
Unconfigured ==
    config = NoConfig => \A t \in Token, a \in Address : bal[t][a] = InitBalance

RInv == TypeOK /\ Unconfigured

LEMMA RInvInit == Init => RInv
<1> SUFFICES ASSUME Init PROVE RInv
  OBVIOUS
<1>1. TypeOK
  BY TypeInit
<1>2. Unconfigured
  BY AddressAssumption DEF Init, Unconfigured, Account
<1>. QED
  BY <1>1, <1>2 DEF RInv

LEMMA RInvStep == RInv /\ [Next]_vars => RInv'
<1> SUFFICES ASSUME RInv, [Next]_vars PROVE RInv'
  OBVIOUS
<1>1. TypeOK'
  BY TypeStep DEF RInv
<1>2. Unconfigured'
  <2>1. CASE config' = NoConfig
    <3>1. config = NoConfig
      BY <2>1 DEF Next, Beneficiary, vars, Tick, Initialize, Lock, Release
    <3>2. bal' = bal
      BY <3>1 DEF Next, Beneficiary, vars, Tick, Initialize, Lock, Release
    <3>. QED
      BY <2>1, <3>1, <3>2 DEF RInv, Unconfigured
  <2>. QED
    BY <2>1 DEF Unconfigured
<1>. QED
  BY <1>1, <1>2 DEF RInv

(* The escrow's initial state is the abstract initial state.              *)
LEMMA RefineInit == Init => Abs!Init
<1> SUFFICES ASSUME Init PROVE Abs!Init
  OBVIOUS
<1>1. AbsEscrows = [k \in {} |-> 0]
  BY DEF Init, AbsEscrows
<1>2. AbsWallet = [a \in Address |-> InitBalance]
  BY DEF Init, AbsWallet
<1>. QED
  BY <1>1, <1>2 DEF Init, Abs!Init

(* Every escrow step is an abstract step or leaves the abstract view       *)
(* unchanged.                                                              *)
LEMMA RefineStep == RInv /\ [Next]_vars => [Abs!Next]_Abs!vars
<1> SUFFICES ASSUME RInv, [Next]_vars PROVE [Abs!Next]_Abs!vars
  OBVIOUS
<1> USE DEF Abs!vars
<1>1. CASE Tick
  <2>1. AbsEscrows' = AbsEscrows /\ AbsWallet' = AbsWallet
    BY <1>1 DEF Tick, AbsEscrows, AbsWallet
  <2>. QED
    BY <1>1, <2>1 DEF Tick, Abs!Tick, Abs!Next
<1>2. ASSUME NEW t \in Token, Initialize(t)
      PROVE  UNCHANGED <<now, AbsEscrows, AbsWallet>>
  <2>1. config = NoConfig /\ config' = t /\ bal' = bal /\ entry' = entry
    BY <1>2 DEF Initialize
  <2>2. \A a \in Address : bal[t][a] = InitBalance
    BY <2>1 DEF RInv, Unconfigured
  <2>3. t # NoConfig
    BY AddressAssumption
  <2>4. AbsWallet' = AbsWallet
    BY <2>1, <2>2, <2>3 DEF AbsWallet
  <2>. QED
    BY <1>2, <2>1, <2>4 DEF Initialize, AbsEscrows
<1>3. ASSUME NEW d \in Address, NEW b \in Address, NEW a \in Amount,
             NEW u \in U64, NEW id \in EscrowId, Lock(d, b, a, u, id)
      PROVE  Abs!Next
  <2> DEFINE k == <<d, id>>
             r == [beneficiary |-> b, amount |-> a, unlock_ts |-> u]
  <2>1. /\ config \in Token /\ config # NoConfig /\ config' = config
        /\ a \in Int /\ a > 0 /\ u > now /\ now' = now
        /\ k \notin DOMAIN entry
        /\ bal[config][d] >= a
        /\ bal' = Transfer(config, d, Self, a)
    BY <1>3, InputAssumption DEF Lock, LockGuard, CanTransfer, RInv, TypeOK
  <2>2. AbsWallet[d] = bal[config][d] /\ AbsWallet[d] \in Int
    BY <2>1 DEF AbsWallet, RInv, TypeOK, Account
  <2>3. AbsWallet' = [AbsWallet EXCEPT ![d] = @ - a]
    <3>1. \A x \in Address : bal'[config][x] = IF x = d THEN bal[config][x] - a
                                                        ELSE bal[config][x]
      BY <2>1, AddressAssumption DEF Transfer, RInv, TypeOK, Account
    <3>. QED
      BY <2>1, <3>1 DEF AbsWallet
  <2>4. AbsEscrows' = [x \in DOMAIN AbsEscrows \cup {k} |->
                         IF x = k THEN r ELSE AbsEscrows[x]]
    <3>1. entry' = [x \in DOMAIN entry \cup {k} |->
                     IF x = k
                     THEN [depositor |-> d, beneficiary |-> b, amount |-> a, unlock_ts |-> u]
                     ELSE entry[x]]
      BY <1>3 DEF Lock
    <3>. QED
      BY <3>1 DEF AbsEscrows
  <2>5. Abs!Lock(d, b, a, u, id)
    BY <2>1, <2>2, <2>3, <2>4 DEF Abs!Lock, AbsEscrows
  <2>6. a \in 1..AbsWallet[d] /\ u \in 0..U64Max
    BY <2>1, <2>2 DEF U64
  <2>. QED
    BY <2>5, <2>6 DEF Abs!Next
<1>4. ASSUME NEW d \in Address, NEW id \in EscrowId, Release(d, id)
      PROVE  Abs!Next
  <2> DEFINE k == <<d, id>>
  <2>1. /\ config \in Token /\ config # NoConfig /\ config' = config /\ now' = now
        /\ k \in DOMAIN entry /\ now >= entry[k].unlock_ts
        /\ entry' = [x \in DOMAIN entry \ {k} |-> entry[x]]
        /\ bal' = Transfer(config, Self, entry[k].beneficiary, entry[k].amount)
        /\ entry[k] \in EscrowEntry
    BY <1>4 DEF Release, ReleaseDue, RInv, TypeOK
  <2> DEFINE bn == entry[k].beneficiary
             amt == entry[k].amount
  <2>2. bn \in Address /\ amt \in Int /\ bn # Self
    BY <2>1, AddressAssumption DEF EscrowEntry
  <2>3. AbsWallet' = [AbsWallet EXCEPT ![bn] = @ + amt]
    <3>1. \A x \in Address : bal'[config][x] = IF x = bn THEN bal[config][x] + amt
                                                         ELSE bal[config][x]
      BY <2>1, <2>2, AddressAssumption DEF Transfer, RInv, TypeOK, Account
    <3>. QED
      BY <2>1, <2>2, <3>1 DEF AbsWallet
  <2>4. /\ k \in DOMAIN AbsEscrows
        /\ AbsEscrows[k].beneficiary = bn /\ AbsEscrows[k].amount = amt
        /\ now >= AbsEscrows[k].unlock_ts
        /\ AbsEscrows' = [x \in DOMAIN AbsEscrows \ {k} |-> AbsEscrows[x]]
    BY <2>1 DEF AbsEscrows
  <2>5. Abs!Release(d, id)
    BY <2>1, <2>3, <2>4 DEF Abs!Release
  <2>. QED
    BY <2>5 DEF Abs!Next
<1>5. CASE UNCHANGED vars
  BY <1>5 DEF vars, AbsEscrows, AbsWallet
<1>. QED
  BY <1>1, <1>2, <1>3, <1>4, <1>5 DEF Next, Beneficiary

(* The escrow contract implements the escrow of the spec (the property     *)
(* AbstractEscrow): under the mapping of entries to held escrows and of    *)
(* configured-token balances to wallets, lock and release are the abstract *)
(* lock and release and every other step is invisible.                     *)
THEOREM EscrowRefinement == Spec => AbstractEscrow
<1>1. Spec => []RInv
  BY RInvInit, RInvStep, PTL DEF Spec
<1>. QED
  BY <1>1, RefineInit, RefineStep, PTL DEF Spec, AbstractEscrow, Abs!Spec
=============================================================================
