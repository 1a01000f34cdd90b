------------------------- MODULE EscrowCustodyProofs -------------------------
(***************************************************************************)
(* The escrow's custody is exactly backed (CustodyMatchesEntries) for      *)
(* every value of the constants.  Held counts the amount units of the     *)
(* live entries; lock adds one entry's block of units, release removes    *)
(* it, and the transfer each makes moves exactly that many tokens into or *)
(* out of the custody account.                                             *)
(***************************************************************************)
EXTENDS EscrowProofs, UnitCounting

(* The inductive invariant.  CustodyMatchesEntries alone is not inductive: *)
(* Initialize installs a token whose custody balance must already equal    *)
(* the empty sum, and lock and release need the units counted to be a     *)
(* finite set.                                                             *)
Unlocked ==
    config = NoConfig => DOMAIN entry = {} /\ \A t \in Token : bal[t][Self] = 0

CInv ==
    /\ TypeOK
    /\ Unlocked
    /\ IsFiniteSet(Units(DOMAIN entry))
    /\ CustodyMatchesEntries
(* The units of the empty set of keys: none.                               *)
LEMMA NoUnits == Units({}) = {} /\ IsFiniteSet(Units({})) /\ Held({}) = 0
<1>1. Units({}) = {}
  BY DEF Units
<1>. QED
  BY <1>1, FS_EmptySet DEF Held

(* Initially there is no Config, no entry and nothing in custody.          *)
LEMMA CInvInit == Init => CInv
<1> SUFFICES ASSUME Init PROVE CInv
  OBVIOUS
<1>1. TypeOK
  BY TypeInit
<1>2. DOMAIN entry = {} /\ config = NoConfig
  BY DEF Init
<1>3. \A t \in Token : bal[t][Self] = 0
  BY DEF Init, Account
<1>. QED
  BY <1>1, <1>2, <1>3, NoUnits DEF CInv, Unlocked, CustodyMatchesEntries

(* Initialize installs a token while nothing is locked and its custody     *)
(* balance is 0, the empty sum.                                            *)
LEMMA CInvInitialize ==
    ASSUME CInv, NEW t \in Token, Initialize(t)
    PROVE  CInv'
<1>1. TypeOK'
  <2>1. TypeOK /\ [Next]_vars
    BY DEF CInv, Next
  <2>. QED
    BY <2>1, TypeStep
<1>2. DOMAIN entry' = {} /\ bal'[t][Self] = 0 /\ config' = t
  BY DEF CInv, Unlocked, Initialize
<1>3. config' # NoConfig
  BY <1>2, AddressAssumption
<1>4. Units(DOMAIN entry)' = {}
  BY <1>2 DEF Units
<1>5. IsFiniteSet(Units(DOMAIN entry)') /\ Held(DOMAIN entry)' = 0
  BY <1>4, FS_EmptySet DEF Held
<1>. QED
  BY <1>1, <1>2, <1>3, <1>5 DEF CInv, Unlocked, CustodyMatchesEntries
(* lock adds its entry's block of units, disjoint from the others since    *)
(* its key was free, and moves the same amount from the depositor (never   *)
(* Self) into custody.                                                     *)
LEMMA CInvLock ==
    ASSUME CInv, NEW d \in Address, NEW b \in Address, NEW a \in Amount,
           NEW u \in U64, NEW id \in EscrowId, Lock(d, b, a, u, id)
    PROVE  CInv'
<1> DEFINE k == <<d, id>>
           D == DOMAIN entry
           U == Units(D)
           B == {k} \X (1..a)
<1>1. TypeOK'
  <2>1. TypeOK /\ [Next]_vars
    BY DEF CInv, Next, Beneficiary
  <2>. QED
    BY <2>1, TypeStep
<1>2. a \in Nat
  BY InputAssumption DEF Lock, LockGuard
<1>3. k \notin D /\ config # NoConfig /\ config' = config
  BY DEF Lock, LockGuard
<1>4. /\ DOMAIN entry' = D \cup {k}
      /\ entry'[k].amount = a
      /\ \A x \in D : entry'[x] = entry[x]
  BY <1>3 DEF Lock
<1>5. Units(DOMAIN entry)' = U \cup B
  <2>1. {{x} \X (1..entry'[x].amount) : x \in D \cup {k}}
          = {{x} \X (1..entry[x].amount) : x \in D} \cup {B}
    BY <1>4
  <2>. QED
    BY <1>4, <2>1 DEF Units
<1>6. U \cap B = {}
  BY <1>3 DEF Units
<1>7. IsFiniteSet(Units(DOMAIN entry)')
      /\ Cardinality(Units(DOMAIN entry)') = Cardinality(U) + a
  <2>1. IsFiniteSet(U)
    BY DEF CInv
  <2>2. IsFiniteSet(U \cup B) /\ Cardinality(U \cup B) = Cardinality(U) + a
    BY <1>2, <1>6, <2>1, AddBlock
  <2>. QED
    BY <1>5, <2>2
<1>8. bal'[config][Self] = bal[config][Self] + a
  <2>1. config \in Token /\ d \in Account /\ Self \in Account /\ d # Self
    BY <1>3, AddressAssumption DEF CInv, TypeOK, Account
  <2>2. bal' = Transfer(config, d, Self, a)
    BY DEF Lock
  <2>. QED
    BY <2>1, <2>2, <1>2 DEF Transfer, CInv, TypeOK
<1>9. bal[config][Self] = Cardinality(U)
  BY <1>3 DEF CInv, CustodyMatchesEntries, Held
<1>. QED
  BY <1>1, <1>3, <1>7, <1>8, <1>9 DEF CInv, Unlocked, CustodyMatchesEntries, Held
(* release removes its entry's block of units, which the count contains,   *)
(* and pays the same amount out of custody to the beneficiary, an address  *)
(* and so never Self.                                                      *)
LEMMA CInvRelease ==
    ASSUME CInv, NEW d \in Address, NEW id \in EscrowId, Release(d, id)
    PROVE  CInv'
<1> DEFINE k == <<d, id>>
           D == DOMAIN entry
           U == Units(D)
           a == entry[k].amount
           B == {k} \X (1..a)
<1>1. TypeOK'
  <2>1. TypeOK /\ [Next]_vars
    BY DEF CInv, Next
  <2>. QED
    BY <2>1, TypeStep
<1>2. k \in D /\ config # NoConfig /\ config' = config
  BY DEF Release
<1>3. a \in Nat /\ entry[k].beneficiary \in Address
  BY <1>2 DEF CInv, TypeOK, EscrowEntry
<1>4. DOMAIN entry' = D \ {k} /\ \A x \in D \ {k} : entry'[x] = entry[x]
  BY DEF Release
<1>5. Units(DOMAIN entry)' = U \ B
  <2>1. {{x} \X (1..entry'[x].amount) : x \in D \ {k}}
          = {{x} \X (1..entry[x].amount) : x \in D \ {k}}
    BY <1>4
  <2>2. UNION {{x} \X (1..entry[x].amount) : x \in D \ {k}} = U \ B
    <3>1. ASSUME NEW x \in D \ {k}, NEW p \in {x} \X (1..entry[x].amount)
          PROVE  p \in U \ B
      BY <3>1 DEF Units
    <3>2. ASSUME NEW p \in U \ B
          PROVE  \E x \in D \ {k} : p \in {x} \X (1..entry[x].amount)
      <4>1. PICK x \in D : p \in {x} \X (1..entry[x].amount)
        BY <3>2 DEF Units
      <4>2. x # k
        BY <3>2, <4>1
      <4>. QED
        BY <4>1, <4>2
    <3>. QED
      BY <3>1, <3>2
  <2>. QED
    BY <1>4, <2>1, <2>2 DEF Units
<1>6. B \subseteq U
  BY <1>2 DEF Units
<1>7. IsFiniteSet(Units(DOMAIN entry)')
      /\ Cardinality(Units(DOMAIN entry)') = Cardinality(U) - a
  <2>1. IsFiniteSet(U)
    BY DEF CInv
  <2>2. IsFiniteSet(U \ B) /\ Cardinality(U \ B) = Cardinality(U) - a
    BY <1>3, <1>6, <2>1, RemoveBlock
  <2>. QED
    BY <1>5, <2>2
<1>8. bal'[config][Self] = bal[config][Self] - a
  <2>1. /\ config \in Token /\ Self \in Account
        /\ entry[k].beneficiary \in Account /\ entry[k].beneficiary # Self
    BY <1>2, <1>3, AddressAssumption DEF CInv, TypeOK, Account
  <2>2. bal' = Transfer(config, Self, entry[k].beneficiary, a)
    BY DEF Release
  <2>. QED
    BY <2>1, <2>2, <1>3 DEF Transfer, CInv, TypeOK
<1>9. bal[config][Self] = Cardinality(U)
  BY <1>2 DEF CInv, CustodyMatchesEntries, Held
<1>. QED
  BY <1>1, <1>2, <1>7, <1>8, <1>9 DEF CInv, Unlocked, CustodyMatchesEntries, Held

(* CInv is inductive: Tick and a stutter change none of the variables it   *)
(* reads, and every call keeps it.                                         *)
LEMMA CInvStep == CInv /\ [Next]_vars => CInv'
<1> SUFFICES ASSUME CInv, [Next]_vars PROVE CInv'
  OBVIOUS
<1>1. CASE Tick
  <2>1. TypeOK'
    BY <1>1, TypeStep DEF CInv, Next
  <2>. QED
    BY <1>1, <2>1 DEF Tick, CInv, Unlocked, CustodyMatchesEntries, Held, Units
<1>2. CASE UNCHANGED vars
  BY <1>2 DEF vars, CInv, TypeOK, Unlocked, CustodyMatchesEntries, Held, Units
<1>. QED
  BY <1>1, <1>2, CInvInitialize, CInvLock, CInvRelease DEF Next, Beneficiary

(* The escrow's custody is exactly backed, whatever the addresses, ids,    *)
(* tokens, amounts and timestamps: in the configured token the contract    *)
(* always holds the sum of the amounts of the live entries, so no lock is  *)
(* lost to an overwrite and no release pays out twice.                     *)
THEOREM CustodyCorrect == Spec => []CustodyMatchesEntries
<1>1. CInv => CustodyMatchesEntries
  BY DEF CInv
<1>. QED
  BY <1>1, CInvInit, CInvStep, PTL DEF Spec
-----------------------------------------------------------------------------
(* What ReleaseNeverBlocked asks of release once an entry is due, written   *)
(* out as release's own conditions (ENABLED is beyond the prover): the     *)
(* Config is there, custody covers the recorded amount, and the released   *)
(* event's check passes.  The remaining conjuncts of Release assign the    *)
(* primed variables, so they can always be met.                            *)
ReleaseUnblocked ==
    \A k \in DOMAIN entry :
        ReleaseDue(entry[k]) =>
            /\ config # NoConfig
            /\ CanTransfer(config, Self, entry[k].amount)
            /\ ReleasedEventValid(entry[k].amount)

(* An entry's amount never exceeds the custody balance: its units are      *)
(* among the units counted.                                                *)
LEMMA CInvUnblocked == CInv => ReleaseUnblocked
<1> SUFFICES ASSUME CInv, NEW k \in DOMAIN entry
             PROVE  /\ config # NoConfig
                    /\ CanTransfer(config, Self, entry[k].amount)
                    /\ ReleasedEventValid(entry[k].amount)
  BY DEF ReleaseUnblocked
<1> DEFINE U == Units(DOMAIN entry)
           a == entry[k].amount
           B == {k} \X (1..a)
<1>1. config # NoConfig
  BY DEF CInv, Unlocked
<1>2. a \in Nat \ {0}
  BY DEF CInv, TypeOK, EscrowEntry
<1>3. Cardinality(B) = a
  BY <1>2, BlockCard
<1>4. Cardinality(B) <= Cardinality(U)
  <2>1. IsFiniteSet(U) /\ B \subseteq U
    BY DEF CInv, Units
  <2>. QED
    BY <2>1, FS_Subset
<1>5. bal[config][Self] = Cardinality(U)
  BY <1>1 DEF CInv, CustodyMatchesEntries, Held
<1>. QED
  BY <1>1, <1>2, <1>3, <1>4, <1>5 DEF CanTransfer, ReleasedEventValid

(* No sequence of locks and releases strands funds: whenever an entry is   *)
(* due, release of it finds the Config, custody covering its amount and a  *)
(* valid released event.                                                    *)
THEOREM ReleaseUnblockedCorrect == Spec => []ReleaseUnblocked
  BY CInvInit, CInvStep, CInvUnblocked, PTL DEF Spec
=============================================================================
