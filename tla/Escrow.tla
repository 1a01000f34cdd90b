------------------------------- MODULE Escrow -------------------------------
(***************************************************************************)
(* The escrow contract (contracts/escrow/src/gas.rs): lock and release of  *)
(* packed EscrowEntry records keyed by EscrowKey::Entry(depositor, id) in  *)
(* persistent storage, the token balances that lock and release move, and  *)
(* the Config (only its token is read here) that both calls read from the  *)
(* contract's instance storage.                                            *)
(*                                                                         *)
(* A failed call (panic or failed assert) aborts with no effect, so only   *)
(* successful calls are actions.  Timestamps are u64 in 0..U64Max.         *)
(***************************************************************************)
EXTENDS Integers, FiniteSets

CONSTANTS
    Address,      \* depositors and beneficiaries
    Token,        \* token contract addresses
    EscrowId,     \* u64 escrow ids chosen by depositors
    Self,         \* env.current_contract_address(), the escrow's custody
    NoConfig,     \* DataKey::Config absent from instance storage
    U64Max,       \* the largest u64 timestamp of the model
    Amount,       \* i128 amounts passed to lock
    InitBalance   \* every address's initial balance of every token

ASSUME U64MaxAssumption == U64Max \in Nat \ {0}
ASSUME AddressAssumption == Self \notin Address /\ NoConfig \notin Token
ASSUME InputAssumption == Amount \subseteq Int /\ EscrowId \subseteq Nat
ASSUME InitBalanceAssumption == InitBalance \in Nat

U64 == 0..U64Max
Account == Address \cup {Self}
Key == Address \X EscrowId

(* The beneficiaries callers name in lock.  lock does not check the        *)
(* beneficiary, so any address is accepted, the escrow's own included; the *)
(* model's callers name addresses other than the contract's.               *)
Beneficiary == Address

VARIABLES
    now,     \* the ledger timestamp
    config,  \* the token of DataKey::Config, or NoConfig
    entry,   \* persistent storage: EscrowKey::Entry(d, id) -> EscrowEntry
    bal      \* bal[t][a]: balance of account a in token contract t

vars == <<now, config, entry, bal>>

(* struct EscrowEntry *)
EscrowEntry ==
    [depositor: Address, beneficiary: Address, amount: Nat \ {0}, unlock_ts: U64]

(* The token contract's transfer: fails unless from holds amt.            *)
CanTransfer(t, from, amt) == amt >= 0 /\ bal[t][from] >= amt

Transfer(t, from, to, amt) ==
    [bal EXCEPT ![t][from] = @ - amt, ![t][to] = @ + amt]

-----------------------------------------------------------------------------
(* Alternative forms of lock's guards and of release's time check, each a  *)
(* plausible slip in the contract; they are not used by the specification. *)
LockGuardNoDuplicateCheck(k, amount, unlock_ts) ==
    amount > 0 /\ unlock_ts > now
ReleaseDueAlways(e) == TRUE
ReleaseDueStrict(e) == now > e.unlock_ts

(* lock's asserts: "escrow amount must be > 0", "unlock_ts must be in the  *)
(* future", and no entry under the key ("escrow ID already in use").      *)
LockGuard(k, amount, unlock_ts) ==
    /\ amount > 0
    /\ unlock_ts > now
    /\ k \notin DOMAIN entry

(* release's assert "escrow is still locked".                              *)
ReleaseDue(e) == now >= e.unlock_ts

(* The validation that emit_escrow_locked and emit_escrow_released run on  *)
(* their payloads (events/src/gas.rs); a failed check aborts the call.     *)
LockedEventValid(amount, unlock_ts) == amount > 0 /\ unlock_ts > now
ReleasedEventValid(amount) == amount > 0

-----------------------------------------------------------------------------
Init ==
    /\ now = 0
    /\ config = NoConfig
    /\ entry = [k \in {} |-> 0]
    /\ bal = [t \in Token |-> [a \in Account |-> IF a = Self THEN 0 ELSE InitBalance]]

Tick ==
    /\ now < U64Max
    /\ now' = now + 1
    /\ UNCHANGED <<config, entry, bal>>

(* The initialisation that writes DataKey::Config once; a second call      *)
(* panics.                                                                 *)
Initialize(t) ==
    /\ config = NoConfig
    /\ config' = t
    /\ UNCHANGED <<now, entry, bal>>

(* lock: checks, config read, transfer depositor -> Self, one packed write *)
(* under (depositor, escrow_id), the validated locked event.               *)
Lock(depositor, beneficiary, amount, unlock_ts, escrow_id) ==
    LET k == <<depositor, escrow_id>>
    IN  /\ LockGuard(k, amount, unlock_ts)
        /\ config # NoConfig
        /\ CanTransfer(config, depositor, amount)
        /\ bal' = Transfer(config, depositor, Self, amount)
        /\ entry' = [x \in DOMAIN entry \cup {k} |->
                       IF x = k
                       THEN [depositor |-> depositor, beneficiary |-> beneficiary,
                             amount |-> amount, unlock_ts |-> unlock_ts]
                       ELSE entry[x]]
        /\ LockedEventValid(amount, unlock_ts)
        /\ UNCHANGED <<now, config>>

(* release: anyone may call; the entry must exist and be due; the entry is *)
(* removed, then Self pays the recorded beneficiary the recorded amount,   *)
(* and the released event is validated.                                    *)
Release(depositor, escrow_id) ==
    LET k == <<depositor, escrow_id>>
    IN  /\ k \in DOMAIN entry
        /\ ReleaseDue(entry[k])
        /\ config # NoConfig
        /\ entry' = [x \in DOMAIN entry \ {k} |-> entry[x]]
        /\ CanTransfer(config, Self, entry[k].amount)
        /\ bal' = Transfer(config, Self, entry[k].beneficiary, entry[k].amount)
        /\ ReleasedEventValid(entry[k].amount)
        /\ UNCHANGED <<now, config>>

Next ==
    \/ Tick
    \/ \E t \in Token : Initialize(t)
    \/ \E d \in Address, b \in Beneficiary, a \in Amount, u \in U64, id \in EscrowId :
          Lock(d, b, a, u, id)
    \/ \E d \in Address, id \in EscrowId : Release(d, id)

Spec == Init /\ [][Next]_vars

-----------------------------------------------------------------------------
TypeOK ==
    /\ now \in U64
    /\ config \in Token \cup {NoConfig}
    /\ DOMAIN entry \subseteq Key
    /\ \A k \in DOMAIN entry : entry[k] \in EscrowEntry
    /\ bal \in [Token -> [Account -> Int]]

(* One unit <<k, i>> for each of the amount units an entry holds; the sum *)
(* of the amounts of the entries with keys in ks is the number of units.  *)
Units(ks) == UNION {{k} \X (1..entry[k].amount) : k \in ks}

Held(ks) == Cardinality(Units(ks))

(* The escrow's custody is exactly backed: in the configured token the     *)
(* contract holds the sum of the amounts of the live entries, so no lock   *)
(* is ever lost by an overwrite and no release pays out twice.             *)
CustodyMatchesEntries ==
    config # NoConfig => bal[config][Self] = Held(DOMAIN entry)

(* A step that removes an escrow entry happens no earlier than its         *)
(* unlock_ts and pays exactly the recorded amount to the recorded          *)
(* beneficiary, whoever called release.                                    *)
ReleasePaysBeneficiaryWhenDue ==
    [][\A k \in DOMAIN entry :
         k \notin DOMAIN entry' =>
             LET e == entry[k]
             IN  /\ now >= e.unlock_ts
                 /\ bal'[config][e.beneficiary] = bal[config][e.beneficiary] + e.amount]_vars

(* Anyone can always release a due escrow: for every live entry whose      *)
(* unlock_ts has passed, release(depositor, escrow_id) succeeds, i.e. the  *)
(* config is present, the contract's custody covers the payout and the     *)
(* released event passes validation; no sequence of locks and releases    *)
(* can strand funds in the escrow.                                         *)
ReleaseNeverBlocked ==
    \A k \in DOMAIN entry :
        now >= entry[k].unlock_ts => ENABLED Release(k[1], k[2])

-----------------------------------------------------------------------------
(* The refinement mapping to EscrowAbstract: the held escrows are the live *)
(* entries without their depositor field (it is part of the key), and an   *)
(* address's wallet is its balance in the configured token (InitBalance    *)
(* before Config is written, when no token has moved).                     *)
AbsEscrows ==
    [k \in DOMAIN entry |->
        [beneficiary |-> entry[k].beneficiary, amount |-> entry[k].amount,
         unlock_ts |-> entry[k].unlock_ts]]

AbsWallet ==
    [a \in Address |-> IF config = NoConfig THEN InitBalance ELSE bal[config][a]]

Abs == INSTANCE EscrowAbstract WITH escrows <- AbsEscrows, wallet <- AbsWallet

(* lock and release implement the escrow of the spec: every step of the   *)
(* contract is a lock of a free key with a positive, covered amount and a  *)
(* future unlock time, a release of a due escrow to its beneficiary, or    *)
(* leaves the depositor-beneficiary view unchanged (the Config write, the  *)
(* custody account and the events are invisible to it).                    *)
AbstractEscrow == Abs!Spec
=============================================================================
