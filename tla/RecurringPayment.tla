-------------------------- MODULE RecurringPayment --------------------------
(***************************************************************************)
(* The recurring-payment contract (contracts/recurring-payment/src/lib.rs):*)
(* create_payment, execute_payment and cancel_payment over the contract's *)
(* instance storage (PaymentCount and Payment(id)), together with the      *)
(* balances of the token contracts that execute_payment transfers with.    *)
(*                                                                         *)
(* Every public call runs to completion or aborts as a whole (a panic      *)
(* discards all writes), so a call that fails is a stuttering step and     *)
(* only successful calls are actions.  Timestamps and intervals are u64:   *)
(* they range over 0..U64Max, and the catch-up arithmetic of               *)
(* execute_payment is computed modulo U64Max + 1 with an overflow check    *)
(* when the build has overflow checks enabled.                             *)
(***************************************************************************)
EXTENDS Integers

CONSTANTS
    Address,        \* account addresses (senders and recipients)
    Token,          \* token contract addresses
    U64Max,         \* the largest u64 of the model (u64::MAX scaled down)
    MaxPayments,    \* bound on PaymentCount: how many payments are created
    Amount,         \* i128 amounts passed to create_payment
    Interval,       \* u64 intervals passed to create_payment
    StartTime,      \* u64 start times passed to create_payment
    InitBalance,    \* every account's initial balance of every token
    OverflowChecks  \* TRUE iff u64 overflow panics (overflow-checks = true)

ASSUME U64MaxAssumption == U64Max \in Nat \ {0}
ASSUME MaxPaymentsAssumption == MaxPayments \in Nat
ASSUME InputAssumption ==
    /\ Amount \subseteq Int
    /\ Interval \subseteq 0..U64Max
    /\ StartTime \subseteq 0..U64Max
ASSUME InitBalanceAssumption == InitBalance \in Nat
ASSUME OverflowChecksAssumption == OverflowChecks \in BOOLEAN

U64 == 0..U64Max
Modulus == U64Max + 1

VARIABLES
    now,      \* the ledger timestamp, env.ledger().timestamp()
    count,    \* DataKey::PaymentCount (absent is read as 0)
    payment,  \* DataKey::Payment(id) for id \in 1..count
    bal,      \* bal[t][a]: balance of account a in token contract t
    hist      \* ghost: hist[id] = [start, runs, last] of each payment

vars == <<now, count, payment, bal, hist>>

(* struct RecurringPayment *)
PaymentRecord ==
    [sender: Address, recipient: Address, token: Token, amount: Nat \ {0},
     interval: U64 \ {0}, next_execution: U64, active: BOOLEAN]

-----------------------------------------------------------------------------
(* The token contract's transfer(from, to, amount): it fails (the whole    *)
(* call aborts) unless from holds amount; from = to leaves b unchanged.    *)
CanTransfer(b, t, from, amt) == amt >= 0 /\ b[t][from] >= amt

Transfer(b, t, from, to, amt) ==
    [b EXCEPT ![t][from] = @ - amt, ![t][to] = @ + amt]

(* Alternative forms of the catch-up arithmetic and of the execution's     *)
(* guards, each a plausible slip in execute_payment; they are not used by  *)
(* the specification.                                                      *)
JumpCeil(p, t) ==
    LET d == t - p.next_execution
    IN  ((d + p.interval - 1) \div p.interval) * p.interval
JumpTwice(p, t) == ((t - p.next_execution) \div p.interval + 2) * p.interval
JumpNoCatchUp(p, t) == ((t - p.next_execution) \div p.interval) * p.interval
ValidPaymentAnyInterval(amount, interval) == amount > 0
ExecutableIgnoringActive(p, t) == t >= p.next_execution
ExecutableEarly(p, t) == p.active

(* The input checks of create_payment: "Amount must be positive" and       *)
(* "Interval must be positive".                                            *)
ValidPayment(amount, interval) == amount > 0 /\ interval # 0

(* The checks of execute_payment before it transfers: the payment is      *)
(* active ("Payment is not active") and due ("Too early for next           *)
(* execution").                                                            *)
Executable(p, t) == p.active /\ t >= p.next_execution

(* intervals_passed = (current_time - next_execution) / interval, and the  *)
(* increment (intervals_passed + 1) * interval, as mathematical integers.  *)
Jump(p, t) == ((t - p.next_execution) \div p.interval + 1) * p.interval

(* Both u64 operations of `next_execution += (intervals_passed + 1) *      *)
(* interval` stay within u64.                                              *)
CatchUpFits(p, t) ==
    /\ Jump(p, t) <= U64Max
    /\ p.next_execution + Jump(p, t) <= U64Max

(* The new next_execution with u64 wrapping; equal to the exact sum when   *)
(* CatchUpFits.                                                            *)
CatchUp(p, t) == (p.next_execution + (Jump(p, t) % Modulus)) % Modulus

-----------------------------------------------------------------------------
Init ==
    /\ now = 0
    /\ count = 0
    /\ payment = <<>>
    /\ bal = [t \in Token |-> [a \in Address |-> InitBalance]]
    /\ hist = <<>>

(* The ledger clock advances; it is read-only for the contract.           *)
Tick ==
    /\ now < U64Max
    /\ now' = now + 1
    /\ UNCHANGED <<count, payment, bal, hist>>

(* create_payment: validate amount and interval, take the next id,         *)
(* store the schedule with next_execution = start_time, store the count.   *)
CreatePayment(sender, recipient, token, amount, interval, start_time) ==
    /\ ValidPayment(amount, interval)
    /\ count < MaxPayments
    /\ LET id == count + 1
           rec == [sender |-> sender, recipient |-> recipient, token |-> token,
                   amount |-> amount, interval |-> interval,
                   next_execution |-> start_time, active |-> TRUE]
       IN  /\ count' = id
           /\ payment' = [i \in 1..id |-> IF i = id THEN rec ELSE payment[i]]
           /\ hist' = [i \in 1..id |->
                         IF i = id
                         THEN [start |-> start_time, runs |-> 0, last |-> 0]
                         ELSE hist[i]]
    /\ UNCHANGED <<now, bal>>

(* execute_payment: the payment must exist, be active and be due; the      *)
(* transfer sender -> recipient must succeed; next_execution jumps past    *)
(* every elapsed interval in one step.                                     *)
ExecutePayment(id) ==
    /\ id \in 1..count
    /\ LET p == payment[id]
       IN  /\ Executable(p, now)
           /\ CanTransfer(bal, p.token, p.sender, p.amount)
           /\ OverflowChecks => CatchUpFits(p, now)
           /\ bal' = Transfer(bal, p.token, p.sender, p.recipient, p.amount)
           /\ payment' = [payment EXCEPT ![id].next_execution = CatchUp(p, now)]
           /\ hist' = [hist EXCEPT ![id] = [start |-> @.start, runs |-> @.runs + 1,
                                                last |-> now]]
    /\ UNCHANGED <<now, count>>

(* cancel_payment: the payment must exist and be active (the sender's      *)
(* authorization is the caller's); it becomes inactive for good.           *)
CancelPayment(id) ==
    /\ id \in 1..count
    /\ payment[id].active
    /\ payment' = [payment EXCEPT ![id].active = FALSE]
    /\ UNCHANGED <<now, count, bal, hist>>

Next ==
    \/ Tick
    \/ \E s, r \in Address, t \in Token, a \in Amount, i \in Interval,
          st \in StartTime : CreatePayment(s, r, t, a, i, st)
    \/ \E id \in 1..count : ExecutePayment(id)
    \/ \E id \in 1..count : CancelPayment(id)

Spec == Init /\ [][Next]_vars

-----------------------------------------------------------------------------
TypeOK ==
    /\ now \in U64
    /\ count \in 0..MaxPayments
    /\ payment \in [1..count -> PaymentRecord]
    /\ bal \in [Token -> [Address -> Int]]
    /\ hist \in [1..count -> [start: U64, runs: Nat, last: U64]]

(* After an execution at time `last`, next_execution lies strictly after   *)
(* it and no later than one interval after it: the catch-up jump of        *)
(* execute_payment lands on the first schedule point past the execution,   *)
(* so the payment can neither be re-executed in the same instant nor skip  *)
(* a whole interval that has not yet elapsed.                              *)
NextIsFirstPointAfterRun ==
    \A id \in 1..count :
        hist[id].runs > 0 =>
            /\ hist[id].last < payment[id].next_execution
            /\ payment[id].next_execution <= hist[id].last + payment[id].interval

(* Every next_execution is a point of the schedule start_time + k*interval *)
(* and the number of executions never exceeds the number of schedule       *)
(* points already consumed: execute_payment pays at most once per interval *)
(* however late or often it is called.                                     *)
OnSchedule ==
    \A id \in 1..count :
        LET p == payment[id]  s == hist[id].start
        IN  /\ s <= p.next_execution
            /\ (p.next_execution - s) % p.interval = 0
            /\ hist[id].runs <= (p.next_execution - s) \div p.interval

(* A canceled payment is final: its record never changes again and it is   *)
(* never executed again (cancel_payment sets active := false forever).     *)
CanceledIsFinal ==
    [][\A id \in 1..count :
         ~payment[id].active =>
             /\ id \in DOMAIN payment'
             /\ payment'[id] = payment[id]
             /\ hist'[id] = hist[id]]_vars

-----------------------------------------------------------------------------
(* The refinement mapping to RecurringAbstract: the stored payments and    *)
(* the token balances, as they are; the ghost hist is not part of it.      *)
Abs == INSTANCE RecurringAbstract WITH payments <- payment, wallet <- bal

(* create, execute and cancel implement the scheduler of the spec: every   *)
(* execution pays once and lands next_execution on the schedule, after    *)
(* the execution and within one interval of it.                            *)
AbstractRecurring == Abs!Spec
=============================================================================
