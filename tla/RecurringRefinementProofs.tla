--------------------- MODULE RecurringRefinementProofs ----------------------
(***************************************************************************)
(* RecurringPayment implements RecurringAbstract when u64 overflow panics: *)
(* the initial state is the abstract one, and every call is the abstract  *)
(* step of the same name, or (Tick) the clock step.  The one step that     *)
(* needs an argument is execute_payment: its wrapped catch-up sum is the   *)
(* exact sum, which is a due time NextDue allows.                          *)
(***************************************************************************)
EXTENDS RecurringPaymentProofs, SequenceTheorems

(* The catch-up of execute_payment, when its overflow checks pass, lands   *)
(* on the payment's grid, after the execution time, within one interval.  *)
LEMMA CatchUpNextDue ==
    ASSUME NEW p \in PaymentRecord, NEW t \in U64, t >= p.next_execution,
           CatchUpFits(p, t)
    PROVE  /\ CatchUp(p, t) \in U64
           /\ Abs!NextDue(p, t, CatchUp(p, t))
<1> DEFINE I == p.interval
           d == t - p.next_execution
<1>1. CatchUp(p, t) = p.next_execution + Jump(p, t) /\ CatchUp(p, t) \in U64
  BY CatchUpExact, CatchUpInU64
<1>2. d \in Nat /\ I \in Nat \ {0} /\ p.next_execution \in Nat /\ t \in Nat
  BY DEF PaymentRecord, U64
<1>3. PICK k : k = d \div I
  OBVIOUS
<1>4. /\ k \in Nat
      /\ (k + 1) * I > d
      /\ (k + 1) * I <= d + I
  BY <1>2, <1>3, JumpBounds
<1>5. Jump(p, t) = (k + 1) * I
  BY <1>3 DEF Jump
<1>6. ((k + 1) * I) % I = 0 /\ (k + 1) * I \in Nat
  <2>1. k + 1 \in Nat
    BY <1>4
  <2>. QED
    BY <1>2, <2>1, MultipleOf, MulLowerBound
<1>. QED
  BY <1>1, <1>2, <1>4, <1>5, <1>6 DEF Abs!NextDue
(* create_payment's write of Payment(count + 1) on 1..count is an append.  *)
LEMMA ExtendIsAppend ==
    ASSUME NEW S, NEW n \in Nat, NEW f \in [1..n -> S], NEW x \in S
    PROVE  [i \in 1..n + 1 |-> IF i = n + 1 THEN x ELSE f[i]] = Append(f, x)
<1>1. f \in Seq(S) /\ Len(f) = n
  BY LenProperties
<1>2. /\ Append(f, x) \in Seq(S)
      /\ Len(Append(f, x)) = n + 1
      /\ \A i \in 1..n : Append(f, x)[i] = f[i]
      /\ Append(f, x)[n + 1] = x
  BY <1>1, AppendProperties
<1> DEFINE g == [i \in 1..n + 1 |-> IF i = n + 1 THEN x ELSE f[i]]
<1>3. g \in Seq(S) /\ Len(g) = n + 1
  <2>1. g \in [1..n + 1 -> S]
    OBVIOUS
  <2>. QED
    BY <2>1, LenProperties
<1>4. \A i \in 1..Len(g) : g[i] = Append(f, x)[i]
  BY <1>2, <1>3
<1>. QED
  BY <1>2, <1>3, <1>4, SeqEqual
(* The initial state of the contract is the abstract initial state.        *)
LEMMA RefineInit == Init => Abs!Init
BY DEF Init, Abs!Init

(* create_payment is the abstract Create of the same arguments.            *)
LEMMA RefineCreate ==
    ASSUME TypeOK,
           NEW s \in Address, NEW r \in Address, NEW t \in Token,
           NEW a \in Amount, NEW i \in Interval, NEW st \in StartTime,
           CreatePayment(s, r, t, a, i, st)
    PROVE  Abs!Create(s, r, t, a, i, st)
<1> DEFINE rec == [sender |-> s, recipient |-> r, token |-> t, amount |-> a,
                   interval |-> i, next_execution |-> st, active |-> TRUE]
<1>1. a > 0 /\ i > 0
  BY InputAssumption DEF CreatePayment, ValidPayment
<1>2. payment' = [j \in 1..count + 1 |-> IF j = count + 1 THEN rec ELSE payment[j]]
  BY DEF CreatePayment
<1>3. count \in Nat /\ payment \in [1..count -> PaymentRecord \cup {rec}]
  BY MaxPaymentsAssumption DEF TypeOK
<1>4. payment' = Append(payment, rec)
  BY <1>2, <1>3, ExtendIsAppend
<1>. QED
  BY <1>1, <1>4 DEF CreatePayment, Abs!Create

(* execute_payment, with its overflow checks, is the abstract Pay: the      *)
(* same transfer, and the catch-up due time is one NextDue allows.         *)
LEMMA RefineExecute ==
    ASSUME OverflowChecks, TypeOK, NEW id \in 1..count, ExecutePayment(id)
    PROVE  Abs!Pay(id)
<1> DEFINE p == payment[id]
<1>1. p \in PaymentRecord /\ now \in U64
  BY DEF TypeOK
<1>2. Executable(p, now) /\ CanTransfer(bal, p.token, p.sender, p.amount)
      /\ CatchUpFits(p, now)
  BY DEF ExecutePayment
<1>3. /\ CatchUp(p, now) \in U64
      /\ Abs!NextDue(p, now, CatchUp(p, now))
  BY <1>1, <1>2, CatchUpNextDue DEF Executable
<1>4. payment' = [payment EXCEPT ![id].next_execution = CatchUp(p, now)]
  BY DEF ExecutePayment
<1>5. \E n \in U64 :
         /\ Abs!NextDue(payment[id], now, n)
         /\ payment' = [payment EXCEPT ![id].next_execution = n]
  BY <1>3, <1>4
<1>6. bal' = [bal EXCEPT ![p.token][p.sender] = @ - p.amount,
                         ![p.token][p.recipient] = @ + p.amount]
  BY DEF ExecutePayment, Transfer
<1>. QED
  BY <1>2, <1>5, <1>6 DEF ExecutePayment, Executable, CanTransfer, Abs!Pay, Abs!U64, U64

(* Every step of the contract, with overflow checks, is a step of the     *)
(* abstract scheduler or leaves its variables unchanged.                   *)
LEMMA RefineStep ==
    ASSUME OverflowChecks
    PROVE  TypeOK /\ [Next]_vars => [Abs!Next]_Abs!vars
<1> SUFFICES ASSUME TypeOK, [Next]_vars PROVE [Abs!Next]_Abs!vars
  OBVIOUS
<1>1. DOMAIN payment = 1..count
  BY DEF TypeOK
<1>2. CASE Tick
  BY <1>2 DEF Tick, Abs!Next, Abs!Tick
<1>3. ASSUME NEW s \in Address, NEW r \in Address, NEW t \in Token,
             NEW a \in Amount, NEW i \in Interval, NEW st \in StartTime,
             CreatePayment(s, r, t, a, i, st)
      PROVE  [Abs!Next]_Abs!vars
  BY <1>3, RefineCreate DEF Abs!Next
<1>4. ASSUME NEW id \in 1..count, ExecutePayment(id)
      PROVE  [Abs!Next]_Abs!vars
  BY <1>1, <1>4, RefineExecute DEF Abs!Next
<1>5. ASSUME NEW id \in 1..count, CancelPayment(id)
      PROVE  [Abs!Next]_Abs!vars
  BY <1>1, <1>5 DEF CancelPayment, Abs!Next, Abs!Cancel
<1>6. CASE UNCHANGED vars
  BY <1>6 DEF vars, Abs!vars
<1>. QED
  BY <1>2, <1>3, <1>4, <1>5, <1>6 DEF Next

(* With overflow checks on, the contract implements the abstract          *)
(* scheduler: create, execute and cancel are its Create, Pay and Cancel,   *)
(* so every execution pays once and puts next_execution on the grid, past *)
(* the execution time and within one interval of it.                       *)
THEOREM RecurringRefinement ==
    ASSUME OverflowChecks
    PROVE  Spec => AbstractRecurring
<1>1. Init => Abs!Init
  BY RefineInit
<1>2. TypeOK /\ [Next]_vars => [Abs!Next]_Abs!vars
  BY RefineStep
<1>. QED
  BY <1>1, <1>2, TypeInit, TypeStep, PTL DEF Spec, AbstractRecurring, Abs!Spec
=============================================================================
