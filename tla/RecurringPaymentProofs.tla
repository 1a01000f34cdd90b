----------------------- MODULE RecurringPaymentProofs -----------------------
(***************************************************************************)
(* Proofs about RecurringPayment for every value of the constants.         *)
(***************************************************************************)
EXTENDS RecurringPayment, TLAPS

(* The u64 wrap of the catch-up sum is a u64.                              *)
LEMMA CatchUpInU64 ==
    ASSUME NEW p \in PaymentRecord, NEW t \in U64
    PROVE  CatchUp(p, t) \in U64
BY U64MaxAssumption DEF CatchUp, Modulus, U64, PaymentRecord, Jump

(* A transfer keeps every balance an integer.                            *)
LEMMA TransferType ==
    ASSUME NEW b \in [Token -> [Address -> Int]], NEW t \in Token,
           NEW from \in Address, NEW to \in Address, NEW amt \in Int
    PROVE  Transfer(b, t, from, to, amt) \in [Token -> [Address -> Int]]
<1>1. [b EXCEPT ![t][from] = @ - amt] \in [Token -> [Address -> Int]]
  OBVIOUS
<1>. QED
  BY <1>1 DEF Transfer

(* Appending a value at index n + 1 of a function on 1..n.                 *)
LEMMA AppendType ==
    ASSUME NEW S, NEW n \in Nat, NEW f \in [1..n -> S], NEW x \in S
    PROVE  [i \in 1..n + 1 |-> IF i = n + 1 THEN x ELSE f[i]] \in [1..n + 1 -> S]
OBVIOUS

(* TypeOK holds initially and every call preserves it.                     *)
LEMMA TypeInit == Init => TypeOK
BY U64MaxAssumption, MaxPaymentsAssumption, InitBalanceAssumption
DEF Init, TypeOK, U64

(* Every call (and a stutter) preserves TypeOK.                            *)
LEMMA TypeStep == TypeOK /\ [Next]_vars => TypeOK'
<1> SUFFICES ASSUME TypeOK, [Next]_vars PROVE TypeOK'
  OBVIOUS
<1>1. CASE Tick
  BY <1>1, U64MaxAssumption DEF Tick, TypeOK, U64
<1>2. ASSUME NEW s \in Address, NEW r \in Address, NEW t \in Token,
             NEW a \in Amount, NEW i \in Interval, NEW st \in StartTime,
             CreatePayment(s, r, t, a, i, st)
      PROVE  TypeOK'
  <2>1. [sender |-> s, recipient |-> r, token |-> t, amount |-> a,
         interval |-> i, next_execution |-> st, active |-> TRUE] \in PaymentRecord
    BY <1>2, InputAssumption DEF CreatePayment, ValidPayment, PaymentRecord, U64
  <2>2. count' = count + 1 /\ count' \in 0..MaxPayments /\ count \in Nat
    <3>1. count' = count + 1 /\ count < MaxPayments
      BY <1>2 DEF CreatePayment
    <3>. QED
      BY <3>1, MaxPaymentsAssumption DEF TypeOK
  <2>3. payment' \in [1..count' -> PaymentRecord]
    <3>1. payment' = [j \in 1..count + 1 |->
                        IF j = count + 1
                        THEN [sender |-> s, recipient |-> r, token |-> t, amount |-> a,
                              interval |-> i, next_execution |-> st, active |-> TRUE]
                        ELSE payment[j]]
      BY <1>2 DEF CreatePayment
    <3>. QED
      BY <2>1, <2>2, <3>1, AppendType DEF TypeOK
  <2>4. hist' \in [1..count' -> [start: U64, runs: Nat, last: U64]]
    <3>1. hist' = [j \in 1..count + 1 |->
                     IF j = count + 1 THEN [start |-> st, runs |-> 0, last |-> 0]
                     ELSE hist[j]]
      BY <1>2 DEF CreatePayment
    <3>2. [start |-> st, runs |-> 0, last |-> 0] \in [start: U64, runs: Nat, last: U64]
      BY InputAssumption, U64MaxAssumption DEF U64
    <3>. QED
      BY <2>2, <3>1, <3>2, AppendType DEF TypeOK
  <2>5. now' \in U64 /\ bal' \in [Token -> [Address -> Int]]
    BY <1>2 DEF CreatePayment, TypeOK
  <2>. QED
    BY <2>2, <2>3, <2>4, <2>5 DEF TypeOK
<1>3. ASSUME NEW id \in 1..count, ExecutePayment(id)
      PROVE  TypeOK'
  <2>1. payment[id] \in PaymentRecord /\ now \in U64
    BY <1>3 DEF TypeOK
  <2>2. CatchUp(payment[id], now) \in U64
    BY <2>1, CatchUpInU64
  <2>3. payment' \in [1..count -> PaymentRecord]
    BY <1>3, <2>1, <2>2 DEF ExecutePayment, TypeOK, PaymentRecord
  <2>4. hist' \in [1..count -> [start: U64, runs: Nat, last: U64]]
    <3>1. hist' = [hist EXCEPT ![id] = [start |-> hist[id].start,
                                        runs |-> hist[id].runs + 1, last |-> now]]
      BY <1>3 DEF ExecutePayment
    <3>2. [start |-> hist[id].start, runs |-> hist[id].runs + 1, last |-> now]
            \in [start: U64, runs: Nat, last: U64]
      BY <2>1 DEF TypeOK
    <3>. QED
      BY <3>1, <3>2 DEF TypeOK
  <2>5. bal' \in [Token -> [Address -> Int]]
    <3>1. bal' = Transfer(bal, payment[id].token, payment[id].sender,
                          payment[id].recipient, payment[id].amount)
      BY <1>3 DEF ExecutePayment
    <3>2. /\ payment[id].token \in Token
          /\ payment[id].sender \in Address
          /\ payment[id].recipient \in Address
          /\ payment[id].amount \in Int
      BY <2>1 DEF PaymentRecord
    <3>. QED
      BY <3>1, <3>2, TransferType DEF TypeOK
  <2>. QED
    BY <1>3, <2>3, <2>4, <2>5 DEF ExecutePayment, TypeOK
<1>4. ASSUME NEW id \in 1..count, CancelPayment(id)
      PROVE  TypeOK'
  BY <1>4 DEF CancelPayment, TypeOK, PaymentRecord
<1>5. CASE UNCHANGED vars
  BY <1>5 DEF vars, TypeOK
<1>. QED
  BY <1>1, <1>2, <1>3, <1>4, <1>5 DEF Next

(* Type correctness: the state always has the shapes of the contract's     *)
(* storage, PaymentCount stays within its bound and every stored payment   *)
(* has a positive amount and interval and a u64 next_execution.            *)
THEOREM TypeCorrect == Spec => []TypeOK
BY TypeInit, TypeStep, PTL DEF Spec
-----------------------------------------------------------------------------
(* The arithmetic of the catch-up jump, d = current_time - next_execution: *)
(* the jump (d \div I + 1) * I is a multiple of I that lies in (d, d + I]. *)
LEMMA JumpBounds ==
    ASSUME NEW d \in Nat, NEW I \in Nat \ {0}
    PROVE  /\ d \div I \in Nat
           /\ (d \div I + 1) * I > d
           /\ (d \div I + 1) * I <= d + I
           /\ (d \div I + 1) * I \in Nat
<1>1. PICK q : q = d \div I
  OBVIOUS
<1>2. PICK r : r = d % I
  OBVIOUS
<1>3. q \in Nat /\ r \in 0..I - 1 /\ d = q * I + r
  <2>1. q \in Nat
    BY <1>1, SMT
  <2>2. r \in 0..I - 1
    BY <1>2, SMT
  <2>3. d = q * I + r
    BY <1>1, <1>2, <2>1, <2>2, SMT
  <2>. QED
    BY <2>1, <2>2, <2>3
<1>4. (q + 1) * I = q * I + I
  BY <1>3, SMT
<1>. QED
  BY <1>1, <1>3, <1>4, SMT

(* When the overflow checks pass, the wrapped sum is the exact sum.        *)
LEMMA CatchUpExact ==
    ASSUME NEW p \in PaymentRecord, NEW t \in U64, t >= p.next_execution,
           CatchUpFits(p, t)
    PROVE  CatchUp(p, t) = p.next_execution + Jump(p, t)
<1>1. Jump(p, t) \in Nat
  <2>1. t - p.next_execution \in Nat /\ p.interval \in Nat \ {0}
    BY DEF PaymentRecord, U64
  <2>2. ((t - p.next_execution) \div p.interval + 1) * p.interval \in Nat
    BY <2>1, JumpBounds
  <2>. QED
    BY <2>2 DEF Jump
<1>2. p.next_execution \in Nat
  BY DEF PaymentRecord, U64
<1>. QED
  BY <1>1, <1>2, U64MaxAssumption DEF CatchUp, CatchUpFits, Modulus

(* Products of naturals: distributivity and a lower bound.               *)
LEMMA Distrib ==
    ASSUME NEW a \in Int, NEW b \in Int, NEW c \in Int
    PROVE  (a + b) * c = a * c + b * c
BY SMT

(* A natural is at most its product with a positive natural.               *)
LEMMA MulLowerBound ==
    ASSUME NEW a \in Nat, NEW c \in Nat \ {0}
    PROVE  a <= a * c /\ a * c \in Nat
BY SMT

(* A multiple of I, as the modulo and division of OnSchedule see it.       *)
LEMMA MultipleOf ==
    ASSUME NEW m \in Nat, NEW I \in Nat \ {0}
    PROVE  (m * I) % I = 0 /\ (m * I) \div I = m
BY SMT
-----------------------------------------------------------------------------
(* The inductive strengthening of the schedule properties.  Sched: the     *)
(* stored next_execution is start_time plus m whole intervals, m at least  *)
(* the number of executions.  RunBounds: after an execution at `last`,     *)
(* next_execution is in (last, last + interval].                           *)
Sched(id) ==
    \E m \in U64 :
        /\ payment[id].next_execution = hist[id].start + m * payment[id].interval
        /\ hist[id].runs <= m

RunBounds(id) ==
    hist[id].runs > 0 =>
        /\ hist[id].last < payment[id].next_execution
        /\ payment[id].next_execution <= hist[id].last + payment[id].interval

IInv == TypeOK /\ \A id \in 1..count : Sched(id) /\ RunBounds(id)
(* IInv holds initially: there are no payments yet.                        *)
LEMMA IInvInit == Init => IInv
<1> SUFFICES ASSUME Init PROVE IInv
  OBVIOUS
<1>1. 1..count = {}
  BY SMT DEF Init
<1>. QED
  BY <1>1, TypeInit DEF IInv

(* With overflow checks on, every call preserves IInv.                     *)
LEMMA IInvStep ==
    ASSUME OverflowChecks
    PROVE  IInv /\ [Next]_vars => IInv'
<1> SUFFICES ASSUME IInv, [Next]_vars PROVE IInv'
  OBVIOUS
<1>1. TypeOK /\ TypeOK'
  BY TypeStep DEF IInv
<1> SUFFICES ASSUME NEW j \in 1..count' PROVE Sched(j)' /\ RunBounds(j)'
  BY <1>1 DEF IInv
<1>2. CASE Tick
  BY <1>2 DEF Tick, IInv, Sched, RunBounds
<1>3. ASSUME NEW s \in Address, NEW r \in Address, NEW t \in Token,
             NEW a \in Amount, NEW i \in Interval, NEW st \in StartTime,
             CreatePayment(s, r, t, a, i, st)
      PROVE  Sched(j)' /\ RunBounds(j)'
  <2>1. count' = count + 1 /\ count \in Nat
    BY <1>1, <1>3 DEF CreatePayment, TypeOK
  <2>2. CASE j \in 1..count
    <3>1. payment'[j] = payment[j] /\ hist'[j] = hist[j]
      BY <1>3, <2>1, <2>2 DEF CreatePayment
    <3>. QED
      BY <2>2, <3>1 DEF IInv, Sched, RunBounds
  <2>3. CASE j = count + 1
    <3>1. /\ payment'[j].next_execution = st
          /\ hist'[j] = [start |-> st, runs |-> 0, last |-> 0]
      BY <1>3, <2>3 DEF CreatePayment
    <3>2. payment'[j].interval \in Nat
      BY <1>1, <2>1, <2>3 DEF TypeOK, PaymentRecord, U64
    <3>3. st = st + 0 * payment'[j].interval /\ 0 <= 0 /\ 0 \in U64
      BY <3>2, InputAssumption, U64MaxAssumption, SMT DEF U64
    <3>. QED
      BY <3>1, <3>3 DEF Sched, RunBounds
  <2>. QED
    BY <2>1, <2>2, <2>3, SMT
<1>4. ASSUME NEW id \in 1..count, ExecutePayment(id)
      PROVE  Sched(j)' /\ RunBounds(j)'
  <2>1. count' = count
    BY <1>4 DEF ExecutePayment
  <2>2. CASE j # id
    <3>1. payment'[j] = payment[j] /\ hist'[j] = hist[j]
      BY <1>4, <2>1, <2>2 DEF ExecutePayment
    <3>. QED
      BY <2>1, <3>1 DEF IInv, Sched, RunBounds
  <2>3. CASE j = id
    <3> DEFINE p == payment[id]  h == hist[id]
    <3>1. p \in PaymentRecord /\ h \in [start: U64, runs: Nat, last: U64] /\ now \in U64
      BY DEF IInv, TypeOK
    <3>2. PICK m \in U64 : p.next_execution = h.start + m * p.interval /\ h.runs <= m
      BY DEF IInv, Sched
    <3>3. now >= p.next_execution /\ CatchUpFits(p, now)
      BY <1>4 DEF ExecutePayment, Executable
    <3>4. CatchUp(p, now) = p.next_execution + Jump(p, now)
      BY <3>1, <3>3, CatchUpExact
    <3>5. /\ payment'[id].next_execution = CatchUp(p, now)
          /\ payment'[id].interval = p.interval
          /\ hist'[id] = [start |-> h.start, runs |-> h.runs + 1, last |-> now]
      <4>1. payment' = [payment EXCEPT ![id].next_execution = CatchUp(p, now)]
            /\ hist' = [hist EXCEPT ![id] = [start |-> @.start, runs |-> @.runs + 1,
                                              last |-> now]]
        BY <1>4 DEF ExecutePayment
      <4>2. payment \in [1..count -> PaymentRecord]
            /\ hist \in [1..count -> [start: U64, runs: Nat, last: U64]]
        BY DEF IInv, TypeOK
      <4>. QED
        BY <4>1, <4>2, <3>1 DEF PaymentRecord
    <3>6. /\ now < p.next_execution + Jump(p, now)
          /\ p.next_execution + Jump(p, now) <= now + p.interval
          /\ \E m2 \in U64 : /\ p.next_execution + Jump(p, now) = h.start + m2 * p.interval
                             /\ m + 1 <= m2
      <4>1. /\ h.start \in Nat /\ p.interval \in Nat \ {0} /\ m \in Nat /\ now \in Nat
            /\ p.next_execution \in Nat
            /\ p.next_execution + Jump(p, now) <= U64Max
        BY <3>1, <3>3 DEF PaymentRecord, U64, CatchUpFits
      <4>2. now - p.next_execution \in Nat
        BY <3>3, <4>1, SMT
      <4>3. PICK k : k = (now - p.next_execution) \div p.interval
        OBVIOUS
      <4>4. /\ k \in Nat
            /\ (k + 1) * p.interval > now - p.next_execution
            /\ (k + 1) * p.interval <= now - p.next_execution + p.interval
        BY <4>1, <4>2, <4>3, JumpBounds
      <4>5. Jump(p, now) = (k + 1) * p.interval
        BY <4>3 DEF Jump
      <4>6. p.next_execution + Jump(p, now) = h.start + (m + k + 1) * p.interval
        <5>0. m \in Nat /\ k \in Nat /\ k + 1 \in Nat /\ p.interval \in Nat \ {0}
              /\ m \in Int /\ k + 1 \in Int /\ p.interval \in Int
          BY <4>1, <4>4, SMT
        <5>1. (m + k + 1) * p.interval = m * p.interval + (k + 1) * p.interval
          <6>1. m + k + 1 = m + (k + 1)
            BY <5>0, SMT
          <6>2. (m + (k + 1)) * p.interval = m * p.interval + (k + 1) * p.interval
            BY <5>0, Distrib, Zenon
          <6>. QED
            BY <6>1, <6>2, Zenon
        <5>2. m * p.interval \in Nat /\ (k + 1) * p.interval \in Nat
          BY <5>0, MulLowerBound, Zenon
        <5>. QED
          BY <3>2, <4>1, <4>5, <5>1, <5>2, SMT
      <4>7. m + k + 1 \in U64
        <5>0. m \in Nat /\ k \in Nat /\ m + k + 1 \in Nat /\ p.interval \in Nat \ {0}
          BY <4>1, <4>4, SMT
        <5>1. m + k + 1 <= (m + k + 1) * p.interval
          BY <5>0, MulLowerBound, Zenon
        <5>. QED
          BY <4>1, <4>6, <5>0, <5>1, U64MaxAssumption, SMT DEF U64
      <4>. QED
        BY <4>1, <4>4, <4>5, <4>6, <4>7, SMT
    <3>7. RunBounds(j)'
      BY <2>3, <3>4, <3>5, <3>6 DEF RunBounds
    <3>8. Sched(j)'
      <4>1. PICK m2 \in U64 : /\ p.next_execution + Jump(p, now) = h.start + m2 * p.interval
                              /\ m + 1 <= m2
        BY <3>6
      <4>2. h.runs + 1 <= m2
        BY <3>1, <3>2, <4>1, SMT DEF U64
      <4>. QED
        BY <2>3, <3>4, <3>5, <4>1, <4>2 DEF Sched
    <3>. QED
      BY <3>7, <3>8
  <2>. QED
    BY <2>2, <2>3
<1>5. ASSUME NEW id \in 1..count, CancelPayment(id)
      PROVE  Sched(j)' /\ RunBounds(j)'
  <2>1. /\ count' = count /\ hist' = hist
        /\ payment'[j].next_execution = payment[j].next_execution
        /\ payment'[j].interval = payment[j].interval
    BY <1>5 DEF CancelPayment, IInv, TypeOK, PaymentRecord
  <2>. QED
    BY <2>1 DEF IInv, Sched, RunBounds
<1>6. CASE UNCHANGED vars
  BY <1>6 DEF vars, IInv, Sched, RunBounds
<1>. QED
  BY <1>2, <1>3, <1>4, <1>5, <1>6 DEF Next

(* IInv gives both schedule properties: RunBounds is                       *)
(* NextIsFirstPointAfterRun, and next_execution - start_time = m * interval *)
(* with runs <= m is OnSchedule's remainder and quotient.                  *)
LEMMA IInvSchedule == IInv => NextIsFirstPointAfterRun /\ OnSchedule
<1> SUFFICES ASSUME IInv PROVE NextIsFirstPointAfterRun /\ OnSchedule
  OBVIOUS
<1>1. NextIsFirstPointAfterRun
  BY DEF IInv, RunBounds, NextIsFirstPointAfterRun
<1>2. ASSUME NEW id \in 1..count
      PROVE  LET p == payment[id]  s == hist[id].start
             IN  /\ s <= p.next_execution
                 /\ (p.next_execution - s) % p.interval = 0
                 /\ hist[id].runs <= (p.next_execution - s) \div p.interval
  <2> DEFINE p == payment[id]  s == hist[id].start
  <2>1. p \in PaymentRecord /\ hist[id] \in [start: U64, runs: Nat, last: U64]
    BY DEF IInv, TypeOK
  <2>2. PICK m \in U64 : p.next_execution = s + m * p.interval /\ hist[id].runs <= m
    BY DEF IInv, Sched
  <2>3. m \in Nat /\ p.interval \in Nat \ {0} /\ s \in Nat
    BY <2>1 DEF PaymentRecord, U64
  <2>4. p.next_execution - s = m * p.interval /\ m * p.interval \in Nat
    BY <2>2, <2>3, SMT
  <2>5. (m * p.interval) % p.interval = 0 /\ (m * p.interval) \div p.interval = m
    BY <2>3, MultipleOf
  <2>. QED
    BY <2>2, <2>3, <2>4, <2>5, SMT
<1>. QED
  BY <1>1, <1>2 DEF OnSchedule

(* With u64 overflow checks on, execute_payment's catch-up keeps every     *)
(* payment on its schedule start_time + k * interval, never pays more      *)
(* often than once per elapsed interval, and leaves next_execution in      *)
(* (last run, last run + interval]: the properties NextIsFirstPointAfterRun *)
(* and OnSchedule hold in every reachable state, for every bound.          *)
THEOREM ScheduleCorrect ==
    ASSUME OverflowChecks
    PROVE  Spec => [](NextIsFirstPointAfterRun /\ OnSchedule)
<1>1. IInv /\ [Next]_vars => IInv'
  BY IInvStep
<1>. QED
  BY <1>1, IInvInit, IInvSchedule, PTL DEF Spec
(* With overflow checks on, every execution leaves next_execution strictly *)
(* after the execution time and at most one interval after it.            *)
THEOREM NextAfterRunCorrect ==
    ASSUME OverflowChecks
    PROVE  Spec => []NextIsFirstPointAfterRun
BY ScheduleCorrect, PTL

(* With overflow checks on, every payment stays on its start_time +       *)
(* k * interval grid and is paid at most once per consumed interval.       *)
THEOREM OnScheduleCorrect ==
    ASSUME OverflowChecks
    PROVE  Spec => []OnSchedule
BY ScheduleCorrect, PTL

-----------------------------------------------------------------------------
(* The step formula of CanceledIsFinal.                                    *)
CanceledStepOK ==
    \A id \in 1..count :
        ~payment[id].active =>
            /\ id \in DOMAIN payment'
            /\ payment'[id] = payment[id]
            /\ hist'[id] = hist[id]

(* No call touches an inactive payment: create appends a new id, execute   *)
(* and cancel only act on an active one.                                   *)
LEMMA CanceledStep == TypeOK /\ [Next]_vars => CanceledStepOK
<1> SUFFICES ASSUME TypeOK, [Next]_vars,
                    NEW id \in 1..count, ~payment[id].active
             PROVE  /\ id \in DOMAIN payment'
                    /\ payment'[id] = payment[id]
                    /\ hist'[id] = hist[id]
  BY DEF CanceledStepOK
<1>1. DOMAIN payment = 1..count /\ DOMAIN hist = 1..count
  BY DEF TypeOK
<1>2. CASE UNCHANGED <<count, payment, hist>>
  BY <1>1, <1>2
<1>3. ASSUME NEW s \in Address, NEW r \in Address, NEW t \in Token, NEW a \in Amount,
             NEW i \in Interval, NEW st \in StartTime, CreatePayment(s, r, t, a, i, st)
      PROVE  /\ id \in DOMAIN payment'
             /\ payment'[id] = payment[id]
             /\ hist'[id] = hist[id]
  <2>1. count \in Nat /\ count' = count + 1
    BY <1>3 DEF CreatePayment, TypeOK
  <2>2. /\ DOMAIN payment' = 1..count + 1
        /\ payment'[id] = payment[id] /\ hist'[id] = hist[id]
    BY <1>3, <2>1 DEF CreatePayment
  <2>. QED
    BY <2>1, <2>2
<1>4. ASSUME NEW j \in 1..count, ExecutePayment(j)
      PROVE  /\ id \in DOMAIN payment'
             /\ payment'[id] = payment[id]
             /\ hist'[id] = hist[id]
  <2>1. payment[j].active
    BY <1>4 DEF ExecutePayment, Executable
  <2>2. j # id
    BY <2>1
  <2>. QED
    BY <1>1, <1>4, <2>2 DEF ExecutePayment
<1>5. ASSUME NEW j \in 1..count, CancelPayment(j)
      PROVE  /\ id \in DOMAIN payment'
             /\ payment'[id] = payment[id]
             /\ hist'[id] = hist[id]
  <2>1. j # id
    BY <1>5 DEF CancelPayment
  <2>. QED
    BY <1>1, <1>5, <2>1 DEF CancelPayment
<1>. QED
  BY <1>2, <1>3, <1>4, <1>5 DEF Next, vars, Tick

(* A canceled payment is final (the property CanceledIsFinal): once        *)
(* cancel_payment has set active to false, no call changes the record or   *)
(* executes it again, whatever the constants.                              *)
THEOREM CanceledFinalCorrect == Spec => CanceledIsFinal
<1>1. TypeOK /\ [Next]_vars => [CanceledStepOK]_vars
  BY CanceledStep
<1>. QED
  BY <1>1, TypeCorrect, PTL DEF CanceledIsFinal, CanceledStepOK, Spec
=============================================================================
