------------------------- MODULE RecurringAbstract --------------------------
(***************************************************************************)
(* What the recurring-payment scheduler promises (spec 3 and 4.5), without *)
(* the catch-up arithmetic: payments get sequential ids; executing an      *)
(* active payment that is due moves its amount once from sender to         *)
(* recipient and moves its due time to a point of its interval grid that  *)
(* is strictly after now and at most one interval after now, however many *)
(* intervals were missed; cancel ends a payment for good.                  *)
(***************************************************************************)
EXTENDS Integers, Sequences

CONSTANTS Address, Token, U64Max, Amount, Interval, StartTime, InitBalance

VARIABLES
    now,       \* the ledger timestamp
    payments,  \* the payments by id: sequence of schedules
    wallet     \* wallet[t][a]: what address a holds of token t

vars == <<now, payments, wallet>>

U64 == 0..U64Max

Init ==
    /\ now = 0
    /\ payments = <<>>
    /\ wallet = [t \in Token |-> [a \in Address |-> InitBalance]]

Tick ==
    /\ now < U64Max
    /\ now' = now + 1
    /\ UNCHANGED <<payments, wallet>>

(* A positive amount every positive interval, first due at start.          *)
Create(s, r, t, a, i, st) ==
    /\ a > 0 /\ i > 0
    /\ payments' = Append(payments, [sender |-> s, recipient |-> r, token |-> t,
                                     amount |-> a, interval |-> i,
                                     next_execution |-> st, active |-> TRUE])
    /\ UNCHANGED <<now, wallet>>

(* n is the next due time of schedule p executed at t: on p's grid, after  *)
(* t, and no more than one interval after t.                               *)
NextDue(p, t, n) ==
    /\ t < n /\ n <= t + p.interval
    /\ (n - p.next_execution) % p.interval = 0

(* One transfer per execution of a due, active payment the sender can pay.*)
Pay(id) ==
    LET p == payments[id]
    IN  /\ p.active /\ now >= p.next_execution
        /\ wallet[p.token][p.sender] >= p.amount
        /\ wallet' = [wallet EXCEPT ![p.token][p.sender] = @ - p.amount,
                                    ![p.token][p.recipient] = @ + p.amount]
        /\ \E n \in U64 :
              /\ NextDue(p, now, n)
              /\ payments' = [payments EXCEPT ![id].next_execution = n]
        /\ UNCHANGED now

(* An active payment becomes inactive.                                     *)
Cancel(id) ==
    /\ payments[id].active
    /\ payments' = [payments EXCEPT ![id].active = FALSE]
    /\ UNCHANGED <<now, wallet>>

Next ==
    \/ Tick
    \/ \E s, r \in Address, t \in Token, a \in Amount, i \in Interval,
          st \in StartTime : Create(s, r, t, a, i, st)
    \/ \E id \in DOMAIN payments : Pay(id) \/ Cancel(id)

Spec == Init /\ [][Next]_vars
=============================================================================
