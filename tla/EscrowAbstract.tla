--------------------------- MODULE EscrowAbstract ---------------------------
(***************************************************************************)
(* What the escrow promises (spec 3 and 4.4), without the custody account, *)
(* the Config, the token contracts or the events: each (depositor, id) is  *)
(* either free or holds one escrow; locking takes the amount out of the    *)
(* depositor's wallet, releasing, at or after the unlock time, puts it     *)
(* into the beneficiary's wallet.  Nothing else moves money.               *)
(***************************************************************************)
EXTENDS Integers

CONSTANTS Address, EscrowId, U64Max, InitBalance

VARIABLES
    now,      \* the ledger timestamp
    escrows,  \* the held escrows: (depositor, id) -> [beneficiary, amount, unlock_ts]
    wallet    \* wallet[a]: what address a holds outside the escrow

vars == <<now, escrows, wallet>>

Held == [beneficiary: Address, amount: Nat \ {0}, unlock_ts: 0..U64Max]

Init ==
    /\ now = 0
    /\ escrows = [k \in {} |-> 0]
    /\ wallet = [a \in Address |-> InitBalance]

Tick ==
    /\ now < U64Max
    /\ now' = now + 1
    /\ UNCHANGED <<escrows, wallet>>

(* A free key takes a positive amount the depositor has, until a future    *)
(* time.                                                                   *)
Lock(d, b, amount, u, id) ==
    /\ <<d, id>> \notin DOMAIN escrows
    /\ amount > 0 /\ u > now
    /\ wallet[d] >= amount
    /\ escrows' = [x \in DOMAIN escrows \cup {<<d, id>>} |->
                     IF x = <<d, id>>
                     THEN [beneficiary |-> b, amount |-> amount, unlock_ts |-> u]
                     ELSE escrows[x]]
    /\ wallet' = [wallet EXCEPT ![d] = @ - amount]
    /\ UNCHANGED now

(* A due escrow frees its key and pays its beneficiary its amount.         *)
Release(d, id) ==
    LET k == <<d, id>>
    IN  /\ k \in DOMAIN escrows
        /\ now >= escrows[k].unlock_ts
        /\ escrows' = [x \in DOMAIN escrows \ {k} |-> escrows[x]]
        /\ wallet' = [wallet EXCEPT ![escrows[k].beneficiary] = @ + escrows[k].amount]
        /\ UNCHANGED now

Next ==
    \/ Tick
    \/ \E d, b \in Address, u \in 0..U64Max, id \in EscrowId :
          \E a \in 1..wallet[d] : Lock(d, b, a, u, id)
    \/ \E d \in Address, id \in EscrowId : Release(d, id)

Spec == Init /\ [][Next]_vars
=============================================================================
