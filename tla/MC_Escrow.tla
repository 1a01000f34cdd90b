------------------------------ MODULE MC_Escrow ------------------------------
(* Model-checking instance of Escrow: two addresses, two escrow ids, one   *)
(* token, timestamps 0..3, amounts including the rejected 0.               *)
EXTENDS Escrow, TLC

CONSTANTS a1, a2, t1

MCAddress == {a1, a2}
MCToken == {t1}
MCEscrowId == {1, 2}
MCU64Max == 3
MCAmount == {0, 1, 2}
MCInitBalance == 2

(* Every address a caller can name as beneficiary, the escrow's own too.  *)
MCBeneficiaryWithSelf == MCAddress \cup {Self}

Symmetry == Permutations(MCAddress)
=============================================================================
