------------------------ MODULE MC_RecurringPayment ------------------------
(* Model-checking instance of RecurringPayment: two addresses, one token,  *)
(* a 3-bit u64 (timestamps 0..7) so that catch-up jumps overflow, and      *)
(* inputs that include the rejected amount 0 and interval 0.               *)
EXTENDS RecurringPayment, TLC

CONSTANTS a1, a2, t1

MCAddress == {a1, a2}
MCToken == {t1}
MCU64Max == 7
MCMaxPayments == 2
MCAmount == {0, 1}
MCInterval == {0, 2, 3}
MCStartTime == {1, 4}
MCInitBalance == 2

Symmetry == Permutations(MCAddress)
=============================================================================
