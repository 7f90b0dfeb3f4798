-------------------------------- MODULE Money --------------------------------
(***************************************************************************)
(* Amounts and balances.  The entities carry BigDecimals of any scale; the *)
(* columns keep two decimals and the database rounds what it is given.     *)
(* Here an amount is a number of half minor units (half cents), so that    *)
(* the smallest amount a column cannot keep is 1 and a minor unit is 2.    *)
(***************************************************************************)
EXTENDS Integers

(* What a column keeps of an amount: half a unit is rounded up.            *)
Stored(v) == 2 * ((v + 1) \div 2)

(* What a stored balance loses when an amount is taken from it: the        *)
(* difference is rounded up, so the loss is rounded down.                  *)
Taken(a) == 2 * (a \div 2)
=============================================================================
