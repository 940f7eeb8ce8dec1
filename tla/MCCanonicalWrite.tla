-------------------------- MODULE MCCanonicalWrite --------------------------
(***************************************************************************)
(* Constant values for CanonicalWrite: a catalogue chunk and event chunks  *)
(* that touch the same natural keys, in opposite file order, with          *)
(* out-of-order and equal event times.                                     *)
(***************************************************************************)
EXTENDS CanonicalWrite, TLC

CONSTANTS c1, c2, cat, sale, corr, change, price, qty

R(sku, ts, key, cols) ==
    [sku |-> sku, ts |-> ts, key |-> key, cols |-> cols @@ [x \in Columns |-> None]]

\* The catalogue is received at 2; the sales file has rows after and at that
\* time, two of them equal, and an older one in a second batch.
MCRows ==
    (cat :> <<R(2, 2, 90, price :> 1), R(1, 2, 91, price :> 1)>>)
    @@ (sale :> <<R(1, 3, 1, price :> 2), R(2, 2, 2, price :> 2),
                  R(1, 3, 3, price :> 3), R(2, 1, 4, price :> 3)>>)

\* One key onboarded at 1, sold at 2.
MCRowsOnboard == (cat :> <<R(1, 1, 90, price :> 1)>>)
                 @@ (sale :> <<R(1, 2, 1, price :> 2)>>)

\* One key sold at 1, onboarded by a catalogue uploaded at 2.
MCRowsLate == (cat :> <<R(1, 2, 90, price :> 1)>>)
              @@ (sale :> <<R(1, 1, 1, price :> 2)>>)

\* Two files with an event each, and a third that corrects both.
MCRowsPrior == (cat :> <<R(1, 0, 90, price :> 1)>>)
               @@ (sale :> <<R(1, 1, 1, price :> 2)>>)
               @@ (corr :> <<R(1, 2, 2, price :> 3)>>)
               @@ (change :> <<R(1, 3, 1, price :> 4), R(1, 4, 2, price :> 5)>>)

\* A change file whose older rows are out of order among themselves.
MCRowsColumns == (cat :> <<R(1, 0, 90, price :> 1)>>)
                 @@ (change :> <<R(1, 3, 1, price :> 2), R(1, 1, 2, qty :> 7),
                                 R(1, 2, 3, qty :> 8)>>)

MCSymmetry == Permutations(Consumers)
=============================================================================
