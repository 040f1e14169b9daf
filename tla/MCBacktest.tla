----------------------------- MODULE MCBacktest -----------------------------
(***************************************************************************)
(* A TLC instance of the back-test: the opens are those that matter, at    *)
(* the limits and between, around closes of 1000.                          *)
(***************************************************************************)
EXTENDS BacktestReport, TLC

MCBars ==
    1 :> {[o |-> 1000, c |-> 1000], [o |-> 1100, c |-> 1000], [o |-> 900, c |-> 1000]}
    @@ 2 :> {[o |-> 1000, c |-> 1000]}

\* The settled cash of an instance is only sure to stay when its sales pay.
ASSUME InstanceAssumption == SalesPay

=============================================================================
