----------------------------- MODULE MCRiskGate -----------------------------
(***************************************************************************)
(* A TLC instance of the market data and of the light that reads it.       *)
(***************************************************************************)
EXTENDS RiskGate, TLC

CONSTANTS c1, c2

MCCallers == {c1, c2}

MCSourcesOf == "TAIEX" :> <<"finmind", "twstock">> @@ "chip" :> <<"finmind">>

MCConditions == <<"taiex_below_ma60", "taifex_foreign_short_streak">>

MCSeriesFor == "taiex_below_ma60" :> "TAIEX" @@ "taifex_foreign_short_streak" :> "futures"

MCSymmetry == Permutations(Callers)

=============================================================================
