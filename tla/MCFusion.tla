------------------------------ MODULE MCFusion ------------------------------
(***************************************************************************)
(* TLC instance of Fusion: five candidates of a provider with two keys,    *)
(* one with a single key and one without any, asked in pairs.              *)
(***************************************************************************)
EXTENDS Fusion

MCProviderOf == <<"pooled", "pooled", "single", "single", "keyless">>
MCKeysAt == [p \in {"pooled", "single", "keyless"} |->
                CASE p = "pooled" -> 2 [] p = "single" -> 1 [] p = "keyless" -> 0]
MCCost == <<2, 1, 2, 1, 1>>
MCOrders == {<<1, 2>>, <<3, 4>>, <<5, 1>>}
=============================================================================
