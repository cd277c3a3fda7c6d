------------------------------ MODULE MCResearch -----------------------------
(* Two processes of one campaign key at the same time, for one consent.     *)
EXTENDS ResearchCampaign, TLC

CONSTANTS w1, g1, k1, r1, r2

MCActions   == {w1}
MCWave      == w1 :> 0
MCGrants    == {g1}
MCGrantAsks == {[decisions |-> w1 :> "AUTHORIZE", selected |-> {w1}, excluded |-> FALSE]}
MCCampaigns == {k1}
MCRequests  == {<<w1>>}
MCResearchers == {r1, r2}
=============================================================================
