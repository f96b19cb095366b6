-------------------------- MODULE MCInvestorCampaign --------------------------
(***************************************************************************)
(* Instances of InvestorCampaign for TLC: the cfgs give sets of model      *)
(* values.                                                                 *)
(***************************************************************************)
EXTENDS InvestorCampaign, TLC

CONSTANTS i1, d1, d2, v1, v2, e1, k1, k2
=============================================================================
