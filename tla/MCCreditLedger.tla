---------------------------- MODULE MCCreditLedger ----------------------------
(***************************************************************************)
(* Instances of CreditLedger for TLC.  Three requests compete for two        *)
(* properties; one payment of two credits is both refunded and disputed,   *)
(* and a second one buys a single credit.                                  *)
(***************************************************************************)
EXTENDS CreditLedger, TLC

CONSTANTS r1, r2, r3, p1, p2, grant, buyA, buyB, refundA, disputeA, payA, payB

MCPaymentOf == buyA :> payA @@ buyB :> payB @@ refundA :> payA @@ disputeA :> payA
MCQuantity  == payA :> 2 @@ payB :> 1
=============================================================================
