------------------------- MODULE MC_FundingVerifier -------------------------
EXTENDS FundingVerifier

(* Every amount of a 2-bit Amount, with and without a fee, signed and      *)
(* unsigned transactions.                                                  *)
MCAmounts == 0..3
MCFees == {0, 1}
MCVersions == {<<2, 0>>, <<2, 1>>}
====
