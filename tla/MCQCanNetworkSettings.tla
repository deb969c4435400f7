------------------------ MODULE MCQCanNetworkSettings -------------------------
(* An interface without error frames.                                      *)
EXTENDS QCanNetworkSettings, TLC
CONSTANT i1
MCSupport == (i1 :> {"fd", "listen"})
MCRates == {<<2, 1>>}
MCData == {NONE, 1}
===============================================================================
