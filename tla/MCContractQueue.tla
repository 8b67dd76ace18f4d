-------------------------- MODULE MCContractQueue --------------------------
(* Instances of one consumer role over the kinds of contract it receives.  *)
EXTENDS ContractQueue

\* 1: consume, answered one way or the other (an admission request);
\* 2: an owned transition with a follow-up that may also be refused;
\* 3: consume, no follow-up, of the next release's version
PairMessages    == 1..3
PairConsumed    == {1, 3}
PairEmitting    == {1, 2}
PairAnswered    == {1, 2}
PairMalformed   == {}
PairConditional == {2}
PairNewer       == {3}
=============================================================================
