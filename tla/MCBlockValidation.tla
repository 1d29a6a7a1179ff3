-------------------------- MODULE MCBlockValidation --------------------------
EXTENDS BlockValidation, TLC

CONSTANTS m3, m5, m6

BuyerSymmetry == Permutations({m5, m6})

AllKeys == {[n \in Module |-> Module]}
OwnKeys == {[n \in Module |-> {n}]}
Terms(durations) == {[duration |-> d, signature |-> d] : d \in durations}
OnePhase == Terms({5})
TwoPhases == Terms({10})
AnyTerms == Terms({5, 10})
TornTerms == [duration : {5, 10}, signature : {5, 10}]
=============================================================================
