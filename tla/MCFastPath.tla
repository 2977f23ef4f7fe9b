----------------------------- MODULE MCFastPath -----------------------------
EXTENDS FastPath

Twins == Permutations(Signals)

MCRules == {[blocked |-> {}, dexes |-> {"dedust"}], [blocked |-> {}, dexes |-> Dexes],
            [blocked |-> {CHOOSE t \in Tokens : TRUE}, dexes |-> {"dedust"}]}
=============================================================================
