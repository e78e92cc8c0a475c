----------------------------- MODULE MCComputed -----------------------------
\* Two plain stores and three computed ones; diamonds, chains and cycles.
EXTENDS Computed

MCLeaves == {1, 2}
MCComputeds == {11, 12, 13}
MCAutoDispose == {11, 12}
MCValues == {0, 1}
\* Parities: different inputs give one output.
MCOutput(c, inputs) == Cardinality({d \in DOMAIN inputs : inputs[d] = 1}) % 2
MCDefinitions == {{1}, {11}, {1, 11}, {2, 12}, {11, 12}}
=============================================================================
