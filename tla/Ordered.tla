------------------------------ MODULE Ordered ------------------------------
EXTENDS Naturals, FiniteSets

\* the set of the one sequence that lists a finite set of numbers in order
Increasing(numbers) ==
    {order \in [1 .. Cardinality(numbers) -> numbers] :
        \A i, j \in DOMAIN order : i < j => order[i] < order[j]}
=============================================================================
