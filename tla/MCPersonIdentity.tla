-------------------------- MODULE MCPersonIdentity --------------------------
EXTENDS PersonIdentity, TLC

\* Persons, values and clients are interchangeable.
Symmetry == Permutations(People) \cup Permutations(Identifiers) \cup Permutations(Clients)
=============================================================================
