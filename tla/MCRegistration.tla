--------------------------- MODULE MCRegistration ---------------------------
(* Registration on small instances.                                        *)
EXTENDS Registration, TLC

\* Threads are interchangeable in every safety property.
Symmetry == Permutations(Clients) \cup Permutations(Dispatchers)

=============================================================================
