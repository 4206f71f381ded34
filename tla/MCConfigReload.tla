--------------------------- MODULE MCConfigReload ---------------------------
EXTENDS ConfigReload, TLC

\* Task slots are interchangeable: no definition tells one from another.
Slots == Permutations(Requests) \cup Permutations(Reloads)

=============================================================================
