------------------------------- MODULE MCStudio -------------------------------
EXTENDS StudioProperties, TLC

Symmetry == Permutations(Scenes) \cup Permutations(Prompts) \cup Permutations(Requests)
=============================================================================
