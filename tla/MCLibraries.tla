---------------------------- MODULE MCLibraries -----------------------------
(* Finite instances of NativeLibraries for TLC.                             *)
EXTENDS NativeLibraries, TLC

CONSTANTS acceleratedJava, z, invalid

\* A library and what it depends on, and a name that is refused.
SomeNames == {acceleratedJava, z, invalid}

SomeValidNames == {acceleratedJava, z}

SomeDependencySets == {{}, {z}}

IdentitySymmetry == Permutations(Threads) \cup Permutations(Objects)

=============================================================================
