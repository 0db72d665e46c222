-------------------------------- MODULE MCJDK --------------------------------
(* Finite instances of JDKCompressor for TLC.                               *)
EXTENDS JDKCompressor

\* An output that cannot grow, and one that grows once or twice.
SharedOutputs == {<<1, 1>>, <<0, 3>>}

\* Outputs that cannot grow.
FixedOutputs == {<<1, 1>>, <<2, 2>>}

=============================================================================
