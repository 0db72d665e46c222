------------------------------ MODULE MCNative ------------------------------
(* Finite instances of NativeCompressor for TLC.                            *)
EXTENDS NativeCompressor, TLC

\* Outputs that are full, that cannot grow, and that grow once or twice.
RichOutputs == {<<0, 0>>, <<1, 1>>, <<0, 2>>, <<0, 3>>, <<3, 3>>}

\* Outputs that cannot grow.
FixedOutputs == {<<1, 1>>, <<2, 2>>}

SmallOutputs == {<<0, 1>>, <<0, 3>>}

\* One output, that grows.
GrowingOutput == {<<0, 2>>}

=============================================================================
