------------------------------ MODULE MCStreams ------------------------------
(* Finite instances of StreamLifetime for TLC.                              *)
EXTENDS StreamLifetime, TLC

\* The classes that the creation of a stream may need, in the order in which
\* JNI_OnLoad creates them.
CreationClasses ==
  <<"BYTE_BUFFER_CLASS", "CLASS_CAST_EXCEPTION", "ILLEGAL_ARGUMENT_EXCEPTION",
    "OUT_OF_MEMORY_ERROR", "RUNTIME_EXCEPTION">>

\* A level that zlib refuses, beside the default level.
SomeLevels == {10}

\* Messages shorter than the first buffer, as long, and longer.
MessagesAround == {TempSize - 1, TempSize, TempSize + 1}

StreamSymmetry == Permutations(Streams)

=============================================================================
