------------------------------ MODULE ByteBufs ------------------------------
(***************************************************************************)
(* The parts of Netty's ByteBuf that the compressors of the repository rely *)
(* on.  Netty is a dependency, not part of the repository: a buffer is      *)
(* described by the byte counts the callers read (readableBytes(),          *)
(* writableBytes(), maxWritableBytes()), never by its contents.             *)
(***************************************************************************)
EXTENDS Integers

\* Math.min
Least(a, b) == IF a <= b THEN a ELSE b

\* What writableBytes() may be after ensureWritable(min): nothing changes when
\* there is room already, else the buffer grows, as far as its maximal
\* capacity at most.
EnsureWritable(writable, maxWritable, min) ==
  IF min <= writable THEN {writable} ELSE min .. maxWritable

\* readerIndex() after capacity(newCapacity): a smaller capacity clips it.
ClippedReader(reader, newCapacity) == Least(reader, newCapacity)

=============================================================================
