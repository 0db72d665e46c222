--------------------------- MODULE StreamLifetime ---------------------------
(***************************************************************************)
(* From the load of the native library to the last use of its streams: the  *)
(* static methods of ZLibNative that create a NativeZlibStream, createStream0 *)
(* in src/main/c/zlib_native.c with its failures, the constructor, which    *)
(* asks for a native address, and close().                                  *)
(*                                                                          *)
(* A creation takes its steps in a thread of its own; different creations   *)
(* interleave with each other and, through the class table, with loading    *)
(* and unloading.  Every creation has a z_stream of its own that is never   *)
(* freed (free0 has no caller), so the block is a field of the creation.    *)
(***************************************************************************)
EXTENDS ClassTable, ExceptionMessages

CONSTANTS
  Streams,   \* the creations of streams
  Levels     \* the levels that callers pass to createCompressingStream()

ASSUME StreamsAssumption ==
  /\ Levels \subseteq Int
  /\ {"ILLEGAL_ARGUMENT_EXCEPTION", "RUNTIME_EXCEPTION", "CLASS_CAST_EXCEPTION"} \subseteq Classes

VARIABLES
  hasUnsafe,       \* PlatformDependent.hasUnsafe()
  directAccess,    \* GetDirectBufferAddress works in this JVM
  platform,        \* the branch of vasprintf() that is compiled
  stage,           \* how far each creation has come
  typeId, level,   \* its arguments
  block,           \* what is in the memory of its z_stream
  pointer,         \* what createStream0 has returned
  communication,   \* its communication buffer
  thrown,          \* the exception it failed with
  message          \* what vasprintf() did for the latest exception

streamVars == <<hasUnsafe, directAccess, platform, stage, typeId, level, block, pointer,
                communication, thrown, message>>

vars == <<classVars, streamVars>>

-----------------------------------------------------------------------------
Types == {"DEFLATE", "INFLATE"}

Stages == {"absent", "native", "construct", "open", "closed", "failed", "gone"}

JavaThrown == {"none", "OutOfMemoryError"}

TypeOK ==
  /\ ClassTypeOK
  /\ hasUnsafe \in BOOLEAN
  /\ directAccess \in BOOLEAN
  /\ platform \in Platforms
  /\ stage \in [Streams -> Stages]
  /\ typeId \in [Streams -> Types]
  /\ level \in [Streams -> Levels \cup {-1}]
  /\ block \in [Streams -> {"none", "raw"} \cup Types]
  /\ pointer \in [Streams -> {"none", "stream", "-1"}]
  /\ communication \in [Streams -> {"none", "live", "freed"}]
  /\ thrown \in [Streams -> Classes \cup JavaThrown]
  /\ message \in MessageOutcome

Init ==
  /\ ClassInit
  /\ hasUnsafe \in BOOLEAN
  /\ directAccess \in BOOLEAN
  /\ platform \in Platforms
  /\ stage = [s \in Streams |-> "absent"]
  /\ typeId = [s \in Streams |-> "DEFLATE"]
  /\ level = [s \in Streams |-> -1]
  /\ block = [s \in Streams |-> "none"]
  /\ pointer = [s \in Streams |-> "none"]
  /\ communication = [s \in Streams |-> "none"]
  /\ thrown = [s \in Streams |-> "none"]
  /\ message = Failure(0, -1, FALSE)   \* none yet

-----------------------------------------------------------------------------
(* createDecompressingStream() and createCompressingStream() up to the      *)
(* native call: the communication buffer is allocated.                      *)
CreateStream(s) ==
  /\ library = "loaded"
  /\ stage[s] = "absent"
  /\ \E type \in Types, l \in Levels \cup {-1} :
       /\ type = "INFLATE" => l = -1
       /\ typeId' = [typeId EXCEPT ![s] = type]
       /\ level' = [level EXCEPT ![s] = l]
  /\ \/ /\ stage' = [stage EXCEPT ![s] = "native"]
        /\ communication' = [communication EXCEPT ![s] = "live"]
        /\ UNCHANGED thrown
     \/ /\ stage' = [stage EXCEPT ![s] = "failed"]
        /\ thrown' = [thrown EXCEPT ![s] = "OutOfMemoryError"]
        /\ UNCHANGED communication
  /\ UNCHANGED <<classVars, hasUnsafe, directAccess, platform, block, pointer, message>>

-----------------------------------------------------------------------------
(* createStream0.                                                           *)

\* deflateInit() and inflateInit(), which is only asked for the level -1.
InitCodes(type, l) ==
  IF type = "DEFLATE" /\ l \notin -1 .. 9 THEN {"Z_STREAM_ERROR"}
  ELSE {"Z_OK", "Z_MEM_ERROR", "Z_VERSION_ERROR"}

\* Fault: a code that zlib does not document here is taken for a success.
SucceedsUnlessKnown(code) == code \notin {"Z_MEM_ERROR", "Z_STREAM_ERROR"}

InitSucceeds(code) == code = "Z_OK"

\* The class of the exception that a code becomes.
FailureOf(code) ==
  IF code = "Z_MEM_ERROR" THEN "OUT_OF_MEMORY_ERROR"
  ELSE IF code = "Z_STREAM_ERROR" THEN "ILLEGAL_ARGUMENT_EXCEPTION"
  ELSE "RUNTIME_EXCEPTION"

(* ThrowNew: the creation of s fails with an exception of the class, or the *)
(* JVM crashes on a class that is NULL.                                     *)
Throw(s, class) ==
  IF CanThrow(class)
  THEN /\ stage' = [stage EXCEPT ![s] = "failed"]
       /\ thrown' = [thrown EXCEPT ![s] = class]
       /\ UNCHANGED <<library, fault>>
  ELSE Crash("nullClass") /\ UNCHANGED <<stage, thrown>>

\* throwf(): the message is formatted first.
Throwf(s, class) ==
  /\ \E needed \in MessageLengths : message' \in Vasprintf(platform, needed)
  /\ \E actual \in ThrownClasses(class, message') : Throw(s, actual)

\* createStream0 when malloc() fails: its result is used unchecked.
MallocFails(s) ==
  /\ stage[s] = "native"
  /\ Crash("noMemory")
  /\ UNCHANGED <<imageStays, next, pending, variable, table, tableMemory, globals, lost,
                 loads, streamVars>>

\* createStream0: the stream is initialised, or the reason reported.
CreateStream0(s) ==
  /\ stage[s] = "native"
  /\ \E code \in InitCodes(typeId[s], level[s]) :
       /\ block' = [block EXCEPT ![s] = IF code = "Z_OK" THEN typeId[s] ELSE "raw"]
       /\ \/ /\ InitSucceeds(code)
             /\ stage' = [stage EXCEPT ![s] = "construct"]
             /\ pointer' = [pointer EXCEPT ![s] = "stream"]
             /\ UNCHANGED <<library, fault, thrown, message>>
          \/ /\ ~InitSucceeds(code)
             /\ pointer' = [pointer EXCEPT ![s] = "-1"]
             /\ \/ code = "Z_MEM_ERROR" /\ Throw(s, FailureOf(code)) /\ UNCHANGED message
                \/ code # "Z_MEM_ERROR" /\ Throwf(s, FailureOf(code))
  /\ UNCHANGED <<imageStays, next, pending, variable, table, tableMemory, globals, lost, loads,
                 hasUnsafe, directAccess, platform, typeId, level, communication>>

-----------------------------------------------------------------------------
\* Native.getNativeAddress() of a direct ByteBuffer, the communication buffer.
HasAddress == hasUnsafe \/ directAccess

(* getNativeAddress0 for a ByteBuffer that has no address: the test whether *)
(* it is a ByteBuffer is the wrong way round, and it is said not to be one. *)
NoDirectAccess(s) == Throw(s, "CLASS_CAST_EXCEPTION")

\* The constructor of NativeZlibStream.
Construct(s) ==
  /\ stage[s] = "construct"
  /\ \/ /\ HasAddress
        /\ stage' = [stage EXCEPT ![s] = "open"]
        /\ UNCHANGED <<library, fault, thrown>>
     \/ /\ ~HasAddress
        /\ NoDirectAccess(s)
  /\ UNCHANGED <<imageStays, next, pending, variable, table, tableMemory, globals, lost, loads,
                 hasUnsafe, directAccess, platform, typeId, level, block, pointer,
                 communication, message>>

\* NativeZlibStream.close()
Close(s) ==
  /\ library = "loaded"
  /\ stage[s] = "open"
  /\ stage' = [stage EXCEPT ![s] = "closed"]
  /\ communication' = [communication EXCEPT ![s] = "freed"]
  /\ UNCHANGED <<classVars, hasUnsafe, directAccess, platform, typeId, level, block, pointer,
                 thrown, message>>

(* The garbage collector takes what a creation has left: the stream, and    *)
(* the communication buffer with its memory.  Nothing frees the z_stream.   *)
Collect(s) ==
  /\ library = "loaded"
  /\ stage[s] \in {"open", "closed", "failed"}
  /\ stage' = [stage EXCEPT ![s] = "gone"]
  /\ communication' = [communication EXCEPT ![s] = IF @ = "live" THEN "freed" ELSE @]
  /\ UNCHANGED <<classVars, hasUnsafe, directAccess, platform, typeId, level, block, pointer,
                 thrown, message>>

(* The JVM unloads a library with its class loader, when nothing refers to  *)
(* one of its classes any more.                                             *)
Unloadable == \A s \in Streams : stage[s] \in {"absent", "gone"}

UnloadLibrary == Unloadable /\ Unload /\ UNCHANGED streamVars

StreamStep(s) ==
  \/ CreateStream(s) \/ MallocFails(s) \/ CreateStream0(s) \/ Construct(s)
  \/ Close(s) \/ Collect(s)

\* Native code has no more to do: the process has crashed, or has used up the
\* loads and the streams of the instance.
Rest ==
  /\ \/ library = "crashed"
     \/ loads = MaxLoads /\ library = "unloaded"
  /\ UNCHANGED vars

Next ==
  \/ ClassStep /\ UNCHANGED streamVars
  \/ UnloadLibrary
  \/ library = "loaded" /\ \E s \in Streams : StreamStep(s)
  \/ Rest

Spec == Init /\ [][Next]_vars

-----------------------------------------------------------------------------
(* Properties.                                                              *)

(* Every NativeZlibStream points to a z_stream that was initialised for its *)
(* direction: the -1 of a failed creation never becomes a stream.           *)
PointersValid ==
  \A s \in Streams :
    stage[s] \in {"construct", "open", "closed"} =>
      pointer[s] = "stream" /\ block[s] = typeId[s]

(* A NULL class crashes the JVM only while the library loads, before the    *)
(* class of the error that is to be reported has been created; the freed    *)
(* table is only used where dlclose() keeps images.                         *)
CrashesExplained ==
  /\ fault = "nullClass" =>
       next <= Len(ConstantClasses) /\ "OUT_OF_MEMORY_ERROR" \notin variable
  /\ fault = "freedTable" => imageStays

(* vasprintf() stores its text and the terminator inside its block, however *)
(* the length of the message compares with the size of the first buffer.    *)
MessageSafe == BufferFits(message)

(* Where the C99 branch is compiled, the exceptions of createStream0 carry  *)
(* every character of a message that is shorter than the first buffer.      *)
MessageComplete == MessageIntact(platform, message)

-----------------------------------------------------------------------------
(* The inductive invariant.                                                 *)

(* JNI_OnUnload finds every variable that holds a reference in the table,   *)
(* and the table is only freed memory where the image has been kept.        *)
TableFits ==
  /\ library # "crashed" => variable \subseteq Released
  /\ tableMemory = "freed" => imageStays

(* What has been created so far; a load that has reported no failure has    *)
(* created everything.                                                      *)
LoadFits ==
  /\ library = "loading" /\ ~pending =>
       \A i \in DOMAIN ConstantClasses : i < next => ConstantClasses[i] \in variable
  /\ library = "loaded" => variable = Classes
  /\ library = "crashed" <=> fault # "none"

IInv ==
  /\ TypeOK
  /\ TableFits
  /\ LoadFits
  /\ GlobalsAccounted
  /\ PointersValid
  /\ CrashesExplained
  /\ MessageSafe
  /\ MessageComplete

=============================================================================
