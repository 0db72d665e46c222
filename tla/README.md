# Verification of AcceleratedJava

AcceleratedJava compresses and decompresses zlib streams from Java, either with
`java.util.zip` or with zlib through JNI. This directory holds TLA+ models of its
compressors, configurations that check them with TLC, and theorems about them that
TLAPS proves. `PROJECT.json` lists every run, mutant, finding, hazard and theorem, and
maps each definition to the lines it models. Paths below are relative to
`src/main/java/net/techcable/accelerated_java/` unless they start with `src/`.

## 1. Inventory

| Component | State | Operations | Talks to |
|---|---|---|---|
| `Compressor` (`compression/Compressor.java`) | none: the contract, `State`, `Status` | `compress`, `decompress`, `getLevel`, `close`, `ByteBuffer` overloads | both compressors |
| `CompressorFactory` | none | `getInstance`: native when the library is loaded, else JDK | `NativeLibrary.loaded` |
| `ZLibJDKCompressor` | `state`, `level`, a `Deflater` or an `Inflater`; every method is synchronized on the compressor | double loop over the buffers | `java.util.zip`, Netty buffers |
| `ZLibNativeCompressor` | `level`, its own monitor | double loop over the buffers, bounce buffers for heap data | `NativeZlibStream`, Netty buffers |
| `NativeZlibStream` (`jni/ZLibNative.java`) | `state` (volatile), the communication buffer, the pointer to the `z_stream`, its monitor | `compress`, `decompress`, `close`; a factory method per direction | JNI |
| zlib glue (`src/main/c/zlib_native.c`) | the `z_stream` behind the pointer | `createStream0`, `inflate0`, `deflate0`, `free0`, `handleErrors` | zlib, the communication buffer |
| JNI base (`src/main/c/native.c`) | global class references, their table | `JNI_OnLoad`, `JNI_OnUnload`, `getNativeAddress`, `throwf`, `vasprintf` | JVM |
| `Native` (`jni/Native.java`) | the library | native address of a buffer | `NativeLibrary` |
| `NativeLibrary` (`utils/`) | a weak registry, `loaded` per library | `createLibrary`, `getLibrary`, `load` | class loader, file system |
| `SimpleFormatter` (`utils/`) | none: a pure algorithm | `format` | tests |
| `Arrays2`, `CompressionType`, `InvalidDataException` | none | | |

How they interact: a compressor is created by a factory and shared by threads.
`compress()` and `decompress()` of the native compressor hold the compressor's monitor
for the whole call and enter the stream's monitor once per native call. `close()` and
`getLevel()` take only the stream's monitor. The native call writes how much it consumed
and wrote into the communication buffer, which Java reads when it is back and which
`close()` frees.

What is hard about it, and what makes each part correct:

* **Native compressor and stream.** `close()` interleaves with a call in progress.
  Native code, and the read of the communication buffer after it, must never meet freed
  memory; the buffer is freed once; a finished or closed stream is not entered. The
  indexes of the caller's buffers must agree with what zlib moved, through bounce
  buffers, growing outputs and several turns of two nested loops; a status must mean what
  it says; every call returns and gives back what it retained.
* **JDK compressor.** The same loops and promises over a stream that reports "no
  progress" as 0 bytes, and a life cycle that the class tracks itself.
* **Stream lifetime.** Creation has several ways to fail; none of them may leave a stream
  that points to something that is no `z_stream` of its direction, and what a stream owns
  should be given back.
* **Library loading.** One library per name, loaded once, before native code is called.
* **Class cache.** Every class is there before native code throws it; references are given
  back at unload, over several loads and with loads that fail half way.
* **Formatters.** `SimpleFormatter` and `vasprintf` compute a string with exactly the
  right length for every input, or fail as documented.

The hazards in `PROJECT.json` give these at the lines where they bite.

## 2. Plan

The order in which the modules were written, the most important behaviour first:

1. `Zlib`, `ByteBufs`: the environment of both compressors.
2. `ExclusiveStream`: what a shared native stream promises; `NativeCompressor`: the
   native compressor, shown to implement it; `ZlibProofs`, `NativeCompressorProofs` about
   its memory and its monitors, `NativeStatusProofs` about its indexes and its statuses.
3. `JDKCompressor`, `JDKCompressorProofs`.
4. `NativeLibraries`, `NativeLibrariesProofs`: the registry, `load`, the factory.
5. `ClassTable`, `ExceptionMessages`, `StreamLifetime`, `StreamLifetimeProofs`: from the
   load of the native library to the last use of its streams.
6. `SimpleFormatter`, `FormatMeaningProofs`, `SimpleFormatterProofs`.

All of these are done: every safety property that a run checks is also a theorem. What is
left to TLC is liveness.

## 3. Modules

`EXTENDS` and `INSTANCE` relations:

```
Zlib   ByteBufs          ExclusiveStream
  \      /   \                 | INSTANCE (refinement mapping)
   \    /     \                |
  JDKCompressor   NativeCompressor ----- NativeCompressorProofs (also ZlibProofs, TLAPS)
    |       |            |                          |
  MCJDK     |        MCNative              NativeStatusProofs
            |
        JDKCompressorProofs (also ZlibProofs, TLAPS)

  NativeLibraries ----- NativeLibrariesProofs (also TLAPS)
       |
  MCLibraries

  ClassTable   ExceptionMessages
        \        /
      StreamLifetime ----- StreamLifetimeProofs (also TLAPS)
            |
        MCStreams

  SimpleFormatter ----- FormatMeaningProofs ----- SimpleFormatterProofs
        |               (also TLAPS, SequenceTheorems, WellFoundedInduction)
   MCFormatter
```

**`Zlib`** (external). A `z_stream` is a record: `held`, the output that consumed input
already determines and that is not yet written (pending bytes, bit buffer or window), and
`phase`. `Deflate` and `Inflate` give the set of outcomes of one call: bytes consumed and
written, return code, next stream. They state only what zlib promises its callers: output
held is not dropped, a call that leaves room in the output has consumed its input and
holds nothing, `Z_BUF_ERROR` is the answer to a call that can make no progress, a sync
flush that has completed has nothing to flush again, `Z_FINISH` ends the stream when its
output has been written, late input to a finishing stream is refused, errors stick. The
contents of the data are not modelled.

**`ByteBufs`** (external). Netty buffers as the counts that the compressors read.
`ensureWritable` leaves a buffer that has room as it is; otherwise it may grow to any
capacity from what was asked to its maximum.

**`ExclusiveStream`** (abstract). One thread at a time in native code, only while the
stream is open; closed once with nobody inside; memory freed once, after that.

**`NativeCompressor`** models `ZLibNativeCompressor`, `NativeZlibStream`, `inflate0`,
`deflate0` and `handleErrors`. `compress()` and `decompress()` are the same code up to a
few lines, so an action serves both and asks `frame[t].op` where they differ (the
readerIndex of the bounce buffer, the flush mode, the order of the tests). Variables: the
stream's `state`, the owners of the two monitors (`streamLock`, `thisLock`), the
communication buffer (`comm`, `frees`), the `z_stream` (`z`), and per thread a program
counter and a `frame` with the locals of its call. An atomic step is a stretch of code
between two points where another thread can make a difference:

| `pc` | next action | code |
|---|---|---|
| `idle`, `done` | `BeginCall`, `BeginClose`, `GetLevel` | entry, `retain()`, or the other two methods |
| `blocked` | `EnterMonitor` | `synchronized (this)`, state check, bounce buffers |
| `fill` | `PrepareInput` | top of the outer loop |
| `room` | `PrepareOutput` | top of the inner loop, `ensureWritable` |
| `enter` | `EnterStream` | `NativeZlibStream.compress`: monitor, second state check, addresses |
| `native` | `Deflate0`, `Inflate0` | the native call and `handleErrors` |
| `leave` | `LeaveStream` | indexes from the communication buffer, state, monitor |
| `drain` | `AfterNativeCall` | copy out, `needsMoreOutput`, inner loop condition |
| `settle` | `AfterInnerLoop` | input index, outer loop condition, status |
| `finished` | `ReturnFinished` | the two assertions |
| `unwind`, `exit` | `ReleaseBounces`, `ExitMonitor` | the two `finally` blocks |
| `closing`, `freeing` | `MarkClosed`, `FreeCommunication` | `NativeZlibStream.close` |

`owedIn` and `owedOut` in a frame are history: bytes zlib has moved that the indexes do
not show yet. Nothing in the code depends on them; `Accounted` is stated with them. The
frame forgets its buffers when a call is over, and the stores that a later reader cannot
see (`communicationBuf` after `close`) are left out.

**`JDKCompressor`** models `ZLibJDKCompressor`, with `java.util.zip` as three external
operators (`Answer`, `Throws`, `StreamFinished`) over `Zlib`. All methods are
synchronized on the compressor, so one monitor suffices; `close()` and `getLevel()` are
one step each. `open` says that `end()` has not been called, `finish` that `finish()` has.
`assertions`, chosen by `Init`, says whether the program runs with `-ea`.

**`NativeLibraries`** models `NativeLibrary` and `CompressorFactory.getInstance`.
`registry` is the weak concurrent map, `library` has the fields of each object, its lock
(`@Synchronized`) and, as history, how often its file was loaded for it; `linked` is what
the JVM has linked; `held` says which objects a thread refers to. `CreateLibrary` and
`PutIfAbsent` are the two steps of `createLibrary`; `CallLoad`, `EnterLoad`,
`LoadDependency`, `LoadFile`, `MarkLoaded` and `FailLoad` are `load`. `Collect` is the
garbage collector: the entry of an object that no thread refers to disappears. A new
library for the name then says it is not loaded and may be loaded again, which the JVM
answers by doing nothing: `LoadedOnce` is about one object.

**`ClassTable`** models `JNI_OnLoad`, `createConstantClass` and `JNI_OnUnload` of
`native.c`. `ConstantClasses` is the order in which `JNI_OnLoad` creates the classes;
`variable` says which of the C variables hold a reference, `table` and `tableMemory` are
`constantClasses` with what it points to, `pending` is the exception pending in
`JNI_OnLoad`. `globals` counts the references of the JVM and `lost` those that no variable
holds: history, for `GlobalsAccounted`. Each class is created in a step of its own, with
the failures of `FindClass`, `NewGlobalRef` and `realloc`. Whether the image survives
`dlclose()` is chosen by `Init`, because it decides whether variables survive. Where C
leaves undefined what follows (a NULL class, freed memory, the result of a failed
allocation), the library becomes `crashed` and nothing is modelled behind it.

**`ExceptionMessages`** models `vthrowf` and `vasprintf`, both branches, as the set of
outcomes for a message of a given length: how much text is in the result, how large its
block is, where the terminator goes. The characters are left out.

**`StreamLifetime`** composes the two: creations of streams (`CreateStream`,
`CreateStream0` with all codes of zlib, `Construct`, which asks for an address), `Close`,
the garbage collector, and loading and unloading. A creation that fails throws through the
class table, after formatting its message. `block` is the `z_stream` of a creation. No
action frees it, because no line of the program calls `free0`.

**`SimpleFormatter`** models one call of `format` as a machine that takes one step per
character or argument, so that the loops, the index `i`, the `int` in which an argument's
index is computed (`IntSpan` values, wrapping) and the length of the array are those of
the code. The format is a sequence of characters. An argument is the length of its
string, the result a sequence of pieces, characters and numbered insertions. `Documented`
is the reference definition: the meaning of a format string (pieces, and the error that
comes after them) as the comment on the class describes it, written without looking at
the array. It is read off `Meanings`, a recursive function that has the meaning of every
part of the format that goes to its end.

Each module carries, next to some definitions, the same definition with a plausible
fault (`"\* Fault: ..."`): the mutants of `PROJECT.json` put it in place of the original
and the named property must then fail. No specification uses them.

## 4. Runs

Runs that pass:

| Run | Instance | Shows |
|---|---|---|
| `native_data` | 1 thread, 3 calls, inputs of 0, 1, 3 with `BufferSize` 2, outputs full, fixed and growing, null outputs, all pairs of heap and direct, allocation failures, assertions on | `IInv`, `Accounted`, `ErrorLosesLastCall`, `IndexesInBounds`, `InsufficientMeansFull`, `NeverFlushesTwice`, `OkMeansDrained`, `StateAgreesWithZlib`, `NothingHeldAtReturn`, `CallsReturn` |
| `native_threads` | 2 threads, 3 calls in all, every interleaving of compress, decompress, close and getLevel | `IInv`, `NoUseAfterFree`, `FreedOnce`, refinement of `ExclusiveStream`, `OnlyCloseBesideCall`, `CallsReturn` under contention, no deadlock |
| `jdk_data` | 2 threads, 3 calls, sizes as above with shared outputs, null outputs, assertions on and off | `IInv`, `Accounted`, `InsufficientMeansFull`, `OkMeansDrained`, `FinishedConsumesInput`, `OkOnlyBeforeFinish`, `CallsReturnOrStall`, no deadlock |
| `libraries` | 2 threads, 3 objects, names with a dependency and one that is invalid, 5 calls | `IInv`, `LoadedMeansLinked`, `OneObjectPerName`, `LoadedOnce`, no deadlock |
| `native_glue` | 2 loads of 5 classes, 2 creations of streams, messages shorter than, as long as and longer than the first buffer, both branches of `vasprintf` and both C runtimes of Windows, images kept and dropped | `IInv`, `ClassesLive`, `GlobalsAccounted`, `PointersValid`, `CrashesExplained`, `MessageSafe`, `MessageComplete` |
| `formatter` | every word of up to 4 letters over `{`, `}`, `\`, a letter and three digits, and longer words; no arguments, one, a null, 19; both methods; assertions on and off | `IInv`, `TextAsDocumented`, `AcceptedAsDocumented`, `ErrorsAsDocumented`, `RoomSuffices`, `Terminates` |

Why the bounds are enough. The unit of the counts is abstract: what matters is whether
an input is empty, smaller or larger than `BUFFER_SIZE`, whether an output is full, has
room without growing, grows once or grows twice, and whether zlib holds back more than
one turn can write. `BufferSize = 2`, inputs up to 3, outputs up to 3 and `MaxHeld = 3`
have all of these. Three calls allow a call before, during and after a `close()`; two
threads allow one in native code and one that closes or waits. In `libraries` two threads
race for one object, the third object is the one a collection makes room for, and five
calls allow create, create, load, load and look. In `native_glue` the classes are those
that the creation of a stream may throw, with one before and one after the class of the
error that reports a refused reference; a second load meets what the first one left, in
the image or not. `TempSize` is 3 instead of 2048: only the comparison of a length with it
matters; all messages that today's callers format are shorter than 2048, so `MessageSafe`
at and above the size speaks about callers to come. In `formatter` four letters hold an
escape with an insertion and an index of two digits, which overflows an `int` of 64
values both to a negative and to a valid index; 19 arguments, of which all but one are
empty, are more than the characters there are, which is what an overrun takes. What
section 5 proves does not rest on these bounds.

Runs that are expected to fail, each the counterexample of one sentence of the
documentation, of an assertion or of a test (the quotes are in `PROJECT.json`):

| Run | What happens |
|---|---|
| `native_truncates` | a heap input longer than `BUFFER_SIZE` is finished after its first chunk |
| `native_close_race` | the assertion about `FINISHED` reads the state outside the monitor |
| `native_heap_decompress` | the second turn of the inner loop throws an `IndexOutOfBoundsException` |
| `jdk_spin` | a full output with input left loops forever |
| `jdk_finish_assertion` | a compression told to finish takes another turn of the outer loop when its output is full before its chunk is read, and fails the assertion there |
| `formatter_overrun` | an unused argument makes a valid call of `format(String, Object...)` overrun its array |

Each of these runs is about one sentence. The models show more behaviour that contradicts
a document, a comment, an assertion or a test of the repository, and has no run of its own.
The properties above do not claim it away: where one of them has a precondition, this is
what the precondition leaves out.

* **`IllegalStateException` for a stuck stream.** `handleErrors` turns `Z_BUF_ERROR` into
  an `IllegalStateException`: for an output that is full with input left, for a call
  without input when there is nothing to flush, for a decompression that repeats the inner
  loop after an output that was filled exactly, for late input. `Compressor.java:38,51,65`
  document that exception only for a stream of the other direction, a closed or a finished
  one, and `AbstractCompressorTest:50` expects `INSUFFICIENT_OUTPUT`. What the loops must not
  do is provoke it where zlib was merely done, and `NeverFlushesTwice` says that
  `compress()` does not; `ErrorLosesLastCall` says what the exception loses.
* **`close()`.** `Compressor.java:27-28` says that it frees the compressor and sets the
  state to `CLOSED`. The JDK compressor assigns no state and does not end a finished stream,
  so a later call throws a `NullPointerException` of the ended stream; the native one never
  calls `free0`, so the `z_stream` and what zlib has allocated for it stay allocated.
* **Assertions of the JDK compressor.** `assert haveFinished` (line 211) fails in a
  compression that an earlier call asked to finish and a later one completes;
  `assert !in.isReadable()` (130) fails for input behind the end of a stream.
  `OkOnlyBeforeFinish` is what callers can rely on across such calls.
* **`getLevel()`** throws an `IllegalArgumentException` on a stream for decompressing where
  `Compressor.java:22` documents an `IllegalStateException`: `State.requireStateNot` throws
  the former.
* **Null outputs.** Both compressors test the input twice or too early, so a null output is
  noticed only by `retain()`, and the reference to the input is kept; the native compressor
  has that in its model (`NothingHeldAtReturn` excepts the call), the JDK one leaves
  references out.
* **The exact fit in `vasprintf`.** "It fit in our buffer" (`native.c:154`) stands over a
  comparison that lets the message of exactly the size of the buffer through, whose last
  character `vsnprintf` has not stored. On Windows the runtime decides: with a C99
  `vsnprintf` every message that is not empty loses its last character, with the one of
  msvcrt, which mingw links, it may be stored whole and unterminated before the code
  terminates it. `MessageComplete` claims completeness for shorter messages of the first
  branch only, and nothing about the text of the others.
* **Formats without arguments.** `format(String)` gives back the format with its
  backslashes, which lines 41-42 of `SimpleFormatter` say are dropped, and answers `{}` with
  an `IllegalArgumentException` where line 34 and 121 make one expect an
  `IndexOutOfBoundsException`. `TextAsDocumented` and `ErrorsAsDocumented` are about calls with
  arguments; `AcceptedAsDocumented`, which says what is refused, is about all.
* **Formats that break off** behind a bracket, a digit or a backslash end in a
  `StringIndexOutOfBoundsException` where line 120 documents an `IllegalArgumentException`.
* **Null strings.** Line 119 documents a `NullPointerException`. A null string is noticed
  only when it is inserted, and is an `AssertionError` with `-ea`; one that is not inserted
  is not noticed. The three properties of the text have `NoNull` as a precondition, or
  speak of the two other exceptions.
* **Indexes.** A number that overflows an `int` may insert another argument, where line 121
  documents an exception (`~wrapped` in the properties).

And there is behaviour that no sentence of the repository speaks about:

* The native compressor refuses a direct input with a heap output; a stream that ends
  exactly at the end of the output is reported as `INSUFFICIENT_OUTPUT`; after an error the
  indexes miss what the failing call moved.
* The JDK compressor answers -1 for its level whatever it was created with.
* Creations that fail, in `createStream0` or in the constructor after it, leave the
  `z_stream` allocated; a load that fails leaves references (`GlobalsAccounted`);
  the results of `malloc` and `realloc` are used unchecked (`MallocFails`,
  `CreateConstantClass`).
* A direct `ByteBuffer` without an address is reported as "isn't a ByteBuffer", because
  the `IsInstanceOf` test is the wrong way round.

**Preconditions.** A reference of the caller keeps the buffers alive, and no other thread
touches a buffer during a call. Null outputs are passed in `native_data` and `jdk_data`. In
`jdk_data`, callers pass no new input after they asked to finish (`LateInput = FALSE`):
the interface does not say what late input does.

**Fairness.** `FairSpec` has `WF_vars(Work(t))` for each thread: the JVM runs a runnable
thread, and a thread that has begun a call is runnable whenever the monitor it needs is
free. Nothing obliges callers to make calls. Java monitors are not fair queues; as the
number of calls is bounded (`MaxCalls`), a thread that waits cannot be overtaken forever,
so weak fairness is enough and no more is assumed. `CallsReturnOrStall` excepts
calls while some thread loops on a full output, which `jdk_spin` is about. In `formatter`,
`WF_vars(Next)` says that the thread in `format()` keeps running. `native_glue` states no
liveness: nothing obliges anybody to load, create or close. `Rest` is the state in which
all calls have been made and returned, or the process has crashed or used up its loads; a
deadlock before it is an error in every run.

## 5. Proofs

`NativeCompressorProofs` proves, for any set of threads, any `BufferSize`, any sizes and
kinds of buffers, any `MaxCalls` and `MaxHeld`, and both values of the switches:

* `TypeCorrect`, `MemorySafe` (`NoUseAfterFree`), `NoDoubleFree` (`FreedOnce`),
  `IndexSafe` (`IndexesInBounds`), all from `SafeInvariance` (`[]SafeInv`);
* `Refinement`: the native compressor implements `ExclusiveStream`.

The assumptions are those of the modules: `NoThread` is not a thread, `BufferSize` is
positive, sizes are natural numbers and an output's room does not exceed its maximum.

Why `SafeInv` is needed. `NoUseAfterFree` is not inductive: nothing in it stops a thread from
closing while another is in native code. `Guarded` adds that a thread in native code, or
in `close()`, owns the stream's monitor, that what it checked there (`state`) is still
true, and that memory is freed only in state `CLOSED`; a thread that enters has just seen
a state other than `CLOSED`, so the memory is live, and stays so until the thread leaves.
`IndexesInBounds` is not inductive either: the indexes move by what the communication
buffer says. `CommunicationFits` bounds that by what native code was given, which follows
from `Zlib` (`ZlibProofs`: lemmas `DeflateType` and `InflateType`), and `LocalsFit` bounds
what native code was given, the chunk and the room, by the caller's buffers.

The proofs have a lemma per action; each lemma shows the conjuncts the action can disturb.
For the refinement, `EnterStream`, `LeaveStream`, the failing native call, `MarkClosed`
and `FreeCommunication` map to steps of `ExclusiveStream` and the other actions stutter.

`NativeStatusProofs` proves, from the same assumptions, `StatusInvariance` (`[]IInv`, where
`IInv` is `SafeInv` with `StatusInv`) and from it what a call may say when it returns:
`IndexesAccounted` (`Accounted`), `OnlyLastCallLost` (`ErrorLosesLastCall`),
`InsufficientIsFull`, `OkIsDrained`, `FlushesOnce` (`NeverFlushesTwice`), `StatesAgree`
(`StateAgreesWithZlib`) and `NothingIsHeld`. These properties speak of the moment a call
returns, which is many steps and two monitors away from the native call that decided it, so
none is inductive. `StatusInv` carries the decision there. It says which steps a thread
takes only as the owner of the compressor's monitor: without that another thread's call
could drain or finish the stream between two turns of a loop. For every place in the loops
it says which bytes the indexes do not show yet (`owedIn`, `owedOut`): those read from the
bounce buffer of the input, those the communication buffer speaks of before it has been
read, those in the bounce buffer of the output, and no others. It relates what the loop
tests (room left, chunk used up, `needsMoreOutput`) to what zlib holds and to whether it has
flushed or is finishing, with what `DeflateAnswers` and `InflateAnswers` of `ZlibProofs`
supply, and the stream's `state` to the `z_stream`, up to the native call that
has ended and has not been reported yet. From the same invariant follows an action
property, `CallsAreUndisturbed` (`OnlyCloseBesideCall`): while a call is inside its monitor
no step of another thread moves the stream or the counts. `IInv` is checked by TLC in `native_data`, where
the buffers vary, and in `native_threads`, where the threads do.

`NativeLibrariesProofs` proves, for any threads, objects, names, dependencies and any
number of calls, `LibrariesInvariance` (`[]IInv`) and from it `OneObject`
(`OneObjectPerName`), `OneLoad` (`LoadedOnce`) and `LinkedWhenLoaded`
(`LoadedMeansLinked`). `OneObjectPerName` is not inductive: a thread could be handed an
object while another of the same name is about to be registered. `HeldIsRegistered` says
that whatever a thread refers to is what the registry has for its name, so that a name
has only one candidate, and that an object on its way into the registry is known to one
thread. `LoadsGuarded` and `LoadsCounted` say that a thread past the test of `loaded`
owns the lock of a library that is not loaded yet, and has linked what it no longer has
to load.

`JDKCompressorProofs` proves, for any threads, buffers, sizes and number of calls and
assuming `LateInput = FALSE`, `InvariantHolds` (`[]IInv`) and from it every safety property
of `jdk_data`: `StatusIsAccounted`, `InsufficientIsFull`, `OkIsDrained`,
`FinishedIsComplete` and `OkIsBeforeFinish`. The assumption
is the precondition above: what the Deflater does with input after `finish()` depends on
data that the model does not have. The properties speak of the moment a call returns, so
none is inductive. `LocalsFit` says how the chunk, the bytes read and the index hang
together through both loops, so that the index and zlib agree when the inner loop is left.
`LocalsAgree` ties the loops to zlib: once `finish()` has been called the chunk is the last
one, and an inner loop that ends with room left has drained the stream, and ended it if it
had been told to finish. `StreamFits` says a Deflater ends only
when it was told to. `ZlibProofs` (`DeflateFacts`, `InflateFacts`) supplies what zlib
promises, and `ResultFits` holds what each result says until the call returns.

`StreamLifetimeProofs` proves, for any classes (as long as the error that reports is among
them), loads, creations, levels, message lengths and size of the first buffer,
`InvariantHolds` and from it `ClassesAreLive`, `GlobalsAreAccounted`, `PointersAreValid`,
`CrashesAreExplained`, `MessagesAreSafe` and `MessagesAreComplete`. `ClassesLive` is not inductive: a load that
completes must have created everything before, which is `LoadFits`: without a pending
exception every class before `next` is there. `GlobalsAccounted` needs `TableFits`: the
table names every variable that holds a reference, so that an unload forgets none. The
invariant splits into a part about the class table and one about the streams, each kept by
the steps of the other.

`SimpleFormatterProofs` proves, for any formats, arguments and width of an `int`:

* `SafeInvariance` (`[]SafeInv`) and from it `RoomAlwaysSuffices`. `RoomSuffices` is not
  inductive: it takes `RoomFits`, which says that the array has room for what is left of
  the format and is no shorter than the number of arguments. The second half is what makes
  the comparison with `args.length` harmless: as long as it holds, an array that is not
  replaced is long enough. It fails only in `format(String, Object...)` with more arguments
  than characters.
* `InvariantHolds` (`[]IInv`) and from it `TextIsDocumented` (`TextAsDocumented`),
  `ValidIsAccepted` (`AcceptedAsDocumented`) and `FailuresAreDocumented`
  (`ErrorsAsDocumented`): within the preconditions of section 4 a call does what the comment
  on the class says of its format. All three compare the end of a call with the meaning of the whole string, so
  the invariant has to say at every place what the rest of the string still owes:
  `MeaningFits` says that the pieces that have been built, followed by the meaning of the
  format from `i` on with `nextArg` arguments used, are the meaning of the whole. While an
  index is being read the rest begins at its bracket, and `index` is the number of the
  digits so far. When that number overflows, the `int` says nothing any more; what remains
  true is that the documentation promises an exception for this call. For that the number
  has to exceed the number of arguments: `InputsAssumption` says that an array has fewer
  elements than an `int` has nonnegative values, as in Java, and `LargeIndexFails` that
  further digits do not make the number smaller.

`FormatMeaningProofs` has what this needs of the reference definition. A recursive function
is a `CHOOSE`, of which nothing is known until a function that satisfies the equations has
been shown to exist. The lemmas `MeaningsEquation` and `NumberEquations` show it, by induction over the
length of the part that has been defined. The induction theorems of the library take an
operator as a parameter, which the provers cannot instantiate; `InductiveSet`, a statement
about a set of naturals that follows from `WFMin` and the well-foundedness of `<`, does
the same. The characters with a meaning have names (`Opening`, `Closing`, `Backslash`) that
the proofs expand only where two of them have to be told apart.

Model-checked only: liveness (`CallsReturn`, `CallsReturnOrStall`, `Terminates`). It rests
on fairness and on which actions are enabled, and `ENABLED` is beyond the prover. The
counterexamples of section 4 are TLC's as well.

## 6. Not modelled

* `free0`, `asprintf` and `findAndThrow`, which have no caller, and the branches of
  `createStream0` for a type or a level of an inflating stream that Java never passes.
* The contents of the data, checksums and the zlib formats: zlib is external, and the
  models know only counts.
* Native addresses of Netty buffers: whether a buffer has one is its kind; the address
  itself is a number on which nothing is decided, and its arithmetic does not overflow for
  memory that exists.
* The `ByteBuffer` overloads, which wrap their arguments and call the modelled methods;
  `Arrays2`, `CompressionType`, `InvalidDataException`: no state and no decision.
* The texts of exceptions, build files, tests, and the JNI headers under
  `src/includes/jni/`. These are vendored declarations of the JDK without behaviour. They
  are about 7,800 of the lines of C in the repository, against about 320 lines in its own
  two C files, so the share of all lines of C that the models cover says little; of
  `native.c` and `zlib_native.c` everything but the functions named here is modelled.
