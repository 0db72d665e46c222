-------------------------- MODULE NativeCompressor --------------------------
(***************************************************************************)
(* One ZLibNativeCompressor, the NativeZlibStream and the z_stream under    *)
(* it, and the threads that call it.                                        *)
(*                                                                          *)
(* compress() and decompress() run under the compressor's own monitor and   *)
(* enter the monitor of the NativeZlibStream once for every native call;    *)
(* close() and getLevel() take only the stream's monitor, so they run       *)
(* between two native calls of a compress() that is in progress.  The       *)
(* native call reports what it moved through the communication buffer,      *)
(* which is read back after it and which close() frees.                     *)
(*                                                                          *)
(* compress() and decompress() are the same loop over the buffers; an       *)
(* action reads the name of the method from its thread's frame where they   *)
(* differ.                                                                  *)
(***************************************************************************)
EXTENDS Integers, Zlib, ByteBufs

CONSTANTS
  Threads,             \* the threads that share the compressor
  NoThread,            \* the owner of a monitor nobody is in
  Modes,               \* the states the factory may create the stream in
  BufferSize,          \* BUFFER_SIZE, in the unit of the counts below
  InKinds,             \* "heap", "direct": kinds of input buffers
  OutKinds,            \* "heap", "direct", "null": kinds of output buffers
  InSizes,             \* readableBytes() of the inputs the callers pass
  OutSizes,            \* <<writableBytes(), maxWritableBytes()>> of the outputs
  MaxCalls,            \* bound on the calls made altogether
  AllocationMayFail,   \* whether directBuffer() may throw
  AssertionsEnabled    \* java -ea

ASSUME ThreadsAssumption == NoThread \notin Threads

ASSUME BuffersAssumption ==
  /\ BufferSize \in Nat \ {0}
  /\ Modes \subseteq {"COMPRESSING", "DECOMPRESSING"}
  /\ InKinds \subseteq {"heap", "direct"}
  /\ OutKinds \subseteq {"heap", "direct", "null"}
  /\ InSizes \subseteq Nat
  /\ OutSizes \subseteq {s \in Nat \X Nat : s[1] <= s[2]}

ASSUME BoundsAssumption ==
  /\ MaxCalls \in Nat
  /\ AllocationMayFail \in BOOLEAN
  /\ AssertionsEnabled \in BOOLEAN

VARIABLES
  state,       \* NativeZlibStream.state
  streamLock,  \* owner of the monitor of the NativeZlibStream
  thisLock,    \* owner of the monitor of the ZLibNativeCompressor
  comm,        \* what the communication buffer says
  frees,       \* how often the communication buffer has been freed
  z,           \* the z_stream
  pc,          \* where each thread is
  frame,       \* the local variables and the buffers of each thread's call
  calls        \* how many calls have been started

vars == <<state, streamLock, thisLock, comm, frees, z, pc, frame, calls>>

-----------------------------------------------------------------------------
State == {"COMPRESSING", "DECOMPRESSING", "FINISHED", "CLOSED"}

Status == {"OK", "INSUFFICIENT_OUTPUT", "FINISHED"}

Thrown == {"IllegalState", "IllegalArgument", "InvalidData", "Runtime", "OutOfMemory",
           "NullPointer", "IndexOutOfBounds", "AllocationFailed", "AssertionError"}

Results == Status \cup Thrown \cup {"none", "closed", "level"}

Places == {"idle", "blocked", "fill", "room", "enter", "native", "leave", "drain",
           "settle", "finished", "unwind", "exit", "closing", "freeing", "done"}

(* The frame of a call:                                                     *)
(*   op, finish, inKind, outKind     the method and its arguments           *)
(*   readable                        in.readableBytes()                     *)
(*   writable, maxWritable           those of out                           *)
(*   chunk, chunkRead                bytes left in inNativeBuf and read     *)
(*                                   from it since it was filled            *)
(*   reader                          outNativeBuf.readerIndex()             *)
(*   nativeLength, written, status, needsMoreOutput  the local variables    *)
(*   retained, bounces               references and bounce buffers held     *)
(*   result                          what the call returned or threw        *)
(* and, to compare the buffers with the stream, owedIn and owedOut: bytes   *)
(* the z_stream has moved in this call that in.readerIndex() and            *)
(* out.writerIndex() do not show yet.                                       *)

Frame ==
  [op: {"none", "compress", "decompress", "close", "getLevel"}, finish: BOOLEAN,
   inKind: {"heap", "direct"}, outKind: {"heap", "direct", "null"},
   readable: Int, writable: Int, maxWritable: Int,
   chunk: Int, chunkRead: Int, reader: Int,
   nativeLength: Int, written: Int, status: {"OK", "FINISHED"},
   needsMoreOutput: BOOLEAN,
   retained: SUBSET {"in", "out"}, bounces: SUBSET {"in", "out"},
   result: Results, owedIn: Int, owedOut: Int]

NewFrame(op) ==
  [op |-> op, finish |-> FALSE, inKind |-> "heap", outKind |-> "heap",
   readable |-> 0, writable |-> 0, maxWritable |-> 0,
   chunk |-> 0, chunkRead |-> 0, reader |-> 0,
   nativeLength |-> 0, written |-> 0, status |-> "OK", needsMoreOutput |-> FALSE,
   retained |-> {}, bounces |-> {}, result |-> "none", owedIn |-> 0, owedOut |-> 0]

Required(op) == IF op = "compress" THEN "COMPRESSING" ELSE "DECOMPRESSING"

\* inHasNativeAddress; outHasNativeAddress is computed from "in" as well.
HasNativeAddress(f) == f.inKind = "direct"

TypeOK ==
  /\ state \in State
  /\ streamLock \in Threads \cup {NoThread}
  /\ thisLock \in Threads \cup {NoThread}
  /\ comm \in [consumed: Nat, written: Nat]
  /\ frees \in Nat
  /\ z \in ZStream
  /\ pc \in [Threads -> Places]
  /\ frame \in [Threads -> Frame]
  /\ calls \in 0 .. MaxCalls

Init ==
  /\ state \in Modes
  /\ streamLock = NoThread
  /\ thisLock = NoThread
  /\ comm = [consumed |-> 0, written |-> 0]
  /\ frees = 0
  /\ z = FreshStream
  /\ pc = [t \in Threads |-> "idle"]
  /\ frame = [t \in Threads |-> NewFrame("none")]
  /\ calls = 0

-----------------------------------------------------------------------------
\* Fault: the methods are not synchronized.
AvailableAlways(lock) == TRUE

\* A monitor can be entered.
Available(lock) == lock = NoThread

\* The stream's monitor is left, by a return or an exception.
UnlockStream == streamLock' = NoThread

\* Fault: the state is not checked.
RequireStateIgnored(op) == TRUE

\* State.requireState() and assertEquals()
RequireState(op) == state = Required(op)

\* Fault: a closed stream is closed again.
RequireNotClosedIgnored == TRUE

\* State.requireStateNot(CLOSED)
RequireNotClosed == state # "CLOSED"

Goto(t, place) == pc' = [pc EXCEPT ![t] = place]

\* The call goes to "place" with its result set.
Leave(t, place, result) ==
  /\ Goto(t, place)
  /\ frame' = [frame EXCEPT ![t].result = result]

NewCall(t) ==
  /\ pc[t] \in {"idle", "done"}
  /\ calls < MaxCalls
  /\ calls' = calls + 1

\* A call with its arguments; a null output cannot be retained.
CallFrame(op, finish, inKind, outKind, size, room) ==
  IF outKind = "null"
  THEN [NewFrame(op) EXCEPT !.outKind = "null", !.retained = {"in"}, !.result = "NullPointer"]
  ELSE [NewFrame(op) EXCEPT
          !.finish = finish, !.inKind = inKind, !.outKind = outKind,
          !.readable = size, !.writable = room[1], !.maxWritable = room[2],
          !.retained = {"in", "out"}]

(* compress() and decompress() up to the monitor: both references are       *)
(* retained.  The check of "out" tests "in" a second time, so a null output *)
(* is only noticed by out.retain().                                         *)
BeginCall(t) ==
  /\ NewCall(t)
  /\ \E op \in {"compress", "decompress"}, finish \in BOOLEAN,
        inKind \in InKinds, outKind \in OutKinds, size \in InSizes, room \in OutSizes :
       /\ finish => op = "compress"
       /\ Goto(t, IF outKind = "null" THEN "done" ELSE "blocked")
       /\ frame' = [frame EXCEPT ![t] =
                      CallFrame(op, finish, inKind, outKind, size, room)]
  /\ UNCHANGED <<state, streamLock, thisLock, comm, frees, z>>

(* The compressor's monitor is entered, the state checked, and the bounce   *)
(* buffers are allocated, outside the try block that releases them.         *)
EnterMonitor(t) ==
  /\ pc[t] = "blocked"
  /\ Available(thisLock)
  /\ thisLock' = t
  /\ \/ /\ ~RequireState(frame[t].op)
        /\ Leave(t, "exit", "IllegalState")
     \/ /\ RequireState(frame[t].op)
        /\ Goto(t, "fill")
        /\ frame' = [frame EXCEPT ![t].bounces =
                       IF HasNativeAddress(frame[t]) THEN {} ELSE {"in", "out"}]
     \/ /\ AllocationMayFail
        /\ RequireState(frame[t].op)
        /\ ~HasNativeAddress(frame[t])
        /\ Goto(t, "exit")
        /\ \E made \in {{}, {"in"}} :
             frame' = [frame EXCEPT ![t].bounces = made, ![t].result = "AllocationFailed"]
  /\ UNCHANGED <<state, streamLock, comm, frees, z, calls>>

(* The top of the outer loop: the next chunk of a heap input is copied.     *)
PrepareInput(t) ==
  /\ pc[t] = "fill"
  /\ Goto(t, "room")
  /\ frame' = IF HasNativeAddress(frame[t]) THEN frame
              ELSE [frame EXCEPT ![t].chunk = Least(frame[t].readable, BufferSize),
                                 ![t].chunkRead = 0]
  /\ UNCHANGED <<state, streamLock, thisLock, comm, frees, z, calls>>

(* outNativeBuf.readerIndex() once the buffer has been prepared: compress() *)
(* clears it, decompress() only resizes it and then sets its writerIndex to *)
(* 0, which fails when the readerIndex is not 0.                            *)
PreparedReader(f, min) ==
  IF f.op = "compress" THEN 0 ELSE ClippedReader(f.reader, min)

(* The top of the inner loop: room is made in the output.                   *)
PrepareOutput(t) ==
  LET f == frame[t]
      min == Least(BufferSize, f.maxWritable)
      reader == IF HasNativeAddress(f) THEN 0 ELSE PreparedReader(f, min)
  IN
  /\ pc[t] = "room"
  /\ \E w \in EnsureWritable(f.writable, f.maxWritable, min) :
       frame' = [frame EXCEPT ![t] =
         [f EXCEPT !.writable = w, !.reader = reader,
                   !.nativeLength = IF HasNativeAddress(f) THEN w ELSE min,
                   !.result = IF reader > 0 THEN "IndexOutOfBounds" ELSE "none"]]
  /\ Goto(t, IF reader > 0 THEN "unwind" ELSE "enter")
  /\ UNCHANGED <<state, streamLock, thisLock, comm, frees, z, calls>>

(* NativeZlibStream.compress() and decompress(), up to the native call: the *)
(* state is checked again, and a heap buffer has no native address.         *)
EnterStream(t) ==
  LET f == frame[t]
      noAddress == HasNativeAddress(f) /\ f.outKind = "heap"
  IN
  /\ pc[t] = "enter"
  /\ Available(streamLock)
  /\ \/ /\ ~RequireState(f.op)
        /\ Leave(t, "unwind", "IllegalState")
        /\ UNCHANGED streamLock
     \/ /\ RequireState(f.op)
        /\ noAddress
        /\ Leave(t, "unwind", "IllegalArgument")
        /\ UNCHANGED streamLock
     \/ /\ RequireState(f.op)
        /\ ~noAddress
        /\ Goto(t, "native")
        /\ streamLock' = t
        /\ UNCHANGED frame
  /\ UNCHANGED <<state, thisLock, comm, frees, z, calls>>

-----------------------------------------------------------------------------
(* The native side.                                                         *)

\* avail_in and avail_out
AvailIn(f) == IF HasNativeAddress(f) THEN f.readable ELSE f.chunk

\* Fault: the capacity the output may grow to is passed.
AvailOutUngrown(f) == f.maxWritable

AvailOut(f) == f.nativeLength

\* handleErrors: the exception that a code becomes.
ExceptionOf(code) ==
  CASE code = "Z_DATA_ERROR" -> "InvalidData"
    [] code \in {"Z_BUF_ERROR", "Z_STREAM_ERROR"} -> "IllegalState"
    [] code = "Z_MEM_ERROR" -> "OutOfMemory"
    [] OTHER -> "Runtime"

\* Fault: a call that made no progress is reported as OK.
SucceedsLeniently(code) == code \in {"Z_OK", "Z_STREAM_END", "Z_BUF_ERROR"}

Succeeds(code) == code \in {"Z_OK", "Z_STREAM_END"}

\* The stream has moved bytes that the buffers of the caller do not show yet.
Owing(f, o) == [f EXCEPT !.owedIn = @ + o.consumed, !.owedOut = @ + o.written]

(* handleErrors stores what has been moved in the communication buffer, then *)
(* answers a status or throws; an exception leaves the stream's monitor.     *)
HandleErrors(t, o) ==
  /\ z' = o.stream
  /\ comm' = [consumed |-> o.consumed, written |-> o.written]
  /\ \/ /\ Succeeds(o.code)
        /\ Goto(t, "leave")
        /\ frame' = [frame EXCEPT ![t] =
             [Owing(@, o) EXCEPT !.status = IF o.code = "Z_STREAM_END" THEN "FINISHED" ELSE "OK"]]
        /\ UNCHANGED streamLock
     \/ /\ ~Succeeds(o.code)
        /\ Goto(t, "unwind")
        /\ frame' = [frame EXCEPT ![t] = [Owing(@, o) EXCEPT !.result = ExceptionOf(o.code)]]
        /\ UnlockStream
  /\ UNCHANGED <<state, thisLock, frees, calls>>

Deflate0(t) ==
  /\ pc[t] = "native"
  /\ frame[t].op = "compress"
  /\ \E o \in Deflate(z, AvailIn(frame[t]), AvailOut(frame[t]), frame[t].finish) :
       HandleErrors(t, o)

Inflate0(t) ==
  /\ pc[t] = "native"
  /\ frame[t].op = "decompress"
  /\ \E o \in Inflate(z, AvailIn(frame[t]), AvailOut(frame[t])) : HandleErrors(t, o)

-----------------------------------------------------------------------------
\* Fault: what was read from the bounce buffer before is forgotten.
AdvanceIndexesOnce(f) ==
  IF HasNativeAddress(f)
  THEN [f EXCEPT !.readable = @ - comm.consumed, !.owedIn = @ - comm.consumed,
                 !.writable = @ - comm.written, !.maxWritable = @ - comm.written,
                 !.owedOut = @ - comm.written, !.written = comm.written]
  ELSE [f EXCEPT !.chunk = @ - comm.consumed, !.chunkRead = comm.consumed,
                 !.written = comm.written]

\* What the end of NativeZlibStream.compress() does to the caller's buffers.
AdvanceIndexes(f) ==
  IF HasNativeAddress(f)
  THEN [f EXCEPT !.readable = @ - comm.consumed, !.owedIn = @ - comm.consumed,
                 !.writable = @ - comm.written, !.maxWritable = @ - comm.written,
                 !.owedOut = @ - comm.written, !.written = comm.written]
  ELSE [f EXCEPT !.chunk = @ - comm.consumed, !.chunkRead = @ + comm.consumed,
                 !.written = comm.written]

\* Fault: the end of the stream is not recorded.
StateAfterForgotten(status) == state

StateAfter(status) == IF status = "FINISHED" THEN "FINISHED" ELSE state

(* NativeZlibStream after the native call: the indexes of the buffers it    *)
(* was given advance by what the communication buffer says.                 *)
LeaveStream(t) ==
  /\ pc[t] = "leave"
  /\ Goto(t, "drain")
  /\ UnlockStream
  /\ state' = StateAfter(frame[t].status)
  /\ frame' = [frame EXCEPT ![t] = AdvanceIndexes(frame[t])]
  /\ UNCHANGED <<thisLock, comm, frees, z, calls>>

\* out.writeBytes(nativeOut), which reads the bounce buffer to its end.
WriteBounce(f) ==
  IF HasNativeAddress(f) THEN f
  ELSE [f EXCEPT !.writable = @ - f.written, !.maxWritable = @ - f.written,
                 !.owedOut = @ - f.written, !.reader = f.written]

\* Fault: a full output is only noticed when it is overrun.
OutputFullOverrun(f) == f.written > f.nativeLength

\* What needsMoreOutput is set to.
OutputFull(f) == f.written = f.nativeLength

\* Fault: the output is not asked to grow.
RepeatsUngrown(f) == f.written > 0 /\ f.needsMoreOutput /\ f.writable > 0

\* Fault: the inner loop is repeated although the output is not full.
RepeatsNeedlessly(f) == f.written > 0 /\ f.maxWritable > 0

Repeats(f) == f.written > 0 /\ f.needsMoreOutput /\ f.maxWritable > 0

(* The end of the inner loop.                                               *)
AfterNativeCall(t) ==
  LET f == [WriteBounce(frame[t]) EXCEPT !.needsMoreOutput = OutputFull(frame[t])] IN
  /\ pc[t] = "drain"
  /\ frame' = [frame EXCEPT ![t] = f]
  /\ Goto(t, IF Repeats(f) THEN "room" ELSE "settle")
  /\ UNCHANGED <<state, streamLock, thisLock, comm, frees, z, calls>>

\* Fault: the input does not catch up with its bounce buffer.
ReadBounceForgotten(f) == f

\* in.readerIndex() catches up with the bounce buffer.
ReadBounce(f) ==
  IF HasNativeAddress(f) THEN f
  ELSE [f EXCEPT !.readable = @ - f.chunkRead, !.owedIn = @ - f.chunkRead]

(* The end of the outer loop, and the choice of the status.                 *)
AfterInnerLoop(t) ==
  LET f == ReadBounce(frame[t])
      again == f.status # "FINISHED" /\ f.readable > 0
      finished == ~f.needsMoreOutput /\ f.status = "FINISHED"
  IN
  /\ pc[t] = "settle"
  /\ frame' = [frame EXCEPT ![t] =
       [f EXCEPT !.result = IF again \/ finished THEN "none"
                            ELSE IF f.needsMoreOutput THEN "INSUFFICIENT_OUTPUT"
                            ELSE "OK"]]
  /\ Goto(t, IF again THEN "fill" ELSE IF finished THEN "finished" ELSE "unwind")
  /\ UNCHANGED <<state, streamLock, thisLock, comm, frees, z, calls>>

(* The assertions before FINISHED is returned; the second one reads the     *)
(* state after the stream's monitor has been left.                          *)
ReturnFinished(t) ==
  /\ pc[t] = "finished"
  /\ Leave(t, "unwind",
           IF AssertionsEnabled /\ (frame[t].readable > 0 \/ state # "FINISHED")
           THEN "AssertionError" ELSE "FINISHED")
  /\ UNCHANGED <<state, streamLock, thisLock, comm, frees, z, calls>>

\* Fault: only the input's bounce buffer is released.
ReleaseBouncesIn(t) ==
  /\ pc[t] = "unwind"
  /\ Goto(t, "exit")
  /\ frame' = [frame EXCEPT ![t].bounces = @ \ {"in"}]
  /\ UNCHANGED <<state, streamLock, thisLock, comm, frees, z, calls>>

(* The inner finally block.                                                 *)
ReleaseBounces(t) ==
  /\ pc[t] = "unwind"
  /\ Goto(t, "exit")
  /\ frame' = [frame EXCEPT ![t].bounces = {}]
  /\ UNCHANGED <<state, streamLock, thisLock, comm, frees, z, calls>>

(* The monitor is left and the outer finally block runs; the locals die.    *)
ExitMonitor(t) ==
  /\ pc[t] = "exit"
  /\ Goto(t, "done")
  /\ thisLock' = NoThread
  /\ frame' = [frame EXCEPT ![t] =
       [NewFrame(@.op) EXCEPT !.bounces = frame[t].bounces, !.result = frame[t].result]]
  /\ UNCHANGED <<state, streamLock, comm, frees, z, calls>>

-----------------------------------------------------------------------------
(* close(): the stream's monitor, the check, then the new state and the     *)
(* release of the communication buffer.                                     *)
BeginClose(t) ==
  /\ NewCall(t)
  /\ Available(streamLock)
  /\ \/ /\ ~RequireNotClosed
        /\ Goto(t, "done")
        /\ frame' = [frame EXCEPT ![t] =
                       [NewFrame("close") EXCEPT !.result = "IllegalArgument"]]
        /\ UNCHANGED streamLock
     \/ /\ RequireNotClosed
        /\ Goto(t, "closing")
        /\ frame' = [frame EXCEPT ![t] = NewFrame("close")]
        /\ streamLock' = t
  /\ UNCHANGED <<state, thisLock, comm, frees, z>>

MarkClosed(t) ==
  /\ pc[t] = "closing"
  /\ Goto(t, "freeing")
  /\ state' = "CLOSED"
  /\ UNCHANGED <<streamLock, thisLock, comm, frees, z, frame, calls>>

FreeCommunication(t) ==
  /\ pc[t] = "freeing"
  /\ frees' = frees + 1
  /\ UnlockStream
  /\ Leave(t, "done", "closed")
  /\ UNCHANGED <<state, thisLock, comm, z, calls>>

(* getLevel() answers except when decompressing.                            *)
GetLevel(t) ==
  /\ NewCall(t)
  /\ Available(streamLock)
  /\ Goto(t, "done")
  /\ frame' = [frame EXCEPT ![t] =
       [NewFrame("getLevel") EXCEPT
          !.result = IF state = "DECOMPRESSING" THEN "IllegalArgument" ELSE "level"]]
  /\ UNCHANGED <<state, streamLock, thisLock, comm, frees, z>>

-----------------------------------------------------------------------------
(* The steps of a call that has begun, which a running thread takes.        *)
Work(t) ==
  \/ EnterMonitor(t) \/ PrepareInput(t) \/ PrepareOutput(t) \/ EnterStream(t)
  \/ Deflate0(t) \/ Inflate0(t) \/ LeaveStream(t)
  \/ AfterNativeCall(t) \/ AfterInnerLoop(t) \/ ReturnFinished(t)
  \/ ReleaseBounces(t) \/ ExitMonitor(t)
  \/ MarkClosed(t) \/ FreeCommunication(t)

Call(t) == BeginCall(t) \/ BeginClose(t) \/ GetLevel(t)

\* The callers have made all their calls and every one has returned.
Rest ==
  /\ calls = MaxCalls
  /\ \A t \in Threads : pc[t] \in {"idle", "done"}
  /\ UNCHANGED vars

Next == (\E t \in Threads : Call(t) \/ Work(t)) \/ Rest

Spec == Init /\ [][Next]_vars

(* A Java thread keeps running, so a step of a call that stays possible is  *)
(* taken; nothing obliges a caller to make a call.                          *)
FairSpec == Spec /\ \A t \in Threads : WF_vars(Work(t))

-----------------------------------------------------------------------------
(* Properties.                                                              *)

\* The places of a call that is inside the compressor's monitor.
InMonitor == {"fill", "room", "enter", "native", "leave", "drain", "settle", "finished",
              "unwind", "exit"}

InNativeCode(t) == pc[t] \in {"native", "leave"}

\* The call of t is about to return, or throw, r; it still has its monitor.
Returning(t, r) == pc[t] = "unwind" /\ frame[t].result = r

(* While a thread is in inflate0 or deflate0, or has yet to read what they  *)
(* stored, the communication buffer has not been freed by a close() of      *)
(* another thread.                                                          *)
NoUseAfterFree == \A t \in Threads : InNativeCode(t) => frees = 0

(* However many threads call close(), the communication buffer is freed     *)
(* once.                                                                    *)
FreedOnce == frees <= 1

(* Whenever compress() or decompress() returns a status, the indexes of the *)
(* caller's buffers have advanced by exactly what zlib consumed and wrote   *)
(* in this call, through bounce buffers or not.                             *)
Accounted ==
  \A t \in Threads : \A r \in Status :
    Returning(t, r) => frame[t].owedIn = 0 /\ frame[t].owedOut = 0

(* No reader index of a call's input passes its writer index, and no writer *)
(* index of its output the capacity the output may grow to.                 *)
IndexesInBounds ==
  \A t \in Threads :
    /\ frame[t].readable >= 0
    /\ frame[t].chunk >= 0
    /\ frame[t].writable >= 0
    /\ frame[t].maxWritable >= frame[t].writable

(* When zlib fails, the output of the calls before the failing one is in    *)
(* the caller's buffer: the indexes only miss what the failing call itself  *)
(* wrote and consumed, which handleErrors has stored, and the part of the   *)
(* current chunk that had been read before it.                              *)
ErrorLosesLastCall ==
  \A t \in Threads :
    /\ pc[t] = "unwind"
    /\ \/ frame[t].result \in {"InvalidData", "OutOfMemory", "Runtime"}
       \/ frame[t].result = "IllegalState" /\ state = Required(frame[t].op)
    =>
    /\ frame[t].owedOut = comm.written
    /\ frame[t].owedIn = comm.consumed + frame[t].chunkRead

(* INSUFFICIENT_OUTPUT is returned only when the output cannot take one     *)
(* more byte, also after growing.                                           *)
InsufficientMeansFull ==
  \A t \in Threads :
    Returning(t, "INSUFFICIENT_OUTPUT") => frame[t].maxWritable = 0

(* OK is returned only when all the input has been read and zlib holds back *)
(* nothing of its output: the flush the caller asked for is complete.       *)
OkMeansDrained ==
  \A t \in Threads :
    Returning(t, "OK") => frame[t].readable = 0 /\ z.held = 0

(* zlib refuses to flush what is flushed already, and the refusal becomes   *)
(* an IllegalStateException: compress() never brings it on itself.  A call  *)
(* that has got output and has no input left for zlib is not refused,       *)
(* however often its loops go back for more output.                         *)
NeverFlushesTwice ==
  \A t \in Threads :
    Returning(t, "IllegalState") /\ state = Required(frame[t].op) /\ frame[t].op = "compress"
      => frame[t].written = 0 \/ AvailIn(frame[t]) > 0

(* The Java state and the z_stream agree on whether the stream has ended:   *)
(* outside native code an open stream has not, a finished one has.          *)
StateAgreesWithZlib ==
  /\ state = "FINISHED" => z.phase = "ended"
  /\ z.phase = "ended" =>
       state \in {"FINISHED", "CLOSED"} \/ \E t \in Threads : pc[t] = "leave"

(* Whatever a call returns or throws, it has given back the references it   *)
(* retained, and its bounce buffers unless their allocation failed.  Only a *)
(* call without an output keeps its reference on the input.                 *)
NothingHeldAtReturn ==
  \A t \in Threads :
    pc[t] = "done" =>
      /\ frame[t].outKind # "null" => frame[t].retained = {}
      /\ frame[t].result # "AllocationFailed" => frame[t].bounces = {}

(* While a call is inside the compressor's monitor, the steps of the other  *)
(* threads leave what its loops rely on between two native calls as it is:  *)
(* the stream and the counts in the communication buffer.  All they may do  *)
(* is close the stream.                                                     *)
OnlyCloseBesideCall ==
  [][\A t \in Threads :
       pc[t] \in InMonitor /\ pc'[t] = pc[t] =>
         UNCHANGED <<z, comm>> /\ state' \in {state, "CLOSED"}]_vars

(* Every compress() and decompress() that has begun returns or throws.      *)
CallsReturn == \A t \in Threads : pc[t] = "blocked" ~> pc[t] = "done"

(* The implementation of ExclusiveStream.                                   *)
Exclusive == INSTANCE ExclusiveStream WITH
  phase <- CASE state = "CLOSED" -> "closed"
             [] state = "FINISHED" -> "finished"
             [] OTHER -> "open",
  inside <- {t \in Threads : InNativeCode(t)},
  memory <- IF frees = 0 THEN "live" ELSE "freed"

ExclusiveSpec == Exclusive!Spec

-----------------------------------------------------------------------------
(* The inductive invariant.                                                 *)

(* The stream's monitor guards native code and close(): a thread that is in *)
(* either owns it, so the state such a thread has checked stays true, and   *)
(* only a thread on its way to free the memory finds the stream closed and  *)
(* the memory not freed.                                                    *)
Guarded ==
  /\ \A t \in Threads :
       /\ InNativeCode(t) => streamLock = t /\ state = Required(frame[t].op)
       /\ pc[t] = "closing" => streamLock = t /\ state # "CLOSED"
       /\ pc[t] = "freeing" => streamLock = t /\ state = "CLOSED" /\ frees = 0
  /\ frees \in {0, 1}
  /\ frees = 1 => state = "CLOSED"

(* The local variables of a call agree with its buffers: what is left in    *)
(* the bounce buffer of the input and what was read from it are parts of    *)
(* the input, and native code is given no more room than the output has.    *)
LocalsFit(f, place) ==
  /\ f.readable >= 0 /\ f.chunk >= 0 /\ f.chunkRead >= 0
  /\ f.writable >= 0 /\ f.maxWritable >= f.writable
  /\ f.nativeLength >= 0 /\ f.written >= 0
  /\ place \in {"room", "enter", "native", "leave", "drain", "settle"} /\ ~HasNativeAddress(f)
       => f.chunk + f.chunkRead <= f.readable
  /\ place \in {"enter", "native", "leave"} => f.nativeLength <= f.writable
  /\ place = "drain" /\ ~HasNativeAddress(f) => f.written <= f.writable

\* What the communication buffer says is within what native code was given.
CommunicationFits ==
  \A t \in Threads :
    pc[t] = "leave" =>
      comm.consumed <= AvailIn(frame[t]) /\ comm.written <= AvailOut(frame[t])

(* No thread is inside freed memory and no index leaves its buffer, in a    *)
(* form that every step preserves.                                          *)
SafeInv ==
  /\ TypeOK
  /\ Guarded
  /\ \A t \in Threads : LocalsFit(frame[t], pc[t])
  /\ CommunicationFits

(* What the buffers do not show yet, place by place: what was read from the *)
(* bounce buffer of the input, what the communication buffer says and what  *)
(* is in the bounce buffer of the output.                                   *)
OwedFits(f, place) ==
  /\ HasNativeAddress(f) => f.chunkRead = 0
  /\ place \in {"blocked", "fill", "finished"} => f.owedIn = 0 /\ f.owedOut = 0
  /\ place \in {"room", "enter", "native", "drain", "settle"} => f.owedIn = f.chunkRead
  /\ place \in {"room", "enter", "native", "settle"} => f.owedOut = 0
  /\ place = "drain" => f.owedOut = IF HasNativeAddress(f) THEN 0 ELSE f.written
  /\ place = "leave" => /\ f.owedIn = comm.consumed + f.chunkRead
                        /\ f.owedOut = comm.written

(* An output is not full as long as a byte fits into it, and a call that    *)
(* did not fill it has left nothing in the stream; a full one keeps         *)
(* compress() from flushing what has been flushed already.                  *)
OutputFits(f, place) ==
  /\ place \in {"enter", "native", "leave", "drain"} /\ f.nativeLength = 0 =>
       f.maxWritable = 0
  /\ place = "leave" =>
       /\ comm.written < f.nativeLength => z.held = 0
       /\ f.op = "compress" /\ comm.written = f.nativeLength => z.phase # "synced"
       /\ f.status = "FINISHED" <=> z.phase = "ended"
  /\ place = "drain" =>
       /\ f.written <= f.nativeLength
       /\ f.written < f.nativeLength => z.held = 0
       /\ f.op = "compress" /\ f.written = f.nativeLength => z.phase # "synced"
  /\ place = "settle" => IF f.needsMoreOutput THEN f.maxWritable = 0 ELSE z.held = 0

(* compress() goes back to zlib without input only for output it can take   *)
(* and zlib still has to give; and a stream that is being finished is being *)
(* finished by every call.                                                  *)
InputFits(f, place) ==
  /\ place = "blocked" => f.written = 0
  /\ f.op = "compress" /\ f.written > 0 =>
       /\ place = "fill" => f.readable > 0
       /\ place \in {"room", "enter", "native"} /\ AvailIn(f) = 0 =>
            f.maxWritable > 0 /\ z.phase # "synced"
       /\ place \in {"fill", "room", "enter", "native"} /\ z.phase = "finishing" => f.finish
  /\ f.op = "compress" /\ place \in {"leave", "drain", "settle"} /\ z.phase = "finishing" =>
       f.finish

\* What the result of a call says when it is about to return.
ResultFits(f) ==
  /\ f.result \in Status => f.owedIn = 0 /\ f.owedOut = 0
  /\ \/ f.result \in {"InvalidData", "OutOfMemory", "Runtime"}
     \/ f.result = "IllegalState" /\ state = Required(f.op)
     => f.owedIn = comm.consumed + f.chunkRead /\ f.owedOut = comm.written
  /\ f.result = "INSUFFICIENT_OUTPUT" => f.maxWritable = 0
  /\ f.result = "OK" => f.readable = 0 /\ z.held = 0
  /\ f.result = "IllegalState" /\ state = Required(f.op) /\ f.op = "compress" =>
       f.written = 0 \/ AvailIn(f) > 0

\* The references and the bounce buffers that a call still has.
HeldFits(f, place) ==
  /\ place \in {"blocked", "closing", "freeing"} => f.bounces = {}
  /\ place \in {"closing", "freeing"} => f.retained = {}
  /\ place \in {"exit", "done"} /\ f.result # "AllocationFailed" => f.bounces = {}
  /\ place = "done" /\ f.outKind # "null" => f.retained = {}

CallFits(f, place) ==
  /\ OwedFits(f, place)
  /\ OutputFits(f, place)
  /\ InputFits(f, place)
  /\ place = "unwind" => ResultFits(f)
  /\ HeldFits(f, place)

(* What a call returns agrees with its buffers and with zlib, because only  *)
(* the owner of the compressor's monitor moves bytes and only close() runs  *)
(* beside it.                                                               *)
StatusInv ==
  /\ \A t \in Threads : pc[t] \in InMonitor => thisLock = t
  /\ StateAgreesWithZlib
  /\ \A t \in Threads : CallFits(frame[t], pc[t])

(* Both, which every step preserves.                                        *)
IInv == SafeInv /\ StatusInv

-----------------------------------------------------------------------------
(* What the documentation and the assertions of the code say, and the code  *)
(* does not do.                                                             *)

(* assert !in.isReadable() of compress(): a finished compression has read   *)
(* all the input.                                                           *)
FinishedConsumesInput ==
  \A t \in Threads :
    Returning(t, "FINISHED") /\ frame[t].op = "compress" => frame[t].readable = 0

(* assert getState() == State.FINISHED: the state is still FINISHED when a  *)
(* call that finished the stream checks it.                                 *)
FinishedStateStays == \A t \in Threads : pc[t] = "finished" => state = "FINISHED"

(* decompress() throws only what its documentation lists.                   *)
NoIndexOutOfBounds == \A t \in Threads : frame[t].result # "IndexOutOfBounds"

=============================================================================
