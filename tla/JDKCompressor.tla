---------------------------- MODULE JDKCompressor ----------------------------
(***************************************************************************)
(* One ZLibJDKCompressor and the java.util.zip.Deflater or Inflater in it.  *)
(*                                                                          *)
(* Every method is synchronized on the compressor, so calls do not overlap; *)
(* what is hard here is the double loop over the buffers and the life of    *)
(* the compressor.  compress() and decompress() are the same loop; an       *)
(* action reads the name of the method from the frame where they differ.    *)
(*                                                                          *)
(* The Deflater and the Inflater drive a z_stream of their own: they keep   *)
(* the input they were given until it is consumed, turn "no progress" into  *)
(* an answer of 0 bytes, and throw a NullPointerException once end() has    *)
(* been called.                                                             *)
(***************************************************************************)
EXTENDS Integers, Zlib, ByteBufs

CONSTANTS
  Threads, NoThread,   \* the threads that share the compressor
  Modes,               \* the states a factory method may create it in
  BufferSize,          \* BUFFER_SIZE, in the unit of the counts below
  InKinds, OutKinds,   \* "heap" buffers have an array, "direct" ones do not;
                       \* an output may be "null"
  InSizes,             \* readableBytes() of the inputs the callers pass
  OutSizes,            \* <<writableBytes(), maxWritableBytes()>> of the outputs
  LateInput,           \* whether callers pass input after they asked to finish
  MaxCalls             \* bound on the calls made altogether

ASSUME ThreadsAssumption == NoThread \notin Threads

ASSUME BuffersAssumption ==
  /\ BufferSize \in Nat \ {0}
  /\ Modes \subseteq {"COMPRESSING", "DECOMPRESSING"}
  /\ InKinds \subseteq {"heap", "direct"}
  /\ OutKinds \subseteq {"heap", "direct", "null"}
  /\ InSizes \subseteq Nat
  /\ OutSizes \subseteq {s \in Nat \X Nat : s[1] <= s[2]}

ASSUME BoundsAssumption ==
  /\ LateInput \in BOOLEAN
  /\ MaxCalls \in Nat

VARIABLES
  assertions, \* java -ea
  state,      \* ZLibJDKCompressor.state
  open,       \* end() has not been called on the Deflater or Inflater
  finish,     \* Deflater.finish() has been called
  z,          \* the z_stream of the Deflater or Inflater
  lock,       \* owner of the monitor of the compressor
  pc,         \* where each thread is
  frame,      \* the local variables and the buffers of each thread's call
  calls       \* how many calls have been started

vars == <<assertions, state, open, finish, z, lock, pc, frame, calls>>

-----------------------------------------------------------------------------
State == {"COMPRESSING", "DECOMPRESSING", "FINISHED", "CLOSED"}

Status == {"OK", "INSUFFICIENT_OUTPUT", "FINISHED"}

Thrown == {"IllegalState", "IllegalArgument", "InvalidData", "OutOfMemory",
           "NullPointer", "AssertionError"}

Results == Status \cup Thrown \cup {"none", "closed", "level"}

Places == {"idle", "blocked", "fill", "inner", "settle", "exit", "done"}

(* owedIn and owedOut: bytes the z_stream has moved in this call that the   *)
(* indexes of the caller's buffers do not show yet.                         *)
Frame ==
  [op: {"none", "compress", "decompress", "close", "getLevel"}, finish: BOOLEAN,
   inKind: {"heap", "direct"}, outKind: {"heap", "direct"},
   readable: Int, writable: Int, maxWritable: Int,
   pending: Int,              \* input the Deflater or Inflater still has
   readBytes: Int,            \* getTotalIn() - oldTotalIn
   needsMoreOutput: BOOLEAN, haveFinished: BOOLEAN,
   result: Results,
   owedIn: Int, owedOut: Int]

NewFrame(op) ==
  [op |-> op, finish |-> FALSE, inKind |-> "heap", outKind |-> "heap",
   readable |-> 0, writable |-> 0, maxWritable |-> 0, pending |-> 0, readBytes |-> 0,
   needsMoreOutput |-> FALSE, haveFinished |-> FALSE,
   result |-> "none", owedIn |-> 0, owedOut |-> 0]

Required(op) == IF op = "compress" THEN "COMPRESSING" ELSE "DECOMPRESSING"

TypeOK ==
  /\ assertions \in BOOLEAN
  /\ state \in State
  /\ open \in BOOLEAN
  /\ finish \in BOOLEAN
  /\ z \in ZStream
  /\ lock \in Threads \cup {NoThread}
  /\ pc \in [Threads -> Places]
  /\ frame \in [Threads -> Frame]
  /\ calls \in 0 .. MaxCalls

\* The two constructors.
Init ==
  /\ assertions \in BOOLEAN
  /\ state \in Modes
  /\ open = TRUE
  /\ finish = FALSE
  /\ z = FreshStream
  /\ lock = NoThread
  /\ pc = [t \in Threads |-> "idle"]
  /\ frame = [t \in Threads |-> NewFrame("none")]
  /\ calls = 0

-----------------------------------------------------------------------------
\* Fault: the methods are not synchronized.
AvailableAlways(monitor) == TRUE

\* A monitor can be entered.
Available(monitor) == monitor = NoThread

Goto(t, place) == pc' = [pc EXCEPT ![t] = place]

Leave(t, place, result) ==
  /\ Goto(t, place)
  /\ frame' = [frame EXCEPT ![t].result = result]

NewCall(t) ==
  /\ pc[t] \in {"idle", "done"}
  /\ calls < MaxCalls
  /\ calls' = calls + 1

\* A caller that has asked to finish has no more input, unless LateInput.
Sizes(op) == IF op = "compress" /\ finish /\ ~LateInput THEN {0} ELSE InSizes

(* compress() and decompress() up to the monitor.  The references that are  *)
(* retained here are left out: the finally blocks release them, but when    *)
(* the output is null, which no check notices, the call fails with the      *)
(* reference to its input outside every try block.  The other arguments are *)
(* first read under the monitor, and are chosen there.                      *)
BeginCall(t) ==
  /\ NewCall(t)
  /\ \E op \in {"compress", "decompress"} :
       \/ /\ Goto(t, "blocked")
          /\ frame' = [frame EXCEPT ![t] = NewFrame(op)]
       \/ /\ "null" \in OutKinds
          /\ Goto(t, "done")
          /\ frame' = [frame EXCEPT ![t] = [NewFrame(op) EXCEPT !.result = "NullPointer"]]
  /\ UNCHANGED <<assertions, state, open, finish, z, lock>>

EnterMonitor(t) ==
  /\ pc[t] = "blocked"
  /\ Available(lock)
  /\ lock' = t
  /\ \/ /\ state # Required(frame[t].op)
        /\ Leave(t, "exit", "IllegalState")
     \/ /\ state = Required(frame[t].op)
        /\ Goto(t, "fill")
        /\ \E asked \in BOOLEAN, inKind \in InKinds, outKind \in OutKinds \ {"null"},
              size \in Sizes(frame[t].op), room \in OutSizes :
             /\ asked => frame[t].op = "compress"
             /\ frame' = [frame EXCEPT ![t] =
                  [@ EXCEPT !.finish = asked, !.inKind = inKind, !.outKind = outKind,
                            !.readable = size, !.writable = room[1], !.maxWritable = room[2]]]
  /\ UNCHANGED <<assertions, state, open, finish, z, calls>>

(* The top of the outer loop.  getTotalIn() throws once the stream has been *)
(* ended; then the input is given to the stream, a direct one in chunks,    *)
(* and with the last chunk compress() tells the Deflater to finish.         *)

Chunk(f) == IF f.inKind = "heap" THEN f.readable ELSE Least(f.readable, BufferSize)

\* Fault: a call without input does not tell the Deflater to finish.
FinishesWithInput(f) == f.finish /\ f.readable > 0 /\ Chunk(f) = f.readable

\* Fault: the Deflater is told to finish with the first chunk.
FinishesEarly(f) == f.finish

Finishes(f) == f.finish /\ Chunk(f) = f.readable

PrepareInput(t) ==
  LET f == frame[t] IN
  /\ pc[t] = "fill"
  /\ \/ /\ ~open
        /\ Leave(t, "exit", "NullPointer")
        /\ UNCHANGED finish
     \/ /\ open
        /\ assertions /\ f.haveFinished
        /\ Leave(t, "exit", "AssertionError")
        /\ UNCHANGED finish
     \/ /\ open
        /\ ~(assertions /\ f.haveFinished)
        /\ Goto(t, "inner")
        /\ finish' = (finish \/ Finishes(f))
        /\ frame' = [frame EXCEPT ![t] =
             [f EXCEPT !.pending = Chunk(f), !.readBytes = 0,
                       !.haveFinished = @ \/ Finishes(f)]]
  /\ UNCHANGED <<assertions, state, open, z, lock, calls>>

-----------------------------------------------------------------------------
(* Deflater.deflate() and Inflater.inflate().                               *)

\* The bytes they say they wrote.
Answer(o) == IF o.code \in {"Z_OK", "Z_STREAM_END"} THEN o.written ELSE 0

Throws(o) == o.code \in {"Z_DATA_ERROR", "Z_MEM_ERROR"}

ExceptionOf(o) == IF o.code = "Z_DATA_ERROR" THEN "InvalidData" ELSE "OutOfMemory"

(* The body of the inner loop: room is made in the output, the stream is    *)
(* called, and the output's index advances by its answer.                   *)

OutArrayLength(f, writable) ==
  IF f.outKind = "heap" THEN writable ELSE Least(writable, BufferSize)

Answers(f, outArrayLength) ==
  IF f.op = "compress" THEN Deflate(z, f.pending, outArrayLength, finish)
                       ELSE Inflate(z, f.pending, outArrayLength)

\* Fault: a full output is only noticed when it is overrun.
OutputFullOverrun(answer, outArrayLength) == answer > outArrayLength

\* What needsMoreOutput is set to.
OutputFull(answer, outArrayLength) == answer = outArrayLength

Advanced(f, writable, o) ==
  [f EXCEPT !.pending = @ - o.consumed, !.readBytes = @ + o.consumed,
            !.writable = writable - Answer(o), !.maxWritable = @ - Answer(o),
            !.needsMoreOutput = OutputFull(Answer(o), OutArrayLength(f, writable)),
            !.owedIn = @ + o.consumed, !.owedOut = @ + o.written - Answer(o)]

\* Fault: the output is not asked to grow.
RepeatsUngrown(answer, f) == answer > 0 /\ f.needsMoreOutput /\ f.writable > 0

Repeats(answer, f) == answer > 0 /\ f.needsMoreOutput /\ f.maxWritable > 0

InnerLoop(t) ==
  /\ pc[t] = "inner"
  /\ \E writable \in EnsureWritable(frame[t].writable, frame[t].maxWritable,
                                    Least(BufferSize, frame[t].maxWritable)) :
     \E o \in Answers(frame[t], OutArrayLength(frame[t], writable)) :
       LET f == Advanced(frame[t], writable, o) IN
       /\ z' = o.stream
       /\ IF Throws(o)
          THEN Leave(t, "exit", ExceptionOf(o))
          ELSE /\ frame' = [frame EXCEPT ![t] = f]
               /\ Goto(t, IF Repeats(Answer(o), f) THEN "inner" ELSE "settle")
  /\ UNCHANGED <<assertions, state, open, finish, lock, calls>>

-----------------------------------------------------------------------------
\* Deflater.finished() and Inflater.finished()
StreamFinished == z.phase = "ended"

\* Fault: the input advances by what was given to the stream.
ReadInputWhole(f) ==
  [f EXCEPT !.readable = @ - Chunk(f), !.owedIn = @ - Chunk(f)]

\* in.readerIndex() advances by what the stream has consumed.
ReadInput(f) ==
  [f EXCEPT !.readable = @ - f.readBytes, !.owedIn = @ - f.readBytes]

\* Fault: the loop runs until the stream ends.
AgainForever(f) == ~StreamFinished

\* The condition of the outer loop.
Again(f) == ~StreamFinished /\ f.readable > 0

AssertionFails(f) ==
  assertions /\ (f.readable > 0 \/ (f.op = "compress" /\ ~f.haveFinished))

StatusOf(f) ==
  IF f.needsMoreOutput THEN "INSUFFICIENT_OUTPUT"
  ELSE IF ~StreamFinished THEN "OK"
  ELSE IF AssertionFails(f) THEN "AssertionError"
  ELSE "FINISHED"

StateAfter(status) == IF status = "FINISHED" THEN "FINISHED" ELSE state

(* The end of the outer loop, and the choice of the status.                 *)
AfterInnerLoop(t) ==
  LET f == ReadInput(frame[t]) IN
  /\ pc[t] = "settle"
  /\ \/ /\ Again(f)
        /\ frame' = [frame EXCEPT ![t] = f]
        /\ Goto(t, "fill")
        /\ UNCHANGED state
     \/ /\ ~Again(f)
        /\ frame' = [frame EXCEPT ![t] = [f EXCEPT !.result = StatusOf(f)]]
        /\ Goto(t, "exit")
        /\ state' = StateAfter(StatusOf(f))
  /\ UNCHANGED <<assertions, open, finish, z, lock, calls>>

(* The monitor is left and the finally blocks run; the locals die.          *)
ExitMonitor(t) ==
  /\ pc[t] = "exit"
  /\ Goto(t, "done")
  /\ lock' = NoThread
  /\ frame' = [frame EXCEPT ![t] =
                 [NewFrame(@.op) EXCEPT !.result = frame[t].result]]
  /\ UNCHANGED <<assertions, state, open, finish, z, calls>>

-----------------------------------------------------------------------------
(* close() ends the stream when it is still compressing or decompressing,   *)
(* and leaves the state as it is.                                           *)
Close(t) ==
  /\ NewCall(t)
  /\ Available(lock)
  /\ Goto(t, "done")
  /\ open' = (open /\ state = "FINISHED")
  /\ frame' = [frame EXCEPT ![t] = [NewFrame("close") EXCEPT
       !.result = IF state = "CLOSED" THEN "IllegalState" ELSE "closed"]]
  /\ UNCHANGED <<assertions, state, finish, z, lock>>

GetLevel(t) ==
  /\ NewCall(t)
  /\ Available(lock)
  /\ Goto(t, "done")
  /\ frame' = [frame EXCEPT ![t] = [NewFrame("getLevel") EXCEPT
       !.result = IF state = "DECOMPRESSING" THEN "IllegalArgument" ELSE "level"]]
  /\ UNCHANGED <<assertions, state, open, finish, z, lock>>

-----------------------------------------------------------------------------
Work(t) ==
  \/ EnterMonitor(t) \/ PrepareInput(t) \/ InnerLoop(t) \/ AfterInnerLoop(t)
  \/ ExitMonitor(t)

Call(t) == BeginCall(t) \/ Close(t) \/ GetLevel(t)

\* The callers have made all their calls and every one has returned.
Rest ==
  /\ calls = MaxCalls
  /\ \A t \in Threads : pc[t] \in {"idle", "done"}
  /\ UNCHANGED vars

Next == (\E t \in Threads : Call(t) \/ Work(t)) \/ Rest

Spec == Init /\ [][Next]_vars

(* A Java thread keeps running, so a step of a call that stays possible is  *)
(* taken; nothing obliges a caller to make a call.                          *)
FairSpec == Spec /\ \A t \in Threads : WF_vars(Work(t))

-----------------------------------------------------------------------------
(* Properties.                                                              *)

Returning(t, r) == pc[t] = "exit" /\ frame[t].result = r

(* Whenever a status is returned, the indexes of the caller's buffers have  *)
(* advanced by exactly what the stream consumed and wrote, in chunks or not. *)
Accounted ==
  \A t \in Threads : \A r \in Status :
    Returning(t, r) => frame[t].owedIn = 0 /\ frame[t].owedOut = 0

(* INSUFFICIENT_OUTPUT is returned only when the output cannot take one     *)
(* more byte, also after growing.                                           *)
InsufficientMeansFull ==
  \A t \in Threads :
    Returning(t, "INSUFFICIENT_OUTPUT") => frame[t].maxWritable = 0

(* OK is returned only when all the input has been read, the stream holds   *)
(* back nothing of its output, and the stream has not ended.                *)
OkMeansDrained ==
  \A t \in Threads :
    Returning(t, "OK") =>
      frame[t].readable = 0 /\ z.held = 0 /\ z.phase # "ended"

(* A call that returns FINISHED for a compression has read all the input,   *)
(* and every byte of its output has reached the caller.                     *)
FinishedConsumesInput ==
  \A t \in Threads :
    Returning(t, "FINISHED") =>
      /\ z.phase = "ended" /\ z.held = 0
      /\ frame[t].op = "compress" => frame[t].readable = 0

(* A compression that has been asked to finish, by this call or by one      *)
(* before, does not return OK any more: the call that asks, and every later *)
(* one, says INSUFFICIENT_OUTPUT until the stream has ended.  A caller that *)
(* waits for FINISHED is not sent away with an output that has room left.   *)
OkOnlyBeforeFinish ==
  \A t \in Threads :
    Returning(t, "OK") /\ frame[t].op = "compress" => ~finish /\ ~frame[t].finish

\* A turn of the outer loop has moved no input, and none can be moved.
Stalled(t) ==
  /\ pc[t] = "settle"
  /\ frame[t].readable > 0
  /\ frame[t].readBytes = 0
  /\ frame[t].maxWritable = 0 \/ z.phase = "Z_NEED_DICT"

(* Every call that has begun returns or throws, or comes to a point where   *)
(* its output is full, or the stream needs a dictionary, with input left;   *)
(* the calls of other threads then wait for its monitor.                    *)
CallsReturnOrStall ==
  \A t \in Threads :
    pc[t] = "blocked" ~> (pc[t] = "done" \/ \E u \in Threads : Stalled(u))

-----------------------------------------------------------------------------
(* The inductive invariant, for callers that pass no input after they asked *)
(* to finish.                                                               *)

Inside(t) == pc[t] \in {"fill", "inner", "settle"}

(* The monitor guards the stream and the state: what a thread has seen when *)
(* it entered stays true.                                                   *)
Guarded ==
  \A t \in Threads :
    /\ Inside(t) \/ pc[t] = "exit" => lock = t
    /\ Inside(t) => state = Required(frame[t].op)

(* Only a stream that is in the middle of something holds output back, and  *)
(* a Deflater ends only when it has been told to.                           *)
StreamFits ==
  /\ z.phase \notin {"busy", "finishing"} => z.held = 0
  /\ state = "COMPRESSING" /\ z.phase \in {"finishing", "ended"} => finish

(* What the locals of a call say about its buffers: the chunk is a part of  *)
(* the input and what has been read is a part of the chunk.                 *)
LocalsFit(f, place) ==
  /\ f.op \in {"compress", "decompress"} /\ (f.finish => f.op = "compress")
  /\ f.readable >= 0 /\ f.writable >= 0 /\ f.maxWritable >= f.writable
  /\ f.owedOut = 0
  /\ f.owedIn = (IF place = "fill" THEN 0 ELSE f.readBytes)
  /\ place \in {"inner", "settle"} =>
       f.readBytes >= 0 /\ f.pending >= 0 /\ f.pending + f.readBytes = Chunk(f)

(* What they say about the stream: once the Deflater has been told to       *)
(* finish, the chunk is the last one; when its stream is finishing, the     *)
(* chunk is consumed.  After the stream has left room in the output there   *)
(* is nothing more to write, and for a Deflater nothing more to read; one   *)
(* that has been told to finish has then ended.                             *)
LocalsAgree(f, place) ==
  /\ f.haveFinished => finish /\ f.finish /\ f.op = "compress"
  /\ f.op = "compress" /\ f.finish /\ ~f.haveFinished /\ place \in {"inner", "settle"}
       => Chunk(f) # f.readable
  /\ f.op = "compress" /\ finish => Chunk(f) = f.readable
  /\ f.op = "compress" /\ z.phase \in {"finishing", "ended"} =>
       IF place = "fill" THEN f.readable = 0 ELSE f.pending = 0
  /\ place = "settle" =>
       IF f.needsMoreOutput THEN f.maxWritable = 0
       ELSE /\ z.held = 0
            /\ f.op = "compress" => f.pending = 0 /\ (finish => z.phase = "ended")

\* What each result says about the buffers and the stream.
ResultFits(f) ==
  /\ f.result \in Status => f.owedIn = 0 /\ f.owedOut = 0
  /\ f.result = "INSUFFICIENT_OUTPUT" => f.maxWritable = 0
  /\ f.result = "OK" =>
       /\ f.readable = 0 /\ z.held = 0 /\ z.phase # "ended"
       /\ f.op = "compress" => ~finish /\ ~f.finish
  /\ f.result = "FINISHED" =>
       z.phase = "ended" /\ z.held = 0 /\ (f.op = "compress" => f.readable = 0)

\* What is known of a call, from the monitor to its return.
CallFits(f, place) ==
  /\ place = "blocked" =>
       /\ f.op \in {"compress", "decompress"} /\ ~f.finish
       /\ ~f.haveFinished /\ f.owedIn = 0 /\ f.owedOut = 0
  /\ place \in {"fill", "inner", "settle"} => LocalsFit(f, place) /\ LocalsAgree(f, place)
  /\ place = "exit" => ResultFits(f)

IInv ==
  /\ TypeOK
  /\ Guarded
  /\ StreamFits
  /\ \A t \in Threads : CallFits(frame[t], pc[t])

-----------------------------------------------------------------------------
(* What the documentation and the assertions of the code say, and the code  *)
(* does not do.                                                             *)

(* Every call that has begun returns or throws, as a method does that is    *)
(* documented to move as much data as possible.                             *)
CallsReturn == \A t \in Threads : pc[t] = "blocked" ~> pc[t] = "done"

(* The outer loop takes no other turn after the Deflater has been told to   *)
(* finish: "assert !haveFinished" at its top.                               *)
FinishesOnce == \A t \in Threads : pc[t] = "fill" => ~frame[t].haveFinished

=============================================================================
