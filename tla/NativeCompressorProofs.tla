----------------------- MODULE NativeCompressorProofs -----------------------
(* Proofs about NativeCompressor, for any number of threads, calls, buffers *)
(* and sizes.                                                               *)
EXTENDS NativeCompressor, ZlibProofs

-----------------------------------------------------------------------------
(* The stream's monitor.                                                    *)

(* Every step keeps native code and close() exclusive, each with the state  *)
(* that it has checked, and the memory freed at most once.                  *)
LEMMA GuardedStep == TypeOK /\ Guarded /\ [Next]_vars => Guarded'
  <1> SUFFICES ASSUME TypeOK, Guarded, [Next]_vars
               PROVE  Guarded'
    OBVIOUS
  <1> USE ThreadsAssumption
  <1>1. ASSUME NEW t \in Threads, BeginCall(t) PROVE Guarded'
    BY <1>1 DEF TypeOK, Guarded, InNativeCode, Required, BeginCall, NewCall, Goto
  <1>2. ASSUME NEW t \in Threads, EnterMonitor(t) PROVE Guarded'
    BY <1>2 DEF TypeOK, Guarded, InNativeCode, Required, EnterMonitor, Leave, Goto, Frame
  <1>3. ASSUME NEW t \in Threads, PrepareInput(t) PROVE Guarded'
    BY <1>3 DEF TypeOK, Guarded, InNativeCode, Required, PrepareInput, Goto, Frame
  <1>4. ASSUME NEW t \in Threads, PrepareOutput(t) PROVE Guarded'
    BY <1>4 DEF TypeOK, Guarded, InNativeCode, Required, PrepareOutput, Goto, Frame
  <1>5. ASSUME NEW t \in Threads, EnterStream(t) PROVE Guarded'
    <2>1. CASE UNCHANGED streamLock
      BY <1>5, <2>1 DEF TypeOK, Guarded, InNativeCode, Required, EnterStream, Leave, Goto,
                        Frame, Available, RequireState
    <2>2. CASE streamLock' = t
      BY <1>5, <2>2 DEF TypeOK, Guarded, InNativeCode, Required, EnterStream, Leave, Goto,
                        Frame, Available, RequireState
    <2>3. QED
      BY <1>5, <2>1, <2>2 DEF EnterStream
  <1>6. ASSUME NEW t \in Threads, NEW o, pc[t] = "native", HandleErrors(t, o)
        PROVE  Guarded'
    <2>1. frame[t] \in Frame /\ t \in DOMAIN frame
      BY DEF TypeOK
    <2> DEFINE f == Owing(frame[t], o)
    <2>2. frame'[t].op = frame[t].op
      <3>1. PICK status, result : frame'[t] \in {[f EXCEPT !.status = status],
                                                 [f EXCEPT !.result = result]}
        BY <1>6, <2>1 DEF HandleErrors, UnlockStream
      <3>2. QED
        BY <2>1, <3>1 DEF Owing, Frame
    <2>3. \A s \in Threads \ {t} : frame'[s] = frame[s] /\ pc'[s] = pc[s]
      BY <1>6 DEF TypeOK, HandleErrors, UnlockStream, Goto
    <2>4. CASE pc'[t] = "leave" /\ UNCHANGED streamLock
      BY <1>6, <2>2, <2>3, <2>4 DEF Guarded, InNativeCode, HandleErrors, UnlockStream
    <2>5. CASE pc'[t] = "unwind" /\ streamLock' = NoThread
      BY <1>6, <2>3, <2>5 DEF Guarded, InNativeCode, HandleErrors, UnlockStream
    <2>6. QED
      BY <1>6, <2>4, <2>5 DEF TypeOK, HandleErrors, UnlockStream, Goto
  <1>7. ASSUME NEW t \in Threads, LeaveStream(t) PROVE Guarded'
    BY <1>7 DEF TypeOK, Guarded, InNativeCode, Required, LeaveStream, UnlockStream, Goto, Frame
  <1>8. ASSUME NEW t \in Threads,
               \/ AfterNativeCall(t) \/ AfterInnerLoop(t) \/ ReturnFinished(t)
               \/ ReleaseBounces(t) \/ ExitMonitor(t)
        PROVE  Guarded'
    BY <1>8 DEF TypeOK, Guarded, InNativeCode, Required, AfterNativeCall, AfterInnerLoop,
                ReturnFinished, ReleaseBounces, ExitMonitor, Leave, Goto, Frame
  <1>9. ASSUME NEW t \in Threads, BeginClose(t) PROVE Guarded'
    BY <1>9 DEF TypeOK, Guarded, InNativeCode, Required, BeginClose, NewCall, Goto, Frame,
                Available, RequireNotClosed
  <1>10. ASSUME NEW t \in Threads, MarkClosed(t) PROVE Guarded'
    BY <1>10 DEF TypeOK, Guarded, InNativeCode, Required, MarkClosed, Goto
  <1>11. ASSUME NEW t \in Threads, FreeCommunication(t) PROVE Guarded'
    BY <1>11 DEF TypeOK, Guarded, InNativeCode, Required, FreeCommunication, UnlockStream, Leave, Goto
  <1>12. ASSUME NEW t \in Threads, GetLevel(t) PROVE Guarded'
    BY <1>12 DEF TypeOK, Guarded, InNativeCode, Required, GetLevel, NewCall, Goto
  <1>13. CASE UNCHANGED vars
    BY <1>13 DEF Guarded, InNativeCode, vars
  <1>14. QED
    BY <1>1, <1>2, <1>3, <1>4, <1>5, <1>6, <1>7, <1>8, <1>9, <1>10, <1>11, <1>12, <1>13
       DEF Next, Work, Call, Rest, Deflate0, Inflate0

-----------------------------------------------------------------------------
(* The frames of the calls.                                                 *)

FramesFit ==
  /\ pc \in [Threads -> Places]
  /\ frame \in [Threads -> Frame]
  /\ \A t \in Threads : LocalsFit(frame[t], pc[t])

\* The places where a frame is under no condition that it is not under elsewhere.
Quiet == {"idle", "blocked", "fill", "finished", "unwind", "exit", "closing", "freeing",
          "done"}

SameNumbers(g, f) ==
  /\ g.readable = f.readable /\ g.chunk = f.chunk /\ g.chunkRead = f.chunkRead
  /\ g.writable = f.writable /\ g.maxWritable = f.maxWritable
  /\ g.nativeLength = f.nativeLength /\ g.written = f.written
  /\ g.inKind = f.inKind

(* A step of one thread that leaves a frame that fits keeps all of them.    *)
LEMMA OneFrame ==
  ASSUME FramesFit, NEW t \in Threads, NEW f \in Frame, NEW place \in Places,
         LocalsFit(f, place), Goto(t, place), frame' = [frame EXCEPT ![t] = f]
  PROVE  FramesFit'
  <1>1. pc' \in [Threads -> Places] /\ frame' \in [Threads -> Frame]
    BY DEF FramesFit, Goto
  <1>2. \A s \in Threads : \/ frame'[s] = f /\ pc'[s] = place
                           \/ frame'[s] = frame[s] /\ pc'[s] = pc[s]
    BY DEF FramesFit, Goto
  <1>3. \A s \in Threads : LocalsFit(frame'[s], pc'[s])
    BY <1>2 DEF FramesFit
  <1>4. QED
    BY <1>1, <1>3 DEF FramesFit

(* A step of one thread to a quiet place that leaves the numbers in its     *)
(* frame as they are keeps them too.                                        *)
LEMMA QuietFrame ==
  ASSUME FramesFit, NEW t \in Threads, NEW g \in Frame, NEW place \in Quiet,
         SameNumbers(g, frame[t]), Goto(t, place), frame' = [frame EXCEPT ![t] = g]
  PROVE  FramesFit'
  <1>1. LocalsFit(g, place)
    <2>1. LocalsFit(frame[t], pc[t])
      BY DEF FramesFit
    <2>2. QED
      BY <2>1 DEF LocalsFit, Quiet, SameNumbers
  <1>2. place \in Places
    BY DEF Quiet, Places
  <1>3. QED
    BY <1>1, <1>2, OneFrame

(* A result, and bounce buffers, leave the numbers of a frame as they are.  *)
LEMMA ResultFrame ==
  ASSUME NEW f \in Frame, NEW bounces \in SUBSET {"in", "out"}, NEW result \in Results
  PROVE  /\ [f EXCEPT !.bounces = bounces] \in Frame
         /\ SameNumbers([f EXCEPT !.bounces = bounces], f)
         /\ [f EXCEPT !.result = result] \in Frame
         /\ SameNumbers([f EXCEPT !.result = result], f)
         /\ [f EXCEPT !.bounces = bounces, !.result = result] \in Frame
         /\ SameNumbers([f EXCEPT !.bounces = bounces, !.result = result], f)
  BY DEF Frame, SameNumbers

(* A step that only sets the result keeps all frames.                       *)
LEMMA LeaveFrame ==
  ASSUME FramesFit, NEW t \in Threads, NEW place \in Quiet, NEW result \in Results,
         Leave(t, place, result)
  PROVE  FramesFit'
  <1>1. frame[t] \in Frame
    BY DEF FramesFit
  <1> DEFINE g == [frame[t] EXCEPT !.result = result]
  <1>2. g \in Frame /\ SameNumbers(g, frame[t])
    BY <1>1, ResultFrame
  <1>3. Goto(t, place) /\ frame' = [frame EXCEPT ![t] = g]
    BY DEF Leave
  <1> HIDE DEF g
  <1>4. QED
    BY <1>2, <1>3, QuietFrame

(* A new frame is a frame, with nothing in it.                              *)
LEMMA NewFrameType ==
  ASSUME NEW op \in {"none", "compress", "decompress", "close", "getLevel"}
  PROVE  /\ NewFrame(op) \in Frame
         /\ \A place \in Places : LocalsFit(NewFrame(op), place)
  <1>1. NewFrame(op) \in Frame
    BY DEF NewFrame, Frame, Results
  <1>2. \A place \in Places : LocalsFit(NewFrame(op), place)
    BY DEF NewFrame, LocalsFit, HasNativeAddress
  <1>3. QED
    BY <1>1, <1>2

(* The frame that a call begins with is a frame that fits.                  *)
LEMMA CallFrameType ==
  ASSUME NEW op \in {"compress", "decompress"}, NEW finish \in BOOLEAN,
         NEW inKind \in InKinds, NEW outKind \in OutKinds, NEW size \in InSizes,
         NEW room \in OutSizes, NEW place \in {"blocked", "done"}
  PROVE  /\ CallFrame(op, finish, inKind, outKind, size, room) \in Frame
         /\ LocalsFit(CallFrame(op, finish, inKind, outKind, size, room), place)
  <1> DEFINE f == CallFrame(op, finish, inKind, outKind, size, room)
  <1>1. /\ inKind \in {"heap", "direct"} /\ outKind \in {"heap", "direct", "null"}
        /\ size \in Nat /\ room[1] \in Nat /\ room[2] \in Nat /\ room[1] <= room[2]
    BY BuffersAssumption
  <1>2. f \in Frame
    <2>1. PICK new \in Frame : new = NewFrame(op)
      BY NewFrameType
    <2>2. PICK readable \in Int, writable \in Int, maxWritable \in Int :
            readable = size /\ writable = room[1] /\ maxWritable = room[2]
      BY <1>1
    <2>3. CASE outKind = "null"
      <3>1. f = [new EXCEPT !.outKind = "null", !.retained = {"in"},
                            !.result = "NullPointer"]
        BY <2>1, <2>3 DEF CallFrame
      <3>2. "NullPointer" \in Results
        BY DEF Results, Thrown
      <3> HIDE DEF f
      <3>3. QED
        BY <3>1, <3>2 DEF Frame
    <2>4. CASE outKind # "null"
      <3>1. f = [new EXCEPT !.finish = finish, !.inKind = inKind, !.outKind = outKind,
                            !.readable = readable, !.writable = writable,
                            !.maxWritable = maxWritable, !.retained = {"in", "out"}]
        BY <2>1, <2>2, <2>4 DEF CallFrame
      <3> HIDE DEF f
      <3>2. QED
        BY <1>1, <3>1 DEF Frame
    <2>5. QED
      BY <2>3, <2>4
  <1>3. LocalsFit(f, place)
    BY <1>1 DEF CallFrame, NewFrame, LocalsFit
  <1>4. QED
    BY <1>2, <1>3

(* The beginning of a call keeps all frames.                                *)
LEMMA BeginCallFrames ==
  ASSUME FramesFit, NEW t \in Threads, BeginCall(t)
  PROVE  FramesFit'
  <1>1. PICK op \in {"compress", "decompress"}, finish \in BOOLEAN,
             inKind \in InKinds, outKind \in OutKinds, size \in InSizes,
             room \in OutSizes :
          /\ Goto(t, IF outKind = "null" THEN "done" ELSE "blocked")
          /\ frame' = [frame EXCEPT ![t] =
                         CallFrame(op, finish, inKind, outKind, size, room)]
    BY DEF BeginCall
  <1> DEFINE place == IF outKind = "null" THEN "done" ELSE "blocked"
  <1>2. place \in {"blocked", "done"} /\ place \in Places
    BY DEF Places
  <1>3. Goto(t, place)
    BY <1>1
  <1> DEFINE f == CallFrame(op, finish, inKind, outKind, size, room)
  <1> HIDE DEF place
  <1>4. f \in Frame /\ LocalsFit(f, place)
    BY <1>2, CallFrameType
  <1> HIDE DEF f
  <1>5. frame' = [frame EXCEPT ![t] = f]
    BY <1>1 DEF f
  <1>6. QED
    BY <1>2, <1>3, <1>4, <1>5, OneFrame

(* Entering the compressor's monitor keeps all frames, whether the state is  *)
(* the right one, the bounce buffers are allocated or their allocation fails. *)
LEMMA EnterMonitorFrames ==
  ASSUME FramesFit, NEW t \in Threads, EnterMonitor(t)
  PROVE  FramesFit'
  <1>1. frame[t] \in Frame
    BY DEF FramesFit
  <1>2. ASSUME NEW place \in {"fill", "exit"}, NEW g \in Frame, SameNumbers(g, frame[t]),
               Goto(t, place), frame' = [frame EXCEPT ![t] = g]
        PROVE  FramesFit'
    BY <1>2, QuietFrame DEF Quiet
  <1>3. CASE Leave(t, "exit", "IllegalState")
    BY <1>3, LeaveFrame DEF Quiet, Results, Thrown
  <1>4. CASE /\ Goto(t, "fill")
             /\ frame' = [frame EXCEPT ![t].bounces =
                            IF HasNativeAddress(frame[t]) THEN {} ELSE {"in", "out"}]
    <2> DEFINE bounces == IF HasNativeAddress(frame[t]) THEN {} ELSE {"in", "out"}
    <2>1. bounces \in SUBSET {"in", "out"}
      OBVIOUS
    <2>2. frame' = [frame EXCEPT ![t] = [frame[t] EXCEPT !.bounces = bounces]]
      BY <1>4
    <2> HIDE DEF bounces
    <2>3. QED
      BY <1>1, <1>2, <1>4, <2>1, <2>2, ResultFrame DEF Results
  <1>5. CASE /\ Goto(t, "exit")
             /\ \E made \in {{}, {"in"}} :
                  frame' = [frame EXCEPT ![t].bounces = made,
                                         ![t].result = "AllocationFailed"]
    <2>1. PICK made \in SUBSET {"in", "out"} :
            frame' = [frame EXCEPT ![t].bounces = made, ![t].result = "AllocationFailed"]
      BY <1>5
    <2>2. frame' = [frame EXCEPT ![t] =
            [frame[t] EXCEPT !.bounces = made, !.result = "AllocationFailed"]]
      BY <1>1, <2>1 DEF FramesFit
    <2>3. "AllocationFailed" \in Results
      BY DEF Results, Thrown
    <2>4. QED
      BY <1>1, <1>2, <1>5, <2>2, <2>3, ResultFrame
  <1>6. QED
    BY <1>3, <1>4, <1>5 DEF EnterMonitor

(* Filling the bounce buffer keeps all frames.                              *)
LEMMA PrepareInputFrames ==
  ASSUME FramesFit, NEW t \in Threads, PrepareInput(t)
  PROVE  FramesFit'
  <1>1. frame[t] \in Frame /\ LocalsFit(frame[t], "fill") /\ "room" \in Places
    BY DEF FramesFit, PrepareInput, Places
  <1>2. CASE HasNativeAddress(frame[t])
    <2>1. LocalsFit(frame[t], "room")
      BY <1>1, <1>2 DEF LocalsFit
    <2>2. Goto(t, "room") /\ frame' = [frame EXCEPT ![t] = frame[t]]
      BY <1>2 DEF PrepareInput, FramesFit
    <2>3. QED
      BY <1>1, <2>1, <2>2, OneFrame
  <1>3. CASE ~HasNativeAddress(frame[t])
    <2>1. PICK g \in Frame : g = frame[t]
      BY <1>1
    <2>2. g.readable \in Int /\ g.readable >= 0
      BY <1>1, <2>1 DEF LocalsFit, Frame
    <2>3. PICK chunk \in Int, chunkRead \in Int :
            /\ chunk = Least(g.readable, BufferSize) /\ chunk >= 0 /\ chunk <= g.readable
            /\ chunkRead = 0
      BY <2>2, BuffersAssumption DEF Least
    <2> DEFINE f == [g EXCEPT !.chunk = chunk, !.chunkRead = chunkRead]
    <2>4. Goto(t, "room") /\ frame' = [frame EXCEPT ![t] = f]
      BY <1>3, <2>1, <2>3 DEF PrepareInput
    <2>5. f \in Frame
      BY <2>1, <2>3, ZenonT(60) DEF Frame
    <2>6. LocalsFit(f, "room")
      BY <1>1, <2>1, <2>3 DEF LocalsFit, Frame, HasNativeAddress
    <2> HIDE DEF f
    <2>7. QED
      BY <1>1, <2>4, <2>5, <2>6, OneFrame
  <1>4. QED
    BY <1>2, <1>3

(* Making room in the output keeps all frames: native code is given no more *)
(* room than the output has then.                                           *)
LEMMA PrepareOutputFrames ==
  ASSUME FramesFit, NEW t \in Threads, PrepareOutput(t)
  PROVE  FramesFit'
  <1> DEFINE g == frame[t]
             min == Least(BufferSize, g.maxWritable)
             reader == IF HasNativeAddress(g) THEN 0 ELSE PreparedReader(g, min)
             place == IF reader > 0 THEN "unwind" ELSE "enter"
             result == IF reader > 0 THEN "IndexOutOfBounds" ELSE "none"
  <1>1. g \in Frame /\ LocalsFit(g, "room") /\ place \in Places /\ result \in Results
    BY DEF FramesFit, PrepareOutput, Places, Results, Thrown
  <1>2. min \in Int /\ min >= 0 /\ min <= g.maxWritable
    <2>1. g.maxWritable \in Int /\ g.maxWritable >= 0
      BY <1>1 DEF LocalsFit, Frame
    <2>2. QED
      BY <2>1, BuffersAssumption DEF Least
  <1>3. reader \in Int
    BY <1>1, <1>2 DEF PreparedReader, ClippedReader, Least, Frame
  <1>4. PICK w \in EnsureWritable(g.writable, g.maxWritable, min) :
          frame' = [frame EXCEPT ![t] =
            [g EXCEPT !.writable = w, !.reader = reader,
                      !.nativeLength = IF HasNativeAddress(g) THEN w ELSE min,
                      !.result = result]]
    BY DEF PrepareOutput
  <1>5. w \in Int /\ w >= 0 /\ w >= min /\ w <= g.maxWritable
    BY <1>1, <1>2 DEF EnsureWritable, LocalsFit, Frame
  <1>6. Goto(t, place)
    BY DEF PrepareOutput
  <1> DEFINE length == IF HasNativeAddress(g) THEN w ELSE min
             f == [g EXCEPT !.writable = w, !.reader = reader, !.nativeLength = length,
                            !.result = result]
  <1>7. length \in Int /\ length >= 0 /\ length <= w
    BY <1>2, <1>5
  <1>8. frame' = [frame EXCEPT ![t] = f]
    BY <1>4
  <1> HIDE DEF length, result, place, reader, min
  <1>9. f \in Frame
    BY <1>1, <1>3, <1>5, <1>7 DEF Frame
  <1>10. LocalsFit(f, place)
    BY <1>1, <1>5, <1>7 DEF LocalsFit, Frame, HasNativeAddress, place
  <1> HIDE DEF f, g
  <1>11. QED
    BY <1>1, <1>6, <1>8, <1>9, <1>10, OneFrame

(* Entering the stream keeps all frames.                                    *)
LEMMA EnterStreamFrames ==
  ASSUME FramesFit, NEW t \in Threads, EnterStream(t)
  PROVE  FramesFit'
  <1>1. CASE Leave(t, "unwind", "IllegalState") \/ Leave(t, "unwind", "IllegalArgument")
    BY <1>1, LeaveFrame DEF Quiet, Results, Thrown
  <1>2. CASE Goto(t, "native") /\ frame' = frame
    <2>1. frame[t] \in Frame /\ LocalsFit(frame[t], "enter")
      BY DEF FramesFit, EnterStream
    <2>2. LocalsFit(frame[t], "native") /\ "native" \in Places
      BY <2>1 DEF LocalsFit, Places
    <2>3. frame' = [frame EXCEPT ![t] = frame[t]]
      BY <1>2 DEF FramesFit
    <2>4. QED
      BY <1>2, <2>1, <2>2, <2>3, OneFrame
  <1>3. QED
    BY <1>1, <1>2 DEF EnterStream

(* What a stream has moved only changes what is owed.                       *)
LEMMA OwingType ==
  ASSUME NEW f \in Frame, NEW o \in Outcomes
  PROVE  Owing(f, o) \in Frame /\ SameNumbers(Owing(f, o), f)
  <1>1. PICK consumed \in Int, written \in Int :
          consumed = o.consumed /\ written = o.written
    BY DEF Outcomes
  <1>2. PICK owedIn \in Int, owedOut \in Int :
          owedIn = f.owedIn + consumed /\ owedOut = f.owedOut + written
    BY DEF Frame
  <1>3. Owing(f, o) = [f EXCEPT !.owedIn = owedIn, !.owedOut = owedOut]
    BY <1>1, <1>2 DEF Owing
  <1>4. Owing(f, o) \in Frame
    BY <1>2, <1>3, ZenonT(60) DEF Frame
  <1> DEFINE g == [f EXCEPT !.owedIn = owedIn, !.owedOut = owedOut]
  <1> HIDE DEF g
  <1>5. /\ g.readable = f.readable /\ g.chunk = f.chunk /\ g.chunkRead = f.chunkRead
        /\ g.writable = f.writable /\ g.maxWritable = f.maxWritable
    BY DEF Frame, g
  <1>6. g.nativeLength = f.nativeLength /\ g.written = f.written /\ g.inKind = f.inKind
    BY DEF Frame, g
  <1>7. QED
    BY <1>3, <1>4, <1>5, <1>6 DEF SameNumbers, g

(* The answer of the native call, a status or an exception, keeps all       *)
(* frames.                                                                  *)
LEMMA HandleErrorsFrames ==
  ASSUME FramesFit, NEW t \in Threads, pc[t] = "native", NEW o \in Outcomes,
         HandleErrors(t, o)
  PROVE  FramesFit'
  <1> DEFINE g == Owing(frame[t], o)
  <1>1. frame[t] \in Frame /\ LocalsFit(frame[t], "native")
    BY DEF FramesFit
  <1>2. g \in Frame /\ SameNumbers(g, frame[t])
    BY <1>1, OwingType
  <1>3. CASE Succeeds(o.code)
    <2>1. PICK status \in {"OK", "FINISHED"} :
            frame' = [frame EXCEPT ![t] = [g EXCEPT !.status = status]]
      BY <1>3 DEF HandleErrors, UnlockStream
    <2> DEFINE f == [g EXCEPT !.status = status]
    <2> HIDE DEF g
    <2>2. f \in Frame /\ SameNumbers(f, frame[t])
      BY <1>2 DEF Frame, SameNumbers
    <2>3. frame' = [frame EXCEPT ![t] = f]
      BY <2>1
    <2> HIDE DEF f
    <2>4. LocalsFit(f, "leave") /\ "leave" \in Places
      BY <1>1, <2>2 DEF LocalsFit, SameNumbers, HasNativeAddress, Places
    <2>5. Goto(t, "leave")
      BY <1>3 DEF HandleErrors, UnlockStream
    <2>6. QED
      BY <2>2, <2>3, <2>4, <2>5, OneFrame
  <1>4. CASE ~Succeeds(o.code)
    <2>1. PICK result \in Results :
            frame' = [frame EXCEPT ![t] = [g EXCEPT !.result = result]]
      BY <1>4 DEF HandleErrors, UnlockStream, ExceptionOf, Results, Thrown
    <2> DEFINE f == [g EXCEPT !.result = result]
    <2> HIDE DEF g
    <2>2. f \in Frame /\ SameNumbers(f, frame[t])
      BY <1>2 DEF Frame, SameNumbers
    <2>3. frame' = [frame EXCEPT ![t] = f]
      BY <2>1
    <2> HIDE DEF f
    <2>4. Goto(t, "unwind") /\ "unwind" \in Quiet
      BY <1>4 DEF HandleErrors, UnlockStream, Quiet
    <2>5. QED
      BY <2>2, <2>3, <2>4, QuietFrame
  <1>5. QED
    BY <1>3, <1>4

(* Advancing the indexes by what the communication buffer says keeps all    *)
(* frames.                                                                  *)
LEMMA LeaveStreamFrames ==
  ASSUME FramesFit, CommunicationFits, comm \in [consumed: Nat, written: Nat],
         NEW t \in Threads, LeaveStream(t)
  PROVE  FramesFit'
  <1> DEFINE g == frame[t]
             f == AdvanceIndexes(g)
  <1>1. g \in Frame /\ LocalsFit(g, "leave")
    BY DEF FramesFit, LeaveStream, UnlockStream
  <1>2. /\ comm.consumed \in Nat /\ comm.written \in Nat
        /\ comm.consumed <= AvailIn(g) /\ comm.written <= g.nativeLength
    BY DEF CommunicationFits, LeaveStream, UnlockStream, AvailOut
  <1>3. f \in Frame /\ LocalsFit(f, "drain")
    <2> HIDE DEF g
    <2>1. PICK consumed \in Int, written \in Int :
            /\ consumed = comm.consumed /\ written = comm.written
            /\ 0 <= consumed /\ consumed <= AvailIn(g)
            /\ 0 <= written /\ written <= g.nativeLength
      BY <1>2
    <2> DEFINE readable == g.readable - consumed
               chunk == g.chunk - consumed
               chunkRead == g.chunkRead + consumed
               writable == g.writable - written
               maxWritable == g.maxWritable - written
               owedIn == g.owedIn - consumed
               owedOut == g.owedOut - written
    <2>2. /\ readable \in Int /\ chunk \in Int /\ chunkRead \in Int /\ writable \in Int
          /\ maxWritable \in Int /\ owedIn \in Int /\ owedOut \in Int
      BY <1>1, <2>1 DEF Frame
    <2> HIDE DEF readable, chunk, chunkRead, writable, maxWritable, owedIn, owedOut
    <2>3. CASE HasNativeAddress(g)
      <3>1. f = [g EXCEPT !.readable = readable, !.owedIn = owedIn, !.writable = writable,
                          !.maxWritable = maxWritable, !.owedOut = owedOut,
                          !.written = written]
        BY <2>1, <2>3 DEF AdvanceIndexes, readable, writable, maxWritable, owedIn, owedOut
      <3> HIDE DEF f
      <3>2. f \in Frame
        BY <1>1, <2>1, <2>2, <3>1 DEF Frame
      <3>3. LocalsFit(f, "drain")
        BY <1>1, <2>1, <2>2, <2>3, <3>1
           DEF LocalsFit, AvailIn, HasNativeAddress, Frame, readable, writable, maxWritable
      <3>4. QED
        BY <3>2, <3>3
    <2>4. CASE ~HasNativeAddress(g)
      <3>1. f = [g EXCEPT !.chunk = chunk, !.chunkRead = chunkRead, !.written = written]
        BY <2>1, <2>4 DEF AdvanceIndexes, chunk, chunkRead
      <3> HIDE DEF f
      <3>2. f \in Frame
        BY <1>1, <2>1, <2>2, <3>1 DEF Frame
      <3>3. LocalsFit(f, "drain")
        BY <1>1, <2>1, <2>2, <2>4, <3>1
           DEF LocalsFit, AvailIn, HasNativeAddress, Frame, chunk, chunkRead
      <3>4. QED
        BY <3>2, <3>3
    <2>5. QED
      BY <2>3, <2>4
  <1>4. Goto(t, "drain") /\ frame' = [frame EXCEPT ![t] = f] /\ "drain" \in Places
    BY DEF LeaveStream, UnlockStream, Places
  <1> HIDE DEF f, g
  <1>5. QED
    BY <1>3, <1>4, OneFrame

(* Copying the output from its bounce buffer keeps all frames.              *)
LEMMA AfterNativeCallFrames ==
  ASSUME FramesFit, NEW t \in Threads, AfterNativeCall(t)
  PROVE  FramesFit'
  <1>1. PICK g \in Frame : g = frame[t] /\ LocalsFit(g, "drain")
    BY DEF FramesFit, AfterNativeCall
  <1> DEFINE h == WriteBounce(g)
  <1>2. h \in Frame /\ LocalsFit(h, "settle") /\ LocalsFit(h, "room")
    <2>1. CASE HasNativeAddress(g)
      BY <1>1, <2>1 DEF WriteBounce, LocalsFit
    <2>2. CASE ~HasNativeAddress(g)
      <3> DEFINE writable == g.writable - g.written
                 maxWritable == g.maxWritable - g.written
                 owedOut == g.owedOut - g.written
                 reader == g.written
      <3>1. writable \in Int /\ maxWritable \in Int /\ owedOut \in Int /\ reader \in Int
        BY <1>1 DEF Frame
      <3>2. h = [g EXCEPT !.writable = writable, !.maxWritable = maxWritable,
                          !.owedOut = owedOut, !.reader = reader]
        BY <2>2 DEF WriteBounce
      <3> HIDE DEF writable, maxWritable, owedOut, reader, h
      <3>3. h \in Frame
        BY <1>1, <3>1, <3>2 DEF Frame
      <3>4. LocalsFit(h, "settle") /\ LocalsFit(h, "room")
        BY <1>1, <2>2, <3>1, <3>2
           DEF LocalsFit, HasNativeAddress, Frame, writable, maxWritable
      <3>5. QED
        BY <3>3, <3>4
    <2>3. QED
      BY <2>1, <2>2
  <1> HIDE DEF h
  <1>3. PICK full \in BOOLEAN : full = OutputFull(g)
    BY DEF OutputFull
  <1> DEFINE f == [h EXCEPT !.needsMoreOutput = full]
  <1>4. f \in Frame /\ SameNumbers(f, h)
    BY <1>2, <1>3 DEF Frame, SameNumbers
  <1>5. PICK place \in {"room", "settle"} : Goto(t, place)
    BY DEF AfterNativeCall
  <1>6. frame' = [frame EXCEPT ![t] = f]
    BY <1>1, <1>3 DEF AfterNativeCall, h
  <1> HIDE DEF f
  <1>7. LocalsFit(f, place) /\ place \in Places
    BY <1>2, <1>4, <1>5 DEF LocalsFit, SameNumbers, HasNativeAddress, Places
  <1>8. QED
    BY <1>4, <1>5, <1>6, <1>7, OneFrame

(* Letting the input catch up with its bounce buffer keeps all frames.      *)
LEMMA AfterInnerLoopFrames ==
  ASSUME FramesFit, NEW t \in Threads, AfterInnerLoop(t)
  PROVE  FramesFit'
  <1>1. PICK g \in Frame : g = frame[t] /\ LocalsFit(g, "settle")
    BY DEF FramesFit, AfterInnerLoop
  <1> DEFINE h == ReadBounce(g)
  <1>2. h \in Frame /\ LocalsFit(h, "fill")
    <2>1. CASE HasNativeAddress(g)
      BY <1>1, <2>1 DEF ReadBounce, LocalsFit
    <2>2. CASE ~HasNativeAddress(g)
      <3> DEFINE readable == g.readable - g.chunkRead
                 owedIn == g.owedIn - g.chunkRead
      <3>1. readable \in Int /\ owedIn \in Int
        BY <1>1 DEF Frame
      <3>2. h = [g EXCEPT !.readable = readable, !.owedIn = owedIn]
        BY <2>2 DEF ReadBounce
      <3> HIDE DEF readable, owedIn, h
      <3>3. h \in Frame
        BY <1>1, <3>1, <3>2 DEF Frame
      <3>4. LocalsFit(h, "fill")
        BY <1>1, <2>2, <3>1, <3>2 DEF LocalsFit, HasNativeAddress, Frame, readable
      <3>5. QED
        BY <3>3, <3>4
    <2>3. QED
      BY <2>1, <2>2
  <1> HIDE DEF h
  <1>3. PICK place \in {"fill", "finished", "unwind"}, result \in Results :
          Goto(t, place) /\ frame' = [frame EXCEPT ![t] = [h EXCEPT !.result = result]]
    BY <1>1 DEF AfterInnerLoop, h, Results, Status
  <1> DEFINE f == [h EXCEPT !.result = result]
  <1>4. f \in Frame /\ SameNumbers(f, h)
    BY <1>2, <1>3 DEF Frame, SameNumbers
  <1>5. frame' = [frame EXCEPT ![t] = f]
    BY <1>3
  <1> HIDE DEF f
  <1>6. LocalsFit(f, place) /\ place \in Places
    BY <1>2, <1>3, <1>4 DEF LocalsFit, SameNumbers, Places
  <1>7. QED
    BY <1>3, <1>4, <1>5, <1>6, OneFrame

(* Returning from a call keeps all frames.                                  *)
LEMMA ReturnFrames ==
  ASSUME FramesFit, NEW t \in Threads,
         ReturnFinished(t) \/ ReleaseBounces(t) \/ ExitMonitor(t)
  PROVE  FramesFit'
  <1>1. PICK g \in Frame : g = frame[t] /\ LocalsFit(g, pc[t])
    BY DEF FramesFit
  <1>2. CASE ReturnFinished(t)
    <2>1. PICK result \in {"AssertionError", "FINISHED"} : Leave(t, "unwind", result)
      BY <1>2 DEF ReturnFinished
    <2>2. result \in Results /\ "unwind" \in Quiet
      BY <2>1 DEF Results, Status, Thrown, Quiet
    <2>3. QED
      BY <2>1, <2>2, LeaveFrame
  <1>3. CASE ReleaseBounces(t)
    <2> DEFINE f == [g EXCEPT !.bounces = {}]
    <2>1. "none" \in Results
      BY DEF Results
    <2>2. f \in Frame /\ SameNumbers(f, g)
      BY <2>1, ResultFrame
    <2>3. Goto(t, "exit") /\ frame' = [frame EXCEPT ![t] = f] /\ "exit" \in Quiet
      BY <1>1, <1>3 DEF ReleaseBounces, Quiet
    <2> HIDE DEF f
    <2>4. QED
      BY <1>1, <2>2, <2>3, QuietFrame
  <1>4. CASE ExitMonitor(t)
    <2>1. PICK new \in Frame : new = NewFrame(g.op) /\ LocalsFit(new, "done")
      BY NewFrameType DEF Frame, Places
    <2> DEFINE f == [new EXCEPT !.bounces = g.bounces, !.result = g.result]
    <2>2. g.bounces \in SUBSET {"in", "out"} /\ g.result \in Results
      BY DEF Frame
    <2>3. f \in Frame /\ SameNumbers(f, new)
      BY <2>2, ResultFrame
    <2>4. Goto(t, "done") /\ frame' = [frame EXCEPT ![t] = f] /\ "done" \in Places
      BY <1>1, <1>4, <2>1 DEF ExitMonitor, Places, FramesFit
    <2> HIDE DEF f
    <2>5. LocalsFit(f, "done")
      BY <2>1, <2>3 DEF LocalsFit, SameNumbers
    <2>6. QED
      BY <2>3, <2>4, <2>5, OneFrame
  <1>5. QED
    BY <1>2, <1>3, <1>4

(* close() and getLevel() keep all frames.                                  *)
LEMMA CloseFrames ==
  ASSUME FramesFit, NEW t \in Threads,
         BeginClose(t) \/ MarkClosed(t) \/ FreeCommunication(t) \/ GetLevel(t)
  PROVE  FramesFit'
  <1>1. frame[t] \in Frame /\ LocalsFit(frame[t], pc[t])
    BY DEF FramesFit
  <1>2. ASSUME NEW op \in {"close", "getLevel"}, NEW result \in Results,
               NEW place \in {"done", "closing"}, Goto(t, place),
               frame' = [frame EXCEPT ![t] = [NewFrame(op) EXCEPT !.result = result]]
        PROVE  FramesFit'
    <2>1. PICK new \in Frame : new = NewFrame(op) /\ LocalsFit(new, place)
      BY NewFrameType DEF Places
    <2> DEFINE f == [new EXCEPT !.result = result]
    <2>2. f \in Frame /\ SameNumbers(f, new)
      BY ResultFrame
    <2>3. frame' = [frame EXCEPT ![t] = f] /\ place \in Places
      BY <1>2, <2>1 DEF Places
    <2> HIDE DEF f
    <2>4. LocalsFit(f, place)
      BY <2>1, <2>2 DEF LocalsFit, SameNumbers
    <2>5. QED
      BY <1>2, <2>2, <2>3, <2>4, OneFrame
  <1>3. CASE BeginClose(t)
    <2>1. CASE Goto(t, "closing") /\ frame' = [frame EXCEPT ![t] = NewFrame("close")]
      <3>1. NewFrame("close") \in Frame /\ LocalsFit(NewFrame("close"), "closing")
        BY NewFrameType DEF Places
      <3>2. "closing" \in Places
        BY DEF Places
      <3>3. QED
        BY <2>1, <3>1, <3>2, OneFrame
    <2>2. "IllegalArgument" \in Results
      BY DEF Results, Thrown
    <2>3. QED
      BY <1>2, <1>3, <2>1, <2>2 DEF BeginClose
  <1>4. CASE MarkClosed(t)
    <2>1. Goto(t, "freeing") /\ frame' = [frame EXCEPT ![t] = frame[t]]
      BY <1>4 DEF MarkClosed, FramesFit
    <2>2. SameNumbers(frame[t], frame[t]) /\ "freeing" \in Quiet
      BY DEF SameNumbers, Quiet
    <2>3. QED
      BY <1>1, <2>1, <2>2, QuietFrame
  <1>5. CASE FreeCommunication(t)
    BY <1>5, LeaveFrame DEF FreeCommunication, UnlockStream, Quiet, Results
  <1>6. CASE GetLevel(t)
    <2>1. PICK result \in {"IllegalArgument", "level"} :
            /\ Goto(t, "done")
            /\ frame' = [frame EXCEPT ![t] = [NewFrame("getLevel") EXCEPT !.result = result]]
      BY <1>6 DEF GetLevel
    <2>2. result \in Results
      BY <2>1 DEF Results, Thrown
    <2>3. QED
      BY <1>2, <2>1, <2>2
  <1>7. QED
    BY <1>3, <1>4, <1>5, <1>6

-----------------------------------------------------------------------------
(* The native call.                                                         *)

(* Whatever zlib answers is an outcome within the room it was given.        *)
LEMMA NativeOutcome ==
  ASSUME SafeInv, NEW t \in Threads, Deflate0(t) \/ Inflate0(t)
  PROVE  \E o \in Outcomes : /\ HandleErrors(t, o)
                             /\ o.consumed <= AvailIn(frame[t])
                             /\ o.written <= AvailOut(frame[t])
  <1>1. PICK f \in Frame : f = frame[t] /\ LocalsFit(f, pc[t])
    BY DEF SafeInv, TypeOK
  <1>2. AvailIn(f) \in Nat /\ AvailOut(f) \in Nat /\ f.finish \in BOOLEAN
    BY <1>1 DEF LocalsFit, AvailIn, AvailOut, Frame
  <1>3. z \in ZStream
    BY DEF SafeInv, TypeOK
  <1>4. CASE Deflate0(t)
    BY <1>1, <1>2, <1>3, <1>4, DeflateType DEF Deflate0
  <1>5. CASE Inflate0(t)
    BY <1>1, <1>2, <1>3, <1>5, InflateType DEF Inflate0
  <1>6. QED
    BY <1>4, <1>5

(* No other thread is inside while one is.                                  *)
LEMMA Alone ==
  ASSUME Guarded, NEW t \in Threads, InNativeCode(t), NEW s \in Threads \ {t}
  PROVE  pc[s] \notin {"native", "leave", "closing", "freeing"}
  BY DEF Guarded, InNativeCode

(* Every step keeps what the communication buffer says within the room.     *)
LEMMA CommunicationStep == SafeInv /\ [Next]_vars => CommunicationFits'
  <1> SUFFICES ASSUME SafeInv, [Next]_vars
               PROVE  CommunicationFits'
    OBVIOUS
  <1>1. pc \in [Threads -> Places] /\ frame \in [Threads -> Frame] /\ Guarded
    BY DEF SafeInv, TypeOK
  <1>2. ASSUME UNCHANGED comm,
               \A s \in Threads : pc'[s] = "leave" => pc[s] = "leave" /\ frame'[s] = frame[s]
        PROVE  CommunicationFits'
    BY <1>2 DEF SafeInv, CommunicationFits, AvailIn, AvailOut, HasNativeAddress
  <1>3. ASSUME NEW t \in Threads, BeginCall(t) \/ BeginClose(t) \/ GetLevel(t)
        PROVE  CommunicationFits'
    BY <1>1, <1>2, <1>3 DEF BeginCall, BeginClose, GetLevel, NewCall, Goto
  <1>4. ASSUME NEW t \in Threads,
               \/ EnterMonitor(t) \/ PrepareInput(t) \/ PrepareOutput(t) \/ EnterStream(t)
        PROVE  CommunicationFits'
    BY <1>1, <1>2, <1>4 DEF EnterMonitor, PrepareInput, PrepareOutput, EnterStream, Leave, Goto
  <1>5. ASSUME NEW t \in Threads, Deflate0(t) \/ Inflate0(t)
        PROVE  CommunicationFits'
    <2>1. PICK o \in Outcomes : /\ HandleErrors(t, o)
                                /\ o.consumed <= AvailIn(frame[t])
                                /\ o.written <= AvailOut(frame[t])
      BY <1>5, NativeOutcome
    <2>2. pc[t] = "native"
      BY <1>5 DEF Deflate0, Inflate0
    <2>3. \A s \in Threads \ {t} : pc'[s] # "leave"
      BY <1>1, <2>1, <2>2, Alone DEF HandleErrors, UnlockStream, Goto, InNativeCode
    <2>4. CASE pc'[t] = "leave"
      <3>1. /\ frame'[t].inKind = frame[t].inKind
            /\ frame'[t].readable = frame[t].readable
            /\ frame'[t].chunk = frame[t].chunk
            /\ frame'[t].nativeLength = frame[t].nativeLength
        <4>1. PICK f \in Frame : f = frame[t]
          BY <1>1
        <4>2. PICK g \in Frame : g = Owing(f, o) /\ SameNumbers(g, f)
          BY OwingType
        <4>3. PICK status, result : frame'[t] \in {[g EXCEPT !.status = status],
                                                   [g EXCEPT !.result = result]}
          BY <1>1, <2>1, <4>1, <4>2 DEF HandleErrors, UnlockStream
        <4>4. QED
          BY <4>1, <4>2, <4>3 DEF SameNumbers, Frame
      <3>2. comm' = [consumed |-> o.consumed, written |-> o.written]
        BY <2>1 DEF HandleErrors, UnlockStream
      <3>3. comm'.consumed <= AvailIn(frame'[t]) /\ comm'.written <= AvailOut(frame'[t])
        BY <2>1, <3>1, <3>2 DEF AvailIn, AvailOut, HasNativeAddress
      <3>4. QED
        BY <2>3, <3>3 DEF CommunicationFits, AvailIn, AvailOut, HasNativeAddress
    <2>5. CASE pc'[t] # "leave"
      BY <2>3, <2>5 DEF CommunicationFits
    <2>6. QED
      BY <2>4, <2>5
  <1>6. ASSUME NEW t \in Threads,
               \/ LeaveStream(t) \/ AfterNativeCall(t) \/ AfterInnerLoop(t)
               \/ ReturnFinished(t) \/ ReleaseBounces(t) \/ ExitMonitor(t)
        PROVE  CommunicationFits'
    BY <1>1, <1>2, <1>6
       DEF LeaveStream, UnlockStream, AfterNativeCall, AfterInnerLoop, ReturnFinished, ReleaseBounces,
           ExitMonitor, Leave, Goto
  <1>7. ASSUME NEW t \in Threads, MarkClosed(t) \/ FreeCommunication(t)
        PROVE  CommunicationFits'
    BY <1>1, <1>2, <1>7 DEF MarkClosed, FreeCommunication, UnlockStream, Leave, Goto
  <1>8. CASE UNCHANGED vars
    BY <1>2, <1>8 DEF vars
  <1>9. QED
    BY <1>3, <1>4, <1>5, <1>6, <1>7, <1>8 DEF Next, Work, Call, Rest

-----------------------------------------------------------------------------
(* The invariant.                                                           *)

(* Every step keeps the frames.                                             *)
LEMMA FramesStep == SafeInv /\ [Next]_vars => FramesFit'
  <1> SUFFICES ASSUME SafeInv, [Next]_vars
               PROVE  FramesFit'
    OBVIOUS
  <1>1. FramesFit /\ CommunicationFits /\ comm \in [consumed: Nat, written: Nat]
    BY DEF SafeInv, TypeOK, FramesFit
  <1>2. ASSUME NEW t \in Threads, Deflate0(t) \/ Inflate0(t)
        PROVE  FramesFit'
    <2>1. PICK o \in Outcomes : HandleErrors(t, o)
      BY <1>2, NativeOutcome
    <2>2. pc[t] = "native"
      BY <1>2 DEF Deflate0, Inflate0
    <2>3. QED
      BY <1>1, <2>1, <2>2, HandleErrorsFrames
  <1>3. ASSUME NEW t \in Threads, Call(t)
        PROVE  FramesFit'
    BY <1>1, <1>3, BeginCallFrames, CloseFrames DEF Call
  <1>4. ASSUME NEW t \in Threads, Work(t)
        PROVE  FramesFit'
    BY <1>1, <1>2, <1>4, EnterMonitorFrames, PrepareInputFrames, PrepareOutputFrames,
       EnterStreamFrames, LeaveStreamFrames, AfterNativeCallFrames, AfterInnerLoopFrames,
       ReturnFrames, CloseFrames DEF Work
  <1>5. CASE UNCHANGED vars
    BY <1>1, <1>5 DEF FramesFit, LocalsFit, HasNativeAddress, vars
  <1>6. QED
    BY <1>3, <1>4, <1>5 DEF Next, Rest

(* Every step keeps the types.                                              *)
LEMMA TypeStep == SafeInv /\ [Next]_vars => TypeOK'
  <1> SUFFICES ASSUME SafeInv, [Next]_vars
               PROVE  TypeOK'
    OBVIOUS
  <1>1. TypeOK /\ FramesFit'
    BY FramesStep DEF SafeInv
  <1>2. pc' \in [Threads -> Places] /\ frame' \in [Threads -> Frame]
    BY <1>1 DEF FramesFit
  <1>3. ASSUME NEW t \in Threads, Call(t)
        PROVE  TypeOK'
    <2>1. calls' \in 0 .. MaxCalls
      BY <1>1, <1>3, BoundsAssumption
         DEF TypeOK, Call, NewCall, BeginCall, BeginClose, GetLevel
    <2>2. streamLock' \in Threads \cup {NoThread}
      BY <1>1, <1>3 DEF TypeOK, Call, BeginCall, BeginClose, GetLevel
    <2>3. UNCHANGED <<state, thisLock, comm, frees, z>>
      BY <1>3 DEF Call, BeginCall, BeginClose, GetLevel
    <2>4. QED
      BY <1>1, <1>2, <2>1, <2>2, <2>3 DEF TypeOK
  <1>4. ASSUME NEW t \in Threads, Deflate0(t) \/ Inflate0(t)
        PROVE  TypeOK'
    <2>1. PICK o \in Outcomes : HandleErrors(t, o)
      BY <1>4, NativeOutcome
    <2>2. o.consumed \in Nat /\ o.written \in Nat /\ o.stream \in ZStream
      BY DEF Outcomes
    <2>3. /\ z' = o.stream
          /\ comm' = [consumed |-> o.consumed, written |-> o.written]
          /\ streamLock' \in {streamLock, NoThread}
          /\ UNCHANGED <<state, thisLock, frees, calls>>
      BY <2>1 DEF HandleErrors, UnlockStream
    <2>4. QED
      BY <1>1, <1>2, <2>2, <2>3 DEF TypeOK
  <1>5. ASSUME NEW t \in Threads, LeaveStream(t)
        PROVE  TypeOK'
    BY <1>1, <1>2, <1>5 DEF TypeOK, LeaveStream, UnlockStream, StateAfter, State
  <1>6. ASSUME NEW t \in Threads,
               \/ EnterMonitor(t) \/ PrepareInput(t) \/ PrepareOutput(t) \/ EnterStream(t)
        PROVE  TypeOK'
    BY <1>1, <1>2, <1>6 DEF TypeOK, EnterMonitor, PrepareInput, PrepareOutput, EnterStream
  <1>7. ASSUME NEW t \in Threads,
               \/ AfterNativeCall(t) \/ AfterInnerLoop(t) \/ ReturnFinished(t)
               \/ ReleaseBounces(t) \/ ExitMonitor(t)
        PROVE  TypeOK'
    BY <1>1, <1>2, <1>7
       DEF TypeOK, AfterNativeCall, AfterInnerLoop, ReturnFinished, ReleaseBounces, ExitMonitor
  <1>8. ASSUME NEW t \in Threads, MarkClosed(t) \/ FreeCommunication(t)
        PROVE  TypeOK'
    BY <1>1, <1>2, <1>8 DEF TypeOK, MarkClosed, FreeCommunication, UnlockStream, State
  <1>9. CASE UNCHANGED vars
    BY <1>1, <1>9 DEF TypeOK, vars
  <1>10. QED
    BY <1>3, <1>4, <1>5, <1>6, <1>7, <1>8, <1>9 DEF Next, Work, Rest

(* The invariant holds of a new compressor.                                 *)
LEMMA InitSafeInv == Init => SafeInv
  <1> SUFFICES ASSUME Init
               PROVE  SafeInv
    OBVIOUS
  <1>1. NewFrame("none") \in Frame /\ \A place \in Places : LocalsFit(NewFrame("none"), place)
    BY NewFrameType
  <1>2. TypeOK
    BY <1>1, FreshStreamType, BuffersAssumption, BoundsAssumption
       DEF Init, TypeOK, State, Places
  <1>3. Guarded /\ CommunicationFits
    BY DEF Init, Guarded, InNativeCode, CommunicationFits
  <1>4. \A t \in Threads : LocalsFit(frame[t], pc[t])
    BY <1>1 DEF Init, Places
  <1>5. QED
    BY <1>2, <1>3, <1>4 DEF SafeInv

(* Every step preserves it.                                                 *)
LEMMA NextSafeInv == SafeInv /\ [Next]_vars => SafeInv'
  BY GuardedStep, FramesStep, TypeStep, CommunicationStep DEF SafeInv, FramesFit

(* It holds in every state of every execution: for any number of threads,   *)
(* calls, buffers and sizes.                                                *)
THEOREM SafeInvariance == Spec => []SafeInv
  BY InitSafeInv, NextSafeInv, PTL DEF Spec

(* Every variable keeps its type.                                           *)
THEOREM TypeCorrect == Spec => []TypeOK
  <1>1. SafeInv => TypeOK
    BY DEF SafeInv
  <1>2. QED
    BY <1>1, SafeInvariance, PTL

(* No thread is in native code, or about to read what native code stored,   *)
(* when the communication buffer has been freed.                            *)
THEOREM MemorySafe == Spec => []NoUseAfterFree
  <1>1. SafeInv => NoUseAfterFree
    BY DEF SafeInv, Guarded, NoUseAfterFree, InNativeCode, Required
  <1>2. QED
    BY <1>1, SafeInvariance, PTL

(* The communication buffer is never freed twice.                           *)
THEOREM NoDoubleFree == Spec => []FreedOnce
  <1>1. SafeInv => FreedOnce
    BY DEF SafeInv, Guarded, FreedOnce
  <1>2. QED
    BY <1>1, SafeInvariance, PTL

(* No update of an index leaves its buffer.                                 *)
THEOREM IndexSafe == Spec => []IndexesInBounds
  <1>1. SafeInv => IndexesInBounds
    BY DEF SafeInv, LocalsFit, IndexesInBounds
  <1>2. QED
    BY <1>1, SafeInvariance, PTL

-----------------------------------------------------------------------------
(* The refinement of ExclusiveStream.                                       *)

\* The refinement mapping.
phaseBar == CASE state = "CLOSED" -> "closed"
              [] state = "FINISHED" -> "finished"
              [] OTHER -> "open"

insideBar == {t \in Threads : InNativeCode(t)}

memoryBar == IF frees = 0 THEN "live" ELSE "freed"

(* A step that leaves the stream's part of the state alone, and moves no    *)
(* thread into or out of native code, is a stutter.                         *)
LEMMA Stutter ==
  ASSUME UNCHANGED <<state, frees>>,
         \A s \in Threads : InNativeCode(s)' <=> InNativeCode(s)
  PROVE  UNCHANGED Exclusive!streamVars
  <1>1. insideBar' = insideBar
    BY DEF insideBar
  <1>2. phaseBar' = phaseBar /\ memoryBar' = memoryBar
    BY DEF phaseBar, memoryBar
  <1>3. QED
    BY <1>1, <1>2 DEF Exclusive!streamVars, insideBar, phaseBar, memoryBar

(* A thread that is alone inside and leaves takes an Exit step, whether the *)
(* stream is finished then or stays as it was.                              *)
LEMMA ExitStep ==
  ASSUME SafeInv, NEW t \in Threads, InNativeCode(t), ~InNativeCode(t)',
         \A s \in Threads \ {t} : pc'[s] = pc[s],
         UNCHANGED frees, state' \in {state, "FINISHED"}
  PROVE  Exclusive!Exit(t)
  <1>1. insideBar = {t} /\ insideBar' = {}
    BY Alone DEF SafeInv, insideBar, InNativeCode
  <1>2. phaseBar' \in {phaseBar, "finished"}
    BY DEF phaseBar
  <1>3. UNCHANGED memoryBar
    BY DEF memoryBar
  <1>4. QED
    BY <1>1, <1>2, <1>3 DEF Exclusive!Exit, insideBar, phaseBar, memoryBar

(* Every step is a step of ExclusiveStream or leaves its variables alone.   *)
LEMMA RefinementStep == SafeInv /\ [Next]_vars => [Exclusive!Next]_Exclusive!streamVars
  <1> SUFFICES ASSUME SafeInv, [Next]_vars
               PROVE  Exclusive!Next \/ UNCHANGED Exclusive!streamVars
    BY DEF Exclusive!Next
  <1>1. pc \in [Threads -> Places] /\ frame \in [Threads -> Frame] /\ Guarded
    BY DEF SafeInv, TypeOK
  <1>2. ASSUME NEW t \in Threads, Call(t)
        PROVE  UNCHANGED Exclusive!streamVars
    BY <1>1, <1>2, Stutter
       DEF Call, BeginCall, BeginClose, GetLevel, NewCall, Goto, InNativeCode
  <1>3. ASSUME NEW t \in Threads,
               \/ EnterMonitor(t) \/ PrepareInput(t) \/ PrepareOutput(t)
               \/ AfterNativeCall(t) \/ AfterInnerLoop(t) \/ ReturnFinished(t)
               \/ ReleaseBounces(t) \/ ExitMonitor(t)
        PROVE  UNCHANGED Exclusive!streamVars
    BY <1>1, <1>3, Stutter
       DEF EnterMonitor, PrepareInput, PrepareOutput, AfterNativeCall, AfterInnerLoop,
           ReturnFinished, ReleaseBounces, ExitMonitor, Leave, Goto, InNativeCode
  <1>4. ASSUME NEW t \in Threads, EnterStream(t)
        PROVE  Exclusive!Next \/ UNCHANGED Exclusive!streamVars
    <2>1. CASE Leave(t, "unwind", "IllegalState") \/ Leave(t, "unwind", "IllegalArgument")
      BY <1>1, <1>4, <2>1, Stutter DEF EnterStream, Leave, Goto, InNativeCode
    <2>2. CASE Goto(t, "native") /\ state = Required(frame[t].op)
      <3>1. insideBar = {}
        BY <1>1, <1>4, ThreadsAssumption DEF EnterStream, Available, Guarded, insideBar
      <3>2. insideBar' = {t}
        BY <1>1, <2>2, <3>1 DEF Goto, insideBar, InNativeCode
      <3>3. phaseBar = "open" /\ phaseBar' = "open" /\ memoryBar' = memoryBar
        BY <1>4, <2>2 DEF EnterStream, Required, phaseBar, memoryBar
      <3>4. Exclusive!Enter(t)
        BY <3>1, <3>2, <3>3 DEF Exclusive!Enter, insideBar, phaseBar, memoryBar
      <3>5. QED
        BY <3>4 DEF Exclusive!Next
    <2>3. QED
      BY <1>4, <2>1, <2>2 DEF EnterStream, RequireState
  <1>5. ASSUME NEW t \in Threads, Deflate0(t) \/ Inflate0(t)
        PROVE  Exclusive!Next \/ UNCHANGED Exclusive!streamVars
    <2>1. PICK o \in Outcomes : HandleErrors(t, o)
      BY <1>5, NativeOutcome
    <2>2. pc[t] = "native" /\ UNCHANGED <<state, frees>>
      BY <1>5, <2>1 DEF Deflate0, Inflate0, HandleErrors, UnlockStream
    <2>3. CASE Goto(t, "leave")
      BY <1>1, <2>2, <2>3, Stutter DEF Goto, InNativeCode
    <2>4. CASE Goto(t, "unwind")
      BY <1>1, <2>2, <2>4, ExitStep DEF Goto, InNativeCode, Exclusive!Next
    <2>5. QED
      BY <2>1, <2>3, <2>4 DEF HandleErrors, UnlockStream
  <1>6. ASSUME NEW t \in Threads, LeaveStream(t)
        PROVE  Exclusive!Next
    BY <1>1, <1>6, ExitStep DEF LeaveStream, UnlockStream, StateAfter, Goto, InNativeCode, Exclusive!Next
  <1>7. ASSUME NEW t \in Threads, MarkClosed(t)
        PROVE  Exclusive!Next
    <2>1. insideBar = {} /\ insideBar' = {}
      BY <1>1, <1>7 DEF MarkClosed, Goto, Guarded, insideBar, InNativeCode
    <2>2. phaseBar # "closed" /\ phaseBar' = "closed" /\ memoryBar' = memoryBar
      BY <1>7, <1>1 DEF MarkClosed, Guarded, phaseBar, memoryBar
    <2>3. QED
      BY <2>1, <2>2 DEF Exclusive!Next, Exclusive!Close, insideBar, phaseBar, memoryBar
  <1>8. ASSUME NEW t \in Threads, FreeCommunication(t)
        PROVE  Exclusive!Next
    <2>1. insideBar' = insideBar
      BY <1>1, <1>8 DEF FreeCommunication, UnlockStream, Leave, Goto, insideBar, InNativeCode
    <2>2. phaseBar = "closed" /\ phaseBar' = "closed"
      BY <1>1, <1>8 DEF FreeCommunication, UnlockStream, Guarded, phaseBar
    <2>3. memoryBar = "live" /\ memoryBar' = "freed"
      BY <1>1, <1>8 DEF FreeCommunication, UnlockStream, Guarded, memoryBar
    <2>4. QED
      BY <2>1, <2>2, <2>3 DEF Exclusive!Next, Exclusive!Free, insideBar, phaseBar, memoryBar
  <1>9. CASE UNCHANGED vars
    BY <1>9, Stutter DEF vars, InNativeCode
  <1>10. QED
    BY <1>2, <1>3, <1>4, <1>5, <1>6, <1>7, <1>8, <1>9 DEF Next, Work, Rest

(* The compressor implements ExclusiveStream: one thread at a time is in    *)
(* native code, only while the stream is open, and the memory native code   *)
(* writes to is freed once, after the stream has been closed.               *)
THEOREM Refinement == Spec => ExclusiveSpec
  <1>1. Init => Exclusive!Init
    BY BuffersAssumption DEF Init, Exclusive!Init, InNativeCode
  <1>2. QED
    BY <1>1, SafeInvariance, RefinementStep, PTL DEF Spec, ExclusiveSpec, Exclusive!Spec

=============================================================================
