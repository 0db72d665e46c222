-------------------------- MODULE NativeStatusProofs --------------------------
(***************************************************************************)
(* What the statuses and the exceptions of NativeCompressor say about the   *)
(* buffers and about zlib, for any number of threads, calls, buffers and    *)
(* sizes: the second half of its inductive invariant, on top of SafeInv,    *)
(* the properties that follow from it, and that calls do not mix.           *)
(***************************************************************************)
EXTENDS NativeCompressorProofs

-----------------------------------------------------------------------------
(* One thread takes a step.                                                 *)

\* The state of the stream is never set back to an open one.
Later == state' \in {state, "FINISHED", "CLOSED"}

(* What is known of a call that is not inside the monitor does not depend   *)
(* on what the monitor guards, and a result that is explained stays so.     *)
LEMMA OtherCall ==
  ASSUME NEW f \in Frame, NEW place \in Places, CallFits(f, place), Later,
         place \in InMonitor => comm' = comm /\ z' = z
  PROVE  CallFits(f, place)'
  <1>1. CASE place \in InMonitor
    <2>1. state' = Required(f.op) => state = Required(f.op)
      BY DEF Later, Required
    <2>2. comm' = comm /\ z' = z
      BY <1>1
    <2>3. place = "unwind" => ResultFits(f)'
      BY <2>1, <2>2, Zenon DEF CallFits, ResultFits, Required
    <2>4. OwedFits(f, place)' /\ OutputFits(f, place)' /\ InputFits(f, place)'
      BY <2>2 DEF CallFits, OwedFits, OutputFits, InputFits, HasNativeAddress, AvailIn
    <2>5. QED
      BY <2>3, <2>4 DEF CallFits, HeldFits
  <1>2. CASE place \notin InMonitor
    BY <1>2 DEF CallFits, OwedFits, OutputFits, InputFits, HeldFits, HasNativeAddress, InMonitor
  <1>3. QED
    BY <1>1, <1>2

(* A step of one thread, which owns the compressor's monitor or touches     *)
(* nothing that it guards, keeps the invariant if its own call still fits.  *)
LEMMA OneCall ==
  ASSUME IInv, NEW t \in Threads, NEW f \in Frame, NEW place \in Places,
         Goto(t, place), frame' = [frame EXCEPT ![t] = f], Later,
         \/ thisLock' = thisLock
         \/ thisLock = NoThread /\ thisLock' = t
         \/ thisLock = t /\ thisLock' = NoThread,
         thisLock = t \/ (comm' = comm /\ z' = z),
         place \in InMonitor => thisLock' = t,
         StateAgreesWithZlib', CallFits(f, place)'
  PROVE  StatusInv'
  <1>1. /\ pc \in [Threads -> Places] /\ frame \in [Threads -> Frame]
        /\ \A u \in Threads : pc[u] \in InMonitor => thisLock = u
        /\ \A u \in Threads : CallFits(frame[u], pc[u])
    BY DEF IInv, SafeInv, TypeOK, StatusInv
  <1>2. pc'[t] = place /\ frame'[t] = f
    BY <1>1 DEF Goto
  <1>3. \A u \in Threads \ {t} : pc'[u] = pc[u] /\ frame'[u] = frame[u]
    BY <1>1 DEF Goto
  <1>4. \A u \in Threads : pc'[u] \in InMonitor => thisLock' = u
    BY <1>1, <1>2, <1>3, ThreadsAssumption
  <1>5. ASSUME NEW u \in Threads
        PROVE  CallFits(frame[u], pc[u])'
    <2>1. CASE u = t
      BY <1>2, <2>1
         DEF CallFits, OwedFits, OutputFits, InputFits, ResultFits, HeldFits, HasNativeAddress, AvailIn
    <2>2. CASE u # t
      <3>1. pc[u] \in InMonitor => comm' = comm /\ z' = z
        BY <1>1, <2>2
      <3>2. PICK g \in Frame, p \in Places : g = frame[u] /\ p = pc[u]
        BY <1>1
      <3>3. CallFits(g, p)'
        BY <1>1, <3>1, <3>2, OtherCall
      <3>4. g = frame'[u] /\ p = pc'[u]
        BY <1>3, <2>2, <3>2
      <3>5. QED
        BY <3>3, <3>4
           DEF CallFits, OwedFits, OutputFits, InputFits, ResultFits, HeldFits, HasNativeAddress, AvailIn
    <2>3. QED
      BY <2>1, <2>2
  <1>6. QED
    BY <1>4, <1>5 DEF StatusInv

(* What is known of a call and of what the monitors guard, for the proofs   *)
(* of its steps.                                                            *)
LEMMA CallFacts ==
  ASSUME IInv, NEW t \in Threads
  PROVE  /\ TypeOK /\ Guarded /\ StateAgreesWithZlib
         /\ frame[t] \in Frame /\ pc[t] \in Places
         /\ LocalsFit(frame[t], pc[t]) /\ CallFits(frame[t], pc[t])
         /\ pc[t] \in InMonitor => thisLock = t
  BY DEF IInv, SafeInv, TypeOK, StatusInv

(* A step that leaves the stream, its state and the communication buffer    *)
(* alone keeps the invariant if its own call still fits.                    *)
LEMMA PlainStep ==
  ASSUME IInv, NEW t \in Threads, NEW f \in Frame, NEW place \in Places,
         pc[t] # "leave", Goto(t, place), frame' = [frame EXCEPT ![t] = f],
         UNCHANGED <<state, comm, z>>,
         \/ thisLock' = thisLock
         \/ thisLock = NoThread /\ thisLock' = t
         \/ thisLock = t /\ thisLock' = NoThread,
         place \in InMonitor => thisLock' = t,
         CallFits(f, place)
  PROVE  StatusInv'
  <1>1. Later
    BY DEF Later
  <1>2. CallFits(f, place)'
    BY <1>1, OtherCall
  <1>3. StateAgreesWithZlib'
    <2>1. TypeOK /\ StateAgreesWithZlib
      BY CallFacts
    <2>2. \A u \in Threads : pc[u] = "leave" => pc'[u] = "leave"
      BY <2>1 DEF TypeOK, Goto
    <2>3. QED
      BY <2>1, <2>2 DEF StateAgreesWithZlib
  <1>4. QED
    BY <1>1, <1>2, <1>3, OneCall

-----------------------------------------------------------------------------
(* The calls, and the way in and out of the monitor.                        *)

(* A call that begins has moved nothing and holds no bounce buffer.         *)
LEMMA BeginCallStatus ==
  ASSUME IInv, NEW t \in Threads, BeginCall(t)
  PROVE  StatusInv'
  <1>1. PICK op \in {"compress", "decompress"}, finish \in BOOLEAN,
             inKind \in InKinds, outKind \in OutKinds, size \in InSizes,
             room \in OutSizes, place \in {"blocked", "done"} :
          /\ place = IF outKind = "null" THEN "done" ELSE "blocked"
          /\ Goto(t, place)
          /\ frame' = [frame EXCEPT ![t] =
                         CallFrame(op, finish, inKind, outKind, size, room)]
    BY DEF BeginCall
  <1>2. PICK f \in Frame : f = CallFrame(op, finish, inKind, outKind, size, room)
    BY CallFrameType
  <1>3. CallFits(f, place)
    BY <1>1, <1>2 DEF CallFrame, NewFrame, CallFits, OwedFits, OutputFits, InputFits, HeldFits
  <1>4. place \in Places /\ place \notin InMonitor
    BY DEF Places, InMonitor
  <1>5. pc[t] # "leave" /\ UNCHANGED <<state, comm, z, thisLock>>
    BY DEF BeginCall, NewCall
  <1>6. QED
    BY <1>1, <1>2, <1>3, <1>4, <1>5, PlainStep

(* close() and getLevel() hold nothing, whatever they answer.               *)
LEMMA CloseStatus ==
  ASSUME IInv, NEW t \in Threads, BeginClose(t) \/ GetLevel(t) \/ FreeCommunication(t)
  PROVE  StatusInv'
  <1>1. ASSUME NEW f \in Frame, NEW place \in {"done", "closing"}, Goto(t, place),
               frame' = [frame EXCEPT ![t] = f], CallFits(f, place)
        PROVE  StatusInv'
    <2>1. place \in Places /\ place \notin InMonitor
      BY DEF Places, InMonitor
    <2>2. pc[t] # "leave" /\ UNCHANGED <<state, comm, z, thisLock>>
      BY DEF BeginClose, GetLevel, FreeCommunication, NewCall
    <2>3. QED
      BY <1>1, <2>1, <2>2, PlainStep
  <1>2. ASSUME NEW op \in {"close", "getLevel"}, NEW result \in Results,
               NEW place \in {"done", "closing"}, Goto(t, place),
               frame' = [frame EXCEPT ![t] = [NewFrame(op) EXCEPT !.result = result]]
        PROVE  StatusInv'
    <2>1. PICK new \in Frame : new = NewFrame(op)
      BY NewFrameType
    <2>2. PICK f \in Frame : f = [new EXCEPT !.result = result]
      BY ResultFrame
    <2>3. CallFits(f, place)
      BY <2>1, <2>2
         DEF NewFrame, CallFits, OwedFits, OutputFits, InputFits, HeldFits, HasNativeAddress, AvailIn
    <2>4. QED
      BY <1>1, <1>2, <2>1, <2>2, <2>3
  <1>3. CASE BeginClose(t)
    <2>1. CASE Goto(t, "closing") /\ frame' = [frame EXCEPT ![t] = NewFrame("close")]
      <3>1. PICK f \in Frame : f = NewFrame("close")
        BY NewFrameType
      <3>2. CallFits(f, "closing")
        BY <3>1
           DEF NewFrame, CallFits, OwedFits, OutputFits, InputFits, HeldFits, HasNativeAddress, AvailIn
      <3>3. QED
        BY <1>1, <2>1, <3>1, <3>2
    <2>2. "IllegalArgument" \in Results
      BY DEF Results, Thrown
    <2>3. QED
      BY <1>2, <1>3, <2>1, <2>2 DEF BeginClose
  <1>4. CASE GetLevel(t)
    <2>1. PICK result \in {"IllegalArgument", "level"} :
            /\ Goto(t, "done")
            /\ frame' = [frame EXCEPT ![t] = [NewFrame("getLevel") EXCEPT !.result = result]]
      BY <1>4 DEF GetLevel
    <2>2. result \in Results
      BY <2>1 DEF Results, Thrown
    <2>3. QED
      BY <1>2, <2>1, <2>2
  <1>5. CASE FreeCommunication(t)
    <2>1. PICK g \in Frame : g = frame[t] /\ CallFits(g, "freeing")
      BY <1>5, CallFacts DEF FreeCommunication
    <2>2. PICK result \in Results : result = "closed"
      BY DEF Results
    <2>3. PICK f \in Frame : f = [g EXCEPT !.result = result]
      BY ResultFrame
    <2>4. CallFits(f, "done")
      BY <2>1, <2>3
         DEF Frame, CallFits, OwedFits, OutputFits, InputFits, HeldFits, HasNativeAddress, AvailIn
    <2>5. Goto(t, "done") /\ frame' = [frame EXCEPT ![t] = f]
      BY <1>5, <2>1, <2>2, <2>3 DEF FreeCommunication, Leave, TypeOK
    <2>6. QED
      BY <1>1, <2>4, <2>5
  <1>6. QED
    BY <1>3, <1>4, <1>5

(* A call that enters the monitor in the wrong state, or whose allocation   *)
(* fails, holds what it says.                                               *)
LEMMA EnterMonitorStatus ==
  ASSUME IInv, NEW t \in Threads, EnterMonitor(t)
  PROVE  StatusInv'
  <1>1. PICK g \in Frame : g = frame[t] /\ CallFits(g, "blocked")
    BY CallFacts DEF EnterMonitor
  <1>2. ASSUME NEW bounces \in SUBSET {"in", "out"}, NEW result \in Results,
               NEW place \in {"fill", "exit"}, Goto(t, place),
               frame' = [frame EXCEPT ![t] = [g EXCEPT !.bounces = bounces, !.result = result]],
               place = "exit" /\ result # "AllocationFailed" => bounces = {}
        PROVE  StatusInv'
    <2>1. PICK f \in Frame : f = [g EXCEPT !.bounces = bounces, !.result = result]
      BY ResultFrame
    <2>2. CallFits(f, place)
      BY <1>1, <1>2, <2>1
         DEF Frame, CallFits, OwedFits, OutputFits, InputFits, HeldFits, HasNativeAddress, AvailIn
    <2>3. place \in Places
      BY DEF Places
    <2>4. /\ pc[t] # "leave" /\ UNCHANGED <<state, comm, z>>
          /\ thisLock = NoThread /\ thisLock' = t
      BY DEF EnterMonitor, Available
    <2>5. QED
      BY <1>2, <2>1, <2>2, <2>3, <2>4, PlainStep
  <1>3. CASE Leave(t, "exit", "IllegalState")
    <2>1. g.bounces = {}
      BY <1>1 DEF CallFits, HeldFits
    <2>2. PICK result \in Results : result = "IllegalState"
      BY DEF Results, Thrown
    <2>3. [g EXCEPT !.result = result] = [g EXCEPT !.bounces = {}, !.result = result]
      BY <2>1 DEF Frame
    <2>4. Goto(t, "exit") /\ frame' = [frame EXCEPT ![t] = [g EXCEPT !.result = result]]
      BY <1>1, <1>3, <2>2 DEF Leave
    <2>5. QED
      BY <1>2, <2>2, <2>3, <2>4
  <1>4. CASE /\ Goto(t, "fill")
             /\ frame' = [frame EXCEPT ![t].bounces =
                            IF HasNativeAddress(frame[t]) THEN {} ELSE {"in", "out"}]
    <2>1. PICK bounces \in SUBSET {"in", "out"} :
            bounces = IF HasNativeAddress(frame[t]) THEN {} ELSE {"in", "out"}
      OBVIOUS
    <2>2. PICK result \in Results : result = g.result
      BY DEF Frame
    <2>3. [g EXCEPT !.bounces = bounces] = [g EXCEPT !.bounces = bounces, !.result = result]
      BY <2>2 DEF Frame
    <2>4. frame' = [frame EXCEPT ![t] = [g EXCEPT !.bounces = bounces, !.result = result]]
      <3>1. frame' = [frame EXCEPT ![t] = [g EXCEPT !.bounces = bounces]]
        BY <1>1, <1>4, <2>1
      <3>2. QED
        BY <2>3, <3>1
    <2>5. PICK place \in {"fill", "exit"} : place = "fill"
      OBVIOUS
    <2>6. QED
      BY <1>2, <1>4, <2>4, <2>5
  <1>5. CASE /\ Goto(t, "exit")
             /\ \E made \in {{}, {"in"}} :
                  frame' = [frame EXCEPT ![t].bounces = made,
                                         ![t].result = "AllocationFailed"]
    <2>1. PICK made \in SUBSET {"in", "out"} :
            frame' = [frame EXCEPT ![t].bounces = made, ![t].result = "AllocationFailed"]
      BY <1>5
    <2>2. PICK result \in Results : result = "AllocationFailed"
      BY DEF Results, Thrown
    <2>3. TypeOK
      BY CallFacts
    <2>4. frame' = [frame EXCEPT ![t] = [g EXCEPT !.bounces = made, !.result = result]]
      BY <1>1, <2>1, <2>2, <2>3 DEF TypeOK
    <2>5. QED
      BY <1>2, <1>5, <2>2, <2>4
  <1>6. QED
    BY <1>3, <1>4, <1>5 DEF EnterMonitor

(* Both finally blocks give back what the call holds, and keep its result.  *)
LEMMA LeavingStatus ==
  ASSUME IInv, NEW t \in Threads, ReleaseBounces(t) \/ ExitMonitor(t)
  PROVE  StatusInv'
  <1>1. PICK g \in Frame : g = frame[t] /\ CallFits(g, pc[t])
    BY CallFacts
  <1>2. thisLock = t
    BY CallFacts DEF ReleaseBounces, ExitMonitor, InMonitor
  <1>3. CASE ReleaseBounces(t)
    <2>1. PICK f \in Frame : f = [g EXCEPT !.bounces = {}]
      BY ResultFrame DEF Results
    <2>2. CallFits(f, "exit")
      BY <1>1, <2>1
         DEF Frame, CallFits, OwedFits, OutputFits, InputFits, HeldFits, HasNativeAddress, AvailIn
    <2>3. frame' = [frame EXCEPT ![t] = f] /\ "exit" \in Places
      BY <1>1, <1>3, <2>1 DEF ReleaseBounces, Places
    <2>4. QED
      BY <1>2, <1>3, <2>2, <2>3, PlainStep DEF ReleaseBounces
  <1>4. CASE ExitMonitor(t)
    <2>1. PICK new \in Frame : new = NewFrame(g.op)
      BY NewFrameType DEF Frame
    <2>2. g.bounces \in SUBSET {"in", "out"} /\ g.result \in Results
      BY DEF Frame
    <2>3. PICK f \in Frame : f = [new EXCEPT !.bounces = g.bounces, !.result = g.result]
      BY <2>2, ResultFrame
    <2>4. g.result # "AllocationFailed" => g.bounces = {}
      BY <1>1, <1>4 DEF ExitMonitor, CallFits, HeldFits
    <2>5. /\ f.retained = {} /\ f.inKind = "heap"
          /\ f.result # "AllocationFailed" => f.bounces = {}
      BY <2>1, <2>3, <2>4 DEF NewFrame
    <2>6. CallFits(f, "done")
      BY <2>5 DEF CallFits, OwedFits, OutputFits, InputFits, HeldFits, HasNativeAddress, AvailIn
    <2>7. frame' = [frame EXCEPT ![t] = f] /\ "done" \in Places /\ "done" \notin InMonitor
      <3>1. TypeOK
        BY CallFacts
      <3>2. QED
        BY <1>1, <1>4, <2>1, <2>3, <3>1 DEF ExitMonitor, Places, InMonitor, TypeOK
    <2>8. QED
      BY <1>2, <1>4, <2>6, <2>7, PlainStep DEF ExitMonitor
  <1>5. QED
    BY <1>3, <1>4

-----------------------------------------------------------------------------
(* The loops.                                                               *)

(* The frame that a step of the loops leaves is a frame.                    *)
LEMMA LoopFrame ==
  ASSUME IInv, NEW t \in Threads,
         \/ PrepareInput(t) \/ PrepareOutput(t) \/ AfterNativeCall(t) \/ AfterInnerLoop(t)
  PROVE  /\ frame'[t] \in Frame
         /\ thisLock = t /\ pc[t] # "leave" /\ UNCHANGED <<state, comm, z, thisLock>>
  <1>1. FramesFit
    BY DEF IInv, SafeInv, TypeOK, FramesFit
  <1>2. FramesFit'
    BY <1>1, PrepareInputFrames, PrepareOutputFrames, AfterNativeCallFrames,
       AfterInnerLoopFrames
  <1>3. frame'[t] \in Frame
    BY <1>2 DEF FramesFit
  <1>4. thisLock = t
    BY CallFacts DEF PrepareInput, PrepareOutput, AfterNativeCall, AfterInnerLoop, InMonitor
  <1>5. QED
    BY <1>3, <1>4 DEF PrepareInput, PrepareOutput, AfterNativeCall, AfterInnerLoop

(* A chunk is empty only when the input is.                                 *)
LEMMA PrepareInputStatus ==
  ASSUME IInv, NEW t \in Threads, PrepareInput(t)
  PROVE  StatusInv'
  <1>1. PICK g \in Frame : g = frame[t] /\ CallFits(g, "fill") /\ LocalsFit(g, "fill")
    BY CallFacts DEF PrepareInput
  <1>2. PICK f \in Frame : f = frame'[t]
    BY LoopFrame
  <1>3. pc[t] = "fill" /\ Goto(t, "room") /\ TypeOK
    BY CallFacts DEF PrepareInput
  <1>4. CallFits(f, "room") /\ frame' = [frame EXCEPT ![t] = f]
    <2>1. CASE HasNativeAddress(g)
      <3>1. frame' = frame /\ f = g
        BY <1>1, <1>2, <2>1 DEF PrepareInput
      <3>2. CallFits(f, "room")
        BY <1>1, <2>1, <3>1
           DEF CallFits, OwedFits, OutputFits, InputFits, HeldFits, HasNativeAddress, AvailIn
      <3>3. QED
        BY <1>1, <1>3, <3>1, <3>2 DEF TypeOK
    <2>2. CASE ~HasNativeAddress(g)
      <3>1. /\ f = [g EXCEPT !.chunk = Least(g.readable, BufferSize), !.chunkRead = 0]
            /\ frame' = [frame EXCEPT ![t] = f]
        BY <1>1, <1>2, <1>3, <2>2 DEF PrepareInput, TypeOK
      <3>2. /\ f.chunk = Least(g.readable, BufferSize) /\ f.chunkRead = 0
            /\ f.readable = g.readable /\ f.owedIn = g.owedIn /\ f.owedOut = g.owedOut
            /\ f.inKind = g.inKind /\ f.op = g.op /\ f.written = g.written
            /\ f.finish = g.finish
        BY <3>1 DEF Frame
      <3>3. f.chunk = 0 => f.readable = 0
        BY <3>2, BuffersAssumption DEF Least
      <3>4. OwedFits(f, "room")
        BY <1>1, <2>2, <3>2 DEF CallFits, OwedFits, HasNativeAddress
      <3>5. InputFits(f, "room")
        BY <1>1, <2>2, <3>2, <3>3 DEF CallFits, InputFits, AvailIn, HasNativeAddress
      <3>6. CallFits(f, "room")
        BY <3>4, <3>5 DEF CallFits, OutputFits, HeldFits
      <3>7. QED
        BY <3>1, <3>6
    <2>3. QED
      BY <2>1, <2>2
  <1>5. QED
    BY <1>3, <1>4, LoopFrame, PlainStep DEF Places

(* Native code is given no room only when the output cannot grow.           *)
LEMMA PrepareOutputStatus ==
  ASSUME IInv, NEW t \in Threads, PrepareOutput(t)
  PROVE  StatusInv'
  <1>1. PICK g \in Frame : g = frame[t] /\ CallFits(g, "room") /\ LocalsFit(g, "room")
    BY CallFacts DEF PrepareOutput
  <1>2. PICK f \in Frame : f = frame'[t]
    BY LoopFrame
  <1> DEFINE min == Least(BufferSize, g.maxWritable)
             reader == IF HasNativeAddress(g) THEN 0 ELSE PreparedReader(g, min)
  <1>3. PICK w \in EnsureWritable(g.writable, g.maxWritable, min) :
          frame' = [frame EXCEPT ![t] =
            [g EXCEPT !.writable = w, !.reader = reader,
                      !.nativeLength = IF HasNativeAddress(g) THEN w ELSE min,
                      !.result = IF reader > 0 THEN "IndexOutOfBounds" ELSE "none"]]
    BY <1>1 DEF PrepareOutput
  <1>4. PICK place \in {"unwind", "enter"} :
          place = (IF reader > 0 THEN "unwind" ELSE "enter") /\ Goto(t, place)
    BY <1>1 DEF PrepareOutput
  <1>5. TypeOK
    BY CallFacts
  <1>6. /\ f = [g EXCEPT !.writable = w, !.reader = reader,
                         !.nativeLength = IF HasNativeAddress(g) THEN w ELSE min,
                         !.result = IF reader > 0 THEN "IndexOutOfBounds" ELSE "none"]
        /\ frame' = [frame EXCEPT ![t] = f]
    BY <1>1, <1>2, <1>3, <1>5 DEF TypeOK
  <1>7. /\ g.maxWritable \in Int /\ g.maxWritable >= 0 /\ g.writable \in Int
        /\ min \in Int /\ min >= 0 /\ (min = 0 => g.maxWritable = 0)
    <2>1. g.maxWritable \in Int /\ g.maxWritable >= 0 /\ g.writable \in Int
      BY <1>1 DEF LocalsFit, Frame
    <2>2. QED
      BY <2>1, BuffersAssumption DEF Least
  <1>8. w \in Int /\ w >= min
    BY <1>7 DEF EnsureWritable
  <1> HIDE DEF min, reader
  <1>9. /\ f.maxWritable = g.maxWritable /\ f.readable = g.readable /\ f.op = g.op
        /\ f.inKind = g.inKind /\ f.chunk = g.chunk /\ f.chunkRead = g.chunkRead
        /\ f.owedIn = g.owedIn /\ f.owedOut = g.owedOut
        /\ f.written = g.written /\ f.finish = g.finish
        /\ f.nativeLength = (IF HasNativeAddress(g) THEN w ELSE min)
        /\ f.result = IF reader > 0 THEN "IndexOutOfBounds" ELSE "none"
    BY <1>6 DEF Frame
  <1>10. CASE place = "unwind"
    <2>1. f.result = "IndexOutOfBounds"
      BY <1>4, <1>9, <1>10
    <2>2. CallFits(f, "unwind")
      BY <1>1, <1>9, <2>1
         DEF CallFits, OwedFits, OutputFits, InputFits, ResultFits, HeldFits, HasNativeAddress,
             Status
    <2>3. QED
      BY <1>4, <1>6, <1>10, <2>2, LoopFrame, PlainStep DEF Places
  <1>11. CASE place = "enter"
    <2>1. ~(reader > 0)
      BY <1>4, <1>11
    <2>2. f.nativeLength = 0 => f.maxWritable = 0
      BY <1>7, <1>8, <1>9
    <2>3. InputFits(f, "enter")
      BY <1>1, <1>9 DEF CallFits, InputFits, HasNativeAddress, AvailIn
    <2>4. CallFits(f, "enter")
      BY <1>1, <1>9, <2>2, <2>3 DEF CallFits, OwedFits, OutputFits, HeldFits, HasNativeAddress
    <2>5. QED
      BY <1>4, <1>6, <1>11, <2>4, LoopFrame, PlainStep DEF Places
  <1>12. QED
    BY <1>10, <1>11

(* Copying the output settles what is owed of it.  The loop is repeated     *)
(* only after a full output; it ends with a full output that cannot grow,   *)
(* or with nothing left in the stream.                                      *)
LEMMA AfterNativeCallStatus ==
  ASSUME IInv, NEW t \in Threads, AfterNativeCall(t)
  PROVE  StatusInv'
  <1>1. PICK g \in Frame : g = frame[t] /\ CallFits(g, "drain") /\ LocalsFit(g, "drain")
    BY CallFacts DEF AfterNativeCall
  <1>2. PICK f \in Frame : f = frame'[t]
    BY LoopFrame
  <1>3. TypeOK
    BY CallFacts
  <1>4. PICK full \in BOOLEAN : full = OutputFull(g)
    BY DEF OutputFull
  <1>5. f = [WriteBounce(g) EXCEPT !.needsMoreOutput = full] /\ frame' = [frame EXCEPT ![t] = f]
    BY <1>1, <1>2, <1>3, <1>4 DEF AfterNativeCall, TypeOK
  <1>6. PICK place \in {"room", "settle"} :
          place = (IF Repeats(f) THEN "room" ELSE "settle") /\ Goto(t, place)
    BY <1>1, <1>4, <1>5 DEF AfterNativeCall
  <1>7. /\ f.readable = g.readable /\ f.op = g.op /\ f.inKind = g.inKind
        /\ f.chunk = g.chunk /\ f.chunkRead = g.chunkRead /\ f.owedIn = g.owedIn
        /\ f.written = g.written /\ f.nativeLength = g.nativeLength
        /\ f.needsMoreOutput = full /\ f.finish = g.finish
    BY <1>5 DEF WriteBounce, Frame
  <1>8. /\ HasNativeAddress(g) => f.maxWritable = g.maxWritable /\ f.owedOut = g.owedOut
        /\ ~HasNativeAddress(g) => /\ f.maxWritable = g.maxWritable - g.written
                                   /\ f.owedOut = g.owedOut - g.written
                                   /\ f.reader = g.written
    BY <1>5 DEF WriteBounce, Frame
  <1>9. /\ g.written \in Int /\ g.written >= 0 /\ g.nativeLength \in Int
        /\ g.maxWritable \in Int /\ g.owedOut \in Int /\ f.maxWritable \in Int
        /\ g.written <= g.nativeLength
        /\ f.maxWritable >= 0
    BY <1>1, <1>8 DEF LocalsFit, Frame, CallFits, OutputFits
  <1>10. OwedFits(f, place)
    <2>1. f.owedIn = f.chunkRead /\ (HasNativeAddress(f) => f.chunkRead = 0)
      BY <1>1, <1>7 DEF CallFits, OwedFits, HasNativeAddress
    <2>2. f.owedOut = 0
      BY <1>1, <1>8, <1>9 DEF CallFits, OwedFits
    <2>3. QED
      BY <1>6, <2>1, <2>2 DEF OwedFits
  <1>11. CASE place = "room"
    <2>1. f.written > 0 /\ full /\ f.maxWritable > 0
      BY <1>6, <1>7, <1>11 DEF Repeats
    <2>2. g.op = "compress" => z.phase # "synced"
      BY <1>1, <1>4, <2>1 DEF CallFits, OutputFits, OutputFull
    <2>3. InputFits(f, "room")
      BY <1>1, <1>7, <2>1, <2>2 DEF CallFits, InputFits
    <2>4. CallFits(f, "room")
      BY <1>10, <1>11, <2>3 DEF CallFits, OutputFits, HeldFits
    <2>5. QED
      BY <1>5, <1>6, <1>11, <2>4, LoopFrame, PlainStep DEF Places
  <1>12. CASE place = "settle"
    <2>1. f.written = 0 \/ ~full \/ f.maxWritable = 0
      BY <1>6, <1>7, <1>9, <1>12 DEF Repeats
    <2>2. CASE full
      <3>1. g.written = g.nativeLength
        BY <1>4, <2>2 DEF OutputFull
      <3>2. f.written = 0 => g.maxWritable = 0
        BY <1>1, <1>7, <3>1 DEF CallFits, OutputFits
      <3>3. f.maxWritable = 0
        BY <1>7, <1>8, <1>9, <2>1, <2>2, <3>2
      <3>4. CallFits(f, "settle")
        BY <1>1, <1>7, <1>10, <1>12, <2>2, <3>3
           DEF CallFits, OutputFits, InputFits, HeldFits
      <3>5. QED
        BY <1>5, <1>6, <1>12, <3>4, LoopFrame, PlainStep DEF Places
    <2>3. CASE ~full
      <3>1. ~OutputFull(g)
        BY <1>4, <2>3
      <3>2. z.held = 0
        BY <1>1, <1>9, <3>1 DEF OutputFull, CallFits, OutputFits
      <3>3. CallFits(f, "settle")
        BY <1>1, <1>7, <1>10, <1>12, <2>3, <3>2
           DEF CallFits, OutputFits, InputFits, HeldFits
      <3>4. QED
        BY <1>5, <1>6, <1>12, <3>3, LoopFrame, PlainStep DEF Places
    <2>4. QED
      BY <2>2, <2>3
  <1>13. QED
    BY <1>11, <1>12

(* At the end of the outer loop the indexes show everything that has been   *)
(* moved, and each status says what it should.                              *)
LEMMA AfterInnerLoopStatus ==
  ASSUME IInv, NEW t \in Threads, AfterInnerLoop(t)
  PROVE  StatusInv'
  <1>1. PICK g \in Frame : g = frame[t] /\ CallFits(g, "settle") /\ LocalsFit(g, "settle")
    BY CallFacts DEF AfterInnerLoop
  <1>2. PICK f \in Frame : f = frame'[t]
    BY LoopFrame
  <1> DEFINE h == ReadBounce(g)
             again == h.status # "FINISHED" /\ h.readable > 0
             finished == ~h.needsMoreOutput /\ h.status = "FINISHED"
  <1>3. PICK result \in {"none", "INSUFFICIENT_OUTPUT", "OK"} :
          result = IF again \/ finished THEN "none"
                   ELSE IF h.needsMoreOutput THEN "INSUFFICIENT_OUTPUT"
                   ELSE "OK"
    OBVIOUS
  <1>4. f = [h EXCEPT !.result = result] /\ frame' = [frame EXCEPT ![t] = f]
    <2>1. TypeOK
      BY CallFacts
    <2>2. frame' = [frame EXCEPT ![t] = [h EXCEPT !.result = result]]
      BY <1>1, <1>3 DEF AfterInnerLoop
    <2>3. QED
      BY <1>1, <1>2, <2>1, <2>2 DEF TypeOK
  <1>5. PICK place \in {"fill", "finished", "unwind"} :
          /\ place = IF again THEN "fill" ELSE IF finished THEN "finished" ELSE "unwind"
          /\ Goto(t, place)
    BY <1>1 DEF AfterInnerLoop
  <1>6. /\ h.status = g.status /\ h.needsMoreOutput = g.needsMoreOutput
        /\ h.maxWritable = g.maxWritable /\ h.chunkRead = g.chunkRead /\ h.inKind = g.inKind
        /\ h.owedOut = g.owedOut /\ h.op = g.op /\ h.finish = g.finish
    BY DEF ReadBounce, Frame
  <1>7. h.owedIn = 0 /\ h.readable >= 0
    <2>1. /\ g.owedIn \in Int /\ g.chunkRead \in Int /\ g.readable \in Int
          /\ g.chunk \in Int /\ g.chunk >= 0
          /\ g.owedIn = g.chunkRead /\ (HasNativeAddress(g) => g.chunkRead = 0)
      BY <1>1 DEF CallFits, OwedFits, LocalsFit, Frame
    <2>2. CASE HasNativeAddress(g)
      BY <1>1, <2>1, <2>2 DEF ReadBounce, LocalsFit
    <2>3. CASE ~HasNativeAddress(g)
      <3>1. h.owedIn = g.owedIn - g.chunkRead /\ h.readable = g.readable - g.chunkRead
        BY <2>3 DEF ReadBounce, Frame
      <3>2. g.chunk + g.chunkRead <= g.readable
        BY <1>1, <2>3 DEF LocalsFit
      <3>3. QED
        BY <2>1, <3>1, <3>2
    <2>4. QED
      BY <2>2, <2>3
  <1> HIDE DEF h
  <1>8. /\ f.status = h.status /\ f.needsMoreOutput = h.needsMoreOutput
        /\ f.maxWritable = h.maxWritable /\ f.chunkRead = h.chunkRead /\ f.inKind = h.inKind
        /\ f.owedIn = h.owedIn /\ f.owedOut = h.owedOut /\ f.readable = h.readable
        /\ f.result = result /\ f.op = h.op /\ f.finish = h.finish
    <2>1. h \in Frame
      <3>1. PICK readable \in Int, owedIn \in Int :
              readable = g.readable - g.chunkRead /\ owedIn = g.owedIn - g.chunkRead
        BY DEF Frame
      <3>2. h = g \/ h = [g EXCEPT !.readable = readable, !.owedIn = owedIn]
        BY <3>1 DEF h, ReadBounce
      <3>3. [g EXCEPT !.readable = readable, !.owedIn = owedIn] \in Frame
        BY DEF Frame
      <3>4. QED
        BY <3>2, <3>3
    <2>2. QED
      BY <1>4, <2>1 DEF Frame
  <1>9. f.owedIn = 0 /\ f.owedOut = 0 /\ (HasNativeAddress(f) => f.chunkRead = 0)
    BY <1>1, <1>6, <1>7, <1>8 DEF CallFits, OwedFits, HasNativeAddress
  <1>10. f.readable \in Int /\ f.readable >= 0
    BY <1>7, <1>8 DEF Frame
  <1>11. IF f.needsMoreOutput THEN f.maxWritable = 0 ELSE z.held = 0
    BY <1>1, <1>6, <1>8 DEF CallFits, OutputFits
  <1>12. place = "unwind" => ResultFits(f)
    <2>1. ASSUME place = "unwind"
          PROVE  result = IF f.needsMoreOutput THEN "INSUFFICIENT_OUTPUT" ELSE "OK"
      BY <1>3, <1>5, <1>8, <2>1
    <2>2. ASSUME place = "unwind", ~f.needsMoreOutput
          PROVE  f.readable = 0
      BY <1>5, <1>8, <1>10, <2>2
    <2>3. QED
      BY <1>8, <1>9, <1>11, <2>1, <2>2 DEF ResultFits
  <1>13. OwedFits(f, place)
    BY <1>5, <1>9 DEF OwedFits
  <1>14. CallFits(f, place)
    <2>1. place = "fill" => f.readable > 0
      BY <1>5, <1>8
    <2>2. InputFits(f, place)
      BY <1>1, <1>5, <1>6, <1>8, <2>1 DEF CallFits, InputFits
    <2>3. QED
      BY <1>5, <1>12, <1>13, <2>2 DEF CallFits, OutputFits, HeldFits
  <1>15. place \in Places /\ place \in InMonitor
    BY <1>5 DEF Places, InMonitor
  <1>16. QED
    BY <1>4, <1>5, <1>14, <1>15, LoopFrame, PlainStep

(* FINISHED and the failed assertion owe nothing.                           *)
LEMMA ReturnFinishedStatus ==
  ASSUME IInv, NEW t \in Threads, ReturnFinished(t)
  PROVE  StatusInv'
  <1>1. PICK g \in Frame : g = frame[t] /\ CallFits(g, "finished") /\ thisLock = t
    BY CallFacts DEF ReturnFinished, InMonitor
  <1>2. PICK result \in {"AssertionError", "FINISHED"} : Leave(t, "unwind", result)
    BY DEF ReturnFinished
  <1>3. PICK f \in Frame : f = [g EXCEPT !.result = result]
    BY ResultFrame DEF Results, Status, Thrown
  <1>4. /\ f.result = result /\ f.owedIn = g.owedIn /\ f.owedOut = g.owedOut
        /\ f.inKind = g.inKind /\ f.chunkRead = g.chunkRead
    BY <1>3 DEF Frame
  <1>5. ResultFits(f)
    BY <1>1, <1>2, <1>4 DEF CallFits, OwedFits, ResultFits
  <1>6. CallFits(f, "unwind")
    BY <1>1, <1>4, <1>5
       DEF CallFits, OwedFits, OutputFits, InputFits, HeldFits, HasNativeAddress, AvailIn
  <1>7. Goto(t, "unwind") /\ frame' = [frame EXCEPT ![t] = f] /\ "unwind" \in Places
    BY <1>1, <1>2, <1>3 DEF Leave, Places
  <1>8. pc[t] # "leave" /\ UNCHANGED <<state, comm, z, thisLock>>
    BY DEF ReturnFinished
  <1>9. QED
    BY <1>1, <1>6, <1>7, <1>8, PlainStep

(* What Java refuses is refused before zlib moves anything.                 *)
LEMMA EnterStreamStatus ==
  ASSUME IInv, NEW t \in Threads, EnterStream(t)
  PROVE  StatusInv'
  <1>1. PICK g \in Frame : g = frame[t] /\ CallFits(g, "enter") /\ thisLock = t
    BY CallFacts DEF EnterStream, InMonitor
  <1>2. pc[t] # "leave" /\ UNCHANGED <<state, comm, z, thisLock>>
    BY DEF EnterStream
  <1>3. CASE Goto(t, "native") /\ frame' = frame
    <2>1. CallFits(g, "native")
      BY <1>1 DEF CallFits, OwedFits, OutputFits, InputFits, HeldFits
    <2>2. frame' = [frame EXCEPT ![t] = g]
      <3>1. TypeOK
        BY CallFacts
      <3>2. QED
        BY <1>1, <1>3, <3>1 DEF TypeOK
    <2>3. QED
      BY <1>1, <1>2, <1>3, <2>1, <2>2, PlainStep DEF Places
  <1>4. ASSUME NEW result \in {"IllegalState", "IllegalArgument"}, Leave(t, "unwind", result),
               result = "IllegalState" => state # Required(g.op)
        PROVE  StatusInv'
    <2>1. PICK f \in Frame : f = [g EXCEPT !.result = result]
      BY ResultFrame DEF Results, Thrown
    <2>2. f.result = result /\ f.op = g.op /\ f.inKind = g.inKind /\ f.chunkRead = g.chunkRead
      BY <2>1 DEF Frame
    <2>3. ResultFits(f)
      BY <1>4, <2>2 DEF ResultFits, Status
    <2>4. CallFits(f, "unwind")
      BY <1>1, <2>2, <2>3
         DEF CallFits, OwedFits, OutputFits, InputFits, HeldFits, HasNativeAddress, AvailIn
    <2>5. Goto(t, "unwind") /\ frame' = [frame EXCEPT ![t] = f] /\ "unwind" \in Places
      BY <1>1, <1>4, <2>1 DEF Leave, Places
    <2>6. QED
      BY <1>1, <1>2, <2>4, <2>5, PlainStep
  <1>5. QED
    BY <1>1, <1>3, <1>4 DEF EnterStream, RequireState

-----------------------------------------------------------------------------
(* The native call.                                                         *)

(* What the answer of the native call means for the buffers of its caller.  *)
Explained(f, o) ==
  /\ Succeeds(o.code) =>
       /\ o.written < f.nativeLength => o.stream.held = 0
       /\ f.op = "compress" /\ o.written = f.nativeLength => o.stream.phase # "synced"
       /\ f.op = "compress" /\ o.stream.phase = "finishing" => f.finish
  /\ o.code = "Z_STREAM_END" <=> o.stream.phase = "ended"
  /\ f.op = "compress" /\ o.code \in {"Z_BUF_ERROR", "Z_STREAM_ERROR"} =>
       f.written = 0 \/ AvailIn(f) > 0

(* The stream has not ended when a native call is made.                     *)
LEMMA NotEnded ==
  ASSUME IInv, NEW t \in Threads, pc[t] = "native"
  PROVE  z.phase # "ended"
  <1>1. Guarded /\ StateAgreesWithZlib
    BY CallFacts
  <1>2. state \notin {"FINISHED", "CLOSED"}
    BY <1>1 DEF Guarded, InNativeCode, Required
  <1>3. \A u \in Threads : pc[u] # "leave"
    BY <1>1, Alone DEF InNativeCode
  <1>4. QED
    BY <1>1, <1>2, <1>3 DEF StateAgreesWithZlib

(* A compress() that has got output and has no input left is not refused.   *)
LEMMA NativeAnswer ==
  ASSUME IInv, NEW t \in Threads, Deflate0(t) \/ Inflate0(t)
  PROVE  \E o \in Outcomes : HandleErrors(t, o) /\ Explained(frame[t], o)
  <1>1. PICK f \in Frame : f = frame[t] /\ LocalsFit(f, "native") /\ CallFits(f, "native")
    BY CallFacts DEF Deflate0, Inflate0
  <1>2. AvailIn(f) \in Nat /\ AvailOut(f) \in Nat /\ f.finish \in BOOLEAN
    BY <1>1 DEF LocalsFit, AvailIn, AvailOut, Frame
  <1>3. z \in ZStream /\ z.phase # "ended"
    BY NotEnded, CallFacts DEF TypeOK, Deflate0, Inflate0
  <1>4. /\ AvailOut(f) = 0 => f.maxWritable = 0
        /\ f.op = "compress" /\ f.written > 0 =>
             /\ AvailIn(f) = 0 => f.maxWritable > 0 /\ z.phase # "synced"
             /\ z.phase = "finishing" => f.finish
        /\ f.written \in Nat
    BY <1>1 DEF AvailOut, CallFits, OutputFits, InputFits, LocalsFit, Frame
  <1>5. CASE Deflate0(t)
    <2>1. PICK o \in Deflate(z, AvailIn(f), AvailOut(f), f.finish) : HandleErrors(t, o)
      BY <1>1, <1>5 DEF Deflate0
    <2>2. o \in Outcomes
      BY <1>2, <1>3, DeflateType
    <2>3. /\ o.code \in {"Z_OK", "Z_STREAM_END"} =>
               /\ o.written < AvailOut(f) => o.stream.held = 0
               /\ o.written = AvailOut(f) => o.stream.phase # "synced"
               /\ o.stream.phase = "finishing" => f.finish
          /\ o.code = "Z_STREAM_END" <=> o.stream.phase = "ended"
          /\ o.code \in {"Z_BUF_ERROR", "Z_STREAM_ERROR"} =>
               \/ AvailOut(f) = 0
               \/ z.phase = "finishing" /\ (~f.finish \/ AvailIn(f) > 0)
               \/ AvailIn(f) = 0 /\ z.phase = "synced"
      BY <1>2, <1>3, DeflateAnswers
    <2>4. o.code \in {"Z_BUF_ERROR", "Z_STREAM_ERROR"} /\ f.op = "compress" =>
            f.written = 0 \/ AvailIn(f) > 0
      BY <1>2, <1>4, <2>3
    <2>5. Explained(f, o)
      BY <2>3, <2>4 DEF Explained, Succeeds, AvailOut
    <2>6. QED
      BY <1>1, <2>1, <2>2, <2>5
  <1>6. CASE Inflate0(t)
    <2>1. PICK o \in Inflate(z, AvailIn(f), AvailOut(f)) : HandleErrors(t, o)
      BY <1>1, <1>6 DEF Inflate0
    <2>2. o \in Outcomes
      BY <1>2, <1>3, InflateType
    <2>3. /\ o.code \in {"Z_OK", "Z_STREAM_END"} /\ o.written < AvailOut(f) =>
               o.stream.held = 0
          /\ o.code = "Z_STREAM_END" <=> o.stream.phase = "ended"
      BY <1>2, <1>3, InflateAnswers
    <2>4. f.op # "compress"
      BY <1>1, <1>6 DEF Inflate0
    <2>5. Explained(f, o)
      BY <2>3, <2>4 DEF Explained, Succeeds, AvailOut
    <2>6. QED
      BY <1>1, <2>1, <2>2, <2>5
  <1>7. QED
    BY <1>5, <1>6

(* The answer of the native call is a status that fits the stream, or an    *)
(* exception that is explained.                                             *)
LEMMA HandleErrorsStatus ==
  ASSUME IInv, NEW t \in Threads, pc[t] = "native", NEW o \in Outcomes,
         HandleErrors(t, o), Explained(frame[t], o)
  PROVE  StatusInv'
  <1>1. PICK g \in Frame : g = frame[t] /\ CallFits(g, "native") /\ thisLock = t
    BY CallFacts DEF InMonitor
  <1>2. PICK consumed \in Nat, written \in Nat, code \in Code, stream \in ZStream :
          /\ consumed = o.consumed /\ written = o.written
          /\ code = o.code /\ stream = o.stream
    BY DEF Outcomes
  <1>3. PICK h \in Frame : h = Owing(g, o) /\ SameNumbers(h, g)
    BY OwingType
  <1>4. h.owedIn = consumed + g.chunkRead /\ h.owedOut = written /\ h.op = g.op
    <2>1. g.owedIn = g.chunkRead /\ g.owedOut = 0 /\ g.chunkRead \in Int
      BY <1>1 DEF CallFits, OwedFits, Frame
    <2>2. h.owedIn = g.owedIn + consumed /\ h.owedOut = g.owedOut + written /\ h.op = g.op
      BY <1>2, <1>3 DEF Owing, Frame
    <2>3. QED
      BY <2>1, <2>2
  <1>5. /\ h.readable = g.readable /\ h.chunk = g.chunk /\ h.chunkRead = g.chunkRead
        /\ h.maxWritable = g.maxWritable /\ h.nativeLength = g.nativeLength
        /\ h.inKind = g.inKind /\ h.finish = g.finish /\ h.written = g.written
    BY <1>3 DEF SameNumbers, Owing, Frame
  <1>6. /\ z' = stream /\ comm' = [consumed |-> consumed, written |-> written]
        /\ UNCHANGED <<state, thisLock>> /\ Later
    BY <1>2 DEF HandleErrors, UnlockStream, Later
  <1>7. state \notin {"FINISHED", "CLOSED"}
    BY CallFacts DEF Guarded, InNativeCode, Required
  <1>8. HasNativeAddress(g) => g.chunkRead = 0
    BY <1>1 DEF CallFits, OwedFits
  <1>9. g.nativeLength = 0 => g.maxWritable = 0
    BY <1>1 DEF CallFits, OutputFits
  <1>10. TypeOK
    BY CallFacts
  <1>11. CASE Succeeds(o.code)
    <2>1. PICK status \in {"OK", "FINISHED"} :
            status = IF code = "Z_STREAM_END" THEN "FINISHED" ELSE "OK"
      OBVIOUS
    <2>2. PICK f \in Frame : f = [h EXCEPT !.status = status]
      BY DEF Frame
    <2>3. Goto(t, "leave") /\ frame' = [frame EXCEPT ![t] = f] /\ "leave" \in Places
      BY <1>1, <1>2, <1>3, <1>11, <2>1, <2>2 DEF HandleErrors, Places
    <2>4. /\ f.status = status /\ f.owedIn = h.owedIn /\ f.owedOut = h.owedOut
          /\ f.op = h.op /\ f.chunkRead = h.chunkRead /\ f.inKind = h.inKind
          /\ f.maxWritable = h.maxWritable /\ f.nativeLength = h.nativeLength
          /\ f.finish = h.finish
      BY <2>2 DEF Frame
    <2>5. OwedFits(f, "leave")'
      BY <1>4, <1>5, <1>6, <1>8, <2>4 DEF OwedFits, HasNativeAddress
    <2>6. OutputFits(f, "leave")'
      <3>1. f.status = "FINISHED" <=> stream.phase = "ended"
        BY <1>1, <1>2, <2>1, <2>4 DEF Explained
      <3>2. /\ written < g.nativeLength => stream.held = 0
            /\ g.op = "compress" /\ written = g.nativeLength => stream.phase # "synced"
        BY <1>1, <1>2, <1>11 DEF Explained
      <3>3. QED
        BY <1>4, <1>5, <1>6, <1>9, <2>4, <3>1, <3>2 DEF OutputFits
    <2>7. CallFits(f, "leave")'
      <3>1. g.op = "compress" /\ stream.phase = "finishing" => g.finish
        BY <1>1, <1>2, <1>11 DEF Explained
      <3>2. InputFits(f, "leave")'
        BY <1>4, <1>5, <1>6, <2>4, <3>1 DEF InputFits
      <3>3. QED
        BY <2>5, <2>6, <3>2 DEF CallFits, HeldFits
    <2>8. StateAgreesWithZlib'
      <3>1. pc'[t] = "leave"
        BY <1>10, <2>3 DEF TypeOK, Goto
      <3>2. QED
        BY <1>6, <1>7, <3>1 DEF StateAgreesWithZlib
    <2>9. QED
      BY <1>1, <1>6, <2>3, <2>7, <2>8, OneCall
  <1>12. CASE ~Succeeds(o.code)
    <2>1. PICK result \in Results : result = ExceptionOf(code)
      BY DEF ExceptionOf, Results, Thrown
    <2>2. PICK f \in Frame : f = [h EXCEPT !.result = result]
      BY ResultFrame DEF Results
    <2>3. Goto(t, "unwind") /\ frame' = [frame EXCEPT ![t] = f] /\ "unwind" \in Places
      BY <1>1, <1>2, <1>3, <1>12, <2>1, <2>2 DEF HandleErrors, Places
    <2>4. /\ f.result = result /\ f.owedIn = h.owedIn /\ f.owedOut = h.owedOut
          /\ f.op = h.op /\ f.chunkRead = h.chunkRead /\ f.inKind = h.inKind
          /\ f.written = h.written /\ f.readable = h.readable /\ f.chunk = h.chunk
      BY <2>2 DEF Frame
    <2>5. result \notin Status
      BY <2>1 DEF ExceptionOf, Status
    <2>6. result = "IllegalState" /\ g.op = "compress" => g.written = 0 \/ AvailIn(g) > 0
      BY <1>1, <1>2, <2>1 DEF Explained, ExceptionOf
    <2>7. ResultFits(f)'
      <3>1. f.owedIn = comm'.consumed + f.chunkRead /\ f.owedOut = comm'.written
        BY <1>4, <1>5, <1>6, <2>4
      <3>2. f.result # "OK" /\ f.result # "INSUFFICIENT_OUTPUT" /\ f.result \notin Status
        BY <2>4, <2>5 DEF Status
      <3>3. f.result = "IllegalState" /\ f.op = "compress" => f.written = 0 \/ AvailIn(f) > 0
        BY <1>4, <1>5, <2>4, <2>6 DEF AvailIn, HasNativeAddress
      <3>4. QED
        BY <3>1, <3>2, <3>3 DEF ResultFits, AvailIn, HasNativeAddress
    <2>8. CallFits(f, "unwind")'
      BY <1>5, <1>8, <2>4, <2>7
         DEF CallFits, OwedFits, OutputFits, InputFits, HeldFits, HasNativeAddress, AvailIn
    <2>9. StateAgreesWithZlib'
      <3>1. stream.phase # "ended"
        BY <1>1, <1>2, <1>12 DEF Explained, Succeeds
      <3>2. QED
        BY <1>6, <1>7, <3>1 DEF StateAgreesWithZlib
    <2>10. QED
      BY <1>1, <1>6, <2>3, <2>8, <2>9, OneCall
  <1>13. QED
    BY <1>11, <1>12

(* The Java side records the end of the stream, and its buffers catch up    *)
(* with what the communication buffer says.                                 *)
LEMMA LeaveStreamStatus ==
  ASSUME IInv, NEW t \in Threads, LeaveStream(t)
  PROVE  StatusInv'
  <1>1. PICK g \in Frame : /\ g = frame[t] /\ CallFits(g, "leave") /\ LocalsFit(g, "leave")
                           /\ thisLock = t
    BY CallFacts DEF LeaveStream, InMonitor
  <1>2. /\ TypeOK /\ Guarded /\ StateAgreesWithZlib
        /\ comm.consumed \in Nat /\ comm.written \in Nat /\ comm.written <= g.nativeLength
    BY <1>1, CallFacts DEF TypeOK, IInv, SafeInv, CommunicationFits, LeaveStream, AvailOut
  <1>3. FramesFit'
    BY LeaveStreamFrames DEF IInv, SafeInv, TypeOK, FramesFit
  <1>4. PICK f \in Frame : f = frame'[t]
    BY <1>3 DEF FramesFit
  <1>5. f = AdvanceIndexes(g) /\ frame' = [frame EXCEPT ![t] = f]
    BY <1>1, <1>2, <1>4 DEF LeaveStream, TypeOK
  <1>6. PICK consumed \in Int, written \in Int :
          consumed = comm.consumed /\ written = comm.written
    BY <1>2
  <1>7. /\ f.op = g.op /\ f.inKind = g.inKind /\ f.nativeLength = g.nativeLength
        /\ f.status = g.status /\ f.written = written
    BY <1>5, <1>6 DEF AdvanceIndexes, Frame
  <1>8. /\ HasNativeAddress(g) =>
             /\ f.owedIn = g.owedIn - consumed /\ f.owedOut = g.owedOut - written
             /\ f.maxWritable = g.maxWritable - written /\ f.chunkRead = g.chunkRead
        /\ ~HasNativeAddress(g) =>
             /\ f.owedIn = g.owedIn /\ f.owedOut = g.owedOut
             /\ f.maxWritable = g.maxWritable /\ f.chunkRead = g.chunkRead + consumed
    BY <1>5, <1>6 DEF AdvanceIndexes, Frame
  <1>9. /\ g.owedIn = consumed + g.chunkRead /\ g.owedOut = written
        /\ HasNativeAddress(g) => g.chunkRead = 0
        /\ g.chunkRead \in Int
    BY <1>1, <1>6 DEF CallFits, OwedFits, Frame
  <1>10. OwedFits(f, "drain")
    BY <1>7, <1>8, <1>9 DEF OwedFits, HasNativeAddress
  <1>11. /\ written >= 0 /\ written <= g.nativeLength
         /\ g.nativeLength = 0 => g.maxWritable = 0
         /\ written < g.nativeLength => z.held = 0
         /\ g.op = "compress" /\ written = g.nativeLength => z.phase # "synced"
         /\ g.status = "FINISHED" <=> z.phase = "ended"
    BY <1>1, <1>2, <1>6 DEF CallFits, OutputFits
  <1>12. f.nativeLength = 0 => f.maxWritable = 0
    <2>1. g.nativeLength \in Int /\ g.maxWritable \in Int
      BY DEF Frame
    <2>2. QED
      BY <1>7, <1>8, <1>11, <2>1
  <1>13. OutputFits(f, "drain")
    BY <1>7, <1>11, <1>12 DEF OutputFits
  <1>14. CallFits(f, "drain")
    <2>1. f.finish = g.finish
      BY <1>5 DEF AdvanceIndexes, Frame
    <2>2. InputFits(f, "drain")
      BY <1>1, <1>7, <2>1 DEF CallFits, InputFits
    <2>3. QED
      BY <1>10, <1>13, <2>2 DEF CallFits, HeldFits
  <1>15. UNCHANGED <<comm, z, thisLock>> /\ state' = StateAfter(g.status)
    BY <1>1 DEF LeaveStream
  <1>16. Later
    BY <1>15 DEF StateAfter, Later
  <1>17. CallFits(f, "drain")'
    BY <1>14, <1>15, <1>16, OtherCall DEF Places
  <1>18. StateAgreesWithZlib'
    <2>1. state \notin {"FINISHED", "CLOSED"}
      BY <1>2 DEF LeaveStream, Guarded, InNativeCode, Required
    <2>2. state' = "FINISHED" <=> z.phase = "ended"
      BY <1>11, <1>15, <2>1 DEF StateAfter
    <2>3. QED
      BY <1>15, <2>2 DEF StateAgreesWithZlib
  <1>19. Goto(t, "drain") /\ "drain" \in Places
    BY DEF LeaveStream, Places
  <1>20. QED
    BY <1>1, <1>5, <1>15, <1>16, <1>17, <1>18, <1>19, OneCall

(* close() changes the state beside a call, which explains what the call    *)
(* throws then.                                                             *)
LEMMA MarkClosedStatus ==
  ASSUME IInv, NEW t \in Threads, MarkClosed(t)
  PROVE  StatusInv'
  <1>1. PICK g \in Frame : g = frame[t] /\ CallFits(g, "closing")
    BY CallFacts DEF MarkClosed
  <1>2. TypeOK /\ StateAgreesWithZlib
    BY CallFacts
  <1>3. /\ Goto(t, "freeing") /\ frame' = [frame EXCEPT ![t] = g] /\ Later
        /\ UNCHANGED <<comm, z, thisLock>>
    BY <1>1, <1>2 DEF MarkClosed, TypeOK, Later
  <1>4. CallFits(g, "freeing")
    BY <1>1 DEF CallFits, OwedFits, OutputFits, InputFits, HeldFits
  <1>5. CallFits(g, "freeing")'
    BY <1>3, <1>4, OtherCall DEF Places
  <1>6. StateAgreesWithZlib'
    BY DEF MarkClosed, StateAgreesWithZlib
  <1>7. "freeing" \in Places /\ "freeing" \notin InMonitor
    BY DEF Places, InMonitor
  <1>8. QED
    BY <1>3, <1>5, <1>6, <1>7, OneCall

-----------------------------------------------------------------------------
(* The invariant.                                                           *)

(* It holds of a new compressor.                                            *)
LEMMA InitStatus == Init => IInv
  <1> SUFFICES ASSUME Init
               PROVE  IInv
    OBVIOUS
  <1>1. StateAgreesWithZlib
    BY BuffersAssumption DEF Init, StateAgreesWithZlib, FreshStream
  <1>2. \A t \in Threads : pc[t] = "idle" /\ frame[t] = NewFrame("none")
    BY DEF Init
  <1>3. CallFits(NewFrame("none"), "idle")
    BY DEF NewFrame, CallFits, OwedFits, OutputFits, InputFits, HeldFits, HasNativeAddress, AvailIn
  <1>4. StatusInv
    BY <1>1, <1>2, <1>3 DEF StatusInv, InMonitor
  <1>5. QED
    BY <1>4, InitSafeInv DEF IInv

(* Every step preserves it.                                                 *)
LEMMA NextStatus == IInv /\ [Next]_vars => IInv'
  <1> SUFFICES ASSUME IInv, [Next]_vars
               PROVE  IInv'
    OBVIOUS
  <1>1. SafeInv'
    BY NextSafeInv DEF IInv
  <1>2. ASSUME NEW t \in Threads, Call(t)
        PROVE  StatusInv'
    BY <1>2, BeginCallStatus, CloseStatus DEF Call
  <1>3. ASSUME NEW t \in Threads, Deflate0(t) \/ Inflate0(t)
        PROVE  StatusInv'
    BY <1>3, NativeAnswer, HandleErrorsStatus DEF Deflate0, Inflate0
  <1>4. ASSUME NEW t \in Threads, Work(t)
        PROVE  StatusInv'
    BY <1>3, <1>4, EnterMonitorStatus, PrepareInputStatus, PrepareOutputStatus,
       EnterStreamStatus, LeaveStreamStatus, AfterNativeCallStatus, AfterInnerLoopStatus,
       ReturnFinishedStatus, LeavingStatus, MarkClosedStatus, CloseStatus DEF Work
  <1>5. CASE UNCHANGED vars
    <2>1. \A t \in Threads : CallFits(frame[t], pc[t])'
      BY <1>5
         DEF IInv, StatusInv, CallFits, OwedFits, OutputFits, InputFits, ResultFits, HeldFits, AvailIn,
             HasNativeAddress, vars
    <2>2. StateAgreesWithZlib'
      BY <1>5 DEF IInv, StatusInv, StateAgreesWithZlib, vars
    <2>3. QED
      BY <1>1, <1>5, <2>1, <2>2 DEF IInv, StatusInv, vars
  <1>6. QED
    BY <1>1, <1>2, <1>4, <1>5 DEF IInv, Next, Rest

(* The invariant holds in every state of every execution: for any number of *)
(* threads, calls, buffers and sizes.                                       *)
THEOREM StatusInvariance == Spec => []IInv
  BY InitStatus, NextStatus, PTL DEF Spec

(* Every status comes with indexes that have advanced by exactly what zlib  *)
(* has moved in the call.                                                   *)
THEOREM IndexesAccounted == Spec => []Accounted
  <1>1. IInv => Accounted
    BY DEF IInv, StatusInv, CallFits, ResultFits, Accounted, Returning
  <1>2. QED
    BY <1>1, StatusInvariance, PTL

(* A call that zlib fails loses no more than what the failing native call   *)
(* has moved and the current chunk.                                         *)
THEOREM OnlyLastCallLost == Spec => []ErrorLosesLastCall
  <1>1. IInv => ErrorLosesLastCall
    BY DEF IInv, StatusInv, CallFits, ResultFits, ErrorLosesLastCall
  <1>2. QED
    BY <1>1, StatusInvariance, PTL

(* INSUFFICIENT_OUTPUT means an output that takes no more bytes.            *)
THEOREM InsufficientIsFull == Spec => []InsufficientMeansFull
  <1>1. IInv => InsufficientMeansFull
    BY DEF IInv, StatusInv, CallFits, ResultFits, InsufficientMeansFull, Returning
  <1>2. QED
    BY <1>1, StatusInvariance, PTL

(* OK means that the input has been read and that zlib holds nothing back.  *)
THEOREM OkIsDrained == Spec => []OkMeansDrained
  <1>1. IInv => OkMeansDrained
    BY DEF IInv, StatusInv, CallFits, ResultFits, OkMeansDrained, Returning
  <1>2. QED
    BY <1>1, StatusInvariance, PTL

(* compress() never makes zlib refuse a flush: once a call has got output   *)
(* and has no input left for zlib, none of its native calls fails for want  *)
(* of work.                                                                 *)
THEOREM FlushesOnce == Spec => []NeverFlushesTwice
  <1>1. IInv => NeverFlushesTwice
    BY DEF IInv, StatusInv, CallFits, ResultFits, NeverFlushesTwice, Returning
  <1>2. QED
    BY <1>1, StatusInvariance, PTL

(* The Java state says whether zlib's stream has ended.                     *)
THEOREM StatesAgree == Spec => []StateAgreesWithZlib
  <1>1. IInv => StateAgreesWithZlib
    BY DEF IInv, StatusInv
  <1>2. QED
    BY <1>1, StatusInvariance, PTL

(* A call that is over holds neither references nor bounce buffers, except  *)
(* after a failed allocation or without an output.                          *)
THEOREM NothingIsHeld == Spec => []NothingHeldAtReturn
  <1>1. IInv => NothingHeldAtReturn
    BY DEF IInv, StatusInv, CallFits, HeldFits, NothingHeldAtReturn
  <1>2. QED
    BY <1>1, StatusInvariance, PTL

-----------------------------------------------------------------------------
(* What may happen beside a call.                                           *)

\* Native code runs, and the stream's state is set, inside the monitor.
LEMMA StreamSteps ==
  ASSUME IInv, NEW u \in Threads, Call(u) \/ Work(u)
  PROVE  \/ UNCHANGED <<z, comm, state>>
         \/ UNCHANGED <<z, comm>> /\ state' = "CLOSED"
         \/ thisLock = u /\ pc[u] \in InMonitor /\ pc'[u] # pc[u]
  <1>1. TypeOK /\ (pc[u] \in InMonitor => thisLock = u)
    BY CallFacts
  <1>2. CASE Deflate0(u) \/ Inflate0(u)
    <2>1. pc[u] = "native" /\ (Goto(u, "leave") \/ Goto(u, "unwind"))
      BY <1>2 DEF Deflate0, Inflate0, HandleErrors
    <2>2. QED
      BY <1>1, <2>1 DEF TypeOK, Goto, InMonitor
  <1>3. CASE LeaveStream(u)
    BY <1>1, <1>3 DEF LeaveStream, Goto, TypeOK, InMonitor
  <1>4. CASE MarkClosed(u)
    BY <1>4 DEF MarkClosed
  <1>5. CASE Call(u)
    BY <1>5 DEF Call, BeginCall, BeginClose, GetLevel
  <1>6. QED
    BY <1>2, <1>3, <1>4, <1>5
       DEF Work, EnterMonitor, PrepareInput, PrepareOutput, EnterStream, AfterNativeCall,
           AfterInnerLoop, ReturnFinished, ReleaseBounces, ExitMonitor, FreeCommunication

(* However many threads share a compressor: from the moment a call has the  *)
(* compressor's monitor until it gives it back, only its own steps move the *)
(* z_stream and the counts in the communication buffer, and the only thing  *)
(* that can happen to it is that the stream is closed.                      *)
THEOREM CallsAreUndisturbed == Spec => OnlyCloseBesideCall
  <1>1. ASSUME IInv, [Next]_vars, NEW t \in Threads, pc[t] \in InMonitor, pc'[t] = pc[t]
        PROVE  UNCHANGED <<z, comm>> /\ state' \in {state, "CLOSED"}
    <2>1. CASE UNCHANGED vars
      BY <2>1 DEF vars
    <2>2. ASSUME NEW u \in Threads, Call(u) \/ Work(u)
          PROVE  UNCHANGED <<z, comm>> /\ state' \in {state, "CLOSED"}
      <3>1. thisLock = t
        BY <1>1, CallFacts
      <3>2. CASE thisLock = u /\ pc[u] \in InMonitor /\ pc'[u] # pc[u]
        BY <1>1, <3>1, <3>2
      <3>3. QED
        BY <1>1, <2>2, <3>2, StreamSteps
    <2>3. QED
      BY <1>1, <2>1, <2>2 DEF Next, Rest
  <1>2. IInv /\ [Next]_vars =>
          [\A t \in Threads :
             pc[t] \in InMonitor /\ pc'[t] = pc[t] =>
               UNCHANGED <<z, comm>> /\ state' \in {state, "CLOSED"}]_vars
    BY <1>1
  <1>3. QED
    BY <1>2, StatusInvariance, PTL DEF Spec, OnlyCloseBesideCall

=============================================================================
