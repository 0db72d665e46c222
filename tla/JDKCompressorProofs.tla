------------------------- MODULE JDKCompressorProofs -------------------------
(***************************************************************************)
(* For any threads, buffers, sizes and number of calls: the inductive       *)
(* invariant of JDKCompressor and the properties that follow from it, for   *)
(* callers that pass no input after they asked to finish.                   *)
(***************************************************************************)
EXTENDS JDKCompressor, ZlibProofs

Working == {"fill", "inner", "settle"}

(* A step of one thread, which holds the monitor or touches nothing that it *)
(* guards, keeps the invariant if its own call still fits.                  *)
LEMMA OneCall ==
  ASSUME IInv, NEW t \in Threads, NEW f \in Frame, NEW place \in Places,
         Goto(t, place), frame' = [frame EXCEPT ![t] = f],
         UNCHANGED assertions, state' \in State, open' \in BOOLEAN, finish' \in BOOLEAN,
         z' \in ZStream, calls' \in 0 .. MaxCalls,
         \/ lock' = lock
         \/ lock = NoThread /\ lock' = t
         \/ lock = t /\ lock' = NoThread,
         lock = t \/ (state' = state /\ finish' = finish /\ z' = z),
         place \in Working \cup {"exit"} => lock' = t,
         place \in Working => state' = Required(f.op),
         StreamFits', CallFits(f, place)'
  PROVE  IInv'
  <1>0. TypeOK /\ Guarded /\ \A u \in Threads : CallFits(frame[u], pc[u])
    BY DEF IInv
  <1>1. TypeOK'
    BY <1>0, ThreadsAssumption DEF TypeOK, Goto
  <1>2. pc'[t] = place /\ frame'[t] = f
    BY <1>0 DEF TypeOK, Goto
  <1>3. ASSUME NEW u \in Threads, u # t
        PROVE  /\ pc'[u] = pc[u] /\ frame'[u] = frame[u]
               /\ pc[u] \in Working \cup {"exit"} => lock' = u /\ state' = state /\ finish' = finish
                                                     /\ z' = z
    <2>1. pc'[u] = pc[u] /\ frame'[u] = frame[u]
      BY <1>0, <1>3 DEF TypeOK, Goto
    <2>2. pc[u] \in Working \cup {"exit"} => lock = u
      BY <1>0 DEF Guarded, Inside, Working
    <2>3. QED
      BY <1>3, <2>1, <2>2, ThreadsAssumption
  <1>4. Guarded'
    <2> SUFFICES ASSUME NEW u \in Threads
                 PROVE  /\ Inside(u)' \/ pc'[u] = "exit" => lock' = u
                        /\ Inside(u)' => state' = Required(frame'[u].op)
      BY DEF Guarded
    <2>1. CASE u = t
      BY <1>2, <2>1 DEF Inside, Working
    <2>2. CASE u # t
      BY <1>0, <1>3, <2>2 DEF Inside, Working, Guarded
    <2>3. QED
      BY <2>1, <2>2
  <1>5. ASSUME NEW u \in Threads PROVE CallFits(frame[u], pc[u])'
    <2>1. CASE u = t
      BY <1>2, <2>1 DEF CallFits, LocalsFit, LocalsAgree, ResultFits, Chunk
    <2>2. CASE u # t
      <3>1. pc'[u] = pc[u] /\ frame'[u] = frame[u] /\ CallFits(frame[u], pc[u])
        BY <1>0, <1>3, <2>2
      <3>2. CASE pc[u] \in Working \cup {"exit"}
        BY <1>3, <2>2, <3>1, <3>2
           DEF CallFits, LocalsFit, LocalsAgree, ResultFits, Chunk
      <3>3. CASE pc[u] \notin Working \cup {"exit"}
        BY <1>3, <2>2, <3>1, <3>3 DEF CallFits, Working
      <3>4. QED
        BY <3>2, <3>3
    <2>3. QED
      BY <2>1, <2>2
  <1>6. QED
    BY <1>1, <1>4, <1>5 DEF IInv

(* The parts of the invariant about one call, for the proofs of its steps.  *)
LEMMA CallFacts ==
  ASSUME IInv, NEW t \in Threads
  PROVE  /\ TypeOK /\ StreamFits
         /\ frame[t] \in Frame /\ pc[t] \in Places
         /\ CallFits(frame[t], pc[t])
         /\ pc[t] \in Working \cup {"exit"} => lock = t
         /\ pc[t] \in Working => state = Required(frame[t].op)
  BY DEF IInv, TypeOK, Guarded, Inside, Working

(* The invariant holds before the first call.                               *)
LEMMA InitIInv == Init => IInv
  <1> SUFFICES ASSUME Init
               PROVE  IInv
    OBVIOUS
  <1>1. PICK f : f = NewFrame("none")
    OBVIOUS
  <1>2. f \in Frame
    BY <1>1 DEF NewFrame, Frame, Results
  <1>3. TypeOK
    <2>1. pc \in [Threads -> Places] /\ frame \in [Threads -> Frame]
      BY <1>1, <1>2 DEF Init, Places
    <2>2. state \in State /\ z \in ZStream /\ calls \in 0 .. MaxCalls
      BY FreshStreamType, BuffersAssumption, BoundsAssumption DEF Init, State
    <2>3. assertions \in BOOLEAN /\ open \in BOOLEAN /\ finish \in BOOLEAN
      BY DEF Init
    <2>4. lock \in Threads \cup {NoThread}
      BY DEF Init
    <2>5. QED
      BY <2>1, <2>2, <2>3, <2>4 DEF TypeOK
  <1>4. Guarded
    BY DEF Init, Guarded, Inside
  <1>5. StreamFits
    BY DEF Init, StreamFits, FreshStream
  <1>6. \A t \in Threads : CallFits(frame[t], pc[t])
    BY DEF Init, CallFits
  <1>7. QED
    BY <1>3, <1>4, <1>5, <1>6 DEF IInv

(* A call that begins, and one that returns at once.                        *)
LEMMA NewFrameFits ==
  ASSUME NEW op \in {"none", "compress", "decompress", "close", "getLevel"},
         NEW result \in Results
  PROVE  /\ NewFrame(op) \in Frame
         /\ [NewFrame(op) EXCEPT !.result = result] \in Frame
         /\ op \in {"compress", "decompress"} => CallFits(NewFrame(op), "blocked")
  <1>1. NewFrame(op) \in Frame
    BY DEF NewFrame, Frame, Results
  <1>2. [NewFrame(op) EXCEPT !.result = result] \in Frame
    BY <1>1 DEF Frame
  <1>3. op \in {"compress", "decompress"} => CallFits(NewFrame(op), "blocked")
    BY DEF NewFrame, CallFits
  <1>4. QED
    BY <1>1, <1>2, <1>3

\* StreamFits only speaks of what the monitor guards.
LEMMA StreamFitsKept ==
  ASSUME StreamFits, UNCHANGED state, UNCHANGED finish, UNCHANGED z
  PROVE  StreamFits'
  BY DEF StreamFits

\* The entry of compress() or decompress() preserves the invariant.
LEMMA BeginCallKeeps ==
  ASSUME IInv, NEW t \in Threads, BeginCall(t)
  PROVE  IInv'
  <1>1. PICK op \in {"compress", "decompress"} :
          \/ /\ Goto(t, "blocked")
             /\ frame' = [frame EXCEPT ![t] = NewFrame(op)]
          \/ /\ Goto(t, "done")
             /\ frame' = [frame EXCEPT ![t] = [NewFrame(op) EXCEPT !.result = "NullPointer"]]
    BY DEF BeginCall
  <1>2. PICK f \in Frame, place \in {"blocked", "done"} :
          /\ Goto(t, place) /\ frame' = [frame EXCEPT ![t] = f]
          /\ place = "blocked" => f = NewFrame(op)
    BY <1>1, NewFrameFits DEF Results, Thrown
  <1>3. CallFits(f, place)'
    BY <1>2 DEF NewFrame, CallFits
  <1>4. calls' \in 0 .. MaxCalls
    BY BoundsAssumption DEF IInv, TypeOK, BeginCall, NewCall
  <1>5. StreamFits'
    BY CallFacts, StreamFitsKept DEF BeginCall
  <1>6. TypeOK
    BY CallFacts
  <1>7. QED
    BY <1>2, <1>3, <1>4, <1>5, <1>6, OneCall DEF BeginCall, TypeOK, Places, Working

(* A step of close() or getLevel(), which return at once.                   *)
LEMMA AtOnceKeeps ==
  ASSUME IInv, NEW t \in Threads, Close(t) \/ GetLevel(t)
  PROVE  IInv'
  <1>1. PICK op \in {"close", "getLevel"}, result \in Results :
          frame' = [frame EXCEPT ![t] = [NewFrame(op) EXCEPT !.result = result]]
    BY DEF Close, GetLevel, Results, Thrown
  <1>2. PICK f \in Frame : f = [NewFrame(op) EXCEPT !.result = result]
    BY NewFrameFits
  <1>3. CallFits(f, "done")'
    BY DEF CallFits
  <1>4. calls' \in 0 .. MaxCalls
    BY BoundsAssumption DEF IInv, TypeOK, Close, GetLevel, NewCall
  <1>5. StreamFits'
    BY CallFacts, StreamFitsKept DEF Close, GetLevel
  <1>6. TypeOK
    BY CallFacts
  <1>7. open' \in BOOLEAN
    BY <1>6 DEF TypeOK, Close, GetLevel
  <1>8. /\ Goto(t, "done")
        /\ UNCHANGED <<assertions, state, finish, z, lock>>
    BY DEF Close, GetLevel
  <1>9. QED
    BY <1>1, <1>2, <1>3, <1>4, <1>5, <1>6, <1>7, <1>8, OneCall DEF TypeOK, Places, Working

(* A call that ends with a result keeps its frame otherwise.                *)
LEMMA LeaveKeeps ==
  ASSUME IInv, NEW t \in Threads, NEW result \in Results, Leave(t, "exit", result),
         result \notin Status,
         UNCHANGED assertions, state' = state, open' = open, finish' \in BOOLEAN, z' \in ZStream,
         UNCHANGED calls, StreamFits',
         \/ lock = t /\ lock' = t
         \/ lock = NoThread /\ lock' = t /\ finish' = finish /\ z' = z
  PROVE  IInv'
  <1>1. TypeOK /\ frame[t] \in Frame
    BY CallFacts
  <1>2. PICK f \in Frame : f = [frame[t] EXCEPT !.result = result]
    BY <1>1 DEF Frame
  <1>3. frame' = [frame EXCEPT ![t] = f]
    BY <1>1, <1>2 DEF Leave, TypeOK
  <1>4. f.result = result
    BY <1>1, <1>2 DEF Frame
  <1>5. CallFits(f, "exit")'
    BY <1>4 DEF CallFits, ResultFits, Status
  <1>6. QED
    BY <1>1, <1>3, <1>5, OneCall DEF Leave, TypeOK, Places, Working

(* ExitMonitor                                                              *)
LEMMA ExitMonitorKeeps ==
  ASSUME IInv, NEW t \in Threads, ExitMonitor(t)
  PROVE  IInv'
  <1>1. TypeOK /\ frame[t] \in Frame /\ lock = t
    BY CallFacts DEF ExitMonitor
  <1>2. frame[t].op \in {"none", "compress", "decompress", "close", "getLevel"}
        /\ frame[t].result \in Results
    BY <1>1 DEF Frame
  <1>3. PICK f \in Frame : f = [NewFrame(frame[t].op) EXCEPT !.result = frame[t].result]
    BY <1>2, NewFrameFits
  <1>4. frame' = [frame EXCEPT ![t] = f]
    BY <1>1, <1>3 DEF ExitMonitor, TypeOK
  <1>5. CallFits(f, "done")'
    BY DEF CallFits
  <1>6. StreamFits'
    BY CallFacts, StreamFitsKept DEF ExitMonitor
  <1>7. QED
    BY <1>1, <1>4, <1>5, <1>6, OneCall DEF ExitMonitor, TypeOK, Places, Working

-----------------------------------------------------------------------------
(* The steps under the monitor.                                             *)

(* The sizes of the buffers of a call.                                      *)
LEMMA SizesFit ==
  ASSUME NEW op, NEW size \in Sizes(op), NEW room \in OutSizes
  PROVE  /\ size \in Nat /\ room[1] \in Nat /\ room[2] \in Nat /\ room[1] <= room[2]
         /\ LateInput = FALSE /\ op = "compress" /\ finish => size = 0
  BY BuffersAssumption DEF Sizes

(* A frame stays one with the arguments of a call, and with a chunk.         *)
LEMMA ArgumentsFrame ==
  ASSUME NEW g \in Frame, NEW asked \in BOOLEAN, NEW inKind \in {"heap", "direct"},
         NEW outKind \in {"heap", "direct"}, NEW size \in Int, NEW writable \in Int,
         NEW maxWritable \in Int
  PROVE  [g EXCEPT !.finish = asked, !.inKind = inKind, !.outKind = outKind,
                   !.readable = size, !.writable = writable, !.maxWritable = maxWritable]
           \in Frame
  BY DEF Frame

\* A frame with its progress reset is a frame.
LEMMA ChunkFrame ==
  ASSUME NEW g \in Frame, NEW pending \in Int, NEW zero \in Int, NEW told \in BOOLEAN
  PROVE  [g EXCEPT !.pending = pending, !.readBytes = zero, !.haveFinished = told] \in Frame
  BY DEF Frame

\* The state check under the monitor preserves the invariant.
LEMMA EnterMonitorKeeps ==
  ASSUME LateInput = FALSE, IInv, NEW t \in Threads, EnterMonitor(t)
  PROVE  IInv'
  <1>1. /\ TypeOK /\ frame[t] \in Frame /\ CallFits(frame[t], "blocked") /\ StreamFits
        /\ lock = NoThread
    BY CallFacts DEF EnterMonitor, Available
  <1>2. StreamFits'
    BY <1>1, StreamFitsKept DEF EnterMonitor
  <1>3. CASE Leave(t, "exit", "IllegalState")
    <2>1. "IllegalState" \in Results /\ "IllegalState" \notin Status
      BY DEF Results, Thrown, Status
    <2>2. finish' \in BOOLEAN /\ z' \in ZStream
      BY <1>1 DEF EnterMonitor, TypeOK
    <2>3. QED
      BY <1>1, <1>2, <1>3, <2>1, <2>2, LeaveKeeps DEF EnterMonitor
  <1>4. CASE state = Required(frame[t].op) /\ Goto(t, "fill")
    <2>1. PICK asked \in BOOLEAN, inKind \in InKinds, outKind \in OutKinds \ {"null"},
               size \in Sizes(frame[t].op), room \in OutSizes :
            /\ asked => frame[t].op = "compress"
            /\ frame' = [frame EXCEPT ![t] =
                 [@ EXCEPT !.finish = asked, !.inKind = inKind, !.outKind = outKind,
                           !.readable = size, !.writable = room[1], !.maxWritable = room[2]]]
      BY <1>4 DEF EnterMonitor, Leave, Goto, TypeOK
    <2>2. /\ size \in Nat /\ room[1] \in Nat /\ room[2] \in Nat /\ room[1] <= room[2]
          /\ frame[t].op = "compress" /\ finish => size = 0
      BY <2>1, SizesFit
    <2>3. inKind \in {"heap", "direct"} /\ outKind \in {"heap", "direct"}
      BY BuffersAssumption
    <2>4. PICK f \in Frame : f =
            [frame[t] EXCEPT !.finish = asked, !.inKind = inKind, !.outKind = outKind,
                             !.readable = size, !.writable = room[1], !.maxWritable = room[2]]
      <3>1. PICK g \in Frame : g = frame[t]
        BY <1>1
      <3>2. PICK writable \in Int, maxWritable \in Int :
              writable = room[1] /\ maxWritable = room[2]
        BY <2>2
      <3>3. size \in Int
        BY <2>2
      <3>4. [g EXCEPT !.finish = asked, !.inKind = inKind, !.outKind = outKind,
                      !.readable = size, !.writable = writable, !.maxWritable = maxWritable]
              \in Frame
        BY <2>3, <3>3, ArgumentsFrame, ZenonT(60)
      <3>5. QED
        BY <3>1, <3>2, <3>4
    <2>5. /\ f.op = frame[t].op /\ f.finish = asked /\ f.readable = size
          /\ f.writable = room[1] /\ f.maxWritable = room[2]
          /\ f.haveFinished = frame[t].haveFinished
          /\ f.owedIn = frame[t].owedIn /\ f.owedOut = frame[t].owedOut
      BY <1>1, <2>4 DEF Frame
    <2>6. LocalsFit(f, "fill")
      BY <1>1, <2>1, <2>2, <2>5 DEF LocalsFit, CallFits
    <2>7. f.op = "compress" /\ finish => f.readable = 0 /\ Chunk(f) = 0
      BY <2>2, <2>5, BuffersAssumption DEF Chunk, Least
    <2>8. f.op = "compress" /\ z.phase \in {"finishing", "ended"} => finish
      BY <1>1, <1>4, <2>5 DEF StreamFits, Required
    <2>9. LocalsAgree(f, "fill")
      BY <1>1, <2>5, <2>7, <2>8 DEF LocalsAgree, CallFits
    <2>10. CallFits(f, "fill")'
      BY <2>6, <2>9 DEF EnterMonitor, CallFits, LocalsFit, LocalsAgree, Chunk
    <2>11. frame' = [frame EXCEPT ![t] = f]
      BY <1>1, <2>1, <2>4 DEF TypeOK
    <2>12. QED
      BY <1>1, <1>2, <1>4, <2>5, <2>10, <2>11, OneCall
         DEF EnterMonitor, TypeOK, Places, Working
  <1>5. QED
    BY <1>3, <1>4 DEF EnterMonitor

(* The chunk is a part of the input.                                        *)
LEMMA ChunkFits ==
  ASSUME NEW f \in Frame, f.readable >= 0
  PROVE  Chunk(f) \in 0 .. f.readable
  BY BuffersAssumption DEF Chunk, Least, Frame

\* The top of the outer loop preserves the invariant.
LEMMA PrepareInputKeeps ==
  ASSUME IInv, NEW t \in Threads, PrepareInput(t)
  PROVE  IInv'
  <1>1. /\ TypeOK /\ frame[t] \in Frame /\ StreamFits /\ lock = t
        /\ LocalsFit(frame[t], "fill") /\ LocalsAgree(frame[t], "fill")
        /\ state = Required(frame[t].op)
    BY CallFacts DEF PrepareInput, CallFits, Working
  <1>2. finish' \in BOOLEAN /\ StreamFits'
    <2>1. finish' = finish \/ finish' = TRUE \/ finish' = (finish \/ Finishes(frame[t]))
      BY DEF PrepareInput
    <2>2. finish => finish'
      BY DEF PrepareInput
    <2>3. finish' \in BOOLEAN
      BY <1>1, <2>1 DEF TypeOK
    <2>4. QED
      BY <1>1, <2>2, <2>3 DEF StreamFits, PrepareInput
  <1>3. CASE Leave(t, "exit", "NullPointer") /\ UNCHANGED finish
    <2>1. "NullPointer" \in Results /\ "NullPointer" \notin Status
      BY DEF Results, Thrown, Status
    <2>2. QED
      BY <1>1, <1>2, <1>3, <2>1, LeaveKeeps DEF PrepareInput, TypeOK
  <1>4. CASE /\ assertions /\ frame[t].haveFinished
             /\ Leave(t, "exit", "AssertionError") /\ UNCHANGED finish
    <2>1. "AssertionError" \in Results /\ "AssertionError" \notin Status
      BY DEF Results, Thrown, Status
    <2>2. QED
      BY <1>1, <1>2, <1>4, <2>1, LeaveKeeps DEF PrepareInput, TypeOK
  <1>5. CASE /\ Goto(t, "inner")
             /\ finish' = (finish \/ Finishes(frame[t]))
             /\ frame' = [frame EXCEPT ![t] =
                  [frame[t] EXCEPT !.pending = Chunk(frame[t]), !.readBytes = 0,
                                   !.haveFinished = @ \/ Finishes(frame[t])]]
    <2>1. Chunk(frame[t]) \in 0 .. frame[t].readable /\ frame[t].readable \in Nat
      BY <1>1, ChunkFits DEF LocalsFit, Frame
    <2>2. (frame[t].haveFinished \/ Finishes(frame[t])) \in BOOLEAN
      OBVIOUS
    <2>3. PICK zero \in Int : zero = 0
      OBVIOUS
    <2>4. PICK f \in Frame : f =
            [frame[t] EXCEPT !.pending = Chunk(frame[t]), !.readBytes = zero,
                             !.haveFinished = frame[t].haveFinished \/ Finishes(frame[t])]
      <3>1. PICK g \in Frame : g = frame[t]
        BY <1>1
      <3>2. PICK pending \in Int : pending = Chunk(frame[t])
        BY <2>1
      <3>3. PICK told \in BOOLEAN : told = (frame[t].haveFinished \/ Finishes(frame[t]))
        BY <2>2, Zenon
      <3>4. [g EXCEPT !.pending = pending, !.readBytes = zero, !.haveFinished = told] \in Frame
        BY ChunkFrame
      <3>5. QED
        BY <3>1, <3>2, <3>3, <3>4, Zenon
    <2>5. /\ f.op = frame[t].op /\ f.finish = frame[t].finish /\ f.readable = frame[t].readable
          /\ f.writable = frame[t].writable /\ f.maxWritable = frame[t].maxWritable
          /\ f.inKind = frame[t].inKind
          /\ f.owedIn = frame[t].owedIn /\ f.owedOut = frame[t].owedOut
      BY <1>1, <2>4 DEF Frame
    <2>6. f.pending = Chunk(frame[t]) /\ f.readBytes = 0
      BY <1>1, <2>3, <2>4 DEF Frame
    <2>7. f.haveFinished <=> frame[t].haveFinished \/ Finishes(frame[t])
      BY <1>1, <2>4 DEF Frame
    <2>8. Chunk(f) = Chunk(frame[t])
      BY <2>5 DEF Chunk
    <2>9. LocalsFit(f, "inner")
      BY <1>1, <2>1, <2>5, <2>6, <2>8 DEF LocalsFit
    <2>10. LocalsAgree(f, "inner")'
      <3>1. f.haveFinished => finish' /\ f.finish /\ f.op = "compress"
        BY <1>1, <1>5, <2>5, <2>7 DEF LocalsAgree, LocalsFit, Finishes
      <3>2. f.op = "compress" /\ f.finish /\ ~f.haveFinished => Chunk(f) # f.readable
        BY <2>5, <2>7, <2>8 DEF Finishes
      <3>3. f.op = "compress" /\ finish' => Chunk(f) = f.readable
        BY <1>1, <1>5, <2>5, <2>8 DEF LocalsAgree, Finishes
      <3>4. f.op = "compress" /\ z.phase \in {"finishing", "ended"} => f.pending = 0
        BY <1>1, <2>1, <2>5, <2>6 DEF LocalsAgree
      <3>5. z' = z
        BY DEF PrepareInput
      <3>6. QED
        BY <3>1, <3>2, <3>3, <3>4, <3>5 DEF LocalsAgree, Chunk
    <2>11. CallFits(f, "inner")'
      BY <2>9, <2>10 DEF CallFits, LocalsFit, Chunk
    <2>12. frame' = [frame EXCEPT ![t] = f]
      BY <1>5, <2>3, <2>4
    <2>13. QED
      BY <1>1, <1>2, <1>5, <2>5, <2>11, <2>12, OneCall
         DEF PrepareInput, TypeOK, Places, Working
  <1>6. QED
    BY <1>3, <1>4, <1>5 DEF PrepareInput

(* The room that is made in the output, and the part of it that the stream  *)
(* is given: none only if the output is full for good.                      *)
LEMMA OutputRoom ==
  ASSUME NEW f \in Frame, f.writable >= 0, f.maxWritable >= f.writable,
         NEW writable \in EnsureWritable(f.writable, f.maxWritable,
                                         Least(BufferSize, f.maxWritable))
  PROVE  /\ writable \in 0 .. f.maxWritable
         /\ OutArrayLength(f, writable) \in 0 .. writable
         /\ OutArrayLength(f, writable) = 0 => f.maxWritable = 0
  BY BuffersAssumption DEF EnsureWritable, Least, OutArrayLength, Frame

(* What the Deflater or the Inflater answers to a call that fits, unless it *)
(* throws.                                                                  *)
LEMMA AnswersFit ==
  ASSUME TypeOK, StreamFits, NEW f \in Frame, LocalsFit(f, "inner"), LocalsAgree(f, "inner"),
         state = Required(f.op), NEW room \in Nat, NEW o \in Answers(f, room)
  PROVE  /\ o \in Outcomes
         /\ o.consumed <= f.pending /\ o.written <= room
         /\ ~Throws(o) => Answer(o) = o.written
         /\ ~Throws(o) /\ o.written < room =>
               o.stream.held = 0 /\ (f.op = "compress" => o.consumed = f.pending)
         /\ o.stream.phase \notin {"busy", "finishing"} => o.stream.held = 0
         /\ f.op = "compress" /\ o.stream.phase \in {"finishing", "ended"} =>
               finish /\ o.consumed = f.pending
         /\ f.op = "compress" /\ finish /\ o.written < room => o.stream.phase = "ended"
  <1>0. f.pending \in Nat /\ z \in ZStream /\ finish \in BOOLEAN
    BY DEF LocalsFit, Frame, TypeOK
  <1>1. z.phase \notin {"busy", "finishing"} => z.held = 0
    BY DEF StreamFits
  <1>2. CASE f.op = "compress"
    <2>1. o \in Deflate(z, f.pending, room, finish)
      BY <1>2 DEF Answers
    <2>2. z.phase \in {"finishing", "ended"} => finish /\ f.pending = 0
      BY <1>2 DEF StreamFits, Required, LocalsAgree
    <2>3. o \in Outcomes /\ o.consumed <= f.pending /\ o.written <= room
      BY <1>0, <2>1, DeflateType
    <2>4. /\ o.code \notin {"Z_OK", "Z_STREAM_END"} => o.written = 0
          /\ o.written < room => o.stream.held = 0 /\ o.consumed = f.pending
          /\ o.stream.phase \notin {"busy", "finishing"} => o.stream.held = 0
          /\ o.stream.phase \in {"finishing", "ended"} => finish /\ o.consumed = f.pending
          /\ finish /\ o.written < room => o.stream.phase = "ended"
      BY <1>0, <1>1, <2>1, <2>2, DeflateFacts
    <2>5. Answer(o) = o.written
      BY <2>4 DEF Answer
    <2>6. QED
      BY <2>3, <2>4, <2>5
  <1>3. CASE f.op # "compress"
    <2>1. o \in Inflate(z, f.pending, room)
      BY <1>3 DEF Answers
    <2>2. o \in Outcomes /\ o.consumed <= f.pending /\ o.written <= room
      BY <1>0, <2>1, InflateType
    <2>3. /\ o.code \notin {"Z_OK", "Z_STREAM_END", "Z_DATA_ERROR", "Z_MEM_ERROR"} =>
               o.written = 0
          /\ o.code \notin {"Z_DATA_ERROR", "Z_MEM_ERROR"} /\ o.written < room =>
               o.stream.held = 0
          /\ o.stream.phase \notin {"busy", "finishing"} => o.stream.held = 0
      BY <1>0, <1>1, <2>1, InflateFacts
    <2>4. ~Throws(o) => Answer(o) = o.written
      BY <2>3 DEF Answer, Throws
    <2>5. QED
      BY <1>3, <2>2, <2>3, <2>4 DEF Throws
  <1>4. QED
    BY <1>2, <1>3

(* The frame after a turn of the inner loop.                                *)
LEMMA AdvancedFacts ==
  ASSUME NEW f \in Frame, NEW writable \in Int, NEW o \in Outcomes
  PROVE  LET g == Advanced(f, writable, o) IN
         /\ g \in Frame
         /\ g.op = f.op /\ g.finish = f.finish /\ g.inKind = f.inKind
         /\ g.readable = f.readable /\ g.haveFinished = f.haveFinished
         /\ g.pending = f.pending - o.consumed /\ g.readBytes = f.readBytes + o.consumed
         /\ g.writable = writable - Answer(o) /\ g.maxWritable = f.maxWritable - Answer(o)
         /\ g.needsMoreOutput <=> Answer(o) = OutArrayLength(f, writable)
         /\ g.owedIn = f.owedIn + o.consumed /\ g.owedOut = f.owedOut + o.written - Answer(o)
  <1>1. /\ f.pending \in Int /\ f.readBytes \in Int /\ f.maxWritable \in Int
        /\ f.owedIn \in Int /\ f.owedOut \in Int
        /\ o.consumed \in Int /\ o.written \in Int
    BY DEF Frame, Outcomes
  <1>2. Answer(o) \in Int
    BY <1>1 DEF Answer
  <1>3. PICK pending \in Int, readBytes \in Int, written \in Int, maxWritable \in Int,
             owedIn \in Int, owedOut \in Int :
          /\ pending = f.pending - o.consumed /\ readBytes = f.readBytes + o.consumed
          /\ written = writable - Answer(o) /\ maxWritable = f.maxWritable - Answer(o)
          /\ owedIn = f.owedIn + o.consumed /\ owedOut = f.owedOut + o.written - Answer(o)
    <2>1. /\ f.pending - o.consumed \in Int /\ f.readBytes + o.consumed \in Int
          /\ writable - Answer(o) \in Int /\ f.maxWritable - Answer(o) \in Int
          /\ f.owedIn + o.consumed \in Int /\ f.owedOut + o.written - Answer(o) \in Int
      BY <1>1, <1>2
    <2>2. QED
      BY <2>1, Zenon
  <1>4. PICK more \in BOOLEAN : more = (Answer(o) = OutArrayLength(f, writable))
    BY Zenon
  <1>5. PICK g \in Frame : g =
          [f EXCEPT !.pending = pending, !.readBytes = readBytes, !.writable = written,
                    !.maxWritable = maxWritable, !.needsMoreOutput = more, !.owedIn = owedIn,
                    !.owedOut = owedOut]
    <2>1. [f EXCEPT !.pending = pending, !.readBytes = readBytes, !.writable = written,
                    !.maxWritable = maxWritable, !.needsMoreOutput = more, !.owedIn = owedIn,
                    !.owedOut = owedOut] \in Frame
      BY DEF Frame
    <2>2. QED
      BY <2>1, Zenon
  <1>6. Advanced(f, writable, o) = g
    BY <1>3, <1>4, <1>5, Zenon DEF Advanced, OutputFull
  <1>7. /\ g.op = f.op /\ g.finish = f.finish /\ g.inKind = f.inKind
        /\ g.readable = f.readable /\ g.haveFinished = f.haveFinished
        /\ g.pending = pending /\ g.readBytes = readBytes
        /\ g.writable = written /\ g.maxWritable = maxWritable
        /\ g.owedIn = owedIn /\ g.owedOut = owedOut
    BY <1>5 DEF Frame
  <1>8. g.needsMoreOutput = more
    BY <1>5, Zenon DEF Frame
  <1>9. QED
    BY <1>3, <1>4, <1>6, <1>7, <1>8

\* A turn of the inner loop preserves the invariant.
LEMMA InnerLoopKeeps ==
  ASSUME IInv, NEW t \in Threads, InnerLoop(t)
  PROVE  IInv'
  <1>1. PICK fr \in Frame : fr = frame[t]
    BY CallFacts
  <1>2. /\ TypeOK /\ StreamFits /\ lock = t
        /\ LocalsFit(fr, "inner") /\ LocalsAgree(fr, "inner")
        /\ state = Required(fr.op)
    BY <1>1, CallFacts DEF InnerLoop, CallFits, Working
  <1>3. PICK writable \in EnsureWritable(fr.writable, fr.maxWritable,
                                         Least(BufferSize, fr.maxWritable)) :
        \E o \in Answers(fr, OutArrayLength(fr, writable)) :
          LET f == Advanced(fr, writable, o) IN
          /\ z' = o.stream
          /\ IF Throws(o)
             THEN Leave(t, "exit", ExceptionOf(o))
             ELSE /\ frame' = [frame EXCEPT ![t] = f]
                  /\ Goto(t, IF Repeats(Answer(o), f) THEN "inner" ELSE "settle")
    BY <1>1 DEF InnerLoop
  <1>4. PICK room : room = OutArrayLength(fr, writable)
    OBVIOUS
  <1>5. /\ writable \in 0 .. fr.maxWritable /\ fr.maxWritable \in Int
        /\ room \in 0 .. writable
        /\ room = 0 => fr.maxWritable = 0
    BY <1>2, <1>4, OutputRoom DEF LocalsFit, Frame
  <1>6. PICK o \in Answers(fr, room) :
          LET f == Advanced(fr, writable, o) IN
          /\ z' = o.stream
          /\ IF Throws(o)
             THEN Leave(t, "exit", ExceptionOf(o))
             ELSE /\ frame' = [frame EXCEPT ![t] = f]
                  /\ Goto(t, IF Repeats(Answer(o), f) THEN "inner" ELSE "settle")
    BY <1>3, <1>4
  <1>7. /\ o \in Outcomes
        /\ o.consumed <= fr.pending /\ o.written <= room
        /\ ~Throws(o) => Answer(o) = o.written
        /\ ~Throws(o) /\ o.written < room =>
              o.stream.held = 0 /\ (fr.op = "compress" => o.consumed = fr.pending)
        /\ o.stream.phase \notin {"busy", "finishing"} => o.stream.held = 0
        /\ fr.op = "compress" /\ o.stream.phase \in {"finishing", "ended"} =>
              finish /\ o.consumed = fr.pending
        /\ fr.op = "compress" /\ finish /\ o.written < room => o.stream.phase = "ended"
    BY <1>2, <1>5, AnswersFit
  <1>8. z' \in ZStream /\ o.consumed \in Nat /\ o.written \in Nat
    BY <1>6, <1>7 DEF Outcomes
  <1>9. UNCHANGED <<assertions, state, open, finish, lock, calls>>
    BY DEF InnerLoop
  <1>10. StreamFits'
    <2>1. state = "COMPRESSING" => fr.op = "compress"
      BY <1>2 DEF Required
    <2>2. QED
      BY <1>6, <1>7, <1>9, <2>1 DEF StreamFits
  <1>11. CASE Throws(o)
    <2>1. ExceptionOf(o) \in Results /\ ExceptionOf(o) \notin Status
      BY DEF ExceptionOf, Results, Thrown, Status
    <2>2. Leave(t, "exit", ExceptionOf(o))
      BY <1>6, <1>11
    <2>3. QED
      BY <1>2, <1>8, <1>9, <1>10, <2>1, <2>2, LeaveKeeps DEF TypeOK
  <1>12. CASE ~Throws(o)
    <2>1. PICK f \in Frame :
            /\ f = Advanced(fr, writable, o)
            /\ f.op = fr.op /\ f.finish = fr.finish /\ f.inKind = fr.inKind
            /\ f.readable = fr.readable /\ f.haveFinished = fr.haveFinished
            /\ f.pending = fr.pending - o.consumed /\ f.readBytes = fr.readBytes + o.consumed
            /\ f.writable = writable - o.written /\ f.maxWritable = fr.maxWritable - o.written
            /\ f.needsMoreOutput <=> o.written = room
            /\ f.owedIn = fr.owedIn + o.consumed /\ f.owedOut = fr.owedOut + o.written - o.written
      BY <1>4, <1>5, <1>7, <1>12, AdvancedFacts
    <2>2. PICK place \in {"inner", "settle"} :
            /\ Goto(t, place)
            /\ place = "settle" => ~Repeats(Answer(o), f)
      BY <1>6, <1>12, <2>1
    <2>3. frame' = [frame EXCEPT ![t] = f]
      BY <1>6, <1>12, <2>1
    <2>4. Chunk(f) = Chunk(fr)
      BY <2>1 DEF Chunk
    <2>5. /\ fr.pending \in Int /\ fr.readBytes \in Int /\ fr.maxWritable \in Int
          /\ fr.owedIn \in Int /\ fr.owedOut \in Int /\ fr.readable \in Int
      BY DEF Frame
    <2>6. LocalsFit(f, place)
      BY <1>2, <1>5, <1>7, <1>8, <2>1, <2>2, <2>4, <2>5 DEF LocalsFit
    <2>7. place = "settle" =>
            IF f.needsMoreOutput THEN f.maxWritable = 0
            ELSE /\ o.stream.held = 0
                 /\ f.op = "compress" =>
                      f.pending = 0 /\ (finish => o.stream.phase = "ended")
      <3>1. CASE o.written = room
        <4>1. place = "settle" => ~(o.written > 0 /\ f.maxWritable > 0)
          BY <1>7, <1>12, <2>1, <2>2, <3>1 DEF Repeats
        <4>2. f.maxWritable >= 0
          BY <1>5, <1>7, <1>8, <2>1
        <4>3. o.written = 0 => f.maxWritable = 0
          BY <1>5, <2>1, <3>1
        <4>4. place = "settle" => f.maxWritable = 0
          BY <1>5, <1>8, <2>1, <4>1, <4>2, <4>3
        <4>5. QED
          BY <2>1, <3>1, <4>4
      <3>2. CASE o.written # room
        BY <1>5, <1>7, <1>8, <1>12, <2>1, <2>5, <3>2
      <3>3. QED
        BY <3>1, <3>2
    <2>8. f.op = "compress" /\ o.stream.phase \in {"finishing", "ended"} => f.pending = 0
      BY <1>7, <2>1, <2>5
    <2>9. LocalsAgree(f, place)'
      BY <1>2, <1>6, <1>9, <2>1, <2>2, <2>4, <2>7, <2>8 DEF LocalsAgree, Chunk
    <2>10. CallFits(f, place)'
      BY <2>2, <2>6, <2>9 DEF CallFits, LocalsFit, Chunk
    <2>11. QED
      BY <1>2, <1>8, <1>9, <1>10, <2>1, <2>2, <2>3, <2>10, OneCall DEF TypeOK, Places, Working
  <1>13. QED
    BY <1>11, <1>12

(* What a status says when the outer loop ends with the index of the input  *)
(* advanced.                                                                *)
LEMMA StatusFits ==
  ASSUME StreamFits, NEW f \in Frame, NEW f0 \in Frame,
         LocalsFit(f0, "settle"), LocalsAgree(f0, "settle"), state = Required(f0.op),
         f.op = f0.op, f.finish = f0.finish, f.haveFinished <=> f0.haveFinished,
         f.needsMoreOutput <=> f0.needsMoreOutput,
         f.maxWritable = f0.maxWritable, f.readable = f0.readable - f0.readBytes,
         f.owedIn = 0, f.owedOut = 0, f.readable >= 0,
         ~Again(f), f.result = StatusOf(f)
  PROVE  ResultFits(f)
  <1>0. f.readable \in Int /\ f0.readable \in Int /\ f0.readBytes \in Int /\ f0.pending \in Int
    BY DEF Frame
  <1>1. f.op = "compress" /\ StreamFinished => f.readable = 0 /\ finish
    <2> SUFFICES ASSUME f.op = "compress", StreamFinished
                 PROVE  f.readable = 0 /\ finish
      OBVIOUS
    <2>1. finish
      BY DEF StreamFits, StreamFinished, Required
    <2>2. f0.pending = 0 /\ Chunk(f0) = f0.readable
      BY <2>1 DEF LocalsAgree, StreamFinished
    <2>3. f0.pending + f0.readBytes = Chunk(f0)
      BY DEF LocalsFit
    <2>4. QED
      BY <1>0, <2>1, <2>2, <2>3
  <1>2. CASE f.needsMoreOutput
    <2>1. f.result = "INSUFFICIENT_OUTPUT" /\ f.maxWritable = 0
      BY <1>2 DEF StatusOf, LocalsAgree
    <2>2. QED
      BY <2>1 DEF ResultFits
  <1>3. CASE ~f.needsMoreOutput /\ ~StreamFinished
    <2>1. f.result = "OK" /\ f.readable = 0 /\ z.held = 0
      BY <1>0, <1>3 DEF StatusOf, LocalsAgree, Again
    <2>2. f.op = "compress" => f0.pending = 0 /\ ~finish
      BY <1>3 DEF LocalsAgree, StreamFinished
    <2>3. f.op = "compress" => f0.readBytes = Chunk(f0) /\ Chunk(f0) = f0.readable
      <3>1. f0.pending + f0.readBytes = Chunk(f0)
        BY DEF LocalsFit
      <3>2. QED
        BY <1>0, <2>1, <2>2, <3>1
    <2>4. f.op = "compress" => ~f.finish
      BY <2>2, <2>3 DEF LocalsAgree
    <2>5. QED
      BY <1>3, <2>1, <2>2, <2>4 DEF ResultFits, StreamFinished
  <1>4. CASE ~f.needsMoreOutput /\ StreamFinished /\ ~AssertionFails(f)
    <2>1. f.result = "FINISHED"
      BY <1>4 DEF StatusOf
    <2>2. z.held = 0
      BY <1>4 DEF StreamFits, StreamFinished
    <2>3. QED
      BY <1>1, <1>4, <2>1, <2>2 DEF ResultFits, StreamFinished
  <1>5. CASE ~f.needsMoreOutput /\ StreamFinished /\ AssertionFails(f)
    <2>1. f.result = "AssertionError"
      BY <1>5 DEF StatusOf
    <2>2. QED
      BY <2>1 DEF ResultFits, Status
  <1>6. QED
    BY <1>2, <1>3, <1>4, <1>5

(* The frame after the index of the input has advanced.                     *)
LEMMA ReadInputFacts ==
  ASSUME NEW f \in Frame
  PROVE  LET g == ReadInput(f) IN
         /\ g \in Frame
         /\ g.readable = f.readable - f.readBytes /\ g.owedIn = f.owedIn - f.readBytes
         /\ g.op = f.op /\ g.finish = f.finish /\ g.inKind = f.inKind
         /\ g.owedOut = f.owedOut
         /\ g.writable = f.writable /\ g.maxWritable = f.maxWritable
         /\ g.haveFinished <=> f.haveFinished
         /\ g.needsMoreOutput <=> f.needsMoreOutput
  <1>1. PICK readable \in Int, owedIn \in Int :
          readable = f.readable - f.readBytes /\ owedIn = f.owedIn - f.readBytes
    BY DEF Frame
  <1>2. PICK g \in Frame : g = [f EXCEPT !.readable = readable, !.owedIn = owedIn]
    BY DEF Frame
  <1>3. ReadInput(f) = g
    BY <1>1, <1>2, Zenon DEF ReadInput
  <1>4. QED
    BY <1>1, <1>2, <1>3 DEF Frame

\* The end of the outer loop, and the choice of the status, preserve it.
LEMMA AfterInnerLoopKeeps ==
  ASSUME IInv, NEW t \in Threads, AfterInnerLoop(t)
  PROVE  IInv'
  <1>1. PICK f0 \in Frame : f0 = frame[t]
    BY CallFacts
  <1>2. /\ TypeOK /\ StreamFits /\ lock = t
        /\ LocalsFit(f0, "settle") /\ LocalsAgree(f0, "settle")
        /\ state = Required(f0.op)
    BY <1>1, CallFacts DEF AfterInnerLoop, CallFits, Working
  <1>3. UNCHANGED <<assertions, open, finish, z, lock, calls>>
    BY DEF AfterInnerLoop
  <1>4. PICK g \in Frame :
          /\ g = ReadInput(f0)
          /\ g.readable = f0.readable - f0.readBytes /\ g.owedIn = f0.owedIn - f0.readBytes
          /\ g.op = f0.op /\ g.finish = f0.finish /\ g.inKind = f0.inKind
          /\ g.owedOut = f0.owedOut
          /\ g.writable = f0.writable /\ g.maxWritable = f0.maxWritable
          /\ g.haveFinished <=> f0.haveFinished
          /\ g.needsMoreOutput <=> f0.needsMoreOutput
    BY ReadInputFacts
  <1>5. /\ f0.readable \in Int /\ f0.readBytes \in Int /\ f0.pending \in Int /\ g.readable \in Int
        /\ f0.readBytes >= 0 /\ f0.pending >= 0 /\ f0.pending + f0.readBytes = Chunk(f0)
        /\ Chunk(f0) \in 0 .. f0.readable /\ f0.owedIn = f0.readBytes /\ f0.owedOut = 0
    BY <1>2, ChunkFits DEF LocalsFit, Frame
  <1>6. g.readable >= 0 /\ g.owedIn = 0 /\ g.owedOut = 0
    BY <1>4, <1>5
  <1>7. CASE /\ Again(g)
             /\ frame' = [frame EXCEPT ![t] = g]
             /\ Goto(t, "fill")
             /\ UNCHANGED state
    <2>1. StreamFits'
      BY <1>2, <1>3, <1>7, StreamFitsKept
    <2>2. LocalsFit(g, "fill")
      BY <1>2, <1>4, <1>6 DEF LocalsFit
    <2>3. g.readable > 0 /\ z.phase # "ended"
      BY <1>5, <1>7 DEF Again, StreamFinished
    <2>4. g.op = "compress" /\ finish => f0.pending > 0 /\ Chunk(g) = g.readable
      <3> SUFFICES ASSUME g.op = "compress", finish
                   PROVE  f0.pending > 0 /\ Chunk(g) = g.readable
        OBVIOUS
      <3>1. Chunk(f0) = f0.readable
        BY <1>2, <1>4 DEF LocalsAgree
      <3>2. f0.pending > 0
        BY <1>4, <1>5, <2>3, <3>1
      <3>3. Chunk(g) = g.readable
        BY <1>4, <1>5, <3>1, BuffersAssumption DEF Chunk, Least
      <3>4. QED
        BY <3>2, <3>3
    <2>5. ~(g.op = "compress" /\ z.phase = "finishing")
      <3>1. g.op = "compress" /\ z.phase = "finishing" => finish
        BY <1>2, <1>4 DEF StreamFits, Required
      <3>2. g.op = "compress" /\ z.phase = "finishing" => f0.pending = 0
        BY <1>2, <1>4 DEF LocalsAgree
      <3>3. QED
        BY <2>4, <3>1, <3>2
    <2>6. g.haveFinished => finish /\ g.finish /\ g.op = "compress"
      BY <1>2, <1>4 DEF LocalsAgree
    <2>7. LocalsAgree(g, "fill")
      BY <2>3, <2>4, <2>5, <2>6 DEF LocalsAgree
    <2>8. CallFits(g, "fill")'
      BY <1>3, <2>2, <2>7 DEF CallFits, LocalsFit, LocalsAgree, Chunk
    <2>9. QED
      BY <1>2, <1>3, <1>4, <1>7, <2>1, <2>8, OneCall DEF TypeOK, Places, Working
  <1>8. CASE /\ ~Again(g)
             /\ frame' = [frame EXCEPT ![t] = [g EXCEPT !.result = StatusOf(g)]]
             /\ Goto(t, "exit")
             /\ state' = StateAfter(StatusOf(g))
    <2>1. PICK result \in Results : result = StatusOf(g)
      BY DEF StatusOf, Results, Status, Thrown
    <2>2. PICK h \in Frame :
            /\ h = [g EXCEPT !.result = result] /\ h.result = result
            /\ h.op = g.op /\ h.finish = g.finish
            /\ h.haveFinished <=> g.haveFinished
            /\ h.needsMoreOutput <=> g.needsMoreOutput
            /\ h.maxWritable = g.maxWritable /\ h.readable = g.readable
            /\ h.owedIn = g.owedIn /\ h.owedOut = g.owedOut
      <3>1. PICK h \in Frame : h = [g EXCEPT !.result = result]
        BY DEF Frame
      <3>2. QED
        BY <3>1 DEF Frame
    <2>3. ~Again(h) /\ StatusOf(h) = StatusOf(g)
      BY <1>8, <2>2 DEF Again, StatusOf, AssertionFails
    <2>4. ResultFits(h)
      <3>1. /\ h.result = StatusOf(h) /\ h.readable = f0.readable - f0.readBytes
            /\ h.readable >= 0 /\ h.owedIn = 0 /\ h.owedOut = 0
        BY <1>4, <1>5, <1>6, <2>1, <2>2, <2>3
      <3>2. QED
        BY <1>2, <1>4, <2>2, <2>3, <3>1, StatusFits
    <2>5. CallFits(h, "exit")'
      BY <1>3, <2>4 DEF CallFits, ResultFits
    <2>6. state' \in State /\ (state' = "COMPRESSING" => state = "COMPRESSING")
      BY <1>2, <1>8 DEF StateAfter, TypeOK, State
    <2>7. StreamFits'
      BY <1>2, <1>3, <2>6 DEF StreamFits
    <2>8. frame' = [frame EXCEPT ![t] = h]
      BY <1>8, <2>1, <2>2
    <2>9. QED
      BY <1>2, <1>3, <1>8, <2>5, <2>6, <2>7, <2>8, OneCall DEF TypeOK, Places, Working
  <1>9. QED
    BY <1>1, <1>4, <1>7, <1>8 DEF AfterInnerLoop

-----------------------------------------------------------------------------
(* Every step preserves the invariant.                                      *)
LEMMA StepIInv ==
  ASSUME LateInput = FALSE, IInv, [Next]_vars
  PROVE  IInv'
  <1>1. ASSUME NEW t \in Threads, Call(t) PROVE IInv'
    BY <1>1, BeginCallKeeps, AtOnceKeeps DEF Call
  <1>2. ASSUME NEW t \in Threads, Work(t) PROVE IInv'
    BY <1>2, EnterMonitorKeeps, PrepareInputKeeps, InnerLoopKeeps, AfterInnerLoopKeeps,
       ExitMonitorKeeps DEF Work
  <1>3. CASE UNCHANGED vars
    BY <1>3 DEF IInv, TypeOK, Guarded, Inside, StreamFits, CallFits, LocalsFit, LocalsAgree,
                ResultFits, Chunk, vars
  <1>4. QED
    BY <1>1, <1>2, <1>3 DEF Next, Rest

(* When callers pass no input after they asked to finish, the buffers of a  *)
(* call, the Deflater or Inflater and the state of the compressor agree at  *)
(* every step.                                                              *)
THEOREM InvariantHolds ==
  ASSUME LateInput = FALSE
  PROVE  Spec => []IInv
  <1>1. IInv /\ [Next]_vars => IInv'
    BY StepIInv
  <1>2. QED
    BY <1>1, InitIInv, PTL DEF Spec

(* A call returns a status only with both indexes advanced by what zlib has *)
(* moved.                                                                   *)
THEOREM StatusIsAccounted ==
  ASSUME LateInput = FALSE
  PROVE  Spec => []Accounted
  <1>1. IInv => Accounted
    BY DEF IInv, CallFits, ResultFits, Accounted, Returning
  <1>2. QED
    BY <1>1, InvariantHolds, PTL

(* INSUFFICIENT_OUTPUT is the truth.                                        *)
THEOREM InsufficientIsFull ==
  ASSUME LateInput = FALSE
  PROVE  Spec => []InsufficientMeansFull
  <1>1. IInv => InsufficientMeansFull
    BY DEF IInv, CallFits, ResultFits, InsufficientMeansFull, Returning
  <1>2. QED
    BY <1>1, InvariantHolds, PTL

(* So are OK and FINISHED.                                                  *)
THEOREM OkIsDrained ==
  ASSUME LateInput = FALSE
  PROVE  Spec => []OkMeansDrained
  <1>1. IInv => OkMeansDrained
    BY DEF IInv, CallFits, ResultFits, OkMeansDrained, Returning
  <1>2. QED
    BY <1>1, InvariantHolds, PTL

(* FINISHED is returned only when the stream has ended and all its output   *)
(* has been written, and by compress() only when all the input is read.     *)
THEOREM FinishedIsComplete ==
  ASSUME LateInput = FALSE
  PROVE  Spec => []FinishedConsumesInput
  <1>1. IInv => FinishedConsumesInput
    BY DEF IInv, CallFits, ResultFits, FinishedConsumesInput, Returning
  <1>2. QED
    BY <1>1, InvariantHolds, PTL

(* A compression that was asked to finish returns OK no more, by whichever  *)
(* call it was asked.                                                       *)
THEOREM OkIsBeforeFinish ==
  ASSUME LateInput = FALSE
  PROVE  Spec => []OkOnlyBeforeFinish
  <1>1. IInv => OkOnlyBeforeFinish
    BY DEF IInv, CallFits, ResultFits, OkOnlyBeforeFinish, Returning
  <1>2. QED
    BY <1>1, InvariantHolds, PTL

=============================================================================
