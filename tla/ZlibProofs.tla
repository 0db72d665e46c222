----------------------------- MODULE ZlibProofs -----------------------------
(* What every outcome of Zlib's deflate() and inflate() satisfies.          *)
EXTENDS Zlib, TLAPS

(* A stream that has just been initialised is a stream.                     *)
LEMMA FreshStreamType == FreshStream \in ZStream
  BY MaxHeldAssumption DEF FreshStream, ZStream, Phase

(* A move within the room of a call, with a code and a phase, is an outcome *)
(* that has consumed and written no more than there was.                    *)
LEMMA OutcomeType ==
  ASSUME NEW availIn \in Nat, NEW availOut \in Nat,
         NEW m \in [consumed: 0 .. availIn, written: 0 .. availOut, held: 0 .. MaxHeld],
         NEW code \in Code, NEW phase \in Phase
  PROVE  /\ Outcome(m, code, phase) \in Outcomes
         /\ Outcome(m, code, phase).consumed <= availIn
         /\ Outcome(m, code, phase).written <= availOut
  BY MaxHeldAssumption DEF Outcome, Outcomes, ZStream

(* A call that moves nothing has such an outcome.                           *)
LEMMA NothingType ==
  ASSUME NEW availIn \in Nat, NEW availOut \in Nat, NEW zz \in ZStream,
         NEW code \in Code, NEW o \in Nothing(zz, code)
  PROVE  o \in Outcomes /\ o.consumed <= availIn /\ o.written <= availOut
  <1> DEFINE m == [consumed |-> 0, written |-> 0, held |-> zz.held]
  <1>1. m \in [consumed: 0 .. availIn, written: 0 .. availOut, held: 0 .. MaxHeld]
    BY MaxHeldAssumption DEF ZStream
  <1>2. zz.phase \in Phase
    BY DEF ZStream
  <1>3. o = Outcome(m, code, zz.phase)
    BY DEF Nothing
  <1> HIDE DEF m
  <1>4. QED
    BY <1>1, <1>2, <1>3, OutcomeType

(* deflate() consumes and writes no more than it was given, and leaves a    *)
(* stream behind.                                                           *)
LEMMA DeflateType ==
  ASSUME NEW availIn \in Nat, NEW availOut \in Nat, NEW zz \in ZStream,
         NEW finish \in BOOLEAN, NEW o \in Deflate(zz, availIn, availOut, finish)
  PROVE  o \in Outcomes /\ o.consumed <= availIn /\ o.written <= availOut
  <1> DEFINE M == [consumed: 0 .. availIn, written: 0 .. availOut, held: 0 .. MaxHeld]
             Fits == o \in Outcomes /\ o.consumed <= availIn /\ o.written <= availOut
  <1>1. ASSUME NEW code \in Code, o \in Nothing(zz, code)
        PROVE  Fits
    BY <1>1, NothingType
  <1>2. ASSUME o \in RefuseLateInput(zz, availOut)
        PROVE  Fits
    <2>1. PICK m \in M, code \in {"Z_OK", "Z_BUF_ERROR"} : o = Outcome(m, code, "finishing")
      <3>1. CASE zz.held >= availOut
        <4>1. [consumed |-> 0, written |-> availOut, held |-> zz.held - availOut] \in M
          BY <3>1, MaxHeldAssumption DEF ZStream
        <4>2. QED
          BY <1>2, <3>1, <4>1 DEF RefuseLateInput
      <3>2. CASE ~(zz.held >= availOut)
        <4>1. [consumed |-> 0, written |-> zz.held, held |-> 0] \in M
          BY <3>2, MaxHeldAssumption DEF ZStream
        <4>2. QED
          BY <1>2, <3>2, <4>1 DEF RefuseLateInput
      <3>3. QED
        BY <3>1, <3>2
    <2>2. QED
      BY <2>1, OutcomeType DEF Code, Phase
  <1>3. ASSUME o \in Finish(zz, availIn, availOut)
        PROVE  Fits
    <2>1. PICK m \in FinishMoves(zz, availIn, availOut) :
            \E a \in FinishAnswers(zz, m, availIn, availOut) : o = Outcome(m, a[1], a[2])
      BY <1>3 DEF Finish
    <2>2. PICK a \in FinishAnswers(zz, m, availIn, availOut) : o = Outcome(m, a[1], a[2])
      BY <2>1
    <2>3. m \in M
      BY DEF FinishMoves, Moves
    <2>4. a[1] \in Code /\ a[2] \in Phase
      BY <2>2 DEF FinishAnswers, Code, Phase
    <2>5. QED
      BY <2>2, <2>3, <2>4, OutcomeType
  <1>4. ASSUME o \in SyncFlush(zz, availIn, availOut)
        PROVE  Fits
    <2>1. PICK m \in M, phase \in {"synced", "busy"} : o = Outcome(m, "Z_OK", phase)
      BY <1>4 DEF SyncFlush, Moves
    <2>2. QED
      BY <2>1, OutcomeType DEF Code, Phase
  <1>5. QED
    BY <1>1, <1>2, <1>3, <1>4 DEF Deflate, Code

(* inflate() consumes and writes no more than it was given, and leaves a    *)
(* stream behind.                                                           *)
LEMMA InflateType ==
  ASSUME NEW availIn \in Nat, NEW availOut \in Nat, NEW zz \in ZStream,
         NEW o \in Inflate(zz, availIn, availOut)
  PROVE  o \in Outcomes /\ o.consumed <= availIn /\ o.written <= availOut
  <1> DEFINE M == [consumed: 0 .. availIn, written: 0 .. availOut, held: 0 .. MaxHeld]
             Fits == o \in Outcomes /\ o.consumed <= availIn /\ o.written <= availOut
  <1>1. ASSUME NEW code \in Code, o \in Nothing(zz, code)
        PROVE  Fits
    BY <1>1, NothingType
  <1>2. ASSUME o \in InflateProgress(zz, availIn, availOut)
        PROVE  Fits
    <2>1. PICK m \in M, code \in {"Z_OK", "Z_BUF_ERROR"} : o = Outcome(m, code, "busy")
      BY <1>2 DEF InflateProgress, Inflating, Moves
    <2>2. QED
      BY <2>1, OutcomeType DEF Code, Phase
  <1>3. ASSUME NEW code \in Code, NEW phase \in Phase, NEW room \in {0, availOut},
               o \in InflateStops(zz, availIn, room, code, phase)
        PROVE  Fits
    <2>1. PICK m \in [consumed: 1 .. availIn, written: 0 .. room, held: {0}] :
            o = Outcome(m, code, phase)
      BY <1>3 DEF InflateStops
    <2>2. m \in M
      BY MaxHeldAssumption
    <2>3. QED
      BY <2>1, <2>2, OutcomeType
  <1>4. CASE zz.phase \in Broken
    BY <1>1, <1>4 DEF Inflate, Broken, Code
  <1>5. CASE zz.phase = "ended"
    BY <1>1, <1>5 DEF Inflate, Broken, Code
  <1>6. CASE zz.phase \notin Broken /\ zz.phase # "ended"
    BY <1>2, <1>3, <1>6 DEF Inflate, Broken, Code, Phase
  <1>7. QED
    BY <1>4, <1>5, <1>6

(* deflate(), when its caller adds no input to a stream that is finishing:  *)
(* a code that is no success has moved nothing; room that is left means     *)
(* that nothing is; only a stream in the middle of something holds output   *)
(* back; and the stream finishes when it is told to, with all its input,    *)
(* and has ended when there is room left.                                   *)
LEMMA DeflateFacts ==
  ASSUME NEW availIn \in Nat, NEW availOut \in Nat, NEW zz \in ZStream,
         NEW finish \in BOOLEAN, NEW o \in Deflate(zz, availIn, availOut, finish),
         zz.phase \notin {"busy", "finishing"} => zz.held = 0,
         zz.phase \in {"finishing", "ended"} => finish /\ availIn = 0
  PROVE  /\ o.code \notin {"Z_OK", "Z_STREAM_END"} => o.written = 0
         /\ o.written < availOut => o.stream.held = 0 /\ o.consumed = availIn
         /\ o.stream.phase \notin {"busy", "finishing"} => o.stream.held = 0
         /\ o.stream.phase \in {"finishing", "ended"} => finish /\ o.consumed = availIn
         /\ finish /\ o.written < availOut => o.stream.phase = "ended"
  <1> DEFINE Good ==
               /\ o.code \notin {"Z_OK", "Z_STREAM_END"} => o.written = 0
               /\ o.written < availOut => o.stream.held = 0 /\ o.consumed = availIn
               /\ o.stream.phase \notin {"busy", "finishing"} => o.stream.held = 0
               /\ o.stream.phase \in {"finishing", "ended"} => finish /\ o.consumed = availIn
               /\ finish /\ o.written < availOut => o.stream.phase = "ended"
  <1> SUFFICES Good
    OBVIOUS
  <1>1. ASSUME NEW code \in Code, o \in Nothing(zz, code),
               \/ availOut = 0
               \/ availIn = 0 /\ zz.held = 0 /\ (finish => zz.phase = "ended")
        PROVE  Good
    BY <1>1 DEF Nothing, Outcome, ZStream
  <1>2. ASSUME o \in Finish(zz, availIn, availOut), finish
        PROVE  Good
    <2>1. PICK m \in FinishMoves(zz, availIn, availOut) :
            \E a \in FinishAnswers(zz, m, availIn, availOut) : o = Outcome(m, a[1], a[2])
      BY <1>2 DEF Finish
    <2>2. PICK a \in FinishAnswers(zz, m, availIn, availOut) : o = Outcome(m, a[1], a[2])
      BY <2>1
    <2>3. /\ m \in [consumed: 0 .. availIn, written: 0 .. availOut, held: 0 .. MaxHeld]
          /\ m.written < availOut => m.held = 0 /\ m.consumed = availIn
      BY DEF FinishMoves, Moves
    <2>4. \/ a = <<"Z_OK", "busy">> /\ (m.consumed < availIn \/ m.held > 0)
          \/ /\ a = <<"Z_OK", "finishing">> /\ ~(m.consumed < availIn)
             /\ m.held > 0 \/ ~(m.written < availOut)
          \/ a = <<"Z_STREAM_END", "ended">> /\ ~(m.consumed < availIn) /\ ~(m.held > 0)
      BY <2>2 DEF FinishAnswers
    <2>5. /\ o.code = a[1] /\ o.stream.phase = a[2]
          /\ o.consumed = m.consumed /\ o.written = m.written /\ o.stream.held = m.held
      BY <2>2 DEF Outcome
    <2>6. QED
      BY <1>2, <2>3, <2>4, <2>5, MaxHeldAssumption
  <1>3. ASSUME o \in SyncFlush(zz, availIn, availOut), ~finish
        PROVE  Good
    <2>1. PICK m \in Moves(zz, availIn, availOut) :
            o = Outcome(m, "Z_OK", IF m.written < availOut THEN "synced" ELSE "busy")
      BY <1>3 DEF SyncFlush
    <2>2. QED
      BY <1>3, <2>1 DEF Moves, Outcome
  <1>4. zz.held \in Nat
    BY MaxHeldAssumption DEF ZStream
  <1>5. CASE zz.phase = "ended"
    BY <1>1, <1>4, <1>5 DEF Deflate, Code
  <1>6. CASE zz.phase = "finishing"
    <2>1. finish /\ availIn = 0
      BY <1>6
    <2>2. \/ availOut = 0 /\ o \in Nothing(zz, "Z_BUF_ERROR")
          \/ o \in Finish(zz, availIn, availOut)
      BY <1>6, <2>1 DEF Deflate
    <2>3. CASE availOut = 0 /\ o \in Nothing(zz, "Z_BUF_ERROR")
      BY <1>1, <2>3 DEF Code
    <2>4. CASE o \in Finish(zz, availIn, availOut)
      BY <1>2, <2>1, <2>4
    <2>5. QED
      BY <2>2, <2>3, <2>4
  <1>7. CASE zz.phase \notin {"finishing", "ended"}
    <2>1. \/ /\ availOut = 0 \/ (zz.phase = "synced" /\ availIn = 0 /\ ~finish)
             /\ o \in Nothing(zz, "Z_BUF_ERROR")
          \/ finish /\ o \in Finish(zz, availIn, availOut)
          \/ ~finish /\ o \in SyncFlush(zz, availIn, availOut)
      BY <1>7 DEF Deflate
    <2>2. zz.phase = "synced" => zz.held = 0
      OBVIOUS
    <2>3. CASE /\ availOut = 0 \/ (zz.phase = "synced" /\ availIn = 0 /\ ~finish)
               /\ o \in Nothing(zz, "Z_BUF_ERROR")
      BY <1>1, <2>2, <2>3 DEF Code
    <2>4. CASE finish /\ o \in Finish(zz, availIn, availOut)
      BY <1>2, <2>4
    <2>5. CASE ~finish /\ o \in SyncFlush(zz, availIn, availOut)
      BY <1>3, <2>5
    <2>6. QED
      BY <2>1, <2>3, <2>4, <2>5
  <1>8. QED
    BY <1>5, <1>6, <1>7

(* inflate(): the same, for a call that does not end in an exception of the *)
(* JDK.                                                                     *)
LEMMA InflateFacts ==
  ASSUME NEW availIn \in Nat, NEW availOut \in Nat, NEW zz \in ZStream,
         NEW o \in Inflate(zz, availIn, availOut),
         zz.phase \notin {"busy", "finishing"} => zz.held = 0
  PROVE  /\ o.code \notin {"Z_OK", "Z_STREAM_END", "Z_DATA_ERROR", "Z_MEM_ERROR"} =>
              o.written = 0
         /\ o.code \notin {"Z_DATA_ERROR", "Z_MEM_ERROR"} /\ o.written < availOut =>
              o.stream.held = 0
         /\ o.stream.phase \notin {"busy", "finishing"} => o.stream.held = 0
  <1> DEFINE Good ==
               /\ o.code \notin {"Z_OK", "Z_STREAM_END", "Z_DATA_ERROR", "Z_MEM_ERROR"} =>
                    o.written = 0
               /\ o.code \notin {"Z_DATA_ERROR", "Z_MEM_ERROR"} /\ o.written < availOut =>
                    o.stream.held = 0
               /\ o.stream.phase \notin {"busy", "finishing"} => o.stream.held = 0
  <1> SUFFICES Good
    OBVIOUS
  <1>1. ASSUME NEW code, o \in Nothing(zz, code), zz.phase \notin {"busy", "finishing"}
        PROVE  Good
    BY <1>1 DEF Nothing, Outcome
  <1>2. ASSUME o \in InflateProgress(zz, availIn, availOut)
        PROVE  Good
    <2>1. PICK m \in Moves(zz, availIn, availOut) :
            o = Outcome(m, IF m.consumed = 0 /\ m.written = 0 THEN "Z_BUF_ERROR" ELSE "Z_OK",
                        "busy")
      BY <1>2 DEF InflateProgress, Inflating
    <2>2. QED
      BY <2>1 DEF Moves, Outcome
  <1>3. ASSUME NEW code, NEW phase, NEW room \in {0, availOut},
               code = "Z_NEED_DICT" => room = 0,
               code \in {"Z_STREAM_END", "Z_DATA_ERROR", "Z_MEM_ERROR", "Z_NEED_DICT"},
               o \in InflateStops(zz, availIn, room, code, phase)
        PROVE  Good
    <2>1. PICK m \in [consumed: 1 .. availIn, written: 0 .. room, held: {0}] :
            o = Outcome(m, code, phase)
      BY <1>3 DEF InflateStops
    <2>2. QED
      BY <1>3, <2>1 DEF Outcome
  <1>4. CASE zz.phase \in Broken
    BY <1>1, <1>4 DEF Inflate, Broken
  <1>5. CASE zz.phase = "ended"
    BY <1>1, <1>5 DEF Inflate, Broken
  <1>6. CASE zz.phase \notin Broken /\ zz.phase # "ended"
    BY <1>2, <1>3, <1>6 DEF Inflate, Broken
  <1>7. QED
    BY <1>4, <1>5, <1>6

(* deflate(), whatever its caller offers to a stream that has not ended: a  *)
(* success that leaves room has left nothing behind, one that fills the     *)
(* output has something to flush, the end of the stream is reported when it *)
(* comes, a stream begins to finish only when it is told to, and a call is  *)
(* refused only without room, on a finishing stream that is told something  *)
(* else or offered input, or when there is nothing to do.                   *)
LEMMA DeflateAnswers ==
  ASSUME NEW availIn \in Nat, NEW availOut \in Nat, NEW zz \in ZStream,
         NEW finish \in BOOLEAN, NEW o \in Deflate(zz, availIn, availOut, finish),
         zz.phase # "ended"
  PROVE  /\ o.code \in {"Z_OK", "Z_STREAM_END"} =>
              /\ o.written < availOut => o.stream.held = 0
              /\ o.written = availOut => o.stream.phase # "synced"
              /\ o.stream.phase = "finishing" => finish
         /\ o.code = "Z_STREAM_END" <=> o.stream.phase = "ended"
         /\ o.code \in {"Z_BUF_ERROR", "Z_STREAM_ERROR"} =>
              \/ availOut = 0
              \/ zz.phase = "finishing" /\ (~finish \/ availIn > 0)
              \/ availIn = 0 /\ zz.phase = "synced"
  <1> DEFINE Good ==
               /\ o.code \in {"Z_OK", "Z_STREAM_END"} =>
                    /\ o.written < availOut => o.stream.held = 0
                    /\ o.written = availOut => o.stream.phase # "synced"
                    /\ o.stream.phase = "finishing" => finish
               /\ o.code = "Z_STREAM_END" <=> o.stream.phase = "ended"
               /\ o.code \in {"Z_BUF_ERROR", "Z_STREAM_ERROR"} =>
                    \/ availOut = 0
                    \/ zz.phase = "finishing" /\ (~finish \/ availIn > 0)
                    \/ availIn = 0 /\ zz.phase = "synced"
  <1> SUFFICES Good
    OBVIOUS
  <1>1. ASSUME NEW code \in {"Z_BUF_ERROR", "Z_STREAM_ERROR"}, o \in Nothing(zz, code),
               \/ availOut = 0 \/ (zz.phase = "finishing" /\ ~finish)
               \/ availIn = 0 /\ zz.phase = "synced"
        PROVE  Good
    BY <1>1 DEF Nothing, Outcome
  <1>2. ASSUME o \in RefuseLateInput(zz, availOut), zz.phase = "finishing", finish, availIn > 0
        PROVE  Good
    <2>1. zz.held \in Nat
      BY MaxHeldAssumption DEF ZStream
    <2>2. QED
      BY <1>2, <2>1 DEF RefuseLateInput, Outcome
  <1>3. ASSUME o \in Finish(zz, availIn, availOut), finish
        PROVE  Good
    <2>1. PICK m \in FinishMoves(zz, availIn, availOut) :
            \E a \in FinishAnswers(zz, m, availIn, availOut) : o = Outcome(m, a[1], a[2])
      BY <1>3 DEF Finish
    <2>2. PICK a \in FinishAnswers(zz, m, availIn, availOut) : o = Outcome(m, a[1], a[2])
      BY <2>1
    <2>3. m.written < availOut => m.held = 0
      BY DEF FinishMoves, Moves
    <2>4. a \in {<<"Z_OK", "busy">>, <<"Z_OK", "finishing">>, <<"Z_STREAM_END", "ended">>}
      BY <2>2 DEF FinishAnswers
    <2>5. /\ o.code = a[1] /\ o.stream.phase = a[2]
          /\ o.written = m.written /\ o.stream.held = m.held
      BY <2>2 DEF Outcome
    <2>6. QED
      BY <1>3, <2>3, <2>4, <2>5
  <1>4. ASSUME o \in SyncFlush(zz, availIn, availOut)
        PROVE  Good
    <2>1. PICK m \in Moves(zz, availIn, availOut) :
            o = Outcome(m, "Z_OK", IF m.written < availOut THEN "synced" ELSE "busy")
      BY <1>4 DEF SyncFlush
    <2>2. QED
      BY <2>1 DEF Moves, Outcome
  <1>5. \/ /\ \/ availOut = 0 \/ (zz.phase = "finishing" /\ ~finish)
              \/ availIn = 0 /\ zz.phase = "synced"
           /\ \E code \in {"Z_BUF_ERROR", "Z_STREAM_ERROR"} : o \in Nothing(zz, code)
        \/ /\ zz.phase = "finishing" /\ finish /\ availIn > 0
           /\ o \in RefuseLateInput(zz, availOut)
        \/ finish /\ o \in Finish(zz, availIn, availOut)
        \/ o \in SyncFlush(zz, availIn, availOut)
    BY DEF Deflate
  <1>6. QED
    BY <1>1, <1>2, <1>3, <1>4, <1>5

(* inflate(), likewise: a success that leaves room has left nothing behind, *)
(* and the end of the stream is reported when it comes.                     *)
LEMMA InflateAnswers ==
  ASSUME NEW availIn \in Nat, NEW availOut \in Nat, NEW zz \in ZStream,
         NEW o \in Inflate(zz, availIn, availOut), zz.phase # "ended"
  PROVE  /\ o.code \in {"Z_OK", "Z_STREAM_END"} /\ o.written < availOut =>
              o.stream.held = 0
         /\ o.code = "Z_STREAM_END" <=> o.stream.phase = "ended"
  <1> DEFINE Good ==
               /\ o.code \in {"Z_OK", "Z_STREAM_END"} /\ o.written < availOut =>
                    o.stream.held = 0
               /\ o.code = "Z_STREAM_END" <=> o.stream.phase = "ended"
        <1> SUFFICES Good
    OBVIOUS
  <1>1. ASSUME zz.phase \in Broken, o \in Nothing(zz, zz.phase)
        PROVE  Good
    BY <1>1 DEF Nothing, Outcome, Broken
  <1>2. ASSUME o \in InflateProgress(zz, availIn, availOut)
        PROVE  Good
    <2>1. PICK m \in Moves(zz, availIn, availOut) :
            o = Outcome(m, IF m.consumed = 0 /\ m.written = 0 THEN "Z_BUF_ERROR" ELSE "Z_OK",
                        "busy")
      BY <1>2 DEF InflateProgress, Inflating
    <2>2. QED
      BY <2>1 DEF Moves, Outcome
  <1>3. ASSUME NEW code \in Broken \cup {"Z_STREAM_END"}, NEW phase, NEW room,
               phase = IF code = "Z_STREAM_END" THEN "ended" ELSE code,
               o \in InflateStops(zz, availIn, room, code, phase)
        PROVE  Good
    <2>1. PICK m \in [consumed: 1 .. availIn, written: 0 .. room, held: {0}] :
            o = Outcome(m, code, phase)
      BY <1>3 DEF InflateStops
    <2>2. o.code = code /\ o.stream.phase = phase /\ o.stream.held = 0
      BY <2>1 DEF Outcome
    <2>3. QED
      BY <1>3, <2>2 DEF Broken
  <1>4. CASE zz.phase \in Broken
    BY <1>1, <1>4 DEF Inflate
  <1>5. CASE zz.phase \notin Broken
    BY <1>2, <1>3, <1>5 DEF Inflate, Broken
  <1>6. QED
    BY <1>4, <1>5

=============================================================================
