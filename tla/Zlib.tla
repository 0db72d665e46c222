-------------------------------- MODULE Zlib --------------------------------
(***************************************************************************)
(* The z_stream that src/main/c/zlib_native.c drives.  zlib itself is not   *)
(* part of the repository: this module states, as sets of possible          *)
(* outcomes, what one call of deflate() or inflate() may answer, as far as  *)
(* its callers depend on it: how many bytes it consumes and writes, the     *)
(* code it returns and what it leaves inside the stream.                    *)
(*                                                                          *)
(* A stream is a record: "held" is the output that the consumed input       *)
(* already determines and that has not been written yet; "phase" is         *)
(*   busy       the stream accepts any call                                 *)
(*   synced     the last sync flush completed: there is nothing to flush    *)
(*   finishing  deflate() has accepted the last input (FINISH_STATE)        *)
(*   ended      Z_STREAM_END has been returned                              *)
(* or the error the stream has failed with, which it keeps returning.       *)
(***************************************************************************)
EXTENDS Integers

CONSTANT MaxHeld   \* bound on the output a stream may hold back

ASSUME MaxHeldAssumption == MaxHeld \in Nat

Broken == {"Z_DATA_ERROR", "Z_NEED_DICT", "Z_MEM_ERROR"}

Code == {"Z_OK", "Z_STREAM_END", "Z_BUF_ERROR", "Z_STREAM_ERROR"} \cup Broken

Phase == {"busy", "synced", "finishing", "ended"} \cup Broken

ZStream == [held: 0 .. MaxHeld, phase: Phase]

FreshStream == [held |-> 0, phase |-> "busy"]

Outcomes == [consumed: Nat, written: Nat, code: Code, stream: ZStream]

-----------------------------------------------------------------------------
(* What one call moves.  Nothing that is held is dropped, and a call that   *)
(* leaves room in the output has consumed all the input and holds nothing.  *)

Moves(z, availIn, availOut) ==
  {m \in [consumed: 0 .. availIn, written: 0 .. availOut, held: 0 .. MaxHeld] :
     /\ m.written + m.held >= z.held
     /\ m.written < availOut => m.held = 0 /\ m.consumed = availIn}

Outcome(m, code, phase) ==
  [consumed |-> m.consumed, written |-> m.written, code |-> code,
   stream |-> [held |-> m.held, phase |-> phase]]

\* A call that is refused, or that can make no progress, moves nothing.
Nothing(z, code) ==
  {Outcome([consumed |-> 0, written |-> 0, held |-> z.held], code, z.phase)}

-----------------------------------------------------------------------------
(* deflate(stream, Z_SYNC_FLUSH): every flush that is not repeated writes   *)
(* at least its marker.                                                     *)

SyncFlush(z, availIn, availOut) ==
  {Outcome(m, "Z_OK", IF m.written < availOut THEN "synced" ELSE "busy") :
     m \in {x \in Moves(z, availIn, availOut) : x.written > 0}}

(* deflate(stream, Z_FINISH).  Once the input is consumed the stream may    *)
(* already be finishing or still have input in its window; when the output  *)
(* is filled exactly the end may be reported now or by the next call.       *)

FinishAnswers(z, m, availIn, availOut) ==
  IF m.consumed < availIn THEN {<<"Z_OK", "busy">>}
  ELSE IF m.held > 0 THEN
    {<<"Z_OK", "finishing">>}
      \cup (IF z.phase = "finishing" THEN {} ELSE {<<"Z_OK", "busy">>})
  ELSE {<<"Z_STREAM_END", "ended">>}
         \cup (IF m.written < availOut THEN {} ELSE {<<"Z_OK", "finishing">>})

FinishMoves(z, availIn, availOut) ==
  {m \in Moves(z, availIn, availOut) :
     IF z.phase = "finishing" THEN m.written + m.held = z.held
                              ELSE m.written > 0}

Finish(z, availIn, availOut) ==
  UNION {{Outcome(m, a[1], a[2]) : a \in FinishAnswers(z, m, availIn, availOut)} :
           m \in FinishMoves(z, availIn, availOut)}

(* Input offered to a finishing stream is refused, but only after the held  *)
(* output has been written as far as there is room.                         *)

RefuseLateInput(z, availOut) ==
  IF z.held >= availOut
  THEN {Outcome([consumed |-> 0, written |-> availOut, held |-> z.held - availOut],
                "Z_OK", "finishing")}
  ELSE {Outcome([consumed |-> 0, written |-> z.held, held |-> 0],
                "Z_BUF_ERROR", "finishing")}

Deflate(z, availIn, availOut, finish) ==
  IF z.phase \in {"finishing", "ended"} /\ ~finish THEN Nothing(z, "Z_STREAM_ERROR")
  ELSE IF availOut = 0 THEN Nothing(z, "Z_BUF_ERROR")
  ELSE IF z.phase = "ended" THEN
    Nothing(z, IF availIn > 0 THEN "Z_BUF_ERROR" ELSE "Z_STREAM_END")
  ELSE IF z.phase = "finishing" /\ availIn > 0 THEN RefuseLateInput(z, availOut)
  ELSE IF finish THEN Finish(z, availIn, availOut)
  ELSE IF z.phase = "synced" /\ availIn = 0 THEN Nothing(z, "Z_BUF_ERROR")
  ELSE SyncFlush(z, availIn, availOut)

-----------------------------------------------------------------------------
(* inflate(stream, Z_SYNC_FLUSH).  Output comes only from input.  The end   *)
(* of the stream may leave input behind; bad input, a preset dictionary or  *)
(* a failed allocation breaks the stream after some bytes have been moved;  *)
(* the dictionary is asked for before there is any output.                  *)

Inflating(z, availIn, availOut) ==
  {m \in Moves(z, availIn, availOut) :
     m.consumed = 0 => m.written + m.held = z.held}

InflateProgress(z, availIn, availOut) ==
  {Outcome(m, IF m.consumed = 0 /\ m.written = 0 THEN "Z_BUF_ERROR" ELSE "Z_OK", "busy") :
     m \in Inflating(z, availIn, availOut)}

InflateStops(z, availIn, availOut, code, phase) ==
  {Outcome(m, code, phase) :
     m \in {x \in [consumed: 1 .. availIn, written: 0 .. availOut, held: {0}] :
              x.written >= z.held}}

Inflate(z, availIn, availOut) ==
  IF z.phase \in Broken THEN Nothing(z, z.phase)
  ELSE IF z.phase = "ended" THEN Nothing(z, "Z_STREAM_END")
  ELSE InflateProgress(z, availIn, availOut)
         \cup InflateStops(z, availIn, availOut, "Z_STREAM_END", "ended")
         \cup InflateStops(z, availIn, 0, "Z_NEED_DICT", "Z_NEED_DICT")
         \cup InflateStops(z, availIn, availOut, "Z_DATA_ERROR", "Z_DATA_ERROR")
         \cup InflateStops(z, availIn, availOut, "Z_MEM_ERROR", "Z_MEM_ERROR")

=============================================================================
