-------------------------- MODULE ExclusiveStream ---------------------------
(***************************************************************************)
(* What NativeZlibStream (jni/ZLibNative.java) promises to the threads that *)
(* share it: one thread at a time is inside native code, only while the     *)
(* stream is open; a stream that is finished or closed is never entered     *)
(* again; it is closed once, with nobody inside, and the memory native code *)
(* writes to is freed once, after that.                                     *)
(***************************************************************************)
CONSTANT Threads

VARIABLES
  phase,    \* "open", "finished" or "closed"
  inside,   \* the threads that are inside native code
  memory    \* "live" or "freed"

streamVars == <<phase, inside, memory>>

Init ==
  /\ phase = "open"
  /\ inside = {}
  /\ memory = "live"

Enter(t) ==
  /\ phase = "open"
  /\ inside = {}
  /\ inside' = {t}
  /\ UNCHANGED <<phase, memory>>

\* A thread that leaves may have finished the stream.
Exit(t) ==
  /\ inside = {t}
  /\ inside' = {}
  /\ phase' \in {phase, "finished"}
  /\ UNCHANGED memory

Close ==
  /\ phase # "closed"
  /\ inside = {}
  /\ phase' = "closed"
  /\ UNCHANGED <<inside, memory>>

Free ==
  /\ phase = "closed"
  /\ memory = "live"
  /\ memory' = "freed"
  /\ UNCHANGED <<phase, inside>>

Next == (\E t \in Threads : Enter(t) \/ Exit(t)) \/ Close \/ Free

Spec == Init /\ [][Next]_streamVars

=============================================================================
