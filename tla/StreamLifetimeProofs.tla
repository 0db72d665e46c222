------------------------ MODULE StreamLifetimeProofs ------------------------
(***************************************************************************)
(* For any classes, streams, levels, message lengths and number of loads:   *)
(* the inductive invariant of StreamLifetime, and what follows from it for  *)
(* the class table, for streams and for exception messages.                 *)
(***************************************************************************)
EXTENDS StreamLifetime, FiniteSetTheorems, TLAPS

(* There are finitely many constant classes.                                *)
LEMMA ClassesFinite == IsFiniteSet(Classes)
  <1> DEFINE n == Len(ConstantClasses)
  <1>1. n \in Nat /\ DOMAIN ConstantClasses = 1 .. n
    BY ClassesAssumption
  <1>2. IsFiniteSet(1 .. n)
    BY <1>1, FS_Interval
  <1>3. [k \in 1 .. n |-> ConstantClasses[k]] \in Surjection(1 .. n, Classes)
    BY <1>1 DEF Classes, Surjection
  <1>4. QED
    BY <1>2, <1>3, FS_Surjection

(* Counting the variables that hold a reference.                            *)
LEMMA VariablesCounted ==
  ASSUME NEW S \in SUBSET Classes, NEW class
  PROVE  /\ IsFiniteSet(S)
         /\ Cardinality(S) \in Nat
         /\ Cardinality(S \cup {class}) =
              IF class \in S THEN Cardinality(S) ELSE Cardinality(S) + 1
  BY ClassesFinite, FS_Subset, FS_CardinalityType, FS_AddElement

(* Every call of vasprintf() that succeeds keeps to its block, and stores   *)
(* all of a message that is shorter than the first buffer.                  *)
LEMMA VasprintfOutcomes ==
  ASSUME NEW p \in {"c99", "windows"}, NEW needed \in Nat, NEW o \in Vasprintf(p, needed)
  PROVE  o \in MessageOutcome /\ BufferFits(o) /\ MessageIntact(p, o)
  <1>0. TempSize \in Nat \ {0}
    BY MessagesAssumption
  <1>1. ASSUME NEW code \in {-1, -3}, NEW lost1 \in BOOLEAN, o = Failure(needed, code, lost1)
        PROVE  o \in MessageOutcome /\ BufferFits(o) /\ MessageIntact(p, o)
    BY <1>1 DEF Failure, MessageOutcome, BufferFits, MessageIntact
  <1>2. ASSUME NEW text \in Nat, o = Success(needed, text), text <= needed,
               p = "c99" /\ needed < TempSize => text = needed
        PROVE  o \in MessageOutcome /\ BufferFits(o) /\ MessageIntact(p, o)
    BY <1>0, <1>2 DEF Success, MessageOutcome, BufferFits, MessageIntact
  <1>3. ASSUME o \in SecondAttempt(needed), p = "windows" \/ needed > TempSize
        PROVE  o \in MessageOutcome /\ BufferFits(o) /\ MessageIntact(p, o)
    <2>1. CASE o = Success(needed, Stored(needed, needed))
      BY <1>0, <1>2, <1>3, <2>1 DEF Stored
    <2>2. CASE o = Failure(needed, -1, FALSE)
      BY <1>1, <2>2
    <2>3. QED
      BY <1>3, <2>1, <2>2 DEF SecondAttempt
  <1>4. CASE p = "windows"
    <2>1. o = Failure(needed, -3, FALSE) \/ o = Success(needed, needed) \/ o \in SecondAttempt(needed)
      BY <1>4 DEF Vasprintf, FormatWindows
    <2>2. CASE o = Success(needed, needed)
      BY <1>2, <2>2
    <2>3. QED
      BY <1>1, <1>3, <1>4, <2>1, <2>2
  <1>5. CASE p = "c99" /\ Fits(needed) /\ o = Success(needed, Stored(needed, TempSize))
    BY <1>0, <1>2, <1>5 DEF Stored, Fits
  <1>6. CASE p = "c99"
    <2>1. \/ \E code \in {-1, -3}, l \in BOOLEAN : o = Failure(needed, code, l)
          \/ Fits(needed) /\ o = Success(needed, Stored(needed, TempSize))
          \/ ~Fits(needed) /\ o \in SecondAttempt(needed)
      BY <1>6 DEF Vasprintf, FormatC99
    <2>2. QED
      BY <1>0, <1>1, <1>3, <1>5, <1>6, <2>1 DEF Fits
  <1>7. QED
    BY <1>4, <1>6

(* The invariant holds before the first load.                               *)
LEMMA InitIInv == Init => IInv
  <1> SUFFICES ASSUME Init
               PROVE  IInv
    OBVIOUS
  <1> USE DEF Init, ClassInit
  <1>1. Len(ConstantClasses) \in Nat
    BY ClassesAssumption
  <1>2. ClassTypeOK
    <2>1. next \in 1 .. Len(ConstantClasses) + 1 /\ loads \in 0 .. MaxLoads
      BY <1>1, MaxLoadsAssumption
    <2>2. table \in Seq(Classes) /\ globals \in Nat /\ lost \in Nat
      OBVIOUS
    <2>3. variable \in SUBSET Classes /\ pending \in BOOLEAN /\ fault \in Faults
      BY DEF Faults
    <2>4. QED
      BY <2>1, <2>2, <2>3 DEF ClassTypeOK
  <1>3. message \in MessageOutcome /\ MessageSafe /\ MessageComplete
    BY DEF Failure, MessageOutcome, MessageSafe, BufferFits, MessageComplete, MessageIntact
  <1>4. TypeOK
    BY <1>2, <1>3 DEF TypeOK, Stages, Types, JavaThrown
  <1>5. TableFits /\ LoadFits /\ CrashesExplained /\ PointersValid
    BY DEF TableFits, LoadFits, CrashesExplained, PointersValid
  <1>6. GlobalsAccounted
    BY FS_EmptySet DEF GlobalsAccounted
  <1>7. QED
    BY <1>3, <1>4, <1>5, <1>6 DEF IInv

-----------------------------------------------------------------------------
(* The class table.                                                         *)

\* What the steps of the class table do not touch.
StreamPart ==
  /\ hasUnsafe \in BOOLEAN
  /\ directAccess \in BOOLEAN
  /\ platform \in Platforms
  /\ stage \in [Streams -> Stages]
  /\ typeId \in [Streams -> Types]
  /\ level \in [Streams -> Levels \cup {-1}]
  /\ block \in [Streams -> {"none", "raw"} \cup Types]
  /\ pointer \in [Streams -> {"none", "stream", "-1"}]
  /\ communication \in [Streams -> {"none", "live", "freed"}]
  /\ thrown \in [Streams -> Classes \cup JavaThrown]
  /\ message \in MessageOutcome
  /\ PointersValid
  /\ MessageSafe
  /\ MessageComplete

ClassPart ==
  /\ ClassTypeOK
  /\ TableFits
  /\ LoadFits
  /\ GlobalsAccounted
  /\ CrashesExplained

(* The invariant has a part about each half of the state.                   *)
LEMMA Parts ==
  /\ IInv => ClassPart /\ StreamPart
  /\ ClassPart' /\ StreamPart' => IInv'
  BY DEF IInv, TypeOK, ClassPart, StreamPart

\* What the invariant says of the streams depends on their variables.
LEMMA StreamPartKept ==
  ASSUME StreamPart, UNCHANGED streamVars
  PROVE  StreamPart'
  BY DEF StreamPart, streamVars, PointersValid, MessageSafe, MessageComplete

\* What it says of the class table depends on the variables of the table.
LEMMA ClassPartKept ==
  ASSUME ClassPart, UNCHANGED classVars
  PROVE  ClassPart'
  BY DEF ClassPart, classVars, ClassTypeOK, TableFits, LoadFits, GlobalsAccounted,
         CrashesExplained, Released

\* The beginning of a load preserves the part of the class table.
LEMMA LoadKeeps ==
  ASSUME ClassPart, Load
  PROVE  ClassPart'
  <1> USE DEF ClassPart, Load
  <1>1. Len(ConstantClasses) \in Nat
    BY ClassesAssumption
  <1>2. ClassTypeOK'
    BY <1>1, MaxLoadsAssumption DEF ClassTypeOK
  <1>3. fault = "none"
    BY DEF LoadFits
  <1>4. LoadFits'
    BY <1>1, <1>3, ClassesAssumption DEF LoadFits
  <1>5. TableFits' /\ GlobalsAccounted' /\ CrashesExplained'
    BY <1>3 DEF TableFits, Released, GlobalsAccounted, CrashesExplained
  <1>6. QED
    BY <1>2, <1>4, <1>5

(* A step of JNI_OnLoad that leaves a failure pending, or ends there.       *)
LEMMA FailureKeeps ==
  ASSUME ClassPart, InOnLoad,
         \/ /\ next' = next + 1 /\ pending' = TRUE
            /\ UNCHANGED library /\ UNCHANGED fault
         \/ /\ "OUT_OF_MEMORY_ERROR" \notin variable
            /\ Crash("nullClass") /\ UNCHANGED next /\ UNCHANGED pending,
         UNCHANGED imageStays, UNCHANGED variable, UNCHANGED table, UNCHANGED tableMemory,
         UNCHANGED globals, UNCHANGED lost, UNCHANGED loads
  PROVE  ClassPart'
  <1> USE DEF ClassPart, InOnLoad, Crash
  <1>1. Len(ConstantClasses) \in Nat
    BY ClassesAssumption
  <1>2. next' \in 1 .. Len(ConstantClasses) + 1
    BY <1>1 DEF ClassTypeOK
  <1>3. ClassTypeOK'
    BY <1>2 DEF ClassTypeOK, Faults
  <1>4. fault = "none"
    BY DEF LoadFits
  <1>5. LoadFits' /\ CrashesExplained'
    BY <1>4 DEF LoadFits, CrashesExplained
  <1>6. TableFits' /\ GlobalsAccounted'
    BY DEF TableFits, Released, GlobalsAccounted
  <1>7. QED
    BY <1>3, <1>5, <1>6

\* createConstantClass() preserves it.
LEMMA CreateKeeps ==
  ASSUME ClassPart, CreateConstantClass
  PROVE  ClassPart'
  <1> USE DEF ClassPart
  <1>1. PICK class : class = ConstantClasses[next]
    OBVIOUS
  <1>2. /\ Len(ConstantClasses) \in Nat
        /\ next \in 1 .. Len(ConstantClasses)
        /\ library = "loading"
        /\ class \in Classes
    BY <1>1, ClassesAssumption DEF CreateConstantClass, InOnLoad, ClassTypeOK, Classes
  <1>3. /\ variable' = variable \cup {class}
        /\ globals' = globals + 1
        /\ lost' = IF class \in variable THEN lost + 1 ELSE lost
        /\ UNCHANGED imageStays /\ UNCHANGED pending /\ UNCHANGED loads
    BY <1>1 DEF CreateConstantClass
  <1>4. GlobalsAccounted'
    <2>1. variable \in SUBSET Classes /\ globals \in Nat /\ lost \in Nat
      BY DEF ClassTypeOK
    <2>2. QED
      BY <1>3, <2>1, VariablesCounted DEF GlobalsAccounted
  <1>5. CASE /\ \E why \in {"freedTable", "noMemory"} :
                  (why = "freedTable" => tableMemory = "freed") /\ Crash(why)
             /\ UNCHANGED next /\ UNCHANGED table /\ UNCHANGED tableMemory
    <2>1. ClassTypeOK'
      BY <1>2, <1>3, <1>5 DEF ClassTypeOK, Faults, Crash
    <2>2. TableFits' /\ LoadFits' /\ CrashesExplained'
      BY <1>3, <1>5 DEF TableFits, LoadFits, CrashesExplained, Crash
    <2>3. QED
      BY <1>4, <2>1, <2>2
  <1>6. CASE /\ next' = next + 1
             /\ table' = Append(table, class)
             /\ tableMemory' = "allocated"
             /\ UNCHANGED library /\ UNCHANGED fault
    <2>1. ClassTypeOK'
      BY <1>2, <1>3, <1>6 DEF ClassTypeOK
    <2>2. Released' = Released \cup {class}
      <3>1. table \in Seq(Classes)
        BY DEF ClassTypeOK
      <3>2. /\ Len(table) \in Nat
            /\ DOMAIN table = 1 .. Len(table)
            /\ DOMAIN table' = 1 .. Len(table) + 1
            /\ table'[Len(table) + 1] = class
            /\ \A k \in 1 .. Len(table) : table'[k] = table[k]
        BY <1>2, <1>6, <3>1
      <3>3. QED
        BY <3>2 DEF Released
    <2>3. TableFits'
      BY <1>2, <1>3, <1>6, <2>2 DEF TableFits
    <2>4. LoadFits'
      BY <1>1, <1>2, <1>3, <1>6, ClassesAssumption DEF LoadFits
    <2>5. CrashesExplained'
      BY <1>2, <1>6 DEF CrashesExplained, LoadFits
    <2>6. QED
      BY <1>4, <2>1, <2>3, <2>4, <2>5
  <1>7. QED
    BY <1>1, <1>5, <1>6 DEF CreateConstantClass, Appended

\* The end of a load, completed or given up, preserves it.
LEMMA FinishLoadKeeps ==
  ASSUME ClassPart, FinishLoad
  PROVE  ClassPart'
  <1> USE DEF ClassPart, FinishLoad
  <1>0. /\ Len(ConstantClasses) \in Nat
        /\ variable \in SUBSET Classes /\ globals \in Nat /\ lost \in Nat
    BY ClassesAssumption DEF ClassTypeOK
  <1>1. Cardinality(variable) \in Nat
    BY <1>0, VariablesCounted
  <1>2. ClassTypeOK'
    <2>1. /\ library' \in {"unloaded", "loaded"}
          /\ tableMemory' \in {"null", "allocated", "freed"}
          /\ lost' \in Nat
      BY <1>0, <1>1 DEF ClassTypeOK
    <2>2. variable' \in SUBSET Classes /\ table' \in Seq(Classes)
      <3>1. table' = table \/ table' = <<>>
        OBVIOUS
      <3>2. table \in Seq(Classes) /\ <<>> \in Seq(Classes)
        BY DEF ClassTypeOK
      <3>3. QED
        BY <1>0, <3>1, <3>2
    <2>3. UNCHANGED imageStays /\ UNCHANGED next /\ UNCHANGED globals /\ UNCHANGED fault
          /\ UNCHANGED loads /\ pending' \in BOOLEAN
      OBVIOUS
    <2>4. QED
      BY <2>1, <2>2, <2>3 DEF ClassTypeOK
  <1>3. GlobalsAccounted'
    BY <1>0, <1>1, FS_EmptySet DEF GlobalsAccounted
  <1>4. fault = "none"
    BY DEF LoadFits
  <1>5. TableFits' /\ CrashesExplained'
    BY <1>4 DEF TableFits, Released, CrashesExplained
  <1>6. library' = "loaded" => variable = Classes
    BY <1>0, ClassesAssumption DEF LoadFits, Classes
  <1>7. LoadFits'
    BY <1>4, <1>6 DEF LoadFits
  <1>8. QED
    BY <1>2, <1>3, <1>5, <1>7

(* JNI_OnUnload releases exactly what the variables hold.                   *)
LEMMA UnloadKeeps ==
  ASSUME ClassPart, Unload
  PROVE  ClassPart'
  <1> USE DEF ClassPart, Unload
  <1>1. /\ variable \in SUBSET Classes /\ globals \in Nat /\ lost \in Nat
        /\ Cardinality(variable) \in Nat
    BY VariablesCounted DEF ClassTypeOK
  <1>2. variable \cap Released = variable
    BY DEF TableFits
  <1>3. variable' = {}
    BY <1>2
  <1>4. globals' = lost
    <2>1. Cardinality(variable \cap Released) = Cardinality(variable)
      BY <1>2
    <2>2. globals' = globals - Cardinality(variable)
      BY <2>1
    <2>3. globals = lost + Cardinality(variable)
      BY DEF GlobalsAccounted
    <2>4. QED
      BY <1>1, <2>2, <2>3
  <1>5. ClassTypeOK'
    BY <1>1, <1>3, <1>4 DEF ClassTypeOK
  <1>6. GlobalsAccounted'
    BY <1>1, <1>3, <1>4, FS_EmptySet DEF GlobalsAccounted
  <1>7. fault = "none"
    BY DEF LoadFits
  <1>8. TableFits' /\ LoadFits' /\ CrashesExplained'
    BY <1>3, <1>7 DEF TableFits, LoadFits, CrashesExplained
  <1>9. QED
    BY <1>5, <1>6, <1>8

\* Every step of JNI_OnLoad preserves it.
LEMMA ClassStepKeeps ==
  ASSUME ClassPart, ClassStep
  PROVE  ClassPart'
  <1>1. CASE ClassNotFound
    BY <1>1, FailureKeeps DEF ClassNotFound
  <1>2. CASE ReferenceRefused
    BY <1>2, FailureKeeps DEF ReferenceRefused, CanThrow, Reports
  <1>3. QED
    BY <1>1, <1>2, LoadKeeps, CreateKeeps, FinishLoadKeeps DEF ClassStep

-----------------------------------------------------------------------------
(* The streams.                                                             *)

\* The classes of the exceptions that streams throw are among those created.
LEMMA FailureClasses ==
  /\ \A code : FailureOf(code) \in Classes
  /\ \A class \in Classes : \A o : ThrownClasses(class, o) \subseteq Classes
  /\ "CLASS_CAST_EXCEPTION" \in Classes
  BY ClassesAssumption, StreamsAssumption DEF FailureOf, ThrownClasses

(* While the library is loaded a throw succeeds.                            *)
LEMMA ThrowFails ==
  ASSUME ClassPart, library = "loaded", NEW s \in Streams, NEW class \in Classes,
         Throw(s, class)
  PROVE  /\ stage' = [stage EXCEPT ![s] = "failed"]
         /\ thrown' = [thrown EXCEPT ![s] = class]
         /\ UNCHANGED library /\ UNCHANGED fault
  BY DEF ClassPart, LoadFits, Throw, CanThrow

(* What throwf() throws is one of the created classes, and its message is   *)
(* an outcome of vasprintf().                                               *)
LEMMA ThrowfFails ==
  ASSUME ClassPart, StreamPart, library = "loaded", NEW s \in Streams,
         NEW class \in Classes, Throwf(s, class), UNCHANGED platform
  PROVE  /\ stage' = [stage EXCEPT ![s] = "failed"]
         /\ \E actual \in Classes : thrown' = [thrown EXCEPT ![s] = actual]
         /\ UNCHANGED library /\ UNCHANGED fault
         /\ message' \in MessageOutcome /\ MessageSafe' /\ MessageComplete'
  <1>1. PICK needed \in MessageLengths : message' \in Vasprintf(platform, needed)
    BY DEF Throwf
  <1>2. PICK actual \in ThrownClasses(class, message') : Throw(s, actual)
    BY DEF Throwf
  <1>3. actual \in Classes
    BY <1>2, FailureClasses
  <1>4. needed \in Nat /\ platform \in {"c99", "windows"}
    BY MessagesAssumption DEF StreamPart
  <1>5. message' \in MessageOutcome /\ BufferFits(message') /\ MessageIntact(platform, message')
    BY <1>1, <1>4, VasprintfOutcomes
  <1>6. QED
    BY <1>2, <1>3, <1>5, ThrowFails DEF MessageSafe, MessageComplete

\* What every step of a stream leaves alone.
LEMMA OthersKept ==
  ASSUME ClassPart, UNCHANGED <<imageStays, next, pending, variable, table, tableMemory, globals,
                                lost, loads>>,
         UNCHANGED library, UNCHANGED fault
  PROVE  ClassPart'
  BY ClassPartKept DEF classVars

\* The allocation of the communication buffer preserves the invariant.
LEMMA CreateStreamKeeps ==
  ASSUME IInv, NEW s \in Streams, CreateStream(s)
  PROVE  IInv'
  <1>1. ClassPart /\ StreamPart
    BY Parts
  <1>2. ClassPart'
    BY <1>1, ClassPartKept DEF CreateStream
  <1>3. PICK type \in Types, l \in Levels \cup {-1} :
          typeId' = [typeId EXCEPT ![s] = type] /\ level' = [level EXCEPT ![s] = l]
    BY DEF CreateStream
  <1>4. PICK st \in {"native", "failed"} : stage' = [stage EXCEPT ![s] = st]
    BY DEF CreateStream
  <1>5. /\ stage' \in [Streams -> Stages] /\ typeId' \in [Streams -> Types]
        /\ level' \in [Streams -> Levels \cup {-1}]
    BY <1>1, <1>3, <1>4 DEF StreamPart, Stages
  <1>6. communication' \in [Streams -> {"none", "live", "freed"}]
    BY <1>1 DEF StreamPart, CreateStream
  <1>7. thrown' \in [Streams -> Classes \cup JavaThrown]
    BY <1>1 DEF StreamPart, CreateStream, JavaThrown
  <1>8. PointersValid'
    BY <1>1, <1>3, <1>4 DEF StreamPart, PointersValid, CreateStream
  <1>9. MessageSafe' /\ MessageComplete'
    BY <1>1 DEF StreamPart, MessageSafe, MessageComplete, CreateStream
  <1>10. StreamPart'
    BY <1>1, <1>5, <1>6, <1>7, <1>8, <1>9 DEF StreamPart, CreateStream
  <1>11. QED
    BY <1>2, <1>10, Parts

(* A stream that moves on, keeping its z_stream and its pointer, or failing.*)
LEMMA MoveKeeps ==
  ASSUME ClassPart', StreamPart, NEW s \in Streams, NEW st \in Stages,
         stage' = [stage EXCEPT ![s] = st],
         st \in {"construct", "open", "closed"} => stage[s] \in {"construct", "open", "closed"},
         thrown' \in [Streams -> Classes \cup JavaThrown],
         communication' \in [Streams -> {"none", "live", "freed"}],
         UNCHANGED hasUnsafe, UNCHANGED directAccess, UNCHANGED platform, UNCHANGED typeId,
         UNCHANGED level, UNCHANGED block, UNCHANGED pointer, UNCHANGED message
  PROVE  IInv'
  <1>1. stage' \in [Streams -> Stages]
    BY DEF StreamPart
  <1>2. PointersValid'
    BY DEF StreamPart, PointersValid
  <1>3. MessageSafe' /\ MessageComplete'
    BY DEF StreamPart, MessageSafe, MessageComplete
  <1>4. StreamPart'
    BY <1>1, <1>2, <1>3 DEF StreamPart
  <1>5. QED
    BY <1>4, Parts

\* The constructor of NativeZlibStream preserves the invariant.
LEMMA ConstructKeeps ==
  ASSUME IInv, library = "loaded", NEW s \in Streams, Construct(s)
  PROVE  IInv'
  <1>1. ClassPart /\ StreamPart
    BY Parts
  <1>2. CASE stage' = [stage EXCEPT ![s] = "open"] /\ UNCHANGED <<library, fault, thrown>>
    <2>1. ClassPart'
      BY <1>1, <1>2, OthersKept DEF Construct
    <2>2. thrown' \in [Streams -> Classes \cup JavaThrown]
      BY <1>1, <1>2 DEF StreamPart
    <2>3. communication' \in [Streams -> {"none", "live", "freed"}]
      BY <1>1 DEF StreamPart, Construct
    <2>4. QED
      BY <1>1, <1>2, <2>1, <2>2, <2>3, MoveKeeps DEF Construct, Stages
  <1>3. CASE Throw(s, "CLASS_CAST_EXCEPTION")
    <2>0. /\ stage' = [stage EXCEPT ![s] = "failed"]
          /\ thrown' = [thrown EXCEPT ![s] = "CLASS_CAST_EXCEPTION"]
          /\ UNCHANGED library /\ UNCHANGED fault
      BY <1>1, <1>3, ThrowFails, FailureClasses
    <2>1. ClassPart'
      BY <1>1, <2>0, OthersKept DEF Construct
    <2>2. thrown' \in [Streams -> Classes \cup JavaThrown]
      BY <1>1, <2>0, FailureClasses DEF StreamPart
    <2>3. communication' \in [Streams -> {"none", "live", "freed"}]
      BY <1>1 DEF StreamPart, Construct
    <2>4. QED
      BY <1>1, <2>0, <2>1, <2>2, <2>3, MoveKeeps DEF Construct, Stages
  <1>4. QED
    BY <1>2, <1>3 DEF Construct, NoDirectAccess

\* close() and the garbage collector preserve the invariant.
LEMMA CloseKeeps ==
  ASSUME IInv, NEW s \in Streams, Close(s) \/ Collect(s)
  PROVE  IInv'
  <1>1. ClassPart /\ StreamPart
    BY Parts
  <1>2. ClassPart'
    BY <1>1, ClassPartKept DEF Close, Collect
  <1>3. PICK st \in {"closed", "gone"} :
          /\ stage' = [stage EXCEPT ![s] = st]
          /\ st = "closed" => stage[s] = "open"
    BY DEF Close, Collect
  <1>4. communication' \in [Streams -> {"none", "live", "freed"}]
    BY <1>1 DEF StreamPart, Close, Collect
  <1>5. thrown' \in [Streams -> Classes \cup JavaThrown]
    BY <1>1 DEF StreamPart, Close, Collect
  <1>6. UNCHANGED <<hasUnsafe, directAccess, platform, typeId, level, block, pointer, message>>
    BY DEF Close, Collect
  <1>7. QED
    BY <1>1, <1>2, <1>3, <1>4, <1>5, <1>6, MoveKeeps DEF Stages

(* createStream0 returns a pointer only to a stream that zlib has           *)
(* initialised.                                                             *)
LEMMA CreateStream0Keeps ==
  ASSUME IInv, library = "loaded", NEW s \in Streams, CreateStream0(s)
  PROVE  IInv'
  <1>1. ClassPart /\ StreamPart
    BY Parts
  <1>2. PICK code \in InitCodes(typeId[s], level[s]) :
          /\ block' = [block EXCEPT ![s] = IF code = "Z_OK" THEN typeId[s] ELSE "raw"]
          /\ \/ /\ InitSucceeds(code)
                /\ stage' = [stage EXCEPT ![s] = "construct"]
                /\ pointer' = [pointer EXCEPT ![s] = "stream"]
                /\ UNCHANGED <<library, fault, thrown, message>>
             \/ /\ ~InitSucceeds(code)
                /\ pointer' = [pointer EXCEPT ![s] = "-1"]
                /\ \/ code = "Z_MEM_ERROR" /\ Throw(s, FailureOf(code)) /\ UNCHANGED message
                   \/ code # "Z_MEM_ERROR" /\ Throwf(s, FailureOf(code))
    BY DEF CreateStream0
  <1>3. UNCHANGED <<imageStays, next, pending, variable, table, tableMemory, globals, lost, loads>>
    BY DEF CreateStream0
  <1>4. UNCHANGED <<hasUnsafe, directAccess, platform, typeId, level, communication>>
    BY DEF CreateStream0
  <1>5. FailureOf(code) \in Classes
    BY FailureClasses
  <1>6. /\ UNCHANGED library /\ UNCHANGED fault
        /\ message' \in MessageOutcome /\ MessageSafe' /\ MessageComplete'
        /\ thrown' \in [Streams -> Classes \cup JavaThrown]
        /\ \/ stage' = [stage EXCEPT ![s] = "failed"]
           \/ InitSucceeds(code) /\ stage' = [stage EXCEPT ![s] = "construct"]
    <2>1. CASE UNCHANGED message
      <3>1. message' \in MessageOutcome /\ MessageSafe' /\ MessageComplete'
        BY <1>1, <1>4, <2>1 DEF StreamPart, MessageSafe, MessageComplete
      <3>2. CASE InitSucceeds(code)
        BY <1>1, <1>2, <3>1, <3>2 DEF StreamPart
      <3>3. CASE Throw(s, FailureOf(code))
        <4>1. /\ stage' = [stage EXCEPT ![s] = "failed"]
              /\ thrown' = [thrown EXCEPT ![s] = FailureOf(code)]
              /\ UNCHANGED library /\ UNCHANGED fault
          BY <1>1, <1>5, <3>3, ThrowFails
        <4>2. thrown' \in [Streams -> Classes \cup JavaThrown]
          BY <1>1, <1>5, <4>1 DEF StreamPart
        <4>3. QED
          BY <3>1, <4>1, <4>2
      <3>4. CASE Throwf(s, FailureOf(code))
        <4>1. /\ stage' = [stage EXCEPT ![s] = "failed"]
              /\ \E actual \in Classes : thrown' = [thrown EXCEPT ![s] = actual]
              /\ UNCHANGED library /\ UNCHANGED fault
          BY <1>1, <1>4, <1>5, <3>4, ThrowfFails
        <4>2. thrown' \in [Streams -> Classes \cup JavaThrown]
          BY <1>1, <4>1 DEF StreamPart
        <4>3. QED
          BY <3>1, <4>1, <4>2
      <3>5. QED
        BY <1>2, <3>2, <3>3, <3>4
    <2>2. CASE Throwf(s, FailureOf(code))
      <3>1. /\ stage' = [stage EXCEPT ![s] = "failed"]
            /\ \E actual \in Classes : thrown' = [thrown EXCEPT ![s] = actual]
            /\ UNCHANGED library /\ UNCHANGED fault
            /\ message' \in MessageOutcome /\ MessageSafe' /\ MessageComplete'
        BY <1>1, <1>4, <1>5, <2>2, ThrowfFails
      <3>2. thrown' \in [Streams -> Classes \cup JavaThrown]
        BY <1>1, <3>1 DEF StreamPart
      <3>3. QED
        BY <3>1, <3>2
    <2>3. QED
      BY <1>2, <2>1, <2>2
  <1>7. ClassPart'
    BY <1>1, <1>3, <1>6, OthersKept
  <1>8. /\ stage' \in [Streams -> Stages]
        /\ block' \in [Streams -> {"none", "raw"} \cup Types]
        /\ pointer' \in [Streams -> {"none", "stream", "-1"}]
    <2>1. stage' \in [Streams -> Stages]
      BY <1>1, <1>6 DEF StreamPart, Stages
    <2>2. typeId[s] \in Types
      BY <1>1 DEF StreamPart
    <2>3. block' \in [Streams -> {"none", "raw"} \cup Types]
      BY <1>1, <1>2, <2>2 DEF StreamPart
    <2>4. pointer' \in [Streams -> {"none", "stream", "-1"}]
      BY <1>1, <1>2 DEF StreamPart
    <2>5. QED
      BY <2>1, <2>3, <2>4
  <1>9. PointersValid'
    <2> SUFFICES ASSUME NEW u \in Streams, stage'[u] \in {"construct", "open", "closed"}
                 PROVE  pointer'[u] = "stream" /\ block'[u] = typeId'[u]
      BY DEF PointersValid
    <2>1. CASE u = s
      <3>1. InitSucceeds(code)
        BY <1>1, <1>6, <2>1 DEF StreamPart
      <3>2. QED
        BY <1>1, <1>2, <1>4, <2>1, <3>1 DEF StreamPart, InitSucceeds
    <2>2. CASE u # s
      <3>1. stage'[u] = stage[u] /\ block'[u] = block[u] /\ pointer'[u] = pointer[u]
        BY <1>1, <1>2, <1>6, <2>2 DEF StreamPart
      <3>2. QED
        BY <1>1, <1>4, <3>1 DEF StreamPart, PointersValid
    <2>3. QED
      BY <2>1, <2>2
  <1>10. StreamPart'
    BY <1>1, <1>4, <1>6, <1>8, <1>9 DEF StreamPart
  <1>11. QED
    BY <1>7, <1>10, Parts

(* A z_stream that cannot be allocated ends the model, not the invariant.   *)
LEMMA MallocFailsKeeps ==
  ASSUME IInv, library = "loaded", NEW s \in Streams, MallocFails(s)
  PROVE  IInv'
  <1>1. ClassPart /\ StreamPart
    BY Parts
  <1>2. StreamPart'
    BY <1>1, StreamPartKept DEF MallocFails
  <1>3. /\ library' = "crashed" /\ fault' = "noMemory"
        /\ UNCHANGED <<imageStays, next, pending, variable, table, tableMemory, globals, lost,
                       loads>>
    BY DEF MallocFails, Crash
  <1>4. ClassTypeOK'
    BY <1>1, <1>3 DEF ClassPart, ClassTypeOK, Faults
  <1>5. TableFits' /\ LoadFits' /\ GlobalsAccounted' /\ CrashesExplained'
    BY <1>1, <1>3 DEF ClassPart, TableFits, LoadFits, GlobalsAccounted, CrashesExplained
  <1>6. ClassPart'
    BY <1>4, <1>5 DEF ClassPart
  <1>7. QED
    BY <1>2, <1>6, Parts

-----------------------------------------------------------------------------
(* Every step preserves the invariant.                                      *)
LEMMA StepIInv ==
  ASSUME IInv, [Next]_vars
  PROVE  IInv'
  <1>0. ClassPart /\ StreamPart
    BY Parts
  <1>1. CASE ClassStep /\ UNCHANGED streamVars
    BY <1>0, <1>1, ClassStepKeeps, StreamPartKept, Parts
  <1>2. CASE UnloadLibrary
    BY <1>0, <1>2, UnloadKeeps, StreamPartKept, Parts DEF UnloadLibrary
  <1>3. ASSUME library = "loaded", NEW s \in Streams, StreamStep(s)
        PROVE  IInv'
    BY <1>3, CreateStreamKeeps, MallocFailsKeeps, CreateStream0Keeps, ConstructKeeps, CloseKeeps
       DEF StreamStep
  <1>4. CASE UNCHANGED vars
    BY <1>0, <1>4, StreamPartKept, ClassPartKept, Parts DEF vars
  <1>5. QED
    BY <1>1, <1>2, <1>3, <1>4 DEF Next, Rest

(* The class table, the streams and the messages fit together at all times. *)
THEOREM InvariantHolds == Spec => []IInv
  BY InitIInv, StepIInv, PTL DEF Spec

(* Native code that runs after the load throws no exception whose class is  *)
(* NULL.                                                                    *)
THEOREM ClassesAreLive == Spec => []ClassesLive
  <1>1. IInv => ClassesLive
    BY DEF IInv, LoadFits, ClassesLive
  <1>2. QED
    BY <1>1, InvariantHolds, PTL

(* Only loads that fail leak references.                                    *)
THEOREM GlobalsAreAccounted == Spec => []GlobalsAccounted
  <1>1. IInv => GlobalsAccounted
    BY DEF IInv
  <1>2. QED
    BY <1>1, InvariantHolds, PTL

(* Every stream points to a z_stream of its own direction.                  *)
THEOREM PointersAreValid == Spec => []PointersValid
  <1>1. IInv => PointersValid
    BY DEF IInv
  <1>2. QED
    BY <1>1, InvariantHolds, PTL

(* A NULL class is only thrown, and the freed table only used, as stated.   *)
THEOREM CrashesAreExplained == Spec => []CrashesExplained
  <1>1. IInv => CrashesExplained
    BY DEF IInv
  <1>2. QED
    BY <1>1, InvariantHolds, PTL

(* Whatever the size of the first buffer and the length of a message,       *)
(* vasprintf() stays in its block.                                          *)
THEOREM MessagesAreSafe == Spec => []MessageSafe
  <1>1. IInv => MessageSafe
    BY DEF IInv
  <1>2. QED
    BY <1>1, InvariantHolds, PTL

(* Where the C99 branch is compiled, it loses no character of a message that *)
(* is shorter than the first buffer.                                        *)
THEOREM MessagesAreComplete == Spec => []MessageComplete
  <1>1. IInv => MessageComplete
    BY DEF IInv
  <1>2. QED
    BY <1>1, InvariantHolds, PTL

=============================================================================
