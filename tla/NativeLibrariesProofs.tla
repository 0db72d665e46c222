----------------------- MODULE NativeLibrariesProofs ------------------------
(***************************************************************************)
(* Proofs about NativeLibraries, for any threads, objects, names and        *)
(* dependencies and any number of calls.                                    *)
(***************************************************************************)
EXTENDS NativeLibraries, TLAPS

(* The frame of a call that has returned is a frame.                        *)
LEMMA NewFrameType ==
  ASSUME NEW result \in Results
  PROVE  NewFrame(result) \in Frame
  BY DEF NewFrame, Frame

(* A new object has the fields of a library.                                *)
LEMMA NewLibraryType ==
  ASSUME NEW name \in Names, NEW dependencies \in SUBSET Names
  PROVE  NewLibrary(name, dependencies) \in Library
  BY DEF NewLibrary, Library

(* The invariant holds when nothing has been created.                       *)
LEMMA InitIInv == Init => IInv
  <1> SUFFICES ASSUME Init
               PROVE  IInv
    OBVIOUS
  <1> USE DEF Init
  <1>1. (CHOOSE n \in Names : TRUE) \in Names
    BY NamesAssumption
  <1>2. TypeOK
    <2>1. NewFrame("none") \in Frame
      BY NewFrameType DEF Results
    <2>2. library \in [Objects -> Library]
      BY <1>1, NewLibraryType
    <2>3. QED
      BY <2>1, <2>2, NamesAssumption DEF TypeOK, Places
  <1>3. HeldIsRegistered /\ LoadsGuarded
    BY DEF HeldIsRegistered, LoadsGuarded, InLoad
  <1>4. LoadsCounted /\ LoadedMeansLinked
    BY DEF LoadsCounted, LoadedMeansLinked, NewLibrary
  <1>5. QED
    BY <1>2, <1>3, <1>4 DEF IInv

(* A call that returns, outside the end of load(), and changes neither the   *)
(* registry nor a library preserves the invariant, if what its thread holds *)
(* afterwards is registered.                                                *)
LEMMA ReturnHeldIInv ==
  ASSUME IInv, NEW t \in Threads, NEW result \in Results, NEW o \in Objects,
         pc[t] # "mark", registry[library[o].name] = o,
         Hold(t, o), Return(t, result),
         calls' \in 0 .. MaxCalls, UNCHANGED registry, UNCHANGED library, UNCHANGED linked
  PROVE  IInv'
  <1>0. TypeOK /\ HeldIsRegistered /\ LoadsGuarded /\ LoadsCounted /\ LoadedMeansLinked
    BY DEF IInv
  <1> USE <1>0 DEF TypeOK
  <1>1. PICK f \in Frame : f = NewFrame(result)
    BY NewFrameType
  <1>2. f.this = NoObject
    BY <1>1 DEF NewFrame
  <1>3. /\ pc' = [pc EXCEPT ![t] = "idle"] /\ frame' = [frame EXCEPT ![t] = f]
        /\ held' = [held EXCEPT ![t] = @ \cup {o}]
    BY <1>1 DEF Return, Goto, Hold
  <1>4. TypeOK'
    BY <1>3 DEF Places
  <1>5. HeldIsRegistered'
    BY <1>2, <1>3, IdentityAssumption DEF HeldIsRegistered, Registered
  <1>6. LoadsGuarded'
    BY <1>3 DEF LoadsGuarded, InLoad
  <1>7. LoadsCounted' /\ LoadedMeansLinked'
    BY <1>3 DEF LoadsCounted, LoadedMeansLinked
  <1>8. QED
    BY <1>4, <1>5, <1>6, <1>7 DEF IInv

(* So does one that returns with nothing new.                               *)
LEMMA ReturnIInv ==
  ASSUME IInv, NEW t \in Threads, NEW result \in Results,
         pc[t] # "mark", Return(t, result), calls' \in 0 .. MaxCalls,
         UNCHANGED registry, UNCHANGED library, UNCHANGED linked, UNCHANGED held
  PROVE  IInv'
  <1>0. TypeOK /\ HeldIsRegistered /\ LoadsGuarded /\ LoadsCounted /\ LoadedMeansLinked
    BY DEF IInv
  <1> USE <1>0 DEF TypeOK
  <1>1. PICK f \in Frame : f = NewFrame(result)
    BY NewFrameType
  <1>2. f.this = NoObject
    BY <1>1 DEF NewFrame
  <1>3. pc' = [pc EXCEPT ![t] = "idle"] /\ frame' = [frame EXCEPT ![t] = f]
    BY <1>1 DEF Return, Goto
  <1>4. TypeOK'
    BY <1>3 DEF Places
  <1>5. HeldIsRegistered'
    BY <1>2, <1>3, IdentityAssumption DEF HeldIsRegistered, Registered
  <1>6. LoadsGuarded'
    BY <1>3 DEF LoadsGuarded, InLoad
  <1>7. LoadsCounted' /\ LoadedMeansLinked'
    BY <1>3 DEF LoadsCounted, LoadedMeansLinked
  <1>8. QED
    BY <1>4, <1>5, <1>6, <1>7 DEF IInv

(* createLibrary() up to putIfAbsent() preserves the invariant: the object  *)
(* it makes is known to nobody.                                             *)
LEMMA CreateLibraryIInv ==
  ASSUME IInv, NEW t \in Threads, CreateLibrary(t)
  PROVE  IInv'
  <1>0. TypeOK /\ HeldIsRegistered /\ LoadsGuarded /\ LoadsCounted /\ LoadedMeansLinked
    BY DEF IInv
  <1> USE <1>0 DEF TypeOK
  <1>1. /\ UNCHANGED <<registry, linked, held>>
        /\ pc[t] = "idle" /\ calls' \in 0 .. MaxCalls
    BY NamesAssumption DEF CreateLibrary, NewCall
  <1>2. CASE Return(t, "IllegalArgument") /\ UNCHANGED library
    <2>1. "IllegalArgument" \in Results
      BY DEF Results
    <2>2. QED
      BY <1>1, <1>2, <2>1, ReturnIInv
  <1>3. ASSUME NEW name \in Names, NEW dependencies \in SUBSET Names, NEW o \in Objects,
               ~Reachable(o), ~Registered(o),
               library' = [library EXCEPT ![o] = NewLibrary(name, dependencies)],
               frame' = [frame EXCEPT ![t] = [NewFrame("none") EXCEPT !.this = o]],
               Goto(t, "put")
        PROVE  IInv'
    <2>1. PICK new \in Library : new = NewLibrary(name, dependencies)
      BY NewLibraryType
    <2>2. new.loads = 0 /\ new.loaded = FALSE
      BY <2>1 DEF NewLibrary
    <2> DEFINE f == [NewFrame("none") EXCEPT !.this = o]
    <2>3. f \in Frame /\ f.this = o
      BY DEF NewFrame, Frame, Results
    <2> HIDE DEF f
    <2>4. /\ library' = [library EXCEPT ![o] = new]
          /\ frame' = [frame EXCEPT ![t] = f]
          /\ pc' = [pc EXCEPT ![t] = "put"]
      BY <1>3, <2>1 DEF Goto, f
    <2>5. /\ \A u \in Threads : o \notin held[u] /\ frame[u].this # o
          /\ \A n \in Names : registry[n] # o
      BY <1>3 DEF Reachable, Registered
    <2>6. TypeOK'
      BY <1>1, <2>3, <2>4 DEF Places
    <2>7. HeldIsRegistered'
      BY <1>1, <2>2, <2>3, <2>4, <2>5, IdentityAssumption DEF HeldIsRegistered, Registered
    <2>8. LoadsGuarded'
      BY <1>1, <2>2, <2>3, <2>4, <2>5 DEF LoadsGuarded, InLoad
    <2>9. LoadsCounted' /\ LoadedMeansLinked'
      BY <1>1, <2>2, <2>3, <2>4, <2>5 DEF LoadsCounted, LoadedMeansLinked
    <2>10. QED
      BY <2>6, <2>7, <2>8, <2>9 DEF IInv
  <1>4. QED
    BY <1>2, <1>3, NamesAssumption DEF CreateLibrary

(* putIfAbsent() preserves the invariant.                                   *)
LEMMA PutIfAbsentIInv ==
  ASSUME IInv, NEW t \in Threads, PutIfAbsent(t)
  PROVE  IInv'
  <1>0. TypeOK /\ HeldIsRegistered /\ LoadsGuarded /\ LoadsCounted /\ LoadedMeansLinked
    BY DEF IInv
  <1> USE <1>0 DEF TypeOK
  <1>1. PICK new \in Objects : new = frame[t].this
    BY DEF PutIfAbsent, HeldIsRegistered
  <1>2. PICK name \in Names : name = library[new].name
    BY DEF Library
  <1>3. pc[t] = "put" /\ UNCHANGED <<library, linked, calls>>
    BY DEF PutIfAbsent
  <1>4. "library" \in Results /\ "IllegalState" \in Results
    BY DEF Results
  <1>5. CASE /\ registry[name] = NoObject
             /\ registry' = [registry EXCEPT ![name] = new]
             /\ Hold(t, new)
             /\ Return(t, "library")
    <2>1. PICK f \in Frame : f = NewFrame("library")
      BY <1>4, NewFrameType
    <2>2. f.this = NoObject
      BY <2>1 DEF NewFrame
    <2>3. /\ pc' = [pc EXCEPT ![t] = "idle"] /\ frame' = [frame EXCEPT ![t] = f]
          /\ held' = [held EXCEPT ![t] = @ \cup {new}]
      BY <1>5, <2>1 DEF Return, Goto, Hold
    <2>4. TypeOK'
      BY <1>3, <1>5, <2>3 DEF Places
    <2>5. HeldIsRegistered'
      BY <1>1, <1>2, <1>3, <1>5, <2>2, <2>3, IdentityAssumption
      DEF HeldIsRegistered, Registered
    <2>6. LoadsGuarded'
      BY <1>3, <2>3 DEF LoadsGuarded, InLoad
    <2>7. LoadsCounted' /\ LoadedMeansLinked'
      BY <1>3, <2>3 DEF LoadsCounted, LoadedMeansLinked
    <2>8. QED
      BY <2>4, <2>5, <2>6, <2>7 DEF IInv
  <1>6. CASE /\ registry[name] # NoObject /\ Hold(t, registry[name])
             /\ Return(t, "library") /\ UNCHANGED registry
    <2>1. PICK old \in Objects : old = registry[name]
      BY <1>6
    <2>2. registry[library[old].name] = old
      BY <1>6, <2>1 DEF HeldIsRegistered
    <2>3. QED
      BY <1>3, <1>4, <1>6, <2>1, <2>2, ReturnHeldIInv
  <1>7. CASE Return(t, "IllegalState") /\ UNCHANGED <<registry, held>>
    BY <1>3, <1>4, <1>7, ReturnIInv
  <1>8. QED
    BY <1>1, <1>2, <1>5, <1>6, <1>7 DEF PutIfAbsent, OldLibrary

(* getLibrary() and getInstance() preserve the invariant.                   *)
LEMMA LookupIInv ==
  ASSUME IInv, NEW t \in Threads, GetLibrary(t) \/ GetInstance(t)
  PROVE  IInv'
  <1>0. TypeOK /\ HeldIsRegistered /\ LoadsGuarded /\ LoadsCounted /\ LoadedMeansLinked
    BY DEF IInv
  <1> USE <1>0 DEF TypeOK
  <1>1. /\ pc[t] = "idle" /\ calls' \in 0 .. MaxCalls
        /\ UNCHANGED <<registry, library, linked>>
    BY NamesAssumption DEF GetLibrary, GetInstance, NewCall
  <1>2. CASE GetLibrary(t)
    <2>1. "library" \in Results /\ "absent" \in Results
      BY DEF Results
    <2>2. PICK name \in Names :
            \/ registry[name] # NoObject /\ Hold(t, registry[name]) /\ Return(t, "library")
            \/ Return(t, "absent") /\ UNCHANGED held
      BY <1>2 DEF GetLibrary
    <2>3. CASE registry[name] # NoObject /\ Hold(t, registry[name]) /\ Return(t, "library")
      <3>1. PICK o \in Objects : o = registry[name]
        BY <2>3
      <3>2. registry[library[o].name] = o
        BY <2>3, <3>1 DEF HeldIsRegistered
      <3>3. QED
        BY <1>1, <2>1, <2>3, <3>1, <3>2, ReturnHeldIInv
    <2>4. CASE Return(t, "absent") /\ UNCHANGED held
      BY <1>1, <2>1, <2>4, ReturnIInv
    <2>5. QED
      BY <2>2, <2>3, <2>4
  <1>3. CASE GetInstance(t)
    <2>1. PICK result \in {"native", "jdk"} : Return(t, result)
      BY <1>3 DEF GetInstance
    <2>2. UNCHANGED held /\ result \in Results
      BY <1>3 DEF GetInstance, Results
    <2>3. QED
      BY <1>1, <2>1, <2>2, ReturnIInv
  <1>4. QED
    BY <1>2, <1>3

(* load() up to its lock preserves the invariant.                           *)
LEMMA CallLoadIInv ==
  ASSUME IInv, NEW t \in Threads, CallLoad(t)
  PROVE  IInv'
  <1>0. TypeOK /\ HeldIsRegistered /\ LoadsGuarded /\ LoadsCounted /\ LoadedMeansLinked
    BY DEF IInv
  <1> USE <1>0 DEF TypeOK
  <1>1. PICK o \in held[t] : frame' = [frame EXCEPT ![t] = [NewFrame("none") EXCEPT !.this = o]]
    BY DEF CallLoad
  <1> DEFINE f == [NewFrame("none") EXCEPT !.this = o]
  <1>2. f \in Frame /\ f.this = o
    BY DEF NewFrame, Frame, Results
  <1>3. frame' = [frame EXCEPT ![t] = f]
    BY <1>1
  <1> HIDE DEF f
  <1>4. /\ pc[t] = "idle" /\ pc' = [pc EXCEPT ![t] = "blocked"] /\ calls' \in 0 .. MaxCalls
        /\ UNCHANGED <<registry, library, linked, held>>
    BY NamesAssumption DEF CallLoad, NewCall, Goto
  <1>5. TypeOK'
    BY <1>2, <1>3, <1>4 DEF Places
  <1>6. HeldIsRegistered'
    <2>1. \E n \in Names : registry[n] = o
      BY <1>1 DEF HeldIsRegistered, Library
    <2>2. \A u \in Threads : pc[u] = "put" => frame[u].this # o
      BY <2>1 DEF HeldIsRegistered, Registered
    <2>3. QED
      BY <1>2, <1>3, <1>4, <2>2 DEF HeldIsRegistered, Registered
  <1>7. LoadsGuarded'
    BY <1>2, <1>3, <1>4 DEF LoadsGuarded, InLoad
  <1>8. LoadsCounted' /\ LoadedMeansLinked'
    BY <1>3, <1>4 DEF LoadsCounted, LoadedMeansLinked
  <1>9. QED
    BY <1>5, <1>6, <1>7, <1>8 DEF IInv

(* The beginning of load() under its lock preserves the invariant.          *)
LEMMA EnterLoadIInv ==
  ASSUME IInv, NEW t \in Threads, EnterLoad(t)
  PROVE  IInv'
  <1>0. TypeOK /\ HeldIsRegistered /\ LoadsGuarded /\ LoadsCounted /\ LoadedMeansLinked
    BY DEF IInv
  <1> USE <1>0 DEF TypeOK
  <1>1. PICK o \in Objects : o = frame[t].this /\ o \in held[t]
    BY DEF EnterLoad, LoadsGuarded
  <1>2. pc[t] = "blocked" /\ UNCHANGED <<registry, linked, held, calls>>
    BY DEF EnterLoad
  <1>3. CASE /\ Return(t, "IllegalArgument") \/ Return(t, "IllegalState")
             /\ UNCHANGED library
    <2>1. "IllegalArgument" \in Results /\ "IllegalState" \in Results
      BY DEF Results
    <2>2. QED
      BY <1>2, <1>3, <2>1, ReturnIInv
  <1>4. CASE /\ ~library[o].loaded /\ Available(o)
             /\ library' = [library EXCEPT ![o].lock = t]
             /\ Goto(t, "loading")
             /\ frame' = [frame EXCEPT ![t].left = library[o].dependencies]
    <2>1. \A u \in Threads : InLoad(u) => frame[u].this # o
      BY <1>4, IdentityAssumption DEF Available, LoadsGuarded
    <2>2. /\ library[o].dependencies \in SUBSET Names
          /\ pc' = [pc EXCEPT ![t] = "loading"]
      BY <1>4 DEF Library, Goto
    <2>3. TypeOK'
      <3>1. library' \in [Objects -> Library]
        <4>1. PICK l \in Library : l = [library[o] EXCEPT !.lock = t]
          BY <1>1, ZenonT(60) DEF Library
        <4>2. library' = [library EXCEPT ![o] = l]
          BY <1>4, <4>1
        <4>3. QED
          BY <1>1, <4>2
      <3>2. frame' \in [Threads -> Frame]
        BY <1>4, <2>2 DEF Frame
      <3>3. QED
        BY <1>2, <2>2, <3>1, <3>2 DEF Places
    <2>4. /\ \A u \in Threads : frame'[u].this = frame[u].this
          /\ \A p \in Objects : /\ library'[p].name = library[p].name
                                /\ library'[p].dependencies = library[p].dependencies
                                /\ library'[p].loaded = library[p].loaded
                                /\ library'[p].loads = library[p].loads
      BY <1>4 DEF Frame, Library
    <2>5. HeldIsRegistered'
      BY <1>2, <2>2, <2>4 DEF HeldIsRegistered, Registered
    <2>6. LoadsGuarded'
      BY <1>1, <1>2, <1>4, <2>1, <2>2, <2>4 DEF LoadsGuarded, InLoad, Frame, Library
    <2>7. LoadsCounted'
      <3>1. \A u \in Threads : pc'[u] = "mark" <=> pc[u] = "mark"
        BY <1>2, <2>2
      <3>2. \A p \in Objects : \A u \in Threads :
              (pc'[u] = "mark" /\ frame'[u].this = p) <=> (pc[u] = "mark" /\ frame[u].this = p)
        BY <2>4, <3>1
      <3>3. QED
        BY <2>4, <3>2 DEF LoadsCounted
    <2>8. LoadedMeansLinked'
      BY <1>2, <2>4 DEF LoadedMeansLinked
    <2>9. QED
      BY <2>3, <2>5, <2>6, <2>7, <2>8 DEF IInv
  <1>5. QED
    BY <1>1, <1>3, <1>4 DEF EnterLoad

(* An error in load(), which leaves the lock, preserves the invariant.       *)
LEMMA FailLoadIInv ==
  ASSUME IInv, NEW t \in Threads, FailLoad(t)
  PROVE  IInv'
  <1>0. TypeOK /\ HeldIsRegistered /\ LoadsGuarded /\ LoadsCounted /\ LoadedMeansLinked
    BY DEF IInv
  <1> USE <1>0 DEF TypeOK
  <1>1. PICK o \in Objects : o = frame[t].this /\ o \in held[t] /\ library[o].lock = t
                             /\ ~library[o].loaded
    BY DEF FailLoad, LoadsGuarded, InLoad
  <1>2. \A u \in Threads \ {t} : InLoad(u) => frame[u].this # o
    BY <1>1 DEF LoadsGuarded
  <1>3. PICK f \in Frame : f = NewFrame("UnsatisfiedLink")
    BY NewFrameType DEF Results
  <1>4. f.this = NoObject
    BY <1>3 DEF NewFrame
  <1>5. /\ pc[t] = "loading" /\ UNCHANGED <<registry, linked, held, calls>>
        /\ pc' = [pc EXCEPT ![t] = "idle"] /\ frame' = [frame EXCEPT ![t] = f]
        /\ library' = [library EXCEPT ![o].lock = NoThread]
    BY <1>1, <1>3 DEF FailLoad, Return, Goto
  <1>6. library' \in [Objects -> Library]
    BY <1>5 DEF Library
  <1>7. TypeOK'
    BY <1>5, <1>6 DEF Places
  <1>8. \A p \in Objects : /\ library'[p].name = library[p].name
                           /\ library'[p].dependencies = library[p].dependencies
                           /\ library'[p].loaded = library[p].loaded
                           /\ library'[p].loads = library[p].loads
                           /\ p # o => library'[p] = library[p]
    BY <1>5 DEF Library
  <1>9. HeldIsRegistered'
    BY <1>4, <1>5, <1>8, IdentityAssumption DEF HeldIsRegistered, Registered
  <1>10. LoadsGuarded'
    BY <1>2, <1>5, <1>8 DEF LoadsGuarded, InLoad
  <1>11. LoadsCounted' /\ LoadedMeansLinked'
    BY <1>5, <1>8 DEF LoadsCounted, LoadedMeansLinked
  <1>12. QED
    BY <1>7, <1>9, <1>10, <1>11 DEF IInv

(* Loading one dependency preserves the invariant: it is linked when it is  *)
(* no longer left.                                                          *)
LEMMA LoadDependencyIInv ==
  ASSUME IInv, NEW t \in Threads, LoadDependency(t)
  PROVE  IInv'
  <1>0. TypeOK /\ HeldIsRegistered /\ LoadsGuarded /\ LoadsCounted /\ LoadedMeansLinked
    BY DEF IInv
  <1> USE <1>0 DEF TypeOK
  <1>1. PICK dependency \in frame[t].left :
          /\ linked' = linked \cup {dependency}
          /\ frame' = [frame EXCEPT ![t].left = @ \ {dependency}]
    BY DEF LoadDependency
  <1>2. pc[t] = "loading" /\ UNCHANGED <<registry, library, held, pc, calls>>
    BY DEF LoadDependency
  <1>3. frame[t] \in Frame /\ frame[t].left \in SUBSET Names /\ dependency \in Names
    BY <1>1 DEF Frame
  <1>4. frame' \in [Threads -> Frame]
    BY <1>1, <1>3 DEF Frame
  <1>5. /\ \A u \in Threads : frame'[u].this = frame[u].this
        /\ \A u \in Threads \ {t} : frame'[u] = frame[u]
        /\ frame'[t].left = frame[t].left \ {dependency}
    BY <1>1 DEF Frame
  <1>6. TypeOK'
    BY <1>1, <1>2, <1>3, <1>4
  <1>7. HeldIsRegistered'
    BY <1>2, <1>5 DEF HeldIsRegistered, Registered
  <1>8. LoadsGuarded'
    BY <1>1, <1>2, <1>5 DEF LoadsGuarded, InLoad
  <1>9. LoadsCounted' /\ LoadedMeansLinked'
    BY <1>1, <1>2, <1>5 DEF LoadsCounted, LoadedMeansLinked
  <1>10. QED
    BY <1>6, <1>7, <1>8, <1>9 DEF IInv

(* Loading the file of the library preserves the invariant: the library is  *)
(* not loaded and no other thread is about to mark it so, so it is the      *)
(* first time.                                                              *)
LEMMA LoadFileIInv ==
  ASSUME IInv, NEW t \in Threads, LoadFile(t)
  PROVE  IInv'
  <1>0. TypeOK /\ HeldIsRegistered /\ LoadsGuarded /\ LoadsCounted /\ LoadedMeansLinked
    BY DEF IInv
  <1> USE <1>0 DEF TypeOK
  <1>1. PICK o \in Objects : o = frame[t].this /\ o \in held[t] /\ library[o].lock = t
                             /\ ~library[o].loaded
    BY DEF LoadFile, LoadsGuarded, InLoad
  <1>2. \A u \in Threads \ {t} : InLoad(u) => frame[u].this # o
    BY <1>1 DEF LoadsGuarded
  <1>3. /\ pc[t] = "loading" /\ frame[t].left = {}
        /\ UNCHANGED <<registry, held, frame, calls>>
        /\ linked' = linked \cup {library[o].name}
        /\ library' = [library EXCEPT ![o].loads = @ + 1]
        /\ pc' = [pc EXCEPT ![t] = "mark"]
    BY <1>1 DEF LoadFile, Goto, DependenciesLoaded
  <1>4. library[o] \in Library /\ library[o].loads = 0
    BY <1>1, <1>2, <1>3 DEF LoadsCounted, InLoad
  <1>5. library' \in [Objects -> Library]
    <2>1. [library[o] EXCEPT !.loads = @ + 1] \in Library
      BY <1>4 DEF Library
    <2>2. QED
      BY <1>3, <2>1
  <1>6. TypeOK'
    BY <1>3, <1>4, <1>5 DEF Places, Library
  <1>7. /\ \A p \in Objects : /\ library'[p].name = library[p].name
                              /\ library'[p].dependencies = library[p].dependencies
                              /\ library'[p].loaded = library[p].loaded
                              /\ library'[p].lock = library[p].lock
                              /\ p # o => library'[p] = library[p]
        /\ library'[o].loads = 1
    BY <1>3, <1>4 DEF Library
  <1>8. HeldIsRegistered'
    BY <1>3, <1>7 DEF HeldIsRegistered, Registered
  <1>9. LoadsGuarded'
    BY <1>1, <1>3, <1>7 DEF LoadsGuarded, InLoad
  <1>10. LoadsCounted'
    BY <1>1, <1>3, <1>7 DEF LoadsCounted
  <1>11. LoadedMeansLinked'
    BY <1>3, <1>7 DEF LoadedMeansLinked
  <1>12. QED
    BY <1>6, <1>8, <1>9, <1>10, <1>11 DEF IInv

(* The end of load() preserves the invariant: the library and what it needs *)
(* are linked when it says so.                                              *)
LEMMA MarkLoadedIInv ==
  ASSUME IInv, NEW t \in Threads, MarkLoaded(t)
  PROVE  IInv'
  <1>0. TypeOK /\ HeldIsRegistered /\ LoadsGuarded /\ LoadsCounted /\ LoadedMeansLinked
    BY DEF IInv
  <1> USE <1>0 DEF TypeOK
  <1>1. PICK o \in Objects : o = frame[t].this /\ o \in held[t] /\ library[o].lock = t
                             /\ ~library[o].loaded
    BY DEF MarkLoaded, LoadsGuarded, InLoad
  <1>2. \A u \in Threads \ {t} : InLoad(u) => frame[u].this # o
    BY <1>1 DEF LoadsGuarded
  <1>3. PICK f \in Frame : f = NewFrame("loaded")
    BY NewFrameType DEF Results
  <1>4. f.this = NoObject
    BY <1>3 DEF NewFrame
  <1>5. /\ pc[t] = "mark" /\ UNCHANGED <<registry, linked, held, calls>>
        /\ pc' = [pc EXCEPT ![t] = "idle"] /\ frame' = [frame EXCEPT ![t] = f]
        /\ library' = [library EXCEPT ![o].loaded = TRUE, ![o].lock = NoThread]
    BY <1>1, <1>3 DEF MarkLoaded, Return, Goto
  <1>6. library' \in [Objects -> Library]
    <2>1. PICK l \in Library : l = [library[o] EXCEPT !.loaded = TRUE, !.lock = NoThread]
      BY <1>1, ZenonT(60) DEF Library
    <2>2. library' = [library EXCEPT ![o] = l]
      BY <1>1, <1>5, <2>1
    <2>3. QED
      BY <1>1, <2>2
  <1>7. TypeOK'
    BY <1>5, <1>6 DEF Places
  <1>8. /\ \A p \in Objects : /\ library'[p].name = library[p].name
                              /\ library'[p].dependencies = library[p].dependencies
                              /\ library'[p].loads = library[p].loads
                              /\ p # o => library'[p] = library[p]
        /\ library'[o].loaded
    BY <1>5 DEF Library
  <1>9. HeldIsRegistered'
    BY <1>4, <1>5, <1>8, IdentityAssumption DEF HeldIsRegistered, Registered
  <1>10. LoadsGuarded'
    BY <1>2, <1>5, <1>8 DEF LoadsGuarded, InLoad
  <1>11. LoadsCounted'
    <2>1. library[o].loads = 1
      BY <1>1, <1>5 DEF LoadsCounted
    <2>2. QED
      BY <1>1, <1>4, <1>5, <1>8, <2>1, IdentityAssumption DEF LoadsCounted
  <1>12. LoadedMeansLinked'
    <2>1. {library[o].name} \cup library[o].dependencies \subseteq linked
      BY <1>1, <1>5 DEF LoadsGuarded, InLoad
    <2>2. QED
      BY <1>5, <1>8, <2>1 DEF LoadedMeansLinked
  <1>13. QED
    BY <1>7, <1>9, <1>10, <1>11, <1>12 DEF IInv

(* A thread that forgets a library outside a call preserves the invariant.  *)
LEMMA ForgetIInv ==
  ASSUME IInv, NEW t \in Threads, Forget(t)
  PROVE  IInv'
  <1>0. TypeOK /\ HeldIsRegistered /\ LoadsGuarded /\ LoadsCounted /\ LoadedMeansLinked
    BY DEF IInv
  <1> USE <1>0 DEF TypeOK
  <1>1. PICK o \in held[t] : held' = [held EXCEPT ![t] = @ \ {o}]
    BY DEF Forget
  <1>2. pc[t] = "idle" /\ UNCHANGED <<registry, library, linked, pc, frame, calls>>
    BY DEF Forget
  <1>3. TypeOK'
    BY <1>1, <1>2
  <1>4. HeldIsRegistered' /\ LoadsGuarded'
    BY <1>1, <1>2 DEF HeldIsRegistered, Registered, LoadsGuarded, InLoad
  <1>5. LoadsCounted' /\ LoadedMeansLinked'
    BY <1>2 DEF LoadsCounted, LoadedMeansLinked
  <1>6. QED
    BY <1>3, <1>4, <1>5 DEF IInv

(* A collection preserves the invariant: no thread refers to its library.   *)
LEMMA CollectIInv ==
  ASSUME IInv, Collect
  PROVE  IInv'
  <1>0. TypeOK /\ HeldIsRegistered /\ LoadsGuarded /\ LoadsCounted /\ LoadedMeansLinked
    BY DEF IInv
  <1> USE <1>0 DEF TypeOK
  <1>1. PICK n \in Names :
          /\ registry[n] # NoObject /\ Collectable(registry[n])
          /\ registry' = [registry EXCEPT ![n] = NoObject]
    BY DEF Collect
  <1>2. UNCHANGED <<library, linked, held, pc, frame, calls>>
    BY DEF Collect
  <1>3. \A t \in Threads : registry[n] \notin held[t]
    BY <1>1 DEF Collectable, Reachable
  <1>4. TypeOK'
    BY <1>1, <1>2
  <1>5. HeldIsRegistered'
    BY <1>1, <1>2, <1>3, IdentityAssumption DEF HeldIsRegistered, Registered
  <1>6. LoadsGuarded' /\ LoadsCounted' /\ LoadedMeansLinked'
    BY <1>2 DEF LoadsGuarded, InLoad, LoadsCounted, LoadedMeansLinked
  <1>7. QED
    BY <1>4, <1>5, <1>6 DEF IInv

-----------------------------------------------------------------------------
(* The registry, its libraries and the calls in progress agree in every     *)
(* reachable state (the inductive invariant).                               *)
THEOREM LibrariesInvariance == Spec => []IInv
  <1>1. Init => IInv
    BY InitIInv
  <1>2. IInv /\ [Next]_vars => IInv'
    <2> SUFFICES ASSUME IInv, [Next]_vars
                 PROVE  IInv'
      OBVIOUS
    <2>1. ASSUME NEW t \in Threads, Call(t)
          PROVE  IInv'
      BY <2>1, CreateLibraryIInv, LookupIInv, CallLoadIInv DEF Call
    <2>2. ASSUME NEW t \in Threads, Work(t)
          PROVE  IInv'
      BY <2>2, PutIfAbsentIInv, EnterLoadIInv, FailLoadIInv, LoadDependencyIInv,
         LoadFileIInv, MarkLoadedIInv DEF Work
    <2>3. ASSUME NEW t \in Threads, Forget(t)
          PROVE  IInv'
      BY <2>3, ForgetIInv
    <2>4. CASE Collect
      BY <2>4, CollectIInv
    <2>5. CASE UNCHANGED vars
      BY <2>5 DEF vars, IInv, TypeOK, HeldIsRegistered, Registered, LoadsGuarded, InLoad,
                  LoadsCounted, LoadedMeansLinked
    <2>6. QED
      BY <2>1, <2>2, <2>3, <2>4, <2>5 DEF Next, Rest
  <1>3. QED
    BY <1>1, <1>2, PTL DEF Spec

(* Two threads that refer to a library of one name refer to one object, for *)
(* any interleaving of createLibrary(), getLibrary() and the collector.     *)
THEOREM OneObject == Spec => []OneObjectPerName
  <1>1. IInv => OneObjectPerName
    BY DEF IInv, HeldIsRegistered, OneObjectPerName
  <1>2. QED
    BY <1>1, LibrariesInvariance, PTL

(* load() links the file of a library at most once, however many threads    *)
(* call it.                                                                 *)
THEOREM OneLoad == Spec => []LoadedOnce
  <1>1. IInv => LoadedOnce
    <2> SUFFICES ASSUME IInv, NEW o \in Objects
                 PROVE  library[o].loads <= 1
      BY DEF LoadedOnce
    <2>1. library[o].loads = 0 \/ library[o].loads = 1
      BY DEF IInv, LoadsCounted
    <2>2. QED
      BY <2>1
  <1>2. QED
    BY <1>1, LibrariesInvariance, PTL

(* A library that says it is loaded is linked, and so is all it depends on: *)
(* getInstance() answers the native factory only then.                      *)
THEOREM LinkedWhenLoaded == Spec => []LoadedMeansLinked
  <1>1. IInv => LoadedMeansLinked
    BY DEF IInv
  <1>2. QED
    BY <1>1, LibrariesInvariance, PTL

=============================================================================
