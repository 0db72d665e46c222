-------------------------- MODULE NativeLibraries --------------------------
(***************************************************************************)
(* The registry of native libraries (utils/NativeLibrary.java), the loading *)
(* of a library, and the choice of a compressor factory that depends on it. *)
(*                                                                          *)
(* The registry is a concurrent map that holds its values weakly: a library *)
(* that nobody else refers to may disappear from it at any time.  load()    *)
(* runs under the lock of its library; isLoaded() reads a volatile field    *)
(* without it.                                                              *)
(***************************************************************************)
EXTENDS Integers, FiniteSets

CONSTANTS
  Threads, NoThread,   \* the threads, and the owner of a lock nobody holds
  Objects, NoObject,   \* the identities of the NativeLibrary objects
  Names,               \* what callers pass as the name of a library
  ValidNames,          \* the names that isValidLibraryName() accepts
  DependencySets,      \* what callers pass as its dependencies
  MaxCalls             \* bound on the calls made altogether

ASSUME IdentityAssumption == NoThread \notin Threads /\ NoObject \notin Objects

ASSUME NamesAssumption ==
  /\ Names # {}
  /\ ValidNames \subseteq Names
  /\ DependencySets \subseteq SUBSET Names
  /\ MaxCalls \in Nat

VARIABLES
  registry,   \* NativeLibrary.libraries
  library,    \* the fields of each NativeLibrary, its lock, and the number of
              \* times its file has been loaded for it
  linked,     \* the names of what the JVM has linked
  held,       \* the libraries that each thread refers to
  pc,         \* where each thread is
  frame,      \* the local variables of each thread's call
  calls       \* how many calls have been started

vars == <<registry, library, linked, held, pc, frame, calls>>

-----------------------------------------------------------------------------
Library == [name: Names, dependencies: SUBSET Names, loaded: BOOLEAN,
            lock: Threads \cup {NoThread}, loads: Nat]

Results == {"none", "library", "absent", "loaded", "native", "jdk", "IllegalArgument",
            "IllegalState", "UnsatisfiedLink"}

\* this: the library of the call; left: the dependencies still to be loaded.
Frame == [this: Objects \cup {NoObject}, left: SUBSET Names, result: Results]

Places == {"idle", "put", "blocked", "loading", "mark"}

TypeOK ==
  /\ registry \in [Names -> Objects \cup {NoObject}]
  /\ library \in [Objects -> Library]
  /\ linked \in SUBSET Names
  /\ held \in [Threads -> SUBSET Objects]
  /\ pc \in [Threads -> Places]
  /\ frame \in [Threads -> Frame]
  /\ calls \in 0 .. MaxCalls

NewLibrary(name, dependencies) ==
  [name |-> name, dependencies |-> dependencies, loaded |-> FALSE,
   lock |-> NoThread, loads |-> 0]

NewFrame(result) == [this |-> NoObject, left |-> {}, result |-> result]

Init ==
  /\ registry = [n \in Names |-> NoObject]
  /\ library = [o \in Objects |-> NewLibrary(CHOOSE n \in Names : TRUE, {})]
  /\ linked = {}
  /\ held = [t \in Threads |-> {}]
  /\ pc = [t \in Threads |-> "idle"]
  /\ frame = [t \in Threads |-> NewFrame("none")]
  /\ calls = 0

-----------------------------------------------------------------------------
\* The object is referred to by a thread; the registry does not count.
Reachable(o) == \E t \in Threads : o \in held[t] \/ frame[t].this = o

Registered(o) == \E n \in Names : registry[n] = o

NewCall(t) ==
  /\ pc[t] = "idle"
  /\ calls < MaxCalls
  /\ calls' = calls + 1

Goto(t, place) == pc' = [pc EXCEPT ![t] = place]

Return(t, result) ==
  /\ Goto(t, "idle")
  /\ frame' = [frame EXCEPT ![t] = NewFrame(result)]

Hold(t, o) == held' = [held EXCEPT ![t] = @ \cup {o}]

(* createLibrary(): the constructor, which checks the names.                *)
CreateLibrary(t) ==
  /\ NewCall(t)
  /\ \E name \in Names, dependencies \in DependencySets :
       IF name \in ValidNames /\ dependencies \subseteq ValidNames
       THEN \E o \in Objects :
              /\ ~Reachable(o) /\ ~Registered(o)
              /\ library' = [library EXCEPT ![o] = NewLibrary(name, dependencies)]
              /\ frame' = [frame EXCEPT ![t] = [NewFrame("none") EXCEPT !.this = o]]
              /\ Goto(t, "put")
       ELSE /\ Return(t, "IllegalArgument")
            /\ UNCHANGED library
  /\ UNCHANGED <<registry, linked, held>>

\* Fault: a registered library is not looked for.
OldLibraryIgnored(name) == NoObject

\* What putIfAbsent() finds.
OldLibrary(name) == registry[name]

(* createLibrary(): putIfAbsent(), and the comparison with what it finds.   *)
PutIfAbsent(t) ==
  LET new == frame[t].this
      name == library[new].name
      old == OldLibrary(name)
  IN
  /\ pc[t] = "put"
  /\ \/ /\ old = NoObject
        /\ registry' = [registry EXCEPT ![name] = new]
        /\ Hold(t, new)
        /\ Return(t, "library")
     \/ /\ old # NoObject
        /\ library[old].dependencies = library[new].dependencies
        /\ Hold(t, old)
        /\ Return(t, "library")
        /\ UNCHANGED registry
     \/ /\ old # NoObject
        /\ library[old].dependencies # library[new].dependencies
        /\ Return(t, "IllegalState")
        /\ UNCHANGED <<registry, held>>
  /\ UNCHANGED <<library, linked, calls>>

GetLibrary(t) ==
  /\ NewCall(t)
  /\ \E name \in Names :
       \/ /\ registry[name] # NoObject
          /\ Hold(t, registry[name])
          /\ Return(t, "library")
       \/ /\ registry[name] = NoObject
          /\ Return(t, "absent")
          /\ UNCHANGED held
  /\ UNCHANGED <<registry, library, linked>>

-----------------------------------------------------------------------------
\* Fault: load() is not synchronized.
AvailableAlways(o) == TRUE

\* The lock of a library can be taken.
Available(o) == library[o].lock = NoThread

(* load() up to the lock of its library.                                    *)
CallLoad(t) ==
  /\ NewCall(t)
  /\ \E o \in held[t] : frame' = [frame EXCEPT ![t] = [NewFrame("none") EXCEPT !.this = o]]
  /\ Goto(t, "blocked")
  /\ UNCHANGED <<registry, library, linked, held>>

(* The directory must exist, and the library must not be loaded.            *)
EnterLoad(t) ==
  LET o == frame[t].this IN
  /\ pc[t] = "blocked"
  /\ Available(o)
  /\ \/ /\ Return(t, "IllegalArgument")
        /\ UNCHANGED library
     \/ /\ library[o].loaded
        /\ Return(t, "IllegalState")
        /\ UNCHANGED library
     \/ /\ ~library[o].loaded
        /\ library' = [library EXCEPT ![o].lock = t]
        /\ Goto(t, "loading")
        /\ frame' = [frame EXCEPT ![t].left = library[o].dependencies]
  /\ UNCHANGED <<registry, linked, held, calls>>

(* A dependency, or the library itself, has no file or cannot be linked:    *)
(* load() throws and leaves the lock.                                       *)
FailLoad(t) ==
  /\ pc[t] = "loading"
  /\ library' = [library EXCEPT ![frame[t].this].lock = NoThread]
  /\ Return(t, "UnsatisfiedLink")
  /\ UNCHANGED <<registry, linked, held, calls>>

(* One dependency is loaded, from the system or from the directory.         *)
LoadDependency(t) ==
  /\ pc[t] = "loading"
  /\ \E dependency \in frame[t].left :
       /\ linked' = linked \cup {dependency}
       /\ frame' = [frame EXCEPT ![t].left = @ \ {dependency}]
  /\ UNCHANGED <<registry, library, held, pc, calls>>

\* Fault: the loop ends before the last dependency.
DependenciesLoadedEarly(t) == Cardinality(frame[t].left) <= 1

\* The loop over the dependencies is over.
DependenciesLoaded(t) == frame[t].left = {}

(* The library itself is loaded.                                            *)
LoadFile(t) ==
  LET o == frame[t].this IN
  /\ pc[t] = "loading"
  /\ DependenciesLoaded(t)
  /\ linked' = linked \cup {library[o].name}
  /\ library' = [library EXCEPT ![o].loads = @ + 1]
  /\ Goto(t, "mark")
  /\ UNCHANGED <<registry, held, frame, calls>>

MarkLoaded(t) ==
  /\ pc[t] = "mark"
  /\ library' = [library EXCEPT ![frame[t].this].loaded = TRUE, ![frame[t].this].lock = NoThread]
  /\ Return(t, "loaded")
  /\ UNCHANGED <<registry, linked, held, calls>>

(* CompressorFactory.getInstance() looks at a library that a static field   *)
(* refers to, without its lock.                                             *)
GetInstance(t) ==
  /\ NewCall(t)
  /\ \E o \in held[t] : Return(t, IF library[o].loaded THEN "native" ELSE "jdk")
  /\ UNCHANGED <<registry, library, linked, held>>

-----------------------------------------------------------------------------
(* A thread forgets a library; the garbage collector finds one that only    *)
(* the registry refers to, and its entry disappears.                        *)
Forget(t) ==
  /\ pc[t] = "idle"
  /\ \E o \in held[t] : held' = [held EXCEPT ![t] = @ \ {o}]
  /\ UNCHANGED <<registry, library, linked, pc, frame, calls>>

\* Fault: the collector does not look at the threads.
CollectableAlways(o) == TRUE

Collectable(o) == ~Reachable(o)

Collect ==
  /\ \E n \in Names :
       /\ registry[n] # NoObject
       /\ Collectable(registry[n])
       /\ registry' = [registry EXCEPT ![n] = NoObject]
  /\ UNCHANGED <<library, linked, held, pc, frame, calls>>

Work(t) ==
  \/ PutIfAbsent(t) \/ EnterLoad(t) \/ FailLoad(t) \/ LoadDependency(t)
  \/ LoadFile(t) \/ MarkLoaded(t)

Call(t) == CreateLibrary(t) \/ GetLibrary(t) \/ CallLoad(t) \/ GetInstance(t)

\* The callers have made all their calls and every one has returned.
Rest ==
  /\ calls = MaxCalls
  /\ \A t \in Threads : pc[t] = "idle"
  /\ UNCHANGED vars

Next == (\E t \in Threads : Call(t) \/ Work(t) \/ Forget(t)) \/ Collect \/ Rest

Spec == Init /\ [][Next]_vars

-----------------------------------------------------------------------------
(* Properties.                                                              *)

(* However their calls interleave with each other and with the collector,   *)
(* threads that refer to a library of one name refer to the same object.    *)
OneObjectPerName ==
  \A t, u \in Threads : \A o \in held[t], p \in held[u] :
    library[o].name = library[p].name => o = p

(* A library that says it is loaded has been linked with all it depends on, *)
(* so a thread that is given the native factory can call its functions.     *)
LoadedMeansLinked ==
  \A o \in Objects :
    library[o].loaded => {library[o].name} \cup library[o].dependencies \subseteq linked

(* Of any number of threads that load a library, one links its file.        *)
LoadedOnce == \A o \in Objects : library[o].loads <= 1

-----------------------------------------------------------------------------
(* The inductive invariant.                                                 *)

(* What a thread refers to is registered under its name, which only a       *)
(* collection of what nobody refers to ends; a new object is known to the   *)
(* thread that made it alone.                                               *)
HeldIsRegistered ==
  /\ \A t \in Threads : \A o \in held[t] : registry[library[o].name] = o
  /\ \A n \in Names : registry[n] # NoObject => library[registry[n]].name = n
  /\ \A t \in Threads :
       pc[t] = "put" =>
         /\ frame[t].this \in Objects
         /\ ~Registered(frame[t].this)
         /\ \A u \in Threads \ {t} : frame[u].this # frame[t].this

InLoad(t) == pc[t] \in {"loading", "mark"}

(* The thread in load() has the lock of a library that is not loaded yet,   *)
(* and what it no longer has to load is linked.                             *)
LoadsGuarded ==
  \A t \in Threads :
    /\ InLoad(t) \/ pc[t] = "blocked" => frame[t].this \in held[t]
    /\ InLoad(t) =>
         /\ library[frame[t].this].lock = t
         /\ ~library[frame[t].this].loaded
         /\ library[frame[t].this].dependencies \ frame[t].left \subseteq linked
    /\ pc[t] = "mark" => frame[t].left = {} /\ library[frame[t].this].name \in linked

\* The file of a library is loaded by the thread that is about to mark it so.
LoadsCounted ==
  \A o \in Objects :
    library[o].loads =
      IF library[o].loaded \/ \E t \in Threads : pc[t] = "mark" /\ frame[t].this = o
      THEN 1 ELSE 0

(* One object per name and one load per object, in a form that every step   *)
(* preserves.                                                               *)
IInv == TypeOK /\ HeldIsRegistered /\ LoadsGuarded /\ LoadsCounted /\ LoadedMeansLinked

=============================================================================
