----------------------------- MODULE ClassTable -----------------------------
(***************************************************************************)
(* The constant classes of the native library (src/main/c/native.c): the    *)
(* global references that JNI_OnLoad creates one after the other, the table *)
(* through which JNI_OnUnload finds them, and the memory of the library     *)
(* image they live in.                                                      *)
(*                                                                          *)
(* The JVM is external.  It gives up a load when JNI_OnLoad comes back with *)
(* an exception pending, and does not call JNI_OnUnload then.  Giving up or *)
(* unloading drops the image and its variables with it, unless dlclose()    *)
(* keeps images mapped, as some C libraries do.                             *)
(***************************************************************************)
EXTENDS Integers, Sequences, FiniteSets

CONSTANTS
  ConstantClasses,   \* the names of the variables, in the order of JNI_OnLoad
  MaxLoads           \* bound on the number of loads

Classes == {ConstantClasses[i] : i \in DOMAIN ConstantClasses}

ASSUME ClassesAssumption ==
  /\ ConstantClasses \in Seq(STRING)
  /\ \A i, j \in DOMAIN ConstantClasses : ConstantClasses[i] = ConstantClasses[j] => i = j
  /\ "OUT_OF_MEMORY_ERROR" \in Classes

ASSUME MaxLoadsAssumption == MaxLoads \in Nat

VARIABLES
  imageStays,   \* whether dlclose() keeps the image mapped
  library,      \* where the library is between loading and unloading
  next,         \* the class that JNI_OnLoad creates next
  pending,      \* an exception is pending in JNI_OnLoad
  variable,     \* which of the variables hold a reference; the others are NULL
  table,        \* constantClasses[0 .. numConstantClasses - 1]
  tableMemory,  \* what the pointer constantClasses points to
  globals,      \* the global references that the JVM keeps for the library
  lost,         \* those of them that no variable holds any more
  fault,        \* why what follows is undefined
  loads         \* how many loads have begun

classVars == <<imageStays, library, next, pending, variable, table, tableMemory,
               globals, lost, fault, loads>>

-----------------------------------------------------------------------------
Faults == {"none", "nullClass", "freedTable", "noMemory"}

ClassTypeOK ==
  /\ imageStays \in BOOLEAN
  /\ library \in {"unloaded", "loading", "loaded", "crashed"}
  /\ next \in 1 .. Len(ConstantClasses) + 1
  /\ pending \in BOOLEAN
  /\ variable \in SUBSET Classes
  /\ table \in Seq(Classes)
  /\ tableMemory \in {"null", "allocated", "freed"}
  /\ globals \in Nat
  /\ lost \in Nat
  /\ fault \in Faults
  /\ loads \in 0 .. MaxLoads

ClassInit ==
  /\ imageStays \in BOOLEAN
  /\ library = "unloaded"
  /\ next = 1
  /\ pending = FALSE
  /\ variable = {}
  /\ table = <<>>
  /\ tableMemory = "null"
  /\ globals = 0
  /\ lost = 0
  /\ fault = "none"
  /\ loads = 0

-----------------------------------------------------------------------------
(* C leaves undefined what follows: mostly a crash of the process.  Nothing *)
(* is modelled behind it.                                                   *)
Crash(why) == library' = "crashed" /\ fault' = why

(* ThrowNew with the class that a variable holds; with a class that is NULL *)
(* the JVM follows a null pointer.                                          *)
CanThrow(class) == class \in variable

Load ==
  /\ library = "unloaded"
  /\ loads < MaxLoads
  /\ library' = "loading"
  /\ next' = 1
  /\ loads' = loads + 1
  /\ UNCHANGED <<imageStays, pending, variable, table, tableMemory, globals, lost, fault>>

InOnLoad == library = "loading" /\ next <= Len(ConstantClasses)

(* createConstantClass() when FindClass fails: JNI_OnLoad goes on with the  *)
(* exception pending.                                                       *)
ClassNotFound ==
  /\ InOnLoad
  /\ next' = next + 1
  /\ pending' = TRUE
  /\ UNCHANGED <<imageStays, library, variable, table, tableMemory, globals, lost, fault,
                 loads>>

\* Fault: a reference that cannot be created is not reported.
ReportsNothing == pending

\* What is pending after createConstantClass() has reported its failure.
Reports == TRUE

(* createConstantClass() when NewGlobalRef fails: whether the class of the  *)
(* error has been created yet decides how it is looked up, but it is thrown *)
(* through the variable in any case.                                        *)
ReferenceRefused ==
  /\ InOnLoad
  /\ \/ /\ ~CanThrow("OUT_OF_MEMORY_ERROR")
        /\ Crash("nullClass")
        /\ UNCHANGED <<next, pending>>
     \/ /\ ~CanThrow("OUT_OF_MEMORY_ERROR")   \* FindClass has failed and thrown
        /\ next' = next + 1
        /\ pending' = TRUE
        /\ UNCHANGED <<library, fault>>
     \/ /\ CanThrow("OUT_OF_MEMORY_ERROR")
        /\ next' = next + 1
        /\ pending' = Reports
        /\ UNCHANGED <<library, fault>>
  /\ UNCHANGED <<imageStays, variable, table, tableMemory, globals, lost, loads>>

\* Fault: the variable is not entered in the table.
AppendedNot(class) == table

Appended(class) == Append(table, class)

(* createConstantClass() when both succeed: the variable is set, over what  *)
(* it may hold from an earlier load, and entered in the table, which is     *)
(* reallocated.                                                             *)
CreateConstantClass ==
  LET class == ConstantClasses[next] IN
  /\ InOnLoad
  /\ variable' = variable \cup {class}
  /\ globals' = globals + 1
  /\ lost' = IF class \in variable THEN lost + 1 ELSE lost
  /\ \/ /\ tableMemory = "freed"
        /\ Crash("freedTable")
        /\ UNCHANGED <<next, table, tableMemory>>
     \/ /\ tableMemory # "freed"   \* realloc() fails, and its result is used
        /\ Crash("noMemory")
        /\ UNCHANGED <<next, table, tableMemory>>
     \/ /\ tableMemory # "freed"
        /\ next' = next + 1
        /\ table' = Appended(class)
        /\ tableMemory' = "allocated"
        /\ UNCHANGED <<library, fault>>
  /\ UNCHANGED <<imageStays, pending, loads>>

(* JNI_OnLoad returns.  A load that is given up drops the image; what its   *)
(* variables held is lost.                                                  *)
FinishLoad ==
  /\ library = "loading"
  /\ next = Len(ConstantClasses) + 1
  /\ pending' = FALSE
  /\ \/ /\ ~pending
        /\ library' = "loaded"
        /\ UNCHANGED <<variable, table, tableMemory, lost>>
     \/ /\ pending
        /\ library' = "unloaded"
        /\ \/ /\ imageStays
              /\ UNCHANGED <<variable, table, tableMemory, lost>>
           \/ /\ ~imageStays
              /\ variable' = {}
              /\ table' = <<>>
              /\ tableMemory' = "null"
              /\ lost' = lost + Cardinality(variable)
  /\ UNCHANGED <<imageStays, next, globals, fault, loads>>

\* Fault: the first entry of the table is skipped.
ReleasedButFirst == {table[i] : i \in DOMAIN table \ {1}}

\* The variables that JNI_OnUnload finds in the table, each once or more.
Released == {table[i] : i \in DOMAIN table}

(* JNI_OnUnload: every reference in the table is deleted, every variable in *)
(* it set to NULL, and the table freed; the pointer to it stays.            *)
Unload ==
  /\ library = "loaded"
  /\ library' = "unloaded"
  /\ globals' = globals - Cardinality(variable \cap Released)
  /\ variable' = IF imageStays THEN variable \ Released ELSE {}
  /\ table' = <<>>
  /\ tableMemory' = IF imageStays THEN "freed" ELSE "null"
  /\ UNCHANGED <<imageStays, next, pending, lost, fault, loads>>

ClassStep ==
  \/ Load \/ ClassNotFound \/ ReferenceRefused \/ CreateConstantClass \/ FinishLoad

-----------------------------------------------------------------------------
(* Properties.                                                              *)

(* While the library is loaded every variable holds its class: native code  *)
(* never throws an exception whose class is NULL.                           *)
ClassesLive == library = "loaded" => variable = Classes

(* Every global reference of the library is held by one variable or was     *)
(* lost in a load that failed: loading and unloading any number of times    *)
(* leaks none of the others.                                                *)
GlobalsAccounted == globals = lost + Cardinality(variable)

=============================================================================
