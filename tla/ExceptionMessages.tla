-------------------------- MODULE ExceptionMessages --------------------------
(***************************************************************************)
(* vasprintf() of src/main/c/native.c, as the set of outcomes of one call,  *)
(* and what vthrowf() throws with its result.  A message is its length: the *)
(* formatted message would have "needed" characters.                        *)
(*                                                                          *)
(* An outcome says what vasprintf() returns (code), how many characters the *)
(* string in *result has (text), the size of its block (capacity), where    *)
(* the terminator is stored (end), and whether a block has been lost.       *)
(***************************************************************************)
EXTENDS Integers

CONSTANTS
  TempSize,         \* the size of the first buffer, 2048
  Platforms,        \* "c99", "windows": the branches that are compiled
  MessageLengths    \* the lengths of the messages that are formatted

ASSUME MessagesAssumption ==
  /\ TempSize \in Nat \ {0}
  /\ Platforms \subseteq {"c99", "windows"}
  /\ MessageLengths \subseteq Nat

MessageOutcome == [needed: Nat, code: Int, text: Nat, capacity: Nat, end: Nat, lost: BOOLEAN]

-----------------------------------------------------------------------------
\* vsnprintf(buf, size, ...) stores at most size - 1 characters.
Stored(needed, size) ==
  IF size = 0 THEN 0 ELSE IF needed < size THEN needed ELSE size - 1

\* A negative result; nothing is given to the caller.
Failure(needed, code, lost) ==
  [needed |-> needed, code |-> code, text |-> 0, capacity |-> 0, end |-> 0, lost |-> lost]

\* Fault: the block has no room for the terminator.
SuccessTight(needed, text) ==
  [needed |-> needed, code |-> needed, text |-> text, capacity |-> needed,
   end |-> needed, lost |-> FALSE]

\* buf[size] = '\0' in a block of needed + 1, behind what has been stored.
Success(needed, text) ==
  [needed |-> needed, code |-> needed, text |-> text, capacity |-> needed + 1,
   end |-> needed, lost |-> FALSE]

\* Fault: room is kept for the terminator that the block already has room for.
FitsWithTwoTerminators(needed) == needed + 1 < TempSize

\* needed <= oldSize
Fits(needed) == needed <= TempSize

\* vsnprintf() into a block of needed + 1, with size = needed.
SecondAttempt(needed) ==
  {Success(needed, Stored(needed, needed)), Failure(needed, -1, FALSE)}

(* The C99 branch: a first attempt in a block of TempSize + 1, which is     *)
(* then reallocated to needed + 1; when that fails the first block is lost. *)
FormatC99(needed) ==
  {Failure(needed, -3, FALSE), Failure(needed, -1, FALSE), Failure(needed, -3, TRUE)}
    \cup (IF Fits(needed) THEN {Success(needed, Stored(needed, TempSize))}
                          ELSE SecondAttempt(needed))

(* The Windows branch asks for the length first.  With a C99 vsnprintf() it *)
(* then does what the other branch does; that of msvcrt, which mingw links, *)
(* may fill all of the size and leave out the terminator.                   *)
FormatWindows(needed) ==
  {Failure(needed, -3, FALSE), Success(needed, needed)} \cup SecondAttempt(needed)

Vasprintf(platform, needed) ==
  IF platform = "windows" THEN FormatWindows(needed) ELSE FormatC99(needed)

(* vthrowf(): the class that is thrown.  A message that could not be        *)
(* formatted is replaced, and so is the class when memory was the reason;   *)
(* errno says so after malloc() and realloc(), and may after vsnprintf().   *)
ThrownClasses(class, outcome) ==
  IF outcome.code >= 0 THEN {class}
  ELSE IF outcome.code = -3 THEN {"OUT_OF_MEMORY_ERROR"}
  ELSE {class, "OUT_OF_MEMORY_ERROR"}

-----------------------------------------------------------------------------
(* Properties.                                                              *)

(* The terminator and the text before it stay inside the block.             *)
BufferFits(o) == o.code >= 0 => o.end < o.capacity /\ o.text <= o.end

(* Where the C99 branch is compiled, a message that is shorter than the     *)
(* first buffer is stored to its last character.                            *)
MessageIntact(platform, o) ==
  o.code >= 0 /\ platform = "c99" /\ o.needed < TempSize => o.text = o.needed

=============================================================================
