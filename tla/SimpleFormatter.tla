--------------------------- MODULE SimpleFormatter ---------------------------
(***************************************************************************)
(* One call of SimpleFormatter.format (utils/SimpleFormatter.java), step by *)
(* step: the conversion of the arguments, the scan of the format string,    *)
(* the int in which an index is computed, and the char array the result is  *)
(* built in.                                                                *)
(*                                                                          *)
(* The format is a sequence of characters.  An argument is the length of    *)
(* its string, and the result a sequence of characters <<c>> and inserted   *)
(* arguments <<"argument", index>>: what matters is which argument goes     *)
(* where and whether the array has room for it.                             *)
(***************************************************************************)
EXTENDS Integers, Sequences

CONSTANTS
  Formats,    \* the format strings
  ArgLists,   \* the argument arrays: the lengths of the strings, or Null
  Null,       \* the length that stands for a null string
  IntSpan     \* how many values an int has

\* The characters of the format that have a meaning.
Opening == "{"

Closing == "}"

Backslash == "\\"

Digits == {"0", "1", "2", "3", "4", "5", "6", "7", "8", "9"}

ASSUME InputsAssumption ==
  /\ Formats \subseteq Seq(STRING)
  /\ Null = -1
  /\ ArgLists \subseteq Seq(Nat \cup {Null})
  /\ IntSpan \in Nat \ {0}
  /\ \A a \in ArgLists : Len(a) < IntSpan \div 2     \* an array is indexed by an int

VARIABLES
  format, args,      \* the arguments of the call
  boxed,             \* format(String, Object...), else format(String, String...)
  assertions,        \* java -ea
  place,             \* where the call is
  i,                 \* the index into the format, from 0
  approximateSize,   \* the size the result is expected to have
  converted,         \* how many arguments have been converted to strings
  capacity,          \* resultBuilder.length
  resultSize, nextArg,
  index,             \* value, then argumentIndex
  wrapped,           \* value has overflowed
  pieces,            \* what the result is made of
  result             \* how the call has ended

input == <<format, args, boxed, assertions>>

vars == <<input, place, i, approximateSize, converted, capacity, resultSize, nextArg,
          index, wrapped, pieces, result>>

-----------------------------------------------------------------------------
Places == {"call", "convert", "validate", "scan", "bracket", "digits", "insert", "done"}

\* A piece of a result is a character, or an argument that has been inserted.
Pieces == ({"argument"} \X Nat) \cup Seq(STRING)

Results == {"none", "returned", "IllegalArgument", "IndexOutOfBounds", "NullPointer",
            "StringIndexOutOfBounds", "NegativeIndex", "Overrun", "AssertionError"}

TypeOK ==
  /\ format \in Formats
  /\ args \in ArgLists
  /\ boxed \in BOOLEAN
  /\ assertions \in BOOLEAN
  /\ place \in Places
  /\ i \in Nat
  /\ approximateSize \in Nat
  /\ converted \in 0 .. Len(args)
  /\ capacity \in Nat
  /\ resultSize \in Nat
  /\ nextArg \in Nat
  /\ index \in Int
  /\ wrapped \in BOOLEAN
  /\ result \in Results

Init ==
  /\ format \in Formats
  /\ args \in ArgLists
  /\ boxed \in BOOLEAN
  /\ assertions \in BOOLEAN
  /\ place = "call"
  /\ i = 0
  /\ approximateSize = Len(format)
  /\ converted = 0
  /\ capacity = 0
  /\ resultSize = 0
  /\ nextArg = 0
  /\ index = 0
  /\ wrapped = FALSE
  /\ pieces = <<>>
  /\ result = "none"

-----------------------------------------------------------------------------
InFormat(k) == k < Len(format)

\* format.charAt(k)
CharAt(k) == format[k + 1]

\* Fault: an escaped character is not skipped.
AfterCharOnly(k) == i + 1

\* Fault: the character is taken again.
AfterCharStays(k) == k

\* Either loop goes on behind the character at k.
AfterChar(k) == k + 1

Stop(why) ==
  /\ place' = "done"
  /\ result' = why
  /\ UNCHANGED <<input, i, approximateSize, converted, capacity, resultSize, nextArg,
                 index, wrapped, pieces>>

\* new char[approximateSize]
Allocate(size) ==
  /\ place' = "scan"
  /\ approximateSize' = size
  /\ capacity' = size

(* The three methods called format; without arguments the first one serves  *)
(* all of them.                                                             *)
Call ==
  /\ place = "call"
  /\ \/ /\ args = <<>>
        /\ place' = "validate"
        /\ UNCHANGED <<approximateSize, capacity>>
     \/ /\ args # <<>> /\ boxed
        /\ place' = "convert"
        /\ UNCHANGED <<approximateSize, capacity>>
     \/ /\ args # <<>> /\ ~boxed
        /\ Allocate(Len(format) + Len(args) * 20)
  /\ UNCHANGED <<input, i, converted, resultSize, nextArg, index, wrapped, pieces, result>>

(* The loop of format(String, Object...), which adds up the lengths.        *)
Convert ==
  /\ place = "convert"
  /\ \/ /\ converted < Len(args)
        /\ args[converted + 1] = Null
        /\ Stop("NullPointer")
     \/ /\ converted < Len(args)
        /\ args[converted + 1] # Null
        /\ approximateSize' = approximateSize + args[converted + 1]
        /\ converted' = converted + 1
        /\ UNCHANGED <<place, capacity, input, i, resultSize, nextArg, index, wrapped,
                       pieces, result>>
     \/ /\ converted = Len(args)
        /\ Allocate(approximateSize)
        /\ UNCHANGED <<input, i, converted, resultSize, nextArg, index, wrapped, pieces,
                       result>>

(* format(String): a backslash skips a character, a bracket is refused, and *)
(* the format is returned as it is.                                         *)
Validate ==
  /\ place = "validate"
  /\ \/ /\ ~InFormat(i)
        /\ Stop("returned")
     \/ /\ InFormat(i)
        /\ \/ CharAt(i) = Opening
           \/ CharAt(i) = Backslash /\ ~InFormat(i + 1)
        /\ Stop("IllegalArgument")
     \/ /\ InFormat(i)
        /\ CharAt(i) # Opening
        /\ CharAt(i) = Backslash => InFormat(i + 1)
        /\ i' = AfterChar(IF CharAt(i) = Backslash THEN i + 1 ELSE i)
        /\ UNCHANGED <<input, place, approximateSize, converted, capacity, resultSize,
                       nextArg, index, wrapped, pieces, result>>

-----------------------------------------------------------------------------
(* format0.                                                                 *)

\* The end of the loop over the format.
Finish == place = "scan" /\ ~InFormat(i) /\ Stop("returned")

\* resultBuilder[resultSize++] = c, with the character at k.
AppendChar(k) ==
  IF resultSize < capacity
  THEN /\ pieces' = Append(pieces, <<CharAt(k)>>)
       /\ resultSize' = resultSize + 1
       /\ i' = AfterChar(k)
       /\ UNCHANGED <<input, place, approximateSize, converted, capacity, nextArg, index,
                      wrapped, result>>
  ELSE Stop("Overrun")

Literal ==
  /\ place = "scan"
  /\ InFormat(i)
  /\ CharAt(i) \notin {Opening, Backslash}
  /\ AppendChar(i)

Escape ==
  /\ place = "scan"
  /\ InFormat(i)
  /\ CharAt(i) = Backslash
  /\ IF InFormat(i + 1) THEN AppendChar(i + 1) ELSE Stop("StringIndexOutOfBounds")

\* c = format.charAt(++i) after a bracket
OpenBracket ==
  /\ place = "scan"
  /\ InFormat(i)
  /\ CharAt(i) = Opening
  /\ \/ /\ ~InFormat(i + 1)
        /\ Stop("StringIndexOutOfBounds")
     \/ /\ InFormat(i + 1)
        /\ place' = "bracket"
        /\ i' = i + 1
        /\ UNCHANGED <<input, approximateSize, converted, capacity, resultSize, nextArg,
                       index, wrapped, pieces, result>>

\* '{}' inserts the next argument, a digit begins an index.
Bracket ==
  /\ place = "bracket"
  /\ \/ /\ CharAt(i) = Closing
        /\ place' = "insert"
        /\ index' = nextArg
        /\ nextArg' = nextArg + 1
        /\ UNCHANGED <<input, i, approximateSize, converted, capacity, resultSize, wrapped,
                       pieces, result>>
     \/ /\ CharAt(i) \in Digits
        /\ place' = "digits"
        /\ index' = 0
        /\ UNCHANGED <<input, i, approximateSize, converted, capacity, resultSize, nextArg,
                       wrapped, pieces, result>>
     \/ /\ CharAt(i) \notin Digits \cup {Closing}
        /\ Stop("IllegalArgument")

DigitValue ==
  [d \in Digits |->
     CASE d = "0" -> 0 [] d = "1" -> 1 [] d = "2" -> 2 [] d = "3" -> 3 [] d = "4" -> 4
       [] d = "5" -> 5 [] d = "6" -> 6 [] d = "7" -> 7 [] d = "8" -> 8 [] d = "9" -> 9]

\* The int that n overflows to.
ToInt(n) == ((n + IntSpan \div 2) % IntSpan) - IntSpan \div 2

\* Fault: the digits are added up.
NextValueSum(value, digit) == value + digit

NextValue(value, digit) == value * 10 + digit

(* The loop over the digits, at a digit or behind the last one.             *)
Digit ==
  LET value == NextValue(index, DigitValue[CharAt(i)]) IN
  /\ place = "digits"
  /\ CharAt(i) \in Digits
  /\ \/ /\ ~InFormat(i + 1)
        /\ Stop("StringIndexOutOfBounds")
     \/ /\ InFormat(i + 1)
        /\ index' = ToInt(value)
        /\ wrapped' = (wrapped \/ ToInt(value) # value)
        /\ i' = i + 1
        /\ UNCHANGED <<input, place, approximateSize, converted, capacity, resultSize,
                       nextArg, pieces, result>>

EndOfDigits ==
  /\ place = "digits"
  /\ CharAt(i) \notin Digits
  /\ \/ /\ CharAt(i) # Closing
        /\ Stop("IllegalArgument")
     \/ /\ CharAt(i) = Closing
        /\ place' = "insert"
        /\ UNCHANGED <<input, i, approximateSize, converted, capacity, resultSize, nextArg,
                       index, wrapped, pieces, result>>

\* Fault: the rest of the format is not counted.
NeededWithoutRest(argLength) == resultSize + argLength

\* neededLength
Needed(argLength) == resultSize + argLength + Len(format) - i

\* resultBuilder.length after the array has been copied, or not.
Grown(argLength) == IF Len(args) < Needed(argLength) THEN Needed(argLength) ELSE capacity

(* The insertion of the argument: its index, the room for it, the copy.     *)
Insert ==
  /\ place = "insert"
  /\ \/ /\ index < 0
        /\ Stop(IF assertions THEN "AssertionError" ELSE "NegativeIndex")
     \/ /\ index >= Len(args)
        /\ Stop("IndexOutOfBounds")
     \/ /\ index >= 0 /\ index < Len(args)
        /\ args[index + 1] = Null
        /\ Stop(IF assertions THEN "AssertionError" ELSE "NullPointer")
     \/ /\ index >= 0 /\ index < Len(args)
        /\ args[index + 1] # Null
        /\ resultSize + args[index + 1] > Grown(args[index + 1])
        /\ Stop("Overrun")
     \/ /\ index >= 0 /\ index < Len(args)
        /\ args[index + 1] # Null
        /\ resultSize + args[index + 1] <= Grown(args[index + 1])
        /\ place' = "scan"
        /\ capacity' = Grown(args[index + 1])
        /\ pieces' = Append(pieces, <<"argument", index>>)
        /\ resultSize' = resultSize + args[index + 1]
        /\ i' = AfterChar(i)
        /\ UNCHANGED <<input, approximateSize, converted, nextArg, index, wrapped, result>>

Next ==
  \/ Call \/ Convert \/ Validate
  \/ Finish \/ Literal \/ Escape \/ OpenBracket \/ Bracket \/ Digit \/ EndOfDigits \/ Insert
  \/ place = "done" /\ UNCHANGED vars

Spec == Init /\ [][Next]_vars

\* A thread that is in format() keeps running.
FairSpec == Spec /\ WF_vars(Next)

-----------------------------------------------------------------------------
(* What the documentation of the class says a format string means.          *)

\* The last digit of the run of digits that begins at k; k - 1 if none does.
LastDigit(f, k) ==
  CHOOSE j \in k - 1 .. Len(f) :
    /\ \A m \in k .. j : f[m] \in Digits
    /\ j < Len(f) => f[j + 1] \notin Digits

\* The number that the digits of f from k to j write.
Number(f, k, j) ==
  LET value[m \in k - 1 .. Len(f)] ==
        IF m < k THEN 0 ELSE 10 * value[m - 1] + DigitValue[f[m]]
  IN  value[j]

Meaning(error, said) == [error |-> error, pieces |-> said]

Preceded(piece, meaning) == [meaning EXCEPT !.pieces = <<piece>> \o @]

(* The meaning of f from its k-th character on, when "used" arguments have  *)
(* been consumed by '{}': the pieces up to the first error.  "from" gives   *)
(* the meaning from every later character on.                               *)
MeaningAt(from, f, count, k, used) ==
  LET last == LastDigit(f, k + 1)
      which == IF last = k THEN used ELSE Number(f, k + 1, last)
  IN
  IF k > Len(f) THEN Meaning("none", <<>>)
  ELSE IF f[k] = Backslash THEN
    IF k = Len(f) THEN Meaning("IllegalArgument", <<>>)
    ELSE Preceded(<<f[k + 1]>>, from[k + 2][used])
  ELSE IF f[k] # Opening THEN Preceded(<<f[k]>>, from[k + 1][used])
  ELSE IF k = Len(f) \/ last = Len(f) THEN Meaning("IllegalArgument", <<>>)
  ELSE IF f[last + 1] # Closing THEN Meaning("IllegalArgument", <<>>)
  ELSE IF which >= count THEN Meaning("IndexOutOfBounds", <<>>)
  ELSE Preceded(<<"argument", which>>, from[last + 2][IF last = k THEN used + 1 ELSE used])

Meanings(f, count) ==
  LET from[k \in 1 .. Len(f) + 1] == [used \in Nat |-> MeaningAt(from, f, count, k, used)]
  IN  from

Documented(f, count) == Meanings(f, count)[1][0]

-----------------------------------------------------------------------------
(* Properties.                                                              *)

Ended(why) == place = "done" /\ result = why

NoNull == \A k \in DOMAIN args : args[k] # Null

FewArguments == boxed => Len(args) <= Len(format)

\* The exceptions the documentation gives the call a reason to fail with.
Reasons ==
  LET error == Documented(format, Len(args)).error IN
  (IF error = "none" THEN {} ELSE {error}) \cup (IF NoNull THEN {} ELSE {"NullPointer"})

\* The text of a call that returns: format(String) gives back the format itself.
Returned == IF args = <<>> THEN [k \in DOMAIN format |-> <<format[k]>>] ELSE pieces

(* The whole documented contract: a call returns the documented text when   *)
(* there is no documented reason to fail, and fails with a documented       *)
(* exception otherwise; what the arguments that are not used are, and how   *)
(* many there are, plays no part ("Any unused arguments are ignored").      *)
AsDocumented ==
  place = "done" =>
    IF result = "returned"
    THEN Reasons = {} /\ Returned = Documented(format, Len(args)).pieces
    ELSE result \in Reasons

(* A call with arguments, none of them null, that returns and in which no   *)
(* index has overflowed an int had no documented reason to fail, and        *)
(* returns the documented text: every character and argument in its place.  *)
TextAsDocumented ==
  Ended("returned") /\ args # <<>> /\ NoNull /\ ~wrapped =>
    Reasons = {} /\ pieces = Documented(format, Len(args)).pieces

(* When no argument is null, no index overflows and format(String,          *)
(* Object...) gets no more arguments than the format has characters, a call *)
(* returns exactly if the documentation gives no reason to fail: nothing is *)
(* refused that is valid, and nothing accepted that is not, by any of the   *)
(* three methods.                                                           *)
AcceptedAsDocumented ==
  place = "done" /\ NoNull /\ ~wrapped /\ FewArguments =>
    (result = "returned" <=> Documented(format, Len(args)).error = "none")

(* A call with arguments in which no index overflows throws                 *)
(* IllegalArgumentException only for a format that is documented as invalid *)
(* and IndexOutOfBoundsException only for an index that is.                 *)
ErrorsAsDocumented ==
  place = "done" /\ args # <<>> /\ ~wrapped /\ result \in {"IllegalArgument", "IndexOutOfBounds"} =>
    result = Documented(format, Len(args)).error

(* format(String, String...) never overruns the char array, and neither     *)
(* does format(String, Object...) when it gets no more arguments than the   *)
(* format has characters, although the room that is needed is compared with *)
(* the number of arguments instead of the length of the array.              *)
RoomSuffices == FewArguments => result # "Overrun"

(* Every call ends.                                                         *)
Terminates == <>(place = "done")

-----------------------------------------------------------------------------
(* The inductive invariant.                                                 *)

(* The expected size holds the format.  Where the scan stands, the array    *)
(* has room for the rest of the format and is no shorter than the number of *)
(* arguments, or has been made in a call that has more arguments than       *)
(* expected characters.                                                     *)
RoomFits ==
  /\ approximateSize >= Len(format)
  /\ place \in {"call", "convert"} => i = 0 /\ resultSize = 0
  /\ place = "convert" => boxed
  /\ place \in {"scan", "bracket", "digits", "insert"} =>
       /\ i <= Len(format)
       /\ \/ boxed /\ Len(args) > approximateSize
          \/ capacity >= Len(args) /\ capacity >= resultSize + Len(format) - i
  /\ place \in {"bracket", "digits", "insert"} => InFormat(i)

(* What the whole call has to produce are the pieces so far and then those  *)
(* of "meaning", with its error.                                            *)
Continues(meaning) ==
  Documented(format, Len(args)) = [meaning EXCEPT !.pieces = pieces \o @]

Rest(k) == Meanings(format, Len(args))[k][nextArg]

(* The digits of an index that have been read.                              *)
IndexSoFar(k) ==
  /\ format[k] = Opening
  /\ \A m \in k + 1 .. i : format[m] \in Digits
  /\ i = k => CharAt(i) \in Digits
  /\ index = Number(format, k + 1, i)

Insertion ==
  IF index >= Len(args) THEN Meaning("IndexOutOfBounds", <<>>)
  ELSE Preceded(<<"argument", index>>, Rest(i + 2))

(* The pieces so far and the meaning of the rest of the format are what the *)
(* documentation says of the call.                                          *)
MeaningFits ==
  /\ pieces \in Seq(Pieces)
  /\ place \in {"call", "convert", "validate"} => nextArg = 0 /\ pieces = <<>> /\ ~wrapped
  /\ place = "validate" =>
       /\ args = <<>> /\ i <= Len(format)
       /\ Documented(format, Len(args)).error = Rest(i + 1).error
  /\ place \in {"convert", "scan", "bracket", "digits", "insert"} => args # <<>>
  /\ wrapped => Documented(format, Len(args)).error # "none"
  /\ ~wrapped =>
       /\ place = "scan" => Continues(Rest(i + 1))
       /\ place = "bracket" => i > 0 /\ format[i] = Opening /\ Continues(Rest(i))
       /\ place = "digits" => \E k \in 1 .. i : IndexSoFar(k) /\ Continues(Rest(k))
       /\ place = "insert" => index >= 0 /\ Continues(Insertion)

\* A call has a result when it has ended, and not before.
ResultAtEnd == result = "none" <=> place # "done"

(* The array is overrun only when there are more arguments than expected    *)
(* characters.                                                              *)
OverrunFits == result = "Overrun" => boxed /\ Len(args) > approximateSize

\* The text that has been built, and whether there was a reason to fail.
TextFits ==
  LET meaning == Documented(format, Len(args)) IN
  IF wrapped THEN meaning.error # "none"
  ELSE meaning.error = "none" /\ (args # <<>> => pieces = meaning.pieces)

\* What is known of a call that failed like this.
FailureFits(why) ==
  LET error == Documented(format, Len(args)).error IN
  CASE why = "IllegalArgument" ->
         error = "IllegalArgument" \/ (args = <<>> /\ error = "IndexOutOfBounds")
    [] why = "IndexOutOfBounds" -> error = "IndexOutOfBounds"
    [] why = "StringIndexOutOfBounds" -> error = "IllegalArgument"
    [] why \in {"NullPointer", "AssertionError"} -> ~NoNull
    [] why = "Overrun" -> TRUE
    [] OTHER -> FALSE

EndFits ==
  place = "done" =>
    /\ result = "returned" => TextFits
    /\ result # "returned" /\ ~wrapped => FailureFits(result)

\* What the array needs, and what the meaning of the result needs beyond it.
SafeInv ==
  /\ TypeOK
  /\ ResultAtEnd
  /\ RoomFits
  /\ OverrunFits

MeaningInv ==
  /\ MeaningFits
  /\ EndFits

IInv == SafeInv /\ MeaningInv

=============================================================================
