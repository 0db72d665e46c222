------------------------ MODULE SimpleFormatterProofs ------------------------
(***************************************************************************)
(* For every set of format strings and argument arrays, and ints of any     *)
(* width: the inductive invariant of SimpleFormatter.  Its first half,      *)
(* SafeInv, is about the room in the char array, its second, MeaningInv,    *)
(* says that a call does what the documentation of the class says of its    *)
(* format.                                                                  *)
(***************************************************************************)
EXTENDS FormatMeaningProofs

(* The arguments of the call, as the proofs use them.                       *)
LEMMA InputFacts ==
  ASSUME TypeOK
  PROVE  /\ Len(format) \in Nat
         /\ Len(args) \in Nat
         /\ \A k \in 1 .. Len(args) : args[k] # Null => args[k] \in Nat
  BY InputsAssumption DEF TypeOK

(* The invariant holds at the start of every call.                          *)
LEMMA InitSafe == Init => SafeInv
  <1> SUFFICES ASSUME Init
               PROVE  SafeInv
    OBVIOUS
  <1>1. Len(format) \in Nat /\ Len(args) \in Nat
    BY InputsAssumption DEF Init
  <1>2. TypeOK
    <2>1. i \in Nat /\ approximateSize \in Nat /\ converted \in 0 .. Len(args)
      BY <1>1 DEF Init
    <2>2. capacity \in Nat /\ resultSize \in Nat /\ nextArg \in Nat /\ index \in Int
      BY DEF Init
    <2>3. place \in Places /\ wrapped \in BOOLEAN /\ result \in Results
      BY DEF Init, Places, Results
    <2>4. QED
      BY <2>1, <2>2, <2>3 DEF Init, TypeOK
  <1>3. ResultAtEnd /\ RoomFits /\ OverrunFits
    BY <1>1 DEF Init, ResultAtEnd, RoomFits, OverrunFits
  <1>4. QED
    BY <1>2, <1>3 DEF SafeInv

(* A call that stops changes nothing else.                                  *)
LEMMA StopSafe ==
  ASSUME SafeInv, NEW why \in Results \ {"none"}, Stop(why),
         why = "Overrun" => boxed /\ Len(args) > approximateSize
  PROVE  SafeInv'
  <1>0. TypeOK /\ ResultAtEnd /\ RoomFits
    BY DEF SafeInv
  <1>1. TypeOK'
    BY <1>0 DEF TypeOK, Stop, input, Places
  <1>2. ResultAtEnd' /\ OverrunFits'
    BY DEF ResultAtEnd, OverrunFits, Stop, input
  <1>3. RoomFits'
    BY <1>0 DEF RoomFits, Stop, input
  <1>4. QED
    BY <1>1, <1>2, <1>3 DEF SafeInv

(* The array that a scan begins with holds the format; without conversion   *)
(* it has room for 20 characters of every argument as well.                 *)
LEMMA AllocateSafe ==
  ASSUME SafeInv, NEW size \in Nat, Allocate(size), place \in {"call", "convert"},
         size >= Len(format), boxed \/ size >= Len(args),
         UNCHANGED input, UNCHANGED i, UNCHANGED converted, UNCHANGED resultSize,
         UNCHANGED nextArg, UNCHANGED index, UNCHANGED wrapped, UNCHANGED result
  PROVE  SafeInv'
  <1>0. TypeOK /\ ResultAtEnd /\ RoomFits
    BY DEF SafeInv
  <1>1. TypeOK'
    BY <1>0 DEF TypeOK, Allocate, input, Places
  <1>2. result = "none"
    BY <1>0 DEF ResultAtEnd
  <1>3. ResultAtEnd' /\ OverrunFits'
    BY <1>2 DEF ResultAtEnd, OverrunFits, Allocate
  <1>4. i = 0 /\ resultSize = 0
    BY <1>0 DEF RoomFits
  <1>5. RoomFits'
    BY <1>0, <1>4, InputFacts DEF RoomFits, Allocate, input
  <1>6. QED
    BY <1>1, <1>3, <1>5 DEF SafeInv

\* The entry of format() preserves the invariant.
LEMMA CallSafe ==
  ASSUME SafeInv, Call
  PROVE  SafeInv'
  <1>0. TypeOK /\ ResultAtEnd /\ RoomFits /\ OverrunFits
    BY DEF SafeInv
  <1>1. CASE /\ UNCHANGED <<approximateSize, capacity>>
             /\ place' \in {"validate", "convert"}
             /\ place' = "convert" => boxed
    <2>1. TypeOK'
      BY <1>0, <1>1 DEF Call, TypeOK, input, Places
    <2>2. ResultAtEnd' /\ OverrunFits'
      BY <1>0, <1>1 DEF Call, ResultAtEnd, OverrunFits, input
    <2>3. RoomFits'
      BY <1>0, <1>1 DEF Call, RoomFits, input
    <2>4. QED
      BY <2>1, <2>2, <2>3 DEF SafeInv
  <1>2. CASE Allocate(Len(format) + Len(args) * 20)
    <2>1. /\ Len(format) + Len(args) * 20 \in Nat
          /\ Len(format) + Len(args) * 20 >= Len(format)
          /\ Len(format) + Len(args) * 20 >= Len(args)
      BY <1>0, InputFacts
    <2>2. QED
      BY <1>2, <2>1, AllocateSafe DEF Call
  <1>3. QED
    BY <1>1, <1>2 DEF Call

\* The conversion of the arguments preserves it.
LEMMA ConvertSafe ==
  ASSUME SafeInv, Convert
  PROVE  SafeInv'
  <1>0. TypeOK /\ ResultAtEnd /\ RoomFits /\ OverrunFits
    BY DEF SafeInv
  <1>1. CASE Stop("NullPointer")
    BY <1>1, StopSafe DEF Results
  <1>2. CASE /\ converted < Len(args)
             /\ args[converted + 1] # Null
             /\ approximateSize' = approximateSize + args[converted + 1]
             /\ converted' = converted + 1
             /\ UNCHANGED <<place, capacity, input, i, resultSize, nextArg, index, wrapped,
                            pieces, result>>
    <2>1. converted + 1 \in 1 .. Len(args) /\ args[converted + 1] \in Nat
      BY <1>0, <1>2, InputFacts DEF TypeOK
    <2>2. TypeOK'
      BY <1>0, <1>2, <2>1 DEF TypeOK, input
    <2>3. ResultAtEnd' /\ OverrunFits'
      BY <1>0, <1>2 DEF Convert, ResultAtEnd, OverrunFits, input
    <2>4. RoomFits'
      BY <1>0, <1>2, <2>1, InputFacts DEF Convert, RoomFits, TypeOK, input
    <2>5. QED
      BY <2>2, <2>3, <2>4 DEF SafeInv
  <1>3. CASE /\ Allocate(approximateSize)
             /\ UNCHANGED <<input, i, converted, resultSize, nextArg, index, wrapped, pieces,
                            result>>
    <2>1. approximateSize \in Nat /\ approximateSize >= Len(format)
      BY <1>0 DEF Convert, TypeOK, RoomFits
    <2>2. boxed
      BY <1>0 DEF Convert, RoomFits
    <2>3. QED
      BY <1>3, <2>1, <2>2, AllocateSafe DEF Convert
  <1>4. QED
    BY <1>1, <1>2, <1>3 DEF Convert

(* format(String) reads at most one character behind the end.               *)
LEMMA ValidateSafe ==
  ASSUME SafeInv, Validate
  PROVE  SafeInv'
  <1>0. TypeOK /\ ResultAtEnd /\ RoomFits /\ OverrunFits
    BY DEF SafeInv
  <1>1. CASE Stop("returned") \/ Stop("IllegalArgument")
    BY <1>1, StopSafe DEF Results
  <1>2. CASE /\ InFormat(i)
             /\ CharAt(i) = Backslash => InFormat(i + 1)
             /\ i' = AfterChar(IF CharAt(i) = Backslash THEN i + 1 ELSE i)
             /\ UNCHANGED <<input, place, approximateSize, converted, capacity, resultSize,
                            nextArg, index, wrapped, pieces, result>>
    <2>1. i' \in Nat /\ i' <= Len(format) + 1
      BY <1>0, <1>2, InputFacts DEF TypeOK, InFormat, AfterChar
    <2>2. TypeOK'
      BY <1>0, <1>2, <2>1 DEF TypeOK, input
    <2>3. ResultAtEnd' /\ OverrunFits'
      BY <1>0, <1>2 DEF ResultAtEnd, OverrunFits, input
    <2>4. RoomFits'
      BY <1>0, <1>2, <2>1 DEF Validate, RoomFits, input
    <2>5. QED
      BY <2>2, <2>3, <2>4 DEF SafeInv
  <1>3. QED
    BY <1>1, <1>2 DEF Validate

(* A character that is appended takes room that was kept for it.            *)
LEMMA AppendCharSafe ==
  ASSUME SafeInv, place = "scan", NEW k \in Nat, k >= i, InFormat(k), AppendChar(k)
  PROVE  SafeInv'
  <1>0. TypeOK /\ ResultAtEnd /\ RoomFits /\ OverrunFits
    BY DEF SafeInv
  <1>1. k < Len(format) /\ Len(format) \in Nat /\ Len(args) \in Nat
    BY <1>0, InputFacts DEF InFormat
  <1>2. CASE resultSize < capacity
    <2>1. /\ resultSize' = resultSize + 1
          /\ i' = k + 1
          /\ UNCHANGED <<input, place, approximateSize, converted, capacity, nextArg, index,
                         wrapped, result>>
      BY <1>2 DEF AppendChar, AfterChar
    <2>2. TypeOK'
      BY <1>0, <2>1 DEF TypeOK, input
    <2>3. ResultAtEnd' /\ OverrunFits'
      BY <1>0, <2>1 DEF ResultAtEnd, OverrunFits, input
    <2>4. RoomFits'
      BY <1>0, <1>1, <2>1 DEF RoomFits, TypeOK, input
    <2>5. QED
      BY <2>2, <2>3, <2>4 DEF SafeInv
  <1>3. CASE ~(resultSize < capacity)
    <2>1. boxed /\ Len(args) > approximateSize
      BY <1>0, <1>1, <1>3 DEF RoomFits, TypeOK
    <2>2. Stop("Overrun")
      BY <1>3 DEF AppendChar
    <2>3. QED
      BY <2>1, <2>2, StopSafe DEF Results
  <1>4. QED
    BY <1>2, <1>3

\* A literal character preserves it.
LEMMA LiteralSafe ==
  ASSUME SafeInv, Literal
  PROVE  SafeInv'
  <1>1. i \in Nat /\ i >= i
    BY DEF SafeInv, TypeOK
  <1>2. place = "scan" /\ InFormat(i) /\ AppendChar(i)
    BY DEF Literal
  <1>3. QED
    BY <1>1, <1>2, AppendCharSafe

\* An escaped character preserves it.
LEMMA EscapeSafe ==
  ASSUME SafeInv, Escape
  PROVE  SafeInv'
  <1>1. i \in Nat
    BY DEF SafeInv, TypeOK
  <1>2. CASE InFormat(i + 1)
    BY <1>1, <1>2, AppendCharSafe DEF Escape
  <1>3. CASE ~InFormat(i + 1)
    BY <1>3, StopSafe DEF Escape, Results
  <1>4. QED
    BY <1>2, <1>3

(* A step from a bracket towards its end stays inside the format, and does  *)
(* not touch the result.                                                    *)
LEMMA ReadSafe ==
  ASSUME SafeInv, place \in {"scan", "bracket", "digits"},
         place' \in {"bracket", "digits", "insert"},
         i' \in {i, i + 1}, InFormat(i'), index' \in Int, nextArg' \in Nat,
         wrapped' \in BOOLEAN,
         UNCHANGED input, UNCHANGED approximateSize, UNCHANGED converted, UNCHANGED capacity,
         UNCHANGED resultSize, UNCHANGED result
  PROVE  SafeInv'
  <1>0. TypeOK /\ ResultAtEnd /\ RoomFits /\ OverrunFits
    BY DEF SafeInv
  <1>1. Len(format) \in Nat /\ Len(args) \in Nat
    BY <1>0, InputFacts
  <1>2. i' \in Nat
    BY <1>0 DEF TypeOK
  <1>3. TypeOK'
    BY <1>0, <1>2 DEF TypeOK, input, Places
  <1>4. ResultAtEnd' /\ OverrunFits'
    BY <1>0 DEF ResultAtEnd, OverrunFits, input
  <1>5. RoomFits'
    <2>1. approximateSize \in Nat /\ capacity \in Nat /\ resultSize \in Nat /\ i \in Nat
      BY <1>0 DEF TypeOK
    <2>2. /\ approximateSize >= Len(format)
          /\ \/ boxed /\ Len(args) > approximateSize
             \/ capacity >= Len(args) /\ capacity >= resultSize + Len(format) - i
      BY <1>0 DEF RoomFits
    <2>3. capacity >= resultSize + Len(format) - i
            => capacity >= resultSize + Len(format) - i'
      BY <1>1, <1>2, <2>1
    <2>4. i' <= Len(format)
      BY <1>1, <1>2 DEF InFormat, input
    <2>5. QED
      BY <2>2, <2>3, <2>4 DEF RoomFits, input, InFormat
  <1>6. QED
    BY <1>3, <1>4, <1>5 DEF SafeInv

\* An open bracket preserves it.
LEMMA OpenBracketSafe ==
  ASSUME SafeInv, OpenBracket
  PROVE  SafeInv'
  <1>1. CASE Stop("StringIndexOutOfBounds")
    BY <1>1, StopSafe DEF Results
  <1>2. CASE /\ InFormat(i + 1)
             /\ place' = "bracket"
             /\ i' = i + 1
             /\ UNCHANGED <<input, approximateSize, converted, capacity, resultSize, nextArg,
                            index, wrapped, pieces, result>>
    <2>1. index \in Int /\ nextArg \in Nat /\ wrapped \in BOOLEAN
      BY DEF SafeInv, TypeOK
    <2>2. InFormat(i')
      BY <1>2 DEF InFormat, input
    <2>3. QED
      BY <1>2, <2>1, <2>2, ReadSafe DEF OpenBracket
  <1>3. QED
    BY <1>1, <1>2 DEF OpenBracket

\* The character behind the bracket preserves it.
LEMMA BracketSafe ==
  ASSUME SafeInv, Bracket
  PROVE  SafeInv'
  <1>0. InFormat(i) /\ nextArg \in Nat /\ index \in Int /\ wrapped \in BOOLEAN
    BY DEF SafeInv, RoomFits, Bracket, TypeOK
  <1>1. CASE Stop("IllegalArgument")
    BY <1>1, StopSafe DEF Results
  <1>2. CASE /\ place' = "insert"
             /\ index' = nextArg
             /\ nextArg' = nextArg + 1
             /\ UNCHANGED <<input, i, approximateSize, converted, capacity, resultSize, wrapped,
                            pieces, result>>
    <2>1. InFormat(i') /\ index' \in Int /\ nextArg' \in Nat /\ wrapped' \in BOOLEAN
      BY <1>0, <1>2 DEF InFormat
    <2>2. place \in {"scan", "bracket", "digits"} /\ place' \in {"bracket", "digits", "insert"}
      BY <1>2 DEF Bracket
    <2>3. QED
      BY <1>2, <2>1, <2>2, ReadSafe
  <1>3. CASE /\ place' = "digits"
             /\ index' = 0
             /\ UNCHANGED <<input, i, approximateSize, converted, capacity, resultSize, nextArg,
                            wrapped, pieces, result>>
    <2>1. InFormat(i') /\ index' \in Int /\ nextArg' \in Nat /\ wrapped' \in BOOLEAN
      BY <1>0, <1>3 DEF InFormat
    <2>2. place \in {"scan", "bracket", "digits"} /\ place' \in {"bracket", "digits", "insert"}
      BY <1>3 DEF Bracket
    <2>3. QED
      BY <1>3, <2>1, <2>2, ReadSafe
  <1>4. QED
    BY <1>1, <1>2, <1>3 DEF Bracket

(* An int is an integer.                                                    *)
LEMMA ToIntType ==
  ASSUME NEW n \in Int
  PROVE  ToInt(n) \in Int
  BY InputsAssumption DEF ToInt

\* A digit of an index preserves it.
LEMMA DigitSafe ==
  ASSUME SafeInv, Digit
  PROVE  SafeInv'
  <1> DEFINE value == NextValue(index, DigitValue[CharAt(i)])
  <1>0. nextArg \in Nat /\ index \in Int /\ wrapped \in BOOLEAN
    BY DEF SafeInv, TypeOK
  <1>1. DigitValue[CharAt(i)] \in Nat
    BY DEF Digit, DigitValue, Digits
  <1>2. value \in Int
    BY <1>0, <1>1 DEF NextValue
  <1>3. CASE Stop("StringIndexOutOfBounds")
    BY <1>3, StopSafe DEF Results
  <1>4. CASE /\ InFormat(i + 1)
             /\ index' = ToInt(value)
             /\ wrapped' = (wrapped \/ ToInt(value) # value)
             /\ i' = i + 1
             /\ UNCHANGED <<input, place, approximateSize, converted, capacity, resultSize,
                            nextArg, pieces, result>>
    <2>1. index' \in Int
      BY <1>2, <1>4, ToIntType
    <2>2. wrapped' \in BOOLEAN
      BY <1>4
    <2>3. InFormat(i')
      BY <1>4 DEF InFormat, input
    <2>4. place' \in {"bracket", "digits", "insert"} /\ nextArg' \in Nat
      BY <1>0, <1>4 DEF Digit
    <2>5. QED
      BY <1>4, <2>1, <2>2, <2>3, <2>4, ReadSafe DEF Digit
  <1>5. QED
    BY <1>3, <1>4 DEF Digit

\* The end of an index preserves it.
LEMMA EndOfDigitsSafe ==
  ASSUME SafeInv, EndOfDigits
  PROVE  SafeInv'
  <1>0. InFormat(i) /\ nextArg \in Nat /\ index \in Int /\ wrapped \in BOOLEAN
    BY DEF SafeInv, RoomFits, EndOfDigits, TypeOK
  <1>1. CASE Stop("IllegalArgument")
    BY <1>1, StopSafe DEF Results
  <1>2. CASE /\ place' = "insert"
             /\ UNCHANGED <<input, i, approximateSize, converted, capacity, resultSize, nextArg,
                            index, wrapped, pieces, result>>
    BY <1>0, <1>2, ReadSafe DEF EndOfDigits, InFormat, input
  <1>3. QED
    BY <1>1, <1>2 DEF EndOfDigits

(* An array that has grown holds the argument and the rest of the format,   *)
(* and one that has not been asked to grow is long enough if it is as long  *)
(* as the array of arguments.                                               *)
LEMMA GrownFits ==
  ASSUME SafeInv, place = "insert", NEW n \in Nat
  PROVE  /\ Grown(n) \in Nat
         /\ \/ boxed /\ Len(args) > approximateSize
            \/ Grown(n) >= Len(args) /\ Grown(n) >= resultSize + n + Len(format) - i
  <1>0. TypeOK /\ RoomFits
    BY DEF SafeInv
  <1>1. Len(format) \in Nat /\ Len(args) \in Nat
    BY <1>0, InputFacts
  <1>2. i < Len(format) /\ i \in Nat /\ resultSize \in Nat /\ capacity \in Nat
    BY <1>0 DEF RoomFits, InFormat, TypeOK
  <1>3. Needed(n) = resultSize + n + Len(format) - i /\ Needed(n) \in Nat
    BY <1>1, <1>2 DEF Needed
  <1>4. QED
    BY <1>0, <1>1, <1>2, <1>3 DEF Grown, RoomFits

\* The insertion of an argument, where the array may be replaced.
LEMMA InsertSafe ==
  ASSUME SafeInv, Insert
  PROVE  SafeInv'
  <1>0. TypeOK /\ ResultAtEnd /\ RoomFits /\ OverrunFits
    BY DEF SafeInv
  <1>1. /\ Len(format) \in Nat /\ Len(args) \in Nat
        /\ index \in Int /\ i \in Nat /\ i < Len(format) /\ resultSize \in Nat
        /\ place = "insert"
    BY <1>0, InputFacts DEF TypeOK, RoomFits, InFormat, Insert
  <1>2. CASE \E why \in Results \ {"none", "Overrun"} : Stop(why)
    BY <1>2, StopSafe
  <1>3. CASE index >= 0 /\ index < Len(args) /\ args[index + 1] # Null
    <2> DEFINE n == args[index + 1]
    <2>1. n \in Nat
      BY <1>0, <1>1, <1>3, InputFacts
    <2>2. /\ Grown(n) \in Nat
          /\ \/ boxed /\ Len(args) > approximateSize
             \/ Grown(n) >= Len(args) /\ Grown(n) >= resultSize + n + Len(format) - i
      BY <1>1, <2>1, GrownFits
    <2>3. CASE resultSize + n > Grown(n) /\ Stop("Overrun")
      <3>1. boxed /\ Len(args) > approximateSize
        BY <1>1, <2>1, <2>2, <2>3
      <3>2. QED
        BY <2>3, <3>1, StopSafe DEF Results
    <2>4. CASE /\ resultSize + n <= Grown(n)
               /\ place' = "scan"
               /\ capacity' = Grown(n)
               /\ resultSize' = resultSize + n
               /\ i' = i + 1
               /\ UNCHANGED <<input, approximateSize, converted, nextArg, index, wrapped, result>>
      <3>1. TypeOK'
        BY <1>0, <2>1, <2>2, <2>4 DEF TypeOK, input, Places
      <3>2. ResultAtEnd' /\ OverrunFits'
        BY <1>0, <1>1, <2>4 DEF ResultAtEnd, OverrunFits, input
      <3>3. RoomFits'
        BY <1>0, <1>1, <2>1, <2>2, <2>4 DEF RoomFits, input
      <3>4. QED
        BY <3>1, <3>2, <3>3 DEF SafeInv
    <2>5. \/ resultSize + n > Grown(n) /\ Stop("Overrun")
          \/ /\ resultSize + n <= Grown(n)
             /\ place' = "scan"
             /\ capacity' = Grown(n)
             /\ resultSize' = resultSize + n
             /\ i' = AfterChar(i)
             /\ UNCHANGED <<input, approximateSize, converted, nextArg, index, wrapped, result>>
      <3>1. ~(index < 0) /\ ~(index >= Len(args))
        BY <1>1, <1>3
      <3>2. QED
        BY <1>3, <3>1, Zenon DEF Insert
    <2>6. QED
      BY <2>3, <2>4, <2>5 DEF AfterChar
  <1>4. CASE ~(index >= 0 /\ index < Len(args) /\ args[index + 1] # Null)
    <2>1. \E why \in {"AssertionError", "NegativeIndex", "IndexOutOfBounds", "NullPointer"} :
            Stop(why)
      BY <1>1, <1>4 DEF Insert
    <2>2. QED
      BY <1>2, <2>1 DEF Results
  <1>5. QED
    BY <1>3, <1>4

(* Every step preserves the invariant.                                      *)
LEMMA StepSafe ==
  ASSUME SafeInv, [Next]_vars
  PROVE  SafeInv'
  <1>1. CASE Finish
    BY <1>1, StopSafe DEF Finish, Results
  <1>2. CASE UNCHANGED vars
    BY <1>2 DEF SafeInv, TypeOK, ResultAtEnd, RoomFits, OverrunFits, vars, input, InFormat
  <1>3. QED
    BY <1>1, <1>2, CallSafe, ConvertSafe, ValidateSafe, LiteralSafe, EscapeSafe,
       OpenBracketSafe, BracketSafe, DigitSafe, EndOfDigitsSafe, InsertSafe DEF Next

(* Throughout every call of format() the array has the room that the rest   *)
(* of the format needs, or the call has more arguments than characters.     *)
THEOREM SafeInvariance == Spec => []SafeInv
  BY InitSafe, StepSafe, PTL DEF Spec

(* format(String, String...) never overruns its array, nor does             *)
(* format(String, Object...) with no more arguments than characters in the  *)
(* format.                                                                  *)
THEOREM RoomAlwaysSuffices == Spec => []RoomSuffices
  <1>1. SafeInv => RoomSuffices
    <2>1. SUFFICES ASSUME SafeInv, FewArguments, result = "Overrun"
                   PROVE  FALSE
      BY DEF RoomSuffices
    <2>2. /\ approximateSize >= Len(format) /\ TypeOK
          /\ boxed /\ Len(args) > approximateSize
      BY <2>1 DEF SafeInv, RoomFits, OverrunFits
    <2>3. QED
      BY <2>1, <2>2, InputFacts DEF FewArguments, TypeOK
  <1>2. QED
    BY <1>1, SafeInvariance, PTL

-----------------------------------------------------------------------------
(* The result is the documented one.                                        *)

\* What the proofs use of a call and of its documentation.
LEMMA CallFacts ==
  ASSUME IInv
  PROVE  /\ SafeInv /\ TypeOK /\ RoomFits /\ MeaningFits
         /\ format \in Seq(STRING) /\ Len(format) \in Nat /\ Len(args) \in Nat
         /\ i \in Nat /\ nextArg \in Nat /\ index \in Int /\ pieces \in Seq(Pieces)
  <1>1. TypeOK /\ SafeInv /\ RoomFits /\ MeaningFits
    BY DEF IInv, SafeInv, MeaningInv
  <1>2. format \in Seq(STRING)
    BY <1>1, InputsAssumption DEF TypeOK
  <1>3. QED
    BY <1>1, <1>2, InputFacts DEF TypeOK, MeaningFits

\* The meaning of the rest of the format has its type.
LEMMA RestType ==
  ASSUME IInv, NEW k \in 1 .. Len(format) + 1
  PROVE  Rest(k) \in MeaningSet
  BY CallFacts, MeaningsType DEF Rest

\* A backslash at the beginning of the rest.
LEMMA RestOfEscape ==
  ASSUME IInv, NEW k \in 1 .. Len(format), format[k] = Backslash
  PROVE  /\ k = Len(format) => Rest(k) = Meaning("IllegalArgument", <<>>)
         /\ k # Len(format) => Rest(k) = Preceded(<<format[k + 1]>>, Rest(k + 2))
  <1>1. format \in Seq(STRING) /\ nextArg \in Nat
    BY CallFacts
  <1>2. Rest(k) = IF k = Len(format) THEN Meaning("IllegalArgument", <<>>)
                  ELSE Preceded(<<format[k + 1]>>, Rest(k + 2))
    BY <1>1, MeaningOfEscape DEF Rest
  <1>3. QED
    BY <1>2, Zenon

\* A character that stands for itself at the beginning of the rest.
LEMMA RestOfLiteral ==
  ASSUME IInv, NEW k \in 1 .. Len(format), format[k] # Opening, format[k] # Backslash
  PROVE  Rest(k) = Preceded(<<format[k]>>, Rest(k + 1))
  <1>1. format \in Seq(STRING) /\ nextArg \in Nat
    BY CallFacts
  <1>2. QED
    BY <1>1, MeaningOfLiteral DEF Rest

\* What Continues says of the two parts of a meaning.
LEMMA ContinuesParts ==
  ASSUME IInv, NEW meaning \in MeaningSet
  PROVE  Continues(meaning) =>
           /\ Documented(format, Len(args)).error = meaning.error
           /\ Documented(format, Len(args)).pieces = pieces \o meaning.pieces
  BY DEF Continues, MeaningSet

\* A piece in front of a meaning does not change its error.
LEMMA SameError ==
  ASSUME NEW piece \in Pieces, NEW meaning \in MeaningSet, NEW all,
         all = Preceded(piece, meaning)
  PROVE  all.error = meaning.error
  BY PrecededType

\* A piece at the end of what comes before the rest, or in front of the rest.
LEMMA PieceAppended ==
  ASSUME NEW before \in Seq(Pieces), NEW piece \in Pieces, NEW rest \in Seq(Pieces)
  PROVE  /\ Append(before, piece) \in Seq(Pieces)
         /\ Append(before, piece) \o rest = before \o (<<piece>> \o rest)
  <1> DEFINE S == Pieces
  <1> HIDE DEF S
  <1>1. before \in Seq(S) /\ piece \in S /\ rest \in Seq(S)
    BY DEF S
  <1>2. Append(before, piece) \in Seq(S)
    BY <1>1, AppendMoves
  <1>3. Append(before, piece) \o rest = before \o (<<piece>> \o rest)
    BY <1>1, AppendMoves
  <1>4. QED
    BY <1>2, <1>3 DEF S

(* A piece moves from the rest of the format to the result.                 *)
LEMMA PieceMoves ==
  ASSUME IInv, NEW piece \in Pieces, NEW meaning \in MeaningSet,
         Continues(Preceded(piece, meaning))
  PROVE  /\ Append(pieces, piece) \in Seq(Pieces)
         /\ Documented(format, Len(args))
              = [meaning EXCEPT !.pieces = Append(pieces, piece) \o @]
  <1>1. pieces \in Seq(Pieces) /\ meaning.pieces \in Seq(Pieces)
    BY CallFacts DEF MeaningSet
  <1> DEFINE rest == meaning.pieces
  <1>2. /\ Append(pieces, piece) \in Seq(Pieces)
        /\ Append(pieces, piece) \o rest = pieces \o (<<piece>> \o rest)
    <2> HIDE DEF rest
    <2>1. rest \in Seq(Pieces) /\ pieces \in Seq(Pieces)
      BY <1>1 DEF rest
    <2>2. QED
      BY <2>1, PieceAppended
  <1> DEFINE before == Preceded(piece, meaning)
  <1>3. /\ before \in MeaningSet
        /\ before.error = meaning.error
        /\ before.pieces = <<piece>> \o meaning.pieces
    BY PrecededType
  <1> HIDE DEF before
  <1>4. Documented(format, Len(args)) = [before EXCEPT !.pieces = pieces \o @]
    BY DEF Continues, before
  <1>5. Documented(format, Len(args)) = [error |-> before.error, pieces |-> pieces \o before.pieces]
    BY <1>3, <1>4, OtherPieces
  <1>6. Documented(format, Len(args))
          = [error |-> meaning.error, pieces |-> Append(pieces, piece) \o meaning.pieces]
    BY <1>2, <1>3, <1>5, Zenon
  <1>7. QED
    BY <1>2, <1>6, OtherPieces

(* Before anything has been scanned the whole call is still to come.        *)
LEMMA NothingScanned ==
  ASSUME IInv, nextArg = 0, pieces = <<>>
  PROVE  Continues(Rest(1)) /\ Documented(format, Len(args)) = Rest(1)
  <1>1. Documented(format, Len(args)) = Rest(1)
    BY DEF Documented, Rest
  <1>2. Rest(1) \in MeaningSet
    BY CallFacts, RestType
  <1>3. Rest(1).pieces \in Seq(Pieces)
    BY <1>2 DEF MeaningSet
  <1>4. <<>> \o Rest(1).pieces = Rest(1).pieces
    BY <1>3, ConcatEmptySeq
  <1> DEFINE rest == Rest(1)
  <1>5. rest = [rest EXCEPT !.pieces = <<>> \o @]
    <2> HIDE DEF rest
    <2>1. rest \in MeaningSet /\ <<>> \o rest.pieces = rest.pieces
      BY <1>2, <1>4 DEF rest
    <2>2. QED
      BY <2>1 DEF MeaningSet
  <1>6. QED
    BY <1>1, <1>5 DEF Continues

(* A call that stops has to be right about its text or its error.           *)
LEMMA StopMeaning ==
  ASSUME IInv, NEW why \in Results, Stop(why), place # "done",
         why = "returned" => TextFits,
         why # "returned" /\ ~wrapped => FailureFits(why)
  PROVE  MeaningInv'
  <1>1. /\ place' = "done" /\ result' = why
        /\ UNCHANGED <<format, args, wrapped, pieces>>
    BY DEF Stop, input
  <1>2. MeaningFits'
    BY <1>1, CallFacts DEF MeaningFits
  <1>3. result' = "returned" => TextFits'
    BY <1>1 DEF TextFits
  <1>4. result' # "returned" /\ ~wrapped' => FailureFits(result)'
    <2>1. SUFFICES ASSUME result' # "returned", ~wrapped'
                   PROVE  FailureFits(result)'
      OBVIOUS
    <2>2. FailureFits(why)
      BY <1>1, <2>1
    <2>3. QED
      BY <1>1, <2>2 DEF FailureFits, NoNull
  <1>5. QED
    BY <1>2, <1>3, <1>4 DEF MeaningInv, EndFits

\* A call that goes on has no result to be right about.
LEMMA GoesOn ==
  ASSUME place' # "done", MeaningFits'
  PROVE  MeaningInv'
  BY DEF MeaningInv, EndFits

(* The first state.                                                         *)
LEMMA InitMeaning == Init => MeaningInv
  <1> SUFFICES ASSUME Init
               PROVE  MeaningInv
    OBVIOUS
  <1>1. <<>> \in Seq(Pieces)
    OBVIOUS
  <1>2. MeaningFits
    BY <1>1 DEF Init, MeaningFits
  <1>3. QED
    BY <1>2 DEF Init, MeaningInv, EndFits

(* The entry of format().                                                   *)
LEMMA CallMeaning ==
  ASSUME IInv, Call
  PROVE  MeaningInv'
  <1>1. /\ place = "call" /\ i = 0 /\ nextArg = 0 /\ pieces = <<>> /\ ~wrapped
        /\ UNCHANGED <<format, args, i, nextArg, wrapped, pieces>>
    BY CallFacts DEF Call, RoomFits, MeaningFits, input
  <1>2. Continues(Rest(1)) /\ Documented(format, Len(args)) = Rest(1)
    BY <1>1, NothingScanned
  <1>3. CASE place' = "validate" /\ args = <<>>
    <2>1. MeaningFits'
      BY <1>1, <1>2, <1>3, CallFacts DEF MeaningFits, Rest
    <2>2. QED
      BY <1>3, <2>1, GoesOn
  <1>4. CASE place' \in {"convert", "scan"} /\ args # <<>>
    <2>1. Continues(Rest(i + 1))'
      BY <1>1, <1>2 DEF Continues, Rest
    <2>2. MeaningFits'
      BY <1>1, <1>4, <2>1, CallFacts DEF MeaningFits
    <2>3. QED
      BY <1>4, <2>2, GoesOn
  <1>5. QED
    BY <1>3, <1>4 DEF Call, Allocate

(* The conversion of the arguments, where only a null string is an error.   *)
LEMMA ConvertMeaning ==
  ASSUME IInv, Convert
  PROVE  MeaningInv'
  <1>1. place = "convert" /\ i = 0 /\ nextArg = 0 /\ pieces = <<>> /\ ~wrapped /\ args # <<>>
    BY CallFacts DEF Convert, RoomFits, MeaningFits
  <1>2. CASE Stop("NullPointer")
    <2>1. (converted < Len(args) /\ args[converted + 1] = Null) \/ place' # "done"
      BY <1>1 DEF Convert, Allocate
    <2>2. place' = "done" /\ converted \in 0 .. Len(args)
      BY <1>2, CallFacts DEF Stop, TypeOK
    <2>3. converted + 1 \in DOMAIN args /\ args[converted + 1] = Null
      <3>1. args \in Seq(Nat \cup {Null})
        BY CallFacts, InputsAssumption DEF TypeOK
      <3>2. converted + 1 \in 1 .. Len(args)
        BY <2>1, <2>2, CallFacts
      <3>3. QED
        BY <2>1, <2>2, <3>1, <3>2
    <2>4. FailureFits("NullPointer")
      BY <2>3 DEF FailureFits, NoNull
    <2>5. QED
      BY <1>1, <1>2, <2>4, StopMeaning DEF Results
  <1>3. CASE place' \in {"convert", "scan"} /\ UNCHANGED <<input, i, nextArg, wrapped, pieces>>
    <2>1. Continues(Rest(1))
      BY <1>1, NothingScanned
    <2>2. Continues(Rest(i + 1))'
      BY <1>1, <1>3, <2>1 DEF Continues, Rest, input
    <2>3. MeaningFits'
      BY <1>1, <1>3, <2>2, CallFacts DEF MeaningFits, input
    <2>4. QED
      BY <1>3, <2>3, GoesOn
  <1>4. QED
    BY <1>2, <1>3 DEF Convert, Allocate

(* format(String): every character it accepts is a piece of the meaning.    *)
LEMMA ValidateMeaning ==
  ASSUME IInv, Validate
  PROVE  MeaningInv'
  <1>1. /\ place = "validate" /\ ~wrapped /\ nextArg = 0 /\ args = <<>> /\ Len(args) = 0
        /\ i <= Len(format) /\ Documented(format, Len(args)).error = Rest(i + 1).error
    BY CallFacts DEF Validate, MeaningFits
  <1>2. CASE ~InFormat(i) /\ Stop("returned")
    <2>1. i = Len(format)
      BY <1>1, <1>2, CallFacts DEF InFormat
    <2>2. Rest(i + 1) = Meaning("none", <<>>)
      BY <2>1, CallFacts, MeaningOfEnd DEF Rest
    <2>3. TextFits
      BY <1>1, <2>2 DEF TextFits, Meaning
    <2>4. QED
      BY <1>1, <1>2, <2>3, StopMeaning DEF Results
  <1>3. CASE InFormat(i) /\ CharAt(i) = Opening /\ Stop("IllegalArgument")
    <2>1. i + 1 \in 1 .. Len(format) /\ format[i + 1] = Opening
      BY <1>3, CallFacts DEF InFormat, CharAt
    <2>2. Rest(i + 1).error \in {"IllegalArgument", "IndexOutOfBounds"}
      BY <1>1, <2>1, CallFacts, BracketWithoutArguments DEF Rest
    <2>3. FailureFits("IllegalArgument")
      BY <1>1, <2>2 DEF FailureFits
    <2>4. QED
      BY <1>1, <1>3, <2>3, StopMeaning DEF Results
  <1>4. CASE /\ InFormat(i) /\ CharAt(i) = Backslash /\ ~InFormat(i + 1)
             /\ Stop("IllegalArgument")
    <2>1. i + 1 \in 1 .. Len(format) /\ i + 1 = Len(format) /\ format[i + 1] = Backslash
      BY <1>4, CallFacts DEF InFormat, CharAt
    <2>2. Rest(i + 1) = Meaning("IllegalArgument", <<>>)
      BY <2>1, RestOfEscape
    <2>3. FailureFits("IllegalArgument")
      BY <1>1, <2>2 DEF FailureFits, Meaning
    <2>4. QED
      BY <1>1, <1>4, <2>3, StopMeaning DEF Results
  <1>5. CASE /\ InFormat(i) /\ CharAt(i) # Opening
             /\ CharAt(i) = Backslash => InFormat(i + 1)
             /\ i' = AfterChar(IF CharAt(i) = Backslash THEN i + 1 ELSE i)
             /\ UNCHANGED <<input, place, nextArg, wrapped, pieces>>
    <2>1. /\ i + 1 \in 1 .. Len(format) /\ i' + 1 \in 1 .. Len(format) + 1
          /\ i' + 1 = IF format[i + 1] = Backslash THEN i + 3 ELSE i + 2
          /\ format[i + 1] = Backslash => i + 2 \in 1 .. Len(format)
      <3>1. i \in Nat /\ Len(format) \in Nat
        BY CallFacts
      <3>2. /\ i < Len(format) /\ CharAt(i) = format[i + 1]
            /\ CharAt(i) = Backslash => i + 1 < Len(format) /\ i' = (i + 1) + 1
            /\ CharAt(i) # Backslash => i' = i + 1
        BY <1>5 DEF InFormat, CharAt, AfterChar
      <3>3. QED
        BY <3>1, <3>2
    <2>2. Rest(i + 1).error = Rest(i' + 1).error
      <3>1. Rest(i' + 1) \in MeaningSet
        BY <2>1, RestType
      <3>2. CASE format[i + 1] = Backslash
        <4>1. i + 1 # Len(format) /\ i' + 1 = (i + 1) + 2 /\ (i + 1) + 1 \in 1 .. Len(format)
          <5>1. i \in Nat /\ Len(format) \in Nat
            BY CallFacts
          <5>2. QED
            BY <2>1, <3>2, <5>1
        <4>2. Rest(i + 1) = Preceded(<<format[(i + 1) + 1]>>, Rest(i' + 1))
          <5>1. Rest(i + 1) = Preceded(<<format[(i + 1) + 1]>>, Rest((i + 1) + 2))
            BY <2>1, <3>2, <4>1, RestOfEscape
          <5>2. QED
            BY <4>1, <5>1
        <4>3. <<format[(i + 1) + 1]>> \in Pieces
          <5>1. format[(i + 1) + 1] \in STRING
            BY <4>1, CallFacts
          <5>2. QED
            BY <5>1, CharacterIsPiece, Zenon
        <4>4. QED
          BY <3>1, <4>2, <4>3, SameError
      <3>3. CASE format[i + 1] # Backslash
        <4>1. i' + 1 = (i + 1) + 1
          BY <2>1, <3>3, CallFacts
        <4>2. Rest(i + 1) = Preceded(<<format[i + 1]>>, Rest(i' + 1))
          <5>1. format[i + 1] # Opening
            BY <1>5 DEF CharAt
          <5>2. Rest(i + 1) = Preceded(<<format[i + 1]>>, Rest((i + 1) + 1))
            BY <2>1, <3>3, <5>1, RestOfLiteral
          <5>3. QED
            BY <4>1, <5>2
        <4>3. <<format[i + 1]>> \in Pieces
          <5>1. format[i + 1] \in STRING
            BY <2>1, CallFacts
          <5>2. QED
            BY <5>1, CharacterIsPiece, Zenon
        <4>4. QED
          BY <3>1, <4>2, <4>3, SameError
      <3>4. QED
        BY <3>2, <3>3
    <2>3. Rest(i + 1)' = Rest(i' + 1)
      BY <1>5 DEF Rest, input
    <2>4. i' <= Len(format)
      <3>1. i' \in Int
        BY <1>5, CallFacts DEF AfterChar
      <3>2. QED
        BY <2>1, <3>1, CallFacts
    <2>5. MeaningFits'
      BY <1>1, <1>5, <2>2, <2>3, <2>4, CallFacts DEF MeaningFits, input
    <2>6. QED
      BY <1>1, <1>5, <2>5, GoesOn
  <1>6. QED
    BY <1>2, <1>3, <1>4, <1>5 DEF Validate

-----------------------------------------------------------------------------
(* The scan of the format.                                                  *)

\* What an error of the rest of the format means for the call.
LEMMA ErrorOfRest ==
  ASSUME IInv, NEW error \in Errors, NEW meaning, meaning = Meaning(error, <<>>),
         Continues(meaning)
  PROVE  /\ Documented(format, Len(args)).error = error
         /\ Documented(format, Len(args)).pieces = pieces
  <1>1. meaning \in MeaningSet /\ meaning.error = error /\ meaning.pieces = <<>>
    BY ErrorType DEF Meaning
  <1>2. /\ Documented(format, Len(args)).error = error
        /\ Documented(format, Len(args)).pieces = pieces \o <<>>
    BY <1>1, ContinuesParts
  <1>3. pieces \o <<>> = pieces
    BY CallFacts, ConcatEmptySeq
  <1>4. QED
    BY <1>2, <1>3

(* A step that appends the first piece of the rest to the result.           *)
LEMMA PieceAdded ==
  ASSUME IInv, NEW piece \in Pieces, args # <<>>, NEW k \in 0 .. Len(format), i' = k,
         ~wrapped => Continues(Preceded(piece, Rest(k + 1))),
         place' = "scan", pieces' = Append(pieces, piece),
         UNCHANGED <<format, args, nextArg, wrapped>>
  PROVE  MeaningInv'
  <1>1. k + 1 \in 1 .. Len(format) + 1
    BY CallFacts
  <1> DEFINE rest == Rest(k + 1)
  <1>2. rest \in MeaningSet
    BY <1>1, RestType
  <1>3. Rest(i + 1)' = rest
    BY DEF Rest
  <1> HIDE DEF rest
  <1>4. pieces' \in Seq(Pieces)
    BY CallFacts, AppendProperties
  <1>5. ~wrapped => Documented(format, Len(args))
                      = [rest EXCEPT !.pieces = Append(pieces, piece) \o @]
    BY <1>2, PieceMoves DEF rest
  <1>6. ~wrapped => Continues(Rest(i + 1))'
    BY <1>3, <1>5 DEF Continues
  <1>7. wrapped => Documented(format, Len(args)).error # "none"
    BY CallFacts DEF MeaningFits
  <1>8. MeaningFits'
    BY <1>4, <1>6, <1>7 DEF MeaningFits
  <1>9. QED
    BY <1>8, GoesOn

\* What is known when the scan is between two pieces.
LEMMA ScanFacts ==
  ASSUME IInv, place = "scan"
  PROVE  /\ args # <<>> /\ i <= Len(format)
         /\ wrapped => Documented(format, Len(args)).error # "none"
         /\ ~wrapped => Continues(Rest(i + 1))
  BY CallFacts DEF MeaningFits, RoomFits

(* The end of the format.                                                   *)
LEMMA FinishMeaning ==
  ASSUME IInv, Finish
  PROVE  MeaningInv'
  <1>1. place = "scan" /\ ~InFormat(i) /\ Stop("returned")
    BY DEF Finish
  <1>2. i = Len(format)
    BY <1>1, CallFacts, ScanFacts DEF InFormat
  <1>3. Rest(i + 1) = Meaning("none", <<>>)
    BY <1>2, CallFacts, MeaningOfEnd DEF Rest
  <1>4. TextFits
    <2>1. CASE wrapped
      BY <1>1, <2>1, ScanFacts DEF TextFits
    <2>2. CASE ~wrapped
      <3>1. /\ Documented(format, Len(args)).error = "none"
            /\ Documented(format, Len(args)).pieces = pieces
        BY <1>1, <1>3, <2>2, ScanFacts, ErrorOfRest DEF Errors
      <3>2. QED
        BY <2>2, <3>1 DEF TextFits
    <2>3. QED
      BY <2>1, <2>2
  <1>5. QED
    BY <1>1, <1>4, StopMeaning DEF Results

(* A character is appended, or the array has no room for it.                *)
LEMMA AppendCharMeaning ==
  ASSUME IInv, place = "scan", NEW k \in Nat, InFormat(k), AppendChar(k),
         Rest(i + 1) = Preceded(<<CharAt(k)>>, Rest(k + 2))
  PROVE  MeaningInv'
  <1>1. CASE Stop("Overrun")
    <2>1. FailureFits("Overrun")
      BY DEF FailureFits
    <2>2. QED
      BY <1>1, <2>1, StopMeaning DEF Results
  <1>2. CASE ~Stop("Overrun")
    <2>1. /\ pieces' = Append(pieces, <<CharAt(k)>>) /\ i' = k + 1 /\ place' = "scan"
          /\ UNCHANGED <<format, args, nextArg, wrapped>>
      BY <1>2 DEF AppendChar, AfterChar, input
    <2>2. i' \in 0 .. Len(format) /\ i' + 1 = k + 2
      BY <2>1, CallFacts DEF InFormat
    <2>3. <<CharAt(k)>> \in Pieces
      <3>1. CharAt(k) \in STRING
        BY CallFacts DEF CharAt, InFormat
      <3>2. QED
        BY <3>1, CharacterIsPiece, Zenon
    <2>4. ~wrapped => Continues(Preceded(<<CharAt(k)>>, Rest(i' + 1)))
      BY <2>2, ScanFacts
    <2>5. QED
      BY <2>1, <2>2, <2>3, <2>4, ScanFacts, PieceAdded
  <1>3. QED
    BY <1>1, <1>2

(* A character that stands for itself.                                      *)
LEMMA LiteralMeaning ==
  ASSUME IInv, Literal
  PROVE  MeaningInv'
  <1>1. /\ place = "scan" /\ InFormat(i) /\ AppendChar(i)
        /\ CharAt(i) # Opening /\ CharAt(i) # Backslash
    BY DEF Literal
  <1>2. i + 1 \in 1 .. Len(format) /\ (i + 1) + 1 = i + 2
    BY <1>1, CallFacts DEF InFormat
  <1>3. Rest(i + 1) = Preceded(<<CharAt(i)>>, Rest(i + 2))
    <2>1. format[i + 1] # Opening /\ format[i + 1] # Backslash /\ CharAt(i) = format[i + 1]
      BY <1>1 DEF CharAt
    <2>2. QED
      BY <1>2, <2>1, RestOfLiteral
  <1>4. QED
    BY <1>1, <1>3, CallFacts, AppendCharMeaning

(* A backslash and the character behind it, or the end of the format.       *)
LEMMA EscapeMeaning ==
  ASSUME IInv, Escape
  PROVE  MeaningInv'
  <1>1. place = "scan" /\ InFormat(i) /\ CharAt(i) = Backslash
    BY DEF Escape
  <1>2. i + 1 \in 1 .. Len(format) /\ (i + 1) + 1 = i + 2 /\ (i + 1) + 2 = (i + 1) + 2
        /\ format[i + 1] = Backslash
    BY <1>1, CallFacts DEF InFormat, CharAt
  <1>3. CASE InFormat(i + 1) /\ AppendChar(i + 1)
    <2>1. i + 1 # Len(format)
      BY <1>3, CallFacts DEF InFormat
    <2>2. Rest(i + 1) = Preceded(<<CharAt(i + 1)>>, Rest((i + 1) + 2))
      <3>1. Rest(i + 1) = Preceded(<<format[(i + 1) + 1]>>, Rest((i + 1) + 2))
        BY <1>2, <2>1, RestOfEscape
      <3>2. QED
        BY <3>1 DEF CharAt
    <2>3. i + 1 \in Nat
      BY CallFacts
    <2>4. QED
      BY <1>1, <1>3, <2>2, <2>3, AppendCharMeaning
  <1>4. CASE ~InFormat(i + 1) /\ Stop("StringIndexOutOfBounds")
    <2>1. i + 1 = Len(format)
      BY <1>2, <1>4, CallFacts DEF InFormat
    <2>2. Rest(i + 1) = Meaning("IllegalArgument", <<>>)
      BY <1>2, <2>1, RestOfEscape
    <2>3. ~wrapped => FailureFits("StringIndexOutOfBounds")
      BY <1>1, <2>2, ScanFacts, ErrorOfRest DEF FailureFits, Errors
    <2>4. QED
      BY <1>1, <1>4, <2>3, StopMeaning DEF Results
  <1>5. QED
    BY <1>3, <1>4 DEF Escape

-----------------------------------------------------------------------------
(* A bracket and what stands in it.                                         *)

(* When the digits behind the bracket at k end the format, or end at        *)
(* something else than a closing bracket, the call has to fail.             *)
LEMMA BracketIsInvalid ==
  ASSUME IInv, NEW k, NEW j, BracketAt(format, k, j),
         j = Len(format) \/ format[j + 1] # Closing,
         Continues(Rest(k))
  PROVE  Documented(format, Len(args)).error = "IllegalArgument"
  <1>1. format \in Seq(STRING) /\ nextArg \in Nat
    BY CallFacts
  <1>2. Rest(k) = Meaning("IllegalArgument", <<>>)
    BY <1>1, MeaningOfOpenBracket DEF Rest
  <1>3. QED
    BY <1>2, ErrorOfRest DEF Errors

(* An opening bracket.                                                      *)
LEMMA OpenBracketMeaning ==
  ASSUME IInv, OpenBracket
  PROVE  MeaningInv'
  <1>1. place = "scan" /\ InFormat(i) /\ CharAt(i) = Opening
    BY DEF OpenBracket
  <1>2. i + 1 \in 1 .. Len(format) /\ format[i + 1] = Opening
    BY <1>1, CallFacts DEF InFormat, CharAt
  <1>3. CASE ~InFormat(i + 1) /\ Stop("StringIndexOutOfBounds")
    <2>1. i + 1 = Len(format)
      BY <1>2, <1>3, CallFacts DEF InFormat
    <2>2. BracketAt(format, i + 1, i + 1)
      BY <1>2, <2>1, CallFacts DEF BracketAt
    <2>3. ~wrapped => Documented(format, Len(args)).error = "IllegalArgument"
      BY <1>1, <2>1, <2>2, ScanFacts, BracketIsInvalid
    <2>4. ~wrapped => FailureFits("StringIndexOutOfBounds")
      BY <2>3 DEF FailureFits
    <2>5. QED
      BY <1>1, <1>3, <2>4, StopMeaning DEF Results
  <1>4. CASE /\ place' = "bracket" /\ i' = i + 1
             /\ UNCHANGED <<input, nextArg, wrapped, pieces>>
    <2>1. i' > 0 /\ format[i'] = Opening
      BY <1>2, <1>4, CallFacts
    <2>2. ~wrapped => Continues(Rest(i))'
      BY <1>1, <1>4, ScanFacts DEF Continues, Rest, input
    <2>3. MeaningFits'
      BY <1>1, <1>4, <2>1, <2>2, ScanFacts, CallFacts DEF MeaningFits, input
    <2>4. QED
      BY <1>4, <2>3, GoesOn
  <1>5. QED
    BY <1>3, <1>4 DEF OpenBracket

(* The character behind it.                                                 *)
LEMMA BracketMeaning ==
  ASSUME IInv, Bracket
  PROVE  MeaningInv'
  <1>1. /\ place = "bracket" /\ InFormat(i) /\ args # <<>>
        /\ wrapped => Documented(format, Len(args)).error # "none"
        /\ ~wrapped => i > 0 /\ format[i] = Opening /\ Continues(Rest(i))
    BY CallFacts DEF Bracket, MeaningFits, RoomFits
  <1>2. i + 1 \in 1 .. Len(format) /\ CharAt(i) = format[i + 1]
    BY <1>1, CallFacts DEF InFormat, CharAt
  <1>3. ~wrapped => i \in 1 .. Len(format) /\ i \in i .. Len(format) /\ i # Len(format)
    BY <1>1, <1>2, CallFacts
  <1>4. \A m \in i + 1 .. i : FALSE
    BY CallFacts
  <1>5. Closing \notin Digits
    BY Zenon DEF Closing, Digits
  <1>6. CASE /\ CharAt(i) = Closing
             /\ place' = "insert" /\ index' = nextArg /\ nextArg' = nextArg + 1
             /\ UNCHANGED <<input, i, wrapped, pieces>>
    <2>1. ASSUME ~wrapped
          PROVE  Rest(i) = IF nextArg >= Len(args) THEN Meaning("IndexOutOfBounds", <<>>)
                           ELSE Preceded(<<"argument", nextArg>>,
                                         Meanings(format, Len(args))[i + 2][nextArg + 1])
      <3>1. /\ BracketAt(format, i, i) /\ i # Len(format) /\ format[i + 1] = Closing
            /\ format \in Seq(STRING) /\ nextArg \in Nat
        BY <1>1, <1>2, <1>3, <1>4, <1>5, <1>6, <2>1, CallFacts DEF BracketAt
      <3>2. QED
        BY <3>1, MeaningOfNext DEF Rest
    <2>2. Insertion' = IF nextArg >= Len(args) THEN Meaning("IndexOutOfBounds", <<>>)
                       ELSE Preceded(<<"argument", nextArg>>,
                                     Meanings(format, Len(args))[i + 2][nextArg + 1])
      BY <1>6 DEF Insertion, Rest, input
    <2>3. ~wrapped => Rest(i) = Insertion'
      BY <2>1, <2>2
    <2>4. ~wrapped => Continues(Insertion)'
      BY <1>1, <1>6, <2>3 DEF Continues, input
    <2>5. MeaningFits'
      BY <1>1, <1>6, <2>4, CallFacts DEF MeaningFits, input
    <2>6. QED
      BY <1>6, <2>5, GoesOn
  <1>7. CASE /\ CharAt(i) \in Digits
             /\ place' = "digits" /\ index' = 0
             /\ UNCHANGED <<input, i, nextArg, wrapped, pieces>>
    <2>1. Number(format, i + 1, i) = 0
      <3>1. i + 1 \in 1 .. Len(format) + 1 /\ (i + 1) - 1 = i
        BY <1>2, CallFacts
      <3>2. QED
        BY <3>1, CallFacts, NumberEquations
    <2>2. ~wrapped => IndexSoFar(i)'
      BY <1>1, <1>4, <1>7, <2>1 DEF IndexSoFar, input, CharAt
    <2>3. ~wrapped => i \in 1 .. i /\ Continues(Rest(i))
      BY <1>1, <1>3
    <2>4. ~wrapped => (\E k \in 1 .. i : IndexSoFar(k) /\ Continues(Rest(k)))'
      BY <1>7, <2>2, <2>3 DEF Continues, Rest, input, IndexSoFar
    <2>5. MeaningFits'
      BY <1>1, <1>7, <2>4, CallFacts DEF MeaningFits, input
    <2>6. QED
      BY <1>7, <2>5, GoesOn
  <1>8. CASE CharAt(i) \notin Digits \cup {Closing} /\ Stop("IllegalArgument")
    <2>1. ~wrapped => BracketAt(format, i, i) /\ format[i + 1] # Closing
      BY <1>1, <1>2, <1>3, <1>4, <1>8, CallFacts DEF BracketAt
    <2>2. ~wrapped => Documented(format, Len(args)).error = "IllegalArgument"
      BY <1>1, <2>1, BracketIsInvalid
    <2>3. ~wrapped => FailureFits("IllegalArgument")
      BY <2>2 DEF FailureFits
    <2>4. QED
      BY <1>1, <1>8, <2>3, StopMeaning DEF Results
  <1>9. QED
    BY <1>6, <1>7, <1>8 DEF Bracket

-----------------------------------------------------------------------------
(* An index in digits.                                                      *)

(* A number that fits in an int does not overflow.                          *)
LEMMA ToIntFits ==
  ASSUME NEW n \in Nat, n < IntSpan \div 2
  PROVE  ToInt(n) = n
  <1> DEFINE half == IntSpan \div 2
  <1>1. half \in Nat /\ half + half <= IntSpan /\ IntSpan \in Nat
    BY InputsAssumption
  <1>2. n + half \in 0 .. IntSpan - 1
    BY <1>1
  <1>3. (n + half) % IntSpan = n + half
    <2> HIDE DEF half
    <2>1. \A a \in Nat, b \in Nat \ {0} : a < b => a % b = a
      OBVIOUS
    <2>2. QED
      BY <1>1, <1>2, <2>1
  <1> HIDE DEF half
  <1>4. (n + half) - half = n
    BY <1>1
  <1>5. QED
    BY <1>3, <1>4 DEF ToInt, half

\* What is known when an index is being read.
LEMMA DigitsFacts ==
  ASSUME IInv, place = "digits"
  PROVE  /\ args # <<>> /\ InFormat(i) /\ i + 1 \in 1 .. Len(format)
         /\ CharAt(i) = format[i + 1]
         /\ wrapped => Documented(format, Len(args)).error # "none"
         /\ ~wrapped => \E k \in 1 .. i : IndexSoFar(k) /\ Continues(Rest(k))
  <1>1. /\ args # <<>> /\ InFormat(i)
        /\ wrapped => Documented(format, Len(args)).error # "none"
        /\ ~wrapped => \E k \in 1 .. i : IndexSoFar(k) /\ Continues(Rest(k))
    BY CallFacts DEF MeaningFits, RoomFits
  <1>2. i + 1 \in 1 .. Len(format)
    BY <1>1, CallFacts DEF InFormat
  <1>3. QED
    BY <1>1, <1>2 DEF CharAt

(* One more digit: the number of the digits that have been read.            *)
LEMMA NextDigit ==
  ASSUME IInv, place = "digits", CharAt(i) \in Digits, NEW k \in 1 .. i, IndexSoFar(k)
  PROVE  /\ k \in 1 .. Len(format) /\ k + 1 \in 1 .. Len(format) + 1
         /\ i + 1 \in k + 1 .. Len(format)
         /\ format[k] = Opening /\ \A m \in k + 1 .. i + 1 : format[m] \in Digits
         /\ Number(format, k + 1, i + 1) = NextValue(index, DigitValue[CharAt(i)])
         /\ Number(format, k + 1, i + 1) \in Nat
  <1>1. /\ i + 1 \in 1 .. Len(format) /\ CharAt(i) = format[i + 1]
        /\ format \in Seq(STRING) /\ Len(format) \in Nat /\ i \in Nat /\ index \in Int
    BY DigitsFacts, CallFacts
  <1>2. /\ format[k] = Opening /\ \A m \in k + 1 .. i : format[m] \in Digits
        /\ index = Number(format, k + 1, i)
    BY DEF IndexSoFar
  <1>3. /\ k \in 1 .. Len(format) /\ k + 1 \in 1 .. Len(format) + 1
        /\ i + 1 \in k + 1 .. Len(format)
    BY <1>1
  <1>4. \A m \in k + 1 .. i + 1 : format[m] \in Digits
    BY <1>1, <1>2
  <1>5. Number(format, k + 1, i + 1) = 10 * index + DigitValue[CharAt(i)]
    <2>1. (i + 1) - 1 = i
      BY <1>1
    <2>2. Number(format, k + 1, i + 1)
            = 10 * Number(format, k + 1, (i + 1) - 1) + DigitValue[format[i + 1]]
      BY <1>1, <1>3, NumberEquations
    <2>3. QED
      BY <1>1, <1>2, <2>1, <2>2
  <1>6. Number(format, k + 1, i + 1) \in Nat
    <2>1. /\ i + 1 \in (k + 1) - 1 .. Len(format)
          /\ i + 1 \in (k + 1) - 1 .. i + 1
      BY <1>1, <1>3
    <2>2. QED
      BY <1>1, <1>3, <1>4, <2>1, NumberGrows
  <1>7. DigitValue[CharAt(i)] \in 0 .. 9
    BY DigitValueType
  <1>8. 10 * index + DigitValue[CharAt(i)] = NextValue(index, DigitValue[CharAt(i)])
    BY <1>1, <1>7 DEF NextValue
  <1>9. QED
    BY <1>2, <1>3, <1>4, <1>5, <1>6, <1>8

(* A digit of the index, which may overflow: the number is then larger than *)
(* the length of any array.                                                 *)
LEMMA DigitMeaning ==
  ASSUME IInv, Digit
  PROVE  MeaningInv'
  <1> DEFINE value == NextValue(index, DigitValue[CharAt(i)])
  <1>1. place = "digits" /\ CharAt(i) \in Digits
    BY DEF Digit
  <1>2. CASE ~InFormat(i + 1) /\ Stop("StringIndexOutOfBounds")
    <2>1. i + 1 = Len(format)
      BY <1>1, <1>2, DigitsFacts, CallFacts DEF InFormat
    <2>2. ASSUME ~wrapped
          PROVE  Documented(format, Len(args)).error = "IllegalArgument"
      <3>1. PICK k \in 1 .. i : IndexSoFar(k) /\ Continues(Rest(k))
        BY <1>1, <2>2, DigitsFacts
      <3>2. BracketAt(format, k, i + 1)
        <4>1. /\ k \in 1 .. Len(format) /\ i + 1 \in k + 1 .. Len(format)
              /\ format[k] = Opening /\ \A m \in k + 1 .. i + 1 : format[m] \in Digits
          BY <1>1, <3>1, NextDigit
        <4>2. QED
          BY <2>1, <4>1, CallFacts DEF BracketAt
      <3>3. QED
        BY <2>1, <3>1, <3>2, BracketIsInvalid
    <2>3. ~wrapped => FailureFits("StringIndexOutOfBounds")
      BY <2>2 DEF FailureFits
    <2>4. QED
      BY <1>1, <1>2, <2>3, StopMeaning DEF Results
  <1>3. CASE /\ InFormat(i + 1)
             /\ index' = ToInt(value) /\ wrapped' = (wrapped \/ ToInt(value) # value)
             /\ i' = i + 1
             /\ UNCHANGED <<input, place, nextArg, pieces>>
    <2>1. ASSUME ~wrapped', NEW k \in 1 .. i, IndexSoFar(k), Continues(Rest(k))
          PROVE  k \in 1 .. i' /\ IndexSoFar(k)' /\ Continues(Rest(k))'
      <3>1. /\ format[k] = Opening /\ \A m \in k + 1 .. i + 1 : format[m] \in Digits
            /\ Number(format, k + 1, i + 1) = value
        BY <1>1, <2>1, NextDigit
      <3>2. index' = value
        BY <1>3, <2>1
      <3>3. k \in 1 .. i' /\ i' # k
        BY <1>3, CallFacts
      <3>4. IndexSoFar(k)'
        BY <1>3, <3>1, <3>2, <3>3 DEF IndexSoFar, input
      <3>5. Continues(Rest(k))'
        BY <1>3, <2>1 DEF Continues, Rest, input
      <3>6. QED
        BY <3>3, <3>4, <3>5
    <2>2. ASSUME ~wrapped, wrapped'
          PROVE  Documented(format, Len(args)).error # "none"
      <3>1. PICK k \in 1 .. i : IndexSoFar(k) /\ Continues(Rest(k))
        BY <1>1, <2>2, DigitsFacts
      <3>2. /\ k \in 1 .. Len(format) /\ i + 1 \in k + 1 .. Len(format)
            /\ format[k] = Opening /\ \A m \in k + 1 .. i + 1 : format[m] \in Digits
            /\ Number(format, k + 1, i + 1) = value /\ value \in Nat
        BY <1>1, <3>1, NextDigit
      <3>3. Number(format, k + 1, i + 1) >= Len(args)
        <4>1. ToInt(value) # value
          BY <1>3, <2>2
        <4>2. ~(value < IntSpan \div 2)
          BY <3>2, <4>1, ToIntFits
        <4>3. Len(args) < IntSpan \div 2 /\ IntSpan \div 2 \in Nat
          BY CallFacts, InputsAssumption DEF TypeOK
        <4> HIDE DEF value
        <4>4. QED
          BY <3>2, <4>2, <4>3, CallFacts
      <3>4. Rest(k).error # "none"
        BY <3>2, <3>3, CallFacts, LargeIndexFails DEF Rest
      <3>5. Rest(k) \in MeaningSet
        BY <3>2, RestType
      <3>6. QED
        BY <3>1, <3>4, <3>5, ContinuesParts
    <2>3. wrapped' => Documented(format, Len(args)).error # "none"
      BY <1>1, <2>2, DigitsFacts
    <2>4. ~wrapped' => (\E k \in 1 .. i : IndexSoFar(k) /\ Continues(Rest(k)))'
      <3>1. SUFFICES ASSUME ~wrapped'
                     PROVE  (\E k \in 1 .. i : IndexSoFar(k) /\ Continues(Rest(k)))'
        OBVIOUS
      <3>2. PICK k \in 1 .. i : IndexSoFar(k) /\ Continues(Rest(k))
        BY <1>1, <1>3, <3>1, DigitsFacts
      <3>3. k \in 1 .. i' /\ IndexSoFar(k)' /\ Continues(Rest(k))'
        BY <2>1, <3>1, <3>2
      <3>4. QED
        BY <3>3
    <2>5. MeaningFits'
      BY <1>1, <1>3, <2>3, <2>4, DigitsFacts, CallFacts DEF MeaningFits, input
    <2>6. QED
      BY <1>1, <1>3, <2>5, GoesOn
  <1>4. QED
    BY <1>2, <1>3 DEF Digit

(* The end of the digits of an index.                                       *)
LEMMA EndOfDigitsMeaning ==
  ASSUME IInv, EndOfDigits
  PROVE  MeaningInv'
  <1>1. place = "digits" /\ CharAt(i) \notin Digits
    BY DEF EndOfDigits
  <1>2. ASSUME NEW k \in 1 .. i, IndexSoFar(k)
        PROVE  /\ BracketAt(format, k, i) /\ i # k /\ i # Len(format)
               /\ index = Number(format, k + 1, i) /\ index \in Nat
    <2>1. /\ format[k] = Opening /\ \A m \in k + 1 .. i : format[m] \in Digits
          /\ i = k => CharAt(i) \in Digits
          /\ index = Number(format, k + 1, i)
      BY <1>2 DEF IndexSoFar
    <2>2. /\ i + 1 \in 1 .. Len(format) /\ CharAt(i) = format[i + 1]
          /\ format \in Seq(STRING) /\ Len(format) \in Nat /\ i \in Nat
      BY <1>1, DigitsFacts, CallFacts
    <2>3. BracketAt(format, k, i) /\ i # Len(format)
      BY <1>1, <2>1, <2>2 DEF BracketAt
    <2>4. Number(format, k + 1, i) \in Nat
      <3>1. /\ k + 1 \in 1 .. Len(format) + 1
            /\ i \in (k + 1) - 1 .. Len(format) /\ i \in (k + 1) - 1 .. i
        BY <2>2
      <3>2. QED
        BY <2>1, <2>2, <3>1, NumberGrows
    <2>5. QED
      BY <1>1, <2>1, <2>3, <2>4
  <1>3. CASE CharAt(i) # Closing /\ Stop("IllegalArgument")
    <2>1. ASSUME ~wrapped
          PROVE  Documented(format, Len(args)).error = "IllegalArgument"
      <3>1. PICK k \in 1 .. i : IndexSoFar(k) /\ Continues(Rest(k))
        BY <1>1, <2>1, DigitsFacts
      <3>2. BracketAt(format, k, i) /\ format[i + 1] # Closing
        BY <1>1, <1>2, <1>3, <3>1, DigitsFacts
      <3>3. QED
        BY <3>1, <3>2, BracketIsInvalid
    <2>2. ~wrapped => FailureFits("IllegalArgument")
      BY <2>1 DEF FailureFits
    <2>3. QED
      BY <1>1, <1>3, <2>2, StopMeaning DEF Results
  <1>4. CASE /\ CharAt(i) = Closing /\ place' = "insert"
             /\ UNCHANGED <<input, i, nextArg, index, wrapped, pieces>>
    <2>1. ASSUME ~wrapped
          PROVE  index >= 0 /\ Continues(Insertion)
      <3>1. PICK k \in 1 .. i : IndexSoFar(k) /\ Continues(Rest(k))
        BY <1>1, <2>1, DigitsFacts
      <3>2. /\ BracketAt(format, k, i) /\ i # k /\ i # Len(format) /\ format[i + 1] = Closing
            /\ index = Number(format, k + 1, i) /\ index \in Nat
        BY <1>1, <1>2, <1>4, <3>1, DigitsFacts
      <3>3. format \in Seq(STRING) /\ nextArg \in Nat
        BY CallFacts
      <3>4. Rest(k) = IF Number(format, k + 1, i) >= Len(args)
                      THEN Meaning("IndexOutOfBounds", <<>>)
                      ELSE Preceded(<<"argument", Number(format, k + 1, i)>>,
                                    Meanings(format, Len(args))[i + 2][nextArg])
        BY <3>2, <3>3, MeaningOfIndex DEF Rest
      <3>5. Rest(k) = Insertion
        BY <3>2, <3>4 DEF Insertion, Rest
      <3>6. QED
        BY <3>1, <3>2, <3>5
    <2>2. ~wrapped => index' >= 0 /\ Continues(Insertion)'
      BY <1>4, <2>1 DEF Continues, Insertion, Rest, input
    <2>3. MeaningFits'
      BY <1>1, <1>4, <2>2, DigitsFacts, CallFacts DEF MeaningFits, input
    <2>4. QED
      BY <1>4, <2>3, GoesOn
  <1>5. QED
    BY <1>3, <1>4 DEF EndOfDigits

(* The insertion of an argument.                                            *)
LEMMA InsertMeaning ==
  ASSUME IInv, Insert
  PROVE  MeaningInv'
  <1>1. /\ place = "insert" /\ InFormat(i) /\ args # <<>>
        /\ ~wrapped => index >= 0 /\ Continues(Insertion)
    BY CallFacts DEF Insert, MeaningFits, RoomFits
  <1>2. CASE index < 0 /\ Stop(IF assertions THEN "AssertionError" ELSE "NegativeIndex")
    <2> DEFINE why == IF assertions THEN "AssertionError" ELSE "NegativeIndex"
    <2>1. wrapped
      BY <1>1, <1>2, CallFacts
    <2>2. why \in Results /\ why # "returned"
      BY DEF Results
    <2>3. QED
      BY <1>1, <1>2, <2>1, <2>2, StopMeaning
  <1>3. CASE index >= Len(args) /\ Stop("IndexOutOfBounds")
    <2>1. Insertion = Meaning("IndexOutOfBounds", <<>>)
      BY <1>3 DEF Insertion
    <2>2. ~wrapped => Documented(format, Len(args)).error = "IndexOutOfBounds"
      BY <1>1, <2>1, ErrorOfRest DEF Errors
    <2>3. ~wrapped => FailureFits("IndexOutOfBounds")
      BY <2>2 DEF FailureFits
    <2>4. QED
      BY <1>1, <1>3, <2>3, StopMeaning DEF Results
  <1>4. CASE /\ index >= 0 /\ index < Len(args) /\ args[index + 1] = Null
             /\ Stop(IF assertions THEN "AssertionError" ELSE "NullPointer")
    <2> DEFINE why == IF assertions THEN "AssertionError" ELSE "NullPointer"
    <2>1. index + 1 \in DOMAIN args
      <3>1. args \in Seq(Nat \cup {Null})
        BY CallFacts, InputsAssumption DEF TypeOK
      <3>2. index + 1 \in 1 .. Len(args)
        BY <1>4, CallFacts
      <3>3. QED
        BY <3>1, <3>2
    <2>2. FailureFits("AssertionError") /\ FailureFits("NullPointer")
      BY <1>4, <2>1 DEF FailureFits, NoNull
    <2>3. why \in Results /\ why # "returned" /\ FailureFits(why)
      BY <2>2 DEF Results
    <2>4. QED
      BY <1>1, <1>4, <2>3, StopMeaning
  <1>5. CASE Stop("Overrun")
    <2>1. FailureFits("Overrun")
      BY DEF FailureFits
    <2>2. QED
      BY <1>1, <1>5, <2>1, StopMeaning DEF Results
  <1>6. CASE /\ index >= 0 /\ index < Len(args)
             /\ place' = "scan" /\ pieces' = Append(pieces, <<"argument", index>>)
             /\ i' = AfterChar(i)
             /\ UNCHANGED <<input, nextArg, wrapped>>
    <2>1. <<"argument", index>> \in Pieces
      BY <1>6, CallFacts, ArgumentIsPiece
    <2>2. i + 1 \in 0 .. Len(format) /\ i' = i + 1 /\ (i + 1) + 1 = i + 2
      BY <1>1, <1>6, CallFacts DEF InFormat, AfterChar
    <2>3. Insertion = Preceded(<<"argument", index>>, Rest(i + 2))
      BY <1>6, CallFacts DEF Insertion
    <2>4. ~wrapped => Continues(Preceded(<<"argument", index>>, Rest((i + 1) + 1)))
      BY <1>1, <2>2, <2>3
    <2>5. UNCHANGED <<format, args, nextArg, wrapped>>
      BY <1>6 DEF input
    <2>6. QED
      BY <1>1, <1>6, <2>1, <2>2, <2>4, <2>5, PieceAdded
  <1>7. QED
    BY <1>2, <1>3, <1>4, <1>5, <1>6 DEF Insert

-----------------------------------------------------------------------------
(* Every step preserves the invariant.                                      *)
LEMMA StepMeaning ==
  ASSUME IInv, [Next]_vars
  PROVE  MeaningInv'
  <1>1. CASE UNCHANGED vars
    <2>1. MeaningInv
      BY DEF IInv
    <2>2. MeaningFits'
      BY <1>1, <2>1 DEF MeaningInv, MeaningFits, Continues, Rest, IndexSoFar, Insertion, CharAt,
                        vars, input
    <2>3. EndFits'
      BY <1>1, <2>1 DEF MeaningInv, EndFits, TextFits, FailureFits, NoNull, vars, input
    <2>4. QED
      BY <2>2, <2>3 DEF MeaningInv
  <1>2. QED
    BY <1>1, CallMeaning, ConvertMeaning, ValidateMeaning, FinishMeaning, LiteralMeaning,
       EscapeMeaning, OpenBracketMeaning, BracketMeaning, DigitMeaning, EndOfDigitsMeaning,
       InsertMeaning DEF Next

(* At every place of every call the pieces that have been built and the     *)
(* meaning of the rest of the format are what the documentation says of the *)
(* whole call, and the index that is being read is the number of its digits.*)
THEOREM InvariantHolds == Spec => []IInv
  <1>1. Init => IInv
    BY InitSafe, InitMeaning DEF IInv
  <1>2. IInv /\ [Next]_vars => IInv'
    <2>1. IInv => SafeInv
      BY DEF IInv
    <2>2. QED
      BY <2>1, StepSafe, StepMeaning DEF IInv
  <1>3. QED
    BY <1>1, <1>2, PTL DEF Spec

\* What the invariant says of a call that has ended and was never wrapped.
LEMMA EndFacts ==
  ASSUME IInv, place = "done", ~wrapped
  PROVE  /\ result \in Results \ {"none"}
         /\ result = "returned" => TextFits
         /\ result # "returned" => FailureFits(result)
  BY DEF IInv, SafeInv, ResultAtEnd, TypeOK, MeaningInv, EndFits

(* A call with arguments, none of them null, that returns returns the text  *)
(* that the documentation of the class gives its format, which then has no  *)
(* error, unless an index has overflowed an int.                            *)
THEOREM TextIsDocumented == Spec => []TextAsDocumented
  <1>1. IInv => TextAsDocumented
    <2>1. SUFFICES ASSUME IInv, Ended("returned"), args # <<>>, NoNull, ~wrapped
                   PROVE  Reasons = {} /\ pieces = Documented(format, Len(args)).pieces
      BY DEF TextAsDocumented
    <2>2. TextFits
      BY <2>1, EndFacts DEF Ended
    <2>3. QED
      BY <2>1, <2>2 DEF TextFits, Reasons
  <1>2. QED
    BY <1>1, InvariantHolds, PTL

(* With no more arguments than characters, none of them null, a call        *)
(* returns exactly for the formats that are documented as valid, whichever  *)
(* of the three methods it is, unless an index has overflowed an int.       *)
THEOREM ValidIsAccepted == Spec => []AcceptedAsDocumented
  <1>1. IInv => AcceptedAsDocumented
    <2>1. SUFFICES ASSUME IInv, place = "done", NoNull, ~wrapped, FewArguments
                   PROVE  result = "returned" <=> Documented(format, Len(args)).error = "none"
      BY DEF AcceptedAsDocumented
    <2>2. result # "Overrun"
      <3>1. SafeInv /\ approximateSize >= Len(format) /\ TypeOK
        BY <2>1 DEF IInv, SafeInv, RoomFits
      <3>2. QED
        BY <2>1, <3>1, InputFacts DEF SafeInv, OverrunFits, FewArguments, TypeOK
    <2>3. CASE result = "returned"
      BY <2>1, <2>3, EndFacts DEF TextFits
    <2>4. CASE result # "returned"
      BY <2>1, <2>2, <2>4, EndFacts DEF FailureFits, Results
    <2>5. QED
      BY <2>3, <2>4
  <1>2. QED
    BY <1>1, InvariantHolds, PTL

(* A call with arguments throws IllegalArgumentException and                *)
(* IndexOutOfBoundsException only where the documentation promises them,    *)
(* unless an index has overflowed an int.                                   *)
THEOREM FailuresAreDocumented == Spec => []ErrorsAsDocumented
  <1>1. IInv => ErrorsAsDocumented
    BY EndFacts DEF ErrorsAsDocumented, FailureFits
  <1>2. QED
    BY <1>1, InvariantHolds, PTL

=============================================================================
