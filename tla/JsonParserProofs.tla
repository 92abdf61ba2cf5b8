-------------------------- MODULE JsonParserProofs --------------------------
(***************************************************************************)
(* Numbers, depth and types of JsonParser.tla for any texts, digits and    *)
(* limits.                                                                 *)
(***************************************************************************)
EXTENDS JsonParser, SequenceTheorems, TLAPS

USE JsonAssumption DEF JsonAssumption

-----------------------------------------------------------------------------
(* Numbers.                                                                   *)

NumbersOK == value \in Nat /\ denom \in Nat /\ NoOverflow

\* One more decimal digit fits when less than a tenth of the limit was used.
LEMMA DigitFits ==
  ASSUME NEW v \in Nat, NEW d \in 0 .. 9, ~(v > LLONG_MAX \div 10 - 1)
  PROVE  v * 10 + d \in Nat /\ v * 10 + d <= LLONG_MAX
<1>1. 10 * (LLONG_MAX \div 10) <= LLONG_MAX
  BY SMT
<1>2. v + 1 <= LLONG_MAX \div 10
  BY SMT
<1> QED
  BY <1>1, <1>2, SMT

\* A denominator that is at most a tenth of its limit can be multiplied.
LEMMA PlaceFits ==
  ASSUME NEW n \in Nat, ~(n > ULLONG_MAX \div 10)
  PROVE  n * 10 \in Nat /\ n * 10 <= ULLONG_MAX
<1>1. 10 * (ULLONG_MAX \div 10) <= ULLONG_MAX
  BY SMT
<1> QED
  BY <1>1, SMT

\* Only digits change a number, and only when they fit.
LEMMA NumbersStep ==
  ASSUME NumbersOK, [Next]_vars
  PROVE  NumbersOK'
<1>1. CASE BeginNumber
  BY <1>1 DEF BeginNumber, NumbersOK, NoOverflow
<1>2. CASE ReadDigit
  <2>1. DigitValue[Char] \in 0 .. 9
    BY <1>2 DEF ReadDigit
  <2>2. value' = value * 10 + DigitValue[Char] /\ denom' = denom
    BY <1>2 DEF ReadDigit
  <2>3. value' \in Nat /\ value' <= LLONG_MAX
    BY <1>2, <2>1, <2>2, DigitFits DEF ReadDigit, ValueFull, NumbersOK
  <2> QED
    BY <2>2, <2>3 DEF NumbersOK, NoOverflow
<1>3. CASE ReadFractionDigit
  <2>1. DigitValue[Char] \in 0 .. 9
    BY <1>3 DEF ReadFractionDigit
  <2>2. value' = value * 10 + DigitValue[Char] /\ denom' = denom * 10
    BY <1>3 DEF ReadFractionDigit
  <2>3. value' \in Nat /\ value' <= LLONG_MAX
    BY <1>3, <2>1, <2>2, DigitFits DEF ReadFractionDigit, ValueFull, NumbersOK
  <2>4. denom' \in Nat /\ denom' <= ULLONG_MAX
    BY <1>3, <2>2, PlaceFits DEF ReadFractionDigit, DenomFull, NumbersOK
  <2> QED
    BY <2>3, <2>4 DEF NumbersOK, NoOverflow
<1>4. CASE UNCHANGED <<value, denom>>
  BY <1>4 DEF NumbersOK, NoOverflow
<1>5. BeginNumber \/ ReadDigit \/ ReadFractionDigit \/ UNCHANGED <<value, denom>>
  BY DEF Next, vars, Strings, Numbers, Containers, SkipSpace, ValueRefused, Literal,
         BeginString, BeginKey, KeyRefused, ReadCharacter, ReadBackslash, ReadEscaped,
         StringRefused, EndString, EndKey, Colon, ColonRefused, ReadPoint,
         NumberRefused, EndNumber, BeginArray, BeginObject, EmptyArray, EmptyObject,
         FirstElement, FirstMember, FirstRefused, Comma, Close, AfterRefused,
         EndOfText, TrailingRefused, Returned, Refuse, Keep
<1> QED
  BY <1>1, <1>2, <1>3, <1>4, <1>5

\* However many digits a number has, it is refused before int64 or uint64 overflow.
THEOREM NumbersFit == Spec => []NoOverflow
<1>1. Init => NumbersOK
  BY DEF Init, NumbersOK, NoOverflow
<1>2. NumbersOK => NoOverflow
  BY DEF NumbersOK
<1> QED
  BY <1>1, <1>2, NumbersStep, PTL DEF Spec
-----------------------------------------------------------------------------
(* Depth.                                                                     *)

\* At these places something is open.
Inside == {"member", "key", "key escape", "colon", "after"}

DepthOK ==
    /\ \E S : stack \in Seq(S)
    /\ DepthCounted
    /\ place \in Inside => stack # <<>>

\* Changing the innermost of what is open changes nothing of how much is open.
LEMMA Replaced ==
  ASSUME NEW S, NEW s \in Seq(S), s # <<>>, NEW e
  PROVE  LET t == [s EXCEPT ![Len(s)] = e]
         IN  t \in Seq(S \cup {e}) /\ Len(t) = Len(s) /\ t # <<>>
<1> DEFINE t == [s EXCEPT ![Len(s)] = e]
<1>1. s \in [1 .. Len(s) -> S] /\ Len(s) \in Nat \ {0}
  BY LenProperties, EmptySeq
<1>2. t \in [1 .. Len(s) -> S \cup {e}]
  BY <1>1
<1>3. t \in Seq(S \cup {e}) /\ Len(t) = Len(s)
  BY <1>1, <1>2, LenProperties
<1> QED
  BY <1>1, <1>3, EmptySeq

\* Without its innermost, what is open is one less.
LEMMA Popped ==
  ASSUME NEW S, NEW s \in Seq(S), s # <<>>
  PROVE  /\ SubSeq(s, 1, Len(s) - 1) \in Seq(S)
         /\ Len(SubSeq(s, 1, Len(s) - 1)) = Len(s) - 1
<1> DEFINE n == Len(s) - 1
           t == SubSeq(s, 1, n)
<1>1. Len(s) \in Nat \ {0}
  BY EmptySeq
<1>2. n \in Nat /\ 1 .. n \subseteq 1 .. Len(s)
  BY <1>1
<1>3. \A i \in 1 .. n : s[i] \in S
  BY <1>2, LenProperties
<1> HIDE DEF n
<1>4. t \in Seq(S) /\ Len(t) = IF 1 <= n THEN n - 1 + 1 ELSE 0
  BY <1>2, <1>3, SubSeqProperties
<1> HIDE DEF t
<1>5. Len(t) = n
  BY <1>2, <1>4
<1> QED
  BY <1>4, <1>5 DEF n, t

\* A value that is delivered leaves open what was open.
LEMMA Delivered ==
  ASSUME NEW S, NEW open \in Seq(S), NEW v, DeliverTo(open, v)
  PROVE  /\ \E R : stack' \in Seq(R)
         /\ Len(stack') = Len(open)
         /\ place' \in Inside => stack' # <<>>
<1>1. CASE open = <<>>
  BY <1>1, EmptySeq DEF DeliverTo, Inside
<1>2. CASE open # <<>>
  <2> DEFINE e == [open[Len(open)] EXCEPT !.elements = Append(@, v)]
  <2>1. stack' = [open EXCEPT ![Len(open)] = e]
    BY <1>2 DEF DeliverTo
  <2> HIDE DEF e
  <2> QED
    BY <1>2, <2>1, Replaced
<1> QED
  BY <1>1, <1>2

\* A step that delivers a value and leaves the depth keeps it right.
LEMMA DeliveredStep ==
  ASSUME DepthOK, NEW v, Deliver(v), UNCHANGED depth
  PROVE  DepthOK'
<1>1. PICK S : stack \in Seq(S)
  BY DEF DepthOK
<1>2. /\ \E R : stack' \in Seq(R)
      /\ Len(stack') = Len(stack)
      /\ place' \in Inside => stack' # <<>>
  BY <1>1, Delivered DEF Deliver
<1> QED
  BY <1>2 DEF DepthOK, DepthCounted

\* The depth counts what is pushed and popped.
LEMMA DepthStep ==
  ASSUME DepthOK, [Next]_vars
  PROVE  DepthOK'
<1> DEFINE Rests == /\ UNCHANGED <<stack, depth>>
                    /\ place' \in Inside => place \in Inside
<1>1. CASE Rests
  BY <1>1 DEF DepthOK, DepthCounted
<1>2. CASE Literal \/ EndString \/ EndNumber \/ EmptyArray \/ EmptyObject
  BY <1>2, DeliveredStep
     DEF Literal, EndString, EndNumber, EmptyArray, EmptyObject
<1>3. CASE EndKey
  <2>1. PICK S : stack \in Seq(S)
    BY DEF DepthOK
  <2> DEFINE e == [stack[Len(stack)] EXCEPT !.keys = Append(@, chars)]
  <2>2. stack # <<>>
    BY <1>3 DEF EndKey, Moves, DepthOK, Inside
  <2>3. stack' = [stack EXCEPT ![Len(stack)] = e] /\ UNCHANGED depth
    BY <1>3 DEF EndKey
  <2> HIDE DEF e
  <2>4. stack' \in Seq(S \cup {e}) /\ Len(stack') = Len(stack) /\ stack' # <<>>
    BY <2>1, <2>2, <2>3, Replaced
  <2> QED
    BY <2>3, <2>4 DEF DepthOK, DepthCounted
<1>4. CASE FirstElement \/ FirstMember
  <2>1. PICK S : stack \in Seq(S)
    BY DEF DepthOK
  <2>2. PICK e : stack' = Append(stack, e)
    BY <1>4 DEF FirstElement, FirstMember
  <2>3. stack' \in Seq(S \cup {e}) /\ Len(stack') = Len(stack) + 1
    <3>1. stack \in Seq(S \cup {e})
      BY <2>1
    <3> QED
      BY <2>2, <3>1, AppendProperties
  <2>4. depth' = depth + 1 /\ ~(depth >= MAX_RECURSION_DEPTH)
    BY <1>4 DEF FirstElement, FirstMember, DepthReached
  <2>5. depth = Len(stack) /\ Len(stack) \in Nat
    BY <2>1, LenProperties DEF DepthOK, DepthCounted
  <2>6. stack' # <<>>
    BY <2>3, <2>5
  <2> QED
    BY <2>3, <2>4, <2>5, <2>6 DEF DepthOK, DepthCounted
<1>5. CASE Close
  <2>1. PICK S : stack \in Seq(S)
    BY DEF DepthOK
  <2> DEFINE open == SubSeq(stack, 1, Len(stack) - 1)
  <2>2. stack # <<>> /\ depth = Len(stack) /\ depth <= MAX_RECURSION_DEPTH
    BY <1>5 DEF Close, DepthOK, DepthCounted, Inside
  <2>3. Len(stack) \in Nat \ {0}
    BY <2>1, <2>2, LenProperties, EmptySeq
  <2>4. open \in Seq(S) /\ Len(open) = Len(stack) - 1
    BY <2>1, <2>2, Popped
  <2>5. DeliverTo(open, Innermost) /\ depth' = depth - 1
    BY <1>5 DEF Close
  <2> HIDE DEF open
  <2>6. /\ \E R : stack' \in Seq(R)
        /\ Len(stack') = Len(open)
        /\ place' \in Inside => stack' # <<>>
    BY <2>4, <2>5, Delivered
  <2> QED
    BY <2>2, <2>3, <2>4, <2>5, <2>6 DEF DepthOK, DepthCounted
<1>6. CASE SkipSpace \/ ValueRefused \/ EndOfText \/ TrailingRefused \/ Returned
           \/ UNCHANGED vars
  BY <1>1, <1>6 DEF SkipSpace, ValueRefused, EndOfText, TrailingRefused, Returned,
                    vars, Moves, Refuse, Inside
<1>7. CASE BeginString \/ BeginKey \/ KeyRefused \/ ReadCharacter \/ ReadBackslash
           \/ ReadEscaped \/ StringRefused \/ Colon \/ ColonRefused
  BY <1>1, <1>7 DEF BeginString, BeginKey, KeyRefused, ReadCharacter, ReadBackslash,
                    ReadEscaped, StringRefused, Colon, ColonRefused, Moves, Refuse,
                    Inside
<1>8. CASE BeginNumber \/ ReadDigit \/ ReadPoint \/ ReadFractionDigit \/ NumberRefused
  BY <1>1, <1>8 DEF BeginNumber, ReadDigit, ReadPoint, ReadFractionDigit,
                    NumberRefused, Moves, Refuse, Inside
<1>9. CASE BeginArray \/ BeginObject \/ FirstRefused \/ Comma \/ AfterRefused
  BY <1>1, <1>9 DEF BeginArray, BeginObject, FirstRefused, Comma, AfterRefused, Moves,
                    Refuse, Inside
<1> QED
  BY <1>2, <1>3, <1>4, <1>5, <1>6, <1>7, <1>8, <1>9
     DEF Next, Strings, Numbers, Containers

\* At the start nothing is open.
LEMMA InitDepth == Init => DepthOK
<1> SUFFICES ASSUME Init PROVE DepthOK
  OBVIOUS
<1>1. stack \in Seq({}) /\ Len(stack) = 0
  BY EmptySeq DEF Init
<1> QED
  BY <1>1 DEF Init, DepthOK, DepthCounted, Inside

\* The recursion is as deep as what is open, for any text, and no deeper than the
\* limit.
THEOREM DepthIsCounted == Spec => []DepthCounted
<1>1. Init => DepthOK
  BY InitDepth
<1>2. DepthOK => DepthCounted
  BY DEF DepthOK
<1> QED
  BY <1>1, <1>2, DepthStep, PTL DEF Spec
-----------------------------------------------------------------------------
(* Types.  A value fits the array it goes into because what starts it was     *)
(* tested against the type of the array; what is open inside an array is of   *)
(* that type as well, for it will be an element of it.                        *)

CursorOK ==
    /\ text \in Seq(Characters) /\ cur_pos \in 1 .. Len(text) + 1
    /\ place \in Places
    /\ negative \in BOOLEAN

\* What is open, with keys and elements from S.
Open(S) == [type : {"ARRAY", "OBJECT"}, num : {0}, denom : {1}, chars : {<<>>},
            itemType : Types, keys : Seq(S), elements : Seq(S)]

Typed(open) ==
    \A i \in 1 .. Len(open) : open[i].type = "ARRAY" =>
        /\ open[i].itemType # "NULL"
        /\ \A j \in 1 .. Len(open[i].elements) :
               open[i].elements[j].type = open[i].itemType

Nested(open) ==
    \A i \in 1 .. Len(open) - 1 :
        open[i].type = "ARRAY" => open[i + 1].type = open[i].itemType

\* The innermost lacks as many values for its keys as are pending.
Counted(open, pending) ==
    \A i \in 1 .. Len(open) : open[i].type = "OBJECT" =>
        Len(open[i].keys) = Len(open[i].elements)
                            + IF i < Len(open) THEN 1 ELSE pending

Pending == IF place \in {"member", "key", "key escape", "after", "bad"} THEN 0 ELSE 1

StackOK ==
    /\ \E S : stack \in Seq(Open(S))
    /\ Typed(stack) /\ Nested(stack)
    /\ place # "bad" => Counted(stack, Pending)
    /\ place \in Inside => stack # <<>>
    /\ place \in {"end", "ok"} => stack = <<>>

\* What was begun is of the type that is wanted.
WantedOK ==
    /\ place \in {"string", "escape"} => Wanted \in {"ANY", "STRING"}
    /\ place \in {"sign", "digits", "point", "fraction"} => Wanted \in {"ANY", "INT", "FRAC"}
    /\ place = "first" => Wanted \in {"ANY", "ARRAY"}
    /\ place = "members" => Wanted \in {"ANY", "OBJECT"}

TypesInv == CursorOK /\ StackOK /\ WantedOK

\* No step goes past the NUL.
LEMMA CursorStep ==
  ASSUME CursorOK, [Next]_vars
  PROVE  CursorOK'
<1> DEFINE Stays == UNCHANGED <<text, cur_pos>>
           Goes == text' = text /\ cur_pos' = cur_pos + 1 /\ Char # NUL
<1>1. Stays \/ Goes
  BY DEF Next, vars, Strings, Numbers, Containers, SkipSpace, ValueRefused, Literal,
         BeginString, BeginKey, KeyRefused, ReadCharacter, ReadBackslash, ReadEscaped,
         StringRefused, EndString, EndKey, Colon, ColonRefused, BeginNumber, ReadDigit,
         ReadPoint, ReadFractionDigit, NumberRefused, EndNumber, BeginArray,
         BeginObject, EmptyArray, EmptyObject, FirstElement, FirstMember,
         FirstRefused, Comma, Close, Closing, AfterRefused, EndOfText,
         TrailingRefused, Returned, Refuse, Keep, Advance, NUL, Quote, Escape, Literals
<1>2. ASSUME Goes PROVE cur_pos <= Len(text)
  BY <1>2 DEF Char, At, CursorOK
<1>3. text' \in Seq(Characters) /\ cur_pos' \in 1 .. Len(text') + 1
  <2>1. Len(text) \in Nat
    BY LenProperties DEF CursorOK
  <2> QED
    BY <1>1, <1>2, <2>1 DEF CursorOK
<1>4. place' \in Places
  BY DEF CursorOK, Places,
         Next, vars, Strings, Numbers, Containers, SkipSpace, ValueRefused, Literal,
         BeginString, BeginKey, KeyRefused, ReadCharacter, ReadBackslash, ReadEscaped,
         StringRefused, EndString, EndKey, Colon, ColonRefused, BeginNumber, ReadDigit,
         ReadPoint, ReadFractionDigit, NumberRefused, EndNumber, BeginArray,
         BeginObject, EmptyArray, EmptyObject, FirstElement, FirstMember,
         FirstRefused, Comma, Close, AfterRefused, EndOfText,
         TrailingRefused, Returned, Refuse, Keep, Moves, Deliver, DeliverTo
<1>5. negative' \in BOOLEAN
  BY DEF CursorOK,
         Next, vars, Strings, Numbers, Containers, SkipSpace, ValueRefused, Literal,
         BeginString, BeginKey, KeyRefused, ReadCharacter, ReadBackslash, ReadEscaped,
         StringRefused, EndString, EndKey, Colon, ColonRefused, BeginNumber, ReadDigit,
         ReadPoint, ReadFractionDigit, NumberRefused, EndNumber, BeginArray,
         BeginObject, EmptyArray, EmptyObject, FirstElement, FirstMember,
         FirstRefused, Comma, Close, AfterRefused, EndOfText,
         TrailingRefused, Returned, Refuse, Keep
<1> QED
  BY <1>3, <1>4, <1>5 DEF CursorOK

\* What a value of a type starts with tells the type.
LEMMA StartsTell ==
  ASSUME NEW w \in (Types \ {"NULL"}) \cup {"ANY"}, NEW c \in Starts(w)
  PROVE  /\ c = Quote => w \in {"ANY", "STRING"}
         /\ c = "[" => w \in {"ANY", "ARRAY"}
         /\ c = "{" => w \in {"ANY", "OBJECT"}
         /\ c \in {"true", "false"} => w \in {"ANY", "BOOL"}
         /\ c = "null" => w = "ANY"
         /\ c \in {"-"} \cup Digits => w \in {"ANY", "INT", "FRAC"}
  BY DEF Starts, Types, Marks, Literals, Quote, Escape, NUL

\* What is wanted is a type, or any.
LEMMA WantedType ==
  ASSUME StackOK
  PROVE  Wanted \in (Types \ {"NULL"}) \cup {"ANY"}
<1>1. PICK S : stack \in Seq(Open(S))
  BY DEF StackOK
<1>2. CASE stack = <<>>
  BY <1>2 DEF Wanted
<1>3. CASE stack # <<>>
  <2>1. Len(stack) \in 1 .. Len(stack)
    BY <1>1, <1>3, EmptySeq, LenProperties
  <2>2. stack[Len(stack)] \in Open(S)
    BY <1>1, <2>1, LenProperties
  <2>3. /\ Innermost.type \in {"ARRAY", "OBJECT"} /\ Innermost.itemType \in Types
        /\ Innermost.type = "ARRAY" => Innermost.itemType # "NULL"
    BY <2>1, <2>2 DEF Innermost, Open, StackOK, Typed
  <2> QED
    BY <2>3 DEF Wanted
<1> QED
  BY <1>2, <1>3

\* A function on 1 .. n is a sequence.
LEMMA SequenceOf ==
  ASSUME NEW T, NEW n \in Nat, NEW s \in [1 .. n -> T]
  PROVE  s \in Seq(T) /\ Len(s) = n
  BY LenProperties

\* A value that fits what it goes into leaves everything open typed.
LEMMA DeliveredTyped ==
  ASSUME NEW S, NEW open \in Seq(Open(S)), NEW v,
         Typed(open), Nested(open), Counted(open, 1),
         open # <<>> /\ open[Len(open)].type = "ARRAY" =>
             v.type = open[Len(open)].itemType,
         DeliverTo(open, v)
  PROVE  StackOK' /\ WantedOK'
<1>1. CASE open = <<>>
  <2>1. stack' = <<>> /\ place' = "end"
    BY <1>1 DEF DeliverTo
  <2>2. stack' \in Seq(Open({})) /\ Len(stack') = 0
    BY <2>1, EmptySeq
  <2> QED
    BY <2>1, <2>2 DEF StackOK, Typed, Nested, Counted, WantedOK, Inside
<1>2. CASE open # <<>>
  <2> DEFINE n == Len(open)
             T == S \cup {v}
             e == [open[n] EXCEPT !.elements = Append(@, v)]
  <2>1. stack' = [open EXCEPT ![n] = e] /\ place' = "after"
    BY <1>2 DEF DeliverTo
  <2>2. n \in Nat \ {0} /\ open \in [1 .. n -> Open(S)]
    BY <1>2, EmptySeq, LenProperties
  <2>3. open[n] \in Open(S)
    BY <2>2
  <2>4. /\ open[n].elements \in Seq(S) /\ open[n].keys \in Seq(S)
        /\ open[n].elements \in Seq(T) /\ open[n].keys \in Seq(T)
    BY <2>3 DEF Open
  <2>5. /\ e.elements = Append(open[n].elements, v)
        /\ e.type = open[n].type /\ e.itemType = open[n].itemType
        /\ e.keys = open[n].keys
        /\ e \in Open(T)
    <3>1. Append(open[n].elements, v) \in Seq(T)
      BY <2>4, AppendProperties
    <3> QED
      BY <2>3, <2>4, <3>1 DEF Open
  <2>6. /\ Len(e.elements) = Len(open[n].elements) + 1
        /\ Len(open[n].elements) \in Nat
        /\ e.elements[Len(open[n].elements) + 1] = v
        /\ \A j \in 1 .. Len(open[n].elements) : e.elements[j] = open[n].elements[j]
    BY <2>4, <2>5, AppendProperties, LenProperties
  <2> HIDE DEF e, n
  <2>7. \A o \in Open(S) : o \in Open(T)
    <3> SUFFICES ASSUME NEW o \in Open(S) PROVE o \in Open(T)
      OBVIOUS
    <3>1. o.keys \in Seq(T) /\ o.elements \in Seq(T)
      BY DEF Open
    <3> QED
      BY <3>1 DEF Open
  <2>8. stack' \in [1 .. n -> Open(T)]
    BY <2>1, <2>2, <2>5, <2>7
  <2>9. stack' \in Seq(Open(T)) /\ Len(stack') = n /\ stack' # <<>>
    <3>1. stack' \in Seq(Open(T)) /\ Len(stack') = n
      BY <2>2, <2>8, SequenceOf
    <3> QED
      BY <2>2, <3>1, EmptySeq
  <2>10. stack'[n] = e /\ \A i \in 1 .. n : i # n => stack'[i] = open[i]
    BY <2>1, <2>2
  <2>11. n = Len(open)
    BY DEF n
  <2>12. Typed(stack')
    <3>1. ASSUME NEW i \in 1 .. n, stack'[i].type = "ARRAY", i # n
          PROVE  /\ stack'[i].itemType # "NULL"
                 /\ \A j \in 1 .. Len(stack'[i].elements) :
                       stack'[i].elements[j].type = stack'[i].itemType
      BY <2>10, <2>11, <3>1 DEF Typed
    <3>2. ASSUME e.type = "ARRAY"
          PROVE  /\ e.itemType # "NULL"
                 /\ \A j \in 1 .. Len(e.elements) : e.elements[j].type = e.itemType
      <4>1. n \in 1 .. Len(open) /\ open[n].type = "ARRAY"
        BY <2>2, <2>5, <2>11, <3>2
      <4>2. /\ open[n].itemType # "NULL"
            /\ \A j \in 1 .. Len(open[n].elements) :
                  open[n].elements[j].type = open[n].itemType
        BY <4>1 DEF Typed
      <4>3. v.type = open[n].itemType
        BY <1>2, <2>11, <4>1
      <4>4. ASSUME NEW j \in 1 .. Len(e.elements) PROVE e.elements[j].type = e.itemType
        <5>1. j \in 1 .. Len(open[n].elements) \/ j = Len(open[n].elements) + 1
          BY <2>6
        <5> QED
          BY <2>5, <2>6, <4>2, <4>3, <5>1
      <4> QED
        BY <2>5, <4>2, <4>4
    <3> QED
      BY <2>9, <2>10, <3>1, <3>2 DEF Typed
  <2>13. Nested(stack')
    <3> SUFFICES ASSUME NEW i \in 1 .. n - 1, stack'[i].type = "ARRAY"
                 PROVE  stack'[i + 1].type = stack'[i].itemType
      BY <2>9 DEF Nested
    <3>1. i \in 1 .. n /\ i # n /\ i + 1 \in 1 .. n
      BY <2>2
    <3>2. stack'[i] = open[i] /\ stack'[i + 1].type = open[i + 1].type
      BY <2>5, <2>10, <3>1
    <3> QED
      BY <2>11, <3>2 DEF Nested
  <2>14. Counted(stack', 0)
    <3> SUFFICES ASSUME NEW i \in 1 .. n, stack'[i].type = "OBJECT"
                 PROVE  Len(stack'[i].keys) = Len(stack'[i].elements)
                                              + IF i < n THEN 1 ELSE 0
      BY <2>9 DEF Counted
    <3>1. CASE i = n
      <4>1. n \in 1 .. Len(open) /\ ~(n < Len(open)) /\ open[n].type = "OBJECT"
        <5>1. n \in 1 .. Len(open) /\ ~(n < Len(open))
          BY <2>2, <2>11
        <5>2. stack'[i] = e
          BY <2>10, <3>1
        <5> QED
          BY <2>5, <5>1, <5>2
      <4>2. Len(open[n].keys) = Len(open[n].elements) + 1
        BY <4>1 DEF Counted
      <4>3. Len(e.keys) = Len(e.elements) /\ Len(e.keys) \in Nat
        BY <2>5, <2>6, <4>2
      <4>4. stack'[i] = e /\ ~(i < n)
        BY <2>2, <2>10, <3>1
      <4> QED
        BY <4>3, <4>4, <2>6, <2>5, <4>2
    <3>2. CASE i # n
      <4>1. stack'[i] = open[i] /\ i \in 1 .. Len(open) /\ i < n /\ i < Len(open)
        <5>1. i < n
          BY ONLY <2>2, <3>2, i \in 1 .. n
        <5>2. stack'[i] = open[i]
          BY <2>10, <3>2
        <5> QED
          BY <2>11, <5>1, <5>2
      <4>2. Len(open[i].keys) = Len(open[i].elements) + 1
        BY <4>1 DEF Counted
      <4> QED
        BY <4>1, <4>2
    <3> QED
      BY <3>1, <3>2
  <2>15. WantedOK'
    BY <2>1 DEF WantedOK
  <2> QED
    BY <2>1, <2>9, <2>12, <2>13, <2>14, <2>15 DEF StackOK, Pending
<1> QED
  BY <1>1, <1>2

\* The same of what is open now.
LEMMA DeliveredHere ==
  ASSUME StackOK, NEW v, Deliver(v), place # "bad", Pending = 1,
         Wanted \in {"ANY", v.type}
  PROVE  StackOK' /\ WantedOK'
<1>1. PICK S : stack \in Seq(Open(S))
  BY DEF StackOK
<1>2. ASSUME stack # <<>>, Innermost.type = "ARRAY" PROVE v.type = Innermost.itemType
  <2>1. Wanted = Innermost.itemType
    BY <1>2 DEF Wanted
  <2>2. Len(stack) \in 1 .. Len(stack)
    BY <1>1, <1>2, EmptySeq, LenProperties
  <2>3. stack[Len(stack)] \in Open(S)
    BY <1>1, <2>2, LenProperties
  <2>4. Innermost.itemType # "ANY"
    BY <2>3 DEF Innermost, Open, Types
  <2> QED
    BY <2>1, <2>4
<1>3. Counted(stack, 1)
  BY DEF StackOK
<1> QED
  BY <1>1, <1>2, <1>3, DeliveredTyped DEF StackOK, Deliver, Innermost

\* A container is opened inside one that wants it.
LEMMA PushedTyped ==
  ASSUME NEW S, stack \in Seq(Open(S)), Typed(stack), Nested(stack), Counted(stack, 1),
         NEW e \in Open(S), e.keys = <<>>, e.elements = <<>>,
         e.type = "ARRAY" => e.itemType # "NULL",
         Wanted \in {"ANY", e.type},
         stack' = Append(stack, e)
  PROVE  /\ stack' \in Seq(Open(S)) /\ stack' # <<>>
         /\ Typed(stack') /\ Nested(stack')
         /\ e.type = "OBJECT" => Counted(stack', 0)
         /\ e.type = "ARRAY" => Counted(stack', 1)
<1> DEFINE n == Len(stack)
<1>0. n \in Nat
  BY LenProperties
<1>1. n \in Nat /\ stack \in [1 .. n -> Open(S)]
  BY LenProperties
<1>2. /\ stack' \in Seq(Open(S)) /\ Len(stack') = n + 1
      /\ stack'[n + 1] = e
      /\ \A i \in 1 .. n : stack'[i] = stack[i]
  BY AppendProperties
<1>3. stack' # <<>>
  BY <1>1, <1>2, EmptySeq
<1>4. Len(e.keys) = 0 /\ Len(e.elements) = 0
  BY EmptySeq
<1>5. ASSUME n > 0, stack[n].type = "ARRAY" PROVE e.type = stack[n].itemType
  <2>1. stack # <<>> /\ stack[n] \in Open(S)
    BY <1>1, <1>5, EmptySeq
  <2>2. Wanted = stack[n].itemType /\ stack[n].itemType # "ANY"
    BY <1>5, <2>1 DEF Wanted, Innermost, Open, Types
  <2> QED
    BY <2>2
<1>6. Typed(stack')
  <2> SUFFICES ASSUME NEW i \in 1 .. n + 1, stack'[i].type = "ARRAY"
               PROVE  /\ stack'[i].itemType # "NULL"
                      /\ \A j \in 1 .. Len(stack'[i].elements) :
                            stack'[i].elements[j].type = stack'[i].itemType
    BY <1>2 DEF Typed
  <2>1. CASE i = n + 1
    BY <1>2, <1>4, <2>1
  <2>2. CASE i # n + 1
    <3>1. i \in 1 .. n
      BY ONLY <1>0, <2>2, i \in 1 .. n + 1
    <3>2. stack'[i] = stack[i]
      BY <1>2, <3>1
    <3> QED
      BY <3>1, <3>2 DEF Typed
  <2> QED
    BY <2>1, <2>2
<1>7. Nested(stack')
  <2> SUFFICES ASSUME NEW i \in 1 .. n, stack'[i].type = "ARRAY"
               PROVE  stack'[i + 1].type = stack'[i].itemType
    <3>1. (n + 1) - 1 = n
      BY ONLY <1>0
    <3> QED
      BY <1>2, <3>1 DEF Nested
  <2>1. stack'[i] = stack[i]
    BY <1>2
  <2>2. CASE i = n
    <3>1. n > 0
      BY ONLY <1>0, <2>2, i \in 1 .. n
    <3> QED
      BY <1>2, <1>5, <2>1, <2>2, <3>1
  <2>3. CASE i # n
    <3>1. i \in 1 .. n - 1 /\ i + 1 \in 1 .. n
      BY ONLY <1>0, <2>3, i \in 1 .. n
    <3>2. stack'[i + 1] = stack[i + 1]
      BY <1>2, <3>1
    <3> QED
      BY <2>1, <3>1, <3>2 DEF Nested
  <2> QED
    BY <2>2, <2>3
<1>8. ASSUME NEW p, NEW i \in 1 .. n + 1, stack'[i].type = "OBJECT",
             i # n + 1 \/ p = 0
      PROVE  Len(stack'[i].keys) = Len(stack'[i].elements) + IF i < n + 1 THEN 1 ELSE p
  <2>1. CASE i = n + 1
    <3>1. ~(i < n + 1)
      BY ONLY <1>0, <2>1
    <3> QED
      BY <1>2, <1>4, <1>8, <2>1, <3>1
  <2>2. CASE i # n + 1
    <3>1. i \in 1 .. n /\ i < n + 1
      BY ONLY <1>0, <2>2, i \in 1 .. n + 1
    <3>2. stack'[i] = stack[i]
      BY <1>2, <3>1
    <3>3. Len(stack[i].keys) = Len(stack[i].elements) + 1
      BY <1>8, <3>1, <3>2 DEF Counted
    <3> QED
      BY <3>1, <3>2, <3>3
  <2> QED
    BY <2>1, <2>2
<1>9. Counted(stack', 0)
  BY <1>2, <1>8 DEF Counted
<1>10. ASSUME e.type = "ARRAY" PROVE Counted(stack', 1)
  <2> SUFFICES ASSUME NEW i \in 1 .. n + 1, stack'[i].type = "OBJECT"
               PROVE  Len(stack'[i].keys) = Len(stack'[i].elements)
                                            + IF i < n + 1 THEN 1 ELSE 1
    BY <1>2 DEF Counted
  <2>1. i # n + 1
    BY <1>2, <1>10
  <2> QED
    BY <1>8, <2>1
<1> QED
  BY <1>2, <1>3, <1>6, <1>7, <1>9, <1>10

\* The end of a key makes its value pending.
LEMMA KeyTyped ==
  ASSUME StackOK, EndKey
  PROVE  StackOK' /\ WantedOK'
<1>1. PICK S : stack \in Seq(Open(S))
  BY DEF StackOK
<1> DEFINE n == Len(stack)
           T == S \cup {chars}
           e == [stack[n] EXCEPT !.keys = Append(@, chars)]
<1>2. /\ stack' = [stack EXCEPT ![n] = e]
      /\ place = "key" /\ place' = "colon"
  BY DEF EndKey, Moves
<1>3. stack # <<>> /\ Typed(stack) /\ Nested(stack) /\ Counted(stack, 0)
  BY <1>2 DEF StackOK, Inside, Pending
<1>4. n \in Nat \ {0} /\ stack \in [1 .. n -> Open(S)] /\ stack[n] \in Open(S)
  BY <1>1, <1>3, EmptySeq, LenProperties
<1>0. n \in Nat \ {0}
  BY <1>4
<1>5. /\ stack[n].elements \in Seq(S) /\ stack[n].keys \in Seq(S)
      /\ stack[n].elements \in Seq(T) /\ stack[n].keys \in Seq(T)
  BY <1>4 DEF Open
<1>6. /\ e.keys = Append(stack[n].keys, chars)
      /\ e.type = stack[n].type /\ e.itemType = stack[n].itemType
      /\ e.elements = stack[n].elements
      /\ e \in Open(T)
  <2>1. Append(stack[n].keys, chars) \in Seq(T)
    BY <1>5, AppendProperties
  <2> QED
    BY <1>4, <1>5, <2>1 DEF Open
<1>7. /\ Len(e.keys) = Len(stack[n].keys) + 1
      /\ Len(stack[n].keys) \in Nat
  BY <1>5, <1>6, AppendProperties, LenProperties
<1> HIDE DEF e
<1>8. \A o \in Open(S) : o \in Open(T)
  <2> SUFFICES ASSUME NEW o \in Open(S) PROVE o \in Open(T)
    OBVIOUS
  <2>1. o.keys \in Seq(T) /\ o.elements \in Seq(T)
    BY DEF Open
  <2> QED
    BY <2>1 DEF Open
<1>9. stack' \in Seq(Open(T)) /\ Len(stack') = n /\ stack' # <<>>
  <2>1. stack' \in [1 .. n -> Open(T)]
    BY <1>2, <1>4, <1>6, <1>8
  <2>2. stack' \in Seq(Open(T)) /\ Len(stack') = n
    BY <1>4, <2>1, SequenceOf
  <2> QED
    BY <1>4, <2>2, EmptySeq
<1>10. stack'[n] = e /\ \A i \in 1 .. n : i # n => stack'[i] = stack[i]
  <2>1. n \in 1 .. n
    BY ONLY <1>0
  <2> QED
    BY <1>2, <1>4, <2>1, Zenon
<1>11. \A i \in 1 .. n : /\ stack'[i].type = stack[i].type
                         /\ stack'[i].itemType = stack[i].itemType
                         /\ stack'[i].elements = stack[i].elements
  BY <1>6, <1>10
<1>12. Typed(stack')
  <2> SUFFICES ASSUME NEW i \in 1 .. n, stack'[i].type = "ARRAY"
               PROVE  /\ stack'[i].itemType # "NULL"
                      /\ \A j \in 1 .. Len(stack'[i].elements) :
                            stack'[i].elements[j].type = stack'[i].itemType
    BY <1>9 DEF Typed
  <2> QED
    BY <1>3, <1>11 DEF Typed
<1>13. Nested(stack')
  <2> SUFFICES ASSUME NEW i \in 1 .. n - 1, stack'[i].type = "ARRAY"
               PROVE  stack'[i + 1].type = stack'[i].itemType
    BY <1>9 DEF Nested
  <2>1. i \in 1 .. n /\ i + 1 \in 1 .. n
    BY ONLY <1>0, i \in 1 .. n - 1
  <2> QED
    BY <1>3, <1>11, <2>1 DEF Nested
<1>14. Counted(stack', 1)
  <2> SUFFICES ASSUME NEW i \in 1 .. n, stack'[i].type = "OBJECT"
               PROVE  Len(stack'[i].keys) = Len(stack'[i].elements)
                                            + IF i < n THEN 1 ELSE 1
    BY <1>9 DEF Counted
  <2>1. CASE i = n
    <3>1. Len(stack[n].keys) = Len(stack[n].elements) + 0
      <4>1. ~(n < n) /\ n \in 1 .. n
        BY ONLY <1>0
      <4> QED
        BY <1>3, <1>11, <2>1, <4>1 DEF Counted
    <3>2. Len(stack'[i].keys) = Len(stack[n].keys) + 1
      BY <1>7, <1>10, <2>1
    <3>3. Len(stack[n].elements) \in Nat
      BY <1>5, LenProperties
    <3> QED
      BY <1>11, <2>1, <3>1, <3>2, <3>3
  <2>2. CASE i # n
    <3>1. i < n
      BY ONLY <1>0, <2>2, i \in 1 .. n
    <3>2. stack'[i] = stack[i]
      BY <1>10, <2>2
    <3>3. Len(stack[i].keys) = Len(stack[i].elements) + 1
      BY <1>3, <3>1, <3>2 DEF Counted
    <3> QED
      BY <3>1, <3>2, <3>3
  <2> QED
    BY <2>1, <2>2
<1> QED
  BY <1>2, <1>9, <1>12, <1>13, <1>14 DEF StackOK, WantedOK, Pending

\* A container that is closed is of the type the one around it wants.
LEMMA CloseTyped ==
  ASSUME StackOK, Close
  PROVE  StackOK' /\ WantedOK'
<1>1. PICK S : stack \in Seq(Open(S))
  BY DEF StackOK
<1> DEFINE n == Len(stack)
           open == SubSeq(stack, 1, n - 1)
<1>2. place = "after" /\ DeliverTo(open, Innermost)
  BY DEF Close
<1>3. stack # <<>> /\ Typed(stack) /\ Nested(stack) /\ Counted(stack, 0)
  BY <1>2 DEF StackOK, Inside, Pending
<1>4. n \in Nat \ {0}
  BY <1>1, <1>3, EmptySeq, LenProperties
<1>5. open \in Seq(Open(S)) /\ Len(open) = n - 1
  BY <1>1, <1>3, Popped
<1>6. \A i \in 1 .. n - 1 : open[i] = stack[i]
  <2>1. n - 1 \in 1 - 1 .. Len(stack)
    BY ONLY <1>4
  <2> QED
    BY <1>1, <1>4, <2>1, SubSeqProperties
<1> HIDE DEF open
<1>7. Typed(open)
  <2> SUFFICES ASSUME NEW i \in 1 .. n - 1, open[i].type = "ARRAY"
               PROVE  /\ open[i].itemType # "NULL"
                      /\ \A j \in 1 .. Len(open[i].elements) :
                            open[i].elements[j].type = open[i].itemType
    BY <1>5 DEF Typed
  <2>1. i \in 1 .. n
    BY ONLY <1>4, i \in 1 .. n - 1
  <2> QED
    BY <1>3, <1>6, <2>1 DEF Typed
<1>8. Nested(open)
  <2> SUFFICES ASSUME NEW i \in 1 .. (n - 1) - 1, open[i].type = "ARRAY"
               PROVE  open[i + 1].type = open[i].itemType
    BY <1>5 DEF Nested
  <2>1. i \in 1 .. n - 1 /\ i + 1 \in 1 .. n - 1
    BY ONLY <1>4, i \in 1 .. (n - 1) - 1
  <2> QED
    BY <1>3, <1>6, <2>1 DEF Nested
<1>9. Counted(open, 1)
  <2> SUFFICES ASSUME NEW i \in 1 .. n - 1, open[i].type = "OBJECT"
               PROVE  Len(open[i].keys) = Len(open[i].elements)
                                          + IF i < n - 1 THEN 1 ELSE 1
    BY <1>5 DEF Counted
  <2>1. i \in 1 .. n /\ i < n
    BY ONLY <1>4, i \in 1 .. n - 1
  <2>2. Len(stack[i].keys) = Len(stack[i].elements) + 1
    BY <1>3, <1>6, <2>1 DEF Counted
  <2> QED
    BY <1>6, <2>2
<1>10. ASSUME open # <<>>, open[Len(open)].type = "ARRAY"
       PROVE  Innermost.type = open[Len(open)].itemType
  <2>1. n - 1 \in Nat \ {0}
    BY <1>5, <1>10, EmptySeq, LenProperties
  <2>2. n - 1 \in 1 .. n - 1 /\ (n - 1) + 1 = n
    BY ONLY <1>4, <2>1
  <2>3. open[n - 1] = stack[n - 1]
    BY <1>6, <2>2
  <2>4. stack[(n - 1) + 1].type = stack[n - 1].itemType
    BY <1>3, <1>5, <1>10, <2>2, <2>3 DEF Nested
  <2> QED
    BY <1>5, <2>2, <2>3, <2>4 DEF Innermost
<1> QED
  BY <1>2, <1>5, <1>7, <1>8, <1>9, <1>10, DeliveredTyped

\* A step that touches nothing that is open, and leaves as many values pending.
LEMMA QuietTyped ==
  ASSUME StackOK, UNCHANGED stack,
         place' = "bad" \/ (Pending' = Pending /\ place # "bad"),
         place' \in Inside => place \in Inside,
         place' \in {"end", "ok"} => place \in {"end", "ok"}
  PROVE  StackOK'
  BY DEF StackOK, Inside

\* The steps that open a container.
LEMMA OpenedTyped ==
  ASSUME StackOK, WantedOK, FirstElement \/ FirstMember
  PROVE  StackOK' /\ WantedOK'
<1>1. PICK S : stack \in Seq(Open(S))
  BY DEF StackOK
<1>2. Typed(stack) /\ Nested(stack) /\ Counted(stack, 1)
  BY DEF FirstElement, FirstMember, Moves, StackOK, Pending
<1>3. CASE FirstElement
  <2> DEFINE e == Array(ValueType)
  <2>1. ValueType \in Types \ {"NULL"}
    BY <1>3 DEF FirstElement, ValueType, Types
  <2>2. /\ e \in Open(S) /\ e.type = "ARRAY" /\ e.itemType # "NULL"
        /\ e.keys = <<>> /\ e.elements = <<>>
    BY <2>1, EmptySeq DEF Open, Array, Blank, Types
  <2>3. /\ stack' = Append(stack, e)
        /\ place = "first" /\ place' = "value"
    BY <1>3 DEF FirstElement, Moves
  <2>4. Wanted \in {"ANY", e.type}
    BY <2>2, <2>3 DEF WantedOK
  <2> HIDE DEF e
  <2>5. /\ stack' \in Seq(Open(S)) /\ stack' # <<>>
        /\ Typed(stack') /\ Nested(stack') /\ Counted(stack', 1)
    BY <1>1, <1>2, <2>2, <2>3, <2>4, PushedTyped
  <2> QED
    BY <2>3, <2>5 DEF StackOK, WantedOK, Pending
<1>4. CASE FirstMember
  <2> DEFINE e == Object
  <2>1. /\ e \in Open(S) /\ e.type = "OBJECT"
        /\ e.keys = <<>> /\ e.elements = <<>>
    BY EmptySeq DEF Open, Object, Blank, Types
  <2>2. /\ stack' = Append(stack, e)
        /\ place = "members" /\ place' = "member"
    BY <1>4 DEF FirstMember, Moves
  <2>3. Wanted \in {"ANY", e.type}
    BY <2>1, <2>2 DEF WantedOK
  <2> HIDE DEF e
  <2>4. /\ stack' \in Seq(Open(S)) /\ stack' # <<>>
        /\ Typed(stack') /\ Nested(stack') /\ Counted(stack', 0)
    BY <1>1, <1>2, <2>1, <2>2, <2>3, PushedTyped
  <2> QED
    BY <2>2, <2>4 DEF StackOK, WantedOK, Pending
<1> QED
  BY <1>3, <1>4

\* The steps that deliver a value.
LEMMA ValueTyped ==
  ASSUME StackOK, WantedOK,
         Literal \/ EndString \/ EndNumber \/ EmptyArray \/ EmptyObject
  PROVE  StackOK' /\ WantedOK'
<1>1. CASE Literal
  <2> DEFINE v == IF Char = "null" THEN Blank ELSE Bool(Char = "true")
  <2>1. place = "value" /\ Char \in Literals /\ Char \in Starts(Wanted) /\ Deliver(v)
    BY <1>1 DEF Literal
  <2>2. Char = "null" => Wanted = "ANY"
    BY <2>1, WantedType, StartsTell
  <2>3. Char \in {"true", "false"} => Wanted \in {"ANY", "BOOL"}
    BY <2>1, WantedType, StartsTell
  <2>4. Wanted \in {"ANY", v.type}
    BY <2>1, <2>2, <2>3 DEF Literals, Blank, Bool
  <2> HIDE DEF v
  <2> QED
    BY <2>1, <2>4, DeliveredHere DEF Pending
<1>2. CASE EndString
  <2>1. String.type = "STRING"
    BY DEF String, Blank
  <2>2. place = "string" /\ Deliver(String) /\ Wanted \in {"ANY", String.type}
    BY <1>2, <2>1 DEF EndString, WantedOK
  <2> QED
    BY <2>2, DeliveredHere DEF Pending
<1>3. CASE EndNumber
  <2>1. Number(NumberType).type = NumberType
    BY DEF Number, Blank
  <2>2. Wanted \in {"ANY", NumberType}
    BY DEF NumberType
  <2>3. place \in {"digits", "fraction"} /\ Deliver(Number(NumberType))
    BY <1>3 DEF EndNumber
  <2> QED
    BY <2>1, <2>2, <2>3, DeliveredHere DEF Pending
<1>4. CASE EmptyArray
  <2>1. Array("NULL").type = "ARRAY"
    BY DEF Array, Blank
  <2>2. /\ place = "first" /\ Deliver(Array("NULL"))
        /\ Wanted \in {"ANY", Array("NULL").type}
    BY <1>4, <2>1 DEF EmptyArray, WantedOK
  <2> QED
    BY <2>2, DeliveredHere DEF Pending
<1>5. CASE EmptyObject
  <2>1. Object.type = "OBJECT"
    BY DEF Object, Blank
  <2>2. /\ place = "members" /\ Deliver(Object)
        /\ Wanted \in {"ANY", Object.type}
    BY <1>5, <2>1 DEF EmptyObject, WantedOK
  <2> QED
    BY <2>2, DeliveredHere DEF Pending
<1> QED
  BY <1>1, <1>2, <1>3, <1>4, <1>5

\* Behind a comma an array expects a value and an object a key.
LEMMA CommaTyped ==
  ASSUME StackOK, Comma
  PROVE  StackOK' /\ WantedOK'
<1>1. PICK S : stack \in Seq(Open(S))
  BY DEF StackOK
<1>2. /\ place = "after" /\ UNCHANGED stack
      /\ place' = IF Innermost.type = "ARRAY" THEN "value" ELSE "member"
  BY DEF Comma
<1>3. /\ stack # <<>> /\ Typed(stack) /\ Nested(stack) /\ Counted(stack, 0)
  BY <1>2 DEF StackOK, Inside, Pending
<1>4. ASSUME Innermost.type = "ARRAY" PROVE Counted(stack, 1)
  <2> SUFFICES ASSUME NEW i \in 1 .. Len(stack), stack[i].type = "OBJECT"
               PROVE  Len(stack[i].keys) = Len(stack[i].elements)
                                           + IF i < Len(stack) THEN 1 ELSE 1
    BY DEF Counted
  <2>1. i # Len(stack)
    BY <1>4 DEF Innermost
  <2>2. Len(stack) \in Nat
    BY <1>1, LenProperties
  <2>3. i < Len(stack)
    BY ONLY <2>1, <2>2, i \in 1 .. Len(stack)
  <2> QED
    BY <1>3, <2>3 DEF Counted
<1>5. place # "bad" /\ place' \in {"value", "member"}
  BY <1>2
<1>6. Counted(stack', Pending')
  <2>1. CASE Innermost.type = "ARRAY"
    BY <1>2, <1>4, <2>1 DEF Pending
  <2>2. CASE Innermost.type # "ARRAY"
    BY <1>2, <1>3, <2>2 DEF Pending
  <2> QED
    BY <2>1, <2>2
<1> QED
  BY <1>1, <1>2, <1>3, <1>5, <1>6 DEF StackOK, WantedOK

\* What is wanted depends on what is open.
LEMMA WantedKept ==
  ASSUME UNCHANGED stack
  PROVE  Wanted' = Wanted
  BY DEF Wanted, Innermost

\* Every step keeps what is open typed.
LEMMA StackStep ==
  ASSUME StackOK, WantedOK, [Next]_vars
  PROVE  StackOK' /\ WantedOK'
<1>1. CASE Refuse
  <2>1. place' = "bad" /\ UNCHANGED stack
    BY <1>1 DEF Refuse
  <2> QED
    BY <2>1, QuietTyped DEF WantedOK, Inside
<1>2. CASE UNCHANGED <<place, stack>>
  BY <1>2 DEF StackOK, WantedOK, Wanted, Innermost, Pending
<1>3. CASE BeginString \/ BeginArray \/ BeginObject \/ BeginNumber
  <2>1. /\ place = "value" /\ UNCHANGED stack
        /\ place' \in {"string", "first", "members", "sign"}
    BY <1>3 DEF BeginString, BeginArray, BeginObject, BeginNumber, Moves
  <2>2. StackOK'
    BY <2>1, QuietTyped DEF Pending, Inside
  <2>3. Char \in Starts(Wanted)
    BY <1>3 DEF BeginString, BeginArray, BeginObject, BeginNumber
  <2>4. /\ Char = Quote => Wanted \in {"ANY", "STRING"}
        /\ Char = "[" => Wanted \in {"ANY", "ARRAY"}
        /\ Char = "{" => Wanted \in {"ANY", "OBJECT"}
        /\ Char \in {"-"} \cup Digits => Wanted \in {"ANY", "INT", "FRAC"}
    BY <2>3, WantedType, StartsTell
  <2>5. /\ place' = "string" => Char = Quote
        /\ place' = "first" => Char = "["
        /\ place' = "members" => Char = "{"
        /\ place' = "sign" => Char \in {"-"} \cup Digits
    BY <1>3 DEF BeginString, BeginArray, BeginObject, BeginNumber, Moves
  <2>6. WantedOK'
    BY <2>1, <2>4, <2>5, WantedKept DEF WantedOK
  <2> QED
    BY <2>2, <2>6
<1>4. CASE BeginKey \/ Colon \/ EndOfText \/ ReadBackslash \/ ReadEscaped
           \/ ReadDigit \/ ReadPoint \/ ReadFractionDigit
  <2>1. /\ UNCHANGED stack
        /\ <<place, place'>> \in
              {<<"member", "key">>, <<"colon", "value">>, <<"end", "ok">>,
               <<"string", "escape">>, <<"key", "key escape">>,
               <<"escape", "string">>, <<"key escape", "key">>,
               <<"sign", "digits">>, <<"digits", "digits">>, <<"digits", "point">>,
               <<"point", "fraction">>, <<"fraction", "fraction">>}
    BY <1>4 DEF BeginKey, Colon, EndOfText, ReadBackslash, ReadEscaped, ReadDigit,
                ReadPoint, ReadFractionDigit, Moves
  <2>2. StackOK'
    BY <2>1, QuietTyped DEF Pending, Inside
  <2>3. WantedOK'
    BY <2>1, WantedKept DEF WantedOK
  <2> QED
    BY <2>2, <2>3
<1>5. \/ Refuse \/ UNCHANGED <<place, stack>>
      \/ BeginString \/ BeginArray \/ BeginObject \/ BeginNumber
      \/ BeginKey \/ Colon \/ EndOfText \/ ReadBackslash \/ ReadEscaped
      \/ ReadDigit \/ ReadPoint \/ ReadFractionDigit
      \/ Literal \/ EndString \/ EndNumber \/ EmptyArray \/ EmptyObject
      \/ FirstElement \/ FirstMember \/ EndKey \/ Comma \/ Close
  BY DEF Next, vars, Strings, Numbers, Containers, SkipSpace, ValueRefused, KeyRefused,
         ReadCharacter, StringRefused, ColonRefused, NumberRefused, FirstRefused,
         AfterRefused, TrailingRefused, Returned
<1> QED
  BY <1>1, <1>2, <1>3, <1>4, <1>5, ValueTyped, OpenedTyped, KeyTyped, CommaTyped,
     CloseTyped

\* The inductive invariant of the types.
THEOREM TypesInvariant == Spec => []TypesInv
<1>1. Init => TypesInv
  <2> SUFFICES ASSUME Init PROVE TypesInv
    OBVIOUS
  <2>1. stack \in Seq(Open({})) /\ Len(stack) = 0
    BY EmptySeq DEF Init
  <2>2. text \in Seq(Characters) /\ cur_pos \in 1 .. Len(text) + 1
    <3>1. text \in Seq(Characters) /\ cur_pos = 1
      BY DEF Init
    <3>2. Len(text) \in Nat
      BY <3>1, LenProperties
    <3> QED
      BY <3>1, <3>2
  <2>3. CursorOK /\ WantedOK
    BY <2>2 DEF Init, CursorOK, WantedOK, Places
  <2>4. Typed(stack) /\ Nested(stack) /\ Counted(stack, Pending)
    BY <2>1 DEF Typed, Nested, Counted
  <2>5. place = "value"
    BY DEF Init
  <2>6. StackOK
    BY <2>1, <2>4, <2>5 DEF StackOK, Inside
  <2> QED
    BY <2>3, <2>6 DEF TypesInv
<1>2. TypesInv /\ [Next]_vars => TypesInv'
  BY CursorStep, StackStep DEF TypesInv
<1> QED
  BY <1>1, <1>2, PTL DEF Spec

\* Every variable keeps its type for any text: the elements of an array that is
\* open all have the type their size was taken from, an object that is open has a
\* value for every key but the one being read, and cur_pos never passes the NUL.
THEOREM TypesOfParser == Spec => []TypeOK
<1>1. TypesInv /\ NumbersOK /\ DepthOK => TypeOK
  <2> SUFFICES ASSUME TypesInv, NumbersOK, DepthOK PROVE TypeOK
    OBVIOUS
  <2>1. PICK S : stack \in Seq(Open(S))
    BY DEF TypesInv, StackOK
  <2>2. \A i \in 1 .. Len(stack) : stack[i].type \in {"ARRAY", "OBJECT"}
    <3> SUFFICES ASSUME NEW i \in 1 .. Len(stack)
                 PROVE  stack[i].type \in {"ARRAY", "OBJECT"}
      OBVIOUS
    <3>1. stack[i] \in Open(S)
      BY <2>1, LenProperties
    <3> QED
      BY <3>1 DEF Open
  <2>3. depth \in Nat
    BY <2>1, LenProperties DEF DepthOK, DepthCounted
  <2>4. ElementsTyped
    <3>1. ASSUME NEW i \in 1 .. Len(stack), stack[i].type = "ARRAY"
          PROVE  \A j \in 1 .. Len(stack[i].elements) :
                    stack[i].elements[j].type = stack[i].itemType
      BY <3>1 DEF TypesInv, StackOK, Typed
    <3>2. ASSUME NEW i \in 1 .. Len(stack), stack[i].type # "ARRAY", place # "bad"
          PROVE  Len(stack[i].keys) = Len(stack[i].elements)
                                      + IF i < Len(stack) THEN 1 ELSE Pending
      BY <2>2, <3>2 DEF TypesInv, StackOK, Counted
    <3>3. ASSUME NEW i \in 1 .. Len(stack)
          PROVE  (IF i < Len(stack) \/ place \notin {"member", "key", "key escape",
                                                     "after", "bad"}
                  THEN 1 ELSE 0) = IF i < Len(stack) THEN 1 ELSE Pending
      BY DEF Pending
    <3> QED
      BY <3>1, <3>2, <3>3 DEF ElementsTyped
  <2> QED
    BY <2>2, <2>3, <2>4 DEF TypeOK, TypesInv, CursorOK, NumbersOK
<1>2. Init => NumbersOK
  BY DEF Init, NumbersOK, NoOverflow
<1>3. Init => DepthOK
  BY InitDepth
<1> QED
  BY <1>1, <1>2, <1>3, NumbersStep, DepthStep, TypesInvariant, PTL DEF Spec
=============================================================================
