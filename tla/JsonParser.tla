----------------------------- MODULE JsonParser -----------------------------
(***************************************************************************)
(* json_parse (json_parser.c), which reads the configuration a transcoder  *)
(* is started with.  The code descends recursively; here its C stack is a  *)
(* sequence of the arrays and objects that are still open, each the        *)
(* json_value_t filled in so far, and an action is what one iteration of a *)
(* loop or one call does with the character at cur_pos.  An array has the  *)
(* type of its first element: its elements lie side by side, each as large *)
(* as that type is.                                                        *)
(*                                                                         *)
(* A text is a sequence of characters without its final NUL.  A literal    *)
(* counts as one character, " " is any white space, "A" any letter and "?" *)
(* any character that no value starts with.                                *)
(***************************************************************************)
EXTENDS Integers, Sequences

CONSTANTS Texts,       \* what may be given to json_parse
          Digits,      \* characters
          DigitValue,  \* [Digits -> 0 .. 9]
          LLONG_MAX, ULLONG_MAX,
          MAX_RECURSION_DEPTH, MAX_JSON_ELEMENTS

Marks == {"{", "}", "[", "]", ",", ":", "-", ".", " ", "?"}
Literals == {"true", "false", "null"}
Quote == "quote"
Escape == "backslash"
NUL == "NUL"
Characters == Marks \cup Literals \cup {Quote, Escape, "A"} \cup Digits

ASSUME JsonAssumption ==
    /\ Texts \subseteq Seq(Characters)
    /\ DigitValue \in [Digits -> 0 .. 9]
    /\ Digits \cap (Marks \cup Literals \cup {Quote, Escape, "A", NUL}) = {}
    /\ LLONG_MAX \in Nat /\ ULLONG_MAX \in Nat \ {0}
    /\ MAX_RECURSION_DEPTH \in Nat \ {0} /\ MAX_JSON_ELEMENTS \in Nat \ {0}

VARIABLES
    text,
    cur_pos,
    depth,
    stack,     \* the open arrays and objects, the innermost last
    place,     \* what is expected at cur_pos, see Places
    chars,     \* the string or key being read
    value,     \* the number being read: value / denom, and its sign
    denom,
    negative,
    result     \* of the whole text

vars == <<text, cur_pos, depth, stack, place, chars, value, denom, negative, result>>

Types == {"NULL", "BOOL", "INT", "FRAC", "STRING", "ARRAY", "OBJECT"}

\* "first" and "members": behind the bracket that opens an array or an object.
\* "after": behind an element or a member.
Places == {"value", "first", "members", "member", "key", "key escape", "colon",
           "string", "escape", "sign", "digits", "point", "fraction", "after",
           "end", "ok", "bad"}

\* json_value_t: a union, of which type says what is used.  elements are those
\* of an array, all of the type itemType, or the values of an object.
Blank == [type |-> "NULL", num |-> 0, denom |-> 1, chars |-> <<>>,
          itemType |-> "NULL", keys |-> <<>>, elements |-> <<>>]

Bool(b) == [Blank EXCEPT !.type = "BOOL", !.num = IF b THEN 1 ELSE 0]
String == [Blank EXCEPT !.type = "STRING", !.chars = chars]
Array(itemType) == [Blank EXCEPT !.type = "ARRAY", !.itemType = itemType]
Object == [Blank EXCEPT !.type = "OBJECT"]
Number(type) == [Blank EXCEPT !.type = type, !.denom = denom,
                              !.num = IF negative THEN -value ELSE value]

Init ==
    /\ text \in Texts /\ cur_pos = 1
    /\ depth = 0 /\ stack = <<>>
    /\ place = "value"
    /\ chars = <<>> /\ value = 0 /\ denom = 1 /\ negative = FALSE
    /\ result = Blank
-----------------------------------------------------------------------------
At(i) == IF i <= Len(text) THEN text[i] ELSE NUL
Char == At(cur_pos)
Innermost == stack[Len(stack)]

\* The type the value at cur_pos must have: any in an object and for the whole
\* text (json_parse_value), that of the array otherwise (json_parser_*).
Wanted == IF stack = <<>> \/ Innermost.type = "OBJECT" THEN "ANY"
          ELSE Innermost.itemType

Starts(type) ==
    CASE type = "STRING" -> {Quote}
      [] type = "ARRAY"  -> {"["}
      [] type = "OBJECT" -> {"{"}
      [] type = "BOOL"   -> {"true", "false"}
      [] type = "ANY"    -> {Quote, "[", "{", "-"} \cup Literals \cup Digits
      [] OTHER           -> {"-"} \cup Digits

Moves(from, to) == place = from /\ place' = to
Advance == cur_pos' = cur_pos + 1
Keep == UNCHANGED <<text, chars, value, denom, negative>>

\* The value v is done and goes into the innermost of what is still open.
DeliverTo(open, v) ==
    IF open = <<>>
    THEN /\ place' = "end" /\ stack' = <<>> /\ result' = v
    ELSE /\ place' = "after" /\ UNCHANGED result
         /\ stack' = [open EXCEPT ![Len(open)].elements = Append(@, v)]

Deliver(v) == DeliverTo(stack, v)

\* JSON_BAD_DATA, which every caller passes on.
Refuse ==
    /\ place' = "bad"
    /\ UNCHANGED <<text, cur_pos, depth, stack, chars, value, denom, negative, result>>
-----------------------------------------------------------------------------
SkipSpace ==
    /\ place \in {"value", "first", "members", "member", "colon", "after", "end"}
    /\ Char = " "
    /\ Advance
    /\ UNCHANGED <<text, depth, stack, place, chars, value, denom, negative, result>>

ValueRefused ==
    /\ place = "value" /\ Char # " "
    /\ Char \notin Starts(Wanted)
    /\ Refuse

Literal ==
    /\ place = "value"
    /\ Char \in Literals \cap Starts(Wanted)
    /\ Deliver(IF Char = "null" THEN Blank ELSE Bool(Char = "true"))
    /\ Advance /\ Keep
    /\ UNCHANGED depth
-----------------------------------------------------------------------------
(* Strings and keys.                                                          *)

BeginString ==
    /\ Moves("value", "string")
    /\ Char = Quote /\ Quote \in Starts(Wanted)
    /\ Advance /\ chars' = <<>>
    /\ UNCHANGED <<text, depth, stack, value, denom, negative, result>>

BeginKey ==
    /\ Moves("member", "key")
    /\ Char = Quote
    /\ Advance /\ chars' = <<>>
    /\ UNCHANGED <<text, depth, stack, value, denom, negative, result>>

KeyRefused ==
    /\ place = "member" /\ Char \notin {Quote, " "}
    /\ Refuse

\* Keys are turned to lower case where they stand.
ReadCharacter ==
    /\ place \in {"string", "key"}
    /\ Char \notin {Quote, Escape, NUL}
    /\ chars' = Append(chars, IF place = "key" /\ Char = "A" THEN "a" ELSE Char)
    /\ Advance
    /\ UNCHANGED <<text, depth, stack, place, value, denom, negative, result>>

ReadBackslash ==
    /\ \/ Moves("string", "escape")
       \/ Moves("key", "key escape")
    /\ Char = Escape
    /\ chars' = Append(chars, Escape)
    /\ Advance
    /\ UNCHANGED <<text, depth, stack, value, denom, negative, result>>

\* Mutant of ReadEscaped: the text does not end behind a backslash.
ReadEscapedBlindly ==
    /\ \/ Moves("escape", "string")
       \/ Moves("key escape", "key")
    /\ chars' = Append(chars, Char)
    /\ Advance
    /\ UNCHANGED <<text, depth, stack, value, denom, negative, result>>

ReadEscaped ==
    /\ \/ Moves("escape", "string")
       \/ Moves("key escape", "key")
    /\ Char # NUL
    /\ chars' = Append(chars, Char)
    /\ Advance
    /\ UNCHANGED <<text, depth, stack, value, denom, negative, result>>

StringRefused ==
    /\ place \in {"string", "escape", "key", "key escape"}
    /\ Char = NUL
    /\ Refuse

EndString ==
    /\ place = "string" /\ Char = Quote
    /\ Deliver(String)
    /\ Advance /\ Keep
    /\ UNCHANGED depth

EndKey ==
    /\ Moves("key", "colon")
    /\ Char = Quote
    /\ stack' = [stack EXCEPT ![Len(stack)].keys = Append(@, chars)]
    /\ Advance /\ Keep
    /\ UNCHANGED <<depth, result>>

Colon ==
    /\ Moves("colon", "value")
    /\ Char = ":"
    /\ Advance /\ Keep
    /\ UNCHANGED <<depth, stack, result>>

ColonRefused ==
    /\ place = "colon" /\ Char \notin {":", " "}
    /\ Refuse
-----------------------------------------------------------------------------
(* Numbers: json_parse_int reads "sign" and "digits", json_parse_fraction the *)
(* rest, where the type allows one.                                           *)

BeginNumber ==
    /\ Moves("value", "sign")
    /\ Char \in ({"-"} \cup Digits) \cap Starts(Wanted)
    /\ negative' = (Char = "-")
    /\ cur_pos' = IF Char = "-" THEN cur_pos + 1 ELSE cur_pos
    /\ value' = 0 /\ denom' = 1
    /\ UNCHANGED <<text, depth, stack, chars, result>>

\* Mutant of ValueFull: the largest value that can still be multiplied by 10.
ValueFullLater == value > LLONG_MAX \div 10

ValueFull == value > LLONG_MAX \div 10 - 1

DenomFull == denom > ULLONG_MAX \div 10

ReadDigit ==
    /\ place \in {"sign", "digits"} /\ place' = "digits"
    /\ Char \in Digits /\ ~ValueFull
    /\ value' = value * 10 + DigitValue[Char]
    /\ Advance
    /\ UNCHANGED <<text, depth, stack, chars, denom, negative, result>>

ReadPoint ==
    /\ Moves("digits", "point")
    /\ Char = "." /\ Wanted # "INT"
    /\ Advance /\ Keep
    /\ UNCHANGED <<depth, stack, result>>

ReadFractionDigit ==
    /\ place \in {"point", "fraction"} /\ place' = "fraction"
    /\ Char \in Digits /\ ~ValueFull /\ ~DenomFull
    /\ value' = value * 10 + DigitValue[Char]
    /\ denom' = denom * 10
    /\ Advance
    /\ UNCHANGED <<text, depth, stack, chars, negative, result>>

NumberRefused ==
    /\ \/ place \in {"sign", "point"} /\ Char \notin Digits
       \/ place \in {"sign", "digits"} /\ Char \in Digits /\ ValueFull
       \/ /\ place \in {"point", "fraction"} /\ Char \in Digits
          /\ ValueFull \/ DenomFull
    /\ Refuse

\* Mutant of NumberType: an element of an array is typed by what it is.
NumberTypeOwn == IF denom = 1 THEN "INT" ELSE "FRAC"

NumberType == IF Wanted # "ANY" THEN Wanted
              ELSE IF denom = 1 THEN "INT" ELSE "FRAC"

EndNumber ==
    /\ \/ place = "digits" /\ ~(Char = "." /\ Wanted # "INT")
       \/ place = "fraction"
    /\ Char \notin Digits
    /\ Deliver(Number(NumberType))
    /\ UNCHANGED <<cur_pos, depth>> /\ Keep
-----------------------------------------------------------------------------
(* Arrays and objects.                                                        *)

BeginArray ==
    /\ Moves("value", "first")
    /\ Char = "[" /\ "[" \in Starts(Wanted)
    /\ Advance /\ Keep
    /\ UNCHANGED <<depth, stack, result>>

BeginObject ==
    /\ Moves("value", "members")
    /\ Char = "{" /\ "{" \in Starts(Wanted)
    /\ Advance /\ Keep
    /\ UNCHANGED <<depth, stack, result>>

\* An array without elements has no type, and is not counted in depth.
EmptyArray ==
    /\ place = "first" /\ Char = "]"
    /\ Deliver(Array("NULL"))
    /\ Advance /\ Keep
    /\ UNCHANGED depth

EmptyObject ==
    /\ place = "members" /\ Char = "}"
    /\ Deliver(Object)
    /\ Advance /\ Keep
    /\ UNCHANGED depth

\* json_get_value_type: a number is looked through to the character behind its
\* digits.
BehindDigits(i) ==
    CHOOSE j \in i .. Len(text) + 1 :
        At(j) \notin Digits /\ \A k \in i .. j - 1 : At(k) \in Digits

ValueType ==
    LET first == IF Char = "-" THEN cur_pos + 1 ELSE cur_pos
    IN CASE Char = Quote -> "STRING"
         [] Char = "[" -> "ARRAY"
         [] Char = "{" -> "OBJECT"
         [] Char \in {"true", "false"} -> "BOOL"
         [] OTHER -> IF At(first) \notin Digits THEN "none"
                     ELSE IF At(BehindDigits(first)) = "." THEN "FRAC" ELSE "INT"

DepthReached == depth >= MAX_RECURSION_DEPTH

FirstElement ==
    /\ Moves("first", "value")
    /\ Char \notin {"]", " "} /\ ~DepthReached /\ ValueType # "none"
    /\ stack' = Append(stack, Array(ValueType))
    /\ depth' = depth + 1
    /\ UNCHANGED <<cur_pos, result>> /\ Keep

FirstMember ==
    /\ Moves("members", "member")
    /\ Char \notin {"}", " "} /\ ~DepthReached
    /\ stack' = Append(stack, Object)
    /\ depth' = depth + 1
    /\ UNCHANGED <<cur_pos, result>> /\ Keep

FirstRefused ==
    /\ \/ /\ place = "first" /\ Char \notin {"]", " "}
          /\ DepthReached \/ ValueType = "none"
       \/ place = "members" /\ Char \notin {"}", " "} /\ DepthReached
    /\ Refuse

\* Mutant of ElementsFull: one element more.
ElementsFullLater == Len(Innermost.elements) > MAX_JSON_ELEMENTS

ElementsFull == Len(Innermost.elements) >= MAX_JSON_ELEMENTS

Comma ==
    /\ place = "after" /\ Char = "," /\ ~ElementsFull
    /\ place' = IF Innermost.type = "ARRAY" THEN "value" ELSE "member"
    /\ Advance /\ Keep
    /\ UNCHANGED <<depth, stack, result>>

Closing == IF Innermost.type = "ARRAY" THEN "]" ELSE "}"

\* Mutant of Close: the depth counts what was opened and not what is open.
CloseUncounted ==
    /\ place = "after" /\ Char = Closing
    /\ DeliverTo(SubSeq(stack, 1, Len(stack) - 1), Innermost)
    /\ UNCHANGED depth
    /\ Advance /\ Keep

Close ==
    /\ place = "after" /\ Char = Closing
    /\ DeliverTo(SubSeq(stack, 1, Len(stack) - 1), Innermost)
    /\ depth' = depth - 1
    /\ Advance /\ Keep

AfterRefused ==
    /\ place = "after"
    /\ \/ Char \notin {",", Closing, " "}
       \/ Char = "," /\ ElementsFull
    /\ Refuse

EndOfText ==
    /\ Moves("end", "ok")
    /\ Char = NUL
    /\ UNCHANGED <<cur_pos, depth, stack, result>> /\ Keep

TrailingRefused ==
    /\ place = "end" /\ Char \notin {NUL, " "}
    /\ Refuse

\* json_parse has returned.
Returned == place \in {"ok", "bad"} /\ UNCHANGED vars

Strings == BeginString \/ BeginKey \/ KeyRefused \/ ReadCharacter \/ ReadBackslash
           \/ ReadEscaped \/ StringRefused \/ EndString \/ EndKey \/ Colon
           \/ ColonRefused

Numbers == BeginNumber \/ ReadDigit \/ ReadPoint \/ ReadFractionDigit
           \/ NumberRefused \/ EndNumber

Containers == BeginArray \/ BeginObject \/ EmptyArray \/ EmptyObject
              \/ FirstElement \/ FirstMember \/ FirstRefused \/ Comma \/ Close
              \/ AfterRefused

Next == SkipSpace \/ ValueRefused \/ Literal \/ Strings \/ Numbers \/ Containers
        \/ EndOfText \/ TrailingRefused \/ Returned

Spec == Init /\ [][Next]_vars
-----------------------------------------------------------------------------
\* The elements of an array all have the type their size was taken from, and an
\* object has as many keys as values, but for the member being read.
ElementsTyped ==
    \A i \in 1 .. Len(stack) :
        LET open == stack[i]
            pending == IF i < Len(stack) \/ place \notin {"member", "key", "key escape",
                                                          "after", "bad"}
                       THEN 1 ELSE 0
        IN  IF open.type = "ARRAY"
            THEN \A j \in 1 .. Len(open.elements) :
                    open.elements[j].type = open.itemType
            ELSE place # "bad" => Len(open.keys) = Len(open.elements) + pending

\* The variables have their types, the elements of open containers too;
\* cur_pos never passes the NUL.
TypeOK ==
    /\ text \in Seq(Characters) /\ cur_pos \in 1 .. Len(text) + 1
    /\ depth \in Nat
    /\ place \in Places
    /\ value \in Nat /\ denom \in Nat /\ negative \in BOOLEAN
    /\ \A i \in 1 .. Len(stack) : stack[i].type \in {"ARRAY", "OBJECT"}
    /\ ElementsTyped

\* However long the number is, it is refused before int64 or uint64 overflow,
\* and its sign can be changed.
NoOverflow == value <= LLONG_MAX /\ denom <= ULLONG_MAX

\* The recursion is as deep as what is open, and no deeper than is allowed.
DepthCounted == depth = Len(stack) /\ depth <= MAX_RECURSION_DEPTH
=============================================================================
