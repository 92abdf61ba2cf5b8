---------------------------- MODULE MCJsonParser ----------------------------
(***************************************************************************)
(* An instance of JsonParser for TLC, and what the parser is for: the JSON *)
(* grammar over tokens, against which every text is judged as a whole.     *)
(***************************************************************************)
EXTENDS JsonParser, SequencesExt

MCDigits == {"0", "1", "9"}
MCDigitValue == [d \in MCDigits |-> CASE d = "0" -> 0 [] d = "1" -> 1 [] d = "9" -> 9]

\* Texts that reach every place; those one edit away from them are given too.
A == <<Quote, "A", Quote>>
Seeds ==
    {<<"[", "[", "[", "]", "]", ",", "[", "1", "]", "]">>,
     <<"[", "[", "{", "}", "]", "]">>,
     <<"{">> \o A \o <<":", "{">> \o A \o <<":", "[", "]", "}", "}">>,
     <<"{">> \o A \o <<":", "1", ",">> \o A \o <<":", "null", "}">>,
     <<"[", "{">> \o A \o <<":", "1", ".", "0", "}", ",", "{", "}", "]">>,
     <<"{", Quote, Escape, "A", "A", Quote, ":">> \o A \o <<"}">>,
     <<Quote, Escape, Quote, "A", Escape, Escape, Quote>>,
     <<" ", "[", " ", "1", " ", ",", " ", "1", "9", " ", "]", " ">>,
     <<" ", "{", " ">> \o A \o <<" ", ":", " ", "-", "1", " ", "}", " ">>,
     <<"[", "true", ",", "false", "]">>,
     <<"[", "-", "1", ".", "9", ",", "9", "]">>,
     <<"[", "9", ",", "1", "]">>,
     <<"[">> \o A \o <<",">> \o A \o <<"]">>,
     <<"1", "0", "9">>, <<"0", "0", "1", "1">>, <<"-", "1", "0", "9">>,
     <<"0", ".", "0", "9">>, <<"0", ".", "0", "0", "0">>, <<"9", ".", "9">>,
     <<"null">>, <<"true">>, <<>>}

Edits(t) ==
    {t} \cup {RemoveAt(t, i) : i \in 1 .. Len(t)}
        \cup {ReplaceAt(t, i, c) : i \in 1 .. Len(t), c \in Characters}
        \cup {InsertAt(t, i, c) : i \in 1 .. Len(t) + 1, c \in Characters}

MCTexts == UNION {Edits(t) : t \in Seeds}
-----------------------------------------------------------------------------
(* The tokens of a text.                                                      *)

Token(kind, num, den, name) == [kind |-> kind, num |-> num, denom |-> den, name |-> name]
Mark(c) == Token(c, 0, 1, <<>>)

\* What stands at i is escaped: an odd number of backslashes is in front of it.
IsEscaped(t, i) ==
    \E n \in 1 .. i - 1 :
        /\ n % 2 = 1
        /\ \A j \in i - n .. i - 1 : t[j] = Escape
        /\ n = i - 1 \/ t[i - n - 1] # Escape

Numeric == Digits \cup {"-", "."}

Natural(ds) == FoldLeft(LAMBDA n, c : 10 * n + DigitValue[c], 0, ds)

\* A number from the characters it is made of.
NumberToken(cs) ==
    LET body   == IF cs[1] = "-" THEN Tail(cs) ELSE cs
        points == {i \in 1 .. Len(body) : body[i] = "."}
        digits == SelectSeq(body, LAMBDA c : c \in Digits)
        places == IF points = {} THEN 0 ELSE Len(body) - CHOOSE i \in points : TRUE
        sign   == IF cs[1] = "-" THEN -1 ELSE 1
    IN  IF \/ digits = <<>> \/ Cardinality(points) > 1
           \/ Len(digits) + Cardinality(points) # Len(body)
           \/ body[1] = "." \/ body[Len(body)] = "."
        THEN Mark("?")
        ELSE Token("number", sign * Natural(digits), 10 ^ places, <<>>)

RECURSIVE Tokens(_)
Tokens(t) ==
    IF t = <<>> THEN <<>>
    ELSE LET Rest(n) == Tokens(SubSeq(t, n + 1, Len(t)))
             c == t[1]
         IN CASE c = " " -> Rest(1)
              [] c = Quote ->
                   LET ends == {i \in 2 .. Len(t) : t[i] = Quote /\ ~IsEscaped(t, i)}
                   IN  IF ends = {} THEN <<Mark("?")>>
                       ELSE <<Token("string", 0, 1, SubSeq(t, 2, Min(ends) - 1))>>
                            \o Rest(Min(ends))
              [] c \in Numeric ->
                   LET n == Max({i \in 1 .. Len(t) : \A j \in 1 .. i : t[j] \in Numeric})
                   IN  <<NumberToken(SubSeq(t, 1, n))>> \o Rest(n)
              [] OTHER -> <<Mark(c)>> \o Rest(1)

\* Strings in front of a colon are keys: their letters are small.
Lowered(name) ==
    [i \in 1 .. Len(name) |->
        IF name[i] = "A" /\ ~IsEscaped(name, i) THEN "a" ELSE name[i]]

Read(t) ==
    LET s == Tokens(t)
    IN  [i \in 1 .. Len(s) |->
            IF i < Len(s) /\ s[i].kind = "string" /\ s[i + 1].kind = ":"
            THEN [s[i] EXCEPT !.name = Lowered(@)] ELSE s[i]]
-----------------------------------------------------------------------------
(* The grammar.  An array is of one type, that of its first element, and has  *)
(* no null; a fraction may be written without a point, but not as the first   *)
(* element; an int64 is refused from the last multiple of 10 on.              *)

Fits(s) ==
    LET magnitude == IF s.num < 0 THEN -s.num ELSE s.num
    IN  /\ s.num \in -9 .. 9 \/ magnitude \div 10 < LLONG_MAX \div 10
        /\ s.denom = 1 \/ s.denom \div 10 <= ULLONG_MAX \div 10

RECURSIVE Is(_, _, _), Elements(_, _, _, _), Members(_, _, _)

\* The tokens s are a value of that type in which containers are nested less
\* than d + 1 deep.
Is(type, s, d) ==
    /\ s # <<>>
    /\ LET inner == SubSeq(s, 2, Len(s) - 1)
           Within(a, b) == Len(s) > 1 /\ s[1].kind = a /\ s[Len(s)].kind = b
       IN CASE type = "NULL" -> s = <<Mark("null")>>
            [] type = "BOOL" -> s \in {<<Mark("true")>>, <<Mark("false")>>}
            [] type = "STRING" -> Len(s) = 1 /\ s[1].kind = "string"
            [] type = "INT" -> /\ Len(s) = 1 /\ s[1].kind = "number"
                               /\ s[1].denom = 1 /\ Fits(s[1])
            [] type = "FRAC" -> Len(s) = 1 /\ s[1].kind = "number" /\ Fits(s[1])
            [] type = "ARRAY" ->
                 /\ Within("[", "]")
                 /\ \/ inner = <<>>
                    \/ /\ d > 0
                       /\ \E t \in Types \ {"NULL"} :
                            /\ t = "FRAC" => inner[1].denom > 1
                            /\ Elements(t, inner, d - 1, MAX_JSON_ELEMENTS)
            [] type = "OBJECT" ->
                 /\ Within("{", "}")
                 /\ \/ inner = <<>>
                    \/ d > 0 /\ Members(inner, d - 1, MAX_JSON_ELEMENTS)

Elements(type, s, d, most) ==
    /\ most > 0
    /\ \E k \in 1 .. Len(s) :
          /\ Is(type, SubSeq(s, 1, k), d)
          /\ \/ k = Len(s)
             \/ /\ s[k + 1].kind = ","
                /\ Elements(type, SubSeq(s, k + 2, Len(s)), d, most - 1)

Members(s, d, most) ==
    /\ most > 0 /\ Len(s) > 2 /\ s[1].kind = "string" /\ s[2].kind = ":"
    /\ \E k \in 3 .. Len(s), t \in Types :
          /\ Is(t, SubSeq(s, 3, k), d)
          /\ \/ k = Len(s)
             \/ s[k + 1].kind = "," /\ Members(SubSeq(s, k + 2, Len(s)), d, most - 1)

Accepted(t) == \E type \in Types : Is(type, Read(t), MAX_RECURSION_DEPTH)

\* The tokens a value is written with.
RECURSIVE Written(_)
Written(v) ==
    LET Separated(parts) ==
            FlattenSeq([i \in 1 .. Len(parts) |->
                IF i = 1 THEN parts[i] ELSE <<Mark(",")>> \o parts[i]])
        element == [i \in 1 .. Len(v.elements) |-> Written(v.elements[i])]
    IN CASE v.type = "NULL" -> <<Mark("null")>>
         [] v.type = "BOOL" -> <<Mark(IF v.num = 1 THEN "true" ELSE "false")>>
         [] v.type \in {"INT", "FRAC"} -> <<Token("number", v.num, v.denom, <<>>)>>
         [] v.type = "STRING" -> <<Token("string", 0, 1, v.chars)>>
         [] v.type = "ARRAY" -> <<Mark("[")>> \o Separated(element) \o <<Mark("]")>>
         [] v.type = "OBJECT" ->
              <<Mark("{")>>
              \o Separated([i \in 1 .. Len(element) |->
                    <<Token("string", 0, 1, v.keys[i]), Mark(":")>> \o element[i]])
              \o <<Mark("}")>>

\* A text is accepted if and only if it is in the grammar, and then the result is
\* what the text says: every element, key and number, in order and in place.
Decides ==
    /\ place = "ok" => Accepted(text) /\ Written(result) = Read(text)
    /\ place = "bad" => ~Accepted(text)
=============================================================================
