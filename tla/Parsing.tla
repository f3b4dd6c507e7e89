-------------------------------- MODULE Parsing --------------------------------
(***************************************************************************)
(* The pure functions of parsing.py, which turn what Kiwoom answers into   *)
(* values: to_number, normalize, extract_records, and to_dataframe up to   *)
(* the call of pandas.                                                     *)
(*                                                                         *)
(* A value is a record with a kind: "str" with its characters, "int" with  *)
(* a sign and a value, "float" that is the decimal with these digits       *)
(* before and after the point (the last of them no zero), "rounded", the   *)
(* float next to a decimal that is too long for one, "none", "other" (any  *)
(* other scalar), "list" with its elements, "dict" with its fields, names  *)
(* with values, in the order of insertion.                                 *)
(***************************************************************************)
EXTENDS Naturals, Sequences, SequencesExt, Lists

CONSTANT Precision    \* significant digits every float keeps: 15 of a double

ASSUME PrecisionAssumption == Precision \in Nat \ {0}

DigitChars == <<"0", "1", "2", "3", "4", "5", "6", "7", "8", "9">>
Digits     == ToSet(DigitChars)
Signs      == {"+", "-"}

DigitValue(c) == (CHOOSE i \in DOMAIN DigitChars : DigitChars[i] = c) - 1

Blank == " "

AllDigits(s) == s # <<>> /\ \A i \in DOMAIN s : s[i] \in Digits

\* From the first to the last character that is not this one.
Trim(s, c) ==
    LET ink == {i \in DOMAIN s : s[i] # c}
    IN  IF ink = {} THEN <<>> ELSE SubSeq(s, Min(ink), Max(ink))

\* str.strip()
Strip(s) == Trim(s, Blank)

\* str.replace(",", "")
NoCommas(s) == Without(s, ",")

\* str.lstrip("+-"), of a text with one sign at most.
Unsigned(s) == IF Head(s) \in Signs THEN Tail(s) ELSE s

\* Where the decimal point is, or just past the end.
Point(s) == IF "." \in ToSet(s) THEN CHOOSE i \in DOMAIN s : s[i] = "." ELSE Len(s) + 1

Whole(s)    == SubSeq(s, 1, Point(s) - 1)
Fraction(s) == SubSeq(s, Point(s) + 1, Len(s))

\* _NUMERIC: a sign, digits, and perhaps a point with digits behind it.
Numeric(s) ==
    LET digits == Unsigned(s)
    IN  /\ s # <<>>
        /\ AllDigits(Whole(digits))
        /\ "." \in ToSet(digits) => AllDigits(Fraction(digits))

\* A zero followed by another digit marks an identifier, not a quantity.
Padded(digits) == Len(digits) > 1 /\ digits[1] = "0" /\ digits[2] # "."

None       == [kind |-> "none"]
IntOf(neg, n) == [kind |-> "int", negative |-> neg /\ n # 0, value |-> n]

\* int() of a text without a sign.
Number(digits) == FoldLeft(LAMBDA n, c : 10 * n + DigitValue(c), 0, digits)

\* The zeros at the end of a fraction: float("0.10") is 0.1.
NoTrailingZeros(fraction) ==
    LET others == {i \in DOMAIN fraction : fraction[i] # "0"}
    IN  IF others = {} THEN <<>> ELSE SubSeq(fraction, 1, Max(others))

\* How many digits there are from the first to the last that is no zero.
Significant(digits) == Len(Trim(Whole(digits) \o Fraction(digits), "0"))

\* float() of digits with a point: the decimal itself, or the double next to it.
FloatOf(neg, digits) ==
    IF Significant(digits) <= Precision
    THEN [kind |-> "float", negative |-> neg, whole |-> Whole(digits),
          fraction |-> NoTrailingZeros(Fraction(digits))]
    ELSE [kind |-> "rounded", negative |-> neg]

\* int(), float() of a text that is _NUMERIC and not padded.
Read(s) ==
    LET digits == Unsigned(s)
    IN  IF "." \in ToSet(s) THEN FloatOf(Head(s) = "-", digits)
        ELSE IntOf(Head(s) = "-", Number(digits))

\* Mutant: a code such as "005930" is taken for a quantity.
ToNumberPadded(v) ==
    IF v.kind # "str" THEN v
    ELSE LET stripped  == Strip(v.chars)
             candidate == NoCommas(stripped)
         IN  IF stripped = <<>> THEN None
             ELSE IF Numeric(candidate) THEN Read(candidate) ELSE v

\* to_number
ToNumber(v) ==
    IF v.kind # "str" THEN v
    ELSE LET stripped  == Strip(v.chars)
             candidate == NoCommas(stripped)
         IN  IF stripped = <<>> THEN None
             ELSE IF Numeric(candidate) /\ ~Padded(Unsigned(candidate))
                  THEN Read(candidate)
                  ELSE v

-----------------------------------------------------------------------------
(* normalize                                                               *)

\* A field name is a stem and the word behind its last underscore; names that
\* differ in case only are one name.
TextualWords == {"dt", "date", "ymd", "cd", "code", "no", "id", "nm", "name",
                 "tm", "time"}
NoName == [stem |-> "", word |-> ""]

IsTextualKey(name) == name.word \in TextualWords

\* _walk of a value that holds no others.
Convert(node, name, skip) ==
    IF name \in skip \/ IsTextualKey(name) THEN node ELSE ToNumber(node)

\* _walk: the name of a field goes down to every value in it; Inner walks what a dict or
\* a list holds.
Walk(Inner(_, _), node, name, skip) ==
    CASE node.kind = "dict" ->
           [node EXCEPT !.fields = [i \in DOMAIN node.fields |->
               [node.fields[i] EXCEPT !.value =
                   Inner(node.fields[i].value, node.fields[i].name)]]]
      [] node.kind = "list" ->
           [node EXCEPT !.elements = [i \in DOMAIN node.elements |->
               Inner(node.elements[i], name)]]
      [] OTHER -> Convert(node, name, skip)

\* normalize.  Bound: a response is a dict of lists of records, or of scalars, and no value
\* lies deeper.
WalkRecord(node, name, skip) ==
    Walk(LAMBDA value, field : Convert(value, field, skip), node, name, skip)
WalkList(node, name, skip) ==
    Walk(LAMBDA value, field : WalkRecord(value, field, skip), node, name, skip)
Normalize(data, exclude) ==
    Walk(LAMBDA value, field : WalkList(value, field, exclude), data, NoName, exclude)

-----------------------------------------------------------------------------
(* extract_records and to_dataframe                                        *)

IsRecordList(value) ==
    /\ value.kind = "list" /\ value.elements # <<>>
    /\ \A i \in DOMAIN value.elements : value.elements[i].kind = "dict"

\* What extract_records returns, or the exception it raises.
Found(name, records) == [name |-> name, records |-> records]
KeyError == Found([stem |-> "KeyError", word |-> ""], <<>>)

\* Mutant: the first list of records is taken, whatever its length.
FirstRecords(fields) ==
    FoldLeft(LAMBDA best, field :
                IF IsRecordList(field.value) /\ best.records = <<>>
                THEN Found(field.name, field.value.elements) ELSE best,
             Found(NoName, <<>>), fields)

\* The loop of extract_records: a longer list of dicts replaces the best so far.
Better(best, field) ==
    IF IsRecordList(field.value) /\ Len(field.value.elements) > Len(best.records)
    THEN Found(field.name, field.value.elements) ELSE best
LongestRecords(fields) == FoldLeft(Better, Found(NoName, <<>>), fields)

\* list(value) of a Sequence, and a string is one: its characters.
AsList(value) ==
    CASE value.kind = "list" -> value.elements
      [] value.kind = "str"  -> [i \in DOMAIN value.chars |->
                                   [kind |-> "str", chars |-> <<value.chars[i]>>]]
      [] OTHER -> <<>>

\* The list request_all() returned, the list under the key given, or the longest.
ExtractRecords(response, key) ==
    CASE response.kind = "list" ->
           Found(NoName, SelectSeq(response.elements, LAMBDA e : e.kind = "dict"))
      [] response.kind = "dict" /\ key = NoName -> LongestRecords(response.fields)
      [] response.kind = "dict" /\ key # NoName ->
           LET named == SelectSeq(response.fields, LAMBDA f : f.name = key)
           IN  IF named = <<>> THEN KeyError ELSE Found(key, AsList(named[1].value))
      [] OTHER -> Found(NoName, <<>>)

\* to_dataframe: the rows handed to pandas.
Rows(response, key, numeric) ==
    LET records == ExtractRecords(response, key).records
    IN  IF numeric THEN [i \in DOMAIN records |-> Normalize(records[i], {})]
        ELSE records
=============================================================================
