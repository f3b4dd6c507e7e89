------------------------------ MODULE MarketData ------------------------------
(***************************************************************************)
(* The reading of market data: a call of BaseClient, and, from its idle    *)
(* state, the pure functions applied to what it may return and to the      *)
(* price of an order.  The functions keep nothing, so one call at a time   *)
(* is all there is.                                                        *)
(***************************************************************************)
EXTENDS BaseClient, Parsing, TickSize

CONSTANTS
    Alphabet,   \* the characters of field values
    Texts,      \* the field values tried
    Payloads,   \* the responses records are extracted from
    AskedNames, \* the payload keys asked for
    Prices      \* the prices rounded

IsSequence(s) == s \in Seq(ToSet(s))

\* Bound: int() raises above 4300 digits, and the range of a double ends at 10^308.
Longest == 300
ASSUME TextsAssumption ==
    \A text \in Texts : text \in Seq(Alphabet) /\ Len(text) <= Longest
ASSUME PayloadsAssumption ==
    \A p \in Payloads :
        /\ p.kind = "dict" /\ IsSequence(p.fields)
        /\ \A i \in DOMAIN p.fields :
              p.fields[i].value.kind = "list" => IsSequence(p.fields[i].value.elements)
ASSUME PricesAssumption == Prices \subseteq Int

VARIABLE applied    \* the pure function called last, with its result

vars == <<clientVars, applied>>

NotApplied == [function |-> "none"]

Init == ClientInit /\ applied = NotApplied

-----------------------------------------------------------------------------
(* Responses.                                                              *)

Str(chars)     == [kind |-> "str", chars |-> chars]
Dict(fields)   == [kind |-> "dict", fields |-> fields]
List(elements) == [kind |-> "list", elements |-> elements]
Field(name, v) == [name |-> name, value |-> v]

Code  == [stem |-> "stk", word |-> "cd"]
Price == [stem |-> "cur", word |-> "prc"]
Other == [stem |-> "acnt", word |-> "remn"]

\* A response of one record, an identifier and a quantity, and the same again in lists
\* under the two names, the identifier in a list of a list too.
Response(code, price) ==
    Dict(<<Field(Other, List(<<Dict(<<Field(Code, code), Field(Price, price)>>)>>)),
           Field(Code, List(<<code, List(<<code>>)>>)),
           Field(Price, List(<<price>>))>>)

\* The lists in the payloads stand for what request_all() returned.
Lists == {v \in UNION {{p.fields[i].value : i \in DOMAIN p.fields} : p \in Payloads} :
             v.kind = "list"}

-----------------------------------------------------------------------------
(* Calls.                                                                  *)

MayApply ==
    /\ pc = "idle" /\ applied = NotApplied
    /\ provider /\ total = 1    \* what the server holds does not matter
    /\ UNCHANGED clientVars

\* The identifier and the quantity look the same.
CallNormalize ==
    /\ MayApply
    /\ \E text \in Texts :
          applied' = [function |-> "normalize", text |-> text,
                      result |-> Normalize(Response(Str(text), Str(text)), {})]

CallExtract ==
    /\ MayApply
    /\ \E payload \in Payloads, name \in AskedNames \cup {NoName} :
          applied' = [function |-> "extract_records", payload |-> payload, name |-> name,
                      result |-> ExtractRecords(payload, name),
                      rows |-> Rows(payload, name, TRUE)]

\* The list request_all() returned, with whole responses where data_key was missing.
CallExtractList ==
    /\ MayApply
    /\ \E list \in Lists :
          applied' = [function |-> "extract_list", list |-> list,
                      result |-> ExtractRecords(list, NoName)]

CallRound ==
    /\ MayApply
    /\ \E price \in Prices :
          applied' = [function |-> "round_to_tick", price |-> price,
                      tick |-> TickOf(price), result |-> RoundToTick(price),
                      ticks |-> TicksIn(price, price)]

ClientStep == applied = NotApplied /\ ClientNext /\ UNCHANGED applied

Next == ClientStep \/ CallNormalize \/ CallExtract \/ CallExtractList \/ CallRound

Spec == Init /\ [][Next]_vars

-----------------------------------------------------------------------------
(* Properties of the pure functions.                                       *)

\* Powers of ten.
Tens[k \in Nat] == IF k = 0 THEN 1 ELSE 10 * Tens[k - 1]

\* digits is how n is written: with as many digits as n has, each the one of its place.
Writes(digits, n) ==
    LET size == Len(digits)
    IN  /\ n < Tens[size] /\ (size > 1 => Tens[size - 1] <= n)
        /\ \A i \in DOMAIN digits :
              digits[i] = DigitChars[((n \div Tens[size - i]) % 10) + 1]

\* The decimal point and every digit have their places, and what the text has beyond the
\* digits of v is zeros.
WritesDecimal(text, v) ==
    LET fraction == Fraction(text)
    IN  /\ Whole(text) = v.whole /\ Len(v.fraction) <= Len(fraction)
        /\ \A i \in DOMAIN fraction :
              fraction[i] = IF i <= Len(v.fraction) THEN v.fraction[i] ELSE "0"

\* A text without its sign, that writes the number v.
WritesNumber(text, v) ==
    \/ v.kind = "int" /\ Writes(text, v.value)
    \/ v.kind = "float" /\ Significant(text) <= Precision /\ WritesDecimal(text, v)
    \/ v.kind = "rounded" /\ Precision < Significant(text)

\* A field value without the decoration Kiwoom puts on numbers.
Plain(text) == Unsigned(NoCommas(Strip(text)))

\* normalize() changes a value only into the number it writes, so no leading zero of a
\* code is lost: a whole number has the text's digits, each in its place, a decimal its
\* value, as long as it has no more significant digits than a float keeps (beyond them
\* float() rounds, without a sign); the number is negative only if the text was.  A
\* field whose name marks an identifier or a date is left as it is, and so is what lies
\* in lists under such a name; normalizing twice changes nothing more.
ConversionKeepsMeaning ==
    applied.function = "normalize" =>
        LET row   == applied.result.fields[1].value.elements[1]
            price == row.fields[2].value
        IN  /\ row.fields[1].value = Str(applied.text)
            /\ applied.result.fields[2].value =
                  List(<<Str(applied.text), List(<<Str(applied.text)>>)>>)
            /\ applied.result.fields[3].value = List(<<price>>)
            /\ \/ price = Str(applied.text)
               \/ price = None /\ Strip(applied.text) = <<>>
               \/ /\ WritesNumber(Plain(applied.text), price)
                  /\ price.negative => "-" \in ToSet(applied.text)
            /\ Normalize(applied.result, {}) = applied.result

\* extract_records() finds the records of a response whose key nobody named: the list it
\* returns is one of the response's lists of dicts, none is longer, and none
\* before it is as long; to_dataframe() makes a row of each of them.
RecordsAreTheLongest ==
    applied.function = "extract_records" /\ applied.name = NoName =>
        LET fields == applied.payload.fields
            lists  == {i \in DOMAIN fields : IsRecordList(fields[i].value)}
            found  == applied.result
            Size(i) == Len(fields[i].value.elements)
        IN  /\ Len(applied.rows) = Len(found.records)
            /\ IF lists = {} THEN found = Found(NoName, <<>>)
               ELSE \E i \in lists :
                      /\ found = Found(fields[i].name, fields[i].value.elements)
                      /\ \A j \in lists : Size(j) <= Size(i) /\ (j < i => Size(j) < Size(i))

\* round_to_tick() gives a price an order may have: a multiple of the tick of its own
\* band, never above the price asked for, and no other such price lies between the
\* two, also where rounding starts at a band's edge.  A price below one won, the
\* smallest tick, is rounded to nothing, and that is the only way to get 0.
LimitPriceIsQuotable ==
    applied.function = "round_to_tick" => BestQuote(applied.price, applied.result)
=============================================================================
