----------------------------- MODULE MCMarketData -----------------------------
(***************************************************************************)
(* A small instance of MarketData for TLC: every text and every payload    *)
(* within the bounds, and the prices around each band's edge.  A call that *)
(* is over may stay over.                                                  *)
(***************************************************************************)
EXTENDS MarketData

CONSTANT MaxText    \* bound: the length of the texts

ShortTexts == UNION {[1..n -> Alphabet] : n \in 0..MaxText}

Row     == Dict(<<Field(Price, Str(<<"5">>))>>)
Scalar  == [kind |-> "other"]
Values  == {Scalar, Str(<<"5">>), List(<<>>), List(<<Row>>), List(<<Row, Row>>),
            List(<<Row, Scalar>>), List(<<Scalar, Scalar, Scalar>>)}

\* Three fields: a tie, an empty list, a list of scalars and a longer list in any order.
SmallPayloads == {Dict(<<Field(Code, a), Field(Price, b), Field(Other, c)>>) :
                     a \in Values, b \in Values, c \in Values}

GivenNames == {Code, [stem |-> "no", word |-> "key"]}

Won    == {1, 2, 3, 999, 1000, 7012, 70123, 777777, 1000001}
Edges  == {Bands[i].below : i \in DOMAIN Bands}
\* Around each band's edge, a unit and a won below, on it, and above.
EdgePrices == {-1, 0} \cup
    UNION {{e * Scale - Scale, e * Scale - 1, e * Scale, e * Scale + 1, e * Scale + 4 * Scale} :
              e \in Edges \cup Won}

Ended == (pc = "done" \/ applied # NotApplied) /\ UNCHANGED vars

MCSpec == Init /\ [][Next \/ Ended]_vars /\ ClientFairness
=============================================================================
