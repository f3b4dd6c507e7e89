------------------------------- MODULE TickSize -------------------------------
(***************************************************************************)
(* The KRX tick sizes of tick_size.py.  Prices are Decimals of any         *)
(* precision: a price is a whole number of 1/Scale won, a tick a number of *)
(* won.                                                                    *)
(***************************************************************************)
EXTENDS Integers

CONSTANT Scale    \* how many units a won has

ASSUME ScaleAssumption == Scale \in Nat \ {0}

\* _TICK_BANDS and _TOP_TICK: (upper bound, exclusive; tick), ascending.
Bands == << [below |-> 2000,   tick |-> 1],
            [below |-> 5000,   tick |-> 5],
            [below |-> 20000,  tick |-> 10],
            [below |-> 50000,  tick |-> 50],
            [below |-> 200000, tick |-> 100],
            [below |-> 500000, tick |-> 500] >>
TopTick == 1000

ValueError == -1    \* no price: stands for the exception

\* The loop of tick_size, for a positive price: the first band it is below.
Tick(price) ==
    LET fits == {i \in DOMAIN Bands : price < Bands[i].below * Scale}
    IN  IF fits = {} THEN TopTick
        ELSE Bands[CHOOSE i \in fits : \A j \in fits : i <= j].tick

\* Mutant: rounding to the nearest tick instead of down.
RoundToNearest(price) ==
    LET unit == Tick(price) * Scale
    IN  ((price + (unit \div 2)) \div unit) * unit

\* round_to_tick, for a positive price.
RoundDown(price) ==
    LET unit == Tick(price) * Scale
    IN  (price \div unit) * unit

\* tick_size, round_to_tick and ticks_in raise for a price that is not positive.
TickOf(price)      == IF price <= 0 THEN ValueError ELSE Tick(price)
RoundToTick(price) == IF price <= 0 THEN ValueError ELSE RoundDown(price)

\* ticks_in: an exact quotient, as numerator and denominator in units.
TicksIn(width, price) ==
    IF price <= 0 THEN <<ValueError>>
    ELSE <<IF width < 0 THEN -width ELSE width, Tick(price) * Scale>>

\* A price a limit order may have: a positive multiple of its own tick.
Quotable(price) == price > 0 /\ price % (Tick(price) * Scale) = 0

\* What round_to_tick promises: the highest price not above the one asked for that an
\* order may have, 0 below the smallest tick, an error where there is no price.
BestQuote(price, result) ==
    IF price <= 0 THEN result = ValueError
    ELSE /\ result <= price
         /\ IF price < Scale THEN result = 0 ELSE Quotable(result)
         /\ \A between \in result + 1 .. price : ~Quotable(between)
=============================================================================
