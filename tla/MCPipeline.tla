----------------------------- MODULE MCPipeline -----------------------------
(* A small market for Pipeline.                                            *)
EXTENDS Pipeline

Bar(o, h, l, c) == [open |-> o, high |-> h, low |-> l, close |-> c]

Low  == Bar(2, 3, 2, 2)
High == Bar(5, 5, 4, 4)
Rise == Bar(2, 6, 2, 6)
Fall == Bar(5, 5, 1, 1)
Dip  == Bar(4, 5, 3, 5)
Peak == Bar(4, 6, 3, 4)

\* A quiet bar below and above the middle, a rise and a fall through both, a
\* wick up and a wick down, and a high wick.
SevenShapes == {Low, High, Rise, Fall, Bar(3, 4, 2, 2), Dip, Peak}

\* One with swings of both kinds all along, one whose second swing is confirmed
\* by the last bar.
TwoMarkets ==
    {<<Low, High, Low, Rise, Fall, High>>,
     <<Low, Bar(3, 4, 2, 2), Peak, Dip, Low, High>>}

\* Prices that leap: an outside bar in a rise, a fall without falling candles.
JumpShapes ==
    {Bar(1, 2, 1, 2), Bar(4, 4, 3, 4), Rise, Bar(7, 7, 6, 7), Bar(8, 8, 5, 8),
     Bar(9, 9, 6, 9), Bar(9, 9, 8, 8)}

JumpMarkets == {[i \in 1 .. 6 |-> Rise]}
=============================================================================
