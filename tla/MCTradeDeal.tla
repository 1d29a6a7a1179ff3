----------------------------- MODULE MCTradeDeal -----------------------------
EXTENDS TradeDeal, TLC

CONSTANTS m3, m5, m6

Cheap == [price |-> 6, duration |-> 5]
Dear == [price |-> 7, duration |-> 10]
TwoDeals == {Cheap, Dear}
=============================================================================
