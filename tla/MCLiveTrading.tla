----------------------------- MODULE MCLiveTrading -----------------------------
EXTENDS LiveTradingInv, TLC
CONSTANTS m1, m2, user, checker
OneMarket == {m1}
TwoMarkets == {m1, m2}
OneUser == {user}
OneChecker == {checker}
None == {}
Tickers == Permutations(Markets)
=============================================================================
