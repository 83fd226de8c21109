---------------------------- MODULE MCFillReports ----------------------------
EXTENDS FillReports

Dealt(asset, quantities, prices) ==
  [asset : {asset}, side : {"buy", "sell"}, quantity : quantities, price : prices, dated : {TRUE}]

\* Uneven lots of one asset, a second asset beside it, and trades without a time.
MCFills ==
  Dealt("btc", {1, 2}, {1, 3}) \cup Dealt("eth", {1}, {1, 2})
    \cup [asset : {"btc"}, side : {"buy", "sell"}, quantity : {1}, price : {2}, dated : {FALSE}]
=============================================================================
