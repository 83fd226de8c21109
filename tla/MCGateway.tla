------------------------------ MODULE MCGateway ------------------------------
EXTENDS Gateway

Order(tool, type, side, sizing, amount, limit, stop) ==
  [tool |-> tool, type |-> type, side |-> side, sizing |-> sizing,
   amount |-> amount, limit |-> limit, stop |-> stop, listed |-> TRUE, confirm |-> TRUE]

\* A market order, a limit order, a stop-limit that can never fill, an order
\* of an illegal shape, and one for an amount that is only previewed.
MCRequests ==
  { Order("buy_market", "market", "buy", "asset", 1, 0, 0),
    Order("place_order", "limit", "buy", "asset", 1, 2, 0),
    Order("place_stop_limit", "stop_limit", "sell", "asset", 1, 2, 1),
    Order("place_order", "market", "buy", "quote", 1, 0, 0),
    [Order("buy_limit", "limit", "buy", "quote", 1, 2, 0) EXCEPT !.confirm = FALSE] }
=============================================================================
