------------------------------ MODULE OrderGate ------------------------------
(***************************************************************************)
(* The executor between a process and the venue: an order is priced,       *)
(* checked against the policy, sent, and only then counted as spent, with  *)
(* an await between each two of these.                                     *)
(***************************************************************************)
EXTENDS HttpClient

CONSTANTS
  Requests,      \* the orders that may be asked for
  Prices,        \* the quotes a symbol may have; 0 is a quote without a price
  Mode,          \* "guarded" or "autonomous"
  BuyOnly,
  MaxOrderUsd,
  MaxDailyUsd,
  MaxCalls       \* bound: the calls of one caller

ASSUME GateAssumption ==
  /\ MaxOrderUsd \in Nat /\ MaxDailyUsd \in Nat /\ MaxCalls \in Nat
  /\ Prices \subseteq Nat
  /\ \A r \in Requests : r.amount \in Nat /\ r.limit \in Nat /\ r.stop \in Nat

VARIABLES
  task,     \* what each caller is doing
  calls,    \* how many calls it has made
  want,     \* the order it waits to price
  worth,    \* what the order it sends is worth
  spent,    \* the ledger of the process
  account,  \* the account number is known, or not required
  ordered,  \* what the venue accepted, in all
  lost,     \* what it accepted without its answer arriving
  orders    \* how many orders it has in the history

gateVars == <<want, worth, spent, account, ordered, lost, orders>>

Nothing == [type |-> "none"]

GateInit ==
  /\ task = [c \in Callers |-> "idle"]
  /\ calls = [c \in Callers |-> 0]
  /\ want = [c \in Callers |-> Nothing]
  /\ worth = [c \in Callers |-> 0]
  /\ account \in BOOLEAN
  /\ spent = 0 /\ ordered = 0 /\ lost = 0

Call(c, next, request) ==
  task' = [task EXCEPT ![c] = next] /\ req' = [req EXCEPT ![c] = request]

Return(c) == Call(c, "idle", NoRequest)

Arrive(c) == task[c] = "idle" /\ calls[c] < MaxCalls /\ calls' = [calls EXCEPT ![c] = @ + 1]

\* A call that waits for the answer to its request.
Waits(c, for, stage) == task[c] = for /\ req[c].stage = stage

\* The shapes the tools let through: place_order checks them, the schemas of
\* the tools for one order type and their handlers together check them too.
ShapeIsLegal(r) ==
  /\ r.sizing \in {"asset", "quote"}
  /\ r.type = "market" => r.sizing = "asset"
  /\ r.type \in {"limit", "stop_limit"} => r.limit > 0
  /\ r.type \in {"stop_loss", "stop_limit"} => r.stop > 0
  /\ r.tool = "place_stop_limit" =>
       IF r.side = "sell" THEN r.limit <= r.stop ELSE r.limit >= r.stop

NeedsQuote(r) == r.sizing = "asset" /\ r.limit = 0

\* quote_amount is a value; a quantity has the limit price, or the quoted one.
UnitPrice(r, price) ==
  IF r.sizing = "quote" THEN 1 ELSE IF NeedsQuote(r) THEN price ELSE r.limit

Notional(r, price) == r.amount * UnitPrice(r, price)

\* Wrong: the order is compared with the cap, and not what it adds up to.
OrderWithinCap(usd) == usd <= MaxDailyUsd

WithinDailyCap(usd) == spent + usd <= MaxDailyUsd

assertAllowed(r, price) ==
  /\ r.listed
  /\ ~(BuyOnly /\ r.side = "sell")
  /\ NeedsQuote(r) => price > 0
  /\ Notional(r, price) <= MaxOrderUsd
  /\ WithinDailyCap(Notional(r, price))

\* The kill switch is a row that any process may have written by now: an
\* unreadable one counts as engaged.
KillSwitch == {"engaged", "released"}

\* An order that is refused, or only previewed, leaves nothing behind.
Submit(c, r, price) == \E switch \in KillSwitch :
  IF switch = "released" /\ assertAllowed(r, price) /\ (Mode = "autonomous" \/ r.confirm)
  THEN /\ worth' = [worth EXCEPT ![c] = Notional(r, price)]
       /\ IF account THEN Call(c, "posting", Post) ELSE Call(c, "account", Get)
  ELSE Return(c) /\ UNCHANGED worth

submitOrder(c, r) ==
  /\ Arrive(c)
  /\ ShapeIsLegal(r)
  /\ \/ Return(c) /\ UNCHANGED <<want, worth>>  \* halted
     \/ /\ NeedsQuote(r)
        /\ Call(c, "pricing", Get)
        /\ want' = [want EXCEPT ![c] = r]
        /\ UNCHANGED worth
     \/ ~NeedsQuote(r) /\ Submit(c, r, 0) /\ UNCHANGED want
  /\ UNCHANGED <<spent, account, ordered, lost, orders>>

Priced(c) ==
  /\ Waits(c, "pricing", "answered")
  /\ \E price \in Prices : Submit(c, want[c], price)
  /\ want' = [want EXCEPT ![c] = Nothing]
  /\ UNCHANGED <<calls, spent, account, ordered, lost, orders>>

\* The answer may hold no account; nothing is checked again after this await.
AccountRead(c) ==
  /\ Waits(c, "account", "answered")
  /\ \/ account' = TRUE /\ Call(c, "posting", Post) /\ UNCHANGED worth
     \/ Return(c) /\ worth' = [worth EXCEPT ![c] = 0] /\ UNCHANGED account
  /\ UNCHANGED <<calls, want, spent, ordered, lost, orders>>

\* Wrong: what was sent is not recorded.
NotRecorded(c) == spent

Recorded(c) == spent + worth[c]

Posted(c) ==
  /\ Waits(c, "posting", "answered")
  /\ spent' = Recorded(c)
  /\ worth' = [worth EXCEPT ![c] = 0]
  /\ Return(c)
  /\ UNCHANGED <<calls, want, account, ordered, lost, orders>>

\* A cancel is neither gated nor counted, and is not retried.
cancelOrder(c) == Arrive(c) /\ Call(c, "cancelling", Post) /\ UNCHANGED gateVars

Cancelled(c) == Waits(c, "cancelling", "answered") /\ Return(c) /\ UNCHANGED <<calls, gateVars>>

\* The error reaches the caller of the tool; a write is never tried again.
CallFails(c) ==
  /\ \E for \in {"pricing", "account", "posting", "cancelling"} : Waits(c, for, "failed")
  /\ Return(c)
  /\ want' = [want EXCEPT ![c] = Nothing]
  /\ worth' = [worth EXCEPT ![c] = 0]
  /\ UNCHANGED <<calls, spent, account, ordered, lost, orders>>

\* The venue takes the order, and its answer arrives or not.
Accept(c, answer) ==
  /\ task[c] = "posting"
  /\ answer
  /\ ordered' = ordered + worth[c]
  /\ orders' = orders + 1

OrderAnswered(c) == Accept(c, Answer(c)) /\ UNCHANGED lost
AnswerLost(c)    == Accept(c, Fail(c)) /\ lost' = lost + worth[c]
=============================================================================
