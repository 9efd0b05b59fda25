------------------------------ MODULE PriceQuotes ------------------------------
(***************************************************************************)
(* The prices behind the estimates and the payout quote                    *)
(* (lib/cryptoPriceService.ts): one cache entry and at most one request in *)
(* flight for each key (a token and a currency), a table of prices for     *)
(* when the market cannot be asked, and the quote locked for two minutes.  *)
(* A price stands for the moment the market quoted it.                     *)
(***************************************************************************)
EXTENDS Naturals, FiniteSets

CONSTANTS Keys,        \* tokens and currencies asked for
          CacheFor,    \* CACHE_DURATION
          LockFor,     \* QUOTE_LOCK_DURATION_MS
          MaxPriceNow, \* bound of the clock
          MaxAsks      \* calls of getTokenPrice

ASSUME PriceQuotesAssumption ==
  /\ CacheFor \in Nat \ {0} /\ LockFor \in Nat /\ MaxPriceNow \in Nat \ {0} /\ MaxAsks \in Nat

(* A price is [from, at]: the market's at that time, or the table's.       *)
NoPrice == [from |-> "nowhere", at |-> 0]
Table == [from |-> "table", at |-> 0]
Market(t) == [from |-> "market", at |-> t]

VARIABLES
  priceNow,
  priceCache,       \* by key: the price and when it was stored; NoPrice
  inflight,         \* by key: the callers waiting for the one request
  asks,             \* calls of getTokenPrice made
  answeredAsks,     \* their answers
  lockedQuote       \* what fetchLockedQuote last returned

priceVars == <<priceNow, priceCache, inflight, asks, answeredAsks, lockedQuote>>

NoEntry == [price |-> NoPrice, stored |-> 0]
NoLock == [price |-> NoPrice, expires |-> 0]

PricesInit ==
  /\ priceNow = 1
  /\ priceCache = [k \in Keys |-> NoEntry]
  /\ inflight = [k \in Keys |-> {}]
  /\ asks = 0 /\ answeredAsks = {} /\ lockedQuote = NoLock

FreshForEver(k) == priceCache[k].price # NoPrice      \* a wrong FreshPrice: no age is looked at

FreshPrice(k) ==
  /\ priceCache[k].price # NoPrice
  /\ priceNow < priceCache[k].stored + CacheFor

(* getTokenPrice, up to its await: the cache's price, or the request in    *)
(* flight, or one of its own.                                              *)
GetTokenPrice(k) ==
  /\ asks < MaxAsks /\ asks' = asks + 1
  /\ IF FreshPrice(k)
       THEN /\ answeredAsks' = answeredAsks \cup {[key |-> k, price |-> priceCache[k].price]}
            /\ UNCHANGED inflight
       ELSE /\ inflight' = [inflight EXCEPT ![k] = @ \cup {asks + 1}]
            /\ UNCHANGED answeredAsks
  /\ UNCHANGED <<priceNow, priceCache, lockedQuote>>

(* doFetchAndCache: fetchCryptoPrices does not throw, a market that cannot *)
(* be asked is the table, and either is stored as of now.                  *)
FetchCryptoPrices(up) == IF up THEN Market(priceNow) ELSE Table

Fetched(k, up) ==
  /\ inflight[k] # {}
  /\ LET price == FetchCryptoPrices(up) IN
       /\ priceCache' = [priceCache EXCEPT ![k] = [price |-> price, stored |-> priceNow]]
       /\ answeredAsks' = answeredAsks \cup {[key |-> k, price |-> price]}
  /\ inflight' = [inflight EXCEPT ![k] = {}]
  /\ UNCHANGED <<priceNow, asks, lockedQuote>>

(* fetchLockedQuote, when its price has arrived: it expires LockFor later. *)
FetchLockedQuote(a) ==
  /\ a \in answeredAsks /\ answeredAsks' = answeredAsks \ {a}
  /\ lockedQuote' = [price |-> a.price, expires |-> priceNow + LockFor]
  /\ UNCHANGED <<priceNow, priceCache, inflight, asks>>

(* an answer is used as soon as it is there                                *)
PriceTimePasses ==
  /\ answeredAsks = {}
  /\ priceNow < MaxPriceNow /\ priceNow' = priceNow + 1
  /\ UNCHANGED <<priceCache, inflight, asks, answeredAsks, lockedQuote>>

PricesNext ==
  \/ \E k \in Keys : GetTokenPrice(k)
  \/ \E k \in Keys, up \in BOOLEAN : Fetched(k, up)
  \/ \E a \in answeredAsks : FetchLockedQuote(a)
  \/ PriceTimePasses

PricesSpec == PricesInit /\ [][PricesNext]_priceVars

(***************************************************************************)
(* Properties                                                              *)
(***************************************************************************)
(* The prices are of their shape.                                          *)
PricesTypeOK ==
  /\ priceNow \in 1 .. MaxPriceNow /\ asks \in 0 .. MaxAsks
  /\ \A k \in Keys : priceCache[k].stored <= priceNow /\ inflight[k] \subseteq 1 .. MaxAsks
  /\ lockedQuote.expires <= priceNow + LockFor

(* A locked quote that a payout may still use rests on a market price no   *)
(* older than a cache entry and a lock can be together, when it rests on   *)
(* the market at all (cryptoPriceService.ts:52, 201-204, 374-402).         *)
QuoteIsRecent ==
  (lockedQuote.price.from = "market" /\ priceNow <= lockedQuote.expires) =>
    priceNow < lockedQuote.price.at + CacheFor + LockFor

=============================================================================
