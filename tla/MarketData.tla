----------------------------- MODULE MarketData -----------------------------
(***************************************************************************)
(* Prices: the ticker's refresh and retry timers                           *)
(* (components/PriceTicker.tsx), and the conversion under a message        *)
(* (hooks/useCurrencyConversion.ts) over its cache of rates and the price  *)
(* service (lib/cryptoPriceService.ts), whose fallback prices stand in for *)
(* a failed request.                                                       *)
(***************************************************************************)
EXTENDS Naturals, FiniteSets

CONSTANTS Currencies,   \* fiat currencies a user chooses from; 1 is the first
          MaxTicks,     \* fetches of the ticker
          MaxConverts   \* conversions started

ASSUME MarketAssumption ==
  1 \in Currencies /\ MaxTicks \in Nat \ {0} /\ MaxConverts \in Nat \ {0}

VARIABLES
  ticks, tickFetches,      \* ticker fetches started and under way
  retryTimers,             \* retry timers pending, one of them known to the ref
  knownTimer,              \* retryTimeoutRef is set
  tickError, tickData, tickStale, tickerMounted,
  currency,                \* the preference
  converts, rateFetches,   \* conversions started and under way
  rateCache,               \* currencies with a cached rate, by its source
  converting, convError,
  fiatShown                \* currency and source of the amount shown

tickerVars == <<ticks, tickFetches, retryTimers, knownTimer, tickError, tickData,
                tickStale, tickerMounted>>
rateVars == <<currency, converts, rateFetches, rateCache, converting, convError,
              fiatShown>>
marketVars == <<tickerVars, rateVars>>

NoRate == "none"
Nothing == [currency |-> 0, source |-> NoRate]

MarketInit ==
  /\ ticks = 1 /\ tickFetches = 1 /\ retryTimers = 0 /\ knownTimer = FALSE
  /\ tickError = FALSE /\ tickData = FALSE /\ tickStale = FALSE
  /\ tickerMounted = TRUE
  /\ currency = 1 /\ converts = 1
  /\ rateFetches = {[id |-> 1, currency |-> 1]}
  /\ rateCache = [c \in Currencies |-> NoRate]
  /\ converting = TRUE /\ convError = FALSE /\ fiatShown = Nothing

(***************************************************************************)
(* The ticker                                                              *)
(***************************************************************************)
(* fetchPrices, up to its await: the timer the ref knows is cleared        *)
FetchPrices ==
  /\ tickerMounted /\ ticks < MaxTicks
  /\ ticks' = ticks + 1 /\ tickFetches' = tickFetches + 1
  /\ knownTimer' = FALSE /\ tickError' = FALSE
  /\ UNCHANGED <<tickData, tickStale, tickerMounted, rateVars>>

(* The refresh interval, the key R, and an effect run again                *)
RefreshPrices ==
  FetchPrices /\ retryTimers' = IF knownTimer THEN retryTimers - 1 ELSE retryTimers

(* The retry timer the ref knows fires, or one it lost to a later failure. *)
RetryFires ==
  /\ knownTimer /\ retryTimers' = retryTimers - 1
  /\ FetchPrices

LostTimerFires ==
  LET known == IF knownTimer THEN 1 ELSE 0
  IN /\ retryTimers > known
     /\ retryTimers' = retryTimers - 1 - known
     /\ FetchPrices

TickerAnswers ==
  /\ tickFetches > 0
  /\ tickFetches' = tickFetches - 1
  /\ IF tickerMounted THEN tickData' = TRUE /\ tickStale' = FALSE
                      ELSE UNCHANGED <<tickData, tickStale>>
  /\ UNCHANGED <<ticks, retryTimers, knownTimer, tickError, tickerMounted, rateVars>>

(* No prices (fetchTickerData swallows its errors): try again later        *)
TickerFails ==
  /\ tickFetches > 0
  /\ tickFetches' = tickFetches - 1
  /\ IF tickerMounted
       THEN /\ tickError' = TRUE /\ tickStale' = tickData
            /\ retryTimers' = retryTimers + 1 /\ knownTimer' = TRUE
       ELSE UNCHANGED <<tickError, tickStale, retryTimers, knownTimer>>
  /\ UNCHANGED <<ticks, tickData, tickerMounted, rateVars>>

TickerUnmounts ==
  /\ tickerMounted /\ tickerMounted' = FALSE
  /\ retryTimers' = IF knownTimer THEN retryTimers - 1 ELSE retryTimers
  /\ knownTimer' = FALSE
  /\ UNCHANGED <<ticks, tickFetches, tickError, tickData, tickStale, rateVars>>

(***************************************************************************)
(* The conversion                                                          *)
(***************************************************************************)
(* convertAmount: a fresh rate of the cache, or a fetch                    *)
Convert(c, force) ==
  /\ converts < MaxConverts /\ converts' = converts + 1
  /\ convError' = FALSE
  /\ IF ~force /\ rateCache[c] # NoRate
       THEN /\ fiatShown' = [currency |-> c, source |-> rateCache[c]]
            /\ converting' = FALSE
            /\ UNCHANGED rateFetches
       ELSE /\ rateFetches' = rateFetches \cup {[id |-> converts + 1, currency |-> c]}
            /\ converting' = TRUE
            /\ UNCHANGED fiatShown

(* The preference changes, and with it the effect's callback.              *)
ChooseCurrency(c) ==
  /\ c # currency /\ currency' = c
  /\ Convert(c, FALSE)
  /\ UNCHANGED <<rateCache, tickerVars>>

ForceRefresh ==
  Convert(currency, TRUE) /\ UNCHANGED <<currency, rateCache, tickerVars>>

(* fetchCryptoPrices never fails: CoinGecko's price or a built-in one      *)
RateArrives(f, source) ==
  /\ f \in rateFetches
  /\ rateFetches' = rateFetches \ {f}
  /\ rateCache' = [rateCache EXCEPT ![f.currency] = source]
  /\ fiatShown' = [currency |-> f.currency, source |-> source]
  /\ converting' = FALSE /\ convError' = FALSE
  /\ UNCHANGED <<currency, converts, tickerVars>>

(* The answer has no price for the pair.                                   *)
RateMissing(f) ==
  /\ f \in rateFetches
  /\ rateFetches' = rateFetches \ {f}
  /\ fiatShown' = Nothing /\ convError' = TRUE /\ converting' = FALSE
  /\ UNCHANGED <<currency, converts, rateCache, tickerVars>>

RateExpires(c) ==
  /\ rateCache[c] # NoRate /\ rateCache' = [rateCache EXCEPT ![c] = NoRate]
  /\ UNCHANGED <<currency, converts, rateFetches, converting, convError, fiatShown,
                 tickerVars>>

TickerNext ==
  \/ RefreshPrices \/ RetryFires \/ LostTimerFires
  \/ TickerAnswers \/ TickerFails \/ TickerUnmounts

RateNext ==
  \/ ForceRefresh
  \/ \E c \in Currencies : ChooseCurrency(c) \/ RateExpires(c)
  \/ \E f \in rateFetches :
       RateMissing(f) \/ \E source \in {"market", "fallback"} : RateArrives(f, source)

MarketNext == TickerNext \/ RateNext

(***************************************************************************)
(* Properties                                                              *)
(***************************************************************************)
(* The prices' state is of its shape.                                      *)
MarketTypeOK ==
  /\ ticks \in 1 .. MaxTicks /\ tickFetches \in 0 .. ticks
  /\ retryTimers \in 0 .. ticks
  /\ {knownTimer, tickError, tickData, tickStale, tickerMounted, converting,
      convError} \subseteq BOOLEAN
  /\ currency \in Currencies /\ converts \in 1 .. MaxConverts
  /\ rateFetches \subseteq [id : 1 .. converts, currency : Currencies]
  /\ rateCache \in [Currencies -> {NoRate, "market", "fallback"}]
  /\ fiatShown.currency \in Currencies \cup {0}

=============================================================================
