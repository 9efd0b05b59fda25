------------------------------- MODULE MCMoney -------------------------------
(***************************************************************************)
(* The money side of the frontend for TLC: the deposit, the payout and     *)
(* their server routes, prices, the wallet, receipts, and the pages around *)
(* them.  As in MCChat, one part moves in each scene; the payout dialog    *)
(* moves together with the tracker of transfers it is built on.            *)
(***************************************************************************)
EXTENDS PayoutWizard, DepositModal, DepositForm, PriceQuotes, MarketData, ServerRoutes,
        AuditDesk, AdminDesk, BridgeStats, Receipts, Wallet, Preferences, TLC

CONSTANTS MoneyScenes   \* the parts that move in the run

VARIABLE scene

pageVars == <<open, step, deposit, form, prices, flows, payoutLoading, payoutFailed,
              tracking, paidFor>>

mcVars == <<scene, wizardVars, depositVars, formVars, priceVars, marketVars, serverVars,
            auditVars, adminVars, statsVars, receiptsVars, walletVars, preferenceVars>>

-----------------------------------------------------------------------------
(* Values for the configurations.                                          *)
OneSaved == {[bank |-> 2, account |-> 1]}
OnePerWindow == [r \in ApiRoutes |-> 1]
SomeEntries == <<"a", "b", "a", "a">>

-----------------------------------------------------------------------------
(* A part that does not move begins in one of its initial states.          *)
MCMoneyInit ==
    /\ scene \in MoneyScenes
    /\ WizardInit
    /\ DepositInit
    /\ FormInit /\ (scene # "form" => ~formAdmin /\ formWallet = 0)
    /\ PricesInit
    /\ MarketInit
    /\ ServerInit
    /\ AuditInit
    /\ AdminInit /\ (scene # "admin" => ~secret /\ allowlist = "disabled")
    /\ StatsInit
    /\ ReceiptsInit /\ (scene # "receipts" => url = Unset)
    /\ WalletInit
    /\ (scene # "wallet" => walletKept = NothingKept /\ walletActive = 1 /\ net = "testnet")
    /\ PreferencesInit

(* The tracker alone follows one transfer of two sessions; the dialog's    *)
(* scene leaves webhooks and restarts to it.                               *)
OneTransfer == \A r \in Refs : provider'[r] # "none" => r = 1
NoHooks == hooks' = {} /\ restarts' = 0

(* One handler runs at a time: handlers share only the windows and spans,  *)
(* each of which is read and written between two awaits.                   *)
OneHandler == Cardinality(handling') <= 1

(* The ticker and the conversions touch disjoint state.                    *)
OneMarket == ticks' = 1 \/ converts' = 1

MCMoneyNext ==
    /\ UNCHANGED scene
    /\ IF scene = "tracker" THEN TrackerNext /\ OneTransfer /\ UNCHANGED pageVars
       ELSE IF scene = "payout" THEN WizardNext /\ NoHooks
       ELSE UNCHANGED wizardVars
    /\ IF scene = "deposit" THEN DepositNext ELSE UNCHANGED depositVars
    /\ IF scene = "form" THEN FormNext ELSE UNCHANGED formVars
    /\ IF scene = "prices" THEN PricesNext ELSE UNCHANGED priceVars
    /\ IF scene = "market" THEN MarketNext /\ OneMarket ELSE UNCHANGED marketVars
    /\ IF scene = "server" THEN ServerNext /\ OneHandler ELSE UNCHANGED serverVars
    /\ IF scene = "audit" THEN AuditNext ELSE UNCHANGED auditVars
    /\ IF scene = "admin" THEN AdminNext ELSE UNCHANGED adminVars
    /\ IF scene = "stats" THEN StatsNext ELSE UNCHANGED statsVars
    /\ IF scene = "receipts" THEN ReceiptsNext ELSE UNCHANGED receiptsVars
    /\ IF scene = "wallet" THEN WalletNext ELSE UNCHANGED walletVars
    /\ IF scene = "preferences" THEN PreferencesNext ELSE UNCHANGED preferenceVars

MCMoneySpec == MCMoneyInit /\ [][MCMoneyNext]_mcVars

-----------------------------------------------------------------------------
(* Every part's state is of its shape.                                     *)
MoneyPartsTypeOK ==
    /\ scene \in MoneyScenes
    /\ TrackerTypeOK /\ WizardTypeOK /\ DepositTypeOK /\ DepositFormTypeOK /\ PricesTypeOK
    /\ MarketTypeOK /\ ServerTypeOK /\ AuditTypeOK /\ AdminTypeOK /\ StatsTypeOK
    /\ ReceiptsTypeOK /\ WalletTypeOK /\ PreferencesTypeOK

(* A late answer is not shown for what is asked now: the deposit's figures *)
(* are of the amount and wallet in the form, the contract's figures of the *)
(* newest fetch, the audit table's rows of the query on screen.            *)
LateAnswersDiscarded == FiguresAreCurrent /\ StatsAreNewest /\ RowsMatchQuery
=============================================================================
