------------------------------ MODULE DepositForm ------------------------------
(***************************************************************************)
(* The fields of the deposit dialog before anything is sent                *)
(* (components/StellarFiatModal.tsx): what the wallet holds, what the fee  *)
(* and the value in fiat of the amount typed would be, and the two         *)
(* confirmations of a large amount (lib/stellarFiatModalSchema.ts).  What  *)
(* happens to a transaction sent is module DepositModal.                   *)
(***************************************************************************)
EXTENDS Naturals, FiniteSets

CONSTANTS FormWallets,    \* accounts that may be connected
          Amounts,        \* amounts typed, in stroops; 0 is none or invalid
          HighValue,      \* highValueThreshold
          BridgeLimits,   \* limits the contract may report
          MaxFormMoves    \* changes of the form

ASSUME DepositFormAssumption ==
  /\ FormWallets \subseteq Nat \ {0} /\ Amounts \subseteq Nat
  /\ HighValue \in Nat /\ BridgeLimits \subseteq Nat \ {0} /\ MaxFormMoves \in Nat

VARIABLES
  formOpen, formAdmin, formWallet,   \* isOpen, isAdminMode, connection (0: none)
  amount, formMoves,
  limit, limitLoading,               \* bridgeLimit (0: none) of useBridgeStats
  balance, balanceLoading, balanceReads,
  fee, feeLoading, simulations,
  estimate, priceReads,              \* fiatEstimate
  riskTyped,                         \* riskConfirmation is the phrase
  twoFactor,                         \* showTwoFactorModal, twoFactorConfirmation
  riskWarned,                            \* lastLoggedRiskAmount
  sentForm                           \* what executeTransaction was last given

formFields == <<formOpen, formAdmin, formWallet, amount>>
formReads == <<balance, balanceLoading, balanceReads, fee, feeLoading, simulations,
           estimate, priceReads>>
confirmations == <<riskTyped, twoFactor, riskWarned>>
limits == <<limit, limitLoading>>
formVars == <<formFields, formMoves, limits, formReads, confirmations, sentForm>>

NoFee == [wallet |-> 0, amount |-> 0]
NoTwoFactor == [shown |-> FALSE, typed |-> "none"]
NotSent == [amount |-> 0, risk |-> FALSE, twoFactor |-> "none"]

(* isRiskyAmount (two-factor on, as it is unless switched off)             *)
Risky(a) == a >= HighValue
LimitAllows == formAdmin \/ (~limitLoading /\ limit # 0 /\ amount <= limit)

FormInit ==
  /\ formOpen = FALSE /\ formAdmin \in BOOLEAN /\ formWallet \in FormWallets \cup {0}
  /\ amount = 0 /\ formMoves = 0 /\ limit = 0 /\ limitLoading = FALSE
  /\ balance = 0 /\ balanceLoading = FALSE /\ balanceReads = {}
  /\ fee = NoFee /\ feeLoading = FALSE /\ simulations = {}
  /\ estimate = 0 /\ priceReads = {}
  /\ riskTyped = FALSE /\ twoFactor = NoTwoFactor /\ riskWarned = 0
  /\ sentForm = NotSent

(***************************************************************************)
(* The effects, run when the form becomes [open, wallet, amount].  An      *)
(* effect that runs again cancels the read of the run before; none of them *)
(* takes back the loading flag of the read it cancels.                     *)
(***************************************************************************)
BalanceEffect(open, wallet) ==
  IF <<open, wallet>> = <<formOpen, formWallet>>
    THEN UNCHANGED <<balance, balanceLoading, balanceReads>>
  ELSE IF ~open \/ wallet = 0
    THEN balance' = 0 /\ balanceReads' = {} /\ UNCHANGED balanceLoading
    ELSE balanceReads' = {wallet} /\ balanceLoading' = TRUE /\ UNCHANGED balance

(* simulate, after half a second without a change                          *)
FeeEffect(open, wallet, a) ==
  IF <<open, wallet, a>> = <<formOpen, formWallet, amount>>
    THEN UNCHANGED <<fee, feeLoading, simulations>>
  ELSE IF ~open \/ wallet = 0 \/ a = 0
    THEN fee' = NoFee /\ simulations' = {} /\ UNCHANGED feeLoading
    ELSE /\ simulations' = {[wallet |-> wallet, amount |-> a]}
         /\ feeLoading' = TRUE
         /\ fee' = IF open # formOpen THEN NoFee ELSE fee

EstimateEffect(a) ==
  IF a = amount THEN UNCHANGED <<estimate, priceReads>>
  ELSE IF a = 0 THEN estimate' = 0 /\ priceReads' = {}
  ELSE priceReads' = {a} /\ UNCHANGED estimate

(* a large amount is logged once while it stays the same                   *)
WarnEffect(open, a, earlier) ==
  riskWarned' = IF open /\ Risky(a) /\ a # 0 THEN a ELSE earlier

FormBecomes(open, wallet, a) ==
  /\ formMoves < MaxFormMoves /\ formMoves' = formMoves + 1
  /\ formOpen' = open /\ formWallet' = wallet /\ amount' = a
  /\ BalanceEffect(open, wallet) /\ FeeEffect(open, wallet, a) /\ EstimateEffect(a)
  /\ UNCHANGED <<formAdmin, sentForm>>

(* The dialog opens: the reset effect, with the amount of the chat; the    *)
(* second factor is not reset.                                             *)
OpenForm(a) ==
  /\ ~formOpen
  /\ FormBecomes(TRUE, formWallet, a)
  /\ riskTyped' = FALSE /\ WarnEffect(TRUE, a, 0)
  /\ limitLoading' = (limitLoading \/ ~formAdmin)
  /\ UNCHANGED <<limit, twoFactor>>

CloseForm ==
  /\ formOpen
  /\ FormBecomes(FALSE, formWallet, amount)
  /\ UNCHANGED <<limits, confirmations>>

WalletChanges(w) ==
  /\ w # formWallet
  /\ FormBecomes(formOpen, w, amount)
  /\ UNCHANGED <<limits, confirmations>>

(* the field and the presets                                               *)
SetAmount(a) ==
  /\ formOpen /\ a # amount
  /\ FormBecomes(TRUE, formWallet, a)
  /\ WarnEffect(TRUE, a, riskWarned)
  /\ UNCHANGED <<limits, riskTyped, twoFactor>>

(***************************************************************************)
(* Answers                                                                 *)
(***************************************************************************)
LimitKnown(l) ==
  /\ limitLoading /\ limitLoading' = FALSE
  /\ limit' = l
  /\ UNCHANGED <<formFields, formMoves, formReads, confirmations, sentForm>>

BalanceKnown(w, ok) ==
  /\ w \in balanceReads /\ balanceReads' = {}
  /\ balance' = IF ok THEN w ELSE 0
  /\ balanceLoading' = FALSE
  /\ UNCHANGED <<formFields, formMoves, limits, fee, feeLoading, simulations, estimate,
                 priceReads, confirmations, sentForm>>

Simulated(s, ok) ==
  /\ s \in simulations /\ simulations' = {}
  /\ fee' = IF ok THEN s ELSE NoFee
  /\ feeLoading' = FALSE
  /\ UNCHANGED <<formFields, formMoves, limits, balance, balanceLoading, balanceReads,
                 estimate, priceReads, confirmations, sentForm>>

Estimated(a, ok) ==
  /\ a \in priceReads /\ priceReads' = {}
  /\ estimate' = IF ok THEN a ELSE 0
  /\ UNCHANGED <<formFields, formMoves, limits, balance, balanceLoading, balanceReads,
                 fee, feeLoading, simulations, confirmations, sentForm>>

(***************************************************************************)
(* Sending                                                                 *)
(***************************************************************************)
TypeRisk ==
  /\ formOpen /\ Risky(amount) /\ riskTyped' = ~riskTyped
  /\ UNCHANGED <<formFields, formMoves, limits, formReads, twoFactor, riskWarned, sentForm>>

TypeTwoFactor(t) ==
  /\ formOpen /\ twoFactor.shown /\ t # twoFactor.typed
  /\ twoFactor' = [twoFactor EXCEPT !.typed = t]
  /\ UNCHANGED <<formFields, formMoves, limits, formReads, riskTyped, riskWarned, sentForm>>

CancelTwoFactor ==
  /\ formOpen /\ twoFactor.shown
  /\ twoFactor' = NoTwoFactor
  /\ UNCHANGED <<formFields, formMoves, limits, formReads, riskTyped, riskWarned, sentForm>>

(* validateStellarFiatModalForm: an empty second factor is an optional one *)
FormValid ==
  /\ amount > 0
  /\ ~formAdmin /\ Risky(amount) =>
       riskTyped /\ (twoFactor.shown => twoFactor.typed \in {"none", "full"})

(* handleAction, from the submit button or the second factor's Confirm:    *)
(* the first call for a large amount only asks for the second factor.      *)
HandleAction ==
  /\ formOpen /\ formWallet # 0
  /\ \/ twoFactor.shown
     \/ /\ amount > 0 /\ LimitAllows
        /\ Risky(amount) => riskTyped
  /\ IF Risky(amount) /\ ~twoFactor.shown
       THEN twoFactor' = [twoFactor EXCEPT !.shown = TRUE] /\ UNCHANGED sentForm
       ELSE /\ FormValid /\ LimitAllows
            /\ sentForm' = [amount |-> amount, risk |-> riskTyped, twoFactor |-> twoFactor.typed]
            /\ UNCHANGED twoFactor
  /\ UNCHANGED <<formFields, formMoves, limits, formReads, riskTyped, riskWarned>>

FormNext ==
  \/ \E a \in Amounts : OpenForm(a) \/ SetAmount(a)
  \/ CloseForm
  \/ \E w \in FormWallets \cup {0} : WalletChanges(w)
  \/ \E l \in BridgeLimits \cup {0} : LimitKnown(l)
  \/ \E w \in balanceReads, ok \in BOOLEAN : BalanceKnown(w, ok)
  \/ \E s \in simulations, ok \in BOOLEAN : Simulated(s, ok)
  \/ \E a \in priceReads, ok \in BOOLEAN : Estimated(a, ok)
  \/ TypeRisk \/ CancelTwoFactor \/ HandleAction
  \/ \E t \in {"none", "short", "full"} : TypeTwoFactor(t)

FormSpec == FormInit /\ [][FormNext]_formVars

(***************************************************************************)
(* Properties                                                              *)
(***************************************************************************)
(* The form's state is of its shape.                                       *)
DepositFormTypeOK ==
  /\ {formOpen, formAdmin, balanceLoading, feeLoading, riskTyped} \subseteq BOOLEAN
  /\ {amount, estimate, riskWarned} \subseteq Amounts \cup {0}
  /\ {formWallet, balance} \subseteq FormWallets \cup {0}
  /\ balanceReads \subseteq FormWallets /\ priceReads \subseteq Amounts

(* The fee and the balance drawn (neither is while its flag is up) are     *)
(* those of the amount typed and of the wallet connected now: an answer to *)
(* an earlier one never shows (StellarFiatModal.tsx:117-158, 285-344).     *)
FiguresAreCurrent ==
  /\ ~feeLoading /\ fee # NoFee => fee = [wallet |-> formWallet, amount |-> amount]
  /\ ~balanceLoading /\ balance # 0 => balance = formWallet

=============================================================================
