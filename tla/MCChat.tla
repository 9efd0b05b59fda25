-------------------------------- MODULE MCChat --------------------------------
(***************************************************************************)
(* The chat side of the frontend for TLC.  Its parts share no state that   *)
(* the models keep, so one of them, chosen at the start, moves in each     *)
(* scene and the others stay as they begin: every part's own interleavings *)
(* are explored and their product, which would show nothing more, is not.  *)
(***************************************************************************)
EXTENDS ChatSession, SessionStore, Composer, MessageRetry, Assistant, ChatSearch,
        MessageText, SplitView, ChatShell, Alerts, Dialogs, Telemetry, TLC

CONSTANTS ChatScenes   \* the parts that move in the run

VARIABLE scene

mcVars == <<scene, chatVars, historyVars, boxVars, retryVars, assistantVars, searchVars,
            textVars, splitVars, shellVars,
            messageListVars, sideListVars, alertsVars, dialogsVars, telemetryVars>>

-----------------------------------------------------------------------------
(* Values for the configurations.                                          *)
Msg(role, day, words) == [role |-> role, day |-> day, words |-> words]
OldHistory ==
    <<[wallet |-> 1,
       messages |-> <<Msg("user", 1, {1}), Msg("assistant", 1, {1, 2}), Msg("system", 1, {1})>>]>>
SomeHistories ==
    {OldHistory, OldHistory \o <<[wallet |-> 0, messages |-> <<Msg("user", 1, {2})>>]>>}

SomeLower == (0 :> <<0>>) @@ (1 :> <<1>>) @@ (2 :> <<2>>) @@ (3 :> <<2>>) @@ (4 :> <<1, 0>>)
SomeTerms == <<[word |-> <<1, 1>>, whole |-> FALSE], [word |-> <<2, 1>>, whole |-> TRUE],
               [word |-> <<1, 2>>, whole |-> FALSE]>>

PlainMessage ==
    [hits |-> {}, offTopic |-> FALSE, inDomain |-> FALSE, grouped |-> FALSE, token |-> FALSE,
     fiat |-> FALSE, faq |-> "none", amount |-> 50, cancels |-> FALSE]
SomeMessages ==
    {PlainMessage, [PlainMessage EXCEPT !.amount = 0, !.token = TRUE], [PlainMessage EXCEPT !.amount = 1000],
     [PlainMessage EXCEPT !.amount = 1000, !.grouped = TRUE],
     [PlainMessage EXCEPT !.faq = "fiat_conversion"], [PlainMessage EXCEPT !.cancels = TRUE],
     [PlainMessage EXCEPT !.hits = {"malicious_activity"}, !.faq = "fiat_conversion"],
     [PlainMessage EXCEPT !.offTopic = TRUE], [PlainMessage EXCEPT !.offTopic = TRUE, !.inDomain = TRUE]}
Said == [json |-> TRUE, intent |-> "query", low |-> FALSE, amountIn |-> 0, guardrail |-> FALSE]
SomeAnswers ==
    [json : {TRUE}, intent : Intents, low : {FALSE}, amountIn : {0, 7}, guardrail : {FALSE}]
    \cup {[Said EXCEPT !.json = FALSE], [Said EXCEPT !.guardrail = TRUE],
          [Said EXCEPT !.intent = "guardrail", !.guardrail = TRUE],
          [Said EXCEPT !.intent = "fiat_conversion", !.low = TRUE],
          [Said EXCEPT !.intent = "fiat_conversion", !.low = TRUE, !.amountIn = 7]}

SomeContrast ==
    [p \in {"light", "dark", "grey"} \X {"light", "dark", "grey"} |->
        IF p[1] = p[2] THEN 1 ELSE IF {p[1], p[2]} = {"light", "grey"} THEN 3 ELSE 5]

-----------------------------------------------------------------------------
(* A part that does not move begins in one of its initial states.          *)
MCChatInit ==
    /\ scene \in ChatScenes
    /\ ChatInit /\ (scene # "session" => online)
    /\ StoreInit
    /\ ComposerInit /\ (scene # "composer" => linked)
    /\ RetryInit
    /\ AssistantInit
    /\ SearchInit /\ (scene # "search" => history = OldHistory)
    /\ TextInit
    /\ SplitInit /\ (scene # "split" => threads = {} /\ browserOnline)
    /\ ShellInit /\ (scene # "shell" => shellOnline /\ ~narrow)
    /\ ListInit /\ (scene # "messages" => listed = 0)
    /\ AlertsInit /\ (scene # "alerts" => payments = <<>>)
    /\ BannerInit /\ (scene # "banner" => netUp)
    /\ DialogsInit
    /\ TelemetryInit /\ (scene # "telemetry" => ~consentKept)

(* The shell's groups of effects touch disjoint state: the wallet's play   *)
(* with no side sheet on screen and before the connection drops, the       *)
(* panels' with a wallet that changed once.                                *)
ShellFewSides ==
    /\ moves' = 0 \/ (flips' = 0 /\ ~sidebar' /\ ~sheet' /\ ~closing' /\ forgotten' = 0)
    /\ flips' = 0 \/ (~sidebar' /\ ~sheet' /\ ~depositOpen' /\ ~bankOpen')
    /\ moves' <= 1 \/ ~(depositOpen' \/ bankOpen' \/ adminMode')

(* A text is masked or searched: the display reads no keyword, the excerpt *)
(* no mask.                                                                *)
TextOneSide == keyword' = <<>> \/ (~maskOn' /\ maskStyle' = "asterisk")

(* Toasts and the notifications they leave, or the watched wallet, and the *)
(* stream of statuses broken before either.                                *)
AlertsOneSide ==
    /\ noteCount' = 0 \/ polled' = 0
    /\ streamOpen' \/ (polled' = 0 /\ noteCount' = 0)

MCChatNext ==
    /\ UNCHANGED scene
    /\ IF scene = "session" THEN ChatNext ELSE UNCHANGED chatVars
    /\ IF scene = "store" THEN StoreNext ELSE UNCHANGED historyVars
    /\ IF scene = "composer" THEN ComposerNext ELSE UNCHANGED boxVars
    /\ IF scene = "retry" THEN RetryNext ELSE UNCHANGED retryVars
    /\ IF scene = "assistant" THEN AssistantNext ELSE UNCHANGED assistantVars
    /\ IF scene = "search" THEN SearchNext ELSE UNCHANGED searchVars
    /\ IF scene = "text" THEN TextNext /\ TextOneSide ELSE UNCHANGED textVars
    /\ IF scene = "split" THEN SplitNext ELSE UNCHANGED splitVars
    /\ IF scene = "shell" THEN ShellNext /\ ShellFewSides ELSE UNCHANGED shellVars
    /\ IF scene = "messages" THEN MessageListNext ELSE UNCHANGED messageListVars
    /\ IF scene = "sidebar" THEN SideListNext ELSE UNCHANGED sideListVars
    /\ IF scene = "alerts" THEN AlertsNext /\ AlertsOneSide /\ UNCHANGED bannerVars
       ELSE IF scene = "banner" THEN BannerNext ELSE UNCHANGED alertsVars
    /\ IF scene = "dialogs" THEN DialogsNext ELSE UNCHANGED dialogsVars
    /\ IF scene = "telemetry" THEN TelemetryNext ELSE UNCHANGED telemetryVars

MCChatSpec == MCChatInit /\ [][MCChatNext]_mcVars

-----------------------------------------------------------------------------
(* Every part's state is of its shape.                                     *)
ChatPartsTypeOK ==
    /\ scene \in ChatScenes
    /\ ChatTypeOK /\ StoreTypeOK /\ ComposerTypeOK /\ RetryTypeOK /\ AssistantTypeOK
    /\ SearchTypeOK /\ TextTypeOK /\ SplitTypeOK /\ ShellTypeOK /\ AlertsTypeOK
    /\ DialogsTypeOK /\ TelemetryTypeOK /\ ListTypeOK

(* A message is answered once in a page load, and no two calls race to     *)
(* move the machine: over sends, cancellations, replays, restores and      *)
(* reloads (useChat.ts:602-700).                                           *)
OneAnswerEach == OneAnswerToCome /\ AnsweredOncePerLoad

(* The saved history stays coherent over its three copies, and what is     *)
(* deleted out of it is what the undo button is for (useChatHistory.ts:143,*)
(* ChatHistorySidebar.tsx:391).                                            *)
HistoryKept == HistoryCoherent /\ DeletionUndoable

(* No draft is shown in another chat, and none that was sent comes back    *)
(* (ChatInput.tsx:287).                                                    *)
DraftsFollowUser == DraftsStayHome /\ SentStaysSent

(* What the screen shows is of now: no depth of an earlier wallet session, *)
(* no results of earlier filters once the search is done, no "back online" *)
(* without an "offline" nor an offline banner that stays, no page locked   *)
(* by a dialog that is gone, no list cut to the size of an earlier one.    *)
ScreenIsCurrent ==
    /\ DepthOfThisSession /\ SearchSettles /\ ToastsMatchStatus /\ BannerGoes
    /\ ScrollFollowsDialogs /\ ListsShowEnough /\ PlaceIsKept
=============================================================================
