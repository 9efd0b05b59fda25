----------------------------- MODULE AdminDesk -----------------------------
(***************************************************************************)
(* The administrator's dashboard (app/admin/page.tsx) and the routes it    *)
(* calls: /api/admin/audit-log (GET a page, DELETE everything) and         *)
(* /api/admin/reconciliation, behind requireAdminAuth and the allowlist of *)
(* lib/security.ts.  The pages send no token of their own; `secret` says   *)
(* whether something before the server (a proxy) adds the header.          *)
(*                                                                         *)
(* Every change of page or filter asks twice: the handler asks, and so     *)
(* does the effect on the page and the filter.  An answer sets the page    *)
(* it is for, which may start the effect again.                            *)
(***************************************************************************)
EXTENDS Integers, Sequences, FiniteSets, Bags, SequencesExt, Lists

CONSTANTS Entries,         \* the log the server starts with: a sequence of kinds
          Kinds,           \* the kinds of action
          PageRows,        \* DEFAULT_PAGE_SIZE
          MaxDeskMoves     \* bound: clicks of the administrator

ASSUME DeskAssumption ==
    Entries \in Seq(Kinds) /\ PageRows \in Nat \ {0} /\ MaxDeskMoves \in Nat

VARIABLES
    secret, allowlist,   \* the deployment: the header is added; the caller's verdict
    adminLog,            \* mockAuditLogData, in the server's memory
    deskPage, deskFilter,          \* auditPage, actionFilter
    rows, total, totalPages,       \* the answer drawn
    deskLoading, deskError,
    guess,               \* optimisticPage and optimisticFilter; page 0 for null
    requests,            \* bag of GETs in flight
    job,                 \* the CSV export under way; page 0 for none
    exportShown,         \* optimisticExportSuccess
    exportTimers,
    dialog,              \* the clear dialog: open, the phrase typed, confirming
    deleting,            \* the DELETE is in flight
    recon,               \* reconciliation records: "loading", "shown", "none"
    deskMoves

served == <<secret, allowlist>>
exportVars == <<job, exportShown, exportTimers>>
dialogVars == <<dialog, deleting>>
answerVars == <<rows, total, totalPages>>
adminVars == <<served, adminLog, deskPage, deskFilter, answerVars, deskLoading, deskError,
               guess, requests, exportVars, dialogVars, recon, deskMoves>>

All == "all"
NoGuess == [page |-> 0, filter |-> All]
NoJob == [page |-> 0, pages |-> 0, filter |-> All, rows |-> 0]
Get(page, filter, optimistic, clears) ==
    [page |-> page, filter |-> filter, optimistic |-> optimistic, clears |-> clears]

(* evaluateAdminIpAllowlist, by what the configuration and the caller are. *)
Verdicts == {"misconfigured", "disabled", "bypass_local", "unresolved", "denied", "allowed"}
Admitted(v) == v \in {"disabled", "bypass_local", "allowed"}

(* The GET handler: the page asked for is brought into range.              *)
PageOf(page, filter) ==
    LET found == IF filter = All THEN adminLog ELSE Filtered(adminLog, {filter})
        pages == IF found = <<>> THEN 1 ELSE (Len(found) + PageRows - 1) \div PageRows
        at == IF page > pages THEN pages ELSE page
        last == IF at * PageRows < Len(found) THEN at * PageRows ELSE Len(found)
    IN  [page |-> at, total |-> Len(found), pages |-> pages,
         rows |-> SubSeq(found, (at - 1) * PageRows + 1, last)]

(* The effect on [auditPage, actionFilter]; b is the bag of the requests   *)
(* the handler itself leaves in flight.                                    *)
PageEffect(page, filter, b) ==
    /\ deskPage' = page
    /\ deskFilter' = filter
    /\ requests' = IF page = deskPage /\ filter = deskFilter THEN b
                   ELSE b (+) SetToBag({Get(page, filter, FALSE, FALSE)})

AdminInit ==
    /\ secret \in BOOLEAN
    /\ allowlist \in Verdicts
    /\ adminLog = Entries
    /\ deskPage = 1 /\ deskFilter = All
    /\ rows = <<>> /\ total = 0 /\ totalPages = 1
    /\ deskLoading = TRUE /\ deskError = FALSE
    /\ guess = NoGuess
    /\ requests = SetToBag({Get(1, All, FALSE, FALSE)})
    /\ job = NoJob /\ exportShown = FALSE /\ exportTimers = 0
    /\ dialog = [open |-> FALSE, typed |-> FALSE, confirming |-> FALSE]
    /\ deleting = "no"
    /\ recon = "loading"
    /\ deskMoves = 0

Click ==
    /\ deskMoves < MaxDeskMoves
    /\ deskMoves' = deskMoves + 1

PageShown == IF guess.page = 0 THEN deskPage ELSE guess.page

(* handlePageChange and handleFilterChange; the controls are disabled      *)
(* while anything loads.                                                   *)
Ask(page, filter) ==
    /\ Click
    /\ ~deskLoading
    /\ PageEffect(page, filter, requests (+) SetToBag({Get(page, filter, TRUE, FALSE)}))
    /\ guess' = [page |-> page, filter |-> filter]
    /\ deskLoading' = TRUE
    /\ deskError' = FALSE
    /\ UNCHANGED <<served, adminLog, answerVars, exportVars, dialogVars, recon>>

HandlePageChange ==
    \/ PageShown < totalPages /\ Ask(PageShown + 1, deskFilter)
    \/ PageShown > 1 /\ Ask(PageShown - 1, deskFilter)

HandleFilterChange(filter) ==
    /\ filter # IF guess.page = 0 THEN deskFilter ELSE guess.filter
    /\ Ask(1, filter)

(* An answer to fetchAuditLogs, good or bad; `clears` marks the fetch that *)
(* handleClearAuditLogs awaits before it ends.                             *)
RequestSettled(r) ==
    /\ BagIn(r, requests)
    /\ guess' = IF r.optimistic THEN NoGuess ELSE guess
    /\ dialog' = IF r.clears THEN [dialog EXCEPT !.confirming = FALSE] ELSE dialog
    /\ UNCHANGED <<served, adminLog, exportVars, deleting, recon, deskMoves>>

AuditArrives(r) ==
    LET answer == PageOf(r.page, r.filter)
    IN  /\ secret
        /\ RequestSettled(r)
        /\ rows' = answer.rows /\ total' = answer.total /\ totalPages' = answer.pages
        /\ PageEffect(answer.page, deskFilter, requests (-) SetToBag({r}))
        /\ deskLoading' = (answer.page # deskPage)     \* the effect loads again
        /\ deskError' = (deskError /\ answer.page = deskPage)

AuditFails(r) ==
    /\ RequestSettled(r)
    /\ requests' = requests (-) SetToBag({r})
    /\ deskLoading' = FALSE
    /\ deskError' = TRUE
    /\ UNCHANGED <<deskPage, deskFilter, answerVars>>

----------------------------------------------------------------------------
(* exportAuditToCSV: one page after the other, for the filter and the      *)
(* number of pages of the render it was started in.                        *)

StartExport ==
    /\ Click
    /\ job.page = 0 /\ ~deskLoading /\ total > 0
    /\ job' = [page |-> 1, pages |-> totalPages, filter |-> deskFilter, rows |-> 0]
    /\ exportShown' = TRUE
    \* the closure's exportShown decides in `finally` whether a timer is set
    /\ exportTimers' = exportTimers + (IF exportShown THEN 1 ELSE 0)
    /\ UNCHANGED <<served, adminLog, deskPage, deskFilter, answerVars, deskLoading, deskError,
                   guess, requests, dialogVars, recon>>

ExportPage ==
    /\ secret
    /\ job.page # 0
    /\ LET got == job.rows + Len(PageOf(job.page, job.filter).rows)
       IN  job' = IF job.page < job.pages THEN [job EXCEPT !.page = @ + 1, !.rows = got] ELSE NoJob
    /\ UNCHANGED <<exportShown, exportTimers, served, adminLog, deskPage, deskFilter, answerVars,
                   deskLoading, deskError, guess, requests, dialogVars, recon, deskMoves>>

ExportFails ==
    /\ job.page # 0
    /\ job' = NoJob
    /\ exportShown' = FALSE
    /\ deskError' = TRUE
    /\ UNCHANGED <<exportTimers, served, adminLog, deskPage, deskFilter, answerVars,
                   deskLoading, guess, requests, dialogVars, recon, deskMoves>>

ExportMarkEnds ==
    /\ exportTimers > 0 /\ job.page = 0
    /\ exportTimers' = exportTimers - 1
    /\ exportShown' = FALSE
    /\ UNCHANGED <<job, served, adminLog, deskPage, deskFilter, answerVars, deskLoading,
                   deskError, guess, requests, dialogVars, recon, deskMoves>>

----------------------------------------------------------------------------
(* Clearing the log behind ConfirmDestructiveActionDialog: the button      *)
(* works once the phrase is typed; opening forgets an earlier phrase, and  *)
(* nothing closes the dialog while the promise is pending.                 *)

OpenClearDialog ==
    /\ Click
    /\ ~deskLoading /\ total > 0 /\ ~dialog.open
    /\ dialog' = [dialog EXCEPT !.open = TRUE, !.typed = FALSE]
    /\ UNCHANGED <<served, adminLog, deskPage, deskFilter, answerVars, deskLoading, deskError,
                   guess, requests, exportVars, deleting, recon>>

DialogMoves ==
    /\ dialog.open
    /\ \/ ~dialog.typed /\ dialog' = [dialog EXCEPT !.typed = TRUE]
       \/ ~dialog.confirming /\ dialog' = [dialog EXCEPT !.open = FALSE]
    /\ UNCHANGED <<served, adminLog, deskPage, deskFilter, answerVars, deskLoading, deskError,
                   guess, requests, exportVars, deleting, recon, deskMoves>>

HandleClearAuditLogs ==
    /\ dialog.open /\ dialog.typed /\ ~dialog.confirming
    /\ dialog' = [dialog EXCEPT !.confirming = TRUE]
    /\ deleting' = deskFilter                \* the closure's filter
    /\ UNCHANGED <<served, adminLog, deskPage, deskFilter, answerVars, deskLoading, deskError,
                   guess, requests, exportVars, recon, deskMoves>>

LogsCleared ==
    /\ secret
    /\ deleting # "no"
    /\ adminLog' = <<>>
    /\ deleting' = "no"
    /\ dialog' = [dialog EXCEPT !.open = FALSE]
    /\ requests' = requests (+) SetToBag({Get(1, deleting, FALSE, TRUE)})
    /\ deskLoading' = TRUE
    /\ deskError' = FALSE
    /\ UNCHANGED <<served, deskPage, deskFilter, answerVars, guess, exportVars, recon, deskMoves>>

ClearFails ==
    /\ deleting # "no"
    /\ deleting' = "no"
    /\ dialog' = [dialog EXCEPT !.confirming = FALSE]
    /\ deskError' = TRUE
    /\ UNCHANGED <<served, adminLog, deskPage, deskFilter, answerVars, deskLoading, guess,
                   requests, exportVars, recon, deskMoves>>

(* fetchMetrics, at mount and every thirty seconds: a refused or failed    *)
(* answer leaves the records drawn before.                                 *)
MetricsArrive(ok) ==
    /\ recon' = IF ok /\ secret /\ Admitted(allowlist) THEN "shown"
                ELSE IF recon = "loading" THEN "none" ELSE recon
    /\ recon' # recon
    /\ UNCHANGED <<served, adminLog, deskPage, deskFilter, answerVars, deskLoading, deskError,
                   guess, requests, exportVars, dialogVars, deskMoves>>

AdminNext ==
    \/ HandlePageChange
    \/ \E k \in Kinds \cup {All} : HandleFilterChange(k)
    \/ \E r \in BagToSet(requests) : AuditArrives(r)
    \/ \E r \in BagToSet(requests) : AuditFails(r)
    \/ StartExport
    \/ ExportPage
    \/ ExportFails
    \/ ExportMarkEnds
    \/ OpenClearDialog
    \/ DialogMoves
    \/ HandleClearAuditLogs
    \/ LogsCleared
    \/ ClearFails
    \/ \E ok \in BOOLEAN : MetricsArrive(ok)

----------------------------------------------------------------------------
AdminTypeOK ==
    /\ secret \in BOOLEAN /\ allowlist \in Verdicts
    /\ adminLog \in {Entries, <<>>}
    /\ deskPage \in Nat \ {0} /\ deskFilter \in Kinds \cup {All}
    /\ Len(rows) <= PageRows /\ Len(rows) <= total
    /\ totalPages \in Nat \ {0}
    /\ deskLoading \in BOOLEAN /\ deskError \in BOOLEAN
    /\ guess \in [page : Nat, filter : Kinds \cup {All}]
    /\ IsABag(requests)
    /\ job.page \in Nat /\ job.rows \in Nat
    /\ dialog \in [open : BOOLEAN, typed : BOOLEAN, confirming : BOOLEAN]
    /\ deleting \in Kinds \cup {All, "no"}
    /\ recon \in {"loading", "shown", "none"}
    /\ deskMoves \in 0..MaxDeskMoves

=============================================================================
