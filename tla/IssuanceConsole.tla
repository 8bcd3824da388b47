--------------------------- MODULE IssuanceConsole ---------------------------
(***************************************************************************)
(* The browser's issuance console.  One page issues single credentials and *)
(* mounts a batch panel, which parses files of rows and issues them one    *)
(* after the other.  A run of the batch loop works on its own copy of the  *)
(* rows and outlives the panel that started it; requests may be answered   *)
(* late, never, or after the browser gave up on them; the wallet may       *)
(* refuse, and a change of its network reloads the page.                   *)
(*                                                                         *)
(* The methods selected, the wallet's connection and the Document Store    *)
(* that the server resolves for each request are inputs of the steps that  *)
(* read them.  Dates, wording and downloads are left out.                  *)
(***************************************************************************)
EXTENDS Naturals, FiniteSets, Sequences, FiniteSetsExt

CONSTANTS
  File,        \* the files a user may upload
  ValidRow,    \* the numbers of the rows of each file that carry no errors
  InvalidRow,  \* the numbers of its rows that do
  None,        \* no rows, no result, no run
  MaxUploads,  \* bound: files uploaded
  MaxRuns,     \* bound: clicks on either Issue button
  MaxMounts    \* bound: times the batch panel is opened

ASSUME FilesAssumption ==
  /\ ValidRow \in [File -> SUBSET (Nat \ {0})] /\ InvalidRow \in [File -> SUBSET (Nat \ {0})]
  /\ \A f \in File : ValidRow[f] \cap InvalidRow[f] = {}
  /\ {MaxUploads, MaxRuns, MaxMounts} \subseteq Nat

IssuingMethod == {"did", "ethereum"}

\* How POST /api/issue may end: no credential was stored, or one was and its
\* hash is registered by the server, could not be, is left to the wallet, or
\* was not asked for.
Reply == {"refused", "registered", "unregistered", "wallet", "signed"}

\* A credential is named by the run and the row it is issued for; 0 is the form.
Run == 1..MaxRuns

\* The outcome of every valid row, the rows of the panel, a click on an Issue
\* button and the result of a registration.
Table == UNION {[rows -> {"pending", "issuing", "success", "error"}] :
                  rows \in {{}} \cup {ValidRow[f] : f \in File}}
PanelRows == [upload : Nat, status : Table]
IssueRun == [mode : {"single", "batch"}, mount : Nat, upload : Nat, methods : SUBSET IssuingMethod,
             connected : BOOLEAN, row : Nat, status : Table,
             phase : {"preview", "post", "signing", "mining", "over"} \cup Reply]
Registration == [run : Run, confirmed : BOOLEAN]

Credential == Run \X Nat

\* What the page and the panel keep.
PageState == [mode : {"single", "batch"}, issuing : BOOLEAN, did : Run \cup {None},
              ethereum : Registration \cup {None}, issued : Run \cup {None},
              list : SUBSET Credential, batchIssuing : BOOLEAN]
PanelState == [mount : Nat, rows : PanelRows \cup {None}, issuing : BOOLEAN, parsing : SUBSET Nat]

ASSUME NoneAssumption == None \notin Run \cup PanelRows \cup IssueRun \cup Registration

VARIABLES
  catalog,   \* the saved templates: "loading", "ready" or "failed"
  page,      \* the page's mode, its single issue and its list of batch credentials
  panel,     \* the mounted batch panel
  uploads,   \* the files uploaded so far
  run,       \* every click on an Issue button, and how far it got
  requests,  \* credentials whose POST the server has not handled yet
  stored,    \* credentials the server has signed and stored
  registered,              \* credentials whose hash a Document Store holds
  serverSent, walletSent   \* credentials the server, the wallet sent a transaction for

browser == <<catalog, page, panel, uploads>>
outside == <<requests, stored, registered, serverSent, walletSent>>
consoleVars == <<browser, run, outside>>

Upload == DOMAIN uploads
FileRows(u) == ValidRow[uploads[u]]

NewPage == [mode |-> "single", issuing |-> FALSE, did |-> None, ethereum |-> None,
            issued |-> None, list |-> {}, batchIssuing |-> FALSE]

NewPanel(mount) == [mount |-> mount, rows |-> None, issuing |-> FALSE, parsing |-> {}]

ConsoleInit ==
  /\ catalog = "loading" /\ page = NewPage /\ panel = NewPanel(0)
  /\ uploads = <<>> /\ run = [r \in Run |-> None]
  /\ requests = {} /\ stored = {} /\ registered = {} /\ serverSent = {} /\ walletSent = {}

\* What is remembered of a run that ended or was lost: the upload and the methods.
Over(r) ==
  [r EXCEPT !.phase = "over", !.mount = 0, !.connected = TRUE, !.row = 0, !.status = <<>>]

-----------------------------------------------------------------------------
(* What the page shows and offers.                                         *)

\* The drop zone, and the button that clears the rows, during a run too.
UploadOffered == page.mode = "batch" /\ panel.rows = None
ClearOffered == page.mode = "batch" /\ panel.rows # None

\* The rows of the panel's table with this outcome.
RowsShown(outcome) ==
  IF ClearOffered THEN {i \in DOMAIN panel.rows.status : panel.rows.status[i] = outcome} ELSE {}

\* The files beside the panel, to be downloaded one by one or together.
FilesOffered == IF page.mode = "batch" THEN page.list ELSE {}

\* currentCredential: the one the server signed, or else the one the wallet
\* registered; any other file is a draft without a proof.
CurrentCredential ==
  IF page.did # None THEN page.did
  ELSE IF page.ethereum # None /\ page.ethereum.confirmed THEN page.ethereum.run ELSE None

\* The credential previewed, with its recipient and where to verify it.
Previewed == IF page.mode = "single" THEN page.issued ELSE None

\* handleDownload and handleCopyCredential: the preview offers the current
\* credential under the name of the recipient previewed.
SignedFileOffered == Previewed # None /\ CurrentCredential # None

\* The results of the methods, below the form, once it has been issued.
SignatureShown == Previewed # None /\ page.did # None
RegistrationShown == Previewed # None /\ page.ethereum # None /\ page.ethereum.confirmed

\* The form's own button is there and enabled.
CanIssue == page.mode = "single" /\ catalog = "ready" /\ ~page.issuing

-----------------------------------------------------------------------------
(* The page and the panel.                                                 *)

\* useIssuanceTemplates: one request when the page is opened.
LoadTemplates ==
  /\ catalog = "loading" /\ catalog' \in {"ready", "failed"}
  /\ UNCHANGED <<page, panel, uploads, run, outside>>

\* The panel is rendered in batch mode only; a new one tells the page that it
\* issues nothing.
OpenBatch ==
  /\ page.mode = "single" /\ panel.mount < MaxMounts
  /\ page' = [page EXCEPT !.mode = "batch", !.batchIssuing = FALSE]
  /\ panel' = NewPanel(panel.mount + 1)
  /\ UNCHANGED <<catalog, uploads, run, outside>>

OpenSingle ==
  /\ page.mode = "batch"
  /\ page' = [page EXCEPT !.mode = "single"]
  /\ panel' = NewPanel(panel.mount)
  /\ UNCHANGED <<catalog, uploads, run, outside>>

\* handleFile, up to the parser.
UploadFile(f) ==
  /\ UploadOffered /\ Len(uploads) < MaxUploads
  /\ uploads' = Append(uploads, f)
  /\ panel' = [panel EXCEPT !.parsing = @ \cup {Len(uploads) + 1}]
  /\ page' = [page EXCEPT !.list = {}]
  /\ UNCHANGED <<catalog, run, outside>>

\* The parser answers, in whatever order; a file may be broken or empty.
Parse(u) ==
  /\ u \in panel.parsing
  /\ \E broken \in BOOLEAN :
       panel' = [panel EXCEPT !.parsing = @ \ {u},
                   !.rows = IF broken \/ FileRows(u) \cup InvalidRow[uploads[u]] = {} THEN @
                            ELSE [upload |-> u, status |-> [i \in FileRows(u) |-> "pending"]]]
  /\ UNCHANGED <<catalog, page, uploads, run, outside>>

\* handleClear
Clear ==
  /\ ClearOffered
  /\ panel' = [panel EXCEPT !.rows = None]
  /\ page' = [page EXCEPT !.list = {}, !.batchIssuing = FALSE]
  /\ UNCHANGED <<catalog, uploads, run, outside>>

\* chainChanged, or the user, reloads the page: every run is gone, but not what
\* it has sent.
Reload ==
  /\ catalog' = "loading" /\ page' = NewPage /\ panel' = NewPanel(panel.mount)
  /\ run' = [r \in Run |-> IF run[r] = None THEN None ELSE Over(run[r])]
  /\ UNCHANGED <<uploads, outside>>

-----------------------------------------------------------------------------
(* Starting a run.                                                         *)

FirstPhase(methods) == IF "ethereum" \in methods THEN "preview" ELSE "post"

\* Requests go out with the phase that waits for them.
Sends(r, i, phase) == requests' = IF phase = "post" THEN requests \cup {<<r, i>>} ELSE requests

Unused(r) == run[r] = None /\ \A s \in 1..r - 1 : run[s] # None

IsComplete ==
  ~panel.issuing /\ ClearOffered /\ RowsShown("success") \cup RowsShown("error") = DOMAIN panel.rows.status

\* Mutant of CanIssueAll: the button stays enabled during a run.
CanIssueAllAgain ==
  /\ ClearOffered /\ catalog = "ready" /\ DOMAIN panel.rows.status # {} /\ ~IsComplete

\* The Issue button of the panel is there and enabled.
CanIssueAll ==
  /\ ClearOffered /\ catalog = "ready" /\ ~panel.issuing
  /\ DOMAIN panel.rows.status # {} /\ ~IsComplete

\* handleIssueAll, up to the first await: the rows are copied and the first
\* valid one is begun.  Nothing asks for a method: without any the loop never
\* awaits, and every row succeeds at once.
IssueAll(r, methods, connected) ==
  LET status == panel.rows.status
      first == Min(DOMAIN status)
      copy == IF methods = {} THEN [i \in DOMAIN status |-> "success"]
              ELSE [status EXCEPT ![first] = "issuing"]
  IN  /\ Unused(r) /\ CanIssueAll
      /\ LET started == [mode |-> "batch", mount |-> panel.mount, upload |-> panel.rows.upload,
                          methods |-> methods, connected |-> connected,
                          phase |-> FirstPhase(methods), row |-> first, status |-> copy]
         IN  run' = [run EXCEPT ![r] = IF methods = {} THEN Over(started) ELSE started]
      /\ panel' = [panel EXCEPT !.issuing = methods # {}, !.rows.status = copy]
      /\ page' = [page EXCEPT !.batchIssuing = methods # {},
                    !.list = IF methods = {} THEN {<<r, i>> : i \in DOMAIN status} ELSE {}]
      /\ IF methods = {} THEN UNCHANGED requests ELSE Sends(r, first, FirstPhase(methods))
      /\ UNCHANGED <<catalog, uploads, stored, registered, serverSent, walletSent>>

\* Mutant of Cleared: the signed credential of the last issue stays.
ClearedButSigned(p) == [p EXCEPT !.issuing = TRUE, !.issued = None, !.ethereum = None]

\* What handleIssue resets before its first request.
Cleared(p) == [p EXCEPT !.issuing = TRUE, !.issued = None, !.did = None, !.ethereum = None]

\* handleIssue, up to the first await; it refuses an empty selection.
IssueSingle(r, methods, connected) ==
  /\ Unused(r) /\ CanIssue /\ methods # {}
  /\ run' = [run EXCEPT ![r] =
       [mode |-> "single", mount |-> panel.mount, upload |-> 0, methods |-> methods,
        connected |-> connected, phase |-> FirstPhase(methods), row |-> 0, status |-> <<>>]]
  /\ page' = Cleared(page)
  /\ Sends(r, 0, FirstPhase(methods))
  /\ UNCHANGED <<catalog, panel, uploads, stored, registered, serverSent, walletSent>>

-----------------------------------------------------------------------------
(* The steps of a run.                                                     *)

At(r, phase) == run[r] # None /\ run[r].phase = phase
Current(r) == <<r, run[r].row>>

Moves(r, phase) == run' = [run EXCEPT ![r].phase = phase]

\* A component that is unmounted, or was replaced, is not updated.
Mounted(r) == page.mode = "batch" /\ panel.mount = run[r].mount

\* The end of handleIssueAll tells the page, mounted or not.
EndOfBatch(r, status) ==
  [page EXCEPT !.list = {<<r, i>> : i \in {j \in DOMAIN status : status[j] = "success"}},
               !.batchIssuing = FALSE]

\* A row has its outcome: the copy is shown, and the next valid row is begun or
\* the run ends.
RowEnds(r, outcome) ==
  LET done == [run[r].status EXCEPT ![run[r].row] = outcome]
      left == {i \in DOMAIN done : done[i] = "pending"}
      last == left = {}
      next == IF last THEN run[r].row ELSE Min(left)
      copy == IF last THEN done ELSE [done EXCEPT ![next] = "issuing"]
      phase == IF last THEN "over" ELSE FirstPhase(run[r].methods)
  IN  /\ run' = [run EXCEPT ![r] = IF last THEN Over(@)
                                   ELSE [@ EXCEPT !.status = copy, !.row = next, !.phase = phase]]
      /\ panel' = IF ~Mounted(r) THEN panel
                  ELSE [panel EXCEPT !.rows = [upload |-> run[r].upload, status |-> copy],
                                     !.issuing = ~last]
      /\ page' = IF last THEN EndOfBatch(r, done) ELSE page
      /\ Sends(r, next, phase)

\* handleIssue is over, with or without results to show.
SingleEnds(r, results) ==
  /\ run' = [run EXCEPT ![r] = Over(@)]
  /\ page' = [results EXCEPT !.issuing = FALSE]
  /\ UNCHANGED <<panel, requests>>

Batch(r) == run[r].mode = "batch"

\* The request or the wallet failed before anything can be shown.
Fails(r) == IF Batch(r) THEN RowEnds(r, "error") ELSE SingleEnds(r, page)

\* GET /api/issue: is there an active Document Store of the organization now?
Preview(r, store) ==
  LET methods == run[r].methods
      allowed == IF store = "server" THEN "did" \in methods
                 ELSE store = "wallet" /\ run[r].connected
      phase == IF "did" \in methods THEN "post" ELSE "signing"
  IN  /\ At(r, "preview")
      /\ IF ~allowed THEN Fails(r)
         ELSE /\ Moves(r, phase) /\ Sends(r, run[r].row, phase) /\ UNCHANGED <<page, panel>>
      /\ UNCHANGED <<catalog, uploads, stored, registered, serverSent, walletSent>>

\* POST /api/issue: the server stores a signed credential or refuses, and when an
\* organization's store is active registers its hash before it answers.  The
\* browser may have left by then.
ServePost(c, reply) ==
  LET r == c[1]
      waiting == At(r, "post") /\ Current(r) = c
  IN  /\ c \in requests /\ requests' = requests \ {c}
      /\ reply \in (IF "ethereum" \in run[r].methods THEN Reply \ {"signed"} ELSE {"refused", "signed"})
      /\ stored' = IF reply = "refused" THEN stored ELSE stored \cup {c}
      /\ serverSent' = IF reply \in {"registered", "unregistered"} THEN serverSent \cup {c} ELSE serverSent
      /\ registered' = IF reply = "registered" THEN registered \cup {c} ELSE registered
      /\ run' = IF waiting THEN [run EXCEPT ![r].phase = reply] ELSE run
      /\ UNCHANGED <<browser, walletSent>>

\* Mutant of NeedsWallet: the wallet makes up for a failed registration.
NeedsWalletToo(r) == At(r, "wallet") \/ At(r, "unregistered")

\* ~serverRegistered: the organization has no store of its own.
NeedsWallet(r) == At(r, "wallet")

\* The answer of the POST arrives.
TakeAnswer(r) ==
  /\ run[r] # None /\ run[r].phase \in Reply
  /\ LET outcome == run[r].phase
         shown == [page EXCEPT !.did = r]
     IN  IF outcome = "refused" THEN Fails(r)
         ELSE IF NeedsWallet(r)
         THEN /\ Moves(r, "signing")
              /\ page' = IF Batch(r) THEN page ELSE shown
              /\ UNCHANGED <<panel, requests>>
         ELSE IF Batch(r)
         THEN RowEnds(r, IF outcome = "unregistered" THEN "error" ELSE "success")
         ELSE SingleEnds(r, [shown EXCEPT !.issued = r,
                !.ethereum = IF outcome = "signed" THEN None
                             ELSE [run |-> r, confirmed |-> outcome = "registered"]])
  /\ UNCHANGED <<catalog, uploads, stored, registered, serverSent, walletSent>>

\* A request or its answer is lost, whether or not the server handles it.
Lose(r) ==
  /\ run[r] # None /\ run[r].phase \in {"preview", "post"} \cup Reply
  /\ Fails(r)
  /\ UNCHANGED <<catalog, uploads, stored, registered, serverSent, walletSent>>

\* What the wallet did is shown; a failure does not take the credential back.
WalletEnds(r, confirmed) ==
  IF Batch(r) THEN RowEnds(r, IF confirmed THEN "success" ELSE "error")
  ELSE SingleEnds(r, [page EXCEPT !.issued = r, !.ethereum = [run |-> r, confirmed |-> confirmed]])

\* issueCertificateToEthereum: the wallet signs and sends a transaction for a
\* hash that is not issued yet.
WalletSends(r) ==
  /\ At(r, "signing") /\ Current(r) \notin registered
  /\ walletSent' = walletSent \cup {Current(r)}
  /\ Moves(r, "mining")
  /\ UNCHANGED <<browser, requests, stored, registered, serverSent>>

\* The user refuses, the wallet stays on another network, or the store would
\* reject the transaction.
WalletRefuses(r) ==
  /\ At(r, "signing") /\ WalletEnds(r, FALSE)
  /\ UNCHANGED <<catalog, uploads, stored, registered, serverSent, walletSent>>

\* Mutant of Confirmed: any receipt will do.
ConfirmedByAnyReceipt(receipt) == receipt # "none"

\* The receipt of the transaction says that it succeeded.
Confirmed(receipt) == receipt = "succeeded"

\* The wait for the transaction ends with a receipt or without one.
TransactionEnds(r, receipt) ==
  /\ At(r, "mining") /\ WalletEnds(r, Confirmed(receipt))
  /\ registered' = IF receipt = "succeeded" THEN registered \cup {Current(r)} ELSE registered
  /\ UNCHANGED <<catalog, uploads, stored, serverSent, walletSent>>

-----------------------------------------------------------------------------

\* The buttons require a wallet for Ethereum alone; without Ethereum none is used.
ConsoleNext ==
  \/ LoadTemplates \/ OpenBatch \/ OpenSingle \/ Clear \/ Reload
  \/ \E f \in File : UploadFile(f)
  \/ \E u \in Upload : Parse(u)
  \/ \E c \in requests, reply \in Reply : ServePost(c, reply)
  \/ \E r \in Run :
       \/ \E methods \in SUBSET IssuingMethod :
          \E connected \in IF methods = IssuingMethod THEN BOOLEAN ELSE {TRUE} :
            IssueAll(r, methods, connected) \/ IssueSingle(r, methods, connected)
       \/ \E store \in {"server", "wallet", "failed"} : Preview(r, store)
       \/ TakeAnswer(r) \/ Lose(r) \/ WalletSends(r) \/ WalletRefuses(r)
       \/ \E receipt \in {"succeeded", "reverted", "none"} : TransactionEnds(r, receipt)

ConsoleSpec == ConsoleInit /\ [][ConsoleNext]_consoleVars

-----------------------------------------------------------------------------
(* Properties.                                                             *)

\* Variables hold values of their types (the state of page.tsx and of
\* BatchIssuePanel.tsx).
ConsoleTypeOK ==
  /\ catalog \in {"loading", "ready", "failed"}
  /\ page \in PageState /\ panel \in PanelState
  /\ uploads \in Seq(File) /\ run \in [Run -> IssueRun \cup {None}]
  /\ requests \subseteq Credential /\ stored \subseteq Credential /\ registered \subseteq Credential
  /\ serverSent \subseteq Credential /\ walletSent \subseteq Credential

\* Within one panel the rows of one upload are issued by one run at most: neither
\* clearing, nor a file that is parsed late, nor rows that a run puts back offer
\* them to the Issue button again (BatchIssuePanel.tsx, isComplete).
UploadIssuedOnce ==
  \A r, s \in Run :
    run[r] # None /\ run[s] # None /\ run[r].upload = run[s].upload /\ run[r].upload # 0 => r = s

\* "The browser does not submit a second transaction": no credential is sent to a
\* Document Store by the server and by the wallet, whatever store was active when
\* the page asked (handleIssue, handleIssueAll).
NoSecondTransaction == serverSent \cap walletSent = {}

\* What a run promised of a credential is done.
Fulfilled(c) ==
  /\ "did" \in run[c[1]].methods => c \in stored
  /\ "ethereum" \in run[c[1]].methods => c \in registered

\* A row that is shown as issued, a file that is offered for download, a
\* signature and a registration that are shown as done are what the server and
\* the Document Store hold; a transaction without a receipt is not shown as
\* success.  The file offered with the preview is of the credential previewed,
\* and the results beside it are of the same click (handleIssue).
ShownIsReal ==
  /\ \A i \in RowsShown("success") :
       \E r \in Run : run[r] # None /\ run[r].upload = panel.rows.upload /\ Fulfilled(<<r, i>>)
  /\ \A c \in FilesOffered : Fulfilled(c)
  /\ SignatureShown => <<page.did, 0>> \in stored
  /\ RegistrationShown => page.ethereum.run = Previewed /\ <<Previewed, 0>> \in registered
  /\ SignedFileOffered => CurrentCredential = Previewed

=============================================================================
