--------------------------- MODULE CredentialPages ---------------------------
(***************************************************************************)
(* The pages on which a member of an issuer's staff lists, revokes and     *)
(* mails credentials: the session they hang on, the list and its reloads,  *)
(* the Send button of every row, and POST /api/credentials/send, which     *)
(* mails the stored credential and may fail before or after.  Others       *)
(* change the credentials meanwhile.                                       *)
(***************************************************************************)
EXTENDS Naturals

CONSTANTS
  Held,        \* credentials of the issuer, all issued at first
  NoList,      \* no list on the page
  MaxMailIds   \* bound on the message ids the page makes

ASSUME MailAssumption == MaxMailIds \in Nat

VARIABLES
  rowStatus,   \* [Held -> status of the row]
  lapsed,      \* credentials past their validUntil
  backed,      \* credentials whose document names status-list entries
  overwritten, \* credentials of which another status was written over "revoked"
  signedIn,    \* whether the page shows a user's workspace
  refresh,     \* the session's refresh: "none", "asked" or "outdated"
  list,        \* [Held -> status shown], or NoList
  listLoad,        \* the load of the list: "none", "asked" or "answered"
  answer,      \* what it was answered
  hidden,      \* rows the search leaves out
  revoking,    \* revokeLoading
  revocations, \* credentials whose POST /api/revocation is not answered: [Held -> call]
  mailId,      \* [Held -> requestId of the row's Send button, or 0]
  mount,       \* [Held -> how often its button was mounted]
  window,      \* the credential whose Send dialog is open, or NoList
  sends,       \* the POST /api/credentials/send under way: credential, id, mount, stage
  mailed,      \* messages the mail server has accepted: credential, id, mount
  confirmed,   \* those whose acceptance the page has shown
  lastMailId

records == <<rowStatus, lapsed, backed, overwritten>>
session == <<signedIn, refresh>>
listing == <<list, listLoad, answer>>
staffPage == <<session, listing, hidden, revoking>>
buttons == <<mailId, mount, window>>
mail == <<sends, mailed, confirmed, lastMailId>>
staffVars == <<records, staffPage, revocations, buttons, mail>>

Unsent == [c \in Held |-> 0]

StaffInit ==
  /\ rowStatus = [c \in Held |-> "issued"] /\ lapsed = {}
  /\ backed \in SUBSET Held /\ overwritten = {}
  /\ signedIn = TRUE /\ refresh = "none"
  /\ list = NoList /\ listLoad = "asked" /\ answer = NoList
  /\ hidden = {} /\ revoking = NoList
  /\ revocations = [c \in Held |-> "none"]
  /\ mailId = Unsent /\ mount = Unsent /\ window = NoList
  /\ sends = {} /\ mailed = {} /\ confirmed = {} /\ lastMailId = 0

-----------------------------------------------------------------------------
(***************************************************************************)
(* The session and the list.                                               *)
(***************************************************************************)

\* The rows in C leave the page, and their Send buttons with them.  A button that
\* has sent nothing is as good as a new one.
Unmount(C) ==
  /\ mailId' = [c \in Held |-> IF c \in C THEN 0 ELSE mailId[c]]
  /\ mount' = [c \in Held |-> IF c \in C /\ mailId[c] # 0 THEN mount[c] + 1 ELSE mount[c]]
  /\ window' = IF window \in C THEN NoList ELSE window

Visible == IF list = NoList THEN {} ELSE Held \ hidden

\* The user object is replaced: the list is dropped and loaded anew, and an
\* earlier load aborted.
UserBecomes(known) ==
  /\ signedIn' = known
  /\ list' = NoList /\ listLoad' = (IF known THEN "asked" ELSE "none") /\ answer' = NoList
  /\ Unmount(Visible)
  /\ UNCHANGED <<records, hidden, revoking, revocations, mail>>

\* "trustvc-auth-changed"; a second refresh is the one already under way.
RefreshSession ==
  /\ refresh = "none" /\ refresh' = "asked"
  /\ UNCHANGED <<records, signedIn, listing, hidden, revoking, revocations, buttons, mail>>

\* Its answer, or its failure, unless the server has rendered the page since.
SessionRefreshed(known) ==
  /\ refresh # "none" /\ refresh' = "none"
  /\ IF refresh = "asked" THEN UserBecomes(known)
     ELSE UNCHANGED <<records, signedIn, listing, hidden, revoking, revocations, buttons, mail>>

PageRendered(known) ==
  /\ refresh' = IF refresh = "none" THEN "none" ELSE "outdated"
  /\ UserBecomes(known)

\* GET /api/credentials: overdue credentials expire, then the rows are read.
ServeList ==
  LET swept == [c \in Held |-> IF c \in lapsed /\ rowStatus[c] = "issued" THEN "expired" ELSE rowStatus[c]] IN
  /\ listLoad = "asked"
  /\ rowStatus' = swept /\ listLoad' = "answered" /\ answer' = swept
  /\ UNCHANGED <<lapsed, backed, overwritten, session, list, hidden, revoking, revocations, buttons, mail>>

ShowList ==
  /\ listLoad = "answered" /\ listLoad' = "none"
  /\ list' = answer /\ answer' = NoList
  /\ UNCHANGED <<records, session, hidden, revoking, revocations, buttons, mail>>

FailList ==
  /\ listLoad # "none" /\ listLoad' = "none" /\ answer' = NoList
  /\ UNCHANGED <<records, session, list, hidden, revoking, revocations, buttons, mail>>

\* getVisibleCredentials: a search takes rows from the page, and brings others back.
Search(H) ==
  /\ window = NoList /\ hidden' = H
  /\ Unmount(Visible \cap H)
  /\ UNCHANGED <<records, session, listing, revoking, revocations, mail>>

-----------------------------------------------------------------------------
(***************************************************************************)
(* Revoking from the list.                                                 *)
(***************************************************************************)

\* A status is written to a row.
Apply(c, s) ==
  /\ rowStatus' = [rowStatus EXCEPT ![c] = s]
  /\ overwritten' = IF s = "revoked" THEN overwritten \ {c}
                    ELSE IF rowStatus[c] = "revoked" THEN overwritten \cup {c} ELSE overwritten

\* handleRevoke; only the row clicked last shows that it waits.  Bound: one call
\* for a credential at a time.
RevokeRow(c) ==
  /\ c \in Visible /\ window = NoList /\ list[c] # "revoked" /\ revoking # c
  /\ revocations[c] = "none"
  /\ revoking' = c /\ revocations' = [revocations EXCEPT ![c] = "asked"]
  /\ UNCHANGED <<records, session, listing, hidden, buttons, mail>>

\* POST /api/revocation revokes and its answer may be lost, or it refuses.  Without
\* status-list entries it writes what it decided of a status read before.
ServeRevocation(c) ==
  /\ revocations[c] = "asked"
  /\ \/ /\ rowStatus[c] # "revoked" \/ c \notin backed
        /\ Apply(c, "revoked")
        /\ revocations' \in {[revocations EXCEPT ![c] = a] : a \in {"done", "failed"}}
     \/ revocations' = [revocations EXCEPT ![c] = "failed"] /\ UNCHANGED <<rowStatus, overwritten>>
  /\ UNCHANGED <<lapsed, backed, staffPage, buttons, mail>>

\* Mutant of RevocationAnswered: the row is marked whatever the answer was.
RevocationMarked(c) ==
  /\ revocations[c] \in {"done", "failed"}
  /\ list' = IF list # NoList THEN [list EXCEPT ![c] = "revoked"] ELSE list
  /\ window' = IF window = c THEN NoList ELSE window
  /\ revoking' = NoList /\ revocations' = [revocations EXCEPT ![c] = "none"]
  /\ UNCHANGED <<records, session, listLoad, answer, hidden, mailId, mount, mail>>

\* The row becomes revoked in whatever list the page has by now, and its Send
\* dialog goes; a failure is reported in an alert.
RevocationAnswered(c) ==
  LET done == revocations[c] = "done" IN
  /\ revocations[c] \in {"done", "failed"}
  /\ list' = IF done /\ list # NoList THEN [list EXCEPT ![c] = "revoked"] ELSE list
  /\ window' = IF done /\ list # NoList /\ window = c THEN NoList ELSE window
  /\ revoking' = NoList /\ revocations' = [revocations EXCEPT ![c] = "none"]
  /\ UNCHANGED <<records, session, listLoad, answer, hidden, mailId, mount, mail>>

-----------------------------------------------------------------------------
(***************************************************************************)
(* Sending.                                                                *)
(***************************************************************************)

InFlight(c) == \E s \in sends : s.of = c /\ s.mount = mount[c]

\* "Send" of a row that is shown as issued opens the dialog.
OpenSend(c) ==
  /\ c \in Visible /\ window = NoList /\ list[c] = "issued"
  /\ window' = c
  /\ UNCHANGED <<records, staffPage, revocations, mailId, mount, mail>>

\* A dialog closes when nothing is in flight.
CancelSend ==
  /\ window # NoList /\ ~InFlight(window) /\ window' = NoList
  /\ UNCHANGED <<records, staffPage, revocations, mailId, mount, mail>>

\* Mutant of MessageId: every click makes an id.
MessageIdPerClick(c) == lastMailId + 1

\* requestId.current ??= crypto.randomUUID()
MessageId(c) == IF mailId[c] = 0 THEN lastMailId + 1 ELSE mailId[c]

\* "Confirm Send".
ConfirmSend(c) ==
  LET id == MessageId(c) IN
  /\ window = c /\ list[c] = "issued" /\ ~InFlight(c) /\ id <= MaxMailIds
  /\ mailId' = [mailId EXCEPT ![c] = id]
  /\ lastMailId' = IF id > lastMailId THEN id ELSE lastMailId
  /\ sends' = sends \cup {[of |-> c, id |-> id, mount |-> mount[c], stage |-> "asked"]}
  /\ UNCHANGED <<records, staffPage, revocations, mount, window, mailed, confirmed>>

Proceeds(s, stage) == sends' = (sends \ {s}) \cup {[s EXCEPT !.stage = stage]}

\* POST /api/credentials/send reads the credential and refuses one that is not in
\* force; rights, the limit and the mail server's configuration may refuse too.
CheckSend(s) ==
  /\ s.stage = "asked"
  /\ \/ rowStatus[s.of] = "issued" /\ s.of \notin lapsed /\ Proceeds(s, "checked")
     \/ Proceeds(s, "failed")
  /\ UNCHANGED <<records, staffPage, revocations, buttons, mailed, confirmed, lastMailId>>

\* The mail server accepts the message, and the answer, the audit row or the
\* response may be lost after that; or it does not.
Mail(s) ==
  /\ s.stage = "checked"
  /\ \/ /\ mailed' = mailed \cup {[of |-> s.of, id |-> s.id, mount |-> s.mount]}
        /\ Proceeds(s, "accepted") \/ Proceeds(s, "failed")
     \/ Proceeds(s, "failed") /\ UNCHANGED mailed
  /\ UNCHANGED <<records, staffPage, revocations, buttons, confirmed, lastMailId>>

\* The answer arrives.  An accepted message gives up its id; a failure keeps it
\* for the next attempt.  A button that was unmounted hears nothing.
SendAnswered(s) ==
  LET here == mount[s.of] = s.mount IN
  /\ s.stage \in {"accepted", "failed"} /\ sends' = sends \ {s}
  /\ IF here /\ s.stage = "accepted"
     THEN /\ confirmed' = confirmed \cup {[of |-> s.of, id |-> s.id, mount |-> s.mount]}
          /\ mailId' = [mailId EXCEPT ![s.of] = 0]
          /\ window' = IF window = s.of THEN NoList ELSE window
     ELSE UNCHANGED <<confirmed, mailId, window>>
  /\ UNCHANGED <<records, staffPage, revocations, mount, mailed, lastMailId>>

-----------------------------------------------------------------------------

\* The form of the revocation page, and colleagues.  With status-list entries the
\* database refuses every step out of "revoked"; without, a suspension or a
\* reinstatement that read the row before it was revoked is written all the same.
OthersApply(c, s) ==
  /\ rowStatus[c] # s /\ (rowStatus[c] = "revoked" => c \notin backed)
  /\ Apply(c, s)
  /\ UNCHANGED <<lapsed, backed, staffPage, revocations, buttons, mail>>

\* Its validUntil passes.
Lapse(c) ==
  /\ c \notin lapsed /\ lapsed' = lapsed \cup {c}
  /\ UNCHANGED <<rowStatus, backed, overwritten, staffPage, revocations, buttons, mail>>

StaffNext ==
  \/ RefreshSession \/ \E known \in BOOLEAN : SessionRefreshed(known) \/ PageRendered(known)
  \/ ServeList \/ ShowList \/ FailList \/ \E H \in SUBSET Held : Search(H)
  \/ \E c \in Held :
       \/ RevokeRow(c) \/ ServeRevocation(c) \/ RevocationAnswered(c)
       \/ OpenSend(c) \/ ConfirmSend(c) \/ Lapse(c)
       \/ \E s \in {"issued", "suspended", "revoked"} : OthersApply(c, s)
  \/ CancelSend \/ \E s \in sends : CheckSend(s) \/ Mail(s) \/ SendAnswered(s)

StaffSpec == StaffInit /\ [][StaffNext]_staffVars

-----------------------------------------------------------------------------
(***************************************************************************)
(* Properties.                                                             *)
(***************************************************************************)

\* What the page reports was done: a row shown as revoked is revoked, unless its
\* credential has no status-list entries and a late suspension or reinstatement
\* was written over the revocation (RevocationService, apply); and a message shown
\* as accepted was.  What it could not confirm it repeats as the
\* same message, so that the mail server can recognise it: the clicks on one
\* Send button never leave two unconfirmed messages.
ReportedWasDone ==
  /\ list # NoList => \A c \in Held : list[c] = "revoked" => rowStatus[c] = "revoked" \/ c \in overwritten \ backed
  /\ confirmed \subseteq mailed
  /\ \A x, y \in mailed \ confirmed : x.of = y.of /\ x.mount = y.mount => x = y

=============================================================================
