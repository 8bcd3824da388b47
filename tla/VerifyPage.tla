------------------------------ MODULE VerifyPage ------------------------------
(***************************************************************************)
(* The public page /verify: what a visitor pastes, uploads or follows a    *)
(* link to, the answers of POST /api/verify, and what the page shows and   *)
(* hands out of them.  What the answers say is the concern of Verification.*)
(***************************************************************************)
EXTENDS FiniteSets

CONSTANTS
  Submission,  \* documents a visitor may paste
  LinkId,      \* certificate ids in links
  Absent       \* no document, no id

\* A link names a record, not a document.
ASSUME VisitAssumption ==
  Absent \notin Submission \cup LinkId /\ Submission \cap LinkId = {}

VARIABLES
  typed,       \* credentialJson: a document, "empty" or "unreadable"
  reading,     \* the files that are still being read
  verdict,     \* result: what was verified, and whether it is valid; or Absent
  subject,     \* verifiedDocument
  lookup,      \* idLookup: the id of the link
  loading,     \* disables the button
  pending,       \* the requests that are not answered
  viewing,     \* showCertificateView
  dialog,      \* whether the preview is open, which makes the page behind it inert
  kept         \* credentialToDownload

inputs == <<typed, reading>>
preview == <<viewing, dialog, kept>>
visitVars == <<inputs, verdict, subject, lookup, loading, pending, preview>>

Text == Submission \cup {"empty", "unreadable"}

\* A verdict on the input itself is about nothing.
About(x, ok) == [of |-> x, ok |-> ok]
Refusal == About(Absent, FALSE)

\* The page is opened, perhaps by the link in a certificate's QR code.
VisitInit ==
  /\ typed = "empty" /\ reading = {}
  /\ verdict = Absent /\ subject = Absent
  /\ \E id \in LinkId \cup {Absent} :
       lookup = id /\ loading = (id # Absent) /\ pending = IF id = Absent THEN {} ELSE {id}
  /\ viewing = FALSE /\ dialog = FALSE /\ kept = Absent

-----------------------------------------------------------------------------

\* Typing, pasting, "Load Sample".
Paste(t) ==
  /\ ~dialog /\ typed' = t
  /\ UNCHANGED <<reading, verdict, subject, lookup, loading, pending, preview>>

\* handleFileUpload: a file is read beside everything else, and fills the box
\* when it has been.
ChooseFile(t) ==
  /\ ~dialog /\ reading' = reading \cup {t}
  /\ UNCHANGED <<typed, verdict, subject, lookup, loading, pending, preview>>

FileRead(t) ==
  /\ t \in reading /\ reading' = reading \ {t}
  /\ typed' = t
  /\ UNCHANGED <<verdict, subject, lookup, loading, pending, preview>>

\* Mutant of CanVerify: the button stays enabled during a request.
CanVerifyAlways == ~dialog

CanVerify == ~dialog /\ ~loading

\* handleVerify of nothing, or of no JSON: the page keeps what it showed before,
\* under a verdict that says no.
RejectInput ==
  /\ CanVerify /\ typed \notin Submission
  /\ verdict' = Refusal
  /\ UNCHANGED <<inputs, subject, lookup, loading, pending, preview>>

Submit ==
  /\ CanVerify /\ typed \in Submission
  /\ loading' = TRUE /\ lookup' = Absent /\ subject' = typed
  /\ pending' = pending \cup {typed}
  /\ UNCHANGED <<inputs, verdict, preview>>

\* The answer to a submitted document, or the failure of the request: then there
\* is no document to preview, and an open preview is gone.
AnswerSubmission(d) ==
  /\ d \in pending \cap Submission
  /\ pending' = pending \ {d} /\ loading' = FALSE
  /\ \/ \E ok \in BOOLEAN : verdict' = About(d, ok) /\ UNCHANGED <<subject, dialog>>
     \/ verdict' = Refusal /\ subject' = Absent /\ dialog' = FALSE
  /\ UNCHANGED <<inputs, lookup, viewing, kept>>

\* handleVerifyById after its answer or failure.
AnswerLookup(id) ==
  /\ id \in pending \cap LinkId
  /\ pending' = pending \ {id} /\ loading' = FALSE
  /\ \E ok \in BOOLEAN : verdict' = About(id, ok)
  /\ UNCHANGED <<inputs, subject, lookup, preview>>

\* "View Certificate", which a valid verdict shows beside a document.  The effect
\* opens the preview when it has not been asked for before.
ViewCertificate ==
  /\ ~dialog /\ verdict # Absent /\ verdict.ok /\ subject # Absent
  /\ viewing' = TRUE /\ kept' = subject
  /\ dialog' = ~viewing
  /\ UNCHANGED <<inputs, verdict, subject, lookup, loading, pending>>

ClosePreview ==
  /\ dialog /\ viewing' = FALSE /\ dialog' = FALSE
  /\ UNCHANGED <<inputs, verdict, subject, lookup, loading, pending, kept>>

VisitNext ==
  \/ \E t \in Text : Paste(t) \/ ChooseFile(t) \/ FileRead(t)
  \/ RejectInput \/ Submit
  \/ \E d \in Submission : AnswerSubmission(d)
  \/ \E id \in LinkId : AnswerLookup(id)
  \/ ViewCertificate \/ ClosePreview

VisitSpec == VisitInit /\ [][VisitNext]_visitVars

-----------------------------------------------------------------------------
(***************************************************************************)
(* Properties.                                                             *)
(***************************************************************************)

\* The names, dates and status under the verdict: the link's record before the
\* document's.
Labelled == IF lookup # Absent THEN lookup ELSE subject

\* When no request is under way, "Valid Certificate" is the verdict on the
\* certificate that is named under it; and the preview that can be printed and
\* the file that "Download JSON" hands out beside it are of one certificate.
VerdictOfWhatIsShown ==
  /\ ~loading /\ verdict # Absent /\ verdict.ok => verdict.of = Labelled
  /\ dialog => kept = subject

=============================================================================
