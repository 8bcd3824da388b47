----------------------------- MODULE AdminPages -----------------------------
(***************************************************************************)
(* The administration pages as their user drives them: the issuer          *)
(* directory (admin/page.tsx), the organizations (OrganizationWorkspace),  *)
(* and the panels for issuer keys, managed DIDs, self-managed hosting and  *)
(* Document Stores.  Each shows one scope, an issuer or an organization,   *)
(* and what the server lists of it: its members, keys, methods or stores.  *)
(* The user selects another scope while lists are loading and changes are  *)
(* under way, another administrator changes the same lists, and every      *)
(* answer may be late, lost or an error.  A behaviour stays on one page.   *)
(*                                                                         *)
(* An item of a list is what the scope lists or is said of it there: a     *)
(* member, a pending key, a store in use; a change adds or removes it.     *)
(***************************************************************************)
EXTENDS Naturals

CONSTANTS Page, Scope, Item, Nothing, MaxClicks

\* A list as the server answered it, and a change asked for.
Listing == [read : BOOLEAN, items : SUBSET Item]
PageCall == [op : {"add", "role", "remove", "status", "view", "save", "download"},
             scope : Scope \cup {Nothing}, item : Item \cup {Nothing}, form : Scope \cup {Nothing},
             owner : Scope \cup {Nothing}, phase : {"sent", "done", "failed"}, answer : Listing]

ASSUME NothingAssumption == Nothing \notin PageCall

Panels == {"keys", "identities", "hosting", "stores"}

VARIABLES
  screen,   \* the page of this behaviour
  scope,    \* the scope shown, or Nothing
  rows,     \* the rows shown: <<scope the server listed it for, item>>
  loaded,   \* whether a list has been answered since the scope was selected
  load,     \* the list being loaded, with what the server answered, or Nothing
  editing,  \* whether the form edits a scope, or a new one; or nothing
  form,     \* the scope whose record fills the form, or Nothing
  preset,   \* the issuer whose organization is selected for a new one, or Nothing
  change,   \* the change under way, or Nothing
  roster,   \* [Scope -> SUBSET Item], what the server holds
  gone,     \* what this page had removed and nobody added again
  unseen,   \* the removals reported beside a list that could not be read again
  clicks    \* clicks so far; bounds the behaviours

shown == <<scope, rows, loaded, editing, form, preset, unseen>>
pageVars == <<screen, shown, load, change, roster, gone, clicks>>

Unread == [read |-> FALSE, items |-> {}]
Read(s) == [read |-> TRUE, items |-> roster[s]]
ListOf(s, items) == {s} \X items

Blank ==
  /\ scope = Nothing /\ rows = {} /\ loaded = FALSE
  /\ load = Nothing /\ editing = "no" /\ form = Nothing /\ change = Nothing
  /\ preset = Nothing /\ gone = {} /\ unseen = {} /\ clicks = 0

PagesInit == screen \in Page /\ roster \in [Scope -> SUBSET Item] /\ Blank

Click == clicks < MaxClicks /\ clicks' = clicks + 1
Busy == change # Nothing
Asked == <<change.scope, change.item>>

\* A change asked of the server: for which scope and item, and the scopes whose
\* record fills the form and whose organization goes with it.
SendChange(op, s, i, from, owner) ==
  change' = [op |-> op, scope |-> s, item |-> i, form |-> from, owner |-> owner,
             phase |-> "sent", answer |-> Unread]
Ask(op, s, i, from) == SendChange(op, s, i, from, Nothing)

\* The effect of a selection: the load under way is aborted and another begun.
StartLoad(s) == load' = IF s = Nothing THEN Nothing ELSE [scope |-> s, answer |-> Unread]

-----------------------------------------------------------------------------
(***************************************************************************)
(* The issuer directory.                                                   *)
(***************************************************************************)

\* "View details": the list is loaded again; the rows shown stay until then.
\* The form is emptied, but not the organization selected for a new issuer.
ViewIssuer(s) ==
  /\ screen = "issuers" /\ Click
  /\ scope' = s /\ loaded' = FALSE /\ StartLoad(s)
  /\ editing' = "no" /\ form' = Nothing
  /\ UNCHANGED <<screen, rows, preset, unseen, change, roster, gone>>

\* beginEdit selects the issuer and its organization, too; only another selection
\* loads again.
EditIssuer(s) ==
  /\ screen = "issuers" /\ Click
  /\ scope' = s /\ editing' = "scope" /\ form' = s /\ preset' = s
  /\ IF s = scope THEN UNCHANGED <<loaded, load>> ELSE loaded' = FALSE /\ StartLoad(s)
  /\ UNCHANGED <<screen, rows, unseen, change, roster, gone>>

\* The selector of a new issuer's organization.
ChooseOrganization ==
  /\ screen = "issuers" /\ editing = "no" /\ Click
  /\ preset' = Nothing
  /\ UNCHANGED <<screen, scope, rows, loaded, editing, form, unseen, load, change, roster, gone>>

\* "Create issuer" in the header: the list is emptied with the selection, and
\* the organization is the user's own or none.
NewIssuer ==
  /\ screen = "issuers" /\ Click
  /\ scope' = Nothing /\ rows' = (IF scope = Nothing THEN rows ELSE {})
  /\ loaded' = FALSE /\ StartLoad(Nothing)
  /\ editing' = "no" /\ form' = Nothing /\ preset' = Nothing
  /\ UNCHANGED <<screen, unseen, change, roster, gone>>

\* Mutant of CancelEdit: the form keeps what it was filled with.
CancelKeepsForm ==
  /\ screen = "issuers" /\ editing = "scope" /\ Click
  /\ editing' = "no"
  /\ UNCHANGED <<screen, scope, rows, loaded, form, preset, unseen, load, change, roster, gone>>

CancelEdit ==
  /\ screen = "issuers" /\ editing = "scope" /\ Click
  /\ editing' = "no" /\ form' = Nothing
  /\ UNCHANGED <<screen, scope, rows, loaded, preset, unseen, load, change, roster, gone>>

\* saveIssuer: the issuer being edited, or a new one of what the form holds, for
\* the organization selected.
SaveIssuer ==
  /\ screen = "issuers" /\ ~Busy /\ Click
  /\ IF editing = "scope" THEN Ask("save", scope, Nothing, form)
                          ELSE SendChange("save", Nothing, Nothing, form, preset)
  /\ UNCHANGED <<screen, shown, load, roster, gone>>

\* addMember waits for the list; a role change or a removal does not, and asks
\* for the issuer the row belongs to.
AddIssuerMember(i) ==
  /\ screen = "issuers" /\ ~Busy /\ scope # Nothing /\ load = Nothing /\ Click
  /\ Ask("add", scope, i, Nothing)
  /\ UNCHANGED <<screen, shown, load, roster, gone>>

ChangeIssuerMember(op, r) ==
  /\ screen = "issuers" /\ ~Busy /\ scope # Nothing /\ Click
  /\ Ask(op, r[1], r[2], Nothing)
  /\ UNCHANGED <<screen, shown, load, roster, gone>>

\* changeStatus and softDelete, of any issuer of the directory.
ChangeIssuerStatus(s) ==
  /\ screen = "issuers" /\ ~Busy /\ Click
  /\ Ask("status", s, Nothing, Nothing)
  /\ UNCHANGED <<screen, shown, load, roster, gone>>

\* The answer is applied to the page as it is by then: addMember sets the list
\* it read for its own issuer, a role change replaces and a removal drops the
\* row of that user, whichever issuer it is of; a saved issuer is selected.
AnswerIssuers ==
  /\ screen = "issuers" /\ Busy /\ UNCHANGED <<preset, unseen>>
  /\ \/ /\ change.op = "add" /\ change.answer.read
        /\ rows' = ListOf(change.scope, change.answer.items)
        /\ UNCHANGED <<scope, loaded, load, editing, form>>
     \/ /\ change.op = "role" /\ change.phase = "done"
        /\ rows' = {IF r[2] = change.item THEN <<change.scope, change.item>> ELSE r : r \in rows}
        /\ UNCHANGED <<scope, loaded, load, editing, form>>
     \/ /\ change.op = "remove" /\ change.phase = "done"
        /\ rows' = {r \in rows : r[2] # change.item}
        /\ UNCHANGED <<scope, loaded, load, editing, form>>
     \/ /\ change.op = "status" /\ change.phase = "done"
        /\ UNCHANGED shown /\ UNCHANGED load
     \/ /\ change.op = "save" /\ change.phase = "done"
        /\ \E s \in IF change.scope = Nothing THEN Scope ELSE {change.scope} :
             /\ scope' = s
             /\ IF s = scope THEN UNCHANGED <<loaded, load>> ELSE loaded' = FALSE /\ StartLoad(s)
        /\ editing' = "no" /\ form' = Nothing /\ UNCHANGED rows

-----------------------------------------------------------------------------
(***************************************************************************)
(* The organizations.  One request at a time, a view included.             *)
(***************************************************************************)

\* Mutant of ViewOrganization: the members are asked for at once, and shown
\* beside a change that is still under way.
ViewUnlocked(s) ==
  /\ screen = "organizations" /\ Click
  /\ scope' = s /\ editing' = "no" /\ rows' = {} /\ loaded' = FALSE /\ StartLoad(s)
  /\ UNCHANGED <<screen, form, preset, unseen, change, roster, gone>>

\* view empties the list, selects the organization once its record has come,
\* and asks for the members then; load is the second request.
ViewOrganization(s) ==
  /\ screen = "organizations" /\ ~Busy /\ load = Nothing /\ Click
  /\ editing' = "no" /\ rows' = {} /\ loaded' = FALSE
  /\ Ask("view", s, Nothing, Nothing)
  /\ UNCHANGED <<screen, scope, form, preset, unseen, load, roster, gone>>

\* edit selects the organization, or none for a new one, and fills the form.
EditOrganization(s) ==
  /\ screen = "organizations" /\ ~Busy /\ load = Nothing /\ Click
  /\ scope' = s /\ form' = s /\ editing' = IF s = Nothing THEN "new" ELSE "scope"
  /\ UNCHANGED <<screen, rows, loaded, preset, unseen, load, change, roster, gone>>

CloseEditor ==
  /\ screen = "organizations" /\ editing # "no" /\ Click
  /\ editing' = "no"
  /\ UNCHANGED <<screen, scope, rows, loaded, form, preset, unseen, load, change, roster, gone>>

\* save writes the form to the organization selected.
SaveOrganization ==
  /\ screen = "organizations" /\ ~Busy /\ load = Nothing /\ editing # "no" /\ Click
  /\ Ask("save", scope, Nothing, form)
  /\ UNCHANGED <<screen, shown, load, roster, gone>>

ChangeOrganizationStatus(s) ==
  /\ screen = "organizations" /\ ~Busy /\ load = Nothing /\ Click
  /\ Ask("status", s, Nothing, Nothing)
  /\ UNCHANGED <<screen, shown, load, roster, gone>>

\* changeMember asks for the organization selected, whatever list the row is of.
AddOrganizationMember(i) ==
  /\ screen = "organizations" /\ ~Busy /\ load = Nothing /\ scope # Nothing /\ editing = "no" /\ Click
  /\ Ask("add", scope, i, Nothing)
  /\ UNCHANGED <<screen, shown, load, roster, gone>>

ChangeOrganizationMember(op, r) ==
  /\ screen = "organizations" /\ ~Busy /\ load = Nothing /\ scope # Nothing /\ editing = "no" /\ Click
  /\ Ask(op, scope, r[2], Nothing)
  /\ UNCHANGED <<screen, shown, load, roster, gone>>

AnswerOrganizations ==
  /\ screen = "organizations" /\ Busy /\ change.phase = "done" /\ UNCHANGED <<preset, unseen>>
  /\ \/ /\ change.op = "view" /\ scope' = change.scope /\ StartLoad(change.scope)
        /\ UNCHANGED <<rows, loaded, editing, form>>
     \/ /\ change.op \in {"add", "role"}
        /\ rows' = {r \in rows : r[2] # change.item} \cup {<<change.scope, change.item>>}
        /\ UNCHANGED <<scope, loaded, load, editing, form>>
     \/ /\ change.op = "remove" /\ rows' = {r \in rows : r[2] # change.item}
        /\ UNCHANGED <<scope, loaded, load, editing, form>>
     \/ /\ change.op = "status" /\ scope' = change.scope
        /\ UNCHANGED <<rows, loaded, load, editing, form>>
     \/ /\ change.op = "save" /\ editing' = "no"
        /\ scope' \in IF change.scope = Nothing THEN Scope ELSE {change.scope}
        /\ UNCHANGED <<rows, loaded, load, form>>

-----------------------------------------------------------------------------
(***************************************************************************)
(* The panels.  A selection empties the list and aborts what is loading.   *)
(***************************************************************************)

\* What the server does with a request, and whether it can.
Possible ==
  CASE change.op = "remove" -> change.item \in roster[change.scope]
    [] change.op = "role" /\ screen = "organizations" -> change.item \in roster[change.scope]
    [] OTHER -> TRUE
Performed ==
  CASE change.op \in {"add", "role"} -> [roster EXCEPT ![change.scope] = @ \cup {change.item}]
    [] change.op = "remove" -> [roster EXCEPT ![change.scope] = @ \ {change.item}]
    [] OTHER -> roster

Select(s) ==
  /\ scope' = s /\ rows' = {} /\ loaded' = FALSE /\ unseen' = {} /\ StartLoad(s)
  /\ UNCHANGED <<screen, editing, form, preset>>

\* The keys and hosting panels are mounted anew for another issuer or
\* organization; a change under way goes on, and its answer reaches no page.
Remount(s) ==
  /\ s # scope /\ Select(s) /\ change' = Nothing
  /\ roster' \in IF Busy /\ change.phase = "sent" /\ Possible THEN {roster, Performed} ELSE {roster}
  /\ gone' = {r \in gone : r[2] \notin roster'[r[1]]}

SelectKeys(s) == screen = "keys" /\ Click /\ Remount(s)
SelectHosting(s) == screen = "hosting" /\ Click /\ Remount(s)

\* Mutant of SelectIdentity: the methods of the organization before stay.
SelectKeepsMethods(s) ==
  /\ screen = "identities" /\ s # scope /\ Click
  /\ scope' = s /\ loaded' = FALSE /\ StartLoad(s)
  /\ UNCHANGED <<screen, rows, editing, form, preset, unseen, change, roster, gone>>

\* A session of another user or organization (Nothing) empties the panel, too.
SelectIdentity(s) ==
  /\ screen = "identities" /\ s # scope /\ Click
  /\ Select(s)
  /\ UNCHANGED <<change, roster, gone>>

\* The Document Stores' selector is disabled while a change is under way.  That
\* another user signs in by then, which selects as well, is left out.
SelectStores(s) ==
  /\ screen = "stores" /\ s # scope /\ ~Busy /\ Click
  /\ Select(s)
  /\ UNCHANGED <<change, roster, gone>>

\* rotate, activate; download changes nothing that is listed.  The panel shows
\* its buttons with the list.
ChangeKeys(op, i) ==
  /\ screen = "keys" /\ loaded /\ ~Busy /\ Click
  /\ Ask(op, scope, i, Nothing)
  /\ UNCHANGED <<screen, shown, load, roster, gone>>

DownloadIdentity ==
  /\ screen = "identities" /\ scope # Nothing /\ ~Busy /\ Click
  /\ Ask("download", scope, Nothing, Nothing)
  /\ UNCHANGED <<screen, shown, load, roster, gone>>

\* configure, files, validate and the two selections.
ChangeHosting(op, i) ==
  /\ screen = "hosting" /\ scope # Nothing /\ load = Nothing /\ ~Busy /\ Click
  /\ Ask(op, scope, i, Nothing)
  /\ UNCHANGED <<screen, shown, load, roster, gone>>

\* add, and the actions of a store that is shown.
ChangeStores(op, i) ==
  /\ screen = "stores" /\ scope # Nothing /\ load = Nothing /\ ~Busy /\ Click
  /\ Ask(op, scope, i, Nothing)
  /\ op = "add" \/ <<scope, i>> \in rows
  /\ UNCHANGED <<screen, shown, load, roster, gone>>

AnswerPanel ==
  /\ screen \in Panels /\ Busy /\ UNCHANGED <<scope, load, editing, form, preset>>
  /\ \/ /\ change.answer.read
        /\ rows' = ListOf(change.scope, change.answer.items) /\ loaded' = TRUE /\ unseen' = {}
     \/ change.op = "download" /\ change.phase = "done" /\ UNCHANGED <<rows, loaded, unseen>>

-----------------------------------------------------------------------------
(***************************************************************************)
(* Every page: the server, the lists and what is lost on the way.          *)
(***************************************************************************)

\* The server performs a request or refuses it.
Serve ==
  /\ Busy /\ change.phase = "sent"
  /\ \/ Possible /\ change' = [change EXCEPT !.phase = "done"] /\ roster' = Performed
     \/ change' = [change EXCEPT !.phase = "failed"] /\ UNCHANGED roster
  /\ gone' = IF roster' = roster THEN gone
               ELSE IF change.op = "remove" THEN gone \cup {Asked} ELSE gone \ {Asked}
  /\ UNCHANGED <<screen, shown, load, clicks>>

\* The list a change is answered with, or that is asked for after it: by the
\* directory after an addition, by the keys after a success, by hosting and
\* stores after a failure as well.  Nothing aborts it.
ReadAfter ==
  /\ Busy /\ ~change.answer.read
  /\ \/ /\ change.phase = "done"
        /\ \/ screen = "issuers" /\ change.op = "add"
           \/ screen \in {"keys", "hosting", "stores"}
     \/ change.phase = "failed" /\ screen \in {"hosting", "stores"}
  /\ change' = [change EXCEPT !.answer = Read(change.scope)]
  /\ UNCHANGED <<screen, shown, load, roster, gone, clicks>>

AnswerCall ==
  /\ AnswerIssuers \/ AnswerOrganizations \/ AnswerPanel
  /\ change' = Nothing
  /\ UNCHANGED <<screen, roster, gone, clicks>>

\* An error, or an answer that never comes: the page shows what it showed.  The
\* keys and hosting panels report a success before they read the list again, so
\* that what fails may be the list only.
Fail ==
  /\ Busy /\ change.phase # "sent" /\ change' = Nothing
  /\ \/ /\ screen \in {"keys", "hosting"} /\ change.phase = "done"
        /\ unseen' = unseen \cup ({Asked} \cap gone) /\ UNCHANGED gone
     \/ /\ screen \in {"keys", "hosting"} /\ change.phase = "done" => ~change.answer.read
        /\ gone' = (IF change.phase = "done" THEN gone \ {Asked} ELSE gone) /\ UNCHANGED unseen
  /\ UNCHANGED <<screen, scope, rows, loaded, editing, form, preset, load, roster, clicks>>

ReadList ==
  /\ load # Nothing /\ ~load.answer.read
  /\ load' = [load EXCEPT !.answer = Read(load.scope)]
  /\ UNCHANGED <<screen, shown, change, roster, gone, clicks>>

\* A list that cannot be loaded leaves the rows as they are.
AnswerList ==
  /\ load # Nothing /\ load' = Nothing
  /\ \/ /\ load.answer.read
        /\ rows' = ListOf(load.scope, load.answer.items) /\ loaded' = TRUE /\ unseen' = {}
     \/ UNCHANGED <<rows, loaded, unseen>>
  /\ UNCHANGED <<screen, scope, editing, form, preset, change, roster, gone, clicks>>

\* Another administrator adds or removes an item.
OthersChange(s, i) ==
  /\ Click
  /\ roster' = [roster EXCEPT ![s] = IF i \in @ THEN @ \ {i} ELSE @ \cup {i}]
  /\ gone' = gone \ {<<s, i>>}
  /\ UNCHANGED <<screen, shown, load, change>>

\* What each page offers to click.
IssuersClick ==
  \/ \E s \in Scope : ViewIssuer(s) \/ EditIssuer(s) \/ ChangeIssuerStatus(s)
  \/ NewIssuer \/ ChooseOrganization \/ CancelEdit \/ SaveIssuer
  \/ \E i \in Item : AddIssuerMember(i)
  \/ \E op \in {"role", "remove"}, r \in rows : ChangeIssuerMember(op, r)

OrganizationsClick ==
  \/ \E s \in Scope : ViewOrganization(s) \/ ChangeOrganizationStatus(s)
  \/ \E s \in Scope \cup {Nothing} : EditOrganization(s)
  \/ CloseEditor \/ SaveOrganization
  \/ \E i \in Item : AddOrganizationMember(i)
  \/ \E op \in {"role", "remove"}, r \in rows : ChangeOrganizationMember(op, r)

Alternative == {"add", "remove"} \X Item
KeysClick == \E s \in Scope, a \in Alternative : SelectKeys(s) \/ ChangeKeys(a[1], a[2])
IdentitiesClick == DownloadIdentity \/ \E s \in Scope \cup {Nothing} : SelectIdentity(s)
HostingClick == \E s \in Scope, a \in Alternative : SelectHosting(s) \/ ChangeHosting(a[1], a[2])
StoresClick == \E s \in Scope \cup {Nothing}, a \in Alternative : SelectStores(s) \/ ChangeStores(a[1], a[2])

PagesNext ==
  \/ IssuersClick \/ OrganizationsClick
  \/ KeysClick \/ IdentitiesClick \/ HostingClick \/ StoresClick
  \/ Serve \/ ReadAfter \/ AnswerCall \/ Fail \/ ReadList \/ AnswerList
  \/ \E s \in Scope, i \in Item : OthersChange(s, i)

PagesSpec == PagesInit /\ [][PagesNext]_pageVars

-----------------------------------------------------------------------------
(***************************************************************************)
(* Properties.                                                             *)
(***************************************************************************)

\* A form of the directory that was filled from an issuer's record is saved to
\* that issuer, and a new issuer gets no name, code or other detail that was
\* filled in from another: no selection, cancellation or late answer leaves the
\* form behind.  The selector of the organization is no part of the form: an edit
\* sets it, and only the user's choice or "Create issuer" sets it again, so a new
\* issuer may be created for the organization of the one edited before (owner).
\* An issuer there is keeps its own: no save of it carries an organization.
DirectoryFormSavedToSource ==
  screen = "issuers" /\ Busy /\ change.op = "save" =>
    /\ change.form = change.scope
    /\ change.scope # Nothing => change.owner = Nothing

\* A panel lists nothing of another issuer or organization than the one it
\* shows, whatever is loading or under way: every selection empties the list
\* and outlives no answer for the one before.  And a page that waits for a
\* change before it loads again does not show an item whose removal it has
\* reported, unless somebody added it again.  The keys and hosting panels report
\* a change before they ask for the new list: the item stays until its answer, and
\* when that fails, with an error beside the report, until another list (unseen).
PanelsAreCurrent ==
  /\ screen \in Panels => \A r \in rows : r[1] = scope
  /\ screen # "issuers" => \A r \in gone \cap rows :
       \/ Busy /\ r = Asked
       \/ r \in unseen /\ screen \in {"keys", "hosting"}

=============================================================================
