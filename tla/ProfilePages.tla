----------------------------- MODULE ProfilePages -----------------------------
(***************************************************************************)
(* The two pages about issuer profiles: the registry (did/page.tsx), which *)
(* edits, activates and deactivates them, and the template builder         *)
(* (templates/builder/page.tsx), which loads, saves and deletes templates  *)
(* and gives each an issuer and one of its profiles.  Both load their      *)
(* lists again after a change while other calls are still under way, and   *)
(* others change profiles and templates meanwhile.  A behaviour stays on   *)
(* one of the pages.                                                       *)
(***************************************************************************)
EXTENDS Naturals, FiniteSets

CONSTANTS
  Owner,       \* issuers whose templates the user sees
  Identity,    \* issuer profiles
  OwnedBy,     \* [Identity -> Owner]
  Home,        \* the issuer whose profiles the registry shows
  Unchosen,    \* no issuer, profile or list
  MaxActs      \* bound on the clicks and on the changes by others

ASSUME ProfilesAssumption ==
  /\ OwnedBy \in [Identity -> Owner] /\ Owner \cap Identity = {}
  /\ (Owner \cup Identity) \cap {Unchosen, "none", "list", "change", "offer", "options"} = {}

VARIABLES
  live,        \* profiles that are active
  templates,   \* [Owner -> the profile of the issuer's template, Unchosen, or "none"]
  opened,      \* "registry" or "builder"
  calls,       \* what the page waits for, and how far it got
  acts,
  \* The registry.
  profiles,    \* the profiles shown: [OfHome -> whether shown active], or Unchosen
  spinning,    \* loading
  edited,      \* editingId
  filled,      \* the profile editForm was filled from
  toggling,    \* busyProfileId
  \* The builder.
  issuers,     \* the issuers offered
  owner,       \* ownerIssuerId
  pick,        \* issuerProfileId
  options,     \* issuerProfiles
  optionsFail, \* profileLoadError
  saved        \* savedTemplates: [of, profile]

server == <<live, templates>>
registry == <<profiles, spinning, edited, filled, toggling>>
chosen == <<owner, pick, options, optionsFail>>
builder == <<issuers, chosen, saved>>
profileVars == <<server, opened, calls, acts, registry, builder>>

OfHome == {p \in Identity : OwnedBy[p] = Home}

\* The list, the change of a form, the two selectors, a deletion of each issuer's
\* template, a toggle of each profile.  Bound: one call of each kind at a time.
Call == {"list", "change", "offer", "options"} \cup Owner \cup Identity

Idle == [stage |-> "idle"]
Stage(k) == calls[k].stage
Goes(k, r) == calls' = [calls EXCEPT ![k] = r]
Reaches(k, stage) == calls' = [calls EXCEPT ![k].stage = stage]
Act == acts < MaxActs /\ acts' = acts + 1

ProfilesInit ==
  /\ live \in SUBSET Identity
  /\ templates \in [Owner -> Identity \cup {Unchosen, "none"}]
  /\ \A o \in Owner : templates[o] \in Identity => OwnedBy[templates[o]] = o
  /\ opened \in {"registry", "builder"} /\ acts = 0
  /\ calls = [k \in Call |-> IF k = "list" \/ (k = "offer" /\ opened = "builder")
                             THEN [stage |-> "asked"] ELSE Idle]
  /\ profiles = Unchosen /\ spinning = TRUE /\ edited = Unchosen /\ filled = Unchosen /\ toggling = Unchosen
  /\ issuers = {} /\ owner = Unchosen /\ pick = Unchosen
  /\ options = {} /\ optionsFail = FALSE /\ saved = {}

-----------------------------------------------------------------------------
(***************************************************************************)
(* The registry.                                                           *)
(***************************************************************************)

InRegistry == opened = "registry" /\ UNCHANGED <<opened, builder>>
IsListed(p) == ~spinning /\ profiles # Unchosen /\ p \in OfHome

Refresh ==
  /\ InRegistry /\ ~spinning /\ Stage("list") = "idle" /\ Act
  /\ Goes("list", [stage |-> "asked"]) /\ spinning' = TRUE
  /\ UNCHANGED <<server, profiles, edited, filled, toggling>>

\* Mutant of BeginEdit: the form keeps what was typed for the profile before.
BeginEditKeepsForm(p) ==
  /\ InRegistry /\ IsListed(p) /\ edited # p /\ Act
  /\ edited' = p /\ filled' = IF filled = Unchosen THEN p ELSE filled
  /\ UNCHANGED <<server, calls, profiles, spinning, toggling>>

BeginEdit(p) ==
  /\ InRegistry /\ IsListed(p) /\ edited # p /\ Act
  /\ edited' = p /\ filled' = p
  /\ UNCHANGED <<server, calls, profiles, spinning, toggling>>

CancelProfileEdit ==
  /\ InRegistry /\ edited # Unchosen /\ IsListed(edited) /\ Act
  /\ edited' = Unchosen
  /\ UNCHANGED <<server, calls, profiles, spinning, filled, toggling>>

\* submitEdit; the button waits for the save and for the list after it.
SubmitEdit ==
  /\ InRegistry /\ edited # Unchosen /\ IsListed(edited) /\ Stage("change") = "idle" /\ Act
  /\ Goes("change", [stage |-> "sent", of |-> edited, from |-> filled])
  /\ UNCHANGED <<server, registry>>

\* A saved profile closes whatever is edited by then, and the list is loaded.
EditAnswered ==
  /\ InRegistry /\ UNCHANGED <<server, acts, profiles, filled, toggling>>
  /\ \/ Stage("change") = "done" /\ Goes("change", [stage |-> "asked"]) /\ edited' = Unchosen /\ spinning' = TRUE
     \/ Stage("change") = "failed" /\ Goes("change", Idle) /\ UNCHANGED <<edited, spinning>>

\* toggleActive asks for the opposite of what is shown; the button of the profile
\* toggled last is disabled.
ToggleActive(p) ==
  /\ InRegistry /\ IsListed(p) /\ edited # p /\ toggling # p /\ Stage(p) = "idle" /\ Act
  /\ Goes(p, [stage |-> "sent", on |-> ~profiles[p]]) /\ toggling' = p
  /\ UNCHANGED <<server, profiles, spinning, edited, filled>>

\* The profile in the answer replaces the one in the list shown by then.
ToggleAnswered(p) ==
  /\ InRegistry /\ Stage(p) \in {"done", "failed"} /\ Goes(p, Idle) /\ toggling' = Unchosen
  /\ profiles' = IF Stage(p) = "done" /\ profiles # Unchosen
                 THEN [profiles EXCEPT ![p] = calls[p].on] ELSE profiles
  /\ UNCHANGED <<server, acts, spinning, edited, filled>>

-----------------------------------------------------------------------------
(***************************************************************************)
(* The template builder.                                                   *)
(***************************************************************************)

InBuilder == opened = "builder" /\ UNCHANGED <<opened, registry>>

\* The effect of another issuer: the options of the one before go, and their load
\* is aborted; without an issuer no profile is chosen, either.
OwnerBecomes(o, p) ==
  /\ owner' = o /\ pick' = IF o = Unchosen THEN Unchosen ELSE p
  /\ IF o = owner THEN UNCHANGED <<options, optionsFail, calls>>
     ELSE /\ options' = {} /\ optionsFail' = FALSE
          /\ Goes("options", IF o = Unchosen THEN Idle ELSE [stage |-> "asked", of |-> o])

\* Which issuers may be chosen arrives once, beside the templates; a single one
\* is chosen.  It is assumed to offer the issuer of a template loaded before it.
OfferOwners(S) ==
  /\ InBuilder /\ Stage("offer") = "asked" /\ owner \in S \cup {Unchosen}
  /\ issuers' = S
  /\ IF Cardinality(S) = 1 /\ owner \notin S
     THEN \E o \in S :
            /\ owner' = o /\ options' = {} /\ optionsFail' = FALSE
            /\ calls' = [calls EXCEPT !["offer"] = Idle, !["options"] = [stage |-> "asked", of |-> o]]
     ELSE Goes("offer", Idle) /\ UNCHANGED <<owner, options, optionsFail>>
  /\ UNCHANGED <<server, acts, pick, saved>>

\* Mutant of PickOwner: the profile chosen for the issuer before stays.
PickOwnerKeepsProfile(o) ==
  /\ InBuilder /\ o # owner /\ Act
  /\ OwnerBecomes(o, pick)
  /\ UNCHANGED <<server, issuers, saved>>

PickOwner(o) ==
  /\ InBuilder /\ o # owner /\ Act
  /\ OwnerBecomes(o, Unchosen)
  /\ UNCHANGED <<server, issuers, saved>>

OptionsShown == owner # Unchosen /\ Stage("options") = "idle" /\ ~optionsFail

PickProfile(p) ==
  /\ InBuilder /\ OptionsShown /\ p # pick /\ Act /\ pick' = p
  /\ UNCHANGED <<server, calls, issuers, owner, options, optionsFail, saved>>

\* The active profiles of one issuer, or an error.
ServeOptions ==
  /\ InBuilder /\ Stage("options") = "asked"
  /\ Goes("options", [stage |-> "answered", list |-> {p \in live : OwnedBy[p] = calls["options"].of}])
  /\ UNCHANGED <<server, acts, builder>>

ShowOptions ==
  /\ InBuilder /\ Stage("options") \in {"asked", "answered"} /\ Goes("options", Idle)
  /\ \/ Stage("options") = "answered" /\ options' = calls["options"].list /\ optionsFail' = FALSE
     \/ optionsFail' = TRUE /\ UNCHANGED options
  /\ UNCHANGED <<server, acts, issuers, owner, pick, saved>>

\* loadTemplate takes over the template's issuer and profile.
LoadTemplate(t) ==
  /\ InBuilder /\ Act
  /\ OwnerBecomes(t.of, t.profile)
  /\ UNCHANGED <<server, issuers, saved>>

\* saveTemplate; saving lasts until the list after it.
SaveTemplate ==
  /\ InBuilder /\ OptionsShown /\ Stage("change") = "idle" /\ Act
  /\ Goes("change", [stage |-> "sent", of |-> owner, profile |-> pick])
  /\ UNCHANGED <<server, builder>>

DeleteTemplate(t) ==
  /\ InBuilder /\ Stage(t.of) = "idle" /\ Act
  /\ Goes(t.of, [stage |-> "sent"])
  /\ UNCHANGED <<server, builder>>

\* A change that was done is followed by a list, one that failed by nothing.
TemplatesChanged(k) ==
  /\ InBuilder
  /\ \/ Stage(k) = "done" /\ Goes(k, [stage |-> "asked"])
     \/ Stage(k) = "failed" /\ Goes(k, Idle)
  /\ UNCHANGED <<server, acts, builder>>

-----------------------------------------------------------------------------
(***************************************************************************)
(* The server, and the lists of both pages.                                *)
(***************************************************************************)

pageState == <<opened, acts, registry, builder>>

\* PATCH /api/issuer-profiles, with or without effect; its answer may be lost.
ServeEdit ==
  /\ opened = "registry" /\ Stage("change") = "sent"
  /\ Reaches("change", "done") \/ Reaches("change", "failed")
  /\ UNCHANGED <<server, pageState>>

ServeToggle(p) ==
  /\ Stage(p) = "sent"
  /\ \/ /\ live' = IF calls[p].on THEN live \cup {p} ELSE live \ {p}
        /\ Reaches(p, "done") \/ Reaches(p, "failed")
     \/ Reaches(p, "failed") /\ UNCHANGED live
  /\ UNCHANGED <<templates, pageState>>

\* assertIssuerProfile, and then the upsert, which the foreign key refuses when
\* the profile is not the issuer's.
CheckTemplate ==
  /\ opened = "builder" /\ Stage("change") = "sent"
  /\ \/ /\ calls["change"].profile \in {Unchosen} \cup {p \in live : OwnedBy[p] = calls["change"].of}
        /\ Reaches("change", "checked")
     \/ Reaches("change", "failed")
  /\ UNCHANGED <<server, pageState>>

StoreTemplate ==
  LET c == calls["change"] IN
  /\ c.stage = "checked"
  /\ \/ /\ templates' = [templates EXCEPT ![c.of] = c.profile]
        /\ Reaches("change", "done") \/ Reaches("change", "failed")
     \/ Reaches("change", "failed") /\ UNCHANGED templates
  /\ UNCHANGED <<live, pageState>>

ServeDeletion(o) ==
  /\ Stage(o) = "sent"
  /\ \/ /\ templates' = [templates EXCEPT ![o] = "none"]
        /\ Reaches(o, "done") \/ Reaches(o, "failed")
     \/ Reaches(o, "failed") /\ UNCHANGED templates
  /\ UNCHANGED <<live, pageState>>

Kept == {[of |-> o, profile |-> templates[o]] : o \in {x \in Owner : templates[x] # "none"}}

AnswerListing(k) ==
  /\ k \notin {"offer", "options"} /\ Stage(k) = "asked"
  /\ Goes(k, [stage |-> "answered", list |-> IF opened = "registry" THEN [p \in OfHome |-> p \in live] ELSE Kept])
  /\ UNCHANGED <<server, pageState>>

\* loadProfiles and loadTemplates after their answer or failure, whichever of
\* several loads it is.
ShowListing(k) ==
  /\ k \notin {"offer", "options"} /\ Stage(k) \in {"asked", "answered"} /\ Goes(k, Idle)
  /\ spinning' = (spinning /\ opened = "builder")
  /\ \/ Stage(k) = "answered" /\ opened = "registry" /\ profiles' = calls[k].list /\ UNCHANGED saved
     \/ Stage(k) = "answered" /\ opened = "builder" /\ saved' = calls[k].list /\ UNCHANGED profiles
     \/ UNCHANGED <<profiles, saved>>
  /\ UNCHANGED <<server, opened, acts, edited, filled, toggling, issuers, chosen>>

\* Other administrators activate and deactivate profiles, and save templates.
OthersEdit ==
  /\ Act /\ UNCHANGED <<opened, calls, registry, builder>>
  /\ \/ \E p \in Identity : live' \in {live \cup {p}, live \ {p}} \ {live} /\ UNCHANGED templates
     \/ \E o \in Owner : \E p \in {Unchosen, "none"} \cup {q \in live : OwnedBy[q] = o} :
          templates' = [templates EXCEPT ![o] = p] /\ UNCHANGED live

ProfilesNext ==
  \/ Refresh \/ CancelProfileEdit \/ SubmitEdit \/ EditAnswered \/ ServeEdit
  \/ \E p \in Identity : BeginEdit(p) \/ ToggleActive(p) \/ ToggleAnswered(p) \/ ServeToggle(p)
  \/ \E S \in SUBSET Owner : OfferOwners(S)
  \/ \E o \in issuers \cup {Unchosen} : PickOwner(o)
  \/ \E p \in options \cup {Unchosen} : PickProfile(p)
  \/ ServeOptions \/ ShowOptions \/ SaveTemplate \/ CheckTemplate \/ StoreTemplate
  \/ \E t \in saved : LoadTemplate(t) \/ DeleteTemplate(t)
  \/ \E k \in {"change"} \cup Owner : TemplatesChanged(k)
  \/ \E o \in Owner : ServeDeletion(o)
  \/ \E k \in Call : AnswerListing(k) \/ ShowListing(k)
  \/ OthersEdit

ProfilesSpec == ProfilesInit /\ [][ProfilesNext]_profileVars

-----------------------------------------------------------------------------
(***************************************************************************)
(* Properties.                                                             *)
(***************************************************************************)

\* What the pages ask for is meant for whom it is sent: an edit reaches the
\* profile whose data filled the form, and a template is saved with a profile of
\* its own issuer or with none, whatever was loading, loaded again, aborted or
\* changed by others since the choice was made.
AsksForItsOwn ==
  Stage("change") = "sent" =>
    LET c == calls["change"] IN
    IF opened = "registry" THEN c.of = c.from
    ELSE c.profile # Unchosen => OwnedBy[c.profile] = c.of

=============================================================================
