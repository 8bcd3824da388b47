----------------------------- MODULE KeyWrapping -----------------------------
(***************************************************************************)
(* The master keys that issuer keys are sealed with.  Every server has its *)
(* keyring from its environment: the master it seals with, and older ones  *)
(* it can still open envelopes of.  An operator rolls a new master out     *)
(* server by server, has a script seal every envelope anew, and retires    *)
(* the older masters.  Keys are provisioned meanwhile, and several runs of *)
(* the script overlap.                                                     *)
(*                                                                         *)
(* The order of the operator's steps is that of "Master encryption-key     *)
(* rotation" in docs/PHASE3_KEY_MANAGEMENT_ARCHITECTURE.md; an environment *)
(* changes by a restart, which ends what the server was doing.             *)
(***************************************************************************)
EXTENDS Naturals

CONSTANTS
  Server,     \* server instances
  Row,        \* rows that issuer_keys may get: an issuer and a version
  Run,        \* runs of scripts/migrate-issuer-keys.js --rewrap
  MaxMaster   \* bound on the masters ever used

ASSUME WrappingAssumption == MaxMaster \in Nat \ {0}

VARIABLES
  ring,       \* [Server -> masters its environment holds]
  current,    \* [Server -> ISSUER_KEY_ENCRYPTION_KEY_ID, the master it seals with]
  envelope,   \* [Row -> what issuer_keys holds: the master, and who sealed it]
  draft,      \* [Row -> the server provisioning it and the master it has sealed with]
  run,        \* [Run -> where it stands, its master, the envelopes it has read]
  cleared     \* the master a run found every envelope sealed with, or 0

wrapVars == <<ring, current, envelope, draft, run, cleared>>

Master == 1..MaxMaster
NoRow == [master |-> 0, seal |-> "none"]
NoDraft == [server |-> "none", master |-> 0]
Waiting == [stage |-> "waiting", master |-> 0, plan |-> {}]

Sealed(m, by) == [master |-> m, seal |-> by]
Stored == {k \in Row : envelope[k] # NoRow}

WrappingInit ==
  /\ ring = [s \in Server |-> {1}] /\ current = [s \in Server |-> 1]
  /\ envelope = [k \in Row |-> NoRow] /\ draft = [k \in Row |-> NoDraft]
  /\ run = [r \in Run |-> Waiting] /\ cleared = 0

-----------------------------------------------------------------------------
(***************************************************************************)
(* The operator.                                                           *)
(***************************************************************************)

\* The requests of a server that is restarted end with it.
WithoutDraftsOf(s) == [k \in Row |-> IF draft[k].server = s THEN NoDraft ELSE draft[k]]

\* A newer master is added to one server's ISSUER_KEY_ENCRYPTION_PREVIOUS_KEYS.
AddMaster(s, m) ==
  /\ m > current[s] /\ m \notin ring[s]
  /\ ring' = [ring EXCEPT ![s] = @ \cup {m}]
  /\ draft' = WithoutDraftsOf(s)
  /\ UNCHANGED <<current, envelope, run, cleared>>

\* "Deploy the full keyring consistently to every server instance before
\* allowing writes with the new current ID."
UseMaster(s, m) ==
  /\ m > current[s] /\ \A t \in Server : m \in ring[t]
  /\ current' = [current EXCEPT ![s] = m]
  /\ draft' = WithoutDraftsOf(s) /\ cleared' = 0
  /\ UNCHANGED <<ring, envelope, run>>

\* "Keep old masters until all instances ... are satisfied": all of them use
\* the master that a run has found every envelope sealed with.
RetireMaster(s, m) ==
  /\ cleared # 0 /\ m \in ring[s] \ {cleared}
  /\ ring' = [ring EXCEPT ![s] = @ \ {m}]
  /\ draft' = WithoutDraftsOf(s)
  /\ UNCHANGED <<current, envelope, run, cleared>>

-----------------------------------------------------------------------------
(***************************************************************************)
(* Keys.                                                                   *)
(***************************************************************************)

\* provisionKey, of a creation, a rotation or an import: the key is sealed, and
\* a row for it asked of the database afterwards.
ProvisionKey(k, s) ==
  /\ envelope[k] = NoRow /\ draft[k] = NoDraft
  /\ draft' = [draft EXCEPT ![k] = [server |-> s, master |-> current[s]]]
  /\ UNCHANGED <<ring, current, envelope, run, cleared>>

\* phase3_save_key, or nothing if it refuses.
SaveRow(k) ==
  /\ draft[k] # NoDraft
  /\ draft' = [draft EXCEPT ![k] = NoDraft]
  /\ envelope' \in {envelope, [envelope EXCEPT ![k] = Sealed(draft[k].master, "first")]}
  /\ UNCHANGED <<ring, current, run, cleared>>

-----------------------------------------------------------------------------
(***************************************************************************)
(* A run of the script, with the environment of a server.                  *)
(***************************************************************************)

\* master: an envelope is opened with the master it names, if there is one.
CanOpen(s, e) == e.master \in ring[s]

\* rewrap reads every envelope, opens it, and seals the key again; one that is
\* sealed with the current master is left out.  A preflight ends here.
PlanRewrap(r, s) ==
  LET others == {k \in Stored : envelope[k].master # current[s]} IN
  /\ run[r].stage = "waiting" /\ \A t \in Server : current[t] = current[s]
  /\ run' = [run EXCEPT ![r] =
       IF \A k \in Stored : CanOpen(s, envelope[k])
       THEN [stage |-> "planned", master |-> current[s], plan |-> {<<k, envelope[k]>> : k \in others}]
       ELSE [Waiting EXCEPT !.stage = "ended"]]
  /\ cleared' = IF others = {} THEN current[s] ELSE cleared
  /\ UNCHANGED <<ring, current, envelope, draft>>

Unchanged(r) == \A p \in run[r].plan : envelope[p[1]] = p[2]

\* Mutant of ApplyRewrap: the envelopes are replaced, whatever they are by now.
ApplyBlindly(r) ==
  /\ run[r].stage = "planned"
  /\ envelope' = [k \in Row |-> IF \E p \in run[r].plan : p[1] = k
                                THEN Sealed(run[r].master, r) ELSE envelope[k]]
  /\ run' = [run EXCEPT ![r] = [Waiting EXCEPT !.stage = "ended"]]
  /\ UNCHANGED <<ring, current, draft, cleared>>

\* phase3_rewrap_keys replaces all the envelopes it was given, or none of them
\* if one is no longer what the run had read.
ApplyRewrap(r) ==
  /\ run[r].stage = "planned"
  /\ IF Unchanged(r)
     THEN envelope' = [k \in Row |-> IF \E p \in run[r].plan : p[1] = k
                                     THEN Sealed(run[r].master, r) ELSE envelope[k]]
     ELSE UNCHANGED envelope
  /\ run' = [run EXCEPT ![r] = [Waiting EXCEPT !.stage = "ended"]]
  /\ UNCHANGED <<ring, current, draft, cleared>>

WrappingNext ==
  \/ \E s \in Server, m \in Master : AddMaster(s, m) \/ UseMaster(s, m) \/ RetireMaster(s, m)
  \/ \E k \in Row : SaveRow(k) \/ \E s \in Server : ProvisionKey(k, s)
  \/ \E r \in Run : ApplyRewrap(r) \/ \E s \in Server : PlanRewrap(r, s)

WrappingSpec == WrappingInit /\ [][WrappingNext]_wrapVars

-----------------------------------------------------------------------------
(***************************************************************************)
(* Properties.                                                             *)
(***************************************************************************)

WrappingTypeOK ==
  /\ ring \in [Server -> SUBSET Master] /\ current \in [Server -> Master]
  /\ envelope \in [Row -> [master : Nat, seal : Run \cup {"none", "first"}]]
  /\ draft \in [Row -> [server : Server \cup {"none"}, master : Nat]]
  /\ run \in [Run -> [stage : {"waiting", "planned", "ended"}, master : Nat,
                      plan : SUBSET (Row \X [master : Nat, seal : Run \cup {"none", "first"}])]]
  /\ cleared \in Nat

\* Every server can open every stored private key, through any number of
\* overlapping rollouts, runs and retirements: no envelope is sealed, or sealed
\* anew by a run that began before others, with a master that some server lacks.
EnvelopesOpenable == \A s \in Server, k \in Stored : CanOpen(s, envelope[k])

=============================================================================
