----------------------------- MODULE ServiceAcorn -----------------------------
(***************************************************************************)
(* The persisted service Acorn: one recovery file, the wallets on relays   *)
(* that were made with the keys it held, and the commands of the           *)
(* service-Acorn worker (run, balance, fund, retire), each of which takes  *)
(* the worker lock, starts the Acorn (creating, recovering or migrating    *)
(* it) and goes on.  Calls of the Acorn library are external: they fail    *)
(* with or without their effect.                                           *)
(***************************************************************************)
EXTENDS Integers, FiniteSets

CONSTANTS
  Processes,    \* processes that run a command of the worker
  Endpoints,    \* relay and mint an Acorn lives on
  Invalid,      \* a configured endpoint that the validation rejects
  MaxKeys,      \* bound: keys generated
  MaxCrashes,   \* bound: processes killed
  MaxFails,     \* bound: calls and writes that raise, of each kind
  NoProcess, NoFile

ASSUME ServiceAssumption ==
  /\ NoProcess \notin Processes /\ Invalid \notin Endpoints
  /\ MaxKeys \in Nat /\ MaxCrashes \in Nat /\ MaxFails \in Nat

Keys  == 1..MaxKeys
NoKey == 0

\* What the recovery file holds of an Acorn, and a process in its memory.
Acorns == [key : Keys, at : Endpoints, init : BOOLEAN]

ASSUME FileAssumption == NoFile \notin Acorns

Commands == {"run", "balance", "fund", "retire"}

\* Endpoint, migration flag and shutdown recipient that a process is given.
Settings == [to : Endpoints \cup {Invalid}, migrate : BOOLEAN, sweep : BOOLEAN]

\* A process that does not run has none.
Unset == [to |-> Invalid, migrate |-> FALSE, sweep |-> FALSE]

VARIABLES
  file,       \* the recovery file
  relay,      \* what the relays hold of each wallet
  funded,     \* wallets with a balance
  made,       \* keys generated so far
  lock,       \* the worker lock
  pc, cmd, conf,
  acorn,      \* the Acorn a process has in hand, or NoFile
  successor,  \* and the key it migrates to
  faults

procVars == <<pc, cmd, conf, acorn, successor>>
vars     == <<file, relay, funded, made, lock, procVars, faults>>

Migrating == {"m_create", "m_created", "m_load", "m_successor", "m_verify", "m_burn", "m_write"}
Starting  == {"starting", "creating", "created", "loading", "ready"} \cup Migrating
Working   == {"running", "funding", "r_load", "r_burn", "r_unlink"}
Locked    == Starting \cup Working

Init ==
  /\ file = NoFile
  /\ relay = [k \in Keys |-> "none"]
  /\ funded = {}
  /\ made = 0
  /\ lock = NoProcess
  /\ pc = [p \in Processes |-> "down"]
  /\ cmd = [p \in Processes |-> "run"]
  /\ conf = [p \in Processes |-> Unset]
  /\ acorn = [p \in Processes |-> NoFile]
  /\ successor = [p \in Processes |-> NoKey]
  /\ faults = [crash |-> 0, fail |-> 0, handover |-> 0]

-----------------------------------------------------------------------------
(* Steps.                                                                  *)

At(p, from, to) == pc[p] = from /\ pc' = [pc EXCEPT ![p] = to]

\* The process is gone, with its memory.
Leaves(p) ==
  /\ pc' = [pc EXCEPT ![p] = "down"]
  /\ cmd' = [cmd EXCEPT ![p] = "run"]
  /\ conf' = [conf EXCEPT ![p] = Unset]
  /\ acorn' = [acorn EXCEPT ![p] = NoFile]
  /\ successor' = [successor EXCEPT ![p] = NoKey]

\* A process that has the lock ends: the context manager, or the kernel, releases it.
Ends(p) == Leaves(p) /\ lock' = NoProcess

\* An exception.  One between the burn of a wallet and the recovery file's
\* replacement by its successor's counts apart.
Raises(p) ==
  IF pc[p] \in {"m_burn", "m_write"}
    THEN faults.handover < MaxFails /\ faults' = [faults EXCEPT !.handover = @ + 1]
    ELSE faults.fail < MaxFails /\ faults' = [faults EXCEPT !.fail = @ + 1]

\* _write_private_state raises before it replaced the file, or after it did.
WriteRaises(p, new) == Raises(p) /\ file' \in {file, new}

\* An Acorn call raises before its effect on a wallet, or after it.
CallRaises(p, k, effect) ==
  Raises(p) /\ relay' \in {relay, [relay EXCEPT ![k] = effect]}

\* load_data reads the wallet back from its relay.
Readable(k) == relay[k] = "present"

\* A process starts with a command; all but run want a recovery file.
Launch(p, c, s) ==
  /\ pc[p] = "down" /\ (c # "run" => file # NoFile)
  /\ pc' = [pc EXCEPT ![p] = "launched"]
  /\ cmd' = [cmd EXCEPT ![p] = c]
  /\ conf' = [conf EXCEPT ![p] = s]
  /\ UNCHANGED <<file, relay, funded, made, lock, acorn, successor, faults>>

\* Mutant: the lock is not exclusive.
LockIsShared(p) == p \in Processes

LockIsFree(p) == p \in Processes /\ lock = NoProcess

\* service_acorn_worker_lock does not wait.
TakeLock(p) ==
  /\ pc[p] = "launched"
  /\ \/ /\ LockIsFree(p) /\ lock' = p /\ At(p, "launched", "starting")
        /\ UNCHANGED <<cmd, conf, acorn, successor>>
     \/ ~LockIsFree(p) /\ Leaves(p) /\ UNCHANGED lock
  /\ UNCHANGED <<file, relay, funded, made, faults>>

-----------------------------------------------------------------------------
(* start_service_acorn.                                                    *)

\* No recovery file: a fresh key is written before the relay is touched.
Create(p) ==
  LET new == [key |-> made + 1, at |-> conf[p].to, init |-> FALSE] IN
  /\ pc[p] = "starting" /\ file = NoFile
  /\ \/ conf[p].to = Invalid /\ Ends(p) /\ UNCHANGED <<file, made, faults>>
     \/ /\ conf[p].to # Invalid /\ made < MaxKeys /\ made' = made + 1
        /\ \/ /\ file' = new /\ At(p, "starting", "creating")
              /\ acorn' = [acorn EXCEPT ![p] = new]
              /\ UNCHANGED <<lock, cmd, conf, successor, faults>>
           \/ WriteRaises(p, new) /\ Ends(p)
  /\ UNCHANGED <<relay, funded>>

\* The settings move the recovered Acorn; a target that is rejected does not.
MigrationRequired(p) == conf[p].migrate /\ conf[p].to \notin {Invalid, file.at}

Recover(p) ==
  /\ pc[p] = "starting" /\ file # NoFile
  /\ acorn' = [acorn EXCEPT ![p] = file]
  /\ pc' = [pc EXCEPT ![p] =
       IF MigrationRequired(p) THEN IF file.init THEN "m_load" ELSE "m_create"
                               ELSE IF file.init THEN "loading" ELSE "creating"]
  /\ UNCHANGED <<file, relay, funded, made, lock, cmd, conf, successor, faults>>

\* create_instance; on return the Acorn counts as initialized.
Initialize(p, from, to) ==
  /\ At(p, from, to)
  /\ relay' = [relay EXCEPT ![acorn[p].key] = "present"]
  /\ acorn' = [acorn EXCEPT ![p].init = TRUE]
  /\ UNCHANGED <<file, funded, made, lock, cmd, conf, successor, faults>>

CreateInstance(p) ==
  \/ Initialize(p, "creating", "created")
  \/ /\ pc[p] = "creating" /\ CallRaises(p, acorn[p].key, "present") /\ Ends(p)
     /\ UNCHANGED <<file, funded, made>>

SaveInitialized(p) ==
  /\ pc[p] = "created"
  /\ \/ /\ file' = acorn[p] /\ At(p, "created", "loading")
        /\ UNCHANGED <<lock, cmd, conf, acorn, successor, faults>>
     \/ WriteRaises(p, acorn[p]) /\ Ends(p)
  /\ UNCHANGED <<relay, funded, made>>

Load(p) ==
  /\ pc[p] = "loading"
  /\ \/ /\ Readable(acorn[p].key) /\ At(p, "loading", "ready")
        /\ UNCHANGED <<lock, cmd, conf, acorn, successor, faults>>
     \/ ~Readable(acorn[p].key) /\ Ends(p) /\ UNCHANGED faults
     \/ Raises(p) /\ Ends(p)
  /\ UNCHANGED <<file, relay, funded, made>>

-----------------------------------------------------------------------------
(* The migration.  Whatever raises in it, it is abandoned: the start goes  *)
(* on with the Acorn it recovered, as far as that is created and loaded.   *)

Abandon(p, to) ==
  /\ pc' = [pc EXCEPT ![p] = to]
  /\ successor' = [successor EXCEPT ![p] = NoKey]
  /\ UNCHANGED <<lock, cmd, conf, acorn>>

MigrationCreate(p) ==
  \/ Initialize(p, "m_create", "m_created")
  \/ /\ pc[p] = "m_create" /\ CallRaises(p, acorn[p].key, "present") /\ Abandon(p, "creating")
     /\ UNCHANGED <<file, funded, made>>

MigrationSave(p) ==
  /\ pc[p] = "m_created"
  /\ \/ /\ file' = acorn[p] /\ At(p, "m_created", "m_load")
        /\ UNCHANGED <<lock, cmd, conf, acorn, successor, faults>>
     \/ WriteRaises(p, acorn[p]) /\ Abandon(p, "loading")
  /\ UNCHANGED <<relay, funded, made>>

\* A wallet that holds funds is not migrated.
MigrationLoad(p) ==
  LET k == acorn[p].key IN
  /\ pc[p] = "m_load"
  /\ \/ /\ Readable(k) /\ k \notin funded /\ At(p, "m_load", "m_successor")
        /\ UNCHANGED <<lock, cmd, conf, acorn, successor, faults>>
     \/ Readable(k) /\ k \in funded /\ Abandon(p, "ready") /\ UNCHANGED faults
     \/ ~Readable(k) /\ Abandon(p, "loading") /\ UNCHANGED faults
     \/ Raises(p) /\ Abandon(p, "loading")
  /\ UNCHANGED <<file, relay, funded, made>>

\* The replacement is created on the configured endpoint.
MigrationReplace(p) ==
  /\ pc[p] = "m_successor" /\ made < MaxKeys /\ made' = made + 1
  /\ \/ /\ relay' = [relay EXCEPT ![made + 1] = "present"]
        /\ At(p, "m_successor", "m_verify")
        /\ successor' = [successor EXCEPT ![p] = made + 1]
        /\ UNCHANGED <<lock, cmd, conf, acorn, faults>>
     \/ CallRaises(p, made + 1, "present") /\ Abandon(p, "ready")
  /\ UNCHANGED <<file, funded>>

MigrationVerify(p) ==
  /\ pc[p] = "m_verify"
  /\ \/ /\ Readable(successor[p]) /\ At(p, "m_verify", "m_burn")
        /\ UNCHANGED <<lock, cmd, conf, acorn, successor, faults>>
     \/ Raises(p) /\ Abandon(p, "ready")
  /\ UNCHANGED <<file, relay, funded, made>>

\* Mutant: a burn that fails does not end the migration.
ReplaceAnyway(p) == At(p, "m_burn", "m_write") /\ UNCHANGED <<lock, cmd, conf, acorn, successor>>

KeepPersisted(p) == Abandon(p, "ready")

\* burn_wallet(send_to=None, allow_funded=False) refuses to burn a funded wallet.
MigrationBurn(p) ==
  LET k == acorn[p].key IN
  /\ pc[p] = "m_burn"
  /\ \/ /\ k \notin funded /\ relay' = [relay EXCEPT ![k] = "burned"]
        /\ At(p, "m_burn", "m_write")
        /\ UNCHANGED <<lock, cmd, conf, acorn, successor, faults>>
     \/ CallRaises(p, k, "burned") /\ KeepPersisted(p)
  /\ UNCHANGED <<file, funded, made>>

\* Mutant: acorn = replacement_acorn is missing.
PreviousAcorn(p, new) == acorn[p]

Replacement(p, new) == new

MigrationWrite(p) ==
  LET new == [key |-> successor[p], at |-> conf[p].to, init |-> TRUE] IN
  /\ pc[p] = "m_write"
  /\ \/ /\ file' = new /\ At(p, "m_write", "ready")
        /\ acorn' = [acorn EXCEPT ![p] = Replacement(p, new)]
        /\ successor' = [successor EXCEPT ![p] = NoKey]
        /\ UNCHANGED <<lock, cmd, conf, faults>>
     \/ WriteRaises(p, new) /\ Abandon(p, "ready")
  /\ UNCHANGED <<relay, funded, made>>

-----------------------------------------------------------------------------
(* The commands, once the Acorn is started.                                *)

\* The worker registers its identity and quarantines old claims, balance writes a
\* snapshot, or that raises.
Proceed(p) ==
  /\ pc[p] = "ready"
  /\ \/ /\ cmd[p] # "balance"
        /\ pc' = [pc EXCEPT ![p] = CASE cmd[p] = "run"    -> "running"
                                     [] cmd[p] = "fund"   -> "funding"
                                     [] cmd[p] = "retire" -> "r_load"]
        /\ UNCHANGED <<lock, cmd, conf, acorn, successor, faults>>
     \/ cmd[p] = "balance" /\ Ends(p) /\ UNCHANGED faults
     \/ cmd[p] \in {"run", "balance"} /\ Raises(p) /\ Ends(p)
  /\ UNCHANGED <<file, relay, funded, made>>

\* The worker mints paid quotes and sends ecash.
Work(p) ==
  /\ pc[p] = "running"
  /\ funded' \in {funded \cup {acorn[p].key}, funded \ {acorn[p].key}}
  /\ UNCHANGED <<file, relay, made, lock, procVars, faults>>

\* "A routine deploy or restart must not destroy an operational wallet."
Stop(p) ==
  /\ pc[p] = "running" /\ Ends(p)
  /\ UNCHANGED <<file, relay, funded, made, faults>>

\* fund_worker: the quote is paid and minted, or the command gives up.
Fund(p) ==
  /\ pc[p] = "funding" /\ Ends(p)
  /\ funded' \in {funded, funded \cup {acorn[p].key}}
  /\ UNCHANGED <<file, relay, made, faults>>

\* stop_service_acorn: nothing is burned that is neither empty nor swept.
RetireLoad(p) ==
  LET k == acorn[p].key IN
  /\ pc[p] = "r_load"
  /\ \/ /\ Readable(k) /\ (k \in funded => conf[p].sweep) /\ At(p, "r_load", "r_burn")
        /\ UNCHANGED <<lock, cmd, conf, acorn, successor, faults>>
     \/ /\ ~Readable(k) \/ (k \in funded /\ ~conf[p].sweep)
        /\ Ends(p) /\ UNCHANGED faults
     \/ Raises(p) /\ Ends(p)
  /\ UNCHANGED <<file, relay, funded, made>>

\* burn_wallet sweeps and burns; it raises before, between or after.
RetireBurn(p) ==
  LET k == acorn[p].key IN
  /\ pc[p] = "r_burn"
  /\ \/ /\ funded' = funded \ {k} /\ relay' = [relay EXCEPT ![k] = "burned"]
        /\ At(p, "r_burn", "r_unlink")
        /\ UNCHANGED <<lock, cmd, conf, acorn, successor, faults>>
     \/ /\ Ends(p)
        /\ \/ funded' = funded \ {k} /\ CallRaises(p, k, "burned")
           \/ Raises(p) /\ UNCHANGED <<funded, relay>>
  /\ UNCHANGED <<file, made>>

RetireUnlink(p) ==
  /\ pc[p] = "r_unlink" /\ Ends(p)
  /\ \/ file' = NoFile /\ UNCHANGED faults
     \/ Raises(p) /\ UNCHANGED file
  /\ UNCHANGED <<relay, funded, made>>

Crash(p) ==
  /\ pc[p] \in Locked /\ faults.crash < MaxCrashes
  /\ faults' = [faults EXCEPT !.crash = @ + 1]
  /\ Ends(p)
  /\ UNCHANGED <<file, relay, funded, made>>

-----------------------------------------------------------------------------
Start(p) ==
  \/ Create(p) \/ Recover(p) \/ CreateInstance(p) \/ SaveInitialized(p) \/ Load(p)

Migrate(p) ==
  \/ MigrationCreate(p) \/ MigrationSave(p) \/ MigrationLoad(p) \/ MigrationReplace(p)
  \/ MigrationVerify(p) \/ MigrationBurn(p) \/ MigrationWrite(p)

Command(p) ==
  \/ Proceed(p) \/ Work(p) \/ Stop(p) \/ Fund(p)
  \/ RetireLoad(p) \/ RetireBurn(p) \/ RetireUnlink(p)

Next ==
  \E p \in Processes :
    \/ \E c \in Commands, s \in Settings : Launch(p, c, s)
    \/ TakeLock(p) \/ Start(p) \/ Migrate(p) \/ Command(p) \/ Crash(p)

Spec == Init /\ [][Next]_vars

-----------------------------------------------------------------------------
\* Only a process with the lock has an Acorn, and only a migrating one a successor.
TypeOK ==
  /\ file \in Acorns \cup {NoFile}
  /\ relay \in [Keys -> {"none", "present", "burned"}]
  /\ funded \in SUBSET Keys /\ made \in 0..MaxKeys
  /\ lock \in Processes \cup {NoProcess}
  /\ pc \in [Processes -> {"down", "launched"} \cup Locked]
  /\ cmd \in [Processes -> Commands] /\ conf \in [Processes -> Settings]
  /\ acorn \in [Processes -> Acorns \cup {NoFile}]
  /\ successor \in [Processes -> Keys \cup {NoKey}]
  /\ faults \in [crash : Nat, fail : Nat, handover : Nat]
  /\ \A p \in Processes :
       /\ pc[p] \in Locked => lock = p
       /\ acorn[p] # NoFile <=> pc[p] \in Locked \ {"starting"}
       /\ successor[p] # NoKey <=> pc[p] \in {"m_verify", "m_burn", "m_write"}
       /\ pc[p] \in Migrating => conf[p].to # Invalid

-----------------------------------------------------------------------------
(* Correctness.                                                            *)

\* "Restarts do not abandon proofs": a wallet that holds funds is on its relay, and
\* its key is in the recovery file.
FundsOnFile == \A k \in funded : file # NoFile /\ file.key = k /\ relay[k] = "present"

\* "The worker continues with the persisted service Acorn": the wallet a command
\* works on is the one of the recovery file, and it is on its relay.
WorksOnPersistedAcorn ==
  \A p \in Processes :
    pc[p] \in {"running", "funding"} =>
      file # NoFile /\ file.key = acorn[p].key /\ relay[acorn[p].key] = "present"

\* Both hold, whatever crashes and whatever else fails, as long as no migration has
\* failed between the burn of the old wallet and the replacement of the file.
FundsAreReachable == faults.handover = 0 => FundsOnFile

WorkIsPersisted == faults.handover = 0 => WorksOnPersistedAcorn

\* "Removes the local recovery file only after a successful burn": a key leaves the
\* recovery file, by retirement or by migration, when its wallet is burned and empty.
KeyLeavesBurned ==
  [][file # NoFile /\ (file' = NoFile \/ file'.key # file.key)
       => relay[file.key] = "burned" /\ file.key \notin funded]_vars
=============================================================================
