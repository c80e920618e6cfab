------------------------- MODULE ServiceAcorn_proofs -------------------------
(***************************************************************************)
(* Proofs about ServiceAcorn, for any number of processes, endpoints and   *)
(* keys, crashes and failing calls.                                        *)
(***************************************************************************)
EXTENDS ServiceAcorn, TLAPS

\* The process with the lock is the only one that does anything.
HandTypes ==
  \A p \in Processes :
    /\ pc[p] \in Locked => lock = p
    /\ acorn[p] # NoFile <=> pc[p] \in Locked \ {"starting"}
    /\ successor[p] # NoKey <=> pc[p] \in {"m_verify", "m_burn", "m_write"}
    /\ pc[p] \in Migrating => conf[p].to # Invalid

WorldTypes ==
  /\ file \in Acorns \cup {NoFile}
  /\ relay \in [Keys -> {"none", "present", "burned"}]
  /\ funded \in SUBSET Keys /\ made \in 0..MaxKeys
  /\ faults \in [crash : Nat, fail : Nat, handover : Nat]

ProcessTypes ==
  /\ lock \in Processes \cup {NoProcess}
  /\ pc \in [Processes -> {"down", "launched"} \cup Locked]
  /\ cmd \in [Processes -> Commands] /\ conf \in [Processes -> Settings]
  /\ acorn \in [Processes -> Acorns \cup {NoFile}]
  /\ successor \in [Processes -> Keys \cup {NoKey}]

\* The parts of the type invariant.
LEMMA TypeParts == TypeOK <=> WorldTypes /\ ProcessTypes /\ HandTypes
BY DEF TypeOK, WorldTypes, ProcessTypes, HandTypes

\* A process that ends, or that goes on with the Acorn it has, stays well typed.
LEMMA EndsTypes ==
  ASSUME TypeOK, NEW p \in Processes, pc[p] \in Locked, Ends(p)
  PROVE  ProcessTypes' /\ HandTypes'
<1>1. Unset \in Settings
  BY DEF Unset, Settings
<1>2. ProcessTypes'
  BY <1>1 DEF Ends, Leaves, TypeOK, ProcessTypes, Commands
<1>3. HandTypes'
  BY DEF Ends, Leaves, TypeOK, HandTypes, Locked, Starting, Working, Migrating
<1>. QED
  BY <1>2, <1>3

LEMMA GoesTypes ==
  ASSUME TypeOK, NEW p \in Processes, pc[p] \in Locked \ {"starting"},
         NEW to \in Locked \ {"starting"}, pc' = [pc EXCEPT ![p] = to],
         NEW new \in Acorns, acorn' = [acorn EXCEPT ![p] = new],
         NEW next \in Keys \cup {NoKey}, successor' = [successor EXCEPT ![p] = next],
         next # NoKey <=> to \in {"m_verify", "m_burn", "m_write"},
         to \in Migrating => pc[p] \in Migrating,
         UNCHANGED <<lock, cmd, conf>>
  PROVE  ProcessTypes' /\ HandTypes'
<1>1. ProcessTypes'
  BY DEF TypeOK, ProcessTypes
<1>2. HandTypes'
  BY FileAssumption DEF TypeOK, HandTypes
<1>. QED
  BY <1>1, <1>2

\* A process that goes on with the Acorn and the successor it had.
LEMMA StaysTypes ==
  ASSUME TypeOK, NEW p \in Processes, NEW from \in Locked \ {"starting"}, pc[p] = from,
         NEW to \in Locked \ {"starting"}, pc' = [pc EXCEPT ![p] = to],
         from \in {"m_verify", "m_burn", "m_write"} <=> to \in {"m_verify", "m_burn", "m_write"},
         to \in Migrating => from \in Migrating,
         UNCHANGED <<lock, cmd, conf, acorn, successor>>
  PROVE  ProcessTypes' /\ HandTypes'
<1>1. /\ acorn[p] \in Acorns /\ acorn' = [acorn EXCEPT ![p] = acorn[p]]
      /\ successor[p] \in Keys \cup {NoKey} /\ successor' = [successor EXCEPT ![p] = successor[p]]
  BY DEF TypeOK
<1>2. successor[p] # NoKey <=> to \in {"m_verify", "m_burn", "m_write"}
  BY DEF TypeOK
<1>. QED
  BY <1>1, <1>2, GoesTypes

\* A migration that is abandoned.
LEMMA AbandonTypes ==
  ASSUME TypeOK, NEW p \in Processes, pc[p] \in Locked \ {"starting"},
         NEW to \in {"creating", "loading", "ready"}, Abandon(p, to)
  PROVE  ProcessTypes' /\ HandTypes'
<1>1. acorn[p] \in Acorns /\ acorn' = [acorn EXCEPT ![p] = acorn[p]]
  BY DEF TypeOK, Abandon
<1>2. to \in Locked \ {"starting"} /\ to \notin {"m_verify", "m_burn", "m_write"}
  BY DEF Locked, Starting
<1>. QED
  BY <1>1, <1>2, GoesTypes DEF Abandon, Migrating

\* What exceptions leave in the world is well typed.
LEMMA RaisesTypes ==
  ASSUME TypeOK, NEW p \in Processes
  PROVE  /\ Raises(p) => faults' \in [crash : Nat, fail : Nat, handover : Nat]
         /\ \A new \in Acorns : WriteRaises(p, new) =>
              faults' \in [crash : Nat, fail : Nat, handover : Nat] /\ file' \in Acorns \cup {NoFile}
         /\ \A k \in Keys, e \in {"present", "burned"} : CallRaises(p, k, e) =>
              /\ faults' \in [crash : Nat, fail : Nat, handover : Nat]
              /\ relay' \in [Keys -> {"none", "present", "burned"}]
<1>1. Raises(p) => faults' \in [crash : Nat, fail : Nat, handover : Nat]
  BY DEF Raises, TypeOK
<1>. QED
  BY <1>1 DEF WriteRaises, CallRaises, TypeOK

\* create_instance keeps the types.
LEMMA InitializeTypes ==
  ASSUME TypeOK, NEW p \in Processes, NEW from \in {"creating", "m_create"},
         NEW to \in {"created", "m_created"}, Initialize(p, from, to),
         to = "m_created" => from = "m_create"
  PROVE  TypeOK'
<1>. DEFINE new == [acorn[p] EXCEPT !.init = TRUE]
<1>1. acorn[p] \in Acorns /\ pc[p] \in Locked \ {"starting"} /\ to \in Locked \ {"starting"}
  BY DEF Initialize, At, TypeOK, Locked, Starting, Migrating
<1>2. new \in Acorns /\ acorn[p].key \in Keys
  BY <1>1 DEF Acorns
<1>3. acorn' = [acorn EXCEPT ![p] = new]
  BY <1>1 DEF Initialize, TypeOK
<1>4. successor[p] = NoKey /\ successor' = [successor EXCEPT ![p] = NoKey]
  BY DEF Initialize, At, TypeOK
<1>5. ProcessTypes' /\ HandTypes'
  BY <1>1, <1>2, <1>3, <1>4, GoesTypes DEF Initialize, At, Migrating
<1>6. WorldTypes'
  BY <1>2 DEF Initialize, TypeOK, WorldTypes
<1>. QED
  BY <1>5, <1>6, TypeParts DEF TypeOK, WorldTypes, ProcessTypes, HandTypes

\* Every step of a start keeps the types.
LEMMA StartTypes ==
  ASSUME TypeOK, NEW p \in Processes, Start(p)
  PROVE  TypeOK'
<1>. USE DEF At
<1>k. acorn[p] # NoFile => acorn[p] \in Acorns /\ acorn[p].key \in Keys
  BY DEF TypeOK, Acorns
<1>1. CASE Create(p)
  <2>. DEFINE new == [key |-> made + 1, at |-> conf[p].to, init |-> FALSE]
  <2>1. CASE Ends(p) /\ UNCHANGED <<file, made, faults, relay, funded>>
    BY <1>1, <2>1, EndsTypes DEF Create, Locked, Starting, TypeOK, ProcessTypes, HandTypes
  <2>2. CASE conf[p].to # Invalid /\ made < MaxKeys /\ made' = made + 1
    <3>1. made + 1 \in Keys /\ made' \in 0..MaxKeys
      BY <2>2, ServiceAssumption DEF TypeOK, Keys
    <3>2. conf[p].to \in Endpoints
      BY <2>2 DEF TypeOK, Settings
    <3>3. new \in Acorns
      BY <3>1, <3>2 DEF Acorns
    <3>4. CASE file' = new /\ pc' = [pc EXCEPT ![p] = "creating"]
               /\ acorn' = [acorn EXCEPT ![p] = new] /\ UNCHANGED <<lock, cmd, conf, successor, faults>>
      BY <1>1, <3>1, <3>3, <3>4, FileAssumption
         DEF Create, TypeOK, Locked, Starting, Working, Migrating
    <3>5. CASE WriteRaises(p, new) /\ Ends(p)
      BY <1>1, <3>1, <3>3, <3>5, EndsTypes, RaisesTypes
         DEF Create, TypeOK, ProcessTypes, HandTypes, Locked, Starting
    <3>. QED
      BY <1>1, <2>2, <3>4, <3>5 DEF Create
  <2>. QED
    BY <1>1, <2>1, <2>2 DEF Create
<1>2. CASE Recover(p)
  <2>1. PICK to \in {"m_load", "m_create", "loading", "creating"} :
          pc' = [pc EXCEPT ![p] = to] /\ (to \in {"m_load", "m_create"} => conf[p].to # Invalid)
    BY <1>2 DEF Recover, MigrationRequired
  <2>. QED
    BY <1>2, <2>1 DEF Recover, TypeOK, Locked, Starting, Working, Migrating
<1>3. CASE CreateInstance(p)
  <2>1. CASE Initialize(p, "creating", "created")
    BY <2>1, InitializeTypes
  <2>2. CASE pc[p] = "creating" /\ CallRaises(p, acorn[p].key, "present") /\ Ends(p)
             /\ UNCHANGED <<file, funded, made>>
    <3>1. acorn[p].key \in Keys
      BY <2>2, <1>k DEF TypeOK, Locked, Starting
    <3>. QED
      BY <2>2, <3>1, EndsTypes, RaisesTypes DEF TypeOK, ProcessTypes, HandTypes, Locked, Starting
  <2>. QED
    BY <1>3, <2>1, <2>2 DEF CreateInstance
<1>4. CASE SaveInitialized(p)
  <2>1. acorn[p] \in Acorns /\ pc[p] \in Locked \ {"starting"} /\ "loading" \in Locked \ {"starting"}
    BY <1>4, <1>k DEF SaveInitialized, TypeOK, Locked, Starting
  <2>2. ProcessTypes' /\ HandTypes'
    BY <1>4, <2>1, EndsTypes, StaysTypes DEF SaveInitialized, Migrating
  <2>3. WorldTypes'
    BY <1>4, <2>1, RaisesTypes DEF SaveInitialized, TypeOK, WorldTypes
  <2>. QED
    BY <2>2, <2>3 DEF TypeOK, WorldTypes, ProcessTypes, HandTypes
<1>5. CASE Load(p)
  <2>1. pc[p] \in Locked \ {"starting"} /\ "ready" \in Locked \ {"starting"}
    BY <1>5 DEF Load, Locked, Starting
  <2>2. ProcessTypes' /\ HandTypes'
    BY <1>5, <2>1, EndsTypes, StaysTypes DEF Load, Migrating
  <2>3. WorldTypes'
    BY <1>5, RaisesTypes DEF Load, TypeOK, WorldTypes
  <2>. QED
    BY <2>2, <2>3 DEF TypeOK, WorldTypes, ProcessTypes, HandTypes
<1>. QED
  BY <1>1, <1>2, <1>3, <1>4, <1>5 DEF Start

\* Every step of a migration keeps the types.
LEMMA MigrateTypes ==
  ASSUME TypeOK, NEW p \in Processes, Migrate(p)
  PROVE  TypeOK'
<1>. USE DEF At
<1>k. acorn[p] # NoFile => acorn[p] \in Acorns /\ acorn[p].key \in Keys
  BY DEF TypeOK, Acorns
<1>q. SUFFICES ASSUME pc[p] \in Migrating
               PROVE  WorldTypes' /\ ProcessTypes' /\ HandTypes'
  <2>1. pc[p] \in Migrating
    BY DEF Migrate, MigrationCreate, Initialize, MigrationSave, MigrationLoad, MigrationReplace,
       MigrationVerify, MigrationBurn, MigrationWrite, Migrating
  <2>. QED
    BY <2>1 DEF TypeOK, WorldTypes, ProcessTypes, HandTypes
<1>l. pc[p] \in Locked \ {"starting"} /\ acorn[p] \in Acorns /\ acorn[p].key \in Keys
  BY <1>k, <1>q DEF TypeOK, Locked, Starting, Migrating
<1>s. Migrating \cup {"ready", "loading", "creating"} \subseteq Locked \ {"starting"}
  BY DEF Locked, Starting, Migrating
<1>1. CASE MigrationCreate(p)
  <2>1. CASE Initialize(p, "m_create", "m_created")
    BY <2>1, InitializeTypes, TypeParts DEF TypeOK, WorldTypes, ProcessTypes, HandTypes
  <2>2. CASE CallRaises(p, acorn[p].key, "present") /\ Abandon(p, "creating")
             /\ UNCHANGED <<file, funded, made>>
    BY <2>2, <1>l, AbandonTypes, RaisesTypes DEF TypeOK, WorldTypes
  <2>. QED
    BY <1>1, <2>1, <2>2 DEF MigrationCreate
<1>2. CASE MigrationSave(p)
  <2>1. ProcessTypes' /\ HandTypes'
    BY <1>2, <1>l, <1>s, AbandonTypes, StaysTypes DEF MigrationSave, Migrating
  <2>2. WorldTypes'
    BY <1>2, <1>l, RaisesTypes DEF MigrationSave, TypeOK, WorldTypes
  <2>. QED
    BY <2>1, <2>2
<1>3. CASE MigrationLoad(p)
  <2>1. ProcessTypes' /\ HandTypes'
    BY <1>3, <1>l, <1>s, AbandonTypes, StaysTypes DEF MigrationLoad, Migrating
  <2>2. WorldTypes'
    BY <1>3, RaisesTypes DEF MigrationLoad, TypeOK, WorldTypes
  <2>. QED
    BY <2>1, <2>2
<1>4. CASE MigrationReplace(p)
  <2>1. made + 1 \in Keys /\ made' = made + 1 /\ made' \in 0..MaxKeys
    BY <1>4, ServiceAssumption DEF MigrationReplace, TypeOK, Keys
  <2>2. WorldTypes'
    BY <1>4, <2>1, RaisesTypes DEF MigrationReplace, TypeOK, WorldTypes
  <2>3. CASE Abandon(p, "ready")
    BY <2>2, <2>3, <1>l, AbandonTypes
  <2>4. CASE /\ pc' = [pc EXCEPT ![p] = "m_verify"] /\ UNCHANGED <<lock, cmd, conf, acorn>>
             /\ successor' = [successor EXCEPT ![p] = made + 1]
    <3>1. acorn' = [acorn EXCEPT ![p] = acorn[p]] /\ made + 1 # NoKey
      BY <2>1, <2>4 DEF TypeOK, Keys, NoKey
    <3>2. "m_verify" \in Locked \ {"starting"}
      BY DEF Locked, Starting, Migrating
    <3>3. ProcessTypes' /\ HandTypes'
      BY <2>1, <2>4, <3>1, <3>2, <1>l, <1>q, GoesTypes
    <3>. QED
      BY <2>2, <3>3
  <2>. QED
    BY <1>4, <2>3, <2>4 DEF MigrationReplace
<1>5. CASE MigrationVerify(p)
  <2>1. ProcessTypes' /\ HandTypes'
    BY <1>5, <1>l, <1>s, AbandonTypes, StaysTypes DEF MigrationVerify, Migrating
  <2>2. WorldTypes'
    BY <1>5, RaisesTypes DEF MigrationVerify, TypeOK, WorldTypes
  <2>. QED
    BY <2>1, <2>2
<1>6. CASE MigrationBurn(p)
  <2>1. ProcessTypes' /\ HandTypes'
    BY <1>6, <1>l, <1>s, AbandonTypes, StaysTypes DEF MigrationBurn, KeepPersisted, Migrating
  <2>2. WorldTypes'
    BY <1>6, <1>l, RaisesTypes DEF MigrationBurn, TypeOK, WorldTypes
  <2>. QED
    BY <2>1, <2>2
<1>7. CASE MigrationWrite(p)
  <2>. DEFINE new == [key |-> successor[p], at |-> conf[p].to, init |-> TRUE]
  <2>1. new \in Acorns
    <3>1. successor[p] \in Keys
      BY <1>7 DEF MigrationWrite, TypeOK
    <3>2. conf[p].to \in Endpoints
      BY <1>q DEF TypeOK, Settings
    <3>. QED
      BY <3>1, <3>2 DEF Acorns
  <2>2. WorldTypes'
    BY <1>7, <2>1, RaisesTypes DEF MigrationWrite, TypeOK, WorldTypes
  <2>3. CASE Abandon(p, "ready")
    BY <2>2, <2>3, <1>l, AbandonTypes
  <2>4. CASE /\ pc' = [pc EXCEPT ![p] = "ready"] /\ acorn' = [acorn EXCEPT ![p] = new]
             /\ successor' = [successor EXCEPT ![p] = NoKey] /\ UNCHANGED <<lock, cmd, conf>>
    <3>1. "ready" \in Locked \ {"starting"} /\ "ready" \notin Migrating
      BY DEF Locked, Starting, Migrating
    <3>2. ProcessTypes' /\ HandTypes'
      BY <2>1, <2>4, <3>1, <1>l, GoesTypes
    <3>. QED
      BY <2>2, <3>2
  <2>. QED
    BY <1>7, <2>3, <2>4 DEF MigrationWrite, Replacement
<1>. QED
  BY <1>1, <1>2, <1>3, <1>4, <1>5, <1>6, <1>7 DEF Migrate

\* Every step of a command keeps the types.
LEMMA CommandTypes ==
  ASSUME TypeOK, NEW p \in Processes, Command(p)
  PROVE  TypeOK'
<1>. USE DEF At
<1>q. SUFFICES ASSUME pc[p] \in Working \cup {"ready"}
               PROVE  WorldTypes' /\ ProcessTypes' /\ HandTypes'
  <2>1. pc[p] \in Working \cup {"ready"}
    BY DEF Command, Proceed, Work, Stop, Fund, RetireLoad, RetireBurn, RetireUnlink, Working
  <2>. QED
    BY <2>1 DEF TypeOK, WorldTypes, ProcessTypes, HandTypes
<1>l. pc[p] \in Locked \ {"starting"} /\ acorn[p] \in Acorns /\ acorn[p].key \in Keys
  BY <1>q DEF TypeOK, Locked, Starting, Working, Acorns
<1>s. Working \subseteq Locked \ {"starting"}
  BY DEF Locked, Working
<1>1. CASE Proceed(p)
  <2>1. CASE cmd[p] # "balance" /\ UNCHANGED <<lock, cmd, conf, acorn, successor, faults>>
             /\ pc' = [pc EXCEPT ![p] = CASE cmd[p] = "run"    -> "running"
                                          [] cmd[p] = "fund"   -> "funding"
                                          [] cmd[p] = "retire" -> "r_load"]
    <3>1. PICK to \in {"running", "funding", "r_load"} : pc' = [pc EXCEPT ![p] = to]
      BY <2>1 DEF TypeOK, Commands
    <3>2. ProcessTypes' /\ HandTypes'
      <4>1. to \in Locked \ {"starting"} /\ to \notin Migrating
            /\ to \notin {"m_verify", "m_burn", "m_write"}
        BY <1>s DEF Working, Migrating
      <4>2. pc[p] = "ready" /\ pc[p] \notin {"m_verify", "m_burn", "m_write"}
        BY <1>1 DEF Proceed
      <4>. QED
        BY <2>1, <3>1, <4>1, <4>2, <1>l, StaysTypes
    <3>. QED
      BY <1>1, <2>1, <3>2 DEF Proceed, TypeOK, WorldTypes
  <2>2. CASE Ends(p)
    BY <1>1, <2>2, <1>l, EndsTypes, RaisesTypes DEF Proceed, TypeOK, WorldTypes
  <2>. QED
    BY <1>1, <2>1, <2>2 DEF Proceed
<1>2. CASE Work(p)
  BY <1>2, <1>l DEF Work, procVars, TypeOK, WorldTypes, ProcessTypes, HandTypes
<1>3. CASE Stop(p)
  BY <1>3, <1>l, EndsTypes DEF Stop, TypeOK, WorldTypes
<1>4. CASE Fund(p)
  BY <1>4, <1>l, EndsTypes DEF Fund, TypeOK, WorldTypes
<1>5. CASE RetireLoad(p)
  <2>1. ProcessTypes' /\ HandTypes'
    BY <1>5, <1>l, <1>s, EndsTypes, StaysTypes DEF RetireLoad, Working, Migrating
  <2>2. WorldTypes'
    BY <1>5, RaisesTypes DEF RetireLoad, TypeOK, WorldTypes
  <2>. QED
    BY <2>1, <2>2
<1>6. CASE RetireBurn(p)
  <2>1. ProcessTypes' /\ HandTypes'
    BY <1>6, <1>l, <1>s, EndsTypes, StaysTypes DEF RetireBurn, Working, Migrating
  <2>2. WorldTypes'
    BY <1>6, <1>l, RaisesTypes DEF RetireBurn, TypeOK, WorldTypes
  <2>. QED
    BY <2>1, <2>2
<1>7. CASE RetireUnlink(p)
  BY <1>7, <1>l, EndsTypes, RaisesTypes DEF RetireUnlink, TypeOK, WorldTypes
<1>. QED
  BY <1>1, <1>2, <1>3, <1>4, <1>5, <1>6, <1>7 DEF Command

\* The initial states are well typed, and every step keeps the types.
LEMMA InitTypes == Init => TypeOK
BY ServiceAssumption DEF Init, TypeOK, Unset, Settings, Commands, Keys, NoKey, Locked, Starting,
   Working, Migrating

LEMMA TypesStep ==
  ASSUME TypeOK, [Next]_vars
  PROVE  TypeOK'
<1>1. CASE UNCHANGED vars
  BY <1>1 DEF vars, procVars, TypeOK
<1>2. ASSUME NEW p \in Processes, NEW c \in Commands, NEW s \in Settings, Launch(p, c, s)
      PROVE  TypeOK'
  BY <1>2 DEF Launch, TypeOK, Locked, Starting, Working, Migrating
<1>3. ASSUME NEW p \in Processes, TakeLock(p)
      PROVE  TypeOK'
  <2>0. Unset \in Settings
    BY DEF Unset, Settings
  <2>1. CASE Leaves(p) /\ UNCHANGED lock
    BY <1>3, <2>0, <2>1 DEF TakeLock, Leaves, TypeOK, Commands, Locked, Starting, Working, Migrating
  <2>2. CASE LockIsFree(p) /\ lock' = p /\ At(p, "launched", "starting")
             /\ UNCHANGED <<cmd, conf, acorn, successor>>
    BY <1>3, <2>2, ServiceAssumption
       DEF TakeLock, LockIsFree, At, TypeOK, Locked, Starting, Working, Migrating
  <2>. QED
    BY <1>3, <2>1, <2>2 DEF TakeLock
<1>4. ASSUME NEW p \in Processes, Crash(p)
      PROVE  TypeOK'
  <2>1. faults' \in [crash : Nat, fail : Nat, handover : Nat]
    BY <1>4 DEF Crash, TypeOK
  <2>. QED
    BY <1>4, <2>1, EndsTypes DEF Crash, TypeOK, ProcessTypes, HandTypes
<1>. QED
  BY <1>1, <1>2, <1>3, <1>4, StartTypes, MigrateTypes, CommandTypes DEF Next

\* Every reachable state is well typed: only the process with the lock has an Acorn
\* in hand, and only a migrating one a successor.
THEOREM ServiceTypeCorrect == Spec => []TypeOK
BY InitTypes, TypesStep, PTL DEF Spec

-----------------------------------------------------------------------------
(* When a key may leave the recovery file.                                 *)

\* The Acorn in hand is the one of the recovery file, except that an abandoned
\* migration may leave a process with one that is burned.
Hand(p) ==
  pc[p] \in Locked \ {"starting"} =>
    /\ file # NoFile
    /\ \/ file.key = acorn[p].key
       \/ pc[p] \in {"ready", "running", "funding", "r_load"} /\ relay[acorn[p].key] = "burned"
    /\ pc[p] \in {"m_write", "r_unlink"} =>
         relay[acorn[p].key] = "burned" /\ acorn[p].key \notin funded

HandInv == \A p \in Processes : Hand(p)

\* A process that has the lock need only mind its own hand.
LEMMA OwnHand ==
  ASSUME TypeOK, NEW p \in Processes, pc[p] \in Locked,
         \A q \in Processes \ {p} : pc'[q] = pc[q], Hand(p)'
  PROVE  HandInv'
<1>1. \A q \in Processes \ {p} : pc[q] \notin Locked
  BY DEF TypeOK
<1>. QED
  BY <1>1 DEF HandInv, Hand

\* A process that ends has nothing in hand.
LEMMA EndsHand ==
  ASSUME TypeOK, NEW p \in Processes, pc[p] \in Locked, Ends(p)
  PROVE  HandInv'
<1>1. pc'[p] = "down" /\ \A q \in Processes \ {p} : pc'[q] = pc[q]
  BY DEF Ends, Leaves, TypeOK
<1>2. Hand(p)'
  BY <1>1 DEF Hand, Locked, Starting, Working, Migrating
<1>. QED
  BY <1>1, <1>2, OwnHand

\* A process that goes on with its Acorn while neither file nor wallets change.
LEMMA GoesHand ==
  ASSUME TypeOK, HandInv, NEW p \in Processes, pc[p] \in Locked \ {"starting"},
         NEW to, pc' = [pc EXCEPT ![p] = to], to \notin {"m_write", "r_unlink"},
         acorn' = acorn, file' = file, relay' = relay, funded' = funded,
         \/ to \in {"ready", "running", "funding", "r_load"}
         \/ file.key = acorn[p].key
  PROVE  HandInv'
<1>1. pc'[p] = to /\ \A q \in Processes \ {p} : pc'[q] = pc[q]
  BY DEF TypeOK
<1>2. Hand(p)'
  BY <1>1 DEF HandInv, Hand
<1>. QED
  BY <1>1, <1>2, OwnHand

\* Every step of a start keeps the hands.
LEMMA StartHand ==
  ASSUME TypeOK, HandInv, NEW p \in Processes, Start(p)
  PROVE  HandInv'
<1>. USE DEF At
<1>l. pc[p] \in Locked
  BY DEF Start, Create, Recover, CreateInstance, Initialize, SaveInitialized, Load, Locked, Starting
<1>e. CASE Ends(p)
  BY <1>l, <1>e, EndsHand
<1>1. CASE Create(p) /\ ~Ends(p)
  <2>. DEFINE new == [key |-> made + 1, at |-> conf[p].to, init |-> FALSE]
  <2>1. /\ file' = new /\ pc' = [pc EXCEPT ![p] = "creating"]
        /\ acorn' = [acorn EXCEPT ![p] = new]
        /\ made + 1 \in Keys /\ conf[p].to \in Endpoints
    BY <1>1, ServiceAssumption DEF Create, TypeOK, Keys, Settings
  <2>2. new \in Acorns
    BY <2>1 DEF Acorns
  <2>3. pc'[p] = "creating" /\ acorn'[p] = new /\ \A q \in Processes \ {p} : pc'[q] = pc[q]
    BY <2>1 DEF TypeOK
  <2>4. Hand(p)'
    BY <2>1, <2>2, <2>3, FileAssumption DEF Hand
  <2>. QED
    BY <1>l, <2>3, <2>4, OwnHand
<1>2. CASE Recover(p)
  <2>1. PICK to \in {"m_load", "m_create", "loading", "creating"} : pc' = [pc EXCEPT ![p] = to]
    BY <1>2 DEF Recover
  <2>2. pc'[p] = to /\ acorn'[p] = file /\ \A q \in Processes \ {p} : pc'[q] = pc[q]
    BY <1>2, <2>1 DEF Recover, TypeOK
  <2>3. Hand(p)'
    BY <1>2, <2>2 DEF Recover, Hand
  <2>. QED
    BY <1>l, <2>2, <2>3, OwnHand
<1>3. CASE Initialize(p, "creating", "created")
  <2>1. pc'[p] = "created" /\ \A q \in Processes \ {p} : pc'[q] = pc[q]
    BY <1>3 DEF Initialize, TypeOK
  <2>2. acorn'[p].key = acorn[p].key
    <3>1. acorn[p] \in Acorns
      BY <1>3 DEF Initialize, TypeOK, Locked, Starting
    <3>2. acorn'[p] = [acorn[p] EXCEPT !.init = TRUE]
      BY <1>3 DEF Initialize, TypeOK
    <3>. QED
      BY <3>1, <3>2 DEF Acorns
  <2>3. file # NoFile /\ file.key = acorn[p].key
    BY <1>3 DEF Initialize, HandInv, Hand, Locked, Starting
  <2>4. Hand(p)'
    BY <1>3, <2>1, <2>2, <2>3 DEF Initialize, Hand
  <2>. QED
    BY <1>l, <2>1, <2>4, OwnHand
<1>4. CASE SaveInitialized(p) /\ ~Ends(p)
  <2>1. /\ pc[p] = "created" /\ pc' = [pc EXCEPT ![p] = "loading"]
        /\ file' = acorn[p] /\ acorn' = acorn
    BY <1>4 DEF SaveInitialized
  <2>2. pc'[p] = "loading" /\ acorn[p] # NoFile /\ \A q \in Processes \ {p} : pc'[q] = pc[q]
    BY <2>1 DEF TypeOK, Locked, Starting
  <2>3. Hand(p)'
    BY <2>1, <2>2 DEF Hand
  <2>. QED
    BY <1>l, <2>2, <2>3, OwnHand
<1>5. CASE Load(p) /\ ~Ends(p)
  BY <1>5, <1>l, GoesHand DEF Load
<1>. QED
  BY <1>e, <1>1, <1>2, <1>3, <1>4, <1>5 DEF Start, CreateInstance

\* Every step of a migration keeps the hands.
LEMMA MigrateHand ==
  ASSUME TypeOK, HandInv, NEW p \in Processes, Migrate(p)
  PROVE  HandInv'
<1>. USE DEF At
<1>q. pc[p] \in Migrating
  BY DEF Migrate, MigrationCreate, Initialize, MigrationSave, MigrationLoad, MigrationReplace,
     MigrationVerify, MigrationBurn, MigrationWrite, Migrating
<1>l. pc[p] \in Locked \ {"starting"} /\ acorn[p] \in Acorns /\ acorn[p].key \in Keys
  BY <1>q DEF TypeOK, Locked, Starting, Migrating, Acorns
<1>f. file # NoFile /\ file.key = acorn[p].key
  BY <1>q, <1>l DEF HandInv, Hand, Migrating
<1>o. \A q \in Processes \ {p} : pc'[q] = pc[q]
  BY DEF Migrate, MigrationCreate, Initialize, MigrationSave, MigrationLoad, MigrationReplace,
     MigrationVerify, MigrationBurn, MigrationWrite, Abandon, KeepPersisted, TypeOK
<1>s. SUFFICES Hand(p)'
  BY <1>l, <1>o, OwnHand
<1>1. CASE Initialize(p, "m_create", "m_created")
  <2>1. acorn'[p].key = acorn[p].key
    <3>1. acorn'[p] = [acorn[p] EXCEPT !.init = TRUE]
      BY <1>1 DEF Initialize, TypeOK
    <3>. QED
      BY <1>l, <3>1 DEF Acorns
  <2>2. pc'[p] = "m_created"
    BY <1>1 DEF Initialize, TypeOK
  <2>. QED
    BY <1>1, <1>f, <2>1, <2>2 DEF Initialize, Hand
<1>2. ASSUME NEW to \in {"creating", "loading", "ready"}, Abandon(p, to), file' \in {file, acorn[p]}
      PROVE  Hand(p)'
  <2>1. pc'[p] = to /\ acorn'[p] = acorn[p] /\ acorn[p] # NoFile
    BY <1>2, <1>q DEF Abandon, TypeOK, Locked, Starting, Migrating
  <2>. QED
    BY <1>2, <1>f, <2>1 DEF Hand
<1>3. ASSUME NEW to \in {"m_load", "m_successor", "m_verify", "m_burn"},
             pc' = [pc EXCEPT ![p] = to], acorn' = acorn, file' \in {file, acorn[p]}
      PROVE  Hand(p)'
  <2>1. pc'[p] = to /\ acorn[p] # NoFile
    BY <1>3, <1>q DEF TypeOK, Locked, Starting, Migrating
  <2>. QED
    BY <1>3, <1>f, <2>1 DEF Hand
<1>4. CASE MigrationCreate(p)
  BY <1>1, <1>2, <1>4 DEF MigrationCreate
<1>5. CASE MigrationSave(p)
  BY <1>2, <1>3, <1>5 DEF MigrationSave, WriteRaises
<1>6. CASE MigrationLoad(p) \/ MigrationReplace(p) \/ MigrationVerify(p)
  BY <1>2, <1>3, <1>6 DEF MigrationLoad, MigrationReplace, MigrationVerify
<1>7. CASE MigrationBurn(p)
  <2>1. CASE Abandon(p, "ready")
    BY <1>2, <1>7, <2>1 DEF MigrationBurn
  <2>2. CASE /\ acorn[p].key \notin funded /\ pc' = [pc EXCEPT ![p] = "m_write"]
             /\ relay' = [relay EXCEPT ![acorn[p].key] = "burned"]
             /\ UNCHANGED <<lock, cmd, conf, acorn, successor, faults>>
    <3>1. pc'[p] = "m_write" /\ relay'[acorn[p].key] = "burned"
      BY <2>2, <1>l DEF TypeOK
    <3>. QED
      BY <1>7, <1>f, <2>2, <3>1 DEF MigrationBurn, Hand
  <2>. QED
    BY <1>7, <2>1, <2>2 DEF MigrationBurn, KeepPersisted
<1>8. CASE MigrationWrite(p)
  <2>. DEFINE new == [key |-> successor[p], at |-> conf[p].to, init |-> TRUE]
  <2>1. relay[acorn[p].key] = "burned" /\ pc[p] = "m_write"
    BY <1>8, <1>l DEF MigrationWrite, HandInv, Hand
  <2>2. new \in Acorns
    BY <2>1 DEF TypeOK, Acorns, Settings, Migrating
  <2>3. CASE /\ file' = new /\ pc' = [pc EXCEPT ![p] = "ready"]
             /\ acorn' = [acorn EXCEPT ![p] = new]
    <3>1. pc'[p] = "ready" /\ acorn'[p] = new
      BY <2>3 DEF TypeOK
    <3>. QED
      BY <2>2, <2>3, <3>1, FileAssumption DEF Hand
  <2>4. CASE file' \in {file, new} /\ Abandon(p, "ready") /\ relay' = relay
    <3>1. pc'[p] = "ready" /\ acorn'[p] = acorn[p] /\ file' # NoFile
      BY <1>f, <2>2, <2>4, FileAssumption DEF Abandon, TypeOK
    <3>. QED
      BY <2>1, <2>4, <3>1 DEF Hand
  <2>. QED
    BY <1>8, <2>3, <2>4 DEF MigrationWrite, WriteRaises, Replacement
<1>. QED
  BY <1>4, <1>5, <1>6, <1>7, <1>8 DEF Migrate

\* Every step of a command keeps the hands.
LEMMA CommandHand ==
  ASSUME TypeOK, HandInv, NEW p \in Processes, Command(p)
  PROVE  HandInv'
<1>. USE DEF At
<1>q. pc[p] \in Working \cup {"ready"}
  BY DEF Command, Proceed, Work, Stop, Fund, RetireLoad, RetireBurn, RetireUnlink, Working
<1>l. pc[p] \in Locked \ {"starting"} /\ acorn[p] \in Acorns /\ acorn[p].key \in Keys
  BY <1>q DEF TypeOK, Locked, Starting, Working, Acorns
<1>e. CASE Ends(p)
  BY <1>l, <1>e, EndsHand
<1>1. CASE Proceed(p) /\ ~Ends(p)
  <2>1. PICK to \in {"running", "funding", "r_load"} : pc' = [pc EXCEPT ![p] = to]
    BY <1>1 DEF Proceed, TypeOK, Commands
  <2>. QED
    BY <1>1, <1>l, <2>1, GoesHand DEF Proceed
<1>2. CASE Work(p)
  BY <1>2 DEF Work, procVars, HandInv, Hand, TypeOK, Locked, Working, Starting, Migrating
<1>3. CASE RetireLoad(p) /\ ~Ends(p)
  <2>1. file.key = acorn[p].key
    BY <1>3, <1>l DEF RetireLoad, Readable, HandInv, Hand
  <2>. QED
    BY <1>3, <1>l, <2>1, GoesHand DEF RetireLoad
<1>4. CASE RetireBurn(p) /\ ~Ends(p)
  <2>1. /\ pc' = [pc EXCEPT ![p] = "r_unlink"] /\ UNCHANGED <<file, acorn>>
        /\ funded' = funded \ {acorn[p].key} /\ relay' = [relay EXCEPT ![acorn[p].key] = "burned"]
    BY <1>4 DEF RetireBurn
  <2>2. file # NoFile /\ file.key = acorn[p].key
    BY <1>4, <1>l DEF RetireBurn, HandInv, Hand
  <2>3. /\ pc'[p] = "r_unlink" /\ relay'[acorn[p].key] = "burned"
        /\ \A q \in Processes \ {p} : pc'[q] = pc[q]
    BY <1>l, <2>1 DEF TypeOK
  <2>4. Hand(p)'
    BY <2>1, <2>2, <2>3 DEF Hand
  <2>. QED
    BY <1>l, <2>3, <2>4, OwnHand
<1>. QED
  BY <1>e, <1>1, <1>2, <1>3, <1>4 DEF Command, Stop, Fund, RetireUnlink

\* Hands are right at the start, and every step keeps them.
LEMMA HandStep ==
  /\ Init => HandInv
  /\ TypeOK /\ HandInv /\ [Next]_vars => HandInv'
<1>1. Init => HandInv
  BY DEF Init, HandInv, Hand, Locked, Starting, Working, Migrating
<1>2. ASSUME TypeOK, HandInv, [Next]_vars
      PROVE  HandInv'
  <2>1. CASE UNCHANGED vars
    BY <1>2, <2>1 DEF vars, procVars, HandInv, Hand
  <2>2. ASSUME NEW p \in Processes, NEW c \in Commands, NEW s \in Settings, Launch(p, c, s)
        PROVE  HandInv'
    BY <1>2, <2>2 DEF Launch, HandInv, Hand, TypeOK, Locked, Starting, Working, Migrating
  <2>3. ASSUME NEW p \in Processes, TakeLock(p)
        PROVE  HandInv'
    <3>1. \A q \in Processes : pc'[q] \in Locked \ {"starting"} =>
            pc'[q] = pc[q] /\ acorn'[q] = acorn[q]
      BY <1>2, <2>3 DEF TakeLock, At, Leaves, TypeOK, Locked, Starting, Working, Migrating
    <3>. QED
      BY <1>2, <2>3, <3>1 DEF TakeLock, HandInv, Hand
  <2>4. ASSUME NEW p \in Processes, Crash(p)
        PROVE  HandInv'
    BY <1>2, <2>4, EndsHand DEF Crash
  <2>. QED
    BY <1>2, <2>1, <2>2, <2>3, <2>4, StartHand, MigrateHand, CommandHand DEF Next
<1>. QED
  BY <1>1, <1>2

\* A step that takes a key out of the recovery file.
Leaving == file # NoFile /\ (file' = NoFile \/ file'.key # file.key)

\* Only the end of a migration or of a retirement is such a step.
LEMMA LeavingStep ==
  ASSUME TypeOK, HandInv, [Next]_vars, Leaving
  PROVE  relay[file.key] = "burned" /\ file.key \notin funded
<1>1. PICK p \in Processes : MigrationWrite(p) \/ RetireUnlink(p)
  <2>1. file' # file
    BY DEF Leaving
  <2>2. ASSUME NEW p \in Processes, Start(p) PROVE FALSE
    <3>1. CASE SaveInitialized(p)
      <4>1. acorn[p] # NoFile /\ file.key = acorn[p].key
        BY <3>1 DEF SaveInitialized, HandInv, Hand, TypeOK, Locked, Starting
      <4>. QED
        BY <3>1, <4>1 DEF SaveInitialized, WriteRaises, Leaving
    <3>. QED
      BY <2>1, <2>2, <3>1 DEF Start, Create, Recover, CreateInstance, Initialize, Load, Leaving
  <2>3. ASSUME NEW p \in Processes, MigrationSave(p) PROVE FALSE
    <3>1. acorn[p] # NoFile /\ file.key = acorn[p].key
      BY <2>3 DEF MigrationSave, HandInv, Hand, TypeOK, Locked, Starting, Migrating
    <3>. QED
      BY <2>3, <3>1 DEF MigrationSave, WriteRaises, Leaving
  <2>4. ASSUME NEW p \in Processes, Migrate(p) PROVE MigrationWrite(p)
    BY <2>1, <2>3, <2>4 DEF Migrate, MigrationCreate, Initialize, MigrationLoad, MigrationReplace,
       MigrationVerify, MigrationBurn
  <2>5. ASSUME NEW p \in Processes, Command(p) PROVE RetireUnlink(p)
    BY <2>1, <2>5 DEF Command, Proceed, Work, Stop, Fund, RetireLoad, RetireBurn
  <2>. QED
    BY <2>1, <2>2, <2>4, <2>5 DEF Next, Launch, TakeLock, Crash, vars
<1>2. pc[p] \in {"m_write", "r_unlink"}
  BY <1>1 DEF MigrationWrite, RetireUnlink
<1>. QED
  BY <1>2 DEF HandInv, Hand, Locked, Starting, Working, Migrating

\* Across crashes, failing calls and failing writes, a key leaves the recovery file
\* only when its wallet is burned and empty.
THEOREM KeysLeaveBurned == Spec => KeyLeavesBurned
<1>1. TypeOK /\ HandInv /\ [Next]_vars =>
        [file # NoFile /\ (file' = NoFile \/ file'.key # file.key)
           => relay[file.key] = "burned" /\ file.key \notin funded]_vars
  BY LeavingStep DEF Leaving
<1>. QED
  BY <1>1, InitTypes, TypesStep, HandStep, PTL DEF Spec, KeyLeavesBurned

-----------------------------------------------------------------------------
(* No wallet with funds is out of reach, unless a handover fails.          *)

\* Keys in use were generated, so a fresh one is none of them.
RangeInv ==
  /\ file # NoFile => file.key <= made
  /\ \A p \in Processes :
       successor[p] <= made /\ (acorn[p] # NoFile => acorn[p].key <= made)

\* Keys in use are generated at the start, and after every step.
LEMMA RangeStep ==
  /\ Init => RangeInv
  /\ TypeOK /\ RangeInv /\ [Next]_vars => RangeInv'
<1>1. Init => RangeInv
  BY DEF Init, RangeInv, NoKey
<1>2. ASSUME TypeOK, RangeInv, [Next]_vars
      PROVE  RangeInv'
  <2>. USE DEF At
  <2>1. CASE UNCHANGED vars
    BY <1>2, <2>1 DEF vars, procVars, RangeInv
  <2>2. CASE UNCHANGED <<file, made, acorn, successor>>
    BY <1>2, <2>2 DEF RangeInv
  <2>l. ASSUME NEW p \in Processes, Leaves(p), file' \in {file, NoFile}, made' = made
        PROVE  RangeInv'
    BY <1>2, <2>l DEF Leaves, RangeInv, TypeOK, NoKey
  <2>a. ASSUME NEW p \in Processes, NEW to, Abandon(p, to), made <= made',
               made' \in Nat, file' \in {file, acorn[p]}
        PROVE  RangeInv'
    <3>1. /\ acorn' = acorn
          /\ \A q \in Processes : successor'[q] \in {successor[q], NoKey}
      BY <1>2, <2>a DEF Abandon, TypeOK
    <3>2. made \in Nat /\ \A q \in Processes : successor[q] \in Nat
      BY <1>2, ServiceAssumption DEF TypeOK, Keys, NoKey
    <3>3. \A q \in Processes : acorn[q] # NoFile => acorn[q].key \in Nat
      BY <1>2 DEF TypeOK, Acorns, Keys
    <3>4. file # NoFile => file.key \in Nat
      BY <1>2 DEF TypeOK, Acorns, Keys
    <3>. QED
      BY <1>2, <2>a, <3>1, <3>2, <3>3, <3>4 DEF RangeInv, NoKey
  <2>3. ASSUME NEW p \in Processes, Start(p)
        PROVE  RangeInv'
    <3>1. CASE Create(p)
      <4>. DEFINE new == [key |-> made + 1, at |-> conf[p].to, init |-> FALSE]
      <4>1. CASE UNCHANGED <<file, made>> /\ Ends(p)
        BY <4>1, <2>l DEF Ends
      <4>2. CASE made' = made + 1 /\ file' \in {NoFile, new}
                 /\ UNCHANGED successor /\ acorn' = [acorn EXCEPT ![p] = new]
        <5>1. made \in Nat /\ \A q \in Processes : successor[q] \in Nat
          BY <1>2, ServiceAssumption DEF TypeOK, Keys, NoKey
        <5>2. \A q \in Processes : acorn[q] # NoFile => acorn[q].key \in Nat
          BY <1>2 DEF TypeOK, Acorns, Keys
        <5>3. \A q \in Processes : acorn'[q] \in {acorn[q], new}
          BY <1>2, <4>2 DEF TypeOK
        <5>. QED
          BY <1>2, <4>2, <5>1, <5>2, <5>3 DEF RangeInv
      <4>3. CASE made' = made + 1 /\ file' \in {NoFile, new} /\ Leaves(p)
        <5>1. made \in Nat /\ \A q \in Processes : successor[q] \in Nat
          BY <1>2, ServiceAssumption DEF TypeOK, Keys, NoKey
        <5>2. \A q \in Processes : acorn[q] # NoFile => acorn[q].key \in Nat
          BY <1>2 DEF TypeOK, Acorns, Keys
        <5>3. \A q \in Processes :
                acorn'[q] \in {acorn[q], NoFile} /\ successor'[q] \in {successor[q], NoKey}
          BY <1>2, <4>3 DEF Leaves, TypeOK
        <5>. QED
          BY <1>2, <4>3, <5>1, <5>2, <5>3 DEF RangeInv, NoKey
      <4>. QED
        BY <3>1, <4>1, <4>2, <4>3 DEF Create, WriteRaises, Ends
    <3>2. CASE Recover(p)
      BY <1>2, <3>2 DEF Recover, RangeInv, TypeOK
    <3>3. CASE CreateInstance(p)
      <4>1. CASE Initialize(p, "creating", "created")
        <5>1. acorn[p] \in Acorns
          BY <1>2, <4>1 DEF Initialize, TypeOK, Locked, Starting
        <5>2. acorn'[p] = [acorn[p] EXCEPT !.init = TRUE]
              /\ \A q \in Processes \ {p} : acorn'[q] = acorn[q]
          BY <1>2, <4>1 DEF Initialize, TypeOK
        <5>3. acorn'[p].key = acorn[p].key /\ acorn[p] # NoFile
          BY <5>1, <5>2, FileAssumption DEF Acorns
        <5>. QED
          BY <1>2, <4>1, <5>2, <5>3 DEF Initialize, RangeInv
      <4>. QED
        BY <3>3, <4>1, <2>l DEF CreateInstance, Ends
    <3>4. CASE SaveInitialized(p)
      <4>1. acorn[p] # NoFile /\ acorn[p].key <= made
        BY <1>2, <3>4 DEF SaveInitialized, RangeInv, TypeOK, Locked, Starting
      <4>2. CASE Leaves(p) /\ file' \in {file, acorn[p]} /\ made' = made
        <5>1. \A q \in Processes :
                acorn'[q] \in {acorn[q], NoFile} /\ successor'[q] \in {successor[q], NoKey}
          BY <1>2, <4>2 DEF Leaves, TypeOK
        <5>2. made \in Nat
          BY <1>2 DEF TypeOK
        <5>. QED
          BY <1>2, <4>1, <4>2, <5>1, <5>2 DEF RangeInv, NoKey
      <4>3. CASE UNCHANGED <<acorn, successor, made>> /\ file' = acorn[p]
        BY <1>2, <4>1, <4>3 DEF RangeInv
      <4>. QED
        BY <3>4, <4>2, <4>3 DEF SaveInitialized, WriteRaises, Ends
    <3>5. CASE Load(p)
      BY <3>5, <2>2, <2>l DEF Load, Ends
    <3>. QED
      BY <2>3, <3>1, <3>2, <3>3, <3>4, <3>5 DEF Start
  <2>4. ASSUME NEW p \in Processes, Migrate(p)
        PROVE  RangeInv'
    <3>0. made \in Nat
      BY <1>2 DEF TypeOK
    <3>1. CASE MigrationCreate(p)
      <4>1. CASE Initialize(p, "m_create", "m_created")
        <5>1. acorn[p] \in Acorns
          BY <1>2, <4>1 DEF Initialize, TypeOK, Locked, Starting, Migrating
        <5>2. acorn'[p] = [acorn[p] EXCEPT !.init = TRUE]
              /\ \A q \in Processes \ {p} : acorn'[q] = acorn[q]
          BY <1>2, <4>1 DEF Initialize, TypeOK
        <5>3. acorn'[p].key = acorn[p].key /\ acorn[p] # NoFile
          BY <5>1, <5>2, FileAssumption DEF Acorns
        <5>. QED
          BY <1>2, <4>1, <5>2, <5>3 DEF Initialize, RangeInv
      <4>. QED
        BY <3>0, <3>1, <4>1, <2>a DEF MigrationCreate
    <3>2. CASE MigrationSave(p)
      <4>1. acorn[p] # NoFile /\ acorn[p].key <= made
        BY <1>2, <3>2 DEF MigrationSave, RangeInv, TypeOK, Locked, Starting, Migrating
      <4>2. CASE UNCHANGED <<acorn, successor, made>> /\ file' = acorn[p]
        BY <1>2, <4>1, <4>2 DEF RangeInv
      <4>. QED
        BY <3>0, <3>2, <4>2, <2>a DEF MigrationSave, WriteRaises
    <3>3. CASE MigrationLoad(p) \/ MigrationVerify(p) \/ MigrationBurn(p)
      BY <3>0, <3>3, <2>2, <2>a DEF MigrationLoad, MigrationVerify, MigrationBurn, KeepPersisted
    <3>4. CASE MigrationReplace(p)
      <4>1. CASE made' = made + 1 /\ UNCHANGED <<file, acorn>>
                 /\ successor' = [successor EXCEPT ![p] = made + 1]
        <5>1. \A q \in Processes : acorn[q] # NoFile => acorn[q].key \in Nat
          BY <1>2 DEF TypeOK, Acorns, Keys
        <5>2. \A q \in Processes : successor[q] \in Nat /\ successor'[q] \in {successor[q], made + 1}
          BY <1>2, <4>1 DEF TypeOK, Keys, NoKey
        <5>3. file # NoFile => file.key \in Nat
          BY <1>2 DEF TypeOK, Acorns, Keys
        <5>. QED
          BY <1>2, <3>0, <4>1, <5>1, <5>2, <5>3 DEF RangeInv
      <4>2. CASE made' = made + 1 /\ file' = file /\ Abandon(p, "ready")
        BY <3>0, <4>2, <2>a
      <4>. QED
        BY <3>4, <4>1, <4>2 DEF MigrationReplace
    <3>5. CASE MigrationWrite(p)
      <4>. DEFINE new == [key |-> successor[p], at |-> conf[p].to, init |-> TRUE]
      <4>1. successor[p] <= made
        BY <1>2 DEF RangeInv
      <4>2. /\ file' \in {file, new} /\ made' = made
            /\ \A q \in Processes : acorn'[q] \in {acorn[q], new}
            /\ \A q \in Processes : successor'[q] \in {successor[q], NoKey}
        BY <1>2, <3>5 DEF MigrationWrite, WriteRaises, Abandon, Replacement, TypeOK
      <4>. QED
        BY <1>2, <3>0, <4>1, <4>2 DEF RangeInv, NoKey
    <3>. QED
      BY <2>4, <3>1, <3>2, <3>3, <3>4, <3>5 DEF Migrate
  <2>5. ASSUME NEW p \in Processes, Command(p)
        PROVE  RangeInv'
    <3>1. CASE UNCHANGED <<file, made, acorn, successor>>
      BY <3>1, <2>2
    <3>2. CASE Leaves(p) /\ file' \in {file, NoFile} /\ made' = made
      BY <3>2, <2>l
    <3>. QED
      BY <2>5, <3>1, <3>2 DEF Command, Proceed, Work, Stop, Fund, RetireLoad, RetireBurn, RetireUnlink,
         Ends, procVars
  <2>6. ASSUME NEW p \in Processes, NEW c \in Commands, NEW t \in Settings, Launch(p, c, t)
        PROVE  RangeInv'
    BY <2>2, <2>6 DEF Launch
  <2>7. ASSUME NEW p \in Processes, TakeLock(p)
        PROVE  RangeInv'
    BY <2>2, <2>l, <2>7 DEF TakeLock
  <2>8. ASSUME NEW p \in Processes, Crash(p)
        PROVE  RangeInv'
    BY <2>l, <2>8 DEF Crash, Ends
  <2>. QED
    BY <1>2, <2>1, <2>3, <2>4, <2>5, <2>6, <2>7, <2>8 DEF Next
<1>. QED
  BY <1>1, <1>2

\* What a process works on is the wallet of the recovery file, which is on its relay
\* once it was loaded; the successor it has made is on its relay and another one.
Held(p) ==
  /\ pc[p] \in Locked \ {"starting"} => file # NoFile /\ file.key = acorn[p].key
  /\ pc[p] \in {"ready", "running", "funding", "m_successor", "m_verify", "m_burn"} =>
       relay[acorn[p].key] = "present"
  /\ pc[p] \in {"m_verify", "m_burn", "m_write"} =>
       relay[successor[p]] = "present" /\ successor[p] # acorn[p].key

HeldInv == \A p \in Processes : Held(p)

\* A process that has the lock need only mind what it holds.
LEMMA OwnHeld ==
  ASSUME TypeOK, NEW p \in Processes, pc[p] \in Locked,
         \A q \in Processes \ {p} : pc'[q] = pc[q], Held(p)'
  PROVE  HeldInv'
<1>1. \A q \in Processes \ {p} : pc[q] \notin Locked
  BY DEF TypeOK
<1>2. \A q \in Processes \ {p} : Held(q)'
  BY <1>1 DEF Held, Locked, Starting, Working, Migrating
<1>. QED
  BY <1>2 DEF HeldInv

\* A process that ends holds nothing.
LEMMA EndsHeld ==
  ASSUME TypeOK, NEW p \in Processes, pc[p] \in Locked, Ends(p)
  PROVE  HeldInv'
<1>1. pc'[p] = "down" /\ \A q \in Processes \ {p} : pc'[q] = pc[q]
  BY DEF Ends, Leaves, TypeOK
<1>2. Held(p)'
  BY <1>1 DEF Held, Locked, Starting, Working, Migrating
<1>. QED
  BY <1>1, <1>2, OwnHeld

\* A process that goes on with its Acorn, while the file keeps the key, and no wallet
\* disappears from its relay.
LEMMA GoesHeld ==
  ASSUME TypeOK, HeldInv, NEW p \in Processes, pc[p] \in Locked \ {"starting"}, NEW to,
         pc' = [pc EXCEPT ![p] = to], acorn'[p].key = acorn[p].key,
         file' # NoFile, file'.key = file.key,
         \A k \in Keys : relay[k] = "present" => relay'[k] = "present",
         to \in {"ready", "running", "funding", "m_successor", "m_verify", "m_burn"} =>
           relay[acorn[p].key] = "present",
         to # "m_write",
         to \in {"m_verify", "m_burn"} =>
           relay'[successor'[p]] = "present" /\ successor'[p] # acorn[p].key
  PROVE  HeldInv'
<1>1. pc'[p] = to /\ \A q \in Processes \ {p} : pc'[q] = pc[q]
  BY DEF TypeOK
<1>2. acorn[p].key \in Keys
  BY DEF TypeOK, Acorns
<1>3. Held(p)'
  BY <1>1, <1>2 DEF HeldInv, Held
<1>. QED
  BY <1>1, <1>3, OwnHeld

\* Every step of a start keeps funds on file and processes on their wallets.
LEMMA StartHeld ==
  ASSUME TypeOK, FundsOnFile, HeldInv, NEW p \in Processes, Start(p)
  PROVE  FundsOnFile' /\ HeldInv'
<1>. USE DEF At
<1>l. pc[p] \in Locked
  BY DEF Start, Create, Recover, CreateInstance, Initialize, SaveInitialized, Load, Locked, Starting
<1>a. acorn[p] # NoFile => acorn[p] \in Acorns /\ acorn[p].key \in Keys
  BY DEF TypeOK, Acorns
<1>1. CASE Create(p)
  <2>. DEFINE new == [key |-> made + 1, at |-> conf[p].to, init |-> FALSE]
  <2>1. FundsOnFile'
    BY <1>1 DEF Create, FundsOnFile, TypeOK
  <2>2. CASE Ends(p)
    BY <1>l, <2>1, <2>2, EndsHeld
  <2>3. CASE ~Ends(p)
    <3>1. /\ file' = new /\ pc' = [pc EXCEPT ![p] = "creating"]
          /\ acorn' = [acorn EXCEPT ![p] = new]
          /\ made + 1 \in Keys /\ conf[p].to \in Endpoints
      BY <1>1, <2>3, ServiceAssumption DEF Create, TypeOK, Keys, Settings
    <3>2. new \in Acorns
      BY <3>1 DEF Acorns
    <3>3. pc'[p] = "creating" /\ acorn'[p] = new /\ \A q \in Processes \ {p} : pc'[q] = pc[q]
      BY <3>1 DEF TypeOK
    <3>4. Held(p)'
      BY <3>1, <3>2, <3>3, FileAssumption DEF Held
    <3>. QED
      BY <1>l, <2>1, <3>3, <3>4, OwnHeld
  <2>. QED
    BY <2>2, <2>3
<1>2. CASE Recover(p)
  <2>1. PICK to \in {"loading", "creating", "m_load", "m_create"} : pc' = [pc EXCEPT ![p] = to]
    BY <1>2 DEF Recover
  <2>2. pc'[p] = to /\ acorn'[p] = file /\ \A q \in Processes \ {p} : pc'[q] = pc[q]
    BY <1>2, <2>1 DEF Recover, TypeOK
  <2>3. Held(p)'
    BY <1>2, <2>2 DEF Recover, Held
  <2>4. FundsOnFile'
    BY <1>2 DEF Recover, FundsOnFile
  <2>. QED
    BY <1>l, <2>2, <2>3, <2>4, OwnHeld
<1>3. CASE CreateInstance(p)
  <2>1. pc[p] = "creating" /\ file' = file /\ funded' = funded
    BY <1>3 DEF CreateInstance, Initialize
  <2>2. file # NoFile /\ file.key = acorn[p].key /\ acorn[p].key \in Keys
    BY <2>1, <1>a DEF HeldInv, Held, TypeOK, Locked, Starting
  <2>3. relay' \in {relay, [relay EXCEPT ![acorn[p].key] = "present"]}
    BY <1>3 DEF CreateInstance, Initialize, CallRaises
  <2>4. FundsOnFile'
    BY <2>1, <2>2, <2>3 DEF FundsOnFile, TypeOK
  <2>5. CASE Ends(p)
    BY <1>l, <2>4, <2>5, EndsHeld
  <2>6. CASE Initialize(p, "creating", "created")
    <3>1. acorn'[p].key = acorn[p].key
      <4>1. acorn[p] \in Acorns
        BY <2>1 DEF TypeOK, Locked, Starting
      <4>2. acorn'[p] = [acorn[p] EXCEPT !.init = TRUE]
        BY <2>6 DEF Initialize, TypeOK
      <4>. QED
        BY <4>1, <4>2 DEF Acorns
    <3>2. pc'[p] = "created" /\ \A q \in Processes \ {p} : pc'[q] = pc[q]
      BY <2>6 DEF Initialize, TypeOK
    <3>3. Held(p)'
      BY <2>1, <2>2, <3>1, <3>2 DEF Held
    <3>. QED
      BY <1>l, <2>4, <3>2, <3>3, OwnHeld
  <2>. QED
    BY <1>3, <2>5, <2>6 DEF CreateInstance
<1>4. CASE SaveInitialized(p)
  <2>1. /\ pc[p] = "created" /\ acorn[p] # NoFile /\ UNCHANGED <<relay, funded>>
        /\ file # NoFile /\ file.key = acorn[p].key
    BY <1>4 DEF SaveInitialized, HeldInv, Held, TypeOK, Locked, Starting
  <2>2. file' \in {file, acorn[p]}
    BY <1>4 DEF SaveInitialized, WriteRaises
  <2>3. FundsOnFile'
    BY <2>1, <2>2 DEF FundsOnFile
  <2>4. CASE Ends(p)
    BY <1>l, <2>3, <2>4, EndsHeld
  <2>5. CASE pc' = [pc EXCEPT ![p] = "loading"] /\ acorn' = acorn
    <3>1. pc[p] \in Locked \ {"starting"} /\ file' # NoFile /\ file'.key = file.key
      BY <2>1, <2>2 DEF Locked, Starting
    <3>. QED
      BY <2>1, <2>3, <2>5, <3>1, GoesHeld
  <2>. QED
    BY <1>4, <2>4, <2>5 DEF SaveInitialized
<1>5. CASE Load(p)
  <2>1. FundsOnFile'
    BY <1>5 DEF Load, FundsOnFile
  <2>2. CASE Ends(p)
    BY <1>l, <2>1, <2>2, EndsHeld
  <2>3. CASE ~Ends(p)
    <3>1. /\ pc[p] \in Locked \ {"starting"} /\ file # NoFile
          /\ pc' = [pc EXCEPT ![p] = "ready"] /\ relay[acorn[p].key] = "present"
          /\ UNCHANGED <<file, relay, acorn>>
      BY <1>5, <2>3 DEF Load, Readable, HeldInv, Held, Locked, Starting
    <3>. QED
      BY <2>1, <3>1, GoesHeld
  <2>. QED
    BY <2>2, <2>3
<1>. QED
  BY <1>1, <1>2, <1>3, <1>4, <1>5 DEF Start

\* So does every step of a migration, unless a handover failed.
LEMMA MigrateHeld ==
  ASSUME TypeOK, HandInv, RangeInv, FundsOnFile, HeldInv, NEW p \in Processes, Migrate(p),
         faults.handover = 0, faults'.handover = 0
  PROVE  FundsOnFile' /\ HeldInv'
<1>. USE DEF At
<1>q. pc[p] \in Migrating
  BY DEF Migrate, MigrationCreate, Initialize, MigrationSave, MigrationLoad, MigrationReplace,
     MigrationVerify, MigrationBurn, MigrationWrite, Migrating
<1>l. pc[p] \in Locked \ {"starting"} /\ acorn[p] \in Acorns /\ acorn[p].key \in Keys
      /\ acorn[p] # NoFile
  BY <1>q, FileAssumption DEF TypeOK, Locked, Starting, Migrating, Acorns
<1>f. file # NoFile /\ file.key = acorn[p].key
  BY <1>l DEF HeldInv, Held
<1>n. ~(pc[p] \in {"m_burn", "m_write"} /\ Raises(p))
  BY DEF Raises, TypeOK
\* A step to a place that asks for no more than the wallet the process has loaded.
<1>g. ASSUME NEW to \in {"creating", "loading", "ready", "m_created", "m_load", "m_successor"},
             pc' = [pc EXCEPT ![p] = to], acorn'[p].key = acorn[p].key,
             file' \in {file, acorn[p]}, funded' = funded,
             \A k \in Keys : relay[k] = "present" => relay'[k] = "present",
             to \in {"ready", "m_successor"} => relay[acorn[p].key] = "present"
      PROVE  FundsOnFile' /\ HeldInv'
  <2>1. file' # NoFile /\ file'.key = file.key
    BY <1>f, <1>g, <1>l
  <2>2. FundsOnFile'
    BY <1>g, <2>1 DEF FundsOnFile, TypeOK
  <2>. QED
    BY <1>g, <1>l, <2>1, <2>2, GoesHeld
<1>1. CASE MigrationCreate(p)
  <2>1. \A k \in Keys : relay[k] = "present" => relay'[k] = "present"
    BY <1>1, <1>l DEF MigrationCreate, Initialize, CallRaises, TypeOK
  <2>2. CASE Initialize(p, "m_create", "m_created")
    <3>1. acorn'[p] = [acorn[p] EXCEPT !.init = TRUE]
      BY <2>2 DEF Initialize, TypeOK
    <3>2. acorn'[p].key = acorn[p].key
      BY <1>l, <3>1 DEF Acorns
    <3>. QED
      BY <1>g, <2>1, <2>2, <3>2 DEF Initialize
  <2>3. CASE Abandon(p, "creating") /\ UNCHANGED <<file, funded>>
    BY <1>g, <2>1, <2>3 DEF Abandon
  <2>. QED
    BY <1>1, <2>2, <2>3 DEF MigrationCreate
<1>2. CASE MigrationSave(p)
  BY <1>2, <1>g DEF MigrationSave, WriteRaises, Abandon
<1>3. CASE MigrationLoad(p)
  BY <1>3, <1>g DEF MigrationLoad, Readable, Abandon
<1>4. CASE MigrationReplace(p)
  <2>1. relay[acorn[p].key] = "present" /\ made + 1 # acorn[p].key /\ made + 1 \in Keys
    <3>1. relay[acorn[p].key] = "present"
      BY <1>4 DEF MigrationReplace, HeldInv, Held
    <3>2. acorn[p].key <= made /\ made \in Nat /\ acorn[p].key \in Nat
      BY <1>l DEF RangeInv, TypeOK, Keys
    <3>. QED
      BY <1>4, <3>1, <3>2, ServiceAssumption DEF MigrationReplace, Keys
  <2>2. \A k \in Keys : relay[k] = "present" => relay'[k] = "present"
    BY <1>4, <2>1 DEF MigrationReplace, CallRaises, TypeOK
  <2>3. CASE Abandon(p, "ready")
    BY <1>4, <1>g, <2>1, <2>2, <2>3 DEF MigrationReplace, Abandon
  <2>4. CASE /\ relay' = [relay EXCEPT ![made + 1] = "present"]
             /\ pc' = [pc EXCEPT ![p] = "m_verify"] /\ acorn' = acorn
             /\ successor' = [successor EXCEPT ![p] = made + 1]
    <3>1. relay'[made + 1] = "present" /\ successor'[p] = made + 1
      BY <2>1, <2>4 DEF TypeOK
    <3>2. UNCHANGED <<file, funded>>
      BY <1>4 DEF MigrationReplace
    <3>3. FundsOnFile'
      BY <2>2, <3>2 DEF FundsOnFile, TypeOK
    <3>4. HeldInv'
      BY <1>f, <1>l, <2>1, <2>2, <2>4, <3>1, <3>2, GoesHeld
    <3>. QED
      BY <3>3, <3>4
  <2>. QED
    BY <1>4, <2>3, <2>4 DEF MigrationReplace
<1>5. CASE MigrationVerify(p)
  <2>1. /\ relay[acorn[p].key] = "present" /\ UNCHANGED <<file, relay, funded, acorn>>
        /\ relay[successor[p]] = "present" /\ successor[p] # acorn[p].key
    BY <1>5 DEF MigrationVerify, HeldInv, Held, Abandon
  <2>2. CASE Abandon(p, "ready")
    BY <1>g, <2>1, <2>2 DEF Abandon
  <2>3. CASE pc' = [pc EXCEPT ![p] = "m_burn"] /\ successor' = successor
    <3>1. HeldInv'
      BY <1>f, <1>l, <2>1, <2>3, GoesHeld
    <3>. QED
      BY <2>1, <3>1 DEF FundsOnFile
  <2>. QED
    BY <1>5, <2>2, <2>3 DEF MigrationVerify
<1>6. CASE MigrationBurn(p)
  <2>1. /\ pc' = [pc EXCEPT ![p] = "m_write"] /\ acorn[p].key \notin funded
        /\ relay' = [relay EXCEPT ![acorn[p].key] = "burned"]
        /\ UNCHANGED <<file, funded, acorn, successor>>
    BY <1>6, <1>n DEF MigrationBurn, CallRaises
  <2>2. relay[successor[p]] = "present" /\ successor[p] # acorn[p].key /\ successor[p] \in Keys
    BY <1>6 DEF MigrationBurn, HeldInv, Held, TypeOK
  <2>3. pc'[p] = "m_write" /\ \A q \in Processes \ {p} : pc'[q] = pc[q]
    BY <2>1 DEF TypeOK
  <2>4. relay'[successor[p]] = "present"
    BY <2>1, <2>2, <1>l DEF TypeOK
  <2>5. Held(p)'
    BY <1>f, <2>1, <2>2, <2>3, <2>4 DEF Held
  <2>6. FundsOnFile'
    BY <1>l, <2>1 DEF FundsOnFile, TypeOK
  <2>. QED
    BY <1>l, <2>3, <2>5, <2>6, OwnHeld
<1>7. CASE MigrationWrite(p)
  <2>. DEFINE new == [key |-> successor[p], at |-> conf[p].to, init |-> TRUE]
  <2>1. /\ file' = new /\ pc' = [pc EXCEPT ![p] = "ready"]
        /\ acorn' = [acorn EXCEPT ![p] = new] /\ UNCHANGED <<relay, funded>>
    BY <1>7, <1>n DEF MigrationWrite, WriteRaises, Replacement
  <2>2. new \in Acorns /\ relay[successor[p]] = "present"
    BY <1>7, <1>q DEF MigrationWrite, HeldInv, Held, TypeOK, Acorns, Settings
  <2>3. acorn[p].key \notin funded
    BY <1>7, <1>l DEF MigrationWrite, HandInv, Hand
  <2>4. FundsOnFile'
    BY <1>f, <2>1, <2>3 DEF FundsOnFile
  <2>5. pc'[p] = "ready" /\ acorn'[p] = new /\ \A q \in Processes \ {p} : pc'[q] = pc[q]
    BY <2>1 DEF TypeOK
  <2>6. new # NoFile /\ new.key = successor[p]
    BY <2>2, FileAssumption
  <2>7. Held(p)'
    BY <2>1, <2>2, <2>5, <2>6 DEF Held
  <2>. QED
    BY <1>l, <2>4, <2>5, <2>7, OwnHeld
<1>. QED
  BY <1>1, <1>2, <1>3, <1>4, <1>5, <1>6, <1>7 DEF Migrate

\* Every step of a command keeps funds on file and processes on their wallets.
LEMMA CommandHeld ==
  ASSUME TypeOK, HandInv, FundsOnFile, HeldInv, NEW p \in Processes, Command(p)
  PROVE  FundsOnFile' /\ HeldInv'
<1>. USE DEF At
<1>q. pc[p] \in Working \cup {"ready"}
  BY DEF Command, Proceed, Work, Stop, Fund, RetireLoad, RetireBurn, RetireUnlink, Working
<1>l. pc[p] \in Locked \ {"starting"} /\ acorn[p] \in Acorns /\ acorn[p].key \in Keys
  BY <1>q DEF TypeOK, Locked, Starting, Working, Acorns
<1>f. file # NoFile /\ file.key = acorn[p].key
  BY <1>l DEF HeldInv, Held
<1>1. CASE Proceed(p)
  <2>1. FundsOnFile'
    BY <1>1 DEF Proceed, FundsOnFile
  <2>2. CASE Ends(p)
    BY <1>l, <2>1, <2>2, EndsHeld
  <2>3. CASE ~Ends(p)
    <3>1. PICK to \in {"running", "funding", "r_load"} : pc' = [pc EXCEPT ![p] = to]
      BY <1>1, <2>3 DEF Proceed, TypeOK, Commands
    <3>2. relay[acorn[p].key] = "present" /\ UNCHANGED <<acorn, file, relay>>
      BY <1>1, <2>3 DEF Proceed, HeldInv, Held
    <3>3. HeldInv'
      BY <1>f, <1>l, <3>1, <3>2, GoesHeld
    <3>. QED
      BY <2>1, <3>3
  <2>. QED
    BY <2>2, <2>3
<1>2. CASE Work(p)
  <2>1. relay[acorn[p].key] = "present"
    BY <1>2 DEF Work, HeldInv, Held
  <2>2. FundsOnFile'
    BY <1>2, <1>f, <2>1 DEF Work, FundsOnFile
  <2>3. HeldInv'
    BY <1>2 DEF Work, procVars, HeldInv, Held
  <2>. QED
    BY <2>2, <2>3
<1>3. CASE Stop(p)
  BY <1>3, <1>l, EndsHeld DEF Stop, FundsOnFile
<1>4. CASE Fund(p)
  <2>1. relay[acorn[p].key] = "present"
    BY <1>4 DEF Fund, HeldInv, Held
  <2>2. FundsOnFile'
    BY <1>4, <1>f, <2>1 DEF Fund, FundsOnFile
  <2>. QED
    BY <1>4, <1>l, <2>2, EndsHeld DEF Fund
<1>5. CASE RetireLoad(p)
  <2>1. FundsOnFile'
    BY <1>5 DEF RetireLoad, FundsOnFile
  <2>2. CASE Ends(p)
    BY <1>l, <2>1, <2>2, EndsHeld
  <2>3. CASE ~Ends(p)
    BY <1>5, <1>f, <1>l, <2>1, <2>3, GoesHeld DEF RetireLoad
  <2>. QED
    BY <2>2, <2>3
<1>6. CASE RetireBurn(p)
  <2>. DEFINE k == acorn[p].key
  <2>1. /\ file' = file
        /\ \/ funded' = funded \ {k} /\ relay' \in {relay, [relay EXCEPT ![k] = "burned"]}
           \/ UNCHANGED <<funded, relay>>
    BY <1>6 DEF RetireBurn, CallRaises
  <2>2. FundsOnFile'
    BY <2>1, <1>l DEF FundsOnFile, TypeOK
  <2>3. CASE Ends(p)
    BY <1>l, <2>2, <2>3, EndsHeld
  <2>4. CASE ~Ends(p)
    <3>1. pc' = [pc EXCEPT ![p] = "r_unlink"] /\ acorn' = acorn
      BY <1>6, <2>4 DEF RetireBurn
    <3>2. pc'[p] = "r_unlink" /\ \A q \in Processes \ {p} : pc'[q] = pc[q]
      BY <3>1 DEF TypeOK
    <3>3. Held(p)'
      BY <1>f, <2>1, <3>1, <3>2 DEF Held, Migrating
    <3>. QED
      BY <1>l, <2>2, <3>2, <3>3, OwnHeld
  <2>. QED
    BY <2>3, <2>4
<1>7. CASE RetireUnlink(p)
  <2>1. relay[file.key] = "burned" /\ relay' = relay /\ funded' = funded
    BY <1>7, <1>l, <1>f DEF RetireUnlink, HandInv, Hand
  <2>2. FundsOnFile'
    BY <1>7, <2>1 DEF RetireUnlink, FundsOnFile
  <2>. QED
    BY <1>7, <1>l, <2>2, EndsHeld DEF RetireUnlink
<1>. QED
  BY <1>1, <1>2, <1>3, <1>4, <1>5, <1>6, <1>7 DEF Command

\* What matters about wallets, as long as no handover failed.
SafeInv == faults.handover = 0 => FundsOnFile /\ HeldInv

\* It holds at the start, and every step keeps it.
LEMMA SafeStep ==
  /\ Init => SafeInv
  /\ TypeOK /\ HandInv /\ RangeInv /\ SafeInv /\ [Next]_vars => SafeInv'
<1>1. Init => SafeInv
  BY DEF Init, SafeInv, FundsOnFile, HeldInv, Held, Locked, Starting, Working, Migrating
<1>2. ASSUME TypeOK, HandInv, RangeInv, SafeInv, [Next]_vars
      PROVE  SafeInv'
  <2>1. CASE UNCHANGED vars
    BY <1>2, <2>1 DEF vars, procVars, SafeInv, FundsOnFile, HeldInv, Held
  <2>2. ASSUME NEW p \in Processes, NEW c \in Commands, NEW s \in Settings, Launch(p, c, s)
        PROVE  SafeInv'
    <3>1. \A q \in Processes : pc'[q] = pc[q] \/ pc'[q] = "launched"
      BY <1>2, <2>2 DEF Launch, TypeOK
    <3>2. HeldInv => HeldInv'
      BY <2>2, <3>1 DEF Launch, HeldInv, Held, Locked, Starting, Working, Migrating
    <3>. QED
      BY <1>2, <2>2, <3>2 DEF Launch, SafeInv, FundsOnFile
  <2>3. ASSUME NEW p \in Processes, TakeLock(p)
        PROVE  SafeInv'
    <3>1. \A q \in Processes : pc'[q] \in Locked \ {"starting"} =>
            pc'[q] = pc[q] /\ acorn'[q] = acorn[q] /\ successor'[q] = successor[q]
      BY <1>2, <2>3 DEF TakeLock, At, Leaves, TypeOK, Locked, Starting, Working, Migrating
    <3>2. {"ready", "running", "funding", "m_successor", "m_verify", "m_burn", "m_write"}
            \subseteq Locked \ {"starting"}
      BY DEF Locked, Starting, Working, Migrating
    <3>3. HeldInv => HeldInv'
      BY <2>3, <3>1, <3>2 DEF TakeLock, HeldInv, Held
    <3>. QED
      BY <1>2, <2>3, <3>3 DEF TakeLock, SafeInv, FundsOnFile
  <2>4. ASSUME NEW p \in Processes, Crash(p)
        PROVE  SafeInv'
    <3>1. faults'.handover = faults.handover
      BY <1>2, <2>4 DEF Crash, TypeOK
    <3>. QED
      BY <1>2, <2>4, <3>1, EndsHeld DEF Crash, SafeInv, FundsOnFile
  <2>5. ASSUME NEW p \in Processes, Start(p) \/ Migrate(p) \/ Command(p), faults'.handover = 0
        PROVE  faults.handover = 0
    <3>1. faults' = faults \/ Raises(p)
      BY <2>5 DEF Start, Create, Recover, CreateInstance, Initialize, SaveInitialized, Load,
         Migrate, MigrationCreate, MigrationSave, MigrationLoad, MigrationReplace, MigrationVerify,
         MigrationBurn, MigrationWrite, Command, Proceed, Work, Stop, Fund, RetireLoad, RetireBurn,
         RetireUnlink, CallRaises, WriteRaises
    <3>. QED
      BY <1>2, <2>5, <3>1 DEF Raises, TypeOK
  <2>. QED
    BY <1>2, <2>1, <2>2, <2>3, <2>4, <2>5, StartHeld, MigrateHeld, CommandHeld DEF Next, SafeInv
<1>. QED
  BY <1>1, <1>2

\* The strengthened invariant holds throughout.
LEMMA SafeAlways == Spec => [](TypeOK /\ SafeInv)
BY InitTypes, TypesStep, HandStep, RangeStep, SafeStep, PTL DEF Spec

\* "Restarts do not abandon proofs": whatever crashes and whatever fails outside a
\* handover, a wallet that holds funds is on its relay and its key on file.
THEOREM FundsStayReachable == Spec => []FundsAreReachable
<1>1. SafeInv => FundsAreReachable
  BY DEF SafeInv, FundsAreReachable
<1>. QED
  BY <1>1, SafeAlways, PTL

\* "The worker continues with the persisted service Acorn": under the same condition
\* a command works on the wallet of the recovery file, which is on its relay.
THEOREM WorkStaysPersisted == Spec => []WorkIsPersisted
<1>1. SafeInv => WorkIsPersisted
  BY DEF SafeInv, HeldInv, Held, WorkIsPersisted, WorksOnPersistedAcorn, Locked, Working
<1>. QED
  BY <1>1, SafeAlways, PTL
=============================================================================
