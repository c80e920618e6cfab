------------------------------ MODULE WalletJobs ------------------------------
(***************************************************************************)
(* The background jobs of one wallet (an Acorn, an npub): finalization of  *)
(* incoming funds, Clear acceptance, Clear receive, outgoing payment and   *)
(* deposit finalization, started by the request handlers of several web    *)
(* processes and run in their thread pools, and the monitor of one Clear   *)
(* payment request, which accepts the transfer that answers it.            *)
(*                                                                         *)
(* Each kind has one row per wallet with a status, the token of the job    *)
(* that claimed it and the process that runs it.  A handler reads the rows *)
(* of the other kinds, each in a transaction of its own, and then claims   *)
(* its own row.  A process shows that it is alive by its heartbeat row.    *)
(***************************************************************************)
EXTENDS Integers, Sequences, FiniteSets

CONSTANTS
  Kinds,         \* the kinds of job requested
  Processes,     \* worker ids: lifetimes of web processes
  MaxUp,         \* Uvicorn workers running at once
  Threads,       \* settings.background_job_threads
  MaxJobs,       \* bound: jobs and monitors started
  Monitors,      \* is a Clear request monitored?
  LegacyKinds,   \* rows left RUNNING by a version that named no process
  MaxCrashes,    \* bound: processes killed
  MaxStalls,     \* bound: heartbeats that go stale while their process lives
  MaxDbFaults,   \* bound: statements that raise
  NoProcess

AllKinds == {"finalization", "acceptance", "receive", "outgoing", "deposit"}

ASSUME WalletAssumption ==
  /\ Kinds \subseteq AllKinds /\ LegacyKinds \subseteq AllKinds
  /\ NoProcess \notin Processes /\ Monitors \in BOOLEAN
  /\ MaxUp \in Nat /\ Threads \in Nat \ {0} /\ MaxJobs \in Nat
  /\ MaxCrashes \in Nat /\ MaxStalls \in Nat /\ MaxDbFaults \in Nat

VARIABLES
  status, token, owner, leaseOver,  \* the rows, one per kind
  proc, beat,                       \* processes and their heartbeat rows
  asking, checked,                  \* the handler a process is in, its checks done
  what, home, pc,                   \* jobs: what they do, where, how far they are
  accepted,                         \* transfers accepted for the monitored request
  faults,
  late    \* observed only: jobs claimed after a row their handler had checked became RUNNING

rowVars  == <<status, token, owner, leaseOver>>
procVars == <<proc, beat, asking, checked>>
jobVars  == <<what, home, pc, late>>
vars     == <<rowVars, procVars, jobVars, accepted, faults>>

Jobs   == 1..MaxJobs
NoJob  == 0
NoKind == "none"

Status == {"ABSENT", "RUNNING", "COMPLETE", "PARTIAL", "PENDING", "FAILED", "INTERRUPTED"}
Active == {"loading", "watching", "deciding", "claiming", "rechecking", "working", "credited"}

Init ==
  /\ status = [k \in AllKinds |-> IF k \in LegacyKinds THEN "RUNNING" ELSE "ABSENT"]
  /\ token = [k \in AllKinds |-> NoJob]
  /\ owner = [k \in AllKinds |-> NoProcess]
  /\ leaseOver = {}
  /\ proc = [p \in Processes |-> "new"]
  /\ beat = [p \in Processes |-> "none"]
  /\ asking = [p \in Processes |-> NoKind]
  /\ checked = [p \in Processes |-> 0]
  /\ what = [j \in Jobs |-> NoKind]
  /\ home = [j \in Jobs |-> NoProcess]
  /\ pc = [j \in Jobs |-> "none"] /\ late = {}
  /\ accepted = 0
  /\ faults = [crash |-> 0, stall |-> 0, db |-> 0]

-----------------------------------------------------------------------------
(* Rows and leases.                                                        *)

Alive(p) == proc[p] \in {"up", "stopping"}

\* The row whose lease job j works under.
Row(j) == IF what[j] = "monitor" THEN "acceptance" ELSE what[j]

Holds(j) == token[Row(j)] = j

\* Mutant: liveness of the owner is not consulted.
OrphanedByLease(k) == k \in leaseOver

\* worker_is_live on the owner; the lease counts only for rows without an owner.
Orphaned(k) ==
  IF owner[k] = NoProcess THEN k \in leaseOver ELSE beat[owner[k]] # "fresh"

\* What get_*_job shows as RUNNING.
Running(k) == status[k] = "RUNNING" /\ ~Orphaned(k)

\* Mutant: the claim's WHERE clause is dropped.
AnyRowIsFree(k) == k \in AllKinds

\* The WHERE clause of the claims, or no row yet.
RowIsFree(k) == ~Running(k)

\* Mutant: the claim is made without worker_id.
LeaseAnonymously(k, j, p) ==
  /\ status' = [status EXCEPT ![k] = "RUNNING"]
  /\ token' = [token EXCEPT ![k] = j]
  /\ owner' = [owner EXCEPT ![k] = NoProcess]
  /\ leaseOver' = leaseOver \ {k}

\* claim_*_job: the row is inserted, or overwritten where RowIsFree.
Lease(k, j, p) ==
  /\ status' = [status EXCEPT ![k] = "RUNNING"]
  /\ token' = [token EXCEPT ![k] = j]
  /\ owner' = [owner EXCEPT ![k] = p]
  /\ leaseOver' = leaseOver \ {k}

\* Mutant: the update does not compare the owner token.
ReportedBlindly(j, result) == [status EXCEPT ![Row(j)] = result]

\* update_*_job: UPDATE ... WHERE owner_token = the job's token.
Reported(j, result) ==
  IF Holds(j) THEN [status EXCEPT ![Row(j)] = result] ELSE status

\* The lease of a row without an owner runs out.
LeaseExpires(k) ==
  /\ status[k] = "RUNNING" /\ owner[k] = NoProcess /\ k \notin leaseOver
  /\ leaseOver' = leaseOver \cup {k}
  /\ UNCHANGED <<status, token, owner, procVars, jobVars, accepted, faults>>

-----------------------------------------------------------------------------
(* Request handlers.  A handler does not await between its checks and its  *)
(* claim, so a process is in one at a time; other processes are not held.  *)

\* Mutant: incoming-funds finalization does not look at Clear acceptance.
ChecksOne(k) ==
  CASE k = "outgoing"     -> <<"receive", "finalization", "acceptance">>
    [] k = "acceptance"   -> <<"receive", "outgoing", "finalization">>
    [] k = "receive"      -> <<"outgoing", "acceptance", "finalization">>
    [] k = "finalization" -> <<"outgoing", "receive">>
    [] OTHER              -> <<>>

\* The kinds each handler checks, in its order.
Checks(k) ==
  CASE k = "outgoing"     -> <<"receive", "finalization", "acceptance">>
    [] k = "acceptance"   -> <<"receive", "outgoing", "finalization">>
    [] k = "receive"      -> <<"outgoing", "acceptance", "finalization">>
    [] k = "finalization" -> <<"outgoing", "acceptance", "receive">>
    [] OTHER              -> <<>>

Request(p, k) ==
  /\ proc[p] = "up" /\ asking[p] = NoKind
  /\ asking' = [asking EXCEPT ![p] = k]
  /\ UNCHANGED <<rowVars, proc, beat, checked, jobVars, accepted, faults>>

\* The handler is done: it redirects to a status page.
Leave(p) ==
  /\ asking' = [asking EXCEPT ![p] = NoKind]
  /\ checked' = [checked EXCEPT ![p] = 0]

Check(p) ==
  LET order == Checks(asking[p]) IN
  /\ asking[p] # NoKind /\ checked[p] < Len(order)
  /\ \/ Running(order[checked[p] + 1]) /\ Leave(p)
     \/ /\ ~Running(order[checked[p] + 1])
        /\ checked' = [checked EXCEPT ![p] = @ + 1] /\ UNCHANGED asking
  /\ UNCHANGED <<rowVars, proc, beat, jobVars, accepted, faults>>

\* Job j is submitted to the pool of process p.
Submit(j, task, p) ==
  /\ pc[j] = "none" /\ \A i \in Jobs : i < j => pc[i] # "none"
  /\ what' = [what EXCEPT ![j] = task]
  /\ home' = [home EXCEPT ![j] = p]
  /\ pc' = [pc EXCEPT ![j] = "queued"]

\* A check that the handler of kind k made no longer holds.
Outdated(k) == \E n \in 1..Len(Checks(k)) : Running(Checks(k)[n])

Claim(p) ==
  LET k == asking[p] IN
  /\ k # NoKind /\ checked[p] = Len(Checks(k))
  /\ Leave(p)
  /\ \/ /\ RowIsFree(k)
        /\ \E j \in Jobs : /\ Submit(j, k, p) /\ Lease(k, j, p)
                           /\ late' = IF Outdated(k) THEN late \cup {j} ELSE late
     \/ ~RowIsFree(k) /\ UNCHANGED <<rowVars, jobVars>>
  /\ UNCHANGED <<proc, beat, accepted, faults>>

\* start_clear_request_monitor: one per process.
StartMonitor(p) ==
  /\ Monitors /\ proc[p] = "up" /\ asking[p] = NoKind
  /\ \A i \in Jobs : what[i] = "monitor" /\ home[i] = p => pc[i] = "ended"
  /\ \E j \in Jobs : Submit(j, "monitor", p)
  /\ UNCHANGED <<rowVars, procVars, late, accepted, faults>>

-----------------------------------------------------------------------------
(* Jobs in their threads.                                                  *)

At(j, from, to) == pc[j] = from /\ pc' = [pc EXCEPT ![j] = to]

\* The job ends, or goes on watching, with a last update of its row.
Conclude(j, to, result) ==
  /\ pc' = [pc EXCEPT ![j] = to]
  /\ status' = Reported(j, result)
  /\ UNCHANGED <<token, owner, leaseOver, procVars, what, home, late, accepted>>

\* A thread of the pool takes the oldest queued job.
Begin(j) ==
  /\ At(j, "queued", IF what[j] = "acceptance" /\ ~Holds(j) THEN "ended" ELSE "loading")
  /\ \A i \in Jobs : pc[i] = "queued" /\ home[i] = home[j] => j <= i
  /\ Cardinality({i \in Jobs : home[i] = home[j] /\ pc[i] \in Active}) < Threads
  /\ UNCHANGED <<rowVars, procVars, what, home, late, accepted, faults>>

\* acorn.load_data failed or timed out; a monitor just ends.
LoadFails(j) ==
  /\ pc[j] = "loading"
  /\ \/ what[j] # "monitor" /\ Conclude(j, "ended", "FAILED")
     \/ /\ what[j] = "monitor" /\ At(j, "loading", "ended")
        /\ UNCHANGED <<rowVars, procVars, what, home, late, accepted>>
  /\ UNCHANGED faults

\* The phase update before the work: only acceptance and receive heed its result.
Enter(j) ==
  /\ At(j, "loading", CASE what[j] = "monitor" -> "watching"
                        [] what[j] \in {"acceptance", "receive"} /\ ~Holds(j) -> "ended"
                        [] OTHER -> "working")
  /\ UNCHANGED <<rowVars, procVars, what, home, late, accepted, faults>>

\* acorn.accept_pending_clear_receipt: a job may accept a transfer that answers
\* the monitored request, the monitor's acceptance does.
Accept(j) ==
  /\ Row(j) = "acceptance" /\ At(j, "working", "credited")
  /\ \E more \in IF what[j] = "monitor" THEN {1} ELSE {0, 1} :
       accepted' = IF accepted + more < 2 THEN accepted + more ELSE 2
  /\ UNCHANGED <<rowVars, procVars, what, home, late, faults>>

\* run_*_job: the work ends with one of its results.
Ends(j, task, results) ==
  /\ pc[j] = "working" /\ what[j] = task
  /\ \E result \in results : Conclude(j, "ended", result)
  /\ UNCHANGED faults

\* Every transfer is staged and reconciled; some may stay pending.
FinishFinalization(j) == Ends(j, "finalization", {"COMPLETE", "PARTIAL", "FAILED"})

\* Transfers are stored, not accepted.
FinishReceive(j) == Ends(j, "receive", {"COMPLETE", "PARTIAL", "FAILED"})

\* A payment that fails, or whose outcome is unknown, is filed for review.
FinishOutgoing(j) == Ends(j, "outgoing", {"COMPLETE", "FAILED"})

\* Complete or unknown to the Acorn; unpaid at the deadline; failed.
FinishDeposit(j) == Ends(j, "deposit", {"COMPLETE", "PENDING", "FAILED"})

\* Accepting may fail before the mint swapped the proofs or after it did.
FinishAcceptance(j) ==
  /\ pc[j] \in {"working", "credited"} /\ Row(j) = "acceptance"
  /\ \E result \in {"COMPLETE", "FAILED"} :
       /\ result = "COMPLETE" => pc[j] = "credited"
       /\ Conclude(j, "ended", result)
  /\ UNCHANGED faults

\* Jobs that renew their lease, and those that a failing renewal cancels.
Renews(j) == \/ pc[j] \in {"working", "credited"}
             \/ pc[j] = "loading" /\ what[j] \in {"acceptance", "receive"}
SelfCancelling == {"finalization", "acceptance", "receive", "monitor"}

\* The heartbeat task finds the lease lost: the job is cancelled, and its last
\* update finds no row.
LeaseLost(j) ==
  /\ Renews(j) /\ what[j] \in SelfCancelling /\ ~Holds(j)
  /\ Conclude(j, "ended", "INTERRUPTED")
  /\ UNCHANGED faults

\* The renewal itself raises.
RenewalRaises(j) ==
  /\ Renews(j) /\ what[j] \in SelfCancelling /\ faults.db < MaxDbFaults
  /\ faults' = [faults EXCEPT !.db = @ + 1]
  /\ Conclude(j, "ended", "INTERRUPTED")

\* The database is away while a job reports, in its handlers too; the loop of a
\* monitor logs that and goes on.
Unreported(j) ==
  /\ faults.db < MaxDbFaults /\ faults' = [faults EXCEPT !.db = @ + 1]
  /\ \/ pc[j] \in {"working", "credited", "rechecking"}
     \/ pc[j] = "loading" /\ what[j] # "monitor"
  /\ pc' = [pc EXCEPT ![j] = IF what[j] = "monitor" THEN "watching" ELSE "ended"]
  /\ UNCHANGED <<rowVars, procVars, what, home, late, accepted>>

-----------------------------------------------------------------------------
(* The monitor of a Clear request: one turn of its loop.                   *)

\* The receipts are read; a transfer that answers the request may be found.
Watch(j) ==
  /\ At(j, "watching", IF accepted > 0 THEN "ended" ELSE "deciding")
  /\ UNCHANGED <<rowVars, procVars, what, home, late, accepted, faults>>

\* Of the other kinds, the monitor checks the outgoing payment only.
MonitorChecks(j) ==
  /\ At(j, "deciding", IF Running("outgoing") THEN "watching" ELSE "claiming")
  /\ UNCHANGED <<rowVars, procVars, what, home, late, accepted, faults>>

MonitorClaims(j) ==
  /\ \/ ~RowIsFree("acceptance") /\ At(j, "claiming", "watching") /\ UNCHANGED rowVars
     \/ /\ RowIsFree("acceptance") /\ At(j, "claiming", "rechecking")
        /\ Lease("acceptance", j, home[j])
  /\ UNCHANGED <<procVars, what, home, late, accepted, faults>>

\* Mutant: the recheck under the lease is dropped.
NeverAccepted == accepted < 0

AlreadyAccepted == accepted > 0

\* "Recheck under the existing per-Acorn acceptance lease."
Recheck(j) ==
  /\ pc[j] = "rechecking"
  /\ \/ AlreadyAccepted /\ Conclude(j, "ended", "INTERRUPTED")
     \/ Conclude(j, "watching", "FAILED")
     \/ /\ ~AlreadyAccepted /\ At(j, "rechecking", IF Holds(j) THEN "working" ELSE "ended")
        /\ UNCHANGED <<rowVars, procVars, what, home, late, accepted>>
  /\ UNCHANGED faults

MonitorDeadline(j) ==
  /\ At(j, "watching", "ended")
  /\ UNCHANGED <<rowVars, procVars, what, home, late, accepted, faults>>

-----------------------------------------------------------------------------
(* Processes.                                                              *)

\* lifespan: a new worker id and its first heartbeat.
StartProcess(p) ==
  /\ proc[p] = "new" /\ Cardinality({q \in Processes : Alive(q)}) < MaxUp
  /\ proc' = [proc EXCEPT ![p] = "up"]
  /\ beat' = [beat EXCEPT ![p] = "fresh"]
  /\ UNCHANGED <<rowVars, asking, checked, jobVars, accepted, faults>>

\* executor.shutdown(cancel_futures=True): queued jobs are dropped, running ones
\* are waited for, and no row is touched.
Stop(p) ==
  /\ proc[p] = "up" /\ asking[p] = NoKind
  /\ proc' = [proc EXCEPT ![p] = "stopping"]
  /\ pc' = [j \in Jobs |-> IF home[j] = p /\ pc[j] = "queued" THEN "ended" ELSE pc[j]]
  /\ UNCHANGED <<rowVars, beat, asking, checked, what, home, late, accepted, faults>>

\* Mutant: shutdown(wait=False).
NoWait(p) == p \in Processes

\* shutdown(wait=True) has returned.
PoolIsIdle(p) == \A j \in Jobs : home[j] = p => pc[j] \notin Active

\* stop_worker_heartbeat removes the heartbeat row, unless that statement raises.
Exit(p) ==
  /\ proc[p] = "stopping" /\ PoolIsIdle(p)
  /\ proc' = [proc EXCEPT ![p] = "gone"]
  /\ \/ beat' = [beat EXCEPT ![p] = "none"] /\ UNCHANGED faults
     \/ /\ faults.db < MaxDbFaults /\ faults' = [faults EXCEPT !.db = @ + 1]
        /\ UNCHANGED beat
  /\ UNCHANGED <<rowVars, asking, checked, jobVars, accepted>>

Crash(p) ==
  /\ Alive(p) /\ faults.crash < MaxCrashes
  /\ faults' = [faults EXCEPT !.crash = @ + 1]
  /\ proc' = [proc EXCEPT ![p] = "dead"]
  /\ Leave(p)
  /\ pc' = [j \in Jobs |-> IF home[j] = p THEN "ended" ELSE pc[j]]
  /\ UNCHANGED <<rowVars, beat, what, home, late, accepted>>

\* No heartbeat for WORKER_STALE_SECONDS: the process is not there any more, or
\* its heartbeat thread could not write for as long.
GoesStale(p) ==
  /\ beat[p] = "fresh" /\ beat' = [beat EXCEPT ![p] = "stale"]
  /\ \/ proc[p] \in {"gone", "dead"} /\ UNCHANGED faults
     \/ /\ Alive(p) /\ faults.stall < MaxStalls
        /\ faults' = [faults EXCEPT !.stall = @ + 1]
  /\ UNCHANGED <<rowVars, proc, asking, checked, jobVars, accepted>>

Rejoins(p) ==
  /\ Alive(p) /\ beat[p] = "stale" /\ beat' = [beat EXCEPT ![p] = "fresh"]
  /\ UNCHANGED <<rowVars, proc, asking, checked, jobVars, accepted, faults>>

-----------------------------------------------------------------------------
Handler(p) == (\E k \in Kinds : Request(p, k)) \/ Check(p) \/ Claim(p) \/ StartMonitor(p)

Thread(j) ==
  \/ Begin(j) \/ LoadFails(j) \/ Enter(j) \/ Accept(j) \/ FinishAcceptance(j)
  \/ FinishFinalization(j) \/ FinishReceive(j) \/ FinishOutgoing(j) \/ FinishDeposit(j)
  \/ Watch(j) \/ MonitorChecks(j) \/ MonitorClaims(j) \/ Recheck(j)

Lifetime(p) ==
  StartProcess(p) \/ Stop(p) \/ Exit(p) \/ Crash(p) \/ GoesStale(p) \/ Rejoins(p)

Next ==
  \/ \E p \in Processes : Handler(p) \/ Lifetime(p)
  \/ \E j \in Jobs : \/ Thread(j) \/ LeaseLost(j) \/ RenewalRaises(j) \/ Unreported(j)
                     \/ MonitorDeadline(j)
  \/ \E k \in AllKinds : LeaseExpires(k)

Spec == Init /\ [][Next]_vars

-----------------------------------------------------------------------------
\* A leased row names the process its job runs in.
RowTypes ==
  /\ status \in [AllKinds -> Status] /\ token \in [AllKinds -> Jobs \cup {NoJob}]
  /\ owner \in [AllKinds -> Processes \cup {NoProcess}] /\ leaseOver \in SUBSET AllKinds
  /\ \A k \in AllKinds : token[k] # NoJob => owner[k] = home[token[k]]

ProcessTypes ==
  /\ proc \in [Processes -> {"new", "up", "stopping", "gone", "dead"}]
  /\ beat \in [Processes -> {"none", "fresh", "stale"}]
  /\ asking \in [Processes -> AllKinds \cup {NoKind}] /\ checked \in [Processes -> 0..3]

JobTypes ==
  /\ what \in [Jobs -> AllKinds \cup {"monitor", NoKind}]
  /\ home \in [Jobs -> Processes \cup {NoProcess}]
  /\ pc \in [Jobs -> Active \cup {"none", "queued", "ended"}]
  /\ \A j \in Jobs : pc[j] # "none" <=> home[j] \in Processes
  /\ \A j \in Jobs : pc[j] # "none" <=> what[j] # NoKind

TypeOK ==
  /\ RowTypes /\ ProcessTypes /\ JobTypes
  /\ accepted \in 0..2 /\ late \in SUBSET Jobs /\ faults \in [crash : Nat, stall : Nat, db : Nat]

-----------------------------------------------------------------------------
(* Correctness.                                                            *)

Mutating(j) == pc[j] \in {"working", "credited"}
Exclusive == AllKinds \ {"deposit"}

\* Clear acceptance, Clear receive, finalization and outgoing payment "refuse to
\* start while one of the other[s] is running": no two jobs of those kinds change
\* the proofs of one wallet at the same time.
NoCompetingMutations ==
  \A i, j \in Jobs : i # j /\ Mutating(i) /\ Mutating(j)
    => ~({Row(i), Row(j)} \subseteq Exclusive)

\* No heartbeat of a living process has gone stale.
Fresh == faults.stall = 0

\* What the checks and claims of the handlers do achieve, whatever the number of
\* processes: two jobs they started compete only if one of them was claimed in the
\* window between its handler's check and its claim in which the other's row became
\* RUNNING; no shutdown, crash, restart or failing statement opens another one.
OnlyLateClaimsCompete ==
  Fresh => \A i, j \in Jobs :
    i # j /\ Mutating(i) /\ Mutating(j) /\ {what[i], what[j]} \subseteq Exclusive
      => i \in late \/ j \in late

\* "The lease prevents two Uvicorn workers or browser tabs from starting competing
\* proof mutations": as long as heartbeats are fresh, two jobs never work under
\* the same row.
OneMutationPerLease ==
  Fresh => \A i, j \in Jobs : i # j /\ Mutating(i) /\ Mutating(j) => Row(i) # Row(j)

\* Clear acceptance and finalization do not run together, however started.
AcceptanceIsExclusive ==
  \A i, j \in Jobs :
    Mutating(i) /\ Mutating(j) /\ Row(i) = "acceptance" => Row(j) # "finalization"

\* A job that works is shown as RUNNING to every process, across shutdowns,
\* crashes of other processes and failing statements, until a heartbeat stalls.
WorkIsVisible == Fresh => \A j \in Jobs : Mutating(j) => Holds(j) /\ Running(Row(j))

\* A row shows a result only when the job that holds it is through: no report of
\* a job that lost its lease ends the job that took it over.
ResultIsOwn ==
  \A k \in AllKinds :
    token[k] # NoJob /\ status[k] # "RUNNING" =>
      pc[token[k]] \in {"ended", "watching", "deciding", "claiming"}

\* "Another monitor may have just accepted this request": a monitor accepts a
\* transfer for its request only if none was accepted before, while heartbeats are
\* fresh.
MonitorAcceptsFirst ==
  [][\A j \in Jobs : Fresh /\ what[j] = "monitor" /\ pc[j] = "working" /\ pc'[j] = "credited"
       => accepted = 0]_vars

-----------------------------------------------------------------------------
(* Liveness.  Threads are scheduled, wallet operations end (each has a     *)
(* time-out, here or in the Acorn library), the monitor's deadline passes  *)
(* at whichever turn it falls, a shutdown goes on when the pool is idle,   *)
(* and the heartbeat of a process that is not there any more goes stale.   *)
Fairness ==
  /\ \A j \in Jobs : WF_vars(Thread(j)) /\ SF_vars(MonitorDeadline(j))
  /\ \A p \in Processes : WF_vars(Exit(p)) /\ WF_vars(GoesStale(p) /\ ~Alive(p))
  /\ \A k \in AllKinds : WF_vars(LeaseExpires(k))

FairSpec == Spec /\ Fairness

\* A wallet is not blocked for ever: what is shown as RUNNING is reported or
\* recovered, whether its process works, stops or dies.
RunningIsResolved == \A k \in AllKinds : Running(k) ~> ~Running(k)
=============================================================================
