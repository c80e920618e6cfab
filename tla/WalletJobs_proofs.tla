-------------------------- MODULE WalletJobs_proofs --------------------------
(***************************************************************************)
(* Proofs about WalletJobs, for any number of processes, threads, jobs,    *)
(* crashes and failing statements.                                         *)
(***************************************************************************)
EXTENDS WalletJobs, FiniteSetTheorems, TLAPS

\* A row's token is a job of the row's kind that was submitted.
TokenInv ==
  \A k \in AllKinds : token[k] # NoJob => Row(token[k]) = k /\ pc[token[k]] # "none"

\* Only monitors are in the turns of the monitor's loop.
MonitorInv ==
  \A j \in Jobs : pc[j] \in {"watching", "deciding", "claiming", "rechecking"}
                    => what[j] = "monitor"

JobInv == JobTypes /\ TokenInv /\ MonitorInv

OtherTypes == accepted \in 0..2 /\ faults \in [crash : Nat, stall : Nat, db : Nat]

TypeInv == RowTypes /\ ProcessTypes /\ JobInv /\ OtherTypes

-----------------------------------------------------------------------------
(* Steps of one job.                                                       *)

\* A job that moves on without touching its row keeps rows and jobs well typed.
LEMMA MoveTypes ==
  ASSUME TypeInv, NEW j \in Jobs, NEW to \in Active \cup {"ended"}, pc[j] # "none",
         to \in {"watching", "deciding", "claiming", "rechecking"} => what[j] = "monitor",
         pc' = [pc EXCEPT ![j] = to], UNCHANGED <<rowVars, procVars, what, home>>
  PROVE  RowTypes' /\ ProcessTypes' /\ JobInv'
<1>1. RowTypes'
  BY DEF TypeInv, RowTypes, rowVars
<1>2. ProcessTypes'
  BY DEF TypeInv, ProcessTypes, procVars
<1>3. JobTypes'
  BY DEF TypeInv, JobInv, JobTypes, Active
<1>4. TokenInv'
  BY DEF TypeInv, RowTypes, JobInv, JobTypes, TokenInv, Row, rowVars, Active
<1>5. MonitorInv'
  BY DEF TypeInv, JobInv, JobTypes, MonitorInv
<1>. QED
  BY <1>1, <1>2, <1>3, <1>4, <1>5 DEF JobInv

\* A report changes at most the status of a row.
LEMMA ConcludeTypes ==
  ASSUME TypeInv, NEW j \in Jobs, NEW to \in Active \cup {"ended"}, NEW result \in Status,
         pc[j] # "none", to \in {"watching", "deciding", "claiming", "rechecking"} => what[j] = "monitor",
         Conclude(j, to, result)
  PROVE  RowTypes' /\ ProcessTypes' /\ JobInv' /\ accepted' = accepted
<1>1. RowTypes'
  BY DEF TypeInv, RowTypes, Conclude, Reported
<1>2. ProcessTypes'
  BY DEF TypeInv, ProcessTypes, procVars, Conclude
<1>3. JobTypes'
  BY DEF TypeInv, JobInv, JobTypes, Active, Conclude
<1>4. TokenInv'
  BY DEF TypeInv, RowTypes, JobInv, JobTypes, TokenInv, Row, Conclude, Active
<1>5. MonitorInv'
  BY DEF TypeInv, JobInv, JobTypes, MonitorInv, Conclude
<1>. QED
  BY <1>1, <1>2, <1>3, <1>4, <1>5 DEF JobInv, Conclude

\* Submitting a job keeps rows that are not its own well typed.
LEMMA SubmitTypes ==
  ASSUME TypeInv, NEW j \in Jobs, NEW task \in AllKinds \cup {"monitor"},
         NEW p \in Processes, Submit(j, task, p)
  PROVE  JobTypes' /\ MonitorInv' /\ \A k \in AllKinds : token[k] # j
<1>1. JobTypes'
  BY DEF TypeInv, JobInv, JobTypes, Submit, Active, AllKinds, NoKind
<1>2. MonitorInv'
  BY DEF TypeInv, JobInv, JobTypes, MonitorInv, Submit
<1>3. \A k \in AllKinds : token[k] # j
  BY DEF TypeInv, JobInv, TokenInv, Submit, Jobs, NoJob
<1>. QED
  BY <1>1, <1>2, <1>3

\* Every step of a job keeps the types.
LEMMA ThreadTypes ==
  ASSUME TypeInv, NEW j \in Jobs,
         \/ Thread(j) \/ LeaseLost(j) \/ RenewalRaises(j) \/ Unreported(j)
         \/ MonitorDeadline(j)
  PROVE  TypeInv'
<1>. USE DEF At
<1>1. CASE Begin(j)
  BY <1>1, MoveTypes DEF Begin, TypeInv, OtherTypes, Active
<1>2. CASE LoadFails(j)
  BY <1>2, MoveTypes, ConcludeTypes DEF LoadFails, TypeInv, OtherTypes, Active, Status
<1>3. CASE Enter(j)
  BY <1>3, MoveTypes DEF Enter, TypeInv, OtherTypes, Active
<1>4. CASE Accept(j)
  <2>1. accepted' \in 0..2
    BY <1>4 DEF Accept, TypeInv, OtherTypes
  <2>. QED
    BY <1>4, <2>1, MoveTypes DEF Accept, TypeInv, OtherTypes, Active
<1>5. CASE FinishAcceptance(j)
  BY <1>5, ConcludeTypes DEF FinishAcceptance, TypeInv, OtherTypes, Active, Status
<1>6. CASE FinishFinalization(j) \/ FinishReceive(j) \/ FinishOutgoing(j) \/ FinishDeposit(j)
  BY <1>6, ConcludeTypes DEF FinishFinalization, FinishReceive, FinishOutgoing, FinishDeposit,
     Ends, TypeInv, OtherTypes, Active, Status
<1>7. CASE Watch(j)
  BY <1>7, MoveTypes DEF Watch, TypeInv, OtherTypes, Active, JobInv, MonitorInv
<1>8. CASE MonitorChecks(j)
  BY <1>8, MoveTypes DEF MonitorChecks, TypeInv, OtherTypes, Active, JobInv, MonitorInv
<1>9. CASE MonitorClaims(j)
  <2>1. CASE ~RowIsFree("acceptance")
    BY <1>9, <2>1, MoveTypes DEF MonitorClaims, TypeInv, OtherTypes, Active, JobInv, MonitorInv, rowVars
  <2>2. CASE RowIsFree("acceptance")
    <3>. DEFINE a == "acceptance"
    <3>1. /\ what[j] = "monitor" /\ home[j] \in Processes /\ a \in AllKinds
          /\ pc[j] = "claiming" /\ pc' = [pc EXCEPT ![j] = "rechecking"]
          /\ Lease(a, j, home[j]) /\ UNCHANGED <<procVars, what, home, accepted, faults>>
      BY <1>9, <2>2 DEF MonitorClaims, TypeInv, JobInv, MonitorInv, JobTypes, AllKinds
    <3>2. RowTypes'
      BY <3>1 DEF TypeInv, RowTypes, Lease, Status
    <3>3. ProcessTypes' /\ OtherTypes'
      BY <3>1 DEF TypeInv, ProcessTypes, procVars, OtherTypes
    <3>4. JobTypes'
      BY <3>1 DEF TypeInv, JobInv, JobTypes, Active
    <3>5. TokenInv'
      BY <3>1 DEF TypeInv, RowTypes, JobInv, JobTypes, TokenInv, Row, Lease, Active
    <3>6. MonitorInv'
      BY <3>1 DEF TypeInv, JobInv, JobTypes, MonitorInv
    <3>. QED
      BY <3>2, <3>3, <3>4, <3>5, <3>6 DEF TypeInv, JobInv
  <2>. QED
    BY <2>1, <2>2
<1>10. CASE Recheck(j)
  BY <1>10, MoveTypes, ConcludeTypes
     DEF Recheck, TypeInv, OtherTypes, Active, Status, JobInv, MonitorInv
<1>11. CASE MonitorDeadline(j)
  BY <1>11, MoveTypes DEF MonitorDeadline, TypeInv, OtherTypes, Active
<1>12. CASE LeaseLost(j)
  BY <1>12, ConcludeTypes DEF LeaseLost, Renews, TypeInv, OtherTypes, Active, Status
<1>13. CASE RenewalRaises(j)
  <2>1. faults' \in [crash : Nat, stall : Nat, db : Nat]
    BY <1>13 DEF RenewalRaises, TypeInv, OtherTypes
  <2>. QED
    BY <1>13, <2>1, ConcludeTypes DEF RenewalRaises, Renews, TypeInv, OtherTypes, Active, Status
<1>14. CASE Unreported(j)
  <2>1. faults' \in [crash : Nat, stall : Nat, db : Nat]
    BY <1>14 DEF Unreported, TypeInv, OtherTypes
  <2>2. PICK to \in {"watching", "ended"} :
          pc' = [pc EXCEPT ![j] = to] /\ (to = "watching" => what[j] = "monitor")
    BY <1>14 DEF Unreported, TypeInv, JobInv, JobTypes
  <2>. QED
    BY <1>14, <2>1, <2>2, MoveTypes
       DEF Unreported, TypeInv, OtherTypes, Active, JobInv, MonitorInv
<1>. QED
  BY <1>1, <1>2, <1>3, <1>4, <1>5, <1>6, <1>7, <1>8, <1>9, <1>10, <1>11, <1>12, <1>13, <1>14
     DEF Thread

-----------------------------------------------------------------------------
(* Steps of handlers and processes.                                        *)

\* No handler checks more than three rows.
LEMMA ChecksBound ==
  ASSUME NEW k
  PROVE  Len(Checks(k)) \in 0..3
BY DEF Checks

\* Every step of a request handler keeps the types.
LEMMA HandlerTypes ==
  ASSUME TypeInv, NEW p \in Processes, Handler(p)
  PROVE  TypeInv'
<1>1. CASE \E k \in Kinds : Request(p, k)
  <2>1. ProcessTypes'
    BY <1>1, WalletAssumption DEF Request, TypeInv, ProcessTypes
  <2>2. RowTypes' /\ JobInv' /\ OtherTypes'
    BY <1>1 DEF Request, TypeInv, RowTypes, JobInv, JobTypes, TokenInv, MonitorInv, Row,
                OtherTypes, rowVars, jobVars
  <2>. QED
    BY <2>1, <2>2 DEF TypeInv
<1>2. CASE Check(p)
  <2>1. ProcessTypes'
    BY <1>2, ChecksBound DEF Check, Leave, TypeInv, ProcessTypes
  <2>2. RowTypes' /\ JobInv' /\ OtherTypes'
    BY <1>2 DEF Check, TypeInv, RowTypes, JobInv, JobTypes, TokenInv, MonitorInv, Row,
                OtherTypes, rowVars, jobVars
  <2>. QED
    BY <2>1, <2>2 DEF TypeInv
<1>3. CASE Claim(p)
  <2>. DEFINE k == asking[p]
  <2>1. ProcessTypes' /\ OtherTypes'
    BY <1>3 DEF Claim, Leave, TypeInv, ProcessTypes, OtherTypes
  <2>2. CASE UNCHANGED <<rowVars, jobVars>>
    <3>1. RowTypes' /\ JobInv'
      BY <2>2 DEF TypeInv, RowTypes, JobInv, JobTypes, TokenInv, MonitorInv, Row, rowVars, jobVars
    <3>. QED
      BY <2>1, <3>1 DEF TypeInv
  <2>3. CASE \E j \in Jobs : Submit(j, k, p) /\ Lease(k, j, p)
    <3>. PICK j \in Jobs : Submit(j, k, p) /\ Lease(k, j, p)
      BY <2>3
    <3>1. k \in AllKinds
      BY <1>3 DEF Claim, TypeInv, ProcessTypes
    <3>2. JobTypes' /\ MonitorInv' /\ \A kk \in AllKinds : token[kk] # j
      BY <3>1, SubmitTypes
    <3>3. RowTypes'
      BY <3>1, <3>2 DEF TypeInv, RowTypes, Lease, Submit, Status, JobInv, JobTypes
    <3>4. TokenInv'
      BY <3>1, <3>2 DEF TypeInv, RowTypes, Lease, Submit, JobInv, JobTypes, TokenInv, Row, AllKinds
    <3>. QED
      BY <2>1, <3>2, <3>3, <3>4 DEF TypeInv, JobInv
  <2>. QED
    BY <1>3, <2>2, <2>3 DEF Claim
<1>4. CASE StartMonitor(p)
  <2>. PICK j \in Jobs : Submit(j, "monitor", p)
    BY <1>4 DEF StartMonitor
  <2>1. JobTypes' /\ MonitorInv' /\ \A k \in AllKinds : token[k] # j
    BY SubmitTypes
  <2>2. RowTypes'
    BY <1>4, <2>1 DEF StartMonitor, TypeInv, RowTypes, Submit, JobInv, JobTypes, rowVars
  <2>3. TokenInv'
    BY <1>4, <2>1 DEF StartMonitor, TypeInv, RowTypes, Submit, JobInv, JobTypes, TokenInv, Row, rowVars
  <2>4. ProcessTypes' /\ OtherTypes'
    BY <1>4 DEF StartMonitor, TypeInv, ProcessTypes, OtherTypes, procVars
  <2>. QED
    BY <2>1, <2>2, <2>3, <2>4 DEF TypeInv, JobInv
<1>. QED
  BY <1>1, <1>2, <1>3, <1>4 DEF Handler

\* Jobs that end with their process keep rows and jobs well typed.
LEMMA EndTypes ==
  ASSUME TypeInv, NEW E \in SUBSET Jobs, \A j \in E : pc[j] # "none",
         pc' = [j \in Jobs |-> IF j \in E THEN "ended" ELSE pc[j]],
         UNCHANGED <<rowVars, what, home>>
  PROVE  RowTypes' /\ JobInv'
<1>1. RowTypes'
  BY DEF TypeInv, RowTypes, rowVars
<1>2. JobTypes' /\ MonitorInv'
  BY DEF TypeInv, JobInv, JobTypes, MonitorInv
<1>3. TokenInv'
  BY DEF TypeInv, RowTypes, JobInv, JobTypes, TokenInv, Row, rowVars
<1>. QED
  BY <1>1, <1>2, <1>3 DEF JobInv

\* Every step of a process's life, and the end of a lease, keeps the types.
LEMMA LifetimeTypes ==
  ASSUME TypeInv, \/ \E p \in Processes : Lifetime(p)
                  \/ \E k \in AllKinds : LeaseExpires(k)
  PROVE  TypeInv'
<1>1. ASSUME NEW p \in Processes, StartProcess(p) \/ Exit(p) \/ GoesStale(p) \/ Rejoins(p)
      PROVE  TypeInv'
  <2>1. ProcessTypes' /\ OtherTypes'
    BY <1>1 DEF StartProcess, Exit, GoesStale, Rejoins, TypeInv, ProcessTypes, OtherTypes
  <2>2. UNCHANGED <<rowVars, jobVars>>
    BY <1>1 DEF StartProcess, Exit, GoesStale, Rejoins
  <2>3. RowTypes' /\ JobInv'
    BY <2>2 DEF TypeInv, RowTypes, JobInv, JobTypes, TokenInv, MonitorInv, Row, rowVars, jobVars
  <2>. QED
    BY <2>1, <2>3 DEF TypeInv
<1>2. ASSUME NEW p \in Processes, Stop(p)
      PROVE  TypeInv'
  <2>. DEFINE E == {j \in Jobs : home[j] = p /\ pc[j] = "queued"}
  <2>1. RowTypes' /\ JobInv'
    <3>1. pc' = [j \in Jobs |-> IF j \in E THEN "ended" ELSE pc[j]]
      BY <1>2 DEF Stop
    <3>. QED
      BY <1>2, <3>1, EndTypes DEF Stop
  <2>2. ProcessTypes' /\ OtherTypes'
    BY <1>2 DEF Stop, TypeInv, ProcessTypes, OtherTypes
  <2>. QED
    BY <2>1, <2>2 DEF TypeInv
<1>3. ASSUME NEW p \in Processes, Crash(p)
      PROVE  TypeInv'
  <2>. DEFINE E == {j \in Jobs : home[j] = p}
  <2>1. RowTypes' /\ JobInv'
    <3>1. pc' = [j \in Jobs |-> IF j \in E THEN "ended" ELSE pc[j]]
      BY <1>3 DEF Crash
    <3>2. \A j \in E : pc[j] # "none"
      BY DEF TypeInv, JobInv, JobTypes
    <3>. QED
      BY <1>3, <3>1, <3>2, EndTypes DEF Crash
  <2>2. ProcessTypes' /\ OtherTypes'
    BY <1>3 DEF Crash, Leave, TypeInv, ProcessTypes, OtherTypes
  <2>. QED
    BY <2>1, <2>2 DEF TypeInv
<1>4. ASSUME NEW k \in AllKinds, LeaseExpires(k)
      PROVE  TypeInv'
  <2>1. RowTypes'
    BY <1>4 DEF LeaseExpires, TypeInv, RowTypes, jobVars
  <2>2. ProcessTypes' /\ JobInv' /\ OtherTypes'
    BY <1>4 DEF LeaseExpires, TypeInv, ProcessTypes, JobInv, JobTypes, TokenInv, MonitorInv, Row,
                OtherTypes, procVars, jobVars
  <2>. QED
    BY <2>1, <2>2 DEF TypeInv
<1>. QED
  BY <1>1, <1>2, <1>3, <1>4 DEF Lifetime

\* The initial states are well typed.
LEMMA InitTypes == Init => TypeInv
<1>. SUFFICES ASSUME Init PROVE TypeInv
  OBVIOUS
<1>1. RowTypes
  BY WalletAssumption DEF Init, RowTypes, Status
<1>2. ProcessTypes /\ OtherTypes
  BY DEF Init, ProcessTypes, OtherTypes
<1>3. JobInv
  BY WalletAssumption DEF Init, JobInv, JobTypes, TokenInv, MonitorInv, Active
<1>. QED
  BY <1>1, <1>2, <1>3 DEF TypeInv

\* Every step keeps the types.
LEMMA TypesStep ==
  ASSUME TypeInv, [Next]_vars
  PROVE  TypeInv'
<1>1. CASE UNCHANGED vars
  BY <1>1 DEF vars, rowVars, procVars, jobVars, TypeInv, RowTypes, ProcessTypes, JobInv, JobTypes,
     TokenInv, MonitorInv, Row, OtherTypes
<1>. QED
  BY <1>1, HandlerTypes, LifetimeTypes, ThreadTypes DEF Next

\* Late jobs are jobs: only a handler's claim adds one.
LateInv == late \in SUBSET Jobs

LEMMA LateStep ==
  /\ Init => LateInv
  /\ LateInv /\ [Next]_vars => LateInv'
<1>1. Init => LateInv
  BY DEF Init, LateInv
<1>2. ASSUME LateInv, [Next]_vars
      PROVE  LateInv'
  <2>1. ASSUME NEW p \in Processes, Handler(p)
        PROVE  LateInv'
    BY <1>2, <2>1 DEF Handler, Request, Check, Claim, StartMonitor, LateInv, jobVars
  <2>2. ASSUME NEW j \in Jobs,
               \/ Thread(j) \/ LeaseLost(j) \/ RenewalRaises(j) \/ Unreported(j)
               \/ MonitorDeadline(j)
        PROVE  late' = late
    BY <2>2 DEF Thread, Begin, LoadFails, Enter, Accept, FinishAcceptance, FinishFinalization,
       FinishReceive, FinishOutgoing, FinishDeposit, Ends, Watch, MonitorChecks, MonitorClaims,
       Recheck, LeaseLost, RenewalRaises, Unreported, MonitorDeadline, Conclude
  <2>3. ASSUME \/ \E p \in Processes : Lifetime(p)
               \/ \E k \in AllKinds : LeaseExpires(k)
               \/ UNCHANGED vars
        PROVE  late' = late
    BY <2>3 DEF Lifetime, StartProcess, Stop, Exit, Crash, GoesStale, Rejoins, LeaseExpires,
       vars, jobVars
  <2>. QED
    BY <1>2, <2>1, <2>2, <2>3 DEF Next, LateInv
<1>. QED
  BY <1>1, <1>2

\* Every reachable state of rows, processes and jobs is well typed, and every
\* leased row names the process of its job.
THEOREM WalletTypeCorrect == Spec => []TypeOK
<1>1. TypeInv /\ LateInv => TypeOK
  BY DEF TypeInv, TypeOK, JobInv, OtherTypes, LateInv
<1>. QED
  BY <1>1, InitTypes, TypesStep, LateStep, PTL DEF Spec

-----------------------------------------------------------------------------
(* Who may end a row.                                                      *)

\* A report leaves every row but the reporter's own as it is.
LEMMA ReportIsOwn ==
  ASSUME TypeInv, ResultIsOwn, NEW j \in Jobs, NEW to, NEW result, pc[j] # "none",
         to \in {"ended", "watching"}, Conclude(j, to, result)
  PROVE  ResultIsOwn'
<1>. SUFFICES ASSUME NEW k \in AllKinds, token[k] # NoJob, status'[k] # "RUNNING"
              PROVE  pc'[token[k]] \in {"ended", "watching", "deciding", "claiming"}
  BY DEF ResultIsOwn, Conclude
<1>1. token[k] \in Jobs /\ Row(token[k]) = k
  BY DEF TypeInv, RowTypes, JobInv, TokenInv
<1>2. CASE token[k] = j
  BY <1>1, <1>2 DEF Conclude, TypeInv, JobInv, JobTypes
<1>3. CASE token[k] # j
  <2>1. status'[k] = status[k]
    BY <1>3 DEF Conclude, Reported, Holds, TypeInv, RowTypes
  <2>. QED
    BY <1>1, <1>3, <2>1 DEF Conclude, ResultIsOwn, TypeInv, JobInv, JobTypes
<1>. QED
  BY <1>2, <1>3

\* A job that moves without touching the rows keeps ResultIsOwn, if it goes on
\* from where it was, or ends.
LEMMA MoveIsOwn ==
  ASSUME TypeInv, ResultIsOwn, NEW j \in Jobs, NEW to, pc' = [pc EXCEPT ![j] = to],
         UNCHANGED rowVars,
         \/ to \in {"ended", "watching", "deciding", "claiming"}
         \/ pc[j] \notin {"ended", "watching", "deciding", "claiming"}
  PROVE  ResultIsOwn'
BY DEF TypeInv, RowTypes, JobInv, JobTypes, ResultIsOwn, rowVars

\* Taking a lease makes the row RUNNING, and frees no other row of its job.
LEMMA LeaseIsOwn ==
  ASSUME TypeInv, ResultIsOwn, NEW k \in AllKinds, NEW j \in Jobs, NEW p, NEW to,
         Lease(k, j, p), pc' = [pc EXCEPT ![j] = to],
         \A kk \in AllKinds : token[kk] = j => kk = k
  PROVE  ResultIsOwn'
BY DEF TypeInv, RowTypes, JobInv, JobTypes, ResultIsOwn, Lease

\* Every step leaves a finished row to a job that is through with it.
LEMMA OwnStep ==
  ASSUME TypeInv, ResultIsOwn, [Next]_vars
  PROVE  ResultIsOwn'
<1>. USE DEF At
<1>1. ASSUME NEW j \in Jobs, Thread(j) \/ LeaseLost(j) \/ RenewalRaises(j) \/ Unreported(j)
                              \/ MonitorDeadline(j)
      PROVE  ResultIsOwn'
  <2>1. CASE Begin(j) \/ Enter(j) \/ Accept(j)
    BY <2>1, MoveIsOwn DEF Begin, Enter, Accept
  <2>2. CASE LoadFails(j)
    BY <2>2, MoveIsOwn, ReportIsOwn DEF LoadFails
  <2>3. CASE FinishAcceptance(j) \/ FinishFinalization(j) \/ FinishReceive(j)
               \/ FinishOutgoing(j) \/ FinishDeposit(j)
    BY <2>3, ReportIsOwn DEF FinishAcceptance, FinishFinalization, FinishReceive, FinishOutgoing,
       FinishDeposit, Ends
  <2>4. CASE Watch(j) \/ MonitorChecks(j) \/ MonitorDeadline(j)
    BY <2>4, MoveIsOwn DEF Watch, MonitorChecks, MonitorDeadline
  <2>5. CASE MonitorClaims(j)
    <3>1. CASE ~RowIsFree("acceptance")
      BY <2>5, <3>1, MoveIsOwn DEF MonitorClaims
    <3>2. CASE RowIsFree("acceptance")
      <4>1. \A kk \in AllKinds : token[kk] = j => kk = "acceptance"
        BY <2>5 DEF MonitorClaims, TypeInv, JobInv, TokenInv, MonitorInv, Row, Jobs, NoJob
      <4>. QED
        BY <2>5, <3>2, <4>1, LeaseIsOwn DEF MonitorClaims, AllKinds
    <3>. QED
      BY <3>1, <3>2
  <2>6. CASE Recheck(j)
    BY <2>6, MoveIsOwn, ReportIsOwn DEF Recheck
  <2>7. CASE LeaseLost(j) \/ RenewalRaises(j)
    BY <2>7, ReportIsOwn DEF LeaseLost, RenewalRaises, Renews
  <2>8. CASE Unreported(j)
    <3>1. PICK to \in {"watching", "ended"} : pc' = [pc EXCEPT ![j] = to]
      BY <2>8 DEF Unreported
    <3>. QED
      BY <2>8, <3>1, MoveIsOwn DEF Unreported
  <2>. QED
    BY <1>1, <2>1, <2>2, <2>3, <2>4, <2>5, <2>6, <2>7, <2>8 DEF Thread
<1>2. ASSUME NEW p \in Processes, Claim(p)
      PROVE  ResultIsOwn'
  <2>1. CASE UNCHANGED <<rowVars, jobVars>>
    BY <2>1 DEF ResultIsOwn, rowVars, jobVars
  <2>2. ASSUME NEW j \in Jobs, Submit(j, asking[p], p), Lease(asking[p], j, p)
        PROVE  ResultIsOwn'
    <3>1. asking[p] \in AllKinds
      BY <1>2 DEF Claim, TypeInv, ProcessTypes
    <3>2. \A kk \in AllKinds : token[kk] # j
      BY <2>2, <3>1, SubmitTypes
    <3>. QED
      BY <2>2, <3>1, <3>2, LeaseIsOwn DEF Submit
  <2>. QED
    BY <1>2, <2>1, <2>2 DEF Claim
<1>3. ASSUME NEW p \in Processes, StartMonitor(p)
      PROVE  ResultIsOwn'
  <2>. PICK j \in Jobs : Submit(j, "monitor", p)
    BY <1>3 DEF StartMonitor
  <2>. QED
    BY <1>3, MoveIsOwn DEF StartMonitor, Submit
<1>4. ASSUME NEW p \in Processes, Stop(p) \/ Crash(p)
      PROVE  ResultIsOwn'
  BY <1>4 DEF Stop, Crash, TypeInv, RowTypes, JobInv, JobTypes, ResultIsOwn, rowVars
<1>5. ASSUME UNCHANGED <<status, token, pc>>
      PROVE  ResultIsOwn'
  BY <1>5 DEF ResultIsOwn
<1>6. ASSUME NEW p \in Processes, \/ \E k \in Kinds : Request(p, k)
                                  \/ Check(p) \/ StartProcess(p) \/ Exit(p)
                                  \/ GoesStale(p) \/ Rejoins(p)
      PROVE  UNCHANGED <<status, token, pc>>
  BY <1>6 DEF Request, Check, StartProcess, Exit, GoesStale, Rejoins, rowVars, jobVars
<1>7. ASSUME \/ UNCHANGED vars
             \/ \E k \in AllKinds : LeaseExpires(k)
      PROVE  UNCHANGED <<status, token, pc>>
  BY <1>7 DEF LeaseExpires, vars, rowVars, jobVars
<1>. QED
  BY <1>1, <1>2, <1>3, <1>4, <1>5, <1>6, <1>7 DEF Next, Handler, Lifetime

\* No report of a job that lost its lease ends the job that took its row over,
\* with any stalls, crashes and failing statements.
THEOREM ResultsAreOwn == Spec => []ResultIsOwn
<1>1. Init => ResultIsOwn
  BY DEF Init, ResultIsOwn
<1>. QED
  BY <1>1, InitTypes, TypesStep, OwnStep, PTL DEF Spec

-----------------------------------------------------------------------------
(* Leases, while no heartbeat of a living process goes stale.              *)

\* Job j is between its claim and its last report.
Engaged(j) ==
  pc[j] \in {"working", "credited"}
    \cup (IF what[j] = "monitor" THEN {"rechecking"} ELSE {"queued", "loading"})

\* A process in a handler is up, one in none has checked nothing, and a queued job
\* waits in a process that is up.
UpInv ==
  /\ \A p \in Processes : asking[p] = NoKind => checked[p] = 0
  /\ \A p \in Processes : asking[p] # NoKind => proc[p] = "up"
  /\ \A j \in Jobs : pc[j] = "queued" => proc[home[j]] = "up"
  /\ \A j \in Jobs : pc[j] \in Active => Alive(home[j])

\* The heartbeat of a living process is fresh.
BeatInv == Fresh /\ \A p \in Processes : Alive(p) => beat[p] = "fresh"

\* An engaged job holds its row, and the row says RUNNING.
HoldInv == \A j \in Jobs : Engaged(j) => Holds(j) /\ status[Row(j)] = "RUNNING"

LeaseInv == UpInv /\ BeatInv /\ HoldInv

\* The row of an engaged job is seen as RUNNING.
LEMMA EngagedIsVisible ==
  ASSUME TypeInv, LeaseInv, NEW j \in Jobs, Engaged(j)
  PROVE  Row(j) \in AllKinds /\ Holds(j) /\ Running(Row(j))
<1>1. Row(j) \in AllKinds
  BY DEF Engaged, TypeInv, JobInv, JobTypes, Row, AllKinds
<1>2. token[Row(j)] = j /\ status[Row(j)] = "RUNNING"
  BY DEF LeaseInv, HoldInv, Holds
<1>3. owner[Row(j)] = home[j]
  BY <1>1, <1>2 DEF TypeInv, RowTypes, Jobs, NoJob
<1>4. home[j] \in Processes /\ Alive(home[j])
  BY DEF Engaged, TypeInv, JobInv, JobTypes, LeaseInv, UpInv, Active, Alive
<1>5. beat[home[j]] = "fresh"
  BY <1>4 DEF LeaseInv, BeatInv, Fresh
<1>. QED
  BY <1>1, <1>2, <1>3, <1>4, <1>5, WalletAssumption DEF Holds, Running, Orphaned

\* A job that moves on keeps the leases, if it was engaged before or is not after.
LEMMA MoveLease ==
  ASSUME TypeInv, LeaseInv, NEW j \in Jobs, NEW to \in Active \cup {"ended"},
         pc[j] \in Active \cup {"queued"}, to \in Active => Alive(home[j]),
         pc' = [pc EXCEPT ![j] = to], Engaged(j)' => Engaged(j),
         UNCHANGED <<rowVars, procVars, what, home>>, faults'.stall = faults.stall
  PROVE  LeaseInv'
<1>1. UpInv'
  BY DEF LeaseInv, UpInv, Alive, TypeInv, JobInv, JobTypes, procVars, Active
<1>2. BeatInv'
  BY DEF LeaseInv, BeatInv, Fresh, Alive, procVars
<1>3. HoldInv'
  BY DEF LeaseInv, HoldInv, Engaged, Holds, Row, TypeInv, JobInv, JobTypes, rowVars
<1>. QED
  BY <1>1, <1>2, <1>3 DEF LeaseInv

\* A last report keeps the leases of the other jobs.
LEMMA ConcludeLease ==
  ASSUME TypeInv, LeaseInv, NEW j \in Jobs, NEW to \in {"ended", "watching"}, NEW result,
         pc[j] \in Active, to = "watching" => what[j] = "monitor",
         Conclude(j, to, result), faults'.stall = faults.stall
  PROVE  LeaseInv'
<1>1. UpInv'
  BY DEF LeaseInv, UpInv, Alive, TypeInv, JobInv, JobTypes, procVars, Active, Conclude
<1>2. BeatInv'
  BY DEF LeaseInv, BeatInv, Fresh, Alive, procVars, Conclude
<1>3. HoldInv'
  <2>. SUFFICES ASSUME NEW i \in Jobs, Engaged(i)' PROVE Holds(i)' /\ status'[Row(i)'] = "RUNNING"
    BY DEF HoldInv
  <2>1. i # j /\ Engaged(i) /\ Row(i)' = Row(i)
    BY DEF Engaged, Row, Conclude, TypeInv, JobInv, JobTypes
  <2>2. Holds(i) /\ status[Row(i)] = "RUNNING" /\ Row(i) \in AllKinds
    BY <2>1, EngagedIsVisible DEF LeaseInv, HoldInv
  <2>3. status'[Row(i)] = status[Row(i)]
    BY <2>1, <2>2 DEF Conclude, Reported, Holds, TypeInv, RowTypes
  <2>. QED
    BY <2>1, <2>2, <2>3 DEF Conclude, Holds
<1>. QED
  BY <1>1, <1>2, <1>3 DEF LeaseInv

\* A job that takes a free row takes it from no engaged job.
LEMMA TakeLease ==
  ASSUME TypeInv, LeaseInv, NEW k \in AllKinds, NEW j \in Jobs, NEW p, RowIsFree(k),
         Lease(k, j, p), Row(j)' = k, \A kk \in AllKinds : token[kk] = j => kk = k,
         \A i \in Jobs \ {j} : pc'[i] = pc[i] /\ what'[i] = what[i]
  PROVE  HoldInv'
<1>. SUFFICES ASSUME NEW i \in Jobs, Engaged(i)' PROVE Holds(i)' /\ status'[Row(i)'] = "RUNNING"
  BY DEF HoldInv
<1>1. CASE i = j
  BY <1>1 DEF Lease, Holds, TypeInv, RowTypes
<1>2. CASE i # j
  <2>1. Engaged(i) /\ Row(i)' = Row(i)
    BY <1>2 DEF Engaged, Row
  <2>2. Row(i) \in AllKinds /\ Holds(i) /\ Running(Row(i)) /\ status[Row(i)] = "RUNNING"
    BY <2>1, EngagedIsVisible DEF Running
  <2>3. Row(i) # k
    BY <2>2 DEF RowIsFree
  <2>. QED
    BY <2>1, <2>2, <2>3 DEF Lease, Holds, TypeInv, RowTypes
<1>. QED
  BY <1>1, <1>2

\* Every step of a job keeps the leases.
LEMMA ThreadLease ==
  ASSUME TypeInv, LeaseInv, NEW j \in Jobs,
         \/ Thread(j) \/ LeaseLost(j) \/ RenewalRaises(j) \/ Unreported(j)
         \/ MonitorDeadline(j)
  PROVE  LeaseInv'
<1>. USE DEF At
<1>h. pc[j] \in Active \cup {"queued"} => Alive(home[j])
  BY DEF LeaseInv, UpInv, Alive
<1>m. pc[j] \in {"watching", "deciding", "claiming", "rechecking"} => what[j] = "monitor"
  BY DEF TypeInv, JobInv, MonitorInv
<1>t. pc \in [Jobs -> Active \cup {"none", "queued", "ended"}]
  BY DEF TypeInv, JobInv, JobTypes
<1>e. ASSUME NEW to, pc' = [pc EXCEPT ![j] = to], what' = what,
             to \notin {"working", "credited", "rechecking", "queued", "loading"}
      PROVE  ~Engaged(j)'
  BY <1>t, <1>e DEF Engaged
<1>1. CASE Begin(j)
  <2>1. Engaged(j)' => Engaged(j)
    BY <1>1, <1>t DEF Begin, Engaged
  <2>. QED
    BY <1>1, <1>h, <2>1, MoveLease DEF Begin, Active
<1>2. CASE LoadFails(j)
  <2>1. CASE what[j] # "monitor"
    BY <1>2, <2>1, ConcludeLease DEF LoadFails, Active
  <2>2. CASE what[j] = "monitor"
    BY <1>2, <2>2, <1>e, MoveLease DEF LoadFails, Active
  <2>. QED
    BY <2>1, <2>2
<1>3. CASE Enter(j)
  <2>1. Engaged(j)' => Engaged(j)
    BY <1>3, <1>t DEF Enter, Engaged
  <2>. QED
    BY <1>3, <1>h, <2>1, MoveLease DEF Enter, Active
<1>4. CASE Accept(j)
  <2>1. Engaged(j)' => Engaged(j)
    BY <1>4, <1>t DEF Accept, Engaged
  <2>. QED
    BY <1>4, <1>h, <2>1, MoveLease DEF Accept, Active
<1>5. CASE FinishAcceptance(j)
  BY <1>5, ConcludeLease DEF FinishAcceptance, Active
<1>6. CASE FinishFinalization(j) \/ FinishReceive(j) \/ FinishOutgoing(j) \/ FinishDeposit(j)
  BY <1>6, ConcludeLease DEF FinishFinalization, FinishReceive, FinishOutgoing, FinishDeposit,
     Ends, Active
<1>7. CASE Watch(j) \/ MonitorChecks(j) \/ MonitorDeadline(j)
  <2>1. PICK to \in {"ended", "deciding", "watching", "claiming"} : pc' = [pc EXCEPT ![j] = to]
    BY <1>7 DEF Watch, MonitorChecks, MonitorDeadline
  <2>2. ~Engaged(j)'
    BY <1>7, <2>1, <1>e DEF Watch, MonitorChecks, MonitorDeadline
  <2>. QED
    BY <1>7, <1>h, <2>1, <2>2, MoveLease DEF Watch, MonitorChecks, MonitorDeadline, Active
<1>8. CASE MonitorClaims(j)
  <2>1. CASE ~RowIsFree("acceptance")
    <3>1. ~Engaged(j)'
      BY <1>8, <2>1, <1>e DEF MonitorClaims
    <3>. QED
      BY <1>8, <2>1, <3>1, <1>h, MoveLease DEF MonitorClaims, Active
  <2>2. CASE RowIsFree("acceptance")
    <3>1. /\ pc[j] = "claiming" /\ pc' = [pc EXCEPT ![j] = "rechecking"]
          /\ what[j] = "monitor" /\ Lease("acceptance", j, home[j])
          /\ UNCHANGED <<procVars, what, home, accepted, faults>>
      BY <1>8, <2>2, <1>m DEF MonitorClaims
    <3>2. UpInv' /\ BeatInv'
      BY <3>1, <1>t, <1>h DEF LeaseInv, UpInv, BeatInv, Fresh, Alive, procVars, Active
    <3>3. Row(j)' = "acceptance" /\ \A k \in AllKinds : token[k] = j => k = "acceptance"
      BY <3>1 DEF Row, TypeInv, JobInv, TokenInv, Jobs, NoJob
    <3>4. HoldInv'
      BY <2>2, <3>1, <3>3, <1>t, TakeLease DEF AllKinds
    <3>. QED
      BY <3>2, <3>4 DEF LeaseInv
  <2>. QED
    BY <2>1, <2>2
<1>9. CASE Recheck(j)
  <2>1. ASSUME NEW to \in {"working", "ended"}, At(j, "rechecking", to),
               UNCHANGED <<rowVars, procVars, what, home>>
        PROVE  LeaseInv'
    <3>1. Engaged(j)
      BY <1>9, <1>m DEF Recheck, Engaged
    <3>. QED
      BY <1>9, <2>1, <3>1, <1>h, MoveLease DEF Recheck, Active
  <2>2. ASSUME NEW to \in {"ended", "watching"}, NEW r, Conclude(j, to, r)
        PROVE  LeaseInv'
    BY <1>9, <1>m, <2>2, ConcludeLease DEF Recheck, Active
  <2>. QED
    BY <1>9, <2>1, <2>2 DEF Recheck
<1>10. CASE LeaseLost(j)
  BY <1>10, ConcludeLease DEF LeaseLost, Renews, Active
<1>11. CASE RenewalRaises(j)
  <2>1. faults'.stall = faults.stall
    BY <1>11 DEF RenewalRaises, TypeInv, OtherTypes
  <2>. QED
    BY <1>11, <2>1, ConcludeLease DEF RenewalRaises, Renews, Active
<1>12. CASE Unreported(j)
  <2>1. faults'.stall = faults.stall
    BY <1>12 DEF Unreported, TypeInv, OtherTypes
  <2>2. PICK to \in {"watching", "ended"} : pc' = [pc EXCEPT ![j] = to]
    BY <1>12 DEF Unreported
  <2>3. ~Engaged(j)'
    BY <1>12, <2>2, <1>e DEF Unreported
  <2>. QED
    BY <1>12, <2>1, <2>2, <2>3, <1>h, MoveLease DEF Unreported, Active
<1>. QED
  BY <1>1, <1>2, <1>3, <1>4, <1>5, <1>6, <1>7, <1>8, <1>9, <1>10, <1>11, <1>12 DEF Thread

\* Every step of a handler keeps the leases.
LEMMA HandlerLease ==
  ASSUME TypeInv, LeaseInv, NEW p \in Processes, Handler(p)
  PROVE  LeaseInv'
<1>1. CASE \E k \in Kinds : Request(p, k)
  BY <1>1 DEF Request, LeaseInv, UpInv, BeatInv, Fresh, HoldInv, Engaged, Holds, Row, Alive, TypeInv,
     ProcessTypes, rowVars, jobVars
<1>2. CASE Check(p)
  BY <1>2 DEF Check, Leave, LeaseInv, UpInv, BeatInv, Fresh, HoldInv, Engaged, Holds, Row, Alive, TypeInv,
     ProcessTypes, rowVars, jobVars
<1>3. CASE Claim(p)
  <2>. DEFINE k == asking[p]
  <2>1. k \in AllKinds /\ proc[p] = "up"
    BY <1>3 DEF Claim, TypeInv, ProcessTypes, LeaseInv, UpInv
  <2>2. CASE UNCHANGED <<rowVars, jobVars>>
    BY <1>3, <2>2 DEF Claim, Leave, LeaseInv, UpInv, BeatInv, Fresh, HoldInv, Engaged, Holds, Row, Alive,
       TypeInv, ProcessTypes, rowVars, jobVars
  <2>3. ASSUME NEW j \in Jobs, RowIsFree(k), Submit(j, k, p), Lease(k, j, p)
        PROVE  LeaseInv'
    <3>1. UpInv' /\ BeatInv'
      BY <1>3, <2>1, <2>3 DEF Claim, Leave, Submit, LeaseInv, UpInv, BeatInv, Fresh, Alive, TypeInv,
         ProcessTypes, JobInv, JobTypes, Active
    <3>2. \A kk \in AllKinds : token[kk] # j
      BY <2>1, <2>3, SubmitTypes
    <3>3. Row(j)' = k
      BY <2>1, <2>3 DEF Submit, Row, TypeInv, JobInv, JobTypes, AllKinds
    <3>4. \A i \in Jobs \ {j} : pc'[i] = pc[i] /\ what'[i] = what[i]
      BY <2>3 DEF Submit, TypeInv, JobInv, JobTypes
    <3>5. HoldInv'
      BY <2>1, <2>3, <3>2, <3>3, <3>4, TakeLease
    <3>. QED
      BY <3>1, <3>5 DEF LeaseInv
  <2>. QED
    BY <1>3, <2>2, <2>3 DEF Claim
<1>4. CASE StartMonitor(p)
  <2>. PICK j \in Jobs : Submit(j, "monitor", p)
    BY <1>4 DEF StartMonitor
  <2>1. UpInv' /\ BeatInv'
    BY <1>4 DEF StartMonitor, Submit, LeaseInv, UpInv, BeatInv, Fresh, Alive, TypeInv, JobInv, JobTypes,
       procVars, Active
  <2>2. HoldInv'
    BY <1>4 DEF StartMonitor, Submit, LeaseInv, HoldInv, Engaged, Holds, Row, TypeInv, JobInv,
       JobTypes, rowVars
  <2>. QED
    BY <2>1, <2>2 DEF LeaseInv
<1>. QED
  BY <1>1, <1>2, <1>3, <1>4 DEF Handler

\* Every step of a process's life, and the end of a lease, keeps the leases.
LEMMA LifetimeLease ==
  ASSUME TypeInv, LeaseInv, Fresh',
         \/ \E p \in Processes : Lifetime(p)
         \/ \E k \in AllKinds : LeaseExpires(k)
  PROVE  LeaseInv'
<1>1. ASSUME UNCHANGED <<status, token, what, pc>>
      PROVE  HoldInv'
  BY <1>1 DEF LeaseInv, HoldInv, Engaged, Holds, Row
<1>2. ASSUME NEW p \in Processes, StartProcess(p) \/ Rejoins(p)
      PROVE  LeaseInv'
  <2>1. UpInv' /\ BeatInv'
    BY <1>2 DEF StartProcess, Rejoins, LeaseInv, UpInv, BeatInv, Fresh, Alive, TypeInv, ProcessTypes,
       JobInv, JobTypes, jobVars, Active
  <2>. QED
    BY <1>1, <1>2, <2>1 DEF StartProcess, Rejoins, LeaseInv, rowVars, jobVars
<1>3. ASSUME NEW p \in Processes, Stop(p)
      PROVE  LeaseInv'
  <2>1. UpInv' /\ BeatInv'
    BY <1>3 DEF Stop, LeaseInv, UpInv, BeatInv, Fresh, Alive, TypeInv, ProcessTypes, JobInv, JobTypes, Active
  <2>2. HoldInv'
    BY <1>3 DEF Stop, LeaseInv, HoldInv, Engaged, Holds, Row, rowVars
  <2>. QED
    BY <2>1, <2>2 DEF LeaseInv
<1>4. ASSUME NEW p \in Processes, Exit(p)
      PROVE  LeaseInv'
  <2>1. UpInv'
    BY <1>4 DEF Exit, PoolIsIdle, LeaseInv, UpInv, Alive, TypeInv, ProcessTypes, JobInv, JobTypes,
       jobVars, Active
  <2>2. BeatInv'
    BY <1>4 DEF Exit, LeaseInv, BeatInv, Fresh, Alive, TypeInv, ProcessTypes, OtherTypes
  <2>. QED
    BY <1>1, <1>4, <2>1, <2>2 DEF Exit, LeaseInv, rowVars, jobVars
<1>5. ASSUME NEW p \in Processes, Crash(p)
      PROVE  LeaseInv'
  <2>1. UpInv' /\ BeatInv'
    BY <1>5 DEF Crash, Leave, LeaseInv, UpInv, BeatInv, Fresh, Alive, TypeInv, ProcessTypes, JobInv,
       JobTypes, OtherTypes, Active
  <2>2. HoldInv'
    BY <1>5 DEF Crash, LeaseInv, HoldInv, Engaged, Holds, Row, rowVars
  <2>. QED
    BY <2>1, <2>2 DEF LeaseInv
<1>6. ASSUME NEW p \in Processes, GoesStale(p)
      PROVE  LeaseInv'
  <2>1. proc[p] \in {"gone", "dead"} /\ UNCHANGED faults
    BY <1>6 DEF GoesStale, LeaseInv, BeatInv, Fresh, TypeInv, OtherTypes
  <2>2. UpInv' /\ BeatInv'
    BY <1>6, <2>1 DEF GoesStale, LeaseInv, UpInv, BeatInv, Fresh, Alive, TypeInv, ProcessTypes, jobVars
  <2>. QED
    BY <1>1, <1>6, <2>2 DEF GoesStale, LeaseInv, rowVars, jobVars
<1>7. ASSUME NEW k \in AllKinds, LeaseExpires(k)
      PROVE  LeaseInv'
  BY <1>1, <1>7 DEF LeaseExpires, LeaseInv, UpInv, BeatInv, Fresh, Alive, procVars, jobVars
<1>. QED
  BY <1>2, <1>3, <1>4, <1>5, <1>6, <1>7 DEF Lifetime

\* No step but a heartbeat's counts stalls, and it only adds to them.
LEMMA StallsAdd ==
  ASSUME TypeInv, [Next]_vars
  PROVE  /\ Fresh' => Fresh
         /\ MaxStalls = 0 /\ Fresh => Fresh'
<1>1. \/ faults'.stall = faults.stall
      \/ faults.stall < MaxStalls /\ faults'.stall = faults.stall + 1
  <2>1. ASSUME NEW p \in Processes, Lifetime(p)
        PROVE  \/ faults'.stall = faults.stall
               \/ faults.stall < MaxStalls /\ faults'.stall = faults.stall + 1
    BY <2>1 DEF Lifetime, StartProcess, Stop, Exit, Crash, GoesStale, Rejoins, TypeInv, OtherTypes
  <2>2. ASSUME NEW j \in Jobs,
               \/ Thread(j) \/ LeaseLost(j) \/ RenewalRaises(j) \/ Unreported(j)
               \/ MonitorDeadline(j)
        PROVE  faults'.stall = faults.stall
    <3>1. \/ faults' = faults
          \/ faults' = [faults EXCEPT !.db = @ + 1]
      BY <2>2 DEF Thread, Begin, LoadFails, Enter, Accept, FinishAcceptance, FinishFinalization,
         FinishReceive, FinishOutgoing, FinishDeposit, Ends, Watch, MonitorChecks, MonitorClaims,
         Recheck, LeaseLost, RenewalRaises, Unreported, MonitorDeadline
    <3>. QED
      BY <3>1 DEF TypeInv, OtherTypes
  <2>3. CASE UNCHANGED faults
    BY <2>3
  <2>. QED
    BY <2>1, <2>2, <2>3 DEF Next, Handler, Request, Check, Claim, StartMonitor, LeaseExpires, vars
<1>. QED
  BY <1>1 DEF Fresh, TypeInv, OtherTypes

\* Leases are right at the start, and every step keeps them until a heartbeat stalls.
LEMMA LeaseStep ==
  /\ Init => LeaseInv
  /\ TypeInv /\ (Fresh => LeaseInv) /\ [Next]_vars => (Fresh => LeaseInv)'
<1>1. Init => LeaseInv
  BY DEF Init, LeaseInv, UpInv, BeatInv, Fresh, HoldInv, Engaged, Alive, Active
<1>2. ASSUME TypeInv, Fresh => LeaseInv, [Next]_vars, Fresh'
      PROVE  LeaseInv'
  <2>1. LeaseInv
    BY <1>2, StallsAdd
  <2>2. CASE UNCHANGED vars
    BY <2>1, <2>2 DEF vars, rowVars, procVars, jobVars, LeaseInv, UpInv, BeatInv, Fresh, HoldInv, Engaged,
       Holds, Row, Alive
  <2>. QED
    BY <1>2, <2>1, <2>2, HandlerLease, LifetimeLease, ThreadLease DEF Next
<1>. QED
  BY <1>1, <1>2

\* As long as no heartbeat of a living process went stale, a job that works holds
\* its row and every process sees it RUNNING, across shutdowns, crashes and
\* failing statements.
THEOREM WorkIsLeased == Spec => []WorkIsVisible
<1>1. TypeInv /\ (Fresh => LeaseInv) => WorkIsVisible
  BY EngagedIsVisible DEF WorkIsVisible, Mutating, Engaged
<1>. QED
  BY <1>1, InitTypes, TypesStep, LeaseStep, PTL DEF Spec

\* As long as that holds, no two jobs work under one row.
THEOREM OneJobPerLease == Spec => []OneMutationPerLease
<1>1. TypeInv /\ (Fresh => LeaseInv) => OneMutationPerLease
  BY EngagedIsVisible DEF OneMutationPerLease, Mutating, Engaged, Holds
<1>. QED
  BY <1>1, InitTypes, TypesStep, LeaseStep, PTL DEF Spec

-----------------------------------------------------------------------------
(* One transfer for a monitored request.                                   *)

\* While a monitor is about to accept, no transfer was accepted for its request.
FirstInv ==
  \A j \in Jobs : what[j] = "monitor" /\ pc[j] = "working" => accepted = 0

\* Only a job that works on acceptance accepts.
LEMMA OnlyAcceptors ==
  ASSUME [Next]_vars, accepted' # accepted
  PROVE  \E j \in Jobs : Accept(j)
<1>1. ASSUME NEW p \in Processes, Handler(p) \/ Lifetime(p)
      PROVE  accepted' = accepted
  BY <1>1 DEF Handler, Request, Check, Claim, StartMonitor, Lifetime, StartProcess, Stop, Exit,
     Crash, GoesStale, Rejoins
<1>2. ASSUME NEW j \in Jobs, ~Accept(j),
             \/ Thread(j) \/ LeaseLost(j) \/ RenewalRaises(j) \/ Unreported(j)
             \/ MonitorDeadline(j)
      PROVE  accepted' = accepted
  BY <1>2 DEF Thread, Begin, LoadFails, Enter, FinishAcceptance, FinishFinalization,
     FinishReceive, FinishOutgoing, FinishDeposit, Ends, Conclude, Watch, MonitorChecks,
     MonitorClaims, Recheck, LeaseLost, RenewalRaises, Unreported, MonitorDeadline
<1>3. ASSUME NEW k \in AllKinds, LeaseExpires(k)
      PROVE  accepted' = accepted
  BY <1>3 DEF LeaseExpires
<1>. QED
  BY <1>1, <1>2, <1>3 DEF Next, vars

\* A monitor comes to work by its recheck, which found nothing accepted.
LEMMA MonitorRechecks ==
  ASSUME TypeInv, [Next]_vars, NEW i \in Jobs, what'[i] = "monitor", pc'[i] = "working"
  PROVE  \/ what[i] = "monitor" /\ pc[i] = "working"
         \/ accepted = 0 /\ accepted' = accepted
<1>. USE DEF At, TypeInv, JobInv, JobTypes
<1>1. ASSUME NEW p \in Processes, Handler(p)
      PROVE  what[i] = "monitor" /\ pc[i] = "working"
  BY <1>1 DEF Handler, Request, Check, Claim, StartMonitor, Submit, jobVars
<1>2. ASSUME NEW p \in Processes, Lifetime(p)
      PROVE  what[i] = "monitor" /\ pc[i] = "working"
  BY <1>2 DEF Lifetime, StartProcess, Stop, Exit, Crash, GoesStale, Rejoins, jobVars
<1>3. ASSUME NEW j \in Jobs, Recheck(j)
      PROVE  \/ what[i] = "monitor" /\ pc[i] = "working"
             \/ accepted = 0 /\ accepted' = accepted
  <2>1. CASE AlreadyAccepted /\ Conclude(j, "ended", "INTERRUPTED")
    BY <2>1 DEF Conclude
  <2>2. CASE Conclude(j, "watching", "FAILED")
    BY <2>2 DEF Conclude
  <2>3. CASE ~AlreadyAccepted /\ accepted' = accepted
    BY <2>3 DEF AlreadyAccepted, OtherTypes
  <2>. QED
    BY <1>3, <2>1, <2>2, <2>3 DEF Recheck
<1>4. ASSUME NEW j \in Jobs,
             \/ Begin(j) \/ LoadFails(j) \/ Enter(j) \/ Accept(j) \/ FinishAcceptance(j)
      PROVE  what[i] = "monitor" /\ pc[i] = "working"
  BY <1>4 DEF Begin, LoadFails, Enter, Accept, FinishAcceptance, Conclude
<1>5. ASSUME NEW j \in Jobs,
             \/ FinishFinalization(j) \/ FinishReceive(j) \/ FinishOutgoing(j) \/ FinishDeposit(j)
             \/ Watch(j) \/ MonitorChecks(j) \/ MonitorClaims(j)
      PROVE  what[i] = "monitor" /\ pc[i] = "working"
  BY <1>5 DEF FinishFinalization, FinishReceive, FinishOutgoing, FinishDeposit, Ends, Conclude,
     Watch, MonitorChecks, MonitorClaims
<1>6. ASSUME NEW j \in Jobs,
             LeaseLost(j) \/ RenewalRaises(j) \/ Unreported(j) \/ MonitorDeadline(j)
      PROVE  what[i] = "monitor" /\ pc[i] = "working"
  BY <1>6 DEF LeaseLost, RenewalRaises, Unreported, MonitorDeadline, Conclude
<1>7. ASSUME NEW k \in AllKinds, LeaseExpires(k)
      PROVE  what[i] = "monitor" /\ pc[i] = "working"
  BY <1>7 DEF LeaseExpires, jobVars
<1>8. CASE UNCHANGED vars
  BY <1>8 DEF vars, jobVars
<1>. QED
  BY <1>1, <1>2, <1>3, <1>4, <1>5, <1>6, <1>7, <1>8 DEF Next, Thread

\* Two jobs at work on acceptance would hold one row.
LEMMA FirstStep ==
  /\ Init => FirstInv
  /\ TypeInv /\ (Fresh => LeaseInv) /\ (Fresh => FirstInv) /\ [Next]_vars
       => (Fresh => FirstInv)'
<1>1. Init => FirstInv
  BY DEF Init, FirstInv
<1>2. ASSUME TypeInv, Fresh => LeaseInv, Fresh => FirstInv, [Next]_vars, Fresh',
             NEW i \in Jobs, what'[i] = "monitor", pc'[i] = "working"
      PROVE  accepted' = 0
  <2>1. LeaseInv /\ FirstInv
    BY <1>2, StallsAdd
  <2>2. CASE what[i] = "monitor" /\ pc[i] = "working"
    <3>1. accepted = 0
      BY <2>1, <2>2 DEF FirstInv
    <3>2. ASSUME NEW j \in Jobs, Accept(j)
          PROVE  FALSE
      <4>1. pc[j] = "working" /\ pc'[j] = "credited" /\ Row(j) = "acceptance"
        BY <3>2, <1>2 DEF Accept, At, TypeInv, JobInv, JobTypes
      <4>2. i # j /\ Row(i) = "acceptance"
        BY <1>2, <2>2, <4>1 DEF Row
      <4>3. Holds(i) /\ Holds(j)
        BY <1>2, <2>1, <2>2, <4>1, EngagedIsVisible DEF Engaged
      <4>. QED
        BY <4>1, <4>2, <4>3 DEF Holds
    <3>. QED
      BY <1>2, <3>1, <3>2, OnlyAcceptors
  <2>. QED
    BY <1>2, <2>2, MonitorRechecks
<1>. QED
  BY <1>1, <1>2 DEF FirstInv

\* As long as heartbeats are fresh, a monitor accepts a transfer for its request only
\* if none was accepted before, however many monitors and jobs there are.
THEOREM MonitorsAcceptOnce == Spec => MonitorAcceptsFirst
<1>. DEFINE First == \A j \in Jobs : Fresh /\ what[j] = "monitor" /\ pc[j] = "working"
                          /\ pc'[j] = "credited" => accepted = 0
<1>1. (Fresh => FirstInv) => First
  BY DEF FirstInv
<1>2. (Fresh => FirstInv) => [First]_vars
  BY <1>1
<1>3. Spec => [](Fresh => FirstInv)
  BY InitTypes, TypesStep, LeaseStep, FirstStep, PTL DEF Spec
<1>. QED
  BY <1>2, <1>3, PTL DEF MonitorAcceptsFirst

-----------------------------------------------------------------------------
(* Rows that say RUNNING.                                                  *)

\* The converse of WorkIsVisible, at a process that is up: until a statement has
\* raised, a job that will report is behind every row that says RUNNING, however many
\* heartbeats have stalled. A row that nobody works for would be blocked as long
\* as its process lives.
RunningIsAttended ==
  faults.db = 0 =>
    \A k \in AllKinds :
      status[k] = "RUNNING" /\ token[k] # NoJob /\ proc[owner[k]] = "up" => Engaged(token[k])

\* A process in a handler is up, and jobs are at home in a process that was started.
StartedInv ==
  /\ \A p \in Processes : asking[p] # NoKind => proc[p] = "up"
  /\ \A j \in Jobs : pc[j] # "none" => proc[home[j]] # "new"

\* The token of a row is a job of the row's kind, at home in the row's owner.
LEMMA RowsAreOwned ==
  ASSUME TypeInv, NEW k \in AllKinds, token[k] # NoJob
  PROVE  token[k] \in Jobs /\ Row(token[k]) = k /\ owner[k] = home[token[k]]
         /\ home[token[k]] \in Processes
BY DEF TypeInv, RowTypes, JobInv, JobTypes, TokenInv

\* A job that goes on without a report stays engaged, if it held its row.
LEMMA MoveAttends ==
  ASSUME TypeInv, RunningIsAttended, NEW j \in Jobs, NEW to, pc' = [pc EXCEPT ![j] = to],
         Engaged(j) /\ Holds(j) => Engaged(j)',
         UNCHANGED <<rowVars, procVars, what, home, faults>>
  PROVE  RunningIsAttended'
<1>. SUFFICES ASSUME faults.db = 0, NEW k \in AllKinds, status[k] = "RUNNING",
                     token[k] # NoJob, proc[owner[k]] = "up"
              PROVE  Engaged(token[k])'
  BY DEF RunningIsAttended, rowVars, procVars, Engaged
<1>1. Engaged(token[k]) /\ token[k] \in Jobs /\ Row(token[k]) = k
  BY RowsAreOwned DEF RunningIsAttended
<1>2. CASE token[k] = j
  <2>1. Holds(j)
    BY <1>1, <1>2 DEF Holds
  <2>. QED
    BY <1>1, <1>2, <2>1 DEF rowVars, Engaged
<1>3. CASE token[k] # j
  BY <1>1, <1>3 DEF Engaged, rowVars, TypeInv, JobInv, JobTypes
<1>. QED
  BY <1>2, <1>3

\* A job that reports leaves no row of its own at RUNNING.
LEMMA ReportAttends ==
  ASSUME TypeInv, RunningIsAttended, NEW j \in Jobs, NEW to,
         NEW result \in Status \ {"RUNNING"}, Conclude(j, to, result),
         faults'.db = 0 => faults.db = 0
  PROVE  RunningIsAttended'
<1>. SUFFICES ASSUME faults.db = 0, NEW k \in AllKinds, status'[k] = "RUNNING",
                     token[k] # NoJob, proc[owner[k]] = "up"
              PROVE  Engaged(token[k])'
  BY DEF RunningIsAttended, Conclude, procVars, Engaged
<1>1. token[k] \in Jobs /\ Row(token[k]) = k
  BY RowsAreOwned
<1>2. token[k] # j /\ status[k] = "RUNNING"
  <2>1. CASE token[k] = j
    <3>1. status' = [status EXCEPT ![k] = result]
      BY <1>1, <2>1 DEF Conclude, Reported, Holds
    <3>2. status'[k] = result
      BY <3>1 DEF TypeInv, RowTypes
    <3>. QED
      BY <3>2
  <2>2. CASE token[k] # j
    BY <2>2 DEF Conclude, Reported, Holds, TypeInv, RowTypes
  <2>. QED
    BY <2>1, <2>2
<1>3. Engaged(token[k])
  BY <1>2 DEF RunningIsAttended
<1>. QED
  BY <1>1, <1>2, <1>3 DEF Conclude, Engaged, TypeInv, JobInv, JobTypes

\* A job that takes a row is engaged, and changes no other row.
LEMMA LeaseAttends ==
  ASSUME TypeInv, RunningIsAttended, NEW k \in AllKinds, NEW j \in Jobs, NEW p,
         Lease(k, j, p), Engaged(j)', \A kk \in AllKinds : token[kk] = j => kk = k,
         \A i \in Jobs \ {j} : pc'[i] = pc[i] /\ what'[i] = what[i],
         UNCHANGED <<proc, faults>>
  PROVE  RunningIsAttended'
<1>. SUFFICES ASSUME faults.db = 0, NEW kk \in AllKinds, status'[kk] = "RUNNING",
                     token'[kk] # NoJob, proc[owner'[kk]] = "up"
              PROVE  Engaged(token[kk])'
  BY DEF RunningIsAttended, Engaged
<1>1. CASE kk = k
  <2>1. token'[kk] = j
    BY <1>1 DEF Lease, TypeInv, RowTypes
  <2>. QED
    BY <2>1 DEF Engaged
<1>2. CASE kk # k
  <2>1. status[kk] = "RUNNING" /\ token'[kk] = token[kk] /\ owner[kk] = owner'[kk]
    BY <1>2 DEF Lease, TypeInv, RowTypes
  <2>2. token[kk] \in Jobs \ {j} /\ Engaged(token[kk])
    BY <1>2, <2>1, RowsAreOwned DEF RunningIsAttended
  <2>. QED
    BY <2>1, <2>2 DEF Engaged
<1>. QED
  BY <1>1, <1>2

LEMMA ThreadAttends ==
  ASSUME TypeInv, RunningIsAttended, NEW j \in Jobs,
         \/ Thread(j) \/ LeaseLost(j) \/ RenewalRaises(j) \/ Unreported(j)
         \/ MonitorDeadline(j)
  PROVE  RunningIsAttended'
<1>. USE DEF At
<1>m. pc[j] \in {"watching", "deciding", "claiming", "rechecking"} => what[j] = "monitor"
  BY DEF TypeInv, JobInv, MonitorInv
<1>p. pc'[j] = pc'[j] /\ \A to : pc' = [pc EXCEPT ![j] = to] => pc'[j] = to
  BY DEF TypeInv, JobInv, JobTypes
<1>1. CASE Begin(j) \/ Enter(j)
  <2>. PICK to : pc' = [pc EXCEPT ![j] = to]
    BY <1>1 DEF Begin, Enter
  <2>1. Engaged(j) /\ Holds(j) => Engaged(j)'
    BY <1>1, <1>p DEF Begin, Enter, Engaged
  <2>. QED
    BY <1>1, <2>1, MoveAttends DEF Begin, Enter
<1>2. CASE Accept(j)
  BY <1>2, <1>p, MoveAttends DEF Accept, Engaged
<1>3. CASE LoadFails(j)
  <2>1. CASE Conclude(j, "ended", "FAILED")
    BY <1>3, <2>1, ReportAttends DEF LoadFails, Status
  <2>2. CASE what[j] = "monitor" /\ At(j, "loading", "ended")
    BY <1>3, <2>2, MoveAttends DEF LoadFails, Engaged, rowVars, procVars, Conclude
  <2>. QED
    BY <1>3, <2>1, <2>2 DEF LoadFails
<1>4. CASE FinishAcceptance(j) \/ FinishFinalization(j) \/ FinishReceive(j)
           \/ FinishOutgoing(j) \/ FinishDeposit(j)
  BY <1>4, ReportAttends DEF FinishAcceptance, FinishFinalization, FinishReceive, FinishOutgoing,
     FinishDeposit, Ends, Status
<1>5. CASE Watch(j) \/ MonitorChecks(j) \/ MonitorDeadline(j)
  <2>. PICK to : pc' = [pc EXCEPT ![j] = to]
    BY <1>5 DEF Watch, MonitorChecks, MonitorDeadline
  <2>1. ~Engaged(j)
    BY <1>5 DEF Watch, MonitorChecks, MonitorDeadline, Engaged
  <2>. QED
    BY <1>5, <2>1, MoveAttends DEF Watch, MonitorChecks, MonitorDeadline
<1>6. CASE MonitorClaims(j)
  <2>1. CASE ~RowIsFree("acceptance")
    BY <1>6, <2>1, MoveAttends DEF MonitorClaims, Engaged
  <2>2. CASE RowIsFree("acceptance")
    <3>1. \A kk \in AllKinds : token[kk] = j => kk = "acceptance"
      BY <1>6, <1>m, RowsAreOwned DEF MonitorClaims, Row, Jobs, NoJob
    <3>2. Engaged(j)'
      BY <1>6, <1>m, <1>p, <2>2 DEF MonitorClaims, Engaged
    <3>. QED
      BY <1>6, <2>2, <3>1, <3>2, LeaseAttends
         DEF MonitorClaims, AllKinds, procVars, TypeInv, JobInv, JobTypes
  <2>. QED
    BY <2>1, <2>2
<1>7. CASE Recheck(j)
  <2>1. CASE Conclude(j, "ended", "INTERRUPTED") \/ Conclude(j, "watching", "FAILED")
    BY <1>7, <2>1, ReportAttends DEF Recheck, Status
  <2>2. CASE /\ At(j, "rechecking", IF Holds(j) THEN "working" ELSE "ended")
             /\ UNCHANGED <<rowVars, procVars, what, home, accepted>>
    <3>1. Engaged(j) /\ Holds(j) => Engaged(j)'
      BY <1>p, <2>2 DEF Engaged
    <3>. QED
      BY <1>7, <2>2, <3>1, MoveAttends DEF Recheck
  <2>. QED
    BY <1>7, <2>1, <2>2 DEF Recheck
<1>8. CASE LeaseLost(j)
  BY <1>8, ReportAttends DEF LeaseLost, Status
<1>9. CASE RenewalRaises(j) \/ Unreported(j)
  <2>1. faults'.db # 0
    BY <1>9 DEF RenewalRaises, Unreported, TypeInv, OtherTypes
  <2>. QED
    BY <2>1 DEF RunningIsAttended
<1>. QED
  BY <1>1, <1>2, <1>3, <1>4, <1>5, <1>6, <1>7, <1>8, <1>9 DEF Thread

LEMMA AttendStep ==
  ASSUME TypeInv, RunningIsAttended, StartedInv, [Next]_vars
  PROVE  RunningIsAttended'
<1>1. ASSUME NEW p \in Processes, Claim(p)
      PROVE  RunningIsAttended'
  <2>1. CASE UNCHANGED <<rowVars, jobVars>>
    BY <1>1, <2>1 DEF Claim, RunningIsAttended, Engaged, rowVars, jobVars
  <2>2. ASSUME NEW j \in Jobs, Submit(j, asking[p], p), Lease(asking[p], j, p)
        PROVE  RunningIsAttended'
    <3>1. asking[p] \in AllKinds
      BY <1>1 DEF Claim, TypeInv, ProcessTypes
    <3>2. \A kk \in AllKinds : token[kk] # j
      BY <2>2, <3>1, SubmitTypes
    <3>3. /\ Engaged(j)'
          /\ \A i \in Jobs \ {j} : pc'[i] = pc[i] /\ what'[i] = what[i]
      BY <2>2, <3>1 DEF Submit, Engaged, AllKinds, TypeInv, JobInv, JobTypes
    <3>. QED
      BY <1>1, <2>2, <3>1, <3>2, <3>3, LeaseAttends DEF Claim
  <2>. QED
    BY <1>1, <2>1, <2>2 DEF Claim
<1>2. ASSUME NEW p \in Processes, StartMonitor(p)
      PROVE  RunningIsAttended'
  <2>. PICK j \in Jobs : Submit(j, "monitor", p)
    BY <1>2 DEF StartMonitor
  <2>1. \A k \in AllKinds : token[k] # j
    BY SubmitTypes
  <2>2. \A i \in Jobs \ {j} : pc'[i] = pc[i] /\ what'[i] = what[i]
    BY DEF Submit, TypeInv, JobInv, JobTypes
  <2>. SUFFICES ASSUME faults.db = 0, NEW k \in AllKinds, status[k] = "RUNNING",
                       token[k] # NoJob, proc[owner[k]] = "up"
                PROVE  Engaged(token[k])'
    BY <1>2 DEF StartMonitor, RunningIsAttended, rowVars, procVars, Engaged
  <2>3. Engaged(token[k]) /\ token[k] \in Jobs \ {j}
    BY <2>1, RowsAreOwned DEF RunningIsAttended
  <2>. QED
    BY <1>2, <2>2, <2>3 DEF StartMonitor, rowVars, Engaged
\* The rows of a process that leaves are its heartbeat's to free.
<1>3. ASSUME NEW p \in Processes, Stop(p) \/ Crash(p)
      PROVE  RunningIsAttended'
  <2>1. /\ UNCHANGED <<rowVars, what, home>> /\ faults'.db = faults.db
        /\ proc'[p] # "up" /\ \A q \in Processes \ {p} : proc'[q] = proc[q]
        /\ \A i \in Jobs : home[i] # p => pc'[i] = pc[i]
    BY <1>3 DEF Stop, Crash, TypeInv, ProcessTypes, OtherTypes
  <2>. SUFFICES ASSUME faults.db = 0, NEW k \in AllKinds, status[k] = "RUNNING",
                       token[k] # NoJob, proc'[owner[k]] = "up"
                PROVE  Engaged(token[k])'
    BY <2>1 DEF RunningIsAttended, rowVars, Engaged
  <2>2. owner[k] \in Processes \ {p} /\ owner[k] = home[token[k]] /\ token[k] \in Jobs
    BY <2>1, RowsAreOwned
  <2>3. Engaged(token[k])
    BY <2>1, <2>2 DEF RunningIsAttended
  <2>. QED
    BY <2>1, <2>2, <2>3 DEF rowVars, Engaged
<1>4. ASSUME NEW p \in Processes, StartProcess(p)
      PROVE  RunningIsAttended'
  <2>1. /\ UNCHANGED <<rowVars, what, home, pc, faults>> /\ proc[p] = "new"
        /\ \A q \in Processes \ {p} : proc'[q] = proc[q]
    BY <1>4 DEF StartProcess, jobVars, TypeInv, ProcessTypes
  <2>. SUFFICES ASSUME faults.db = 0, NEW k \in AllKinds, status[k] = "RUNNING",
                       token[k] # NoJob, proc'[owner[k]] = "up"
                PROVE  Engaged(token[k])
    BY <2>1 DEF RunningIsAttended, rowVars, Engaged
  <2>2. owner[k] \in Processes \ {p}
    BY <2>1, RowsAreOwned DEF StartedInv, TypeInv, JobInv, TokenInv
  <2>. QED
    BY <2>1, <2>2 DEF RunningIsAttended
<1>5. ASSUME NEW p \in Processes, Exit(p)
      PROVE  RunningIsAttended'
  <2>1. /\ UNCHANGED <<rowVars, what, home, pc>> /\ (faults'.db = 0 => faults.db = 0)
        /\ \A q \in Processes : proc'[q] = "up" => proc[q] = "up"
    BY <1>5 DEF Exit, jobVars, TypeInv, ProcessTypes, OtherTypes
  <2>2. \A k \in AllKinds : token[k] # NoJob => owner[k] \in Processes
    BY RowsAreOwned
  <2>. QED
    BY <2>1, <2>2 DEF RunningIsAttended, rowVars, Engaged
<1>6. ASSUME NEW p \in Processes,
             (\E k \in Kinds : Request(p, k)) \/ Check(p) \/ GoesStale(p) \/ Rejoins(p)
      PROVE  RunningIsAttended'
  <2>1. UNCHANGED <<status, token, owner, proc, what, pc>> /\ faults'.db = faults.db
    BY <1>6 DEF Request, Check, GoesStale, Rejoins, rowVars, jobVars, TypeInv, OtherTypes
  <2>. QED
    BY <2>1 DEF RunningIsAttended, Engaged
<1>7. ASSUME UNCHANGED vars \/ \E k \in AllKinds : LeaseExpires(k)
      PROVE  RunningIsAttended'
  <2>1. UNCHANGED <<status, token, owner, proc, what, pc, faults>>
    BY <1>7 DEF LeaseExpires, vars, rowVars, procVars, jobVars
  <2>. QED
    BY <2>1 DEF RunningIsAttended, Engaged
<1>. QED
  BY <1>1, <1>2, <1>3, <1>4, <1>5, <1>6, <1>7, ThreadAttends DEF Next, Handler, Lifetime

\* Whoever submits jobs is up.
LEMMA StartedStep ==
  ASSUME TypeInv, StartedInv, [Next]_vars
  PROVE  StartedInv'
<1>1. ASSUME NEW j \in Jobs,
             \/ Thread(j) \/ LeaseLost(j) \/ RenewalRaises(j) \/ Unreported(j)
             \/ MonitorDeadline(j)
      PROVE  StartedInv'
  <2>1. /\ UNCHANGED <<procVars, home>> /\ pc[j] # "none"
        /\ \E to : pc' = [pc EXCEPT ![j] = to]
    BY <1>1 DEF Thread, Begin, LoadFails, Enter, Accept, FinishAcceptance, FinishFinalization,
       FinishReceive, FinishOutgoing, FinishDeposit, Ends, Watch, MonitorChecks, MonitorClaims,
       Recheck, LeaseLost, RenewalRaises, Unreported, MonitorDeadline, Conclude, Renews, At
  <2>. QED
    BY <2>1 DEF StartedInv, procVars, TypeInv, JobInv, JobTypes
<1>2. ASSUME NEW p \in Processes, Claim(p) \/ StartMonitor(p)
      PROVE  StartedInv'
  <2>1. /\ UNCHANGED proc /\ proc[p] = "up"
        /\ \A q \in Processes : asking'[q] # NoKind => asking[q] # NoKind
    BY <1>2 DEF Claim, StartMonitor, Leave, StartedInv, procVars, TypeInv, ProcessTypes
  <2>2. ASSUME NEW j \in Jobs, NEW task, Submit(j, task, p)
        PROVE  \A i \in Jobs :
                 pc'[i] # "none" => home'[i] = p \/ (pc[i] # "none" /\ home'[i] = home[i])
    BY <2>2 DEF Submit, TypeInv, JobInv, JobTypes
  <2>3. \A i \in Jobs : pc'[i] # "none" => \/ home'[i] = p
                                           \/ pc[i] # "none" /\ home'[i] = home[i]
    BY <1>2, <2>2 DEF Claim, StartMonitor, jobVars
  <2>. QED
    BY <2>1, <2>3 DEF StartedInv
<1>3. ASSUME NEW p \in Processes, (\E k \in Kinds : Request(p, k)) \/ Check(p)
      PROVE  StartedInv'
  BY <1>3 DEF Request, Check, Leave, StartedInv, jobVars, TypeInv, ProcessTypes
<1>4. ASSUME NEW p \in Processes, Lifetime(p)
      PROVE  StartedInv'
  <2>1. /\ UNCHANGED home /\ \A i \in Jobs : pc'[i] # "none" => pc[i] # "none"
    BY <1>4 DEF Lifetime, StartProcess, Stop, Exit, Crash, GoesStale, Rejoins, jobVars,
       TypeInv, JobInv, JobTypes
  <2>2. \A q \in Processes : /\ asking'[q] # NoKind => proc'[q] = "up"
                             /\ proc[q] # "new" => proc'[q] # "new"
    BY <1>4 DEF Lifetime, StartProcess, Stop, Exit, Crash, Leave, GoesStale, Rejoins, StartedInv,
       TypeInv, ProcessTypes
  <2>3. \A i \in Jobs : pc[i] # "none" => home[i] \in Processes
    BY DEF TypeInv, JobInv, JobTypes
  <2>. QED
    BY <2>1, <2>2, <2>3 DEF StartedInv
<1>5. ASSUME UNCHANGED vars \/ \E k \in AllKinds : LeaseExpires(k)
      PROVE  StartedInv'
  BY <1>5 DEF LeaseExpires, StartedInv, vars, procVars, jobVars
<1>. QED
  BY <1>1, <1>2, <1>3, <1>4, <1>5 DEF Next, Handler

\* No row of a process that is up is blocked by a job that has ended, until a
\* statement has raised: with any stalls, crashes, shutdowns and lost leases.
THEOREM RunningRowsAreAttended == Spec => []RunningIsAttended
<1>1. Init => RunningIsAttended /\ StartedInv
  BY DEF Init, RunningIsAttended, StartedInv
<1>2. TypeInv /\ (RunningIsAttended /\ StartedInv) /\ [Next]_vars
        => (RunningIsAttended /\ StartedInv)'
  BY AttendStep, StartedStep
<1>. QED
  BY <1>1, <1>2, InitTypes, TypesStep, PTL DEF Spec

-----------------------------------------------------------------------------
(* Competing jobs.                                                         *)

\* Of two jobs of excluding kinds that handlers started, both between claim and
\* last report, one was claimed late.
RivalInv ==
  \A i, j \in Jobs :
    i # j /\ Engaged(i) /\ Engaged(j) /\ {what[i], what[j]} \subseteq Exclusive
      => i \in late \/ j \in late

\* The kinds whose exclusion the handlers check look at each other.
LEMMA ChecksAreComplete ==
  ASSUME NEW k \in Exclusive, NEW m \in Exclusive, k # m
  PROVE  \E n \in 1..Len(Checks(k)) : Checks(k)[n] = m
<1>1. k \in {"finalization", "acceptance", "receive", "outgoing"}
      /\ m \in {"finalization", "acceptance", "receive", "outgoing"}
  BY DEF Exclusive, AllKinds
<1>2. CASE k = "finalization"
  BY <1>1, <1>2 DEF Checks
<1>3. CASE k = "acceptance"
  BY <1>1, <1>3 DEF Checks
<1>4. CASE k = "receive"
  BY <1>1, <1>4 DEF Checks
<1>5. CASE k = "outgoing"
  BY <1>1, <1>5 DEF Checks
<1>. QED
  BY <1>1, <1>2, <1>3, <1>4, <1>5

\* A step that engages no job a handler started keeps the invariant.
LEMMA RivalsKept ==
  ASSUME RivalInv, what' = what, late' = late,
         \A i \in Jobs : what[i] # "monitor" /\ Engaged(i)' => Engaged(i)
  PROVE  RivalInv'
<1>. SUFFICES ASSUME NEW i \in Jobs, NEW j \in Jobs, i # j, Engaged(i)', Engaged(j)',
                     {what'[i], what'[j]} \subseteq Exclusive
              PROVE  i \in late' \/ j \in late'
  BY DEF RivalInv
<1>1. what[i] # "monitor" /\ what[j] # "monitor"
  BY DEF Exclusive, AllKinds
<1>. QED
  BY <1>1 DEF RivalInv

\* No step of a job engages one that a handler started: its claim did.
LEMMA ThreadRivals ==
  ASSUME TypeInv, RivalInv, NEW j \in Jobs,
         \/ Thread(j) \/ LeaseLost(j) \/ RenewalRaises(j) \/ Unreported(j)
         \/ MonitorDeadline(j)
  PROVE  RivalInv'
<1>. USE DEF At
<1>1. what' = what /\ late' = late
  BY DEF Thread, Begin, LoadFails, Enter, Accept, FinishAcceptance, FinishFinalization,
     FinishReceive, FinishOutgoing, FinishDeposit, Ends, Watch, MonitorChecks, MonitorClaims,
     Recheck, LeaseLost, RenewalRaises, Unreported, MonitorDeadline, Conclude
<1>2. PICK to : /\ pc' = [pc EXCEPT ![j] = to]
                /\ what[j] # "monitor" /\ to # "ended" =>
                     pc[j] \in {"queued", "loading", "working"}
  <2>1. ASSUME Begin(j) \/ Enter(j) \/ Accept(j)
        PROVE  \E to : /\ pc' = [pc EXCEPT ![j] = to]
                       /\ pc[j] \in {"queued", "loading", "working"}
    BY <2>1 DEF Begin, Enter, Accept
  <2>2. ASSUME LoadFails(j) \/ FinishAcceptance(j) \/ FinishFinalization(j) \/ FinishReceive(j)
               \/ FinishOutgoing(j) \/ FinishDeposit(j) \/ LeaseLost(j) \/ RenewalRaises(j)
               \/ MonitorDeadline(j)
        PROVE  pc' = [pc EXCEPT ![j] = "ended"]
    BY <2>2 DEF LoadFails, FinishAcceptance, FinishFinalization, FinishReceive, FinishOutgoing,
       FinishDeposit, Ends, LeaseLost, RenewalRaises, MonitorDeadline, Conclude
  <2>3. ASSUME Unreported(j)
        PROVE  \E to : /\ pc' = [pc EXCEPT ![j] = to]
                       /\ what[j] # "monitor" => to = "ended"
    BY <2>3 DEF Unreported
  <2>4. ASSUME Watch(j) \/ MonitorChecks(j) \/ MonitorClaims(j) \/ Recheck(j)
        PROVE  what[j] = "monitor" /\ \E to : pc' = [pc EXCEPT ![j] = to]
    BY <2>4 DEF Watch, MonitorChecks, MonitorClaims, Recheck, Conclude, TypeInv, JobInv, MonitorInv
  <2>. QED
    BY <2>1, <2>2, <2>3, <2>4 DEF Thread
<1>3. ASSUME NEW i \in Jobs, what[i] # "monitor", Engaged(i)'
      PROVE  Engaged(i)
  <2>1. CASE i = j
    BY <1>1, <1>2, <1>3, <2>1 DEF Engaged, TypeInv, JobInv, JobTypes
  <2>2. CASE i # j
    BY <1>1, <1>2, <1>3, <2>2 DEF Engaged, TypeInv, JobInv, JobTypes
  <2>. QED
    BY <2>1, <2>2
<1>. QED
  BY <1>1, <1>3, RivalsKept

\* A job claimed while a rival is engaged is claimed late: the rival's row is
\* RUNNING, and it is one of those the handler has checked.
LEMMA HandlerRivals ==
  ASSUME TypeInv, LeaseInv, RivalInv, NEW p \in Processes, Handler(p)
  PROVE  RivalInv'
<1>1. CASE UNCHANGED jobVars
  BY <1>1, RivalsKept DEF jobVars, Engaged
<1>2. ASSUME NEW j \in Jobs, Submit(j, "monitor", p), late' = late
      PROVE  RivalInv'
  <2>. SUFFICES ASSUME NEW i \in Jobs, NEW h \in Jobs, i # h, Engaged(i)', Engaged(h)',
                       {what'[i], what'[h]} \subseteq Exclusive
                PROVE  i \in late' \/ h \in late'
    BY DEF RivalInv
  <2>1. i # j /\ h # j
    BY <1>2 DEF Submit, TypeInv, JobInv, JobTypes, Exclusive, AllKinds
  <2>. QED
    BY <1>2, <2>1 DEF RivalInv, Submit, Engaged, TypeInv, JobInv, JobTypes
<1>3. ASSUME Claim(p), ~UNCHANGED jobVars
      PROVE  RivalInv'
  <2>. DEFINE k == asking[p]
  <2>1. PICK j \in Jobs : /\ RowIsFree(k) /\ Submit(j, k, p)
                          /\ late' = IF Outdated(k) THEN late \cup {j} ELSE late
    BY <1>3 DEF Claim
  <2>2. k \in AllKinds
    BY <1>3 DEF Claim, TypeInv, ProcessTypes
  <2>3. /\ what'[j] = k
        /\ \A i \in Jobs \ {j} : pc'[i] = pc[i] /\ what'[i] = what[i]
    BY <2>1 DEF Submit, TypeInv, JobInv, JobTypes
  <2>4. \A i \in Jobs \ {j} : Engaged(i)' => Engaged(i)
    BY <2>3 DEF Engaged
  <2>5. ASSUME NEW i \in Jobs \ {j}, Engaged(i), {what[i], k} \subseteq Exclusive
        PROVE  j \in late'
    <3>1. Row(i) = what[i] /\ Running(what[i])
      BY <2>5, EngagedIsVisible DEF Row, Exclusive, AllKinds
    <3>2. k # what[i]
      BY <2>1, <3>1 DEF RowIsFree
    <3>3. PICK n \in 1..Len(Checks(k)) : Checks(k)[n] = what[i]
      BY <2>5, <3>2, ChecksAreComplete
    <3>. QED
      BY <2>1, <3>1, <3>3 DEF Outdated
  <2>. HIDE DEF k
  <2>. SUFFICES ASSUME NEW i \in Jobs, NEW h \in Jobs, i # h, Engaged(i)', Engaged(h)',
                       {what'[i], what'[h]} \subseteq Exclusive
                PROVE  i \in late' \/ h \in late'
    BY DEF RivalInv
  <2>6. CASE i = j
    BY <2>3, <2>4, <2>5, <2>6
  <2>7. CASE h = j
    BY <2>3, <2>4, <2>5, <2>7
  <2>8. CASE i # j /\ h # j
    BY <2>1, <2>3, <2>4, <2>8 DEF RivalInv
  <2>. QED
    BY <2>6, <2>7, <2>8
<1>. QED
  BY <1>1, <1>2, <1>3 DEF Handler, Request, Check, StartMonitor

\* Processes come and go without engaging a job.
LEMMA LifetimeRivals ==
  ASSUME TypeInv, RivalInv,
         \/ \E p \in Processes : Lifetime(p)
         \/ \E k \in AllKinds : LeaseExpires(k)
         \/ UNCHANGED vars
  PROVE  RivalInv'
<1>1. what' = what /\ late' = late
  BY DEF Lifetime, StartProcess, Stop, Exit, Crash, GoesStale, Rejoins, LeaseExpires, vars, jobVars
<1>2. \A i \in Jobs : pc'[i] = pc[i] \/ pc'[i] = "ended"
  BY DEF Lifetime, StartProcess, Stop, Exit, Crash, GoesStale, Rejoins, LeaseExpires, vars, jobVars
<1>. QED
  BY <1>1, <1>2, RivalsKept DEF Engaged

\* Every step keeps the invariant until a heartbeat stalls.
LEMMA RivalStep ==
  /\ Init => RivalInv
  /\ TypeInv /\ (Fresh => LeaseInv) /\ (Fresh => RivalInv) /\ [Next]_vars => (Fresh => RivalInv)'
<1>1. Init => RivalInv
  BY DEF Init, RivalInv, Engaged
<1>2. ASSUME TypeInv, Fresh => LeaseInv, Fresh => RivalInv, [Next]_vars, Fresh'
      PROVE  RivalInv'
  <2>1. LeaseInv /\ RivalInv
    BY <1>2, StallsAdd
  <2>. QED
    BY <1>2, <2>1, HandlerRivals, LifetimeRivals, ThreadRivals DEF Next
<1>. QED
  BY <1>1, <1>2

\* With any number of web processes, monitors, stops, crashes and failing
\* statements, and no stalled heartbeat, two jobs of excluding kinds that handlers
\* started work at the same time only if one was claimed between a check of the
\* other's row and that row's claim.
THEOREM OnlyLateJobsCompete == Spec => []OnlyLateClaimsCompete
<1>1. (Fresh => RivalInv) => OnlyLateClaimsCompete
  BY DEF RivalInv, OnlyLateClaimsCompete, Mutating, Engaged
<1>. QED
  BY <1>1, InitTypes, TypesStep, LeaseStep, RivalStep, PTL DEF Spec
=============================================================================
