----------------------- MODULE ProviderPayments_proofs -----------------------
(***************************************************************************)
(* Proofs about ProviderPayments, for any number of rows, callbacks, zap   *)
(* events, worker processes, crashes and database faults.                  *)
(***************************************************************************)
EXTENDS ProviderPayments, TLAPS

-----------------------------------------------------------------------------
(* Lemmas about the operators that write a column.                         *)

\* A conditional update of a column stays within the column's type.
LEMMA SetType ==
  ASSUME NEW T, NEW column \in [Payments -> T], NEW i, NEW expected, NEW value \in T
  PROVE  Set(column, i, expected, value) \in [Payments -> T]
BY DEF Set

\* A compare-and-swap keeps every row's status in Status.
LEMMA CASType ==
  ASSUME status \in [Payments -> Status], NEW i, NEW expected, NEW new \in Status,
         CAS(i, expected, new)
  PROVE  status' \in [Payments -> Status]
BY DEF CAS

\* The saturating attempt counter stays within its bound.
LEMMA BumpType ==
  ASSUME NEW n \in 0..MaxSettlementAttempts
  PROVE  Bump(n) \in 0..MaxSettlementAttempts
BY ConstantsAssumption DEF Bump

-----------------------------------------------------------------------------
(* Types.                                                                  *)

\* Inserting a row keeps the columns in their types.
LEMMA InsertTypes ==
  ASSUME Types, NEW i \in Payments, NEW r \in Requests, NEW e \in Events \cup {NoEvent},
         NEW initial \in Status, Insert(i, r, e, initial)
  PROVE  /\ RowTypes' /\ WorldTypes' /\ WorkerTypes'
         /\ reqPay' \in [Requests -> Payments \cup {NoJob}]
         /\ reqEvent' = reqEvent /\ shown' = shown
<1>1. RowTypes'
  BY DEF Types, RowTypes, Insert
<1>2. WorldTypes' /\ WorkerTypes'
  BY DEF Types, WorldTypes, WorkerTypes, Insert, worldVars, workerVars
<1>3. reqPay' \in [Requests -> Payments \cup {NoJob}] /\ reqEvent' = reqEvent /\ shown' = shown
  BY DEF Types, WebTypes, Insert
<1>. QED
  BY <1>1, <1>2, <1>3

\* A callback's program counter stays in ReqPcs.
LEMMA WebStepType ==
  ASSUME reqPc \in [Requests -> ReqPcs], NEW r \in Requests, NEW from, NEW to \in ReqPcs,
         WebStep(r, from, to)
  PROVE  reqPc' \in [Requests -> ReqPcs]
BY DEF WebStep

\* A callback that answers keeps its own state in its type.
LEMMA AnswerTypes ==
  ASSUME WebTypes, NEW r \in Requests, NEW from, NEW i \in Payments, Answer(r, from, i),
         reqEvent' \in [Requests -> Events \cup {NoEvent}]
  PROVE  WebTypes'
<1>1. reqPc' \in [Requests -> ReqPcs]
  BY WebStepType DEF Answer, WebTypes, ReqPcs
<1>. QED
  BY <1>1 DEF Answer, WebTypes

\* Steps of a callback that touch neither the rows nor the mint nor the worker.
LEMMA RestUnchanged ==
  ASSUME Types, UNCHANGED <<rowVars, worldVars, workerVars>>
  PROVE  RowTypes' /\ WorldTypes' /\ WorkerTypes'
BY DEF Types, RowTypes, WorldTypes, WorkerTypes, rowVars, worldVars, workerVars

\* Every callback step keeps the columns and the process states in their types.
LEMMA WebTypesStep ==
  ASSUME TypeOK, NEW r \in Requests, Web(r)
  PROVE  Types'
<1>. USE DEF Types, TypeOK
<1>1. CASE Callback(r)
  <2>. PICK i \in Payments : Insert(i, r, NoEvent, "QUOTE_PENDING")
    BY <1>1 DEF Callback
  <2>1. "QUOTE_PENDING" \in Status /\ "waiting" \in ReqPcs /\ WebStep(r, "idle", "waiting")
    BY <1>1 DEF Status, ReqPcs, Callback
  <2>2. reqPc' \in [Requests -> ReqPcs]
    BY <2>1, WebStepType DEF WebTypes
  <2>. QED
    BY <2>1, <2>2, InsertTypes DEF WebTypes
<1>2. CASE LookupZap(r)
  <2>. PICK e \in Events : 
       /\ reqEvent' = [reqEvent EXCEPT ![r] = e]
       /\ UNCHANGED <<rowVars, worldVars, workerVars>>
       /\ \/ WebStep(r, "idle", "absent") /\ UNCHANGED <<reqPay, shown>>
          \/ \E i \in ZapRows(e) : quote[i] # "none" /\ Answer(r, "idle", i)
          \/ \E i \in ZapRows(e) : /\ WebStep(r, "idle", "waiting")
                                   /\ reqPay' = [reqPay EXCEPT ![r] = i] /\ UNCHANGED shown
    BY <1>2 DEF LookupZap
  <2>1. ZapRows(e) \subseteq Payments
    BY DEF ZapRows
  <2>2. reqEvent' \in [Requests -> Events \cup {NoEvent}]
    BY DEF WebTypes
  <2>3. CASE WebStep(r, "idle", "absent") /\ UNCHANGED <<reqPay, shown>>
    BY <2>2, <2>3, WebStepType, RestUnchanged DEF WebTypes, ReqPcs
  <2>4. CASE \E i \in ZapRows(e) : quote[i] # "none" /\ Answer(r, "idle", i)
    BY <2>1, <2>2, <2>4, AnswerTypes, RestUnchanged
  <2>5. CASE \E i \in ZapRows(e) : /\ WebStep(r, "idle", "waiting")
                                   /\ reqPay' = [reqPay EXCEPT ![r] = i] /\ UNCHANGED shown
    BY <2>1, <2>2, <2>5, WebStepType, RestUnchanged DEF WebTypes, ReqPcs
  <2>. QED
    BY <2>3, <2>4, <2>5
<1>3. CASE InsertZap(r)
  <2>. PICK i \in Payments : Insert(i, r, reqEvent[r], "QUOTE_CREATING")
    BY <1>3 DEF InsertZap
  <2>1. /\ "QUOTE_CREATING" \in Status /\ "creating" \in ReqPcs
        /\ WebStep(r, "absent", "creating") /\ reqEvent[r] \in Events \cup {NoEvent}
    BY <1>3 DEF Status, ReqPcs, InsertZap, WebTypes
  <2>2. reqPc' \in [Requests -> ReqPcs]
    BY <2>1, WebStepType DEF WebTypes
  <2>. QED
    BY <2>1, <2>2, InsertTypes DEF WebTypes
<1>4. CASE InsertZapConflict(r)
  BY <1>4, RestUnchanged, WebStepType DEF InsertZapConflict, WebTypes, ReqPcs
<1>5. CASE CreateZapInvoice(r)
  <2>. DEFINE i == reqPay[r]
  <2>0. reqPc[r] = "creating" /\ i \in Payments
    BY <1>5 DEF CreateZapInvoice, RowsInHand
  <2>1. WorkerTypes' /\ reqEvent' = reqEvent
    BY <1>5 DEF CreateZapInvoice, WorkerTypes, workerVars
  <2>2. CASE /\ Answer(r, "creating", i)
             /\ status' = [status EXCEPT ![i] = "INVOICE_PENDING"]
             /\ quote' = [quote EXCEPT ![i] = "open"]
             /\ nextCheck' = [nextCheck EXCEPT ![i] = "due"]
    <3>1. RowTypes'
      BY <1>5, <2>0, <2>2 DEF CreateZapInvoice, RowTypes, Status, Polled
    <3>2. WorldTypes'
      BY <1>5, <2>0, <2>2 DEF CreateZapInvoice, WorldTypes, Quotes
    <3>3. WebTypes'
      BY <2>0, <2>1, <2>2, AnswerTypes DEF WebTypes
    <3>. QED
      BY <2>1, <3>1, <3>2, <3>3
  <2>3. CASE /\ WebStep(r, "creating", "error") /\ CAS(i, {"QUOTE_CREATING"}, "FAILED")
             /\ UNCHANGED <<quote, nextCheck, reqPay, shown>>
    <3>1. RowTypes'
      BY <1>5, <2>3, CASType DEF CreateZapInvoice, RowTypes, Status
    <3>2. WorldTypes'
      BY <1>5, <2>3 DEF CreateZapInvoice, WorldTypes
    <3>3. WebTypes'
      BY <2>1, <2>3, WebStepType DEF WebTypes, ReqPcs
    <3>. QED
      BY <2>1, <3>1, <3>2, <3>3
  <2>. QED
    BY <1>5, <2>2, <2>3 DEF CreateZapInvoice
<1>6. CASE WaitForInvoice(r)
  <2>. DEFINE i == reqPay[r]
  <2>1. i \in Payments /\ UNCHANGED <<rowVars, worldVars, workerVars, reqEvent>>
    BY <1>6 DEF WaitForInvoice, RowsInHand
  <2>2. CASE Answer(r, "waiting", i)
    BY <2>1, <2>2, AnswerTypes, RestUnchanged DEF WebTypes
  <2>3. CASE /\ UNCHANGED <<reqPay, shown>>
             /\ WebStep(r, "waiting", IF status[i] = "FAILED" THEN "error" ELSE "timeout")
    BY <2>1, <2>3, WebStepType, RestUnchanged DEF WebTypes, ReqPcs
  <2>. QED
    BY <1>6, <2>2, <2>3 DEF WaitForInvoice
<1>7. CASE WebCrash(r)
  BY <1>7, RestUnchanged DEF WebCrash, WebTypes, ReqPcs
<1>. QED
  BY <1>1, <1>2, <1>3, <1>4, <1>5, <1>6, <1>7 DEF Web

\* Every callback step leaves each callback and worker with a row in hand.
LEMMA WebHandsStep ==
  ASSUME TypeOK, NEW r \in Requests, Web(r)
  PROVE  RowsInHand'
<1>. USE DEF TypeOK, Types, WebTypes
<1>1. UNCHANGED <<stage, job>>
  BY DEF Web, Callback, LookupZap, InsertZap, InsertZapConflict, CreateZapInvoice, WaitForInvoice,
         WebCrash, Insert, workerVars
<1>2. \A q \in Requests \ {r} : reqPc'[q] = reqPc[q] /\ reqPay'[q] = reqPay[q]
  <2>1. CASE Callback(r) \/ InsertZap(r) \/ InsertZapConflict(r) \/ WebCrash(r)
    BY <2>1 DEF Callback, InsertZap, InsertZapConflict, WebCrash, Insert, WebStep
  <2>2. CASE LookupZap(r) \/ CreateZapInvoice(r) \/ WaitForInvoice(r)
    BY <2>2 DEF LookupZap, CreateZapInvoice, WaitForInvoice, Answer, WebStep
  <2>. QED
    BY <2>1, <2>2 DEF Web
<1>3. reqPc'[r] \in {"creating", "waiting"} => reqPay'[r] \in Payments
  <2>1. CASE Callback(r) \/ InsertZap(r) \/ InsertZapConflict(r) \/ WebCrash(r)
    BY <2>1 DEF Callback, InsertZap, InsertZapConflict, WebCrash, Insert, WebStep
  <2>2. CASE LookupZap(r)
    BY <2>2 DEF LookupZap, Answer, WebStep, ZapRows
  <2>3. CASE CreateZapInvoice(r) \/ WaitForInvoice(r)
    BY <2>3 DEF CreateZapInvoice, WaitForInvoice, Answer, WebStep
  <2>. QED
    BY <2>1, <2>2, <2>3 DEF Web
<1>. QED
  BY <1>1, <1>2, <1>3 DEF RowsInHand

\* A worker's step leaves the world and the callbacks alone unless it says so.
LEMMA WebRest ==
  ASSUME Types, UNCHANGED webVars
  PROVE  WebTypes'
BY DEF Types, WebTypes, webVars

LEMMA WorldRest ==
  ASSUME Types, UNCHANGED worldVars
  PROVE  WorldTypes'
BY DEF Types, WorldTypes, worldVars

LEMMA RowRest ==
  ASSUME Types, UNCHANGED rowVars
  PROVE  RowTypes'
BY DEF Types, RowTypes, rowVars

LEMMA WorkerRest ==
  ASSUME Types, UNCHANGED workerVars
  PROVE  WorkerTypes'
BY DEF Types, WorkerTypes, workerVars

\* The stage ends and its row is put down.
LEMMA FinishTypes ==
  ASSUME Types, NEW w \in Workers, NEW from, NEW to \in Stages, Finish(w, from, to)
  PROVE  WorldTypes' /\ WorkerTypes' /\ WebTypes'
<1>1. WorkerTypes'
  BY DEF Types, WorkerTypes, Finish, At, Outcomes
<1>. QED
  BY <1>1, WebRest, WorldRest DEF Finish

\* An awaited call returns.
LEMMA ReturnTypes ==
  ASSUME Types, NEW w \in Workers, NEW result \in Outcomes, Return(w, result)
  PROVE  RowTypes' /\ WorkerTypes' /\ WebTypes'
<1>1. WorkerTypes'
  BY DEF Types, WorkerTypes, Return
<1>. QED
  BY <1>1, WebRest, RowRest DEF Return

\* A row is taken in hand.
LEMMA TakeTypes ==
  ASSUME Types, NEW w \in Workers, NEW i \in Payments, NEW from, NEW to \in Stages,
         Take(w, i, from, to), UNCHANGED <<worldVars, lock, outcome, seen, cooling, faults, webVars>>
  PROVE  WorldTypes' /\ WorkerTypes' /\ WebTypes'
<1>1. WorkerTypes'
  BY DEF Types, WorkerTypes, Take, At
<1>. QED
  BY <1>1, WebRest, WorldRest

\* Starting, and the steps of a cycle up to discovery, keep the types.
LEMMA StartTypes ==
  ASSUME TypeOK, NEW w \in Workers, Start(w)
  PROVE  Types'
<1>. USE DEF TypeOK, Types
<1>1. CASE Acquire(w)
  <2>1. WorkerTypes'
    BY <1>1 DEF Acquire, WorkerTypes, At, Stages
  <2>. QED
    BY <1>1, <2>1, RowRest, WorldRest, WebRest DEF Acquire
<1>2. CASE ReconcileLegacy(w)
  <2>1. WorkerTypes'
    BY <1>2 DEF ReconcileLegacy, WorkerTypes, At, Stages
  <2>2. RowTypes'
    BY <1>2 DEF ReconcileLegacy, RowTypes, Status, Polled
  <2>. QED
    BY <1>2, <2>1, <2>2, WorldRest, WebRest DEF ReconcileLegacy
<1>3. CASE Quarantine(w)
  <2>1. WorkerTypes'
    BY <1>3 DEF Quarantine, WorkerTypes, At, Stages
  <2>2. RowTypes'
    <3>1. \A s \in Status : Quarantined(s) \in Status
      BY DEF Quarantined, Status, Claims, Forwarded
    <3>2. status' \in [Payments -> Status]
      BY <1>3, <3>1 DEF Quarantine, RowTypes
    <3>. QED
      BY <1>3, <3>2 DEF Quarantine, RowTypes
  <2>. QED
    BY <1>3, <2>1, <2>2, WorldRest, WebRest DEF Quarantine
<1>. QED
  BY <1>1, <1>2, <1>3 DEF Start

\* Creating an invoice and reading quote states keep the types.
LEMMA DiscoveryTypes ==
  ASSUME TypeOK, NEW w \in Workers,
         \/ SkipStage(w) \/ ClaimQuote(w) \/ CreateInvoice(w) \/ StartDiscovery(w)
         \/ ReadQuoteState(w) \/ ApplyReading(w) \/ PersistCooldown(w)
  PROVE  Types'
<1>. USE DEF TypeOK, Types
<1>1. CASE SkipStage(w)
  <2>1. WorkerTypes'
    BY <1>1 DEF SkipStage, WorkerTypes, At, Stages
  <2>. QED
    BY <1>1, <2>1, RowRest, WorldRest, WebRest DEF SkipStage
<1>2. CASE ClaimQuote(w)
  <2>. PICK i \in Payments :
       /\ Take(w, i, "quote", "quoting")
       /\ CAS(i, {"QUOTE_PENDING"}, "WORKER_QUOTE_CREATING")
       /\ nextCheck' = Set(nextCheck, i, {"QUOTE_PENDING"}, "null")
       /\ UNCHANGED <<zapEvent, attempts, deliveryAttempts, hasEventId, legacyError, closed,
                      worldVars, lock, outcome, seen, cooling, faults, webVars>>
    BY <1>2 DEF ClaimQuote, Candidates
  <2>1. RowTypes'
    BY CASType, SetType DEF RowTypes, Status, Claims
  <2>. QED
    BY <2>1, TakeTypes DEF Stages
<1>3. CASE CreateInvoice(w)
  <2>. DEFINE i == job[w]
  <2>1. WorkerTypes'
    BY <1>3 DEF CreateInvoice, WorkerTypes, At, Stages
  <2>2. status' \in [Payments -> Status]
    BY <1>3, CASType DEF CreateInvoice, RowTypes, Status, Polled
  <2>3. nextCheck' \in [Payments -> {"null", "due", "later"}]
    BY <1>3 DEF CreateInvoice, RowTypes, Set
  <2>4. RowTypes'
    BY <1>3, <2>2, <2>3 DEF CreateInvoice, RowTypes
  <2>5. quote' \in [Payments -> Quotes]
    BY <1>3 DEF CreateInvoice, WorldTypes, Quotes, Set
  <2>6. WorldTypes'
    BY <1>3, <2>5 DEF CreateInvoice, WorldTypes
  <2>. QED
    BY <1>3, <2>1, <2>4, <2>6, WebRest DEF CreateInvoice
<1>4. CASE StartDiscovery(w)
  <2>1. WorkerTypes'
    BY <1>4 DEF StartDiscovery, WorkerTypes, At, Stages, Readings
  <2>. QED
    BY <1>4, <2>1, RowRest, WorldRest, WebRest DEF StartDiscovery
<1>5. CASE ReadQuoteState(w)
  <2>1. seen' \in [Workers -> [Payments -> Readings]]
    BY <1>5 DEF ReadQuoteState, WorkerTypes
  <2>2. cooling' \in [Workers -> BOOLEAN] /\ faults' \in [crash : Nat, db : Nat, mint : Nat]
    <3>1. CASE UNCHANGED <<cooling, faults>>
      BY <3>1 DEF WorkerTypes
    <3>2. CASE ReadFails(w)
      <4>1. \E transient \in BOOLEAN : cooling' = [cooling EXCEPT ![w] = transient]
        BY <3>2 DEF ReadFails
      <4>2. cooling' \in [Workers -> BOOLEAN]
        BY <4>1 DEF WorkerTypes
      <4>3. faults' \in [crash : Nat, db : Nat, mint : Nat]
        BY <3>2 DEF ReadFails, WorkerTypes
      <4>. QED
        BY <4>2, <4>3
    <3>. QED
      BY <1>5, <3>1, <3>2 DEF ReadQuoteState
  <2>. QED
    BY <1>5, <2>1, <2>2, RowRest, WorldRest, WebRest DEF ReadQuoteState, WorkerTypes
<1>6. CASE ApplyReading(w)
  <2>. PICK i \in Payments :
       /\ At(w, "discovering", "cooldown") \/ At(w, "discovering", "discovering")
       /\ seen' = [seen EXCEPT ![w][i] = "unasked"]
       /\ CAS(i, Polled, AfterReading(i, seen[w][i]))
       /\ attempts' = Set(attempts, i, Polled, IF seen[w][i] = "DEFERRED" THEN attempts[i]
                                                ELSE Bump(attempts[i]))
       /\ nextCheck' = Set(nextCheck, i, Polled, IF seen[w][i] \in {"PAID", "NOT_FOUND"}
                                                  THEN "null" ELSE "later")
       /\ UNCHANGED <<zapEvent, deliveryAttempts, hasEventId, legacyError, closed, worldVars,
                      lock, job, outcome, cooling, faults, webVars>>
    <3>. HIDE DEF TypeOK, Types
    <3>. QED
      BY <1>6, Zenon DEF ApplyReading
  <2>1. WorkerTypes'
    BY DEF WorkerTypes, At, Stages, Readings
  <2>2. AfterReading(i, seen[w][i]) \in Status
    BY DEF AfterReading, AfterUnpaid, Status, Polled, RowTypes
  <2>3. Bump(attempts[i]) \in 0..MaxSettlementAttempts
    BY BumpType DEF RowTypes
  <2>4. RowTypes'
    BY <2>2, <2>3, CASType, SetType DEF RowTypes
  <2>. QED
    BY <2>1, <2>4, WorldRest, WebRest
<1>7. CASE PersistCooldown(w)
  <2>1. WorkerTypes'
    BY <1>7 DEF PersistCooldown, WorkerTypes, At, Stages
  <2>2. RowTypes'
    BY <1>7 DEF PersistCooldown, RowTypes
  <2>. QED
    BY <1>7, <2>1, <2>2, WorldRest, WebRest DEF PersistCooldown
<1>. QED
  BY <1>1, <1>2, <1>3, <1>4, <1>5, <1>6, <1>7

\* Reconciling, delivering and publishing keep the types.
LEMMA DeliveryTypes ==
  ASSUME TypeOK, NEW w \in Workers,
         \/ SelectPaid(w) \/ CheckQuote(w) \/ CommitReconcile(w)
         \/ ClaimDelivery(w) \/ SendEcash(w) \/ CommitDelivery(w)
         \/ ClaimReceipt(w) \/ PublishReceipt(w) \/ CommitReceipt(w) \/ NextCycle(w)
  PROVE  Types'
<1>. USE DEF TypeOK, Types
<1>1. CASE SelectPaid(w)
  <2>. PICK i \in Payments :
       /\ Take(w, i, "reconcile", "reconciling")
       /\ UNCHANGED <<rowVars, worldVars, lock, outcome, seen, cooling, faults, webVars>>
    BY <1>1 DEF SelectPaid, Candidates
  <2>. QED
    BY TakeTypes, RowRest DEF Stages
<1>2. CASE CheckQuote(w)
  <2>1. PICK result \in Outcomes : Return(w, result)
    BY <1>2 DEF CheckQuote, Outcomes
  <2>2. WorldTypes'
    BY <1>2 DEF CheckQuote, WorldTypes, Quotes
  <2>. QED
    BY <2>1, <2>2, ReturnTypes
<1>3. CASE CommitReconcile(w)
  <2>. DEFINE i == job[w]
  <2>1. WorldTypes' /\ WorkerTypes' /\ WebTypes'
    BY <1>3, FinishTypes DEF CommitReconcile, Stages
  <2>2. AfterCheck(outcome[w]) \in Status
    BY DEF AfterCheck, Status
  <2>3. status' \in [Payments -> Status]
    BY <1>3, <2>2, CASType DEF CommitReconcile, RowTypes
  <2>4. attempts' \in [Payments -> 0..MaxSettlementAttempts]
    BY <1>3, BumpType DEF CommitReconcile, RowTypes, Set
  <2>5. nextCheck' \in [Payments -> {"null", "due", "later"}]
    BY <1>3, SetType DEF CommitReconcile, RowTypes
  <2>6. RowTypes'
    BY <1>3, <2>3, <2>4, <2>5 DEF CommitReconcile, RowTypes
  <2>. QED
    BY <2>1, <2>6
<1>4. CASE ClaimDelivery(w)
  <2>. PICK i \in Payments :
       /\ Take(w, i, "deliver", "delivering")
       /\ CAS(i, {"SETTLED"}, "DELIVERING")
       /\ deliveryAttempts' = Set(deliveryAttempts, i, {"SETTLED"}, deliveryAttempts[i] + 1)
       /\ nextCheck' = Set(nextCheck, i, {"SETTLED"}, "null")
       /\ UNCHANGED <<zapEvent, attempts, hasEventId, legacyError, closed, worldVars,
                      lock, outcome, seen, cooling, faults, webVars>>
    BY <1>4 DEF ClaimDelivery, Candidates
  <2>1. status' \in [Payments -> Status]
    BY CASType DEF RowTypes, Status, Claims
  <2>2. deliveryAttempts' \in [Payments -> Nat]
    BY DEF RowTypes, Set
  <2>3. RowTypes'
    BY <2>1, <2>2, SetType DEF RowTypes
  <2>. QED
    BY <2>3, TakeTypes DEF Stages
<1>5. CASE SendEcash(w)
  <2>1. PICK result \in Outcomes : Return(w, result)
    BY <1>5 DEF SendEcash, Outcomes
  <2>2. WorldTypes'
    BY <1>5 DEF SendEcash, WorldTypes
  <2>. QED
    BY <2>1, <2>2, ReturnTypes
<1>6. CASE CommitDelivery(w)
  <2>. DEFINE i == job[w]  after == AfterDelivery(i, outcome[w])
  <2>1. WorldTypes' /\ WorkerTypes' /\ WebTypes'
    BY <1>6, FinishTypes DEF CommitDelivery, Stages
  <2>2. after \in Status
    BY DEF AfterDelivery, Status, Forwarded
  <2>3. status' \in [Payments -> Status]
    BY <1>6, <2>2, CASType DEF CommitDelivery, RowTypes
  <2>4. nextCheck' \in [Payments -> {"null", "due", "later"}]
    BY <1>6, SetType DEF CommitDelivery, RowTypes
  <2>5. hasEventId' \in [Payments -> BOOLEAN]
    BY <1>6 DEF CommitDelivery, RowTypes, Set
  <2>6. RowTypes'
    BY <1>6, <2>3, <2>4, <2>5 DEF CommitDelivery, RowTypes
  <2>. QED
    BY <2>1, <2>6
<1>7. CASE ClaimReceipt(w)
  <2>. PICK i \in Payments :
       /\ Take(w, i, "receipt", "publishing")
       /\ CAS(i, {"RECEIPT_PENDING"}, "RECEIPT_PUBLISHING")
       /\ UNCHANGED <<zapEvent, attempts, deliveryAttempts, nextCheck, hasEventId, legacyError,
                      closed, worldVars, lock, outcome, seen, cooling, faults, webVars>>
    BY <1>7 DEF ClaimReceipt, Candidates
  <2>1. RowTypes'
    BY CASType DEF RowTypes, Status, Claims
  <2>. QED
    BY <2>1, TakeTypes DEF Stages
<1>8. CASE PublishReceipt(w)
  <2>1. PICK result \in Outcomes : Return(w, result)
    BY <1>8 DEF PublishReceipt, Outcomes
  <2>2. WorldTypes'
    BY <1>8 DEF PublishReceipt, WorldTypes
  <2>. QED
    BY <2>1, <2>2, ReturnTypes
<1>9. CASE CommitReceipt(w)
  <2>1. WorldTypes' /\ WorkerTypes' /\ WebTypes'
    BY <1>9, FinishTypes DEF CommitReceipt, Stages
  <2>2. status' \in [Payments -> Status]
    BY <1>9, CASType DEF CommitReceipt, RowTypes, Status, Forwarded
  <2>3. RowTypes'
    BY <1>9, <2>2 DEF CommitReceipt, RowTypes
  <2>. QED
    BY <2>1, <2>3
<1>10. CASE NextCycle(w)
  <2>1. WorkerTypes'
    BY <1>10 DEF NextCycle, WorkerTypes, At, Stages
  <2>. QED
    BY <1>10, <2>1, RowRest, WorldRest, WebRest DEF NextCycle
<1>. QED
  BY <1>1, <1>2, <1>3, <1>4, <1>5, <1>6, <1>7, <1>8, <1>9, <1>10

\* Faults, stops and the end of a cooldown keep the types.
LEMMA FaultTypes ==
  ASSUME TypeOK, NEW w \in Workers, Fault(w) \/ Stop(w) \/ CooldownOver(w)
  PROVE  Types'
<1>. USE DEF TypeOK, Types
<1>1. CASE RecordDeliveryRaises(w)
  <2>1. faults' \in [crash : Nat, db : Nat, mint : Nat]
    BY <1>1 DEF RecordDeliveryRaises, WorkerTypes
  <2>2. WorkerTypes'
    BY <1>1, <2>1 DEF RecordDeliveryRaises, WorkerTypes, At, Stages, Outcomes
  <2>3. status' \in [Payments -> Status]
    BY <1>1, CASType DEF RecordDeliveryRaises, RowTypes, Status
  <2>4. RowTypes'
    BY <1>1, <2>3, SetType DEF RecordDeliveryRaises, RowTypes
  <2>. QED
    BY <1>1, <2>2, <2>4, WorldRest, WebRest DEF RecordDeliveryRaises
<1>2. CASE CycleFails(w)
  <2>1. faults' \in [crash : Nat, db : Nat, mint : Nat]
    BY <1>2 DEF CycleFails, WorkerTypes
  <2>2. WorkerTypes'
    BY <1>2, <2>1 DEF CycleFails, Forget, WorkerTypes, Stages, Outcomes, Readings
  <2>. QED
    BY <1>2, <2>2, RowRest, WorldRest, WebRest DEF CycleFails, Forget
<1>3. CASE Leave(w) /\ faults' \in [crash : Nat, db : Nat, mint : Nat]
  <2>1. WorkerTypes'
    BY <1>3 DEF Leave, Forget, WorkerTypes, Stages, Outcomes, Readings
  <2>. QED
    BY <1>3, <2>1, RowRest, WorldRest, WebRest DEF Leave, Forget
<1>4. CASE Stop(w)
  BY <1>3, <1>4 DEF Stop, WorkerTypes
<1>5. CASE Crash(w)
  <2>1. faults' \in [crash : Nat, db : Nat, mint : Nat]
    BY <1>5 DEF Crash, WorkerTypes
  <2>. QED
    BY <1>3, <1>5, <2>1 DEF Crash
<1>6. CASE CooldownOver(w)
  <2>1. WorkerTypes'
    BY <1>6 DEF CooldownOver, WorkerTypes
  <2>. QED
    BY <1>6, <2>1, RowRest, WorldRest, WebRest DEF CooldownOver
<1>. QED
  BY <1>1, <1>2, <1>4, <1>5, <1>6 DEF Fault

\* The operator, the payer, the mint and the clock keep the types.
LEMMA EnvironmentTypes ==
  ASSUME TypeOK, NEW i \in Payments,
         ClosePayment(i) \/ Pay(i) \/ MintDrops(i) \/ DeadlinePasses(i)
  PROVE  Types'
<1>. USE DEF TypeOK, Types
<1>1. CASE ClosePayment(i)
  <2>1. RowTypes'
    BY <1>1 DEF ClosePayment, RowTypes, Status
  <2>. QED
    BY <1>1, <2>1, WorldRest, WorkerRest, WebRest DEF ClosePayment
<1>2. CASE Pay(i)
  <2>1. WorldTypes'
    BY <1>2 DEF Pay, WorldTypes
  <2>. QED
    BY <1>2, <2>1, RowRest, WorkerRest, WebRest DEF Pay
<1>3. CASE MintDrops(i)
  <2>1. WorldTypes'
    BY <1>3 DEF MintDrops, WorldTypes, Quotes
  <2>. QED
    BY <1>3, <2>1, RowRest, WorkerRest, WebRest DEF MintDrops
<1>4. CASE DeadlinePasses(i)
  <2>1. RowTypes'
    BY <1>4 DEF DeadlinePasses, RowTypes
  <2>. QED
    BY <1>4, <2>1, WorldRest, WorkerRest, WebRest DEF DeadlinePasses
<1>. QED
  BY <1>1, <1>2, <1>3, <1>4

\* A worker's step leaves each worker with a row in hand.
LEMMA WorkerHandsStep ==
  ASSUME TypeOK, NEW w \in Workers,
         Start(w) \/ Cycle(w) \/ Fault(w) \/ Stop(w) \/ CooldownOver(w)
  PROVE  RowsInHand'
<1>. USE DEF TypeOK, Types, WorkerTypes
<1>. DEFINE InHand(v) == stage[v] \in {"quoting", "reconciling", "delivering", "publishing"}
                           => job[v] \in Payments
<1>1. UNCHANGED <<reqPc, reqPay>> /\ (\A v \in Workers \ {w} : stage'[v] = stage[v] /\ job'[v] = job[v])
      /\ (InHand(w))'
  <2>1. CASE Start(w)
    BY <2>1 DEF Start, Acquire, ReconcileLegacy, Quarantine, At, webVars
  <2>2. CASE \/ SkipStage(w) \/ StartDiscovery(w) \/ PersistCooldown(w)
             \/ NextCycle(w) \/ CooldownOver(w)
    BY <2>2 DEF SkipStage, StartDiscovery, PersistCooldown, NextCycle, CooldownOver, At, webVars,
                RowsInHand
  <2>3. CASE ClaimQuote(w) \/ SelectPaid(w) \/ ClaimDelivery(w) \/ ClaimReceipt(w)
    BY <2>3 DEF ClaimQuote, SelectPaid, ClaimDelivery, ClaimReceipt, Take, At, Candidates, webVars
  <2>4. CASE CreateInvoice(w) \/ ApplyReading(w)
    BY <2>4 DEF CreateInvoice, ApplyReading, At, webVars
  <2>5. CASE ReadQuoteState(w) \/ CheckQuote(w) \/ SendEcash(w) \/ PublishReceipt(w)
    BY <2>5 DEF ReadQuoteState, CheckQuote, SendEcash, PublishReceipt, Return, webVars, RowsInHand
  <2>6. CASE CommitReconcile(w) \/ CommitDelivery(w) \/ CommitReceipt(w)
    BY <2>6 DEF CommitReconcile, CommitDelivery, CommitReceipt, Finish, At, webVars
  <2>7. CASE Fault(w) \/ Stop(w)
    BY <2>7 DEF Fault, Stop, RecordDeliveryRaises, CycleFails, Crash, Leave, Forget, At, webVars
  <2>. QED
    BY <2>1, <2>2, <2>3, <2>4, <2>5, <2>6, <2>7 DEF Cycle
<1>. QED
  BY <1>1 DEF RowsInHand

\* Columns, world and process states start in their types.
LEMMA InitTypes == Init => TypeOK
<1>. SUFFICES ASSUME Init PROVE TypeOK
  OBVIOUS
<1>1. RowTypes
  BY ConstantsAssumption DEF Init, RowTypes, Status, Payments
<1>2. WorldTypes
  BY ConstantsAssumption DEF Init, WorldTypes, Quotes, Payments
<1>3. WorkerTypes
  BY DEF Init, WorkerTypes, Stages, Outcomes, Readings
<1>4. WebTypes
  BY ConstantsAssumption DEF Init, WebTypes, ReqPcs, Payments
<1>5. RowsInHand
  BY DEF Init, RowsInHand
<1>. QED
  BY <1>1, <1>2, <1>3, <1>4, <1>5 DEF TypeOK, Types

\* Every step keeps the types, and rows in the hands that need them.
LEMMA TypesStep ==
  ASSUME TypeOK, [Next]_vars
  PROVE  TypeOK'
<1>1. CASE \E r \in Requests : Web(r)
  BY <1>1, WebTypesStep, WebHandsStep DEF TypeOK
<1>2. CASE \E w \in Workers : Start(w) \/ Cycle(w) \/ Fault(w) \/ Stop(w) \/ CooldownOver(w)
  <2>. PICK w \in Workers : Start(w) \/ Cycle(w) \/ Fault(w) \/ Stop(w) \/ CooldownOver(w)
    BY <1>2
  <2>1. Types'
    BY StartTypes, DiscoveryTypes, DeliveryTypes, FaultTypes DEF Cycle
  <2>. QED
    BY <2>1, WorkerHandsStep DEF TypeOK
<1>3. CASE \E i \in Payments : ClosePayment(i) \/ Pay(i) \/ MintDrops(i) \/ DeadlinePasses(i)
  <2>1. UNCHANGED <<reqPc, reqPay, stage, job>>
    BY <1>3 DEF ClosePayment, Pay, MintDrops, DeadlinePasses, webVars, workerVars
  <2>2. RowsInHand'
    BY <2>1 DEF TypeOK, RowsInHand
  <2>. QED
    BY <1>3, <2>2, EnvironmentTypes DEF TypeOK
<1>4. CASE UNCHANGED vars
  <2>1. Types'
    BY <1>4, RowRest, WorldRest, WorkerRest, WebRest DEF vars, TypeOK, Types
  <2>2. RowsInHand'
    BY <1>4 DEF vars, workerVars, webVars, TypeOK, RowsInHand
  <2>. QED
    BY <2>1, <2>2 DEF TypeOK
<1>. QED
  BY <1>1, <1>2, <1>3, <1>4 DEF Next

\* Every reachable state of the queue, the worker and the callbacks is well typed, and
\* who waits for a row or works on one has a row in hand.
THEOREM TypeCorrect == Spec => []TypeOK
BY InitTypes, TypesStep, PTL DEF Spec

-----------------------------------------------------------------------------
(* One worker at a time, and its claims.                                   *)

\* A worker that runs holds the flock, and its claim is in the row it works on.
OwnerInv ==
  /\ \A w \in Workers : stage[w] # "down" => lock = w
  /\ \A w \in Workers :
       /\ stage[w] = "quoting" => status[job[w]] = "WORKER_QUOTE_CREATING"
       /\ stage[w] = "delivering" => status[job[w]] = "DELIVERING"
       /\ stage[w] = "publishing" => status[job[w]] = "RECEIPT_PUBLISHING"

\* The edges along which a callback moves a row.
LEMMA WebRows ==
  ASSUME TypeOK, NEW r \in Requests, Web(r)
  PROVE  /\ \A i \in Payments :
              \/ status'[i] = status[i]
              \/ status[i] = "ABSENT" /\ status'[i] \in {"QUOTE_PENDING", "QUOTE_CREATING"}
              \/ status[i] = "QUOTE_CREATING" /\ status'[i] \in {"INVOICE_PENDING", "FAILED"}
         /\ UNCHANGED <<workerVars, sent, legacyError>>
<1>. USE DEF TypeOK, Types, RowTypes, workerVars, worldVars, rowVars
<1>1. CASE Callback(r) \/ InsertZap(r)
  BY <1>1 DEF Callback, InsertZap, Insert
<1>2. CASE LookupZap(r) \/ InsertZapConflict(r) \/ WaitForInvoice(r) \/ WebCrash(r)
  BY <1>2 DEF LookupZap, InsertZapConflict, WaitForInvoice, WebCrash
<1>3. CASE CreateZapInvoice(r)
  BY <1>3 DEF CreateZapInvoice, CAS, RowsInHand
<1>. QED
  BY <1>1, <1>2, <1>3 DEF Web

\* The operator only moves rows from review to FAILED; payer, mint and clock move none.
LEMMA EnvironmentRows ==
  ASSUME TypeOK, NEW i \in Payments,
         ClosePayment(i) \/ Pay(i) \/ MintDrops(i) \/ DeadlinePasses(i)
  PROVE  /\ \A j \in Payments :
              \/ status'[j] = status[j]
              \/ status[j] = "DELIVERY_FAILED" /\ status'[j] = "FAILED"
         /\ UNCHANGED <<workerVars, sent, legacyError>>
<1>. USE DEF TypeOK, Types, RowTypes, worldVars
<1>1. CASE ClosePayment(i)
  BY <1>1 DEF ClosePayment, Closable
<1>2. CASE Pay(i) \/ MintDrops(i)
  BY <1>2 DEF Pay, MintDrops, rowVars
<1>3. CASE DeadlinePasses(i)
  BY <1>3 DEF DeadlinePasses
<1>. QED
  BY <1>1, <1>2, <1>3

\* A step that moves rows only along those edges leaves lock and claims in order.
LEMMA OwnerKept ==
  ASSUME TypeOK, OwnerInv, UNCHANGED workerVars,
         \A i \in Payments :
           status'[i] = status[i] \/ status[i] \in {"ABSENT", "QUOTE_CREATING", "DELIVERY_FAILED"}
  PROVE  OwnerInv'
BY DEF OwnerInv, TypeOK, RowsInHand, workerVars

\* Every other worker is down while one runs.
LEMMA OthersAreDown ==
  ASSUME OwnerInv, NEW w \in Workers, stage[w] # "down"
  PROVE  \A v \in Workers \ {w} : stage[v] = "down"
BY DEF OwnerInv

\* A worker's step keeps lock and claims in order.
LEMMA OwnerStep ==
  ASSUME TypeOK, OwnerInv, NEW w \in Workers,
         Start(w) \/ Cycle(w) \/ Fault(w) \/ Stop(w) \/ CooldownOver(w)
  PROVE  OwnerInv'
<1>. USE DEF TypeOK, Types, WorkerTypes, RowTypes
<1>1. CASE Acquire(w)
  <2>1. \A v \in Workers : stage[v] = "down"
    BY <1>1, ConstantsAssumption DEF Acquire, LockIsFree, OwnerInv
  <2>. QED
    BY <1>1, <2>1 DEF Acquire, At, OwnerInv
<1>2. CASE ReconcileLegacy(w) \/ Quarantine(w)
  <2>1. \A v \in Workers \ {w} : stage[v] = "down"
    BY <1>2, OthersAreDown DEF ReconcileLegacy, Quarantine, At
  <2>2. stage'[w] \in {"quarantine", "quote"} /\ lock' = lock /\ lock = w
        /\ \A v \in Workers \ {w} : stage'[v] = stage[v]
    BY <1>2 DEF ReconcileLegacy, Quarantine, At, OwnerInv
  <2>. QED
    BY <2>1, <2>2 DEF OwnerInv
<1>3. ASSUME stage[w] # "down", lock' = lock, \A v \in Workers \ {w} : stage'[v] = stage[v],
             stage'[w] \notin {"quoting", "delivering", "publishing"}
      PROVE  OwnerInv'
  BY <1>3, OthersAreDown DEF OwnerInv
<1>4. CASE SkipStage(w) \/ CreateInvoice(w) \/ StartDiscovery(w)
           \/ ApplyReading(w) \/ PersistCooldown(w) \/ NextCycle(w)
  <2>1. /\ stage[w] # "down" /\ lock' = lock /\ \A v \in Workers \ {w} : stage'[v] = stage[v]
        /\ stage'[w] \notin {"quoting", "delivering", "publishing"}
    BY <1>4 DEF SkipStage, CreateInvoice, StartDiscovery, ApplyReading, PersistCooldown,
                NextCycle, At
  <2>. QED
    BY <1>3, <2>1
<1>5. CASE SelectPaid(w) \/ CommitReconcile(w) \/ CommitDelivery(w) \/ CommitReceipt(w)
  <2>1. /\ stage[w] # "down" /\ lock' = lock /\ \A v \in Workers \ {w} : stage'[v] = stage[v]
        /\ stage'[w] \notin {"quoting", "delivering", "publishing"}
    BY <1>5 DEF SelectPaid, CommitReconcile, CommitDelivery, CommitReceipt, Take, Finish, At
  <2>. QED
    BY <1>3, <2>1
<1>6. CASE RecordDeliveryRaises(w) \/ CycleFails(w)
  <2>1. /\ stage[w] # "down" /\ lock' = lock /\ \A v \in Workers \ {w} : stage'[v] = stage[v]
        /\ stage'[w] \notin {"quoting", "delivering", "publishing"}
    BY <1>6 DEF RecordDeliveryRaises, CycleFails, At
  <2>. QED
    BY <1>3, <2>1
<1>7. CASE Stop(w) \/ Crash(w)
  <2>1. stage[w] # "down" /\ stage' = [stage EXCEPT ![w] = "down"]
    BY <1>7 DEF Stop, Crash, Leave
  <2>2. \A v \in Workers : stage'[v] = "down"
    BY <2>1, OthersAreDown
  <2>. QED
    BY <2>2 DEF OwnerInv
<1>8. CASE ReadQuoteState(w) \/ CheckQuote(w) \/ SendEcash(w) \/ PublishReceipt(w) \/ CooldownOver(w)
  <2>1. UNCHANGED <<status, lock, stage, job>>
    BY <1>8 DEF ReadQuoteState, CheckQuote, SendEcash, PublishReceipt, CooldownOver, Return, rowVars
  <2>. QED
    BY <2>1 DEF OwnerInv
<1>9. ASSUME NEW i \in Payments, NEW from, NEW to, NEW before, NEW after,
             Take(w, i, from, to), from # "down", status[i] = before, CAS(i, {before}, after),
             lock' = lock,
             \/ to = "quoting" /\ after = "WORKER_QUOTE_CREATING"
             \/ to = "delivering" /\ after = "DELIVERING"
             \/ to = "publishing" /\ after = "RECEIPT_PUBLISHING"
      PROVE  OwnerInv'
  <2>1. stage[w] # "down" /\ stage' = [stage EXCEPT ![w] = to] /\ job' = [job EXCEPT ![w] = i]
    BY <1>9 DEF Take, At
  <2>2. status' = [status EXCEPT ![i] = after]
    BY <1>9 DEF CAS
  <2>. QED
    BY <1>9, <2>1, <2>2, OthersAreDown DEF OwnerInv
<1>10. CASE ClaimQuote(w)
  BY <1>9, <1>10 DEF ClaimQuote, Candidates
<1>11. CASE ClaimDelivery(w)
  BY <1>9, <1>11 DEF ClaimDelivery, Candidates
<1>12. CASE ClaimReceipt(w)
  BY <1>9, <1>12 DEF ClaimReceipt, Candidates
<1>. QED
  BY <1>1, <1>2, <1>4, <1>5, <1>6, <1>7, <1>8, <1>10, <1>11, <1>12 DEF Start, Cycle, Fault

\* Lock and claims are in order from the start and after every step.
LEMMA OwnerInductive ==
  /\ Init => OwnerInv
  /\ TypeOK /\ OwnerInv /\ [Next]_vars => OwnerInv'
<1>1. Init => OwnerInv
  BY DEF Init, OwnerInv
<1>2. ASSUME TypeOK, OwnerInv, [Next]_vars PROVE OwnerInv'
  <2>1. CASE \E r \in Requests : Web(r)
    BY <1>2, <2>1, WebRows, OwnerKept
  <2>2. CASE \E w \in Workers : Start(w) \/ Cycle(w) \/ Fault(w) \/ Stop(w) \/ CooldownOver(w)
    BY <1>2, <2>2, OwnerStep
  <2>3. CASE \E i \in Payments : ClosePayment(i) \/ Pay(i) \/ MintDrops(i) \/ DeadlinePasses(i)
    BY <1>2, <2>3, EnvironmentRows, OwnerKept
  <2>4. CASE UNCHANGED vars
    BY <1>2, <2>4, OwnerKept DEF vars, rowVars
  <2>. QED
    BY <1>2, <2>1, <2>2, <2>3, <2>4 DEF Next
<1>. QED
  BY <1>1, <1>2

\* Until a statement of the database has raised, a worker past its startup
\* quarantine finds no row in a claim but the one it works on.
Starting == {"down", "legacy", "quarantine"}
Working  == {"quoting", "delivering", "publishing"}

ClaimInv ==
  faults.db = 0 =>
    \A w \in Workers, i \in Payments :
      stage[w] \notin Starting /\ status[i] \in Claims => job[w] = i /\ stage[w] \in Working

\* A step that brings no row into a claim, and moves neither a worker nor the
\* faults of the database, keeps ClaimInv.
LEMMA ClaimsKept ==
  ASSUME ClaimInv, UNCHANGED <<stage, job>>, faults'.db = faults.db,
         \A i \in Payments : status'[i] \in Claims => status[i] \in Claims
  PROVE  ClaimInv'
BY DEF ClaimInv

\* So does a step that starts from a worker past its quarantine, brings no row into
\* a claim and takes the row the worker has claimed out of it.
LEMMA ClaimsReleased ==
  ASSUME OwnerInv, ClaimInv, NEW w \in Workers, stage[w] \notin Starting,
         faults'.db = faults.db,
         \A v \in Workers \ {w} : stage'[v] = stage[v],
         \A i \in Payments : status'[i] \in Claims =>
           status[i] \in Claims /\ (stage[w] \in Working => i # job[w])
  PROVE  ClaimInv'
<1>1. \A v \in Workers \ {w} : stage'[v] = "down"
  BY OthersAreDown DEF Starting
<1>2. faults.db = 0 => \A i \in Payments : status'[i] \notin Claims
  BY DEF ClaimInv
<1>. QED
  BY <1>1, <1>2 DEF ClaimInv, Starting

\* And a step with which a worker that has no claim makes one.
LEMMA ClaimMade ==
  ASSUME TypeOK, OwnerInv, ClaimInv, NEW w \in Workers, NEW i \in Payments,
         NEW from, from \notin Starting \cup Working, NEW to \in Working,
         NEW expected, NEW claim,
         Take(w, i, from, to), CAS(i, expected, claim), UNCHANGED faults
  PROVE  ClaimInv'
<1>. USE DEF TypeOK, Types, WorkerTypes, RowTypes
<1>1. /\ stage[w] = from /\ stage'[w] = to /\ job'[w] = i
      /\ \A v \in Workers \ {w} : stage'[v] = stage[v]
  BY DEF Take, At
<1>2. \A v \in Workers \ {w} : stage'[v] = "down"
  BY <1>1, OthersAreDown DEF Starting
<1>3. \A j \in Payments \ {i} : status'[j] = status[j]
  BY DEF CAS
<1>4. faults.db = 0 => \A j \in Payments : status[j] \notin Claims
  BY <1>1 DEF ClaimInv
<1>. QED
  BY <1>1, <1>2, <1>3, <1>4 DEF ClaimInv, Starting

\* A worker's step keeps ClaimInv.
LEMMA ClaimStep ==
  ASSUME TypeOK, OwnerInv, ClaimInv, NEW w \in Workers,
         Start(w) \/ Cycle(w) \/ Fault(w) \/ Stop(w) \/ CooldownOver(w)
  PROVE  ClaimInv'
<1>. USE DEF TypeOK, Types, WorkerTypes, RowTypes
<1>1. CASE Acquire(w)
  <2>1. \A v \in Workers : stage'[v] \in Starting
    BY <1>1, ConstantsAssumption DEF Acquire, LockIsFree, OwnerInv, At, Starting
  <2>. QED
    BY <2>1 DEF ClaimInv
<1>2. CASE ReconcileLegacy(w)
  <2>1. \A v \in Workers \ {w} : stage[v] = "down"
    BY <1>2, OthersAreDown DEF ReconcileLegacy, At
  <2>2. \A v \in Workers : stage'[v] \in Starting
    BY <1>2, <2>1 DEF ReconcileLegacy, At, Starting
  <2>. QED
    BY <2>2 DEF ClaimInv
<1>3. CASE Quarantine(w)
  <2>1. \A i \in Payments : status'[i] \notin Claims
    BY <1>3 DEF Quarantine, Quarantined, Claims
  <2>. QED
    BY <2>1 DEF ClaimInv
<1>4. CASE Stop(w) \/ Crash(w)
  <2>1. stage[w] # "down" /\ stage' = [stage EXCEPT ![w] = "down"]
    BY <1>4 DEF Stop, Crash, Leave
  <2>2. \A v \in Workers : stage'[v] \in Starting
    BY <2>1, OthersAreDown DEF Starting
  <2>. QED
    BY <2>2 DEF ClaimInv
<1>5. CASE CycleFails(w) \/ RecordDeliveryRaises(w)
  <2>1. faults'.db # 0
    BY <1>5 DEF CycleFails, RecordDeliveryRaises
  <2>. QED
    BY <2>1 DEF ClaimInv
<1>6. CASE ReadQuoteState(w) \/ CheckQuote(w) \/ SendEcash(w) \/ PublishReceipt(w) \/ CooldownOver(w)
  <2>1. UNCHANGED <<status, stage, job>>
    BY <1>6 DEF ReadQuoteState, CheckQuote, SendEcash, PublishReceipt, CooldownOver, Return, rowVars
  <2>2. faults'.db = faults.db
    <3>1. CASE ReadQuoteState(w)
      BY <3>1 DEF ReadQuoteState, ReadFails
    <3>2. CASE CheckQuote(w) \/ SendEcash(w) \/ PublishReceipt(w) \/ CooldownOver(w)
      BY <3>2 DEF CheckQuote, SendEcash, PublishReceipt, CooldownOver, Return
    <3>. QED
      BY <1>6, <3>1, <3>2
  <2>. QED
    BY <2>1, <2>2, ClaimsKept
<1>7. CASE ClaimQuote(w)
  <2>1. "quote" \notin Starting \cup Working /\ "quoting" \in Working
    BY DEF Starting, Working
  <2>. QED
    BY <1>7, <2>1, ClaimMade DEF ClaimQuote, Candidates
<1>8. CASE ClaimDelivery(w)
  <2>1. "deliver" \notin Starting \cup Working /\ "delivering" \in Working
    BY DEF Starting, Working
  <2>. QED
    BY <1>8, <2>1, ClaimMade DEF ClaimDelivery, Candidates
<1>9. CASE ClaimReceipt(w)
  <2>1. "receipt" \notin Starting \cup Working /\ "publishing" \in Working
    BY DEF Starting, Working
  <2>. QED
    BY <1>9, <2>1, ClaimMade DEF ClaimReceipt, Candidates
<1>10. ASSUME stage[w] \notin Starting \cup Working, UNCHANGED faults,
              \A v \in Workers \ {w} : stage'[v] = stage[v],
              \A i \in Payments : status'[i] \in Claims => status[i] \in Claims
       PROVE  ClaimInv'
  BY <1>10, ClaimsReleased
<1>11. CASE SkipStage(w) \/ StartDiscovery(w) \/ PersistCooldown(w) \/ SelectPaid(w) \/ NextCycle(w)
  <2>1. stage[w] \notin Starting \cup Working /\ UNCHANGED <<status, faults>>
        /\ \A v \in Workers \ {w} : stage'[v] = stage[v]
    BY <1>11 DEF SkipStage, StartDiscovery, PersistCooldown, SelectPaid, NextCycle, Take, At,
                 Starting, Working, rowVars
  <2>. QED
    BY <1>10, <2>1
<1>12. CASE ApplyReading(w)
  <2>1. stage[w] \notin Starting \cup Working /\ UNCHANGED faults
        /\ \A v \in Workers \ {w} : stage'[v] = stage[v]
    BY <1>12 DEF ApplyReading, At, Starting, Working
  <2>2. PICK i \in Payments : CAS(i, Polled, AfterReading(i, seen[w][i]))
    BY <1>12, Zenon DEF ApplyReading
  <2>3. AfterReading(i, seen[w][i]) \in Claims => status[i] \in Claims
    BY DEF AfterReading, AfterUnpaid, Claims
  <2>4. \A j \in Payments : status'[j] \in Claims => status[j] \in Claims
    BY <2>2, <2>3 DEF CAS
  <2>. QED
    BY <1>10, <2>1, <2>4
<1>13. CASE CommitReconcile(w)
  <2>1. stage[w] \notin Starting \cup Working /\ UNCHANGED faults
        /\ \A v \in Workers \ {w} : stage'[v] = stage[v]
    BY <1>13 DEF CommitReconcile, Finish, At, Starting, Working
  <2>2. CAS(job[w], {"PAID_RECONCILIATION_PENDING"}, AfterCheck(outcome[w]))
    BY <1>13 DEF CommitReconcile
  <2>3. AfterCheck(outcome[w]) \notin Claims
    BY DEF AfterCheck, Claims
  <2>4. \A j \in Payments : status'[j] \in Claims => status[j] \in Claims
    BY <2>2, <2>3 DEF CAS
  <2>. QED
    BY <1>10, <2>1, <2>4
<1>14. ASSUME stage[w] \in Working, UNCHANGED faults, NEW claim, status[job[w]] = claim,
              NEW after, after \notin Claims, CAS(job[w], {claim}, after),
              \A v \in Workers \ {w} : stage'[v] = stage[v]
       PROVE  ClaimInv'
  <2>1. stage[w] \notin Starting /\ job[w] \in Payments
    BY <1>14 DEF Starting, Working, RowsInHand
  <2>2. status' = [status EXCEPT ![job[w]] = after]
    BY <1>14 DEF CAS
  <2>3. \A i \in Payments : status'[i] \in Claims => status[i] \in Claims /\ i # job[w]
    BY <1>14, <2>1, <2>2
  <2>. QED
    BY <1>14, <2>1, <2>3, ClaimsReleased
<1>15. CASE CreateInvoice(w)
  <2>1. stage[w] \in Working /\ UNCHANGED faults /\ \A v \in Workers \ {w} : stage'[v] = stage[v]
    BY <1>15 DEF CreateInvoice, At, Working
  <2>2. status[job[w]] = "WORKER_QUOTE_CREATING"
    BY <1>15 DEF CreateInvoice, At, OwnerInv
  <2>3. PICK after \in {"INVOICE_PENDING", "FAILED"} : CAS(job[w], {"WORKER_QUOTE_CREATING"}, after)
    BY <1>15 DEF CreateInvoice
  <2>4. after \notin Claims
    BY DEF Claims
  <2>. QED
    BY <1>14, <2>1, <2>2, <2>3, <2>4
<1>16. CASE CommitDelivery(w)
  <2>1. stage[w] \in Working /\ UNCHANGED faults /\ \A v \in Workers \ {w} : stage'[v] = stage[v]
    BY <1>16 DEF CommitDelivery, Finish, At, Working
  <2>2. status[job[w]] = "DELIVERING"
    BY <1>16 DEF CommitDelivery, Finish, At, OwnerInv
  <2>3. CAS(job[w], {"DELIVERING"}, AfterDelivery(job[w], outcome[w]))
    BY <1>16 DEF CommitDelivery
  <2>4. AfterDelivery(job[w], outcome[w]) \notin Claims
    BY DEF AfterDelivery, Claims
  <2>. QED
    BY <1>14, <2>1, <2>2, <2>3, <2>4
<1>17. CASE CommitReceipt(w)
  <2>1. stage[w] \in Working /\ UNCHANGED faults /\ \A v \in Workers \ {w} : stage'[v] = stage[v]
    BY <1>17 DEF CommitReceipt, Finish, At, Working
  <2>2. status[job[w]] = "RECEIPT_PUBLISHING"
    BY <1>17 DEF CommitReceipt, Finish, At, OwnerInv
  <2>3. PICK after \in {"DELIVERED", "RECEIPT_FAILED"} : CAS(job[w], {"RECEIPT_PUBLISHING"}, after)
    BY <1>17 DEF CommitReceipt
  <2>4. after \notin Claims
    BY DEF Claims
  <2>. QED
    BY <1>14, <2>1, <2>2, <2>3, <2>4
<1>. QED
  BY <1>1, <1>2, <1>3, <1>4, <1>5, <1>6, <1>7, <1>8, <1>9, <1>11, <1>12, <1>13, <1>15, <1>16, <1>17
     DEF Start, Cycle, Fault

\* ClaimInv holds at the start and after every step.
LEMMA ClaimInductive ==
  /\ Init => ClaimInv
  /\ TypeOK /\ OwnerInv /\ ClaimInv /\ [Next]_vars => ClaimInv'
<1>1. Init => ClaimInv
  BY DEF Init, ClaimInv, Starting
<1>2. ASSUME TypeOK, OwnerInv, ClaimInv, [Next]_vars PROVE ClaimInv'
  <2>1. CASE \E r \in Requests : Web(r)
    <3>1. UNCHANGED <<stage, job, faults>>
      BY <1>2, <2>1, WebRows DEF workerVars
    <3>2. \A i \in Payments : status'[i] \in Claims => status[i] \in Claims
      BY <1>2, <2>1, WebRows DEF Claims
    <3>. QED
      BY <1>2, <3>1, <3>2, ClaimsKept
  <2>2. CASE \E w \in Workers : Start(w) \/ Cycle(w) \/ Fault(w) \/ Stop(w) \/ CooldownOver(w)
    BY <1>2, <2>2, ClaimStep
  <2>3. CASE \E i \in Payments : ClosePayment(i) \/ Pay(i) \/ MintDrops(i) \/ DeadlinePasses(i)
    <3>1. UNCHANGED <<stage, job, faults>>
      BY <1>2, <2>3, EnvironmentRows DEF workerVars
    <3>2. \A i \in Payments : status'[i] \in Claims => status[i] \in Claims
      BY <1>2, <2>3, EnvironmentRows DEF Claims
    <3>. QED
      BY <1>2, <3>1, <3>2, ClaimsKept
  <2>4. CASE UNCHANGED vars
    BY <1>2, <2>4, ClaimsKept DEF vars, rowVars, workerVars
  <2>. QED
    BY <1>2, <2>1, <2>2, <2>3, <2>4 DEF Next
<1>. QED
  BY <1>1, <1>2

\* At most one worker process runs, whatever processes start, stop and crash; the
\* row it has claimed is in the status its stage claims; and past its quarantine no
\* other row is in a claim until a statement of the database has raised.
THEOREM ClaimsAreOwned == Spec => []ClaimsHaveOneOwner
<1>1. OwnerInv /\ ClaimInv => ClaimsHaveOneOwner
  <2>. SUFFICES ASSUME OwnerInv, ClaimInv PROVE ClaimsHaveOneOwner
    OBVIOUS
  <2>1. \A w, v \in Workers : stage[w] # "down" /\ stage[v] # "down" => w = v
    BY DEF OwnerInv
  <2>. QED
    BY <2>1 DEF OwnerInv, ClaimInv, Starting, Working, ClaimsHaveOneOwner
<1>. QED
  BY <1>1, InitTypes, TypesStep, OwnerInductive, ClaimInductive, PTL DEF Spec

-----------------------------------------------------------------------------
(* At most one transfer per payment.                                       *)

\* The statuses of a payment whose ecash has not left the Acorn.
Unsent == Polled \cup {"ABSENT", "QUOTE_CREATING", "QUOTE_PENDING", "WORKER_QUOTE_CREATING",
                       "PAID_RECONCILIATION_PENDING", "SETTLED"}

TransferInv ==
  /\ \A i \in Payments : status[i] \in Unsent => sent[i] = 0
  /\ \A i \in Payments : legacyError[i] => status[i] = "FAILED" /\ sent[i] = 0
  /\ \A w \in Workers :
       stage[w] = "delivering" /\ outcome[w] \in {"none", "presafe"} => sent[job[w]] = 0
  /\ AtMostOneTransfer

\* A step that sends nothing, returns to Unsent no row that was outside it, and
\* touches neither the legacy marks nor a delivery in progress keeps TransferInv.
LEMMA TransferKept ==
  ASSUME TypeOK, TransferInv, UNCHANGED sent,
         \A i \in Payments : status'[i] \in Unsent => status[i] \in Unsent,
         \A i \in Payments : legacyError'[i] => legacyError[i] /\ status'[i] = "FAILED",
         \A w \in Workers : stage'[w] = "delivering" =>
           stage[w] = "delivering" /\ outcome'[w] = outcome[w] /\ job'[w] = job[w]
  PROVE  TransferInv'
BY DEF TransferInv, AtMostOneTransfer

\* A callback's step keeps TransferInv.
LEMMA WebTransferStep ==
  ASSUME TypeOK, TransferInv, NEW r \in Requests, Web(r)
  PROVE  TransferInv'
<1>1. \A i \in Payments : status'[i] \in Unsent => status[i] \in Unsent
  BY WebRows DEF Unsent
<1>2. \A i \in Payments : legacyError'[i] => legacyError[i] /\ status'[i] = "FAILED"
  BY WebRows DEF TransferInv
<1>. QED
  BY <1>1, <1>2, WebRows, TransferKept DEF workerVars

\* A step of the operator, the payer, the mint or the clock keeps TransferInv.
LEMMA EnvironmentTransferStep ==
  ASSUME TypeOK, TransferInv, NEW i \in Payments,
         ClosePayment(i) \/ Pay(i) \/ MintDrops(i) \/ DeadlinePasses(i)
  PROVE  TransferInv'
<1>1. \A j \in Payments : status'[j] \in Unsent => status[j] \in Unsent
  BY EnvironmentRows DEF Unsent, Polled
<1>2. \A j \in Payments : legacyError'[j] => legacyError[j] /\ status'[j] = "FAILED"
  BY EnvironmentRows DEF TransferInv
<1>. QED
  BY <1>1, <1>2, EnvironmentRows, TransferKept DEF workerVars

\* A worker's step keeps TransferInv: a delivery starts from an unsent row, sends
\* once, and goes back to SETTLED only if nothing was sent.
LEMMA WorkerTransferStep ==
  ASSUME TypeOK, OwnerInv, TransferInv, NEW w \in Workers,
         Start(w) \/ Cycle(w) \/ Fault(w) \/ Stop(w) \/ CooldownOver(w)
  PROVE  TransferInv'
<1>. USE DEF TypeOK, Types, WorkerTypes, RowTypes, WorldTypes, worldVars
<1>0. ASSUME \A i \in Payments : status'[i] = status[i] \/ status[i] \in Unsent \/ status'[i] \notin Unsent,
             \A i \in Payments : status'[i] = status[i] \/ status[i] # "FAILED",
             UNCHANGED <<sent, legacyError>>,
             stage'[w] # "delivering",
             \A v \in Workers \ {w} : stage'[v] = stage[v] /\ outcome'[v] = outcome[v] /\ job'[v] = job[v]
      PROVE  TransferInv'
  BY <1>0, TransferKept DEF TransferInv
<1>1. CASE Acquire(w)
  BY <1>0, <1>1 DEF Acquire, At, rowVars
<1>2. CASE ReconcileLegacy(w)
  <2>1. /\ UNCHANGED <<sent, outcome, job>> /\ stage'[w] # "delivering"
        /\ \A v \in Workers \ {w} : stage'[v] = stage[v]
    BY <1>2 DEF ReconcileLegacy, At
  <2>2. \A i \in Payments :
          /\ status'[i] = IF IsLegacyTimeout(i) THEN "SETTLEMENT_UNCONFIRMED" ELSE status[i]
          /\ legacyError'[i] = (~IsLegacyTimeout(i) /\ legacyError[i])
    BY <1>2 DEF ReconcileLegacy
  <2>3. \A i \in Payments : IsLegacyTimeout(i) => legacyError[i]
    BY DEF IsLegacyTimeout
  <2>. QED
    BY <2>1, <2>2, <2>3 DEF TransferInv, AtMostOneTransfer
<1>3. CASE Quarantine(w)
  <2>1. \A s \in Status : Quarantined(s) = s \/ s \notin Unsent \cup {"FAILED"} \/ s = "WORKER_QUOTE_CREATING"
    BY DEF Quarantined, Unsent, Polled
  <2>2. \A s \in Status : Quarantined(s) = s \/ Quarantined(s) \notin Unsent
    BY DEF Quarantined, Unsent, Polled
  <2>3. \A i \in Payments : status'[i] = Quarantined(status[i])
    BY <1>3 DEF Quarantine
  <2>4. /\ UNCHANGED <<sent, outcome, job, legacyError>> /\ stage'[w] # "delivering"
        /\ \A v \in Workers \ {w} : stage'[v] = stage[v]
    BY <1>3 DEF Quarantine, At
  <2>. QED
    BY <1>0, <2>1, <2>2, <2>3, <2>4
<1>4. CASE \/ SkipStage(w) \/ StartDiscovery(w) \/ NextCycle(w) \/ PersistCooldown(w)
  BY <1>0, <1>4 DEF SkipStage, StartDiscovery, NextCycle, PersistCooldown, At, rowVars
<1>5. CASE ReadQuoteState(w) \/ CooldownOver(w)
  <2>1. UNCHANGED <<rowVars, sent, stage, outcome, job>>
    BY <1>5 DEF ReadQuoteState, CooldownOver
  <2>. QED
    BY <2>1 DEF rowVars, TransferInv, AtMostOneTransfer
<1>6. CASE CheckQuote(w) \/ PublishReceipt(w)
  BY <1>0, <1>6 DEF CheckQuote, PublishReceipt, Return, rowVars
<1>7. CASE ClaimQuote(w) \/ SelectPaid(w)
  BY <1>0, <1>7 DEF ClaimQuote, SelectPaid, Take, At, CAS, Candidates, Unsent, rowVars
<1>8. CASE CreateInvoice(w)
  BY <1>0, <1>8 DEF CreateInvoice, At, CAS, Unsent
<1>9. CASE ApplyReading(w)
  BY <1>0, <1>9 DEF ApplyReading, At, CAS, Unsent, Polled
<1>10. CASE CommitReconcile(w)
  BY <1>0, <1>10 DEF CommitReconcile, Finish, At, CAS, Unsent
<1>11. CASE ClaimDelivery(w)
  <2>. PICK i \in Payments :
       /\ status[i] = "SETTLED" /\ Take(w, i, "deliver", "delivering")
       /\ CAS(i, {"SETTLED"}, "DELIVERING")
       /\ UNCHANGED <<legacyError, sent, outcome>>
    BY <1>11 DEF ClaimDelivery, Candidates
  <2>1. status' = [status EXCEPT ![i] = "DELIVERING"] /\ sent[i] = 0
    BY DEF CAS, TransferInv, Unsent
  <2>2. stage' = [stage EXCEPT ![w] = "delivering"] /\ job' = [job EXCEPT ![w] = i]
    BY DEF Take, At
  <2>3. "DELIVERING" \notin Unsent
    BY DEF Unsent, Polled
  <2>. QED
    BY <2>1, <2>2, <2>3 DEF TransferInv, AtMostOneTransfer
<1>12. CASE SendEcash(w)
  <2>. DEFINE i == job[w]
  <2>1. /\ stage[w] = "delivering" /\ outcome[w] = "none"
        /\ UNCHANGED <<status, legacyError, stage, job>>
    BY <1>12 DEF SendEcash, Return, rowVars
  <2>2. i \in Payments /\ status[i] = "DELIVERING" /\ sent[i] = 0
    BY <2>1 DEF OwnerInv, RowsInHand, TransferInv
  <2>3. \A v \in Workers \ {w} : stage[v] = "down"
    BY <2>1, OthersAreDown
  <2>4. "DELIVERING" \notin Unsent
    BY DEF Unsent, Polled
  <2>5. CASE UNCHANGED sent
    BY <2>1, <2>2, <2>3, <2>5 DEF TransferInv, AtMostOneTransfer
  <2>6. CASE sent' = [sent EXCEPT ![i] = @ + 1] /\ (\E result \in {"sent", "ambiguous"} : Return(w, result))
    <3>1. sent' = [sent EXCEPT ![i] = 1] /\ outcome'[w] \in {"sent", "ambiguous"}
      BY <2>2, <2>6 DEF Return
    <3>. QED
      BY <2>1, <2>2, <2>3, <2>4, <3>1 DEF TransferInv, AtMostOneTransfer
  <2>. QED
    BY <1>12, <2>5, <2>6 DEF SendEcash
<1>13. CASE CommitDelivery(w)
  <2>. DEFINE i == job[w]
  <2>1. /\ CAS(i, {"DELIVERING"}, AfterDelivery(i, outcome[w]))
        /\ UNCHANGED <<sent, legacyError>> /\ stage[w] = "delivering" /\ stage'[w] # "delivering"
        /\ \A v \in Workers \ {w} : stage'[v] = stage[v] /\ outcome'[v] = outcome[v] /\ job'[v] = job[v]
    BY <1>13 DEF CommitDelivery, Finish, At
  <2>2. i \in Payments /\ status[i] = "DELIVERING"
    BY <2>1 DEF OwnerInv, RowsInHand
  <2>3. status' = [status EXCEPT ![i] = AfterDelivery(i, outcome[w])]
    BY <2>1, <2>2 DEF CAS
  <2>4. AfterDelivery(i, outcome[w]) \in Unsent => sent[i] = 0
    BY <2>1 DEF AfterDelivery, Unsent, Polled, TransferInv
  <2>. QED
    BY <2>1, <2>2, <2>3, <2>4 DEF TransferInv, AtMostOneTransfer
<1>14. CASE RecordDeliveryRaises(w)
  BY <1>0, <1>14 DEF RecordDeliveryRaises, At, CAS, Unsent, Polled
<1>15. CASE ClaimReceipt(w)
  BY <1>0, <1>15 DEF ClaimReceipt, Take, At, CAS, Candidates, Unsent, Polled
<1>16. CASE CommitReceipt(w)
  BY <1>0, <1>16 DEF CommitReceipt, Finish, At, CAS, Unsent, Polled
<1>17. CASE CycleFails(w) \/ Stop(w) \/ Crash(w)
  BY <1>0, <1>17 DEF CycleFails, Stop, Crash, Leave, Forget, rowVars
<1>. QED
  BY <1>1, <1>2, <1>3, <1>4, <1>5, <1>6, <1>7, <1>8, <1>9, <1>10, <1>11, <1>12, <1>13,
     <1>14, <1>15, <1>16, <1>17 DEF Start, Cycle, Fault

\* TransferInv holds from the start and after every step.
LEMMA TransferInductive ==
  /\ Init => TransferInv
  /\ TypeOK /\ OwnerInv /\ TransferInv /\ [Next]_vars => TransferInv'
<1>1. ASSUME Init PROVE TransferInv
  <2>1. \A i \in Payments : sent[i] = 0
    BY <1>1 DEF Init
  <2>2. \A i \in Payments : legacyError[i] => status[i] = "FAILED"
    BY <1>1 DEF Init
  <2>3. \A w \in Workers : stage[w] = "down"
    BY <1>1 DEF Init
  <2>. QED
    BY <2>1, <2>2, <2>3 DEF TransferInv, AtMostOneTransfer
<1>2. ASSUME TypeOK, OwnerInv, TransferInv, [Next]_vars PROVE TransferInv'
  <2>1. CASE \E r \in Requests : Web(r)
    BY <1>2, <2>1, WebTransferStep
  <2>2. CASE \E w \in Workers : Start(w) \/ Cycle(w) \/ Fault(w) \/ Stop(w) \/ CooldownOver(w)
    BY <1>2, <2>2, WorkerTransferStep
  <2>3. CASE \E i \in Payments : ClosePayment(i) \/ Pay(i) \/ MintDrops(i) \/ DeadlinePasses(i)
    BY <1>2, <2>3, EnvironmentTransferStep
  <2>4. CASE UNCHANGED vars
    BY <1>2, <2>4 DEF vars, rowVars, worldVars, workerVars, TransferInv, AtMostOneTransfer
  <2>. QED
    BY <1>2, <2>1, <2>2, <2>3, <2>4 DEF Next
<1>. QED
  BY <1>1, <1>2

\* No payment's ecash leaves the Acorn twice: not by a retry, a restart, a second
\* worker process, a database fault or an operator's closure.
THEOREM TransferredOnce == Spec => []AtMostOneTransfer
<1>1. TransferInv => AtMostOneTransfer
  BY DEF TransferInv
<1>. QED
  BY <1>1, InitTypes, TypesStep, OwnerInductive, TransferInductive, PTL DEF Spec
=============================================================================
