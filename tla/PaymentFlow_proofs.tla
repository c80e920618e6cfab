-------------------------- MODULE PaymentFlow_proofs --------------------------
(***************************************************************************)
(* More proofs about ProviderPayments, on top of those of                  *)
(* ProviderPayments_proofs: what the status of a row says about its quote, *)
(* its transfer and its receipt, across crashes, retries, interventions    *)
(* and failing statements.                                                 *)
(***************************************************************************)
EXTENDS ProviderPayments_proofs

-----------------------------------------------------------------------------
(* What a worker has in its memory.                                        *)

\* The result of a call is remembered only while the stage that made it lasts.
OutcomeInv ==
  \A w \in Workers :
    stage[w] \notin {"reconciling", "delivering", "publishing"} => outcome[w] = "none"

\* Only a stage's own steps change what its worker remembers.
LEMMA OutcomeStep ==
  ASSUME TypeOK, OutcomeInv, [Next]_vars
  PROVE  OutcomeInv'
<1>. USE DEF TypeOK, Types, WorkerTypes
<1>1. CASE \E r \in Requests : Web(r)
  BY <1>1, WebRows DEF OutcomeInv, workerVars
<1>2. ASSUME NEW w \in Workers,
             Start(w) \/ Cycle(w) \/ Fault(w) \/ Stop(w) \/ CooldownOver(w)
      PROVE  OutcomeInv'
  <2>1. CASE Start(w) \/ CooldownOver(w)
    BY <2>1 DEF OutcomeInv, Start, Acquire, ReconcileLegacy, Quarantine, CooldownOver, At
  <2>2. CASE \/ SkipStage(w) \/ StartDiscovery(w) \/ PersistCooldown(w) \/ NextCycle(w)
             \/ CreateInvoice(w) \/ ApplyReading(w) \/ ReadQuoteState(w)
    BY <2>2 DEF OutcomeInv, SkipStage, StartDiscovery, PersistCooldown, NextCycle, CreateInvoice,
                ApplyReading, ReadQuoteState, At
  <2>3. CASE ClaimQuote(w) \/ SelectPaid(w) \/ ClaimDelivery(w) \/ ClaimReceipt(w)
    BY <2>3 DEF OutcomeInv, ClaimQuote, SelectPaid, ClaimDelivery, ClaimReceipt, Take, At
  <2>4. CASE CheckQuote(w) \/ SendEcash(w) \/ PublishReceipt(w)
    BY <2>4 DEF OutcomeInv, CheckQuote, SendEcash, PublishReceipt, Return
  <2>5. CASE CommitReconcile(w) \/ CommitDelivery(w) \/ CommitReceipt(w)
    BY <2>5 DEF OutcomeInv, CommitReconcile, CommitDelivery, CommitReceipt, Finish, At
  <2>6. CASE RecordDeliveryRaises(w) \/ CycleFails(w) \/ Stop(w) \/ Crash(w)
    BY <2>6 DEF OutcomeInv, RecordDeliveryRaises, CycleFails, Stop, Crash, Leave, Forget, At
  <2>. QED
    BY <1>2, <2>1, <2>2, <2>3, <2>4, <2>5, <2>6 DEF Cycle, Fault
<1>3. CASE \E i \in Payments : ClosePayment(i) \/ Pay(i) \/ MintDrops(i) \/ DeadlinePasses(i)
  BY <1>3, EnvironmentRows DEF OutcomeInv, workerVars
<1>4. CASE UNCHANGED vars
  BY <1>4 DEF OutcomeInv, vars, workerVars
<1>. QED
  BY <1>1, <1>2, <1>3, <1>4 DEF Next

-----------------------------------------------------------------------------
(* Rows and their quotes.                                                  *)

\* The row has no quote yet; its quote is being watched; its quote was issued.
Virgin   == {"ABSENT", "QUOTE_CREATING", "QUOTE_PENDING", "WORKER_QUOTE_CREATING"}
Awaiting == Polled \cup {"PAID_RECONCILIATION_PENDING"}
Funded   == {"SETTLED", "DELIVERING", "DELIVERY_FAILED"} \cup Forwarded

\* What a status says about the quote of its row.
Fits(s, q) ==
  /\ s \in Virgin => q = "none"
  /\ s \in Awaiting => q # "none"
  /\ s \in Funded => q \in {"issued", "pruned"}

\* A row is given up with a quote that can still be paid, or was, only on record.
GivenUp(i) ==
  status[i] = "FAILED" /\ quote[i] \in {"open", "issued"} => i \in closed \/ legacyError[i]

QuoteInv ==
  \A i \in Payments :
    /\ Fits(status[i], quote[i]) /\ GivenUp(i)
    /\ Issued(i) => i \in paid
    /\ i \in paid => quote[i] # "none"
    /\ sent[i] > 0 => Issued(i)
    /\ i \in closed => status[i] = "FAILED" /\ ~legacyError[i]

\* What a worker has been told about a quote is still so.
Told(w, i) ==
  /\ seen[w][i] # "unasked" => quote[i] # "none"
  /\ seen[w][i] = "NOT_FOUND" => quote[i] \in {"gone", "pruned"}
  /\ stage[w] = "reconciling" /\ job[w] = i /\ outcome[w] = "paid" => Issued(i)
  /\ stage[w] = "reconciling" /\ job[w] = i /\ outcome[w] = "notfound" =>
       quote[i] \in {"gone", "pruned"}

ToldInv == \A w \in Workers, i \in Payments : Told(w, i)

\* A quote is made once, and then issued or dropped, never made again.
QuoteMoves(i) ==
  \/ quote'[i] = quote[i]
  \/ quote[i] = "none" /\ quote'[i] = "open"
  \/ quote[i] = "open" /\ quote'[i] \in {"issued", "gone"}
  \/ quote[i] = "issued" /\ quote'[i] = "pruned"

\* A step that only moves rows to statuses that fit their quotes keeps QuoteInv.
LEMMA RowsMoved ==
  ASSUME QuoteInv, UNCHANGED <<quote, paid, sent, closed, legacyError>>,
         \A i \in Payments :
           \/ status'[i] = status[i]
           \/ /\ i \notin closed /\ Fits(status'[i], quote[i])
              /\ status'[i] = "FAILED" => quote[i] \notin {"open", "issued"}
  PROVE  QuoteInv'
BY DEF QuoteInv, GivenUp, Issued

\* What a worker was told stays true while quotes only move on.
LEMMA ToldKept ==
  ASSUME ToldInv, NEW v \in Workers,
         \A i \in Payments : QuoteMoves(i),
         seen'[v] = seen[v], stage'[v] = stage[v], outcome'[v] = outcome[v], job'[v] = job[v]
  PROVE  \A i \in Payments : Told(v, i)'
BY DEF ToldInv, Told, QuoteMoves, Issued

\* A worker that has just been told nothing has nothing to remember.
LEMMA ToldOthers ==
  ASSUME ToldInv, NEW w \in Workers, \A i \in Payments : QuoteMoves(i),
         \A v \in Workers \ {w} :
           seen'[v] = seen[v] /\ stage'[v] = stage[v] /\ outcome'[v] = outcome[v] /\ job'[v] = job[v],
         \A i \in Payments : Told(w, i)'
  PROVE  ToldInv'
BY ToldKept DEF ToldInv

\* A callback stores a quote with a row that had none, or gives it up.
LEMMA WebQuotes ==
  ASSUME TypeOK, QuoteInv, ToldInv, NEW r \in Requests, Web(r)
  PROVE  QuoteInv' /\ ToldInv'
<1>. USE DEF TypeOK, Types, RowTypes, WorldTypes, worldVars, rowVars
<1>1. CASE Callback(r) \/ InsertZap(r)
  <2>1. UNCHANGED <<quote, paid, sent, closed, legacyError, workerVars>>
    BY <1>1 DEF Callback, InsertZap, Insert
  <2>2. \A i \in Payments :
          \/ status'[i] = status[i]
          \/ status[i] = "ABSENT" /\ status'[i] \in {"QUOTE_PENDING", "QUOTE_CREATING"}
    BY <1>1 DEF Callback, InsertZap, Insert
  <2>3. QuoteInv'
    BY <2>1, <2>2, RowsMoved DEF QuoteInv, Fits, Virgin, Awaiting, Polled, Funded, Forwarded
  <2>. QED
    BY <2>1, <2>3, ToldKept DEF ToldInv, QuoteMoves, workerVars
<1>2. CASE LookupZap(r) \/ InsertZapConflict(r) \/ WaitForInvoice(r) \/ WebCrash(r)
  <2>1. UNCHANGED <<rowVars, worldVars, workerVars>>
    BY <1>2 DEF LookupZap, InsertZapConflict, WaitForInvoice, WebCrash
  <2>2. QuoteInv'
    BY <2>1, RowsMoved
  <2>. QED
    BY <2>1, <2>2, ToldKept DEF ToldInv, QuoteMoves, workerVars
<1>3. CASE CreateZapInvoice(r)
  <2>. DEFINE i == reqPay[r]
  <2>0. i \in Payments /\ UNCHANGED <<paid, sent, closed, legacyError, workerVars>>
    BY <1>3 DEF CreateZapInvoice, RowsInHand
  <2>1. CASE UNCHANGED quote /\ CAS(i, {"QUOTE_CREATING"}, "FAILED")
    <3>1. \A j \in Payments : status'[j] = status[j] \/ (status[j] = "QUOTE_CREATING" /\ status'[j] = "FAILED")
      BY <2>0, <2>1 DEF CAS
    <3>2. QuoteInv'
      BY <2>0, <2>1, <3>1, RowsMoved DEF QuoteInv, Fits, Virgin, Awaiting, Polled, Funded, Forwarded
    <3>. QED
      BY <2>0, <2>1, <3>2, ToldKept DEF ToldInv, QuoteMoves, workerVars
  <2>2. CASE /\ status[i] = "QUOTE_CREATING" /\ status' = [status EXCEPT ![i] = "INVOICE_PENDING"]
             /\ quote' = [quote EXCEPT ![i] = "open"]
    <3>1. quote[i] = "none" /\ i \notin paid /\ i \notin closed /\ sent[i] = 0
      BY <2>0, <2>2 DEF QuoteInv, Fits, Virgin, Issued
    <3>2. QuoteInv'
      BY <2>0, <2>2, <3>1 DEF QuoteInv, GivenUp, Issued, Fits, Virgin, Awaiting, Polled, Funded, Forwarded
    <3>. QED
      BY <2>0, <2>2, <3>1, <3>2, ToldKept DEF ToldInv, QuoteMoves, workerVars
  <2>. QED
    BY <1>3, <2>1, <2>2 DEF CreateZapInvoice
<1>. QED
  BY <1>1, <1>2, <1>3 DEF Web

\* The operator closes on record; payer and mint act on quotes that exist.
LEMMA EnvironmentQuotes ==
  ASSUME TypeOK, QuoteInv, ToldInv, TransferInv, NEW i \in Payments,
         ClosePayment(i) \/ Pay(i) \/ MintDrops(i) \/ DeadlinePasses(i)
  PROVE  QuoteInv' /\ ToldInv'
<1>. USE DEF TypeOK, Types, RowTypes, WorldTypes, worldVars, rowVars
<1>1. CASE ClosePayment(i)
  <2>1. UNCHANGED <<quote, paid, sent, legacyError, workerVars>> /\ closed' = closed \cup {i}
        /\ status[i] = "DELIVERY_FAILED" /\ status' = [status EXCEPT ![i] = "FAILED"]
    BY <1>1 DEF ClosePayment, Closable
  <2>2. ~legacyError[i]
    BY <2>1 DEF TransferInv
  <2>3. QuoteInv'
    BY <2>1, <2>2 DEF QuoteInv, GivenUp, Issued, Fits, Virgin, Awaiting, Polled, Funded, Forwarded
  <2>. QED
    BY <2>1, <2>3, ToldKept DEF ToldInv, QuoteMoves, workerVars
<1>2. CASE Pay(i)
  <2>1. UNCHANGED <<quote, status, sent, closed, legacyError, workerVars>> /\ paid' = paid \cup {i}
        /\ quote[i] = "open"
    BY <1>2 DEF Pay
  <2>2. QuoteInv'
    BY <2>1 DEF QuoteInv, GivenUp, Issued
  <2>. QED
    BY <2>1, <2>2, ToldKept DEF ToldInv, QuoteMoves, workerVars
<1>3. CASE MintDrops(i)
  <2>1. UNCHANGED <<paid, status, sent, closed, legacyError, workerVars>>
        /\ quote[i] \in {"open", "issued"}
        /\ quote' = [quote EXCEPT ![i] = IF @ = "open" THEN "gone" ELSE "pruned"]
    BY <1>3 DEF MintDrops
  <2>2. \A j \in Payments : QuoteMoves(j)
    BY <2>1 DEF QuoteMoves
  <2>3. QuoteInv'
    BY <2>1 DEF QuoteInv, GivenUp, Issued, Fits, Virgin
  <2>. QED
    BY <2>1, <2>2, <2>3, ToldKept DEF ToldInv, workerVars
<1>4. CASE DeadlinePasses(i)
  <2>1. UNCHANGED <<status, closed, legacyError, worldVars, workerVars>>
    BY <1>4 DEF DeadlinePasses
  <2>2. QuoteInv'
    BY <2>1, RowsMoved
  <2>. QED
    BY <2>1, <2>2, ToldKept DEF ToldInv, QuoteMoves, workerVars
<1>. QED
  BY <1>1, <1>2, <1>3, <1>4

\* A worker's step gives a row a status that fits its quote, and learns of quotes
\* what is and stays true.
LEMMA WorkerQuotes ==
  ASSUME TypeOK, OwnerInv, OutcomeInv, QuoteInv, ToldInv, NEW w \in Workers,
         Start(w) \/ Cycle(w) \/ Fault(w) \/ Stop(w) \/ CooldownOver(w)
  PROVE  QuoteInv' /\ ToldInv'
<1>. USE DEF TypeOK, Types, RowTypes, WorldTypes, WorkerTypes, worldVars, rowVars
<1>a. \A i \in Payments : quote'[i] = quote[i] => QuoteMoves(i)
  BY DEF QuoteMoves
<1>b. ASSUME \A v \in Workers \ {w} :
               seen'[v] = seen[v] /\ stage'[v] = stage[v] /\ outcome'[v] = outcome[v] /\ job'[v] = job[v],
             UNCHANGED quote, \/ seen'[w] = seen[w]
                              \/ \A i \in Payments : seen'[w][i] = "unasked",
             stage'[w] # "reconciling" \/ outcome'[w] = "none"
      PROVE  ToldInv'
  <2>1. \A i \in Payments : Told(w, i)'
    BY <1>b DEF ToldInv, Told
  <2>. QED
    BY <1>a, <1>b, <2>1, ToldOthers
<1>1. CASE Acquire(w) \/ SkipStage(w) \/ PersistCooldown(w) \/ NextCycle(w)
  <2>1. UNCHANGED <<quote, paid, sent, closed, legacyError, status, seen, outcome, job>>
        /\ stage'[w] # "reconciling" /\ \A v \in Workers \ {w} : stage'[v] = stage[v]
    BY <1>1 DEF Acquire, SkipStage, PersistCooldown, NextCycle, At
  <2>. QED
    BY <2>1, <1>b, RowsMoved
<1>2. CASE ReconcileLegacy(w)
  <2>1. /\ UNCHANGED <<quote, paid, sent, closed, seen, outcome, job>>
        /\ stage'[w] # "reconciling" /\ \A v \in Workers \ {w} : stage'[v] = stage[v]
    BY <1>2 DEF ReconcileLegacy, At
  <2>2. \A i \in Payments :
          /\ status'[i] = IF IsLegacyTimeout(i) THEN "SETTLEMENT_UNCONFIRMED" ELSE status[i]
          /\ legacyError'[i] = (~IsLegacyTimeout(i) /\ legacyError[i])
    BY <1>2 DEF ReconcileLegacy
  <2>3. QuoteInv'
    BY <2>1, <2>2 DEF QuoteInv, GivenUp, Issued, IsLegacyTimeout, Fits, Virgin, Awaiting, Polled, Funded, Forwarded
  <2>. QED
    BY <2>1, <2>3, <1>b
<1>3. CASE Quarantine(w)
  <2>1. /\ UNCHANGED <<quote, paid, sent, closed, legacyError, seen, outcome, job>>
        /\ stage'[w] # "reconciling" /\ \A v \in Workers \ {w} : stage'[v] = stage[v]
    BY <1>3 DEF Quarantine, At
  <2>2. \A i \in Payments : status'[i] = Quarantined(status[i])
    BY <1>3 DEF Quarantine
  <2>3. \A s \in Status : \/ Quarantined(s) = s
                          \/ s = "WORKER_QUOTE_CREATING" /\ Quarantined(s) = "FAILED"
                          \/ s \in Funded /\ Quarantined(s) \in Funded /\ s # "FAILED"
    BY DEF Quarantined, Funded, Forwarded
  <2>4. ASSUME NEW i \in Payments
        PROVE  \/ status'[i] = status[i]
               \/ /\ i \notin closed /\ Fits(status'[i], quote[i])
                  /\ status'[i] = "FAILED" => quote[i] \notin {"open", "issued"}
    <3>1. status[i] \in Status
      OBVIOUS
    <3>2. CASE status[i] = "WORKER_QUOTE_CREATING" /\ status'[i] = "FAILED"
      BY <3>2 DEF QuoteInv, Fits, Virgin, Awaiting, Polled, Funded, Forwarded
    <3>3. CASE status[i] \in Funded /\ status'[i] \in Funded /\ status[i] # "FAILED"
      BY <3>3 DEF QuoteInv, Fits, Virgin, Awaiting, Polled, Funded, Forwarded
    <3>. QED
      BY <2>2, <2>3, <3>1, <3>2, <3>3
  <2>. QED
    BY <2>1, <2>4, <1>b, RowsMoved
<1>4. CASE ClaimQuote(w) \/ SelectPaid(w) \/ ClaimDelivery(w) \/ ClaimReceipt(w)
  <2>1. /\ UNCHANGED <<quote, paid, sent, closed, legacyError, seen, outcome>>
        /\ \A v \in Workers \ {w} : stage'[v] = stage[v] /\ job'[v] = job[v]
        /\ stage[w] \in {"quote", "reconcile", "deliver", "receipt"}
    BY <1>4 DEF ClaimQuote, SelectPaid, ClaimDelivery, ClaimReceipt, Take, At
  <2>2. \A i \in Payments :
          \/ status'[i] = status[i]
          \/ status[i] = "QUOTE_PENDING" /\ status'[i] = "WORKER_QUOTE_CREATING"
          \/ status[i] = "SETTLED" /\ status'[i] = "DELIVERING"
          \/ status[i] = "RECEIPT_PENDING" /\ status'[i] = "RECEIPT_PUBLISHING"
    BY <1>4 DEF ClaimQuote, SelectPaid, ClaimDelivery, ClaimReceipt, Candidates, CAS
  <2>3. QuoteInv'
    BY <2>1, <2>2, RowsMoved DEF QuoteInv, Fits, Virgin, Awaiting, Polled, Funded, Forwarded
  <2>. QED
    BY <1>b, <2>1, <2>3 DEF OutcomeInv
<1>5. CASE CreateInvoice(w)
  <2>. DEFINE i == job[w]
  <2>1. /\ UNCHANGED <<paid, sent, closed, legacyError, seen, outcome>>
        /\ \A v \in Workers \ {w} : stage'[v] = stage[v] /\ job'[v] = job[v]
        /\ stage[w] = "quoting" /\ stage'[w] = "discover"
    BY <1>5 DEF CreateInvoice, At
  <2>2. i \in Payments /\ status[i] = "WORKER_QUOTE_CREATING"
    BY <2>1 DEF OwnerInv, RowsInHand
  <2>3. quote[i] = "none" /\ i \notin paid /\ i \notin closed /\ sent[i] = 0
    BY <2>2 DEF QuoteInv, Fits, Virgin, Issued
  <2>4. CASE status' = [status EXCEPT ![i] = "FAILED"] /\ UNCHANGED quote
    <3>1. QuoteInv'
      BY <2>1, <2>2, <2>3, <2>4, RowsMoved DEF Fits, Virgin, Awaiting, Polled, Funded, Forwarded
    <3>. QED
      BY <1>b, <2>1, <2>4, <3>1
  <2>5. CASE status' = [status EXCEPT ![i] = "INVOICE_PENDING"] /\ quote' = [quote EXCEPT ![i] = "open"]
    <3>1. QuoteInv'
      BY <2>1, <2>2, <2>3, <2>5 DEF QuoteInv, GivenUp, Issued, Fits, Virgin, Awaiting, Polled,
                                    Funded, Forwarded
    <3>2. \A j \in Payments : QuoteMoves(j)
      BY <2>3, <2>5 DEF QuoteMoves
    <3>3. \A j \in Payments : Told(w, j)'
      BY <2>1, <3>2 DEF ToldInv, Told, QuoteMoves, Issued
    <3>. QED
      BY <2>1, <3>1, <3>2, <3>3, ToldOthers
  <2>. QED
    BY <1>5, <2>2, <2>4, <2>5 DEF CreateInvoice, CAS, Set
<1>6. CASE StartDiscovery(w)
  <2>. PICK B \in Batches \ {{}} :
         seen' = [seen EXCEPT ![w] = [i \in Payments |-> IF i \in B THEN "asked" ELSE "unasked"]]
    BY <1>6 DEF StartDiscovery
  <2>1. /\ UNCHANGED <<quote, paid, sent, closed, legacyError, status, outcome, job>>
        /\ stage'[w] # "reconciling" /\ \A v \in Workers \ {w} : stage'[v] = stage[v]
    BY <1>6 DEF StartDiscovery, At
  <2>2. \A i \in B : i \in Payments /\ quote[i] # "none"
    BY DEF Batches, QuoteInv, Fits, Awaiting
  <2>3. \A i \in Payments : Told(w, i)'
    BY <2>1, <2>2 DEF Told
  <2>. QED
    BY <1>a, <2>1, <2>3, RowsMoved, ToldOthers
<1>7. CASE ReadQuoteState(w)
  <2>1. /\ UNCHANGED <<quote, paid, sent, closed, legacyError, status, outcome, job, stage>>
        /\ stage[w] = "discovering"
    BY <1>7 DEF ReadQuoteState
  <2>. PICK i \in Payments, reading \in Readings :
         /\ seen[w][i] = "asked" /\ seen' = [seen EXCEPT ![w][i] = reading]
         /\ reading \in {"DEFERRED", "ERROR"} \/ reading = MintAnswer(i)
    BY <1>7 DEF ReadQuoteState
  <2>2. quote[i] # "none"
    BY DEF ToldInv, Told
  <2>3. quote[i] \in {"open", "issued", "gone", "pruned"}
    BY <2>2 DEF Quotes
  <2>4. reading = "NOT_FOUND" => quote[i] \in {"gone", "pruned"}
    BY <2>3 DEF MintAnswer
  <2>5. \A j \in Payments : seen'[w][j] = IF j = i THEN reading ELSE seen[w][j]
    OBVIOUS
  <2>6. \A j \in Payments : Told(w, j)'
    BY <2>1, <2>2, <2>4, <2>5 DEF ToldInv, Told
  <2>. QED
    BY <1>a, <2>1, <2>6, RowsMoved, ToldOthers
<1>8. CASE ApplyReading(w)
  <2>1. /\ UNCHANGED <<quote, paid, sent, closed, legacyError, outcome, job>>
        /\ stage'[w] # "reconciling" /\ \A v \in Workers \ {w} : stage'[v] = stage[v]
    BY <1>8 DEF ApplyReading, At
  <2>. PICK i \in Payments :
         /\ seen' = [seen EXCEPT ![w][i] = "unasked"] /\ seen[w][i] # "unasked"
         /\ CAS(i, Polled, AfterReading(i, seen[w][i]))
    BY <1>8 DEF ApplyReading
  <2>2. quote[i] # "none" /\ (seen[w][i] = "NOT_FOUND" => quote[i] \in {"gone", "pruned"})
    BY DEF ToldInv, Told
  <2>3. \A j \in Payments : seen'[w][j] = IF j = i THEN "unasked" ELSE seen[w][j]
    OBVIOUS
  <2>4. \A j \in Payments : Told(w, j)'
    BY <2>1, <2>3 DEF ToldInv, Told
  <2>5. ToldInv'
    BY <1>a, <2>1, <2>4, ToldOthers
  <2>6. CASE status[i] \in Polled
    <3>1. status' = [status EXCEPT ![i] = AfterReading(i, seen[w][i])]
      BY <2>6 DEF CAS
    <3>2. \/ AfterReading(i, seen[w][i]) = "FAILED" /\ seen[w][i] = "NOT_FOUND"
          \/ AfterReading(i, seen[w][i]) \in Awaiting
      BY <2>6 DEF AfterReading, AfterUnpaid, Awaiting, Polled
    <3>3. i \notin closed
      BY <2>6 DEF QuoteInv, Polled
    <3>4. Fits(status'[i], quote[i]) /\ (status'[i] = "FAILED" => quote[i] \notin {"open", "issued"})
      BY <2>2, <3>1, <3>2 DEF Fits, Virgin, Awaiting, Polled, Funded, Forwarded
    <3>. QED
      BY <2>1, <2>5, <3>1, <3>3, <3>4, RowsMoved
  <2>7. CASE status[i] \notin Polled
    BY <2>1, <2>5, <2>7, RowsMoved DEF CAS
  <2>. QED
    BY <2>6, <2>7
<1>9. CASE CheckQuote(w)
  <2>. DEFINE i == job[w]
  <2>1. /\ UNCHANGED <<status, paid, sent, closed, legacyError, stage, seen, job>>
        /\ stage[w] = "reconciling" /\ i \in Payments
        /\ \A v \in Workers \ {w} : outcome'[v] = outcome[v]
    BY <1>9 DEF CheckQuote, Return, RowsInHand
  <2>2. CASE /\ quote[i] = "open" /\ i \in paid /\ quote' = [quote EXCEPT ![i] = "issued"]
             /\ outcome'[w] \in {"paid", "unpaid"}
    <3>1. \A j \in Payments : QuoteMoves(j)
      BY <2>2 DEF QuoteMoves
    <3>2. QuoteInv'
      BY <2>1, <2>2 DEF QuoteInv, GivenUp, Issued, Fits, Virgin
    <3>3. \A j \in Payments : Told(w, j)'
      BY <2>1, <2>2 DEF ToldInv, Told, Issued
    <3>. QED
      BY <2>1, <3>1, <3>2, <3>3, ToldOthers
  <2>3. CASE /\ UNCHANGED quote
             /\ \/ outcome'[w] = "unpaid"
                \/ quote[i] = "issued" /\ outcome'[w] = "paid"
                \/ quote[i] \in {"gone", "pruned"} /\ outcome'[w] = "notfound"
    <3>1. \A j \in Payments : Told(w, j)'
      BY <2>1, <2>3 DEF ToldInv, Told, Issued
    <3>. QED
      BY <1>a, <2>1, <2>3, <3>1, RowsMoved, ToldOthers
  <2>. QED
    BY <1>9, <2>1, <2>2, <2>3 DEF CheckQuote, Return
<1>10. CASE CommitReconcile(w)
  <2>. DEFINE i == job[w]
  <2>1. /\ UNCHANGED <<quote, paid, sent, closed, legacyError, seen>>
        /\ stage[w] = "reconciling" /\ stage'[w] # "reconciling" /\ i \in Payments
        /\ \A v \in Workers \ {w} : stage'[v] = stage[v] /\ outcome'[v] = outcome[v] /\ job'[v] = job[v]
        /\ CAS(i, {"PAID_RECONCILIATION_PENDING"}, AfterCheck(outcome[w]))
    BY <1>10 DEF CommitReconcile, Finish, At, RowsInHand
  <2>2. /\ outcome[w] = "paid" => Issued(i)
        /\ outcome[w] = "notfound" => quote[i] \in {"gone", "pruned"}
    BY <2>1 DEF ToldInv, Told
  <2>3. ToldInv'
    BY <1>b, <2>1
  <2>4. CASE status[i] = "PAID_RECONCILIATION_PENDING"
    <3>1. status' = [status EXCEPT ![i] = AfterCheck(outcome[w])]
      BY <2>1, <2>4 DEF CAS
    <3>2. i \notin closed /\ quote[i] # "none"
      BY <2>1, <2>4 DEF QuoteInv, Fits, Awaiting
    <3>3. /\ Fits(AfterCheck(outcome[w]), quote[i])
          /\ AfterCheck(outcome[w]) = "FAILED" => quote[i] \notin {"open", "issued"}
      BY <2>2, <3>2 DEF AfterCheck, Fits, Issued, Virgin, Awaiting, Polled, Funded, Forwarded
    <3>. QED
      BY <2>1, <2>3, <3>1, <3>2, <3>3, RowsMoved
  <2>5. CASE status[i] # "PAID_RECONCILIATION_PENDING"
    BY <2>1, <2>3, <2>5, RowsMoved DEF CAS
  <2>. QED
    BY <2>4, <2>5
<1>11. CASE SendEcash(w) \/ PublishReceipt(w)
  <2>1. /\ UNCHANGED <<status, quote, paid, closed, legacyError, stage, seen, job>>
        /\ stage[w] \in {"delivering", "publishing"}
        /\ \A v \in Workers \ {w} : outcome'[v] = outcome[v]
    BY <1>11 DEF SendEcash, PublishReceipt, Return
  <2>2. \A i \in Payments : Told(w, i)'
    BY <2>1 DEF ToldInv, Told
  <2>3. ToldInv'
    BY <1>a, <2>1, <2>2, ToldOthers
  <2>4. CASE PublishReceipt(w)
    BY <2>1, <2>3, <2>4, RowsMoved DEF PublishReceipt
  <2>5. CASE SendEcash(w)
    <3>1. stage[w] = "delivering" /\ \A i \in Payments : i # job[w] => sent'[i] = sent[i]
      BY <2>5 DEF SendEcash
    <3>2. status[job[w]] = "DELIVERING" /\ job[w] \in Payments
      BY <3>1 DEF OwnerInv, RowsInHand
    <3>3. Issued(job[w])
      BY <3>2 DEF QuoteInv, Fits, Funded, Issued
    <3>4. QuoteInv'
      BY <2>1, <3>1, <3>3 DEF QuoteInv, GivenUp, Issued
    <3>. QED
      BY <2>3, <3>4
  <2>. QED
    BY <1>11, <2>4, <2>5
<1>12. CASE CommitDelivery(w) \/ CommitReceipt(w) \/ RecordDeliveryRaises(w)
  <2>. DEFINE i == job[w]
  <2>1. /\ UNCHANGED <<quote, paid, sent, closed, legacyError, seen>>
        /\ stage[w] \in {"delivering", "publishing"} /\ stage'[w] # "reconciling"
        /\ \A v \in Workers \ {w} : stage'[v] = stage[v] /\ outcome'[v] = outcome[v] /\ job'[v] = job[v]
    BY <1>12 DEF CommitDelivery, CommitReceipt, RecordDeliveryRaises, Finish, At
  <2>2. i \in Payments /\ status[i] \in {"DELIVERING", "RECEIPT_PUBLISHING"}
    BY <2>1 DEF OwnerInv, RowsInHand
  <2>3. \A j \in Payments : status'[j] = status[j] \/ (j = i /\ status'[j] \in Funded)
    BY <1>12, <2>2 DEF CommitDelivery, CommitReceipt, RecordDeliveryRaises, CAS, AfterDelivery,
                       Funded, Forwarded
  <2>4. Fits(status[i], quote[i]) /\ i \notin closed
    BY <2>2 DEF QuoteInv
  <2>5. QuoteInv'
    BY <2>1, <2>2, <2>3, <2>4, RowsMoved DEF Fits, Virgin, Awaiting, Polled, Funded, Forwarded
  <2>. QED
    BY <1>b, <2>1, <2>5
<1>13. CASE CycleFails(w) \/ Stop(w) \/ Crash(w)
  <2>1. /\ UNCHANGED <<status, quote, paid, sent, closed, legacyError>>
        /\ stage'[w] # "reconciling" /\ \A i \in Payments : seen'[w][i] = "unasked"
        /\ \A v \in Workers \ {w} : /\ stage'[v] = stage[v] /\ outcome'[v] = outcome[v]
                                    /\ job'[v] = job[v] /\ seen'[v] = seen[v]
    BY <1>13 DEF CycleFails, Stop, Crash, Leave, Forget
  <2>. QED
    BY <1>b, <2>1, RowsMoved
<1>14. CASE CooldownOver(w)
  <2>1. UNCHANGED <<status, quote, paid, sent, closed, legacyError, stage, seen, job, outcome>>
    BY <1>14 DEF CooldownOver
  <2>. QED
    BY <2>1, RowsMoved DEF ToldInv, Told, Issued
<1>. QED
  BY <1>1, <1>2, <1>3, <1>4, <1>5, <1>6, <1>7, <1>8, <1>9, <1>10, <1>11, <1>12, <1>13, <1>14
     DEF Start, Cycle, Fault

\* A step of the system keeps rows and quotes in agreement.
LEMMA QuoteInductive ==
  /\ Init => QuoteInv /\ ToldInv /\ OutcomeInv
  /\ TypeOK /\ OwnerInv /\ TransferInv /\ OutcomeInv /\ QuoteInv /\ ToldInv /\ [Next]_vars
       => QuoteInv' /\ ToldInv'
<1>1. ASSUME Init PROVE QuoteInv /\ ToldInv /\ OutcomeInv
  <2>1. \A i \in Payments : \/ status[i] = "FAILED" /\ legacyError[i] /\ quote[i] = "open"
                            \/ status[i] = "ABSENT" /\ quote[i] = "none"
    BY <1>1 DEF Init
  <2>2. closed = {} /\ paid = {} /\ \A i \in Payments : sent[i] = 0
    BY <1>1 DEF Init
  <2>3. QuoteInv
    BY <2>1, <2>2 DEF QuoteInv, Fits, Virgin, Awaiting, Polled, Funded, Forwarded, GivenUp, Issued
  <2>4. ToldInv /\ OutcomeInv
    BY <1>1 DEF Init, ToldInv, Told, OutcomeInv
  <2>. QED
    BY <2>3, <2>4
<1>2. ASSUME TypeOK, OwnerInv, TransferInv, OutcomeInv, QuoteInv, ToldInv, [Next]_vars
      PROVE  QuoteInv' /\ ToldInv'
  <2>1. CASE \E r \in Requests : Web(r)
    BY <1>2, <2>1, WebQuotes
  <2>2. CASE \E w \in Workers : Start(w) \/ Cycle(w) \/ Fault(w) \/ Stop(w) \/ CooldownOver(w)
    BY <1>2, <2>2, WorkerQuotes
  <2>3. CASE \E i \in Payments : ClosePayment(i) \/ Pay(i) \/ MintDrops(i) \/ DeadlinePasses(i)
    BY <1>2, <2>3, EnvironmentQuotes
  <2>4. CASE UNCHANGED vars
    BY <1>2, <2>4 DEF vars, rowVars, worldVars, workerVars, QuoteInv, GivenUp, Issued, ToldInv, Told
  <2>. QED
    BY <1>2, <2>1, <2>2, <2>3, <2>4 DEF Next
<1>. QED
  BY <1>1, <1>2

\* No ecash leaves for a payment whose own quote was not paid and issued, whatever
\* the worker, the web processes and the operator do, and whatever fails.
THEOREM EcashIsFunded == Spec => []TransferIsFunded
<1>1. QuoteInv => TransferIsFunded
  BY DEF QuoteInv, TransferIsFunded
<1>. QED
  BY <1>1, InitTypes, TypesStep, OwnerInductive, TransferInductive, OutcomeStep, QuoteInductive,
     PTL DEF Spec

\* A settled payment is given up only on record, or with its quote gone.
THEOREM PaidStaysOpen == Spec => []PaidIsNeverDropped
<1>1. TypeOK /\ QuoteInv => PaidIsNeverDropped
  BY DEF QuoteInv, GivenUp, PaidIsNeverDropped, TypeOK, Types, WorldTypes, Quotes
<1>. QED
  BY <1>1, InitTypes, TypesStep, OwnerInductive, TransferInductive, OutcomeStep, QuoteInductive,
     PTL DEF Spec

-----------------------------------------------------------------------------
(* Final rows.                                                             *)

\* The edges along which a worker moves a row.
LEMMA WorkerEdges ==
  ASSUME TypeOK, OwnerInv, NEW w \in Workers,
         Start(w) \/ Cycle(w) \/ Fault(w) \/ Stop(w) \/ CooldownOver(w)
  PROVE  /\ \A i \in Payments :
              \/ status'[i] = status[i]
              \/ /\ status[i] \notin {"ABSENT", "DELIVERED"} /\ status'[i] # "ABSENT"
                 /\ status[i] = "FAILED" => legacyError[i]
         /\ UNCHANGED <<zapEvent, closed, webVars>>
<1>. USE DEF TypeOK, Types, WorkerTypes, RowTypes, rowVars
<1>1. CASE Start(w)
  BY <1>1 DEF Start, Acquire, ReconcileLegacy, Quarantine, Quarantined, IsLegacyTimeout
<1>2. CASE \/ SkipStage(w) \/ StartDiscovery(w) \/ ReadQuoteState(w) \/ PersistCooldown(w)
           \/ SelectPaid(w) \/ NextCycle(w) \/ CooldownOver(w) \/ CycleFails(w) \/ Stop(w)
           \/ Crash(w) \/ CheckQuote(w) \/ SendEcash(w) \/ PublishReceipt(w)
  BY <1>2 DEF SkipStage, StartDiscovery, ReadQuoteState, PersistCooldown, SelectPaid, NextCycle,
              CooldownOver, CycleFails, Stop, Crash, Leave, Forget, CheckQuote, SendEcash,
              PublishReceipt, Return
<1>3. CASE ClaimQuote(w) \/ CreateInvoice(w) \/ ClaimDelivery(w) \/ ClaimReceipt(w)
  BY <1>3 DEF ClaimQuote, CreateInvoice, ClaimDelivery, ClaimReceipt, CAS
<1>4. CASE ApplyReading(w)
  <2>1. \A i \in Payments, reading \in Readings :
          status[i] \in Polled => AfterReading(i, reading) # "ABSENT"
    BY DEF AfterReading, AfterUnpaid, Polled
  <2>. QED
    BY <1>4, <2>1 DEF ApplyReading, CAS, Polled
<1>5. CASE CommitReconcile(w) \/ CommitDelivery(w) \/ CommitReceipt(w) \/ RecordDeliveryRaises(w)
  BY <1>5 DEF CommitReconcile, CommitDelivery, CommitReceipt, RecordDeliveryRaises, Finish, CAS,
              AfterCheck, AfterDelivery
<1>. QED
  BY <1>1, <1>2, <1>3, <1>4, <1>5 DEF Cycle, Fault

\* A closed row stays closed, and a delivered one delivered, whatever result,
\* retry, restart or legacy recovery comes late.
THEOREM FinalIsFinal == Spec => FinalRowsStay
<1>. DEFINE Stays == \A i \in Payments :
                      status[i] = "DELIVERED" \/ i \in closed => status'[i] = status[i]
<1>1. TypeOK /\ OwnerInv /\ QuoteInv /\ [Next]_vars => [Stays]_status
  <2>. SUFFICES ASSUME TypeOK, OwnerInv, QuoteInv, Next PROVE Stays \/ UNCHANGED status
    BY DEF vars, rowVars
  <2>1. \A i \in closed : status[i] = "FAILED" /\ ~legacyError[i]
    BY DEF QuoteInv, TypeOK, Types, RowTypes
  <2>2. CASE \E r \in Requests : Web(r)
    BY <2>1, <2>2, WebRows
  <2>3. CASE \E w \in Workers : Start(w) \/ Cycle(w) \/ Fault(w) \/ Stop(w) \/ CooldownOver(w)
    BY <2>1, <2>3, WorkerEdges
  <2>4. CASE \E i \in Payments : ClosePayment(i) \/ Pay(i) \/ MintDrops(i) \/ DeadlinePasses(i)
    BY <2>1, <2>4, EnvironmentRows
  <2>. QED
    BY <2>2, <2>3, <2>4 DEF Next
<1>. QED
  BY <1>1, InitTypes, TypesStep, OwnerInductive, TransferInductive, OutcomeStep, QuoteInductive,
     PTL DEF Spec, FinalRowsStay

-----------------------------------------------------------------------------
(* Retries are bounded.                                                    *)

MaxTries == IF DeliveryRetryAttempts > 1 THEN DeliveryRetryAttempts ELSE 1

\* A row that may still be delivered has a try left.
TriesInv ==
  \A i \in Payments :
    /\ deliveryAttempts[i] <= MaxTries
    /\ status[i] \in Unsent => deliveryAttempts[i] < MaxTries
    /\ legacyError[i] => deliveryAttempts[i] = 0

\* A step that counts no try keeps the bound when the rows it makes deliverable
\* have a try left.
LEMMA TriesKept ==
  ASSUME TypeOK, TriesInv, UNCHANGED deliveryAttempts,
         \A i \in Payments : legacyError'[i] => legacyError[i],
         \A i \in Payments :
           status'[i] \in Unsent => status[i] \in Unsent \/ deliveryAttempts[i] < MaxTries
  PROVE  TriesInv'
BY DEF TriesInv, MaxTries

\* A worker counts a try when it claims a delivery, and puts a row back only with
\* tries left.
LEMMA WorkerTries ==
  ASSUME TypeOK, OwnerInv, TransferInv, TriesInv, NEW w \in Workers,
         Start(w) \/ Cycle(w) \/ Fault(w) \/ Stop(w) \/ CooldownOver(w)
  PROVE  TriesInv'
<1>. USE DEF TypeOK, Types, WorkerTypes, RowTypes, rowVars
<1>0. MaxTries \in Nat \ {0}
  BY ConstantsAssumption DEF MaxTries
<1>1. CASE Start(w)
  <2>1. UNCHANGED deliveryAttempts /\ \A i \in Payments : legacyError'[i] => legacyError[i]
    BY <1>1 DEF Start, Acquire, ReconcileLegacy, Quarantine
  <2>2. \A i \in Payments : \/ status'[i] = status[i] \/ legacyError[i]
                            \/ status'[i] \notin Unsent
    BY <1>1 DEF Start, Acquire, ReconcileLegacy, Quarantine, Quarantined, IsLegacyTimeout, Unsent,
                Polled
  <2>. QED
    BY <1>0, <2>1, <2>2, TriesKept DEF TriesInv
<1>2. CASE \/ SkipStage(w) \/ StartDiscovery(w) \/ ReadQuoteState(w) \/ PersistCooldown(w)
           \/ SelectPaid(w) \/ NextCycle(w) \/ CooldownOver(w) \/ CycleFails(w) \/ Stop(w)
           \/ Crash(w) \/ CheckQuote(w) \/ SendEcash(w) \/ PublishReceipt(w)
  <2>1. UNCHANGED <<status, deliveryAttempts, legacyError>>
    BY <1>2 DEF SkipStage, StartDiscovery, ReadQuoteState, PersistCooldown, SelectPaid, NextCycle,
                CooldownOver, CycleFails, Stop, Crash, Leave, Forget, CheckQuote, SendEcash,
                PublishReceipt, Return
  <2>. QED
    BY <2>1, TriesKept
<1>3. CASE ClaimQuote(w) \/ CreateInvoice(w) \/ ClaimReceipt(w) \/ ApplyReading(w)
           \/ CommitReconcile(w) \/ CommitReceipt(w) \/ RecordDeliveryRaises(w)
  <2>1. UNCHANGED <<deliveryAttempts, legacyError>>
    BY <1>3 DEF ClaimQuote, CreateInvoice, ClaimReceipt, ApplyReading, CommitReconcile,
                CommitReceipt, RecordDeliveryRaises, Finish
  <2>2. \A i \in Payments : status'[i] \in Unsent => status[i] \in Unsent
    BY <1>3 DEF ClaimQuote, CreateInvoice, ClaimReceipt, ApplyReading, CommitReconcile,
                CommitReceipt, RecordDeliveryRaises, CAS, Unsent, Polled
  <2>. QED
    BY <2>1, <2>2, TriesKept
<1>4. CASE ClaimDelivery(w)
  <2>. PICK i \in Payments :
         /\ status[i] = "SETTLED" /\ status' = [status EXCEPT ![i] = "DELIVERING"]
         /\ deliveryAttempts' = [deliveryAttempts EXCEPT ![i] = @ + 1]
         /\ UNCHANGED legacyError
    BY <1>4 DEF ClaimDelivery, Candidates, CAS, Set
  <2>1. deliveryAttempts[i] < MaxTries /\ ~legacyError[i]
    BY DEF TriesInv, TransferInv, Unsent
  <2>. QED
    BY <1>0, <2>1 DEF TriesInv, Unsent, Polled, MaxTries
<1>5. CASE CommitDelivery(w)
  <2>1. UNCHANGED <<deliveryAttempts, legacyError>>
    BY <1>5 DEF CommitDelivery
  <2>2. \A i \in Payments : AfterDelivery(i, outcome[w]) \in Unsent => deliveryAttempts[i] < MaxTries
    BY DEF AfterDelivery, RetriesLeft, MaxTries, Unsent, Polled
  <2>3. \A i \in Payments : status'[i] = status[i] \/ status'[i] = AfterDelivery(i, outcome[w])
    BY <1>5 DEF CommitDelivery, CAS
  <2>. QED
    BY <2>1, <2>2, <2>3, TriesKept
<1>. QED
  BY <1>1, <1>2, <1>3, <1>4, <1>5 DEF Cycle, Fault

LEMMA TriesInductive ==
  /\ Init => TriesInv
  /\ TypeOK /\ OwnerInv /\ TransferInv /\ TriesInv /\ [Next]_vars => TriesInv'
<1>1. Init => TriesInv
  BY ConstantsAssumption DEF Init, TriesInv, MaxTries
<1>2. ASSUME TypeOK, OwnerInv, TransferInv, TriesInv, [Next]_vars PROVE TriesInv'
  <2>1. CASE \E r \in Requests : Web(r)
    <3>1. UNCHANGED deliveryAttempts
      BY <2>1 DEF Web, Callback, LookupZap, InsertZap, InsertZapConflict, CreateZapInvoice,
                  WaitForInvoice, WebCrash, Insert, rowVars
    <3>. QED
      BY <1>2, <2>1, <3>1, WebRows, TriesKept DEF Unsent
  <2>2. CASE \E w \in Workers : Start(w) \/ Cycle(w) \/ Fault(w) \/ Stop(w) \/ CooldownOver(w)
    BY <1>2, <2>2, WorkerTries
  <2>3. CASE \E i \in Payments : ClosePayment(i) \/ Pay(i) \/ MintDrops(i) \/ DeadlinePasses(i)
    <3>1. UNCHANGED deliveryAttempts
      BY <2>3 DEF ClosePayment, Pay, MintDrops, DeadlinePasses, rowVars
    <3>. QED
      BY <1>2, <2>3, <3>1, EnvironmentRows, TriesKept DEF Unsent, Polled
  <2>4. CASE UNCHANGED vars
    BY <1>2, <2>4, TriesKept DEF vars, rowVars
  <2>. QED
    BY <1>2, <2>1, <2>2, <2>3, <2>4 DEF Next
<1>. QED
  BY <1>1, <1>2

\* A row the worker will deliver again has not been delivered, and it is delivered
\* at most max(1, service_acorn_delivery_retry_attempts) times.
THEOREM RetriesAreBounded == Spec => []RetriesAreSafe
<1>1. TransferInv /\ TriesInv => RetriesAreSafe
  BY DEF TransferInv, TriesInv, MaxTries, Unsent, RetriesAreSafe
<1>. QED
  BY <1>1, InitTypes, TypesStep, OwnerInductive, TransferInductive, TriesInductive, PTL DEF Spec

-----------------------------------------------------------------------------
(* Receipts.                                                               *)

\* The rows for which no receipt has been tried.
Unreceipted == Unsent \cup {"DELIVERING", "RECEIPT_PENDING"}

\* The ecash of a row behind its delivery has left; a row before its receipt has none.
ReceiptInv ==
  /\ \A i \in Payments :
       /\ status[i] \in Forwarded => sent[i] = 1
       /\ receipts[i] > 0 => sent[i] = 1 /\ zapEvent[i] # NoEvent
       /\ receipts[i] <= 1
       /\ status[i] \in Unreceipted \/ legacyError[i] => receipts[i] = 0
       /\ status[i] \in {"RECEIPT_PENDING", "RECEIPT_PUBLISHING"} => zapEvent[i] # NoEvent
  /\ \A w \in Workers :
       /\ stage[w] = "delivering" /\ outcome[w] = "sent" => sent[job[w]] = 1
       /\ stage[w] = "publishing" /\ outcome[w] = "none" => receipts[job[w]] = 0

\* A step that sends and publishes nothing, and moves rows neither behind the
\* delivery nor back before the receipt, keeps ReceiptInv.
LEMMA ReceiptKept ==
  ASSUME TypeOK, ReceiptInv, UNCHANGED <<sent, receipts>>,
         \A i \in Payments : zapEvent'[i] = zapEvent[i] \/ receipts[i] = 0,
         \A i \in Payments : legacyError'[i] => legacyError[i],
         \A i \in Payments :
           \/ status'[i] = status[i] /\ (zapEvent'[i] = zapEvent[i] \/ status[i] \notin Forwarded)
           \/ /\ status'[i] \notin Forwarded
              /\ status'[i] \in Unreceipted => receipts[i] = 0,
         \A w \in Workers :
           \/ stage'[w] \notin {"delivering", "publishing"}
           \/ /\ stage'[w] = "delivering" /\ outcome'[w] # "sent"
           \/ stage'[w] = stage[w] /\ job'[w] = job[w] /\ outcome'[w] = outcome[w]
  PROVE  ReceiptInv'
BY DEF ReceiptInv, Forwarded

\* Only a worker that has the transfer's result moves a row behind the delivery,
\* and only one that claimed the receipt publishes it.
LEMMA WorkerReceipts ==
  ASSUME TypeOK, OwnerInv, OutcomeInv, TransferInv, ReceiptInv, NEW w \in Workers,
         Start(w) \/ Cycle(w) \/ Fault(w) \/ Stop(w) \/ CooldownOver(w)
  PROVE  ReceiptInv'
<1>. USE DEF TypeOK, Types, WorkerTypes, RowTypes, WorldTypes, rowVars, worldVars
<1>0. UNCHANGED zapEvent
  BY WorkerEdges
<1>1. CASE Start(w)
  <2>1. /\ UNCHANGED <<sent, receipts, job, outcome>> /\ stage'[w] \notin {"delivering", "publishing"}
        /\ \A v \in Workers \ {w} : stage'[v] = stage[v]
        /\ \A i \in Payments : legacyError'[i] => legacyError[i]
    BY <1>1 DEF Start, Acquire, ReconcileLegacy, Quarantine, At
  <2>2. \A i \in Payments :
          \/ status'[i] = status[i]
          \/ legacyError[i] /\ status'[i] = "SETTLEMENT_UNCONFIRMED"
          \/ status'[i] \in {"FAILED", "DELIVERY_FAILED"}
          \/ status[i] = "RECEIPT_PUBLISHING" /\ status'[i] = "RECEIPT_FAILED"
    BY <1>1 DEF Start, Acquire, ReconcileLegacy, Quarantine, Quarantined, IsLegacyTimeout
  <2>. QED
    BY <1>0, <2>1, <2>2 DEF ReceiptInv, Forwarded, Unreceipted, Unsent, Polled
<1>2. CASE \/ SkipStage(w) \/ StartDiscovery(w) \/ ReadQuoteState(w) \/ PersistCooldown(w)
           \/ SelectPaid(w) \/ NextCycle(w) \/ CooldownOver(w) \/ CycleFails(w) \/ Stop(w)
           \/ Crash(w) \/ CheckQuote(w)
  <2>1. UNCHANGED <<status, sent, receipts, legacyError>>
    BY <1>2 DEF SkipStage, StartDiscovery, ReadQuoteState, PersistCooldown, SelectPaid, NextCycle,
                CooldownOver, CycleFails, Stop, Crash, Leave, Forget, CheckQuote, Return
  <2>2. \A v \in Workers :
           \/ stage'[v] \notin {"delivering", "publishing"}
           \/ stage'[v] = stage[v] /\ job'[v] = job[v] /\ outcome'[v] = outcome[v]
    BY <1>2 DEF SkipStage, StartDiscovery, ReadQuoteState, PersistCooldown, SelectPaid, NextCycle,
                CooldownOver, CycleFails, Stop, Crash, Leave, Forget, CheckQuote, Return, Take, At
  <2>. QED
    BY <1>0, <2>1, <2>2, ReceiptKept
<1>3. CASE ClaimQuote(w) \/ CreateInvoice(w) \/ ApplyReading(w) \/ CommitReconcile(w)
  <2>1. /\ UNCHANGED <<sent, receipts, legacyError>> /\ stage'[w] \notin {"delivering", "publishing"}
        /\ \A v \in Workers \ {w} : stage'[v] = stage[v] /\ job'[v] = job[v] /\ outcome'[v] = outcome[v]
    BY <1>3 DEF ClaimQuote, CreateInvoice, ApplyReading, CommitReconcile, Finish, Take, At
  <2>2. \A i \in Payments :
          status'[i] = status[i] \/ (status[i] \in Unsent /\ status'[i] \notin Forwarded)
    BY <1>3 DEF ClaimQuote, CreateInvoice, ApplyReading, CommitReconcile, CAS, Unsent, Polled,
                Forwarded, AfterReading, AfterUnpaid, AfterCheck, Candidates
  <2>3. \A i \in Payments : status[i] \in Unsent => receipts[i] = 0
    BY DEF ReceiptInv, Unreceipted
  <2>. QED
    BY <1>0, <2>1, <2>2, <2>3, ReceiptKept
<1>4. CASE ClaimDelivery(w)
  <2>. PICK i \in Payments :
         /\ status[i] = "SETTLED" /\ status' = [status EXCEPT ![i] = "DELIVERING"]
         /\ UNCHANGED <<legacyError, sent, receipts, outcome>>
         /\ Take(w, i, "deliver", "delivering")
    BY <1>4 DEF ClaimDelivery, Candidates, CAS
  <2>1. outcome[w] = "none"
    BY DEF OutcomeInv, Take, At
  <2>2. receipts[i] = 0
    BY DEF ReceiptInv, Unreceipted, Unsent
  <2>3. \A v \in Workers : \/ v = w /\ stage'[v] = "delivering"
                           \/ stage'[v] = stage[v] /\ job'[v] = job[v]
    BY DEF Take, At
  <2>. QED
    BY <1>0, <2>1, <2>2, <2>3, ReceiptKept DEF Forwarded
<1>5. CASE ClaimReceipt(w)
  <2>. PICK i \in Payments :
         /\ status[i] = "RECEIPT_PENDING" /\ status' = [status EXCEPT ![i] = "RECEIPT_PUBLISHING"]
         /\ UNCHANGED <<legacyError, sent, receipts, outcome>>
         /\ Take(w, i, "receipt", "publishing")
    BY <1>5 DEF ClaimReceipt, Candidates, CAS
  <2>1. receipts[i] = 0 /\ sent[i] = 1
    BY DEF ReceiptInv, Unreceipted, Forwarded
  <2>2. \A v \in Workers : \/ v = w /\ stage'[v] = "publishing" /\ job'[v] = i
                           \/ stage'[v] = stage[v] /\ job'[v] = job[v]
    BY DEF Take, At
  <2>. QED
    BY <1>0, <2>1, <2>2 DEF ReceiptInv, Forwarded, Unreceipted, Unsent, Polled
<1>6. CASE SendEcash(w)
  <2>. DEFINE i == job[w]
  <2>1. /\ UNCHANGED <<status, receipts, legacyError, stage, job>> /\ i \in Payments
        /\ stage[w] = "delivering" /\ outcome[w] = "none"
        /\ \A v \in Workers \ {w} : outcome'[v] = outcome[v]
    BY <1>6 DEF SendEcash, Return, RowsInHand
  <2>2. sent[i] = 0 /\ \A v \in Workers \ {w} : stage[v] = "down"
    BY <2>1, OthersAreDown DEF TransferInv
  <2>3. /\ \A j \in Payments : j # i => sent'[j] = sent[j]
        /\ sent'[i] = 1 \/ (sent'[i] = 0 /\ outcome'[w] # "sent")
    BY <1>6, <2>1, <2>2 DEF SendEcash, Return
  <2>4. status[i] = "DELIVERING"
    BY <2>1 DEF OwnerInv
  <2>. QED
    BY <1>0, <2>1, <2>2, <2>3, <2>4 DEF ReceiptInv, Forwarded, Unreceipted
<1>7. CASE PublishReceipt(w)
  <2>. DEFINE i == job[w]
  <2>1. /\ UNCHANGED <<status, sent, legacyError, stage, job>> /\ i \in Payments
        /\ stage[w] = "publishing" /\ outcome[w] = "none" /\ outcome'[w] # "none"
        /\ \A v \in Workers \ {w} : outcome'[v] = outcome[v]
    BY <1>7 DEF PublishReceipt, Return, RowsInHand
  <2>2. receipts[i] = 0 /\ status[i] = "RECEIPT_PUBLISHING"
    BY <2>1 DEF ReceiptInv, OwnerInv
  <2>3. /\ \A j \in Payments : j # i => receipts'[j] = receipts[j]
        /\ receipts'[i] \in {0, 1} /\ \A v \in Workers \ {w} : stage[v] = "down"
    BY <1>7, <2>1, <2>2, OthersAreDown DEF PublishReceipt
  <2>4. sent[i] = 1 /\ zapEvent[i] # NoEvent /\ ~legacyError[i]
    BY <2>1, <2>2 DEF ReceiptInv, Forwarded, TransferInv
  <2>. QED
    BY <1>0, <2>1, <2>2, <2>3, <2>4 DEF ReceiptInv, Unreceipted, Unsent, Polled
<1>8. CASE CommitDelivery(w) \/ RecordDeliveryRaises(w)
  <2>. DEFINE i == job[w]
  <2>1. /\ UNCHANGED <<sent, receipts, legacyError>> /\ i \in Payments /\ status[i] = "DELIVERING"
        /\ stage'[w] = "receipt"
        /\ \A v \in Workers \ {w} : stage'[v] = stage[v] /\ job'[v] = job[v] /\ outcome'[v] = outcome[v]
    BY <1>8 DEF CommitDelivery, RecordDeliveryRaises, Finish, At, OwnerInv, RowsInHand
  <2>2. outcome[w] = "sent" => sent[i] = 1
    BY <1>8, <2>1 DEF ReceiptInv, CommitDelivery, RecordDeliveryRaises, Finish, At
  <2>3. \A j \in Payments : j # i => status'[j] = status[j]
    BY <1>8 DEF CommitDelivery, RecordDeliveryRaises, CAS
  <2>4. \/ status'[i] \in {"SETTLED", "DELIVERY_FAILED"}
        \/ outcome[w] = "sent" /\ zapEvent[i] # NoEvent /\ status'[i] = "RECEIPT_PENDING"
        \/ outcome[w] = "sent" /\ status'[i] = "DELIVERED"
    BY <1>8, <2>1 DEF CommitDelivery, RecordDeliveryRaises, CAS, AfterDelivery
  <2>5. receipts[i] = 0
    BY <2>1 DEF ReceiptInv, Unreceipted
  <2>6. \A v \in Workers : stage'[v] \in {"delivering", "publishing"} =>
          stage'[v] = stage[v] /\ job'[v] = job[v] /\ outcome'[v] = outcome[v]
    BY <2>1
  <2>7. \A j \in Payments :
          \/ status'[j] = status[j]
          \/ status'[j] \notin Forwarded /\ receipts[j] = 0
          \/ /\ sent[j] = 1 /\ receipts[j] = 0
             /\ status'[j] = "DELIVERED" \/ (status'[j] = "RECEIPT_PENDING" /\ zapEvent[j] # NoEvent)
    BY <2>1, <2>2, <2>3, <2>4, <2>5 DEF Forwarded
  <2>. QED
    BY <1>0, <2>1, <2>6, <2>7 DEF ReceiptInv, Forwarded, Unreceipted, Unsent, Polled
<1>9. CASE CommitReceipt(w)
  <2>. DEFINE i == job[w]
  <2>1. /\ UNCHANGED <<sent, receipts, legacyError>> /\ i \in Payments
        /\ status[i] = "RECEIPT_PUBLISHING" /\ stage'[w] = "idle"
        /\ \A v \in Workers \ {w} : stage'[v] = stage[v] /\ job'[v] = job[v] /\ outcome'[v] = outcome[v]
    BY <1>9 DEF CommitReceipt, Finish, At, OwnerInv, RowsInHand
  <2>2. \A j \in Payments : \/ status'[j] = status[j]
                            \/ j = i /\ status'[j] \in {"DELIVERED", "RECEIPT_FAILED"}
    BY <1>9 DEF CommitReceipt, CAS
  <2>. QED
    BY <1>0, <2>1, <2>2 DEF ReceiptInv, Forwarded, Unreceipted, Unsent, Polled
<1>. QED
  BY <1>1, <1>2, <1>3, <1>4, <1>5, <1>6, <1>7, <1>8, <1>9 DEF Cycle, Fault

LEMMA ReceiptInductive ==
  /\ Init => ReceiptInv
  /\ TypeOK /\ OwnerInv /\ OutcomeInv /\ TransferInv /\ ReceiptInv /\ [Next]_vars => ReceiptInv'
<1>1. ASSUME Init PROVE ReceiptInv
  <2>1. \A i \in Payments : receipts[i] = 0 /\ status[i] \in {"FAILED", "ABSENT"}
    BY <1>1 DEF Init
  <2>2. \A w \in Workers : stage[w] = "down"
    BY <1>1 DEF Init
  <2>. QED
    BY <2>1, <2>2 DEF ReceiptInv, Forwarded
<1>2. ASSUME TypeOK, OwnerInv, OutcomeInv, TransferInv, ReceiptInv, [Next]_vars PROVE ReceiptInv'
  <2>1. CASE \E r \in Requests : Web(r)
    <3>. PICK r \in Requests : Web(r)
      BY <2>1
    <3>1. UNCHANGED <<sent, receipts, legacyError, stage, job, outcome>>
      BY WebRows, <1>2 DEF Web, Callback, LookupZap, InsertZap, InsertZapConflict, CreateZapInvoice,
                  WaitForInvoice, WebCrash, Insert, workerVars, worldVars
    <3>2. \A i \in Payments : zapEvent'[i] = zapEvent[i] \/ status[i] = "ABSENT"
      BY <1>2 DEF Web, Callback, LookupZap, InsertZap, InsertZapConflict, CreateZapInvoice,
             WaitForInvoice, WebCrash, Insert, rowVars, TypeOK, Types, RowTypes
    <3>3. \A i \in Payments : status[i] \in {"ABSENT", "QUOTE_CREATING"} => receipts[i] = 0
      BY <1>2 DEF ReceiptInv, Unreceipted, Unsent
    <3>4. \A i \in Payments : status'[i] = status[i] \/
            (status[i] \in {"ABSENT", "QUOTE_CREATING"} /\ status'[i] \notin Forwarded)
      BY <1>2, WebRows DEF Forwarded
    <3>. QED
      BY <1>2, <3>1, <3>2, <3>3, <3>4, ReceiptKept DEF Forwarded
  <2>2. CASE \E w \in Workers : Start(w) \/ Cycle(w) \/ Fault(w) \/ Stop(w) \/ CooldownOver(w)
    BY <1>2, <2>2, WorkerReceipts
  <2>3. CASE \E i \in Payments : ClosePayment(i) \/ Pay(i) \/ MintDrops(i) \/ DeadlinePasses(i)
    <3>1. UNCHANGED <<sent, receipts, legacyError, zapEvent, stage, job, outcome>>
      BY <2>3 DEF ClosePayment, Pay, MintDrops, DeadlinePasses, rowVars, worldVars, workerVars
    <3>2. \A i \in Payments : status'[i] = status[i] \/ status'[i] = "FAILED"
      BY <1>2, <2>3, EnvironmentRows
    <3>. QED
      BY <1>2, <3>1, <3>2, ReceiptKept DEF Forwarded, Unreceipted, Unsent, Polled
  <2>4. CASE UNCHANGED vars
    BY <1>2, <2>4, ReceiptKept DEF vars, rowVars, worldVars, workerVars
  <2>. QED
    BY <1>2, <2>1, <2>2, <2>3, <2>4 DEF Next
<1>. QED
  BY <1>1, <1>2

\* No row is behind its delivery, and no zap receipt goes out, unless the ecash went
\* out before; and no receipt goes out twice.
THEOREM ReceiptsAreEarned == Spec => []ReceiptFollowsDelivery
<1>1. ReceiptInv => ReceiptFollowsDelivery
  BY DEF ReceiptInv, ReceiptFollowsDelivery
<1>. QED
  BY <1>1, InitTypes, TypesStep, OwnerInductive, TransferInductive, OutcomeStep, QuoteInductive,
     ReceiptInductive, PTL DEF Spec

-----------------------------------------------------------------------------
(* Zaps.                                                                   *)

\* A signed event has one row, and a callback that works for an event works on it.
ZapInv ==
  /\ \A i, j \in Payments : zapEvent[i] = zapEvent[j] /\ zapEvent[i] # NoEvent => i = j
  /\ \A i \in Payments : status[i] = "ABSENT" => zapEvent[i] = NoEvent
  /\ \A r \in Requests :
       /\ reqPc[r] = "idle" => reqEvent[r] = NoEvent
       /\ reqPc[r] \in {"creating", "waiting", "invoice"} /\ reqEvent[r] # NoEvent =>
            reqPay[r] \in Payments /\ zapEvent[reqPay[r]] = reqEvent[r]

\* The uniqueness constraint is what keeps two callbacks of one event together.
LEMMA WebZaps ==
  ASSUME TypeOK, ZapInv, NEW r \in Requests, Web(r)
  PROVE  ZapInv'
<1>. USE DEF TypeOK, Types, RowTypes, WebTypes, rowVars
<1>1. CASE Callback(r) \/ InsertZap(r)
  <2>. DEFINE e == IF reqPc[r] = "idle" THEN NoEvent ELSE reqEvent[r]
  <2>1. /\ e = reqEvent[r] /\ e \in Events \cup {NoEvent}
        /\ \A i \in Payments : e # NoEvent => zapEvent[i] # e
    BY <1>1 DEF Callback, InsertZap, WebStep, EventIsFree, ZapRows, ZapInv
  <2>2. PICK i \in Payments : \E initial \in {"QUOTE_PENDING", "QUOTE_CREATING"} : Insert(i, r, e, initial)
    BY <1>1, <2>1 DEF Callback, InsertZap, WebStep
  <2>3. /\ status[i] = "ABSENT" /\ status'[i] # "ABSENT" /\ zapEvent'[i] = e /\ zapEvent[i] = NoEvent
        /\ reqPay'[r] = i /\ UNCHANGED reqEvent
        /\ \A j \in Payments : j # i => status'[j] = status[j] /\ zapEvent'[j] = zapEvent[j]
        /\ \A q \in Requests : q # r => reqPay'[q] = reqPay[q]
    BY <2>2 DEF Insert, ZapInv
  <2>4. /\ reqPc'[r] \in {"waiting", "creating"}
        /\ \A q \in Requests : q # r => reqPc'[q] = reqPc[q]
    BY <1>1 DEF Callback, InsertZap, WebStep
  <2>5. \A q \in Requests : q # r /\ reqPc[q] \in {"creating", "waiting", "invoice"} /\ reqEvent[q] # NoEvent
          => reqPay[q] \in Payments /\ zapEvent[reqPay[q]] = reqEvent[q] /\ reqPay[q] # i
    BY <2>3 DEF ZapInv
  <2>. HIDE DEF e
  <2>. QED
    BY <2>1, <2>3, <2>4, <2>5 DEF ZapInv
<1>2. CASE LookupZap(r)
  <2>1. /\ UNCHANGED <<status, zapEvent>>
        /\ \A q \in Requests : q # r => reqPay'[q] = reqPay[q] /\ reqPc'[q] = reqPc[q] /\ reqEvent'[q] = reqEvent[q]
    BY <1>2 DEF LookupZap, WebStep, Answer
  <2>2. \/ reqPc'[r] = "absent"
        \/ reqPc'[r] \in {"waiting", "invoice"} /\ reqPay'[r] \in Payments /\ zapEvent[reqPay'[r]] = reqEvent'[r]
    BY <1>2 DEF LookupZap, WebStep, Answer, ZapRows
  <2>. QED
    BY <2>1, <2>2 DEF ZapInv
<1>3. CASE InsertZapConflict(r) \/ CreateZapInvoice(r) \/ WaitForInvoice(r) \/ WebCrash(r)
  <2>1. /\ UNCHANGED <<zapEvent, reqEvent>>
        /\ \A q \in Requests : reqPay'[q] = reqPay[q]
        /\ \A q \in Requests : q # r => reqPc'[q] = reqPc[q]
        /\ reqPc'[r] \notin {"idle", "creating", "waiting"}
        /\ reqPc'[r] = "invoice" => reqPc[r] \in {"creating", "waiting"}
    BY <1>3 DEF InsertZapConflict, CreateZapInvoice, WaitForInvoice, WebCrash, WebStep, Answer
  <2>2. \A i \in Payments : status'[i] = "ABSENT" => status[i] = "ABSENT"
    BY WebRows
  <2>. QED
    BY <2>1, <2>2 DEF ZapInv
<1>. QED
  BY <1>1, <1>2, <1>3 DEF Web

LEMMA ZapInductive ==
  /\ Init => ZapInv
  /\ TypeOK /\ OwnerInv /\ ZapInv /\ [Next]_vars => ZapInv'
<1>1. Init => ZapInv
  BY DEF Init, ZapInv
<1>2. ASSUME TypeOK, OwnerInv, ZapInv, [Next]_vars PROVE ZapInv'
  <2>1. ASSUME UNCHANGED <<zapEvent, webVars>>,
               \A i \in Payments : status'[i] = "ABSENT" => status[i] = "ABSENT"
        PROVE  ZapInv'
    BY <1>2, <2>1 DEF ZapInv, webVars
  <2>2. CASE \E r \in Requests : Web(r)
    BY <1>2, <2>2, WebZaps
  <2>3. CASE \E w \in Workers : Start(w) \/ Cycle(w) \/ Fault(w) \/ Stop(w) \/ CooldownOver(w)
    BY <1>2, <2>1, <2>3, WorkerEdges
  <2>4. CASE \E i \in Payments : ClosePayment(i) \/ Pay(i) \/ MintDrops(i) \/ DeadlinePasses(i)
    <3>1. UNCHANGED <<zapEvent, webVars>>
      BY <2>4 DEF ClosePayment, Pay, MintDrops, DeadlinePasses, rowVars
    <3>. QED
      BY <1>2, <2>1, <2>4, <3>1, EnvironmentRows
  <2>5. CASE UNCHANGED vars
    BY <2>1, <2>5 DEF vars, rowVars
  <2>. QED
    BY <1>2, <2>2, <2>3, <2>4, <2>5 DEF Next
<1>. QED
  BY <1>1, <1>2

\* All callbacks that answer one signed zap answer with one payment, in whatever
\* web processes they run and however they race.
THEOREM ZapHasOneInvoice == Spec => []OneInvoicePerZap
<1>1. TypeOK /\ ZapInv => OneInvoicePerZap
  BY DEF ZapInv, OneInvoicePerZap
<1>. QED
  BY <1>1, InitTypes, TypesStep, OwnerInductive, ZapInductive, PTL DEF Spec

-----------------------------------------------------------------------------
(* The queue implements PaymentPromise.                                    *)

\* The invoice of a row failed by the former timeout was handed out.
ShownInv == \A i \in Payments : legacyError[i] => i \in shown

FlowInv ==
  /\ TypeOK /\ OwnerInv /\ OutcomeInv /\ TransferInv
  /\ QuoteInv /\ ToldInv /\ ReceiptInv /\ ShownInv

LEMMA ShownInductive ==
  /\ Init => ShownInv
  /\ TypeOK /\ OwnerInv /\ TransferInv /\ ShownInv /\ [Next]_vars => ShownInv'
<1>1. ASSUME Init PROVE ShownInv
  <2>1. \A i \in Payments : legacyError[i] => i <= LegacyRows
    BY <1>1, Zenon DEF Init
  <2>2. \A i \in Payments : i <= LegacyRows => i \in 1..LegacyRows
    BY ConstantsAssumption DEF Payments
  <2>. QED
    BY <1>1, <2>1, <2>2 DEF Init, ShownInv
<1>2. ASSUME TypeOK, OwnerInv, TransferInv, ShownInv, [Next]_vars PROVE ShownInv'
  <2>1. CASE \E r \in Requests : Web(r)
    <3>1. \A i \in Payments : i \in shown => i \in shown'
      BY <2>1 DEF Web, Callback, LookupZap, InsertZap, InsertZapConflict, CreateZapInvoice,
                  WaitForInvoice, WebCrash, Insert, Answer
    <3>. QED
      BY <1>2, <2>1, <3>1, WebRows DEF ShownInv
  <2>2. CASE \E w \in Workers : Start(w) \/ Cycle(w) \/ Fault(w) \/ Stop(w) \/ CooldownOver(w)
    <3>. PICK w \in Workers : Start(w) \/ Cycle(w) \/ Fault(w) \/ Stop(w) \/ CooldownOver(w)
      BY <2>2
    <3>1. UNCHANGED shown
      BY <1>2, WorkerEdges DEF webVars
    <3>2. \A i \in Payments : legacyError'[i] => legacyError[i]
      BY <1>2 DEF Start, Cycle, Fault, Acquire, ReconcileLegacy, Quarantine, SkipStage, ClaimQuote,
                  CreateInvoice, StartDiscovery, ReadQuoteState, ApplyReading, PersistCooldown,
                  SelectPaid, CheckQuote, CommitReconcile, ClaimDelivery, SendEcash, CommitDelivery,
                  ClaimReceipt, PublishReceipt, CommitReceipt, NextCycle, RecordDeliveryRaises,
                  CycleFails, Crash, Stop, Leave, Forget, CooldownOver, Return, rowVars
    <3>. QED
      BY <1>2, <3>1, <3>2 DEF ShownInv
  <2>3. CASE \E i \in Payments : ClosePayment(i) \/ Pay(i) \/ MintDrops(i) \/ DeadlinePasses(i)
    <3>1. UNCHANGED shown
      BY <2>3 DEF ClosePayment, Pay, MintDrops, DeadlinePasses, webVars
    <3>. QED
      BY <1>2, <2>3, <3>1, EnvironmentRows DEF ShownInv
  <2>4. CASE UNCHANGED vars
    BY <1>2, <2>4 DEF vars, rowVars, webVars, ShownInv
  <2>. QED
    BY <1>2, <2>1, <2>2, <2>3, <2>4 DEF Next
<1>. QED
  BY <1>1, <1>2

LEMMA FlowInductive ==
  /\ Init => FlowInv
  /\ FlowInv /\ [Next]_vars => FlowInv'
BY InitTypes, TypesStep, OwnerInductive, OutcomeStep, TransferInductive, QuoteInductive,
   ReceiptInductive, ShownInductive DEF FlowInv

\* A row keeps its verdict while it keeps its status and stays closed or not.
LEMMA VerdictKept ==
  ASSUME NEW i \in Payments, status'[i] = status[i], i \in closed' <=> i \in closed
  PROVE  Verdict(i)' = Verdict(i)
BY DEF Verdict

\* Nothing a reader of the promise sees changes.
LEMMA Unseen ==
  ASSUME UNCHANGED <<shown, paid>>,
         \A i \in Payments : /\ Verdict(i)' = Verdict(i)
                             /\ quote'[i] \in {"gone", "pruned"} <=> quote[i] \in {"gone", "pruned"}
                             /\ sent'[i] > 0 <=> sent[i] > 0
  PROVE  UNCHANGED Promise!vars
BY DEF Promise!vars

\* One row gets another verdict, and nothing else a reader sees changes.
LEMMA OneVerdict ==
  ASSUME UNCHANGED <<shown, paid, quote, sent>>, NEW i \in Payments,
         \A j \in Payments \ {i} : Verdict(j)' = Verdict(j),
         \/ Verdict(i)' = Verdict(i)
         \/ Verdict(i) = "void" /\ Verdict(i)' = "open"
         \/ /\ Verdict(i) = "open" /\ Verdict(i)' = "void" /\ sent[i] = 0
            /\ i \in paid => quote[i] \in {"gone", "pruned"}
         \/ Verdict(i) = "open" /\ Verdict(i)' = "delivered" /\ sent[i] > 0
         \/ Verdict(i) = "open" /\ Verdict(i)' = "review" /\ i \in paid
         \/ Verdict(i) = "review" /\ Verdict(i)' = "closed"
  PROVE  [Promise!Next]_(Promise!vars)
<1>a. [j \in Payments |-> Verdict(j)]' =
        [[j \in Payments |-> Verdict(j)] EXCEPT ![i] = Verdict(i)']
  OBVIOUS
<1>b. UNCHANGED <<shown, paid, {j \in Payments : quote[j] \in {"gone", "pruned"}},
                  {j \in Payments : sent[j] > 0}>>
  OBVIOUS
<1>1. CASE Verdict(i)' = Verdict(i)
  BY <1>1, Unseen
<1>2. CASE Verdict(i) = "void" /\ Verdict(i)' = "open"
  <2>1. Promise!Open(i)
    BY <1>2, <1>a, <1>b DEF Promise!Open, Promise!Become
  <2>. QED
    BY <2>1 DEF Promise!Next
<1>3. CASE /\ Verdict(i) = "open" /\ Verdict(i)' = "void" /\ sent[i] = 0
           /\ i \in paid => quote[i] \in {"gone", "pruned"}
  <2>1. Promise!Void(i)
    BY <1>3, <1>a, <1>b DEF Promise!Void, Promise!Become
  <2>. QED
    BY <2>1 DEF Promise!Next
<1>4. CASE Verdict(i) = "open" /\ Verdict(i)' = "delivered" /\ sent[i] > 0
  <2>1. Promise!Deliver(i)
    BY <1>4, <1>a, <1>b DEF Promise!Deliver, Promise!Become
  <2>. QED
    BY <2>1 DEF Promise!Next
<1>5. CASE Verdict(i) = "open" /\ Verdict(i)' = "review" /\ i \in paid
  <2>1. [j \in Payments |-> Verdict(j)]' =
          [j \in Payments |-> IF j \in {i} THEN "review" ELSE IF j \in {} THEN "void"
                             ELSE [k \in Payments |-> Verdict(k)][j]]
    BY <1>5
  <2>2. Promise!Review
    <3>1. /\ {i} \in SUBSET paid /\ {} \in SUBSET (Payments \ paid)
          /\ \A j \in {i} \cup {} : [k \in Payments |-> Verdict(k)][j] = "open"
      BY <1>5
    <3>. QED
      BY <1>b, <2>1, <3>1 DEF Promise!Review
  <2>. QED
    BY <2>2 DEF Promise!Next
<1>6. CASE Verdict(i) = "review" /\ Verdict(i)' = "closed"
  <2>1. Promise!Close(i)
    BY <1>6, <1>a, <1>b DEF Promise!Close, Promise!Become
  <2>. QED
    BY <2>1 DEF Promise!Next
<1>. QED
  BY <1>1, <1>2, <1>3, <1>4, <1>5, <1>6

\* A callback opens a payment, hands its invoice out or gives it up.
LEMMA WebPromise ==
  ASSUME FlowInv, NEW r \in Requests, Web(r)
  PROVE  [Promise!Next]_(Promise!vars)
<1>. USE DEF FlowInv, TypeOK, Types, RowTypes, WorldTypes, WebTypes, rowVars, worldVars
<1>1. CASE Callback(r) \/ InsertZap(r)
  <2>. PICK i \in Payments : /\ UNCHANGED <<shown, paid, quote, sent, closed>> /\ status[i] = "ABSENT"
                            /\ \/ status' = [status EXCEPT ![i] = "QUOTE_PENDING"]
                               \/ status' = [status EXCEPT ![i] = "QUOTE_CREATING"]
    BY <1>1 DEF Callback, InsertZap, Insert
  <2>1. /\ status'[i] \in {"QUOTE_PENDING", "QUOTE_CREATING"}
        /\ \A j \in Payments \ {i} : status'[j] = status[j]
    OBVIOUS
  <2>2. Verdict(i) = "void" /\ Verdict(i)' = "open"
    BY <2>1 DEF Verdict, Forwarded
  <2>. QED
    BY <2>1, <2>2, VerdictKept, OneVerdict
<1>2. CASE LookupZap(r) \/ WaitForInvoice(r) \/ InsertZapConflict(r) \/ WebCrash(r)
  <2>1. UNCHANGED <<status, closed, paid, quote, sent>>
    BY <1>2 DEF LookupZap, WaitForInvoice, InsertZapConflict, WebCrash
  <2>2. shown' = shown \/ \E i \in Payments : shown' = shown \cup {i}
    BY <1>2 DEF LookupZap, WaitForInvoice, InsertZapConflict, WebCrash, Answer, ZapRows, RowsInHand
  <2>3. CASE shown' = shown
    BY <2>1, <2>3, VerdictKept, Unseen
  <2>4. ASSUME NEW i \in Payments, shown' = shown \cup {i} PROVE Promise!HandOut(i)
    BY <2>1, <2>4, VerdictKept DEF Promise!HandOut
  <2>. QED
    BY <2>2, <2>3, <2>4 DEF Promise!Next
<1>3. CASE CreateZapInvoice(r)
  <2>. PICK i : i = reqPay[r]
    OBVIOUS
  <2>1. UNCHANGED <<closed, paid, sent>>
    BY <1>3 DEF CreateZapInvoice
  <2>2. CASE /\ status[i] = "QUOTE_CREATING" /\ status' = [status EXCEPT ![i] = "INVOICE_PENDING"]
             /\ quote' = [quote EXCEPT ![i] = "open"] /\ shown' = shown \cup {i}
    <3>1. CASE i \in Payments
      <4>1. quote[i] = "none"
        BY <2>2, <3>1 DEF QuoteInv, Fits, Virgin
      <4>2. \A j \in Payments : Verdict(j)' = Verdict(j)
        BY <2>1, <2>2, <3>1 DEF Verdict, Forwarded
      <4>3. \A j \in Payments : quote'[j] \in {"gone", "pruned"} <=> quote[j] \in {"gone", "pruned"}
        BY <2>2, <3>1, <4>1
      <4>4. UNCHANGED <<[j \in Payments |-> Verdict(j)], {j \in Payments : sent[j] > 0},
                        {j \in Payments : quote[j] \in {"gone", "pruned"}}>>
        BY <2>1, <4>2, <4>3
      <4>5. Promise!HandOut(i)
        BY <2>1, <2>2, <4>4 DEF Promise!HandOut
      <4>. QED
        BY <3>1, <4>5 DEF Promise!Next
    <3>2. CASE i \notin Payments
      BY <1>3, <3>2 DEF CreateZapInvoice, RowsInHand
    <3>. QED
      BY <3>1, <3>2
  <2>3. CASE CAS(i, {"QUOTE_CREATING"}, "FAILED") /\ UNCHANGED <<quote, shown>>
    <3>1. CASE i \in Payments /\ status[i] = "QUOTE_CREATING"
      <4>1. status'[i] = "FAILED" /\ \A j \in Payments \ {i} : status'[j] = status[j]
        BY <2>3, <3>1 DEF CAS
      <4>2. i \notin closed /\ i \notin paid /\ sent[i] = 0
        BY <3>1 DEF QuoteInv, Fits, Virgin, TransferInv, Unsent
      <4>3. Verdict(i) = "open" /\ Verdict(i)' = "void"
        BY <2>1, <3>1, <4>1, <4>2 DEF Verdict, Forwarded
      <4>. QED
        BY <2>1, <2>3, <3>1, <4>1, <4>2, <4>3, VerdictKept, OneVerdict
    <3>2. CASE i \notin Payments \/ status[i] # "QUOTE_CREATING"
      <4>1. \A j \in Payments : status'[j] = status[j]
        BY <2>3, <3>2 DEF CAS
      <4>. QED
        BY <2>1, <2>3, <4>1, VerdictKept, Unseen
    <3>. QED
      BY <3>1, <3>2
  <2>. QED
    BY <1>3, <2>2, <2>3 DEF CreateZapInvoice, Answer
<1>. QED
  BY <1>1, <1>2, <1>3 DEF Web

\* The operator closes a payment under review; a payer pays; the mint drops a quote.
LEMMA EnvironmentPromise ==
  ASSUME FlowInv, NEW i \in Payments,
         ClosePayment(i) \/ Pay(i) \/ MintDrops(i) \/ DeadlinePasses(i)
  PROVE  [Promise!Next]_(Promise!vars)
<1>. USE DEF FlowInv, TypeOK, Types, RowTypes, WorldTypes, rowVars, worldVars, webVars
<1>1. CASE ClosePayment(i)
  <2>1. /\ UNCHANGED <<shown, paid, quote, sent>> /\ closed' = closed \cup {i}
        /\ status[i] = "DELIVERY_FAILED" /\ status'[i] = "FAILED"
        /\ \A j \in Payments \ {i} : status'[j] = status[j]
    BY <1>1 DEF ClosePayment, Closable
  <2>2. Verdict(i) = "review" /\ Verdict(i)' = "closed"
    BY <2>1 DEF Verdict, Forwarded
  <2>. QED
    BY <2>1, <2>2, VerdictKept, OneVerdict
<1>2. CASE Pay(i)
  <2>1. /\ UNCHANGED <<status, closed, shown, quote, sent>> /\ paid' = paid \cup {i}
        /\ i \in shown \ paid /\ quote[i] = "open"
    BY <1>2 DEF Pay
  <2>2. [j \in Payments |-> Verdict(j)]' = [j \in Payments |-> Verdict(j)]
    BY <2>1, VerdictKept
  <2>3. Promise!Pay(i)
    BY <2>1, <2>2 DEF Promise!Pay
  <2>. QED
    BY <2>3 DEF Promise!Next
<1>3. CASE MintDrops(i)
  <2>1. /\ UNCHANGED <<status, closed, shown, paid, sent>>
        /\ quote'[i] \in {"gone", "pruned"} /\ \A j \in Payments \ {i} : quote'[j] = quote[j]
    BY <1>3 DEF MintDrops
  <2>2. [j \in Payments |-> Verdict(j)]' = [j \in Payments |-> Verdict(j)]
    BY <2>1, VerdictKept
  <2>3. {j \in Payments : quote[j] \in {"gone", "pruned"}}' =
          {j \in Payments : quote[j] \in {"gone", "pruned"}} \cup {i}
    BY <2>1
  <2>4. Promise!Drop(i)
    BY <2>1, <2>2, <2>3 DEF Promise!Drop
  <2>. QED
    BY <2>4 DEF Promise!Next
<1>4. CASE DeadlinePasses(i)
  <2>1. UNCHANGED <<status, closed, shown, paid, quote, sent>>
    BY <1>4 DEF DeadlinePasses
  <2>. QED
    BY <2>1, VerdictKept, Unseen
<1>. QED
  BY <1>1, <1>2, <1>3, <1>4

\* What a worker does with a row is what the promise says of it.
LEMMA WorkerPromise ==
  ASSUME FlowInv, NEW w \in Workers,
         Start(w) \/ Cycle(w) \/ Fault(w) \/ Stop(w) \/ CooldownOver(w)
  PROVE  [Promise!Next]_(Promise!vars)
<1>. USE DEF FlowInv, TypeOK, Types, RowTypes, WorldTypes, WorkerTypes, rowVars, worldVars
<1>0. UNCHANGED <<closed, shown>>
  BY WorkerEdges DEF webVars
<1>1. CASE \/ Acquire(w) \/ SkipStage(w) \/ StartDiscovery(w) \/ ReadQuoteState(w) \/ PersistCooldown(w)
           \/ SelectPaid(w) \/ NextCycle(w) \/ CooldownOver(w) \/ CycleFails(w) \/ Stop(w)
           \/ Crash(w) \/ PublishReceipt(w)
  <2>1. UNCHANGED <<status, paid, quote, sent>>
    BY <1>1 DEF Acquire, SkipStage, StartDiscovery, ReadQuoteState, PersistCooldown, SelectPaid,
                NextCycle, CooldownOver, CycleFails, Stop, Crash, Leave, Forget, PublishReceipt, Return
  <2>. QED
    BY <1>0, <2>1, VerdictKept, Unseen
<1>2. CASE ReconcileLegacy(w)
  <2>. DEFINE S == {i \in Payments : IsLegacyTimeout(i)}
  <2>1. /\ UNCHANGED <<paid, quote, sent>>
        /\ \A i \in Payments : status'[i] = IF i \in S THEN "SETTLEMENT_UNCONFIRMED" ELSE status[i]
    BY <1>2 DEF ReconcileLegacy
  <2>2. \A i \in S : i \in shown /\ status[i] = "FAILED" /\ i \notin closed
    BY DEF ShownInv, IsLegacyTimeout, QuoteInv
  <2>. HIDE DEF S
  <2>3. \A i \in S : i \in Payments /\ Verdict(i) = "void"
    BY <2>2 DEF Verdict, Forwarded, S
  <2>4. \A i \in Payments : Verdict(i)' = IF i \in S THEN "open" ELSE Verdict(i)
    BY <1>0, <2>1, <2>2 DEF Verdict, Forwarded
  <2>5. /\ S \in SUBSET shown
        /\ [i \in Payments |-> Verdict(i)]' =
             [i \in Payments |-> IF i \in S THEN "open" ELSE [j \in Payments |-> Verdict(j)][i]]
        /\ UNCHANGED <<{i \in Payments : quote[i] \in {"gone", "pruned"}}, {i \in Payments : sent[i] > 0}>>
    BY <2>1, <2>2, <2>4
  <2>6. Promise!Reopen
    BY <1>0, <2>1, <2>3, <2>5 DEF Promise!Reopen
  <2>. QED
    BY <2>6 DEF Promise!Next
<1>3. CASE Quarantine(w)
  <2>. DEFINE S == {i \in Payments : status[i] = "DELIVERING"}
              V == {i \in Payments : status[i] = "WORKER_QUOTE_CREATING"}
  <2>1. UNCHANGED <<paid, quote, sent>> /\ \A i \in Payments : status'[i] = Quarantined(status[i])
    BY <1>3 DEF Quarantine
  <2>2. (\A i \in S : i \in paid) /\ (\A i \in V : i \notin paid /\ i \notin closed)
    BY DEF QuoteInv, Fits, Virgin, Funded, Issued
  <2>3. \A i \in S \cup V : Verdict(i) = "open"
    BY DEF Verdict, Forwarded
  <2>4. \A i \in Payments : Verdict(i)' = IF i \in S THEN "review" ELSE IF i \in V THEN "void" ELSE Verdict(i)
    BY <1>0, <2>1, <2>2 DEF Verdict, Forwarded, Quarantined
  <2>5. \A i \in S \cup V : i \in Payments
    OBVIOUS
  <2>. HIDE DEF S, V
  <2>6. /\ S \in SUBSET paid /\ V \in SUBSET (Payments \ paid)
        /\ [i \in Payments |-> Verdict(i)]' =
             [i \in Payments |-> IF i \in S THEN "review" ELSE IF i \in V THEN "void"
                                ELSE [j \in Payments |-> Verdict(j)][i]]
        /\ UNCHANGED <<{i \in Payments : quote[i] \in {"gone", "pruned"}}, {i \in Payments : sent[i] > 0}>>
    BY <2>1, <2>2, <2>4, <2>5
  <2>7. \A i \in S \cup V : [j \in Payments |-> Verdict(j)][i] = "open"
    BY <2>3, <2>5
  <2>8. Promise!Review
    BY <1>0, <2>1, <2>6, <2>7 DEF Promise!Review
  <2>. QED
    BY <2>8 DEF Promise!Next
<1>4. CASE ClaimQuote(w) \/ ClaimDelivery(w) \/ ClaimReceipt(w)
  <2>1. UNCHANGED <<paid, quote, sent>>
    BY <1>4 DEF ClaimQuote, ClaimDelivery, ClaimReceipt
  <2>2. \A i \in Payments : \/ status'[i] = status[i]
                            \/ status[i] = "QUOTE_PENDING" /\ status'[i] = "WORKER_QUOTE_CREATING"
                            \/ status[i] = "SETTLED" /\ status'[i] = "DELIVERING"
                            \/ status[i] = "RECEIPT_PENDING" /\ status'[i] = "RECEIPT_PUBLISHING"
    BY <1>4 DEF ClaimQuote, ClaimDelivery, ClaimReceipt, CAS
  <2>3. \A i \in Payments : Verdict(i)' = Verdict(i)
    BY <1>0, <2>2 DEF Verdict, Forwarded
  <2>. QED
    BY <1>0, <2>1, <2>3, Unseen
<1>5. CASE CreateInvoice(w)
  <2>. PICK i : i = job[w]
    OBVIOUS
  <2>1. /\ UNCHANGED <<paid, sent>> /\ i \in Payments /\ status[i] = "WORKER_QUOTE_CREATING"
    BY <1>5 DEF CreateInvoice, At, OwnerInv, RowsInHand
  <2>2. /\ quote[i] = "none" /\ i \notin paid /\ i \notin closed /\ sent[i] = 0
        /\ Verdict(i) = "open"
    BY <2>1 DEF QuoteInv, Fits, Virgin, TransferInv, Unsent, Verdict, Forwarded
  <2>3. CASE status' = [status EXCEPT ![i] = "INVOICE_PENDING"] /\ quote' = [quote EXCEPT ![i] = "open"]
    <3>1. \A j \in Payments : Verdict(j)' = Verdict(j)
      BY <1>0, <2>1, <2>3 DEF Verdict, Forwarded
    <3>2. \A j \in Payments : quote'[j] \in {"gone", "pruned"} <=> quote[j] \in {"gone", "pruned"}
      BY <2>1, <2>2, <2>3
    <3>. QED
      BY <1>0, <2>1, <3>1, <3>2, Unseen
  <2>4. CASE status' = [status EXCEPT ![i] = "FAILED"] /\ UNCHANGED quote
    <3>1. Verdict(i)' = "void" /\ \A j \in Payments \ {i} : status'[j] = status[j]
      BY <1>0, <2>1, <2>2, <2>4 DEF Verdict, Forwarded
    <3>. QED
      BY <1>0, <2>1, <2>2, <2>4, <3>1, VerdictKept, OneVerdict
  <2>. QED
    BY <1>5, <2>1, <2>3, <2>4 DEF CreateInvoice, CAS, Set
<1>6. CASE ApplyReading(w)
  <2>. PICK i \in Payments : CAS(i, Polled, AfterReading(i, seen[w][i]))
    BY <1>6 DEF ApplyReading
  <2>1. UNCHANGED <<paid, quote, sent>>
    BY <1>6 DEF ApplyReading
  <2>2. CASE status[i] \notin Polled \/ status'[i] = status[i]
    BY <1>0, <2>1, <2>2, VerdictKept, Unseen DEF CAS
  <2>3. CASE status[i] \in Polled
    <3>1. /\ status'[i] = AfterReading(i, seen[w][i]) /\ \A j \in Payments \ {i} : status'[j] = status[j]
      BY <2>3 DEF CAS
    <3>2. \/ status'[i] \in Polled \cup {"PAID_RECONCILIATION_PENDING"}
          \/ status'[i] = "FAILED" /\ seen[w][i] = "NOT_FOUND"
      BY <2>3, <3>1 DEF AfterReading, AfterUnpaid, Polled
    <3>3. /\ i \notin closed /\ sent[i] = 0 /\ Verdict(i) = "open"
          /\ seen[w][i] = "NOT_FOUND" => quote[i] \in {"gone", "pruned"}
      BY <2>3 DEF QuoteInv, ToldInv, Told, TransferInv, Unsent, Polled, Verdict, Forwarded
    <3>4. \/ Verdict(i)' = "open"
          \/ Verdict(i)' = "void" /\ quote[i] \in {"gone", "pruned"}
      BY <1>0, <3>2, <3>3 DEF Verdict, Polled, Forwarded
    <3>. QED
      BY <1>0, <2>1, <3>1, <3>3, <3>4, VerdictKept, OneVerdict
  <2>. QED
    BY <2>2, <2>3
<1>7. CASE CheckQuote(w)
  <2>1. UNCHANGED <<status, paid, sent>>
    BY <1>7 DEF CheckQuote, Return
  <2>2. \A j \in Payments : quote'[j] \in {"gone", "pruned"} <=> quote[j] \in {"gone", "pruned"}
    BY <1>7 DEF CheckQuote
  <2>. QED
    BY <1>0, <2>1, <2>2, VerdictKept, Unseen
<1>8. CASE CommitReconcile(w)
  <2>. PICK i : i = job[w]
    OBVIOUS
  <2>1. /\ UNCHANGED <<paid, quote, sent>> /\ i \in Payments /\ stage[w] = "reconciling"
        /\ CAS(i, {"PAID_RECONCILIATION_PENDING"}, AfterCheck(outcome[w]))
    BY <1>8 DEF CommitReconcile, Finish, At, RowsInHand
  <2>2. CASE status[i] # "PAID_RECONCILIATION_PENDING"
    BY <1>0, <2>1, <2>2, VerdictKept, Unseen DEF CAS
  <2>3. CASE status[i] = "PAID_RECONCILIATION_PENDING"
    <3>1. /\ status'[i] = AfterCheck(outcome[w]) /\ \A j \in Payments \ {i} : status'[j] = status[j]
      BY <2>1, <2>3 DEF CAS
    <3>2. /\ i \notin closed /\ sent[i] = 0 /\ Verdict(i) = "open"
          /\ outcome[w] = "notfound" => quote[i] \in {"gone", "pruned"}
      BY <2>1, <2>3 DEF QuoteInv, ToldInv, Told, TransferInv, Unsent, Verdict, Forwarded
    <3>3. \/ Verdict(i)' = "open"
          \/ Verdict(i)' = "void" /\ quote[i] \in {"gone", "pruned"}
      BY <1>0, <3>1, <3>2 DEF Verdict, AfterCheck, Forwarded
    <3>. QED
      BY <1>0, <2>1, <3>1, <3>2, <3>3, VerdictKept, OneVerdict
  <2>. QED
    BY <2>2, <2>3
<1>9. CASE SendEcash(w)
  <2>. PICK i : i = job[w]
    OBVIOUS
  <2>1. /\ UNCHANGED <<status, paid, quote>> /\ i \in Payments
        /\ stage[w] = "delivering" /\ outcome[w] = "none" /\ status[i] = "DELIVERING"
        /\ sent' = sent \/ sent' = [sent EXCEPT ![i] = @ + 1]
    BY <1>9 DEF SendEcash, Return, RowsInHand, OwnerInv
  <2>2. CASE sent' = sent
    BY <1>0, <2>1, <2>2, VerdictKept, Unseen
  <2>3. CASE sent' = [sent EXCEPT ![i] = @ + 1]
    <3>1. i \in paid /\ sent[i] = 0 /\ Verdict(i) = "open"
      BY <2>1 DEF QuoteInv, Fits, Funded, Issued, TransferInv, Verdict, Forwarded
    <3>2. {j \in Payments : sent[j] > 0}' = {j \in Payments : sent[j] > 0} \cup {i}
      BY <2>1, <2>3, <3>1
    <3>3. UNCHANGED <<[j \in Payments |-> Verdict(j)], {j \in Payments : quote[j] \in {"gone", "pruned"}}>>
      BY <1>0, <2>1, VerdictKept
    <3>4. i \in paid \ {j \in Payments : sent[j] > 0} /\ [j \in Payments |-> Verdict(j)][i] = "open"
      BY <2>1, <3>1
    <3>5. Promise!Forward(i)
      BY <1>0, <2>1, <3>2, <3>3, <3>4 DEF Promise!Forward
    <3>. QED
      BY <2>1, <3>5 DEF Promise!Next
  <2>. QED
    BY <2>1, <2>2, <2>3
<1>10. CASE CommitDelivery(w) \/ RecordDeliveryRaises(w)
  <2>. PICK i : i = job[w]
    OBVIOUS
  <2>1. /\ UNCHANGED <<paid, quote, sent>> /\ i \in Payments
        /\ stage[w] = "delivering" /\ status[i] = "DELIVERING"
        /\ \A j \in Payments \ {i} : status'[j] = status[j]
    BY <1>10 DEF CommitDelivery, RecordDeliveryRaises, Finish, At, RowsInHand, OwnerInv, CAS
  <2>2. \/ status'[i] \in {"SETTLED", "DELIVERY_FAILED"}
        \/ outcome[w] = "sent" /\ status'[i] \in {"RECEIPT_PENDING", "DELIVERED"}
    BY <1>10, <2>1 DEF CommitDelivery, RecordDeliveryRaises, CAS, AfterDelivery
  <2>3. /\ outcome[w] = "sent" => sent[i] = 1
        /\ i \in paid /\ Verdict(i) = "open"
    BY <2>1 DEF ReceiptInv, QuoteInv, Fits, Funded, Issued, Verdict, Forwarded
  <2>4. \/ Verdict(i)' \in {"open", "review"}
        \/ outcome[w] = "sent" /\ Verdict(i)' = "delivered"
    BY <1>0, <2>2 DEF Verdict, Forwarded
  <2>. QED
    BY <1>0, <2>1, <2>3, <2>4, VerdictKept, OneVerdict
<1>11. CASE CommitReceipt(w)
  <2>1. UNCHANGED <<paid, quote, sent>>
    BY <1>11 DEF CommitReceipt, Finish
  <2>2. \A j \in Payments : \/ status'[j] = status[j]
                            \/ status[j] = "RECEIPT_PUBLISHING" /\ status'[j] \in {"DELIVERED", "RECEIPT_FAILED"}
    BY <1>11 DEF CommitReceipt, CAS
  <2>3. \A j \in Payments : Verdict(j)' = Verdict(j)
    BY <1>0, <2>2 DEF Verdict, Forwarded
  <2>. QED
    BY <1>0, <2>1, <2>3, Unseen
<1>. QED
  BY <1>1, <1>2, <1>3, <1>4, <1>5, <1>6, <1>7, <1>8, <1>9, <1>10, <1>11 DEF Start, Cycle, Fault

\* The queue, its callbacks, its worker with its crashes and its operator behave as
\* PaymentPromise: value goes to the recipient at most once, of a paid and open
\* payment, and a paid payment ends delivered, reviewed or with its quote gone.
THEOREM QueueKeepsPromise == Spec => KeepsPromise
<1>1. Init => Promise!Init
  <2>. SUFFICES ASSUME Init PROVE Promise!Init
    OBVIOUS
  <2>1. \A i \in Payments : /\ status[i] \in {"FAILED", "ABSENT"} /\ i \notin closed /\ sent[i] = 0
                            /\ quote[i] \in {"open", "none"}
    BY DEF Init
  <2>2. [i \in Payments |-> Verdict(i)] \in [Payments -> {"void"}]
    BY <2>1 DEF Verdict, Forwarded
  <2>3. shown \in SUBSET Payments /\ paid = {}
    BY InitTypes DEF Init, TypeOK, Types, WebTypes
  <2>. QED
    BY <2>1, <2>2, <2>3 DEF Promise!Init
<1>2. ASSUME FlowInv, [Next]_vars PROVE [Promise!Next]_(Promise!vars)
  <2>1. CASE \E r \in Requests : Web(r)
    BY <1>2, <2>1, WebPromise
  <2>2. CASE \E w \in Workers : Start(w) \/ Cycle(w) \/ Fault(w) \/ Stop(w) \/ CooldownOver(w)
    BY <1>2, <2>2, WorkerPromise
  <2>3. CASE \E i \in Payments : ClosePayment(i) \/ Pay(i) \/ MintDrops(i) \/ DeadlinePasses(i)
    BY <1>2, <2>3, EnvironmentPromise
  <2>4. CASE UNCHANGED vars
    <3>1. UNCHANGED <<status, closed, paid, quote, sent, shown>>
      BY <2>4 DEF vars, rowVars, worldVars, webVars
    <3>. QED
      BY <3>1, VerdictKept, Unseen
  <2>. QED
    BY <1>2, <2>1, <2>2, <2>3, <2>4 DEF Next
<1>. QED
  BY <1>1, <1>2, FlowInductive, PTL DEF Spec, KeepsPromise, Promise!Spec
=============================================================================
