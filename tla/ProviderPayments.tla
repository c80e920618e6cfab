-------------------------- MODULE ProviderPayments --------------------------
(***************************************************************************)
(* Lightning payments to a claimed handle: the provider_payment queue, the *)
(* LNURL callbacks of the web processes that fill it, the singleton        *)
(* service-Acorn worker that drains it, the operator who closes a row, and *)
(* the mint and the Acorn library as the code uses them.                   *)
(*                                                                         *)
(* A payment is its row id.  The columns of the row are functions on ids;  *)
(* a database statement with its commit is one atomic step, and so is the  *)
(* read that precedes it when nothing is awaited in between.               *)
(***************************************************************************)
EXTENDS Integers, FiniteSets

CONSTANTS
  MaxPayments,            \* bound: rows the database may hold
  LegacyRows,             \* rows 1..LegacyRows were failed by the old timeout
  Requests,               \* LNURL callbacks, each in a web process of its own
  Events,                 \* signed NIP-57 zap requests
  Workers,                \* processes started as `service_acorn_worker run'
  MaxSettlementAttempts,  \* MAX_PROVIDER_SETTLEMENT_ATTEMPTS
  DeliveryRetryAttempts,  \* settings.service_acorn_delivery_retry_attempts
  BatchSize,              \* PROVIDER_SETTLEMENT_DISCOVERY_BATCH_SIZE
  MaxCrashes,             \* bound: worker crashes
  MaxDbFaults,            \* bound: database statements that raise
  MaxMintFaults,          \* bound: quote-state reads that fail
  MintForgets,            \* may the mint drop a quote?
  NoEvent, NoWorker

ASSUME ConstantsAssumption ==
  /\ MaxPayments \in Nat /\ LegacyRows \in 0..MaxPayments
  /\ MaxSettlementAttempts \in Nat \ {0} /\ DeliveryRetryAttempts \in Nat
  /\ BatchSize \in Nat \ {0} /\ MaxCrashes \in Nat /\ MaxDbFaults \in Nat
  /\ MaxMintFaults \in Nat /\ MintForgets \in BOOLEAN
  /\ NoEvent \notin Events /\ NoWorker \notin Workers

VARIABLES
  \* provider_payment, provider_zap, provider_payment_intervention
  status, zapEvent, attempts, deliveryAttempts, nextCheck, hasEventId,
  legacyError, closed,
  \* the mint and the recipient
  quote, paid, sent, receipts,
  \* worker processes
  lock, stage, job, outcome, seen, cooling, faults,
  \* web processes
  reqPc, reqPay, reqEvent, shown

rowVars    == <<status, zapEvent, attempts, deliveryAttempts, nextCheck,
                hasEventId, legacyError, closed>>
worldVars  == <<quote, paid, sent, receipts>>
workerVars == <<lock, stage, job, outcome, seen, cooling, faults>>
webVars    == <<reqPc, reqPay, reqEvent, shown>>
vars       == <<rowVars, worldVars, workerVars, webVars>>

Payments == 1..MaxPayments
NoJob    == 0

Polled  == {"INVOICE_PENDING", "SETTLEMENT_UNCONFIRMED"}
Claims  == {"WORKER_QUOTE_CREATING", "DELIVERING", "RECEIPT_PUBLISHING"}
Forwarded == {"RECEIPT_PENDING", "RECEIPT_PUBLISHING", "RECEIPT_FAILED", "DELIVERED"}
Status  == {"ABSENT", "QUOTE_CREATING", "QUOTE_PENDING", "FAILED", "SETTLED",
            "PAID_RECONCILIATION_PENDING", "DELIVERY_FAILED"}
             \cup Polled \cup Claims \cup Forwarded
Stages  == {"down", "legacy", "quarantine", "quote", "quoting", "discover",
            "discovering", "cooldown", "reconcile", "reconciling", "deliver",
            "delivering", "receipt", "publishing", "idle"}
Outcomes == {"none", "paid", "unpaid", "notfound", "sent", "presafe",
             "ambiguous", "published", "failed"}
Readings == {"unasked", "asked", "PAID", "UNPAID", "NOT_FOUND", "ERROR", "DEFERRED"}
Quotes  == {"none", "open", "issued", "gone", "pruned"}
ReqPcs  == {"idle", "absent", "creating", "waiting", "invoice", "error",
            "timeout", "integrity", "lost"}

Init ==
  /\ status = [i \in Payments |-> IF i <= LegacyRows THEN "FAILED" ELSE "ABSENT"]
  /\ legacyError = [i \in Payments |-> i <= LegacyRows]
  /\ attempts = [i \in Payments |-> IF i <= LegacyRows THEN MaxSettlementAttempts ELSE 0]
  /\ quote = [i \in Payments |-> IF i <= LegacyRows THEN "open" ELSE "none"]
  /\ shown = 1..LegacyRows
  /\ zapEvent = [i \in Payments |-> NoEvent]
  /\ deliveryAttempts = [i \in Payments |-> 0]
  /\ nextCheck = [i \in Payments |-> "null"]
  /\ hasEventId = [i \in Payments |-> FALSE]
  /\ closed = {} /\ paid = {}
  /\ sent = [i \in Payments |-> 0]
  /\ receipts = [i \in Payments |-> 0]
  /\ lock = NoWorker
  /\ stage = [w \in Workers |-> "down"]
  /\ job = [w \in Workers |-> NoJob]
  /\ outcome = [w \in Workers |-> "none"]
  /\ seen = [w \in Workers |-> [i \in Payments |-> "unasked"]]
  /\ cooling = [w \in Workers |-> FALSE]
  /\ faults = [crash |-> 0, db |-> 0, mint |-> 0]
  /\ reqPc = [r \in Requests |-> "idle"]
  /\ reqPay = [r \in Requests |-> NoJob]
  /\ reqEvent = [r \in Requests |-> NoEvent]

-----------------------------------------------------------------------------
(* The queue: compare-and-swap transitions and row selection.              *)

\* transition_provider_payment: UPDATE ... WHERE status IN expected.
CAS(i, expected, new) ==
  status' = IF status[i] \in expected THEN [status EXCEPT ![i] = new] ELSE status

\* A column of row i set by the same UPDATE.
Set(column, i, expected, value) ==
  IF status[i] \in expected THEN [column EXCEPT ![i] = value] ELSE column

\* The counter of checks is compared only with 0 and with the maximum: beyond that
\* it stays there (an abstraction of a column that counts on).
Bump(n) == IF n < MaxSettlementAttempts THEN n + 1 ELSE n

Due(i) == nextCheck[i] # "later"

\* next_provider_payment: due rows, NULL next_check_at first and then by id;
\* the order of two elapsed deadlines is left open.
Candidates(s) ==
  LET due   == {i \in Payments : status[i] = s /\ Due(i)}
      fresh == {i \in due : nextCheck[i] = "null"}
  IN  IF fresh = {} THEN due ELSE {i \in fresh : \A j \in fresh : i <= j}

\* The rows of due_provider_settlements: a full batch, never-checked rows first.
Batches ==
  LET due == {i \in Payments : status[i] \in Polled /\ Due(i)}
  IN  {B \in SUBSET due :
         /\ B = due \/ Cardinality(B) = BatchSize
         /\ Cardinality(B) <= BatchSize
         /\ \A i \in B, j \in due \ B : attempts[j] = 0 => attempts[i] = 0}

ZapRows(e) == {i \in Payments : e # NoEvent /\ zapEvent[i] = e}

-----------------------------------------------------------------------------
(* LNURL callbacks.                                                        *)

WebStep(r, from, to) == reqPc[r] = from /\ reqPc' = [reqPc EXCEPT ![r] = to]

\* Mutant: the callback is handed the row's autoincrement id, None before the flush.
InsertUnflushed(i, r, e, initial) ==
  /\ status[i] = "ABSENT" /\ \A j \in Payments : j < i => status[j] # "ABSENT"
  /\ status' = [status EXCEPT ![i] = initial]
  /\ zapEvent' = [zapEvent EXCEPT ![i] = e]
  /\ UNCHANGED <<attempts, deliveryAttempts, nextCheck, hasEventId, legacyError,
                 closed, worldVars, workerVars, reqPay, reqEvent, shown>>

Insert(i, r, e, initial) ==
  /\ status[i] = "ABSENT" /\ \A j \in Payments : j < i => status[j] # "ABSENT"
  /\ status' = [status EXCEPT ![i] = initial]
  /\ zapEvent' = [zapEvent EXCEPT ![i] = e]
  /\ reqPay' = [reqPay EXCEPT ![r] = i]
  /\ UNCHANGED <<attempts, deliveryAttempts, nextCheck, hasEventId, legacyError,
                 closed, worldVars, workerVars, reqEvent, shown>>

\* The invoice of row i leaves the system in the callback's response.
Answer(r, from, i) ==
  /\ WebStep(r, from, "invoice")
  /\ reqPay' = [reqPay EXCEPT ![r] = i]
  /\ shown' = shown \cup {i}

\* An ordinary callback inserts its row and waits for the worker.
Callback(r) ==
  /\ WebStep(r, "idle", "waiting")
  /\ \E i \in Payments : Insert(i, r, NoEvent, "QUOTE_PENDING")

\* A zap callback looks its signed event up before it inserts anything.
LookupZap(r) ==
  \E e \in Events :
    /\ reqPc[r] = "idle"
    /\ reqEvent' = [reqEvent EXCEPT ![r] = e]
    /\ \/ /\ ZapRows(e) = {} /\ WebStep(r, "idle", "absent")
          /\ UNCHANGED <<reqPay, shown>>
       \/ \E i \in ZapRows(e) : quote[i] # "none" /\ Answer(r, "idle", i)
       \/ \E i \in ZapRows(e) :
            /\ quote[i] = "none" /\ WebStep(r, "idle", "waiting")
            /\ reqPay' = [reqPay EXCEPT ![r] = i] /\ UNCHANGED shown
    /\ UNCHANGED <<rowVars, worldVars, workerVars>>

\* Mutant: no uniqueness constraint on request_event_id.
EventNeverTaken(e) == e = e

\* uq_provider_zap_request_event_id.
EventIsFree(e) == ZapRows(e) = {}

InsertZap(r) ==
  /\ EventIsFree(reqEvent[r])
  /\ WebStep(r, "absent", "creating")
  /\ \E i \in Payments : Insert(i, r, reqEvent[r], "QUOTE_CREATING")

\* Another process inserted the event first: IntegrityError, which the callback
\* does not handle.
InsertZapConflict(r) ==
  /\ ~EventIsFree(reqEvent[r])
  /\ WebStep(r, "absent", "integrity")
  /\ UNCHANGED <<rowVars, worldVars, workerVars, reqPay, reqEvent, shown>>

\* create_zap_invoice after the mint has answered.
CreateZapInvoice(r) ==
  LET i == reqPay[r] IN
  /\ reqPc[r] = "creating"
  /\ \/ /\ status[i] = "QUOTE_CREATING" /\ Answer(r, "creating", i)
        /\ status' = [status EXCEPT ![i] = "INVOICE_PENDING"]
        /\ quote' = [quote EXCEPT ![i] = "open"]
        /\ nextCheck' = [nextCheck EXCEPT ![i] = "due"]
     \/ /\ WebStep(r, "creating", "error") /\ CAS(i, {"QUOTE_CREATING"}, "FAILED")
        /\ UNCHANGED <<quote, nextCheck, reqPay, shown>>
  /\ UNCHANGED <<zapEvent, attempts, deliveryAttempts, hasEventId, legacyError,
                 closed, paid, sent, receipts, workerVars, reqEvent>>

\* The statuses in which wait_for_provider_invoice returns the invoice it sees.
Answerable == Polled \cup {"SETTLED", "DELIVERING", "RECEIPT_PENDING",
                           "RECEIPT_FAILED", "DELIVERED", "DELIVERY_FAILED"}
InvoiceReady(i) == quote[i] # "none" /\ status[i] \in Answerable

WaitForInvoice(r) ==
  LET i == reqPay[r] IN
  /\ reqPc[r] = "waiting"
  /\ \/ InvoiceReady(i) /\ Answer(r, "waiting", i)
     \/ /\ ~InvoiceReady(i) /\ UNCHANGED <<reqPay, shown>>
        /\ WebStep(r, "waiting", IF status[i] = "FAILED" THEN "error" ELSE "timeout")
  /\ UNCHANGED <<rowVars, worldVars, workerVars, reqEvent>>

\* The web process dies; what the callback committed stays.
WebCrash(r) ==
  /\ reqPc[r] \in {"absent", "creating", "waiting"}
  /\ reqPc' = [reqPc EXCEPT ![r] = "lost"]
  /\ UNCHANGED <<rowVars, worldVars, workerVars, reqPay, reqEvent, shown>>

-----------------------------------------------------------------------------
(* The worker.  `stage' is the worker's place in process_provider_payments_ *)
(* once, `job' the row it works on, `outcome' what an awaited call returned *)
(* that the database does not know yet.                                     *)

At(w, from, to) == stage[w] = from /\ stage' = [stage EXCEPT ![w] = to]

\* Mutant: no flock.
NoLock == TRUE

\* fcntl.flock(LOCK_EX | LOCK_NB): a second worker is refused.
LockIsFree == lock = NoWorker

Acquire(w) ==
  /\ LockIsFree
  /\ lock' = w
  /\ At(w, "down", "legacy")
  /\ UNCHANGED <<rowVars, worldVars, job, outcome, seen, cooling, faults, webVars>>

\* Mutant: every failed invoice is polled again.
IsFailedInvoice(i) == status[i] = "FAILED" /\ quote[i] # "none"

IsLegacyTimeout(i) == status[i] = "FAILED" /\ legacyError[i] /\ quote[i] # "none"

\* reconcile_legacy_settlement_timeouts
ReconcileLegacy(w) ==
  /\ At(w, "legacy", "quarantine")
  /\ status' = [i \in Payments |->
       IF IsLegacyTimeout(i) THEN "SETTLEMENT_UNCONFIRMED" ELSE status[i]]
  /\ nextCheck' = [i \in Payments |-> IF IsLegacyTimeout(i) THEN "due" ELSE nextCheck[i]]
  /\ legacyError' = [i \in Payments |-> ~IsLegacyTimeout(i) /\ legacyError[i]]
  /\ UNCHANGED <<zapEvent, attempts, deliveryAttempts, hasEventId, closed, worldVars,
                 lock, job, outcome, seen, cooling, faults, webVars>>

\* Mutants: an interrupted delivery is retried; it is left alone.
QuarantineRetries(s) ==
  CASE s = "WORKER_QUOTE_CREATING" -> "FAILED"
    [] s = "DELIVERING"            -> "SETTLED"
    [] s = "RECEIPT_PUBLISHING"    -> "RECEIPT_FAILED"
    [] OTHER                       -> s

QuarantineSkipsDelivery(s) ==
  CASE s = "WORKER_QUOTE_CREATING" -> "FAILED"
    [] s = "RECEIPT_PUBLISHING"    -> "RECEIPT_FAILED"
    [] OTHER                       -> s

Quarantined(s) ==
  CASE s = "WORKER_QUOTE_CREATING" -> "FAILED"
    [] s = "DELIVERING"            -> "DELIVERY_FAILED"
    [] s = "RECEIPT_PUBLISHING"    -> "RECEIPT_FAILED"
    [] OTHER                       -> s

\* quarantine_abandoned_provider_claims with stale_after = 0
Quarantine(w) ==
  /\ At(w, "quarantine", "quote")
  /\ status' = [i \in Payments |-> Quarantined(status[i])]
  /\ nextCheck' = [i \in Payments |-> IF status[i] \in Claims THEN "null" ELSE nextCheck[i]]
  /\ UNCHANGED <<zapEvent, attempts, deliveryAttempts, hasEventId, legacyError, closed,
                 worldVars, lock, job, outcome, seen, cooling, faults, webVars>>

\* A stage that finds no row leaves the database alone.
SkipStage(w) ==
  /\ \/ Candidates("QUOTE_PENDING") = {} /\ At(w, "quote", "discover")
     \/ Batches = {{}} /\ At(w, "discover", "reconcile")
     \/ Candidates("PAID_RECONCILIATION_PENDING") = {} /\ At(w, "reconcile", "deliver")
     \/ Candidates("SETTLED") = {} /\ At(w, "deliver", "receipt")
     \/ Candidates("RECEIPT_PENDING") = {} /\ At(w, "receipt", "idle")
  /\ UNCHANGED <<rowVars, worldVars, lock, job, outcome, seen, cooling, faults, webVars>>

\* Work on row i from here on.
Take(w, i, from, to) == At(w, from, to) /\ job' = [job EXCEPT ![w] = i]

\* The awaited call of the current stage returned.
Return(w, result) ==
  /\ outcome' = [outcome EXCEPT ![w] = result]
  /\ UNCHANGED <<rowVars, lock, stage, job, seen, cooling, faults, webVars>>

\* The stage ends with the row's final UPDATE.
Finish(w, from, to) ==
  /\ At(w, from, to)
  /\ job' = [job EXCEPT ![w] = NoJob]
  /\ outcome' = [outcome EXCEPT ![w] = "none"]
  /\ UNCHANGED <<lock, seen, cooling, faults, worldVars, webVars>>

ClaimQuote(w) ==
  \E i \in Candidates("QUOTE_PENDING") :
    /\ Take(w, i, "quote", "quoting")
    /\ CAS(i, {"QUOTE_PENDING"}, "WORKER_QUOTE_CREATING")
    /\ nextCheck' = Set(nextCheck, i, {"QUOTE_PENDING"}, "null")
    /\ UNCHANGED <<zapEvent, attempts, deliveryAttempts, hasEventId, legacyError, closed,
                   worldVars, lock, outcome, seen, cooling, faults, webVars>>

\* acorn.deposit or _request_zap_mint_quote, and the transition that stores it.
CreateInvoice(w) ==
  LET i == job[w]
      from == {"WORKER_QUOTE_CREATING"} IN
  /\ At(w, "quoting", "discover")
  /\ job' = [job EXCEPT ![w] = NoJob]
  /\ \/ /\ CAS(i, from, "INVOICE_PENDING")
        /\ quote' = Set(quote, i, from, "open")
        /\ nextCheck' = Set(nextCheck, i, from, "due")
     \/ CAS(i, from, "FAILED") /\ UNCHANGED <<quote, nextCheck>>
  /\ UNCHANGED <<zapEvent, attempts, deliveryAttempts, hasEventId, legacyError, closed,
                 paid, sent, receipts, lock, outcome, seen, cooling, faults, webVars>>

StartDiscovery(w) ==
  \E B \in Batches \ {{}} :
    /\ At(w, "discover", "discovering")
    /\ seen' = [seen EXCEPT ![w] = [i \in Payments |-> IF i \in B THEN "asked" ELSE "unasked"]]
    /\ UNCHANGED <<rowVars, worldVars, lock, job, outcome, cooling, faults, webVars>>

\* What acorn.get_quote_state answers for the quote of row i when it does not fail.
MintAnswer(i) ==
  CASE quote[i] = "open"   -> IF i \in paid THEN "PAID" ELSE "UNPAID"
    [] quote[i] = "issued" -> "UNPAID"
    [] OTHER               -> "NOT_FOUND"

\* A transport error, a timeout, 429 or 5xx starts a cooldown of the mint; any
\* other error does not.
ReadFails(w) ==
  /\ faults.mint < MaxMintFaults
  /\ faults' = [faults EXCEPT !.mint = @ + 1]
  /\ \E transient \in BOOLEAN : cooling' = [cooling EXCEPT ![w] = transient]

\* discover: one quote is read, unless its mint cools down.
ReadQuoteState(w) ==
  /\ stage[w] = "discovering"
  /\ \E i \in Payments, reading \in Readings :
       /\ seen[w][i] = "asked"
       /\ seen' = [seen EXCEPT ![w][i] = reading]
       /\ \/ cooling[w] /\ reading = "DEFERRED" /\ UNCHANGED <<cooling, faults>>
          \/ ~cooling[w] /\ reading = "ERROR" /\ ReadFails(w)
          \/ ~cooling[w] /\ reading = MintAnswer(i) /\ UNCHANGED <<cooling, faults>>
  /\ UNCHANGED <<rowVars, worldVars, lock, stage, job, outcome, webVars>>

\* Mutant: the former settlement timeout, which failed the row.
UnpaidTimesOut(i) ==
  IF attempts[i] + 1 >= MaxSettlementAttempts THEN "FAILED" ELSE "INVOICE_PENDING"

\* The status an unpaid quote leaves its row in.
AfterUnpaid(i) ==
  IF status[i] = "SETTLEMENT_UNCONFIRMED" \/ attempts[i] + 1 >= MaxSettlementAttempts
  THEN "SETTLEMENT_UNCONFIRMED" ELSE "INVOICE_PENDING"

AfterReading(i, reading) ==
  CASE reading = "PAID"      -> "PAID_RECONCILIATION_PENDING"
    [] reading = "UNPAID"    -> AfterUnpaid(i)
    [] reading = "NOT_FOUND" -> "FAILED"
    [] OTHER                 -> status[i]

\* After the gather, every result is applied to its row.
ApplyReading(w) ==
  \E i \in Payments :
    LET reading == seen[w][i]
        left == {j \in Payments \ {i} : seen[w][j] # "unasked"} IN
    /\ At(w, "discovering", IF left = {} THEN "cooldown" ELSE "discovering")
    /\ \A j \in Payments : seen[w][j] # "asked"
    /\ reading # "unasked"
    /\ seen' = [seen EXCEPT ![w][i] = "unasked"]
    /\ CAS(i, Polled, AfterReading(i, reading))
    /\ attempts' = Set(attempts, i, Polled,
                       IF reading = "DEFERRED" THEN attempts[i] ELSE Bump(attempts[i]))
    /\ nextCheck' = Set(nextCheck, i, Polled,
                        IF reading \in {"PAID", "NOT_FOUND"} THEN "null" ELSE "later")
    /\ UNCHANGED <<zapEvent, deliveryAttempts, hasEventId, legacyError, closed, worldVars,
                   lock, job, outcome, cooling, faults, webVars>>

\* A cooldown in force is written to every polled row of the mint.
PersistCooldown(w) ==
  /\ At(w, "cooldown", "reconcile")
  /\ nextCheck' = [i \in Payments |->
       IF cooling[w] /\ status[i] \in Polled THEN "later" ELSE nextCheck[i]]
  /\ UNCHANGED <<status, zapEvent, attempts, deliveryAttempts, hasEventId, legacyError,
                 closed, worldVars, lock, job, outcome, seen, cooling, faults, webVars>>

CooldownOver(w) ==
  /\ cooling[w]
  /\ cooling' = [cooling EXCEPT ![w] = FALSE]
  /\ UNCHANGED <<rowVars, worldVars, lock, stage, job, outcome, seen, faults, webVars>>

SelectPaid(w) ==
  \E i \in Candidates("PAID_RECONCILIATION_PENDING") :
    /\ Take(w, i, "reconcile", "reconciling")
    /\ UNCHANGED <<rowVars, worldVars, lock, outcome, seen, cooling, faults, webVars>>

\* acorn.check_quote issues the ecash of a paid quote, and may fail before or
\* after it did.
CheckQuote(w) ==
  LET i == job[w] IN
  /\ stage[w] = "reconciling" /\ outcome[w] = "none"
  /\ \/ /\ quote[i] = "open" /\ i \in paid
        /\ quote' = [quote EXCEPT ![i] = "issued"]
        /\ \E result \in {"paid", "unpaid"} : Return(w, result)
     \/ /\ UNCHANGED quote
        /\ \/ Return(w, "unpaid")
           \/ quote[i] = "issued" /\ Return(w, "paid")
           \/ quote[i] \in {"gone", "pruned"} /\ Return(w, "notfound")
  /\ UNCHANGED <<paid, sent, receipts>>

\* Mutant: the paid flag of check_quote is ignored.
AfterAnyCheck(result) == IF result = "notfound" THEN "FAILED" ELSE "SETTLED"

AfterCheck(result) ==
  CASE result = "paid"     -> "SETTLED"
    [] result = "notfound" -> "FAILED"
    [] OTHER               -> "PAID_RECONCILIATION_PENDING"

CommitReconcile(w) ==
  LET i == job[w]
      from == {"PAID_RECONCILIATION_PENDING"} IN
  /\ outcome[w] # "none"
  /\ Finish(w, "reconciling", "deliver")
  /\ CAS(i, from, AfterCheck(outcome[w]))
  /\ attempts' = Set(attempts, i, from, Bump(attempts[i]))
  /\ nextCheck' = Set(nextCheck, i, from, IF outcome[w] = "unpaid" THEN "later" ELSE "null")
  /\ UNCHANGED <<zapEvent, deliveryAttempts, hasEventId, legacyError, closed>>

ClaimDelivery(w) ==
  \E i \in Candidates("SETTLED") :
    /\ Take(w, i, "deliver", "delivering")
    /\ CAS(i, {"SETTLED"}, "DELIVERING")
    /\ deliveryAttempts' = Set(deliveryAttempts, i, {"SETTLED"}, deliveryAttempts[i] + 1)
    /\ nextCheck' = Set(nextCheck, i, {"SETTLED"}, "null")
    /\ UNCHANGED <<zapEvent, attempts, hasEventId, legacyError, closed, worldVars,
                   lock, outcome, seen, cooling, faults, webVars>>

\* acorn.send_ecash_transfer: RetryablePreSwapError proves that nothing left the
\* wallet; any other exception leaves it open whether the transfer was made.
SendEcash(w) ==
  LET i == job[w] IN
  /\ stage[w] = "delivering" /\ outcome[w] = "none"
  /\ \/ /\ sent' = [sent EXCEPT ![i] = @ + 1]
        /\ \E result \in {"sent", "ambiguous"} : Return(w, result)
     \/ /\ UNCHANGED sent
        /\ \E result \in {"presafe", "ambiguous"} : Return(w, result)
  /\ UNCHANGED <<quote, paid, receipts>>

\* Mutant: one retry too many.
RetriesLeftOffByOne(i) == deliveryAttempts[i] <= DeliveryRetryAttempts

RetriesLeft(i) == deliveryAttempts[i] < IF DeliveryRetryAttempts > 1
                                        THEN DeliveryRetryAttempts ELSE 1

\* Mutant: an ambiguous outcome is taken for a delivery.
AmbiguousIsDelivered(i, result) ==
  CASE result = "presafe" /\ RetriesLeft(i) -> "SETTLED"
    [] result = "presafe" -> "DELIVERY_FAILED"
    [] OTHER -> IF zapEvent[i] = NoEvent THEN "DELIVERED" ELSE "RECEIPT_PENDING"

AfterDelivery(i, result) ==
  CASE result = "sent" -> IF zapEvent[i] = NoEvent THEN "DELIVERED" ELSE "RECEIPT_PENDING"
    [] result = "presafe" /\ RetriesLeft(i) -> "SETTLED"
    [] OTHER -> "DELIVERY_FAILED"

CommitDelivery(w) ==
  LET i == job[w]
      from == {"DELIVERING"}
      after == AfterDelivery(i, outcome[w]) IN
  /\ outcome[w] # "none"
  /\ Finish(w, "delivering", "receipt")
  /\ CAS(i, from, after)
  /\ nextCheck' = Set(nextCheck, i, from, IF after = "SETTLED" THEN "later" ELSE "null")
  /\ \/ /\ outcome[w] = "sent"
        /\ \E id \in BOOLEAN : hasEventId' = Set(hasEventId, i, from, id)
     \/ outcome[w] # "sent" /\ UNCHANGED hasEventId
  /\ UNCHANGED <<zapEvent, attempts, deliveryAttempts, legacyError, closed>>

\* The transfer was made but its UPDATE raises inside the try block: the handler
\* files the row for review.
RecordDeliveryRaises(w) ==
  /\ outcome[w] = "sent" /\ faults.db < MaxDbFaults
  /\ At(w, "delivering", "receipt")
  /\ CAS(job[w], {"DELIVERING"}, "DELIVERY_FAILED")
  /\ nextCheck' = Set(nextCheck, job[w], {"DELIVERING"}, "null")
  /\ job' = [job EXCEPT ![w] = NoJob]
  /\ outcome' = [outcome EXCEPT ![w] = "none"]
  /\ faults' = [faults EXCEPT !.db = @ + 1]
  /\ UNCHANGED <<zapEvent, attempts, deliveryAttempts, hasEventId, legacyError, closed,
                 worldVars, lock, seen, cooling, webVars>>

ClaimReceipt(w) ==
  \E i \in Candidates("RECEIPT_PENDING") :
    /\ Take(w, i, "receipt", "publishing")
    /\ CAS(i, {"RECEIPT_PENDING"}, "RECEIPT_PUBLISHING")
    /\ UNCHANGED <<zapEvent, attempts, deliveryAttempts, nextCheck, hasEventId, legacyError,
                   closed, worldVars, lock, outcome, seen, cooling, faults, webVars>>

\* A failure may strike before or after a relay took the receipt.
PublishReceipt(w) ==
  LET i == job[w] IN
  /\ stage[w] = "publishing" /\ outcome[w] = "none"
  /\ \/ /\ receipts' = [receipts EXCEPT ![i] = @ + 1]
        /\ \E result \in {"published", "failed"} : Return(w, result)
     \/ UNCHANGED receipts /\ Return(w, "failed")
  /\ UNCHANGED <<quote, paid, sent>>

CommitReceipt(w) ==
  /\ outcome[w] # "none"
  /\ Finish(w, "publishing", "idle")
  /\ CAS(job[w], {"RECEIPT_PUBLISHING"},
         IF outcome[w] = "published" THEN "DELIVERED" ELSE "RECEIPT_FAILED")
  /\ UNCHANGED <<zapEvent, attempts, deliveryAttempts, nextCheck, hasEventId, legacyError,
                 closed>>

NextCycle(w) ==
  /\ At(w, "idle", "quote")
  /\ UNCHANGED <<rowVars, worldVars, lock, job, outcome, seen, cooling, faults, webVars>>

\* What the process forgets when it abandons a cycle.
Forget(w) ==
  /\ job' = [job EXCEPT ![w] = NoJob]
  /\ outcome' = [outcome EXCEPT ![w] = "none"]
  /\ seen' = [seen EXCEPT ![w] = [i \in Payments |-> "unasked"]]
  /\ UNCHANGED <<rowVars, worldVars, webVars>>

\* A statement raises outside the handlers of the stage: the loop logs the cycle
\* as failed and starts another one.
CycleFails(w) ==
  /\ stage[w] \notin {"down", "legacy", "quarantine", "idle"}
  /\ faults.db < MaxDbFaults /\ faults' = [faults EXCEPT !.db = @ + 1]
  /\ stage' = [stage EXCEPT ![w] = "idle"]
  /\ Forget(w)
  /\ UNCHANGED <<lock, cooling>>

\* Stop between two cycles, and crash at any point; both release the flock.
Leave(w) ==
  /\ stage' = [stage EXCEPT ![w] = "down"]
  /\ lock' = NoWorker
  /\ cooling' = [cooling EXCEPT ![w] = FALSE]
  /\ Forget(w)

Stop(w) == stage[w] = "idle" /\ Leave(w) /\ UNCHANGED faults

Crash(w) ==
  /\ stage[w] # "down" /\ faults.crash < MaxCrashes
  /\ faults' = [faults EXCEPT !.crash = @ + 1]
  /\ Leave(w)

-----------------------------------------------------------------------------
(* The operator, the payer, the mint and time.                             *)

\* Mutant: the operator may close a payment the worker is delivering.
UndeliveredIsClosable(i) == status[i] \in {"DELIVERING", "DELIVERY_FAILED"} /\ ~hasEventId[i]

Closable(i) == status[i] = "DELIVERY_FAILED" /\ ~hasEventId[i]

\* close_payment, confirmed: the row and its audit record in one transaction.
ClosePayment(i) ==
  /\ Closable(i)
  /\ status' = [status EXCEPT ![i] = "FAILED"]
  /\ nextCheck' = [nextCheck EXCEPT ![i] = "null"]
  /\ closed' = closed \cup {i}
  /\ UNCHANGED <<zapEvent, attempts, deliveryAttempts, hasEventId, legacyError,
                 worldVars, workerVars, webVars>>

\* A payer settles an invoice that was given out.
Pay(i) ==
  /\ i \in shown \ paid /\ quote[i] = "open"
  /\ paid' = paid \cup {i}
  /\ UNCHANGED <<rowVars, quote, sent, receipts, workerVars, webVars>>

MintDrops(i) ==
  /\ MintForgets /\ quote[i] \in {"open", "issued"}
  /\ quote' = [quote EXCEPT ![i] = IF @ = "open" THEN "gone" ELSE "pruned"]
  /\ UNCHANGED <<rowVars, paid, sent, receipts, workerVars, webVars>>

\* A cooldown in memory ends no later than the deadlines it was written to.
DeadlinePasses(i) ==
  /\ nextCheck[i] = "later"
  /\ status[i] \in Polled => \A w \in Workers : ~cooling[w]
  /\ nextCheck' = [nextCheck EXCEPT ![i] = "due"]
  /\ UNCHANGED <<status, zapEvent, attempts, deliveryAttempts, hasEventId, legacyError,
                 closed, worldVars, workerVars, webVars>>

-----------------------------------------------------------------------------
Web(r) ==
  \/ Callback(r) \/ LookupZap(r) \/ InsertZap(r) \/ InsertZapConflict(r)
  \/ CreateZapInvoice(r) \/ WaitForInvoice(r) \/ WebCrash(r)

Start(w) == Acquire(w) \/ ReconcileLegacy(w) \/ Quarantine(w)

Cycle(w) ==
  \/ SkipStage(w) \/ ClaimQuote(w) \/ CreateInvoice(w)
  \/ StartDiscovery(w) \/ ReadQuoteState(w) \/ ApplyReading(w) \/ PersistCooldown(w)
  \/ SelectPaid(w) \/ CheckQuote(w) \/ CommitReconcile(w)
  \/ ClaimDelivery(w) \/ SendEcash(w) \/ CommitDelivery(w)
  \/ ClaimReceipt(w) \/ PublishReceipt(w) \/ CommitReceipt(w) \/ NextCycle(w)

Fault(w) == RecordDeliveryRaises(w) \/ CycleFails(w) \/ Crash(w)

Next ==
  \/ \E r \in Requests : Web(r)
  \/ \E w \in Workers : Start(w) \/ Cycle(w) \/ Fault(w) \/ Stop(w) \/ CooldownOver(w)
  \/ \E i \in Payments : ClosePayment(i) \/ Pay(i) \/ MintDrops(i) \/ DeadlinePasses(i)

Spec == Init /\ [][Next]_vars

-----------------------------------------------------------------------------
RowTypes ==
  /\ status \in [Payments -> Status] /\ zapEvent \in [Payments -> Events \cup {NoEvent}]
  /\ attempts \in [Payments -> 0..MaxSettlementAttempts]
  /\ deliveryAttempts \in [Payments -> Nat]
  /\ nextCheck \in [Payments -> {"null", "due", "later"}]
  /\ hasEventId \in [Payments -> BOOLEAN] /\ legacyError \in [Payments -> BOOLEAN]
  /\ closed \in SUBSET Payments

WorldTypes ==
  /\ quote \in [Payments -> Quotes] /\ paid \in SUBSET Payments
  /\ sent \in [Payments -> Nat] /\ receipts \in [Payments -> Nat]

WorkerTypes ==
  /\ lock \in Workers \cup {NoWorker}
  /\ stage \in [Workers -> Stages] /\ job \in [Workers -> Payments \cup {NoJob}]
  /\ outcome \in [Workers -> Outcomes] /\ cooling \in [Workers -> BOOLEAN]
  /\ seen \in [Workers -> [Payments -> Readings]]
  /\ faults \in [crash : Nat, db : Nat, mint : Nat]

WebTypes ==
  /\ reqPc \in [Requests -> ReqPcs] /\ reqPay \in [Requests -> Payments \cup {NoJob}]
  /\ reqEvent \in [Requests -> Events \cup {NoEvent}] /\ shown \in SUBSET Payments

Types == RowTypes /\ WorldTypes /\ WorkerTypes /\ WebTypes

\* Who waits for a row or works on one has a row in hand.
RowsInHand ==
  /\ \A r \in Requests : reqPc[r] \in {"creating", "waiting"} => reqPay[r] \in Payments
  /\ \A w \in Workers :
       stage[w] \in {"quoting", "reconciling", "delivering", "publishing"} => job[w] \in Payments

TypeOK == Types /\ RowsInHand

-----------------------------------------------------------------------------
(* Correctness.                                                            *)

Issued(i) == quote[i] \in {"issued", "pruned"}

\* "An interrupted/ambiguous publish is deliberately not retried automatically
\* because that could duplicate the recipient payment": across retries, crashes,
\* restarts and operator closures, a payment's ecash leaves the Acorn at most once.
AtMostOneTransfer == \A i \in Payments : sent[i] <= 1

\* Ecash goes out only for a payment whose own Lightning quote the payer settled
\* and the mint issued: no delivery is financed by another payment's proofs.
TransferIsFunded == \A i \in Payments : sent[i] > 0 => i \in paid /\ Issued(i)

\* A payment the payer settled is given up (FAILED) only when the mint no longer
\* knows its quote, the operator closed it on record, or it is a legacy row that
\* the next worker start resumes.
PaidIsNeverDropped ==
  \A i \in paid : status[i] = "FAILED" =>
    i \in closed \/ quote[i] \in {"gone", "pruned"} \/ legacyError[i]

\* RECEIPT_FAILED "means ecash was already delivered": no row is in a state behind
\* the delivery, and no zap receipt is published, unless the transfer was made;
\* and a receipt is published at most once.
ReceiptFollowsDelivery ==
  \A i \in Payments :
    /\ status[i] \in Forwarded => sent[i] = 1
    /\ receipts[i] > 0 => sent[i] = 1 /\ zapEvent[i] # NoEvent
    /\ receipts[i] <= 1

\* A payment back in SETTLED, where the worker will send it again, has not been
\* sent: only failures proven to precede the swap are retried, and boundedly.
RetriesAreSafe ==
  \A i \in Payments :
    /\ status[i] \in Polled \cup {"PAID_RECONCILIATION_PENDING", "SETTLED"} => sent[i] = 0
    /\ deliveryAttempts[i] > 0 => deliveryAttempts[i] <=
         IF DeliveryRetryAttempts > 1 THEN DeliveryRetryAttempts ELSE 1

\* All callbacks that answer the same signed zap answer with the same payment.
OneInvoicePerZap ==
  \A r, q \in Requests :
    reqPc[r] = "invoice" /\ reqPc[q] = "invoice" /\ reqEvent[r] = reqEvent[q]
      /\ reqEvent[r] # NoEvent => reqPay[r] = reqPay[q]

\* "The process lock proves that no prior worker can still own these claims":
\* one worker runs at a time, the row it has claimed stays in its claim, and past
\* its startup quarantine no other row is in one, unless a fault of the database
\* has cut it off from the row.
ClaimsHaveOneOwner ==
  \A w, v \in Workers :
    /\ stage[w] # "down" /\ stage[v] # "down" => w = v
    /\ stage[w] \in {"quoting", "delivering", "publishing"} =>
         status[job[w]] = CASE stage[w] = "quoting"    -> "WORKER_QUOTE_CREATING"
                            [] stage[w] = "delivering" -> "DELIVERING"
                            [] stage[w] = "publishing" -> "RECEIPT_PUBLISHING"
    /\ faults.db = 0 /\ stage[w] \notin {"down", "legacy", "quarantine"} =>
         \A i \in Payments :
           status[i] \in Claims =>
             job[w] = i /\ stage[w] \in {"quoting", "delivering", "publishing"}

\* What the operator closed stays closed, and what was delivered stays delivered:
\* no late result, retry, restart or legacy recovery revives such a row.
FinalRowsStay ==
  [][\A i \in Payments :
       status[i] = "DELIVERED" \/ i \in closed => status'[i] = status[i]]_status

\* The verdict on a payment, seen from outside.
Verdict(i) ==
  CASE status[i] \in Forwarded -> "delivered"
    [] status[i] = "DELIVERY_FAILED" -> "review"
    [] status[i] = "ABSENT" -> "void"
    [] status[i] = "FAILED" -> IF i \in closed THEN "closed" ELSE "void"
    [] OTHER -> "open"

Promise == INSTANCE PaymentPromise WITH
  verdict   <- [i \in Payments |-> Verdict(i)],
  invoiced  <- shown,
  dropped   <- {i \in Payments : quote[i] \in {"gone", "pruned"}},
  forwarded <- {i \in Payments : sent[i] > 0}

\* The whole system keeps the provider's promise.
KeepsPromise == Promise!Spec

-----------------------------------------------------------------------------
(* Liveness.  The worker process is scheduled, and restarted by its        *)
(* supervisor; elapsed deadlines are noticed; and an Acorn call on a paid  *)
(* quote does not fail for ever (reads of a quote's state fail at most     *)
(* MaxMintFaults times).                                                   *)
Fairness ==
  /\ \A w \in Workers : WF_vars(Start(w)) /\ WF_vars(Cycle(w)) /\ WF_vars(CooldownOver(w))
  /\ \A i \in Payments : WF_vars(DeadlinePasses(i))
  /\ \A w \in Workers, i \in Payments :
       SF_vars(CheckQuote(w) /\ job[w] = i /\ outcome'[w] \in {"paid", "notfound"})

FairSpec == Spec /\ Fairness

\* A payment the payer settled ends delivered or in front of the operator, across
\* crashes and restarts of the worker.
PaidIsResolved ==
  \A i \in Payments :
    i \in paid ~> status[i] \in {"DELIVERED", "RECEIPT_FAILED", "DELIVERY_FAILED", "FAILED"}

\* "A repeated callback for the same signed zap returns the existing invoice": no
\* callback is answered by an unhandled uniqueness error.
RepeatedZapIsAnswered == \A r \in Requests : reqPc[r] # "integrity"
=============================================================================
