# Safebox Web: a TLA+ verification project

Safebox Web is a web application around *Acorns*: Cashu/Nostr wallets whose
proofs (bearer ecash) live on relays.  Three kinds of process matter here.

* **Web processes** (Uvicorn workers, `app/main.py`, `app/lnurl_pay.py`) serve
  pages and LNURL callbacks.  Several of them share one database.
* **One service-Acorn worker** (`app/service_acorn_worker.py`) owns the
  provider's Acorn and drains the queue of Lightning payments to claimed handles.
* **Browsers** run the scripts under `app/static`: NFC reader, camera, polling,
  and pages that are hidden, left and shown again.

The TLA+ modules beside this file model the parts in which value can be lost,
duplicated or stranded, access granted or a user misled, check them with TLC on small instances, and prove the
results that matter most with TLAPS for every instance.

## Inventory

| Component | State it keeps | Operations | What is hard |
|---|---|---|---|
| Provider payment queue (`provider_payments.py`) | `provider_payment`, `provider_zap` rows | enqueue, claim, transition by compare-and-swap, quarantine, legacy recovery, one pass of five stages | effects outside the database (mint, recipient) before the row is updated; crashes between the two; retries |
| LNURL callbacks, zaps (`lnurl_pay.py`, `zap_handler.py`) | the row they inserted | look the zap up, insert, ask the mint, wait | concurrent callbacks with one zap, time-outs, a web process that dies |
| Worker loop (`service_acorn_worker.py`) | the flock, the Acorn, the mint cooldowns | start, recover, cycle, stop | two processes, failed cycles, restart |
| Operator intervention (`operator_payments.py`) | `provider_payment_intervention` | close a payment under review | races with the worker |
| Wallet jobs (`funds_finalization.py`, `clear_acceptance.py`, `clear_receive.py`, `outgoing_payment.py`, `deposit_finalization.py`, `worker_liveness.py`, `clear_request_monitor.py`) | one row per wallet and kind: status, owner token, owner process, lease; worker heartbeats | check the other kinds, claim, run in a thread, report | proofs of one wallet mutated by two threads, heartbeats and leases, shutdown |
| Service-Acorn lifecycle (`service_acorn.py`) | recovery file with the wallet's key and endpoints | create, recover, migrate, retire, each under the worker lock | a crash or failure between file and relay, two commands at once |
| Reserve funding (`service_acorn_worker.py`, `main.py`) | the request file and its temporary file | request, show, poll, check, credit | read, work, write back between processes without a lock |
| NFC cards and login (`nfc_cards.py`, `nfc_login.py`) | card policy with a revision, login challenges | prepare, read back, activate, revoke; open a login, authorize | stale pages, two logins at once, counting PIN attempts, single use |
| Browser scripts (`static/*.js`) | flags of a page, its scanners, readers and forms | operate a card, scan, poll, open a pane or a document, submit | late promises, events and timers; pages hidden, frozen and restored |
| Service identity (`identity.py`) | identity sentinel | bind | first-start race |
| Claimed handles (`main.py`) | `claimed_handle` | claim, default, remove | two uniqueness constraints, two processes |
| Everything else | caches, templates, configuration | records, messages, OpenETR, GS1, rates, diagnostics | formatting and reads |

Interactions: callbacks insert rows that the worker claims; worker and operator
meet in compare-and-swap updates; wallet jobs of different kinds exclude each
other only by reading each other's rows; a process's liveness is what its
heartbeat row says; web processes and worker pass the reserve-funding request to
each other in a file whose status says whose turn it is; pages hold policies,
challenges and invoices that may be old when they are submitted.  `PROJECT.json` lists the components and the hazards with
the line at which each bites.

## Modules

| Module | Models |
|---|---|
| `PaymentPromise` | what the provider promises about a payment, abstractly |
| `ProviderPayments` | queue, callbacks, worker, operator, mint and recipient |
| `MCProviderPayments` | symmetry for its safety run |
| `ProviderPayments_proofs` | types, claims, one transfer: three theorems |
| `PaymentFlow_proofs` | the other safety properties and the refinement of `PaymentPromise`: seven theorems |
| `WalletJobs`, `MCWalletJobs` | wallet jobs, leases, heartbeats, shutdown, the Clear request monitor; symmetry |
| `WalletJobs_proofs` | inductive invariants, seven theorems |
| `ServiceAcorn`, `MCServiceAcorn` | recovery file, wallets on relays, the commands of the worker; symmetry |
| `ServiceAcorn_proofs` | inductive invariants, four theorems |
| `ReserveFunding` | the reserve-funding request, its file, web processes and worker |
| `ReserveFunding_proofs` | inductive invariant, two theorems |
| `CardPromise` | what login with a card promises the wallet's owner, abstractly |
| `NfcCards`, `MCNfcCards` | card policy, owner's pages, login challenges and submissions; symmetry |
| `NfcCards_proofs` | inductive invariant, three theorems, among them the refinement |
| `PageLife` | one page in one tab: shown, hidden, cached, gone; what it submits |
| `CardScripts` | `nfc-card.js`, `nfc-issuance.js` |
| `ScanScripts` | `lightning-scan.js`, `login-qr.js` over the QrScanner library |
| `PanelScripts` | `deposit-status.js`, `check-pane.js`, `pdf-viewer.js`, `forms.js` |
| `BrowserPage` | composes the four: a page with the scripts its template loads |
| `BrowserPage_proofs` | four inductive invariants, five theorems |
| `BrowserScan_proofs` | scanners, document viewer, types: two inductive invariants, four theorems |

### ProviderPayments

*State.*  A payment is its row id; each column the properties need is a function
on ids (`status`, `zapEvent`, `attempts`, `deliveryAttempts`, `nextCheck`,
`hasEventId`).  `legacyError` is "error = Invoice settlement timed out", `closed`
the rows with an audit record of the operator.  `quote`, `paid`, `sent` and
`receipts` are facts of the world outside: what the mint knows about the row's
quote, whether the payer settled it, how often ecash left for the recipient and
how often a receipt reached a relay.  `lock`, `stage`, `job`, `outcome`, `seen`
and `cooling` are the worker's memory: its place in
`process_provider_payments_once`, the row in hand, and what an awaited call
returned that the database does not know yet.  `reqPc`, `reqPay`, `reqEvent` and
`shown` belong to the callbacks.

*Steps.*  One database statement with its commit is one step (`CAS` is
`transition_provider_payment`); every external call is a step of its own, and its
result is committed by a later step, so a crash (`Crash`), a raising statement
(`CycleFails`, `RecordDeliveryRaises`), another process or the operator can come
between.  An external call may take effect and fail all the same (`CheckQuote`,
`SendEcash`, `PublishReceipt`).

*Abstractions.*  `nextCheck` is `null`, `due` or `later`: no property compares two
deadlines, so the order of elapsed deadlines is left open in `Candidates` and
`Batches` (NULL first, then by id, is kept).  The code's `attempts` counts on for
ever; nothing compares it with more than its maximum, so `Bump` stops there.  The
mint is honest: it answers "quote not found" only for a quote it dropped.  A mint
that says so of a quote it still has makes the code give up what was paid
(`_is_quote_not_found_error` looks at the text of the error alone); no property here
would notice.
  All rows are at one mint, whose
cooldown is `cooling`; it is written to the rows' deadlines, so a polled row does
not become due while it lasts.  Amounts, invoices and event contents are left out.

*Abstract specification.*  `PaymentPromise` has five verdicts per payment.
`Promise` maps the row's status to a verdict and `KeepsPromise` states that every
step of the queue is a step, or a stutter, of the promise: forwarding happens
once, only after payment and while the verdict is open; a paid payment is given
up only if its quote was dropped; only the operator closes a reviewed one.

### WalletJobs

*State.*  One wallet, and for each of the five kinds of job its row: `status`,
`token` (the job whose `owner_token` it holds), `owner` (`owner_worker_id`) and
`leaseOver` (`lease_expires_at` has passed, which counts only for a row without
an owner).  `proc` and `beat` are the web processes and their heartbeat rows,
`asking` and `checked` the request handler a process is in and how many rows of
other kinds it has read.  A job is a number: `what` it does, its `home` process
and its `pc`.  `accepted` counts the transfers accepted for the one monitored
Clear request.  `late` is observed only, no action reads it: the jobs whose claim
came after a row their handler had already checked became RUNNING.

*Steps.*  The handlers run in the event loop and do not await between their first
check and their claim, so a process is in one of them at a time; every read and
the claim are transactions of their own, so another *process* can come between.
The insert and the conditional update of `claim_*_job` are one step (`Lease`),
since a lost insert falls through to the update.  Threads are those of one pool
per process, first in, first out; a monitor occupies a thread from its start to
its end and shares its rows with nobody.  A job whose report raises is over, but the
loop of a monitor catches the error and goes on watching (`Unreported`).  The five kinds differ in what they check,
whether they heed a lost lease (`Enter`, `SelfCancelling`: an outgoing payment and
a deposit do not), and with which results they end.

*Abstractions.*  Wallet operations are external: `working` stands for all the
time in which they may change proofs.  Their locks on relays are not modelled:
`docs/CONCURRENCY-AND-JOB-COORDINATION.md` says the application should not rely on
them.  Receipts on relays are taken to be current when they are read.

### ServiceAcorn

*State.*  `file` is the recovery file (key, endpoint, `initialized`) or `NoFile`;
`relay` says of the wallet of each key whether it was never made, is present or
burned; `funded` are the wallets that hold proofs; `lock` is the flock.  A process
runs one command (`cmd`) with its settings (`conf`) and has in its memory the
`acorn` it started and, in a migration, the key of its `successor`.

*Steps.*  Every Acorn call and every write of the file is a step of its own, so a
crash or another process can come between.  A write raises before or after
`os.replace`, an Acorn call before or after its effect (`WriteRaises`,
`CallRaises`), and `faults.handover` counts those between the burn of a migrated
wallet and the write of its successor's key; the process then ends, or, inside the migration's `try`, goes on
with the Acorn it recovered (`Abandon`) and creates and loads it if that is still
to do.  The commands other than `run` look for the file before the lock (`Launch`,
`TakeLock`).

*Abstractions.*  An endpoint stands for relay and mint; `Invalid` for settings
that the normalisation rejects.  `load_data` succeeds on a present wallet and on
no other, or raises.  Keys are numbers in the order of their making.  The payment
queue of the running worker is `Work`, which funds or empties the wallet
(`ProviderPayments` has its detail); identities, snapshots and claims that
`_run_worker_locked` writes before its loop can only raise here.  A recovery
file that is unreadable or has endpoints that are no longer allowed is left out:
the start raises and changes nothing.

### ReserveFunding

*State.*  `file` and `temp` are the request file and the one temporary file that
all writers share; a text is a request's id, status and quote, or no JSON (`Empty`,
`Torn`), which reads as a FAILED request without id.  `pc` and `draft` are a
process's step and the request in its hands, `handle` says where the file it
opened for writing is now: a replacement by another process can move the temporary
file under an open handle to the request file's name, or out of reach.  `raced`
records that two web processes had new requests in hand at once.

*Steps.*  Open, write and replace are steps of their own, as are the worker's
`deposit`, `check_quote` and `add_tx_history`; each may raise, before or after its
effect.  A web handler does not await between read and replacement, so one process
is one writer.  The branches for a request without amount or quote are left out:
the handler validates the amount, and the worker writes PENDING with a quote.
`next_check_at` only spaces the checks and is left to time.

### NfcCards

*State.*  The row of `NfcCardPolicy` (`revision`, `active`, `pending`, `failures`),
the `NfcLoginChallenge` rows (`chal`), what the owner's tabs show (`page`, `form`)
and do (`at`, `card`, `seen`), and the logins in the hands of web processes.  A
card stands for its generation, which is encrypted once; copies of it, good or
superseded, can be read at any time.

*Steps.*  Each transaction is a step.  Preparing reads the policy, hands out a card
and writes in other transactions; activation tests the policy and updates it by
compare and swap on its revision; authorization reads the policy, compares the PIN
and counts the failure or resets the count in a conditional update.  A login
challenge goes from open to the card that was read to gone.

*Abstract specification.*  `CardPromise`: one card is valid at most, a replaced or
revoked one never again, wrong PINs take from a fixed number of attempts, a
challenge opens one session at most.  `KeepsPromise` is the refinement.

### PageLife, CardScripts, ScanScripts, PanelScripts, BrowserPage

*State.*  A page is one of the templates with scripts.  The browser may hide it,
keep it frozen in its back/forward cache, show it again or drop it (`life`).
`CardScripts` numbers the operations of the NFC reader; each has its controller,
the browser's promise and the events queued for it.  `ScanScripts` has a record per
scanner of the library, with the permission requests it waits for, the delayed
release of its camera, the `play()` of a stream it attached and frames being decoded,
and the streams on the one `<video>`.
`PanelScripts` has one record per script.

*Steps.*  A handler, timer, event or settled promise is one step, as the browser
runs them.  Which scripts a page has is read from its template; the forms' submit
events reach every script that listens for them (`CardReads`, `TypesCode`).
Pages that were frozen run nothing until they are shown.

The run reaches states that are unpleasant but that no document of the
repository excludes, so no property claims the opposite: a restart within 300 ms
of a stop loses the camera stream on the login page; hiding and showing a payment
page while the permission is asked leaves a stream nobody holds; a camera that was
granted and whose `play()` is then refused stays on, since the library is inactive
when `login-qr.js` destroys it, until the next start or until the page is left
(`video.refused`, which `CameraGoesOff` excludes by name); a code decoded
when Stop was pressed is still submitted; `deposit-status.js` and `login-qr.js`
keep `stopped` and `submitted` over a return from the cache; a failed rendering of
a document leaves the label of the page before, under it a cleared canvas or a part of
the page that failed (pdf.js draws on the visible canvas); the evidence pane's fetch has no
time limit.

## Runs

| Run | Question | Result |
|---|---|---|
| `provider_queue` | can two callbacks, two workers, a crash, a failing statement and a failing mint read forward a payment twice, unfunded, or announce it too early? | no |
| `provider_recovery` | with a row of the old time-out, a mint that drops quotes and a crash, is anything paid given up, or anything final revived, is the promise kept, and does everything paid reach a final state or the operator? | it holds |
| `zap_race` | is a repeated zap always answered with the existing invoice? | no: finding |
| `wallet_pair` | with two processes, one of which may stall, monitors and a user who finalizes, accepts and pays too: is all work covered by a visible lease while heartbeats are fresh, do jobs of the handlers compete only after a late claim, does a monitor accept once, and do late reports leave other jobs' rows alone? | yes |
| `wallet_handlers` | with two processes, does each kind of job refuse to start while another is running? | no: finding |
| `wallet_liveness` | is every RUNNING row reported or recovered? | yes |
| `wallet_monitor` | does the monitor's acceptance keep clear of finalization? | no: finding |
| `service_lifecycle` | with migrations, a crash and failing calls, do funds stay under the key of the recovery file, unless a handover fails, and does a key leave it only burned and empty? | yes |
| `service_abandon` | does the worker go on with the persisted wallet when a handover fails? | no: finding |
| `reserve_funding` | with two web processes and the worker on one file, does a shown invoice stay in it, does a request end for the right reason, and does none hold the slot for ever? | yes; the first as long as web processes do not create requests at once |
| `nfc_cards` | with two tabs of the owner, two logins at a time and copies of all cards, do owners change what they see and does login keep `CardPromise`? | yes |
| `browser_pages` | on any page, hidden, left and shown again, do late answers leave the user's last operation alone, are submissions bounded by what the user began, and do polling, operations and the camera, unless its play was refused, end? | yes |

Bounds of `ProviderPayments`.  Two rows are enough for one row to be handled while another is claimed,
closed or recovered, and for two callbacks to race for one zap; two workers for
the lock; `MaxSettlementAttempts = 2` and `DeliveryRetryAttempts = 2` give the
first, the last and the exceeding attempt; one crash, one raising statement and
one failing read can each come at any step.  `BatchSize = 1` makes a batch smaller
than the set of due rows in `provider_queue`; `provider_recovery`, which checks
liveness, has a batch that holds all rows, as the code's 64 does with two, and one
worker, whose lock the other run is about.  Symmetry (callbacks, workers) is used
only in the run that checks invariants alone.

Bounds of `WalletJobs`.  Two process lifetimes give a pair of Uvicorn workers
(`MaxUp = 2`) or a restart; two jobs give a holder and one that takes over, one of
another kind, or a second monitor; one thread makes jobs queue, two let
them overlap in one process; one crash, stall or failing statement can come at any
step, in any order.  `wallet_pair` has the monitor's kind and two that check it and
each other; a receive is checked and claimed in the same way, and heeds a lost lease
as an acceptance does.  `wallet_pair` has two jobs: its properties
relate two, and all of them are proved for any number.  Deadlock is not checked: with
all processes gone and all job numbers used nothing is left to do.  The properties
about leases are conditional on `Fresh`, no heartbeat of a living process having gone
stale; the
stall in `wallet_pair` shows what remains of the rows without it (`ResultIsOwn`).

Bounds of `ServiceAcorn`.  Two processes are enough for one to hold the lock while
the other has looked for the file; two endpoints for a migration and back; three
keys for a wallet, its successor and either a second migration or a second life
after a retirement; one crash, one failure and one failing handover can come at
any step, in any order, so a recovery that fails itself is covered.  Deadlock is not
checked: when all keys are used a process with none stops.  Symmetry (processes,
endpoints) is sound for these runs, which check safety only.

Bounds of `ReserveFunding`.  Two web processes give the race and, one at a time,
the turns; two requests a new one after one that ended; three quotes one that is
lost with its worker and one for each request; one crash can hit any process at
any step.  Deadlock is not checked: with all requests ended, and all numbers used,
nothing is left to do.

Bounds of `NfcCards`.  Two cards give a card and the one that replaces it, two
tabs a stale page, one browser with two challenges a second login page, two
requests a login submitted twice or two logins at once; `ATTEMPTS = 1` makes every
failure the last one; four revisions are prepare, activate, prepare and activate or
revoke.  Deadlock is not checked: revisions and challenges are used up.

Bounds of `BrowserPage`.  Two departures give one that is undone and one that is
not; two operations, scanners and starts an earlier and a later one, and on the login
page, which has both, three of card and camera together; two typed forms one that is
submitted again after a return; one queued
event and one frame in flight per place where they can come
late; three pages have a first, a middle and a last one.  Deadlock is not checked: a
page that is gone does nothing.

Fairness of `ProviderPayments` (`FairSpec`).  The worker is started and restarted by its supervisor and
its loop never blocks: weak fairness of its start and of its cycle.  Deadlines and
cooldowns end: weak fairness of `DeadlinePasses` and `CooldownOver`.  A mint call
on a paid quote does not fail for ever: strong fairness of a `CheckQuote` that
answers, with the ecash or with "not found".  Nothing is assumed of callbacks, payers, the recipient, the
operator or of crashes.  Raising statements are excluded from this run: a claim
whose statement raised stays where it is until the next start, which nothing
forces to happen.

Fairness of `WalletJobs`.  Threads are scheduled and wallet operations end, by a
time-out of the jobs or of the Acorn library (weak fairness of `Thread`); a
monitor's deadline holds from some moment on, whichever turn of its loop finds it
(strong fairness of `MonitorDeadline`, which only the head of the loop enables); a
shutdown goes on when its pool is idle; a heartbeat that nobody writes goes
stale, an unowned lease expires.  Nothing is assumed of requests, starts, stops
and crashes.  Failing statements are excluded, see the hazard about reports.

Fairness of `ReserveFunding`.  The worker's loop and the processes' writes go on,
processes are restarted and time passes (weak fairness); a check of a quote that is
tried again and again is answered some day, and so is a credit (strong fairness).
Nothing is assumed of `deposit`, which may fail for ever, of payers, of requests.

Fairness of `BrowserPage`.  A browser runs the timers of a page it does not freeze,
and a fetch with a time limit answers or fails (weak fairness).  Nothing is assumed
of the user, of the permissions they are asked for, of cards and codes, or of the
evidence pane, whose fetch has no time limit.

## Findings

* `zap_race`: `handle_zap_invoice_request` looks the event up and inserts it in two
  transactions.  The later of two concurrent callbacks meets the uniqueness
  constraint; `lnurl_pay_callback` does not handle that error.
  `docs/CONCURRENCY-AND-JOB-COORDINATION.md` (312-314) says that a repeated
  request returns the existing provider invoice.  No second invoice is made
  (`OneInvoicePerZap` holds): the caller gets a server error.
* `wallet_handlers`: the handlers read the rows of the other kinds and claim their own
  row afterwards, in another transaction.  With two web processes, the deployment of
  `docs/CONCURRENCY-AND-JOB-COORDINATION.md` (42-45), a payment and a finalization
  both pass and both run on one wallet; the same document (373-375) says that the kinds
  "refuse to start while one of the other two is running".  What does hold is
  `OnlyLateClaimsCompete`: only a claim that comes later than such a change overlaps.
* `wallet_monitor`: the Clear request monitor checks only the outgoing payment
  before it claims the acceptance row, so its acceptance runs beside finalization.
* `service_abandon`: `docs/SERVICE-ACORN-LIFECYCLE.md` (216-218) says that if
  burning or the local state update fails the worker continues with the persisted
  service Acorn.  The old wallet is burned before the file is written, so when the
  write (or a burn that took effect) raises, the worker goes on with a wallet that
  is burned on its relay.  The old wallet is empty at that point
  (`KeyLeavesBurned`), but what the worker receives from then on is at risk.

## Theorems

`ProviderPayments_proofs` proves, from `ConstantsAssumption` alone (bounds are
natural numbers, the null values are not members of their sets):

* `TypeCorrect`: `Spec => []TypeOK`, the types with `RowsInHand`: a
  worker at a working stage has a row in hand, and a callback that waits has one;
  without that the functions could be applied outside their domain.
* `ClaimsAreOwned`: `Spec => []ClaimsHaveOneOwner`, by `OwnerInv`: a process that
  is not down holds the lock, so only one worker can be past its start, and the
  claim it took is still in the row.  No other actor's compare-and-swap expects a
  claimed status, and the quarantine runs only while the worker that runs it has
  no row in hand.
  That no *other* row is in a claim past the quarantine takes a second invariant,
  `ClaimInv`, which holds until a statement of the database raises: only then can
  a worker that lives on walk away from a row it has claimed, and only the next
  start releases it.
* `TransferredOnce`: `Spec => []AtMostOneTransfer`, by `TransferInv`: a row in a
  status from which delivery is still reachable has not been sent, unless it is
  `DELIVERING` under a worker that has the result in hand.  `DELIVERING` rows of
  a dead worker may have been sent, and are led only to `DELIVERY_FAILED`.

`PaymentFlow_proofs` proves the remaining safety of the queue, from the same
assumption, on top of these invariants and of `OutcomeInv` (a result is remembered
only while the stage that made it lasts):

* `EcashIsFunded`: `[]TransferIsFunded`, by `QuoteInv`: the status of a row says
  what the mint can know of its quote (`Fits`), and a status from which ecash can
  leave has an issued one.
* `PaidStaysOpen`: `[]PaidIsNeverDropped`, by `QuoteInv` with `ToldInv`: what a
  worker was told about a quote before it lost sight of it is still so, hence a late
  "not found" is not a wrong one.
* `FinalIsFinal`: `FinalRowsStay`, step by step: no compare and swap expects a
  final status, and the legacy recovery takes only rows the operator has not closed.
* `RetriesAreBounded`: `[]RetriesAreSafe`, by `TriesInv`: a row that may still be
  delivered has a try left.
* `ReceiptsAreEarned`: `[]ReceiptFollowsDelivery`, by `ReceiptInv`, which ties
  receipts to transfers and a publishing worker to a row without receipt.
* `ZapHasOneInvoice`: `[]OneInvoicePerZap`, by `ZapInv`: an event has one row, and
  a callback that works for it works on that row.
* `QueueKeepsPromise`: `Spec => KeepsPromise`.  The initial states map to initial
  states, and each action, under `FlowInv` (the invariants above and `ShownInv`: a
  row failed by the former time-out had its invoice handed out), to a step of
  `PaymentPromise` or a stutter.

`WalletJobs_proofs` proves, from `WalletAssumption` (bounds are natural numbers,
the kinds are those of the code, `NoProcess` is no process):

* `WalletTypeCorrect`: `Spec => []TypeOK`, by `TypeInv`: a row's token is a submitted
  job of the row's kind, whose home is the row's owner, and only monitors take the
  turns of the monitor's loop.
* `ResultsAreOwn`: `Spec => []ResultIsOwn`, without further assumptions: a report
  changes only the row whose token is the reporter's own, and a job that
  holds a finished row does not go back to work.

* `WorkIsLeased`: `Spec => []WorkIsVisible`, for runs with any stalls; what it says
  is conditional on `Fresh`.  By `LeaseInv`: while heartbeats are fresh the home of a
  queued or active job is alive (`UpInv`, by the wait of the shutdown), its heartbeat
  is fresh (`BeatInv`), and a job between its claim and its last report holds its row,
  which says RUNNING (`HoldInv`).  A claim takes a row only if it is not seen
  RUNNING, so never from such a job.  Without fresh heartbeats its rows can be claimed
  while its jobs work, and of those an outgoing payment and a deposit do not heed that
  they lost their lease.
* `OneJobPerLease`: `Spec => []OneMutationPerLease`, from the same invariant.
* `MonitorsAcceptOnce`: `Spec => MonitorAcceptsFirst`, by `FirstInv` (while a monitor
  is about to accept, nothing was accepted), of which every step is shown under fresh
  heartbeats: a monitor comes to work by its recheck, which found nothing accepted
  (`MonitorRechecks`), and from then on only a job at work on acceptance accepts
  (`OnlyAcceptors`), which would hold the same row, hence be the monitor itself.
* `RunningRowsAreAttended`: `Spec => []RunningIsAttended`, the converse of
  `WorkIsVisible` and the safety half of `RunningIsResolved`: until a statement has
  raised, behind a row that says RUNNING and whose process is up there is a job between
  its claim and its last report, whatever stalled.  Each end of a job either reports,
  and then the row is not RUNNING, or follows from a lost lease, and then the row is
  another job's.  `StartedInv` says that a process which has jobs was started.  After
  a statement has raised this is not so: a job whose last report raises leaves its row
  RUNNING as long as its process lives.
* `OnlyLateJobsCompete`: `Spec => []OnlyLateClaimsCompete`, for any number of
  processes, with monitors, crashes and failing statements, by `RivalInv`: of two jobs
  of competing handlers that are queued or at work one is in `late`.  Each of the four
  kinds checks the other three (`ChecksAreComplete`), and while heartbeats are fresh a
  job between its claim and its end holds a RUNNING row (`LeaseInv`), so the second
  claim finds the first one's row RUNNING and is a late one.  `wallet_handlers` shows
  that late claims happen, `wallet_monitor` that monitors are rightly left out.

`ServiceAcorn_proofs` proves, from `ServiceAssumption` and `FileAssumption`
(bounds are natural numbers, the null values are not members of their sets):

* `ServiceTypeCorrect`: `Spec => []TypeOK`, which says that a process at a locked
  place has the lock, that it has an Acorn in hand from its start on, and a
  successor exactly while it verifies, burns or writes.
* `KeysLeaveBurned`: `Spec => KeyLeavesBurned`, by `HandInv`: the Acorn in hand is
  that of the file, unless an abandoned migration left one that is burned, and
  where the file is about to change that wallet is burned and empty.  Only the
  process with the lock acts, so each step minds its own hand (`OwnHand`).

* `FundsStayReachable`, `WorkStaysPersisted`: `Spec` implies `[]FundsAreReachable`
  and `[]WorkIsPersisted`, by `SafeInv`: as long as no handover has failed, funds
  are only in the wallet on file (`FundsOnFile`), a process works on that wallet,
  which is on its relay from the time it was loaded, and a successor is on its relay
  before the old wallet is burned (`HeldInv`).  The successor is another wallet
  than the burned one since its key is fresh (`RangeInv`), and the burned one is
  empty when the file turns to the successor (`HandInv`).

`ReserveFunding_proofs` proves, from `FundingAssumption` (bounds are natural
numbers, the worker is no web process):

* `InvoicesStay`: `Spec => []InvoiceStays`, by `TurnsInv`: as long as web processes
  have not raced, one of them has a request in hand only while the file holds no open
  one, the worker only while it does, and what it holds is the request in the file;
  so whoever writes is alone, and finds in the temporary file what it left there.
* `RequestsEndRightly`: `Spec => []EndedRightly`, races included, by `TextsInv`:
  every text in a file or in a process's hands is well made, and files only receive
  texts in use or ones that are no JSON.

`NfcCards_proofs` proves, from `CardAssumption` (the null values are no cards, at
least one attempt):

* `CardsTypeCorrect`: `Spec => []TypeOK`, with the count of failures bounded.
* `OwnersSeeTheirChange`: `Spec => OwnersSeeWhatTheyChange`, by `ViewInv` and
  `FormInv`: a page that shows the current revision shows the current policy.
* `CardsKeepPromise`: `Spec => KeepsPromise`, by `FreshInv` (cards that wait for
  activation were never active) and `LoginInv` (a login in the hands of a process is
  alone with its challenge, which has opened no session).

`BrowserPage_proofs` and `BrowserScan_proofs` prove, from `LifeAssumption`,
`CardAssumption`, `ScanAssumption` and `PanelAssumption` (bounds are natural numbers,
a page with a camera may start it at least once, a document has a page):

* `StatusBelongs`, `ReadsAreCurrent`: `[]StatusIsOfLast` and `SubmitsCurrentReads`,
  by `CardInv`, which adds that nothing is in progress on a page that is not in front.
* `StartsBoundSubmits`: `[]OneSubmitPerStart`, by `ScanInv`: while no code has been
  accepted since the last start, fewer codes than starts were submitted.
* `EvidenceIsKept`: `[]EvidenceStays`, by `PaneInv`: a request is in flight exactly
  while the pane is loading, and a loaded pane is not loading.
* `FormsAreRestored`: `ReturnRestoresForm`, by `FormInv`: a form under another label
  is off and has its own label saved.
* `QrSubmitsOnce`, `ScannerStaysInReach`: `[]QrSubmitsFirst` and `[]ScannerIsInReach`,
  by `CamInv`.  Its part for the login page (`QrInv`) says that a submission, whoever
  made it, has ended the operation, and that only the scanner of the operation is on:
  the end of an operation turns its own off, and no answer that comes late turns a
  scanner on again.  Its part for the payment page (`ReachInv`) says that a
  start which left both buttons off is still waited for.
* `ViewerIsInPlace`: `[]ViewerKeepsItsPlace`, by `ViewerInv`: a page that an open
  document shows completely is its current page also while another one is rendered; a
  page that fails may leave the canvas cleared or a part of itself on it, and nothing
  to put right but the buttons.
* `BrowserTypeCorrect`: `Spec => []TypeOK`, from these invariants and `TabInv`.

Every safety and every action property of the passing runs is proved.  Only
model-checked are the liveness properties (the prover does not handle fairness):
`PaidIsResolved`, `RunningIsResolved`, `SlotIsFreed`, `PollingEnds`, `OperationsEnd` and
`CameraGoesOff`; and the four statements that the code violates.

## Not modelled

* *Vendored code.*  `static/pdf.mjs` and `static/pdf.worker.mjs` are the
  distribution of pdf.js, 87 of the 88 thousand lines of JavaScript; `PanelScripts`
  models what `pdf-viewer.js` sees of them.  Of QrScanner the part that the scripts
  use is in `ScanScripts`.
* *Theme and sharing warning* (`theme.js`, `record-share.js`): a preference in a
  cookie and a warning on leaving a page; no step of theirs meets another.
* *Service identity* (`identity.py`): a sentinel file made once with `O_EXCL`; the
  hazard of its first start by two processes is listed and ends in a refused start.
* *Claimed handles* (`main.py`): a row per name and per wallet; two requests that
  pass their reads together are decided by the uniqueness constraints, whose error
  the handlers catch.
* *Settlement discovery* (`provider_payments.py`): several mints, the order by
  `next_check_at`, priorities and backoff times.  Deadlines are elapsed or not in
  `ProviderPayments`, so starvation of a row behind others is out of its reach.
* *Request limits* of NFC logins and of the web application, and all stateless
  checks of requests: a refused request is one that does not happen.
* *Reserve snapshot and the `fund` command*: a file that is only displayed, and a
  deposit that keeps no state of its own.
* *Reads and formats*: diagnostics, messages, rates, OpenETR, GS1, localisation.

## What could come next

`SettlementDiscovery` with ordered deadlines, several mints and starvation, and the
identity sentinel.  Both would be modules of their own beside the ones here.
