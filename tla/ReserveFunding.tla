---------------------------- MODULE ReserveFunding ----------------------------
(***************************************************************************)
(* Funding of the service Acorn's operating reserve: one request at a time, *)
(* kept in one JSON file.  A web process writes a new request when the file *)
(* holds none that is open; the worker reads the file in every cycle, works *)
(* on the request (a quote, its checks, the credit) and writes it back.     *)
(* No lock covers the file: both sides rely on its status to take turns,    *)
(* and every write goes through the same temporary file.                    *)
(*                                                                         *)
(* A web handler does not await between its read and its replacement of the *)
(* file, so one web process is one writer; with SAFEBOX_WEB_WORKERS > 1     *)
(* there are several.  The pace of the checks (next_check_at) is time only. *)
(***************************************************************************)
EXTENDS Integers, FiniteSets

CONSTANTS
  Webs,          \* web processes
  Worker,        \* the process that holds the worker lock
  MaxRequests,   \* bound: requests written, numbered in order
  MaxQuotes,     \* bound: quotes of the mint
  MaxCrashes     \* bound: crashes of processes

ASSUME FundingAssumption ==
  Worker \notin Webs /\ MaxRequests \in Nat /\ MaxQuotes \in Nat /\ MaxCrashes \in Nat

Processes == Webs \cup {Worker}
Ids == 1..MaxRequests
Quotes == 1..MaxQuotes
Open == {"REQUESTED", "PENDING"}
Ended == {"CONFIRMED", "EXPIRED"}

\* What a file may hold; one that is no JSON reads as a FAILED request without id.
Text(i, s, q) == [id |-> i, status |-> s, quote |-> q]
Missing == Text(0, "missing", 0)
Empty   == Text(0, "empty", 0)
Torn    == Text(0, "torn", 0)

VARIABLES
  file, temp,        \* the request file and its temporary file
  pc, draft,         \* a process's step and the request in its hands
  handle,            \* where the file a process opened for writing is now
  timed,             \* the worker's timed_out
  asked,             \* number of requests accepted
  late,              \* requests past payment_timeout_seconds
  mint, owner,       \* state of each quote, the request it was made for
  crashes,
  shown, credited,   \* history: quotes shown to the operator, in the wallet's history
  refused,           \* history: quotes found unpaid by a check begun past the timeout
  ended,             \* history: requests that ended
  raced              \* history: two web processes had a new request in hand at once

fileVars  == <<file, temp, handle, ended>>
mintVars  == <<mint, owner>>
worldVars == <<late, shown>>
vars == <<fileVars, pc, draft, timed, asked, worldVars, mintVars, crashes,
          credited, refused, raced>>

Init ==
  /\ file = Missing /\ temp = Missing
  /\ pc = [p \in Processes |-> "idle"] /\ draft = [p \in Processes |-> Missing]
  /\ handle = [p \in Processes |-> "none"]
  /\ timed = FALSE /\ asked = 0 /\ late = {} /\ crashes = 0
  /\ mint = [q \in Quotes |-> "none"] /\ owner = [q \in Quotes |-> 0]
  /\ shown = {} /\ credited = {} /\ refused = {} /\ ended = {} /\ raced = FALSE

-----------------------------------------------------------------------------
(* _write_json_private: open and truncate, write and close, replace.       *)
Go(p, step, text) ==
  pc' = [pc EXCEPT ![p] = step] /\ draft' = [draft EXCEPT ![p] = text]

NoteEnd ==
  ended' = ended \cup {i \in Ids : file'.id = i /\ file'.status \in Ended}

OpenTemp(p) ==
  /\ pc[p] = "open" /\ Go(p, "write", draft[p])
  /\ temp' = Empty /\ handle' = [handle EXCEPT ![p] = "temp"]
  /\ UNCHANGED <<file, ended, timed, asked, worldVars, mintVars, crashes, credited,
                 refused, raced>>

\* Over the text of another writer, a text of another length leaves a rest behind.
Over(before, text) == IF before = Empty THEN {text} ELSE {text, Torn}

WriteText(p) ==
  /\ pc[p] = "write" /\ Go(p, "replace", draft[p])
  /\ handle' = [handle EXCEPT ![p] = "none"]
  /\ \/ handle[p] = "temp" /\ temp' \in Over(temp, draft[p]) /\ UNCHANGED file
     \/ handle[p] = "file" /\ file' \in Over(file, draft[p]) /\ UNCHANGED temp
     \/ handle[p] = "lost" /\ UNCHANGED <<file, temp>>
  /\ NoteEnd
  /\ UNCHANGED <<timed, asked, worldVars, mintVars, crashes, credited, refused, raced>>

\* A writer that finds the temporary file replaced raises.
Replace(p) ==
  /\ pc[p] = "replace" /\ Go(p, "idle", Missing)
  /\ \/ temp = Missing /\ UNCHANGED <<file, temp, handle>>
     \/ /\ temp # Missing /\ file' = temp /\ temp' = Missing
        /\ handle' = [r \in Processes |-> CASE handle[r] = "temp" -> "file"
                                            [] handle[r] = "file" -> "lost"
                                            [] OTHER              -> handle[r]]
  /\ NoteEnd
  /\ UNCHANGED <<timed, asked, worldVars, mintVars, crashes, credited, refused, raced>>

Writes(p) == OpenTemp(p) \/ WriteText(p) \/ Replace(p)

-----------------------------------------------------------------------------
(* The management requests.                                                *)
\* Mutant: only a request that has its invoice counts as open.
AcceptsEarly(text) == text.status # "PENDING"

Accepts(text) == text.status \notin Open

Post(w) ==
  /\ pc[w] = "idle" /\ Accepts(file) /\ asked < MaxRequests
  /\ asked' = asked + 1
  /\ Go(w, "open", Text(asked + 1, "REQUESTED", 0))
  /\ raced' = (raced \/ \E v \in Webs \ {w} : pc[v] \notin {"idle", "down"})
  /\ UNCHANGED <<fileVars, timed, worldVars, mintVars, crashes, credited, refused>>

\* Either handler answers with the invoice of the request in the file.
Show(w) ==
  /\ pc[w] = "idle" /\ file.quote # 0 /\ file.quote \notin shown
  /\ shown' = shown \cup {file.quote}
  /\ UNCHANGED <<fileVars, pc, draft, timed, asked, late, mintVars, crashes, credited,
                 refused, raced>>

-----------------------------------------------------------------------------
(* process_reserve_funding_once.                                           *)
\* Mutant: the timeout is tested before the quote is checked.
TimesOutUnchecked(text) == text.id \in late

TimesOut(text) == text.status = "REQUESTED" /\ text.id \in late

Poll ==
  /\ pc[Worker] = "idle" /\ file.status \in Open
  /\ timed' = (file.id \in late)
  /\ \/ TimesOut(file) /\ Go(Worker, "open", [file EXCEPT !.status = "EXPIRED"])
     \/ ~TimesOut(file) /\ file.status = "REQUESTED" /\ Go(Worker, "quoting", file)
     \/ ~TimesOut(file) /\ file.status = "PENDING" /\ Go(Worker, "checking", file)
  /\ UNCHANGED <<fileVars, asked, worldVars, mintVars, crashes, credited, refused, raced>>

Deposit ==
  LET i == draft[Worker].id IN
  /\ pc[Worker] = "quoting"
  /\ \E q \in Quotes :
       /\ mint[q] = "none" /\ (\A r \in Quotes : r < q => mint[r] # "none")
       /\ mint' = [mint EXCEPT ![q] = "open"] /\ owner' = [owner EXCEPT ![q] = i]
       /\ Go(Worker, "open", Text(i, "PENDING", q))
  /\ UNCHANGED <<fileVars, timed, asked, worldVars, crashes, credited, refused, raced>>

DepositRaises ==
  /\ pc[Worker] = "quoting" /\ Go(Worker, "idle", Missing)
  /\ UNCHANGED <<fileVars, timed, asked, worldVars, mintVars, crashes, credited, refused,
                 raced>>

\* Mutant: an unpaid request waits on, whatever the time.
AfterUnpaidWaits(text) == text

AfterUnpaid(text) == IF timed THEN [text EXCEPT !.status = "EXPIRED"] ELSE text

\* acorn.check_quote issues the ecash of a paid quote, and may fail before or after
\* it did.
Issues(q) == mint' = [mint EXCEPT ![q] = IF @ = "paid" THEN "issued" ELSE @]

CheckPaid ==
  LET q == draft[Worker].quote IN
  /\ pc[Worker] = "checking" /\ mint[q] \in {"paid", "issued"}
  /\ Issues(q) /\ Go(Worker, "crediting", draft[Worker])
  /\ UNCHANGED <<fileVars, timed, asked, worldVars, owner, crashes, credited, refused, raced>>

CheckUnpaid ==
  LET q == draft[Worker].quote IN
  /\ pc[Worker] = "checking"
  /\ Issues(q) \/ UNCHANGED mint
  /\ refused' = IF timed THEN refused \cup {q} ELSE refused
  /\ Go(Worker, "open", AfterUnpaid(draft[Worker]))
  /\ UNCHANGED <<fileVars, timed, asked, worldVars, owner, crashes, credited, raced>>

\* The except branch writes the request as it was read, and raises.
CheckRaises ==
  LET q == draft[Worker].quote IN
  /\ pc[Worker] = "checking"
  /\ Issues(q) \/ UNCHANGED mint
  /\ Go(Worker, "open", draft[Worker])
  /\ UNCHANGED <<fileVars, timed, asked, worldVars, owner, crashes, credited, refused, raced>>

Credit ==
  LET q == draft[Worker].quote IN
  /\ pc[Worker] = "crediting" /\ credited' = credited \cup {q}
  /\ Go(Worker, "open", [draft[Worker] EXCEPT !.status = "CONFIRMED"])
  /\ UNCHANGED <<fileVars, timed, asked, worldVars, mintVars, crashes, refused, raced>>

\* add_tx_history, or the snapshot after it, raises.
CreditRaises ==
  /\ pc[Worker] = "crediting" /\ Go(Worker, "idle", Missing)
  /\ credited' \in {credited, credited \cup {draft[Worker].quote}}
  /\ UNCHANGED <<fileVars, timed, asked, worldVars, mintVars, crashes, refused, raced>>

-----------------------------------------------------------------------------
(* Crashes, the payer and the clock.                                       *)
Crash(p) ==
  /\ pc[p] # "down" /\ crashes < MaxCrashes /\ crashes' = crashes + 1
  /\ Go(p, "down", Missing) /\ handle' = [handle EXCEPT ![p] = "none"]
  /\ UNCHANGED <<file, temp, ended, timed, asked, worldVars, mintVars, credited, refused,
                 raced>>

Restart(p) ==
  /\ pc[p] = "down" /\ Go(p, "idle", Missing)
  /\ UNCHANGED <<fileVars, timed, asked, worldVars, mintVars, crashes, credited, refused,
                 raced>>

Pay(q) ==
  /\ q \in shown /\ mint[q] = "open" /\ mint' = [mint EXCEPT ![q] = "paid"]
  /\ UNCHANGED <<fileVars, pc, draft, timed, asked, worldVars, owner, crashes, credited,
                 refused, raced>>

DeadlinePasses(i) ==
  /\ i <= asked /\ i \notin late /\ late' = late \cup {i}
  /\ UNCHANGED <<fileVars, pc, draft, timed, asked, shown, mintVars, crashes, credited,
                 refused, raced>>

Work == \/ Poll \/ Deposit \/ DepositRaises \/ CheckPaid \/ CheckUnpaid \/ CheckRaises
        \/ Credit \/ CreditRaises

Next ==
  \/ Work
  \/ \E p \in Processes : Writes(p) \/ Crash(p) \/ Restart(p)
  \/ \E w \in Webs : Post(w) \/ Show(w)
  \/ \E q \in Quotes : Pay(q)
  \/ \E i \in Ids : DeadlinePasses(i)

Spec == Init /\ [][Next]_vars

\* Processes are scheduled and restarted, time passes, and neither the checks of a
\* quote nor the credit of a paid one fail for ever.
Fairness ==
  /\ WF_vars(Work) /\ SF_vars(CheckPaid \/ CheckUnpaid) /\ SF_vars(Credit)
  /\ \A p \in Processes : WF_vars(Writes(p)) /\ WF_vars(Restart(p))
  /\ \A i \in Ids : WF_vars(DeadlinePasses(i))

FairSpec == Spec /\ Fairness

-----------------------------------------------------------------------------
\* An invoice the operator was shown stays the one request in the file, whole, until
\* its request ended: no late write of a handler, no half-written file and no retry
\* of the worker takes its place - as long as no two web processes created requests
\* at once (one process, the default, never does).
InvoiceStays ==
  raced \/ \A q \in shown :
             owner[q] \in ended \/ file = Text(owner[q], "PENDING", q)

\* A request is called confirmed only when its quote was issued and entered in the
\* wallet's history, and expired only when a check that began past the timeout found
\* its quote unpaid - also when web processes race for the file.
EndedRightly ==
  /\ file.status = "CONFIRMED" => mint[file.quote] = "issued" /\ file.quote \in credited
  /\ file.status = "EXPIRED" /\ file.quote # 0 => file.quote \in refused

\* No request holds the only slot for ever, whatever crashes, fails or races.
SlotIsFreed ==
  \A i \in Ids : file.id = i /\ file.status \in Open
                   ~> ~(file.id = i /\ file.status \in Open)
=============================================================================
