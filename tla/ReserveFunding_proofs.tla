------------------------ MODULE ReserveFunding_proofs -------------------------
(***************************************************************************)
(* Proofs about ReserveFunding, for any number of web processes, requests, *)
(* quotes and crashes: invoices that were shown stay in the file, and      *)
(* requests end for the right reason.                                      *)
(*                                                                         *)
(* The inductive invariant: every text in use is well made, whoever holds  *)
(* it (TextsInv); what a process holds fits its step (StepsInv); and until *)
(* web processes race, the file's status says whose turn it is (TurnsInv). *)
(***************************************************************************)
EXTENDS ReserveFunding, TLAPS

Statuses == {"missing", "empty", "torn"} \cup Open \cup Ended
Texts == [id : 0..MaxRequests, status : Statuses, quote : 0..MaxQuotes]
Writing == {"open", "write", "replace"}
Working == {"quoting", "checking", "crediting"} \cup Writing

FundingTypes ==
  /\ file \in Texts /\ temp \in Texts /\ draft \in [Processes -> Texts]
  /\ pc \in [Processes -> {"idle", "down"} \cup Working]
  /\ handle \in [Processes -> {"none", "temp", "file", "lost"}]
  /\ timed \in BOOLEAN /\ raced \in BOOLEAN
  /\ asked \in 0..MaxRequests /\ late \in SUBSET Ids /\ ended \in SUBSET Ids
  /\ mint \in [Quotes -> {"none", "open", "paid", "issued"}]
  /\ owner \in [Quotes -> 0..MaxRequests]
  /\ crashes \in Nat
  /\ shown \in SUBSET Quotes /\ credited \in SUBSET Quotes /\ refused \in SUBSET Quotes

\* What is true of every text in a file or in a process's hands.
WellMade(t) ==
  /\ t.status \in Open \cup Ended => t.id \in Ids
  /\ t.status = "REQUESTED" => t.quote = 0
  /\ t.status \in {"PENDING", "CONFIRMED"} => t.quote # 0
  /\ t.quote # 0 => /\ t.status \in {"PENDING"} \cup Ended
                    /\ mint[t.quote] # "none" /\ owner[t.quote] = t.id
  /\ t.status = "CONFIRMED" => mint[t.quote] = "issued" /\ t.quote \in credited
  /\ t.status = "EXPIRED" /\ t.quote # 0 => t.quote \in refused

InUse(t) == t = file \/ t = temp \/ \E p \in Processes : t = draft[p]

TextsInv == \A t \in Texts : InUse(t) => WellMade(t)

\* What a process has in its hands at each of its steps.
StepsInv ==
  /\ \A w \in Webs : /\ pc[w] \in {"idle", "down"} \cup Writing
                     /\ pc[w] \in Writing => draft[w].status = "REQUESTED"
  /\ pc[Worker] = "quoting" => draft[Worker].status = "REQUESTED"
  /\ pc[Worker] \in {"checking", "crediting"} => draft[Worker].status = "PENDING"
  /\ pc[Worker] = "crediting" => mint[draft[Worker].quote] = "issued"
  /\ pc[Worker] \in Writing => draft[Worker].status \in {"PENDING"} \cup Ended
  /\ \A p \in Processes : handle[p] # "none" => pc[p] = "write"

\* Without a race the status gives the file to one process at a time: to one web
\* process while it is not open, to the worker while it is.
OneWeb == \A v, w \in Webs : pc[v] \in Writing /\ pc[w] \in Writing => v = w

WebTurn == \A w \in Webs : pc[w] \in Writing => file.status \notin Open

WorkerTurn ==
  pc[Worker] \in Working =>
    /\ file.status \in Open /\ draft[Worker].id = file.id
    /\ file.status = "PENDING" => /\ draft[Worker].quote = file.quote
                                  /\ draft[Worker].status # "REQUESTED"

\* So the writer finds in the temporary file what it left there.
TempOwned ==
  \A p \in Processes :
    /\ handle[p] \in {"none", "temp"}
    /\ pc[p] = "write" => handle[p] = "temp" /\ temp = Empty
    /\ pc[p] = "replace" => temp = draft[p]

FileWhole ==
  /\ file.status \in {"missing"} \cup Open \cup Ended
  /\ file.status \in Ended => file.id \in ended

TurnsInv == ~raced => OneWeb /\ WebTurn /\ WorkerTurn /\ TempOwned /\ FileWhole

ShownInv == InvoiceStays /\ \A q \in shown : mint[q] # "none"

FundingInv == FundingTypes /\ TextsInv /\ StepsInv /\ TurnsInv /\ ShownInv

-----------------------------------------------------------------------------
LEMMA Constants ==
  /\ Worker \in Processes /\ Webs \subseteq Processes /\ Worker \notin Webs
  /\ Missing \in Texts /\ Empty \in Texts /\ Torn \in Texts
  /\ Processes = Webs \cup {Worker}
BY FundingAssumption
   DEF Processes, Missing, Empty, Torn, Text, Texts, Statuses, FundingAssumption

LEMMA TextTypes ==
  \A t \in Texts :
    /\ t.id \in 0..MaxRequests /\ t.quote \in 0..MaxQuotes /\ t.status \in Statuses
    /\ t = Text(t.id, t.status, t.quote)
    /\ \A s \in Statuses : [t EXCEPT !.status = s] = Text(t.id, s, t.quote)
BY DEF Texts, Text

LEMMA TextIsText ==
  ASSUME NEW i \in 0..MaxRequests, NEW s \in Statuses, NEW q \in 0..MaxQuotes
  PROVE  /\ Text(i, s, q) \in Texts /\ Text(i, s, q).id = i
         /\ Text(i, s, q).status = s /\ Text(i, s, q).quote = q
BY DEF Texts, Text

\* The actions, by the process that takes them.
LEMMA NextCases ==
  ASSUME Next
  PROVE  \/ \E p \in Processes : OpenTemp(p) \/ WriteText(p) \/ Replace(p) \/ Crash(p)
                                   \/ Restart(p)
         \/ \E w \in Webs : Post(w) \/ Show(w)
         \/ Poll \/ Deposit \/ DepositRaises \/ CheckPaid \/ CheckUnpaid \/ CheckRaises
         \/ Credit \/ CreditRaises
         \/ \E q \in Quotes : Pay(q)
         \/ \E i \in Ids : DeadlinePasses(i)
BY Zenon DEF Next, Work, Writes

LEMMA FundingInit == Init => FundingInv
<1>. SUFFICES ASSUME Init PROVE FundingInv
  OBVIOUS
<1>. USE Constants, FundingAssumption DEF FundingAssumption
<1>1. FundingTypes
  <2>1. timed \in BOOLEAN /\ raced \in BOOLEAN
    BY Zenon DEF Init
  <2>2. /\ file \in Texts /\ temp \in Texts /\ draft \in [Processes -> Texts]
        /\ pc \in [Processes -> {"idle", "down"} \cup Working]
        /\ handle \in [Processes -> {"none", "temp", "file", "lost"}]
    BY DEF Init, Working, Writing
  <2>3. /\ asked \in 0..MaxRequests /\ late \in SUBSET Ids /\ ended \in SUBSET Ids
        /\ mint \in [Quotes -> {"none", "open", "paid", "issued"}]
        /\ owner \in [Quotes -> 0..MaxRequests] /\ crashes \in Nat
        /\ shown \in SUBSET Quotes /\ credited \in SUBSET Quotes
        /\ refused \in SUBSET Quotes
    BY DEF Init
  <2>. QED
    BY <2>1, <2>2, <2>3 DEF FundingTypes
<1>2. TextsInv
  BY DEF Init, TextsInv, InUse, WellMade, Missing, Text, Open, Ended
<1>3. StepsInv /\ TurnsInv
  BY DEF Init, StepsInv, TurnsInv, OneWeb, WebTurn, WorkerTurn, TempOwned, FileWhole,
     Missing, Text, Open, Ended, Writing, Working
<1>4. ShownInv
  BY DEF Init, ShownInv, InvoiceStays
<1>. QED
  BY <1>1, <1>2, <1>3, <1>4 DEF FundingInv

-----------------------------------------------------------------------------
(* Types.                                                                  *)
LEMMA GoTypes ==
  ASSUME FundingTypes, NEW p \in Processes, NEW step \in {"idle", "down"} \cup Working,
         NEW text \in Texts, Go(p, step, text)
  PROVE  /\ draft' \in [Processes -> Texts]
         /\ pc' \in [Processes -> {"idle", "down"} \cup Working]
BY DEF FundingTypes, Go

LEMMA TypesStep == FundingTypes /\ StepsInv /\ TextsInv /\ [Next]_vars => FundingTypes'
<1>. SUFFICES ASSUME FundingTypes, StepsInv, TextsInv, [Next]_vars PROVE FundingTypes'
  OBVIOUS
<1>. USE Constants, FundingAssumption DEF FundingAssumption
<1>a. {"idle", "down"} \cup Working =
        {"idle", "down", "quoting", "checking", "crediting", "open", "write", "replace"}
  BY DEF Working, Writing
<1>b. Open \subseteq Statuses /\ Ended \subseteq Statuses
  BY DEF Statuses
<1>. DEFINE D == /\ draft' \in [Processes -> Texts]
                 /\ pc' \in [Processes -> {"idle", "down"} \cup Working]
            F == file' \in Texts /\ temp' \in Texts /\ ended' \in SUBSET Ids
                 /\ handle' \in [Processes -> {"none", "temp", "file", "lost"}]
            B == timed' \in BOOLEAN /\ raced' \in BOOLEAN
            M == /\ mint' \in [Quotes -> {"none", "open", "paid", "issued"}]
                 /\ owner' \in [Quotes -> 0..MaxRequests]
            R == /\ asked' \in 0..MaxRequests /\ late' \in SUBSET Ids /\ crashes' \in Nat
                 /\ shown' \in SUBSET Quotes /\ credited' \in SUBSET Quotes
                 /\ refused' \in SUBSET Quotes
<1>q. ASSUME D, F, B, M, R PROVE FundingTypes'
  BY <1>q DEF FundingTypes
<1>f. UNCHANGED fileVars => F
  BY DEF fileVars, FundingTypes
<1>m. UNCHANGED mintVars => M
  BY DEF mintVars, FundingTypes
<1>w. UNCHANGED worldVars => late' \in SUBSET Ids /\ shown' \in SUBSET Quotes
  BY DEF worldVars, FundingTypes
<1>t. UNCHANGED <<timed, raced>> => B
  BY Zenon DEF FundingTypes
<1>d. UNCHANGED <<pc, draft>> => D
  BY DEF FundingTypes
<1>r. /\ asked \in 0..MaxRequests /\ late \in SUBSET Ids /\ crashes \in Nat
      /\ shown \in SUBSET Quotes /\ credited \in SUBSET Quotes /\ refused \in SUBSET Quotes
  BY DEF FundingTypes
<1>g. \A p \in Processes : draft[p] \in Texts
  BY DEF FundingTypes
<1>1. CASE \E p \in Processes : OpenTemp(p) \/ WriteText(p) \/ Replace(p) \/ Crash(p)
                                  \/ Restart(p)
  <2>. PICK p \in Processes : OpenTemp(p) \/ WriteText(p) \/ Replace(p) \/ Crash(p)
                                \/ Restart(p)
    BY <1>1
  <2>1. D
    BY <1>a, <1>g, GoTypes DEF OpenTemp, WriteText, Replace, Crash, Restart
  <2>2. F
    <3>1. CASE OpenTemp(p)
      BY <3>1 DEF OpenTemp, FundingTypes
    <3>2. CASE WriteText(p)
      <4>1. file' \in Texts /\ temp' \in Texts
        BY <3>2, <1>g DEF WriteText, Over, FundingTypes
      <4>. QED
        BY <3>2, <4>1 DEF WriteText, NoteEnd, FundingTypes
    <3>3. CASE Replace(p)
      <4>1. file' \in Texts /\ temp' \in Texts /\ ended' \in SUBSET Ids
        BY <3>3 DEF Replace, NoteEnd, FundingTypes
      <4>2. handle' \in [Processes -> {"none", "temp", "file", "lost"}]
        BY <3>3 DEF Replace, FundingTypes
      <4>. QED
        BY <4>1, <4>2
    <3>4. CASE Crash(p)
      BY <3>4 DEF Crash, FundingTypes
    <3>5. CASE Restart(p)
      BY <3>5, <1>f DEF Restart
    <3>. QED
      BY <3>1, <3>2, <3>3, <3>4, <3>5
  <2>3. B
    BY Zenon, <1>t DEF OpenTemp, WriteText, Replace, Crash, Restart
  <2>4. M
    BY <1>m DEF OpenTemp, WriteText, Replace, Crash, Restart
  <2>5. R
    BY <1>r, <1>w DEF OpenTemp, WriteText, Replace, Crash, Restart
  <2>. QED
    BY <1>q, <2>1, <2>2, <2>3, <2>4, <2>5
<1>2. CASE \E w \in Webs : Post(w) \/ Show(w)
  <2>. PICK w \in Webs : Post(w) \/ Show(w)
    BY <1>2
  <2>1. D
    <3>1. CASE Post(w)
      <4>1. Text(asked + 1, "REQUESTED", 0) \in Texts
        BY <3>1, <1>r DEF Post, Text, Texts, Statuses, Open
      <4>. QED
        BY <3>1, <4>1, <1>a, GoTypes DEF Post
    <3>2. CASE Show(w)
      BY <3>2, <1>d DEF Show
    <3>. QED
      BY <3>1, <3>2
  <2>2. B
    <3>1. raced' \in BOOLEAN
      BY Zenon DEF Post, Show, FundingTypes
    <3>2. timed' \in BOOLEAN
      BY Zenon DEF Post, Show, FundingTypes
    <3>. QED
      BY <3>1, <3>2
  <2>3. F /\ M
    BY <1>f, <1>m DEF Post, Show
  <2>4. R
    <3>1. CASE Post(w)
      BY <3>1, <1>r, <1>w DEF Post
    <3>2. CASE Show(w)
      <4>1. file.quote \in Quotes
        BY <3>2 DEF Show, FundingTypes, Texts, Quotes
      <4>2. shown' \in SUBSET Quotes
        BY <3>2, <4>1, <1>r DEF Show
      <4>. QED
        BY <3>2, <4>2, <1>r DEF Show
    <3>. QED
      BY <3>1, <3>2
  <2>. QED
    BY <1>q, <2>1, <2>2, <2>3, <2>4
<1>3. CASE Poll
  <2>1. D
    <3>1. file \in Texts /\ [file EXCEPT !.status = "EXPIRED"] \in Texts
      BY DEF FundingTypes, Texts, Statuses, Ended
    <3>. QED
      BY <1>3, <3>1, <1>a, GoTypes DEF Poll
  <2>2. B
    <3>1. timed' = (file.id \in late)
      BY Zenon, <1>3 DEF Poll
    <3>2. timed' \in BOOLEAN
      BY <3>1
    <3>3. raced' = raced
      BY Zenon, <1>3 DEF Poll
    <3>. QED
      BY Zenon, <3>2, <3>3 DEF FundingTypes
  <2>. QED
    BY <1>q, <1>3, <2>1, <2>2, <1>f, <1>m, <1>r, <1>w DEF Poll
<1>4. CASE Deposit
  <2>. PICK q \in Quotes :
         /\ mint' = [mint EXCEPT ![q] = "open"]
         /\ owner' = [owner EXCEPT ![q] = draft[Worker].id]
         /\ Go(Worker, "open", Text(draft[Worker].id, "PENDING", q))
    BY <1>4 DEF Deposit
  <2>1. draft[Worker].id \in 0..MaxRequests
    BY <1>g DEF Texts
  <2>2. Text(draft[Worker].id, "PENDING", q) \in Texts
    BY <2>1, TextIsText DEF Quotes, Statuses, Open
  <2>3. D
    BY <2>2, <1>a, GoTypes
  <2>4. M
    BY <2>1 DEF FundingTypes
  <2>5. B
    BY Zenon, <1>4, <1>t DEF Deposit
  <2>. QED
    BY <1>q, <1>4, <2>3, <2>4, <2>5, <1>f, <1>r, <1>w DEF Deposit
<1>5. CASE DepositRaises
  <2>1. D
    BY <1>5, <1>a, GoTypes DEF DepositRaises
  <2>2. B
    BY Zenon, <1>5, <1>t DEF DepositRaises
  <2>. QED
    BY <1>q, <1>5, <2>1, <2>2, <1>f, <1>m, <1>r, <1>w DEF DepositRaises
<1>6. CASE CheckPaid \/ CheckUnpaid \/ CheckRaises
  <2>1. D
    <3>1. AfterUnpaid(draft[Worker]) \in Texts
      <4>1. [draft[Worker] EXCEPT !.status = "EXPIRED"] \in Texts
        BY <1>g DEF Texts, Statuses, Ended
      <4>. QED
        BY <4>1, <1>g DEF AfterUnpaid
    <3>. QED
      BY <1>6, <3>1, <1>a, <1>g, GoTypes DEF CheckPaid, CheckUnpaid, CheckRaises
  <2>2. M
    BY <1>6 DEF CheckPaid, CheckUnpaid, CheckRaises, Issues, FundingTypes
  <2>3. B
    BY Zenon, <1>6, <1>t DEF CheckPaid, CheckUnpaid, CheckRaises
  <2>4. R
    <3>1. CASE CheckPaid \/ CheckRaises
      BY <3>1, <1>r, <1>w DEF CheckPaid, CheckRaises
    <3>2. CASE CheckUnpaid
      <4>1. draft[Worker].status = "PENDING"
        BY <3>2 DEF CheckUnpaid, StepsInv
      <4>2. draft[Worker].quote \in Quotes
        BY <4>1, <1>g DEF TextsInv, InUse, WellMade, Texts, Quotes
      <4>3. refused' \in SUBSET Quotes
        BY <3>2, <4>2, <1>r DEF CheckUnpaid
      <4>. QED
        BY <3>2, <4>3, <1>r, <1>w DEF CheckUnpaid
    <3>. QED
      BY <1>6, <3>1, <3>2
  <2>5. F
    BY <1>6, <1>f DEF CheckPaid, CheckUnpaid, CheckRaises
  <2>. QED
    BY <1>q, <2>1, <2>2, <2>3, <2>4, <2>5
<1>7. CASE Credit \/ CreditRaises
  <2>1. D
    <3>1. [draft[Worker] EXCEPT !.status = "CONFIRMED"] \in Texts
      BY <1>g DEF Texts, Statuses, Ended
    <3>. QED
      BY <1>7, <3>1, <1>a, GoTypes DEF Credit, CreditRaises
  <2>2. B
    BY Zenon, <1>7, <1>t DEF Credit, CreditRaises
  <2>3. draft[Worker].quote \in Quotes
    <3>1. draft[Worker].status = "PENDING"
      BY <1>7 DEF Credit, CreditRaises, StepsInv
    <3>. QED
      BY <3>1, <1>g DEF TextsInv, InUse, WellMade, Texts, Quotes
  <2>4. R
    BY <1>7, <2>3, <1>r, <1>w DEF Credit, CreditRaises
  <2>5. F /\ M
    BY <1>7, <1>f, <1>m DEF Credit, CreditRaises
  <2>. QED
    BY <1>q, <2>1, <2>2, <2>4, <2>5
<1>8. CASE \E q \in Quotes : Pay(q)
  <2>. PICK q \in Quotes : Pay(q)
    BY <1>8
  <2>1. M
    BY DEF Pay, FundingTypes
  <2>2. B
    BY Zenon, <1>t DEF Pay
  <2>. QED
    BY <1>q, <2>1, <2>2, <1>d, <1>f, <1>r, <1>w DEF Pay
<1>9. CASE \E i \in Ids : DeadlinePasses(i)
  <2>. PICK i \in Ids : DeadlinePasses(i)
    BY <1>9
  <2>1. B
    BY Zenon, <1>t DEF DeadlinePasses
  <2>. QED
    BY <1>q, <2>1, <1>d, <1>f, <1>m, <1>r DEF DeadlinePasses
<1>10. CASE UNCHANGED vars
  <2>1. B
    BY Zenon, <1>10, <1>t DEF vars
  <2>. QED
    BY <1>q, <1>10, <2>1, <1>d, <1>f, <1>m, <1>r, <1>w DEF vars
<1>. QED
  BY <1>1, <1>2, <1>3, <1>4, <1>5, <1>6, <1>7, <1>8, <1>9, <1>10, NextCases
-----------------------------------------------------------------------------
(* The texts.                                                              *)

\* What is known of a quote stays known.
Grows ==
  /\ \A q \in Quotes : /\ mint[q] # "none" => mint'[q] # "none" /\ owner'[q] = owner[q]
                       /\ mint[q] = "issued" => mint'[q] = "issued"
  /\ credited \subseteq credited' /\ refused \subseteq refused'

LEMMA QuotesGrow == FundingTypes /\ [Next]_vars => Grows
<1>. SUFFICES ASSUME FundingTypes, [Next]_vars PROVE Grows
  OBVIOUS
<1>m. UNCHANGED mintVars =>
        \A q \in Quotes : /\ mint[q] # "none" => mint'[q] # "none" /\ owner'[q] = owner[q]
                          /\ mint[q] = "issued" => mint'[q] = "issued"
  BY DEF mintVars
<1>1. CASE \E p \in Processes : OpenTemp(p) \/ WriteText(p) \/ Replace(p) \/ Crash(p)
                                  \/ Restart(p)
  BY <1>1, <1>m DEF Grows, OpenTemp, WriteText, Replace, Crash, Restart
<1>2. CASE \E w \in Webs : Post(w) \/ Show(w)
  BY <1>2, <1>m DEF Grows, Post, Show
<1>3. CASE Poll \/ DepositRaises \/ Credit \/ CreditRaises
  BY <1>3, <1>m DEF Grows, Poll, DepositRaises, Credit, CreditRaises
<1>4. CASE Deposit
  BY <1>4 DEF Grows, Deposit, FundingTypes
<1>5. CASE CheckPaid \/ CheckUnpaid \/ CheckRaises
  BY <1>5 DEF Grows, CheckPaid, CheckUnpaid, CheckRaises, Issues, FundingTypes
<1>6. CASE \E q \in Quotes : Pay(q)
  BY <1>6 DEF Grows, Pay, FundingTypes
<1>7. CASE \E i \in Ids : DeadlinePasses(i)
  BY <1>7, <1>m DEF Grows, DeadlinePasses
<1>8. CASE UNCHANGED vars
  BY <1>8, <1>m DEF Grows, vars
<1>. QED
  BY <1>1, <1>2, <1>3, <1>4, <1>5, <1>6, <1>7, <1>8, NextCases

LEMMA TextKept ==
  ASSUME Grows, NEW t \in Texts, WellMade(t)
  PROVE  WellMade(t)'
<1>1. t.quote # 0 => t.quote \in Quotes
  BY DEF Texts, Quotes
<1>. QED
  BY <1>1 DEF Grows, WellMade

LEMMA BlankTexts == WellMade(Missing)' /\ WellMade(Empty)' /\ WellMade(Torn)'
BY DEF WellMade, Missing, Empty, Torn, Text, Open, Ended

\* Files only receive texts that were in use; what a process takes up is well made.
LEMMA FilesKeepTexts ==
  ASSUME FundingTypes, [Next]_vars, NEW t, t = file' \/ t = temp'
  PROVE  InUse(t) \/ t \in {Missing, Empty, Torn}
<1>1. CASE \E p \in Processes : OpenTemp(p) \/ WriteText(p) \/ Replace(p) \/ Crash(p)
                                  \/ Restart(p)
  <2>. PICK p \in Processes : OpenTemp(p) \/ WriteText(p) \/ Replace(p) \/ Crash(p)
                                \/ Restart(p)
    BY <1>1
  <2>1. CASE WriteText(p)
    BY <2>1 DEF WriteText, Over, InUse
  <2>2. CASE Replace(p)
    BY <2>2 DEF Replace, InUse
  <2>3. CASE OpenTemp(p)
    BY <2>3 DEF OpenTemp, InUse
  <2>4. CASE Crash(p) \/ Restart(p)
    BY <2>4 DEF Crash, Restart, fileVars, InUse
  <2>. QED
    BY <2>1, <2>2, <2>3, <2>4
<1>2. CASE UNCHANGED fileVars
  BY <1>2 DEF fileVars, InUse
<1>3. CASE \E w \in Webs : Post(w) \/ Show(w)
  BY <1>2, <1>3 DEF Post, Show
<1>4. CASE \/ Poll \/ Deposit \/ DepositRaises \/ CheckPaid \/ CheckUnpaid \/ CheckRaises
           \/ Credit \/ CreditRaises
  BY <1>2, <1>4 DEF Poll, Deposit, DepositRaises, CheckPaid, CheckUnpaid, CheckRaises,
     Credit, CreditRaises
<1>5. CASE \E q \in Quotes : Pay(q)
  BY <1>2, <1>5 DEF Pay
<1>6. CASE \E i \in Ids : DeadlinePasses(i)
  BY <1>2, <1>6 DEF DeadlinePasses
<1>7. CASE UNCHANGED vars
  BY <1>2, <1>7 DEF vars
<1>. QED
  BY <1>1, <1>3, <1>4, <1>5, <1>6, <1>7, NextCases

\* A process has a text in its hands that is well made, if the one it takes up is.
LEMMA TakenUp ==
  ASSUME FundingTypes, NEW p \in Processes, NEW step, NEW text,
         Go(p, step, text), NEW t, \E r \in Processes : t = draft'[r]
  PROVE  t = text \/ InUse(t)
BY DEF Go, FundingTypes, InUse

\* The texts made in a step are well made after it.
LEMMA NewTexts ==
  ASSUME FundingTypes, StepsInv, TextsInv, Grows, [Next]_vars,
         NEW t \in Texts, \E r \in Processes : t = draft'[r]
  PROVE  InUse(t) \/ WellMade(t)'
<1>. USE Constants, FundingAssumption DEF FundingAssumption
<1>d. UNCHANGED draft => InUse(t)
  BY DEF InUse
<1>g. \A p \in Processes : draft[p] \in Texts /\ InUse(draft[p]) /\ WellMade(draft[p])
  BY DEF FundingTypes, InUse, TextsInv
<1>b. WellMade(Missing)'
  BY BlankTexts
<1>1. CASE \E p \in Processes : OpenTemp(p) \/ WriteText(p) \/ Replace(p) \/ Crash(p)
                                  \/ Restart(p)
  <2>. PICK p \in Processes : OpenTemp(p) \/ WriteText(p) \/ Replace(p) \/ Crash(p)
                                \/ Restart(p)
    BY <1>1
  <2>1. PICK step : Go(p, step, draft[p]) \/ Go(p, step, Missing)
    BY DEF OpenTemp, WriteText, Replace, Crash, Restart
  <2>2. InUse(t) \/ t = draft[p] \/ t = Missing
    BY <2>1, TakenUp
  <2>. QED
    BY <2>2, <1>b, <1>g
<1>2. CASE \E w \in Webs : Post(w) \/ Show(w)
  <2>. PICK w \in Webs : Post(w) \/ Show(w)
    BY <1>2
  <2>1. CASE Post(w)
    <3>. DEFINE new == Text(asked + 1, "REQUESTED", 0)
    <3>1. t = new \/ InUse(t)
      BY <2>1, TakenUp DEF Post
    <3>2. asked + 1 \in Ids
      BY <2>1 DEF Post, Ids, FundingTypes
    <3>3. t = new => WellMade(t)'
      BY <3>2 DEF WellMade, Text, Open, Ended
    <3>. QED
      BY <3>1, <3>3
  <2>2. CASE Show(w)
    BY <2>2, <1>d DEF Show
  <2>. QED
    BY <2>1, <2>2
<1>3. CASE Poll
  <2>1. file \in Texts /\ InUse(file) /\ WellMade(file)
    BY DEF FundingTypes, InUse, TextsInv
  <2>2. CASE TimesOut(file)
    <3>. DEFINE new == [file EXCEPT !.status = "EXPIRED"]
    <3>1. t = new \/ t = file \/ InUse(t)
      BY <1>3, TakenUp DEF Poll
    <3>2. new = Text(file.id, "EXPIRED", 0) /\ file.id \in Ids
      BY <2>1, <2>2, TextTypes DEF TimesOut, WellMade, Statuses, Open, Ended
    <3>3. t = new => WellMade(t)'
      BY <3>2 DEF WellMade, Text, Open, Ended
    <3>. QED
      BY <2>1, <3>1, <3>3
  <2>3. CASE ~TimesOut(file)
    BY <1>3, <2>1, <2>3, TakenUp DEF Poll
  <2>. QED
    BY <2>2, <2>3
<1>4. CASE Deposit
  <2>. DEFINE i == draft[Worker].id
  <2>. PICK q \in Quotes :
         /\ mint' = [mint EXCEPT ![q] = "open"] /\ owner' = [owner EXCEPT ![q] = i]
         /\ Go(Worker, "open", Text(i, "PENDING", q))
    BY <1>4 DEF Deposit
  <2>1. t = Text(i, "PENDING", q) \/ InUse(t)
    BY TakenUp
  <2>2. i \in Ids
    BY <1>4, <1>g DEF Deposit, StepsInv, WellMade, Open
  <2>3. mint'[q] = "open" /\ owner'[q] = i /\ q # 0
    BY DEF FundingTypes, Quotes
  <2>4. t = Text(i, "PENDING", q) => WellMade(t)'
    BY <2>2, <2>3 DEF WellMade, Text, Open, Ended
  <2>. QED
    BY <2>1, <2>4
<1>5. CASE DepositRaises \/ CheckPaid \/ CheckRaises \/ CreditRaises
  <2>1. PICK step : Go(Worker, step, draft[Worker]) \/ Go(Worker, step, Missing)
    BY <1>5 DEF DepositRaises, CheckPaid, CheckRaises, CreditRaises
  <2>2. InUse(t) \/ t = draft[Worker] \/ t = Missing
    BY <2>1, TakenUp
  <2>. QED
    BY <2>2, <1>b, <1>g
<1>6. CASE CheckUnpaid
  <2>. DEFINE text == draft[Worker]
  <2>1. text.status = "PENDING" /\ text.quote \in Quotes /\ text.quote # 0
    BY <1>6, <1>g DEF CheckUnpaid, StepsInv, WellMade, Texts, Quotes
  <2>2. CASE timed
    <3>1. t = Text(text.id, "EXPIRED", text.quote) \/ InUse(t)
      BY <1>6, <1>g, <2>2, TakenUp, TextTypes DEF CheckUnpaid, AfterUnpaid, Statuses, Ended
    <3>2. text.quote \in refused'
      BY <1>6, <2>2 DEF CheckUnpaid
    <3>3. /\ text.id \in Ids /\ mint[text.quote] # "none" /\ owner[text.quote] = text.id
      BY <1>g, <2>1 DEF WellMade, Open
    <3>4. mint'[text.quote] # "none" /\ owner'[text.quote] = text.id
      BY <2>1, <3>3 DEF Grows
    <3>5. t = Text(text.id, "EXPIRED", text.quote) => WellMade(t)'
      BY <3>2, <3>3, <3>4 DEF WellMade, Text, Open, Ended
    <3>. QED
      BY <3>1, <3>5
  <2>3. CASE ~timed
    BY <1>6, <1>g, <2>3, TakenUp DEF CheckUnpaid, AfterUnpaid
  <2>. QED
    BY <2>2, <2>3
<1>7. CASE Credit
  <2>. DEFINE text == draft[Worker]
  <2>1. /\ text.status = "PENDING" /\ text.quote \in Quotes /\ text.quote # 0
        /\ mint[text.quote] = "issued"
    BY <1>7, <1>g DEF Credit, StepsInv, WellMade, Texts, Quotes
  <2>2. t = Text(text.id, "CONFIRMED", text.quote) \/ InUse(t)
    BY <1>7, <1>g, TakenUp, TextTypes DEF Credit, Statuses, Ended
  <2>3. text.quote \in credited'
    BY <1>7 DEF Credit
  <2>4. text.id \in Ids /\ owner[text.quote] = text.id
    BY <1>g, <2>1 DEF WellMade, Open
  <2>5. mint'[text.quote] = "issued" /\ owner'[text.quote] = text.id
    BY <2>1, <2>4 DEF Grows
  <2>6. t = Text(text.id, "CONFIRMED", text.quote) => WellMade(t)'
    BY <2>1, <2>3, <2>4, <2>5 DEF WellMade, Text, Open, Ended
  <2>. QED
    BY <2>2, <2>6
<1>8. CASE \E q \in Quotes : Pay(q)
  BY <1>8, <1>d DEF Pay
<1>9. CASE \E i \in Ids : DeadlinePasses(i)
  BY <1>9, <1>d DEF DeadlinePasses
<1>10. CASE UNCHANGED vars
  BY <1>10, <1>d DEF vars
<1>. QED
  BY <1>1, <1>2, <1>3, <1>4, <1>5, <1>6, <1>7, <1>8, <1>9, <1>10, NextCases

LEMMA TextsStep == FundingTypes /\ StepsInv /\ TextsInv /\ [Next]_vars => TextsInv'
<1>. SUFFICES ASSUME FundingTypes, StepsInv, TextsInv, [Next]_vars,
                     NEW t \in Texts, InUse(t)'
              PROVE  WellMade(t)'
  BY DEF TextsInv
<1>1. Grows
  BY QuotesGrow
<1>2. InUse(t) => WellMade(t)'
  BY <1>1, TextKept DEF TextsInv
<1>3. CASE t = file' \/ t = temp'
  BY <1>2, <1>3, FilesKeepTexts, BlankTexts
<1>4. CASE \E r \in Processes : t = draft'[r]
  BY <1>1, <1>2, <1>4, NewTexts
<1>. QED
  BY <1>3, <1>4 DEF InUse
-----------------------------------------------------------------------------
(* The steps of a process.                                                 *)
LEMMA GoFacts ==
  ASSUME FundingTypes, NEW p \in Processes, NEW step, NEW text, Go(p, step, text)
  PROVE  /\ pc'[p] = step /\ draft'[p] = text
         /\ \A r \in Processes \ {p} : pc'[r] = pc[r] /\ draft'[r] = draft[r]
BY DEF Go, FundingTypes

LEMMA StepsStep == FundingTypes /\ TextsInv /\ StepsInv /\ [Next]_vars => StepsInv'
<1>. SUFFICES ASSUME FundingTypes, TextsInv, StepsInv, [Next]_vars PROVE StepsInv'
  OBVIOUS
<1>. USE Constants, FundingAssumption DEF FundingAssumption
<1>. DEFINE H == \A p \in Processes : handle'[p] # "none" => pc'[p] = "write"
            W == \A w \in Webs : /\ pc'[w] \in {"idle", "down"} \cup Writing
                                 /\ pc'[w] \in Writing => draft'[w].status = "REQUESTED"
            A == /\ pc'[Worker] = "quoting" => draft'[Worker].status = "REQUESTED"
                 /\ pc'[Worker] \in {"checking", "crediting"} =>
                      draft'[Worker].status = "PENDING"
                 /\ pc'[Worker] = "crediting" => mint'[draft'[Worker].quote] = "issued"
                 /\ pc'[Worker] \in Writing => draft'[Worker].status \in {"PENDING"} \cup Ended
<1>q. ASSUME H, W, A PROVE StepsInv'
  BY <1>q DEF StepsInv
<1>g. Grows
  BY QuotesGrow
<1>s. /\ "idle" \notin Writing /\ "down" \notin Writing /\ "quoting" \notin Writing
      /\ "checking" \notin Writing /\ "crediting" \notin Writing
      /\ "open" \in Writing /\ "write" \in Writing /\ "replace" \in Writing
  BY DEF Writing
\* The worker's part holds on when it does not move.
<1>a. ASSUME pc'[Worker] = pc[Worker], draft'[Worker] = draft[Worker] PROVE A
  <2>1. ASSUME pc[Worker] = "crediting" PROVE draft[Worker].quote \in Quotes
    <3>1. draft[Worker] \in Texts /\ InUse(draft[Worker])
      BY DEF FundingTypes, InUse
    <3>. QED
      BY <2>1, <3>1 DEF StepsInv, TextsInv, WellMade, Texts, Quotes
  <2>2. pc[Worker] = "crediting" => mint'[draft[Worker].quote] = "issued"
    BY <2>1, <1>g DEF Grows, StepsInv
  <2>. QED
    BY <1>a, <2>2 DEF StepsInv
<1>w. ASSUME \A w \in Webs : pc'[w] = pc[w] /\ draft'[w] = draft[w] PROVE W
  BY <1>w DEF StepsInv
<1>h. ASSUME handle' = handle, NEW p \in Processes, pc[p] # "write",
             \A r \in Processes \ {p} : pc'[r] = pc[r]
      PROVE  H
  BY <1>h DEF StepsInv
\* A step of the worker outside a write.
<1>v. ASSUME handle' = handle, pc[Worker] # "write", NEW step, NEW text, Go(Worker, step, text)
      PROVE  H /\ W /\ pc'[Worker] = step /\ draft'[Worker] = text
  BY <1>v, <1>w, <1>h, GoFacts
<1>1. CASE \E p \in Processes : OpenTemp(p) \/ WriteText(p) \/ Replace(p) \/ Crash(p)
                                  \/ Restart(p)
  <2>. PICK p \in Processes : OpenTemp(p) \/ WriteText(p) \/ Replace(p) \/ Crash(p)
                                \/ Restart(p)
    BY <1>1
  <2>1. PICK step : /\ \/ Go(p, step, draft[p]) /\ pc[p] \in Writing
                       \/ Go(p, step, Missing) /\ step \notin Writing
                    /\ step \in {"idle", "down"} \cup Writing
    BY <1>s DEF OpenTemp, WriteText, Replace, Crash, Restart
  <2>2. /\ pc'[p] = step /\ (step \in Writing => draft'[p] = draft[p] /\ pc[p] \in Writing)
        /\ \A r \in Processes \ {p} : pc'[r] = pc[r] /\ draft'[r] = draft[r]
    BY <2>1, GoFacts
  <2>3. W
    BY <2>1, <2>2 DEF StepsInv
  <2>4. A
    <3>1. CASE p = Worker
      BY <2>1, <2>2, <3>1, <1>s DEF StepsInv
    <3>2. CASE p # Worker
      BY <2>2, <3>2, <1>a
    <3>. QED
      BY <3>1, <3>2
  <2>5. H
    <3>1. CASE OpenTemp(p)
      <4>1. pc'[p] = "write"
        BY <3>1, GoFacts DEF OpenTemp
      <4>2. \A r \in Processes \ {p} : handle'[r] = handle[r]
        BY <3>1 DEF OpenTemp, FundingTypes
      <4>. QED
        BY <2>2, <4>1, <4>2 DEF StepsInv
    <3>2. CASE WriteText(p) \/ Crash(p)
      <4>1. \A r \in Processes : handle'[r] = IF r = p THEN "none" ELSE handle[r]
        BY <3>2 DEF WriteText, Crash, FundingTypes
      <4>. QED
        BY <2>2, <4>1 DEF StepsInv
    <3>3. CASE Replace(p)
      <4>1. \A r \in Processes : handle'[r] # "none" => handle[r] # "none"
        BY <3>3 DEF Replace, FundingTypes
      <4>2. handle[p] = "none"
        BY <3>3 DEF Replace, StepsInv
      <4>. QED
        BY <2>2, <4>1, <4>2 DEF StepsInv
    <3>4. CASE Restart(p)
      BY <2>2, <3>4, <1>h DEF Restart, fileVars
    <3>. QED
      BY <3>1, <3>2, <3>3, <3>4
  <2>. QED
    BY <1>q, <2>3, <2>4, <2>5
<1>2. CASE \E w \in Webs : Post(w) \/ Show(w)
  <2>. PICK w \in Webs : Post(w) \/ Show(w)
    BY <1>2
  <2>1. CASE Post(w)
    <3>1. /\ pc'[w] = "open" /\ draft'[w].status = "REQUESTED"
          /\ \A r \in Processes \ {w} : pc'[r] = pc[r] /\ draft'[r] = draft[r]
      BY <2>1, GoFacts DEF Post, Text
    <3>2. H
      BY <2>1, <3>1, <1>h DEF Post, fileVars
    <3>3. W /\ A
      BY <3>1, <1>a, <1>s DEF StepsInv
    <3>. QED
      BY <1>q, <3>2, <3>3
  <2>2. CASE Show(w)
    BY <2>2, <1>a, <1>w, <1>q DEF Show, fileVars, StepsInv
  <2>. QED
    BY <2>1, <2>2
<1>3. CASE Poll
  <2>1. handle' = handle /\ pc[Worker] # "write"
    BY <1>3 DEF Poll, fileVars
  <2>2. PICK step, text :
          /\ Go(Worker, step, text)
          /\ \/ step = "open" /\ text.status = "EXPIRED"
             \/ step = "quoting" /\ text.status = "REQUESTED"
             \/ step = "checking" /\ text.status = "PENDING"
    <3>1. [file EXCEPT !.status = "EXPIRED"].status = "EXPIRED"
      BY DEF FundingTypes, Texts
    <3>. QED
      BY <1>3, <3>1 DEF Poll
  <2>3. H /\ W /\ pc'[Worker] = step /\ draft'[Worker] = text
    BY <2>1, <2>2, <1>v
  <2>4. A
    BY <2>2, <2>3, <1>s DEF Ended
  <2>. QED
    BY <2>3, <2>4, <1>q
<1>4. CASE Deposit
  <2>. PICK q \in Quotes : Go(Worker, "open", Text(draft[Worker].id, "PENDING", q))
    BY <1>4 DEF Deposit
  <2>1. handle' = handle /\ pc[Worker] # "write"
    BY <1>4 DEF Deposit, fileVars
  <2>2. H /\ W /\ pc'[Worker] = "open" /\ draft'[Worker].status = "PENDING"
    BY <2>1, <1>v DEF Text
  <2>. QED
    BY <2>2, <1>q, <1>s
<1>5. CASE DepositRaises \/ CreditRaises
  <2>1. handle' = handle /\ pc[Worker] # "write"
    BY <1>5 DEF DepositRaises, CreditRaises, fileVars
  <2>2. H /\ W /\ pc'[Worker] = "idle"
    BY <1>5, <2>1, <1>v DEF DepositRaises, CreditRaises
  <2>. QED
    BY <2>2, <1>q, <1>s
<1>6. CASE CheckPaid \/ CheckUnpaid \/ CheckRaises
  <2>1. handle' = handle /\ pc[Worker] # "write" /\ draft[Worker].status = "PENDING"
    BY <1>6 DEF CheckPaid, CheckUnpaid, CheckRaises, fileVars, StepsInv
  <2>2. draft[Worker].quote \in Quotes /\ draft[Worker] \in Texts
    <3>1. draft[Worker] \in Texts /\ InUse(draft[Worker])
      BY DEF FundingTypes, InUse
    <3>. QED
      BY <2>1, <3>1 DEF TextsInv, WellMade, Texts, Quotes
  <2>3. CASE CheckPaid
    <3>1. H /\ W /\ pc'[Worker] = "crediting" /\ draft'[Worker] = draft[Worker]
      BY <2>1, <2>3, <1>v DEF CheckPaid
    <3>2. mint'[draft[Worker].quote] = "issued"
      BY <2>2, <2>3 DEF CheckPaid, Issues, FundingTypes
    <3>. QED
      BY <2>1, <3>1, <3>2, <1>q, <1>s
  <2>4. CASE CheckUnpaid
    <3>1. H /\ W /\ pc'[Worker] = "open" /\ draft'[Worker] = AfterUnpaid(draft[Worker])
      BY <2>1, <2>4, <1>v DEF CheckUnpaid
    <3>2. AfterUnpaid(draft[Worker]).status \in {"PENDING", "EXPIRED"}
      BY <2>1, <2>2 DEF AfterUnpaid, Texts
    <3>. QED
      BY <3>1, <3>2, <1>q, <1>s DEF Ended
  <2>5. CASE CheckRaises
    <3>1. H /\ W /\ pc'[Worker] = "open" /\ draft'[Worker] = draft[Worker]
      BY <2>1, <2>5, <1>v DEF CheckRaises
    <3>. QED
      BY <2>1, <3>1, <1>q, <1>s
  <2>. QED
    BY <1>6, <2>3, <2>4, <2>5
<1>7. CASE Credit
  <2>1. handle' = handle /\ pc[Worker] # "write"
    BY <1>7 DEF Credit, fileVars
  <2>2. /\ H /\ W /\ pc'[Worker] = "open"
        /\ draft'[Worker] = [draft[Worker] EXCEPT !.status = "CONFIRMED"]
    BY <1>7, <2>1, <1>v DEF Credit
  <2>3. draft'[Worker].status = "CONFIRMED"
    BY <2>2 DEF FundingTypes, Texts
  <2>. QED
    BY <2>2, <2>3, <1>q, <1>s DEF Ended
<1>8. CASE \E q \in Quotes : Pay(q)
  BY <1>8, <1>a, <1>w, <1>q DEF Pay, fileVars, StepsInv
<1>9. CASE \E i \in Ids : DeadlinePasses(i)
  BY <1>9, <1>a, <1>w, <1>q DEF DeadlinePasses, fileVars, StepsInv
<1>10. CASE UNCHANGED vars
  BY <1>10, <1>a, <1>w, <1>q DEF vars, fileVars, StepsInv
<1>. QED
  BY <1>1, <1>2, <1>3, <1>4, <1>5, <1>6, <1>7, <1>8, <1>9, <1>10, NextCases
-----------------------------------------------------------------------------
(* The turns.                                                              *)
LEMMA Sets ==
  /\ Writing \subseteq Working /\ "idle" \notin Working /\ "down" \notin Working
  /\ {"quoting", "checking", "crediting"} \cap Writing = {}
  /\ "quoting" \in Working /\ "checking" \in Working /\ "crediting" \in Working
  /\ "open" \in Writing /\ "write" \in Writing /\ "replace" \in Writing
  /\ "idle" \notin Writing /\ "down" \notin Writing
  /\ Open \cap Ended = {} /\ "missing" \notin Open \cup Ended
BY DEF Writing, Working, Open, Ended

LEMMA TurnsStep ==
  FundingTypes /\ TextsInv /\ StepsInv /\ TurnsInv /\ [Next]_vars => TurnsInv'
<1>. SUFFICES ASSUME FundingTypes, TextsInv, StepsInv, TurnsInv, [Next]_vars, ~raced'
              PROVE  (OneWeb /\ WebTurn /\ WorkerTurn /\ TempOwned /\ FileWhole)'
  BY Zenon DEF TurnsInv
<1>. USE Constants, FundingAssumption DEF FundingAssumption
<1>r. ~raced
  <2>1. ASSUME raced PROVE raced'
    <3>1. CASE \E w \in Webs : Post(w) \/ Show(w)
      BY Zenon, <2>1, <3>1 DEF Post, Show
    <3>2. CASE UNCHANGED raced
      BY Zenon, <2>1, <3>2
    <3>3. UNCHANGED vars => UNCHANGED raced
      BY Zenon DEF vars
    <3>4. CASE \E p \in Processes : OpenTemp(p) \/ WriteText(p) \/ Replace(p) \/ Crash(p)
                                      \/ Restart(p)
      BY Zenon, <3>2, <3>4 DEF OpenTemp, WriteText, Replace, Crash, Restart
    <3>5. CASE \/ Poll \/ Deposit \/ DepositRaises \/ CheckPaid \/ CheckUnpaid \/ CheckRaises
               \/ Credit \/ CreditRaises
      BY Zenon, <3>2, <3>5 DEF Poll, Deposit, DepositRaises, CheckPaid, CheckUnpaid,
         CheckRaises, Credit, CreditRaises
    <3>6. CASE (\E q \in Quotes : Pay(q)) \/ \E i \in Ids : DeadlinePasses(i)
      BY Zenon, <3>2, <3>6 DEF Pay, DeadlinePasses
    <3>. QED
      BY Zenon, <3>1, <3>2, <3>3, <3>4, <3>5, <3>6, NextCases
  <2>. QED
    BY Zenon, <2>1
<1>i. OneWeb /\ WebTurn /\ WorkerTurn /\ TempOwned /\ FileWhole
  BY Zenon, <1>r DEF TurnsInv
<1>n. \A p \in Processes : handle[p] # "none" => pc[p] = "write"
  BY DEF StepsInv
\* Who writes is alone.
<1>e. \A p, r \in Processes : pc[p] \in Writing /\ pc[r] \in Writing => p = r
  BY <1>i, Sets DEF OneWeb, WebTurn, WorkerTurn
<1>f. UNCHANGED fileVars => FileWhole' /\ file' = file /\ temp' = temp /\ handle' = handle
  BY <1>i DEF fileVars, FileWhole
\* A step of the worker that leaves the files alone.
<1>v. ASSUME UNCHANGED fileVars, NEW step, NEW text, Go(Worker, step, text),
             step \notin {"write", "replace"}, file.status \in Open, pc[Worker] # "write",
             step \in Working =>
               /\ text.id = file.id
               /\ file.status = "PENDING" => text.quote = file.quote /\ text.status # "REQUESTED"
      PROVE  (OneWeb /\ WebTurn /\ WorkerTurn /\ TempOwned /\ FileWhole)'
  <2>1. /\ pc'[Worker] = step /\ draft'[Worker] = text
        /\ \A r \in Processes \ {Worker} : pc'[r] = pc[r] /\ draft'[r] = draft[r]
    BY <1>v, GoFacts
  <2>2. OneWeb' /\ WebTurn'
    BY <1>i, <1>f, <1>v, <2>1 DEF OneWeb, WebTurn
  <2>3. WorkerTurn'
    BY <1>f, <1>v, <2>1 DEF WorkerTurn
  <2>4. TempOwned'
    BY <1>i, <1>f, <1>v, <2>1 DEF TempOwned
  <2>. QED
    BY <1>f, <1>v, <2>2, <2>3, <2>4
<1>1. CASE \E p \in Processes : OpenTemp(p)
  <2>. PICK p \in Processes : OpenTemp(p)
    BY <1>1
  <2>1. /\ pc[p] = "open" /\ pc'[p] = "write" /\ draft'[p] = draft[p]
        /\ \A r \in Processes \ {p} : pc'[r] = pc[r] /\ draft'[r] = draft[r]
    BY GoFacts DEF OpenTemp
  <2>2. /\ file' = file /\ ended' = ended /\ temp' = Empty
        /\ \A r \in Processes : handle'[r] = IF r = p THEN "temp" ELSE handle[r]
    BY DEF OpenTemp, FundingTypes
  <2>3. OneWeb' /\ WebTurn' /\ FileWhole'
    BY <1>i, <2>1, <2>2, Sets DEF OneWeb, WebTurn, FileWhole
  <2>4. WorkerTurn'
    BY <1>i, <2>1, <2>2, Sets DEF WorkerTurn
  <2>5. \A r \in Processes \ {p} : pc[r] \notin Writing
    BY <1>e, <2>1, Sets
  <2>6. TempOwned'
    BY <1>i, <2>1, <2>2, <2>5, Sets DEF TempOwned
  <2>. QED
    BY <2>3, <2>4, <2>6
<1>2. CASE \E p \in Processes : WriteText(p)
  <2>. PICK p \in Processes : WriteText(p)
    BY <1>2
  <2>1. /\ pc[p] = "write" /\ pc'[p] = "replace" /\ draft'[p] = draft[p]
        /\ \A r \in Processes \ {p} : pc'[r] = pc[r] /\ draft'[r] = draft[r]
    BY GoFacts DEF WriteText
  <2>2. handle[p] = "temp" /\ temp = Empty
    BY <1>i, <2>1 DEF TempOwned
  <2>3. /\ file' = file /\ temp' = draft[p] /\ ended \subseteq ended'
        /\ \A r \in Processes : handle'[r] = IF r = p THEN "none" ELSE handle[r]
    BY <2>2 DEF WriteText, Over, NoteEnd, FundingTypes
  <2>4. OneWeb' /\ WebTurn' /\ FileWhole'
    BY <1>i, <2>1, <2>3, Sets DEF OneWeb, WebTurn, FileWhole
  <2>5. WorkerTurn'
    BY <1>i, <2>1, <2>3, Sets DEF WorkerTurn
  <2>6. \A r \in Processes \ {p} : pc[r] \notin Writing
    BY <1>e, <2>1, Sets
  <2>7. TempOwned'
    BY <1>i, <2>1, <2>3, <2>6, Sets DEF TempOwned
  <2>. QED
    BY <2>4, <2>5, <2>7
<1>3. CASE \E p \in Processes : Replace(p)
  <2>. PICK p \in Processes : Replace(p)
    BY <1>3
  <2>1. /\ pc[p] = "replace" /\ pc'[p] = "idle"
        /\ \A r \in Processes \ {p} : pc'[r] = pc[r] /\ draft'[r] = draft[r]
    BY GoFacts DEF Replace
  <2>2. \A r \in Processes : pc'[r] \notin Writing /\ handle[r] = "none"
    BY <1>e, <1>n, <2>1, Sets
  <2>3. temp = draft[p] /\ draft[p].status \in Open \cup Ended
    BY <1>i, <2>1, Sets DEF TempOwned, StepsInv, Open
  <2>4. temp # Missing
    BY <2>3, Sets DEF Missing, Text
  <2>5. file' = draft[p] /\ \A r \in Processes : handle'[r] = "none"
    BY <2>2, <2>3, <2>4 DEF Replace
  <2>6. file'.status \in Ended => file'.id \in ended'
    <3>1. draft[p].status \in Open \cup Ended => draft[p].id \in Ids
      BY DEF TextsInv, InUse, WellMade, FundingTypes
    <3>. QED
      BY <2>5, <3>1 DEF Replace, NoteEnd
  <2>7. FileWhole'
    BY <2>3, <2>5, <2>6 DEF FileWhole
  <2>8. pc'[Worker] \notin Working
    <3>1. CASE p = Worker
      BY <2>1, <3>1, Sets
    <3>2. CASE p # Worker
      BY <1>i, <2>1, <3>2, Sets DEF WebTurn, WorkerTurn
    <3>. QED
      BY <3>1, <3>2
  <2>9. OneWeb' /\ WebTurn' /\ WorkerTurn'
    BY <2>2, <2>8 DEF OneWeb, WebTurn, WorkerTurn
  <2>10. TempOwned'
    BY <2>2, <2>5, Sets DEF TempOwned
  <2>. QED
    BY <2>7, <2>9, <2>10
<1>4. CASE \E p \in Processes : Crash(p) \/ Restart(p)
  <2>. PICK p \in Processes : Crash(p) \/ Restart(p)
    BY <1>4
  <2>1. /\ pc'[p] \in {"idle", "down"}
        /\ \A r \in Processes \ {p} : pc'[r] = pc[r] /\ draft'[r] = draft[r]
    BY GoFacts DEF Crash, Restart
  <2>2. /\ file' = file /\ temp' = temp /\ ended' = ended
        /\ \A r \in Processes \ {p} : handle'[r] = handle[r]
        /\ handle'[p] \in {"none", handle[p]}
    BY DEF Crash, Restart, fileVars, FundingTypes
  <2>3. OneWeb' /\ WebTurn' /\ WorkerTurn' /\ FileWhole'
    BY <1>i, <2>1, <2>2, Sets DEF OneWeb, WebTurn, WorkerTurn, FileWhole
  <2>4. TempOwned'
    BY <1>i, <2>1, <2>2 DEF TempOwned
  <2>. QED
    BY <2>3, <2>4
<1>5. CASE \E w \in Webs : Post(w)
  <2>. PICK w \in Webs : Post(w)
    BY <1>5
  <2>1. /\ pc'[w] = "open" /\ pc[w] = "idle" /\ file.status \notin Open
        /\ \A r \in Processes \ {w} : pc'[r] = pc[r] /\ draft'[r] = draft[r]
    BY GoFacts DEF Post, Accepts
  <2>2. \A v \in Webs \ {w} : pc[v] \in {"idle", "down"}
    BY DEF Post
  <2>3. pc[Worker] \notin Working
    BY <1>i, <2>1 DEF WorkerTurn
  <2>4. OneWeb' /\ WebTurn' /\ WorkerTurn'
    BY <1>f, <2>1, <2>2, <2>3, Sets DEF Post, OneWeb, WebTurn, WorkerTurn
  <2>5. TempOwned'
    BY <1>i, <1>f, <2>1 DEF Post, TempOwned
  <2>. QED
    BY <1>f, <2>4, <2>5 DEF Post
<1>6. CASE Poll
  <2>1. file.status \in Open /\ pc[Worker] = "idle" /\ UNCHANGED fileVars
    BY <1>6 DEF Poll
  <2>2. CASE TimesOut(file)
    <3>. DEFINE new == [file EXCEPT !.status = "EXPIRED"]
    <3>1. new.id = file.id /\ file.status # "PENDING"
      BY <2>2 DEF TimesOut, FundingTypes, Texts
    <3>2. Go(Worker, "open", new)
      BY <1>6, <2>2 DEF Poll
    <3>. HIDE DEF new
    <3>. QED
      BY <1>v, <2>1, <3>1, <3>2
  <2>3. CASE ~TimesOut(file)
    BY <1>6, <1>v, <2>1, <2>3 DEF Poll
  <2>. QED
    BY <2>2, <2>3
<1>7. CASE Deposit \/ DepositRaises \/ CheckPaid \/ CheckUnpaid \/ CheckRaises \/ Credit
           \/ CreditRaises
  <2>1. pc[Worker] \in {"quoting", "checking", "crediting"} /\ UNCHANGED fileVars
    BY <1>7 DEF Deposit, DepositRaises, CheckPaid, CheckUnpaid, CheckRaises, Credit,
       CreditRaises
  <2>2. /\ file.status \in Open /\ draft[Worker].id = file.id
        /\ file.status = "PENDING" =>
             draft[Worker].quote = file.quote /\ draft[Worker].status # "REQUESTED"
    BY <1>i, <2>1, Sets DEF WorkerTurn
  <2>g. draft[Worker] \in Texts
    BY DEF FundingTypes
  <2>3. CASE Deposit
    <3>1. PICK q \in Quotes : Go(Worker, "open", Text(draft[Worker].id, "PENDING", q))
      BY <2>3 DEF Deposit
    <3>2. file.status # "PENDING"
      BY <2>2, <2>3 DEF Deposit, StepsInv
    <3>. QED
      BY <1>v, <2>1, <2>2, <3>1, <3>2 DEF Text
  <2>4. CASE DepositRaises \/ CreditRaises
    BY <1>v, <2>1, <2>2, <2>4, Sets DEF DepositRaises, CreditRaises
  <2>5. CASE CheckPaid \/ CheckRaises
    BY <1>v, <2>1, <2>2, <2>5 DEF CheckPaid, CheckRaises
  <2>6. CASE CheckUnpaid
    <3>. DEFINE new == AfterUnpaid(draft[Worker])
    <3>1. /\ new.id = draft[Worker].id /\ new.quote = draft[Worker].quote
          /\ new.status \in {"EXPIRED", draft[Worker].status}
      BY <2>g DEF AfterUnpaid, Texts
    <3>. HIDE DEF new
    <3>. QED
      BY <1>v, <2>1, <2>2, <2>6, <3>1 DEF CheckUnpaid, new
  <2>7. CASE Credit
    <3>. DEFINE new == [draft[Worker] EXCEPT !.status = "CONFIRMED"]
    <3>1. /\ new.id = draft[Worker].id /\ new.quote = draft[Worker].quote
          /\ new.status = "CONFIRMED"
      BY <2>g DEF Texts
    <3>2. Go(Worker, "open", new)
      BY <2>7 DEF Credit
    <3>. HIDE DEF new
    <3>. QED
      BY <1>v, <2>1, <2>2, <3>1, <3>2
  <2>. QED
    BY <1>7, <2>3, <2>4, <2>5, <2>6, <2>7
<1>8. CASE UNCHANGED <<fileVars, pc, draft>>
  BY <1>8, <1>f, <1>i DEF OneWeb, WebTurn, WorkerTurn, TempOwned
<1>9. CASE \/ \E w \in Webs : Show(w)
           \/ \E q \in Quotes : Pay(q)
           \/ \E i \in Ids : DeadlinePasses(i)
           \/ UNCHANGED vars
  BY <1>8, <1>9 DEF Show, Pay, DeadlinePasses, vars
<1>. QED
  BY <1>1, <1>2, <1>3, <1>4, <1>5, <1>6, <1>7, <1>9, NextCases
-----------------------------------------------------------------------------
(* The invoices that were shown.                                           *)
LEMMA FileIsMade == FundingTypes /\ TextsInv => file \in Texts /\ WellMade(file)
BY DEF FundingTypes, TextsInv, InUse

LEMMA ShownStep ==
  /\ FundingTypes /\ TextsInv /\ StepsInv /\ TurnsInv /\ ShownInv /\ [Next]_vars
  => ShownInv'
<1>. SUFFICES ASSUME FundingTypes, TextsInv, StepsInv, TurnsInv, ShownInv, [Next]_vars
              PROVE  ShownInv'
  OBVIOUS
<1>. USE Constants, FundingAssumption DEF FundingAssumption
<1>g. Grows
  BY QuotesGrow
<1>m. file \in Texts /\ WellMade(file)
  BY FileIsMade
<1>q. \A q \in shown : q \in Quotes /\ mint[q] # "none" /\ mint'[q] # "none" /\ owner'[q] = owner[q]
  BY <1>g DEF Grows, ShownInv, FundingTypes
<1>k. ASSUME UNCHANGED <<fileVars, shown>>, raced => raced' PROVE ShownInv'
  BY Zenon, <1>k, <1>q DEF ShownInv, InvoiceStays, fileVars
<1>1. CASE \E p \in Processes : OpenTemp(p) \/ WriteText(p) \/ Replace(p) \/ Crash(p)
                                  \/ Restart(p)
  <2>. PICK p \in Processes : OpenTemp(p) \/ WriteText(p) \/ Replace(p) \/ Crash(p)
                                \/ Restart(p)
    BY <1>1
  <2>1. UNCHANGED <<shown, raced>>
    BY Zenon DEF OpenTemp, WriteText, Replace, Crash, Restart, worldVars
  <2>2. \A q \in shown' : mint'[q] # "none"
    BY <1>q, <2>1
  <2>3. ASSUME ~raced, NEW q \in shown
        PROVE  owner'[q] \in ended' \/ file' = Text(owner'[q], "PENDING", q)
    <3>i. OneWeb /\ WebTurn /\ WorkerTurn /\ TempOwned /\ FileWhole
      BY Zenon, <2>3 DEF TurnsInv
    <3>s. owner[q] \in ended \/ file = Text(owner[q], "PENDING", q)
      BY Zenon, <2>3 DEF ShownInv, InvoiceStays
    <3>e. ended \subseteq ended'
      BY DEF OpenTemp, WriteText, Replace, Crash, Restart, NoteEnd, fileVars
    <3>1. CASE file' = file
      BY <1>q, <3>1, <3>e, <3>s
    <3>2. CASE WriteText(p)
      BY <3>1, <3>2, <3>i DEF WriteText, TempOwned
    <3>3. CASE OpenTemp(p) \/ Crash(p) \/ Restart(p)
      BY <3>1, <3>3 DEF OpenTemp, Crash, Restart, fileVars
    <3>4. CASE Replace(p)
      <4>1. file' \in {file, draft[p]} /\ pc[p] = "replace"
        BY <3>4, <3>i DEF Replace, TempOwned
      <4>2. CASE p # Worker
        <5>1. file.status \notin Open
          BY <3>i, <4>1, <4>2, Sets DEF WebTurn
        <5>2. owner[q] \in ended
          BY <3>s, <5>1 DEF Text, Open
        <5>. QED
          BY <1>q, <3>e, <5>2
      <4>3. CASE p = Worker /\ file' = draft[Worker] /\ owner[q] \notin ended
        <5>1. file.status = "PENDING" /\ file.quote = q /\ file.id = owner[q]
          BY <3>s, <4>3 DEF Text
        <5>2. /\ draft[Worker].id = owner[q] /\ draft[Worker].quote = q
              /\ draft[Worker].status \in {"PENDING"} \cup Ended
          BY <3>i, <4>1, <4>3, <5>1, Sets DEF WorkerTurn, StepsInv
        <5>3. draft[Worker] \in Texts
          BY DEF FundingTypes
        <5>4. CASE draft[Worker].status = "PENDING"
          BY <1>q, <4>3, <5>2, <5>3, <5>4, TextTypes
        <5>5. CASE draft[Worker].status \in Ended
          <6>1. owner[q] \in Ids
            BY <1>m, <5>1 DEF WellMade, Open
          <6>2. owner[q] \in ended'
            BY <3>4, <4>3, <5>2, <5>5, <6>1 DEF Replace, NoteEnd
          <6>. QED
            BY <1>q, <6>2
        <5>. QED
          BY <5>2, <5>4, <5>5
      <4>. QED
        BY <1>q, <3>1, <3>e, <4>1, <4>2, <4>3
    <3>. QED
      BY <3>2, <3>3, <3>4
  <2>. QED
    BY Zenon, <2>1, <2>2, <2>3 DEF ShownInv, InvoiceStays
<1>2. CASE \E w \in Webs : Post(w)
  <2>1. UNCHANGED <<fileVars, shown>>
    BY <1>2 DEF Post, worldVars
  <2>2. raced => raced'
    BY Zenon, <1>2 DEF Post
  <2>. QED
    BY <1>k, <2>1, <2>2
<1>3. CASE \E w \in Webs : Show(w)
  <2>. PICK w \in Webs : Show(w)
    BY <1>3
  <2>1. UNCHANGED <<fileVars, raced, mint, owner>> /\ shown' = shown \cup {file.quote}
    BY DEF Show, mintVars
  <2>2. /\ file.quote # 0 /\ mint[file.quote] # "none" /\ owner[file.quote] = file.id
        /\ file.status \in {"PENDING"} \cup Ended
    BY <1>m DEF Show, WellMade
  <2>3. ASSUME ~raced
        PROVE  \/ owner[file.quote] \in ended
               \/ file = Text(owner[file.quote], "PENDING", file.quote)
    <3>1. FileWhole
      BY Zenon, <2>3 DEF TurnsInv
    <3>2. CASE file.status = "PENDING"
      BY <1>m, <2>2, <3>2, TextTypes
    <3>3. CASE file.status \in Ended
      BY <2>2, <3>1, <3>3 DEF FileWhole
    <3>. QED
      BY <2>2, <3>2, <3>3
  <2>4. \A q \in shown' : mint'[q] # "none"
    BY <1>q, <2>1, <2>2
  <2>5. ASSUME ~raced, NEW q \in shown'
        PROVE  owner'[q] \in ended' \/ file' = Text(owner'[q], "PENDING", q)
    <3>1. CASE q \in shown
      BY Zenon, <2>1, <2>5, <3>1 DEF ShownInv, InvoiceStays, fileVars
    <3>2. CASE q = file.quote
      BY <2>1, <2>3, <2>5, <3>2 DEF fileVars
    <3>. QED
      BY <2>1, <3>1, <3>2
  <2>. QED
    BY Zenon, <2>1, <2>4, <2>5 DEF ShownInv, InvoiceStays
<1>4. CASE \/ Poll \/ Deposit \/ DepositRaises \/ CheckPaid \/ CheckUnpaid \/ CheckRaises
           \/ Credit \/ CreditRaises
  <2>1. UNCHANGED <<fileVars, shown>>
    BY <1>4 DEF Poll, Deposit, DepositRaises, CheckPaid, CheckUnpaid, CheckRaises, Credit,
       CreditRaises, worldVars
  <2>2. UNCHANGED raced
    BY Zenon, <1>4 DEF Poll, Deposit, DepositRaises, CheckPaid, CheckUnpaid, CheckRaises,
       Credit, CreditRaises
  <2>. QED
    BY Zenon, <1>k, <2>1, <2>2
<1>5. CASE \/ \E q \in Quotes : Pay(q)
           \/ \E i \in Ids : DeadlinePasses(i)
           \/ UNCHANGED vars
  <2>1. UNCHANGED <<fileVars, shown>>
    BY <1>5 DEF Pay, DeadlinePasses, vars, worldVars
  <2>2. UNCHANGED raced
    BY Zenon, <1>5 DEF Pay, DeadlinePasses, vars
  <2>. QED
    BY Zenon, <1>k, <2>1, <2>2
<1>. QED
  BY <1>1, <1>2, <1>3, <1>4, <1>5, NextCases

-----------------------------------------------------------------------------
LEMMA FundingStep == FundingInv /\ [Next]_vars => FundingInv'
BY Zenon, TypesStep, TextsStep, StepsStep, TurnsStep, ShownStep DEF FundingInv

LEMMA FundingHolds == Spec => []FundingInv
BY FundingInit, FundingStep, PTL DEF Spec

\* An invoice the operator was shown stays in the file until its request ended, for any
\* number of requests, quotes, crashes and web processes, as long as no two of these
\* create requests at once: the status alone hands the file from one side to the other.
THEOREM InvoicesStay == Spec => []InvoiceStays
<1>1. FundingInv => InvoiceStays
  BY DEF FundingInv, ShownInv
<1>. QED
  BY <1>1, FundingHolds, PTL

\* No request is called confirmed without its issued and recorded quote, and none with
\* a quote is called expired without a check begun past the timeout, races included.
THEOREM RequestsEndRightly == Spec => []EndedRightly
<1>1. FundingInv => EndedRightly
  BY FileIsMade DEF FundingInv, WellMade, EndedRightly
<1>. QED
  BY <1>1, FundingHolds, PTL
=============================================================================
