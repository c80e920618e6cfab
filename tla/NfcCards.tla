------------------------------- MODULE NfcCards -------------------------------
(***************************************************************************)
(* The cards of one wallet: its policy row, which the owner's pages change *)
(* (prepare, read back, activate, revoke), and the logins, which anyone    *)
(* who holds a copy of a card and its PIN may try.                         *)
(*                                                                         *)
(* The handlers run in several web processes.  None of them awaits while   *)
(* it works on the database, but each reads in one transaction and writes  *)
(* in another, and the pages it answers with may be submitted much later.  *)
(* A card stands for its generation: each generation is encrypted once.    *)
(***************************************************************************)
EXTENDS Integers, Sequences, FiniteSets

CONSTANTS
  Cards,         \* credentials that can be prepared
  Tabs,          \* the owner's pages
  Browsers,      \* browsers with a login page
  Challenges,    \* login attempts
  Requests,      \* submitted logins in the hands of a web process
  Attempts,      \* ATTEMPTS
  MaxRevision,   \* bound: changes of the policy
  NoCard,
  Foreign        \* a credential that does not decrypt here

ASSUME CardAssumption ==
  /\ NoCard \notin Cards /\ Foreign \notin Cards /\ NoCard # Foreign
  /\ Attempts \in Nat \ {0} /\ MaxRevision \in Nat
  /\ "open" \notin Cards \cup {NoCard, Foreign} /\ "none" \notin Cards \cup {NoCard, Foreign}
  /\ "gone" \notin Cards \cup {NoCard, Foreign}

VARIABLES
  revision, active, pending, failures,  \* NfcCardPolicy; revision -1: no row yet
  lapsed,             \* the deadline of the pending card has passed
  prepared, expired,  \* cards handed out, cards past their expiry
  at, card, seen,     \* a tab's request: its step, card and revision read
  page, form,         \* what a tab shows: the policy; a card to activate
  chal,               \* NfcLoginChallenge: none, open, the card read, gone
  cookie,             \* the challenge a browser's cookie belongs to
  login,              \* submitted logins
  spent,              \* history: cards that are or were active
  sessions            \* history: cards a challenge opened sessions with

policyVars == <<revision, active, pending, failures, lapsed>>
cardVars   == <<prepared, expired>>
tabVars    == <<at, card, seen, page, form>>
loginVars  == <<chal, cookie, login, sessions>>
vars       == <<policyVars, cardVars, tabVars, loginVars, spent>>

NoView == [revision |-> -1, active |-> NoCard, pending |-> NoCard]
Idle == [chal |-> NoCard, browser |-> NoCard, card |-> NoCard, revision |-> -1, failures |-> 0]

Init ==
  /\ revision = -1 /\ active = NoCard /\ pending = NoCard /\ failures = 0
  /\ lapsed = FALSE /\ prepared = {} /\ expired = {}
  /\ at = [t \in Tabs |-> "idle"] /\ card = [t \in Tabs |-> NoCard]
  /\ seen = [t \in Tabs |-> -1]
  /\ page = [t \in Tabs |-> NoView] /\ form = [t \in Tabs |-> NoView]
  /\ chal = [c \in Challenges |-> "none"] /\ cookie = [b \in Browsers |-> NoCard]
  /\ login = [r \in Requests |-> Idle]
  /\ spent = {} /\ sessions = [c \in Challenges |-> <<>>]

\* The policy as a page shows it.
View == [revision |-> revision, active |-> active, pending |-> pending]

-----------------------------------------------------------------------------
(* The owner's pages.                                                      *)

\* Mutant: the row is updated whatever its revision.
AnyRevision(r) == r <= revision

\* compare_update: WHERE revision = the one read.
SameRevision(r) == r = revision

\* compare_update, when it finds its revision.
CompareUpdate(r, newActive, newPending) ==
  /\ SameRevision(r) /\ revision >= 0 /\ revision < MaxRevision
  /\ revision' = revision + 1 /\ active' = newActive /\ pending' = newPending

\* compare_update answers 409.
Refused(r) == ~SameRevision(r) \/ revision < 0

Goes(t, step) == at' = [at EXCEPT ![t] = step]

\* The activation form of a tab, and the card in it.
Offers(t, c, view) == card' = [card EXCEPT ![t] = c] /\ form' = [form EXCEPT ![t] = view]

\* GET /nfc, also where activate and revoke redirect to.
OpenPage(t) ==
  /\ at[t] = "idle" /\ page' = [page EXCEPT ![t] = View] /\ Offers(t, NoCard, NoView)
  /\ UNCHANGED <<policyVars, cardVars, at, seen, loginVars, spent>>

\* page: the policy is read once more for the page.
Render(t) ==
  /\ at[t] = "rendering" /\ Goes(t, "idle")
  /\ page' = [page EXCEPT ![t] = View]
  /\ UNCHANGED <<policyVars, cardVars, card, seen, form, loginVars, spent>>

\* prepare, up to its update: a new generation, the row, its revision.
Prepare(t) ==
  /\ at[t] = "idle" /\ Goes(t, "preparing")
  /\ \E c \in Cards \ prepared : prepared' = prepared \cup {c} /\ Offers(t, c, NoView)
  /\ revision' = IF revision < 0 THEN 0 ELSE revision
  /\ seen' = [seen EXCEPT ![t] = revision']
  /\ UNCHANGED <<active, pending, failures, lapsed, expired, page, loginVars, spent>>

\* The candidate of another tab is superseded.
Prepared(t) ==
  /\ at[t] = "preparing" /\ seen' = [seen EXCEPT ![t] = -1] /\ Offers(t, NoCard, NoView)
  /\ \/ CompareUpdate(seen[t], active, card[t]) /\ lapsed' = FALSE /\ Goes(t, "rendering")
     \/ Refused(seen[t]) /\ Goes(t, "idle") /\ UNCHANGED <<revision, active, pending, lapsed>>
  /\ UNCHANGED <<failures, cardVars, page, loginVars, spent>>

\* read_card, for any card the owner holds: a pending one can be activated.
ReadCard(t) ==
  /\ at[t] = "idle" /\ Goes(t, "rendering")
  /\ \E c \in prepared :
       IF pending = c /\ ~lapsed /\ c \notin expired THEN Offers(t, c, View)
                                                      ELSE Offers(t, NoCard, NoView)
  /\ UNCHANGED <<policyVars, cardVars, seen, page, loginVars, spent>>

\* The tests of activate on what policy_for has read.
Activatable(t) ==
  /\ card[t] \notin expired /\ pending = card[t] /\ ~lapsed
  /\ revision = form[t].revision

Activate(t) ==
  /\ at[t] = "idle" /\ form[t] # NoView /\ Activatable(t)
  /\ Goes(t, "activating") /\ seen' = [seen EXCEPT ![t] = revision]
  /\ UNCHANGED <<policyVars, cardVars, card, page, form, loginVars, spent>>

Activated(t) ==
  /\ at[t] = "activating" /\ Goes(t, "idle") /\ seen' = [seen EXCEPT ![t] = -1]
  /\ \/ /\ CompareUpdate(seen[t], card[t], NoCard) /\ failures' = 0 /\ lapsed' = FALSE
        /\ spent' = spent \cup {card[t]}
     \/ Refused(seen[t]) /\ UNCHANGED <<policyVars, spent>>
  /\ UNCHANGED <<cardVars, card, page, form, loginVars>>

\* One statement; the count of failures stays.
Revoke(t) ==
  /\ at[t] = "idle" /\ page[t] # NoView
  /\ CompareUpdate(page[t].revision, NoCard, NoCard) /\ lapsed' = FALSE
  /\ UNCHANGED <<failures, cardVars, tabVars, loginVars, spent>>

\* The web process dies, or the database is away: the tab shows an error.
TabFails(t) ==
  /\ at[t] # "idle" /\ Goes(t, "idle") /\ seen' = [seen EXCEPT ![t] = -1]
  /\ UNCHANGED <<policyVars, cardVars, card, page, form, loginVars, spent>>

-----------------------------------------------------------------------------
(* Login.                                                                  *)

\* login_page: a new challenge replaces the browser's cookie.
OpenLogin(b) ==
  /\ \E c \in Challenges :
       /\ chal[c] = "none" /\ chal' = [chal EXCEPT ![c] = "open"]
       /\ cookie' = [cookie EXCEPT ![b] = c]
  /\ UNCHANGED <<policyVars, cardVars, tabVars, login, sessions, spent>>

\* read_for_login: the first credential read is bound to the challenge.
Read(b) ==
  /\ \E c \in Challenges, k \in prepared \cup {Foreign} :
       cookie[b] = c /\ chal[c] = "open" /\ chal' = [chal EXCEPT ![c] = k]
  /\ UNCHANGED <<policyVars, cardVars, tabVars, cookie, login, sessions, spent>>

\* Mutant: the challenge is looked up and not deleted.
Looked(c) == chal' = [chal EXCEPT ![c] = @]

\* DELETE ... WHERE the challenge is this browser's and bound to this card.
Consumed(c) == chal' = [chal EXCEPT ![c] = "gone"]

\* Mutant: one attempt more.
LockedLate == failures > Attempts

Locked == failures >= Attempts

\* login, and authorize up to its update.  The delete and the read of the policy
\* are two transactions and one step here: nothing but a login of the same
\* challenge, which it ends, can tell when it was deleted.
Submit(r, b) ==
  /\ login[r] = Idle
  /\ \E c \in Challenges :
       LET k == chal[c] IN
       /\ cookie[b] = c /\ k \in Cards \cup {Foreign} /\ Consumed(c)
       /\ login' = [login EXCEPT ![r] =
            IF active = k /\ k \notin expired /\ ~Locked
            THEN [chal |-> c, browser |-> b, card |-> k, revision |-> revision,
                  failures |-> failures]
            ELSE Idle]
  /\ UNCHANGED <<policyVars, cardVars, tabVars, cookie, sessions, spent>>

\* Mutant: the update does not compare the count it has read.
CountNotCompared(r) ==
  revision = login[r].revision /\ active = login[r].card /\ active \notin expired

\* The WHERE clause of authorize.
Authorizes(r) ==
  /\ revision = login[r].revision /\ active = login[r].card /\ active \notin expired
  /\ failures = login[r].failures /\ ~Locked

\* "CAS is the authorization point": with it a right PIN opens a session, a wrong one
\* counts, and a lost update does neither.
Authorize(r) ==
  /\ login[r] # Idle /\ login' = [login EXCEPT ![r] = Idle]
  /\ \/ /\ Authorizes(r)
        /\ failures' = 0
        /\ sessions' = [sessions EXCEPT ![login[r].chal] = Append(@, login[r].card)]
        /\ cookie' = [cookie EXCEPT ![login[r].browser] = NoCard]
     \/ /\ Authorizes(r)
        /\ failures' = failures + 1 /\ UNCHANGED <<cookie, sessions>>
     \/ ~Authorizes(r) /\ UNCHANGED <<failures, cookie, sessions>>
  /\ UNCHANGED <<revision, active, pending, lapsed, cardVars, tabVars, chal, spent>>

\* The web process dies, or the database is away (503): no session.
LoginFails(r) ==
  /\ login[r] # Idle /\ login' = [login EXCEPT ![r] = Idle]
  /\ UNCHANGED <<policyVars, cardVars, tabVars, chal, cookie, sessions, spent>>

-----------------------------------------------------------------------------
(* Time.                                                                   *)

PendingLapses ==
  /\ pending # NoCard /\ ~lapsed /\ lapsed' = TRUE
  /\ UNCHANGED <<revision, active, pending, failures, cardVars, tabVars, loginVars, spent>>

CardExpires(c) ==
  /\ c \in prepared \ expired /\ expired' = expired \cup {c}
  /\ UNCHANGED <<policyVars, prepared, tabVars, loginVars, spent>>

ChallengeExpires(c) ==
  /\ chal[c] \notin {"none", "gone"} /\ chal' = [chal EXCEPT ![c] = "gone"]
  /\ UNCHANGED <<policyVars, cardVars, tabVars, cookie, login, sessions, spent>>

-----------------------------------------------------------------------------
Owner(t) ==
  \/ OpenPage(t) \/ Render(t) \/ Prepare(t) \/ Prepared(t) \/ ReadCard(t)
  \/ Activate(t) \/ Activated(t) \/ Revoke(t) \/ TabFails(t)

Visitor(b) == OpenLogin(b) \/ Read(b) \/ \E r \in Requests : Submit(r, b)

Next ==
  \/ \E t \in Tabs : Owner(t)
  \/ \E b \in Browsers : Visitor(b)
  \/ \E r \in Requests : Authorize(r) \/ LoginFails(r)
  \/ PendingLapses
  \/ \E c \in Cards : CardExpires(c)
  \/ \E c \in Challenges : ChallengeExpires(c)

Spec == Init /\ [][Next]_vars

-----------------------------------------------------------------------------
Views == [revision : Int, active : Cards \cup {NoCard}, pending : Cards \cup {NoCard}]

Logins == [chal : Challenges \cup {NoCard}, browser : Browsers \cup {NoCard},
           card : Cards \cup {NoCard}, revision : Int, failures : Int]

\* The count of failures stops at the lock.
PolicyTypes ==
  /\ revision \in Int /\ active \in Cards \cup {NoCard} /\ pending \in Cards \cup {NoCard}
  /\ failures \in 0..Attempts /\ lapsed \in BOOLEAN

TabTypes ==
  /\ at \in [Tabs -> {"idle", "rendering", "preparing", "activating"}]
  /\ card \in [Tabs -> Cards \cup {NoCard}] /\ seen \in [Tabs -> Int]
  /\ page \in [Tabs -> Views] /\ form \in [Tabs -> Views]

LoginTypes ==
  /\ chal \in [Challenges -> {"none", "open", "gone", Foreign} \cup Cards]
  /\ cookie \in [Browsers -> Challenges \cup {NoCard}]
  /\ login \in [Requests -> Logins] /\ sessions \in [Challenges -> Seq(Cards)]

TypeOK ==
  /\ PolicyTypes /\ TabTypes /\ LoginTypes
  /\ prepared \subseteq Cards /\ expired \subseteq prepared /\ spent \subseteq prepared

-----------------------------------------------------------------------------
(* Correctness.                                                            *)

\* "Policy updates use revision checks so stale activation cannot undo revocation":
\* an activation or a revocation changes the policy its page has shown.
ChangesWhatItShows(t) ==
  /\ Activated(t) /\ active' # active => form[t] = View
  /\ Revoke(t) => page[t] = View

OwnersSeeWhatTheyChange == [][\A t \in Tabs : ChangesWhatItShows(t)]_vars

\* What an activation or a login decides, it decides as if it were alone: the
\* policy, the attempts and the sessions follow CardPromise.
Promise == INSTANCE CardPromise WITH
  valid <- active, left <- Attempts - failures

KeepsPromise == Promise!Spec
=============================================================================
