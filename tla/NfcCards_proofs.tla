--------------------------- MODULE NfcCards_proofs ---------------------------
(***************************************************************************)
(* Proofs about NfcCards, for any number of cards, pages, browsers, logins *)
(* and attempts: types, what owners see when they change the policy, and   *)
(* that the policy and the logins implement CardPromise.                   *)
(*                                                                         *)
(* The inductive invariant: a page that shows the current revision shows   *)
(* the current policy; the card of a page that prepares or activates was   *)
(* never active; and a login in the hands of a process is alone with its   *)
(* challenge, which has opened no session.                                 *)
(***************************************************************************)
EXTENDS NfcCards, TLAPS

\* What a page shows of the current revision is the current policy.
Current(v) == v.revision <= revision /\ (v.revision = revision => v = View)

ViewInv ==
  revision >= -1 /\ Current(NoView) /\ \A t \in Tabs : Current(form[t]) /\ Current(page[t])

\* A form that offers a card shows that card as pending; an activation in progress
\* has read the revision of its form.
FormInv ==
  \A t \in Tabs :
    /\ form[t] # NoView => form[t].pending = card[t] /\ card[t] \in Cards
    /\ at[t] = "activating" => form[t] # NoView /\ seen[t] = form[t].revision

\* Cards that wait for activation were never active, and each is prepared once.
FreshInv ==
  /\ pending \notin spent /\ (active # NoCard => active \in spent)
  /\ pending # NoCard => pending \in prepared
  /\ \A t \in Tabs : at[t] = "preparing" =>
       /\ card[t] \in prepared \ spent /\ card[t] # pending
       /\ \A u \in Tabs \ {t} : at[u] = "preparing" => card[u] # card[t]

\* A login in progress is alone with its challenge, which opened no session yet.
LoginInv ==
  /\ \A c \in Challenges : chal[c] # "gone" => sessions[c] = <<>>
  /\ \A r \in Requests : login[r] # Idle =>
       /\ login[r].chal \in Challenges /\ login[r].browser \in Browsers
       /\ login[r].card \in Cards
       /\ chal[login[r].chal] = "gone" /\ sessions[login[r].chal] = <<>>
       /\ \A q \in Requests \ {r} : login[q] # Idle => login[q].chal # login[r].chal

Inv == TypeOK /\ ViewInv /\ FormInv /\ FreshInv /\ LoginInv

-----------------------------------------------------------------------------
LEMMA InitInv == Init => Inv
<1>. SUFFICES ASSUME Init PROVE Inv
  OBVIOUS
<1>. USE CardAssumption
<1>1. NoView \in Views /\ Idle \in Logins
  BY DEF NoView, Views, Idle, Logins
<1>2. PolicyTypes /\ TabTypes
  <2>1. PolicyTypes
    <3>1. lapsed \in BOOLEAN
      BY Zenon DEF Init
    <3>2. /\ revision \in Int /\ active \in Cards \cup {NoCard}
          /\ pending \in Cards \cup {NoCard} /\ failures \in 0..Attempts
      BY DEF Init
    <3>. QED
      BY <3>1, <3>2 DEF PolicyTypes
  <2>2. TabTypes
    BY <1>1 DEF Init, TabTypes
  <2>. QED
    BY <2>1, <2>2
<1>3. chal \in [Challenges -> {"none", "open", "gone", Foreign} \cup Cards]
      /\ cookie \in [Browsers -> Challenges \cup {NoCard}]
  BY DEF Init
<1>4. login \in [Requests -> Logins] /\ sessions \in [Challenges -> Seq(Cards)]
  BY <1>1 DEF Init
<1>5. TypeOK
  BY <1>2, <1>3, <1>4 DEF Init, TypeOK, LoginTypes
<1>6. ViewInv /\ FormInv
  BY DEF Init, ViewInv, Current, View, NoView, FormInv
<1>7. FreshInv
  BY DEF Init, FreshInv
<1>8. LoginInv
  BY DEF Init, LoginInv
<1>. QED
  BY <1>5, <1>6, <1>7, <1>8 DEF Inv

\* The current policy is a view.
LEMMA ViewType == TypeOK => View \in Views
BY DEF TypeOK, PolicyTypes, View, Views

-----------------------------------------------------------------------------
(* Types.                                                                  *)

LEMMA OwnerTypes ==
  ASSUME TypeOK, ViewInv, FormInv, FreshInv, NEW t \in Tabs, Owner(t)
  PROVE  TypeOK'
<1>. USE CardAssumption DEF TypeOK, Goes, Offers
<1>0. NoView \in Views /\ View \in Views
  BY ViewType DEF NoView, Views
<1>1. LoginTypes'
  BY DEF Owner, OpenPage, Render, Prepare, Prepared, ReadCard, Activate, Activated, Revoke,
     TabFails, loginVars, LoginTypes
<1>2. CASE OpenPage(t) \/ Render(t) \/ ReadCard(t) \/ Activate(t) \/ TabFails(t)
  <2>1. PolicyTypes' /\ (prepared \subseteq Cards /\ expired \subseteq prepared /\ spent \subseteq prepared)'
    BY <1>2 DEF OpenPage, Render, ReadCard, Activate, TabFails, policyVars, cardVars, PolicyTypes
  <2>2. TabTypes'
    BY <1>0, <1>2 DEF OpenPage, Render, ReadCard, Activate, TabFails, TabTypes, PolicyTypes
  <2>. QED
    BY <1>1, <2>1, <2>2
<1>3. CASE Prepare(t)
  <2>1. PolicyTypes' /\ (prepared \subseteq Cards /\ expired \subseteq prepared /\ spent \subseteq prepared)'
    BY <1>3 DEF Prepare, PolicyTypes
  <2>2. TabTypes'
    BY <1>0, <1>3, <2>1 DEF Prepare, TabTypes, PolicyTypes
  <2>. QED
    BY <1>1, <2>1, <2>2
<1>4. CASE Prepared(t)
  <2>0. card[t] \in Cards \cup {NoCard}
    BY DEF TabTypes
  <2>1. PolicyTypes' /\ (prepared \subseteq Cards /\ expired \subseteq prepared /\ spent \subseteq prepared)'
    <3>0. lapsed' \in BOOLEAN
      BY <1>4, Zenon DEF Prepared, PolicyTypes
    <3>1. /\ revision' \in Int /\ active' \in Cards \cup {NoCard}
          /\ pending' \in Cards \cup {NoCard}
      BY <1>4, <2>0 DEF Prepared, CompareUpdate, PolicyTypes
    <3>2. UNCHANGED <<failures, prepared, expired, spent>>
      BY <1>4 DEF Prepared, cardVars
    <3>. QED
      BY <3>0, <3>1, <3>2 DEF PolicyTypes
  <2>2. TabTypes'
    BY <1>0, <1>4 DEF Prepared, TabTypes
  <2>. QED
    BY <1>1, <2>1, <2>2
<1>5. CASE Activated(t) \/ Revoke(t)
  <2>1. TabTypes'
    BY <1>5 DEF Activated, Revoke, tabVars, TabTypes
  <2>2. PolicyTypes'
    <3>0. card[t] \in Cards \cup {NoCard}
      BY DEF TabTypes
    <3>1. lapsed' \in BOOLEAN
      BY <1>5, Zenon DEF Activated, Revoke, policyVars, PolicyTypes
    <3>2. /\ revision' \in Int /\ active' \in Cards \cup {NoCard}
          /\ pending' \in Cards \cup {NoCard} /\ failures' \in 0..Attempts
      BY <1>5, <3>0 DEF Activated, Revoke, CompareUpdate, policyVars, PolicyTypes
    <3>. QED
      BY <3>1, <3>2 DEF PolicyTypes
  <2>3. (prepared \subseteq Cards /\ expired \subseteq prepared /\ spent \subseteq prepared)'
    <3>1. CASE spent' = spent
      BY <1>5, <3>1 DEF Activated, Revoke, cardVars
    <3>2. CASE Activated(t) /\ spent' = spent \cup {card[t]} /\ SameRevision(seen[t])
      <4>1. form[t] = View /\ form[t] # NoView /\ form[t].pending = card[t] /\ card[t] \in Cards
        BY <3>2 DEF Activated, SameRevision, FormInv, ViewInv, Current
      <4>2. card[t] \in prepared
        BY <4>1 DEF View, FreshInv
      <4>. QED
        BY <3>2, <4>2 DEF Activated, cardVars
    <3>. QED
      BY <1>5, <3>1, <3>2 DEF Activated, Revoke, CompareUpdate
  <2>. QED
    BY <1>1, <2>1, <2>2, <2>3
<1>. QED
  BY <1>2, <1>3, <1>4, <1>5 DEF Owner

LEMMA VisitorTypes ==
  ASSUME TypeOK,
         \/ \E b \in Browsers : Visitor(b)
         \/ \E r \in Requests : Authorize(r) \/ LoginFails(r)
         \/ PendingLapses
         \/ \E c \in Cards : CardExpires(c)
         \/ \E c \in Challenges : ChallengeExpires(c),
         LoginInv
  PROVE  TypeOK'
<1>. USE CardAssumption DEF TypeOK
<1>1. Idle \in Logins
  BY DEF Idle, Logins
<1>2. ASSUME NEW b \in Browsers, Visitor(b)
      PROVE  TypeOK'
  <2>1. PolicyTypes' /\ TabTypes'
        /\ (prepared \subseteq Cards /\ expired \subseteq prepared /\ spent \subseteq prepared)'
    BY <1>2 DEF Visitor, OpenLogin, Read, Submit, policyVars, tabVars, cardVars, PolicyTypes, TabTypes
  <2>2. CASE OpenLogin(b) \/ Read(b)
    BY <2>1, <2>2 DEF OpenLogin, Read, LoginTypes
  <2>3. ASSUME NEW r \in Requests, Submit(r, b)
        PROVE  LoginTypes'
    <3>1. login' \in [Requests -> Logins]
      BY <1>1, <2>3 DEF Submit, LoginTypes, Logins, PolicyTypes
    <3>. QED
      BY <2>3, <3>1 DEF Submit, Consumed, LoginTypes
  <2>. QED
    BY <1>2, <2>1, <2>2, <2>3 DEF Visitor
<1>3. ASSUME NEW r \in Requests, Authorize(r)
      PROVE  TypeOK'
  <2>1. PolicyTypes'
    BY <1>3 DEF Authorize, Authorizes, Locked, PolicyTypes
  <2>2. TabTypes' /\ (prepared \subseteq Cards /\ expired \subseteq prepared /\ spent \subseteq prepared)'
    BY <1>3 DEF Authorize, tabVars, cardVars, TabTypes
  <2>3. sessions' \in [Challenges -> Seq(Cards)]
    <3>1. CASE UNCHANGED sessions
      BY <3>1 DEF LoginTypes
    <3>2. CASE sessions' = [sessions EXCEPT ![login[r].chal] = Append(@, login[r].card)]
      <4>1. login[r].chal \in Challenges /\ login[r].card \in Cards
        BY <1>3 DEF Authorize, LoginInv
      <4>2. Append(sessions[login[r].chal], login[r].card) \in Seq(Cards)
        BY <4>1 DEF LoginTypes
      <4>. QED
        BY <3>2, <4>1, <4>2 DEF LoginTypes
    <3>. QED
      BY <1>3, <3>1, <3>2 DEF Authorize
  <2>4. LoginTypes'
    BY <1>1, <1>3, <2>3 DEF Authorize, LoginTypes
  <2>. QED
    BY <2>1, <2>2, <2>4
<1>4. ASSUME NEW r \in Requests, LoginFails(r)
      PROVE  TypeOK'
  BY <1>1, <1>4 DEF LoginFails, policyVars, tabVars, cardVars, PolicyTypes, TabTypes, LoginTypes
<1>5. CASE PendingLapses \/ \E c \in Cards : CardExpires(c)
  BY <1>5 DEF PendingLapses, CardExpires, policyVars, tabVars, cardVars, loginVars, PolicyTypes,
     TabTypes, LoginTypes
<1>6. ASSUME NEW c \in Challenges, ChallengeExpires(c)
      PROVE  TypeOK'
  BY <1>6 DEF ChallengeExpires, policyVars, tabVars, cardVars, PolicyTypes, TabTypes, LoginTypes
<1>. QED
  BY <1>2, <1>3, <1>4, <1>5, <1>6

-----------------------------------------------------------------------------
(* What pages show, and cards that wait.                                   *)

\* The owner's steps keep what pages show: a change of the policy is a new revision.
LEMMA OwnerViews ==
  ASSUME Inv, NEW t \in Tabs, Owner(t)
  PROVE  ViewInv'
<1>. USE DEF Inv
<1>0. revision \in Int /\ page \in [Tabs -> Views] /\ form \in [Tabs -> Views]
      /\ \A v \in Views : v.revision \in Int
  BY DEF TypeOK, PolicyTypes, TabTypes, Views
<1>1. CASE UNCHANGED <<revision, active, pending>>
  <2>1. View' = View
    BY <1>1 DEF View
  <2>2. \A u \in Tabs : form'[u] \in {form[u], View, NoView} /\ page'[u] \in {page[u], View}
    BY <1>0 DEF Owner, OpenPage, Render, Prepare, Prepared, ReadCard, Activate, Activated, Revoke,
       TabFails, Offers, tabVars
  <2>3. \A v : Current(v) => Current(v)'
    BY <1>1, <2>1 DEF Current
  <2>4. Current(View) /\ Current(NoView)
    BY <1>0 DEF ViewInv, Current, View, NoView, TypeOK, PolicyTypes, FreshInv
  <2>. QED
    BY <1>1, <2>2, <2>3, <2>4 DEF ViewInv
<1>2. CASE Prepare(t) /\ revision < 0
  <2>1. revision' = 0 /\ revision = -1
    BY <1>0, <1>2 DEF Prepare, ViewInv
  <2>2. \A u \in Tabs : form'[u] \in {form[u], NoView} /\ page'[u] = page[u]
    BY <1>0, <1>2 DEF Prepare, Offers
  <2>. QED
    BY <1>0, <2>1, <2>2 DEF ViewInv, Current, NoView
<1>3. CASE revision' = revision + 1 /\ ~Prepare(t)
  <2>1. \A u \in Tabs : form'[u] \in {form[u], NoView} /\ page'[u] = page[u]
    BY <1>0, <1>3 DEF Owner, OpenPage, Render, Prepared, ReadCard, Activate, Activated, Revoke,
       TabFails, Offers, tabVars, policyVars
  <2>. QED
    BY <1>0, <1>3, <2>1 DEF ViewInv, Current, NoView
<1>. QED
  BY <1>0, <1>1, <1>2, <1>3 DEF Owner, OpenPage, Render, Prepare, Prepared, ReadCard, Activate,
     Activated, Revoke, TabFails, CompareUpdate, policyVars

\* They keep what forms offer.
LEMMA OwnerForms ==
  ASSUME Inv, NEW t \in Tabs, Owner(t)
  PROVE  FormInv'
<1>. USE DEF Inv, FormInv
<1>0. /\ at \in [Tabs -> {"idle", "rendering", "preparing", "activating"}]
      /\ card \in [Tabs -> Cards \cup {NoCard}] /\ seen \in [Tabs -> Int]
      /\ form \in [Tabs -> Views]
  BY DEF TypeOK, TabTypes
<1>1. \A u \in Tabs \ {t} : /\ form'[u] = form[u] /\ card'[u] = card[u]
                             /\ at'[u] = at[u] /\ seen'[u] = seen[u]
  BY <1>0 DEF Owner, OpenPage, Render, Prepare, Prepared, ReadCard, Activate, Activated, Revoke,
     TabFails, Offers, Goes, tabVars
<1>2. CASE OpenPage(t) \/ Prepare(t) \/ Prepared(t)
  <2>1. form'[t] = NoView /\ at'[t] # "activating"
    BY <1>0, <1>2 DEF OpenPage, Prepare, Prepared, Offers, Goes
  <2>. QED
    BY <1>1, <2>1
<1>3. CASE ReadCard(t)
  <2>1. at'[t] = "rendering"
    BY <1>0, <1>3 DEF ReadCard, Goes
  <2>2. form'[t] = NoView \/ (form'[t] = View /\ pending = card'[t] /\ card'[t] \in prepared)
    <3>1. PICK c \in prepared : (Offers(t, c, View) /\ pending = c) \/ Offers(t, NoCard, NoView)
      BY <1>3 DEF ReadCard
    <3>. QED
      BY <1>0, <3>1 DEF Offers
  <2>. QED
    BY <1>1, <2>1, <2>2 DEF View, TypeOK
<1>4. CASE Activate(t)
  <2>1. form' = form /\ card' = card /\ form[t] # NoView /\ seen'[t] = form[t].revision
    BY <1>0, <1>4 DEF Activate, Activatable
  <2>. QED
    BY <1>1, <2>1
<1>5. CASE Render(t) \/ Activated(t) \/ Revoke(t) \/ TabFails(t)
  <2>1. form' = form /\ card' = card /\ at'[t] # "activating"
    BY <1>0, <1>5 DEF Render, Activated, Revoke, TabFails, Goes, tabVars
  <2>. QED
    BY <1>1, <2>1
<1>. QED
  BY <1>2, <1>3, <1>4, <1>5 DEF Owner

\* An activation that goes through activates the pending card.
LEMMA ActivatesPending ==
  ASSUME Inv, NEW t \in Tabs, Activated(t), SameRevision(seen[t])
  PROVE  form[t] = View /\ card[t] = pending /\ card[t] \in Cards
BY DEF Inv, Activated, SameRevision, ViewInv, Current, FormInv, View

\* They keep the cards that wait apart from those that were active.
LEMMA OwnerFresh ==
  ASSUME Inv, NEW t \in Tabs, Owner(t)
  PROVE  FreshInv'
<1>. USE CardAssumption DEF Inv
<1>0. /\ at \in [Tabs -> {"idle", "rendering", "preparing", "activating"}]
      /\ card \in [Tabs -> Cards \cup {NoCard}]
      /\ pending \in Cards \cup {NoCard} /\ active \in Cards \cup {NoCard}
      /\ prepared \subseteq Cards /\ spent \subseteq prepared /\ NoCard \notin Cards
  BY DEF TypeOK, PolicyTypes, TabTypes
<1>1. CASE OpenPage(t) \/ Render(t) \/ ReadCard(t) \/ Activate(t) \/ TabFails(t)
  <2>1. /\ UNCHANGED <<active, pending, prepared, spent>>
        /\ \A u \in Tabs : at'[u] = "preparing" => at[u] = "preparing" /\ card'[u] = card[u]
    BY <1>0, <1>1 DEF OpenPage, Render, ReadCard, Activate, TabFails, Goes, Offers, policyVars, cardVars
  <2>. QED
    BY <2>1 DEF FreshInv
<1>2. CASE Prepare(t)
  <2>1. PICK c \in Cards \ prepared : prepared' = prepared \cup {c} /\ Offers(t, c, NoView)
    BY <1>2 DEF Prepare
  <2>2. card'[t] = c /\ \A u \in Tabs \ {t} : card'[u] = card[u] /\ at'[u] = at[u]
    BY <1>0, <1>2, <2>1 DEF Prepare, Goes, Offers
  <2>3. UNCHANGED <<active, pending, spent>>
    BY <1>2 DEF Prepare
  <2>. QED
    BY <1>0, <2>1, <2>2, <2>3 DEF FreshInv
<1>3. CASE Prepared(t)
  <2>1. /\ at'[t] # "preparing" /\ UNCHANGED <<active, prepared, spent>>
        /\ pending' \in {pending, card[t]}
        /\ \A u \in Tabs \ {t} : card'[u] = card[u] /\ at'[u] = at[u]
    BY <1>0, <1>3 DEF Prepared, CompareUpdate, Goes, Offers, cardVars
  <2>2. at[t] = "preparing"
    BY <1>3 DEF Prepared
  <2>. QED
    BY <1>0, <2>1, <2>2 DEF FreshInv
<1>4. CASE Activated(t)
  <2>1. /\ at'[t] # "preparing" /\ UNCHANGED <<card, prepared>>
        /\ \A u \in Tabs \ {t} : at'[u] = at[u]
    BY <1>0, <1>4 DEF Activated, Goes, cardVars
  <2>2. CASE UNCHANGED <<active, pending, spent>>
    BY <2>1, <2>2 DEF FreshInv
  <2>3. CASE CompareUpdate(seen[t], card[t], NoCard) /\ spent' = spent \cup {card[t]}
    <3>1. card[t] = pending /\ card[t] \in Cards
      BY <1>4, <2>3, ActivatesPending DEF CompareUpdate
    <3>2. active' = pending /\ pending' = NoCard /\ spent' = spent \cup {pending}
      BY <2>3, <3>1 DEF CompareUpdate
    <3>. QED
      BY <1>0, <2>1, <3>1, <3>2 DEF FreshInv
  <2>. QED
    BY <1>4, <2>2, <2>3 DEF Activated, policyVars
<1>5. CASE Revoke(t)
  <2>1. active' = NoCard /\ pending' = NoCard /\ UNCHANGED <<tabVars, prepared, spent>>
    BY <1>5 DEF Revoke, CompareUpdate, cardVars
  <2>. QED
    BY <1>0, <2>1 DEF FreshInv, tabVars
<1>. QED
  BY <1>1, <1>2, <1>3, <1>4, <1>5 DEF Owner

-----------------------------------------------------------------------------
(* Logins.                                                                 *)

\* Every step keeps logins alone with their challenges.
LEMMA LoginsStep ==
  ASSUME Inv, [Next]_vars
  PROVE  LoginInv'
<1>. USE DEF Inv, LoginInv
<1>0. /\ chal \in [Challenges -> {"none", "open", "gone", Foreign} \cup Cards]
      /\ cookie \in [Browsers -> Challenges \cup {NoCard}]
      /\ login \in [Requests -> Logins] /\ sessions \in [Challenges -> Seq(Cards)]
      /\ active \in Cards \cup {NoCard}
  BY DEF TypeOK, LoginTypes, PolicyTypes
<1>1. CASE UNCHANGED <<chal, login, sessions>>
  BY <1>1
<1>2. ASSUME NEW b \in Browsers, OpenLogin(b) \/ Read(b)
      PROVE  LoginInv'
  <2>1. PICK c \in Challenges : chal[c] # "gone" /\ chal' = [chal EXCEPT ![c] = chal'[c]]
    BY <1>0, <1>2 DEF OpenLogin, Read
  <2>2. UNCHANGED <<login, sessions>>
    BY <1>2 DEF OpenLogin, Read
  <2>. QED
    BY <1>0, <2>1, <2>2
<1>3. ASSUME NEW b \in Browsers, NEW r \in Requests, Submit(r, b)
      PROVE  LoginInv'
  <2>1. PICK c \in Challenges :
          /\ chal[c] \in Cards \cup {Foreign} /\ chal' = [chal EXCEPT ![c] = "gone"]
          /\ login' = [login EXCEPT ![r] =
               IF active = chal[c] /\ chal[c] \notin expired /\ ~Locked
               THEN [chal |-> c, browser |-> b, card |-> chal[c], revision |-> revision,
                     failures |-> failures]
               ELSE Idle]
    BY <1>3 DEF Submit, Consumed
  <2>2. UNCHANGED sessions /\ chal[c] # "gone"
    BY <1>3, <2>1, CardAssumption DEF Submit
  <2>3. login'[r] # Idle => login'[r].chal = c /\ login'[r].browser = b /\ login'[r].card \in Cards
    BY <1>0, <2>1, CardAssumption
  <2>4. \A q \in Requests \ {r} : login'[q] = login[q]
    BY <1>0, <2>1
  <2>5. \A q \in Requests \ {r} : login[q] # Idle => login[q].chal # c
    BY <2>2
  <2>6. sessions[c] = <<>> /\ chal'[c] = "gone"
    BY <1>0, <2>1, <2>2
  <2>7. \A d \in Challenges \ {c} : chal'[d] = chal[d]
    BY <1>0, <2>1
  <2>. QED
    BY <2>2, <2>3, <2>4, <2>5, <2>6, <2>7
<1>4. ASSUME NEW r \in Requests, Authorize(r) \/ LoginFails(r)
      PROVE  LoginInv'
  <2>1. login[r] # Idle /\ UNCHANGED chal /\ login'[r] = Idle
        /\ \A q \in Requests \ {r} : login'[q] = login[q]
    BY <1>0, <1>4 DEF Authorize, LoginFails
  <2>2. \A d \in Challenges : d # login[r].chal => sessions'[d] = sessions[d]
    BY <1>0, <1>4 DEF Authorize, LoginFails
  <2>. QED
    BY <2>1, <2>2
<1>5. ASSUME NEW c \in Challenges, ChallengeExpires(c)
      PROVE  LoginInv'
  BY <1>0, <1>5 DEF ChallengeExpires
<1>. QED
  BY <1>1, <1>2, <1>3, <1>4, <1>5 DEF Next, Owner, OpenPage, Render, Prepare, Prepared, ReadCard,
     Activate, Activated, Revoke, TabFails, Visitor, PendingLapses, CardExpires, vars, loginVars

\* The steps of logins and of time leave the policy's revision alone.
LEMMA OtherSteps ==
  ASSUME Inv, [Next]_vars, ~\E t \in Tabs : Owner(t)
  PROVE  /\ UNCHANGED <<revision, active, pending, prepared, tabVars, spent>>
         /\ ViewInv' /\ FormInv' /\ FreshInv'
<1>1. UNCHANGED <<revision, active, pending, prepared, tabVars, spent>>
  BY DEF Next, Visitor, OpenLogin, Read, Submit, Authorize, LoginFails, PendingLapses, CardExpires,
     ChallengeExpires, vars, policyVars, cardVars
<1>. QED
  BY <1>1 DEF Inv, ViewInv, Current, View, FormInv, FreshInv, tabVars

LEMMA InvStep == Inv /\ [Next]_vars => Inv'
<1>. SUFFICES ASSUME Inv, [Next]_vars PROVE Inv'
  OBVIOUS
<1>1. LoginInv'
  BY LoginsStep
<1>2. ASSUME NEW t \in Tabs, Owner(t)
      PROVE  Inv'
  BY <1>1, <1>2, OwnerTypes, OwnerViews, OwnerForms, OwnerFresh DEF Inv
<1>3. CASE UNCHANGED vars
  BY <1>1, <1>3 DEF Inv, vars, policyVars, cardVars, tabVars, loginVars, TypeOK, PolicyTypes, TabTypes,
     LoginTypes, ViewInv, Current, View, FormInv, FreshInv
<1>. QED
  BY <1>1, <1>2, <1>3, OtherSteps, VisitorTypes DEF Inv, Next

-----------------------------------------------------------------------------
(* Theorems.                                                               *)

\* Everything is well typed: the count of failures stops at ATTEMPTS, however many
\* logins run at once.
THEOREM CardsTypeCorrect == Spec => []TypeOK
<1>1. Inv => TypeOK
  BY DEF Inv
<1>. QED
  BY <1>1, InitInv, InvStep, PTL DEF Spec

\* An activation or a revocation changes the policy that its page has shown: none
\* that is stale undoes what another page did.
THEOREM OwnersSeeTheirChange == Spec => OwnersSeeWhatTheyChange
<1>1. Inv /\ [Next]_vars => [\A t \in Tabs : ChangesWhatItShows(t)]_vars
  <2>. SUFFICES ASSUME Inv, [Next]_vars PROVE \A t \in Tabs : ChangesWhatItShows(t)
    OBVIOUS
  <2>1. ASSUME NEW t \in Tabs, Activated(t), active' # active
        PROVE  form[t] = View
    BY <2>1, ActivatesPending DEF Activated, CompareUpdate, policyVars
  <2>2. ASSUME NEW t \in Tabs, Revoke(t)
        PROVE  page[t] = View
    BY <2>2 DEF Inv, ViewInv, Current, Revoke, CompareUpdate, SameRevision
  <2>. QED
    BY <2>1, <2>2 DEF ChangesWhatItShows
<1>. QED
  BY <1>1, InitInv, InvStep, PTL DEF Spec, OwnersSeeWhatTheyChange

\* Activations, revocations and logins behave as CardPromise, where each is one
\* step: a replaced, revoked, expired or locked card opens no session, no more
\* than ATTEMPTS wrong PINs are told from the right one, and an attempt to log in
\* opens one session at most.
THEOREM CardsKeepPromise == Spec => KeepsPromise
<1>1. Init => Promise!Init
  BY CardAssumption DEF Init, Promise!Init
<1>2. ASSUME Inv, [Next]_vars
      PROVE  [Promise!Next]_(Promise!promiseVars)
  <2>. USE DEF Promise!promiseVars
  <2>1. ASSUME NEW t \in Tabs, Owner(t)
        PROVE  [Promise!Next]_(Promise!promiseVars)
    <3>1. CASE UNCHANGED <<active, failures, expired, spent, sessions>>
      BY <3>1
    <3>2. CASE Activated(t) /\ CompareUpdate(seen[t], card[t], NoCard) /\ failures' = 0
               /\ spent' = spent \cup {card[t]}
      <4>1. card[t] = pending /\ card[t] \in Cards /\ active' = card[t] /\ card[t] \notin spent
        BY <1>2, <3>2, ActivatesPending DEF CompareUpdate, Inv, FreshInv
      <4>2. Attempts - failures' = Attempts
        BY <3>2, CardAssumption
      <4>3. UNCHANGED <<expired, sessions>>
        BY <3>2 DEF Activated, cardVars, loginVars
      <4>4. Promise!Activate(card[t])
        BY <3>2, <4>1, <4>2, <4>3 DEF Promise!Activate
      <4>. QED
        BY <4>1, <4>4 DEF Promise!Next
    <3>3. CASE Revoke(t)
      <4>1. Promise!Revoke
        BY <3>3 DEF Revoke, CompareUpdate, cardVars, loginVars, Promise!Revoke
      <4>. QED
        BY <4>1 DEF Promise!Next
    <3>4. CASE Activated(t) /\ UNCHANGED <<policyVars, spent>>
      BY <3>4 DEF Activated, policyVars, cardVars, loginVars
    <3>5. CASE Prepared(t)
      BY <3>5 DEF Prepared, CompareUpdate, cardVars, loginVars
    <3>. QED
      BY <2>1, <3>1, <3>2, <3>3, <3>4, <3>5 DEF Owner, OpenPage, Render, Prepare, ReadCard, Activate,
         Activated, TabFails, policyVars, cardVars, loginVars
  <2>2. ASSUME NEW r \in Requests, Authorize(r)
        PROVE  [Promise!Next]_(Promise!promiseVars)
    <3>0. /\ login[r].chal \in Challenges /\ login[r].card \in Cards
          /\ sessions[login[r].chal] = <<>> /\ failures \in 0..Attempts
      BY <1>2, <2>2 DEF Authorize, Inv, LoginInv, TypeOK, PolicyTypes
    <3>1. UNCHANGED <<active, expired, spent>>
      BY <2>2 DEF Authorize, cardVars
    <3>2. CASE ~Authorizes(r)
      BY <2>2, <3>1, <3>2 DEF Authorize
    <3>3. CASE Authorizes(r)
      <4>1. Promise!Usable /\ active = login[r].card
        BY <3>0, <3>3, CardAssumption DEF Authorizes, Locked, Promise!Usable
      <4>2. CASE failures' = failures + 1 /\ UNCHANGED sessions
        <5>1. Attempts - failures' = Attempts - failures - 1
          BY <3>0, <4>2, CardAssumption
        <5>2. Promise!WrongPin
          BY <3>1, <4>1, <4>2, <5>1 DEF Promise!WrongPin
        <5>. QED
          BY <5>2 DEF Promise!Next
      <4>3. CASE failures' = 0
                 /\ sessions' = [sessions EXCEPT ![login[r].chal] = Append(@, login[r].card)]
        <5>1. Attempts - failures' = Attempts
          BY <4>3, CardAssumption
        <5>2. Append(sessions[login[r].chal], login[r].card) = <<active>>
          BY <3>0, <4>1
        <5>3. Promise!Login(login[r].chal)
          BY <3>0, <3>1, <4>1, <4>3, <5>1, <5>2 DEF Promise!Login
        <5>. QED
          BY <3>0, <5>3 DEF Promise!Next
      <4>. QED
        BY <2>2, <3>3, <4>2, <4>3 DEF Authorize
    <3>. QED
      BY <3>2, <3>3
  <2>3. ASSUME NEW c \in Cards, CardExpires(c)
        PROVE  [Promise!Next]_(Promise!promiseVars)
    <3>1. Promise!Expire(c)
      BY <2>3 DEF CardExpires, policyVars, loginVars, Promise!Expire
    <3>. QED
      BY <3>1 DEF Promise!Next
  <2>4. CASE UNCHANGED <<active, failures, expired, spent, sessions>>
    BY <2>4
  <2>. QED
    BY <1>2, <2>1, <2>2, <2>3, <2>4 DEF Next, Visitor, OpenLogin, Read, Submit, LoginFails,
       PendingLapses, ChallengeExpires, vars, policyVars, cardVars, loginVars
<1>. QED
  BY <1>1, <1>2, InitInv, InvStep, PTL DEF Spec, KeepsPromise, Promise!Spec
=============================================================================
