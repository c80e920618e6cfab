--------------------------- MODULE BrowserPage_proofs ---------------------------
(* Proofs about BrowserPage, for any number of operations, reading events,       *)
(* starts, frames and visits: the status line and the reader belong to the last  *)
(* operation, a card is submitted by a read that is current, loaded evidence     *)
(* stays, and the form that history brings back is as it was rendered.           *)
(*                                                                               *)
(* The inductive invariant of the card scripts: besides what the status line     *)
(* says, an operation is in progress on a page in front of the user only. It     *)
(* is what makes a queued event of a hidden page harmless.                       *)
EXTENDS BrowserPage, FiniteSetTheorems, TLAPS

OpRec == [script : Scripts, kind : Kinds, live : BOOLEAN, promise : Promises, heard : Nat]

\* Nothing is in progress on a page that is hidden or was left.
InFront == life # "shown" => \A s \in Scripts : active[s] = 0

CardInv == CardTypeOK /\ StatusIsOfLast /\ InFront

\* A change of the operations that keeps who began them and revives none.
Alike(ops) ==
  /\ ops \in Seq(OpRec) /\ Len(ops) = Len(op)
  /\ \A o \in 1..Len(op) : ops[o].script = op[o].script /\ (ops[o].live => op[o].live)

LEMMA TabulatedSeq ==
  ASSUME NEW n \in Nat, NEW S, NEW f, f = [i \in 1..n |-> f[i]],
         \A i \in 1..n : f[i] \in S
  PROVE  f \in Seq(S) /\ Len(f) = n
OBVIOUS

LEMMA UpdatedSeq ==
  ASSUME NEW S, NEW f \in Seq(S), NEW i \in DOMAIN f, NEW v \in S
  PROVE  [f EXCEPT ![i] = v] \in Seq(S) /\ Len([f EXCEPT ![i] = v]) = Len(f)
OBVIOUS

\* Ending operations that are in progress, and no other, keeps the invariant of
\* the status line and leaves nothing of them in progress.
LEMMA EndsKeeps ==
  ASSUME CardTypeOK, StatusIsOfLast, NEW ops, Alike(ops), NEW says \in Endings,
         NEW O \in SUBSET Stopping, Ends(O, says, ops),
         UNCHANGED <<consent, wrote>>
  PROVE  /\ CardTypeOK' /\ StatusIsOfLast'
         /\ \A s \in Scripts : active'[s] = (IF active[s] \in O THEN 0 ELSE active[s])
<1> DEFINE ended(s) == \E o \in O : ops[o].script = s
<1>1. \A o \in O : o \in 1..Len(op) /\ active[op[o].script] = o
  <2> SUFFICES ASSUME NEW o \in O PROVE o \in 1..Len(op) /\ active[op[o].script] = o
    OBVIOUS
  <2>1. PICK s \in Scripts : active[s] = o /\ o # 0
    BY DEF Stopping
  <2>2. o \in 1..Len(op) /\ status[s].of = o
    BY <2>1 DEF CardTypeOK, StatusIsOfLast
  <2>3. op[o].script = s
    BY <2>1, <2>2 DEF StatusIsOfLast, IsLatest
  <2> QED BY <2>1, <2>2, <2>3
<1>2. \A s \in Scripts : ended(s) <=> active[s] \in O
  <2> SUFFICES ASSUME NEW s \in Scripts PROVE ended(s) <=> active[s] \in O
    OBVIOUS
  <2>1. ASSUME NEW o \in O, ops[o].script = s PROVE active[s] \in O
    BY <1>1, <2>1 DEF Alike
  <2>2. ASSUME active[s] \in O PROVE ops[active[s]].script = s
    <3>1. active[s] \in 1..Len(op)
      BY <1>1, <2>2
    <3>2. status[s].of = active[s]
      BY <3>1 DEF StatusIsOfLast
    <3>3. op[active[s]].script = s
      BY <3>1, <3>2 DEF StatusIsOfLast, IsLatest
    <3> QED BY <3>1, <3>3 DEF Alike
  <2> QED BY <2>1, <2>2
<1>3. \A s \in Scripts : active'[s] = (IF active[s] \in O THEN 0 ELSE active[s])
  BY <1>2 DEF Ends
<1>4. \A s \in Scripts : status'[s] = IF active[s] \in O THEN [of |-> active[s], says |-> says]
                                                        ELSE status[s]
  <2> SUFFICES ASSUME NEW s \in Scripts
               PROVE  status'[s] = IF active[s] \in O THEN [of |-> active[s], says |-> says]
                                                      ELSE status[s]
    OBVIOUS
  <2>1. CASE active[s] \notin O
    BY <1>2, <2>1 DEF Ends
  <2>2. CASE active[s] \in O
    <3>1. \A o \in O : ops[o].script = s => o = active[s]
      BY <1>1 DEF Alike
    <3>2. \E o \in O : ops[o].script = s
      BY <1>2, <2>2
    <3>3. (CHOOSE o \in O : ops[o].script = s) = active[s]
      BY <3>1, <3>2
    <3>4. status'[s] = [of |-> CHOOSE o \in O : ops[o].script = s, says |-> says]
      BY <3>2 DEF Ends
    <3> QED BY <2>2, <3>3, <3>4
  <2> QED BY <2>1, <2>2
<1>5. /\ op' \in Seq(OpRec) /\ Len(op') = Len(op)
      /\ \A o \in 1..Len(op) : op'[o].script = op[o].script
                               /\ (op'[o].live => op[o].live /\ o \notin O)
  <2>1. DOMAIN ops = 1..Len(op) /\ \A o \in 1..Len(op) : ops[o] \in OpRec
    BY DEF Alike
  <2>2. op' = [o \in 1..Len(op) |-> [ops[o] EXCEPT !.live = @ /\ o \notin O]]
    BY <2>1 DEF Ends
  <2>3. \A o \in 1..Len(op) : /\ op'[o] \in OpRec
                              /\ op'[o].script = ops[o].script
                              /\ op'[o].live = (ops[o].live /\ o \notin O)
    BY <2>1, <2>2, Zenon DEF OpRec
  <2>4. op' \in Seq(OpRec) /\ Len(op') = Len(op)
    <3>1. Len(op) \in Nat
      BY DEF CardTypeOK
    <3>2. op' = [o \in 1..Len(op) |-> op'[o]]
      BY <2>2
    <3> QED BY <2>3, <3>1, <3>2, TabulatedSeq
  <2> QED BY <2>3, <2>4 DEF Alike
<1>6. CardTypeOK'
  <2>1. active' \in [Scripts -> 0..Len(op')]
    BY <1>3, <1>5 DEF CardTypeOK, Ends
  <2>2. status' \in [Scripts -> [of : 0..Len(op'), says : Endings \cup {"ready", "prompt"}]]
    <3>1. ASSUME NEW s \in Scripts
          PROVE  status'[s] \in [of : 0..Len(op'), says : Endings \cup {"ready", "prompt"}]
      <4>1. CASE active[s] \in O
        <5>1. active[s] \in 0..Len(op') /\ says \in Endings \cup {"ready", "prompt"}
          BY <1>5 DEF CardTypeOK
        <5>2. status'[s] = [of |-> active[s], says |-> says]
          BY <1>4, <4>1
        <5> QED BY <5>1, <5>2
      <4>2. CASE active[s] \notin O
        <5>1. status'[s] = status[s]
          BY <1>4, <4>2
        <5> QED BY <1>5, <5>1 DEF CardTypeOK
      <4> QED BY <4>1, <4>2
    <3>2. status' = [s \in Scripts |-> status'[s]]
      BY DEF Ends
    <3> QED BY <3>1, <3>2
  <2> QED BY <1>5, <2>1, <2>2 DEF CardTypeOK, OpRec
<1>7. StatusIsOfLast'
  <2> SUFFICES ASSUME NEW s \in Scripts
               PROVE  /\ IsLatest(s, status[s].of)'
                      /\ active'[s] = IF status'[s].says = "prompt" THEN status'[s].of ELSE 0
                      /\ \A o \in DOMAIN op' : op'[o].live /\ op'[o].script = s => active'[s] = o
    BY DEF StatusIsOfLast
  <2>1. DOMAIN op' = 1..Len(op) /\ DOMAIN op = 1..Len(op)
    BY <1>5 DEF CardTypeOK
  <2>2. active[s] \in O => active[s] = status[s].of
    BY <1>1 DEF StatusIsOfLast
  <2>3. /\ active[s] \in O => status'[s].of = active[s] /\ status'[s].says = says
        /\ active[s] \notin O => status'[s] = status[s]
    <3>1. ASSUME active[s] \in O PROVE status'[s].of = active[s] /\ status'[s].says = says
      <4>1. status'[s] = [of |-> active[s], says |-> says]
        BY <1>4, <3>1
      <4> QED BY <4>1
    <3>2. ASSUME active[s] \notin O PROVE status'[s] = status[s]
      BY <1>4, <3>2
    <3> QED BY <3>1, <3>2
  <2>8. status'[s].of = status[s].of
    BY <2>2, <2>3
  <2>4. IsLatest(s, status[s].of)'
    BY <1>5, <2>1, <2>8 DEF StatusIsOfLast, IsLatest
  <2>5. active'[s] = IF status'[s].says = "prompt" THEN status'[s].of ELSE 0
    <3>1. says # "prompt"
      BY DEF Endings, Contents
    <3>2. active[s] = IF status[s].says = "prompt" THEN status[s].of ELSE 0
      BY DEF StatusIsOfLast
    <3>3. active'[s] = (IF active[s] \in O THEN 0 ELSE active[s])
      BY <1>3
    <3> QED BY <2>3, <3>1, <3>2, <3>3
  <2>6. ASSUME NEW o \in 1..Len(op), op'[o].live, op'[o].script = s PROVE active'[s] = o
    BY <1>3, <1>5, <2>1, <2>6 DEF StatusIsOfLast
  <2> QED BY <2>1, <2>4, <2>5, <2>6
<1> QED BY <1>3, <1>6, <1>7

\* An answer that only marks an operation keeps the invariant.
LEMMA MarksKeep ==
  ASSUME CardInv, Alike(op'), wrote' \subseteq 1..Len(op),
         UNCHANGED <<active, consent, status>>, life' = life
  PROVE  CardInv'
<1>1. DOMAIN op' = DOMAIN op /\ Len(op') = Len(op) /\ DOMAIN op = 1..Len(op)
  BY DEF CardInv, CardTypeOK, Alike
<1>2. CardTypeOK'
  BY <1>1 DEF CardInv, CardTypeOK, Alike, OpRec
<1>3. StatusIsOfLast'
  BY <1>1 DEF CardInv, StatusIsOfLast, IsLatest, Alike
<1>4. InFront'
  BY DEF CardInv, InFront
<1> QED BY <1>2, <1>3, <1>4 DEF CardInv

\* One field of one operation is overwritten.
LEMMA PromiseIsAlike ==
  ASSUME CardTypeOK, NEW o \in DOMAIN op, NEW p \in Promises
  PROVE  Alike([op EXCEPT ![o].promise = p])
<1> DEFINE ops == [op EXCEPT ![o].promise = p]
<1>1. op \in Seq(OpRec) /\ DOMAIN op = 1..Len(op)
  BY DEF CardTypeOK, OpRec
<1>2. \A x \in 1..Len(op) : op[x] \in OpRec
  BY <1>1
<1>3. ops[o] = [op[o] EXCEPT !.promise = p] /\ \A x \in 1..Len(op) \ {o} : ops[x] = op[x]
  BY <1>1
<1>4. ops[o] \in OpRec /\ ops[o].script = op[o].script /\ ops[o].live = op[o].live
  BY <1>1, <1>2, <1>3 DEF OpRec
<1>5. ops \in Seq(OpRec) /\ Len(ops) = Len(op)
  <2>1. ops = [op EXCEPT ![o] = [op[o] EXCEPT !.promise = p]]
    OBVIOUS
  <2>2. [op[o] EXCEPT !.promise = p] \in OpRec
    BY <1>3, <1>4
  <2> HIDE DEF ops
  <2> QED BY <1>1, <2>1, <2>2, UpdatedSeq
<1> QED BY <1>1, <1>3, <1>4, <1>5 DEF Alike

LEMMA HeardIsAlike ==
  ASSUME CardTypeOK, NEW o \in DOMAIN op, NEW h \in Nat
  PROVE  Alike([op EXCEPT ![o].heard = h])
<1> DEFINE ops == [op EXCEPT ![o].heard = h]
<1>1. op \in Seq(OpRec) /\ DOMAIN op = 1..Len(op)
  BY DEF CardTypeOK, OpRec
<1>2. \A x \in 1..Len(op) : op[x] \in OpRec
  BY <1>1
<1>3. ops[o] = [op[o] EXCEPT !.heard = h] /\ \A x \in 1..Len(op) \ {o} : ops[x] = op[x]
  BY <1>1
<1>4. ops[o] \in OpRec /\ ops[o].script = op[o].script /\ ops[o].live = op[o].live
  BY <1>1, <1>2, <1>3 DEF OpRec
<1>5. ops \in Seq(OpRec) /\ Len(ops) = Len(op)
  <2>1. ops = [op EXCEPT ![o] = [op[o] EXCEPT !.heard = h]]
    OBVIOUS
  <2>2. [op[o] EXCEPT !.heard = h] \in OpRec
    BY <1>3, <1>4
  <2> HIDE DEF ops
  <2> QED BY <1>1, <2>1, <2>2, UpdatedSeq
<1> QED BY <1>1, <1>3, <1>4, <1>5 DEF Alike

LEMMA SameIsAlike == ASSUME CardTypeOK PROVE Alike(op)
BY DEF CardTypeOK, Alike, OpRec

\* finish, called for any operation: it ends it if it is current.
LEMMA FinishKeeps ==
  ASSUME CardInv, NEW o \in DOMAIN op, NEW ops, Alike(ops), NEW says \in Endings,
         Ends(Current(o), says, ops), UNCHANGED <<consent, wrote>>, life' = life
  PROVE  /\ CardInv'
         /\ Current(o) # {} => active[op[o].script] = o /\ active'[op[o].script] = 0
<1>1. op[o].script \in Scripts /\ o # 0
  <2>1. op \in Seq(OpRec) /\ DOMAIN op = 1..Len(op)
    BY DEF CardInv, CardTypeOK, OpRec
  <2>2. op[o] \in OpRec
    BY <2>1
  <2> QED BY <2>1, <2>2 DEF OpRec
<1>2. Current(o) \in SUBSET Stopping
  BY <1>1 DEF Current, Stopping
<1>3. /\ CardTypeOK' /\ StatusIsOfLast'
      /\ \A s \in Scripts : active'[s] = (IF active[s] \in Current(o) THEN 0 ELSE active[s])
  BY <1>2, EndsKeeps DEF CardInv
<1>4. InFront'
  BY <1>3 DEF CardInv, InFront
<1>5. Current(o) # {} => active[op[o].script] = o /\ active'[op[o].script] = 0
  BY <1>1, <1>3 DEF Current
<1> QED BY <1>3, <1>4, <1>5 DEF CardInv

LEMMA BeginKeeps ==
  ASSUME CardInv, NEW s \in Scripts, NEW kind \in Kinds, Begin(s, kind)
  PROVE  CardInv'
<1> DEFINE rec == [script |-> s, kind |-> kind, live |-> TRUE, promise |-> "pending", heard |-> 0]
           n == Len(op) + 1
<1>1. /\ op \in Seq(OpRec) /\ DOMAIN op = 1..Len(op) /\ Len(op) \in Nat /\ rec \in OpRec
  BY DEF CardInv, CardTypeOK, OpRec, Promises
<1>2. /\ op' \in Seq(OpRec) /\ Len(op') = n /\ DOMAIN op' = 1..n /\ op'[n] = rec
      /\ \A o \in 1..Len(op) : op'[o] = op[o]
  BY <1>1 DEF Begin
<1>3. active' = [active EXCEPT ![s] = n] /\ UNCHANGED <<consent, wrote, life>>
      /\ status' = [status EXCEPT ![s] = [of |-> n, says |-> "prompt"]]
      /\ life = "shown" /\ active[s] = 0
  BY DEF Begin, lifeVars
<1>4. CardTypeOK'
  <2>1. active' \in [Scripts -> 0..n]
    BY <1>1, <1>3 DEF CardInv, CardTypeOK
  <2>2. status' \in [Scripts -> [of : 0..n, says : Endings \cup {"ready", "prompt"}]]
    BY <1>1, <1>3 DEF CardInv, CardTypeOK
  <2>3. wrote' \subseteq 1..n /\ consent' \in [Scripts -> BOOLEAN]
    BY <1>1, <1>3 DEF CardInv, CardTypeOK
  <2> QED BY <1>2, <2>1, <2>2, <2>3 DEF CardTypeOK, OpRec
<1>5. StatusIsOfLast'
  <2> SUFFICES ASSUME NEW t \in Scripts
               PROVE  /\ IsLatest(t, status[t].of)'
                      /\ active'[t] = IF status'[t].says = "prompt" THEN status'[t].of ELSE 0
                      /\ \A o \in DOMAIN op' : op'[o].live /\ op'[o].script = t => active'[t] = o
    BY DEF StatusIsOfLast
  <2>1. CASE t = s
    <3>1. status'[t].of = n /\ status'[t].says = "prompt" /\ active'[t] = n
      BY <1>3, <2>1 DEF CardInv, CardTypeOK
    <3>2. IsLatest(t, status[t].of)'
      BY <1>1, <1>2, <2>1, <3>1 DEF IsLatest
    <3>3. ASSUME NEW o \in 1..Len(op), op'[o].live, op'[o].script = t PROVE FALSE
      <4>1. active[s] = o
        BY <1>1, <1>2, <2>1, <3>3 DEF CardInv, StatusIsOfLast
      <4> QED BY <1>1, <1>3, <4>1
    <3> QED BY <1>1, <1>2, <3>1, <3>2, <3>3
  <2>2. CASE t # s
    <3>1. status'[t] = status[t] /\ active'[t] = active[t]
      BY <1>3, <2>2 DEF CardInv, CardTypeOK
    <3>2. op'[n].script # t
      BY <1>2, <2>2
    <3>3. IsLatest(t, status[t].of)'
      BY <1>1, <1>2, <3>1, <3>2 DEF CardInv, StatusIsOfLast, IsLatest
    <3>4. ASSUME NEW o \in 1..n, op'[o].live, op'[o].script = t PROVE active'[t] = o
      <4>1. o \in 1..Len(op)
        BY <1>1, <3>2, <3>4
      <4> QED BY <1>1, <1>2, <3>1, <3>4, <4>1 DEF CardInv, StatusIsOfLast
    <3> QED BY <1>2, <3>1, <3>3, <3>4 DEF CardInv, StatusIsOfLast
  <2> QED BY <2>1, <2>2
<1>6. InFront'
  BY <1>3 DEF InFront
<1> QED BY <1>4, <1>5, <1>6 DEF CardInv

\* The page is hidden or left: stop.
LEMMA StopKeeps ==
  ASSUME CardInv, CardsStop
  PROVE  CardInv'
<1>1. "cancelled" \in Endings /\ Alike(op)
  BY SameIsAlike DEF Endings, CardInv
<1>2. /\ CardTypeOK' /\ StatusIsOfLast'
      /\ \A s \in Scripts : active'[s] = (IF active[s] \in Stopping THEN 0 ELSE active[s])
  BY <1>1, EndsKeeps DEF CardInv, CardsStop
<1>3. \A s \in Scripts : active'[s] = 0
  BY <1>2 DEF Stopping
<1> QED BY <1>2, <1>3 DEF CardInv, InFront

\* A step of the other scripts
LEMMA OthersKeep ==
  ASSUME CardInv, UNCHANGED cardVars, life' = life \/ life' = "shown"
  PROVE  CardInv'
BY DEF CardInv, CardTypeOK, StatusIsOfLast, IsLatest, InFront, cardVars

\* The actions of the card scripts other than a reading.
LEMMA CardNextKeeps ==
  ASSUME CardInv, CardNext
  PROVE  CardInv' /\ UNCHANGED <<posts, life>>
<1>0. CardTypeOK /\ op \in Seq(OpRec) /\ DOMAIN op = 1..Len(op)
  BY DEF CardInv, CardTypeOK, OpRec
<1>1. ASSUME NEW s \in Scripts, ToggleConsent(s) PROVE CardInv' /\ UNCHANGED <<posts, life>>
  <2>1. consent' \in [Scripts -> BOOLEAN]
    BY <1>0, <1>1 DEF ToggleConsent, CardTypeOK
  <2> QED BY <1>1, <2>1 DEF ToggleConsent, CardInv, CardTypeOK, StatusIsOfLast, IsLatest,
                            InFront, lifeVars
<1>2. ASSUME NEW s \in Scripts, Cancel(s) PROVE CardInv' /\ UNCHANGED <<posts, life>>
  <2>1. active[s] \in DOMAIN op
    BY <1>0, <1>2 DEF Cancel, CardTypeOK
  <2>2. "cancelled" \in Endings
    BY DEF Endings
  <2>3. Ends(Current(active[s]), "cancelled", op) /\ UNCHANGED <<consent, wrote, posts, life>>
    BY <1>2 DEF Cancel, Finish, lifeVars
  <2> QED BY <1>0, <2>1, <2>2, <2>3, SameIsAlike, FinishKeeps
<1>3. ASSUME NEW s \in Scripts, NEW k \in Kinds, Begin(s, k)
      PROVE  CardInv' /\ UNCHANGED <<posts, life>>
  BY <1>3, BeginKeeps DEF Begin, lifeVars
<1>4. ASSUME NEW o \in DOMAIN op, CardWritten(o) PROVE CardInv' /\ UNCHANGED <<posts, life>>
  <2>1. Alike(op') /\ wrote' \subseteq 1..Len(op)
    BY <1>0, <1>4, PromiseIsAlike DEF CardWritten, Promises, CardTypeOK
  <2> QED BY <1>4, <2>1, MarksKeep DEF CardWritten, lifeVars
<1>5. ASSUME NEW o \in DOMAIN op, Refused(o) PROVE CardInv' /\ UNCHANGED <<posts, life>>
  <2>1. Alike(op')
    BY <1>0, <1>5, PromiseIsAlike DEF Refused, Promises
  <2>2. wrote' \subseteq 1..Len(op)
    BY <1>0, <1>5 DEF Refused, CardTypeOK
  <2> QED BY <1>5, <2>1, <2>2, MarksKeep DEF Refused, lifeVars
<1>6. ASSUME NEW o \in DOMAIN op, CardHeard(o) PROVE CardInv' /\ UNCHANGED <<posts, life>>
  <2>1. op[o].heard + 1 \in Nat
    <3>1. op[o] \in OpRec
      BY <1>0
    <3> QED BY <3>1 DEF OpRec
  <2>2. Alike(op')
    BY <1>0, <1>6, <2>1, HeardIsAlike DEF CardHeard
  <2>3. wrote' \subseteq 1..Len(op)
    BY <1>0, <1>6 DEF CardHeard, CardTypeOK
  <2> QED BY <1>6, <2>2, <2>3, MarksKeep DEF CardHeard, lifeVars
<1>7. ASSUME NEW o \in DOMAIN op, WriteSettles(o) PROVE CardInv' /\ UNCHANGED <<posts, life>>
  <2> DEFINE says == IF op[o].promise = "resolved" THEN "written" ELSE "unconfirmed"
  <2>1. says \in Endings /\ Alike([op EXCEPT ![o].promise = "done"])
    BY <1>0, PromiseIsAlike DEF Endings, Promises
  <2>2. /\ Ends(Current(o), says, [op EXCEPT ![o].promise = "done"])
        /\ UNCHANGED <<consent, wrote, posts, life>>
    BY <1>7 DEF WriteSettles, Finish, lifeVars
  <2> HIDE DEF says
  <2> QED BY <2>1, <2>2, FinishKeeps
<1>8. ASSUME NEW o \in DOMAIN op, ReadFails(o) PROVE CardInv' /\ UNCHANGED <<posts, life>>
  <2>1. "failed" \in Endings /\ Alike([op EXCEPT ![o].promise = "done"])
    BY <1>0, PromiseIsAlike DEF Endings, Promises
  <2>2. /\ Ends(Current(o), "failed", [op EXCEPT ![o].promise = "done"])
        /\ UNCHANGED <<consent, wrote, posts, life>>
    BY <1>8 DEF ReadFails, Finish, lifeVars
  <2> QED BY <2>1, <2>2, FinishKeeps
<1>9. ASSUME NEW o \in DOMAIN op, TimesOut(o) PROVE CardInv' /\ UNCHANGED <<posts, life>>
  <2>1. "timeout" \in Endings /\ Alike(op)
    BY <1>0, SameIsAlike DEF Endings
  <2>2. Ends(Current(o), "timeout", op) /\ UNCHANGED <<consent, wrote, posts, life>>
    BY <1>9 DEF TimesOut, Finish, lifeVars
  <2> QED BY <2>1, <2>2, FinishKeeps
<1> QED BY <1>1, <1>2, <1>3, <1>4, <1>5, <1>6, <1>7, <1>8, <1>9 DEF CardNext

\* A reading submits for an operation that is current, and ends it.
LEMMA ReadingKeeps ==
  ASSUME CardInv, NEW o \in DOMAIN op, NEW content \in Contents, Reading(o, content)
  PROVE  /\ CardInv' /\ life' = life
         /\ posts' # posts => active["issuance"] # 0 /\ active'["issuance"] = 0
<1>0. CardTypeOK /\ op \in Seq(OpRec) /\ DOMAIN op = 1..Len(op)
  BY DEF CardInv, CardTypeOK, OpRec
<1>1. content \in Endings
  BY DEF Endings
<1>2. op[o].heard - 1 \in Nat
  <2>1. op[o].heard \in Nat /\ op[o].heard > 0
    <3>1. op[o] \in OpRec /\ op[o].heard > 0
      BY <1>0 DEF Reading
    <3> QED BY <3>1 DEF OpRec
  <2> QED BY <2>1
<1>3. Alike([op EXCEPT ![o].heard = @ - 1])
  <2>1. [op EXCEPT ![o].heard = @ - 1] = [op EXCEPT ![o].heard = op[o].heard - 1]
    OBVIOUS
  <2> QED BY <1>0, <1>2, <2>1, HeardIsAlike
<1>4. /\ Ends(Current(o), content, [op EXCEPT ![o].heard = @ - 1])
      /\ UNCHANGED <<consent, wrote, life>>
      /\ posts' # posts => Current(o) # {} /\ op[o].script = "issuance"
  BY DEF Reading, Heeded
<1>5. CardInv' /\ (Current(o) # {} => active[op[o].script] = o /\ active'[op[o].script] = 0)
  BY <1>1, <1>3, <1>4, FinishKeeps
<1> QED BY <1>0, <1>4, <1>5

\* Steps that concern the camera or a panel leave the card scripts alone, and
\* submit no card.
CardsAside ==
  /\ UNCHANGED cardVars /\ (life' = life \/ life' = "shown")
  /\ posts' = posts \/ \E x \in {"qr", "scan", "typed"} : posts' = Append(posts, x)

LEMMA ScanIsAside == ASSUME ScanNext, UNCHANGED cardVars PROVE CardsAside
<1>1. CASE ScanStart \/ ScanStop \/ Detects \/ QrStart \/ QrStop \/ QrTimesOut
  BY <1>1 DEF CardsAside, ScanStart, ScanStop, Detects, QrStart, QrStop, QrTimesOut, lifeVars
<1>2. ASSUME NEW one \in BOOLEAN, NEW full \in BOOLEAN, Detected(one, full) PROVE CardsAside
  BY <1>2 DEF CardsAside, Detected, ScanAccept
<1>3. ASSUME NEW q \in Cams, Halt(q) \/ Sees(q) PROVE CardsAside
  BY <1>3 DEF CardsAside, Halt, Sees, lifeVars
<1>4. ASSUME NEW q \in Cams, NEW ok \in BOOLEAN, Plays(q, ok) PROVE CardsAside
  BY <1>4 DEF CardsAside, Plays, lifeVars
<1>5. ASSUME NEW q \in Cams, NEW ok \in BOOLEAN, Decodes(q, ok) PROVE CardsAside
  BY <1>5 DEF CardsAside, Decodes, ScanAccept, QrDecoded
<1>6. ASSUME NEW q \in Cams, NEW w \in Callers, NEW ok \in BOOLEAN,
             CameraAnswers(q, w, ok) \/ PlayEnds(q, w, ok)
      PROVE  CardsAside
  BY <1>6 DEF CardsAside, CameraAnswers, PlayEnds, lifeVars
<1> QED BY <1>1, <1>2, <1>3, <1>4, <1>5, <1>6 DEF ScanNext

LEMMA PanelsAreAside == ASSUME PanelNext, UNCHANGED cardVars PROVE CardsAside
<1>1. CASE DepositRefresh \/ DepositLapses \/ PaneToggle
  BY <1>1 DEF CardsAside, DepositRefresh, DepositLapses, PaneToggle, lifeVars
<1>2. ASSUME NEW a \in Answers, DepositAnswer(a) PROVE CardsAside
  BY <1>2 DEF CardsAside, DepositAnswer, lifeVars
<1>3. ASSUME NEW ok \in BOOLEAN, PaneAnswer(ok) \/ ViewerLoads(ok) \/ FormSubmit(ok)
      PROVE  CardsAside
  BY <1>3 DEF CardsAside, PaneAnswer, ViewerLoads, FormSubmit, lifeVars
<1>4. ASSUME NEW p, ViewerTurns(p) \/ ViewerRendered(p) \/ ViewerBreaks(p) PROVE CardsAside
  BY <1>4 DEF CardsAside, ViewerTurns, ViewerRendered, ViewerBreaks, lifeVars
<1> QED BY <1>1, <1>2, <1>3, <1>4 DEF PanelNext

\* What a step of a page may do with the cards.
Submits == Len(posts') > Len(posts) /\ posts'[Len(posts')] = "card"
CardStep ==
  Submits => life = "shown" /\ active["issuance"] # 0 /\ active'["issuance"] = 0

LEMMA CardInvStep ==
  ASSUME posts \in Seq(Posts), CardInv, [Next]_vars
  PROVE  CardInv' /\ CardStep
<1>1. CASE CardNext /\ UNCHANGED <<scanVars, panelVars>>
  BY <1>1, CardNextKeeps DEF CardStep, Submits
<1>2. ASSUME NEW o \in DOMAIN op, NEW c \in Contents, CardReads(o, c)
      PROVE  CardInv' /\ CardStep
  <2>1. /\ CardInv' /\ life' = life
        /\ posts' # posts => active["issuance"] # 0 /\ active'["issuance"] = 0
    BY <1>2, ReadingKeeps DEF CardReads
  <2>2. active["issuance"] # 0 => life = "shown"
    BY DEF CardInv, InFront, Scripts
  <2> QED BY <2>1, <2>2 DEF CardStep, Submits
<1>3. ASSUME CardsAside PROVE CardInv' /\ CardStep
  <2>1. CardInv'
    BY <1>3, OthersKeep DEF CardsAside
  <2>2. ASSUME NEW x \in {"qr", "scan", "typed"}, posts' = Append(posts, x)
        PROVE  posts'[Len(posts')] # "card"
    BY <2>2
  <2> QED BY <1>3, <2>1, <2>2 DEF CardsAside, CardStep, Submits
<1>4. CASE TypesCode
  BY <1>3, <1>4 DEF TypesCode, CardsAside
<1>5. CASE ScanNext /\ UNCHANGED <<cardVars, panelVars>>
  BY <1>3, <1>5, ScanIsAside
<1>6. CASE PanelNext /\ UNCHANGED <<cardVars, scanVars>>
  BY <1>3, <1>6, PanelsAreAside
<1>7. CASE HidePage
  BY <1>7, StopKeeps DEF HidePage, Hides, CardStep, Submits
<1>8. CASE ShowPage \/ ReturnToPage
  BY <1>3, <1>8 DEF ShowPage, ReturnToPage, Shows, Returns, CardsAside
<1>9. ASSUME NEW kept \in BOOLEAN, LeavePage(kept) PROVE CardInv' /\ CardStep
  BY <1>9, StopKeeps DEF LeavePage, Leaves, CardStep, Submits
<1>10. CASE UNCHANGED vars
  BY <1>3, <1>10 DEF vars, lifeVars, CardsAside
<1> QED BY <1>1, <1>2, <1>4, <1>5, <1>6, <1>7, <1>8, <1>9, <1>10 DEF Next

LEMMA PostsStep ==
  ASSUME posts \in Seq(Posts), [Next]_vars
  PROVE  posts' \in Seq(Posts)
<1>0. \A x \in {"card", "qr", "scan", "typed"} : Append(posts, x) \in Seq(Posts)
  BY DEF Posts
<1>1. CASE CardNext
  <2>1. posts' = posts
    BY <1>1 DEF CardNext, ToggleConsent, Cancel, Begin, CardWritten, Refused, CardHeard,
                WriteSettles, ReadFails, TimesOut, lifeVars
  <2> QED BY <2>1
<1>2. ASSUME NEW o \in DOMAIN op, NEW c \in Contents, CardReads(o, c)
      PROVE  posts' \in Seq(Posts)
  BY <1>0, <1>2 DEF CardReads, Reading
<1>3. ASSUME CardsAside PROVE posts' \in Seq(Posts)
  BY <1>0, <1>3 DEF CardsAside
<1>4. CASE TypesCode
  BY <1>0, <1>4 DEF TypesCode
<1>5. CASE ScanNext /\ UNCHANGED <<cardVars, panelVars>>
  BY <1>3, <1>5, ScanIsAside
<1>6. CASE PanelNext /\ UNCHANGED <<cardVars, scanVars>>
  BY <1>3, <1>6, PanelsAreAside
<1>7. CASE HidePage \/ ShowPage \/ ReturnToPage
  BY <1>7 DEF HidePage, Hides, ShowPage, Shows, ReturnToPage, Returns
<1>8. ASSUME NEW kept \in BOOLEAN, LeavePage(kept) PROVE posts' \in Seq(Posts)
  BY <1>8 DEF LeavePage, Leaves
<1>9. CASE UNCHANGED vars
  BY <1>9 DEF vars, lifeVars
<1> QED BY <1>1, <1>2, <1>4, <1>5, <1>6, <1>7, <1>8, <1>9 DEF Next

LEMMA CardInvInit ==
  ASSUME Init
  PROVE  CardInv /\ posts \in Seq(Posts)
<1>1. /\ op = <<>> /\ active = [s \in Scripts |-> 0] /\ wrote = {}
      /\ status = [s \in Scripts |-> [of |-> 0, says |-> "ready"]]
      /\ consent = [s \in Scripts |-> FALSE] /\ life = "shown" /\ posts = <<>>
  BY DEF Init, CardInit, LifeInit
<1>2. CardTypeOK
  BY <1>1 DEF CardTypeOK
<1>3. StatusIsOfLast
  BY <1>1 DEF StatusIsOfLast, IsLatest
<1> QED BY <1>1, <1>2, <1>3 DEF CardInv, InFront

LEMMA CardInvAlways == Spec => [](CardInv /\ posts \in Seq(Posts))
<1>1. Init => CardInv /\ posts \in Seq(Posts)
  BY CardInvInit
<1>2. CardInv /\ posts \in Seq(Posts) /\ [Next]_vars => (CardInv /\ posts \in Seq(Posts))'
  BY CardInvStep, PostsStep
<1> QED BY <1>1, <1>2, PTL DEF Spec

\* nfc-card.js and nfc-issuance.js: whatever late promises, events and timers come,
\* the status line and the reader belong to the last operation.
THEOREM StatusBelongs == Spec => []StatusIsOfLast
<1>1. CardInv => StatusIsOfLast
  BY DEF CardInv
<1> QED BY <1>1, CardInvAlways, PTL

\* nfc-issuance.js: a card is submitted by a read that is still current, on a page
\* in front of the user, and the submission ends that read.
THEOREM ReadsAreCurrent == Spec => SubmitsCurrentReads
<1>1. posts \in Seq(Posts) /\ CardInv /\ [Next]_vars => [CardStep]_vars
  BY CardInvStep
<1>2. Spec => [][CardStep]_vars
  BY <1>1, CardInvAlways, PTL DEF Spec
<1>3. [][CardStep]_vars => SubmitsCurrentReads
  BY PTL DEF SubmitsCurrentReads, CardStep, Submits
<1> QED BY <1>2, <1>3, PTL

-------------------------------------------------------------------------------
\* check-pane.js: a request is in flight exactly while the pane is loading, and
\* a pane that was loaded is not loading.
PaneInv ==
  /\ pane.loaded \in BOOLEAN /\ pane.loading \in BOOLEAN
  /\ pane.fetches = IF pane.loading THEN 1 ELSE 0
  /\ pane.loaded => ~pane.loading /\ pane.shows = "evidence"

PaneRec == [open : BOOLEAN, opens : 0..MaxOpens, loading : BOOLEAN, loaded : BOOLEAN,
            shows : {"none", "loading", "evidence", "error"}, fetches : Nat]

LEMMA PaneUnchanged ==
  ASSUME [Next]_vars, ~PaneToggle, \A ok \in BOOLEAN : ~PaneAnswer(ok)
  PROVE  UNCHANGED pane
<1>1. CASE PanelNext
  BY <1>1 DEF PanelNext, DepositRefresh, DepositLapses, DepositAnswer, ViewerLoads, FormSubmit,
              ViewerTurns, ViewerRendered, ViewerBreaks
<1>2. ASSUME NEW o \in DOMAIN op, NEW c \in Contents, CardReads(o, c) PROVE UNCHANGED pane
  BY <1>2 DEF CardReads, panelVars
<1>3. CASE TypesCode \/ HidePage \/ ShowPage \/ ReturnToPage
  BY <1>3 DEF TypesCode, HidePage, ShowPage, ReturnToPage, panelVars
<1>4. ASSUME NEW kept \in BOOLEAN, LeavePage(kept) PROVE UNCHANGED pane
  BY <1>4 DEF LeavePage
<1>5. CASE UNCHANGED <<panelVars>> \/ UNCHANGED vars
  BY <1>5 DEF panelVars, vars
<1> QED BY Zenon, <1>1, <1>2, <1>3, <1>4, <1>5 DEF Next, panelVars

LEMMA PaneStep ==
  ASSUME pane \in PaneRec, PaneInv, [Next]_vars
  PROVE  (pane \in PaneRec /\ PaneInv)'
<1>1. CASE PaneToggle
  <2>1. CASE ~pane.open /\ MayLoad
    <3>1. pane' = [pane EXCEPT !.open = TRUE, !.opens = pane.opens + 1, !.loading = TRUE,
                               !.shows = "loading", !.fetches = pane.fetches + 1]
          /\ pane.opens < MaxOpens
      BY <1>1, <2>1 DEF PaneToggle
    <3>2. pane.fetches = 0 /\ ~pane.loaded
      BY <2>1 DEF PaneInv, MayLoad
    <3>3. pane' \in PaneRec
      <4>1. pane.opens + 1 \in 0..MaxOpens /\ pane.fetches + 1 \in Nat
        BY <3>1, <3>2, PanelAssumption DEF PaneRec
      <4> QED BY <3>1, <4>1 DEF PaneRec
    <3>4. PaneInv'
      BY <3>1, <3>2 DEF PaneInv, PaneRec
    <3> QED BY <3>3, <3>4
  <2>2. CASE ~(~pane.open /\ MayLoad)
    <3>1. pane' = [pane EXCEPT !.open = ~pane.open,
                               !.opens = IF pane.open THEN pane.opens ELSE pane.opens + 1]
      BY <1>1, <2>2 DEF PaneToggle
    <3>2. pane' \in PaneRec
      <4> DEFINE n == IF pane.open THEN pane.opens ELSE pane.opens + 1
                 b == ~pane.open
      <4>1. n \in 0..MaxOpens
        BY <1>1, PanelAssumption DEF PaneRec, PaneToggle
      <4>2. b \in BOOLEAN
        OBVIOUS
      <4>3. pane' = [pane EXCEPT !.open = b, !.opens = n]
        BY <3>1
      <4> HIDE DEF n, b
      <4> QED BY <4>1, <4>2, <4>3 DEF PaneRec
    <3>3. PaneInv'
      BY <3>1 DEF PaneInv, PaneRec
    <3> QED BY <3>2, <3>3
  <2> QED BY <2>1, <2>2
<1>2. ASSUME NEW ok \in BOOLEAN, PaneAnswer(ok) PROVE (pane \in PaneRec /\ PaneInv)'
  <2>1. pane' = [pane EXCEPT !.fetches = pane.fetches - 1, !.loading = FALSE,
                             !.loaded = pane.loaded \/ ok,
                             !.shows = IF ok THEN "evidence" ELSE "error"]
    BY <1>2 DEF PaneAnswer
  <2>2. pane.loading /\ pane.fetches = 1 /\ ~pane.loaded
    BY <1>2 DEF PaneAnswer, PaneInv
  <2>3. (pane.loaded \/ ok) = ok
    BY <2>2
  <2>4. pane' \in PaneRec
    <3> DEFINE n == pane.fetches - 1
               b == pane.loaded \/ ok
               t == IF ok THEN "evidence" ELSE "error"
    <3>1. n \in Nat /\ t \in {"none", "loading", "evidence", "error"}
      BY <2>2
    <3>2. b \in BOOLEAN
      OBVIOUS
    <3>3. pane' = [pane EXCEPT !.fetches = n, !.loading = FALSE, !.loaded = b, !.shows = t]
      BY <2>1
    <3> HIDE DEF n, b, t
    <3> QED BY <3>1, <3>2, <3>3 DEF PaneRec
  <2>5. PaneInv'
    BY <2>1, <2>2, <2>3 DEF PaneInv, PaneRec
  <2> QED BY <2>4, <2>5
<1>3. CASE UNCHANGED pane
  BY <1>3 DEF PaneInv
<1> QED BY <1>1, <1>2, <1>3, PaneUnchanged

LEMMA PaneAlways == Spec => [](pane \in PaneRec /\ PaneInv)
<1>1. Init => pane \in PaneRec /\ PaneInv
  BY PanelAssumption DEF Init, PanelInit, PaneRec, PaneInv
<1>2. pane \in PaneRec /\ PaneInv /\ [Next]_vars => (pane \in PaneRec /\ PaneInv)'
  BY PaneStep
<1> QED BY <1>1, <1>2, PTL DEF Spec

\* check-pane.js: no answer that comes late takes loaded evidence away.
THEOREM EvidenceIsKept == Spec => []EvidenceStays
<1>1. PaneInv => EvidenceStays
  BY DEF PaneInv, EvidenceStays
<1> QED BY <1>1, PaneAlways, PTL

-------------------------------------------------------------------------------
\* forms.js: a form with another label than its own is off, and has its own saved.
FormRec == [busy : BOOLEAN, off : BOOLEAN, text : {"own", "working"},
            saved : {"none", "own", "working"}]
FormInv ==
  /\ form \in FormRec
  /\ form.text # "own" => form.off /\ form.saved = "own"
  /\ form.saved \in {"none", "own"}

Restores == life = "cached" /\ life' = "shown" => ~form'.off /\ form'.text = "own"

LEMMA ScanLeavesLife == ASSUME ScanNext PROVE UNCHANGED <<life, left>>
<1>1. CASE ScanStart \/ ScanStop \/ Detects \/ QrStart \/ QrStop \/ QrTimesOut
  BY <1>1 DEF ScanStart, ScanStop, Detects, QrStart, QrStop, QrTimesOut, lifeVars
<1>2. ASSUME NEW one \in BOOLEAN, NEW full \in BOOLEAN, Detected(one, full)
      PROVE  UNCHANGED <<life, left>>
  BY <1>2 DEF Detected
<1>3. ASSUME NEW q \in Cams, NEW ok \in BOOLEAN,
             Halt(q) \/ Sees(q) \/ Plays(q, ok) \/ Decodes(q, ok)
      PROVE  UNCHANGED <<life, left>>
  BY <1>3 DEF Halt, Sees, Plays, Decodes, lifeVars
<1>4. ASSUME NEW q \in Cams, NEW w \in Callers, NEW ok \in BOOLEAN,
             CameraAnswers(q, w, ok) \/ PlayEnds(q, w, ok)
      PROVE  UNCHANGED <<life, left>>
  BY <1>4 DEF CameraAnswers, PlayEnds, lifeVars
<1> QED BY <1>1, <1>2, <1>3, <1>4 DEF ScanNext

LEMMA FormUnchanged ==
  ASSUME [Next]_vars, \A label \in BOOLEAN : ~FormSubmit(label), ~ReturnToPage
  PROVE  UNCHANGED form /\ ~(life = "cached" /\ life' = "shown")
<1>1. CASE PanelNext
  BY <1>1 DEF PanelNext, DepositRefresh, DepositLapses, DepositAnswer, ViewerLoads, PaneToggle,
              PaneAnswer, ViewerTurns, ViewerRendered, ViewerBreaks, lifeVars
<1>2. ASSUME NEW o \in DOMAIN op, NEW c \in Contents, CardReads(o, c)
      PROVE  UNCHANGED <<form, life>>
  BY <1>2 DEF CardReads, panelVars, Reading
<1>3. CASE TypesCode \/ HidePage \/ ShowPage
  BY <1>3 DEF TypesCode, HidePage, ShowPage, panelVars, Hides, Shows
<1>4. ASSUME NEW kept \in BOOLEAN, LeavePage(kept)
      PROVE  UNCHANGED form /\ ~(life = "cached" /\ life' = "shown")
  BY <1>4 DEF LeavePage, Leaves
<1>5. CASE CardNext /\ UNCHANGED <<scanVars, panelVars>>
  <2>1. UNCHANGED life
    BY <1>5 DEF CardNext, ToggleConsent, Cancel, Begin, CardWritten, Refused, CardHeard,
                WriteSettles, ReadFails, TimesOut, lifeVars
  <2> QED BY <1>5, <2>1 DEF panelVars
<1>6. CASE ScanNext /\ UNCHANGED <<cardVars, panelVars>>
  BY <1>6, ScanLeavesLife DEF panelVars
<1>7. CASE UNCHANGED vars
  BY <1>7 DEF panelVars, vars, lifeVars
<1> QED BY Zenon, <1>1, <1>2, <1>3, <1>4, <1>5, <1>6, <1>7 DEF Next

LEMMA FormStep ==
  ASSUME FormInv, [Next]_vars
  PROVE  FormInv' /\ Restores
<1>1. ASSUME NEW label \in BOOLEAN, FormSubmit(label) PROVE FormInv' /\ Restores
  <2> DEFINE t == IF label THEN "working" ELSE form.text
  <2>1. form.text = "own" /\ UNCHANGED life /\ t \in {"own", "working"}
    BY <1>1 DEF FormSubmit, FormInv
  <2>2. form' = [form EXCEPT !.busy = TRUE, !.off = TRUE, !.saved = "own", !.text = t]
    BY <1>1, <2>1 DEF FormSubmit, Relabelled
  <2> HIDE DEF t
  <2>3. FormInv'
    BY <2>1, <2>2 DEF FormInv, FormRec
  <2> QED BY <2>1, <2>3 DEF Restores
<1>2. CASE ReturnToPage
  <2> DEFINE t == IF form.saved = "none" THEN form.text ELSE form.saved
  <2>1. t = "own"
    BY DEF FormInv
  <2>2. form' = [form EXCEPT !.busy = FALSE, !.off = FALSE, !.text = "own"]
    BY <1>2, <2>1 DEF ReturnToPage, FormReturns
  <2>3. FormInv' /\ ~form'.off /\ form'.text = "own"
    BY <2>2 DEF FormInv, FormRec
  <2> QED BY <2>3 DEF Restores
<1>3. CASE UNCHANGED form /\ ~(life = "cached" /\ life' = "shown")
  BY <1>3 DEF FormInv, Restores
<1> QED BY <1>1, <1>2, <1>3, FormUnchanged

LEMMA FormAlways == Spec => []FormInv
<1>1. Init => FormInv
  BY DEF Init, PanelInit, FormInv, FormRec
<1>2. FormInv /\ [Next]_vars => FormInv'
  BY FormStep
<1> QED BY <1>1, <1>2, PTL DEF Spec

\* forms.js: however often the form was submitted, history brings it back usable and
\* under its own label.
THEOREM FormsAreRestored == Spec => ReturnRestoresForm
<1>2. FormInv /\ [Next]_vars => [Restores]_vars
  BY FormStep
<1>3. Spec => [][Restores]_vars
  BY <1>2, FormAlways, PTL DEF Spec
<1>4. [][Restores]_vars => ReturnRestoresForm
  BY PTL DEF ReturnRestoresForm, Restores
<1> QED BY <1>3, <1>4, PTL

-------------------------------------------------------------------------------
\* lightning-scan.js: the codes submitted are fewer than the starts as long as none
\* was accepted since the last start, and never more.
Scanned == {i \in DOMAIN posts : posts[i] = "scan"}

ScanRec == [accepted : BOOLEAN, running : BOOLEAN, detecting : BOOLEAN,
            startOn : BOOLEAN, stopOn : BOOLEAN, starts : Nat]

ScanInv ==
  /\ posts \in Seq(Posts)
  /\ scan \in ScanRec /\ (scan.detecting => page = "scan")
  /\ Cardinality(Scanned) <= scan.starts
  /\ page = "scan" /\ ~scan.accepted => Cardinality(Scanned) < scan.starts

LEMMA ScannedIsFinite ==
  ASSUME posts \in Seq(Posts)
  PROVE  IsFiniteSet(Scanned) /\ Cardinality(Scanned) \in Nat
<1>1. Len(posts) \in Nat /\ Scanned \subseteq 1..Len(posts)
  BY DEF Scanned
<1>2. IsFiniteSet(1..Len(posts))
  BY <1>1, FS_Interval
<1>3. IsFiniteSet(Scanned)
  BY <1>1, <1>2, FS_Subset
<1> QED BY <1>3, FS_CardinalityType

LEMMA PostAdds ==
  ASSUME posts \in Seq(Posts), NEW x \in Posts, posts' = Append(posts, x)
  PROVE  /\ x = "scan" => Cardinality(Scanned') = Cardinality(Scanned) + 1
         /\ x # "scan" => Scanned' = Scanned
<1> DEFINE n == Len(posts) + 1
<1>1. /\ Len(posts) \in Nat /\ DOMAIN posts = 1..Len(posts) /\ DOMAIN posts' = 1..n
      /\ posts'[n] = x /\ \A i \in 1..Len(posts) : posts'[i] = posts[i]
  OBVIOUS
<1>2. x # "scan" => Scanned' = Scanned
  BY <1>1 DEF Scanned
<1>3. ASSUME x = "scan" PROVE Scanned' = Scanned \cup {n} /\ n \notin Scanned
  BY <1>1, <1>3 DEF Scanned
<1>4. x = "scan" => Cardinality(Scanned') = Cardinality(Scanned) + 1
  BY <1>3, ScannedIsFinite, FS_AddElement
<1> QED BY <1>2, <1>4

\* A step that neither starts the scanner nor submits a scanned code
ScanQuiet ==
  /\ page' = page /\ scan' \in ScanRec
  /\ scan'.accepted = scan.accepted /\ scan'.starts = scan.starts
  /\ scan'.detecting => scan.detecting \/ page = "scan"
  /\ posts' = posts \/ \E x \in Posts \ {"scan"} : posts' = Append(posts, x)

LEMMA QuietKeeps == ASSUME ScanInv, ScanQuiet PROVE ScanInv'
<1>1. Scanned' = Scanned /\ posts' \in Seq(Posts)
  <2>1. CASE posts' = posts
    BY <2>1 DEF Scanned, ScanInv
  <2>2. ASSUME NEW x \in Posts \ {"scan"}, posts' = Append(posts, x)
        PROVE  Scanned' = Scanned /\ posts' \in Seq(Posts)
    BY <2>2, PostAdds DEF ScanInv
  <2> QED BY <2>1, <2>2 DEF ScanQuiet
<1> QED BY <1>1 DEF ScanInv, ScanQuiet

\* acceptResult, called with flags that keep what was accepted and started
LEMMA AcceptKeeps ==
  ASSUME ScanInv, page = "scan", UNCHANGED page, NEW full \in BOOLEAN,
         NEW s \in ScanRec, s.accepted = scan.accepted, s.starts = scan.starts,
         NEW l, ScanAccept(full, s, l)
  PROVE  ScanInv'
<1>1. CASE Accepts(full)
  <2>1. /\ scan' = [s EXCEPT !.accepted = TRUE, !.running = FALSE,
                              !.startOn = TRUE, !.stopOn = FALSE]
        /\ posts' = Append(posts, "scan") /\ ~scan.accepted
    BY <1>1 DEF ScanAccept, Accepts
  <2>2. scan' \in ScanRec /\ scan'.accepted /\ scan'.starts = scan.starts
    BY <2>1 DEF ScanRec
  <2>3. Cardinality(Scanned') = Cardinality(Scanned) + 1 /\ Cardinality(Scanned) \in Nat
    BY <2>1, PostAdds, ScannedIsFinite DEF ScanInv, Posts
  <2>4. posts' \in Seq(Posts)
    BY <2>1 DEF ScanInv, Posts
  <2>5. Cardinality(Scanned) < scan.starts /\ scan.starts \in Nat
    BY <2>1 DEF ScanInv, ScanRec
  <2>6. Cardinality(Scanned') <= scan'.starts
    BY <2>2, <2>3, <2>5
  <2> QED BY <2>2, <2>4, <2>6 DEF ScanInv
<1>2. CASE ~Accepts(full)
  <2>1. ScanQuiet
    BY <1>2 DEF ScanAccept, ScanQuiet
  <2> QED BY <2>1, QuietKeeps
<1> QED BY <1>1, <1>2

LEMMA ScanNextKeeps ==
  ASSUME ScanInv, ScanNext
  PROVE  ScanInv'
<1>0. scan \in ScanRec
  BY DEF ScanInv
<1>1. CASE ScanStart
  <2> DEFINE b == scan.startOn /\ lib[1].destroyed
  <2>1. /\ scan' = [scan EXCEPT !.accepted = FALSE, !.starts = scan.starts + 1, !.startOn = b]
        /\ UNCHANGED <<posts, page>> /\ page = "scan"
    BY <1>1 DEF ScanStart, lifeVars
  <2>2. b \in BOOLEAN /\ scan.starts + 1 \in Nat
    <3>1. scan.starts \in Nat
      BY <1>0 DEF ScanRec
    <3> QED BY <3>1
  <2> HIDE DEF b
  <2>3. /\ scan' \in ScanRec /\ scan'.accepted = FALSE /\ scan'.starts = scan.starts + 1
    BY <1>0, <2>1, <2>2 DEF ScanRec
  <2>4. Cardinality(Scanned) \in Nat /\ Scanned' = Scanned /\ scan.starts \in Nat
        /\ Cardinality(Scanned) <= scan.starts
    BY <1>0, <2>1, ScannedIsFinite DEF ScanInv, Scanned, ScanRec
  <2>5. Cardinality(Scanned') <= scan'.starts /\ Cardinality(Scanned') < scan'.starts
    BY <2>3, <2>4
  <2> QED BY <2>1, <2>3, <2>5 DEF ScanInv
<1>2. CASE ScanStop
  <2>1. ScanQuiet
    BY <1>0, <1>2 DEF ScanQuiet, ScanStop, ScanRec, lifeVars
  <2> QED BY <2>1, QuietKeeps
<1>3. CASE Detects
  <2>1. ScanQuiet
    BY <1>0, <1>3 DEF ScanQuiet, Detects, ScanRec, lifeVars
  <2> QED BY <2>1, QuietKeeps
<1>4. CASE QrStart \/ QrStop \/ QrTimesOut
  <2>1. ScanQuiet
    BY <1>0, <1>4 DEF ScanQuiet, QrStart, QrStop, QrTimesOut, lifeVars
  <2> QED BY <2>1, QuietKeeps
<1>5. ASSUME NEW one \in BOOLEAN, NEW full \in BOOLEAN, Detected(one, full) PROVE ScanInv'
  <2> DEFINE s == [scan EXCEPT !.detecting = FALSE]
             f == one /\ full /\ scan.running
  <2>1. /\ ScanAccept(f, s, lib) /\ UNCHANGED page
        /\ page = "scan"
    BY <1>5 DEF Detected, ScanInv
  <2>2. s \in ScanRec /\ s.accepted = scan.accepted /\ s.starts = scan.starts
    BY <1>0 DEF ScanRec
  <2>3. f \in BOOLEAN
    OBVIOUS
  <2> HIDE DEF s, f
  <2> QED BY <2>1, <2>2, <2>3, AcceptKeeps
<1>6. ASSUME NEW q \in Cams, Halt(q) \/ Sees(q) PROVE ScanInv'
  <2>1. ScanQuiet
    BY <1>0, <1>6 DEF ScanQuiet, Halt, Sees, lifeVars
  <2> QED BY <2>1, QuietKeeps
<1>7. ASSUME NEW q, NEW ok, NEW l, Continues(q, ok, l), UNCHANGED lifeVars PROVE ScanInv'
  <2>1. scan' = ScanContinues(ok) \/ scan' = scan
    BY <1>7 DEF Continues
  <2>2. scan' \in ScanRec /\ scan'.accepted = scan.accepted /\ scan'.starts = scan.starts
        /\ scan'.detecting = scan.detecting
    BY <1>0, <2>1 DEF ScanContinues, ScanRec
  <2>3. ScanQuiet
    BY <1>7, <2>2 DEF ScanQuiet, lifeVars
  <2> QED BY <2>3, QuietKeeps
<1>8. ASSUME NEW q \in Cams, NEW ok \in BOOLEAN, Plays(q, ok) PROVE ScanInv'
  BY <1>7, <1>8 DEF Plays
<1>9. ASSUME NEW q \in Cams, NEW w \in Callers, NEW ok \in BOOLEAN,
             CameraAnswers(q, w, ok) \/ PlayEnds(q, w, ok)
      PROVE  ScanInv'
  <2>1. CASE UNCHANGED <<scan, lifeVars>>
    <3>1. ScanQuiet
      BY <1>0, <2>1 DEF ScanQuiet, lifeVars
    <3> QED BY <3>1, QuietKeeps
  <2>2. ASSUME NEW r, NEW k \in BOOLEAN, StartEnds(q, w, k, r), UNCHANGED lifeVars
        PROVE  ScanInv'
    BY <1>7, <2>1, <2>2 DEF StartEnds
  <2>3. CASE CameraAnswers(q, w, ok)
    BY <2>1, <2>2, <2>3 DEF CameraAnswers
  <2>4. CASE PlayEnds(q, w, ok)
    BY <2>2, <2>4 DEF PlayEnds
  <2> QED BY <1>9, <2>3, <2>4
<1>10. ASSUME NEW q \in Cams, NEW valid \in BOOLEAN, Decodes(q, valid) PROVE ScanInv'
  <2> DEFINE l == [lib EXCEPT ![q].flights = @ - 1]
  <2>1. CASE page = "scan"
    <3>1. ScanAccept(valid, scan, l) /\ UNCHANGED page
      BY <1>10, <2>1 DEF Decodes
    <3> HIDE DEF l
    <3> QED BY <1>0, <2>1, <3>1, AcceptKeeps
  <2>2. CASE page # "scan"
    <3>1. UNCHANGED <<scan, page>> /\ (posts' = posts \/ posts' = Append(posts, "qr"))
      BY <1>10, <2>2 DEF Decodes, QrDecoded
    <3>2. "qr" \in Posts \ {"scan"}
      BY DEF Posts
    <3>3. ScanQuiet
      BY <1>0, <3>1, <3>2 DEF ScanQuiet
    <3> QED BY <3>3, QuietKeeps
  <2> QED BY <2>1, <2>2
<1> QED BY <1>1, <1>2, <1>3, <1>4, <1>5, <1>6, <1>8, <1>9, <1>10 DEF ScanNext

LEMMA ScanInvStep ==
  ASSUME ScanInv, [Next]_vars
  PROVE  ScanInv'
<1>0. scan \in ScanRec /\ {"card", "typed"} \subseteq Posts \ {"scan"}
  BY DEF ScanInv, Posts
<1>1. CASE CardNext /\ UNCHANGED <<scanVars, panelVars>>
  <2>1. UNCHANGED <<page, posts>>
    BY <1>1 DEF CardNext, ToggleConsent, Cancel, Begin, CardWritten, Refused, CardHeard,
                WriteSettles, ReadFails, TimesOut, lifeVars
  <2>2. ScanQuiet
    BY <1>0, <1>1, <2>1 DEF ScanQuiet, scanVars
  <2> QED BY <2>2, QuietKeeps
<1>2. ASSUME NEW o \in DOMAIN op, NEW c \in Contents, CardReads(o, c) PROVE ScanInv'
  <2>1. ScanQuiet
    BY <1>0, <1>2 DEF CardReads, Reading, ScanQuiet
  <2> QED BY <2>1, QuietKeeps
<1>3. CASE TypesCode
  <2>1. ScanQuiet
    BY <1>0, <1>3 DEF TypesCode, ScanQuiet
  <2> QED BY <2>1, QuietKeeps
<1>4. CASE ScanNext /\ UNCHANGED <<cardVars, panelVars>>
  BY <1>4, ScanNextKeeps
<1>5. CASE PanelNext /\ UNCHANGED <<cardVars, scanVars>>
  <2>1. UNCHANGED page /\ (posts' = posts \/ posts' = Append(posts, "typed"))
    BY <1>5 DEF PanelNext, DepositRefresh, DepositLapses, PaneToggle, DepositAnswer, PaneAnswer,
                ViewerLoads, FormSubmit, ViewerTurns, ViewerRendered, ViewerBreaks, lifeVars
  <2>2. ScanQuiet
    BY <1>0, <1>5, <2>1 DEF ScanQuiet, scanVars
  <2> QED BY <2>2, QuietKeeps
<1>6. CASE HidePage \/ ShowPage \/ ReturnToPage
  <2>1. ScanQuiet
    BY <1>0, <1>6 DEF ScanQuiet, HidePage, Hides, ShowPage, Shows, ReturnToPage, Returns, scanVars
  <2> QED BY <2>1, QuietKeeps
<1>7. ASSUME NEW kept \in BOOLEAN, LeavePage(kept) PROVE ScanInv'
  <2>1. UNCHANGED <<page, posts>> /\ (scan' = scan \/ scan' = [scan EXCEPT !.running = FALSE])
    BY <1>7 DEF LeavePage, Leaves, ScanLeft
  <2>2. ScanQuiet
    BY <1>0, <2>1 DEF ScanQuiet, ScanRec
  <2> QED BY <2>2, QuietKeeps
<1>8. CASE UNCHANGED vars
  <2>1. ScanQuiet
    BY <1>0, <1>8 DEF ScanQuiet, vars, scanVars, lifeVars
  <2> QED BY <2>1, QuietKeeps
<1> QED BY <1>1, <1>2, <1>3, <1>4, <1>5, <1>6, <1>7, <1>8 DEF Next

\* lightning-scan.js: its two decoders submit at most one code for each start.
THEOREM StartsBoundSubmits == Spec => []OneSubmitPerStart
<1>1. Init => ScanInv
  <2> SUFFICES ASSUME Init PROVE ScanInv
    OBVIOUS
  <2>1. posts = <<>> /\ Scanned = {} /\ Cardinality(Scanned) = 0
    BY FS_EmptySet DEF Init, LifeInit, Scanned
  <2>2. /\ scan \in ScanRec /\ ~scan.detecting
        /\ scan.starts = IF page = "scan" THEN 1 ELSE 0
    BY DEF Init, ScanInit, ScanRec
  <2> QED BY <2>1, <2>2 DEF ScanInv
<1>2. ScanInv /\ [Next]_vars => ScanInv'
  BY ScanInvStep
<1>3. ScanInv => OneSubmitPerStart
  BY DEF ScanInv, OneSubmitPerStart, Scanned
<1> QED BY <1>1, <1>2, <1>3, PTL DEF Spec
===============================================================================
