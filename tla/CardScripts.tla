------------------------------ MODULE CardScripts ------------------------------
(* The two scripts that drive the browser's NFC reader: nfc-card.js ("test",   *)
(* which writes and reads a record without secrets) and nfc-issuance.js         *)
(* ("issuance", which writes the issuer's credential and submits one that was  *)
(* read). Both run on the card page; the login page runs the second, without   *)
(* its write button. An operation keeps its AbortController, a promise of the   *)
(* browser and the reading events that were queued for it, and all of these     *)
(* can answer after the script has finished the operation.                      *)
EXTENDS PageLife

CONSTANTS MaxOps,   \* bound: operations begun on a page
          MaxHeard  \* bound: reading events queued for one operation

ASSUME CardAssumption == MaxOps \in Nat /\ MaxHeard \in Nat

VARIABLES active,   \* per script: the operation in progress, 0 if none
          consent,  \* per script: the box that allows a write
          op,       \* the operations begun, in order
          status,   \* per script: which operation the status line speaks of
          wrote     \* the operations whose data reached a card

cardVars == <<active, consent, op, status, wrote>>

Scripts == {"test", "issuance"}
Kinds == {"write", "read"}
Promises == {"pending", "resolved", "rejected", "done"}
Contents == {"credential", "foreign", "unreadable"}
Endings == Contents \cup {"written", "unconfirmed", "failed", "timeout", "cancelled"}
Loaded(s) == page = "card" \/ (page = "login" /\ s = "issuance")

CardInit ==
  /\ active = [s \in Scripts |-> 0]
  /\ consent = [s \in Scripts |-> FALSE]
  /\ op = <<>>
  /\ status = [s \in Scripts |-> [of |-> 0, says |-> "ready"]]
  /\ wrote = {}

CardTypeOK ==
  /\ active \in [Scripts -> 0..Len(op)]
  /\ consent \in [Scripts -> BOOLEAN]
  /\ op \in Seq([script : Scripts, kind : Kinds, live : BOOLEAN,
                 promise : Promises, heard : Nat])
  /\ status \in [Scripts -> [of : 0..Len(op), says : Endings \cup {"ready", "prompt"}]]
  /\ wrote \subseteq 1..Len(op)

\* finish: the operations O are ended, their signals aborted, the line rewritten.
Ends(O, says, ops) ==
  /\ active' = [s \in Scripts |-> IF \E o \in O : ops[o].script = s THEN 0 ELSE active[s]]
  /\ status' = [s \in Scripts |->
                  IF \E o \in O : ops[o].script = s
                  THEN [of |-> CHOOSE o \in O : ops[o].script = s, says |-> says]
                  ELSE status[s]]
  /\ op' = [o \in DOMAIN ops |-> [ops[o] EXCEPT !.live = @ /\ o \notin O]]

\* Mutant: finish does not look whether the operation is still the active one.
EndedOrNot(o) == {o}

\* Its test: an operation that is not its script's active one is left alone.
Current(o) == {x \in {o} : active[op[x].script] = x}
Finish(o, says, ops) == Ends(Current(o), says, ops)

Begin(s, kind) ==
  /\ life = "shown" /\ Loaded(s)
  /\ active[s] = 0
  /\ kind = "write" => page = "card" /\ consent[s]
  /\ Len(op) < MaxOps
  /\ op' = Append(op, [script |-> s, kind |-> kind, live |-> TRUE,
                       promise |-> "pending", heard |-> 0])
  /\ active' = [active EXCEPT ![s] = Len(op) + 1]
  /\ status' = [status EXCEPT ![s] = [of |-> Len(op) + 1, says |-> "prompt"]]
  /\ UNCHANGED <<consent, wrote, lifeVars>>

\* The test script locks its box while an operation runs, the other does not.
ToggleConsent(s) ==
  /\ life = "shown" /\ page = "card"
  /\ s = "test" => active[s] = 0
  /\ consent' = [consent EXCEPT ![s] = ~@]
  /\ UNCHANGED <<active, op, status, wrote, lifeVars>>

\* The reader. A write that is under way is not called back by an abort.
CardWritten(o) ==
  /\ op[o].kind = "write" /\ op[o].promise = "pending"
  /\ op' = [op EXCEPT ![o].promise = "resolved"]
  /\ wrote' = wrote \cup {o}
  /\ UNCHANGED <<active, consent, status, lifeVars>>

\* Refused, aborted, or the card left the field before or after it was written.
Refused(o) ==
  /\ op[o].promise = "pending"
  /\ op' = [op EXCEPT ![o].promise = "rejected"]
  /\ wrote' \in {wrote} \cup {wrote \cup {x \in {o} : op[x].kind = "write"}}
  /\ UNCHANGED <<active, consent, status, lifeVars>>

CardHeard(o) ==
  /\ op[o].kind = "read" /\ op[o].promise = "pending"
  /\ op[o].live /\ op[o].heard < MaxHeard
  /\ op' = [op EXCEPT ![o].heard = @ + 1]
  /\ UNCHANGED <<active, consent, status, wrote, lifeVars>>

\* await write(), and its catch
WriteSettles(o) ==
  /\ Runs /\ op[o].kind = "write"
  /\ op[o].promise \in {"resolved", "rejected"}
  /\ Finish(o, IF op[o].promise = "resolved" THEN "written" ELSE "unconfirmed",
            [op EXCEPT ![o].promise = "done"])
  /\ UNCHANGED <<consent, wrote, lifeVars>>

\* the catch of await scan()
ReadFails(o) ==
  /\ Runs /\ op[o].kind = "read" /\ op[o].promise = "rejected"
  /\ Finish(o, "failed", [op EXCEPT ![o].promise = "done"])
  /\ UNCHANGED <<consent, wrote, lifeVars>>

\* Mutant: neither the event handler nor finish looks.
HeedsAny(o) == {o}

\* A queued reading event is dispatched; a credential is submitted by the
\* script that logs in and issues, once the operation is found to be current.
Heeded(o) == Current(o)
Reading(o, content) ==
  /\ Runs /\ op[o].kind = "read" /\ op[o].heard > 0
  /\ Ends(Heeded(o), content, [op EXCEPT ![o].heard = @ - 1])
  /\ posts' = IF Heeded(o) # {} /\ op[o].script = "issuance" /\ content = "credential"
              THEN Append(posts, "card") ELSE posts
  /\ UNCHANGED <<consent, wrote, page, life, left>>

\* Mutant: only reads have a timer.
TimesOutReads(o) ==
  /\ Runs /\ Current(o) # {} /\ op[o].kind = "read"
  /\ Finish(o, "timeout", op)
  /\ UNCHANGED <<consent, wrote, lifeVars>>

\* The timer of thirty seconds, which finish clears, and the cancel button.
TimesOut(o) ==
  /\ Runs /\ Current(o) # {}
  /\ Finish(o, "timeout", op)
  /\ UNCHANGED <<consent, wrote, lifeVars>>

Cancel(s) ==
  /\ life = "shown" /\ active[s] # 0
  /\ Finish(active[s], "cancelled", op)
  /\ UNCHANGED <<consent, wrote, lifeVars>>

\* stop, on pagehide and on visibilitychange to hidden
Stopping == {active[s] : s \in Scripts} \ {0}
CardsStop == Ends(Stopping, "cancelled", op) /\ UNCHANGED <<consent, wrote>>
===============================================================================
