---------------------------- MODULE PaymentPromise ----------------------------
(***************************************************************************)
(* What the provider promises about every payment, whatever its queue,     *)
(* worker and callbacks do: value goes to the recipient at most once, only *)
(* after the payer paid and while the payment is open; a payment the payer *)
(* paid for is never dropped unless the mint lost its quote; and what was  *)
(* put under review can only be closed by the operator.                    *)
(***************************************************************************)
CONSTANT Payments

VARIABLES
  verdict,    \* "void", "open", "delivered", "review" or "closed"
  invoiced,   \* payments whose invoice was handed to a payer
  paid,       \* payments the payer settled over Lightning
  dropped,    \* payments whose quote the mint no longer knows
  forwarded   \* payments whose value left for the recipient

vars == <<verdict, invoiced, paid, dropped, forwarded>>

TypeOK ==
  /\ verdict \in [Payments -> {"void", "open", "delivered", "review", "closed"}]
  /\ invoiced \in SUBSET Payments /\ paid \in SUBSET Payments
  /\ dropped \in SUBSET Payments /\ forwarded \in SUBSET Payments

Init ==
  /\ verdict \in [Payments -> {"void"}]
  /\ invoiced \in SUBSET Payments
  /\ paid = {} /\ dropped = {} /\ forwarded = {}

Become(i, from, to) == verdict[i] = from /\ verdict' = [verdict EXCEPT ![i] = to]

\* A callback records the obligation.
Open(i) == Become(i, "void", "open") /\ UNCHANGED <<invoiced, paid, dropped, forwarded>>

\* Rows failed by the former settlement timeout are polled again, together.
Reopen ==
  /\ \E S \in SUBSET invoiced :
       /\ \A i \in S : verdict[i] = "void"
       /\ verdict' = [i \in Payments |-> IF i \in S THEN "open" ELSE verdict[i]]
  /\ UNCHANGED <<invoiced, paid, dropped, forwarded>>

HandOut(i) ==
  /\ invoiced' = invoiced \cup {i}
  /\ UNCHANGED <<verdict, paid, dropped, forwarded>>

\* A zap's invoice is stored and handed out by the same callback.
Pay(i) ==
  /\ i \in invoiced \ paid /\ i \notin dropped
  /\ paid' = paid \cup {i} /\ UNCHANGED <<verdict, invoiced, dropped, forwarded>>

Drop(i) == dropped' = dropped \cup {i} /\ UNCHANGED <<verdict, invoiced, paid, forwarded>>

\* An open payment is given up: nobody paid it, or the mint does not know it.
Void(i) ==
  /\ Become(i, "open", "void") /\ (i \in paid => i \in dropped) /\ i \notin forwarded
  /\ UNCHANGED <<invoiced, paid, dropped, forwarded>>

\* The one transfer.
Forward(i) ==
  /\ verdict[i] = "open" /\ i \in paid \ forwarded
  /\ forwarded' = forwarded \cup {i} /\ UNCHANGED <<verdict, invoiced, paid, dropped>>

Deliver(i) ==
  /\ i \in forwarded /\ Become(i, "open", "delivered")
  /\ UNCHANGED <<invoiced, paid, dropped, forwarded>>

\* A restart files every interrupted payment at once; an interrupted invoice
\* creation is given up in the same step.
Review ==
  /\ \E S \in SUBSET paid, V \in SUBSET (Payments \ paid) :
       /\ \A i \in S \cup V : verdict[i] = "open"
       /\ verdict' = [i \in Payments |-> IF i \in S THEN "review"
                                         ELSE IF i \in V THEN "void" ELSE verdict[i]]
  /\ UNCHANGED <<invoiced, paid, dropped, forwarded>>

Close(i) == Become(i, "review", "closed") /\ UNCHANGED <<invoiced, paid, dropped, forwarded>>

Next ==
  \/ Reopen \/ Review
  \/ \E i \in Payments : \/ Open(i) \/ HandOut(i) \/ Pay(i) \/ Drop(i) \/ Void(i)
                         \/ Forward(i) \/ Deliver(i) \/ Close(i)

Spec == Init /\ [][Next]_vars
=============================================================================
