------------------------------- MODULE PageLife -------------------------------
(* One page of the web application in one browser tab: which page it is, what  *)
(* the browser does with it, and the forms its scripts and its user submit.    *)
(* The browser is the environment: it hides and shows the tab, and when the    *)
(* user leaves it may keep the page, frozen, in its back/forward cache and     *)
(* show it again. A page with a camera on is not kept.                         *)
EXTENDS Naturals, Sequences, FiniteSets

CONSTANTS MaxLeaves,  \* bound: how often the tab is hidden or the page is left
          MaxTyped    \* bound: forms the user submits by hand

ASSUME LifeAssumption == MaxLeaves \in Nat /\ MaxTyped \in Nat

VARIABLES page,   \* the template that was rendered
          life,   \* "shown", "hidden", "cached" (frozen), "gone"
          left,   \* how often the page was hidden or left
          posts   \* what was submitted from the page, in order

lifeVars == <<page, life, left, posts>>

Pages == {"card", "login", "scan", "deposit", "record", "form"}
Lives == {"shown", "hidden", "cached", "gone"}
Posts == {"card", "qr", "scan", "typed"}

\* Timers, promises and events reach a page that is hidden, not a frozen one.
Runs == life \in {"shown", "hidden"}

LifeInit ==
  /\ page \in Pages
  /\ life = "shown"
  /\ left = 0
  /\ posts = <<>>

LifeTypeOK ==
  /\ page \in Pages /\ life \in Lives /\ left \in 0..MaxLeaves
  /\ posts \in Seq(Posts)

Typed == Cardinality({i \in DOMAIN posts : posts[i] = "typed"})

\* visibilitychange, pagehide and pageshow
Hides == /\ life = "shown" /\ left < MaxLeaves
         /\ life' = "hidden" /\ left' = left + 1 /\ UNCHANGED <<page, posts>>
Shows == /\ life = "hidden"
         /\ life' = "shown" /\ UNCHANGED <<page, left, posts>>
Leaves(kept) == /\ Runs /\ left < MaxLeaves
                /\ life' = IF kept THEN "cached" ELSE "gone"
                /\ left' = left + 1 /\ UNCHANGED <<page, posts>>
Returns == /\ life = "cached"
           /\ life' = "shown" /\ UNCHANGED <<page, left, posts>>
===============================================================================
