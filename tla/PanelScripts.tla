------------------------------ MODULE PanelScripts -----------------------------
(* The scripts that refresh or decorate what the server rendered:               *)
(* deposit-status.js polls the status of a transfer, check-pane.js loads the    *)
(* evidence of a record when its pane is opened, pdf-viewer.js shows a document *)
(* page by page, and forms.js marks a form that was submitted.                  *)
EXTENDS PageLife

CONSTANTS NumPages,  \* pages of the document
          MaxOpens   \* bound: how often the pane is opened

ASSUME PanelAssumption == NumPages \in Nat \ {0} /\ MaxOpens \in Nat

VARIABLES deposit, pane, viewer, form

panelVars == <<deposit, pane, viewer, form>>

PanelInit ==
  /\ deposit = [poll |-> "asking", says |-> "none", stopped |-> FALSE, late |-> FALSE]
  /\ pane = [open |-> FALSE, opens |-> 0, loading |-> FALSE, loaded |-> FALSE,
             shows |-> "none", fetches |-> 0]
  /\ viewer = [at |-> "loading", current |-> 1, label |-> 0, canvas |-> 0,
               whole |-> FALSE, rendering |-> {}, back |-> FALSE, forth |-> FALSE,
               controls |-> FALSE]
  /\ form = [busy |-> FALSE, off |-> FALSE, text |-> "own", saved |-> "none"]

PanelTypeOK ==
  /\ deposit \in [poll : {"asking", "waiting", "ended"}, stopped : BOOLEAN, late : BOOLEAN,
                  says : {"none", "status", "final", "complete", "unavailable", "paused"}]
  /\ pane \in [open : BOOLEAN, opens : 0..MaxOpens, loading : BOOLEAN, loaded : BOOLEAN,
               shows : {"none", "loading", "evidence", "error"}, fetches : Nat]
  /\ viewer \in [at : {"loading", "open", "failed"}, current : 1..NumPages,
                 label : 0..NumPages, canvas : 0..NumPages,
                 whole : BOOLEAN, rendering : SUBSET (1..NumPages),
                 back : BOOLEAN, forth : BOOLEAN, controls : BOOLEAN]
  /\ form \in [busy : BOOLEAN, off : BOOLEAN, text : {"own", "working"},
               saved : {"none", "own", "working"}]

-------------------------------------------------------------------------------
\* deposit-status.js

\* refresh, three seconds after the last answer
MayAsk == ~deposit.stopped
DepositRefresh ==
  /\ page = "deposit" /\ Runs /\ deposit.poll = "waiting"
  /\ deposit' = [deposit EXCEPT !.poll = IF MayAsk THEN "asking" ELSE "ended"]
  /\ UNCHANGED <<pane, viewer, form, lifeVars>>

\* An answer, an error or ten seconds without either; the deadline is looked at
\* after the answer was shown.
Answers == {"status", "final", "complete", "unavailable"}

\* Mutant: the deadline is not looked at.
AgainForever(answer) ==
  [poll |-> IF answer \in {"final", "complete"} THEN "ended" ELSE "waiting", says |-> answer]

Again(answer) ==
  CASE answer \in {"final", "complete"} -> [poll |-> "ended", says |-> answer]
    [] ~deposit.late                    -> [poll |-> "waiting", says |-> answer]
    [] OTHER                            -> [poll |-> "ended", says |-> "paused"]
DepositAnswer(answer) ==
  /\ page = "deposit" /\ Runs /\ deposit.poll = "asking"
  /\ deposit' = IF deposit.stopped THEN [deposit EXCEPT !.poll = "ended"]
                ELSE [deposit EXCEPT !.poll = Again(answer).poll, !.says = Again(answer).says]
  /\ UNCHANGED <<pane, viewer, form, lifeVars>>

DepositLapses ==
  /\ page = "deposit" /\ ~deposit.late
  /\ deposit' = [deposit EXCEPT !.late = TRUE]
  /\ UNCHANGED <<pane, viewer, form, lifeVars>>

DepositLeft == deposit' = [deposit EXCEPT !.stopped = @ \/ page = "deposit"]

-------------------------------------------------------------------------------
\* check-pane.js: the pane's toggle event

\* Mutant: a pane that is loading is loaded again.
MayLoadAgain == ~pane.loaded
MayLoad == ~pane.loaded /\ ~pane.loading
PaneToggle ==
  /\ page = "record" /\ life = "shown"
  /\ ~pane.open => pane.opens < MaxOpens
  /\ pane' = IF ~pane.open /\ MayLoad
             THEN [pane EXCEPT !.open = TRUE, !.opens = @ + 1, !.loading = TRUE,
                               !.shows = "loading", !.fetches = @ + 1]
             ELSE [pane EXCEPT !.open = ~@, !.opens = IF pane.open THEN @ ELSE @ + 1]
  /\ UNCHANGED <<deposit, viewer, form, lifeVars>>

PaneAnswer(ok) ==
  /\ page = "record" /\ Runs /\ pane.fetches > 0
  /\ pane' = [pane EXCEPT !.fetches = @ - 1, !.loading = FALSE, !.loaded = @ \/ ok,
                          !.shows = IF ok THEN "evidence" ELSE "error"]
  /\ UNCHANGED <<deposit, viewer, form, lifeVars>>

-------------------------------------------------------------------------------
\* pdf-viewer.js

\* renderPage begins: both buttons are off until it ends.
Renders(p) == [viewer EXCEPT !.rendering = @ \cup {p}, !.back = FALSE, !.forth = FALSE]

ViewerLoads(ok) ==
  /\ page = "record" /\ Runs /\ viewer.at = "loading" /\ viewer.rendering = {}
  /\ viewer' = IF ok THEN Renders(1) ELSE [viewer EXCEPT !.at = "failed"]
  /\ UNCHANGED <<deposit, pane, form, lifeVars>>

\* Mutant: neither the button nor the handler knows the first and last page.
CanTurnAnywhere(p) == viewer.rendering = {}

\* A click on Previous or Next
CanTurn(p) ==
  /\ p \in 1..NumPages /\ viewer.rendering = {}
  /\ IF p < viewer.current THEN viewer.back ELSE viewer.forth
ViewerTurns(p) ==
  /\ page = "record" /\ life = "shown" /\ viewer.controls
  /\ CanTurn(p)
  /\ viewer' = Renders(p)
  /\ UNCHANGED <<deposit, pane, form, lifeVars>>

\* Mutant: no finally.
ButtonsStay(v) == v

\* renderPage ends, and in any case its finally. The canvas that is drawn on is the
\* visible one: a page that fails leaves it as it was, cleared, or with a part of
\* itself. A failed first page takes the viewer away.
Buttons(v) == [v EXCEPT !.back = v.current > 1, !.forth = v.current < NumPages]
ViewerRendered(p) ==
  /\ Runs /\ p \in viewer.rendering
  /\ viewer' = Buttons([viewer EXCEPT !.rendering = @ \ {p}, !.at = "open", !.controls = TRUE,
                                      !.current = p, !.label = p, !.canvas = p,
                                      !.whole = TRUE])
  /\ UNCHANGED <<deposit, pane, form, lifeVars>>
ViewerBreaks(p) ==
  /\ Runs /\ p \in viewer.rendering
  /\ \E drawn \in {<<viewer.canvas, viewer.whole>>, <<0, FALSE>>, <<p, FALSE>>} :
       viewer' = Buttons([viewer EXCEPT !.rendering = @ \ {p}, !.canvas = drawn[1],
                            !.whole = drawn[2],
                            !.at = IF @ = "loading" THEN "failed" ELSE @])
  /\ UNCHANGED <<deposit, pane, form, lifeVars>>

-------------------------------------------------------------------------------
\* forms.js: a submitted form is busy, its button off and relabelled.

\* Mutant: the label is saved after it was replaced.
RelabelledFirst(label) ==
  LET text == IF label THEN "working" ELSE form.text
  IN  [form EXCEPT !.busy = TRUE, !.off = TRUE, !.text = text, !.saved = text]

Relabelled(label) == [form EXCEPT !.busy = TRUE, !.off = TRUE, !.saved = form.text,
                                  !.text = IF label THEN "working" ELSE @]
FormSubmit(label) ==
  /\ page = "form" /\ life = "shown" /\ ~form.off /\ Typed < MaxTyped
  /\ form' = Relabelled(label)
  /\ posts' = Append(posts, "typed")
  /\ UNCHANGED <<deposit, pane, viewer, page, life, left>>

\* pageshow
FormReturns == form' = [form EXCEPT !.busy = FALSE, !.off = FALSE,
                                    !.text = IF form.saved = "none" THEN @ ELSE form.saved]
===============================================================================
