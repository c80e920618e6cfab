------------------------------ MODULE BrowserPage ------------------------------
(* A page of the application with the scripts its template loads, in a browser  *)
(* that hides it, leaves it and comes back to it at any time.                   *)
EXTENDS CardScripts, ScanScripts, PanelScripts

CONSTANT MaxTries  \* bound: operations with the card or the camera begun on a page

ASSUME TriesAssumption == MaxTries \in Nat

vars == <<lifeVars, cardVars, scanVars, panelVars>>

Init == LifeInit /\ CardInit /\ ScanInit /\ PanelInit

TypeOK == LifeTypeOK /\ CardTypeOK /\ ScanTypeOK /\ PanelTypeOK

-------------------------------------------------------------------------------
MayTry == Len(op) + qr.made < MaxTries

CardNext ==
  \/ \E s \in Scripts : ToggleConsent(s) \/ Cancel(s)
  \/ \E s \in Scripts, k \in Kinds : MayTry /\ Begin(s, k)
  \/ \E o \in DOMAIN op :
       \/ CardWritten(o) \/ Refused(o) \/ CardHeard(o)
       \/ WriteSettles(o) \/ ReadFails(o) \/ TimesOut(o)

\* The submit event of a card that was read reaches login-qr.js on the same page.
CardReads(o, content) ==
  /\ Reading(o, content)
  /\ IF posts' # posts THEN QrHeedsSubmit ELSE UNCHANGED <<lib, qr>>
  /\ UNCHANGED <<video, scan, panelVars>>

\* The same page's form, submitted by hand
TypesCode ==
  /\ page \in {"login", "scan"} /\ life = "shown" /\ Typed < MaxTyped
  /\ posts' = Append(posts, "typed")
  /\ QrHeedsSubmit
  /\ UNCHANGED <<page, life, left, video, scan, cardVars, panelVars>>

ScanNext ==
  \/ ScanStart \/ ScanStop \/ Detects \/ (MayTry /\ QrStart) \/ QrStop \/ QrTimesOut
  \/ \E one, full \in BOOLEAN : Detected(one, full)
  \/ \E q \in Cams :
       \/ Halt(q) \/ Sees(q)
       \/ \E ok \in BOOLEAN : Plays(q, ok) \/ Decodes(q, ok)
       \/ \E w \in Callers, ok \in BOOLEAN : CameraAnswers(q, w, ok) \/ PlayEnds(q, w, ok)

PanelNext ==
  \/ DepositRefresh \/ DepositLapses \/ PaneToggle
  \/ \E a \in Answers : DepositAnswer(a)
  \/ \E ok \in BOOLEAN : PaneAnswer(ok) \/ ViewerLoads(ok) \/ FormSubmit(ok)
  \/ \E p \in {viewer.current - 1, viewer.current + 1} : ViewerTurns(p)
  \/ \E p \in viewer.rendering : ViewerRendered(p) \/ ViewerBreaks(p)

\* The page is hidden: an operation with the card or the camera ends, but the
\* scanner of the payment page only pauses, and goes on when it is shown.
HidePage ==
  /\ Hides /\ CardsStop
  /\ IF page = "scan" THEN lib' = LibHidden /\ UNCHANGED qr ELSE QrHidden
  /\ UNCHANGED <<video, scan, panelVars>>

ShowPage ==
  /\ Shows /\ lib' = LibShown
  /\ UNCHANGED <<video, scan, qr, cardVars, panelVars>>

\* The page is left: pagehide. A page whose camera is on or asked for is not kept.
CameraIdle == ~video.src /\ video.leaked = 0
              /\ \A q \in Cams, w \in Callers : lib[q].asks[w] = 0
LeavePage(kept) ==
  /\ kept => CameraIdle
  /\ Leaves(kept) /\ CardsStop /\ DepositLeft
  /\ IF page = "login" THEN QrHidden /\ UNCHANGED scan ELSE ScanLeft /\ UNCHANGED qr
  /\ video' = [src |-> FALSE, leaked |-> 0, refused |-> FALSE]
  /\ UNCHANGED <<pane, viewer, form>>

ReturnToPage ==
  /\ Returns /\ FormReturns
  /\ UNCHANGED <<cardVars, scanVars, deposit, pane, viewer>>

Next ==
  \/ CardNext /\ UNCHANGED <<scanVars, panelVars>>
  \/ \E o \in DOMAIN op, c \in Contents : CardReads(o, c)
  \/ TypesCode
  \/ ScanNext /\ UNCHANGED <<cardVars, panelVars>>
  \/ PanelNext /\ UNCHANGED <<cardVars, scanVars>>
  \/ HidePage \/ ShowPage \/ ReturnToPage
  \/ \E kept \in BOOLEAN : LeavePage(kept)

\* A browser runs the timers of a page that it does not freeze, and a fetch with
\* a time limit answers or fails.
Fairness ==
  /\ WF_vars(\E o \in DOMAIN op : TimesOut(o) /\ UNCHANGED <<scanVars, panelVars>>)
  /\ WF_vars(QrTimesOut /\ UNCHANGED <<cardVars, panelVars>>)
  /\ WF_vars(\E q \in Cams : Halt(q) /\ UNCHANGED <<cardVars, panelVars>>)
  /\ WF_vars(DepositRefresh /\ UNCHANGED <<cardVars, scanVars>>)
  /\ WF_vars(DepositLapses /\ UNCHANGED <<cardVars, scanVars>>)
  /\ WF_vars(\E a \in Answers : DepositAnswer(a) /\ UNCHANGED <<cardVars, scanVars>>)

Spec == Init /\ [][Next]_vars
FairSpec == Spec /\ Fairness

-------------------------------------------------------------------------------
\* nfc-card.js and nfc-issuance.js: the status line speaks of the last operation,
\* and of it only. A late answer, event or timer of an earlier operation, which
\* may come while another one is in progress, does not rewrite it, and a line that
\* asks for a card belongs to an operation that still waits for one. The reader
\* is used on behalf of that operation only.
IsLatest(s, n) ==
  /\ n # 0 => n \in DOMAIN op /\ op[n].script = s
  /\ \A o \in DOMAIN op : op[o].script = s => o <= n
StatusIsOfLast ==
  \A s \in Scripts :
    /\ IsLatest(s, status[s].of)
    /\ active[s] = IF status[s].says = "prompt" THEN status[s].of ELSE 0
    /\ \A o \in DOMAIN op : op[o].live /\ op[o].script = s => active[s] = o

\* nfc-issuance.js: a card is submitted by a page that is in front of the user and
\* by a read that was neither cancelled nor timed out, so once per operation.
SubmitsCurrentReads ==
  [][Len(posts') > Len(posts) /\ posts'[Len(posts')] = "card" =>
       life = "shown" /\ active["issuance"] # 0 /\ active'["issuance"] = 0]_vars

\* login-qr.js: after anything was submitted from the login page, by this script,
\* by the card reader or by hand, no code is submitted, and no scanner is left on
\* that is not the active operation's.
QrSubmitsFirst ==
  page = "login" =>
    /\ \A i \in DOMAIN posts : posts[i] = "qr" => i = 1
    /\ \A q \in Cams : lib[q].active => qr.op = q /\ posts = <<>>

\* lightning-scan.js: the two decoders of a page submit one code for each start,
\* whatever frames and barcodes were being decoded when the first was accepted.
OneSubmitPerStart ==
  Cardinality({i \in DOMAIN posts : posts[i] = "scan"}) <= scan.starts

\* lightning-scan.js: once no start is awaited the user can start or stop the
\* camera, in whatever order permissions, codes and visibility changes came.
ScannerIsInReach ==
  page = "scan" /\ lib[1].asks["script"] = 0 /\ lib[1].plays["script"] = 0 /\ lib[1].ready = 0 =>
    scan.startOn \/ scan.stopOn

\* check-pane.js: evidence that was loaded stays, however often the pane was
\* closed and opened while it loaded: no failed request of a second opening
\* replaces it with an error that can no longer be retried.
EvidenceStays == pane.loaded => pane.shows = "evidence"

\* pdf-viewer.js: one page is rendered at a time, and when none is, the label names
\* the page whose turn it is, a page that is shown completely is that page, and the
\* buttons lead from it to the pages that exist, also after a page that failed. What
\* a failed page left on the canvas may stay under the label of the page before.
ViewerKeepsItsPlace ==
  /\ Cardinality(viewer.rendering) <= 1
  /\ viewer.at = "open" /\ viewer.rendering = {} =>
       /\ viewer.label = viewer.current
       /\ viewer.whole => viewer.canvas = viewer.current
       /\ viewer.back = (viewer.current > 1) /\ viewer.forth = (viewer.current < NumPages)

\* forms.js: when history returns to a page, its form can be submitted again and
\* carries the label it was rendered with.
ReturnRestoresForm ==
  [][life = "cached" /\ life' = "shown" => ~form'.off /\ form'.text = "own"]_vars

\* deposit-status.js: polling ends, by an answer or by its deadline, and the panel
\* says which, or it ends with the page.
PollingEnds ==
  page = "deposit" ~>
    \/ deposit.poll = "ended" /\ deposit.says \in {"final", "complete", "paused"}
    \/ deposit.stopped

\* The card reader and the camera of the login page are given back: every operation
\* ends, and a camera without an operation goes off, unless the browser refused to
\* play it: a camera whose play was refused stays on until the next start or pagehide.
OperationsEnd == \A s \in Scripts : active[s] # 0 ~> active[s] = 0
CameraGoesOff ==
  page = "login" /\ (video.src \/ video.leaked > 0) ~>
    \/ ~video.src /\ video.leaked = 0
    \/ video.refused
===============================================================================
