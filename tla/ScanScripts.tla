------------------------------ MODULE ScanScripts ------------------------------
(* The two scripts that read codes with the camera, over the vendored QrScanner *)
(* library: lightning-scan.js, which keeps one scanner for the life of its page *)
(* and a native barcode detector beside it, and login-qr.js, which makes a      *)
(* scanner for every operation. All the scanners of a page share one <video>.   *)
EXTENDS PageLife

CONSTANTS MaxScans,   \* bound: scanners login-qr.js makes on a page
          MaxStarts,  \* bound: starts of lightning-scan.js
          MaxFlights  \* bound: frames of one scanner being decoded at a time

\* The payment page has its scanner and starts it.
ASSUME ScanAssumption ==
  MaxScans \in Nat \ {0} /\ MaxStarts \in Nat \ {0} /\ MaxFlights \in Nat

VARIABLES lib,    \* the scanners: their flags, and what they still wait for
          video,  \* the stream attached to <video>, streams nobody holds, and whether
                  \* the play of the attached one was refused
          scan,   \* lightning-scan.js: its flags and its two buttons
          qr      \* login-qr.js: the active operation, submitted, its start button

scanVars == <<lib, video, scan, qr>>

Cams == 1..MaxScans
Callers == {"script", "resume"}
Idle == [active |-> FALSE, paused |-> FALSE, destroyed |-> FALSE,
         asks |-> [w \in Callers |-> 0], plays |-> [w \in Callers |-> 0],
         ready |-> 0, halts |-> 0, flights |-> 0]

-------------------------------------------------------------------------------
\* QrScanner. A pause releases the camera 300 ms later, unless it was resumed.
LibPause(r) == [r EXCEPT !.paused = TRUE, !.halts = IF r.active THEN @ + 1 ELSE @]
LibStop(r) == [LibPause(r) EXCEPT !.active = FALSE]
\* Mutant: the listeners are removed and the camera is not stopped.
LibForget(r) == [r EXCEPT !.destroyed = TRUE]

LibDestroy(r) == [LibStop(r) EXCEPT !.destroyed = TRUE]

\* start: nothing if it runs, later if the page is hidden, the attached stream
\* if there is one, and else the camera is asked for.
LibStart(r, who, hidden) ==
  LET on == [r EXCEPT !.active = TRUE, !.paused = @ /\ hidden]
  IN  IF (r.active /\ ~r.paused) \/ hidden \/ video.src
      THEN IF who = "script" THEN [on EXCEPT !.ready = @ + 1] ELSE on
      ELSE [on EXCEPT !.asks[who] = @ + 1]

\* A script that starts a scanner takes over the stream that is attached.
TakesOver == [video EXCEPT !.refused = FALSE]

\* The scanner's own visibilitychange handler, removed when it is destroyed.
LibHidden == [q \in Cams |-> IF q = 1 /\ page = "scan" /\ ~lib[q].destroyed
                             THEN LibPause(lib[q]) ELSE lib[q]]
LibShown == [q \in Cams |-> IF lib[q].active THEN LibStart(lib[q], "resume", FALSE)
                            ELSE lib[q]]

Halt(q) ==
  /\ Runs /\ lib[q].halts > 0
  /\ lib' = [lib EXCEPT ![q].halts = @ - 1]
  /\ video' = IF lib[q].paused THEN [video EXCEPT !.src = FALSE, !.refused = FALSE] ELSE video
  /\ UNCHANGED <<scan, qr, lifeVars>>

\* _scanFrame: a frame goes to the decoder while the video plays.
Sees(q) ==
  /\ Runs /\ lib[q].active /\ ~lib[q].paused /\ video.src
  /\ lib[q].flights < MaxFlights
  /\ lib' = [lib EXCEPT ![q].flights = @ + 1]
  /\ UNCHANGED <<video, scan, qr, lifeVars>>

-------------------------------------------------------------------------------
ScanInit ==
  /\ video = [src |-> FALSE, leaked |-> 0, refused |-> FALSE]
  /\ qr = [op |-> 0, made |-> 0, submitted |-> FALSE, off |-> FALSE]
  /\ scan = [accepted |-> FALSE, running |-> FALSE, detecting |-> FALSE,
             startOn |-> FALSE, stopOn |-> FALSE, starts |-> IF page = "scan" THEN 1 ELSE 0]
  \* the page opens with a start of its own
  /\ lib = [q \in Cams |-> IF q = 1 /\ page = "scan"
                           THEN [Idle EXCEPT !.active = TRUE, !.asks["script"] = 1]
                           ELSE Idle]

LibTypeOK ==
  lib \in [Cams -> [active : BOOLEAN, paused : BOOLEAN, destroyed : BOOLEAN,
                    asks : [Callers -> Nat], plays : [Callers -> Nat],
                    ready : Nat, halts : Nat, flights : Nat]]

ScanTypeOK ==
  /\ LibTypeOK
  /\ video \in [src : BOOLEAN, leaked : Nat, refused : BOOLEAN]
  /\ scan \in [accepted : BOOLEAN, running : BOOLEAN, detecting : BOOLEAN,
               startOn : BOOLEAN, stopOn : BOOLEAN, starts : 0..MaxStarts]
  /\ qr \in [op : 0..MaxScans, made : 0..MaxScans, submitted : BOOLEAN, off : BOOLEAN]

-------------------------------------------------------------------------------
\* lightning-scan.js

\* start: a scanner destroyed when the page was left refuses.
ScanStart ==
  /\ page = "scan" /\ life = "shown" /\ scan.startOn
  /\ scan.starts < MaxStarts
  /\ scan' = [scan EXCEPT !.accepted = FALSE, !.starts = @ + 1,
                          !.startOn = @ /\ lib[1].destroyed]
  /\ lib' = IF lib[1].destroyed THEN lib
            ELSE [lib EXCEPT ![1] = LibStart(@, "script", FALSE)]
  /\ video' = IF lib[1].destroyed THEN video ELSE TakesOver
  /\ UNCHANGED <<qr, lifeVars>>

\* Mutant: a refused camera leaves the start button off.
ScanContinuesIfOk(ok) ==
  IF ok THEN [scan EXCEPT !.running = TRUE, !.startOn = FALSE, !.stopOn = TRUE] ELSE scan

\* what follows its await: the buttons of a camera that runs, or of one that does not
ScanContinues(ok) ==
  IF ok THEN [scan EXCEPT !.running = TRUE, !.startOn = FALSE, !.stopOn = TRUE]
        ELSE [scan EXCEPT !.startOn = TRUE]

ScanStop ==
  /\ page = "scan" /\ life = "shown" /\ scan.stopOn
  /\ scan' = [scan EXCEPT !.running = FALSE, !.startOn = TRUE, !.stopOn = FALSE]
  /\ lib' = [lib EXCEPT ![1] = LibStop(@)]
  /\ UNCHANGED <<video, qr, lifeVars>>

\* Mutant: a code is submitted whether or not one was accepted.
AcceptsAgain(full) == full

\* acceptResult, from either decoder: the first code since the start is submitted.
Accepts(full) == full /\ ~scan.accepted
ScanAccept(full, s, l) ==
  IF Accepts(full)
  THEN /\ scan' = [s EXCEPT !.accepted = TRUE, !.running = FALSE,
                            !.startOn = TRUE, !.stopOn = FALSE]
       /\ lib' = [l EXCEPT ![1] = LibStop(@)]
       /\ posts' = Append(posts, "scan")
  ELSE scan' = s /\ lib' = l /\ posts' = posts

\* The native detector, asked every 400 ms until the page is left.
Detects ==
  /\ Runs /\ page = "scan" /\ ~lib[1].destroyed
  /\ scan.running /\ ~scan.accepted /\ ~scan.detecting /\ video.src
  /\ scan' = [scan EXCEPT !.detecting = TRUE]
  /\ UNCHANGED <<lib, video, qr, lifeVars>>

Detected(one, full) ==
  /\ Runs /\ scan.detecting
  /\ ScanAccept(one /\ full /\ scan.running, [scan EXCEPT !.detecting = FALSE], lib)
  /\ UNCHANGED <<video, qr, page, life, left>>

-------------------------------------------------------------------------------
\* login-qr.js

\* finish: the operation's scanner is destroyed, its timer cleared.
QrFinish(l, submitted) ==
  /\ lib' = [q \in Cams |-> IF q = qr.op THEN LibDestroy(l[q]) ELSE l[q]]
  /\ qr' = [qr EXCEPT !.op = 0, !.submitted = submitted, !.off = submitted]

QrStart ==
  /\ page = "login" /\ life = "shown"
  /\ ~qr.off /\ qr.op = 0 /\ ~qr.submitted
  /\ qr.made < MaxScans
  /\ qr' = [qr EXCEPT !.made = @ + 1, !.op = qr.made + 1, !.off = TRUE]
  /\ lib' = [lib EXCEPT ![qr.made + 1] = LibStart(@, "script", FALSE)]
  /\ video' = TakesOver
  /\ UNCHANGED <<scan, lifeVars>>

\* what follows await start()
QrContinues(q, ok, l) ==
  CASE qr.op = q /\ ~ok -> QrFinish(l, qr.submitted)
    [] qr.op # q /\ ok  -> lib' = [l EXCEPT ![q] = LibDestroy(@)] /\ UNCHANGED qr
    [] OTHER            -> lib' = l /\ UNCHANGED qr

QrStop ==
  /\ page = "login" /\ life = "shown" /\ qr.op # 0
  /\ QrFinish(lib, qr.submitted)
  /\ UNCHANGED <<video, scan, lifeVars>>

QrTimesOut ==
  /\ Runs /\ qr.op # 0
  /\ QrFinish(lib, qr.submitted)
  /\ UNCHANGED <<video, scan, lifeVars>>

\* Mutant: no listener for submit.
QrMissesSubmit == UNCHANGED <<lib, qr>>

\* Any form the page submits, by hand or by a script, ends the scanning for good.
QrHeedsSubmit == IF page = "login" THEN QrFinish(lib, TRUE) ELSE UNCHANGED <<lib, qr>>
QrHidden == IF page = "login" THEN QrFinish(lib, qr.submitted) ELSE UNCHANGED <<lib, qr>>

QrHeeds(q) == qr.op = q /\ ~qr.submitted
QrDecoded(q, valid, l) ==
  IF QrHeeds(q) /\ valid
  THEN QrFinish(l, TRUE) /\ posts' = Append(posts, "qr")
  ELSE lib' = l /\ UNCHANGED <<qr, posts>>

-------------------------------------------------------------------------------
\* The promises both scripts wait for.

Continues(q, ok, l) ==
  IF page = "scan" THEN scan' = ScanContinues(ok) /\ lib' = l /\ UNCHANGED qr
                   ELSE QrContinues(q, ok, l) /\ UNCHANGED scan

\* play() of a stream that was attached before, or no wait at all
Plays(q, ok) ==
  /\ Runs /\ lib[q].ready > 0
  /\ Continues(q, ok, [lib EXCEPT ![q].ready = @ - 1])
  /\ UNCHANGED <<video, lifeVars>>

\* The end of a start that had to ask: an error counts unless the scanner was paused
\* meanwhile, and leaves it inactive.
Fails(r, ok) == ~ok /\ ~r.paused
StartEnds(q, who, ok, r) ==
  LET l == [lib EXCEPT ![q] = IF Fails(r, ok) THEN [r EXCEPT !.active = FALSE] ELSE r]
  IN  IF who = "script" THEN Continues(q, ~Fails(r, ok), l)
                        ELSE lib' = l /\ UNCHANGED <<scan, qr>>

\* getUserMedia answers: a stream nobody waits for is stopped at once; one that
\* is wanted is attached, whatever is attached already, and played.
CameraAnswers(q, who, granted) ==
  /\ Runs /\ lib[q].asks[who] > 0
  /\ LET r == [lib[q] EXCEPT !.asks[who] = @ - 1]
     IN  IF granted /\ r.active /\ ~r.paused
         THEN /\ video' = [src |-> TRUE, refused |-> FALSE,
                           leaked |-> video.leaked + IF video.src THEN 1 ELSE 0]
              /\ lib' = [lib EXCEPT ![q] = [r EXCEPT !.plays[who] = @ + 1]]
              /\ UNCHANGED <<scan, qr>>
         ELSE StartEnds(q, who, granted, r) /\ UNCHANGED video
  /\ UNCHANGED lifeVars

\* play() of that stream: when it is refused the stream stays attached, and the
\* scanner, now inactive, will not release it.
PlayEnds(q, who, ok) ==
  /\ Runs /\ lib[q].plays[who] > 0
  /\ LET r == [lib[q] EXCEPT !.plays[who] = @ - 1]
     IN  /\ StartEnds(q, who, ok, r)
         /\ video' = [video EXCEPT !.refused = @ \/ (video.src /\ Fails(r, ok))]
  /\ UNCHANGED lifeVars

\* A decoded frame, which may have been taken before the scanner was stopped.
Decodes(q, valid) ==
  /\ Runs /\ lib[q].flights > 0
  /\ LET l == [lib EXCEPT ![q].flights = @ - 1]
     IN  IF page = "scan" THEN ScanAccept(valid, scan, l) /\ UNCHANGED qr
                          ELSE QrDecoded(q, valid, l) /\ UNCHANGED scan
  /\ UNCHANGED <<video, page, life, left>>

\* pagehide: lightning-scan.js destroys its scanner, once.
ScanLeft ==
  IF page = "scan" /\ ~lib[1].destroyed
  THEN scan' = [scan EXCEPT !.running = FALSE] /\ lib' = [lib EXCEPT ![1] = LibDestroy(@)]
  ELSE UNCHANGED <<scan, lib>>
===============================================================================
