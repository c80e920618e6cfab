--------------------------- MODULE BrowserScan_proofs ---------------------------
(* Proofs about the scanners and the document viewer of BrowserPage, and its     *)
(* type invariant, for any number of scanners, starts, frames, pages and visits. *)
(*                                                                               *)
(* The inductive invariant of the scanners, CamInv, has a part for each of the   *)
(* two scripts: on the login page only the scanner of the active operation is    *)
(* on, and there is none after a submission; on the payment page a start that    *)
(* left both buttons off is still waited for.                                    *)
EXTENDS BrowserPage_proofs

LibRec == [active : BOOLEAN, paused : BOOLEAN, destroyed : BOOLEAN,
           asks : [Callers -> Nat], plays : [Callers -> Nat],
           ready : Nat, halts : Nat, flights : Nat]
VideoRec == [src : BOOLEAN, leaked : Nat, refused : BOOLEAN]
QrRec == [op : 0..MaxScans, made : 0..MaxScans, submitted : BOOLEAN, off : BOOLEAN]
FlagRec == [accepted : BOOLEAN, running : BOOLEAN, detecting : BOOLEAN,
            startOn : BOOLEAN, stopOn : BOOLEAN, starts : 0..MaxStarts]

\* The start button's handler still waits for the scanner.
Waits(r) == r.asks["script"] # 0 \/ r.plays["script"] # 0 \/ r.ready # 0
Awaited == Waits(lib[1])

ReachInv == page = "scan" => Awaited \/ scan.startOn \/ scan.stopOn

QrInv ==
  /\ qr.op # 0 => page = "login"
  /\ page = "login" =>
       /\ posts # <<>> => qr.submitted
       /\ qr.submitted => qr.op = 0
       /\ \A q \in Cams : lib[q].active => qr.op = q
       /\ \A i \in DOMAIN posts : posts[i] = "qr" => i = 1

CamInv ==
  /\ ScanTypeOK /\ page \in Pages /\ posts \in Seq(Posts)
  /\ scan.detecting => page = "scan"
  /\ QrInv /\ ReachInv

-------------------------------------------------------------------------------
(* The scanner library.                                                        *)

\* What its operations do to one scanner: stopping changes no wait, starting adds
\* one if the script asked for it.
SameWaits(r, x) == r.asks = x.asks /\ r.plays = x.plays /\ r.ready = x.ready

LEMMA LibStops ==
  ASSUME NEW r \in LibRec
  PROVE  /\ LibPause(r) \in LibRec /\ LibStop(r) \in LibRec /\ LibDestroy(r) \in LibRec
         /\ LibPause(r).active = r.active
         /\ LibStop(r).active = FALSE /\ LibDestroy(r).active = FALSE
         /\ SameWaits(LibPause(r), r) /\ SameWaits(LibStop(r), r) /\ SameWaits(LibDestroy(r), r)
<1> DEFINE n == IF r.active THEN r.halts + 1 ELSE r.halts
           a == [r EXCEPT !.paused = TRUE, !.halts = n]
           b == [a EXCEPT !.active = FALSE]
           c == [b EXCEPT !.destroyed = TRUE]
<1>1. n \in Nat
  BY DEF LibRec
<1>2. LibPause(r) = a /\ LibStop(r) = b /\ LibDestroy(r) = c
  BY DEF LibPause, LibStop, LibDestroy
<1> HIDE DEF n
<1>3. a \in LibRec /\ a.active = r.active /\ SameWaits(a, r)
  BY <1>1 DEF LibRec, SameWaits
<1> HIDE DEF a
<1>4. b \in LibRec /\ b.active = FALSE /\ SameWaits(b, r)
  BY <1>3 DEF LibRec, SameWaits
<1> HIDE DEF b
<1>5. c \in LibRec /\ c.active = FALSE /\ SameWaits(c, r)
  BY <1>4 DEF LibRec, SameWaits
<1> QED BY <1>2, <1>3, <1>4, <1>5

LEMMA LibStarts ==
  ASSUME NEW r \in LibRec, NEW who \in Callers, NEW hidden \in BOOLEAN
  PROVE  /\ LibStart(r, who, hidden) \in LibRec
         /\ LibStart(r, who, hidden).active = TRUE
         /\ who = "resume" /\ Waits(r) => Waits(LibStart(r, who, hidden))
         /\ who = "script" => Waits(LibStart(r, who, hidden))
<1> DEFINE p == r.paused /\ hidden
           on == [r EXCEPT !.active = TRUE, !.paused = p]
           x == [on EXCEPT !.ready = on.ready + 1]
           asked == [on.asks EXCEPT ![who] = on.asks[who] + 1]
           y == [on EXCEPT !.asks = asked]
<1>1. p \in BOOLEAN
  OBVIOUS
<1>2. \/ LibStart(r, who, hidden) = x /\ who = "script"
      \/ LibStart(r, who, hidden) = on /\ who # "script"
      \/ LibStart(r, who, hidden) = y
  BY DEF LibStart
<1> HIDE DEF p
<1>3. on \in LibRec /\ on.active = TRUE /\ SameWaits(on, r)
  BY <1>1 DEF LibRec, SameWaits
<1> HIDE DEF on
<1>4. on.ready \in Nat /\ on.asks \in [Callers -> Nat]
  BY <1>3 DEF LibRec
<1>5. x \in LibRec /\ x.active = TRUE /\ x.ready # 0
  BY <1>3, <1>4 DEF LibRec
<1>6. asked \in [Callers -> Nat] /\ asked[who] # 0
      /\ (who = "resume" => asked["script"] = on.asks["script"])
  BY <1>4
<1> HIDE DEF asked
<1>7. y \in LibRec /\ y.active = TRUE /\ y.asks = asked
      /\ y.ready = on.ready /\ y.plays = on.plays
  BY <1>3, <1>6 DEF LibRec
<1> HIDE DEF x, y
<1> QED BY <1>2, <1>3, <1>5, <1>6, <1>7 DEF SameWaits, Waits

\* A count of one scanner is changed: a frame, a halt or an answer.
LEMMA LibCounts ==
  ASSUME NEW r \in LibRec, NEW n \in Nat
  PROVE  /\ [r EXCEPT !.halts = n] \in LibRec /\ [r EXCEPT !.flights = n] \in LibRec
         /\ [r EXCEPT !.ready = n] \in LibRec
BY DEF LibRec

-------------------------------------------------------------------------------
(* Steps that keep CamInv.                                                     *)

LEMMA CamInvInit == Init => CamInv
<1> SUFFICES ASSUME Init PROVE CamInv
  OBVIOUS
<1> USE ScanAssumption
<1>1. page \in Pages /\ posts = <<>> /\ posts \in Seq(Posts)
  BY DEF Init, LifeInit
<1>2. Idle \in LibRec /\ Idle.active = FALSE
  BY DEF Idle, LibRec
<1> DEFINE asked == [Idle.asks EXCEPT !["script"] = 1]
           first == [Idle EXCEPT !.active = TRUE, !.asks = asked]
<1>3. asked \in [Callers -> Nat] /\ asked["script"] = 1
  BY DEF Idle, Callers
<1> HIDE DEF asked
<1>4. first \in LibRec /\ first.asks["script"] = 1
  BY <1>2, <1>3 DEF LibRec
<1>5. lib = [q \in Cams |-> IF q = 1 /\ page = "scan" THEN first ELSE Idle]
  BY DEF Init, ScanInit, asked
<1> HIDE DEF first
<1>6. LibTypeOK /\ (page = "scan" => lib[1] = first) /\ (page # "scan" => \A q \in Cams : lib[q] = Idle)
  BY <1>2, <1>4, <1>5 DEF LibTypeOK, LibRec, Cams
<1>7. /\ video \in VideoRec /\ scan \in FlagRec /\ scan.detecting = FALSE
      /\ qr = [op |-> 0, made |-> 0, submitted |-> FALSE, off |-> FALSE] /\ qr \in QrRec
  BY DEF Init, ScanInit, VideoRec, FlagRec, QrRec
<1>8. ReachInv
  BY <1>4, <1>6 DEF ReachInv, Awaited, Waits
<1>9. QrInv
  BY <1>1, <1>2, <1>6, <1>7 DEF QrInv
<1> QED BY <1>1, <1>6, <1>7, <1>8, <1>9 DEF CamInv, ScanTypeOK, VideoRec, FlagRec, QrRec

CamTypes == ScanTypeOK /\ page \in Pages /\ posts \in Seq(Posts)

LEMMA CamTypesAre ==
  CamTypes <=> /\ lib \in [Cams -> LibRec] /\ video \in VideoRec /\ scan \in FlagRec
               /\ qr \in QrRec /\ page \in Pages /\ posts \in Seq(Posts)
BY DEF CamTypes, ScanTypeOK, LibTypeOK, LibRec, VideoRec, FlagRec, QrRec

\* A step that submits nothing from the login page and turns none of its scanners on,
\* and leaves a button or a wait on the payment page.
LEMMA CamKeeps ==
  ASSUME CamInv, lib' \in [Cams -> LibRec], video' \in VideoRec, scan' \in FlagRec,
         UNCHANGED <<qr, page>>, scan'.detecting => page = "scan",
         posts' = posts \/ (page # "login" /\ posts' \in Seq(Posts)),
         page = "login" => \A q \in Cams : lib'[q].active => lib[q].active,
         page = "scan" => Awaited' \/ scan'.startOn \/ scan'.stopOn
  PROVE  CamInv'
<1>1. CamTypes'
  BY CamTypesAre DEF CamInv, CamTypes, ScanTypeOK, LibTypeOK, LibRec, VideoRec, FlagRec, QrRec
<1>2. QrInv'
  BY DEF CamInv, QrInv
<1>3. ReachInv'
  BY DEF ReachInv
<1> QED BY <1>1, <1>2, <1>3 DEF CamInv, CamTypes

\* finish of login-qr.js, with or without a submission
LEMMA QrFinishKeeps ==
  ASSUME CamInv, page = "login", NEW l \in [Cams -> LibRec], NEW submitted \in BOOLEAN,
         \A q \in Cams : l[q].active => lib[q].active,
         QrFinish(l, submitted), video' \in VideoRec, UNCHANGED <<scan, page>>,
         \/ submitted = qr.submitted /\ posts' = posts
         \/ submitted = TRUE /\ posts' = posts
         \/ submitted = TRUE /\ \E x \in Posts : /\ posts' = Append(posts, x)
                                                 /\ x = "qr" => posts = <<>>
  PROVE  CamInv'
<1>1. qr \in QrRec /\ scan \in FlagRec /\ page \in Pages /\ posts \in Seq(Posts)
  BY CamTypesAre DEF CamInv, CamTypes
<1>2. qr' = [qr EXCEPT !.op = 0, !.submitted = submitted, !.off = submitted]
      /\ lib' = [q \in Cams |-> IF q = qr.op THEN LibDestroy(l[q]) ELSE l[q]]
  BY DEF QrFinish
<1>3. qr' \in QrRec /\ qr'.op = 0 /\ qr'.submitted = submitted
  <2>1. 0 \in 0..MaxScans
    BY ScanAssumption
  <2> QED BY <1>1, <1>2, <2>1 DEF QrRec
<1>4. lib' \in [Cams -> LibRec] /\ \A q \in Cams : ~lib'[q].active
  <2> SUFFICES ASSUME NEW q \in Cams
               PROVE  (IF q = qr.op THEN LibDestroy(l[q]) ELSE l[q]) \in LibRec
                      /\ ~(IF q = qr.op THEN LibDestroy(l[q]) ELSE l[q]).active
    BY <1>2
  <2>1. l[q] \in LibRec /\ LibDestroy(l[q]) \in LibRec /\ ~LibDestroy(l[q]).active
    BY LibStops
  <2>2. l[q].active => q = qr.op
    BY DEF CamInv, QrInv
  <2> QED BY <2>1, <2>2
<1>5. posts' \in Seq(Posts) /\ (posts' # <<>> => submitted)
  BY <1>1 DEF CamInv, QrInv
<1>6. ASSUME NEW i \in DOMAIN posts', posts'[i] = "qr" PROVE i = 1
  <2>1. CASE posts' = posts
    BY <1>6, <2>1 DEF CamInv, QrInv
  <2>2. ASSUME NEW x \in Posts, posts' = Append(posts, x), x = "qr" => posts = <<>> PROVE i = 1
    <3>1. CASE posts = <<>>
      BY <1>6, <2>2, <3>1
    <3>2. CASE x # "qr"
      <4>1. i \in DOMAIN posts /\ posts[i] = "qr"
        BY <1>1, <1>6, <2>2, <3>2
      <4> QED BY <4>1 DEF CamInv, QrInv
    <3> QED BY <2>2, <3>1, <3>2
  <2> QED BY <2>1, <2>2
<1>7. QrInv'
  BY <1>3, <1>4, <1>5, <1>6 DEF QrInv
<1>8. CamTypes'
  BY <1>1, <1>3, <1>4, <1>5 DEF CamTypes, ScanTypeOK, LibTypeOK, LibRec, VideoRec, FlagRec, QrRec
<1>9. ReachInv'
  BY DEF ReachInv
<1> QED BY <1>7, <1>8, <1>9 DEF CamInv, CamTypes

\* acceptResult of lightning-scan.js
LEMMA CamAccepts ==
  ASSUME CamInv, page = "scan", NEW full, NEW s \in FlagRec, NEW l \in [Cams -> LibRec],
         ScanAccept(full, s, l), UNCHANGED <<video, qr, page>>,
         s.startOn = scan.startOn, s.stopOn = scan.stopOn,
         SameWaits(l[1], lib[1])
  PROVE  CamInv'
<1>1. 1 \in Cams /\ page # "login" /\ video \in VideoRec
  BY CamTypesAre, ScanAssumption DEF Cams, CamInv, CamTypes
<1>2. CASE Accepts(full)
  <2>1. /\ scan' = [s EXCEPT !.accepted = TRUE, !.running = FALSE,
                              !.startOn = TRUE, !.stopOn = FALSE]
        /\ lib' = [l EXCEPT ![1] = LibStop(l[1])] /\ posts' = Append(posts, "scan")
    BY <1>2 DEF ScanAccept
  <2>2. scan' \in FlagRec /\ scan'.startOn
    BY <2>1 DEF FlagRec
  <2>3. lib' \in [Cams -> LibRec]
    BY <1>1, <2>1, LibStops
  <2>4. posts' \in Seq(Posts)
    BY <2>1 DEF CamInv, Posts
  <2> QED BY <1>1, <2>2, <2>3, <2>4, CamKeeps
<1>3. CASE ~Accepts(full)
  <2>1. scan' = s /\ lib' = l /\ posts' = posts
    BY <1>3 DEF ScanAccept
  <2>2. Awaited' \/ scan'.startOn \/ scan'.stopOn
    BY <2>1 DEF CamInv, ReachInv, Awaited, Waits, SameWaits
  <2> QED BY <1>1, <2>1, <2>2, CamKeeps
<1> QED BY <1>2, <1>3

\* One scanner is left on or turned off, and a start that was waited for still is.
LEMMA OneScanner ==
  ASSUME CamInv, NEW q \in Cams, NEW r \in LibRec, r.active => lib[q].active,
         Waits(lib[q]) => Waits(r),
         lib' = [lib EXCEPT ![q] = r], video' \in VideoRec, UNCHANGED <<scan, qr, page, posts>>
  PROVE  CamInv'
<1>1. lib \in [Cams -> LibRec] /\ scan \in FlagRec
  BY CamTypesAre DEF CamInv, CamTypes
<1>2. lib' \in [Cams -> LibRec] /\ \A x \in Cams : lib'[x] = IF x = q THEN r ELSE lib[x]
  BY <1>1
<1>3. Awaited => Awaited'
  BY <1>2, ScanAssumption DEF Awaited, Waits, Cams
<1>4. \A x \in Cams : lib'[x].active => lib[x].active
  BY <1>2
<1>5. page = "scan" => Awaited' \/ scan'.startOn \/ scan'.stopOn
  BY <1>3 DEF CamInv, ReachInv
<1>6. scan'.detecting => page = "scan"
  BY DEF CamInv
<1> QED BY <1>1, <1>2, <1>4, <1>5, <1>6, CamKeeps

\* Every step of the scripts that read codes
LEMMA ScanNextCam ==
  ASSUME CamInv, ScanNext
  PROVE  CamInv'
<1>0. /\ lib \in [Cams -> LibRec] /\ video \in VideoRec /\ scan \in FlagRec /\ qr \in QrRec
      /\ page \in Pages /\ posts \in Seq(Posts) /\ 1 \in Cams /\ 1 \in Nat
  BY CamTypesAre, ScanAssumption DEF CamInv, CamTypes, Cams
<1>a. TakesOver \in VideoRec
  BY <1>0 DEF TakesOver, VideoRec
<1>1. CASE ScanStart
  <2> DEFINE r == LibStart(lib[1], "script", FALSE)
             b == scan.startOn /\ lib[1].destroyed
             n == scan.starts + 1
  <2>1. /\ page = "scan" /\ scan.startOn /\ UNCHANGED <<qr, page, posts>>
        /\ video' = IF lib[1].destroyed THEN video ELSE TakesOver
        /\ scan' = [scan EXCEPT !.accepted = FALSE, !.starts = n, !.startOn = b]
        /\ lib' = IF lib[1].destroyed THEN lib ELSE [lib EXCEPT ![1] = r]
        /\ scan.starts < MaxStarts
    BY <1>1 DEF ScanStart, lifeVars
  <2>2. r \in LibRec /\ Waits(r)
    BY <1>0, LibStarts DEF Callers
  <2>3. n \in 0..MaxStarts
    BY <1>0, <2>1, ScanAssumption DEF FlagRec
  <2>4. b \in BOOLEAN /\ (lib[1].destroyed => b)
    BY <2>1
  <2> HIDE DEF r, b, n
  <2>5. scan' \in FlagRec /\ scan'.startOn = b /\ scan'.detecting = scan.detecting
    BY <1>0, <2>1, <2>3, <2>4 DEF FlagRec
  <2>6. lib' \in [Cams -> LibRec] /\ (~lib[1].destroyed => Awaited')
    BY <1>0, <2>1, <2>2 DEF Awaited, Waits
  <2> QED BY <1>0, <1>a, <2>1, <2>4, <2>5, <2>6, CamKeeps
<1>2. CASE ScanStop
  <2>1. /\ page = "scan" /\ UNCHANGED <<video, qr, page, posts>>
        /\ scan' = [scan EXCEPT !.running = FALSE, !.startOn = TRUE, !.stopOn = FALSE]
        /\ lib' = [lib EXCEPT ![1] = LibStop(lib[1])]
    BY <1>2 DEF ScanStop, lifeVars
  <2>2. scan' \in FlagRec /\ scan'.startOn
    BY <1>0, <2>1 DEF FlagRec
  <2>3. lib' \in [Cams -> LibRec]
    BY <1>0, <2>1, LibStops
  <2> QED BY <1>0, <2>1, <2>2, <2>3, CamKeeps
<1>3. CASE Detects
  <2>1. /\ page = "scan" /\ UNCHANGED <<lib, video, qr, page, posts>>
        /\ scan' = [scan EXCEPT !.detecting = TRUE]
    BY <1>3 DEF Detects, lifeVars
  <2>2. scan' \in FlagRec /\ scan'.startOn = scan.startOn /\ scan'.stopOn = scan.stopOn
    BY <1>0, <2>1 DEF FlagRec
  <2>3. Awaited' \/ scan'.startOn \/ scan'.stopOn
    BY <2>1, <2>2 DEF CamInv, ReachInv, Awaited
  <2> QED BY <1>0, <2>1, <2>2, <2>3, CamKeeps
<1>4. CASE QrStart
  <2> DEFINE k == qr.made + 1
             r == LibStart(lib[k], "script", FALSE)
  <2>1. /\ page = "login" /\ qr.op = 0 /\ ~qr.submitted /\ qr.made < MaxScans
        /\ qr' = [qr EXCEPT !.made = k, !.op = k, !.off = TRUE]
        /\ lib' = [lib EXCEPT ![k] = r] /\ video' = TakesOver
        /\ UNCHANGED <<scan, page, posts>>
    BY <1>4 DEF QrStart, lifeVars
  <2>2. k \in Cams /\ k \in 0..MaxScans
    BY <1>0, <2>1, ScanAssumption DEF QrRec, Cams
  <2>3. r \in LibRec
    BY <1>0, <2>2, LibStarts DEF Callers
  <2> HIDE DEF k, r
  <2>4. qr' \in QrRec /\ qr'.op = k /\ qr'.submitted = qr.submitted
    BY <1>0, <2>1, <2>2 DEF QrRec
  <2>5. lib' \in [Cams -> LibRec] /\ \A q \in Cams \ {k} : lib'[q] = lib[q]
    BY <1>0, <2>1, <2>3
  <2>6. \A q \in Cams : ~lib[q].active
    BY <2>1 DEF CamInv, QrInv, Cams
  <2>7. QrInv'
    BY <2>1, <2>4, <2>5, <2>6 DEF CamInv, QrInv
  <2>8. CamTypes'
    BY <1>0, <1>a, <2>1, <2>4, <2>5
    DEF CamTypes, ScanTypeOK, LibTypeOK, LibRec, VideoRec, FlagRec, QrRec
  <2> QED BY <2>1, <2>7, <2>8 DEF CamInv, CamTypes, ReachInv
<1>5. CASE QrStop \/ QrTimesOut
  <2>1. page = "login" /\ QrFinish(lib, qr.submitted) /\ UNCHANGED <<video, scan, page, posts>>
    BY <1>5 DEF QrStop, QrTimesOut, lifeVars, CamInv, QrInv
  <2>2. qr.submitted \in BOOLEAN
    BY <1>0 DEF QrRec
  <2> QED BY <1>0, <2>1, <2>2, QrFinishKeeps
<1>6. ASSUME NEW one \in BOOLEAN, NEW full \in BOOLEAN, Detected(one, full) PROVE CamInv'
  <2> DEFINE s == [scan EXCEPT !.detecting = FALSE]
             f == one /\ full /\ scan.running
  <2>1. /\ ScanAccept(f, s, lib) /\ UNCHANGED <<video, qr, page>> /\ page = "scan"
    BY <1>6 DEF Detected, CamInv
  <2>2. s \in FlagRec /\ s.startOn = scan.startOn /\ s.stopOn = scan.stopOn
    BY <1>0 DEF FlagRec
  <2>3. SameWaits(lib[1], lib[1])
    BY DEF SameWaits
  <2> HIDE DEF s, f
  <2> QED BY <1>0, <2>1, <2>2, <2>3, CamAccepts
<1>7. ASSUME NEW q \in Cams, Halt(q) \/ Sees(q) PROVE CamInv'
  <2>1. lib[q] \in LibRec /\ lib[q].halts \in Nat /\ lib[q].flights \in Nat
    BY <1>0 DEF LibRec
  <2>2. CASE Halt(q)
    <3> DEFINE n == lib[q].halts - 1
               r == [lib[q] EXCEPT !.halts = n]
    <3>1. n \in Nat
      BY <1>7, <2>1, <2>2 DEF Halt
    <3>2. lib' = [lib EXCEPT ![q] = r] /\ UNCHANGED <<scan, qr, page, posts>>
          /\ video' = IF lib[q].paused THEN [video EXCEPT !.src = FALSE, !.refused = FALSE]
                      ELSE video
      BY <2>2 DEF Halt, lifeVars
    <3>3. video' \in VideoRec
      BY <1>0, <3>2 DEF VideoRec
    <3> HIDE DEF n
    <3>4. r \in LibRec /\ r.active = lib[q].active /\ (Waits(lib[q]) => Waits(r))
      BY <2>1, <3>1, LibCounts DEF LibRec, Waits
    <3> HIDE DEF r
    <3> QED BY <3>2, <3>3, <3>4, OneScanner
  <2>3. CASE Sees(q)
    <3> DEFINE n == lib[q].flights + 1
               r == [lib[q] EXCEPT !.flights = n]
    <3>1. n \in Nat
      BY <2>1
    <3>2. lib' = [lib EXCEPT ![q] = r] /\ UNCHANGED <<video, scan, qr, page, posts>>
      BY <2>3 DEF Sees, lifeVars
    <3> HIDE DEF n
    <3>4. r \in LibRec /\ r.active = lib[q].active /\ (Waits(lib[q]) => Waits(r))
      BY <2>1, <3>1, LibCounts DEF LibRec, Waits
    <3> HIDE DEF r
    <3> QED BY <1>0, <3>2, <3>4, OneScanner
  <2> QED BY <1>7, <2>2, <2>3
\* what follows an await, with counts changed in l
<1>8. ASSUME NEW q \in Cams, NEW ok \in BOOLEAN, NEW l \in [Cams -> LibRec],
             \A x \in Cams : l[x].active => lib[x].active,
             Continues(q, ok, l), video' \in VideoRec, UNCHANGED <<page, posts>>
      PROVE  CamInv'
  <2>1. CASE page = "scan"
    <3>1. lib' = l /\ UNCHANGED qr
          /\ scan' = IF ok THEN [scan EXCEPT !.running = TRUE, !.startOn = FALSE, !.stopOn = TRUE]
                           ELSE [scan EXCEPT !.startOn = TRUE]
      BY <1>8, <2>1 DEF Continues, ScanContinues
    <3>2. scan' \in FlagRec /\ (scan'.startOn \/ scan'.stopOn)
      BY <1>0, <3>1 DEF FlagRec
    <3> QED BY <1>0, <1>8, <2>1, <3>1, <3>2, CamKeeps
  <2>2. CASE page # "scan"
    <3>0. QrContinues(q, ok, l) /\ UNCHANGED scan /\ ~scan.detecting
      BY <1>8, <2>2 DEF Continues, CamInv
    <3>1. CASE qr.op = q /\ ~ok
      <4>1. page = "login" /\ QrFinish(l, qr.submitted)
        BY <3>0, <3>1 DEF QrContinues, CamInv, QrInv, Cams
      <4>2. qr.submitted \in BOOLEAN
        BY <1>0 DEF QrRec
      <4> QED BY <1>8, <3>0, <4>1, <4>2, QrFinishKeeps
    <3>2. CASE ~(qr.op = q /\ ~ok)
      <4>1. UNCHANGED qr /\ (lib' = l \/ lib' = [l EXCEPT ![q] = LibDestroy(l[q])])
        BY <3>0, <3>2 DEF QrContinues
      <4>2. l[q] \in LibRec /\ LibDestroy(l[q]) \in LibRec /\ ~LibDestroy(l[q]).active
        BY LibStops
      <4>3. lib' \in [Cams -> LibRec] /\ \A x \in Cams : lib'[x].active => lib[x].active
        BY <1>8, <4>1, <4>2
      <4> QED BY <1>0, <1>8, <2>2, <3>0, <4>1, <4>3, CamKeeps
    <3> QED BY <3>1, <3>2
  <2> QED BY <2>1, <2>2
<1>9. ASSUME NEW q \in Cams, NEW ok \in BOOLEAN, Plays(q, ok) PROVE CamInv'
  <2> DEFINE n == lib[q].ready - 1
             r == [lib[q] EXCEPT !.ready = n]
             l == [lib EXCEPT ![q] = r]
  <2>1. lib[q] \in LibRec /\ n \in Nat
    <3>1. lib[q] \in LibRec /\ lib[q].ready > 0
      BY <1>0, <1>9 DEF Plays
    <3> QED BY <3>1 DEF LibRec
  <2>2. Continues(q, ok, l) /\ UNCHANGED <<video, page, posts>>
    BY <1>9 DEF Plays, lifeVars
  <2> HIDE DEF n
  <2>3. r \in LibRec /\ r.active = lib[q].active
    BY <2>1, LibCounts DEF LibRec
  <2> HIDE DEF r
  <2>4. l \in [Cams -> LibRec] /\ \A x \in Cams : l[x].active => lib[x].active
    BY <1>0, <2>3
  <2> HIDE DEF l
  <2> QED BY <1>0, <1>8, <2>2, <2>4
\* the end of a start that had to ask, in a scanner r with one wait less
<1>10. ASSUME NEW q \in Cams, NEW w \in Callers, NEW ok \in BOOLEAN, NEW r \in LibRec,
              r.active => lib[q].active, w = "resume" /\ Waits(lib[q]) => Waits(r),
              StartEnds(q, w, ok, r), video' \in VideoRec, UNCHANGED <<page, posts>>
       PROVE  CamInv'
  <2> DEFINE t == IF Fails(r, ok) THEN [r EXCEPT !.active = FALSE] ELSE r
             l == [lib EXCEPT ![q] = t]
             done == ~Fails(r, ok)
  <2>1. IF w = "script" THEN Continues(q, done, l) ELSE lib' = l /\ UNCHANGED <<scan, qr>>
    BY <1>10 DEF StartEnds
  <2>2. done \in BOOLEAN
    BY DEF Fails
  <2> HIDE DEF done
  <2>3. t \in LibRec /\ (t.active => lib[q].active) /\ SameWaits(t, r)
    <3>1. CASE Fails(r, ok)
      <4>1. [r EXCEPT !.active = FALSE] \in LibRec
        BY DEF LibRec
      <4>2. t = [r EXCEPT !.active = FALSE]
        BY <3>1
      <4> QED BY <4>1, <4>2 DEF LibRec, SameWaits
    <3>2. CASE ~Fails(r, ok)
      BY <1>10, <3>2 DEF SameWaits
    <3> QED BY <3>1, <3>2
  <2> HIDE DEF t
  <2>4. l \in [Cams -> LibRec] /\ \A x \in Cams : l[x].active => lib[x].active
    BY <1>0, <2>3
  <2>5. CASE w = "script"
    <3> HIDE DEF l
    <3> QED BY <1>8, <1>10, <2>1, <2>2, <2>4, <2>5
  <2>6. CASE w # "script"
    <3>1. lib' = [lib EXCEPT ![q] = t] /\ UNCHANGED <<scan, qr, page, posts>>
      BY <1>10, <2>1, <2>6
    <3>2. Waits(lib[q]) => Waits(t)
      BY <1>10, <2>3, <2>6 DEF Callers, Waits, SameWaits
    <3> QED BY <1>10, <2>3, <3>1, <3>2, OneScanner
  <2> QED BY <2>5, <2>6
<1>11. ASSUME NEW q \in Cams, NEW w \in Callers, NEW ok \in BOOLEAN, CameraAnswers(q, w, ok)
       PROVE  CamInv'
  <2> DEFINE a == [lib[q].asks EXCEPT ![w] = lib[q].asks[w] - 1]
             r == [lib[q] EXCEPT !.asks = a]
             b == [r.plays EXCEPT ![w] = r.plays[w] + 1]
             n == video.leaked + IF video.src THEN 1 ELSE 0
  <2>1. lib[q] \in LibRec /\ lib[q].asks \in [Callers -> Nat] /\ lib[q].asks[w] > 0
    <3>1. lib[q] \in LibRec /\ lib[q].asks[w] > 0
      BY <1>0, <1>11 DEF CameraAnswers
    <3> QED BY <3>1 DEF LibRec
  <2>2. a \in [Callers -> Nat] /\ (w = "resume" => a["script"] = lib[q].asks["script"])
    BY <2>1
  <2>3. UNCHANGED <<page, posts>>
    BY <1>11 DEF CameraAnswers, lifeVars
  <2> HIDE DEF a
  <2>4. /\ r \in LibRec /\ r.active = lib[q].active /\ r.asks = a
        /\ r.plays = lib[q].plays /\ r.ready = lib[q].ready
    BY <2>1, <2>2 DEF LibRec
  <2>5. CASE ok /\ r.active /\ ~r.paused
    <3>1. /\ video' = [src |-> TRUE, refused |-> FALSE, leaked |-> n]
          /\ lib' = [lib EXCEPT ![q] = [r EXCEPT !.plays = b]]
          /\ UNCHANGED <<scan, qr>>
      BY <1>11, <2>5 DEF CameraAnswers, a
    <3>2. n \in Nat
      BY <1>0 DEF VideoRec
    <3> HIDE DEF n, r
    <3>3. video' \in VideoRec
      BY <3>1, <3>2 DEF VideoRec
    <3>4. r.plays \in [Callers -> Nat]
      BY <2>4 DEF LibRec
    <3>5. b \in [Callers -> Nat] /\ b[w] # 0 /\ (w = "resume" => b["script"] = r.plays["script"])
      BY <3>4
    <3> HIDE DEF b
    <3> DEFINE t == [r EXCEPT !.plays = b]
    <3>6. t \in LibRec /\ t.active = r.active /\ t.asks = a /\ t.plays = b /\ t.ready = r.ready
      BY <2>4, <3>5 DEF LibRec
    <3>7. lib' = [lib EXCEPT ![q] = t]
      BY <3>1
    <3> HIDE DEF t
    <3>8. Waits(lib[q]) => Waits(t)
      BY <2>2, <2>4, <3>5, <3>6 DEF Callers, Waits
    <3> QED BY <2>3, <2>4, <3>1, <3>3, <3>6, <3>7, <3>8, OneScanner
  <2>6. CASE ~(ok /\ r.active /\ ~r.paused)
    <3>1. StartEnds(q, w, ok, r) /\ UNCHANGED video
      BY <1>11, <2>6 DEF CameraAnswers, a
    <3> HIDE DEF r
    <3>2. w = "resume" /\ Waits(lib[q]) => Waits(r)
      BY <2>2, <2>4 DEF Waits
    <3> QED BY <1>0, <1>10, <2>3, <2>4, <3>1, <3>2
  <2> QED BY <2>5, <2>6
<1>12. ASSUME NEW q \in Cams, NEW w \in Callers, NEW ok \in BOOLEAN, PlayEnds(q, w, ok)
       PROVE  CamInv'
  <2> DEFINE a == [lib[q].plays EXCEPT ![w] = lib[q].plays[w] - 1]
             r == [lib[q] EXCEPT !.plays = a]
             f == video.refused \/ (video.src /\ Fails(r, ok))
  <2>1. lib[q] \in LibRec /\ lib[q].plays \in [Callers -> Nat] /\ lib[q].plays[w] > 0
    <3>1. lib[q] \in LibRec /\ lib[q].plays[w] > 0
      BY <1>0, <1>12 DEF PlayEnds
    <3> QED BY <3>1 DEF LibRec
  <2>2. a \in [Callers -> Nat] /\ (w = "resume" => a["script"] = lib[q].plays["script"])
    BY <2>1
  <2>3. /\ UNCHANGED <<page, posts>> /\ StartEnds(q, w, ok, r)
        /\ video' = [video EXCEPT !.refused = f]
    BY <1>12 DEF PlayEnds, lifeVars
  <2>4. f \in BOOLEAN
    BY <1>0 DEF VideoRec, Fails
  <2> HIDE DEF a, f
  <2>5. video' \in VideoRec
    BY <1>0, <2>3, <2>4 DEF VideoRec
  <2>6. /\ r \in LibRec /\ r.active = lib[q].active /\ r.plays = a
        /\ r.asks = lib[q].asks /\ r.ready = lib[q].ready
    BY <2>1, <2>2 DEF LibRec
  <2> HIDE DEF r
  <2>7. w = "resume" /\ Waits(lib[q]) => Waits(r)
    BY <2>2, <2>6 DEF Waits
  <2> QED BY <1>10, <2>3, <2>5, <2>6, <2>7
<1>13. ASSUME NEW q \in Cams, NEW valid \in BOOLEAN, Decodes(q, valid) PROVE CamInv'
  <2> DEFINE n == lib[q].flights - 1
             r == [lib[q] EXCEPT !.flights = n]
             l == [lib EXCEPT ![q] = r]
  <2>1. lib[q] \in LibRec /\ n \in Nat
    <3>1. lib[q] \in LibRec /\ lib[q].flights > 0
      BY <1>0, <1>13 DEF Decodes
    <3> QED BY <3>1 DEF LibRec
  <2>2. /\ IF page = "scan" THEN ScanAccept(valid, scan, l) /\ UNCHANGED qr
                            ELSE QrDecoded(q, valid, l) /\ UNCHANGED scan
        /\ UNCHANGED <<video, page>>
    BY <1>13 DEF Decodes
  <2> HIDE DEF n
  <2>3. r \in LibRec /\ r.active = lib[q].active /\ SameWaits(r, lib[q])
    BY <2>1, LibCounts DEF LibRec, SameWaits
  <2> HIDE DEF r
  <2>4. /\ l \in [Cams -> LibRec] /\ \A x \in Cams : l[x].active => lib[x].active
        /\ SameWaits(l[1], lib[1])
    BY <1>0, <2>3 DEF SameWaits
  <2> HIDE DEF l
  <2>5. CASE page = "scan"
    BY <1>0, <2>2, <2>4, <2>5, CamAccepts
  <2>6. CASE page # "scan"
    <3>1. CASE QrHeeds(q) /\ valid
      <4>1. /\ QrFinish(l, TRUE) /\ posts' = Append(posts, "qr") /\ UNCHANGED <<scan, video, page>>
            /\ qr.op = q /\ ~qr.submitted
        BY <2>2, <2>6, <3>1 DEF QrDecoded, QrHeeds
      <4>2. page = "login" /\ posts = <<>>
        BY <4>1 DEF CamInv, QrInv, Cams
      <4>3. "qr" \in Posts
        BY DEF Posts
      <4> QED BY <1>0, <2>4, <4>1, <4>2, <4>3, QrFinishKeeps
    <3>2. CASE ~(QrHeeds(q) /\ valid)
      <4>1. lib' = l /\ UNCHANGED <<qr, posts, scan, video, page>> /\ ~scan.detecting
        BY <2>2, <2>6, <3>2 DEF QrDecoded, CamInv
      <4> QED BY <1>0, <2>4, <2>6, <4>1, CamKeeps
    <3> QED BY <3>1, <3>2
  <2> QED BY <2>5, <2>6
<1> QED BY <1>1, <1>2, <1>3, <1>4, <1>5, <1>6, <1>7, <1>9, <1>11, <1>12, <1>13 DEF ScanNext

\* Every step of the page
LEMMA CamInvStep ==
  ASSUME CamInv, [Next]_vars
  PROVE  CamInv'
<1>0. /\ lib \in [Cams -> LibRec] /\ video \in VideoRec /\ scan \in FlagRec /\ qr \in QrRec
      /\ page \in Pages /\ posts \in Seq(Posts) /\ 1 \in Cams /\ qr.submitted \in BOOLEAN
  BY CamTypesAre, ScanAssumption DEF CamInv, CamTypes, Cams, QrRec
<1>a. /\ [src |-> FALSE, leaked |-> 0, refused |-> FALSE] \in VideoRec
      /\ {"card", "typed"} \subseteq Posts /\ "card" # "qr" /\ "typed" # "qr"
  BY DEF VideoRec, Posts
\* a step of other scripts
<1>b. ASSUME UNCHANGED <<scanVars, page>>,
             posts' = posts \/ (page # "login" /\ posts' \in Seq(Posts))
      PROVE  CamInv'
  <2>1. page = "scan" => Awaited' \/ scan'.startOn \/ scan'.stopOn
    BY <1>b DEF scanVars, CamInv, ReachInv, Awaited
  <2>2. scan'.detecting => page = "scan"
    BY <1>b DEF scanVars, CamInv
  <2> QED BY <1>0, <1>b, <2>1, <2>2, CamKeeps DEF scanVars
\* a form of the page is submitted
<1>c. ASSUME NEW x \in {"card", "typed"}, posts' = Append(posts, x), QrHeedsSubmit,
             UNCHANGED <<video, scan, page>>
      PROVE  CamInv'
  <2>1. CASE page = "login"
    BY <1>0, <1>a, <1>c, <2>1, QrFinishKeeps DEF QrHeedsSubmit
  <2>2. CASE page # "login"
    <3>1. posts' \in Seq(Posts)
      BY <1>0, <1>a, <1>c
    <3> QED BY <1>b, <1>c, <2>2, <3>1 DEF QrHeedsSubmit, scanVars
  <2> QED BY <2>1, <2>2
<1>1. CASE CardNext /\ UNCHANGED <<scanVars, panelVars>>
  <2>1. UNCHANGED <<page, posts>>
    BY <1>1 DEF CardNext, ToggleConsent, Cancel, Begin, CardWritten, Refused, CardHeard,
                WriteSettles, ReadFails, TimesOut, lifeVars
  <2> QED BY <1>1, <1>b, <2>1
<1>2. ASSUME NEW o \in DOMAIN op, NEW c \in Contents, CardReads(o, c) PROVE CamInv'
  <2>1. UNCHANGED <<video, scan, page>> /\ (posts' = posts \/ posts' = Append(posts, "card"))
    BY <1>2 DEF CardReads, Reading
  <2>2. CASE posts' # posts
    BY <1>2, <1>c, <2>1, <2>2 DEF CardReads
  <2>3. CASE posts' = posts
    BY <1>2, <1>b, <2>1, <2>3 DEF CardReads, scanVars
  <2> QED BY <2>2, <2>3
<1>3. CASE TypesCode
  BY <1>3, <1>c DEF TypesCode
<1>4. CASE ScanNext /\ UNCHANGED <<cardVars, panelVars>>
  BY <1>4, ScanNextCam
<1>5. CASE PanelNext /\ UNCHANGED <<cardVars, scanVars>>
  <2>1. UNCHANGED page /\ (posts' = posts \/ (page = "form" /\ posts' = Append(posts, "typed")))
    BY <1>5 DEF PanelNext, DepositRefresh, DepositLapses, PaneToggle, DepositAnswer, PaneAnswer,
                ViewerLoads, FormSubmit, ViewerTurns, ViewerRendered, ViewerBreaks, lifeVars
  <2>2. posts' = posts \/ (page # "login" /\ posts' \in Seq(Posts))
    BY <1>0, <1>a, <2>1
  <2> QED BY Zenon, <1>5, <1>b, <2>1, <2>2
<1>6. CASE HidePage
  <2>0. UNCHANGED <<video, scan, page, posts>>
    BY <1>6 DEF HidePage, Hides
  <2>1. CASE page = "scan"
    <3>1. UNCHANGED qr
          /\ lib' = [q \in Cams |-> IF q = 1 /\ page = "scan" /\ ~lib[q].destroyed
                                    THEN LibPause(lib[q]) ELSE lib[q]]
      BY <1>6, <2>1 DEF HidePage, LibHidden
    <3>2. \A q \in Cams : lib[q] \in LibRec
      BY <1>0
    <3>3. /\ lib' \in [Cams -> LibRec]
          /\ SameWaits(lib'[1], lib[1])
      BY <1>0, <3>1, <3>2, LibStops DEF SameWaits
    <3>4. Awaited' \/ scan'.startOn \/ scan'.stopOn
      BY <2>0, <2>1, <3>3 DEF Awaited, Waits, SameWaits, CamInv, ReachInv
    <3> QED BY <1>0, <2>0, <2>1, <3>1, <3>3, <3>4, CamKeeps
  <2>2. CASE page = "login"
    BY <1>0, <1>6, <2>0, <2>2, QrFinishKeeps DEF HidePage, QrHidden
  <2>3. CASE page # "scan" /\ page # "login"
    BY <1>6, <1>b, <2>0, <2>3 DEF HidePage, QrHidden, scanVars
  <2> QED BY <2>1, <2>2, <2>3
<1>7. CASE ShowPage
  <2>0. UNCHANGED <<video, scan, qr, page, posts>>
        /\ lib' = [q \in Cams |-> IF lib[q].active THEN LibStart(lib[q], "resume", FALSE)
                                  ELSE lib[q]]
    BY <1>7 DEF ShowPage, Shows, LibShown
  <2>1. ASSUME NEW q \in Cams
        PROVE  /\ lib'[q] \in LibRec /\ (Waits(lib[q]) => Waits(lib'[q]))
               /\ lib'[q].active => lib[q].active
    <3>1. lib[q] \in LibRec /\ "resume" \in Callers
      BY <1>0 DEF Callers
    <3>2. CASE lib[q].active
      <4> DEFINE r == LibStart(lib[q], "resume", FALSE)
      <4>1. lib'[q] = r
        BY <2>0, <3>2
      <4>2. r \in LibRec /\ (Waits(lib[q]) => Waits(r))
        BY <3>1, LibStarts, Zenon
      <4> HIDE DEF r
      <4> QED BY <3>2, <4>1, <4>2
    <3>3. CASE ~lib[q].active
      BY <2>0, <3>1, <3>3
    <3> QED BY <3>2, <3>3
  <2>2. lib' \in [Cams -> LibRec]
    BY <2>0, <2>1
  <2>3. page = "scan" => Awaited' \/ scan'.startOn \/ scan'.stopOn
    BY <1>0, <2>0, <2>1 DEF Awaited, Waits, CamInv, ReachInv
  <2>4. scan'.detecting => page = "scan"
    BY <2>0 DEF CamInv
  <2> QED BY <1>0, <2>0, <2>1, <2>2, <2>3, <2>4, CamKeeps
<1>8. CASE ReturnToPage
  BY <1>8, <1>b DEF ReturnToPage, Returns
<1>9. ASSUME NEW kept \in BOOLEAN, LeavePage(kept) PROVE CamInv'
  <2>0. UNCHANGED <<page, posts>> /\ video' = [src |-> FALSE, leaked |-> 0, refused |-> FALSE]
    BY <1>9 DEF LeavePage, Leaves
  <2>1. CASE page = "login"
    BY <1>0, <1>a, <1>9, <2>0, <2>1, QrFinishKeeps DEF LeavePage, QrHidden
  <2>2. CASE page = "scan" /\ ~lib[1].destroyed
    <3>1. /\ UNCHANGED qr /\ scan' = [scan EXCEPT !.running = FALSE]
          /\ lib' = [lib EXCEPT ![1] = LibDestroy(lib[1])]
      BY <1>9, <2>2 DEF LeavePage, ScanLeft
    <3>2. lib[1] \in LibRec
      BY <1>0
    <3>3. /\ lib' \in [Cams -> LibRec]
          /\ SameWaits(lib'[1], lib[1])
      BY <1>0, <3>1, <3>2, LibStops DEF SameWaits
    <3>4. scan' \in FlagRec /\ scan'.startOn = scan.startOn /\ scan'.stopOn = scan.stopOn
      BY <1>0, <3>1 DEF FlagRec
    <3>5. Awaited' \/ scan'.startOn \/ scan'.stopOn
      BY <2>2, <3>3, <3>4 DEF Awaited, Waits, SameWaits, CamInv, ReachInv
    <3> QED BY <1>0, <1>a, <2>0, <2>2, <3>1, <3>3, <3>4, <3>5, CamKeeps
  <2>3. CASE page # "login" /\ ~(page = "scan" /\ ~lib[1].destroyed)
    <3>1. UNCHANGED <<lib, scan, qr>>
      BY <1>9, <2>3 DEF LeavePage, ScanLeft
    <3>2. page = "scan" => Awaited' \/ scan'.startOn \/ scan'.stopOn
      BY <3>1 DEF Awaited, CamInv, ReachInv
    <3>3. scan'.detecting => page = "scan"
      BY <3>1 DEF CamInv
    <3> QED BY <1>0, <1>a, <2>0, <2>3, <3>1, <3>2, <3>3, CamKeeps
  <2> QED BY <2>1, <2>2, <2>3
<1>10. CASE UNCHANGED vars
  BY <1>10, <1>b DEF vars, lifeVars, scanVars
<1> QED BY <1>1, <1>2, <1>3, <1>4, <1>5, <1>6, <1>7, <1>8, <1>9, <1>10 DEF Next

LEMMA CamInvAlways == Spec => []CamInv
<1>1. CamInv /\ [Next]_vars => CamInv'
  BY CamInvStep
<1> QED BY <1>1, CamInvInit, PTL DEF Spec

\* login-qr.js: however late permissions, frames and timers come, no code follows
\* another submission of the login page, and a camera that is on belongs to the
\* operation the user sees.
THEOREM QrSubmitsOnce == Spec => []QrSubmitsFirst
<1>1. CamInv => QrSubmitsFirst
  <2> SUFFICES ASSUME CamInv, page = "login"
               PROVE  /\ \A i \in DOMAIN posts : posts[i] = "qr" => i = 1
                      /\ \A q \in Cams : lib[q].active => qr.op = q /\ posts = <<>>
    BY DEF QrSubmitsFirst
  <2> QED BY DEF CamInv, QrInv, Cams
<1> QED BY <1>1, CamInvAlways, PTL

\* lightning-scan.js: unless a start is awaited, one of the two buttons is on.
THEOREM ScannerStaysInReach == Spec => []ScannerIsInReach
<1>1. CamInv => ScannerIsInReach
  BY DEF CamInv, ReachInv, Awaited, Waits, ScannerIsInReach
<1> QED BY <1>1, CamInvAlways, PTL

-------------------------------------------------------------------------------
(* pdf-viewer.js.                                                              *)

ViewerRec == [at : {"loading", "open", "failed"}, current : 1..NumPages,
              label : 0..NumPages, canvas : 0..NumPages, whole : BOOLEAN,
              rendering : SUBSET (1..NumPages),
              back : BOOLEAN, forth : BOOLEAN, controls : BOOLEAN]

\* A page that an open document shows completely is its current page, also while the
\* next one is rendered; before it is open its buttons are not shown, so only its first page,
\* and afterwards one page at a time, is rendered.
ViewerInv ==
  /\ viewer \in ViewerRec
  /\ viewer.rendering = {} \/ \E p \in 1..NumPages : viewer.rendering = {p}
  /\ viewer.controls => viewer.at = "open"
  /\ viewer.at = "open" =>
       viewer.label = viewer.current /\ (viewer.whole => viewer.canvas = viewer.current)
  /\ viewer.at = "open" /\ viewer.rendering = {} =>
       viewer.back = (viewer.current > 1) /\ viewer.forth = (viewer.current < NumPages)

LEMMA ViewerUnchanged ==
  ASSUME [Next]_vars, \A ok \in BOOLEAN : ~ViewerLoads(ok),
         \A p : ~ViewerTurns(p) /\ ~ViewerRendered(p) /\ ~ViewerBreaks(p)
  PROVE  UNCHANGED viewer
<1>1. CASE PanelNext
  BY <1>1 DEF PanelNext, DepositRefresh, DepositLapses, DepositAnswer, PaneToggle, PaneAnswer,
              FormSubmit
<1>2. ASSUME NEW o \in DOMAIN op, NEW c \in Contents, CardReads(o, c) PROVE UNCHANGED viewer
  BY <1>2 DEF CardReads, panelVars
<1>3. CASE TypesCode \/ HidePage \/ ShowPage \/ ReturnToPage
  BY <1>3 DEF TypesCode, HidePage, ShowPage, ReturnToPage, panelVars
<1>4. ASSUME NEW kept \in BOOLEAN, LeavePage(kept) PROVE UNCHANGED viewer
  BY <1>4 DEF LeavePage
<1>5. CASE UNCHANGED panelVars \/ UNCHANGED vars
  BY <1>5 DEF panelVars, vars
<1> QED BY <1>1, <1>2, <1>3, <1>4, <1>5 DEF Next

\* renderPage begins for a page of the document.
LEMMA RendersKeeps ==
  ASSUME ViewerInv, viewer.rendering = {}, NEW p \in 1..NumPages, viewer' = Renders(p)
  PROVE  ViewerInv'
<1> DEFINE R == viewer.rendering \cup {p}
<1>1. R = {p} /\ R \in SUBSET (1..NumPages)
  OBVIOUS
<1>2. viewer' = [viewer EXCEPT !.rendering = R, !.back = FALSE, !.forth = FALSE]
  BY DEF Renders
<1> HIDE DEF R
<1>3. /\ viewer' \in ViewerRec /\ viewer'.rendering = {p}
      /\ viewer'.controls = viewer.controls /\ viewer'.at = viewer.at
      /\ viewer'.label = viewer.label /\ viewer'.canvas = viewer.canvas
      /\ viewer'.current = viewer.current /\ viewer'.whole = viewer.whole
  BY <1>1, <1>2 DEF ViewerInv, ViewerRec
<1> QED BY <1>3 DEF ViewerInv

\* The finally of renderPage sets the buttons by the current page.
LEMMA ButtonsKeep ==
  ASSUME NEW v \in ViewerRec, viewer' = Buttons(v)
  PROVE  /\ viewer' \in ViewerRec
         /\ viewer'.at = v.at /\ viewer'.controls = v.controls /\ viewer'.current = v.current
         /\ viewer'.label = v.label /\ viewer'.canvas = v.canvas /\ viewer'.whole = v.whole
         /\ viewer'.rendering = v.rendering
         /\ viewer'.back = (v.current > 1) /\ viewer'.forth = (v.current < NumPages)
<1> DEFINE b == v.current > 1
           f == v.current < NumPages
<1>1. b \in BOOLEAN /\ f \in BOOLEAN
  OBVIOUS
<1>2. viewer' = [v EXCEPT !.back = b, !.forth = f]
  BY DEF Buttons
<1> HIDE DEF b, f
<1>3. /\ viewer' \in ViewerRec
      /\ viewer'.at = v.at /\ viewer'.controls = v.controls /\ viewer'.current = v.current
      /\ viewer'.label = v.label /\ viewer'.canvas = v.canvas /\ viewer'.whole = v.whole
      /\ viewer'.rendering = v.rendering
  BY <1>1, <1>2 DEF ViewerRec
<1>4. viewer'.back = b /\ viewer'.forth = f
  BY <1>1, <1>2, Zenon DEF ViewerRec
<1> QED BY <1>3, <1>4 DEF b, f

LEMMA ViewerStep ==
  ASSUME ViewerInv, [Next]_vars
  PROVE  ViewerInv'
<1>0. viewer \in ViewerRec /\ 1 \in 1..NumPages
  BY PanelAssumption DEF ViewerInv
<1>1. ASSUME NEW ok \in BOOLEAN, ViewerLoads(ok) PROVE ViewerInv'
  <2>1. CASE ok
    BY <1>0, <1>1, <2>1, RendersKeeps DEF ViewerLoads
  <2>2. CASE ~ok
    <3>1. viewer' = [viewer EXCEPT !.at = "failed"] /\ viewer.at = "loading"
      BY <1>1, <2>2 DEF ViewerLoads
    <3>2. /\ viewer' \in ViewerRec /\ viewer'.at = "failed"
          /\ viewer'.controls = viewer.controls /\ viewer'.rendering = viewer.rendering
      BY <1>0, <3>1 DEF ViewerRec
    <3> QED BY <3>1, <3>2 DEF ViewerInv
  <2> QED BY <2>1, <2>2
<1>2. ASSUME NEW p, ViewerTurns(p) PROVE ViewerInv'
  BY <1>2, RendersKeeps DEF ViewerTurns, CanTurn
<1>3. ASSUME NEW p, ViewerRendered(p) PROVE ViewerInv'
  <2> DEFINE R == viewer.rendering \ {p}
             v == [viewer EXCEPT !.rendering = R, !.at = "open", !.controls = TRUE,
                                 !.current = p, !.label = p, !.canvas = p, !.whole = TRUE]
  <2>1. viewer' = Buttons(v) /\ p \in 1..NumPages /\ R = {}
    BY <1>0, <1>3 DEF ViewerRendered, ViewerInv, ViewerRec
  <2>2. p \in 0..NumPages
    BY <2>1, PanelAssumption
  <2> HIDE DEF R
  <2>3. /\ v \in ViewerRec /\ v.rendering = {} /\ v.at = "open"
        /\ v.current = p /\ v.label = p /\ v.canvas = p /\ v.whole = TRUE
    BY <1>0, <2>1, <2>2 DEF ViewerRec
  <2> HIDE DEF v
  <2> QED BY <2>1, <2>3, ButtonsKeep DEF ViewerInv
<1>4. ASSUME NEW p, ViewerBreaks(p) PROVE ViewerInv'
  <2> DEFINE R == viewer.rendering \ {p}
             a == IF viewer.at = "loading" THEN "failed" ELSE viewer.at
  <2>0. PICK drawn \in {<<viewer.canvas, viewer.whole>>, <<0, FALSE>>, <<p, FALSE>>} :
          viewer' = Buttons([viewer EXCEPT !.rendering = R, !.canvas = drawn[1],
                                           !.whole = drawn[2], !.at = a])
    BY <1>4 DEF ViewerBreaks
  <2>1. PICK c, w : /\ drawn = <<c, w>> /\ (<<c, w>> = <<viewer.canvas, viewer.whole>> \/ w = FALSE)
                    /\ c \in {viewer.canvas, 0, p} /\ w \in {viewer.whole, FALSE}
    BY <2>0
  <2> DEFINE v == [viewer EXCEPT !.rendering = R, !.canvas = c, !.whole = w, !.at = a]
  <2>2. /\ R = {} /\ c \in 0..NumPages /\ w \in BOOLEAN /\ a \in {"loading", "open", "failed"}
        /\ w => (viewer.whole /\ c = viewer.canvas)
        /\ a = "open" => viewer.at = "open"
        /\ viewer.at = "open" => a = "open"
    <3>1. R = {} /\ p \in 1..NumPages
      BY <1>4 DEF ViewerBreaks, ViewerInv
    <3>2. c \in 0..NumPages
      BY <1>0, <2>1, <3>1, PanelAssumption DEF ViewerRec
    <3>3. viewer.whole \in BOOLEAN
      BY <1>0 DEF ViewerRec
    <3>4. w \in BOOLEAN /\ (w => (viewer.whole /\ c = viewer.canvas))
      BY <2>1, <3>3
    <3>5. a \in {"loading", "open", "failed"} /\ (a = "open" <=> viewer.at = "open")
      BY <1>0 DEF ViewerRec
    <3> QED BY <3>1, <3>2, <3>4, <3>5
  <2> HIDE DEF R, a
  <2>3. /\ v \in ViewerRec /\ v.rendering = {} /\ v.at = a /\ v.canvas = c /\ v.whole = w
        /\ v.current = viewer.current /\ v.label = viewer.label
        /\ v.controls = viewer.controls
    BY <1>0, <2>2 DEF ViewerRec
  <2>4. viewer' = Buttons(v)
    BY <2>0, <2>1
  <2> HIDE DEF v
  <2>5. /\ viewer' \in ViewerRec /\ viewer'.rendering = {} /\ viewer'.at = a
        /\ viewer'.canvas = c /\ viewer'.whole = w /\ viewer'.current = viewer.current
        /\ viewer'.label = viewer.label /\ viewer'.controls = viewer.controls
        /\ viewer'.back = (viewer.current > 1) /\ viewer'.forth = (viewer.current < NumPages)
    BY <2>3, <2>4, ButtonsKeep
  <2>6. CASE viewer.at = "open"
    <3>1. viewer.label = viewer.current /\ (w => c = viewer.current) /\ a = "open"
      BY <2>2, <2>6 DEF ViewerInv
    <3> QED BY <2>5, <3>1 DEF ViewerInv
  <2>7. CASE viewer.at # "open"
    <3>1. ~viewer.controls /\ a # "open"
      BY <2>2, <2>7 DEF ViewerInv
    <3> QED BY <2>5, <3>1 DEF ViewerInv
  <2> QED BY <2>6, <2>7
<1>5. CASE UNCHANGED viewer
  BY <1>5 DEF ViewerInv
<1> QED BY <1>1, <1>2, <1>3, <1>4, <1>5, ViewerUnchanged

LEMMA ViewerAlways == Spec => []ViewerInv
<1>1. Init => ViewerInv
  BY PanelAssumption DEF Init, PanelInit, ViewerInv, ViewerRec
<1>2. ViewerInv /\ [Next]_vars => ViewerInv'
  BY ViewerStep
<1> QED BY <1>1, <1>2, PTL DEF Spec

\* pdf-viewer.js: one page is rendered at a time, and whichever pages fail, cleared or
\* partly drawn, the label and the buttons agree on one page, and so does a canvas
\* that shows a page completely.
THEOREM ViewerIsInPlace == Spec => []ViewerKeepsItsPlace
<1>1. ViewerInv => ViewerKeepsItsPlace
  <2>1. ViewerInv => Cardinality(viewer.rendering) <= 1
    <3>1. ViewerInv => viewer.rendering = {} \/ \E p \in 1..NumPages : viewer.rendering = {p}
      BY Zenon DEF ViewerInv
    <3>2. Cardinality({}) = 0 /\ \A p : Cardinality({p}) = 1
      BY FS_EmptySet, FS_Singleton
    <3>3. CASE viewer.rendering = {}
      <4>1. Cardinality(viewer.rendering) = 0
        BY <3>2, <3>3, Zenon
      <4> QED BY <4>1
    <3>4. ASSUME NEW p \in 1..NumPages, viewer.rendering = {p}
          PROVE  Cardinality(viewer.rendering) <= 1
      <4>1. Cardinality(viewer.rendering) = 1
        BY <3>2, <3>4, Zenon
      <4> QED BY <4>1
    <3> QED BY <3>1, <3>3, <3>4, Zenon
  <2>2. ViewerInv => \/ ~(viewer.at = "open" /\ viewer.rendering = {})
                     \/ /\ viewer.label = viewer.current
                        /\ viewer.whole => viewer.canvas = viewer.current
                        /\ viewer.back = (viewer.current > 1)
                        /\ viewer.forth = (viewer.current < NumPages)
    BY Zenon DEF ViewerInv
  <2> QED BY <2>1, <2>2, Zenon DEF ViewerKeepsItsPlace
<1> QED BY <1>1, ViewerAlways, PTL

-------------------------------------------------------------------------------
(* Type correctness.                                                           *)

\* What the browser counts, and the panel that polls a transfer.
DepositRec == [poll : {"asking", "waiting", "ended"}, stopped : BOOLEAN, late : BOOLEAN,
               says : {"none", "status", "final", "complete", "unavailable", "paused"}]
TabInv == life \in Lives /\ left \in 0..MaxLeaves /\ deposit \in DepositRec

\* A step that is not the browser's leaves the page where it is.
LEMMA TabUnchanged ==
  ASSUME [Next]_vars, ~HidePage, ~ShowPage, ~ReturnToPage, \A kept \in BOOLEAN : ~LeavePage(kept)
  PROVE  UNCHANGED <<life, left>>
<1>1. CASE CardNext
  BY <1>1 DEF CardNext, ToggleConsent, Cancel, Begin, CardWritten, Refused, CardHeard,
              WriteSettles, ReadFails, TimesOut, lifeVars
<1>2. ASSUME NEW o \in DOMAIN op, NEW c \in Contents, CardReads(o, c)
      PROVE  UNCHANGED <<life, left>>
  BY <1>2 DEF CardReads, Reading
<1>3. CASE TypesCode
  BY <1>3 DEF TypesCode
<1>4. CASE ScanNext
  BY <1>4, ScanLeavesLife
<1>5. CASE PanelNext
  BY <1>5 DEF PanelNext, DepositRefresh, DepositLapses, DepositAnswer, ViewerLoads, PaneToggle,
              PaneAnswer, ViewerTurns, ViewerRendered, ViewerBreaks, FormSubmit, lifeVars
<1>6. CASE UNCHANGED vars
  BY <1>6 DEF vars, lifeVars
<1> QED BY <1>1, <1>2, <1>3, <1>4, <1>5, <1>6 DEF Next

LEMMA DepositUnchanged ==
  ASSUME [Next]_vars, ~DepositRefresh, ~DepositLapses, \A a \in Answers : ~DepositAnswer(a),
         \A kept \in BOOLEAN : ~LeavePage(kept)
  PROVE  UNCHANGED deposit
<1>1. CASE PanelNext
  BY <1>1 DEF PanelNext, ViewerLoads, PaneToggle, PaneAnswer, ViewerTurns, ViewerRendered,
              ViewerBreaks, FormSubmit
<1>2. ASSUME NEW o \in DOMAIN op, NEW c \in Contents, CardReads(o, c) PROVE UNCHANGED deposit
  BY <1>2 DEF CardReads, panelVars
<1>3. CASE TypesCode \/ HidePage \/ ShowPage \/ ReturnToPage
  BY <1>3 DEF TypesCode, HidePage, ShowPage, ReturnToPage, panelVars
<1>4. CASE UNCHANGED panelVars \/ UNCHANGED vars
  BY <1>4 DEF panelVars, vars
<1> QED BY Zenon, <1>1, <1>2, <1>3, <1>4 DEF Next

LEMMA DepositStep ==
  ASSUME deposit \in DepositRec, [Next]_vars
  PROVE  deposit' \in DepositRec
<1>1. CASE DepositRefresh \/ DepositLapses
  BY <1>1 DEF DepositRefresh, DepositLapses, DepositRec
<1>2. ASSUME NEW a \in Answers, DepositAnswer(a) PROVE deposit' \in DepositRec
  <2>1. /\ Again(a).poll \in {"waiting", "ended"}
        /\ Again(a).says \in {"status", "final", "complete", "unavailable", "paused"}
    BY DEF Again, Answers, DepositRec
  <2> DEFINE p == Again(a).poll
             s == Again(a).says
  <2>2. \/ deposit' = [deposit EXCEPT !.poll = "ended"]
        \/ deposit' = [deposit EXCEPT !.poll = p, !.says = s]
    BY <1>2 DEF DepositAnswer
  <2> HIDE DEF p, s
  <2>3. p \in {"waiting", "ended"}
        /\ s \in {"status", "final", "complete", "unavailable", "paused"}
    BY <2>1 DEF p, s
  <2> QED BY <2>2, <2>3 DEF DepositRec
<1>3. ASSUME NEW kept \in BOOLEAN, LeavePage(kept) PROVE deposit' \in DepositRec
  <2> DEFINE b == deposit.stopped \/ page = "deposit"
  <2>1. deposit' = [deposit EXCEPT !.stopped = b] /\ b \in BOOLEAN
    BY <1>3 DEF LeavePage, DepositLeft
  <2> HIDE DEF b
  <2> QED BY <2>1 DEF DepositRec
<1>4. CASE UNCHANGED deposit
  BY <1>4
<1> QED BY <1>1, <1>2, <1>3, <1>4, DepositUnchanged

LEMMA TabStep ==
  ASSUME TabInv, [Next]_vars
  PROVE  TabInv'
<1>0. \A n \in 0..MaxLeaves : n < MaxLeaves => n + 1 \in 0..MaxLeaves
  BY LifeAssumption
<1>1. CASE HidePage \/ ShowPage \/ ReturnToPage
  BY <1>0, <1>1, DepositStep
     DEF TabInv, HidePage, Hides, ShowPage, Shows, ReturnToPage, Returns, Lives
<1>2. ASSUME NEW kept \in BOOLEAN, LeavePage(kept) PROVE TabInv'
  BY <1>0, <1>2, DepositStep DEF TabInv, LeavePage, Leaves, Lives
<1>3. CASE UNCHANGED <<life, left>>
  BY <1>3, DepositStep DEF TabInv
<1> QED BY <1>1, <1>2, <1>3, TabUnchanged

LEMMA TabAlways == Spec => []TabInv
<1>1. Init => TabInv
  BY LifeAssumption DEF Init, LifeInit, PanelInit, TabInv, DepositRec, Lives
<1>2. TabInv /\ [Next]_vars => TabInv'
  BY TabStep
<1> QED BY <1>1, <1>2, PTL DEF Spec

\* The page, its scripts and what they count stay in their types: no wait, no
\* request and no camera is given back twice.
THEOREM BrowserTypeCorrect == Spec => []TypeOK
<1>1. CardInv /\ CamInv /\ TabInv => LifeTypeOK /\ CardTypeOK /\ ScanTypeOK
  BY DEF CardInv, CamInv, TabInv, LifeTypeOK
<1>2. TabInv /\ pane \in PaneRec /\ FormInv /\ ViewerInv => PanelTypeOK
  BY DEF TabInv, DepositRec, PaneRec, FormInv, FormRec, ViewerInv, ViewerRec, PanelTypeOK
<1>3. /\ CardInv /\ CamInv /\ TabInv /\ pane \in PaneRec /\ FormInv /\ ViewerInv
      => TypeOK
  BY <1>1, <1>2 DEF TypeOK
<1>4. (CardInv /\ posts \in Seq(Posts)) /\ CamInv /\ TabInv /\ (pane \in PaneRec /\ PaneInv)
      /\ FormInv /\ ViewerInv => TypeOK
  BY <1>3
<1> QED BY <1>4, CardInvAlways, CamInvAlways, TabAlways, PaneAlways, FormAlways, ViewerAlways, PTL
===============================================================================
