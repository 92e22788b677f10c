---------------------------- MODULE RecoveryProofs ----------------------------
(***************************************************************************)
(* Proofs about the watchdog, alone in WInv, the pipe script, alone in     *)
(* PipeInv, and both together: a step of Recovery is one of each, or none. *)
(***************************************************************************)
EXTENDS Recovery, TLAPS

(***************************************************************************)
(* The watchdog                                                            *)
(***************************************************************************)

\* Between a restart and the note of it, the note will hold its true age. A
\* restart that is noted is as old as the file says.
HealInv ==
    /\ pc \in {"compose", "note_heal"} => sinceHeal = Capped(nowAge, Cooldown) /\ unwritten
    /\ ~unwritten => healAge = sinceHeal

\* The last diagnosis is at least as old as the file says, unless the file does
\* not tell of it; so is the one the file is about to tell of.
DiagInv ==
    /\ ~unsaved => diagAge <= sinceDiag
    /\ pc = "note_diag" => Capped(nowAge, DiagCooldown) <= sinceDiag
    /\ pc = "note_diag" /\ ~unsaved => sinceDiag = DiagCooldown
    /\ pc = "log" /\ ~unsaved => diagAge = Capped(nowAge, DiagCooldown)

\* Layer 2 runs only after a good probe.
ClaimInv == pc \in {"public", "republic", "rate", "note_diag", "log"} => api = "up" \/ fell

\* WTypeOK in two parts, for two provers.
Flags == unwritten \in BOOLEAN /\ unsaved \in BOOLEAN /\ fell \in BOOLEAN

Numbers ==
    /\ nowAge \in 0..Oldest
    /\ healAge \in 0..Cooldown
    /\ diagAge \in 0..DiagCooldown
    /\ sinceHeal \in 0..Cooldown
    /\ sinceDiag \in 0..DiagCooldown
    /\ troubles \in 0..MaxTroubles
    /\ api \in {"up", "down"}
    /\ tunnel \in {"up", "down"}

WInv == Numbers /\ HealInv /\ DiagInv /\ ClaimInv

\* What the assumptions say of the longest age.
LEMMA OldestBounds ==
    /\ Oldest \in Nat
    /\ Cooldown \in Nat /\ DiagCooldown \in Nat /\ MaxTroubles \in Nat
    /\ Cooldown <= Oldest
    /\ DiagCooldown <= Oldest
  BY WatchdogAssumption DEF Oldest

LEMMA WInitInv == WInit => WInv /\ Flags
  <1> SUFFICES ASSUME WInit PROVE WInv /\ Flags
    OBVIOUS
  <1> USE OldestBounds DEF WInit
  <1>1. Numbers
    BY DEF Numbers
  <1>2. HealInv /\ DiagInv /\ ClaimInv
    BY DEF HealInv, DiagInv, ClaimInv
  <1>3. Flags
    BY Zenon DEF Flags
  <1> QED
    BY <1>1, <1>2, <1>3 DEF WInv

\* The flags are Booleans.
LEMMA FlagsKept ==
    ASSUME Flags, [WNext]_wvars
    PROVE  Flags'
  <1> USE DEF Flags, ages, outside, lost
  <1>1. CASE UNCHANGED wvars
    BY <1>1 DEF wvars
  <1>2. CASE World \/ Fire
    BY <1>2 DEF World, ApiFails, ApiReturns, TunnelFails, TunnelReturns, Minute, Cut, Fire
  <1>3. CASE Probe
    BY <1>3 DEF Probe, ProbeOk, ProbeFails
  <1>4. CASE Heal
    BY <1>4 DEF Heal, HealDecided, HealNoted, SkipHeal, DecideHeal, DecideHealUnread, CdFails, Kill,
                KillFails, Killing, Up, UpFails, NoteHeal, NoteHealFails, StillDown, ProbeFails
  <1>5. CASE Diagnose
    BY <1>5 DEF Diagnose, PublicOk, PublicFails, SkipDiag, DecideDiag, DecideDiagUnread, NoteDiag,
                NoteDiagFails, Log
  <1> QED
    BY <1>1, <1>2, <1>3, <1>4, <1>5 DEF WNext, Script

\* Ages and troubles stay within their limits.
LEMMA NumbersKept ==
    ASSUME Numbers, [WNext]_wvars
    PROVE  Numbers'
  <1> USE OldestBounds DEF Numbers, Goto, ages, outside, lost, Capped, Unwritten
  <1>1. CASE UNCHANGED wvars
    BY <1>1 DEF wvars
  <1>2. CASE ApiFails \/ ApiReturns \/ TunnelFails \/ TunnelReturns
    BY <1>2 DEF ApiFails, ApiReturns, TunnelFails, TunnelReturns, Trouble
  <1>3. CASE Minute
    BY <1>3 DEF Minute, Older
  <1>4. CASE Cut
    BY <1>4 DEF Cut, Trouble
  <1>5. CASE Fire
    BY <1>5 DEF Fire
  <1>6. CASE Probe
    BY <1>6 DEF Probe, ProbeOk, ProbeFails, Trouble
  <1>7. CASE SkipHeal \/ HealDecided \/ CdFails
    BY <1>7 DEF SkipHeal, HealDecided, DecideHeal, DecideHealUnread, CdFails, Trouble
  <1>8. CASE Kill \/ KillFails
    BY <1>8 DEF Kill, KillFails, Killing
  <1>9. CASE Up \/ UpFails \/ HealNoted \/ StillDown
    BY <1>9 DEF Up, UpFails, HealNoted, NoteHeal, NoteHealFails, StillDown, ProbeFails, Trouble
  <1>10. CASE \E from \in {"public", "republic"} : PublicOk(from)
    BY <1>10 DEF PublicOk
  <1>11. CASE PublicFails("public", "republic") \/ PublicFails("republic", "rate")
    BY <1>11 DEF PublicFails, Trouble
  <1>12. CASE SkipDiag \/ DecideDiag \/ DecideDiagUnread
    BY <1>12 DEF SkipDiag, DecideDiag, DecideDiagUnread
  <1>13. CASE NoteDiag \/ NoteDiagFails
    BY <1>13 DEF NoteDiag, NoteDiagFails
  <1>14. CASE Log
    BY <1>14 DEF Log
  <1> QED
    BY <1>1, <1>2, <1>3, <1>4, <1>5, <1>6, <1>7, <1>8, <1>9, <1>10, <1>11, <1>12, <1>13, <1>14
    DEF WNext, World, Script, Heal, Diagnose

\* A noted restart stays as old as the file says.
LEMMA HealKept ==
    ASSUME Numbers, Numbers', HealInv, [WNext]_wvars
    PROVE  HealInv'
  <1> USE OldestBounds DEF Numbers, HealInv, Goto, ages, outside, lost, Capped, Unwritten
  <1>1. CASE UNCHANGED wvars
    BY <1>1 DEF wvars
  <1>2. CASE ApiFails \/ ApiReturns \/ TunnelFails \/ TunnelReturns
    BY <1>2 DEF ApiFails, ApiReturns, TunnelFails, TunnelReturns, Trouble
  <1>3. CASE Minute
    BY <1>3 DEF Minute, Older
  <1>4. CASE Cut
    BY <1>4 DEF Cut, Trouble
  <1>5. CASE Fire
    BY <1>5 DEF Fire
  <1>6. CASE Probe
    BY <1>6 DEF Probe, ProbeOk, ProbeFails, Trouble
  <1>7. CASE SkipHeal \/ HealDecided \/ CdFails
    BY <1>7 DEF SkipHeal, HealDecided, DecideHeal, DecideHealUnread, CdFails, Trouble
  <1>8. CASE Kill \/ KillFails
    BY <1>8 DEF Kill, KillFails, Killing
  <1>9. CASE Up \/ UpFails \/ HealNoted \/ StillDown
    BY <1>9 DEF Up, UpFails, HealNoted, NoteHeal, NoteHealFails, StillDown, ProbeFails, Trouble
  <1>10. CASE \E from \in {"public", "republic"} : PublicOk(from)
    BY <1>10 DEF PublicOk
  <1>11. CASE PublicFails("public", "republic") \/ PublicFails("republic", "rate")
    BY <1>11 DEF PublicFails, Trouble
  <1>12. CASE SkipDiag \/ DecideDiag \/ DecideDiagUnread
    BY <1>12 DEF SkipDiag, DecideDiag, DecideDiagUnread
  <1>13. CASE NoteDiag \/ NoteDiagFails
    BY <1>13 DEF NoteDiag, NoteDiagFails
  <1>14. CASE Log
    BY <1>14 DEF Log
  <1> QED
    BY <1>1, <1>2, <1>3, <1>4, <1>5, <1>6, <1>7, <1>8, <1>9, <1>10, <1>11, <1>12, <1>13, <1>14
    DEF WNext, World, Script, Heal, Diagnose

\* No diagnosis is younger than the file says.
LEMMA DiagKept ==
    ASSUME Numbers, Numbers', DiagInv, [WNext]_wvars
    PROVE  DiagInv'
  <1> USE OldestBounds DEF Numbers, DiagInv, Goto, ages, outside, lost, Capped, Unwritten
  <1>1. CASE UNCHANGED wvars
    BY <1>1 DEF wvars
  <1>2. CASE ApiFails \/ ApiReturns \/ TunnelFails \/ TunnelReturns
    BY <1>2 DEF ApiFails, ApiReturns, TunnelFails, TunnelReturns, Trouble
  <1>3. CASE Minute
    BY <1>3 DEF Minute, Older
  <1>4. CASE Cut
    BY <1>4 DEF Cut, Trouble
  <1>5. CASE Fire
    BY <1>5 DEF Fire
  <1>6. CASE Probe
    BY <1>6 DEF Probe, ProbeOk, ProbeFails, Trouble
  <1>7. CASE SkipHeal \/ HealDecided \/ CdFails
    BY <1>7 DEF SkipHeal, HealDecided, DecideHeal, DecideHealUnread, CdFails, Trouble
  <1>8. CASE Kill \/ KillFails
    BY <1>8 DEF Kill, KillFails, Killing
  <1>9. CASE Up \/ UpFails \/ HealNoted \/ StillDown
    BY <1>9 DEF Up, UpFails, HealNoted, NoteHeal, NoteHealFails, StillDown, ProbeFails, Trouble
  <1>10. CASE \E from \in {"public", "republic"} : PublicOk(from)
    BY <1>10 DEF PublicOk
  <1>11. CASE PublicFails("public", "republic") \/ PublicFails("republic", "rate")
    BY <1>11 DEF PublicFails, Trouble
  <1>12. CASE SkipDiag \/ DecideDiag \/ DecideDiagUnread
    BY <1>12 DEF SkipDiag, DecideDiag, DecideDiagUnread
  <1>13. CASE NoteDiag \/ NoteDiagFails
    BY <1>13 DEF NoteDiag, NoteDiagFails
  <1>14. CASE Log
    BY <1>14 DEF Log
  <1> QED
    BY <1>1, <1>2, <1>3, <1>4, <1>5, <1>6, <1>7, <1>8, <1>9, <1>10, <1>11, <1>12, <1>13, <1>14
    DEF WNext, World, Script, Heal, Diagnose

\* Layer 2 is reached through a good probe only.
LEMMA ClaimKept ==
    ASSUME ClaimInv, [WNext]_wvars
    PROVE  ClaimInv'
  <1> USE OldestBounds DEF ClaimInv, Goto, ages, outside, lost
  <1>1. CASE UNCHANGED wvars
    BY <1>1 DEF wvars
  <1>2. CASE ApiFails \/ ApiReturns \/ TunnelFails \/ TunnelReturns
    BY <1>2 DEF ApiFails, ApiReturns, TunnelFails, TunnelReturns, Trouble
  <1>3. CASE Minute
    BY <1>3 DEF Minute, Older
  <1>4. CASE Cut
    BY <1>4 DEF Cut, Trouble
  <1>5. CASE Fire
    BY <1>5 DEF Fire
  <1>6. CASE Probe
    BY <1>6 DEF Probe, ProbeOk, ProbeFails, Trouble
  <1>7. CASE SkipHeal \/ HealDecided \/ CdFails
    BY <1>7 DEF SkipHeal, HealDecided, DecideHeal, DecideHealUnread, CdFails, Trouble
  <1>8. CASE Kill \/ KillFails
    BY <1>8 DEF Kill, KillFails, Killing
  <1>9. CASE Up \/ UpFails \/ HealNoted \/ StillDown
    BY <1>9 DEF Up, UpFails, HealNoted, NoteHeal, NoteHealFails, StillDown, ProbeFails, Trouble
  <1>10. CASE \E from \in {"public", "republic"} : PublicOk(from)
    BY <1>10 DEF PublicOk
  <1>11. CASE PublicFails("public", "republic") \/ PublicFails("republic", "rate")
    BY <1>11 DEF PublicFails, Trouble
  <1>12. CASE SkipDiag \/ DecideDiag \/ DecideDiagUnread
    BY <1>12 DEF SkipDiag, DecideDiag, DecideDiagUnread
  <1>13. CASE NoteDiag \/ NoteDiagFails
    BY <1>13 DEF NoteDiag, NoteDiagFails
  <1>14. CASE Log
    BY <1>14 DEF Log
  <1> QED
    BY <1>1, <1>2, <1>3, <1>4, <1>5, <1>6, <1>7, <1>8, <1>9, <1>10, <1>11, <1>12, <1>13, <1>14
    DEF WNext, World, Script, Heal, Diagnose

\* Every step of the script, and of the world around it, keeps WInv.
LEMMA WNextInv ==
    ASSUME WInv, [WNext]_wvars
    PROVE  WInv'
  BY NumbersKept, HealKept, DiagKept, ClaimKept DEF WInv

\* A restart is decided only when the last one the file tells of is old enough.
LEMMA HealStep ==
    ASSUME WInv, [WNext]_wvars, pc = "decide", pc' = "cd"
    PROVE  sinceHeal >= Cooldown \/ unwritten'
  <1>1. (healAge >= Cooldown /\ unwritten' = unwritten) \/ unwritten'
    BY DEF lost, WNext, World, Script, Probe, Heal, Diagnose, wvars, Goto, ApiFails, ApiReturns,
           TunnelFails, TunnelReturns, Minute, Cut, Fire, ProbeOk, ProbeFails, SkipHeal, HealDecided, DecideHeal,
           DecideHealUnread, CdFails, Kill, KillFails, Killing, Up, UpFails, HealNoted, NoteHeal,
           NoteHealFails, StillDown, PublicOk, PublicFails, SkipDiag, DecideDiag, DecideDiagUnread,
           NoteDiag, NoteDiagFails, Log
  <1> QED
    BY <1>1 DEF WInv, HealInv, Capped

\* A diagnosis is decided only when the last one the file tells of is old enough.
LEMMA DiagStep ==
    ASSUME WInv, [WNext]_wvars, pc = "rate", pc' = "note_diag"
    PROVE  sinceDiag >= DiagCooldown \/ unsaved'
  <1>1. (diagAge >= DiagCooldown /\ unsaved' = unsaved) \/ unsaved'
    BY DEF lost, WNext, World, Script, Probe, Heal, Diagnose, wvars, Goto, ApiFails, ApiReturns,
           TunnelFails, TunnelReturns, Minute, Cut, Fire, ProbeOk, ProbeFails, SkipHeal, HealDecided, DecideHeal,
           DecideHealUnread, CdFails, Kill, KillFails, Killing, Up, UpFails, HealNoted, NoteHeal,
           NoteHealFails, StillDown, PublicOk, PublicFails, SkipDiag, DecideDiag, DecideDiagUnread,
           NoteDiag, NoteDiagFails, Log
  <1> QED
    BY <1>1, OldestBounds DEF WInv, Numbers, DiagInv, Capped

(***************************************************************************)
(* The pipe script                                                         *)
(***************************************************************************)

Row(m, k) == rows[<<m, k>>]
Late(m, k) == late[<<m, k>>]

\* The script's variables fit together, and the capture is there first.
CaptureFirst(m) ==
    /\ mail[m] = "running" <=> pipe[m] # "none"
    /\ post[m] = "none" <=> pipe[m] = "none"
    /\ post[m] = "committed" => Row(m, pipe[m]) > 0
    /\ pipe[m] = "report" \/ mail[m] = "delivered" => Row(m, "capture") > 0
    /\ Row(m, "report") + Late(m, "report") > 0 => Row(m, "capture") > 0

\* What is stored of a message whose script never ended in doubt.
Undoubted(m) ==
    /\ mail[m] \in {"queued", "bounced"} =>
          \A k \in Pipe!Kinds : Row(m, k) = 0 /\ Late(m, k) = 0
    /\ pipe[m] = "capture" =>
          /\ Row(m, "report") = 0 /\ Late(m, "report") = 0 /\ Late(m, "capture") = 0
          /\ Row(m, "capture") = IF post[m] = "committed" THEN 1 ELSE 0
    /\ pipe[m] = "report" \/ mail[m] = "delivered" =>
          /\ Row(m, "capture") = 1 /\ Late(m, "capture") = 0
          /\ Row(m, "report") + Late(m, "report") <= 1
    /\ pipe[m] = "report" /\ post[m] = "sent" =>
          Row(m, "report") = 0 /\ Late(m, "report") = 0
    /\ pipe[m] = "report" /\ post[m] = "committed" => Late(m, "report") = 0

StoreInv ==
    \A m \in Messages : CaptureFirst(m) /\ (m \in doubted \/ Undoubted(m))

PipeInv == Pipe!PTypeOK /\ StoreInv

\* The two parts of what holds of a message, and that it holds of all.
Fits(m) == CaptureFirst(m) /\ (m \in doubted \/ Undoubted(m))

\* The initial state has nothing stored and no script at work.
LEMMA PipeInitInv == Pipe!PInit => PipeInv
  <1> SUFFICES ASSUME Pipe!PInit PROVE PipeInv
    OBVIOUS
  <1> USE DEF Pipe!PInit, Pipe!Payloads, Pipe!Kinds
  <1>1. Pipe!PTypeOK
    BY RecoveryAssumption DEF Pipe!PTypeOK
  <1>2. ASSUME NEW m \in Messages PROVE CaptureFirst(m) /\ Undoubted(m)
    BY DEF CaptureFirst, Undoubted, Row, Late
  <1> QED
    BY <1>1, <1>2 DEF PipeInv, StoreInv

\* One more of a payload, in rows or in late.
LEMMA OneMore ==
    ASSUME NEW f \in [Pipe!Payloads -> Nat], NEW p \in Pipe!Payloads
    PROVE  LET g == [f EXCEPT ![p] = f[p] + 1] IN
           /\ g \in [Pipe!Payloads -> Nat]
           /\ \A q \in Pipe!Payloads : g[q] = IF q = p THEN f[q] + 1 ELSE f[q]
  <1>1. f[p] + 1 \in Nat
    OBVIOUS
  <1> QED
    BY <1>1

\* The payload a script is at.
LEMMA Current ==
    ASSUME PipeInv, NEW m \in Messages, pipe[m] # "none"
    PROVE  <<m, pipe[m]>> \in Pipe!Payloads
  BY DEF PipeInv, Pipe!PTypeOK, Pipe!Payloads, Pipe!Kinds

\* A request in progress is that of a script at work.
LEMMA Busy ==
    ASSUME PipeInv, NEW m \in Messages, post[m] # "none"
    PROVE  pipe[m] # "none"
  BY DEF PipeInv, StoreInv, CaptureFirst

\* What Outlives does to late.
LEMMA OutlivesTypes ==
    ASSUME PipeInv, NEW m \in Messages, Pipe!Outlives(m)
    PROVE  /\ late' \in [Pipe!Payloads -> Nat]
           /\ \A q \in Pipe!Payloads :
                 late'[q] = IF post[m] = "sent" /\ q = <<m, pipe[m]>> THEN late[q] + 1 ELSE late[q]
  <1>1. late \in [Pipe!Payloads -> Nat]
    BY DEF PipeInv, Pipe!PTypeOK
  <1>2. CASE post[m] = "sent"
    <2> DEFINE p == <<m, pipe[m]>>
    <2>1. p \in Pipe!Payloads
      BY <1>2, Busy, Current
    <2>2. late' = [late EXCEPT ![p] = late[p] + 1]
      BY <1>2 DEF Pipe!Outlives
    <2> HIDE DEF p
    <2>3. late' \in [Pipe!Payloads -> Nat] /\ \A q \in Pipe!Payloads : late'[q] = IF q = p THEN late[q] + 1 ELSE late[q]
      BY <1>1, <2>1, <2>2, OneMore
    <2> QED
      BY <1>2, <2>3 DEF p
  <1>3. CASE post[m] # "sent"
    BY <1>1, <1>3 DEF Pipe!Outlives
  <1> QED
    BY <1>2, <1>3

\* What Commit does to rows.
LEMMA CommitTypes ==
    ASSUME PipeInv, NEW m \in Messages, Pipe!Commit(m)
    PROVE  /\ rows' \in [Pipe!Payloads -> Nat]
           /\ \A q \in Pipe!Payloads : rows'[q] = IF q = <<m, pipe[m]>> THEN rows[q] + 1 ELSE rows[q]
  <1> DEFINE p == <<m, pipe[m]>>
  <1>1. rows \in [Pipe!Payloads -> Nat]
    BY DEF PipeInv, Pipe!PTypeOK
  <1>2. p \in Pipe!Payloads
    BY Busy, Current DEF Pipe!Commit
  <1>3. rows' = [rows EXCEPT ![p] = rows[p] + 1]
    BY DEF Pipe!Commit
  <1> HIDE DEF p
  <1>4. rows' \in [Pipe!Payloads -> Nat] /\ \A q \in Pipe!Payloads : rows'[q] = IF q = p THEN rows[q] + 1 ELSE rows[q]
    BY <1>1, <1>2, <1>3, OneMore
  <1> QED
    BY <1>4 DEF p

\* The variables keep their types.
LEMMA PipeTypes ==
    ASSUME PipeInv, Pipe!PipeStep \/ Pipe!Broken
    PROVE  Pipe!PTypeOK'
  <1> USE RecoveryAssumption DEF PipeInv, Pipe!PTypeOK, Pipe!Payloads, Pipe!Kinds, Pipe!Exits, Pipe!Posts,
          Pipe!Outlives, Pipe!store
  <1>1. ASSUME NEW m \in Messages, Pipe!Deliver(m) PROVE Pipe!PTypeOK'
    <2>1. CASE Pipe!Run(m)
      BY <2>1 DEF Pipe!Run
    <2>2. CASE Pipe!Answered(m)
      BY <2>2 DEF Pipe!Answered
    <2>3. CASE Pipe!ReportFails(m)
      BY <2>3 DEF Pipe!ReportFails
    <2>4. CASE Pipe!CaptureFails(m)
      BY <2>4 DEF Pipe!CaptureFails
    <2> QED
      BY <1>1, <2>1, <2>2, <2>3, <2>4 DEF Pipe!Deliver
  <1>2. ASSUME NEW m \in Messages, Pipe!Serve(m) PROVE Pipe!PTypeOK'
    <2>1. CASE Pipe!Commit(m)
      BY <2>1, CommitTypes DEF Pipe!Commit
    <2>2. CASE Pipe!Refuse(m)
      BY <2>2 DEF Pipe!Refuse
    <2> QED
      BY <1>2, <2>1, <2>2 DEF Pipe!Serve
  <1>3. ASSUME NEW m \in Messages, Pipe!LoseAnswer(m) PROVE Pipe!PTypeOK'
    <2>1. late' \in [Pipe!Payloads -> Nat]
      BY <1>3, OutlivesTypes DEF Pipe!LoseAnswer
    <2> QED
      BY <1>3, <2>1 DEF Pipe!LoseAnswer
  <1>4. ASSUME NEW m \in Messages, Pipe!Killed(m) PROVE Pipe!PTypeOK'
    BY <1>4 DEF Pipe!Killed
  <1>5. ASSUME NEW p \in Pipe!Payloads, Pipe!LateCommit(p) PROVE Pipe!PTypeOK'
    BY <1>5 DEF Pipe!LateCommit
  <1>6. CASE Pipe!Broken
    BY <1>6 DEF Pipe!Broken
  <1> QED
    BY <1>1, <1>2, <1>3, <1>4, <1>5, <1>6 DEF Pipe!PipeStep

\* A step leaves a message alone that it neither moves nor stores anything of.
LEMMA FitsElsewhere ==
    ASSUME PipeInv, NEW n \in Messages, doubted \subseteq doubted',
           mail'[n] = mail[n], pipe'[n] = pipe[n], post'[n] = post[n],
           \A k \in Pipe!Kinds : Row(n, k)' = Row(n, k) /\ Late(n, k)' = Late(n, k)
    PROVE  Fits(n)'
  <1>1. pipe[n] \in {"none", "capture", "report"}
    BY DEF PipeInv, Pipe!PTypeOK
  <1>2. CaptureFirst(n) /\ (n \in doubted \/ Undoubted(n))
    BY DEF PipeInv, StoreInv
  <1>3. CaptureFirst(n)'
    BY <1>1, <1>2 DEF CaptureFirst, Pipe!Kinds
  <1>4. ASSUME Undoubted(n) PROVE Undoubted(n)'
    BY <1>4 DEF Undoubted, Pipe!Kinds
  <1> QED
    BY <1>2, <1>3, <1>4 DEF Fits

\* What the script and its request do to their own message.
LEMMA RunFits ==
    ASSUME PipeInv, NEW m \in Messages, Pipe!Run(m)
    PROVE  Fits(m)'
  BY DEF PipeInv, StoreInv, Fits, CaptureFirst, Undoubted, Row, Late, Pipe!PTypeOK, Pipe!Payloads,
         Pipe!Kinds, Pipe!Run, Pipe!Posts, Pipe!store

LEMMA AnsweredFits ==
    ASSUME PipeInv, NEW m \in Messages, Pipe!Answered(m)
    PROVE  Fits(m)'
  BY DEF PipeInv, StoreInv, Fits, CaptureFirst, Undoubted, Row, Late, Pipe!PTypeOK, Pipe!Payloads,
         Pipe!Kinds, Pipe!Answered, Pipe!Posts, Pipe!Exits, Pipe!store

LEMMA ReportFailsFits ==
    ASSUME PipeInv, NEW m \in Messages, Pipe!ReportFails(m)
    PROVE  Fits(m)'
  BY DEF PipeInv, StoreInv, Fits, CaptureFirst, Undoubted, Row, Late, Pipe!PTypeOK, Pipe!Payloads,
         Pipe!Kinds, Pipe!ReportFails, Pipe!Exits, Pipe!store

LEMMA CaptureFailsFits ==
    ASSUME PipeInv, NEW m \in Messages, Pipe!CaptureFails(m)
    PROVE  Fits(m)'
  BY RecoveryAssumption DEF PipeInv, StoreInv, Fits, CaptureFirst, Undoubted, Row, Late, Pipe!PTypeOK,
         Pipe!Payloads, Pipe!Kinds, Pipe!CaptureFails, Pipe!Exits, Pipe!store

LEMMA RefuseFits ==
    ASSUME PipeInv, NEW m \in Messages, Pipe!Refuse(m)
    PROVE  Fits(m)'
  BY DEF PipeInv, StoreInv, Fits, CaptureFirst, Undoubted, Row, Late, Pipe!PTypeOK, Pipe!Payloads,
         Pipe!Kinds, Pipe!Refuse, Pipe!store

LEMMA CommitFits ==
    ASSUME PipeInv, NEW m \in Messages, Pipe!Commit(m)
    PROVE  Fits(m)'
  <1>1. PICK k \in Pipe!Kinds : pipe[m] = k
    BY Busy DEF PipeInv, Pipe!PTypeOK, Pipe!Kinds, Pipe!Commit
  <1>2. /\ Row(m, "capture")' = IF k = "capture" THEN Row(m, "capture") + 1 ELSE Row(m, "capture")
        /\ Row(m, "report")' = IF k = "report" THEN Row(m, "report") + 1 ELSE Row(m, "report")
    BY <1>1, CommitTypes DEF Row, Pipe!Payloads, Pipe!Kinds
  <1>3. \A j : Late(m, j)' = Late(m, j)
    BY DEF Late, Pipe!Commit
  <1>4. \A j \in Pipe!Kinds : Row(m, j) \in Nat /\ Late(m, j) \in Nat
    BY DEF Row, Late, PipeInv, Pipe!PTypeOK, Pipe!Payloads
  <1>5. /\ mail'[m] = mail[m] /\ pipe'[m] = k /\ post'[m] = "committed" /\ doubted' = doubted
        /\ post[m] = "sent"
    BY <1>1 DEF Pipe!Commit, PipeInv, Pipe!PTypeOK
  <1>6. CaptureFirst(m) /\ (m \in doubted \/ Undoubted(m))
    BY DEF PipeInv, StoreInv
  <1>7. CaptureFirst(m)'
    BY <1>1, <1>2, <1>3, <1>4, <1>5, <1>6 DEF CaptureFirst, Pipe!Kinds
  <1>8. ASSUME Undoubted(m) PROVE Undoubted(m)'
    BY <1>1, <1>2, <1>3, <1>4, <1>5, <1>6, <1>8 DEF Undoubted, CaptureFirst, Pipe!Kinds
  <1> QED
    BY <1>5, <1>6, <1>7, <1>8 DEF Fits

LEMMA LoseAnswerFits ==
    ASSUME PipeInv, NEW m \in Messages, Pipe!LoseAnswer(m)
    PROVE  Fits(m)'
  <1>1. PICK k \in Pipe!Kinds : pipe[m] = k
    BY Busy DEF PipeInv, Pipe!PTypeOK, Pipe!Kinds, Pipe!LoseAnswer
  <1>2. \A j \in Pipe!Kinds :
            Late(m, j)' = IF post[m] = "sent" /\ j = k THEN Late(m, j) + 1 ELSE Late(m, j)
    BY <1>1, OutlivesTypes DEF Late, Pipe!Payloads, Pipe!Kinds, Pipe!LoseAnswer
  <1>3. \A j : Row(m, j)' = Row(m, j)
    BY DEF Row, Pipe!LoseAnswer
  <1>4. \A j \in Pipe!Kinds : Row(m, j) \in Nat /\ Late(m, j) \in Nat
    BY DEF Row, Late, PipeInv, Pipe!PTypeOK, Pipe!Payloads
  <1>5. /\ mail'[m] = mail[m] /\ pipe'[m] = k /\ post'[m] = "failed"
        /\ post[m] \in {"sent", "committed"}
        /\ doubted' = IF k = "capture" THEN doubted \cup {m} ELSE doubted
    BY <1>1 DEF Pipe!LoseAnswer, PipeInv, Pipe!PTypeOK
  <1>6. CaptureFirst(m) /\ (m \in doubted \/ Undoubted(m))
    BY DEF PipeInv, StoreInv
  <1>7. CaptureFirst(m)'
    BY <1>1, <1>2, <1>3, <1>4, <1>5, <1>6 DEF CaptureFirst, Pipe!Kinds
  <1>8. CASE k = "report" /\ Undoubted(m)
    <2>1. Undoubted(m)'
      BY <1>1, <1>2, <1>3, <1>4, <1>5, <1>6, <1>8 DEF Undoubted, CaptureFirst, Pipe!Kinds
    <2> QED
      BY <1>7, <2>1 DEF Fits
  <1> QED
    BY <1>5, <1>6, <1>7, <1>8 DEF Fits, Pipe!Kinds

LEMMA KilledFits ==
    ASSUME PipeInv, NEW m \in Messages, Pipe!Killed(m)
    PROVE  Fits(m)'
  <1>1. PICK k \in Pipe!Kinds : pipe[m] = k
    BY DEF PipeInv, Pipe!PTypeOK, Pipe!Kinds, Pipe!Killed
  <1>2. \A j \in Pipe!Kinds :
            Late(m, j)' = IF post[m] = "sent" /\ j = k THEN Late(m, j) + 1 ELSE Late(m, j)
    BY <1>1, OutlivesTypes DEF Late, Pipe!Payloads, Pipe!Kinds, Pipe!Killed
  <1>3. \A j : Row(m, j)' = Row(m, j)
    BY DEF Row, Pipe!Killed
  <1>4. \A j \in Pipe!Kinds : Row(m, j) \in Nat /\ Late(m, j) \in Nat
    BY DEF Row, Late, PipeInv, Pipe!PTypeOK, Pipe!Payloads
  <1>5. /\ mail'[m] \in {"queued", "bounced"} /\ pipe'[m] = "none" /\ post'[m] = "none"
        /\ m \in doubted'
    BY RecoveryAssumption DEF Pipe!Killed, Pipe!Exits, PipeInv, Pipe!PTypeOK
  <1>6. CaptureFirst(m)
    BY DEF PipeInv, StoreInv
  <1>7. CaptureFirst(m)'
    BY <1>1, <1>2, <1>3, <1>4, <1>5, <1>6 DEF CaptureFirst, Pipe!Kinds
  <1> QED
    BY <1>5, <1>7 DEF Fits

LEMMA LateCommitFits ==
    ASSUME PipeInv, NEW m \in Messages, NEW p \in Pipe!Payloads, Pipe!LateCommit(p)
    PROVE  Fits(m)'
  <1>1. \A j \in Pipe!Kinds :
            /\ Row(m, j)' = IF p = <<m, j>> THEN Row(m, j) + 1 ELSE Row(m, j)
            /\ Late(m, j)' = IF p = <<m, j>> THEN Late(m, j) - 1 ELSE Late(m, j)
            /\ p = <<m, j>> => Late(m, j) > 0
    BY DEF Pipe!LateCommit, Row, Late, PipeInv, Pipe!PTypeOK, Pipe!Payloads, Pipe!Kinds
  <1>2. \A j \in Pipe!Kinds : Row(m, j) \in Nat /\ Late(m, j) \in Nat
    BY DEF Row, Late, PipeInv, Pipe!PTypeOK, Pipe!Payloads
  <1>3. /\ mail'[m] = mail[m] /\ pipe'[m] = pipe[m] /\ post'[m] = post[m] /\ doubted' = doubted
        /\ pipe[m] \in {"none", "capture", "report"}
    BY DEF Pipe!LateCommit, PipeInv, Pipe!PTypeOK
  <1>4. CaptureFirst(m) /\ (m \in doubted \/ Undoubted(m))
    BY DEF PipeInv, StoreInv
  <1>5. CaptureFirst(m)'
    BY <1>1, <1>2, <1>3, <1>4 DEF CaptureFirst, Pipe!Kinds
  <1>6. ASSUME Undoubted(m) PROVE Undoubted(m)'
    BY <1>1, <1>2, <1>3, <1>4, <1>6 DEF Undoubted, CaptureFirst, Pipe!Kinds
  <1> QED
    BY <1>3, <1>4, <1>5, <1>6 DEF Fits

LEMMA BrokenFits ==
    ASSUME PipeInv, NEW m \in Messages, Pipe!Broken
    PROVE  Fits(m)'
  <1>1. \A j \in Pipe!Kinds : Row(m, j)' = Row(m, j) /\ Late(m, j)' = 0
    BY DEF Pipe!Broken, Row, Late, Pipe!Payloads
  <1>2. \A j \in Pipe!Kinds : Row(m, j) \in Nat /\ Late(m, j) \in Nat
    BY DEF Row, Late, PipeInv, Pipe!PTypeOK, Pipe!Payloads
  <1>3. /\ mail'[m] = mail[m] /\ pipe'[m] = pipe[m] /\ doubted \subseteq doubted'
        /\ pipe[m] \in {"none", "capture", "report"}
        /\ \/ post[m] # "sent" /\ post'[m] = post[m]
           \/ post[m] = "sent" /\ post'[m] = "failed"
           \/ /\ post[m] = "committed" /\ post'[m] = "failed"
              /\ pipe[m] = "capture" => m \in doubted'
    BY DEF Pipe!Broken, PipeInv, Pipe!PTypeOK
  <1>4. CaptureFirst(m) /\ (m \in doubted \/ Undoubted(m))
    BY DEF PipeInv, StoreInv
  <1>5. CaptureFirst(m)'
    BY <1>1, <1>2, <1>3, <1>4 DEF CaptureFirst, Pipe!Kinds
  <1>6. ASSUME Undoubted(m), m \notin doubted' PROVE Undoubted(m)'
    BY <1>1, <1>2, <1>3, <1>4, <1>6 DEF Undoubted, CaptureFirst, Pipe!Kinds
  <1> QED
    BY <1>3, <1>4, <1>5, <1>6 DEF Fits

\* A step for m does not touch the other messages.
LEMMA OthersAlone ==
    ASSUME PipeInv, NEW m \in Messages, NEW n \in Messages, n # m,
           Pipe!Deliver(m) \/ Pipe!Serve(m) \/ Pipe!LoseAnswer(m) \/ Pipe!Killed(m)
    PROVE  Fits(n)'
  <1>1. doubted \subseteq doubted' /\ mail'[n] = mail[n] /\ pipe'[n] = pipe[n] /\ post'[n] = post[n]
    BY DEF Pipe!Deliver, Pipe!Serve, Pipe!Run, Pipe!Answered, Pipe!ReportFails, Pipe!CaptureFails,
           Pipe!Commit, Pipe!Refuse, Pipe!LoseAnswer, Pipe!Killed, Pipe!Posts, Pipe!Exits, PipeInv,
           Pipe!PTypeOK
  <1>2. \A k \in Pipe!Kinds : Row(n, k)' = Row(n, k)
    <2>1. CASE Pipe!Commit(m)
      BY <2>1, CommitTypes DEF Row, Pipe!Payloads
    <2>2. CASE ~Pipe!Commit(m)
      BY <2>2 DEF Row, Pipe!Deliver, Pipe!Serve, Pipe!Run, Pipe!Answered, Pipe!ReportFails,
                  Pipe!CaptureFails, Pipe!Refuse, Pipe!LoseAnswer, Pipe!Killed, Pipe!store
    <2> QED
      BY <2>1, <2>2
  <1>3. \A k \in Pipe!Kinds : Late(n, k)' = Late(n, k)
    <2>1. CASE Pipe!Outlives(m)
      BY <2>1, OutlivesTypes DEF Late, Pipe!Payloads
    <2>2. CASE ~Pipe!Outlives(m)
      BY <2>2 DEF Late, Pipe!Deliver, Pipe!Serve, Pipe!Run, Pipe!Answered, Pipe!ReportFails,
                  Pipe!CaptureFails, Pipe!Commit, Pipe!Refuse, Pipe!LoseAnswer, Pipe!Killed, Pipe!store
    <2> QED
      BY <2>1, <2>2
  <1> QED
    BY <1>1, <1>2, <1>3, FitsElsewhere

\* Every step of the script, the API and the end of its process keeps PipeInv.
LEMMA PipeStepInv ==
    ASSUME PipeInv, [Pipe!PipeStep \/ Pipe!Broken]_pvars
    PROVE  PipeInv'
  <1>1. CASE UNCHANGED pvars
    BY <1>1 DEF pvars, PipeInv, Pipe!PTypeOK, StoreInv, CaptureFirst, Undoubted, Row, Late
  <1>2. CASE Pipe!PipeStep \/ Pipe!Broken
    <2>1. Pipe!PTypeOK'
      BY <1>2, PipeTypes
    <2>2. ASSUME NEW n \in Messages PROVE Fits(n)'
      <3>1. CASE Pipe!Broken
        BY <3>1, BrokenFits
      <3>2. CASE \E p \in Pipe!Payloads : Pipe!LateCommit(p)
        BY <3>2, LateCommitFits
      <3>3. ASSUME NEW m \in Messages,
                   Pipe!Deliver(m) \/ Pipe!Serve(m) \/ Pipe!LoseAnswer(m) \/ Pipe!Killed(m)
            PROVE  Fits(n)'
        <4>1. CASE n = m
          BY <3>3, <4>1, RunFits, AnsweredFits, ReportFailsFits, CaptureFailsFits, RefuseFits, CommitFits,
             LoseAnswerFits, KilledFits DEF Pipe!Deliver, Pipe!Serve
        <4>2. CASE n # m
          BY <3>3, <4>2, OthersAlone
        <4> QED
          BY <4>1, <4>2
      <3> QED
        BY <1>2, <3>1, <3>2, <3>3 DEF Pipe!PipeStep
    <2> QED
      BY <2>1, <2>2 DEF PipeInv, StoreInv, Fits
  <1> QED
    BY <1>1, <1>2

\* PipeInv is what the pipe script promises.
LEMMA PipeInvImplies == PipeInv => DeliveredIsStored /\ TwiceNeedsDoubt
  <1> SUFFICES ASSUME PipeInv, NEW m \in Messages
               PROVE  /\ mail[m] = "delivered" \/ rows[<<m, "report">>] + late[<<m, "report">>] > 0
                           => rows[<<m, "capture">>] > 0
                      /\ m \notin doubted =>
                           /\ \A k \in Pipe!Kinds : rows[<<m, k>>] <= 1
                           /\ mail[m] \in {"queued", "bounced"} =>
                                 \A k \in Pipe!Kinds : rows[<<m, k>>] = 0 /\ late[<<m, k>>] = 0
    BY DEF DeliveredIsStored, TwiceNeedsDoubt, Pipe!DeliveredIsStored, Pipe!TwiceNeedsDoubt
  <1>1. CaptureFirst(m) /\ (m \in doubted \/ Undoubted(m))
    BY DEF PipeInv, StoreInv
  <1>2. \A k \in Pipe!Kinds : Row(m, k) \in Nat /\ Late(m, k) \in Nat
    BY DEF Row, Late, PipeInv, Pipe!PTypeOK, Pipe!Payloads
  <1>3. mail[m] \in {"queued", "running", "delivered", "bounced"} /\ pipe[m] \in {"none", "capture", "report"}
    BY DEF PipeInv, Pipe!PTypeOK
  <1>4. mail[m] = "delivered" \/ Row(m, "report") + Late(m, "report") > 0 => Row(m, "capture") > 0
    BY <1>1 DEF CaptureFirst
  <1>5. ASSUME m \notin doubted
        PROVE  /\ \A k \in Pipe!Kinds : Row(m, k) <= 1
               /\ mail[m] \in {"queued", "bounced"} =>
                     \A k \in Pipe!Kinds : Row(m, k) = 0 /\ Late(m, k) = 0
    BY <1>1, <1>2, <1>3, <1>5 DEF CaptureFirst, Undoubted, Pipe!Kinds
  <1> QED
    BY <1>4, <1>5 DEF Row, Late

(***************************************************************************)
(* Together                                                                *)
(***************************************************************************)

\* A step of Recovery is a step of the watchdog and its world, or leaves them
\* alone.
LEMMA WatchdogMoves ==
    ASSUME [Next]_vars
    PROVE  [WNext]_wvars
  <1>1. CASE Watch
    BY <1>1 DEF Watch, KillApi, WNext, Script, Heal
  <1>2. CASE ApiGone
    BY <1>2 DEF ApiGone, WNext, World
  <1>3. CASE Quiet(ApiReturns \/ TunnelFails \/ TunnelReturns \/ Minute \/ Cut \/ Fire)
    BY <1>3 DEF Quiet, WNext, World
  <1>4. CASE Pipe!PipeStep /\ UNCHANGED wvars
    BY <1>4
  <1>5. CASE UNCHANGED vars
    BY <1>5 DEF vars
  <1> QED
    BY <1>1, <1>2, <1>3, <1>4, <1>5 DEF Next

\* And it is a step of the pipe script and the API, or leaves them alone.
LEMMA PipeMoves ==
    ASSUME [Next]_vars
    PROVE  [Pipe!PipeStep \/ Pipe!Broken]_pvars
  <1>1. CASE Watch
    BY <1>1 DEF Watch, KillApi
  <1>2. CASE ApiGone
    BY <1>2 DEF ApiGone
  <1>3. CASE Quiet(ApiReturns \/ TunnelFails \/ TunnelReturns \/ Minute \/ Cut \/ Fire)
    BY <1>3 DEF Quiet
  <1>4. CASE Pipe!PipeStep /\ UNCHANGED wvars
    BY <1>4
  <1>5. CASE UNCHANGED vars
    BY <1>5 DEF vars
  <1> QED
    BY <1>1, <1>2, <1>3, <1>4, <1>5 DEF Next

\* Both invariants hold in every state.
LEMMA RecoveryInv == Spec => [](WInv /\ Flags /\ PipeInv)
  <1>1. Init => WInv /\ Flags /\ PipeInv
    BY WInitInv, PipeInitInv DEF Init
  <1>2. WInv /\ Flags /\ PipeInv /\ [Next]_vars => (WInv /\ Flags /\ PipeInv)'
    BY WatchdogMoves, PipeMoves, WNextInv, FlagsKept, PipeStepInv
  <1> QED
    BY <1>1, <1>2, PTL DEF Spec

\* Every variable of the watchdog and of the pipe script keeps its type: the
\* ages stay at their limits, the commits are counted.
THEOREM RecoveryTypeCorrect == Spec => [](WTypeOK /\ Pipe!PTypeOK)
  <1>1. WInv /\ Flags /\ PipeInv => WTypeOK /\ Pipe!PTypeOK
    BY Zenon DEF WInv, Flags, Numbers, PipeInv, WTypeOK
  <1> QED
    BY <1>1, RecoveryInv, PTL

\* Every diagnosis that blames the tunnel or the VPS follows a good probe of
\* the local API in the same run.
THEOREM DiagnosisIsTrue == Spec => []DiagnosisTrue
  <1>1. WInv => DiagnosisTrue
    BY DEF WInv, ClaimInv, DiagnosisTrue
  <1> QED
    BY <1>1, RecoveryInv, PTL

\* Restarts keep the cooldown between their decisions, unless the file does not
\* tell of the last: the run was killed before its note, the note could not be
\* written, or not be read.
THEOREM HealsAreSpaced == Spec => HealsSpaced
  <1>1. WInv /\ [Next]_vars => [pc = "decide" /\ pc' = "cd" => sinceHeal >= Cooldown \/ unwritten']_wvars
    BY WatchdogMoves, HealStep
  <1> QED
    BY <1>1, RecoveryInv, PTL DEF Spec, HealsSpaced

\* Diagnoses keep theirs, killed runs included, unless the note of the last could
\* not be written or read.
THEOREM DiagsAreSpaced == Spec => DiagsSpaced
  <1>1. WInv /\ [Next]_vars => [pc = "rate" /\ pc' = "note_diag" => sinceDiag >= DiagCooldown \/ unsaved']_wvars
    BY WatchdogMoves, DiagStep
  <1> QED
    BY <1>1, RecoveryInv, PTL DEF Spec, DiagsSpaced

\* Exit 0 is only for a mail whose capture is stored, and the report comes
\* after the capture, whatever is lost or killed and whenever the API restarts.
THEOREM DeliveredMailIsStored == Spec => []DeliveredIsStored
  BY RecoveryInv, PipeInvImplies, PTL

\* A mail is stored at most once, and not bounced when it is, unless a script
\* ended in doubt about it.
THEOREM StoredOnceWithoutDoubt == Spec => []TwiceNeedsDoubt
  BY RecoveryInv, PipeInvImplies, PTL

(***************************************************************************)
(* The abstract specification                                              *)
(***************************************************************************)

\* A step of the ideal, or none.
IdealStep == Ideal!Next \/ UNCHANGED <<Promise, Custody>>

\* What one mail has become to Postfix, and where it is stored.
LEMMA PromiseOf ==
    ASSUME NEW m \in Messages
    PROVE  /\ mail[m] = "delivered" => Promise[m] = "acked"
           /\ mail[m] = "bounced" => Promise[m] = "bounced"
           /\ mail[m] \notin {"delivered", "bounced"} => Promise[m] = "open"
           /\ mail'[m] = "delivered" => Promise'[m] = "acked"
           /\ mail'[m] = "bounced" => Promise'[m] = "bounced"
           /\ mail'[m] \notin {"delivered", "bounced"} => Promise'[m] = "open"
           /\ Row(m, "capture") > 0 <=> Custody[m] = "stored"
           /\ ~(Row(m, "capture") > 0) <=> Custody[m] = "none"
  BY DEF Promise, Custody, Row

\* A script that ends tells one mail's fate: an ack needs the capture.
LEMMA ExitIsIdeal ==
    ASSUME PipeInv, NEW m \in Messages, pipe[m] # "none", rows' = rows,
           NEW r \in {"queued", "delivered", "bounced"}, Pipe!Exits(m, r),
           r = "delivered" => Row(m, "capture") > 0
    PROVE  IdealStep
  <1>1. mail \in [Messages -> {"queued", "running", "delivered", "bounced"}]
    BY DEF PipeInv, Pipe!PTypeOK
  <1>2. mail[m] = "running"
    BY DEF PipeInv, StoreInv, CaptureFirst
  <1>3. mail' = [mail EXCEPT ![m] = r] /\ Custody' = Custody
    BY DEF Pipe!Exits, Custody
  <1>4. \A n \in Messages \ {m} : mail'[n] = mail[n]
    BY <1>1, <1>3
  <1>5. \A n \in Messages \ {m} : Promise'[n] = Promise[n]
    BY <1>4 DEF Promise
  <1>6. Promise[m] = "open" /\ mail'[m] = r
    BY <1>1, <1>2, <1>3, PromiseOf
  <1>7. \A v : Promise'[m] = v => Promise' = [Promise EXCEPT ![m] = v]
    BY <1>5 DEF Promise
  <1>8. CASE r = "delivered"
    <2>1. Promise' = [Promise EXCEPT ![m] = "acked"] /\ Custody[m] # "none"
      BY <1>6, <1>7, <1>8, PromiseOf
    <2> QED
      BY <1>3, <1>6, <2>1 DEF IdealStep, Ideal!Next, Ideal!Ack
  <1>9. CASE r = "bounced"
    <2>1. Promise' = [Promise EXCEPT ![m] = "bounced"]
      BY <1>6, <1>7, <1>9, PromiseOf
    <2> QED
      BY <1>3, <1>6, <2>1 DEF IdealStep, Ideal!Next, Ideal!Bounce
  <1>10. CASE r = "queued"
    <2>1. Promise'[m] = "open"
      BY <1>6, <1>10, PromiseOf
    <2>2. \A n \in Messages : Promise'[n] = Promise[n]
      BY <1>5, <1>6, <2>1
    <2> QED
      BY <1>3, <2>2 DEF IdealStep, Promise
  <1> QED
    BY <1>8, <1>9, <1>10

\* A commit, in time or late, stores its mail when it is of a capture.
LEMMA CommitStores ==
    ASSUME PipeInv, NEW m \in Messages, NEW k \in Pipe!Kinds, mail' = mail,
           \A q \in Pipe!Payloads : rows'[q] = IF q = <<m, k>> THEN rows[q] + 1 ELSE rows[q]
    PROVE  IdealStep
  <1>1. rows \in [Pipe!Payloads -> Nat]
    BY DEF PipeInv, Pipe!PTypeOK
  <1>2. \A n \in Messages : <<n, "capture">> \in Pipe!Payloads
    BY DEF Pipe!Payloads, Pipe!Kinds
  <1>3. Promise' = Promise
    BY DEF Promise
  <1>4. CASE k = "capture"
    <2>1. \A n \in Messages \ {m} : rows'[<<n, "capture">>] = rows[<<n, "capture">>]
      BY <1>2
    <2>2. rows'[<<m, "capture">>] > 0
      BY <1>1, <1>2, <1>4
    <2>3. Custody' = [Custody EXCEPT ![m] = "stored"]
      BY <2>1, <2>2 DEF Custody
    <2> QED
      BY <1>3, <2>3 DEF IdealStep, Ideal!Next, Ideal!Store
  <1>5. CASE k # "capture"
    <2>1. \A n \in Messages : rows'[<<n, "capture">>] = rows[<<n, "capture">>]
      BY <1>2, <1>5
    <2> QED
      BY <1>3, <2>1 DEF IdealStep, Custody
  <1> QED
    BY <1>4, <1>5

\* Every step of the script, the API and the end of its process is the ideal's.
LEMMA PipeStepIsIdeal ==
    ASSUME PipeInv, [Pipe!PipeStep \/ Pipe!Broken]_pvars
    PROVE  IdealStep
  <1>1. ASSUME rows' = rows, \A n \in Messages : Promise'[n] = Promise[n] PROVE IdealStep
    BY <1>1 DEF IdealStep, Promise, Custody
  <1>2. ASSUME rows' = rows, mail' = mail PROVE IdealStep
    BY <1>2 DEF IdealStep, Promise, Custody
  <1>3. ASSUME NEW m \in Messages, Pipe!Run(m) PROVE IdealStep
    <2>1. mail[m] = "queued" /\ mail' = [mail EXCEPT ![m] = "running"] /\ rows' = rows
      BY <1>3 DEF Pipe!Run, Pipe!store
    <2>2. mail \in [Messages -> {"queued", "running", "delivered", "bounced"}]
      BY DEF PipeInv, Pipe!PTypeOK
    <2>3. \A n \in Messages : Promise'[n] = Promise[n]
      BY <2>1, <2>2, PromiseOf
    <2> QED
      BY <1>1, <2>1, <2>3
  <1>4. ASSUME NEW m \in Messages, Pipe!Answered(m) PROVE IdealStep
    <2>1. post[m] = "committed" /\ pipe[m] \in {"capture", "report"} /\ rows' = rows
      BY <1>4, Busy DEF Pipe!Answered, Pipe!store, PipeInv, Pipe!PTypeOK
    <2>2. Row(m, "capture") > 0
      BY <2>1 DEF PipeInv, StoreInv, CaptureFirst
    <2>3. mail' = mail \/ Pipe!Exits(m, "delivered")
      BY <1>4 DEF Pipe!Answered
    <2> QED
      BY <1>2, <2>1, <2>2, <2>3, ExitIsIdeal
  <1>5. ASSUME NEW m \in Messages, Pipe!ReportFails(m) PROVE IdealStep
    <2>1. pipe[m] = "report" /\ rows' = rows /\ Pipe!Exits(m, "delivered")
      BY <1>5 DEF Pipe!ReportFails, Pipe!store
    <2>2. Row(m, "capture") > 0
      BY <2>1 DEF PipeInv, StoreInv, CaptureFirst
    <2> QED
      BY <2>1, <2>2, ExitIsIdeal
  <1>6. ASSUME NEW m \in Messages, Pipe!CaptureFails(m) \/ Pipe!Killed(m) PROVE IdealStep
    <2>1. pipe[m] # "none" /\ rows' = rows /\ \E r \in Reactions : Pipe!Exits(m, r)
      BY <1>6 DEF Pipe!CaptureFails, Pipe!Killed, Pipe!store
    <2>2. PICK r \in {"queued", "bounced"} : Pipe!Exits(m, r)
      BY <2>1, RecoveryAssumption
    <2> QED
      BY <2>1, <2>2, ExitIsIdeal
  <1>7. ASSUME NEW m \in Messages, Pipe!Commit(m) PROVE IdealStep
    <2>1. pipe[m] \in Pipe!Kinds /\ mail' = mail
      BY <1>7, Busy DEF Pipe!Commit, PipeInv, Pipe!PTypeOK, Pipe!Kinds
    <2> QED
      BY <1>7, <2>1, CommitTypes, CommitStores
  <1>8. ASSUME NEW p \in Pipe!Payloads, Pipe!LateCommit(p) PROVE IdealStep
    <2>1. PICK m \in Messages, k \in Pipe!Kinds : p = <<m, k>>
      BY DEF Pipe!Payloads
    <2>2. rows \in [Pipe!Payloads -> Nat] /\ rows' = [rows EXCEPT ![p] = rows[p] + 1] /\ mail' = mail
      BY <1>8 DEF Pipe!LateCommit, PipeInv, Pipe!PTypeOK
    <2>3. \A q \in Pipe!Payloads : rows'[q] = IF q = p THEN rows[q] + 1 ELSE rows[q]
      BY <2>2
    <2> QED
      BY <2>1, <2>2, <2>3, CommitStores
  <1>9. ASSUME NEW m \in Messages, Pipe!LoseAnswer(m) \/ Pipe!Refuse(m) PROVE IdealStep
    BY <1>2, <1>9 DEF Pipe!LoseAnswer, Pipe!Refuse, Pipe!store
  <1>10. CASE Pipe!Broken \/ UNCHANGED pvars
    BY <1>2, <1>10 DEF Pipe!Broken, pvars
  <1> QED
    BY <1>3, <1>4, <1>5, <1>6, <1>7, <1>8, <1>9, <1>10
       DEF Pipe!PipeStep, Pipe!Deliver, Pipe!Serve

\* The way through the pipe script implements Delivery: exit 0 hands a mail over
\* once, with its capture stored, whatever is lost, killed or restarted.
THEOREM PipeIsDelivery == Spec => PipeImplementsDelivery
  <1>1. Init => Ideal!Init
    <2> SUFFICES ASSUME Init PROVE Ideal!Init
      OBVIOUS
    <2>1. \A m \in Messages : mail[m] = "queued" /\ rows[<<m, "capture">>] = 0
      BY DEF Init, Pipe!PInit, Pipe!Payloads, Pipe!Kinds
    <2>2. ASSUME NEW m \in Messages PROVE Promise[m] = "open" /\ Custody[m] = "none"
      <3>1. mail[m] = "queued" /\ ~(Row(m, "capture") > 0)
        BY <2>1 DEF Row
      <3> QED
        BY <3>1, PromiseOf
    <2>3. Promise = [m \in Messages |-> "open"]
      BY <2>2, Zenon DEF Promise
    <2>4. Custody = [m \in Messages |-> "none"]
      BY <2>2, Zenon DEF Custody
    <2> QED
      BY <2>3, <2>4 DEF Ideal!Init
  <1>2. PipeInv /\ [Next]_vars => [Ideal!Next]_<<Promise, Custody>>
    BY PipeMoves, PipeStepIsIdeal DEF IdealStep
  <1> QED
    BY <1>1, <1>2, RecoveryInv, PTL DEF Spec, PipeImplementsDelivery, Ideal!Spec
=============================================================================
