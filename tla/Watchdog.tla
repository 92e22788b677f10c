------------------------------ MODULE Watchdog ------------------------------
(***************************************************************************)
(* The home watchdog (ops/home-watchdog/mailtest-watchdog.sh), a script a  *)
(* systemd timer starts again and again, never twice at once. Layer 1      *)
(* restarts the API's container when /health does not answer, layer 2 logs *)
(* a diagnosis when the public address does not. Two files keep the time   *)
(* of the last restart and of the last diagnosis across runs.              *)
(*                                                                         *)
(* Times are kept as ages, which stop growing where they stop to matter: a *)
(* file that is missing, empty or old has the age of the cooldown.         *)
(***************************************************************************)
EXTENDS Integers

CONSTANTS Cooldown,      \* COOLDOWN_SECONDS
          DiagCooldown,  \* PUBLIC_DIAG_COOLDOWN_SECONDS
          MaxTroubles    \* bound on outages, slow answers and runs cut short

ASSUME WatchdogAssumption ==
    /\ Cooldown \in Nat
    /\ DiagCooldown \in Nat
    /\ MaxTroubles \in Nat

VARIABLES api,        \* does the API answer: "up", "down"
          tunnel,     \* the way from the public address to it
          pc,         \* the script
          nowAge,     \* age of its variable now
          healAge,    \* age of the time in last-heal
          diagAge,    \* age of the time in last-public-diag
          troubles,   \* outages, slow answers, runs cut short
          sinceHeal,  \* history: age of the decision for the last restart
          sinceDiag,  \* history: age of the decision for the last diagnosis
          unwritten,  \* history: that restart is in no file, or the file could
                      \* not be read since
          unsaved,    \* history: the same of that diagnosis
          fell        \* history: the API has gone down since the run began, or
                      \* since its last good probe

wvars == <<api, tunnel, pc, nowAge, healAge, diagAge, troubles, sinceHeal, sinceDiag, unwritten, unsaved,
           fell>>
ages == <<nowAge, healAge, diagAge, sinceHeal, sinceDiag>>
outside == <<api, tunnel, troubles, fell>>
lost == <<unwritten, unsaved>>

Oldest == IF Cooldown > DiagCooldown THEN Cooldown ELSE DiagCooldown

Capped(age, limit) == IF age < limit THEN age ELSE limit

Older(age, limit) == IF age < limit THEN age + 1 ELSE limit

WInit ==
    /\ api = "up"
    /\ tunnel = "up"
    /\ pc = "idle"
    /\ nowAge = Oldest
    /\ healAge = Cooldown
    /\ diagAge = DiagCooldown
    /\ troubles = 0
    /\ sinceHeal = Cooldown
    /\ sinceDiag = DiagCooldown
    /\ unwritten = FALSE
    /\ unsaved = FALSE
    /\ fell = FALSE

Goto(from, to) == pc = from /\ pc' = to

(***************************************************************************)
(* The world                                                               *)
(***************************************************************************)

Trouble == troubles < MaxTroubles /\ troubles' = troubles + 1

\* The API stops answering. Its process may live on behind a stale proxy.
ApiFails ==
    /\ Trouble
    /\ api = "up"
    /\ api' = "down"
    /\ fell' = TRUE
    /\ UNCHANGED <<tunnel, pc, ages, lost>>

\* It comes back by itself, or by docker's restart policy.
ApiReturns ==
    /\ api = "down"
    /\ api' = "up"
    /\ UNCHANGED <<tunnel, pc, ages, troubles, lost, fell>>

TunnelFails ==
    /\ Trouble
    /\ tunnel = "up"
    /\ tunnel' = "down"
    /\ UNCHANGED <<api, pc, ages, lost, fell>>

TunnelReturns ==
    /\ tunnel = "down"
    /\ tunnel' = "up"
    /\ UNCHANGED <<api, pc, ages, troubles, lost, fell>>

Minute ==
    /\ nowAge' = Older(nowAge, Oldest)
    /\ healAge' = Older(healAge, Cooldown)
    /\ diagAge' = Older(diagAge, DiagCooldown)
    /\ sinceHeal' = Older(sinceHeal, Cooldown)
    /\ sinceDiag' = Older(sinceDiag, DiagCooldown)
    /\ UNCHANGED <<outside, pc, lost>>

(***************************************************************************)
(* Layer 1                                                                 *)
(***************************************************************************)

\* Slip: the files lie in a RuntimeDirectory, which is emptied between runs.
FireWiped ==
    /\ Goto("idle", "probe")
    /\ fell' = FALSE
    /\ healAge' = Cooldown
    /\ diagAge' = DiagCooldown
    /\ UNCHANGED <<api, tunnel, nowAge, troubles, sinceHeal, sinceDiag, lost>>

\* The timer starts the script.
Fire ==
    /\ Goto("idle", "probe")
    /\ fell' = FALSE
    /\ UNCHANGED <<api, tunnel, ages, troubles, lost>>

\* curl of /health. The API's workers may all be busy: then a working API runs
\* into the probe's timeout, too.
ProbeOk(from) ==
    /\ Goto(from, "public")
    /\ api = "up"
    /\ fell' = FALSE
    /\ UNCHANGED <<api, tunnel, ages, troubles, lost>>

ProbeFails(from, to) ==
    /\ Goto(from, to)
    /\ IF api = "up" THEN Trouble ELSE UNCHANGED troubles
    /\ UNCHANGED <<api, tunnel, fell, ages, lost>>

Probe ==
    \/ \E from \in {"probe", "reprobe", "check"} : ProbeOk(from)
    \/ ProbeFails("probe", "reprobe")
    \/ ProbeFails("reprobe", "decide")

\* Slip: a run that skips the restart notes the time, too.
SkipHealNoted ==
    /\ Goto("decide", "idle")
    /\ healAge < Cooldown
    /\ healAge' = 0
    /\ UNCHANGED <<outside, nowAge, diagAge, sinceHeal, sinceDiag, lost>>

\* Slip: a run that skips the restart goes on to the public address.
SkipHealGoesOn ==
    /\ Goto("decide", "public")
    /\ healAge < Cooldown
    /\ UNCHANGED <<outside, ages, lost>>

\* exit 1.
SkipHeal ==
    /\ Goto("decide", "idle")
    /\ healAge < Cooldown
    /\ UNCHANGED <<outside, ages, lost>>

DecideHeal ==
    /\ Goto("decide", "cd")
    /\ healAge >= Cooldown
    /\ nowAge' = 0
    /\ UNCHANGED <<outside, healAge, diagAge, sinceHeal, sinceDiag, lost>>

\* cat fails, || echo 0: a time that cannot be read is long past.
DecideHealUnread ==
    /\ Goto("decide", "cd")
    /\ nowAge' = 0
    /\ unwritten' = TRUE
    /\ UNCHANGED <<outside, healAge, diagAge, sinceHeal, sinceDiag, unsaved>>

\* cd "$COMPOSE_DIR" || exit 2: nothing is restarted, nothing is noted.
CdFails ==
    /\ Goto("cd", "idle")
    /\ Trouble
    /\ UNCHANGED <<api, tunnel, ages, lost, fell>>

\* What a docker compose kill changes apart from the API.
Killing ==
    /\ Goto("cd", "compose")
    /\ sinceHeal' = Capped(nowAge, Cooldown)
    /\ unwritten' = TRUE
    /\ UNCHANGED <<tunnel, nowAge, healAge, diagAge, troubles, sinceDiag, unsaved>>

Kill ==
    /\ Killing
    /\ api' = "down"
    /\ fell' = TRUE

KillFails ==
    /\ Killing
    /\ UNCHANGED <<api, fell>>

\* docker compose up -d api, whose exit code nobody looks at.
Up ==
    /\ Goto("compose", "note_heal")
    /\ api' = "up"
    /\ UNCHANGED <<tunnel, ages, troubles, lost, fell>>

UpFails ==
    /\ Goto("compose", "note_heal")
    /\ UNCHANGED <<outside, ages, lost>>

\* Slip: the time is noted only after a restart that worked.
NoteHealIfUp ==
    /\ Goto("note_heal", "check")
    /\ healAge' = IF api = "up" THEN Capped(nowAge, Cooldown) ELSE healAge
    /\ unwritten' = FALSE
    /\ UNCHANGED <<outside, nowAge, diagAge, sinceHeal, sinceDiag, unsaved>>

\* The time that is noted is now, from before the restart.
NoteHeal ==
    /\ Goto("note_heal", "check")
    /\ healAge' = Capped(nowAge, Cooldown)
    /\ unwritten' = FALSE
    /\ UNCHANGED <<outside, nowAge, diagAge, sinceHeal, sinceDiag, unsaved>>

\* What a failed write leaves of a file with the time of that age: the old time,
\* or, when the file was opened, nothing, which is long past.
Unwritten(age, limit) == {age, limit}

\* The file cannot be written, and the script goes on.
NoteHealFails ==
    /\ Goto("note_heal", "check")
    /\ healAge' \in Unwritten(healAge, Cooldown)
    /\ UNCHANGED <<outside, nowAge, diagAge, sinceHeal, sinceDiag, lost>>

\* exit 3.
StillDown == ProbeFails("check", "idle")

HealDecided == DecideHeal \/ DecideHealUnread
HealNoted == NoteHeal \/ NoteHealFails

Heal == SkipHeal \/ HealDecided \/ CdFails \/ Kill \/ KillFails \/ Up \/ UpFails \/ HealNoted \/ StillDown

(***************************************************************************)
(* Layer 2                                                                 *)
(***************************************************************************)

Public == api = "up" /\ tunnel = "up"

\* exit 0.
PublicOk(from) ==
    /\ Goto(from, "idle")
    /\ Public
    /\ UNCHANGED <<outside, ages, lost>>

PublicFails(from, to) ==
    /\ Goto(from, to)
    /\ IF Public THEN Trouble ELSE UNCHANGED troubles
    /\ UNCHANGED <<api, tunnel, fell, ages, lost>>

\* exit 4 without a word.
SkipDiag ==
    /\ Goto("rate", "idle")
    /\ diagAge < DiagCooldown
    /\ UNCHANGED <<outside, ages, lost>>

DecideDiag ==
    /\ Goto("rate", "note_diag")
    /\ diagAge >= DiagCooldown
    /\ nowAge' = 0
    /\ UNCHANGED <<outside, healAge, diagAge, sinceHeal, sinceDiag, lost>>

DecideDiagUnread ==
    /\ Goto("rate", "note_diag")
    /\ nowAge' = 0
    /\ unsaved' = TRUE
    /\ UNCHANGED <<outside, healAge, diagAge, sinceHeal, sinceDiag, unwritten>>

NoteDiag ==
    /\ Goto("note_diag", "log")
    /\ diagAge' = Capped(nowAge, DiagCooldown)
    /\ unsaved' = FALSE
    /\ UNCHANGED <<outside, nowAge, healAge, sinceHeal, sinceDiag, unwritten>>

\* The diagnosis is logged all the same.
NoteDiagFails ==
    /\ Goto("note_diag", "log")
    /\ diagAge' \in Unwritten(diagAge, DiagCooldown)
    /\ unsaved' = TRUE
    /\ UNCHANGED <<outside, nowAge, healAge, sinceHeal, sinceDiag, unwritten>>

\* "Local /health is HEALTHY - fault is tunnel-side or VPS-side": exit 4.
Log ==
    /\ Goto("log", "idle")
    /\ sinceDiag' = Capped(nowAge, DiagCooldown)
    /\ UNCHANGED <<outside, nowAge, healAge, diagAge, sinceHeal, lost>>

Diagnose ==
    \/ \E from \in {"public", "republic"} : PublicOk(from)
    \/ PublicFails("public", "republic")
    \/ PublicFails("republic", "rate")
    \/ SkipDiag \/ DecideDiag \/ DecideDiagUnread \/ NoteDiag \/ NoteDiagFails \/ Log

\* The run is killed; a file it was writing may be left empty.
Cut ==
    /\ pc # "idle"
    /\ pc' = "idle"
    /\ Trouble
    /\ healAge' \in IF pc = "note_heal" THEN Unwritten(healAge, Cooldown) ELSE {healAge}
    /\ diagAge' \in IF pc = "note_diag" THEN Unwritten(diagAge, DiagCooldown) ELSE {diagAge}
    /\ UNCHANGED <<api, tunnel, nowAge, sinceHeal, sinceDiag, lost, fell>>

Script == Probe \/ Heal \/ Diagnose

World == ApiFails \/ ApiReturns \/ TunnelFails \/ TunnelReturns \/ Minute \/ Cut

WNext == World \/ Fire \/ Script

WSpec == WInit /\ [][WNext]_wvars

(***************************************************************************)
(* Properties                                                              *)
(***************************************************************************)

WTypeOK ==
    /\ api \in {"up", "down"}
    /\ tunnel \in {"up", "down"}
    /\ nowAge \in 0..Oldest
    /\ healAge \in 0..Cooldown
    /\ diagAge \in 0..DiagCooldown
    /\ sinceHeal \in 0..Cooldown
    /\ sinceDiag \in 0..DiagCooldown
    /\ troubles \in 0..MaxTroubles
    /\ unwritten \in BOOLEAN
    /\ unsaved \in BOOLEAN
    /\ fell \in BOOLEAN

\* Two restarts are decided at least a cooldown apart, however long they take
\* and whichever docker command or probe fails. Only a restart the file does not
\* tell of is forgotten: the run was killed before the note, the note could not
\* be written, or not be read.
HealsSpaced ==
    [][pc = "decide" /\ pc' = "cd" => sinceHeal >= Cooldown \/ unwritten']_wvars

\* Two diagnoses are decided at least a cooldown apart, killed runs included:
\* the note comes before the log. Only a note that could not be written, or not
\* be read, lets the next one be early.
DiagsSpaced ==
    [][pc = "rate" /\ pc' = "note_diag" => sinceDiag >= DiagCooldown \/ unsaved']_wvars

\* The diagnosis tells that the local API is healthy. It is, unless it went
\* down after this run had found it so.
DiagnosisTrue == pc = "log" => api = "up" \/ fell

\* An API that is down does not stay so.
ApiComesBack == api = "down" ~> api = "up"
=============================================================================
