---------------------------- MODULE BackfillProofs ----------------------------
(***************************************************************************)
(* Proofs about the backfill command, for every legacy table that ingests  *)
(* can have left, every window and any number of runs, ingests and deletes:*)
(* what it writes, and where a pairing goes wrong.                         *)
(***************************************************************************)
EXTENDS Backfill, WellFoundedInduction, TLAPS

(***************************************************************************)
(* The invariant                                                           *)
(***************************************************************************)

Run == [pc : {"idle", "exact", "select", "pair", "end"}, apply : BOOLEAN, pair : BOOLEAN,
        todo : SUBSET Nat, picks : Seq(Nat \X Nat),
        mine : UNION {[ids -> Labels] : ids \in SUBSET Nat}]

BTypeOK ==
    /\ rows \in Seq(MailRow)
    /\ source \in Seq(Labels \cup {NoSource})
    /\ Len(source) = Len(rows)
    /\ gone \subseteq Ids
    /\ clock \in Nat
    /\ run \in Run
    /\ runs \in Nat
    /\ done \subseteq Nat \X Nat

\* The API keeps the table plausible, and only reports are labelled as such.
TableInv ==
    /\ Plausible(rows)
    /\ \A i \in Ids : rows[i].at <= clock
    /\ \A i \in Ids : source[i] = "report" => rows[i].subject = "report"

\* A pairing is of a report with an earlier row, or with none.
InRange(p) == p[1] \in Ids /\ rows[p[1]].subject = "report" /\ p[2] \in 0..(p[1] - 1)

\* Where a pairing misses the capture, there is a reason.
HasCause(p) ==
    LET c == rows[p[1]].of IN
    p[2] # c => \/ TooOld(c, p[1])
                \/ c \in gone
                \/ source[c] # NoSource
                \/ c < p[2]

\* What a run is about to write is still empty; one with --apply has nothing in
\* its transaction but the labels it has assigned and not flushed.
RunInv ==
    /\ run.pc # "pair" => run.picks = <<>>
    /\ run.pc = "exact" =>
          \A i \in run.todo : i \in Ids /\ source[i] = NoSource /\ rows[i].subject \in Labels
    /\ run.apply =>
          /\ DOMAIN run.mine = {}
          /\ run.pc = "pair" => \A i \in run.todo : i \in Ids /\ source[i] = "report"
          /\ \A p \in Picks : /\ InRange(p) /\ HasCause(p)
                              /\ p[2] # 0 => source[p[2]] = NoSource

DoneInv == \A p \in done : /\ InRange(p) /\ HasCause(p)
                           /\ p[2] # 0 => source[p[2]] = "complaint"

BInv == BTypeOK /\ TableInv /\ RunInv /\ DoneInv

\* What every step leaves as it is: rows stay what they are, deleted ones stay
\* deleted, and a label stays.
Grows ==
    /\ Len(rows) <= Len(rows')
    /\ \A i \in Ids : rows'[i] = rows[i]
    /\ gone \subseteq gone'
    /\ \A i \in Ids : source[i] # NoSource => source'[i] = source[i]

\* A row and its label have the fields of their types.
LEMMA RowFields ==
    ASSUME BTypeOK, NEW i \in Ids
    PROVE  /\ rows[i] \in MailRow
           /\ rows[i].at \in Nat /\ rows[i].of \in Nat /\ rows[i].subject \in Subjects
           /\ source[i] \in Labels \cup {NoSource}
  <1>1. i \in 1..Len(rows) /\ rows \in Seq(MailRow) /\ Len(source) = Len(rows)
        /\ source \in Seq(Labels \cup {NoSource})
    BY DEF BTypeOK, Ids
  <1>2. rows[i] \in MailRow
    BY <1>1
  <1>3. source[i] \in Labels \cup {NoSource}
    BY <1>1
  <1> QED
    BY <1>2, <1>3 DEF MailRow

\* The capture of a report comes before it.
LEMMA CaptureBefore ==
    ASSUME BTypeOK, TableInv, NEW a \in Ids, rows[a].subject = "report"
    PROVE  rows[a].of \in Ids /\ rows[a].of < a /\ rows[a].of >= 1
  <1>1. DOMAIN rows = Ids /\ Ids = 1..Len(rows) /\ Len(rows) \in Nat
    BY DEF BTypeOK, Ids
  <1>2. rows[a].of \in 1..(a - 1)
    BY <1>1 DEF TableInv, Plausible
  <1> QED
    BY <1>1, <1>2

\* A reason stays one, as rows, deletes and labels stay.
LEMMA CauseStays ==
    ASSUME BTypeOK, TableInv, Grows, NEW p, InRange(p), HasCause(p)
    PROVE  InRange(p)' /\ HasCause(p)'
  <1>1. Ids \subseteq Ids' /\ p[1] \in Ids
    BY DEF Grows, Ids, InRange, BTypeOK
  <1>2. rows[p[1]].of \in Ids
    BY <1>1, CaptureBefore DEF InRange
  <1>3. rows'[p[1]] = rows[p[1]] /\ rows'[rows[p[1]].of] = rows[rows[p[1]].of]
    BY <1>1, <1>2 DEF Grows
  <1>4. source[rows[p[1]].of] # NoSource => source'[rows[p[1]].of] # NoSource
    BY <1>2 DEF Grows
  <1>5. InRange(p)'
    BY <1>1, <1>3 DEF InRange
  <1>6. HasCause(p)'
    BY <1>3, <1>4 DEF HasCause, TooOld, Grows
  <1> QED
    BY <1>5, <1>6

\* A plausible table and no run.
LEMMA BInitInv == BInit => BInv
  <1> SUFFICES ASSUME BInit PROVE BInv
    OBVIOUS
  <1>1. rows \in Seq(MailRow) /\ Plausible(rows)
    BY BackfillAssumption DEF BInit
  <1>2. Len(rows) \in Nat /\ DOMAIN rows = 1..Len(rows)
    BY <1>1
  <1>3. source \in Seq(Labels \cup {NoSource}) /\ Len(source) = Len(rows)
    BY <1>2 DEF BInit
  <1>a. ASSUME NEW i \in 1..Len(rows) PROVE rows[i].at \in Nat
    <2>1. rows[i] \in MailRow
      BY <1>1
    <2> QED
      BY <2>1 DEF MailRow
  <1>4. clock \in Nat
    <2>1. CASE rows = <<>>
      BY <2>1 DEF BInit
    <2>2. CASE rows # <<>>
      <3>1. Len(rows) \in 1..Len(rows)
        BY <1>1, <1>2, <2>2
      <3> QED
        BY <1>a, <2>2, <3>1 DEF BInit
    <2> QED
      BY <2>1, <2>2
  <1>5. NoRun \in Run /\ NoRun.picks = <<>> /\ NoRun.apply = FALSE
    <2>1. <<>> \in Seq(Nat \X Nat)
      OBVIOUS
    <2>2. <<>> \in [{} -> Labels]
      OBVIOUS
    <2>3. <<>> \in UNION {[ids -> Labels] : ids \in SUBSET Nat}
      BY <2>2
    <2> QED
      BY <2>1, <2>3 DEF NoRun, Run
  <1>6. BTypeOK
    BY <1>1, <1>3, <1>4, <1>5 DEF BTypeOK, BInit
  <1>7. \A i \in Ids : rows[i].at <= clock
    <2> SUFFICES ASSUME NEW i \in Ids PROVE rows[i].at <= clock
      OBVIOUS
    <2>1. i \in 1..Len(rows) /\ clock = rows[Len(rows)].at
      BY <1>2 DEF Ids, BInit
    <2>2. rows[i].at \in Nat /\ rows[Len(rows)].at \in Nat
      BY <1>a, <1>2, <2>1
    <2> QED
      BY <1>1, <1>2, <2>1, <2>2 DEF Plausible
  <1>8. \A i \in Ids : source[i] = NoSource
    BY <1>2 DEF BInit, Ids
  <1>9. TableInv
    BY <1>1, <1>7, <1>8 DEF TableInv, NoSource
  <1> QED
    BY <1>5, <1>6, <1>9 DEF BInv, RunInv, DoneInv, BInit, NoRun

(***************************************************************************)
(* The steps                                                               *)
(***************************************************************************)

\* An ingest appends a row with its label and leaves the rest alone.
LEMMA IngestAppends ==
    ASSUME BTypeOK, NEW subject \in Subjects, NEW of \in Nat, NEW label \in Labels,
           Ingest(subject, of, label)
    PROVE  /\ rows' \in Seq(MailRow) /\ source' \in Seq(Labels \cup {NoSource})
           /\ Len(rows') = Len(rows) + 1 /\ Len(source') = Len(rows')
           /\ Ids' = Ids \cup {Len(rows) + 1} /\ Len(rows) + 1 \notin Ids
           /\ \A i \in Ids : rows'[i] = rows[i] /\ source'[i] = source[i]
           /\ rows'[Len(rows) + 1] = [subject |-> subject, at |-> clock, of |-> of]
           /\ source'[Len(rows) + 1] = label
           /\ UNCHANGED <<gone, clock, run, runs, done>>
  <1> DEFINE new == [subject |-> subject, at |-> clock, of |-> of]
  <1>1. rows \in Seq(MailRow) /\ source \in Seq(Labels \cup {NoSource})
        /\ Len(rows) \in Nat /\ Len(source) = Len(rows) /\ clock \in Nat
    BY DEF BTypeOK
  <1>2. new \in MailRow
    BY <1>1 DEF MailRow
  <1>3. /\ rows' = Append(rows, new) /\ source' = Append(source, label)
        /\ UNCHANGED <<gone, clock, run, runs, done>>
    BY DEF Ingest
  <1> HIDE DEF new
  <1>4. rows' \in Seq(MailRow) /\ source' \in Seq(Labels \cup {NoSource})
    BY <1>1, <1>2, <1>3
  <1>5. Len(rows') = Len(rows) + 1 /\ Len(source') = Len(rows) + 1
    BY <1>1, <1>3
  <1>6. Ids = 1..Len(rows) /\ Ids' = 1..(Len(rows) + 1)
    BY <1>5 DEF Ids
  <1>7. \A i \in Ids : rows'[i] = rows[i] /\ source'[i] = source[i]
    BY <1>1, <1>3, <1>6
  <1>8. rows'[Len(rows) + 1] = new /\ source'[Len(rows) + 1] = label
    BY <1>1, <1>3
  <1> QED
    BY <1>1, <1>3, <1>4, <1>5, <1>6, <1>7, <1>8 DEF new

\* A flush leaves a column and a command.
LEMMA FlushKeepsTypes ==
    ASSUME BTypeOK, NEW ids \in SUBSET Nat, NEW labels \in [ids -> Labels], NEW next \in Run,
           Flushed(labels, next)
    PROVE  source' \in Seq(Labels \cup {NoSource}) /\ Len(source') = Len(source) /\ run' \in Run
  <1>1. source \in Seq(Labels \cup {NoSource}) /\ Len(source) = Len(rows) /\ Len(rows) \in Nat
    BY DEF BTypeOK
  <1>2. Ids = 1..Len(rows) /\ \A i \in Ids : source[i] \in Labels \cup {NoSource}
    BY <1>1 DEF Ids
  <1>3. <<>> \in UNION {[s -> Labels] : s \in SUBSET Nat}
    <2>1. <<>> \in [{} -> Labels]
      OBVIOUS
    <2> QED
      BY <2>1
  <1>4. labels \in UNION {[s -> Labels] : s \in SUBSET Nat}
    OBVIOUS
  <1>5. CASE run.apply
    <2>1. source' = Merged(labels) /\ run' = [next EXCEPT !.mine = <<>>]
      BY <1>5 DEF Flushed
    <2>2. source' = [i \in 1..Len(rows) |-> IF i \in ids THEN labels[i] ELSE source[i]]
      BY <1>2, <2>1 DEF Merged
    <2>3. \A i \in 1..Len(rows) : (IF i \in ids THEN labels[i] ELSE source[i]) \in Labels \cup {NoSource}
      BY <1>2
    <2>4. source' \in Seq(Labels \cup {NoSource}) /\ Len(source') = Len(rows)
      BY <1>1, <2>2, <2>3
    <2> QED
      BY <1>1, <1>2, <1>3, <1>5, <2>1, <2>2, <2>4 DEF Run
  <1>6. CASE ~run.apply
    <2>1. source' = source /\ run' = [next EXCEPT !.mine = labels]
      BY <1>6 DEF Flushed
    <2> QED
      BY <1>1, <1>4, <1>6, <2>1 DEF Run
  <1> QED
    BY <1>5, <1>6

(***************************************************************************)
(* The choices of the pairing                                              *)
(***************************************************************************)

Smaller == {ss \in Nat \X Nat : ss[1] < ss[2]}

\* A set of numbers has a least element.
LEMMA HasLeast ==
    ASSUME NEW T, T \subseteq Nat, T # {}
    PROVE  \E x \in T : \A y \in T : x <= y
  <1>1. IsWellFoundedOn(Smaller, Nat)
    BY NatLessThanWellFounded, Zenon DEF Smaller, OpToRel
  <1>2. PICK x \in T : \A y \in T : ~(<<y, x>> \in Smaller)
    BY <1>1, WFMin, Zenon
  <1>3. ASSUME NEW y \in T PROVE x <= y
    <2>1. x \in Nat /\ y \in Nat /\ ~(<<y, x>> \in Smaller)
      BY <1>2
    <2>2. ~(y < x)
      BY <2>1 DEF Smaller
    <2> QED
      BY <2>1, <2>2
  <1> QED
    BY <1>3

\* The order of the query has a first row, as the times go up with the ids.
LEMMA NearestIsFirst ==
    ASSUME BTypeOK, TableInv, NEW a, Candidates(a) # {}
    PROVE  /\ Nearest(a) \in Candidates(a)
           /\ \A q \in Candidates(a) : Later(Nearest(a), q)
  <1> DEFINE N == Len(rows)
             Back == {N - r : r \in Candidates(a)}
  <1>1. N \in Nat /\ DOMAIN rows = 1..N /\ Candidates(a) \subseteq 1..N
    BY DEF BTypeOK, Candidates, Present, Ids
  <1>2. Back \subseteq Nat /\ Back # {}
    BY <1>1
  <1>3. PICK x \in Back : \A y \in Back : x <= y
    BY <1>2, HasLeast
  <1>4. PICK r \in Candidates(a) : x = N - r
    BY <1>3
  <1>5. ASSUME NEW q \in Candidates(a) PROVE Later(r, q)
    <2>1. N - r <= N - q
      BY <1>3, <1>4
    <2>2. q \in 1..N /\ r \in 1..N /\ q <= r
      BY <1>1, <2>1
    <2>3. rows[q].at \in Nat /\ rows[r].at \in Nat
      BY <2>2, RowFields DEF Ids
    <2>4. rows[q].at <= rows[r].at
      BY <1>1, <2>2, <2>3 DEF TableInv, Plausible
    <2> QED
      BY <2>2, <2>3, <2>4 DEF Later
  <1>6. \E s \in Candidates(a) : \A q \in Candidates(a) : Later(s, q)
    BY <1>5
  <1> QED
    BY <1>6 DEF Nearest

\* What the loop picks for report a.
PickOf(a) == IF Candidates(a) = {} THEN 0 ELSE Nearest(a)

\* It is an empty row before the report, or none, and the capture unless there is
\* a reason.
LEMMA PickHasCause ==
    ASSUME BTypeOK, TableInv, NEW a \in Ids, rows[a].subject = "report", DOMAIN run.mine = {}
    PROVE  /\ InRange(<<a, PickOf(a)>>) /\ HasCause(<<a, PickOf(a)>>)
           /\ PickOf(a) # 0 => source[PickOf(a)] = NoSource
  <1> DEFINE c == rows[a].of
  <1>1. c \in Ids /\ c < a /\ c >= 1
    BY CaptureBefore
  <1>2. Ids = 1..Len(rows) /\ DOMAIN rows = Ids /\ Len(rows) \in Nat
    BY DEF Ids, BTypeOK
  <1>3. \A i \in Ids : rows[i].at \in Nat
    BY RowFields
  <1>4. \A i, j \in Ids : i < j => rows[i].at <= rows[j].at
    BY <1>2 DEF TableInv, Plausible
  <1>5. \A i \in Ids : Seen(i) = source[i]
    BY DEF Seen
  <1>6. Candidates(a) = {} \/ Nearest(a) \in Candidates(a)
    BY NearestIsFirst
  <1>7. PickOf(a) = 0 \/ (PickOf(a) \in Candidates(a) /\ PickOf(a) \in Ids /\ PickOf(a) < a
                          /\ source[PickOf(a)] = NoSource)
    <2>1. CASE Candidates(a) = {}
      BY <2>1 DEF PickOf
    <2>2. CASE Candidates(a) # {}
      <3>1. PickOf(a) = Nearest(a) /\ Nearest(a) \in Candidates(a)
        BY <1>6, <2>2 DEF PickOf
      <3>2. Nearest(a) \in Ids /\ Nearest(a) < a /\ Seen(Nearest(a)) = NoSource
        BY <3>1 DEF Candidates, Present
      <3> QED
        BY <1>5, <3>1, <3>2
    <2> QED
      BY <2>1, <2>2
  <1>8. InRange(<<a, PickOf(a)>>)
    BY <1>2, <1>7 DEF InRange
  <1>9. HasCause(<<a, PickOf(a)>>)
    <2>1. CASE c \in Candidates(a)
      <3>1. PickOf(a) = Nearest(a) /\ Later(Nearest(a), c) /\ Nearest(a) \in Ids
        BY <1>7, <2>1, NearestIsFirst DEF PickOf, Candidates, Present
      <3>2. ~(Nearest(a) < c)
        BY <1>1, <1>2, <1>3, <1>4, <3>1 DEF Later
      <3> QED
        BY <1>1, <1>2, <3>1, <3>2 DEF HasCause
    <2>2. CASE c \notin Candidates(a)
      <3>1. rows[c].at <= rows[a].at
        BY <1>1, <1>4
      <3>2. c \in gone \/ source[c] # NoSource \/ ~(rows[c].at >= rows[a].at - PairWindow)
        BY <1>1, <1>5, <2>2, <3>1 DEF Candidates, Present
      <3>3. c \in gone \/ source[c] # NoSource \/ TooOld(c, a)
        BY <1>1, <1>3, <3>2, BackfillAssumption DEF TooOld
      <3> QED
        BY <3>3 DEF HasCause
    <2> QED
      BY <2>1, <2>2
  <1> QED
    BY <1>7, <1>8, <1>9

(***************************************************************************)
(* The steps, one by one                                                   *)
(***************************************************************************)

\* The fields of the command in progress.
LEMMA RunFields ==
    ASSUME BTypeOK
    PROVE  /\ run.todo \subseteq Nat /\ run.picks \in Seq(Nat \X Nat) /\ run.apply \in BOOLEAN
           /\ run.mine \in [DOMAIN run.mine -> Labels] /\ DOMAIN run.mine \subseteq Nat
           /\ Picks \subseteq Nat \X Nat /\ Picked \subseteq Nat
  <1>1. run \in Run
    BY DEF BTypeOK
  <1>2. run.todo \subseteq Nat /\ run.picks \in Seq(Nat \X Nat) /\ run.apply \in BOOLEAN
        /\ run.mine \in UNION {[ids -> Labels] : ids \in SUBSET Nat}
    BY <1>1 DEF Run
  <1>3. PICK ids \in SUBSET Nat : run.mine \in [ids -> Labels]
    BY <1>2
  <1>4. Picks \subseteq Nat \X Nat
    BY <1>2 DEF Picks
  <1>5. Picked \subseteq Nat
    BY <1>4 DEF Picked
  <1> QED
    BY <1>2, <1>3, <1>4, <1>5

\* What the exact flush writes: its subject on each row that is still empty.
LEMMA ExactWrites ==
    ASSUME BTypeOK, RunInv, FlushExact
    PROVE  /\ source' \in Seq(Labels \cup {NoSource}) /\ Len(source') = Len(source)
           /\ run.apply => \A i \in Ids :
                 source'[i] = IF i \in run.todo THEN rows[i].subject ELSE source[i]
           /\ ~run.apply => source' = source
           /\ run' \in Run /\ run'.picks = run.picks /\ run'.apply = run.apply
           /\ run'.pc \in {"select", "end"}
           /\ run.apply => DOMAIN run'.mine = {}
           /\ \A i \in run.todo : i \in Ids /\ source[i] = NoSource
           /\ UNCHANGED <<rows, gone, clock, runs, done>>
  <1> DEFINE labels == [i \in run.todo |-> rows[i].subject]
             next == [run EXCEPT !.pc = IF run.pair THEN "select" ELSE "end", !.todo = {}]
  <1>1. \A i \in run.todo : i \in Ids /\ source[i] = NoSource /\ rows[i].subject \in Labels
    BY DEF RunInv, FlushExact
  <1>2. run.todo \in SUBSET Nat /\ labels \in [run.todo -> Labels]
    BY <1>1, RunFields
  <1>3. run \in Run
    BY DEF BTypeOK
  <1>4. /\ next \in Run /\ next.picks = run.picks /\ next.apply = run.apply
        /\ next.pc \in {"select", "end"}
    BY <1>3 DEF Run
  <1>5. Flushed(labels, next) /\ UNCHANGED <<rows, gone, clock, runs, done>>
    BY DEF FlushExact
  <1>6. source' \in Seq(Labels \cup {NoSource}) /\ Len(source') = Len(source) /\ run' \in Run
    <2> HIDE DEF labels, next
    <2> QED
      BY <1>2, <1>4, <1>5, FlushKeepsTypes
  <1>7. run.apply => /\ \A i \in Ids : source'[i] = IF i \in run.todo THEN rows[i].subject ELSE source[i]
                     /\ DOMAIN run'.mine = {}
    <2> SUFFICES ASSUME run.apply
                 PROVE  /\ \A i \in Ids : source'[i] = IF i \in run.todo THEN rows[i].subject ELSE source[i]
                        /\ DOMAIN run'.mine = {}
      OBVIOUS
    <2>1. source' = Merged(labels) /\ run' = [next EXCEPT !.mine = <<>>]
      BY <1>5 DEF Flushed
    <2>2. \A i \in Ids : source'[i] = IF i \in run.todo THEN rows[i].subject ELSE source[i]
      BY <2>1 DEF Merged
    <2>3. run'.mine = <<>>
      BY <1>4, <2>1 DEF Run
    <2>4. DOMAIN <<>> = {}
      OBVIOUS
    <2> QED
      BY <2>2, <2>3, <2>4
  <1>8. ~run.apply => source' = source
    BY <1>5 DEF Flushed
  <1>9. run'.picks = run.picks /\ run'.apply = run.apply /\ run'.pc = next.pc
    <2>1. \E m : run' = [next EXCEPT !.mine = m]
      BY <1>5 DEF Flushed
    <2> QED
      BY <1>3, <1>4, <2>1 DEF Run
  <1> QED
    BY <1>1, <1>4, <1>5, <1>6, <1>7, <1>8, <1>9

\* What the flush of the pairing writes: the label on each row that was picked.
LEMMA PairsWrites ==
    ASSUME BTypeOK, RunInv, FlushPairs
    PROVE  /\ source' \in Seq(Labels \cup {NoSource}) /\ Len(source') = Len(source)
           /\ run.apply => \A i \in Ids :
                 source'[i] = IF i \in Picked THEN "complaint" ELSE source[i]
           /\ ~run.apply => source' = source
           /\ run' \in Run /\ run'.picks = <<>> /\ run'.apply = run.apply /\ run'.pc = "end"
           /\ run.apply => DOMAIN run'.mine = {}
           /\ done' = IF run.apply THEN done \cup Picks ELSE done
           /\ UNCHANGED <<rows, gone, clock, runs>>
  <1> DEFINE ids == Picked \cup DOMAIN run.mine
             labels == [i \in ids |-> IF i \in Picked THEN "complaint" ELSE run.mine[i]]
             next == [run EXCEPT !.pc = "end", !.picks = <<>>]
  <1>1. ids \in SUBSET Nat
    BY RunFields
  <1>2. labels \in [ids -> Labels]
    <2>1. \A i \in DOMAIN run.mine : run.mine[i] \in Labels
      BY RunFields
    <2> QED
      BY <2>1 DEF Labels
  <1>3. run \in Run
    BY DEF BTypeOK
  <1>4. next \in Run /\ next.picks = <<>> /\ next.apply = run.apply /\ next.pc = "end"
    <2>1. <<>> \in Seq(Nat \X Nat)
      OBVIOUS
    <2> QED
      BY <1>3, <2>1 DEF Run
  <1>5. /\ Flushed(labels, next) /\ UNCHANGED <<rows, gone, clock, runs>>
        /\ done' = IF run.apply THEN done \cup Picks ELSE done
    BY DEF FlushPairs
  <1>6. run.apply => DOMAIN run.mine = {}
    BY DEF RunInv
  <1>7. source' \in Seq(Labels \cup {NoSource}) /\ Len(source') = Len(source) /\ run' \in Run
    <2> HIDE DEF ids, labels, next
    <2> QED
      BY <1>1, <1>2, <1>4, <1>5, FlushKeepsTypes
  <1>8. run.apply => /\ \A i \in Ids : source'[i] = IF i \in Picked THEN "complaint" ELSE source[i]
                     /\ DOMAIN run'.mine = {}
    <2> SUFFICES ASSUME run.apply
                 PROVE  /\ \A i \in Ids : source'[i] = IF i \in Picked THEN "complaint" ELSE source[i]
                        /\ DOMAIN run'.mine = {}
      OBVIOUS
    <2>1. source' = Merged(labels) /\ run' = [next EXCEPT !.mine = <<>>]
      BY <1>5 DEF Flushed
    <2>2. \A i \in Ids : source'[i] = IF i \in Picked THEN "complaint" ELSE source[i]
      BY <1>6, <2>1 DEF Merged
    <2>3. run'.mine = <<>>
      BY <1>4, <2>1 DEF Run
    <2>4. DOMAIN <<>> = {}
      OBVIOUS
    <2> QED
      BY <2>2, <2>3, <2>4
  <1>9. ~run.apply => source' = source
    BY <1>5 DEF Flushed
  <1>10. run'.picks = <<>> /\ run'.apply = run.apply /\ run'.pc = "end"
    <2>1. \E m : run' = [next EXCEPT !.mine = m]
      BY <1>5 DEF Flushed
    <2> QED
      BY <1>3, <1>4, <2>1 DEF Run
  <1> QED
    BY <1>5, <1>7, <1>8, <1>9, <1>10

\* The rows picked by a run with --apply are empty.
LEMMA PickedIsEmpty ==
    ASSUME BTypeOK, RunInv, run.apply, NEW i \in Picked
    PROVE  source[i] = NoSource
  <1>1. PICK p \in Picks : i = p[2] /\ i # 0
    BY DEF Picked
  <1> QED
    BY <1>1 DEF RunInv

\* The steps that touch neither the table nor its labels.
Quiet == \/ \E i \in Present : DeleteRow(i)
         \/ Second
         \/ \E apply, pair \in BOOLEAN : Start(apply, pair)
         \/ SelectReports \/ PairNext \/ Abort
         \/ UNCHANGED bvars

\* An ingest is of a mail of a complaint, and a report's capture has no other.
LEMMA IngestsWhat ==
    ASSUME BTypeOK, IngestComplaint \/ IngestReport
    PROVE  \E subject \in {"own", "report"}, of \in Nat, label \in {"complaint", "report"} :
              /\ Ingest(subject, of, label)
              /\ subject = "own" <=> label = "complaint"
              /\ subject = "own" => of = 0
              /\ subject = "report" => /\ of \in Ids /\ rows[of].subject \in {"own", "complaint"}
                                       /\ \A a \in Ids : rows[a].of # of
  <1>1. CASE IngestComplaint
    BY <1>1 DEF IngestComplaint
  <1>2. CASE IngestReport
    <2>1. Ids \subseteq Nat
      BY DEF Ids, BTypeOK
    <2> QED
      BY <1>2, <2>1 DEF IngestReport
  <1> QED
    BY <1>1, <1>2

\* No step takes a row back, undoes a delete or replaces a label.
LEMMA StepGrows ==
    ASSUME BInv, [BNext]_bvars
    PROVE  Grows
  <1>1. BTypeOK /\ RunInv /\ Len(rows) \in Nat
    BY DEF BInv, BTypeOK
  <1>2. CASE IngestComplaint \/ IngestReport
    <2>1. PICK subject \in {"own", "report"}, of \in Nat, label \in {"complaint", "report"} :
             Ingest(subject, of, label)
      BY <1>1, <1>2, IngestsWhat
    <2>2. subject \in Subjects /\ label \in Labels
      BY DEF Subjects, Labels
    <2>3. /\ Len(rows') = Len(rows) + 1 /\ gone' = gone
          /\ \A i \in Ids : rows'[i] = rows[i] /\ source'[i] = source[i]
      BY <1>1, <2>1, <2>2, IngestAppends
    <2> QED
      BY <1>1, <2>3 DEF Grows
  <1>3. CASE FlushExact
    BY <1>1, <1>3, ExactWrites DEF Grows
  <1>4. CASE FlushPairs
    BY <1>1, <1>4, PairsWrites, PickedIsEmpty DEF Grows
  <1>5. CASE Quiet
    <2>1. rows' = rows /\ source' = source /\ gone \subseteq gone'
      BY <1>5 DEF Quiet, DeleteRow, Second, Start, SelectReports, PairNext, Abort, bvars
    <2> QED
      BY <1>1, <2>1 DEF Grows
  <1> QED
    BY <1>2, <1>3, <1>4, <1>5 DEF BNext, Command, Quiet

\* One turn of the pairing loop.
LEMMA PairTurn ==
    ASSUME BTypeOK, TableInv, PairNext
    PROVE  \E a \in run.todo, r \in Nat :
              /\ r = PickOf(a)
              /\ run' = [run EXCEPT !.todo = @ \ {a}, !.picks = Append(@, <<a, r>>)]
  <1>1. run.todo \subseteq Nat /\ run.todo # {}
    BY RunFields DEF PairNext
  <1>2. \E i \in run.todo : \A j \in run.todo : i <= j
    BY <1>1, HasLeast
  <1> DEFINE a == CHOOSE i \in run.todo : \A j \in run.todo : i <= j
  <1>3. a \in run.todo
    BY <1>2
  <1>4. run' = [run EXCEPT !.todo = @ \ {a}, !.picks = Append(@, <<a, PickOf(a)>>)]
    BY DEF PairNext, PickOf
  <1> HIDE DEF a
  <1>5. PickOf(a) \in Nat
    <2>1. Candidates(a) \subseteq Nat
      BY DEF Candidates, Present, Ids, BTypeOK
    <2> QED
      BY <2>1, NearestIsFirst DEF PickOf
  <1> QED
    BY <1>3, <1>4, <1>5

\* Every step keeps the types.
LEMMA TypeKept ==
    ASSUME BInv, [BNext]_bvars
    PROVE  BTypeOK'
  <1>1. BTypeOK /\ TableInv /\ RunInv /\ run \in Run /\ Len(rows) \in Nat
    BY DEF BInv, BTypeOK
  <1>2. CASE IngestComplaint \/ IngestReport
    <2>1. PICK subject \in {"own", "report"}, of \in Nat, label \in {"complaint", "report"} :
             Ingest(subject, of, label)
      BY <1>1, <1>2, IngestsWhat
    <2>2. subject \in Subjects /\ label \in Labels
      BY DEF Subjects, Labels
    <2>3. /\ rows' \in Seq(MailRow) /\ source' \in Seq(Labels \cup {NoSource})
          /\ Len(source') = Len(rows') /\ Ids \subseteq Ids'
          /\ UNCHANGED <<gone, clock, run, runs, done>>
      BY <1>1, <2>1, <2>2, IngestAppends
    <2> QED
      BY <1>1, <2>3 DEF BTypeOK
  <1>3. CASE FlushExact
    BY <1>1, <1>3, ExactWrites DEF BTypeOK, Ids
  <1>4. CASE FlushPairs
    <2>1. Picks \subseteq Nat \X Nat
      BY <1>1, RunFields
    <2> QED
      BY <1>1, <1>4, <2>1, PairsWrites DEF BTypeOK, Ids
  <1>5. CASE Quiet
    <2>1. rows' = rows /\ source' = source /\ done' = done
      BY <1>5 DEF Quiet, DeleteRow, Second, Start, SelectReports, PairNext, Abort, bvars
    <2>2. gone' \subseteq Ids /\ clock' \in Nat /\ runs' \in Nat
      <3>1. gone \subseteq Ids /\ clock \in Nat /\ runs \in Nat
        BY <1>1 DEF BTypeOK
      <3>2. \/ UNCHANGED <<clock, runs>> /\ \E i \in Present : gone' = gone \cup {i}
            \/ UNCHANGED <<gone, runs>> /\ clock' = clock + 1
            \/ UNCHANGED <<gone, clock>> /\ runs' = runs + 1
            \/ UNCHANGED <<gone, clock, runs>>
        BY <1>5, Zenon DEF Quiet, DeleteRow, Second, Start, SelectReports, PairNext, Abort, bvars
      <3> QED
        BY <3>1, <3>2 DEF Present
    <2>3. run' \in Run
      <3>0. NoRun \in Run
        <4>1. <<>> \in Seq(Nat \X Nat)
          OBVIOUS
        <4>2. <<>> \in [{} -> Labels]
          OBVIOUS
        <4>3. <<>> \in UNION {[ids -> Labels] : ids \in SUBSET Nat}
          BY <4>2
        <4> QED
          BY <4>1, <4>3 DEF NoRun, Run
      <3>1. CASE UNCHANGED run
        BY <1>1, <3>1
      <3>2. CASE Abort
        BY <3>0, <3>2 DEF Abort
      <3>3. CASE \E apply, pair \in BOOLEAN : Start(apply, pair)
        <4>1. {i \in Present : source[i] = NoSource /\ rows[i].subject \in Labels} \in SUBSET Nat
          BY <1>1 DEF Present, Ids
        <4> QED
          BY <3>0, <3>3, <4>1 DEF Start, Run
      <3>4. CASE SelectReports
        <4>1. {i \in Present : Seen(i) = "report"} \in SUBSET Nat
          BY <1>1 DEF Present, Ids
        <4> QED
          BY <1>1, <3>4, <4>1 DEF SelectReports, Run
      <3>5. CASE PairNext
        <4>1. PICK a \in run.todo, r \in Nat :
                 run' = [run EXCEPT !.todo = @ \ {a}, !.picks = Append(@, <<a, r>>)]
          BY <1>1, <3>5, PairTurn
        <4>2. run.picks \in Seq(Nat \X Nat) /\ run.todo \subseteq Nat
          BY <1>1, RunFields
        <4>3. Append(run.picks, <<a, r>>) \in Seq(Nat \X Nat) /\ run.todo \ {a} \in SUBSET Nat
          BY <4>1, <4>2
        <4> QED
          BY <1>1, <4>1, <4>3 DEF Run
      <3> QED
        BY <1>5, <3>1, <3>2, <3>3, <3>4, <3>5 DEF Quiet, DeleteRow, Second, bvars
    <2> QED
      BY <1>1, <2>1, <2>2, <2>3 DEF BTypeOK, Ids
  <1> QED
    BY <1>2, <1>3, <1>4, <1>5 DEF BNext, Command, Quiet

\* The table stays one that ingests can leave.
LEMMA TableKept ==
    ASSUME BInv, [BNext]_bvars
    PROVE  TableInv'
  <1>1. BTypeOK /\ TableInv /\ RunInv /\ Len(rows) \in Nat /\ DOMAIN rows = Ids /\ Ids = 1..Len(rows)
    BY DEF BInv, BTypeOK, Ids
  <1>2. BTypeOK'
    BY TypeKept
  <1>3. ASSUME rows' = rows, clock' = clock \/ clock' = clock + 1,
               \A i \in Ids : source'[i] = "report" => rows[i].subject = "report"
        PROVE  TableInv'
    <2>1. Ids' = Ids
      BY <1>3 DEF Ids
    <2>2. \A i \in Ids : rows[i].at \in Nat
      BY <1>1, RowFields
    <2>3. clock \in Nat
      BY <1>1 DEF BTypeOK
    <2> QED
      BY <1>1, <1>3, <2>1, <2>2, <2>3 DEF TableInv
  <1>4. CASE IngestComplaint \/ IngestReport
    <2> DEFINE n == Len(rows) + 1
    <2>1. PICK subject \in {"own", "report"}, of \in Nat, label \in {"complaint", "report"} :
              /\ Ingest(subject, of, label)
              /\ subject = "own" <=> label = "complaint"
              /\ subject = "own" => of = 0
              /\ subject = "report" => /\ of \in Ids /\ rows[of].subject \in {"own", "complaint"}
                                       /\ \A a \in Ids : rows[a].of # of
      BY <1>1, <1>4, IngestsWhat
    <2>2. subject \in Subjects /\ label \in Labels
      BY DEF Subjects, Labels
    <2>3. /\ Ids' = Ids \cup {n} /\ n \notin Ids /\ clock' = clock
          /\ \A i \in Ids : rows'[i] = rows[i] /\ source'[i] = source[i]
          /\ rows'[n] = [subject |-> subject, at |-> clock, of |-> of]
          /\ source'[n] = label /\ rows' \in Seq(MailRow)
      BY <1>1, <2>1, <2>2, IngestAppends
    <2>4. DOMAIN rows' = Ids' /\ clock \in Nat
      BY <1>1, <2>3 DEF Ids, BTypeOK
    <2>5. \A i \in Ids' : rows'[i].at <= clock'
      BY <1>1, <2>3, <2>4 DEF TableInv
    <2>6. \A i \in Ids' : source'[i] = "report" => rows'[i].subject = "report"
      BY <1>1, <2>1, <2>3 DEF TableInv
    <2>7. ASSUME NEW i \in Ids', NEW j \in Ids', i < j PROVE rows'[i].at <= rows'[j].at
      <3>1. i \in Ids
        BY <1>1, <2>3, <2>7
      <3>2. CASE j \in Ids
        BY <1>1, <2>3, <2>7, <3>1, <3>2 DEF TableInv, Plausible
      <3>3. CASE j = n
        BY <1>1, <2>3, <3>1, <3>3 DEF TableInv
      <3> QED
        BY <2>3, <3>2, <3>3
    <2>8. ASSUME NEW a \in Ids', rows'[a].subject = "report"
          PROVE  /\ rows'[a].of \in 1..(a - 1)
                 /\ rows'[rows'[a].of].subject \in {"own", "complaint"}
                 /\ \A b \in Ids' \ {a} : rows'[b].of # rows'[a].of
      <3>1. CASE a \in Ids
        <4>1. rows'[a] = rows[a] /\ rows[a].subject = "report"
          BY <2>3, <2>8, <3>1
        <4>2. /\ rows[a].of \in 1..(a - 1) /\ rows[rows[a].of].subject \in {"own", "complaint"}
              /\ \A b \in Ids \ {a} : rows[b].of # rows[a].of
          BY <1>1, <3>1, <4>1 DEF TableInv, Plausible
        <4>3. rows[a].of \in Ids
          BY <1>1, <3>1, <4>2
        <4>4. rows'[n].of # rows[a].of
          <5>1. rows'[n].of = of /\ (of = 0 \/ of # rows[a].of)
            BY <2>1, <2>3, <3>1
          <5> QED
            BY <3>1, <4>2, <5>1
        <4> QED
          BY <2>3, <4>1, <4>2, <4>3, <4>4
      <3>2. CASE a = n
        <4>1. rows'[n].of = of /\ subject = "report"
          BY <2>3, <2>8, <3>2
        <4>2. of \in Ids /\ rows[of].subject \in {"own", "complaint"} /\ \A b \in Ids : rows[b].of # of
          BY <2>1, <4>1
        <4> QED
          BY <1>1, <2>3, <3>2, <4>1, <4>2
      <3> QED
        BY <2>3, <3>1, <3>2
    <2>9. Plausible(rows)'
      BY <2>4, <2>7, <2>8 DEF Plausible
    <2> QED
      BY <2>5, <2>6, <2>9 DEF TableInv
  <1>5. CASE FlushExact
    <2>1. /\ \A i \in Ids : source'[i] = IF run.apply /\ i \in run.todo THEN rows[i].subject ELSE source[i]
          /\ rows' = rows /\ clock' = clock
      BY <1>1, <1>5, ExactWrites
    <2> QED
      BY <1>1, <1>3, <2>1 DEF TableInv
  <1>6. CASE FlushPairs
    <2>1. /\ \A i \in Ids : source'[i] = IF run.apply /\ i \in Picked THEN "complaint" ELSE source[i]
          /\ rows' = rows /\ clock' = clock
      BY <1>1, <1>6, PairsWrites
    <2> QED
      BY <1>1, <1>3, <2>1 DEF TableInv
  <1>7. CASE Quiet
    <2>1. rows' = rows /\ source' = source /\ (clock' = clock \/ clock' = clock + 1)
      BY <1>7 DEF Quiet, DeleteRow, Second, Start, SelectReports, PairNext, Abort, bvars
    <2> QED
      BY <1>1, <1>3, <2>1 DEF TableInv
  <1> QED
    BY <1>4, <1>5, <1>6, <1>7 DEF BNext, Command, Quiet

\* Pairings stay within the table and keep their reasons.
LEMMA PicksStay ==
    ASSUME BInv, [BNext]_bvars, NEW p, InRange(p), HasCause(p)
    PROVE  InRange(p)' /\ HasCause(p)'
  BY StepGrows, CauseStays DEF BInv

\* The pairings that are committed hold their label, and those that missed the
\* capture keep their reason.
LEMMA DoneKept ==
    ASSUME BInv, [BNext]_bvars
    PROVE  DoneInv'
  <1>1. BTypeOK /\ TableInv /\ RunInv /\ DoneInv /\ Grows
    BY StepGrows DEF BInv
  <1>2. ASSUME NEW p \in done PROVE /\ InRange(p)' /\ HasCause(p)'
                                    /\ p[2] # 0 => source'[p[2]] = "complaint"
    <2>1. InRange(p) /\ HasCause(p) /\ (p[2] # 0 => source[p[2]] = "complaint")
      BY <1>1 DEF DoneInv
    <2>2. p[2] # 0 => p[2] \in Ids
      BY <1>1, <2>1 DEF InRange, Ids, BTypeOK
    <2> QED
      BY <1>1, <2>1, <2>2, PicksStay DEF Grows, NoSource
  <1>3. CASE FlushPairs
    <2>1. /\ done' = IF run.apply THEN done \cup Picks ELSE done
          /\ run.apply => \A i \in Ids : source'[i] = IF i \in Picked THEN "complaint" ELSE source[i]
      BY <1>1, <1>3, PairsWrites
    <2>2. ASSUME run.apply, NEW p \in Picks
          PROVE  InRange(p)' /\ HasCause(p)' /\ (p[2] # 0 => source'[p[2]] = "complaint")
      <3>1. InRange(p) /\ HasCause(p)
        BY <1>1, <2>2 DEF RunInv
      <3>2. p[2] # 0 => p[2] \in Ids /\ p[2] \in Picked
        BY <1>1, <2>2, <3>1 DEF InRange, Ids, BTypeOK, Picked
      <3> QED
        BY <2>1, <2>2, <3>1, <3>2, PicksStay
    <2> QED
      BY <1>2, <2>1, <2>2 DEF DoneInv
  <1>4. CASE done' = done
    BY <1>2, <1>4 DEF DoneInv
  <1>5. IngestComplaint \/ IngestReport => done' = done
    BY DEF IngestComplaint, IngestReport, Ingest
  <1>6. FlushExact => done' = done
    BY DEF FlushExact
  <1>7. Quiet => done' = done
    BY DEF Quiet, DeleteRow, Second, Start, SelectReports, PairNext, Abort, bvars
  <1> QED
    BY <1>3, <1>4, <1>5, <1>6, <1>7 DEF BNext, Command, Quiet

\* What the command is about to write stays empty until it writes it.
LEMMA RunKept ==
    ASSUME BInv, [BNext]_bvars
    PROVE  RunInv'
  <1>1. BTypeOK /\ TableInv /\ RunInv /\ Grows
    BY StepGrows DEF BInv
  <1>2. Ids \subseteq Ids' /\ Ids = 1..Len(rows) /\ Len(rows) \in Nat
    BY <1>1 DEF Grows, Ids, BTypeOK
  <1>3. ASSUME NEW p, InRange(p) PROVE p[2] # 0 => p[2] \in Ids
    BY <1>2, <1>3 DEF InRange
  <1>4. run \in Run
    BY <1>1 DEF BTypeOK
  <1>5. ASSUME run' = run, \A i \in Ids : source'[i] = source[i] PROVE RunInv'
    <2>1. run.pc = "exact" =>
             \A i \in run.todo : i \in Ids' /\ source'[i] = NoSource /\ rows'[i].subject \in Labels
      BY <1>1, <1>2, <1>5 DEF RunInv, Grows
    <2>2. run.apply /\ run.pc = "pair" => \A i \in run.todo : i \in Ids' /\ source'[i] = "report"
      BY <1>1, <1>2, <1>5 DEF RunInv
    <2>3. run.apply => \A p \in Picks : /\ InRange(p)' /\ HasCause(p)'
                                        /\ p[2] # 0 => source'[p[2]] = NoSource
      BY <1>1, <1>3, <1>5, PicksStay DEF RunInv
    <2>4. Picks' = Picks
      BY <1>5 DEF Picks
    <2> QED
      BY <1>1, <1>5, <2>1, <2>2, <2>3, <2>4 DEF RunInv
  <1>6. ASSUME run'.pc \notin {"exact", "pair"}, run'.picks = <<>>, run'.apply => DOMAIN run'.mine = {}
        PROVE  RunInv'
    <2>1. Picks' = {}
      BY <1>6 DEF Picks
    <2> QED
      BY <1>6, <2>1 DEF RunInv
  <1>7. CASE IngestComplaint \/ IngestReport
    <2>1. PICK subject \in {"own", "report"}, of \in Nat, label \in {"complaint", "report"} :
             Ingest(subject, of, label)
      BY <1>1, <1>7, IngestsWhat
    <2>2. subject \in Subjects /\ label \in Labels
      BY DEF Subjects, Labels
    <2> QED
      BY <1>1, <1>5, <2>1, <2>2, IngestAppends
  <1>8. CASE FlushExact
    BY <1>1, <1>6, <1>8, ExactWrites DEF RunInv, FlushExact
  <1>9. CASE FlushPairs
    BY <1>1, <1>6, <1>9, PairsWrites
  <1>10. CASE (\E i \in Present : DeleteRow(i)) \/ Second \/ UNCHANGED bvars
    BY <1>5, <1>10 DEF DeleteRow, Second, bvars
  <1>11. CASE \E apply, pair \in BOOLEAN : Start(apply, pair)
    <2>1. PICK apply, pair \in BOOLEAN : Start(apply, pair)
      BY <1>11
    <2>2. /\ run'.pc = "exact" /\ run'.picks = <<>> /\ run'.mine = <<>>
          /\ run'.todo = {i \in Present : source[i] = NoSource /\ rows[i].subject \in Labels}
          /\ UNCHANGED <<rows, source>>
      BY <2>1 DEF Start, NoRun
    <2>3. Picks' = {} /\ DOMAIN run'.mine = {} /\ Ids' = Ids
      BY <2>2 DEF Picks, Ids
    <2> QED
      BY <2>2, <2>3 DEF RunInv, Present
  <1>12. CASE SelectReports
    <2>1. /\ run'.pc = "pair" /\ run'.todo = {i \in Present : Seen(i) = "report"}
          /\ run'.picks = run.picks /\ run'.mine = run.mine /\ run'.apply = run.apply
          /\ run.pc = "select" /\ UNCHANGED <<rows, source>>
      BY <1>4, <1>12 DEF SelectReports, Run
    <2>2. Picks' = {} /\ Ids' = Ids
      BY <1>1, <2>1 DEF RunInv, Picks, Ids
    <2>3. run.apply => \A i : Seen(i) = source[i]
      BY <1>1 DEF RunInv, Seen
    <2> QED
      BY <1>1, <2>1, <2>2, <2>3 DEF RunInv, Present
  <1>13. CASE PairNext
    <2>1. PICK a \in run.todo, r \in Nat :
             /\ r = PickOf(a)
             /\ run' = [run EXCEPT !.todo = @ \ {a}, !.picks = Append(@, <<a, r>>)]
      BY <1>1, <1>13, PairTurn
    <2>2. run.pc = "pair" /\ UNCHANGED <<rows, source, gone>>
      BY <1>13 DEF PairNext
    <2>3. /\ run'.pc = "pair" /\ run'.todo = run.todo \ {a} /\ run'.apply = run.apply
          /\ run'.mine = run.mine /\ run'.picks = Append(run.picks, <<a, r>>)
      BY <1>4, <2>1, <2>2 DEF Run
    <2>4. Picks' \subseteq Picks \cup {<<a, r>>}
      <3>1. run.picks \in Seq(Nat \X Nat)
        BY <1>1, RunFields
      <3> QED
        BY <2>3, <3>1 DEF Picks
    <2>5. ASSUME run.apply PROVE /\ InRange(<<a, r>>)' /\ HasCause(<<a, r>>)'
                                 /\ r # 0 => source'[r] = NoSource
      <3>1. a \in Ids /\ source[a] = "report" /\ DOMAIN run.mine = {}
        BY <1>1, <2>2, <2>5 DEF RunInv
      <3>2. rows[a].subject = "report"
        BY <1>1, <3>1 DEF TableInv
      <3>3. InRange(<<a, r>>) /\ HasCause(<<a, r>>) /\ (r # 0 => source[r] = NoSource)
        BY <1>1, <2>1, <3>1, <3>2, PickHasCause
      <3>4. InRange(<<a, r>>)' /\ HasCause(<<a, r>>)'
        BY <3>3, PicksStay
      <3> QED
        BY <2>2, <3>3, <3>4
    <2>6. Ids' = Ids
      BY <2>2 DEF Ids
    <2>7. ASSUME run.apply, NEW p \in Picks
          PROVE  InRange(p)' /\ HasCause(p)' /\ (p[2] # 0 => source'[p[2]] = NoSource)
      BY <1>1, <2>2, <2>7, PicksStay DEF RunInv
    <2>8. run.apply => \A p \in Picks' : /\ InRange(p)' /\ HasCause(p)'
                                         /\ p[2] # 0 => source'[p[2]] = NoSource
      <3> SUFFICES ASSUME run.apply, NEW p \in Picks'
                   PROVE  /\ InRange(p)' /\ HasCause(p)'
                          /\ p[2] # 0 => source'[p[2]] = NoSource
        OBVIOUS
      <3>1. CASE p \in Picks
        BY <2>7, <3>1
      <3>2. CASE p = <<a, r>>
        BY <2>5, <3>2
      <3> QED
        BY <2>4, <3>1, <3>2
    <2>9. run.apply => DOMAIN run'.mine = {} /\ \A i \in run'.todo : i \in Ids' /\ source'[i] = "report"
      BY <1>1, <2>2, <2>3, <2>6 DEF RunInv
    <2> QED
      BY <2>3, <2>8, <2>9 DEF RunInv
  <1>14. CASE Abort
    BY <1>6, <1>14 DEF Abort, NoRun
  <1> QED
    BY <1>7, <1>8, <1>9, <1>10, <1>11, <1>12, <1>13, <1>14 DEF BNext, Command

\* The inductive invariant holds in every state of the command and the API.
THEOREM BackfillInvariant == BSpec => []BInv
  <1>1. BInv /\ [BNext]_bvars => BInv'
    BY TypeKept, TableKept, RunKept, DoneKept DEF BInv
  <1> QED
    BY BInitInv, <1>1, PTL DEF BSpec

(***************************************************************************)
(* The theorems                                                            *)
(***************************************************************************)

\* The variables of backfill_sources.py and of the table keep their types, in every
\* state in which the API and the command run side by side.
THEOREM BackfillTypeCorrect == BSpec => []BTypeOK
  BY BackfillInvariant, PTL DEF BInv

\* The command fills empty sources only, and with --apply only, for every table
\* and any number of runs, ingests and deletes.
THEOREM CommandFillsOnly == BSpec => FillsOnly
  <1>1. BInv /\ [BNext]_bvars =>
           [\A i \in Ids : source'[i] # source[i] => source[i] = NoSource /\ run.apply]_bvars
    <2> SUFFICES ASSUME BInv, [BNext]_bvars, NEW i \in Ids, source'[i] # source[i]
                 PROVE  source[i] = NoSource /\ run.apply
      OBVIOUS
    <2>1. BTypeOK /\ RunInv /\ Grows
      BY StepGrows DEF BInv
    <2>2. source[i] = NoSource
      BY <2>1 DEF Grows
    <2>3. CASE IngestComplaint \/ IngestReport
      <3>1. PICK subject \in {"own", "report"}, of \in Nat, label \in {"complaint", "report"} :
               Ingest(subject, of, label)
        BY <2>1, <2>3, IngestsWhat
      <3>2. subject \in Subjects /\ label \in Labels
        BY DEF Subjects, Labels
      <3> QED
        BY <2>1, <3>1, <3>2, IngestAppends
    <2>4. CASE FlushExact
      BY <2>1, <2>2, <2>4, ExactWrites
    <2>5. CASE FlushPairs
      BY <2>1, <2>2, <2>5, PairsWrites
    <2>6. CASE Quiet
      BY <2>6 DEF Quiet, DeleteRow, Second, Start, SelectReports, PairNext, Abort, bvars
    <2> QED
      BY <2>3, <2>4, <2>5, <2>6 DEF BNext, Command, Quiet
  <1> QED
    BY BackfillInvariant, <1>1, PTL DEF BSpec, FillsOnly

\* A label on another row than the report's capture has one of the reasons: a row
\* in between, or a capture that is gone, too old or labelled.
THEOREM WrongPairsHaveCause == BSpec => []WrongNeedsCause
  <1>1. BInv => WrongNeedsCause
    BY DEF BInv, DoneInv, HasCause, WrongNeedsCause
  <1> QED
    BY BackfillInvariant, <1>1, PTL

\* A paired report's capture that is left without a label is too old or gone, or a
\* row between the two took the label.
THEOREM MissesHaveCause == BSpec => []MissNeedsCause
  <1>1. BInv => MissNeedsCause
    <2> SUFFICES ASSUME BInv, NEW p \in done, source[rows[p[1]].of] = NoSource
                 PROVE  LET c == rows[p[1]].of IN
                        \/ TooOld(c, p[1])
                        \/ c \in gone
                        \/ \E r \in (c + 1)..(p[1] - 1) : source[r] = "complaint"
      BY DEF MissNeedsCause
    <2> DEFINE c == rows[p[1]].of
    <2>1. InRange(p) /\ HasCause(p) /\ (p[2] # 0 => source[p[2]] = "complaint")
      BY DEF BInv, DoneInv
    <2>2. c \in Ids /\ c >= 1 /\ p[1] \in Nat /\ p[2] \in 0..(p[1] - 1) /\ c \in Nat
      BY <2>1, CaptureBefore DEF BInv, InRange, Ids, BTypeOK
    <2>3. CASE p[2] = c
      BY <2>1, <2>2, <2>3 DEF NoSource
    <2>4. CASE p[2] # c
      <3>1. TooOld(c, p[1]) \/ c \in gone \/ c < p[2]
        BY <2>1, <2>4 DEF HasCause
      <3>2. c < p[2] => p[2] \in (c + 1)..(p[1] - 1) /\ source[p[2]] = "complaint"
        BY <2>1, <2>2
      <3> QED
        BY <3>1, <3>2
    <2> QED
      BY <2>3, <2>4
  <1> QED
    BY BackfillInvariant, <1>1, PTL
=============================================================================
