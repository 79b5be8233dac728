--------------------------- MODULE EvalSuitesProofs ---------------------------
(***************************************************************************)
(* Proofs about the evals. First EvalSuites, for any number of suites,     *)
(* schedules and cases: one suite at a time holds the lock, an interval    *)
(* starts a schedule once, the summary says what the ledger holds, and a   *)
(* case that nobody runs beside is invalidated by its own fallbacks and by *)
(* no others. Then BrainOverlays, as the instance Brain, for every set of  *)
(* edits and every bound: what the experiments' evidence is worth, and     *)
(* that what was accepted is stored.                                       *)
(***************************************************************************)
EXTENDS EvalSuites, EvalLessons, SequenceTheorems, TLAPS

USE JobsAssumption, PlanAssumption, CapsAssumption

LEMMA IdleTyped == Idle \in Runs
  BY DEF Idle, Runs, NoTag, Attempts

LEMMA ScheduledAreJobs == Scheduled \subseteq Jobs /\ \A i \in DOMAIN Schedules : Schedules[i] \in Scheduled
  BY DEF Jobs, Scheduled, ToSet

LEMMA JobTyped ==
  ASSUME TypeOK, NEW j \in Jobs
  PROVE  /\ job[j] \in Runs
         /\ job[j].pc \in InCase \cup {"idle", "spawned", "preflight", "next", "amnesty", "done"}
         /\ job[j].at \in Nat /\ job[j].again \in BOOLEAN /\ job[j].rows \in Seq(Rows)
         /\ job[j].spent \in Nat /\ job[j].tag \in {NoTag} \cup Tags /\ job[j].fell \in BOOLEAN
         /\ job[j].cost \in Nat /\ job[j].alone \in BOOLEAN /\ job[j].stop \in BOOLEAN
         /\ job[j].verdict \in {"ok", "invalid"} /\ job[j].refused \in 0 .. Attempts
         /\ job[j].noise \in 0 .. LogSize
  BY DEF TypeOK, Runs

LEMMA CaseTyped ==
  ASSUME TypeOK, NEW j \in Jobs, job[j].at \in 1 .. Len(Plan[j]) PROVE Case(j) \in Cases
  BY DEF Case, Cases

LEMMA OwnTagTyped == ASSUME TypeOK, NEW j \in Jobs PROVE OwnTag(j) \in Tags
  BY JobTyped DEF OwnTag, Tags, TypeOK

LEMMA RowTyped ==
  ASSUME TypeOK, NEW j \in Jobs, Case(j) \in Cases,
         NEW st \in {"ok", "invalid", "crashed", "skipped"}
  PROVE  /\ Row(j, st) \in Rows /\ Row(j, st).case = Case(j) /\ Row(j, st).status = st
         /\ Judgement(j, st) \in Rows /\ Judgement(j, st).case = Case(j)
         /\ Judgement(j, st).status = st /\ Judgement(j, st).refused = job[j].refused
         /\ Judgement(j, st).fell = job[j].fell
         /\ Judgement(j, st).sure => job[j].alone /\ job[j].noise < LogSize
  <1>0. /\ job[j].refused \in 0 .. Attempts /\ job[j].fell \in BOOLEAN /\ job[j].alone \in BOOLEAN
        /\ 0 \in 0 .. Attempts
    BY JobTyped DEF Attempts
  <1>1. /\ job[j].refused \in 0 .. Attempts /\ job[j].fell \in BOOLEAN
        /\ Sure(j) \in BOOLEAN /\ 0 \in 0 .. Attempts
    BY <1>0, Zenon DEF Sure
  <1>2. Row(j, st) = [case |-> Case(j), status |-> st, refused |-> 0, fell |-> FALSE, sure |-> TRUE]
    BY DEF Row, Unjudged
  <1>3. Judgement(j, st) = [case |-> Case(j), status |-> st, refused |-> job[j].refused,
                            fell |-> job[j].fell, sure |-> Sure(j)]
    BY DEF Judgement
  <1>4. Row(j, st) \in Rows /\ Judgement(j, st) \in Rows
    BY <1>1, <1>2, <1>3 DEF Rows
  <1>5. QED
    <2>1. /\ Row(j, st).case = Case(j) /\ Row(j, st).status = st
          /\ Judgement(j, st).case = Case(j) /\ Judgement(j, st).status = st
          /\ Judgement(j, st).refused = job[j].refused /\ Judgement(j, st).fell = job[j].fell
          /\ Judgement(j, st).sure = Sure(j)
      BY <1>2, <1>3
    <2>2. QED
      BY <1>4, <2>1 DEF Sure

LEMMA CrashedRowTyped ==
  ASSUME TypeOK, NEW j \in Jobs, NEW n \in {0, 1}
  PROVE  /\ CrashedRow(j, n).case = Case(j) /\ CrashedRow(j, n).status = "crashed"
         /\ CrashedRow(j, n).refused = n
         /\ Case(j) \in Cases => CrashedRow(j, n) \in Rows
  <1>1. CrashedRow(j, n) = [case |-> Case(j), status |-> "crashed", refused |-> n,
                            fell |-> FALSE, sure |-> TRUE]
    BY DEF CrashedRow
  <1>2. n \in 0 .. Attempts
    BY DEF Attempts
  <1>3. QED
    BY <1>1, <1>2 DEF Rows

LEMMA SeqExcept ==
  ASSUME NEW S, NEW q \in Seq(S), NEW k, NEW e \in S
  PROVE  /\ [q EXCEPT ![k] = e] \in Seq(S) /\ Len([q EXCEPT ![k] = e]) = Len(q)
         /\ DOMAIN [q EXCEPT ![k] = e] = DOMAIN q
         /\ \A i \in DOMAIN q : [q EXCEPT ![k] = e][i] = e \/ [q EXCEPT ![k] = e][i] = q[i]
  <1>0. q \in [1 .. Len(q) -> S] /\ Len(q) \in Nat /\ DOMAIN q = 1 .. Len(q)
    BY LenProperties
  <1>1. CASE k \in 1 .. Len(q)
    BY <1>0, <1>1, ExceptSeq
  <1>2. CASE k \notin 1 .. Len(q)
    <2>1. [q EXCEPT ![k] = e] = q
      <3>1. [q EXCEPT ![k] = e] = [x \in DOMAIN q |-> IF x = k THEN e ELSE q[x]]
        BY <1>0
      <3>2. QED
        BY <1>0, <1>2, <3>1
    <2>2. QED
      BY <1>0, <2>1
  <1>3. QED
    BY <1>1, <1>2

\* The rows after an attempt: one more, one replaced or the same.
NewRows(j, row) ==
    IF ~job[j].again THEN Append(job[j].rows, row)
    ELSE IF row.status = "crashed" THEN job[j].rows
    ELSE [job[j].rows EXCEPT ![job[j].at] = row]

LEMMA NewRowsTyped ==
  ASSUME TypeOK, NEW j \in Jobs, NEW row,
         ~job[j].again \/ row.status # "crashed" => row \in Rows
  PROVE  /\ NewRows(j, row) \in Seq(Rows)
         /\ Len(NewRows(j, row)) = Len(job[j].rows) + (IF job[j].again THEN 0 ELSE 1)
         /\ \A i \in DOMAIN NewRows(j, row) :
              \/ NewRows(j, row)[i] = row /\ (~job[j].again \/ row.status # "crashed")
              \/ i \in DOMAIN job[j].rows /\ NewRows(j, row)[i] = job[j].rows[i]
  <1> DEFINE old == job[j].rows
  <1>1. old \in Seq(Rows) /\ job[j].again \in BOOLEAN
    BY JobTyped
  <1>2. CASE ~job[j].again
    <2>1. NewRows(j, row) = Append(old, row) /\ row \in Rows
      BY <1>2 DEF NewRows
    <2>2. /\ Append(old, row) \in Seq(Rows) /\ Len(Append(old, row)) = Len(old) + 1
          /\ \A i \in DOMAIN Append(old, row) :
                Append(old, row)[i] = row \/ (i \in DOMAIN old /\ Append(old, row)[i] = old[i])
      BY <1>1, <2>1
    <2>3. QED
      BY <1>2, <2>1, <2>2
  <1>3. CASE job[j].again /\ row.status = "crashed"
    BY <1>1, <1>3 DEF NewRows
  <1>4. CASE job[j].again /\ row.status # "crashed"
    <2>1. NewRows(j, row) = [old EXCEPT ![job[j].at] = row] /\ row \in Rows
      BY <1>4 DEF NewRows
    <2>2. /\ [old EXCEPT ![job[j].at] = row] \in Seq(Rows)
          /\ Len([old EXCEPT ![job[j].at] = row]) = Len(old)
          /\ \A i \in DOMAIN [old EXCEPT ![job[j].at] = row] :
                \/ [old EXCEPT ![job[j].at] = row][i] = row
                \/ i \in DOMAIN old /\ [old EXCEPT ![job[j].at] = row][i] = old[i]
      <3> DEFINE k == job[j].at
      <3>1. old \in Seq(Rows) /\ row \in Rows
        BY <1>1, <2>1
      <3> HIDE DEF old, k
      <3>2. /\ [old EXCEPT ![k] = row] \in Seq(Rows) /\ Len([old EXCEPT ![k] = row]) = Len(old)
            /\ DOMAIN [old EXCEPT ![k] = row] = DOMAIN old
            /\ \A i \in DOMAIN old : \/ [old EXCEPT ![k] = row][i] = row
                                    \/ [old EXCEPT ![k] = row][i] = old[i]
        BY <3>1, SeqExcept
      <3>3. \A i \in DOMAIN [old EXCEPT ![k] = row] :
               \/ [old EXCEPT ![k] = row][i] = row
               \/ i \in DOMAIN old /\ [old EXCEPT ![k] = row][i] = old[i]
        BY <3>2, Zenon
      <3>4. QED
        BY <3>2, <3>3 DEF k
    <2>3. QED
      BY <1>4, <2>1, <2>2
  <1>5. QED
    BY <1>1, <1>2, <1>3, <1>4

LEMMA EndedTyped ==
  ASSUME TypeOK, NEW j \in Jobs, NEW row, NEW counted \in Nat, NEW stop \in BOOLEAN,
         ~job[j].again \/ row.status # "crashed" => row \in Rows
  PROVE  /\ Ended(j, row, counted, stop) \in Runs
         /\ Ended(j, row, counted, stop).pc = IF job[j].again THEN "amnesty" ELSE "next"
         /\ Ended(j, row, counted, stop).at = job[j].at + 1
         /\ Ended(j, row, counted, stop).again = job[j].again
         /\ Ended(j, row, counted, stop).rows = NewRows(j, row)
         /\ Ended(j, row, counted, stop).tag = NoTag
  <1> DEFINE me == job[j]
             spent == me.spent + counted
             still == me.stop \/ stop
             pc == IF me.again THEN "amnesty" ELSE "next"
  <1>1. me \in Runs
    BY JobTyped
  <1>2. NewRows(j, row) \in Seq(Rows)
    BY NewRowsTyped
  <1>21. spent \in Nat /\ me.at + 1 \in Nat
    BY JobTyped
  <1>22. still \in BOOLEAN
    BY Zenon
  <1>23. pc \in InCase \cup {"idle", "spawned", "preflight", "next", "amnesty", "done"}
    OBVIOUS
  <1>3. Ended(j, row, counted, stop) =
          [me EXCEPT !.tag = NoTag, !.fell = FALSE, !.cost = 0, !.alone = TRUE,
                     !.verdict = "ok", !.refused = 0, !.noise = 0,
                     !.pc = pc, !.at = me.at + 1, !.rows = NewRows(j, row), !.spent = spent,
                     !.stop = still]
    BY <1>1 DEF Ended, Cleared, NewRows, Runs
  <1>4. /\ me = [pc |-> me.pc, at |-> me.at, again |-> me.again, rows |-> me.rows,
                 spent |-> me.spent, tag |-> me.tag, fell |-> me.fell, cost |-> me.cost,
                 alone |-> me.alone, stop |-> me.stop, verdict |-> me.verdict,
                 refused |-> me.refused, noise |-> me.noise]
        /\ me.again \in BOOLEAN
    BY <1>1 DEF Runs
  <1>5. Ended(j, row, counted, stop) =
          [pc |-> pc, at |-> me.at + 1, again |-> me.again, rows |-> NewRows(j, row),
           spent |-> spent, tag |-> NoTag, fell |-> FALSE, cost |-> 0,
           alone |-> TRUE, stop |-> still, verdict |-> "ok", refused |-> 0, noise |-> 0]
    <2> HIDE DEF spent, still, pc
    <2>1. QED
      BY <1>3, <1>4
  <1>6. Ended(j, row, counted, stop) \in Runs
    <2> HIDE DEF spent, still, pc, me
    <2>1. QED
      BY <1>2, <1>21, <1>22, <1>23, <1>4, <1>5 DEF Runs, Attempts
  <1>7. QED
    <2> HIDE DEF spent, still
    <2>1. QED
      BY <1>5, <1>6


------------------------------------------------------------------------------
(* Attempts that end, in whatever way. *)

LEMMA NextCasesAre ==
  ASSUME TypeOK, Positions, NEW j \in Jobs, NEW i \in NextCases(j)
  PROVE  /\ i \in 1 .. Len(Plan[j]) /\ i >= job[j].at /\ Plan[j][i] \in Cases
         /\ \/ job[j].pc = "next" /\ ~job[j].again /\ i = job[j].at
            \/ job[j].pc = "amnesty" /\ job[j].again
  BY JobTyped DEF NextCases, Invalid, Positions, Cases

\* What the end of an attempt of j leaves, when its row is "row".
AttemptEnds(j, row) ==
    /\ job' \in [Jobs -> Runs] /\ \A k \in Jobs \ {j} : job'[k] = job[k]
    /\ job[j].pc \in InCase \cup {"next", "amnesty"}
    /\ job[j].at \in 1 .. Len(Plan[j]) \/ job[j].again
    /\ job'[j].pc = IF job[j].again THEN "amnesty" ELSE "next"
    /\ job'[j].at >= job[j].at + 1 /\ (~job[j].again => job'[j].at = job[j].at + 1)
    /\ job'[j].again = job[j].again /\ job'[j].tag = NoTag
    /\ job'[j].rows = NewRows(j, row)
    /\ ~job[j].again \/ row.status # "crashed" => row \in Rows
    /\ tag' = tag \/ (job[j].pc \in InCase /\ tag' = NoTag)
    /\ ledger' \in [Jobs -> SUBSET (Cases \X {"ok", "invalid", "crashed"})]
    /\ \A k \in Jobs : ledger[k] \subseteq ledger'[k]
    /\ (~job[j].again \/ row.status # "crashed")
       /\ row.status \in {"ok", "invalid", "crashed"} =>
            <<row.case, row.status>> \in ledger'[j] \/ Unsaved(row)
    /\ row.sure => VerdictIsRight(row)
    /\ log' = log \/ (job[j].pc \in InCase /\ log' = <<>>)
    /\ UNCHANGED <<suiteVars, schedVars, starts>> /\ mishaps' \in Nat

LEMMA MishapTyped == ASSUME TypeOK, Mishap \/ UNCHANGED mishaps PROVE mishaps' \in Nat
  BY DEF TypeOK, Mishap

LEMMA LedgerPut ==
  ASSUME TypeOK, NEW j \in Jobs, NEW c \in Cases, NEW v \in {"ok", "invalid", "crashed"}
  PROVE  /\ [ledger EXCEPT ![j] = @ \cup {<<c, v>>}] \in [Jobs -> SUBSET (Cases \X {"ok", "invalid", "crashed"})]
         /\ \A k \in Jobs : ledger[k] \subseteq [ledger EXCEPT ![j] = @ \cup {<<c, v>>}][k]
         /\ <<c, v>> \in [ledger EXCEPT ![j] = @ \cup {<<c, v>>}][j]
  BY DEF TypeOK

LEMMA EndedIs ==
  ASSUME TypeOK, NEW j \in Jobs, NEW row \in Rows, NEW counted \in Nat, NEW stop \in BOOLEAN
  PROVE  /\ Ended(j, row, counted, stop) \in Runs
         /\ Ended(j, row, counted, stop).pc = IF job[j].again THEN "amnesty" ELSE "next"
         /\ Ended(j, row, counted, stop).at = job[j].at + 1
         /\ Ended(j, row, counted, stop).again = job[j].again
         /\ Ended(j, row, counted, stop).rows = NewRows(j, row)
         /\ Ended(j, row, counted, stop).tag = NoTag
  BY EndedTyped

\* An attempt that was in progress ends with Ended.
LEMMA EndsAttempt ==
  ASSUME TypeOK, Positions, NEW j \in Jobs, job[j].pc \in InCase,
         NEW row \in Rows, NEW counted \in Nat, NEW stop \in BOOLEAN,
         job' = [job EXCEPT ![j] = Ended(j, row, counted, stop)],
         CleanUp(j), UNCHANGED <<suiteVars, schedVars, starts>>, mishaps' \in Nat,
         ledger' \in [Jobs -> SUBSET (Cases \X {"ok", "invalid", "crashed"})],
         \A k \in Jobs : ledger[k] \subseteq ledger'[k],
         (~job[j].again \/ row.status # "crashed")
         /\ row.status \in {"ok", "invalid", "crashed"} =>
              <<row.case, row.status>> \in ledger'[j] \/ Unsaved(row),
         row.sure => VerdictIsRight(row)
  PROVE  AttemptEnds(j, row)
  <1> DEFINE x == Ended(j, row, counted, stop)
  <1>1. /\ x \in Runs /\ x.pc = IF job[j].again THEN "amnesty" ELSE "next"
        /\ x.at = job[j].at + 1 /\ x.again = job[j].again
        /\ x.rows = NewRows(j, row) /\ x.tag = NoTag
    BY EndedIs
  <1>2. job' = [job EXCEPT ![j] = x]
    OBVIOUS
  <1> HIDE DEF x
  <1>3. job' \in [Jobs -> Runs] /\ job'[j] = x /\ \A k \in Jobs \ {j} : job'[k] = job[k]
    BY <1>1, <1>2 DEF TypeOK
  <1>4. job[j].at \in 1 .. Len(Plan[j]) /\ job[j].at \in Nat
    BY JobTyped DEF Positions
  <1>5. (tag' = tag \/ tag' = NoTag) /\ (log' = log \/ log' = <<>>)
    BY DEF CleanUp, Forgotten
  <1>6. job'[j].at >= job[j].at + 1 /\ job'[j].at = job[j].at + 1
    BY <1>1, <1>3, <1>4
  <1>7. QED
    BY <1>1, <1>3, <1>4, <1>5, <1>6 DEF AttemptEnds

\* What is in the log is found there.
LEMMA InLog == ASSUME NEW i \in DOMAIN log PROVE log[i] \in ToSet(log)
  BY DEF ToSet

\* The verdict on a case that ran alone and whose fallbacks the log still has.
LEMMA OutcomeIsRight ==
  ASSUME TypeOK, AloneIsOwn, NEW j \in Jobs, job[j].pc \in {"judge", "record"}
  PROVE  /\ Outcome(j) \in {"ok", "invalid"}
         /\ job[j].alone /\ job[j].noise < LogSize =>
              /\ Outcome(j) = "invalid" => job[j].fell
              /\ Outcome(j) = "ok" => ~job[j].fell
<1>0. job[j].verdict \in {"ok", "invalid"} /\ job[j].noise \in Nat /\ job[j].pc \in InCase
  BY JobTyped DEF InCase
<1>1. Outcome(j) \in {"ok", "invalid"}
  BY <1>0 DEF Outcome
<1>2. SUFFICES ASSUME job[j].alone, job[j].noise < LogSize
      PROVE  /\ Outcome(j) = "invalid" => job[j].fell
             /\ Outcome(j) = "ok" => ~job[j].fell
  BY <1>1
<1>3. job[j].tag = OwnTag(j) /\ Verdicts(j)
  BY <1>0, <1>2 DEF AloneIsOwn
<1>4. CASE job[j].pc = "record"
  BY <1>2, <1>3, <1>4 DEF Outcome, Verdicts
<1>5. CASE job[j].pc = "judge"
  <2>1. Outcome(j) = IF OwnTag(j) \in ToSet(log) THEN "invalid" ELSE "ok"
    BY <1>3, <1>5 DEF Outcome, FellBack
  <2>2. OwnTag(j) \in ToSet(log) => job[j].fell
    BY <1>3, <1>5 DEF Verdicts
  <2>3. job[j].fell => OwnTag(j) \in ToSet(log)
    <3>1. SUFFICES ASSUME job[j].fell PROVE OwnTag(j) \in ToSet(log)
      OBVIOUS
    <3>2. job[j].noise < Len(log) /\ log[Len(log) - job[j].noise] = OwnTag(j)
      BY <1>2, <1>3, <1>5, <3>1 DEF Verdicts
    <3>3. Len(log) \in Nat /\ DOMAIN log = 1 .. Len(log)
      BY LenProperties DEF TypeOK
    <3>4. Len(log) - job[j].noise \in DOMAIN log
      BY <1>0, <3>2, <3>3
    <3>5. QED
      BY <3>2, <3>4, InLog
  <2>4. QED
    BY <2>1, <2>2, <2>3
<1>6. QED
  BY <1>4, <1>5

LEMMA AttemptEnded ==
  ASSUME TypeOK, Positions, AloneIsOwn, NEW j \in Jobs,
         Unfit(j) \/ BackendDown(j) \/ CaseRaises(j) \/ Collides(j)
         \/ ProposalRaises(j) \/ Written(j) \/ GivenUp(j)
  PROVE  \E row : AttemptEnds(j, row)
<1>1. job[j].again \in BOOLEAN /\ job[j].at \in Nat
  BY JobTyped
<1>2. ASSUME job[j].pc \in InCase
      PROVE  job[j].at \in 1 .. Len(Plan[j]) /\ Case(j) \in Cases
  BY <1>2, CaseTyped DEF Positions
<1>5. /\ ledger \in [Jobs -> SUBSET (Cases \X {"ok", "invalid", "crashed"})]
      /\ mishaps \in Nat
  BY DEF TypeOK
<1>6. CASE Unfit(j)
  <2> DEFINE row == Row(j, "skipped")
  <2>1. job[j].pc \in InCase
    BY <1>6 DEF Unfit, InCase
  <2>2. row \in Rows /\ row.status = "skipped"
    BY <2>1, <1>2, RowTyped
  <2>3. AttemptEnds(j, row)
    <3>1. job' = [job EXCEPT ![j] = Ended(j, row, 0, FALSE)]
      BY <1>6 DEF Unfit
    <3>2. CleanUp(j) /\ UNCHANGED <<suiteVars, ledger, schedVars, starts>> /\ Mishap
      BY <1>6 DEF Unfit
    <3>3. mishaps' \in Nat
      BY <3>2, MishapTyped
    <3>4. VerdictIsRight(row)
      BY <2>2 DEF VerdictIsRight
    <3>5. UNCHANGED ledger
      BY <3>2
    <3> HIDE DEF row
    <3>6. QED
      BY <1>5, <2>1, <2>2, <3>1, <3>2, <3>3, <3>4, <3>5, EndsAttempt
  <2>4. QED
    BY <2>3
<1>7. CASE BackendDown(j)
  <2> DEFINE st == IF job[j].again THEN "crashed" ELSE "skipped"
             row == Row(j, st)
  <2>1. job[j].pc \in InCase
    BY <1>7 DEF BackendDown, InCase
  <2>2. /\ row \in Rows /\ row.status \in {"crashed", "skipped"}
        /\ job[j].again <=> row.status = "crashed"
    <3>1. st \in {"crashed", "skipped"} /\ (job[j].again <=> st = "crashed")
      OBVIOUS
    <3>2. Case(j) \in Cases
      BY <1>2, <2>1
    <3> HIDE DEF st
    <3>3. st \in {"ok", "invalid", "crashed", "skipped"}
      BY <3>1
    <3>4. row \in Rows /\ row.status = st
      BY <3>2, <3>3, RowTyped, ZenonT(60)
    <3>5. QED
      BY <3>1, <3>4
  <2>3. AttemptEnds(j, row)
    <3> DEFINE stop == ~job[j].again
    <3>1. job' = [job EXCEPT ![j] = Ended(j, row, 0, stop)]
      BY <1>7 DEF BackendDown
    <3>2. CleanUp(j) /\ UNCHANGED <<suiteVars, ledger, schedVars, starts>> /\ Mishap
      BY <1>7 DEF BackendDown
    <3>3. stop \in BOOLEAN
      BY Zenon
    <3>4. mishaps' \in Nat
      BY <3>2, MishapTyped
    <3> HIDE DEF row, stop
    <3>5. VerdictIsRight(row)
      BY <2>2 DEF VerdictIsRight
    <3>6. UNCHANGED ledger
      BY <3>2
    <3>7. (~job[j].again \/ row.status # "crashed")
          /\ row.status \in {"ok", "invalid", "crashed"} =>
               <<row.case, row.status>> \in ledger'[j] \/ Unsaved(row)
      BY <2>2
    <3>8. QED
      BY <1>5, <2>1, <2>2, <3>1, <3>2, <3>3, <3>4, <3>5, <3>6, <3>7, EndsAttempt
  <2>4. QED
    BY <2>3

<1>8. ASSUME NEW saved \in BOOLEAN, Case(j) \in Cases \/ job[j].again
      PROVE  /\ CrashRow(j, saved) \in [Jobs -> SUBSET (Cases \X {"ok", "invalid", "crashed"})]
             /\ \A k \in Jobs : ledger[k] \subseteq CrashRow(j, saved)[k]
             /\ saved /\ ~job[j].again => <<Case(j), "crashed">> \in CrashRow(j, saved)[j]
  <2>1. CASE saved /\ ~job[j].again
    BY <1>8, <2>1, LedgerPut DEF CrashRow, Put
  <2>2. CASE ~(saved /\ ~job[j].again)
    BY <1>5, <2>2 DEF CrashRow
  <2>3. QED
    BY <2>1, <2>2
<1>81. ASSUME NEW saved \in BOOLEAN
       PROVE  LET n == IF saved THEN 0 ELSE 1
                  row == CrashedRow(j, n)
              IN  /\ row.status = "crashed" /\ row.case = Case(j)
                  /\ Case(j) \in Cases => row \in Rows
                  /\ saved \/ Unsaved(row)
                  /\ Crashed(j, saved) = Ended(j, row, 0, FALSE)
  <2> DEFINE n == IF saved THEN 0 ELSE 1
  <2>1. n \in {0, 1} /\ (saved \/ n = 1)
    OBVIOUS
  <2>2. Crashed(j, saved) = Ended(j, CrashedRow(j, n), 0, FALSE)
    BY DEF Crashed
  <2> HIDE DEF n
  <2>3. /\ CrashedRow(j, n).case = Case(j) /\ CrashedRow(j, n).status = "crashed"
        /\ CrashedRow(j, n).refused = n
        /\ Case(j) \in Cases => CrashedRow(j, n) \in Rows
    BY <2>1, CrashedRowTyped
  <2>4. saved \/ Unsaved(CrashedRow(j, n))
    BY <2>1, <2>3 DEF Unsaved
  <2>5. QED
    BY <2>2, <2>3, <2>4 DEF n
<1>9. CASE CaseRaises(j) \/ ProposalRaises(j)
  <2>1. PICK saved \in BOOLEAN :
          /\ job' = [job EXCEPT ![j] = Crashed(j, saved)]
          /\ \/ ledger' = CrashRow(j, saved)
             \/ /\ job[j].pc \in {"judge", "record"}
                /\ ledger' = [ledger EXCEPT ![j] = Put(j, Outcome(j))[j] \cup CrashRow(j, saved)[j]]
    BY <1>9 DEF CaseRaises, ProposalRaises, Saves
  <2> DEFINE row == CrashedRow(j, IF saved THEN 0 ELSE 1)
  <2>2. job[j].pc \in InCase
    BY <1>9 DEF CaseRaises, ProposalRaises, InCase
  <2>3. Case(j) \in Cases
    BY <1>2, <2>2
  <2>4. /\ row \in Rows /\ row.status = "crashed" /\ row.case = Case(j)
        /\ saved \/ Unsaved(row)
        /\ Crashed(j, saved) = Ended(j, row, 0, FALSE)
    BY <1>81, <2>3, Zenon
  <2>5. /\ ledger' \in [Jobs -> SUBSET (Cases \X {"ok", "invalid", "crashed"})]
        /\ \A k \in Jobs : ledger[k] \subseteq ledger'[k]
        /\ saved /\ ~job[j].again => <<Case(j), "crashed">> \in ledger'[j]
    <3>1. CASE ledger' = CrashRow(j, saved)
      BY <1>8, <2>3, <3>1, Zenon
    <3>2. CASE /\ job[j].pc \in {"judge", "record"}
               /\ ledger' = [ledger EXCEPT ![j] = Put(j, Outcome(j))[j] \cup CrashRow(j, saved)[j]]
      <4> DEFINE A == Put(j, Outcome(j))
                 B == CrashRow(j, saved)
      <4>1. Outcome(j) \in {"ok", "invalid", "crashed"}
        BY <3>2, OutcomeIsRight
      <4>2. A \in [Jobs -> SUBSET (Cases \X {"ok", "invalid", "crashed"})]
        BY <2>3, <4>1, LedgerPut DEF Put
      <4>3. /\ B \in [Jobs -> SUBSET (Cases \X {"ok", "invalid", "crashed"})]
            /\ \A k \in Jobs : ledger[k] \subseteq B[k]
            /\ saved /\ ~job[j].again => <<Case(j), "crashed">> \in B[j]
        BY <1>8, <2>3, Zenon
      <4>4. ledger' = [ledger EXCEPT ![j] = A[j] \cup B[j]]
        BY <3>2
      <4> HIDE DEF A, B
      <4>5. /\ ledger'[j] = A[j] \cup B[j] /\ \A k \in Jobs \ {j} : ledger'[k] = ledger[k]
            /\ ledger' \in [Jobs -> SUBSET (Cases \X {"ok", "invalid", "crashed"})]
        BY <1>5, <4>2, <4>3, <4>4
      <4>6. QED
        BY <4>3, <4>5
    <3>3. QED
      BY <2>1, <3>1, <3>2
  <2>6. (~job[j].again \/ row.status # "crashed")
        /\ row.status \in {"ok", "invalid", "crashed"} =>
             <<row.case, row.status>> \in ledger'[j] \/ Unsaved(row)
    BY <2>4, <2>5
  <2>7. AttemptEnds(j, row)
    <3>1. job' = [job EXCEPT ![j] = Ended(j, row, 0, FALSE)]
      BY <2>1, <2>4
    <3>2. CleanUp(j) /\ UNCHANGED <<suiteVars, schedVars, starts>> /\ Mishap
      BY <1>9 DEF CaseRaises, ProposalRaises
    <3>3. mishaps' \in Nat
      BY <3>2, MishapTyped
    <3> HIDE DEF row
    <3>4. VerdictIsRight(row)
      BY <2>4 DEF VerdictIsRight
    <3>5. QED
      BY <2>2, <2>4, <2>5, <2>6, <3>1, <3>2, <3>3, <3>4, EndsAttempt
  <2>8. QED
    BY <2>7
<1>10. CASE Collides(j)
  <2>1. PICK i \in NextCases(j), saved \in BOOLEAN :
          /\ MayFail(~saved) /\ ledger' = CrashRow(j, saved)
          /\ job' = [job EXCEPT ![j] = [Crashed(j, saved) EXCEPT !.at = i + 1]]
    BY <1>10 DEF Collides, Saves
  <2> DEFINE row == CrashedRow(j, IF saved THEN 0 ELSE 1)
             old == Ended(j, row, 0, FALSE)
             x == [old EXCEPT !.at = i + 1]
  <2>2. /\ i \in 1 .. Len(Plan[j]) /\ i >= job[j].at
        /\ \/ job[j].pc = "next" /\ ~job[j].again /\ i = job[j].at
           \/ job[j].pc = "amnesty" /\ job[j].again
    BY NextCasesAre
  <2>3. ~job[j].again => Case(j) \in Cases
    BY <2>2, CaseTyped
  <2>4. /\ row.status = "crashed" /\ row.case = Case(j) /\ (~job[j].again => row \in Rows)
        /\ saved \/ Unsaved(row)
        /\ Crashed(j, saved) = old
    BY <1>81, <2>3, Zenon
  <2>5. /\ old \in Runs /\ old.pc = IF job[j].again THEN "amnesty" ELSE "next"
        /\ old.again = job[j].again /\ old.rows = NewRows(j, row) /\ old.tag = NoTag
    <3> HIDE DEF row
    <3>1. ~job[j].again \/ row.status # "crashed" => row \in Rows
      BY <2>4
    <3>2. QED
      BY <3>1, EndedTyped, ZenonT(60)
  <2>6. /\ x \in Runs /\ x.pc = old.pc /\ x.again = old.again /\ x.rows = old.rows
        /\ x.tag = old.tag /\ x.at = i + 1
    <3>1. i + 1 \in Nat
      BY <2>2
    <3> HIDE DEF old
    <3>2. QED
      BY <2>5, <3>1 DEF Runs
  <2>7. job' = [job EXCEPT ![j] = x] /\ UNCHANGED <<suiteVars, tag, log, schedVars, starts>>
    BY <1>10, <2>1, <2>4 DEF Collides
  <2>8. /\ ledger' \in [Jobs -> SUBSET (Cases \X {"ok", "invalid", "crashed"})]
        /\ \A k \in Jobs : ledger[k] \subseteq ledger'[k]
        /\ saved /\ ~job[j].again => <<Case(j), "crashed">> \in ledger'[j]
    BY <1>1, <1>8, <2>1, <2>3
  <2>81. mishaps' \in Nat
    BY <2>1, MishapTyped DEF MayFail
  <2>9. AttemptEnds(j, row)
    <3> HIDE DEF x, row, old
    <3>1. job' \in [Jobs -> Runs] /\ job'[j] = x /\ \A k \in Jobs \ {j} : job'[k] = job[k]
      BY <2>6, <2>7 DEF TypeOK
    <3>2. x.at >= job[j].at + 1 /\ (~job[j].again => x.at = job[j].at + 1)
      BY <1>1, <2>2, <2>6
    <3>3. VerdictIsRight(row)
      BY <2>4 DEF VerdictIsRight
    <3>4. job[j].at \in 1 .. Len(Plan[j]) \/ job[j].again
      BY <2>2
    <3>5. /\ ~job[j].again \/ row.status # "crashed" => row \in Rows
          /\ (~job[j].again \/ row.status # "crashed")
             /\ row.status \in {"ok", "invalid", "crashed"} =>
                  <<row.case, row.status>> \in ledger'[j] \/ Unsaved(row)
      BY <2>4, <2>8
    <3>6. UNCHANGED <<suiteVars, schedVars, starts>> /\ tag' = tag /\ log' = log
      BY <2>7
    <3>7. job[j].pc \in InCase \cup {"next", "amnesty"}
      BY <2>2
    <3>8. QED
      BY <2>5, <2>6, <2>8, <2>81, <3>1, <3>2, <3>3, <3>4, <3>5, <3>6, <3>7 DEF AttemptEnds
  <2>10. QED
    BY <2>9
<1>11. CASE Written(j) \/ GivenUp(j)
  <2> DEFINE st == Outcome(j)
             row == Judgement(j, st)
  <2>1. /\ job' = [job EXCEPT ![j] = Ended(j, row, job[j].cost, FALSE)]
        /\ CleanUp(j) /\ UNCHANGED <<suiteVars, schedVars, starts, mishaps>>
        /\ ledger' = Put(j, st) \/ (UNCHANGED ledger /\ job[j].refused = Attempts)
        /\ job[j].pc \in {"judge", "record"}
    BY <1>11 DEF Written, GivenUp, Outcome
  <2>2. job[j].pc \in InCase
    BY <2>1 DEF InCase
  <2>3. Case(j) \in Cases /\ job[j].cost \in Nat
    BY <1>2, <2>2, JobTyped
  <2>4. st \in {"ok", "invalid"}
    BY <2>1, OutcomeIsRight
  <2>5. /\ row \in Rows /\ row.status = st /\ row.case = Case(j)
        /\ row.refused = job[j].refused /\ row.fell = job[j].fell
        /\ row.sure => job[j].alone /\ job[j].noise < LogSize
    <3> HIDE DEF st
    <3>1. st \in {"ok", "invalid", "crashed", "skipped"}
      BY <2>4
    <3>2. QED
      BY <2>3, <3>1, RowTyped, ZenonT(60)
  <2>6. row.sure => VerdictIsRight(row)
    <3>1. SUFFICES ASSUME row.sure PROVE VerdictIsRight(row)
      OBVIOUS
    <3>2. (st = "invalid" => job[j].fell) /\ (st = "ok" => ~job[j].fell)
      BY <2>1, <2>5, <3>1, OutcomeIsRight
    <3> HIDE DEF row, st
    <3>3. QED
      BY <2>5, <3>2 DEF VerdictIsRight
  <2>7. /\ ledger' \in [Jobs -> SUBSET (Cases \X {"ok", "invalid", "crashed"})]
        /\ \A k \in Jobs : ledger[k] \subseteq ledger'[k]
        /\ <<Case(j), st>> \in ledger'[j] \/ Unsaved(row)
    <3>1. CASE ledger' = Put(j, st)
      <4>1. st \in {"ok", "invalid", "crashed"}
        BY <2>4
      <4> HIDE DEF st, row
      <4>2. QED
        BY <2>3, <3>1, <4>1, LedgerPut DEF Put
    <3>2. CASE UNCHANGED ledger /\ job[j].refused = Attempts
      <4> HIDE DEF st, row
      <4>1. Unsaved(row)
        BY <2>4, <2>5, <3>2 DEF Unsaved
      <4>2. QED
        BY <1>5, <3>2, <4>1
    <3>3. QED
      BY <2>1, <3>1, <3>2
  <2>8. AttemptEnds(j, row)
    <3>1. mishaps' \in Nat
      BY <1>5, <2>1
    <3> HIDE DEF row, st
    <3>2. <<row.case, row.status>> \in ledger'[j] \/ Unsaved(row)
      BY <2>5, <2>7
    <3>3. QED
      BY <2>1, <2>2, <2>3, <2>5, <2>6, <2>7, <3>1, <3>2, EndsAttempt
  <2>9. QED
    BY <2>8
<1>12. QED
  BY <1>6, <1>7, <1>9, <1>10, <1>11


------------------------------------------------------------------------------
(* What the other steps of a suite do to its coroutine. *)

Pcs == InCase \cup {"idle", "spawned", "preflight", "next", "amnesty", "done"}

\* Only the coroutine of j moves.
Moves(j) == job' \in [Jobs -> Runs] /\ \A k \in Jobs \ {j} : job'[k] = job[k]

LEMMA PutMoves ==
  ASSUME TypeOK, NEW j \in Jobs, NEW x \in Runs, job' = [job EXCEPT ![j] = x]
  PROVE  Moves(j) /\ job'[j] = x
  BY DEF TypeOK, Moves

LEMMA RunIs ==
  ASSUME NEW x \in Runs
  PROVE  /\ x = [pc |-> x.pc, at |-> x.at, again |-> x.again, rows |-> x.rows, spent |-> x.spent,
                 tag |-> x.tag, fell |-> x.fell, cost |-> x.cost, alone |-> x.alone, stop |-> x.stop,
                 verdict |-> x.verdict, refused |-> x.refused, noise |-> x.noise]
         /\ x.pc \in Pcs /\ x.at \in Nat /\ x.again \in BOOLEAN /\ x.rows \in Seq(Rows)
         /\ x.tag \in {NoTag} \cup Tags /\ x.fell \in BOOLEAN /\ x.cost \in Nat
         /\ x.alone \in BOOLEAN /\ x.stop \in BOOLEAN /\ x.spent \in Nat
         /\ x.verdict \in {"ok", "invalid"} /\ x.refused \in 0 .. Attempts
         /\ x.noise \in 0 .. LogSize
  BY DEF Runs, Pcs

LEMMA PcPut ==
  ASSUME NEW x \in Runs, NEW pc \in Pcs, NEW y, y = [x EXCEPT !.pc = pc]
  PROVE  /\ y \in Runs /\ y.pc = pc /\ y.at = x.at /\ y.again = x.again /\ y.rows = x.rows
         /\ y.tag = x.tag /\ y.fell = x.fell /\ y.alone = x.alone
  BY DEF Runs, Pcs

LEMMA BeginMoves ==
  ASSUME TypeOK, NEW j \in Jobs, Begin(j)
  PROVE  /\ Moves(j) /\ job[j].pc = "spawned" /\ job'[j].pc = "preflight" /\ job'[j].at = job[j].at
         /\ job'[j].again = job[j].again /\ job'[j].rows = job[j].rows /\ job'[j].tag = job[j].tag
  <1> DEFINE x == [job[j] EXCEPT !.pc = "preflight"]
  <1>1. job' = [job EXCEPT ![j] = x] /\ job[j].pc = "spawned"
    BY DEF Begin
  <1>2. job[j] \in Runs /\ "preflight" \in Pcs
    BY JobTyped DEF Pcs
  <1>3. /\ x \in Runs /\ x.pc = "preflight" /\ x.at = job[j].at /\ x.again = job[j].again
        /\ x.rows = job[j].rows /\ x.tag = job[j].tag
    BY <1>2, PcPut
  <1> HIDE DEF x
  <1>4. QED
    BY <1>1, <1>3, PutMoves

\* The row of a case that was not judged.
Skips(row) == row.status = "skipped" /\ row.fell = FALSE

LEMMA SkippedRows ==
  ASSUME NEW j \in Jobs
  PROVE  LET rows == [i \in DOMAIN Plan[j] |-> Unjudged(Plan[j][i], "skipped")]
         IN  /\ rows \in Seq(Rows) /\ Len(rows) = Len(Plan[j])
             /\ \A i \in DOMAIN rows : Skips(rows[i])
  <1> DEFINE rows == [i \in DOMAIN Plan[j] |-> Unjudged(Plan[j][i], "skipped")]
  <1>1. Plan[j] \in Seq(Cases)
    BY DEF Cases
  <1>2. Len(Plan[j]) \in Nat /\ DOMAIN Plan[j] = 1 .. Len(Plan[j])
    BY <1>1, LenProperties
  <1>3. \A i \in 1 .. Len(Plan[j]) : Unjudged(Plan[j][i], "skipped") \in Rows
    <2>1. \A i \in 1 .. Len(Plan[j]) : Plan[j][i] \in Cases
      BY <1>1, ElementOfSeq
    <2>2. QED
      BY <2>1 DEF Unjudged, Rows, Attempts
  <1>4. rows \in [1 .. Len(Plan[j]) -> Rows]
    BY <1>2, <1>3
  <1>5. rows \in Seq(Rows) /\ Len(rows) = Len(Plan[j])
    BY <1>2, <1>4
  <1>6. \A i \in DOMAIN rows : Skips(rows[i])
    BY <1>2 DEF Unjudged, Skips
  <1>7. QED
    BY <1>5, <1>6

LEMMA PreflightMoves ==
  ASSUME TypeOK, NEW j \in Jobs, Preflight(j)
  PROVE  /\ Moves(j) /\ job[j].pc = "preflight" /\ job'[j].at = job[j].at
         /\ job'[j].again = job[j].again /\ job'[j].tag = job[j].tag
         /\ \/ job'[j].pc = "next" /\ job'[j].rows = job[j].rows
            \/ /\ job'[j].pc = "done" /\ Len(job'[j].rows) = Len(Plan[j])
               /\ \A i \in DOMAIN job'[j].rows : Skips(job'[j].rows[i])
         /\ (Mishap \/ UNCHANGED mishaps)
  <1> DEFINE skipped == [i \in DOMAIN Plan[j] |-> Unjudged(Plan[j][i], "skipped")]
             pc(h) == IF h THEN "next" ELSE "done"
             rows(h) == IF h THEN job[j].rows ELSE skipped
             x(h) == [job[j] EXCEPT !.pc = pc(h), !.rows = rows(h)]
  <1>1. PICK h \in BOOLEAN : /\ MayFail(~h)
                             /\ job' = [job EXCEPT ![j].pc = pc(h), ![j].rows = rows(h)]
    BY JobTyped DEF Preflight, TypeOK
  <1>2. job' = [job EXCEPT ![j] = x(h)]
    BY <1>1 DEF TypeOK
  <1>3. skipped \in Seq(Rows) /\ Len(skipped) = Len(Plan[j])
        /\ \A i \in DOMAIN skipped : Skips(skipped[i])
    BY SkippedRows
  <1>4. pc(h) \in Pcs /\ rows(h) \in Seq(Rows)
    BY <1>3, JobTyped DEF Pcs
  <1>5. /\ x(h) \in Runs /\ x(h).pc = pc(h) /\ x(h).rows = rows(h) /\ x(h).at = job[j].at
        /\ x(h).again = job[j].again /\ x(h).tag = job[j].tag
    <2> DEFINE p == pc(h)
               r == rows(h)
    <2>1. p \in Pcs /\ r \in Seq(Rows) /\ job[j] \in Runs
      BY <1>4, JobTyped
    <2> HIDE DEF p, r
    <2>2. [job[j] EXCEPT !.pc = p, !.rows = r] \in Runs
      BY <2>1 DEF Runs, Pcs
    <2>3. QED
      BY <2>1, <2>2 DEF Runs, p, r
  <1>6. Moves(j) /\ job'[j] = x(h)
    <2> HIDE DEF x
    <2>1. QED
      BY <1>2, <1>5, PutMoves
  <1>7. job[j].pc = "preflight" /\ (Mishap \/ UNCHANGED mishaps)
    BY <1>1 DEF Preflight, MayFail
  <1>8. /\ job'[j].at = job[j].at /\ job'[j].again = job[j].again /\ job'[j].tag = job[j].tag
        /\ job'[j].pc = pc(h) /\ job'[j].rows = rows(h)
    <2> HIDE DEF x, pc, rows
    <2>1. QED
      BY <1>5, <1>6
  <1>9. CASE h
    <2> HIDE DEF x, skipped
    <2>1. QED
      BY <1>6, <1>7, <1>8, <1>9
  <1>10. CASE ~h
    <2> HIDE DEF x, skipped
    <2>1. QED
      BY <1>3, <1>6, <1>7, <1>8, <1>10
  <1>11. QED
    BY <1>1, <1>9, <1>10


LEMMA SkipMoves ==
  ASSUME TypeOK, Positions, NEW j \in Jobs, SkipCase(j)
  PROVE  /\ Moves(j) /\ job[j].pc = "next" /\ job'[j].pc = "next" /\ job[j].at <= Len(Plan[j])
         /\ job'[j].at = job[j].at + 1 /\ job'[j].again = job[j].again /\ job'[j].tag = job[j].tag
         /\ Row(j, "skipped") \in Rows /\ job'[j].rows = Append(job[j].rows, Row(j, "skipped"))
  <1> DEFINE stop == Stopping(j)
             rows == Append(job[j].rows, Row(j, "skipped"))
             x == [job[j] EXCEPT !.stop = stop, !.rows = rows, !.at = job[j].at + 1]
  <1>1. job[j].pc = "next" /\ job[j].at <= Len(Plan[j])
    BY DEF SkipCase
  <1>2. job' = [job EXCEPT ![j] = x]
    BY DEF SkipCase, TypeOK
  <1>3. job[j] \in Runs /\ job[j].at \in Nat /\ job[j].rows \in Seq(Rows) /\ job[j].stop \in BOOLEAN
    BY JobTyped
  <1>4. Row(j, "skipped") \in Rows => rows \in Seq(Rows)
    BY <1>3
  <1>5. stop \in BOOLEAN
    BY DEF Stopping
  <1> HIDE DEF stop, rows
  <1>6. CASE Row(j, "skipped") \in Rows
    <2>1. /\ x \in Runs /\ x.pc = "next" /\ x.at = job[j].at + 1 /\ x.again = job[j].again
          /\ x.tag = job[j].tag /\ x.rows = rows
      <3> DEFINE at == job[j].at + 1
      <3>1. at \in Nat /\ rows \in Seq(Rows)
        BY <1>3, <1>4, <1>6
      <3> HIDE DEF at
      <3>2. [job[j] EXCEPT !.stop = stop, !.rows = rows, !.at = at] \in Runs
        BY <1>3, <1>5, <3>1 DEF Runs
      <3>3. QED
        BY <1>1, <1>3, <3>1, <3>2 DEF Runs, at
    <2> HIDE DEF x
    <2>2. QED
      BY <1>1, <1>2, <1>6, <2>1, PutMoves DEF rows
  <1>7. job[j].at >= 1
    <2>1. Len(job[j].rows) = job[j].at - 1
      BY <1>1 DEF Positions
    <2>2. Len(job[j].rows) \in Nat
      BY <1>3, LenProperties
    <2>3. QED
      BY <1>3, <2>1, <2>2
  <1>8. Row(j, "skipped") \in Rows
    <2>1. job[j].at \in 1 .. Len(Plan[j])
      BY <1>1, <1>3, <1>7
    <2>2. QED
      BY <2>1, CaseTyped, RowTyped
  <1>9. QED
    BY <1>6, <1>8


LEMMA RunCaseMoves ==
  ASSUME TypeOK, Positions, NEW j \in Jobs, RunCase(j)
  PROVE  /\ job' \in [Jobs -> Runs]
         /\ job'[j].pc \in {"setup", "turns"} /\ job'[j].at \in 1 .. Len(Plan[j])
         /\ job'[j].at >= job[j].at /\ job'[j].again = job[j].again /\ job'[j].rows = job[j].rows
         /\ \/ job[j].pc = "next" /\ ~job[j].again /\ job'[j].at = job[j].at
            \/ job[j].pc = "amnesty" /\ job[j].again
         /\ tag' = OwnTag(j)' /\ job'[j].tag = OwnTag(j)'
         /\ job'[j].alone <=> \A o \in Jobs \ {j} : job[o].pc \notin InCase
         /\ \A k \in Jobs \ {j} :
              /\ job'[k].pc = job[k].pc /\ job'[k].at = job[k].at /\ job'[k].again = job[k].again
              /\ job'[k].rows = job[k].rows /\ job'[k].tag = job[k].tag
              /\ job'[k].alone => job[k].pc \notin InCase
  <1>1. PICK i \in NextCases(j) :
          LET own == <<j, starts[j], i, job[j].again>>
          IN  /\ tag' = own
              /\ job' = [k \in Jobs |->
                     IF k = j
                     THEN [job[j] EXCEPT
                            !.pc = IF Plan[j][i] \in Containers THEN "setup" ELSE "turns",
                            !.at = i, !.tag = own,
                            !.alone = \A o \in Jobs \ {j} : job[o].pc \notin InCase]
                     ELSE [job[k] EXCEPT !.alone = job[k].pc \notin InCase]]
    BY DEF RunCase
  <1> DEFINE own == <<j, starts[j], i, job[j].again>>
             pc == IF Plan[j][i] \in Containers THEN "setup" ELSE "turns"
             alone == \A o \in Jobs \ {j} : job[o].pc \notin InCase
             x == [job[j] EXCEPT !.pc = pc, !.at = i, !.tag = own, !.alone = alone]
  <1>2. /\ i \in 1 .. Len(Plan[j]) /\ i >= job[j].at
        /\ \/ job[j].pc = "next" /\ ~job[j].again /\ i = job[j].at
           \/ job[j].pc = "amnesty" /\ job[j].again
    BY NextCasesAre
  <1>3. i \in Nat /\ pc \in Pcs /\ pc \in {"setup", "turns"} /\ alone \in BOOLEAN
    BY <1>2 DEF Pcs, InCase
  <1>4. own \in Tags
    BY <1>3, JobTyped DEF Tags, TypeOK
  <1>5. /\ x \in Runs /\ x.pc = pc /\ x.at = i /\ x.tag = own /\ (x.alone <=> alone)
        /\ x.again = job[j].again /\ x.rows = job[j].rows
    <2>1. job[j] \in Runs
      BY JobTyped
    <2> HIDE DEF own, pc, alone
    <2>2. x \in Runs
      BY <1>3, <1>4, <2>1 DEF Runs, Pcs
    <2>3. QED
      BY <2>1, <2>2 DEF Runs
  <1> DEFINE beside(k) == [job[k] EXCEPT !.alone = job[k].pc \notin InCase]
  <1>6. ASSUME NEW k \in Jobs
        PROVE  /\ beside(k) \in Runs /\ beside(k).pc = job[k].pc /\ beside(k).at = job[k].at
               /\ beside(k).again = job[k].again /\ beside(k).rows = job[k].rows
               /\ beside(k).tag = job[k].tag /\ (beside(k).alone => job[k].pc \notin InCase)
    <2> DEFINE free == job[k].pc \notin InCase
    <2>1. job[k] \in Runs /\ free \in BOOLEAN
      BY JobTyped
    <2>2. beside(k) = [job[k] EXCEPT !.alone = free]
      OBVIOUS
    <2> HIDE DEF beside, free
    <2>3. /\ beside(k) \in Runs /\ beside(k).pc = job[k].pc /\ beside(k).at = job[k].at
          /\ beside(k).again = job[k].again /\ beside(k).rows = job[k].rows
          /\ beside(k).tag = job[k].tag /\ beside(k).alone = free
      BY <2>1, <2>2 DEF Runs
    <2>4. QED
      BY <2>3 DEF free
  <1>7. job' = [k \in Jobs |-> IF k = j THEN x ELSE beside(k)]
    BY <1>1
  <1> HIDE DEF beside
  <1> HIDE DEF x, alone, pc
  <1>8. job'[j] = x /\ \A k \in Jobs \ {j} : job'[k] = beside(k)
    BY <1>7
  <1>9. job' \in [Jobs -> Runs]
    BY <1>5, <1>6, <1>7
  <1>10. OwnTag(j)' = own /\ tag' = own
    BY <1>1, <1>5, <1>8 DEF OwnTag, RunCase, caseVars
  <1>11. \A k \in Jobs \ {j} :
              /\ job'[k].pc = job[k].pc /\ job'[k].at = job[k].at /\ job'[k].again = job[k].again
              /\ job'[k].rows = job[k].rows /\ job'[k].tag = job[k].tag
              /\ job'[k].alone => job[k].pc \notin InCase
    <2>1. TAKE k \in Jobs \ {j}
    <2>2. job'[k] = beside(k)
      BY <1>8
    <2>3. QED
      BY <1>6, <2>2
  <1> HIDE DEF own
  <1>12. QED
    BY <1>2, <1>3, <1>5, <1>8, <1>9, <1>10, <1>11 DEF alone


LEMMA SetUpMoves ==
  ASSUME TypeOK, NEW j \in Jobs, SetUp(j)
  PROVE  /\ Moves(j) /\ job[j].pc = "setup" /\ job'[j].pc = "turns" /\ job'[j].at = job[j].at
         /\ job'[j].again = job[j].again /\ job'[j].rows = job[j].rows
         /\ job'[j].alone = job[j].alone /\ job'[j].fell = job[j].fell
         /\ job'[j].tag = CaseTag(j) /\ tag' = CaseTag(j) /\ CaseTag(j) \in Tags
  <1> DEFINE t == CaseTag(j)
             x == [job[j] EXCEPT !.pc = "turns", !.tag = t]
  <1>1. job' = [job EXCEPT ![j] = x] /\ tag' = t /\ job[j].pc = "setup"
    BY DEF SetUp, TypeOK
  <1>2. t \in Tags
    BY OwnTagTyped DEF CaseTag, TypeOK
  <1>3. job[j] \in Runs
    BY JobTyped
  <1>4. /\ x \in Runs /\ x.pc = "turns" /\ x.tag = t /\ x.at = job[j].at /\ x.again = job[j].again
        /\ x.rows = job[j].rows /\ x.alone = job[j].alone /\ x.fell = job[j].fell
    <2> HIDE DEF t
    <2>1. x \in Runs
      BY <1>2, <1>3 DEF Runs, InCase
    <2>2. QED
      BY <1>3, <2>1 DEF Runs
  <1> HIDE DEF x
  <1>5. QED
    BY <1>1, <1>2, <1>4, PutMoves DEF t

\* What the log is after one more entry: an entry above the last n is above
\* the last n + 1, unless it was pushed out.
LEMMA LoggedIs ==
  ASSUME TypeOK, NEW t \in {NoTag} \cup Tags
  PROVE  /\ Logged(t) \in Seq({NoTag} \cup Tags) /\ Len(Logged(t)) <= LogSize
         /\ 0 < Len(Logged(t)) /\ Logged(t)[Len(Logged(t))] = t
         /\ \A n \in Nat : n < Len(log) /\ n + 1 < LogSize =>
              n + 1 < Len(Logged(t)) /\ Logged(t)[Len(Logged(t)) - (n + 1)] = log[Len(log) - n]
         /\ \A s \in ToSet(Logged(t)) : s = t \/ s \in ToSet(log)
<1> DEFINE S == {NoTag} \cup Tags
<1>0. log \in Seq(S) /\ Len(log) \in Nat /\ Len(log) <= LogSize /\ LogSize \in Nat \ {0} /\ t \in S
  BY DEF TypeOK
<1> HIDE DEF S
<1>1. ASSUME NEW q \in Seq(S), NEW d \in Nat, d = Len(log) - Len(q), Len(q) < LogSize,
             \A i \in 1 .. Len(q) : q[i] = log[i + d],
             Len(q) = Len(log) \/ Len(q) + 1 = LogSize
      PROVE  /\ Append(q, t) \in Seq(S) /\ Len(Append(q, t)) <= LogSize
             /\ 0 < Len(Append(q, t)) /\ Append(q, t)[Len(Append(q, t))] = t
             /\ \A n \in Nat : n < Len(log) /\ n + 1 < LogSize =>
                  n + 1 < Len(Append(q, t))
                  /\ Append(q, t)[Len(Append(q, t)) - (n + 1)] = log[Len(log) - n]
             /\ \A s \in ToSet(Append(q, t)) : s = t \/ s \in ToSet(log)
  <2>1. /\ Append(q, t) \in Seq(S) /\ Len(q) \in Nat /\ Len(Append(q, t)) = Len(q) + 1
        /\ Append(q, t)[Len(q) + 1] = t /\ \A i \in 1 .. Len(q) : Append(q, t)[i] = q[i]
    BY <1>0, AppendProperties, LenProperties
  <2>2. ASSUME NEW n \in Nat, n < Len(log), n + 1 < LogSize
        PROVE  n + 1 < Len(Append(q, t))
               /\ Append(q, t)[Len(Append(q, t)) - (n + 1)] = log[Len(log) - n]
    <3>1. n < Len(q) /\ Len(q) - n \in 1 .. Len(q) /\ (Len(q) + 1) - (n + 1) = Len(q) - n
      BY <1>0, <1>1, <2>1, <2>2
    <3>2. Append(q, t)[Len(q) - n] = q[Len(q) - n] /\ q[Len(q) - n] = log[(Len(q) - n) + d]
      BY <1>1, <2>1, <3>1
    <3>3. (Len(q) - n) + d = Len(log) - n
      BY <1>0, <1>1, <2>1
    <3>4. n + 1 < Len(q) + 1 /\ (Len(q) + 1) - (n + 1) = Len(q) - n
      BY <2>1, <3>1
    <3>5. QED
      BY <2>1, <3>2, <3>3, <3>4
  <2>3. ASSUME NEW s \in ToSet(Append(q, t)) PROVE s = t \/ s \in ToSet(log)
    <3>1. PICK i \in 1 .. Len(q) + 1 : s = Append(q, t)[i]
      BY <2>1, <2>3, LenProperties DEF ToSet
    <3>2. CASE i = Len(q) + 1
      BY <2>1, <3>1, <3>2
    <3>3. CASE i \in 1 .. Len(q)
      <4>1. s = log[i + d] /\ i + d \in 1 .. Len(log)
        BY <1>0, <1>1, <2>1, <3>1, <3>3
      <4>2. DOMAIN log = 1 .. Len(log)
        BY <1>0, LenProperties
      <4>3. QED
        BY <4>1, <4>2, InLog
    <3>4. QED
      BY <2>1, <3>1, <3>2, <3>3
  <2>4. QED
    BY <1>1, <2>1, <2>2, <2>3
<1>2. CASE Len(log) < LogSize
  <2>1. Logged(t) = Append(log, t)
    BY <1>2 DEF Logged
  <2>2. 0 = Len(log) - Len(log) /\ \A i \in 1 .. Len(log) : log[i] = log[i + 0]
    BY <1>0
  <2>3. QED
    BY <1>0, <1>1, <1>2, <2>1, <2>2 DEF S
<1>3. CASE ~(Len(log) < LogSize)
  <2>1. Logged(t) = Append(Tail(log), t) /\ Len(log) = LogSize
    BY <1>0, <1>3 DEF Logged
  <2>2. log # <<>>
    BY <1>0, <2>1, LenProperties, EmptySeq
  <2>3. /\ Tail(log) \in Seq(S) /\ Len(Tail(log)) = Len(log) - 1
        /\ \A i \in 1 .. Len(Tail(log)) : Tail(log)[i] = log[i + 1]
    BY <1>0, <2>2, HeadTailProperties
  <2>4. /\ 1 = Len(log) - Len(Tail(log)) /\ Len(Tail(log)) < LogSize
        /\ Len(Tail(log)) + 1 = LogSize
    BY <1>0, <2>1, <2>3
  <2>5. QED
    BY <1>1, <2>1, <2>3, <2>4 DEF S
<1>4. QED
  BY <1>2, <1>3

\* What entries of others leave of a coroutine.
Keeps(k) ==
    /\ job'[k].pc = job[k].pc /\ job'[k].at = job[k].at /\ job'[k].again = job[k].again
    /\ job'[k].rows = job[k].rows /\ job'[k].tag = job[k].tag

LEMMA NoisyIs ==
  ASSUME TypeOK, NEW k \in Jobs
  PROVE  /\ Noisy(k) \in Runs
         /\ Noisy(k).pc = job[k].pc /\ Noisy(k).at = job[k].at /\ Noisy(k).again = job[k].again
         /\ Noisy(k).rows = job[k].rows /\ Noisy(k).tag = job[k].tag
         /\ Noisy(k).alone = job[k].alone /\ Noisy(k).fell = job[k].fell
         /\ Noisy(k).verdict = job[k].verdict
         /\ Noisy(k).noise = IF job[k].pc = "judge" /\ job[k].fell THEN Louder(k) ELSE job[k].noise
  <1> DEFINE n == IF job[k].pc = "judge" /\ job[k].fell THEN Louder(k) ELSE job[k].noise
  <1>1. job[k] \in Runs /\ job[k].noise \in 0 .. LogSize /\ LogSize \in Nat
    BY JobTyped
  <1>2. n \in 0 .. LogSize
    BY <1>1 DEF Louder
  <1>3. Noisy(k) = [job[k] EXCEPT !.noise = n]
    BY <1>1 DEF Noisy, Runs
  <1> HIDE DEF n
  <1>4. Noisy(k) \in Runs
    BY <1>1, <1>2, <1>3 DEF Runs
  <1>5. QED
    BY <1>1, <1>3, <1>4 DEF Runs, n

LEMMA TurnsMoves ==
  ASSUME TypeOK, NEW j \in Jobs, Turns(j)
  PROVE  /\ job' \in [Jobs -> Runs] /\ \A k \in Jobs \ {j} : Keeps(k)
         /\ \A k \in Jobs \ {j} : job'[k].alone = job[k].alone
         /\ job[j].pc = "turns" /\ job'[j].pc = "judge" /\ job'[j].at = job[j].at
         /\ job'[j].again = job[j].again /\ job'[j].rows = job[j].rows /\ job'[j].tag = job[j].tag
         /\ job'[j].alone = job[j].alone /\ job'[j].noise = 0
         /\ log' = IF job'[j].fell THEN Logged(job[j].tag) ELSE log
  <1>1. PICK cost \in {0, CaseCap}, fell \in BOOLEAN :
          /\ job' = [k \in Jobs |->
                IF k = j THEN [job[j] EXCEPT !.pc = "judge", !.fell = fell, !.cost = cost, !.noise = 0]
                ELSE IF fell THEN Noisy(k) ELSE job[k]]
          /\ log' = IF fell THEN Logged(job[j].tag) ELSE log
    BY DEF Turns
  <1> DEFINE x == [job[j] EXCEPT !.pc = "judge", !.fell = fell, !.cost = cost, !.noise = 0]
  <1>2. job' = [k \in Jobs |-> IF k = j THEN x ELSE IF fell THEN Noisy(k) ELSE job[k]]
    BY <1>1
  <1>21. job[j].pc = "turns"
    BY DEF Turns
  <1>3. job[j] \in Runs /\ cost \in Nat /\ 0 \in 0 .. LogSize
    BY JobTyped
  <1>4. /\ x \in Runs /\ x.pc = "judge" /\ x.tag = job[j].tag /\ x.at = job[j].at
        /\ x.again = job[j].again /\ x.rows = job[j].rows /\ x.alone = job[j].alone
        /\ x.fell = fell /\ x.noise = 0
    <2>1. x \in Runs
      BY <1>3 DEF Runs, InCase
    <2>2. QED
      BY <1>3, <2>1 DEF Runs
  <1> HIDE DEF x
  <1>5. job'[j] = x
    BY <1>2
  <1>6. ASSUME NEW k \in Jobs \ {j}
        PROVE  job'[k] \in Runs /\ Keeps(k) /\ job'[k].alone = job[k].alone
    <2>1. job'[k] = Noisy(k) \/ job'[k] = job[k]
      BY <1>2
    <2>2. job[k] \in Runs
      BY JobTyped
    <2>3. QED
      BY <2>1, <2>2, NoisyIs DEF Keeps
  <1>7. job' \in [Jobs -> Runs]
    <2>1. job' = [k \in Jobs |-> job'[k]]
      BY <1>2
    <2>2. QED
      BY <1>4, <1>5, <1>6, <2>1
  <1>8. QED
    BY <1>1, <1>21, <1>4, <1>5, <1>6, <1>7

LEMMA ChatMoves ==
  ASSUME TypeOK, ChatFallsBack
  PROVE  /\ job' \in [Jobs -> Runs] /\ \A k \in Jobs : Keeps(k) /\ job'[k] = Noisy(k)
         /\ log' = Logged(NoTag) /\ UNCHANGED <<suiteVars, tag, stubs, ledger, schedVars, starts, mishaps>>
  <1>1. job' = [k \in Jobs |-> Noisy(k)] /\ log' = Logged(NoTag)
        /\ UNCHANGED <<suiteVars, tag, stubs, ledger, schedVars, starts, mishaps>>
    BY DEF ChatFallsBack
  <1>2. \A k \in Jobs : job'[k] = Noisy(k)
    BY <1>1
  <1>3. QED
    BY <1>1, <1>2, NoisyIs DEF Keeps

LEMMA RefusedMoves ==
  ASSUME TypeOK, AloneIsOwn, NEW j \in Jobs, Refused(j)
  PROVE  /\ Moves(j) /\ job[j].pc \in {"judge", "record"} /\ job'[j].pc = "record"
         /\ job'[j].at = job[j].at /\ job'[j].again = job[j].again
         /\ job'[j].rows = job[j].rows /\ job'[j].tag = job[j].tag
         /\ job'[j].alone = job[j].alone /\ job'[j].fell = job[j].fell
         /\ job'[j].noise = job[j].noise /\ job'[j].verdict = Outcome(j)
         /\ Mishap \/ UNCHANGED mishaps
  <1> DEFINE v == Outcome(j)
             n == job[j].refused + 1
             x == [job[j] EXCEPT !.pc = "record", !.verdict = v, !.refused = n]
  <1>1. job[j] \in Runs /\ job[j].refused \in 0 .. Attempts /\ job \in [Jobs -> Runs]
    BY JobTyped DEF TypeOK
  <1>2. /\ job' = [job EXCEPT ![j] = x] /\ job[j].pc \in {"judge", "record"}
        /\ job[j].refused < Attempts /\ (Mishap \/ UNCHANGED mishaps)
    BY <1>1 DEF Refused, MayFail
  <1>3. v \in {"ok", "invalid"} /\ n \in 0 .. Attempts
    BY <1>1, <1>2, OutcomeIsRight DEF Attempts
  <1>4. /\ x \in Runs /\ x.pc = "record" /\ x.verdict = v /\ x.at = job[j].at
        /\ x.again = job[j].again /\ x.rows = job[j].rows /\ x.tag = job[j].tag
        /\ x.alone = job[j].alone /\ x.fell = job[j].fell /\ x.noise = job[j].noise
    <2> HIDE DEF v, n
    <2>1. x \in Runs
      BY <1>1, <1>3 DEF Runs, InCase
    <2>2. QED
      BY <1>1, <2>1 DEF Runs
  <1> HIDE DEF x
  <1>5. QED
    BY <1>2, <1>4, PutMoves

LEMMA LoopEndsMoves ==
  ASSUME TypeOK, NEW j \in Jobs, LoopEnds(j)
  PROVE  /\ Moves(j) /\ job[j].pc = "next" /\ job'[j].at = 1 /\ job'[j].rows = job[j].rows
         /\ job'[j].tag = job[j].tag
         /\ job'[j].pc = (IF job'[j].again THEN "amnesty" ELSE "done")
         /\ (Mishap \/ UNCHANGED mishaps)
  <1>1. PICK h \in BOOLEAN :
          /\ MayFail(~h)
          /\ job' = [job EXCEPT ![j].at = 1, ![j].again = h /\ ~job[j].stop,
                                ![j].pc = IF h /\ ~job[j].stop THEN "amnesty" ELSE "done"]
    BY DEF LoopEnds
  <1> DEFINE again == h /\ ~job[j].stop
             pc == IF again THEN "amnesty" ELSE "done"
             x == [job[j] EXCEPT !.at = 1, !.again = again, !.pc = pc]
  <1>2. job' = [job EXCEPT ![j] = x] /\ job[j].pc = "next"
    BY <1>1 DEF LoopEnds, TypeOK
  <1>3. job[j] \in Runs /\ pc \in Pcs
    BY JobTyped DEF Pcs
  <1>4. again \in BOOLEAN
    BY Zenon
  <1>5. /\ x \in Runs /\ x.pc = pc /\ x.tag = job[j].tag /\ x.at = 1
        /\ x.again = again /\ x.rows = job[j].rows
    <2> HIDE DEF again, pc
    <2>1. x \in Runs
      BY <1>3, <1>4 DEF Runs, Pcs
    <2>2. QED
      BY <1>3, <2>1 DEF Runs
  <1>6. Moves(j) /\ job'[j] = x
    <2> HIDE DEF x
    <2>1. QED
      BY <1>2, <1>5, PutMoves
  <1>7. job'[j].pc = (IF job'[j].again THEN "amnesty" ELSE "done")
    <2> HIDE DEF x, again
    <2>1. QED
      BY <1>5, <1>6
  <1>8. QED
    BY <1>1, <1>2, <1>5, <1>6, <1>7 DEF MayFail

LEMMA AmnestyEndsMoves ==
  ASSUME TypeOK, NEW j \in Jobs, AmnestyEnds(j)
  PROVE  /\ Moves(j) /\ job[j].pc = "amnesty" /\ job'[j].pc = "done" /\ job'[j].at = job[j].at
         /\ job'[j].again = job[j].again /\ job'[j].rows = job[j].rows /\ job'[j].tag = job[j].tag
  <1> DEFINE x == [job[j] EXCEPT !.pc = "done"]
  <1>1. job' = [job EXCEPT ![j] = x] /\ job[j].pc = "amnesty"
    BY DEF AmnestyEnds
  <1>2. job[j] \in Runs /\ "done" \in Pcs
    BY JobTyped DEF Pcs
  <1>3. /\ x \in Runs /\ x.pc = "done" /\ x.at = job[j].at /\ x.again = job[j].again
        /\ x.rows = job[j].rows /\ x.tag = job[j].tag
    BY <1>2, PcPut
  <1> HIDE DEF x
  <1>4. QED
    BY <1>1, <1>3, PutMoves

LEMMA IdleIs ==
  /\ Idle.pc = "idle" /\ Idle.at = 1 /\ Idle.again = FALSE /\ Idle.rows = <<>> /\ Idle.tag = NoTag
  /\ Idle \in Runs
  BY IdleTyped DEF Idle

\* The coroutine of a suite that is posted, called or due.
LEMMA SpawnedMoves ==
  ASSUME TypeOK, NEW j \in Jobs, job' = Spawned(j)
  PROVE  /\ Moves(j) /\ job'[j].pc = "spawned" /\ job'[j].at = 1 /\ job'[j].again = FALSE
         /\ job'[j].rows = <<>> /\ job'[j].tag = NoTag
  <1> DEFINE x == [Idle EXCEPT !.pc = "spawned"]
  <1>1. x \in Runs /\ x.pc = "spawned" /\ x.at = 1 /\ x.again = FALSE /\ x.rows = <<>> /\ x.tag = NoTag
    <2>1. "spawned" \in Pcs /\ Idle \in Runs
      BY IdleIs DEF Pcs
    <2>2. /\ x \in Runs /\ x.pc = "spawned" /\ x.at = Idle.at /\ x.again = Idle.again
          /\ x.rows = Idle.rows /\ x.tag = Idle.tag
      BY <2>1, PcPut
    <2> HIDE DEF x
    <2>3. QED
      BY <2>2, IdleIs
  <1>2. job' = [job EXCEPT ![j] = x]
    BY DEF Spawned
  <1> HIDE DEF x
  <1>3. QED
    BY <1>1, <1>2, PutMoves

LEMMA FinishMoves ==
  ASSUME TypeOK, NEW j \in Jobs, Finish(j)
  PROVE  Moves(j) /\ job[j].pc = "done" /\ job'[j] = Idle
  BY IdleIs, PutMoves DEF Finish


------------------------------------------------------------------------------
(* The ticker and the schedules. *)

ScheduleTypes == [on : BOOLEAN, due : BOOLEAN, known : BOOLEAN]

LEMMA SchedPut ==
  ASSUME NEW x \in ScheduleTypes, NEW b \in BOOLEAN
  PROVE  /\ [x EXCEPT !.on = b] \in ScheduleTypes /\ [x EXCEPT !.on = b].due = x.due
         /\ [x EXCEPT !.due = b] \in ScheduleTypes /\ [x EXCEPT !.due = b].due = b
         /\ [x EXCEPT !.known = b] \in ScheduleTypes /\ [x EXCEPT !.known = b].due = x.due
  BY DEF ScheduleTypes

LEMMA SchedTyped ==
  ASSUME TypeOK
  PROVE  sched \in [Scheduled -> ScheduleTypes] /\ \A s \in Scheduled : sched[s].due \in BOOLEAN
  BY DEF TypeOK, ScheduleTypes

LEMMA DueFirstAreDue ==
  ASSUME NEW n, NEW i \in DueFirst(n)
  PROVE  Schedules[i] \in Scheduled /\ Schedules[i] \in Jobs /\ sched[Schedules[i]].due
  BY ScheduledAreJobs DEF DueFirst

LEMMA TickMoves ==
  ASSUME TypeOK, Tick
  PROVE  \E s \in Scheduled :
           /\ s \in Jobs /\ Free /\ sched[s].due /\ lock' = s /\ cancelling' = FALSE
           /\ job' = Spawned(s) /\ starts' = [starts EXCEPT ![s] = @ + 1]
           /\ sched' \in [Scheduled -> ScheduleTypes] /\ ~sched'[s].due
           /\ \A x \in Scheduled : sched'[x].due => sched[x].due
           /\ UNCHANGED <<running, caseVars, periods, mishaps>>
  <1>1. PICK i \in DueFirst(2) :
          LET s == Schedules[i]
              before == {k \in DueFirst(2) : k < i}
          IN  /\ \A k \in before : ~sched[Schedules[k]].known
              /\ sched[s].known
              /\ lock' = s /\ cancelling' = FALSE
              /\ sched' = [x \in Scheduled |->
                            IF \E k \in before : Schedules[k] = x
                            THEN [sched[x] EXCEPT !.on = FALSE] ELSE Fired(s)[x]]
              /\ job' = Spawned(s)
              /\ starts' = [starts EXCEPT ![s] = @ + 1]
    BY DEF Tick
  <1> DEFINE s == Schedules[i]
             passed(x) == \E k \in DueFirst(2) : k < i /\ Schedules[k] = x
  <1>2. s \in Scheduled /\ s \in Jobs /\ sched[s].due
    BY DueFirstAreDue
  <1>3. ~passed(s)
    BY <1>1
  <1>4. Fired(s) \in [Scheduled -> ScheduleTypes] /\ ~Fired(s)[s].due
        /\ \A x \in Scheduled : Fired(s)[x].due => sched[x].due
    <2>1. Fired(s) = [sched EXCEPT ![s] = [sched[s] EXCEPT !.due = FALSE]]
      BY SchedTyped DEF Fired
    <2>2. [sched[s] EXCEPT !.due = FALSE] \in ScheduleTypes /\ [sched[s] EXCEPT !.due = FALSE].due = FALSE
      BY <1>2, SchedTyped, SchedPut
    <2> HIDE DEF s
    <2>3. QED
      BY <1>2, <2>1, <2>2, SchedTyped
  <1>5. \A x \in Scheduled : sched'[x] = IF passed(x) THEN [sched[x] EXCEPT !.on = FALSE] ELSE Fired(s)[x]
    BY <1>1
  <1>6. \A x \in Scheduled : /\ [sched[x] EXCEPT !.on = FALSE] \in ScheduleTypes
                             /\ [sched[x] EXCEPT !.on = FALSE].due = sched[x].due
    BY SchedTyped, SchedPut
  <1>7. \A x \in Scheduled : sched'[x] \in ScheduleTypes /\ (sched'[x].due => sched[x].due)
    <2>1. TAKE x \in Scheduled
    <2>2. CASE passed(x)
      <3>1. sched'[x] = [sched[x] EXCEPT !.on = FALSE]
        BY <1>5, <2>2
      <3>2. [sched[x] EXCEPT !.on = FALSE].due = sched[x].due
        BY <1>6
      <3>3. sched'[x].due = sched[x].due
        BY <3>1, <3>2, Zenon
      <3>4. sched'[x] \in ScheduleTypes
        BY <1>6, <3>1
      <3>5. QED
        BY <3>3, <3>4
    <2>3. CASE ~passed(x)
      <3>1. sched'[x] = Fired(s)[x]
        BY <1>5, <2>3
      <3> HIDE DEF s
      <3>2. QED
        BY <1>4, <3>1
    <2>4. QED
      BY <2>2, <2>3
  <1>8. sched' \in [Scheduled -> ScheduleTypes]
    BY <1>1, <1>7
  <1>9. ~sched'[s].due
    BY <1>2, <1>3, <1>4, <1>5
  <1>10. QED
    BY <1>1, <1>2, <1>7, <1>8, <1>9 DEF Tick

LEMMA TickDisablesMoves ==
  ASSUME TypeOK, TickDisables
  PROVE  /\ sched' \in [Scheduled -> ScheduleTypes]
         /\ \A x \in Scheduled : sched'[x].due = sched[x].due
         /\ UNCHANGED <<suiteVars, job, caseVars, periods, starts, mishaps>>
  <1> DEFINE due == {Schedules[i] : i \in DueFirst(2)}
  <1>1. sched' = [s \in Scheduled |-> IF s \in due THEN [sched[s] EXCEPT !.on = FALSE] ELSE sched[s]]
    BY DEF TickDisables
  <1>2. \A x \in Scheduled : /\ [sched[x] EXCEPT !.on = FALSE] \in ScheduleTypes
                             /\ [sched[x] EXCEPT !.on = FALSE].due = sched[x].due
    BY SchedTyped, SchedPut
  <1>3. \A x \in Scheduled : sched'[x] \in ScheduleTypes /\ sched'[x].due = sched[x].due
    BY <1>1, <1>2, SchedTyped
  <1>4. QED
    BY <1>1, <1>3 DEF TickDisables


------------------------------------------------------------------------------
(* The types and the positions. *)

LEMMA InitTypeOK == ASSUME Init PROVE TypeOK /\ Positions
  <1>1. TypeOK
    <2>1. job \in [Jobs -> Runs]
      BY IdleIs DEF Init
    <2>2. sched \in [Scheduled -> [on : BOOLEAN, due : BOOLEAN, known : BOOLEAN]]
      BY DEF Init
    <2>3. <<>> \in Seq({NoTag} \cup Tags) /\ Len(<<>>) <= LogSize
      BY EmptySeq
    <2>4. FALSE \in BOOLEAN /\ NoTag \in {NoTag} \cup Tags
      OBVIOUS
    <2>5. QED
      BY <2>1, <2>2, <2>3, <2>4 DEF Init, TypeOK
  <1>2. Positions
    <2>1. \A j \in Jobs : job[j] = Idle
      BY DEF Init
    <2>2. \A j \in Jobs : Len(Plan[j]) \in Nat
      OBVIOUS
    <2>3. Len(Idle.rows) = 0 /\ Idle.pc \notin InCase
      BY IdleIs DEF InCase
    <2>4. QED
      BY <2>1, <2>2, <2>3, IdleIs DEF Positions
  <1>3. QED
    BY <1>1, <1>2

\* What a step does besides moving coroutines.
LogTyped == log \in Seq({NoTag} \cup Tags) /\ Len(log) <= LogSize

RestTyped ==
    /\ lock' \in Jobs \cup {None} /\ running' \in BOOLEAN /\ cancelling' \in BOOLEAN
    /\ tag' \in {NoTag} \cup Tags /\ LogTyped'
    /\ ledger' \in [Jobs -> SUBSET (Cases \X {"ok", "invalid", "crashed"})]
    /\ sched' \in [Scheduled -> ScheduleTypes]
    /\ starts' \in [Jobs -> Nat] /\ periods' \in [Scheduled -> Nat] /\ mishaps' \in Nat

LEMMA RestKept ==
  ASSUME TypeOK,
         \/ UNCHANGED lock \/ lock' \in Jobs \cup {None},
         \/ UNCHANGED running \/ running' \in BOOLEAN,
         \/ UNCHANGED cancelling \/ cancelling' \in BOOLEAN,
         \/ UNCHANGED tag \/ tag' \in {NoTag} \cup Tags,
         \/ UNCHANGED log \/ LogTyped',
         \/ UNCHANGED ledger \/ ledger' \in [Jobs -> SUBSET (Cases \X {"ok", "invalid", "crashed"})],
         \/ UNCHANGED sched \/ sched' \in [Scheduled -> ScheduleTypes],
         \/ UNCHANGED starts \/ starts' \in [Jobs -> Nat],
         \/ UNCHANGED periods \/ periods' \in [Scheduled -> Nat],
         \/ UNCHANGED mishaps \/ mishaps' \in Nat
  PROVE  RestTyped
  BY DEF TypeOK, RestTyped, ScheduleTypes, LogTyped

LEMMA StartTyped ==
  ASSUME TypeOK, NEW j \in Jobs PROVE [starts EXCEPT ![j] = @ + 1] \in [Jobs -> Nat]
  BY DEF TypeOK

\* The steps of one coroutine.
LEMMA WorkRest == ASSUME TypeOK, Positions, AloneIsOwn, NEW j \in Jobs, Work(j) PROVE RestTyped
<1> USE DEF suiteVars, caseVars, schedVars
<1>1. CASE Begin(j)
  <2>1. running' \in BOOLEAN
    BY <1>1 DEF Begin
  <2>2. QED
    BY <1>1, <2>1, RestKept DEF Begin
<1>2. CASE Preflight(j) \/ LoopEnds(j)
  <2>1. mishaps' \in Nat
    BY <1>2, PreflightMoves, LoopEndsMoves, MishapTyped
  <2>2. QED
    BY <1>2, <2>1, RestKept DEF Preflight, LoopEnds
<1>3. CASE SkipCase(j) \/ AmnestyEnds(j)
  BY <1>3, RestKept DEF SkipCase, AmnestyEnds
<1>4. CASE RunCase(j)
  <2>0. tag' = OwnTag(j)' /\ job' \in [Jobs -> Runs] /\ UNCHANGED starts
    BY <1>4, RunCaseMoves DEF RunCase
  <2>1. tag' = OwnTag(j)' /\ job'[j].at \in Nat /\ job'[j].again \in BOOLEAN /\ UNCHANGED starts
    BY <2>0 DEF Runs
  <2>2. starts[j] \in Nat
    BY DEF TypeOK
  <2>3. tag' \in Tags
    BY <2>1, <2>2 DEF OwnTag, Tags
  <2>4. QED
    BY <1>4, <2>3, RestKept DEF RunCase
<1>5. CASE SetUp(j)
  BY <1>5, SetUpMoves, RestKept DEF SetUp
<1>6. CASE Turns(j)
  <2>1. UNCHANGED log \/ LogTyped'
    <3>1. log' = log \/ log' = Logged(job[j].tag)
      BY <1>6 DEF Turns
    <3>2. job[j].tag \in {NoTag} \cup Tags
      BY JobTyped
    <3>3. Logged(job[j].tag) \in Seq({NoTag} \cup Tags) /\ Len(Logged(job[j].tag)) <= LogSize
      BY <3>2, LoggedIs
    <3>4. CASE log' = Logged(job[j].tag)
      BY <3>3, <3>4, Zenon DEF LogTyped
    <3>5. QED
      BY <3>1, <3>4
  <2>2. QED
    BY <1>6, <2>1, RestKept DEF Turns
<1>7. CASE Unfit(j) \/ BackendDown(j) \/ CaseRaises(j) \/ Collides(j)
         \/ ProposalRaises(j) \/ Written(j) \/ GivenUp(j)
  <2>1. PICK row : AttemptEnds(j, row)
    BY <1>7, AttemptEnded
  <2>2. UNCHANGED log \/ LogTyped'
    <3>1. log' = log \/ log' = <<>>
      BY <2>1, Zenon DEF AttemptEnds
    <3>2. <<>> \in Seq({NoTag} \cup Tags) /\ Len(<<>>) <= LogSize
      BY EmptySeq
    <3>3. CASE log' = <<>>
      BY <3>2, <3>3, Zenon DEF LogTyped
    <3>4. QED
      BY <3>1, <3>3
  <2>3. QED
    BY <2>1, <2>2, RestKept DEF AttemptEnds
<1>71. CASE Refused(j)
  <2>1. mishaps' \in Nat
    BY <1>71, RefusedMoves, MishapTyped
  <2>2. QED
    BY <1>71, <2>1, RestKept DEF Refused
<1>8. CASE Finish(j)
  <2>1. ledger' \in [Jobs -> SUBSET (Cases \X {"ok", "invalid", "crashed"})]
    BY <1>8 DEF Finish, TypeOK
  <2>3. UNCHANGED suiteVars \/ Release(j)
    BY <1>8 DEF Finish
  <2>4. QED
    BY <1>8, <2>1, <2>3, RestKept DEF Finish, Release
<1>9. QED
  BY <1>1, <1>2, <1>3, <1>4, <1>5, <1>6, <1>7, <1>71, <1>8 DEF Work

LEMMA WorkJobTyped ==
  ASSUME TypeOK, Positions, AloneIsOwn, NEW j \in Jobs, Work(j) PROVE job' \in [Jobs -> Runs]
<1>1. CASE Unfit(j) \/ BackendDown(j) \/ CaseRaises(j) \/ Collides(j)
         \/ ProposalRaises(j) \/ Written(j) \/ GivenUp(j)
  BY <1>1, AttemptEnded DEF AttemptEnds
<1>2. CASE Begin(j) \/ Preflight(j) \/ SkipCase(j) \/ SetUp(j) \/ LoopEnds(j) \/ Refused(j)
           \/ AmnestyEnds(j) \/ Finish(j)
  BY <1>2, BeginMoves, PreflightMoves, SkipMoves, SetUpMoves, RefusedMoves, LoopEndsMoves,
     AmnestyEndsMoves, FinishMoves DEF Moves
<1>3. CASE RunCase(j) \/ Turns(j)
  BY <1>3, RunCaseMoves, TurnsMoves
<1>4. QED
  BY <1>1, <1>2, <1>3 DEF Work

\* The steps of others.
LEMMA OtherTyped ==
  ASSUME TypeOK,
         \/ \E j \in Jobs : Start(j)
         \/ Tick \/ TickDisables \/ TickRaises
         \/ \E s \in Scheduled : Elapse(s) \/ Unselect(s)
         \/ ChatFallsBack \/ Cancel \/ Crash \/ UNCHANGED vars
  PROVE  job' \in [Jobs -> Runs] /\ RestTyped
<1> USE DEF suiteVars, caseVars, schedVars
<1>0. job \in [Jobs -> Runs]
  BY DEF TypeOK
<1>1. ASSUME NEW j \in Jobs, Start(j) PROVE job' \in [Jobs -> Runs] /\ RestTyped
  <2>1. job' \in [Jobs -> Runs] /\ starts' \in [Jobs -> Nat]
    BY <1>1, SpawnedMoves, StartTyped DEF Start, Moves
  <2>2. (UNCHANGED lock \/ lock' \in Jobs \cup {None}) /\ cancelling' \in BOOLEAN
    BY <1>1 DEF Start
  <2>3. QED
    BY <1>1, <2>1, <2>2, RestKept DEF Start
<1>2. CASE Tick
  <2>1. PICK s \in Scheduled :
           /\ s \in Jobs /\ lock' = s /\ cancelling' = FALSE
           /\ job' = Spawned(s) /\ starts' = [starts EXCEPT ![s] = @ + 1]
           /\ sched' \in [Scheduled -> ScheduleTypes]
           /\ UNCHANGED <<running, caseVars, periods, mishaps>>
    BY <1>2, TickMoves
  <2>2. job' \in [Jobs -> Runs] /\ starts' \in [Jobs -> Nat] /\ cancelling' \in BOOLEAN
    BY <2>1, SpawnedMoves, StartTyped DEF Moves
  <2>3. QED
    BY <2>1, <2>2, RestKept
<1>3. CASE TickDisables
  BY <1>0, <1>3, TickDisablesMoves, RestKept
<1>4. CASE TickRaises
  <2>1. lock' \in Jobs /\ cancelling' \in BOOLEAN
    BY <1>4, DueFirstAreDue DEF TickRaises
  <2>2. mishaps' \in Nat
    BY <1>4, MishapTyped DEF TickRaises
  <2>3. QED
    BY <1>0, <1>4, <2>1, <2>2, RestKept DEF TickRaises
<1>5. ASSUME NEW s \in Scheduled, Elapse(s) PROVE job' \in [Jobs -> Runs] /\ RestTyped
  <2>1. sched' \in [Scheduled -> ScheduleTypes]
    BY <1>5, SchedTyped, SchedPut, ZenonT(60) DEF Elapse
  <2>2. periods' \in [Scheduled -> Nat]
    BY <1>5 DEF Elapse, TypeOK
  <2>3. QED
    BY <1>0, <1>5, <2>1, <2>2, RestKept DEF Elapse
<1>6. ASSUME NEW s \in Scheduled, Unselect(s) PROVE job' \in [Jobs -> Runs] /\ RestTyped
  <2>1. sched' \in [Scheduled -> ScheduleTypes]
    BY <1>6, SchedTyped, SchedPut, ZenonT(60) DEF Unselect
  <2>2. mishaps' \in Nat
    BY <1>6, MishapTyped DEF Unselect
  <2>3. QED
    BY <1>0, <1>6, <2>1, <2>2, RestKept DEF Unselect
<1>7. CASE Cancel
  BY <1>0, <1>7, RestKept DEF Cancel
<1>8. CASE Crash
  <2>1. mishaps' \in Nat
    BY <1>8, MishapTyped DEF Crash
  <2>2. job' \in [Jobs -> Runs]
    BY <1>8, IdleIs DEF Crash
  <2>3. ledger' \in [Jobs -> SUBSET (Cases \X {"ok", "invalid", "crashed"})]
    BY <1>8 DEF Crash
  <2>4. LogTyped'
    BY <1>8, EmptySeq DEF Crash, LogTyped
  <2>5. QED
    BY <1>8, <2>1, <2>2, <2>3, <2>4, RestKept DEF Crash
<1>9. CASE UNCHANGED vars
  BY <1>0, <1>9, RestKept DEF vars
<1>91. CASE ChatFallsBack
  <2>1. LogTyped'
    BY <1>91, ChatMoves, LoggedIs DEF LogTyped
  <2>2. QED
    BY <1>91, <2>1, ChatMoves, RestKept
<1>10. QED
  BY <1>1, <1>2, <1>3, <1>4, <1>5, <1>6, <1>7, <1>8, <1>9, <1>91

LEMMA NextTypeOK == ASSUME TypeOK, Positions, AloneIsOwn, [Next]_vars PROVE TypeOK'
  <1>1. job' \in [Jobs -> Runs] /\ RestTyped
    BY WorkRest, WorkJobTyped, OtherTyped DEF Next
  <1>2. QED
    BY <1>1 DEF TypeOK, RestTyped, ScheduleTypes, LogTyped


\* Where one coroutine is allowed to be.
Placed(j) ==
    LET me == job[j]
    IN  /\ Len(me.rows) <= Len(Plan[j])
        /\ me.pc \in InCase => me.at \in 1 .. Len(Plan[j])
        /\ me.pc = "next" \/ (me.pc \in InCase /\ ~me.again) => Len(me.rows) = me.at - 1
        /\ me.pc \in {"idle", "spawned", "preflight"} => me.rows = <<>> /\ me.at = 1
        /\ me.pc \in {"idle", "spawned", "preflight", "next"} => ~me.again
        /\ me.pc = "amnesty" => me.again

LEMMA PositionsArePlaced == Positions <=> \A j \in Jobs : Placed(j)
  BY DEF Positions, Placed

LEMMA PlacedKept ==
  ASSUME NEW k \in Jobs, Placed(k), job'[k].pc = job[k].pc, job'[k].at = job[k].at,
         job'[k].again = job[k].again, job'[k].rows = job[k].rows
  PROVE  Placed(k)'
  BY DEF Placed

LEMMA Lengths ==
  ASSUME TypeOK, NEW j \in Jobs
  PROVE  Len(Plan[j]) \in Nat /\ Len(job[j].rows) \in Nat /\ Len(<<>>) = 0
  <1>1. job[j].rows \in Seq(Rows) /\ Plan[j] \in Seq(DOMAIN Stubs)
    BY JobTyped
  <1>2. QED
    BY <1>1, LenProperties

LEMMA SpawnedPlaced ==
  ASSUME TypeOK, NEW j \in Jobs, job' = Spawned(j) \/ job'[j] = Idle PROVE Placed(j)'
  <1>1. /\ job'[j].pc \in {"spawned", "idle"} /\ job'[j].at = 1 /\ job'[j].again = FALSE
        /\ job'[j].rows = <<>>
    BY SpawnedMoves, IdleIs
  <1>2. QED
    BY <1>1, Lengths DEF Placed, InCase

LEMMA AttemptPlaced ==
  ASSUME TypeOK, Positions, NEW j \in Jobs, NEW row, AttemptEnds(j, row) PROVE Placed(j)'
  <1>1. Placed(j)
    BY PositionsArePlaced
  <1>2. Len(NewRows(j, row)) = Len(job[j].rows) + (IF job[j].again THEN 0 ELSE 1)
    BY NewRowsTyped DEF AttemptEnds
  <1>3. job[j].again \in BOOLEAN /\ job[j].at \in Nat
    BY JobTyped
  <1>4. CASE job[j].again
    <2>1. job'[j].pc = "amnesty" /\ job'[j].again = job[j].again /\ job'[j].rows = NewRows(j, row)
      BY <1>4 DEF AttemptEnds
    <2>2. Len(NewRows(j, row)) <= Len(Plan[j])
      BY <1>1, <1>2, <1>4, Lengths DEF Placed
    <2>3. job'[j].again
      BY <1>4, <2>1
    <2>4. QED
      BY <2>1, <2>2, <2>3 DEF Placed, InCase
  <1>5. CASE ~job[j].again
    <2>1. /\ job'[j].pc = "next" /\ job'[j].again = job[j].again /\ job'[j].at = job[j].at + 1
          /\ job'[j].rows = NewRows(j, row) /\ job[j].at \in 1 .. Len(Plan[j])
          /\ job[j].pc \in InCase \cup {"next"}
      BY <1>1, <1>5 DEF AttemptEnds, Placed
    <2>2. Len(job[j].rows) = job[j].at - 1
      BY <1>1, <1>5, <2>1 DEF Placed
    <2>3. Len(NewRows(j, row)) = job[j].at
      BY <1>2, <1>3, <1>5, <2>2
    <2>4. ~job'[j].again
      BY <1>5, <2>1
    <2>5. QED
      BY <1>3, <2>1, <2>3, <2>4, Lengths DEF Placed, InCase
  <1>6. QED
    BY <1>3, <1>4, <1>5

LEMMA NextPositions == ASSUME TypeOK, Positions, AloneIsOwn, [Next]_vars PROVE Positions'
<1>0. \A j \in Jobs : Placed(j)
  BY PositionsArePlaced
<1>1. SUFFICES \A j \in Jobs : Placed(j)'
  BY DEF Positions, Placed
<1>2. ASSUME NEW j \in Jobs, \A k \in Jobs \ {j} : job'[k] = job[k], Placed(j)'
      PROVE  \A k \in Jobs : Placed(k)'
  BY <1>0, <1>2, PlacedKept
<1>3. ASSUME UNCHANGED job PROVE \A k \in Jobs : Placed(k)'
  BY <1>0, <1>3 DEF Placed
<1>4. ASSUME NEW j \in Jobs, Begin(j) PROVE Placed(j)'
  BY <1>0, <1>4, BeginMoves, Lengths DEF Placed, InCase
<1>5. ASSUME NEW j \in Jobs, Preflight(j) PROVE Placed(j)'
  <2>1. /\ job[j].rows = <<>> /\ job[j].at = 1 /\ ~job[j].again
        /\ job'[j].at = job[j].at /\ job'[j].again = job[j].again
    BY <1>0, <1>5, PreflightMoves DEF Placed
  <2>2. CASE job'[j].pc = "next" /\ job'[j].rows = job[j].rows
    BY <2>1, <2>2, Lengths DEF Placed, InCase
  <2>3. CASE job'[j].pc = "done" /\ Len(job'[j].rows) = Len(Plan[j])
    BY <2>3, Lengths DEF Placed, InCase
  <2>4. QED
    BY <1>5, <2>2, <2>3, PreflightMoves
<1>6. ASSUME NEW j \in Jobs, SkipCase(j) PROVE Placed(j)'
  <2>1. /\ job[j].pc = "next" /\ job'[j].pc = "next" /\ job[j].at <= Len(Plan[j])
        /\ job'[j].at = job[j].at + 1 /\ job'[j].again = job[j].again
        /\ job'[j].rows = Append(job[j].rows, Row(j, "skipped"))
    BY <1>6, SkipMoves
  <2>2. Len(job[j].rows) = job[j].at - 1 /\ ~job[j].again
    BY <1>0, <2>1 DEF Placed
  <2>3. Len(job'[j].rows) = Len(job[j].rows) + 1
    BY <2>1, JobTyped
  <2>4. job[j].at \in Nat
    BY JobTyped
  <2>5. QED
    BY <2>1, <2>2, <2>3, <2>4, Lengths DEF Placed, InCase
<1>7. ASSUME NEW j \in Jobs, RunCase(j) PROVE \A k \in Jobs : Placed(k)'
  <2>1. Placed(j)'
    <3>1. /\ job'[j].pc \in {"setup", "turns"} /\ job'[j].at \in 1 .. Len(Plan[j])
          /\ job'[j].again = job[j].again /\ job'[j].rows = job[j].rows
          /\ \/ job[j].pc = "next" /\ ~job[j].again /\ job'[j].at = job[j].at
             \/ job[j].pc = "amnesty" /\ job[j].again
      BY <1>7, RunCaseMoves
    <3>2. Len(job[j].rows) <= Len(Plan[j])
      BY <1>0 DEF Placed
    <3>3. ~job'[j].again => Len(job[j].rows) = job[j].at - 1 /\ job'[j].at = job[j].at
      BY <1>0, <3>1 DEF Placed
    <3>4. QED
      BY <3>1, <3>2, <3>3 DEF Placed
  <2>2. \A k \in Jobs \ {j} : Placed(k)'
    BY <1>0, <1>7, RunCaseMoves, PlacedKept
  <2>3. QED
    BY <2>1, <2>2
<1>8. ASSUME NEW j \in Jobs, SetUp(j) \/ Turns(j) \/ Refused(j) PROVE Placed(j)'
  <2>1. /\ job'[j].at = job[j].at /\ job'[j].again = job[j].again /\ job'[j].rows = job[j].rows
        /\ job[j].pc \in InCase /\ job'[j].pc \in {"turns", "judge", "record"}
    BY <1>8, SetUpMoves, TurnsMoves, RefusedMoves DEF InCase
  <2>2. QED
    BY <1>0, <2>1 DEF Placed, InCase
<1>9. ASSUME NEW j \in Jobs, LoopEnds(j) PROVE Placed(j)'
  <2>1. /\ job'[j].rows = job[j].rows /\ job'[j].again \in BOOLEAN
        /\ job'[j].pc = (IF job'[j].again THEN "amnesty" ELSE "done")
    BY <1>9, LoopEndsMoves, RunIs DEF Moves
  <2>2. Len(job'[j].rows) <= Len(Plan[j])
    BY <1>0, <2>1 DEF Placed
  <2>3. CASE job'[j].again
    BY <2>1, <2>2, <2>3 DEF Placed, InCase
  <2>4. CASE ~job'[j].again
    BY <2>1, <2>2, <2>4 DEF Placed, InCase
  <2>5. QED
    BY <2>3, <2>4
<1>10. ASSUME NEW j \in Jobs, AmnestyEnds(j) PROVE Placed(j)'
  BY <1>0, <1>10, AmnestyEndsMoves DEF Placed, InCase
<1>11. ASSUME NEW j \in Jobs, Work(j) PROVE \A k \in Jobs : Placed(k)'
  <2>1. CASE Unfit(j) \/ BackendDown(j) \/ CaseRaises(j) \/ Collides(j)
         \/ ProposalRaises(j) \/ Written(j) \/ GivenUp(j)
    <3>1. PICK row : AttemptEnds(j, row)
      BY <2>1, AttemptEnded
    <3>2. Placed(j)' /\ \A k \in Jobs \ {j} : job'[k] = job[k]
      BY <3>1, AttemptPlaced DEF AttemptEnds
    <3>3. QED
      BY <3>2, <1>2
  <2>2. CASE Begin(j) \/ Preflight(j) \/ SkipCase(j) \/ SetUp(j) \/ LoopEnds(j) \/ Refused(j)
             \/ AmnestyEnds(j)
    <3>1. Moves(j)
      BY <2>2, BeginMoves, PreflightMoves, SkipMoves, SetUpMoves, RefusedMoves, LoopEndsMoves,
         AmnestyEndsMoves
    <3>2. Placed(j)'
      BY <2>2, <1>4, <1>5, <1>6, <1>8, <1>9, <1>10
    <3>3. QED
      BY <3>1, <3>2, <1>2 DEF Moves
  <2>3. CASE RunCase(j)
    BY <2>3, <1>7
  <2>31. CASE Turns(j)
    BY <2>31, <1>0, <1>8, TurnsMoves, PlacedKept DEF Keeps
  <2>4. CASE Finish(j)
    BY <2>4, FinishMoves, SpawnedPlaced, <1>2 DEF Moves
  <2>5. QED
    BY <1>11, <2>1, <2>2, <2>3, <2>31, <2>4 DEF Work
<1>12. ASSUME NEW j \in Jobs, job' = Spawned(j) PROVE \A k \in Jobs : Placed(k)'
  BY <1>12, <1>2, SpawnedMoves, SpawnedPlaced DEF Moves
<1>13. CASE \E j \in Jobs : Start(j)
  BY <1>12, <1>13 DEF Start
<1>14. CASE Tick
  BY <1>12, <1>14, TickMoves
<1>15. CASE Crash
  <2>1. \A k \in Jobs : job'[k] = Idle
    BY <1>15 DEF Crash
  <2>2. QED
    BY <2>1, SpawnedPlaced
<1>16. CASE \/ TickDisables \/ TickRaises \/ Cancel \/ UNCHANGED vars
            \/ \E s \in Scheduled : Elapse(s) \/ Unselect(s)
  BY <1>16, <1>3 DEF TickDisables, TickRaises, Cancel, Elapse, Unselect, vars
<1>161. CASE ChatFallsBack
  BY <1>0, <1>161, ChatMoves, PlacedKept DEF Keeps
<1>17. QED
  BY <1>11, <1>13, <1>14, <1>15, <1>16, <1>161 DEF Next


------------------------------------------------------------------------------
(* The tags. *)

LEMMA NoTagIsNone == NoTag \notin Tags
  BY DEF NoTag, Tags

LEMMA TagFields ==
  ASSUME NEW t \in Tags
  PROVE  t[1] \in Jobs /\ t[2] \in Nat /\ t[3] \in Nat /\ t[4] \in BOOLEAN
  BY DEF Tags

LEMMA OwnTagIs ==
  ASSUME TypeOK, NEW j \in Jobs
  PROVE  /\ OwnTag(j) \in Tags /\ OwnTag(j)[1] = j /\ OwnTag(j)[2] = starts[j]
         /\ OwnTag(j)[3] = job[j].at /\ OwnTag(j)[4] = job[j].again
  BY OwnTagTyped DEF OwnTag

\* A suite that goes on leaves no attempt it began.
GoesOn(j) ==
    \/ starts'[j] = starts[j] + 1
    \/ /\ starts'[j] = starts[j]
       /\ \/ job'[j].pc \in {"idle", "done"}
          \/ /\ job[j].pc \notin {"idle", "done"} /\ job'[j].again = job[j].again
             /\ \/ job'[j].at > job[j].at
                \/ job'[j].at = job[j].at /\ (job[j].pc \in InCase => job'[j].pc \in InCase)
          \/ job[j].pc = "next" /\ ~job[j].again /\ job'[j].again

LEMMA BegunStays ==
  ASSUME TypeOK, TypeOK', NEW t \in Tags, Begun(t), GoesOn(t[1]) PROVE Begun(t)'
  <1> DEFINE j == t[1]
             a == t[4]
             now == job[j].again
             then == job'[j].again
  <1>1. /\ j \in Jobs /\ t[2] \in Nat /\ t[3] \in Nat /\ a \in BOOLEAN
        /\ starts[j] \in Nat /\ starts'[j] \in Nat
    BY TagFields DEF TypeOK
  <1>2. /\ job[j].at \in Nat /\ now \in BOOLEAN /\ job'[j] \in Runs
        /\ job'[j].at \in Nat /\ then \in BOOLEAN
    <2>1. job[j] \in Runs /\ job'[j] \in Runs
      BY <1>1 DEF TypeOK
    <2>2. QED
      BY <2>1, RunIs
  <1>3. CASE t[2] < starts[j]
    BY <1>1, <1>3 DEF GoesOn, Begun
  <1>4. CASE t[2] = starts[j]
    <2>1. CASE starts'[j] = starts[j] + 1
      BY <1>1, <1>4, <2>1 DEF Begun
    <2>2. CASE starts'[j] = starts[j] /\ job'[j].pc \in {"idle", "done"}
      BY <1>1, <1>4, <2>2 DEF Begun
    <2>3. \/ job[j].pc \in {"idle", "done"}
          \/ ~a /\ now
          \/ a = now /\ t[3] < job[j].at
          \/ a = now /\ t[3] = job[j].at /\ job[j].pc \in InCase
      BY <1>1, <1>4 DEF Begun
    <2>4. CASE /\ starts'[j] = starts[j]
               /\ job[j].pc \notin {"idle", "done"} /\ then = now
               /\ \/ job'[j].at > job[j].at
                  \/ job'[j].at = job[j].at /\ (job[j].pc \in InCase => job'[j].pc \in InCase)
      <3>1. CASE ~a /\ now
        <4>1. ~a /\ then
          BY <2>4, <3>1
        <4>2. QED
          BY <1>1, <1>4, <2>4, <4>1 DEF Begun
      <3>2. CASE a = now /\ t[3] < job[j].at
        <4>1. a = then /\ t[3] < job'[j].at
          BY <1>1, <1>2, <2>4, <3>2
        <4>2. QED
          BY <1>1, <1>4, <2>4, <4>1 DEF Begun
      <3>3. CASE a = now /\ t[3] = job[j].at /\ job[j].pc \in InCase
        <4>1. a = then /\ (t[3] < job'[j].at \/ (t[3] = job'[j].at /\ job'[j].pc \in InCase))
          BY <1>1, <1>2, <2>4, <3>3
        <4>2. QED
          BY <1>1, <1>4, <2>4, <4>1 DEF Begun
      <3>4. QED
        BY <2>3, <2>4, <3>1, <3>2, <3>3
    <2>5. CASE starts'[j] = starts[j] /\ job[j].pc = "next" /\ ~now /\ then
      <3>1. ~a
        BY <1>1, <1>2, <2>3, <2>5
      <3>2. QED
        BY <1>1, <1>4, <2>5, <3>1 DEF Begun
    <2>6. QED
      BY <2>1, <2>2, <2>4, <2>5 DEF GoesOn
  <1>5. QED
    BY <1>1, <1>3, <1>4 DEF Begun

Known(t) == t \in ToSet(log) \/ t = tag \/ (\E j \in Jobs : t = job[j].tag)

LEMMA TagsKept ==
  ASSUME TypeOK, TypeOK', TagsBegun, \A j \in Jobs : GoesOn(j),
         \A t \in Tags : Known(t)' => Known(t) \/ Begun(t)'
  PROVE  TagsBegun'
  <1>1. SUFFICES ASSUME NEW t \in Tags, Known(t)' PROVE Begun(t)'
    BY DEF TagsBegun, Known
  <1>2. CASE Begun(t)'
    BY <1>2
  <1>3. CASE Known(t)
    <2>1. Begun(t)
      BY <1>3 DEF TagsBegun, Known
    <2>2. GoesOn(t[1])
      BY TagFields
    <2>3. QED
      BY <2>1, <2>2, BegunStays
  <1>4. QED
    BY <1>1, <1>2, <1>3

LEMMA OwnBegun == ASSUME TypeOK, NEW j \in Jobs, job[j].pc \in InCase PROVE Begun(OwnTag(j))
  BY OwnTagIs DEF Begun

\* A coroutine that stays where it is.
LEMMA StaysGoesOn ==
  ASSUME NEW j \in Jobs, starts'[j] = starts[j],
         job'[j].pc = job[j].pc, job'[j].again = job[j].again, job'[j].at = job[j].at
  PROVE  GoesOn(j)
  BY DEF GoesOn

LEMMA EmptyLog == ToSet(<<>>) = {}
  BY DEF ToSet

LEMMA KnownKept ==
  ASSUME log' = log \/ ToSet(log)' = {}, tag' = tag \/ tag' = NoTag,
         \A j \in Jobs : job'[j].tag = job[j].tag \/ job'[j].tag = NoTag
  PROVE  \A t \in Tags : Known(t)' => Known(t)
  BY NoTagIsNone DEF Known


\* One coroutine goes on, the others stay.
LEMMA OneGoesOn ==
  ASSUME NEW j \in Jobs, \A k \in Jobs \ {j} : job'[k] = job[k] /\ starts'[k] = starts[k], GoesOn(j)
  PROVE  \A k \in Jobs : GoesOn(k)
  BY StaysGoesOn

LEMMA WorkGoesOn ==
  ASSUME TypeOK, Positions, AloneIsOwn, NEW j \in Jobs, Work(j)
  PROVE  \A k \in Jobs : GoesOn(k)
<1>0. job[j].at \in Nat /\ job[j].again \in BOOLEAN /\ UNCHANGED starts
  <2>1. CASE Unfit(j) \/ BackendDown(j) \/ CaseRaises(j) \/ Collides(j)
         \/ ProposalRaises(j) \/ Written(j) \/ GivenUp(j)
    BY <2>1, JobTyped, AttemptEnded DEF AttemptEnds
  <2>2. CASE ~(Unfit(j) \/ BackendDown(j) \/ CaseRaises(j) \/ Collides(j)
         \/ ProposalRaises(j) \/ Written(j) \/ GivenUp(j))
    BY <2>2, JobTyped DEF Work, Begin, Preflight, SkipCase, RunCase, SetUp, Turns, LoopEnds,
                          AmnestyEnds, Finish, Refused
  <2>3. QED
    BY <2>1, <2>2
<1>1. CASE Unfit(j) \/ BackendDown(j) \/ CaseRaises(j) \/ Collides(j)
         \/ ProposalRaises(j) \/ Written(j) \/ GivenUp(j)
  <2>1. PICK row : AttemptEnds(j, row)
    BY <1>1, AttemptEnded
  <2>2. /\ job'[j].at >= job[j].at + 1 /\ job'[j].again = job[j].again
        /\ job[j].pc \in InCase \cup {"next", "amnesty"}
        /\ \A k \in Jobs \ {j} : job'[k] = job[k]
    BY <2>1 DEF AttemptEnds
  <2>3. job'[j].at \in Nat
    BY <2>1, RunIs DEF AttemptEnds
  <2>4. GoesOn(j)
    BY <1>0, <2>2, <2>3 DEF GoesOn, InCase
  <2>5. QED
    BY <1>0, <2>2, <2>4, OneGoesOn
<1>2. CASE Begin(j)
  <2>1. GoesOn(j)
    BY <1>0, <1>2, BeginMoves DEF GoesOn, InCase
  <2>2. QED
    BY <1>0, <1>2, <2>1, BeginMoves, OneGoesOn DEF Moves
<1>3. CASE Preflight(j)
  <2>1. GoesOn(j)
    BY <1>0, <1>3, PreflightMoves DEF GoesOn, InCase
  <2>2. QED
    BY <1>0, <1>3, <2>1, PreflightMoves, OneGoesOn DEF Moves
<1>4. CASE SkipCase(j)
  <2>1. GoesOn(j)
    BY <1>0, <1>4, SkipMoves DEF GoesOn
  <2>2. QED
    BY <1>0, <1>4, <2>1, SkipMoves, OneGoesOn DEF Moves
<1>5. CASE RunCase(j)
  <2>1. GoesOn(j)
    <3>1. /\ job'[j].pc \in {"setup", "turns"} /\ job'[j].at \in Nat
          /\ job'[j].at >= job[j].at /\ job'[j].again = job[j].again
          /\ job[j].pc \in {"next", "amnesty"}
      BY <1>5, RunCaseMoves, RunIs, ZenonT(60)
    <3>2. QED
      BY <1>0, <3>1 DEF GoesOn, InCase
  <2>2. \A k \in Jobs \ {j} : GoesOn(k)
    BY <1>0, <1>5, RunCaseMoves, StaysGoesOn
  <2>3. QED
    BY <2>1, <2>2
<1>6. CASE SetUp(j)
  <2>1. GoesOn(j)
    BY <1>0, <1>6, SetUpMoves DEF GoesOn, InCase
  <2>2. QED
    BY <1>0, <1>6, <2>1, SetUpMoves, OneGoesOn DEF Moves
<1>7. CASE Turns(j)
  <2>1. GoesOn(j)
    BY <1>0, <1>7, TurnsMoves DEF GoesOn, InCase
  <2>2. \A k \in Jobs \ {j} : GoesOn(k)
    BY <1>0, <1>7, TurnsMoves, StaysGoesOn DEF Keeps
  <2>3. QED
    BY <2>1, <2>2
<1>71. CASE Refused(j)
  <2>1. GoesOn(j)
    BY <1>0, <1>71, RefusedMoves DEF GoesOn, InCase
  <2>2. QED
    BY <1>0, <1>71, <2>1, RefusedMoves, OneGoesOn DEF Moves
<1>8. CASE LoopEnds(j)
  <2>1. /\ job[j].pc = "next" /\ job'[j].pc = (IF job'[j].again THEN "amnesty" ELSE "done")
        /\ job'[j].again \in BOOLEAN
    BY <1>8, LoopEndsMoves, RunIs DEF Moves
  <2>2. ~job[j].again
    BY <2>1 DEF Positions
  <2>3. CASE job'[j].again
    <3>1. GoesOn(j)
      BY <1>0, <2>1, <2>2, <2>3 DEF GoesOn
    <3>2. QED
      BY <1>0, <1>8, <3>1, LoopEndsMoves, OneGoesOn DEF Moves
  <2>4. CASE ~job'[j].again
    <3>1. GoesOn(j)
      BY <1>0, <2>1, <2>4 DEF GoesOn
    <3>2. QED
      BY <1>0, <1>8, <3>1, LoopEndsMoves, OneGoesOn DEF Moves
  <2>5. QED
    BY <2>3, <2>4
<1>9. CASE AmnestyEnds(j)
  <2>1. GoesOn(j)
    BY <1>0, <1>9, AmnestyEndsMoves DEF GoesOn
  <2>2. QED
    BY <1>0, <1>9, <2>1, AmnestyEndsMoves, OneGoesOn DEF Moves
<1>10. CASE Finish(j)
  <2>1. GoesOn(j)
    BY <1>0, <1>10, FinishMoves, IdleIs DEF GoesOn
  <2>2. QED
    BY <1>0, <1>10, <2>1, FinishMoves, OneGoesOn DEF Moves
<1>11. QED
  BY <1>1, <1>2, <1>3, <1>4, <1>5, <1>6, <1>7, <1>71, <1>8, <1>9, <1>10 DEF Work

LEMMA OthersGoOn ==
  ASSUME TypeOK,
         \/ \E j \in Jobs : Start(j)
         \/ Tick \/ TickDisables \/ TickRaises
         \/ \E s \in Scheduled : Elapse(s) \/ Unselect(s)
         \/ ChatFallsBack \/ Cancel \/ Crash \/ UNCHANGED vars
  PROVE  (\A k \in Jobs : GoesOn(k)) /\ (\A t \in Tags : Known(t)' => Known(t))
<1> USE DEF suiteVars, caseVars, schedVars
<1>1. ASSUME NEW j \in Jobs, job' = Spawned(j), starts' = [starts EXCEPT ![j] = @ + 1],
             UNCHANGED <<tag, log>>
      PROVE  (\A k \in Jobs : GoesOn(k)) /\ (\A t \in Tags : Known(t)' => Known(t))
  <2>1. Moves(j) /\ job'[j].tag = NoTag
    BY <1>1, SpawnedMoves
  <2>2. starts'[j] = starts[j] + 1 /\ \A k \in Jobs \ {j} : starts'[k] = starts[k]
    BY <1>1 DEF TypeOK
  <2>3. \A k \in Jobs : GoesOn(k)
    BY <2>1, <2>2, OneGoesOn DEF Moves, GoesOn
  <2>4. \A t \in Tags : Known(t)' => Known(t)
    BY <1>1, <2>1, KnownKept DEF Moves
  <2>5. QED
    BY <2>3, <2>4
<1>2. CASE \E j \in Jobs : Start(j)
  BY <1>1, <1>2 DEF Start
<1>3. CASE Tick
  BY <1>1, <1>3, TickMoves
<1>4. CASE Crash
  <2>1. /\ \A k \in Jobs : job'[k] = Idle
        /\ UNCHANGED starts /\ tag' = NoTag /\ log' = <<>>
    BY <1>4 DEF Crash
  <2>2. \A k \in Jobs : GoesOn(k)
    BY <2>1, IdleIs DEF GoesOn
  <2>3. \A t \in Tags : ~Known(t)'
    <3>1. ToSet(log') = {} /\ tag' = NoTag /\ \A k \in Jobs : job'[k].tag = NoTag
      BY <2>1, IdleIs, EmptyLog
    <3>2. QED
      BY <3>1, NoTagIsNone DEF Known, ToSet
  <2>4. QED
    BY <2>2, <2>3
<1>5. CASE \/ TickDisables \/ TickRaises \/ Cancel \/ UNCHANGED vars
           \/ \E s \in Scheduled : Elapse(s) \/ Unselect(s)
  <2>1. UNCHANGED <<job, starts, tag, log>>
    BY <1>5, TickDisablesMoves DEF TickRaises, Cancel, Elapse, Unselect, vars
  <2>2. \A k \in Jobs : GoesOn(k)
    BY <2>1, StaysGoesOn
  <2>3. QED
    BY <2>1, <2>2, KnownKept
<1>51. CASE ChatFallsBack
  <2>1. /\ \A k \in Jobs : Keeps(k)
        /\ UNCHANGED <<starts, tag>> /\ \A t \in ToSet(log)' : t = NoTag \/ t \in ToSet(log)
    <3>1. log' = Logged(NoTag) /\ (\A k \in Jobs : Keeps(k)) /\ UNCHANGED <<starts, tag>>
      BY <1>51, ChatMoves
    <3>2. \A t \in ToSet(Logged(NoTag)) : t = NoTag \/ t \in ToSet(log)
      BY LoggedIs
    <3>3. QED
      BY <3>1, <3>2 DEF ToSet
  <2>2. QED
    BY <2>1, StaysGoesOn, NoTagIsNone DEF Keeps, Known
<1>6. QED
  BY <1>2, <1>3, <1>4, <1>5, <1>51

LEMMA WorkKnown ==
  ASSUME TypeOK, TypeOK', Positions, AloneIsOwn, NEW j \in Jobs, Work(j)
  PROVE  \A t \in Tags : Known(t)' => Known(t) \/ Begun(t)'
<1>1. CASE Unfit(j) \/ BackendDown(j) \/ CaseRaises(j) \/ Collides(j)
         \/ ProposalRaises(j) \/ Written(j) \/ GivenUp(j)
  <2>1. PICK row : AttemptEnds(j, row)
    BY <1>1, AttemptEnded
  <2>2. /\ (log' = log \/ ToSet(log)' = {}) /\ (tag' = tag \/ tag' = NoTag) /\ job'[j].tag = NoTag
        /\ \A k \in Jobs \ {j} : job'[k] = job[k]
    <3>1. /\ log' = log \/ log' = <<>>
          /\ tag' = tag \/ tag' = NoTag
          /\ job'[j].tag = NoTag /\ \A k \in Jobs \ {j} : job'[k] = job[k]
      BY <2>1, Zenon DEF AttemptEnds
    <3>2. log' = <<>> => ToSet(log)' = {}
      BY EmptyLog DEF ToSet
    <3>3. QED
      BY <3>1, <3>2
  <2>3. QED
    BY <2>2, KnownKept
<1>2. CASE \/ Begin(j) \/ Preflight(j) \/ SkipCase(j) \/ LoopEnds(j) \/ AmnestyEnds(j) \/ Finish(j)
           \/ Refused(j)
  <2>1. Moves(j) /\ (job'[j].tag = job[j].tag \/ job'[j].tag = NoTag)
    BY <1>2, BeginMoves, PreflightMoves, SkipMoves, LoopEndsMoves, AmnestyEndsMoves, FinishMoves,
       RefusedMoves, IdleIs
  <2>2. UNCHANGED <<tag, log>>
    BY <1>2 DEF Begin, Preflight, SkipCase, LoopEnds, AmnestyEnds, Finish, Refused, caseVars
  <2>3. QED
    BY <2>1, <2>2, KnownKept DEF Moves
<1>3. CASE RunCase(j)
  <2>1. /\ job'[j].pc \in {"setup", "turns"} /\ tag' = OwnTag(j)' /\ job'[j].tag = OwnTag(j)'
        /\ \A k \in Jobs \ {j} : job'[k].tag = job[k].tag
    BY <1>3, RunCaseMoves
  <2>2. UNCHANGED log
    BY <1>3 DEF RunCase
  <2>3. \A t \in Tags : Known(t)' => Known(t) \/ t = OwnTag(j)'
    BY <2>1, <2>2 DEF Known
  <2>4. Begun(OwnTag(j))'
    <3>1. /\ OwnTag(j)'[1] = j /\ OwnTag(j)'[2] = starts'[j]
          /\ OwnTag(j)'[3] = job'[j].at /\ OwnTag(j)'[4] = job'[j].again
      BY DEF OwnTag
    <3>2. QED
      BY <2>1, <3>1 DEF Begun, InCase
  <2>5. QED
    BY <2>3, <2>4
<1>4. CASE SetUp(j)
  <2>1. /\ tag' = CaseTag(j) /\ job'[j].tag = CaseTag(j) /\ Moves(j) /\ job'[j].pc = "turns"
        /\ job'[j].at = job[j].at /\ job'[j].again = job[j].again
    BY <1>4, SetUpMoves
  <2>2. UNCHANGED <<log, starts>>
    BY <1>4 DEF SetUp
  <2>3. CaseTag(j) = tag \/ CaseTag(j) = OwnTag(j)'
    BY <2>1, <2>2 DEF CaseTag, OwnTag
  <2>4. \A t \in Tags : Known(t)' => Known(t) \/ t = OwnTag(j)'
    BY <2>1, <2>2, <2>3 DEF Known, Moves
  <2>5. Begun(OwnTag(j))'
    <3>1. /\ OwnTag(j)'[1] = j /\ OwnTag(j)'[2] = starts'[j]
          /\ OwnTag(j)'[3] = job'[j].at /\ OwnTag(j)'[4] = job'[j].again
      BY DEF OwnTag
    <3>2. QED
      BY <2>1, <3>1 DEF Begun, InCase
  <2>6. QED
    BY <2>4, <2>5
<1>5. CASE Turns(j)
  <2>1. /\ \A k \in Jobs : job'[k].tag = job[k].tag
        /\ log' = log \/ log' = Logged(job[j].tag)
    BY <1>5, TurnsMoves DEF Keeps
  <2>2. UNCHANGED tag /\ job[j].tag \in {NoTag} \cup Tags
    BY <1>5, JobTyped DEF Turns
  <2>3. \A t \in ToSet(log)' : t = job[j].tag \/ t \in ToSet(log)
    <3>1. \A t \in ToSet(Logged(job[j].tag)) : t = job[j].tag \/ t \in ToSet(log)
      BY <2>2, LoggedIs
    <3>2. QED
      BY <2>1, <3>1 DEF ToSet
  <2>4. QED
    BY <2>1, <2>2, <2>3 DEF Known
<1>6. QED
  BY <1>1, <1>2, <1>3, <1>4, <1>5 DEF Work

LEMMA NextTagsBegun ==
  ASSUME TypeOK, TypeOK', Positions, AloneIsOwn, TagsBegun, [Next]_vars PROVE TagsBegun'
  <1>1. \A k \in Jobs : GoesOn(k)
    BY WorkGoesOn, OthersGoOn DEF Next
  <1>2. \A t \in Tags : Known(t)' => Known(t) \/ Begun(t)'
    BY WorkKnown, OthersGoOn DEF Next
  <1>3. QED
    BY <1>1, <1>2, TagsKept


------------------------------------------------------------------------------
(* Cases that nobody runs beside. *)

Alone(j) ==
    job[j].pc \in InCase /\ job[j].alone =>
        /\ \A o \in Jobs \ {j} : job[o].pc \notin InCase
        /\ tag = OwnTag(j) /\ job[j].tag = OwnTag(j)
        /\ Verdicts(j)

\* Steps of the others, who do not begin a case.
LEMMA AloneKept ==
  ASSUME NEW k \in Jobs, Alone(k), job'[k] = job[k], starts'[k] = starts[k],
         \A o \in Jobs : job'[o].pc \in InCase => job[o].pc \in InCase,
         job[k].pc \in InCase /\ job[k].alone => tag' = tag /\ log' = log
  PROVE  Alone(k)'
  <1>1. OwnTag(k)' = OwnTag(k)
    BY DEF OwnTag
  <1>2. QED
    BY <1>1 DEF Alone, Verdicts

\* One coroutine makes a step that is not the beginning of a case.
LEMMA OthersAlone ==
  ASSUME \A k \in Jobs : Alone(k), NEW j \in Jobs,
         \A k \in Jobs \ {j} : job'[k] = job[k] /\ starts'[k] = starts[k],
         job'[j].pc \in InCase => job[j].pc \in InCase,
         job[j].pc \notin InCase => tag' = tag /\ log' = log,
         Alone(j)'
  PROVE  \A k \in Jobs : Alone(k)'
  <1>1. \A o \in Jobs : job'[o].pc \in InCase => job[o].pc \in InCase
    OBVIOUS
  <1>2. ASSUME NEW k \in Jobs \ {j} PROVE Alone(k)'
    <2>1. job[k].pc \in InCase /\ job[k].alone => tag' = tag /\ log' = log
      BY DEF Alone
    <2>2. Alone(k)
      OBVIOUS
    <2>3. QED
      BY <1>1, <2>1, <2>2, AloneKept
  <1>3. QED
    BY <1>2

LEMMA AloneIsAlone == AloneIsOwn <=> \A j \in Jobs : Alone(j)
  BY DEF AloneIsOwn, Alone

LEMMA NotInCaseAlone == ASSUME NEW j \in Jobs, job[j].pc \notin InCase PROVE Alone(j)
  BY DEF Alone

\* A tag that a case takes was never used.
LEMMA FreshTag ==
  ASSUME TypeOK, Positions, TagsBegun, NEW j \in Jobs, RunCase(j) PROVE OwnTag(j)' \notin ToSet(log)
  <1> DEFINE t == OwnTag(j)'
  <1>1. /\ job'[j].at \in Nat /\ job'[j].at >= job[j].at /\ job'[j].again = job[j].again
        /\ job[j].pc \in {"next", "amnesty"} /\ job'[j].again \in BOOLEAN
    BY RunCaseMoves, RunIs
  <1>2. UNCHANGED starts /\ starts[j] \in Nat /\ job[j].at \in Nat
    BY JobTyped DEF RunCase, TypeOK
  <1>3. /\ t \in Tags /\ t[1] = j /\ t[2] = starts[j] /\ t[3] = job'[j].at /\ t[4] = job[j].again
    BY <1>1, <1>2 DEF OwnTag, Tags
  <1> HIDE DEF t
  <1>4. ~Begun(t)
    <2>1. ~(t[2] < starts[j]) /\ ~(t[3] < job[j].at) /\ job[j].pc \notin InCase \cup {"idle", "done"}
      BY <1>1, <1>2, <1>3 DEF InCase
    <2>2. ~(~t[4] /\ job[j].again)
      BY <1>3
    <2>3. QED
      BY <1>3, <2>1, <2>2 DEF Begun
  <1>5. t \notin ToSet(log)
    BY <1>3, <1>4 DEF TagsBegun
  <1>6. QED
    BY <1>5 DEF t

LEMMA RunCaseAlone ==
  ASSUME TypeOK, Positions, TagsBegun, NEW j \in Jobs, RunCase(j) PROVE \A k \in Jobs : Alone(k)'
  <1>1. /\ job'[j].pc \in {"setup", "turns"} /\ tag' = OwnTag(j)' /\ job'[j].tag = OwnTag(j)'
        /\ job'[j].alone => \A o \in Jobs \ {j} : job[o].pc \notin InCase
        /\ \A k \in Jobs \ {j} : job'[k].pc = job[k].pc /\ (job'[k].alone => job[k].pc \notin InCase)
    BY RunCaseMoves
  <1>2. UNCHANGED log /\ OwnTag(j)' \notin ToSet(log)
    BY FreshTag DEF RunCase
  <1>3. Alone(j)'
    BY <1>1, <1>2 DEF Alone, Verdicts
  <1>4. \A k \in Jobs \ {j} : Alone(k)'
    BY <1>1 DEF Alone
  <1>5. QED
    BY <1>3, <1>4

LEMMA WorkAlone ==
  ASSUME TypeOK, Positions, TagsBegun, AloneIsOwn, NEW j \in Jobs, Work(j)
  PROVE  \A k \in Jobs : Alone(k)'
<1>0. \A k \in Jobs : Alone(k)
  BY AloneIsAlone
<1>1. CASE Unfit(j) \/ BackendDown(j) \/ CaseRaises(j) \/ Collides(j)
         \/ ProposalRaises(j) \/ Written(j) \/ GivenUp(j)
  <2>1. PICK row : AttemptEnds(j, row)
    BY <1>1, AttemptEnded
  <2>2. /\ \A k \in Jobs \ {j} : job'[k] = job[k] /\ starts'[k] = starts[k]
        /\ job[j].pc \notin InCase => tag' = tag /\ log' = log
        /\ job'[j].pc \in {"next", "amnesty"}
    BY <2>1 DEF AttemptEnds
  <2>3. job'[j].pc \notin InCase
    BY <2>2 DEF InCase
  <2>4. Alone(j)'
    BY <2>3 DEF Alone
  <2>5. QED
    BY <1>0, <2>2, <2>3, <2>4, OthersAlone
<1>2. CASE \/ Begin(j) \/ Preflight(j) \/ SkipCase(j) \/ LoopEnds(j) \/ AmnestyEnds(j) \/ Finish(j)
  <2>1. Moves(j) /\ job'[j].pc \in {"preflight", "next", "amnesty", "done", "idle"}
    <3>1. CASE LoopEnds(j)
      <4>1. Moves(j) /\ job'[j].pc = (IF job'[j].again THEN "amnesty" ELSE "done")
        BY <3>1, LoopEndsMoves
      <4>2. job'[j].pc = "amnesty" \/ job'[j].pc = "done"
        BY <4>1
      <4>3. QED
        BY <4>1, <4>2
    <3>2. CASE ~LoopEnds(j)
      BY <1>2, <3>2, BeginMoves, PreflightMoves, SkipMoves, AmnestyEndsMoves, FinishMoves, IdleIs
    <3>3. QED
      BY <3>1, <3>2
  <2>2. UNCHANGED <<tag, log, starts>>
    BY <1>2 DEF Begin, Preflight, SkipCase, LoopEnds, AmnestyEnds, Finish, caseVars
  <2>3. job'[j].pc \notin InCase
    BY <2>1 DEF InCase
  <2>4. Alone(j)'
    BY <2>3 DEF Alone
  <2>5. QED
    BY <1>0, <2>1, <2>2, <2>3, <2>4, OthersAlone DEF Moves
<1>3. CASE RunCase(j)
  BY <1>3, RunCaseAlone
<1>4. CASE SetUp(j)
  <2>1. /\ Moves(j) /\ job[j].pc = "setup" /\ job'[j].pc = "turns" /\ job'[j].at = job[j].at
        /\ job'[j].again = job[j].again /\ job'[j].alone = job[j].alone
        /\ job'[j].tag = CaseTag(j) /\ tag' = CaseTag(j)
    BY <1>4, SetUpMoves
  <2>2. UNCHANGED <<log, starts>>
    BY <1>4 DEF SetUp
  <2>3. OwnTag(j)' = OwnTag(j)
    BY <2>1, <2>2 DEF OwnTag
  <2>4. Alone(j)'
    <3>1. SUFFICES ASSUME job[j].alone PROVE Alone(j)'
      BY <2>1 DEF Alone
    <3>2. /\ \A o \in Jobs \ {j} : job[o].pc \notin InCase
          /\ tag = OwnTag(j) /\ OwnTag(j) \notin ToSet(log)
      BY <1>0, <2>1, <3>1 DEF Alone, Verdicts, InCase
    <3>3. CaseTag(j) = OwnTag(j)
      BY <3>2 DEF CaseTag
    <3>4. \A o \in Jobs \ {j} : job'[o].pc \notin InCase
      BY <2>1, <3>2 DEF Moves
    <3>5. QED
      BY <2>1, <2>2, <2>3, <3>2, <3>3, <3>4 DEF Alone, Verdicts
  <2>5. job[j].pc \in InCase
    BY <2>1 DEF InCase
  <2>6. QED
    BY <1>0, <2>1, <2>2, <2>4, <2>5, OthersAlone DEF Moves
<1>5. CASE Turns(j)
  <2>1. /\ \A k \in Jobs \ {j} : job'[k].pc = job[k].pc /\ job'[k].alone = job[k].alone
        /\ job[j].pc = "turns" /\ job'[j].pc = "judge" /\ job'[j].at = job[j].at
        /\ job'[j].again = job[j].again /\ job'[j].alone = job[j].alone /\ job'[j].tag = job[j].tag
        /\ job'[j].noise = 0
        /\ log' = IF job'[j].fell THEN Logged(job[j].tag) ELSE log
    BY <1>5, TurnsMoves DEF Keeps
  <2>2. UNCHANGED <<tag, starts>>
    BY <1>5 DEF Turns
  <2>3. OwnTag(j)' = OwnTag(j)
    BY <2>1, <2>2 DEF OwnTag
  <2>4. job[j].pc \in InCase /\ job'[j].pc \in InCase
    BY <2>1 DEF InCase
  <2>5. CASE job[j].alone
    <3>1. /\ \A o \in Jobs \ {j} : job[o].pc \notin InCase
          /\ tag = OwnTag(j) /\ job[j].tag = OwnTag(j) /\ OwnTag(j) \notin ToSet(log)
      BY <1>0, <2>1, <2>4, <2>5 DEF Alone, Verdicts
    <3>2. Verdicts(j)'
      <4>1. CASE job'[j].fell
        <5>1. log' = Logged(OwnTag(j)) /\ OwnTag(j) \in {NoTag} \cup Tags
          BY <2>1, <3>1, <4>1, OwnTagTyped
        <5>2. 0 < Len(log') /\ log'[Len(log')] = OwnTag(j) /\ Len(log') \in Nat
          BY <5>1, LoggedIs, LenProperties
        <5>3. Len(log') - job'[j].noise = Len(log')
          BY <2>1, <5>2
        <5>4. QED
          BY <2>1, <2>3, <4>1, <5>2, <5>3 DEF Verdicts
      <4>2. CASE ~job'[j].fell
        <5>1. OwnTag(j)' \notin ToSet(log)'
          BY <2>1, <2>3, <3>1, <4>2 DEF ToSet
        <5>2. QED
          BY <2>1, <4>2, <5>1 DEF Verdicts
      <4>3. QED
        BY <4>1, <4>2
    <3>3. \A o \in Jobs \ {j} : job'[o].pc \notin InCase
      BY <2>1, <3>1
    <3>4. Alone(j)'
      BY <2>1, <2>2, <2>3, <3>1, <3>2, <3>3 DEF Alone
    <3>5. \A k \in Jobs \ {j} : Alone(k)'
      BY <3>3 DEF Alone
    <3>6. QED
      BY <3>4, <3>5
  <2>6. CASE ~job[j].alone
    <3>1. Alone(j)'
      <4>1. ~job'[j].alone
        BY <2>1, <2>6
      <4>2. QED
        BY <4>1 DEF Alone
    <3>2. ASSUME NEW k \in Jobs \ {j} PROVE Alone(k)'
      <4>1. ~(job[k].pc \in InCase /\ job[k].alone)
        BY <1>0, <2>4 DEF Alone
      <4>2. job'[k].pc = job[k].pc /\ job'[k].alone = job[k].alone
        BY <2>1
      <4>3. QED
        BY <4>1, <4>2 DEF Alone
    <3>3. QED
      BY <3>1, <3>2
  <2>7. QED
    BY <2>5, <2>6
<1>6. CASE Refused(j)
  <2>1. /\ Moves(j) /\ job[j].pc \in {"judge", "record"} /\ job'[j].pc = "record"
        /\ job'[j].at = job[j].at /\ job'[j].again = job[j].again
        /\ job'[j].tag = job[j].tag /\ job'[j].alone = job[j].alone
        /\ job'[j].fell = job[j].fell /\ job'[j].noise = job[j].noise
        /\ job'[j].verdict = Outcome(j)
    BY <1>6, RefusedMoves
  <2>2. UNCHANGED <<tag, log, starts>>
    BY <1>6 DEF Refused, caseVars
  <2>3. OwnTag(j)' = OwnTag(j) /\ job[j].pc \in InCase
    BY <2>1, <2>2 DEF OwnTag, InCase
  <2>4. Alone(j)'
    <3>1. SUFFICES ASSUME job[j].alone PROVE Alone(j)'
      BY <2>1 DEF Alone
    <3>2. /\ \A o \in Jobs \ {j} : job[o].pc \notin InCase
          /\ tag = OwnTag(j) /\ job[j].tag = OwnTag(j)
      BY <1>0, <2>3, <3>1 DEF Alone
    <3>3. job[j].noise < LogSize =>
            (Outcome(j) = "invalid" => job[j].fell) /\ (Outcome(j) = "ok" => ~job[j].fell)
      BY <2>1, <3>1, OutcomeIsRight
    <3>4. Outcome(j) = "invalid" => job[j].fell
      BY <1>0, <2>1, <2>3, <3>1, <3>2 DEF Alone, Verdicts, Outcome, FellBack
    <3>5. Verdicts(j)'
      BY <2>1, <3>3, <3>4 DEF Verdicts
    <3>6. \A o \in Jobs \ {j} : job'[o].pc \notin InCase
      BY <2>1, <3>2 DEF Moves
    <3>7. QED
      BY <2>1, <2>2, <2>3, <3>2, <3>5, <3>6 DEF Alone
  <2>5. QED
    BY <1>0, <2>1, <2>2, <2>3, <2>4, OthersAlone DEF Moves
<1>7. QED
  BY <1>1, <1>2, <1>3, <1>4, <1>5, <1>6 DEF Work

\* Another turn falls back: the entry of the case sinks by one.
LEMMA ChatAlone ==
  ASSUME TypeOK, NEW j \in Jobs, Alone(j), ChatFallsBack PROVE Alone(j)'
<1>1. /\ \A k \in Jobs : job'[k].pc = job[k].pc /\ job'[k] = Noisy(k)
      /\ job'[j].at = job[j].at /\ job'[j].again = job[j].again /\ job'[j].tag = job[j].tag
      /\ log' = Logged(NoTag) /\ UNCHANGED <<tag, starts>>
  BY ChatMoves DEF Keeps
<1>2. /\ job'[j].alone = job[j].alone /\ job'[j].fell = job[j].fell
      /\ job'[j].verdict = job[j].verdict
      /\ job'[j].noise = IF job[j].pc = "judge" /\ job[j].fell THEN Louder(j) ELSE job[j].noise
  BY <1>1, NoisyIs
<1>3. OwnTag(j)' = OwnTag(j) /\ OwnTag(j) \in Tags /\ job[j].noise \in 0 .. LogSize
  BY <1>1, OwnTagTyped, JobTyped DEF OwnTag
<1>4. SUFFICES ASSUME job[j].pc \in InCase, job[j].alone PROVE Verdicts(j)'
  BY <1>1, <1>2, <1>3 DEF Alone
<1>5. Verdicts(j)
  BY <1>4 DEF Alone
<1>6. OwnTag(j) \in ToSet(log') => OwnTag(j) \in ToSet(log)
  BY <1>1, <1>3, LoggedIs, NoTagIsNone
<1>7. CASE job[j].pc = "judge" /\ job[j].fell /\ job'[j].noise < LogSize
  <2>1. job'[j].noise = job[j].noise + 1 /\ job[j].noise < LogSize
    BY <1>2, <1>3, <1>7 DEF Louder
  <2>2. job[j].noise < Len(log) /\ log[Len(log) - job[j].noise] = OwnTag(j)
    BY <1>5, <1>7, <2>1 DEF Verdicts
  <2>3. job'[j].noise < Len(log') /\ log'[Len(log') - job'[j].noise] = OwnTag(j)
    <3>1. job[j].noise \in Nat /\ job[j].noise + 1 < LogSize
      BY <1>3, <1>7, <2>1
    <3>2. /\ job[j].noise + 1 < Len(Logged(NoTag))
          /\ Logged(NoTag)[Len(Logged(NoTag)) - (job[j].noise + 1)] = log[Len(log) - job[j].noise]
      BY <2>2, <3>1, LoggedIs
    <3>3. QED
      BY <1>1, <2>1, <2>2, <3>2
  <2>4. QED
    BY <1>1, <1>2, <1>3, <1>7, <2>3 DEF Verdicts
<1>8. CASE ~(job[j].pc = "judge" /\ job[j].fell /\ job'[j].noise < LogSize)
  <2>1. OwnTag(j)' \in ToSet(log)' => OwnTag(j) \in ToSet(log)
    BY <1>3, <1>6 DEF ToSet
  <2>2. job[j].pc = "record" => job'[j].noise = job[j].noise
    BY <1>2
  <2>3. QED
    BY <1>1, <1>2, <1>5, <1>8, <2>1, <2>2 DEF Verdicts
<1>9. QED
  BY <1>7, <1>8

LEMMA NextAloneIsOwn ==
  ASSUME TypeOK, Positions, TagsBegun, AloneIsOwn, [Next]_vars PROVE AloneIsOwn'
<1> USE DEF suiteVars, caseVars, schedVars
<1>0. \A k \in Jobs : Alone(k)
  BY AloneIsAlone
<1>1. SUFFICES \A k \in Jobs : Alone(k)'
  BY DEF AloneIsOwn, Alone
<1>2. ASSUME NEW j \in Jobs, job' = Spawned(j), starts' = [starts EXCEPT ![j] = @ + 1],
             UNCHANGED <<tag, log>>
      PROVE  \A k \in Jobs : Alone(k)'
  <2>1. Moves(j) /\ job'[j].pc = "spawned"
    BY <1>2, SpawnedMoves
  <2>2. \A k \in Jobs \ {j} : starts'[k] = starts[k]
    BY <1>2 DEF TypeOK
  <2>3. job'[j].pc \notin InCase
    BY <2>1 DEF InCase
  <2>4. Alone(j)'
    BY <2>3 DEF Alone
  <2>5. QED
    BY <1>0, <1>2, <2>1, <2>2, <2>3, <2>4, OthersAlone DEF Moves
<1>3. CASE \E j \in Jobs : Start(j)
  BY <1>2, <1>3 DEF Start
<1>4. CASE Tick
  BY <1>2, <1>4, TickMoves
<1>5. CASE Crash
  <2>1. \A k \in Jobs : job'[k].pc \notin InCase
    BY <1>5, IdleIs DEF Crash, InCase
  <2>2. QED
    BY <2>1 DEF Alone
<1>6. CASE \/ TickDisables \/ TickRaises \/ Cancel \/ UNCHANGED vars
           \/ \E s \in Scheduled : Elapse(s) \/ Unselect(s)
  <2>1. UNCHANGED <<job, starts, tag, log>>
    BY <1>6, TickDisablesMoves DEF TickRaises, Cancel, Elapse, Unselect, vars
  <2>2. QED
    BY <1>0, <2>1 DEF Alone, OwnTag, Verdicts
<1>61. CASE ChatFallsBack
  BY <1>0, <1>61, ChatAlone
<1>7. CASE \E j \in Jobs : Work(j)
  BY <1>7, WorkAlone
<1>8. QED
  BY <1>3, <1>4, <1>5, <1>6, <1>61, <1>7 DEF Next


------------------------------------------------------------------------------
(* The rows of the summary. *)

\* What a row may claim when its suite's part of the ledger is "recorded".
RowRight(recorded, r) ==
    /\ r.status \in {"ok", "invalid", "crashed"} => <<r.case, r.status>> \in recorded \/ Unsaved(r)
    /\ r.sure => VerdictIsRight(r)

RowsRight(j) == \A i \in DOMAIN job[j].rows : RowRight(ledger[j], job[j].rows[i])

SummaryRight == \A j \in Jobs : RowsRight(j)

LEMMA SummaryRightSuffices ==
  ASSUME SummaryRight PROVE SummaryIsRecorded /\ AloneVerdictsRight
  BY DEF SummaryRight, RowsRight, RowRight, SummaryIsRecorded, AloneVerdictsRight, ToSet

\* A row of a case that did not run claims nothing.
LEMMA SkippedIsRight ==
  ASSUME NEW recorded, NEW r, r.status = "skipped" PROVE RowRight(recorded, r)
  BY DEF RowRight, VerdictIsRight

\* Rows that were there stay right while the ledger grows.
LEMMA RowsStay ==
  ASSUME NEW j \in Jobs, RowsRight(j), job'[j].rows = job[j].rows, ledger[j] \subseteq ledger'[j]
  PROVE  RowsRight(j)'
  BY DEF RowsRight, RowRight

LEMMA NoRowsRight == ASSUME NEW j \in Jobs, job'[j].rows = <<>> PROVE RowsRight(j)'
  BY DEF RowsRight

LEMMA AttemptRowsRight ==
  ASSUME TypeOK, SummaryRight, NEW j \in Jobs, NEW row, AttemptEnds(j, row)
  PROVE  \A k \in Jobs : RowsRight(k)'
<1>1. /\ job'[j].rows = NewRows(j, row) /\ \A k \in Jobs \ {j} : job'[k] = job[k]
      /\ \A k \in Jobs : ledger[k] \subseteq ledger'[k]
  BY DEF AttemptEnds
<1>2. \A k \in Jobs \ {j} : RowsRight(k)'
  BY <1>1, RowsStay DEF SummaryRight
<1>3. ASSUME NEW i \in DOMAIN job'[j].rows PROVE RowRight(ledger'[j], job'[j].rows[i])
  <2>1. i \in DOMAIN NewRows(j, row) /\ job'[j].rows[i] = NewRows(j, row)[i]
    BY <1>1, <1>3
  <2>2. ~job[j].again \/ row.status # "crashed" => row \in Rows
    BY DEF AttemptEnds
  <2>3. \/ NewRows(j, row)[i] = row /\ (~job[j].again \/ row.status # "crashed")
        \/ i \in DOMAIN job[j].rows /\ NewRows(j, row)[i] = job[j].rows[i]
    BY <2>1, <2>2, NewRowsTyped
  <2>4. CASE NewRows(j, row)[i] = row /\ (~job[j].again \/ row.status # "crashed")
    <3>1. RowRight(ledger'[j], row)
      BY <2>4 DEF AttemptEnds, RowRight
    <3>2. job'[j].rows[i] = row
      BY <2>1, <2>4
    <3>3. QED
      BY <3>1, <3>2
  <2>5. CASE i \in DOMAIN job[j].rows /\ NewRows(j, row)[i] = job[j].rows[i]
    <3>1. RowRight(ledger[j], job[j].rows[i])
      BY <2>5 DEF SummaryRight, RowsRight
    <3>2. RowRight(ledger'[j], job[j].rows[i])
      BY <1>1, <3>1 DEF RowRight
    <3>3. job'[j].rows[i] = job[j].rows[i]
      BY <2>1, <2>5
    <3>4. QED
      BY <3>2, <3>3
  <2>6. QED
    BY <2>3, <2>4, <2>5
<1>4. QED
  BY <1>2, <1>3 DEF RowsRight

LEMMA WorkRowsRight ==
  ASSUME TypeOK, Positions, AloneIsOwn, SummaryRight, NEW j \in Jobs, Work(j)
  PROVE  \A k \in Jobs : RowsRight(k)'
<1>0. \A k \in Jobs : RowsRight(k)
  BY DEF SummaryRight
<1>1. CASE Unfit(j) \/ BackendDown(j) \/ CaseRaises(j) \/ Collides(j)
         \/ ProposalRaises(j) \/ Written(j) \/ GivenUp(j)
  BY <1>1, AttemptEnded, AttemptRowsRight
<1>2. CASE Begin(j) \/ SetUp(j) \/ Refused(j) \/ LoopEnds(j) \/ AmnestyEnds(j)
  <2>1. Moves(j) /\ job'[j].rows = job[j].rows
    BY <1>2, BeginMoves, SetUpMoves, RefusedMoves, LoopEndsMoves, AmnestyEndsMoves
  <2>2. UNCHANGED ledger
    BY <1>2 DEF Begin, SetUp, Refused, LoopEnds, AmnestyEnds, caseVars
  <2>3. QED
    BY <1>0, <2>1, <2>2, RowsStay DEF Moves
<1>3. CASE RunCase(j) \/ Turns(j)
  <2>1. \A k \in Jobs : job'[k].rows = job[k].rows
    BY <1>3, RunCaseMoves, TurnsMoves DEF Keeps
  <2>2. UNCHANGED ledger
    BY <1>3 DEF RunCase, Turns
  <2>3. QED
    BY <1>0, <2>1, <2>2, RowsStay
<1>4. CASE Preflight(j)
  <2>1. UNCHANGED ledger /\ \A k \in Jobs \ {j} : job'[k] = job[k]
    BY <1>4, PreflightMoves DEF Preflight, caseVars, Moves
  <2>2. RowsRight(j)'
    <3>1. CASE job'[j].rows = job[j].rows
      BY <1>0, <2>1, <3>1, RowsStay
    <3>2. CASE \A i \in DOMAIN job'[j].rows : Skips(job'[j].rows[i])
      <4>1. \A i \in DOMAIN job'[j].rows : job'[j].rows[i].status = "skipped"
        BY <3>2 DEF Skips
      <4>2. QED
        BY <4>1, SkippedIsRight DEF RowsRight
    <3>3. QED
      BY <1>4, <3>1, <3>2, PreflightMoves
  <2>3. QED
    BY <1>0, <2>1, <2>2, RowsStay
<1>5. CASE SkipCase(j)
  <2>1. UNCHANGED ledger /\ \A k \in Jobs \ {j} : job'[k] = job[k]
    BY <1>5, SkipMoves DEF SkipCase, caseVars, Moves
  <2>2. RowsRight(j)'
    <3>1. /\ job'[j].rows = Append(job[j].rows, Row(j, "skipped"))
          /\ Row(j, "skipped").status = "skipped" /\ job[j].rows \in Seq(Rows)
      BY <1>5, SkipMoves, JobTyped DEF Row, Unjudged
    <3>2. ASSUME NEW i \in DOMAIN job'[j].rows
          PROVE  \/ job'[j].rows[i] = Row(j, "skipped")
                 \/ i \in DOMAIN job[j].rows /\ job'[j].rows[i] = job[j].rows[i]
      BY <3>1, <3>2
    <3>3. ASSUME NEW i \in DOMAIN job'[j].rows PROVE RowRight(ledger'[j], job'[j].rows[i])
      <4>1. CASE job'[j].rows[i] = Row(j, "skipped")
        <5>1. job'[j].rows[i].status = "skipped"
          BY <3>1, <4>1
        <5>2. QED
          BY <5>1, SkippedIsRight
      <4>2. CASE i \in DOMAIN job[j].rows /\ job'[j].rows[i] = job[j].rows[i]
        <5>1. RowRight(ledger[j], job[j].rows[i])
          BY <1>0, <4>2 DEF RowsRight
        <5>2. QED
          BY <2>1, <4>2, <5>1
      <4>3. QED
        BY <3>2, <4>1, <4>2
    <3>4. QED
      BY <3>3 DEF RowsRight
  <2>3. QED
    BY <1>0, <2>1, <2>2, RowsStay
<1>6. CASE Finish(j)
  <2>1. job'[j].rows = <<>> /\ \A k \in Jobs \ {j} : job'[k] = job[k]
    BY <1>6, FinishMoves, IdleIs DEF Moves
  <2>2. \A k \in Jobs \ {j} : ledger'[k] = ledger[k]
    BY <1>6 DEF Finish, TypeOK
  <2>3. QED
    BY <1>0, <2>1, <2>2, RowsStay, NoRowsRight
<1>7. QED
  BY <1>1, <1>2, <1>3, <1>4, <1>5, <1>6 DEF Work

LEMMA NextSummaryRight ==
  ASSUME TypeOK, Positions, AloneIsOwn, SummaryRight, [Next]_vars PROVE SummaryRight'
<1> USE DEF suiteVars, caseVars, schedVars
<1>0. \A k \in Jobs : RowsRight(k)
  BY DEF SummaryRight
<1>1. SUFFICES \A k \in Jobs : RowsRight(k)'
  BY DEF SummaryRight
<1>2. ASSUME NEW j \in Jobs, job' = Spawned(j), UNCHANGED ledger PROVE \A k \in Jobs : RowsRight(k)'
  BY <1>0, <1>2, SpawnedMoves, RowsStay, NoRowsRight DEF Moves
<1>3. CASE \E j \in Jobs : Start(j)
  BY <1>2, <1>3 DEF Start
<1>4. CASE Tick
  BY <1>2, <1>4, TickMoves
<1>5. CASE Crash
  BY <1>5, IdleIs, NoRowsRight DEF Crash
<1>6. CASE \/ TickDisables \/ TickRaises \/ Cancel \/ UNCHANGED vars
           \/ \E s \in Scheduled : Elapse(s) \/ Unselect(s)
  <2>1. UNCHANGED <<job, ledger>>
    BY <1>6, TickDisablesMoves DEF TickRaises, Cancel, Elapse, Unselect, vars
  <2>2. QED
    BY <1>0, <2>1, RowsStay
<1>61. CASE ChatFallsBack
  BY <1>0, <1>61, ChatMoves, RowsStay DEF Keeps
<1>7. CASE \E j \in Jobs : Work(j)
  BY <1>7, WorkRowsRight
<1>8. QED
  BY <1>3, <1>4, <1>5, <1>6, <1>61, <1>7 DEF Next

------------------------------------------------------------------------------
(* The lock and the intervals. *)

\* The suites that ask for the lock and are active afterwards were so before.
LEMMA WorkLock ==
  ASSUME TypeOK, Positions, AloneIsOwn, NEW j \in Jobs, Work(j)
  PROVE  /\ \A k \in Jobs \ {j} : job'[k].pc = job[k].pc
         /\ Active(j)
         /\ \/ UNCHANGED lock
            \/ ~Active(j)' /\ j \notin Called /\ lock' = None
         /\ UNCHANGED <<starts, sched, periods>>
<1> USE DEF suiteVars, caseVars, schedVars
<1>1. CASE Unfit(j) \/ BackendDown(j) \/ CaseRaises(j) \/ Collides(j)
         \/ ProposalRaises(j) \/ Written(j) \/ GivenUp(j)
  BY <1>1, AttemptEnded DEF AttemptEnds, Active, InCase
<1>2. CASE Begin(j) \/ Preflight(j) \/ SkipCase(j) \/ SetUp(j) \/ Refused(j) \/ LoopEnds(j) \/ AmnestyEnds(j)
  <2>1. Moves(j) /\ Active(j)
    BY <1>2, BeginMoves, PreflightMoves, SkipMoves, SetUpMoves, RefusedMoves, LoopEndsMoves,
       AmnestyEndsMoves DEF Active
  <2>2. UNCHANGED <<lock, starts, sched, periods>>
    BY <1>2 DEF Begin, Preflight, SkipCase, SetUp, Refused, LoopEnds, AmnestyEnds
  <2>3. QED
    BY <2>1, <2>2 DEF Moves
<1>3. CASE RunCase(j) \/ Turns(j)
  <2>1. Active(j) /\ \A k \in Jobs \ {j} : job'[k].pc = job[k].pc
    BY <1>3, RunCaseMoves, TurnsMoves DEF Active, Keeps
  <2>2. UNCHANGED <<lock, starts, sched, periods>>
    BY <1>3 DEF RunCase, Turns
  <2>3. QED
    BY <2>1, <2>2
<1>4. CASE Finish(j)
  <2>1. Moves(j) /\ Active(j) /\ ~Active(j)'
    BY <1>4, FinishMoves, IdleIs DEF Active
  <2>2. UNCHANGED lock \/ (j \notin Called /\ lock' = None)
    BY <1>4 DEF Finish, Release
  <2>3. UNCHANGED <<starts, sched, periods>>
    BY <1>4 DEF Finish
  <2>4. QED
    BY <2>1, <2>2, <2>3 DEF Moves
<1>5. QED
  BY <1>1, <1>2, <1>3, <1>4 DEF Work

LEMMA NextLockHeld ==
  ASSUME TypeOK, Positions, AloneIsOwn, LockHeld, [Next]_vars PROVE LockHeld'
<1> USE DEF suiteVars, caseVars, schedVars
<1>1. ASSUME NEW j \in Jobs, Work(j) PROVE LockHeld'
  BY <1>1, WorkLock DEF LockHeld, Active
<1>2. ASSUME NEW j \in Jobs, Start(j) PROVE LockHeld'
  <2>1. \A k \in Jobs \ {j} : job'[k] = job[k]
    BY <1>2, SpawnedMoves DEF Start, Moves
  <2>2. CASE j \in Posted
    BY <1>2, <2>1, <2>2 DEF Start, Free, LockHeld, Active
  <2>3. CASE j \notin Posted
    <3>1. j \in Called /\ UNCHANGED lock
      BY <1>2, <2>3 DEF Start, Jobs
    <3>2. QED
      BY <2>1, <3>1 DEF LockHeld, Active
  <2>4. QED
    BY <2>2, <2>3
<1>3. CASE Tick
  <2>1. PICK s \in Scheduled : s \in Jobs /\ Free /\ lock' = s /\ job' = Spawned(s)
    BY <1>3, TickMoves
  <2>2. \A k \in Jobs \ {s} : job'[k] = job[k]
    BY <2>1, SpawnedMoves DEF Moves
  <2>3. QED
    BY <2>1, <2>2 DEF Free, LockHeld, Active
<1>4. CASE TickRaises
  BY <1>4 DEF TickRaises, Free, LockHeld, Active
<1>5. CASE Crash
  BY <1>5, IdleIs DEF Crash, LockHeld, Active
<1>6. CASE \/ TickDisables \/ Cancel \/ UNCHANGED vars
           \/ \E s \in Scheduled : Elapse(s) \/ Unselect(s)
  <2>1. UNCHANGED <<job, lock>>
    BY <1>6, TickDisablesMoves DEF Cancel, Elapse, Unselect, vars
  <2>2. QED
    BY <2>1 DEF LockHeld, Active
<1>61. CASE ChatFallsBack
  BY <1>61, ChatMoves DEF LockHeld, Active, Keeps
<1>7. QED
  BY <1>1, <1>2, <1>3, <1>4, <1>5, <1>6, <1>61 DEF Next

LEMMA NextDueIsUnused ==
  ASSUME TypeOK, Positions, AloneIsOwn, DueIsUnused, [Next]_vars PROVE DueIsUnused'
<1> USE ScheduledAreJobs DEF suiteVars, caseVars, schedVars
<1>1. \A s \in Scheduled : starts[s] \in Nat /\ periods[s] \in Nat
  BY DEF TypeOK
<1>2. ASSUME NEW j \in Jobs, Work(j) PROVE DueIsUnused'
  BY <1>2, WorkLock DEF DueIsUnused
<1>3. ASSUME NEW j \in Jobs, Start(j) PROVE DueIsUnused'
  <2>1. UNCHANGED <<sched, periods>> /\ \A s \in Scheduled : starts'[s] = starts[s]
    BY <1>3 DEF Start, TypeOK
  <2>2. QED
    BY <2>1 DEF DueIsUnused
<1>4. CASE Tick
  <2>1. PICK s \in Scheduled :
           /\ sched[s].due /\ starts' = [starts EXCEPT ![s] = @ + 1]
           /\ ~sched'[s].due /\ \A x \in Scheduled : sched'[x].due => sched[x].due
           /\ UNCHANGED periods
    BY <1>4, TickMoves
  <2>2. starts'[s] = starts[s] + 1 /\ \A x \in Scheduled \ {s} : starts'[x] = starts[x]
    BY <2>1 DEF TypeOK
  <2>3. QED
    BY <1>1, <2>1, <2>2 DEF DueIsUnused
<1>5. CASE TickDisables
  <2>1. UNCHANGED <<starts, periods>> /\ \A x \in Scheduled : sched'[x].due = sched[x].due
    BY <1>5, TickDisablesMoves
  <2>2. QED
    BY <2>1 DEF DueIsUnused
<1>6. CASE TickRaises \/ ChatFallsBack \/ Cancel \/ Crash \/ UNCHANGED vars
  <2>1. UNCHANGED <<starts, periods, sched>>
    BY <1>6 DEF TickRaises, ChatFallsBack, Cancel, Crash, vars
  <2>2. QED
    BY <2>1 DEF DueIsUnused
<1>7. ASSUME NEW s \in Scheduled, Elapse(s) PROVE DueIsUnused'
  <2>1. /\ ~sched[s].due /\ UNCHANGED starts
        /\ periods'[s] = periods[s] + 1 /\ \A x \in Scheduled \ {s} : periods'[x] = periods[x]
        /\ \A x \in Scheduled \ {s} : sched'[x] = sched[x]
    BY <1>7 DEF Elapse, TypeOK
  <2>2. QED
    BY <1>1, <2>1, SMTT(30) DEF DueIsUnused
<1>8. ASSUME NEW s \in Scheduled, Unselect(s) PROVE DueIsUnused'
  <2>1. UNCHANGED <<starts, periods>>
    BY <1>8 DEF Unselect
  <2>2. \A x \in Scheduled : sched'[x].due = sched[x].due
    BY <1>8, SchedTyped, SchedPut DEF Unselect
  <2>3. QED
    BY <2>1, <2>2 DEF DueIsUnused
<1>9. QED
  BY <1>2, <1>3, <1>4, <1>5, <1>6, <1>7, <1>8 DEF Next

------------------------------------------------------------------------------
(* The theorems. *)

IInv == TypeOK /\ Positions /\ TagsBegun /\ AloneIsOwn

LEMMA InitIInv == Init => IInv
  <1> SUFFICES ASSUME Init PROVE IInv
    OBVIOUS
  <1>1. TypeOK /\ Positions
    BY InitTypeOK
  <1>2. \A j \in Jobs : job[j] = Idle
    BY DEF Init
  <1>3. TagsBegun
    BY <1>2, IdleIs, NoTagIsNone, EmptyLog DEF Init, TagsBegun
  <1>4. AloneIsOwn
    BY <1>2, IdleIs DEF AloneIsOwn, InCase
  <1>5. QED
    BY <1>1, <1>3, <1>4 DEF IInv

LEMMA NextIInv == IInv /\ [Next]_vars => IInv'
  <1> SUFFICES ASSUME IInv, [Next]_vars PROVE IInv'
    OBVIOUS
  <1>1. TypeOK'
    BY NextTypeOK DEF IInv
  <1>2. QED
    BY <1>1, NextPositions, NextTagsBegun, NextAloneIsOwn DEF IInv

\* What every state of the suites satisfies: the types, how far each suite is,
\* whose the tags are and that a case alone runs under its own.
THEOREM Invariance == Spec => []IInv
<1>1. QED
  BY InitIInv, NextIInv, PTL DEF Spec

\* The types of the state, for any suites and plans.
THEOREM TypeCorrect == Spec => []TypeOK
<1>1. IInv => TypeOK
  BY DEF IInv
<1>2. QED
  BY <1>1, Invariance, PTL

\* Of the suites that ask for the lock, an administrator's and the ticker's,
\* one at a time is active, whatever crashes or raises.
THEOREM OneSuiteAtATime == Spec => []OneSuite
<1>1. Init => LockHeld
  BY IdleIs DEF Init, LockHeld, Active
<1>2. IInv /\ LockHeld /\ [Next]_vars => LockHeld'
  BY NextLockHeld DEF IInv
<1>3. LockHeld => OneSuite
  BY DEF LockHeld, OneSuite
<1>4. QED
  BY <1>1, <1>2, <1>3, Invariance, PTL DEF Spec

\* The ticker starts a scheduled suite at most once per interval: the stamp
\* goes before the suite.
THEOREM IntervalsStartOnce == Spec => []OncePerInterval
<1>1. Init => DueIsUnused
  BY ScheduledAreJobs DEF Init, DueIsUnused
<1>2. IInv /\ DueIsUnused /\ [Next]_vars => DueIsUnused'
  BY NextDueIsUnused DEF IInv
<1>3. IInv /\ DueIsUnused => OncePerInterval
  <2>1. SUFFICES ASSUME IInv, DueIsUnused, NEW s \in Scheduled PROVE starts[s] <= periods[s]
    BY DEF OncePerInterval
  <2>2. starts[s] \in Nat /\ periods[s] \in Nat
    BY <2>1, ScheduledAreJobs DEF IInv, TypeOK
  <2>3. starts[s] <= periods[s] \/ starts[s] + 1 <= periods[s]
    BY <2>1, <2>2 DEF DueIsUnused
  <2>4. QED
    BY <2>2, <2>3
<1>4. QED
  BY <1>1, <1>2, <1>3, Invariance, PTL DEF Spec

\* The two claims about rows hold together.
LEMMA SummaryInvariance == Spec => []SummaryRight
<1>1. Init => SummaryRight
  BY IdleIs DEF Init, SummaryRight, RowsRight
<1>2. IInv /\ SummaryRight /\ [Next]_vars => SummaryRight'
  BY NextSummaryRight DEF IInv
<1>3. QED
  BY <1>1, <1>2, Invariance, PTL DEF Spec

\* What the summary counts of a case that ran is what the ledger holds, unless
\* the store refused every attempt to write the row (_finalize_result): the
\* retry of an invalid result replaces its row with what was recorded last.
THEOREM SummariesAreRecorded == Spec => []SummaryIsRecorded
<1>1. SummaryRight => SummaryIsRecorded
  BY SummaryRightSuffices
<1>2. QED
  BY <1>1, SummaryInvariance, PTL

\* A case that nobody ran beside is invalid if and only if a turn of its own
\* fell back (_fallbacks_since), unless turns of others pushed its entries out
\* of the bounded log of the model client before the verdict.
THEOREM AloneVerdictsAreRight == Spec => []AloneVerdictsRight
<1>1. SummaryRight => AloneVerdictsRight
  BY SummaryRightSuffices
<1>2. QED
  BY <1>1, SummaryInvariance, PTL

-----------------------------------------------------------------------------
(* The brain overlays, the instance Brain of EvalLessons.                  *)

-----------------------------------------------------------------------------
(* The inbox operators. *)

\* Updating rows in place keeps a sequence of proposals one.
LEMMA RowsType ==
    ASSUME NEW s, DOMAIN s = DOMAIN inbox, Brain!TypeOK,
           s = [p \in DOMAIN inbox |-> s[p]],
           \A p \in DOMAIN inbox : s[p] \in Brain!Proposal
    PROVE  s \in Seq(Brain!Proposal) /\ Len(s) = Len(inbox)
  <1>1. Len(inbox) \in Nat /\ DOMAIN inbox = 1 .. Len(inbox)
    BY LenProperties DEF Brain!TypeOK
  <1>2. s \in [1 .. Len(inbox) -> Brain!Proposal]
    BY <1>1
  <1>3. s \in Seq(Brain!Proposal)
    BY <1>1, <1>2, SeqDef
  <1>4. DOMAIN s = 1 .. Len(s) /\ Len(s) \in Nat
    BY <1>3, LenProperties
  <1> QED  BY <1>1, <1>3, <1>4

\* Proposals supersede pending ones only, and otherwise leave them alone.
LEMMA SupersededRows ==
    ASSUME Brain!TypeOK, NEW kind \in Brain!Kinds
    PROVE  /\ Brain!Superseded(kind) \in Seq(Brain!Proposal)
           /\ Len(Brain!Superseded(kind)) = Len(inbox)
           /\ \A p \in DOMAIN inbox :
                /\ Brain!Superseded(kind)[p].kind = inbox[p].kind
                /\ Brain!Superseded(kind)[p].base = inbox[p].base
                /\ Brain!Superseded(kind)[p].ran = inbox[p].ran
                /\ Brain!Superseded(kind)[p].status \in {inbox[p].status, "deleted"}
  <1> DEFINE s == Brain!Superseded(kind)
  <1>1. \A p \in DOMAIN inbox : inbox[p] \in Brain!Proposal
    BY ElementOfSeq, LenProperties DEF Brain!TypeOK
  <1>2. \A p \in DOMAIN inbox :
            s[p] = inbox[p] \/ s[p] = [inbox[p] EXCEPT !.status = "deleted"]
    BY DEF Brain!Superseded
  <1>3. \A p \in DOMAIN inbox : s[p] \in Brain!Proposal
    <2> HIDE DEF s
    <2> SUFFICES ASSUME NEW p \in DOMAIN inbox PROVE s[p] \in Brain!Proposal
      OBVIOUS
    <2>1. inbox[p] \in Brain!Proposal
      BY <1>1
    <2>2. [inbox[p] EXCEPT !.status = "deleted"] \in Brain!Proposal
      BY <2>1 DEF Brain!Proposal
    <2> QED  BY <1>2, <2>1, <2>2
  <1>4. DOMAIN s = DOMAIN inbox /\ s = [p \in DOMAIN inbox |-> s[p]]
    BY DEF Brain!Superseded
  <1>5. s \in Seq(Brain!Proposal) /\ Len(s) = Len(inbox)
    <2> HIDE DEF s
    <2> QED  BY <1>3, <1>4, RowsType
  <1>6. \A p \in DOMAIN inbox :
                /\ s[p].kind = inbox[p].kind
                /\ s[p].base = inbox[p].base
                /\ s[p].ran = inbox[p].ran
                /\ s[p].status \in {inbox[p].status, "deleted"}
    <2> HIDE DEF s
    <2> SUFFICES ASSUME NEW p \in DOMAIN inbox
                 PROVE  /\ s[p].kind = inbox[p].kind
                        /\ s[p].base = inbox[p].base
                        /\ s[p].ran = inbox[p].ran
                        /\ s[p].status \in {inbox[p].status, "deleted"}
      OBVIOUS
    <2>1. inbox[p] \in Brain!Proposal
      BY <1>1
    <2>2. CASE s[p] = inbox[p]
      BY <2>2
    <2>3. CASE s[p] = [inbox[p] EXCEPT !.status = "deleted"]
      BY <2>1, <2>3 DEF Brain!Proposal
    <2> QED  BY <1>2, <2>2, <2>3
  <1> QED  BY <1>5, <1>6

\* What the steps of the inbox preserve.
GoodInbox(s) ==
    /\ s \in Seq(Brain!Proposal)
    /\ \A p \in DOMAIN s : s[p].kind = "overlay" => s[p].ran = {s[p].base}
    /\ \A p \in DOMAIN s : s[p].status = "accepted" =>
         p \in DOMAIN inbox /\ inbox[p].status = "accepted"

\* add_proposal keeps the inbox well typed, keeps the evidence of experiments
\* with their proposals and accepts nothing.
LEMMA AddedRows ==
    ASSUME Brain!TypeOK, Brain!InboxEvidence,
           NEW kind \in Brain!Kinds, NEW edit \in Edits, NEW base \in Nat,
           NEW ran \in SUBSET Nat, kind = "overlay" => ran = {base}
    PROVE  GoodInbox(Brain!Added(kind, edit, base, ran))
  <1> DEFINE row == [kind |-> kind, edit |-> edit, base |-> base, ran |-> ran,
                     status |-> "pending"]
             same == {p \in DOMAIN inbox : Brain!SameKey(p, kind, edit)}
             s == Brain!Added(kind, edit, base, ran)
             old == Brain!Superseded(kind)
  <1>1. row \in Brain!Proposal /\ row.kind = kind /\ row.ran = ran /\ row.base = base
        /\ row.status = "pending"
    BY DEF Brain!Proposal
  <1>2. \A p \in DOMAIN inbox : inbox[p] \in Brain!Proposal
    BY ElementOfSeq, LenProperties DEF Brain!TypeOK
  <1>3. CASE same = {}
    <2>1. s = Append(old, row)
      BY <1>3 DEF Brain!Added
    <2>2. old \in Seq(Brain!Proposal) /\ Len(old) = Len(inbox)
      BY SupersededRows
    <2>3. DOMAIN inbox = 1 .. Len(inbox) /\ Len(inbox) \in Nat
      BY LenProperties DEF Brain!TypeOK
    <2>4. /\ s \in Seq(Brain!Proposal) /\ DOMAIN s = 1 .. Len(inbox) + 1
          /\ s[Len(inbox) + 1] = row
          /\ \A p \in 1 .. Len(inbox) : s[p] = old[p]
      <3> HIDE DEF s, old, row
      <3> QED  BY <2>1, <2>2, <2>3, <1>1, AppendProperties
    <2>5. \A p \in DOMAIN s : s[p] = row \/ (p \in DOMAIN inbox /\ s[p] = old[p])
      <3> HIDE DEF s, old, row
      <3> QED  BY <2>3, <2>4
    <2>6. \A p \in DOMAIN inbox :
            /\ old[p].kind = inbox[p].kind /\ old[p].base = inbox[p].base
            /\ old[p].ran = inbox[p].ran /\ old[p].status \in {inbox[p].status, "deleted"}
      BY SupersededRows
    <2>7. \A p \in DOMAIN s : s[p].kind = "overlay" => s[p].ran = {s[p].base}
      <3> HIDE DEF s, old, row
      <3> QED  BY <2>5, <2>6, <1>1 DEF Brain!InboxEvidence
    <2>8. \A p \in DOMAIN s : s[p].status = "accepted" =>
              p \in DOMAIN inbox /\ inbox[p].status = "accepted"
      <3> HIDE DEF s, old, row
      <3> QED  BY <2>5, <2>6, <1>1
    <2> QED  BY <2>4, <2>7, <2>8 DEF GoodInbox
  <1>4. CASE same # {}
    <2>1. s = [p \in DOMAIN inbox |-> IF p \in same \cap Brain!Pending THEN row ELSE inbox[p]]
      BY <1>4 DEF Brain!Added
    <2>2. /\ DOMAIN s = DOMAIN inbox /\ s = [p \in DOMAIN inbox |-> s[p]]
          /\ \A p \in DOMAIN inbox : s[p] = row \/ s[p] = inbox[p]
      <3> HIDE DEF s, row, same
      <3> QED  BY <2>1
    <2>3. \A p \in DOMAIN inbox : s[p] \in Brain!Proposal
      <3> HIDE DEF s, row
      <3> QED  BY <2>2, <1>1, <1>2
    <2>4. s \in Seq(Brain!Proposal)
      <3> HIDE DEF s
      <3> QED  BY <2>2, <2>3, RowsType
    <2>5. /\ \A p \in DOMAIN s : s[p].kind = "overlay" => s[p].ran = {s[p].base}
          /\ \A p \in DOMAIN s : s[p].status = "accepted" =>
               p \in DOMAIN inbox /\ inbox[p].status = "accepted"
      <3> HIDE DEF s, row
      <3> QED  BY <2>2, <1>1 DEF Brain!InboxEvidence
    <2> QED  BY <2>4, <2>5 DEF GoodInbox
  <1> QED  BY <1>3, <1>4

\* Marking a proposal changes its status only.
LEMMA MarkedRows ==
    ASSUME Brain!TypeOK, Brain!InboxEvidence, NEW p \in DOMAIN inbox,
           NEW status \in {"accepted", "rejected"}
    PROVE  /\ Brain!Marked(p, status) \in Seq(Brain!Proposal)
           /\ DOMAIN Brain!Marked(p, status) = DOMAIN inbox
           /\ \A q \in DOMAIN inbox :
                /\ Brain!Marked(p, status)[q].kind = inbox[q].kind
                /\ Brain!Marked(p, status)[q].base = inbox[q].base
                /\ Brain!Marked(p, status)[q].ran = inbox[q].ran
                /\ Brain!Marked(p, status)[q].status = IF q = p THEN status ELSE inbox[q].status
  <1>1. \A q \in DOMAIN inbox : inbox[q] \in Brain!Proposal
    BY ElementOfSeq, LenProperties DEF Brain!TypeOK
  <1>2. [inbox[p] EXCEPT !.status = status] \in Brain!Proposal
    BY <1>1 DEF Brain!Proposal
  <1>3. DOMAIN inbox = 1 .. Len(inbox)
    BY LenProperties DEF Brain!TypeOK
  <1>4. Brain!Marked(p, status) = [inbox EXCEPT ![p] = [inbox[p] EXCEPT !.status = status]]
    BY DEF Brain!Marked
  <1>5. Brain!Marked(p, status) \in Seq(Brain!Proposal) /\ Len(Brain!Marked(p, status)) = Len(inbox)
    BY <1>2, <1>3, <1>4, ExceptSeq DEF Brain!TypeOK
  <1>6. DOMAIN Brain!Marked(p, status) = DOMAIN inbox
    BY <1>4
  <1>7. \A q \in DOMAIN inbox :
          Brain!Marked(p, status)[q] = IF q = p THEN [inbox[p] EXCEPT !.status = status] ELSE inbox[q]
    BY <1>4
  <1>8. \A q \in DOMAIN inbox :
          /\ Brain!Marked(p, status)[q].kind = inbox[q].kind
          /\ Brain!Marked(p, status)[q].base = inbox[q].base
          /\ Brain!Marked(p, status)[q].ran = inbox[q].ran
          /\ Brain!Marked(p, status)[q].status = IF q = p THEN status ELSE inbox[q].status
    BY <1>1, <1>7 DEF Brain!Proposal
  <1> QED  BY <1>5, <1>6, <1>8

-----------------------------------------------------------------------------
(* The evidence of experiments. *)

\* One experiment moves on and keeps its evidence together.
LEMMA ExperimentMoves ==
    ASSUME Brain!IInv, NEW e \in 1 .. MaxExps, NEW x \in Brain!Experiment,
           exps' = [exps EXCEPT ![e] = x],
           UNCHANGED <<Brain!store, loaded, artifact, inbox, run, Brain!bounds>>,
           x.pc # "idle" => /\ x.print \in Brain!Artifact /\ x.print[1] = x.base
                            /\ x.seen = {x.print},
           x.status = "done" => {a[1] : a \in x.seen} = {x.base}
    PROVE  Brain!IInv'
  <1>1. /\ exps' \in [1 .. MaxExps -> Brain!Experiment] /\ exps'[e] = x
        /\ \A d \in 1 .. MaxExps : d # e => exps'[d] = exps[d]
    BY DEF Brain!IInv, Brain!TypeOK
  <1>2. Brain!TypeOK'
    BY <1>1 DEF Brain!IInv, Brain!TypeOK, Brain!store, Brain!bounds
  <1>3. Brain!RunningEvidence'
    BY <1>1 DEF Brain!IInv, Brain!RunningEvidence, Brain!Running
  <1>4. Brain!DoneEvidence'
    BY <1>1 DEF Brain!IInv, Brain!DoneEvidence
  <1>5. Brain!InboxEvidence' /\ Brain!ExperimentEvidence'
    BY DEF Brain!IInv, Brain!InboxEvidence, Brain!ExperimentEvidence, Brain!store
  <1> QED  BY <1>2, <1>3, <1>4, <1>5 DEF Brain!IInv

\* A job that is over without evidence.
LEMMA NoEvidence ==
    ASSUME NEW status \in {"none", "running", "cancelled", "error"}
    PROVE  Brain!Over(status) \in Brain!Experiment /\ Brain!Over(status).pc = "idle" /\ Brain!Over(status).status # "done"
  <1>1. <<0, 0>> \in Brain!Artifact
    BY DEF Brain!Artifact
  <1> QED  BY <1>1 DEF Brain!Over, Brain!Experiment

LEMMA LaunchStep ==
    ASSUME Brain!IInv, NEW e \in 1 .. MaxExps, Brain!Launch(e)
    PROVE  Brain!IInv'
  <1>1. Brain!Artifacts \in Brain!Artifact /\ Brain!Artifacts[1] = loaded /\ loaded \in Nat
    BY DEF Brain!IInv, Brain!TypeOK, Brain!Artifacts, Brain!Artifact
  <1>2. /\ Brain!Begun \in Brain!Experiment /\ Brain!Begun.status = "running" /\ Brain!Begun.print = Brain!Artifacts
        /\ Brain!Begun.base = loaded /\ Brain!Begun.seen = {Brain!Artifacts}
    BY <1>1 DEF Brain!Begun, Brain!Experiment
  <1> QED  BY <1>1, <1>2, ExperimentMoves DEF Brain!Launch

LEMMA FailsStep ==
    ASSUME Brain!IInv, NEW e \in 1 .. MaxExps, Brain!Fails(e) \/ Brain!Cancelled(e)
    PROVE  Brain!IInv'
  <1>1. CASE Brain!Fails(e)
    BY <1>1, NoEvidence, ExperimentMoves DEF Brain!Fails
  <1>2. CASE Brain!Cancelled(e)
    BY <1>2, NoEvidence, ExperimentMoves DEF Brain!Cancelled
  <1> QED  BY <1>1, <1>2

\* While its artifacts match, looking at them adds nothing.
LEMMA MatchedSees ==
    ASSUME Brain!IInv, NEW e \in 1 .. MaxExps, Brain!Running(e), Brain!Matched(e)
    PROVE  /\ exps[e] \in Brain!Experiment
           /\ exps[e].print \in Brain!Artifact /\ exps[e].print[1] = exps[e].base
           /\ Brain!Seen(e) = {exps[e].print} /\ Brain!Seen(e) \in SUBSET Brain!Artifact
           /\ {a[1] : a \in Brain!Seen(e)} = {exps[e].base}
  <1>1. /\ exps[e].print \in Brain!Artifact /\ exps[e].print[1] = exps[e].base
        /\ exps[e].seen = {exps[e].print}
    BY DEF Brain!IInv, Brain!RunningEvidence
  <1>2. Brain!Seen(e) = {exps[e].print}
    BY <1>1 DEF Brain!Seen, Brain!Matched
  <1>3. {a[1] : a \in {exps[e].print}} = {exps[e].print[1]}
    OBVIOUS
  <1> QED  BY <1>1, <1>2, <1>3 DEF Brain!IInv, Brain!TypeOK

\* An experiment goes on to another probe or to the editor.
LEMMA ArmGoesOn ==
    ASSUME Brain!IInv, NEW e \in 1 .. MaxExps, Brain!Running(e), Brain!Matched(e),
           NEW pc \in {"case", "editor"}, NEW arm \in 0 .. 3,
           NEW edit \in Edits \cup {Brain!Nothing},
           exps' = [exps EXCEPT ![e] = [exps[e] EXCEPT !.pc = pc, !.arm = arm,
                                                       !.edit = edit, !.seen = Brain!Seen(e)]],
           UNCHANGED <<Brain!store, loaded, artifact, inbox, run, Brain!bounds>>
    PROVE  Brain!IInv'
  <1> DEFINE x == [exps[e] EXCEPT !.pc = pc, !.arm = arm, !.edit = edit, !.seen = Brain!Seen(e)]
  <1>1. /\ exps[e] \in Brain!Experiment
        /\ exps[e].print \in Brain!Artifact /\ exps[e].print[1] = exps[e].base
        /\ Brain!Seen(e) = {exps[e].print} /\ Brain!Seen(e) \in SUBSET Brain!Artifact
        /\ {a[1] : a \in Brain!Seen(e)} = {exps[e].base}
    BY MatchedSees
  <1>2. /\ x \in Brain!Experiment /\ x.seen = Brain!Seen(e)
        /\ x.base = exps[e].base /\ x.print = exps[e].print
    BY <1>1 DEF Brain!Experiment
  <1>3. exps' = [exps EXCEPT ![e] = x]
    OBVIOUS
  <1> HIDE DEF x
  <1> QED  BY <1>1, <1>2, <1>3, ExperimentMoves

\* An experiment is complete.
LEMMA Completes ==
    ASSUME Brain!IInv, NEW e \in 1 .. MaxExps, Brain!Running(e), Brain!Matched(e),
           exps' = [exps EXCEPT ![e] = Brain!Complete(e)],
           UNCHANGED <<Brain!store, loaded, artifact, inbox, run, Brain!bounds>>
    PROVE  Brain!IInv'
  <1>1. /\ exps[e] \in Brain!Experiment
        /\ Brain!Seen(e) \in SUBSET Brain!Artifact /\ {a[1] : a \in Brain!Seen(e)} = {exps[e].base}
    BY MatchedSees
  <1>2. <<0, 0>> \in Brain!Artifact
    BY DEF Brain!Artifact
  <1>3. exps[e].base \in Nat /\ exps[e].edit \in Edits \cup {Brain!Nothing}
    BY <1>1 DEF Brain!Experiment
  <1>4. Brain!Complete(e) \in Brain!Experiment
    <2> DEFINE seen == Brain!Seen(e)
    <2>1. seen \in SUBSET Brain!Artifact
      BY <1>1
    <2> HIDE DEF seen
    <2> QED  BY <1>2, <1>3, <2>1 DEF Brain!Complete, Brain!Experiment, seen
  <1>5. /\ Brain!Complete(e).pc = "idle" /\ Brain!Complete(e).seen = Brain!Seen(e)
        /\ Brain!Complete(e).base = exps[e].base
    BY DEF Brain!Complete
  <1>6. Brain!Complete(e).status = "done" => {a[1] : a \in Brain!Complete(e).seen} = {Brain!Complete(e).base}
    BY <1>1, <1>5
  <1> HIDE DEF Brain!Seen
  <1> QED  BY <1>4, <1>5, <1>6, ExperimentMoves

LEMMA ArmEndsStep ==
    ASSUME Brain!IInv, NEW e \in 1 .. MaxExps, Brain!ArmEnds(e)
    PROVE  Brain!IInv'
  <1>1. UNCHANGED <<Brain!store, loaded, artifact, inbox, run, Brain!bounds>>
    BY DEF Brain!ArmEnds
  <1>2. Brain!Running(e) /\ Brain!Matched(e)
    BY DEF Brain!ArmEnds, Brain!Running
  <1>3. /\ exps[e] \in Brain!Experiment
        /\ Brain!Seen(e) \in SUBSET Brain!Artifact /\ {a[1] : a \in Brain!Seen(e)} = {exps[e].base}
    BY <1>2, MatchedSees
  <1>4. CASE exps[e].arm = 3
    <2>1. exps' = [exps EXCEPT ![e] = Brain!Complete(e)]
      BY <1>4 DEF Brain!ArmEnds
    <2> QED  BY <1>1, <1>2, <2>1, Completes
  <1>5. CASE exps[e].arm = 1
    <2>1. exps' = [exps EXCEPT ![e] = [exps[e] EXCEPT !.arm = 2, !.seen = Brain!Seen(e)]]
      BY <1>5 DEF Brain!ArmEnds
    <2>2. exps' = [exps EXCEPT ![e] = [exps[e] EXCEPT !.pc = "case", !.arm = 2,
                                          !.edit = exps[e].edit, !.seen = Brain!Seen(e)]]
      <3> DEFINE seen == Brain!Seen(e)
      <3>1. exps[e].pc = "case"
        BY DEF Brain!ArmEnds
      <3>2. exps[e] \in Brain!Experiment
        BY <1>3
      <3> HIDE DEF seen
      <3>3. [exps[e] EXCEPT !.arm = 2, !.seen = seen] =
            [exps[e] EXCEPT !.pc = "case", !.arm = 2, !.edit = exps[e].edit, !.seen = seen]
        BY <3>1, <3>2 DEF Brain!Experiment
      <3> QED  BY <2>1, <3>3 DEF seen
    <2>3. exps[e].edit \in Edits \cup {Brain!Nothing} /\ 2 \in 0 .. 3
      BY <1>3 DEF Brain!Experiment
    <2> QED  BY <1>1, <1>2, <2>2, <2>3, ArmGoesOn
  <1>6. CASE exps[e].arm \in {0, 2}
    <2>1. exps' = [exps EXCEPT ![e] = [exps[e] EXCEPT !.pc = "editor", !.seen = Brain!Seen(e)]]
      BY <1>6 DEF Brain!ArmEnds
    <2>2. exps' = [exps EXCEPT ![e] = [exps[e] EXCEPT !.pc = "editor", !.arm = exps[e].arm,
                                          !.edit = exps[e].edit, !.seen = Brain!Seen(e)]]
      BY <2>1, <1>3 DEF Brain!Experiment
    <2>3. exps[e].edit \in Edits \cup {Brain!Nothing} /\ exps[e].arm \in 0 .. 3
      BY <1>3 DEF Brain!Experiment
    <2> QED  BY <1>1, <1>2, <2>2, <2>3, ArmGoesOn
  <1> QED  BY <1>4, <1>5, <1>6 DEF Brain!ArmEnds

LEMMA EditorEndsStep ==
    ASSUME Brain!IInv, NEW e \in 1 .. MaxExps, Brain!EditorEnds(e)
    PROVE  Brain!IInv'
  <1>1. Brain!Running(e) /\ Brain!Matched(e)
    BY DEF Brain!EditorEnds, Brain!Running
  <1>2. PICK edit \in Edits \cup {Brain!Nothing} :
          exps' = [exps EXCEPT ![e] = [exps[e] EXCEPT !.pc = "case", !.arm = exps[e].arm + 1,
                                         !.edit = edit, !.seen = Brain!Seen(e)]]
    BY DEF Brain!EditorEnds
  <1>3. exps[e].arm + 1 \in 0 .. 3
    BY DEF Brain!EditorEnds
  <1> QED  BY <1>1, <1>2, <1>3, ArmGoesOn DEF Brain!EditorEnds

-----------------------------------------------------------------------------
(* The inbox and the runs. *)

\* A step of the inbox keeps the invariant.
LEMMA InboxMoves ==
    ASSUME Brain!IInv, GoodInbox(inbox'), UNCHANGED <<Brain!store, loaded, artifact, Brain!bounds>>,
           exps' \in [1 .. MaxExps -> Brain!Experiment],
           \A d \in 1 .. MaxExps : /\ exps'[d].pc = exps[d].pc
                                  /\ exps'[d].print = exps[d].print
                                  /\ exps'[d].base = exps[d].base
                                  /\ exps'[d].seen = exps[d].seen
                                  /\ exps'[d].status = exps[d].status,
           run' \in [pc : {"idle", "turns"}, base : Nat]
    PROVE  Brain!IInv'
  <1>1. Brain!TypeOK'
    BY DEF Brain!IInv, Brain!TypeOK, GoodInbox, Brain!store, Brain!bounds
  <1>2. Brain!RunningEvidence'
    BY DEF Brain!IInv, Brain!RunningEvidence, Brain!Running
  <1>3. Brain!DoneEvidence'
    BY DEF Brain!IInv, Brain!DoneEvidence
  <1>4. Brain!InboxEvidence' /\ Brain!ExperimentEvidence'
    BY DEF Brain!IInv, Brain!InboxEvidence, GoodInbox, Brain!ExperimentEvidence, Brain!store
  <1> QED  BY <1>1, <1>2, <1>3, <1>4 DEF Brain!IInv

\* create_proposals files a good row.
LEMMA FileInbox ==
    ASSUME Brain!IInv, NEW e \in 1 .. MaxExps, Brain!File(e)
    PROVE  GoodInbox(inbox')
  <1> DEFINE ran == {a[1] : a \in exps[e].seen}
  <1>1. exps[e] \in Brain!Experiment
    BY DEF Brain!IInv, Brain!TypeOK
  <1>2. ran = {exps[e].base} /\ exps[e].base \in Nat
    BY <1>1 DEF Brain!File, Brain!IInv, Brain!DoneEvidence, Brain!Experiment
  <1>3. exps[e].edit \in Edits
    BY <1>1 DEF Brain!File, Brain!Experiment
  <1>4. inbox' = Brain!Added("overlay", exps[e].edit, exps[e].base, ran)
    BY DEF Brain!File
  <1> HIDE DEF ran
  <1>5. "overlay" \in Brain!Kinds
    BY DEF Brain!Kinds
  <1>6. ran \in SUBSET Nat
    BY <1>2
  <1> QED  BY <1>2, <1>3, <1>4, <1>5, <1>6, AddedRows DEF Brain!IInv

LEMMA FileStep ==
    ASSUME Brain!IInv, NEW e \in 1 .. MaxExps, Brain!File(e)
    PROVE  Brain!IInv'
  <1>1. exps[e] \in Brain!Experiment
    BY DEF Brain!IInv, Brain!TypeOK
  <1>2. PICK filed \in BOOLEAN : exps' = [exps EXCEPT ![e].filed = filed]
    BY DEF Brain!File
  <1>3. [exps[e] EXCEPT !.filed = filed] \in Brain!Experiment
    BY <1>1 DEF Brain!Experiment
  <1>4. /\ exps' \in [1 .. MaxExps -> Brain!Experiment]
        /\ \A d \in 1 .. MaxExps : /\ exps'[d].pc = exps[d].pc
                                  /\ exps'[d].print = exps[d].print
                                  /\ exps'[d].base = exps[d].base
                                  /\ exps'[d].seen = exps[d].seen
                                  /\ exps'[d].status = exps[d].status
    BY <1>2, <1>3 DEF Brain!IInv, Brain!TypeOK, Brain!Experiment
  <1>5. UNCHANGED <<Brain!store, loaded, artifact, Brain!bounds>> /\ run' \in [pc : {"idle", "turns"}, base : Nat]
    BY DEF Brain!File, Brain!IInv, Brain!TypeOK
  <1> QED  BY <1>4, <1>5, FileInbox, InboxMoves

LEMMA RunStartsStep ==
    ASSUME Brain!IInv, Brain!RunStarts
    PROVE  Brain!IInv'
  <1>1. Brain!TypeOK'
    BY DEF Brain!IInv, Brain!TypeOK, Brain!RunStarts, Brain!store
  <1> QED  BY <1>1 DEF Brain!IInv, Brain!RunStarts, Brain!RunningEvidence, Brain!Running, Brain!DoneEvidence, Brain!InboxEvidence,
                       Brain!ExperimentEvidence, Brain!store

\* A failed case files a good row, or nothing.
LEMMA RunEndsInbox ==
    ASSUME Brain!IInv, Brain!RunEnds
    PROVE  GoodInbox(inbox')
  <1>1. GoodInbox(inbox)
    BY DEF Brain!IInv, Brain!TypeOK, Brain!InboxEvidence, GoodInbox
  <1>2. CASE UNCHANGED inbox
    BY <1>1, <1>2 DEF GoodInbox
  <1>3. CASE \E edit \in Edits : inbox' = Brain!Added("tweak", edit, loaded, {run.base})
    <2>1. PICK edit \in Edits : inbox' = Brain!Added("tweak", edit, loaded, {run.base})
      BY <1>3
    <2>2. /\ "tweak" \in Brain!Kinds /\ "tweak" # "overlay"
          /\ loaded \in Nat /\ {run.base} \in SUBSET Nat
      BY DEF Brain!Kinds, Brain!IInv, Brain!TypeOK
    <2> QED  BY <2>1, <2>2, AddedRows DEF Brain!IInv
  <1> QED  BY <1>2, <1>3 DEF Brain!RunEnds

LEMMA RunEndsStep ==
    ASSUME Brain!IInv, Brain!RunEnds
    PROVE  Brain!IInv'
  <1>1. run' \in [pc : {"idle", "turns"}, base : Nat]
    BY DEF Brain!RunEnds, Brain!NoRun
  <1> QED  BY <1>1, RunEndsInbox, InboxMoves DEF Brain!RunEnds, Brain!IInv, Brain!TypeOK

-----------------------------------------------------------------------------
(* The administrator. *)

\* A version appended by apply extends its base, which is the one before it.
LEMMA AppliedVersions ==
    ASSUME Brain!IInv, NEW p \in DOMAIN inbox, Brain!Appliable(p)
    PROVE  /\ Brain!Applied(p) \in Seq(Brain!Version)
           /\ Brain!Activated(p) = Len(Brain!Applied(p))
           /\ \A v \in DOMAIN Brain!Applied(p) :
                Brain!Applied(p)[v].kind = "overlay" => Brain!Applied(p)[v].ran = {v - 1}
           /\ \E v \in DOMAIN Brain!Applied(p) : Brain!Applied(p)[v].prop = p
           /\ \A v \in DOMAIN versions :
                v \in DOMAIN Brain!Applied(p) /\ Brain!Applied(p)[v].prop = versions[v].prop
  <1>1. versions \in Seq(Brain!Version) /\ active = Len(versions) /\ Len(versions) \in Nat
        /\ DOMAIN versions = 1 .. Len(versions)
    BY LenProperties DEF Brain!IInv, Brain!TypeOK
  <1>2. inbox[p] \in Brain!Proposal
    BY ElementOfSeq, LenProperties DEF Brain!IInv, Brain!TypeOK
  <1>3. CASE Brain!Stored(p)
    BY <1>1, <1>3 DEF Brain!Applied, Brain!Activated, Brain!IInv, Brain!ExperimentEvidence, Brain!Stored
  <1>4. CASE ~Brain!Stored(p)
    <2> DEFINE new == [lines |-> Append(Brain!Lines(active), [kind |-> inbox[p].kind,
                                                         edit |-> inbox[p].edit]),
                       base |-> inbox[p].base, prop |-> p, kind |-> inbox[p].kind,
                       ran |-> inbox[p].ran]
    <2>1. Brain!Applied(p) = Append(versions, new) /\ Brain!Activated(p) = Len(versions) + 1
      BY <1>4 DEF Brain!Applied, Brain!Activated
    <2>2. inbox[p].base = active
      BY <1>4 DEF Brain!Appliable, Brain!Fresh
    <2>3. Brain!Lines(active) \in Seq(Brain!Line)
      <3>1. CASE active = 0
        BY <3>1, EmptySeq DEF Brain!Lines
      <3>2. CASE active # 0
        <4>1. versions[active] \in Brain!Version
          BY <1>1, <3>2, ElementOfSeq
        <4> QED  BY <3>2, <4>1 DEF Brain!Lines, Brain!Version
      <3> QED  BY <3>1, <3>2
    <2>4. [kind |-> inbox[p].kind, edit |-> inbox[p].edit] \in Brain!Line
      BY <1>2 DEF Brain!Proposal, Brain!Line
    <2>5. p \in Nat
      BY LenProperties DEF Brain!IInv, Brain!TypeOK
    <2>6. Append(Brain!Lines(active), [kind |-> inbox[p].kind, edit |-> inbox[p].edit]) \in Seq(Brain!Line)
      BY <2>3, <2>4, AppendProperties
    <2>7. new \in Brain!Version /\ new.prop = p /\ new.kind = inbox[p].kind
          /\ new.ran = inbox[p].ran
      BY <1>2, <2>5, <2>6 DEF Brain!Version, Brain!Proposal
    <2> HIDE DEF new
    <2>8. /\ Brain!Applied(p) \in Seq(Brain!Version) /\ Len(Brain!Applied(p)) = Len(versions) + 1
          /\ DOMAIN Brain!Applied(p) = 1 .. Len(versions) + 1
          /\ Brain!Applied(p)[Len(versions) + 1] = new
          /\ \A v \in 1 .. Len(versions) : Brain!Applied(p)[v] = versions[v]
      BY <1>1, <2>1, <2>7, AppendProperties
    <2>9. new.kind = "overlay" => new.ran = {active}
      BY <2>2, <2>7 DEF Brain!IInv, Brain!InboxEvidence
    <2>10. \A v \in DOMAIN Brain!Applied(p) :
                Brain!Applied(p)[v].kind = "overlay" => Brain!Applied(p)[v].ran = {v - 1}
      <3>1. (Len(versions) + 1) - 1 = active
        BY <1>1
      <3> QED  BY <1>1, <2>8, <2>9, <3>1 DEF Brain!IInv, Brain!ExperimentEvidence
    <2> QED  BY <1>1, <2>1, <2>7, <2>8, <2>10
  <1> QED  BY <1>3, <1>4

\* A restart forgets the jobs and their evidence.
LEMMA RestartedJobs ==
    ASSUME Brain!IInv, Brain!Restarted
    PROVE  /\ exps' \in [1 .. MaxExps -> Brain!Experiment]
           /\ run' \in [pc : {"idle", "turns"}, base : Nat]
           /\ Brain!RunningEvidence' /\ Brain!DoneEvidence'
  <1>1. exps \in [1 .. MaxExps -> Brain!Experiment] /\ DOMAIN exps = 1 .. MaxExps
    BY DEF Brain!IInv, Brain!TypeOK
  <1>2. \A e \in 1 .. MaxExps :
          exps'[e] = Brain!Over("running") \/ (exps'[e] = exps[e] /\ ~Brain!Running(e))
    BY <1>1 DEF Brain!Restarted
  <1>3. DOMAIN exps' = 1 .. MaxExps /\ exps' = [e \in 1 .. MaxExps |-> exps'[e]]
    BY <1>1 DEF Brain!Restarted
  <1>4. Brain!Over("running") \in Brain!Experiment /\ Brain!Over("running").pc = "idle"
        /\ Brain!Over("running").status # "done"
    BY NoEvidence
  <1>5. exps' \in [1 .. MaxExps -> Brain!Experiment]
    BY <1>1, <1>2, <1>3, <1>4
  <1>6. Brain!RunningEvidence'
    BY <1>2, <1>4 DEF Brain!RunningEvidence, Brain!Running
  <1>7. Brain!DoneEvidence'
    BY <1>2, <1>4 DEF Brain!IInv, Brain!DoneEvidence
  <1>8. run' \in [pc : {"idle", "turns"}, base : Nat]
    BY DEF Brain!Restarted, Brain!NoRun
  <1> QED  BY <1>5, <1>6, <1>7, <1>8

\* Marking keeps the evidence with the proposals.
LEMMA MarkedEvidence ==
    ASSUME Brain!TypeOK, Brain!InboxEvidence, NEW p \in DOMAIN inbox,
           NEW status \in {"accepted", "rejected"}, inbox' = Brain!Marked(p, status)
    PROVE  inbox' \in Seq(Brain!Proposal) /\ Brain!InboxEvidence'
  <1> DEFINE s == Brain!Marked(p, status)
  <1>1. /\ s \in Seq(Brain!Proposal) /\ DOMAIN s = DOMAIN inbox
        /\ \A q \in DOMAIN inbox : /\ s[q].kind = inbox[q].kind
                                  /\ s[q].base = inbox[q].base
                                  /\ s[q].ran = inbox[q].ran
    BY MarkedRows
  <1>2. inbox' = s
    OBVIOUS
  <1> HIDE DEF s
  <1> QED  BY <1>1, <1>2 DEF Brain!InboxEvidence

LEMMA AcceptSteps ==
    ASSUME Brain!IInv, NEW p \in DOMAIN inbox,
           Brain!Accept(p) \/ Brain!AcceptUnloaded(p) \/ Brain!AcceptCrashes(p)
    PROVE  Brain!IInv'
  <1>1. Brain!Appliable(p) /\ versions' = Brain!Applied(p) /\ active' = Brain!Activated(p)
    BY DEF Brain!Accept, Brain!AcceptUnloaded, Brain!AcceptCrashes, Brain!Between
  <1>2. versions' \in Seq(Brain!Version) /\ active' = Len(versions') /\ Brain!ExperimentEvidence'
    BY <1>1, AppliedVersions DEF Brain!ExperimentEvidence
  <1>3. active' \in Nat
    BY <1>2, LenProperties
  <1>4. Brain!TypeOK /\ Brain!InboxEvidence
    BY DEF Brain!IInv
  <1>5. CASE Brain!Accept(p)
    <2>1. inbox' = Brain!Marked(p, "accepted")
      BY <1>5 DEF Brain!Accept
    <2>2. inbox' \in Seq(Brain!Proposal) /\ Brain!InboxEvidence'
      BY <1>4, <2>1, MarkedEvidence
    <2>3. Brain!TypeOK'
      BY <1>2, <1>3, <1>5, <2>2 DEF Brain!Accept, Brain!IInv, Brain!TypeOK, Brain!bounds
    <2>4. Brain!RunningEvidence' /\ Brain!DoneEvidence'
      BY <1>5 DEF Brain!Accept, Brain!IInv, Brain!RunningEvidence, Brain!Running, Brain!DoneEvidence
    <2> QED  BY <1>2, <2>2, <2>3, <2>4 DEF Brain!IInv
  <1>6. CASE Brain!AcceptUnloaded(p)
    <2>1. Brain!TypeOK'
      BY <1>2, <1>3, <1>6 DEF Brain!AcceptUnloaded, Brain!Mishap, Brain!IInv, Brain!TypeOK
    <2>2. Brain!RunningEvidence' /\ Brain!DoneEvidence' /\ Brain!InboxEvidence'
      BY <1>6 DEF Brain!AcceptUnloaded, Brain!IInv, Brain!RunningEvidence, Brain!Running, Brain!DoneEvidence, Brain!InboxEvidence
    <2> QED  BY <1>2, <2>1, <2>2 DEF Brain!IInv
  <1>7. CASE Brain!AcceptCrashes(p)
    <2>1. Brain!Restarted /\ loaded' = active'
      BY <1>7 DEF Brain!AcceptCrashes, Brain!Restarted
    <2>2. Brain!TypeOK'
      BY <1>2, <1>3, <1>7, <2>1, RestartedJobs
         DEF Brain!AcceptCrashes, Brain!Between, Brain!Mishap, Brain!IInv, Brain!TypeOK
    <2>3. Brain!InboxEvidence'
      BY <1>7 DEF Brain!AcceptCrashes, Brain!Between, Brain!IInv, Brain!InboxEvidence
    <2> QED  BY <1>2, <2>1, <2>2, <2>3, RestartedJobs DEF Brain!IInv
  <1> QED  BY <1>5, <1>6, <1>7

LEMMA RejectStep ==
    ASSUME Brain!IInv, NEW p \in DOMAIN inbox, Brain!Reject(p)
    PROVE  Brain!IInv'
  <1>1. inbox' = Brain!Marked(p, "rejected")
    BY DEF Brain!Reject
  <1>2. inbox' \in Seq(Brain!Proposal) /\ Brain!InboxEvidence'
    BY <1>1, MarkedEvidence DEF Brain!IInv
  <1>3. Brain!TypeOK'
    BY <1>2 DEF Brain!Reject, Brain!IInv, Brain!TypeOK, Brain!store, Brain!bounds
  <1> QED  BY <1>2, <1>3 DEF Brain!Reject, Brain!IInv, Brain!RunningEvidence, Brain!Running, Brain!DoneEvidence,
                             Brain!ExperimentEvidence, Brain!store

\* A rollback appends a version without evidence of its own.
LEMMA RolledBack ==
    ASSUME Brain!IInv, NEW v \in 0 .. Len(versions), Brain!Rollback(v)
    PROVE  /\ versions' \in Seq(Brain!Version) /\ Len(versions') = Len(versions) + 1
           /\ DOMAIN versions' = 1 .. Len(versions) + 1
           /\ versions'[Len(versions) + 1].kind = "copy"
           /\ DOMAIN versions = 1 .. Len(versions) /\ Len(versions) \in Nat
           /\ \A w \in DOMAIN versions : versions'[w] = versions[w]
  <1> DEFINE new == [lines |-> Brain!Lines(v), base |-> active, prop |-> 0,
                     kind |-> "copy", ran |-> {}]
  <1>1. versions \in Seq(Brain!Version) /\ active = Len(versions) /\ Len(versions) \in Nat
        /\ DOMAIN versions = 1 .. Len(versions)
    BY LenProperties DEF Brain!IInv, Brain!TypeOK
  <1>2. Brain!Lines(v) \in Seq(Brain!Line)
    <2>1. CASE v = 0
      BY <2>1, EmptySeq DEF Brain!Lines
    <2>2. CASE v # 0
      <3>1. versions[v] \in Brain!Version
        BY <1>1, <2>2, ElementOfSeq
      <3> QED  BY <2>2, <3>1 DEF Brain!Lines, Brain!Version
    <2> QED  BY <2>1, <2>2
  <1>3. new \in Brain!Version /\ new.kind = "copy"
    BY <1>1, <1>2 DEF Brain!Version
  <1>4. versions' = Append(versions, new)
    BY DEF Brain!Rollback
  <1> HIDE DEF new
  <1> QED  BY <1>1, <1>3, <1>4, AppendProperties

LEMMA RollbackStep ==
    ASSUME Brain!IInv, NEW v \in 0 .. Len(versions), Brain!Rollback(v)
    PROVE  Brain!IInv'
  <1>1. active' = Len(versions) + 1 /\ active = Len(versions) /\ Len(versions) \in Nat
    BY RolledBack DEF Brain!Rollback, Brain!IInv, Brain!TypeOK
  <1>2. Brain!ExperimentEvidence'
    BY RolledBack DEF Brain!IInv, Brain!ExperimentEvidence
  <1>3. active' \in Nat /\ loaded' \in Nat /\ setbacks' \in Nat
    BY <1>1 DEF Brain!Rollback, Brain!Mishap, Brain!IInv, Brain!TypeOK
  <1>4. Brain!TypeOK'
    BY <1>1, <1>3, RolledBack DEF Brain!Rollback, Brain!IInv, Brain!TypeOK
  <1> QED  BY <1>2, <1>4 DEF Brain!Rollback, Brain!IInv, Brain!RunningEvidence, Brain!Running, Brain!DoneEvidence,
                             Brain!InboxEvidence

LEMMA OtherSteps ==
    ASSUME Brain!IInv, Brain!Reload \/ Brain!Change \/ Brain!Crash \/ UNCHANGED Brain!vars
    PROVE  Brain!IInv'
  <1>1. CASE Brain!Reload \/ Brain!Change \/ UNCHANGED Brain!vars
    <2>1. Brain!TypeOK'
      BY <1>1, LenProperties, SMTT(30) DEF Brain!Reload, Brain!Change, Brain!vars, Brain!IInv, Brain!TypeOK, Brain!store, Brain!bounds
    <2> QED  BY <1>1, <2>1 DEF Brain!Reload, Brain!Change, Brain!vars, Brain!IInv, Brain!RunningEvidence, Brain!Running,
                               Brain!DoneEvidence, Brain!InboxEvidence, Brain!ExperimentEvidence, Brain!store
  <1>2. CASE Brain!Crash
    <2>1. loaded' = active' /\ active' = active /\ active \in Nat
      BY <1>2, LenProperties DEF Brain!Crash, Brain!Restarted, Brain!store, Brain!IInv, Brain!TypeOK
    <2>2. Brain!TypeOK'
      BY <1>2, <2>1, RestartedJobs DEF Brain!Crash, Brain!Mishap, Brain!store, Brain!IInv, Brain!TypeOK
    <2> QED  BY <1>2, <2>2, RestartedJobs DEF Brain!Crash, Brain!store, Brain!IInv, Brain!InboxEvidence,
                                              Brain!ExperimentEvidence
  <1> QED  BY <1>1, <1>2

-----------------------------------------------------------------------------
(* The theorems. *)

\* The invariant holds of the empty history.
LEMMA InitHolds == Brain!Init => Brain!IInv
  <1> SUFFICES ASSUME Brain!Init PROVE Brain!IInv
    OBVIOUS
  <1>1. Brain!Over("none") \in Brain!Experiment /\ Brain!Over("none").pc = "idle" /\ Brain!Over("none").status # "done"
    BY NoEvidence
  <1>2. \A e \in 1 .. MaxExps : exps[e] = Brain!Over("none")
    BY DEF Brain!Init
  <1>3. exps \in [1 .. MaxExps -> Brain!Experiment]
    BY <1>1 DEF Brain!Init
  <1>4. Brain!TypeOK
    BY <1>3 DEF Brain!Init, Brain!TypeOK, Brain!NoRun
  <1> QED  BY <1>1, <1>2, <1>4 DEF Brain!Init, Brain!IInv, Brain!RunningEvidence, Brain!Running, Brain!DoneEvidence,
                                   Brain!InboxEvidence, Brain!ExperimentEvidence

LEMMA StepHolds == Brain!IInv /\ [Brain!Next]_(Brain!vars) => Brain!IInv'
  <1> SUFFICES ASSUME Brain!IInv, [Brain!Next]_(Brain!vars) PROVE Brain!IInv'
    OBVIOUS
  <1>1. ASSUME NEW e \in 1 .. MaxExps,
               Brain!Launch(e) \/ Brain!ArmEnds(e) \/ Brain!EditorEnds(e) \/ Brain!Fails(e) \/ Brain!Cancelled(e) \/ Brain!File(e)
        PROVE  Brain!IInv'
    BY <1>1, LaunchStep, ArmEndsStep, EditorEndsStep, FailsStep, FileStep
  <1>2. CASE Brain!RunStarts \/ Brain!RunEnds
    BY <1>2, RunStartsStep, RunEndsStep
  <1>3. ASSUME NEW p \in DOMAIN inbox,
               Brain!Accept(p) \/ Brain!AcceptUnloaded(p) \/ Brain!AcceptCrashes(p) \/ Brain!Reject(p)
        PROVE  Brain!IInv'
    BY <1>3, AcceptSteps, RejectStep
  <1>4. ASSUME NEW v \in 0 .. Len(versions), Brain!Rollback(v)
        PROVE  Brain!IInv'
    BY <1>4, RollbackStep
  <1>5. CASE Brain!Reload \/ Brain!Change \/ Brain!Crash \/ UNCHANGED Brain!vars
    BY <1>5, OtherSteps
  <1> QED  BY <1>1, <1>2, <1>3, <1>4, <1>5 DEF Brain!Next

\* However experiments, runs, edits, accepts, rollbacks, failed reloads and
\* restarts interleave, a lesson an experiment filed (create_proposals) and
\* an administrator accepted (apply_proposal) extends exactly the snapshot
\* that all arms of the experiment ran under.
THEOREM EvidenceHolds == BrainSpec => []ExperimentEvidence
  <1>1. Brain!IInv => ExperimentEvidence
    BY DEF Brain!IInv, ExperimentEvidence
  <1> QED  BY InitHolds, StepHolds, <1>1, PTL DEF BrainSpec, Brain!Spec

\* What was accepted before a step stays in the history: versions only grow.
LEMMA AcceptedStep == Brain!IInv /\ Brain!AcceptedIsStored /\ [Brain!Next]_(Brain!vars) => Brain!AcceptedIsStored'
  <1> SUFFICES ASSUME Brain!IInv, Brain!AcceptedIsStored, [Brain!Next]_(Brain!vars) PROVE Brain!AcceptedIsStored'
    OBVIOUS
  <1> DEFINE Kept == \A p : Brain!Stored(p) => Brain!Stored(p)'
             NoneAccepted ==
                \A p \in DOMAIN inbox' : inbox'[p].status = "accepted" =>
                    p \in DOMAIN inbox /\ inbox[p].status = "accepted"
  <1>1. Kept /\ NoneAccepted => Brain!AcceptedIsStored'
    BY DEF Brain!AcceptedIsStored
  <1>2. UNCHANGED Brain!store => Kept
    BY DEF Brain!Stored, Brain!store
  <1>3. UNCHANGED inbox => NoneAccepted
    OBVIOUS
  <1>4. GoodInbox(inbox') => NoneAccepted
    BY DEF GoodInbox
  <1>5. ASSUME NEW p \in DOMAIN inbox, Brain!Appliable(p), versions' = Brain!Applied(p)
        PROVE  Kept /\ Brain!Stored(p)'
    BY <1>5, AppliedVersions DEF Brain!Stored
  <1>6. ASSUME NEW p \in DOMAIN inbox, NEW status \in {"accepted", "rejected"},
               inbox' = Brain!Marked(p, status)
        PROVE  \A q \in DOMAIN inbox' : /\ q \in DOMAIN inbox
                   /\ inbox'[q].status = IF q = p THEN status ELSE inbox[q].status
    BY <1>6, MarkedRows DEF Brain!IInv
  <1>7. ASSUME NEW e \in 1 .. MaxExps,
               Brain!Launch(e) \/ Brain!ArmEnds(e) \/ Brain!EditorEnds(e) \/ Brain!Fails(e) \/ Brain!Cancelled(e) \/ Brain!File(e)
        PROVE  Brain!AcceptedIsStored'
    <2>1. UNCHANGED Brain!store
      BY <1>7 DEF Brain!Launch, Brain!ArmEnds, Brain!EditorEnds, Brain!Fails, Brain!Cancelled, Brain!File
    <2>2. UNCHANGED inbox \/ GoodInbox(inbox')
      BY <1>7, FileInbox DEF Brain!Launch, Brain!ArmEnds, Brain!EditorEnds, Brain!Fails, Brain!Cancelled
    <2> QED  BY <1>1, <1>2, <1>3, <1>4, <2>1, <2>2
  <1>8. CASE Brain!RunStarts \/ Brain!RunEnds
    <2>1. UNCHANGED Brain!store /\ (UNCHANGED inbox \/ GoodInbox(inbox'))
      BY <1>8, RunEndsInbox DEF Brain!RunStarts, Brain!RunEnds
    <2> QED  BY <1>1, <1>2, <1>3, <1>4, <2>1
  <1>9. ASSUME NEW p \in DOMAIN inbox, Brain!Accept(p)
        PROVE  Brain!AcceptedIsStored'
    <2>1. Kept /\ Brain!Stored(p)'
      BY <1>5, <1>9 DEF Brain!Accept
    <2>2. \A q \in DOMAIN inbox' : /\ q \in DOMAIN inbox
                   /\ inbox'[q].status = IF q = p THEN "accepted" ELSE inbox[q].status
      BY <1>6, <1>9 DEF Brain!Accept
    <2> QED  BY <2>1, <2>2 DEF Brain!AcceptedIsStored
  <1>10. ASSUME NEW p \in DOMAIN inbox, Brain!AcceptUnloaded(p) \/ Brain!AcceptCrashes(p)
         PROVE  Brain!AcceptedIsStored'
    <2>1. Kept
      BY <1>5, <1>10 DEF Brain!AcceptUnloaded, Brain!AcceptCrashes, Brain!Between
    <2>2. UNCHANGED inbox
      BY <1>10 DEF Brain!AcceptUnloaded, Brain!AcceptCrashes, Brain!Between
    <2> QED  BY <1>1, <1>3, <2>1, <2>2
  <1>11. ASSUME NEW p \in DOMAIN inbox, Brain!Reject(p)
         PROVE  Brain!AcceptedIsStored'
    <2>1. UNCHANGED Brain!store
      BY <1>11 DEF Brain!Reject
    <2>2. \A q \in DOMAIN inbox' : /\ q \in DOMAIN inbox
                   /\ inbox'[q].status = IF q = p THEN "rejected" ELSE inbox[q].status
      BY <1>6, <1>11 DEF Brain!Reject
    <2> QED  BY <1>2, <2>1, <2>2 DEF Brain!AcceptedIsStored
  <1>12. ASSUME NEW v \in 0 .. Len(versions), Brain!Rollback(v)
         PROVE  Brain!AcceptedIsStored'
    <2>1. \A w \in DOMAIN versions : w \in DOMAIN versions' /\ versions'[w] = versions[w]
      BY <1>12, RolledBack
    <2>2. Kept
      BY <2>1 DEF Brain!Stored
    <2>3. UNCHANGED inbox
      BY <1>12 DEF Brain!Rollback
    <2> QED  BY <1>1, <1>3, <2>2, <2>3
  <1>13. CASE Brain!Reload \/ Brain!Change \/ Brain!Crash \/ UNCHANGED Brain!vars
    <2>1. UNCHANGED Brain!store /\ UNCHANGED inbox
      BY <1>13 DEF Brain!Reload, Brain!Change, Brain!Crash, Brain!vars
    <2> QED  BY <1>1, <1>2, <1>3, <2>1
  <1> QED  BY <1>7, <1>8, <1>9, <1>10, <1>11, <1>12, <1>13 DEF Brain!Next

\* A proposal the inbox marks accepted is in the brain's history, wherever a
\* restart cut an accept (apply_proposal, then set_proposal_status) short.
THEOREM AcceptedHolds == BrainSpec => []AcceptedIsStored
  <1>1. Brain!Init => Brain!AcceptedIsStored
    BY DEF Brain!Init, Brain!AcceptedIsStored
  <1>2. Brain!AcceptedIsStored => AcceptedIsStored
    BY DEF AcceptedIsStored
  <1> QED  BY InitHolds, StepHolds, AcceptedStep, <1>1, <1>2, PTL DEF BrainSpec, Brain!Spec
=============================================================================
