------------------------------ MODULE EvalSuites ------------------------------
(***************************************************************************)
(* Suites of eval cases: the run lock of the admin pages and of the        *)
(* scheduled suites, the cancel flag, the case runner with its tag in the  *)
(* ledger of fallback turns, the recording stubs a case puts in the shared *)
(* tool registry, the result ledger, the cost cap and the one retry of     *)
(* results that a fallback made invalid.                                   *)
(*                                                                         *)
(* A job is one suite somebody may start: an administrator by a POST, the  *)
(* ticker when its schedule is due, or an agent with eval.run, which takes *)
(* no lock.  A step between two awaits is one action.                      *)
(***************************************************************************)
EXTENDS Integers, Sequences, SequencesExt, FiniteSets, Functions

CONSTANTS
    Posted,         \* suites an administrator starts
    Called,         \* suites an agent starts with eval.run
    Schedules,      \* sequence of the scheduled suites, in table order
    Plan,           \* [job |-> sequence of its cases]
    Stubs,          \* [case |-> the recording stubs it registers]
    Containers,     \* cases that run in a container
    SuiteCap,       \* eval.suite_max_cost_usd
    CaseCap,        \* eval.max_cost_usd
    LogSize,        \* entries the log of fallback turns keeps
    Faults,         \* what may go wrong, a subset of FaultKinds
    MaxStarts,      \* bound: suites started
    MaxPeriods,     \* bound: intervals of all schedules
    MaxMishaps      \* bound: faults, restarts, suites whose cases are deleted

Scheduled == ToSet(Schedules)
Jobs == Posted \cup Called \cup Scheduled
None == "none"
NoTag == <<>>
FaultKinds == {"degraded", "unfit", "raise", "down", "store", "tick"}

\* A suite is started by one kind of actor.
ASSUME JobsAssumption ==
    /\ Faults \subseteq FaultKinds /\ None \notin Jobs
    /\ Posted \cap Called = {} /\ Scheduled \cap (Posted \cup Called) = {}

ASSUME PlanAssumption == Plan \in [Jobs -> Seq(DOMAIN Stubs)]
ASSUME CapsAssumption == SuiteCap \in Nat /\ CaseCap \in Nat /\ LogSize \in Nat \ {0}

VARIABLES
    lock,       \* holder of _RUN_LOCK
    running,    \* _SUITE_STATE["running"]
    cancelling, \* _SUITE_STATE["cancelling"]
    job,        \* per job: its coroutine
    tag,        \* runtime._eval_case_tag
    log,        \* tags of the last turns another model served, NoTag for a chat's
    stubs,      \* recording stubs in the registry
    ledger,     \* per job: what its suite recorded, until it ends
    sched,      \* per schedule: enabled, due, its selector resolves
    starts,     \* per job: starts so far
    periods,    \* per schedule: intervals elapsed
    mishaps     \* how many of those so far

suiteVars == <<lock, running, cancelling>>
caseVars == <<tag, log, stubs, ledger>>
schedVars == <<sched, periods>>
vars == <<suiteVars, job, caseVars, schedVars, starts, mishaps>>

Idle == [pc |-> "idle", at |-> 1, again |-> FALSE, rows |-> <<>>, spent |-> 0,
         tag |-> NoTag, fell |-> FALSE, cost |-> 0, alone |-> TRUE, stop |-> FALSE,
         verdict |-> "ok", refused |-> 0, noise |-> 0]

InCase == {"setup", "turns", "judge", "record"}
\* Attempts to write a result.
Attempts == 3

Init ==
    /\ lock = None /\ running = FALSE /\ cancelling = FALSE
    /\ job = [j \in Jobs |-> Idle]
    /\ tag = NoTag /\ log = <<>> /\ stubs = {}
    /\ ledger = [j \in Jobs |-> {}]
    /\ sched = [s \in Scheduled |-> [on |-> TRUE, due |-> TRUE, known |-> TRUE]]
    /\ starts = [j \in Jobs |-> 0]
    /\ periods = [s \in Scheduled |-> 1]
    /\ mishaps = 0

\* What goes wrong is counted; what does not leaves the count alone.
Mishap == mishaps < MaxMishaps /\ mishaps' = mishaps + 1
MayFail(fails) == IF fails THEN Mishap ELSE UNCHANGED mishaps

Case(j) == Plan[j][job[j].at]
OwnTag(j) == <<j, starts[j], job[j].at, job[j].again>>

------------------------------------------------------------------------------
(* Who may start a suite. *)

MayStart == FoldFunction(+, 0, starts) < MaxStarts

MutFree == ~running
\* A second start while the lock is held is refused.
Free == lock = None

Spawned(j) == [job EXCEPT ![j] = [Idle EXCEPT !.pc = "spawned"]]

\* The lock is taken before the request is answered; eval.run asks for none.
Start(j) ==
    /\ j \notin Scheduled /\ job[j].pc = "idle" /\ MayStart
    /\ j \in Posted => Free
    /\ lock' = IF j \in Posted THEN j ELSE lock
    /\ cancelling' = (cancelling /\ j \notin Posted)
    /\ job' = Spawned(j)
    /\ starts' = [starts EXCEPT ![j] = @ + 1]
    /\ UNCHANGED <<running, caseVars, schedVars, mishaps>>

MutFired(s) == sched
\* Stamped before the suite runs.
Fired(s) == [sched EXCEPT ![s].due = FALSE]

\* The first n rows that are enabled and due, by their place in the table.
DueFirst(n) ==
    LET due == {i \in DOMAIN Schedules : sched[Schedules[i]].on /\ sched[Schedules[i]].due}
    IN  {i \in due : Cardinality({k \in due : k < i}) < n}

\* One tick: a due entry whose selector resolves takes the lock and starts.
\* Those before it, which do not resolve, are disabled.
Tick ==
    /\ Free
    /\ \E i \in DueFirst(2) :
        LET s == Schedules[i]
            before == {k \in DueFirst(2) : k < i}
        IN  /\ sched[s].known /\ MayStart
            /\ \A k \in before : ~sched[Schedules[k]].known
            /\ lock' = s /\ cancelling' = FALSE
            /\ sched' = [x \in Scheduled |->
                          IF \E k \in before : Schedules[k] = x
                          THEN [sched[x] EXCEPT !.on = FALSE] ELSE Fired(s)[x]]
            /\ job' = Spawned(s)
            /\ starts' = [starts EXCEPT ![s] = @ + 1]
    /\ UNCHANGED <<running, caseVars, periods, mishaps>>

\* Nothing that is due resolves.
TickDisables ==
    LET due == {Schedules[i] : i \in DueFirst(2)}
    IN  /\ Free /\ due # {} /\ \A s \in due : ~sched[s].known
        /\ sched' = [s \in Scheduled |->
                      IF s \in due THEN [sched[s] EXCEPT !.on = FALSE] ELSE sched[s]]
        /\ UNCHANGED <<suiteVars, job, caseVars, periods, starts, mishaps>>

\* The stamp raises after the lock was taken.
TickRaises ==
    /\ "tick" \in Faults /\ Free
    /\ \E i \in DueFirst(1) :
        sched[Schedules[i]].known /\ lock' = Schedules[i]
    /\ cancelling' = FALSE
    /\ UNCHANGED <<running, job, caseVars, schedVars, starts>>
    /\ Mishap

MayElapse == FoldFunction(+, 0, periods) < MaxPeriods

Elapse(s) ==
    /\ ~sched[s].due /\ MayElapse
    /\ sched' = [sched EXCEPT ![s].due = TRUE]
    /\ periods' = [periods EXCEPT ![s] = @ + 1]
    /\ UNCHANGED <<suiteVars, job, caseVars, starts, mishaps>>

\* The last case of a schedule's selector is deleted or disabled.
Unselect(s) ==
    /\ sched[s].known
    /\ sched' = [sched EXCEPT ![s].known = FALSE]
    /\ Mishap
    /\ UNCHANGED <<suiteVars, job, caseVars, periods, starts>>

Cancel ==
    /\ running /\ ~cancelling
    /\ cancelling' = TRUE
    /\ UNCHANGED <<lock, running, job, caseVars, schedVars, starts, mishaps>>

------------------------------------------------------------------------------
(* The runner. *)

Unjudged(c, status) ==
    [case |-> c, status |-> status, refused |-> 0, fell |-> FALSE, sure |-> TRUE]
Row(j, status) == Unjudged(Case(j), status)
CrashedRow(j, refused) ==
    [case |-> Case(j), status |-> "crashed", refused |-> refused, fell |-> FALSE, sure |-> TRUE]
\* No other suite ran a case beside, and the log was not flushed.
Sure(j) == job[j].alone /\ job[j].noise < LogSize
Judgement(j, status) ==
    [case |-> Case(j), status |-> status, refused |-> job[j].refused, fell |-> job[j].fell,
     sure |-> Sure(j)]

Begin(j) ==
    /\ job[j].pc = "spawned"
    /\ job' = [job EXCEPT ![j].pc = "preflight"]
    /\ running' = (running \/ j \notin Called)
    /\ UNCHANGED <<lock, cancelling, caseVars, schedVars, starts, mishaps>>

Preflight(j) ==
    /\ job[j].pc = "preflight"
    /\ \E healthy \in {TRUE} \cup {"degraded" \notin Faults} :
        /\ MayFail(~healthy)
        /\ job' = [job EXCEPT
                 ![j].pc = IF healthy THEN "next" ELSE "done",
                 ![j].rows = IF healthy THEN @ ELSE
                    [i \in DOMAIN Plan[j] |-> Unjudged(Plan[j][i], "skipped")]]
    /\ UNCHANGED <<suiteVars, caseVars, schedVars, starts>>

Stopping(j) == job[j].stop \/ (cancelling /\ j \notin Called)

MutSpent(j) == job[j].spent > SuiteCap
\* What the suite spent so far leaves no room for another case.
Spent(j) == job[j].spent >= SuiteCap

SkipCase(j) ==
    /\ job[j].pc = "next" /\ job[j].at <= Len(Plan[j])
    /\ Stopping(j) \/ Spent(j)
    /\ job' = [job EXCEPT ![j].stop = Stopping(j),
                          ![j].rows = Append(@, Row(j, "skipped")),
                          ![j].at = @ + 1]
    /\ UNCHANGED <<suiteVars, caseVars, schedVars, starts, mishaps>>

\* What a suite knew of the attempt is gone with it.
Cleared(me) ==
    [me EXCEPT !.tag = NoTag, !.fell = FALSE, !.cost = 0, !.alone = TRUE,
               !.verdict = "ok", !.refused = 0, !.noise = 0]

MutEnded(j, row, counted, stop) ==
    [Cleared(job[j]) EXCEPT
      !.pc = IF job[j].again THEN "amnesty" ELSE "next",
      !.at = IF job[j].again THEN @ ELSE @ + 1,
      !.rows = IF ~job[j].again THEN Append(@, row) ELSE [@ EXCEPT ![job[j].at] = row],
      !.spent = @ + counted, !.stop = @ \/ stop]
\* The row of the attempt: the retry replaces the row it repeats, unless it
\* raised.
Ended(j, row, counted, stop) ==
    LET me == job[j]
    IN  [Cleared(me) EXCEPT
          !.pc = IF me.again THEN "amnesty" ELSE "next",
          !.at = @ + 1,
          !.rows = IF ~me.again THEN Append(@, row)
                   ELSE IF row.status = "crashed" THEN @
                   ELSE [@ EXCEPT ![me.at] = row],
          !.spent = @ + counted, !.stop = @ \/ stop]

MutUnregister(j) == stubs
Unregister(j) == stubs \ Stubs[Case(j)]

\* The tag the suite parked on the runtime; a case without one makes its own.
CaseTag(j) == IF tag = NoTag THEN OwnTag(j) ELSE tag

\* Rows to retry: invalid ones, but not those that were never recorded.
Invalid(j) ==
    {i \in DOMAIN job[j].rows :
        i >= job[j].at /\ job[j].rows[i].status = "invalid" /\ job[j].rows[i].refused < Attempts}

\* The index of the case to run now: the next one, or the next to repeat.
NextCases(j) ==
    {i \in DOMAIN Plan[j] :
        /\ ~Spent(j)
        /\ \/ job[j].pc = "next" /\ ~Stopping(j) /\ i = job[j].at
           \/ job[j].pc = "amnesty" /\ i \in Invalid(j) /\ \A k \in Invalid(j) : i <= k}

\* From the top of the loop to the first await of the case.
RunCase(j) ==
    /\ \E i \in NextCases(j) :
        LET case == Plan[j][i]
            own == <<j, starts[j], i, job[j].again>>
        IN
        /\ Stubs[case] \cap stubs = {}
        /\ stubs' = stubs \cup Stubs[case]
        /\ tag' = own
        /\ job' = [k \in Jobs |->
                IF k = j
                THEN [job[j] EXCEPT
                       !.pc = IF case \in Containers THEN "setup" ELSE "turns",
                       !.at = i, !.tag = own,
                       !.alone = \A o \in Jobs \ {j} : job[o].pc \notin InCase]
                ELSE [job[k] EXCEPT !.alone = job[k].pc \notin InCase]]
    /\ UNCHANGED <<suiteVars, log, ledger, schedVars, starts, mishaps>>

SetUp(j) ==
    /\ job[j].pc = "setup"
    /\ job' = [job EXCEPT ![j].pc = "turns", ![j].tag = CaseTag(j)]
    /\ tag' = CaseTag(j)
    /\ UNCHANGED <<suiteVars, log, stubs, ledger, schedVars, starts, mishaps>>

\* The log keeps the last LogSize entries, whoever made them.
Logged(t) == Append(IF Len(log) < LogSize THEN log ELSE Tail(log), t)

\* Entries the others made since the case's own, up to those that push it out.
Louder(j) == IF job[j].noise < LogSize THEN job[j].noise + 1 ELSE LogSize
Noisy(k) == [job[k] EXCEPT !.noise = IF job[k].pc = "judge" /\ job[k].fell
                                     THEN Louder(k) ELSE @]

\* Turns are paid, and logged when another model served them.
Turns(j) ==
    /\ job[j].pc = "turns"
    /\ \E cost \in {0, CaseCap}, fell \in BOOLEAN :
        /\ job' = [k \in Jobs |->
                    IF k = j THEN [job[j] EXCEPT !.pc = "judge", !.fell = fell, !.cost = cost,
                                                 !.noise = 0]
                    ELSE IF fell THEN Noisy(k) ELSE job[k]]
        /\ log' = IF fell THEN Logged(job[j].tag) ELSE log
    /\ UNCHANGED <<suiteVars, tag, stubs, ledger, schedVars, starts, mishaps>>

\* A turn outside the suites is served by another model than it asked for.  The
\* log is read when a case is judged: entries that could neither be mistaken for
\* the case's nor push those of a case out are left out.
ChatFallsBack ==
    /\ \E j \in Jobs : job[j].pc = "judge" /\ (log = <<>> \/ job[j].tag \in ToSet(log))
    /\ log' = Logged(NoTag)
    /\ job' = [k \in Jobs |-> Noisy(k)]
    /\ UNCHANGED <<suiteVars, tag, stubs, ledger, schedVars, starts, mishaps>>

\* The tag of a case is new: with no entry of a case in progress, what the log
\* holds is never found again, and need not be kept.
Forgotten(j) ==
    IF \E k \in Jobs \ {j} : job[k].pc \in InCase /\ job[k].tag \in ToSet(log)
    THEN log ELSE <<>>

CleanUp(j) ==
    /\ stubs' = Unregister(j)
    /\ log' = Forgotten(j)
    /\ tag' = IF tag \in {job[j].tag, OwnTag(j)} THEN NoTag ELSE tag

\* What the case needs is not installed or does not start.
Unfit(j) ==
    /\ "unfit" \in Faults /\ job[j].pc \in {"setup", "turns"}
    /\ job' = [job EXCEPT ![j] = Ended(j, Row(j, "skipped"), 0, FALSE)]
    /\ CleanUp(j)
    /\ UNCHANGED <<suiteVars, ledger, schedVars, starts>>
    /\ Mishap

\* The model backend is down: the case and all later ones are skipped.
BackendDown(j) ==
    /\ "down" \in Faults /\ job[j].pc = "judge"
    /\ job' = [job EXCEPT ![j] =
                Ended(j, Row(j, IF job[j].again THEN "crashed" ELSE "skipped"), 0, ~job[j].again)]
    /\ CleanUp(j)
    /\ UNCHANGED <<suiteVars, ledger, schedVars, starts>>
    /\ Mishap

MutFellBack(j) == log # <<>>
\* Only turns of the case's own run tree count.
FellBack(j) == job[j].tag \in ToSet(log)

\* The verdict is reached once, before the first attempt to write it.
Outcome(j) ==
    IF job[j].pc = "record" THEN job[j].verdict
    ELSE IF FellBack(j) THEN "invalid" ELSE "ok"

Put(j, status) == [ledger EXCEPT ![j] = @ \cup {<<Case(j), status>>}]

\* Judged and recorded.
Written(j) ==
    /\ job[j].pc \in {"judge", "record"} /\ job[j].refused < Attempts
    /\ job' = [job EXCEPT ![j] = Ended(j, Judgement(j, Outcome(j)), job[j].cost, FALSE)]
    /\ ledger' = Put(j, Outcome(j))
    /\ CleanUp(j)
    /\ UNCHANGED <<suiteVars, schedVars, starts, mishaps>>

\* The store refuses the row; the next attempt is made after a pause.
Refused(j) ==
    /\ "store" \in Faults
    /\ job[j].pc \in {"judge", "record"} /\ job[j].refused < Attempts
    /\ job' = [job EXCEPT ![j].pc = "record", ![j].verdict = Outcome(j),
                          ![j].refused = @ + 1]
    /\ MayFail(job[j].refused = 0)
    /\ UNCHANGED <<suiteVars, caseVars, schedVars, starts>>

\* After the last attempt the row is returned as it would have been stored.
GivenUp(j) ==
    /\ job[j].pc = "record" /\ job[j].refused = Attempts
    /\ job' = [job EXCEPT ![j] = Ended(j, Judgement(j, job[j].verdict), job[j].cost, FALSE)]
    /\ CleanUp(j)
    /\ UNCHANGED <<suiteVars, ledger, schedVars, starts, mishaps>>

MutCrashRow(j, saved) == ledger
\* A case that raised leaves a row too, but not a retry of one.
CrashRow(j, saved) == IF saved /\ ~job[j].again THEN Put(j, "crashed") ELSE ledger

\* Whether the one attempt to write the row of a crash succeeds.
Saves == {TRUE} \cup {"store" \notin Faults}
Crashed(j, saved) == Ended(j, CrashedRow(j, IF saved THEN 0 ELSE 1), 0, FALSE)

\* An exception of the case's code, checker or clean-up.
CaseRaises(j) ==
    /\ "raise" \in Faults /\ job[j].pc \in {"turns", "judge"} /\ Mishap
    /\ \E saved \in Saves :
        /\ ledger' = CrashRow(j, saved)
        /\ job' = [job EXCEPT ![j] = Crashed(j, saved)]
    /\ CleanUp(j)
    /\ UNCHANGED <<suiteVars, schedVars, starts>>

\* The row is stored, and the proposal drawn from it is refused.
ProposalRaises(j) ==
    /\ "raise" \in Faults /\ job[j].pc \in {"judge", "record"} /\ job[j].refused < Attempts
    /\ Mishap
    /\ \E saved \in Saves :
        /\ ledger' = [ledger EXCEPT ![j] = Put(j, Outcome(j))[j] \cup CrashRow(j, saved)[j]]
        /\ job' = [job EXCEPT ![j] = Crashed(j, saved)]
    /\ CleanUp(j)
    /\ UNCHANGED <<suiteVars, schedVars, starts>>

\* The stubs are taken by a case of another suite: the case cannot be loaded.
Collides(j) ==
    /\ \E i \in NextCases(j), saved \in Saves :
        /\ Stubs[Plan[j][i]] \cap stubs # {}
        /\ MayFail(~saved)
        /\ ledger' = CrashRow(j, saved)
        /\ job' = [job EXCEPT ![j] = [Crashed(j, saved) EXCEPT !.at = i + 1]]
    /\ UNCHANGED <<suiteVars, tag, log, stubs, schedVars, starts>>

\* After the last case: invalid rows are retried once, if the sources of the
\* fallbacks are healthy again.
LoopEnds(j) ==
    /\ job[j].pc = "next" /\ job[j].at > Len(Plan[j])
    /\ \E healthy \in {TRUE} \cup {"degraded" \notin Faults} :
        /\ MayFail(~healthy)
        /\ job' = [job EXCEPT ![j].at = 1,
                           ![j].again = healthy /\ ~job[j].stop,
                           ![j].pc = IF healthy /\ ~job[j].stop THEN "amnesty" ELSE "done"]
    /\ UNCHANGED <<suiteVars, caseVars, schedVars, starts>>

AmnestyEnds(j) ==
    /\ job[j].pc = "amnesty" /\ NextCases(j) = {}
    /\ job' = [job EXCEPT ![j].pc = "done"]
    /\ UNCHANGED <<suiteVars, caseVars, schedVars, starts, mishaps>>

MutRelease(j) == lock' = None /\ running' = FALSE /\ UNCHANGED cancelling
\* Released however the suite ended, with the flags of its own run.
Release(j) ==
    /\ lock' = None /\ running' = FALSE /\ cancelling' = FALSE

Finish(j) ==
    /\ job[j].pc = "done"
    /\ job' = [job EXCEPT ![j] = Idle]
    /\ IF j \in Called THEN UNCHANGED suiteVars ELSE Release(j)
    /\ ledger' = [ledger EXCEPT ![j] = {}]
    /\ UNCHANGED <<tag, log, stubs, schedVars, starts, mishaps>>

\* Only the database survives.  One right after Tick leaves what one between
\* the stamp of the schedule and its suite would.
Crash ==
    /\ Mishap
    /\ lock' = None /\ running' = FALSE /\ cancelling' = FALSE
    /\ job' = [j \in Jobs |-> Idle]
    /\ tag' = NoTag /\ log' = <<>> /\ stubs' = {}
    /\ ledger' = [j \in Jobs |-> {}]
    /\ UNCHANGED <<schedVars, starts>>

------------------------------------------------------------------------------
Work(j) ==
    \/ Begin(j) \/ Preflight(j) \/ SkipCase(j) \/ RunCase(j)
    \/ SetUp(j) \/ Turns(j) \/ Unfit(j) \/ BackendDown(j)
    \/ CaseRaises(j) \/ ProposalRaises(j) \/ Collides(j) \/ Written(j) \/ Refused(j) \/ GivenUp(j)
    \/ LoopEnds(j) \/ AmnestyEnds(j) \/ Finish(j)

Next ==
    \/ \E j \in Jobs : Start(j) \/ Work(j)
    \/ Tick \/ TickDisables \/ TickRaises
    \/ \E s \in Scheduled : Elapse(s) \/ Unselect(s)
    \/ ChatFallsBack \/ Cancel \/ Crash

Spec == Init /\ [][Next]_vars

\* What a suite awaits ends: while one can go on, one does.
FairSpec == Spec /\ WF_vars(\E j \in Jobs : Work(j))

------------------------------------------------------------------------------
(* Properties. *)

Active(j) == job[j].pc # "idle"

Cases == DOMAIN Stubs
Tags == Jobs \X Nat \X Nat \X BOOLEAN
Rows == [case : Cases, status : {"ok", "invalid", "crashed", "skipped"}, refused : 0 .. Attempts,
         fell : BOOLEAN, sure : BOOLEAN]
Runs == [pc : InCase \cup {"idle", "spawned", "preflight", "next", "amnesty", "done"},
         at : Nat, again : BOOLEAN, rows : Seq(Rows), spent : Nat, tag : {NoTag} \cup Tags,
         fell : BOOLEAN, cost : Nat, alone : BOOLEAN, stop : BOOLEAN,
         verdict : {"ok", "invalid"}, refused : 0 .. Attempts, noise : 0 .. LogSize]

\* The types of the state.
TypeOK ==
    /\ lock \in Jobs \cup {None} /\ running \in BOOLEAN /\ cancelling \in BOOLEAN
    /\ job \in [Jobs -> Runs]
    /\ tag \in {NoTag} \cup Tags
    /\ log \in Seq({NoTag} \cup Tags) /\ Len(log) <= LogSize
    /\ ledger \in [Jobs -> SUBSET (Cases \X {"ok", "invalid", "crashed"})]
    /\ sched \in [Scheduled -> [on : BOOLEAN, due : BOOLEAN, known : BOOLEAN]]
    /\ starts \in [Jobs -> Nat] /\ periods \in [Scheduled -> Nat] /\ mishaps \in Nat

(* Parts of the inductive invariants. *)

\* How far a suite is: the rows of the cases before "at" are there until the
\* retries begin, which repeat rows that are there.
Positions ==
    \A j \in Jobs :
        LET me == job[j]
        IN  /\ Len(me.rows) <= Len(Plan[j])
            /\ me.pc \in InCase => me.at \in 1 .. Len(Plan[j])
            /\ me.pc = "next" \/ (me.pc \in InCase /\ ~me.again) => Len(me.rows) = me.at - 1
            /\ me.pc \in {"idle", "spawned", "preflight"} => me.rows = <<>> /\ me.at = 1
            /\ me.pc \in {"idle", "spawned", "preflight", "next"} => ~me.again
            /\ me.pc = "amnesty" => me.again

\* Who took the lock and is active has it.
LockHeld == \A j \in Jobs \ Called : Active(j) => lock = j

\* An interval that is due has not been used.
DueIsUnused ==
    \A s \in Scheduled : starts[s] + (IF sched[s].due THEN 1 ELSE 0) <= periods[s]

\* A tag is of an attempt that began: before the place where its suite is.
Begun(t) ==
    LET me == job[t[1]]
    IN  \/ t[2] < starts[t[1]]
        \/ /\ t[2] = starts[t[1]]
           /\ \/ me.pc \in {"idle", "done"}
              \/ ~t[4] /\ me.again
              \/ t[4] = me.again /\ t[3] < me.at
              \/ t[4] = me.again /\ t[3] = me.at /\ me.pc \in InCase

TagsBegun ==
    \A t \in Tags : t \in ToSet(log) \/ t = tag \/ (\E j \in Jobs : t = job[j].tag) => Begun(t)

\* A case that nobody ran beside runs under its own tag.  Its turns fell back
\* when the log has its tag, and if they did the log has it below the entries
\* made since.
Verdicts(j) ==
    LET me == job[j]
        mine == OwnTag(j) \in ToSet(log)
    IN  /\ me.pc \in {"setup", "turns"} => ~mine
        /\ me.pc = "judge" /\ mine => me.fell
        /\ me.pc = "judge" /\ me.fell /\ me.noise < LogSize =>
            me.noise < Len(log) /\ log[Len(log) - me.noise] = OwnTag(j)
        /\ me.pc = "record" /\ me.verdict = "invalid" => me.fell
        /\ me.pc = "record" /\ me.verdict = "ok" /\ me.noise < LogSize => ~me.fell

AloneIsOwn ==
    \A j \in Jobs : job[j].pc \in InCase /\ job[j].alone =>
        /\ \A o \in Jobs \ {j} : job[o].pc \notin InCase
        /\ tag = OwnTag(j) /\ job[j].tag = OwnTag(j)
        /\ Verdicts(j)

\* One suite at a time among those that ask for the lock, whoever starts them.
OneSuite == \A j, k \in Jobs \ Called : Active(j) /\ Active(k) => j = k

\* The lock is held by a suite that will release it.
LockIsReleased == lock # None => Active(lock)

\* A cancellation stops the suite it was given to and no later one.
CancelIsForTheRunning == cancelling => lock # None /\ Active(lock)

\* A suite, its retries included, spends less than its cap plus one case.
SpendBounded == \A j \in Jobs : job[j].spent < SuiteCap + CaseCap

\* Every attempt to write the row was refused: three of a verdict, the one of
\* a crash.
Unsaved(r) == r.refused = (IF r.status = "crashed" THEN 1 ELSE Attempts)

\* What the summary counts of a case that ran is what the ledger holds, unless
\* every attempt to write it was refused.
SummaryIsRecorded ==
    \A j \in Jobs : \A r \in ToSet(job[j].rows) :
        r.status \in {"ok", "invalid", "crashed"} =>
            <<r.case, r.status>> \in ledger[j] \/ Unsaved(r)

\* A stub is in the shared registry only while its case is in progress.
StubsLeave ==
    stubs \subseteq UNION {Stubs[Case(j)] : j \in {k \in Jobs : job[k].pc \in InCase}}

VerdictIsRight(r) ==
    /\ r.status = "invalid" => r.fell
    /\ r.status = "ok" => ~r.fell

\* A result is invalidated by fallbacks of its own turns only, and by each of
\* them, when no other suite runs a case meanwhile and the log was not flushed
\* between its last fallback and its verdict by LogSize turns of others.
AloneVerdictsRight ==
    \A j \in Jobs : \A r \in ToSet(job[j].rows) :
        r.sure => VerdictIsRight(r)

\* The same whatever else runs.
VerdictsRight == \A j \in Jobs : \A r \in ToSet(job[j].rows) : VerdictIsRight(r)

\* A scheduled suite starts at most once per interval, whatever crashes.
OncePerInterval == \A s \in Scheduled : starts[s] <= periods[s]

\* Suites that started end: with starts bounded, none is active for ever.
SuitesEnd == []<>(\A j \in Jobs : ~Active(j))
=============================================================================
