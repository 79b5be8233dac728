--------------------------- MODULE GoalSupervisor ---------------------------
(***************************************************************************)
(* /goal: a user's objective pursued over several agent runs.               *)
(*                                                                          *)
(* The record in users.db is the only durable state.  The slash commands    *)
(* and every ordinary chat message write it; the supervisor task reads it,  *)
(* awaits the launch and the end of a run and, when the model declares the  *)
(* goal complete, the check command or the judge, and writes it back.  A    *)
(* step of this module is what happens between two awaits.                  *)
(*                                                                          *)
(* A goal is a number, in the order the user set them; 0 is no objective.   *)
(* The log, the token count, STATE.md, the chat turns that show the         *)
(* progress and current_run are left out: no decision modelled here reads   *)
(* them, except the token and wall-clock ceilings, which may stop a goal at *)
(* any turn.                                                                *)
(***************************************************************************)
EXTENDS Naturals

CONSTANTS
    MaxTurns,    \* goal.max_turns (its value 0, no ceiling, is not modelled)
    Judge,       \* the judge confirms goal.complete where no check command does
    MaxGoals,    \* bound on the goals the user sets
    MaxCrashes,  \* bound on process crashes
    MaxFaults,   \* bound on launches that raise
    MaxEscapes   \* bound on cancellations that escape an agent run

ASSUME GoalAssumption ==
    /\ MaxTurns \in Nat \ {0}
    /\ Judge \in BOOLEAN
    /\ MaxGoals \in Nat \ {0}
    /\ MaxCrashes \in Nat /\ MaxFaults \in Nat /\ MaxEscapes \in Nat

VARIABLES
    up,        \* the web process is running
    rec,       \* the goal record of the user
    sup,       \* the supervisor task: its await and the record it holds
    fails,     \* consecutive_failures
    newest,    \* the last goal the user set (history)
    halted,    \* the last command, or message, halted the goal (history)
    launches,  \* runs launched for each goal (history)
    crashes, faults, escapes   \* how many of each bound were used

counters == <<crashes, faults, escapes>>
history == <<newest, halted, launches>>
vars == <<up, rec, sup, fails, history, counters>>

Goals == 1..MaxGoals
NoGoal == [goal |-> 0, check |-> FALSE, status |-> "none", turn |-> 0]
Records == [goal : 0..MaxGoals,
            check : BOOLEAN,     \* it has a check command
            status : {"none", "active", "paused", "done", "blocked"},
            turn : 0..MaxTurns]

Tasks == [at : {"gone", "kicked", "launch", "run", "verify"}, held : Records]

\* No task; a task created and not yet resumed; the awaits of supervise.
Gone == [at |-> "gone", held |-> NoGoal]
Kicked == [at |-> "kicked", held |-> NoGoal]

TypeOK ==
    /\ up \in BOOLEAN
    /\ rec \in Records
    /\ sup \in Tasks
    /\ fails \in 0..1
    /\ newest \in 0..MaxGoals
    /\ halted \in BOOLEAN
    /\ launches \in [Goals -> Nat]
    /\ crashes \in 0..MaxCrashes
    /\ faults \in 0..MaxFaults
    /\ escapes \in 0..MaxEscapes

Init ==
    /\ up = TRUE
    /\ rec = NoGoal
    /\ sup = Gone
    /\ fails = 0
    /\ newest = 0
    /\ halted = FALSE
    /\ launches = [g \in Goals |-> 0]
    /\ crashes = 0 /\ faults = 0 /\ escapes = 0

-----------------------------------------------------------------------------
(* The slash commands.                                                      *)

\* _goal_kick: one supervisor per user.
\* (Mutant: a resume trusts that a supervisor is still there.)
MutKick == sup
Kick == IF sup.at = "gone" THEN Kicked ELSE sup

SetGoal ==
    /\ up
    /\ newest < MaxGoals
    /\ newest' = newest + 1
    /\ \E check \in BOOLEAN :
          rec' = [goal |-> newest + 1, check |-> check, status |-> "active", turn |-> 0]
    /\ sup' = Kick
    /\ halted' = FALSE
    /\ UNCHANGED <<up, fails, launches, counters>>

\* /goal pause, and any real message the user sends.
Pause ==
    /\ up
    /\ rec.status = "active"
    /\ rec' = [rec EXCEPT !.status = "paused"]
    /\ halted' = TRUE
    /\ UNCHANGED <<up, sup, fails, newest, launches, counters>>

\* Any objective on record resumes, a finished one too.
Resume ==
    /\ up
    /\ rec.goal # 0
    /\ rec.status # "active"
    /\ rec' = [rec EXCEPT !.status = "active"]
    /\ sup' = Kick
    /\ halted' = FALSE
    /\ UNCHANGED <<up, fails, newest, launches, counters>>

Stop ==
    /\ up
    /\ rec' = NoGoal
    /\ halted' = TRUE
    /\ UNCHANGED <<up, sup, fails, newest, launches, counters>>

-----------------------------------------------------------------------------
(* supervise.                                                               *)

\* (Mutant: off by one.)
MutTurnsLeft(r) == r.turn <= MaxTurns
TurnsLeft(r) == r.turn + 1 <= MaxTurns

Finish(r, status) ==
    /\ rec' = [r EXCEPT !.status = status]
    /\ sup' = Gone

\* One iteration from the top of the loop to the await of the launch, on the
\* record r that is saved: it ends when r is not active or a ceiling is hit;
\* otherwise the turn is counted before its run is launched.
Iterate(r) ==
    \/ r.status # "active" /\ rec' = r /\ sup' = Gone
    \/ r.status = "active" /\ Finish(r, "blocked")
    \/ LET next == [r EXCEPT !.turn = @ + 1]
       IN  /\ r.status = "active"
           /\ TurnsLeft(r)
           /\ rec' = next
           /\ sup' = [at |-> "launch", held |-> next]

Begin ==
    /\ up /\ sup.at = "kicked"
    /\ Iterate(rec)
    /\ fails' = 0
    /\ UNCHANGED <<up, history, counters>>

\* The run is launched; current_run is noted on a fresh read of the record.
Launched ==
    /\ up /\ sup.at = "launch"
    /\ sup' = [sup EXCEPT !.at = "run"]
    /\ launches' = [launches EXCEPT ![sup.held.goal] = @ + 1]
    /\ UNCHANGED <<up, rec, fails, newest, halted, counters>>

\* The launch raises: the record read before the launch is written back.
LaunchFails ==
    /\ up /\ sup.at = "launch"
    /\ faults < MaxFaults
    /\ faults' = faults + 1
    /\ Finish(sup.held, "blocked")
    /\ UNCHANGED <<up, fails, history, crashes, escapes>>

\* The run ends; the record is read again.
\* (Mutant: the record read before the run is used.)
MutReRead == [sup.held EXCEPT !.status = "active"]
ReRead == rec

RunEnds ==
    /\ up /\ sup.at = "run"
    /\ LET r == ReRead
       IN  \/ /\ r.status # "active"
              /\ rec' = r /\ sup' = Gone
              /\ UNCHANGED fails
           \/ /\ r.status = "active"            \* goal.complete was declared
              /\ IF r.check \/ Judge THEN sup' = [at |-> "verify", held |-> r] /\ rec' = r
                           ELSE Finish(r, "done")
              /\ UNCHANGED fails
           \/ /\ r.status = "active"            \* goal.blocked was declared
              /\ Finish(r, "blocked")
              /\ UNCHANGED fails
           \/ /\ r.status = "active"            \* the turn failed
              /\ \/ fails = 0 /\ fails' = 1 /\ Iterate(r)
                 \/ fails = 1 /\ Finish(r, "blocked") /\ UNCHANGED fails
           \/ /\ r.status = "active"            \* the turn went on
              /\ fails' = 0
              /\ Iterate(r)
    /\ UNCHANGED <<up, history, counters>>

\* The check or the judge answers; the record held over the await is saved.
VerifyEnds ==
    /\ up /\ sup.at = "verify"
    /\ Finish(sup.held, "done") \/ Iterate(sup.held)
    /\ UNCHANGED <<up, fails, history, counters>>

\* CancelledError leaves the awaited run, and the supervisor with it.
CancelEscapes ==
    /\ up /\ sup.at = "run"
    /\ escapes < MaxEscapes
    /\ escapes' = escapes + 1
    /\ sup' = Gone
    /\ UNCHANGED <<up, rec, fails, history, crashes, faults>>

-----------------------------------------------------------------------------
(* The process.                                                             *)

Crash ==
    /\ up
    /\ crashes < MaxCrashes
    /\ crashes' = crashes + 1
    /\ up' = FALSE
    /\ sup' = Gone
    /\ UNCHANGED <<rec, fails, history, faults, escapes>>

\* _resume_active_goals.
\* (Mutant: only paused goals are looked at.)
MutRestartTask == IF rec.status = "paused" THEN Kicked ELSE Gone
RestartTask == IF rec.status = "active" THEN Kicked ELSE Gone
Restart ==
    /\ ~up
    /\ up' = TRUE
    /\ sup' = RestartTask
    /\ UNCHANGED <<rec, fails, history, counters>>

Command == SetGoal \/ Pause \/ Resume \/ Stop
Supervise == Begin \/ Launched \/ RunEnds \/ VerifyEnds
Next == Command \/ Supervise \/ LaunchFails \/ CancelEscapes \/ Crash \/ Restart

Spec == Init /\ [][Next]_vars

\* A spawned task is resumed, launches and runs end (budgets bound a run), the
\* check has a timeout and the judge is one model call; the service manager
\* restarts the process.
FairSpec == Spec /\ WF_vars(Supervise) /\ WF_vars(Restart)

-----------------------------------------------------------------------------
(* Correctness.                                                             *)

\* After a pause, a stop or a message of the user the goal is not active until
\* the user resumes it or sets another: supervise re-reads the record when a
\* run ends, so no write of it brings the goal back, the one after a check
\* command apart.
HaltHonoured == halted => rec.status # "active" \/ rec.check

\* The same for every goal, as the comment at the re-read and the help of /goal
\* say it.
HaltSticks == halted => rec.status # "active"

\* The goal on record is the last one the user set: the supervisor of an earlier
\* goal that is still suspended does not write its own record over it, unless
\* its launch raised or its check command was answered.
NewestOnRecord == rec.goal \in {0, newest} \/ faults > 0 \/ rec.check

\* No goal launches more than max_turns runs: the turn is counted before the
\* launch, so neither a crash, a resume nor a stale write repeats a turn.
TurnCeiling == \A g \in Goals : launches[g] <= MaxTurns

\* An active goal has its supervisor: every way of making it active kicks one,
\* and a supervisor returns only from a goal that is not active.
ActiveSupervised ==
    up /\ escapes = 0 /\ rec.status = "active" => sup.at # "gone"

\* An active goal is completed, blocked, paused or stopped in the end, unless a
\* cancellation took its supervisor away.
GoalSettles == rec.status = "active" ~> rec.status # "active" \/ escapes > 0

-----------------------------------------------------------------------------
(* The inductive invariant behind the theorems of GoalSupervisorProofs.     *)

Copied == sup.at \in {"launch", "run", "verify"}

\* Only a check command, or the judge, keeps the supervisor at the last await.
VerifyHeld == sup.at = "verify" => sup.held.check \/ Judge

\* An active record, and the one the supervisor holds, name a goal that was set.
Named(r) == r.goal <= newest /\ (r.status = "active" => r.goal # 0)
GoalsNamed ==
    /\ Named(rec)
    /\ Copied => sup.held.status = "active" /\ Named(sup.held)

\* The launch the supervisor is about to make was counted before.
Pending(g) == sup.at = "launch" /\ sup.held.goal = g
Counted(g, n) == launches[g] < n \/ (launches[g] = n /\ ~Pending(g))

\* Every copy of a goal's record has counted all its launches.
LaunchesCounted ==
    \A g \in Goals :
        /\ Counted(g, MaxTurns)
        /\ g > newest => launches[g] = 0
        /\ rec.goal = g => Counted(g, rec.turn)
        /\ Copied /\ sup.held.goal = g => Counted(g, sup.held.turn)

IInv ==
    /\ TypeOK
    /\ GoalsNamed
    /\ LaunchesCounted
    /\ ActiveSupervised
    /\ VerifyHeld
    /\ ~Judge => HaltHonoured /\ NewestOnRecord
=============================================================================
