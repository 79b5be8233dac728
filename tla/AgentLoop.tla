------------------------------ MODULE AgentLoop ------------------------------
(***************************************************************************)
(* One run of the agent loop (AgentRuntime.run): the turns of the model,   *)
(* the dispatch gates every tool call passes, the bookkeeping of a batch   *)
(* of results, the final-answer guards, the verifier gate, and the ways a  *)
(* run ends.  The model is free: each turn it answers or issues any batch  *)
(* of calls, every executed call may succeed or fail, and the run may be   *)
(* cancelled at any await.                                                 *)
(*                                                                         *)
(* `st` holds the settings resolved once per run (run_setup.RunSettings);  *)
(* `rs` holds the fields of run_state.RunState the properties tell apart;  *)
(* `plans` is the batch in hand and `at` the call the loop is working on.  *)
(* A call is a tool with its arguments.  Mutation generations are counted  *)
(* from the last bump: a bump empties `recent` and `similar`.              *)
(*                                                                         *)
(* A write-like call is one that writes a source file, or the notes that   *)
(* the j-space skill keeps under .jspace/ (the ledger).                    *)
(*                                                                         *)
(* Left out: message texts, the state-file and todo anchors, compaction's  *)
(* effect on text, the nudges that only add text to a result, and the      *)
(* window of 20 remembered calls (a batch of the instances never fills it).*)
(***************************************************************************)
EXTENDS Integers, Sequences, FiniteSets

CONSTANTS
    Calls,          \* the calls a model can issue
    Kind,           \* Kind[c]: what the tool of call c does
    Settings,       \* the settings a run may be started with
    MaxCancels,     \* bound: cancellations
    Faults          \* which exceptions a turn may raise

VARIABLES phase, st, rs, plans, at, cancels,
          watched,  \* the batch in hand was issued under the badge watch of j-space (history)
          worked,   \* a run so watched has worked or was handed over (history)
          handed    \* a delegation ran (history)
vars == <<phase, st, rs, plans, at, cancels, watched, worked, handed>>

Kinds == {"read", "search", "poll", "write", "ledger", "check", "delegate",
          "todos", "badge", "load", "rival", "cloud"}
ASSUME CallsAssumption == Kind \in [Calls -> Kinds]
ASSUME SettingsAssumption ==
    \A s \in Settings :
        /\ s.calls \subseteq Calls
        /\ {s.max_batch, s.guard_max, s.stall_after, s.delegate_after} \subseteq Nat

Phases == {"setup", "tick", "model", "gate", "record", "settle", "verify",
           "synthesis", "finish", "done", "lost"}

------------------------------------------------------------------------------
(* What a tool is, for the loop. *)

Delegates == {"delegate"}
WriteLike == {"write", "ledger"}
NoProduct == {"todos", "badge", "check"}
PollSafe == {"poll"}
ReadOnly == {"read", "search", "load", "rival", "cloud"}
Private == {"read", "delegate"}
StallHardStopOk == Delegates \cup {"todos", "badge", "write", "ledger"}

Is(c, kinds) == Kind[c] \in kinds

Errors == {"tool", "first", "wall", "declined", "invalid"}
None == [c \in Calls |-> 0]

RunState ==
    [status |-> "ok", iterations |-> 0, final_answer |-> "none",
     recent |-> None, similar |-> 0, guard_rejections |-> 0,
     repeat_fails |-> [c \in Calls |-> [e \in Errors |-> 0]],
     repeat_ok |-> None, wrap_up |-> FALSE, wrap_up_noted |-> FALSE,
     delegated |-> FALSE, delegate_verified |-> FALSE,
     delegate_refusals |-> 0, auto_delegated |-> FALSE, inline_writes |-> 0,
     stall_turns |-> 0, stall_rung |-> 0, stall_hard_stop |-> FALSE,
     checked |-> FALSE, badge_watch |-> "none", badged |-> FALSE,
     todos |-> FALSE, jspace_gate_open |-> FALSE, private_taint |-> FALSE,
     any_tool |-> FALSE, owes_check |-> FALSE, checked_now |-> FALSE,
     fired |-> {}, answer_bounces |-> 0, last_clean |-> "none",
     attempts |-> 0, passed |-> FALSE, sig |-> "none", count |-> 0]

Init ==
    /\ phase = "setup"
    /\ st \in Settings
    /\ rs = RunState
    /\ plans = <<>> /\ at = 0
    /\ cancels = 0
    /\ watched = FALSE /\ worked = FALSE /\ handed = FALSE

Go(p) == phase' = p
Keep == UNCHANGED <<st, cancels>>
Idle == UNCHANGED <<plans, at>>
Quiet == UNCHANGED <<watched, worked, handed>>

------------------------------------------------------------------------------
(* Before the first turn: the plan gate may run the architect and end the  *)
(* run without a turn.                                                     *)

EnterLoop ==
    /\ phase = "setup" /\ Go("tick")
    /\ UNCHANGED rs /\ Keep /\ Idle /\ Quiet

AutoArchitect(ok) ==
    /\ phase = "setup" /\ st.plan_gate
    /\ rs' = [rs EXCEPT !.status = IF ok THEN "ok" ELSE "error",
                        !.final_answer = IF ok THEN "plan" ELSE "none"]
    /\ Go("finish")
    /\ Keep /\ Idle /\ Quiet

------------------------------------------------------------------------------
(* The start of a turn: the budget, then the pre-turn guards. *)

Rungs == 3

Climb(r) ==
    LET fires == /\ st.stall_after # 0 /\ ~r.wrap_up /\ r.stall_rung < Rungs
                 /\ r.stall_turns >= st.stall_after * (r.stall_rung + 1)
        arms == r.stall_rung + 1 = Rungs /\ ~(r.delegated /\ r.delegate_verified)
    IN  IF fires
        THEN [r EXCEPT !.stall_rung = @ + 1, !.stall_hard_stop = @ \/ arms]
        ELSE r

NoteWrapUp(r) == [r EXCEPT !.wrap_up_noted = r.wrap_up]

MutCounted(r) == [r EXCEPT !.checked_now = FALSE]
Counted(r) == [r EXCEPT !.iterations = @ + 1, !.checked_now = FALSE]

\* 0 means no ceiling.
WithinIterations == st.max_iterations = 0 \/ rs.iterations < st.max_iterations

TurnStarts ==
    /\ phase = "tick"
    /\ WithinIterations
    /\ rs' = NoteWrapUp(Climb(Counted(rs)))
    /\ Go("model")
    /\ Keep /\ Idle /\ Quiet

OutOfIterations ==
    /\ phase = "tick"
    /\ ~WithinIterations
    /\ rs' = [Counted(rs) EXCEPT !.status = "budget_exceeded",
                                 !.final_answer = "partial"]
    /\ Go(IF rs.any_tool THEN "synthesis" ELSE "finish")
    /\ Keep /\ Idle /\ Quiet

OutOfBudget ==
    /\ phase = "tick" /\ "clock" \in Faults
    /\ WithinIterations
    /\ rs' = [Counted(rs) EXCEPT !.status = "budget_exceeded",
                                 !.final_answer = "partial"]
    /\ Go("finish")
    /\ Keep /\ Idle /\ Quiet

TurnStalls ==
    /\ phase = "model" /\ "stalled" \in Faults
    /\ rs' = [rs EXCEPT !.status = "stalled", !.final_answer = "partial"]
    /\ Go("finish")
    /\ Keep /\ Idle /\ Quiet

TurnRaises ==
    /\ phase = "model" /\ "error" \in Faults
    /\ rs' = [rs EXCEPT !.status = "error", !.final_answer = "partial"]
    /\ Go("finish")
    /\ Keep /\ Idle /\ Quiet

ContextOverflows ==
    /\ phase = "model" /\ "context" \in Faults
    /\ rs' = [rs EXCEPT !.status = "error", !.final_answer = "partial"]
    /\ Go(IF rs.any_tool THEN "synthesis" ELSE "finish")
    /\ Keep /\ Idle /\ Quiet

\* The one turn without tools after the iterations or the window ran out.  A
\* recovered context overflow ends as an ordinary answer.
Synthesize(ok) ==
    /\ phase = "synthesis"
    /\ rs' = IF ~ok THEN rs
             ELSE [rs EXCEPT !.final_answer = "synthesized",
                             !.status = IF @ = "error" THEN "ok" ELSE @]
    /\ Go("finish")
    /\ Keep /\ Idle /\ Quiet

------------------------------------------------------------------------------
(* A turn that issues calls.  Each call passes the dispatch gates in order *)
(* until one settles it.                                                   *)

Batches == UNION {[1..n -> st.calls] : n \in 1..st.max_batch}
Planned(b) == [i \in DOMAIN b |-> [call |-> b[i], verdict |-> "none",
                                   ok |-> FALSE, repeat |-> FALSE]]

IssueCalls(b) ==
    /\ phase = "model" /\ ~rs.wrap_up
    /\ rs' = [rs EXCEPT !.answer_bounces = 0, !.last_clean = "none"]
    /\ plans' = Planned(b) /\ at' = 1
    /\ watched' = (rs.badge_watch = "j-space")
    /\ Go("gate")
    /\ Keep /\ UNCHANGED <<worked, handed>>

StillCalling ==
    /\ phase = "model" /\ rs.wrap_up
    /\ rs' = [rs EXCEPT !.status = "stuck", !.final_answer = "partial"]
    /\ Go("finish")
    /\ Keep /\ Idle /\ Quiet

\* --- the harness delegates itself ---

CanHandOver(r) == /\ st.auto_delegate_after # 0
                  /\ ~r.auto_delegated /\ ~r.delegated /\ st.route

Unlatched(r) == /\ st.jspace_badge_gate /\ r.badge_watch = "j-space"
                /\ ~r.jspace_gate_open

CloseCeremony(r) ==
    IF Unlatched(r)
    THEN [r EXCEPT !.badged = TRUE, !.todos = TRUE, !.jspace_gate_open = TRUE]
    ELSE r

Salvages == {"ok", "verified"}

\* "skipped": no live route, or the wall clock is spent.  A hand-over bumps
\* the mutation generation before the batch's own accounting starts.  The
\* route is one for coding, whose answers owe a check.
HandOver(r, out) ==
    IF out = "skipped" THEN r
    ELSE IF out = "failed"
         THEN [CloseCeremony(r) EXCEPT !.auto_delegated = TRUE]
         ELSE [CloseCeremony(r) EXCEPT
                  !.auto_delegated = TRUE, !.delegated = TRUE,
                  !.stall_hard_stop = FALSE, !.stall_turns = 0,
                  !.recent = None, !.similar = 0, !.owes_check = TRUE,
                  !.delegate_verified = @ \/ out = "verified"]

Outcomes(r, tries) == IF tries /\ CanHandOver(r)
                      THEN {"skipped", "failed", "ok", "verified"}
                      ELSE {"skipped"}

Streak(r) == /\ st.auto_delegate_after # 0
             /\ r.delegate_refusals >= st.auto_delegate_after
Capped(r) == st.guard_max # 0 /\ r.guard_rejections >= st.guard_max

Rejected(r) == [r EXCEPT !.guard_rejections = @ + 1]
Pointed(r) == [r EXCEPT !.delegate_refusals = @ + 1]

\* A gate that refuses may hand the work over first; unless that succeeded,
\* it may turn the tools off for the next turn.
Escalated(r, tries, wraps, out) ==
    LET h == IF tries THEN HandOver(r, out) ELSE r
    IN  IF wraps /\ ~(tries /\ out \in Salvages)
        THEN [h EXCEPT !.wrap_up = TRUE] ELSE h

\* --- what each gate objects to ---

Call == plans[at].call

\* Not a tool's name, not this account's or this run's tool, or a tool that
\* is not loaded called as code; only the last refusal is not tallied.
Barred(c) == c \in st.barred

Stopped(c) == rs.stall_hard_stop /\ ~Is(c, StallHardStopOk)

Worst(c) == LET n == rs.repeat_fails[c]
            IN  CHOOSE e \in Errors : \A f \in Errors : n[f] <= n[e]
MutHopeless(c) == /\ st.hard_block_after # 0
                  /\ rs.repeat_fails[c]["wall"] >= st.hard_block_after
Hopeless(c) == /\ st.hard_block_after # 0
               /\ rs.repeat_fails[c][Worst(c)] >= st.hard_block_after

MutLatched(r) == IF Unlatched(r) /\ r.todos
                 THEN [r EXCEPT !.jspace_gate_open = TRUE] ELSE r
Latched(r) == IF Unlatched(r) /\ r.badged /\ r.todos
              THEN [r EXCEPT !.jspace_gate_open = TRUE] ELSE r
Works(c) == Is(c, (WriteLike \ {"ledger"}) \cup Delegates)
Unopened(c) == Unlatched(Latched(rs)) /\ Works(c)

StrengthClosed(c) == "strength" \in st.walls /\ ~rs.delegated /\ Is(c, WriteLike)
DispatchClosed(c) == "dispatch" \in st.walls /\ ~rs.delegated /\ Is(c, {"write"})
InlineClosed(c) == /\ "inline" \in st.walls /\ ~rs.delegated /\ st.route
                   /\ Is(c, WriteLike)
                   /\ rs.inline_writes + 1 >= st.delegate_after
Walled(c) == StrengthClosed(c) \/ DispatchClosed(c) \/ InlineClosed(c)

Duplicate(c) == ~Is(c, PollSafe) /\ rs.recent[c] >= 2
NearDuplicate(c) == Is(c, {"search"}) /\ rs.similar >= 2

Settle(r, verdict) ==
    /\ rs' = r
    /\ plans' = [plans EXCEPT ![at].verdict = verdict]
    /\ IF at = Len(plans) THEN Go("record") /\ at' = 1
                          ELSE Go("gate") /\ at' = at + 1
    /\ worked' = (worked \/ (watched /\ r.auto_delegated /\ ~rs.auto_delegated))
    /\ Keep /\ UNCHANGED <<watched, handed>>

BarredCall ==
    /\ phase = "gate" /\ Barred(Call)
    /\ \E verdict \in {"invalid", "refused"} : Settle(rs, verdict)

StallHardStop ==
    /\ phase = "gate" /\ ~Barred(Call) /\ Stopped(Call)
    /\ LET r == Pointed(Rejected(rs))
       IN  \E out \in Outcomes(r, Streak(r)) :
              Settle(Escalated(r, Streak(r), Capped(r) \/ Streak(r), out),
                     "refused")

RepeatErrorBlock ==
    /\ phase = "gate" /\ ~Barred(Call) /\ ~Stopped(Call) /\ Hopeless(Call)
    /\ LET points == Worst(Call) \in {"first", "wall"}
           r == IF points THEN Pointed(Rejected(rs)) ELSE Rejected(rs)
           tries == points /\ Streak(r)
       IN  \E out \in Outcomes(r, tries) :
              Settle(Escalated(r, tries, Capped(r), out), "refused")

Reached(c) == ~Barred(c) /\ ~Stopped(c) /\ ~Hopeless(c)

JspaceBadge ==
    /\ phase = "gate" /\ Reached(Call) /\ Unopened(Call)
    /\ LET r == Rejected(Latched(rs))
       IN  Settle(Escalated(r, FALSE, Capped(r), "skipped"), "refused")

Wall ==
    /\ phase = "gate" /\ Reached(Call) /\ ~Unopened(Call) /\ Walled(Call)
    /\ LET r == Pointed(Latched(rs))
       IN  \E out \in Outcomes(r, Streak(r)) :
              Settle(Escalated(r, Streak(r), FALSE, out),
                     IF rs.delegate_refusals = 0 THEN "first" ELSE "wall")

Past(c) == Reached(c) /\ ~Unopened(c) /\ ~Walled(c)
Parsed(c) == Past(c) /\ c \notin st.garbled

GarbledCall ==
    /\ phase = "gate" /\ Past(Call) /\ Call \in st.garbled
    /\ Settle(Latched(rs), "invalid")

\* The duplicate gate remembers a call before the near-duplicate gate sees it.
Remembered(r, c) ==
    IF Is(c, PollSafe) THEN r ELSE [r EXCEPT !.recent[c] = @ + 1]

DuplicateCall ==
    /\ phase = "gate" /\ Parsed(Call) /\ Duplicate(Call)
    /\ LET r == Rejected(Latched(rs))
       IN  \E out \in Outcomes(r, Capped(r)) :
              Settle(Escalated(r, Capped(r), Capped(r), out), "refused")

NearDuplicateCall ==
    /\ phase = "gate" /\ Parsed(Call) /\ ~Duplicate(Call) /\ NearDuplicate(Call)
    /\ LET r == Rejected(Remembered(Latched(rs), Call))
       IN  \E out \in Outcomes(r, Capped(r)) :
              Settle(Escalated(r, Capped(r), Capped(r), out), "refused")

Queried(r, c) == IF Is(c, {"search"}) THEN [r EXCEPT !.similar = @ + 1] ELSE r
Admitted(r, c) == Queried(Remembered(Latched(r), c), c)
Distinct(c) == Parsed(c) /\ ~Duplicate(c) /\ ~NearDuplicate(c)

\* A person is asked once: the privacy question covers the confirmation.
MustAsk(c) == Is(c, {"cloud"})

Ask(approved) ==
    /\ phase = "gate" /\ Distinct(Call) /\ MustAsk(Call)
    /\ Settle(Admitted(rs, Call), IF approved THEN "run" ELSE "declined")

Admit ==
    /\ phase = "gate" /\ Distinct(Call) /\ ~MustAsk(Call)
    /\ Settle(Admitted(rs, Call), "run")

------------------------------------------------------------------------------
(* The results of a batch, recorded in the order of the calls. *)

Bumps(c) == ~Is(c, ReadOnly \cup PollSafe)

Moved(r, c, ok) ==
    IF ok /\ Bumps(c) THEN [r EXCEPT !.recent = None, !.similar = 0] ELSE r

ErrorOf(verdict) == IF verdict = "run" THEN "tool" ELSE verdict

\* The loop guard's own refusals are counted elsewhere.
Tallied(r, c, verdict, ok) ==
    IF verdict = "refused" THEN r
    ELSE IF ok THEN [r EXCEPT !.repeat_fails[c] = [e \in Errors |-> 0],
                              !.repeat_ok[c] = IF @ = 2 THEN 2 ELSE @ + 1]
         ELSE [r EXCEPT !.repeat_fails[c][ErrorOf(verdict)] = @ + 1]

\* The badge, the plan, and the skill that was loaded last of those that ask
\* for a badge.
Opened(r, c, ok, plan) ==
    [r EXCEPT !.badged = @ \/ (ok /\ Is(c, {"badge"})),
              !.badge_watch = IF ok /\ Is(c, {"load"}) THEN "j-space"
                              ELSE IF ok /\ Is(c, {"rival"}) THEN "other" ELSE @,
              !.todos = IF ok /\ Is(c, {"todos"}) THEN plan ELSE @]

\* The post-tool guards see every plan, the refused ones too.
VerifyArm(r, c, ok, verified) ==
    [r EXCEPT
        !.any_tool = TRUE,
        !.delegated = @ \/ Is(c, Delegates),
        !.delegate_verified = @ \/ (Is(c, Delegates) /\ ok /\ verified),
        !.owes_check = IF Is(c, Delegates) THEN ~r.checked_now
                       ELSE @ /\ ~Is(c, {"check"}),
        !.checked_now = @ \/ Is(c, {"check"})]

InlineWrites(r, c, ok) ==
    IF ok /\ Is(c, WriteLike) /\ ~r.delegated /\ "inline" \in st.walls
    THEN [r EXCEPT !.inline_writes = IF @ < st.delegate_after THEN @ + 1 ELSE @]
    ELSE r

Tainted(r, c, verdict) ==
    [r EXCEPT !.private_taint = @ \/ (verdict = "run" /\ Is(c, Private))]

Result(ok, plan, verified) ==
    /\ phase = "record"
    /\ LET p == plans[at]  c == p.call
           a == Opened(Tallied(Moved(rs, c, ok), c, p.verdict, ok), c, ok, plan)
           b == InlineWrites(VerifyArm(a, c, ok, verified), c, ok)
       IN  /\ ok => p.verdict = "run"
           /\ plan => ok /\ Is(c, {"todos"})
           /\ verified => ok /\ Is(c, Delegates)
           /\ rs' = Tainted(b, c, p.verdict)
           /\ plans' = [plans EXCEPT ![at].ok = ok,
                            ![at].repeat = ok /\ rs'.repeat_ok[c] = 2]
           /\ worked' = (worked \/ (watched /\ p.verdict = "run" /\ Works(c)))
           /\ handed' = (handed \/ (p.verdict = "run" /\ Is(c, Delegates))
                                \/ rs.auto_delegated)
    /\ IF at = Len(plans) THEN Go("settle") /\ at' = 0
                          ELSE Go("record") /\ at' = at + 1
    /\ Keep /\ UNCHANGED watched

\* --- the stall ladder's account of the turn ---

All(P(_)) == \A i \in DOMAIN plans : P(plans[i])
Some(P(_)) == \E i \in DOMAIN plans : P(plans[i])

Progress(ended) ==
    LET bumped(p) == p.ok /\ Bumps(p.call)
        idle(p) == Is(p.call, NoProduct)
        same(p) == p.repeat \/ (ended /\ Is(p.call, PollSafe))
    IN  Some(bumped) /\ ~All(idle) /\ ~All(same)

Checks(p) == Is(p.call, {"check"})
FreshDiagnostic(new) ==
    LET fresh(p) == Checks(p) /\ p.ok /\ ~p.repeat
    IN  All(fresh) /\ rs.checked /\ new
FreshResearch ==
    LET fresh(p) == Is(p.call, {"search"}) /\ p.ok /\ ~p.repeat IN All(fresh)
Waiting(ended) ==
    LET polls(p) == Is(p.call, PollSafe) IN ~ended /\ All(polls)

\* `ended`: the job a poll asks about has ended; `new`: a check's result
\* differs from the one before.
SettleTurn(ended, new) ==
    /\ phase = "settle"
    /\ LET good(p) == Checks(p) /\ p.ok
           r == IF All(Checks) /\ Some(good) THEN [rs EXCEPT !.checked = TRUE] ELSE rs
       IN  rs' = IF st.stall_after = 0 THEN rs
                 ELSE IF Progress(ended)
                 THEN [r EXCEPT !.stall_turns = 0, !.stall_hard_stop = FALSE]
                 ELSE IF FreshDiagnostic(new) \/ FreshResearch \/ Waiting(ended)
                 THEN r
                 ELSE [r EXCEPT !.stall_turns = @ + 1]
    /\ plans' = <<>> /\ at' = 0
    /\ Go("tick")
    /\ Keep /\ Quiet

------------------------------------------------------------------------------
(* A turn that answers. *)

FinalGuards == <<"cap", "trunc", "empty", "markup", "requirements",
                 "deliverable", "verify_delegate", "just_reply", "procedure">>
ShapeGuards == {"cap", "trunc", "empty", "markup"}
Pin == 6                      \* the deliverable guard pins the answer

\* An answer's shape is named by the guard that objects to it; "good" is
\* well-formed.  `owed` is what the world still lacks.
Objects(guard, shape, owed) ==
    /\ guard \notin rs.fired
    /\ \/ guard = shape
       \/ guard \in owed
       \/ guard = "verify_delegate" /\ rs.owes_check
       \/ guard = "just_reply" /\ st.just_reply /\ ~rs.any_tool

Objectors(shape, owed) ==
    {i \in DOMAIN FinalGuards : Objects(FinalGuards[i], shape, owed)}
FirstObjector(shape, owed) ==
    LET o == Objectors(shape, owed)
    IN  IF o = {} THEN Len(FinalGuards) + 1
        ELSE CHOOSE i \in o : \A j \in o : i <= j

BounceCap == st.max_bounces # 0 /\ rs.answer_bounces >= st.max_bounces

Clean(first, shape) ==
    IF first \in DOMAIN FinalGuards /\ FinalGuards[first] \in ShapeGuards
    THEN rs.last_clean ELSE shape

Bounce(shape, owed) ==
    LET first == FirstObjector(shape, owed)
    IN  /\ phase = "model" /\ first \in DOMAIN FinalGuards /\ ~BounceCap
        /\ rs' = [rs EXCEPT
                     !.fired = @ \cup {FinalGuards[first]},
                     !.answer_bounces = @ + 1,
                     !.last_clean = Clean(first, shape),
                     !.final_answer = IF first >= Pin THEN shape ELSE @]
        /\ Go("tick")
        /\ Keep /\ Idle /\ Quiet

Fallback(first, shape) ==
    IF FinalGuards[first] \in ShapeGuards /\ rs.last_clean # "none"
    THEN rs.last_clean ELSE shape

MutOwesCheck == st.verify /\ rs.attempts = 0
OwesCheck == st.verify /\ ~rs.passed

Accept(shape, owed) ==
    LET first == FirstObjector(shape, owed)
        capped == first \in DOMAIN FinalGuards
    IN  /\ phase = "model" /\ (capped => BounceCap)
        /\ rs' = [rs EXCEPT
                     !.last_clean = IF capped THEN @ ELSE Clean(first, shape),
                     !.final_answer = IF capped THEN Fallback(first, shape) ELSE shape]
        /\ Go(IF OwesCheck THEN "verify" ELSE "finish")
        /\ Keep /\ Idle /\ Quiet

\* One execution of the check: a changed protected file and a vacuous pass
\* fail it, and a red that was there before the run passes one that is to be
\* green.
Green(tampered, exit, vacuous, sig) ==
    /\ ~tampered
    /\ ~(exit = 0 /\ vacuous)
    /\ exit = st.expected_exit \/ (st.expected_exit = 0 /\ st.pre_red /\ sig = "before")

CheckAnswer(tampered, exit, vacuous, sig) ==
    /\ phase = "verify"
    /\ LET same == sig = rs.sig
           count == IF same THEN rs.count + 1 ELSE 1
           gives_up == count >= st.verify_stall_after
                       \/ rs.attempts + 1 >= st.max_checks
       IN  IF Green(tampered, exit, vacuous, sig)
           THEN /\ rs' = [rs EXCEPT !.attempts = @ + 1, !.passed = TRUE]
                /\ Go("finish")
           ELSE /\ rs' = [rs EXCEPT !.attempts = @ + 1, !.sig = sig, !.count = count,
                              !.status = IF gives_up THEN "unverified" ELSE @,
                              !.final_answer = IF gives_up THEN "unverified" ELSE @]
                /\ Go(IF gives_up THEN "finish" ELSE "tick")
    /\ Keep /\ Idle /\ Quiet

------------------------------------------------------------------------------
(* The ends. *)

FinishRun ==
    /\ phase = "finish" /\ Go("done")
    /\ UNCHANGED rs /\ Keep /\ Idle /\ Quiet

\* A cancellation inside the turns is caught and finished; before them, in a
\* handler or in the finish itself it leaves run() at once.
Turns == {"tick", "model", "gate", "record", "settle", "verify"}

Cancel ==
    /\ phase \notin {"done", "lost"} /\ cancels < MaxCancels
    /\ cancels' = cancels + 1
    /\ IF phase \in Turns
       THEN Go("finish") /\ rs' = [rs EXCEPT !.status = "cancelled",
                                             !.final_answer = "partial"]
       ELSE Go("lost") /\ UNCHANGED rs
    /\ UNCHANGED st /\ Idle /\ Quiet

------------------------------------------------------------------------------
Sigs == {"before", "after"}

Boot == EnterLoop \/ \E ok \in BOOLEAN : AutoArchitect(ok)

Turn == \/ TurnStarts \/ OutOfIterations \/ OutOfBudget
        \/ TurnStalls \/ TurnRaises \/ ContextOverflows
        \/ \E ok \in BOOLEAN : Synthesize(ok)
        \/ \E b \in Batches : IssueCalls(b)
        \/ StillCalling

Dispatch == \/ BarredCall \/ GarbledCall
            \/ StallHardStop \/ RepeatErrorBlock \/ JspaceBadge \/ Wall
            \/ DuplicateCall \/ NearDuplicateCall
            \/ \E approved \in BOOLEAN : Ask(approved)
            \/ Admit

Settling == \/ \E ok, plan, verified \in BOOLEAN : Result(ok, plan, verified)
            \/ \E ended, new \in BOOLEAN : SettleTurn(ended, new)

Answer == \/ \E shape \in st.shapes, owed \in SUBSET st.owed :
                Bounce(shape, owed) \/ Accept(shape, owed)
          \/ \E tampered, vacuous \in BOOLEAN, exit \in {0, 1}, sig \in Sigs :
                CheckAnswer(tampered, exit, vacuous, sig)

Run == Boot \/ Turn \/ Dispatch \/ Settling \/ Answer \/ FinishRun
Next == Run \/ Cancel

Spec == Init /\ [][Next]_vars
\* A model turn is bounded by its time-outs, a question by the confirmation
\* time-out, a tool by the call time-out: a run that can go on goes on.
FairSpec == Spec /\ WF_vars(Run)

------------------------------------------------------------------------------
(* Properties. *)

\* The run state keeps its types.
TypeOK ==
    /\ phase \in Phases /\ st \in Settings
    /\ rs.iterations \in Nat /\ rs.guard_rejections \in Nat
    /\ rs.delegate_refusals \in Nat
    /\ rs.recent \in [Calls -> Nat] /\ rs.stall_rung \in 0..Rungs
    /\ rs.repeat_fails \in [Calls -> [Errors -> Nat]]
    /\ at \in 0..Len(plans)
    /\ watched \in BOOLEAN /\ worked \in BOOLEAN /\ handed \in BOOLEAN

\* Whatever the model does, a run with an iteration ceiling ends: neither the
\* bounces of the answer guards, nor the verifier's retries, nor refusals that
\* hand the work over keep the loop turning.
RunEnds == <>(phase \in {"done", "lost"})

\* Refusals end a run: past guard_max at most one hand-over is tried and the
\* tools go off, so the count exceeds the limit by the rest of a batch only.
RefusalsEnd == st.guard_max # 0 => rs.guard_rejections <= st.guard_max + st.max_batch

\* The same call fails with the same error at most hard_block_after times,
\* but for the calls of the batch in which it reaches that count.
RepeatsEnd ==
    st.hard_block_after # 0 =>
        \A c \in Calls, e \in Errors :
            rs.repeat_fails[c][e] < st.hard_block_after + st.max_batch

\* Once j-space is loaded nothing but its ledger is written, and nothing is
\* delegated, by the model or by the harness, before the run is badged: not by a
\* batch issued after the one that loaded it, nor while no other such skill was
\* loaded over it.
OpenersFirst == st.jspace_badge_gate /\ worked => rs.badged

(* Parts of the inductive invariant. *)

\* The run state keeps its fields; the batch is one of calls.
Fields(r) == DOMAIN r = DOMAIN RunState
Verdicts == {"none", "run", "refused"} \cup Errors
Plan == [call : Calls, verdict : Verdicts, ok : BOOLEAN, repeat : BOOLEAN]
Batch ==
    /\ plans \in Seq(Plan) /\ Len(plans) <= st.max_batch
    /\ at <= Len(plans) /\ (phase \in {"gate", "record"} => at >= 1)

\* The gate opens for a badge, and nothing of a batch that is watched passes it
\* to write or delegate before it is open; the watch stands while it is passed.
GateBadged(r) == r.jspace_gate_open => r.badged
PassedGate ==
    watched => \A i \in DOMAIN plans :
                   plans[i].verdict = "run" /\ Works(plans[i].call)
                       => rs.jspace_gate_open
Watching == phase = "gate" /\ watched => rs.badge_watch = "j-space"
Opening ==
    st.jspace_badge_gate => /\ GateBadged(rs) /\ PassedGate /\ Watching
                            /\ worked => rs.badged

\* What leads to an end without a check is not ok.
EndsChecked ==
    /\ phase = "synthesis" => rs.status # "ok"
    /\ phase \in {"finish", "done"} /\ rs.status = "ok" /\ st.verify
           => rs.passed \/ rs.final_answer \in {"plan", "synthesized"}

\* While the tools are on, at most the refusal that handed the work over
\* reached the limit.
Refused ==
    /\ ~rs.wrap_up => /\ rs.guard_rejections <= st.guard_max
                      /\ rs.guard_rejections = st.guard_max => rs.auto_delegated
    /\ phase = "gate" => rs.guard_rejections < st.guard_max + at
    /\ rs.guard_rejections <= st.guard_max + st.max_batch
RefusalsCounted == st.guard_max # 0 => Refused

IInv == TypeOK /\ Fields(rs) /\ Batch /\ Opening /\ EndsChecked /\ RefusalsCounted

\* A run that reports ok with a check to pass has passed it.
OkMeansVerified == phase = "done" /\ rs.status = "ok" /\ st.verify => rs.passed

\* The same where no plan gate ended the run and the window never ran out.
OkMeansVerifiedInLoop ==
    rs.final_answer \notin {"plan", "synthesized"} => OkMeansVerified

\* A run that was started is finished, however it is ended.
EveryExitFinishes == phase # "lost"

\* Behind a strength wall the first write follows a delegation that ran.
SpecialistFirst ==
    [][ phase = "record" /\ "strength" \in st.walls
        /\ plans[at].verdict = "run" /\ Is(plans[at].call, WriteLike)
        => handed \/ rs.auto_delegated ]_vars

\* After a hand-over that worked the run goes on with its tools.
HandoverContinues ==
    [][ ~rs.auto_delegated /\ rs'.auto_delegated /\ rs'.delegated
        /\ ~rs.delegated => ~rs'.wrap_up ]_vars

\* The fallback kept for a capped answer is well-formed.
CleanIsWellFormed == rs.last_clean \notin ShapeGuards

\* A delegated and verified run is not left stopped.
VerifiedNotStopped ==
    phase = "model" /\ rs.delegated /\ rs.delegate_verified => ~rs.stall_hard_stop
=============================================================================
