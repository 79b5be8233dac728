--------------------------- MODULE ScheduledWork ---------------------------
(***************************************************************************)
(* Scheduled prompts: the JSON schedule definitions (ScheduleStore), the    *)
(* durable work items, attempts and chat outbox in chats.db (WorkStore),    *)
(* and the single asyncio process that ticks, dispatches, delivers and      *)
(* recovers them (ScheduledRunner).                                         *)
(*                                                                          *)
(* One action is one durable commit (a SQLite transaction or an atomic JSON *)
(* replace) or one step at which a coroutine gives up the event loop.  A    *)
(* coroutine that does not await keeps the loop: `loop' holds the point it  *)
(* has reached, other coroutines wait, and only a crash can come between.   *)
(*                                                                          *)
(* An occurrence <<s, t>> is schedule s firing for time t, the unique       *)
(* occurrence_key.  An item has one attempt and an attempt has one run_id   *)
(* and at most one effect, so the three rows of an occurrence are one       *)
(* record.  Prompts, answers, excerpts, tokens, the schedule_runs history   *)
(* projection and the last_status, last_fired and fire_count display fields *)
(* are left out: no decision reads them.                                    *)
(***************************************************************************)
EXTENDS Integers, FiniteSets

CONSTANTS
    Schedules,        \* entries of schedules.json, numbered in file order
    Kind,             \* "once", "every" or "cron", for each schedule
    Every,            \* every_s, in clock units, for each schedule
    Observe,          \* schedules with mode "observe" (arXiv watches)
    Planted,          \* schedules an admin created for the owner
    MaxTime,          \* the clock stops here
    MaxPerTick,       \* tools.schedule.max_per_tick
    KeepPerSchedule,  \* _KEEP_PER_SCHEDULE
    MaxReady,         \* bound on spawned dispatchers when a tick starts
    MaxCrashes,       \* bound on process crashes
    MaxFaults,        \* bound on chat deliveries that raise
    MaxEscapes        \* bound on exceptions that leave an attempt running

ASSUME ConstantsAssumption ==
    /\ Schedules \subseteq Nat \ {0}
    /\ IsFiniteSet(Schedules)
    /\ Kind \in [Schedules -> {"once", "every", "cron"}]
    /\ Every \in [Schedules -> Nat]
    /\ Observe \subseteq {s \in Schedules : Kind[s] = "every" /\ Every[s] > 0}
    /\ Planted \subseteq Schedules
    /\ MaxTime \in Nat \ {0}
    /\ MaxPerTick \in Nat
    /\ KeepPerSchedule \in Nat \ {0}
    /\ MaxReady \in Nat \ {0}
    /\ MaxCrashes \in Nat
    /\ MaxFaults \in Nat
    /\ MaxEscapes \in Nat

VARIABLES
    clock,     \* time.time()
    sched,     \* schedules.json
    owner,     \* the account the schedules belong to
    work,      \* work_items, work_attempts and work_effects, per occurrence
    turns,     \* chat turns that carry the run_id of the occurrence
    up,        \* the web process is running
    loop,      \* the point reached by the coroutine that has the event loop
    batch,     \* the due snapshot the tick has still to process
    polling,   \* the tick is awaiting the arXiv fetch of its first entry
    ready,     \* dispatch_attempts tasks spawned and not yet resumed
    outbox,    \* the startup deliver_effects task is spawned, not yet resumed
    exec,      \* occurrences whose agent run a dispatcher is awaiting
    starts,    \* how often runtime.run was called (a history variable)
    crashes, faults, escapes   \* how many of each bound were used

durable == <<clock, sched, owner, work, turns>>
tasks == <<batch, polling, ready, outbox, exec>>
memory == <<up, loop, tasks>>
counters == <<crashes, faults, escapes>>
vars == <<durable, memory, starts, counters>>

Occurrences == Schedules \X (1..MaxTime)

Active == {"queued", "running", "delivering"}
Terminal == {"completed", "failed", "cancelled"}

NoRow == [item |-> "none", attempt |-> "none", launched |-> FALSE,
          effect |-> "none"]
QueuedRow == [NoRow EXCEPT !.item = "queued", !.attempt = "queued"]

Rows == [item : {"none", "interrupted"} \cup Active \cup Terminal,
         attempt : {"none", "queued", "running", "succeeded", "failed",
                    "interrupted", "cancelled"},
         launched : BOOLEAN,
         effect : {"none", "pending", "backoff", "applied"}]

Entries == [life : {"unborn", "live", "removed"}, enabled : BOOLEAN,
            manual : BOOLEAN, next : Nat, last : Nat]

Points == {"idle", "deliver", "ack", "due", "entries", "fire", "unqueue",
           "claim", "launch", "start", "cancelSource", "dropChats",
           "dropSchedules", "dropWork"}

\* The loop at a point that concerns no occurrence, or occurrence o; `then'
\* is where a call of deliver_effects returns to.
At(p) == [at |-> p, occ |-> <<0, 0>>, then |-> "idle"]
AtOcc(p, o) == [at |-> p, occ |-> o, then |-> "idle"]
Delivering(next) == [at |-> "deliver", occ |-> <<0, 0>>, then |-> next]

Idle == up /\ loop = At("idle")

TypeOK ==
    /\ clock \in 1..MaxTime
    /\ sched \in [Schedules -> Entries]
    /\ owner \in {"allowed", "revoked", "gone"}
    /\ work \in [Occurrences -> Rows]
    /\ turns \in [Occurrences -> Nat]
    /\ up \in BOOLEAN
    /\ loop \in [at : Points, occ : Nat \X Nat,
                 then : {"idle", "due", "claim"}]
    /\ (loop.at \in {"ack", "fire", "unqueue", "launch", "start"}
          => loop.occ \in Occurrences)
    /\ batch \subseteq Occurrences
    /\ polling \in BOOLEAN
    /\ ready \in Nat
    /\ outbox \in BOOLEAN
    /\ exec \subseteq Occurrences
    /\ starts \in [Occurrences -> Nat]
    /\ crashes \in 0..MaxCrashes
    /\ faults \in 0..MaxFaults
    /\ escapes \in 0..MaxEscapes

Init ==
    /\ clock = 1
    /\ sched = [s \in Schedules |->
                  [life |-> "unborn", enabled |-> FALSE, manual |-> FALSE,
                   next |-> 0, last |-> 0]]
    /\ owner = "allowed"
    /\ work = [o \in Occurrences |-> NoRow]
    /\ turns = [o \in Occurrences |-> 0]
    /\ up = TRUE
    /\ loop = At("idle")
    /\ batch = {}
    /\ polling = FALSE
    /\ ready = 0
    /\ outbox = FALSE
    /\ exec = {}
    /\ starts = [o \in Occurrences |-> 0]
    /\ crashes = 0 /\ faults = 0 /\ escapes = 0

-----------------------------------------------------------------------------
(* What the store transactions do to the rows.                              *)

\* _prune: of each source in S keep the newest KeepPerSchedule terminal items.
\* Items of a schedule are created in the order of their occurrence times.
\* (Mutant: ORDER BY created_at without DESC keeps the oldest.)
MutNewerTerminal(w, o) ==
    {p \in Occurrences : p[1] = o[1] /\ p[2] < o[2] /\ w[p].item \in Terminal}
NewerTerminal(w, o) ==
    {p \in Occurrences : p[1] = o[1] /\ p[2] > o[2] /\ w[p].item \in Terminal}
Pruned(w, S) ==
    [o \in Occurrences |->
       IF /\ o[1] \in S
          /\ w[o].item \in Terminal
          /\ Cardinality(NewerTerminal(w, o)) >= KeepPerSchedule
       THEN NoRow ELSE w[o]]

\* finish_attempt: a no-op unless the attempt is running.
Ended(r, ok, deliver) ==
    [item     |-> IF deliver THEN "delivering"
                  ELSE IF ok THEN "completed" ELSE "failed",
     attempt  |-> IF ok THEN "succeeded" ELSE "failed",
     launched |-> r.launched,
     effect   |-> IF deliver THEN "pending" ELSE "none"]
Finished(o, ok, deliver) ==
    IF work[o].attempt # "running" THEN work
    ELSE Pruned([work EXCEPT ![o] = Ended(@, ok, deliver)], {o[1]})

\* _cancel: queued items in O whose attempt is queued are cancelled.
Cancelled(O) ==
    LET hit == {o \in O : work[o].item = "queued" /\ work[o].attempt = "queued"}
    IN  Pruned([o \in Occurrences |->
                  IF o \in hit
                  THEN [work[o] EXCEPT !.item = "cancelled",
                                       !.attempt = "cancelled"]
                  ELSE work[o]],
               {o[1] : o \in hit})

\* recover: claims that were never launched are queued again, launched ones
\* are interrupted, and a delivery with nothing left to apply is closed.
Interrupted(o) == work[o].attempt = "running" /\ work[o].launched
\* Mutants: launched work is replayed; pre-launch claims are left alone.
MutReconciledReplays(o) ==
    IF work[o].attempt # "running" THEN work[o] ELSE QueuedRow
MutReconciledForgets(o) ==
    IF Interrupted(o)
    THEN [work[o] EXCEPT !.item = "interrupted", !.attempt = "interrupted"]
    ELSE work[o]
Reconciled(o) ==
    IF work[o].attempt # "running" THEN work[o]
    ELSE IF work[o].launched
    THEN [work[o] EXCEPT !.item = "interrupted", !.attempt = "interrupted"]
    ELSE [work[o] EXCEPT !.item = "queued", !.attempt = "queued"]
Closed(r) ==
    IF r.item = "delivering" /\ r.effect \notin {"pending", "backoff"}
    THEN [r EXCEPT !.item = IF r.attempt = "succeeded" THEN "completed"
                                                       ELSE "failed"]
    ELSE r
Recovered ==
    LET kept == Pruned([o \in Occurrences |-> Reconciled(o)],
                       {o[1] : o \in {p \in Occurrences : Interrupted(p)}})
    IN  [o \in Occurrences |-> Closed(kept[o])]

-----------------------------------------------------------------------------
(* The schedule definitions.                                                *)

Revoked(s) == owner = "revoked" /\ s \notin Planted
Due(s) ==
    /\ sched[s].life = "live" /\ sched[s].enabled
    /\ sched[s].next # 0 /\ sched[s].next <= clock

\* The compare-and-set of mark_fired against the due snapshot.
\* (Mutant: the enabled flag is not part of the comparison.)
MutStillExpected(o) ==
    LET e == sched[o[1]] IN e.life = "live" /\ e.next = o[2]
StillExpected(o) ==
    LET e == sched[o[1]] IN e.life = "live" /\ e.enabled /\ e.next = o[2]

\* mark_fired: "every" moves to the first multiple of the interval after now,
\* "cron" to some later time or, without one, off; anything else is consumed.
\* (Mutant: last_occurrence is recorded but next_fire is not moved.)
MutFiredEntries(s) == {[sched[s] EXCEPT !.last = sched[s].next]}
FiredEntries(s) ==
    LET e == [sched[s] EXCEPT !.last = sched[s].next]
        off == {[e EXCEPT !.enabled = FALSE]}
    IN  IF Kind[s] = "every" /\ Every[s] > 0
        THEN {[e EXCEPT !.next = t] :
                t \in {u \in (clock + 1)..(clock + Every[s]) :
                         (u - e.next) % Every[s] = 0}}
        ELSE IF Kind[s] = "cron"
        THEN off \cup {[e EXCEPT !.next = t] : t \in (clock + 1)..(MaxTime + 1)}
        ELSE off

\* The first next_fire a new entry may be given.
FirstFires(s) ==
    IF Kind[s] = "every" THEN {clock + Every[s]}
    ELSE IF Kind[s] = "cron" THEN (clock + 1)..(MaxTime + 1)
    ELSE 1..MaxTime

\* schedule.add and POST /api/admin/schedules; only the latter may create a
\* disabled entry.
AddSchedule(s) ==
    /\ Idle
    /\ sched[s].life = "unborn"
    /\ owner # "gone"
    /\ s \in Planted \/ owner = "allowed"
    /\ \E t \in FirstFires(s), on \in BOOLEAN :
         /\ on \/ s \in Planted
         /\ sched' = [sched EXCEPT ![s] =
                        [life |-> "live", enabled |-> on, manual |-> FALSE,
                         next |-> t, last |-> 0]]
    /\ UNCHANGED <<clock, owner, work, turns, memory, starts, counters>>

\* PUT /api/admin/schedules/{sid} with enabled = true.
Resume(s) ==
    /\ Idle
    /\ sched[s].life = "live"
    /\ sched' = [sched EXCEPT ![s] = [@ EXCEPT !.enabled = TRUE,
                                               !.manual = FALSE]]
    /\ UNCHANGED <<clock, owner, work, turns, memory, starts, counters>>

\* The same with enabled = false; the queued work is cancelled next.
Pause(s) ==
    /\ Idle
    /\ sched[s].life = "live"
    /\ sched' = [sched EXCEPT ![s] = [@ EXCEPT !.enabled = FALSE,
                                               !.manual = TRUE]]
    /\ loop' = AtOcc("cancelSource", <<s, 0>>)
    /\ UNCHANGED <<clock, owner, work, turns, up, tasks, starts, counters>>

\* schedule.remove and DELETE /api/admin/schedules/{sid}.
Remove(s) ==
    /\ Idle
    /\ sched[s].life = "live"
    /\ sched' = [sched EXCEPT ![s] = [@ EXCEPT !.life = "removed"]]
    /\ loop' = AtOcc("cancelSource", <<s, 0>>)
    /\ UNCHANGED <<clock, owner, work, turns, up, tasks, starts, counters>>

\* cancel_source, the second commit of a pause or a removal.
CancelSource ==
    /\ up /\ loop.at = "cancelSource"
    /\ work' = Cancelled({o \in Occurrences : o[1] = loop.occ[1]})
    /\ loop' = At("idle")
    /\ UNCHANGED <<clock, sched, owner, turns, up, tasks, starts, counters>>

\* set_schedules_allowed.
SetAllowed ==
    /\ Idle
    /\ \/ owner = "allowed" /\ owner' = "revoked"
       \/ owner = "revoked" /\ owner' = "allowed"
    /\ UNCHANGED <<clock, sched, work, turns, memory, starts, counters>>

\* DELETE of the account: the user row, the chats, the schedules and the work
\* rows go in this order, each in a store of its own.
DeleteUser ==
    /\ Idle
    /\ owner # "gone"
    /\ owner' = "gone"
    /\ loop' = At("dropChats")
    /\ UNCHANGED <<clock, sched, work, turns, up, tasks, starts, counters>>

DropChats ==
    /\ up /\ loop.at = "dropChats"
    /\ turns' = [o \in Occurrences |-> 0]
    /\ loop' = At("dropSchedules")
    /\ UNCHANGED <<clock, sched, owner, work, up, tasks, starts, counters>>

DropSchedules ==
    /\ up /\ loop.at = "dropSchedules"
    /\ sched' = [s \in Schedules |->
                   IF sched[s].life = "live"
                   THEN [sched[s] EXCEPT !.life = "removed"] ELSE sched[s]]
    /\ loop' = At("dropWork")
    /\ UNCHANGED <<clock, owner, work, turns, up, tasks, starts, counters>>

DropWork ==
    /\ up /\ loop.at = "dropWork"
    /\ work' = [o \in Occurrences |-> NoRow]
    /\ loop' = At("idle")
    /\ UNCHANGED <<clock, sched, owner, turns, up, tasks, starts, counters>>

-----------------------------------------------------------------------------
(* tick.                                                                    *)

\* The tick sleeps tick_s between two rounds, and spawned dispatchers resume
\* at once: few of them wait when a tick starts.
StartTick ==
    /\ Idle
    /\ ~polling
    /\ ready < MaxReady
    /\ loop' = Delivering("due")
    /\ UNCHANGED <<durable, up, tasks, starts, counters>>

\* The due snapshot: the first max_per_tick due entries in file order, less
\* those _drop_revoked disables.
TakeDue ==
    /\ up /\ loop.at = "due"
    /\ LET first == {s \in Schedules :
                       /\ Due(s)
                       /\ Cardinality({r \in Schedules : Due(r) /\ r < s})
                            < MaxPerTick}
           dropped == {s \in first : Revoked(s)}
       IN  /\ batch' = {<<s, sched[s].next>> : s \in first \ dropped}
           /\ sched' = [s \in Schedules |->
                          IF s \in dropped
                          THEN [sched[s] EXCEPT !.enabled = FALSE,
                                                !.manual = TRUE]
                          ELSE sched[s]]
    /\ loop' = At("entries")
    /\ UNCHANGED <<clock, owner, work, turns, up, polling, ready, outbox,
                   exec, starts, counters>>

\* The entry the tick processes next.
FirstEntry(o) == o \in batch /\ \A p \in batch : o[1] <= p[1]
\* (Mutant: only queued items count as active.)
MutOtherActive(o) ==
    \E p \in Occurrences : p[1] = o[1] /\ work[p].item = "queued"
OtherActive(o) ==
    \E p \in Occurrences : p[1] = o[1] /\ work[p].item \in Active

\* enqueue_occurrence: existing, active or enqueued, in one transaction.
EnqueueOccurrence(o) ==
    /\ up /\ loop.at = "entries"
    /\ FirstEntry(o)
    /\ o[1] \notin Observe
    /\ \/ /\ work[o].item # "none"
          /\ loop' = AtOcc("fire", o)
          /\ UNCHANGED <<work, batch>>
       \/ /\ work[o].item = "none"
          /\ OtherActive(o)
          /\ batch' = batch \ {o}
          /\ UNCHANGED <<work, loop>>
       \/ /\ work[o].item = "none"
          /\ ~OtherActive(o)
          /\ work' = [work EXCEPT ![o] = QueuedRow]
          /\ loop' = AtOcc("fire", o)
          /\ UNCHANGED batch
    /\ UNCHANGED <<clock, sched, owner, turns, up, polling, ready, outbox,
                   exec, starts, counters>>

\* mark_fired advances the recurrence and a dispatcher is spawned ...
MarkFired ==
    /\ up /\ loop.at = "fire"
    /\ StillExpected(loop.occ)
    /\ \E e \in FiredEntries(loop.occ[1]) :
         sched' = [sched EXCEPT ![loop.occ[1]] = e]
    /\ ready' = ready + 1
    /\ batch' = batch \ {loop.occ}
    /\ loop' = At("entries")
    /\ UNCHANGED <<clock, owner, work, turns, up, polling, outbox, exec,
                   starts, counters>>

\* ... or the schedule changed since the snapshot and the item is cancelled.
MarkFiredRefused ==
    /\ up /\ loop.at = "fire"
    /\ ~StillExpected(loop.occ)
    /\ loop' = AtOcc("unqueue", loop.occ)
    /\ UNCHANGED <<durable, up, tasks, starts, counters>>

CancelOccurrence ==
    /\ up /\ loop.at = "unqueue"
    /\ work' = Cancelled({loop.occ})
    /\ batch' = batch \ {loop.occ}
    /\ loop' = At("entries")
    /\ UNCHANGED <<clock, sched, owner, turns, up, polling, ready, outbox,
                   exec, starts, counters>>

\* An observe entry: ArxivObserver.poll awaits the fetch and frees the loop ...
BeginPoll ==
    /\ up /\ loop.at = "entries"
    /\ \E o \in batch : FirstEntry(o) /\ o[1] \in Observe
    /\ polling' = TRUE
    /\ loop' = At("idle")
    /\ UNCHANGED <<durable, up, batch, ready, outbox, exec, starts, counters>>

\* ... and the recurrence advances if the entry is still the one polled.
EndPoll(o) ==
    /\ Idle
    /\ polling
    /\ FirstEntry(o)
    /\ \/ /\ StillExpected(o)
          /\ \E e \in FiredEntries(o[1]) :
               sched' = [sched EXCEPT ![o[1]] = e]
       \/ ~StillExpected(o) /\ UNCHANGED sched
    /\ batch' = batch \ {o}
    /\ polling' = FALSE
    /\ loop' = At("entries")
    /\ UNCHANGED <<clock, owner, work, turns, up, ready, outbox, exec, starts,
                   counters>>

EndTick ==
    /\ up /\ loop.at = "entries"
    /\ batch = {}
    /\ loop' = At("idle")
    /\ UNCHANGED <<durable, up, tasks, starts, counters>>

-----------------------------------------------------------------------------
(* deliver_effects: the chat outbox.                                        *)

StartOutbox ==
    /\ Idle
    /\ outbox
    /\ outbox' = FALSE
    /\ loop' = Delivering("idle")
    /\ UNCHANGED <<durable, up, batch, polling, ready, exec, starts, counters>>

\* Mutant: the run_id is not looked up before the insert.
MutAppended(o) == [turns EXCEPT ![o] = @ + 1]
Appended(o) == [turns EXCEPT ![o] = IF @ = 0 THEN 1 ELSE @]

\* append_scheduled_turn: a no-op when the chat already holds the run_id.
AppendTurn(o) ==
    /\ up /\ loop.at = "deliver"
    /\ work[o].effect = "pending"
    /\ turns' = Appended(o)
    /\ loop' = [at |-> "ack", occ |-> o, then |-> loop.then]
    /\ UNCHANGED <<clock, sched, owner, work, up, tasks, starts, counters>>

\* mark_effect_applied: the effect and the item become final together.
AckEffect ==
    /\ up /\ loop.at = "ack"
    /\ LET o == loop.occ
           r == work[o]
       IN  work' = IF r.effect \in {"none", "applied"} THEN work
                   ELSE [work EXCEPT ![o] = Closed([r EXCEPT !.effect = "applied"])]
    /\ loop' = Delivering(loop.then)
    /\ UNCHANGED <<clock, sched, owner, turns, up, tasks, starts, counters>>

\* The append or the acknowledgement raises: mark_effect_failed, and return.
DeliveryFails(o) ==
    /\ up /\ loop.at \in {"deliver", "ack"}
    /\ faults < MaxFaults
    /\ faults' = faults + 1
    /\ work[o].effect = "pending"
    /\ loop.at = "ack" => o = loop.occ
    /\ work' = [work EXCEPT ![o] = [@ EXCEPT !.effect = "backoff"]]
    /\ loop' = At(loop.then)
    /\ UNCHANGED <<clock, sched, owner, turns, up, tasks, starts, crashes,
                   escapes>>

\* next_effect finds nothing due.
DeliveryDone ==
    /\ up /\ loop.at = "deliver"
    /\ \A o \in Occurrences : work[o].effect # "pending"
    /\ loop' = At(loop.then)
    /\ UNCHANGED <<durable, up, tasks, starts, counters>>

\* next_attempt_at passes.
BackoffExpires(o) ==
    /\ work[o].effect = "backoff"
    /\ work' = [work EXCEPT ![o] = [@ EXCEPT !.effect = "pending"]]
    /\ UNCHANGED <<clock, sched, owner, turns, memory, starts, counters>>

-----------------------------------------------------------------------------
(* dispatch_attempts and execute_work.                                      *)

\* (Mutant: a dispatcher that was never spawned runs.)
MutStartDispatcher ==
    /\ Idle
    /\ ready' = ready - 1
    /\ loop' = At("claim")
    /\ UNCHANGED <<durable, up, batch, polling, outbox, exec, starts,
                   counters>>
StartDispatcher ==
    /\ Idle
    /\ ready > 0
    /\ ready' = ready - 1
    /\ loop' = At("claim")
    /\ UNCHANGED <<durable, up, batch, polling, outbox, exec, starts,
                   counters>>

Queued(o) == work[o].item = "queued" /\ work[o].attempt = "queued"

\* claim_next: the queued attempt with the earliest scheduled_for.
Claim(o) ==
    /\ up /\ loop.at = "claim"
    /\ Queued(o)
    /\ \A p \in Occurrences : Queued(p) => o[2] <= p[2]
    /\ work' = [work EXCEPT ![o] = [@ EXCEPT !.item = "running",
                                             !.attempt = "running"]]
    /\ loop' = AtOcc("launch", o)
    /\ UNCHANGED <<clock, sched, owner, turns, up, tasks, starts, counters>>

NothingToClaim ==
    /\ up /\ loop.at = "claim"
    /\ \A o \in Occurrences : ~Queued(o)
    /\ loop' = At("idle")
    /\ UNCHANGED <<durable, up, tasks, starts, counters>>

\* validate_work: stored work grants no authority.
\* (Mutant: the consumed one-shot is compared with next_fire moved on.)
MutConsumedOnce(o) == Kind[o[1]] = "once" /\ sched[o[1]].last < o[2]
ConsumedOnce(o) == Kind[o[1]] = "once" /\ sched[o[1]].last = o[2]
Problem(o) ==
    LET e == sched[o[1]]
    IN  \/ owner = "gone"
        \/ e.life # "live"
        \/ e.manual
        \/ ~e.enabled /\ ~ConsumedOnce(o)
        \/ Revoked(o[1])

Refuse ==
    /\ up /\ loop.at = "launch"
    /\ Problem(loop.occ)
    /\ work' = Finished(loop.occ, FALSE, FALSE)
    /\ loop' = At("claim")
    /\ UNCHANGED <<clock, sched, owner, turns, up, tasks, starts, counters>>

\* mark_launched commits just before the run; an attempt that is not running
\* or was launched before makes execute_work return.
MarkLaunched ==
    /\ up /\ loop.at = "launch"
    /\ LET o == loop.occ
           ok == work[o].attempt = "running" /\ ~work[o].launched
       IN  /\ ~Problem(o)
           /\ \/ /\ ok
                 /\ work' = [work EXCEPT ![o] = [@ EXCEPT !.launched = TRUE]]
                 /\ loop' = AtOcc("start", o)
              \/ ~ok /\ loop' = At("claim") /\ UNCHANGED work
    /\ UNCHANGED <<clock, sched, owner, turns, up, tasks, starts, counters>>

\* runtime.run becomes a task and the dispatcher awaits it.
StartRun ==
    /\ up /\ loop.at = "start"
    /\ starts' = [starts EXCEPT ![loop.occ] = @ + 1]
    /\ exec' = exec \cup {loop.occ}
    /\ loop' = At("idle")
    /\ UNCHANGED <<durable, up, batch, polling, ready, outbox, counters>>

\* An exception before mark_launched is only printed by dispatch_attempts.
ExecuteRaises ==
    /\ up /\ loop.at = "launch"
    /\ escapes < MaxEscapes
    /\ escapes' = escapes + 1
    /\ loop' = At("claim")
    /\ UNCHANGED <<durable, up, tasks, starts, crashes, faults>>

\* runtime.run returns; error and failed are failures, every other status
\* counts as success; both are delivered.
RunEnds(o) ==
    /\ Idle
    /\ o \in exec
    /\ \E ok \in BOOLEAN : work' = Finished(o, ok, TRUE)
    /\ exec' = exec \ {o}
    /\ loop' = Delivering("claim")
    /\ UNCHANGED <<clock, sched, owner, turns, up, batch, polling, ready,
                   outbox, starts, counters>>

\* runtime.run raises: a failure that is not delivered.
RunRaises(o) ==
    /\ Idle
    /\ o \in exec
    /\ work' = Finished(o, FALSE, FALSE)
    /\ exec' = exec \ {o}
    /\ loop' = At("claim")
    /\ UNCHANGED <<clock, sched, owner, turns, up, batch, polling, ready,
                   outbox, starts, counters>>

\* CancelledError leaves runtime.run: no `except Exception' sees it, and the
\* dispatcher task ends with the attempt still running.
CancelEscapes(o) ==
    /\ Idle
    /\ o \in exec
    /\ escapes < MaxEscapes
    /\ escapes' = escapes + 1
    /\ exec' = exec \ {o}
    /\ UNCHANGED <<durable, up, loop, batch, polling, ready, outbox, starts,
                   crashes, faults>>

-----------------------------------------------------------------------------
(* The process and the clock.                                               *)

Crash ==
    /\ up
    /\ crashes < MaxCrashes
    /\ crashes' = crashes + 1
    /\ up' = FALSE
    /\ loop' = At("idle")
    /\ batch' = {}
    /\ polling' = FALSE
    /\ ready' = 0
    /\ outbox' = FALSE
    /\ exec' = {}
    /\ UNCHANGED <<durable, starts, faults, escapes>>

\* ScheduledRunner.start: recover, then spawn the outbox and one dispatcher.
Restart ==
    /\ ~up
    /\ up' = TRUE
    /\ work' = Recovered
    /\ outbox' = TRUE
    /\ ready' = 1
    /\ UNCHANGED <<clock, sched, owner, turns, loop, batch, polling, exec,
                   starts, counters>>

TimePasses ==
    /\ clock < MaxTime
    /\ clock' = clock + 1
    /\ UNCHANGED <<sched, owner, work, turns, memory, starts, counters>>

-----------------------------------------------------------------------------
Admin(s) == AddSchedule(s) \/ Resume(s) \/ Pause(s) \/ Remove(s)
Account == SetAllowed \/ DeleteUser
Cleanup == CancelSource \/ DropChats \/ DropSchedules \/ DropWork
TickStep == TakeDue \/ (\E o \in Occurrences : EnqueueOccurrence(o))
              \/ MarkFired \/ MarkFiredRefused \/ CancelOccurrence
              \/ BeginPoll \/ EndTick
DeliveryStep == (\E o \in Occurrences : AppendTurn(o)) \/ AckEffect \/ DeliveryDone
DispatchStep == (\E o \in Occurrences : Claim(o)) \/ NothingToClaim \/ Refuse
                  \/ MarkLaunched \/ StartRun

\* What the coroutine that has the event loop does next.
LoopStep == Cleanup \/ TickStep \/ DeliveryStep \/ DispatchStep

Next ==
    \/ \E s \in Schedules : Admin(s)
    \/ Account
    \/ LoopStep
    \/ StartTick \/ StartOutbox \/ StartDispatcher
    \/ \E o \in Occurrences :
         \/ EndPoll(o) \/ RunEnds(o) \/ RunRaises(o) \/ CancelEscapes(o)
         \/ DeliveryFails(o) \/ BackoffExpires(o)
    \/ ExecuteRaises
    \/ Crash \/ Restart \/ TimePasses

Spec == Init /\ [][Next]_vars

\* asyncio resumes a ready task after finitely many others, so a task that is
\* ready again and again is resumed (SF); a coroutine that has the loop runs
\* on to its next await (WF); agent runs end, their budgets bound them; the
\* service manager restarts the process.
Fairness ==
    /\ WF_vars(LoopStep)
    /\ SF_vars(StartTick) /\ SF_vars(\E o \in Occurrences : EndPoll(o))
    /\ SF_vars(StartOutbox) /\ SF_vars(StartDispatcher)
    /\ \A o \in Occurrences : SF_vars(RunEnds(o) \/ RunRaises(o))
    /\ \A o \in Occurrences : WF_vars(BackoffExpires(o))
    /\ WF_vars(Restart)

FairSpec == Spec /\ Fairness

-----------------------------------------------------------------------------
(* Correctness.                                                             *)

\* An occurrence starts at most one agent run, whatever crashes, re-enqueues,
\* prunes or resumes come between: launched work is interrupted by recover,
\* never replayed, and the unique occurrence_key outlives the run.
AtMostOneStart == \A o \in Occurrences : starts[o] <= 1

\* A schedule never has two unfinished items (the durable no-overlap guard of
\* enqueue_occurrence), through recovery and re-queueing.
NoOverlap ==
    \A o, p \in Occurrences :
        o[1] = p[1] /\ work[o].item \in Active /\ work[p].item \in Active
            => o = p

\* ... and its agent runs in memory do not overlap either, although a running
\* item can be deleted with the account while its run goes on.
NoConcurrentRuns == \A o, p \in exec : o[1] = p[1] => o = p

\* The report of a run is posted at most once, and an item is completed only
\* with its report in the chat: a crash between append_scheduled_turn and
\* mark_effect_applied neither loses nor repeats it.
ReportPostedOnce ==
    \A o \in Occurrences :
        /\ turns[o] <= 1
        /\ work[o].item = "completed" /\ owner # "gone" => turns[o] = 1

\* The recurrence is advanced only past occurrences that are durably queued:
\* no crash consumes a firing without a work item.  (The retention of old
\* items may have replaced the row by that of a later occurrence.)
FiredWasQueued ==
    \A s \in Schedules \ Observe :
        sched[s].last # 0 /\ owner # "gone" =>
            \E o \in Occurrences :
                o[1] = s /\ o[2] >= sched[s].last /\ work[o].item # "none"

\* While the process runs, an attempt marked running has a coroutine behind it
\* (a dispatcher launching it or awaiting its run), unless an exception or a
\* cancellation escaped execute_work: nothing else strands an attempt.
NoStrandedAttempt ==
    up /\ escapes = 0 =>
        \A o \in Occurrences :
            work[o].attempt = "running" =>
                \/ o \in exec
                \/ loop.at \in {"launch", "start"} /\ loop.occ = o

\* mark_fired switches a one-shot off before its run is dispatched; the
\* dispatcher never mistakes this for a pause and refuses the run.
OneShotIsNotPaused ==
    [][\A o \in Occurrences :
         /\ Kind[o[1]] = "once"
         /\ loop.at = "launch" /\ loop.occ = o
         /\ work[o].attempt = "running" /\ work'[o].attempt = "failed"
         => \/ sched[o[1]].life = "removed" \/ sched[o[1]].manual
            \/ owner # "allowed"]_vars

\* A schedule that was paused, deleted or disabled while the tick held its
\* snapshot (during an arXiv fetch) keeps its next_fire.
OnlyEnabledAdvances ==
    [][\A s \in Schedules :
         sched[s].life # "unborn" /\ sched'[s].next # sched[s].next
             => sched[s].life = "live" /\ sched[s].enabled]_vars

\* Queued work is run, refused or cancelled in the end (without escapes).
QueuedWorkResolves ==
    \A o \in Occurrences :
        work[o].item = "queued" ~> work[o].item \notin {"queued", "running"}

\* A due prompt of an unblocked schedule list leaves the due list: it is
\* queued and advanced, or switched off (when max_per_tick covers the entries
\* and nothing escapes).
DueFires ==
    \A s \in Schedules : Due(s) ~> ~Due(s)

\* The abstract promise this module implements: one start, one post.
Promise ==
    INSTANCE OccurrenceReports WITH
        reported <- {o \in Occurrences : work[o].effect \in {"pending", "backoff"}},
        gone <- owner = "gone"
PromiseKept == Promise!Spec
PromiseKeptFairly == Promise!FairSpec

-----------------------------------------------------------------------------
(* The inductive invariant behind the theorems of ScheduledWorkProofs.       *)

\* Item, attempt and effect of one occurrence move together.
RowOK(r) ==
    /\ r.item \in {"none", "queued"} =>
         r.attempt = r.item /\ ~r.launched /\ r.effect = "none"
    /\ r.attempt = "queued" => r.item = "queued"
    /\ r.item = "running" <=> r.attempt = "running"
    /\ r.item = "delivering" <=> r.effect \in {"pending", "backoff"}
    /\ r.item = "completed" => r.effect = "applied"
    /\ r.effect = "applied" => r.item \in {"completed", "failed"}
RowsOK == \A o \in Occurrences : RowOK(work[o])

\* Occurrences are queued in the order of time, up to the next one.
RowsNotAhead ==
    /\ \A o \in Occurrences : work[o].item # "none" => o[2] <= sched[o[1]].next
    /\ \A s \in Schedules : sched[s].life = "unborn" => sched[s].next = 0

\* The tick's snapshot stays current: nothing else moves next_fire.
BatchCurrent ==
    /\ \A o \in batch : sched[o[1]].next = o[2] /\ o[2] <= clock
    /\ loop.at \in {"fire", "unqueue"} => loop.occ \in batch

\* A process that is down holds nothing, and only an account deletion reaches
\* the drop points.
HoldsNothing ==
    /\ ~up => loop = At("idle") /\ batch = {} /\ exec = {} /\ ~polling
    /\ loop.at \in {"dropChats", "dropSchedules", "dropWork"} => owner = "gone"

\* A started occurrence keeps its launched mark until its row is pruned, and
\* by then the recurrence has moved past it.
StartsAccounted ==
    /\ AtMostOneStart
    /\ owner # "gone" =>
         \A o \in Occurrences :
             starts[o] = 1 =>
                 \/ work[o].launched
                 \/ work[o].item = "none" /\ o[2] < sched[o[1]].next

\* The claimed attempt the loop is launching.
LaunchPoint ==
    /\ loop.at = "launch" =>
         work[loop.occ].attempt = "running" /\ ~work[loop.occ].launched
    /\ loop.at = "start" =>
         /\ owner # "gone"
         /\ starts[loop.occ] = 0
         /\ work[loop.occ].attempt = "running" /\ work[loop.occ].launched

\* A run in memory is launched and running in the store, unless the account
\* was deleted with it.
ExecBacked ==
    owner # "gone" =>
        \A o \in exec : work[o].attempt = "running" /\ work[o].launched

\* At the acknowledgement the turn is in the chat.
AckPoint ==
    loop.at = "ack" => turns[loop.occ] = 1 /\ work[loop.occ].effect = "pending"

IInv ==
    /\ TypeOK
    /\ RowsOK
    /\ RowsNotAhead
    /\ BatchCurrent
    /\ HoldsNothing
    /\ StartsAccounted
    /\ LaunchPoint
    /\ ExecBacked
    /\ AckPoint
    /\ NoOverlap
    /\ NoConcurrentRuns
    /\ ReportPostedOnce
    /\ NoStrandedAttempt

-----------------------------------------------------------------------------
(* What is inductive with IInv, behind the theorems about the promise, the   *)
(* recurrence and the one-shots.                                             *)

\* An awaited run was started, and a posted turn belongs to a report that was
\* committed: its row says so until it is pruned.
TurnsAccounted ==
    /\ \A o \in exec : starts[o] = 1
    /\ owner # "gone" =>
         \A o \in Occurrences :
             turns[o] # 0 =>
                 \/ work[o].effect \in {"pending", "backoff", "applied"}
                 \/ work[o].item = "none" /\ o[2] < sched[o[1]].next

\* Runs that outlive the account find no row to finish: the process that
\* deleted it went on to the last of its stores.
RunsDropped ==
    owner = "gone" /\ exec # {} =>
        /\ loop.at \notin {"dropChats", "dropSchedules"} =>
              \A s \in Schedules : sched[s].life # "live"
        /\ loop.at \notin {"dropChats", "dropSchedules", "dropWork"} =>
              \A o \in exec :
                  /\ work[o].attempt # "running"
                  /\ work[o].attempt = "queued" =>
                        loop.at \in {"fire", "unqueue"} /\ loop.occ = o

\* The tick polls for its first entry, and advances a prompt that is queued.
TickPoint ==
    /\ polling => /\ loop.at \notin {"due", "entries", "fire", "unqueue"}
                  /\ loop.then # "due"
                  /\ \E o \in batch : FirstEntry(o) /\ o[1] \in Observe
    /\ loop.at = "fire" =>
         work[loop.occ].item # "none" /\ loop.occ[1] \notin Observe

\* A one-shot keeps its time, and one that is off without being paused was
\* consumed, or never queued.
OneShots ==
    \A s \in Schedules : Kind[s] = "once" =>
        LET mine == {o \in Occurrences : o[1] = s /\ work[o].item # "none"}
        IN  /\ \A o \in mine : o[2] = sched[s].next
            /\ sched[s].life = "live" /\ ~sched[s].enabled /\ ~sched[s].manual
                 => \/ sched[s].last = sched[s].next
                    \/ mine = {} /\ \A o \in batch : o[1] # s

IInvKept == IInv /\ TurnsAccounted /\ RunsDropped /\ TickPoint /\ OneShots
              /\ FiredWasQueued
=============================================================================
