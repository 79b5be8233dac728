--------------------------- MODULE ManagedProcess ---------------------------
(***************************************************************************)
(* One slot of the process manager: a model server kept running by a run    *)
(* loop, and the coroutines that stop and start it.                         *)
(*                                                                          *)
(* start_one has no await.  stop_one kills the server and waits for it (at  *)
(* most five seconds), then cancels the run loop and waits for that; in     *)
(* both waits everything else goes on.  The run loop has four awaits: the   *)
(* start delay, the spawn, the output of the server and the restart delay.  *)
(* The log, the statistics and the environment of the server are left out.  *)
(***************************************************************************)
EXTENDS Naturals, FiniteSets

CONSTANTS
    Callers,      \* coroutines that may be inside stop_one
    AutoRestart,  \* ManagedProcess.restart
    MaxRestarts,  \* ManagedProcess.max_restarts
    Overlap,      \* start_one may be called while a stop_one is in its awaits
    MaxSpawns,    \* bound on servers spawned
    MaxCalls,     \* bound on calls of stop_one and start_one together
    MaxFaults,    \* bound on servers that exit by themselves and spawns that raise
    MaxSlow,      \* bound on servers that outlive their kill by five seconds
    MaxTorn       \* bound on outputs whose reading raises while the server runs

\* What the constants are.
SlotBounds ==
    /\ IsFiniteSet(Callers)
    /\ AutoRestart \in BOOLEAN /\ Overlap \in BOOLEAN
    /\ MaxRestarts \in Nat /\ MaxSpawns \in Nat /\ MaxCalls \in Nat
    /\ MaxFaults \in Nat /\ MaxSlow \in Nat /\ MaxTorn \in Nat

VARIABLES
    stopping,  \* mp._stopping
    restarts,  \* mp.restarts
    loop,      \* the await of the run loop mp._task, "done" when there is none
    cancelled, \* a CancelledError is to be thrown into the run loop
    proc,      \* the operating system's processes, in the order of their spawn
    cur,       \* mp.proc, 0 for None
    stop,      \* where each caller is in stop_one, and the process it waits for
    wanted,    \* the last call was start_one (history)
    attempts,  \* spawns tried since the last start_one (history)
    calls, faults, slow, torn   \* how many of each bound were used

counters == <<calls, faults, slow, torn>>
vars == <<stopping, restarts, loop, cancelled, proc, cur, stop, wanted,
          attempts, counters>>

Pids == 1..MaxSpawns
Idle == [at |-> "idle", pid |-> 0]
Killing(p) == [at |-> "killing", pid |-> p]
Joining == [at |-> "joining", pid |-> 0]

Running == {p \in Pids : proc[p] \in {"alive", "dying"}}
AllIdle == \A c \in Callers : stop[c] = Idle

TypeOK ==
    /\ stopping \in BOOLEAN
    /\ restarts \in 0..MaxRestarts + 1
    /\ loop \in {"new", "spawn", "read", "sleep", "handler", "done"}
    /\ cancelled \in BOOLEAN
    /\ proc \in [Pids -> {"none", "alive", "dying", "exited"}]
    /\ cur \in 0..MaxSpawns
    /\ stop \in [Callers -> {Idle, Joining} \cup {Killing(p) : p \in Pids}]
    /\ wanted \in BOOLEAN
    /\ attempts \in Nat
    /\ calls \in 0..MaxCalls /\ faults \in 0..MaxFaults
    /\ slow \in 0..MaxSlow /\ torn \in 0..MaxTorn

Init ==
    /\ stopping = FALSE
    /\ restarts = 0
    /\ loop = "done"
    /\ cancelled = FALSE
    /\ proc = [p \in Pids |-> "none"]
    /\ cur = 0
    /\ stop = [c \in Callers |-> Idle]
    /\ wanted = FALSE
    /\ attempts = 0
    /\ calls = 0 /\ faults = 0 /\ slow = 0 /\ torn = 0

-----------------------------------------------------------------------------
(* The run loop.                                                            *)

\* The task ends, and every stop_one that awaits it returns.
LoopEnds ==
    /\ loop' = "done"
    /\ cancelled' = FALSE
    /\ stop' = [c \in Callers |-> IF stop[c] = Joining THEN Idle ELSE stop[c]]

\* The loop goes on to the given await.
LoopAt(await) == loop' = await /\ cancelled' = FALSE /\ UNCHANGED stop

\* After a server has ended or a spawn has raised.
\* (Mutants: a failure is retried without being counted; off by one.)
MutCounted == restarts
Counted == restarts + 1
MutCapReached == Counted > MaxRestarts + 1
CapReached == Counted > MaxRestarts

RetryOrEnd ==
    IF stopping \/ ~AutoRestart
    THEN LoopEnds /\ UNCHANGED restarts
    ELSE /\ restarts' = Counted
         /\ IF CapReached THEN LoopEnds ELSE LoopAt("sleep")

\* The top of the loop, from the start delay or the restart delay.
LoopTop ==
    /\ loop \in {"new", "sleep"}
    /\ ~cancelled
    /\ IF stopping THEN LoopEnds ELSE LoopAt("spawn")
    /\ UNCHANGED <<stopping, restarts, proc, cur, wanted, attempts, counters>>

Spawn ==
    /\ loop = "spawn"
    /\ ~cancelled
    /\ attempts' = attempts + 1
    /\ \/ /\ cur < MaxSpawns
          /\ cur' = cur + 1
          /\ proc' = [proc EXCEPT ![cur + 1] = "alive"]
          /\ LoopAt("read")
          /\ UNCHANGED <<restarts, faults>>
       \/ /\ faults < MaxFaults
          /\ faults' = faults + 1
          /\ RetryOrEnd
          /\ UNCHANGED <<proc, cur>>
    /\ UNCHANGED <<stopping, wanted, calls, slow, torn>>

\* _read_output returns at the end of the output, which is also what it does
\* with a cancellation.
ReadEnds ==
    /\ loop = "read"
    /\ proc[cur] = "exited" \/ cancelled
    /\ RetryOrEnd
    /\ UNCHANGED <<stopping, proc, cur, wanted, attempts, counters>>

\* It also returns when reading raises (a line over 64 KiB), with the server
\* alive; the loop goes on as if it had exited.
ReadFails ==
    /\ loop = "read" /\ cur \in Running
    /\ torn < MaxTorn
    /\ torn' = torn + 1
    /\ RetryOrEnd
    /\ UNCHANGED <<stopping, proc, cur, wanted, attempts, calls, faults, slow>>

\* Cancelled at another await.  Before the loop's try block the task just
\* ends; inside it the handler kills the server, if there is one, and waits.
\* A spawn that is cancelled leaves no process behind.
LoopCancelled ==
    /\ cancelled
    /\ \/ loop = "new" /\ LoopEnds /\ UNCHANGED proc
       \/ /\ loop \in {"spawn", "sleep"}
          /\ IF cur \in Running
             THEN proc' = [proc EXCEPT ![cur] = "dying"] /\ LoopAt("handler")
             ELSE LoopEnds /\ UNCHANGED proc
    /\ UNCHANGED <<stopping, restarts, cur, wanted, attempts, counters>>

HandlerEnds ==
    /\ loop = "handler"
    /\ \/ (cur \notin Running \/ cancelled) /\ UNCHANGED slow
       \/ cur \in Running /\ slow < MaxSlow /\ slow' = slow + 1
    /\ LoopEnds
    /\ UNCHANGED <<stopping, restarts, proc, cur, wanted, attempts, calls, faults, torn>>

-----------------------------------------------------------------------------
(* The callers.                                                             *)

\* (Mutant: stop_one returns without awaiting the run loop.)
MutJoins == FALSE
Joins == loop # "done"

\* The rest of stop_one after the kill, for caller c.
AfterKill(c) ==
    /\ cancelled' = (cancelled \/ loop # "done")
    /\ stop' = [stop EXCEPT ![c] = IF Joins THEN Joining ELSE Idle]

\* (Mutants: the server is signalled and not waited for; the loop is not told.)
MutAwaitsExit == FALSE
AwaitsExit == cur \in Running
MutFlag == stopping
Flag == TRUE

Stop(c) ==
    /\ stop[c] = Idle
    /\ calls < MaxCalls
    /\ calls' = calls + 1
    /\ stopping' = Flag
    /\ wanted' = FALSE
    /\ proc' = [p \in Pids |->
                   IF p = cur /\ p \in Running THEN "dying" ELSE proc[p]]
    /\ IF AwaitsExit
       THEN stop' = [stop EXCEPT ![c] = Killing(cur)] /\ UNCHANGED cancelled
       ELSE AfterKill(c)
    /\ UNCHANGED <<restarts, loop, cur, attempts, faults, slow, torn>>

KillEnds(c) ==
    /\ stop[c].at = "killing"
    /\ proc[stop[c].pid] = "exited"
    /\ AfterKill(c)
    /\ UNCHANGED <<stopping, restarts, loop, proc, cur, wanted, attempts,
                   counters>>

\* Five seconds pass: the current process, whichever it is now, is killed and
\* not waited for.
KillTimesOut(c) ==
    /\ stop[c].at = "killing"
    /\ proc[stop[c].pid] = "dying"
    /\ slow < MaxSlow
    /\ slow' = slow + 1
    /\ proc' = [proc EXCEPT ![cur] = IF @ = "alive" THEN "dying" ELSE @]
    /\ AfterKill(c)
    /\ UNCHANGED <<stopping, restarts, loop, cur, wanted, attempts, calls, faults, torn>>

Start ==
    /\ Overlap \/ AllIdle
    /\ calls < MaxCalls
    /\ calls' = calls + 1
    /\ stopping' = FALSE
    /\ restarts' = 0
    /\ loop' = IF loop = "done" THEN "new" ELSE loop
    /\ wanted' = TRUE
    /\ attempts' = 0
    /\ UNCHANGED <<cancelled, proc, cur, stop, faults, slow, torn>>

-----------------------------------------------------------------------------
(* The operating system.                                                    *)

ServerFails ==
    /\ faults < MaxFaults
    /\ faults' = faults + 1
    /\ \E p \in Pids :
          proc[p] = "alive" /\ proc' = [proc EXCEPT ![p] = "exited"]
    /\ UNCHANGED <<stopping, restarts, loop, cancelled, cur, stop, wanted,
                   attempts, calls, slow, torn>>

ServerDies ==
    /\ \E p \in Pids :
          proc[p] = "dying" /\ proc' = [proc EXCEPT ![p] = "exited"]
    /\ UNCHANGED <<stopping, restarts, loop, cancelled, cur, stop, wanted,
                   attempts, counters>>

LoopStep == LoopTop \/ Spawn \/ ReadEnds \/ LoopCancelled \/ HandlerEnds
StopStep == \E c \in Callers : KillEnds(c)
Next ==
    \/ LoopStep \/ ReadFails \/ ServerDies \/ ServerFails \/ Start \/ StopStep
    \/ \E c \in Callers : Stop(c) \/ KillTimesOut(c)

Spec == Init /\ [][Next]_vars

\* The loop's awaits end (a timer, a spawn, the end of a dead server's
\* output), a killed process dies, and a coroutine that is ready is resumed.
FairSpec ==
    /\ Spec
    /\ WF_vars(LoopStep) /\ WF_vars(ServerDies)
    /\ \A c \in Callers : WF_vars(KillEnds(c))

-----------------------------------------------------------------------------
(* Correctness.                                                             *)

\* A slot has one server (two would share a port and a GPU), whatever restarts,
\* stops and failures overlap: each one more was left behind by a kill that did
\* not end in time or by a reading that raised, and by nothing else.
OneServer == Cardinality(Running) <= 1 + slow + torn

GaveUp == restarts > MaxRestarts \/ ~AutoRestart

\* start_one's promise outlives the stop before it: once the calls are over, a
\* slot whose last call was start_one is supervised unless the loop gave up.
StartSticks == wanted /\ AllIdle /\ loop = "done" => GaveUp

\* stop_one's promise: when it has returned and nothing was started since, no
\* run loop is left to spawn a server, and no server but those left behind.
StopSticks ==
    ~wanted /\ AllIdle => loop = "done" /\ Cardinality(Running) <= slow + torn

\* A server that cannot stay up is tried at most max_restarts times again,
\* also when it is the spawn that fails.
AttemptsBounded == attempts <= MaxRestarts + 1

\* stop_one returns.
StopReturns == \A c \in Callers : stop[c] # Idle ~> stop[c] = Idle

\* A wanted server comes up, unless the loop gives up or it is stopped.
ComesUp == wanted ~> Running # {} \/ ~wanted \/ GaveUp

-----------------------------------------------------------------------------
(* The inductive invariant behind the theorems about the slot: it is one     *)
(* where no start_one overlaps a stop_one.                                    *)

\* A stop_one in its awaits has the loop told, and no start_one undoes that.
StopsHold ==
    /\ \A c \in Callers : stop[c] # Idle => stopping /\ ~wanted
    /\ wanted => ~stopping /\ ~cancelled /\ loop # "handler"

\* The loop outlives its wish only while a stop_one awaits it.
LoopAwaited ==
    /\ loop = "done" => ~cancelled
    /\ ~wanted /\ AllIdle => loop = "done"
    /\ wanted /\ loop = "done" => GaveUp

\* The servers, and those a stop_one still waits for although they have ended.
Awaited == {p \in Pids : \E c \in Callers : stop[c] = Killing(p)}

\* Every server but the one whose output the loop reads was left behind.  While
\* the loop may spawn another, an ended one that is still waited for counts: the
\* stop that waits takes its own server for the new one.
LeftBehind ==
    LET strays == CASE cancelled \/ loop \in {"handler", "done"} -> Running
                    [] ~cancelled /\ loop = "read" -> (Running \cup Awaited) \ {cur}
                    [] OTHER -> Running \cup Awaited
    IN  Cardinality(strays) <= slow + torn

\* Every spawn but the first was paid for by a counted failure.
AttemptsPaid ==
    IF loop = "done" THEN AttemptsBounded
    ELSE /\ restarts <= MaxRestarts
         /\ attempts <= restarts + (IF loop = "read" THEN 1 ELSE 0)

IInv ==
    /\ TypeOK
    /\ StopsHold
    /\ LoopAwaited
    /\ LeftBehind
    /\ AttemptsPaid
=============================================================================
