----------------------------- MODULE DetachedJobs -----------------------------
(***************************************************************************)
(* Detached jobs (tools/job/runner.py): job.start spawns a shell of its    *)
(* own session and records its pid in the job's directory, the shell       *)
(* writes the exit code there, job.status derives a state from the files   *)
(* and the pid, job.cancel signals the process group, and the chat page    *)
(* polls the feed of finished jobs (web/routes_chats.py).                  *)
(*                                                                         *)
(* The shells and the kernel run beside the event loop: a pid is freed     *)
(* when its process is reaped and may be given to a stranger, also between *)
(* the system calls of one job.cancel.  SIGTERM takes effect later,        *)
(* SIGKILL at once; a process leads its own group; no two codes have the   *)
(* same modification time.  Left out: log tails, listings, run times, the  *)
(* owner filter.                                                           *)
(***************************************************************************)
EXTENDS Integers, Sequences, SequencesExt, FiniteSets

CONSTANTS
    Starts,         \* calls of job.start
    Dir,            \* Dir[s]: the directory, named by second and label
    Others,         \* directories of jobs of which only the end is modelled
    Within,         \* pairs of directories: the first one's path has the second's name in it
    FeedSize,       \* finished jobs in the feed
    Pids,
    Callers,        \* runs that may call job.cancel
    MaxStrangers,   \* bound: processes that are nobody's job
    MaxCancels,     \* bound: calls of job.cancel
    MaxCrashes      \* bound: restarts of the orchestrator

Dirs == {Dir[s] : s \in Starts} \cup Others
None == 0
ASSUME PidsAssumption == Pids \subseteq Nat \ {None}
ASSUME DirsAssumption ==
    /\ Within \subseteq Dirs \X Dirs /\ \A d \in Dirs : <<d, d>> \in Within
    /\ \A s \in Starts : Dir[s] \notin Others

VARIABLES
    start,      \* per call: its coroutine
    shell,      \* per call: the shell it spawned
    stranger,   \* pids of other processes
    mentions,   \* per pid: the directories a stranger's command line names
    meta,       \* per directory: the pid in meta.json, None without one
    file,       \* per directory: what exit_code holds
    newer,      \* pairs of directories: the first one's code was written later
    look,       \* the directory whose status is being read, <<>> for none
    status,     \* per directory: the last state job.status or job.wait saw
    cancel,     \* per caller: its job.cancel, with the directory and the pid it read,
                \* and whether the pid kept its process since it was asked whose it is
    page,       \* the browser: primed, and what it has seen of each job
    announced,  \* per directory: the lines the chat got, in order
    struck,     \* history: strangers that were signalled without an excuse
    bounds      \* strangers, cancellations and restarts so far

kernel == <<stranger, mentions>>
jobs == <<start, shell, kernel>>
codes == <<file, newer>>
disk == <<meta, codes>>
readers == <<look, status, page, announced>>
vars == <<jobs, disk, readers, cancel, struck, bounds>>

Contents == {"none", "empty", "zero", "one", "term", "kill"}
Live == {"command", "ending", "opened", "wrote"}
NoShell == [pc |-> "none", pid |-> None, rc |-> "none", hears |-> TRUE, named |-> TRUE,
            termed |-> FALSE, left |-> FALSE]

NoCancel == [pc |-> "idle", dir |-> <<>>, pid |-> None, kept |-> TRUE, told |-> "none"]

Init ==
    /\ start = [s \in Starts |-> "idle"]
    /\ shell = [s \in Starts |-> NoShell]
    /\ stranger = {} /\ mentions = [p \in Pids |-> {}]
    /\ meta = [d \in Dirs |-> None] /\ file = [d \in Dirs |-> "none"] /\ newer = {}
    /\ look = <<>> /\ status = [d \in Dirs |-> "unknown"]
    /\ cancel = [c \in Callers |-> NoCancel]
    /\ page = [primed |-> FALSE, seen |-> [d \in Dirs |-> "none"]]
    /\ announced = [d \in Dirs |-> <<>>]
    /\ struck = {}
    /\ bounds = [strangers |-> 0, cancels |-> 0, crashes |-> 0]

\* Between the system calls of a job.cancel: to SIGTERM, then to SIGKILL.
InCalls == {"checked", "aimed", "doomed"}

\* The event loop is free: no status is being read, nothing is being signalled.
Loop == look = <<>> /\ \A c \in Callers : cancel[c].pc \notin InCalls
Count(what) == bounds' = [bounds EXCEPT ![what] = @ + 1]

------------------------------------------------------------------------------
(* The kernel. *)

Running(s) == shell[s].pc \in Live
\* A pid stays taken while its process is a zombie or its group has a member.
Holds(s) == Running(s) \/ shell[s].pc = "exited" \/ shell[s].left
Taken(p) == p \in stranger \/ \E s \in Starts : Holds(s) /\ shell[s].pid = p

\* Zombies count as dead.
Alive(p) == p \in stranger \/ \E s \in Starts : Running(s) /\ shell[s].pid = p

\* A zombie still has a group.
Present(p) == p \in stranger \/ \E s \in Starts : /\ Running(s) \/ shell[s].pc = "exited"
                                                /\ shell[s].pid = p

\* The name of the directory is part of the pid's command line: of its shell's,
\* unless that was replaced, or of anybody's who names it.
Ours(p, d) ==
    \/ p \in stranger /\ d \in mentions[p]
    \/ \E s \in Starts : /\ Running(s) /\ shell[s].pid = p
                         /\ shell[s].named /\ <<Dir[s], d>> \in Within

\* The pid is given to somebody: a job.cancel between two calls cannot know.
Given(p) ==
    cancel' = [c \in Callers |->
                IF cancel[c].pc \in InCalls /\ cancel[c].pid = p
                THEN [cancel[c] EXCEPT !.kept = FALSE] ELSE cancel[c]]

Reap(s) ==
    /\ shell[s].pc = "exited"
    /\ shell' = [shell EXCEPT ![s].pc = "reaped"]
    /\ UNCHANGED <<start, kernel, disk, readers, cancel, struck, bounds>>

LeftoverEnds(s) ==
    /\ shell[s].left
    /\ shell' = [shell EXCEPT ![s].left = FALSE]
    /\ UNCHANGED <<start, kernel, disk, readers, cancel, struck, bounds>>

\* A stranger may look at the files of one job.
StrangerStarts(p) ==
    /\ ~Taken(p) /\ bounds.strangers < MaxStrangers
    /\ stranger' = stranger \cup {p}
    /\ \E n \in {{}} \cup {{Dir[s]} : s \in Starts} : mentions' = [mentions EXCEPT ![p] = n]
    /\ Given(p)
    /\ Count("strangers")
    /\ UNCHANGED <<start, shell, disk, readers, struck>>

StrangerEnds(p) ==
    /\ p \in stranger
    /\ stranger' = stranger \ {p} /\ mentions' = [mentions EXCEPT ![p] = {}]
    /\ UNCHANGED <<start, shell, disk, readers, cancel, struck, bounds>>

------------------------------------------------------------------------------
(* The shell of a job: the command, then its code into a file that is      *)
(* truncated before it is written.                                         *)

At(s, pc) == shell' = [shell EXCEPT ![s].pc = pc]
Beside == UNCHANGED <<start, kernel, meta, readers, cancel, struck, bounds>>

\* The code of d is now the newest.
Newest(d) ==
    newer' = {pair \in newer : pair[1] # d /\ pair[2] # d}
             \cup {<<d, e>> : e \in {e \in Dirs \ {d} : file[e] # "none"}}

\* The command replaces the shell.
Execs(s) ==
    /\ shell[s].pc = "command" /\ shell[s].named
    /\ shell' = [shell EXCEPT ![s].named = FALSE]
    /\ UNCHANGED codes /\ Beside

CommandEnds(s) ==
    /\ shell[s].pc = "command" /\ shell[s].named
    /\ \E rc \in {"zero", "one"} :
          shell' = [shell EXCEPT ![s].pc = "ending", ![s].rc = rc]
    /\ UNCHANGED codes /\ Beside

\* The command leaves the shell itself, or crashes it.
ShellLeaves(s) ==
    /\ shell[s].pc = "command" /\ At(s, "exited")
    /\ UNCHANGED codes /\ Beside

OpensCode(s) ==
    /\ shell[s].pc = "ending" /\ At(s, "opened")
    /\ file' = [file EXCEPT ![Dir[s]] = "empty"] /\ Newest(Dir[s])
    /\ Beside

WritesCode(s) ==
    /\ shell[s].pc = "opened" /\ At(s, "wrote")
    /\ file' = [file EXCEPT ![Dir[s]] = shell[s].rc] /\ Newest(Dir[s])
    /\ Beside

Exits(s) ==
    /\ shell[s].pc = "wrote" /\ At(s, "exited")
    /\ UNCHANGED codes /\ Beside

\* SIGTERM ends a shell that does not trap it; a child of it may ignore it.
Terminated(s) ==
    /\ Running(s) /\ shell[s].termed /\ shell[s].hears
    /\ \E left \in {FALSE, shell[s].pc = "command"} :
          shell' = [shell EXCEPT ![s].pc = "exited", ![s].left = left]
    /\ UNCHANGED codes /\ Beside

\* Another job ends, all at once; which code it leaves does not matter here.
OtherEnds(o) ==
    /\ file[o] = "none"
    /\ file' = [file EXCEPT ![o] = "zero"]
    /\ Newest(o)
    /\ UNCHANGED shell /\ Beside

------------------------------------------------------------------------------
(* job.start *)

Make(s) ==
    /\ Loop /\ start[s] = "idle"
    /\ start' = [start EXCEPT ![s] = "spawning"]
    /\ UNCHANGED <<shell, kernel, disk, readers, cancel, struck, bounds>>

\* A thread spawns the shell, whether or not somebody still waits for it.
Spawn(s) ==
    /\ start[s] \in {"spawning", "abandoned"} /\ shell[s].pc = "none"
    /\ \E p \in Pids, hears \in BOOLEAN :
        /\ ~Taken(p)
        /\ shell' = [shell EXCEPT ![s] = [NoShell EXCEPT !.pc = "command",
                                              !.pid = p, !.hears = hears]]
        /\ Given(p)
    /\ start' = [start EXCEPT ![s] = IF @ = "spawning" THEN "spawned" ELSE @]
    /\ UNCHANGED <<kernel, disk, readers, struck, bounds>>

Record(s) ==
    /\ Loop /\ start[s] = "spawned"
    /\ meta' = [meta EXCEPT ![Dir[s]] = shell[s].pid]
    /\ start' = [start EXCEPT ![s] = "recorded"]
    /\ UNCHANGED <<shell, kernel, codes, readers, cancel, struck, bounds>>

\* The run is cancelled at the await.
Abandon(s) ==
    /\ Loop /\ start[s] \in {"spawning", "spawned"}
    /\ start' = [start EXCEPT ![s] = "abandoned"]
    /\ UNCHANGED <<shell, kernel, disk, readers, cancel, struck, bounds>>

------------------------------------------------------------------------------
(* job.status, and each look of job.wait: the file first, then the pid. *)

MutState(code) == IF code = "one" THEN "failed" ELSE "succeeded"
\* Digits are needed: an empty file is a failure.
State(code) == IF code = "zero" THEN "succeeded" ELSE "failed"

Exists(d) == \E s \in Starts : Dir[s] = d /\ start[s] # "idle"
Answer(d, state) == status' = [status EXCEPT ![d] = state]

LookAtFile(d) ==
    /\ Loop /\ Exists(d)
    /\ IF file[d] = "none" THEN look' = <<d>> /\ UNCHANGED status
       ELSE Answer(d, State(file[d])) /\ UNCHANGED look
    /\ UNCHANGED <<jobs, disk, page, announced, cancel, struck, bounds>>

LookAtPid(d) ==
    /\ look = <<d>> /\ look' = <<>>
    /\ Answer(d, IF meta[d] = None THEN "unknown"
                 ELSE IF Alive(meta[d]) THEN "running" ELSE "ended")
    /\ UNCHANGED <<jobs, disk, page, announced, cancel, struck, bounds>>

------------------------------------------------------------------------------
(* job.cancel *)

\* It signalled nobody, or answers with an error.
Ends(c) == cancel' = [cancel EXCEPT ![c] = NoCancel]
\* It answers with its last signal.
Told(c, d, what) ==
    cancel' = [cancel EXCEPT ![c] = [NoCancel EXCEPT !.dir = <<d>>, !.told = what]]
Goes(c, pc) == cancel' = [cancel EXCEPT ![c].pc = pc]
Is(c, d, pc) == cancel[c].pc = pc /\ cancel[c].dir = <<d>>

\* A process that has nothing to do with the job and does not name it.
Strange(p, d) ==
    \/ p \in stranger /\ d \notin mentions[p]
    \/ \E s \in Starts : /\ Running(s) /\ shell[s].pid = p
                         /\ <<Dir[s], d>> \notin Within

\* Whoever has the pid by now gets the signal.
Signalled(c, d) ==
    LET p == cancel[c].pid
    IN  struck' = IF cancel[c].kept /\ Strange(p, d) THEN struck \cup {p} ELSE struck

\* It has a code, it has no pid that lives, or the pid is somebody else's.
Refuses(d) ==
    file[d] # "none" \/ meta[d] = None \/ ~Alive(meta[d]) \/ ~Ours(meta[d], d)

\* The refusals, the identity of the pid last.
Cancel(c, d) ==
    /\ Loop /\ cancel[c].pc = "idle" /\ bounds.cancels < MaxCancels
    /\ Exists(d)
    /\ IF Refuses(d) THEN Ends(c)
       ELSE cancel' = [cancel EXCEPT ![c] = [NoCancel EXCEPT !.pc = "checked", !.dir = <<d>>,
                                                             !.pid = meta[d]]]
    /\ Count("cancels")
    /\ UNCHANGED <<jobs, disk, readers, struck>>

\* The group of the pid, unless its process is gone meanwhile.
Aim(c, d) ==
    /\ Is(c, d, "checked")
    /\ IF Present(cancel[c].pid) THEN Goes(c, "aimed") ELSE Ends(c)
    /\ UNCHANGED <<jobs, disk, readers, struck, bounds>>

\* A group without members raises.
Raises(c, d) ==
    /\ Is(c, d, "aimed") \/ Is(c, d, "doomed")
    /\ ~Taken(cancel[c].pid)
    /\ Ends(c)
    /\ UNCHANGED <<jobs, disk, readers, struck, bounds>>

Terminate(c, d) ==
    LET p == cancel[c].pid
    IN  /\ Is(c, d, "aimed") /\ Taken(p)
        /\ shell' = [s \in Starts |-> IF shell[s].pid = p /\ Running(s)
                                     THEN [shell[s] EXCEPT !.termed = TRUE] ELSE shell[s]]
        /\ Signalled(c, d)
        /\ Goes(c, "grace")
    /\ UNCHANGED <<start, kernel, disk, readers, bounds>>

\* A code the shell wrote itself stays.
Coded(d, code) ==
    IF file[d] # "none" THEN UNCHANGED codes
    ELSE file' = [file EXCEPT ![d] = code] /\ Newest(d)

DiesInGrace(c, d) ==
    /\ Loop /\ Is(c, d, "grace") /\ ~Alive(cancel[c].pid)
    /\ Coded(d, "term") /\ Told(c, d, "term")
    /\ UNCHANGED <<jobs, meta, readers, struck, bounds>>

MutStillOurs(p, d) == TRUE
\* Asked again before SIGKILL.
StillOurs(p, d) == Ours(p, d)

\* The grace period is over and the pid still lives.
Escalate(c, d) ==
    /\ Loop /\ Is(c, d, "grace") /\ Alive(cancel[c].pid)
    /\ IF StillOurs(cancel[c].pid, d)
       THEN cancel' = [cancel EXCEPT ![c].pc = "doomed", ![c].kept = TRUE]
       ELSE Ends(c)
    /\ UNCHANGED <<jobs, disk, readers, struck, bounds>>

Killed(p) ==
    [s \in Starts |-> IF shell[s].pid # p THEN shell[s]
                      ELSE [shell[s] EXCEPT !.left = FALSE,
                                            !.pc = IF Running(s) THEN "exited" ELSE @]]

Kill(c, d) ==
    /\ Is(c, d, "doomed") /\ Taken(cancel[c].pid)
    /\ shell' = Killed(cancel[c].pid) /\ Signalled(c, d)
    /\ Coded(d, "kill") /\ Told(c, d, "kill")
    /\ UNCHANGED <<start, kernel, meta, readers, bounds>>

------------------------------------------------------------------------------
(* The chat page. *)

Finished == {d \in Dirs : file[d] # "none"}

\* The newest of them.
Feed == {d \in Finished : Cardinality({e \in Finished : <<e, d>> \in newer}) < FeedSize}

MutNews(d) == page.seen[d] = "none"
\* A job is news until the page has seen it in this state.
News(d) == page.seen[d] # State(file[d])

\* The first poll only learns what is old.
PollJobs ==
    /\ Loop
    /\ page' = [primed |-> TRUE,
                seen |-> [d \in Dirs |-> IF d \in Feed /\ News(d)
                                         THEN State(file[d]) ELSE page.seen[d]]]
    /\ announced' = [d \in Dirs |-> IF page.primed /\ d \in Feed /\ News(d)
                                    THEN Append(announced[d], State(file[d]))
                                    ELSE announced[d]]
    /\ UNCHANGED <<jobs, disk, look, status, cancel, struck, bounds>>

\* Jobs and files survive the orchestrator; its coroutines and threads do not.
Crash ==
    /\ bounds.crashes < MaxCrashes /\ Count("crashes")
    /\ start' = [s \in Starts |-> IF start[s] \in {"spawning", "spawned", "abandoned"}
                                  THEN "lost" ELSE start[s]]
    /\ look' = <<>>
    /\ cancel' = [c \in Callers |-> IF cancel[c].pc # "idle" THEN NoCancel ELSE cancel[c]]
    /\ UNCHANGED <<shell, kernel, disk, status, page, announced, struck>>

------------------------------------------------------------------------------
Next ==
    \/ \E s \in Starts :
          \/ Make(s) \/ Spawn(s) \/ Record(s) \/ Abandon(s)
          \/ Execs(s) \/ CommandEnds(s) \/ ShellLeaves(s) \/ OpensCode(s) \/ WritesCode(s) \/ Exits(s)
          \/ Terminated(s) \/ Reap(s) \/ LeftoverEnds(s)
    \/ \E p \in Pids : StrangerStarts(p) \/ StrangerEnds(p)
    \/ \E d \in Dirs :
          \/ LookAtFile(d) \/ LookAtPid(d)
          \/ \E c \in Callers :
                \/ Cancel(c, d) \/ Aim(c, d) \/ Raises(c, d) \/ Terminate(c, d)
                \/ DiesInGrace(c, d) \/ Escalate(c, d) \/ Kill(c, d)
    \/ \E o \in Others : OtherEnds(o)
    \/ PollJobs \/ Crash

Spec == Init /\ [][Next]_vars

\* The event loop gets on: what a status or a signal takes is done.  An open page
\* polls every 30 seconds, and the loop serves its request after what was there
\* before it, however often it is busy with something else.
Signals(c, d) == Aim(c, d) \/ Raises(c, d) \/ Terminate(c, d) \/ Kill(c, d)
FairSpec ==
    /\ Spec /\ SF_vars(PollJobs)
    /\ WF_vars(\E d \in Dirs : LookAtPid(d) \/ \E c \in Callers : Signals(c, d))

------------------------------------------------------------------------------
(* Properties. *)

Shells == [pc : Live \cup {"none", "exited", "reaped"}, pid : Pids \cup {None},
           rc : {"none", "zero", "one"}, hears : BOOLEAN, named : BOOLEAN,
           termed : BOOLEAN, left : BOOLEAN]

Cancels == [pc : InCalls \cup {"idle", "grace"}, dir : {<<>>} \cup {<<d>> : d \in Dirs},
            pid : Pids \cup {None}, kept : BOOLEAN, told : {"none", "term", "kill"}]

\* The types of the state.
TypeOK ==
    /\ start \in [Starts -> {"idle", "spawning", "spawned", "recorded", "abandoned", "lost"}]
    /\ shell \in [Starts -> Shells]
    /\ stranger \subseteq Pids /\ struck \subseteq Pids /\ mentions \in [Pids -> SUBSET Dirs]
    /\ meta \in [Dirs -> Pids \cup {None}]
    /\ file \in [Dirs -> Contents] /\ newer \subseteq Dirs \X Dirs
    /\ look \in {<<>>} \cup {<<d>> : d \in Dirs}
    /\ status \in [Dirs -> {"unknown", "running", "ended", "succeeded", "failed"}]
    /\ cancel \in [Callers -> Cancels]
    /\ page \in [primed : BOOLEAN, seen : [Dirs -> {"none", "succeeded", "failed"}]]
    /\ announced \in [Dirs -> Seq({"succeeded", "failed"})]
    /\ bounds \in [strangers : Nat, cancels : Nat, crashes : Nat]

(* Parts of the inductive invariant. *)

\* A pid that is taken has one owner.
PidsOwned ==
    \A s \in Starts : Holds(s) =>
        /\ shell[s].pid \in Pids \ stranger
        /\ \A o \in Starts : Holds(o) /\ shell[o].pid = shell[s].pid => o = s

\* While the pid keeps its process, the process is one that passed the check.
AimedRight ==
    \A c \in Callers : cancel[c].pc \in InCalls /\ cancel[c].kept =>
        \E d \in Dirs : cancel[c].dir = <<d>> /\ ~Strange(cancel[c].pid, d)

\* The code of a shell is there when its command has ended, not before.
CodeAtEnd == \A s \in Starts : shell[s].pc \in {"none", "command"} => shell[s].rc = "none"

\* What says "succeeded" or will be read so.
SaysSucceeded(d) ==
    \/ file[d] = "zero" \/ status[d] = "succeeded"
    \/ \E i \in DOMAIN announced[d] : announced[d][i] = "succeeded"

ZerosAreReal == \A s \in Starts : SaysSucceeded(Dir[s]) => shell[s].rc = "zero"

\* A job that job.status, job.wait or a line in the chat calls succeeded has
\* run its command to exit code 0: not one whose code job.cancel wrote, not one
\* whose code was still being written.
SuccessIsReal ==
    \A s \in Starts : /\ shell[s].pc # "none"
                      /\ "succeeded" \in {status[Dir[s]]} \cup ToSet(announced[Dir[s]])
                      => shell[s].rc = "zero"

\* A process that has nothing to do with the job and does not name it gets a
\* signal of job.cancel only if it took the pid between the last look at the
\* command line and that signal: not in the grace period, not before the call.
StrangersSpared == struck = {}

\* A job that ends with a code while the page is open is announced, and the
\* last line says how it ended, whatever was read of it before; unless as many
\* jobs as the feed holds wrote their codes after it and before the poll.
FinishAnnounced ==
    \A d \in Dirs :
        page.primed /\ d \in Feed /\ page.seen[d] # State(file[d])
        ~> \/ announced[d] # <<>> /\ Last(announced[d]) = State(file[d])
           \/ d \notin Feed

\* A cancelled job answers with a code from then on and its shell is gone.
CancelledIsOver ==
    \A c \in Callers, d \in Dirs :
        cancel[c].told \in {"term", "kill"} /\ cancel[c].dir = <<d>> =>
            file[d] # "none" /\ \A s \in Starts : Dir[s] = d => ~Running(s)

\* Every job that runs can be found and cancelled by its pid.
Manageable ==
    \A s \in Starts : Running(s) /\ start[s] \notin {"spawning", "spawned"}
                      => meta[Dir[s]] = shell[s].pid

\* "ended" is said of jobs that left no code.
EndedLeftNoCode == [][\A d \in Dirs : LookAtPid(d) /\ status'[d] = "ended" => file[d] = "none"]_vars

\* "running" is said of jobs that run.
RunningRuns == [][\A d \in Dirs : LookAtPid(d) /\ status'[d] = "running" =>
                       \E s \in Starts : Running(s) /\ shell[s].pid = meta[d] /\ Dir[s] = d]_vars

\* A job is announced once.
AnnouncedOnce == \A d \in Dirs : Len(announced[d]) <= 1

\* Nothing of a cancelled job goes on.
NothingLeft ==
    \A c \in Callers, s \in Starts :
        cancel[c].told \in {"term", "kill"} /\ cancel[c].dir = <<Dir[s]>> => ~shell[s].left
=============================================================================
