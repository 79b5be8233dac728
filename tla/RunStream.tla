------------------------------ MODULE RunStream ------------------------------
(***************************************************************************)
(* What a person sees of a run: the event bus with its replay buffer and   *)
(* bounded queues, the event streams of the clients, which drop, resume    *)
(* after the last id they got, or reload the page, and the question a run  *)
(* puts to a person, answered, timed out or cancelled.                     *)
(*                                                                         *)
(* One run is modelled; the bus keeps nothing that runs share.  Ids are    *)
(* doubled sequence numbers, so that the notice put between two events of  *)
(* the loop at a fraction has the odd id between theirs.                   *)
(***************************************************************************)
EXTENDS Integers, Sequences, SequencesExt, FiniteSets

CONSTANTS
    Clients,        \* open pages and protocol clients
    BufferSize,     \* events the bus replays
    MaxQueue,       \* events waiting for one client
    OnTimeout,      \* what an unanswered question means
    Notice,         \* the run's model override was found dead and cleared
    MaxEvents,      \* bound: events the loop emits before run_finish
    MaxConnects     \* bound: connections of one client

ASSUME SizesAssumption ==
    /\ BufferSize \in Nat \ {0} /\ MaxQueue \in Nat
    /\ BufferSize <= MaxQueue

VARIABLES
    run,        \* what the run is doing
    seq,        \* events it emitted
    buffer,     \* the bus's replay buffer
    known,      \* run_owner still names the run
    stream,     \* per client: "away", "open" or "closed"
    queue,      \* per client: its queue on the bus, None when it has none
    subs,       \* the queues the bus publishes to
    last,       \* per client: the last event id it got
    seen,       \* per client: the ids its page got, in order
    connects,   \* per client: connections made
    future,     \* the question: "none", "pending" or "resolved"
    said,       \* answers the endpoint acknowledged
    verdict     \* what the run did with the call it asked about

busVars == <<buffer, subs, queue>>
clientVars == <<stream, last, seen, connects>>
askVars == <<future, said, verdict>>
vars == <<run, seq, known, busVars, clientVars, askVars>>

RunStates == {"going", "waiting", "ending", "finished", "lost"}
Kinds == {"step", "notice", "confirmation_request", "run_finish"}
Events == [id : Nat, type : Kinds]

Init ==
    /\ run = "going" /\ seq = 0 /\ known = TRUE
    /\ buffer = <<>> /\ subs = {} /\ queue = [c \in Clients |-> <<>>]
    /\ stream = [c \in Clients |-> "away"]
    /\ last = [c \in Clients |-> 0]
    /\ seen = [c \in Clients |-> <<>>]
    /\ connects = [c \in Clients |-> 0]
    /\ future = "none" /\ said = <<>> /\ verdict = "none"

------------------------------------------------------------------------------
(* The bus. *)

MutNewest(s, n) == SubSeq(s, 1, IF Len(s) < n THEN Len(s) ELSE n)
\* What is left of s when its oldest items made room.
Newest(s, n) == IF Len(s) <= n THEN s ELSE SubSeq(s, Len(s) - n + 1, Len(s))

Publish(events) ==
    /\ buffer' = Newest(buffer \o events, BufferSize)
    /\ queue' = [c \in Clients |-> IF c \in subs
                                   THEN Newest(queue[c] \o events, MaxQueue)
                                   ELSE queue[c]]
    /\ UNCHANGED subs

\* The notice rides in right behind run_start.
Emitted(type) ==
    LET e == [id |-> 2 * (seq + 1), type |-> type]
    IN  IF Notice /\ seq = 0
        THEN <<e, [id |-> e.id + 1, type |-> "notice"]>> ELSE <<e>>

Emit(type) == seq' = seq + 1 /\ Publish(Emitted(type))

Step ==
    /\ run = "going" /\ seq < MaxEvents
    /\ Emit("step")
    /\ UNCHANGED <<run, known, clientVars, askVars>>

Finish ==
    /\ run \in {"going", "ending"} /\ seq > 0
    /\ Emit("run_finish")
    /\ run' = "finished"
    /\ UNCHANGED <<known, clientVars, askVars>>

\* A cancellation outside the turns ends the task without run_finish.
Lose ==
    /\ run \in {"going", "ending"}
    /\ run' = "lost"
    /\ UNCHANGED <<seq, known, busVars, clientVars, askVars>>

\* After the grace period.
Forget ==
    /\ run \in {"finished", "lost"} /\ known
    /\ buffer' = <<>> /\ subs' = {} /\ known' = FALSE
    /\ UNCHANGED <<run, seq, queue, clientVars, askVars>>

------------------------------------------------------------------------------
(* The clients. *)

\* A Last-Event-ID that is not all digits counts as none.
ResumeAfter(id) == IF id % 2 = 0 THEN id ELSE 0

\* subscribe: the events after an id are the end of the buffer, where ids ascend.
MutMissed(after) ==
    LET older == {i \in DOMAIN buffer : buffer[i].id < after}
    IN  SubSeq(buffer, Cardinality(older) + 1, Len(buffer))
Missed(after) ==
    LET older == {i \in DOMAIN buffer : buffer[i].id <= after}
    IN  SubSeq(buffer, Cardinality(older) + 1, Len(buffer))

MutSubscribe(c, after) ==
    /\ queue' = [queue EXCEPT ![c] = <<>>]
    /\ subs' = subs \cup {c}
    /\ UNCHANGED buffer
Subscribe(c, after) ==
    /\ queue' = [queue EXCEPT ![c] = Newest(Missed(after), MaxQueue)]
    /\ subs' = subs \cup {c}
    /\ UNCHANGED buffer

Connect(c, fresh) ==
    /\ stream[c] = "away" /\ known /\ connects[c] < MaxConnects
    /\ Subscribe(c, IF fresh THEN 0 ELSE ResumeAfter(last[c]))
    /\ stream' = [stream EXCEPT ![c] = "open"]
    /\ seen' = IF fresh THEN [seen EXCEPT ![c] = <<>>] ELSE seen
    /\ last' = IF fresh THEN [last EXCEPT ![c] = 0] ELSE last
    /\ connects' = [connects EXCEPT ![c] = @ + 1]
    /\ UNCHANGED <<run, seq, known, askVars>>

NotFound(c) ==
    /\ stream[c] = "away" /\ ~known
    /\ stream' = [stream EXCEPT ![c] = "closed"]
    /\ UNCHANGED <<run, seq, known, busVars, last, seen, connects, askVars>>

Receive(c) ==
    /\ stream[c] = "open" /\ queue[c] # <<>>
    /\ LET e == Head(queue[c])  ends == e.type = "run_finish"
       IN  /\ seen' = [seen EXCEPT ![c] = Append(@, e.id)]
           /\ last' = [last EXCEPT ![c] = e.id]
           /\ stream' = IF ends THEN [stream EXCEPT ![c] = "closed"] ELSE stream
           /\ subs' = IF ends THEN subs \ {c} ELSE subs
           /\ queue' = [queue EXCEPT ![c] = IF ends THEN <<>> ELSE Tail(@)]
    /\ UNCHANGED <<run, seq, known, buffer, connects, askVars>>

\* Whatever was on its way is lost.
Drop(c) ==
    /\ stream[c] = "open"
    /\ stream' = [stream EXCEPT ![c] = "away"]
    /\ subs' = subs \ {c}
    /\ queue' = [queue EXCEPT ![c] = <<>>]
    /\ UNCHANGED <<run, seq, known, buffer, last, seen, connects, askVars>>

------------------------------------------------------------------------------
(* The question. *)

Ask ==
    /\ run = "going" /\ future = "none" /\ verdict = "none"
    /\ 0 < seq /\ seq < MaxEvents
    /\ future' = "pending"
    /\ Emit("confirmation_request")
    /\ run' = "waiting"
    /\ UNCHANGED <<known, clientVars, said, verdict>>

\* A second answer, or one to a question that is over, is refused.
MutAnswerable == future \in {"pending", "resolved"}
Answerable == future = "pending"

Answer(approved) ==
    /\ known /\ Answerable
    /\ future' = "resolved"
    /\ said' = Append(said, approved)
    /\ UNCHANGED <<run, seq, known, busVars, clientVars, verdict>>

Resume(approved) ==
    /\ verdict' = IF approved THEN "run" ELSE "refused"
    /\ future' = "none" /\ run' = "going"
    /\ UNCHANGED <<seq, known, busVars, clientVars, said>>

Answered == run = "waiting" /\ future = "resolved" /\ Resume(Last(said))

\* Since Python 3.12 a time-out in the event loop's turn in which the future
\* was resolved wins over the result.
TimesOut == run = "waiting" /\ Resume(OnTimeout)

Cancel ==
    /\ run \in {"going", "waiting"}
    /\ run' = "ending" /\ future' = "none"
    /\ UNCHANGED <<seq, known, busVars, clientVars, said, verdict>>

------------------------------------------------------------------------------
Next ==
    \/ Step \/ Finish \/ Lose \/ Forget
    \/ \E c \in Clients : \/ \E fresh \in BOOLEAN : Connect(c, fresh)
                          \/ NotFound(c) \/ Receive(c) \/ Drop(c)
    \/ Ask \/ Answered \/ TimesOut \/ Cancel
    \/ \E approved \in BOOLEAN : Answer(approved)

Spec == Init /\ [][Next]_vars

\* The server answers connections and sends what is queued; a question is
\* answered or times out; the grace period ends.
FairSpec ==
    /\ Spec
    /\ WF_vars(Answered \/ TimesOut) /\ WF_vars(Forget) /\ WF_vars(Finish)
    /\ \A c \in Clients : WF_vars(Receive(c)) /\ WF_vars(NotFound(c))

------------------------------------------------------------------------------
(* Properties. *)

\* The types of the state.
TypeOK ==
    /\ run \in RunStates /\ seq \in Nat /\ known \in BOOLEAN
    /\ buffer \in Seq(Events) /\ Len(buffer) <= BufferSize
    /\ subs \subseteq Clients
    /\ queue \in [Clients -> Seq(Events)]
    /\ \A c \in Clients : Len(queue[c]) <= MaxQueue
    /\ stream \in [Clients -> {"away", "open", "closed"}]
    /\ seen \in [Clients -> Seq(Nat)] /\ last \in [Clients -> Nat]
    /\ future \in {"none", "pending", "resolved"}
    /\ said \in Seq(BOOLEAN) /\ verdict \in {"none", "run", "refused"}

(* Parts of the inductive invariants. *)

\* The events of a run carry ascending ids, of which the loop will give none again.
Ascending(events) ==
    \A i, j \in DOMAIN events : i < j => events[i].id < events[j].id
Given(id) == 0 < id /\ id < 2 * (seq + 1)
Ordered(events) == Ascending(events) /\ \A i \in DOMAIN events : Given(events[i].id)
InOrder ==
    /\ Ordered(buffer)
    /\ \A c \in Clients : Ordered(queue[c]) /\ last[c] < 2 * (seq + 1)

\* The bus publishes to the open streams until it forgets the run, which ended.
Published ==
    /\ subs = {c \in Clients : known /\ stream[c] = "open"}
    /\ ~known => buffer = <<>> /\ run \in {"finished", "lost"}

\* The buffer and the queue of an open stream end with the same events, and
\* what the buffer has before them the page has shown.
EndAlike(events, rest, shown) ==
    LET gap == Len(events) - Len(rest)
    IN  \A i \in DOMAIN events : IF i <= gap THEN events[i].id \in shown
                                             ELSE events[i] = rest[i - gap]
Aligned == \A c \in subs : EndAlike(buffer, queue[c], ToSet(seen[c]))

\* What a client that resumes does not ask for, its page has shown.
ResumeSafe ==
    \A c \in Clients : \A i \in DOMAIN buffer :
        buffer[i].id <= ResumeAfter(last[c]) => buffer[i].id \in ToSet(seen[c])

\* Without notices the page is at the last id it got, and the rest is newer.
UpToLast ==
    \A c \in Clients :
        /\ \A i \in DOMAIN seen[c] : seen[c][i] <= last[c]
        /\ \A i \in DOMAIN queue[c] : last[c] < queue[c][i].id
        /\ last[c] % 2 = 0
Even ==
    /\ \A i \in DOMAIN buffer : buffer[i].id % 2 = 0
    /\ \A c \in Clients : \A i \in DOMAIN queue[c] : queue[c][i].id % 2 = 0

\* One question, and one answer to it, which is the last.
OneAnswer ==
    /\ run = "waiting" => future \in {"pending", "resolved"} /\ verdict = "none"
    /\ future # "none" => run = "waiting"
    /\ future = "pending" \/ (run = "going" /\ verdict = "none") => said = <<>>
    /\ Len(said) <= 1 /\ (future = "resolved" => said # <<>>)

IInv == TypeOK /\ InOrder /\ Published /\ Aligned /\ ResumeSafe

\* A page that resumes or falls behind misses only what the replay buffer no
\* longer holds: everything still buffered it has shown or will be sent.
NothingBufferedIsMissed ==
    \A c \in subs : \A i \in DOMAIN buffer :
        \/ buffer[i].id \in ToSet(seen[c])
        \/ buffer[i] \in ToSet(queue[c])

\* No page gets an event twice or out of order, however often it resumes.
InOrderOnce ==
    \A c \in Clients : \A i, j \in DOMAIN seen[c] :
        i < j => seen[c][i] < seen[c][j]

\* A call that needed a person's approval runs only on the one answer that
\* was acknowledged, and that answer was yes: not on a late or a second one.
RunsOnlyApproved == verdict = "run" => said = <<TRUE>>

\* The answer the endpoint acknowledged is the one the run acts on.
AcknowledgedCounts ==
    verdict # "none" /\ Len(said) = 1 => (verdict = "run" <=> said[1])

\* A client that is connected when the run finishes is told so, or gone.
FinishIsSeen ==
    \A c \in Clients :
        run = "finished" /\ stream[c] = "open" ~> stream[c] # "open"

\* Every stream ends.
StreamsEnd == \A c \in Clients : stream[c] = "open" ~> stream[c] # "open"
=============================================================================
