------------------------------ MODULE ModelSwap ------------------------------
(***************************************************************************)
(* Model servers on shared hardware: what a swap stops to load another      *)
(* model, and how a delegation gives the hardware back.                     *)
(*                                                                          *)
(* A server belongs to a slot of the process manager, which runs the preset *)
(* assigned to it, or to the serve registry.  plan_eviction decides what    *)
(* must stop for a preset, evict_records stops it, model.use loads the      *)
(* preset, restore_evicted brings the stopped servers back and may call     *)
(* model.use again.  Each of them awaits, so each delegation is a stack of  *)
(* the calls it still has to make; a step is what happens up to the next    *)
(* await.  Memory of a card is counted in units; host memory, CPU presets,  *)
(* remote presets and presets without a port are left out.                  *)
(***************************************************************************)
EXTENDS Naturals, Sequences, FiniteSets, SequencesExt

CONSTANTS
    Delegations, \* calls of specialist.delegate that route to a swap
    Newcomer,    \* the preset each of them needs
    Models,      \* local presets with a port
    Slots,       \* the process manager's slots, in the order of its table
    Assigned,    \* the preset each slot runs
    Port,        \* the port of each preset
    Cards,       \* the GPUs
    Room,        \* units of memory of a card
    Need,        \* units each preset takes of each card, 0 where it is not pinned
    Known,       \* presets whose need was measured or estimated
    Catalogued,  \* presets the catalog has under the name their launcher gives them
    Serving,     \* presets the serve registry runs at the beginning
    Brain,       \* the slot of the orchestrator's own model
    Overlap,     \* a delegation may begin while another is in progress
    Mishaps,     \* kinds of things that may go wrong
    MaxMishaps   \* bound on them

SlotSet == ToSet(Slots)
NoModel == "none"
Unset == "unset"

\* Servers that run together listen on different ports.
ASSUME SwapAssumption ==
    /\ Slots \in Seq(SlotSet) /\ {NoModel, Unset} \cap Models = {}
    /\ NoModel \notin SlotSet
    /\ \A s, t \in SlotSet : Port[Assigned[s]] = Port[Assigned[t]] => s = t
    /\ \A x \in Serving : \A y \in Serving \cup {Assigned[s] : s \in SlotSet} :
          Port[x] = Port[y] => x = y
    /\ IsFiniteSet(Delegations) /\ Newcomer \in [Delegations -> Models]
    /\ IsFiniteSet(Models) /\ IsFiniteSet(Cards)
    /\ Assigned \in [SlotSet -> Models] /\ Brain \in SlotSet
    /\ Port \in [Models -> Nat] /\ Room \in Nat
    /\ Need \in [Models -> [Cards -> Nat]]
    /\ Known \subseteq Models /\ Catalogued \subseteq Models /\ Serving \subseteq Models
    /\ Mishaps \subseteq {"refuse", "exit", "slow", "late", "mute", "early", "cancel"}
    /\ MaxMishaps \in Nat /\ Overlap \in BOOLEAN

VARIABLES
    armed,     \* slots with a run loop in the process manager
    up,        \* slots whose server runs
    served,    \* presets the serve registry runs
    loading,   \* those of them that do not answer yet
    cache,     \* _live_slot_cache
    begun,     \* delegations that were called
    todo,      \* the stack of the calls each delegation is in
    ret,       \* what its last model.use returned
    evicted,   \* run.evicted of each delegation
    before,    \* what was live when a delegation last began with none in progress
    reported,  \* and the presets whose restore was noted as failed since (history)
    displaced, \* and those that a restore's own stops took down (history)
    dropped,   \* a list of what was evicted was dropped (history)
    mishaps    \* how many of the bound were used

machine == <<armed, up, served, loading>>
history == <<before, reported, displaced, dropped>>
vars == <<machine, cache, begun, todo, ret, evicted, history, mishaps>>

Live == served \cup {Assigned[s] : s \in up}
Answering(m) == m \in Live /\ m \notin loading

Busy(d) == todo[d] # <<>>
Idle == \A d \in Delegations : ~Busy(d)

\* Eviction records.
SlotRec(s, m) == [kind |-> "slot", slot |-> s, preset |-> m]
ServeRec(m) == [kind |-> "serve", slot |-> NoModel, preset |-> m]
NoRec == ServeRec(NoModel)
SlotRecs == [kind : {"slot"}, slot : SlotSet, preset : Models \cup {NoModel}]
ServeRecs == [kind : {"serve"}, slot : {NoModel}, preset : Models]
Records == SlotRecs \cup ServeRecs
Mapped(F(_), recs) == [i \in 1..Len(recs) |-> F(recs[i])]

\* The calls on a delegation's stack: what they are about, the records they
\* have still to stop or to restore, and what they stopped.
Ops == {"use", "load", "confirm", "allround", "prepare", "child",
        "restore", "start", "wait", "note"}
Calls == [op : Ops, m : Models \cup {NoModel}, rec : Records \cup {NoRec},
          recs : Seq(Records), got : Seq(Records),
          brain : BOOLEAN, held : BOOLEAN, failed : BOOLEAN]
Call(op) == [op |-> op, m |-> NoModel, rec |-> NoRec, recs |-> <<>>, got |-> <<>>,
             brain |-> FALSE, held |-> FALSE, failed |-> FALSE]
Use(m, brain) == [Call("use") EXCEPT !.m = m, !.brain = brain]
Load(m, held, recs) == [Call("load") EXCEPT !.m = m, !.held = held, !.recs = recs]
StartSlot(rec, recs) == [Call("start") EXCEPT !.rec = rec, !.recs = recs]
Wait(rec) == [Call("wait") EXCEPT !.rec = rec]
Note(rec) == [Call("note") EXCEPT !.rec = rec]

\* restore_evicted.  (Mutant: in the order of the eviction, without the last.)
Restore(recs) == [Call("restore") EXCEPT !.recs = recs]
MutRestores(recs) == IF recs = <<>> THEN <<>> ELSE <<Restore(Front(recs))>>
Restores(recs) == IF recs = <<>> THEN <<>> ELSE <<Restore(Reverse(recs))>>

Nothing == [ok |-> FALSE, evicted |-> <<>>]

TypeOK ==
    /\ armed \subseteq SlotSet /\ up \subseteq armed
    /\ served \subseteq Models /\ loading \subseteq served
    /\ cache \in [SlotSet -> Models \cup {NoModel, Unset}]
    /\ begun \subseteq Delegations
    /\ todo \in [Delegations -> Seq(Calls)]
    /\ ret \in [Delegations -> [ok : BOOLEAN, evicted : Seq(Records)]]
    /\ evicted \in [Delegations -> Seq(Records)]
    /\ before \subseteq Models /\ reported \subseteq Models
    /\ displaced \subseteq Models
    /\ dropped \in BOOLEAN
    /\ mishaps \in 0..MaxMishaps

Init ==
    /\ armed = SlotSet /\ up = SlotSet
    /\ served = Serving /\ loading = {}
    /\ cache = [s \in SlotSet |-> Unset]
    /\ begun = {}
    /\ todo = [d \in Delegations |-> <<>>]
    /\ ret = [d \in Delegations |-> Nothing]
    /\ evicted = [d \in Delegations |-> <<>>]
    /\ before = {} /\ reported = {} /\ displaced = {}
    /\ dropped = FALSE
    /\ mishaps = 0

-----------------------------------------------------------------------------
(* Hardware.                                                                *)

Free(g) == LET used == MapThenSumSet(LAMBDA m : Need[m][g], Live)
           IN  IF used < Room THEN Room - used ELSE 0

\* A server can start: nobody listens on its port and its cards have room.
Fits(m) == /\ \A x \in Live : Port[x] # Port[m]
           /\ \A g \in Cards : Need[m][g] <= Free(g)

\* The cards of x are short for m; without a known need every shared card is.
Short(m, x) ==
    \E g \in Cards :
        /\ Need[m][g] > 0 /\ Need[x][g] > 0
        /\ m \notin Known \/ Free(g) < Need[m][g]

Conflict(m, x) == Port[x] = Port[m] \/ Short(m, x)

\* live_slot, and the cache after it.
OnSlot(s) ==
    LET here == {m \in Models : Port[m] = Port[Assigned[s]] /\ Answering(m)}
    IN  IF here = {} THEN NoModel ELSE CHOOSE m \in here : TRUE
LiveSlot(s) == IF cache[s] = Unset THEN OnSlot(s) ELSE cache[s]
Probed(slots) == [s \in SlotSet |-> IF s \in slots THEN LiveSlot(s) ELSE cache[s]]
Forgotten == [s \in SlotSet |-> Unset]

\* The elements of a sequence that are in T.
Kept(s, T) ==
    LET F[i \in 0..Len(s)] ==
          IF i = 0 THEN <<>>
          ELSE IF s[i] \in T THEN Append(F[i - 1], s[i]) ELSE F[i - 1]
    IN  F[Len(s)]

\* plan_eviction: the slots it names, whether they run or not, and its records.
\* (Mutant: the brain's among them, whoever asks.)
MutMayStop(s, brain) == TRUE
MayStop(s, brain) == s # Brain \/ brain
PlannedSlots(m, brain) ==
    Kept(Slots, {s \in SlotSet : MayStop(s, brain) /\ Conflict(m, Assigned[s])})
Plan(m, brain) ==
    Mapped(ServeRec, SetToSeq({x \in served : Conflict(m, x)}))
    \o [i \in 1..Len(PlannedSlots(m, brain)) |->
          LET s == PlannedSlots(m, brain)[i] IN SlotRec(s, LiveSlot(s))]
PlanProbes(m, brain) == Probed(ToSet(PlannedSlots(m, brain)))

-----------------------------------------------------------------------------
(* The calls.                                                               *)

Mishap(kind) == /\ kind \in Mishaps /\ mishaps < MaxMishaps
                /\ mishaps' = mishaps + 1
NoMishap == UNCHANGED mishaps

Next1(d) == Head(todo[d])
At(d, op) == Busy(d) /\ Next1(d).op = op
Restoring(d) == \E i \in DOMAIN todo[d] : todo[d][i].op = "restore"

\* The call returns and the given calls come next.
Then(d, calls) == todo' = [todo EXCEPT ![d] = calls \o Tail(@)]
Returns(d, ok, recs) == ret' = [ret EXCEPT ![d] = [ok |-> ok, evicted |-> recs]]
CacheAfter(recs) == cache' = IF recs = <<>> THEN cache ELSE Forgotten

\* The delegation picks its route.
Routes == SlotSet \ {Brain}
Begin(d) ==
    LET found == \E s \in Routes : LiveSlot(s) = Newcomer[d]
    IN  /\ d \notin begun /\ (Overlap \/ Idle)
        /\ begun' = begun \cup {d}
        /\ todo' = [todo EXCEPT ![d] =
                      (IF found THEN <<>>
                       ELSE <<Use(Newcomer[d], TRUE), Call("confirm")>>)
                      \o <<Call("prepare"), Call("child")>>]
        /\ cache' = Probed(Routes)
        /\ IF Idle THEN before' = Live /\ reported' = {} /\ displaced' = {}
                   ELSE UNCHANGED <<before, reported, displaced>>
        /\ UNCHANGED <<machine, ret, evicted, dropped>>
        /\ NoMishap

\* The registry records the path of the launcher's preset, and a restore hands
\* that to model.use, which may know none of that name.
Unlisted(d) ==
    \E i \in DOMAIN todo[d] :
        /\ i = 2 /\ todo[d][i].op = "note"
        /\ todo[d][i].rec.kind = "serve" /\ todo[d][i].rec.preset \notin Catalogued

\* model.use with swap: an error or already serving, or the plan and the load.
UseAtOnce(d) ==
    /\ At(d, "use") /\ (Unlisted(d) \/ Answering(Next1(d).m))
    /\ Returns(d, ~Unlisted(d), <<>>)
    /\ Then(d, <<>>)
    /\ UNCHANGED <<machine, cache, begun, evicted, history>> /\ NoMishap

UsePlans(d) ==
    LET c == Next1(d)
        held == \E x \in Models : Port[x] = Port[c.m] /\ Answering(x)
    IN  /\ At(d, "use") /\ ~Unlisted(d) /\ ~Answering(c.m)
        /\ Then(d, <<Load(c.m, held, Plan(c.m, c.brain))>>)
        /\ cache' = PlanProbes(c.m, c.brain)
        /\ UNCHANGED <<machine, begun, ret, evicted, history>> /\ NoMishap

\* evict_records, one record, called by a load or by the restore of a slot; the
\* caller learns what was stopped and that something could not be.
Evicting(d, kind) ==
    /\ Busy(d) /\ Next1(d).op \in {"load", "start"} /\ Next1(d).recs # <<>>
    /\ Head(Next1(d).recs).kind = kind
Stopped(d) ==
    Then(d, <<[Next1(d) EXCEPT !.recs = Tail(@),
                               !.got = Append(@, Head(Next1(d).recs))]>>)
NotStopped(d) ==
    Then(d, <<[Next1(d) EXCEPT !.recs = Tail(@), !.failed = TRUE]>>)
Displaces(d) ==
    displaced' = IF Restoring(d) THEN displaced \cup (Live \ Live') ELSE displaced

StopSlot(d) ==
    LET s == Head(Next1(d).recs).slot
    IN  /\ Evicting(d, "slot")
        /\ armed' = armed \ {s} /\ up' = up \ {s}
        /\ UNCHANGED <<served, loading>>
        /\ Stopped(d) /\ Displaces(d)
        /\ UNCHANGED <<cache, begun, ret, evicted, before, reported, dropped>>
        /\ NoMishap

StopServe(d) ==
    LET m == Head(Next1(d).recs).preset
    IN  /\ Evicting(d, "serve")
        /\ UNCHANGED <<armed, up>>
        /\ \/ /\ m \in served
              /\ served' = served \ {m} /\ loading' = loading \ {m}
              /\ Stopped(d) /\ Displaces(d) /\ NoMishap
           \/ /\ \/ m \notin served /\ NoMishap
                 \/ Mishap("refuse")
              /\ NotStopped(d) /\ UNCHANGED <<served, loading, displaced>>
        /\ UNCHANGED <<cache, begun, ret, evicted, before, reported, dropped>>

\* The preset is not loaded when a stop failed, its port is still held or its
\* cards together have no room, and then the caller is not told what was stopped.
\* (Mutant: a failed stop is ignored.)
MutRefusesLoad(c) == c.held /\ \E x \in Models : Port[x] = Port[c.m] /\ Answering(x)
RefusesLoad(c) ==
    \/ c.failed
    \/ c.held /\ \E x \in Models : Port[x] = Port[c.m] /\ Answering(x)
    \/ /\ c.m \in Known
       /\ MapThenSumSet(LAMBDA g : IF Need[c.m][g] > 0 THEN Free(g) ELSE 0, Cards)
            < MapThenSumSet(LAMBDA g : Need[c.m][g], Cards)

LoadRefused(d) ==
    LET c == Next1(d)
    IN  /\ At(d, "load") /\ c.recs = <<>> /\ RefusesLoad(c)
        /\ Returns(d, FALSE, <<>>)
        /\ Then(d, <<>>)
        /\ CacheAfter(c.got)
        /\ dropped' = (dropped \/ (c.got # <<>> /\ ~Restoring(d)))
        /\ UNCHANGED <<machine, begun, evicted, before, reported, displaced>>
        /\ NoMishap

\* The server is healthy, or still loading when the wait for it ends.
Loads(d) ==
    LET c == Next1(d)
    IN  /\ At(d, "load") /\ c.recs = <<>> /\ ~RefusesLoad(c) /\ Fits(c.m)
        /\ served' = served \cup {c.m}
        /\ \/ UNCHANGED loading /\ NoMishap
           \/ loading' = loading \cup {c.m} /\ Mishap("slow")
        /\ Returns(d, TRUE, c.got)
        /\ Then(d, <<>>)
        /\ cache' = Forgotten
        /\ UNCHANGED <<armed, up, begun, evicted, history>>

\* The server exits, on hardware that is not free it has to; model.use restores
\* what it stopped.  (Mutant: it does not.)
MutRolledBack(c) == <<>>
RolledBack(c) == Restores(c.got)
LoadFails(d) ==
    LET c == Next1(d)
    IN  /\ At(d, "load") /\ c.recs = <<>> /\ ~RefusesLoad(c)
        /\ IF Fits(c.m) THEN Mishap("exit") ELSE NoMishap
        /\ Returns(d, FALSE, <<>>)
        /\ Then(d, RolledBack(c))
        /\ CacheAfter(c.got)
        /\ UNCHANGED <<machine, begun, evicted, before, reported, displaced,
                       dropped>>

\* The delegation looks for its specialist.
Found(d) == \E s \in Routes : LiveSlot(s) = Newcomer[d]

Confirmed(d) ==
    /\ At(d, "confirm") /\ ret[d].ok /\ Found(d)
    /\ evicted' = [evicted EXCEPT ![d] = ret[d].evicted]
    /\ Then(d, <<>>)
    /\ cache' = Probed(Routes)
    /\ UNCHANGED <<machine, begun, ret, history>> /\ NoMishap

\* It answers no generation: everything is restored and the delegation ends.
Mute(d) ==
    /\ At(d, "confirm") /\ ret[d].ok /\ Found(d)
    /\ Mishap("mute")
    /\ todo' = [todo EXCEPT ![d] = Restores(ret[d].evicted)]
    /\ cache' = Probed(Routes)
    /\ UNCHANGED <<machine, begun, ret, evicted, history>>

Polls(d) ==
    /\ At(d, "confirm") /\ ret[d].ok /\ ~Found(d)
    /\ cache' = Probed(Routes)
    /\ UNCHANGED <<machine, begun, todo, ret, evicted, history>> /\ NoMishap

\* The wait is over, after at least one probe, or there was nothing to wait for.
\* (Mutant: the loop has no deadline.)
MutGivesUp(d) == ~ret[d].ok
GivesUp(d) == ret[d].ok => ~Found(d) /\ cache = Probed(Routes)
FallsBack(d) ==
    /\ At(d, "confirm") /\ GivesUp(d)
    /\ evicted' = [evicted EXCEPT ![d] = ret[d].evicted]
    /\ Then(d, <<Call("allround")>>)
    /\ UNCHANGED <<machine, cache, begun, ret, history>> /\ NoMishap

Allround(d) ==
    /\ At(d, "allround")
    /\ Then(d, <<>>)
    /\ cache' = Probed(Routes)
    /\ UNCHANGED <<machine, begun, ret, evicted, history>> /\ NoMishap

\* The tools, the worktree and the checks of the child; an error ends the
\* delegation.
Prepare(d) ==
    /\ At(d, "prepare")
    /\ \/ Then(d, <<>>) /\ UNCHANGED dropped /\ NoMishap
       \/ /\ todo' = [todo EXCEPT ![d] = <<>>] /\ Mishap("early")
          /\ dropped' = (dropped \/ evicted[d] # <<>>)
    /\ UNCHANGED <<machine, cache, begun, ret, evicted, before, reported,
                   displaced>>

\* The child ends, raises or is cancelled.
Child(d) ==
    /\ At(d, "child")
    /\ Then(d, Restores(evicted[d]))
    /\ UNCHANGED <<machine, cache, begun, ret, evicted, history>> /\ NoMishap

\* restore_evicted, one record.  A slot is started when its own preset was on
\* it, after what stands in its way, its own record apart, was stopped.
OwnPreset(rec) ==
    rec.kind = "slot" /\ rec.preset \in {NoModel, Assigned[rec.slot]}

Leftovers(rec) ==
    Kept(Plan(Assigned[rec.slot], FALSE), {r \in Records : r.slot # rec.slot})

\* The first record to restore, and what is left of the loop.
HasRecord(d) == At(d, "restore") /\ Next1(d).recs # <<>>
Record(d) == Head(Next1(d).recs)
Remaining(d) == Restore(Tail(Next1(d).recs))

RestoreSlot(d) ==
    LET rec == Record(d)
    IN  /\ HasRecord(d) /\ OwnPreset(rec)
        /\ Then(d, <<StartSlot(rec, Leftovers(rec)), Remaining(d)>>)
        /\ cache' = PlanProbes(Assigned[rec.slot], FALSE)
        /\ UNCHANGED <<machine, begun, ret, evicted, history>> /\ NoMishap

RestoreByUse(d) ==
    LET rec == Record(d)
    IN  /\ HasRecord(d) /\ ~OwnPreset(rec)
        /\ Then(d, <<Use(rec.preset, FALSE), Note(rec), Remaining(d)>>)
        /\ UNCHANGED <<machine, cache, begun, ret, evicted, history>> /\ NoMishap

\* start_one: the run loop exists again; the server follows if it can.
Start(d) ==
    LET c == Next1(d)
        s == c.rec.slot
    IN  /\ At(d, "start") /\ c.recs = <<>>
        /\ armed' = armed \cup {s}
        /\ Then(d, <<Wait(c.rec)>>)
        /\ CacheAfter(c.got)
        /\ UNCHANGED <<up, served, loading, begun, ret, evicted, history>>
        /\ NoMishap

WaitEnds(d) ==
    LET s == Next1(d).rec.slot
    IN  /\ At(d, "wait")
        /\ \/ s \in up /\ UNCHANGED reported /\ NoMishap
           \/ /\ s \notin up
              /\ IF s \in armed /\ Fits(Assigned[s]) THEN Mishap("late")
                                                      ELSE NoMishap
              /\ reported' = reported \cup {Assigned[s]}
        /\ Then(d, <<>>)
        /\ UNCHANGED <<machine, cache, begun, ret, evicted, before, displaced,
                   dropped>>

NoteUse(d) ==
    /\ At(d, "note")
    /\ reported' = IF ret[d].ok THEN reported
                   ELSE reported \cup {Next1(d).rec.preset}
    /\ Then(d, <<>>)
    /\ UNCHANGED <<machine, cache, begun, ret, evicted, before, displaced,
                   dropped>>
    /\ NoMishap

RestoreEnds(d) ==
    /\ At(d, "restore") /\ Next1(d).recs = <<>>
    /\ Returns(d, FALSE, <<>>)
    /\ Then(d, <<>>)
    /\ cache' = Forgotten
    /\ UNCHANGED <<machine, begun, evicted, history>> /\ NoMishap

\* /api/cancel at any other await: nothing catches it.
Cancel(d) ==
    /\ Busy(d) /\ ~At(d, "child")
    /\ Mishap("cancel")
    /\ todo' = [todo EXCEPT ![d] = <<>>]
    /\ dropped' = TRUE
    /\ UNCHANGED <<machine, cache, begun, ret, evicted, before, reported,
                   displaced>>

-----------------------------------------------------------------------------
(* The servers and the clock.                                               *)

SlotComesUp(s) ==
    /\ s \in armed \ up /\ Fits(Assigned[s])
    /\ up' = up \cup {s}
    /\ UNCHANGED <<armed, served, loading, cache, begun, todo, ret, evicted,
                   history>> /\ NoMishap

Answers(m) ==
    /\ m \in loading
    /\ loading' = loading \ {m}
    /\ UNCHANGED <<armed, up, served, cache, begun, todo, ret, evicted, history>>
    /\ NoMishap

\* An entry of the cache lives for 120 seconds, as long as a delegation waits
\* for its specialist (both defaults), and is younger than that wait.
Expires(s) ==
    /\ cache[s] # Unset
    /\ \A d \in Delegations : ~At(d, "confirm")
    /\ cache' = [cache EXCEPT ![s] = Unset]
    /\ UNCHANGED <<machine, begun, todo, ret, evicted, history>> /\ NoMishap

Step(d) ==
    \/ UseAtOnce(d) \/ UsePlans(d) \/ StopSlot(d) \/ StopServe(d)
    \/ LoadRefused(d) \/ Loads(d) \/ LoadFails(d)
    \/ Confirmed(d) \/ Mute(d) \/ Polls(d) \/ FallsBack(d) \/ Allround(d)
    \/ Prepare(d) \/ Child(d) \/ RestoreSlot(d) \/ RestoreByUse(d)
    \/ Start(d) \/ WaitEnds(d) \/ NoteUse(d) \/ RestoreEnds(d)

Next ==
    \/ \E d \in Delegations : Begin(d) \/ Step(d) \/ Cancel(d)
    \/ \E s \in SlotSet : SlotComesUp(s) \/ Expires(s)
    \/ \E m \in Models : Answers(m)

Spec == Init /\ [][Next]_vars

\* Every await of a delegation ends: stops, probes and waits have deadlines, the
\* child has a budget; a server that fits comes up.
FairSpec ==
    /\ Spec
    /\ \A d \in Delegations : WF_vars(Step(d))
    /\ WF_vars(\E s \in SlotSet : SlotComesUp(s))

-----------------------------------------------------------------------------
(* Correctness.                                                             *)

\* The hardware is handed back: after a delegation every model that was live
\* before it is live again, or its restore was reported as failed.
HandedBack == Idle => before \subseteq Live \cup reported

\* What a swap evicts is accounted for: unless the list of it was dropped, every
\* model that was live is live again, was reported, or went down by a stop that
\* a restore itself had to make.
EvictionsAccounted ==
    ~dropped /\ Idle => before \subseteq Live \cup reported \cup displaced

\* The brain that a swap took down comes back, or its restore is reported: not
\* even another restore's own stops are an excuse.
BrainBack ==
    ~dropped /\ Idle /\ Assigned[Brain] \in before => Assigned[Brain] \in Live \cup reported

\* Only a swap of the delegation itself takes the brain down, never a restore,
\* not even to make room for another model.
BrainSpared ==
    [][Brain \notin up' /\ Brain \in up
         => \E d \in Delegations : At(d, "load") /\ ~Restoring(d)]_vars

\* The brain returns first: no other slot is started while it is on the list.
BrainFirst ==
    \A d \in Delegations : At(d, "start") /\ Next1(d).rec.slot # Brain =>
        \A i \in DOMAIN todo[d] :
            todo[d][i].op = "restore" => \A r \in ToSet(todo[d][i].recs) : r.slot # Brain

\* A swap in which nothing goes wrong brings everything back.
CleanSwap == Idle /\ mishaps = 0 => before \subseteq Live

\* A preset of unknown need has its cards to itself when a delegation's own swap
\* loads it: whatever was there when the swap was planned, came up meanwhile or
\* refused to stop, nothing is loaded onto half-freed hardware.
UnknownAlone ==
    [][\A d \in Delegations :
         At(d, "load") /\ ~Restoring(d) /\ Next1(d).m \notin Known
                       /\ Next1(d).m \in served' \ served
             => \A x \in Live, g \in Cards :
                   Need[Next1(d).m][g] = 0 \/ Need[x][g] = 0]_vars

\* Nothing at all is launched onto hardware that is not free for it.
NoOverload == [][\A d \in Delegations : LoadFails(d) => Fits(Next1(d).m)]_vars

\* A specialist that has come up while the delegation waits for it is used.
PatientSwap ==
    [][\A d \in Delegations :
         At(d, "confirm") /\ ret[d].ok /\ At(d, "allround")'
             => ~Answering(Newcomer[d])]_vars

\* A delegation ends, although restores load and loads restore.
DelegationEnds == \A d \in Delegations : Busy(d) ~> ~Busy(d)
=============================================================================
