----------------------------- MODULE BrainOverlays -----------------------------
(***************************************************************************)
(* How evidence becomes a change of one brain: the matched experiments and *)
(* the ordinary eval runs that produce proposals, the inbox of proposals   *)
(* in eval.db, the append-only overlay versions in presets.db and the copy *)
(* of the active one in the running process's configuration.               *)
(*                                                                         *)
(* The two databases commit separately and an accept writes both, so a     *)
(* restart may fall between; the configuration follows by a reload that    *)
(* may fail.                                                               *)
(***************************************************************************)
EXTENDS Integers, Sequences, FiniteSets

CONSTANTS
    Edits,          \* what a proposal may change
    TweakCap,       \* _TWEAK_CAP
    MaxExps,        \* bound: experiments
    MaxRuns,        \* bound: ordinary runs
    MaxVersions,    \* bound: stored overlay versions
    MaxChanges,     \* bound: edits of other artifacts by an administrator
    MaxMishaps      \* bound: failed reloads and restarts

Nothing == "nothing"
Kinds == {"overlay", "tweak"}

VARIABLES
    versions,   \* stored snapshots: their lines, base, proposal and evidence
    active,     \* the active version, 0 for the empty baseline
    loaded,     \* the version in the process's configuration
    artifact,   \* every other artifact of the runtime
    inbox,      \* proposals by id
    exps,       \* experiments
    run,        \* the ordinary eval run in progress
    changes,    \* edits of artifacts so far
    runs,       \* ordinary runs so far
    mishaps     \* failed reloads and restarts so far

store == <<versions, active>>
bounds == <<changes, runs, mishaps>>
vars == <<store, loaded, artifact, inbox, exps, run, bounds>>

Line == [kind : Kinds, edit : Edits]
Version == [lines : Seq(Line), base : Nat, prop : Nat, kind : Kinds \cup {"copy"},
            ran : SUBSET Nat]
Proposal == [kind : Kinds, edit : Edits, base : Nat, ran : SUBSET Nat,
             status : {"pending", "accepted", "rejected", "deleted"}]
Artifact == Nat \X {0, 1}
Experiment == [status : {"none", "running", "done", "cancelled", "error"},
               pc : {"idle", "case", "editor"}, arm : 0 .. 3, base : Nat,
               print : Artifact, seen : SUBSET Artifact,
               edit : Edits \cup {Nothing}, filed : BOOLEAN]

\* A job without evidence: not started, or over before it was complete.
Over(status) == [status |-> status, pc |-> "idle", arm |-> 0, base |-> 0,
                 print |-> <<0, 0>>, seen |-> {}, edit |-> Nothing, filed |-> FALSE]
NoRun == [pc |-> "idle", base |-> 0]

Init ==
    /\ versions = <<>> /\ active = 0 /\ loaded = 0 /\ artifact = 0
    /\ inbox = <<>> /\ exps = [e \in 1 .. MaxExps |-> Over("none")] /\ run = NoRun
    /\ changes = 0 /\ runs = 0 /\ mishaps = 0

Mishap == mishaps < MaxMishaps /\ mishaps' = mishaps + 1

\* What the fingerprint covers.
Artifacts == <<loaded, artifact>>

\* The lines of a version; version 0 is the empty baseline.
Lines(v) == IF v = 0 THEN <<>> ELSE versions[v].lines

------------------------------------------------------------------------------
(* The inbox. *)

Pending == {p \in DOMAIN inbox : inbox[p].status = "pending"}
SameKey(p, kind, edit) == inbox[p].kind = kind /\ inbox[p].edit = edit /\ inbox[p].status # "deleted"

\* One open item per case, class and brain.
Superseded(kind) ==
    [p \in DOMAIN inbox |->
        IF p \in Pending /\ inbox[p].kind = kind
        THEN [inbox[p] EXCEPT !.status = "deleted"] ELSE inbox[p]]

\* A new key is inserted, a pending one refreshed, a decided one left.
Added(kind, edit, base, ran) ==
    LET row == [kind |-> kind, edit |-> edit, base |-> base, ran |-> ran, status |-> "pending"]
        same == {p \in DOMAIN inbox : SameKey(p, kind, edit)}
    IN  IF same = {} THEN Append(Superseded(kind), row)
        ELSE [p \in DOMAIN inbox |-> IF p \in same \cap Pending THEN row ELSE inbox[p]]

------------------------------------------------------------------------------
(* Experiments: baseline, two candidates and their composition, each run   *)
(* under the same artifacts.                                               *)

Running(e) == exps[e].pc # "idle"

Begun == [status |-> "running", pc |-> "case", arm |-> 0, base |-> loaded,
          print |-> Artifacts, seen |-> {Artifacts}, edit |-> Nothing, filed |-> FALSE]

Launch(e) ==
    /\ exps[e].status = "none" /\ \A d \in 1 .. MaxExps : ~Running(d)
    /\ e > 1 => exps[e - 1].status # "none"
    /\ exps' = [exps EXCEPT ![e] = Begun]
    /\ UNCHANGED <<store, loaded, artifact, inbox, run, bounds>>

\* Checked before and after every run and after every call of the editor.
Matched(e) == exps[e].print = Artifacts

\* Artifacts moved, a run was not measured, the editor failed or the cost cap
\* is reached.
Fails(e) ==
    /\ Running(e)
    /\ exps' = [exps EXCEPT ![e] = Over("error")]
    /\ UNCHANGED <<store, loaded, artifact, inbox, run, bounds>>

Cancelled(e) ==
    /\ Running(e) /\ Matched(e)
    /\ exps' = [exps EXCEPT ![e] = Over("cancelled")]
    /\ UNCHANGED <<store, loaded, artifact, inbox, run, bounds>>

Seen(e) == exps[e].seen \cup {Artifacts}

Complete(e) ==
    [status |-> "done", pc |-> "idle", arm |-> 0, base |-> exps[e].base,
     print |-> <<0, 0>>, seen |-> Seen(e), edit |-> exps[e].edit, filed |-> FALSE]

\* An arm's run was measured: the editor's turn, the next arm, or complete.
ArmEnds(e) ==
    /\ exps[e].pc = "case" /\ Matched(e)
    /\ \/ /\ exps[e].arm \in {0, 2}
          /\ exps' = [exps EXCEPT ![e] = [@ EXCEPT !.pc = "editor", !.seen = Seen(e)]]
       \/ /\ exps[e].arm = 1
          /\ exps' = [exps EXCEPT ![e] = [@ EXCEPT !.arm = 2, !.seen = Seen(e)]]
       \/ /\ exps[e].arm = 3
          /\ exps' = [exps EXCEPT ![e] = Complete(e)]
    /\ UNCHANGED <<store, loaded, artifact, inbox, run, bounds>>

\* The editor proposes two candidates, and later composes what is to stay.
EditorEnds(e) ==
    /\ exps[e].pc = "editor" /\ Matched(e)
    /\ exps[e].arm \in {0, 2}
    /\ \E edit \in IF exps[e].arm = 2 THEN Edits \cup {Nothing} ELSE {Nothing} :
        exps' = [exps EXCEPT ![e] = [@ EXCEPT !.pc = "case", !.arm = exps[e].arm + 1,
                                              !.edit = edit, !.seen = Seen(e)]]
    /\ UNCHANGED <<store, loaded, artifact, inbox, run, bounds>>

\* create_proposals, once.
File(e) ==
    /\ exps[e].status = "done" /\ ~exps[e].filed /\ exps[e].edit # Nothing
    /\ LET added == Added("overlay", exps[e].edit, exps[e].base, {a[1] : a \in exps[e].seen})
       IN  /\ inbox' = added
           /\ exps' = [exps EXCEPT ![e].filed =
                \E p \in DOMAIN added : /\ added[p].kind = "overlay"
                                        /\ added[p].edit = exps[e].edit
                                        /\ added[p].status = "pending"]
    /\ UNCHANGED <<store, loaded, artifact, run, bounds>>

------------------------------------------------------------------------------
(* Ordinary runs of the brain, from chats and suites. *)

RunStarts ==
    /\ run.pc = "idle" /\ runs < MaxRuns
    /\ run' = [pc |-> "turns", base |-> loaded]
    /\ runs' = runs + 1
    /\ UNCHANGED <<store, loaded, artifact, inbox, exps, changes, mishaps>>

\* A failed case's proposal carries the version loaded when the verdict is in.
RunEnds ==
    /\ run.pc = "turns"
    /\ run' = NoRun
    /\ \/ UNCHANGED inbox
       \/ \E edit \in Edits : inbox' = Added("tweak", edit, loaded, {run.base})
    /\ UNCHANGED <<store, loaded, artifact, exps, bounds>>

------------------------------------------------------------------------------
(* The administrator. *)

Stored(p) == \E v \in DOMAIN versions : versions[v].prop = p

\* The cap is judged before the store is asked whether it knows the proposal.
Refused(p) ==
    /\ inbox[p].kind = "tweak"
    /\ Len(SelectSeq(Lines(active), LAMBDA l : l.kind = "tweak")) >= TweakCap

MutFresh(p) == TRUE
\* The proposal's base is the active version.
Fresh(p) == inbox[p].base = active

Appliable(p) ==
    /\ inbox[p].status # "deleted" /\ ~Refused(p)
    /\ Stored(p) \/ (Fresh(p) /\ Len(versions) < MaxVersions)

\* The versions after applying p: unchanged when one came from p already.
Applied(p) ==
    IF Stored(p) THEN versions
    ELSE Append(versions,
                [lines |-> Append(Lines(active), [kind |-> inbox[p].kind, edit |-> inbox[p].edit]),
                 base |-> inbox[p].base, prop |-> p, kind |-> inbox[p].kind,
                 ran |-> inbox[p].ran])

Activated(p) == IF Stored(p) THEN active ELSE Len(versions) + 1

Marked(p, status) == [inbox EXCEPT ![p].status = status]

Accept(p) ==
    /\ Appliable(p)
    /\ versions' = Applied(p) /\ active' = Activated(p) /\ loaded' = active'
    /\ inbox' = Marked(p, "accepted")
    /\ UNCHANGED <<artifact, exps, run, bounds>>

\* Stored, but the reload fails: the answer asks for another accept.
AcceptUnloaded(p) ==
    /\ Appliable(p) /\ Mishap
    /\ versions' = Applied(p) /\ active' = Activated(p)
    /\ UNCHANGED <<loaded, artifact, inbox, exps, run, changes, runs>>

Restarted ==
    /\ loaded' = active'
    /\ exps' = [e \in DOMAIN exps |->
                  IF Running(e) THEN Over("running") ELSE exps[e]]
    /\ run' = NoRun

MutBetween(p) == inbox' = Marked(p, "accepted") /\ UNCHANGED store
\* A restart between the two commits of an accept.
Between(p) ==
    /\ versions' = Applied(p) /\ active' = Activated(p)
    /\ UNCHANGED inbox

AcceptCrashes(p) ==
    /\ Appliable(p) /\ Mishap
    /\ Between(p)
    /\ Restarted
    /\ UNCHANGED <<artifact, changes, runs>>

Reject(p) ==
    /\ inbox[p].status \notin {"deleted", "rejected"}
    /\ inbox' = Marked(p, "rejected")
    /\ UNCHANGED <<store, loaded, artifact, exps, run, bounds>>

\* Restore: a copy of an older snapshot becomes a new version.
Rollback(v) ==
    /\ Len(versions) < MaxVersions
    /\ versions' = Append(versions, [lines |-> Lines(v), base |-> active, prop |-> 0,
                                     kind |-> "copy", ran |-> {}])
    /\ active' = Len(versions) + 1
    /\ \/ loaded' = active' /\ UNCHANGED mishaps
       \/ UNCHANGED loaded /\ Mishap
    /\ UNCHANGED <<artifact, inbox, exps, run, changes, runs>>

\* Another change of presets reloads them all.
Reload ==
    /\ loaded # active /\ loaded' = active
    /\ UNCHANGED <<store, artifact, inbox, exps, run, bounds>>

\* A prompt, skill, tool or setting is edited, or edited back.
Change ==
    /\ changes < MaxChanges /\ changes' = changes + 1
    /\ artifact' = 1 - artifact
    /\ UNCHANGED <<store, loaded, inbox, exps, run, runs, mishaps>>

Crash ==
    /\ Mishap
    /\ UNCHANGED store
    /\ Restarted
    /\ UNCHANGED <<artifact, inbox, changes, runs>>

Next ==
    \/ \E e \in 1 .. MaxExps : Launch(e) \/ ArmEnds(e) \/ EditorEnds(e) \/ Fails(e)
                               \/ Cancelled(e) \/ File(e)
    \/ RunStarts \/ RunEnds
    \/ \E p \in DOMAIN inbox : Accept(p) \/ AcceptUnloaded(p) \/ AcceptCrashes(p) \/ Reject(p)
    \/ \E v \in 0 .. Len(versions) : Rollback(v)
    \/ Reload \/ Change \/ Crash

Spec == Init /\ [][Next]_vars

------------------------------------------------------------------------------
(* Properties. *)

\* The types of the state.
TypeOK ==
    /\ versions \in Seq(Version) /\ active = Len(versions)
    /\ loaded \in Nat /\ artifact \in {0, 1}
    /\ inbox \in Seq(Proposal)
    /\ exps \in [1 .. MaxExps -> Experiment]
    /\ run \in [pc : {"idle", "turns"}, base : Nat]
    /\ changes \in Nat /\ runs \in Nat /\ mishaps \in Nat

\* What is marked accepted is in the brain's history, whenever the restart came.
AcceptedIsStored ==
    \A p \in DOMAIN inbox : inbox[p].status = "accepted" => Stored(p)

\* A lesson of an experiment extends the snapshot its arms ran under.
ExperimentEvidence ==
    \A v \in DOMAIN versions : versions[v].kind = "overlay" => versions[v].ran = {v - 1}

\* The same of every lesson.
EveryEvidence ==
    \A v \in DOMAIN versions : versions[v].kind \in Kinds => versions[v].ran = {v - 1}

\* All arms of a completed experiment began and ended under the same artifacts.
MatchedAtEnds == \A e \in DOMAIN exps : exps[e].status = "done" => Cardinality(exps[e].seen) = 1

(* The inductive invariant behind ExperimentEvidence. *)

RunningEvidence ==
    \A e \in 1 .. MaxExps : Running(e) =>
        /\ exps[e].print \in Artifact /\ exps[e].print[1] = exps[e].base
        /\ exps[e].seen = {exps[e].print}
DoneEvidence ==
    \A e \in 1 .. MaxExps : exps[e].status = "done" =>
        {a[1] : a \in exps[e].seen} = {exps[e].base}
InboxEvidence ==
    \A p \in DOMAIN inbox : inbox[p].kind = "overlay" => inbox[p].ran = {inbox[p].base}
IInv == TypeOK /\ RunningEvidence /\ DoneEvidence /\ InboxEvidence /\ ExperimentEvidence
=============================================================================
