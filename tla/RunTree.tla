------------------------------- MODULE RunTree -------------------------------
(***************************************************************************)
(* An agent run and the sub-agents it spawns: what they may spend, and how   *)
(* a cancellation reaches them.                                              *)
(*                                                                           *)
(* One budget dimension is modelled, the charged tokens; the cost is carved  *)
(* and reconciled by the same code.  A run checks its ceiling at the top of  *)
(* each iteration, takes a model turn, and then answers or runs the turn's   *)
(* tools.  They may spawn children, one after the other, or several at once  *)
(* (agent.fanout, parallel tool calls), each carved from what the parent has *)
(* left at that moment, and they may call models themselves, which is        *)
(* charged when the batch is recorded.  A run out of iterations, or of       *)
(* context, still takes a last turn without tools, which no ceiling is       *)
(* checked for.  What a run does, its guards and its other ceilings are left *)
(* out: a run may end after any turn, and be out of iterations at any check. *)
(***************************************************************************)
EXTENDS Naturals, FiniteSets, FiniteSetsExt

CONSTANTS
    Ceiling,   \* max_total_tokens of the top-level run, 0 for none
    Requests,  \* the max_total_tokens that spawn calls and the configuration name
    MaxTurn,   \* bound on the tokens charged for a turn
    MaxTools,  \* bound on the tokens charged for model calls of a turn's tools
    MaxDepth,  \* agent.max_depth
    MaxBatch,  \* children spawned by one turn
    MaxRuns    \* bound on the runs in the tree

ASSUME TreeAssumption ==
    /\ Ceiling \in Nat
    /\ Requests \subseteq Nat
    /\ MaxTurn \in Nat \ {0} /\ MaxTools \in Nat
    /\ MaxDepth \in Nat
    /\ MaxBatch \in Nat \ {0}
    /\ MaxRuns \in Nat \ {0}

VARIABLES
    at,         \* where each run is
    parent,     \* the run that spawned it, 0 for the top-level run
    depth,      \* its nesting depth
    ceil,       \* its max_total_tokens
    spent,      \* its charged tokens, those of its finished children included
    own,        \* the tokens of its own turns and tools (history)
    wide,       \* a turn has spawned several children (history)
    pending,    \* runs a CancelledError is to be thrown into
    cancelled   \* the task of the top-level run was cancelled

vars == <<at, parent, depth, ceil, spent, own, wide, pending, cancelled>>

Runs == 1..MaxRuns
Exists == {r \in Runs : at[r] # "none"}
Live == {r \in Runs : at[r] \notin {"none", "done"}}
LiveChildren(r) == {c \in Live : parent[c] = r}

TypeOK ==
    /\ at \in [Runs -> {"none", "loop", "act", "wait", "last", "done"}]
    /\ parent \in [Runs -> 0..MaxRuns]
    /\ depth \in [Runs -> 0..MaxDepth]
    /\ ceil \in [Runs -> Nat]
    /\ spent \in [Runs -> Nat]
    /\ own \in [Runs -> Nat]
    /\ wide \in BOOLEAN
    /\ pending \subseteq Runs
    /\ cancelled \in BOOLEAN

Init ==
    /\ at = [r \in Runs |-> IF r = 1 THEN "loop" ELSE "none"]
    /\ parent = [r \in Runs |-> 0]
    /\ depth = [r \in Runs |-> 0]
    /\ ceil = [r \in Runs |-> IF r = 1 THEN Ceiling ELSE 0]
    /\ spent = [r \in Runs |-> 0]
    /\ own = [r \in Runs |-> 0]
    /\ wide = FALSE
    /\ pending = {}
    /\ cancelled = FALSE

-----------------------------------------------------------------------------
(* Budget.                                                                   *)

\* Budget.check: a ceiling of 0 is no ceiling.
Exceeded(r) == ceil[r] # 0 /\ spent[r] > ceil[r]

Remaining(r) == IF spent[r] < ceil[r] THEN ceil[r] - spent[r] ELSE 0

\* _child_budget on a request and the parent's remaining allowance.
\* (Mutant: the request is not clamped.)
MutCarved(request, rem) == request
Carved(request, rem) ==
    IF rem # 0 /\ rem < request THEN rem ELSE request

\* The ceilings a child of r may get; no request means the remaining allowance.
ChildCeilings(r) ==
    {Carved(q, Remaining(r)) : q \in Requests \cup {Remaining(r)}}

\* spawn refuses when the parent's own ceiling is spent, since a remaining
\* allowance of 0 would read as no ceiling, and beyond the nesting cap.
MaySpawn(r) ==
    /\ depth[r] + 1 <= MaxDepth
    /\ ~(ceil[r] # 0 /\ Remaining(r) = 0)

-----------------------------------------------------------------------------
(* The runs.                                                                 *)

\* The run returns, with that many tokens more; the spawn that awaits it adds
\* its spend to the parent's.
Charged(r, more) ==
    [p \in Runs |-> IF p = parent[r] THEN spent[p] + spent[r] + more
                    ELSE IF p = r THEN spent[r] + more ELSE spent[p]]

Return(r, more) ==
    /\ at' = [at EXCEPT ![r] = "done"]
    /\ spent' = Charged(r, more)
    /\ own' = [own EXCEPT ![r] = @ + more]
    /\ pending' = pending \ {r}
    /\ UNCHANGED <<parent, depth, ceil, wide, cancelled>>

\* What a turn of that many tokens is charged as.  (Mutant: nothing.)
MutUsage(tokens) == 0
Usage(tokens) == tokens

\* The top of the loop: a run over its ceiling ends before another turn.
OverBudget(r) ==
    /\ at[r] = "loop" /\ r \notin pending
    /\ Exceeded(r)
    /\ Return(r, 0)

\* The iterations are tested before the tokens, so a run that is out of both
\* comes here too; and a turn may find the context window exhausted.
LastTurn(r) ==
    /\ at[r] = "loop" /\ r \notin pending
    /\ at' = [at EXCEPT ![r] = "last"]
    /\ UNCHANGED <<parent, depth, ceil, spent, own, wide, pending, cancelled>>

\* No turn is taken where there is no tool result to summarize, and one that
\* fails or says nothing is not charged.
FinalSynthesis(r) ==
    /\ at[r] = "last" /\ r \notin pending
    /\ \E tokens \in 0..MaxTurn : Return(r, Usage(tokens))

Turn(r) ==
    /\ at[r] = "loop" /\ r \notin pending
    /\ ~Exceeded(r)
    /\ \E tokens \in 1..MaxTurn :
          /\ spent' = [spent EXCEPT ![r] = @ + Usage(tokens)]
          /\ own' = [own EXCEPT ![r] = @ + Usage(tokens)]
    /\ at' = [at EXCEPT ![r] = "act"]
    /\ UNCHANGED <<parent, depth, ceil, wide, pending, cancelled>>

Answer(r) == at[r] = "act" /\ r \notin pending /\ Return(r, 0)

\* The batch of the turn is recorded, a refused spawn included, and what its
\* tools spent on models is charged, after all of them have run.
GoOn(r) ==
    /\ at[r] = "act" /\ r \notin pending
    /\ \E tokens \in 0..MaxTools :
          /\ spent' = [spent EXCEPT ![r] = @ + tokens]
          /\ own' = [own EXCEPT ![r] = @ + tokens]
    /\ at' = [at EXCEPT ![r] = "loop"]
    /\ UNCHANGED <<parent, depth, ceil, wide, pending, cancelled>>

Spawn(r) ==
    /\ at[r] = "act" /\ r \notin pending
    /\ MaySpawn(r)
    /\ \E n \in 1..MaxBatch :
          LET first == Cardinality(Exists) + 1
              new == first..(first + n - 1)
          IN  /\ new \subseteq Runs
              /\ wide' = (wide \/ n > 1)
              /\ \E c \in [new -> ChildCeilings(r)] :
                    ceil' = [s \in Runs |-> IF s \in new THEN c[s] ELSE ceil[s]]
              /\ at' = [s \in Runs |-> IF s \in new THEN "loop"
                                       ELSE IF s = r THEN "wait" ELSE at[s]]
              /\ parent' = [s \in Runs |-> IF s \in new THEN r ELSE parent[s]]
              /\ depth' = [s \in Runs |->
                             IF s \in new THEN depth[r] + 1 ELSE depth[s]]
    /\ UNCHANGED <<spent, own, pending, cancelled>>

\* The children have returned, and the rest of the batch is next.  Their own
\* handlers swallowed a cancellation; the spawn looks at the task and raises it
\* again.
\* (Mutant: it does not.)
MutReRaises == FALSE
ReRaises == cancelled

Resume(r) ==
    /\ at[r] = "wait" /\ r \notin pending
    /\ LiveChildren(r) = {}
    /\ at' = [at EXCEPT ![r] = "act"]
    /\ pending' = IF ReRaises THEN pending \cup {r} ELSE pending
    /\ UNCHANGED <<parent, depth, ceil, spent, own, wide, cancelled>>

\* /api/cancel: the CancelledError is thrown at the innermost awaits.
Cancel ==
    /\ 1 \in Live /\ ~cancelled
    /\ cancelled' = TRUE
    /\ pending' = {r \in Live : LiveChildren(r) = {}}
    /\ UNCHANGED <<at, parent, depth, ceil, spent, own, wide>>

\* The run's handler ends it, with the status cancelled.  In the last turn it is
\* in a handler already, and the error leaves it: the parent's await raises it
\* (which Resume does), and is not told what the run has spent.
CancelledRun(r) ==
    /\ r \in pending /\ at[r] \notin {"none", "done"}
    /\ IF at[r] = "last"
       THEN /\ at' = [at EXCEPT ![r] = "done"]
            /\ pending' = pending \ {r}
            /\ UNCHANGED <<parent, depth, ceil, spent, own, wide, cancelled>>
       ELSE Return(r, 0)

Step(r) == OverBudget(r) \/ LastTurn(r) \/ FinalSynthesis(r) \/ Turn(r) \/ Answer(r)
           \/ GoOn(r) \/ Spawn(r) \/ Resume(r) \/ CancelledRun(r)
Next == Cancel \/ \E r \in Runs : Step(r)

Spec == Init /\ [][Next]_vars

\* Every await of a run ends: turns and tools have timeouts or a stall
\* watchdog, children end.
FairSpec == Spec /\ \A r \in Runs : WF_vars(Step(r))

-----------------------------------------------------------------------------
(* Correctness.                                                              *)

\* A ceiling holds for the whole tree: no descendant of a bounded run is
\* without a ceiling, however deep and whatever it asked for.
CeilingInherited ==
    Ceiling # 0 => \A r \in Exists : ceil[r] # 0

\* What a run may have spent beyond its ceiling while it acts: the turn that its
\* ceiling still allowed, and for each level below it another for the last turn
\* of a child and the model calls of its tools.
Beyond(r) == MaxTurn + (MaxDepth - depth[r]) * (MaxTurn + MaxTools)

\* A run and everything below it outspend its ceiling by at most two turns and
\* the model calls of one batch of tools, and a turn and a batch more for each
\* level below; as long as children are spawned one at a time: those of a batch
\* are all given the same remaining allowance.
OverrunBounded ==
    \A r \in Exists : ~wide /\ ceil[r] # 0 =>
        spent[r] <= ceil[r] + Beyond(r) + MaxTools + MaxTurn

\* The same with batches, which tools/agent/fanout.py:16-17 promises and the
\* carve does not keep: TLC finds it violated.
BatchesBounded ==
    \A r \in Exists : ceil[r] # 0 =>
        spent[r] <= ceil[r] + Beyond(r) + MaxTools + MaxTurn

\* The same for what was really spent in the whole tree, with children that
\* have not reported yet.
TreeOverrunBounded ==
    ~wide /\ Ceiling # 0 =>
        MapThenSumSet(LAMBDA r : own[r], Runs) <= Ceiling + Beyond(1) + MaxTools + MaxTurn

\* After a cancellation nothing in the tree is spent or spawned.
CancelStops == [][cancelled => own' = own /\ Exists' = Exists]_vars

\* A bounded tree ends, cancelled or not.
TreeEnds == <>(Live = {})

-----------------------------------------------------------------------------
(* The inductive invariants behind the theorems of RunTreeProofs.            *)

\* Runs are numbered in the order of their spawns, and a number not yet used
\* has spent nothing.
Numbered ==
    /\ \E n \in Runs : Exists = 1..n
    /\ \A r \in Runs \ Exists : spent[r] = 0 /\ own[r] = 0

\* A run that has live children awaits them, or was cancelled.
ParentWaits ==
    \A c \in Live : parent[c] # 0 => at[parent[c]] \in {"wait", "done"}

\* While children are spawned one at a time a run has one, and its ceiling was
\* carved from what the parent has left.
ChildCarved ==
    \A c \in Live :
        LET p == parent[c]
        IN  p # 0 =>
              /\ p # c /\ p \in Runs /\ depth[c] = depth[p] + 1
              /\ \A d \in Live : parent[d] = p => d = c
              /\ ceil[p] # 0 => ceil[c] # 0 /\ spent[p] + ceil[c] <= ceil[p]

\* How far beyond its ceiling a run may be where it is.
Since(where) ==
    IF where \in {"act", "wait"} THEN 0
    ELSE IF where \in {"loop", "last"} THEN MaxTools ELSE MaxTools + MaxTurn

OverrunAt ==
    \A r \in Exists : ceil[r] # 0 =>
        spent[r] <= ceil[r] + Beyond(r) + Since(at[r])

\* After a cancellation a live run is about to be told, or awaits children.
CancelReaches ==
    cancelled => \A r \in Live : r \in pending \/ at[r] = "wait"

Shape == TypeOK /\ Numbered /\ ParentWaits /\ CancelReaches

\* Inductive with Shape where no spawn asks for a budget of 0.
Spending ==
    /\ CeilingInherited
    /\ ~wide => ChildCarved /\ OverrunAt
=============================================================================
