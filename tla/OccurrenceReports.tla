-------------------------- MODULE OccurrenceReports --------------------------
(***************************************************************************)
(* What scheduled prompts promise their owner, without stores, ticks or     *)
(* crashes: an occurrence starts at most one agent run; the result of a run *)
(* that ended may be committed for delivery; and a committed result is      *)
(* posted to the chat exactly once, unless the account is deleted first.    *)
(***************************************************************************)
EXTENDS Naturals

CONSTANT Occurrences

VARIABLES
    starts,    \* agent runs started, for each occurrence
    reported,  \* occurrences with a committed result not yet acknowledged
    turns,     \* chat turns that show the result of the occurrence
    gone       \* the account was deleted

vars == <<starts, reported, turns, gone>>

Init ==
    /\ starts = [o \in Occurrences |-> 0]
    /\ reported = {}
    /\ turns = [o \in Occurrences |-> 0]
    /\ gone = FALSE

Start(o) ==
    /\ ~gone
    /\ starts[o] = 0
    /\ starts' = [starts EXCEPT ![o] = 1]
    /\ UNCHANGED <<reported, turns, gone>>

Report(o) ==
    /\ ~gone
    /\ starts[o] = 1 /\ turns[o] = 0
    /\ o \notin reported
    /\ reported' = reported \cup {o}
    /\ UNCHANGED <<starts, turns, gone>>

Post(o) ==
    /\ o \in reported
    /\ turns[o] = 0
    /\ turns' = [turns EXCEPT ![o] = 1]
    /\ UNCHANGED <<starts, reported, gone>>

Acknowledge(o) ==
    /\ o \in reported
    /\ turns[o] = 1
    /\ reported' = reported \ {o}
    /\ UNCHANGED <<starts, turns, gone>>

\* Account deletion, and the two clean-ups that follow it.
Delete == ~gone /\ gone' = TRUE /\ UNCHANGED <<starts, reported, turns>>
ForgetTurns ==
    /\ gone
    /\ turns' = [o \in Occurrences |-> 0]
    /\ UNCHANGED <<starts, reported, gone>>
ForgetReports == gone /\ reported' = {} /\ UNCHANGED <<starts, turns, gone>>

Next ==
    \/ \E o \in Occurrences : Start(o) \/ Report(o) \/ Post(o) \/ Acknowledge(o)
    \/ Delete \/ ForgetTurns \/ ForgetReports

Spec == Init /\ [][Next]_vars

\* A committed result is eventually posted, and the posting acknowledged.
FairSpec ==
    /\ Spec
    /\ \A o \in Occurrences : WF_vars(Post(o)) /\ WF_vars(Acknowledge(o))
=============================================================================
