---------------------------- MODULE MC_AgentLoop ----------------------------
(* Runs of AgentLoop under a handful of settings, each aimed at one rail. *)
EXTENDS AgentLoop

CallKinds == [read |-> "read", fetch |-> "search", hunt |-> "search", poll |-> "poll",
              write |-> "write", check |-> "check", delegate |-> "delegate",
              note |-> "ledger", todos |-> "todos", badge |-> "badge",
              jspace |-> "load", other |-> "rival", ask |-> "cloud"]

Off == [calls |-> {"read"}, max_batch |-> 1, max_iterations |-> 3,
        plan_gate |-> FALSE, stall_after |-> 0, guard_max |-> 0,
        hard_block_after |-> 0, auto_delegate_after |-> 0, route |-> TRUE,
        walls |-> {}, delegate_after |-> 1, jspace_badge_gate |-> FALSE,
        verify |-> FALSE, pre_red |-> FALSE, expected_exit |-> 0, max_checks |-> 2,
        verify_stall_after |-> 2, max_bounces |-> 0, just_reply |-> FALSE,
        barred |-> {}, garbled |-> {}, shapes |-> {"good"}, owed |-> {}]

\* Answers, bounced, checked and given up.
Answers == [Off EXCEPT !.calls = {"check", "delegate"}, !.verify = TRUE,
    !.pre_red = TRUE, !.plan_gate = TRUE, !.max_bounces = 2,
    !.just_reply = TRUE, !.max_iterations = 4,
    !.shapes = {"good", "trunc", "empty"}, !.owed = {"requirements", "deliverable"}]

\* Turns without progress: the ladder, the stop and the hand-over.
Stalls == [Off EXCEPT !.calls = {"read", "delegate"}, !.max_iterations = 6,
    !.stall_after = 1, !.guard_max = 2, !.auto_delegate_after = 1]

\* A run that may load j-space, behind a strength wall.
Openers == [Off EXCEPT !.calls = {"jspace", "badge", "todos", "write"},
    !.max_batch = 2, !.max_iterations = 3, !.jspace_badge_gate = TRUE,
    !.guard_max = 2, !.walls = {"strength"}, !.auto_delegate_after = 2]

\* One that may load another such skill over it, and delegate.
Reloads == [Off EXCEPT
    !.calls = {"jspace", "other", "badge", "todos", "note", "delegate"},
    !.max_iterations = 4, !.jspace_badge_gate = TRUE, !.guard_max = 2]

\* A check that has to fail.
Reds == [Off EXCEPT !.verify = TRUE, !.pre_red = TRUE, !.expected_exit = 1]

\* The same calls over and over, in batches.
Repeats == [Off EXCEPT !.calls = {"fetch", "hunt"}, !.max_batch = 2,
    !.guard_max = 2, !.max_iterations = 4,
    !.hard_block_after = 2, !.auto_delegate_after = 2]

Privacy == [Off EXCEPT !.calls = {"read", "ask", "write", "poll"},
    !.barred = {"write"}, !.garbled = {"poll"}, !.max_batch = 2,
    !.max_iterations = 2]

\* Background jobs that are waited for.
Waits == [Off EXCEPT !.calls = {"poll", "check", "write"}, !.stall_after = 1,
    !.hard_block_after = 2,
    !.max_iterations = 4]

Walls == [Off EXCEPT !.calls = {"write", "read"}, !.max_iterations = 3,
    !.max_batch = 2, !.walls = {"dispatch", "inline"},
    !.auto_delegate_after = 2]

Every == {Answers, Reds, Stalls, Openers, Reloads, Repeats, Privacy, Waits, Walls}
=============================================================================
