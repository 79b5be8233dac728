--------------------------- MODULE AgentLoopProofs ---------------------------
(***************************************************************************)
(* Proofs about AgentLoop, for any settings of a run, calls, limits and    *)
(* batches: a run that is watched works with its gate open only, an answer that is *)
(* reported as ok was verified where it had to be, and a run that is       *)
(* refused again and again loses its tools.                                *)
(***************************************************************************)
EXTENDS AgentLoop, TLAPS

-----------------------------------------------------------------------------
(* The operators on the run state.                                          *)

\* The typed part of the run state.
RunOK(r) ==
    /\ Fields(r)
    /\ r.iterations \in Nat /\ r.guard_rejections \in Nat /\ r.delegate_refusals \in Nat
    /\ r.recent \in [Calls -> Nat] /\ r.stall_rung \in 0..Rungs
    /\ r.repeat_fails \in [Calls -> [Errors -> Nat]]

\* What no guard takes back, and what none touches.
Onward(r, s) ==
    /\ (r.badged => s.badged) /\ (r.jspace_gate_open => s.jspace_gate_open)
    /\ (r.auto_delegated => s.auto_delegated) /\ (r.wrap_up => s.wrap_up)
    /\ s.status = r.status /\ s.passed = r.passed /\ s.final_answer = r.final_answer

\* No gate changes the watch, and under it a hand-over badges the run.
Badging(r, s) ==
    /\ s.badge_watch = r.badge_watch
    /\ st.jspace_badge_gate /\ GateBadged(r) =>
          /\ GateBadged(s)
          /\ r.badge_watch = "j-space" /\ s.auto_delegated =>
                r.auto_delegated \/ s.badged

USE DEF Fields, RunState, RunOK, Onward, Badging, GateBadged

\* A hand-over, whatever its outcome, goes on with the same run, counts no
\* refusal and opens no gate but with a badge.
LEMMA HandOverFacts ==
    ASSUME NEW r, RunOK(r), NEW out
    PROVE  LET h == HandOver(r, out)
           IN  /\ RunOK(h) /\ Onward(r, h) /\ Badging(r, h)
               /\ h.guard_rejections = r.guard_rejections /\ h.wrap_up = r.wrap_up
               /\ out \in Salvages => h.auto_delegated
  <1>1. CASE out = "skipped"
    BY <1>1 DEF HandOver, Salvages
  <1> DEFINE c == CloseCeremony(r)
  <1>2. /\ RunOK(c) /\ Onward(r, c) /\ c.guard_rejections = r.guard_rejections
        /\ c.wrap_up = r.wrap_up /\ c.auto_delegated = r.auto_delegated
        /\ c.badge_watch = r.badge_watch
        /\ st.jspace_badge_gate /\ GateBadged(r) =>
              GateBadged(c) /\ (r.badge_watch = "j-space" => c.badged)
    BY DEF CloseCeremony, Unlatched
  <1> HIDE DEF c
  <1>3. CASE out = "failed"
    <2>1. HandOver(r, out) = [c EXCEPT !.auto_delegated = TRUE]
      BY <1>3 DEF HandOver, c
    <2>2. RunOK(HandOver(r, out)) /\ Onward(r, HandOver(r, out))
      BY <1>2, <2>1
    <2>3. /\ HandOver(r, out).guard_rejections = r.guard_rejections
          /\ HandOver(r, out).wrap_up = r.wrap_up
      BY <1>2, <2>1
    <2>4. Badging(r, HandOver(r, out))
      BY <1>2, <2>1
    <2> QED  BY <1>3, <2>2, <2>3, <2>4 DEF Salvages
  <1>4. CASE out \notin {"skipped", "failed"}
    <2>1. PICK o : HandOver(r, out) =
              [c EXCEPT !.auto_delegated = TRUE, !.delegated = TRUE,
                  !.stall_hard_stop = FALSE, !.stall_turns = 0,
                  !.recent = None, !.similar = 0, !.owes_check = TRUE,
                  !.delegate_verified = o]
      BY <1>4 DEF HandOver, c
    <2>2. None \in [Calls -> Nat]
      BY DEF None
    <2> DEFINE h == HandOver(r, out)
    <2>3. /\ Fields(h) /\ h.recent = None /\ h.auto_delegated
          /\ h.badge_watch = c.badge_watch /\ h.badged = c.badged /\ h.jspace_gate_open = c.jspace_gate_open
          /\ h.wrap_up = c.wrap_up /\ h.status = c.status /\ h.passed = c.passed
          /\ h.final_answer = c.final_answer /\ h.iterations = c.iterations
          /\ h.guard_rejections = c.guard_rejections
          /\ h.delegate_refusals = c.delegate_refusals
          /\ h.stall_rung = c.stall_rung /\ h.repeat_fails = c.repeat_fails
      BY <1>2, <2>1
    <2> HIDE DEF h
    <2>4. RunOK(h) /\ Onward(r, h) /\ Badging(r, h)
      BY <1>2, <2>2, <2>3
    <2> QED  BY <1>2, <2>3, <2>4 DEF h
  <1> QED  BY <1>1, <1>3, <1>4

\* An escalation keeps the run going; one that wraps up turns the tools off
\* unless its hand-over salvaged the run.
LEMMA EscalatedFacts ==
    ASSUME NEW r, RunOK(r), NEW tries \in BOOLEAN, NEW wraps \in BOOLEAN, NEW out
    PROVE  LET s == Escalated(r, tries, wraps, out)
           IN  /\ RunOK(s) /\ Onward(r, s) /\ Badging(r, s)
               /\ s.guard_rejections = r.guard_rejections
               /\ wraps => s.wrap_up \/ (tries /\ out \in Salvages /\ s.auto_delegated)
  <1> DEFINE h == IF tries THEN HandOver(r, out) ELSE r
  <1>1. /\ RunOK(h) /\ Onward(r, h) /\ Badging(r, h)
        /\ h.guard_rejections = r.guard_rejections
        /\ tries /\ out \in Salvages => h.auto_delegated
    BY HandOverFacts
  <1> HIDE DEF h
  <1>2. CASE wraps /\ ~(tries /\ out \in Salvages)
    <2>1. Escalated(r, tries, wraps, out) = [h EXCEPT !.wrap_up = TRUE]
      BY <1>2 DEF Escalated, h
    <2> DEFINE s == [h EXCEPT !.wrap_up = TRUE]
    <2>2. RunOK(s) /\ s.guard_rejections = r.guard_rejections /\ s.wrap_up
      BY <1>1
    <2>3. Onward(r, s)
      BY <1>1
    <2>4. Badging(r, s)
      BY <1>1
    <2> HIDE DEF s, RunOK, Onward, Badging
    <2> QED  BY <2>1, <2>2, <2>3, <2>4 DEF s
  <1>3. CASE ~(wraps /\ ~(tries /\ out \in Salvages))
    <2>1. Escalated(r, tries, wraps, out) = h
      BY <1>3 DEF Escalated, h
    <2>2. wraps => tries /\ out \in Salvages /\ h.auto_delegated
      BY <1>1, <1>3
    <2>3. /\ RunOK(h) /\ Onward(r, h) /\ Badging(r, h)
          /\ h.guard_rejections = r.guard_rejections
      BY <1>1
    <2> HIDE DEF RunOK, Onward, Badging
    <2> QED  BY <2>1, <2>2, <2>3
  <1> QED  BY <1>2, <1>3

HIDE DEF Fields, RunState, RunOK, Onward, Badging, GateBadged

\* Two updates in a row that go on with the same run are one.
LEMMA OnwardAll ==
    ASSUME NEW r, NEW s, NEW t, Onward(r, s), Onward(s, t), Badging(r, s), Badging(s, t)
    PROVE  Onward(r, t) /\ Badging(r, t)
  <1>1. Onward(r, t)
    BY DEF Onward
  <1>2. Badging(r, t)
    BY DEF Onward, Badging
  <1> QED  BY <1>1, <1>2

\* The gates' own bookkeeping.
LEMMA CountFacts ==
    ASSUME NEW r, RunOK(r)
    PROVE  /\ RunOK(Rejected(r)) /\ Onward(r, Rejected(r)) /\ Badging(r, Rejected(r))
           /\ RunOK(Pointed(r)) /\ Onward(r, Pointed(r)) /\ Badging(r, Pointed(r))
           /\ Rejected(r).guard_rejections = r.guard_rejections + 1
           /\ Pointed(r).guard_rejections = r.guard_rejections
           /\ Rejected(r).auto_delegated = r.auto_delegated
           /\ Pointed(r).auto_delegated = r.auto_delegated
  <1> USE DEF Fields, RunState, RunOK, Onward, Badging, GateBadged
  <1> DEFINE j == Rejected(r)
             p == Pointed(r)
  <1>1. RunOK(j) /\ j.guard_rejections = r.guard_rejections + 1
        /\ j.auto_delegated = r.auto_delegated
    BY DEF Rejected
  <1>2. Onward(r, j)
    BY DEF Rejected
  <1>3. Badging(r, j)
    BY DEF Rejected
  <1>4. RunOK(p) /\ p.guard_rejections = r.guard_rejections
        /\ p.auto_delegated = r.auto_delegated
    BY DEF Pointed
  <1>5. Onward(r, p)
    BY DEF Pointed
  <1>6. Badging(r, p)
    BY DEF Pointed
  <1> HIDE DEF Fields, RunState, RunOK, Onward, Badging, GateBadged
  <1> QED  BY <1>1, <1>2, <1>3, <1>4, <1>5, <1>6

\* The gate opens for a badge only.
LEMMA LatchedFacts ==
    ASSUME NEW r, RunOK(r)
    PROVE  /\ RunOK(Latched(r)) /\ Onward(r, Latched(r)) /\ Badging(r, Latched(r))
           /\ Latched(r).guard_rejections = r.guard_rejections
           /\ Latched(r).auto_delegated = r.auto_delegated
  <1> USE DEF Fields, RunState, RunOK, Onward, Badging, GateBadged
  <1> DEFINE l == Latched(r)
  <1>1. RunOK(l) /\ l.guard_rejections = r.guard_rejections
        /\ l.auto_delegated = r.auto_delegated
    BY DEF Latched
  <1>2. Onward(r, l)
    BY DEF Latched
  <1>3. Badging(r, l)
    BY DEF Latched
  <1> HIDE DEF Fields, RunState, RunOK, Onward, Badging, GateBadged
  <1> QED  BY <1>1, <1>2, <1>3

\* Remembering a call for the detection of repeats refuses nothing.
LEMMA RememberedFacts ==
    ASSUME NEW r, RunOK(r), NEW c \in Calls
    PROVE  LET m == Remembered(r, c)
           IN  /\ RunOK(m) /\ Onward(r, m) /\ Badging(r, m)
               /\ m.guard_rejections = r.guard_rejections
               /\ m.auto_delegated = r.auto_delegated
               /\ m.jspace_gate_open = r.jspace_gate_open
  <1> USE DEF Fields, RunState, RunOK, Onward, Badging, GateBadged
  <1> DEFINE m == Remembered(r, c)
  <1>1. RunOK(m) /\ m.guard_rejections = r.guard_rejections
        /\ m.auto_delegated = r.auto_delegated /\ m.jspace_gate_open = r.jspace_gate_open
    BY DEF Remembered
  <1>2. Onward(r, m)
    BY DEF Remembered
  <1>3. Badging(r, m)
    BY DEF Remembered
  <1> HIDE DEF Fields, RunState, RunOK, Onward, Badging, GateBadged
  <1> QED  BY <1>1, <1>2, <1>3

\* A call that is let through is bookkeeping, and the gate at most latches.
LEMMA AdmittedFacts ==
    ASSUME NEW r, RunOK(r), NEW c \in Calls
    PROVE  LET a == Admitted(r, c)
           IN  /\ RunOK(a) /\ Onward(r, a) /\ Badging(r, a)
               /\ a.guard_rejections = r.guard_rejections
               /\ a.jspace_gate_open = Latched(r).jspace_gate_open
  <1> DEFINE l == Latched(r)
             m == Remembered(l, c)
             a == Queried(m, c)
  <1>1. /\ RunOK(l) /\ Onward(r, l) /\ Badging(r, l)
        /\ l.guard_rejections = r.guard_rejections
    BY LatchedFacts
  <1> HIDE DEF l
  <1>2. /\ RunOK(m) /\ Onward(l, m) /\ Badging(l, m)
        /\ m.guard_rejections = l.guard_rejections
        /\ m.jspace_gate_open = l.jspace_gate_open
    BY <1>1, RememberedFacts
  <1> HIDE DEF m
  <1>3. RunOK(a) /\ a.guard_rejections = m.guard_rejections
        /\ a.jspace_gate_open = m.jspace_gate_open
    BY <1>2 DEF Queried, Fields, RunState, RunOK
  <1>4. Onward(m, a)
    BY <1>2 DEF Queried, Fields, RunState, RunOK, Onward
  <1>5. Badging(m, a)
    BY <1>2 DEF Queried, Fields, RunState, RunOK, Badging, GateBadged
  <1>6. Onward(r, a) /\ Badging(r, a)
    <2>1. Onward(r, m) /\ Badging(r, m)
      BY <1>1, <1>2, OnwardAll
    <2> QED  BY <1>4, <1>5, <2>1, OnwardAll
  <1>7. Admitted(r, c) = a
    BY DEF Admitted, a, m, l
  <1> HIDE DEF a
  <1> QED  BY <1>1, <1>2, <1>3, <1>6, <1>7 DEF l

-----------------------------------------------------------------------------
(* The gates.                                                               *)

\* The types that every step needs.
LEMMA Typed ==
    ASSUME IInv
    PROVE  /\ RunOK(rs) /\ st \in Settings
           /\ st.calls \subseteq Calls /\ st.max_batch \in Nat /\ st.guard_max \in Nat
           /\ plans \in Seq(Plan) /\ Len(plans) \in Nat /\ Len(plans) <= st.max_batch
           /\ DOMAIN plans = 1..Len(plans) /\ at \in Nat /\ at <= Len(plans)
           /\ \A i \in DOMAIN plans : plans[i] \in Plan
  BY SettingsAssumption DEF IInv, TypeOK, Batch, RunOK

\* A gate settles a call: what it does to the run state keeps the invariant.
LEMMA SettleKeeps ==
    ASSUME IInv, phase = "gate", NEW s, NEW verdict \in Verdicts, Settle(s, verdict),
           RunOK(s), Onward(rs, s), Badging(rs, s),
           \/ s.guard_rejections = rs.guard_rejections
           \/ /\ s.guard_rejections = rs.guard_rejections + 1
              /\ st.guard_max # 0 /\ s.guard_rejections >= st.guard_max
                    => s.wrap_up \/ (~rs.auto_delegated /\ s.auto_delegated),
           st.jspace_badge_gate /\ watched /\ verdict = "run" /\ Works(Call)
                => s.jspace_gate_open
    PROVE  IInv'
  <1>1. /\ rs' = s /\ plans' = [plans EXCEPT ![at].verdict = verdict]
        /\ st' = st /\ cancels' = cancels /\ watched' = watched /\ handed' = handed
        /\ worked' = (worked \/ (watched /\ s.auto_delegated /\ ~rs.auto_delegated))
        /\ \/ at = Len(plans) /\ phase' = "record" /\ at' = 1
           \/ at # Len(plans) /\ phase' = "gate" /\ at' = at + 1
    BY DEF Settle, Go, Keep, Quiet
  <1>2. /\ at \in DOMAIN plans /\ at >= 1 /\ plans[at] \in Plan
    <2>1. at >= 1
      BY DEF IInv, Batch
    <2> QED  BY <2>1, Typed
  <1>3. /\ DOMAIN plans' = DOMAIN plans
        /\ \A i \in DOMAIN plans : /\ plans'[i].call = plans[i].call
                                   /\ plans'[i] \in Plan
                                   /\ i # at => plans'[i].verdict = plans[i].verdict
        /\ plans'[at].verdict = verdict
    <2>1. \A i \in DOMAIN plans : plans[i] \in Plan
      BY Typed
    <2>2. plans'[at] = [plans[at] EXCEPT !.verdict = verdict]
      BY <1>1, <1>2
    <2>3. \A i \in DOMAIN plans : i # at => plans'[i] = plans[i]
      BY <1>1
    <2> QED  BY <1>1, <1>2, <2>1, <2>2, <2>3 DEF Plan
  <1>4. plans' \in Seq(Plan) /\ Len(plans') = Len(plans)
    <2>1. plans' \in [1..Len(plans) -> Plan]
      BY <1>1, <1>3, Typed
    <2> QED  BY <2>1, Typed
  <1>5. Batch'
    BY <1>1, <1>2, <1>4, Typed DEF Batch
  <1>6. TypeOK'
    BY <1>1, <1>2, <1>4, Typed, SMTT(30) DEF RunOK, IInv, TypeOK, Phases
  <1>7. Fields(rs)'
    BY <1>1 DEF RunOK, Fields
  <1>8. Opening'
    <2> SUFFICES ASSUME st.jspace_badge_gate
                 PROVE  GateBadged(s) /\ PassedGate' /\ Watching' /\ (worked' => s.badged)
      BY <1>1 DEF Opening, GateBadged
    <2>1. /\ GateBadged(rs) /\ PassedGate /\ (worked => rs.badged)
          /\ watched => rs.badge_watch = "j-space"
      BY DEF IInv, Opening, Watching
    <2>2. GateBadged(s) /\ (worked' => s.badged)
      BY <1>1, <2>1 DEF Onward, Badging
    <2>4. Watching'
      BY <1>1, <2>1 DEF Watching, Badging
    <2>3. PassedGate'
      <3> SUFFICES ASSUME watched, NEW i \in DOMAIN plans, plans'[i].verdict = "run",
                          Works(plans[i].call)
                   PROVE  s.jspace_gate_open
        BY <1>1, <1>3 DEF PassedGate, Works, Is
      <3>1. CASE i = at
        BY <1>3, <3>1 DEF Call
      <3>2. CASE i # at
        BY <1>3, <2>1, <3>2 DEF PassedGate, Onward
      <3> QED  BY <3>1, <3>2
    <2> QED  BY <2>2, <2>3, <2>4
  <1>9. EndsChecked'
    BY <1>1 DEF EndsChecked
  <1>10. RefusalsCounted'
    <2> SUFFICES ASSUME st.guard_max # 0 PROVE Refused'
      BY <1>1 DEF RefusalsCounted
    <2>1. /\ ~rs.wrap_up => /\ rs.guard_rejections <= st.guard_max
                            /\ rs.guard_rejections = st.guard_max => rs.auto_delegated
          /\ rs.guard_rejections < st.guard_max + at
          /\ rs.guard_rejections <= st.guard_max + st.max_batch
      BY DEF IInv, RefusalsCounted, Refused
    <2>2. rs.guard_rejections \in Nat /\ s.guard_rejections \in Nat
      BY Typed DEF RunOK
    <2>3. (rs.wrap_up => s.wrap_up) /\ (rs.auto_delegated => s.auto_delegated)
      BY DEF Onward
    <2>4. ~s.wrap_up => /\ s.guard_rejections <= st.guard_max
                        /\ s.guard_rejections = st.guard_max => s.auto_delegated
      <3> SUFFICES ASSUME ~s.wrap_up
                   PROVE  /\ s.guard_rejections <= st.guard_max
                          /\ s.guard_rejections = st.guard_max => s.auto_delegated
        OBVIOUS
      <3>1. CASE s.guard_rejections = rs.guard_rejections
        BY <2>1, <2>3, <3>1
      <3>2. CASE s.guard_rejections = rs.guard_rejections + 1
        <4>1. s.guard_rejections >= st.guard_max => ~rs.auto_delegated /\ s.auto_delegated
          BY <2>2, <3>2
        <4>2. ~rs.auto_delegated => rs.guard_rejections < st.guard_max
          BY <2>1, <2>2, <2>3, Typed
        <4> QED  BY <2>2, <3>2, <4>1, <4>2, Typed
      <3> QED  BY <3>1, <3>2
    <2>5. s.guard_rejections <= st.guard_max + at
      BY <2>1, <2>2, Typed
    <2> QED  BY <1>1, <1>2, <2>2, <2>4, <2>5, Typed DEF Refused
  <1> QED  BY <1>5, <1>6, <1>7, <1>8, <1>9, <1>10 DEF IInv

\* Only a hand-over that may be made is made.
LEMMA Handed ==
    ASSUME NEW r, NEW tries \in BOOLEAN, NEW out \in Outcomes(r, tries), out \in Salvages
    PROVE  tries /\ ~r.auto_delegated
  BY DEF Outcomes, CanHandOver, Salvages

\* A gate that counts a refusal, and turns the tools off at the limit unless
\* the hand-over worked.
LEMMA RefusalKeeps ==
    ASSUME IInv, phase = "gate", NEW r, RunOK(r), Onward(rs, r), Badging(rs, r),
           r.auto_delegated = rs.auto_delegated,
           NEW tries \in BOOLEAN, NEW wraps \in BOOLEAN, NEW out \in Outcomes(r, tries),
           NEW verdict \in Verdicts \ {"run"},
           Settle(Escalated(r, tries, wraps, out), verdict),
           \/ r.guard_rejections = rs.guard_rejections
           \/ r.guard_rejections = rs.guard_rejections + 1 /\ (Capped(r) => wraps)
    PROVE  IInv'
  <1> DEFINE s == Escalated(r, tries, wraps, out)
  <1>1. /\ RunOK(s) /\ Onward(r, s) /\ Badging(r, s)
        /\ s.guard_rejections = r.guard_rejections
        /\ wraps => s.wrap_up \/ (tries /\ out \in Salvages /\ s.auto_delegated)
    BY EscalatedFacts
  <1> HIDE DEF s
  <1>2. Onward(rs, s) /\ Badging(rs, s)
    BY <1>1, OnwardAll
  <1>3. \/ s.guard_rejections = rs.guard_rejections
        \/ /\ s.guard_rejections = rs.guard_rejections + 1
           /\ st.guard_max # 0 /\ s.guard_rejections >= st.guard_max
                 => s.wrap_up \/ (~rs.auto_delegated /\ s.auto_delegated)
    <2>1. out \in Salvages => ~rs.auto_delegated
      BY Handed
    <2>2. CASE r.guard_rejections = rs.guard_rejections + 1 /\ (Capped(r) => wraps)
      BY <1>1, <2>1, <2>2 DEF Capped
    <2> QED  BY <1>1, <2>2
  <1>4. Settle(s, verdict)
    BY DEF s
  <1> QED  BY <1>1, <1>2, <1>3, <1>4, SettleKeeps

\* Every gate of the dispatch pipeline keeps the invariant.
LEMMA DispatchKeeps ==
    ASSUME IInv, Dispatch
    PROVE  IInv'
  <1> DEFINE l == Latched(rs)
  <1>0. RunOK(rs) /\ Onward(rs, rs) /\ Badging(rs, rs)
    BY Typed DEF Onward, Badging
  <1>1. /\ RunOK(l) /\ Onward(rs, l) /\ Badging(rs, l)
        /\ l.guard_rejections = rs.guard_rejections /\ l.auto_delegated = rs.auto_delegated
    BY <1>0, LatchedFacts
  <1>2. phase = "gate" => Call \in Calls
    BY Typed DEF IInv, Batch, Call, Plan
  <1>3. \A r : RunOK(r) /\ Onward(rs, r) /\ Badging(rs, r)
                  /\ r.auto_delegated = rs.auto_delegated
                  /\ r.guard_rejections = rs.guard_rejections
           => /\ RunOK(Rejected(r)) /\ Onward(rs, Rejected(r)) /\ Badging(rs, Rejected(r))
              /\ Rejected(r).auto_delegated = rs.auto_delegated
              /\ Rejected(r).guard_rejections = rs.guard_rejections + 1
    BY CountFacts, OnwardAll
  <1>4. \A r : RunOK(r) /\ Onward(rs, r) /\ Badging(rs, r)
                  /\ r.auto_delegated = rs.auto_delegated
           => /\ RunOK(Pointed(r)) /\ Onward(rs, Pointed(r)) /\ Badging(rs, Pointed(r))
              /\ Pointed(r).auto_delegated = rs.auto_delegated
              /\ Pointed(r).guard_rejections = r.guard_rejections
    BY CountFacts, OnwardAll
  <1> HIDE DEF l
  <1>5. CASE BarredCall
    <2>1. PICK verdict \in {"invalid", "refused"} : phase = "gate" /\ Settle(rs, verdict)
      BY <1>5 DEF BarredCall
    <2>2. verdict \in Verdicts /\ verdict # "run"
      BY DEF Verdicts, Errors
    <2> QED  BY <1>0, <2>1, <2>2, SettleKeeps
  <1>6. CASE GarbledCall
    <2>1. phase = "gate" /\ Settle(l, "invalid") /\ "invalid" \in Verdicts
      BY <1>6 DEF GarbledCall, l, Verdicts, Errors
    <2> QED  BY <1>1, <2>1, SettleKeeps
  <1>7. CASE StallHardStop
    <2> DEFINE r == Pointed(Rejected(rs))
    <2>1. /\ RunOK(r) /\ Onward(rs, r) /\ Badging(rs, r)
          /\ r.auto_delegated = rs.auto_delegated
          /\ r.guard_rejections = rs.guard_rejections + 1
      BY <1>0, <1>3, <1>4
    <2> HIDE DEF r
    <2>2. PICK out \in Outcomes(r, Streak(r)) :
             phase = "gate" /\ Settle(Escalated(r, Streak(r), Capped(r) \/ Streak(r), out), "refused")
      BY <1>7 DEF StallHardStop, r
    <2>3. Streak(r) \in BOOLEAN /\ (Capped(r) \/ Streak(r)) \in BOOLEAN
          /\ "refused" \in Verdicts \ {"run"}
      BY DEF Verdicts, Streak, Capped
    <2> QED  BY <2>1, <2>2, <2>3, RefusalKeeps
  <1>8. CASE RepeatErrorBlock
    <2> DEFINE points == Worst(Call) \in {"first", "wall"}
               r == IF points THEN Pointed(Rejected(rs)) ELSE Rejected(rs)
               tries == points /\ Streak(r)
    <2>1. /\ RunOK(r) /\ Onward(rs, r) /\ Badging(rs, r)
          /\ r.auto_delegated = rs.auto_delegated
          /\ r.guard_rejections = rs.guard_rejections + 1
      BY <1>0, <1>3, <1>4
    <2>2. tries \in BOOLEAN /\ Capped(r) \in BOOLEAN /\ "refused" \in Verdicts \ {"run"}
      BY DEF Verdicts, Streak, Capped
    <2>3. PICK out \in Outcomes(r, tries) :
             phase = "gate" /\ Settle(Escalated(r, tries, Capped(r), out), "refused")
      BY <1>8 DEF RepeatErrorBlock
    <2> HIDE DEF r, tries
    <2> QED  BY <2>1, <2>2, <2>3, RefusalKeeps
  <1>9. CASE JspaceBadge
    <2> DEFINE r == Rejected(l)
    <2>1. /\ RunOK(r) /\ Onward(rs, r) /\ Badging(rs, r)
          /\ r.auto_delegated = rs.auto_delegated
          /\ r.guard_rejections = rs.guard_rejections + 1
      BY <1>1, <1>3
    <2>2. Capped(r) \in BOOLEAN /\ "refused" \in Verdicts \ {"run"}
      BY DEF Verdicts, Capped
    <2>3. phase = "gate" /\ Settle(Escalated(r, FALSE, Capped(r), "skipped"), "refused")
      BY <1>9 DEF JspaceBadge, l
    <2>4. "skipped" \in Outcomes(r, FALSE)
      BY DEF Outcomes
    <2> HIDE DEF r
    <2> QED  BY <2>1, <2>2, <2>3, <2>4, RefusalKeeps
  <1>10. CASE Wall
    <2> DEFINE r == Pointed(l)
               verdict == IF rs.delegate_refusals = 0 THEN "first" ELSE "wall"
    <2>1. /\ RunOK(r) /\ Onward(rs, r) /\ Badging(rs, r)
          /\ r.auto_delegated = rs.auto_delegated
          /\ r.guard_rejections = rs.guard_rejections
      BY <1>1, <1>4
    <2>2. Streak(r) \in BOOLEAN /\ verdict \in Verdicts \ {"run"}
      BY DEF Verdicts, Errors, Streak
    <2>3. PICK out \in Outcomes(r, Streak(r)) :
             phase = "gate" /\ Settle(Escalated(r, Streak(r), FALSE, out), verdict)
      BY <1>10 DEF Wall, l
    <2> HIDE DEF r, verdict
    <2> QED  BY <2>1, <2>2, <2>3, RefusalKeeps
  <1>11. ASSUME phase = "gate", NEW r, RunOK(r), Onward(rs, r), Badging(rs, r),
                r.auto_delegated = rs.auto_delegated,
                r.guard_rejections = rs.guard_rejections + 1,
                NEW out \in Outcomes(r, Capped(r)),
                Settle(Escalated(r, Capped(r), Capped(r), out), "refused")
         PROVE  IInv'
    <2>1. Capped(r) \in BOOLEAN /\ "refused" \in Verdicts \ {"run"}
      BY DEF Verdicts, Capped
    <2> QED  BY <1>11, <2>1, RefusalKeeps
  <1>12. CASE DuplicateCall
    BY <1>1, <1>3, <1>11, <1>12 DEF DuplicateCall, l
  <1>13. CASE NearDuplicateCall
    <2> DEFINE m == Remembered(l, Call)
    <2>1. /\ phase = "gate"
          /\ \E out \in Outcomes(Rejected(m), Capped(Rejected(m))) :
                Settle(Escalated(Rejected(m), Capped(Rejected(m)), Capped(Rejected(m)), out), "refused")
      BY <1>13 DEF NearDuplicateCall, l
    <2>2. /\ RunOK(m) /\ Onward(l, m) /\ Badging(l, m)
          /\ m.guard_rejections = l.guard_rejections /\ m.auto_delegated = l.auto_delegated
      BY <1>1, <1>2, <2>1, RememberedFacts
    <2> HIDE DEF m
    <2>3. Onward(rs, m) /\ Badging(rs, m)
      BY <1>1, <2>2, OnwardAll
    <2> QED  BY <1>1, <1>3, <1>11, <2>1, <2>2, <2>3
  <1>14. ASSUME phase = "gate", Distinct(Call), NEW verdict \in {"run", "declined"},
                Settle(Admitted(rs, Call), verdict)
         PROVE  IInv'
    <2> DEFINE a == Admitted(rs, Call)
    <2>1. /\ RunOK(a) /\ Onward(rs, a) /\ Badging(rs, a)
          /\ a.guard_rejections = rs.guard_rejections
          /\ a.jspace_gate_open = l.jspace_gate_open
      BY <1>0, <1>2, <1>14, AdmittedFacts DEF l
    <2>2. st.jspace_badge_gate /\ watched /\ Works(Call) => l.jspace_gate_open
      <3>1. st.jspace_badge_gate /\ watched => l.badge_watch = "j-space"
        BY <1>1, <1>14 DEF IInv, Opening, Watching, Badging
      <3> QED  BY <1>14, <3>1 DEF Distinct, Parsed, Past, Unopened, Unlatched, l
    <2>3. verdict \in Verdicts /\ Settle(a, verdict)
      BY <1>14 DEF Verdicts, Errors
    <2> HIDE DEF a
    <2> QED  BY <1>14, <2>1, <2>2, <2>3, SettleKeeps
  <1>15. ASSUME NEW approved \in BOOLEAN, Ask(approved) PROVE IInv'
    BY <1>14, <1>15 DEF Ask
  <1>16. CASE Admit
    BY <1>14, <1>16 DEF Admit
  <1> QED
    BY <1>5, <1>6, <1>7, <1>8, <1>9, <1>10, <1>12, <1>13, <1>15, <1>16 DEF Dispatch

-----------------------------------------------------------------------------
(* The results.                                                             *)

\* What the record of a result does to the run state.
Recorded(r, s) ==
    /\ RunOK(s) /\ Onward(r, s)
    /\ s.jspace_gate_open = r.jspace_gate_open /\ s.auto_delegated = r.auto_delegated
    /\ s.wrap_up = r.wrap_up /\ s.guard_rejections = r.guard_rejections

\* Each thing the accounting does with a result is bookkeeping.
LEMMA RecordFacts ==
    ASSUME NEW r, RunOK(r), NEW c \in Calls, NEW ok, NEW plan, NEW verified, NEW verdict
    PROVE  /\ Recorded(r, Moved(r, c, ok))
           /\ Recorded(r, Tallied(r, c, verdict, ok))
           /\ Recorded(r, Opened(r, c, ok, plan))
           /\ Recorded(r, VerifyArm(r, c, ok, verified))
           /\ Recorded(r, InlineWrites(r, c, ok))
           /\ Recorded(r, Tainted(r, c, verdict))
  <1> USE DEF Fields, RunState, RunOK, Onward, Recorded
  <1>1. Recorded(r, Moved(r, c, ok))
    <2>1. None \in [Calls -> Nat]
      BY DEF None
    <2> QED  BY <2>1 DEF Moved
  <1>2. Recorded(r, Tallied(r, c, verdict, ok))
    <2>1. CASE verdict = "refused"
      BY <2>1 DEF Tallied
    <2>2. ASSUME NEW f \in [Calls -> [Errors -> Nat]], NEW g
          PROVE  /\ Recorded(r, [r EXCEPT !.repeat_fails = f, !.repeat_ok = g])
                 /\ Recorded(r, [r EXCEPT !.repeat_fails = f])
      OBVIOUS
    <2>3. CASE verdict # "refused" /\ ok
      <3> DEFINE f == [r.repeat_fails EXCEPT ![c] = [e \in Errors |-> 0]]
                 g == [r.repeat_ok EXCEPT ![c] = IF @ = 2 THEN 2 ELSE @ + 1]
      <3>1. Tallied(r, c, verdict, ok) = [r EXCEPT !.repeat_fails = f, !.repeat_ok = g]
        BY <2>3 DEF Tallied
      <3>2. f \in [Calls -> [Errors -> Nat]]
        OBVIOUS
      <3> HIDE DEF f, g, Fields, RunState, RunOK, Onward, Recorded
      <3> QED  BY <2>2, <3>1, <3>2
    <2>4. CASE verdict # "refused" /\ ~ok
      <3> DEFINE e == ErrorOf(verdict)
                 h == [r.repeat_fails[c] EXCEPT ![e] = @ + 1]
                 f == [r.repeat_fails EXCEPT ![c] = h]
      <3>1. Tallied(r, c, verdict, ok) = [r EXCEPT !.repeat_fails = f]
        BY <2>4 DEF Tallied
      <3>2. f \in [Calls -> [Errors -> Nat]]
        <4>1. r.repeat_fails[c] \in [Errors -> Nat]
          OBVIOUS
        <4>2. h \in [Errors -> Nat]
          <5> DEFINE n == r.repeat_fails[c]
          <5>1. n \in [Errors -> Nat]
            BY <4>1
          <5> HIDE DEF n, e, Errors
          <5>2. \A x \in Errors : n[x] \in Nat /\ n[x] + 1 \in Nat
            BY <5>1
          <5>3. [n EXCEPT ![e] = @ + 1] \in [Errors -> Nat]
            BY <5>1, <5>2
          <5> QED  BY <5>3 DEF n
        <4> QED  BY <4>2
      <3> HIDE DEF f, Fields, RunState, RunOK, Onward, Recorded
      <3> QED  BY <2>2, <3>1, <3>2
    <2> QED  BY <2>1, <2>3, <2>4
  <1>3. Recorded(r, Opened(r, c, ok, plan))
    BY DEF Opened
  <1>4. Recorded(r, VerifyArm(r, c, ok, verified))
    BY DEF VerifyArm
  <1>5. Recorded(r, InlineWrites(r, c, ok))
    BY DEF InlineWrites
  <1>6. Recorded(r, Tainted(r, c, verdict))
    BY DEF Tainted
  <1> QED  BY <1>1, <1>2, <1>3, <1>4, <1>5, <1>6

\* Two such updates in a row are one.
LEMMA RecordedAll ==
    ASSUME NEW r, NEW s, NEW t, Recorded(r, s), Recorded(s, t)
    PROVE  Recorded(r, t)
  BY DEF Recorded, Onward

\* The accounting of one result keeps the invariant.
LEMMA ResultKeeps ==
    ASSUME IInv, NEW ok \in BOOLEAN, NEW plan \in BOOLEAN, NEW verified \in BOOLEAN,
           Result(ok, plan, verified)
    PROVE  IInv'
  <1> DEFINE p == plans[at]
             c == p.call
             r1 == Moved(rs, c, ok)
             r2 == Tallied(r1, c, p.verdict, ok)
             r3 == Opened(r2, c, ok, plan)
             r4 == VerifyArm(r3, c, ok, verified)
             r5 == InlineWrites(r4, c, ok)
             r6 == Tainted(r5, c, p.verdict)
  <1>1. /\ phase = "record" /\ rs' = r6 /\ st' = st /\ cancels' = cancels
        /\ plans' = [plans EXCEPT ![at].ok = ok,
                                  ![at].repeat = ok /\ rs'.repeat_ok[c] = 2]
        /\ worked' = (worked \/ (watched /\ p.verdict = "run" /\ Works(c)))
        /\ watched' = watched /\ handed' \in BOOLEAN
        /\ \/ at = Len(plans) /\ phase' = "settle" /\ at' = 0
           \/ at # Len(plans) /\ phase' = "record" /\ at' = at + 1
    BY DEF Result, Go, Keep
  <1>2. /\ at \in DOMAIN plans /\ p \in Plan /\ c \in Calls
    <2>1. at >= 1
      BY <1>1 DEF IInv, Batch
    <2> QED  BY <2>1, Typed DEF Plan
  <1>3. Recorded(rs, r6)
    <2> HIDE DEF p, c
    <2>1. RunOK(rs) /\ c \in Calls
      BY <1>2, Typed
    <2>2. Recorded(rs, r1) /\ RunOK(r1)
      BY <2>1, RecordFacts DEF Recorded
    <2> HIDE DEF r1
    <2>3. Recorded(rs, r2) /\ RunOK(r2)
      BY <2>1, <2>2, RecordFacts, RecordedAll DEF Recorded
    <2> HIDE DEF r2
    <2>4. Recorded(rs, r3) /\ RunOK(r3)
      BY <2>1, <2>3, RecordFacts, RecordedAll DEF Recorded
    <2> HIDE DEF r3
    <2>5. Recorded(rs, r4) /\ RunOK(r4)
      BY <2>1, <2>4, RecordFacts, RecordedAll DEF Recorded
    <2> HIDE DEF r4
    <2>6. Recorded(rs, r5) /\ RunOK(r5)
      BY <2>1, <2>5, RecordFacts, RecordedAll DEF Recorded
    <2> HIDE DEF r5
    <2> QED  BY <2>1, <2>6, RecordFacts, RecordedAll DEF Recorded
  <1> HIDE DEF r6
  <1>4. Recorded(rs, rs')
    BY <1>1, <1>3
  <1>5. /\ DOMAIN plans' = DOMAIN plans
        /\ \A i \in DOMAIN plans : /\ plans'[i].call = plans[i].call
                                   /\ plans'[i] \in Plan
                                   /\ plans'[i].verdict = plans[i].verdict
    <2>1. \A i \in DOMAIN plans : plans[i] \in Plan
      BY Typed
    <2> DEFINE again == ok /\ rs'.repeat_ok[c] = 2
    <2>2. again \in BOOLEAN /\ plans' = [plans EXCEPT ![at].ok = ok, ![at].repeat = again]
      BY <1>1
    <2> HIDE DEF again
    <2>3. plans'[at] = [plans[at] EXCEPT !.ok = ok, !.repeat = again]
      BY <1>2, <2>2
    <2>4. DOMAIN plans' = DOMAIN plans /\ \A i \in DOMAIN plans : i # at => plans'[i] = plans[i]
      BY <2>2
    <2> QED  BY <1>2, <2>1, <2>2, <2>3, <2>4 DEF Plan
  <1>6. plans' \in Seq(Plan) /\ Len(plans') = Len(plans)
    <2>1. plans' \in [1..Len(plans) -> Plan]
      BY <1>1, <1>5, Typed
    <2> QED  BY <2>1, Typed
  <1>7. Batch'
    BY <1>1, <1>2, <1>6, Typed DEF Batch
  <1>8. TypeOK'
    <2>1. RunOK(rs') /\ worked' \in BOOLEAN
      BY <1>1, <1>4 DEF Recorded, IInv, TypeOK
    <2>2. phase' \in Phases /\ st' \in Settings /\ at' \in 0..Len(plans')
      BY <1>1, <1>2, <1>6, Typed DEF Phases
    <2>3. handed' \in BOOLEAN /\ watched' \in BOOLEAN
      BY <1>1 DEF IInv, TypeOK
    <2> QED  BY <2>1, <2>2, <2>3 DEF RunOK, TypeOK
  <1>9. Fields(rs)'
    BY <1>4 DEF Recorded, RunOK, Fields
  <1>10. Opening'
    <2> SUFFICES ASSUME st.jspace_badge_gate
                 PROVE  /\ rs'.jspace_gate_open => rs'.badged
                        /\ PassedGate' /\ Watching' /\ (worked' => rs'.badged)
      BY <1>1 DEF Opening, GateBadged
    <2>1. /\ rs.jspace_gate_open => rs.badged
          /\ PassedGate /\ (worked => rs.badged)
      BY DEF IInv, Opening, GateBadged
    <2>2. /\ rs'.jspace_gate_open = rs.jspace_gate_open
          /\ rs.badged => rs'.badged
      BY <1>4 DEF Recorded, Onward
    <2>3. PassedGate'
      BY <1>1, <1>5, <2>1, <2>2 DEF PassedGate, Works, Is
    <2>4. worked' => rs'.badged
      BY <1>1, <1>2, <2>1, <2>2 DEF PassedGate
    <2>5. Watching'
      BY <1>1 DEF Watching
    <2> QED  BY <2>1, <2>2, <2>3, <2>4, <2>5
  <1>11. EndsChecked'
    BY <1>1 DEF EndsChecked
  <1>12. RefusalsCounted'
    BY <1>1, <1>4 DEF IInv, RefusalsCounted, Refused, Recorded
  <1> QED  BY <1>7, <1>8, <1>9, <1>10, <1>11, <1>12 DEF IInv

-----------------------------------------------------------------------------
(* Everything else leaves alone what the gates and the results are about.   *)

Aside(r, s) ==
    /\ RunOK(s)
    /\ s.badged = r.badged /\ s.jspace_gate_open = r.jspace_gate_open
    /\ s.auto_delegated = r.auto_delegated /\ s.wrap_up = r.wrap_up
    /\ s.guard_rejections = r.guard_rejections

\* What follows for any step that is beside the gates and the accounting, and
\* ends no run unchecked.
LEMMA AsideKeeps ==
    ASSUME IInv, Aside(rs, rs'), st' = st, worked' = worked, handed' = handed,
           watched' = watched,
           phase' \in Phases \ {"gate", "record"}, EndsChecked',
           (plans' = plans /\ at' = at) \/ (plans' = <<>> /\ at' = 0)
    PROVE  IInv'
  <1>1. plans' \in Seq(Plan) /\ Len(plans') \in Nat /\ Len(plans') <= st.max_batch
        /\ at' \in 0..Len(plans')
    <2>1. CASE plans' = plans /\ at' = at
      BY <2>1, Typed
    <2>2. CASE plans' = <<>> /\ at' = 0
      <3>1. plans' \in Seq(Plan) /\ Len(plans') = 0
        BY <2>2
      <3> QED  BY <2>2, <3>1, Typed
    <2> QED  BY <2>1, <2>2
  <1>2. Batch'
    BY <1>1 DEF Batch
  <1>3. TypeOK' /\ Fields(rs)'
    BY <1>1, Typed DEF Aside, RunOK, IInv, TypeOK, Fields
  <1>4. Opening'
    <2>1. PassedGate => PassedGate'
      BY DEF PassedGate, Aside
    <2>2. Watching'
      BY DEF Watching
    <2> QED  BY <2>1, <2>2 DEF IInv, Opening, GateBadged, Aside
  <1>5. RefusalsCounted'
    BY DEF IInv, RefusalsCounted, Refused, Aside
  <1> QED  BY <1>2, <1>3, <1>4, <1>5 DEF IInv

\* The end of a turn with calls.
LEMMA SettleTurnKeeps ==
    ASSUME IInv, NEW ended \in BOOLEAN, NEW new \in BOOLEAN, SettleTurn(ended, new)
    PROVE  IInv'
  <1>1. /\ plans' = <<>> /\ at' = 0 /\ phase' = "tick"
        /\ st' = st /\ watched' = watched /\ worked' = worked /\ handed' = handed
    BY DEF SettleTurn, Go, Keep, Quiet
  <1>2. \E r \in {rs, [rs EXCEPT !.checked = TRUE]} :
            rs' \in {rs, r, [r EXCEPT !.stall_turns = 0, !.stall_hard_stop = FALSE],
                     [r EXCEPT !.stall_turns = @ + 1]}
    BY DEF SettleTurn
  <1>3. Aside(rs, rs')
    <2>1. PICK r \in {rs, [rs EXCEPT !.checked = TRUE]} :
            rs' \in {rs, r, [r EXCEPT !.stall_turns = 0, !.stall_hard_stop = FALSE],
                     [r EXCEPT !.stall_turns = @ + 1]}
      BY <1>2
    <2>2. Aside(rs, rs) /\ Aside(rs, r)
      BY Typed, ZenonT(60) DEF Aside, RunOK, Fields, RunState
    <2> HIDE DEF Aside
    <2>3. /\ Aside(rs, [r EXCEPT !.stall_turns = 0, !.stall_hard_stop = FALSE])
          /\ Aside(rs, [r EXCEPT !.stall_turns = @ + 1])
      BY <2>2 DEF Aside, RunOK, Fields, RunState
    <2> QED  BY <2>1, <2>2, <2>3
  <1>4. EndsChecked'
    BY <1>1 DEF EndsChecked
  <1> QED  BY <1>1, <1>3, <1>4, AsideKeeps DEF Phases

\* The model issues a batch.
LEMMA IssueKeeps ==
    ASSUME IInv, NEW b \in Batches, IssueCalls(b)
    PROVE  IInv'
  <1>1. /\ phase = "model" /\ ~rs.wrap_up /\ phase' = "gate" /\ at' = 1
        /\ rs' = [rs EXCEPT !.answer_bounces = 0, !.last_clean = "none"]
        /\ plans' = Planned(b) /\ st' = st /\ worked' = worked /\ handed' = handed
        /\ watched' = (rs.badge_watch = "j-space")
    BY DEF IssueCalls, Go, Keep, Quiet
  <1>2. PICK n \in 1..st.max_batch : b \in [1..n -> st.calls]
    BY DEF Batches
  <1>3. /\ plans' \in Seq(Plan) /\ Len(plans') = n /\ n \in Nat /\ n >= 1
        /\ \A i \in DOMAIN plans' : plans'[i].verdict = "none"
    <2>1. n \in Nat /\ n >= 1
      BY Typed
    <2>2. plans' = [i \in 1..n |-> [call |-> b[i], verdict |-> "none",
                                    ok |-> FALSE, repeat |-> FALSE]]
      BY <1>1, <1>2 DEF Planned
    <2>3. \A i \in 1..n : b[i] \in Calls
      BY <1>2, Typed
    <2>4. plans' \in [1..n -> Plan]
      BY <2>2, <2>3 DEF Plan, Verdicts
    <2> QED  BY <2>1, <2>2, <2>4
  <1>4. Aside(rs, rs')
    BY <1>1, Typed DEF Aside, RunOK, Fields, RunState
  <1>5. Batch'
    BY <1>1, <1>2, <1>3, Typed DEF Batch
  <1>6. TypeOK' /\ Fields(rs)'
    BY <1>1, <1>3, <1>4, Typed DEF Aside, RunOK, IInv, TypeOK, Fields, Phases
  <1>7. Opening'
    <2>1. PassedGate'
      BY <1>3 DEF PassedGate
    <2>2. Watching'
      <3>1. rs'.badge_watch = rs.badge_watch
        BY <1>1, Typed DEF RunOK, Fields, RunState
      <3> QED  BY <1>1, <3>1 DEF Watching
    <2> QED  BY <1>1, <1>4, <2>1, <2>2 DEF IInv, Opening, GateBadged, Aside
  <1>8. EndsChecked'
    BY <1>1 DEF EndsChecked
  <1>9. RefusalsCounted'
    <2>1. rs.guard_rejections \in Nat
      BY Typed DEF RunOK
    <2> QED  BY <1>1, <1>4, <2>1, Typed DEF IInv, RefusalsCounted, Refused, Aside
  <1> QED  BY <1>5, <1>6, <1>7, <1>8, <1>9 DEF IInv

\* The turns, the ends of a run and its cancellation.
LEMMA TurnKeeps ==
    ASSUME IInv,
           \/ Boot \/ FinishRun \/ Cancel \/ TurnStarts \/ OutOfIterations \/ OutOfBudget
           \/ TurnStalls \/ TurnRaises \/ ContextOverflows \/ StillCalling
           \/ \E ok \in BOOLEAN : Synthesize(ok)
    PROVE  IInv'
  <1> USE DEF Go, Keep, Idle, Quiet
  <1>1. ASSUME st' = st, worked' = worked, handed' = handed, plans' = plans, at' = at,
               watched' = watched, phase' \in Phases \ {"gate", "record"}, Aside(rs, rs'), EndsChecked'
        PROVE  IInv'
    BY <1>1, AsideKeeps
  <1>2. \A a, d :
          /\ Aside(rs, rs)
          /\ Aside(rs, [rs EXCEPT !.status = a, !.final_answer = d])
          /\ Aside(rs, [rs EXCEPT !.final_answer = d, !.status = a])
    BY Typed DEF Aside, RunOK, Fields, RunState
  <1>3. ASSUME NEW r, r = Counted(rs)
        PROVE  Aside(rs, r)
    BY <1>3, Typed DEF Counted, Aside, RunOK, Fields, RunState
  <1>4. CASE EnterLoop
    BY <1>1, <1>2, <1>4 DEF EnterLoop, EndsChecked, Phases
  <1>5. ASSUME NEW ok \in BOOLEAN, AutoArchitect(ok) PROVE IInv'
    <2>1. Aside(rs, rs')
      BY <1>2, <1>5 DEF AutoArchitect
    <2>2. EndsChecked'
      BY <1>5, Typed DEF AutoArchitect, EndsChecked, RunOK, Fields, RunState
    <2> QED  BY <1>1, <1>5, <2>1, <2>2 DEF AutoArchitect, Phases
  <1>6. CASE FinishRun
    <2>1. EndsChecked'
      BY <1>6 DEF FinishRun, EndsChecked, IInv
    <2> QED  BY <1>1, <1>2, <1>6, <2>1 DEF FinishRun, Phases
  <1>7. CASE Cancel
    <2>1. \/ /\ phase' = "finish"
             /\ rs' = [rs EXCEPT !.status = "cancelled", !.final_answer = "partial"]
          \/ phase' = "lost" /\ rs' = rs
      BY <1>7 DEF Cancel
    <2>2. Aside(rs, rs')
      <3>1. CASE rs' = rs
        BY <1>2, <3>1
      <3>2. CASE rs' = [rs EXCEPT !.status = "cancelled", !.final_answer = "partial"]
        BY <1>2, <3>2
      <3> QED  BY <2>1, <3>1, <3>2
    <2>3. EndsChecked'
      <3>1. [rs EXCEPT !.status = "cancelled", !.final_answer = "partial"].status = "cancelled"
        BY Typed DEF RunOK, Fields, RunState
      <3> QED  BY <2>1, <3>1 DEF EndsChecked
    <2> QED  BY <1>1, <1>7, <2>1, <2>2, <2>3 DEF Cancel, Phases
  <1>8. CASE TurnStarts
    <2> DEFINE c == Counted(rs)
               k == Climb(c)
    <2>1. Aside(rs, c)
      BY <1>3
    <2> HIDE DEF c
    <2>2. Aside(rs, k)
      BY <2>1 DEF Climb, Rungs, Aside, RunOK, Fields, RunState
    <2> HIDE DEF k
    <2>3. Aside(rs, NoteWrapUp(k))
      BY <2>2 DEF NoteWrapUp, Aside, RunOK, Fields, RunState
    <2>4. rs' = NoteWrapUp(k)
      BY <1>8 DEF TurnStarts, k, c
    <2> QED  BY <1>1, <1>8, <2>3, <2>4 DEF TurnStarts, EndsChecked, Phases
  <1>9. CASE OutOfIterations \/ OutOfBudget
    <2> DEFINE c == Counted(rs)
    <2>1. Aside(rs, c)
      BY <1>3
    <2> HIDE DEF c
    <2>2. rs' = [c EXCEPT !.status = "budget_exceeded", !.final_answer = "partial"]
      BY <1>9 DEF OutOfIterations, OutOfBudget, c
    <2>3. Aside(rs, rs') /\ rs'.status = "budget_exceeded"
      BY <2>1, <2>2 DEF Aside, RunOK, Fields, RunState
    <2>4. phase' \in {"synthesis", "finish"}
      BY <1>9 DEF OutOfIterations, OutOfBudget
    <2> QED  BY <1>1, <1>9, <2>3, <2>4 DEF OutOfIterations, OutOfBudget, EndsChecked, Phases
  <1>10. CASE TurnStalls \/ TurnRaises \/ ContextOverflows \/ StillCalling
    <2>1. PICK a \in {"stalled", "error", "stuck"} :
             rs' = [rs EXCEPT !.status = a, !.final_answer = "partial"]
      BY <1>10 DEF TurnStalls, TurnRaises, ContextOverflows, StillCalling
    <2>2. Aside(rs, rs')
      BY <1>2, <2>1
    <2>3. rs'.status = a
      BY <2>1, Typed DEF RunOK, Fields, RunState
    <2>4. phase' \in {"synthesis", "finish"}
      BY <1>10 DEF TurnStalls, TurnRaises, ContextOverflows, StillCalling
    <2> QED
      BY <1>1, <1>10, <2>2, <2>3, <2>4
         DEF TurnStalls, TurnRaises, ContextOverflows, StillCalling, EndsChecked, Phases
  <1>11. ASSUME NEW ok \in BOOLEAN, Synthesize(ok) PROVE IInv'
    <2>1. rs.status # "ok" /\ phase' = "finish"
      BY <1>11 DEF Synthesize, IInv, EndsChecked
    <2>2. \/ rs' = rs
          \/ \E a : rs' = [rs EXCEPT !.final_answer = "synthesized", !.status = a]
      BY <1>11 DEF Synthesize
    <2>3. Aside(rs, rs') /\ (rs' = rs \/ rs'.final_answer = "synthesized")
      <3>1. CASE rs' = rs
        BY <1>2, <3>1
      <3>2. ASSUME NEW a, rs' = [rs EXCEPT !.final_answer = "synthesized", !.status = a]
            PROVE  Aside(rs, rs') /\ rs'.final_answer = "synthesized"
        BY <1>2, <3>2, Typed DEF RunOK, Fields, RunState
      <3> QED  BY <2>2, <3>1, <3>2
    <2>4. EndsChecked'
      BY <2>1, <2>3 DEF EndsChecked
    <2> QED  BY <1>1, <1>11, <2>3, <2>4 DEF Synthesize, Phases
  <1> QED  BY <1>4, <1>5, <1>6, <1>7, <1>8, <1>9, <1>10, <1>11 DEF Boot

\* An answer is bounced, accepted or checked.
LEMMA AnswerKeeps ==
    ASSUME IInv, Answer
    PROVE  IInv'
  <1> USE DEF Go, Keep, Idle, Quiet
  <1>1. ASSUME st' = st, worked' = worked, handed' = handed, plans' = plans, at' = at,
               watched' = watched, phase' \in Phases \ {"gate", "record"}, Aside(rs, rs'), EndsChecked'
        PROVE  IInv'
    BY <1>1, AsideKeeps
  <1>2. ASSUME NEW shape, NEW owed, Bounce(shape, owed) PROVE IInv'
    <2>1. \A f, d, e : Aside(rs, [rs EXCEPT !.fired = f, !.answer_bounces = @ + 1,
                                           !.last_clean = d, !.final_answer = e])
      BY Typed DEF Aside, RunOK, Fields, RunState
    <2>2. Aside(rs, rs')
      BY <1>2, <2>1 DEF Bounce
    <2> QED  BY <1>1, <1>2, <2>2 DEF Bounce, EndsChecked, Phases
  <1>3. ASSUME NEW shape, NEW owed, Accept(shape, owed) PROVE IInv'
    <2>1. \A d, e : /\ Aside(rs, [rs EXCEPT !.last_clean = d, !.final_answer = e])
                    /\ [rs EXCEPT !.last_clean = d, !.final_answer = e].passed = rs.passed
      BY Typed DEF Aside, RunOK, Fields, RunState
    <2>2. Aside(rs, rs') /\ rs'.passed = rs.passed
      BY <1>3, <2>1 DEF Accept
    <2>3. /\ phase' = "verify" \/ (phase' = "finish" /\ (st.verify => rs.passed))
          /\ st' = st
      BY <1>3 DEF Accept, OwesCheck
    <2> QED  BY <1>1, <1>3, <2>2, <2>3 DEF Accept, EndsChecked, Phases
  <1>4. ASSUME NEW tampered \in BOOLEAN, NEW vacuous \in BOOLEAN, NEW exit \in {0, 1},
               NEW sig \in Sigs, CheckAnswer(tampered, exit, vacuous, sig)
        PROVE  IInv'
    <2>1. /\ Aside(rs, [rs EXCEPT !.attempts = @ + 1, !.passed = TRUE])
          /\ [rs EXCEPT !.attempts = @ + 1, !.passed = TRUE].passed
      BY Typed DEF Aside, RunOK, Fields, RunState
    <2>3. \/ /\ rs' = [rs EXCEPT !.attempts = @ + 1, !.passed = TRUE]
             /\ phase' = "finish"
          \/ \E n, a, d :
               /\ rs' = [rs EXCEPT !.attempts = @ + 1, !.sig = sig, !.count = n,
                                   !.status = a, !.final_answer = d]
               /\ (a = "unverified" /\ phase' = "finish") \/ phase' = "tick"
      <3> DEFINE count == IF sig = rs.sig THEN rs.count + 1 ELSE 1
                 gives_up == count >= st.verify_stall_after
                             \/ rs.attempts + 1 >= st.max_checks
      <3>1. CASE Green(tampered, exit, vacuous, sig)
        BY <1>4, <3>1 DEF CheckAnswer
      <3>2. CASE ~Green(tampered, exit, vacuous, sig)
        <4>1. /\ rs' = [rs EXCEPT !.attempts = @ + 1, !.sig = sig, !.count = count,
                              !.status = IF gives_up THEN "unverified" ELSE @,
                              !.final_answer = IF gives_up THEN "unverified" ELSE @]
              /\ phase' = IF gives_up THEN "finish" ELSE "tick"
          BY <1>4, <3>2 DEF CheckAnswer
        <4> HIDE DEF count, gives_up
        <4>2. CASE gives_up
          BY <4>1, <4>2
        <4>3. CASE ~gives_up
          BY <4>1, <4>3
        <4> QED  BY <4>2, <4>3
      <3> QED  BY <3>1, <3>2
    <2>4. \/ Aside(rs, rs') /\ rs'.passed /\ phase' = "finish"
          \/ Aside(rs, rs') /\ rs'.status = "unverified" /\ phase' = "finish"
          \/ Aside(rs, rs') /\ phase' = "tick"
      <3>1. CASE rs' = [rs EXCEPT !.attempts = @ + 1, !.passed = TRUE] /\ phase' = "finish"
        BY <2>1, <3>1
      <3>2. ASSUME NEW n, NEW a, NEW d,
                   rs' = [rs EXCEPT !.attempts = @ + 1, !.sig = sig, !.count = n,
                                    !.status = a, !.final_answer = d],
                   (a = "unverified" /\ phase' = "finish") \/ phase' = "tick"
            PROVE  Aside(rs, rs') /\ ((rs'.status = "unverified" /\ phase' = "finish")
                                         \/ phase' = "tick")
        <4>1. Aside(rs, rs') /\ rs'.status = a
          BY <3>2, Typed DEF Aside, RunOK, Fields, RunState
        <4> QED  BY <3>2, <4>1
      <3>3. CASE \E n, a, d :
                   /\ rs' = [rs EXCEPT !.attempts = @ + 1, !.sig = sig, !.count = n,
                                       !.status = a, !.final_answer = d]
                   /\ (a = "unverified" /\ phase' = "finish") \/ phase' = "tick"
        <4>1. PICK n, a, d :
                 /\ rs' = [rs EXCEPT !.attempts = @ + 1, !.sig = sig, !.count = n,
                                     !.status = a, !.final_answer = d]
                 /\ (a = "unverified" /\ phase' = "finish") \/ phase' = "tick"
          BY <3>3
        <4> QED  BY <3>2, <4>1
      <3> QED  BY <2>3, <3>1, <3>3, Zenon
    <2> QED  BY <1>1, <1>4, <2>4 DEF CheckAnswer, EndsChecked, Phases
  <1> QED  BY <1>2, <1>3, <1>4 DEF Answer

\* Every action keeps the invariant.
LEMMA NextIInv == IInv /\ [Next]_vars => IInv'
  <1>1. ASSUME IInv, UNCHANGED vars PROVE IInv'
    BY <1>1 DEF IInv, TypeOK, Batch, Opening, PassedGate, Watching, EndsChecked, RefusalsCounted,
                Refused, vars
  <1> QED
    BY <1>1, TurnKeeps, IssueKeeps, DispatchKeeps, ResultKeeps, SettleTurnKeeps, AnswerKeeps
       DEF Next, Run, Turn, Settling

\* Before the boot nothing was called or refused, and nothing is to be checked.
LEMMA InitIInv == Init => IInv
  <1> SUFFICES ASSUME Init PROVE IInv
    OBVIOUS
  <1>1. /\ rs = RunState /\ plans = <<>> /\ at = 0 /\ phase = "setup" /\ st \in Settings
        /\ watched = FALSE /\ worked = FALSE /\ handed = FALSE
    BY DEF Init
  <1>2. st.max_batch \in Nat /\ st.guard_max \in Nat
    BY <1>1, SettingsAssumption
  <1>3. RunOK(rs) /\ ~rs.jspace_gate_open /\ ~rs.auto_delegated /\ rs.guard_rejections = 0
    BY <1>1 DEF RunOK, Fields, RunState, None, Rungs
  <1>4. TypeOK /\ Fields(rs)
    <2>1. at \in 0..Len(plans)
      BY <1>1
    <2> QED  BY <1>1, <1>3, <2>1 DEF TypeOK, RunOK, Phases
  <1>5. Batch
    BY <1>1, <1>2 DEF Batch
  <1>6. Opening
    BY <1>1, <1>3 DEF Opening, GateBadged, PassedGate, Watching
  <1>7. EndsChecked
    BY <1>1 DEF EndsChecked
  <1>8. RefusalsCounted
    BY <1>1, <1>2, <1>3 DEF RefusalsCounted, Refused
  <1> QED  BY <1>4, <1>5, <1>6, <1>7, <1>8 DEF IInv

\* Every reachable state of a run satisfies the inductive invariant.
THEOREM Invariance == Spec => []IInv
  BY InitIInv, NextIInv, PTL DEF Spec

\* The variables keep their types.
THEOREM TypeCorrect == Spec => []TypeOK
  <1>1. IInv => TypeOK
    BY DEF IInv
  <1> QED  BY <1>1, Invariance, PTL

\* A run under the watch of j-space works and hands over badged only.
THEOREM OpenersComeFirst == Spec => []OpenersFirst
  <1>1. IInv => OpenersFirst
    BY DEF IInv, Opening, OpenersFirst
  <1> QED  BY <1>1, Invariance, PTL

\* An answer the loop reports as ok has passed the check it was asked to pass.
THEOREM LoopVerifies == Spec => []OkMeansVerifiedInLoop
  <1>1. IInv => OkMeansVerifiedInLoop
    BY DEF IInv, EndsChecked, OkMeansVerifiedInLoop, OkMeansVerified
  <1> QED  BY <1>1, Invariance, PTL

\* Refusals are bounded by the limit and one batch.
THEOREM RefusalsAreBounded == Spec => []RefusalsEnd
  <1>1. IInv => RefusalsEnd
    BY DEF IInv, RefusalsCounted, Refused, RefusalsEnd
  <1> QED  BY <1>1, Invariance, PTL
=============================================================================
