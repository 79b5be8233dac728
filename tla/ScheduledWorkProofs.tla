------------------------ MODULE ScheduledWorkProofs ------------------------
(* Theorems about ScheduledWork, for every value of its constants.          *)
(*                                                                          *)
(* RowStep says how one step may change the rows of one occurrence, and     *)
(* PointSteps how the loop comes to the points that carry an occurrence.    *)
(* Each part of IInv then follows from these two and from the few actions   *)
(* that assign the other variables it reads.                                *)
EXTENDS ScheduledWork, FiniteSetTheorems, WellFoundedInduction, TLAPS

-----------------------------------------------------------------------------
(* Occurrences and the row operators.                                       *)

\* An occurrence is a schedule and a time.
LEMMA OccurrenceParts ==
    ASSUME NEW o \in Occurrences
    PROVE  /\ o[1] \in Schedules /\ o[2] \in 1..MaxTime
           /\ o = <<o[1], o[2]>>
           /\ o[1] \in Nat /\ o[2] \in Nat /\ o[2] > 0
  <1>1. PICK s \in Schedules, t \in 1..MaxTime : o = <<s, t>>
    BY DEF Occurrences
  <1>2. o[1] = s /\ o[2] = t
    BY <1>1
  <1>3. s \in Nat /\ t \in Nat /\ t > 0
    BY ConstantsAssumption DEF ConstantsAssumption
  <1> QED  BY <1>1, <1>2, <1>3

LEMMA OccurrenceType == Occurrences \subseteq Nat \X Nat
  BY OccurrenceParts

\* _prune keeps a row or deletes a terminal one that a newer terminal row of
\* the same schedule outlives.
LEMMA PrunedRow ==
    ASSUME NEW w, NEW S, NEW o \in Occurrences
    PROVE  \/ Pruned(w, S)[o] = w[o]
           \/ /\ Pruned(w, S)[o] = NoRow
              /\ w[o].item \in Terminal
              /\ \E p \in Occurrences : /\ p[1] = o[1] /\ p[2] > o[2]
                                        /\ w[p].item \in Terminal
  <1>1. CASE NewerTerminal(w, o) = {}
    <2>1. Cardinality(NewerTerminal(w, o)) = 0
      BY <1>1, FS_EmptySet
    <2>2. ~(Cardinality(NewerTerminal(w, o)) >= KeepPerSchedule)
      BY <2>1, ConstantsAssumption DEF ConstantsAssumption
    <2> QED  BY <2>2 DEF Pruned
  <1>2. CASE NewerTerminal(w, o) # {}
    <2>1. \E p \in Occurrences : /\ p[1] = o[1] /\ p[2] > o[2]
                                 /\ w[p].item \in Terminal
      BY <1>2 DEF NewerTerminal
    <2> QED  BY <2>1 DEF Pruned
  <1> QED  BY <1>1, <1>2

LEMMA PrunedType ==
    ASSUME NEW w \in [Occurrences -> Rows], NEW S
    PROVE  Pruned(w, S) \in [Occurrences -> Rows]
  BY DEF Pruned, NoRow, Rows

\* finish_attempt ends a running attempt, and may prune its schedule.
LEMMA FinishedType ==
    ASSUME work \in [Occurrences -> Rows], NEW o \in Occurrences,
           NEW ok \in BOOLEAN, NEW d \in BOOLEAN
    PROVE  Finished(o, ok, d) \in [Occurrences -> Rows]
  <1> DEFINE w == [work EXCEPT ![o] = Ended(work[o], ok, d)]
  <1>1. w \in [Occurrences -> Rows]
    BY DEF Ended, Rows, Active, Terminal
  <1>2. Pruned(w, {o[1]}) \in [Occurrences -> Rows]
    BY <1>1, PrunedType
  <1> QED  BY <1>2 DEF Finished

LEMMA CancelledType ==
    ASSUME work \in [Occurrences -> Rows], NEW O
    PROVE  Cancelled(O) \in [Occurrences -> Rows]
  <1> DEFINE hit == {o \in O : work[o].item = "queued" /\ work[o].attempt = "queued"}
             w == [o \in Occurrences |->
                     IF o \in hit
                     THEN [work[o] EXCEPT !.item = "cancelled",
                                          !.attempt = "cancelled"]
                     ELSE work[o]]
  <1>1. w \in [Occurrences -> Rows]
    BY DEF Rows, Active, Terminal
  <1>2. Pruned(w, {o[1] : o \in hit}) \in [Occurrences -> Rows]
    BY <1>1, PrunedType
  <1> QED  BY <1>2 DEF Cancelled

LEMMA RecoveredType ==
    ASSUME work \in [Occurrences -> Rows]
    PROVE  Recovered \in [Occurrences -> Rows]
  <1> DEFINE w == [o \in Occurrences |-> Reconciled(o)]
             kept == Pruned(w, {o[1] : o \in {p \in Occurrences : Interrupted(p)}})
  <1>1. w \in [Occurrences -> Rows]
    BY DEF Reconciled, Rows, Active, Terminal
  <1> HIDE DEF w
  <1>2. kept \in [Occurrences -> Rows]
    BY <1>1, PrunedType
  <1>3. Recovered = [o \in Occurrences |-> Closed(kept[o])]
    BY DEF Recovered, w
  <1> HIDE DEF kept
  <1>4. \A r \in Rows : Closed(r) \in Rows
    BY DEF Closed, Rows, Active, Terminal
  <1> QED  BY <1>2, <1>3, <1>4

\* The fields the actions assign keep rows and entries well formed.
LEMMA FieldTypes ==
    /\ \A r \in Rows : [r EXCEPT !.launched = TRUE] \in Rows
    /\ \A e \in Entries : [e EXCEPT !.enabled = FALSE, !.manual = TRUE] \in Entries
  BY DEF Rows, Entries

LEMMA ClosedType == \A r \in Rows : Closed(r) \in Rows
  BY DEF Closed, Rows, Active, Terminal

\* mark_fired leaves a well-formed entry, and never moves next_fire back.
LEMMA FiredType ==
    ASSUME TypeOK, NEW s \in Schedules, NEW e \in FiredEntries(s)
    PROVE  /\ e \in Entries
           /\ e.life = sched[s].life
           /\ e.next = sched[s].next \/ e.next > clock
  <1>1. sched[s] \in Entries /\ Every[s] \in Nat /\ clock \in Nat /\ MaxTime \in Nat
    BY ConstantsAssumption DEF ConstantsAssumption, TypeOK
  <1> DEFINE f == [sched[s] EXCEPT !.last = sched[s].next]
  <1>2. f \in Entries /\ f.life = sched[s].life /\ f.next = sched[s].next
    BY <1>1 DEF Entries
  <1>3. CASE e = [f EXCEPT !.enabled = FALSE]
    BY <1>2, <1>3 DEF Entries
  <1>4. ASSUME NEW t \in Nat, t > clock, e = [f EXCEPT !.next = t]
        PROVE  e \in Entries /\ e.life = sched[s].life /\ e.next > clock
    BY <1>2, <1>4 DEF Entries
  <1>5. \/ e = [f EXCEPT !.enabled = FALSE]
        \/ \E t \in Nat : t > clock /\ e = [f EXCEPT !.next = t]
    <2> DEFINE later == {u \in (clock + 1)..(clock + Every[s]) :
                           (u - f.next) % Every[s] = 0}
               soon == (clock + 1)..(MaxTime + 1)
    <2>0. /\ \A t \in later : t \in Nat /\ t > clock
          /\ \A t \in soon : t \in Nat /\ t > clock
      BY <1>1
    <2>1. \/ e \in {[f EXCEPT !.next = t] : t \in later}
          \/ e \in {[f EXCEPT !.enabled = FALSE]} \cup {[f EXCEPT !.next = t] : t \in soon}
          \/ e \in {[f EXCEPT !.enabled = FALSE]}
      BY Zenon DEF FiredEntries
    <2> HIDE DEF later, soon, f
    <2> QED  BY <2>0, <2>1
  <1> QED  BY <1>2, <1>3, <1>4, <1>5

-----------------------------------------------------------------------------
(* Type correctness.                                                        *)

LEMMA TypeStep == TypeOK /\ [Next]_vars => TypeOK'
  <1> SUFFICES ASSUME TypeOK, [Next]_vars PROVE TypeOK'
    OBVIOUS
  <1> USE OccurrenceType
  <1>0. /\ MaxTime \in Nat /\ MaxCrashes \in Nat /\ MaxFaults \in Nat
        /\ MaxEscapes \in Nat /\ Schedules \subseteq Nat
        /\ Every \in [Schedules -> Nat]
    BY ConstantsAssumption DEF ConstantsAssumption
  <1> USE DEF TypeOK, At, AtOcc, Delivering, Points, Idle, durable, memory,
              tasks, counters
  <1>1. ASSUME NEW s \in Schedules, AddSchedule(s) PROVE TypeOK'
    BY <1>0, <1>1 DEF AddSchedule, FirstFires, Entries
  <1>2. ASSUME NEW s \in Schedules, Resume(s) PROVE TypeOK'
    BY <1>0, <1>2 DEF Resume, Entries
  <1>3. ASSUME NEW s \in Schedules, Pause(s) PROVE TypeOK'
    BY <1>0, <1>3 DEF Pause, Entries
  <1>4. ASSUME NEW s \in Schedules, Remove(s) PROVE TypeOK'
    BY <1>0, <1>4 DEF Remove, Entries
  <1>5. CASE SetAllowed
    BY <1>0, <1>5 DEF SetAllowed
  <1>6. CASE DeleteUser
    BY <1>0, <1>6 DEF DeleteUser
  <1>7. CASE CancelSource
    BY <1>0, <1>7, CancelledType DEF CancelSource
  <1>8. CASE DropChats
    BY <1>0, <1>8 DEF DropChats
  <1>9. CASE DropSchedules
    BY <1>0, <1>9 DEF DropSchedules, Entries
  <1>10. CASE DropWork
    BY <1>0, <1>10 DEF DropWork, NoRow, Rows
  <1>11. CASE TakeDue
    <2> DEFINE first == {s \in Schedules :
                           /\ Due(s)
                           /\ Cardinality({r \in Schedules : Due(r) /\ r < s})
                                < MaxPerTick}
               dropped == {s \in first : Revoked(s)}
    <2>1. batch' \subseteq Occurrences
      <3>1. ASSUME NEW t \in Schedules, Due(t)
            PROVE  <<t, sched[t].next>> \in Occurrences
        <4>1. sched[t].next \in Nat /\ sched[t].next # 0 /\ sched[t].next <= clock
          BY <3>1 DEF Due, Entries
        <4> QED  BY <1>0, <4>1 DEF Occurrences
      <3>2. batch' = {<<t, sched[t].next>> : t \in first \ dropped}
        BY <1>11 DEF TakeDue
      <3>3. \A t \in first \ dropped : t \in Schedules /\ Due(t)
        OBVIOUS
      <3> HIDE DEF first, dropped
      <3> QED  BY <3>1, <3>2, <3>3
    <2>2. sched' \in [Schedules -> Entries]
      <3>1. \A t \in Schedules :
              [sched[t] EXCEPT !.enabled = FALSE, !.manual = TRUE] \in Entries
        BY FieldTypes
      <3>2. sched' = [t \in Schedules |->
                        IF t \in dropped
                        THEN [sched[t] EXCEPT !.enabled = FALSE, !.manual = TRUE]
                        ELSE sched[t]]
        BY <1>11 DEF TakeDue
      <3> HIDE DEF dropped
      <3> HIDE DEF Entries
      <3> QED  BY <3>1, <3>2
    <2> QED  BY <1>11, <2>1, <2>2 DEF TakeDue
  <1>12. ASSUME NEW o \in Occurrences, EnqueueOccurrence(o) PROVE TypeOK'
    <2>1. work' \in [Occurrences -> Rows]
      <3>1. QueuedRow \in Rows
        BY DEF QueuedRow, NoRow, Rows, Active
      <3> QED  BY <1>12, <3>1 DEF EnqueueOccurrence
    <2>2. batch' \subseteq Occurrences
      BY <1>12 DEF EnqueueOccurrence
    <2> QED  BY <1>0, <1>12, <2>1, <2>2 DEF EnqueueOccurrence
  <1>13. CASE MarkFired
    BY <1>0, <1>13, FiredType, OccurrenceParts DEF MarkFired
  <1>14. CASE MarkFiredRefused
    BY <1>0, <1>14 DEF MarkFiredRefused
  <1>15. CASE CancelOccurrence
    BY <1>0, <1>15, CancelledType DEF CancelOccurrence
  <1>16. CASE BeginPoll
    BY <1>0, <1>16 DEF BeginPoll
  <1>17. CASE EndTick
    BY <1>0, <1>17 DEF EndTick
  <1>18. ASSUME NEW o \in Occurrences, AppendTurn(o) PROVE TypeOK'
    BY <1>0, <1>18 DEF AppendTurn, Appended
  <1>19. CASE AckEffect
    <2>1. loop.occ \in Occurrences
      BY <1>19 DEF AckEffect
    <2>2. work' \in [Occurrences -> Rows]
      <3>1. [work[loop.occ] EXCEPT !.effect = "applied"] \in Rows
        BY <2>1 DEF Rows
      <3>2. Closed([work[loop.occ] EXCEPT !.effect = "applied"]) \in Rows
        BY <3>1, ClosedType
      <3>3. \/ work' = work
            \/ work' = [work EXCEPT ![loop.occ] =
                          Closed([work[loop.occ] EXCEPT !.effect = "applied"])]
        BY <1>19 DEF AckEffect
      <3> QED  BY <2>1, <3>2, <3>3
    <2> QED  BY <1>0, <1>19, <2>2 DEF AckEffect
  <1>20. CASE DeliveryDone
    BY <1>0, <1>20 DEF DeliveryDone
  <1>21. ASSUME NEW o \in Occurrences, Claim(o) PROVE TypeOK'
    BY <1>0, <1>21 DEF Claim, Rows, Active
  <1>22. CASE NothingToClaim
    BY <1>0, <1>22 DEF NothingToClaim
  <1>23. CASE Refuse
    BY <1>0, <1>23, FinishedType DEF Refuse
  <1>24. CASE MarkLaunched
    <2>1. loop.occ \in Occurrences
      BY <1>24 DEF MarkLaunched
    <2>2. work' \in [Occurrences -> Rows]
      <3>1. [work[loop.occ] EXCEPT !.launched = TRUE] \in Rows
        BY <2>1, FieldTypes
      <3>2. \/ work' = work
            \/ work' = [work EXCEPT ![loop.occ] =
                          [work[loop.occ] EXCEPT !.launched = TRUE]]
        BY <1>24, <2>1 DEF MarkLaunched
      <3> QED  BY <2>1, <3>1, <3>2
    <2>3. loop' = AtOcc("start", loop.occ) \/ loop' = At("claim")
      BY <1>24 DEF MarkLaunched
    <2> QED  BY <1>0, <1>24, <2>1, <2>2, <2>3 DEF MarkLaunched
  <1>25. CASE StartRun
    BY <1>0, <1>25 DEF StartRun
  <1>26. CASE StartTick
    BY <1>0, <1>26 DEF StartTick
  <1>27. ASSUME NEW o \in Occurrences, EndPoll(o) PROVE TypeOK'
    <2>1. o[1] \in Schedules
      BY OccurrenceParts
    <2>2. sched' \in [Schedules -> Entries]
      <3>1. \A e \in FiredEntries(o[1]) : e \in Entries
        BY <2>1, FiredType
      <3>2. \/ sched' = sched
            \/ \E e \in FiredEntries(o[1]) : sched' = [sched EXCEPT ![o[1]] = e]
        BY <1>27 DEF EndPoll
      <3> QED  BY <3>1, <3>2
    <2> QED  BY <1>0, <1>27, <2>2 DEF EndPoll
  <1>28. CASE StartOutbox
    BY <1>0, <1>28 DEF StartOutbox
  <1>29. CASE StartDispatcher
    BY <1>0, <1>29 DEF StartDispatcher
  <1>30. ASSUME NEW o \in Occurrences, RunEnds(o) PROVE TypeOK'
    <2>1. work' \in [Occurrences -> Rows]
      <3>1. PICK ok \in BOOLEAN : work' = Finished(o, ok, TRUE)
        BY <1>30 DEF RunEnds
      <3> QED  BY <3>1, FinishedType
    <2> QED  BY <1>0, <1>30, <2>1 DEF RunEnds
  <1>31. ASSUME NEW o \in Occurrences, RunRaises(o) PROVE TypeOK'
    BY <1>0, <1>31, FinishedType DEF RunRaises
  <1>32. ASSUME NEW o \in Occurrences, CancelEscapes(o) PROVE TypeOK'
    BY <1>0, <1>32 DEF CancelEscapes
  <1>33. ASSUME NEW o \in Occurrences, BackoffExpires(o) PROVE TypeOK'
    BY <1>0, <1>33 DEF BackoffExpires, Rows
  <1>34. ASSUME NEW o \in Occurrences, DeliveryFails(o) PROVE TypeOK'
    <2>1. work' \in [Occurrences -> Rows]
      <3>1. [work[o] EXCEPT !.effect = "backoff"] \in Rows
        BY DEF Rows
      <3> QED  BY <1>34, <3>1 DEF DeliveryFails
    <2>2. loop' = At(loop.then) /\ loop.then \in {"idle", "due", "claim"}
      BY <1>34 DEF DeliveryFails
    <2> QED  BY <1>0, <1>34, <2>1, <2>2 DEF DeliveryFails
  <1>35. CASE ExecuteRaises
    BY <1>0, <1>35 DEF ExecuteRaises
  <1>36. CASE Crash
    <2>1. {} \subseteq Occurrences /\ 0 \in Nat /\ crashes + 1 \in 0..MaxCrashes
      BY <1>0, <1>36 DEF Crash
    <2> QED  BY <1>0, <1>36, <2>1 DEF Crash
  <1>37. CASE Restart
    BY <1>0, <1>37, RecoveredType DEF Restart
  <1>38. CASE TimePasses
    BY <1>0, <1>38 DEF TimePasses
  <1>39. CASE UNCHANGED vars
    BY <1>39 DEF vars
  <1> QED
    BY <1>1, <1>2, <1>3, <1>4, <1>5, <1>6, <1>7, <1>8, <1>9, <1>10, <1>11, <1>12, <1>13, <1>14, <1>15, <1>16, <1>17, <1>18, <1>19, <1>20, <1>21, <1>22, <1>23, <1>24, <1>25, <1>26, <1>27, <1>28, <1>29, <1>30, <1>31, <1>32, <1>33, <1>34, <1>35, <1>36, <1>37, <1>38, <1>39
       DEF Next, Admin, Account, LoopStep, Cleanup, TickStep, DeliveryStep,
           DispatchStep

LEMMA InitTypeOK == Init => TypeOK
  <1>1. /\ 1 \in 1..MaxTime /\ 0 \in 0..MaxCrashes
        /\ 0 \in 0..MaxFaults /\ 0 \in 0..MaxEscapes
    BY ConstantsAssumption DEF ConstantsAssumption
  <1>2. NoRow \in Rows
    BY DEF NoRow, Rows
  <1>3. At("idle") \in [at : Points, occ : Nat \X Nat,
                         then : {"idle", "due", "claim"}]
    BY DEF At, Points
  <1>4. \A t \in Nat : [life |-> "unborn", enabled |-> FALSE, manual |-> FALSE,
                        next |-> t, last |-> t] \in Entries
    BY DEF Entries
  <1>5. At("idle").at = "idle"
    BY DEF At
  <1> HIDE DEF At
  <1> SUFFICES ASSUME Init PROVE TypeOK
    OBVIOUS
  <1>6. sched \in [Schedules -> Entries] /\ work \in [Occurrences -> Rows]
    BY <1>2, <1>4 DEF Init
  <1> QED
    BY <1>1, <1>3, <1>5, <1>6 DEF Init, TypeOK

\* Every reachable state is well typed, whatever the schedules and bounds.
THEOREM TypeCorrect == Spec => []TypeOK
  BY InitTypeOK, TypeStep, PTL DEF Spec

-----------------------------------------------------------------------------
(* What the transactions leave of a row.                                    *)

\* A newer item of the same schedule exists.
Outlived(p) ==
    \E q \in Occurrences : q[1] = p[1] /\ q[2] > p[2] /\ work[q].item # "none"

\* What the transactions leave of row p: it is kept, changed or pruned.
LEMMA FinishedRow ==
    ASSUME TypeOK, NEW o \in Occurrences, NEW ok \in BOOLEAN, NEW d \in BOOLEAN,
           NEW p \in Occurrences
    PROVE  \/ Finished(o, ok, d)[p] = work[p]
           \/ /\ p = o /\ work[o].attempt = "running"
              /\ Finished(o, ok, d)[p] = Ended(work[o], ok, d)
           \/ /\ Finished(o, ok, d)[p] = NoRow
              /\ \E q \in Occurrences :
                    /\ q[1] = p[1] /\ q[2] > p[2]
                    /\ work[q].item \in Terminal \/ work[q].attempt = "running"
              /\ \/ work[p].item \in Terminal
                 \/ p = o /\ work[o].attempt = "running" /\ ~d
  <1> DEFINE w == [work EXCEPT ![o] = Ended(work[o], ok, d)]
  <1>1. CASE work[o].attempt # "running"
    BY <1>1 DEF Finished
  <1>2. CASE work[o].attempt = "running"
    <2>1. Finished(o, ok, d) = Pruned(w, {o[1]})
      BY <1>2 DEF Finished
    <2>2. \A q \in Occurrences : w[q] = IF q = o THEN Ended(work[o], ok, d) ELSE work[q]
      BY DEF TypeOK
    <2>3. Ended(work[o], ok, d).item \in Terminal => ~d
      BY DEF Ended, Terminal
    <2> HIDE DEF w
    <2>4. \/ Pruned(w, {o[1]})[p] = w[p]
          \/ /\ Pruned(w, {o[1]})[p] = NoRow
             /\ w[p].item \in Terminal
             /\ \E q \in Occurrences : /\ q[1] = p[1] /\ q[2] > p[2]
                                       /\ w[q].item \in Terminal
      BY PrunedRow
    <2> QED  BY <1>2, <2>1, <2>2, <2>3, <2>4
  <1> QED  BY <1>1, <1>2

LEMMA CancelledRow ==
    ASSUME NEW O, NEW p \in Occurrences
    PROVE  \/ Cancelled(O)[p] = work[p]
           \/ /\ p \in O /\ Queued(p)
              /\ Cancelled(O)[p] = [work[p] EXCEPT !.item = "cancelled",
                                                   !.attempt = "cancelled"]
           \/ /\ Cancelled(O)[p] = NoRow
              /\ \E q \in Occurrences :
                    /\ q[1] = p[1] /\ q[2] > p[2]
                    /\ work[q].item \in Terminal \/ Queued(q)
              /\ work[p].item \in Terminal \/ Queued(p)
  <1> DEFINE hit == {o \in O : work[o].item = "queued" /\ work[o].attempt = "queued"}
             w == [o \in Occurrences |->
                     IF o \in hit
                     THEN [work[o] EXCEPT !.item = "cancelled",
                                          !.attempt = "cancelled"]
                     ELSE work[o]]
             S == {o[1] : o \in hit}
  <1>1. Cancelled(O) = Pruned(w, S)
    BY DEF Cancelled
  <1>2. \A q \in Occurrences :
          \/ w[q] = work[q]
          \/ q \in O /\ Queued(q) /\ w[q] = [work[q] EXCEPT !.item = "cancelled",
                                                            !.attempt = "cancelled"]
    BY DEF Queued
  <1> HIDE DEF w, S
  <1>3. \/ Pruned(w, S)[p] = w[p]
        \/ /\ Pruned(w, S)[p] = NoRow
           /\ w[p].item \in Terminal
           /\ \E q \in Occurrences : /\ q[1] = p[1] /\ q[2] > p[2]
                                     /\ w[q].item \in Terminal
    BY PrunedRow
  <1> QED  BY <1>1, <1>2, <1>3

LEMMA RecoveredRow ==
    ASSUME TypeOK, RowsOK, NEW p \in Occurrences
    PROVE  \/ work[p].attempt # "running" /\ Recovered[p] = work[p]
           \/ /\ work[p].attempt = "running" /\ Recovered[p] = Reconciled(p)
           \/ /\ Recovered[p] = NoRow
              /\ work[p].item \in Terminal
              /\ \E q \in Occurrences : /\ q[1] = p[1] /\ q[2] > p[2]
                                        /\ work[q].item \in Terminal
  <1> DEFINE w == [o \in Occurrences |-> Reconciled(o)]
             S == {o[1] : o \in {q \in Occurrences : Interrupted(q)}}
  <1>1. Recovered[p] = Closed(Pruned(w, S)[p])
    BY DEF Recovered
  <1>2. \A q \in Occurrences :
          /\ w[q] = Reconciled(q)
          /\ work[q].attempt # "running" => w[q] = work[q]
          /\ w[q].item \in Terminal => w[q] = work[q]
          /\ Closed(w[q]) = w[q]
    <2> SUFFICES ASSUME NEW q \in Occurrences
                 PROVE  /\ work[q].attempt # "running" => Reconciled(q) = work[q]
                        /\ Reconciled(q).item \in Terminal => Reconciled(q) = work[q]
                        /\ Closed(Reconciled(q)) = Reconciled(q)
      OBVIOUS
    <2>1. work[q] \in Rows /\ RowOK(work[q])
      BY DEF TypeOK, RowsOK
    <2>2. CASE work[q].attempt # "running"
      BY <2>1, <2>2 DEF Reconciled, Closed, RowOK
    <2>3. CASE work[q].attempt = "running"
      <3>1. Reconciled(q).item \in {"interrupted", "queued"}
        BY <2>1, <2>3 DEF Reconciled, Rows
      <3> QED  BY <2>3, <3>1 DEF Closed, Terminal
    <2> QED  BY <2>2, <2>3
  <1> HIDE DEF w, S
  <1>3. \/ Pruned(w, S)[p] = w[p]
        \/ /\ Pruned(w, S)[p] = NoRow
           /\ w[p].item \in Terminal
           /\ \E q \in Occurrences : /\ q[1] = p[1] /\ q[2] > p[2]
                                     /\ w[q].item \in Terminal
    BY PrunedRow
  <1>4. Closed(NoRow) = NoRow
    BY DEF Closed, NoRow
  <1> QED  BY <1>1, <1>2, <1>3, <1>4

-----------------------------------------------------------------------------
(* What one step does to one occurrence.                                    *)

\* The attempt of p is ended by the coroutine that launches or awaits it.
EndsRun(p) ==
    /\ work[p].attempt = "running"
    /\ \/ loop.at = "launch" /\ loop.occ = p /\ loop' = At("claim")
       \/ p \in exec /\ exec' = exec \ {p}

\* enqueue_occurrence, claim_next, mark_launched, finish_attempt
RowQueued(p) ==
    /\ work[p].item = "none" /\ ~OtherActive(p)
    /\ p \in batch
    /\ work'[p] = QueuedRow
    /\ loop' = AtOcc("fire", p)
RowClaimed(p) ==
    /\ Queued(p)
    /\ work'[p] = [work[p] EXCEPT !.item = "running", !.attempt = "running"]
    /\ loop.at = "claim" /\ loop' = AtOcc("launch", p)
RowLaunched(p) ==
    /\ work[p].attempt = "running" /\ ~work[p].launched
    /\ loop.at = "launch" /\ loop.occ = p /\ loop' = AtOcc("start", p)
    /\ work'[p] = [work[p] EXCEPT !.launched = TRUE]
RowEnded(p) ==
    /\ EndsRun(p)
    /\ \E ok, d \in BOOLEAN : (ok => d) /\ work'[p] = Ended(work[p], ok, d)
\* _cancel, _prune
RowCancelled(p) ==
    /\ Queued(p)
    /\ work'[p] = [work[p] EXCEPT !.item = "cancelled", !.attempt = "cancelled"]
RowPruned(p) ==
    /\ work'[p] = NoRow
    /\ Outlived(p)
    /\ work[p].item \in Terminal \/ Queued(p) \/ EndsRun(p)
\* mark_effect_applied, mark_effect_failed, the end of a backoff
RowApplied(p) ==
    /\ loop.at = "ack" /\ loop.occ = p
    /\ work[p].effect \notin {"none", "applied"}
    /\ work'[p] = Closed([work[p] EXCEPT !.effect = "applied"])
    /\ loop' = Delivering(loop.then)
RowBackoff(p) ==
    /\ work[p].effect = "pending" /\ loop'.at \in {"idle", "due", "claim"}
    /\ work'[p] = [work[p] EXCEPT !.effect = "backoff"]
RowRetried(p) ==
    /\ work[p].effect = "backoff"
    /\ work'[p] = [work[p] EXCEPT !.effect = "pending"]
\* recover, remove_owner
RowRecovered(p) ==
    /\ ~up /\ work[p].attempt = "running"
    /\ work'[p] = Reconciled(p)
RowDropped(p) == loop.at = "dropWork" /\ work'[p] = NoRow

RowStep(p) ==
    \/ work'[p] = work[p]
    \/ RowQueued(p) \/ RowClaimed(p) \/ RowLaunched(p) \/ RowEnded(p)
    \/ RowCancelled(p) \/ RowPruned(p)
    \/ RowApplied(p) \/ RowBackoff(p) \/ RowRetried(p)
    \/ RowRecovered(p) \/ RowDropped(p)

\* Every step changes the rows of an occurrence in one of these ways.
LEMMA RowSteps ==
    ASSUME TypeOK, RowsOK, [Next]_vars, NEW p \in Occurrences
    PROVE  RowStep(p)
  <1> USE DEF durable, memory, RowQueued, RowClaimed, RowLaunched, RowEnded,
              RowCancelled, RowPruned, RowApplied, RowBackoff, RowRetried,
              RowRecovered, RowDropped
  <1>0. /\ work \in [Occurrences -> Rows] /\ work[p] \in Rows /\ RowOK(work[p])
        /\ \A q \in Occurrences : work[q] \in Rows /\ RowOK(work[q])
        /\ (loop.at \in {"ack", "fire", "unqueue", "launch", "start"}
              => loop.occ \in Occurrences)
        /\ exec \subseteq Occurrences
    BY DEF TypeOK, RowsOK
  <1>1. CASE UNCHANGED work
    BY <1>1 DEF RowStep
  <1>2. ASSUME NEW O, work' = Cancelled(O) PROVE RowStep(p)
    <2>1. \A q \in Occurrences : work[q].item \in Terminal => work[q].item # "none"
      BY DEF Terminal
    <2>2. \A q \in Occurrences : Queued(q) => work[q].item # "none"
      BY DEF Queued
    <2> DEFINE c == [work[p] EXCEPT !.item = "cancelled", !.attempt = "cancelled"]
    <2>3. \/ work'[p] = work[p]
          \/ Queued(p) /\ work'[p] = c
          \/ work'[p] = NoRow /\ Outlived(p) /\ (work[p].item \in Terminal \/ Queued(p))
      <3>1. \/ work'[p] = work[p]
            \/ Queued(p) /\ work'[p] = c
            \/ /\ work'[p] = NoRow
               /\ \E q \in Occurrences :
                    /\ q[1] = p[1] /\ q[2] > p[2]
                    /\ work[q].item \in Terminal \/ Queued(q)
               /\ work[p].item \in Terminal \/ Queued(p)
        BY <1>2, CancelledRow, Zenon
      <3> HIDE DEF c
      <3> QED  BY <3>1, <2>1, <2>2 DEF Outlived
    <2> QED  BY <2>3, Zenon DEF RowStep
  <1>3. ASSUME NEW o \in Occurrences, NEW ok \in BOOLEAN, NEW d \in BOOLEAN,
               work' = Finished(o, ok, d), ok => d,
               \/ loop.at = "launch" /\ loop.occ = o /\ loop' = At("claim")
               \/ o \in exec /\ exec' = exec \ {o}
        PROVE  RowStep(p)
    <2>1. \A q \in Occurrences : work[q].item \in Terminal => work[q].item # "none"
      BY DEF Terminal
    <2>2. \A q \in Occurrences : work[q].attempt = "running" => work[q].item # "none"
      BY <1>0 DEF RowOK
    <2> QED  BY <1>3, <2>1, <2>2, FinishedRow DEF RowStep, Outlived, EndsRun
  <1>4. CASE CancelSource
    BY <1>2, <1>4 DEF CancelSource
  <1>5. CASE DropWork
    BY <1>5 DEF DropWork, RowStep
  <1>6. ASSUME NEW o \in Occurrences, EnqueueOccurrence(o) PROVE RowStep(p)
    BY <1>0, <1>6 DEF EnqueueOccurrence, FirstEntry, RowStep
  <1>7. CASE CancelOccurrence
    BY <1>2, <1>7 DEF CancelOccurrence
  <1>8. CASE AckEffect
    BY <1>0, <1>8 DEF AckEffect, RowStep
  <1>9. ASSUME NEW o \in Occurrences, Claim(o) PROVE RowStep(p)
    BY <1>0, <1>9 DEF Claim, RowStep
  <1>10. CASE Refuse
    BY <1>0, <1>3, <1>10 DEF Refuse
  <1>11. CASE MarkLaunched
    BY <1>0, <1>11 DEF MarkLaunched, RowStep
  <1>12. ASSUME NEW o \in Occurrences, RunEnds(o) PROVE RowStep(p)
    BY <1>3, <1>12 DEF RunEnds
  <1>13. ASSUME NEW o \in Occurrences, RunRaises(o) PROVE RowStep(p)
    BY <1>3, <1>13 DEF RunRaises
  <1>14. ASSUME NEW o \in Occurrences, DeliveryFails(o) PROVE RowStep(p)
    <2>1. loop'.at \in {"idle", "due", "claim"}
      BY <1>14 DEF DeliveryFails, TypeOK, At
    <2> QED  BY <1>0, <1>14, <2>1 DEF DeliveryFails, RowStep
  <1>15. ASSUME NEW o \in Occurrences, BackoffExpires(o) PROVE RowStep(p)
    BY <1>0, <1>15 DEF BackoffExpires, RowStep
  <1>16. CASE Restart
    <2>1. \A q \in Occurrences : work[q].item \in Terminal => work[q].item # "none"
      BY DEF Terminal
    <2> QED  BY <1>16, <2>1, RecoveredRow DEF Restart, RowStep, Outlived
  <1>17. CASE /\ ~CancelSource /\ ~DropWork /\ ~CancelOccurrence /\ ~AckEffect
              /\ ~Refuse /\ ~MarkLaunched /\ ~Restart
              /\ \A o \in Occurrences :
                    /\ ~EnqueueOccurrence(o) /\ ~Claim(o) /\ ~RunEnds(o)
                    /\ ~RunRaises(o) /\ ~DeliveryFails(o) /\ ~BackoffExpires(o)
    <2>1. UNCHANGED work
      BY <1>17 DEF vars, Next, Admin, Account, LoopStep, Cleanup, TickStep,
           DeliveryStep, DispatchStep, AddSchedule, Resume, Pause, Remove,
           SetAllowed, DeleteUser, DropChats, DropSchedules, TakeDue, MarkFired,
           MarkFiredRefused, BeginPoll, EndPoll, EndTick, StartTick, StartOutbox,
           StartDispatcher, AppendTurn, DeliveryDone, NothingToClaim, StartRun,
           ExecuteRaises, CancelEscapes, Crash, TimePasses
    <2> QED  BY <1>1, <2>1
  <1> QED
    BY <1>4, <1>5, <1>6, <1>7, <1>8, <1>9, <1>10, <1>11, <1>12, <1>13, <1>14,
       <1>15, <1>16, <1>17

-----------------------------------------------------------------------------
(* How the other variables move.                                            *)

\* The loop comes to a point that carries an occurrence, or to a drop point,
\* by one action only, and stays there while nothing but time and a delivery
\* backoff pass.
Still ==
    /\ loop' = loop /\ up
    /\ UNCHANGED <<sched, owner, turns, batch, exec, starts>>
    /\ clock' \in {clock, clock + 1}
    /\ \A o \in Occurrences :
         \/ work'[o] = work[o]
         \/ /\ work[o].effect = "backoff"
            /\ work'[o] = [work[o] EXCEPT !.effect = "pending"]
LEMMA PointSteps ==
    ASSUME TypeOK, HoldsNothing, [Next]_vars,
           loop'.at \in {"ack", "fire", "unqueue", "launch", "start", "dropChats",
                         "dropSchedules", "dropWork"}
    PROVE  \/ Still
           \/ \E o \in Occurrences :
                \/ EnqueueOccurrence(o) /\ loop' = AtOcc("fire", o)
                \/ AppendTurn(o)
                \/ Claim(o)
           \/ MarkFiredRefused \/ MarkLaunched
           \/ DeleteUser \/ DropChats \/ DropSchedules
  <1> USE DEF durable, memory, tasks, counters
  <1>1. loop.then \in {"idle", "due", "claim"}
    BY DEF TypeOK
  <1>2. /\ \A x : At(x).at = x
        /\ \A x, y : AtOcc(x, y).at = x
        /\ \A x : Delivering(x).at = "deliver"
    BY DEF At, AtOcc, Delivering
  <1>4. ASSUME NEW s \in Schedules, Admin(s) PROVE FALSE
    BY <1>2, <1>4 DEF Admin, AddSchedule, Resume, Pause, Remove, Idle
  <1>5. CASE Account
    BY <1>2, <1>5 DEF Account, SetAllowed, Idle
  <1>6. CASE Cleanup
    BY <1>2, <1>6 DEF Cleanup, CancelSource, DropWork
  <1>7. CASE TickStep
    BY <1>2, <1>7 DEF TickStep, TakeDue, EnqueueOccurrence, MarkFired,
       CancelOccurrence, BeginPoll, EndTick
  <1>8. CASE DeliveryStep
    BY <1>1, <1>2, <1>8 DEF DeliveryStep, AckEffect, DeliveryDone
  <1>9. CASE DispatchStep
    BY <1>2, <1>9 DEF DispatchStep, NothingToClaim, Refuse, StartRun
  <1>10. CASE StartTick \/ StartOutbox \/ StartDispatcher
    BY <1>2, <1>10 DEF StartTick, StartOutbox, StartDispatcher
  <1>11. ASSUME NEW o \in Occurrences,
                \/ EndPoll(o) \/ RunEnds(o) \/ RunRaises(o) \/ CancelEscapes(o)
                \/ DeliveryFails(o)
         PROVE  FALSE
    BY <1>1, <1>2, <1>11 DEF EndPoll, RunEnds, RunRaises, CancelEscapes,
       DeliveryFails, Idle
  <1>12. CASE ExecuteRaises \/ Crash
    BY <1>2, <1>12 DEF ExecuteRaises, Crash
  <1>13. CASE Restart
    BY <1>2, <1>13 DEF Restart, HoldsNothing
  <1>14. CASE UNCHANGED vars
    BY <1>2, <1>14 DEF vars, Still, HoldsNothing
  <1>15. CASE TimePasses
    BY <1>2, <1>15 DEF TimePasses, Still, HoldsNothing
  <1>16. ASSUME NEW o \in Occurrences, BackoffExpires(o) PROVE Still
    BY <1>2, <1>16 DEF BackoffExpires, Still, HoldsNothing, TypeOK
  <1> QED
    BY <1>4, <1>5, <1>6, <1>7, <1>8, <1>9, <1>10, <1>11, <1>12, <1>13, <1>14,
       <1>15, <1>16
       DEF Next, LoopStep

\* next_fire moves when the entry is created and when the tick advances past
\* the entry of its snapshot; nothing else moves it, and nothing moves it back.
Advances(s) ==
    /\ sched'[s].next > clock
    /\ \E o \in batch : o[1] = s /\ batch' = batch \ {o}
LEMMA EntrySteps ==
    ASSUME TypeOK, BatchCurrent, [Next]_vars, NEW s \in Schedules
    PROVE  /\ \/ sched'[s].next = sched[s].next
              \/ sched[s].life = "unborn"
              \/ Advances(s)
           /\ sched'[s].life = "unborn" => sched'[s] = sched[s]
  <1> USE DEF durable
  <1>0. sched \in [Schedules -> Entries]
    BY DEF TypeOK
  <1>1. CASE UNCHANGED sched
    BY <1>1
  <1>3. ASSUME NEW r \in Schedules, Admin(r)
        PROVE  /\ sched'[s].next = sched[s].next \/ sched[s].life = "unborn"
               /\ sched'[s].life = "unborn" => sched'[s] = sched[s]
    <2>1. CASE AddSchedule(r)
      BY <1>0, <2>1 DEF AddSchedule
    <2>2. CASE Resume(r)
      BY <1>0, <2>2 DEF Resume, Entries
    <2>3. CASE Pause(r)
      BY <1>0, <2>3 DEF Pause, Entries
    <2>4. CASE Remove(r)
      BY <1>0, <2>4 DEF Remove, Entries
    <2> QED  BY <1>3, <2>1, <2>2, <2>3, <2>4 DEF Admin
  <1>4. CASE DropSchedules
    BY <1>0, <1>4 DEF DropSchedules, Entries
  <1>5. CASE TakeDue
    <2> DEFINE first == {r \in Schedules :
                           /\ Due(r)
                           /\ Cardinality({q \in Schedules : Due(q) /\ q < r})
                                < MaxPerTick}
               dropped == {r \in first : Revoked(r)}
    <2>1. sched' = [r \in Schedules |->
                      IF r \in dropped
                      THEN [sched[r] EXCEPT !.enabled = FALSE, !.manual = TRUE]
                      ELSE sched[r]]
      BY <1>5 DEF TakeDue
    <2>2. \A r \in dropped : sched[r].life = "live"
      BY DEF Due
    <2>3. [sched[s] EXCEPT !.enabled = FALSE, !.manual = TRUE].next = sched[s].next
      BY <1>0 DEF Entries
    <2>4. [sched[s] EXCEPT !.enabled = FALSE, !.manual = TRUE].life = sched[s].life
      BY <1>0 DEF Entries
    <2> HIDE DEF dropped
    <2> QED  BY <2>1, <2>2, <2>3, <2>4
  <1>6. ASSUME NEW o \in batch, NEW e \in FiredEntries(o[1]),
               sched' = [sched EXCEPT ![o[1]] = e],
               batch' = batch \ {o}, StillExpected(o)
        PROVE  /\ \/ sched'[s].next = sched[s].next
                  \/ Advances(s)
               /\ sched'[s].life = "unborn" => sched'[s] = sched[s]
    <2>1. o \in Occurrences /\ o[1] \in Schedules
      BY OccurrenceParts DEF TypeOK
    <2>2. /\ e.life = sched[o[1]].life
          /\ e.next = sched[o[1]].next \/ e.next > clock
      BY <2>1, FiredType
    <2>3. sched[o[1]].life = "live"
      BY <1>6 DEF StillExpected
    <2> QED  BY <1>0, <1>6, <2>1, <2>2, <2>3 DEF Advances
  <1>7. CASE MarkFired
    <2>1. loop.occ \in batch
      BY <1>7 DEF MarkFired, BatchCurrent
    <2> QED  BY <1>6, <1>7, <2>1 DEF MarkFired
  <1>8. ASSUME NEW o \in Occurrences, EndPoll(o)
        PROVE  /\ \/ sched'[s].next = sched[s].next
                  \/ Advances(s)
               /\ sched'[s].life = "unborn" => sched'[s] = sched[s]
    <2>1. o \in batch
      BY <1>8 DEF EndPoll, FirstEntry
    <2> QED  BY <1>6, <1>8, <2>1 DEF EndPoll
  <1>9. CASE /\ \A r \in Schedules : ~Admin(r)
             /\ ~DropSchedules /\ ~TakeDue /\ ~MarkFired
             /\ \A o \in Occurrences : ~EndPoll(o)
    <2>1. UNCHANGED sched
      BY <1>9 DEF vars, Next, Account, LoopStep, Cleanup, TickStep, DeliveryStep,
         DispatchStep, SetAllowed, DeleteUser, CancelSource, DropChats, DropWork,
         EnqueueOccurrence, MarkFiredRefused, CancelOccurrence, BeginPoll, EndTick,
         StartTick, StartOutbox, StartDispatcher, AppendTurn, AckEffect,
         DeliveryDone, Claim, NothingToClaim, Refuse, MarkLaunched, StartRun,
         ExecuteRaises, CancelEscapes, RunEnds, RunRaises, DeliveryFails,
         BackoffExpires, Crash, Restart, TimePasses
    <2> QED  BY <2>1
  <1> QED  BY <1>3, <1>4, <1>5, <1>7, <1>8, <1>9

LEMMA NextGrows ==
    ASSUME TypeOK, TypeOK', RowsNotAhead, BatchCurrent, [Next]_vars,
           NEW s \in Schedules
    PROVE  sched'[s].next >= sched[s].next
  <1>1. sched[s].next \in Nat /\ sched'[s].next \in Nat /\ clock \in Nat
    BY ConstantsAssumption DEF ConstantsAssumption, TypeOK, Entries
  <1>2. CASE Advances(s)
    <2>1. PICK o \in batch : o[1] = s
      BY <1>2 DEF Advances
    <2>2. sched[s].next <= clock
      BY <2>1 DEF BatchCurrent
    <2> QED  BY <1>1, <1>2, <2>2 DEF Advances
  <1> QED  BY <1>1, <1>2, EntrySteps DEF RowsNotAhead

\* The snapshot is taken at the point "due" and then only loses entries.
LEMMA BatchSteps ==
    ASSUME TypeOK, [Next]_vars
    PROVE  batch' \subseteq batch
           \/ /\ \A o \in batch' : sched'[o[1]].next = o[2] /\ o[2] <= clock'
              /\ loop'.at = "entries"
  <1> USE DEF tasks, memory
  <1>1. CASE TakeDue
    <2> DEFINE first == {s \in Schedules :
                           /\ Due(s)
                           /\ Cardinality({r \in Schedules : Due(r) /\ r < s})
                                < MaxPerTick}
               dropped == {s \in first : Revoked(s)}
    <2>1. /\ batch' = {<<t, sched[t].next>> : t \in first \ dropped}
          /\ sched' = [r \in Schedules |->
                      IF r \in dropped
                      THEN [sched[r] EXCEPT !.enabled = FALSE, !.manual = TRUE]
                      ELSE sched[r]]
          /\ clock' = clock /\ loop'.at = "entries"
      BY <1>1 DEF TakeDue, At
    <2>2. \A t \in first : t \in Schedules /\ sched[t].next <= clock
      BY DEF Due
    <2> HIDE DEF first, dropped
    <2>3. \A t \in first \ dropped :
            t \in Schedules /\ sched[t].next <= clock /\ sched'[t] = sched[t]
      BY <2>1, <2>2
    <2>4. ASSUME NEW o \in batch'
          PROVE  sched'[o[1]].next = o[2] /\ o[2] <= clock'
      <3>1. PICK t \in first \ dropped : o = <<t, sched[t].next>>
        BY <2>1, <2>4
      <3>2. o[1] = t /\ o[2] = sched[t].next
        BY <3>1
      <3> QED  BY <2>1, <2>3, <3>2
    <2> QED  BY <2>1, <2>4
  <1>2. CASE ~TakeDue
    BY <1>2 DEF vars, Next, Admin, Account, LoopStep, Cleanup, TickStep,
       DeliveryStep, DispatchStep, AddSchedule, Resume, Pause, Remove,
       SetAllowed, DeleteUser, CancelSource, DropChats, DropSchedules, DropWork,
       EnqueueOccurrence, MarkFired, MarkFiredRefused, CancelOccurrence,
       BeginPoll, EndPoll, EndTick, StartTick, StartOutbox, StartDispatcher,
       AppendTurn, AckEffect, DeliveryDone, Claim, NothingToClaim, Refuse,
       MarkLaunched, StartRun, ExecuteRaises, CancelEscapes, RunEnds, RunRaises,
       DeliveryFails, BackoffExpires, Crash, Restart, TimePasses
  <1> QED  BY <1>1, <1>2

\* Time, runs and the account.
LEMMA OtherSteps ==
    ASSUME TypeOK, [Next]_vars
    PROVE  /\ clock' >= clock
           /\ owner = "gone" => owner' = "gone"
           /\ (starts' = starts /\ exec' \subseteq exec) \/ StartRun
           /\ turns' = turns \/ DropChats \/ \E o \in Occurrences : AppendTurn(o)
  <1>1. clock \in Nat
    BY ConstantsAssumption DEF ConstantsAssumption, TypeOK
  <1> USE DEF durable, memory, tasks, counters, vars, Next, Admin, Account,
       LoopStep, Cleanup, TickStep, DeliveryStep, DispatchStep, AddSchedule,
       Resume, Pause, Remove, DeleteUser, CancelSource,
       DropSchedules, DropWork, TakeDue, EnqueueOccurrence, MarkFired,
       MarkFiredRefused, CancelOccurrence, BeginPoll, EndPoll, EndTick,
       StartTick, StartOutbox, StartDispatcher, AckEffect, DeliveryDone, Claim,
       NothingToClaim, Refuse, MarkLaunched, ExecuteRaises, CancelEscapes,
       RunEnds, RunRaises, DeliveryFails, BackoffExpires, Crash, Restart
  <1>2. clock' = clock \/ clock' = clock + 1
    BY DEF SetAllowed, TimePasses, StartRun, DropChats, AppendTurn
  <1>3. owner = "gone" => owner' = "gone"
    BY DEF SetAllowed, TimePasses, StartRun, DropChats, AppendTurn
  <1>4. (starts' = starts /\ exec' \subseteq exec) \/ StartRun
    BY DEF SetAllowed, TimePasses, DropChats, AppendTurn
  <1>5. turns' = turns \/ DropChats \/ \E o \in Occurrences : AppendTurn(o)
    BY DEF SetAllowed, TimePasses, StartRun
  <1> HIDE DEF Next, vars
  <1> QED  BY <1>1, <1>2, <1>3, <1>4, <1>5

-----------------------------------------------------------------------------
(* Each part of the invariant is preserved.                                 *)

LEMMA RowsOKStep ==
    ASSUME IInv, [Next]_vars
    PROVE  RowsOK'
  <1> SUFFICES ASSUME NEW p \in Occurrences PROVE RowOK(work'[p])
    BY DEF RowsOK
  <1>1. work[p] \in Rows /\ RowOK(work[p]) /\ RowStep(p)
    BY RowSteps DEF IInv, TypeOK, RowsOK
  <1> USE <1>1 DEF RowOK, NoRow, QueuedRow, Queued, Rows
  <1>2. CASE work'[p] = work[p]
    BY <1>2
  <1>3. CASE RowQueued(p)
    BY <1>3 DEF RowQueued
  <1>4. CASE RowClaimed(p)
    BY <1>4 DEF RowClaimed
  <1>5. CASE RowLaunched(p)
    BY <1>5 DEF RowLaunched
  <1>6. CASE RowEnded(p)
    BY <1>6 DEF RowEnded, Ended
  <1>7. CASE RowCancelled(p)
    BY <1>7 DEF RowCancelled
  <1>8. CASE RowPruned(p) \/ RowDropped(p)
    BY <1>8 DEF RowPruned, RowDropped
  <1>9. CASE RowApplied(p)
    BY <1>9 DEF RowApplied, Closed
  <1>10. CASE RowBackoff(p)
    BY <1>10 DEF RowBackoff
  <1>11. CASE RowRetried(p)
    BY <1>11 DEF RowRetried
  <1>12. CASE RowRecovered(p)
    BY <1>12 DEF RowRecovered, Reconciled
  <1> HIDE DEF RowOK, NoRow, QueuedRow, Queued, Rows
  <1> QED
    BY Zenon, <1>1, <1>2, <1>3, <1>4, <1>5, <1>6, <1>7, <1>8, <1>9, <1>10, <1>11, <1>12
       DEF RowStep

\* A row appears or becomes active only by being queued from the snapshot.
LEMMA RowOrigins ==
    ASSUME IInv, [Next]_vars, NEW p \in Occurrences
    PROVE  \/ RowQueued(p)
           \/ /\ work'[p].item # "none" => work[p].item # "none"
              /\ work'[p].item \in Active => work[p].item \in Active
  <1>1. work[p] \in Rows /\ RowOK(work[p]) /\ RowStep(p)
    BY RowSteps DEF IInv, TypeOK, RowsOK
  <1>2. /\ NoRow.item = "none" /\ "none" \notin Active
        /\ Queued(p) => work[p].item \in Active /\ work[p].item # "none"
        /\ work[p].attempt = "running" \/ work[p].effect \in {"pending", "backoff"}
              => work[p].item \in Active /\ work[p].item # "none"
    BY <1>1 DEF NoRow, Active, Queued, RowOK
  <1>3. CASE RowClaimed(p) \/ RowCancelled(p)
    BY <1>2, <1>3 DEF RowClaimed, RowCancelled
  <1>4. CASE RowLaunched(p) \/ RowRecovered(p) \/ RowEnded(p)
    BY <1>2, <1>4 DEF RowLaunched, RowRecovered, RowEnded, EndsRun
  <1>5. CASE RowPruned(p) \/ RowDropped(p)
    BY <1>2, <1>5 DEF RowPruned, RowDropped
  <1>6. CASE RowApplied(p) \/ RowBackoff(p) \/ RowRetried(p)
    <2>1. work[p].effect \in {"pending", "backoff"}
      BY <1>1, <1>6 DEF RowApplied, RowBackoff, RowRetried, Rows
    <2> QED  BY <1>2, <2>1
  <1> QED  BY <1>1, <1>3, <1>4, <1>5, <1>6 DEF RowStep

LEMMA NoOverlapStep ==
    ASSUME IInv, [Next]_vars
    PROVE  NoOverlap'
  <1> SUFFICES ASSUME NEW o \in Occurrences, NEW p \in Occurrences,
                      o[1] = p[1],
                      work'[o].item \in Active, work'[p].item \in Active
               PROVE  o = p
    BY DEF NoOverlap
  <1>1. ASSUME NEW q \in Occurrences, work'[q].item \in Active
        PROVE  work[q].item \in Active \/ (q \in batch /\ ~OtherActive(q))
    BY <1>1, RowOrigins DEF RowQueued
  <1>2. CASE work[o].item \in Active /\ work[p].item \in Active
    BY <1>2 DEF IInv, NoOverlap
  <1>3. CASE work[o].item \in Active /\ work[p].item \notin Active
    BY <1>1, <1>3 DEF OtherActive
  <1>4. CASE work[o].item \notin Active /\ work[p].item \in Active
    BY <1>1, <1>4 DEF OtherActive
  <1>5. CASE work[o].item \notin Active /\ work[p].item \notin Active
    <2>1. o[2] = p[2]
      BY <1>1, <1>5 DEF IInv, BatchCurrent
    <2> QED  BY <2>1, OccurrenceParts
  <1> QED  BY <1>2, <1>3, <1>4, <1>5

LEMMA RowsNotAheadStep ==
    ASSUME IInv, [Next]_vars
    PROVE  RowsNotAhead'
  <1> USE DEF IInv
  <1>0. TypeOK'
    BY TypeStep
  <1>1. ASSUME NEW o \in Occurrences, work'[o].item # "none"
        PROVE  o[2] <= sched'[o[1]].next
    <2>1. o[1] \in Schedules /\ o[2] \in Nat
      BY OccurrenceParts
    <2>2. sched'[o[1]].next \in Nat /\ sched[o[1]].next \in Nat
      BY <1>0, <2>1 DEF TypeOK, Entries
    <2>3. sched'[o[1]].next >= sched[o[1]].next
      BY <1>0, <2>1, NextGrows
    <2>4. work[o].item # "none" \/ o \in batch
      BY <1>1, RowOrigins DEF RowQueued
    <2>5. o[2] <= sched[o[1]].next
      BY <2>1, <2>2, <2>4 DEF RowsNotAhead, BatchCurrent
    <2> QED  BY <2>1, <2>2, <2>3, <2>5
  <1>2. ASSUME NEW s \in Schedules, sched'[s].life = "unborn"
        PROVE  sched'[s].next = 0
    BY <1>2, EntrySteps DEF RowsNotAhead
  <1> QED  BY <1>1, <1>2 DEF RowsNotAhead

LEMMA BatchCurrentStep ==
    ASSUME IInv, [Next]_vars
    PROVE  BatchCurrent'
  <1> USE DEF IInv
  <1>0. TypeOK'
    BY TypeStep
  <1>1. ASSUME NEW o \in batch'
        PROVE  sched'[o[1]].next = o[2] /\ o[2] <= clock'
    <2>1. CASE ~(batch' \subseteq batch)
      BY <1>1, <2>1, BatchSteps
    <2>2. CASE batch' \subseteq batch
      <3>1. o \in batch /\ o \in Occurrences /\ sched[o[1]].next = o[2] /\ o[2] <= clock
        BY <1>1, <2>2 DEF BatchCurrent, TypeOK
      <3>2. o[1] \in Schedules /\ o[2] \in Nat /\ o[2] > 0
        BY <3>1, OccurrenceParts
      <3>3. clock \in Nat /\ clock' \in Nat /\ clock' >= clock
        BY <1>0, OtherSteps, ConstantsAssumption DEF TypeOK, ConstantsAssumption
      <3>4. sched[o[1]].life # "unborn"
        BY <3>1, <3>2 DEF RowsNotAhead
      <3>5. ~Advances(o[1])
        <4> SUFFICES ASSUME Advances(o[1]) PROVE FALSE
          OBVIOUS
        <4>1. PICK p \in batch : p[1] = o[1] /\ batch' = batch \ {p}
          BY DEF Advances
        <4>2. p \in Occurrences /\ p[2] = o[2]
          BY <3>1, <4>1 DEF BatchCurrent, TypeOK
        <4>3. p = o
          BY <3>1, <4>1, <4>2, OccurrenceParts
        <4> QED  BY <1>1, <4>1, <4>3
      <3>6. sched'[o[1]].next = sched[o[1]].next
        BY <3>2, <3>4, <3>5, EntrySteps
      <3> QED  BY <3>1, <3>2, <3>3, <3>6
    <2> QED  BY <2>1, <2>2
  <1>2. ASSUME loop'.at \in {"fire", "unqueue"}
        PROVE  loop'.occ \in batch'
    <2>1. CASE Still
      BY <1>2, <2>1 DEF Still, BatchCurrent
    <2>2. ASSUME NEW o \in Occurrences, EnqueueOccurrence(o), loop' = AtOcc("fire", o)
          PROVE  loop'.occ \in batch'
      <3>1. o \in batch /\ loop'.at # loop.at /\ loop'.occ = o
        BY <2>2 DEF EnqueueOccurrence, FirstEntry, AtOcc
      <3>2. batch' = batch
        BY <2>2, <3>1 DEF EnqueueOccurrence
      <3> QED  BY <3>1, <3>2
    <2>3. CASE MarkFiredRefused
      BY <2>3 DEF MarkFiredRefused, BatchCurrent, AtOcc, tasks
    <2>4. ASSUME NEW o \in Occurrences, AppendTurn(o) \/ Claim(o)
          PROVE  FALSE
      BY <1>2, <2>4 DEF AppendTurn, Claim, AtOcc
    <2>5. CASE MarkLaunched \/ DeleteUser \/ DropChats \/ DropSchedules
      BY <1>2, <2>5 DEF MarkLaunched, DeleteUser, DropChats, DropSchedules, At, AtOcc
    <2> QED  BY <1>2, <2>1, <2>2, <2>3, <2>4, <2>5, PointSteps
  <1> QED  BY <1>1, <1>2 DEF BatchCurrent

LEMMA HoldsNothingStep ==
    ASSUME IInv, [Next]_vars
    PROVE  HoldsNothing'
  <1> USE DEF IInv, HoldsNothing
  <1>1. ASSUME ~up'
        PROVE  loop' = At("idle") /\ batch' = {} /\ exec' = {} /\ ~polling'
    <2>1. Crash \/ UNCHANGED <<up, loop, batch, exec, polling>>
      BY <1>1 DEF durable, memory, tasks, counters, vars, Next, Idle, Admin,
         Account, LoopStep, Cleanup, TickStep, DeliveryStep, DispatchStep,
         AddSchedule, Resume, Pause, Remove, SetAllowed, DeleteUser,
         CancelSource, DropChats, DropSchedules, DropWork, TakeDue,
         EnqueueOccurrence, MarkFired, MarkFiredRefused, CancelOccurrence,
         BeginPoll, EndPoll, EndTick, StartTick, StartOutbox, StartDispatcher,
         AppendTurn, AckEffect, DeliveryDone, Claim, NothingToClaim, Refuse,
         MarkLaunched, StartRun, ExecuteRaises, CancelEscapes, RunEnds,
         RunRaises, DeliveryFails, BackoffExpires, Restart, TimePasses
    <2>2. CASE Crash
      BY <2>2 DEF Crash
    <2> QED  BY <1>1, <2>1, <2>2
  <1>2. ASSUME loop'.at \in {"dropChats", "dropSchedules", "dropWork"}
        PROVE  owner' = "gone"
    <2>1. CASE Still
      BY <1>2, <2>1 DEF Still
    <2>2. CASE DeleteUser \/ DropChats \/ DropSchedules
      BY <2>2 DEF DeleteUser, DropChats, DropSchedules
    <2>3. ASSUME NEW o \in Occurrences,
                 \/ EnqueueOccurrence(o) /\ loop' = AtOcc("fire", o)
                 \/ AppendTurn(o) \/ Claim(o)
          PROVE  FALSE
      BY <1>2, <2>3 DEF AtOcc, AppendTurn, Claim
    <2>4. CASE MarkFiredRefused \/ MarkLaunched
      BY <1>2, <2>4 DEF MarkFiredRefused, MarkLaunched, At, AtOcc
    <2> QED  BY <1>2, <2>1, <2>2, <2>3, <2>4, PointSteps
  <1> QED  BY <1>1, <1>2

\* A row is lost only with a newer one, to the account deletion, or was empty;
\* the launched mark is lost only with the row.
LEMMA LaunchedKept ==
    ASSUME IInv, [Next]_vars, NEW p \in Occurrences
    PROVE  \/ work'[p].launched = work[p].launched /\ work'[p].item # "none"
           \/ work'[p] = work[p]
           \/ RowLaunched(p) /\ work'[p].launched
           \/ RowPruned(p) /\ work'[p].item = "none"
           \/ loop.at = "dropWork"
           \/ RowQueued(p)
  <1>1. work[p] \in Rows /\ RowOK(work[p]) /\ RowStep(p)
    BY RowSteps DEF IInv, TypeOK, RowsOK
  <1>2. CASE RowClaimed(p) \/ RowCancelled(p)
    BY <1>1, <1>2 DEF RowClaimed, RowCancelled, Rows
  <1>3. CASE RowLaunched(p)
    BY <1>1, <1>3 DEF RowLaunched, Rows
  <1>4. CASE RowEnded(p)
    BY <1>4 DEF RowEnded, Ended
  <1>5. CASE RowPruned(p)
    BY <1>5 DEF RowPruned, NoRow
  <1>6. CASE RowApplied(p) \/ RowBackoff(p) \/ RowRetried(p)
    BY <1>1, <1>6 DEF RowApplied, RowBackoff, RowRetried, Closed, Rows, RowOK
  <1>7. CASE RowRecovered(p)
    BY <1>1, <1>7 DEF RowRecovered, Reconciled, Rows
  <1>8. CASE RowDropped(p)
    BY <1>8 DEF RowDropped
  <1> QED  BY <1>1, <1>2, <1>3, <1>4, <1>5, <1>6, <1>7, <1>8 DEF RowStep

LEMMA StartsAccountedStep ==
    ASSUME IInv, [Next]_vars
    PROVE  StartsAccounted'
  <1> USE DEF IInv
  <1>0. TypeOK'
    BY TypeStep
  <1>1. ASSUME NEW o \in Occurrences
        PROVE  /\ starts'[o] <= 1
               /\ starts'[o] = starts[o] \/ (StartRun /\ o = loop.occ)
    <2>1. starts[o] \in Nat /\ starts[o] <= 1
      BY DEF TypeOK, StartsAccounted, AtMostOneStart
    <2>2. CASE starts' = starts
      BY <2>1, <2>2
    <2>3. CASE StartRun
      BY <2>1, <2>3 DEF StartRun, LaunchPoint, TypeOK
    <2> QED  BY <2>2, <2>3, OtherSteps
  <1>2. ASSUME NEW o \in Occurrences, owner' # "gone", starts'[o] = 1
        PROVE  \/ work'[o].launched
               \/ work'[o].item = "none" /\ o[2] < sched'[o[1]].next
    <2>1. owner # "gone"
      BY <1>2, OtherSteps
    <2>2. CASE StartRun /\ o = loop.occ
      BY <2>2 DEF StartRun, LaunchPoint, durable
    <2>3. CASE starts[o] = 1
      <3>1. /\ o[1] \in Schedules /\ o[2] \in Nat
            /\ sched[o[1]].next \in Nat /\ sched'[o[1]].next \in Nat
            /\ sched'[o[1]].next >= sched[o[1]].next
        BY <1>0, OccurrenceParts, NextGrows DEF TypeOK, Entries
      <3>2. \/ work[o].launched
            \/ work[o].item = "none" /\ o[2] < sched[o[1]].next
        BY <2>1, <2>3 DEF StartsAccounted
      <3>3. ~RowQueued(o)
        <4> SUFFICES ASSUME RowQueued(o) PROVE FALSE
          OBVIOUS
        <4>1. work[o].item = "none" /\ sched[o[1]].next = o[2]
          BY DEF RowQueued, BatchCurrent
        <4>2. ~work[o].launched
          BY <4>1 DEF RowsOK, RowOK
        <4> QED  BY <3>1, <3>2, <4>1, <4>2
      <3>4. loop.at # "dropWork"
        BY <2>1 DEF HoldsNothing
      <3>5. CASE RowPruned(o) /\ work'[o].item = "none"
        <4>1. PICK q \in Occurrences :
                q[1] = o[1] /\ q[2] > o[2] /\ work[q].item # "none"
          BY <3>5 DEF RowPruned, Outlived
        <4>2. q[2] \in Nat /\ q[2] <= sched[o[1]].next
          BY <4>1, OccurrenceParts DEF RowsNotAhead
        <4> QED  BY <3>1, <3>5, <4>1, <4>2
      <3>6. CASE work'[o].launched = work[o].launched /\ work'[o].item # "none"
        <4>1. work[o].item # "none"
          BY <3>3, <3>6, RowOrigins
        <4> QED  BY <3>2, <3>6, <4>1
      <3>7. CASE work'[o] = work[o]
        BY <3>1, <3>2, <3>7
      <3> QED  BY <3>3, <3>4, <3>5, <3>6, <3>7, LaunchedKept
    <2> QED  BY <1>1, <1>2, <2>2, <2>3
  <1> QED  BY <1>1, <1>2 DEF StartsAccounted, AtMostOneStart

LEMMA LaunchPointStep ==
    ASSUME IInv, [Next]_vars
    PROVE  LaunchPoint'
  <1> USE DEF IInv
  <1>1. SUFFICES ASSUME loop'.at \in {"launch", "start"}
                 PROVE  LaunchPoint'
    BY DEF LaunchPoint
  <1>2. CASE Still
    <2>1. loop.occ \in Occurrences
      BY <1>1, <1>2 DEF Still, TypeOK
    <2>2. work[loop.occ].attempt = "running"
      BY <1>1, <1>2 DEF Still, LaunchPoint
    <2>3. work[loop.occ].effect # "backoff"
      BY <2>1, <2>2 DEF RowsOK, RowOK
    <2>4. work'[loop.occ] = work[loop.occ]
      BY <1>2, <2>1, <2>3 DEF Still
    <2> QED  BY <1>2, <2>4 DEF Still, LaunchPoint
  <1>3. ASSUME NEW o \in Occurrences, Claim(o) PROVE LaunchPoint'
    <2>1. work[o] \in Rows /\ ~work[o].launched
      BY <1>3 DEF Claim, Queued, TypeOK, RowsOK, RowOK
    <2>2. loop'.at = "launch" /\ loop'.occ = o
      BY <1>3 DEF Claim, AtOcc
    <2>3. work'[o].attempt = "running" /\ ~work'[o].launched
      BY <1>3, <2>1 DEF Claim, TypeOK, Rows
    <2> QED  BY <2>2, <2>3 DEF LaunchPoint
  <1>4. CASE MarkLaunched
    <2> DEFINE o == loop.occ
    <2>1. /\ o \in Occurrences /\ work[o] \in Rows
          /\ work[o].attempt = "running" /\ ~work[o].launched
      BY <1>4 DEF MarkLaunched, LaunchPoint, TypeOK
    <2>2. /\ work' = [work EXCEPT ![o] = [@ EXCEPT !.launched = TRUE]]
          /\ loop' = AtOcc("start", o)
          /\ owner' = owner /\ starts' = starts /\ ~Problem(o)
      BY <1>4, <2>1 DEF MarkLaunched
    <2>3. owner # "gone"
      BY <2>2 DEF Problem
    <2>4. starts[o] = 0
      <3>1. starts[o] \in Nat /\ starts[o] <= 1
        BY <2>1 DEF TypeOK, StartsAccounted, AtMostOneStart
      <3>2. work[o].item # "none"
        BY <2>1 DEF RowsOK, RowOK
      <3>3. starts[o] # 1
        BY <2>1, <2>3, <3>2 DEF StartsAccounted
      <3> QED  BY <3>1, <3>3
    <2>5. work'[o].attempt = "running" /\ work'[o].launched
      BY <2>1, <2>2 DEF TypeOK, Rows
    <2>6. loop'.at = "start" /\ loop'.occ = o
      BY <2>2 DEF AtOcc
    <2> QED  BY <2>2, <2>3, <2>4, <2>5, <2>6 DEF LaunchPoint
  <1>5. ASSUME NEW o \in Occurrences,
               \/ EnqueueOccurrence(o) /\ loop' = AtOcc("fire", o)
               \/ AppendTurn(o)
        PROVE  FALSE
    BY <1>1, <1>5 DEF AtOcc, AppendTurn
  <1>6. CASE MarkFiredRefused \/ DeleteUser \/ DropChats \/ DropSchedules
    BY <1>1, <1>6 DEF MarkFiredRefused, DeleteUser, DropChats, DropSchedules, At, AtOcc
  <1> QED  BY <1>1, <1>2, <1>3, <1>4, <1>5, <1>6, PointSteps

LEMMA ExecBackedStep ==
    ASSUME IInv, [Next]_vars
    PROVE  ExecBacked'
  <1> USE DEF IInv
  <1>1. SUFFICES ASSUME NEW o \in exec', owner' # "gone"
                 PROVE  work'[o].attempt = "running" /\ work'[o].launched
    BY DEF ExecBacked
  <1>2. owner # "gone"
    BY <1>1, OtherSteps
  <1>3. CASE StartRun /\ o = loop.occ
    BY <1>3 DEF StartRun, LaunchPoint, durable
  <1>4. CASE o \in exec
    <2>1. o \in Occurrences /\ work[o].attempt = "running" /\ work[o].launched
      BY <1>2, <1>4 DEF ExecBacked, TypeOK
    <2>2. work[o] \in Rows /\ RowOK(work[o]) /\ RowStep(o)
      BY <2>1, RowSteps DEF TypeOK, RowsOK
    <2>3. work[o].item = "running" /\ work[o].effect \notin {"pending", "backoff"}
      BY <2>1, <2>2 DEF RowOK
    <2>4. ~EndsRun(o)
      BY <1>1, <2>1 DEF EndsRun, LaunchPoint
    <2>5. /\ ~RowQueued(o) /\ ~RowClaimed(o) /\ ~RowLaunched(o) /\ ~RowEnded(o)
          /\ ~RowCancelled(o) /\ ~RowPruned(o)
      BY <2>1, <2>3, <2>4 DEF RowQueued, RowClaimed, RowLaunched, RowEnded,
         RowCancelled, RowPruned, Queued, Terminal
    <2>6. ~RowApplied(o) /\ ~RowBackoff(o) /\ ~RowRetried(o)
      BY <2>2, <2>3 DEF RowApplied, RowBackoff, RowRetried, Rows
    <2>7. ~RowRecovered(o) /\ ~RowDropped(o)
      BY <1>2, <1>4 DEF RowRecovered, RowDropped, HoldsNothing
    <2> QED  BY <2>1, <2>2, <2>5, <2>6, <2>7 DEF RowStep
  <1>5. o \in exec \/ (StartRun /\ o = loop.occ)
    BY <1>1, OtherSteps DEF StartRun
  <1> QED  BY <1>3, <1>4, <1>5

LEMMA NoConcurrentRunsStep ==
    ASSUME IInv, [Next]_vars
    PROVE  NoConcurrentRuns'
  <1> USE DEF IInv
  <1>1. CASE exec' \subseteq exec
    BY <1>1 DEF NoConcurrentRuns
  <1>2. CASE StartRun
    <2>1. loop.occ \in Occurrences /\ loop.at = "start" /\ exec' = exec \cup {loop.occ}
      BY <1>2 DEF StartRun, TypeOK
    <2>2. owner # "gone" /\ work[loop.occ].attempt = "running"
      BY <2>1 DEF LaunchPoint
    <2>3. ASSUME NEW p \in exec, p[1] = loop.occ[1] PROVE p = loop.occ
      <3>1. p \in Occurrences /\ work[p].attempt = "running"
        BY <2>2 DEF ExecBacked, TypeOK
      <3>2. work[p].item \in Active /\ work[loop.occ].item \in Active
        BY <2>1, <2>2, <3>1 DEF RowsOK, RowOK, Active
      <3> QED  BY <2>1, <2>3, <3>1, <3>2 DEF NoOverlap
    <2> QED  BY <2>1, <2>3 DEF NoConcurrentRuns
  <1> QED  BY <1>1, <1>2, OtherSteps

\* One append at most: the other steps leave the turns or delete them.
LEMMA TurnsStep ==
    ASSUME IInv, [Next]_vars, NEW o \in Occurrences
    PROVE  /\ turns'[o] <= 1
           /\ turns[o] = 1 => turns'[o] = 1 \/ owner' = "gone"
  <1> USE DEF IInv
  <1>1. turns[o] \in Nat /\ turns[o] <= 1
    BY DEF TypeOK, ReportPostedOnce
  <1>2. CASE turns' = turns
    BY <1>1, <1>2
  <1>3. CASE DropChats
    BY <1>3 DEF DropChats, HoldsNothing
  <1>4. ASSUME NEW p \in Occurrences, AppendTurn(p)
        PROVE  turns'[o] <= 1 /\ (turns[o] = 1 => turns'[o] = 1)
    BY <1>1, <1>4 DEF AppendTurn, Appended, TypeOK
  <1> QED  BY <1>2, <1>3, <1>4, OtherSteps

LEMMA AckPointStep ==
    ASSUME IInv, [Next]_vars
    PROVE  AckPoint'
  <1> USE DEF IInv
  <1>1. SUFFICES ASSUME loop'.at = "ack"
                 PROVE  turns'[loop'.occ] = 1 /\ work'[loop'.occ].effect = "pending"
    BY DEF AckPoint
  <1>2. CASE Still
    <2>1. loop.occ \in Occurrences /\ work[loop.occ].effect = "pending"
      BY <1>1, <1>2 DEF Still, TypeOK, AckPoint
    <2>2. work'[loop.occ] = work[loop.occ]
      BY <1>2, <2>1 DEF Still
    <2> QED  BY <1>1, <1>2, <2>2 DEF Still, AckPoint
  <1>3. ASSUME NEW o \in Occurrences, AppendTurn(o)
        PROVE  turns'[loop'.occ] = 1 /\ work'[loop'.occ].effect = "pending"
    <2>1. turns[o] \in Nat /\ turns[o] <= 1
      BY DEF TypeOK, ReportPostedOnce
    <2> QED  BY <1>3, <2>1 DEF AppendTurn, Appended, TypeOK
  <1>4. ASSUME NEW o \in Occurrences,
               \/ EnqueueOccurrence(o) /\ loop' = AtOcc("fire", o)
               \/ Claim(o)
        PROVE  FALSE
    BY <1>1, <1>4 DEF AtOcc, Claim
  <1>5. CASE \/ MarkFiredRefused \/ MarkLaunched
             \/ DeleteUser \/ DropChats \/ DropSchedules
    BY <1>1, <1>5 DEF MarkFiredRefused, MarkLaunched, DeleteUser, DropChats,
       DropSchedules, At, AtOcc
  <1> QED  BY <1>1, <1>2, <1>3, <1>4, <1>5, PointSteps

LEMMA EndedRow ==
    ASSUME NEW p \in Occurrences, RowEnded(p)
    PROVE  work'[p].attempt # "running" /\ work'[p].item # "completed"
  <1>1. PICK ok \in BOOLEAN, d \in BOOLEAN : (ok => d) /\ work'[p] = Ended(work[p], ok, d)
    BY DEF RowEnded
  <1> QED  BY <1>1 DEF Ended

LEMMA ReportPostedOnceStep ==
    ASSUME IInv, [Next]_vars
    PROVE  ReportPostedOnce'
  <1> USE DEF IInv
  <1>1. SUFFICES ASSUME NEW o \in Occurrences,
                        work'[o].item = "completed", owner' # "gone"
                 PROVE  turns'[o] = 1
    BY TurnsStep DEF ReportPostedOnce
  <1>2. owner # "gone"
    BY <1>1, OtherSteps
  <1>3. work[o] \in Rows /\ RowOK(work[o]) /\ RowStep(o)
    BY RowSteps DEF TypeOK, RowsOK
  <1>4. CASE work'[o] = work[o]
    BY <1>1, <1>2, <1>4, TurnsStep DEF ReportPostedOnce
  <1>5. CASE RowApplied(o)
    BY <1>1, <1>5, TurnsStep DEF RowApplied, AckPoint
  <1>6. ~RowQueued(o) /\ ~RowClaimed(o) /\ ~RowCancelled(o)
    BY <1>1, <1>3 DEF RowQueued, RowClaimed, RowCancelled, QueuedRow, NoRow, Rows
  <1>7. ~RowPruned(o) /\ ~RowDropped(o)
    BY <1>1 DEF RowPruned, RowDropped, NoRow
  <1>8. ~RowEnded(o)
    BY <1>1, EndedRow
  <1>9. ~RowLaunched(o) /\ ~RowBackoff(o) /\ ~RowRetried(o)
    BY <1>1, <1>3 DEF RowLaunched, RowBackoff, RowRetried, Rows, RowOK
  <1>10. ~RowRecovered(o)
    BY <1>1, <1>3 DEF RowRecovered, Reconciled, Rows, RowOK
  <1> QED  BY <1>3, <1>4, <1>5, <1>6, <1>7, <1>8, <1>9, <1>10 DEF RowStep

\* finish_attempt leaves the attempt it was called for not running.
LEMMA FinishedEnds ==
    ASSUME TypeOK, NEW o \in Occurrences, NEW ok \in BOOLEAN, NEW d \in BOOLEAN
    PROVE  Finished(o, ok, d)[o].attempt # "running"
  <1> DEFINE w == [work EXCEPT ![o] = Ended(work[o], ok, d)]
  <1>1. CASE work[o].attempt # "running"
    BY <1>1 DEF Finished
  <1>2. CASE work[o].attempt = "running"
    <2>1. Finished(o, ok, d) = Pruned(w, {o[1]})
      BY <1>2 DEF Finished
    <2>2. w[o].attempt # "running"
      BY DEF TypeOK, Ended
    <2> HIDE DEF w
    <2>3. Pruned(w, {o[1]})[o] = w[o] \/ Pruned(w, {o[1]})[o] = NoRow
      BY PrunedRow
    <2> QED  BY <2>1, <2>2, <2>3 DEF NoRow
  <1> QED  BY <1>1, <1>2

\* A coroutine gives up a running attempt by ending it, by an escape or with
\* the process.
LEMMA HolderSteps ==
    ASSUME TypeOK, HoldsNothing, [Next]_vars, up, NEW o \in Occurrences
    PROVE  /\ o \in exec => \/ o \in exec' \/ Crash \/ RunEnds(o) \/ RunRaises(o)
                            \/ CancelEscapes(o)
           /\ loop.at \in {"launch", "start"} =>
                 \/ loop' = loop
                 \/ Refuse \/ MarkLaunched \/ StartRun \/ ExecuteRaises \/ Crash
           /\ escapes' = 0 => escapes = 0 /\ ~ExecuteRaises /\ ~CancelEscapes(o)
  <1>1. escapes \in Nat /\ loop.then \in {"idle", "due", "claim"}
    BY ConstantsAssumption DEF ConstantsAssumption, TypeOK
  <1> USE DEF durable, memory, tasks, counters, vars, Admin,
       Account, LoopStep, Cleanup, TickStep, DeliveryStep, DispatchStep,
       AddSchedule, Resume, Pause, Remove, SetAllowed, DeleteUser,
       CancelSource, DropChats, DropSchedules, DropWork, TakeDue,
       EnqueueOccurrence, MarkFired, MarkFiredRefused, CancelOccurrence,
       BeginPoll, EndPoll, EndTick, StartTick, StartOutbox, StartDispatcher,
       AppendTurn, AckEffect, DeliveryDone, Claim, NothingToClaim,
       BackoffExpires, DeliveryFails, Restart, TimePasses
  <1>2. \/ exec \subseteq exec' \/ Crash
        \/ \E q \in Occurrences : RunEnds(q) \/ RunRaises(q) \/ CancelEscapes(q)
    BY DEF Next, Refuse, MarkLaunched, StartRun, ExecuteRaises
  <1>3. ASSUME NEW q \in Occurrences, RunEnds(q) \/ RunRaises(q) \/ CancelEscapes(q)
        PROVE  exec' = exec \ {q}
    BY <1>3 DEF RunEnds, RunRaises, CancelEscapes
  <1>4. loop.at \in {"launch", "start"} => ~Idle
    BY DEF Idle, At
  <1>5. ~Idle => \/ loop' = loop
                 \/ LoopStep \/ ExecuteRaises \/ Crash
                 \/ \E q \in Occurrences : DeliveryFails(q)
    BY DEF Next, RunEnds, RunRaises, CancelEscapes
  <1>6. loop.at \in {"launch", "start"} =>
            /\ LoopStep => Refuse \/ MarkLaunched \/ StartRun
            /\ \A q \in Occurrences : ~DeliveryFails(q)
    OBVIOUS
  <1>7. \/ escapes' = escapes \/ ExecuteRaises
        \/ \E q \in Occurrences : CancelEscapes(q)
    BY DEF Next, Refuse, MarkLaunched, StartRun, RunEnds, RunRaises, Crash
  <1>8. ASSUME NEW q \in Occurrences, ExecuteRaises \/ CancelEscapes(q)
        PROVE  escapes' # 0
    <2>1. escapes' = escapes + 1
      BY <1>8 DEF ExecuteRaises, CancelEscapes
    <2> QED  BY <1>1, <2>1
  <1> HIDE DEF Next, vars, LoopStep, DeliveryFails
  <1> QED  BY <1>2, <1>3, <1>4, <1>5, <1>6, <1>7, <1>8

LEMMA NoStrandedStep ==
    ASSUME IInv, [Next]_vars
    PROVE  NoStrandedAttempt'
  <1> USE DEF IInv
  <1>1. SUFFICES ASSUME NEW o \in Occurrences, up', escapes' = 0,
                        work'[o].attempt = "running"
                 PROVE  \/ o \in exec'
                        \/ loop'.at \in {"launch", "start"} /\ loop'.occ = o
    BY DEF NoStrandedAttempt
  <1>2. work[o] \in Rows /\ RowOK(work[o]) /\ RowStep(o)
    BY RowSteps DEF TypeOK, RowsOK
  <1>3. CASE RowClaimed(o) \/ RowLaunched(o)
    BY <1>3 DEF RowClaimed, RowLaunched, AtOcc
  <1>4. \/ RowClaimed(o) \/ RowLaunched(o)
        \/ work'[o] = work[o]
    <2>1. ~RowQueued(o) /\ ~RowPruned(o) /\ ~RowDropped(o)
      <3>1. QueuedRow.attempt # "running" /\ NoRow.attempt # "running"
        BY DEF QueuedRow, NoRow
      <3> QED  BY <1>1, <3>1 DEF RowQueued, RowPruned, RowDropped
    <2>2. ~RowEnded(o)
      BY <1>1, EndedRow
    <2>3. ~RowCancelled(o) /\ ~RowApplied(o) /\ ~RowBackoff(o) /\ ~RowRetried(o)
      BY <1>1, <1>2 DEF RowCancelled, RowApplied, RowBackoff, RowRetried, Rows,
         RowOK, Closed
    <2>4. ~RowRecovered(o)
      BY <1>1, <1>2 DEF RowRecovered, Reconciled, Rows
    <2> QED  BY <1>2, <2>1, <2>2, <2>3, <2>4 DEF RowStep
  <1>5. CASE work'[o] = work[o] /\ up
    <2>1. /\ work[o].attempt = "running"
          /\ escapes = 0 /\ ~ExecuteRaises /\ ~CancelEscapes(o)
      BY <1>1, <1>5, HolderSteps
    <2>2. ~Crash
      BY <1>1 DEF Crash
    <2>3. CASE o \in exec
      <3>1. ~RunEnds(o)
        BY <1>1, FinishedEnds DEF RunEnds
      <3>2. ~RunRaises(o)
        BY <1>1, FinishedEnds DEF RunRaises
      <3> QED  BY <1>5, <2>1, <2>2, <2>3, <3>1, <3>2, HolderSteps
    <2>4. CASE loop.at \in {"launch", "start"} /\ loop.occ = o
      <3>1. ~Refuse
        BY <1>1, <2>4, FinishedEnds DEF Refuse
      <3>2. CASE MarkLaunched
        BY <2>1, <2>4, <3>2 DEF MarkLaunched, LaunchPoint, AtOcc
      <3>3. CASE StartRun
        BY <2>4, <3>3 DEF StartRun
      <3> QED  BY <1>5, <2>1, <2>2, <2>4, <3>1, <3>2, <3>3, HolderSteps
    <2> QED  BY <1>5, <2>1, <2>3, <2>4 DEF NoStrandedAttempt
  <1>6. CASE work'[o] = work[o] /\ ~up
    <2>1. Restart
      BY <1>1, <1>6 DEF durable, memory, tasks, counters, vars, Next, Idle, Admin,
         Account, LoopStep, Cleanup, TickStep, DeliveryStep, DispatchStep,
         AddSchedule, Resume, Pause, Remove, SetAllowed, DeleteUser,
         CancelSource, DropChats, DropSchedules, DropWork, TakeDue,
         EnqueueOccurrence, MarkFired, MarkFiredRefused, CancelOccurrence,
         BeginPoll, EndPoll, EndTick, StartTick, StartOutbox, StartDispatcher,
         AppendTurn, AckEffect, DeliveryDone, Claim, NothingToClaim, Refuse,
         MarkLaunched, StartRun, ExecuteRaises, CancelEscapes, RunEnds,
         RunRaises, DeliveryFails, BackoffExpires, Crash, TimePasses
    <2>2. work'[o].attempt # "running"
      <3>1. work' = Recovered
        BY <2>1 DEF Restart
      <3>2. Reconciled(o).attempt # "running"
        BY <1>2 DEF Reconciled, Rows
      <3> QED  BY <3>1, <3>2, RecoveredRow DEF NoRow
    <2> QED  BY <1>1, <2>2
  <1> QED  BY <1>3, <1>4, <1>5, <1>6

-----------------------------------------------------------------------------
(* The theorems.                                                            *)

LEMMA InitIInv == Init => IInv
  <1> SUFFICES ASSUME Init PROVE IInv
    OBVIOUS
  <1>1. TypeOK
    BY InitTypeOK
  <1>2. \A o \in Occurrences :
          /\ work[o] = NoRow /\ starts[o] = 0 /\ turns[o] = 0
          /\ o[1] \in Schedules
    BY OccurrenceParts DEF Init
  <1>3. /\ NoRow.item = "none" /\ NoRow.attempt = "none" /\ ~NoRow.launched
        /\ NoRow.effect = "none"
    BY DEF NoRow
  <1>4. /\ loop.at = "idle" /\ up /\ batch = {} /\ exec = {}
        /\ \A s \in Schedules : sched[s].next = 0
    BY DEF Init, At
  <1>5. RowsOK /\ RowsNotAhead /\ NoOverlap
    BY <1>2, <1>3, <1>4 DEF RowsOK, RowOK, RowsNotAhead, NoOverlap, Active
  <1>6. BatchCurrent /\ HoldsNothing /\ LaunchPoint /\ ExecBacked /\ AckPoint
    BY <1>4 DEF BatchCurrent, HoldsNothing, LaunchPoint, ExecBacked, AckPoint
  <1>7. StartsAccounted /\ NoConcurrentRuns /\ ReportPostedOnce /\ NoStrandedAttempt
    BY <1>2, <1>3, <1>4 DEF StartsAccounted, AtMostOneStart, NoConcurrentRuns,
       ReportPostedOnce, NoStrandedAttempt
  <1> QED  BY <1>1, <1>5, <1>6, <1>7 DEF IInv

LEMMA IInvStep == IInv /\ [Next]_vars => IInv'
  <1> SUFFICES ASSUME IInv, [Next]_vars PROVE IInv'
    OBVIOUS
  <1>1. TypeOK'
    BY TypeStep DEF IInv
  <1>2. RowsOK' /\ RowsNotAhead' /\ NoOverlap'
    BY RowsOKStep, RowsNotAheadStep, NoOverlapStep
  <1>3. BatchCurrent' /\ HoldsNothing' /\ LaunchPoint' /\ AckPoint'
    BY BatchCurrentStep, HoldsNothingStep, LaunchPointStep, AckPointStep
  <1>4. StartsAccounted' /\ ExecBacked' /\ NoConcurrentRuns'
    BY StartsAccountedStep, ExecBackedStep, NoConcurrentRunsStep
  <1>5. ReportPostedOnce' /\ NoStrandedAttempt'
    BY ReportPostedOnceStep, NoStrandedStep
  <1> QED  BY <1>1, <1>2, <1>3, <1>4, <1>5 DEF IInv

\* The inductive invariant holds in every reachable state.
THEOREM Invariance == Spec => []IInv
  BY InitIInv, IInvStep, PTL DEF Spec

\* No occurrence ever starts two agent runs: recovery never replays launched
\* work, whatever crashes, re-enqueues and prunings come between.
THEOREM OneStart == Spec => []AtMostOneStart
  <1>1. IInv => AtMostOneStart
    BY DEF IInv, StartsAccounted
  <1> QED  BY Invariance, <1>1, PTL

\* No schedule has two unfinished items, nor two agent runs in memory.
THEOREM NoOverlaps == Spec => [](NoOverlap /\ NoConcurrentRuns)
  <1>1. IInv => NoOverlap /\ NoConcurrentRuns
    BY DEF IInv
  <1> QED  BY Invariance, <1>1, PTL

\* A report is posted at most once, and completed only with its turn posted.
THEOREM OnePost == Spec => []ReportPostedOnce
  <1>1. IInv => ReportPostedOnce
    BY DEF IInv
  <1> QED  BY Invariance, <1>1, PTL

\* Only an escaping exception leaves a running attempt without a coroutine.
THEOREM NoStranding == Spec => []NoStrandedAttempt
  <1>1. IInv => NoStrandedAttempt
    BY DEF IInv
  <1> QED  BY Invariance, <1>1, PTL

-----------------------------------------------------------------------------
(* The promise to the owner.                                                *)
(*                                                                          *)
(* The four parts that are inductive with IInv are preserved one by one,    *)
(* from RowSteps, PointSteps and the other lemmas above; then every step    *)
(* maps to a step of OccurrenceReports.                                     *)

\* The effects of a committed report that is not yet acknowledged.
Undelivered == {"pending", "backoff"}

-----------------------------------------------------------------------------
(* The outbox rows.                                                         *)

\* A report is committed by the end of a run, and leaves the outbox by its
\* acknowledgement or with the account.
LEMMA OutboxRow ==
    ASSUME TypeOK, RowsOK, [Next]_vars, NEW p \in Occurrences
    PROVE  \/ work'[p].effect \in Undelivered <=> work[p].effect \in Undelivered
           \/ AckEffect \/ DropWork \/ \E o \in Occurrences : RunEnds(o)
  <1> USE DEF durable, memory
  <1>0. /\ work \in [Occurrences -> Rows]
        /\ \A q \in Occurrences : work[q] \in Rows /\ RowOK(work[q])
        /\ (loop.at \in {"ack", "fire", "unqueue", "launch", "start"}
              => loop.occ \in Occurrences)
        /\ exec \subseteq Occurrences
    BY DEF TypeOK, RowsOK
  <1> DEFINE Same == work'[p].effect \in Undelivered <=> work[p].effect \in Undelivered
  <1>1. CASE UNCHANGED work
    BY <1>1
  <1>2. \A q \in Occurrences :
           work[q].item \in Terminal \/ work[q].item = "queued" \/ work[q].attempt = "running"
             => work[q].effect \notin Undelivered
    BY <1>0 DEF RowOK, Terminal, Undelivered
  <1>3. NoRow.effect \notin Undelivered /\ QueuedRow.effect \notin Undelivered
    BY DEF NoRow, QueuedRow, Undelivered
  <1>4. ASSUME NEW O, work' = Cancelled(O) PROVE Same
    <2>1. [work[p] EXCEPT !.item = "cancelled", !.attempt = "cancelled"].effect
            = work[p].effect
      BY <1>0 DEF Rows
    <2> QED  BY <1>2, <1>3, <1>4, <2>1, CancelledRow DEF Queued
  <1>5. ASSUME NEW o \in Occurrences, work' = Finished(o, FALSE, FALSE) PROVE Same
    <2>1. Ended(work[o], FALSE, FALSE).effect \notin Undelivered
      BY DEF Ended, Undelivered
    <2> QED  BY <1>2, <1>3, <1>5, <2>1, FinishedRow
  <1>6. CASE CancelSource
    BY <1>4, <1>6 DEF CancelSource
  <1>7. CASE CancelOccurrence
    BY <1>4, <1>7 DEF CancelOccurrence
  <1>8. CASE Refuse
    BY <1>0, <1>5, <1>8 DEF Refuse
  <1>9. ASSUME NEW o \in Occurrences, RunRaises(o) PROVE Same
    BY <1>5, <1>9 DEF RunRaises
  <1>10. ASSUME NEW o \in Occurrences, EnqueueOccurrence(o) PROVE Same
    <2>1. work[o].item = "none" => work[o].effect \notin Undelivered
      BY <1>0 DEF RowOK, Undelivered
    <2> QED  BY <1>0, <1>3, <1>10, <2>1 DEF EnqueueOccurrence
  <1>11. ASSUME NEW o \in Occurrences, Claim(o) PROVE Same
    BY <1>0, <1>11 DEF Claim, Rows
  <1>12. CASE MarkLaunched
    BY <1>0, <1>12 DEF MarkLaunched, Rows
  <1>13. ASSUME NEW o \in Occurrences, DeliveryFails(o) \/ BackoffExpires(o) PROVE Same
    BY <1>0, <1>13 DEF DeliveryFails, BackoffExpires, Rows, Undelivered
  <1>14. CASE Restart
    <2>1. work' = Recovered
      BY <1>14 DEF Restart
    <2>2. Reconciled(p).effect = work[p].effect
      BY <1>0 DEF Reconciled, Rows
    <2> QED  BY <1>2, <1>3, <2>1, <2>2, RecoveredRow
  <1>15. CASE /\ ~CancelSource /\ ~DropWork /\ ~CancelOccurrence /\ ~AckEffect
              /\ ~Refuse /\ ~MarkLaunched /\ ~Restart
              /\ \A o \in Occurrences :
                    /\ ~EnqueueOccurrence(o) /\ ~Claim(o) /\ ~RunEnds(o)
                    /\ ~RunRaises(o) /\ ~DeliveryFails(o) /\ ~BackoffExpires(o)
    <2>1. UNCHANGED work
      BY <1>15 DEF vars, Next, Admin, Account, LoopStep, Cleanup, TickStep,
           DeliveryStep, DispatchStep, AddSchedule, Resume, Pause, Remove,
           SetAllowed, DeleteUser, DropChats, DropSchedules, TakeDue, MarkFired,
           MarkFiredRefused, BeginPoll, EndPoll, EndTick, StartTick, StartOutbox,
           StartDispatcher, AppendTurn, DeliveryDone, NothingToClaim, StartRun,
           ExecuteRaises, CancelEscapes, Crash, TimePasses
    <2> QED  BY <1>1, <2>1
  <1> QED
    BY <1>6, <1>7, <1>8, <1>9, <1>10, <1>11, <1>12, <1>13, <1>14, <1>15

\* An effect that was recorded stays with the row until the row is pruned.
LEMMA EffectKept ==
    ASSUME IInv, [Next]_vars, NEW p \in Occurrences,
           work[p].effect \in Undelivered \cup {"applied"}
    PROVE  \/ work'[p].effect \in Undelivered \cup {"applied"}
           \/ loop.at = "dropWork"
           \/ work'[p].item = "none" /\ Outlived(p)
  <1>1. work[p] \in Rows /\ RowOK(work[p]) /\ RowStep(p)
    BY RowSteps DEF IInv, TypeOK, RowsOK
  <1> USE DEF Undelivered
  <1>2. ~RowQueued(p) /\ ~RowClaimed(p) /\ ~RowLaunched(p) /\ ~RowEnded(p)
        /\ ~RowCancelled(p) /\ ~RowRecovered(p)
    BY <1>1 DEF RowQueued, RowClaimed, RowLaunched, RowEnded, EndsRun, RowCancelled,
       RowRecovered, Queued, RowOK
  <1>3. CASE RowApplied(p) \/ RowBackoff(p) \/ RowRetried(p)
    BY <1>1, <1>3 DEF RowApplied, RowBackoff, RowRetried, Closed, Rows
  <1>4. CASE RowPruned(p) \/ RowDropped(p)
    BY <1>4 DEF RowPruned, RowDropped, NoRow
  <1> QED  BY <1>1, <1>2, <1>3, <1>4 DEF RowStep

\* A row that was pruned does not come back: the tick's snapshot is later.
LEMMA PrunedStays ==
    ASSUME IInv, [Next]_vars, NEW p \in Occurrences,
           work[p].item = "none" /\ p[2] < sched[p[1]].next
    PROVE  work'[p].item = "none" /\ p[2] < sched'[p[1]].next
  <1>1. /\ p[1] \in Schedules /\ p[2] \in Nat
        /\ sched[p[1]].next \in Nat /\ sched'[p[1]].next \in Nat
        /\ sched'[p[1]].next >= sched[p[1]].next
    <2>1. TypeOK'
      BY TypeStep DEF IInv
    <2> QED  BY <2>1, OccurrenceParts, NextGrows DEF IInv, TypeOK, Entries
  <1>2. ~RowQueued(p)
    BY <1>1 DEF RowQueued, IInv, BatchCurrent
  <1>3. work'[p].item = "none"
    BY <1>2, RowOrigins
  <1> QED  BY <1>1, <1>3

LEMMA OutlivedIsPast ==
    ASSUME IInv, [Next]_vars, NEW p \in Occurrences, Outlived(p)
    PROVE  p[2] < sched'[p[1]].next
  <1>1. /\ p[1] \in Schedules /\ p[2] \in Nat
        /\ sched[p[1]].next \in Nat /\ sched'[p[1]].next \in Nat
        /\ sched'[p[1]].next >= sched[p[1]].next
    <2>1. TypeOK'
      BY TypeStep DEF IInv
    <2> QED  BY <2>1, OccurrenceParts, NextGrows DEF IInv, TypeOK, Entries
  <1>2. PICK q \in Occurrences : q[1] = p[1] /\ q[2] > p[2] /\ work[q].item # "none"
    BY DEF Outlived
  <1>3. q[2] \in Nat /\ q[2] <= sched[p[1]].next
    BY <1>2, OccurrenceParts DEF IInv, RowsNotAhead
  <1> QED  BY <1>1, <1>2, <1>3

-----------------------------------------------------------------------------
(* The four parts.                                                          *)

LEMMA TurnsAccountedStep ==
    ASSUME IInv, TurnsAccounted, [Next]_vars
    PROVE  TurnsAccounted'
  <1> USE DEF IInv
  <1>1. ASSUME NEW o \in exec' PROVE starts'[o] = 1
    <2>1. CASE StartRun
      <3>1. /\ loop.occ \in Occurrences /\ starts[loop.occ] = 0
            /\ starts' = [starts EXCEPT ![loop.occ] = starts[loop.occ] + 1]
            /\ exec' = exec \cup {loop.occ}
        BY <2>1 DEF StartRun, LaunchPoint, TypeOK
      <3> QED  BY <1>1, <3>1 DEF TypeOK, TurnsAccounted
    <2>2. CASE starts' = starts /\ exec' \subseteq exec
      BY <1>1, <2>2 DEF TurnsAccounted
    <2> QED  BY <2>1, <2>2, OtherSteps
  <1>2. ASSUME NEW o \in Occurrences, owner' # "gone", turns'[o] # 0
        PROVE  \/ work'[o].effect \in {"pending", "backoff", "applied"}
               \/ work'[o].item = "none" /\ o[2] < sched'[o[1]].next
    <2>1. owner # "gone" /\ loop.at # "dropWork"
      BY <1>2, OtherSteps DEF HoldsNothing
    <2>2. CASE AppendTurn(o)
      BY <2>2 DEF AppendTurn
    <2>3. CASE turns[o] # 0
      <3>1. CASE work[o].effect \in {"pending", "backoff", "applied"}
        BY <2>1, <3>1, EffectKept, OutlivedIsPast DEF Undelivered
      <3>2. CASE work[o].item = "none" /\ o[2] < sched[o[1]].next
        BY <3>2, PrunedStays
      <3> QED  BY <2>1, <2>3, <3>1, <3>2 DEF TurnsAccounted
    <2>4. turns'[o] = turns[o] \/ AppendTurn(o)
      <3>1. ASSUME NEW q \in Occurrences, AppendTurn(q), q # o
            PROVE  turns'[o] = turns[o]
        BY <3>1 DEF AppendTurn, Appended, TypeOK
      <3>2. ~DropChats
        BY <2>1 DEF DropChats, HoldsNothing
      <3> QED  BY <3>1, <3>2, OtherSteps
    <2> QED  BY <1>2, <2>2, <2>3, <2>4
  <1> QED  BY <1>1, <1>2 DEF TurnsAccounted

\* A queued row that is cancelled is not queued any more.
LEMMA CancelledEnds ==
    ASSUME TypeOK, NEW O, NEW o \in Occurrences, o \in O, Queued(o)
    PROVE  Cancelled(O)[o].attempt \notin {"queued", "running"}
  <1> DEFINE hit == {q \in O : work[q].item = "queued" /\ work[q].attempt = "queued"}
             c == [work[o] EXCEPT !.item = "cancelled", !.attempt = "cancelled"]
             w == [q \in Occurrences |->
                     IF q \in hit
                     THEN [work[q] EXCEPT !.item = "cancelled",
                                          !.attempt = "cancelled"]
                     ELSE work[q]]
             S == {q[1] : q \in hit}
  <1>1. Cancelled(O) = Pruned(w, S)
    BY DEF Cancelled
  <1>2. w[o] = c
    BY DEF Queued
  <1>3. c.attempt = "cancelled"
    <2>1. work[o] \in Rows
      BY DEF TypeOK
    <2> QED  BY <2>1 DEF Rows
  <1> HIDE DEF w, S, c
  <1>4. Pruned(w, S)[o] = w[o] \/ Pruned(w, S)[o] = NoRow
    BY PrunedRow
  <1>5. NoRow.attempt = "none"
    BY DEF NoRow
  <1> QED  BY <1>1, <1>2, <1>3, <1>4, <1>5

\* Where the loop goes from the points of this lemma.
LEMMA LoopMoves ==
    ASSUME TypeOK, [Next]_vars,
           loop.at \in {"fire", "unqueue", "dropChats", "dropSchedules", "dropWork"}
    PROVE  loop' = loop \/ MarkFired \/ MarkFiredRefused \/ CancelOccurrence
           \/ DropChats \/ DropSchedules \/ DropWork \/ Crash
  <1> USE DEF memory, tasks, counters
  <1>1. ~Idle
    BY DEF Idle, At
  <1>2. CASE UNCHANGED vars
    BY <1>2 DEF vars
  <1>3. ASSUME NEW s \in Schedules, Admin(s) PROVE FALSE
    BY <1>1, <1>3 DEF Admin, AddSchedule, Resume, Pause, Remove
  <1>4. CASE Account
    BY <1>1, <1>4 DEF Account, SetAllowed, DeleteUser
  <1>5. CASE LoopStep
    BY <1>5 DEF LoopStep, Cleanup, CancelSource, TickStep, TakeDue, EnqueueOccurrence,
       BeginPoll, EndTick, DeliveryStep, AppendTurn, AckEffect, DeliveryDone,
       DispatchStep, Claim, NothingToClaim, Refuse, MarkLaunched, StartRun
  <1>6. CASE StartTick \/ StartOutbox \/ StartDispatcher
    BY <1>1, <1>6 DEF StartTick, StartOutbox, StartDispatcher
  <1>7. ASSUME NEW o \in Occurrences,
               \/ EndPoll(o) \/ RunEnds(o) \/ RunRaises(o) \/ CancelEscapes(o)
               \/ DeliveryFails(o) \/ BackoffExpires(o)
        PROVE  loop' = loop
    BY <1>1, <1>7 DEF EndPoll, RunEnds, RunRaises, CancelEscapes, DeliveryFails,
       BackoffExpires
  <1>8. CASE ExecuteRaises \/ Restart \/ TimePasses
    BY <1>8 DEF ExecuteRaises, Restart, TimePasses
  <1> QED  BY <1>2, <1>3, <1>4, <1>5, <1>6, <1>7, <1>8 DEF Next

-----------------------------------------------------------------------------
(* How one step changes an entry of schedules.json.                         *)

\* An administrator, the revocation or the account deletion.
Marked(s) ==
    /\ sched[s].life # "unborn"
    /\ sched'[s].next = sched[s].next /\ sched'[s].last = sched[s].last
    /\ sched'[s].life = "removed" \/ (sched'[s].life = sched[s].life
                                       /\ (sched'[s].enabled \/ sched'[s].manual))

\* mark_fired
Fired(s) ==
    \E o \in Occurrences :
        /\ o[1] = s /\ o \in batch
        /\ (MarkFired /\ loop.occ = o) \/ EndPoll(o)
        /\ StillExpected(o)
        /\ sched'[s] \in FiredEntries(s)

LEMMA EntryCases ==
    ASSUME TypeOK, BatchCurrent, [Next]_vars, NEW s \in Schedules
    PROVE  sched'[s] = sched[s] \/ AddSchedule(s) \/ Marked(s) \/ Fired(s)
  <1> USE DEF durable
  <1>0. sched \in [Schedules -> Entries]
    BY DEF TypeOK
  <1>1. ASSUME NEW r \in Schedules, AddSchedule(r)
        PROVE  sched'[s] = sched[s] \/ AddSchedule(s)
    BY <1>0, <1>1 DEF AddSchedule
  <1>2. ASSUME NEW r \in Schedules, Resume(r) \/ Pause(r) \/ Remove(r)
        PROVE  sched'[s] = sched[s] \/ Marked(s)
    <2>1. CASE r # s
      <3>1. \E e : sched' = [sched EXCEPT ![r] = e]
        BY <1>2 DEF Resume, Pause, Remove
      <3> QED  BY <1>0, <2>1, <3>1
    <2>2. CASE Resume(s)
      BY <1>0, <2>2 DEF Resume, Marked, Entries
    <2>3. CASE Pause(s)
      BY <1>0, <2>3 DEF Pause, Marked, Entries
    <2>4. CASE Remove(s)
      BY <1>0, <2>4 DEF Remove, Marked, Entries
    <2> QED  BY <1>2, <2>1, <2>2, <2>3, <2>4
  <1>3. CASE DropSchedules
    BY <1>0, <1>3 DEF DropSchedules, Marked, Entries
  <1>4. CASE TakeDue
    <2> DEFINE first == {r \in Schedules :
                           /\ Due(r)
                           /\ Cardinality({q \in Schedules : Due(q) /\ q < r})
                                < MaxPerTick}
               dropped == {r \in first : Revoked(r)}
    <2>1. sched'[s] = IF s \in dropped
                      THEN [sched[s] EXCEPT !.enabled = FALSE, !.manual = TRUE]
                      ELSE sched[s]
      BY <1>4 DEF TakeDue
    <2>2. s \in dropped => sched[s].life = "live"
      BY DEF Due
    <2> HIDE DEF first, dropped
    <2> QED  BY <1>0, <2>1, <2>2 DEF Marked, Entries
  <1>5. CASE MarkFired
    <2>1. loop.occ \in Occurrences /\ loop.occ \in batch /\ StillExpected(loop.occ)
      BY <1>5 DEF MarkFired, BatchCurrent, TypeOK
    <2>2. PICK e \in FiredEntries(loop.occ[1]) :
            sched' = [sched EXCEPT ![loop.occ[1]] = e]
      BY <1>5 DEF MarkFired
    <2>3. loop.occ[1] \in Schedules
      BY <2>1, OccurrenceParts
    <2>4. sched'[s] = IF s = loop.occ[1] THEN e ELSE sched[s]
      BY <1>0, <2>2, <2>3
    <2> QED  BY <1>5, <2>1, <2>4 DEF Fired
  <1>6. ASSUME NEW o \in Occurrences, EndPoll(o)
        PROVE  sched'[s] = sched[s] \/ Fired(s)
    <2>1. CASE UNCHANGED sched
      BY <2>1
    <2>2. ASSUME StillExpected(o), NEW e \in FiredEntries(o[1]),
                 sched' = [sched EXCEPT ![o[1]] = e]
          PROVE  sched'[s] = sched[s] \/ Fired(s)
      <3>1. o[1] \in Schedules /\ o \in batch
        BY <1>6, OccurrenceParts DEF EndPoll, FirstEntry
      <3>2. sched'[s] = IF s = o[1] THEN e ELSE sched[s]
        BY <1>0, <2>2, <3>1
      <3> QED  BY <1>6, <2>2, <3>1, <3>2 DEF Fired
    <2> QED  BY <1>6, <2>1, <2>2 DEF EndPoll
  <1>7. CASE /\ ~DropSchedules /\ ~TakeDue /\ ~MarkFired
             /\ \A r \in Schedules : ~Admin(r)
             /\ \A o \in Occurrences : ~EndPoll(o)
    <2>1. UNCHANGED sched
      BY <1>7 DEF vars, Next, Account, LoopStep, Cleanup, TickStep,
         DeliveryStep, DispatchStep, SetAllowed, DeleteUser, CancelSource,
         DropChats, DropWork, EnqueueOccurrence, MarkFiredRefused,
         CancelOccurrence, BeginPoll, EndTick, StartTick, StartOutbox,
         StartDispatcher, AppendTurn, AckEffect, DeliveryDone, Claim,
         NothingToClaim, Refuse, MarkLaunched, StartRun, ExecuteRaises,
         CancelEscapes, RunEnds, RunRaises, DeliveryFails, BackoffExpires,
         Crash, Restart, TimePasses
    <2> QED  BY <2>1
  <1> QED  BY <1>1, <1>2, <1>3, <1>4, <1>5, <1>6, <1>7 DEF Admin

LEMMA OwnerSteps ==
    ASSUME [Next]_vars, owner' = "gone"
    PROVE  owner = "gone" \/ DeleteUser
  BY DEF durable, memory, tasks, counters, vars, Next, Admin, Account,
       LoopStep, Cleanup, TickStep, DeliveryStep, DispatchStep, AddSchedule,
       Resume, Pause, Remove, SetAllowed, CancelSource, DropChats,
       DropSchedules, DropWork, TakeDue, EnqueueOccurrence, MarkFired,
       MarkFiredRefused, CancelOccurrence, BeginPoll, EndPoll, EndTick,
       StartTick, StartOutbox, StartDispatcher, AppendTurn, AckEffect,
       DeliveryDone, Claim, NothingToClaim, Refuse, MarkLaunched, StartRun,
       ExecuteRaises, CancelEscapes, RunEnds, RunRaises, DeliveryFails,
       BackoffExpires, Crash, Restart, TimePasses

\* An entry that is not live stays so, once the account is gone.
LEMMA NoneLive ==
    ASSUME TypeOK, BatchCurrent, [Next]_vars, owner = "gone", NEW s \in Schedules,
           sched[s].life # "live"
    PROVE  sched'[s].life # "live"
  <1>1. ~AddSchedule(s)
    BY DEF AddSchedule
  <1>2. ~Fired(s)
    BY DEF Fired, StillExpected
  <1>3. Marked(s) => sched'[s].life # "live"
    BY DEF Marked
  <1> QED  BY <1>1, <1>2, <1>3, EntryCases

LEMMA RunsDroppedStep ==
    ASSUME IInv, RunsDropped, [Next]_vars
    PROVE  RunsDropped'
  <1> USE DEF IInv
  <1>1. SUFFICES ASSUME owner' = "gone", exec' # {}
                 PROVE  RunsDropped'
    BY DEF RunsDropped
  <1>2. CASE DeleteUser
    BY <1>2 DEF DeleteUser, RunsDropped, At
  <1>3. CASE owner = "gone"
    <2>1. exec' \subseteq exec /\ exec # {}
      <3>1. ~StartRun
        BY <1>3 DEF StartRun, LaunchPoint
      <3> QED  BY <1>1, <3>1, OtherSteps
    <2>2. ~Crash
      BY <1>1 DEF Crash
    <2> DEFINE drops == {"dropChats", "dropSchedules", "dropWork"}
    <2>3. CASE loop.at \in drops
      <3>1. ~MarkFired /\ ~MarkFiredRefused /\ ~CancelOccurrence
        BY <2>3 DEF MarkFired, MarkFiredRefused, CancelOccurrence
      <3>2. loop' = loop \/ DropChats \/ DropSchedules \/ DropWork
        BY <2>2, <2>3, <3>1, LoopMoves
      <3>3. CASE DropChats
        BY <3>3 DEF DropChats, RunsDropped, At
      <3>4. CASE DropSchedules
        <4>1. \A s \in Schedules : sched'[s].life # "live"
          BY <3>4 DEF DropSchedules, TypeOK, Entries
        <4> QED  BY <3>4, <4>1 DEF DropSchedules, RunsDropped, At
      <3>5. CASE DropWork
        <4>1. \A o \in Occurrences : work'[o].attempt = "none"
          BY <3>5 DEF DropWork, NoRow
        <4>2. loop.at = "dropWork" /\ sched' = sched /\ exec' = exec
          BY <3>5 DEF DropWork, tasks
        <4>3. \A s \in Schedules : sched'[s].life # "live"
          BY <1>3, <2>1, <4>2 DEF RunsDropped
        <4>4. exec' \subseteq Occurrences
          BY <2>1 DEF TypeOK
        <4> QED  BY <4>1, <4>3, <4>4 DEF RunsDropped
      <3>6. CASE loop' = loop /\ loop.at # "dropWork"
        BY <2>3, <3>6 DEF RunsDropped
      <3>7. CASE loop' = loop /\ loop.at = "dropWork"
        <4>1. \A s \in Schedules : sched'[s].life # "live"
          BY <1>3, <2>1, <3>7, NoneLive DEF RunsDropped
        <4> QED  BY <3>7, <4>1 DEF RunsDropped
      <3> QED  BY <3>2, <3>3, <3>4, <3>5, <3>6, <3>7
    <2>4. CASE loop.at \notin drops
      <3>1. \A s \in Schedules : sched[s].life # "live" /\ sched'[s].life # "live"
        BY <1>3, <2>1, <2>4, NoneLive DEF RunsDropped
      <3>2. ASSUME NEW o \in exec'
            PROVE  /\ work'[o].attempt # "running"
                   /\ work'[o].attempt = "queued" =>
                         loop'.at \in {"fire", "unqueue"} /\ loop'.occ = o
        <4>1. /\ o \in Occurrences
              /\ work[o].attempt # "running"
              /\ work[o].attempt = "queued" =>
                    loop.at \in {"fire", "unqueue"} /\ loop.occ = o
          BY <1>3, <2>1, <2>4, <3>2 DEF RunsDropped, TypeOK
        <4>2. work[o] \in Rows /\ RowOK(work[o]) /\ RowStep(o)
          BY <4>1, RowSteps DEF TypeOK, RowsOK
        <4>3. CASE work'[o] = work[o]
          <5>1. SUFFICES ASSUME work[o].attempt = "queued"
                         PROVE  loop'.at \in {"fire", "unqueue"} /\ loop'.occ = o
            BY <4>1, <4>3
          <5>2. loop.at \in {"fire", "unqueue"} /\ loop.occ = o /\ Queued(o)
            BY <4>1, <4>2, <5>1 DEF RowOK, Queued
          <5>3. ~MarkFired
            <6>1. o[1] \in Schedules
              BY <4>1, OccurrenceParts
            <6> QED  BY <3>1, <5>2, <6>1 DEF MarkFired, StillExpected
          <5>4. ~CancelOccurrence
            <6> SUFFICES ASSUME CancelOccurrence PROVE FALSE
              OBVIOUS
            <6>1. work' = Cancelled({o})
              BY <5>2 DEF CancelOccurrence
            <6> QED  BY <4>1, <4>3, <5>1, <5>2, <6>1, CancelledEnds
          <5>5. ~DropChats /\ ~DropSchedules /\ ~DropWork
            BY <5>2 DEF DropChats, DropSchedules, DropWork
          <5>6. CASE MarkFiredRefused
            BY <5>2, <5>6 DEF MarkFiredRefused, AtOcc
          <5> QED  BY <2>2, <5>2, <5>3, <5>4, <5>5, <5>6, LoopMoves
        <4>4. CASE RowQueued(o)
          BY <4>4 DEF RowQueued, QueuedRow, NoRow, AtOcc
        <4>5. ~RowClaimed(o)
          BY <4>1 DEF RowClaimed, Queued
        <4>6. ~RowLaunched(o) /\ ~RowEnded(o) /\ ~RowRecovered(o)
          BY <4>1 DEF RowLaunched, RowEnded, EndsRun, RowRecovered
        <4>7. CASE RowCancelled(o)
          BY <4>2, <4>7 DEF RowCancelled, Rows
        <4>8. CASE RowPruned(o) \/ RowDropped(o)
          BY <4>8 DEF RowPruned, RowDropped, NoRow
        <4>9. CASE RowApplied(o) \/ RowBackoff(o) \/ RowRetried(o)
          <5>1. work[o].effect \in {"pending", "backoff"}
            BY <4>2, <4>9 DEF RowApplied, RowBackoff, RowRetried, Rows
          <5>2. work[o].attempt # "queued"
            BY <4>2, <5>1 DEF RowOK
          <5>3. work'[o].attempt = work[o].attempt
            BY <4>2, <4>9 DEF RowApplied, RowBackoff, RowRetried, Rows, Closed
          <5> QED  BY <4>1, <5>2, <5>3
        <4> QED  BY <4>2, <4>3, <4>4, <4>5, <4>6, <4>7, <4>8, <4>9 DEF RowStep
      <3> QED  BY <3>1, <3>2 DEF RunsDropped
    <2> QED  BY <2>3, <2>4
  <1> QED  BY <1>1, <1>2, <1>3, OwnerSteps

\* The points of the tick, and what a coroutine that is not the tick keeps.
Away(l) ==
    /\ l.at \notin {"due", "entries", "fire", "unqueue"}
    /\ l.then # "due"
KeepsAway ==
    /\ batch' = batch
    /\ polling' = polling
    /\ Away(loop) => Away(loop')

LEMMA PollMoves ==
    ASSUME TypeOK, [Next]_vars
    PROVE  \/ KeepsAway
           \/ ~Away(loop) /\ polling' = polling
           \/ BeginPoll /\ batch' = batch /\ Away(loop')
           \/ polling' = FALSE
           \/ ~polling /\ polling' = polling
  <1> USE DEF durable, memory, tasks, counters
  <1>1. loop.then \in {"idle", "due", "claim"}
    BY DEF TypeOK
  <1> USE DEF At, AtOcc, Delivering, Away
  <1>2. ASSUME UNCHANGED vars PROVE KeepsAway
    BY <1>2 DEF KeepsAway, vars
  <1>3. ASSUME NEW s \in Schedules, Admin(s) PROVE KeepsAway
    <2>1. batch' = batch /\ polling' = polling
      BY <1>3 DEF Admin, AddSchedule, Resume, Pause, Remove
    <2>2. loop' = loop \/ loop' = AtOcc("cancelSource", <<s, 0>>)
      BY <1>3 DEF Admin, AddSchedule, Resume, Pause, Remove
    <2> QED  BY <2>1, <2>2 DEF KeepsAway
  <1>4. ASSUME Account \/ StartOutbox \/ StartDispatcher PROVE KeepsAway
    BY <1>1, <1>4 DEF KeepsAway, Account, SetAllowed, DeleteUser, StartOutbox, StartDispatcher
  <1>5. ASSUME Cleanup PROVE KeepsAway
    BY <1>1, <1>5 DEF KeepsAway, Cleanup, CancelSource, DropChats, DropSchedules, DropWork
  <1>6. ASSUME DeliveryStep PROVE KeepsAway
    BY <1>1, <1>6 DEF KeepsAway, DeliveryStep, AppendTurn, AckEffect, DeliveryDone
  <1>7. ASSUME DispatchStep PROVE KeepsAway
    <2>1. batch' = batch /\ polling' = polling
      BY <1>7 DEF DispatchStep, Claim, NothingToClaim, Refuse, MarkLaunched, StartRun
    <2>2. ASSUME NEW o \in Occurrences, Claim(o) PROVE Away(loop')
      BY <2>2 DEF Claim
    <2>3. CASE NothingToClaim \/ Refuse \/ StartRun
      <3>1. loop' = At("idle") \/ loop' = At("claim")
        BY <2>3 DEF NothingToClaim, Refuse, StartRun
      <3> QED  BY <2>1, <3>1 DEF KeepsAway
    <2>4. CASE MarkLaunched
      BY <2>1, <2>4 DEF MarkLaunched, KeepsAway
    <2> QED  BY <1>7, <2>1, <2>2, <2>3, <2>4 DEF DispatchStep, KeepsAway
  <1>8. ASSUME NEW o \in Occurrences,
               \/ RunEnds(o) \/ RunRaises(o) \/ CancelEscapes(o)
               \/ DeliveryFails(o) \/ BackoffExpires(o)
        PROVE  KeepsAway
    <2>1. batch' = batch /\ polling' = polling
      BY <1>8 DEF RunEnds, RunRaises, CancelEscapes, DeliveryFails, BackoffExpires
    <2>2. loop' = loop \/ loop' = Delivering("claim") \/ loop' = At("claim")
          \/ loop' = At(loop.then)
      BY <1>8 DEF RunEnds, RunRaises, CancelEscapes, DeliveryFails, BackoffExpires
    <2>3. Away(loop) => Away(loop')
      BY <1>1, <2>2
    <2> QED  BY <2>1, <2>3 DEF KeepsAway
  <1>9. ASSUME NEW o \in Occurrences, EndPoll(o) PROVE polling' = FALSE
    BY <1>9 DEF EndPoll
  <1>10. ASSUME ExecuteRaises \/ Restart \/ TimePasses PROVE KeepsAway
    BY <1>1, <1>10 DEF KeepsAway, ExecuteRaises, Restart, TimePasses
  <1>11. Crash => polling' = FALSE
    BY DEF Crash
  <1>12. StartTick => ~polling /\ polling' = polling
    BY DEF StartTick
  <1>13. BeginPoll => batch' = batch /\ Away(loop')
    BY <1>1 DEF BeginPoll
  <1>14. TickStep => ~Away(loop) /\ (polling' = polling \/ BeginPoll)
    BY DEF TickStep, TakeDue, EnqueueOccurrence, MarkFired,
       MarkFiredRefused, CancelOccurrence, BeginPoll, EndTick
  <1> HIDE DEF Away, At, AtOcc, Delivering
  <1> QED
    BY <1>2, <1>3, <1>4, <1>5, <1>6, <1>7, <1>8, <1>9, <1>10, <1>11, <1>12,
       <1>13, <1>14, Zenon DEF Next, LoopStep

\* While the tick polls, the loop keeps away from it and the snapshot stands.
LEMMA PollSteps ==
    ASSUME TypeOK, TickPoint, [Next]_vars, polling'
    PROVE  /\ batch' = batch
           /\ polling \/ BeginPoll
           /\ Away(loop')
  <1>1. polling => Away(loop)
    BY DEF TickPoint, Away
  <1> QED  BY <1>1, PollMoves, Zenon DEF KeepsAway

LEMMA TickPointStep ==
    ASSUME IInv, TickPoint, [Next]_vars
    PROVE  TickPoint'
  <1> USE DEF IInv
  <1>1. ASSUME polling'
        PROVE  /\ loop'.at \notin {"due", "entries", "fire", "unqueue"}
               /\ loop'.then # "due"
               /\ \E o \in batch' : (FirstEntry(o))' /\ o[1] \in Observe
    <2>1. \E o \in batch : FirstEntry(o) /\ o[1] \in Observe
      BY <1>1, PollSteps DEF TickPoint, BeginPoll
    <2> QED  BY <1>1, <2>1, PollSteps DEF FirstEntry, Away
  <1>2. ASSUME loop'.at = "fire"
        PROVE  work'[loop'.occ].item # "none" /\ loop'.occ[1] \notin Observe
    <2>1. CASE Still
      <3>1. /\ loop.at = "fire" /\ loop.occ \in Occurrences /\ loop' = loop
            /\ work[loop.occ] \in Rows
        BY <1>2, <2>1 DEF Still, TypeOK
      <3>2. work'[loop.occ].item = work[loop.occ].item
        BY <2>1, <3>1 DEF Still, Rows
      <3> QED  BY <3>1, <3>2 DEF TickPoint
    <2>2. ASSUME NEW o \in Occurrences, EnqueueOccurrence(o), loop' = AtOcc("fire", o)
          PROVE  work'[loop'.occ].item # "none" /\ loop'.occ[1] \notin Observe
      <3>1. loop'.occ = o /\ loop' # loop
        BY <2>2 DEF EnqueueOccurrence, AtOcc
      <3>2. QueuedRow.item = "queued"
        BY DEF QueuedRow, NoRow
      <3> QED  BY <2>2, <3>1, <3>2 DEF EnqueueOccurrence, TypeOK
    <2>3. ASSUME NEW o \in Occurrences, AppendTurn(o) \/ Claim(o)
          PROVE  FALSE
      BY <1>2, <2>3 DEF AppendTurn, Claim, AtOcc
    <2>4. CASE \/ MarkFiredRefused \/ MarkLaunched
               \/ DeleteUser \/ DropChats \/ DropSchedules
      BY <1>2, <2>4 DEF MarkFiredRefused, MarkLaunched, DeleteUser, DropChats,
         DropSchedules, At, AtOcc
    <2> QED  BY <1>2, <2>1, <2>2, <2>3, <2>4, PointSteps
  <1> QED  BY <1>1, <1>2 DEF TickPoint

\* A one-shot is consumed: it keeps its time, which becomes last_occurrence.
LEMMA FiredLast ==
    ASSUME TypeOK, NEW s \in Schedules, NEW e \in FiredEntries(s)
    PROVE  /\ e.last = sched[s].next
           /\ Kind[s] = "once" => e.next = sched[s].next
  <1> DEFINE f == [sched[s] EXCEPT !.last = sched[s].next]
  <1>1. sched[s] \in Entries
    BY DEF TypeOK
  <1>2. f \in Entries /\ f.last = sched[s].next /\ f.next = sched[s].next
    BY <1>1 DEF Entries
  <1>3. \/ e = [f EXCEPT !.enabled = FALSE]
        \/ Kind[s] # "once" /\ \E t : e = [f EXCEPT !.next = t]
    <2> DEFINE later == {u \in (clock + 1)..(clock + Every[s]) :
                           (u - f.next) % Every[s] = 0}
               soon == (clock + 1)..(MaxTime + 1)
    <2>1. \/ Kind[s] = "every" /\ e \in {[f EXCEPT !.next = t] : t \in later}
          \/ /\ Kind[s] = "cron"
             /\ e \in {[f EXCEPT !.enabled = FALSE]}
                         \cup {[f EXCEPT !.next = t] : t \in soon}
          \/ e \in {[f EXCEPT !.enabled = FALSE]}
      BY Zenon DEF FiredEntries
    <2> HIDE DEF later, soon, f
    <2> QED  BY <2>1
  <1> HIDE DEF f
  <1> QED  BY <1>1, <1>2, <1>3 DEF Entries

\* The snapshot takes enabled entries only.
LEMMA BatchEnabled ==
    ASSUME [Next]_vars
    PROVE  batch' \subseteq batch \/ \A o \in batch' : sched'[o[1]].enabled
  <1> USE DEF tasks, memory
  <1>1. CASE TakeDue
    <2> DEFINE first == {s \in Schedules :
                           /\ Due(s)
                           /\ Cardinality({r \in Schedules : Due(r) /\ r < s})
                                < MaxPerTick}
               dropped == {s \in first : Revoked(s)}
    <2>1. /\ batch' = {<<t, sched[t].next>> : t \in first \ dropped}
          /\ sched' = [r \in Schedules |->
                      IF r \in dropped
                      THEN [sched[r] EXCEPT !.enabled = FALSE, !.manual = TRUE]
                      ELSE sched[r]]
      BY <1>1 DEF TakeDue
    <2>2. \A t \in first : t \in Schedules /\ sched[t].enabled
      BY DEF Due
    <2> HIDE DEF first, dropped
    <2>3. ASSUME NEW o \in batch' PROVE sched'[o[1]].enabled
      <3>1. PICK t \in first \ dropped : o = <<t, sched[t].next>>
        BY <2>1, <2>3
      <3>2. sched'[t] = sched[t]
        BY <2>1, <2>2
      <3> QED  BY <2>2, <3>1, <3>2
    <2> QED  BY <2>3
  <1>2. CASE ~TakeDue
    BY <1>2 DEF vars, Next, Admin, Account, LoopStep, Cleanup, TickStep,
       DeliveryStep, DispatchStep, AddSchedule, Resume, Pause, Remove,
       SetAllowed, DeleteUser, CancelSource, DropChats, DropSchedules, DropWork,
       EnqueueOccurrence, MarkFired, MarkFiredRefused, CancelOccurrence,
       BeginPoll, EndPoll, EndTick, StartTick, StartOutbox, StartDispatcher,
       AppendTurn, AckEffect, DeliveryDone, Claim, NothingToClaim, Refuse,
       MarkLaunched, StartRun, ExecuteRaises, CancelEscapes, RunEnds, RunRaises,
       DeliveryFails, BackoffExpires, Crash, Restart, TimePasses
  <1> QED  BY <1>1, <1>2

LEMMA OneShotsStep ==
    ASSUME IInv, OneShots, [Next]_vars
    PROVE  OneShots'
  <1> USE DEF IInv
  <1> SUFFICES ASSUME NEW s \in Schedules, Kind[s] = "once"
               PROVE  /\ \A o \in Occurrences :
                            o[1] = s /\ work'[o].item # "none" => o[2] = sched'[s].next
                      /\ sched'[s].life = "live" /\ ~sched'[s].enabled /\ ~sched'[s].manual
                           => \/ sched'[s].last = sched'[s].next
                              \/ /\ \A o \in Occurrences :
                                      o[1] = s => work'[o].item = "none"
                                 /\ \A o \in batch' : o[1] # s
    BY DEF OneShots
  <1>1. /\ \A o \in Occurrences :
              o[1] = s /\ work[o].item # "none" => o[2] = sched[s].next
        /\ sched[s].life = "live" /\ ~sched[s].enabled /\ ~sched[s].manual
             => \/ sched[s].last = sched[s].next
                \/ /\ \A o \in Occurrences : o[1] = s => work[o].item = "none"
                   /\ \A o \in batch : o[1] # s
    BY DEF OneShots
  <1>2. \A o \in Occurrences :
           work'[o].item # "none" => work[o].item # "none" \/ o \in batch
    BY RowOrigins DEF RowQueued
  <1>3. \A o \in batch : o \in Occurrences /\ o[2] = sched[o[1]].next
    BY DEF BatchCurrent, TypeOK
  <1>4. CASE AddSchedule(s)
    <2>1. sched[s].next = 0 /\ work' = work /\ batch' = batch
      BY <1>4 DEF AddSchedule, RowsNotAhead, memory, tasks
    <2>2. \A o \in Occurrences : o[2] # 0
      BY OccurrenceParts
    <2> QED  BY <1>1, <1>3, <2>1, <2>2
  <1>5. CASE Fired(s)
    <2>1. sched'[s].next = sched[s].next /\ sched'[s].last = sched'[s].next
      BY <1>5, FiredLast DEF Fired
    <2> QED  BY <1>1, <1>2, <1>3, <2>1
  <1>6. CASE Marked(s)
    BY <1>1, <1>2, <1>3, <1>6 DEF Marked
  <1>7. CASE sched'[s] = sched[s]
    <2>1. batch' \subseteq batch \/ \A o \in batch' : sched'[o[1]].enabled
      BY BatchEnabled
    <2> QED  BY <1>1, <1>2, <1>3, <1>7, <2>1
  <1> QED  BY <1>4, <1>5, <1>6, <1>7, EntryCases

\* Retention keeps the newest row of a schedule.
LEMMA NewestRow ==
    ASSUME NEW w \in [Occurrences -> Rows], NEW o \in Occurrences,
           w[o].item # "none"
    PROVE  \E p \in Occurrences :
             /\ p[1] = o[1] /\ p[2] >= o[2] /\ w[p].item # "none"
             /\ \A q \in Occurrences : q[1] = p[1] /\ q[2] > p[2] => w[q].item = "none"
  <1> DEFINE T == {p[2] : p \in {q \in Occurrences : q[1] = o[1] /\ w[q].item # "none"}}
             D == {MaxTime - t : t \in T}
             R == OpToRel(<, Nat)
  <1>1. T \subseteq 1..MaxTime /\ o[2] \in T
    BY OccurrenceParts
  <1>2. MaxTime \in Nat
    BY ConstantsAssumption DEF ConstantsAssumption
  <1> HIDE DEF T
  <1>3. D \subseteq Nat /\ D # {}
    <2>1. \A t \in T : t \in Nat /\ t <= MaxTime
      BY <1>1, <1>2
    <2>2. ASSUME NEW t \in T PROVE MaxTime - t \in Nat
      BY <1>2, <2>1, <2>2
    <2> QED  BY <1>1, <2>2
  <1>4. IsWellFoundedOn(R, Nat)
    BY NatLessThanWellFounded
  <1> HIDE DEF D, R
  <1>5. PICK d \in D : \A x \in D : <<x, d>> \notin R
    BY <1>3, <1>4, WFMin
  <1>6. \A x \in D : x >= d
    <2> SUFFICES ASSUME NEW x \in D, x < d PROVE FALSE
      BY <1>3
    <2>1. <<x, d>> \in R
      BY <1>3 DEF R, OpToRel
    <2> QED  BY <1>5, <2>1
  <1>7. PICK t \in T : d = MaxTime - t
    BY <1>5 DEF D
  <1>8. ASSUME NEW u \in T PROVE u <= t
    <2>1. MaxTime - u \in D
      BY DEF D
    <2>2. u \in Nat /\ t \in Nat /\ MaxTime - u >= MaxTime - t
      BY <1>1, <1>2, <1>6, <1>7, <2>1
    <2> QED  BY <1>2, <2>2
  <1>9. PICK p \in Occurrences : p[1] = o[1] /\ w[p].item # "none" /\ p[2] = t
    BY <1>7 DEF T
  <1>10. ASSUME NEW q \in Occurrences, q[1] = p[1], q[2] > p[2]
         PROVE  w[q].item = "none"
    <2>1. q[2] \in T => FALSE
      BY <1>1, <1>8, <1>9, <1>10, OccurrenceParts
    <2> QED  BY <1>9, <1>10, <2>1 DEF T
  <1>11. p[2] >= o[2]
    BY <1>1, <1>2, <1>8, <1>9
  <1> QED  BY <1>9, <1>10, <1>11

LEMMA RowSurvives ==
    ASSUME IInv, [Next]_vars, NEW o \in Occurrences,
           work[o].item # "none", loop.at # "dropWork"
    PROVE  \E p \in Occurrences :
             p[1] = o[1] /\ p[2] >= o[2] /\ work'[p].item # "none"
  <1>1. work \in [Occurrences -> Rows]
    BY DEF IInv, TypeOK
  <1>2. PICK p \in Occurrences :
          /\ p[1] = o[1] /\ p[2] >= o[2] /\ work[p].item # "none"
          /\ \A q \in Occurrences : q[1] = p[1] /\ q[2] > p[2] => work[q].item = "none"
    BY <1>1, NewestRow
  <1>3. ~RowPruned(p)
    BY <1>2 DEF RowPruned, Outlived
  <1>4. ~RowQueued(p)
    BY <1>2 DEF RowQueued
  <1>5. RowLaunched(p) => work'[p].item # "none"
    BY <1>1, <1>2 DEF RowLaunched, Rows
  <1>6. work'[p].item # "none"
    BY <1>2, <1>3, <1>4, <1>5, LaunchedKept
  <1> QED  BY <1>2, <1>6

LEMMA FiredWasQueuedStep ==
    ASSUME IInv, TickPoint, FiredWasQueued, [Next]_vars
    PROVE  FiredWasQueued'
  <1> USE DEF IInv
  <1> SUFFICES ASSUME NEW s \in Schedules \ Observe,
                      sched'[s].last # 0, owner' # "gone"
               PROVE  \E o \in Occurrences :
                        o[1] = s /\ o[2] >= sched'[s].last /\ work'[o].item # "none"
    BY DEF FiredWasQueued
  <1>1. owner # "gone" /\ loop.at # "dropWork"
    BY OtherSteps DEF HoldsNothing
  <1>2. sched[s] \in Entries /\ \A o \in Occurrences : o[2] \in Nat
    BY OccurrenceParts DEF TypeOK
  <1>3. ASSUME sched'[s].last = sched[s].last
        PROVE  \E o \in Occurrences :
                 o[1] = s /\ o[2] >= sched'[s].last /\ work'[o].item # "none"
    <2>1. PICK o \in Occurrences :
            o[1] = s /\ o[2] >= sched[s].last /\ work[o].item # "none"
      BY <1>1, <1>3 DEF FiredWasQueued
    <2>2. PICK p \in Occurrences : p[1] = s /\ p[2] >= o[2] /\ work'[p].item # "none"
      BY <1>1, <2>1, RowSurvives
    <2>3. p[2] >= sched'[s].last
      BY <1>2, <1>3, <2>1, <2>2 DEF Entries
    <2> QED  BY <2>2, <2>3
  <1>4. CASE AddSchedule(s)
    BY <1>4 DEF AddSchedule, TypeOK
  <1>5. CASE Fired(s)
    <2>1. PICK o \in Occurrences :
            /\ o[1] = s /\ o \in batch
            /\ (MarkFired /\ loop.occ = o) \/ EndPoll(o)
            /\ StillExpected(o)
            /\ sched'[s] \in FiredEntries(s)
      BY <1>5 DEF Fired
    <2>2. sched'[s].last = o[2]
      BY <2>1, FiredLast DEF BatchCurrent
    <2>3. ~EndPoll(o)
      <3> SUFFICES ASSUME EndPoll(o) PROVE FALSE
        OBVIOUS
      <3>1. PICK p \in batch : FirstEntry(p) /\ p[1] \in Observe
        BY DEF EndPoll, TickPoint
      <3>2. p[1] \in Nat /\ s \in Nat /\ p[1] <= s /\ s <= p[1]
        BY <2>1, <3>1, OccurrenceParts DEF EndPoll, FirstEntry, TypeOK
      <3> QED  BY <3>1, <3>2
    <2>4. work[o].item # "none" /\ work' = work
      BY <2>1, <2>3 DEF MarkFired, TickPoint
    <2> QED  BY <1>2, <2>1, <2>2, <2>4
  <1>6. sched'[s] = sched[s] \/ Marked(s) => sched'[s].last = sched[s].last
    BY DEF Marked
  <1> QED  BY <1>3, <1>4, <1>5, <1>6, EntryCases

-----------------------------------------------------------------------------
(* Every step is a step of the promise, or none.                            *)

Reports == {o \in Occurrences : work[o].effect \in {"pending", "backoff"}}

LEMMA StartRefines ==
    ASSUME IInv, StartRun
    PROVE  \E o \in Occurrences : Promise!Start(o)
  <1> USE DEF IInv
  <1>1. /\ loop.occ \in Occurrences /\ owner # "gone" /\ starts[loop.occ] = 0
    BY DEF StartRun, LaunchPoint, TypeOK
  <1>2. /\ starts' = [starts EXCEPT ![loop.occ] = starts[loop.occ] + 1]
        /\ UNCHANGED <<owner, work, turns>>
    BY DEF StartRun, durable
  <1>3. starts' = [starts EXCEPT ![loop.occ] = 1]
    BY <1>1, <1>2
  <1> QED  BY <1>1, <1>2, <1>3 DEF Promise!Start

LEMMA RunEndsRefines ==
    ASSUME IInv, TurnsAccounted, RunsDropped, NEW o \in Occurrences, RunEnds(o)
    PROVE  Promise!Report(o) \/ UNCHANGED Promise!vars
  <1> USE DEF IInv
  <1>1. /\ o \in exec /\ loop.at = "idle"
        /\ UNCHANGED <<owner, turns, starts>>
        /\ o \in Occurrences
    BY DEF RunEnds, Idle, At
  <1> PICK ok \in BOOLEAN : work' = Finished(o, ok, TRUE)
    BY DEF RunEnds
  <1>2. CASE work[o].attempt # "running"
    <2>1. work' = work
      BY <1>1, <1>2 DEF Finished
    <2> QED  BY <1>1, <2>1 DEF Promise!vars
  <1>3. CASE work[o].attempt = "running"
    <2>1. owner # "gone"
      BY <1>1, <1>3 DEF RunsDropped
    <2>2. /\ \A p \in Occurrences : work[p] \in Rows /\ RowOK(work[p])
          /\ work[o].item = "running" /\ work[o].item \notin Terminal
          /\ work[o].effect \notin {"pending", "backoff", "applied"}
      BY <1>3 DEF TypeOK, RowsOK, RowOK, Terminal
    <2>3. starts[o] = 1 /\ turns[o] = 0
      BY <1>1, <2>1, <2>2 DEF TurnsAccounted
    <2>4. work'[o].effect = "pending"
      <3>1. work'[o] # work[o]
        BY <1>1, <1>3, FinishedEnds
      <3>2. work'[o] = Ended(work[o], ok, TRUE)
        <4>1. ASSUME NEW d \in BOOLEAN, d = TRUE, work' = Finished(o, ok, d)
              PROVE  work'[o] = Ended(work[o], ok, d)
          <5>1. \/ Finished(o, ok, d)[o] = work[o]
                \/ Finished(o, ok, d)[o] = Ended(work[o], ok, d)
                \/ work[o].item \in Terminal
                \/ ~d
            BY <1>1, FinishedRow
          <5> QED  BY <2>2, <3>1, <4>1, <5>1
        <4> QED  BY <4>1
      <3>3. Ended(work[o], ok, TRUE).effect = "pending"
        BY DEF Ended
      <3> QED  BY <3>2, <3>3
    <2>5. ASSUME NEW p \in Occurrences, p # o
          PROVE  work'[p].effect \in Undelivered <=> work[p].effect \in Undelivered
      <3>1. work'[p] = work[p] \/ (work'[p] = NoRow /\ work[p].item \in Terminal)
        BY <1>1, <2>5, FinishedRow
      <3>2. NoRow.effect \notin Undelivered
        BY DEF NoRow, Undelivered
      <3>3. work[p].item \in Terminal => work[p].effect \notin Undelivered
        BY <2>2 DEF RowOK, Terminal, Undelivered
      <3> QED  BY <3>1, <3>2, <3>3
    <2>6. Reports' = Reports \cup {o} /\ o \notin Reports
      BY <2>2, <2>4, <2>5 DEF Reports, Undelivered
    <2> QED  BY <1>1, <2>1, <2>3, <2>6 DEF Promise!Report, Reports
  <1> QED  BY <1>2, <1>3

LEMMA AppendRefines ==
    ASSUME IInv, NEW o \in Occurrences, AppendTurn(o)
    PROVE  Promise!Post(o) \/ UNCHANGED Promise!vars
  <1>1. /\ turns \in [Occurrences -> Nat] /\ work[o].effect = "pending"
        /\ turns' = [turns EXCEPT ![o] = IF turns[o] = 0 THEN 1 ELSE turns[o]]
        /\ UNCHANGED <<owner, work, starts>>
    BY DEF IInv, TypeOK, AppendTurn, Appended
  <1>2. CASE turns[o] = 0
    BY <1>1, <1>2 DEF Promise!Post
  <1>3. CASE turns[o] # 0
    <2>1. turns' = turns
      BY <1>1, <1>3
    <2> QED  BY <1>1, <2>1 DEF Promise!vars
  <1> QED  BY <1>2, <1>3

LEMMA AckRefines ==
    ASSUME IInv, AckEffect
    PROVE  \E o \in Occurrences : Promise!Acknowledge(o)
  <1> DEFINE o == loop.occ
             r == [work[o] EXCEPT !.effect = "applied"]
  <1>1. /\ o \in Occurrences /\ turns[o] = 1 /\ work[o].effect = "pending"
        /\ work \in [Occurrences -> Rows]
        /\ UNCHANGED <<owner, turns, starts>>
    BY DEF IInv, TypeOK, AckPoint, AckEffect
  <1>2. work' = [work EXCEPT ![o] = Closed(r)]
    BY <1>1 DEF AckEffect
  <1>3. Closed(r).effect = "applied"
    BY <1>1 DEF Closed, Rows
  <1> HIDE DEF o, r
  <1>4. Reports' = Reports \ {o} /\ o \in Reports
    BY <1>1, <1>2, <1>3 DEF Reports
  <1> QED  BY <1>1, <1>4 DEF Promise!Acknowledge, Reports

LEMMA DeletionRefines ==
    ASSUME IInv, DeleteUser \/ DropChats \/ DropWork
    PROVE  Promise!Delete \/ Promise!ForgetTurns \/ Promise!ForgetReports
  <1>1. CASE DeleteUser
    BY <1>1 DEF DeleteUser, Promise!Delete
  <1>2. CASE DropChats
    BY <1>2 DEF DropChats, IInv, HoldsNothing, Promise!ForgetTurns
  <1>3. CASE DropWork
    <2>1. owner = "gone" /\ UNCHANGED <<owner, turns, starts>>
      BY <1>3 DEF DropWork, IInv, HoldsNothing
    <2>2. Reports' = {}
      BY <1>3 DEF DropWork, NoRow, Reports
    <2> QED  BY <2>1, <2>2 DEF Promise!ForgetReports, Reports
  <1> QED  BY <1>1, <1>2, <1>3

LEMMA StepRefines ==
    ASSUME IInv, TurnsAccounted, RunsDropped, [Next]_vars
    PROVE  [Promise!Next]_Promise!vars
  <1>1. CASE StartRun
    BY <1>1, StartRefines DEF Promise!Next
  <1>2. ASSUME NEW o \in Occurrences, RunEnds(o)
        PROVE  [Promise!Next]_Promise!vars
    BY <1>2, RunEndsRefines DEF Promise!Next
  <1>3. ASSUME NEW o \in Occurrences, AppendTurn(o)
        PROVE  [Promise!Next]_Promise!vars
    BY <1>3, AppendRefines DEF Promise!Next
  <1>4. CASE AckEffect
    BY <1>4, AckRefines DEF Promise!Next
  <1>5. CASE DeleteUser \/ DropChats \/ DropWork
    BY <1>5, DeletionRefines DEF Promise!Next
  <1>6. CASE /\ ~StartRun /\ ~AckEffect /\ ~DeleteUser /\ ~DropChats /\ ~DropWork
             /\ \A o \in Occurrences : ~RunEnds(o) /\ ~AppendTurn(o)
    <2>1. starts' = starts /\ turns' = turns
      BY <1>6, OtherSteps DEF IInv
    <2>2. (owner = "gone")' <=> owner = "gone"
      BY <1>6, OwnerSteps, OtherSteps DEF IInv
    <2>3. Reports' = Reports
      BY <1>6, OutboxRow DEF IInv, Reports, Undelivered
    <2> QED  BY <2>1, <2>2, <2>3 DEF Promise!vars, Reports
  <1> QED  BY <1>1, <1>2, <1>3, <1>4, <1>5, <1>6

-----------------------------------------------------------------------------
(* The theorems.                                                            *)

LEMMA InitKept == Init => IInvKept
  <1> SUFFICES ASSUME Init PROVE IInvKept
    OBVIOUS
  <1>1. /\ IInv
        /\ owner = "allowed" /\ exec = {} /\ batch = {} /\ polling = FALSE
        /\ loop.at = "idle"
    BY InitIInv DEF Init, At
  <1>2. /\ \A o \in Occurrences : work[o].item = "none" /\ turns[o] = 0
        /\ \A s \in Schedules : sched[s].last = 0 /\ sched[s].life = "unborn"
    BY DEF Init, NoRow
  <1>3. TurnsAccounted /\ RunsDropped
    BY <1>1, <1>2 DEF TurnsAccounted, RunsDropped
  <1>4. TickPoint /\ OneShots /\ FiredWasQueued
    BY <1>1, <1>2 DEF TickPoint, OneShots, FiredWasQueued
  <1> QED  BY <1>1, <1>3, <1>4 DEF IInvKept

LEMMA KeptStep == IInvKept /\ [Next]_vars => IInvKept'
  BY IInvStep, TurnsAccountedStep, RunsDroppedStep, TickPointStep, OneShotsStep,
     FiredWasQueuedStep DEF IInvKept

\* Every reachable state satisfies IInv and what the promise rests on.
THEOREM KeptInvariance == Spec => []IInvKept
  BY InitKept, KeptStep, PTL DEF Spec

\* The scheduler implements the promise made to the owner: at most one start
\* of an occurrence, a report only of a run that was started, one post of it,
\* and no post or acknowledgement of anything else, through crashes, retries
\* and the deletion of the account.
THEOREM PromiseIsKept == Spec => PromiseKept
  <1>1. Init => Promise!Init
    <2> SUFFICES ASSUME Init PROVE Promise!Init
      OBVIOUS
    <2>1. \A o \in Occurrences : work[o].effect = "none"
      BY DEF Init, NoRow
    <2> QED  BY <2>1 DEF Init, Promise!Init
  <1>2. IInvKept /\ [Next]_vars => [Promise!Next]_Promise!vars
    BY StepRefines DEF IInvKept
  <1> QED  BY KeptInvariance, <1>1, <1>2, PTL DEF Spec, PromiseKept, Promise!Spec

\* No crash consumes a firing without a work item: the recurrence moves only
\* past occurrences that are durably queued.
THEOREM FiringsAreQueued == Spec => []FiredWasQueued
  <1>1. IInvKept => FiredWasQueued
    BY DEF IInvKept
  <1> QED  BY KeptInvariance, <1>1, PTL

\* A schedule that was paused, removed or disabled while the tick held its
\* snapshot keeps its next_fire.
THEOREM OnlyEnabledAdvance == Spec => OnlyEnabledAdvances
  <1>1. ASSUME IInvKept, [Next]_vars, NEW s \in Schedules,
               sched[s].life # "unborn", sched'[s].next # sched[s].next
        PROVE  sched[s].life = "live" /\ sched[s].enabled
    <2>1. ~AddSchedule(s)
      BY <1>1 DEF AddSchedule
    <2>2. Fired(s)
      BY <1>1, <2>1, EntryCases DEF IInvKept, IInv, Marked
    <2> QED  BY <2>2 DEF Fired, StillExpected
  <1>2. ASSUME IInvKept, [Next]_vars
        PROVE  [\A s \in Schedules :
                  sched[s].life # "unborn" /\ sched'[s].next # sched[s].next
                     => sched[s].life = "live" /\ sched[s].enabled]_vars
    BY <1>1, <1>2
  <1> QED  BY KeptInvariance, <1>2, PTL DEF Spec, OnlyEnabledAdvances

\* The dispatcher refuses a one-shot only for a removal, a pause or an account
\* that lost the right: never because mark_fired switched it off.
THEOREM OneShotsRun == Spec => OneShotIsNotPaused
  <1>1. ASSUME IInvKept, [Next]_vars, NEW o \in Occurrences,
               Kind[o[1]] = "once", loop.at = "launch", loop.occ = o,
               work[o].attempt = "running", work'[o].attempt = "failed"
        PROVE  \/ sched[o[1]].life = "removed" \/ sched[o[1]].manual
               \/ owner # "allowed"
    <2> USE DEF IInvKept, IInv
    <2>1. /\ work[o] \in Rows /\ RowOK(work[o]) /\ RowStep(o)
          /\ work[o].item = "running" /\ work[o].effect = "none"
      BY <1>1, RowSteps DEF TypeOK, RowsOK, RowOK, Rows
    <2>2. RowEnded(o)
      <3>1. ~RowQueued(o) /\ ~RowClaimed(o) /\ ~RowCancelled(o)
        BY <1>1, <2>1 DEF RowQueued, RowClaimed, RowCancelled, Queued
      <3>2. ~RowLaunched(o) /\ ~RowRecovered(o)
        BY <1>1, <2>1 DEF RowLaunched, RowRecovered, Reconciled, Rows
      <3>3. ~RowPruned(o) /\ ~RowDropped(o)
        BY <1>1 DEF RowPruned, RowDropped, NoRow
      <3>4. ~RowApplied(o) /\ ~RowBackoff(o) /\ ~RowRetried(o)
        BY <2>1 DEF RowApplied, RowBackoff, RowRetried
      <3> QED  BY <1>1, <2>1, <3>1, <3>2, <3>3, <3>4 DEF RowStep
    <2>3. Refuse
      <3>1. up /\ loop.at # "idle"
        BY <1>1 DEF HoldsNothing, At
      <3>2. ~RunEnds(o) /\ ~RunRaises(o) /\ ~CancelEscapes(o)
        <4>1. ~Idle
          BY <3>1 DEF Idle, At
        <4> QED  BY <4>1 DEF RunEnds, RunRaises, CancelEscapes
      <3>3. ~Crash /\ ~ExecuteRaises /\ ~StartRun
        BY <1>1 DEF Crash, ExecuteRaises, StartRun, durable
      <3>4. ~MarkLaunched
        BY <1>1, <2>1 DEF MarkLaunched, TypeOK, Rows
      <3>5. loop' # loop \/ (o \in exec /\ o \notin exec')
        BY <1>1, <2>2 DEF RowEnded, EndsRun, At
      <3> QED  BY <1>1, <3>1, <3>2, <3>3, <3>4, <3>5, HolderSteps
    <2>4. Problem(o)
      BY <1>1, <2>3 DEF Refuse
    <2>5. o[1] \in Schedules /\ o[2] \in Nat /\ o[2] > 0 /\ sched[o[1]] \in Entries
      <3>1. TypeOK
        BY <1>1
      <3>2. o[1] \in Schedules /\ o[2] \in Nat /\ o[2] > 0
        BY OccurrenceParts
      <3> QED  BY <3>1, <3>2 DEF TypeOK
    <2>6. sched[o[1]].life # "unborn"
      BY <1>1, <2>1, <2>5 DEF RowsNotAhead
    <2>7. ASSUME sched[o[1]].life = "live", ~sched[o[1]].enabled, ~sched[o[1]].manual
          PROVE  ConsumedOnce(o)
      <3>1. o[2] = sched[o[1]].next /\ sched[o[1]].last = sched[o[1]].next
        BY <1>1, <2>1, <2>5, <2>7 DEF OneShots
      <3> QED  BY <1>1, <3>1 DEF ConsumedOnce
    <2> QED  BY <2>4, <2>5, <2>6, <2>7 DEF Problem, Revoked, Entries
  <1>2. ASSUME IInvKept, [Next]_vars
        PROVE  [\A o \in Occurrences :
                  /\ Kind[o[1]] = "once"
                  /\ loop.at = "launch" /\ loop.occ = o
                  /\ work[o].attempt = "running" /\ work'[o].attempt = "failed"
                  => \/ sched[o[1]].life = "removed" \/ sched[o[1]].manual
                     \/ owner # "allowed"]_vars
    BY <1>1, <1>2
  <1> QED  BY KeptInvariance, <1>2, PTL DEF Spec, OneShotIsNotPaused
=============================================================================
