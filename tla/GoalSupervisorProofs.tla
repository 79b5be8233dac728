------------------------- MODULE GoalSupervisorProofs -------------------------
(* Theorems about GoalSupervisor, for every value of its constants.         *)
(*                                                                          *)
(* Every step of the supervisor that writes the record back either iterates *)
(* on a record, the one on file or the one it holds, or finishes with it;   *)
(* IterateKeeps and FinishKeeps say what those two leave.                   *)
EXTENDS GoalSupervisor, TLAPS

\* A record whose goal was set and whose launches are all counted.
Good(r) ==
    /\ r \in Records
    /\ Named(r)
    /\ \A g \in Goals : r.goal = g => Counted(g, r.turn)

\* What a write of r back to the file leaves of r.
Wrote(r) ==
    /\ rec'.goal = r.goal /\ rec'.check = r.check
    /\ rec'.status = "active" => r.status = "active" /\ sup'.at # "gone"
    /\ sup'.at \in {"gone", "launch"}

Invariants == TypeOK /\ GoalsNamed /\ LaunchesCounted

\* The constant records have their types.
LEMMA ConstantTypes ==
    /\ NoGoal \in Records
    /\ Gone \in Tasks /\ Kicked \in Tasks
    /\ Gone.at = "gone" /\ Kicked.at = "kicked"
    /\ NoGoal.status = "none" /\ NoGoal.goal = 0
  <1>1. NoGoal \in Records
    BY GoalAssumption DEF NoGoal, Records
  <1> QED  BY <1>1 DEF Gone, Kicked, Tasks, NoGoal

\* A task and a record, by their fields.
LEMMA TaskTypes ==
    ASSUME NEW t \in Tasks
    PROVE  /\ t.held \in Records
           /\ t.at \in {"gone", "kicked", "launch", "run", "verify"}
  BY DEF Tasks

LEMMA RecordTypes ==
    ASSUME NEW r \in Records
    PROVE  /\ r.goal \in Nat /\ r.goal <= MaxGoals /\ r.goal \in 0..MaxGoals
           /\ r.turn \in Nat /\ r.turn <= MaxTurns /\ r.turn \in 0..MaxTurns
           /\ r.check \in BOOLEAN
           /\ MaxGoals \in Nat /\ MaxTurns \in Nat
  BY GoalAssumption DEF Records

LEMMA RecordOnFile == Invariants => Good(rec)
  BY DEF Invariants, TypeOK, GoalsNamed, LaunchesCounted, Good

LEMMA RecordHeld == Invariants /\ Copied => Good(sup.held)
  BY TaskTypes DEF Invariants, TypeOK, GoalsNamed, LaunchesCounted, Good

LEMMA IterateKeeps ==
    ASSUME Invariants, NEW r, Good(r), Iterate(r), sup.at # "launch",
           UNCHANGED <<newest, launches>>
    PROVE  /\ rec' \in Records
           /\ sup' \in Tasks
           /\ GoalsNamed' /\ LaunchesCounted' /\ Wrote(r)
  <1> USE DEF Copied, Named, Counted, Pending, Wrote
  <1>1. /\ NoGoal \in Records
        /\ r \in Records /\ r.goal \in 0..MaxGoals /\ r.turn \in 0..MaxTurns
        /\ newest \in 0..MaxGoals /\ launches \in [Goals -> Nat]
    BY GoalAssumption DEF NoGoal, Records, Good, Invariants, TypeOK
  <1>2. CASE r.status # "active" /\ rec' = r /\ sup' = Gone
    BY <1>1, <1>2, ConstantTypes DEF Good, GoalsNamed, LaunchesCounted, Invariants
  <1>3. CASE r.status = "active" /\ Finish(r, "blocked")
    <2>1. /\ rec' \in Records
          /\ rec'.goal = r.goal /\ rec'.check = r.check /\ rec'.turn = r.turn
          /\ rec'.status = "blocked"
      BY <1>1, <1>3 DEF Finish, Records
    <2> QED  BY <1>1, <1>3, <2>1, ConstantTypes DEF Finish, Good, GoalsNamed,
                LaunchesCounted, Invariants
  <1>4. ASSUME NEW next, next = [r EXCEPT !.turn = @ + 1],
               r.status = "active", TurnsLeft(r), rec' = next,
               sup' = [at |-> "launch", held |-> next]
        PROVE  /\ rec' \in Records
               /\ sup' \in Tasks
               /\ GoalsNamed' /\ LaunchesCounted' /\ Wrote(r)
    <2>1. /\ next \in Records
          /\ next.goal = r.goal /\ next.check = r.check
          /\ next.status = r.status /\ next.turn = r.turn + 1
          /\ next.turn <= MaxTurns
      BY <1>1, <1>4, GoalAssumption DEF Records, TurnsLeft
    <2>2. \A g \in Goals : r.goal = g => launches[g] <= r.turn
      BY <1>1 DEF Good
    <2>3. GoalsNamed'
      BY <1>4, <2>1 DEF GoalsNamed, Good
    <2>4. LaunchesCounted'
      <3> SUFFICES ASSUME NEW g \in Goals
                   PROVE  /\ Counted(g, MaxTurns)'
                          /\ (g > newest => launches[g] = 0)'
                          /\ (rec.goal = g => Counted(g, rec.turn))'
                          /\ (sup.held.goal = g => Counted(g, sup.held.turn))'
        BY DEF LaunchesCounted
      <3>1. /\ launches'[g] = launches[g] /\ newest' = newest
            /\ launches[g] \in Nat /\ launches[g] <= MaxTurns
            /\ g > newest => launches[g] = 0
        BY <1>1, GoalAssumption DEF Invariants, LaunchesCounted
      <3>2. CASE r.goal = g
        <4>1. launches[g] <= r.turn /\ r.turn \in Nat /\ MaxTurns \in Nat
          BY <1>1, <2>2, <3>2, GoalAssumption
        <4>2. rec'.turn = r.turn + 1 /\ sup'.held.turn = r.turn + 1
          BY <1>4, <2>1
        <4>3. launches'[g] < r.turn + 1 /\ launches'[g] < MaxTurns
          BY <2>1, <3>1, <4>1
        <4> QED  BY <3>1, <4>2, <4>3
      <3>3. CASE r.goal # g
        BY <1>4, <2>1, <3>1, <3>3, GoalAssumption DEF Invariants, LaunchesCounted
      <3> QED  BY <3>2, <3>3
    <2>5. sup' \in Tasks
      BY <1>4, <2>1 DEF Tasks
    <2> QED  BY <1>4, <2>1, <2>3, <2>4, <2>5
  <1> QED  BY <1>2, <1>3, <1>4 DEF Iterate

LEMMA FinishKeeps ==
    ASSUME Invariants, NEW r, Good(r), NEW status \in {"done", "blocked"},
           Finish(r, status),
           UNCHANGED <<newest, launches>>
    PROVE  /\ rec' \in Records
           /\ sup' \in Tasks
           /\ GoalsNamed' /\ LaunchesCounted' /\ Wrote(r)
  <1> USE DEF Copied, Named, Counted, Pending, Wrote
  <1>1. NoGoal \in Records /\ r \in Records
    BY GoalAssumption DEF NoGoal, Records, Good
  <1>2. /\ rec' \in Records
        /\ rec'.goal = r.goal /\ rec'.check = r.check /\ rec'.turn = r.turn
        /\ rec'.status = status
    BY <1>1 DEF Finish, Records
  <1>3. \A g \in Goals : /\ launches[g] < MaxTurns \/ launches[g] = MaxTurns
                         /\ g > newest => launches[g] = 0
                         /\ r.goal = g => launches[g] < r.turn \/ launches[g] = r.turn
    BY DEF Good, Invariants, LaunchesCounted
  <1>4. GoalsNamed'
    BY <1>2 DEF Finish, Gone, Good, GoalsNamed
  <1>5. LaunchesCounted'
    BY <1>2, <1>3 DEF Finish, Gone, LaunchesCounted
  <1> QED  BY <1>1, <1>2, <1>4, <1>5, ConstantTypes DEF Finish

-----------------------------------------------------------------------------
(* The inductive invariant.                                                 *)

LEMMA InitIInv == Init => IInv
  <1> SUFFICES ASSUME Init PROVE IInv
    OBVIOUS
  <1> USE GoalAssumption DEF Init
  <1>1. TypeOK
    <2>1. launches \in [Goals -> Nat]
      OBVIOUS
    <2>2. up \in BOOLEAN /\ halted \in BOOLEAN
      OBVIOUS
    <2>3. /\ fails \in 0..1 /\ newest \in 0..MaxGoals
          /\ crashes \in 0..MaxCrashes /\ faults \in 0..MaxFaults
          /\ escapes \in 0..MaxEscapes
      OBVIOUS
    <2> QED  BY <2>1, <2>2, <2>3, ConstantTypes DEF TypeOK
  <1> USE DEF Gone, NoGoal
  <1>2. GoalsNamed /\ LaunchesCounted
    BY DEF GoalsNamed, Named, Copied, LaunchesCounted, Counted, Pending
  <1> QED  BY <1>1, <1>2 DEF IInv, ActiveSupervised, VerifyHeld, HaltHonoured,
              NewestOnRecord, Copied

\* A command leaves the task or starts one that holds no record.
LEMMA KickTypes ==
    ASSUME TypeOK
    PROVE  /\ Kick \in Tasks /\ Kick.at # "gone"
           /\ Kick.at \in {"launch", "run", "verify"} => Kick = sup
  BY ConstantTypes DEF TypeOK, Kick

\* What a command that writes rec' leaves of the counts.
LEMMA CommandCounts ==
    ASSUME Invariants, rec' \in Records,
           sup' \in Tasks, Copied' => sup' = sup,
           launches' = launches, newest' \in {newest, newest + 1},
           \/ rec'.goal = 0 /\ rec'.status # "active"
           \/ rec'.goal = newest + 1 /\ newest' = newest + 1
           \/ rec'.goal = rec.goal /\ rec'.turn = rec.turn
              /\ (rec'.status = "active" => rec.goal # 0)
    PROVE  GoalsNamed' /\ LaunchesCounted'
  <1> USE DEF Named, Pending, Copied
  <1>1. /\ rec.goal \in Nat /\ rec'.goal \in Nat /\ newest \in Nat
        /\ rec.turn \in Nat /\ rec'.turn \in Nat /\ MaxTurns \in Nat
        /\ sup.held.goal \in Nat /\ sup.held.turn \in Nat
        /\ launches \in [Goals -> Nat]
    <2>1. rec \in Records /\ sup.held \in Records /\ newest \in 0..MaxGoals
      BY TaskTypes DEF Invariants, TypeOK
    <2> QED  BY <2>1, RecordTypes, GoalAssumption DEF Invariants, TypeOK
  <1>2. /\ rec.goal <= newest
        /\ Copied => sup.held.status = "active" /\ sup.held.goal <= newest
                       /\ sup.held.goal # 0
    BY DEF Invariants, GoalsNamed
  <1>3. GoalsNamed'
    BY <1>1, <1>2 DEF GoalsNamed
  <1>4. ASSUME NEW g \in Goals
        PROVE  /\ Counted(g, MaxTurns)'
               /\ (g > newest => launches[g] = 0)'
               /\ (rec.goal = g => Counted(g, rec.turn))'
               /\ (Copied /\ sup.held.goal = g => Counted(g, sup.held.turn))'
    <2>1. /\ launches'[g] = launches[g] /\ launches[g] \in Nat
          /\ g \in Nat /\ g # 0
          /\ Pending(g)' => Pending(g)
      BY <1>1, GoalAssumption DEF Goals
    <2>2. /\ Counted(g, MaxTurns)
          /\ g > newest => launches[g] = 0 /\ ~Pending(g)
          /\ rec.goal = g => Counted(g, rec.turn)
          /\ Copied /\ sup.held.goal = g => Counted(g, sup.held.turn)
      BY <1>1, <1>2, <2>1 DEF Invariants, LaunchesCounted
    <2> QED  BY <1>1, <1>2, <2>1, <2>2 DEF Counted
  <1> QED  BY <1>3, <1>4 DEF LaunchesCounted

LEMMA CommandKeeps == IInv /\ Command => IInv'
  <1> SUFFICES ASSUME IInv, Command PROVE IInv'
    OBVIOUS
  <1> USE DEF counters
  <1>1. Invariants /\ TypeOK /\ rec \in Records
    BY DEF IInv, Invariants, TypeOK
  <1>2. CASE SetGoal
    <2>1. PICK check \in BOOLEAN :
            rec' = [goal |-> newest + 1, check |-> check, status |-> "active",
                    turn |-> 0]
      BY <1>2 DEF SetGoal
    <2>2. newest' = newest + 1 /\ newest + 1 \in 0..MaxGoals
      BY <1>1, <1>2, GoalAssumption DEF SetGoal, TypeOK
    <2>3. rec' \in Records
      BY <2>1, <2>2, GoalAssumption DEF Records
    <2>4. sup' \in Tasks /\ sup'.at # "gone" /\ (Copied' => sup' = sup)
      BY <1>1, <1>2, KickTypes DEF SetGoal, Copied
    <2>5. GoalsNamed' /\ LaunchesCounted'
      BY <1>1, <1>2, <2>1, <2>2, <2>3, <2>4, CommandCounts DEF SetGoal
    <2>6. TypeOK'
      BY <1>1, <1>2, <2>2, <2>3, <2>4 DEF TypeOK, SetGoal
    <2>7. ActiveSupervised' /\ VerifyHeld'
      BY <1>2, <2>4 DEF ActiveSupervised, VerifyHeld, SetGoal, IInv, Copied
    <2>8. HaltHonoured' /\ NewestOnRecord'
      BY <1>2, <2>1, <2>2 DEF HaltHonoured, NewestOnRecord, SetGoal
    <2> QED  BY <2>5, <2>6, <2>7, <2>8 DEF IInv
  <1>3. ASSUME Pause \/ Stop PROVE IInv'
    <2>1. /\ rec' \in Records
          /\ rec'.status # "active"
          /\ \/ rec'.goal = 0
             \/ rec'.goal = rec.goal /\ rec'.turn = rec.turn /\ rec'.check = rec.check
      <3>1. CASE Pause
        BY <1>1, <3>1 DEF Pause, Records
      <3>2. CASE Stop
        BY ConstantTypes, <3>2 DEF Stop
      <3> QED  BY <1>3, <3>1, <3>2
    <2>2. /\ UNCHANGED <<up, sup, fails, newest, launches, counters>>
          /\ halted' \in BOOLEAN
      BY <1>3 DEF Pause, Stop
    <2>3. TypeOK'
      BY <1>1, <2>1, <2>2 DEF TypeOK
    <2>4. GoalsNamed' /\ LaunchesCounted'
      BY <1>1, <2>1, <2>2, CommandCounts DEF TypeOK
    <2> QED  BY <2>1, <2>2, <2>3, <2>4 DEF IInv, ActiveSupervised, VerifyHeld,
                HaltHonoured, NewestOnRecord
  <1>4. CASE Resume
    <2>1. /\ rec' \in Records /\ rec.goal # 0
          /\ rec'.goal = rec.goal /\ rec'.turn = rec.turn /\ rec'.check = rec.check
      BY <1>1, <1>4 DEF Resume, Records
    <2>2. UNCHANGED <<up, fails, newest, launches, counters>> /\ ~halted'
      BY <1>4 DEF Resume
    <2>3. sup' \in Tasks /\ sup'.at # "gone" /\ (Copied' => sup' = sup)
      BY <1>1, <1>4, KickTypes DEF Resume, Copied
    <2>4. TypeOK'
      BY <1>1, <1>4, <2>1, <2>2, <2>3 DEF TypeOK, Resume
    <2>5. GoalsNamed' /\ LaunchesCounted'
      BY <1>1, <2>1, <2>2, <2>3, CommandCounts
    <2> QED  BY <2>1, <2>2, <2>3, <2>4, <2>5 DEF IInv, ActiveSupervised,
                VerifyHeld, HaltHonoured, NewestOnRecord, Copied
  <1> QED  BY <1>2, <1>3, <1>4 DEF Command

\* What is left to show of a step that wrote a good record back.
LEMMA WroteKeeps ==
    ASSUME IInv, TypeOK', GoalsNamed', LaunchesCounted', NEW r, Wrote(r),
           UNCHANGED <<up, halted, newest, escapes>>,
           faults' > 0 \/ faults' = faults,
           ~Judge => \/ r.check
                     \/ r.goal = rec.goal /\ r.check = rec.check
                        /\ (r.status = "active" => rec.status = "active")
                     \/ faults' > 0 /\ rec'.status # "active"
    PROVE  IInv'
  <1>1. ActiveSupervised' /\ VerifyHeld'
    BY DEF Wrote, ActiveSupervised, VerifyHeld
  <1>2. ~Judge => HaltHonoured' /\ NewestOnRecord'
    BY DEF Wrote, IInv, HaltHonoured, NewestOnRecord
  <1> QED  BY <1>1, <1>2 DEF IInv

\* A step of the supervisor or of the process that leaves the record alone,
\* and holds at most a record that was held before, or the one on file.
LEMMA TaskKeeps ==
    ASSUME IInv, sup' \in Tasks,
           UNCHANGED <<rec, halted, newest, launches>>,
           up' \in BOOLEAN, fails' \in 0..1, crashes' \in 0..MaxCrashes,
           faults' = faults, escapes' \in 0..MaxEscapes,
           sup'.at # "launch",
           Copied' => sup'.held \in {sup.held, rec} /\ sup'.held.status = "active"
                      /\ (sup'.held = sup.held => Copied),
           ActiveSupervised', VerifyHeld'
    PROVE  IInv'
  <1> USE DEF Named, Pending, Copied
  <1>1. TypeOK'
    BY DEF IInv, TypeOK
  <1>2. GoalsNamed'
    BY DEF IInv, GoalsNamed
  <1>3. LaunchesCounted'
    BY DEF IInv, LaunchesCounted, Counted
  <1>4. ~Judge => HaltHonoured' /\ NewestOnRecord'
    BY DEF IInv, HaltHonoured, NewestOnRecord
  <1> QED  BY <1>1, <1>2, <1>3, <1>4 DEF IInv

\* The run of a launch starts.
LEMMA LaunchedKeeps == IInv /\ Launched => IInv'
  <1> SUFFICES ASSUME IInv, Launched PROVE IInv'
    OBVIOUS
  <1> USE DEF Named, Pending, Copied, counters
  <1>1. /\ sup \in Tasks /\ sup.held \in Records /\ rec \in Records
        /\ launches \in [Goals -> Nat] /\ newest \in 0..MaxGoals
    BY TaskTypes DEF IInv, TypeOK
  <1> DEFINE goal == sup.held.goal
  <1>2. sup'.at = "run" /\ sup'.held = sup.held /\ sup.at = "launch" /\ sup' \in Tasks
    BY <1>1 DEF Launched, Tasks
  <1>3. goal \in Goals /\ goal <= newest /\ sup.held.status = "active"
    BY <1>1, <1>2, RecordTypes DEF IInv, GoalsNamed, Goals
  <1>4. /\ launches' \in [Goals -> Nat]
        /\ launches'[goal] = launches[goal] + 1
        /\ \A g \in Goals : g # goal => launches'[g] = launches[g]
    BY <1>1, <1>3 DEF Launched
  <1>5. TypeOK'
    BY <1>2, <1>4 DEF Launched, IInv, TypeOK
  <1>6. GoalsNamed'
    BY <1>2 DEF Launched, IInv, GoalsNamed
  <1>7. LaunchesCounted'
    <2> SUFFICES ASSUME NEW g \in Goals
                 PROVE  /\ Counted(g, MaxTurns)'
                        /\ (g > newest => launches[g] = 0)'
                        /\ (rec.goal = g => Counted(g, rec.turn))'
                        /\ (sup.held.goal = g => Counted(g, sup.held.turn))'
      BY DEF LaunchesCounted
    <2>1. /\ newest' = newest /\ rec' = rec
          /\ launches[g] \in Nat /\ g \in Nat /\ newest \in Nat
          /\ MaxTurns \in Nat /\ rec.turn \in Nat /\ sup.held.turn \in Nat
      BY <1>1, RecordTypes, GoalAssumption DEF Launched, Goals
    <2>2. CASE g = goal
      <3>1. /\ launches[g] < MaxTurns
            /\ rec.goal = g => launches[g] < rec.turn
            /\ launches[g] < sup.held.turn
        BY <1>2, <1>3, <2>2 DEF IInv, LaunchesCounted, Counted
      <3>2. launches'[g] = launches[g] + 1
        BY <1>4, <2>2
      <3>3. ~(g > newest)
        BY <1>3, <2>1, <2>2
      <3> QED  BY <1>2, <2>1, <3>1, <3>2, <3>3 DEF Counted
    <2>3. CASE g # goal
      <3>1. /\ Counted(g, MaxTurns)
            /\ g > newest => launches[g] = 0
            /\ rec.goal = g => Counted(g, rec.turn)
        BY DEF IInv, LaunchesCounted
      <3> QED  BY <1>2, <1>4, <2>1, <2>3, <3>1 DEF Counted
    <2> QED  BY <2>2, <2>3
  <1>8. UNCHANGED <<up, rec, newest, halted, faults, escapes>>
    BY DEF Launched
  <1> QED  BY <1>2, <1>5, <1>6, <1>7, <1>8 DEF IInv, ActiveSupervised,
              VerifyHeld, HaltHonoured, NewestOnRecord

\* The steps of the supervisor that write the record back.
LEMMA WritesKeep ==
    IInv /\ (Begin \/ RunEnds \/ VerifyEnds \/ LaunchFails) => IInv'
  <1> SUFFICES ASSUME IInv, Begin \/ RunEnds \/ VerifyEnds \/ LaunchFails PROVE IInv'
    OBVIOUS
  <1> USE DEF counters, history
  <1>1. Invariants /\ TypeOK /\ Good(rec) /\ fails \in 0..1 /\ faults \in Nat
    BY RecordOnFile, GoalAssumption DEF IInv, Invariants, TypeOK
  <1>2. UNCHANGED <<up, halted, newest, launches, crashes, escapes>>
    BY DEF Begin, RunEnds, VerifyEnds, LaunchFails
  <1>3. fails' \in 0..1
    BY <1>1 DEF Begin, RunEnds, VerifyEnds, LaunchFails
  <1>4. faults' \in 0..MaxFaults /\ (faults' > 0 \/ faults' = faults)
    BY <1>1, GoalAssumption DEF Begin, RunEnds, VerifyEnds, LaunchFails, TypeOK
  <1>5. ASSUME NEW r, Wrote(r), rec' \in Records, sup' \in Tasks,
               GoalsNamed', LaunchesCounted',
               ~Judge => \/ r.check
                         \/ r.goal = rec.goal /\ r.check = rec.check
                            /\ (r.status = "active" => rec.status = "active")
                         \/ faults' > 0 /\ rec'.status # "active"
        PROVE  IInv'
    <2>1. TypeOK'
      BY <1>1, <1>2, <1>3, <1>4, <1>5 DEF TypeOK
    <2> QED  BY <1>2, <1>4, <1>5, <2>1, WroteKeeps
  <1>6. ASSUME sup.at # "launch", Iterate(rec) PROVE IInv'
    BY <1>1, <1>2, <1>5, <1>6, IterateKeeps
  <1>7. ASSUME NEW status \in {"done", "blocked"}, Finish(rec, status) PROVE IInv'
    BY <1>1, <1>2, <1>5, <1>7, FinishKeeps
  <1>8. CASE Begin
    BY <1>6, <1>8 DEF Begin
  <1>9. CASE RunEnds
    <2>1. sup.at = "run" /\ UNCHANGED <<up, history, counters>>
      BY <1>9 DEF RunEnds
    <2>2. CASE rec.status # "active" /\ rec' = rec /\ sup' = Gone
      BY <1>6, <2>1, <2>2 DEF Iterate
    <2>3. CASE /\ rec.status = "active" /\ (rec.check \/ Judge)
               /\ sup' = [at |-> "verify", held |-> rec] /\ rec' = rec
      <3>1. sup' \in Tasks
        BY <1>1, <2>3 DEF TypeOK, Tasks
      <3> QED  BY <1>1, <1>2, <1>3, <2>1, <2>3, <3>1, TaskKeeps
                  DEF ActiveSupervised, VerifyHeld, Copied, TypeOK
    <2>4. CASE \E status \in {"done", "blocked"} : Finish(rec, status)
      BY <1>7, <2>4
    <2>5. CASE Iterate(rec)
      BY <1>6, <2>1, <2>5
    <2> QED  BY <1>9, <2>2, <2>3, <2>4, <2>5 DEF RunEnds, ReRead
  <1>10. CASE VerifyEnds
    <2>1. Good(sup.held) /\ sup.at = "verify" /\ (~Judge => sup.held.check)
      BY <1>1, <1>10, RecordHeld DEF VerifyEnds, Copied, IInv, VerifyHeld
    <2>2. CASE Finish(sup.held, "done")
      BY <1>1, <1>2, <1>5, <2>1, <2>2, FinishKeeps
    <2>3. CASE Iterate(sup.held)
      BY <1>1, <1>2, <1>5, <2>1, <2>3, IterateKeeps
    <2> QED  BY <1>10, <2>2, <2>3 DEF VerifyEnds
  <1>11. CASE LaunchFails
    <2>1. Good(sup.held) /\ Finish(sup.held, "blocked") /\ faults' > 0
      BY <1>1, <1>11, RecordHeld DEF LaunchFails, Copied
    <2>2. rec'.status = "blocked"
      BY <2>1 DEF Finish, Good, Records
    <2> QED  BY <1>1, <1>2, <1>5, <2>1, <2>2, FinishKeeps
  <1> QED  BY <1>8, <1>9, <1>10, <1>11

\* The steps that end the task, and the restart.
LEMMA ProcessKeeps == IInv /\ (CancelEscapes \/ Crash \/ Restart) => IInv'
  <1> SUFFICES ASSUME IInv, CancelEscapes \/ Crash \/ Restart PROVE IInv'
    OBVIOUS
  <1> USE DEF counters, history
  <1>1. /\ UNCHANGED <<rec, halted, newest, launches, faults, fails>>
        /\ sup' \in {Gone, Kicked}
        /\ up' \in BOOLEAN
    BY DEF CancelEscapes, Crash, Restart, RestartTask, IInv, TypeOK
  <1>2. crashes' \in 0..MaxCrashes /\ escapes' \in 0..MaxEscapes
    BY GoalAssumption DEF CancelEscapes, Crash, Restart, IInv, TypeOK
  <1>3. ActiveSupervised'
    <2>1. escapes \in Nat
      BY GoalAssumption DEF IInv, TypeOK
    <2>2. CASE CancelEscapes
      BY <2>1, <2>2 DEF CancelEscapes, ActiveSupervised
    <2>3. CASE Crash
      BY <2>3 DEF Crash, ActiveSupervised
    <2>4. CASE Restart
      BY <2>4, ConstantTypes DEF Restart, RestartTask, ActiveSupervised
    <2> QED  BY <2>2, <2>3, <2>4
  <1>4. sup' \in Tasks /\ sup'.at \in {"gone", "kicked"}
    BY <1>1, ConstantTypes
  <1> QED  BY <1>1, <1>2, <1>3, <1>4, TaskKeeps DEF Copied, VerifyHeld, IInv, TypeOK

LEMMA IInvStep == IInv /\ [Next]_vars => IInv'
  <1> SUFFICES ASSUME IInv, [Next]_vars PROVE IInv'
    OBVIOUS
  <1>1. CASE UNCHANGED vars
    BY <1>1 DEF vars, history, counters, IInv, TypeOK, GoalsNamed, Named, Copied,
       LaunchesCounted, Counted, Pending, ActiveSupervised, VerifyHeld,
       HaltHonoured, NewestOnRecord
  <1> QED  BY <1>1, CommandKeeps, LaunchedKeeps, WritesKeep, ProcessKeeps
              DEF Next, Supervise

-----------------------------------------------------------------------------
(* The theorems.                                                            *)

\* Every reachable state satisfies the inductive invariant.
THEOREM Invariance == Spec => []IInv
  BY InitIInv, IInvStep, PTL DEF Spec

\* The variables keep their types.
THEOREM TypeCorrect == Spec => []TypeOK
  <1>1. IInv => TypeOK
    BY DEF IInv
  <1> QED  BY <1>1, Invariance, PTL

\* Where the judge does not confirm a goal, no write of supervise makes a goal
\* active that the user paused or stopped, unless it has a check command.
THEOREM HaltIsHonoured == ASSUME ~Judge PROVE Spec => []HaltHonoured
  <1>1. IInv => HaltHonoured
    BY DEF IInv
  <1> QED  BY <1>1, Invariance, PTL

\* And none puts an earlier goal back over the last one the user set, unless
\* its launch raised or it has a check command.
THEOREM NewestIsOnRecord == ASSUME ~Judge PROVE Spec => []NewestOnRecord
  <1>1. IInv => NewestOnRecord
    BY DEF IInv
  <1> QED  BY <1>1, Invariance, PTL

\* No goal launches more than max_turns runs, however many crashes, resumes and
\* stale writes of its record there are.
THEOREM TurnsBounded == Spec => []TurnCeiling
  <1>1. IInv => TurnCeiling
    <2> SUFFICES ASSUME IInv, NEW g \in Goals PROVE launches[g] <= MaxTurns
      BY DEF TurnCeiling
    <2>1. Counted(g, MaxTurns) /\ launches[g] \in Nat /\ MaxTurns \in Nat
      BY GoalAssumption DEF IInv, TypeOK, LaunchesCounted
    <2> QED  BY <2>1 DEF Counted
  <1> QED  BY <1>1, Invariance, PTL

\* While the process is up and no cancellation escaped, an active goal has a
\* supervisor.
THEOREM GoalsSupervised == Spec => []ActiveSupervised
  <1>1. IInv => ActiveSupervised
    BY DEF IInv
  <1> QED  BY <1>1, Invariance, PTL
=============================================================================
