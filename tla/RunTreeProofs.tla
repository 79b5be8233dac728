---------------------------- MODULE RunTreeProofs ----------------------------
(* Theorems about RunTree, for every value of its constants.                 *)
(*                                                                           *)
(* Shape, the runs and who awaits whom, is inductive as it stands; Spending  *)
(* is inductive with it where no spawn asks for a budget of 0, which the     *)
(* carve takes for no ceiling.  A step of a run ends it, spends on a turn or  *)
(* on its tools, spawns, or only moves on.                                   *)
EXTENDS RunTree, FiniteSetTheorems, TLAPS

At == {"none", "loop", "act", "wait", "last", "done"}

\* The carve never gives more than what is left, nor, to a request above 0, no
\* ceiling where the parent has one.
LEMMA CarvedBounds ==
    ASSUME NEW q \in Nat, NEW rem \in Nat
    PROVE  /\ Carved(q, rem) \in Nat
           /\ rem # 0 => Carved(q, rem) <= rem /\ (q # 0 => Carved(q, rem) # 0)
  BY DEF Carved

LEMMA RemainingType ==
    ASSUME TypeOK, NEW r \in Runs
    PROVE  /\ Remaining(r) \in Nat
           /\ Remaining(r) # 0 => spent[r] + Remaining(r) = ceil[r]
  BY DEF TypeOK, Remaining

\* What a child may get is a number and, under a ceiling that is not spent, a
\* ceiling within what is left of it.
LEMMA ChildCeilingBounds ==
    ASSUME TypeOK, NEW r \in Runs, NEW x \in ChildCeilings(r)
    PROVE  /\ x \in Nat
           /\ 0 \notin Requests /\ ceil[r] # 0 /\ MaySpawn(r) =>
                x # 0 /\ spent[r] + x <= ceil[r]
  <1>1. PICK q \in Requests \cup {Remaining(r)} : x = Carved(q, Remaining(r))
    BY DEF ChildCeilings
  <1>2. q \in Nat /\ Remaining(r) \in Nat /\ x \in Nat
    BY <1>1, RemainingType, CarvedBounds, TreeAssumption
  <1>3. ASSUME 0 \notin Requests, ceil[r] # 0, MaySpawn(r)
        PROVE  x # 0 /\ spent[r] + x <= ceil[r]
    <2>1. Remaining(r) # 0 /\ spent[r] + Remaining(r) = ceil[r]
      BY <1>3, RemainingType DEF MaySpawn
    <2>2. q # 0
      BY <1>1, <1>3, <2>1
    <2>3. x # 0 /\ x <= Remaining(r)
      BY <1>1, <1>2, <2>1, <2>2, CarvedBounds
    <2>4. spent[r] \in Nat /\ ceil[r] \in Nat
      BY DEF TypeOK
    <2> QED  BY <1>2, <2>1, <2>3, <2>4
  <1> QED  BY <1>2, <1>3

\* The numbers that a spawn takes are not in use.
LEMMA SpawnsAreNew ==
    ASSUME Numbered, NEW n \in 1..MaxBatch,
           Cardinality(Exists) + 1 .. Cardinality(Exists) + 1 + n - 1 \subseteq Runs
    PROVE  \E k \in Runs :
              /\ Exists = 1..k
              /\ Cardinality(Exists) + 1 .. Cardinality(Exists) + 1 + n - 1 = k + 1 .. k + n
              /\ k + n \in Runs
  <1>1. PICK k \in Runs : Exists = 1..k
    BY DEF Numbered
  <1>2. k \in Nat /\ k >= 1 /\ n \in Nat /\ n >= 1
    BY TreeAssumption DEF Runs
  <1>3. Cardinality(Exists) = k
    BY <1>1, <1>2, FS_Interval
  <1>4. k + n \in Cardinality(Exists) + 1 .. Cardinality(Exists) + 1 + n - 1
    BY <1>2, <1>3
  <1> QED  BY <1>1, <1>2, <1>3, <1>4

-----------------------------------------------------------------------------
(* The steps, sorted by what they do to the tree.                           *)

\* A live run ends, perhaps with a last turn, and its parent is charged or not.
Ends(r) ==
    /\ r \in Live
    /\ at' = [at EXCEPT ![r] = "done"]
    /\ pending' = pending \ {r}
    /\ UNCHANGED <<parent, depth, ceil, wide, cancelled>>
    /\ \E more \in 0..MaxTurn :
          /\ more # 0 => at[r] = "last" /\ r \notin pending
          /\ own' = [own EXCEPT ![r] = @ + more]
          /\ spent' \in {spent, Charged(r, more)}

\* A run spends on a turn, where its ceiling allows one, or on the tools of one.
Spends(r) == Turn(r) \/ GoOn(r)

\* A run, or the cancellation, moves on without spending or spawning.
Moves ==
    /\ UNCHANGED <<parent, depth, ceil, spent, own, wide>>
    /\ \A r \in Runs : at[r] = "none" <=> at'[r] = "none"
    /\ Live' = Live

LEMMA StepCases ==
    ASSUME Shape, NEW r \in Runs, Step(r)
    PROVE  Ends(r) \/ Spends(r) \/ Spawn(r) \/ LastTurn(r) \/ Resume(r)
  <1>1. TypeOK /\ 0 \in 0..MaxTurn /\ \A n \in 0..MaxTurn : Usage(n) = n
    BY TreeAssumption DEF Shape, Usage
  <1>2. ASSUME OverBudget(r) \/ Answer(r) \/ (CancelledRun(r) /\ at[r] # "last") PROVE Ends(r)
    BY <1>1, <1>2 DEF OverBudget, Answer, CancelledRun, Return, Ends, Live
  <1>3. ASSUME FinalSynthesis(r) PROVE Ends(r)
    <2>1. PICK n \in 0..MaxTurn : Return(r, n)
      BY <1>1, <1>3 DEF FinalSynthesis
    <2> QED  BY <1>3, <2>1 DEF FinalSynthesis, Return, Ends, Live
  <1>4. ASSUME CancelledRun(r), at[r] = "last" PROVE Ends(r)
    <2>1. own' = [own EXCEPT ![r] = @ + 0]
      BY <1>1, <1>4 DEF CancelledRun, TypeOK
    <2> QED  BY <1>1, <1>4, <2>1 DEF CancelledRun, Ends, Live
  <1> QED  BY <1>2, <1>3, <1>4 DEF Step, Spends

LEMMA Movers ==
    ASSUME TypeOK,
           Cancel \/ \E r \in Runs : LastTurn(r) \/ Resume(r)
    PROVE  Moves
  <1>1. CASE Cancel
    BY <1>1 DEF Cancel, Moves, Live
  <1>2. ASSUME NEW r \in Runs, LastTurn(r) \/ Resume(r) PROVE Moves
    <2>1. /\ UNCHANGED <<parent, depth, ceil, spent, own, wide>>
          /\ at[r] \in {"loop", "wait"}
          /\ \E where \in {"last", "act"} : at' = [at EXCEPT ![r] = where]
      BY <1>2 DEF LastTurn, Resume
    <2>2. \E where \in {"last", "act"} :
            \A s \in Runs : at'[s] = IF s = r THEN where ELSE at[s]
      BY <2>1 DEF TypeOK
    <2> QED  BY <2>1, <2>2 DEF Moves, Live
  <1> QED  BY <1>1, <1>2

\* What a turn or its tools change.
LEMMA SpendDoes ==
    ASSUME TypeOK, NEW r \in Runs, Spends(r)
    PROVE  /\ at[r] \in {"loop", "act"} /\ r \notin pending /\ r \in Exists /\ r \in Live
           /\ UNCHANGED <<parent, depth, ceil, wide, pending, cancelled>>
           /\ Live' = Live /\ Exists' = Exists
           /\ at' = [at EXCEPT ![r] = IF at[r] = "loop" THEN "act" ELSE "loop"]
           /\ \E t \in Nat :
                 /\ IF at[r] = "loop" THEN ~Exceeded(r) /\ t <= MaxTurn ELSE t <= MaxTools
                 /\ spent' = [spent EXCEPT ![r] = @ + t]
                 /\ own' = [own EXCEPT ![r] = @ + t]
  <1>1. /\ at[r] \in {"loop", "act"} /\ r \notin pending
        /\ at' = [at EXCEPT ![r] = IF at[r] = "loop" THEN "act" ELSE "loop"]
        /\ UNCHANGED <<parent, depth, ceil, wide, pending, cancelled>>
    BY DEF Spends, Turn, GoOn
  <1>2. \A s \in Runs : at'[s] = IF s = r THEN IF at[r] = "loop" THEN "act" ELSE "loop"
                                          ELSE at[s]
    BY <1>1 DEF TypeOK
  <1>3. Live' = Live /\ Exists' = Exists /\ r \in Exists /\ r \in Live
    BY <1>1, <1>2 DEF Live, Exists
  <1>4. \E t \in Nat :
           /\ IF at[r] = "loop" THEN ~Exceeded(r) /\ t <= MaxTurn ELSE t <= MaxTools
           /\ spent' = [spent EXCEPT ![r] = @ + t]
           /\ own' = [own EXCEPT ![r] = @ + t]
    <2>1. ASSUME Turn(r)
          PROVE  \E t \in Nat :
                    /\ IF at[r] = "loop" THEN ~Exceeded(r) /\ t <= MaxTurn ELSE t <= MaxTools
                    /\ spent' = [spent EXCEPT ![r] = @ + t]
                    /\ own' = [own EXCEPT ![r] = @ + t]
      <3>1. PICK t \in 1..MaxTurn : /\ spent' = [spent EXCEPT ![r] = @ + t]
                                    /\ own' = [own EXCEPT ![r] = @ + t]
        BY <2>1 DEF Turn, Usage
      <3>2. t \in Nat /\ t <= MaxTurn /\ at[r] = "loop" /\ ~Exceeded(r)
        BY <2>1, TreeAssumption DEF Turn
      <3> QED  BY <3>1, <3>2
    <2>2. ASSUME GoOn(r)
          PROVE  \E t \in Nat :
                    /\ IF at[r] = "loop" THEN ~Exceeded(r) /\ t <= MaxTurn ELSE t <= MaxTools
                    /\ spent' = [spent EXCEPT ![r] = @ + t]
                    /\ own' = [own EXCEPT ![r] = @ + t]
      <3>1. PICK t \in 0..MaxTools : /\ spent' = [spent EXCEPT ![r] = @ + t]
                                     /\ own' = [own EXCEPT ![r] = @ + t]
        BY <2>2 DEF GoOn
      <3>2. t \in Nat /\ t <= MaxTools /\ at[r] = "act"
        BY <2>2, TreeAssumption DEF GoOn
      <3> QED  BY <3>1, <3>2
    <2> QED  BY <2>1, <2>2 DEF Spends
  <1> QED  BY <1>1, <1>3, <1>4

\* What an end changes.
LEMMA EndDoes ==
    ASSUME TypeOK, NEW r \in Runs, Ends(r)
    PROVE  /\ UNCHANGED <<parent, depth, ceil, wide, cancelled>>
           /\ r \in Live /\ Live' = Live \ {r} /\ Exists' = Exists
           /\ at' = [at EXCEPT ![r] = "done"]
           /\ pending' = pending \ {r}
           /\ spent' \in [Runs -> Nat] /\ own' \in [Runs -> Nat]
           /\ \E more \in 0..MaxTurn :
                 /\ more # 0 => at[r] = "last" /\ r \notin pending
                 /\ own' = [own EXCEPT ![r] = @ + more]
                 /\ \A p \in Runs :
                       \/ spent'[p] = spent[p]
                       \/ p = parent[r] /\ spent'[p] = spent[p] + spent[r] + more
                       \/ p = r /\ spent'[p] = spent[r] + more
  <1>1. /\ at[r] \notin {"none", "done"} /\ at' = [at EXCEPT ![r] = "done"]
        /\ \A s \in Runs : at'[s] = IF s = r THEN "done" ELSE at[s]
    BY DEF Ends, Live, TypeOK
  <1>2. Live' = Live \ {r} /\ Exists' = Exists
    BY <1>1 DEF Live, Exists
  <1>3. PICK more \in 0..MaxTurn :
          /\ more # 0 => at[r] = "last" /\ r \notin pending
          /\ own' = [own EXCEPT ![r] = @ + more]
          /\ spent' \in {spent, Charged(r, more)}
    BY DEF Ends
  <1>4. more \in Nat
    BY <1>3, TreeAssumption
  <1>5. own' \in [Runs -> Nat]
    BY <1>3, <1>4 DEF TypeOK
  <1>6. CASE spent' = spent
    BY <1>1, <1>2, <1>3, <1>5, <1>6 DEF Ends, TypeOK
  <1>7. CASE spent' = Charged(r, more)
    <2>1. spent' \in [Runs -> Nat]
      BY <1>4, <1>7 DEF TypeOK, Charged
    <2>2. \A p \in Runs :
             spent'[p] = IF p = parent[r] THEN spent[p] + spent[r] + more
                         ELSE IF p = r THEN spent[r] + more ELSE spent[p]
      BY <1>7 DEF Charged
    <2> QED  BY <1>1, <1>2, <1>3, <1>5, <2>1, <2>2 DEF Ends
  <1> QED  BY <1>3, <1>6, <1>7

\* What a spawn changes: the new runs are numbered above the existing ones.
LEMMA SpawnDoes ==
    ASSUME Shape, NEW r \in Runs, Spawn(r)
    PROVE  /\ at[r] = "act" /\ r \notin pending /\ MaySpawn(r) /\ r \in Live
           /\ UNCHANGED <<spent, own, pending, cancelled>>
           /\ \E n \in 1..MaxBatch, k \in Runs :
                /\ Exists = 1..k /\ Exists' = 1..(k + n) /\ k + n \in Runs
                /\ Live' = Live \cup (k + 1 .. k + n)
                /\ wide' = (wide \/ n > 1)
                /\ \A s \in k + 1 .. k + n :
                      /\ s \in Runs /\ s \notin Exists
                      /\ at'[s] = "loop" /\ parent'[s] = r /\ ceil'[s] \in ChildCeilings(r)
                      /\ depth'[s] = depth[r] + 1
                /\ \A s \in Runs \ (k + 1 .. k + n) :
                      /\ at'[s] = IF s = r THEN "wait" ELSE at[s]
                      /\ parent'[s] = parent[s] /\ ceil'[s] = ceil[s] /\ depth'[s] = depth[s]
           /\ \A f \in {at', parent', depth', ceil'} : f = [s \in Runs |-> f[s]]
  <1>1. PICK n \in 1..MaxBatch :
          LET first == Cardinality(Exists) + 1
              new == first..(first + n - 1)
          IN  /\ new \subseteq Runs
              /\ wide' = (wide \/ n > 1)
              /\ \E c \in [new -> ChildCeilings(r)] :
                    ceil' = [s \in Runs |-> IF s \in new THEN c[s] ELSE ceil[s]]
              /\ at' = [s \in Runs |-> IF s \in new THEN "loop"
                                       ELSE IF s = r THEN "wait" ELSE at[s]]
              /\ parent' = [s \in Runs |-> IF s \in new THEN r ELSE parent[s]]
              /\ depth' = [s \in Runs |->
                             IF s \in new THEN depth[r] + 1 ELSE depth[s]]
    BY DEF Spawn
  <1> DEFINE first == Cardinality(Exists) + 1
             new == first .. first + n - 1
  <1>2. PICK k \in Runs : Exists = 1..k /\ new = k + 1 .. k + n /\ k + n \in Runs
    BY <1>1, SpawnsAreNew DEF Shape
  <1>3. PICK c \in [new -> ChildCeilings(r)] :
          ceil' = [s \in Runs |-> IF s \in new THEN c[s] ELSE ceil[s]]
    BY <1>1
  <1>4. /\ at' = [s \in Runs |-> IF s \in new THEN "loop" ELSE IF s = r THEN "wait" ELSE at[s]]
        /\ parent' = [s \in Runs |-> IF s \in new THEN r ELSE parent[s]]
        /\ depth' = [s \in Runs |-> IF s \in new THEN depth[r] + 1 ELSE depth[s]]
        /\ wide' = (wide \/ n > 1) /\ new \subseteq Runs
    BY <1>1
  <1> HIDE DEF new
  <1>5. k \in Nat /\ n \in Nat /\ n >= 1 /\ k >= 1 /\ MaxRuns \in Nat
    BY TreeAssumption DEF Runs
  <1>6. new \cap Exists = {} /\ 1 .. k + n = Exists \cup new
    BY <1>2, <1>5
  <1>7. at[r] = "act" /\ r \in Exists /\ r \in Live
    BY DEF Spawn, Exists, Live
  <1>8. Exists' = Exists \cup new /\ Live' = Live \cup new
    BY <1>4, <1>6, <1>7 DEF Exists, Live
  <1> QED  BY <1>2, <1>3, <1>4, <1>6, <1>7, <1>8 DEF Spawn

-----------------------------------------------------------------------------
(* The shape of the tree.                                                   *)

LEMMA InitShape == Init => Shape
  <1> SUFFICES ASSUME Init PROVE Shape
    OBVIOUS
  <1>1. 1 \in Runs /\ MaxRuns \in Nat /\ Runs \subseteq Nat
    BY TreeAssumption DEF Runs
  <1>2. TypeOK
    <2>1. 0 \in 0..MaxRuns /\ 0 \in 0..MaxDepth /\ 0 \in Nat /\ Ceiling \in Nat
      BY TreeAssumption
    <2>2. at \in [Runs -> At] /\ ceil \in [Runs -> Nat]
      BY <2>1 DEF Init, At
    <2>3. parent \in [Runs -> 0..MaxRuns] /\ depth \in [Runs -> 0..MaxDepth]
      BY <2>1 DEF Init
    <2>4. spent \in [Runs -> Nat] /\ own \in [Runs -> Nat]
      BY <2>1 DEF Init
    <2> QED  BY <2>2, <2>3, <2>4 DEF Init, TypeOK, At
  <1>3. Exists = 1..1 /\ Live = {1}
    BY <1>1 DEF Init, Exists, Live
  <1>4. Numbered
    BY <1>1, <1>3 DEF Init, Numbered
  <1>5. ParentWaits /\ CancelReaches
    BY <1>1, <1>3 DEF Init, ParentWaits, CancelReaches, Live
  <1> QED  BY <1>2, <1>4, <1>5 DEF Shape

\* A parent of a live run exists.
LEMMA ParentExists ==
    ASSUME Shape, NEW c \in Live, parent[c] # 0
    PROVE  parent[c] \in Exists
  BY DEF Shape, TypeOK, ParentWaits, Live, Exists, Runs

LEMMA EndKeepsShape ==
    ASSUME Shape, NEW r \in Runs, Ends(r) PROVE Shape'
  <1>1. /\ TypeOK /\ r \in Live /\ Live' = Live \ {r} /\ Exists' = Exists
        /\ UNCHANGED <<parent, depth, ceil, wide, cancelled>>
        /\ at' = [at EXCEPT ![r] = "done"] /\ pending' = pending \ {r}
        /\ spent' \in [Runs -> Nat] /\ own' \in [Runs -> Nat]
    BY EndDoes DEF Shape
  <1>2. PICK more \in 0..MaxTurn :
          /\ own' = [own EXCEPT ![r] = @ + more]
          /\ \A p \in Runs :
                \/ spent'[p] = spent[p]
                \/ p = parent[r] /\ spent'[p] = spent[p] + spent[r] + more
                \/ p = r /\ spent'[p] = spent[r] + more
    BY <1>1, EndDoes
  <1>3. TypeOK'
    BY <1>1 DEF TypeOK
  <1>4. Numbered'
    <2>1. \A s \in Runs \ Exists : s # parent[r] /\ s # r
      BY <1>1, ParentExists, TreeAssumption DEF Runs, Exists, Live
    <2>2. \A s \in Runs \ Exists : spent'[s] = 0 /\ own'[s] = 0
      BY <1>1, <1>2, <2>1 DEF Shape, Numbered, TypeOK
    <2> QED  BY <1>1, <2>2 DEF Shape, Numbered
  <1>5. ParentWaits'
    BY <1>1 DEF Shape, ParentWaits, TypeOK, Live
  <1>6. CancelReaches'
    BY <1>1 DEF Shape, CancelReaches, TypeOK, Live
  <1> QED  BY <1>3, <1>4, <1>5, <1>6 DEF Shape

LEMMA SpendKeepsShape ==
    ASSUME Shape, NEW r \in Runs, Spends(r) PROVE Shape'
  <1>1. /\ TypeOK /\ at[r] \in {"loop", "act"} /\ r \notin pending
        /\ at' = [at EXCEPT ![r] = IF at[r] = "loop" THEN "act" ELSE "loop"]
        /\ UNCHANGED <<parent, depth, ceil, wide, pending, cancelled>>
        /\ Live' = Live /\ Exists' = Exists /\ r \in Exists /\ r \in Live
    BY SpendDoes DEF Shape
  <1>2. PICK t \in Nat : /\ spent' = [spent EXCEPT ![r] = @ + t]
                         /\ own' = [own EXCEPT ![r] = @ + t]
    BY <1>1, SpendDoes
  <1>3. TypeOK'
    <2>1. spent' \in [Runs -> Nat] /\ own' \in [Runs -> Nat]
      BY <1>1, <1>2 DEF TypeOK
    <2>2. at' \in [Runs -> At]
      BY <1>1 DEF TypeOK, At
    <2> QED  BY <1>1, <2>1, <2>2 DEF TypeOK, At
  <1>4. Numbered'
    BY <1>1, <1>2 DEF Shape, Numbered, TypeOK
  <1>5. ParentWaits'
    BY <1>1 DEF Shape, ParentWaits, TypeOK, Live
  <1>6. CancelReaches'
    BY <1>1 DEF Shape, CancelReaches, Live
  <1> QED  BY <1>3, <1>4, <1>5, <1>6 DEF Shape

LEMMA SpawnKeepsShape ==
    ASSUME Shape, NEW r \in Runs, Spawn(r) PROVE Shape'
  <1>1. /\ TypeOK /\ at[r] = "act" /\ r \notin pending /\ MaySpawn(r) /\ r \in Live
        /\ UNCHANGED <<spent, own, pending, cancelled>>
        /\ \A f \in {at', parent', depth', ceil'} : f = [s \in Runs |-> f[s]]
    BY SpawnDoes DEF Shape
  <1>2. PICK n \in 1..MaxBatch, k \in Runs :
          /\ Exists = 1..k /\ Exists' = 1..(k + n) /\ k + n \in Runs
          /\ Live' = Live \cup (k + 1 .. k + n)
          /\ wide' = (wide \/ n > 1)
          /\ \A s \in k + 1 .. k + n :
                /\ s \in Runs /\ s \notin Exists
                /\ at'[s] = "loop" /\ parent'[s] = r /\ ceil'[s] \in ChildCeilings(r)
                /\ depth'[s] = depth[r] + 1
          /\ \A s \in Runs \ (k + 1 .. k + n) :
                /\ at'[s] = IF s = r THEN "wait" ELSE at[s]
                /\ parent'[s] = parent[s] /\ ceil'[s] = ceil[s] /\ depth'[s] = depth[s]
    BY <1>1, SpawnDoes
  <1> DEFINE new == k + 1 .. k + n
  <1>3. /\ Live' = Live \cup new
        /\ \A s \in new :
              /\ s \in Runs /\ s \notin Exists
              /\ at'[s] = "loop" /\ parent'[s] = r
              /\ ceil'[s] \in ChildCeilings(r) /\ depth'[s] = depth[r] + 1
        /\ \A s \in Runs \ new :
              /\ at'[s] = IF s = r THEN "wait" ELSE at[s]
              /\ parent'[s] = parent[s] /\ ceil'[s] = ceil[s] /\ depth'[s] = depth[s]
    BY <1>2
  <1> HIDE DEF new
  <1>4. Live \subseteq Exists /\ r \notin new /\ r \in Exists /\ Live \subseteq Runs
    BY <1>1, <1>3 DEF Live, Exists
  <1>5. TypeOK'
    <2>1. at' \in [Runs -> At]
      <3>1. \A s \in Runs : at'[s] \in At
        BY <1>1, <1>3 DEF TypeOK, At
      <3> QED  BY <1>1, <3>1
    <2>2. parent' \in [Runs -> 0..MaxRuns]
      <3>1. \A s \in Runs : parent'[s] \in 0..MaxRuns
        <4>1. r \in 0..MaxRuns
          BY TreeAssumption DEF Runs
        <4>2. \A s \in Runs : parent[s] \in 0..MaxRuns
          BY <1>1 DEF TypeOK
        <4> QED  BY <1>3, <4>1, <4>2
      <3> QED  BY <1>1, <3>1
    <2>3. depth' \in [Runs -> 0..MaxDepth]
      <3>1. depth[r] + 1 \in 0..MaxDepth
        BY <1>1, TreeAssumption DEF TypeOK, MaySpawn
      <3>2. \A s \in Runs : depth'[s] \in 0..MaxDepth
        BY <1>1, <1>3, <3>1 DEF TypeOK
      <3> QED  BY <1>1, <3>2
    <2>4. ceil' \in [Runs -> Nat]
      <3>1. \A s \in Runs : ceil'[s] \in Nat
        BY <1>1, <1>3, ChildCeilingBounds DEF TypeOK
      <3> QED  BY <1>1, <3>1
    <2>5. wide' \in BOOLEAN
      BY <1>1, <1>2 DEF TypeOK
    <2> QED  BY <1>1, <2>1, <2>2, <2>3, <2>4, <2>5 DEF TypeOK, At
  <1>6. Numbered'
    <2>1. Exists \subseteq Exists'
      BY <1>2, TreeAssumption DEF Runs
    <2> QED  BY <1>1, <1>2, <2>1 DEF Shape, Numbered
  <1>7. ParentWaits'
    <2> SUFFICES ASSUME NEW c \in Live \cup new, parent'[c] # 0
                 PROVE  at'[parent'[c]] \in {"wait", "done"}
      BY <1>3 DEF ParentWaits
    <2>1. CASE c \in new
      BY <1>3, <1>4, <2>1
    <2>2. CASE c \notin new
      <3>1. c \in Live /\ parent'[c] = parent[c] /\ parent[c] \in Exists
        BY <1>3, <1>4, <2>2, ParentExists
      <3>2. parent[c] \in Runs \ new /\ at[parent[c]] \in {"wait", "done"}
        BY <1>3, <3>1 DEF Shape, ParentWaits, Exists
      <3> QED  BY <1>3, <3>1, <3>2
    <2> QED  BY <2>1, <2>2
  <1>8. CancelReaches'
    BY <1>1 DEF Shape, CancelReaches
  <1> QED  BY <1>5, <1>6, <1>7, <1>8 DEF Shape

LEMMA ShapeStep == Shape /\ [Next]_vars => Shape'
  <1> SUFFICES ASSUME Shape, [Next]_vars PROVE Shape'
    OBVIOUS
  <1>1. CASE UNCHANGED vars
    BY <1>1 DEF vars, Shape, TypeOK, Numbered, ParentWaits, CancelReaches, Exists, Live
  <1>2. ASSUME Cancel \/ \E r \in Runs : LastTurn(r) \/ Resume(r)
        PROVE  Shape'
    <2>1. Moves /\ TypeOK
      BY <1>2, Movers DEF Shape
    <2>2. TypeOK'
      <3>1. CASE Cancel
        BY <2>1, <3>1 DEF Cancel, TypeOK, Live
      <3>2. ASSUME NEW r \in Runs, LastTurn(r) \/ Resume(r) PROVE TypeOK'
        BY <2>1, <3>2 DEF LastTurn, Resume, TypeOK
      <3> QED  BY <1>2, <3>1, <3>2
    <2>3. Exists' = Exists /\ Live' = Live
      BY <2>1 DEF Moves, Exists
    <2>4. Numbered'
      BY <2>1, <2>3 DEF Moves, Shape, Numbered
    <2>5. ParentWaits'
      <3>1. CASE Cancel
        BY <2>1, <2>3, <3>1 DEF Cancel, Shape, ParentWaits
      <3>2. ASSUME NEW r \in Runs, LastTurn(r) \/ Resume(r) PROVE ParentWaits'
        <4>1. /\ \E where \in {"last", "act"} : at' = [at EXCEPT ![r] = where]
              /\ parent' = parent /\ \A c \in Live : parent[c] # r
          BY <3>2, TreeAssumption DEF LastTurn, Resume, LiveChildren, Shape, ParentWaits, Runs
        <4> QED  BY <2>1, <2>3, <4>1 DEF TypeOK, Shape, ParentWaits
      <3> QED  BY <1>2, <3>1, <3>2
    <2>6. CancelReaches'
      <3>1. CASE Cancel
        <4> SUFFICES ASSUME NEW c \in Live, LiveChildren(c) # {} PROVE at[c] = "wait"
          BY <2>3, <3>1 DEF Cancel, CancelReaches
        <4>1. PICK d \in Live : parent[d] = c
          BY DEF LiveChildren
        <4>2. c # 0 /\ at[c] # "done"
          BY TreeAssumption DEF Live, Runs
        <4> QED  BY <4>1, <4>2 DEF Shape, ParentWaits
      <3>2. ASSUME NEW r \in Runs, LastTurn(r) \/ Resume(r) PROVE CancelReaches'
        BY <2>1, <2>3, <3>2 DEF LastTurn, Resume, ReRaises, Shape, CancelReaches, TypeOK, Live
      <3> QED  BY <1>2, <3>1, <3>2
    <2> QED  BY <2>2, <2>4, <2>5, <2>6 DEF Shape
  <1> QED  BY <1>1, <1>2, StepCases, EndKeepsShape, SpendKeepsShape,
              SpawnKeepsShape DEF Next

\* In every reachable state the runs in progress form a chain of frames, each
\* waiting for the next, and a cancellation reaches all of it.
THEOREM ShapeInvariance == Spec => []Shape
  BY InitShape, ShapeStep, PTL DEF Spec

-----------------------------------------------------------------------------
(* What the runs may spend.                                                 *)

\* What a run may be beyond its ceiling shrinks by a turn and a batch of tools
\* from a run to its child.
LEMMA BeyondType ==
    ASSUME TypeOK, NEW r \in Runs
    PROVE  /\ Beyond(r) \in Nat /\ Beyond(r) >= MaxTurn
           /\ \A c \in Runs : depth[c] = depth[r] + 1 =>
                 Beyond(r) = Beyond(c) + MaxTurn + MaxTools
  <1>1. MaxTurn \in Nat /\ MaxTools \in Nat /\ MaxDepth \in Nat
    BY TreeAssumption
  <1>2. \A s \in Runs : depth[s] \in Nat /\ depth[s] <= MaxDepth
    BY <1>1 DEF TypeOK
  <1> DEFINE each == MaxTurn + MaxTools
  <1>3. \A n \in Nat : n * each \in Nat
    BY <1>1
  <1>4. \A n \in Nat : (n + 1) * each = n * each + each
    BY <1>1
  <1>5. \A s \in Runs : Beyond(s) = MaxTurn + (MaxDepth - depth[s]) * each
    BY DEF Beyond
  <1> HIDE DEF each
  <1>6. Beyond(r) \in Nat /\ Beyond(r) >= MaxTurn
    <2>1. MaxDepth - depth[r] \in Nat
      BY <1>1, <1>2
    <2>2. (MaxDepth - depth[r]) * each \in Nat
      BY <1>3, <2>1
    <2> QED  BY <1>1, <1>5, <2>2
  <1>7. ASSUME NEW c \in Runs, depth[c] = depth[r] + 1
        PROVE  Beyond(r) = Beyond(c) + each
    <2> DEFINE n == MaxDepth - depth[c]
    <2>1. n \in Nat /\ MaxDepth - depth[r] = n + 1
      BY <1>1, <1>2, <1>7
    <2>2. Beyond(r) = MaxTurn + (n + 1) * each /\ Beyond(c) = MaxTurn + n * each
      BY <1>5, <2>1
    <2> HIDE DEF n
    <2>3. (n + 1) * each = n * each + each /\ n * each \in Nat
      BY <1>3, <1>4, <2>1
    <2>4. each \in Nat
      BY <1>1 DEF each
    <2> QED  BY <1>1, <2>2, <2>3, <2>4
  <1>8. \A c \in Runs : Beyond(c) \in Int
    BY <1>1, <1>2 DEF Beyond
  <1> QED  BY <1>1, <1>6, <1>7, <1>8 DEF each

\* What a run may be beyond its ceiling for where it is.
LEMMA SinceIs ==
    /\ \A where \in At : Since(where) \in Nat /\ Since(where) <= MaxTools + MaxTurn
    /\ Since("act") = 0 /\ Since("wait") = 0
    /\ Since("loop") = MaxTools /\ Since("last") = MaxTools
    /\ Since("done") = MaxTools + MaxTurn
  <1>1. MaxTurn \in Nat /\ MaxTools \in Nat
    BY TreeAssumption
  <1> QED  BY <1>1 DEF Since, At

LEMMA InitSpending == Init => Spending
  <1> SUFFICES ASSUME Init PROVE Spending
    OBVIOUS
  <1>1. 1 \in Runs /\ Exists = {1} /\ Live = {1}
    BY TreeAssumption DEF Init, Exists, Live, Runs
  <1>2. OverrunAt
    BY <1>1, SinceIs, BeyondType, InitShape, TreeAssumption DEF Init, OverrunAt, Shape
  <1> QED  BY <1>1, <1>2, TreeAssumption DEF Init, Spending, CeilingInherited, ChildCarved

LEMMA EndKeepsSpending ==
    ASSUME Shape, Spending, NEW r \in Runs, Ends(r) PROVE Spending'
  <1>1. /\ TypeOK /\ r \in Live /\ Live' = Live \ {r} /\ Exists' = Exists
        /\ UNCHANGED <<parent, depth, ceil, wide>> /\ at' = [at EXCEPT ![r] = "done"]
    BY EndDoes DEF Shape
  <1>2. PICK more \in 0..MaxTurn :
          /\ more # 0 => at[r] = "last"
          /\ \A p \in Runs :
                \/ spent'[p] = spent[p]
                \/ p = parent[r] /\ spent'[p] = spent[p] + spent[r] + more
                \/ p = r /\ spent'[p] = spent[r] + more
    BY <1>1, EndDoes
  <1>3. CeilingInherited'
    BY <1>1 DEF Spending, CeilingInherited
  <1>4. ASSUME ~wide PROVE ChildCarved'
    <2>1. ASSUME NEW c \in Live', parent[c] # 0
          PROVE  /\ parent[c] \in Runs /\ spent'[parent[c]] = spent[parent[c]]
                 /\ \A d \in Live' : parent[d] = parent[c] => d = c
      <3>1. c \in Live /\ c # r /\ parent[c] \in Runs /\ parent[c] # parent[r]
        BY <1>1, <1>4, <2>1 DEF Spending, ChildCarved
      <3>2. parent[c] = r => more = 0
        BY <1>2, <2>1, <3>1 DEF Shape, ParentWaits
      <3>3. spent[r] \in Nat /\ spent[r] + 0 = spent[r]
        BY <1>1 DEF TypeOK
      <3> QED  BY <1>1, <1>2, <1>4, <2>1, <3>1, <3>2, <3>3 DEF Spending, ChildCarved
    <2> QED  BY <1>1, <1>4, <2>1 DEF Spending, ChildCarved
  <1>5. ASSUME ~wide, NEW s \in Exists, ceil[s] # 0
        PROVE  spent'[s] <= ceil[s] + Beyond(s) + Since(at'[s])
    <2>1. /\ s \in Runs /\ s # 0 /\ r \in Exists
          /\ spent[s] \in Nat /\ spent[r] \in Nat /\ ceil[s] \in Nat /\ ceil[r] \in Nat
          /\ MaxTurn \in Nat /\ MaxTools \in Nat /\ more \in Nat /\ more <= MaxTurn
          /\ Beyond(s) \in Nat /\ Beyond(r) \in Nat /\ Since(at'[s]) \in Nat
      <3>1. s \in Runs /\ s # 0 /\ r \in Exists
        BY <1>1, TreeAssumption DEF Exists, Live, Runs
      <3>2. MaxTurn \in Nat /\ MaxTools \in Nat /\ more \in Nat /\ more <= MaxTurn
        BY <1>2, TreeAssumption
      <3> QED  BY <1>1, <3>1, <3>2, BeyondType DEF TypeOK, Since
    <2>2. ASSUME ceil[r] # 0 PROVE spent[r] + more <= ceil[r] + Beyond(r) + MaxTools + MaxTurn
      <3>1. at[r] # "none" /\ at[r] # "done"
        BY <1>1 DEF Live
      <3>2. spent[r] <= ceil[r] + Beyond(r) + Since(at[r])
        BY <1>5, <2>1, <2>2 DEF Spending, OverrunAt
      <3>3. at[r] \in {"loop", "act", "wait", "last"}
        BY <1>1, <3>1 DEF TypeOK
      <3>4. Since(at[r]) \in {0, MaxTools}
        BY <3>3 DEF Since
      <3> QED  BY <2>1, <3>2, <3>4
    <2>6. ceil[r] # 0 => spent[r] <= ceil[r] + Beyond(r) + MaxTools + MaxTurn
      BY <2>1, <2>2
    <2>3. CASE s = parent[r] /\ spent'[s] = spent[s] + spent[r] + more
      <3>1. /\ ceil[r] # 0 /\ spent[s] + ceil[r] <= ceil[s]
            /\ depth[r] = depth[s] + 1
        BY <1>1, <1>5, <2>1, <2>3 DEF Spending, ChildCarved
      <3>2. Beyond(s) = Beyond(r) + MaxTurn + MaxTools
        BY <1>1, <2>1, <3>1, BeyondType
      <3>3. spent'[s] <= ceil[s] + Beyond(s)
        BY <2>1, <2>2, <2>3, <3>1, <3>2
      <3> QED  BY <2>1, <2>3, <3>3
    <2>4. CASE s = r /\ spent'[s] = spent[r] + more
      <3>1. at'[s] = "done"
        BY <1>1, <2>4 DEF TypeOK
      <3> QED  BY <1>5, <2>1, <2>2, <2>4, <3>1, SinceIs
    <2>5. CASE spent'[s] = spent[s]
      <3>1. CASE s = r
        <4>1. at'[s] = "done"
          BY <1>1, <3>1 DEF TypeOK
        <4> QED  BY <1>5, <2>1, <2>5, <2>6, <3>1, <4>1, SinceIs
      <3>2. CASE s # r
        <4>1. at'[s] = at[s]
          BY <1>1, <2>1, <3>2 DEF TypeOK
        <4> QED  BY <1>5, <2>5, <4>1 DEF Spending, OverrunAt
      <3> QED  BY <3>1, <3>2
    <2> QED  BY <1>2, <2>1, <2>3, <2>4, <2>5
  <1>6. ASSUME ~wide PROVE OverrunAt'
    BY <1>1, <1>5, <1>6 DEF OverrunAt, Since, Beyond
  <1> QED  BY <1>1, <1>3, <1>4, <1>6 DEF Spending

LEMMA SpendKeepsSpending ==
    ASSUME Shape, Spending, NEW r \in Runs, Spends(r) PROVE Spending'
  <1>1. /\ TypeOK /\ at[r] \in {"loop", "act"}
        /\ UNCHANGED <<parent, depth, ceil, wide, pending, cancelled>>
        /\ Live' = Live /\ Exists' = Exists
        /\ at' = [at EXCEPT ![r] = IF at[r] = "loop" THEN "act" ELSE "loop"]
    BY SpendDoes DEF Shape
  <1>2. PICK t \in Nat :
          /\ IF at[r] = "loop" THEN ~Exceeded(r) /\ t <= MaxTurn ELSE t <= MaxTools
          /\ spent' = [spent EXCEPT ![r] = @ + t]
    BY <1>1, SpendDoes
  <1>3. CeilingInherited'
    BY <1>1 DEF Spending, CeilingInherited
  <1>4. \A c \in Live : parent[c] # r
    BY <1>1, TreeAssumption DEF Shape, ParentWaits, Runs
  <1>5. ASSUME ~wide PROVE ChildCarved'
    BY <1>1, <1>2, <1>4, <1>5 DEF Spending, ChildCarved, TypeOK
  <1>6. ASSUME ~wide, NEW s \in Exists, ceil[s] # 0
        PROVE  spent'[s] <= ceil[s] + Beyond(s) + Since(at'[s])
    <2>1. /\ s \in Runs /\ spent[s] \in Nat /\ ceil[s] \in Nat
          /\ MaxTurn \in Nat /\ MaxTools \in Nat
          /\ Beyond(s) \in Nat /\ Beyond(s) >= MaxTurn
      BY <1>1, TreeAssumption, BeyondType DEF TypeOK, Exists
    <2>2. CASE s = r
      <3>1. spent'[r] = spent[r] + t
        BY <1>1, <1>2 DEF TypeOK
      <3>2. CASE at[r] = "loop"
        <4>1. spent[r] <= ceil[r] /\ t <= MaxTurn
          BY <1>2, <1>6, <2>1, <2>2, <3>2 DEF Exceeded
        <4>2. at'[r] = "act"
          BY <1>1, <3>2 DEF TypeOK
        <4> QED  BY <1>2, <2>1, <2>2, <3>1, <4>1, <4>2, SinceIs
      <3>3. CASE at[r] = "act"
        <4>1. spent[r] <= ceil[r] + Beyond(r)
          BY <1>6, <2>1, <2>2, <3>3, SinceIs DEF Spending, OverrunAt
        <4>2. at'[r] = "loop" /\ t <= MaxTools
          BY <1>1, <1>2, <3>3 DEF TypeOK
        <4> QED  BY <1>2, <2>1, <2>2, <3>1, <4>1, <4>2, SinceIs
      <3> QED  BY <1>1, <3>2, <3>3
    <2>3. CASE s # r
      <3>1. spent'[s] = spent[s] /\ at'[s] = at[s]
        BY <1>1, <1>2, <2>1, <2>3 DEF TypeOK
      <3> QED  BY <1>6, <3>1 DEF Spending, OverrunAt
    <2> QED  BY <2>2, <2>3
  <1>7. ASSUME ~wide PROVE OverrunAt'
    BY <1>1, <1>6, <1>7 DEF OverrunAt, Since, Beyond
  <1> QED  BY <1>1, <1>3, <1>5, <1>7 DEF Spending

LEMMA SpawnKeepsSpending ==
    ASSUME 0 \notin Requests, Shape, Spending, NEW r \in Runs, Spawn(r)
    PROVE  Spending'
  <1>1. /\ TypeOK /\ at[r] = "act" /\ MaySpawn(r) /\ r \in Live /\ spent' = spent
    BY SpawnDoes DEF Shape
  <1>2. PICK n \in 1..MaxBatch, k \in Runs :
          /\ Exists = 1..k /\ Exists' = 1..(k + n) /\ k + n \in Runs
          /\ Live' = Live \cup (k + 1 .. k + n)
          /\ wide' = (wide \/ n > 1)
          /\ \A s \in k + 1 .. k + n :
                /\ s \in Runs /\ s \notin Exists
                /\ at'[s] = "loop" /\ parent'[s] = r /\ ceil'[s] \in ChildCeilings(r)
                /\ depth'[s] = depth[r] + 1
          /\ \A s \in Runs \ (k + 1 .. k + n) :
                /\ at'[s] = IF s = r THEN "wait" ELSE at[s]
                /\ parent'[s] = parent[s] /\ ceil'[s] = ceil[s] /\ depth'[s] = depth[s]
    BY <1>1, SpawnDoes
  <1> DEFINE new == k + 1 .. k + n
  <1>3. /\ Live' = Live \cup new
        /\ Exists' = Exists \cup new
        /\ ~wide' => ~wide /\ \A s, t \in new : s = t
        /\ \A s \in new :
              /\ s \in Runs /\ s \notin Exists
              /\ at'[s] = "loop" /\ parent'[s] = r /\ ceil'[s] \in ChildCeilings(r)
              /\ depth'[s] = depth[r] + 1
        /\ \A s \in Runs \ new :
              /\ at'[s] = IF s = r THEN "wait" ELSE at[s]
              /\ parent'[s] = parent[s] /\ ceil'[s] = ceil[s] /\ depth'[s] = depth[s]
    <2>1. k \in Nat /\ n \in Nat /\ n >= 1
      BY TreeAssumption DEF Runs
    <2>2. 1 .. k + n = (1..k) \cup new
      BY <2>1
    <2>3. n = 1 => \A s, t \in new : s = t
      BY <2>1
    <2>4. ~wide' => ~wide /\ n = 1
      <3>1. ~wide' => ~wide /\ ~(n > 1)
        BY <1>2, Zenon
      <3> QED  BY <2>1, <3>1
    <2> QED  BY <1>2, <2>2, <2>3, <2>4
  <1> HIDE DEF new
  <1>4. /\ Live \subseteq Exists /\ r \notin new /\ r \in Exists /\ Exists \subseteq Runs
        /\ \A c \in Live : c \notin new
    BY <1>1, <1>3 DEF Live, Exists
  <1>5. \A c \in Live : parent[c] # r
    BY <1>1, TreeAssumption DEF Shape, ParentWaits, Runs
  <1>6. ASSUME NEW s \in new, ceil[r] # 0
        PROVE  ceil'[s] # 0 /\ spent[r] + ceil'[s] <= ceil[r]
    BY <1>1, <1>3, <1>6, ChildCeilingBounds
  <1>7. CeilingInherited'
    BY <1>3, <1>4, <1>6 DEF Spending, CeilingInherited
  <1>8. ASSUME ~wide' PROVE ChildCarved'
    <2> SUFFICES ASSUME NEW c \in Live \cup new, parent'[c] # 0
                 PROVE  LET p == parent'[c]
                        IN  /\ p # c /\ p \in Runs
                            /\ depth'[c] = depth'[p] + 1
                            /\ \A d \in Live \cup new : parent'[d] = p => d = c
                            /\ ceil'[p] # 0 => ceil'[c] # 0 /\ spent'[p] + ceil'[c] <= ceil'[p]
      BY <1>3 DEF ChildCarved
    <2>1. CASE c \in new
      <3>1. /\ parent'[c] = r /\ ceil'[r] = ceil[r] /\ r # c
            /\ depth'[c] = depth[r] + 1 /\ depth'[r] = depth[r]
        BY <1>3, <1>4, <2>1
      <3>2. \A d \in Live \cup new : parent'[d] = r => d = c
        BY <1>3, <1>4, <1>5, <1>8, <2>1
      <3> QED  BY <1>1, <1>6, <2>1, <3>1, <3>2
    <2>2. CASE c \notin new
      <3>1. /\ c \in Live /\ parent'[c] = parent[c] /\ ceil'[c] = ceil[c] /\ parent[c] # r
            /\ depth'[c] = depth[c]
        BY <1>3, <1>4, <1>5, <2>2
      <3>2. parent[c] \in Exists
        BY <3>1, ParentExists
      <3>3. ceil'[parent[c]] = ceil[parent[c]] /\ depth'[parent[c]] = depth[parent[c]]
        BY <1>3, <1>4, <3>2
      <3>4. ~wide
        BY <1>3, <1>8
      <3>5. \A d \in Live \cup new : parent'[d] = parent[c] => d = c
        BY <1>3, <1>4, <3>1, <3>4 DEF Spending, ChildCarved
      <3> QED  BY <1>1, <3>1, <3>3, <3>4, <3>5 DEF Spending, ChildCarved
    <2> QED  BY <2>1, <2>2
  <1>9. ASSUME ~wide' PROVE OverrunAt'
    <2>1. TypeOK' /\ ~wide /\ MaxTurn \in Nat /\ MaxTools \in Nat
      BY <1>3, <1>9, SpawnKeepsShape, TreeAssumption DEF Shape
    <2>2. \A s \in Runs \ new : Beyond(s)' = Beyond(s)
      BY <1>3 DEF Beyond
    <2>3. ASSUME NEW s \in Runs PROVE Beyond(s)' \in Nat
      <3>1. depth'[s] \in 0..MaxDepth
        BY <2>1 DEF TypeOK
      <3> QED  BY <2>1, <3>1, TreeAssumption DEF Beyond
    <2> SUFFICES ASSUME NEW s \in Exists \cup new, ceil'[s] # 0
                 PROVE  spent[s] <= ceil'[s] + Beyond(s)' + Since(at'[s])
      BY <1>1, <1>3 DEF OverrunAt, Since
    <2>4. CASE s \in new
      <3>1. spent[s] = 0 /\ ceil'[s] \in Nat /\ at'[s] = "loop" /\ s \in Runs
        BY <1>1, <1>3, <2>4, ChildCeilingBounds DEF Shape, Numbered
      <3> QED  BY <2>1, <2>3, <3>1, SinceIs
    <2>5. CASE s \notin new
      <3>1. s \in Exists /\ s \in Runs /\ ceil'[s] = ceil[s] /\ Beyond(s)' = Beyond(s)
        BY <1>3, <1>4, <2>2, <2>5
      <3>2. CASE s = r
        BY <1>1, <1>3, <1>4, <2>1, <3>1, <3>2, SinceIs DEF Spending, OverrunAt
      <3>3. CASE s # r
        BY <1>3, <2>1, <2>5, <3>1, <3>3 DEF Spending, OverrunAt
      <3> QED  BY <3>2, <3>3
    <2> QED  BY <2>4, <2>5
  <1> QED  BY <1>7, <1>8, <1>9 DEF Spending

LEMMA SpendingStep ==
    ASSUME 0 \notin Requests
    PROVE  Shape /\ Spending /\ [Next]_vars => Spending'
  <1> SUFFICES ASSUME Shape, Spending, [Next]_vars PROVE Spending'
    OBVIOUS
  <1>1. CASE UNCHANGED vars
    BY <1>1 DEF vars, Spending, CeilingInherited, ChildCarved, OverrunAt, Since, Beyond, Exists, Live
  <1>2. ASSUME Cancel \/ \E r \in Runs : LastTurn(r) \/ Resume(r)
        PROVE  Spending'
    <2>1. TypeOK /\ Moves /\ Exists' = Exists
      BY <1>2, Movers DEF Shape, Moves, Exists
    <2>2. CeilingInherited' /\ (~wide' => ChildCarved')
      BY <2>1 DEF Moves, Spending, CeilingInherited, ChildCarved
    <2>3. ASSUME ~wide' PROVE OverrunAt'
      <3>1. \A s \in Exists : \/ at'[s] = at[s]
                              \/ at[s] = "loop" /\ at'[s] = "last"
                              \/ at[s] = "wait" /\ at'[s] = "act"
        <4>1. CASE Cancel
          BY <4>1 DEF Cancel
        <4>2. ASSUME NEW r \in Runs, LastTurn(r) \/ Resume(r)
              PROVE  \A s \in Exists : \/ at'[s] = at[s]
                                       \/ at[s] = "loop" /\ at'[s] = "last"
                                       \/ at[s] = "wait" /\ at'[s] = "act"
          BY <2>1, <4>2 DEF LastTurn, Resume, TypeOK, Exists
        <4> QED  BY <1>2, <4>1, <4>2
      <3>2. /\ OverrunAt /\ UNCHANGED <<ceil, spent>>
            /\ \A s \in Runs : Beyond(s)' = Beyond(s)
        BY <2>1, <2>3 DEF Moves, Spending, Beyond
      <3>3. Exists \subseteq Runs
        BY DEF Exists
      <3>4. ASSUME NEW s \in Exists, ceil[s] # 0
            PROVE  spent[s] <= ceil[s] + Beyond(s) + Since(at'[s])
        <4>1. Since(at'[s]) = Since(at[s])
          BY <3>1, <3>4, SinceIs
        <4> QED  BY <3>2, <3>4, <4>1 DEF OverrunAt
      <3> QED  BY <2>1, <3>2, <3>3, <3>4 DEF OverrunAt, Since
    <2> QED  BY <2>2, <2>3 DEF Spending
  <1> QED  BY <1>1, <1>2, StepCases, EndKeepsSpending, SpendKeepsSpending,
              SpawnKeepsSpending DEF Next

-----------------------------------------------------------------------------
(* The theorems.                                                            *)

\* The variables keep their types, in particular the nesting depth its cap.
THEOREM TypeCorrect == Spec => []TypeOK
  <1>1. Shape => TypeOK
    BY DEF Shape
  <1> QED  BY <1>1, ShapeInvariance, PTL

\* Every reachable state satisfies Shape and Spending.
THEOREM SpendingInvariance ==
    ASSUME 0 \notin Requests PROVE Spec => [](Shape /\ Spending)
  <1>1. Init => Shape /\ Spending
    BY InitShape, InitSpending
  <1>2. (Shape /\ Spending) /\ [Next]_vars => (Shape /\ Spending)'
    BY ShapeStep, SpendingStep
  <1> QED  BY <1>1, <1>2, PTL DEF Spec

\* No descendant of a bounded run is without a ceiling, however deep and
\* whatever it asked for, as long as it did not ask for 0.
THEOREM CeilingsInherited ==
    ASSUME 0 \notin Requests PROVE Spec => []CeilingInherited
  <1>1. Spending => CeilingInherited
    BY DEF Spending
  <1> QED  BY <1>1, SpendingInvariance, PTL

\* A run and everything below it outspend its ceiling by two turns and a batch of
\* tools at most, and a turn and a batch more for each level below, as long as
\* children are spawned one at a time.
THEOREM OverrunIsBounded ==
    ASSUME 0 \notin Requests PROVE Spec => []OverrunBounded
  <1>1. Shape /\ Spending => OverrunBounded
    <2> SUFFICES ASSUME Shape, Spending, NEW r \in Exists, ~wide, ceil[r] # 0
                 PROVE  spent[r] <= ceil[r] + Beyond(r) + MaxTools + MaxTurn
      BY DEF OverrunBounded
    <2>1. /\ r \in Runs /\ Beyond(r) \in Nat /\ MaxTools \in Nat /\ MaxTurn \in Nat
          /\ spent[r] \in Nat /\ ceil[r] \in Nat
      BY BeyondType, TreeAssumption DEF Shape, TypeOK, Exists
    <2>2. at[r] \in At
      BY <2>1 DEF Shape, TypeOK, At
    <2>3. Since(at[r]) \in Nat /\ Since(at[r]) <= MaxTools + MaxTurn
      BY <2>2, SinceIs
    <2>4. spent[r] <= ceil[r] + Beyond(r) + Since(at[r])
      BY DEF Spending, OverrunAt
    <2> QED  BY <2>1, <2>3, <2>4
  <1> QED  BY <1>1, SpendingInvariance, PTL

\* After a cancellation nothing in the tree is spent or spawned.
THEOREM CancelledTreeIsStill == Spec => CancelStops
  <1>1. Shape /\ [Next]_vars => [cancelled => own' = own /\ Exists' = Exists]_vars
    <2> SUFFICES ASSUME Shape, Next, cancelled PROVE own' = own /\ Exists' = Exists
      BY DEF vars
    <2>1. TypeOK
      BY DEF Shape
    <2>2. CASE Cancel \/ \E r \in Runs : LastTurn(r) \/ Resume(r)
      BY <2>1, <2>2, Movers DEF Moves, Exists
    <2>3. ASSUME NEW r \in Runs, Ends(r) PROVE own' = own /\ Exists' = Exists
      <3>1. /\ Exists' = Exists /\ r \in Live
            /\ \E more \in 0..MaxTurn : /\ more # 0 => at[r] = "last" /\ r \notin pending
                                       /\ own' = [own EXCEPT ![r] = @ + more]
        BY <2>1, <2>3, EndDoes
      <3>2. own' = [own EXCEPT ![r] = @ + 0]
        BY <3>1 DEF Shape, CancelReaches
      <3> QED  BY <2>1, <3>1, <3>2 DEF TypeOK
    <2>4. ASSUME NEW r \in Runs, Spends(r) \/ Spawn(r) PROVE FALSE
      BY <2>4 DEF Spends, Turn, GoOn, Spawn, Shape, CancelReaches, Live
    <2> QED  BY <2>2, <2>3, <2>4, StepCases DEF Next
  <1> QED  BY <1>1, ShapeInvariance, PTL DEF Spec, CancelStops
=============================================================================
