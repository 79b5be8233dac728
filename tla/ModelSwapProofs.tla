-------------------------- MODULE ModelSwapProofs ---------------------------
(***************************************************************************)
(* Proofs about model swaps.                                                *)
(*                                                                          *)
(* Typed: TypeOK and the shape of the stacks.  BrainKept: in a restore no   *)
(* call is about to stop the brain.  OneSwap, for delegations one after     *)
(* the other: a preset that was live at the beginning is safe or owed by a  *)
(* call of the delegation, and what that takes: the cache of live_slot is   *)
(* right or about to be forgotten, no two live servers share a port, so a   *)
(* record of a slot brings back what was on it.                             *)
(*                                                                          *)
(* The last section is about one slot of the process manager, the instance  *)
(* Slot of ServerSlot, where no start_one overlaps a stop_one.  Whatever    *)
(* its run loop does, it ends or goes on to an await; EndsKeeps,            *)
(* GoesOnKeeps and RetryKeeps say when that keeps the invariant.            *)
(***************************************************************************)
EXTENDS ModelSwap, ServerSlot, FiniteSetTheorems, SequenceTheorems, WellFoundedInduction, TLAPS

-----------------------------------------------------------------------------
(* Sequences.                                                               *)

\* A set that has 0 and, below n, the successor of each of its members has all
\* of 0..n: the induction that Kept needs.
LEMMA Reaches ==
    ASSUME NEW n \in Nat, NEW W, 0 \in W,
           \A k \in 0..n : k \in W /\ k < n => k + 1 \in W
    PROVE  0..n \subseteq W
<1> DEFINE R == OpToRel(<, Nat)
           Bad == (0..n) \ W
<1> SUFFICES ASSUME Bad # {} PROVE FALSE
  OBVIOUS
<1>1. Bad \subseteq Nat /\ \A k \in Bad : k \in Nat /\ k <= n /\ k \notin W
  OBVIOUS
<1>2. PICK k \in Bad : \A j \in Bad : <<j, k>> \notin R
  <2>1. IsWellFoundedOn(R, Nat)
    BY NatLessThanWellFounded
  <2> HIDE DEF R, Bad
  <2> QED  BY <1>1, <2>1, WFMin
<1>3. k \in Nat /\ k <= n /\ k \notin W /\ k # 0
  BY <1>1, <1>2
<1>4. k - 1 \in 0..n /\ k - 1 < n /\ (k - 1) + 1 = k
  BY <1>3
<1>5. k - 1 \in Bad
  BY <1>3, <1>4
<1>6. <<k - 1, k>> \in R
  BY <1>3, <1>4 DEF OpToRel
<1> QED  BY <1>2, <1>5, <1>6

\* What Kept leaves of a sequence over S is a sequence over the members of S
\* in T.
LEMMA KeptIn ==
    ASSUME NEW S, NEW s \in Seq(S), NEW T
    PROVE  Kept(s, T) \in Seq(S \cap T)
<1> DEFINE n == Len(s)
           U == S \cap T
           E(F, i) == IF i = 0 THEN <<>>
                      ELSE IF s[i] \in T THEN Append(F[i - 1], s[i]) ELSE F[i - 1]
           Good(k) == {f \in [0..k -> Seq(U)] : \A i \in 0..k : f[i] = E(f, i)}
           W == {k \in 0..n : Good(k) # {}}
<1>1. n \in Nat /\ \A i \in 1..n : s[i] \in S
  OBVIOUS
<1>2. 0 \in W
  <2>1. [i \in 0..0 |-> <<>>] \in Good(0)
    OBVIOUS
  <2>2. Good(0) # {}
    BY <2>1
  <2> HIDE DEF Good
  <2> QED  BY <2>2, <1>1
<1>3. ASSUME NEW k \in 0..n, k \in W, k < n
      PROVE  k + 1 \in W
  <2>1. PICK f \in Good(k) : TRUE
    BY <1>3
  <2> DEFINE g == [i \in 0..(k + 1) |-> IF i <= k THEN f[i] ELSE E(f, k + 1)]
  <2>2. k \in Nat /\ k + 1 \in 1..n /\ s[k + 1] \in S
    <3> HIDE DEF Good, W, E, n, U
    <3>1. k \in Nat /\ k + 1 \in 1..n
      BY <1>1, <1>3
    <3> QED  BY <1>1, <3>1
  <2>3. E(f, k + 1) \in Seq(U)
    <3>1. f[k] \in Seq(U)
      BY <2>1
    <3>2. CASE s[k + 1] \in T
      BY <3>1, <3>2, <2>2, <1>1
    <3>3. CASE s[k + 1] \notin T
      BY <3>1, <3>3, <1>1
    <3> QED  BY <3>2, <3>3
  <2>4. g \in [0..(k + 1) -> Seq(U)]
    BY <2>1, <2>3
  <2>5. ASSUME NEW i \in 0..(k + 1) PROVE g[i] = E(g, i)
    <3>1. CASE i <= k
      <4>1. f[i] = E(f, i)
        <5> HIDE DEF E
        <5>1. i \in 0..k
          BY <2>2, <3>1
        <5> QED  BY <2>1, <5>1
      <4>2. i # 0 => g[i - 1] = f[i - 1]
        BY <3>1, <1>1
      <4> QED  BY <4>1, <4>2, <3>1
    <3>2. CASE i = k + 1
      <4>1. g[i - 1] = f[k]
        BY <3>2, <1>1
      <4> QED  BY <4>1, <3>2, <1>1
    <3> QED  BY <3>1, <3>2, <1>1
  <2> HIDE DEF g
  <2>6. g \in Good(k + 1)
    BY <2>4, <2>5
  <2>7. k + 1 \in 0..n
    <3> HIDE DEF Good, E, n, U
    <3> QED  BY <1>1, <2>2
  <2>8. Good(k + 1) # {}
    BY <2>6
  <2> HIDE DEF Good
  <2> QED  BY <2>7, <2>8
<1>4. n \in W
  <2> HIDE DEF W
  <2>1. 0..n \subseteq W
    BY <1>1, <1>2, <1>3, Reaches
  <2> QED  BY <2>1, <1>1
<1> DEFINE F == CHOOSE f : f = [i \in 0..n |-> E(f, i)]
<1>5. F = [i \in 0..n |-> E(F, i)]
  <2>1. PICK f \in Good(n) : TRUE
    BY <1>4
  <2>2. f = [i \in 0..n |-> E(f, i)]
    BY <2>1
  <2> HIDE DEF E
  <2> QED  BY <2>2
<1> HIDE DEF F
<1> DEFINE V == {k \in 0..n : F[k] \in Seq(U)}
<1>6. 0 \in V
  BY <1>5, <1>1
<1>7. ASSUME NEW k \in 0..n, k \in V, k < n PROVE k + 1 \in V
  <2>1. k \in Nat /\ k + 1 \in 1..n /\ k + 1 \in 0..n /\ k + 1 # 0 /\ (k + 1) - 1 = k
    <3> HIDE DEF E, n, U, V
    <3> QED  BY <1>1, <1>7
  <2>2. F[k] \in Seq(U)
    BY <1>7
  <2>3. F[k + 1] = E(F, k + 1)
    <3> HIDE DEF E
    <3> QED  BY <1>5, <2>1
  <2>4. s[k + 1] \in S
    BY <1>1, <2>1
  <2>5. F[k + 1] = IF s[k + 1] \in T THEN Append(F[k], s[k + 1]) ELSE F[k]
    BY <2>1, <2>3
  <2>6. F[k + 1] \in Seq(U)
    <3> HIDE DEF n, E
    <3>1. CASE s[k + 1] \in T
      BY <2>2, <2>4, <2>5, <3>1
    <3> QED  BY <2>2, <2>5, <3>1
  <2> QED  BY <2>1, <2>6
<1>8. F[n] \in Seq(U)
  <2> HIDE DEF V
  <2>1. 0..n \subseteq V
    BY <1>1, <1>6, <1>7, Reaches
  <2> QED  BY <2>1, <1>1 DEF V
<1>9. Kept(s, T) = F[n]
  BY DEF Kept, F
<1> QED  BY <1>8, <1>9

\* The sequence that lists a finite set is over that set.
LEMMA SetToSeqIn ==
    ASSUME NEW S, IsFiniteSet(S)
    PROVE  SetToSeq(S) \in Seq(S)
<1>1. PICK f : f \in Bijection(1..Cardinality(S), S)
  <2>1. ExistsBijection(1..Cardinality(S), S)
    BY FS_CardinalityType
  <2> QED  BY <2>1 DEF ExistsBijection
<1>2. f \in [1..Cardinality(S) -> S] /\ IsInjective(f)
  BY <1>1 DEF Bijection, Injection, IsInjective
<1>3. SetToSeq(S) \in [1..Cardinality(S) -> S]
  BY <1>2 DEF SetToSeq
<1> QED  BY <1>3, FS_CardinalityType

-----------------------------------------------------------------------------
(* Records, plans and calls.                                                *)

\* A sequence over A is one over any larger set, and its elements are in A.
LEMMA Elements ==
    ASSUME NEW A, NEW B, A \subseteq B, NEW q \in Seq(A)
    PROVE  q \in Seq(B) /\ \A k \in DOMAIN q : q[k] \in A
<1>1. q \in [1..Len(q) -> A] /\ Len(q) \in Nat
  OBVIOUS
<1>2. q \in [1..Len(q) -> B]
  BY <1>1
<1> QED  BY <1>1, <1>2

\* The constructors of eviction records, and what each kind of record carries;
\* a record of the serve registry is never of a slot's own preset.
LEMMA Recs ==
    /\ \A x \in Models : ServeRec(x) \in ServeRecs
    /\ \A s \in SlotSet, m \in Models \cup {NoModel} : SlotRec(s, m) \in SlotRecs
    /\ \A r \in SlotRecs : r.kind = "slot" /\ r.slot \in SlotSet
                           /\ r.preset \in Models \cup {NoModel}
    /\ \A r \in ServeRecs : r.kind = "serve" /\ r.slot = NoModel /\ r.preset \in Models
                            /\ ~OwnPreset(r)
  BY DEF ServeRec, SlotRec, ServeRecs, SlotRecs, OwnPreset

\* What is live are presets.
LEMMA LiveTyped ==
    ASSUME TypeOK PROVE Live \subseteq Models
  BY SwapAssumption DEF TypeOK, Live

\* live_slot: without an entry of the cache it names a preset that is live on
\* the slot's port or nothing, with one it names that.
LEMMA LiveSlotTyped ==
    ASSUME TypeOK, NEW s \in SlotSet
    PROVE  /\ LiveSlot(s) \in Models \cup {NoModel}
           /\ cache[s] = Unset =>
                 \/ LiveSlot(s) = NoModel
                 \/ Port[LiveSlot(s)] = Port[Assigned[s]] /\ LiveSlot(s) \in Live
           /\ cache[s] # Unset => LiveSlot(s) = cache[s]
<1>1. cache[s] \in Models \cup {NoModel, Unset}
  BY DEF TypeOK
<1>2. OnSlot(s) = NoModel \/ /\ OnSlot(s) \in Models
                             /\ Port[OnSlot(s)] = Port[Assigned[s]] /\ OnSlot(s) \in Live
  BY DEF OnSlot, Answering
<1> QED  BY <1>1, <1>2 DEF LiveSlot

\* The records a plan may have.
PlanRecs(brain) ==
    {ServeRec(x) : x \in served}
    \cup {SlotRec(s, LiveSlot(s)) : s \in {t \in SlotSet : MayStop(t, brain)}}

\* plan_eviction names servers of the registry and slots that may be stopped.
LEMMA PlanIn ==
    ASSUME TypeOK, NEW m \in Models, NEW brain \in BOOLEAN
    PROVE  /\ Plan(m, brain) \in Seq(PlanRecs(brain))
           /\ PlanRecs(brain) \subseteq Records
<1>1. PlanRecs(brain) \subseteq Records
  BY Recs, LiveSlotTyped DEF PlanRecs, Records, TypeOK
<1> DEFINE X == {x \in served : Conflict(m, x)}
           T == {s \in SlotSet : MayStop(s, brain) /\ Conflict(m, Assigned[s])}
<1>2. Mapped(ServeRec, SetToSeq(X)) \in Seq(PlanRecs(brain))
  <2>1. IsFiniteSet(X)
    BY SwapAssumption, FS_Subset DEF TypeOK
  <2> DEFINE z == SetToSeq(X)
  <2>2. z \in Seq(X)
    BY <2>1, SetToSeqIn
  <2>3. Len(z) \in Nat /\ \A i \in 1..Len(z) : z[i] \in served
    <3>1. X \subseteq served
      OBVIOUS
    <3> HIDE DEF X, z
    <3>2. z \in Seq(served)
      BY <2>2, <3>1, Elements
    <3> QED  BY <3>2
  <2> HIDE DEF z
  <2>4. \A i \in 1..Len(z) : ServeRec(z[i]) \in PlanRecs(brain)
    BY <2>3 DEF PlanRecs
  <2>5. [i \in 1..Len(z) |-> ServeRec(z[i])] \in Seq(PlanRecs(brain))
    BY <2>3, <2>4
  <2> QED  BY <2>5 DEF Mapped, z
<1> DEFINE q == PlannedSlots(m, brain)
<1>3. q \in Seq({t \in SlotSet : MayStop(t, brain)})
  <2>1. Slots \in Seq(SlotSet)
    BY SwapAssumption
  <2>2. q \in Seq(SlotSet \cap T)
    BY <2>1, KeptIn DEF PlannedSlots
  <2> QED  BY <2>2
<1>4. [i \in 1..Len(q) |-> LET s == q[i] IN SlotRec(s, LiveSlot(s))]
        \in Seq(PlanRecs(brain))
  BY <1>3 DEF PlanRecs
<1> QED  BY <1>1, <1>2, <1>4 DEF Plan

\* What restore_evicted stops before it starts a slot never has the brain.
LEMMA LeftoversIn ==
    ASSUME TypeOK, NEW rec \in SlotRecs
    PROVE  /\ Leftovers(rec) \in Seq(Records)
           /\ \A k \in DOMAIN Leftovers(rec) : Leftovers(rec)[k].slot # Brain
<1>1. Plan(Assigned[rec.slot], FALSE) \in Seq(PlanRecs(FALSE))
      /\ PlanRecs(FALSE) \subseteq Records
  BY PlanIn, SwapAssumption, Recs
<1>2. Leftovers(rec) \in Seq(PlanRecs(FALSE))
  <2>1. Leftovers(rec) \in Seq(PlanRecs(FALSE) \cap {r \in Records : r.slot # rec.slot})
    BY <1>1, KeptIn DEF Leftovers
  <2> QED  BY <2>1, Elements
<1>3. \A r \in PlanRecs(FALSE) : r.slot # Brain
  BY SwapAssumption DEF PlanRecs, MayStop, ServeRec, SlotRec
<1>4. \A k \in DOMAIN Leftovers(rec) : Leftovers(rec)[k] \in PlanRecs(FALSE)
  BY <1>2, Elements
<1> QED  BY <1>1, <1>2, <1>3, <1>4, Elements

\* Nor has the plan of a model.use that may not stop the brain.
LEMMA PlanSpares ==
    ASSUME TypeOK, NEW m \in Models
    PROVE  \A k \in DOMAIN Plan(m, FALSE) : Plan(m, FALSE)[k].slot # Brain
<1>1. Plan(m, FALSE) \in Seq(PlanRecs(FALSE))
  BY PlanIn
<1>2. \A r \in PlanRecs(FALSE) : r.slot # Brain
  BY SwapAssumption DEF PlanRecs, MayStop, ServeRec, SlotRec
<1> QED  BY <1>1, <1>2, Elements

\* The constructors of calls.
LEMMA CallsTyped ==
    /\ \A op \in Ops : Call(op) \in Calls
    /\ \A m \in Models, b \in BOOLEAN : Use(m, b) \in Calls
    /\ \A m \in Models, h \in BOOLEAN, q \in Seq(Records) : Load(m, h, q) \in Calls
    /\ \A q \in Seq(Records) : Restore(q) \in Calls
    /\ \A r \in Records, q \in Seq(Records) : StartSlot(r, q) \in Calls
    /\ \A r \in Records : Wait(r) \in Calls /\ Note(r) \in Calls
<1>1. <<>> \in Seq(Records) /\ NoRec \in Records \cup {NoRec}
  OBVIOUS
<1>2. \A op \in Ops : Call(op) \in Calls
  BY <1>1 DEF Call, Calls
<1>3. \A m \in Models, b \in BOOLEAN : Use(m, b) \in Calls
  BY <1>1 DEF Use, Calls, Call, Ops
<1>4. \A m \in Models, h \in BOOLEAN, q \in Seq(Records) : Load(m, h, q) \in Calls
  BY <1>1 DEF Load, Calls, Call, Ops
<1>5. \A q \in Seq(Records) : Restore(q) \in Calls
  BY <1>1 DEF Restore, Calls, Call, Ops
<1>6. \A r \in Records, q \in Seq(Records) : StartSlot(r, q) \in Calls
  BY <1>1 DEF StartSlot, Calls, Call, Ops
<1>7. \A r \in Records : Wait(r) \in Calls /\ Note(r) \in Calls
  BY <1>1 DEF Wait, Note, Calls, Call, Ops
<1> QED  BY <1>2, <1>3, <1>4, <1>5, <1>6, <1>7

\* And what their fields are.
LEMMA Fields ==
    ASSUME NEW m, NEW b, NEW q, NEW r
    PROVE  /\ Use(m, b) = [Call("use") EXCEPT !.m = m, !.brain = b]
           /\ Use(m, b).op = "use" /\ Use(m, b).m = m /\ Use(m, b).brain = b
           /\ Use(m, b).got = <<>>
           /\ Load(m, b, q).op = "load" /\ Load(m, b, q).m = m /\ Load(m, b, q).recs = q
           /\ Load(m, b, q).got = <<>>
           /\ Restore(q).op = "restore" /\ Restore(q).recs = q /\ Restore(q).got = <<>>
           /\ StartSlot(r, q).op = "start" /\ StartSlot(r, q).rec = r
           /\ StartSlot(r, q).recs = q /\ StartSlot(r, q).got = <<>>
           /\ Wait(r).op = "wait" /\ Wait(r).rec = r /\ Wait(r).got = <<>>
           /\ Note(r).op = "note" /\ Note(r).rec = r /\ Note(r).got = <<>>
           /\ \A op : Call(op).op = op /\ Call(op).got = <<>> /\ Call(op).recs = <<>>
  BY DEF Use, Load, Restore, StartSlot, Wait, Note, Call

\* What restoring a record, and a list of them, brings back.
Promised(rec) == IF OwnPreset(rec) THEN Assigned[rec.slot] ELSE rec.preset
Promises(recs) == {Promised(recs[k]) : k \in DOMAIN recs}

\* restore_evicted goes through all the records it is given, and no others.
LEMMA RestoresIs ==
    ASSUME NEW recs \in Seq(Records)
    PROVE  /\ recs = <<>> => Restores(recs) = <<>>
           /\ recs # <<>> => Restores(recs) = <<Restore(Reverse(recs))>>
           /\ Reverse(recs) \in Seq(Records)
           /\ Promises(Reverse(recs)) = Promises(recs)
           /\ \A k \in DOMAIN Reverse(recs) :
                 \E j \in DOMAIN recs : Reverse(recs)[k] = recs[j]
<1>1. Reverse(recs) \in Seq(Records) /\ Len(Reverse(recs)) = Len(recs)
      /\ \A i \in 1..Len(recs) : Reverse(recs)[i] = recs[(Len(recs) - i) + 1]
  BY DEF Reverse
<1>2. \A i \in 1..Len(recs) : /\ (Len(recs) - i) + 1 \in 1..Len(recs)
                              /\ recs[i] = Reverse(recs)[(Len(recs) - i) + 1]
  <2>1. ASSUME NEW n \in Nat, NEW i \in 1..n
        PROVE  (n - i) + 1 \in 1..n /\ (n - ((n - i) + 1)) + 1 = i
    OBVIOUS
  <2>2. Len(recs) \in Nat
    OBVIOUS
  <2> QED  BY <1>1, <2>1, <2>2
<1>3. DOMAIN recs = 1..Len(recs) /\ DOMAIN Reverse(recs) = 1..Len(recs)
  BY <1>1
<1>4. Promises(Reverse(recs)) = Promises(recs)
  <2>1. ASSUME NEW x \in Promises(recs) PROVE x \in Promises(Reverse(recs))
    BY <1>1, <1>2, <1>3 DEF Promises
  <2>2. ASSUME NEW x \in Promises(Reverse(recs)) PROVE x \in Promises(recs)
    BY <1>1, <1>2, <1>3 DEF Promises
  <2> QED  BY <2>1, <2>2
<1>5. \A k \in DOMAIN Reverse(recs) : \E j \in DOMAIN recs : Reverse(recs)[k] = recs[j]
  BY <1>1, <1>2, <1>3
<1> QED  BY <1>1, <1>4, <1>5 DEF Restores

-----------------------------------------------------------------------------
(* The stack of a delegation.                                               *)

\* What a call of the stack s is like and which call waits for it.
FrameOK(s, i) ==
    LET c == s[i]
    IN  /\ i > 1 => c.op \in {"restore", "note", "confirm", "prepare", "child"}
        /\ c.op \notin {"load", "start"} => c.got = <<>>
        /\ c.op \in {"use", "load"} =>
              /\ c.m \in Models
              /\ i < Len(s) /\ s[i + 1].op \in {"confirm", "note"}
              /\ s[i + 1].op = "note" => s[i + 1].rec.preset = c.m
        /\ c.op \in {"start", "wait"} => c.rec \in SlotRecs /\ OwnPreset(c.rec)
        /\ c.op = "note" => c.rec \in Records /\ ~OwnPreset(c.rec)
        /\ c.op \in {"start", "wait", "note"} => i < Len(s) /\ s[i + 1].op = "restore"
        /\ c.op \in {"confirm", "allround"} => i + 2 = Len(s) /\ s[i + 1].op = "prepare"
        /\ c.op = "prepare" => i + 1 = Len(s) /\ s[i + 1].op = "child"
        /\ c.op = "child" => i = Len(s)

Nested(s) == \A i \in 1..Len(s) : FrameOK(s, i)
CallsNest == \A d \in Delegations : Nested(todo[d])
Typed == TypeOK /\ CallsNest

\* The stack after the call on top was replaced by the calls c.
LEMMA Pushed ==
    ASSUME NEW s \in Seq(Calls), s # <<>>, NEW c \in Seq(Calls)
    PROVE  /\ c \o Tail(s) \in Seq(Calls)
           /\ Len(c \o Tail(s)) = (Len(c) + Len(s)) - 1
           /\ \A i \in 1..Len(c) : (c \o Tail(s))[i] = c[i]
           /\ \A i \in 2..Len(s) : (c \o Tail(s))[(i - 1) + Len(c)] = s[i]
           /\ Len(s) \in Nat /\ Len(s) >= 1 /\ Head(s) = s[1] /\ s[1] \in Calls
<1>1. Len(s) \in Nat /\ Len(s) >= 1 /\ Head(s) = s[1] /\ s[1] \in Calls
  OBVIOUS
<1>2. Tail(s) \in Seq(Calls) /\ Len(Tail(s)) = Len(s) - 1
      /\ \A j \in 1..(Len(s) - 1) : Tail(s)[j] = s[j + 1]
  BY <1>1
<1>3. c \o Tail(s) \in Seq(Calls) /\ Len(c \o Tail(s)) = (Len(c) + Len(s)) - 1
      /\ \A i \in 1..Len(c) : (c \o Tail(s))[i] = c[i]
  BY <1>1, <1>2
<1>4. ASSUME NEW i \in 2..Len(s) PROVE (c \o Tail(s))[(i - 1) + Len(c)] = s[i]
  <2>1. i - 1 \in 1..(Len(s) - 1) /\ (i - 1) + 1 = i /\ Len(c) \in Nat
    BY <1>1
  <2>2. (i - 1) + Len(c) \in 1..(Len(c) + Len(Tail(s))) /\ (i - 1) + Len(c) > Len(c)
        /\ ((i - 1) + Len(c)) - Len(c) = i - 1
    BY <1>1, <1>2, <2>1
  <2>3. (c \o Tail(s))[(i - 1) + Len(c)] = Tail(s)[i - 1]
    BY <1>2, <2>1, <2>2
  <2> QED  BY <1>2, <2>1, <2>3
<1> QED  BY <1>1, <1>3, <1>4

\* Calls that fit onto the rest of a stack leave it nested.
LEMMA NestedPush ==
    ASSUME NEW s \in Seq(Calls), s # <<>>, Nested(s), NEW c \in Seq(Calls),
           \A i \in 1..Len(c) : FrameOK(c \o Tail(s), i)
    PROVE  Nested(c \o Tail(s))
<1> DEFINE t == c \o Tail(s)
           k == Len(c)
<1>1. /\ t \in Seq(Calls) /\ Len(t) = (k + Len(s)) - 1
      /\ \A i \in 2..Len(s) : t[(i - 1) + k] = s[i]
      /\ Len(s) \in Nat /\ k \in Nat
  BY Pushed
<1> SUFFICES ASSUME NEW i \in 1..Len(t) PROVE FrameOK(t, i)
  BY DEF Nested
<1> HIDE DEF t
<1>2. CASE i <= k
  BY <1>1, <1>2 DEF t
<1>3. CASE i > k
  <2> DEFINE j == (i - k) + 1
             n == Len(s)
  <2>1. j \in 2..Len(s) /\ (j - 1) + k = i
    BY <1>1, <1>3
  <2>2. FrameOK(s, j) /\ j > 1
    BY <2>1, <1>1 DEF Nested
  <2>3. s[j] = t[i]
    BY <2>1, <1>1
  <2>4. j < Len(s) => i < Len(t) /\ s[j + 1] = t[i + 1]
    <3> SUFFICES ASSUME j < Len(s) PROVE i < Len(t) /\ s[j + 1] = t[i + 1]
      OBVIOUS
    <3>1. j + 1 \in 2..Len(s) /\ ((j + 1) - 1) + k = i + 1
      BY <2>1, <1>1
    <3>2. s[j + 1] = t[((j + 1) - 1) + k]
      BY <3>1, <1>1
    <3> HIDE DEF j
    <3> QED  BY <3>1, <3>2, <2>1, <1>1
  <2>5. /\ j + 2 = Len(s) => i + 2 = Len(t) /\ j < Len(s)
        /\ j + 1 = Len(s) => i + 1 = Len(t) /\ j < Len(s)
        /\ j = Len(s) => i = Len(t)
    BY <2>1, <1>1
  <2> HIDE DEF j, k
  <2> QED  BY <2>2, <2>3, <2>4, <2>5 DEF FrameOK
<1> QED  BY <1>1, <1>2, <1>3

\* The same for the stack of a delegation that takes a step.
LEMMA Moves ==
    ASSUME Typed, NEW d \in Delegations, Busy(d), NEW c \in Seq(Calls), Then(d, c),
           \A i \in 1..Len(c) : FrameOK(c \o Tail(todo[d]), i)
    PROVE  todo' \in [Delegations -> Seq(Calls)] /\ CallsNest'
<1>1. todo \in [Delegations -> Seq(Calls)] /\ \A e \in Delegations : Nested(todo[e])
  BY DEF Typed, TypeOK, CallsNest
<1>2. todo' = [todo EXCEPT ![d] = c \o Tail(todo[d])]
  BY DEF Then
<1>3. c \o Tail(todo[d]) \in Seq(Calls) /\ Nested(c \o Tail(todo[d]))
  BY <1>1, Pushed, NestedPush DEF Busy
<1>4. \A e \in Delegations : Nested(todo'[e])
  BY <1>1, <1>2, <1>3
<1> QED  BY <1>1, <1>2, <1>3, <1>4 DEF CallsNest, Nested, FrameOK

\* A stack that is replaced by a nested one.
LEMMA Replaced ==
    ASSUME Typed, NEW d \in Delegations, NEW t \in Seq(Calls),
           todo' = [todo EXCEPT ![d] = t], Nested(t)
    PROVE  todo' \in [Delegations -> Seq(Calls)] /\ CallsNest'
<1>1. todo \in [Delegations -> Seq(Calls)] /\ \A e \in Delegations : Nested(todo[e])
  BY DEF Typed, TypeOK, CallsNest
<1>2. \A e \in Delegations : Nested(todo'[e])
  BY <1>1
<1> QED  BY <1>1, <1>2 DEF CallsNest, Nested, FrameOK

\* The call on top of a stack.
LEMMA Top ==
    ASSUME Typed, NEW d \in Delegations, Busy(d)
    PROVE  /\ todo[d] \in Seq(Calls) /\ todo[d] # <<>>
           /\ Next1(d) = todo[d][1] /\ Next1(d) \in Calls
           /\ FrameOK(todo[d], 1) /\ Len(todo[d]) \in Nat /\ Len(todo[d]) >= 1
           /\ Next1(d).op \in Ops /\ Next1(d).recs \in Seq(Records)
           /\ Next1(d).got \in Seq(Records)
<1>1. todo[d] \in Seq(Calls) /\ todo[d] # <<>> /\ Nested(todo[d])
  BY DEF Typed, TypeOK, CallsNest, Busy
<1>2. Next1(d) = todo[d][1] /\ Next1(d) \in Calls /\ Len(todo[d]) \in Nat
      /\ Len(todo[d]) >= 1
  BY <1>1 DEF Next1
<1> QED  BY <1>1, <1>2 DEF Nested, Calls

-----------------------------------------------------------------------------
(* The calls of a stack as a set.                                           *)

\* The calls of a delegation, and those that wait for another.
Frames(d) == {todo[d][i] : i \in 1..Len(todo[d])}
Below(d) == {todo[d][i] : i \in 2..Len(todo[d])}

\* The calls of a stack are the one on top and those below, and those below
\* have stopped nothing: only the one on top evicts.
LEMMA FramesNow ==
    ASSUME Typed, NEW d \in Delegations
    PROVE  /\ Busy(d) => Frames(d) = {Next1(d)} \cup Below(d)
           /\ ~Busy(d) => Frames(d) = {}
           /\ Frames(d) \subseteq Calls
           /\ \A f \in Below(d) :
                 /\ f.op \in {"restore", "note", "confirm", "prepare", "child"}
                 /\ f.got = <<>>
           /\ Restoring(d) <=> \E f \in Frames(d) : f.op = "restore"
<1>1. todo[d] \in Seq(Calls) /\ Nested(todo[d]) /\ Len(todo[d]) \in Nat
      /\ DOMAIN todo[d] = 1..Len(todo[d])
  BY DEF Typed, TypeOK, CallsNest
<1>2. Busy(d) => Frames(d) = {Next1(d)} \cup Below(d)
  <2> SUFFICES ASSUME Busy(d) PROVE Frames(d) = {Next1(d)} \cup Below(d)
    OBVIOUS
  <2>1. Next1(d) = todo[d][1] /\ Len(todo[d]) >= 1
    BY Top
  <2>2. \A i \in 1..Len(todo[d]) : i = 1 \/ i \in 2..Len(todo[d])
    BY <1>1
  <2>3. 1 \in 1..Len(todo[d]) /\ \A i \in 2..Len(todo[d]) : i \in 1..Len(todo[d])
    BY <1>1, <2>1
  <2> QED  BY <2>1, <2>2, <2>3 DEF Frames, Below
<1>3. ~Busy(d) => Frames(d) = {}
  <2>1. Len(<<>>) = 0
    OBVIOUS
  <2> QED  BY <2>1 DEF Busy, Frames
<1>4. Frames(d) \subseteq Calls
  BY <1>1 DEF Frames
<1>5. ASSUME NEW f \in Below(d)
      PROVE  /\ f.op \in {"restore", "note", "confirm", "prepare", "child"}
             /\ f.got = <<>>
  <2>1. PICK i \in 2..Len(todo[d]) : f = todo[d][i]
    BY DEF Below
  <2>2. FrameOK(todo[d], i) /\ i > 1
    BY <1>1 DEF Nested
  <2> QED  BY <2>1, <2>2 DEF FrameOK
<1>6. Restoring(d) <=> \E f \in Frames(d) : f.op = "restore"
  BY <1>1 DEF Restoring, Frames
<1> QED  BY <1>2, <1>3, <1>4, <1>5, <1>6

\* The calls of a stack after a step.
LEMMA After ==
    ASSUME Typed, NEW d \in Delegations, Busy(d), NEW c \in Seq(Calls), Then(d, c)
    PROVE  /\ Frames(d)' = {c[i] : i \in 1..Len(c)} \cup Below(d)
           /\ Len(c) > 0 => Busy(d)' /\ Next1(d)' = c[1]
           /\ Len(c) = 0 /\ Len(todo[d]) > 1 =>
                 Busy(d)' /\ Next1(d)' = todo[d][2] /\ todo[d][2] \in Below(d)
           /\ Len(c) = 0 /\ Len(todo[d]) = 1 => ~Busy(d)'
<1> DEFINE s == todo[d]
           t == c \o Tail(s)
<1>1. s \in Seq(Calls) /\ s # <<>> /\ Len(s) \in Nat /\ Len(s) >= 1 /\ Len(c) \in Nat
  BY Top
<1>2. /\ t \in Seq(Calls) /\ Len(t) = (Len(c) + Len(s)) - 1
      /\ \A i \in 1..Len(c) : t[i] = c[i]
      /\ \A i \in 2..Len(s) : t[(i - 1) + Len(c)] = s[i]
  BY <1>1, Pushed
<1>3. todo'[d] = t
  BY DEF Then, Typed, TypeOK
<1> HIDE DEF t
<1>4. \A j \in 1..Len(t) : j \in 1..Len(c) \/ \E i \in 2..Len(s) : j = (i - 1) + Len(c)
  <2>1. ASSUME NEW m \in Nat, m >= 1, NEW n \in Nat, NEW j \in 1..((n + m) - 1)
        PROVE  j \in 1..n \/ \E i \in 2..m : j = (i - 1) + n
    <3>1. j > n => (j - n) + 1 \in 2..m /\ j = (((j - n) + 1) - 1) + n
      BY <2>1
    <3>2. j <= n => j \in 1..n
      OBVIOUS
    <3> QED  BY <3>1, <3>2
  <2>2. ASSUME NEW j \in 1..Len(t)
        PROVE  j \in 1..Len(c) \/ \E i \in 2..Len(s) : j = (i - 1) + Len(c)
    <3> HIDE DEF s
    <3>1. j \in 1..((Len(c) + Len(s)) - 1)
      BY <1>2
    <3> QED  BY <1>1, <2>1, <3>1
  <2> QED  BY <2>2
<1>5. /\ \A i \in 1..Len(c) : i \in 1..Len(t)
      /\ \A i \in 2..Len(s) : (i - 1) + Len(c) \in 1..Len(t)
  BY <1>1, <1>2
<1>6. Frames(d)' = {t[j] : j \in 1..Len(t)}
  BY <1>3 DEF Frames
<1>7. Frames(d)' = {c[i] : i \in 1..Len(c)} \cup Below(d)
  <2>1. ASSUME NEW j \in 1..Len(t) PROVE t[j] \in {c[i] : i \in 1..Len(c)} \cup Below(d)
    BY <1>2, <1>4, ZenonT(60) DEF Below
  <2>2. ASSUME NEW i \in 1..Len(c) PROVE c[i] \in {t[j] : j \in 1..Len(t)}
    BY <1>2, <1>5
  <2>3. ASSUME NEW i \in 2..Len(s) PROVE s[i] \in {t[j] : j \in 1..Len(t)}
    BY <1>2, <1>5
  <2> QED  BY <1>6, <2>1, <2>2, <2>3 DEF Below
<1>8. Len(t) > 0 => Busy(d)' /\ Next1(d)' = t[1]
  BY <1>2, <1>3 DEF Busy, Next1
<1>9. Len(t) = 0 => ~Busy(d)'
  BY <1>2, <1>3 DEF Busy
<1>10. Len(c) > 0 => Len(t) > 0 /\ t[1] = c[1]
  BY <1>1, <1>2
<1>11. Len(c) = 0 /\ Len(s) > 1 => Len(t) > 0 /\ t[1] = s[2] /\ s[2] \in Below(d)
  <2> SUFFICES ASSUME Len(c) = 0, Len(s) > 1
               PROVE  Len(t) > 0 /\ t[1] = s[2] /\ s[2] \in Below(d)
    OBVIOUS
  <2>1. 2 \in 2..Len(s) /\ (2 - 1) + Len(c) = 1
    BY <1>1
  <2>2. t[(2 - 1) + Len(c)] = s[2]
    BY <1>2, <2>1
  <2> QED  BY <1>1, <1>2, <2>1, <2>2 DEF Below
<1>12. Len(c) = 0 /\ Len(s) = 1 => Len(t) = 0
  BY <1>1, <1>2
<1> QED  BY <1>7, <1>8, <1>9, <1>10, <1>11, <1>12

\* After a step that returns.
LEMMA AfterPop ==
    ASSUME Typed, NEW d \in Delegations, Busy(d), Then(d, <<>>)
    PROVE  /\ Frames(d)' = Below(d)
           /\ Len(todo[d]) > 1 =>
                 Busy(d)' /\ Next1(d)' = todo[d][2] /\ todo[d][2] \in Below(d)
           /\ Len(todo[d]) = 1 => ~Busy(d)'
           /\ Busy(d)' => Next1(d)' \in Below(d)
<1> DEFINE c == <<>>
<1>1. c \in Seq(Calls) /\ Len(c) = 0
  OBVIOUS
<1>2. Len(todo[d]) \in Nat /\ Len(todo[d]) >= 1
  BY Top
<1> HIDE DEF c
<1>3. {c[i] : i \in 1..Len(c)} = {}
  BY <1>1
<1>4. Then(d, c)
  BY DEF c
<1>5. /\ Frames(d)' = {c[i] : i \in 1..Len(c)} \cup Below(d)
      /\ Len(todo[d]) > 1 =>
            Busy(d)' /\ Next1(d)' = todo[d][2] /\ todo[d][2] \in Below(d)
      /\ Len(todo[d]) = 1 => ~Busy(d)'
  BY <1>1, <1>4, After
<1>6. Frames(d)' = Below(d)
  BY <1>3, <1>5
<1>7. Len(todo[d]) > 1 \/ Len(todo[d]) = 1
  <2>1. \A n \in Nat : n >= 1 => n > 1 \/ n = 1
    OBVIOUS
  <2> QED  BY <1>2, <2>1
<1> QED  BY <1>5, <1>6, <1>7

\* After a step that puts one, two or three calls where the top one was.
LEMMA AfterPush ==
    ASSUME Typed, NEW d \in Delegations, Busy(d), NEW x \in Calls, NEW y \in Calls,
           NEW z \in Calls
    PROVE  /\ Then(d, <<x>>) => /\ Busy(d)' /\ Next1(d)' = x
                                /\ Frames(d)' = {x} \cup Below(d)
           /\ Then(d, <<x, y>>) => /\ Busy(d)' /\ Next1(d)' = x
                                   /\ Frames(d)' = {x, y} \cup Below(d)
           /\ Then(d, <<x, y, z>>) => /\ Busy(d)' /\ Next1(d)' = x
                                      /\ Frames(d)' = {x, y, z} \cup Below(d)
<1>1. ASSUME Then(d, <<x>>)
      PROVE  Busy(d)' /\ Next1(d)' = x /\ Frames(d)' = {x} \cup Below(d)
  <2> DEFINE c == <<x>>
  <2>1. c \in Seq(Calls) /\ Len(c) = 1 /\ c[1] = x
    OBVIOUS
  <2>2. {c[i] : i \in 1..Len(c)} = {x}
    <3>1. \A i \in 1..Len(c) : i = 1
      BY <2>1
    <3> HIDE DEF c
    <3> QED  BY <2>1, <3>1
  <2> HIDE DEF c
  <2>3. Then(d, c)
    BY <1>1 DEF c
  <2>4. Frames(d)' = {c[i] : i \in 1..Len(c)} \cup Below(d) /\ Busy(d)' /\ Next1(d)' = c[1]
    <3>1. Len(c) > 0
      BY <2>1
    <3> QED  BY <2>1, <2>3, <3>1, After
  <2> QED  BY <2>1, <2>2, <2>4
<1>2. ASSUME Then(d, <<x, y>>)
      PROVE  Busy(d)' /\ Next1(d)' = x /\ Frames(d)' = {x, y} \cup Below(d)
  <2> DEFINE c == <<x, y>>
  <2>1. c \in Seq(Calls) /\ Len(c) = 2 /\ c[1] = x /\ c[2] = y
    OBVIOUS
  <2>2. {c[i] : i \in 1..Len(c)} = {x, y}
    <3>1. \A i \in 1..Len(c) : i = 1 \/ i = 2
      BY <2>1
    <3> HIDE DEF c
    <3> QED  BY <2>1, <3>1
  <2> HIDE DEF c
  <2>3. Then(d, c)
    BY <1>2 DEF c
  <2>4. Frames(d)' = {c[i] : i \in 1..Len(c)} \cup Below(d) /\ Busy(d)' /\ Next1(d)' = c[1]
    <3>1. Len(c) > 0
      BY <2>1
    <3> QED  BY <2>1, <2>3, <3>1, After
  <2> QED  BY <2>1, <2>2, <2>4
<1>3. ASSUME Then(d, <<x, y, z>>)
      PROVE  Busy(d)' /\ Next1(d)' = x /\ Frames(d)' = {x, y, z} \cup Below(d)
  <2> DEFINE c == <<x, y, z>>
  <2>1. c \in Seq(Calls) /\ Len(c) = 3 /\ c[1] = x /\ c[2] = y /\ c[3] = z
    OBVIOUS
  <2>2. {c[i] : i \in 1..Len(c)} = {x, y, z}
    <3>1. \A i \in 1..Len(c) : i = 1 \/ i = 2 \/ i = 3
      BY <2>1
    <3> HIDE DEF c
    <3> QED  BY <2>1, <3>1
  <2> HIDE DEF c
  <2>3. Then(d, c)
    BY <1>3 DEF c
  <2>4. Frames(d)' = {c[i] : i \in 1..Len(c)} \cup Below(d) /\ Busy(d)' /\ Next1(d)' = c[1]
    <3>1. Len(c) > 0
      BY <2>1
    <3> QED  BY <2>1, <2>3, <3>1, After
  <2> QED  BY <2>1, <2>2, <2>4
<1> QED  BY <1>1, <1>2, <1>3

-----------------------------------------------------------------------------
(* What the actions put on the stack.                                       *)

\* model.use becomes a load that has the plan to carry out.
LEMMA UsePlansIs ==
    ASSUME Typed, NEW d \in Delegations, UsePlans(d)
    PROVE  /\ Busy(d) /\ Next1(d).op = "use" /\ Next1(d).m \in Models
           /\ Next1(d).brain \in BOOLEAN
           /\ \E n \in Calls :
                 /\ Then(d, <<n>>) /\ n.op = "load" /\ n.m = Next1(d).m /\ n.got = <<>>
                 /\ n.recs = Plan(n.m, Next1(d).brain)
<1> DEFINE c == Next1(d)
           held == \E x \in Models : Port[x] = Port[c.m] /\ Answering(x)
           n == Load(c.m, held, Plan(c.m, c.brain))
<1>1. Then(d, <<n>>) /\ Busy(d) /\ c.op = "use"
  BY DEF UsePlans, At
<1>2. c.m \in Models /\ c.brain \in BOOLEAN
  BY <1>1, Top, SMTT(40) DEF FrameOK, Calls
<1>3. Plan(c.m, c.brain) \in Seq(Records)
  BY <1>2, PlanIn, Elements DEF Typed
<1>4. n \in Calls /\ n.op = "load" /\ n.m = c.m /\ n.recs = Plan(c.m, c.brain)
      /\ n.got = <<>>
  <2>1. held \in BOOLEAN
    OBVIOUS
  <2> HIDE DEF held
  <2>2. n \in Calls
    BY <1>2, <1>3, <2>1, CallsTyped
  <2> QED  BY <2>2 DEF Load, Call
<1> HIDE DEF n
<1> QED  BY <1>1, <1>2, <1>4

\* A stop moves the first record from the plan to what was stopped, or drops it.
LEMMA StopIs ==
    ASSUME Typed, NEW d \in Delegations, NEW kind, Evicting(d, kind)
    PROVE  LET c == Next1(d)
               r == Head(c.recs)
           IN  /\ Busy(d) /\ c.op \in {"load", "start"} /\ c.recs # <<>>
               /\ r \in Records /\ r.kind = kind /\ r = c.recs[1]
               /\ \A k \in DOMAIN Tail(c.recs) : /\ k + 1 \in DOMAIN c.recs
                                                 /\ Tail(c.recs)[k] = c.recs[k + 1]
               /\ Stopped(d) => \E x \in Calls :
                     /\ Then(d, <<x>>) /\ x.op = c.op /\ x.m = c.m /\ x.rec = c.rec
                     /\ x.recs = Tail(c.recs) /\ x.got = Append(c.got, r)
               /\ NotStopped(d) => \E x \in Calls :
                     /\ Then(d, <<x>>) /\ x.op = c.op /\ x.m = c.m /\ x.rec = c.rec
                     /\ x.recs = Tail(c.recs) /\ x.got = c.got
<1> DEFINE c == Next1(d)
           r == Head(c.recs)
           c1 == [c EXCEPT !.recs = Tail(@), !.got = Append(@, r)]
           c2 == [c EXCEPT !.recs = Tail(@), !.failed = TRUE]
<1>1. Busy(d) /\ c.op \in {"load", "start"} /\ c.recs # <<>> /\ r.kind = kind
  BY DEF Evicting
<1>2. c \in Calls /\ c.recs \in Seq(Records) /\ c.got \in Seq(Records)
  BY <1>1, Top
<1>3. Tail(c.recs) \in Seq(Records) /\ r \in Records /\ r = c.recs[1]
      /\ Append(c.got, r) \in Seq(Records)
  BY <1>1, <1>2
<1>4. \A k \in DOMAIN Tail(c.recs) : k + 1 \in DOMAIN c.recs
                                     /\ Tail(c.recs)[k] = c.recs[k + 1]
  BY <1>1, <1>2
<1>5. /\ c1 \in Calls /\ c1.op = c.op /\ c1.m = c.m /\ c1.rec = c.rec
      /\ c1.recs = Tail(c.recs) /\ c1.got = Append(c.got, r)
      /\ c2 \in Calls /\ c2.op = c.op /\ c2.m = c.m /\ c2.rec = c.rec
      /\ c2.recs = Tail(c.recs) /\ c2.got = c.got
  BY <1>2, <1>3 DEF Calls
<1>6. (Stopped(d) => Then(d, <<c1>>)) /\ (NotStopped(d) => Then(d, <<c2>>))
  BY DEF Stopped, NotStopped
<1> HIDE DEF c1, c2
<1> QED  BY <1>1, <1>3, <1>4, <1>5, <1>6

\* The restore of a slot becomes a start, below it the rest of the restore.
LEMMA RestoreSlotIs ==
    ASSUME Typed, NEW d \in Delegations, RestoreSlot(d)
    PROVE  /\ Busy(d) /\ Next1(d).op = "restore" /\ Next1(d).recs # <<>>
           /\ Record(d) \in SlotRecs /\ OwnPreset(Record(d))
           /\ \E a, b \in Calls :
                 /\ Then(d, <<a, b>>)
                 /\ a.op = "start" /\ a.rec = Record(d) /\ a.got = <<>>
                 /\ \A k \in DOMAIN a.recs : a.recs[k].slot # Brain
                 /\ b.op = "restore" /\ b.recs = Tail(Next1(d).recs) /\ b.got = <<>>
<1> DEFINE rec == Record(d)
           a == StartSlot(rec, Leftovers(rec))
           b == Remaining(d)
<1>1. Busy(d) /\ Then(d, <<a, b>>) /\ OwnPreset(rec) /\ Next1(d).op = "restore"
      /\ Next1(d).recs # <<>>
  BY DEF RestoreSlot, HasRecord, At
<1>2. rec \in Records /\ Tail(Next1(d).recs) \in Seq(Records)
  BY <1>1, Top DEF Record
<1>3. rec \in SlotRecs
  BY <1>1, <1>2, Recs DEF Records
<1>4. Leftovers(rec) \in Seq(Records)
      /\ \A k \in DOMAIN Leftovers(rec) : Leftovers(rec)[k].slot # Brain
  BY <1>3, LeftoversIn DEF Typed
<1>5. /\ a \in Calls /\ a.op = "start" /\ a.rec = rec /\ a.recs = Leftovers(rec)
      /\ a.got = <<>>
      /\ b \in Calls /\ b.op = "restore" /\ b.recs = Tail(Next1(d).recs) /\ b.got = <<>>
  <2>1. a \in Calls /\ b \in Calls
    BY <1>2, <1>4, CallsTyped DEF Remaining
  <2> QED  BY <2>1 DEF StartSlot, Remaining, Restore, Call
<1> HIDE DEF a, b
<1> QED  BY <1>1, <1>3, <1>4, <1>5

\* The three calls that the restore of another preset becomes.
RestoresByUse(d, u, a, b) ==
    /\ Then(d, <<u, a, b>>)
    /\ u.op = "use" /\ u.m = Record(d).preset /\ u.brain = FALSE /\ u.got = <<>>
    /\ a.op = "note" /\ a.rec = Record(d) /\ a.got = <<>>
    /\ b.op = "restore" /\ b.recs = Tail(Next1(d).recs) /\ b.got = <<>>

\* The restore of another preset becomes a model.use, its note and the rest.
LEMMA RestoreByUseIs ==
    ASSUME Typed, NEW d \in Delegations, RestoreByUse(d)
    PROVE  /\ Busy(d) /\ Next1(d).op = "restore" /\ Next1(d).recs # <<>>
           /\ Record(d) \in Records /\ ~OwnPreset(Record(d)) /\ Record(d).preset \in Models
           /\ \E u, a, b \in Calls : RestoresByUse(d, u, a, b)
<1> DEFINE rec == Record(d)
           u == Use(rec.preset, FALSE)
           a == Note(rec)
           b == Remaining(d)
<1>1. Busy(d) /\ Then(d, <<u, a, b>>) /\ ~OwnPreset(rec) /\ Next1(d).op = "restore"
      /\ Next1(d).recs # <<>>
  BY DEF RestoreByUse, HasRecord, At
<1>2. rec \in Records /\ Tail(Next1(d).recs) \in Seq(Records)
  BY <1>1, Top DEF Record
<1>3. rec.preset \in Models
  BY <1>1, <1>2, Recs DEF Records, OwnPreset
<1>4. /\ u \in Calls /\ u.op = "use" /\ u.m = rec.preset /\ u.brain = FALSE /\ u.got = <<>>
      /\ a \in Calls /\ a.op = "note" /\ a.rec = rec /\ a.got = <<>>
      /\ b \in Calls /\ b.op = "restore" /\ b.recs = Tail(Next1(d).recs) /\ b.got = <<>>
  <2>1. u \in Calls /\ a \in Calls /\ b \in Calls
    BY <1>2, <1>3, CallsTyped DEF Remaining
  <2> QED  BY <2>1 DEF Use, Note, Remaining, Restore, Call
<1> HIDE DEF u, a, b
<1> QED  BY <1>1, <1>2, <1>3, <1>4 DEF RestoresByUse

\* A start becomes the wait for the server.
LEMMA StartIs ==
    ASSUME Typed, NEW d \in Delegations, Start(d)
    PROVE  /\ Busy(d) /\ Next1(d).op = "start"
           /\ Next1(d).rec \in SlotRecs /\ OwnPreset(Next1(d).rec)
           /\ \E x \in Calls :
                 /\ Then(d, <<x>>) /\ x.op = "wait" /\ x.rec = Next1(d).rec /\ x.got = <<>>
<1> DEFINE x == Wait(Next1(d).rec)
<1>1. Busy(d) /\ Then(d, <<x>>) /\ Next1(d).op = "start"
  BY DEF Start, At
<1>2. Next1(d).rec \in SlotRecs /\ OwnPreset(Next1(d).rec)
  BY <1>1, Top DEF FrameOK
<1>3. x \in Calls /\ x.op = "wait" /\ x.rec = Next1(d).rec /\ x.got = <<>>
  BY <1>2, CallsTyped DEF Records, Wait, Call
<1> HIDE DEF x
<1> QED  BY <1>1, <1>2, <1>3

\* A wait for the specialist that ends becomes the search for another.
LEMMA FallsBackIs ==
    ASSUME Typed, NEW d \in Delegations, FallsBack(d)
    PROVE  /\ Busy(d) /\ Next1(d).op = "confirm"
           /\ \E x \in Calls : Then(d, <<x>>) /\ x.op = "allround" /\ x.got = <<>>
<1>1. Busy(d) /\ Then(d, <<Call("allround")>>) /\ Next1(d).op = "confirm"
  BY DEF FallsBack, At
<1>2. "allround" \in Ops
  BY DEF Ops
<1>3. Call("allround") \in Calls
  BY <1>2, CallsTyped
<1> QED  BY <1>1, <1>3 DEF Call

\* The restore of records that exist is one call, which promises the same.
LEMMA RestoresOne ==
    ASSUME NEW q \in Seq(Records), q # <<>>
    PROVE  \E x \in Calls : /\ Restores(q) = <<x>>
                            /\ x.op = "restore" /\ x.got = <<>>
                            /\ x.recs \in Seq(Records) /\ Promises(x.recs) = Promises(q)
                            /\ \A k \in DOMAIN x.recs :
                                  \E j \in DOMAIN q : x.recs[k] = q[j]
<1>1. Restore(Reverse(q)) \in Calls
  BY RestoresIs, CallsTyped
<1> QED  BY <1>1, RestoresIs DEF Restore, Call

\* Probing, forgetting and evicting leave the cache typed.
LEMMA CacheTyped ==
    ASSUME TypeOK
    PROVE  /\ \A S : Probed(S) \in [SlotSet -> Models \cup {NoModel, Unset}]
           /\ Forgotten \in [SlotSet -> Models \cup {NoModel, Unset}]
           /\ \A recs : CacheAfter(recs) =>
                  cache' \in [SlotSet -> Models \cup {NoModel, Unset}]
<1>1. cache \in [SlotSet -> Models \cup {NoModel, Unset}]
  BY DEF TypeOK
<1> QED  BY <1>1, LiveSlotTyped DEF Probed, Forgotten, CacheAfter

\* The mishaps stay within their bound.
LEMMA MishapsTyped ==
    ASSUME TypeOK
    PROVE  /\ NoMishap => mishaps' \in 0..MaxMishaps
           /\ \A k : Mishap(k) => mishaps' \in 0..MaxMishaps
  BY SwapAssumption DEF TypeOK, NoMishap, Mishap

\* The next state is typed when the parts are that an action changes.
LEMMA TypedParts ==
    ASSUME TypeOK,
           armed' \subseteq SlotSet /\ up' \subseteq armed',
           served' \subseteq Models /\ loading' \subseteq served',
           cache' \in [SlotSet -> Models \cup {NoModel, Unset}],
           begun' \subseteq Delegations,
           todo' \in [Delegations -> Seq(Calls)],
           ret' \in [Delegations -> [ok : BOOLEAN, evicted : Seq(Records)]],
           evicted' \in [Delegations -> Seq(Records)],
           before' \subseteq Models /\ reported' \subseteq Models,
           displaced' \subseteq Models,
           dropped' \in BOOLEAN,
           mishaps' \in 0..MaxMishaps, CallsNest'
    PROVE  Typed'
  BY DEF Typed, TypeOK

\* A result is typed.
LEMMA ReturnsTyped ==
    ASSUME TypeOK, NEW d \in Delegations, NEW ok \in BOOLEAN, NEW q \in Seq(Records),
           Returns(d, ok, q)
    PROVE  ret' \in [Delegations -> [ok : BOOLEAN, evicted : Seq(Records)]]
  BY DEF TypeOK, Returns

\* TypeOK, conjunct by conjunct.
LEMMA Unpacked ==
    ASSUME TypeOK
    PROVE  /\ armed \subseteq SlotSet /\ up \subseteq armed
           /\ served \subseteq Models /\ loading \subseteq served
           /\ cache \in [SlotSet -> Models \cup {NoModel, Unset}]
           /\ begun \subseteq Delegations
           /\ todo \in [Delegations -> Seq(Calls)]
           /\ ret \in [Delegations -> [ok : BOOLEAN, evicted : Seq(Records)]]
           /\ evicted \in [Delegations -> Seq(Records)]
           /\ before \subseteq Models /\ reported \subseteq Models
           /\ displaced \subseteq Models
           /\ dropped \in BOOLEAN
           /\ mishaps \in 0..MaxMishaps
  BY DEF TypeOK

\* A step that returns leaves the stacks typed and nested.
LEMMA Pops ==
    ASSUME Typed, NEW d \in Delegations, Busy(d), Then(d, <<>>)
    PROVE  todo' \in [Delegations -> Seq(Calls)] /\ CallsNest'
<1>1. <<>> \in Seq(Calls) /\ \A i \in 1..Len(<<>>) : FrameOK(<<>> \o Tail(todo[d]), i)
  OBVIOUS
<1> QED  BY <1>1, Moves

\* The short sequences of the actions.
LEMMA Tuples ==
    ASSUME NEW S, NEW a \in S, NEW b \in S, NEW c \in S, NEW e \in S
    PROVE  /\ <<>> \in Seq(S) /\ <<a>> \in Seq(S) /\ <<a, b>> \in Seq(S)
           /\ <<a, b, c>> \in Seq(S) /\ <<a, b, c, e>> \in Seq(S)
           /\ <<>> \o <<c, e>> = <<c, e>> /\ <<a, b>> \o <<c, e>> = <<a, b, c, e>>
<1>1. <<a, b>> \in Seq(S) /\ <<c, e>> \in Seq(S) /\ <<a, b, c, e>> \in Seq(S)
  OBVIOUS
<1>2. <<a, b>> \o <<c, e>> = <<a, b, c, e>>
  <2> DEFINE x == <<a, b>> \o <<c, e>>
             y == <<a, b, c, e>>
  <2>1. x \in Seq(S) /\ y \in Seq(S) /\ Len(x) = 4 /\ Len(y) = 4
    BY <1>1
  <2>2. x[1] = a /\ x[2] = b /\ x[3] = c /\ x[4] = e
    BY <1>1
  <2>3. y[1] = a /\ y[2] = b /\ y[3] = c /\ y[4] = e
    OBVIOUS
  <2> HIDE DEF x, y
  <2>4. \A i \in 1..4 : x[i] = y[i]
    <3>1. \A i \in 1..4 : i = 1 \/ i = 2 \/ i = 3 \/ i = 4
      OBVIOUS
    <3> QED  BY <2>2, <2>3, <3>1
  <2>5. x = y
    BY <2>1, <2>4, SeqEqual
  <2> QED  BY <2>5 DEF x, y
<1> QED  BY <1>1, <1>2

\* The stacks a delegation begins with are nested.
LEMMA BottomNested ==
    ASSUME NEW u, NEW c, NEW p, NEW e,
           u.op = "use" /\ u.got = <<>> /\ u.m \in Models,
           c.op = "confirm" /\ c.got = <<>>,
           p.op = "prepare" /\ p.got = <<>>, e.op = "child" /\ e.got = <<>>
    PROVE  Nested(<<p, e>>) /\ Nested(<<u, c, p, e>>)
<1>1. Nested(<<p, e>>)
  <2> DEFINE s == <<p, e>>
  <2>1. Len(s) = 2 /\ s[1] = p /\ s[2] = e
    OBVIOUS
  <2> HIDE DEF s
  <2>2. FrameOK(s, 1) /\ FrameOK(s, 2)
    BY <2>1 DEF FrameOK
  <2>3. Nested(s)
    BY <2>1, <2>2 DEF Nested
  <2> QED  BY <2>3 DEF s
<1>2. Nested(<<u, c, p, e>>)
  <2> DEFINE s == <<u, c, p, e>>
  <2>1. Len(s) = 4 /\ s[1] = u /\ s[2] = c /\ s[3] = p /\ s[4] = e
    OBVIOUS
  <2> HIDE DEF s
  <2>2. FrameOK(s, 1) /\ FrameOK(s, 2) /\ FrameOK(s, 3) /\ FrameOK(s, 4)
    BY <2>1 DEF FrameOK
  <2>3. Nested(s)
    <3>1. \A i \in 1..4 : i = 1 \/ i = 2 \/ i = 3 \/ i = 4
      OBVIOUS
    <3> QED  BY <2>1, <2>2, <3>1 DEF Nested
  <2> QED  BY <2>3 DEF s
<1> QED  BY <1>1, <1>2

\* A delegation that begins preserves the types.
LEMMA BeginTyped ==
    ASSUME Typed, NEW d \in Delegations, Begin(d)
    PROVE  Typed'
<1> DEFINE u == Use(Newcomer[d], TRUE)
           c == Call("confirm")
           p == Call("prepare")
           e == Call("child")
<1>1. u \in Calls /\ c \in Calls /\ p \in Calls /\ e \in Calls
  BY SwapAssumption, CallsTyped DEF Ops
<1>2. /\ u.op = "use" /\ u.got = <<>> /\ u.m \in Models
      /\ c.op = "confirm" /\ c.got = <<>>
      /\ p.op = "prepare" /\ p.got = <<>> /\ e.op = "child" /\ e.got = <<>>
  BY SwapAssumption DEF Use, Call
<1>3. todo' = [todo EXCEPT ![d] = <<p, e>>] \/ todo' = [todo EXCEPT ![d] = <<u, c, p, e>>]
  <2>1. \/ todo' = [todo EXCEPT ![d] = <<>> \o <<p, e>>]
        \/ todo' = [todo EXCEPT ![d] = <<u, c>> \o <<p, e>>]
    BY DEF Begin
  <2> HIDE DEF u, c, p, e
  <2> QED  BY <1>1, <2>1, Tuples
<1>4. todo' \in [Delegations -> Seq(Calls)] /\ CallsNest'
  <2> HIDE DEF u, c, p, e
  <2> DEFINE low == <<p, e>>
             high == <<u, c, p, e>>
  <2>1. Nested(low) /\ Nested(high) /\ low \in Seq(Calls) /\ high \in Seq(Calls)
    BY <1>1, <1>2, BottomNested, Tuples
  <2> HIDE DEF low, high
  <2>2. CASE todo' = [todo EXCEPT ![d] = low]
    BY <2>1, <2>2, Replaced
  <2>3. CASE todo' = [todo EXCEPT ![d] = high]
    BY <2>1, <2>3, Replaced
  <2> QED  BY <1>3, <2>2, <2>3 DEF low, high
<1>5. before' \subseteq Models /\ reported' \subseteq Models /\ displaced' \subseteq Models
  BY LiveTyped DEF Begin, Typed, TypeOK
<1> QED
  BY <1>4, <1>5, TypedParts, Unpacked, CacheTyped, MishapsTyped
     DEF Begin, Typed, machine

\* Calls put on the stack where the top one was.
LEMMA Push1 ==
    ASSUME Typed, NEW d \in Delegations, Busy(d), NEW c \in Calls, Then(d, <<c>>),
           FrameOK(<<c>> \o Tail(todo[d]), 1)
    PROVE  todo' \in [Delegations -> Seq(Calls)] /\ CallsNest'
<1>1. <<c>> \in Seq(Calls) /\ \A i \in 1..Len(<<c>>) : i = 1
  OBVIOUS
<1> QED  BY <1>1, Moves

\* A stack whose top call was exchanged.
LEMMA Over ==
    ASSUME NEW s \in Seq(Calls), s # <<>>, NEW c \in Calls, NEW t, t = <<c>> \o Tail(s)
    PROVE  /\ t[1] = c /\ Len(t) = Len(s)
           /\ \A i \in 2..Len(s) : t[i] = s[i]
<1>1. <<c>> \in Seq(Calls) /\ Len(<<c>>) = 1 /\ <<c>>[1] = c
  OBVIOUS
<1>2. Len(s) \in Nat /\ \A i \in 2..Len(s) : (i - 1) + 1 = i
  OBVIOUS
<1>3. Len(t) = (1 + Len(s)) - 1 /\ t[1] = c
      /\ \A i \in 2..Len(s) : t[(i - 1) + 1] = s[i]
  BY <1>1, Pushed
<1> HIDE DEF Calls
<1> QED  BY <1>2, <1>3

\* A call that takes the place of one that the same caller waits for.
LEMMA InPlace ==
    ASSUME Typed, NEW d \in Delegations, Busy(d), NEW c \in Calls, Then(d, <<c>>),
           \/ /\ c.op = Next1(d).op /\ c.op \in {"load", "start"}
              /\ c.m = Next1(d).m /\ c.rec = Next1(d).rec
           \/ /\ Next1(d).op = "use" /\ c.op = "load" /\ c.m = Next1(d).m
           \/ /\ Next1(d).op = "confirm" /\ c.op = "allround" /\ c.got = <<>>
           \/ /\ Next1(d).op = "start" /\ c.op = "wait" /\ c.got = <<>>
              /\ c.rec = Next1(d).rec
           \/ /\ c.op = "restore" /\ c.got = <<>>
    PROVE  todo' \in [Delegations -> Seq(Calls)] /\ CallsNest'
<1> DEFINE s == todo[d]
           t == <<c>> \o Tail(s)
<1>1. s \in Seq(Calls) /\ s # <<>> /\ Next1(d) = s[1] /\ FrameOK(s, 1) /\ Len(s) \in Nat
  BY Top
<1>2. t[1] = c /\ Len(t) = Len(s) /\ \A i \in 2..Len(s) : t[i] = s[i]
  BY <1>1, Over
<1>3. FrameOK(t, 1)
  <2> HIDE DEF t
  <2>1. 1 < Len(s) => t[2] = s[2]
    BY <1>1, <1>2
  <2> QED  BY <1>1, <1>2, <2>1 DEF FrameOK
<1> QED  BY <1>3, Push1

\* A stop leaves the stacks typed and nested.
LEMMA StopTyped ==
    ASSUME Typed, NEW d \in Delegations, NEW kind, Evicting(d, kind),
           Stopped(d) \/ NotStopped(d)
    PROVE  /\ todo' \in [Delegations -> Seq(Calls)] /\ CallsNest'
           /\ Head(Next1(d).recs) \in Records /\ Head(Next1(d).recs).kind = kind
<1> QED  BY StopIs, InPlace

\* So does a step that becomes a restore.
LEMMA RestoresTyped ==
    ASSUME Typed, NEW d \in Delegations, Busy(d), NEW q \in Seq(Records),
           Then(d, Restores(q))
    PROVE  todo' \in [Delegations -> Seq(Calls)] /\ CallsNest'
<1>1. CASE q = <<>>
  BY <1>1, RestoresIs, Pops
<1>2. CASE q # <<>>
  <2> DEFINE c == Restore(Reverse(q))
  <2>1. Restores(q) = <<c>> /\ c \in Calls /\ c.op = "restore" /\ c.got = <<>>
    BY <1>2, RestoresIs, CallsTyped DEF Restore, Call
  <2> HIDE DEF c
  <2> QED  BY <2>1, InPlace
<1> QED  BY <1>1, <1>2

\* And one that leaves nothing but a restore.
LEMMA RestoresAlone ==
    ASSUME Typed, NEW d \in Delegations, NEW q \in Seq(Records),
           todo' = [todo EXCEPT ![d] = Restores(q)]
    PROVE  todo' \in [Delegations -> Seq(Calls)] /\ CallsNest'
<1>1. Restores(q) \in Seq(Calls) /\ Nested(Restores(q))
  <2>1. CASE q = <<>>
    <3>1. Restores(q) = <<>>
      BY <2>1, RestoresIs
    <3>2. <<>> \in Seq(Calls) /\ \A i \in 1..Len(<<>>) : FALSE
      OBVIOUS
    <3> QED  BY <3>1, <3>2 DEF Nested
  <2>2. CASE q # <<>>
    <3> DEFINE c == Restore(Reverse(q))
    <3>1. Restores(q) = <<c>> /\ c \in Calls /\ c.op = "restore" /\ c.got = <<>>
      BY <2>2, RestoresIs, CallsTyped DEF Restore, Call
    <3> HIDE DEF c
    <3>2. <<c>> \in Seq(Calls) /\ Len(<<c>>) = 1 /\ <<c>>[1] = c
      BY <3>1
    <3>3. Nested(<<c>>)
      BY <3>1, <3>2 DEF Nested, FrameOK
    <3> QED  BY <3>1, <3>2, <3>3
  <2> QED  BY <2>1, <2>2
<1> QED  BY <1>1, Replaced

\* No records are a sequence of records.
LEMMA NoRecs == <<>> \in Seq(Records)
  OBVIOUS

\* Each step of a delegation preserves the types.
LEMMA StepTyped ==
    ASSUME Typed, NEW d \in Delegations, Step(d)
    PROVE  Typed'
<1> USE DEF machine, history
<1>0. TypeOK /\ ret[d] \in [ok : BOOLEAN, evicted : Seq(Records)]
      /\ evicted[d] \in Seq(Records)
  BY DEF Typed, TypeOK
<1>1. CASE UseAtOnce(d)
  <2> DEFINE ok == ~Unlisted(d)
  <2>1. Busy(d) /\ Then(d, <<>>) /\ Returns(d, ok, <<>>) /\ <<>> \in Seq(Records)
    BY <1>1, NoRecs DEF UseAtOnce, At
  <2>2. ok \in BOOLEAN
    OBVIOUS
  <2> HIDE DEF ok
  <2> QED
    BY <1>0, <1>1, <2>1, <2>2, Pops, ReturnsTyped, TypedParts, Unpacked, MishapsTyped
       DEF UseAtOnce
<1>2. CASE UsePlans(d)
  <2>1. cache' \in [SlotSet -> Models \cup {NoModel, Unset}]
    BY <1>0, <1>2, CacheTyped DEF UsePlans, PlanProbes
  <2>2. todo' \in [Delegations -> Seq(Calls)] /\ CallsNest'
    BY <1>2, UsePlansIs, InPlace
  <2> QED
    BY <1>0, <1>2, <2>1, <2>2, TypedParts, Unpacked, MishapsTyped DEF UsePlans
<1>3. CASE StopSlot(d)
  <2>1. todo' \in [Delegations -> Seq(Calls)] /\ CallsNest'
    BY <1>3, StopTyped DEF StopSlot
  <2>2. displaced' \subseteq Models
    BY <1>0, <1>3, LiveTyped DEF StopSlot, Displaces, TypeOK
  <2> QED
    BY <1>0, <1>3, <2>1, <2>2, TypedParts, Unpacked, MishapsTyped DEF StopSlot
<1>4. CASE StopServe(d)
  <2>1. todo' \in [Delegations -> Seq(Calls)] /\ CallsNest'
    BY <1>4, StopTyped DEF StopServe
  <2>2. displaced' \subseteq Models
    BY <1>0, <1>4, LiveTyped DEF StopServe, Displaces, TypeOK
  <2>3. served' \subseteq Models /\ loading' \subseteq served' /\ armed' = armed /\ up' = up
    BY <1>0, <1>4 DEF StopServe, TypeOK
  <2> QED
    BY <1>0, <1>4, <2>1, <2>2, <2>3, TypedParts, Unpacked, MishapsTyped DEF StopServe
<1>5. CASE LoadRefused(d)
  <2>1. Busy(d) /\ Then(d, <<>>) /\ Returns(d, FALSE, <<>>) /\ <<>> \in Seq(Records)
    BY <1>5, NoRecs DEF LoadRefused, At
  <2>2. dropped' \in BOOLEAN
    BY <1>5 DEF LoadRefused
  <2> QED
    BY <1>0, <1>5, <2>1, <2>2, Pops, ReturnsTyped, TypedParts, Unpacked, MishapsTyped,
       CacheTyped DEF LoadRefused
<1>6. CASE Loads(d)
  <2>1. At(d, "load") /\ Busy(d) /\ Then(d, <<>>) /\ Returns(d, TRUE, Next1(d).got)
        /\ Next1(d).got \in Seq(Records)
    BY <1>6, Top DEF Loads, At
  <2>2. Next1(d).m \in Models
    BY <2>1, Top DEF At, FrameOK
  <2>3. served' \subseteq Models /\ loading' \subseteq served'
    BY <1>0, <1>6, <2>2 DEF Loads, TypeOK
  <2> QED
    BY <1>0, <1>6, <2>1, <2>3, Pops, ReturnsTyped, TypedParts, Unpacked, MishapsTyped,
       CacheTyped DEF Loads
<1>7. CASE LoadFails(d)
  <2>1. At(d, "load") /\ Busy(d) /\ Then(d, Restores(Next1(d).got))
        /\ Returns(d, FALSE, <<>>) /\ <<>> \in Seq(Records)
        /\ Next1(d).got \in Seq(Records)
    BY <1>7, Top, NoRecs DEF LoadFails, At, RolledBack
  <2>2. mishaps' \in 0..MaxMishaps
    BY <1>0, <1>7, MishapsTyped, Unpacked DEF LoadFails
  <2> QED
    BY <1>0, <1>7, <2>1, <2>2, RestoresTyped, ReturnsTyped, TypedParts, Unpacked,
       CacheTyped DEF LoadFails
<1>8. CASE Confirmed(d)
  <2>1. Busy(d) /\ Then(d, <<>>)
    BY <1>8 DEF Confirmed, At
  <2>2. evicted' \in [Delegations -> Seq(Records)]
    BY <1>0, <1>8, Unpacked DEF Confirmed
  <2> QED
    BY <1>0, <1>8, <2>1, <2>2, Pops, TypedParts, Unpacked, MishapsTyped, CacheTyped
       DEF Confirmed
<1>9. CASE Mute(d)
  <2>1. todo' \in [Delegations -> Seq(Calls)] /\ CallsNest'
    BY <1>0, <1>9, RestoresAlone DEF Mute
  <2> QED
    BY <1>0, <1>9, <2>1, TypedParts, Unpacked, MishapsTyped, CacheTyped DEF Mute
<1>10. CASE Polls(d)
  <2>1. todo' = todo
    BY <1>10 DEF Polls
  <2>2. CallsNest'
    BY <2>1 DEF Typed, CallsNest, Nested, FrameOK
  <2> QED
    BY <1>0, <1>10, <2>2, TypedParts, Unpacked, MishapsTyped, CacheTyped DEF Polls
<1>11. CASE FallsBack(d)
  <2>1. evicted' \in [Delegations -> Seq(Records)]
    BY <1>0, <1>11, Unpacked DEF FallsBack
  <2>2. todo' \in [Delegations -> Seq(Calls)] /\ CallsNest'
    BY <1>11, FallsBackIs, InPlace
  <2> QED
    BY <1>0, <1>11, <2>1, <2>2, TypedParts, Unpacked, MishapsTyped DEF FallsBack
<1>12. CASE Allround(d)
  <2>1. Busy(d) /\ Then(d, <<>>)
    BY <1>12 DEF Allround, At
  <2> QED
    BY <1>0, <1>12, <2>1, Pops, TypedParts, Unpacked, MishapsTyped, CacheTyped
       DEF Allround
<1>13. CASE Prepare(d)
  <2>1. todo' \in [Delegations -> Seq(Calls)] /\ CallsNest'
    <3>1. CASE Then(d, <<>>)
      BY <1>13, <3>1, Pops DEF Prepare, At
    <3>2. CASE todo' = [todo EXCEPT ![d] = <<>>]
      <4>1. <<>> \in Seq(Calls) /\ Nested(<<>>)
        BY DEF Nested
      <4> QED  BY <3>2, <4>1, Replaced
    <3> QED  BY <1>13, <3>1, <3>2 DEF Prepare
  <2>2. dropped' \in BOOLEAN /\ mishaps' \in 0..MaxMishaps
    BY <1>0, <1>13, MishapsTyped DEF Prepare, TypeOK
  <2> QED  BY <1>0, <1>13, <2>1, <2>2, TypedParts, Unpacked DEF Prepare
<1>14. CASE Child(d)
  <2>1. todo' \in [Delegations -> Seq(Calls)] /\ CallsNest'
    BY <1>0, <1>14, RestoresTyped DEF Child, At
  <2> QED  BY <1>0, <1>14, <2>1, TypedParts, Unpacked, MishapsTyped DEF Child
<1>15. CASE RestoreSlot(d)
  <2> DEFINE rec == Record(d)
             a == StartSlot(rec, Leftovers(rec))
             b == Remaining(d)
  <2>1. Busy(d) /\ Then(d, <<a, b>>) /\ OwnPreset(rec) /\ HasRecord(d)
    BY <1>15 DEF RestoreSlot, HasRecord, At
  <2>2. rec \in Records /\ Tail(Next1(d).recs) \in Seq(Records)
    BY <2>1, Top DEF HasRecord, Record
  <2>3. rec \in SlotRecs /\ Assigned[rec.slot] \in Models
    BY <2>1, <2>2, Recs, SwapAssumption DEF Records
  <2>4. Leftovers(rec) \in Seq(Records)
    BY <1>0, <2>3, LeftoversIn
  <2>5. /\ a \in Calls /\ a.op = "start" /\ a.rec = rec
        /\ b \in Calls /\ b.op = "restore" /\ b.got = <<>>
    <3>1. a \in Calls /\ b \in Calls
      BY <2>2, <2>4, CallsTyped DEF Remaining
    <3> QED  BY <3>1 DEF StartSlot, Remaining, Restore, Call
  <2>6. todo' \in [Delegations -> Seq(Calls)] /\ CallsNest'
    <3> HIDE DEF a, b, rec
    <3>1. Then(d, <<a, b>>) /\ Busy(d)
      BY <2>1
    <3> DEFINE c == <<a, b>>
               t == c \o Tail(todo[d])
    <3>2. c \in Seq(Calls) /\ Len(c) = 2 /\ c[1] = a /\ c[2] = b
      BY <2>5
    <3>3. t[1] = a /\ t[2] = b /\ Len(t) = Len(todo[d]) + 1
      <4>1. todo[d] \in Seq(Calls) /\ todo[d] # <<>> /\ Len(todo[d]) \in Nat
        BY <3>1, Top
      <4> HIDE DEF c
      <4>2. Len(t) = (Len(c) + Len(todo[d])) - 1 /\ \A i \in 1..Len(c) : t[i] = c[i]
        BY <3>2, <4>1, Pushed
      <4> HIDE DEF t
      <4> QED  BY <3>2, <4>1, <4>2
    <3>4. FrameOK(t, 1) /\ FrameOK(t, 2)
      <4>1. Len(todo[d]) \in Nat /\ Len(todo[d]) >= 1
        BY <3>1, Top
      <4> HIDE DEF t
      <4> QED  BY <2>1, <2>3, <2>5, <3>3, <4>1 DEF FrameOK
    <3>5. \A i \in 1..Len(c) : i = 1 \/ i = 2
      BY <3>2
    <3> HIDE DEF c
    <3>6. \A i \in 1..Len(c) : FrameOK(c \o Tail(todo[d]), i)
      BY <3>4, <3>5
    <3> QED  BY <3>1, <3>2, <3>6, Moves DEF c
  <2>7. cache' \in [SlotSet -> Models \cup {NoModel, Unset}]
    BY <1>0, <1>15, CacheTyped DEF RestoreSlot, PlanProbes
  <2> QED
    BY <1>0, <1>15, <2>6, <2>7, TypedParts, Unpacked, MishapsTyped DEF RestoreSlot
<1>16. CASE RestoreByUse(d)
  <2> DEFINE rec == Record(d)
             u == Use(rec.preset, FALSE)
             a == Note(rec)
             b == Remaining(d)
  <2>1. Busy(d) /\ Then(d, <<u, a, b>>) /\ ~OwnPreset(rec) /\ HasRecord(d)
    BY <1>16 DEF RestoreByUse, HasRecord, At
  <2>2. rec \in Records /\ Tail(Next1(d).recs) \in Seq(Records)
    BY <2>1, Top DEF HasRecord, Record
  <2>3. rec.preset \in Models
    BY <2>1, <2>2, Recs DEF Records, OwnPreset
  <2>4. /\ u \in Calls /\ u.op = "use" /\ u.m = rec.preset /\ u.got = <<>>
        /\ a \in Calls /\ a.op = "note" /\ a.rec = rec /\ a.got = <<>>
        /\ b \in Calls /\ b.op = "restore" /\ b.got = <<>>
    <3>1. u \in Calls /\ a \in Calls /\ b \in Calls
      BY <2>2, <2>3, CallsTyped DEF Remaining
    <3> QED  BY <3>1 DEF Use, Note, Remaining, Restore, Call
  <2>5. todo' \in [Delegations -> Seq(Calls)] /\ CallsNest'
    <3> HIDE DEF u, a, b, rec
    <3>1. Then(d, <<u, a, b>>) /\ Busy(d)
      BY <2>1
    <3> DEFINE c == <<u, a, b>>
               t == c \o Tail(todo[d])
    <3>2. c \in Seq(Calls) /\ Len(c) = 3 /\ c[1] = u /\ c[2] = a /\ c[3] = b
      BY <2>4
    <3>3. t[1] = u /\ t[2] = a /\ t[3] = b /\ Len(t) = Len(todo[d]) + 2
      <4>1. todo[d] \in Seq(Calls) /\ todo[d] # <<>> /\ Len(todo[d]) \in Nat
        BY <3>1, Top
      <4> HIDE DEF c
      <4>2. Len(t) = (Len(c) + Len(todo[d])) - 1 /\ \A i \in 1..Len(c) : t[i] = c[i]
        BY <3>2, <4>1, Pushed
      <4> HIDE DEF t
      <4> QED  BY <3>2, <4>1, <4>2
    <3>4. FrameOK(t, 1) /\ FrameOK(t, 2) /\ FrameOK(t, 3)
      <4>1. Len(todo[d]) \in Nat /\ Len(todo[d]) >= 1
        BY <3>1, Top
      <4> HIDE DEF t
      <4> QED  BY <2>1, <2>2, <2>3, <2>4, <3>3, <4>1 DEF FrameOK
    <3>5. \A i \in 1..Len(c) : i = 1 \/ i = 2 \/ i = 3
      BY <3>2
    <3> HIDE DEF c
    <3>6. \A i \in 1..Len(c) : FrameOK(c \o Tail(todo[d]), i)
      BY <3>4, <3>5
    <3> QED  BY <3>1, <3>2, <3>6, Moves DEF c
  <2> QED
    BY <1>0, <1>16, <2>5, TypedParts, Unpacked, MishapsTyped DEF RestoreByUse
<1>17. CASE Start(d)
  <2>1. Next1(d).rec.slot \in SlotSet
    BY <1>17, StartIs, Recs
  <2>2. todo' \in [Delegations -> Seq(Calls)] /\ CallsNest'
    BY <1>17, StartIs, InPlace
  <2>3. armed' \subseteq SlotSet /\ up' \subseteq armed'
    BY <1>0, <1>17, <2>1 DEF Start, TypeOK
  <2> QED
    BY <1>0, <1>17, <2>2, <2>3, TypedParts, Unpacked, MishapsTyped, CacheTyped DEF Start
<1>18. CASE WaitEnds(d)
  <2>1. Busy(d) /\ At(d, "wait") /\ Then(d, <<>>)
    BY <1>18 DEF WaitEnds, At
  <2>2. Assigned[Next1(d).rec.slot] \in Models
    <3>1. Next1(d).rec \in SlotRecs
      BY <2>1, Top DEF At, FrameOK
    <3>2. Next1(d).rec.slot \in SlotSet
      BY <3>1, Recs
    <3> QED  BY <3>2, SwapAssumption
  <2>3. reported' \subseteq Models /\ mishaps' \in 0..MaxMishaps
    BY <1>0, <1>18, <2>2, MishapsTyped DEF WaitEnds, TypeOK
  <2> QED  BY <1>0, <1>18, <2>1, <2>3, Pops, TypedParts, Unpacked DEF WaitEnds
<1>19. CASE NoteUse(d)
  <2>1. Busy(d) /\ At(d, "note") /\ Then(d, <<>>)
    BY <1>19 DEF NoteUse, At
  <2>2. Next1(d).rec \in Records /\ ~OwnPreset(Next1(d).rec)
    BY <2>1, Top DEF At, FrameOK
  <2>3. Next1(d).rec.preset \in Models
    BY <2>2, Recs DEF Records, OwnPreset
  <2>4. reported' \subseteq Models
    BY <1>0, <1>19, <2>3 DEF NoteUse, TypeOK
  <2> QED
    BY <1>0, <1>19, <2>1, <2>4, Pops, TypedParts, Unpacked, MishapsTyped DEF NoteUse
<1>20. CASE RestoreEnds(d)
  <2>1. Busy(d) /\ Then(d, <<>>) /\ Returns(d, FALSE, <<>>) /\ <<>> \in Seq(Records)
    BY <1>20, NoRecs DEF RestoreEnds, At
  <2> QED
    BY <1>0, <1>20, <2>1, Pops, ReturnsTyped, TypedParts, Unpacked, MishapsTyped,
       CacheTyped DEF RestoreEnds
<1> QED
  BY <1>1, <1>2, <1>3, <1>4, <1>5, <1>6, <1>7, <1>8, <1>9, <1>10, <1>11, <1>12, <1>13,
     <1>14, <1>15, <1>16, <1>17, <1>18, <1>19, <1>20 DEF Step

\* Every step does.
LEMMA TypedStep ==
    ASSUME Typed, [Next]_vars
    PROVE  Typed'
<1> USE DEF machine, history
<1>0. TypeOK
  BY DEF Typed
<1>1. CASE UNCHANGED vars
  BY <1>1 DEF vars, Typed, TypeOK, CallsNest, Nested, FrameOK
<1>2. ASSUME NEW d \in Delegations, Begin(d) PROVE Typed'
  BY <1>2, BeginTyped
<1>3. ASSUME NEW d \in Delegations, Step(d) PROVE Typed'
  BY <1>3, StepTyped
<1>4. ASSUME NEW d \in Delegations, Cancel(d) PROVE Typed'
  <2>1. todo' = [todo EXCEPT ![d] = <<>>] /\ <<>> \in Seq(Calls) /\ Nested(<<>>)
    BY <1>4 DEF Cancel, Nested
  <2>2. todo' \in [Delegations -> Seq(Calls)] /\ CallsNest'
    BY <2>1, Replaced
  <2> QED  BY <1>0, <1>4, <2>2, TypedParts, Unpacked, MishapsTyped DEF Cancel
<1>5. todo' = todo => CallsNest'
  BY DEF Typed, CallsNest, Nested, FrameOK
<1>6. ASSUME NEW s \in SlotSet, SlotComesUp(s) PROVE Typed'
  <2>1. armed' \subseteq SlotSet /\ up' \subseteq armed'
    BY <1>0, <1>6 DEF SlotComesUp, TypeOK
  <2> QED  BY <1>0, <1>5, <1>6, <2>1, TypedParts, Unpacked, MishapsTyped DEF SlotComesUp
<1>7. ASSUME NEW s \in SlotSet, Expires(s) PROVE Typed'
  <2>1. cache' \in [SlotSet -> Models \cup {NoModel, Unset}]
    BY <1>0, <1>7 DEF Expires, TypeOK
  <2> QED  BY <1>0, <1>5, <1>7, <2>1, TypedParts, Unpacked, MishapsTyped DEF Expires
<1>8. ASSUME NEW m \in Models, Answers(m) PROVE Typed'
  <2>1. served' \subseteq Models /\ loading' \subseteq served'
    BY <1>0, <1>8 DEF Answers, TypeOK
  <2> QED  BY <1>0, <1>5, <1>8, <2>1, TypedParts, Unpacked, MishapsTyped DEF Answers
<1> QED  BY <1>1, <1>2, <1>3, <1>4, <1>6, <1>7, <1>8 DEF Next

\* They hold at the beginning.
LEMMA TypedInit ==
    ASSUME Init PROVE Typed
<1>1. TypeOK
  <2>1. <<>> \in Seq(Calls) /\ <<>> \in Seq(Records)
    OBVIOUS
  <2>2. ret \in [Delegations -> [ok : BOOLEAN, evicted : Seq(Records)]]
    BY <2>1 DEF Init, Nothing
  <2>3. cache \in [SlotSet -> Models \cup {NoModel, Unset}] /\ mishaps \in 0..MaxMishaps
        /\ served \subseteq Models
    BY SwapAssumption DEF Init
  <2>4. todo \in [Delegations -> Seq(Calls)] /\ evicted \in [Delegations -> Seq(Records)]
    BY <2>1 DEF Init
  <2> QED  BY <2>2, <2>3, <2>4 DEF Init, TypeOK
<1>2. CallsNest
  <2>1. \A i \in 1..Len(<<>>) : FALSE
    OBVIOUS
  <2> QED  BY <2>1 DEF Init, CallsNest, Nested
<1> QED  BY <1>1, <1>2 DEF Typed

\* Type correctness, and the shape of the stacks: every call is made by a call
\* that waits for it, a load by a model.use, a start by a restore, and only the
\* call on top has evicted something it has not handed over.
THEOREM SwapTyped == Spec => []Typed
<1>1. Init => Typed
  BY TypedInit
<1>2. Typed /\ [Next]_vars => Typed'
  BY TypedStep
<1> QED  BY <1>1, <1>2, PTL DEF Spec

\* A step of one delegation leaves the stacks of the others alone.
LEMMA Others ==
    ASSUME Typed, NEW d \in Delegations, NEW t, todo' = [todo EXCEPT ![d] = t],
           NEW e \in Delegations, e # d
    PROVE  /\ Frames(e)' = Frames(e) /\ Below(e)' = Below(e)
           /\ Busy(e)' <=> Busy(e)
           /\ Next1(e)' = Next1(e) /\ (Restoring(e)' <=> Restoring(e))
<1>1. todo'[e] = todo[e]
  BY DEF Typed, TypeOK
<1> QED  BY <1>1 DEF Frames, Below, Busy, Next1, Restoring

\* A delegation that was cut off is in no call.
LEMMA Cleared ==
    ASSUME Typed, NEW d \in Delegations, todo' = [todo EXCEPT ![d] = <<>>]
    PROVE  ~Busy(d)' /\ Frames(d)' = {} /\ ~Restoring(d)'
<1>1. todo'[d] = <<>>
  BY DEF Typed, TypeOK
<1>2. Len(<<>>) = 0 /\ DOMAIN <<>> = {}
  OBVIOUS
<1> QED  BY <1>1, <1>2 DEF Busy, Frames, Restoring

\* A delegation that has nothing left but a restore.
LEMMA RestoresOnly ==
    ASSUME Typed, NEW d \in Delegations, NEW q \in Seq(Records),
           todo' = [todo EXCEPT ![d] = Restores(q)]
    PROVE  \/ q = <<>> /\ ~Busy(d)' /\ Frames(d)' = {}
           \/ /\ Busy(d)' /\ Frames(d)' = {Next1(d)'}
              /\ Next1(d)'.op = "restore" /\ Promises(Next1(d)'.recs) = Promises(q)
              /\ Next1(d)'.got = <<>> /\ Next1(d)'.recs \in Seq(Records)
              /\ \A k \in DOMAIN Next1(d)'.recs :
                    \E j \in DOMAIN q : Next1(d)'.recs[k] = q[j]
<1>1. CASE q = <<>>
  BY <1>1, RestoresIs, Cleared
<1>2. CASE q # <<>>
  <2>1. PICK x \in Calls : /\ Restores(q) = <<x>> /\ x.op = "restore" /\ x.got = <<>>
                           /\ x.recs \in Seq(Records) /\ Promises(x.recs) = Promises(q)
                           /\ \A k \in DOMAIN x.recs : \E j \in DOMAIN q : x.recs[k] = q[j]
    BY <1>2, RestoresOne
  <2> DEFINE t == <<x>>
  <2>2. todo'[d] = t
    BY <2>1 DEF Typed, TypeOK
  <2>3. t # <<>> /\ Head(t) = x /\ Len(t) = 1 /\ t[1] = x
    OBVIOUS
  <2> HIDE DEF t
  <2>4. Busy(d)' /\ Next1(d)' = x
    BY <2>2, <2>3 DEF Busy, Next1
  <2>5. Frames(d)' = {x}
    <3>1. Frames(d)' = {t[i] : i \in 1..1}
      BY <2>2, <2>3 DEF Frames
    <3>2. \A i \in 1..1 : i = 1
      OBVIOUS
    <3> QED  BY <2>3, <3>1, <3>2
  <2> QED  BY <2>1, <2>4, <2>5
<1> QED  BY <1>1, <1>2

\* A step that puts no restore on the stack and takes none off.
LEMMA RestoringAfter ==
    ASSUME Typed, Typed', NEW d \in Delegations, Busy(d)
    PROVE  /\ Next1(d).op # "restore" /\ Frames(d)' = Below(d) =>
                 (Restoring(d)' <=> Restoring(d))
           /\ \A x : /\ Next1(d).op # "restore" /\ x.op # "restore"
                     /\ Frames(d)' = {x} \cup Below(d)
                     => (Restoring(d)' <=> Restoring(d))
<1>1. Frames(d) = {Next1(d)} \cup Below(d)
      /\ (Restoring(d) <=> \E f \in Frames(d) : f.op = "restore")
  BY FramesNow
<1>2. Restoring(d)' <=> \E f \in Frames(d)' : f.op = "restore"
  <2>1. todo' \in [Delegations -> Seq(Calls)]
    BY DEF Typed, TypeOK
  <2>2. todo'[d] \in Seq(Calls) /\ DOMAIN todo'[d] = 1..Len(todo'[d])
    BY <2>1
  <2> QED  BY <2>2 DEF Restoring, Frames
<1> QED  BY <1>1, <1>2

-----------------------------------------------------------------------------
(* The brain.                                                               *)

\* A call that will not stop the brain.
Spares(c) ==
    /\ c.op = "use" => ~c.brain
    /\ c.op \in {"load", "start"} => \A k \in DOMAIN c.recs : c.recs[k].slot # Brain
BrainKept == \A d \in Delegations : Busy(d) /\ Restoring(d) => Spares(Next1(d))

\* Each step of a delegation preserves BrainKept for it.
LEMMA BrainKeptStep ==
    ASSUME Typed, Typed', BrainKept, NEW d \in Delegations, Step(d)
    PROVE  Busy(d)' /\ Restoring(d)' => Spares(Next1(d))'
<1> SUFFICES ASSUME Busy(d)', Restoring(d)' PROVE Spares(Next1(d)')
  BY DEF Spares
<1>0. Busy(d)
  BY DEF Step, UseAtOnce, UsePlans, StopSlot, StopServe, LoadRefused, Loads, LoadFails,
         Confirmed, Mute, Polls, FallsBack, Allround, Prepare, Child, RestoreSlot,
         RestoreByUse, Start, WaitEnds, NoteUse, RestoreEnds, At, Evicting, HasRecord
<1>1. Next1(d)'.op \notin {"use", "load", "start"} => Spares(Next1(d)')
  BY DEF Spares
<1>2. CASE Then(d, <<>>)
  BY <1>0, <1>1, <1>2, AfterPop, FramesNow
<1>3. CASE \E q \in Seq(Records) : Then(d, Restores(q))
  <2> PICK q \in Seq(Records) : Then(d, Restores(q))
    BY <1>3
  <2>1. CASE q = <<>>
    BY <1>2, <2>1, RestoresIs
  <2>2. CASE q # <<>>
    <3> DEFINE x == Restore(Reverse(q))
    <3>1. Then(d, <<x>>) /\ x \in Calls /\ x.op = "restore"
      BY <2>2, RestoresIs, CallsTyped DEF Restore, Call
    <3> HIDE DEF x
    <3>2. Next1(d)' = x
      BY <1>0, <3>1, AfterPush
    <3> QED  BY <1>1, <3>1, <3>2
  <2> QED  BY <2>1, <2>2
<1>4. CASE UsePlans(d)
  <2>1. PICK n \in Calls : /\ Then(d, <<n>>) /\ n.op = "load"
                           /\ n.recs = Plan(n.m, Next1(d).brain) /\ n.m = Next1(d).m
    BY <1>4, UsePlansIs
  <2>2. Next1(d).op = "use" /\ Next1(d).m \in Models /\ Next1(d).brain \in BOOLEAN
    BY <1>4, UsePlansIs
  <2>3. Next1(d)' = n /\ Frames(d)' = {n} \cup Below(d)
    BY <1>0, <2>1, AfterPush
  <2>4. Restoring(d)
    BY <1>0, <2>1, <2>2, <2>3, RestoringAfter
  <2>5. Next1(d).brain = FALSE
    BY <1>0, <2>2, <2>4 DEF BrainKept, Spares
  <2>6. \A k \in DOMAIN n.recs : n.recs[k].slot # Brain
    BY <2>1, <2>2, <2>5, PlanSpares DEF Typed
  <2> QED  BY <2>1, <2>3, <2>6 DEF Spares
<1>5. CASE StopSlot(d) \/ StopServe(d)
  <2>1. PICK kind : Evicting(d, kind) /\ (Stopped(d) \/ NotStopped(d))
    BY <1>5 DEF StopSlot, StopServe
  <2>2. /\ Next1(d).op \in {"load", "start"}
        /\ \A k \in DOMAIN Tail(Next1(d).recs) : /\ k + 1 \in DOMAIN Next1(d).recs
                                                 /\ Tail(Next1(d).recs)[k] = Next1(d).recs[k + 1]
    BY <2>1, StopIs
  <2>3. PICK x \in Calls : Then(d, <<x>>) /\ x.op = Next1(d).op /\ x.recs = Tail(Next1(d).recs)
    BY <2>1, StopIs
  <2>4. Next1(d)' = x /\ Frames(d)' = {x} \cup Below(d)
    BY <1>0, <2>3, AfterPush
  <2>5. Restoring(d)
    BY <1>0, <2>2, <2>3, <2>4, RestoringAfter
  <2>6. \A k \in DOMAIN Next1(d).recs : Next1(d).recs[k].slot # Brain
    BY <1>0, <2>2, <2>5 DEF BrainKept, Spares
  <2> QED  BY <2>2, <2>3, <2>4, <2>6 DEF Spares
<1>6. CASE \E x \in Calls : x.op \in {"wait", "allround"} /\ Then(d, <<x>>)
  <2> PICK x \in Calls : x.op \in {"wait", "allround"} /\ Then(d, <<x>>)
    BY <1>6
  <2>1. Next1(d)' = x
    BY <1>0, AfterPush
  <2> QED  BY <1>1, <2>1
<1>7. CASE Mute(d) \/ (Prepare(d) /\ todo' = [todo EXCEPT ![d] = <<>>])
  <2>1. CASE todo' = [todo EXCEPT ![d] = <<>>]
    BY <2>1, Cleared
  <2>2. CASE Mute(d)
    <3>1. ret[d].evicted \in Seq(Records)
      BY DEF Typed, TypeOK
    <3> QED  BY <1>1, <2>2, <3>1, RestoresOnly DEF Mute
  <2> QED  BY <1>7, <2>1, <2>2
<1>8. CASE Polls(d)
  <2>1. Next1(d)' = Next1(d) /\ Next1(d).op = "confirm"
    BY <1>8 DEF Polls, At, Next1
  <2> QED  BY <1>1, <2>1
<1>9. CASE RestoreSlot(d)
  <2>1. PICK a, b \in Calls : /\ Then(d, <<a, b>>) /\ a.op = "start"
                              /\ \A k \in DOMAIN a.recs : a.recs[k].slot # Brain
    BY <1>9, RestoreSlotIs
  <2>2. Next1(d)' = a
    BY <1>0, <2>1, AfterPush
  <2> QED  BY <2>1, <2>2 DEF Spares
<1>10. CASE RestoreByUse(d)
  <2>1. PICK u, a, b \in Calls : RestoresByUse(d, u, a, b)
    BY <1>10, RestoreByUseIs
  <2>2. Next1(d)' = u
    BY <1>0, <2>1, AfterPush DEF RestoresByUse
  <2> QED  BY <2>1, <2>2 DEF Spares, RestoresByUse
<1>11. CASE Start(d)
  BY <1>6, <1>11, StartIs
<1>12. CASE FallsBack(d)
  BY <1>6, <1>12, FallsBackIs
<1>13. CASE LoadFails(d)
  BY <1>0, <1>3, <1>13, Top DEF LoadFails, RolledBack
<1>14. CASE Child(d)
  <2>1. evicted[d] \in Seq(Records)
    BY DEF Typed, TypeOK
  <2> QED  BY <1>3, <1>14, <2>1 DEF Child
<1>15. CASE UseAtOnce(d) \/ LoadRefused(d) \/ Loads(d) \/ Confirmed(d) \/ Allround(d)
            \/ WaitEnds(d) \/ NoteUse(d) \/ RestoreEnds(d)
  BY <1>2, <1>15 DEF UseAtOnce, LoadRefused, Loads, Confirmed, Allround, WaitEnds,
                     NoteUse, RestoreEnds
<1> QED
  BY <1>2, <1>4, <1>5, <1>7, <1>8, <1>9, <1>10, <1>11, <1>12, <1>13, <1>14, <1>15
     DEF Step, Prepare

\* A step that changes no stack.
LEMMA SameStack ==
    ASSUME todo' = todo, NEW d \in Delegations
    PROVE  /\ Frames(d)' = Frames(d) /\ Below(d)' = Below(d)
           /\ Busy(d)' <=> Busy(d)
           /\ Next1(d)' = Next1(d) /\ (Restoring(d)' <=> Restoring(d))
  BY DEF Frames, Below, Busy, Next1, Restoring

\* A step changes the stack of its own delegation only.
LEMMA OwnStack ==
    ASSUME NEW d \in Delegations, Begin(d) \/ Step(d) \/ Cancel(d)
    PROVE  todo' = todo \/ \E t : todo' = [todo EXCEPT ![d] = t]
  BY DEF Begin, Step, Cancel, UseAtOnce, UsePlans, StopSlot, StopServe, LoadRefused,
         Loads, LoadFails, Confirmed, Mute, Polls, FallsBack, Allround, Prepare, Child,
         RestoreSlot, RestoreByUse, Start, WaitEnds, NoteUse, RestoreEnds, Then, Stopped,
         NotStopped

\* So the others' calls are what they were.
LEMMA OthersKeep ==
    ASSUME Typed, NEW d \in Delegations, Begin(d) \/ Step(d) \/ Cancel(d),
           NEW e \in Delegations, e # d
    PROVE  /\ Frames(e)' = Frames(e) /\ Below(e)' = Below(e)
           /\ Busy(e)' <=> Busy(e)
           /\ Next1(e)' = Next1(e) /\ (Restoring(e)' <=> Restoring(e))
<1>1. CASE todo' = todo
  BY <1>1, SameStack
<1>2. CASE \E t : todo' = [todo EXCEPT ![d] = t]
  BY <1>2, Others
<1> QED  BY <1>1, <1>2, OwnStack

\* The stack of a delegation that begins.
LEMMA BeginIs ==
    ASSUME Typed, Typed', NEW d \in Delegations, Begin(d)
    PROVE  /\ Busy(d)' /\ ~Restoring(d)'
           /\ \/ Next1(d)'.op = "use" /\ Next1(d)'.m = Newcomer[d] /\ Next1(d)'.brain
              \/ Next1(d)'.op = "prepare"
           /\ \A f \in Frames(d)' : /\ f.op \in {"use", "confirm", "prepare", "child"}
                                    /\ f.op = "use" => f.m = Newcomer[d]
<1> DEFINE u == Use(Newcomer[d], TRUE)
           c == Call("confirm")
           p == Call("prepare")
           e == Call("child")
<1>1. u \in Calls /\ c \in Calls /\ p \in Calls /\ e \in Calls
  BY SwapAssumption, CallsTyped DEF Ops
<1>2. /\ u.op = "use" /\ u.m = Newcomer[d] /\ u.brain
      /\ c.op = "confirm" /\ p.op = "prepare" /\ e.op = "child"
  BY DEF Use, Call
<1>3. todo'[d] = <<p, e>> \/ todo'[d] = <<u, c, p, e>>
  <2>1. \/ todo' = [todo EXCEPT ![d] = <<>> \o <<p, e>>]
        \/ todo' = [todo EXCEPT ![d] = <<u, c>> \o <<p, e>>]
    BY DEF Begin
  <2> HIDE DEF u, c, p, e
  <2> QED  BY <1>1, <2>1, Tuples DEF Typed, TypeOK
<1> HIDE DEF u, c, p, e
<1>4. PICK t \in Seq(Calls) :
        /\ todo'[d] = t /\ Len(t) \in {2, 4} /\ t # <<>>
        /\ Head(t) = u \/ Head(t) = p
        /\ \A i \in 1..Len(t) : t[i] \in {u, c, p, e}
  <2>1. CASE todo'[d] = <<p, e>>
    <3> DEFINE s == <<p, e>>
    <3>1. /\ s \in Seq(Calls) /\ Len(s) = 2 /\ s # <<>> /\ Head(s) = p
          /\ \A i \in 1..2 : s[i] \in {u, c, p, e}
      BY <1>1
    <3> HIDE DEF s
    <3>2. todo'[d] = s
      BY <2>1 DEF s
    <3> QED  BY <3>1, <3>2
  <2>2. CASE todo'[d] = <<u, c, p, e>>
    <3> DEFINE s == <<u, c, p, e>>
    <3>1. /\ s \in Seq(Calls) /\ Len(s) = 4 /\ s # <<>> /\ Head(s) = u
          /\ \A i \in 1..4 : s[i] \in {u, c, p, e}
      BY <1>1
    <3> HIDE DEF s
    <3>2. todo'[d] = s
      BY <2>2 DEF s
    <3> QED  BY <3>1, <3>2
  <2> QED  BY <1>3, <2>1, <2>2
<1>5. Busy(d)' /\ Next1(d)' = Head(t)
  BY <1>4 DEF Busy, Next1
<1>6. \A f \in Frames(d)' : f \in {u, c, p, e}
  BY <1>4 DEF Frames
<1>7. ~Restoring(d)'
  <2>1. DOMAIN t = 1..Len(t)
    BY <1>4
  <2> QED  BY <1>2, <1>4, <2>1 DEF Restoring
<1> QED  BY <1>2, <1>4, <1>5, <1>6, <1>7

\* Every step preserves BrainKept.
LEMMA BrainKeptNext ==
    ASSUME Typed, Typed', BrainKept, [Next]_vars
    PROVE  BrainKept'
<1> SUFFICES ASSUME NEW d \in Delegations, Busy(d)', Restoring(d)'
             PROVE  Spares(Next1(d)')
  BY DEF BrainKept, Spares
<1>1. CASE todo' = todo
  BY <1>1, SameStack DEF BrainKept
<1>2. ASSUME NEW e \in Delegations, Begin(e) \/ Step(e) \/ Cancel(e), e # d
      PROVE  Spares(Next1(d)')
  BY <1>2, OthersKeep DEF BrainKept
<1>3. CASE Begin(d)
  BY <1>3, BeginIs
<1>4. CASE Step(d)
  BY <1>4, BrainKeptStep DEF Spares
<1>5. CASE Cancel(d)
  BY <1>5, Cleared DEF Cancel
<1> QED
  BY <1>1, <1>2, <1>3, <1>4, <1>5
     DEF Next, vars, SlotComesUp, Expires, Answers

\* Only StopSlot takes the server of a slot down.
LEMMA OnlyStops ==
    ASSUME NEW s, s \in up, s \notin up', [Next]_vars
    PROVE  \E d \in Delegations : StopSlot(d) /\ s = Head(Next1(d).recs).slot
<1>1. CASE UNCHANGED vars
  BY <1>1 DEF vars, machine
<1>2. ASSUME NEW d \in Delegations, Begin(d) \/ Step(d) \/ Cancel(d)
      PROVE  StopSlot(d) /\ s = Head(Next1(d).recs).slot
  BY <1>2 DEF Begin, Step, Cancel, UseAtOnce, UsePlans, StopSlot, StopServe, LoadRefused,
         Loads, LoadFails, Confirmed, Mute, Polls, FallsBack, Allround, Prepare, Child,
         RestoreSlot, RestoreByUse, Start, WaitEnds, NoteUse, RestoreEnds, machine
<1>3. ASSUME NEW t \in SlotSet, SlotComesUp(t) \/ Expires(t) PROVE FALSE
  BY <1>3 DEF SlotComesUp, Expires, machine
<1>4. ASSUME NEW m \in Models, Answers(m) PROVE FALSE
  BY <1>4 DEF Answers
<1> QED  BY <1>1, <1>2, <1>3, <1>4 DEF Next

\* Only a delegation's own swap stops the brain's slot (include_brain with
\* ctx._allow_brain_evict): no restore does, neither by the stops that make room
\* for a slot nor by a model.use it calls.  Holds with overlapping delegations.
THEOREM BrainIsSpared == Spec => BrainSpared
<1>1. Init => Typed /\ BrainKept
  BY TypedInit DEF Init, BrainKept, Busy
<1>2. Typed /\ BrainKept /\ [Next]_vars => (Typed /\ BrainKept)'
  BY TypedStep, BrainKeptNext
<1>3. Typed /\ BrainKept /\ [Next]_vars =>
        [Brain \notin up' /\ Brain \in up
           => \E d \in Delegations : At(d, "load") /\ ~Restoring(d)]_vars
  <2> SUFFICES ASSUME Typed, BrainKept, [Next]_vars, Brain \notin up', Brain \in up
               PROVE  \E d \in Delegations : At(d, "load") /\ ~Restoring(d)
    OBVIOUS
  <2>1. PICK d \in Delegations : StopSlot(d) /\ Brain = Head(Next1(d).recs).slot
    BY OnlyStops
  <2>2. /\ Busy(d) /\ Next1(d).op \in {"load", "start"} /\ Next1(d).recs # <<>>
        /\ Head(Next1(d).recs) = Next1(d).recs[1]
    BY <2>1, StopIs DEF StopSlot
  <2>3. 1 \in DOMAIN Next1(d).recs
    BY <2>2, Top
  <2>4. ~Restoring(d)
    BY <2>1, <2>2, <2>3 DEF BrainKept, Spares
  <2>5. Next1(d).op # "start"
    <3> SUFFICES ASSUME Next1(d).op = "start" PROVE FALSE
      OBVIOUS
    <3>1. 1 < Len(todo[d]) /\ todo[d][2].op = "restore" /\ Len(todo[d]) \in Nat
      BY <2>2, Top DEF FrameOK
    <3>2. 2 \in 1..Len(todo[d])
      BY <3>1
    <3>3. todo[d][2] \in Frames(d)
      BY <3>2 DEF Frames
    <3> QED  BY <2>4, <3>1, <3>3, FramesNow
  <2> QED  BY <2>2, <2>4, <2>5 DEF At
<1> QED  BY <1>1, <1>2, <1>3, PTL DEF Spec, BrainSpared

-----------------------------------------------------------------------------
(* What a call's caller is.                                                 *)

\* A delegation's own calls have no restore below them, those of a restore do.
LEMMA Under ==
    ASSUME Typed, NEW d \in Delegations, Busy(d)
    PROVE  /\ Next1(d).op \in {"confirm", "allround", "prepare", "child"} =>
                 \A f \in Below(d) : f.op \in {"prepare", "child"}
           /\ Next1(d).op \in {"start", "wait", "note", "restore"} => Restoring(d)
           /\ Next1(d).op \in {"use", "load"} =>
                 \/ Restoring(d) /\ todo[d][2].op = "note"
                 \/ /\ \A f \in Below(d) : f.op \in {"confirm", "prepare", "child"}
                    /\ ~Restoring(d) /\ todo[d][2].op = "confirm"
<1> DEFINE s == todo[d]
<1>1. s \in Seq(Calls) /\ Len(s) \in Nat /\ Next1(d) = s[1] /\ Nested(s) /\ Len(s) >= 1
  BY Top DEF Typed, CallsNest
<1> HIDE DEF s
<1>2. \A i \in 1..Len(s) : FrameOK(s, i)
  BY <1>1 DEF Nested
<1>3. /\ Below(d) = {s[i] : i \in 2..Len(s)} /\ Frames(d) = {s[i] : i \in 1..Len(s)}
      /\ todo[d][2] = s[2]
  BY DEF s, Below, Frames
<1>4. FrameOK(s, 1)
  BY <1>1, <1>2
<1>5. 2 \in 1..Len(s) => FrameOK(s, 2)
  BY <1>2
<1>6. 3 \in 1..Len(s) => FrameOK(s, 3)
  BY <1>2
<1>7. ASSUME Next1(d).op \in {"confirm", "allround", "prepare", "child"}
      PROVE  \A f \in Below(d) : f.op \in {"prepare", "child"}
  <2>1. CASE s[1].op \in {"confirm", "allround"}
    <3>1. Len(s) = 3 /\ s[2].op = "prepare"
      BY <1>1, <1>4, <2>1 DEF FrameOK
    <3>2. s[3].op = "child"
      BY <1>5, <3>1 DEF FrameOK
    <3>3. \A i \in 2..3 : i = 2 \/ i = 3
      OBVIOUS
    <3> QED  BY <1>3, <3>1, <3>2, <3>3
  <2>2. CASE s[1].op = "prepare"
    <3>1. Len(s) = 2 /\ s[2].op = "child"
      BY <1>1, <1>4, <2>2 DEF FrameOK
    <3>2. \A i \in 2..2 : i = 2
      OBVIOUS
    <3> QED  BY <1>3, <3>1, <3>2
  <2>3. CASE s[1].op = "child"
    <3>1. Len(s) = 1
      BY <1>1, <1>4, <2>3 DEF FrameOK
    <3>2. \A i \in 2..1 : FALSE
      OBVIOUS
    <3> QED  BY <1>3, <3>1, <3>2
  <2> QED  BY <1>1, <1>7, <2>1, <2>2, <2>3
<1>8. ASSUME NEW i \in 1..Len(s), s[i].op = "restore" PROVE Restoring(d)
  BY <1>3, <1>8, FramesNow
<1>9. ASSUME Next1(d).op \in {"start", "wait", "note", "restore"} PROVE Restoring(d)
  <2>1. CASE s[1].op = "restore"
    <3>1. 1 \in 1..Len(s)
      BY <1>1
    <3> QED  BY <1>8, <2>1, <3>1
  <2>2. CASE s[1].op \in {"start", "wait", "note"}
    <3>1. 2 \in 1..Len(s) /\ s[2].op = "restore"
      BY <1>1, <1>4, <2>2 DEF FrameOK
    <3> QED  BY <1>8, <3>1
  <2> QED  BY <1>1, <1>9, <2>1, <2>2
<1>10. ASSUME Next1(d).op \in {"use", "load"}
       PROVE  \/ Restoring(d) /\ s[2].op = "note"
              \/ /\ \A f \in Below(d) : f.op \in {"confirm", "prepare", "child"}
                 /\ ~Restoring(d) /\ s[2].op = "confirm"
  <2>1. 2 \in 1..Len(s) /\ s[2].op \in {"confirm", "note"}
    BY <1>1, <1>4, <1>10 DEF FrameOK
  <2>2. CASE s[2].op = "note"
    <3>1. 3 \in 1..Len(s) /\ s[3].op = "restore"
      BY <1>1, <1>5, <2>1, <2>2 DEF FrameOK
    <3> QED  BY <1>8, <2>2, <3>1
  <2>3. CASE s[2].op = "confirm"
    <3>1. Len(s) = 4 /\ s[3].op = "prepare"
      BY <1>1, <1>5, <2>1, <2>3 DEF FrameOK
    <3>2. s[4].op = "child"
      BY <1>6, <3>1 DEF FrameOK
    <3>3. \A i \in 2..4 : i = 2 \/ i = 3 \/ i = 4
      OBVIOUS
    <3>4. \A f \in Below(d) : f.op \in {"confirm", "prepare", "child"}
      BY <1>3, <2>3, <3>1, <3>2, <3>3
    <3>5. ~Restoring(d)
      BY <1>1, <1>10, <3>4, FramesNow
    <3> QED  BY <2>3, <3>4, <3>5
  <2> QED  BY <2>1, <2>2, <2>3
<1> QED  BY <1>3, <1>7, <1>9, <1>10

\* The call that goes on when the one on top returns.
LEMMA PopTo ==
    ASSUME Typed, NEW d \in Delegations, Busy(d), Then(d, <<>>)
    PROVE  /\ Next1(d).op \in {"confirm", "allround"} => Busy(d)' /\ Next1(d)'.op = "prepare"
           /\ Next1(d).op = "prepare" => Busy(d)' /\ Next1(d)'.op = "child"
           /\ Next1(d).op = "child" => ~Busy(d)'
           /\ Next1(d).op \in {"start", "wait", "note"} => Busy(d)' /\ Next1(d)'.op = "restore"
           /\ Next1(d).op \in {"use", "load"} =>
                 /\ Busy(d)' /\ Next1(d)'.op \in {"confirm", "note"}
                 /\ Next1(d)'.op = "confirm" <=> ~Restoring(d)
                 /\ Next1(d)'.op = "note" => Next1(d)'.rec.preset = Next1(d).m
<1> DEFINE s == todo[d]
<1>1. s \in Seq(Calls) /\ Len(s) \in Nat /\ Next1(d) = s[1] /\ FrameOK(s, 1) /\ Len(s) >= 1
  BY Top
<1>2. /\ Len(s) > 1 => Busy(d)' /\ Next1(d)' = s[2]
      /\ Len(s) = 1 => ~Busy(d)'
  BY AfterPop
<1>3. Next1(d).op \in {"use", "load"} => (Restoring(d) /\ s[2].op = "note")
                                       \/ (~Restoring(d) /\ s[2].op = "confirm")
  BY Under
<1> HIDE DEF s
<1> QED  BY <1>1, <1>2, <1>3 DEF FrameOK

\* How a call comes to the top.
LEMMA Tops ==
    ASSUME Typed, Typed', NEW d \in Delegations, Step(d), Busy(d)'
    PROVE  /\ Next1(d)'.op = "use" => RestoreByUse(d) /\ Restoring(d)'
           /\ Next1(d)'.op = "load" => UsePlans(d) \/ StopSlot(d) \/ StopServe(d)
           /\ Next1(d)'.op = "note" =>
                 \/ UseAtOnce(d) \/ LoadRefused(d) \/ Loads(d) \/ LoadFails(d)
                 \/ RestoreEnds(d)
<1> DEFINE op == Next1(d).op
           new == Next1(d)'.op
           Returning == UseAtOnce(d) \/ LoadRefused(d) \/ Loads(d) \/ LoadFails(d)
                        \/ RestoreEnds(d)
<1>1. CASE UsePlans(d) \/ StopSlot(d) \/ StopServe(d)
  <2>1. CASE UsePlans(d)
    BY <2>1, UsePlansIs, AfterPush
  <2>2. CASE StopSlot(d) \/ StopServe(d)
    <3>1. PICK kind : Evicting(d, kind) /\ (Stopped(d) \/ NotStopped(d))
      BY <2>2 DEF StopSlot, StopServe
    <3>2. PICK x \in Calls : Then(d, <<x>>) /\ x.op = op
      BY <3>1, StopIs
    <3>3. Busy(d) /\ op \in {"load", "start"}
      BY <3>1, StopIs
    <3> QED  BY <2>2, <3>2, <3>3, AfterPush
  <2> QED  BY <1>1, <2>1, <2>2
<1>2. CASE RestoreByUse(d)
  <2>1. PICK u, a, b \in Calls : RestoresByUse(d, u, a, b)
    BY <1>2, RestoreByUseIs
  <2>2. Busy(d)
    BY <1>2, RestoreByUseIs
  <2>3. Next1(d)' = u /\ Frames(d)' = {u, a, b} \cup Below(d)
    BY <2>1, <2>2, AfterPush DEF RestoresByUse
  <2>4. Restoring(d)'
    <3>1. todo'[d] \in Seq(Calls)
      BY DEF Typed, TypeOK
    <3>2. DOMAIN todo'[d] = 1..Len(todo'[d])
      BY <3>1
    <3>3. b \in Frames(d)'
      BY <2>3
    <3> QED  BY <2>1, <3>2, <3>3 DEF Restoring, Frames, RestoresByUse
  <2> QED  BY <1>2, <2>1, <2>3, <2>4 DEF RestoresByUse
<1>3. CASE RestoreSlot(d)
  <2>1. \E a, b \in Calls : Then(d, <<a, b>>) /\ a.op = "start" /\ Busy(d)
    BY <1>3, RestoreSlotIs
  <2> QED  BY <2>1, AfterPush
<1>4. CASE Start(d)
  BY <1>4, StartIs, AfterPush
<1>5. CASE FallsBack(d)
  BY <1>5, FallsBackIs, AfterPush
<1>6. CASE Polls(d)
  <2>1. Next1(d)' = Next1(d) /\ Next1(d).op = "confirm"
    BY <1>6 DEF Polls, At, Next1
  <2> QED  BY <2>1
<1>7. CASE Mute(d)
  <2>1. ret[d].evicted \in Seq(Records)
    BY DEF Typed, TypeOK
  <2> QED  BY <1>7, <2>1, RestoresOnly DEF Mute
<1>8. ASSUME NEW q \in Seq(Records), Then(d, Restores(q)), Busy(d), Child(d) \/ LoadFails(d)
      PROVE  (Then(d, <<>>) /\ q = <<>>) \/ Next1(d)'.op = "restore"
  <2>1. CASE q = <<>>
    BY <1>8, <2>1, RestoresIs
  <2>2. CASE q # <<>>
    BY <1>8, <2>2, RestoresOne, AfterPush
  <2> QED  BY <2>1, <2>2
<1>9. CASE Child(d)
  <2>1. Busy(d) /\ op = "child" /\ Then(d, Restores(evicted[d])) /\ evicted[d] \in Seq(Records)
    BY <1>9 DEF Child, At, Typed, TypeOK
  <2> QED  BY <1>8, <1>9, <2>1, PopTo
<1>10. CASE LoadFails(d)
  <2>1. Busy(d) /\ op = "load" /\ Then(d, Restores(Next1(d).got))
        /\ Next1(d).got \in Seq(Records)
    BY <1>10, Top DEF LoadFails, At, RolledBack
  <2> QED  BY <1>8, <1>10, <2>1, PopTo
<1>11. CASE UseAtOnce(d) \/ LoadRefused(d) \/ Loads(d) \/ RestoreEnds(d)
  <2>1. Busy(d) /\ Then(d, <<>>)
    BY <1>11 DEF UseAtOnce, LoadRefused, Loads, RestoreEnds, At
  <2> QED  BY <1>11, <2>1, AfterPop, FramesNow
<1>12. CASE Confirmed(d) \/ Allround(d) \/ WaitEnds(d) \/ NoteUse(d)
  <2>1. Busy(d) /\ Then(d, <<>>) /\ op \in {"confirm", "allround", "wait", "note"}
    BY <1>12 DEF Confirmed, Allround, WaitEnds, NoteUse, At
  <2> QED  BY <2>1, PopTo
<1>13. CASE Prepare(d)
  <2>1. Busy(d) /\ op = "prepare"
    BY <1>13 DEF Prepare, At
  <2>2. CASE Then(d, <<>>)
    BY <2>1, <2>2, PopTo
  <2>3. CASE todo' = [todo EXCEPT ![d] = <<>>]
    BY <2>3, Cleared
  <2> QED  BY <1>13, <2>2, <2>3 DEF Prepare
<1> QED
  BY <1>1, <1>2, <1>3, <1>4, <1>5, <1>6, <1>7, <1>9, <1>10, <1>11, <1>12, <1>13 DEF Step

-----------------------------------------------------------------------------
(* One swap at a time: what it evicts is accounted for.                     *)

\* One delegation at a time.
OneBusy == \A d, e \in Delegations : Busy(d) /\ Busy(e) => d = e

\* What is live can be told by its port.
DistinctPorts == \A x, y \in Live : Port[x] = Port[y] => x = y

\* The cache that says another preset is on a slot is right, or a stop is
\* about to make it forget.
Swapped(s) == cache[s] \notin {Unset, NoModel, Assigned[s]}
CacheTrue ==
    ~dropped => \A s \in SlotSet : Swapped(s) =>
        /\ Port[cache[s]] = Port[Assigned[s]]
        /\ cache[s] \in Live \/ \E d \in Delegations : Busy(d) /\ Next1(d).got # <<>>

\* Nothing was stopped when a delegation's own swap is planned.
Untouched == \A d \in Delegations : At(d, "use") /\ ~Restoring(d) => before \subseteq Live

\* A record of a slot brings the slot's own preset back, or it was not there.
PlanSound ==
    ~dropped => \A d \in Delegations : At(d, "load") /\ ~Restoring(d) =>
        \A k \in DOMAIN Next1(d).recs :
            Next1(d).recs[k].kind = "slot" =>
                OwnPreset(Next1(d).recs[k]) \/ Assigned[Next1(d).recs[k].slot] \notin before

\* The result of a model.use that a restore made is that of its own record.
RetFits == \A d \in Delegations : At(d, "note") /\ ret[d].ok => Next1(d).rec.preset \in Live

\* What a call on the stack will bring back or report, and what a delegation
\* will restore when it ends.
Brings(f, m) ==
    \/ f.op = "restore" /\ m \in Promises(f.recs)
    \/ f.op \in {"start", "wait", "note"} /\ m = Promised(f.rec)
Owes(d, m) ==
    \/ \E f \in Frames(d) : Brings(f, m)
    \/ At(d, "load") /\ ~Restoring(d) /\ m \in Promises(Next1(d).got)
    \/ At(d, "confirm") /\ m \in Promises(ret[d].evicted)
    \/ /\ Busy(d) /\ Next1(d).op \in {"allround", "prepare", "child"}
       /\ m \in Promises(evicted[d])
\* The presets that nobody owes: live, reported, or stopped by a restore.
Safe == Live \cup reported \cup displaced
Accounted ==
    ~dropped => \A m \in before : m \in Safe \/ \E d \in Delegations : Owes(d, m)

\* How the steps change what is live.
LEMMA LiveStep ==
    ASSUME TypeOK, NEW d \in Delegations, Begin(d) \/ Step(d) \/ Cancel(d)
    PROVE  \/ StopSlot(d) \/ StopServe(d)
           \/ Loads(d) /\ Live' = Live \cup {Next1(d).m}
           \/ Live' = Live
<1>1. Loads(d) => Live' = Live \cup {Next1(d).m}
  BY DEF Loads, Live
<1>2. up' = up /\ served' = served => Live' = Live
  BY DEF Live
<1> QED
  BY <1>1, <1>2
     DEF Begin, Step, Cancel, UseAtOnce, UsePlans, LoadRefused, LoadFails, Confirmed,
         Mute, Polls, FallsBack, Allround, Prepare, Child, RestoreSlot, RestoreByUse,
         Start, WaitEnds, NoteUse, RestoreEnds, machine

\* Stops only take servers down.
LEMMA StopsShrink ==
    ASSUME TypeOK, NEW d \in Delegations, StopSlot(d) \/ StopServe(d)
    PROVE  Live' \subseteq Live
  BY DEF StopSlot, StopServe, Live

\* Every step preserves DistinctPorts: nothing starts on a port that is in use.
LEMMA DistinctPortsNext ==
    ASSUME Typed, DistinctPorts, [Next]_vars
    PROVE  DistinctPorts'
<1>0. TypeOK
  BY DEF Typed
<1>1. Live' \subseteq Live => DistinctPorts'
  BY DEF DistinctPorts
<1>2. ASSUME NEW m, Fits(m), Live' = Live \cup {m} PROVE DistinctPorts'
  <2>1. \A x \in Live : Port[x] # Port[m]
    BY <1>2 DEF Fits
  <2>2. \A x, y \in Live \cup {m} : Port[x] = Port[y] => x = y
    BY <2>1 DEF DistinctPorts
  <2> QED  BY <1>2, <2>2 DEF DistinctPorts
<1>3. ASSUME NEW d \in Delegations, Begin(d) \/ Step(d) \/ Cancel(d) PROVE DistinctPorts'
  <2>1. Loads(d) => Fits(Next1(d).m)
    BY DEF Loads
  <2> QED  BY <1>0, <1>1, <1>2, <1>3, <2>1, LiveStep, StopsShrink
<1>4. ASSUME NEW s \in SlotSet, SlotComesUp(s) PROVE DistinctPorts'
  <2>1. Fits(Assigned[s]) /\ Live' = Live \cup {Assigned[s]}
    BY <1>4 DEF SlotComesUp, Live
  <2> QED  BY <1>2, <2>1
<1>5. up' = up /\ served' = served => DistinctPorts'
  BY <1>1 DEF Live
<1> QED
  BY <1>3, <1>4, <1>5 DEF Next, vars, machine, Expires, Answers

\* Every step preserves OneBusy where delegations do not overlap.
LEMMA OneBusyNext ==
    ASSUME ~Overlap, Typed, OneBusy, [Next]_vars
    PROVE  OneBusy'
<1>1. ASSUME NEW d \in Delegations, Begin(d) PROVE OneBusy'
  <2>1. \A e \in Delegations : ~Busy(e)
    BY <1>1 DEF Begin, Idle
  <2> QED  BY <1>1, <2>1, OthersKeep DEF OneBusy
<1>2. ASSUME NEW d \in Delegations, Step(d) \/ Cancel(d) PROVE OneBusy'
  <2>1. Busy(d)
    BY <1>2 DEF Cancel, Step, UseAtOnce, UsePlans, StopSlot, StopServe, LoadRefused,
         Loads, LoadFails, Confirmed, Mute, Polls, FallsBack, Allround, Prepare, Child,
         RestoreSlot, RestoreByUse, Start, WaitEnds, NoteUse, RestoreEnds, At, Evicting,
         HasRecord
  <2> QED  BY <1>2, <2>1, OthersKeep DEF OneBusy
<1>3. todo' = todo => OneBusy'
  BY DEF OneBusy, Busy
<1> QED  BY <1>1, <1>2, <1>3 DEF Next, vars, SlotComesUp, Expires, Answers

\* Nobody but the delegation that steps is busy.
LEMMA Alone ==
    ASSUME ~Overlap, Typed, OneBusy, NEW d \in Delegations, Begin(d) \/ Step(d) \/ Cancel(d),
           NEW e \in Delegations, e # d
    PROVE  ~Busy(e)'
<1>1. Busy(d) \/ Idle
  BY DEF Begin, Cancel, Step, UseAtOnce, UsePlans, StopSlot, StopServe, LoadRefused,
         Loads, LoadFails, Confirmed, Mute, Polls, FallsBack, Allround, Prepare, Child,
         RestoreSlot, RestoreByUse, Start, WaitEnds, NoteUse, RestoreEnds, At, Evicting,
         HasRecord
<1> QED  BY <1>1, OthersKeep DEF OneBusy, Idle

\* Every step preserves Untouched.
LEMMA UntouchedNext ==
    ASSUME ~Overlap, Typed, Typed', OneBusy, Untouched, [Next]_vars
    PROVE  Untouched'
<1>1. ASSUME NEW d \in Delegations, Begin(d) PROVE Untouched'
  <2>1. before' = Live'
    <3>1. Live' = Live
      BY <1>1 DEF Begin, Live, machine
    <3> QED  BY <1>1, <3>1 DEF Begin
  <2> QED  BY <2>1 DEF Untouched
<1>2. ASSUME NEW d \in Delegations, Step(d) PROVE Untouched'
  <2>1. Busy(d)' => Next1(d)'.op # "use" \/ Restoring(d)'
    BY <1>2, Tops
  <2>2. \A e \in Delegations : e # d => ~Busy(e)'
    BY <1>2, Alone
  <2> QED  BY <2>1, <2>2 DEF Untouched, At
<1>3. ASSUME NEW d \in Delegations, Cancel(d) PROVE Untouched'
  <2>1. ~Busy(d)'
    BY <1>3, Cleared DEF Cancel
  <2>2. \A e \in Delegations : e # d => ~Busy(e)'
    BY <1>3, Alone
  <2> QED  BY <2>1, <2>2 DEF Untouched, At
<1>4. todo' = todo /\ before' = before /\ Live \subseteq Live' => Untouched'
  BY DEF Untouched, At, Busy, Next1, Restoring
<1>5. ASSUME NEW s \in SlotSet, SlotComesUp(s) \/ Expires(s) PROVE Live \subseteq Live'
  BY <1>5 DEF SlotComesUp, Expires, Live, machine
<1>6. ASSUME NEW m \in Models, Answers(m) PROVE Live \subseteq Live'
  BY <1>6 DEF Answers, Live
<1>7. UNCHANGED vars => Live \subseteq Live'
  BY DEF vars, machine, Live
<1> QED
  BY <1>1, <1>2, <1>3, <1>4, <1>5, <1>6, <1>7
     DEF Next, vars, history, SlotComesUp, Expires, Answers

\* Every step preserves RetFits.
LEMMA RetFitsNext ==
    ASSUME ~Overlap, Typed, Typed', OneBusy, RetFits, [Next]_vars
    PROVE  RetFits'
<1>1. ASSUME NEW d \in Delegations, Begin(d) PROVE RetFits'
  BY <1>1, BeginIs, Alone DEF RetFits, At
<1>2. ASSUME NEW d \in Delegations, Step(d) PROVE RetFits'
  <2>1. \A e \in Delegations : e # d => ~Busy(e)'
    BY <1>2, Alone
  <2> SUFFICES ASSUME Busy(d)', Next1(d)'.op = "note", ret'[d].ok
               PROVE  Next1(d)'.rec.preset \in Live'
    BY <2>1 DEF RetFits, At
  <2>2. UseAtOnce(d) \/ LoadRefused(d) \/ Loads(d) \/ LoadFails(d) \/ RestoreEnds(d)
    BY <1>2, Tops
  <2>3. ret \in [Delegations -> [ok : BOOLEAN, evicted : Seq(Records)]]
    BY DEF Typed, TypeOK
  <2>4. CASE LoadRefused(d) \/ LoadFails(d) \/ RestoreEnds(d)
    BY <2>3, <2>4 DEF LoadRefused, LoadFails, RestoreEnds, Returns
  <2>5. CASE UseAtOnce(d)
    <3>1. ~Unlisted(d)
      BY <2>3, <2>5 DEF UseAtOnce, Returns
    <3>2. Busy(d) /\ Then(d, <<>>) /\ Next1(d).op = "use" /\ Next1(d).m \in Live
      BY <2>5, <3>1 DEF UseAtOnce, At, Answering
    <3>3. Next1(d)'.rec.preset = Next1(d).m
      BY <3>2, PopTo
    <3>4. Live' = Live
      BY <2>5 DEF UseAtOnce, machine, Live
    <3> QED  BY <3>2, <3>3, <3>4
  <2>6. CASE Loads(d)
    <3>1. Busy(d) /\ Then(d, <<>>) /\ Next1(d).op = "load"
      BY <2>6 DEF Loads, At
    <3>2. Next1(d)'.rec.preset = Next1(d).m
      BY <3>1, PopTo
    <3>3. Next1(d).m \in Live'
      BY <2>6 DEF Loads, Live
    <3> QED  BY <3>2, <3>3
  <2> QED  BY <2>2, <2>4, <2>5, <2>6
<1>3. ASSUME NEW d \in Delegations, Cancel(d) PROVE RetFits'
  BY <1>3, Cleared, Alone DEF RetFits, At, Cancel
<1>4. todo' = todo /\ ret' = ret /\ Live \subseteq Live' => RetFits'
  BY DEF RetFits, At, Busy, Next1
<1>5. ASSUME NEW s \in SlotSet, SlotComesUp(s) \/ Expires(s) PROVE Live \subseteq Live'
  BY <1>5 DEF SlotComesUp, Expires, Live, machine
<1>6. ASSUME NEW m \in Models, Answers(m) PROVE Live \subseteq Live'
  BY <1>6 DEF Answers, Live
<1>7. UNCHANGED vars => Live \subseteq Live'
  BY DEF vars, machine, Live
<1> QED
  BY <1>1, <1>2, <1>3, <1>4, <1>5, <1>6, <1>7 DEF Next, vars, SlotComesUp, Expires, Answers

\* Only a delegation that is in a call steps.
LEMMA Active ==
    ASSUME NEW d \in Delegations, Step(d) \/ Cancel(d) PROVE Busy(d)
  BY DEF Cancel, Step, UseAtOnce, UsePlans, StopSlot, StopServe, LoadRefused,
         Loads, LoadFails, Confirmed, Mute, Polls, FallsBack, Allround, Prepare, Child,
         RestoreSlot, RestoreByUse, Start, WaitEnds, NoteUse, RestoreEnds, At, Evicting,
         HasRecord

\* The steps of no delegation.
LEMMA QuietSteps ==
    ASSUME TypeOK, [Next]_vars,
           \A d \in Delegations : ~(Begin(d) \/ Step(d) \/ Cancel(d))
    PROVE  /\ todo' = todo /\ ret' = ret /\ evicted' = evicted /\ before' = before
           /\ reported' = reported /\ displaced' = displaced /\ dropped' = dropped
           /\ Live \subseteq Live'
           /\ \A s \in SlotSet : cache'[s] \in {cache[s], Unset}
<1>1. \/ UNCHANGED vars
      \/ \E s \in SlotSet : SlotComesUp(s) \/ Expires(s)
      \/ \E m \in Models : Answers(m)
  BY DEF Next
<1>2. up \subseteq up' /\ served \subseteq served' => Live \subseteq Live'
  BY DEF Live
<1>3. cache \in [SlotSet -> Models \cup {NoModel, Unset}]
  BY DEF TypeOK
<1> QED
  BY <1>1, <1>2, <1>3 DEF vars, machine, history, SlotComesUp, Expires, Answers

\* That a list was dropped is not forgotten.
LEMMA DroppedStays ==
    ASSUME [Next]_vars, dropped PROVE dropped'
  BY ZenonT(60) DEF Next, vars, history, SlotComesUp, Expires, Answers, Begin, Cancel, Step,
         UseAtOnce, UsePlans, StopSlot, StopServe, LoadRefused, Loads, LoadFails,
         Confirmed, Mute, Polls, FallsBack, Allround, Prepare, Child, RestoreSlot,
         RestoreByUse, Start, WaitEnds, NoteUse, RestoreEnds

\* Only a load and a start have stopped something.
LEMMA NoGot ==
    ASSUME Typed, NEW d \in Delegations, Busy(d), Next1(d).op \notin {"load", "start"}
    PROVE  Next1(d).got = <<>>
  BY Top DEF FrameOK

\* What a step makes of an entry of the cache.
LEMMA CacheStep ==
    ASSUME ~Overlap, Typed, NEW d \in Delegations, Begin(d) \/ Step(d), NEW s \in SlotSet
    PROVE  \/ cache'[s] = Unset
           \/ (StopSlot(d) \/ StopServe(d)) /\ cache' = cache
           \/ /\ cache'[s] \in {cache[s], LiveSlot(s)} /\ Live \subseteq Live'
              /\ Begin(d) \/ Next1(d).got = <<>>
<1>1. \A S : Probed(S)[s] \in {cache[s], LiveSlot(s)}
  BY DEF Probed
<1>2. Forgotten[s] = Unset
  BY DEF Forgotten
<1>3. CASE Begin(d)
  BY <1>1, <1>3 DEF Begin, machine, Live
<1>4. CASE StopSlot(d) \/ StopServe(d)
  BY <1>4 DEF StopSlot, StopServe
<1>5. CASE LoadRefused(d) \/ LoadFails(d) \/ Start(d)
  <2>1. (cache' = cache /\ Next1(d).got = <<>>) \/ cache' = Forgotten
    BY <1>5 DEF LoadRefused, LoadFails, Start, CacheAfter
  <2>2. Live' = Live
    BY <1>5 DEF LoadRefused, LoadFails, Start, machine, Live
  <2> QED  BY <1>2, <2>1, <2>2
<1>6. CASE Loads(d) \/ RestoreEnds(d)
  BY <1>2, <1>6 DEF Loads, RestoreEnds
<1>7. CASE \/ UseAtOnce(d) \/ UsePlans(d) \/ Confirmed(d) \/ Mute(d) \/ Polls(d)
           \/ FallsBack(d) \/ Allround(d) \/ Prepare(d) \/ Child(d) \/ RestoreSlot(d)
           \/ RestoreByUse(d) \/ WaitEnds(d) \/ NoteUse(d)
  <2>1. Busy(d) /\ Next1(d).op \notin {"load", "start"}
    BY <1>7 DEF UseAtOnce, UsePlans, Confirmed, Mute, Polls, FallsBack, Allround, Prepare,
                Child, RestoreSlot, RestoreByUse, WaitEnds, NoteUse, At, HasRecord
  <2>2. Live' = Live
    BY <1>7 DEF UseAtOnce, UsePlans, Confirmed, Mute, Polls, FallsBack, Allround, Prepare,
                Child, RestoreSlot, RestoreByUse, WaitEnds, NoteUse, machine, Live
  <2>3. cache' = cache \/ \E S : cache' = Probed(S)
    BY <1>7 DEF UseAtOnce, UsePlans, Confirmed, Mute, Polls, FallsBack, Allround, Prepare,
                Child, RestoreSlot, RestoreByUse, WaitEnds, NoteUse, PlanProbes
  <2> QED  BY <1>1, <2>1, <2>2, <2>3, NoGot
<1> QED  BY <1>3, <1>4, <1>5, <1>6, <1>7 DEF Step

\* Every step preserves CacheTrue.
LEMMA CacheTrueNext ==
    ASSUME ~Overlap, Typed, Typed', OneBusy, CacheTrue, [Next]_vars
    PROVE  CacheTrue'
<1> SUFFICES ASSUME ~dropped', NEW s \in SlotSet, Swapped(s)'
             PROVE  /\ Port[cache'[s]] = Port[Assigned[s]]
                    /\ \/ cache'[s] \in Live'
                       \/ \E d \in Delegations : Busy(d)' /\ Next1(d)'.got # <<>>
  BY DEF CacheTrue, Swapped
<1>1. ~dropped
  BY DroppedStays
<1>2. cache'[s] \notin {Unset, NoModel, Assigned[s]}
  BY DEF Swapped
<1>3. cache[s] = cache'[s] =>
         /\ Port[cache[s]] = Port[Assigned[s]]
         /\ cache[s] \in Live \/ \E d \in Delegations : Busy(d) /\ Next1(d).got # <<>>
  BY <1>1, <1>2 DEF CacheTrue, Swapped
<1>4. ASSUME \A d \in Delegations : ~(Begin(d) \/ Step(d) \/ Cancel(d))
      PROVE  /\ Port[cache'[s]] = Port[Assigned[s]]
             /\ \/ cache'[s] \in Live'
                \/ \E d \in Delegations : Busy(d)' /\ Next1(d)'.got # <<>>
  <2>1. todo' = todo /\ Live \subseteq Live' /\ cache'[s] \in {cache[s], Unset}
    BY <1>4, QuietSteps DEF Typed
  <2> QED  BY <1>2, <1>3, <2>1, SameStack
<1>5. ASSUME NEW d \in Delegations, Begin(d) \/ Step(d)
      PROVE  /\ Port[cache'[s]] = Port[Assigned[s]]
             /\ \/ cache'[s] \in Live'
                \/ \E e \in Delegations : Busy(e)' /\ Next1(e)'.got # <<>>
  <2>1. CASE /\ cache'[s] \in {cache[s], LiveSlot(s)} /\ Live \subseteq Live'
             /\ Begin(d) \/ Next1(d).got = <<>>
    <3>1. \A e \in Delegations : Busy(e) => Next1(e).got = <<>>
      <4>1. CASE Begin(d)
        BY <4>1 DEF Begin, Idle
      <4>2. CASE Step(d) /\ Next1(d).got = <<>>
        BY <4>2, Active DEF OneBusy
      <4> QED  BY <1>5, <2>1, <4>1, <4>2
    <3>2. CASE cache'[s] = cache[s]
      BY <1>3, <2>1, <3>1, <3>2
    <3>3. CASE cache'[s] = LiveSlot(s) /\ cache[s] = Unset
      <4>1. Port[LiveSlot(s)] = Port[Assigned[s]] /\ LiveSlot(s) \in Live
        BY <1>2, <3>3, LiveSlotTyped DEF Typed
      <4> QED  BY <2>1, <3>3, <4>1
    <3> QED  BY <2>1, <3>2, <3>3, LiveSlotTyped DEF Typed
  <2>2. CASE (StopSlot(d) \/ StopServe(d)) /\ cache' = cache
    <3>1. PICK kind : Evicting(d, kind)
      BY <2>2 DEF StopSlot, StopServe
    <3>2. Busy(d) /\ Next1(d).got \in Seq(Records) /\ Head(Next1(d).recs) \in Records
      BY <3>1, StopIs, Top
    <3>3. CASE Stopped(d)
      <4>1. PICK x \in Calls : Then(d, <<x>>) /\ x.got = Append(Next1(d).got, Head(Next1(d).recs))
        BY <3>1, <3>3, StopIs
      <4>2. x.got # <<>>
        BY <3>2, <4>1
      <4>3. Busy(d)' /\ Next1(d)' = x
        BY <3>2, <4>1, AfterPush
      <4> QED  BY <1>3, <2>2, <4>2, <4>3
    <3>4. CASE NotStopped(d) /\ Live' = Live
      <4>1. PICK x \in Calls : Then(d, <<x>>) /\ x.got = Next1(d).got
        BY <3>1, <3>4, StopIs
      <4>2. Busy(d)' /\ Next1(d)' = x
        BY <3>2, <4>1, AfterPush
      <4>3. \A e \in Delegations : Busy(e) => e = d
        BY <3>2 DEF OneBusy
      <4> QED  BY <1>3, <2>2, <3>4, <4>1, <4>2, <4>3
    <3>5. Stopped(d) \/ (NotStopped(d) /\ Live' = Live)
      BY <2>2 DEF StopSlot, StopServe, Live
    <3> QED  BY <3>3, <3>4, <3>5
  <2> QED  BY <1>2, <1>5, <2>1, <2>2, CacheStep
<1>6. ASSUME NEW d \in Delegations, Cancel(d) PROVE FALSE
  BY <1>6 DEF Cancel
<1> QED  BY <1>4, <1>5, <1>6

\* Every step preserves PlanSound.
LEMMA PlanSoundNext ==
    ASSUME ~Overlap, Typed, Typed', OneBusy, DistinctPorts, CacheTrue, Untouched, PlanSound,
           [Next]_vars
    PROVE  PlanSound'
<1> SUFFICES ASSUME ~dropped', NEW d \in Delegations, Busy(d)', Next1(d)'.op = "load",
                    ~Restoring(d)', NEW k \in DOMAIN Next1(d)'.recs,
                    Next1(d)'.recs[k].kind = "slot"
             PROVE  OwnPreset(Next1(d)'.recs[k]) \/ Assigned[Next1(d)'.recs[k].slot] \notin before'
  BY DEF PlanSound, At, OwnPreset
<1>1. ~dropped
  BY DroppedStays
<1>2. CASE \A e \in Delegations : ~(Begin(e) \/ Step(e) \/ Cancel(e))
  <2>1. todo' = todo /\ before' = before
    BY <1>2, QuietSteps DEF Typed
  <2> QED  BY <1>1, <2>1, SameStack DEF PlanSound, At
<1>3. ASSUME NEW e \in Delegations, Begin(e) \/ Step(e) \/ Cancel(e), e # d PROVE FALSE
  BY <1>3, Alone
<1>4. CASE Begin(d)
  BY <1>4, BeginIs
<1>5. CASE Cancel(d)
  BY <1>5 DEF Cancel
<1>6. CASE UsePlans(d)
  <2>1. PICK n \in Calls : /\ Then(d, <<n>>) /\ n.op = "load" /\ n.m = Next1(d).m
                           /\ n.recs = Plan(n.m, Next1(d).brain)
    BY <1>6, UsePlansIs
  <2>2. /\ Busy(d) /\ Next1(d).op = "use" /\ Next1(d).m \in Models
        /\ Next1(d).brain \in BOOLEAN
    BY <1>6, UsePlansIs
  <2>3. Next1(d)' = n /\ Frames(d)' = {n} \cup Below(d)
    BY <2>1, <2>2, AfterPush
  <2>4. ~Restoring(d)
    BY <2>1, <2>2, <2>3, RestoringAfter
  <2>5. before \subseteq Live /\ before' = before
    BY <1>6, <2>2, <2>4 DEF Untouched, At, UsePlans, history
  <2> DEFINE r == n.recs[k]
  <2>6. r \in PlanRecs(Next1(d).brain)
    BY <2>1, <2>2, <2>3, PlanIn, Elements DEF Typed
  <2>7. PICK s \in SlotSet : r = SlotRec(s, LiveSlot(s))
    BY <2>3, <2>6 DEF PlanRecs, ServeRec
  <2>8. r.slot = s /\ r.preset = LiveSlot(s) /\ r.kind = "slot"
    BY <2>7 DEF SlotRec
  <2>9. ASSUME LiveSlot(s) \notin {NoModel, Assigned[s]}, Assigned[s] \in Live PROVE FALSE
    <3>1. Port[LiveSlot(s)] = Port[Assigned[s]] /\ LiveSlot(s) \in Live
      <4>1. CASE cache[s] = Unset
        BY <2>9, <4>1, LiveSlotTyped DEF Typed
      <4>2. CASE cache[s] # Unset
        <5>1. LiveSlot(s) = cache[s]
          BY <4>2, LiveSlotTyped DEF Typed
        <5>2. Port[cache[s]] = Port[Assigned[s]]
              /\ (cache[s] \in Live \/ \E e \in Delegations : Busy(e) /\ Next1(e).got # <<>>)
          BY <1>1, <2>9, <4>2, <5>1 DEF CacheTrue, Swapped
        <5>3. \A e \in Delegations : Busy(e) => Next1(e).got = <<>>
          BY <2>2, NoGot DEF OneBusy
        <5> QED  BY <5>1, <5>2, <5>3
      <4> QED  BY <4>1, <4>2
    <3> QED  BY <2>9, <3>1 DEF DistinctPorts
  <2>10. OwnPreset(r) \/ Assigned[r.slot] \notin before
    BY <2>5, <2>8, <2>9 DEF OwnPreset
  <2> QED  BY <2>3, <2>5, <2>10
<1>7. CASE StopSlot(d) \/ StopServe(d)
  <2>1. PICK kind : Evicting(d, kind) /\ (Stopped(d) \/ NotStopped(d))
    BY <1>7 DEF StopSlot, StopServe
  <2>2. /\ Busy(d) /\ Next1(d).op \in {"load", "start"}
        /\ \A j \in DOMAIN Tail(Next1(d).recs) : /\ j + 1 \in DOMAIN Next1(d).recs
                                                 /\ Tail(Next1(d).recs)[j] = Next1(d).recs[j + 1]
    BY <2>1, StopIs
  <2>3. PICK x \in Calls : Then(d, <<x>>) /\ x.op = Next1(d).op /\ x.recs = Tail(Next1(d).recs)
    BY <2>1, StopIs
  <2>4. Next1(d)' = x /\ Frames(d)' = {x} \cup Below(d)
    BY <2>2, <2>3, AfterPush
  <2>5. ~Restoring(d)
    BY <2>2, <2>3, <2>4, RestoringAfter
  <2>6. before' = before
    BY <1>7 DEF StopSlot, StopServe
  <2>7. k + 1 \in DOMAIN Next1(d).recs /\ Next1(d)'.recs[k] = Next1(d).recs[k + 1]
    BY <2>2, <2>3, <2>4
  <2> QED  BY <1>1, <2>2, <2>3, <2>4, <2>5, <2>6, <2>7 DEF PlanSound, At
<1>8. Step(d) => UsePlans(d) \/ StopSlot(d) \/ StopServe(d)
  BY Tops
<1> QED  BY <1>2, <1>3, <1>4, <1>5, <1>6, <1>7, <1>8

\* No records promise nothing.
LEMMA NoPromise == Promises(<<>>) = {}
<1>1. DOMAIN <<>> = {}
  OBVIOUS
<1> QED  BY <1>1 DEF Promises

\* What records promise, the first and the rest, or one more.
LEMMA Promising ==
    ASSUME NEW q \in Seq(Records), NEW r \in Records
    PROVE  /\ q # <<>> => Promises(q) \subseteq {Promised(Head(q))} \cup Promises(Tail(q))
           /\ Promises(q) \cup {Promised(r)} \subseteq Promises(Append(q, r))
<1>1. ASSUME q # <<>>, NEW k \in DOMAIN q
      PROVE  Promised(q[k]) \in {Promised(Head(q))} \cup Promises(Tail(q))
  <2>1. k = 1 \/ (k - 1 \in DOMAIN Tail(q) /\ Tail(q)[k - 1] = q[k])
    BY <1>1
  <2>2. Head(q) = q[1]
    BY <1>1
  <2> QED  BY <2>1, <2>2 DEF Promises
<1>2. ASSUME NEW k \in DOMAIN q PROVE Promised(q[k]) \in Promises(Append(q, r))
  <2>1. k \in DOMAIN Append(q, r) /\ Append(q, r)[k] = q[k]
    OBVIOUS
  <2> QED  BY <2>1 DEF Promises
<1>3. Promised(r) \in Promises(Append(q, r))
  <2>1. Len(q) + 1 \in DOMAIN Append(q, r) /\ Append(q, r)[Len(q) + 1] = r
    OBVIOUS
  <2> QED  BY <2>1 DEF Promises
<1>4. \A x \in Promises(q) : \E k \in DOMAIN q : x = Promised(q[k])
  BY DEF Promises
<1> QED  BY <1>1, <1>2, <1>3, <1>4

\* A step that keeps what lies below keeps what that will bring back.
LEMMA BelowBrings ==
    ASSUME NEW d \in Delegations, NEW m, NEW f \in Frames(d)', Brings(f, m)
    PROVE  Owes(d, m)'
  BY DEF Owes, Brings, Promises, Promised, OwnPreset

\* What a delegation owes it owes by the call on top, or by one below.
TopOwes(d, m) ==
    \/ Brings(Next1(d), m)
    \/ Next1(d).op = "load" /\ ~Restoring(d) /\ m \in Promises(Next1(d).got)
    \/ Next1(d).op = "confirm" /\ m \in Promises(ret[d].evicted)
    \/ Next1(d).op \in {"allround", "prepare", "child"} /\ m \in Promises(evicted[d])

\* And the other way round.
LEMMA OwesSplit ==
    ASSUME Typed, NEW d \in Delegations, NEW m, Owes(d, m)
    PROVE  Busy(d) /\ (TopOwes(d, m) \/ \E f \in Below(d) : Brings(f, m))
  BY FramesNow DEF Owes, TopOwes, At

\* What is live or reported is safe.
LEMMA Repaid ==
    ASSUME NEW d \in Delegations, NEW m, m \in Live' \cup reported'
    PROVE  m \in Safe'
  BY DEF Safe

\* The calls that owe the lists the delegation keeps.
LEMMA OwesEvicted ==
    ASSUME NEW d \in Delegations, NEW m, Busy(d)',
           \/ Next1(d)'.op \in {"allround", "prepare", "child"} /\ m \in Promises(evicted'[d])
           \/ Next1(d)'.op = "confirm" /\ m \in Promises(ret'[d].evicted)
           \/ Next1(d)'.op = "load" /\ ~Restoring(d)' /\ m \in Promises(Next1(d)'.got)
    PROVE  Owes(d, m)'
  BY DEF Owes, At, Promises, Promised, OwnPreset

\* What the call on top owes is safe after its step, or still owed.
LEMMA OwesTop ==
    ASSUME Typed, Typed', RetFits, NEW d \in Delegations, Step(d), NEW m, Busy(d),
           TopOwes(d, m), ~dropped'
    PROVE  m \in Safe' \/ Owes(d, m)'
<1> DEFINE c == Next1(d)
           op == c.op
<1>0. /\ c \in Calls /\ c.recs \in Seq(Records) /\ c.got \in Seq(Records)
      /\ ret \in [Delegations -> [ok : BOOLEAN, evicted : Seq(Records)]]
      /\ evicted \in [Delegations -> Seq(Records)]
  BY Top DEF Typed, TypeOK
<1>1. op \in {"restore", "start", "wait", "note", "load", "confirm", "allround", "prepare", "child"}
  BY DEF TopOwes, Brings
<1> HIDE DEF op
<1>2. CASE UsePlans(d) \/ UseAtOnce(d)
  BY <1>1, <1>2 DEF UsePlans, UseAtOnce, At, op
<1>3. CASE StopSlot(d) \/ StopServe(d)
  <2>1. PICK kind : Evicting(d, kind) /\ (Stopped(d) \/ NotStopped(d))
    BY <1>3 DEF StopSlot, StopServe
  <2>2. c.op \in {"load", "start"} /\ Head(c.recs) \in Records
    BY <2>1, StopIs
  <2>3. PICK x \in Calls : /\ Then(d, <<x>>) /\ x.op = c.op /\ x.rec = c.rec
                           /\ x.got = c.got \/ x.got = Append(c.got, Head(c.recs))
    BY <2>1, StopIs
  <2>4. Busy(d)' /\ Next1(d)' = x /\ Frames(d)' = {x} \cup Below(d)
    BY <2>3, AfterPush
  <2>5. CASE c.op = "start"
    <3>1. Brings(x, m)
      BY <2>3, <2>5 DEF TopOwes, Brings
    <3> QED  BY <2>4, <3>1, BelowBrings
  <2>6. CASE c.op = "load"
    <3>1. ~Restoring(d) /\ m \in Promises(c.got)
      BY <2>6 DEF TopOwes, Brings
    <3>2. ~Restoring(d)'
      BY <2>3, <2>4, <2>6, <3>1, RestoringAfter
    <3>3. m \in Promises(x.got)
      BY <1>0, <2>2, <2>3, <3>1, Promising
    <3> QED  BY <2>3, <2>4, <2>6, <3>2, <3>3, OwesEvicted
  <2> QED  BY <2>2, <2>5, <2>6
<1>4. CASE LoadRefused(d) \/ Loads(d) \/ LoadFails(d)
  <2>1. c.op = "load"
    BY <1>4 DEF LoadRefused, Loads, LoadFails, At
  <2>2. ~Restoring(d) /\ m \in Promises(c.got)
    BY <2>1 DEF TopOwes, Brings
  <2>3. c.got # <<>>
    BY <2>2, NoPromise
  <2>4. CASE LoadRefused(d)
    BY <2>2, <2>3, <2>4 DEF LoadRefused
  <2>5. CASE Loads(d)
    <3>1. Then(d, <<>>) /\ ret'[d].evicted = c.got
      BY <1>0, <2>5 DEF Loads, Returns
    <3>2. Busy(d)' /\ Next1(d)'.op = "confirm"
      BY <2>1, <2>2, <3>1, PopTo
    <3> QED  BY <2>2, <3>1, <3>2, OwesEvicted
  <2>6. CASE LoadFails(d)
    <3>1. PICK x \in Calls : /\ Restores(c.got) = <<x>> /\ x.op = "restore"
                             /\ Promises(x.recs) = Promises(c.got)
      BY <1>0, <2>3, RestoresOne
    <3>2. Then(d, <<x>>)
      BY <2>6, <3>1 DEF LoadFails, RolledBack
    <3>3. Frames(d)' = {x} \cup Below(d)
      BY <3>2, AfterPush
    <3>4. Brings(x, m)
      BY <2>2, <3>1 DEF Brings
    <3> QED  BY <3>3, <3>4, BelowBrings
  <2> QED  BY <1>4, <2>4, <2>5, <2>6
<1>5. CASE Confirmed(d) \/ FallsBack(d)
  <2>1. m \in Promises(ret[d].evicted) /\ c.op = "confirm"
    BY <1>5 DEF Confirmed, FallsBack, At, TopOwes, Brings
  <2>2. evicted'[d] = ret[d].evicted
    BY <1>0, <1>5 DEF Confirmed, FallsBack
  <2>3. Busy(d)' /\ Next1(d)'.op \in {"prepare", "allround"}
    BY <1>5, <2>1, PopTo, FallsBackIs, AfterPush DEF Confirmed
  <2> QED  BY <2>1, <2>2, <2>3, OwesEvicted
<1>6. CASE Mute(d)
  <2>1. m \in Promises(ret[d].evicted) /\ ret[d].evicted \in Seq(Records)
    BY <1>0, <1>6 DEF Mute, At, TopOwes, Brings
  <2>2. ret[d].evicted # <<>>
    BY <2>1, NoPromise
  <2>3. Frames(d)' = {Next1(d)'} /\ Next1(d)'.op = "restore" /\ m \in Promises(Next1(d)'.recs)
    BY <1>6, <2>1, <2>2, RestoresOnly DEF Mute
  <2>4. Brings(Next1(d)', m)
    BY <2>3 DEF Brings
  <2>5. PICK f \in Frames(d)' : f = Next1(d)'
    BY <2>3
  <2> QED  BY <2>4, <2>5, BelowBrings
<1>7. CASE Polls(d)
  <2>1. c.op = "confirm" /\ m \in Promises(ret[d].evicted) /\ ret' = ret /\ todo' = todo
    BY <1>7 DEF Polls, At, TopOwes, Brings
  <2> QED  BY <2>1, SameStack, OwesEvicted
<1>8. CASE Allround(d)
  <2>1. c.op = "allround" /\ m \in Promises(evicted[d]) /\ evicted' = evicted /\ Then(d, <<>>)
    BY <1>8 DEF Allround, At, TopOwes, Brings
  <2> QED  BY <2>1, PopTo, OwesEvicted
<1>9. CASE Prepare(d)
  <2>1. c.op = "prepare" /\ m \in Promises(evicted[d]) /\ evicted' = evicted
    BY <1>9 DEF Prepare, At, TopOwes, Brings
  <2>2. CASE Then(d, <<>>)
    BY <2>1, <2>2, PopTo, OwesEvicted
  <2>3. CASE dropped' = (dropped \/ evicted[d] # <<>>)
    BY <2>1, <2>3, NoPromise
  <2> QED  BY <1>9, <2>2, <2>3 DEF Prepare
<1>10. CASE Child(d)
  <2>1. m \in Promises(evicted[d]) /\ evicted[d] \in Seq(Records)
    BY <1>0, <1>10 DEF Child, At, TopOwes, Brings
  <2>2. PICK x \in Calls : /\ Restores(evicted[d]) = <<x>> /\ x.op = "restore"
                           /\ Promises(x.recs) = Promises(evicted[d])
    BY <2>1, NoPromise, RestoresOne
  <2>3. Frames(d)' = {x} \cup Below(d)
    BY <1>10, <2>2, AfterPush DEF Child
  <2>4. Brings(x, m)
    BY <2>1, <2>2 DEF Brings
  <2> QED  BY <2>3, <2>4, BelowBrings
<1>11. CASE RestoreSlot(d) \/ RestoreByUse(d)
  <2>1. c.op = "restore" /\ c.recs # <<>>
    BY <1>11, RestoreSlotIs, RestoreByUseIs
  <2>2. m \in Promises(c.recs)
    BY <2>1 DEF TopOwes, Brings
  <2>3. m = Promised(Record(d)) \/ m \in Promises(Tail(c.recs))
    <3>1. Record(d) = Head(c.recs)
      BY DEF Record
    <3> QED  BY <1>0, <2>1, <2>2, <3>1, Promising
  <2>4. CASE RestoreSlot(d)
    <3>1. PICK a, b \in Calls : /\ Then(d, <<a, b>>) /\ a.op = "start" /\ a.rec = Record(d)
                                /\ b.op = "restore" /\ b.recs = Tail(c.recs)
      BY <2>4, RestoreSlotIs
    <3>2. Frames(d)' = {a, b} \cup Below(d)
      BY <3>1, AfterPush
    <3>3. Brings(a, m) \/ Brings(b, m)
      BY <2>3, <3>1 DEF Brings
    <3> QED  BY <3>2, <3>3, BelowBrings
  <2>5. CASE RestoreByUse(d)
    <3>1. PICK u, a, b \in Calls : RestoresByUse(d, u, a, b)
      BY <2>5, RestoreByUseIs
    <3>2. Frames(d)' = {u, a, b} \cup Below(d)
      <4>1. Then(d, <<u, a, b>>)
        BY <3>1 DEF RestoresByUse
      <4> QED  BY <4>1, AfterPush
    <3>3. Brings(a, m) \/ Brings(b, m)
      BY <2>3, <3>1 DEF Brings, RestoresByUse
    <3> QED  BY <3>2, <3>3, BelowBrings
  <2> QED  BY <1>11, <2>4, <2>5
<1>12. CASE Start(d)
  <2>1. PICK x \in Calls : Then(d, <<x>>) /\ x.op = "wait" /\ x.rec = c.rec
    BY <1>12, StartIs
  <2>2. c.op = "start"
    BY <1>12, StartIs
  <2>3. Brings(x, m)
    BY <2>1, <2>2 DEF TopOwes, Brings
  <2>4. Frames(d)' = {x} \cup Below(d)
    BY <2>1, AfterPush
  <2> QED  BY <2>3, <2>4, BelowBrings
<1>13. CASE WaitEnds(d)
  <2>1. c.op = "wait" /\ c.rec \in SlotRecs /\ OwnPreset(c.rec)
    BY <1>13, Top DEF WaitEnds, At, FrameOK
  <2>2. m = Assigned[c.rec.slot]
    BY <2>1 DEF TopOwes, Brings, Promised
  <2>3. m \in Live' \cup reported'
    BY <1>13, <2>2 DEF WaitEnds, Live, machine
  <2> QED  BY <2>3, Repaid
<1>14. CASE NoteUse(d)
  <2>1. c.op = "note" /\ ~OwnPreset(c.rec)
    BY <1>14, Top DEF NoteUse, At, FrameOK
  <2>2. m = c.rec.preset
    BY <2>1 DEF TopOwes, Brings, Promised
  <2>3. ret[d].ok => m \in Live
    BY <2>1, <2>2 DEF RetFits, At
  <2>4. m \in Live' \cup reported'
    BY <1>14, <2>2, <2>3 DEF NoteUse, Live, machine
  <2> QED  BY <2>4, Repaid
<1>15. CASE RestoreEnds(d)
  <2>1. c.op = "restore" /\ c.recs = <<>>
    BY <1>15 DEF RestoreEnds, At
  <2>2. m \in Promises(c.recs)
    BY <2>1 DEF TopOwes, Brings
  <2> QED  BY <2>1, <2>2, NoPromise
<1> QED
  BY <1>2, <1>3, <1>4, <1>5, <1>6, <1>7, <1>8, <1>9, <1>10, <1>11, <1>12, <1>13, <1>14, <1>15
     DEF Step

\* What lies below stays there, and in the steps that drop it nothing is owed.
LEMMA BelowKept ==
    ASSUME Typed, Typed', NEW d \in Delegations, Step(d), NEW m, Busy(d),
           \E f \in Below(d) : Brings(f, m)
    PROVE  Owes(d, m)'
<1>1. Next1(d).op \notin {"confirm", "allround", "prepare", "child"}
  BY Under DEF Brings
<1>2. Below(d) \subseteq Frames(d)'
  <2>1. CASE Then(d, <<>>)
    BY <2>1, AfterPop
  <2>2. CASE \E x \in Calls : Then(d, <<x>>)
    BY <2>2, AfterPush
  <2>3. CASE \E x, y \in Calls : Then(d, <<x, y>>)
    BY <2>3, AfterPush
  <2>4. CASE RestoreByUse(d)
    <3>1. PICK u, a, b \in Calls : RestoresByUse(d, u, a, b)
      BY <2>4, RestoreByUseIs
    <3> QED  BY <3>1, AfterPush DEF RestoresByUse
  <2>5. CASE UseAtOnce(d) \/ LoadRefused(d) \/ Loads(d) \/ WaitEnds(d) \/ NoteUse(d)
             \/ RestoreEnds(d)
    BY <2>1, <2>5 DEF UseAtOnce, LoadRefused, Loads, WaitEnds, NoteUse, RestoreEnds
  <2>6. CASE UsePlans(d)
    BY <2>2, <2>6, UsePlansIs
  <2>7. CASE StopSlot(d) \/ StopServe(d)
    <3>1. PICK kind : Evicting(d, kind) /\ (Stopped(d) \/ NotStopped(d))
      BY <2>7 DEF StopSlot, StopServe
    <3>2. \E x \in Calls : Then(d, <<x>>)
      BY <3>1, StopIs
    <3> QED  BY <2>2, <3>2
  <2>8. CASE LoadFails(d)
    <3>1. Then(d, Restores(Next1(d).got)) /\ Next1(d).got \in Seq(Records)
      BY <2>8, Top DEF LoadFails, RolledBack
    <3>2. CASE Next1(d).got = <<>>
      BY <2>1, <3>1, <3>2, RestoresIs
    <3>3. CASE Next1(d).got # <<>>
      BY <2>2, <3>1, <3>3, RestoresOne
    <3> QED  BY <3>2, <3>3
  <2>9. CASE RestoreSlot(d)
    BY <2>3, <2>9, RestoreSlotIs
  <2>10. CASE Start(d)
    BY <2>2, <2>10, StartIs
  <2>11. CASE Confirmed(d) \/ Mute(d) \/ Polls(d) \/ FallsBack(d) \/ Allround(d)
              \/ Prepare(d) \/ Child(d)
    BY <1>1, <2>11 DEF Confirmed, Mute, Polls, FallsBack, Allround, Prepare, Child, At
  <2> QED
    BY <2>4, <2>5, <2>6, <2>7, <2>8, <2>9, <2>10, <2>11 DEF Step
<1> QED  BY <1>2, BelowBrings

\* What is safe stays so, or the swap that stops it will owe it.
LEMMA SafeStep ==
    ASSUME ~Overlap, Typed, Typed', PlanSound, ~dropped, NEW d \in Delegations, Step(d),
           NEW m, m \in before, m \in Safe
    PROVE  m \in Safe' \/ Owes(d, m)'
<1>1. reported \subseteq reported' /\ displaced \subseteq displaced'
  BY DEF Step, UseAtOnce, UsePlans, StopSlot, StopServe, LoadRefused, Loads, LoadFails,
         Confirmed, Mute, Polls, FallsBack, Allround, Prepare, Child, RestoreSlot,
         RestoreByUse, Start, WaitEnds, NoteUse, RestoreEnds, history, Displaces
<1>2. CASE Live \subseteq Live'
  BY <1>1, <1>2 DEF Safe
<1>3. CASE (StopSlot(d) \/ StopServe(d)) /\ m \in Live /\ m \notin Live'
  <2> DEFINE c == Next1(d)
             r == Head(c.recs)
  <2>1. PICK kind : /\ Evicting(d, kind) /\ Stopped(d) /\ Displaces(d)
                    /\ (kind = "slot" /\ StopSlot(d)) \/ (kind = "serve" /\ StopServe(d))
    BY <1>3 DEF StopSlot, StopServe, Live
  <2>2. /\ Busy(d) /\ c.op \in {"load", "start"} /\ c.recs # <<>>
        /\ r \in Records /\ r.kind = kind /\ r = c.recs[1]
    BY <2>1, StopIs
  <2>3. PICK x \in Calls : Then(d, <<x>>) /\ x.op = c.op /\ x.got = Append(c.got, r)
    BY <2>1, StopIs
  <2>4. CASE Restoring(d)
    BY <1>3, <2>1, <2>4 DEF Displaces, Safe
  <2>5. CASE ~Restoring(d)
    <3>1. c.op = "load"
      BY <2>2, <2>5, Under
    <3>2. m = Promised(r)
      <4>1. CASE kind = "slot"
        <5>1. m = Assigned[r.slot]
          BY <1>3, <2>1, <4>1 DEF StopSlot, Live
        <5>2. 1 \in DOMAIN c.recs
          BY <2>2, Top
        <5>3. OwnPreset(r)
          BY <2>2, <2>5, <3>1, <4>1, <5>1, <5>2 DEF PlanSound, At
        <5> QED  BY <5>1, <5>3 DEF Promised
      <4>2. CASE kind = "serve"
        <5>1. m = r.preset
          BY <1>3, <2>1, <4>2 DEF StopServe, Live
        <5>2. ~OwnPreset(r)
          BY <2>2, <4>2 DEF OwnPreset
        <5> QED  BY <5>1, <5>2 DEF Promised
      <4> QED  BY <2>1, <4>1, <4>2
    <3>3. m \in Promises(x.got)
      <4>1. c.got \in Seq(Records)
        BY <2>2, Top
      <4> QED  BY <2>2, <2>3, <3>2, <4>1, Promising
    <3>4. Busy(d)' /\ Next1(d)' = x /\ Frames(d)' = {x} \cup Below(d)
      BY <2>2, <2>3, AfterPush
    <3>5. ~Restoring(d)'
      BY <2>2, <2>3, <2>5, <3>1, <3>4, RestoringAfter
    <3> QED  BY <2>3, <3>1, <3>3, <3>4, <3>5, OwesEvicted
  <2> QED  BY <2>4, <2>5
<1>4. (StopSlot(d) \/ StopServe(d)) \/ Live \subseteq Live'
  BY LiveStep DEF Typed
<1> QED  BY <1>1, <1>2, <1>3, <1>4 DEF Safe

\* Every step preserves Accounted.
LEMMA AccountedNext ==
    ASSUME ~Overlap, Typed, Typed', OneBusy, PlanSound, RetFits, Accounted, [Next]_vars
    PROVE  Accounted'
<1> SUFFICES ASSUME ~dropped', NEW m \in before'
             PROVE  m \in Safe' \/ \E d \in Delegations : Owes(d, m)'
  BY DEF Accounted
<1>1. ~dropped
  BY DroppedStays
<1>2. CASE \A e \in Delegations : ~(Begin(e) \/ Step(e) \/ Cancel(e))
  <2>1. /\ todo' = todo /\ ret' = ret /\ evicted' = evicted /\ before' = before
        /\ reported' = reported /\ displaced' = displaced /\ Live \subseteq Live'
    BY <1>2, QuietSteps DEF Typed
  <2>2. m \in Safe \/ \E d \in Delegations : Owes(d, m)
    BY <1>1, <2>1 DEF Accounted
  <2>3. m \in Safe => m \in Safe'
    BY <2>1 DEF Safe
  <2>4. ASSUME NEW d \in Delegations, Owes(d, m) PROVE Owes(d, m)'
    BY <2>1, <2>4, ZenonT(60) DEF Owes, At, Busy, Next1, Restoring, Frames, Brings, Promises, Promised,
                      OwnPreset
  <2> QED  BY <2>2, <2>3, <2>4
<1>3. ASSUME NEW d \in Delegations, Begin(d) PROVE m \in Safe'
  <2>1. before' = Live'
    <3>1. Live' = Live
      BY <1>3 DEF Begin, Live, machine
    <3> QED  BY <1>3, <3>1 DEF Begin
  <2> QED  BY <2>1 DEF Safe
<1>4. ASSUME NEW d \in Delegations, Step(d) PROVE m \in Safe' \/ Owes(d, m)'
  <2>1. before' = before
    BY <1>4 DEF Step, UseAtOnce, UsePlans, StopSlot, StopServe, LoadRefused, Loads,
         LoadFails, Confirmed, Mute, Polls, FallsBack, Allround, Prepare, Child, RestoreSlot,
         RestoreByUse, Start, WaitEnds, NoteUse, RestoreEnds, history
  <2>2. CASE m \in Safe
    BY <1>1, <1>4, <2>1, <2>2, SafeStep
  <2>3. CASE \E e \in Delegations : Owes(e, m)
    <3>1. Owes(d, m)
      BY <1>4, <2>3, Active, OwesSplit DEF OneBusy
    <3> QED  BY <1>4, <3>1, OwesSplit, OwesTop, BelowKept
  <2> QED  BY <1>1, <2>1, <2>2, <2>3 DEF Accounted
<1>5. ASSUME NEW d \in Delegations, Cancel(d) PROVE FALSE
  BY <1>5 DEF Cancel
<1> QED  BY <1>2, <1>3, <1>4, <1>5

\* The inductive invariant.
OneSwap ==
    /\ Typed /\ OneBusy /\ DistinctPorts /\ CacheTrue /\ Untouched /\ PlanSound
    /\ RetFits /\ Accounted

\* The invariant holds at the beginning.
LEMMA OneSwapInit ==
    ASSUME Init PROVE OneSwap
<1>1. Typed
  BY TypedInit
<1>2. \A d \in Delegations : ~Busy(d)
  BY DEF Init, Busy
<1>3. OneBusy /\ Untouched /\ PlanSound /\ RetFits
  BY <1>2 DEF OneBusy, Untouched, PlanSound, RetFits, At
<1>4. CacheTrue
  BY DEF Init, CacheTrue, Swapped
<1>5. Accounted
  BY DEF Init, Accounted
<1>6. DistinctPorts
  <2>1. Live = Serving \cup {Assigned[s] : s \in SlotSet}
    BY DEF Init, Live
  <2>2. \A x, y \in {Assigned[s] : s \in SlotSet} : Port[x] = Port[y] => x = y
    BY SwapAssumption, ZenonT(60)
  <2>3. \A x \in Serving : \A y \in Live : Port[x] = Port[y] => x = y
    BY <2>1, SwapAssumption
  <2> QED  BY <2>1, <2>2, <2>3 DEF DistinctPorts
<1> QED  BY <1>1, <1>3, <1>4, <1>5, <1>6 DEF OneSwap

\* And every step preserves it.
LEMMA OneSwapNext ==
    ASSUME ~Overlap, OneSwap, [Next]_vars PROVE OneSwap'
<1> USE DEF OneSwap
<1>1. Typed'
  BY TypedStep
<1>2. OneBusy' /\ DistinctPorts'
  BY OneBusyNext, DistinctPortsNext
<1>3. CacheTrue' /\ Untouched' /\ PlanSound' /\ RetFits' /\ Accounted'
  BY <1>1, CacheTrueNext, UntouchedNext, PlanSoundNext, RetFitsNext, AccountedNext
<1> QED  BY <1>1, <1>2, <1>3

\* Where delegations do not overlap, and whatever goes wrong, what a swap stops
\* is live again in the end, reported, or was stopped by a restore, unless the
\* list of it was dropped.
THEOREM EvictionsAreAccounted ==
    ASSUME ~Overlap PROVE Spec => []EvictionsAccounted
<1>1. Init => OneSwap
  BY OneSwapInit
<1>2. OneSwap /\ [Next]_vars => OneSwap'
  BY OneSwapNext
<1>3. OneSwap => EvictionsAccounted
  <2> SUFFICES ASSUME OneSwap, ~dropped, Idle, NEW m \in before
               PROVE  m \in Live \cup reported \cup displaced
    BY DEF EvictionsAccounted
  <2>1. \A d \in Delegations : ~Owes(d, m)
    BY OwesSplit DEF OneSwap, Idle
  <2> QED  BY <2>1 DEF OneSwap, Accounted, Safe
<1> QED  BY <1>1, <1>2, <1>3, PTL DEF Spec

-----------------------------------------------------------------------------
(* The brain comes back.                                                    *)

\* Nobody but its own slot serves the brain's preset.
BrainApart ==
    /\ Assigned[Brain] \notin Serving
    /\ \A d \in Delegations : Newcomer[d] # Assigned[Brain]

\* Records, calls and lists that would bring the brain's preset to another place
\* than its slot: there are none.
NotBrains(q) == \A k \in DOMAIN q : OwnPreset(q[k]) \/ q[k].preset # Assigned[Brain]
Fine(f) ==
    /\ f.op \in {"use", "load"} => f.m # Assigned[Brain]
    /\ f.op \in {"load", "restore"} => NotBrains(f.recs)
    /\ f.op = "load" => NotBrains(f.got)
    /\ f.op = "note" => f.rec.preset # Assigned[Brain]

BrainUnserved == Assigned[Brain] \notin served
CachePorts == \A s \in SlotSet : cache[s] \in Models => Port[cache[s]] = Port[Assigned[s]]
FineCalls == \A d \in Delegations : \A f \in Frames(d) : Fine(f)
FineLists == \A d \in Delegations : NotBrains(ret[d].evicted) /\ NotBrains(evicted[d])
BrainHome == BrainUnserved /\ CachePorts /\ FineCalls /\ FineLists

\* Records that are not of the brain's preset, one more, and all but the first.
LEMMA NotBrainsOf ==
    ASSUME NEW q \in Seq(Records), NotBrains(q), NEW r \in Records,
           OwnPreset(r) \/ r.preset # Assigned[Brain]
    PROVE  /\ NotBrains(Append(q, r))
           /\ q # <<>> => NotBrains(Tail(q)) /\ (OwnPreset(Head(q)) \/ Head(q).preset # Assigned[Brain])
<1>1. \A k \in DOMAIN Append(q, r) : (k \in DOMAIN q /\ Append(q, r)[k] = q[k])
                                   \/ Append(q, r)[k] = r
  OBVIOUS
<1>2. q # <<>> => /\ Head(q) = q[1] /\ 1 \in DOMAIN q
                  /\ \A k \in DOMAIN Tail(q) : k + 1 \in DOMAIN q /\ Tail(q)[k] = q[k + 1]
  OBVIOUS
<1>3. NotBrains(Append(q, r))
  BY <1>1 DEF NotBrains
<1> QED  BY <1>2, <1>3 DEF NotBrains

\* No records are none of them.
LEMMA NoNotBrains == NotBrains(<<>>)
<1>1. DOMAIN <<>> = {}
  OBVIOUS
<1> QED  BY <1>1 DEF NotBrains

\* A plan has the brain's preset only as the preset of its own slot.
LEMMA PlanNotBrains ==
    ASSUME TypeOK, BrainUnserved, CachePorts, NEW m \in Models, NEW brain \in BOOLEAN
    PROVE  NotBrains(Plan(m, brain))
<1>1. Plan(m, brain) \in Seq(PlanRecs(brain))
  BY PlanIn
<1>2. ASSUME NEW r \in PlanRecs(brain) PROVE OwnPreset(r) \/ r.preset # Assigned[Brain]
  <2>1. CASE \E x \in served : r = ServeRec(x)
    BY <2>1 DEF ServeRec, BrainUnserved
  <2>2. CASE \E s \in SlotSet : r = SlotRec(s, LiveSlot(s))
    <3>1. PICK s \in SlotSet : r = SlotRec(s, LiveSlot(s))
      BY <2>2
    <3>2. r.kind = "slot" /\ r.slot = s /\ r.preset = LiveSlot(s)
      BY <3>1 DEF SlotRec
    <3>3. LiveSlot(s) = NoModel \/ Port[LiveSlot(s)] = Port[Assigned[s]]
      BY LiveSlotTyped DEF CachePorts
    <3>4. LiveSlot(s) = Assigned[Brain] => s = Brain \/ LiveSlot(s) = NoModel
      BY <3>3, SwapAssumption
    <3> QED  BY <3>2, <3>4 DEF OwnPreset
  <2> QED  BY <2>1, <2>2 DEF PlanRecs
<1> QED  BY <1>1, <1>2, Elements DEF NotBrains

\* Each step of a delegation preserves BrainHome.
LEMMA BrainHomeStep ==
    ASSUME Typed, Typed', BrainHome, NEW d \in Delegations, Step(d)
    PROVE  BrainHome'
<1> DEFINE c == Next1(d)
           Fresh == \A f \in Frames(d)' : f \in Below(d) \/ Fine(f)
           Lists == NotBrains(ret'[d].evicted) /\ NotBrains(evicted'[d])
<1>0. /\ TypeOK /\ Busy(d) /\ c \in Calls /\ c.recs \in Seq(Records) /\ c.got \in Seq(Records)
      /\ ret \in [Delegations -> [ok : BOOLEAN, evicted : Seq(Records)]]
      /\ evicted \in [Delegations -> Seq(Records)]
  BY Active, Top DEF Typed, TypeOK
<1>1. /\ Fine(c) /\ \A f \in Below(d) : Fine(f)
      /\ NotBrains(ret[d].evicted) /\ NotBrains(evicted[d])
  BY <1>0, FramesNow DEF BrainHome, FineCalls, FineLists
<1>2. BrainUnserved'
  <2>1. Loads(d) => Next1(d).m # Assigned[Brain]
    BY <1>1 DEF Loads, At, Fine
  <2> QED
    BY <2>1 DEF BrainHome, BrainUnserved, Step, UseAtOnce, UsePlans, StopSlot, StopServe,
       LoadRefused, Loads, LoadFails, Confirmed, Mute, Polls, FallsBack, Allround, Prepare,
       Child, RestoreSlot, RestoreByUse, Start, WaitEnds, NoteUse, RestoreEnds, machine
<1>3. CachePorts'
  <2> SUFFICES ASSUME NEW s \in SlotSet, cache'[s] \in Models
               PROVE  Port[cache'[s]] = Port[Assigned[s]]
    BY DEF CachePorts
  <2>1. cache'[s] \in {Unset, cache[s], LiveSlot(s)}
    <3>1. \A S : Probed(S)[s] \in {cache[s], LiveSlot(s)}
      BY DEF Probed
    <3>2. Forgotten[s] = Unset
      BY DEF Forgotten
    <3> QED
      BY <3>1, <3>2 DEF Step, UseAtOnce, UsePlans, StopSlot, StopServe,
       LoadRefused, Loads, LoadFails, Confirmed, Mute, Polls, FallsBack, Allround, Prepare,
       Child, RestoreSlot, RestoreByUse, Start, WaitEnds, NoteUse, RestoreEnds, CacheAfter,
       PlanProbes
  <2>2. Unset \notin Models /\ NoModel \notin Models
    BY SwapAssumption
  <2> QED  BY <1>0, <2>1, <2>2, LiveSlotTyped DEF BrainHome, CachePorts
<1>4. Lists
  <2>1. Loads(d) => NotBrains(c.got)
    BY <1>1 DEF Loads, At, Fine
  <2>2. \/ ret' = ret \/ Returns(d, FALSE, <<>>) \/ Returns(d, TRUE, <<>>)
        \/ Loads(d) /\ Returns(d, TRUE, c.got)
    BY DEF Step, UseAtOnce, UsePlans, StopSlot, StopServe, LoadRefused, Loads, LoadFails,
         Confirmed, Mute, Polls, FallsBack, Allround, Prepare, Child, RestoreSlot,
         RestoreByUse, Start, WaitEnds, NoteUse, RestoreEnds
  <2>3. \/ ret'[d].evicted \in {ret[d].evicted, <<>>}
        \/ Loads(d) /\ ret'[d].evicted = c.got
    <3> HIDE DEF c
    <3> QED  BY <1>0, <2>2 DEF Returns
  <2>4. evicted'[d] \in {evicted[d], ret[d].evicted}
    BY <1>0 DEF Step, UseAtOnce, UsePlans, StopSlot, StopServe, LoadRefused, Loads, LoadFails,
         Confirmed, Mute, Polls, FallsBack, Allround, Prepare, Child, RestoreSlot,
         RestoreByUse, Start, WaitEnds, NoteUse, RestoreEnds, history
  <2>5. NotBrains(ret'[d].evicted)
    BY <1>1, <2>1, <2>3, NoNotBrains
  <2>6. NotBrains(evicted'[d])
    BY <1>1, <2>4
  <2> QED  BY <2>5, <2>6
<1>5. FineLists'
  <2>1. ASSUME NEW e \in Delegations, e # d PROVE ret'[e] = ret[e] /\ evicted'[e] = evicted[e]
    BY <1>0, <2>1
       DEF Step, UseAtOnce, UsePlans, StopSlot, StopServe, LoadRefused, Loads, LoadFails,
         Confirmed, Mute, Polls, FallsBack, Allround, Prepare, Child, RestoreSlot,
         RestoreByUse, Start, WaitEnds, NoteUse, RestoreEnds, Returns
  <2>2. \A e \in Delegations : NotBrains(ret'[e].evicted) /\ NotBrains(evicted'[e])
    BY <1>4, <2>1 DEF BrainHome, FineLists
  <2> QED  BY <2>2 DEF FineLists, NotBrains, OwnPreset
<1>6. ASSUME NEW q \in Seq(Records), NotBrains(q), Then(d, Restores(q)) PROVE Fresh
  <2>1. CASE q = <<>>
    BY <1>0, <1>6, <2>1, RestoresIs, AfterPop
  <2>2. CASE q # <<>>
    <3>1. PICK x \in Calls : /\ Restores(q) = <<x>> /\ x.op = "restore"
                             /\ \A k \in DOMAIN x.recs : \E j \in DOMAIN q : x.recs[k] = q[j]
      BY <2>2, RestoresOne
    <3>2. Fine(x)
      BY <1>6, <3>1 DEF Fine, NotBrains
    <3>3. Frames(d)' = {x} \cup Below(d)
      BY <1>0, <1>6, <3>1, AfterPush
    <3> QED  BY <3>2, <3>3
  <2> QED  BY <2>1, <2>2
<1>7. ASSUME UsePlans(d) PROVE Fresh
  <2>1. PICK n \in Calls : /\ Then(d, <<n>>) /\ n.op = "load" /\ n.m = c.m /\ n.got = <<>>
                           /\ n.recs = Plan(n.m, c.brain)
    BY <1>7, UsePlansIs
  <2>2. c.op = "use" /\ c.m \in Models /\ c.brain \in BOOLEAN
    BY <1>7, UsePlansIs
  <2>3. NotBrains(Plan(c.m, c.brain))
    BY <1>0, <2>2, PlanNotBrains DEF BrainHome
  <2>4. Fine(n)
    BY <1>1, <2>1, <2>2, <2>3, NoNotBrains DEF Fine
  <2> QED  BY <1>0, <2>1, <2>4, AfterPush
<1>8. ASSUME StopSlot(d) \/ StopServe(d) PROVE Fresh
  <2>1. PICK kind : Evicting(d, kind) /\ (Stopped(d) \/ NotStopped(d))
    BY <1>8 DEF StopSlot, StopServe
  <2>2. c.op \in {"load", "start"} /\ c.recs # <<>> /\ Head(c.recs) \in Records
    BY <2>1, StopIs
  <2>3. PICK x \in Calls : /\ Then(d, <<x>>) /\ x.op = c.op /\ x.m = c.m
                           /\ x.recs = Tail(c.recs)
                           /\ x.got = c.got \/ x.got = Append(c.got, Head(c.recs))
    BY <2>1, StopIs
  <2>4. Fine(x)
    <3>1. CASE c.op = "load"
      <4>1. NotBrains(c.recs) /\ NotBrains(c.got) /\ c.m # Assigned[Brain]
        BY <1>1, <3>1 DEF Fine
      <4>2. /\ NotBrains(Tail(c.recs))
            /\ OwnPreset(Head(c.recs)) \/ Head(c.recs).preset # Assigned[Brain]
        <5>1. Head(c.recs) = c.recs[1] /\ 1 \in DOMAIN c.recs
          BY <1>0, <2>2
        <5>2. OwnPreset(Head(c.recs)) \/ Head(c.recs).preset # Assigned[Brain]
          BY <4>1, <5>1 DEF NotBrains
        <5> QED  BY <1>0, <2>2, <4>1, <5>2, NotBrainsOf
      <4>3. NotBrains(Append(c.got, Head(c.recs)))
        BY <1>0, <2>2, <4>1, <4>2, NotBrainsOf
      <4> QED  BY <2>3, <3>1, <4>1, <4>2, <4>3 DEF Fine
    <3>2. CASE c.op = "start"
      BY <2>3, <3>2 DEF Fine
    <3> QED  BY <2>2, <3>1, <3>2
  <2> QED  BY <1>0, <2>3, <2>4, AfterPush
<1>9. ASSUME LoadFails(d) PROVE Fresh
  BY <1>0, <1>1, <1>6, <1>9 DEF LoadFails, RolledBack, At, Fine
<1>10. ASSUME Mute(d) PROVE Fresh
  <2>1. ret[d].evicted \in Seq(Records)
    BY <1>0
  <2>2. \/ Frames(d)' = {}
        \/ /\ Frames(d)' = {Next1(d)'} /\ Next1(d)'.op = "restore"
           /\ \A k \in DOMAIN Next1(d)'.recs :
                 \E j \in DOMAIN ret[d].evicted : Next1(d)'.recs[k] = ret[d].evicted[j]
    BY <1>10, <2>1, RestoresOnly DEF Mute
  <2>3. Next1(d)'.op = "restore" /\ Frames(d)' # {} => Fine(Next1(d)')
    BY <1>1, <2>2 DEF Fine, NotBrains
  <2> QED  BY <2>2, <2>3
<1>11. ASSUME Polls(d) PROVE Fresh
  BY <1>0, <1>1, <1>11, SameStack, FramesNow DEF Polls
<1>12. ASSUME FallsBack(d) PROVE Fresh
  <2>1. PICK x \in Calls : Then(d, <<x>>) /\ x.op = "allround"
    BY <1>12, FallsBackIs
  <2>2. Fine(x)
    BY <2>1 DEF Fine
  <2> QED  BY <1>0, <2>1, <2>2, AfterPush
<1>13. ASSUME Child(d) PROVE Fresh
  BY <1>0, <1>1, <1>6, <1>13 DEF Child
<1>14. ASSUME RestoreSlot(d) \/ RestoreByUse(d) PROVE Fresh
  <2>1. c.op = "restore" /\ c.recs # <<>>
    BY <1>14, RestoreSlotIs, RestoreByUseIs
  <2>2. NotBrains(c.recs)
    BY <1>1, <2>1 DEF Fine
  <2>3. /\ NotBrains(Tail(c.recs))
        /\ OwnPreset(Record(d)) \/ Record(d).preset # Assigned[Brain]
    <3>1. Head(c.recs) = c.recs[1] /\ 1 \in DOMAIN c.recs /\ Head(c.recs) \in Records
      BY <1>0, <2>1
    <3>2. OwnPreset(Head(c.recs)) \/ Head(c.recs).preset # Assigned[Brain]
      BY <2>2, <3>1 DEF NotBrains
    <3>3. NotBrains(Tail(c.recs))
      BY <1>0, <2>1, <2>2, <3>1, <3>2, NotBrainsOf
    <3> QED  BY <3>2, <3>3 DEF Record
  <2>4. CASE RestoreSlot(d)
    <3>1. PICK a, b \in Calls : /\ Then(d, <<a, b>>) /\ a.op = "start"
                                /\ b.op = "restore" /\ b.recs = Tail(c.recs)
      BY <2>4, RestoreSlotIs
    <3>2. Fine(a) /\ Fine(b)
      BY <2>3, <3>1 DEF Fine
    <3> QED  BY <1>0, <3>1, <3>2, AfterPush, ZenonT(60)
  <2>5. CASE RestoreByUse(d)
    <3>1. PICK u, a, b \in Calls : RestoresByUse(d, u, a, b)
      BY <2>5, RestoreByUseIs
    <3>2. Record(d).preset # Assigned[Brain]
      BY <2>3, <2>5, RestoreByUseIs
    <3>3. Fine(u) /\ Fine(a) /\ Fine(b)
      BY <2>3, <3>1, <3>2 DEF Fine, RestoresByUse
    <3>4. Frames(d)' = {u, a, b} \cup Below(d)
      <4>1. Then(d, <<u, a, b>>)
        BY <3>1 DEF RestoresByUse
      <4> QED  BY <1>0, <4>1, AfterPush
    <3> QED  BY <3>3, <3>4
  <2> QED  BY <1>14, <2>4, <2>5
<1>15. ASSUME Start(d) PROVE Fresh
  <2>1. PICK x \in Calls : Then(d, <<x>>) /\ x.op = "wait"
    BY <1>15, StartIs
  <2>2. Fine(x)
    BY <2>1 DEF Fine
  <2> QED  BY <1>0, <2>1, <2>2, AfterPush
<1>16. ASSUME \/ UseAtOnce(d) \/ LoadRefused(d) \/ Loads(d) \/ Confirmed(d) \/ Allround(d)
              \/ Prepare(d) \/ WaitEnds(d) \/ NoteUse(d) \/ RestoreEnds(d)
       PROVE  Fresh
  <2>1. Then(d, <<>>) \/ todo' = [todo EXCEPT ![d] = <<>>]
    BY <1>16 DEF UseAtOnce, LoadRefused, Loads, Confirmed, Allround, Prepare, WaitEnds,
                 NoteUse, RestoreEnds
  <2> QED  BY <1>0, <2>1, AfterPop, Cleared
<1>17. Fresh
  BY <1>7, <1>8, <1>9, <1>10, <1>11, <1>12, <1>13, <1>14, <1>15, <1>16 DEF Step
<1>18. FineCalls'
  <2>1. \A f \in Frames(d)' : Fine(f)
    BY <1>1, <1>17
  <2>2. \A e \in Delegations : \A f \in Frames(e)' : Fine(f)
    BY <2>1, OthersKeep DEF BrainHome, FineCalls
  <2> QED  BY <2>2 DEF FineCalls, Fine, NotBrains, OwnPreset
<1> QED  BY <1>2, <1>3, <1>5, <1>18 DEF BrainHome

\* Every step does.
LEMMA BrainHomeNext ==
    ASSUME BrainApart, Typed, Typed', BrainHome, [Next]_vars
    PROVE  BrainHome'
<1>1. ASSUME NEW d \in Delegations, Step(d) PROVE BrainHome'
  BY <1>1, BrainHomeStep
<1>2. ASSUME NEW d \in Delegations, Begin(d) \/ Cancel(d) PROVE BrainHome'
  <2>1. served' = served /\ ret' = ret /\ evicted' = evicted
    BY <1>2 DEF Begin, Cancel, machine
  <2>2. BrainUnserved' /\ FineLists'
    BY <2>1 DEF BrainHome, BrainUnserved, FineLists, NotBrains, OwnPreset
  <2>3. CachePorts'
    <3> SUFFICES ASSUME NEW s \in SlotSet, cache'[s] \in Models
                 PROVE  Port[cache'[s]] = Port[Assigned[s]]
      BY DEF CachePorts
    <3>1. cache'[s] \in {cache[s], LiveSlot(s)}
      BY <1>2 DEF Begin, Cancel, Probed
    <3>2. NoModel \notin Models
      BY SwapAssumption
    <3> QED  BY <3>1, <3>2, LiveSlotTyped DEF BrainHome, CachePorts, Typed
  <2>4. \A f \in Frames(d)' : Fine(f)
    <3>1. CASE Begin(d)
      <4>1. \A f \in Frames(d)' : /\ f.op \in {"use", "confirm", "prepare", "child"}
                                  /\ f.op = "use" => f.m = Newcomer[d]
        BY <3>1, BeginIs
      <4>2. Newcomer[d] # Assigned[Brain]
        BY DEF BrainApart
      <4> TAKE f \in Frames(d)'
      <4>3. f.op \in {"use", "confirm", "prepare", "child"} /\ (f.op = "use" => f.m = Newcomer[d])
        BY <4>1
      <4> QED  BY <4>2, <4>3 DEF Fine
    <3>2. CASE Cancel(d)
      BY <3>2, Cleared DEF Cancel
    <3> QED  BY <1>2, <3>1, <3>2
  <2>5. \A e \in Delegations : \A f \in Frames(e)' : Fine(f)
    BY <1>2, <2>4, OthersKeep DEF BrainHome, FineCalls
  <2>6. FineCalls'
    BY <2>5 DEF FineCalls, Fine, NotBrains, OwnPreset
  <2> QED  BY <2>2, <2>3, <2>6 DEF BrainHome
<1>3. ASSUME \A d \in Delegations : ~(Begin(d) \/ Step(d) \/ Cancel(d)) PROVE BrainHome'
  <2>1. /\ todo' = todo /\ ret' = ret /\ evicted' = evicted
        /\ \A s \in SlotSet : cache'[s] \in {cache[s], Unset}
    BY <1>3, QuietSteps DEF Typed
  <2>2. served' = served
    BY <1>3 DEF Next, vars, machine, SlotComesUp, Expires, Answers
  <2>3. BrainUnserved' /\ FineLists'
    BY <2>1, <2>2 DEF BrainHome, BrainUnserved, FineLists, NotBrains, OwnPreset
  <2>4. CachePorts'
    BY <2>1, SwapAssumption DEF BrainHome, CachePorts
  <2>5. FineCalls'
    BY <2>1 DEF BrainHome, FineCalls, Frames, Fine, NotBrains, OwnPreset
  <2> QED  BY <2>3, <2>4, <2>5 DEF BrainHome
<1> QED  BY <1>1, <1>2, <1>3

\* No restore takes the brain down.
LEMMA BrainUndisplacedNext ==
    ASSUME Typed, BrainKept, BrainHome, Assigned[Brain] \notin displaced, [Next]_vars
    PROVE  Assigned[Brain] \notin displaced'
<1>1. ASSUME NEW d \in Delegations, StopSlot(d) \/ StopServe(d)
      PROVE  Assigned[Brain] \notin displaced'
  <2> DEFINE r == Head(Next1(d).recs)
  <2>1. PICK kind : /\ Evicting(d, kind) /\ (Displaces(d) \/ displaced' = displaced)
                    /\ (kind = "slot" /\ StopSlot(d)) \/ (kind = "serve" /\ StopServe(d))
    BY <1>1 DEF StopSlot, StopServe
  <2>2. /\ Busy(d) /\ Next1(d).op \in {"load", "start"} /\ Next1(d).recs # <<>>
        /\ r \in Records /\ r.kind = kind /\ r = Next1(d).recs[1]
    BY <2>1, StopIs
  <2> SUFFICES ASSUME Restoring(d), Assigned[Brain] \in Live, Assigned[Brain] \notin Live'
               PROVE  FALSE
    BY <2>1 DEF Displaces
  <2>3. r.slot # Brain
    <3>1. 1 \in DOMAIN Next1(d).recs
      BY <2>2, Top
    <3> QED  BY <2>2, <3>1 DEF BrainKept, Spares
  <2>4. Brain \in up /\ Brain \notin up'
    <3>1. PICK s \in up : Assigned[s] = Assigned[Brain]
      BY DEF Live, BrainHome, BrainUnserved
    <3>2. s = Brain
      BY <3>1, SwapAssumption DEF Typed, TypeOK
    <3> QED  BY <3>1, <3>2 DEF Live
  <2> QED  BY <2>1, <2>3, <2>4 DEF StopSlot, StopServe
<1>2. ASSUME NEW d \in Delegations, Begin(d) \/ Step(d) \/ Cancel(d),
             ~(StopSlot(d) \/ StopServe(d))
      PROVE  displaced' \subseteq displaced
  BY <1>2 DEF Begin, Cancel, Step, UseAtOnce, UsePlans,
       LoadRefused, Loads, LoadFails, Confirmed, Mute, Polls, FallsBack, Allround, Prepare,
       Child, RestoreSlot, RestoreByUse, Start, WaitEnds, NoteUse, RestoreEnds, history
<1>3. ASSUME \A d \in Delegations : ~(Begin(d) \/ Step(d) \/ Cancel(d))
      PROVE  displaced' = displaced
  BY <1>3, QuietSteps DEF Typed
<1> QED  BY <1>1, <1>2, <1>3

\* Where delegations do not overlap and the brain's preset runs nowhere else,
\* the brain that a swap stopped is live again in the end or reported.
THEOREM BrainComesBack ==
    ASSUME ~Overlap, BrainApart PROVE Spec => []BrainBack
<1> DEFINE Inv == OneSwap /\ BrainKept /\ BrainHome /\ Assigned[Brain] \notin displaced
<1>1. Init => Inv
  <2> SUFFICES ASSUME Init PROVE Inv
    OBVIOUS
  <2>1. OneSwap
    BY OneSwapInit
  <2>2. \A d \in Delegations : ~Busy(d) /\ Frames(d) = {}
    BY <2>1, FramesNow DEF Init, Busy, OneSwap
  <2>3. BrainKept /\ FineCalls
    BY <2>2 DEF BrainKept, FineCalls
  <2>4. BrainUnserved /\ CachePorts /\ Assigned[Brain] \notin displaced
    BY SwapAssumption DEF Init, BrainUnserved, CachePorts, BrainApart
  <2>5. FineLists
    BY NoNotBrains DEF Init, FineLists, Nothing
  <2> QED  BY <2>1, <2>3, <2>4, <2>5 DEF BrainHome
<1>2. Inv /\ [Next]_vars => Inv'
  <2> SUFFICES ASSUME Inv, [Next]_vars PROVE Inv'
    OBVIOUS
  <2>1. OneSwap' /\ Typed /\ Typed'
    BY OneSwapNext DEF OneSwap
  <2>2. BrainKept' /\ BrainHome'
    BY <2>1, BrainKeptNext, BrainHomeNext
  <2>3. Assigned[Brain] \notin displaced'
    BY <2>1, BrainUndisplacedNext
  <2> QED  BY <2>1, <2>2, <2>3
<1>3. Inv => BrainBack
  <2> SUFFICES ASSUME Inv, ~dropped, Idle, Assigned[Brain] \in before
               PROVE  Assigned[Brain] \in Live \cup reported
    BY DEF BrainBack
  <2>1. \A d \in Delegations : ~Owes(d, Assigned[Brain])
    BY OwesSplit DEF OneSwap, Idle
  <2> QED  BY <2>1 DEF OneSwap, Accounted, Safe
<1> HIDE DEF Inv
<1> QED  BY <1>1, <1>2, <1>3, PTL DEF Spec

-----------------------------------------------------------------------------
(* One slot of the process manager.                                         *)

\* What is assumed of the constants of the slot.
LEMMA SlotBounded ==
    /\ AutoRestart \in BOOLEAN /\ StartsOverlap \in BOOLEAN
    /\ MaxRestarts \in Nat /\ MaxSpawns \in Nat /\ MaxCalls \in Nat
    /\ MaxFaults \in Nat /\ MaxSlow \in Nat /\ MaxTorn \in Nat
  BY SlotAssumption DEF Slot!SlotBounds

\* The instance counts as this module does.
LEMMA SlotCounts == \A S : Slot!Cardinality(S) = Cardinality(S)
  BY DEF Slot!Cardinality, Cardinality

\* Where a caller may be in stop_one.
StopStates == {Slot!Idle, Slot!Joining} \cup {Slot!Killing(p) : p \in Slot!Pids}

\* What of the type no await of the loop or of stop_one is about.
OtherTypes ==
    /\ stopping \in BOOLEAN /\ wanted \in BOOLEAN
    /\ restarts \in 0..MaxRestarts + 1 /\ attempts \in Nat
    /\ proc \in [Slot!Pids -> {"none", "alive", "dying", "exited"}]
    /\ cur \in 0..MaxSpawns
    /\ calls \in 0..MaxCalls /\ faults \in 0..MaxFaults
    /\ slow \in 0..MaxSlow /\ torn \in 0..MaxTorn

\* The type, the awaits apart.
LEMMA SlotTypeParts ==
    Slot!TypeOK <=> /\ OtherTypes
                    /\ loop \in {"new", "spawn", "read", "sleep", "handler", "done"}
                    /\ cancelled \in BOOLEAN
                    /\ stop \in [Callers -> StopStates]
  BY DEF Slot!TypeOK, OtherTypes, StopStates

\* The three states of a caller are told apart by where it is.
LEMMA StopStatesDiffer ==
    /\ Slot!Idle.at = "idle" /\ Slot!Joining.at = "joining"
    /\ \A p : Slot!Killing(p).at = "killing" /\ Slot!Killing(p).pid = p
    /\ \A s \in StopStates : s.at = "killing" => s.pid \in Slot!Pids /\ s = Slot!Killing(s.pid)
    /\ Slot!Idle \in StopStates /\ Slot!Joining \in StopStates
    /\ \A p \in Slot!Pids : Slot!Killing(p) \in StopStates
    /\ Slot!Idle # Slot!Joining /\ \A p : Slot!Killing(p) # Slot!Idle /\ Slot!Killing(p) # Slot!Joining
  <1>1. /\ Slot!Idle.at = "idle" /\ Slot!Joining.at = "joining"
        /\ \A p : Slot!Killing(p).at = "killing" /\ Slot!Killing(p).pid = p
    BY DEF Slot!Idle, Slot!Joining, Slot!Killing
  <1> QED  BY <1>1 DEF StopStates

\* A loop that ends lets the callers go that await it, and no one else.
LEMMA EndReleases ==
    ASSUME Slot!TypeOK, Slot!LoopEnds
    PROVE  /\ stop' \in [Callers -> StopStates]
           /\ \A c \in Callers : stop'[c] = Slot!Idle \/ (stop'[c] = stop[c] /\ stop[c] # Slot!Joining)
           /\ Slot!AllIdle => Slot!AllIdle'
  BY SlotTypeParts, StopStatesDiffer DEF Slot!LoopEnds, Slot!AllIdle

\* A set of servers within another and one more has at most one more.
LEMMA FewServers ==
    ASSUME NEW T \in SUBSET Slot!Pids, NEW S, NEW n \in Nat, Cardinality(T) <= n
    PROVE  /\ S \subseteq T => Cardinality(S) <= n
           /\ \A p : S \subseteq T \cup {p} => Cardinality(S) <= n + 1
           /\ \A p, q : q \in T \ S /\ S \subseteq T \cup {p} => Cardinality(S) <= n
  <1>1. IsFiniteSet(Slot!Pids)
    BY FS_Interval, SlotBounded DEF Slot!Pids
  <1>2. IsFiniteSet(T) /\ Cardinality(T) \in Nat
    BY <1>1, FS_Subset, FS_CardinalityType
  <1>3. S \subseteq T => Cardinality(S) <= n
    <2> SUFFICES ASSUME S \subseteq T PROVE Cardinality(S) <= n
      OBVIOUS
    <2>1. Cardinality(S) <= Cardinality(T) /\ Cardinality(S) \in Nat
      BY <1>2, FS_Subset, FS_CardinalityType
    <2> QED  BY <1>2, <2>1
  <1>4. ASSUME NEW p, S \subseteq T \cup {p} PROVE Cardinality(S) <= n + 1
    <2>1. /\ IsFiniteSet(T \cup {p})
          /\ Cardinality(T \cup {p}) = Cardinality(T) \/ Cardinality(T \cup {p}) = Cardinality(T) + 1
      BY <1>2, FS_AddElement
    <2>2. Cardinality(S) <= Cardinality(T \cup {p}) /\ Cardinality(S) \in Nat
      BY <1>4, <2>1, FS_Subset, FS_CardinalityType
    <2> QED  BY <1>2, <2>1, <2>2
  <1>5. ASSUME NEW p, NEW q, q \in T \ S, S \subseteq T \cup {p} PROVE Cardinality(S) <= n
    <2> DEFINE U == T \ {q}
    <2>1. IsFiniteSet(U) /\ Cardinality(U) = Cardinality(T) - 1
      BY <1>2, <1>5, FS_RemoveElement
    <2>2. /\ IsFiniteSet(U \cup {p})
          /\ Cardinality(U \cup {p}) = Cardinality(U) \/ Cardinality(U \cup {p}) = Cardinality(U) + 1
      BY <2>1, FS_AddElement
    <2>3. S \subseteq U \cup {p}
      BY <1>5
    <2>4. Cardinality(S) <= Cardinality(U \cup {p}) /\ Cardinality(S) \in Nat
      BY <2>2, <2>3, FS_Subset, FS_CardinalityType
    <2> QED  BY <1>2, <2>1, <2>2, <2>4
  <1> QED  BY <1>3, <1>4, <1>5

\* The servers left behind, by where the loop is.
LEMMA StraysByLoop ==
    ASSUME Slot!TypeOK
    PROVE  Slot!LeftBehind <=>
             /\ cancelled \/ loop \in {"handler", "done"}
                  => Cardinality(Slot!Running) <= slow + torn
             /\ ~cancelled /\ loop = "read"
                  => Cardinality((Slot!Running \cup Slot!Awaited) \ {cur}) <= slow + torn
             /\ ~cancelled /\ loop \in {"new", "spawn", "sleep"}
                  => Cardinality(Slot!Running \cup Slot!Awaited) <= slow + torn
  <1>1. CASE cancelled \/ loop \in {"handler", "done"}
    BY <1>1, SlotCounts DEF Slot!LeftBehind
  <1>2. CASE ~cancelled /\ loop = "read"
    BY <1>2, SlotCounts DEF Slot!LeftBehind
  <1>3. CASE ~cancelled /\ loop \in {"new", "spawn", "sleep"}
    BY <1>3, SlotCounts DEF Slot!LeftBehind
  <1> QED  BY <1>1, <1>2, <1>3 DEF Slot!TypeOK

\* So there is at most one more server, and that is the one whose output is read.
LEMMA RunningFew ==
    ASSUME Slot!IInv
    PROVE  /\ Slot!Running \in SUBSET Slot!Pids /\ Slot!Awaited \in SUBSET Slot!Pids
           /\ slow + torn \in Nat
           /\ Cardinality(Slot!Running) <= slow + torn + 1
           /\ cancelled \/ loop # "read" \/ cur \notin Slot!Running
                => Cardinality(Slot!Running) <= slow + torn
           /\ \A q \in Slot!Awaited \ Slot!Running :
                 cur # q => Cardinality(Slot!Running) <= slow + torn
  <1>1. /\ Slot!Running \in SUBSET Slot!Pids /\ Slot!Awaited \in SUBSET Slot!Pids
        /\ slow + torn \in Nat /\ Slot!TypeOK
    BY SlotBounded DEF Slot!IInv, Slot!TypeOK, Slot!Running, Slot!Awaited
  <1> DEFINE both == Slot!Running \cup Slot!Awaited
             n    == slow + torn
  <1>2. CASE cancelled \/ loop \in {"handler", "done"}
    <2>1. Cardinality(Slot!Running) <= n
      BY <1>1, <1>2, StraysByLoop DEF Slot!IInv
    <2>2. Cardinality(Slot!Running) <= n + 1
      BY <1>1, <2>1, FewServers
    <2> QED  BY <1>1, <2>1, <2>2
  <1>3. CASE ~cancelled /\ loop = "read"
    <2>1. Cardinality(both \ {cur}) <= n /\ both \ {cur} \in SUBSET Slot!Pids
      BY <1>1, <1>3, StraysByLoop DEF Slot!IInv
    <2>2. /\ Slot!Running \subseteq (both \ {cur}) \cup {cur}
          /\ cur \notin Slot!Running => Slot!Running \subseteq both \ {cur}
          /\ \A q \in Slot!Awaited \ Slot!Running : cur # q => q \in (both \ {cur}) \ Slot!Running
      OBVIOUS
    <2> DEFINE rest == both \ {cur}
    <2> HIDE DEF both, n, rest
    <2>3. n \in Nat /\ rest \in SUBSET Slot!Pids /\ Cardinality(rest) <= n
      BY <1>1, <2>1 DEF n, rest
    <2>4. Cardinality(Slot!Running) <= n + 1
      BY <2>2, <2>3, FewServers DEF rest
    <2>5. cur \notin Slot!Running => Cardinality(Slot!Running) <= n
      BY <2>2, <2>3, FewServers DEF rest
    <2>6. \A q \in Slot!Awaited \ Slot!Running : cur # q => Cardinality(Slot!Running) <= n
      BY <2>2, <2>3, FewServers DEF rest
    <2> QED  BY <1>1, <1>3, <2>4, <2>5, <2>6 DEF n
  <1>4. CASE ~cancelled /\ loop \in {"new", "spawn", "sleep"}
    <2>1. Cardinality(both) <= n /\ both \in SUBSET Slot!Pids
      BY <1>1, <1>4, StraysByLoop DEF Slot!IInv
    <2>2. Slot!Running \subseteq both /\ Slot!Running \subseteq both \cup {cur}
      OBVIOUS
    <2> HIDE DEF both, n
    <2>3. n \in Nat
      BY <1>1 DEF n
    <2> QED  BY <1>1, <1>4, <2>1, <2>2, <2>3, FewServers DEF n
  <1> QED  BY <1>1, <1>2, <1>3, <1>4 DEF Slot!TypeOK

\* A run loop that ends keeps the invariant.
LEMMA EndsKeeps ==
    ASSUME Slot!IInv, Slot!LoopEnds, UNCHANGED <<stopping, wanted>>, OtherTypes',
           wanted => Slot!GaveUp',
           Cardinality(Slot!Running') <= slow' + torn',
           attempts' <= MaxRestarts + 1
    PROVE  Slot!IInv'
  <1>1. /\ stop' \in [Callers -> StopStates]
        /\ \A c \in Callers : stop'[c] # Slot!Idle => stop'[c] = stop[c]
    BY EndReleases DEF Slot!IInv
  <1>2. loop' = "done" /\ cancelled' = FALSE
    BY DEF Slot!LoopEnds
  <1>3. Slot!TypeOK'
    BY <1>1, <1>2 DEF OtherTypes, Slot!TypeOK, StopStates
  <1>4. Slot!StopsHold' /\ Slot!LoopAwaited' /\ Slot!AttemptsPaid'
    BY <1>1, <1>2 DEF Slot!IInv, Slot!StopsHold, Slot!LoopAwaited, Slot!AttemptsPaid,
       Slot!AttemptsBounded
  <1>5. Slot!LeftBehind'
    BY <1>2, SlotCounts DEF Slot!LeftBehind
  <1> QED  BY <1>3, <1>4, <1>5 DEF Slot!IInv

\* A run loop that goes on to an await keeps it.
LEMMA GoesOnKeeps ==
    ASSUME Slot!IInv, NEW await \in {"spawn", "read", "sleep", "handler"},
           Slot!LoopAt(await), loop # "done",
           UNCHANGED <<stopping, wanted>>, OtherTypes',
           await = "handler" => ~wanted /\ Cardinality(Slot!Running') <= slow' + torn',
           await = "read" =>
             Cardinality((Slot!Running' \cup Slot!Awaited) \ {cur'}) <= slow' + torn',
           await \in {"spawn", "sleep"} =>
             Cardinality(Slot!Running' \cup Slot!Awaited) <= slow' + torn',
           restarts' <= MaxRestarts,
           attempts' <= restarts' + (IF await = "read" THEN 1 ELSE 0)
    PROVE  Slot!IInv'
  <1>1. loop' = await /\ cancelled' = FALSE /\ stop' = stop
    BY DEF Slot!LoopAt
  <1>2. Slot!TypeOK'
    BY <1>1 DEF Slot!IInv, OtherTypes, Slot!TypeOK
  <1>3. Slot!StopsHold' /\ Slot!LoopAwaited' /\ Slot!AttemptsPaid'
    BY <1>1 DEF Slot!IInv, Slot!StopsHold, Slot!LoopAwaited, Slot!AttemptsPaid, Slot!AllIdle
  <1>4. Slot!LeftBehind'
    <2>1. Slot!Awaited' = Slot!Awaited
      BY <1>1 DEF Slot!Awaited
    <2> QED  BY <1>1, <2>1, SlotCounts DEF Slot!LeftBehind
  <1> QED  BY <1>2, <1>3, <1>4 DEF Slot!IInv

\* So does one that retries or ends.
LEMMA RetryKeeps ==
    ASSUME Slot!IInv, Slot!RetryOrEnd, loop \in {"spawn", "read"},
           UNCHANGED <<stopping, wanted, slow, cur, proc>>, torn' \in 0..MaxTorn,
           calls' \in 0..MaxCalls, faults' \in 0..MaxFaults,
           attempts' \in Nat, attempts' <= restarts + 1,
           Cardinality(Slot!Running) <= slow' + torn'
    PROVE  Slot!IInv'
  <1>1. /\ restarts \in Nat /\ restarts <= MaxRestarts /\ MaxRestarts \in Nat
        /\ Slot!Running' = Slot!Running
    BY SlotBounded DEF Slot!IInv, Slot!TypeOK, Slot!AttemptsPaid, Slot!Running
  <1>2. CASE stopping \/ ~AutoRestart
    <2>1. Slot!LoopEnds /\ restarts' = restarts
      BY <1>2 DEF Slot!RetryOrEnd
    <2>2. OtherTypes'
      BY <2>1, SlotTypeParts DEF Slot!IInv, OtherTypes
    <2>3. wanted => Slot!GaveUp'
      BY <1>2 DEF Slot!IInv, Slot!StopsHold, Slot!GaveUp
    <2> QED  BY <1>1, <2>1, <2>2, <2>3, EndsKeeps
  <1>3. CASE ~(stopping \/ ~AutoRestart)
    <2>1. restarts' = restarts + 1 /\ (IF Slot!CapReached THEN Slot!LoopEnds ELSE Slot!LoopAt("sleep"))
      BY <1>3 DEF Slot!RetryOrEnd, Slot!Counted
    <2>2. OtherTypes'
      BY <1>1, <2>1, SlotTypeParts DEF Slot!IInv, OtherTypes
    <2>3. CASE Slot!CapReached
      BY <1>1, <2>1, <2>2, <2>3, EndsKeeps DEF Slot!CapReached, Slot!Counted, Slot!GaveUp
    <2>4. CASE ~Slot!CapReached
      <3>1. restarts' <= MaxRestarts
        BY <1>1, <2>1, <2>4 DEF Slot!CapReached, Slot!Counted
      <3>2. Slot!Running' \cup Slot!Awaited = Slot!Running
        BY <1>1, <1>3, StopStatesDiffer DEF Slot!IInv, Slot!StopsHold, Slot!Awaited
      <3> QED  BY <1>1, <2>1, <2>2, <2>4, <3>1, <3>2, GoesOnKeeps
    <2> QED  BY <2>3, <2>4
  <1> QED  BY <1>2, <1>3

-----------------------------------------------------------------------------
(* The steps of the run loop.                                               *)

\* The steps of the run loop.
LEMMA LoopStepKeeps == Slot!IInv /\ Slot!LoopStep => Slot!IInv'
  <1> SUFFICES ASSUME Slot!IInv, Slot!LoopStep PROVE Slot!IInv'
    OBVIOUS
  <1> USE DEF Slot!counters
  <1>1. /\ Slot!TypeOK /\ OtherTypes
        /\ MaxSpawns \in Nat /\ MaxRestarts \in Nat /\ restarts \in Nat /\ attempts \in Nat
        /\ loop # "done" => restarts <= MaxRestarts /\ attempts <= MaxRestarts + 1
        /\ loop \notin {"done", "read"} => attempts <= restarts
    BY SlotTypeParts, SlotBounded DEF Slot!IInv, Slot!TypeOK, Slot!AttemptsPaid
  <1>2. loop # "read" \/ cancelled => Cardinality(Slot!Running) <= slow + torn
    BY RunningFew
  <1>3. ~cancelled /\ loop \in {"new", "spawn", "sleep"} =>
          Cardinality(Slot!Running \cup Slot!Awaited) <= slow + torn
    BY StraysByLoop DEF Slot!IInv
  <1>4. CASE Slot!LoopTop
    <2>1. /\ loop \in {"new", "sleep"} /\ OtherTypes' /\ Slot!Running' = Slot!Running
          /\ UNCHANGED <<stopping, restarts, cur, wanted, attempts, slow, torn>> /\ ~cancelled
      BY <1>1, <1>4 DEF Slot!LoopTop, OtherTypes, Slot!Running
    <2>2. CASE stopping /\ Slot!LoopEnds
      BY <1>1, <1>2, <2>1, <2>2, EndsKeeps DEF Slot!IInv, Slot!StopsHold
    <2>3. CASE ~stopping /\ Slot!LoopAt("spawn")
      BY <1>1, <1>2, <1>3, <2>1, <2>3, GoesOnKeeps
    <2> QED  BY <1>4, <2>2, <2>3 DEF Slot!LoopTop
  <1>5. CASE Slot!Spawn
    <2>1. /\ loop = "spawn" /\ attempts' = attempts + 1 /\ ~cancelled
          /\ UNCHANGED <<stopping, wanted, calls, slow, torn>>
      BY <1>5 DEF Slot!Spawn
    <2>2. CASE /\ cur < MaxSpawns /\ cur' = cur + 1
               /\ proc' = [proc EXCEPT ![cur + 1] = "alive"]
               /\ Slot!LoopAt("read")
               /\ UNCHANGED <<restarts, faults>>
      <3>1. OtherTypes'
        <4>1. proc' \in [Slot!Pids -> {"none", "alive", "dying", "exited"}]
          BY <1>1, <2>2 DEF OtherTypes
        <4>2. cur' \in 0..MaxSpawns /\ attempts' \in Nat
          BY <1>1, <2>1, <2>2 DEF OtherTypes
        <4> QED  BY <1>1, <2>1, <2>2, <4>1, <4>2 DEF OtherTypes
      <3>2. (Slot!Running' \cup Slot!Awaited) \ {cur'} \subseteq Slot!Running \cup Slot!Awaited
        BY <1>1, <2>2 DEF Slot!Running, OtherTypes
      <3>3. Cardinality((Slot!Running' \cup Slot!Awaited) \ {cur'}) <= slow' + torn'
        BY <1>3, <2>1, <3>2, RunningFew, FewServers
      <3> QED  BY <1>1, <2>1, <2>2, <3>1, <3>3, GoesOnKeeps
    <2>3. CASE /\ faults < MaxFaults /\ faults' = faults + 1
               /\ Slot!RetryOrEnd
               /\ UNCHANGED <<proc, cur>>
      <3>1. calls' \in 0..MaxCalls /\ faults' \in 0..MaxFaults /\ torn' \in 0..MaxTorn
        BY <1>1, <2>1, <2>3, SlotBounded DEF OtherTypes
      <3> QED  BY <1>1, <1>2, <2>1, <2>3, <3>1, RetryKeeps
    <2> QED  BY <1>5, <2>2, <2>3 DEF Slot!Spawn
  <1>6. CASE Slot!ReadEnds
    <2>1. /\ loop = "read" /\ Slot!RetryOrEnd
          /\ UNCHANGED <<stopping, proc, cur, wanted, attempts, Slot!counters>>
      BY <1>6 DEF Slot!ReadEnds
    <2>2. Cardinality(Slot!Running) <= slow + torn
      BY <1>6, RunningFew DEF Slot!ReadEnds, Slot!Running
    <2>3. attempts <= restarts + 1
      BY <2>1 DEF Slot!IInv, Slot!AttemptsPaid
    <2> QED  BY <1>1, <2>1, <2>2, <2>3, RetryKeeps DEF OtherTypes
  <1>7. CASE Slot!LoopCancelled
    <2>1. /\ loop \in {"new", "spawn", "sleep"} /\ ~wanted /\ cancelled
          /\ UNCHANGED <<stopping, restarts, cur, wanted, attempts, Slot!counters>>
      BY <1>7 DEF Slot!LoopCancelled, Slot!IInv, Slot!StopsHold
    <2>2. CASE Slot!LoopEnds /\ proc' = proc
      <3>1. OtherTypes' /\ Slot!Running' = Slot!Running
        BY <1>1, <2>1, <2>2 DEF OtherTypes, Slot!Running
      <3> QED  BY <1>1, <1>2, <2>1, <2>2, <3>1, EndsKeeps
    <2>3. CASE /\ cur \in Slot!Running
               /\ proc' = [proc EXCEPT ![cur] = "dying"] /\ Slot!LoopAt("handler")
      <3>1. OtherTypes' /\ Slot!Running' = Slot!Running
        BY <1>1, <2>1, <2>3 DEF OtherTypes, Slot!Running
      <3> QED  BY <1>1, <1>2, <2>1, <2>3, <3>1, GoesOnKeeps
    <2> QED  BY <1>7, <2>2, <2>3 DEF Slot!LoopCancelled
  <1>8. CASE Slot!HandlerEnds
    <2>1. /\ loop = "handler" /\ Slot!LoopEnds
          /\ UNCHANGED <<stopping, restarts, proc, cur, wanted, attempts, calls, faults, torn>>
          /\ slow' = slow \/ (slow < MaxSlow /\ slow' = slow + 1)
      BY <1>8 DEF Slot!HandlerEnds
    <2>2. OtherTypes' /\ Slot!Running' = Slot!Running /\ slow' >= slow
      BY <1>1, <2>1, SlotBounded DEF OtherTypes, Slot!Running
    <2>3. Cardinality(Slot!Running') <= slow' + torn'
      <3>1. Cardinality(Slot!Running) <= slow + torn /\ Slot!Running \in SUBSET Slot!Pids
        BY <2>1, RunningFew
      <3>2. slow + torn \in Nat /\ slow' + torn' \in Nat /\ slow + torn <= slow' + torn'
        <4>1. slow \in Nat /\ torn \in Nat /\ slow' \in Nat /\ slow' >= slow /\ torn' = torn
          BY <1>1, <2>1, <2>2, SlotBounded DEF OtherTypes
        <4>2. \A a, b, c \in Nat : c >= a => /\ a + b \in Nat /\ c + b \in Nat
                                           /\ a + b <= c + b
          OBVIOUS
        <4> QED  BY <4>1, <4>2
      <3> DEFINE n == slow + torn
                 k == slow' + torn'
      <3> HIDE DEF n, k
      <3>3. Cardinality(Slot!Running) \in Nat
        <4>1. IsFiniteSet(Slot!Pids)
          BY FS_Interval, SlotBounded DEF Slot!Pids
        <4>2. IsFiniteSet(Slot!Running)
          BY <3>1, <4>1, FS_Subset
        <4> QED  BY <4>2, FS_CardinalityType
      <3> QED  BY <2>2, <3>1, <3>2, <3>3 DEF n, k
    <2>4. ~wanted
      BY <2>1 DEF Slot!IInv, Slot!StopsHold
    <2> QED  BY <1>1, <2>1, <2>2, <2>3, <2>4, EndsKeeps
  <1> QED  BY <1>4, <1>5, <1>6, <1>7, <1>8 DEF Slot!LoopStep

\* A reading that raises leaves its server behind.
LEMMA ReadFailsKeeps == Slot!IInv /\ Slot!ReadFails => Slot!IInv'
  <1> SUFFICES ASSUME Slot!IInv, Slot!ReadFails PROVE Slot!IInv'
    OBVIOUS
  <1>1. /\ loop = "read" /\ Slot!RetryOrEnd /\ torn < MaxTorn /\ torn' = torn + 1
        /\ UNCHANGED <<stopping, proc, cur, wanted, attempts, calls, faults, slow>>
    BY DEF Slot!ReadFails
  <1>2. OtherTypes /\ torn' \in 0..MaxTorn
    BY <1>1, SlotTypeParts, SlotBounded DEF Slot!IInv, Slot!TypeOK
  <1>3. Cardinality(Slot!Running) <= slow' + torn'
    BY <1>1, <1>2, RunningFew, SlotBounded DEF OtherTypes
  <1>4. attempts <= restarts + 1
    BY <1>1 DEF Slot!IInv, Slot!AttemptsPaid
  <1> QED  BY <1>1, <1>2, <1>3, <1>4, RetryKeeps DEF OtherTypes

-----------------------------------------------------------------------------
(* The callers, and the operating system.                                   *)

\* The half of stop_one that its three actions share.
LEMMA AfterKillKeeps ==
    ASSUME Slot!IInv, NEW c \in Callers, Slot!AfterKill(c),
           UNCHANGED <<restarts, loop, cur, attempts>>, OtherTypes',
           stopping' = TRUE, wanted' = FALSE,
           Cardinality(Slot!Running') <= slow' + torn'
    PROVE  Slot!IInv'
  <1>1. /\ cancelled' = (cancelled \/ loop # "done")
        /\ stop' = [stop EXCEPT ![c] = IF loop # "done" THEN Slot!Joining ELSE Slot!Idle]
        /\ stop \in [Callers -> StopStates] /\ cancelled \in BOOLEAN
    BY SlotTypeParts DEF Slot!AfterKill, Slot!Joins, Slot!IInv
  <1>2. Slot!TypeOK'
    <2>1. stop' \in [Callers -> StopStates]
      BY <1>1, StopStatesDiffer
    <2> QED  BY <1>1, <2>1 DEF Slot!IInv, OtherTypes, Slot!TypeOK, StopStates
  <1>3. Slot!StopsHold' /\ Slot!AttemptsPaid'
    BY <1>1 DEF Slot!IInv, Slot!StopsHold, Slot!AttemptsPaid, Slot!AttemptsBounded
  <1>4. Slot!LoopAwaited'
    BY <1>1, StopStatesDiffer DEF Slot!IInv, Slot!LoopAwaited, Slot!AllIdle
  <1>5. Slot!LeftBehind'
    BY <1>1, SlotCounts DEF Slot!LeftBehind
  <1> QED  BY <1>2, <1>3, <1>4, <1>5 DEF Slot!IInv

\* stop_one up to its first await.
LEMMA StopKeeps == ASSUME Slot!IInv, NEW c \in Callers, Slot!Stop(c) PROVE Slot!IInv'
  <1>1. /\ OtherTypes /\ stop \in [Callers -> StopStates]
        /\ stop[c] = Slot!Idle /\ calls < MaxCalls /\ calls' = calls + 1
        /\ stopping' = TRUE /\ wanted' = FALSE
        /\ proc' = [p \in Slot!Pids |->
                       IF p = cur /\ p \in Slot!Running THEN "dying" ELSE proc[p]]
        /\ UNCHANGED <<restarts, loop, cur, attempts, faults, slow, torn>>
    BY SlotTypeParts DEF Slot!IInv, Slot!Stop, Slot!Flag
  <1>2. OtherTypes' /\ Slot!Running' = Slot!Running
    <2>1. proc' \in [Slot!Pids -> {"none", "alive", "dying", "exited"}]
      BY <1>1 DEF OtherTypes
    <2>2. calls' \in 0..MaxCalls
      BY <1>1, SlotBounded DEF OtherTypes
    <2>3. Slot!Running' = Slot!Running
      BY <1>1 DEF Slot!Running
    <2> QED  BY <1>1, <2>1, <2>2, <2>3 DEF OtherTypes
  <1>3. CASE /\ cur \in Slot!Running
             /\ stop' = [stop EXCEPT ![c] = Slot!Killing(cur)] /\ cancelled' = cancelled
    <2>1. cur \in Slot!Pids
      BY <1>3 DEF Slot!Running
    <2>2. stop' \in [Callers -> StopStates] /\ stop'[c] = Slot!Killing(cur) /\ ~Slot!AllIdle'
      BY <1>1, <1>3, <2>1, StopStatesDiffer DEF Slot!AllIdle
    <2>3. Slot!TypeOK'
      BY <1>1, <1>2, <1>3, <2>2 DEF Slot!IInv, OtherTypes, Slot!TypeOK, StopStates
    <2>4. Slot!StopsHold' /\ Slot!LoopAwaited' /\ Slot!AttemptsPaid'
      BY <1>1, <1>3, <2>2 DEF Slot!IInv, Slot!StopsHold, Slot!LoopAwaited, Slot!AttemptsPaid,
         Slot!AttemptsBounded
    <2>5. Slot!LeftBehind'
      <3>1. Slot!Awaited' = Slot!Awaited \cup {cur}
        BY <1>1, <1>3, <2>1, <2>2, StopStatesDiffer DEF Slot!Awaited
      <3>2. /\ Slot!Running' \cup Slot!Awaited' = Slot!Running \cup Slot!Awaited
            /\ (Slot!Running' \cup Slot!Awaited') \ {cur'} = (Slot!Running \cup Slot!Awaited) \ {cur}
        BY <1>1, <1>2, <1>3, <3>1
      <3> QED  BY <1>1, <1>2, <1>3, <3>2 DEF Slot!IInv, Slot!LeftBehind
    <2> QED  BY <2>3, <2>4, <2>5 DEF Slot!IInv
  <1>4. CASE cur \notin Slot!Running /\ Slot!AfterKill(c)
    <2>1. Cardinality(Slot!Running) <= slow + torn
      BY <1>4, RunningFew
    <2> QED  BY <1>1, <1>2, <1>4, <2>1, AfterKillKeeps
  <1> QED  BY <1>3, <1>4 DEF Slot!Stop, Slot!AwaitsExit

\* The server has exited.
LEMMA KillEndsKeeps == ASSUME Slot!IInv, NEW c \in Callers, Slot!KillEnds(c) PROVE Slot!IInv'
  <1>1. /\ OtherTypes /\ stop[c].at = "killing" /\ Slot!AfterKill(c)
        /\ proc[stop[c].pid] = "exited"
        /\ UNCHANGED <<stopping, restarts, loop, proc, cur, wanted, attempts, Slot!counters>>
    BY SlotTypeParts DEF Slot!IInv, Slot!KillEnds
  <1>2. stopping /\ ~wanted
    BY <1>1, StopStatesDiffer DEF Slot!IInv, Slot!StopsHold
  <1>3. OtherTypes' /\ Slot!Running' = Slot!Running /\ wanted = FALSE /\ stopping = TRUE
    BY <1>1, <1>2 DEF OtherTypes, Slot!Running, Slot!counters
  <1>4. Cardinality(Slot!Running) <= slow + torn
    <2>1. /\ stop[c].pid \in Slot!Awaited \ Slot!Running
          /\ stop[c].pid = cur => cur \notin Slot!Running
      <3>1. stop[c] = Slot!Killing(stop[c].pid) /\ stop[c].pid \in Slot!Pids
        BY <1>1, StopStatesDiffer, SlotTypeParts DEF Slot!IInv
      <3> QED  BY <1>1, <3>1 DEF Slot!Awaited, Slot!Running
    <2> QED  BY <2>1, RunningFew
  <1> QED  BY <1>1, <1>2, <1>3, <1>4, AfterKillKeeps DEF Slot!counters

\* The server outlives its kill.
LEMMA KillTimesOutKeeps ==
    ASSUME Slot!IInv, NEW c \in Callers, Slot!KillTimesOut(c) PROVE Slot!IInv'
  <1>1. /\ OtherTypes /\ stop[c].at = "killing" /\ Slot!AfterKill(c)
        /\ slow < MaxSlow /\ slow' = slow + 1
        /\ proc' = [proc EXCEPT ![cur] = IF @ = "alive" THEN "dying" ELSE @]
        /\ UNCHANGED <<stopping, restarts, loop, cur, wanted, attempts, calls, faults, torn>>
    BY SlotTypeParts DEF Slot!IInv, Slot!KillTimesOut
  <1>2. stopping /\ ~wanted
    BY <1>1, StopStatesDiffer DEF Slot!IInv, Slot!StopsHold
  <1>3. slow' \in 0..MaxSlow /\ slow' + torn' = slow + torn + 1
    BY <1>1, SlotBounded DEF OtherTypes
  <1>4. OtherTypes' /\ wanted = FALSE /\ stopping = TRUE
    <2>1. proc' \in [Slot!Pids -> {"none", "alive", "dying", "exited"}]
      BY <1>1 DEF OtherTypes
    <2> QED  BY <1>1, <1>2, <1>3, <2>1 DEF OtherTypes
  <1>5. Slot!Running' = Slot!Running
    BY <1>1 DEF OtherTypes, Slot!Running
  <1> QED  BY <1>1, <1>2, <1>3, <1>4, <1>5, RunningFew, AfterKillKeeps

\* start_one, where it overlaps no stop_one.
LEMMA StartKeeps == ASSUME ~StartsOverlap, Slot!IInv, Slot!Start PROVE Slot!IInv'
  <1>1. /\ Slot!AllIdle /\ calls < MaxCalls /\ calls' = calls + 1
        /\ stopping' = FALSE /\ restarts' = 0 /\ wanted' = TRUE /\ attempts' = 0
        /\ loop' = IF loop = "done" THEN "new" ELSE loop
        /\ UNCHANGED <<cancelled, proc, cur, stop, faults, slow, torn>>
    BY DEF Slot!Start
  <1>2. ~cancelled /\ loop # "handler"
    BY <1>1 DEF Slot!IInv, Slot!StopsHold, Slot!LoopAwaited
  <1>3. Slot!TypeOK'
    <2>1. calls' \in 0..MaxCalls /\ restarts' \in 0..MaxRestarts + 1 /\ attempts' \in Nat
      BY <1>1, SlotBounded DEF Slot!IInv, Slot!TypeOK
    <2> QED  BY <1>1, <2>1 DEF Slot!IInv, Slot!TypeOK
  <1>4. Slot!StopsHold' /\ Slot!LoopAwaited'
    BY <1>1, <1>2 DEF Slot!IInv, Slot!StopsHold, Slot!LoopAwaited, Slot!AllIdle
  <1>5. Slot!AttemptsPaid'
    BY <1>1, SlotBounded DEF Slot!AttemptsPaid
  <1>6. Slot!LeftBehind'
    <2>1. /\ Slot!Awaited = {} /\ Slot!Awaited' = {} /\ Slot!Running' = Slot!Running
      BY <1>1, StopStatesDiffer DEF Slot!AllIdle, Slot!Awaited, Slot!Running
    <2>2. loop = "done" => Cardinality(Slot!Running) <= slow + torn
      BY RunningFew
    <2>3. Slot!Running \cup {} = Slot!Running
      OBVIOUS
    <2>4. CASE loop = "done"
      BY <1>1, <1>2, <2>1, <2>2, <2>3, <2>4, SlotCounts DEF Slot!LeftBehind
    <2>5. CASE loop # "done"
      BY <1>1, <1>2, <2>1, <2>5 DEF Slot!IInv, Slot!LeftBehind
    <2> QED  BY <2>4, <2>5
  <1> QED  BY <1>3, <1>4, <1>5, <1>6 DEF Slot!IInv

\* Servers that exit.
LEMMA ServerKeeps == Slot!IInv /\ (Slot!ServerFails \/ Slot!ServerDies) => Slot!IInv'
  <1> SUFFICES ASSUME Slot!IInv, Slot!ServerFails \/ Slot!ServerDies PROVE Slot!IInv'
    OBVIOUS
  <1>1. /\ UNCHANGED <<stopping, restarts, loop, cancelled, cur, stop, wanted,
                       attempts, calls, slow, torn>>
        /\ \E p \in Slot!Pids : proc' = [proc EXCEPT ![p] = "exited"]
        /\ faults' \in 0..MaxFaults
    <2>1. CASE Slot!ServerFails
      <3>1. faults' \in 0..MaxFaults
        BY <2>1, SlotBounded DEF Slot!ServerFails, Slot!IInv, Slot!TypeOK
      <3> QED  BY <2>1, <3>1 DEF Slot!ServerFails
    <2>2. CASE Slot!ServerDies
      BY <2>2 DEF Slot!ServerDies, Slot!IInv, Slot!TypeOK, Slot!counters
    <2> QED  BY <2>1, <2>2
  <1>2. /\ proc' \in [Slot!Pids -> {"none", "alive", "dying", "exited"}]
        /\ Slot!Running' \subseteq Slot!Running
    BY <1>1 DEF Slot!IInv, Slot!TypeOK, Slot!Running
  <1>3. Slot!TypeOK'
    BY <1>1, <1>2 DEF Slot!IInv, Slot!TypeOK
  <1>4. Slot!StopsHold' /\ Slot!LoopAwaited' /\ Slot!AttemptsPaid'
    BY <1>1 DEF Slot!IInv, Slot!StopsHold, Slot!LoopAwaited, Slot!AttemptsPaid,
       Slot!AttemptsBounded, Slot!AllIdle, Slot!GaveUp
  <1>5. Slot!LeftBehind'
    <2>1. /\ Slot!Awaited' = Slot!Awaited
          /\ Slot!Running' \cup Slot!Awaited \subseteq Slot!Running \cup Slot!Awaited
          /\ (Slot!Running' \cup Slot!Awaited) \ {cur}
               \subseteq (Slot!Running \cup Slot!Awaited) \ {cur}
      BY <1>1, <1>2 DEF Slot!Awaited
    <2>2. /\ Slot!Running \in SUBSET Slot!Pids /\ slow + torn \in Nat
          /\ Slot!Running \cup Slot!Awaited \in SUBSET Slot!Pids
          /\ (Slot!Running \cup Slot!Awaited) \ {cur} \in SUBSET Slot!Pids
      BY RunningFew
    <2>3. CASE cancelled \/ loop \in {"handler", "done"}
      <3>1. Cardinality(Slot!Running) <= slow + torn
        BY <2>3, StraysByLoop DEF Slot!IInv
      <3>2. Cardinality(Slot!Running') <= slow + torn
        BY <1>2, <2>2, <3>1, FewServers
      <3> QED  BY <1>1, <2>3, <3>2, SlotCounts DEF Slot!LeftBehind
    <2>4. CASE ~cancelled /\ loop = "read"
      <3>1. Cardinality((Slot!Running \cup Slot!Awaited) \ {cur}) <= slow + torn
        BY <2>4, StraysByLoop DEF Slot!IInv
      <3>2. Cardinality((Slot!Running' \cup Slot!Awaited) \ {cur}) <= slow + torn
        BY <2>1, <2>2, <3>1, FewServers
      <3> QED  BY <1>1, <2>1, <2>4, <3>2, SlotCounts DEF Slot!LeftBehind
    <2>5. CASE ~cancelled /\ loop \in {"new", "spawn", "sleep"}
      <3>1. Cardinality(Slot!Running \cup Slot!Awaited) <= slow + torn
        BY <2>5, StraysByLoop DEF Slot!IInv
      <3>2. Cardinality(Slot!Running' \cup Slot!Awaited) <= slow + torn
        BY <2>1, <2>2, <3>1, FewServers
      <3> QED  BY <1>1, <2>1, <2>5, <3>2, SlotCounts DEF Slot!LeftBehind
    <2> QED  BY <2>3, <2>4, <2>5 DEF Slot!IInv, Slot!TypeOK
  <1> QED  BY <1>3, <1>4, <1>5 DEF Slot!IInv

-----------------------------------------------------------------------------
(* The inductive invariant.                                                 *)

\* The invariant holds at the beginning.
LEMMA InitIInv == Slot!Init => Slot!IInv
  <1> SUFFICES ASSUME Slot!Init PROVE Slot!IInv
    OBVIOUS
  <1> USE SlotBounded DEF Slot!Init
  <1>1. OtherTypes
    <2>1. proc \in [Slot!Pids -> {"none", "alive", "dying", "exited"}]
      OBVIOUS
    <2>2. /\ cur \in 0..MaxSpawns /\ calls \in 0..MaxCalls
          /\ faults \in 0..MaxFaults /\ slow \in 0..MaxSlow /\ torn \in 0..MaxTorn
          /\ restarts \in 0..MaxRestarts + 1 /\ attempts \in Nat
      OBVIOUS
    <2> QED  BY <2>1, <2>2 DEF OtherTypes
  <1>2. Slot!TypeOK
    <2>1. stop \in [Callers -> StopStates]
      BY StopStatesDiffer
    <2> QED  BY <1>1, <2>1, SlotTypeParts
  <1>3. Slot!StopsHold /\ Slot!LoopAwaited /\ Slot!AttemptsPaid
    BY DEF Slot!StopsHold, Slot!LoopAwaited, Slot!AttemptsPaid, Slot!AttemptsBounded
  <1>4. Slot!LeftBehind
    <2>1. Slot!Running = {}
      BY DEF Slot!Running
    <2> QED  BY <2>1, FS_EmptySet, SlotCounts DEF Slot!LeftBehind
  <1> QED  BY <1>2, <1>3, <1>4 DEF Slot!IInv

\* And every step preserves it.
LEMMA IInvStep == ASSUME ~StartsOverlap PROVE Slot!IInv /\ [Slot!Next]_(Slot!vars) => Slot!IInv'
  <1> SUFFICES ASSUME Slot!IInv, [Slot!Next]_(Slot!vars) PROVE Slot!IInv'
    OBVIOUS
  <1>1. CASE UNCHANGED Slot!vars
    BY <1>1 DEF Slot!vars, Slot!counters, Slot!IInv, Slot!TypeOK, Slot!StopsHold,
       Slot!LoopAwaited, Slot!LeftBehind, Slot!Awaited, Slot!AttemptsPaid, Slot!AttemptsBounded, Slot!AllIdle,
       Slot!GaveUp, Slot!Running
  <1> QED  BY <1>1, LoopStepKeeps, ReadFailsKeeps, StopKeeps, KillEndsKeeps, KillTimesOutKeeps,
              StartKeeps, ServerKeeps DEF Slot!Next, Slot!StopStep

\* Every reachable state satisfies the inductive invariant.
THEOREM SlotInvariance == ASSUME ~StartsOverlap PROVE Slot!Spec => []Slot!IInv
  BY InitIInv, IInvStep, PTL DEF Slot!Spec

\* The variables keep their types.
THEOREM SlotTypeCorrect == ASSUME ~StartsOverlap PROVE Slot!Spec => []Slot!TypeOK
  <1>1. Slot!IInv => Slot!TypeOK
    BY DEF Slot!IInv
  <1> QED  BY <1>1, SlotInvariance, PTL

\* A slot has one server and those left behind by kills that did not end in
\* time and readings that raised.
THEOREM OneServerRuns == ASSUME ~StartsOverlap PROVE Slot!Spec => []OneServer
  <1>1. Slot!IInv => OneServer
    <2> SUFFICES ASSUME Slot!IInv PROVE Cardinality(Slot!Running) <= 1 + slow + torn
      BY SlotCounts DEF OneServer, Slot!OneServer
    <2>1. slow \in Nat /\ torn \in Nat
      BY SlotBounded DEF Slot!IInv, Slot!TypeOK
    <2> QED  BY <2>1, RunningFew
  <1> QED  BY <1>1, SlotInvariance, PTL

\* Once the calls are over, a slot that was last started is supervised unless
\* its loop gave up.
THEOREM StartsStick == ASSUME ~StartsOverlap PROVE Slot!Spec => []Slot!StartSticks
  <1>1. Slot!IInv => Slot!StartSticks
    BY DEF Slot!IInv, Slot!LoopAwaited, Slot!StartSticks
  <1> QED  BY <1>1, SlotInvariance, PTL

\* When stop_one has returned and nothing was started since, no run loop is
\* left and no server but those left behind.
THEOREM StopsStick == ASSUME ~StartsOverlap PROVE Slot!Spec => []Slot!StopSticks
  <1>1. Slot!IInv => Slot!StopSticks
    <2> SUFFICES ASSUME Slot!IInv, ~wanted, Slot!AllIdle
                 PROVE  loop = "done" /\ Cardinality(Slot!Running) <= slow + torn
      BY SlotCounts DEF Slot!StopSticks
    <2>1. loop = "done"
      BY DEF Slot!IInv, Slot!LoopAwaited
    <2> QED  BY <2>1, RunningFew
  <1> QED  BY <1>1, SlotInvariance, PTL

\* Of the calls of start_one and stop_one the last wins.
THEOREM LastCallHolds == ASSUME ~StartsOverlap PROVE Slot!Spec => []LastCallWins
  <1>1. Slot!StartSticks /\ Slot!StopSticks => LastCallWins
    BY DEF LastCallWins
  <1> QED  BY <1>1, StartsStick, StopsStick, PTL

\* A server that cannot stay up is tried at most max_restarts times again.
THEOREM RetriesBounded == ASSUME ~StartsOverlap PROVE Slot!Spec => []Slot!AttemptsBounded
  <1>1. Slot!IInv => Slot!AttemptsBounded
    <2> SUFFICES ASSUME Slot!IInv PROVE attempts <= MaxRestarts + 1
      BY DEF Slot!AttemptsBounded
    <2>1. attempts \in Nat /\ restarts \in Nat /\ MaxRestarts \in Nat
      BY SlotBounded DEF Slot!IInv, Slot!TypeOK
    <2> QED  BY <2>1 DEF Slot!IInv, Slot!AttemptsPaid, Slot!AttemptsBounded
  <1> QED  BY <1>1, SlotInvariance, PTL
=============================================================================
