------------------------- MODULE DetachedJobsProofs -------------------------
(***************************************************************************)
(* Proofs about DetachedJobs, for any number of jobs, pids and callers:    *)
(* job.cancel spares strangers that do not name the job, unless they take  *)
(* the pid between the look at its command line and the signal; and where  *)
(* every job has a directory of its own nothing is called succeeded that   *)
(* did not exit with 0.  Two starts in one second with one label share a   *)
(* directory, and then the second claim is false: the hypothesis is stated *)
(* where it is used.                                                       *)
(***************************************************************************)
EXTENDS DetachedJobs, TLAPS

\* Two jobs never share a directory.
OwnDirs == \A s, o \in Starts : Dir[s] = Dir[o] => s = o

LEMMA DirsAssumed == \A s \in Starts : Dir[s] \in Dirs
  BY DEF Dirs

LEMMA InitTypeOK == ASSUME Init PROVE TypeOK
<1>1. NoShell \in Shells /\ NoCancel \in Cancels
  BY DEF NoShell, Shells, NoCancel, Cancels
<1>2. QED
  BY <1>1 DEF Init, TypeOK, Contents

\* One field of one shell is changed.
LEMMA ShellChanged ==
  ASSUME NEW x \in Shells,
         NEW pc \in Live \cup {"none", "exited", "reaped"}, NEW rc \in {"none", "zero", "one"},
         NEW b \in BOOLEAN
  PROVE  /\ [x EXCEPT !.pc = pc] \in Shells
         /\ [x EXCEPT !.pc = pc, !.rc = rc] \in Shells
         /\ [x EXCEPT !.pc = pc, !.left = b] \in Shells
         /\ [x EXCEPT !.left = b, !.pc = pc] \in Shells
         /\ [x EXCEPT !.left = b] \in Shells
         /\ [x EXCEPT !.termed = b] \in Shells /\ [x EXCEPT !.named = b] \in Shells
  BY DEF Shells

LEMMA ShellsTyped ==
  ASSUME TypeOK, NEW s \in Starts
  PROVE  /\ shell[s] \in Shells
         /\ shell[s].pc \in Live \cup {"none", "exited", "reaped"}
         /\ shell[s].pid \in Pids \cup {None} /\ shell[s].rc \in {"none", "zero", "one"}
         /\ shell[s].hears \in BOOLEAN /\ shell[s].termed \in BOOLEAN /\ shell[s].left \in BOOLEAN
  BY DEF TypeOK, Shells

LEMMA ShellPut ==
  ASSUME TypeOK, NEW s \in Starts, NEW x \in Shells
  PROVE  [shell EXCEPT ![s] = x] \in [Starts -> Shells]
  BY DEF TypeOK

\* One field of one job.cancel is changed.
LEMMA CancelChanged ==
  ASSUME NEW x \in Cancels, NEW b \in BOOLEAN
  PROVE  /\ [x EXCEPT !.pc = "aimed"] \in Cancels /\ [x EXCEPT !.pc = "grace"] \in Cancels
         /\ [x EXCEPT !.kept = b] \in Cancels
         /\ [x EXCEPT !.pc = "doomed", !.kept = b] \in Cancels
         /\ [x EXCEPT !.pc = "doomed", !.kept = b].dir = x.dir
         /\ [x EXCEPT !.pc = "doomed", !.kept = b].pid = x.pid
         /\ [x EXCEPT !.pc = "grace"].pc = "grace"
  BY DEF Cancels, InCalls

\* A job.cancel that is over is not between two calls.
LEMMA OverIsIdle ==
  ASSUME TypeOK, NEW c \in Callers, NEW d \in Dirs,
         Ends(c) \/ Told(c, d, "term") \/ Told(c, d, "kill")
  PROVE  cancel'[c].pc \notin InCalls
  <1>1. /\ NoCancel.pc = "idle"
        /\ [NoCancel EXCEPT !.dir = <<d>>, !.told = "term"].pc = "idle"
        /\ [NoCancel EXCEPT !.dir = <<d>>, !.told = "kill"].pc = "idle"
    BY DEF NoCancel
  <1>2. QED
    BY <1>1 DEF Ends, Told, TypeOK, InCalls

LEMMA CancelPut ==
  ASSUME TypeOK, NEW c \in Callers, NEW d \in Dirs,
         Ends(c) \/ Told(c, d, "term") \/ Told(c, d, "kill")
         \/ Goes(c, "aimed") \/ Goes(c, "grace")
  PROVE  cancel' \in [Callers -> Cancels]
  <1>1. /\ NoCancel \in Cancels
        /\ [NoCancel EXCEPT !.dir = <<d>>, !.told = "term"] \in Cancels
        /\ [NoCancel EXCEPT !.dir = <<d>>, !.told = "kill"] \in Cancels
    BY DEF NoCancel, Cancels
  <1>2. cancel \in [Callers -> Cancels] /\ cancel[c] \in Cancels
    BY DEF TypeOK
  <1>21. [cancel[c] EXCEPT !.pc = "aimed"] \in Cancels /\ [cancel[c] EXCEPT !.pc = "grace"] \in Cancels
    BY <1>2, CancelChanged
  <1>3. QED
    BY <1>1, <1>2, <1>21 DEF Ends, Told, Goes

LEMMA CancelTyped ==
  ASSUME TypeOK, NEW c \in Callers
  PROVE  /\ cancel[c] \in Cancels /\ cancel[c].pid \in Pids \cup {None}
         /\ cancel[c].kept \in BOOLEAN
  BY DEF TypeOK, Cancels

\* What a pid that is given away leaves of every job.cancel.
LEMMA GivenTyped ==
  ASSUME TypeOK, NEW p, Given(p)
  PROVE  /\ cancel' \in [Callers -> Cancels]
         /\ \A c \in Callers :
              /\ cancel'[c].pc = cancel[c].pc /\ cancel'[c].dir = cancel[c].dir
              /\ cancel'[c].pid = cancel[c].pid
              /\ cancel'[c].kept => /\ cancel[c].kept
                                    /\ cancel[c].pc \in InCalls => cancel[c].pid # p
  <1>1. \A c \in Callers : /\ cancel[c] \in Cancels
                           /\ [cancel[c] EXCEPT !.kept = FALSE] \in Cancels
    BY CancelChanged DEF TypeOK
  <1>2. \A c \in Callers :
          cancel'[c] = IF cancel[c].pc \in InCalls /\ cancel[c].pid = p
                       THEN [cancel[c] EXCEPT !.kept = FALSE] ELSE cancel[c]
    BY DEF Given
  <1>3. cancel' \in [Callers -> Cancels]
    BY <1>1 DEF Given
  <1>4. QED
    BY <1>1, <1>2, <1>3 DEF Cancels

\* A group with a member is a pid.
LEMMA TakenIsPid ==
  ASSUME TypeOK, PidsOwned, NEW p, Taken(p) PROVE p \in Pids
  BY DEF Taken, PidsOwned, TypeOK

LEMMA StruckTyped ==
  ASSUME TypeOK, PidsOwned, NEW c \in Callers, NEW d, Taken(cancel[c].pid), Signalled(c, d)
  PROVE  struck' \subseteq Pids
  BY TakenIsPid DEF TypeOK, Signalled

LEMMA BoundsTyped ==
  ASSUME TypeOK, NEW what \in {"strangers", "cancels", "crashes"}, Count(what)
  PROVE  bounds' \in [strangers : Nat, cancels : Nat, crashes : Nat]
  <1>1. bounds \in [strangers : Nat, cancels : Nat, crashes : Nat]
    BY DEF TypeOK
  <1>2. CASE what = "strangers"
    BY <1>1, <1>2 DEF Count
  <1>3. CASE what = "cancels"
    BY <1>1, <1>3 DEF Count
  <1>4. CASE what = "crashes"
    BY <1>1, <1>4 DEF Count
  <1>5. QED
    BY <1>2, <1>3, <1>4

LEMMA NewerTyped == ASSUME TypeOK, NEW d \in Dirs, Newest(d) PROVE newer' \subseteq Dirs \X Dirs
  BY DEF TypeOK, Newest

LEMMA FileTyped ==
  ASSUME TypeOK, NEW d \in Dirs, NEW code \in Contents, Coded(d, code)
  PROVE  file' \in [Dirs -> Contents] /\ newer' \subseteq Dirs \X Dirs
<1>1. CASE file[d] # "none"
  BY <1>1 DEF TypeOK, Coded, codes
<1>2. CASE file[d] = "none"
  <2>1. file' = [file EXCEPT ![d] = code] /\ Newest(d)
    BY <1>2 DEF Coded
  <2>2. newer' \subseteq Dirs \X Dirs
    BY <2>1, NewerTyped
  <2>3. QED
    BY <2>1, <2>2 DEF TypeOK
<1>3. QED
  BY <1>1, <1>2

LEMMA NextTypeOK == ASSUME TypeOK, PidsOwned, [Next]_vars PROVE TypeOK'
<1> USE DirsAssumed DEF disk, jobs, readers, kernel, codes
<1>1. CASE UNCHANGED vars
  BY <1>1 DEF TypeOK, vars
<1>2. ASSUME NEW s \in Starts, Make(s) \/ Abandon(s) PROVE TypeOK'
  BY <1>2 DEF TypeOK, Make, Abandon
<1>3. ASSUME NEW s \in Starts, Spawn(s) PROVE TypeOK'
  <2>1. PICK p \in Pids, hears \in BOOLEAN :
          shell' = [shell EXCEPT ![s] = [NoShell EXCEPT !.pc = "command", !.pid = p, !.hears = hears]]
    BY <1>3 DEF Spawn
  <2>2. [NoShell EXCEPT !.pc = "command", !.pid = p, !.hears = hears] \in Shells
    BY DEF NoShell, Shells, Live
  <2>3. shell' \in [Starts -> Shells]
    BY <2>1, <2>2, ShellPut
  <2>4. start' \in [Starts -> {"idle", "spawning", "spawned", "recorded", "abandoned", "lost"}]
    BY <1>3 DEF Spawn, TypeOK
  <2>5. cancel' \in [Callers -> Cancels]
    BY <1>3, GivenTyped DEF Spawn
  <2>6. QED
    BY <1>3, <2>3, <2>4, <2>5 DEF Spawn, TypeOK
<1>4. ASSUME NEW s \in Starts, Record(s) PROVE TypeOK'
  <2>1. shell[s].pid \in Pids \cup {None}
    BY ShellsTyped
  <2>2. QED
    BY <1>4, <2>1 DEF TypeOK, Record
<1>5. ASSUME NEW s \in Starts, CommandEnds(s) PROVE TypeOK'
  <2>1. PICK rc \in {"zero", "one"} :
          shell' = [shell EXCEPT ![s] = [shell[s] EXCEPT !.pc = "ending", !.rc = rc]]
    BY <1>5 DEF CommandEnds
  <2>2. [shell[s] EXCEPT !.pc = "ending", !.rc = rc] \in Shells
    BY ShellsTyped, ShellChanged DEF Live
  <2>3. shell' \in [Starts -> Shells]
    BY <2>1, <2>2, ShellPut
  <2>4. QED
    BY <1>5, <2>3 DEF TypeOK, CommandEnds, Beside
<1>6. ASSUME NEW s \in Starts, NEW pc \in {"exited", "opened", "wrote"}, At(s, pc)
      PROVE  shell' \in [Starts -> Shells]
  <2>1. [shell[s] EXCEPT !.pc = pc] \in Shells
    BY ShellsTyped, ShellChanged DEF Live
  <2>2. QED
    BY <1>6, <2>1, ShellPut DEF At
<1>7. ASSUME NEW s \in Starts, ShellLeaves(s) \/ Exits(s) PROVE TypeOK'
  <2>1. shell' \in [Starts -> Shells]
    BY <1>7, <1>6 DEF ShellLeaves, Exits
  <2>2. QED
    BY <1>7, <2>1 DEF TypeOK, ShellLeaves, Exits, Beside
<1>71. ASSUME NEW s \in Starts, Execs(s) PROVE TypeOK'
  <2>1. [shell[s] EXCEPT !.named = FALSE] \in Shells
    BY ShellsTyped, ShellChanged
  <2>2. shell' \in [Starts -> Shells]
    BY <1>71, <2>1, ShellPut DEF Execs
  <2>3. QED
    BY <1>71, <2>2 DEF TypeOK, Execs, Beside
<1>72. ASSUME NEW o \in Others, OtherEnds(o) PROVE TypeOK'
  <2>1. o \in Dirs
    BY DEF Dirs
  <2>2. newer' \subseteq Dirs \X Dirs
    BY <1>72, <2>1, NewerTyped DEF OtherEnds
  <2>3. file' \in [Dirs -> Contents]
    BY <1>72, <2>1 DEF OtherEnds, TypeOK, Contents
  <2>4. QED
    BY <1>72, <2>2, <2>3 DEF TypeOK, OtherEnds, Beside
<1>8. ASSUME NEW s \in Starts, OpensCode(s) \/ WritesCode(s) PROVE TypeOK'
  <2>1. shell' \in [Starts -> Shells]
    BY <1>8, <1>6 DEF OpensCode, WritesCode
  <2>2. shell[s].rc \in Contents
    BY ShellsTyped DEF Contents
  <2>3. file' \in [Dirs -> Contents]
    BY <1>8, <2>2 DEF TypeOK, OpensCode, WritesCode, Contents
  <2>4. newer' \subseteq Dirs \X Dirs
    BY <1>8, NewerTyped DEF OpensCode, WritesCode
  <2>5. QED
    BY <1>8, <2>1, <2>3, <2>4 DEF TypeOK, OpensCode, WritesCode, Beside
<1>9. ASSUME NEW s \in Starts, Terminated(s) PROVE TypeOK'
  <2>1. PICK left \in BOOLEAN :
          shell' = [shell EXCEPT ![s] = [shell[s] EXCEPT !.pc = "exited", !.left = left]]
    BY <1>9 DEF Terminated
  <2>2. [shell[s] EXCEPT !.pc = "exited", !.left = left] \in Shells
    BY ShellsTyped, ShellChanged
  <2>3. shell' \in [Starts -> Shells]
    BY <2>1, <2>2, ShellPut
  <2>4. QED
    BY <1>9, <2>3 DEF TypeOK, Terminated, Beside
<1>10. ASSUME NEW s \in Starts, Reap(s) \/ LeftoverEnds(s) PROVE TypeOK'
  <2>1. /\ [shell[s] EXCEPT !.pc = "reaped"] \in Shells
        /\ [shell[s] EXCEPT !.left = FALSE] \in Shells
    BY ShellsTyped, ShellChanged
  <2>2. shell' \in [Starts -> Shells]
    BY <1>10, <2>1, ShellPut DEF Reap, LeftoverEnds
  <2>3. QED
    BY <1>10, <2>2 DEF TypeOK, Reap, LeftoverEnds
<1>11. ASSUME NEW p \in Pids, StrangerStarts(p) \/ StrangerEnds(p) PROVE TypeOK'
  <2>1. bounds' \in [strangers : Nat, cancels : Nat, crashes : Nat]
    BY <1>11, BoundsTyped DEF TypeOK, StrangerStarts, StrangerEnds
  <2>2. stranger' \subseteq Pids
    BY <1>11 DEF TypeOK, StrangerStarts, StrangerEnds
  <2>3. mentions' \in [Pids -> SUBSET Dirs]
    <3>1. CASE StrangerStarts(p)
      <4>1. PICK n \in {{}} \cup {{Dir[s]} : s \in Starts} : mentions' = [mentions EXCEPT ![p] = n]
        BY <3>1 DEF StrangerStarts
      <4>2. n \subseteq Dirs
        OBVIOUS
      <4>3. QED
        BY <4>1, <4>2 DEF TypeOK
    <3>2. CASE StrangerEnds(p)
      BY <3>2 DEF TypeOK, StrangerEnds
    <3>3. QED
      BY <1>11, <3>1, <3>2
  <2>4. cancel' \in [Callers -> Cancels]
    BY <1>11, GivenTyped DEF TypeOK, StrangerStarts, StrangerEnds
  <2>5. QED
    BY <1>11, <2>1, <2>2, <2>3, <2>4 DEF TypeOK, StrangerStarts, StrangerEnds
<1>12. ASSUME NEW d \in Dirs, LookAtFile(d) \/ LookAtPid(d) PROVE TypeOK'
  BY <1>12 DEF TypeOK, LookAtFile, LookAtPid, Answer, State
<1>13. ASSUME NEW d \in Dirs, NEW c \in Callers, Cancel(c, d) PROVE TypeOK'
  <2>1. bounds' \in [strangers : Nat, cancels : Nat, crashes : Nat]
    BY <1>13, BoundsTyped DEF Cancel
  <2>2. [NoCancel EXCEPT !.pc = "checked", !.dir = <<d>>, !.pid = meta[d]] \in Cancels
    BY DEF TypeOK, NoCancel, Cancels, InCalls
  <2>3. cancel' \in [Callers -> Cancels]
    BY <1>13, <2>2, CancelPut DEF Cancel, TypeOK
  <2>4. QED
    BY <1>13, <2>1, <2>3 DEF Cancel, TypeOK
<1>14. ASSUME NEW d \in Dirs, NEW c \in Callers, Aim(c, d) \/ Raises(c, d) PROVE TypeOK'
  <2>1. cancel' \in [Callers -> Cancels]
    BY <1>14, CancelPut DEF Aim, Raises
  <2>2. QED
    BY <1>14, <2>1 DEF Aim, Raises, TypeOK
<1>141. ASSUME NEW d \in Dirs, NEW c \in Callers, Escalate(c, d) PROVE TypeOK'
  <2>1. [cancel[c] EXCEPT !.pc = "doomed", !.kept = TRUE] \in Cancels
    BY CancelTyped, CancelChanged
  <2>2. cancel' \in [Callers -> Cancels]
    BY <1>141, <2>1, CancelPut DEF Escalate, TypeOK
  <2>3. QED
    BY <1>141, <2>2 DEF Escalate, TypeOK
<1>142. ASSUME NEW d \in Dirs, NEW c \in Callers, Terminate(c, d) PROVE TypeOK'
  <2>1. cancel' \in [Callers -> Cancels] /\ struck' \subseteq Pids
    BY <1>142, CancelPut, StruckTyped DEF Terminate
  <2>2. \A s \in Starts : shell[s] \in Shells /\ [shell[s] EXCEPT !.termed = TRUE] \in Shells
    BY ShellsTyped, ShellChanged DEF Live
  <2>3. shell' \in [Starts -> Shells]
    BY <1>142, <2>2 DEF Terminate
  <2>4. QED
    BY <1>142, <2>1, <2>3 DEF Terminate, TypeOK
<1>143. ASSUME NEW d \in Dirs, NEW c \in Callers, DiesInGrace(c, d) PROVE TypeOK'
  <2>1. cancel' \in [Callers -> Cancels]
    BY <1>143, CancelPut DEF DiesInGrace
  <2>2. file' \in [Dirs -> Contents] /\ newer' \subseteq Dirs \X Dirs
    BY <1>143, FileTyped DEF DiesInGrace, Contents
  <2>3. QED
    BY <1>143, <2>1, <2>2 DEF TypeOK, DiesInGrace
<1>15. ASSUME NEW d \in Dirs, NEW c \in Callers, Kill(c, d) PROVE TypeOK'
  <2>1. cancel' \in [Callers -> Cancels] /\ struck' \subseteq Pids
    BY <1>15, CancelPut, StruckTyped DEF Kill
  <2>2. \A s \in Starts :
          /\ shell[s] \in Shells
          /\ [shell[s] EXCEPT !.left = FALSE,
                              !.pc = IF Running(s) THEN "exited" ELSE @] \in Shells
    BY ShellsTyped, ShellChanged DEF Live
  <2>3. shell' \in [Starts -> Shells]
    BY <1>15, <2>2 DEF Kill, Killed
  <2>4. file' \in [Dirs -> Contents] /\ newer' \subseteq Dirs \X Dirs
    BY <1>15, FileTyped DEF Kill, Contents
  <2>5. QED
    BY <1>15, <2>1, <2>3, <2>4 DEF Kill, TypeOK
<1>16. ASSUME PollJobs PROVE TypeOK'
  <2>1. page' \in [primed : BOOLEAN, seen : [Dirs -> {"none", "succeeded", "failed"}]]
    BY <1>16 DEF TypeOK, PollJobs, State
  <2>2. \A d \in Dirs : announced[d] \in Seq({"succeeded", "failed"})
    BY DEF TypeOK
  <2>3. \A d \in Dirs : Append(announced[d], State(file[d])) \in Seq({"succeeded", "failed"})
    BY <2>2 DEF State
  <2>4. announced' \in [Dirs -> Seq({"succeeded", "failed"})]
    BY <1>16, <2>2, <2>3 DEF PollJobs
  <2>5. QED
    BY <1>16, <2>1, <2>4 DEF TypeOK, PollJobs
<1>17. ASSUME Crash PROVE TypeOK'
  <2>1. NoCancel \in Cancels
    BY DEF NoCancel, Cancels
  <2>2. bounds' \in [strangers : Nat, cancels : Nat, crashes : Nat]
    BY <1>17, BoundsTyped DEF Crash
  <2>3. cancel' \in [Callers -> Cancels]
    BY <1>17, <2>1 DEF TypeOK, Crash
  <2>4. start' \in [Starts -> {"idle", "spawning", "spawned", "recorded", "abandoned", "lost"}]
    BY <1>17 DEF TypeOK, Crash
  <2>5. QED
    BY <1>17, <2>2, <2>3, <2>4 DEF TypeOK, Crash
<1>18. QED
  BY <1>1, <1>2, <1>3, <1>4, <1>5, <1>7, <1>8, <1>9, <1>10, <1>11, <1>12, <1>13,
     <1>14, <1>141, <1>142, <1>143, <1>15, <1>16, <1>17, <1>71, <1>72 DEF Next


------------------------------------------------------------------------------
(* The pids. *)

LEMMA InitPidsOwned == ASSUME Init PROVE PidsOwned
  BY DEF Init, PidsOwned, Holds, Running, Live, NoShell

\* A step that gives no pid away keeps every owner.
LEMMA PidsKept ==
  ASSUME PidsOwned, stranger' \subseteq stranger,
         \A s \in Starts : Holds(s)' => Holds(s) /\ shell'[s].pid = shell[s].pid
  PROVE  PidsOwned'
  BY DEF PidsOwned

\* One shell changes, keeps its pid and holds it no longer than before.
LEMMA ShellStepOwned ==
  ASSUME TypeOK, PidsOwned, UNCHANGED stranger, NEW s \in Starts,
         \A o \in Starts : o # s => shell'[o] = shell[o],
         shell'[s].pid = shell[s].pid, Holds(s)' => Holds(s)
  PROVE  PidsOwned'
  <1>1. \A o \in Starts : Holds(o)' => Holds(o) /\ shell'[o].pid = shell[o].pid
    BY DEF Holds, Running
  <1>2. QED
    BY <1>1, PidsKept

LEMMA NextPidsOwned == ASSUME TypeOK, PidsOwned, [Next]_vars PROVE PidsOwned'
<1> USE DEF jobs, disk, readers, kernel
<1>1. CASE UNCHANGED <<shell, stranger>>
  BY <1>1 DEF PidsOwned, Holds, Running
<1>2. ASSUME NEW s \in Starts, Spawn(s) PROVE PidsOwned'
  <2>1. PICK p \in Pids, hears \in BOOLEAN :
          /\ ~Taken(p)
          /\ shell' = [shell EXCEPT ![s] = [NoShell EXCEPT !.pc = "command", !.pid = p, !.hears = hears]]
    BY <1>2 DEF Spawn
  <2>2. shell'[s].pid = p /\ \A o \in Starts : o # s => shell'[o] = shell[o]
    BY <2>1 DEF TypeOK, NoShell
  <2>3. \A o \in Starts : Holds(o) => shell[o].pid # p
    BY <2>1 DEF Taken
  <2>4. p \notin stranger /\ UNCHANGED stranger
    BY <1>2, <2>1 DEF Taken, Spawn
  <2>5. \A o \in Starts : o # s => (Holds(o)' <=> Holds(o))
    BY <2>2 DEF Holds, Running
  <2>6. QED
    BY <2>2, <2>3, <2>4, <2>5 DEF PidsOwned
<1>3. ASSUME NEW s \in Starts,
             \/ Execs(s) \/ CommandEnds(s) \/ ShellLeaves(s) \/ OpensCode(s) \/ WritesCode(s)
             \/ Exits(s) \/ Terminated(s) \/ Reap(s) \/ LeftoverEnds(s)
      PROVE  PidsOwned'
  <2>1. UNCHANGED stranger
    BY <1>3 DEF Execs, CommandEnds, ShellLeaves, OpensCode, WritesCode, Exits, Terminated, Reap,
                LeftoverEnds, Beside
  <2>2. \A o \in Starts : o # s => shell'[o] = shell[o]
    BY <1>3 DEF Execs, CommandEnds, ShellLeaves, OpensCode, WritesCode, Exits, Terminated, Reap,
                LeftoverEnds, At, TypeOK
  <2>3. shell'[s].pid = shell[s].pid
    BY <1>3, ShellsTyped DEF Execs, CommandEnds, ShellLeaves, OpensCode, WritesCode, Exits, Terminated,
                Reap, LeftoverEnds, At, TypeOK, Shells
  <2>4. Holds(s)' => Holds(s)
    <3>1. CASE \/ Execs(s) \/ CommandEnds(s) \/ ShellLeaves(s) \/ OpensCode(s) \/ WritesCode(s)
               \/ Exits(s)
      BY <3>1 DEF Execs, CommandEnds, ShellLeaves, OpensCode, WritesCode, Exits, At, Holds, Running, Live
    <3>2. CASE Terminated(s)
      BY <3>2 DEF Terminated, Holds
    <3>3. CASE Reap(s) \/ LeftoverEnds(s)
      BY <3>3 DEF Reap, LeftoverEnds, Holds
    <3>4. QED
      BY <1>3, <3>1, <3>2, <3>3
  <2>5. QED
    BY <2>1, <2>2, <2>3, <2>4, ShellStepOwned
<1>4. ASSUME NEW p \in Pids, StrangerStarts(p) PROVE PidsOwned'
  <2>1. \A s \in Starts : Holds(s) => shell[s].pid # p
    BY <1>4 DEF StrangerStarts, Taken
  <2>2. UNCHANGED shell /\ stranger' = stranger \cup {p}
    BY <1>4 DEF StrangerStarts
  <2>3. QED
    BY <2>1, <2>2 DEF PidsOwned, Holds, Running
<1>5. ASSUME NEW p \in Pids, StrangerEnds(p) PROVE PidsOwned'
  BY <1>5 DEF StrangerEnds, PidsOwned, Holds, Running
<1>6. ASSUME NEW d \in Dirs, NEW c \in Callers, Terminate(c, d) PROVE PidsOwned'
  <2>1. UNCHANGED stranger
    BY <1>6 DEF Terminate
  <2>2. \A s \in Starts : /\ shell'[s].pc = shell[s].pc /\ shell'[s].pid = shell[s].pid
                          /\ shell'[s].left = shell[s].left
    BY <1>6, ShellsTyped DEF Terminate, Shells
  <2>3. QED
    BY <2>1, <2>2, PidsKept DEF Holds, Running
<1>7. ASSUME NEW d \in Dirs, NEW c \in Callers, Kill(c, d) PROVE PidsOwned'
  <2>1. UNCHANGED stranger
    BY <1>7 DEF Kill
  <2>2. \A s \in Starts : \/ shell'[s] = shell[s]
                          \/ /\ shell'[s].pid = shell[s].pid /\ shell'[s].left = FALSE
                             /\ shell'[s].pc = IF Running(s) THEN "exited" ELSE shell[s].pc
    <3>1. shell' = Killed(cancel[c].pid)
      BY <1>7 DEF Kill
    <3>2. TAKE s \in Starts
    <3>3. shell[s] \in Shells
      BY ShellsTyped
    <3>4. shell'[s] = IF shell[s].pid # cancel[c].pid THEN shell[s]
                      ELSE [shell[s] EXCEPT !.left = FALSE,
                                            !.pc = IF Running(s) THEN "exited" ELSE @]
      BY <3>1 DEF Killed
    <3>5. QED
      BY <3>3, <3>4 DEF Shells
  <2>3. \A s \in Starts : Holds(s)' => Holds(s) /\ shell'[s].pid = shell[s].pid
    BY <2>2 DEF Holds, Running, Live
  <2>4. QED
    BY <2>1, <2>3, PidsKept
<1>8. ASSUME NEW s \in Starts, Make(s) \/ Record(s) \/ Abandon(s) PROVE PidsOwned'
  BY <1>1, <1>8 DEF Make, Record, Abandon
<1>9. ASSUME NEW d \in Dirs,
             \/ LookAtFile(d) \/ LookAtPid(d)
             \/ \E c \in Callers : \/ Cancel(c, d) \/ Aim(c, d) \/ Raises(c, d)
                                  \/ DiesInGrace(c, d) \/ Escalate(c, d)
      PROVE  PidsOwned'
  BY <1>1, <1>9 DEF LookAtFile, LookAtPid, Cancel, Aim, Raises, DiesInGrace, Escalate
<1>10. ASSUME PollJobs \/ Crash \/ UNCHANGED vars \/ \E o \in Others : OtherEnds(o)
       PROVE  PidsOwned'
  BY <1>1, <1>10 DEF PollJobs, Crash, vars, OtherEnds, Beside
<1>11. QED
  BY <1>2, <1>3, <1>4, <1>5, <1>6, <1>7, <1>8, <1>9, <1>10 DEF Next

------------------------------------------------------------------------------
(* The signals. *)

LEMMA InitAimed == ASSUME Init PROVE AimedRight /\ StrangersSpared
  BY DEF Init, AimedRight, StrangersSpared, NoCancel, InCalls

\* Who passed the check is no stranger.
LEMMA OursIsNotStrange ==
  ASSUME TypeOK, PidsOwned, NEW p, NEW d \in Dirs, Ours(p, d) PROVE ~Strange(p, d)
<1>1. CASE p \in stranger /\ d \in mentions[p]
  BY <1>1 DEF Strange, PidsOwned, Holds
<1>2. CASE \E s \in Starts : Running(s) /\ shell[s].pid = p /\ <<Dir[s], d>> \in Within
  <2>1. PICK s \in Starts : Running(s) /\ shell[s].pid = p /\ <<Dir[s], d>> \in Within
    BY <1>2
  <2>2. p \notin stranger /\ \A o \in Starts : Running(o) /\ shell[o].pid = p => o = s
    BY <2>1 DEF PidsOwned, Holds
  <2>3. QED
    BY <2>1, <2>2 DEF Strange
<1>3. QED
  BY <1>1, <1>2 DEF Ours

\* A pid that is not given to anybody gets no stranger.
LEMMA AimedStays ==
  ASSUME AimedRight,
         \A c \in Callers :
            cancel'[c].pc \in InCalls /\ cancel'[c].kept =>
                /\ cancel[c].pc \in InCalls /\ cancel[c].kept
                /\ cancel'[c].dir = cancel[c].dir /\ cancel'[c].pid = cancel[c].pid
                /\ cancel[c].pid \in stranger' =>
                     cancel[c].pid \in stranger /\ mentions'[cancel[c].pid] = mentions[cancel[c].pid]
                /\ \A s \in Starts : Running(s)' /\ shell'[s].pid = cancel[c].pid =>
                                       Running(s) /\ shell[s].pid = cancel[c].pid
  PROVE  AimedRight'
<1> SUFFICES ASSUME NEW c \in Callers, cancel'[c].pc \in InCalls, cancel'[c].kept
             PROVE  \E d \in Dirs : cancel'[c].dir = <<d>> /\ ~(Strange(cancel[c].pid, d)')
  BY DEF AimedRight
<1>1. PICK d \in Dirs : cancel[c].dir = <<d>> /\ ~Strange(cancel[c].pid, d)
  BY DEF AimedRight
<1>2. ~(Strange(cancel[c].pid, d)')
  BY <1>1 DEF Strange
<1>3. QED
  BY <1>1, <1>2

\* One call goes on, or a new one has just looked at the command line.
LEMMA CallGoes ==
  ASSUME TypeOK, PidsOwned, AimedRight, UNCHANGED <<stranger, mentions>>, NEW c \in Callers,
         \A o \in Callers : o # c => cancel'[o] = cancel[o],
         \A s \in Starts : Running(s)' => Running(s) /\ shell'[s].pid = shell[s].pid,
         cancel'[c].pc \in InCalls => \E d \in Dirs :
             cancel'[c].kept => cancel'[c].dir = <<d>> /\ ~Strange(cancel'[c].pid, d)
  PROVE  AimedRight'
<1> SUFFICES ASSUME NEW o \in Callers, cancel'[o].pc \in InCalls, cancel'[o].kept
             PROVE  \E d \in Dirs : cancel'[o].dir = <<d>> /\ ~(Strange(cancel[o].pid, d)')
  BY DEF AimedRight
<1>1. PICK d \in Dirs : cancel'[o].dir = <<d>> /\ ~Strange(cancel'[o].pid, d)
  BY DEF AimedRight
<1>2. QED
  BY <1>1 DEF Strange

LEMMA NextAimed == ASSUME TypeOK, PidsOwned, AimedRight, [Next]_vars PROVE AimedRight'
<1> USE DEF jobs, disk, readers, kernel
<1>1. CASE UNCHANGED <<shell, stranger, mentions, cancel>>
  BY <1>1, AimedStays DEF Running
<1>2. ASSUME NEW s \in Starts, Spawn(s) PROVE AimedRight'
  <2>1. PICK p \in Pids, hears \in BOOLEAN :
          /\ Given(p)
          /\ shell' = [shell EXCEPT ![s] = [NoShell EXCEPT !.pc = "command", !.pid = p, !.hears = hears]]
    BY <1>2 DEF Spawn
  <2>2. shell'[s].pid = p /\ \A o \in Starts : o # s => shell'[o] = shell[o]
    BY <2>1 DEF TypeOK, NoShell
  <2>3. UNCHANGED <<stranger, mentions>>
    BY <1>2 DEF Spawn
  <2>4. \A q : q # p => \A o \in Starts :
            Running(o)' /\ shell'[o].pid = q => Running(o) /\ shell[o].pid = q
    BY <2>2 DEF Running
  <2>5. QED
    BY <2>1, <2>3, <2>4, GivenTyped, AimedStays
<1>3. ASSUME NEW p \in Pids, StrangerStarts(p) PROVE AimedRight'
  <2>1. Given(p) /\ UNCHANGED shell
    BY <1>3 DEF StrangerStarts
  <2>2. \A q : q # p /\ q \in stranger' => q \in stranger /\ mentions'[q] = mentions[q]
    BY <1>3 DEF StrangerStarts, TypeOK
  <2>3. QED
    BY <2>1, <2>2, GivenTyped, AimedStays DEF Running
<1>4. ASSUME NEW p \in Pids, StrangerEnds(p) PROVE AimedRight'
  <2>1. UNCHANGED <<shell, cancel>>
    BY <1>4 DEF StrangerEnds
  <2>2. \A q \in stranger' : q \in stranger /\ mentions'[q] = mentions[q]
    BY <1>4 DEF StrangerEnds, TypeOK
  <2>3. QED
    BY <2>1, <2>2, AimedStays DEF Running
<1>5. ASSUME NEW s \in Starts,
             \/ Execs(s) \/ CommandEnds(s) \/ ShellLeaves(s) \/ OpensCode(s) \/ WritesCode(s)
             \/ Exits(s) \/ Terminated(s) \/ Reap(s) \/ LeftoverEnds(s)
      PROVE  AimedRight'
  <2>1. UNCHANGED <<stranger, mentions, cancel>>
    BY <1>5 DEF Execs, CommandEnds, ShellLeaves, OpensCode, WritesCode, Exits, Terminated, Reap,
                LeftoverEnds, Beside
  <2>2. \A o \in Starts : o # s => shell'[o] = shell[o]
    BY <1>5 DEF Execs, CommandEnds, ShellLeaves, OpensCode, WritesCode, Exits, Terminated, Reap,
                LeftoverEnds, At, TypeOK
  <2>3. shell'[s].pid = shell[s].pid
    BY <1>5, ShellsTyped DEF Execs, CommandEnds, ShellLeaves, OpensCode, WritesCode, Exits,
                Terminated, Reap, LeftoverEnds, At, TypeOK, Shells
  <2>4. Running(s)' => Running(s)
    <3>1. CASE \/ Execs(s) \/ CommandEnds(s) \/ ShellLeaves(s) \/ OpensCode(s) \/ WritesCode(s)
               \/ Exits(s)
      BY <3>1 DEF Execs, CommandEnds, ShellLeaves, OpensCode, WritesCode, Exits, At, Running, Live
    <3>2. CASE Terminated(s)
      BY <3>2 DEF Terminated
    <3>3. CASE Reap(s) \/ LeftoverEnds(s)
      BY <3>3, ShellsTyped DEF Reap, LeftoverEnds, Running, Live, TypeOK, Shells
    <3>4. QED
      BY <1>5, <3>1, <3>2, <3>3
  <2>5. \A q : \A o \in Starts : Running(o)' /\ shell'[o].pid = q => Running(o) /\ shell[o].pid = q
    BY <2>2, <2>3, <2>4 DEF Running
  <2>6. QED
    BY <2>1, <2>5, AimedStays
<1>6. ASSUME NEW d \in Dirs, NEW c \in Callers,
             \/ Cancel(c, d) \/ Aim(c, d) \/ Raises(c, d) \/ DiesInGrace(c, d)
             \/ Escalate(c, d)
      PROVE  AimedRight'
  <2>1. UNCHANGED <<shell, stranger, mentions>> /\ \A o \in Callers : o # c => cancel'[o] = cancel[o]
    BY <1>6 DEF Cancel, Aim, Raises, DiesInGrace, Escalate, Ends, Goes, Told, TypeOK
  <2>2. CASE cancel'[c].pc \notin InCalls
    BY <2>1, <2>2, CallGoes DEF Running
  <2>3. ASSUME cancel'[c].pc \in InCalls
        PROVE  \E e \in Dirs :
                  cancel'[c].kept => cancel'[c].dir = <<e>> /\ ~Strange(cancel'[c].pid, e)
    <3>1. CASE Cancel(c, d)
      <4>1. CASE Refuses(d)
        BY <2>3, <3>1, <4>1 DEF Cancel, Ends, NoCancel, InCalls, TypeOK
      <4>2. CASE ~Refuses(d)
        <5>1. cancel'[c].dir = <<d>> /\ cancel'[c].pid = meta[d]
          <6> DEFINE asked == [NoCancel EXCEPT !.pc = "checked", !.dir = <<d>>, !.pid = meta[d]]
          <6>1. cancel' = [cancel EXCEPT ![c] = asked]
            BY <3>1, <4>2 DEF Cancel
          <6>2. asked.dir = <<d>> /\ asked.pid = meta[d]
            BY DEF NoCancel
          <6>3. QED
            BY <6>1, <6>2 DEF TypeOK
        <5>2. Ours(meta[d], d)
          BY <4>2 DEF Refuses
        <5>3. QED
          BY <5>1, <5>2, OursIsNotStrange
      <4>3. QED
        BY <4>1, <4>2
    <3>2. CASE Aim(c, d)
      <4>1. cancel[c].pc \in InCalls
        BY <3>2 DEF Aim, Is, InCalls
      <4>2. CASE Goes(c, "aimed")
        <5>1. /\ cancel'[c].dir = cancel[c].dir /\ cancel'[c].pid = cancel[c].pid
              /\ cancel'[c].kept = cancel[c].kept
          BY <4>2, CancelTyped DEF Goes, TypeOK, Cancels
        <5>2. cancel[c].dir = <<d>>
          BY <3>2 DEF Aim, Is
        <5>3. QED
          BY <4>1, <5>1, <5>2 DEF AimedRight
      <4>3. CASE Ends(c)
        BY <2>3, <4>3 DEF Ends, NoCancel, InCalls, TypeOK
      <4>4. QED
        BY <3>2, <4>2, <4>3 DEF Aim
    <3>3. CASE Raises(c, d)
      BY <2>3, <3>3 DEF Raises, Ends, NoCancel, InCalls, TypeOK
    <3>4. CASE DiesInGrace(c, d)
      BY <2>3, <3>4 DEF DiesInGrace, Told, NoCancel, InCalls, TypeOK
    <3>5. CASE Escalate(c, d)
      <4>1. CASE StillOurs(cancel[c].pid, d)
        <5>1. cancel'[c].dir = <<d>> /\ cancel'[c].pid = cancel[c].pid
          <6> DEFINE sure == [cancel[c] EXCEPT !.pc = "doomed", !.kept = TRUE]
          <6>1. cancel' = [cancel EXCEPT ![c] = sure] /\ cancel[c].dir = <<d>>
            BY <3>5, <4>1 DEF Escalate, Is
          <6>2. sure.dir = cancel[c].dir /\ sure.pid = cancel[c].pid
            BY CancelTyped, CancelChanged
          <6>3. QED
            BY <6>1, <6>2 DEF TypeOK
        <5>2. QED
          BY <4>1, <5>1, OursIsNotStrange DEF StillOurs
      <4>2. CASE ~StillOurs(cancel[c].pid, d)
        BY <2>3, <3>5, <4>2 DEF Escalate, Ends, NoCancel, InCalls, TypeOK
      <4>3. QED
        BY <4>1, <4>2
    <3>6. QED
      BY <1>6, <3>1, <3>2, <3>3, <3>4, <3>5
  <2>4. QED
    BY <2>1, <2>2, <2>3, CallGoes DEF Running
<1>7. ASSUME NEW d \in Dirs, NEW c \in Callers, Terminate(c, d) \/ Kill(c, d) PROVE AimedRight'
  <2>1. UNCHANGED <<stranger, mentions>> /\ \A o \in Callers : o # c => cancel'[o] = cancel[o]
    BY <1>7 DEF Terminate, Kill, Goes, Told, TypeOK
  <2>2. cancel'[c].pc \notin InCalls
    <3>1. CASE Terminate(c, d)
      <4>1. cancel' = [cancel EXCEPT ![c] = [cancel[c] EXCEPT !.pc = "grace"]]
        BY <3>1 DEF Terminate, Goes
      <4>2. [cancel[c] EXCEPT !.pc = "grace"].pc = "grace"
        BY CancelTyped, CancelChanged
      <4>3. QED
        BY <4>1, <4>2 DEF TypeOK, InCalls
    <3>2. CASE Kill(c, d)
      BY <3>2, OverIsIdle DEF Kill
    <3>3. QED
      BY <1>7, <3>1, <3>2
  <2>3. \A s \in Starts : Running(s)' => Running(s) /\ shell'[s].pid = shell[s].pid
    <3>1. CASE Terminate(c, d)
      BY <3>1, ShellsTyped DEF Terminate, Running, Shells
    <3>2. CASE Kill(c, d)
      <4>1. SUFFICES ASSUME NEW s \in Starts, Running(s)'
                     PROVE  Running(s) /\ shell'[s].pid = shell[s].pid
        OBVIOUS
      <4>2. shell'[s] = IF shell[s].pid # cancel[c].pid THEN shell[s]
                        ELSE [shell[s] EXCEPT !.left = FALSE,
                                              !.pc = IF Running(s) THEN "exited" ELSE @]
        BY <3>2 DEF Kill, Killed
      <4>3. QED
        BY <4>1, <4>2, ShellsTyped DEF Shells, Running, Live
    <3>3. QED
      BY <1>7, <3>1, <3>2
  <2>4. QED
    BY <2>1, <2>2, <2>3, CallGoes
<1>8. CASE Crash
  <2>1. \A c \in Callers : cancel'[c].pc \notin InCalls
    BY <1>8 DEF Crash, NoCancel, InCalls
  <2>2. QED
    BY <2>1 DEF AimedRight
<1>9. ASSUME NEW s \in Starts, Make(s) \/ Record(s) \/ Abandon(s) PROVE AimedRight'
  BY <1>1, <1>9 DEF Make, Record, Abandon
<1>10. ASSUME NEW d \in Dirs, LookAtFile(d) \/ LookAtPid(d) PROVE AimedRight'
  BY <1>1, <1>10 DEF LookAtFile, LookAtPid
<1>11. ASSUME PollJobs \/ UNCHANGED vars \/ \E o \in Others : OtherEnds(o) PROVE AimedRight'
  BY <1>1, <1>11 DEF PollJobs, vars, OtherEnds, Beside
<1>12. QED
  BY <1>2, <1>3, <1>4, <1>5, <1>6, <1>7, <1>8, <1>9, <1>10, <1>11 DEF Next

\* The two signals go where the last look pointed, or the pid was given away.
LEMMA NextSpared == ASSUME AimedRight, StrangersSpared, [Next]_vars PROVE StrangersSpared'
<1> USE DEF jobs, disk, readers, kernel
<1>1. CASE UNCHANGED struck
  BY <1>1 DEF StrangersSpared
<1>2. ASSUME NEW d \in Dirs, NEW c \in Callers, Terminate(c, d) \/ Kill(c, d)
      PROVE  StrangersSpared'
  <2>1. cancel[c].pc \in InCalls /\ cancel[c].dir = <<d>> /\ Signalled(c, d)
    BY <1>2 DEF Terminate, Kill, Is, InCalls
  <2>2. cancel[c].kept => ~Strange(cancel[c].pid, d)
    BY <2>1 DEF AimedRight
  <2>3. QED
    BY <2>1, <2>2, <1>1 DEF Signalled
<1>3. ASSUME NEW d \in Dirs,
             \/ LookAtFile(d) \/ LookAtPid(d)
             \/ \E c \in Callers : \/ Cancel(c, d) \/ Aim(c, d) \/ Raises(c, d)
                                  \/ DiesInGrace(c, d) \/ Escalate(c, d)
      PROVE  StrangersSpared'
  BY <1>3, <1>1 DEF LookAtFile, LookAtPid, Cancel, Aim, Raises, DiesInGrace, Escalate
<1>4. ASSUME NEW s \in Starts,
             \/ Make(s) \/ Spawn(s) \/ Record(s) \/ Abandon(s) \/ Execs(s)
             \/ CommandEnds(s) \/ ShellLeaves(s) \/ OpensCode(s) \/ WritesCode(s) \/ Exits(s)
             \/ Terminated(s) \/ Reap(s) \/ LeftoverEnds(s)
      PROVE  StrangersSpared'
  BY <1>4, <1>1 DEF Make, Spawn, Record, Abandon, Execs, CommandEnds, ShellLeaves, OpensCode,
                    WritesCode, Exits, Terminated, Reap, LeftoverEnds, Beside
<1>5. ASSUME \/ PollJobs \/ Crash \/ UNCHANGED vars \/ \E o \in Others : OtherEnds(o)
             \/ \E p \in Pids : StrangerStarts(p) \/ StrangerEnds(p)
      PROVE  StrangersSpared'
  BY <1>5, <1>1 DEF vars, PollJobs, Crash, OtherEnds, Beside, StrangerStarts, StrangerEnds
<1>6. QED
  BY <1>2, <1>3, <1>4, <1>5 DEF Next

\* The state has the types TypeOK gives it, for any number of jobs and pids.
THEOREM TypeCorrect == Spec => []TypeOK
<1>1. Init => TypeOK /\ PidsOwned
  BY InitTypeOK, InitPidsOwned
<1>2. TypeOK /\ PidsOwned /\ [Next]_vars => TypeOK' /\ PidsOwned'
  BY NextTypeOK, NextPidsOwned
<1>3. QED
  BY <1>1, <1>2, PTL DEF Spec

\* A process that has nothing to do with the job and does not name it gets a
\* signal of job.cancel only if the kernel gave it the pid between the look at
\* the command line (identity_ok, asked anew before SIGKILL) and that signal;
\* never because it took the pid earlier, in the grace period or after a restart.
THEOREM StrangersAreSpared == Spec => []StrangersSpared
<1>1. Init => TypeOK /\ PidsOwned /\ AimedRight /\ StrangersSpared
  BY InitTypeOK, InitPidsOwned, InitAimed
<1>2. TypeOK /\ PidsOwned /\ AimedRight /\ StrangersSpared /\ [Next]_vars
      => (TypeOK /\ PidsOwned /\ AimedRight /\ StrangersSpared)'
  BY NextTypeOK, NextPidsOwned, NextAimed, NextSpared
<1>3. QED
  BY <1>1, <1>2, PTL DEF Spec


------------------------------------------------------------------------------
(* The codes. *)

Coding == CodeAtEnd /\ ZerosAreReal

LEMMA InitCoding == ASSUME Init PROVE Coding
  BY DirsAssumed DEF Init, Coding, CodeAtEnd, ZerosAreReal, SaysSucceeded, NoShell

\* What is not said anew, of shells that keep their codes.
LEMMA CodingKept ==
  ASSUME Coding,
         \A s \in Starts : /\ shell'[s].rc = shell[s].rc
                           /\ shell'[s].pc \in {"none", "command"} => shell[s].pc \in {"none", "command"}
                           /\ SaysSucceeded(Dir[s])' => SaysSucceeded(Dir[s])
  PROVE  Coding'
  BY DEF Coding, CodeAtEnd, ZerosAreReal

\* One shell gets a code it did not have.
LEMMA CodeGiven ==
  ASSUME Coding, NEW s \in Starts, shell[s].rc = "none",
         \A o \in Starts : o # s => shell'[o] = shell[o],
         shell'[s].pc \in {"none", "command"} => shell'[s].rc = "none",
         UNCHANGED <<file, status, announced>>
  PROVE  Coding'
  <1>1. \A o \in Starts : SaysSucceeded(Dir[o])' <=> SaysSucceeded(Dir[o])
    BY DEF SaysSucceeded
  <1>2. ~SaysSucceeded(Dir[s])
    BY DEF Coding, ZerosAreReal
  <1>3. QED
    BY <1>1, <1>2 DEF Coding, CodeAtEnd, ZerosAreReal

LEMMA NextCoding == ASSUME TypeOK, OwnDirs, Coding, [Next]_vars PROVE Coding'
<1> USE DirsAssumed DEF disk, jobs, readers, codes
<1>1. ASSUME UNCHANGED <<shell, file, status, announced>> PROVE Coding'
  BY <1>1, CodingKept DEF SaysSucceeded
<1>2. ASSUME UNCHANGED <<file, status, announced>> PROVE \A s \in Starts : SaysSucceeded(Dir[s])' => SaysSucceeded(Dir[s])
  BY <1>2 DEF SaysSucceeded
<1>3. ASSUME NEW s \in Starts, Spawn(s) PROVE Coding'
  <2>1. PICK p \in Pids, hears \in BOOLEAN :
          shell' = [shell EXCEPT ![s] = [NoShell EXCEPT !.pc = "command", !.pid = p, !.hears = hears]]
    BY <1>3 DEF Spawn
  <2>2. shell'[s].rc = "none" /\ \A o \in Starts : o # s => shell'[o] = shell[o]
    BY <2>1 DEF TypeOK, NoShell
  <2>3. shell[s].rc = "none"
    BY <1>3 DEF Spawn, Coding, CodeAtEnd
  <2>4. QED
    BY <1>3, <2>2, <2>3, CodeGiven DEF Spawn
<1>4. ASSUME NEW s \in Starts, CommandEnds(s) PROVE Coding'
  <2>1. PICK rc \in {"zero", "one"} :
          shell' = [shell EXCEPT ![s] = [shell[s] EXCEPT !.pc = "ending", !.rc = rc]]
    BY <1>4 DEF CommandEnds
  <2>2. shell'[s].pc = "ending" /\ \A o \in Starts : o # s => shell'[o] = shell[o]
    BY <2>1, ShellsTyped DEF TypeOK, Shells
  <2>3. shell[s].rc = "none"
    BY <1>4 DEF CommandEnds, Coding, CodeAtEnd
  <2>4. QED
    BY <1>4, <2>2, <2>3, CodeGiven DEF CommandEnds, Beside
<1>5. ASSUME NEW s \in Starts, NEW pc \in {"exited", "opened", "wrote"}, At(s, pc)
      PROVE  /\ \A o \in Starts : shell'[o].rc = shell[o].rc
             /\ \A o \in Starts : shell'[o].pc \in {"none", "command"} => shell[o].pc \in {"none", "command"}
  BY <1>5, ShellsTyped DEF At, Shells, TypeOK
<1>6. ASSUME NEW s \in Starts, ShellLeaves(s) \/ Exits(s) PROVE Coding'
  <2>1. At(s, "exited") /\ UNCHANGED <<file, status, announced>>
    BY <1>6 DEF ShellLeaves, Exits, Beside
  <2>2. QED
    BY <2>1, <1>2, <1>5, CodingKept
<1>61. ASSUME NEW s \in Starts, Execs(s) PROVE Coding'
  <2>1. /\ \A o \in Starts : shell'[o].rc = shell[o].rc /\ shell'[o].pc = shell[o].pc
        /\ UNCHANGED <<file, status, announced>>
    BY <1>61, ShellsTyped DEF Execs, Beside, Shells, TypeOK
  <2>2. QED
    BY <2>1, <1>2, CodingKept
<1>62. ASSUME NEW o \in Others, OtherEnds(o) PROVE Coding'
  <2>1. UNCHANGED <<shell, status, announced>>
    BY <1>62 DEF OtherEnds, Beside
  <2>2. \A s \in Starts : file'[Dir[s]] = file[Dir[s]]
    BY <1>62, DirsAssumption DEF OtherEnds, TypeOK
  <2>3. \A s \in Starts : SaysSucceeded(Dir[s])' => SaysSucceeded(Dir[s])
    BY <2>1, <2>2 DEF SaysSucceeded
  <2>4. QED
    BY <2>1, <2>3, CodingKept
<1>7. ASSUME NEW s \in Starts, OpensCode(s) PROVE Coding'
  <2>1. At(s, "opened") /\ UNCHANGED <<status, announced>>
    BY <1>7 DEF OpensCode, Beside
  <2>2. \A d \in Dirs : file'[d] = "zero" => file[d] = "zero"
    BY <1>7 DEF OpensCode, TypeOK
  <2>3. \A o \in Starts : SaysSucceeded(Dir[o])' => SaysSucceeded(Dir[o])
    BY <2>1, <2>2 DEF SaysSucceeded
  <2>4. QED
    BY <2>1, <2>3, <1>5, CodingKept
<1>8. ASSUME NEW s \in Starts, WritesCode(s) PROVE Coding'
  <2>1. At(s, "wrote") /\ UNCHANGED <<status, announced>>
    BY <1>8 DEF WritesCode, Beside
  <2>2. file'[Dir[s]] = shell[s].rc
    BY <1>8 DEF WritesCode, TypeOK
  <2>3. \A o \in Starts : o # s => file'[Dir[o]] = file[Dir[o]]
    BY <1>8 DEF WritesCode, TypeOK, OwnDirs
  <2>4. \A o \in Starts : o # s => (SaysSucceeded(Dir[o])' => SaysSucceeded(Dir[o]))
    BY <2>1, <2>3 DEF SaysSucceeded
  <2>5. SaysSucceeded(Dir[s])' => shell[s].rc = "zero"
    BY <2>1, <2>2 DEF SaysSucceeded, Coding, ZerosAreReal
  <2>6. QED
    BY <2>1, <2>4, <2>5, <1>5 DEF Coding, CodeAtEnd, ZerosAreReal
<1>9. ASSUME NEW s \in Starts, Terminated(s) \/ Reap(s) \/ LeftoverEnds(s) PROVE Coding'
  <2>1. /\ \A o \in Starts : shell'[o].rc = shell[o].rc
        /\ \A o \in Starts : shell'[o].pc \in {"none", "command"} => shell[o].pc \in {"none", "command"}
    <3>1. CASE Terminated(s)
      BY <3>1, ShellsTyped DEF Terminated, Shells, TypeOK
    <3>2. CASE Reap(s)
      BY <3>2, ShellsTyped DEF Reap, Shells, TypeOK
    <3>3. CASE LeftoverEnds(s)
      BY <3>3, ShellsTyped DEF LeftoverEnds, Shells, TypeOK
    <3>4. QED
      BY <1>9, <3>1, <3>2, <3>3
  <2>2. UNCHANGED <<file, status, announced>>
    BY <1>9 DEF Terminated, Reap, LeftoverEnds, Beside
  <2>3. QED
    BY <2>1, <2>2, <1>2, CodingKept
<1>10. ASSUME NEW d \in Dirs, NEW c \in Callers, Terminate(c, d) PROVE Coding'
  <2>1. \A s \in Starts : shell'[s].pc = shell[s].pc /\ shell'[s].rc = shell[s].rc
    BY <1>10, ShellsTyped DEF Terminate, Shells
  <2>2. UNCHANGED <<file, status, announced>>
    BY <1>10 DEF Terminate
  <2>3. QED
    BY <2>1, <2>2, <1>2, CodingKept
<1>11. ASSUME NEW d \in Dirs, NEW code \in {"term", "kill"}, Coded(d, code),
              UNCHANGED <<status, announced>>
       PROVE  \A s \in Starts : SaysSucceeded(Dir[s])' => SaysSucceeded(Dir[s])
  <2>1. \A e \in Dirs : file'[e] = "zero" => file[e] = "zero"
    BY <1>11 DEF Coded, TypeOK
  <2>2. QED
    BY <1>11, <2>1 DEF SaysSucceeded
<1>12. ASSUME NEW d \in Dirs, NEW c \in Callers, DiesInGrace(c, d) PROVE Coding'
  <2>1. Coded(d, "term") /\ UNCHANGED <<shell, status, announced>>
    BY <1>12 DEF DiesInGrace
  <2>2. QED
    BY <2>1, <1>11, CodingKept
<1>13. ASSUME NEW d \in Dirs, NEW c \in Callers, Kill(c, d) PROVE Coding'
  <2>1. shell' = Killed(cancel[c].pid) /\ Coded(d, "kill") /\ UNCHANGED <<status, announced>>
    BY <1>13 DEF Kill
  <2>2. ASSUME NEW s \in Starts
        PROVE  /\ shell'[s].rc = shell[s].rc
               /\ shell'[s].pc \in {"none", "command"} => shell[s].pc \in {"none", "command"}
    <3>1. shell'[s] = IF shell[s].pid # cancel[c].pid THEN shell[s]
                      ELSE [shell[s] EXCEPT !.left = FALSE,
                                            !.pc = IF Running(s) THEN "exited" ELSE @]
      BY <2>1 DEF Killed
    <3>2. QED
      BY <3>1, ShellsTyped DEF Shells
  <2>3. QED
    BY <2>1, <2>2, <1>11, CodingKept
<1>131. ASSUME NEW d \in Dirs, NEW c \in Callers,
               Cancel(c, d) \/ Aim(c, d) \/ Raises(c, d) \/ Escalate(c, d)
        PROVE  Coding'
  BY <1>131, <1>1 DEF Cancel, Aim, Raises, Escalate
<1>14. ASSUME NEW d \in Dirs, LookAtFile(d) \/ LookAtPid(d) PROVE Coding'
  <2>1. UNCHANGED <<shell, file, announced>>
    BY <1>14 DEF LookAtFile, LookAtPid
  <2>2. \A e \in Dirs : status'[e] = "succeeded" => status[e] = "succeeded" \/ file[e] = "zero"
    BY <1>14 DEF LookAtFile, LookAtPid, Answer, State, TypeOK
  <2>3. \A s \in Starts : SaysSucceeded(Dir[s])' => SaysSucceeded(Dir[s])
    BY <2>1, <2>2 DEF SaysSucceeded
  <2>4. QED
    BY <2>1, <2>3, CodingKept
<1>15. ASSUME PollJobs PROVE Coding'
  <2>1. UNCHANGED <<shell, file, status>>
    BY <1>15 DEF PollJobs
  <2>2. ASSUME NEW d \in Dirs, NEW i \in DOMAIN announced'[d], announced'[d][i] = "succeeded"
        PROVE  SaysSucceeded(d)
    <3>1. announced[d] \in Seq({"succeeded", "failed"})
      BY DEF TypeOK
    <3>2. CASE announced'[d] = announced[d]
      BY <2>2, <3>2 DEF SaysSucceeded
    <3>3. CASE announced'[d] = Append(announced[d], State(file[d]))
      <4>1. CASE i \in DOMAIN announced[d]
        BY <2>2, <3>1, <3>3, <4>1 DEF SaysSucceeded
      <4>2. CASE i \notin DOMAIN announced[d]
        BY <2>2, <3>1, <3>3, <4>2 DEF SaysSucceeded, State
      <4>3. QED
        BY <4>1, <4>2
    <3>4. QED
      BY <1>15, <3>2, <3>3 DEF PollJobs
  <2>3. \A s \in Starts : SaysSucceeded(Dir[s])' => SaysSucceeded(Dir[s])
    BY <2>1, <2>2 DEF SaysSucceeded
  <2>4. QED
    BY <2>1, <2>3, CodingKept
<1>16. CASE UNCHANGED vars \/ Crash
  BY <1>16, <1>1 DEF vars, Crash
<1>17. ASSUME NEW s \in Starts, Make(s) \/ Record(s) \/ Abandon(s) PROVE Coding'
  BY <1>17, <1>1 DEF Make, Record, Abandon
<1>18. ASSUME NEW p \in Pids, StrangerStarts(p) \/ StrangerEnds(p) PROVE Coding'
  BY <1>18, <1>1 DEF StrangerStarts, StrangerEnds
<1>19. QED
  BY <1>3, <1>4, <1>6, <1>61, <1>62, <1>7, <1>8, <1>9, <1>10, <1>12, <1>13, <1>131, <1>14, <1>15,
     <1>16, <1>17, <1>18
  DEF Next

LEMMA CodingSucceeds == ASSUME Coding PROVE SuccessIsReal
  BY DEF Coding, ZerosAreReal, SaysSucceeded, SuccessIsReal, ToSet

\* A job that job.status, job.wait or the chat calls succeeded ran its command
\* to exit code 0, whatever was cancelled, killed or half written meanwhile,
\* provided no two jobs share a directory.
THEOREM SuccessesAreReal == ASSUME OwnDirs PROVE Spec => []SuccessIsReal
<1>1. Init => TypeOK /\ PidsOwned /\ Coding
  BY InitTypeOK, InitPidsOwned, InitCoding
<1>2. TypeOK /\ PidsOwned /\ Coding /\ [Next]_vars => (TypeOK /\ PidsOwned /\ Coding)'
  BY NextTypeOK, NextPidsOwned, NextCoding
<1>3. Coding => SuccessIsReal
  BY CodingSucceeds
<1>4. QED
  BY <1>1, <1>2, <1>3, PTL DEF Spec
=============================================================================
