---------------------------- MODULE MC_ModelSwap ----------------------------
(* An instance of ModelSwap for TLC: two cards of five units.  The brain is   *)
(* on the first; two specialists and a helper of the serve registry fill the  *)
(* second.  One newcomer needs both cards for itself.  The other, of unknown  *)
(* need, listens where the first specialist does and leaves room for the      *)
(* brain and for one of the specialists.                                      *)
EXTENDS ModelSwap

ThreeSlots == <<"brain", "specialist", "specialist2">>
OwnPresets == [s \in {"brain", "specialist", "specialist2"} |->
                 CASE s = "brain" -> "moe" [] s = "specialist" -> "coder"
                   [] s = "specialist2" -> "writer"]
Newcomers == {"security", "research"}
Presets == {"moe", "coder", "writer", "helper"} \cup Newcomers
\* The catalog has all of them under their launchers' names but one.
Listed == Presets \ {"research"}
Ports == [m \in Presets |-> CASE m = "moe" -> 8090 [] m = "helper" -> 8092
                             [] m = "writer" -> 8093 [] OTHER -> 8091]
TwoCards == {"gpu0", "gpu1"}
Units(first, second) == [g \in TwoCards |-> IF g = "gpu0" THEN first ELSE second]
Needs == [m \in Presets |->
            CASE m = "moe" -> Units(2, 0)
              [] m \in {"coder", "writer"} -> Units(0, 2)
              [] m = "helper" -> Units(0, 1)
              [] m = "security" -> Units(2, 2)
              [] m = "research" -> Units(5, 5)]
Both == [d \in {1, 2} |-> IF d = 1 THEN "research" ELSE "security"]
=============================================================================
