----------------------------- MODULE ServerSlot -----------------------------
(***************************************************************************)
(* One slot of the process manager beside the swaps.  ManagedProcess and    *)
(* ModelSwap share no state, a swap sees of a slot only that it was started *)
(* or stopped; but both are the model servers of one machine, so this       *)
(* module instantiates the first under names that ModelSwap leaves free:    *)
(* the run of the slot and the proofs of the swaps use it.                  *)
(***************************************************************************)
CONSTANTS
    Callers, AutoRestart, MaxRestarts, MaxSpawns, MaxCalls, MaxFaults, MaxSlow,
    MaxTorn,
    StartsOverlap   \* start_one may be called while a stop_one is in its awaits

VARIABLES stopping, restarts, loop, cancelled, proc, cur, stop, wanted,
          attempts, calls, faults, slow, torn

Slot == INSTANCE ManagedProcess WITH Overlap <- StartsOverlap

ASSUME SlotAssumption == Slot!SlotBounds

SlotSpec == Slot!FairSpec

\* A slot has one server and those left behind by a kill that did not end in time
\* or a reading that raised (ProcessManager._run_loop, _kill, _read_output).
OneServer == Slot!OneServer

\* The last call wins: once the calls are over, a slot last started is supervised
\* unless the loop gave up, and of a slot last stopped no run loop is left and no
\* server that was not left behind (ProcessManager.start_one, stop_one).
LastCallWins == Slot!StartSticks /\ Slot!StopSticks

\* A wanted server comes up, unless the loop gives up or it is stopped.
ComesUp == Slot!ComesUp
=============================================================================
