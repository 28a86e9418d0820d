--------------------------- MODULE StopController ---------------------------
(***************************************************************************)
(* STOP mode (docboy/stop).  The CPU requests it; the controller enters it *)
(* at its next tick and leaves it when a selected key is down.  In CGB     *)
(* builds the PPU goes on while the console is stopped.                    *)
(***************************************************************************)
EXTENDS JoypadPort

VARIABLES
  stopped,   \* the core ticks this controller in place of everything else
  requested  \* STOP has been executed, the mode is not entered yet

stopVars == <<stopped, requested>>

StopTypeOK == stopped \in BOOLEAN /\ requested \in BOOLEAN

ResetStop == stopped = FALSE /\ requested = FALSE

(* StopController::stop, called by the STOP instruction. *)
RequestStop == requested' = TRUE /\ UNCHANGED stopped

(* StopController::tick and enter_stop_mode. *)
StopTick ==
  /\ stopped' = (stopped \/ requested)
  /\ requested' = FALSE

(* StopController::stopped_tick at t0 to t2 and stopped_tock at t3, where   *)
(* leaving gives the timers one tick; types is what the ticks raised.       *)
StoppedTick(t, types) ==
  /\ stopped' = (t = 3 => ~AnyKeyRead)
  /\ iflag' = Raised(types)
  /\ UNCHANGED <<requested, ienable, block_interrupts>>

=============================================================================
