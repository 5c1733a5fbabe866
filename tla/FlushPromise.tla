---------------------------- MODULE FlushPromise ----------------------------
(***************************************************************************)
(* What scheduleFlush of internal/runtime/rules_watcher.go promises the    *)
(* loop that reads the rules stream: a version handed to it is sooner or   *)
(* later covered by a purge of the DNS cache, and a purge covers every     *)
(* version handed over before it.                                          *)
(***************************************************************************)
EXTENDS Naturals

VARIABLES
  scheduled,   \* the newest rules version handed to scheduleFlush
  flushed      \* the rules version the cached answers are as new as

fVars == <<scheduled, flushed>>

FInit == scheduled = 0 /\ flushed = 0

FSchedule(v) ==
  /\ v > scheduled
  /\ scheduled' = v
  /\ UNCHANGED flushed

FFlush ==
  /\ flushed' = scheduled
  /\ UNCHANGED scheduled

FNext == FFlush \/ FSchedule(scheduled')

\* Nothing is promised while versions keep coming: each postpones the purge.
FLive == <>[][FALSE]_scheduled => <>[](flushed = scheduled)

FSpec == FInit /\ [][FNext]_fVars /\ FLive
=============================================================================
