----------------------------- MODULE Lifecycle -----------------------------
(***************************************************************************)
(* The control plane: the main thread of main.c, which applies profile     *)
(* notifications one after the other, the forwarder thread it starts, stops *)
(* and restarts (forwarder.c), and the hot reload that TX slot 0 applies on *)
(* behalf of the main thread (config_reload.c).                            *)
(*                                                                         *)
(* The three meet in the atomic flag running (here run), in rt->running,   *)
(* fwd->threads_started, the single reload slot and the two configuration  *)
(* slots: main writes the slot that is not active while the dataplane      *)
(* reads fwd->cfg, a pointer into one of them, without a lock.             *)
(***************************************************************************)
EXTENDS Naturals, FiniteSets

CONSTANTS
  Profiles,    \* ne_profiles.id values notified
  Cfgs,        \* configurations the database may hold
  NoCfg,       \* a zeroed configuration slot
  Topo,        \* the LAN and WAN interfaces of each configuration
  TxSlots,     \* NE_TX_SLOTS
  MaxSignals   \* bound: stop signals delivered

ASSUME CfgAssumption ==
  /\ NoCfg \notin Cfgs
  /\ Topo \in [Cfgs -> {Topo[c] : c \in Cfgs}]
  /\ 0 \notin Profiles /\ Profiles \subseteq Nat

ASSUME BoundAssumption == TxSlots \in Nat \ {0} /\ MaxSignals \in Nat

Slot == {0, 1}
NoSlot == 2
NoProfile == 0

VARIABLES
  mpc,         \* where the main thread stands
  after,       \* what it does once the dataplane is stopped
  req,         \* profile of the notification it handles
  newCfg,      \* configuration it is about to start with
  retried,     \* whether the second read of the database was done
  activeId,    \* active_profile_id
  hasThread,   \* rt->has_thread
  rtRunning,   \* rt->running
  active,      \* rt->active_slot
  slots,       \* rt->cfg_slots
  run,         \* running
  signals,     \* stop signals so far; g_stop_requested when not 0
  tpc,         \* where the forwarder thread stands
  started,     \* fwd->threads_started
  fwdCfg,      \* fwd->cfg, as the slot it points to
  txActive,    \* TX threads created: active_tx_slots
  pending,     \* reload_pending
  done,        \* reload_done
  reqSlot,     \* reload_cfg
  rcOk,        \* reload_rc = 0
  apc,         \* where TX slot 0 stands in fwd_reload_apply_if_pending
  apSlot       \* the configuration it applies

mainVars == <<after, req, newCfg, retried, activeId>>
rtVars == <<hasThread, active, slots>>
threadVars == <<started, fwdCfg, txActive>>
reloadVars == <<pending, done, reqSlot, rcOk>>
applyVars == <<apc, apSlot>>
vars == <<mpc, mainVars, rtRunning, rtVars, run, signals, tpc, threadVars,
          reloadVars, applyVars>>

Stopping == signals > 0

(* config_db_unchanged.  A member of Cfgs stands for the configurations    *)
(* its comparison of interfaces, policies and profile does not tell apart. *)
DbUnchanged(c, d) == c = d

SameTopology(c, d) == c # NoCfg /\ d # NoCfg /\ Topo[c] = Topo[d]

Init ==
  /\ mpc = "idle" /\ after = "idle" /\ req = NoProfile /\ newCfg = NoCfg
  /\ retried = FALSE /\ activeId = NoProfile /\ hasThread = FALSE
  /\ rtRunning = FALSE /\ active = 0 /\ slots = [s \in Slot |-> NoCfg]
  /\ run = TRUE /\ signals = 0
  /\ tpc = "none" /\ started = FALSE /\ fwdCfg = NoSlot /\ txActive = TxSlots
  /\ pending = FALSE /\ done = FALSE /\ reqSlot = NoSlot /\ rcOk = FALSE
  /\ apc = "idle" /\ apSlot = NoSlot

----------------------------------------------------------------------------
(* The main thread.                                                        *)

(* return_to_blank_daemon, up to the stop of the dataplane.                *)
Blank(goal) ==
  /\ activeId' = NoProfile
  /\ after' = goal
  /\ mpc' = IF hasThread THEN "stop" ELSE "blanked"

(* handle_profile_notify takes a notification off the connection.          *)
Notify(p) ==
  /\ mpc = "idle" /\ ~Stopping
  /\ req' = p
  /\ mpc' = "exists"
  /\ UNCHANGED <<after, newCfg, retried, activeId, rtRunning, rtVars, run, signals,
                 tpc, threadVars, reloadVars, applyVars>>

(* A dataplane that is not the profile's own running one is cleared first. *)
MustClear ==
  \/ hasThread /\ (activeId = NoProfile \/ ~rtRunning)
  \/ activeId \notin {NoProfile, req}

CheckProfile ==
  /\ mpc = "exists"
  /\ \/ Blank("idle")
     \/ MustClear /\ Blank("load")
     \/ ~MustClear /\ mpc' = "load" /\ UNCHANGED <<activeId, after>>
  /\ UNCHANGED <<req, newCfg, retried, rtRunning, rtVars, run, signals,
                 tpc, threadVars, reloadVars, applyVars>>

(* runtime_stop_forwarder: the flag, the reload slot, the join.            *)
StopFlag ==
  /\ mpc = "stop"
  /\ run' = FALSE
  /\ mpc' = "shutdown"
  /\ UNCHANGED <<mainVars, rtRunning, rtVars, signals, tpc, threadVars, reloadVars,
                 applyVars>>

(* Mutant of ReloadShutdown: the pending request is left in the slot.      *)
ReloadShutdownKeeps ==
  /\ mpc = "shutdown"
  /\ done' = TRUE /\ rcOk' = FALSE
  /\ mpc' = "join"
  /\ UNCHANGED <<mainVars, rtRunning, rtVars, run, signals, tpc, threadVars, pending,
                 reqSlot, applyVars>>

ReloadShutdown ==
  /\ mpc = "shutdown"
  /\ pending' = FALSE /\ done' = TRUE /\ rcOk' = FALSE
  /\ mpc' = "join"
  /\ UNCHANGED <<mainVars, rtRunning, rtVars, run, signals, tpc, threadVars, reqSlot,
                 applyVars>>

Join ==
  /\ mpc = "join" /\ tpc = "dead"
  /\ hasThread' = FALSE /\ rtRunning' = FALSE /\ tpc' = "none"
  /\ mpc' = CASE after = "restart" -> "restart"
              [] after = "exit" -> "end"
              [] OTHER -> "blanked"
  /\ UNCHANGED <<mainVars, active, slots, run, signals, threadVars, reloadVars, applyVars>>

(* The end of return_to_blank_daemon: forwarder_clear_stop, memset of rt.  *)
Blanked ==
  /\ mpc = "blanked"
  /\ run' = TRUE
  /\ slots' = [s \in Slot |-> NoCfg] /\ active' = 0 /\ fwdCfg' = NoSlot
  /\ rtRunning' = FALSE /\ started' = FALSE
  /\ mpc' = after
  /\ UNCHANGED <<mainVars, hasThread, signals, tpc, txActive, reloadVars, applyVars>>

(* load_profile_config fails: the notification fails and all is cleared.   *)
LoadFails ==
  /\ mpc \in {"load", "retry"}
  /\ Blank("idle")
  /\ UNCHANGED <<req, newCfg, retried, rtRunning, rtVars, run, signals,
                 tpc, threadVars, reloadVars, applyVars>>

LoadFirst(c) ==
  /\ mpc = "load" /\ ~hasThread
  /\ newCfg' = c
  /\ mpc' = "start"
  /\ UNCHANGED <<after, req, retried, activeId, rtRunning, rtVars, run,
                 signals, tpc, threadVars, reloadVars, applyVars>>

(* Mutant of LoadNext: the configuration is read into the active slot.     *)
LoadNextInPlace(c) ==
  /\ mpc \in {"load", "retry"} /\ hasThread
  /\ slots' = [slots EXCEPT ![active] = c]
  /\ retried' = (mpc = "retry")
  /\ mpc' = "compare"
  /\ UNCHANGED <<after, req, newCfg, activeId, rtRunning, hasThread,
                 active, run, signals, tpc, threadVars, reloadVars, applyVars>>

(* With a dataplane up the configuration goes to the slot not active.      *)
LoadNext(c) ==
  /\ mpc \in {"load", "retry"} /\ hasThread
  /\ slots' = [slots EXCEPT ![1 - active] = c]
  /\ retried' = (mpc = "retry")
  /\ mpc' = "compare"
  /\ UNCHANGED <<after, req, newCfg, activeId, rtRunning, hasThread,
                 active, run, signals, tpc, threadVars, reloadVars, applyVars>>

Compare ==
  /\ mpc = "compare"
  /\ \/ /\ DbUnchanged(slots[active], slots[1 - active])
        /\ mpc' = IF retried THEN "idle" ELSE "retry"
        /\ activeId' = IF retried THEN req ELSE activeId
        /\ UNCHANGED after
     \/ /\ ~SameTopology(slots[active], slots[1 - active])
        /\ mpc' = "stop" /\ after' = "restart"
        /\ UNCHANGED activeId
     \/ /\ ~DbUnchanged(slots[active], slots[1 - active])
        /\ SameTopology(slots[active], slots[1 - active])
        /\ mpc' = "reload"
        /\ UNCHANGED <<activeId, after>>
  /\ UNCHANGED <<req, newCfg, retried, rtRunning, rtVars, run, signals,
                 tpc, threadVars, reloadVars, applyVars>>

(* Between the two halves of a full restart a stop signal is honoured.     *)
Restart ==
  /\ mpc = "restart"
  /\ \/ Stopping /\ Blank("idle") /\ UNCHANGED newCfg
     \/ /\ ~Stopping
        /\ newCfg' = slots[1 - active]
        /\ mpc' = "start"
        /\ UNCHANGED <<activeId, after>>
  /\ UNCHANGED <<req, retried, rtRunning, rtVars, run, signals, tpc,
                 threadVars, reloadVars, applyVars>>

(* runtime_start; creating the thread may fail.                            *)
Start ==
  /\ mpc = "start"
  /\ active' = 0
  /\ slots' = [slots EXCEPT ![0] = newCfg]
  /\ rtRunning' = FALSE
  /\ run' = TRUE
  /\ \/ /\ hasThread' = TRUE /\ tpc' = "init"
        /\ activeId' = req /\ mpc' = "idle"
        /\ UNCHANGED after
     \/ Blank("idle") /\ UNCHANGED <<hasThread, tpc>>
  /\ UNCHANGED <<req, newCfg, retried, signals, threadVars, reloadVars,
                 applyVars>>

HotReloadFails == Blank("idle")

(* forwarder_reload_config up to the wait for the dataplane's threads.     *)
ReloadChecks ==
  /\ mpc = "reload"
  /\ LET ok == /\ run /\ fwdCfg # NoSlot
               /\ SameTopology(slots[fwdCfg], slots[1 - active])
     IN  \/ ~ok /\ HotReloadFails
         \/ ok /\ mpc' = "workers" /\ UNCHANGED <<activeId, after>>
  /\ UNCHANGED <<req, newCfg, retried, rtRunning, rtVars, run, signals, tpc,
                 threadVars, reloadVars, applyVars>>

(* wait_dataplane_workers gives up after 5s or on a stop.                  *)
WorkersNotReady ==
  /\ mpc = "workers" /\ ~started
  /\ HotReloadFails
  /\ UNCHANGED <<req, newCfg, retried, rtRunning, rtVars, run, signals, tpc,
                 threadVars, reloadVars, applyVars>>

(* forwarder_queue_reload fills the slot.  Its busy return never happens:  *)
(* NoOrphanRequest.                                                        *)
QueueReload ==
  /\ mpc = "workers" /\ started
  /\ reqSlot' = 1 - active /\ rcOk' = FALSE /\ done' = FALSE /\ pending' = TRUE
  /\ mpc' = "wait"
  /\ UNCHANGED <<mainVars, rtRunning, rtVars, run, signals, tpc, threadVars, applyVars>>

(* Mutant of ReloadReturns: rt->active_slot is not moved.                  *)
ReloadReturnsStale ==
  /\ mpc = "wait" /\ (done \/ ~run)
  /\ \/ /\ done /\ rcOk /\ run
        /\ activeId' = req /\ mpc' = "idle"
        /\ UNCHANGED <<after>>
     \/ ~(done /\ rcOk /\ run) /\ HotReloadFails
  /\ UNCHANGED <<req, newCfg, retried, rtRunning, rtVars, run, signals, tpc,
                 threadVars, reloadVars, applyVars>>

ReloadReturns ==
  /\ mpc = "wait" /\ (done \/ ~run)
  /\ \/ /\ done /\ rcOk /\ run
        /\ active' = reqSlot /\ activeId' = req /\ mpc' = "idle"
        /\ UNCHANGED <<after>>
     \/ ~(done /\ rcOk /\ run) /\ HotReloadFails /\ UNCHANGED active
  /\ UNCHANGED <<req, newCfg, retried, rtRunning, hasThread, slots, run, signals, tpc,
                 threadVars, reloadVars, applyVars>>

(* 60 seconds pass: the request is withdrawn.                              *)
ReloadTimesOut ==
  /\ mpc = "wait" /\ ~done
  /\ pending' = FALSE
  /\ HotReloadFails
  /\ UNCHANGED <<req, newCfg, retried, rtRunning, rtVars, run, signals, tpc, threadVars,
                 done, reqSlot, rcOk, applyVars>>

(* The loop of main ends after a stop signal.                              *)
Leave ==
  /\ mpc = "idle" /\ Stopping
  /\ after' = "exit"
  /\ mpc' = IF hasThread THEN "stop" ELSE "end"
  /\ UNCHANGED <<req, newCfg, retried, activeId, rtRunning, rtVars, run,
                 signals, tpc, threadVars, reloadVars, applyVars>>

(* on_stop_signal.                                                         *)
Signal ==
  /\ signals < MaxSignals /\ mpc # "end"
  /\ signals' = signals + 1
  /\ run' = FALSE
  /\ UNCHANGED <<mpc, mainVars, rtRunning, rtVars, tpc, threadVars, reloadVars, applyVars>>

----------------------------------------------------------------------------
(* The forwarder thread: forwarder_init, forwarder_run.                    *)

ThreadEnds == tpc' = "dead" /\ rtRunning' = FALSE /\ started' = FALSE

(* forwarder_init stores fwd->cfg.                                         *)
InitBegins ==
  /\ tpc = "init" /\ run
  /\ fwdCfg' = active /\ started' = FALSE
  /\ tpc' = "early"
  /\ UNCHANGED <<mpc, mainVars, rtRunning, rtVars, run, signals, txActive, reloadVars,
                 applyVars>>

(* The last of its checks of the stop flag is passed.                      *)
InitPasses ==
  /\ tpc = "early" /\ run
  /\ tpc' = "late"
  /\ UNCHANGED <<mpc, mainVars, rtRunning, rtVars, run, signals, threadVars, reloadVars,
                 applyVars>>

(* A check finds the flag down, or a step of the initialisation fails.     *)
InitFails ==
  /\ tpc \in {"init", "early", "late"}
  /\ ThreadEnds
  /\ UNCHANGED <<mpc, mainVars, rtVars, run, signals, fwdCfg, txActive, reloadVars,
                 applyVars>>

(* The rings, the WAN state and the failover thread are up; the flag is    *)
(* raised at the very end.                                                 *)
InitEnds ==
  /\ tpc = "late"
  /\ run' = TRUE
  /\ tpc' = "check"
  /\ UNCHANGED <<mpc, mainVars, rtRunning, rtVars, signals, threadVars, reloadVars,
                 applyVars>>

CheckStop ==
  /\ tpc = "check"
  /\ \/ ~run /\ ThreadEnds
     \/ run /\ rtRunning' = TRUE /\ tpc' = "enter" /\ UNCHANGED started
  /\ UNCHANGED <<mpc, mainVars, rtVars, run, signals, fwdCfg, txActive, reloadVars,
                 applyVars>>

(* Mutant of RunBegins: the flag is raised by the start of the threads.    *)
RunBeginsRaises(n) ==
  /\ tpc = "enter"
  /\ run' = TRUE
  /\ txActive' = n
  /\ started' = TRUE
  /\ tpc' = "run"
  /\ UNCHANGED <<mpc, mainVars, rtRunning, rtVars, signals, fwdCfg, reloadVars, applyVars>>

(* forwarder_run creates the threads, TX threads by the queues there are.  *)
RunBegins(n) ==
  /\ tpc = "enter" /\ run
  /\ txActive' = n
  /\ started' = TRUE
  /\ tpc' = "run"
  /\ UNCHANGED <<mpc, mainVars, rtRunning, rtVars, run, signals, fwdCfg, reloadVars,
                 applyVars>>

(* It returns at once: stopped, CPU map invalid, or a thread not created.  *)
RunFails ==
  /\ tpc = "enter"
  /\ \/ UNCHANGED run
     \/ run /\ run' = FALSE
  /\ ThreadEnds
  /\ UNCHANGED <<mpc, mainVars, rtVars, signals, fwdCfg, txActive, reloadVars, applyVars>>

(* The threads leave their loops and are joined, NE_TX_SLOTS of TX.        *)
RunEnds ==
  /\ tpc = "run" /\ ~run /\ apc = "idle"
  /\ ThreadEnds
  /\ UNCHANGED <<mpc, mainVars, rtVars, run, signals, fwdCfg, txActive, reloadVars,
                 applyVars>>

(* Joining a pthread_t that was never created is undefined: the call may   *)
(* also return an error, as in RunEnds, or crash the process.              *)
JoinCrashes ==
  /\ tpc = "run" /\ ~run /\ apc = "idle" /\ txActive < TxSlots
  /\ tpc' = "crashed" /\ mpc' = "end"
  /\ UNCHANGED <<mainVars, rtRunning, rtVars, run, signals, threadVars, reloadVars,
                 applyVars>>

----------------------------------------------------------------------------
(* TX slot 0: fwd_reload_apply_if_pending.                                 *)

ApplyBegins ==
  /\ tpc = "run" /\ apc = "idle" /\ run /\ pending
  /\ apSlot' = reqSlot
  /\ apc' = "apply"
  /\ UNCHANGED <<mpc, mainVars, rtRunning, rtVars, run, signals, tpc, threadVars,
                 reloadVars>>

(* Stopped, or a WAN cannot be brought up: fwd->cfg is left alone.         *)
ApplyAborts ==
  /\ apc = "apply"
  /\ rcOk' = FALSE
  /\ apc' = "store"
  /\ UNCHANGED <<mpc, mainVars, rtRunning, rtVars, run, signals, tpc, threadVars,
                 pending, done, reqSlot, apSlot>>

ApplyInstalls ==
  /\ apc = "apply" /\ run
  /\ fwdCfg' = apSlot
  /\ apc' = "rebuild"
  /\ UNCHANGED <<mpc, mainVars, rtRunning, rtVars, run, signals, tpc, started, txActive,
                 reloadVars, apSlot>>

(* The crypto contexts are rebuilt or not; a stop is a failure.            *)
ApplyRebuilds ==
  /\ apc = "rebuild"
  /\ rcOk' \in IF run THEN BOOLEAN ELSE {FALSE}
  /\ apc' = "store"
  /\ UNCHANGED <<mpc, mainVars, rtRunning, rtVars, run, signals, tpc, threadVars,
                 pending, done, reqSlot, apSlot>>

ApplyClears ==
  /\ apc = "store"
  /\ pending' = FALSE
  /\ apc' = "done"
  /\ UNCHANGED <<mpc, mainVars, rtRunning, rtVars, run, signals, tpc, threadVars,
                 done, reqSlot, rcOk, apSlot>>

ApplyAnswers ==
  /\ apc = "done"
  /\ done' = TRUE
  /\ apc' = "idle" /\ apSlot' = NoSlot
  /\ UNCHANGED <<mpc, mainVars, rtRunning, rtVars, run, signals, tpc, threadVars,
                 pending, reqSlot, rcOk>>

----------------------------------------------------------------------------
MainStep ==
  \/ CheckProfile \/ StopFlag \/ ReloadShutdown \/ Join \/ Blanked
  \/ LoadFails \/ \E c \in Cfgs : LoadFirst(c) \/ LoadNext(c)
  \/ Compare \/ Restart \/ Start \/ ReloadChecks \/ WorkersNotReady \/ QueueReload
  \/ ReloadReturns \/ ReloadTimesOut \/ Leave

ThreadStep ==
  \/ InitBegins \/ InitPasses \/ InitFails \/ InitEnds \/ CheckStop
  \/ \E n \in 1..TxSlots : RunBegins(n)
  \/ RunFails \/ RunEnds \/ JoinCrashes

ApplyStep ==
  \/ ApplyBegins \/ ApplyAborts \/ ApplyInstalls \/ ApplyRebuilds \/ ApplyClears
  \/ ApplyAnswers

Next ==
  \/ \E p \in Profiles : Notify(p)
  \/ Signal
  \/ MainStep
  \/ ThreadStep
  \/ ApplyStep

Spec == Init /\ [][Next]_vars

(* Each of the three threads is scheduled; signals and notifications come  *)
(* or do not.                                                              *)
FairSpec == Spec /\ WF_vars(MainStep) /\ WF_vars(ThreadStep) /\ WF_vars(ApplyStep)

----------------------------------------------------------------------------
(* Every variable of the three threads keeps its type.                     *)
TypeOK ==
  /\ mpc \in {"idle", "exists", "load", "retry", "compare", "stop", "shutdown", "join",
              "blanked", "restart", "start", "reload", "workers", "wait", "end"}
  /\ after \in {"idle", "load", "restart", "exit"}
  /\ req \in Profiles \cup {NoProfile} /\ activeId \in Profiles \cup {NoProfile}
  /\ newCfg \in Cfgs \cup {NoCfg} /\ slots \in [Slot -> Cfgs \cup {NoCfg}]
  /\ retried \in BOOLEAN /\ hasThread \in BOOLEAN /\ rtRunning \in BOOLEAN
  /\ active \in Slot /\ run \in BOOLEAN /\ signals \in 0..MaxSignals
  /\ tpc \in {"none", "init", "early", "late", "check", "enter", "run", "dead", "crashed"}
  /\ started \in BOOLEAN /\ fwdCfg \in Slot \cup {NoSlot} /\ txActive \in 1..TxSlots
  /\ pending \in BOOLEAN /\ done \in BOOLEAN /\ reqSlot \in Slot \cup {NoSlot}
  /\ rcOk \in BOOLEAN /\ apc \in {"idle", "apply", "rebuild", "store", "done"}
  /\ apSlot \in Slot \cup {NoSlot}

InUse(s) ==
  \/ tpc = "init" /\ active = s
  \/ tpc \in {"early", "late", "check", "enter", "run"} /\ fwdCfg = s
  \/ apc # "idle" /\ apSlot = s

(* The main thread never writes the configuration slot that the dataplane, *)
(* or a reload in progress, is reading: there is no lock around fwd->cfg.  *)
LiveCfgStable ==
  [][\A s \in Slot : slots'[s] # slots[s] => ~InUse(s)]_vars

(* Whenever main handles the next notification, rt->active_slot names the  *)
(* configuration the dataplane runs: a failed or timed-out reload that     *)
(* already moved fwd->cfg never leaves the two apart.                      *)
SlotAgrees ==
  tpc = "run" /\ mpc \in {"idle", "exists", "load", "retry", "compare", "reload", "workers"}
  => fwdCfg = active

(* No request outlives the notification that made it, withdrawn, answered  *)
(* or cut short by a stop: the next dataplane does not apply it, and the   *)
(* next request never finds the slot busy.                                 *)
NoOrphanRequest ==
  mpc \in {"idle", "start", "blanked", "workers"} => ~pending /\ apc = "idle"

(* A dataplane that is past its initialisation when it is told to stop     *)
(* stops, and main gets on, even in the middle of a reload.                *)
RunningStops == (mpc = "join" /\ tpc \in {"check", "enter", "run"} /\ ~run) ~> (mpc # "join")
=============================================================================
