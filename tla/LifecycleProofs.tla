--------------------------- MODULE LifecycleProofs ---------------------------
(* Proofs about the control plane, for every set of profiles and           *)
(* configurations, every number of TX slots and of stop signals.           *)
EXTENDS Lifecycle, TLAPS

Handling == {"idle", "exists", "load", "retry", "compare", "reload", "workers"}

Alive == {"early", "late", "check", "enter", "run"}

(* Where main may stand with and without a forwarder thread.               *)
ThreadInv ==
  /\ hasThread <=> tpc # "none"
  /\ mpc \in {"start", "restart", "blanked"} => ~hasThread
  /\ mpc \in {"retry", "compare", "stop", "shutdown", "join", "reload", "workers", "wait"}
       => hasThread
  /\ mpc = "blanked" => after \in {"idle", "load"}
  /\ tpc = "crashed" => mpc = "end"
  /\ mpc = "end" => tpc \in {"none", "crashed"}
  /\ started <=> tpc \in {"run", "crashed"}
  /\ mpc = "wait" => tpc \in {"run", "dead"}

(* A reload in progress: TX slot 0 works on it only while main waits or    *)
(* stops the dataplane, and an answer means that the request is gone.      *)
ReloadInv ==
  /\ pending => mpc \in {"wait", "stop", "shutdown", "end"} /\ reqSlot \in Slot
  /\ apc # "idle" => /\ tpc = "run" /\ apSlot \in Slot
                     /\ mpc \in {"wait", "stop", "shutdown", "join"}
  /\ apc = "done" => ~pending
  /\ mpc = "wait" => /\ reqSlot = 1 - active
                     /\ done => ~pending /\ apc = "idle"
                     /\ apc \in {"apply", "rebuild", "store"} => pending
                     /\ apc # "idle" => apSlot = reqSlot

(* fwd->cfg against rt->active_slot, and against the request while main    *)
(* waits for its answer.                                                   *)
SlotInv ==
  /\ tpc \in Alive /\ mpc \in Handling => fwdCfg = active
  /\ apc = "rebuild" => fwdCfg = apSlot
  /\ mpc = "wait" /\ rcOk => /\ fwdCfg = reqSlot
                             /\ apc \in {"store", "done"} \/ (apc = "idle" /\ ~pending)

BoolType ==
  /\ retried \in BOOLEAN /\ hasThread \in BOOLEAN /\ rtRunning \in BOOLEAN
  /\ run \in BOOLEAN /\ started \in BOOLEAN
  /\ pending \in BOOLEAN /\ done \in BOOLEAN /\ rcOk \in BOOLEAN

CtlType ==
  /\ mpc \in {"idle", "exists", "load", "retry", "compare", "stop", "shutdown", "join",
              "blanked", "restart", "start", "reload", "workers", "wait", "end"}
  /\ after \in {"idle", "load", "restart", "exit"}
  /\ req \in Profiles \cup {NoProfile} /\ activeId \in Profiles \cup {NoProfile}
  /\ newCfg \in Cfgs \cup {NoCfg} /\ slots \in [Slot -> Cfgs \cup {NoCfg}]
  /\ active \in Slot /\ signals \in 0..MaxSignals
  /\ tpc \in {"none", "init", "early", "late", "check", "enter", "run", "dead", "crashed"}
  /\ fwdCfg \in Slot \cup {NoSlot} /\ txActive \in 1..TxSlots
  /\ reqSlot \in Slot \cup {NoSlot}
  /\ apc \in {"idle", "apply", "rebuild", "store", "done"}
  /\ apSlot \in Slot \cup {NoSlot}

(* The inductive invariant.                                                *)
IInv == BoolType /\ CtlType /\ ThreadInv /\ ReloadInv /\ SlotInv

(* The flags and the rest of the state, whose proofs differ, are TypeOK.   *)
LEMMA TypeParts == BoolType /\ CtlType => TypeOK
  BY DEF TypeOK, BoolType, CtlType

(* A fresh process has no thread and no request.                           *)
LEMMA InitPreserves == Init => IInv
<1> SUFFICES ASSUME Init PROVE IInv
  OBVIOUS
<1>1. BoolType
  BY Zenon DEF Init, BoolType
<1>2. CtlType
  BY BoundAssumption DEF Init, CtlType, Slot
<1>3. ThreadInv /\ ReloadInv /\ SlotInv
  BY DEF Init, ThreadInv, ReloadInv, SlotInv, Alive
<1> QED
  BY <1>1, <1>2, <1>3 DEF IInv

(***************************************************************************)
(* One lemma for each action: main, the forwarder thread, TX slot 0.       *)
(***************************************************************************)

(* A notification is taken.                                                *)
LEMMA NotifyPreserves == ASSUME IInv, NEW p \in Profiles, Notify(p) PROVE IInv'
<1>1. BoolType'
  BY Zenon DEF Notify, Stopping, rtVars, threadVars, reloadVars, applyVars,
     IInv, BoolType
<1>2. CtlType'
  BY DEF IInv, CtlType, Notify, Stopping, rtVars, threadVars, reloadVars,
     applyVars
<1>3. ThreadInv'
  BY DEF IInv, ThreadInv, Notify, Stopping, rtVars, threadVars, reloadVars,
     applyVars
<1>4. ReloadInv'
  BY DEF IInv, ReloadInv, Notify, Stopping, rtVars, threadVars, reloadVars,
     applyVars
<1>5. SlotInv'
  BY DEF IInv, SlotInv, Handling, Notify, Stopping, rtVars, threadVars,
     reloadVars, applyVars
<1> QED
  BY <1>1, <1>2, <1>3, <1>4, <1>5 DEF IInv

(* A stop signal.                                                          *)
LEMMA SignalPreserves == ASSUME IInv, Signal PROVE IInv'
<1>1. BoolType'
  BY Zenon DEF Signal, mainVars, rtVars, threadVars, reloadVars, applyVars,
     IInv, BoolType
<1>2. CtlType'
  BY BoundAssumption DEF IInv, CtlType, Signal, mainVars, rtVars, threadVars,
     reloadVars, applyVars
<1>3. ThreadInv'
  BY DEF IInv, ThreadInv, Signal, mainVars, rtVars, threadVars, reloadVars,
     applyVars
<1>4. ReloadInv'
  BY DEF IInv, ReloadInv, Signal, mainVars, rtVars, threadVars, reloadVars,
     applyVars
<1>5. SlotInv'
  BY DEF IInv, SlotInv, Signal, mainVars, rtVars, threadVars, reloadVars,
     applyVars
<1> QED
  BY <1>1, <1>2, <1>3, <1>4, <1>5 DEF IInv

(* The profile is looked up.                                               *)
LEMMA CheckProfilePreserves == ASSUME IInv, CheckProfile PROVE IInv'
<1>1. BoolType'
  BY Zenon DEF CheckProfile, Blank, rtVars, threadVars, reloadVars, applyVars,
     IInv, BoolType
<1>2. CtlType'
  BY DEF IInv, CtlType, CheckProfile, Blank, rtVars, threadVars, reloadVars,
     applyVars
<1>3. ThreadInv'
  BY DEF IInv, ThreadInv, CheckProfile, Blank, rtVars, threadVars, reloadVars,
     applyVars
<1>4. ReloadInv'
  BY DEF IInv, ReloadInv, CheckProfile, Blank, rtVars, threadVars, reloadVars,
     applyVars
<1>5. SlotInv'
  BY DEF IInv, SlotInv, Handling, CheckProfile, Blank, rtVars, threadVars,
     reloadVars, applyVars
<1> QED
  BY <1>1, <1>2, <1>3, <1>4, <1>5 DEF IInv

(* The stop of the dataplane begins.                                       *)
LEMMA StopFlagPreserves == ASSUME IInv, StopFlag PROVE IInv'
<1>1. BoolType'
  BY Zenon DEF StopFlag, mainVars, rtVars, threadVars, reloadVars, applyVars,
     IInv, BoolType
<1>2. CtlType'
  BY DEF IInv, CtlType, StopFlag, mainVars, rtVars, threadVars, reloadVars,
     applyVars
<1>3. ThreadInv'
  BY DEF IInv, ThreadInv, StopFlag, mainVars, rtVars, threadVars, reloadVars,
     applyVars
<1>4. ReloadInv'
  BY DEF IInv, ReloadInv, StopFlag, mainVars, rtVars, threadVars, reloadVars,
     applyVars
<1>5. SlotInv'
  BY DEF IInv, SlotInv, Handling, StopFlag, mainVars, rtVars, threadVars,
     reloadVars, applyVars
<1> QED
  BY <1>1, <1>2, <1>3, <1>4, <1>5 DEF IInv

(* It withdraws the request.                                               *)
LEMMA ReloadShutdownPreserves == ASSUME IInv, ReloadShutdown PROVE IInv'
<1>1. BoolType'
  BY Zenon DEF ReloadShutdown, mainVars, rtVars, threadVars, applyVars, IInv,
     BoolType
<1>2. CtlType'
  BY DEF IInv, CtlType, ReloadShutdown, mainVars, rtVars, threadVars, applyVars
<1>3. ThreadInv'
  BY DEF IInv, ThreadInv, ReloadShutdown, mainVars, rtVars, threadVars,
     applyVars
<1>4. ReloadInv'
  BY DEF IInv, ReloadInv, ReloadShutdown, mainVars, rtVars, threadVars,
     applyVars
<1>5. SlotInv'
  BY DEF IInv, SlotInv, Handling, ReloadShutdown, mainVars, rtVars, threadVars,
     applyVars
<1> QED
  BY <1>1, <1>2, <1>3, <1>4, <1>5 DEF IInv

(* The forwarder thread is joined.                                         *)
LEMMA JoinPreserves == ASSUME IInv, Join PROVE IInv'
<1>1. BoolType'
  BY Zenon DEF Join, mainVars, threadVars, reloadVars, applyVars, IInv,
     BoolType
<1>2. CtlType'
  BY DEF IInv, CtlType, Join, mainVars, threadVars, reloadVars, applyVars
<1>3. ThreadInv'
  BY DEF IInv, CtlType, ThreadInv, Join, mainVars, threadVars, reloadVars,
     applyVars
<1>4. ReloadInv'
  BY DEF IInv, ReloadInv, Join, mainVars, threadVars, reloadVars, applyVars
<1>5. SlotInv'
  BY DEF IInv, SlotInv, Handling, Join, mainVars, threadVars, reloadVars,
     applyVars
<1> QED
  BY <1>1, <1>2, <1>3, <1>4, <1>5 DEF IInv

(* The runtime is zeroed without a thread to read it.                      *)
LEMMA BlankedPreserves == ASSUME IInv, Blanked PROVE IInv'
<1>1. BoolType'
  BY Zenon DEF Blanked, mainVars, reloadVars, applyVars, IInv, BoolType
<1>2. CtlType'
  BY DEF IInv, CtlType, Slot, ThreadInv, Blanked, mainVars, reloadVars,
     applyVars
<1>3. ThreadInv'
  BY DEF IInv, ThreadInv, Blanked, mainVars, reloadVars, applyVars
<1>4. ReloadInv'
  BY DEF IInv, CtlType, ReloadInv, Blanked, mainVars, reloadVars, applyVars
<1>5. SlotInv'
  BY DEF IInv, ThreadInv, ReloadInv, SlotInv, Alive, Blanked, mainVars,
     reloadVars, applyVars
<1> QED
  BY <1>1, <1>2, <1>3, <1>4, <1>5 DEF IInv

(* The database cannot be read.                                            *)
LEMMA LoadFailsPreserves == ASSUME IInv, LoadFails PROVE IInv'
<1>1. BoolType'
  BY Zenon DEF LoadFails, Blank, rtVars, threadVars, reloadVars, applyVars,
     IInv, BoolType
<1>2. CtlType'
  BY DEF IInv, CtlType, LoadFails, Blank, rtVars, threadVars, reloadVars,
     applyVars
<1>3. ThreadInv'
  BY DEF IInv, ThreadInv, LoadFails, Blank, rtVars, threadVars, reloadVars,
     applyVars
<1>4. ReloadInv'
  BY DEF IInv, ReloadInv, LoadFails, Blank, rtVars, threadVars, reloadVars,
     applyVars
<1>5. SlotInv'
  BY DEF IInv, SlotInv, Handling, LoadFails, Blank, rtVars, threadVars,
     reloadVars, applyVars
<1> QED
  BY <1>1, <1>2, <1>3, <1>4, <1>5 DEF IInv

(* A first configuration is read.                                          *)
LEMMA LoadFirstPreserves == ASSUME IInv, NEW c \in Cfgs, LoadFirst(c) PROVE IInv'
<1>1. BoolType'
  BY Zenon DEF LoadFirst, rtVars, threadVars, reloadVars, applyVars, IInv,
     BoolType
<1>2. CtlType'
  BY DEF IInv, CtlType, LoadFirst, rtVars, threadVars, reloadVars, applyVars
<1>3. ThreadInv'
  BY DEF IInv, ThreadInv, LoadFirst, rtVars, threadVars, reloadVars, applyVars
<1>4. ReloadInv'
  BY DEF IInv, ReloadInv, LoadFirst, rtVars, threadVars, reloadVars, applyVars
<1>5. SlotInv'
  BY DEF IInv, SlotInv, Handling, LoadFirst, rtVars, threadVars, reloadVars,
     applyVars
<1> QED
  BY <1>1, <1>2, <1>3, <1>4, <1>5 DEF IInv

(* A next one is read, into the slot that is not active.                   *)
LEMMA LoadNextPreserves == ASSUME IInv, NEW c \in Cfgs, LoadNext(c) PROVE IInv'
<1>1. BoolType'
  BY Zenon DEF LoadNext, threadVars, reloadVars, applyVars, IInv, BoolType
<1>2. CtlType'
  BY DEF IInv, CtlType, Slot, LoadNext, threadVars, reloadVars, applyVars
<1>3. ThreadInv'
  BY DEF IInv, ThreadInv, LoadNext, threadVars, reloadVars, applyVars
<1>4. ReloadInv'
  BY DEF IInv, ReloadInv, LoadNext, threadVars, reloadVars, applyVars
<1>5. SlotInv'
  BY DEF IInv, SlotInv, Handling, LoadNext, threadVars, reloadVars, applyVars
<1> QED
  BY <1>1, <1>2, <1>3, <1>4, <1>5 DEF IInv

(* The two slots are compared.                                             *)
LEMMA ComparePreserves == ASSUME IInv, Compare PROVE IInv'
<1>1. BoolType'
  BY Zenon DEF Compare, rtVars, threadVars, reloadVars, applyVars, IInv,
     BoolType
<1>2. CtlType'
  BY DEF IInv, CtlType, Compare, rtVars, threadVars, reloadVars, applyVars
<1>3. ThreadInv'
  BY DEF IInv, ThreadInv, Compare, rtVars, threadVars, reloadVars, applyVars
<1>4. ReloadInv'
  BY DEF IInv, ReloadInv, Compare, rtVars, threadVars, reloadVars, applyVars
<1>5. SlotInv'
  BY DEF IInv, SlotInv, Handling, Compare, rtVars, threadVars, reloadVars,
     applyVars
<1> QED
  BY <1>1, <1>2, <1>3, <1>4, <1>5 DEF IInv

(* The second half of a restart.                                           *)
LEMMA RestartPreserves == ASSUME IInv, Restart PROVE IInv'
<1>1. BoolType'
  BY Zenon DEF Restart, Blank, Stopping, rtVars, threadVars, reloadVars,
     applyVars, IInv, BoolType
<1>2. CtlType'
  BY DEF IInv, CtlType, Slot, Restart, Blank, Stopping, rtVars, threadVars,
     reloadVars, applyVars
<1>3. ThreadInv'
  BY DEF IInv, ThreadInv, Restart, Blank, Stopping, rtVars, threadVars,
     reloadVars, applyVars
<1>4. ReloadInv'
  BY DEF IInv, ReloadInv, Restart, Blank, Stopping, rtVars, threadVars,
     reloadVars, applyVars
<1>5. SlotInv'
  BY DEF IInv, SlotInv, Handling, Restart, Blank, Stopping, rtVars, threadVars,
     reloadVars, applyVars
<1> QED
  BY <1>1, <1>2, <1>3, <1>4, <1>5 DEF IInv

(* The thread is created, or cannot be.                                    *)
LEMMA StartPreserves == ASSUME IInv, Start PROVE IInv'
<1>1. BoolType'
  BY Zenon DEF Start, Blank, threadVars, reloadVars, applyVars, IInv, BoolType
<1>2. CtlType'
  BY DEF IInv, CtlType, Slot, Start, Blank, threadVars, reloadVars, applyVars
<1>3. ThreadInv'
  BY DEF IInv, ThreadInv, Start, Blank, threadVars, reloadVars, applyVars
<1>4. ReloadInv'
  BY DEF IInv, ReloadInv, Start, Blank, threadVars, reloadVars, applyVars
<1>5. SlotInv'
  BY DEF IInv, SlotInv, Alive, Handling, Start, Blank, threadVars, reloadVars,
     applyVars
<1> QED
  BY <1>1, <1>2, <1>3, <1>4, <1>5 DEF IInv

(* A reload is refused, or goes on.                                        *)
LEMMA ReloadChecksPreserves == ASSUME IInv, ReloadChecks PROVE IInv'
<1>1. BoolType'
  BY Zenon DEF ReloadChecks, HotReloadFails, rtVars, threadVars, reloadVars,
     applyVars, Blank, IInv, BoolType
<1>2. CtlType'
  BY DEF IInv, CtlType, ReloadChecks, HotReloadFails, rtVars, threadVars,
     reloadVars, applyVars, Blank
<1>3. ThreadInv'
  BY DEF IInv, ThreadInv, ReloadChecks, HotReloadFails, rtVars, threadVars,
     reloadVars, applyVars, Blank
<1>4. ReloadInv'
  BY DEF IInv, ReloadInv, ReloadChecks, HotReloadFails, rtVars, threadVars,
     reloadVars, applyVars, Blank
<1>5. SlotInv'
  BY DEF IInv, SlotInv, Handling, ReloadChecks, HotReloadFails, rtVars,
     threadVars, reloadVars, applyVars, Blank
<1> QED
  BY <1>1, <1>2, <1>3, <1>4, <1>5 DEF IInv

(* The workers do not come up.                                             *)
LEMMA WorkersNotReadyPreserves == ASSUME IInv, WorkersNotReady PROVE IInv'
<1>1. BoolType'
  BY Zenon DEF WorkersNotReady, HotReloadFails, rtVars, threadVars, reloadVars,
     applyVars, Blank, IInv, BoolType
<1>2. CtlType'
  BY DEF IInv, CtlType, WorkersNotReady, HotReloadFails, rtVars, threadVars,
     reloadVars, applyVars, Blank
<1>3. ThreadInv'
  BY DEF IInv, ThreadInv, WorkersNotReady, HotReloadFails, rtVars, threadVars,
     reloadVars, applyVars, Blank
<1>4. ReloadInv'
  BY DEF IInv, ReloadInv, WorkersNotReady, HotReloadFails, rtVars, threadVars,
     reloadVars, applyVars, Blank
<1>5. SlotInv'
  BY DEF IInv, SlotInv, Handling, WorkersNotReady, HotReloadFails, rtVars,
     threadVars, reloadVars, applyVars, Blank
<1> QED
  BY <1>1, <1>2, <1>3, <1>4, <1>5 DEF IInv

(* The request is made: nobody works on another.                           *)
LEMMA QueueReloadPreserves == ASSUME IInv, QueueReload PROVE IInv'
<1>1. BoolType'
  BY Zenon DEF QueueReload, mainVars, rtVars, threadVars, applyVars, IInv,
     BoolType
<1>2. CtlType'
  BY DEF IInv, CtlType, Slot, QueueReload, mainVars, rtVars, threadVars,
     applyVars
<1>3. ThreadInv'
  BY DEF IInv, ThreadInv, QueueReload, mainVars, rtVars, threadVars, applyVars
<1>4. ReloadInv'
  BY DEF IInv, CtlType, ReloadInv, Slot, QueueReload, mainVars, rtVars,
     threadVars, applyVars
<1>5. SlotInv'
  BY DEF IInv, SlotInv, Handling, QueueReload, mainVars, rtVars, threadVars,
     applyVars
<1> QED
  BY <1>1, <1>2, <1>3, <1>4, <1>5 DEF IInv

(* The answer is taken: fwd->cfg is the slot asked for.                    *)
LEMMA ReloadReturnsPreserves == ASSUME IInv, ReloadReturns PROVE IInv'
<1>1. BoolType'
  BY Zenon DEF ReloadReturns, HotReloadFails, threadVars, reloadVars,
     applyVars, Blank, IInv, BoolType
<1>2. CtlType'
  BY DEF IInv, CtlType, Slot, ReloadInv, ReloadReturns, HotReloadFails,
     threadVars, reloadVars, applyVars, Blank
<1>3. ThreadInv'
  BY DEF IInv, ThreadInv, ReloadReturns, HotReloadFails, threadVars,
     reloadVars, applyVars, Blank
<1>4. ReloadInv'
  BY DEF IInv, ThreadInv, ReloadInv, ReloadReturns, HotReloadFails, threadVars,
     reloadVars, applyVars, Blank
<1>5. SlotInv'
  BY DEF IInv, SlotInv, Handling, ReloadReturns, HotReloadFails, threadVars,
     reloadVars, applyVars, Blank
<1> QED
  BY <1>1, <1>2, <1>3, <1>4, <1>5 DEF IInv

(* Or it does not come in time.                                            *)
LEMMA ReloadTimesOutPreserves == ASSUME IInv, ReloadTimesOut PROVE IInv'
<1>1. BoolType'
  BY Zenon DEF ReloadTimesOut, HotReloadFails, rtVars, threadVars, applyVars,
     Blank, IInv, BoolType
<1>2. CtlType'
  BY DEF IInv, CtlType, ReloadTimesOut, HotReloadFails, rtVars, threadVars,
     applyVars, Blank
<1>3. ThreadInv'
  BY DEF IInv, ThreadInv, ReloadTimesOut, HotReloadFails, rtVars, threadVars,
     applyVars, Blank
<1>4. ReloadInv'
  BY DEF IInv, ThreadInv, ReloadInv, ReloadTimesOut, HotReloadFails, rtVars,
     threadVars, applyVars, Blank
<1>5. SlotInv'
  BY DEF IInv, SlotInv, Handling, ReloadTimesOut, HotReloadFails, rtVars,
     threadVars, applyVars, Blank
<1> QED
  BY <1>1, <1>2, <1>3, <1>4, <1>5 DEF IInv

(* The loop of main ends.                                                  *)
LEMMA LeavePreserves == ASSUME IInv, Leave PROVE IInv'
<1>1. BoolType'
  BY Zenon DEF Leave, Stopping, rtVars, threadVars, reloadVars, applyVars,
     IInv, BoolType
<1>2. CtlType'
  BY DEF IInv, CtlType, Leave, Stopping, rtVars, threadVars, reloadVars,
     applyVars
<1>3. ThreadInv'
  BY DEF IInv, ThreadInv, Leave, Stopping, rtVars, threadVars, reloadVars,
     applyVars
<1>4. ReloadInv'
  BY DEF IInv, ReloadInv, Leave, Stopping, rtVars, threadVars, reloadVars,
     applyVars
<1>5. SlotInv'
  BY DEF IInv, SlotInv, Handling, Leave, Stopping, rtVars, threadVars,
     reloadVars, applyVars
<1> QED
  BY <1>1, <1>2, <1>3, <1>4, <1>5 DEF IInv

(* The forwarder thread takes its configuration.                           *)
LEMMA InitBeginsPreserves == ASSUME IInv, InitBegins PROVE IInv'
<1>1. BoolType'
  BY Zenon DEF InitBegins, mainVars, rtVars, reloadVars, applyVars, IInv,
     BoolType
<1>2. CtlType'
  BY DEF IInv, CtlType, InitBegins, mainVars, rtVars, reloadVars, applyVars
<1>3. ThreadInv'
  BY DEF IInv, ThreadInv, InitBegins, mainVars, rtVars, reloadVars, applyVars
<1>4. ReloadInv'
  BY DEF IInv, ReloadInv, InitBegins, mainVars, rtVars, reloadVars, applyVars
<1>5. SlotInv'
  BY DEF IInv, ThreadInv, ReloadInv, SlotInv, InitBegins, mainVars, rtVars,
     reloadVars, applyVars
<1> QED
  BY <1>1, <1>2, <1>3, <1>4, <1>5 DEF IInv

(* Its last check of the flag.                                             *)
LEMMA InitPassesPreserves == ASSUME IInv, InitPasses PROVE IInv'
<1>1. BoolType'
  BY Zenon DEF InitPasses, mainVars, rtVars, threadVars, reloadVars, applyVars,
     IInv, BoolType
<1>2. CtlType'
  BY DEF IInv, CtlType, InitPasses, mainVars, rtVars, threadVars, reloadVars,
     applyVars
<1>3. ThreadInv'
  BY DEF IInv, ThreadInv, InitPasses, mainVars, rtVars, threadVars, reloadVars,
     applyVars
<1>4. ReloadInv'
  BY DEF IInv, ReloadInv, InitPasses, mainVars, rtVars, threadVars, reloadVars,
     applyVars
<1>5. SlotInv'
  BY DEF IInv, SlotInv, Alive, InitPasses, mainVars, rtVars, threadVars,
     reloadVars, applyVars
<1> QED
  BY <1>1, <1>2, <1>3, <1>4, <1>5 DEF IInv

(* Its initialisation fails.                                               *)
LEMMA InitFailsPreserves == ASSUME IInv, InitFails PROVE IInv'
<1>1. BoolType'
  BY Zenon DEF InitFails, ThreadEnds, mainVars, rtVars, reloadVars, applyVars,
     IInv, BoolType
<1>2. CtlType'
  BY DEF IInv, CtlType, InitFails, ThreadEnds, mainVars, rtVars, reloadVars,
     applyVars
<1>3. ThreadInv'
  BY DEF IInv, ThreadInv, InitFails, ThreadEnds, mainVars, rtVars, reloadVars,
     applyVars
<1>4. ReloadInv'
  BY DEF IInv, ReloadInv, InitFails, ThreadEnds, mainVars, rtVars, reloadVars,
     applyVars
<1>5. SlotInv'
  BY DEF IInv, SlotInv, Alive, InitFails, ThreadEnds, mainVars, rtVars,
     reloadVars, applyVars
<1> QED
  BY <1>1, <1>2, <1>3, <1>4, <1>5 DEF IInv

(* Its initialisation ends.                                                *)
LEMMA InitEndsPreserves == ASSUME IInv, InitEnds PROVE IInv'
<1>1. BoolType'
  BY Zenon DEF InitEnds, mainVars, rtVars, threadVars, reloadVars, applyVars,
     IInv, BoolType
<1>2. CtlType'
  BY DEF IInv, CtlType, InitEnds, mainVars, rtVars, threadVars, reloadVars,
     applyVars
<1>3. ThreadInv'
  BY DEF IInv, ThreadInv, InitEnds, mainVars, rtVars, threadVars, reloadVars,
     applyVars
<1>4. ReloadInv'
  BY DEF IInv, ReloadInv, InitEnds, mainVars, rtVars, threadVars, reloadVars,
     applyVars
<1>5. SlotInv'
  BY DEF IInv, SlotInv, Alive, InitEnds, mainVars, rtVars, threadVars,
     reloadVars, applyVars
<1> QED
  BY <1>1, <1>2, <1>3, <1>4, <1>5 DEF IInv

(* The flag is looked at once more.                                        *)
LEMMA CheckStopPreserves == ASSUME IInv, CheckStop PROVE IInv'
<1>1. BoolType'
  BY Zenon DEF CheckStop, ThreadEnds, mainVars, rtVars, reloadVars, applyVars,
     IInv, BoolType
<1>2. CtlType'
  BY DEF IInv, CtlType, CheckStop, ThreadEnds, mainVars, rtVars, reloadVars,
     applyVars
<1>3. ThreadInv'
  BY DEF IInv, ThreadInv, CheckStop, ThreadEnds, mainVars, rtVars, reloadVars,
     applyVars
<1>4. ReloadInv'
  BY DEF IInv, ReloadInv, CheckStop, ThreadEnds, mainVars, rtVars, reloadVars,
     applyVars
<1>5. SlotInv'
  BY DEF IInv, SlotInv, Alive, CheckStop, ThreadEnds, mainVars, rtVars,
     reloadVars, applyVars
<1> QED
  BY <1>1, <1>2, <1>3, <1>4, <1>5 DEF IInv

(* The dataplane's threads start.                                          *)
LEMMA RunBeginsPreserves == ASSUME IInv, NEW n \in 1..TxSlots, RunBegins(n) PROVE IInv'
<1>1. BoolType'
  BY Zenon DEF RunBegins, mainVars, rtVars, reloadVars, applyVars, IInv,
     BoolType
<1>2. CtlType'
  BY DEF IInv, CtlType, RunBegins, mainVars, rtVars, reloadVars, applyVars
<1>3. ThreadInv'
  BY DEF IInv, ThreadInv, RunBegins, mainVars, rtVars, reloadVars, applyVars
<1>4. ReloadInv'
  BY DEF IInv, ReloadInv, RunBegins, mainVars, rtVars, reloadVars, applyVars
<1>5. SlotInv'
  BY DEF IInv, SlotInv, Alive, RunBegins, mainVars, rtVars, reloadVars,
     applyVars
<1> QED
  BY <1>1, <1>2, <1>3, <1>4, <1>5 DEF IInv

(* They do not.                                                            *)
LEMMA RunFailsPreserves == ASSUME IInv, RunFails PROVE IInv'
<1>1. BoolType'
  BY Zenon DEF RunFails, ThreadEnds, mainVars, rtVars, reloadVars, applyVars,
     IInv, BoolType
<1>2. CtlType'
  BY DEF IInv, CtlType, RunFails, ThreadEnds, mainVars, rtVars, reloadVars,
     applyVars
<1>3. ThreadInv'
  BY DEF IInv, ThreadInv, RunFails, ThreadEnds, mainVars, rtVars, reloadVars,
     applyVars
<1>4. ReloadInv'
  BY DEF IInv, ReloadInv, RunFails, ThreadEnds, mainVars, rtVars, reloadVars,
     applyVars
<1>5. SlotInv'
  BY DEF IInv, SlotInv, Alive, RunFails, ThreadEnds, mainVars, rtVars,
     reloadVars, applyVars
<1> QED
  BY <1>1, <1>2, <1>3, <1>4, <1>5 DEF IInv

(* They end, TX slot 0 outside a reload.                                   *)
LEMMA RunEndsPreserves == ASSUME IInv, RunEnds PROVE IInv'
<1>1. BoolType'
  BY Zenon DEF RunEnds, ThreadEnds, mainVars, rtVars, reloadVars, applyVars,
     IInv, BoolType
<1>2. CtlType'
  BY DEF IInv, CtlType, RunEnds, ThreadEnds, mainVars, rtVars, reloadVars,
     applyVars
<1>3. ThreadInv'
  BY DEF IInv, ThreadInv, RunEnds, ThreadEnds, mainVars, rtVars, reloadVars,
     applyVars
<1>4. ReloadInv'
  BY DEF IInv, ReloadInv, RunEnds, ThreadEnds, mainVars, rtVars, reloadVars,
     applyVars
<1>5. SlotInv'
  BY DEF IInv, SlotInv, Alive, RunEnds, ThreadEnds, mainVars, rtVars,
     reloadVars, applyVars
<1> QED
  BY <1>1, <1>2, <1>3, <1>4, <1>5 DEF IInv

(* Joining them crashes.                                                   *)
LEMMA JoinCrashesPreserves == ASSUME IInv, JoinCrashes PROVE IInv'
<1>1. BoolType'
  BY Zenon DEF JoinCrashes, mainVars, rtVars, threadVars, reloadVars,
     applyVars, IInv, BoolType
<1>2. CtlType'
  BY DEF IInv, CtlType, JoinCrashes, mainVars, rtVars, threadVars, reloadVars,
     applyVars
<1>3. ThreadInv'
  BY DEF IInv, ThreadInv, JoinCrashes, mainVars, rtVars, threadVars,
     reloadVars, applyVars
<1>4. ReloadInv'
  BY DEF IInv, ReloadInv, JoinCrashes, mainVars, rtVars, threadVars,
     reloadVars, applyVars
<1>5. SlotInv'
  BY DEF IInv, SlotInv, Handling, JoinCrashes, mainVars, rtVars, threadVars,
     reloadVars, applyVars
<1> QED
  BY <1>1, <1>2, <1>3, <1>4, <1>5 DEF IInv

(* TX slot 0 takes the request.                                            *)
LEMMA ApplyBeginsPreserves == ASSUME IInv, ApplyBegins PROVE IInv'
<1>1. BoolType'
  BY Zenon DEF ApplyBegins, mainVars, rtVars, threadVars, reloadVars, IInv,
     BoolType
<1>2. CtlType'
  BY DEF IInv, CtlType, ApplyBegins, mainVars, rtVars, threadVars, reloadVars
<1>3. ThreadInv'
  BY DEF IInv, ThreadInv, ApplyBegins, mainVars, rtVars, threadVars, reloadVars
<1>4. ReloadInv'
  BY DEF IInv, ThreadInv, ReloadInv, ApplyBegins, mainVars, rtVars, threadVars,
     reloadVars
<1>5. SlotInv'
  BY DEF IInv, SlotInv, ApplyBegins, mainVars, rtVars, threadVars, reloadVars
<1> QED
  BY <1>1, <1>2, <1>3, <1>4, <1>5 DEF IInv

(* It gives up.                                                            *)
LEMMA ApplyAbortsPreserves == ASSUME IInv, ApplyAborts PROVE IInv'
<1>1. BoolType'
  BY Zenon DEF ApplyAborts, mainVars, rtVars, threadVars, IInv, BoolType
<1>2. CtlType'
  BY DEF IInv, CtlType, ApplyAborts, mainVars, rtVars, threadVars
<1>3. ThreadInv'
  BY DEF IInv, ThreadInv, ApplyAborts, mainVars, rtVars, threadVars
<1>4. ReloadInv'
  BY DEF IInv, ReloadInv, ApplyAborts, mainVars, rtVars, threadVars
<1>5. SlotInv'
  BY DEF IInv, SlotInv, ApplyAborts, mainVars, rtVars, threadVars
<1> QED
  BY <1>1, <1>2, <1>3, <1>4, <1>5 DEF IInv

(* It moves fwd->cfg.                                                      *)
LEMMA ApplyInstallsPreserves == ASSUME IInv, ApplyInstalls PROVE IInv'
<1>1. BoolType'
  BY Zenon DEF ApplyInstalls, mainVars, rtVars, reloadVars, IInv, BoolType
<1>2. CtlType'
  BY DEF IInv, CtlType, ApplyInstalls, mainVars, rtVars, reloadVars
<1>3. ThreadInv'
  BY DEF IInv, ThreadInv, ApplyInstalls, mainVars, rtVars, reloadVars
<1>4. ReloadInv'
  BY DEF IInv, ReloadInv, ApplyInstalls, mainVars, rtVars, reloadVars
<1>5. SlotInv'
  BY DEF IInv, ReloadInv, SlotInv, Handling, ApplyInstalls, mainVars, rtVars,
     reloadVars
<1> QED
  BY <1>1, <1>2, <1>3, <1>4, <1>5 DEF IInv

(* It rebuilds the crypto contexts.                                        *)
LEMMA ApplyRebuildsPreserves == ASSUME IInv, ApplyRebuilds PROVE IInv'
<1>1. BoolType'
  BY Zenon DEF ApplyRebuilds, mainVars, rtVars, threadVars, IInv, BoolType
<1>2. CtlType'
  BY DEF IInv, CtlType, ApplyRebuilds, mainVars, rtVars, threadVars
<1>3. ThreadInv'
  BY DEF IInv, ThreadInv, ApplyRebuilds, mainVars, rtVars, threadVars
<1>4. ReloadInv'
  BY DEF IInv, ReloadInv, ApplyRebuilds, mainVars, rtVars, threadVars
<1>5. SlotInv'
  BY DEF IInv, ReloadInv, SlotInv, ApplyRebuilds, mainVars, rtVars, threadVars
<1> QED
  BY <1>1, <1>2, <1>3, <1>4, <1>5 DEF IInv

(* It clears the request.                                                  *)
LEMMA ApplyClearsPreserves == ASSUME IInv, ApplyClears PROVE IInv'
<1>1. BoolType'
  BY Zenon DEF ApplyClears, mainVars, rtVars, threadVars, IInv, BoolType
<1>2. CtlType'
  BY DEF IInv, CtlType, ApplyClears, mainVars, rtVars, threadVars
<1>3. ThreadInv'
  BY DEF IInv, ThreadInv, ApplyClears, mainVars, rtVars, threadVars
<1>4. ReloadInv'
  BY DEF IInv, ReloadInv, ApplyClears, mainVars, rtVars, threadVars
<1>5. SlotInv'
  BY DEF IInv, SlotInv, ApplyClears, mainVars, rtVars, threadVars
<1> QED
  BY <1>1, <1>2, <1>3, <1>4, <1>5 DEF IInv

(* It answers.                                                             *)
LEMMA ApplyAnswersPreserves == ASSUME IInv, ApplyAnswers PROVE IInv'
<1>1. BoolType'
  BY Zenon DEF ApplyAnswers, mainVars, rtVars, threadVars, IInv, BoolType
<1>2. CtlType'
  BY DEF IInv, CtlType, ApplyAnswers, mainVars, rtVars, threadVars
<1>3. ThreadInv'
  BY DEF IInv, ThreadInv, ApplyAnswers, mainVars, rtVars, threadVars
<1>4. ReloadInv'
  BY DEF IInv, ReloadInv, ApplyAnswers, mainVars, rtVars, threadVars
<1>5. SlotInv'
  BY DEF IInv, ReloadInv, SlotInv, ApplyAnswers, mainVars, rtVars, threadVars
<1> QED
  BY <1>1, <1>2, <1>3, <1>4, <1>5 DEF IInv

(* Every step of the system keeps the invariant.                           *)
LEMMA StepPreserves == IInv /\ [Next]_vars => IInv'
<1> SUFFICES ASSUME IInv, [Next]_vars PROVE IInv'
  OBVIOUS
<1>1. CASE MainStep
    BY <1>1, CheckProfilePreserves, StopFlagPreserves, ReloadShutdownPreserves,
       JoinPreserves, BlankedPreserves, LoadFailsPreserves, LoadFirstPreserves,
       LoadNextPreserves, ComparePreserves, RestartPreserves, StartPreserves,
       ReloadChecksPreserves, WorkersNotReadyPreserves, QueueReloadPreserves,
       ReloadReturnsPreserves, ReloadTimesOutPreserves, LeavePreserves DEF
       MainStep
<1>2. CASE ThreadStep
    BY <1>2, InitBeginsPreserves, InitPassesPreserves, InitFailsPreserves,
       InitEndsPreserves, CheckStopPreserves, RunBeginsPreserves,
       RunFailsPreserves, RunEndsPreserves, JoinCrashesPreserves DEF ThreadStep
<1>3. CASE ApplyStep
    BY <1>3, ApplyBeginsPreserves, ApplyAbortsPreserves,
       ApplyInstallsPreserves, ApplyRebuildsPreserves, ApplyClearsPreserves,
       ApplyAnswersPreserves DEF ApplyStep
<1>4. CASE \E p \in Profiles : Notify(p)
    BY <1>4, NotifyPreserves
<1>5. CASE Signal
    BY <1>5, SignalPreserves
<1>6. CASE UNCHANGED vars
  <2> USE DEF vars, mainVars, rtVars, threadVars, reloadVars, applyVars
  <2>1. BoolType'
    BY <1>6, Zenon DEF IInv, BoolType
  <2>2. CtlType' /\ ThreadInv' /\ ReloadInv' /\ SlotInv'
    BY <1>6 DEF IInv, CtlType, ThreadInv, ReloadInv, SlotInv
  <2> QED
    BY <2>1, <2>2 DEF IInv
<1> QED
  BY <1>1, <1>2, <1>3, <1>4, <1>5, <1>6 DEF Next

(* The invariant holds in every reachable state.                           *)
THEOREM Inductive == Spec => []IInv
  BY InitPreserves, StepPreserves, PTL DEF Spec

(***************************************************************************)
(* What follows.                                                           *)
(***************************************************************************)

(* Every variable of main, the forwarder thread and the reload slot keeps  *)
(* its type.                                                               *)
THEOREM TypeCorrect == Spec => []TypeOK
<1>1. IInv => TypeOK
  BY TypeParts DEF IInv
<1> QED
  BY <1>1, Inductive, PTL

(* Whenever main handles a notification, rt->active_slot is the slot the   *)
(* dataplane runs, whatever reloads failed, timed out or were cut short by *)
(* a stop before (handle_profile_notify against fwd_reload_apply).         *)
THEOREM SlotsAgree == Spec => []SlotAgrees
<1>1. IInv => SlotAgrees
  BY DEF IInv, SlotInv, SlotAgrees, Alive, Handling
<1> QED
  BY <1>1, Inductive, PTL

(* A reload request is gone, and TX slot 0 is done with it, when the       *)
(* notification that made it has been handled: forwarder_queue_reload      *)
(* never finds the slot busy.                                              *)
THEOREM RequestsEnd == Spec => []NoOrphanRequest
<1>1. IInv => NoOrphanRequest
  BY DEF IInv, ReloadInv, NoOrphanRequest
<1> QED
  BY <1>1, Inductive, PTL

(* A step that writes a configuration slot writes one nobody reads.        *)
LEMMA StepStable ==
  ASSUME IInv, [Next]_vars, NEW s \in Slot, slots'[s] # slots[s]
  PROVE  ~InUse(s)
<1>1. CASE \E c \in Cfgs : LoadNext(c)
  BY <1>1 DEF LoadNext, IInv, ReloadInv, SlotInv, Alive, Handling, InUse, Slot
<1>2. CASE Blanked \/ Start
  BY <1>2 DEF Blanked, Start, IInv, ThreadInv, ReloadInv, InUse
<1>3. CASE UNCHANGED slots
  BY <1>3
<1> QED
  <2>1. Next \/ UNCHANGED vars
    OBVIOUS
  <2>2. CASE UNCHANGED vars
    BY <2>2, <1>3 DEF vars, rtVars
  <2>3. CASE MainStep
    BY <2>3, <1>1, <1>2, <1>3 DEF MainStep, CheckProfile, StopFlag,
       ReloadShutdown, Join, LoadFails, LoadFirst, Compare, Restart,
       ReloadChecks, WorkersNotReady, QueueReload, ReloadReturns,
       ReloadTimesOut, Leave, rtVars
  <2>4. CASE ThreadStep
    BY <2>4, <1>3 DEF ThreadStep, InitBegins, InitPasses, InitFails, InitEnds,
       CheckStop, RunBegins, RunFails, RunEnds, JoinCrashes, rtVars
  <2>5. CASE ApplyStep
    BY <2>5, <1>3 DEF ApplyStep, ApplyBegins, ApplyAborts, ApplyInstalls,
       ApplyRebuilds, ApplyClears, ApplyAnswers, rtVars
  <2>6. CASE Signal \/ \E p \in Profiles : Notify(p)
    BY <2>6, <1>3 DEF Signal, Notify, rtVars
  <2> QED
    BY <2>1, <2>2, <2>3, <2>4, <2>5, <2>6 DEF Next

(* Main never writes the configuration slot that the dataplane, or a       *)
(* reload in progress, is reading through fwd->cfg.                        *)
THEOREM ConfigStable == Spec => LiveCfgStable
<1>1. IInv /\ [Next]_vars => [\A s \in Slot : slots'[s] # slots[s] => ~InUse(s)]_vars
  BY StepStable
<1> QED
  BY <1>1, Inductive, PTL DEF Spec, LiveCfgStable
=============================================================================
