------------------------------ MODULE WanSched ------------------------------
(***************************************************************************)
(* Which WAN carries a packet (wan_scheduler.c, wan_admin.c, the WAN part  *)
(* of a hot reload in config_reload.c and profile_lifecycle.c, and the CFM *)
(* links as wan_failover.c reads them).                                    *)
(*                                                                         *)
(* WANs have two names: their index in the configuration, and the          *)
(* dataplane slot they got when the forwarder was initialised or when a    *)
(* reload attached them.  TX slot 0 applies reloads and runs the           *)
(* maintenance tick, and main kicks and restores WANs, all under           *)
(* runtime_lock, held here exactly while rpc is not "idle".  The senders   *)
(* (crypto workers, and LAN RX threads for bypassed traffic) build a pool, *)
(* pick from it and push to the WAN's ring without the lock, and the TX    *)
(* threads empty the rings.                                                *)
(*                                                                         *)
(* Time is kept as ages: ticks since a drain, blend or ramp began, up to   *)
(* Grace, which stands for FORWARDER_WAN_DRAIN_SEC.                        *)
(***************************************************************************)
EXTENDS Integers, Sequences, FiniteSets, FiniteSetsExt, SequencesExt

CONSTANTS
  Wans,       \* number of WANs in the configuration
  Cfgs,       \* configurations: [live, weight], functions of the WANs
  Grace,      \* ticks a drain, a blend or a ramp takes
  Sender,     \* threads that run dataplane_process_local
  RingCap,    \* datagrams the rings of a WAN hold
  Kickable,   \* bound: WANs the administrator kicks and restores
  Unsteady,   \* bound: WANs whose CFM link changes state
  Budgets     \* bounds: how many reloads, kicks and restores, link changes
              \* and datagrams there may be together

Wan == 0..(Wans - 1)
Dp == 0..(Wans - 1)      \* dataplane slots; at most one per WAN is used
NoDp == -1
NoAge == -1
Age == 0..Grace

Budget == [reloads : Nat, kicks : Nat, flaps : Nat, datagrams : Nat]

ASSUME WanSchedAssumption ==
  /\ Wans \in Nat \ {0} /\ Grace \in Nat \ {0}
  /\ Cfgs \subseteq [live : [Wan -> BOOLEAN], weight : [Wan -> Nat]]
  /\ IsFiniteSet(Sender) /\ RingCap \in Nat
  /\ Kickable \subseteq Wan /\ Unsteady \subseteq Wan
  /\ Budgets \subseteq Budget

VARIABLES
  cfg,      \* fwd->cfg
  cfgIdx,   \* fwd->wan_cfg_idx
  count,    \* fwd->wan_count: slots in use
  usable,   \* wan_active_dp_count
  drain,    \* wan_drains: age, WAN and seed weight of each slot's drain
  stopped,  \* wan_stopped, as a set
  hold,     \* wan_admin_hold, as a set
  join,     \* wan_joins: age of each WAN's ramp
  blend,    \* wan_weight_blends[0]: age, old and new weights
  linkDp,   \* g_links: the slot each WAN's CFM link claims, NoDp without link
  linkUp,   \* g_links: is_up
  rpc,      \* where the holder of runtime_lock stands
  flushed,  \* the slots it has flushed and is about to close
  other,    \* the configuration it applies, then the one it replaced
  wpc,      \* where each sender stands in dataplane_process_local
  pool,     \* the WANs of the pool it built
  target,   \* the slot its datagram is to go to
  queued,   \* mid_to_wan: datagrams in each slot's rings
  late,     \* history: who put one there since the slot's flags last
            \* changed, although they were against it
  left      \* bound: what is left of the budget there was

slotVars == <<cfgIdx, count, usable>>
linkVars == <<linkDp, linkUp>>
lockVars == <<rpc, flushed>>
pickVars == <<wpc, pool, target>>
sendVars == <<pickVars, queued, late>>
vars == <<cfg, slotVars, drain, stopped, hold, join, blend, linkVars, lockVars, other, sendVars,
          left>>

NoDrain == [age |-> NoAge, wan |-> 0, seed |-> 0]
NoBlend == [age |-> NoAge, old |-> [w \in Wan |-> 0], new |-> [w \in Wan |-> 0]]

----------------------------------------------------------------------------
(* Slots and links.                                                        *)

Live(c) == {w \in Wan : c.live[w]}

(* config_wan_cfg_to_dp: the slot a WAN gets in a dataplane that starts    *)
(* with this configuration.                                                *)
CfgToDp(c, w) == Cardinality({v \in Live(c) : v < w})

(* config_wan_dp_to_cfg for the slots in use; forwarder_init zeroes the    *)
(* others.                                                                 *)
DpToCfg(c) ==
  [d \in Dp |-> IF d < Cardinality(Live(c))
                  THEN CHOOSE w \in Live(c) : CfgToDp(c, w) = d ELSE 0]

(* cfm_init: a link for every WAN on the dataplane, up until proved down.  *)
Links(c) == [w \in Wan |-> IF c.live[w] THEN CfgToDp(c, w) ELSE NoDp]

(* cfm_link_is_down looks a link up by its slot, first one first.          *)
Excluded(d) ==
  LET claim == {w \in Wan : linkDp[w] = d}
  IN  claim # {} /\ ~linkUp[Min(claim)]

(* fwd_wan_dp_ok_for_new_traffic reads wan_stopped and wan_admin_hold, and *)
(* then the drain, the link and the number of slots.                       *)
Open(d) == d \notin stopped /\ d \notin hold
Steady(d) == drain[d].age = NoAge /\ ~Excluded(d) /\ d < usable

Ok(d) == Open(d) /\ Steady(d)

(* fwd_wan_live_dp_for_cfg.                                                *)
SlotsOf(w) == {d \in 0..(count - 1) : cfgIdx[d] = w}

LiveDp(w) ==
  IF SlotsOf(w) # {} /\ Ok(Min(SlotsOf(w))) THEN Min(SlotsOf(w)) ELSE NoDp

Init ==
  /\ cfg \in Cfgs
  /\ cfgIdx = DpToCfg(cfg) /\ count = Cardinality(Live(cfg)) /\ usable = count
  /\ drain = [d \in Dp |-> NoDrain] /\ stopped = {} /\ hold = {}
  /\ join = [w \in Wan |-> NoAge] /\ blend = NoBlend
  /\ linkDp = Links(cfg) /\ linkUp = [w \in Wan |-> TRUE]
  /\ rpc = "idle" /\ flushed = {} /\ other = cfg
  /\ wpc = [k \in Sender |-> "idle"] /\ pool = [k \in Sender |-> {}]
  /\ target = [k \in Sender |-> NoDp]
  /\ queued = [d \in Dp |-> 0] /\ late = [d \in Dp |-> {}]
  /\ left \in Budgets

----------------------------------------------------------------------------
(* The pool.                                                               *)

Percent(age) == (age * 100) \div Grace

Least1(n) == IF n > 0 THEN n ELSE 1

(* profile_wan_weight_blended: old to new over the grace period.           *)
Base(w) ==
  IF cfg.weight[w] = 0 \/ blend.age = NoAge THEN cfg.weight[w]
  ELSE Least1((blend.old[w] * (100 - Percent(blend.age))
               + blend.new[w] * Percent(blend.age)) \div 100)

(* Mutant of Ramping: a WAN without a ramp counts as one at 0 percent.     *)
RampingNone(w) == join[w] = NoAge \/ Percent(join[w]) = 0

(* A WAN whose join ramp is still at 0 percent is dead.                    *)
Ramping(w) == join[w] # NoAge /\ Percent(join[w]) = 0

Weighted == {w \in Wan : Base(w) > 0}
Serving == {w \in Weighted : LiveDp(w) # NoDp /\ ~Ramping(w)}

Scaled(w) ==
  IF join[w] # NoAge /\ Percent(join[w]) < 100
    THEN Least1((Base(w) * Percent(join[w])) \div 100) ELSE Base(w)

DeadWeight == MapThenSumSet(Base, Weighted \ Serving)

Ordered(S) ==
  CHOOSE s \in [1..Cardinality(S) -> S] : \A i, j \in DOMAIN s : i < j => s[i] < s[j]

(* Mutant of Share: the remainder of the division is lost.                 *)
ShareFloor(dead, i, n) == dead \div n

(* What the i-th of n serving WANs gets of the dead ones' weight.          *)
Share(dead, i, n) == (dead \div n) + (IF i <= dead % n THEN 1 ELSE 0)

Living ==
  LET s == Ordered(Serving)
      dead == DeadWeight
  IN  [i \in DOMAIN s |-> [wan |-> s[i], weight |-> Scaled(s[i]) + Share(dead, i, Len(s))]]

Taper(d) == IF drain[d].age = NoAge THEN 0 ELSE Percent(Grace - drain[d].age)

Draining == {d \in 0..(count - 1) : d \notin stopped /\ Taper(d) > 0}

Leaving ==
  LET s == Ordered(Draining)
  IN  [i \in DOMAIN s |->
         [wan |-> drain[s[i]].wan,
          weight |-> Least1((drain[s[i]].seed * Taper(s[i])) \div 100)]]

(* fwd_wan_build_profile_pool.                                             *)
BuildPool == Living \o Leaving

----------------------------------------------------------------------------
(* A sender k: dataplane_process_local, with fwd_wan_pick_for_local.  It   *)
(* holds no lock, so the flags may change between any two of its steps.    *)

unsent == <<cfg, slotVars, drain, stopped, hold, join, blend, linkVars, lockVars, other>>

PickBegin(k) ==
  /\ wpc[k] = "idle" /\ count > 0 /\ left.datagrams > 0
  /\ left' = [left EXCEPT !.datagrams = @ - 1]
  /\ pool' = [pool EXCEPT ![k] = {e.wan : e \in Range(BuildPool)}]
  /\ wpc' = [wpc EXCEPT ![k] = "pool"]
  /\ UNCHANGED <<unsent, target, queued, late>>

(* fwd_wan_dp_for_legacy_cfg.                                              *)
LegacyDp(w) ==
  LET d == {x \in Draining : drain[x].wan = w} IN IF d # {} THEN Min(d) ELSE NoDp

(* The slot for the WAN the flow table chose (any WAN of the pool; module  *)
(* FlowTable says how often), then the first half of its last check: slot  *)
(* 0 when there is none, whatever slot 0 may be.                           *)
Scheduled(w) ==
  LET d == IF LiveDp(w) # NoDp THEN LiveDp(w) ELSE LegacyDp(w)
  IN  IF d # NoDp /\ Open(d) THEN d ELSE 0

PickSlot(k) ==
  /\ wpc[k] = "pool"
  /\ \E d \in IF pool[k] = {} THEN {0} ELSE {Scheduled(w) : w \in pool[k]} :
       target' = [target EXCEPT ![k] = d]
  /\ pool' = [pool EXCEPT ![k] = {}] /\ wpc' = [wpc EXCEPT ![k] = "check"]
  /\ UNCHANGED <<unsent, left, queued, late>>

(* Mutant of PickCheck: what LiveDp or LegacyDp found is not checked.      *)
PickCheckNone(k) ==
  /\ wpc[k] = "check" /\ wpc' = [wpc EXCEPT ![k] = "room"]
  /\ UNCHANGED <<unsent, left, pool, target, queued, late>>

(* The second half of the check.                                           *)
PickCheck(k) ==
  /\ wpc[k] = "check" /\ wpc' = [wpc EXCEPT ![k] = "room"]
  /\ target' = [target EXCEPT ![k] = IF Steady(@) THEN @ ELSE 0]
  /\ UNCHANGED <<unsent, left, pool, queued, late>>

(* The other WANs of the profile a full ring may give way to, as far as    *)
(* the first half of fwd_wan_live_dp_for_cfg lets them pass.               *)
Others == {d \in {Min(SlotsOf(w)) : w \in {v \in Wan : cfg.weight[v] > 0 /\ SlotsOf(v) # {}}} :
             Open(d)}

(* pick_least_loaded_wan: the slot's ring has room; or it has none and the *)
(* shallowest ring that has is another one, any of them here; or the       *)
(* datagram is dropped, here or by the policy or the encryption later on.  *)
PickRoom(k) ==
  /\ wpc[k] = "room"
  /\ \/ wpc' = [wpc EXCEPT ![k] = "push"] /\ UNCHANGED target
     \/ \E d \in Others :
          wpc' = [wpc EXCEPT ![k] = "other"] /\ target' = [target EXCEPT ![k] = d]
     \/ wpc' = [wpc EXCEPT ![k] = "idle"] /\ target' = [target EXCEPT ![k] = NoDp]
  /\ UNCHANGED <<unsent, left, pool, queued, late>>

(* The second half of fwd_wan_live_dp_for_cfg for the other WAN.           *)
PickOther(k) ==
  /\ wpc[k] = "other"
  /\ LET ok == Steady(target[k])
     IN  /\ wpc' = [wpc EXCEPT ![k] = IF ok THEN "push" ELSE "idle"]
         /\ target' = [target EXCEPT ![k] = IF ok THEN @ ELSE NoDp]
  /\ UNCHANGED <<unsent, left, pool, queued, late>>

(* push_to_wan, push_split_to_wan: by now the slot may be closed.  A full  *)
(* ring drops the datagram.                                                *)
PushWan(k) ==
  /\ wpc[k] = "push"
  /\ LET d == target[k]
     IN  IF queued[d] < RingCap
           THEN /\ queued' = [queued EXCEPT ![d] = @ + 1]
                /\ late' = IF Ok(d) THEN late ELSE [late EXCEPT ![d] = @ \cup {k}]
           ELSE UNCHANGED <<queued, late>>
  /\ wpc' = [wpc EXCEPT ![k] = "idle"] /\ target' = [target EXCEPT ![k] = NoDp]
  /\ UNCHANGED <<unsent, left, pool>>

(* A TX thread sends one, passing over the slots that are stopped or held. *)
Send(d) ==
  /\ d < count /\ Open(d) /\ queued[d] > 0
  /\ queued' = [queued EXCEPT ![d] = @ - 1]
  /\ UNCHANGED <<unsent, left, pickVars, late>>

(* The history of a slot whose flags change begins afresh.                 *)
Flags(d) == <<d \in stopped, d \in hold, drain[d].age = NoAge, Excluded(d), d < usable>>

Remember == late' = [d \in Dp |-> IF Flags(d)' = Flags(d) THEN late[d] ELSE {}]

----------------------------------------------------------------------------
(* TX slot 0: a hot reload, and the maintenance tick.                      *)

(* fwd_wan_configure_live_drains: a drain that runs already goes on, even  *)
(* if the WAN is back in the configuration.                                *)
ReloadDrains(c) ==
  /\ rpc = "idle" /\ left.reloads > 0 /\ c # cfg
  /\ drain' = [d \in Dp |->
       LET w == cfgIdx[d]
       IN  IF /\ d < count /\ w \in Wan /\ cfg.live[w] /\ ~c.live[w]
              /\ drain[d].age = NoAge /\ d \notin stopped
             THEN [age |-> 0, wan |-> w, seed |-> Least1(cfg.weight[w])]
             ELSE drain[d]]
  /\ other' = c /\ rpc' = "sync" /\ left' = [left EXCEPT !.reloads = @ - 1]
  /\ UNCHANGED <<cfg, slotVars, stopped, hold, join, blend, linkVars, flushed, pickVars, queued>>
  /\ Remember

Missing == Ordered({w \in Live(other) : SlotsOf(w) = {}})

(* profile_iface_xdp_sync_wan_live: WANs without a slot get the next ones. *)
ReloadAttach ==
  /\ rpc = "sync"
  /\ LET new == count..(count + Len(Missing) - 1)
     IN  /\ cfgIdx' = [d \in Dp |-> IF d \in new THEN Missing[d - count + 1] ELSE cfgIdx[d]]
         /\ stopped' = stopped \ new
  /\ count' = count + Len(Missing)
  /\ rpc' = "install"
  /\ UNCHANGED <<cfg, usable, drain, hold, join, blend, linkVars, flushed, other, pickVars, queued,
                 left>>
  /\ Remember

(* One of them fails: those attached before it are rolled back.  Main then *)
(* stops the dataplane.                                                    *)
ReloadFails ==
  /\ rpc = "sync"
  /\ \E n \in 0..(Len(Missing) - 1) :
       LET undone == count..(count + n - 1)
       IN  /\ cfgIdx' = [d \in Dp |-> IF d \in undone THEN -1 ELSE cfgIdx[d]]
           /\ stopped' = stopped \cup undone
  /\ rpc' = "failed"
  /\ UNCHANGED <<cfg, count, usable, drain, hold, join, blend, linkVars, flushed, other, pickVars,
                 queued, left>>
  /\ Remember

ReloadInstall ==
  /\ rpc = "install"
  /\ cfg' = other /\ other' = cfg
  /\ rpc' = "blend"
  /\ UNCHANGED <<slotVars, drain, stopped, hold, join, blend, linkVars, flushed, sendVars, left>>

(* fwd_wan_weight_blend_begin: a new blend ends the one before it.         *)
ReloadBlend ==
  /\ rpc = "blend"
  /\ blend' = IF cfg.weight = other.weight THEN [blend EXCEPT !.age = NoAge]
              ELSE [age |-> 0, old |-> other.weight, new |-> cfg.weight]
  /\ rpc' = "links"
  /\ UNCHANGED <<cfg, slotVars, drain, stopped, hold, join, linkVars, flushed, other, sendVars,
                 left>>

(* wan_failover_on_cfg starts CFM afresh.                                  *)
ReloadLinks ==
  /\ rpc = "links"
  /\ linkDp' = Links(cfg) /\ linkUp' = [w \in Wan |-> TRUE]
  /\ rpc' = "idle" /\ other' = cfg
  /\ UNCHANGED <<cfg, slotVars, drain, stopped, hold, join, blend, flushed, pickVars, queued, left>>
  /\ Remember

ReloadStep == ReloadAttach \/ ReloadFails \/ ReloadInstall \/ ReloadBlend \/ ReloadLinks

(* A full restart, after a failure or for a new topology: the threads are  *)
(* gone, forwarder_init starts over, and fwd_wan_reset_on_init clears all  *)
(* but the blend.                                                          *)
Restart(c) ==
  /\ rpc \in {"idle", "failed"} /\ left.reloads > 0
  /\ left' = [left EXCEPT !.reloads = @ - 1]
  /\ cfg' = c /\ other' = c /\ rpc' = "idle"
  /\ cfgIdx' = DpToCfg(c) /\ count' = Cardinality(Live(c)) /\ usable' = Cardinality(Live(c))
  /\ drain' = [d \in Dp |-> NoDrain] /\ stopped' = {} /\ hold' = {}
  /\ join' = [w \in Wan |-> NoAge]
  /\ linkDp' = Links(c) /\ linkUp' = [w \in Wan |-> TRUE]
  /\ wpc' = [k \in Sender |-> "idle"] /\ pool' = [k \in Sender |-> {}]
  /\ target' = [k \in Sender |-> NoDp]
  /\ queued' = [d \in Dp |-> 0] /\ late' = [d \in Dp |-> {}]
  /\ UNCHANGED <<blend, flushed>>

(* Mutant of Due: a drain is over one tick later than the clock gets.      *)
DueLate == {d \in 0..(count - 1) : drain[d].age > Grace}

Due == {d \in 0..(count - 1) : drain[d].age = Grace}

(* fwd_wan_weight_blend_tick and fwd_wan_join_ramp_tick.                   *)
EndRamps ==
  /\ blend' = IF blend.age = Grace THEN [blend EXCEPT !.age = NoAge] ELSE blend
  /\ join' = [w \in Wan |-> IF join[w] = Grace THEN NoAge ELSE join[w]]

(* Mutant of MaintFlush: the rings keep what they hold.                    *)
MaintFlushNone ==
  /\ rpc = "idle" /\ Due # {}
  /\ flushed' = Due /\ rpc' = "maint"
  /\ UNCHANGED <<cfg, slotVars, drain, stopped, hold, join, blend, linkVars, other, sendVars, left>>

(* dp_maint_tick: fwd_wan_drain_tick finds drains that are over, and       *)
(* wan_drain_finish_slot flushes the rings and detaches the port ...       *)
MaintFlush ==
  /\ rpc = "idle" /\ Due # {}
  /\ queued' = [d \in Dp |-> IF d \in Due THEN 0 ELSE queued[d]]
  /\ flushed' = Due /\ rpc' = "maint"
  /\ UNCHANGED <<cfg, slotVars, drain, stopped, hold, join, blend, linkVars, other, pickVars, late,
                 left>>

(* ... and then stops the slot.                                            *)
MaintStop ==
  /\ rpc = "maint"
  /\ stopped' = stopped \cup flushed
  /\ drain' = [d \in Dp |-> IF d \in flushed THEN [drain[d] EXCEPT !.age = NoAge] ELSE drain[d]]
  /\ flushed' = {} /\ rpc' = "idle"
  /\ EndRamps
  /\ UNCHANGED <<cfg, slotVars, hold, linkVars, other, pickVars, queued, left>>
  /\ Remember

(* The tick of dp_maint_tick with no drain that is over.                   *)
MaintTick ==
  /\ rpc = "idle" /\ Due = {}
  /\ EndRamps
  /\ UNCHANGED <<cfg, slotVars, drain, stopped, hold, linkVars, lockVars, other, sendVars, left>>

Maint == MaintFlush \/ MaintTick

----------------------------------------------------------------------------
(* Main: kicks and restores.  CFM and the clock.                           *)

(* The slot an interface name leads to; a name without a slot may match    *)
(* one that was never used, whose wan_cfg_idx is 0.                        *)
NamedDp(w) ==
  LET any == {d \in Dp : cfgIdx[d] = w}
  IN  IF SlotsOf(w) # {} THEN Min(SlotsOf(w)) ELSE IF any # {} THEN Min(any) ELSE NoDp

(* wan_admin_kick flushes the rings ...                                    *)
KickFlush(w) ==
  /\ rpc = "idle" /\ left.kicks > 0 /\ NamedDp(w) \notin hold \cup {NoDp}
  /\ queued' = [queued EXCEPT ![NamedDp(w)] = IF NamedDp(w) < count THEN 0 ELSE @]
  /\ flushed' = {NamedDp(w)} /\ rpc' = "kick" /\ left' = [left EXCEPT !.kicks = @ - 1]
  /\ UNCHANGED <<cfg, slotVars, drain, stopped, hold, join, blend, linkVars, other, pickVars, late>>

(* ... and then holds the slot.                                            *)
KickHold ==
  /\ rpc = "kick"
  /\ hold' = hold \cup flushed
  /\ flushed' = {} /\ rpc' = "idle"
  /\ UNCHANGED <<cfg, slotVars, drain, stopped, join, blend, linkVars, other, pickVars, queued,
                 left>>
  /\ Remember

Restore(w) ==
  /\ rpc = "idle" /\ left.kicks > 0 /\ cfg.live[w] /\ NamedDp(w) \in 0..(count - 1)
  /\ hold' = hold \ {NamedDp(w)} /\ left' = [left EXCEPT !.kicks = @ - 1]
  /\ join' = [join EXCEPT ![w] = 0]
  /\ UNCHANGED <<cfg, slotVars, drain, stopped, blend, linkVars, lockVars, other, pickVars, queued>>
  /\ Remember

(* handle_wan_admin_notify.                                                *)
WanAdmin(w) == KickFlush(w) \/ Restore(w)

(* The link of a WAN goes down or comes back.                              *)
Flap(w) ==
  /\ left.flaps > 0 /\ linkDp[w] # NoDp
  /\ linkUp' = [linkUp EXCEPT ![w] = ~@] /\ left' = [left EXCEPT !.flaps = @ - 1]
  /\ UNCHANGED <<cfg, slotVars, drain, stopped, hold, join, blend, linkDp, lockVars, other,
                 pickVars, queued>>
  /\ Remember

Older(age) == IF age \in {NoAge, Grace} THEN age ELSE age + 1

Tick ==
  /\ drain' = [d \in Dp |-> [drain[d] EXCEPT !.age = Older(@)]]
  /\ join' = [w \in Wan |-> Older(join[w])]
  /\ blend' = [blend EXCEPT !.age = Older(@)]
  /\ UNCHANGED <<cfg, slotVars, stopped, hold, linkVars, lockVars, other, sendVars, left>>

Process(k) ==
  PickBegin(k) \/ PickSlot(k) \/ PickCheck(k) \/ PickRoom(k) \/ PickOther(k) \/ PushWan(k)

Next ==
  \/ \E k \in Sender : Process(k)
  \/ \E d \in Dp : Send(d)
  \/ \E c \in Cfgs : ReloadDrains(c) \/ Restart(c)
  \/ ReloadStep \/ Maint \/ MaintStop
  \/ \E w \in Kickable : WanAdmin(w)
  \/ KickHold
  \/ \E w \in Unsteady : Flap(w)
  \/ Tick

Spec == Init /\ [][Next]_vars

(* TX slot 0 runs its loop, main lets go of the lock once it has it, and   *)
(* the clock advances; nothing else is assumed of main, of the links or of *)
(* the senders.                                                            *)
FairSpec ==
  /\ Spec /\ WF_vars(Maint) /\ WF_vars(MaintStop) /\ WF_vars(ReloadStep) /\ WF_vars(KickHold)
  /\ WF_vars(Tick)

----------------------------------------------------------------------------
(* Every variable keeps its type; a pool never holds a weight of 0.        *)
TypeOK ==
  /\ cfg \in Cfgs /\ other \in Cfgs
  /\ cfgIdx \in [Dp -> Wan \cup {-1}] /\ count \in 0..Wans /\ usable \in 0..Wans
  /\ drain \in [Dp -> [age : Age \cup {NoAge}, wan : Wan, seed : Nat]]
  /\ stopped \subseteq Dp /\ hold \subseteq Dp
  /\ join \in [Wan -> Age \cup {NoAge}]
  /\ blend \in [age : Age \cup {NoAge}, old : [Wan -> Nat], new : [Wan -> Nat]]
  /\ linkDp \in [Wan -> Dp \cup {NoDp}] /\ linkUp \in [Wan -> BOOLEAN]
  /\ rpc \in {"idle", "sync", "install", "blend", "links", "failed", "maint", "kick"}
  /\ flushed \subseteq Dp
  /\ wpc \in [Sender -> {"idle", "pool", "check", "room", "other", "push"}]
  /\ target \in [Sender -> Dp \cup {NoDp}] /\ pool \in [Sender -> SUBSET Wan]
  /\ queued \in [Dp -> 0..RingCap] /\ late \in [Dp -> SUBSET Sender]
  /\ \A e \in Range(BuildPool) : e.weight > 0
  /\ left \in Budget

(* A slot that closes (kicked, draining, stopped, its link down) gets at   *)
(* most one more datagram from each sender, the one it was about, until    *)
(* the slot's flags change again: the pool, the slot and the room a sender *)
(* found may all be out of date when it pushes, but not the ones it finds  *)
(* next.  The exception is the fallback of fwd_wan_pick_for_local, which   *)
(* is slot 0 unconditionally.                                              *)
LateOnce ==
  [][\A k \in Sender, d \in Dp \ {0} :
       /\ wpc[k] = "push" /\ wpc'[k] = "idle" /\ target[k] = d
       /\ queued'[d] > queued[d] /\ ~Ok(d)
       => k \notin late[d]]_vars

(* What the end of a drain or the rollback of a reload leaves behind in    *)
(* rings that no TX thread empties any more is at most two datagrams per   *)
(* sender: one it was about when wan_drain_finish_slot flushed the rings,  *)
(* and one it chose the slot for while wan_drain_finish_slot set           *)
(* wan_stopped and ended the drain.                                        *)
Stranded == \A d \in stopped \ {0} : queued[d] <= 2 * Cardinality(Sender)

TotalOf(p) == FoldSeq(LAMBDA e, t : e.weight + t, 0, p)

(* Bandwidth is redistributed, not lost: once no ramp holds a WAN back,    *)
(* the serving WANs carry all the weight of the configuration, to the last *)
(* unit, with WANs dead, kicked, draining or half way through a blend.     *)
Conserved ==
  Serving # {} /\ (\A w \in Serving : join[w] \in {NoAge, Grace}) =>
    TotalOf(Living) = MapThenSumSet(Base, Weighted)

Configured == {w \in Wan : cfg.weight[w] > 0}

Settled ==
  LET living == Living
  IN  /\ Leaving = <<>>
      /\ {e.wan : e \in Range(living)} = {w \in Configured : LiveDp(w) # NoDp}
      /\ \A e \in Range(living) : e.weight >= cfg.weight[e.wan]
      /\ living # <<>> =>
           TotalOf(living) = MapThenSumSet(LAMBDA w : cfg.weight[w], Configured)

(* After the last reload, kick, restore and link change the pool settles:  *)
(* every WAN that takes traffic is in it with the weight the configuration *)
(* gives it, plus its part of the dead ones'.  No drain, blend or ramp,    *)
(* interrupted or overtaken by the next one, goes on for ever.             *)
Settles == <>[]Settled

(* A drain ends with the WAN stopped, through reloads that bring it back   *)
(* into the configuration; only a failed reload or a restart cuts it short. *)
DrainEnds ==
  \A d \in Dp :
    (drain[d].age # NoAge) ~> (d \in stopped \/ rpc = "failed" \/ drain = [e \in Dp |-> NoDrain])
=============================================================================
