---------------------------- MODULE CryptoRuntime ----------------------------
(***************************************************************************)
(* src/core/forwarder/crypto_runtime.c and the key part of                 *)
(* src/crypto/common/packet_crypto.c, on top of the bindings: the packet   *)
(* contexts of the policies in configuration order, the copies the         *)
(* dataplane workers take of them whenever the generation has moved, the   *)
(* snapshot that serves a removed policy during the reload grace, and the  *)
(* clock that asks for a new key when the current one is too old.          *)
(*                                                                         *)
(* Every critical section of policy_crypto_lock is one step, except the    *)
(* rebuild: the packet path reads the indexes it resets without the lock.  *)
(* A policy's wire id is its database id.                                  *)
(***************************************************************************)
EXTENDS PqcBinding

CONSTANT Worker     \* the dataplane's crypto workers

VARIABLES
    ctx,     \* policy_crypto_ctx and policy_crypto_ready
    index,   \* policy_index_by_wire_id; None is -1
    old,     \* the prev_ copies: contexts, indexes, grace
    behind,  \* the workers whose generation is not policy_crypto_generation
    mine,    \* each worker's copies of the contexts
    look,    \* each worker's lookup: none, or begun with the slot it found
    tick,    \* the lifetime tick: requests it still has to make
    gone     \* history: PREV keys discarded on both sides
cvars == <<ctx, index, old, behind, mine, look, tick, gone>>
vars == <<bvars, cvars>>

Slot == 1..Cardinality(Policy)
EmptyCtx == [pol |-> None, ready |-> FALSE, cur |-> None, prev |-> None, next |-> None,
             timed |-> None, sent |-> FALSE]
NoCtx == [i \in Slot |-> EmptyCtx]
NoIndex == [p \in Policy |-> None]
NoOld == [ctx |-> NoCtx, index |-> NoIndex, grace |-> FALSE]
NoLook == [at |-> "none"]
NoCopy == [ctx |-> NoCtx, old |-> NoCtx]

Init ==
    /\ InitBindings
    /\ ctx = NoCtx /\ index = NoIndex /\ old = NoOld
    /\ behind = Worker
    /\ mine = [w \in Worker |-> NoCopy]
    /\ look = [w \in Worker |-> NoLook]
    /\ tick = [at |-> "idle", asks |-> <<>>]
    /\ gone = {}

Keys(c) == {c.cur, c.prev, c.next} \ {None}

\* The generation is only ever compared with the one a worker copied at.
\* policy_crypto_lock is held across steps by the rebuild alone.
Unlocked == ctl.at # "fill"
Publish == behind' = Worker

-----------------------------------------------------------------------------
\* The keys of a context follow its binding.

\* ne_pqc_start_lifetime_clock
StaysSent(c) == [c EXCEPT !.timed = c.cur]
StartClock(c) == [c EXCEPT !.timed = c.cur, !.sent = FALSE]

\* ne_pqc_on_key_material
OnKeyMaterial(c) == IF c.cur = c.timed /\ c.cur # None THEN c ELSE StartClock(c)

\* packet_crypto_refresh_pqc_keys: a policy without a binding keeps the keys
\* it has.
Refreshed(c) ==
    IF c.pol # None /\ b[c.pol].known
    THEN OnKeyMaterial([c EXCEPT !.cur = b[c.pol].cur, !.prev = b[c.pol].prev, !.next = b[c.pol].next])
    ELSE OnKeyMaterial(c)

RefreshAll ==
    /\ ctx' = [i \in Slot |-> IF ctx[i].ready THEN Refreshed(ctx[i]) ELSE ctx[i]]
    /\ Publish

\* forwarder_pre_diversify_pqc_keys: a worker with news refreshes every
\* context of its profile.
Tell(p) ==
    /\ wk[p].at = "tell" /\ Unlocked /\ At(p, "run")
    /\ RefreshAll
    /\ UNCHANGED <<b, ctl, used, index, old, mine, look, tick, gone>>

\* fwd_crypto_discard_pqc_prev_key, under policy_crypto_lock: PREV leaves the
\* context, and only then, if it was there, the binding.
HasPrev(i, p) == ctx[i].ready /\ ctx[i].pol = p /\ ctx[i].prev # None
DiscardQuietly(p) ==
    /\ ctx' = [i \in Slot |-> IF HasPrev(i, p) THEN [ctx[i] EXCEPT !.prev = None] ELSE ctx[i]]
    /\ UNCHANGED behind
DiscardMaster(p) ==
    /\ ctx' = [i \in Slot |-> IF HasPrev(i, p) THEN [ctx[i] EXCEPT !.prev = None] ELSE ctx[i]]
    /\ IF \E i \in Slot : HasPrev(i, p) THEN Publish ELSE UNCHANGED behind

Wipe(p) ==
    /\ wk[p].at = "wipe" /\ Unlocked
    /\ At(p, IF \E i \in Slot : HasPrev(i, p) THEN "forget" ELSE "run")
    /\ DiscardMaster(p)
    /\ UNCHANGED <<b, ctl, used, index, old, mine, look, tick, gone>>

\* The key counts as gone unless a refresh between the halves brought it back.
ForgetPrev(p) ==
    /\ Forget(p)
    /\ gone' = gone \cup ({b[p].prev} \ ({None} \cup UNION {Keys(ctx[i]) : i \in Slot}))
    /\ UNCHANGED <<ctx, index, old, behind, mine, look, tick>>

-----------------------------------------------------------------------------
\* forwarder_init and forwarder_reload_config_impl, after the load.

FirstOf == IF ctl.up THEN "start" ELSE "reset"
LoadDone ==
    /\ ctl.at = "finalize" /\ ctl.todo = <<>>
    /\ GoTo(IF ctl.cfg = <<>> THEN "idle" ELSE FirstOf)
    /\ UNCHANGED <<b, wk, used>> /\ UNCHANGED cvars

\* pqc_handshake_start_all_profiles: before the rebuild in a reload, after it
\* at the start of a runtime.
StartAll ==
    /\ ctl.at = "start" /\ HandshakeStart
    /\ GoTo(IF ctl.up THEN "snapshot" ELSE "sync")
    /\ UNCHANGED <<b, used>> /\ UNCHANGED cvars

\* The dataplane's threads run: fwd_crypto_sync_pqc_session_keys.
SyncSessionKeys ==
    /\ ctl.at = "sync" /\ ctl' = [ctl EXCEPT !.at = "idle", !.up = TRUE]
    /\ RefreshAll
    /\ UNCHANGED <<b, wk, used, index, old, mine, look, tick, gone>>

\* Lookups begun before the switch of a reload, from its snapshot to the end
\* of its rebuild, and not over yet.
Dirty == [w \in Worker |-> IF look[w].at = "begun" THEN [look[w] EXCEPT !.clean = FALSE] ELSE look[w]]

\* fwd_crypto_snapshot_active_to_prev
Snapshot ==
    /\ ctl.at = "snapshot" /\ GoTo("reset")
    /\ old' = [ctx |-> ctx, index |-> index, grace |-> \E i \in Slot : ctx[i].ready]
    /\ Publish
    /\ look' = Dirty
    /\ UNCHANGED <<b, wk, used, ctx, index, mine, tick, gone>>

\* fwd_crypto_rebuild takes the lock and resets; the contexts' bytes stay.
RebuildReset ==
    /\ ctl.at = "reset" /\ GoTo("fill")
    /\ index' = NoIndex
    /\ ctx' = [i \in Slot |-> [ctx[i] EXCEPT !.ready = FALSE]]
    /\ look' = Dirty
    /\ UNCHANGED <<b, wk, used, old, behind, mine, tick, gone>>

\* One context per policy of the new configuration: the old context of that
\* policy if there was one, then its keys; then the generation, the unlock.
\* (The flags reset before: ctx still tells whose context each slot was.)
Reused(p) ==
    IF \E i \in Slot : ctx[i].pol = p
    THEN ctx[CHOOSE i \in Slot : ctx[i].pol = p]
    ELSE [EmptyCtx EXCEPT !.pol = p]
Rebuilt(c) ==
    [i \in Slot |-> IF i <= Len(c) THEN [Refreshed(Reused(c[i].pol)) EXCEPT !.ready = TRUE]
                    ELSE EmptyCtx]
\* policy_index_by_wire_id of a configuration.
IndexOf(c) ==
    [p \in Policy |-> IF \E i \in 1..Len(c) : c[i].pol = p
                      THEN CHOOSE i \in 1..Len(c) : c[i].pol = p ELSE None]

RebuildUnpublished ==
    /\ ctx' = Rebuilt(ctl.cfg) /\ index' = IndexOf(ctl.cfg)
    /\ UNCHANGED behind
Rebuild ==
    /\ ctx' = Rebuilt(ctl.cfg) /\ index' = IndexOf(ctl.cfg)
    /\ Publish

\* At the start of a runtime fwd_crypto_reset_on_init follows.
RebuildFill ==
    /\ ctl.at = "fill" /\ GoTo(IF ctl.up THEN "idle" ELSE "start")
    /\ Rebuild
    /\ old' = IF ctl.up THEN old ELSE [old EXCEPT !.index = NoIndex, !.grace = FALSE]
    /\ look' = Dirty
    /\ UNCHANGED <<b, wk, used, mine, tick, gone>>

\* fwd_crypto_maybe_expire_prev_grace
GraceEnds ==
    /\ old.grace /\ old' = [old EXCEPT !.grace = FALSE]
    /\ UNCHANGED bvars /\ UNCHANGED <<ctx, index, behind, mine, look, tick, gone>>

\* The runtime stops: its workers are joined, the next ones start afresh.
GoBlank ==
    /\ Blank
    /\ \A w \in Worker : look[w].at # "begun"
    /\ mine' = [w \in Worker |-> NoCopy] /\ behind' = Worker
    /\ UNCHANGED <<ctx, index, old, look, tick, gone>>

-----------------------------------------------------------------------------
\* A dataplane worker needs the context of a policy.

\* fwd_crypto_ctx_for_wire_id: the index and the ready flag, without the lock.
Found(p) ==
    IF index[p] # None /\ ctx[index[p]].ready THEN [slot |-> index[p], prev |-> FALSE]
    ELSE IF old.grace /\ old.index[p] # None /\ old.ctx[old.index[p]].ready THEN [slot |-> old.index[p], prev |-> TRUE]
    ELSE [slot |-> None, prev |-> FALSE]

Looking(w, p, f) ==
    /\ look[w].at # "begun" /\ ctl.up /\ Event
    /\ f.slot # None
    /\ look' = [look EXCEPT ![w] = [at |-> "begun", pol |-> p, slot |-> f.slot, prev |-> f.prev,
                                    clean |-> ctl.at \notin {"snapshot", "reset", "fill"}, gone |-> gone]]
    /\ UNCHANGED <<b, wk, ctl, ctx, index, old, behind, mine, tick, gone>>

LookByWireId(w, p) == Looking(w, p, Found(p))

\* fwd_crypto_policy_ctx: the sender's policy index comes from fwd->cfg, which
\* a reload has replaced by the time it starts the handshakes.
LookByMatch(w, p) ==
    LET i == IndexOf(ctl.cfg)[p]
    IN /\ ctl.at \in {"idle", "snapshot", "reset", "fill"}
       /\ Looking(w, p, [slot |-> IF i # None /\ ctx[i].ready THEN i ELSE None, prev |-> FALSE])

\* policy_crypto_sync_worker
Synced(w) ==
    IF w \in behind THEN [ctx |-> ctx, old |-> old.ctx] ELSE mine[w]

\* policy_crypto_ctx_for_worker
Got(w) == IF look[w].prev THEN Synced(w).old[look[w].slot] ELSE Synced(w).ctx[look[w].slot]
Use(w) ==
    /\ look[w].at = "begun" /\ (w \in behind => Unlocked)
    /\ mine' = [mine EXCEPT ![w] = Synced(w)] /\ behind' = behind \ {w}
    /\ look' = [look EXCEPT ![w] = NoLook]
    /\ UNCHANGED bvars /\ UNCHANGED <<ctx, index, old, tick, gone>>

-----------------------------------------------------------------------------
\* fwd_crypto_pqc_key_lifetime_tick: the contexts whose key is too old and
\* not asked for yet; the requests are made after the unlock.

Overdue == {i \in Slot : ctx[i].ready /\ ctx[i].timed # None /\ ~ctx[i].sent}
LifetimeTick ==
    /\ ctl.up /\ Unlocked /\ tick.at = "idle" /\ Event
    /\ \E E \in (SUBSET Overdue) \ {{}} :
          /\ ctx' = [i \in Slot |-> [ctx[i] EXCEPT !.sent = @ \/ i \in E]]
          /\ tick' = [at |-> "ask",
                      asks |-> [k \in 1..Cardinality(E) |->
                                  LET c == ctx[SetToSeq(E)[k]] IN [pol |-> c.pol, key |-> c.timed]]]
    /\ UNCHANGED <<b, wk, ctl, index, old, behind, mine, look, gone>>

NextAsk == [at |-> IF Len(tick.asks) = 1 THEN "idle" ELSE "ask", asks |-> Tail(tick.asks)]

TickAsks ==
    /\ tick.at = "ask"
    /\ LET p == Head(tick.asks).pol
       IN /\ RequestNewSession(p)
          /\ tick' = IF RequestTaken(p) THEN NextAsk ELSE [tick EXCEPT !.at = "rearm"]
    /\ UNCHANGED <<wk, ctl, used, ctx, index, old, behind, mine, look, gone>>

\* Refused: the same key may be asked for again.
TickRearms ==
    /\ tick.at = "rearm" /\ Unlocked
    /\ LET a == Head(tick.asks)
       IN ctx' = [i \in Slot |-> IF ctx[i].ready /\ ctx[i].pol = a.pol /\ ctx[i].timed = a.key
                                 THEN [ctx[i] EXCEPT !.sent = FALSE] ELSE ctx[i]]
    /\ tick' = NextAsk
    /\ UNCHANGED bvars /\ UNCHANGED <<index, old, behind, mine, look, gone>>

-----------------------------------------------------------------------------
BindingStep ==
    /\ \/ LoadStep \/ Supervise
       \/ \E p \in Policy :
             \/ WorkerCopies(p) \/ WorkerFails(p) \/ WorkerPromotes(p) \/ WorkerStages(p)
             \/ WorkerDiscards(p) \/ WorkerExits(p) \/ TriggerRetry(p)
    /\ UNCHANGED cvars

Next ==
    \/ BindingStep
    \/ \E p \in Policy : Tell(p) \/ Wipe(p) \/ ForgetPrev(p)
    \/ LoadDone \/ StartAll \/ SyncSessionKeys \/ Snapshot \/ RebuildReset \/ RebuildFill
    \/ GraceEnds \/ GoBlank
    \/ \E w \in Worker, p \in Policy : LookByWireId(w, p) \/ LookByMatch(w, p)
    \/ \E w \in Worker : Use(w)
    \/ LifetimeTick \/ TickAsks \/ TickRearms

Spec == Init /\ [][Next]_vars

-----------------------------------------------------------------------------
TypeOK ==
    /\ BindingTypeOK
    /\ \A i \in Slot : Keys(ctx[i]) \subseteq 1..MaxKey /\ ctx[i].pol \in Policy \cup {None}
    /\ index \in [Policy -> {None} \cup Slot]
    /\ behind \subseteq Worker
    /\ \A w \in Worker : look[w].at \in {"none", "begun"}
    /\ tick.at \in {"idle", "ask", "rearm"} /\ (tick.at = "idle" <=> tick.asks = <<>>)
    /\ gone \subseteq 1..MaxKey

(* A packet never meets another policy's keys: the context a worker ends   *)
(* up with belongs to the policy it looked up, although it finds the slot  *)
(* without the lock and reads a copy of its own, and whatever reloads,     *)
(* handshakes and discards came before (crypto_runtime.c,                  *)
(* fwd_crypto_ctx_for_wire_id).  Lookups that overlap a reload's switch    *)
(* are the exception the README describes.                                 *)
ContextOfItsPolicy ==
    [][\A w \in Worker : Use(w) /\ look[w].clean => Got(w).pol = look[w].pol]_vars

(* Once a PREV key has been discarded from the runtime and from its        *)
(* binding, no packet of a configured policy looked up afterwards can be   *)
(* opened with it: the generation reaches the workers' copies, and neither *)
(* a refresh nor a rebuild brings it back (crypto_runtime.c,               *)
(* fwd_crypto_discard_pqc_prev_key).  The snapshot that serves a removed   *)
(* policy keeps, until the grace is over, the keys of the reload.          *)
DiscardedUnused ==
    [][\A w \in Worker : Use(w) /\ look[w].clean /\ ~look[w].prev => Keys(Got(w)) \cap look[w].gone = {}]_vars

(* A key whose lifetime has run out is not forgotten: while its context    *)
(* says the new key has been asked for, the tick is still asking, the      *)
(* binding remembers the request, or the key is on its way out (a          *)
(* handshake runs, or has already replaced it) (crypto_runtime.c,          *)
(* fwd_crypto_pqc_key_lifetime_tick).                                      *)
ExpiryIsPursued ==
    \A i \in Slot : ctx[i].ready /\ ctx[i].sent =>
        LET r == b[ctx[i].pol]
        IN \/ \E k \in 1..Len(tick.asks) : tick.asks[k].pol = ctx[i].pol
           \/ r.rekey \/ ~r.ready \/ r.cur # ctx[i].timed

=============================================================================
