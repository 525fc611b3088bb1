----------------------------- MODULE PqcBinding -----------------------------
(***************************************************************************)
(* The bindings of src/crypto/pqc/pqc_handshake.c: what the process keeps  *)
(* for each encrypting policy (the identity keys it was bound to and its   *)
(* three traffic-key slots), the handshake worker thread of each binding,  *)
(* and how a configuration load (src/db/db_config.c) creates, changes and  *)
(* retires them while the workers run.                                     *)
(*                                                                         *)
(* The exchange with the peer is PqcHandshake's; here a worker promotes or *)
(* stages a key whenever it likes.  An identity stands for the local and   *)
(* the peer's key, the addresses and the role together: bind_policy        *)
(* compares them all and treats any difference alike.                      *)
(***************************************************************************)
EXTENDS Naturals, Sequences, SequencesExt, FiniteSets

CONSTANTS
    Policy,      \* database ids of the encrypting policies, from 1
    First,       \* the configuration the runtime starts with
    Configs,     \* what a load may find: sequences of [pol, id], by priority
    MaxLoad,     \* bound: configuration loads and unloads
    MaxKey,      \* bound: traffic keys the handshakes produce
    MaxEvent     \* bound: troubles (a worker outlasts
                 \* PQC_HS_WORKER_STOP_TIMEOUT_MS, a Vault read or a socket
                 \* fails), manual retries, and what the dataplane does

ASSUME BindingAssumption ==
    /\ Policy \subseteq Nat \ {0} /\ IsFiniteSet(Policy)
    /\ Configs \cup {First} \subseteq Seq([pol : Policy, id : Nat \ {0}])
    /\ \A c \in Configs \cup {First} : \A i, j \in 1..Len(c) : c[i].pol = c[j].pol => i = j
    /\ {MaxLoad, MaxKey, MaxEvent} \subseteq Nat

\* No key in a slot, no identity keys in a binding: the C zeroes and NULLs.
None == 0

VARIABLES
    b,      \* g_policy_bindings and g_policy_bindings_active
    wk,     \* the handshake worker thread of each binding
    ctl,    \* the daemon thread: where its load is, and what is left to do
    used    \* keys, loads and events so far
bvars == <<b, wk, ctl, used>>

\* A slot past g_policy_bindings_count.  kept is a history flag: the running
\* load gave up waiting for this binding's worker and kept the binding.
Unbound ==
    [known |-> FALSE, active |-> FALSE, id |-> None, cur |-> None, prev |-> None,
     next |-> None, ready |-> FALSE, rekey |-> FALSE, exit |-> FALSE,
     kept |-> FALSE]

Started(p) == wk[p].at # "none"
NoWorker == [at |-> "none", id |-> None]

\* First is loaded and its policies are bound; forwarder_init is next.
InitBindings ==
    /\ b = [p \in Policy |->
              IF \E i \in 1..Len(First) : First[i].pol = p
              THEN [Unbound EXCEPT !.known = TRUE, !.active = TRUE,
                                   !.id = First[CHOOSE i \in 1..Len(First) : First[i].pol = p].id]
              ELSE Unbound]
    /\ wk = [p \in Policy |-> NoWorker]
    /\ ctl = [at |-> "reset", todo |-> <<>>, cfg |-> First, up |-> FALSE]
    /\ used = [key |-> 0, load |-> 0, event |-> 0]

Count(f) == used' = [used EXCEPT ![f] = @ + 1]
Event == used.event < MaxEvent /\ Count("event")

-----------------------------------------------------------------------------
\* Starting workers.

\* pqc_start_policy_worker_locked starts nothing for a binding it refuses.
MayStart(p) == ~Started(p) /\ ~b[p].exit /\ b[p].id # None
StartedOf(S) == [p \in Policy |-> IF p \in S /\ MayStart(p) THEN [NoWorker EXCEPT !.at = "new"] ELSE wk[p]]

\* pqc_supervise_l3_workers: the dispatcher's once-a-second check.
Supervise ==
    /\ \E p \in Policy : b[p].active /\ MayStart(p)
    /\ wk' = StartedOf({p \in Policy : b[p].active})
    /\ UNCHANGED <<b, ctl, used>>

\* sig_pqc_handshake_start: every binding of the profile, active or not.
HandshakeStart == wk' = StartedOf({p \in Policy : b[p].known})

-----------------------------------------------------------------------------
\* A worker thread.

At(p, where) == wk' = [wk EXCEPT ![p].at = where]

\* It copies the identity keys; without them it ends at once.
WorkerCopies(p) ==
    /\ wk[p].at = "new"
    /\ wk' = [wk EXCEPT ![p] = IF b[p].id = None THEN NoWorker ELSE [at |-> "run", id |-> b[p].id]]
    /\ UNCHANGED <<b, ctl, used>>

\* No socket: it ends without looking at its stop request.
WorkerFails(p) ==
    /\ wk[p].at = "new" /\ Event
    /\ wk' = [wk EXCEPT ![p] = NoWorker]
    /\ UNCHANGED <<b, ctl>>

\* handle_handshake_success: a fresh key, or the staged one.
Success(r, k) ==
    [r EXCEPT !.prev = r.cur, !.cur = k, !.next = None, !.ready = TRUE, !.rekey = FALSE]

WorkerPromotes(p) ==
    /\ wk[p].at = "run" /\ At(p, "tell")
    /\ \/ b[p].next # None /\ b' = [b EXCEPT ![p] = Success(@, @.next)] /\ UNCHANGED used
       \/ used.key < MaxKey /\ Count("key") /\ b' = [b EXCEPT ![p] = Success(@, used.key + 1)]
    /\ UNCHANGED ctl

\* pqc_hs_stage_next_key.
WorkerStages(p) ==
    /\ wk[p].at = "run" /\ At(p, "tell") /\ b[p].ready /\ b[p].cur # None
    /\ used.key < MaxKey /\ Count("key")
    /\ b' = [b EXCEPT ![p].next = used.key + 1]
    /\ UNCHANGED ctl

\* prev_discard_after_ms has passed: the worker goes to drop PREV.
WorkerDiscards(p) ==
    /\ wk[p].at = "run" /\ b[p].ready /\ b[p].prev # None /\ At(p, "wipe")
    /\ UNCHANGED <<b, ctl, used>>

\* sig_pqc_discard_prev_key, the second half of the discard.
Forget(p) ==
    /\ wk[p].at = "forget" /\ At(p, "run")
    /\ b' = [b EXCEPT ![p].prev = None]
    /\ UNCHANGED <<ctl, used>>

\* The loop ends on thread_exit_sig; an active binding may be started again.
ExitKeeps(r) == r
AfterExit(r) == [r EXCEPT !.exit = @ /\ ~r.active]
WorkerExits(p) ==
    /\ wk[p].at = "run" /\ b[p].exit
    /\ wk' = [wk EXCEPT ![p] = NoWorker]
    /\ b' = [b EXCEPT ![p] = AfterExit(@)]
    /\ UNCHANGED <<ctl, used>>

-----------------------------------------------------------------------------
\* The daemon loads a configuration: prepare, bind each policy, finalize.

GoTo(where) == ctl' = [ctl EXCEPT !.at = where]
Done == [ctl EXCEPT !.todo = Tail(@)]

\* sig_pqc_prepare_reload
Prepared == [p \in Policy |-> [b[p] EXCEPT !.active = FALSE, !.kept = FALSE]]

\* What finalize goes through, in the order of the bindings.
Inactive(r) == SetToSortSeq({p \in Policy : r[p].known /\ ~r[p].active}, <)

Load(c) ==
    /\ ctl.at = "idle" /\ used.load < MaxLoad /\ Count("load")
    /\ b' = Prepared
    /\ ctl' = [ctl EXCEPT !.at = "bind", !.todo = c, !.cfg = c]
    /\ UNCHANGED wk

\* return_to_blank_daemon, once the dataplane has stopped.
Blank ==
    /\ ctl.at = "idle" /\ ctl.up /\ used.load < MaxLoad /\ Count("load")
    /\ b' = Prepared
    /\ ctl' = [at |-> "finalize", todo |-> Inactive(Prepared), cfg |-> <<>>, up |-> FALSE]
    /\ UNCHANGED wk

\* What can hold a worker for longer than the wait is its exchange: a log
\* written to the database, a signature, a lock.
Busy(p) == Started(p) /\ wk[p].at # "new"

Binding(e, where) == ctl.at = where /\ ctl.todo # <<>> /\ e = Head(ctl.todo)

\* The binding takes its identity and is active; a changed one starts over.
\* The key slots are left as they are.
Rebound(r, e, changed) ==
    [r EXCEPT !.known = TRUE, !.active = TRUE, !.id = e.id,
              !.exit = @ /\ ~changed, !.ready = @ /\ ~changed, !.rekey = @ /\ ~changed]

Changed(e) == b[e.pol].known /\ b[e.pol].id # e.id

BindPolicy(e) ==
    /\ Binding(e, "bind") /\ ~(Changed(e) /\ Started(e.pol))
    /\ b' = [b EXCEPT ![e.pol] = Rebound(@, e, Changed(e))]
    /\ ctl' = Done /\ UNCHANGED <<wk, used>>

\* A changed binding first asks its worker to stop, and waits.
BindAsksStop(e) ==
    /\ Binding(e, "bind") /\ Changed(e) /\ Started(e.pol)
    /\ b' = [b EXCEPT ![e.pol].exit = TRUE]
    /\ GoTo("bind_wait") /\ UNCHANGED <<wk, used>>

BindAfterStop(e) ==
    /\ Binding(e, "bind_wait") /\ ~Started(e.pol)
    /\ b' = [b EXCEPT ![e.pol] = Rebound(@, e, TRUE)]
    /\ ctl' = [Done EXCEPT !.at = "bind"] /\ UNCHANGED <<wk, used>>

\* The wait runs out: the old binding stays, and is active.
KeptButRebound(r, e) == Rebound(r, e, TRUE)
KeptBinding(r, e) == [r EXCEPT !.active = TRUE, !.kept = TRUE]
BindTimeout(e) ==
    /\ Binding(e, "bind_wait") /\ Busy(e.pol)
    /\ Event
    /\ b' = [b EXCEPT ![e.pol] = KeptBinding(@, e)]
    /\ ctl' = [Done EXCEPT !.at = "bind"] /\ UNCHANGED wk

\* sig_pqc_load_and_bind_policy: a key missing in the Vault or no tunnel, and
\* the policy is not bound.
BindFails(e) ==
    /\ Binding(e, "bind") /\ Event
    /\ ctl' = Done /\ UNCHANGED <<b, wk>>

\* load_profiles_and_policies finalizes, and load_profile_config once more.
BindsDone ==
    /\ ctl.at = "bind" /\ ctl.todo = <<>>
    /\ ctl' = [ctl EXCEPT !.at = "finalize", !.todo = Inactive(b) \o Inactive(b)]
    /\ UNCHANGED <<b, wk, used>>

Wiped(r) ==
    [r EXCEPT !.id = None, !.cur = None, !.prev = None, !.next = None, !.ready = FALSE]

\* sig_pqc_finalize_reload, one binding at a time.  Without a running worker
\* the stop request of an earlier load is left as it is.
Finalize(p) ==
    /\ Binding(p, "finalize") /\ ~b[p].active /\ ~Started(p)
    /\ b' = [b EXCEPT ![p] = Wiped(@)]
    /\ ctl' = Done /\ UNCHANGED <<wk, used>>

FinalizeAsksStop(p) ==
    /\ Binding(p, "finalize") /\ ~b[p].active /\ Started(p)
    /\ b' = [b EXCEPT ![p].exit = TRUE]
    /\ GoTo("final_wait") /\ UNCHANGED <<wk, used>>

FinalizeAfterStop(p) ==
    /\ Binding(p, "final_wait") /\ ~Started(p)
    /\ b' = [b EXCEPT ![p] = [Wiped(@) EXCEPT !.exit = FALSE]]
    /\ ctl' = [Done EXCEPT !.at = "finalize"] /\ UNCHANGED <<wk, used>>

FinalizeTimeout(p) ==
    /\ Binding(p, "final_wait") /\ Busy(p)
    /\ Event
    /\ ctl' = [Done EXCEPT !.at = "finalize"] /\ UNCHANGED <<b, wk>>

LoadStep ==
    \/ \E c \in Configs : Load(c)
    \/ \E c \in Configs : \E i \in 1..Len(c) :
          \/ BindPolicy(c[i]) \/ BindAsksStop(c[i]) \/ BindAfterStop(c[i])
          \/ BindTimeout(c[i]) \/ BindFails(c[i])
    \/ BindsDone
    \/ \E p \in Policy : Finalize(p) \/ FinalizeAsksStop(p) \/ FinalizeAfterStop(p) \/ FinalizeTimeout(p)

-----------------------------------------------------------------------------
\* sig_pqc_request_new_session and sig_pqc_trigger_retry.

RequestTaken(p) == b[p].known /\ b[p].ready
RequestNewSession(p) == b' = [b EXCEPT ![p].rekey = @ \/ RequestTaken(p)]

TriggerRetry(p) ==
    /\ b[p].known /\ Event
    /\ b' = [b EXCEPT ![p].ready = FALSE, ![p].next = None]
    /\ HandshakeStart /\ UNCHANGED ctl

-----------------------------------------------------------------------------
BindingTypeOK ==
    /\ b \in [Policy -> [known : BOOLEAN, active : BOOLEAN, id : Nat, cur : 0..MaxKey, prev : 0..MaxKey,
                         next : 0..MaxKey, ready : BOOLEAN, rekey : BOOLEAN, exit : BOOLEAN, kept : BOOLEAN]]
    /\ wk \in [Policy -> [at : {"none", "new", "run", "tell", "wipe", "forget"}, id : Nat]]
    /\ ctl.at \in {"idle", "bind", "bind_wait", "finalize", "final_wait", "start", "sync", "snapshot", "reset", "fill"}
    /\ ctl.up \in BOOLEAN

(* The identity a handshake worker signs and verifies with is the one its  *)
(* policy is bound to: a load that changes the keys of a policy never      *)
(* leaves the old worker answering for the new binding, not even when the  *)
(* worker outlasts the wait for it (pqc_handshake.c, sig_pqc_bind_policy). *)
WorkerHasBoundIdentity ==
    \A p \in Policy : wk[p].at \in {"run", "tell", "wipe", "forget"} => wk[p].id = b[p].id

(* A policy whose change the last load gave up on, because its worker      *)
(* would not stop in time, is not stopped for good: once that worker has   *)
(* gone, no stop request is left that would make every starter refuse it   *)
(* ("rather than leaving this one policy permanently stopped",             *)
(* pqc_handshake.c at the end of the worker).                              *)
KeptIsRestartable ==
    \A p \in Policy : b[p].kept /\ ~Started(p) => ~b[p].exit

=============================================================================
