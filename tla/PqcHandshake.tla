---------------------------- MODULE PqcHandshake ----------------------------
(***************************************************************************)
(* The key handshake of one tunnel policy (src/crypto/pqc/pqc_handshake.c) *)
(* between the initiator "I" and the responder "R".  Each peer runs a      *)
(* worker thread (the loop of pqc_policy_handshake_worker_run) and shares  *)
(* the binding b[p] with the UDP dispatcher thread                         *)
(* (sig_pqc_feed_rx_packet), which answers KEEPALIVE and POKE on its own   *)
(* and queues every other message for the worker.                          *)
(*                                                                         *)
(* A traffic key is a fresh number per encapsulation; signatures, digests  *)
(* and the KEM are taken as perfect, so a RESP carries the key its         *)
(* ciphertext opens to and a KEEPALIVE the key its fingerprint is of.      *)
(*                                                                         *)
(* Timers: an exchange that loses nothing is over before its 1 s or 3 s    *)
(* retry and its 15 s give-up; a message that is lost, or slower than      *)
(* that, is a fault, and a behaviour has at most MaxFault of them.         *)
(***************************************************************************)
EXTENDS Naturals, Sequences, SequencesExt, FiniteSets

CONSTANTS
    Tries,        \* HELLOs sent before the 15 s give-up
    CacheSlots,   \* PQC_HS_CACHE_SLOTS
    QueueSize,    \* messages PQC_RX_QUEUE_SIZE leaves room for
    MaxFault,     \* bound: lost or late messages, failed sends, early timers
    MaxReset,     \* bound: resets of a peer
    Resets,       \* the resets that may happen: <<"retry" or "restart", peer>>
    MaxRekey,     \* bound: expiries of the key in use
    RekeyBy       \* the peers whose dataplane reports the expiry

ASSUME PqcAssumption ==
    /\ {Tries, CacheSlots, QueueSize} \subseteq Nat \ {0}
    /\ {MaxFault, MaxReset, MaxRekey} \subseteq Nat
    /\ Resets \subseteq {"retry", "restart"} \X {"I", "R"}
    /\ RekeyBy \subseteq {"I", "R"}

Peer == {"I", "R"}
Other(p) == IF p = "I" THEN "R" ELSE "I"

\* No key in a slot, no session yet, no request identifier: the C zeroes.
None == 0

VARIABLES
    b,        \* policy_key_binding_t of each peer
    cache,    \* hs_cache of the responder, oldest entry first
    q,        \* rx_queue of each peer
    net,      \* messages in flight
    pc,       \* where each worker is
    sess,     \* session_id of the initiator's running handshake
    tries,    \* HELLOs sent for it
    fresh,    \* last session, key and request identifier handed out
    used,     \* faults, resets and rekeys that have happened
    synced    \* both peers have been on one CURRENT key since the last reset
vars == <<b, cache, q, net, pc, sess, tries, fresh, used, synced>>

Binding ==
    [prev : Nat, cur : Nat, next : Nat, ready : BOOLEAN, rekey : BOOLEAN,
     giveUp : BOOLEAN, start : BOOLEAN, rot : BOOLEAN, armed : BOOLEAN,
     req : Nat, peerReq : Nat]

Held(p) == {b[p].prev, b[p].cur, b[p].next} \ {None}

\* What a bind leaves in the binding: no key, a new request identifier.
Bound(id) ==
    [prev |-> None, cur |-> None, next |-> None, ready |-> FALSE,
     rekey |-> FALSE, giveUp |-> FALSE, start |-> FALSE, rot |-> FALSE,
     armed |-> FALSE, req |-> id, peerReq |-> None]

Init ==
    /\ b = [p \in Peer |-> Bound(IF p = "I" THEN 1 ELSE 2)]
    /\ cache = <<>>
    /\ q = [p \in Peer |-> <<>>]
    /\ net = {}
    /\ pc = [p \in Peer |-> "top"]
    /\ sess = None /\ tries = 0
    /\ fresh = [sess |-> 0, key |-> 0, req |-> 2]
    /\ used = [fault |-> 0, reset |-> 0, rekey |-> 0]
    /\ synced = FALSE

Msg(to, type, s, k) == [to |-> to, type |-> type, s |-> s, key |-> k]
CanFail == used.fault < MaxFault
Fault == CanFail /\ used' = [used EXCEPT !.fault = @ + 1]

-----------------------------------------------------------------------------
(* The binding's own operations. *)

\* Mutant of Success: the deletion of PREV stays armed.
SuccessStaysArmed(r, k) ==
    [r EXCEPT !.prev = r.cur, !.cur = k, !.next = None, !.ready = TRUE,
              !.rekey = FALSE, !.giveUp = FALSE, !.start = FALSE, !.rot = FALSE]

\* handle_handshake_success: CURRENT becomes PREV and k becomes CURRENT.
Success(r, k) ==
    [r EXCEPT !.prev = r.cur, !.cur = k, !.next = None, !.ready = TRUE,
              !.rekey = FALSE, !.giveUp = FALSE, !.start = FALSE,
              !.rot = FALSE, !.armed = FALSE]

\* pqc_hs_stage_next_key, refused (-EAGAIN) while there is no CURRENT.
CanStage(r) == r.ready /\ r.cur # None
Stage(r, k) == [r EXCEPT !.next = k, !.armed = FALSE]

\* pqc_hs_l3_state_locked
State(r) ==
    IF (~r.giveUp /\ r.start /\ ~r.ready) \/ r.rot THEN "HANDSHAKING"
    ELSE IF r.ready /\ r.cur # None THEN "READY" ELSE "FAILED"

\* A request for a new key that keeps the key in use.
AskRekey(r) == [r EXCEPT !.rekey = TRUE, !.giveUp = FALSE, !.rot = FALSE]

-----------------------------------------------------------------------------
(* The dispatcher thread: sig_pqc_feed_rx_packet. *)

\* pqc_feed_packet_to_policy: a full queue drops the message.
Queued(s, m) == IF Len(s) < QueueSize THEN Append(s, m) ELSE s

\* A KEEPALIVE of the other peer, in state st with key k, reaches p.
Mismatch(p, k) == k \notin Held(p)
Recovers(p, st, k) ==
    LET mine == State(b[p]) IN
    /\ "HANDSHAKING" \notin {mine, st}
    /\ \/ mine = "READY" /\ st = "READY" /\ Mismatch(p, k)
       \/ mine = "FAILED"
       \/ mine # "FAILED" /\ st = "FAILED"

Restarted(p, r) ==
    [r EXCEPT !.giveUp = FALSE, !.start = TRUE, !.rot = FALSE,
              !.armed = FALSE, !.req = IF p = "R" THEN None ELSE @]

RecvKeepalive(p, st, k) ==
    LET r == b[p] IN
    IF ~Recovers(p, st, k)
    THEN /\ b' = [b EXCEPT ![p].armed =
                     @ \/ /\ State(r) = "READY" /\ st = "READY"
                          /\ k = r.cur /\ r.prev # None]
         /\ UNCHANGED <<cache, q, tries>>
    ELSE IF r.ready
    THEN b' = [b EXCEPT ![p] = AskRekey(r)] /\ UNCHANGED <<cache, q, tries>>
    ELSE /\ b' = [b EXCEPT ![p] = Restarted(p, r)]
         /\ cache' = IF p = "R" THEN <<>> ELSE cache
         /\ q' = [q EXCEPT ![p] = <<>>]
         /\ tries' = IF p = "I" THEN 0 ELSE tries

\* A POKE with request identifier id reaches the initiator.
RecvPoke(id) ==
    LET r == [b["I"] EXCEPT !.peerReq = id] IN
    IF id = b["I"].peerReq THEN UNCHANGED <<b, q, tries>>
    ELSE IF r.ready
    THEN b' = [b EXCEPT !["I"] = AskRekey(r)] /\ UNCHANGED <<q, tries>>
    ELSE /\ b' = [b EXCEPT !["I"] = Restarted("I", r)]
         /\ q' = [q EXCEPT !["I"] = <<>>] /\ tries' = 0

\* A HELLO that finds the responder asleep wakes it, then is queued.
RecvQueued(m) ==
    LET p == m.to
        wake == m.type = "HELLO" /\ b[p].giveUp IN
    /\ b' = IF wake
            THEN [b EXCEPT ![p].giveUp = FALSE, ![p].start = FALSE,
                           ![p].rot = FALSE, ![p].ready = FALSE]
            ELSE b
    /\ q' = [q EXCEPT ![p] = Queued(IF wake THEN <<>> ELSE @, m)]
    /\ UNCHANGED <<cache, tries>>

Deliver ==
    \E m \in net :
        /\ net' = net \ {m}
        /\ CASE m.type = "KEEPALIVE" -> RecvKeepalive(m.to, m.s, m.key)
             [] m.type = "POKE" -> RecvPoke(m.s) /\ UNCHANGED cache
             [] OTHER -> RecvQueued(m)
        /\ UNCHANGED <<pc, sess, fresh, used>>

Lose ==
    /\ Fault
    /\ \E m \in net : net' = net \ {m}
    /\ UNCHANGED <<b, cache, q, pc, sess, tries, fresh>>

-----------------------------------------------------------------------------
(* The worker threads: the top of the loop. *)

\* pqc_hs_send_l3_keepalive.  It arrives at once, or is late: a fault.
Keepalive(p) ==
    LET st == State(b[p])
        k == IF st = "READY" THEN b[p].cur ELSE None IN
    /\ pc[p] = "top" /\ b[p].req # None
    /\ \/ /\ RecvKeepalive(Other(p), st, k)
          /\ UNCHANGED <<net, used>>
       \/ /\ Fault
          /\ net' = net \cup {Msg(Other(p), "KEEPALIVE", st, k)}
          /\ UNCHANGED <<b, cache, q, tries>>
    /\ UNCHANGED <<pc, sess, fresh>>

\* A keepalive or a POKE without an identifier draws one first.
NewRequestId(p) ==
    /\ b[p].req = None
    /\ fresh' = [fresh EXCEPT !.req = @ + 1]
    /\ b' = [b EXCEPT ![p].req = fresh.req + 1]
    /\ UNCHANGED <<cache, q, net, pc, sess, tries, used>>

\* Mutant of DiscardPrev: the grace ends and nothing is wiped.
DisarmPrev(p) ==
    /\ pc[p] = "top" /\ b[p].armed
    /\ b' = [b EXCEPT ![p].armed = FALSE]
    /\ UNCHANGED <<cache, q, net, pc, sess, tries, fresh, used>>

\* The 90 s grace of PREV is over: fwd_crypto_discard_pqc_prev_key.
DiscardPrev(p) ==
    /\ pc[p] = "top" /\ b[p].armed
    /\ b' = [b EXCEPT ![p].armed = FALSE, ![p].prev = None]
    /\ UNCHANGED <<cache, q, net, pc, sess, tries, fresh, used>>

\* 15 s after it gave up, a peer starts over by itself.
AutoRetry(p) ==
    /\ pc[p] = "top" /\ b[p].giveUp
    /\ b' = [b EXCEPT ![p].giveUp = FALSE, ![p].start = FALSE,
                      ![p].rot = FALSE, ![p].req = None]
    /\ cache' = IF p = "R" THEN <<>> ELSE cache
    /\ q' = [q EXCEPT ![p] = <<>>]
    /\ UNCHANGED <<net, pc, sess, tries, fresh, used>>

-----------------------------------------------------------------------------
(* The initiator's worker. *)

InFlight(s) ==
    \/ \E m \in net : m.type \notin {"KEEPALIVE", "POKE"} /\ m.s = s
    \/ \E p \in Peer : \E i \in DOMAIN q[p] : q[p][i].s = s

\* The timer of an exchange runs out: nothing is on its way, or too late.
Expired(s) == IF InFlight(s) THEN Fault ELSE UNCHANGED used

\* A new session and its first HELLO.
Hello(loop) ==
    /\ pc["I"] = "top" /\ ~b["I"].giveUp
    /\ fresh' = [fresh EXCEPT !.sess = @ + 1]
    /\ sess' = fresh.sess + 1 /\ tries' = 1
    /\ net' = net \cup {Msg("R", "HELLO", fresh.sess + 1, None)}
    /\ pc' = [pc EXCEPT !["I"] = loop]
    /\ UNCHANGED <<cache, q, used>>

\* There is no key: the first handshake.
StartHello ==
    /\ ~b["I"].ready
    /\ Hello("hello")
    /\ b' = [b EXCEPT !["I"].start = TRUE]

\* A new key is asked for: initiate_l3_key_rotation.
StartRotation ==
    /\ b["I"].ready /\ b["I"].rekey
    /\ Hello("rot")
    /\ b' = [b EXCEPT !["I"].rot = TRUE]

ResendHello ==
    /\ pc["I"] \in {"hello", "rot"} /\ tries < Tries
    /\ Expired(sess)
    /\ net' = net \cup {Msg("R", "HELLO", sess, None)}
    /\ tries' = tries + 1
    /\ UNCHANGED <<b, cache, q, pc, sess, fresh>>

\* A first handshake that times out waits for the automatic retry; a
\* rotation leaves the request standing and starts over at the loop's top.
GiveUp ==
    /\ pc["I"] \in {"hello", "rot"} /\ tries >= Tries
    /\ Expired(sess)
    /\ pc' = [pc EXCEPT !["I"] = "top"]
    /\ b' = IF pc["I"] = "hello" THEN [b EXCEPT !["I"].giveUp = TRUE]
            ELSE [b EXCEPT !["I"].rot = @ /\ ~b["I"].rekey]
    /\ UNCHANGED <<cache, q, net, sess, tries, fresh>>

\* The initiator takes the next message of its queue in the loop it is in.
NextI(loop) ==
    /\ pc["I"] = loop /\ q["I"] # <<>>
    /\ q' = [q EXCEPT !["I"] = Tail(@)]
    /\ UNCHANGED <<cache, net, sess, tries, fresh, used>>
Awaited(type) == Head(q["I"]).type = type /\ Head(q["I"]).s = sess

\* The RESP of a first handshake carries the key to use from now on.
TakeResp ==
    /\ NextI("hello") /\ Awaited("RESP")
    /\ b' = [b EXCEPT !["I"] = Success(@, Head(q["I"]).key)]
    /\ pc' = [pc EXCEPT !["I"] = "top"]

\* The RESP of a rotation is staged; the commit loop starts.
TakeRotationResp ==
    /\ NextI("rot") /\ Awaited("RESP") /\ CanStage(b["I"])
    /\ b' = [b EXCEPT !["I"] = Stage(@, Head(q["I"]).key)]
    /\ pc' = [pc EXCEPT !["I"] = "commit"]

\* COMMIT promotes what is staged; without it (a retry wiped NEXT) the
\* worker is back in the rotation's loop.
TakeCommit ==
    /\ NextI("commit") /\ Awaited("COMMIT")
    /\ \/ /\ b["I"].next # None
          /\ b' = [b EXCEPT !["I"] = Success(@, @.next)]
          /\ pc' = [pc EXCEPT !["I"] = "top"]
       \/ /\ b["I"].next = None
          /\ pc' = [pc EXCEPT !["I"] = "rot"] /\ UNCHANGED b

\* Anything else is dropped.
TakeOther ==
    /\ \E loop \in {"hello", "rot", "commit"} : NextI(loop)
    /\ ~Awaited(IF pc["I"] = "commit" THEN "COMMIT" ELSE "RESP")
         \/ (pc["I"] = "rot" /\ ~CanStage(b["I"]))
    /\ UNCHANGED <<b, pc>>

TakeI == TakeResp \/ TakeRotationResp \/ TakeCommit \/ TakeOther

\* pqc_hs_initiator_commit_staged repeats READY until COMMIT: no give-up.
SendReady ==
    /\ pc["I"] = "commit"
    /\ Expired(sess)
    /\ net' = net \cup {Msg("R", "READY", sess, None)}
    /\ UNCHANGED <<b, cache, q, pc, sess, tries, fresh>>

-----------------------------------------------------------------------------
(* The responder's worker. *)

Listening == pc["R"] = "listen" /\ ~b["R"].ready
Online == pc["R"] = "top" /\ b["R"].ready

EnterListen ==
    /\ pc["R"] = "top" /\ ~b["R"].ready /\ ~b["R"].giveUp
    /\ pc' = [pc EXCEPT !["R"] = "listen"]
    /\ b' = [b EXCEPT !["R"].start = TRUE]
    /\ UNCHANGED <<cache, q, net, sess, tries, fresh, used>>

LeaveListen ==
    /\ pc["R"] = "listen"
    /\ \/ b["R"].ready /\ UNCHANGED <<b, used>>
       \/ ~b["R"].ready /\ Fault /\ b' = [b EXCEPT !["R"].giveUp = TRUE]
    /\ pc' = [pc EXCEPT !["R"] = "top"]
    /\ UNCHANGED <<cache, q, net, sess, tries, fresh>>

\* The POKE: once a second while there is no key or a new one is wanted.
Poke ==
    /\ Listening \/ (Online /\ b["R"].rekey)
    /\ b["R"].req # None
    /\ \/ RecvPoke(b["R"].req) /\ UNCHANGED <<net, used>>
       \/ /\ Fault
          /\ net' = net \cup {Msg("I", "POKE", b["R"].req, None)}
          /\ UNCHANGED <<b, q, tries>>
    /\ UNCHANGED <<cache, pc, sess, fresh>>

\* pqc_hs_send_cached_response for entry i of the cache c, r being the
\* binding by then: a key that needs no COMMIT is promoted once its RESP is
\* out; a RESP that cannot be sent promotes nothing.
Respond(c, i, r) ==
    LET promote == ~c[i].commit /\ ~c[i].promoted IN
    \/ /\ net' = net \cup {Msg("I", "RESP", c[i].s, c[i].key)}
       /\ cache' = [c EXCEPT ![i].promoted = @ \/ promote]
       /\ b' = [b EXCEPT !["R"] = IF promote THEN Success(r, c[i].key) ELSE r]
       /\ UNCHANGED used
    \/ /\ Fault
       /\ cache' = c /\ b' = [b EXCEPT !["R"] = r] /\ UNCHANGED net

\* pqc_hs_handle_l3_responder_hello: a known session gets its RESP again; a
\* new one is encapsulated, and staged when there is a key in use.
HandleHello(m) ==
    LET r == b["R"]
        k == fresh.key + 1
        known == {i \in DOMAIN cache : cache[i].s = m.s}
        new == Append(cache, [s |-> m.s, key |-> k, commit |-> r.ready,
                              promoted |-> FALSE])
        kept == IF Len(new) > CacheSlots THEN Tail(new) ELSE new IN
    \/ /\ \E i \in known : Respond(cache, i, r)
       /\ UNCHANGED fresh
    \/ /\ known = {} /\ (r.ready => CanStage(r))
       /\ Respond(kept, Len(kept), IF r.ready THEN Stage(r, k) ELSE r)
       /\ fresh' = [fresh EXCEPT !.key = k]

\* Mutants of HandleReady: it answers COMMIT before it promotes; it takes a
\* repeated READY for a stale one.
HandleReadyEarly(m) ==
    /\ net' = net \cup {Msg("I", "COMMIT", m.s, None)}
    /\ UNCHANGED <<b, cache, used>>
HandleReadyOnce(m) ==
    LET ok == {i \in DOMAIN cache : /\ cache[i].commit /\ cache[i].s = m.s
                                   /\ ~cache[i].promoted
                                   /\ b["R"].next = cache[i].key} IN
    IF ok = {} THEN UNCHANGED <<b, cache, net, used>>
    ELSE LET i == CHOOSE j \in ok : TRUE IN
         /\ b' = [b EXCEPT !["R"] = Success(b["R"], b["R"].next)]
         /\ cache' = [cache EXCEPT ![i].promoted = TRUE]
         /\ net' = net \cup {Msg("I", "COMMIT", m.s, None)}
         /\ UNCHANGED used

\* pqc_hs_handle_ready: the staged key of that session becomes CURRENT; a
\* repeated READY is answered with COMMIT again.
HandleReady(m) ==
    LET r == b["R"]
        mine == {i \in DOMAIN cache : cache[i].commit /\ cache[i].s = m.s}
        ok == {i \in mine : cache[i].promoted \/ r.next = cache[i].key} IN
    IF ok = {} THEN UNCHANGED <<b, cache, net, used>>
    ELSE LET i == CHOOSE j \in ok : TRUE IN
         /\ b' = IF cache[i].promoted THEN b
                 ELSE [b EXCEPT !["R"] = Success(r, r.next)]
         /\ cache' = [cache EXCEPT ![i].promoted = TRUE]
         /\ net' = net \cup {Msg("I", "COMMIT", m.s, None)}
         /\ UNCHANGED used

\* READY is looked at in the ready branch of the loop only.
TakeR ==
    LET m == Head(q["R"]) IN
    /\ q["R"] # <<>>
    /\ Listening \/ Online
    /\ q' = [q EXCEPT !["R"] = Tail(@)]
    /\ \/ m.type = "HELLO" /\ HandleHello(m)
       \/ /\ m.type = "READY" /\ UNCHANGED fresh
          /\ IF pc["R"] = "top" THEN HandleReady(m)
             ELSE UNCHANGED <<b, cache, net, used>>
    /\ UNCHANGED <<pc, sess, tries>>

-----------------------------------------------------------------------------
(* What comes from outside. *)

\* sig_pqc_request_new_session, called when the key in use has expired.
RequestNewSession(p) ==
    /\ p \in RekeyBy /\ used.rekey < MaxRekey
    /\ b[p].ready /\ ~b[p].rekey
    /\ b' = [b EXCEPT ![p] = AskRekey(@)]
    /\ used' = [used EXCEPT !.rekey = @ + 1]
    /\ UNCHANGED <<cache, q, net, pc, sess, tries, fresh>>

ResetBy(kind, p) ==
    /\ <<kind, p>> \in Resets /\ used.reset < MaxReset
    /\ used' = [used EXCEPT !.reset = @ + 1]
    /\ fresh' = [fresh EXCEPT !.req = @ + 1]
    /\ q' = [q EXCEPT ![p] = <<>>]
    /\ cache' = IF p = "R" THEN <<>> ELSE cache

\* sig_pqc_trigger_retry: the keys stay in their slots, NEXT is wiped.
TriggerRetry(p) ==
    /\ ResetBy("retry", p)
    /\ b' = [b EXCEPT ![p].giveUp = FALSE, ![p].start = TRUE, ![p].rot = FALSE,
                      ![p].ready = FALSE, ![p].armed = FALSE,
                      ![p].next = None, ![p].req = fresh.req + 1]
    /\ tries' = IF p = "I" THEN 0 ELSE tries
    /\ UNCHANGED <<net, pc, sess>>

\* The process starts again: nothing of the binding is kept.  It is down for
\* longer than what it sent is in flight.
Restart(p) ==
    /\ net = {} /\ q[Other(p)] = <<>>
    /\ ResetBy("restart", p)
    /\ b' = [b EXCEPT ![p] = Bound(fresh.req + 1)]
    /\ pc' = [pc EXCEPT ![p] = "top"]
    /\ sess' = IF p = "I" THEN None ELSE sess
    /\ UNCHANGED <<net, tries>>

-----------------------------------------------------------------------------

Same(x, y) == x.ready /\ y.ready /\ x.cur = y.cur

WorkerI == StartHello \/ StartRotation \/ ResendHello \/ GiveUp \/ TakeI \/ SendReady
WorkerR == EnterListen \/ LeaveListen \/ Poke \/ TakeR
Maintain(p) == Keepalive(p) \/ NewRequestId(p) \/ DiscardPrev(p) \/ AutoRetry(p)

Next ==
    \/ /\ \/ Deliver \/ Lose \/ WorkerI \/ WorkerR
          \/ \E p \in Peer : Maintain(p) \/ RequestNewSession(p)
       /\ synced' = (synced \/ Same(b'["I"], b'["R"]))
    \/ /\ \E p \in Peer : TriggerRetry(p) \/ Restart(p)
       /\ synced' = FALSE

Spec == Init /\ [][Next]_vars

\* The threads run and the network delivers; faults, resets and expiries are
\* never promised.
S(A) == A /\ synced' = (synced \/ Same(b'["I"], b'["R"]))
Steps == used'.fault = used.fault
Fairness ==
    /\ WF_vars(S(Deliver))
    /\ WF_vars(S(WorkerI /\ Steps)) /\ WF_vars(S(TakeI))
    /\ WF_vars(S(EnterListen)) /\ WF_vars(S(LeaveListen /\ Steps))
    /\ WF_vars(S(Poke /\ Steps)) /\ WF_vars(S(TakeR /\ Steps))
    /\ \A p \in Peer :
         /\ WF_vars(S(Keepalive(p) /\ Steps)) /\ WF_vars(S(NewRequestId(p)))
         /\ WF_vars(S(DiscardPrev(p))) /\ WF_vars(S(AutoRetry(p)))
FairSpec == Spec /\ Fairness

-----------------------------------------------------------------------------
(* Properties. *)

Message ==
    [to : Peer, type : {"HELLO", "RESP", "READY", "COMMIT"}, s : Nat, key : Nat]
      \cup [to : {"I"}, type : {"POKE"}, s : Nat, key : {None}]
      \cup [to : Peer, type : {"KEEPALIVE"}, key : Nat,
            s : {"READY", "FAILED", "HANDSHAKING"}]

\* The type of the state: slots, flags, queues and messages in flight.
TypeOK ==
    /\ b \in [Peer -> Binding]
    /\ cache \in Seq([s : Nat, key : Nat, commit : BOOLEAN, promoted : BOOLEAN])
    /\ Len(cache) <= CacheSlots
    /\ q \in [Peer -> Seq(Message)] /\ \A p \in Peer : Len(q[p]) <= QueueSize
    /\ net \subseteq Message
    /\ pc \in [Peer -> {"top", "hello", "rot", "commit", "listen"}]
    /\ sess \in Nat /\ tries \in 0..Tries
    /\ fresh \in [sess : Nat, key : Nat, req : Nat]
    /\ used \in [fault : 0..MaxFault, reset : 0..MaxReset, rekey : 0..MaxRekey]
    /\ synced \in BOOLEAN

\* Once both peers have used one key, no rotation, whatever it loses, leaves a
\* peer encrypting with a key the other has in no slot: decryption tries
\* CURRENT, NEXT and PREV (crypto_pqc_decrypt_payload_resilient).
CutoverWindow ==
    synced => \A p \in Peer : b[p].cur \in Held(Other(p))

\* A COMMIT moves the initiator to the key the responder already encrypts
\* with (pqc_hs_initiator_commit_staged).
CommitAgrees ==
    [][pc["I"] = "commit" /\ pc'["I"] = "top" /\ b'["I"].ready /\ b["R"].ready
         => b'["I"].cur = b["R"].cur]_vars

\* A replaced key is forgotten: while both peers stay on one key, what PREV
\* holds is deleted (the keepalive that shows CURRENT starts its grace).
OldKeyForgotten ==
    \A p \in Peer :
        (Same(b["I"], b["R"]) /\ b[p].prev # None)
          ~> (b[p].prev = None \/ ~Same(b["I"], b["R"]))

\* After the last fault both peers end up with keys they can decrypt each
\* other's traffic with.
Converges ==
    <>[](\A p \in Peer : b[p].ready /\ b[p].cur \in Held(Other(p)))

\* "signed responder-to-initiator request to restart HELLO after reboot"
\* (pqc_handshake.h:15): a responder that restarts gets the tunnel back.
RebootRecovers == Converges
=============================================================================
