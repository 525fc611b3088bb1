----------------------------- MODULE UdpReorder -----------------------------
(***************************************************************************)
(* The UDP reorder buffer of one crypto worker (udp_reorder.c): one set of *)
(* the flow table with its slots.  Bonded WANs deliver the datagrams of a  *)
(* flow out of order; the worker holds those ahead of next_seq and emits   *)
(* them in order, giving up on a gap after a hold time.                    *)
(*                                                                         *)
(* A worker runs its calls one after the other and shares nothing here     *)
(* with other workers, so a call of dp_udp_reorder_submit is a chain of    *)
(* steps (variable pc) that only the clock and other calls cannot          *)
(* interrupt.  Its loop in flow_make_window_room is one step an iteration: *)
(* whether it ends is a question this module can ask.                      *)
(*                                                                         *)
(* Time is kept as ages: gap is now_ns - gap_since_ns and seen is          *)
(* now_ns - last_seen_ns, each saturated where the code stops telling      *)
(* values apart; NoGap stands for gap_since_ns = 0.                        *)
(***************************************************************************)
EXTENDS Integers, Sequences, FiniteSets

CONSTANTS
  Keys,       \* 4-tuples that hash to this set
  NoKey,      \* key of a zeroed flow entry
  Epochs,     \* sender epochs
  Frames,     \* UMEM frames that carry datagrams
  NoFrame,    \* item of an empty slot
  Seqs,       \* sequence numbers the peer's datagrams carry in the model
  SeqMod,     \* 2^32
  Ways,       \* UDP_REORDER_WAYS
  Window,     \* UDP_REORDER_WINDOW
  Backtrack,  \* UDP_REORDER_START_BACKTRACK
  HeldCap,    \* UDP_REORDER_HELD_CAP
  GcSlice,    \* UDP_REORDER_GC_SLICE
  Hold,       \* g_hold_ns, in ticks
  Idle,       \* UDP_REORDER_FLOW_IDLE_NS, in ticks
  CryptoToggles  \* whether reloads switch crypto_enabled in the model

ASSUME SizesAssumption ==
  /\ SeqMod \in Nat /\ Window \in Nat \ {0} /\ 2 * Window < SeqMod
  /\ SeqMod % Window = 0
  /\ Ways \in Nat \ {0} /\ Backtrack \in Nat /\ HeldCap \in Nat \ {0}
  /\ GcSlice \in 1..Ways /\ Hold \in Nat \ {0} /\ Idle \in Nat \ {0}
  /\ CryptoToggles \in BOOLEAN

ASSUME SetsAssumption ==
  /\ NoKey \notin Keys /\ NoFrame \notin Frames
  /\ Epochs \subseteq Nat \ {0} /\ Seqs \subseteq 0..(SeqMod - 1)

Flow == 0..(Ways - 1)
Idx == 0..(Window - 1)
Seq32 == 0..(SeqMod - 1)
NoGap == -1
NoSeq == -1

VARIABLES
  flows,      \* g_flows: the entries of the set
  slots,      \* g_slots: the held datagrams of each entry
  held,       \* g_held_by_worker
  older,      \* pairs of valid entries, the first with the smaller stamp
  gcCursor,   \* g_gc_cursor
  pc,         \* where the running dp_udp_reorder_submit stands
  cryptoOn,   \* fwd->cfg->crypto_enabled
  cur,        \* its arguments: the entry looked up, seq and item
  owned,      \* history: frames handed over and not yet emitted or dropped
  last,       \* history: last seq emitted since the entry was reset
  out         \* history: seqs emitted by the last step, by entry

vars ==
  <<flows, slots, held, older, gcCursor, cryptoOn, pc, cur, owned, last, out>>

----------------------------------------------------------------------------
(* Sequence numbers are uint32_t; seq_delta is their signed distance.      *)

SeqAdd(s, n) == (s + n) % SeqMod

SeqDelta(s, base) ==
  LET d == (s - base) % SeqMod
  IN  IF 2 * d >= SeqMod THEN d - SeqMod ELSE d

Least(a, b) == IF a <= b THEN a ELSE b

Monus(a, b) == IF b <= a THEN a - b ELSE 0

----------------------------------------------------------------------------
(* Entries and slots.                                                      *)

EmptyFlow == [valid |-> FALSE, key |-> NoKey, epoch |-> 0, next |-> 0,
              gap |-> NoGap, seen |-> 0, held |-> 0]

EmptySlot == [valid |-> FALSE, seq |-> 0, item |-> NoFrame]

Clear(sl, I) == [i \in Idx |-> IF i \in I THEN EmptySlot ELSE sl[i]]

ValidIdx(sl) == {i \in Idx : sl[i].valid}

ItemsAt(sl, I) == {sl[i].item : i \in I}

(* The unbroken run of held datagrams from seq on, as distances from it    *)
(* and as slots: what flow_flush_contiguous emits with next_seq = seq.     *)
Run(sl, seq) ==
  {k \in Idx : \A j \in 0..k :
      LET s == SeqAdd(seq, j)
      IN  sl[s % Window].valid /\ sl[s % Window].seq = s}

RunIdx(sl, seq) == {SeqAdd(seq, k) % Window : k \in Run(sl, seq)}

RunSeqs(sl, seq) == [k \in 1..Cardinality(Run(sl, seq)) |-> SeqAdd(seq, k - 1)]

(* Mutants of Flushed: next_seq stays at the first datagram emitted; held  *)
(* is not decremented.                                                     *)
FlushedInPlace(fl, sl, seq) ==
  [fl EXCEPT !.next = seq, !.held = Monus(@, Cardinality(RunIdx(sl, seq)))]

FlushedUncounted(fl, sl, seq) ==
  [fl EXCEPT !.next = SeqAdd(seq, Cardinality(Run(sl, seq)))]

(* The entry after next_seq moved to seq and flow_flush_contiguous ran.    *)
Flushed(fl, sl, seq) ==
  LET h == Monus(fl.held, Cardinality(RunIdx(sl, seq)))
  IN  [fl EXCEPT !.next = SeqAdd(seq, Cardinality(Run(sl, seq))),
                 !.held = h,
                 !.gap = IF h > 0 THEN @ ELSE NoGap]

(* flow_smallest_ahead: the seq nearest at or ahead of next_seq, if any.   *)
SmallestAhead(fl, sl) ==
  LET ahead == {s \in {sl[i].seq : i \in ValidIdx(sl)} : SeqDelta(s, fl.next) >= 0}
  IN  {s \in ahead : \A t \in ahead : SeqDelta(s, fl.next) <= SeqDelta(t, fl.next)}

SkipTo(fl, sl) == CHOOSE s \in SmallestAhead(fl, sl) : TRUE

(* Mutant of SkipFlow: the gap timer is not restarted for what stays held. *)
SkipFlowNoTimer(fl, sl) ==
  IF SmallestAhead(fl, sl) = {} THEN [fl EXCEPT !.gap = NoGap]
  ELSE [Flushed(fl, sl, SkipTo(fl, sl)) EXCEPT !.gap = NoGap]

(* flow_skip_gap: the entry after it, the slots and the seqs it emits.     *)
SkipFlow(fl, sl) ==
  LET g == Flushed(fl, sl, SkipTo(fl, sl))
  IN  IF SmallestAhead(fl, sl) = {} THEN [fl EXCEPT !.gap = NoGap]
      ELSE [g EXCEPT !.gap = IF g.held > 0 THEN Least(fl.seen, Hold) ELSE @]

SkipIdx(fl, sl) ==
  IF SmallestAhead(fl, sl) = {} THEN {} ELSE RunIdx(sl, SkipTo(fl, sl))

SkipSeqs(fl, sl) ==
  IF SmallestAhead(fl, sl) = {} THEN << >> ELSE RunSeqs(sl, SkipTo(fl, sl))

GapDue(fl) == fl.held > 0 /\ fl.gap # NoGap /\ fl.gap >= Hold

----------------------------------------------------------------------------
(* The history: the seqs a step emits, by entry, and the last of each.     *)

Quiet == [f \in Flow |-> << >>]

Silent == out' = Quiet /\ UNCHANGED last

Emits(o) ==
  /\ out' = o
  /\ last' = [f \in Flow |-> IF o[f] = << >> THEN last[f] ELSE o[f][Len(o[f])]]

NoCall == [flow |-> 0, seq |-> 0, item |-> NoFrame]

Return == pc' = "idle" /\ cur' = NoCall

(* flow_skip_gap on entry f, as a step of the running call.                *)
SkipGap(f) ==
  LET I == SkipIdx(flows[f], slots[f])
  IN  /\ flows' = [flows EXCEPT ![f] = SkipFlow(flows[f], slots[f])]
      /\ slots' = [slots EXCEPT ![f] = Clear(slots[f], I)]
      /\ held' = Monus(held, Cardinality(I))
      /\ owned' = owned \ ItemsAt(slots[f], I)
      /\ Emits([Quiet EXCEPT ![f] = SkipSeqs(flows[f], slots[f])])

----------------------------------------------------------------------------
Init ==
  /\ flows = [f \in Flow |-> EmptyFlow]
  /\ slots = [f \in Flow |-> [i \in Idx |-> EmptySlot]]
  /\ held = 0
  /\ older = {}
  /\ gcCursor = 0
  /\ cryptoOn = TRUE
  /\ pc = "idle"
  /\ cur = NoCall
  /\ owned = {}
  /\ last = [f \in Flow |-> NoSeq]
  /\ out = Quiet

(* The scan of flow_lookup stops at the first way that is unused or holds  *)
(* the key; when every way is used by another key it yields the victim.    *)
StopsAt(k, f) == ~flows[f].valid \/ flows[f].key = k

Scanned(k, f) == StopsAt(k, f) /\ \A g \in Flow : g < f => ~StopsAt(k, g)

Way(k, f) ==
  \/ Scanned(k, f)
  \/ \A g \in Flow : ~StopsAt(k, g) /\ <<g, f>> \notin older

FreshFlow(k, e, s) ==
  LET back == Least(s, Backtrack)
  IN  [valid |-> TRUE, key |-> k, epoch |-> e, next |-> s - back,
       gap |-> IF back > 0 THEN 0 ELSE NoGap, seen |-> 0, held |-> 0]

(* The entry gets the largest stamp.                                       *)
Touched(f) ==
  {p \in older : f \notin {p[1], p[2]}}
    \cup {<<g, f>> : g \in {h \in Flow \ {f} : flows[h].valid}}

(* What flow_drop_slots empties when entry f is reset or zeroed.           *)
Droppable(f) == IF flows[f].valid THEN ValidIdx(slots[f]) ELSE {}

Known(f, k, e) == flows[f].valid /\ flows[f].key = k /\ flows[f].epoch = e

(* dp_udp_reorder_submit is called; flow_lookup finds the entry of the key *)
(* and epoch.                                                              *)
SubmitKnown(f, k, e) ==
  /\ Known(f, k, e)
  /\ flows' = [flows EXCEPT ![f].seen = 0]
  /\ Silent
  /\ UNCHANGED <<slots, held>>

(* flow_lookup resets the entry it found: new epoch, unused way or victim. *)
SubmitReset(f, k, e, s) ==
  /\ ~Known(f, k, e)
  /\ slots' = [slots EXCEPT ![f] = Clear(slots[f], Droppable(f))]
  /\ held' = Monus(held, Cardinality(Droppable(f)))
  /\ flows' = [flows EXCEPT ![f] = FreshFlow(k, e, s)]
  /\ last' = [last EXCEPT ![f] = NoSeq]
  /\ out' = Quiet

Submit(f, k, e, s, x) ==
  /\ pc = "idle" /\ cryptoOn /\ Way(k, f)
  /\ \/ SubmitKnown(f, k, e) /\ owned' = owned \cup {x}
     \/ /\ SubmitReset(f, k, e, s)
        /\ owned' = (owned \ ItemsAt(slots[f], Droppable(f))) \cup {x}
  /\ older' = Touched(f)
  /\ pc' = "expire"
  /\ cur' = [flow |-> f, seq |-> s, item |-> x]
  /\ UNCHANGED <<gcCursor, cryptoOn>>

(* A gap older than the hold time is skipped before seq is looked at.      *)
ExpireGap ==
  /\ pc = "expire"
  /\ pc' = "delta"
  /\ \/ GapDue(flows[cur.flow]) /\ SkipGap(cur.flow)
     \/ ~GapDue(flows[cur.flow]) /\ Silent /\ UNCHANGED <<flows, slots, held, owned>>
  /\ UNCHANGED <<older, gcCursor, cryptoOn, cur>>

CurDelta == SeqDelta(cur.seq, flows[cur.flow].next)

CurIdx == cur.seq % Window

CurSlot == slots[cur.flow][CurIdx]

(* The awaited datagram: emitted, and with it what waited behind it.       *)
EmitNext ==
  /\ pc \in {"delta", "recheck"}
  /\ CurDelta = 0
  /\ LET f == cur.flow
         n == SeqAdd(flows[f].next, 1)
         I == RunIdx(slots[f], n)
     IN  /\ flows' = [flows EXCEPT ![f] = Flushed(flows[f], slots[f], n)]
         /\ slots' = [slots EXCEPT ![f] = Clear(slots[f], I)]
         /\ held' = Monus(held, Cardinality(I))
         /\ owned' = owned \ ({cur.item} \cup ItemsAt(slots[f], I))
         /\ Emits([Quiet EXCEPT ![f] = <<cur.seq>> \o RunSeqs(slots[f], n)])
  /\ Return
  /\ UNCHANGED <<older, gcCursor, cryptoOn>>

(* flow_make_window_room, an iteration of its loop or the way out of it.   *)
InRoom == pc = "room" \/ (pc = "delta" /\ CurDelta > 0)

(* Mutant of OutOfRoom: off by one at the end of the window.               *)
OutOfRoomLate == CurDelta > Window

OutOfRoom == CurDelta >= Window

RoomSkip ==
  /\ InRoom
  /\ flows[cur.flow].held > 0 /\ OutOfRoom
  /\ SkipGap(cur.flow)
  /\ pc' = "room"
  /\ UNCHANGED <<older, gcCursor, cryptoOn, cur>>

(* An entry that holds nothing slides its window up to the datagram.       *)
RoomMade ==
  /\ InRoom
  /\ ~(flows[cur.flow].held > 0 /\ OutOfRoom)
  /\ pc' = "recheck"
  /\ flows' = [flows EXCEPT ![cur.flow].next =
                 IF OutOfRoom THEN SeqAdd(cur.seq, SeqMod - (Window - 1)) ELSE @]
  /\ Silent
  /\ UNCHANGED <<slots, held, older, gcCursor, cryptoOn, cur, owned>>

(* The worker holds too much: the gap of this entry is skipped first.      *)
CapSkip ==
  /\ pc = "recheck" /\ CurDelta > 0 /\ held >= HeldCap
  /\ SkipGap(cur.flow)
  /\ pc' = "capped"
  /\ UNCHANGED <<older, gcCursor, cryptoOn, cur>>

Late == pc \in {"delta", "recheck"} /\ CurDelta < 0

Overflow == pc = "capped" /\ held >= HeldCap

(* Mutant of MayStore: the cap is not tested again after the skip.         *)
MayStoreUncapped == pc = "capped" \/ (pc = "recheck" /\ CurDelta > 0)

MayStore ==
  /\ held < HeldCap
  /\ pc = "capped" \/ (pc = "recheck" /\ CurDelta > 0)

Duplicate == CurSlot.valid /\ CurSlot.seq = cur.seq

(* Mutant of DropItem: a duplicate is not given back to the pool.          *)
DropItemLeaks ==
  /\ Late \/ Overflow \/ (MayStore /\ Duplicate)
  /\ owned' = IF Late \/ Overflow THEN owned \ {cur.item} ELSE owned
  /\ Return
  /\ Silent
  /\ UNCHANGED <<flows, slots, held, older, gcCursor, cryptoOn>>

(* The datagram is dropped: behind next_seq, one too many, or held already. *)
DropItem ==
  /\ Late \/ Overflow \/ (MayStore /\ Duplicate)
  /\ owned' = owned \ {cur.item}
  /\ Return
  /\ Silent
  /\ UNCHANGED <<flows, slots, held, older, gcCursor, cryptoOn>>

(* The datagram takes its slot; another seq that sits there is dropped.    *)
StoreItem ==
  /\ MayStore /\ ~Duplicate
  /\ LET grow == IF CurSlot.valid THEN 0 ELSE 1
     IN  /\ flows' = [flows EXCEPT ![cur.flow].held = @ + grow,
                                   ![cur.flow].gap = IF @ = NoGap THEN 0 ELSE @]
         /\ held' = held + grow
  /\ slots' = [slots EXCEPT ![cur.flow][CurIdx] =
                 [valid |-> TRUE, seq |-> cur.seq, item |-> cur.item]]
  /\ owned' = owned \ (IF CurSlot.valid THEN {CurSlot.item} ELSE {})
  /\ Return
  /\ Silent
  /\ UNCHANGED <<older, gcCursor, cryptoOn>>

(* dp_udp_reorder_gc, called only while crypto is enabled: a slice of the  *)
(* entries.  A due gap is skipped; an entry that then holds nothing and    *)
(* idled too long is zeroed, its slots are not looked at.                  *)
InSlice(f) == (f - gcCursor) % Ways < GcSlice

GcSkips(f) == InSlice(f) /\ flows[f].valid /\ GapDue(flows[f])

(* Mutant of GcFlow: an idle entry is zeroed whatever it holds.            *)
GcFlowIdleOnly(f) ==
  LET fl == IF GcSkips(f) THEN SkipFlow(flows[f], slots[f]) ELSE flows[f]
  IN  IF InSlice(f) /\ fl.valid /\ fl.seen > Idle THEN EmptyFlow ELSE fl

GcFlow(f) ==
  LET fl == IF GcSkips(f) THEN SkipFlow(flows[f], slots[f]) ELSE flows[f]
  IN  IF InSlice(f) /\ fl.valid /\ fl.held = 0 /\ fl.seen > Idle
      THEN EmptyFlow ELSE fl

GcIdx(f) == IF GcSkips(f) THEN SkipIdx(flows[f], slots[f]) ELSE {}

GcPairs == {p \in Flow \X Idx : p[2] \in GcIdx(p[1])}

Gc ==
  /\ pc = "idle" /\ cryptoOn
  /\ flows' = [f \in Flow |-> GcFlow(f)]
  /\ slots' = [f \in Flow |-> Clear(slots[f], GcIdx(f))]
  /\ held' = Monus(held, Cardinality(GcPairs))
  /\ owned' = owned \ {slots[p[1]][p[2]].item : p \in GcPairs}
  /\ Emits([f \in Flow |-> IF GcSkips(f) THEN SkipSeqs(flows[f], slots[f]) ELSE << >>])
  /\ older' = {p \in older : GcFlow(p[1]).valid /\ GcFlow(p[2]).valid}
  /\ gcCursor' = (gcCursor + GcSlice) % Ways
  /\ UNCHANGED <<cryptoOn, pc, cur>>

(* dp_udp_reorder_reset_worker: everything held by valid entries is        *)
(* dropped, the entries and the counter are zeroed.                        *)
ResetWorker ==
  /\ pc = "idle"
  /\ slots' = [f \in Flow |-> Clear(slots[f], Droppable(f))]
  /\ owned' = owned \ UNION {ItemsAt(slots[f], Droppable(f)) : f \in Flow}
  /\ flows' = [f \in Flow |-> EmptyFlow]
  /\ held' = 0
  /\ older' = {}
  /\ gcCursor' = 0
  /\ last' = [f \in Flow |-> NoSeq]
  /\ out' = Quiet
  /\ UNCHANGED <<cryptoOn, pc, cur>>

(* The coarse clock advances; a call reads it once, at its start.          *)
Tick ==
  /\ pc = "idle"
  /\ flows' = [f \in Flow |->
       IF ~flows[f].valid THEN flows[f]
       ELSE [flows[f] EXCEPT !.gap = IF @ = NoGap THEN @ ELSE Least(@ + 1, Hold),
                             !.seen = Least(@ + 1, Idle + 1)]]
  /\ Silent
  /\ UNCHANGED <<slots, held, older, gcCursor, cryptoOn, pc, cur, owned>>

(* A reload installs a configuration with crypto switched on or off.       *)
ToggleCrypto ==
  /\ CryptoToggles /\ pc = "idle"
  /\ cryptoOn' = ~cryptoOn
  /\ Silent
  /\ UNCHANGED <<flows, slots, held, older, gcCursor, pc, cur, owned>>

SubmitStep ==
  ExpireGap \/ EmitNext \/ RoomSkip \/ RoomMade \/ CapSkip \/ DropItem \/ StoreItem

Next ==
  \/ \E f \in Flow, k \in Keys, e \in Epochs, s \in Seqs, x \in Frames \ owned :
       Submit(f, k, e, s, x)
  \/ SubmitStep
  \/ Gc
  \/ ResetWorker
  \/ Tick
  \/ ToggleCrypto

Spec == Init /\ [][Next]_vars

(* The worker runs a call to its end and, however many calls it makes,     *)
(* calls dp_udp_reorder_gc every 2048 iterations of its loop; the clock    *)
(* advances whether calls run or not (strong fairness: both are disabled   *)
(* here for the length of a call).                                         *)
FairSpec == Spec /\ WF_vars(SubmitStep) /\ SF_vars(Gc) /\ SF_vars(Tick)

----------------------------------------------------------------------------
(* Every variable keeps its type through submit, GC, reset and the clock.  *)
TypeOK ==
  /\ flows \in [Flow -> [valid : BOOLEAN, key : Keys \cup {NoKey}, epoch : Nat,
                         next : Seq32, gap : {NoGap} \cup 0..Hold,
                         seen : 0..(Idle + 1), held : Nat]]
  /\ slots \in [Flow -> [Idx -> [valid : BOOLEAN, seq : Seq32,
                                 item : Frames \cup {NoFrame}]]]
  /\ held \in Nat
  /\ older \subseteq Flow \X Flow
  /\ gcCursor \in Flow
  /\ cryptoOn \in BOOLEAN
  /\ pc \in {"idle", "expire", "delta", "room", "recheck", "capped"}
  /\ cur \in [flow : Flow, seq : Seq32, item : Frames \cup {NoFrame}]
  /\ owned \subseteq Frames
  /\ last \in [Flow -> Seq32 \cup {NoSeq}]
  /\ out \in [Flow -> Seq(Seq32)]

HeldAt == {p \in Flow \X Idx : slots[p[1]][p[2]].valid}

HeldItems == {slots[p[1]][p[2]].item : p \in HeldAt}

(* flow->held and g_held_by_worker, kept by increments and guarded         *)
(* decrements in six functions, count exactly the occupied slots: GC zeroes *)
(* an entry on the word of held alone, without looking at its slots.       *)
HeldCounts ==
  /\ held = Cardinality(HeldAt)
  /\ \A f \in Flow : flows[f].held = Cardinality(ValidIdx(slots[f]))

(* The buffer never holds more than HELD_CAP frames of the UMEM pool, over *)
(* all entries of the worker.                                              *)
HeldBounded == held <= HeldCap

InHand == IF pc = "idle" THEN {} ELSE {cur.item}

(* "Takes ownership of item in every return path: emit, hold, or drop":    *)
(* a frame handed to submit is the call's argument or sits in exactly one  *)
(* slot until it is emitted or dropped; none leaks through a reset, an     *)
(* eviction, an overwrite or GC, and none is released twice.               *)
Ownership ==
  /\ owned = InHand \cup HeldItems
  /\ \A p, q \in HeldAt :
       slots[p[1]][p[2]].item = slots[q[1]][q[2]].item => p = q
  /\ \A p \in HeldAt : slots[p[1]][p[2]].item \notin InHand \cup {NoFrame}
  /\ pc # "idle" => cur.item # NoFrame

Prior(f, i) == IF i = 1 THEN last[f] ELSE out'[f][i - 1]

(* Between two resets an entry emits strictly increasing sequence numbers, *)
(* wrap included: no datagram reaches the LAN twice or before an older one *)
(* that went out, whatever arrives late, twice or far ahead.               *)
InOrder ==
  [][\A f \in Flow : \A i \in DOMAIN out'[f] :
        Prior(f, i) # NoSeq => SeqDelta(out'[f][i], Prior(f, i)) > 0]_vars

(* What is held is ahead of next_seq and inside the window, each datagram  *)
(* in a slot that flow_flush_contiguous will look at.                      *)
HeldAhead ==
  \A f \in Flow : \A i \in ValidIdx(slots[f]) :
    /\ SeqDelta(slots[f][i].seq, flows[f].next) \in 1..(Window - 1)
    /\ slots[f][i].seq % Window = i

(* A call of dp_udp_reorder_submit returns: the loop of                    *)
(* flow_make_window_room ends.                                             *)
SubmitReturns == (pc # "idle") ~> (pc = "idle")

(* No datagram is held for ever: the gap in front of it closes or is       *)
(* skipped after the hold time.  Only a reload that disables crypto for    *)
(* good can keep it, since the worker then calls dp_udp_reorder_gc no more. *)
HeldLeaves ==
  <>[]cryptoOn => \A x \in Frames : (x \in HeldItems) ~> (x \notin HeldItems)
=============================================================================
