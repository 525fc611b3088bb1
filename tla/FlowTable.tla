------------------------------ MODULE FlowTable ------------------------------
(***************************************************************************)
(* The smooth weighted round robin of one crypto worker (flow_table.c):    *)
(* one set of its flow table, least recently used entry first out, and the *)
(* entry that serves packets without a flow.  Each pick brings its own     *)
(* pool, a list of WANs with weights; an entry keeps its counters as long  *)
(* as the list stays the same, whatever happens to the weights.            *)
(*                                                                         *)
(* fwd_wan_build_profile_pool gives every WAN of a pool a weight of at     *)
(* least 1, so the branches for weight <= 0 never run and are left out.    *)
(***************************************************************************)
EXTENDS Integers, Sequences, FiniteSets, FiniteSetsExt, SequencesExt

CONSTANTS
  Flows,    \* normalised 5-tuples that hash to this set
  NoFlow,   \* key of an entry that serves no flow
  Ways,     \* FLOW_SWRR_WAYS
  Hash,     \* flow_hash of each flow
  Pools     \* pools the WAN scheduler builds: [wans, weights]

ASSUME FlowTableAssumption ==
  /\ NoFlow \notin Flows /\ Ways \in Nat \ {0} /\ Hash \in [Flows -> Nat]
  /\ IsFiniteSet(Pools) /\ Pools \subseteq [wans : Seq(Nat), weights : Seq(Nat \ {0})]
  /\ \A p \in Pools : Len(p.wans) = Len(p.weights) /\ Len(p.wans) > 0

Way == 1..Ways
Default == 0             \* the place of g_default_swrr
Place == {Default} \cup Way

VARIABLES
  entry,      \* g_flow_swrr and g_default_swrr
  stamps,     \* valid ways, the one with the smallest stamp first
  allocated,  \* g_flow_swrr # NULL
  given,      \* history: the WANs each entry gave since its reset, by round
  steady      \* history: the pool of each entry since its reset, or a mark

flowVars == <<entry, stamps, allocated, given, steady>>

Empty == [valid |-> FALSE, key |-> NoFlow, wans |-> <<>>, current |-> <<>>, tie |-> 1]

Mixed == [wans |-> <<>>, weights |-> <<>>]   \* the weights changed

Total(p) == SumFunction(p.weights)

(* Positions of a pool, in the order the scan that starts at tie sees them. *)
Rank(i, tie, n) == (i - tie) % n

(* tie_start after position b was picked; positions count from 1 here.     *)
Tie(b, n) == (b % n) + 1

(* flow_swrr_pool_same compares the WANs and not their weights.            *)
SameList(e, p) == e.valid /\ e.wans = p.wans

(* flow_swrr_reset.                                                        *)
Fresh(e, key, hash, p) ==
  [valid |-> TRUE, key |-> key, wans |-> p.wans,
   current |-> [i \in DOMAIN p.wans |-> 0], tie |-> (hash % Len(p.wans)) + 1]

(* The counters with the weights added, and the position the scan takes:   *)
(* the first one from tie on among those with the largest counter.         *)
Raised(e, p) == [i \in DOMAIN p.wans |-> e.current[i] + p.weights[i]]

(* Mutant of Best: the scan compares the weights, not the counters.        *)
BestHeaviest(e, p) ==
  LET top == {i \in DOMAIN p.weights : \A j \in DOMAIN p.weights : p.weights[j] <= p.weights[i]}
  IN  CHOOSE i \in top : \A j \in top : i <= j

Best(e, p) ==
  LET c == Raised(e, p)
      top == {i \in DOMAIN c : \A j \in DOMAIN c : c[j] <= c[i]}
  IN  CHOOSE i \in top : \A j \in top :
        Rank(i, e.tie, Len(p.wans)) <= Rank(j, e.tie, Len(p.wans))

(* Mutant of Served: the winner pays back its own weight, not the total.   *)
ServedOwn(e, p) ==
  IF Len(p.wans) = 1 THEN e
  ELSE [e EXCEPT !.current = [Raised(e, p) EXCEPT ![Best(e, p)] = @ - p.weights[Best(e, p)]],
                 !.tie = Tie(Best(e, p), Len(p.wans))]

(* flow_swrr_pick: a pool of one leaves the entry as it is.                *)
Served(e, p) ==
  IF Len(p.wans) = 1 THEN e
  ELSE [e EXCEPT !.current = [Raised(e, p) EXCEPT ![Best(e, p)] = @ - Total(p)],
                 !.tie = Tie(Best(e, p), Len(p.wans))]

Choice(e, p) == IF Len(p.wans) = 1 THEN 1 ELSE Best(e, p)

FlowInit ==
  /\ entry = [x \in Place |-> Empty]
  /\ stamps = <<>> /\ allocated = FALSE
  /\ given = [x \in Place |-> <<>>] /\ steady = [x \in Place |-> Mixed]

(* A pick on the entry at x, reset first when it serves another flow or    *)
(* another list.  A round ends after Total picks, and the history with it. *)
Pick(x, key, hash, p) ==
  LET keep == SameList(entry[x], p) /\ entry[x].key = key
      e == IF keep THEN entry[x] ELSE Fresh(entry[x], key, hash, p)
      old == IF keep /\ Len(given[x]) < Total(p) THEN given[x] ELSE <<>>
  IN  /\ entry' = [entry EXCEPT ![x] = Served(e, p)]
      /\ steady' = [steady EXCEPT ![x] = IF ~keep \/ @ = p THEN p ELSE Mixed]
      /\ given' = [given EXCEPT ![x] =
                      IF keep /\ steady[x] # p THEN <<>> ELSE Append(old, Choice(e, p))]

(* The way flow_table_pick_wan_per_flow_packet ends with: the flow's own,  *)
(* else the last one that is free, else the least recently used.           *)
WayOf(f) ==
  LET own == {x \in Way : entry[x].valid /\ entry[x].key = f}
      free == {x \in Way : ~entry[x].valid}
  IN  IF own # {} THEN CHOOSE x \in own : \A y \in own : x <= y
      ELSE IF free # {} THEN CHOOSE x \in free : \A y \in free : y <= x
      ELSE Head(stamps)

PickFlow(f, p) ==
  /\ LET x == WayOf(f)
     IN  /\ Pick(x, f, Hash[f], p)
         /\ stamps' = Append(SelectSeq(stamps, LAMBDA y : y # x), x)
  /\ allocated' = TRUE

(* A packet without a flow, or one for which calloc fails.                 *)
PickPacket(p) ==
  /\ Pick(Default, NoFlow, 0, p)
  /\ UNCHANGED <<stamps, allocated>>

(* flow_table_thread_cleanup; the worker's next run starts from nothing.   *)
Cleanup ==
  /\ entry' = [x \in Place |-> Empty]
  /\ stamps' = <<>> /\ allocated' = FALSE
  /\ given' = [x \in Place |-> <<>>] /\ steady' = [x \in Place |-> Mixed]

FlowNext ==
  \/ \E f \in Flows, p \in Pools : PickFlow(f, p)
  \/ \E p \in Pools : PickPacket(p)
  \/ Cleanup

FlowSpec == FlowInit /\ [][FlowNext]_flowVars

----------------------------------------------------------------------------
(* Every variable keeps its type; tie stays inside the list.               *)
FlowTypeOK ==
  /\ \A x \in Place :
       /\ entry[x].valid \in BOOLEAN /\ entry[x].key \in Flows \cup {NoFlow}
       /\ Len(entry[x].current) = Len(entry[x].wans)
       /\ entry[x].tie \in 1..(Max({1, Len(entry[x].wans)}))
  /\ Range(stamps) \subseteq Way /\ allocated \in BOOLEAN
  /\ steady \in [Place -> Pools \cup {Mixed}]

Times(x, i) == Cardinality({k \in DOMAIN given[x] : given[x][k] = i})

Constant(x) == steady[x] # Mixed

(* The configured ratio, exactly: as long as a flow's pool stays the same, *)
(* every round of as many picks as the weights sum to takes each WAN as    *)
(* often as its weight says.  Within a round no WAN gets more than that,   *)
(* none runs ahead of its share by a whole pick, and one falls behind it   *)
(* by no more than the others can be ahead.                                *)
Proportional ==
  \A x \in Place : Constant(x) =>
    LET p == steady[x] k == Len(given[x]) t == Total(p)
    IN  \A i \in DOMAIN p.wans :
          /\ Times(x, i) <= p.weights[i]
          /\ k = t => Times(x, i) = p.weights[i]
          /\ Times(x, i) * t - k * p.weights[i] \in (1 - t) * (Len(p.wans) - 1)..(t - 1)

(* Whatever the weights do from pick to pick (a blend, a ramp, a dead WAN  *)
(* whose weight moves to the others), the debts of a list sum to zero, no  *)
(* WAN owes a whole round of the heaviest pool, and none is owed more than *)
(* the others owe: no change of weights builds up a debt that grows with   *)
(* the traffic.                                                            *)
DebtBounded ==
  \A x \in Place :
    LET c == entry[x].current
        h == Max({Total(p) : p \in Pools})
    IN  /\ SumFunction(c) = 0
        /\ \A i \in DOMAIN c : c[i] \in (1 - h)..((h - 1) * (Len(c) - 1))
=============================================================================
