--------------------------- MODULE XdpPlumbProofs ---------------------------
(* Proofs about opening and closing the interfaces, for every number of    *)
(* LANs, WANs and queues, every set of configurations and any bound on the *)
(* steps that fail.                                                        *)
EXTENDS XdpPlumb, FiniteSetTheorems, TLAPS

(***************************************************************************)
(* The least, the greatest and the k-th of finitely many numbers.          *)
(***************************************************************************)

(* Below each but the first of k numbers there is one number more.         *)
LEMMA Ranked ==
  ASSUME NEW T, T \subseteq Int, IsFiniteSet(T), NEW k \in 0..(Cardinality(T) - 1)
  PROVE  \E w \in T : Cardinality({v \in T : v < w}) = k
<1> DEFINE Below(w) == {v \in T : v < w}
           n == Cardinality(T)
           f == [w \in T |-> Cardinality(Below(w))]
<1>1. n \in Nat
  BY FS_CardinalityType
<1>2. \A w \in T : IsFiniteSet(Below(w)) /\ Cardinality(Below(w)) \in 0..(n - 1)
  <2>1. SUFFICES ASSUME NEW w \in T
                 PROVE  IsFiniteSet(Below(w)) /\ Cardinality(Below(w)) \in 0..(n - 1)
    OBVIOUS
  <2>2. Below(w) \in SUBSET T
    OBVIOUS
  <2>3. /\ IsFiniteSet(Below(w)) /\ Cardinality(Below(w)) <= n
        /\ n = Cardinality(Below(w)) => T = Below(w)
    BY <2>2, FS_Subset
  <2>4. T # Below(w)
    OBVIOUS
  <2>5. Cardinality(Below(w)) \in Nat
    BY <2>3, FS_CardinalityType
  <2> HIDE DEF Below, n
  <2> QED
    BY <2>3, <2>4, <2>5, <1>1
<1>3. \A v, w \in T : v < w => Cardinality(Below(v)) < Cardinality(Below(w))
  <2>1. SUFFICES ASSUME NEW v \in T, NEW w \in T, v < w
                 PROVE  Cardinality(Below(v)) < Cardinality(Below(w))
    OBVIOUS
  <2>2. Below(v) \in SUBSET Below(w)
    <3>1. v \in Int /\ w \in Int /\ \A u \in T : u \in Int
      OBVIOUS
    <3>2. \A u \in T : u < v => u < w
      BY <2>1, <3>1
    <3> QED
      BY <3>2
  <2>3. v \in Below(w) /\ v \notin Below(v)
    BY <2>1
  <2>4. IsFiniteSet(Below(w))
    BY <1>2
  <2>5. /\ Cardinality(Below(v)) <= Cardinality(Below(w))
        /\ Cardinality(Below(w)) = Cardinality(Below(v)) => Below(w) = Below(v)
    BY <2>2, <2>4, FS_Subset
  <2>6. Cardinality(Below(v)) \in Int /\ Cardinality(Below(w)) \in Int
    BY <1>2
  <2> HIDE DEF Below
  <2> QED
    BY <2>3, <2>5, <2>6
<1>4. f \in Injection(T, 0..(n - 1))
  <2>1. f \in [T -> 0..(n - 1)]
    BY <1>2
  <2>2. ASSUME NEW v \in T, NEW w \in T, f[v] = f[w]
        PROVE  v = w
    <3>1. Cardinality(Below(v)) = Cardinality(Below(w))
      BY <2>2
    <3>2. Cardinality(Below(v)) \in Int /\ Cardinality(Below(w)) \in Int
      BY <1>2
    <3> HIDE DEF Below, f
    <3>3. ~(v < w) /\ ~(w < v)
      BY <1>3, <3>1, <3>2
    <3> QED
      BY <3>3
  <2> HIDE DEF f
  <2> QED
    BY <2>1, <2>2 DEF Injection, IsInjective
<1>5. IsFiniteSet(0..(n - 1)) /\ Cardinality(0..(n - 1)) = n
  <2> HIDE DEF n
  <2> QED
    BY <1>1, FS_Interval
<1>6. f \in Surjection(T, 0..(n - 1))
  <2> HIDE DEF f
  <2> QED
    BY <1>4, <1>5, FS_Injection
<1>7. PICK w \in T : f[w] = k
  BY <1>6 DEF Surjection
<1> QED
  BY <1>7

(* A finite set of numbers has a least one.                                *)
LEMMA MinIsLeast ==
  ASSUME NEW T, T \subseteq Int, IsFiniteSet(T), T # {}
  PROVE  Min(T) \in T /\ \A y \in T : Min(T) <= y
<1>1. Cardinality(T) \in Nat /\ Cardinality(T) # 0
  BY FS_CardinalityType, FS_EmptySet
<1>2. 0 \in 0..(Cardinality(T) - 1)
  BY <1>1
<1>3. PICK w \in T : Cardinality({v \in T : v < w}) = 0
  BY <1>2, Ranked
<1>4. {v \in T : v < w} \in SUBSET T
  OBVIOUS
<1>5. IsFiniteSet({v \in T : v < w})
  BY <1>4, FS_Subset
<1>6. {v \in T : v < w} = {}
  BY <1>3, <1>5, FS_EmptySet
<1>7. \A y \in T : w <= y
  BY <1>6
<1> QED
  BY <1>7 DEF Min

(* And a greatest one.                                                     *)
LEMMA MaxIsGreatest ==
  ASSUME NEW T, T \subseteq Int, IsFiniteSet(T), T # {}
  PROVE  Max(T) \in T /\ \A y \in T : Max(T) >= y
<1> DEFINE n == Cardinality(T)
<1>1. n \in Nat /\ n # 0
  BY FS_CardinalityType, FS_EmptySet
<1>2. n - 1 \in 0..(n - 1)
  BY <1>1
<1>3. PICK w \in T : Cardinality({v \in T : v < w}) = n - 1
  BY <1>2, Ranked
<1> DEFINE B == {v \in T : v < w}
<1>4. B \in SUBSET (T \ {w})
  OBVIOUS
<1>5. IsFiniteSet(T \ {w}) /\ Cardinality(T \ {w}) = n - 1
  BY FS_RemoveElement
<1>6. T \ {w} = B
  <2> HIDE DEF B, n
  <2> QED
    BY <1>3, <1>4, <1>5, FS_Subset DEF B
<1>7. \A y \in T : w >= y
  BY <1>6
<1> QED
  BY <1>7 DEF Max

(***************************************************************************)
(* The inductive invariant.                                                *)
(***************************************************************************)

(* The dataplane is up, or being closed.                                   *)
Up == {"attach", "rings", "run", "sync", "bind", "rollback", "failed"}
Phase == {"down", "open", "sockets", "xsk", "bpf", "off", "umem", "promisc"} \cup Up

Slots == [name : Port \cup {NoPort}, nq : Nat, xsk : Nat, bpf : BOOLEAN, on : BOOLEAN,
          live : BOOLEAN]

(* The control side of TypeOK: all but the frames and the threads.         *)
PlumbType ==
  /\ slot \in [Port -> Slots]
  /\ umem \in BOOLEAN /\ crashed \in BOOLEAN
  /\ link \subseteq Port /\ promisc \subseteq Port
  /\ pc \in Phase
  /\ at \in Nat /\ cfg \in Cfgs /\ next \in Cfgs /\ wanCount \in 0..Wans
  /\ added \subseteq Wan /\ draining \subseteq Wan

(* While the pair is opened the slots are those of the configuration, in   *)
(* its order, and none is attached before its turn.                        *)
OpenInv ==
  /\ pc \in {"down", "open", "promisc"} => \A s \in Port : slot[s] = EmptySlot
  /\ pc \in {"down", "open", "sockets", "attach", "rings", "promisc"} => draining = {}
  /\ pc \in {"sockets", "attach"} => wanCount = Cardinality(cfg)
  /\ pc = "sockets" => \A s \in Port :
       /\ ~slot[s].on /\ ~slot[s].bpf
       /\ s \in Planned(cfg) /\ s < at => slot[s].name = NameAt(cfg, s)
  /\ pc = "attach" => \A s \in Planned(cfg) :
       slot[s].name = NameAt(cfg, s) /\ slot[s].live /\ (slot[s].on => s < at)

(* Once it is open: an attached slot is live, a live one is in use, and no *)
(* two live slots hold the same interface.                                 *)
LiveInv ==
  pc \in Up =>
    /\ \A s \in Port : /\ slot[s].on => slot[s].live
                       /\ slot[s].live => s \in InUse /\ slot[s].name \in Port
    /\ \A s, t \in Port : slot[s].live /\ slot[t].live /\ slot[s].name = slot[t].name => s = t

(* What a reload works on.                                                 *)
ReloadInv ==
  /\ pc \in {"run", "sync", "bind"} => \A s \in draining : slot[s].live
  /\ pc \in {"sync", "bind", "rollback"} => \A s \in added : slot[s].live
  /\ pc = "bind" => at \in Wan /\ slot[at].live /\ ~slot[at].on

(* Sockets, objects and programs come and go together, up to the closing   *)
(* sequence; that takes them away in its order.                            *)
CloseInv ==
  /\ \A s \in Port : slot[s].xsk > 0 => slot[s].nq > 0
  /\ pc \notin {"bpf", "off", "umem"} =>
       \A s \in Port : slot[s].bpf = slot[s].on /\ (slot[s].on => s \in InUse)
  /\ pc = "xsk" => \A s \in Port : slot[s].on => slot[s].name \in Port
  /\ pc = "bpf" => \A s \in Port : slot[s].bpf => s \in InUse
  /\ pc \in {"bpf", "off", "umem"} => \A s \in Port : slot[s].xsk = 0
  /\ pc \in {"off", "umem"} => \A s \in Port : ~slot[s].bpf
  /\ pc \in {"umem", "promisc"} => link = {}
  /\ pc \in {"promisc", "down"} => ~umem
  /\ pc = "down" /\ ~crashed => link = {} /\ promisc = {}

(* ProgramsTracked, interface by interface.                                *)
LinkInv ==
  pc \notin {"down", "bpf", "off", "umem", "promisc"} =>
    \A p \in Port : p \in link <=> \E s \in Port : slot[s].on /\ slot[s].name = p

IInv == PlumbType /\ OpenInv /\ LiveInv /\ ReloadInv /\ CloseInv /\ LinkInv

----------------------------------------------------------------------------
(* Numbers, and what the operators of the model return.                    *)

(* Ports are finitely many numbers.                                        *)
LEMMA PortFacts ==
  /\ IsFiniteSet(Port) /\ Port \subseteq Nat /\ Wan \subseteq Port
  /\ Wan = Lans..(Lans + Wans - 1) /\ IsFiniteSet(Wan) /\ Cardinality(Wan) = Wans
  /\ NoPort \notin Port
<1>1. /\ Port \subseteq Nat /\ Wan \subseteq Port
      /\ Wan = Lans..(Lans + Wans - 1) /\ NoPort \notin Port
  BY XskAssumption DEF Port, Lan, Wan, NoPort
<1>2. IsFiniteSet(Port)
  <2>1. 0 \in Int /\ Lans + Wans - 1 \in Int
    BY XskAssumption
  <2> QED
    BY <2>1, FS_Interval DEF Port
<1>3. IsFiniteSet(Wan) /\ Cardinality(Wan) = Wans
  <2>1. PICK b \in Int : b = Lans + Wans - 1
    BY XskAssumption
  <2>2. Lans \in Int
    BY XskAssumption
  <2>3. IsFiniteSet(Lans..b) /\ Cardinality(Lans..b) = IF Lans > b THEN 0 ELSE b - Lans + 1
    BY <2>2, FS_Interval
  <2>4. Cardinality(Lans..b) = Wans
    BY <2>1, <2>3, XskAssumption
  <2> QED
    BY <2>1, <2>3, <2>4, <1>1
<1> QED
  BY <1>1, <1>2, <1>3

(* A configuration's WANs find a slot each.                                *)
LEMMA CfgFacts ==
  ASSUME NEW c \in Cfgs
  PROVE  /\ c \subseteq Wan /\ IsFiniteSet(c) /\ Cardinality(c) \in 0..Wans
         /\ Planned(c) \subseteq Port
<1>1. c \in SUBSET Wan
  BY PlumbAssumption
<1>2. IsFiniteSet(c) /\ Cardinality(c) <= Wans
  BY <1>1, PortFacts, FS_Subset
<1>3. Cardinality(c) \in Nat
  BY <1>2, FS_CardinalityType
<1>4. Cardinality(c) \in 0..Wans
  BY <1>2, <1>3, XskAssumption
<1>5. Planned(c) \subseteq Port
  BY <1>4, XskAssumption DEF Planned, Port
<1> QED
  BY <1>1, <1>2, <1>4, <1>5

(* config_wan_dp_to_cfg gives each slot an interface of its own.           *)
LEMMA NamesDiffer ==
  ASSUME NEW c \in Cfgs
  PROVE  /\ \A s \in Planned(c) : NameAt(c, s) \in Port
         /\ \A s, t \in Planned(c) : NameAt(c, s) = NameAt(c, t) => s = t
<1> DEFINE Rank(w) == Cardinality({v \in c : v < w})
<1>1. ASSUME NEW s \in Planned(c), s \notin Lan
      PROVE  NameAt(c, s) \in c /\ Rank(NameAt(c, s)) = s - Lans
  <2>1. s - Lans \in 0..(Cardinality(c) - 1)
    BY <1>1, CfgFacts, XskAssumption DEF Planned, Lan
  <2>2. c \subseteq Int
    BY CfgFacts, PortFacts
  <2>3. \E w \in c : Rank(w) = s - Lans
    <3>1. IsFiniteSet(c)
      BY CfgFacts
    <3> QED
      BY <2>1, <2>2, <3>1, Ranked
  <2>4. NameAt(c, s) = CHOOSE w \in c : Rank(w) = s - Lans
    BY <1>1 DEF NameAt
  <2> HIDE DEF Rank
  <2> QED
    BY <2>3, <2>4
<1>2. ASSUME NEW s \in Planned(c), s \in Lan
      PROVE  NameAt(c, s) = s
  BY <1>2 DEF NameAt
<1>3. c \subseteq Wan /\ Planned(c) \subseteq Port
  BY CfgFacts
<1>4. \A s \in Planned(c) : NameAt(c, s) \in Port
  BY <1>1, <1>2, <1>3, PortFacts
<1>5. ASSUME NEW s \in Planned(c), NEW t \in Planned(c), NameAt(c, s) = NameAt(c, t)
      PROVE  s = t
  <2>1. CASE s \in Lan
    BY <2>1, <1>1, <1>2, <1>3, <1>5 DEF Wan
  <2>2. CASE t \in Lan
    BY <2>2, <1>1, <1>2, <1>3, <1>5 DEF Wan
  <2>3. CASE s \notin Lan /\ t \notin Lan
    <3> HIDE DEF Rank
    <3>1. s - Lans = t - Lans
      BY <2>3, <1>1, <1>5
    <3>2. s \in Port /\ t \in Port
      BY <1>3
    <3>3. s \in Int /\ t \in Int /\ Lans \in Int
      BY <3>2, XskAssumption DEF Port
    <3> QED
      BY <3>1, <3>3
  <2> QED
    BY <2>1, <2>2, <2>3
<1> QED
  BY <1>4, <1>5

(* What opening, attaching and detaching a slot leave in it.               *)
LEMMA SlotOps ==
  /\ EmptySlot \in Slots
  /\ EmptySlot.on = FALSE /\ EmptySlot.bpf = FALSE /\ EmptySlot.live = FALSE
  /\ EmptySlot.xsk = 0 /\ EmptySlot.nq = 0
  /\ \A sl \in Slots, p \in Port, n \in Nat :
       LET o == Opened(sl, p, n)
       IN  /\ o \in Slots /\ o.name = p /\ o.nq = n /\ o.xsk = n
           /\ o.bpf = sl.bpf /\ o.on = sl.on /\ o.live = sl.live
  /\ \A sl \in Slots :
       LET o == Bound(sl)
       IN  /\ o \in Slots /\ o.name = sl.name /\ o.nq = sl.nq /\ o.xsk = sl.xsk
           /\ o.bpf /\ o.on /\ o.live = sl.live
  /\ \A sl \in Slots :
       LET o == Detached(sl)
       IN  /\ o \in Slots /\ o.name = sl.name /\ o.nq = sl.nq /\ o.xsk = 0
           /\ ~o.bpf /\ ~o.on /\ o.live = sl.live
<1>1. /\ EmptySlot \in Slots
      /\ EmptySlot.on = FALSE /\ EmptySlot.bpf = FALSE /\ EmptySlot.live = FALSE
      /\ EmptySlot.xsk = 0 /\ EmptySlot.nq = 0
  BY DEF EmptySlot, Slots, NoPort
<1>2. ASSUME NEW sl \in Slots, NEW p \in Port, NEW n \in Nat
      PROVE  LET o == Opened(sl, p, n)
             IN  /\ o \in Slots /\ o.name = p /\ o.nq = n /\ o.xsk = n
                 /\ o.bpf = sl.bpf /\ o.on = sl.on /\ o.live = sl.live
  BY DEF Slots, Opened
<1>3. ASSUME NEW sl \in Slots
      PROVE  LET o == Bound(sl)
             IN  /\ o \in Slots /\ o.name = sl.name /\ o.nq = sl.nq /\ o.xsk = sl.xsk
                 /\ o.bpf /\ o.on /\ o.live = sl.live
  BY DEF Slots, Bound
<1>4. ASSUME NEW sl \in Slots
      PROVE  LET o == Detached(sl)
             IN  /\ o \in Slots /\ o.name = sl.name /\ o.nq = sl.nq /\ o.xsk = 0
                 /\ ~o.bpf /\ ~o.on /\ o.live = sl.live
  BY DEF Slots, Detached
<1> QED
  BY <1>1, <1>2, <1>3, <1>4

(* The numbers of interfaces.                                              *)
LEMMA Counts == Lans \in Nat /\ Wans \in Nat /\ Lans > 0
  BY XskAssumption

(* The slots in use are slots.                                             *)
LEMMA InUseFacts ==
  ASSUME PlumbType
  PROVE  InUse \subseteq Port /\ \A s \in Port : s \in InUse <=> s < Lans + wanCount
  BY XskAssumption DEF PlumbType, InUse, Port

(* Steps that only move on: a part is done, a reload begins, an end.       *)
LEMMA MoveOn ==
  ASSUME IInv, NEW c \in Cfgs, InitAborts \/ AttachDone \/ RunBegins \/ Reload(c) \/ Stop
  PROVE  IInv'
<1> USE DEF Up, Phase
<1>0. PlumbType /\ OpenInv /\ LiveInv /\ ReloadInv /\ CloseInv /\ LinkInv
  BY DEF IInv
<1>1. UNCHANGED <<slot, umem, link, promisc, wanCount, cfg, crashed>>
  BY DEF InitAborts, AttachDone, RunBegins, Reload, Stop, xskVars, kernelVars
<1>2. /\ pc' \in {"xsk", "rings", "run", "sync"}
      /\ pc' = "xsk" => pc \in {"open", "rings", "run", "failed"}
      /\ pc' = "rings" => pc = "attach" /\ draining' = draining
      /\ pc' = "run" => pc = "rings" /\ draining' = draining
      /\ pc' = "sync" => pc = "run" /\ added' = {}
                         /\ \A s \in draining' : s \in draining \/ slot[s].on
      /\ at' \in {0, at} /\ next' \in {next, c}
      /\ added' \in {{}, added}
      /\ draining' \subseteq draining \cup (InUse \cap Wan)
  BY DEF InitAborts, AttachDone, RunBegins, Reload, Stop
<1>3. InUse' = InUse
  BY <1>1 DEF InUse
<1>4. PlumbType'
  <2>1. added' \subseteq Wan /\ draining' \subseteq Wan
    BY <1>0, <1>2 DEF PlumbType
  <2>2. at' \in Nat /\ next' \in Cfgs /\ pc' \in Phase
    BY <1>0, <1>2 DEF PlumbType
  <2> QED
    BY <1>0, <1>1, <2>1, <2>2 DEF PlumbType
<1>5. OpenInv'
  BY <1>0, <1>1, <1>2 DEF OpenInv
<1>6. LiveInv'
  <2>1. CASE pc' = "xsk"
    BY <2>1 DEF LiveInv
  <2>2. CASE pc' # "xsk"
    BY <2>2, <1>0, <1>1, <1>2, <1>3 DEF LiveInv
  <2> QED
    BY <2>1, <2>2
<1>7. ReloadInv'
  <2>1. \A s \in Wan : pc = "run" /\ slot[s].on => slot[s].live
    BY <1>0, PortFacts DEF LiveInv
  <2>2. \A s \in draining' : s \in Wan
    BY <1>4 DEF PlumbType
  <2> QED
    BY <2>1, <2>2, <1>0, <1>1, <1>2 DEF ReloadInv, OpenInv
<1>8. CloseInv'
  <2>1. pc' = "xsk" => \A s \in Port : slot[s].on => slot[s].name \in Port
    BY <1>0, <1>2, SlotOps DEF OpenInv, LiveInv
  <2> QED
    BY <2>1, <1>0, <1>1, <1>2, <1>3 DEF CloseInv
<1>9. LinkInv'
  BY <1>0, <1>1, <1>2 DEF LinkInv
<1> QED
  BY <1>4, <1>5, <1>6, <1>7, <1>8, <1>9 DEF IInv

(* The counts are set right after a reload.                                *)
LEMMA LiveCounted ==
  ASSUME PlumbType, LiveInv, pc \in Up
  PROVE  /\ LiveCount \in 0..Wans
         /\ \A s \in Wan : slot[s].live => s < Lans + LiveCount
<1> DEFINE L == {s - Lans + 1 : s \in {w \in Wan : slot[w].live}}
<1>1. L \in SUBSET (0..Wans)
  BY PortFacts, XskAssumption
<1>2. IsFiniteSet(0..Wans)
  <2>1. 0 \in Int /\ Wans \in Int
    BY XskAssumption
  <2> QED
    BY <2>1, FS_Interval
<1>3. {0} \cup L \in SUBSET (0..Wans)
  BY <1>1, XskAssumption
<1>4. IsFiniteSet({0} \cup L)
  BY <1>2, <1>3, FS_Subset
<1>5. {0} \cup L \subseteq Int /\ {0} \cup L # {}
  BY <1>3
<1>6. LiveCount \in {0} \cup L /\ \A y \in {0} \cup L : LiveCount >= y
  <2>1. LiveCount = Max({0} \cup L)
    BY DEF LiveCount
  <2> HIDE DEF L
  <2> QED
    BY <2>1, <1>4, <1>5, MaxIsGreatest
<1>7. LiveCount \in 0..Wans
  BY <1>3, <1>6
<1>8. ASSUME NEW s \in Wan, slot[s].live
      PROVE  s < Lans + LiveCount
  <2>1. s - Lans + 1 \in L
    BY <1>8
  <2>2. LiveCount >= s - Lans + 1
    BY <2>1, <1>6
  <2>3. s \in Int /\ Lans \in Int /\ LiveCount \in Int
    BY <1>7, PortFacts, XskAssumption
  <2> HIDE DEF L
  <2> QED
    BY <2>2, <2>3
<1> QED
  BY <1>7, <1>8

(* The end of a reload, done or rolled back: no live slot falls out of     *)
(* use.                                                                    *)
LEMMA Recount ==
  ASSUME IInv, SyncDone \/ RollbackDone
  PROVE  IInv'
<1> USE DEF Up, Phase
<1>0. PlumbType /\ OpenInv /\ LiveInv /\ ReloadInv /\ CloseInv /\ LinkInv
  BY DEF IInv
<1>1. /\ UNCHANGED <<slot, umem, link, promisc, crashed, at, next, draining>>
      /\ cfg' \in {cfg, next} /\ wanCount' \in {wanCount, LiveCount} /\ added' = {}
      /\ \/ pc = "sync" /\ pc' = "run"
         \/ pc = "rollback" /\ pc' = "failed"
  BY DEF SyncDone, RollbackDone, xskVars, kernelVars
<1>2. /\ LiveCount \in 0..Wans
      /\ \A s \in Wan : slot[s].live => s < Lans + LiveCount
  BY <1>0, <1>1, LiveCounted
<1>3. PlumbType'
  BY <1>0, <1>1, <1>2 DEF PlumbType
<1>4. \A s \in Port : slot[s].live => s \in InUse'
  <2>1. wanCount' \in Nat
    BY <1>3, XskAssumption DEF PlumbType
  <2>2. PICK k \in Nat : k = wanCount'
    BY <2>1
  <2>3. SUFFICES ASSUME NEW s \in Port, slot[s].live
                 PROVE  s < Lans + k
    <3>1. \A s \in Port : s < Lans + k => s \in 0..(Lans + k - 1)
      BY Counts DEF Port
    <3>2. InUse' = 0..(Lans + k - 1)
      BY <2>2 DEF InUse
    <3> QED
      BY <3>1, <3>2
  <2>4. s < Lans + wanCount
    BY <2>3, <1>0, <1>1, InUseFacts DEF LiveInv
  <2>5. s \in Lan => s < Lans + k
    BY Counts DEF Lan
  <2>6. s \notin Lan => s \in Wan
    BY DEF Wan
  <2> QED
    BY <2>2, <2>3, <2>4, <2>5, <2>6, <1>1, <1>2
<1>5. OpenInv'
  BY <1>1 DEF OpenInv
<1>6. LiveInv'
  BY <1>0, <1>1, <1>4 DEF LiveInv
<1>7. ReloadInv'
  BY <1>0, <1>1 DEF ReloadInv
<1>8. CloseInv'
  <2>1. \A s \in Port : slot[s].on => slot[s].live
    BY <1>0, <1>1 DEF LiveInv
  <2> QED
    BY <2>1, <1>0, <1>1, <1>4 DEF CloseInv
<1>9. LinkInv'
  BY <1>0, <1>1 DEF LinkInv
<1> QED
  BY <1>3, <1>5, <1>6, <1>7, <1>8, <1>9 DEF IInv

(* The closing sequence, one part after the other.                         *)
LEMMA ClosePart ==
  ASSUME IInv, DeleteXsks \/ CloseBpf \/ AllLinksOff
  PROVE  IInv'
<1> USE DEF Up, Phase
<1>0. PlumbType /\ OpenInv /\ LiveInv /\ ReloadInv /\ CloseInv /\ LinkInv
  BY DEF IInv
<1>1. /\ UNCHANGED <<umem, promisc, wanCount, cfg, crashed, at, next, added, draining>>
      /\ \/ pc = "xsk" /\ pc' = "bpf" /\ link' = link
         \/ pc = "bpf" /\ pc' = "off" /\ link' = link
         \/ pc = "off" /\ pc' = "umem" /\ link' = link \ Port /\ slot' = slot
  BY DEF DeleteXsks, CloseBpf, AllLinksOff, kernelVars, LinkOff
<1>2. InUse' = InUse
  BY <1>1 DEF InUse
<1>3. slot' \in [Port -> Slots] /\ \A s \in Port :
        /\ slot'[s].nq = slot[s].nq
        /\ slot'[s].bpf => slot[s].bpf
        /\ slot'[s].xsk \in {0, slot[s].xsk}
        /\ pc = "xsk" => slot'[s].xsk = 0
        /\ pc = "bpf" /\ s \in InUse => ~slot'[s].bpf
  <2>1. slot \in [Port -> Slots] /\ \A s \in Port : slot[s].xsk \in Nat /\ slot[s].nq \in Nat
    BY <1>0 DEF PlumbType, Slots
  <2>2. CASE DeleteXsks
    <3>1. \A s \in Port : slot'[s] =
            IF slot[s].live \/ slot[s].nq > 0 THEN [slot[s] EXCEPT !.xsk = 0] ELSE slot[s]
      BY <2>2 DEF DeleteXsks
    <3>2. \A s \in Port : slot[s].nq > 0 \/ slot[s].xsk = 0
      BY <2>1, <1>0 DEF CloseInv
    <3>3. ASSUME NEW s \in Port
          PROVE  /\ slot'[s] \in Slots /\ slot'[s].nq = slot[s].nq
                 /\ slot'[s].bpf = slot[s].bpf /\ slot'[s].xsk = 0
      <4>1. \A sl \in Slots : LET o == [sl EXCEPT !.xsk = 0]
                             IN  o \in Slots /\ o.nq = sl.nq /\ o.bpf = sl.bpf /\ o.xsk = 0
        BY DEF Slots
      <4> QED
        <5>1. slot[s] \in Slots
          BY <2>1
        <5>2. CASE slot[s].live \/ slot[s].nq > 0
          BY <5>1, <5>2, <3>1, <4>1
        <5>3. CASE ~(slot[s].live \/ slot[s].nq > 0)
          BY <5>1, <5>3, <3>1, <3>2
        <5> QED
          BY <5>2, <5>3
    <3>4. slot' = [s \in Port |-> slot'[s]]
      BY <2>2 DEF DeleteXsks
    <3> QED
      BY <2>2, <3>3, <3>4 DEF DeleteXsks
  <2>3. CASE CloseBpf
    <3>1. \A s \in Port : slot'[s] =
            IF s \in InUse THEN [slot[s] EXCEPT !.bpf = FALSE, !.on = FALSE] ELSE slot[s]
      BY <2>3 DEF CloseBpf
    <3>2. \A s \in Port : slot'[s] \in Slots /\ slot'[s].nq = slot[s].nq
                          /\ slot'[s].xsk = slot[s].xsk
                          /\ (slot'[s].bpf => slot[s].bpf)
                          /\ (s \in InUse => ~slot'[s].bpf)
      BY <2>1, <3>1 DEF Slots
    <3>3. slot' = [s \in Port |-> slot'[s]]
      BY <2>3 DEF CloseBpf
    <3> QED
      BY <2>3, <3>2, <3>3 DEF CloseBpf
  <2>4. CASE AllLinksOff
    BY <2>1, <2>4 DEF AllLinksOff
  <2> QED
    BY <2>2, <2>3, <2>4
<1>4. PlumbType'
  BY <1>0, <1>1, <1>3 DEF PlumbType
<1>5. OpenInv' /\ LiveInv' /\ ReloadInv' /\ LinkInv'
  BY <1>1 DEF OpenInv, LiveInv, ReloadInv, LinkInv
<1>6. CloseInv'
  <2>1. link \ Port = {}
    BY <1>0 DEF PlumbType
  <2>2. \A s \in Port : slot'[s].xsk > 0 => slot'[s].nq > 0
    BY <1>0, <1>3 DEF CloseInv
  <2>3. CASE pc = "xsk"
    BY <2>2, <2>3, <1>0, <1>1, <1>2, <1>3 DEF CloseInv
  <2>4. CASE pc = "bpf"
    BY <2>2, <2>4, <1>0, <1>1, <1>2, <1>3 DEF CloseInv
  <2>5. CASE pc = "off"
    BY <2>1, <2>2, <2>5, <1>0, <1>1, <1>2, <1>3 DEF CloseInv
  <2> QED
    BY <2>3, <2>4, <2>5, <1>1
<1> QED
  BY <1>4, <1>5, <1>6 DEF IInv

(* With the last part the pair is empty, as when the process dies, and a   *)
(* start scrubs what it finds.                                             *)
LEMMA EmptyPair ==
  ASSUME IInv, NEW c \in Cfgs, Start(c) \/ DeleteUmem \/ PromiscOff \/ Dies
  PROVE  IInv'
<1> USE DEF Up, Phase
<1>0. PlumbType /\ OpenInv /\ LiveInv /\ ReloadInv /\ CloseInv /\ LinkInv
  BY DEF IInv
<1>1. /\ \A s \in Port : slot'[s] = EmptySlot
      /\ slot' \in [Port -> Slots]
  <2>1. CASE Start(c)
    BY <2>1, <1>0 DEF Start, OpenInv, PlumbType
  <2>2. CASE PromiscOff
    BY <2>2, <1>0 DEF PromiscOff, OpenInv, PlumbType
  <2>3. CASE DeleteUmem
    BY <2>3, SlotOps DEF DeleteUmem
  <2>4. CASE Dies
    BY <2>4, SlotOps DEF Dies
  <2> QED
    BY <2>1, <2>2, <2>3, <2>4
<1>2. /\ draining' \in {{}, draining} /\ added' \in {{}, added}
      /\ cfg' \in {c, cfg} /\ next' \in {c, next} /\ at' \in {0, at}
      /\ wanCount' \in {0, wanCount}
      /\ link' \in {{}, link} /\ promisc' \in {{}, promisc}
      /\ \/ pc = "down" /\ pc' = "open" /\ link' = {} /\ draining' = draining /\ umem' = umem
            /\ crashed' = FALSE
         \/ pc = "umem" /\ pc' = "promisc" /\ link' = link /\ draining' = {} /\ umem' = FALSE
            /\ crashed' = crashed
         \/ pc = "promisc" /\ pc' = "down" /\ link' = link /\ draining' = draining
            /\ umem' = umem /\ promisc' = {} /\ crashed' = crashed
         \/ pc' = "down" /\ crashed' = TRUE /\ draining' = {} /\ umem' = FALSE
  <2>1. link \ Port = {}
    BY <1>0 DEF PlumbType
  <2>2. CASE Start(c)
    BY <2>1, <2>2 DEF Start, LinkOff
  <2>3. CASE PromiscOff
    BY <2>3 DEF PromiscOff
  <2>4. CASE DeleteUmem
    BY <2>4 DEF DeleteUmem, kernelVars
  <2>5. CASE Dies
    BY <2>5 DEF Dies, kernelVars
  <2> QED
    BY <2>2, <2>3, <2>4, <2>5
<1>3. draining' = {}
  BY <1>0, <1>2 DEF OpenInv
<1>4. PlumbType'
  <2>1. 0 \in 0..Wans /\ 0 \in Nat
    BY Counts
  <2>2. umem' \in BOOLEAN /\ crashed' \in BOOLEAN
    BY <1>0, <1>2 DEF PlumbType
  <2> QED
    BY <2>1, <2>2, <1>0, <1>1, <1>2 DEF PlumbType
<1>5. OpenInv'
  BY <1>1, <1>2, <1>3 DEF OpenInv
<1>6. LiveInv' /\ ReloadInv'
  BY <1>2 DEF LiveInv, ReloadInv
<1>7. CloseInv'
  <2>1. \A s \in Port : ~slot'[s].on /\ ~slot'[s].bpf /\ slot'[s].xsk = 0
                        /\ slot'[s].bpf = slot'[s].on
    BY <1>1, SlotOps
  <2>2. pc' = "promisc" => link' = {} /\ ~umem'
    BY <1>0, <1>2 DEF CloseInv
  <2>3. pc' = "down" => ~umem' /\ (~crashed' => link' = {} /\ promisc' = {})
    BY <1>0, <1>2 DEF CloseInv
  <2>4. pc' \in {"open", "promisc", "down"}
    BY <1>2
  <2>5. \A s \in Port : slot'[s].xsk > 0 => slot'[s].nq > 0
    BY <2>1
  <2> QED
    BY <2>1, <2>2, <2>3, <2>4, <2>5 DEF CloseInv
<1>8. LinkInv'
  BY <1>1, <1>2 DEF LinkInv, EmptySlot
<1> QED
  BY <1>4, <1>5, <1>6, <1>7, <1>8 DEF IInv

(* No program is attached while the pair is opened.                        *)
LEMMA NothingLinked ==
  ASSUME PlumbType, LinkInv, pc \in {"open", "sockets"}, \A s \in Port : ~slot[s].on
  PROVE  link = {}
  BY DEF PlumbType, LinkInv

(* The counts of the interfaces, or the end.                               *)
LEMMA OpenBegins ==
  ASSUME IInv, OpenPair \/ OpenPairFails
  PROVE  IInv'
<1> USE DEF Up, Phase
<1>0. PlumbType /\ OpenInv /\ LiveInv /\ ReloadInv /\ CloseInv /\ LinkInv
  BY DEF IInv
<1>1. cfg \in Cfgs
  BY <1>0 DEF PlumbType
<1>2. link = {}
  <2>1. pc = "open" /\ \A s \in Port : ~slot[s].on
    BY <1>0, SlotOps DEF OpenInv, OpenPair, OpenPairFails
  <2> QED
    BY <2>1, <1>0, NothingLinked
<1>3. \A s \in Planned(cfg) : NameAt(cfg, s) \in Port /\ NumQ[NameAt(cfg, s)] \in Nat
  BY <1>1, NamesDiffer, XskAssumption
<1>4. slot' \in [Port -> Slots] /\ \A s \in Port :
        slot'[s].on = FALSE /\ slot'[s].bpf = FALSE /\ slot'[s].xsk = 0
  <2>1. slot' = [s \in Port |->
          IF s \in Planned(cfg) THEN [EmptySlot EXCEPT !.nq = NumQ[NameAt(cfg, s)]] ELSE EmptySlot]
    BY DEF OpenPair, OpenPairFails
  <2>2. ASSUME NEW n \in Nat
        PROVE  LET o == [EmptySlot EXCEPT !.nq = n]
               IN  o \in Slots /\ o.on = FALSE /\ o.bpf = FALSE /\ o.xsk = 0
    BY DEF EmptySlot, Slots
  <2>3. ASSUME NEW s \in Port
        PROVE  /\ slot'[s] \in Slots
               /\ slot'[s].on = FALSE /\ slot'[s].bpf = FALSE /\ slot'[s].xsk = 0
    <3>1. CASE s \in Planned(cfg)
      <4>1. slot'[s] = [EmptySlot EXCEPT !.nq = NumQ[NameAt(cfg, s)]]
        BY <2>1, <3>1
      <4>2. PICK n \in Nat : n = NumQ[NameAt(cfg, s)]
        BY <1>3, <3>1
      <4> QED
        BY <4>1, <4>2, <2>2
    <3>2. CASE s \notin Planned(cfg)
      BY <2>1, <3>2, SlotOps
    <3> QED
      BY <3>1, <3>2
  <2>4. slot' = [s \in Port |-> slot'[s]]
    BY <2>1
  <2> QED
    BY <2>3, <2>4
<1>5. /\ UNCHANGED <<cfg, next, added, draining, crashed>> /\ wanCount' = Cardinality(cfg)
      /\ pc = "open" /\ link' = {}
      /\ pc' \in {"sockets", "xsk"} /\ at' \in {0, at}
      /\ pc' = "sockets" => at' = 0
      /\ umem' \in {TRUE, umem}
      /\ promisc' \subseteq Port
  <2>1. CASE OpenPair
    <3>1. promisc' = promisc \cup {NameAt(cfg, s) : s \in Planned(cfg)}
      BY <2>1 DEF OpenPair
    <3>2. promisc' \subseteq Port
      BY <3>1, <1>0, <1>3 DEF PlumbType
    <3> QED
      BY <2>1, <3>2, <1>2 DEF OpenPair, LinkOff
  <2>2. CASE OpenPairFails
    <3>1. PICK n \in Planned(cfg) : promisc' = promisc \cup {NameAt(cfg, s) : s \in 0..n}
      BY <2>2 DEF OpenPairFails
    <3>2. \A s \in 0..n : s \in Planned(cfg)
      <4>1. PICK m \in Nat : m = Cardinality(cfg)
        BY <1>1, CfgFacts
      <4>2. n \in 0..(Lans + m - 1)
        BY <4>1 DEF Planned
      <4>3. \A s \in 0..n : s \in 0..(Lans + m - 1)
        BY <4>2, Counts
      <4> QED
        BY <4>1, <4>3 DEF Planned
    <3>3. promisc' \subseteq Port
      BY <3>1, <3>2, <1>0, <1>3 DEF PlumbType
    <3> QED
      BY <2>2, <3>3, <1>2 DEF OpenPairFails, LinkOff
  <2> QED
    BY <2>1, <2>2
<1>6. wanCount' \in 0..Wans
  BY <1>1, <1>5, CfgFacts
<1>7. PlumbType'
  <2>1. umem \in BOOLEAN /\ at \in Nat
    BY <1>0 DEF PlumbType
  <2>2. umem' = TRUE \/ umem' = umem
    BY <1>5
  <2>3. umem' \in BOOLEAN
    BY <2>1, <2>2
  <2>4. at' \in Nat
    BY <2>1, <1>5
  <2> QED
    BY <2>3, <2>4, <1>0, <1>4, <1>5, <1>6 DEF PlumbType
<1>8. OpenInv'
  <2>1. draining' = {}
    BY <1>0, <1>5 DEF OpenInv
  <2>2. pc' = "sockets" => wanCount' = Cardinality(cfg') /\ \A s \in Port : ~(s < at')
    BY <1>5, PortFacts
  <2> QED
    BY <2>1, <2>2, <1>4, <1>5 DEF OpenInv
<1>9. LiveInv' /\ ReloadInv' /\ LinkInv'
  BY <1>4, <1>5 DEF LiveInv, ReloadInv, LinkInv
<1>10. CloseInv'
  <2>1. \A s \in Port : slot'[s].bpf = slot'[s].on /\ ~slot'[s].on /\ slot'[s].xsk = 0
    BY <1>4
  <2>2. \A s \in Port : ~(slot'[s].xsk > 0)
    BY <2>1
  <2> QED
    BY <2>1, <2>2, <1>5 DEF CloseInv
<1> QED
  BY <1>7, <1>8, <1>9, <1>10 DEF IInv

(* The sockets of one port, on as many queues as it still has, or the end. *)
LEMMA OpenNext ==
  ASSUME IInv, OpenPort \/ OpenRetried \/ OpenPortFails
  PROVE  IInv'
<1> USE DEF Up, Phase
<1>0. PlumbType /\ OpenInv /\ LiveInv /\ ReloadInv /\ CloseInv /\ LinkInv
  BY DEF IInv
<1>1. /\ pc = "sockets" /\ at \in Planned(cfg) /\ cfg \in Cfgs /\ at \in Port
      /\ slot \in [Port -> Slots]
      /\ \A s \in Port : ~slot[s].on /\ ~slot[s].bpf
  <2>1. pc = "sockets" /\ at \in Planned(cfg) /\ cfg \in Cfgs
    BY <1>0 DEF OpenPort, OpenRetried, OpenPortFails, PlumbType
  <2>2. at \in Port
    BY <2>1, CfgFacts
  <2> QED
    BY <2>1, <2>2, <1>0 DEF OpenInv, PlumbType
<1>2. link = {} /\ draining = {} /\ wanCount = Cardinality(cfg)
  BY <1>0, <1>1, NothingLinked DEF OpenInv
<1>3. NameAt(cfg, at) \in Port /\ slot[at].nq \in Nat
  BY <1>1, NamesDiffer DEF Slots
<1>4. /\ UNCHANGED <<cfg, next, added, draining, crashed, wanCount, umem, promisc>>
      /\ link' = {}
      /\ \/ pc' = "sockets" /\ at' = at + 1
            /\ \E n \in Nat : slot' = [slot EXCEPT ![at] = Opened(@, NameAt(cfg, at), n)]
         \/ pc' = "xsk" /\ at' = at /\ slot' = slot
  <2>1. CASE OpenPort
    BY <2>1, <1>1, <1>2, <1>3 DEF OpenPort, kernelVars
  <2>2. CASE OpenRetried
    <3>1. slot' = [slot EXCEPT ![at] = Opened(@, NameAt(cfg, at), 0)] /\ 0 \in Nat
      BY <2>2 DEF OpenRetried
    <3> QED
      BY <2>2, <3>1, <1>1, <1>2 DEF OpenRetried, LinkOff
  <2>3. CASE OpenPortFails
    BY <2>3, <1>2 DEF OpenPortFails, LinkOff
  <2> QED
    BY <2>1, <2>2, <2>3
<1>5. /\ slot' \in [Port -> Slots]
      /\ \A s \in Port : /\ ~slot'[s].on /\ ~slot'[s].bpf
                         /\ slot'[s].bpf = slot'[s].on
                         /\ slot'[s].xsk > 0 => slot'[s].nq > 0
                         /\ s # at => slot'[s] = slot[s]
      /\ pc' = "sockets" => slot'[at].name = NameAt(cfg, at)
  <2>1. \A s \in Port : slot[s].bpf = slot[s].on /\ (slot[s].xsk > 0 => slot[s].nq > 0)
    BY <1>0, <1>1 DEF CloseInv
  <2>2. CASE slot' = slot /\ pc' = "xsk"
    BY <2>1, <2>2, <1>1
  <2>3. CASE pc' = "sockets"
    <3>1. PICK n \in Nat : slot' = [slot EXCEPT ![at] = Opened(@, NameAt(cfg, at), n)]
      BY <2>3, <1>4
    <3> DEFINE o == Opened(slot[at], NameAt(cfg, at), n)
    <3>2. /\ o \in Slots /\ o.name = NameAt(cfg, at) /\ o.nq = n /\ o.xsk = n
          /\ o.bpf = slot[at].bpf /\ o.on = slot[at].on
      BY <1>1, <1>3, SlotOps
    <3>3. slot' = [slot EXCEPT ![at] = o]
      BY <3>1
    <3> HIDE DEF o
    <3>4. slot' \in [Port -> Slots] /\ slot'[at] = o /\ \A s \in Port : s # at => slot'[s] = slot[s]
      BY <3>2, <3>3, <1>1
    <3>5. ~o.on /\ ~o.bpf /\ o.bpf = o.on /\ (o.xsk > 0 => o.nq > 0)
      BY <3>2, <2>1, <1>1
    <3> QED
      BY <3>2, <3>4, <3>5, <2>1, <1>1
  <2> QED
    BY <2>2, <2>3, <1>4
<1>6. PlumbType'
  <2>1. at' \in Nat
    BY <1>0, <1>4 DEF PlumbType
  <2> QED
    BY <2>1, <1>0, <1>4, <1>5 DEF PlumbType
<1>7. OpenInv'
  <2>1. ASSUME NEW s \in Port, s \in Planned(cfg), s < at', pc' = "sockets"
        PROVE  slot'[s].name = NameAt(cfg, s)
    <3>1. CASE s = at
      BY <3>1, <2>1, <1>5
    <3>2. CASE s # at
      <4>1. s < at
        BY <3>2, <2>1, <1>1, <1>4, PortFacts
      <4> QED
        BY <4>1, <3>2, <2>1, <1>0, <1>1, <1>5 DEF OpenInv
    <3> QED
      BY <3>1, <3>2
  <2> QED
    BY <2>1, <1>2, <1>4, <1>5 DEF OpenInv
<1>8. LiveInv' /\ ReloadInv' /\ CloseInv' /\ LinkInv'
  BY <1>4, <1>5 DEF LiveInv, ReloadInv, CloseInv, LinkInv
<1> QED
  BY <1>6, <1>7, <1>8 DEF IInv

(* All ports are open: the slots of the configuration are live.            *)
LEMMA OpenEnds ==
  ASSUME IInv, OpenDone
  PROVE  IInv'
<1> USE DEF Up, Phase
<1>0. PlumbType /\ OpenInv /\ LiveInv /\ ReloadInv /\ CloseInv /\ LinkInv
  BY DEF IInv
<1>1. /\ pc = "sockets" /\ at \notin Planned(cfg) /\ cfg \in Cfgs /\ at \in Nat
      /\ slot \in [Port -> Slots]
      /\ \A s \in Port : ~slot[s].on /\ ~slot[s].bpf
      /\ Planned(cfg) \subseteq Port
  <2>1. pc = "sockets" /\ at \notin Planned(cfg) /\ cfg \in Cfgs /\ at \in Nat
    BY <1>0 DEF OpenDone, PlumbType
  <2> QED
    BY <2>1, <1>0, CfgFacts DEF OpenInv, PlumbType
<1>2. link = {} /\ draining = {} /\ wanCount = Cardinality(cfg)
  BY <1>0, <1>1, NothingLinked DEF OpenInv
<1>3. /\ UNCHANGED <<cfg, next, added, draining, crashed, wanCount, umem, promisc, link>>
      /\ pc' = "attach" /\ at' = 0
  BY DEF OpenDone, kernelVars
<1>4. \A s \in Planned(cfg) : slot[s].name = NameAt(cfg, s)
  <2>1. PICK m \in Nat : m = Cardinality(cfg)
    BY <1>1, CfgFacts
  <2>2. at \notin 0..(Lans + m - 1)
    BY <2>1, <1>1 DEF Planned
  <2>3. \A s \in 0..(Lans + m - 1) : s < at
    BY <2>2, <1>1, Counts
  <2>4. \A s \in Planned(cfg) : s < at
    BY <2>1, <2>3 DEF Planned
  <2> QED
    BY <2>4, <1>0, <1>1 DEF OpenInv
<1>5. /\ slot' \in [Port -> Slots]
      /\ \A s \in Port : /\ slot'[s].name = slot[s].name /\ slot'[s].nq = slot[s].nq
                         /\ slot'[s].xsk = slot[s].xsk
                         /\ slot'[s].on = slot[s].on /\ slot'[s].bpf = slot[s].bpf
                         /\ (slot'[s].live <=> s \in Planned(cfg))
  <2>1. slot' = [s \in Port |-> [slot[s] EXCEPT !.live = s \in Planned(cfg)]]
    BY DEF OpenDone
  <2>2. ASSUME NEW sl \in Slots
        PROVE  /\ LET o == [sl EXCEPT !.live = TRUE]
                  IN  /\ o \in Slots /\ o.name = sl.name /\ o.nq = sl.nq /\ o.xsk = sl.xsk
                      /\ o.on = sl.on /\ o.bpf = sl.bpf /\ o.live
               /\ LET o == [sl EXCEPT !.live = FALSE]
                  IN  /\ o \in Slots /\ o.name = sl.name /\ o.nq = sl.nq /\ o.xsk = sl.xsk
                      /\ o.on = sl.on /\ o.bpf = sl.bpf /\ ~o.live
    BY DEF Slots
  <2>3. ASSUME NEW s \in Port
        PROVE  /\ slot'[s] \in Slots
               /\ slot'[s].name = slot[s].name /\ slot'[s].nq = slot[s].nq
               /\ slot'[s].xsk = slot[s].xsk
               /\ slot'[s].on = slot[s].on /\ slot'[s].bpf = slot[s].bpf
               /\ (slot'[s].live <=> s \in Planned(cfg))
    <3>1. CASE s \in Planned(cfg)
      <4>1. slot'[s] = [slot[s] EXCEPT !.live = s \in Planned(cfg)] /\ slot[s] \in Slots
        BY <2>1, <1>1
      <4>2. (s \in Planned(cfg)) = TRUE
        BY <3>1
      <4>3. slot'[s] = [slot[s] EXCEPT !.live = TRUE]
        BY <4>1, <4>2
      <4> DEFINE o == [slot[s] EXCEPT !.live = TRUE]
      <4>4. /\ o \in Slots /\ o.name = slot[s].name /\ o.nq = slot[s].nq /\ o.xsk = slot[s].xsk
            /\ o.on = slot[s].on /\ o.bpf = slot[s].bpf /\ o.live
        BY <4>1, <2>2
      <4>5. slot'[s] = o
        BY <4>3
      <4> HIDE DEF o
      <4> QED
        BY <3>1, <4>4, <4>5
    <3>2. CASE s \notin Planned(cfg)
      <4>1. slot'[s] = [slot[s] EXCEPT !.live = s \in Planned(cfg)] /\ slot[s] \in Slots
        BY <2>1, <1>1
      <4>2. (s \in Planned(cfg)) = FALSE
        BY <3>2
      <4>3. slot'[s] = [slot[s] EXCEPT !.live = FALSE]
        BY <4>1, <4>2
      <4> QED
        BY <3>2, <4>1, <4>3, <2>2
    <3> QED
      BY <3>1, <3>2
  <2>4. slot' = [s \in Port |-> slot'[s]]
    BY <2>1
  <2> QED
    BY <2>3, <2>4
<1>6. InUse' = Planned(cfg)
  BY <1>2, <1>3 DEF InUse, Planned
<1>7. PlumbType'
  BY <1>0, <1>3, <1>5 DEF PlumbType
<1>8. OpenInv'
  BY <1>1, <1>2, <1>3, <1>4, <1>5 DEF OpenInv
<1>9. LiveInv'
  <2>1. \A s \in Planned(cfg) : slot'[s].name = NameAt(cfg, s) /\ slot'[s].name \in Port
    BY <1>1, <1>4, <1>5, NamesDiffer
  <2>2. \A s, t \in Planned(cfg) : slot'[s].name = slot'[t].name => s = t
    BY <2>1, <1>1, NamesDiffer
  <2> QED
    BY <2>1, <2>2, <1>1, <1>5, <1>6 DEF LiveInv
<1>10. ReloadInv'
  BY <1>3 DEF ReloadInv
<1>11. CloseInv'
  <2>1. \A s \in Port : slot'[s].bpf = slot'[s].on /\ ~slot'[s].on
    BY <1>0, <1>1, <1>5 DEF CloseInv
  <2>2. \A s \in Port : slot'[s].xsk > 0 => slot'[s].nq > 0
    BY <1>0, <1>5 DEF CloseInv
  <2> QED
    BY <2>1, <2>2, <1>3 DEF CloseInv
<1>12. LinkInv'
  BY <1>1, <1>2, <1>3, <1>5 DEF LinkInv
<1> QED
  BY <1>7, <1>8, <1>9, <1>10, <1>11, <1>12 DEF IInv

(* What trying to attach the program to slot at's interface leaves: slot   *)
(* and interface still agree, the program attached or not.                 *)
LEMMA Attempt ==
  ASSUME PlumbType, LiveInv, CloseInv, LinkInv, pc \in {"attach", "bind"},
         at \in Port, slot[at].live, ~slot[at].on,
         \/ slot' = [slot EXCEPT ![at] = Bound(@)] /\ link' = link \cup {slot[at].name}
         \/ slot' = slot /\ link' = link
         \/ slot' = slot /\ link' = LinkOff({slot[at].name})
  PROVE  /\ slot' \in [Port -> Slots] /\ link' \subseteq Port
         /\ \A s \in Port : /\ slot'[s].name = slot[s].name /\ slot'[s].nq = slot[s].nq
                            /\ slot'[s].xsk = slot[s].xsk /\ (slot'[s].live <=> slot[s].live)
                            /\ slot'[s].bpf = slot'[s].on
                            /\ s # at => slot'[s] = slot[s]
         /\ \A p \in Port : p \in link' <=> \E s \in Port : slot'[s].on /\ slot'[s].name = p
<1> USE DEF Up, Phase
<1>1. /\ slot \in [Port -> Slots] /\ link \subseteq Port
      /\ \A s \in Port : slot[s].bpf = slot[s].on
      /\ \A p \in Port : p \in link <=> \E s \in Port : slot[s].on /\ slot[s].name = p
      /\ slot[at].name \in Port
      /\ \A s \in Port : slot[s].on => slot[s].live
      /\ \A s, t \in Port : slot[s].live /\ slot[t].live /\ slot[s].name = slot[t].name => s = t
  BY DEF PlumbType, CloseInv, LinkInv, LiveInv
<1>2. CASE slot' = [slot EXCEPT ![at] = Bound(@)] /\ link' = link \cup {slot[at].name}
  <2> DEFINE o == Bound(slot[at])
  <2>1. /\ o \in Slots /\ o.name = slot[at].name /\ o.nq = slot[at].nq /\ o.xsk = slot[at].xsk
        /\ o.bpf /\ o.on /\ o.live = slot[at].live
    BY <1>1, SlotOps
  <2>2. o.bpf = o.on
    BY DEF Bound
  <2>3. slot' = [slot EXCEPT ![at] = o]
    BY <1>2
  <2> HIDE DEF o
  <2>4. slot' \in [Port -> Slots] /\ slot'[at] = o /\ \A s \in Port : s # at => slot'[s] = slot[s]
    BY <2>1, <2>3, <1>1
  <2>5. link' \subseteq Port
    BY <1>1, <1>2
  <2>6. \A s \in Port : /\ slot'[s].name = slot[s].name /\ slot'[s].nq = slot[s].nq
                        /\ slot'[s].xsk = slot[s].xsk /\ (slot'[s].live <=> slot[s].live)
                        /\ slot'[s].bpf = slot'[s].on
    <3>1. SUFFICES ASSUME NEW s \in Port
                   PROVE  /\ slot'[s].name = slot[s].name /\ slot'[s].nq = slot[s].nq
                          /\ slot'[s].xsk = slot[s].xsk /\ (slot'[s].live <=> slot[s].live)
                          /\ slot'[s].bpf = slot'[s].on
      OBVIOUS
    <3>2. CASE s = at
      BY <3>2, <2>1, <2>2, <2>4
    <3>3. CASE s # at
      BY <3>3, <2>4, <1>1
    <3> QED
      BY <3>2, <3>3
  <2>7. ASSUME NEW p \in Port
        PROVE  p \in link' <=> \E s \in Port : slot'[s].on /\ slot'[s].name = p
    <3>1. CASE p = slot[at].name
      BY <3>1, <1>2, <2>1, <2>4
    <3>2. CASE p # slot[at].name
      BY <3>2, <1>1, <1>2, <2>1, <2>4
    <3> QED
      BY <3>1, <3>2
  <2> QED
    BY <2>4, <2>5, <2>6, <2>7
<1>3. CASE slot' = slot /\ link' = link
  BY <1>1, <1>3
<1>4. CASE slot' = slot /\ link' = LinkOff({slot[at].name})
  <2>1. link' = link \ {slot[at].name}
    BY <1>4 DEF LinkOff
  <2>2. ASSUME NEW p \in Port
        PROVE  p \in link' <=> \E s \in Port : slot'[s].on /\ slot'[s].name = p
    <3>1. CASE p = slot[at].name
      BY <3>1, <1>1, <1>4, <2>1
    <3>2. CASE p # slot[at].name
      BY <3>2, <1>1, <1>4, <2>1
    <3> QED
      BY <3>1, <3>2
  <2> QED
    BY <2>1, <2>2, <1>1, <1>4
<1> QED
  BY <1>2, <1>3, <1>4

(* The program of one port at the start, or the end.                       *)
LEMMA AttachNext ==
  ASSUME IInv, AttachPort \/ AttachPortFails
  PROVE  IInv'
<1> USE DEF Up, Phase
<1>0. PlumbType /\ OpenInv /\ LiveInv /\ ReloadInv /\ CloseInv /\ LinkInv
  BY DEF IInv
<1>1. /\ pc = "attach" /\ at \in Planned(cfg) /\ cfg \in Cfgs /\ at \in Port
      /\ slot \in [Port -> Slots] /\ wanCount = Cardinality(cfg) /\ draining = {}
      /\ \A s \in Planned(cfg) : slot[s].name = NameAt(cfg, s) /\ (slot[s].on => s < at)
  <2>1. pc = "attach" /\ at \in Planned(cfg) /\ cfg \in Cfgs
    BY <1>0 DEF AttachPort, AttachPortFails, PlumbType
  <2>2. at \in Port
    BY <2>1, CfgFacts
  <2> QED
    BY <2>1, <2>2, <1>0 DEF OpenInv, PlumbType
<1>2. /\ UNCHANGED <<cfg, next, added, draining, crashed, wanCount, umem, promisc>>
      /\ \/ pc' = "attach" /\ at' = at + 1
         \/ pc' = "xsk" /\ at' = at
  BY DEF AttachPort, AttachPortFails
<1>3. ~slot[at].on
  <2>1. ~(at < at)
    BY <1>1, PortFacts
  <2> QED
    BY <2>1, <1>1
<1>4. \/ slot' = [slot EXCEPT ![at] = Bound(@)] /\ link' = link \cup {slot[at].name}
      \/ slot' = slot /\ link' = link
      \/ slot' = slot /\ link' = LinkOff({slot[at].name})
  BY DEF AttachPort, AttachPortFails
<1>5. InUse = Planned(cfg) /\ InUse' = InUse
  BY <1>1, <1>2 DEF InUse, Planned
<1>5a. slot[at].live
  BY <1>0, <1>1 DEF OpenInv
<1>6. /\ slot' \in [Port -> Slots] /\ link' \subseteq Port
      /\ \A s \in Port : /\ slot'[s].name = slot[s].name /\ slot'[s].nq = slot[s].nq
                         /\ slot'[s].xsk = slot[s].xsk /\ (slot'[s].live <=> slot[s].live)
                         /\ slot'[s].bpf = slot'[s].on
                         /\ s # at => slot'[s] = slot[s]
      /\ \A p \in Port : p \in link' <=> \E s \in Port : slot'[s].on /\ slot'[s].name = p
  BY <1>0, <1>1, <1>3, <1>4, <1>5a, Attempt
<1>7. PlumbType'
  <2>1. at' \in Nat
    BY <1>0, <1>2 DEF PlumbType
  <2> QED
    BY <2>1, <1>0, <1>2, <1>6 DEF PlumbType
<1>8. OpenInv'
  <2>1. ASSUME NEW s \in Planned(cfg), pc' = "attach"
        PROVE  slot'[s].name = NameAt(cfg, s) /\ slot'[s].live /\ (slot'[s].on => s < at')
    <3>1. s \in Port /\ s \in Nat /\ at \in Nat
      BY <1>1, CfgFacts, PortFacts
    <3>2. slot'[s].name = NameAt(cfg, s) /\ slot'[s].live
      BY <3>1, <1>0, <1>1, <1>6 DEF OpenInv
    <3>3. s = at => s < at'
      BY <3>1, <1>2, <2>1
    <3>4. s # at => (slot'[s].on => s < at')
      <4>1. s < at => s < at + 1
        BY <3>1
      <4> QED
        BY <4>1, <3>1, <1>1, <1>2, <1>6, <2>1
    <3> QED
      BY <3>2, <3>3, <3>4
  <2> QED
    BY <2>1, <1>1, <1>2 DEF OpenInv
<1>9. LiveInv'
  <2>1. \A s \in Port : slot'[s].on => slot'[s].live
    BY <1>0, <1>1, <1>5a, <1>6 DEF LiveInv
  <2> QED
    BY <2>1, <1>0, <1>1, <1>5, <1>6 DEF LiveInv
<1>10. ReloadInv'
  BY <1>2 DEF ReloadInv
<1>11. CloseInv'
  <2>1. \A s \in Port : slot'[s].on => s \in InUse' /\ slot'[s].name \in Port
    BY <1>0, <1>1, <1>5, <1>5a, <1>6 DEF LiveInv
  <2>2. \A s \in Port : slot'[s].xsk > 0 => slot'[s].nq > 0
    BY <1>0, <1>6 DEF CloseInv
  <2> QED
    BY <2>1, <2>2, <1>2, <1>6 DEF CloseInv
<1>12. LinkInv'
  BY <1>6 DEF LinkInv
<1> QED
  BY <1>7, <1>8, <1>9, <1>10, <1>11, <1>12 DEF IInv

(* The program of a WAN a reload adds, or its rollback.                    *)
LEMMA BindNext ==
  ASSUME IInv, BindWan \/ BindWanFails
  PROVE  IInv'
<1> USE DEF Up, Phase
<1>0. PlumbType /\ OpenInv /\ LiveInv /\ ReloadInv /\ CloseInv /\ LinkInv
  BY DEF IInv
<1>1. /\ pc = "bind" /\ at \in Wan /\ at \in Port /\ slot[at].live /\ ~slot[at].on
  <2>1. pc = "bind"
    BY DEF BindWan, BindWanFails
  <2> QED
    BY <2>1, <1>0, PortFacts DEF ReloadInv
<1>2. /\ UNCHANGED <<at, cfg, next, draining, crashed, wanCount, umem, promisc>>
      /\ added' = added \cup {at}
      /\ pc' \in {"sync", "rollback"}
  BY DEF BindWan, BindWanFails
<1>3. \/ slot' = [slot EXCEPT ![at] = Bound(@)] /\ link' = link \cup {slot[at].name}
      \/ slot' = slot /\ link' = link
      \/ slot' = slot /\ link' = LinkOff({slot[at].name})
  BY DEF BindWan, BindWanFails
<1>4. InUse' = InUse
  BY <1>2 DEF InUse
<1>5. /\ slot' \in [Port -> Slots] /\ link' \subseteq Port
      /\ \A s \in Port : /\ slot'[s].name = slot[s].name /\ slot'[s].nq = slot[s].nq
                         /\ slot'[s].xsk = slot[s].xsk /\ (slot'[s].live <=> slot[s].live)
                         /\ slot'[s].bpf = slot'[s].on
                         /\ s # at => slot'[s] = slot[s]
      /\ \A p \in Port : p \in link' <=> \E s \in Port : slot'[s].on /\ slot'[s].name = p
  BY <1>0, <1>1, <1>3, Attempt
<1>6. PlumbType'
  <2>1. added' \subseteq Wan
    BY <1>0, <1>1, <1>2 DEF PlumbType
  <2> QED
    BY <2>1, <1>0, <1>2, <1>5 DEF PlumbType
<1>7. OpenInv'
  BY <1>2 DEF OpenInv
<1>8. LiveInv'
  <2>1. \A s \in Port : slot'[s].on => slot'[s].live
    BY <1>0, <1>1, <1>5 DEF LiveInv
  <2> QED
    BY <2>1, <1>0, <1>1, <1>4, <1>5 DEF LiveInv
<1>9. ReloadInv'
  <2>1. \A s \in draining \cup added : s \in Port
    BY <1>0, PortFacts DEF PlumbType
  <2> QED
    BY <2>1, <1>0, <1>1, <1>2, <1>5 DEF ReloadInv
<1>10. CloseInv'
  <2>1. \A s \in Port : slot'[s].on => s \in InUse'
    BY <1>0, <1>1, <1>4, <1>5 DEF LiveInv
  <2>2. \A s \in Port : slot'[s].xsk > 0 => slot'[s].nq > 0
    BY <1>0, <1>5 DEF CloseInv
  <2> QED
    BY <2>1, <2>2, <1>2, <1>5 DEF CloseInv
<1>11. LinkInv'
  BY <1>5 DEF LinkInv
<1> QED
  BY <1>6, <1>7, <1>8, <1>9, <1>10, <1>11 DEF IInv

(* The slot a reload opens a WAN in is a WAN's and is not live.            *)
LEMMA FreeSlotIsFree ==
  ASSUME PlumbType, LiveInv, pc \in Up, FreeSlot \in Port
  PROVE  FreeSlot \in Wan /\ ~slot[FreeSlot].live
<1> DEFINE free == {s \in InUse \cap Wan : ~slot[s].live}
<1>1. CASE free # {}
  <2>1. free \in SUBSET Wan
    OBVIOUS
  <2>2. IsFiniteSet(free) /\ free \subseteq Int
    BY <2>1, PortFacts, FS_Subset
  <2>3. Min(free) \in free
    <3> HIDE DEF free
    <3> QED
      BY <1>1, <2>2, MinIsLeast
  <2>4. FreeSlot = Min(free)
    BY <1>1 DEF FreeSlot
  <2> QED
    BY <2>3, <2>4
<1>2. CASE free = {}
  <2>1. FreeSlot = Lans + wanCount
    BY <1>2 DEF FreeSlot
  <2>2. wanCount \in Nat
    BY Counts DEF PlumbType
  <2>3. FreeSlot \notin InUse
    BY <2>1, <2>2, Counts DEF InUse
  <2>4. FreeSlot \in Wan
    BY <2>1, <2>2, Counts DEF Wan, Lan
  <2> QED
    BY <2>3, <2>4 DEF LiveInv
<1> QED
  BY <1>1, <1>2

(* The WAN it opens is one of the new configuration that no slot is        *)
(* attached to.                                                            *)
LEMMA MissingIsMissed ==
  ASSUME PlumbType, LiveInv, LinkInv, pc = "sync", Missing # {}
  PROVE  /\ Min(Missing) \in Wan /\ Min(Missing) \in Port /\ Min(Missing) \notin link
         /\ \A s \in Port : slot[s].live => slot[s].name # Min(Missing)
<1> USE DEF Up, Phase
<1>1. next \in SUBSET Wan
  BY CfgFacts DEF PlumbType
<1>2. Missing \in SUBSET Wan
  BY <1>1 DEF Missing
<1>3. IsFiniteSet(Missing) /\ Missing \subseteq Int
  <2>1. IsFiniteSet(Missing)
    BY <1>2, PortFacts, FS_Subset
  <2> QED
    BY <2>1, <1>2, PortFacts
<1>4. Min(Missing) \in Missing
  BY <1>3, MinIsLeast
<1>5. \A s \in InUse : ~(slot[s].live /\ slot[s].name = Min(Missing))
  BY <1>4 DEF Missing
<1>6. \A s \in Port : slot[s].live => slot[s].name # Min(Missing)
  BY <1>5 DEF LiveInv
<1>7. \A s \in Port : slot[s].on => slot[s].name # Min(Missing)
  BY <1>6 DEF LiveInv
<1>8. Min(Missing) \in Wan /\ Min(Missing) \in Port
  BY <1>2, <1>4, PortFacts
<1> QED
  BY <1>6, <1>7, <1>8 DEF LinkInv

(* The slot a reload opens is live, holds an interface of its own and has  *)
(* no program yet.                                                         *)
LEMMA PlumbNext ==
  ASSUME IInv, PlumbWan
  PROVE  IInv'
<1> USE DEF Up, Phase
<1> DEFINE w == Min(Missing)
           F == FreeSlot
           o == [Opened(slot[F], w, NumQ[w]) EXCEPT !.live = TRUE]
<1>0. PlumbType /\ OpenInv /\ LiveInv /\ ReloadInv /\ CloseInv /\ LinkInv
  BY DEF IInv
<1>1. /\ pc = "sync" /\ Missing # {} /\ F \in Port /\ slot \in [Port -> Slots]
      /\ slot' = [slot EXCEPT ![F] = o] /\ link' = link \ {w} /\ promisc' = promisc \cup {w}
      /\ wanCount' = Max({wanCount, F - Lans + 1})
      /\ at' = F /\ pc' = "bind"
      /\ UNCHANGED <<umem, cfg, next, added, draining, crashed>>
  BY <1>0 DEF PlumbWan, PlumbType, LinkOff
<1>2. F \in Wan /\ ~slot[F].live /\ ~slot[F].on
  BY <1>0, <1>1, FreeSlotIsFree DEF LiveInv
<1>3. /\ w \in Wan /\ w \in Port /\ w \notin link
      /\ \A s \in Port : slot[s].live => slot[s].name # w
  BY <1>0, <1>1, MissingIsMissed
<1>4. /\ o \in Slots /\ o.name = w /\ o.nq = o.xsk /\ o.bpf = slot[F].bpf /\ o.on = slot[F].on
      /\ o.live
  <2>1. NumQ[w] \in Nat
    BY <1>3, XskAssumption
  <2>2. \A sl \in Slots : LET r == [sl EXCEPT !.live = TRUE]
                          IN  /\ r \in Slots /\ r.name = sl.name /\ r.nq = sl.nq
                              /\ r.xsk = sl.xsk /\ r.bpf = sl.bpf /\ r.on = sl.on /\ r.live
    BY DEF Slots
  <2> DEFINE q == Opened(slot[F], w, NumQ[w])
  <2>3. q \in Slots /\ q.name = w /\ q.nq = q.xsk /\ q.bpf = slot[F].bpf /\ q.on = slot[F].on
    BY <2>1, <1>1, <1>3, SlotOps
  <2> HIDE DEF q
  <2>4. o = [q EXCEPT !.live = TRUE]
    BY DEF q
  <2> HIDE DEF o
  <2> QED
    BY <2>2, <2>3, <2>4
<1> HIDE DEF o
<1>5. slot' \in [Port -> Slots] /\ slot'[F] = o /\ \A s \in Port : s # F => slot'[s] = slot[s]
  BY <1>1, <1>4
<1>6. /\ wanCount' \in 0..Wans
      /\ \A s \in Port : s \in InUse \/ s = F => s \in InUse'
  <2>1. PICK k \in Nat : k = wanCount /\ k <= Wans
    BY <1>0, Counts DEF PlumbType
  <2>2. F - Lans + 1 \in 0..Wans
    BY <1>2, PortFacts, Counts
  <2>3. PICK j \in Nat : j = F - Lans + 1 /\ j <= Wans
    BY <2>2, Counts
  <2>4. Max({k, j}) \in {k, j} /\ Max({k, j}) >= k /\ Max({k, j}) >= j
    <3>1. {k, j} \subseteq Int /\ {k, j} # {}
      OBVIOUS
    <3>2. IsFiniteSet({k, j})
      <4>1. IsFiniteSet({k}) /\ {k, j} = {k} \cup {j}
        BY FS_Singleton
      <4> QED
        BY <4>1, FS_AddElement
    <3> QED
      BY <3>1, <3>2, MaxIsGreatest
  <2>5. PICK m \in Nat : m = Max({k, j}) /\ m <= Wans
    BY <2>1, <2>3, <2>4
  <2>6. wanCount' = m
    BY <1>1, <2>1, <2>3, <2>5
  <2>7. m \in 0..Wans
    BY <2>5, Counts
  <2>8. InUse = 0..(Lans + k - 1) /\ InUse' = 0..(Lans + m - 1)
    BY <2>1, <2>6 DEF InUse
  <2>9. F \in Nat /\ F = Lans + j - 1
    BY <1>1, <2>3, PortFacts, Counts
  <2>10. m >= k /\ m >= j
    BY <2>4, <2>5
  <2>11. \A s \in Nat : s \in 0..(Lans + k - 1) \/ s = F => s \in 0..(Lans + m - 1)
    BY <2>9, <2>10, Counts
  <2> QED
    BY <2>6, <2>7, <2>8, <2>11, PortFacts
<1> HIDE DEF w, F
<1>7. PlumbType'
  <2>1. link' \subseteq Port /\ promisc' \subseteq Port /\ at' \in Nat
    BY <1>0, <1>1, <1>3, PortFacts DEF PlumbType
  <2> QED
    BY <2>1, <1>0, <1>1, <1>5, <1>6 DEF PlumbType
<1>8. OpenInv'
  BY <1>1 DEF OpenInv
<1>9. LiveInv'
  <2>1. ASSUME NEW s \in Port
        PROVE  /\ slot'[s].on => slot'[s].live
               /\ slot'[s].live => s \in InUse' /\ slot'[s].name \in Port
    <3>1. CASE s = F
      BY <3>1, <1>3, <1>4, <1>5, <1>6
    <3>2. CASE s # F
      BY <3>2, <1>0, <1>1, <1>5, <1>6 DEF LiveInv
    <3> QED
      BY <3>1, <3>2
  <2>2. ASSUME NEW s \in Port, NEW t \in Port,
               slot'[s].live, slot'[t].live, slot'[s].name = slot'[t].name
        PROVE  s = t
    <3>1. CASE s = F
      BY <3>1, <2>2, <1>3, <1>4, <1>5
    <3>2. CASE t = F
      BY <3>2, <2>2, <1>3, <1>4, <1>5
    <3>3. CASE s # F /\ t # F
      BY <3>3, <2>2, <1>0, <1>1, <1>5 DEF LiveInv
    <3> QED
      BY <3>1, <3>2, <3>3
  <2> QED
    BY <2>1, <2>2 DEF LiveInv
<1>10. ReloadInv'
  <2>1. \A s \in draining \cup added : s \in Port /\ slot[s].live
    BY <1>0, <1>1, PortFacts DEF PlumbType, ReloadInv
  <2>2. \A s \in draining \cup added : slot'[s].live
    BY <2>1, <1>2, <1>5
  <2>3. at' \in Wan /\ slot'[at'].live /\ ~slot'[at'].on
    BY <1>1, <1>2, <1>4, <1>5
  <2> QED
    BY <2>2, <2>3, <1>1 DEF ReloadInv
<1>11. CloseInv'
  <2>1. ASSUME NEW s \in Port
        PROVE  /\ slot'[s].bpf = slot'[s].on
               /\ slot'[s].on => s \in InUse'
               /\ slot'[s].xsk > 0 => slot'[s].nq > 0
    <3>1. CASE s = F
      <4>1. slot[F].bpf = slot[F].on
        BY <1>0, <1>1 DEF CloseInv
      <4> QED
        BY <4>1, <3>1, <1>4, <1>5, <1>6
    <3>2. CASE s # F
      BY <3>2, <1>0, <1>1, <1>5, <1>6 DEF CloseInv
    <3> QED
      BY <3>1, <3>2
  <2> QED
    BY <2>1, <1>1 DEF CloseInv
<1>12. LinkInv'
  <2>1. link' = link
    BY <1>1, <1>3
  <2>2. \A s \in Port : slot'[s].on => s # F
    BY <1>2, <1>4, <1>5
  <2>3. \A s \in Port : slot[s].on => s # F
    BY <1>2
  <2> QED
    BY <2>1, <2>2, <2>3, <1>0, <1>1, <1>5 DEF LinkInv
<1> QED
  BY <1>7, <1>8, <1>9, <1>10, <1>11, <1>12 DEF IInv

(* A slot whose opening failed is no more live than before.                *)
LEMMA PlumbFails ==
  ASSUME IInv, PlumbWanFails
  PROVE  IInv'
<1> USE DEF Up, Phase
<1> DEFINE w == Min(Missing)
           F == FreeSlot
<1>0. PlumbType /\ OpenInv /\ LiveInv /\ ReloadInv /\ CloseInv /\ LinkInv
  BY DEF IInv
<1>1. /\ pc = "sync" /\ Missing # {} /\ slot \in [Port -> Slots] /\ pc' = "rollback"
      /\ UNCHANGED <<umem, cfg, next, added, draining, crashed, at, wanCount>>
  BY <1>0 DEF PlumbWanFails, PlumbType
<1>2. w \in Port /\ w \notin link
  BY <1>0, <1>1, MissingIsMissed
<1>3. /\ link' = link /\ promisc' \in {promisc, promisc \cup {w}}
      /\ \/ slot' = slot
         \/ F \in Port /\ slot' = [slot EXCEPT ![F].nq = NumQ[w]]
         \/ F \in Port /\ slot' = [slot EXCEPT ![F] = EmptySlot]
  <2>1. \/ slot' = slot /\ link' = link /\ promisc' = promisc
        \/ F \in Port /\ slot' = [slot EXCEPT ![F].nq = NumQ[w]] /\ promisc' = promisc
           /\ link' = link \ {w}
        \/ F \in Port /\ slot' = [slot EXCEPT ![F] = EmptySlot] /\ promisc' = promisc \cup {w}
           /\ link' = link \ {w}
    BY DEF PlumbWanFails, kernelVars, LinkOff
  <2> HIDE DEF w, F
  <2> QED
    BY <2>1, <1>2
<1>4. InUse' = InUse
  BY <1>1 DEF InUse
<1>5. /\ slot' \in [Port -> Slots]
      /\ \A s \in Port : /\ slot[s].live => slot'[s].live /\ slot'[s].name = slot[s].name
                         /\ slot'[s].live => slot[s].live
                         /\ slot[s].on => slot'[s].on
                         /\ slot'[s].on => slot[s].on
                         /\ slot'[s].bpf = slot'[s].on
                         /\ slot'[s].xsk > 0 => slot'[s].nq > 0
  <2>1. \A s \in Port : slot[s].bpf = slot[s].on /\ (slot[s].xsk > 0 => slot[s].nq > 0)
    BY <1>0, <1>1 DEF CloseInv
  <2>2. CASE slot' = slot
    BY <2>1, <2>2, <1>1
  <2>3. CASE F \in Port /\ slot' # slot
    <3>1. ~slot[F].live /\ ~slot[F].on
      BY <2>3, <1>0, <1>1, FreeSlotIsFree DEF LiveInv
    <3>2. PICK o \in Slots : /\ slot' = [slot EXCEPT ![F] = o]
                             /\ ~o.live /\ ~o.on /\ o.bpf = o.on /\ (o.xsk > 0 => o.nq > 0)
      <4>1. CASE slot' = [slot EXCEPT ![F] = EmptySlot]
        <5>1. ~(EmptySlot.xsk > 0)
          BY SlotOps
        <5> QED
          BY <4>1, <5>1, SlotOps
      <4>2. CASE slot' = [slot EXCEPT ![F].nq = NumQ[w]]
        <5>1. PICK n \in Nat : n = NumQ[w] /\ n > 0
          BY <1>2, XskAssumption
        <5>2. \A sl \in Slots : LET r == [sl EXCEPT !.nq = n]
                IN  /\ r \in Slots /\ r.bpf = sl.bpf /\ r.on = sl.on /\ r.live = sl.live /\ r.nq = n
          BY DEF Slots
        <5> DEFINE o == [slot[F] EXCEPT !.nq = n]
        <5>3. /\ o \in Slots /\ o.bpf = slot[F].bpf /\ o.on = slot[F].on
              /\ o.live = slot[F].live /\ o.nq > 0
          BY <5>1, <5>2, <2>3, <1>1
        <5>4. slot' = [slot EXCEPT ![F] = o]
          BY <4>2, <5>1
        <5>5. ~o.live /\ ~o.on /\ o.bpf = o.on
          <6> HIDE DEF o
          <6> QED
            BY <5>3, <3>1, <2>1, <2>3
        <5> HIDE DEF o
        <5> QED
          BY <5>3, <5>4, <5>5
      <4> QED
        BY <4>1, <4>2, <2>3, <1>3
    <3> HIDE DEF F
    <3>3. slot' \in [Port -> Slots] /\ slot'[F] = o /\ \A s \in Port : s # F => slot'[s] = slot[s]
      BY <3>2, <2>3, <1>1
    <3>4. ASSUME NEW s \in Port
          PROVE  /\ slot[s].live => slot'[s].live /\ slot'[s].name = slot[s].name
                 /\ slot'[s].live => slot[s].live
                 /\ slot[s].on => slot'[s].on
                 /\ slot'[s].on => slot[s].on
                 /\ slot'[s].bpf = slot'[s].on
                 /\ slot'[s].xsk > 0 => slot'[s].nq > 0
      <4>1. CASE s = F
        BY <4>1, <3>1, <3>2, <3>3
      <4>2. CASE s # F
        BY <4>2, <3>3, <2>1
      <4> QED
        BY <4>1, <4>2
    <3> QED
      BY <3>3, <3>4
  <2> QED
    BY <2>2, <2>3, <1>3
<1> HIDE DEF w, F
<1>6. PlumbType'
  <2>1. promisc' \subseteq Port
    BY <1>0, <1>2, <1>3 DEF PlumbType
  <2> QED
    BY <2>1, <1>0, <1>1, <1>3, <1>5 DEF PlumbType
<1>7. OpenInv'
  BY <1>1 DEF OpenInv
<1>8. LiveInv'
  BY <1>0, <1>1, <1>4, <1>5 DEF LiveInv
<1>9. ReloadInv'
  <2>1. \A s \in added : s \in Port /\ slot[s].live
    BY <1>0, <1>1, PortFacts DEF PlumbType, ReloadInv
  <2> QED
    BY <2>1, <1>1, <1>5 DEF ReloadInv
<1>10. CloseInv'
  BY <1>0, <1>1, <1>4, <1>5 DEF CloseInv
<1>11. LinkInv'
  <2>1. \A s \in Port : slot[s].on => slot[s].live
    BY <1>0, <1>1 DEF LiveInv
  <2> QED
    BY <2>1, <1>0, <1>1, <1>3, <1>5 DEF LinkInv
<1> QED
  BY <1>6, <1>7, <1>8, <1>9, <1>10, <1>11 DEF IInv

(* Taking a live slot's program off its interface leaves the others'.      *)
LEMMA TakenOff ==
  ASSUME PlumbType, LiveInv, CloseInv, LinkInv, pc \in {"run", "rollback"},
         NEW s \in Port, slot[s].live, NEW o \in Slots,
         ~o.on, ~o.bpf, o.xsk = 0, o.live => o.name = slot[s].name,
         slot' = [slot EXCEPT ![s] = o],
         link' = link \ {slot[s].name} \/ (link' = link /\ ~slot[s].on)
  PROVE  /\ slot' \in [Port -> Slots] /\ link' \subseteq Port
         /\ slot'[s] = o /\ \A t \in Port : t # s => slot'[t] = slot[t]
         /\ \A t \in Port : /\ slot'[t].on => slot[t].on
                            /\ slot'[t].live => slot[t].live /\ slot'[t].name = slot[t].name
                            /\ slot'[t].on => slot'[t].live
                            /\ slot'[t].bpf = slot'[t].on
                            /\ slot'[t].xsk > 0 => slot'[t].nq > 0
         /\ \A p \in Port : p \in link' <=> \E t \in Port : slot'[t].on /\ slot'[t].name = p
<1> USE DEF Up, Phase
<1>1. /\ slot \in [Port -> Slots] /\ link \subseteq Port
      /\ \A t \in Port : slot[t].bpf = slot[t].on /\ (slot[t].xsk > 0 => slot[t].nq > 0)
      /\ \A p \in Port : p \in link <=> \E t \in Port : slot[t].on /\ slot[t].name = p
      /\ slot[s].name \in Port
      /\ \A t \in Port : slot[t].on => slot[t].live
      /\ \A t \in Port : slot[t].live /\ slot[t].name = slot[s].name => s = t
  BY DEF PlumbType, CloseInv, LinkInv, LiveInv
<1>2. slot' \in [Port -> Slots] /\ slot'[s] = o /\ \A t \in Port : t # s => slot'[t] = slot[t]
  BY <1>1
<1>3. link' \subseteq Port
  BY <1>1
<1>4. ASSUME NEW t \in Port
      PROVE  /\ slot'[t].on => slot[t].on
             /\ slot'[t].live => slot[t].live /\ slot'[t].name = slot[t].name
             /\ slot'[t].on => slot'[t].live
             /\ slot'[t].bpf = slot'[t].on
             /\ slot'[t].xsk > 0 => slot'[t].nq > 0
  <2>1. CASE t = s
    <3>1. o.bpf = o.on
      BY DEF Slots
    <3>2. ~(o.xsk > 0)
      OBVIOUS
    <3> QED
      BY <2>1, <3>1, <3>2, <1>2
  <2>2. CASE t # s
    BY <2>2, <1>1, <1>2
  <2> QED
    BY <2>1, <2>2
<1>5. ASSUME NEW p \in Port
      PROVE  p \in link' <=> \E t \in Port : slot'[t].on /\ slot'[t].name = p
  <2>1. \A t \in Port : slot'[t].on => t # s
    BY <1>2
  <2>2. CASE p = slot[s].name
    <3>1. p \notin link'
      BY <2>2, <1>1
    <3>2. ASSUME NEW t \in Port, slot'[t].on PROVE slot'[t].name # p
      BY <3>2, <2>1, <2>2, <1>1, <1>2
    <3> QED
      BY <3>1, <3>2
  <2>3. CASE p # slot[s].name
    <3>1. p \in link' <=> p \in link
      BY <2>3
    <3>2. ASSUME NEW t \in Port
          PROVE  slot'[t].on /\ slot'[t].name = p <=> slot[t].on /\ slot[t].name = p
      BY <2>1, <2>3, <1>2
    <3> QED
      BY <3>1, <3>2, <1>1
  <2> QED
    BY <2>2, <2>3
<1> QED
  BY <1>2, <1>3, <1>4, <1>5

(* A rolled back slot takes its program along, if there is one: the slot   *)
(* is live and shares its interface with no other.                         *)
LEMMA RollbackNext ==
  ASSUME IInv, RollbackWan
  PROVE  IInv'
<1> USE DEF Up, Phase
<1> DEFINE s == Max(added)
<1>0. PlumbType /\ OpenInv /\ LiveInv /\ ReloadInv /\ CloseInv /\ LinkInv
  BY DEF IInv
<1>1. s \in added /\ s \in Port /\ slot[s].live
  <2>1. added \in SUBSET Wan /\ added # {} /\ pc = "rollback"
    BY <1>0 DEF PlumbType, RollbackWan
  <2>2. IsFiniteSet(added)
    BY <2>1, PortFacts, FS_Subset
  <2>3. added \subseteq Int
    BY <2>1, PortFacts
  <2>4. s \in added
    BY <2>1, <2>2, <2>3, MaxIsGreatest
  <2> HIDE DEF s
  <2> QED
    BY <2>1, <2>4, <1>0, PortFacts DEF ReloadInv
<1>2. /\ pc = "rollback" /\ slot' = [slot EXCEPT ![s] = EmptySlot]
      /\ link' = link \ {slot[s].name} \/ (link' = link /\ ~slot[s].on)
      /\ added' = added \ {s}
      /\ UNCHANGED <<umem, promisc, pc, at, cfg, next, wanCount, draining, crashed>>
  BY DEF RollbackWan, LinkOff, Detaches
<1> HIDE DEF s
<1>3. /\ slot' \in [Port -> Slots] /\ link' \subseteq Port
      /\ slot'[s] = EmptySlot /\ \A t \in Port : t # s => slot'[t] = slot[t]
      /\ \A t \in Port : /\ slot'[t].on => slot[t].on
                         /\ slot'[t].live => slot[t].live /\ slot'[t].name = slot[t].name
                         /\ slot'[t].on => slot'[t].live
                         /\ slot'[t].bpf = slot'[t].on
                         /\ slot'[t].xsk > 0 => slot'[t].nq > 0
      /\ \A p \in Port : p \in link' <=> \E t \in Port : slot'[t].on /\ slot'[t].name = p
  <2>1. /\ EmptySlot \in Slots /\ ~EmptySlot.on /\ ~EmptySlot.bpf /\ EmptySlot.xsk = 0
        /\ ~EmptySlot.live
    BY SlotOps
  <2> QED
    BY <2>1, <1>0, <1>1, <1>2, TakenOff
<1>4. InUse' = InUse
  BY <1>2 DEF InUse
<1>5. PlumbType'
  BY <1>0, <1>2, <1>3 DEF PlumbType
<1>6. OpenInv'
  BY <1>2 DEF OpenInv
<1>7. LiveInv'
  BY <1>0, <1>2, <1>3, <1>4 DEF LiveInv
<1>8. ReloadInv'
  <2>1. \A t \in added : t \in Port /\ slot[t].live
    BY <1>0, <1>2, PortFacts DEF PlumbType, ReloadInv
  <2> QED
    BY <2>1, <1>2, <1>3 DEF ReloadInv
<1>9. CloseInv'
  BY <1>0, <1>2, <1>3, <1>4 DEF CloseInv
<1>10. LinkInv'
  BY <1>3 DEF LinkInv
<1> QED
  BY <1>5, <1>6, <1>7, <1>8, <1>9, <1>10 DEF IInv

(* The end of a drain detaches a slot that is still live.                  *)
LEMMA DrainNext ==
  ASSUME IInv, NEW s \in Wan, DrainEnds(s)
  PROVE  IInv'
<1> USE DEF Up, Phase
<1> DEFINE o == Detached(slot[s])
<1>0. PlumbType /\ OpenInv /\ LiveInv /\ ReloadInv /\ CloseInv /\ LinkInv
  BY DEF IInv
<1>1. pc = "run" /\ s \in draining /\ s \in Port /\ slot[s].live /\ slot \in [Port -> Slots]
  BY <1>0, PortFacts DEF PlumbType, DrainEnds, ReloadInv
<1>2. /\ slot' = [slot EXCEPT ![s] = o] /\ link' = link \ {slot[s].name}
      /\ draining' = draining \ {s}
      /\ UNCHANGED <<umem, promisc, pc, at, cfg, next, wanCount, added, crashed>>
  BY DEF DrainEnds, LinkOff
<1>3. o \in Slots /\ o.name = slot[s].name /\ o.xsk = 0 /\ ~o.bpf /\ ~o.on /\ o.live = slot[s].live
  BY <1>1, SlotOps
<1> HIDE DEF o
<1>4. /\ slot' \in [Port -> Slots] /\ link' \subseteq Port
      /\ slot'[s] = o /\ \A t \in Port : t # s => slot'[t] = slot[t]
      /\ \A t \in Port : /\ slot'[t].on => slot[t].on
                         /\ slot'[t].live => slot[t].live /\ slot'[t].name = slot[t].name
                         /\ slot'[t].on => slot'[t].live
                         /\ slot'[t].bpf = slot'[t].on
                         /\ slot'[t].xsk > 0 => slot'[t].nq > 0
      /\ \A p \in Port : p \in link' <=> \E t \in Port : slot'[t].on /\ slot'[t].name = p
  BY <1>0, <1>1, <1>2, <1>3, TakenOff
<1>5. InUse' = InUse
  BY <1>2 DEF InUse
<1>6. PlumbType'
  <2>1. draining' \subseteq Wan
    BY <1>0, <1>2 DEF PlumbType
  <2> QED
    BY <2>1, <1>0, <1>2, <1>4 DEF PlumbType
<1>7. OpenInv'
  BY <1>1, <1>2 DEF OpenInv
<1>8. LiveInv'
  BY <1>0, <1>1, <1>2, <1>4, <1>5 DEF LiveInv
<1>9. ReloadInv'
  <2>1. \A t \in draining : t \in Port /\ slot[t].live
    BY <1>0, <1>1, PortFacts DEF PlumbType, ReloadInv
  <2> QED
    BY <2>1, <1>1, <1>2, <1>4 DEF ReloadInv
<1>10. CloseInv'
  BY <1>0, <1>1, <1>2, <1>4, <1>5 DEF CloseInv
<1>11. LinkInv'
  BY <1>4 DEF LinkInv
<1> QED
  BY <1>6, <1>7, <1>8, <1>9, <1>10, <1>11 DEF IInv

----------------------------------------------------------------------------
(* The theorems.                                                           *)

(* At the first start there is nothing to find.                            *)
LEMMA InitHolds == Init => IInv
<1> SUFFICES ASSUME Init PROVE IInv
  OBVIOUS
<1> USE DEF Up, Phase
<1>1. /\ pc = "down" /\ at = 0 /\ cfg \in Cfgs /\ next = cfg /\ wanCount = 0
      /\ added = {} /\ draining = {} /\ crashed = FALSE
      /\ umem = FALSE /\ link = {} /\ promisc = {}
      /\ slot \in [Port -> Slots] /\ \A s \in Port : slot[s] = EmptySlot
  BY SlotOps DEF Init, XskInit
<1>2. PlumbType
  <2>1. 0 \in 0..Wans
    BY Counts
  <2> QED
    BY <2>1, <1>1 DEF PlumbType
<1>3. OpenInv /\ LiveInv /\ ReloadInv /\ LinkInv
  BY <1>1 DEF OpenInv, LiveInv, ReloadInv, LinkInv
<1>4. CloseInv
  <2>1. \A s \in Port : /\ ~slot[s].on /\ slot[s].bpf = slot[s].on /\ slot[s].xsk = 0
    BY <1>1, SlotOps
  <2>2. \A s \in Port : ~(slot[s].xsk > 0)
    BY <2>1
  <2> QED
    BY <2>1, <2>2, <1>1 DEF CloseInv
<1> QED
  BY <1>2, <1>3, <1>4 DEF IInv

(* The threads at work change frames only.                                 *)
LEMMA Quiet ==
  ASSUME IInv, UNCHANGED <<slot, umem, kernelVars, ctlVars>>
  PROVE  IInv'
<1>1. UNCHANGED <<slot, umem, link, promisc, pc, at, cfg, next, wanCount, added, draining,
                  crashed>>
  BY DEF kernelVars, ctlVars
<1>2. InUse' = InUse
  BY <1>1 DEF InUse
<1>3. PlumbType' /\ OpenInv'
  BY <1>1 DEF IInv, PlumbType, OpenInv
<1>4. LiveInv' /\ ReloadInv'
  BY <1>1, <1>2 DEF IInv, LiveInv, ReloadInv
<1>5. CloseInv' /\ LinkInv'
  BY <1>1, <1>2 DEF IInv, CloseInv, LinkInv
<1> QED
  BY <1>3, <1>4, <1>5 DEF IInv

(* Every step keeps the invariant.                                         *)
LEMMA NextHolds == IInv /\ [Next]_vars => IInv'
<1> SUFFICES ASSUME IInv, [Next]_vars PROVE IInv'
  OBVIOUS
<1>1. CASE \E c \in Cfgs : Start(c) \/ Reload(c)
  BY <1>1, EmptyPair, MoveOn
<1>2. CASE InitAborts \/ AttachDone \/ RunBegins \/ Stop
  <2>1. cfg \in Cfgs
    BY DEF IInv, PlumbType
  <2> QED
    BY <2>1, <1>2, MoveOn
<1>3. CASE OpenPair \/ OpenPairFails
  BY <1>3, OpenBegins
<1>4. CASE OpenPort \/ OpenRetried \/ OpenPortFails
  BY <1>4, OpenNext
<1>5. CASE OpenDone
  BY <1>5, OpenEnds
<1>6. CASE AttachPort \/ AttachPortFails
  BY <1>6, AttachNext
<1>7. CASE PlumbWan
  BY <1>7, PlumbNext
<1>8. CASE PlumbWanFails
  BY <1>8, PlumbFails
<1>9. CASE BindWan \/ BindWanFails
  BY <1>9, BindNext
<1>10. CASE SyncDone \/ RollbackDone
  BY <1>10, Recount
<1>11. CASE RollbackWan
  BY <1>11, RollbackNext
<1>12. CASE \E s \in Wan : DrainEnds(s)
  BY <1>12, DrainNext
<1>13. CASE DeleteXsks \/ CloseBpf \/ AllLinksOff
  BY <1>13, ClosePart
<1>14. CASE DeleteUmem \/ PromiscOff \/ Killed \/ UseAfterDelete
  <2>1. cfg \in Cfgs
    BY DEF IInv, PlumbType
  <2> QED
    BY <2>1, <1>14, EmptyPair DEF Killed, UseAfterDelete
<1>15. CASE ThreadStep /\ UNCHANGED ctlVars
  <2>1. UNCHANGED <<slot, umem, kernelVars>>
    BY <1>15 DEF ThreadStep, Refill, KernelReceives, Receive, Release, Transmit, DrainCq,
                 FrameFree
  <2> QED
    BY <2>1, <1>15, Quiet
<1>16. CASE UNCHANGED vars
  BY <1>16, Quiet DEF vars, xskVars
<1> QED
  BY <1>1, <1>2, <1>3, <1>4, <1>5, <1>6, <1>7, <1>8, <1>9, <1>10, <1>11, <1>12, <1>13, <1>14,
     <1>15, <1>16 DEF Next

(* The invariant holds throughout, over failing steps, reloads, rollbacks  *)
(* and deaths of the process in any order.                                 *)
THEOREM Inductive == Spec => []IInv
<1>1. Init => IInv
  BY InitHolds
<1>2. IInv /\ [Next]_vars => IInv'
  BY NextHolds
<1> QED
  BY <1>1, <1>2, PTL DEF Spec

(* Outside the closing sequence the interfaces with a program are those    *)
(* whose slot says so (xdp_wan_on, xdp_local_on):                          *)
(* profile_iface_xdp_link_off never hits an interface another slot holds,  *)
(* as live slots hold different ones.                                      *)
THEOREM Tracked == Spec => []ProgramsTracked
<1>1. IInv => ProgramsTracked
  <2> SUFFICES ASSUME IInv, pc \notin {"down", "bpf", "off", "umem", "promisc"}
               PROVE  link = {slot[s].name : s \in {t \in InUse : slot[t].on}}
    BY DEF ProgramsTracked
  <2>1. /\ PlumbType /\ link \subseteq Port
        /\ \A s \in Port : slot[s].on => s \in InUse
        /\ \A p \in Port : p \in link <=> \E s \in Port : slot[s].on /\ slot[s].name = p
    BY DEF IInv, PlumbType, CloseInv, LinkInv
  <2>2. InUse \subseteq Port
    BY <2>1, InUseFacts
  <2>3. \A s \in Port : slot[s].on => slot[s].name \in Port
    <3>1. pc \in Up \cup {"open", "sockets", "xsk"}
      BY DEF IInv, PlumbType, Phase
    <3> QED
      BY <3>1, SlotOps DEF IInv, OpenInv, LiveInv, CloseInv
  <2> QED
    BY <2>1, <2>2, <2>3
<1> QED
  BY <1>1, Inductive, PTL

(* A dataplane that was stopped leaves no program, no promiscuous          *)
(* interface, no socket and no object behind (forwarder_cleanup and        *)
(* runtime_stop_forwarder), whatever failed before.                        *)
THEOREM Released == Spec => []AllReleased
<1>1. IInv => AllReleased
  BY DEF IInv, OpenInv, CloseInv, AllReleased
<1> QED
  BY <1>1, Inductive, PTL

(* xsk_umem__delete comes when no slot has a socket or an object any more: *)
(* delete_all_live_xsks takes the slots that are live or have queues, and  *)
(* a socket is nowhere else.                                               *)
THEOREM UmemOutlives == Spec => UmemLast
<1>1. IInv /\ [Next]_vars =>
        [umem /\ ~umem' /\ ~crashed' => \A s \in Port : slot[s].xsk = 0 /\ ~slot[s].bpf]_vars
  <2> SUFFICES ASSUME IInv, Next, umem, ~umem', ~crashed'
               PROVE  \A s \in Port : slot[s].xsk = 0 /\ ~slot[s].bpf
    BY DEF vars, xskVars
  <2>1. DeleteUmem
    <3>1. ASSUME NEW c \in Cfgs PROVE ~Start(c) /\ ~Reload(c)
      BY DEF Start, Reload, xskVars
    <3>2. ~InitAborts /\ ~AttachDone /\ ~RunBegins /\ ~Stop /\ ~SyncDone /\ ~RollbackDone
      BY DEF InitAborts, AttachDone, RunBegins, Stop, SyncDone, RollbackDone, xskVars
    <3>3. ~OpenPair /\ ~OpenPairFails /\ ~OpenPort /\ ~OpenRetried /\ ~OpenPortFails /\ ~OpenDone
      BY DEF OpenPair, OpenPairFails, OpenPort, OpenRetried, OpenPortFails, OpenDone
    <3>4. /\ ~AttachPort /\ ~AttachPortFails /\ ~BindWan /\ ~BindWanFails
          /\ ~PlumbWan /\ ~PlumbWanFails
      BY DEF AttachPort, AttachPortFails, BindWan, BindWanFails, PlumbWan, PlumbWanFails
    <3>5. ~RollbackWan /\ \A s \in Wan : ~DrainEnds(s)
      BY DEF RollbackWan, DrainEnds
    <3>6. ~DeleteXsks /\ ~CloseBpf /\ ~AllLinksOff /\ ~PromiscOff
      BY DEF DeleteXsks, CloseBpf, AllLinksOff, PromiscOff
    <3>7. ~Killed /\ ~UseAfterDelete
      BY DEF Killed, UseAfterDelete, Dies
    <3>8. ~ThreadStep
      BY DEF ThreadStep, Refill, KernelReceives, Receive, Release, Transmit, DrainCq, FrameFree
    <3> QED
      BY <3>1, <3>2, <3>3, <3>4, <3>5, <3>6, <3>7, <3>8 DEF Next
  <2> QED
    BY <2>1 DEF IInv, CloseInv, DeleteUmem
<1> QED
  BY <1>1, Inductive, PTL DEF Spec, UmemLast

(***************************************************************************)
(* Sums over finite sets, by induction over subsets.                       *)
(***************************************************************************)

(* A set of natural numbers has a least element.                           *)
LEMMA LeastNat ==
  ASSUME NEW T, T \subseteq Nat, T # {}
  PROVE  \E m \in T : \A k \in T : m <= k
<1>1. PICK t \in T : TRUE
  OBVIOUS
<1> DEFINE B == T \cap 0..t
<1>2. B \subseteq Int /\ B # {} /\ B \subseteq 0..t /\ t \in Nat
  BY <1>1
<1>3. IsFiniteSet(B)
  <2>1. IsFiniteSet(0..t)
    BY <1>2, FS_Interval
  <2>2. B \in SUBSET (0..t)
    OBVIOUS
  <2> QED
    BY <2>1, <2>2, FS_Subset
<1>4. Min(B) \in B /\ \A y \in B : Min(B) <= y
  <2> HIDE DEF B
  <2> QED
    BY <1>2, <1>3, MinIsLeast
<1>5. PICK m \in B : \A y \in B : m <= y
  BY <1>4
<1>6. \A k \in T : m <= k
  BY <1>5, <1>2
<1> QED
  BY <1>5, <1>6

(* Induction over the natural numbers, for a set.                          *)
LEMMA NatSteps ==
  ASSUME NEW P, 0 \in P, \A n \in Nat : n \in P => n + 1 \in P
  PROVE  \A n \in Nat : n \in P
<1> SUFFICES ASSUME NEW n \in Nat, n \notin P
             PROVE  FALSE
  OBVIOUS
<1>1. PICK m \in Nat \ P : \A k \in Nat \ P : m <= k
  BY LeastNat, Nat \ P # {}, Nat \ P \subseteq Nat
<1>2. m - 1 \in Nat /\ m - 1 \in P
  BY <1>1
<1> QED
  BY <1>1, <1>2

(* Induction over the subsets of a finite set, for a set of sets.          *)
LEMMA SubsetSteps ==
  ASSUME NEW S, IsFiniteSet(S), NEW F, {} \in F,
         \A s \in SUBSET S : s # {} /\ (\A x \in s : s \ {x} \in F) => s \in F
  PROVE  \A s \in SUBSET S : s \in F
<1> DEFINE P == {n \in Nat : \A s \in SUBSET S : Cardinality(s) <= n => s \in F}
<1>1. \A s \in SUBSET S : IsFiniteSet(s) /\ Cardinality(s) \in Nat
  BY FS_Subset, FS_CardinalityType
<1>2. 0 \in P
  <2>1. \A s \in SUBSET S : Cardinality(s) <= 0 => s = {}
    BY <1>1, FS_EmptySet
  <2> QED
    BY <2>1
<1>3. ASSUME NEW n \in Nat, n \in P
      PROVE  n + 1 \in P
  <2> SUFFICES ASSUME NEW s \in SUBSET S, Cardinality(s) <= n + 1
               PROVE  s \in F
    OBVIOUS
  <2>1. \A x \in s : s \ {x} \in F
    <3> SUFFICES ASSUME NEW x \in s
                 PROVE  s \ {x} \in F
      OBVIOUS
    <3>1. Cardinality(s \ {x}) = Cardinality(s) - 1
      BY <1>1, FS_RemoveElement
    <3>2. Cardinality(s \ {x}) <= n
      BY <3>1, <1>1
    <3> QED
      BY <3>2, <1>3
  <2> QED
    BY <2>1
<1>4. \A n \in Nat : n \in P
  <2> HIDE DEF P
  <2> QED
    BY <1>2, <1>3, NatSteps
<1> QED
  BY <1>1, <1>4

(* A function on the subsets of a finite set can be defined by recursion   *)
(* on one element of each, c[s]: b for the empty set, op for the others.   *)
WellDefined(S, V, b, op, c) ==
  /\ IsFiniteSet(S) /\ b \in V /\ op \in [S \X V -> V]
  /\ \A s \in SUBSET S : s # {} => c[s] \in s

Solves(g, S, b, op, c) ==
  \A s \in SUBSET S : g[s] = IF s = {} THEN b ELSE op[<<c[s], g[s \ {c[s]}]>>]

(* A recursion over subsets has a solution.                                *)
LEMMA SubsetRecursion ==
  ASSUME NEW S, NEW V, NEW b, NEW op, NEW c, WellDefined(S, V, b, op, c)
  PROVE  \E g \in [SUBSET S -> V] : Solves(g, S, b, op, c)
<1> USE DEF WellDefined
<1> DEFINE L(n) == {s \in SUBSET S : Cardinality(s) <= n}
           Rec(g, n) == \A s \in L(n) :
             g[s] = IF s = {} THEN b ELSE op[<<c[s], g[s \ {c[s]}]>>]
           P == {n \in Nat : \E g \in [L(n) -> V] : Rec(g, n)}
<1>1. \A s \in SUBSET S : IsFiniteSet(s) /\ Cardinality(s) \in Nat
  BY FS_Subset, FS_CardinalityType
<1>2. 0 \in P
  <2>1. \A s \in SUBSET S : Cardinality(s) <= 0 => s = {}
    BY <1>1, FS_EmptySet
  <2>2. [s \in L(0) |-> b] \in [L(0) -> V] /\ Rec([s \in L(0) |-> b], 0)
    BY <2>1
  <2> QED
    BY <2>2
<1>3. ASSUME NEW n \in Nat, n \in P
      PROVE  n + 1 \in P
  <2>1. PICK g \in [L(n) -> V] : Rec(g, n)
    BY <1>3
  <2> DEFINE h == [s \in L(n + 1) |-> IF s = {} THEN b ELSE op[<<c[s], g[s \ {c[s]}]>>]]
  <2>2. \A s \in L(n + 1) : s # {} => c[s] \in S /\ s \ {c[s]} \in L(n)
    <3> SUFFICES ASSUME NEW s \in L(n + 1), s # {}
                 PROVE  c[s] \in S /\ s \ {c[s]} \in L(n)
      OBVIOUS
    <3>1. c[s] \in s
      OBVIOUS
    <3>2. Cardinality(s \ {c[s]}) = Cardinality(s) - 1
      BY <1>1, <3>1, FS_RemoveElement
    <3> QED
      BY <3>1, <3>2, <1>1
  <2>3. h \in [L(n + 1) -> V]
    BY <2>2
  <2>4. \A s \in L(n) : s \in L(n + 1) /\ h[s] = g[s]
    <3>1. \A s \in L(n) : s \in L(n + 1)
      BY <1>1
    <3> QED
      BY <2>1, <3>1
  <2>5. Rec(h, n + 1)
    <3> HIDE DEF L
    <3> QED
      BY <2>2, <2>4
  <2>6. \E k \in [L(n + 1) -> V] : Rec(k, n + 1)
    <3> HIDE DEF h, L, Rec
    <3> QED
      BY <2>3, <2>5
  <2>7. n + 1 \in Nat
    OBVIOUS
  <2> HIDE DEF L, Rec
  <2> QED
    BY <2>6, <2>7
<1>4. \A n \in Nat : n \in P
  <2> HIDE DEF P
  <2> QED
    BY <1>2, <1>3, NatSteps
<1>5. Cardinality(S) \in Nat /\ L(Cardinality(S)) = SUBSET S
  BY FS_Subset, FS_CardinalityType
<1>6. Cardinality(S) \in P
  BY <1>4, <1>5
<1> QED
  BY <1>5, <1>6 DEF Solves

Pick(s) == CHOOSE x \in s : TRUE

(* g adds up f over the subsets of S, one picked element after another.    *)
Adds(g, f, S) ==
  \A s \in SUBSET S : g[s] = IF s = {} THEN 0 ELSE f[Pick(s)] + g[s \ {Pick(s)}]

(* There is such a function, and it does not depend on what is picked.     *)
LEMMA SumExists ==
  ASSUME NEW S, IsFiniteSet(S), NEW f, \A x \in S : f[x] \in Int
  PROVE  \E g \in [SUBSET S -> Int] : Adds(g, f, S)
<1> DEFINE op == [p \in S \X Int |-> f[p[1]] + p[2]]
           c == [s \in SUBSET S |-> Pick(s)]
<1>1. op \in [S \X Int -> Int]
  OBVIOUS
<1>2. \A s \in SUBSET S : c[s] = Pick(s) /\ (s # {} => c[s] \in s)
  BY DEF Pick
<1>3. \A x \in S : \A n \in Int : op[<<x, n>>] = f[x] + n
  OBVIOUS
<1> HIDE DEF op, c
<1>4. PICK g \in [SUBSET S -> Int] : Solves(g, S, 0, op, c)
  <2>1. WellDefined(S, Int, 0, op, c)
    BY <1>1, <1>2 DEF WellDefined
  <2> QED
    BY <2>1, SubsetRecursion
<1>5. Adds(g, f, S)
  <2> SUFFICES ASSUME NEW s \in SUBSET S, s # {}
               PROVE  g[s] = f[Pick(s)] + g[s \ {Pick(s)}]
    BY <1>4 DEF Adds, Solves
  <2>1. Pick(s) \in S /\ g[s \ {Pick(s)}] \in Int
    BY <1>2
  <2>2. g[s] = op[<<Pick(s), g[s \ {Pick(s)}]>>]
    BY <1>2, <1>4 DEF Solves
  <2> QED
    BY <1>3, <2>1, <2>2
<1> QED
  BY <1>4, <1>5

(* Equal summands give equal sums.                                         *)
LEMMA SumUnique ==
  ASSUME NEW S, IsFiniteSet(S), NEW f, NEW e, \A x \in S : f[x] = e[x],
         NEW g, Adds(g, f, S), NEW h, Adds(h, e, S)
  PROVE  \A s \in SUBSET S : g[s] = h[s]
<1> DEFINE F == {s \in SUBSET S : g[s] = h[s]}
<1>1. {} \in F
  BY DEF Adds
<1>2. ASSUME NEW s \in SUBSET S, s # {}, \A x \in s : s \ {x} \in F
      PROVE  s \in F
  <2>1. Pick(s) \in s
    BY <1>2 DEF Pick
  <2>2. g[s \ {Pick(s)}] = h[s \ {Pick(s)}] /\ f[Pick(s)] = e[Pick(s)]
    BY <1>2, <2>1
  <2> QED
    BY <1>2, <2>2 DEF Adds
<1> HIDE DEF F
<1>3. \A s \in SUBSET S : s \in F
  BY <1>1, <1>2, SubsetSteps
<1> QED
  BY <1>3 DEF F

AddsAny(g, f, S) ==
  \A s \in SUBSET S : \A x \in s : g[s] = f[x] + g[s \ {x}]

(* Any element may be taken out first.                                     *)
LEMMA SumAnyPick ==
  ASSUME NEW S, IsFiniteSet(S), NEW f, \A x \in S : f[x] \in Int,
         NEW g \in [SUBSET S -> Int], Adds(g, f, S)
  PROVE  AddsAny(g, f, S)
<1> DEFINE F == {s \in SUBSET S : \A x \in s : g[s] = f[x] + g[s \ {x}]}
<1>1. {} \in F
  OBVIOUS
<1>2. ASSUME NEW s \in SUBSET S, s # {}, \A x \in s : s \ {x} \in F
      PROVE  s \in F
  <2> SUFFICES ASSUME NEW x \in s
               PROVE  g[s] = f[x] + g[s \ {x}]
    OBVIOUS
  <2>1. PICK p \in s : g[s] = f[p] + g[s \ {p}]
    BY <1>2 DEF Pick, Adds
  <2>2. CASE p = x
    BY <2>1, <2>2
  <2>3. CASE p # x
    <3>1. PICK r \in SUBSET S : r = (s \ {p}) \ {x} /\ r = (s \ {x}) \ {p}
      BY <2>3, (s \ {p}) \ {x} = (s \ {x}) \ {p}, (s \ {p}) \ {x} \in SUBSET S
    <3>2. g[s \ {p}] = f[x] + g[r]
      BY <1>2, <2>3, <3>1, x \in s \ {p}
    <3>3. g[s \ {x}] = f[p] + g[r]
      BY <1>2, <2>3, <3>1, p \in s \ {x}
    <3>4. x \in S /\ p \in S
      OBVIOUS
    <3>5. g[r] \in Int /\ f[x] \in Int /\ f[p] \in Int
      BY <3>4
    <3> QED
      BY <2>1, <3>2, <3>3, <3>5
  <2> QED
    BY <2>2, <2>3
<1> HIDE DEF F
<1>3. \A s \in SUBSET S : s \in F
  BY <1>1, <1>2, SubsetSteps
<1> QED
  BY <1>3 DEF F, AddsAny

(* What SumOver adds up.                                                   *)
LEMMA SumIsAdds ==
  ASSUME NEW S, IsFiniteSet(S), NEW f, \A x \in S : f[x] \in Int
  PROVE  \E g \in [SUBSET S -> Int] : Adds(g, f, S) /\ g[S] = SumOver(f, S)
<1>1. PICK h \in [SUBSET S -> Int] : Adds(h, f, S)
  BY SumExists
<1>2. h = [s \in SUBSET S |-> IF s = {} THEN 0
                             ELSE f[CHOOSE x \in s : TRUE] + h[s \ {CHOOSE x \in s : TRUE}]]
  BY <1>1 DEF Adds, Pick
<1>3. PICK g : /\ g = [s \in SUBSET S |-> IF s = {} THEN 0
                             ELSE f[CHOOSE x \in s : TRUE] + g[s \ {CHOOSE x \in s : TRUE}]]
               /\ SumOver(f, S) = g[S]
  BY <1>2 DEF SumOver, MapThenSumSet, MapThenFoldSet
<1>4. Adds(g, f, S)
  BY <1>3 DEF Adds, Pick
<1>5. h[S] = g[S]
  BY <1>1, <1>4, SumUnique
<1> QED
  BY <1>1, <1>3, <1>5

(* The empty sum.                                                          *)
LEMMA SumEmpty ==
  ASSUME NEW f
  PROVE  SumOver(f, {}) = 0
<1>1. IsFiniteSet({}) /\ \A x \in {} : f[x] \in Int
  BY FS_EmptySet
<1>2. PICK g \in [SUBSET {} -> Int] : Adds(g, f, {}) /\ g[{}] = SumOver(f, {})
  BY <1>1, SumIsAdds
<1> QED
  BY <1>2 DEF Adds

(* One summand can be taken out.                                           *)
LEMMA SumRemove ==
  ASSUME NEW S, IsFiniteSet(S), NEW f, \A x \in S : f[x] \in Int
  PROVE  /\ SumOver(f, S) \in Int
         /\ \A x \in S : SumOver(f, S) = f[x] + SumOver(f, S \ {x})
<1>1. PICK g \in [SUBSET S -> Int] : Adds(g, f, S) /\ g[S] = SumOver(f, S)
  BY SumIsAdds
<1>2. ASSUME NEW x \in S
      PROVE  SumOver(f, S) = f[x] + SumOver(f, S \ {x})
  <2> DEFINE R == S \ {x}
  <2>1. IsFiniteSet(R) /\ R \in SUBSET S
    BY FS_RemoveElement
  <2>2. PICK h \in [SUBSET R -> Int] : Adds(h, f, R) /\ h[R] = SumOver(f, R)
    <3> HIDE DEF R
    <3> QED
      BY <2>1, SumIsAdds
  <2>3. Adds(g, f, R)
    BY <1>1, <2>1 DEF Adds
  <2>4. h[R] = g[R]
    <3> HIDE DEF R
    <3> QED
      BY <2>1, <2>2, <2>3, SumUnique
  <2>5. g[S] = f[x] + g[R]
    <3>1. AddsAny(g, f, S)
      BY <1>1, SumAnyPick
    <3> QED
      BY <3>1, S \in SUBSET S DEF AddsAny
  <2> QED
    BY <1>1, <2>2, <2>4, <2>5
<1> QED
  BY <1>1, <1>2

(* Where two functions differ is where their sums do.                      *)
LEMMA SumChange ==
  ASSUME NEW S, IsFiniteSet(S), NEW Q \in SUBSET S, NEW f, NEW e,
         \A x \in S : f[x] \in Int /\ e[x] \in Int, \A x \in S \ Q : f[x] = e[x]
  PROVE  SumOver(e, S) - SumOver(f, S) = SumOver(e, Q) - SumOver(f, Q)
<1> DEFINE F == {s \in SUBSET S :
              SumOver(e, s) - SumOver(f, s) = SumOver(e, s \cap Q) - SumOver(f, s \cap Q)}
<1>1. {} \in F
  <2>1. {} \cap Q = {}
    OBVIOUS
  <2> QED
    BY <2>1
<1>2. ASSUME NEW s \in SUBSET S, s # {}, \A x \in s : s \ {x} \in F
      PROVE  s \in F
  <2>1. PICK x \in s : TRUE
    BY <1>2
  <2>2. PICK r, p, t : r = s \ {x} /\ p = s \cap Q /\ t = r \cap Q
    OBVIOUS
  <2>3. IsFiniteSet(s) /\ IsFiniteSet(p) /\ IsFiniteSet(r) /\ IsFiniteSet(t)
    BY <2>2, FS_Subset
  <2>4. /\ SumOver(f, s) = f[x] + SumOver(f, r) /\ SumOver(e, s) = e[x] + SumOver(e, r)
        /\ f[x] \in Int /\ e[x] \in Int
    <3>1. \A y \in s : f[y] \in Int /\ e[y] \in Int
      OBVIOUS
    <3> QED
      BY <2>2, <2>3, <3>1, SumRemove
  <2>5. SumOver(f, r) \in Int /\ SumOver(e, r) \in Int
    <3>1. \A y \in r : f[y] \in Int /\ e[y] \in Int
      BY <2>2
    <3> QED
      BY <2>3, <3>1, SumRemove
  <2>6. SumOver(f, t) \in Int /\ SumOver(e, t) \in Int
    <3>1. \A y \in t : f[y] \in Int /\ e[y] \in Int
      BY <2>2
    <3> QED
      BY <2>3, <3>1, SumRemove
  <2>7. SumOver(e, r) - SumOver(f, r) = SumOver(e, t) - SumOver(f, t)
    BY <1>2, <2>2
  <2>8. SumOver(e, s) - SumOver(f, s) = SumOver(e, p) - SumOver(f, p)
    <3>1. CASE x \in Q
      <4>1. x \in p /\ p \ {x} = t /\ \A y \in p : f[y] \in Int /\ e[y] \in Int
        BY <2>2, <3>1
      <4>2. SumOver(f, p) = f[x] + SumOver(f, t) /\ SumOver(e, p) = e[x] + SumOver(e, t)
        BY <2>3, <4>1, SumRemove
      <4> QED
        BY <2>4, <2>5, <2>6, <2>7, <4>2
    <3>2. CASE x \notin Q
      <4>1. p = t /\ f[x] = e[x]
        BY <2>2, <3>2
      <4> QED
        BY <2>4, <2>5, <2>6, <2>7, <4>1
    <3> QED
      BY <3>1, <3>2
  <2> QED
    BY <2>2, <2>8
<1> HIDE DEF F
<1>3. \A s \in SUBSET S : s \in F
  BY <1>1, <1>2, SubsetSteps
<1>4. S \cap Q = Q
  OBVIOUS
<1> QED
  BY <1>3, <1>4, S \in SUBSET S DEF F

(* A sum of greater summands is not less.                                  *)
LEMMA SumLeq ==
  ASSUME NEW S, IsFiniteSet(S), NEW f, NEW e,
         \A x \in S : f[x] \in Int /\ e[x] \in Int /\ f[x] <= e[x]
  PROVE  SumOver(f, S) \in Int /\ SumOver(e, S) \in Int /\ SumOver(f, S) <= SumOver(e, S)
<1> DEFINE F == {s \in SUBSET S : SumOver(f, s) <= SumOver(e, s)}
<1>1. {} \in F
  BY SumEmpty
<1>2. ASSUME NEW s \in SUBSET S, s # {}, \A x \in s : s \ {x} \in F
      PROVE  s \in F
  <2>1. PICK x \in s : TRUE
    BY <1>2
  <2>2. PICK r : r = s \ {x}
    OBVIOUS
  <2>3. IsFiniteSet(s) /\ IsFiniteSet(r)
    BY <2>2, FS_Subset
  <2>4. /\ SumOver(f, s) = f[x] + SumOver(f, r) /\ SumOver(e, s) = e[x] + SumOver(e, r)
        /\ f[x] \in Int /\ e[x] \in Int /\ f[x] <= e[x]
    <3>1. \A y \in s : f[y] \in Int /\ e[y] \in Int
      OBVIOUS
    <3> QED
      BY <2>2, <2>3, <3>1, SumRemove
  <2>5. SumOver(f, r) \in Int /\ SumOver(e, r) \in Int
    <3>1. \A y \in r : f[y] \in Int /\ e[y] \in Int
      BY <2>2
    <3> QED
      BY <2>3, <3>1, SumRemove
  <2>6. SumOver(f, r) <= SumOver(e, r)
    BY <1>2, <2>2
  <2>7. SumOver(f, s) <= SumOver(e, s)
    BY <2>4, <2>5, <2>6
  <2> QED
    BY <2>7
<1> HIDE DEF F
<1>3. \A s \in SUBSET S : s \in F
  BY <1>1, <1>2, SubsetSteps
<1> QED
  BY <1>3, S \in SUBSET S, SumRemove DEF F

(* Zeros sum to zero.                                                      *)
LEMMA SumZero ==
  ASSUME NEW S, IsFiniteSet(S), NEW f, \A x \in S : f[x] = 0
  PROVE  SumOver(f, S) = 0
<1> DEFINE F == {s \in SUBSET S : SumOver(f, s) = 0}
<1>2. {} \in F
  BY SumEmpty
<1>3. ASSUME NEW s \in SUBSET S, s # {}, \A x \in s : s \ {x} \in F
      PROVE  s \in F
  <2>1. PICK x \in s : TRUE
    BY <1>3
  <2>2. IsFiniteSet(s) /\ \A y \in s : f[y] \in Int
    BY FS_Subset
  <2>3. SumOver(f, s) = f[x] + SumOver(f, s \ {x})
    BY <2>2, SumRemove
  <2>4. SumOver(f, s \ {x}) = 0 /\ f[x] = 0
    BY <1>3
  <2> QED
    BY <2>3, <2>4
<1> HIDE DEF F
<1>4. \A s \in SUBSET S : s \in F
  BY <1>2, <1>3, SubsetSteps
<1> QED
  BY <1>4, S \in SUBSET S DEF F

(* One summand changes.                                                    *)
LEMMA SumOne ==
  ASSUME NEW S, IsFiniteSet(S), NEW x \in S, NEW f, NEW e,
         \A y \in S : f[y] \in Int /\ e[y] \in Int, \A y \in S \ {x} : f[y] = e[y]
  PROVE  SumOver(e, S) = SumOver(f, S) - f[x] + e[x]
<1>1. SumOver(e, S) - SumOver(f, S) = SumOver(e, {x}) - SumOver(f, {x})
  BY {x} \in SUBSET S, SumChange
<1>2. SumOver(e, {x}) = e[x] /\ SumOver(f, {x}) = f[x]
  <2>1. IsFiniteSet({x}) /\ {x} \ {x} = {} /\ x \in {x}
    BY FS_Singleton
  <2>2. /\ SumOver(e, {x}) = e[x] + SumOver(e, {x} \ {x})
        /\ SumOver(f, {x}) = f[x] + SumOver(f, {x} \ {x})
    BY <2>1, SumRemove
  <2> QED
    BY <2>1, <2>2, SumEmpty
<1>3. SumOver(e, S) \in Int /\ SumOver(f, S) \in Int /\ e[x] \in Int /\ f[x] \in Int
  BY SumRemove
<1> QED
  BY <1>1, <1>2, <1>3

(***************************************************************************)
(* Where the frames are.  FramesKept is not inductive: that a rollback     *)
(* gives back no frame a worker still holds needs to know that a slot      *)
(* without a program has received nothing, and that what is forgotten with *)
(* a slot's queues is all the slot has, that frames are only in the queues *)
(* of live slots.                                                          *)
(***************************************************************************)

Most == Max({NumQ[p] : p \in Port})
Keeping == {"attach", "rings", "run", "sync", "bind"}

FrameType ==
  /\ pool \in Int /\ hand \in Int
  /\ fq \in [Queue -> Nat] /\ rx \in [Queue -> Nat]
  /\ pend \in [Queue -> Nat] /\ out \in [Queue -> Nat]
  /\ \A q \in Queue : pend[q] <= rx[q]

(* The pool has n frames, and no frame is elsewhere.                       *)
Fresh(n) ==
  /\ pool = n /\ hand = 0
  /\ fq = NoFrames /\ rx = NoFrames /\ pend = NoFrames /\ out = NoFrames

(* A slot's queues that have frames are those of a live slot, and a slot   *)
(* that receives has a program.                                            *)
InPlace(q) ==
  /\ fq[q] > 0 \/ rx[q] > 0 \/ out[q] > 0 => slot[q[1]].live /\ q[2] < slot[q[1]].nq
  /\ rx[q] > 0 => slot[q[1]].on

PlaceInv ==
  /\ pc \in {"down", "open", "promisc"} => Fresh(0)
  /\ pc = "sockets" => Fresh(NFrames) /\ \A s \in Port : ~slot[s].live
  /\ pc \in Up => \A q \in Queue : InPlace(q)

RingInv ==
  /\ \A s \in Port : slot[s].nq <= Most
  /\ pc = "sockets" => \A s \in Port : slot[s].xsk <= slot[s].nq
  /\ pc \in Up => \A s \in Port : slot[s].live => slot[s].xsk <= slot[s].nq

(* A live slot has lost sockets.                                           *)
Short == \E s \in Port : slot[s].live /\ slot[s].xsk < slot[s].nq

KeptInv ==
  /\ Accounted <= NFrames
  /\ pc \in Keeping => Accounted = NFrames \/ Short

FrameInv == FrameType /\ PlaceInv /\ RingInv /\ KeptInv

----------------------------------------------------------------------------
(* The lesser and the greater of two numbers.                              *)
LEMMA MinMaxOfTwo ==
  ASSUME NEW a \in Int, NEW b \in Int
  PROVE  /\ Min({a, b}) \in {a, b} /\ Min({a, b}) <= a /\ Min({a, b}) <= b
         /\ Max({a, b}) \in {a, b} /\ Max({a, b}) >= a /\ Max({a, b}) >= b
<1>1. PICK T : T = {a, b}
  OBVIOUS
<1>2. IsFiniteSet(T)
  <2>1. IsFiniteSet({a} \cup {b})
    BY FS_Singleton, FS_Union
  <2>2. {a} \cup {b} = T
    BY <1>1
  <2> QED
    BY <2>1, <2>2
<1>3. T \subseteq Int /\ T # {} /\ a \in T /\ b \in T
  BY <1>1
<1>4. Min(T) \in T /\ Max(T) \in T /\ \A y \in T : Min(T) <= y /\ Max(T) >= y
  BY <1>2, <1>3, MinIsLeast, MaxIsGreatest
<1> QED
  BY <1>1, <1>3, <1>4

(* There are finitely many queues, and no slot has more than the most.     *)
LEMMA QueueFacts ==
  /\ Most \in Nat /\ \A p \in Port : NumQ[p] <= Most /\ NumQ[p] \in Nat
  /\ Queue = Port \X (0..(Most - 1)) /\ IsFiniteSet(Queue)
<1>1. \A p \in Port : NumQ[p] \in Nat /\ NumQ[p] \in Int
  BY XskAssumption
<1> DEFINE V == {NumQ[p] : p \in Port}
<1>2. IsFiniteSet(V)
  <2> DEFINE g == [p \in Port |-> NumQ[p]]
  <2>1. g \in Surjection(Port, V)
    BY DEF Surjection
  <2> HIDE DEF g, V
  <2> QED
    BY <2>1, PortFacts, FS_Surjection
<1>3. V \subseteq Int /\ V # {}
  <2>1. 0 \in Port
    BY XskAssumption DEF Port
  <2> QED
    BY <1>1, <2>1
<1>4. Max(V) \in V /\ \A y \in V : Max(V) >= y
  <2> HIDE DEF V
  <2> QED
    BY <1>2, <1>3, MaxIsGreatest
<1>5. Most \in Nat /\ \A p \in Port : NumQ[p] <= Most
  BY <1>1, <1>4 DEF Most
<1>6. Queue = Port \X (0..(Most - 1))
  BY DEF Queue, Most
<1>7. IsFiniteSet(Queue)
  <2>1. IsFiniteSet(0..(Most - 1))
    BY <1>5, FS_Interval
  <2> QED
    BY <2>1, <1>6, PortFacts, FS_Product
<1> QED
  BY <1>1, <1>5, <1>6, <1>7

(* The queues of a slot that has no more than any.                         *)
LEMMA QueuesFit ==
  ASSUME NEW s \in Port, NEW n \in Nat, n <= Most
  PROVE  /\ {<<s, i>> : i \in 0..(n - 1)} \in SUBSET Queue
         /\ {<<s, i>> : i \in 0..(n - 1)} = {q \in Queue : q[1] = s /\ q[2] < n}
         /\ IsFiniteSet({<<s, i>> : i \in 0..(n - 1)})
<1> DEFINE Q == {<<s, i>> : i \in 0..(n - 1)}
<1>1. Q \in SUBSET Queue
  BY QueueFacts
<1>2. Q = {q \in Queue : q[1] = s /\ q[2] < n}
  <2>1. ASSUME NEW q \in Queue, q[1] = s, q[2] < n
        PROVE  q \in Q
    BY <2>1, QueueFacts
  <2>2. \A q \in Q : q[1] = s /\ q[2] < n
    OBVIOUS
  <2> QED
    BY <1>1, <2>1, <2>2
<1>3. IsFiniteSet(Q)
  <2> HIDE DEF Q
  <2> QED
    BY <1>1, QueueFacts, FS_Subset
<1> QED
  BY <1>1, <1>2, <1>3

(* Counts of frames sum to a number.                                       *)
LEMMA SumsInt ==
  ASSUME NEW f \in [Queue -> Nat]
  PROVE  SumOver(f, Queue) \in Int /\ f \in [Queue -> Int] /\ \A q \in Queue : f[q] \in Int
<1>1. f \in [Queue -> Int] /\ \A q \in Queue : f[q] \in Int
  OBVIOUS
<1> QED
  BY <1>1, QueueFacts, SumRemove

(* No frames sum to zero.                                                  *)
LEMMA SumsZero == SumOver(NoFrames, Queue) = 0 /\ NoFrames \in [Queue -> Nat]
<1>1. NoFrames \in [Queue -> Nat] /\ \A q \in Queue : NoFrames[q] = 0
  BY DEF NoFrames
<1> QED
  BY <1>1, QueueFacts, SumZero

(* Nothing but a full pool.                                                *)
LEMMA FreshFacts ==
  ASSUME NEW n \in Nat, Fresh(n)
  PROVE  FrameType /\ Accounted = n
<1>1. SumOver(NoFrames, Queue) = 0 /\ NoFrames \in [Queue -> Nat]
  BY SumsZero
<1>2. FrameType
  <2>1. \A q \in Queue : NoFrames[q] <= NoFrames[q]
    BY <1>1
  <2> QED
    BY <1>1, <2>1 DEF Fresh, FrameType
<1>3. Accounted = n
  BY <1>1 DEF Fresh, Accounted
<1> QED
  BY <1>2, <1>3

(* The same after a step.                                                  *)
LEMMA FreshNext ==
  ASSUME NEW n \in Nat, Fresh(n)'
  PROVE  FrameType' /\ Accounted' = n
<1>1. SumOver(NoFrames, Queue) = 0 /\ NoFrames \in [Queue -> Nat]
  BY SumsZero
<1>2. FrameType'
  <2>1. \A q \in Queue : NoFrames[q] <= NoFrames[q]
    BY <1>1
  <2> QED
    BY <1>1, <2>1 DEF Fresh, FrameType
<1>3. Accounted' = n
  BY <1>1 DEF Fresh, Accounted
<1> QED
  BY <1>2, <1>3

(* Nothing is left.                                                        *)
LEMMA Emptied ==
  ASSUME pc' \in {"down", "open", "promisc"}, Fresh(0)', \A s \in Port : slot'[s] = EmptySlot
  PROVE  FrameInv'
<1>1. FrameType' /\ Accounted' = 0
  BY FreshNext
<1>2. PlaceInv'
  BY DEF PlaceInv, Up
<1>3. RingInv'
  <2>1. \A s \in Port : slot'[s].nq <= Most
    BY QueueFacts DEF EmptySlot
  <2> QED
    BY <2>1 DEF RingInv, Up
<1>4. KeptInv'
  BY <1>1, XskAssumption DEF KeptInv, Keeping
<1> QED
  BY <1>1, <1>2, <1>3, <1>4 DEF FrameInv

(* The frames stay where they are.                                         *)
LEMMA Untouched ==
  ASSUME FrameType, UNCHANGED frameVars
  PROVE  FrameType' /\ Accounted' = Accounted /\ \A n : Fresh(n)' <=> Fresh(n)
BY DEF frameVars, FrameType, Accounted, Fresh

(* In the closing sequence no frame moves.                                 *)
LEMMA Closing ==
  ASSUME FrameInv, UNCHANGED frameVars, pc' \in {"xsk", "bpf", "off", "umem"},
         \A s \in Port : slot'[s].nq <= Most
  PROVE  FrameInv'
<1>1. FrameType' /\ Accounted' = Accounted
  BY Untouched DEF FrameInv
<1>2. PlaceInv' /\ RingInv'
  BY DEF PlaceInv, RingInv, Up
<1>3. KeptInv'
  BY <1>1 DEF FrameInv, KeptInv, Keeping
<1> QED
  BY <1>1, <1>2, <1>3 DEF FrameInv

(* While the dataplane is up the live slots keep their queues and sockets. *)
LEMMA Staying ==
  ASSUME FrameInv, UNCHANGED frameVars, pc \in Up, pc' \in Up,
         pc' \in Keeping => pc \in Keeping,
         \A s \in Port : slot'[s].nq <= Most,
         \A s \in Port : slot'[s].live = slot[s].live,
         \A s \in Port : slot[s].live => /\ slot'[s].nq = slot[s].nq /\ slot'[s].xsk = slot[s].xsk
                                         /\ slot[s].on => slot'[s].on,
         \A s \in Port : ~slot[s].on \/ slot[s].live
  PROVE  FrameInv'
<1>1. FrameType' /\ Accounted' = Accounted
  BY Untouched DEF FrameInv
<1>2. PlaceInv'
  <2>1. ASSUME NEW q \in Queue
        PROVE  InPlace(q)'
    <3>1. InPlace(q) /\ q[1] \in Port
      BY QueueFacts DEF FrameInv, PlaceInv
    <3> QED
      BY <3>1 DEF InPlace, frameVars
  <2> QED
    BY <2>1 DEF PlaceInv, Up
<1>3. RingInv'
  BY DEF RingInv, FrameInv, Up
<1>4. KeptInv'
  <2>1. Short => Short'
    BY DEF Short
  <2> QED
    BY <1>1, <2>1 DEF FrameInv, KeptInv
<1> QED
  BY <1>1, <1>2, <1>3, <1>4 DEF FrameInv

(* The frames of one queue change.                                         *)
OnlyAt(f, e, q, v) == e = [f EXCEPT ![q] = v]

(* The sum then changes by as much.                                        *)
LEMMA OneQueue ==
  ASSUME NEW f \in [Queue -> Nat], NEW q \in Queue, NEW v \in Int, NEW e, OnlyAt(f, e, q, v)
  PROVE  SumOver(e, Queue) = SumOver(f, Queue) - f[q] + v
<1>1. IsFiniteSet(Queue)
  BY QueueFacts
<1>2. \A r \in Queue : f[r] \in Int /\ e[r] \in Int
  BY DEF OnlyAt
<1>3. \A r \in Queue \ {q} : f[r] = e[r]
  BY DEF OnlyAt
<1>4. SumOver(e, Queue) = SumOver(f, Queue) - f[q] + e[q]
  BY <1>1, <1>2, <1>3, SumOne
<1>5. e[q] = v
  BY DEF OnlyAt
<1> QED
  BY <1>4, <1>5

----------------------------------------------------------------------------
(* The threads: one queue's frames move.                                   *)

(* A step of the threads is no step of the control side.                   *)
LEMMA ThreadMoves ==
  ASSUME FrameInv, FrameType', Accounted' = Accounted, UNCHANGED <<slot, pc>>,
         pc \notin {"down", "open", "promisc", "sockets"},
         pc \in Up => \A q \in Queue : InPlace(q)'
  PROVE  FrameInv'
<1>1. PlaceInv'
  BY DEF PlaceInv
<1>2. RingInv' /\ KeptInv'
  BY DEF FrameInv, RingInv, KeptInv, Short
<1> QED
  BY <1>1, <1>2 DEF FrameInv

(* From the pool to a fill queue.                                          *)
LEMMA RefillKeeps ==
  ASSUME IInv, FrameInv, NEW q \in Queue, Refill(q), UNCHANGED ctlVars
  PROVE  FrameInv'
<1>0. FrameType /\ PlaceInv /\ PlumbType /\ q[1] \in Port
  BY QueueFacts DEF FrameInv, IInv
<1>1. PICK n : /\ n > 0 /\ n = Min({Ring - fq[q], pool})
               /\ fq' = [fq EXCEPT ![q] = @ + n] /\ pool' = pool - n
  BY DEF Refill
<1>2. UNCHANGED <<slot, pc, rx, pend, out, hand>>
  BY DEF Refill, ctlVars
<1>3. n \in Nat
  <2>1. Ring - fq[q] \in Int /\ pool \in Int
    BY <1>0, XskAssumption DEF FrameType
  <2>2. n \in {Ring - fq[q], pool}
    BY <1>1, <2>1, MinMaxOfTwo
  <2> QED
    BY <1>1, <2>1, <2>2
<1>4. slot[q[1]].live /\ q \in QueuesOf(q[1])
  BY DEF Refill, Served
<1>5. pc \notin {"down", "open", "promisc", "sockets"}
  BY <1>0, <1>4 DEF PlaceInv, OpenInv, IInv, EmptySlot
<1>6. FrameType'
  BY <1>0, <1>1, <1>2, <1>3 DEF FrameType
<1>7. Accounted' = Accounted
  <2>1. SumOver(fq', Queue) = SumOver(fq, Queue) - fq[q] + (fq[q] + n)
    <3>1. fq \in [Queue -> Nat] /\ fq[q] + n \in Int /\ fq' = [fq EXCEPT ![q] = fq[q] + n]
      BY <1>0, <1>1, <1>3 DEF FrameType
    <3> QED
      BY <3>1, OneQueue DEF OnlyAt
  <2>2. SumOver(fq, Queue) \in Int /\ fq[q] \in Int
    BY <1>0, SumsInt DEF FrameType
  <2>3. /\ SumOver(rx, Queue) \in Int /\ SumOver(pend, Queue) \in Int
        /\ SumOver(out, Queue) \in Int /\ pool \in Int /\ hand \in Int
    BY <1>0, SumsInt DEF FrameType
  <2> QED
    BY <1>1, <1>2, <1>3, <2>1, <2>2, <2>3 DEF Accounted
<1>8. ASSUME pc \in Up, NEW r \in Queue
      PROVE  InPlace(r)'
  <2>1. InPlace(r)
    BY <1>0, <1>8 DEF PlaceInv
  <2>2. CASE r # q
    <3>1. fq'[r] = fq[r]
      BY <1>0, <1>1, <2>2 DEF FrameType
    <3> QED
      BY <1>2, <2>1, <3>1 DEF InPlace
  <2>3. CASE r = q
    <3>1. slot[q[1]].live /\ q[2] < slot[q[1]].nq
      <4>1. slot[q[1]].nq \in Nat
        BY <1>0 DEF PlumbType, Slots
      <4> QED
        BY <1>4, <4>1 DEF QueuesOf
    <3> QED
      BY <1>2, <2>1, <2>3, <3>1 DEF InPlace
  <2> QED
    BY <2>2, <2>3
<1> QED
  BY <1>2, <1>5, <1>6, <1>7, <1>8, ThreadMoves

(* From a fill queue to a receive queue.                                   *)
LEMMA ReceivesKeeps ==
  ASSUME IInv, FrameInv, NEW q \in Queue, KernelReceives(q), UNCHANGED ctlVars
  PROVE  FrameInv'
<1>0. FrameType /\ PlaceInv /\ PlumbType /\ q[1] \in Port
  BY QueueFacts DEF FrameInv, IInv
<1>1. /\ slot[q[1]].name \in link /\ fq[q] > 0
      /\ fq' = [fq EXCEPT ![q] = fq[q] - 1] /\ rx' = [rx EXCEPT ![q] = rx[q] + 1]
      /\ UNCHANGED <<slot, pc, pool, pend, out, hand>>
  BY DEF KernelReceives, ctlVars
<1>2. fq[q] \in Nat /\ rx[q] \in Nat /\ fq[q] - 1 \in Nat
  BY <1>0, <1>1 DEF FrameType
<1>3. pc \notin {"down", "open", "promisc", "sockets"}
  <2>1. fq # NoFrames
    BY <1>1 DEF NoFrames
  <2> QED
    BY <1>0, <2>1 DEF PlaceInv, Fresh
<1>4. FrameType'
  <2>1. fq' \in [Queue -> Nat] /\ rx' \in [Queue -> Nat]
    BY <1>0, <1>1, <1>2 DEF FrameType
  <2>2. \A r \in Queue : rx'[r] >= rx[r] /\ rx'[r] \in Nat /\ rx[r] \in Nat /\ pend[r] \in Nat
    BY <1>0, <1>1, <1>2, <2>1 DEF FrameType
  <2> QED
    BY <1>0, <1>1, <2>1, <2>2 DEF FrameType
<1>5. Accounted' = Accounted
  <2>1. SumOver(fq', Queue) = SumOver(fq, Queue) - fq[q] + (fq[q] - 1)
    <3>1. PICK v \in Int : v = fq[q] - 1
      BY <1>2
    <3>2. fq \in [Queue -> Nat] /\ fq' = [fq EXCEPT ![q] = v]
      BY <1>0, <1>1, <3>1 DEF FrameType
    <3>3. SumOver(fq', Queue) = SumOver(fq, Queue) - fq[q] + v
      BY <3>2, OneQueue DEF OnlyAt
    <3> QED
      BY <3>1, <3>3
  <2>2. SumOver(rx', Queue) = SumOver(rx, Queue) - rx[q] + (rx[q] + 1)
    <3>1. rx \in [Queue -> Nat] /\ rx[q] + 1 \in Int
      BY <1>0, <1>2 DEF FrameType
    <3> QED
      BY <1>1, <3>1, OneQueue DEF OnlyAt
  <2>3. /\ SumOver(rx, Queue) \in Int /\ SumOver(pend, Queue) \in Int /\ SumOver(fq, Queue) \in Int
        /\ SumOver(out, Queue) \in Int /\ pool \in Int /\ hand \in Int
    BY <1>0, SumsInt DEF FrameType
  <2> QED
    BY <1>1, <1>2, <2>1, <2>2, <2>3 DEF Accounted
<1>6. ASSUME pc \in Up, NEW r \in Queue
      PROVE  InPlace(r)'
  <2>1. InPlace(r) /\ InPlace(q)
    BY <1>0, <1>6 DEF PlaceInv
  <2>2. CASE r # q
    <3>1. fq'[r] = fq[r] /\ rx'[r] = rx[r]
      BY <1>0, <1>1, <2>2 DEF FrameType
    <3> QED
      BY <1>1, <2>1, <3>1 DEF InPlace
  <2>3. CASE r = q
    <3>1. slot[q[1]].live /\ q[2] < slot[q[1]].nq
      BY <1>1, <2>1 DEF InPlace
    <3>2. PICK t \in Port : slot[t].on /\ slot[t].name = slot[q[1]].name
      <4>1. slot[q[1]].name \in Port
        BY <1>0, <1>1 DEF PlumbType
      <4> QED
        BY <1>1, <1>6, <4>1 DEF IInv, LinkInv, Up
    <3>3. t = q[1]
      BY <1>0, <1>6, <3>1, <3>2 DEF IInv, LiveInv
    <3> QED
      BY <1>1, <2>3, <3>1, <3>2, <3>3 DEF InPlace
  <2> QED
    BY <2>2, <2>3
<1> QED
  BY <1>1, <1>3, <1>4, <1>5, <1>6, ThreadMoves

(* To the workers, with the descriptors left in the ring.                  *)
LEMMA ReceiveKeeps ==
  ASSUME IInv, FrameInv, NEW q \in Queue, Receive(q), UNCHANGED ctlVars
  PROVE  FrameInv'
<1>0. FrameType /\ PlaceInv
  BY DEF FrameInv
<1>1. /\ pend[q] = 0 /\ rx[q] > 0
      /\ pend' = [pend EXCEPT ![q] = rx[q]] /\ hand' = hand + rx[q]
      /\ UNCHANGED <<slot, pc, pool, fq, rx, out>>
  BY DEF Receive, ctlVars
<1>2. rx[q] \in Nat
  BY <1>0 DEF FrameType
<1>3. pc \notin {"down", "open", "promisc", "sockets"}
  <2>1. rx # NoFrames
    BY <1>1 DEF NoFrames
  <2> QED
    BY <1>0, <2>1 DEF PlaceInv, Fresh
<1>4. FrameType'
  <2>1. pend' \in [Queue -> Nat] /\ hand' \in Int
    BY <1>0, <1>1, <1>2 DEF FrameType
  <2>2. \A r \in Queue : pend'[r] \in {pend[r], rx[r]} /\ rx[r] \in Nat
    BY <1>0, <1>1, <1>2, <2>1 DEF FrameType
  <2> QED
    BY <1>0, <1>1, <2>1, <2>2 DEF FrameType
<1>5. Accounted' = Accounted
  <2>1. SumOver(pend', Queue) = SumOver(pend, Queue) - pend[q] + rx[q]
    <3>1. pend \in [Queue -> Nat] /\ rx[q] \in Int
      BY <1>0, <1>2 DEF FrameType
    <3> QED
      BY <1>1, <3>1, OneQueue DEF OnlyAt
  <2>2. /\ SumOver(rx, Queue) \in Int /\ SumOver(pend, Queue) \in Int /\ SumOver(fq, Queue) \in Int
        /\ SumOver(out, Queue) \in Int /\ pool \in Int /\ hand \in Int
    BY <1>0, SumsInt DEF FrameType
  <2> QED
    BY <1>1, <1>2, <2>1, <2>2 DEF Accounted
<1>6. ASSUME pc \in Up, NEW r \in Queue
      PROVE  InPlace(r)'
  <2>1. InPlace(r)
    BY <1>0, <1>6 DEF PlaceInv
  <2> QED
    BY <1>1, <2>1 DEF InPlace
<1> QED
  BY <1>1, <1>3, <1>4, <1>5, <1>6, ThreadMoves

(* The descriptors leave the ring.                                         *)
LEMMA ReleaseKeeps ==
  ASSUME IInv, FrameInv, NEW q \in Queue, Release(q), UNCHANGED ctlVars
  PROVE  FrameInv'
<1>0. FrameType /\ PlaceInv
  BY DEF FrameInv
<1>1. /\ pend[q] > 0
      /\ rx' = [rx EXCEPT ![q] = rx[q] - pend[q]] /\ pend' = [pend EXCEPT ![q] = 0]
      /\ UNCHANGED <<slot, pc, pool, fq, hand, out>>
  BY DEF Release, ctlVars
<1>2. rx[q] \in Nat /\ pend[q] \in Nat /\ rx[q] - pend[q] \in Nat
  BY <1>0 DEF FrameType
<1>3. pc \notin {"down", "open", "promisc", "sockets"}
  <2>1. pend # NoFrames
    BY <1>1 DEF NoFrames
  <2> QED
    BY <1>0, <2>1 DEF PlaceInv, Fresh
<1>4. FrameType'
  <2>1. pend' \in [Queue -> Nat] /\ rx' \in [Queue -> Nat]
    BY <1>0, <1>1, <1>2 DEF FrameType
  <2>2. \A r \in Queue : r # q => pend'[r] = pend[r] /\ rx'[r] = rx[r]
    BY <1>0, <1>1 DEF FrameType
  <2>3. pend'[q] = 0 /\ rx'[q] \in Nat
    BY <1>0, <1>1, <2>1 DEF FrameType
  <2>4. \A r \in Queue : pend'[r] <= rx'[r]
    BY <1>0, <2>2, <2>3 DEF FrameType
  <2> QED
    BY <1>0, <1>1, <2>1, <2>4 DEF FrameType
<1>5. Accounted' = Accounted
  <2>1. SumOver(pend', Queue) = SumOver(pend, Queue) - pend[q] + 0
    <3>1. pend \in [Queue -> Nat] /\ 0 \in Int
      BY <1>0 DEF FrameType
    <3> QED
      BY <1>1, <3>1, OneQueue DEF OnlyAt
  <2>2. SumOver(rx', Queue) = SumOver(rx, Queue) - rx[q] + (rx[q] - pend[q])
    <3>1. rx \in [Queue -> Nat] /\ rx[q] - pend[q] \in Int
      BY <1>0, <1>2 DEF FrameType
    <3> QED
      BY <1>1, <3>1, OneQueue DEF OnlyAt
  <2>3. /\ SumOver(rx, Queue) \in Int /\ SumOver(pend, Queue) \in Int /\ SumOver(fq, Queue) \in Int
        /\ SumOver(out, Queue) \in Int /\ pool \in Int /\ hand \in Int
    BY <1>0, SumsInt DEF FrameType
  <2> QED
    BY <1>1, <1>2, <2>1, <2>2, <2>3 DEF Accounted
<1>6. ASSUME pc \in Up, NEW r \in Queue
      PROVE  InPlace(r)'
  <2>1. InPlace(r)
    BY <1>0, <1>6 DEF PlaceInv
  <2>2. rx'[r] > 0 => rx[r] > 0
    <3>1. rx'[r] = IF r = q THEN rx[q] - pend[q] ELSE rx[r]
      BY <1>0, <1>1 DEF FrameType
    <3> QED
      BY <1>1, <1>2, <3>1
  <2> QED
    BY <1>1, <2>1, <2>2 DEF InPlace
<1> QED
  BY <1>1, <1>3, <1>4, <1>5, <1>6, ThreadMoves

(* From a worker to the NIC.                                               *)
LEMMA TransmitKeeps ==
  ASSUME IInv, FrameInv, NEW q \in Queue, Transmit(q), UNCHANGED ctlVars
  PROVE  FrameInv'
<1>0. FrameType /\ PlaceInv /\ RingInv /\ PlumbType /\ q[1] \in Port
  BY QueueFacts DEF FrameInv, IInv
<1>1. /\ hand > 0 /\ slot[q[1]].live /\ slot[q[1]].xsk > q[2]
      /\ hand' = hand - 1 /\ out' = [out EXCEPT ![q] = out[q] + 1]
      /\ UNCHANGED <<slot, pc, pool, fq, rx, pend>>
  BY DEF Transmit, HasRings, ctlVars
<1>2. out[q] \in Nat /\ hand \in Int
  BY <1>0 DEF FrameType
<1>3. pc \notin {"down", "open", "promisc", "sockets"}
  BY <1>0, <1>1 DEF PlaceInv, Fresh
<1>4. FrameType'
  BY <1>0, <1>1, <1>2 DEF FrameType
<1>5. Accounted' = Accounted
  <2>1. SumOver(out', Queue) = SumOver(out, Queue) - out[q] + (out[q] + 1)
    <3>1. PICK v \in Int : v = out[q] + 1
      BY <1>2
    <3>2. out \in [Queue -> Nat] /\ out' = [out EXCEPT ![q] = v]
      BY <1>0, <1>1, <3>1 DEF FrameType
    <3>3. SumOver(out', Queue) = SumOver(out, Queue) - out[q] + v
      BY <3>2, OneQueue DEF OnlyAt
    <3> QED
      BY <3>1, <3>3
  <2>2. /\ SumOver(rx, Queue) \in Int /\ SumOver(pend, Queue) \in Int /\ SumOver(fq, Queue) \in Int
        /\ SumOver(out, Queue) \in Int /\ pool \in Int /\ hand \in Int
    BY <1>0, SumsInt DEF FrameType
  <2> QED
    BY <1>1, <1>2, <2>1, <2>2 DEF Accounted
<1>6. ASSUME pc \in Up, NEW r \in Queue
      PROVE  InPlace(r)'
  <2>1. InPlace(r)
    BY <1>0, <1>6 DEF PlaceInv
  <2>2. CASE r # q
    <3>1. out'[r] = out[r]
      BY <1>0, <1>1, <2>2 DEF FrameType
    <3> QED
      BY <1>1, <2>1, <3>1 DEF InPlace
  <2>3. CASE r = q
    <3>1. slot[q[1]].xsk <= slot[q[1]].nq /\ slot[q[1]].xsk \in Nat /\ slot[q[1]].nq \in Nat
      BY <1>0, <1>1, <1>6 DEF RingInv, PlumbType, Slots
    <3>2. q[2] \in Int
      BY QueueFacts
    <3>3. q[2] < slot[q[1]].nq
      BY <1>1, <3>1, <3>2
    <3> QED
      BY <1>1, <2>1, <2>3, <3>3 DEF InPlace
  <2> QED
    BY <2>2, <2>3
<1> QED
  BY <1>1, <1>3, <1>4, <1>5, <1>6, ThreadMoves

(* From the NIC to the pool.                                               *)
LEMMA DrainCqKeeps ==
  ASSUME IInv, FrameInv, NEW q \in Queue, DrainCq(q), UNCHANGED ctlVars
  PROVE  FrameInv'
<1>0. FrameType /\ PlaceInv
  BY DEF FrameInv
<1>1. /\ out[q] > 0 /\ pool' = pool + out[q] /\ out' = [out EXCEPT ![q] = 0]
      /\ UNCHANGED <<slot, pc, hand, fq, rx, pend>>
  BY DEF DrainCq, ctlVars
<1>2. out[q] \in Nat /\ pool \in Int
  BY <1>0 DEF FrameType
<1>3. pc \notin {"down", "open", "promisc", "sockets"}
  <2>1. out # NoFrames
    BY <1>1 DEF NoFrames
  <2> QED
    BY <1>0, <2>1 DEF PlaceInv, Fresh
<1>4. FrameType'
  BY <1>0, <1>1, <1>2 DEF FrameType
<1>5. Accounted' = Accounted
  <2>1. SumOver(out', Queue) = SumOver(out, Queue) - out[q] + 0
    <3>1. out \in [Queue -> Nat] /\ 0 \in Int
      BY <1>0 DEF FrameType
    <3> QED
      BY <1>1, <3>1, OneQueue DEF OnlyAt
  <2>2. /\ SumOver(rx, Queue) \in Int /\ SumOver(pend, Queue) \in Int /\ SumOver(fq, Queue) \in Int
        /\ SumOver(out, Queue) \in Int /\ pool \in Int /\ hand \in Int
    BY <1>0, SumsInt DEF FrameType
  <2> QED
    BY <1>1, <1>2, <2>1, <2>2 DEF Accounted
<1>6. ASSUME pc \in Up, NEW r \in Queue
      PROVE  InPlace(r)'
  <2>1. InPlace(r)
    BY <1>0, <1>6 DEF PlaceInv
  <2>2. out'[r] > 0 => out[r] > 0
    BY <1>0, <1>1 DEF FrameType
  <2> QED
    BY <1>1, <2>1, <2>2 DEF InPlace
<1> QED
  BY <1>1, <1>3, <1>4, <1>5, <1>6, ThreadMoves

(* From a worker to the pool.                                              *)
LEMMA FreeKeeps ==
  ASSUME IInv, FrameInv, FrameFree, UNCHANGED ctlVars
  PROVE  FrameInv'
<1>0. FrameType /\ PlaceInv
  BY DEF FrameInv
<1>1. /\ hand > 0 /\ pool' = pool + 1 /\ hand' = hand - 1
      /\ UNCHANGED <<slot, pc, out, fq, rx, pend>>
  BY DEF FrameFree, ctlVars
<1>2. pc \notin {"down", "open", "promisc", "sockets"}
  BY <1>0, <1>1 DEF PlaceInv, Fresh
<1>3. FrameType'
  BY <1>0, <1>1 DEF FrameType
<1>4. Accounted' = Accounted
  <2>1. /\ SumOver(rx, Queue) \in Int /\ SumOver(pend, Queue) \in Int /\ SumOver(fq, Queue) \in Int
        /\ SumOver(out, Queue) \in Int /\ pool \in Int /\ hand \in Int
    BY <1>0, SumsInt DEF FrameType
  <2> QED
    BY <1>1, <2>1 DEF Accounted
<1>5. ASSUME pc \in Up, NEW r \in Queue
      PROVE  InPlace(r)'
  BY <1>0, <1>1, <1>5 DEF PlaceInv, InPlace
<1> QED
  BY <1>1, <1>2, <1>3, <1>4, <1>5, ThreadMoves

(* All that the threads and the kernel do.                                 *)
LEMMA ThreadsKeep ==
  ASSUME IInv, FrameInv, ThreadStep, UNCHANGED ctlVars
  PROVE  FrameInv'
BY RefillKeeps, ReceivesKeeps, ReceiveKeeps, ReleaseKeeps, TransmitKeeps, DrainCqKeeps,
   FreeKeeps DEF ThreadStep

----------------------------------------------------------------------------
(* The control side: queues are filled, or forgotten.                      *)

(* What a slot's fill queues get comes out of the pool.                    *)
LEMMA PrefilledFacts ==
  ASSUME FrameType, NEW Q \in SUBSET Queue, \A q \in Q : fq[q] = 0,
         NEW f, f = Prefilled(Q), NEW p, p = pool - SumOver(f, Q)
  PROVE  /\ f \in [Queue -> Nat] /\ \A q \in Queue \ Q : f[q] = fq[q]
         /\ p \in Int /\ p + SumOver(f, Queue) = pool + SumOver(fq, Queue)
<1> DEFINE Before(q) == Cardinality({r \in Q : r[1] < q[1] \/ (r[1] = q[1] /\ r[2] < q[2])})
           Left(q) == Max({0, pool - Ring * Before(q)})
<1>1. IsFiniteSet(Q)
  BY QueueFacts, FS_Subset
<1>2. ASSUME NEW q \in Q
      PROVE  Min({Ring, Left(q)}) \in Nat
  <2>1. Before(q) \in Nat
    <3> DEFINE B == {r \in Q : r[1] < q[1] \/ (r[1] = q[1] /\ r[2] < q[2])}
    <3>1. B \in SUBSET Q
      OBVIOUS
    <3>2. IsFiniteSet(B)
      <4> HIDE DEF B
      <4> QED
        BY <1>1, <3>1, FS_Subset
    <3>3. Cardinality(B) \in Nat
      <4> HIDE DEF B
      <4> QED
        BY <3>2, FS_CardinalityType
    <3> QED
      BY <3>3
  <2>2. Ring \in Nat /\ pool \in Int
    BY XskAssumption DEF FrameType
  <2>3. pool - Ring * Before(q) \in Int
    <3> HIDE DEF Before
    <3> QED
      BY <2>1, <2>2
  <2>4. Left(q) \in Int /\ Left(q) >= 0
    <3>1. PICK x \in Int : x = pool - Ring * Before(q)
      BY <2>3
    <3>2. Max({0, x}) \in {0, x} /\ Max({0, x}) >= 0
      BY MinMaxOfTwo, 0 \in Int
    <3>3. Left(q) = Max({0, x})
      BY <3>1
    <3> HIDE DEF Left
    <3> QED
      BY <3>2, <3>3
  <2>5. PICK y \in Int : y = Left(q)
    BY <2>4
  <2>6. Min({Ring, y}) \in {Ring, y}
    BY <2>2, Ring \in Int, MinMaxOfTwo
  <2> HIDE DEF Left
  <2> QED
    BY <2>2, <2>4, <2>5, <2>6
<1>3. f = [q \in Queue |-> IF q \in Q THEN Min({Ring, Left(q)}) ELSE fq[q]]
  BY DEF Prefilled
<1> HIDE DEF Left
<1>4. f \in [Queue -> Nat] /\ \A q \in Queue \ Q : f[q] = fq[q]
  <2>1. \A q \in Queue : f[q] \in Nat
    BY <1>2, <1>3 DEF FrameType
  <2> QED
    BY <1>3, <2>1
<1>5. SumOver(f, Queue) - SumOver(fq, Queue) = SumOver(f, Q) - SumOver(fq, Q)
  <2>1. \A q \in Queue : fq[q] \in Int /\ f[q] \in Int
    BY <1>4 DEF FrameType
  <2>2. \A q \in Queue \ Q : fq[q] = f[q]
    BY <1>4
  <2>3. IsFiniteSet(Queue)
    BY QueueFacts
  <2> HIDE <1>3
  <2> QED
    BY <2>1, <2>2, <2>3, SumChange
<1>6. SumOver(fq, Q) = 0
  BY <1>1, SumZero
<1>7. /\ SumOver(f, Q) \in Int /\ SumOver(f, Queue) \in Int
      /\ SumOver(fq, Queue) \in Int /\ pool \in Int
  <2>1. \A q \in Q : f[q] \in Int
    BY <1>4
  <2>2. SumOver(f, Q) \in Int
    BY <1>1, <2>1, SumRemove
  <2> QED
    BY <1>4, <2>2, SumsInt DEF FrameType
<1> QED
  BY <1>4, <1>5, <1>6, <1>7

(* The first prefill takes from the pool what it puts into the queues.     *)
LEMMA OpenDoneKeeps ==
  ASSUME IInv, FrameInv, OpenDone
  PROVE  FrameInv'
<1>0. /\ PlumbType /\ FrameType /\ PlaceInv /\ RingInv /\ pc = "sockets" /\ pc' = "attach"
      /\ UNCHANGED <<rx, pend, out, hand>> /\ cfg \in Cfgs /\ slot \in [Port -> Slots]
  BY DEF IInv, FrameInv, OpenDone, PlumbType
<1>1. Fresh(NFrames) /\ \A s \in Port : slot[s].xsk <= slot[s].nq /\ slot[s].nq <= Most
  BY <1>0 DEF PlaceInv, RingInv
<1>2. Accounted = NFrames
  BY <1>1, FreshFacts, XskAssumption
<1>3. PICK Q : Q = UNION {QueuesOf(s) : s \in Planned(cfg)}
  OBVIOUS
<1>4. \A s \in Port : /\ slot'[s].nq = slot[s].nq /\ slot'[s].xsk = slot[s].xsk
                      /\ (slot'[s].live <=> s \in Planned(cfg))
  <2>1. slot' = [s \in Port |-> [slot[s] EXCEPT !.live = s \in Planned(cfg)]]
    BY DEF OpenDone
  <2>2. ASSUME NEW sl \in Slots, NEW b \in BOOLEAN
        PROVE  LET o == [sl EXCEPT !.live = b]
               IN  o.nq = sl.nq /\ o.xsk = sl.xsk /\ o.live = b
    BY DEF Slots
  <2>3. ASSUME NEW s \in Port
        PROVE  /\ slot'[s].nq = slot[s].nq /\ slot'[s].xsk = slot[s].xsk
               /\ (slot'[s].live <=> s \in Planned(cfg))
    <3>1. slot[s] \in Slots
      BY <1>0
    <3>2. CASE s \in Planned(cfg)
      <4>1. (s \in Planned(cfg)) = TRUE
        BY <3>2
      <4>2. slot'[s] = [slot[s] EXCEPT !.live = TRUE]
        BY <2>1, <4>1
      <4> QED
        BY <2>2, <3>1, <3>2, <4>2
    <3>3. CASE s \notin Planned(cfg)
      <4>1. (s \in Planned(cfg)) = FALSE
        BY <3>3
      <4>2. slot'[s] = [slot[s] EXCEPT !.live = FALSE]
        BY <2>1, <4>1
      <4> QED
        BY <2>2, <3>1, <3>3, <4>2
    <3> QED
      BY <3>2, <3>3
  <2> QED
    BY <2>3
<1>5. Planned(cfg) \subseteq Port
  BY <1>0, CfgFacts
<1>6. ASSUME NEW s \in Port
      PROVE  QueuesOf(s) = {q \in Queue : q[1] = s /\ q[2] < slot[s].nq}
  <2>1. slot[s].nq \in Nat /\ slot[s].nq <= Most
    BY <1>0, <1>1 DEF Slots
  <2> QED
    BY <2>1, QueuesFit DEF QueuesOf
<1>7. Q = {q \in Queue : q[1] \in Planned(cfg) /\ q[2] < slot[q[1]].nq}
  BY <1>3, <1>5, <1>6
<1>8. PICK f, p : f = Prefilled(Q) /\ p = pool - SumOver(f, Q)
  OBVIOUS
<1>9. fq' = f /\ pool' = p
  BY <1>3, <1>8 DEF OpenDone
<1>10. /\ f \in [Queue -> Nat] /\ \A q \in Queue \ Q : f[q] = 0
       /\ p \in Int /\ p + SumOver(f, Queue) = pool + SumOver(fq, Queue)
  <2>1. Q \in SUBSET Queue /\ \A q \in Queue : fq[q] = 0
    BY <1>1, <1>7 DEF Fresh, NoFrames
  <2> QED
    BY <1>0, <1>8, <2>1, PrefilledFacts
<1>11. FrameType'
  BY <1>0, <1>9, <1>10 DEF FrameType
<1>12. Accounted' = Accounted
  <2>1. /\ SumOver(rx, Queue) \in Int /\ SumOver(pend, Queue) \in Int /\ SumOver(fq, Queue) \in Int
        /\ SumOver(out, Queue) \in Int /\ pool \in Int /\ hand \in Int
    BY <1>0, SumsInt DEF FrameType
  <2>2. SumOver(f, Queue) \in Int
    BY <1>10, SumsInt
  <2> QED
    BY <1>0, <1>9, <1>10, <2>1, <2>2 DEF Accounted
<1>13. PlaceInv'
  <2>1. ASSUME NEW q \in Queue
        PROVE  InPlace(q)'
    <3>1. rx'[q] = 0 /\ out'[q] = 0 /\ q[1] \in Port
      BY <1>0, <1>1, QueueFacts DEF Fresh, NoFrames
    <3>2. fq'[q] > 0 => q \in Q
      BY <1>9, <1>10
    <3>3. q \in Q => slot'[q[1]].live /\ q[2] < slot'[q[1]].nq
      BY <1>4, <1>7, <3>1
    <3> QED
      BY <3>1, <3>2, <3>3 DEF InPlace
  <2> QED
    BY <1>0, <2>1 DEF PlaceInv
<1>14. RingInv'
  BY <1>0, <1>1, <1>4 DEF RingInv
<1>15. KeptInv'
  BY <1>2, <1>12, XskAssumption DEF KeptInv
<1> QED
  BY <1>11, <1>13, <1>14, <1>15 DEF FrameInv

(* So does the prefill of a WAN a reload adds; its slot had no frames.     *)
LEMMA PlumbKeeps ==
  ASSUME IInv, FrameInv, PlumbWan
  PROVE  FrameInv'
<1>0. /\ PlumbType /\ LiveInv /\ FrameType /\ PlaceInv /\ RingInv /\ KeptInv
      /\ pc = "sync" /\ pc' = "bind" /\ pc \in Up /\ pc' \in Up
      /\ pc \in Keeping /\ pc' \in Keeping
      /\ UNCHANGED <<rx, pend, out, hand>> /\ slot \in [Port -> Slots]
  BY DEF IInv, FrameInv, PlumbWan, PlumbType, Up, Keeping
<1>1. PICK w, F : w = Min(Missing) /\ F = FreeSlot
  OBVIOUS
<1>2. F \in Port /\ ~slot[F].live /\ ~slot[F].on
  BY <1>0, <1>1, FreeSlotIsFree DEF LiveInv, PlumbWan
<1>3. w \in Port
  BY <1>0, <1>1, MissingIsMissed DEF IInv, PlumbWan
<1>4. PICK n \in Nat : n = NumQ[w] /\ n <= Most
  BY <1>3, QueueFacts
<1>5. /\ slot'[F].nq = n /\ slot'[F].xsk = n /\ slot'[F].live
      /\ \A s \in Port : s # F => slot'[s] = slot[s]
  <2>1. slot' = [slot EXCEPT ![F] = [Opened(slot[F], w, n) EXCEPT !.live = TRUE]]
    BY <1>1, <1>4 DEF PlumbWan
  <2>2. ASSUME NEW sl \in Slots
        PROVE  LET o == [Opened(sl, w, n) EXCEPT !.live = TRUE]
               IN  o.nq = n /\ o.xsk = n /\ o.live
    BY DEF Slots, Opened
  <2> QED
    BY <1>0, <1>2, <2>1, <2>2
<1>6. PICK Q : Q = {<<F, i>> : i \in 0..(n - 1)}
  OBVIOUS
<1>7. Q \in SUBSET Queue /\ Q = {q \in Queue : q[1] = F /\ q[2] < n}
  BY <1>2, <1>4, <1>6, QueuesFit
<1>8. \A q \in Queue : q[1] = F => /\ fq[q] = 0 /\ rx[q] = 0 /\ out[q] = 0
  <2>1. \A q \in Queue : InPlace(q) /\ fq[q] \in Nat /\ rx[q] \in Nat /\ out[q] \in Nat
    BY <1>0 DEF PlaceInv, FrameType
  <2> QED
    BY <1>2, <2>1 DEF InPlace
<1>9. PICK f, p : f = Prefilled(Q) /\ p = pool - SumOver(f, Q)
  OBVIOUS
<1>10. fq' = f /\ pool' = p
  BY <1>1, <1>4, <1>6, <1>9 DEF PlumbWan
<1>11. /\ f \in [Queue -> Nat] /\ \A q \in Queue \ Q : f[q] = fq[q]
       /\ p \in Int /\ p + SumOver(f, Queue) = pool + SumOver(fq, Queue)
  <2>1. \A q \in Q : fq[q] = 0
    BY <1>7, <1>8
  <2> QED
    BY <1>0, <1>7, <1>9, <2>1, PrefilledFacts
<1>12. FrameType'
  BY <1>0, <1>10, <1>11 DEF FrameType
<1>13. Accounted' = Accounted
  <2>1. /\ SumOver(rx, Queue) \in Int /\ SumOver(pend, Queue) \in Int /\ SumOver(fq, Queue) \in Int
        /\ SumOver(out, Queue) \in Int /\ pool \in Int /\ hand \in Int
    BY <1>0, SumsInt DEF FrameType
  <2>2. SumOver(f, Queue) \in Int
    BY <1>11, SumsInt
  <2> QED
    BY <1>0, <1>10, <1>11, <2>1, <2>2 DEF Accounted
<1>14. PlaceInv'
  <2>1. ASSUME NEW q \in Queue
        PROVE  InPlace(q)'
    <3>1. InPlace(q) /\ q[1] \in Port
      BY <1>0, QueueFacts DEF PlaceInv
    <3>2. CASE q[1] # F
      <4>1. fq'[q] = fq[q] /\ slot'[q[1]] = slot[q[1]]
        BY <1>5, <1>7, <1>10, <1>11, <3>1, <3>2
      <4> QED
        BY <1>0, <3>1, <4>1 DEF InPlace
    <3>3. CASE q[1] = F
      <4>1. rx'[q] = 0 /\ out'[q] = 0
        BY <1>0, <1>8, <3>3
      <4>2. fq'[q] > 0 => q \in Q
        BY <1>8, <1>10, <1>11, <3>3
      <4> QED
        BY <1>5, <1>7, <3>3, <4>1, <4>2 DEF InPlace
    <3> QED
      BY <3>2, <3>3
  <2> QED
    BY <1>0, <2>1 DEF PlaceInv
<1>15. RingInv'
  <2>1. \A s \in Port : slot'[s].nq <= Most
    BY <1>0, <1>4, <1>5 DEF RingInv
  <2>2. \A s \in Port : slot'[s].live => slot'[s].xsk <= slot'[s].nq
    BY <1>0, <1>5 DEF RingInv
  <2> QED
    BY <1>0, <2>1, <2>2 DEF RingInv
<1>16. KeptInv'
  <2>1. Short => Short'
    <3>1. ASSUME NEW s \in Port, slot[s].live, slot[s].xsk < slot[s].nq
          PROVE  Short'
      <4>1. slot'[s] = slot[s]
        BY <1>2, <1>5, <3>1
      <4> QED
        BY <3>1, <4>1 DEF Short
    <3> QED
      BY <3>1 DEF Short
  <2> QED
    BY <1>0, <1>13, <2>1 DEF KeptInv
<1> QED
  BY <1>12, <1>14, <1>15, <1>16 DEF FrameInv

(* The frames of some queues are out of reach.                             *)
IsForget(f, Q, g) == g = Forget(f, Q)

Without(f, Q, g) ==
  /\ g \in [Queue -> Nat] /\ \A q \in Queue : g[q] = IF q \in Q THEN 0 ELSE f[q]
  /\ SumOver(f, Q) \in Int /\ SumOver(f, Q) >= 0
  /\ SumOver(g, Queue) = SumOver(f, Queue) - SumOver(f, Q)

(* What is forgotten is missing from the sum.                              *)
LEMMA ForgetFacts ==
  ASSUME NEW f \in [Queue -> Nat], NEW Q \in SUBSET Queue, NEW g, IsForget(f, Q, g)
  PROVE  Without(f, Q, g)
<1>1. g \in [Queue -> Nat] /\ \A q \in Queue : g[q] = IF q \in Q THEN 0 ELSE f[q]
  BY DEF IsForget, Forget
<1>2. IsFiniteSet(Queue) /\ IsFiniteSet(Q)
  BY QueueFacts, FS_Subset
<1>3. SumOver(g, Q) = 0
  <2>1. \A q \in Q : g[q] = 0
    BY <1>1
  <2> QED
    BY <1>2, <2>1, SumZero
<1>4. SumOver(f, Q) \in Int /\ SumOver(f, Q) >= 0
  <2>1. \A q \in Q : g[q] \in Int /\ f[q] \in Int /\ g[q] <= f[q]
    BY <1>1
  <2>2. SumOver(f, Q) \in Int /\ SumOver(g, Q) <= SumOver(f, Q)
    BY <1>2, <2>1, SumLeq
  <2> QED
    BY <1>3, <2>2
<1>5. SumOver(g, Queue) - SumOver(f, Queue) = SumOver(g, Q) - SumOver(f, Q)
  <2>1. \A q \in Queue : f[q] \in Int /\ g[q] \in Int
    BY <1>1
  <2>2. \A q \in Queue \ Q : f[q] = g[q]
    BY <1>1
  <2> QED
    BY <1>2, <2>1, <2>2, SumChange
<1>6. SumOver(g, Queue) \in Int /\ SumOver(f, Queue) \in Int
  BY <1>1, SumsInt
<1> QED
  BY <1>1, <1>3, <1>4, <1>5, <1>6 DEF Without

(* With its queues all frames of a slot are.                               *)
Forgotten(s) ==
  /\ fq' = Forget(fq, QueuesOf(s)) /\ rx' = Forget(rx, QueuesOf(s))
  /\ pend' = Forget(pend, QueuesOf(s)) /\ out' = Forget(out, QueuesOf(s))

Counted(s) ==
  /\ SumOver(fq', Queue) = SumOver(fq, Queue) - SumOver(fq, QueuesOf(s))
  /\ SumOver(rx', Queue) = SumOver(rx, Queue) - SumOver(rx, QueuesOf(s))
  /\ SumOver(pend', Queue) = SumOver(pend, Queue) - SumOver(pend, QueuesOf(s))
  /\ SumOver(out', Queue) = SumOver(out, Queue) - SumOver(out, QueuesOf(s))
  /\ SumOver(fq, QueuesOf(s)) \in Int /\ SumOver(fq, QueuesOf(s)) >= 0
  /\ SumOver(rx, QueuesOf(s)) \in Int /\ SumOver(pend, QueuesOf(s)) \in Int
  /\ SumOver(pend, QueuesOf(s)) <= SumOver(rx, QueuesOf(s))
  /\ SumOver(out, QueuesOf(s)) \in Int /\ SumOver(out, QueuesOf(s)) >= 0

(* A forgotten slot has no frames left, and the others keep theirs.        *)
LEMMA ForgottenFacts ==
  ASSUME IInv, FrameInv, pc \in Up, NEW s \in Port, Forgotten(s)
  PROVE  /\ QueuesOf(s) \in SUBSET Queue /\ IsFiniteSet(QueuesOf(s)) /\ Counted(s)
         /\ fq' \in [Queue -> Nat] /\ rx' \in [Queue -> Nat]
         /\ pend' \in [Queue -> Nat] /\ out' \in [Queue -> Nat]
         /\ \A q \in Queue : pend'[q] <= rx'[q]
         /\ \A q \in Queue : q[1] = s => fq'[q] = 0 /\ rx'[q] = 0 /\ out'[q] = 0
         /\ \A q \in Queue : q[1] # s => fq'[q] = fq[q] /\ rx'[q] = rx[q] /\ out'[q] = out[q]
         /\ ~slot[s].on => SumOver(pend, QueuesOf(s)) = 0
<1>0. PlumbType /\ FrameType /\ PlaceInv /\ RingInv /\ slot[s] \in Slots
  BY DEF IInv, FrameInv, PlumbType
<1>1. PICK Q : Q = QueuesOf(s)
  OBVIOUS
<1>2. slot[s].nq \in Nat /\ slot[s].nq <= Most
  BY <1>0 DEF Slots, RingInv
<1>3. /\ Q \in SUBSET Queue /\ IsFiniteSet(Q)
      /\ Q = {q \in Queue : q[1] = s /\ q[2] < slot[s].nq}
  BY <1>1, <1>2, QueuesFit DEF QueuesOf
<1>4. /\ fq \in [Queue -> Nat] /\ rx \in [Queue -> Nat]
      /\ pend \in [Queue -> Nat] /\ out \in [Queue -> Nat]
      /\ \A q \in Queue : pend[q] <= rx[q]
  BY <1>0 DEF FrameType
<1>5. /\ fq' \in [Queue -> Nat] /\ \A q \in Queue : fq'[q] = IF q \in Q THEN 0 ELSE fq[q]
      /\ SumOver(fq, Q) \in Int /\ SumOver(fq, Q) >= 0
      /\ SumOver(fq', Queue) = SumOver(fq, Queue) - SumOver(fq, Q)
  <2>1. IsForget(fq, Q, fq')
    BY <1>1 DEF IsForget, Forgotten
  <2>2. fq \in [Queue -> Nat] /\ Q \in SUBSET Queue
    BY <1>3, <1>4
  <2>3. Without(fq, Q, fq')
    BY <2>1, <2>2, ForgetFacts
  <2> QED
    BY <2>3 DEF Without
<1>6. /\ rx' \in [Queue -> Nat] /\ \A q \in Queue : rx'[q] = IF q \in Q THEN 0 ELSE rx[q]
      /\ SumOver(rx, Q) \in Int
      /\ SumOver(rx', Queue) = SumOver(rx, Queue) - SumOver(rx, Q)
  <2>1. IsForget(rx, Q, rx')
    BY <1>1 DEF IsForget, Forgotten
  <2>2. rx \in [Queue -> Nat] /\ Q \in SUBSET Queue
    BY <1>3, <1>4
  <2>3. Without(rx, Q, rx')
    BY <2>1, <2>2, ForgetFacts
  <2> QED
    BY <2>3 DEF Without
<1>7. /\ pend' \in [Queue -> Nat] /\ \A q \in Queue : pend'[q] = IF q \in Q THEN 0 ELSE pend[q]
      /\ SumOver(pend, Q) \in Int
      /\ SumOver(pend', Queue) = SumOver(pend, Queue) - SumOver(pend, Q)
  <2>1. IsForget(pend, Q, pend')
    BY <1>1 DEF IsForget, Forgotten
  <2>2. pend \in [Queue -> Nat] /\ Q \in SUBSET Queue
    BY <1>3, <1>4
  <2>3. Without(pend, Q, pend')
    BY <2>1, <2>2, ForgetFacts
  <2> QED
    BY <2>3 DEF Without
<1>8. /\ out' \in [Queue -> Nat] /\ \A q \in Queue : out'[q] = IF q \in Q THEN 0 ELSE out[q]
      /\ SumOver(out, Q) \in Int /\ SumOver(out, Q) >= 0
      /\ SumOver(out', Queue) = SumOver(out, Queue) - SumOver(out, Q)
  <2>1. IsForget(out, Q, out')
    BY <1>1 DEF IsForget, Forgotten
  <2>2. out \in [Queue -> Nat] /\ Q \in SUBSET Queue
    BY <1>3, <1>4
  <2>3. Without(out, Q, out')
    BY <2>1, <2>2, ForgetFacts
  <2> QED
    BY <2>3 DEF Without
<1>9. SumOver(pend, Q) <= SumOver(rx, Q)
  <2>1. \A q \in Q : pend[q] \in Int /\ rx[q] \in Int /\ pend[q] <= rx[q]
    BY <1>3, <1>4
  <2> QED
    BY <1>3, <2>1, SumLeq
<1>10. Counted(s)
  BY <1>1, <1>5, <1>6, <1>7, <1>8, <1>9 DEF Counted
<1>11. \A q \in Queue : pend'[q] <= rx'[q]
  BY <1>4, <1>6, <1>7
<1>12. \A q \in Queue : InPlace(q)
  BY <1>0 DEF PlaceInv
<1>13. ASSUME NEW q \in Queue, q[1] = s
       PROVE  fq'[q] = 0 /\ rx'[q] = 0 /\ out'[q] = 0
  <2>1. CASE q \in Q
    BY <1>5, <1>6, <1>8, <2>1
  <2>2. CASE q \notin Q
    <3>1. ~(q[2] < slot[s].nq)
      BY <1>3, <1>13, <2>2
    <3>2. fq[q] \in Nat /\ rx[q] \in Nat /\ out[q] \in Nat
      BY <1>4
    <3>3. ~(fq[q] > 0) /\ ~(rx[q] > 0) /\ ~(out[q] > 0)
      BY <1>12, <1>13, <3>1 DEF InPlace
    <3> QED
      BY <1>5, <1>6, <1>8, <2>2, <3>2, <3>3
  <2> QED
    BY <2>1, <2>2
<1>14. \A q \in Queue : q[1] # s => fq'[q] = fq[q] /\ rx'[q] = rx[q] /\ out'[q] = out[q]
  BY <1>3, <1>5, <1>6, <1>8
<1>15. ASSUME ~slot[s].on
       PROVE  SumOver(pend, Q) = 0
  <2>1. \A q \in Q : rx[q] \in Nat /\ pend[q] \in Nat /\ pend[q] <= rx[q] /\ ~(rx[q] > 0)
    BY <1>3, <1>4, <1>12, <1>15 DEF InPlace
  <2>2. \A q \in Q : pend[q] = 0
    BY <2>1
  <2> QED
    BY <1>3, <2>2, SumZero
<1> QED
  BY <1>1, <1>3, <1>5, <1>6, <1>7, <1>8, <1>10, <1>11, <1>13, <1>14, <1>15

(* No worker has a frame the rollback gives back.                          *)
LEMMA RollbackKeeps ==
  ASSUME IInv, FrameInv, RollbackWan
  PROVE  FrameInv'
<1>0. /\ PlumbType /\ FrameType /\ PlaceInv /\ RingInv /\ KeptInv
      /\ pc = "rollback" /\ pc' = pc /\ pc \in Up /\ pc \notin Keeping
      /\ UNCHANGED hand /\ slot \in [Port -> Slots]
  BY DEF IInv, FrameInv, RollbackWan, PlumbType, Up, Keeping
<1>1. PICK s : s = Max(added)
  OBVIOUS
<1>2. s \in Port
  <2>1. added \in SUBSET Wan /\ added # {}
    BY <1>0 DEF PlumbType, RollbackWan
  <2>2. IsFiniteSet(added)
    BY <2>1, PortFacts, FS_Subset
  <2>4. added \subseteq Int
    BY <2>1, PortFacts
  <2>3. Max(added) \in added
    BY <2>1, <2>2, <2>4, MaxIsGreatest
  <2> QED
    BY <1>1, <2>1, <2>3, PortFacts
<1>3. /\ Forgotten(s) /\ slot' = [slot EXCEPT ![s] = EmptySlot]
      /\ pool' = Min({NFrames, pool + Unplumbed(s)})
  BY <1>1 DEF RollbackWan, Forgotten
<1>4. /\ Counted(s)
      /\ fq' \in [Queue -> Nat] /\ rx' \in [Queue -> Nat]
      /\ pend' \in [Queue -> Nat] /\ out' \in [Queue -> Nat]
      /\ \A q \in Queue : pend'[q] <= rx'[q]
      /\ \A q \in Queue : q[1] = s => fq'[q] = 0 /\ rx'[q] = 0 /\ out'[q] = 0
      /\ \A q \in Queue : q[1] # s => fq'[q] = fq[q] /\ rx'[q] = rx[q] /\ out'[q] = out[q]
      /\ ~slot[s].on => SumOver(pend, QueuesOf(s)) = 0
  BY <1>0, <1>2, <1>3, ForgottenFacts
<1>5. PICK u : u = Unplumbed(s)
  OBVIOUS
<1>6. \/ u = 0
      \/ /\ u = SumOver(rx, QueuesOf(s)) + SumOver(out, QueuesOf(s))
         /\ SumOver(pend, QueuesOf(s)) = 0
  BY <1>4, <1>5 DEF Unplumbed, Detaches
<1>7. u \in Int /\ pool \in Int
  BY <1>0, <1>4, <1>6 DEF Counted, FrameType
<1>8. pool' \in Int /\ pool' <= pool + u
  <2>1. PICK x \in Int : x = pool + u
    BY <1>7
  <2>2. NFrames \in Int
    BY XskAssumption
  <2>3. Min({NFrames, x}) \in {NFrames, x} /\ Min({NFrames, x}) <= x
    BY <2>2, MinMaxOfTwo
  <2>4. pool' = Min({NFrames, x})
    BY <1>3, <1>5, <2>1
  <2> QED
    BY <2>1, <2>2, <2>3, <2>4
<1>9. FrameType'
  BY <1>0, <1>4, <1>8 DEF FrameType
<1>10. Accounted' <= Accounted
  <2>1. /\ SumOver(rx, Queue) \in Int /\ SumOver(pend, Queue) \in Int /\ SumOver(fq, Queue) \in Int
        /\ SumOver(out, Queue) \in Int /\ pool \in Int /\ hand \in Int
    BY <1>0, SumsInt DEF FrameType
  <2>2. PICK a \in Int, b \in Int, c \in Int, d \in Int :
           /\ a = SumOver(fq, QueuesOf(s)) /\ b = SumOver(rx, QueuesOf(s))
           /\ c = SumOver(pend, QueuesOf(s)) /\ d = SumOver(out, QueuesOf(s))
    BY <1>4 DEF Counted
  <2>3. a >= 0 /\ c <= b /\ d >= 0 /\ (u = 0 \/ (u = b + d /\ c = 0))
    BY <1>4, <1>6, <2>2 DEF Counted
  <2>4. Accounted' = pool' + hand + (SumOver(fq, Queue) - a) + (SumOver(rx, Queue) - b)
                     - (SumOver(pend, Queue) - c) + (SumOver(out, Queue) - d)
    BY <1>0, <1>4, <2>2 DEF Counted, Accounted
  <2> QED
    BY <1>7, <1>8, <2>1, <2>3, <2>4 DEF Accounted
<1>11. Accounted \in Int /\ Accounted' \in Int
  <2>1. /\ SumOver(rx, Queue) \in Int /\ SumOver(pend, Queue) \in Int /\ SumOver(fq, Queue) \in Int
        /\ SumOver(out, Queue) \in Int /\ pool \in Int /\ hand \in Int
    BY <1>0, SumsInt DEF FrameType
  <2>2. /\ SumOver(rx', Queue) \in Int /\ SumOver(pend', Queue) \in Int
        /\ SumOver(fq', Queue) \in Int /\ SumOver(out', Queue) \in Int
    BY <1>4, SumsInt
  <2> QED
    BY <1>0, <1>8, <2>1, <2>2 DEF Accounted
<1>12. \A t \in Port : slot'[t] = IF t = s THEN EmptySlot ELSE slot[t]
  BY <1>0, <1>3
<1>13. PlaceInv'
  <2>1. ASSUME NEW q \in Queue
        PROVE  InPlace(q)'
    <3>1. InPlace(q) /\ q[1] \in Port
      BY <1>0, QueueFacts DEF PlaceInv
    <3> QED
      BY <1>4, <1>12, <3>1 DEF InPlace
  <2> QED
    BY <1>0, <2>1 DEF PlaceInv
<1>14. RingInv'
  <2>1. EmptySlot.nq <= Most /\ ~EmptySlot.live
    BY QueueFacts DEF EmptySlot
  <2> QED
    BY <1>0, <1>12, <2>1 DEF RingInv
<1>15. KeptInv'
  BY <1>0, <1>10, <1>11, XskAssumption DEF KeptInv
<1> QED
  BY <1>9, <1>13, <1>14, <1>15 DEF FrameInv

(* A slot that was drained stays live without its sockets: from then on    *)
(* frames may be missing, unless it had no queues and no frame went.       *)
LEMMA DrainKeeps ==
  ASSUME IInv, FrameInv, NEW s \in Wan, DrainEnds(s)
  PROVE  FrameInv'
<1>0. /\ PlumbType /\ FrameType /\ PlaceInv /\ RingInv /\ KeptInv
      /\ pc = "run" /\ pc' = pc /\ pc \in Up /\ s \in Port /\ slot[s].live
      /\ UNCHANGED <<pool, hand>> /\ slot \in [Port -> Slots]
  BY PortFacts DEF IInv, ReloadInv, FrameInv, DrainEnds, PlumbType, Up
<1>1. Forgotten(s) /\ slot' = [slot EXCEPT ![s] = Detached(slot[s])]
  BY DEF DrainEnds, Forgotten
<1>2. /\ Counted(s)
      /\ fq' \in [Queue -> Nat] /\ rx' \in [Queue -> Nat]
      /\ pend' \in [Queue -> Nat] /\ out' \in [Queue -> Nat]
      /\ \A q \in Queue : pend'[q] <= rx'[q]
      /\ \A q \in Queue : q[1] = s => fq'[q] = 0 /\ rx'[q] = 0 /\ out'[q] = 0
      /\ \A q \in Queue : q[1] # s => fq'[q] = fq[q] /\ rx'[q] = rx[q] /\ out'[q] = out[q]
  BY <1>0, <1>1, ForgottenFacts
<1>3. /\ slot'[s].nq = slot[s].nq /\ slot'[s].xsk = 0 /\ slot'[s].live
      /\ \A t \in Port : t # s => slot'[t] = slot[t]
  <2>1. slot[s] \in Slots /\ slot'[s] = Detached(slot[s])
    BY <1>0, <1>1
  <2> QED
    BY <1>0, <1>1, <2>1, SlotOps
<1>4. FrameType'
  BY <1>0, <1>2 DEF FrameType
<1>5. /\ SumOver(rx, Queue) \in Int /\ SumOver(pend, Queue) \in Int /\ SumOver(fq, Queue) \in Int
      /\ SumOver(out, Queue) \in Int /\ pool \in Int /\ hand \in Int
  BY <1>0, SumsInt DEF FrameType
<1>6. PICK a \in Int, b \in Int, c \in Int, d \in Int :
         /\ a = SumOver(fq, QueuesOf(s)) /\ b = SumOver(rx, QueuesOf(s))
         /\ c = SumOver(pend, QueuesOf(s)) /\ d = SumOver(out, QueuesOf(s))
  BY <1>2 DEF Counted
<1>7. a >= 0 /\ c <= b /\ d >= 0
  BY <1>2, <1>6 DEF Counted
<1>8. Accounted' = pool + hand + (SumOver(fq, Queue) - a) + (SumOver(rx, Queue) - b)
                   - (SumOver(pend, Queue) - c) + (SumOver(out, Queue) - d)
  BY <1>0, <1>2, <1>6 DEF Counted, Accounted
<1>9. Accounted' <= Accounted /\ Accounted \in Int /\ Accounted' \in Int
  BY <1>5, <1>7, <1>8 DEF Accounted
<1>10. PlaceInv'
  <2>1. ASSUME NEW q \in Queue
        PROVE  InPlace(q)'
    <3>1. InPlace(q) /\ q[1] \in Port
      BY <1>0, QueueFacts DEF PlaceInv
    <3>2. CASE q[1] = s
      BY <1>2, <3>2 DEF InPlace
    <3>3. CASE q[1] # s
      <4>1. slot'[q[1]] = slot[q[1]]
        BY <1>3, <3>1, <3>3
      <4>2. fq'[q] = fq[q] /\ rx'[q] = rx[q] /\ out'[q] = out[q]
        BY <1>2, <3>3
      <4> QED
        BY <3>1, <4>1, <4>2 DEF InPlace
    <3> QED
      BY <3>2, <3>3
  <2> QED
    BY <1>0, <2>1 DEF PlaceInv
<1>11. RingInv'
  <2>1. slot[s].nq \in Nat
    BY <1>0 DEF Slots
  <2>2. \A t \in Port : slot'[t].nq <= Most
    BY <1>0, <1>3 DEF RingInv
  <2>3. \A t \in Port : slot'[t].live => slot'[t].xsk <= slot'[t].nq
    BY <1>0, <1>3, <2>1 DEF RingInv
  <2> QED
    BY <1>0, <2>2, <2>3 DEF RingInv
<1>12. KeptInv'
  <2>0. slot[s].nq \in Nat /\ slot[s].xsk \in Nat /\ NFrames \in Int
    BY <1>0, XskAssumption DEF Slots
  <2>1. Accounted' <= NFrames
    BY <1>0, <1>9, <2>0 DEF KeptInv
  <2>2. CASE slot[s].nq > 0
    <3>1. Short'
      BY <1>0, <1>3, <2>2 DEF Short
    <3> QED
      BY <2>1, <3>1 DEF KeptInv
  <2>3. CASE slot[s].nq = 0
    <3>1. QueuesOf(s) = {}
      BY <2>3 DEF QueuesOf
    <3>2. a = 0 /\ b = 0 /\ c = 0 /\ d = 0
      BY <1>6, <3>1, SumEmpty
    <3>3. Accounted' = Accounted
      BY <1>5, <1>8, <3>2 DEF Accounted
    <3>4. ASSUME NEW t \in Port, slot[t].live, slot[t].xsk < slot[t].nq
          PROVE  Short'
      <4>1. t # s
        BY <2>0, <2>3, <3>4
      <4>2. slot'[t] = slot[t]
        BY <1>3, <4>1
      <4> QED
        BY <3>4, <4>2 DEF Short
    <3>5. Short => Short'
      BY <3>4 DEF Short
    <3> QED
      BY <1>0, <3>3, <3>5 DEF KeptInv
  <2> QED
    BY <2>0, <2>2, <2>3
<1> QED
  BY <1>4, <1>10, <1>11, <1>12 DEF FrameInv

(* A slot ne_pair_open has counted the queues of.                          *)
LEMMA OpenedEmpty ==
  ASSUME NEW c \in Cfgs, NEW s \in Port, NEW S,
         S = [t \in Port |->
                IF t \in Planned(c) THEN [EmptySlot EXCEPT !.nq = NumQ[NameAt(c, t)]]
                ELSE EmptySlot]
  PROVE  ~S[s].live /\ S[s].xsk <= S[s].nq /\ S[s].nq <= Most
<1>1. EmptySlot.live = FALSE /\ EmptySlot.xsk = 0 /\ EmptySlot.nq = 0 /\ EmptySlot \in Slots
  BY SlotOps
<1>2. CASE s \in Planned(c)
  <2>1. PICK n \in Nat : n = NumQ[NameAt(c, s)] /\ n <= Most
    BY <1>2, NamesDiffer, QueueFacts
  <2>2. S[s] = [EmptySlot EXCEPT !.nq = n]
    BY <1>2, <2>1
  <2>3. S[s].live = FALSE /\ S[s].xsk = 0 /\ S[s].nq = n
    BY <2>2 DEF EmptySlot
  <2> QED
    BY <2>1, <2>3
<1>3. CASE s \notin Planned(c)
  <2>1. S[s] = EmptySlot
    BY <1>3
  <2>2. S[s].live = FALSE /\ S[s].xsk = 0 /\ S[s].nq = 0
    BY <1>1, <2>1
  <2>3. Most \in Nat
    BY QueueFacts
  <2> QED
    BY <2>2, <2>3
<1> QED
  BY <1>2, <1>3

(* The pool is filled when the pair opens.                                 *)
LEMMA OpenPairKeeps ==
  ASSUME IInv, FrameInv, OpenPair
  PROVE  FrameInv'
<1>1. /\ pc = "open" /\ pc' = "sockets" /\ Fresh(0) /\ cfg \in Cfgs
      /\ pool' = NFrames /\ UNCHANGED <<fq, rx, pend, out, hand>>
  BY DEF IInv, PlumbType, FrameInv, PlaceInv, OpenPair
<1>2. Fresh(NFrames)'
  BY <1>1 DEF Fresh
<1>3. FrameType' /\ Accounted' = NFrames
  BY <1>2, FreshNext, XskAssumption
<1>4. \A s \in Port : ~slot'[s].live /\ slot'[s].xsk <= slot'[s].nq /\ slot'[s].nq <= Most
  BY <1>1, OpenedEmpty DEF OpenPair
<1>5. PlaceInv'
  BY <1>1, <1>2, <1>4 DEF PlaceInv, Up
<1>6. RingInv'
  BY <1>1, <1>4 DEF RingInv, Up
<1>7. KeptInv'
  BY <1>1, <1>3, XskAssumption DEF KeptInv, Keeping
<1> QED
  BY <1>3, <1>5, <1>6, <1>7 DEF FrameInv

(* Its sockets are opened before any frame moves; a slot whose open was    *)
(* retried has no queue and no socket.                                     *)
LEMMA OpenPortKeeps ==
  ASSUME IInv, FrameInv, OpenPort \/ OpenRetried
  PROVE  FrameInv'
<1>1. /\ pc = "sockets" /\ pc' = "sockets" /\ FrameType /\ PlaceInv /\ RingInv /\ KeptInv
      /\ UNCHANGED frameVars /\ slot \in [Port -> Slots] /\ at \in Planned(cfg) /\ cfg \in Cfgs
  BY DEF IInv, PlumbType, FrameInv, OpenPort, OpenRetried
<1>2. at \in Port /\ NameAt(cfg, at) \in Port
  BY <1>1, CfgFacts, NamesDiffer
<1>3. PICK n : /\ n \in {0, slot[at].nq}
               /\ slot' = [slot EXCEPT ![at] = Opened(slot[at], NameAt(cfg, at), n)]
  BY DEF OpenPort, OpenRetried
<1>4. n \in Nat /\ n <= Most
  BY <1>1, <1>2, <1>3, QueueFacts DEF RingInv, Slots
<1>5. /\ slot'[at].nq = n /\ slot'[at].xsk = n /\ slot'[at].live = slot[at].live
      /\ \A s \in Port : s # at => slot'[s] = slot[s]
  <2>1. slot[at] \in Slots /\ slot'[at] = Opened(slot[at], NameAt(cfg, at), n)
    BY <1>1, <1>2, <1>3
  <2> QED
    BY <1>1, <1>2, <1>3, <1>4, <2>1, SlotOps
<1>6. FrameType' /\ Accounted' = Accounted /\ (Fresh(NFrames)' <=> Fresh(NFrames))
  BY <1>1, Untouched
<1>7. PlaceInv'
  BY <1>1, <1>2, <1>5, <1>6 DEF PlaceInv, Up
<1>8. RingInv'
  BY <1>1, <1>4, <1>5 DEF RingInv, Up
<1>9. KeptInv'
  BY <1>1, <1>6 DEF KeptInv, Keeping
<1> QED
  BY <1>6, <1>7, <1>8, <1>9 DEF FrameInv

(* Steps that leave slots and frames alone.                                *)
LEMMA StillKeeps ==
  ASSUME IInv, FrameInv, NEW c \in Cfgs,
         Reload(c) \/ AttachDone \/ RunBegins \/ SyncDone \/ RollbackDone
  PROVE  FrameInv'
<1>1. /\ UNCHANGED frameVars /\ UNCHANGED slot /\ pc \in Up /\ pc' \in Up
      /\ pc' \in Keeping => pc \in Keeping
  BY DEF Reload, AttachDone, RunBegins, SyncDone, RollbackDone, xskVars, Up, Keeping
<1>2. \A s \in Port : slot'[s].nq <= Most
  BY <1>1 DEF FrameInv, RingInv
<1>3. \A s \in Port : ~slot[s].on \/ slot[s].live
  BY <1>1 DEF IInv, LiveInv
<1>4. \A s \in Port : slot'[s].live = slot[s].live
  BY <1>1
<1>5. \A s \in Port : slot[s].live => /\ slot'[s].nq = slot[s].nq /\ slot'[s].xsk = slot[s].xsk
                                      /\ slot[s].on => slot'[s].on
  BY <1>1
<1> QED
  BY <1>1, <1>2, <1>3, <1>4, <1>5, Staying

(* Attaching a program changes no queue.                                   *)
LEMMA BoundSlots ==
  ASSUME IInv, FrameInv, slot' = slot \/ slot' = [slot EXCEPT ![at] = Bound(@)]
  PROVE  \A s \in Port : /\ slot'[s].nq = slot[s].nq /\ slot'[s].xsk = slot[s].xsk
                         /\ slot'[s].live = slot[s].live /\ slot'[s].nq <= Most
                         /\ slot[s].on => slot'[s].on
<1>1. SUFFICES ASSUME NEW s \in Port
               PROVE  /\ slot'[s].nq = slot[s].nq /\ slot'[s].xsk = slot[s].xsk
                      /\ slot'[s].live = slot[s].live /\ slot'[s].nq <= Most
                      /\ slot[s].on => slot'[s].on
  OBVIOUS
<1>2. slot \in [Port -> Slots] /\ slot[s] \in Slots /\ slot[s].nq <= Most
  BY DEF IInv, PlumbType, FrameInv, RingInv
<1>3. slot'[s] = slot[s] \/ slot'[s] = Bound(slot[s])
  BY <1>2
<1>4. CASE slot'[s] = slot[s]
  BY <1>2, <1>4
<1>5. CASE slot'[s] = Bound(slot[s])
  BY <1>2, <1>5, SlotOps
<1> QED
  BY <1>3, <1>4, <1>5

(* Attaching moves no frame.                                               *)
LEMMA BindKeeps ==
  ASSUME IInv, FrameInv, AttachPort \/ BindWan \/ BindWanFails
  PROVE  FrameInv'
<1>1. /\ UNCHANGED frameVars /\ pc \in Up /\ pc' \in Up
      /\ pc' \in Keeping => pc \in Keeping
      /\ slot' = slot \/ slot' = [slot EXCEPT ![at] = Bound(@)]
  BY DEF AttachPort, BindWan, BindWanFails, Up, Keeping
<1>2. \A s \in Port : ~slot[s].on \/ slot[s].live
  BY <1>1 DEF IInv, LiveInv
<1>3. \A s \in Port : /\ slot'[s].nq = slot[s].nq /\ slot'[s].xsk = slot[s].xsk
                      /\ slot'[s].live = slot[s].live /\ slot'[s].nq <= Most
                      /\ slot[s].on => slot'[s].on
  BY <1>1, BoundSlots
<1> QED
  BY <1>1, <1>2, <1>3, Staying

(* What a failed open leaves is in a slot that is not live.                *)
LEMMA PlumbFailKeeps ==
  ASSUME IInv, FrameInv, PlumbWanFails
  PROVE  FrameInv'
<1>0. /\ PlumbType /\ LiveInv /\ RingInv /\ LinkInv /\ slot \in [Port -> Slots]
  BY DEF IInv, PlumbType, FrameInv
<1>1. /\ UNCHANGED frameVars /\ pc = "sync" /\ pc \in Up /\ pc' \in Up /\ pc' \notin Keeping
      /\ Missing # {}
  BY DEF PlumbWanFails, Up, Keeping
<1>2. \A s \in Port : ~slot[s].on \/ slot[s].live
  BY <1>0, <1>1 DEF LiveInv
<1>3. PICK n \in Nat : n = NumQ[Min(Missing)] /\ n <= Most
  BY <1>0, <1>1, MissingIsMissed, QueueFacts
<1>4. ASSUME NEW s \in Port
      PROVE  \/ slot'[s] = slot[s]
             \/ /\ ~slot[s].live /\ ~slot'[s].live /\ slot'[s].nq <= Most
  <2>1. CASE slot' = slot
    BY <2>1
  <2>2. CASE FreeSlot \in Port /\ slot' = [slot EXCEPT ![FreeSlot].nq = NumQ[Min(Missing)]]
    <3>1. PICK F \in Port : F = FreeSlot /\ ~slot[F].live
      BY <1>0, <1>1, <2>2, FreeSlotIsFree
    <3>2. slot' = [slot EXCEPT ![F] = [slot[F] EXCEPT !.nq = n]]
      BY <1>0, <1>3, <2>2, <3>1
    <3>3. ASSUME NEW sl \in Slots
          PROVE  LET o == [sl EXCEPT !.nq = n] IN o.nq = n /\ o.live = sl.live
      BY DEF Slots
    <3>4. slot'[F].nq = n /\ slot'[F].live = slot[F].live
      BY <1>0, <3>2, <3>3
    <3>5. s # F => slot'[s] = slot[s]
      BY <1>0, <3>2
    <3> QED
      BY <1>3, <3>1, <3>4, <3>5
  <2>3. CASE FreeSlot \in Port /\ slot' = [slot EXCEPT ![FreeSlot] = EmptySlot]
    <3>1. PICK F \in Port : F = FreeSlot /\ ~slot[F].live
      BY <1>0, <1>1, <2>3, FreeSlotIsFree
    <3>2. slot'[F] = EmptySlot /\ (s # F => slot'[s] = slot[s])
      BY <1>0, <2>3, <3>1
    <3>3. ~EmptySlot.live /\ EmptySlot.nq <= Most
      BY QueueFacts DEF EmptySlot
    <3> QED
      BY <3>1, <3>2, <3>3
  <2> QED
    BY <2>1, <2>2, <2>3 DEF PlumbWanFails
<1>5. \A s \in Port : slot[s].live \in BOOLEAN /\ slot'[s].live \in BOOLEAN
  <2>1. slot' \in [Port -> Slots]
    BY PlumbFails DEF IInv, PlumbType
  <2> QED
    BY <1>0, <2>1 DEF Slots
<1>6. \A s \in Port : slot'[s].nq <= Most
  BY <1>0, <1>4 DEF RingInv
<1>7. \A s \in Port : slot'[s].live = slot[s].live
  BY <1>4, <1>5
<1>8. \A s \in Port : slot[s].live => /\ slot'[s].nq = slot[s].nq /\ slot'[s].xsk = slot[s].xsk
                                      /\ slot[s].on => slot'[s].on
  BY <1>4
<1> QED
  BY <1>1, <1>2, <1>6, <1>7, <1>8, Staying

(* From the first failure to the end of the closing sequence no frame moves. *)
LEMMA CloseKeeps ==
  ASSUME IInv, FrameInv,
         \/ InitAborts \/ OpenPairFails \/ OpenPortFails \/ AttachPortFails
         \/ Stop \/ DeleteXsks \/ CloseBpf \/ AllLinksOff
  PROVE  FrameInv'
<1>0. /\ RingInv /\ slot \in [Port -> Slots] /\ cfg \in Cfgs
      /\ \A s \in Port : slot[s].nq <= Most
  BY DEF IInv, PlumbType, FrameInv, RingInv
<1>1. CASE InitAborts \/ OpenPortFails \/ Stop \/ AllLinksOff
  <2>1. UNCHANGED frameVars /\ UNCHANGED slot /\ pc' \in {"xsk", "bpf", "off", "umem"}
    BY <1>1 DEF InitAborts, OpenPortFails, Stop, AllLinksOff, xskVars
  <2>2. \A s \in Port : slot'[s].nq <= Most
    BY <1>0, <2>1
  <2> QED
    BY <2>1, <2>2, Closing
<1>2. CASE OpenPairFails
  <2>1. UNCHANGED frameVars /\ pc' \in {"xsk", "bpf", "off", "umem"}
    BY <1>2 DEF OpenPairFails
  <2>2. \A s \in Port : slot'[s].nq <= Most
    BY <1>0, <1>2, OpenedEmpty DEF OpenPairFails
  <2> QED
    BY <2>1, <2>2, Closing
<1>3. CASE AttachPortFails
  <2>1. /\ UNCHANGED frameVars /\ pc' \in {"xsk", "bpf", "off", "umem"}
        /\ slot' = slot \/ slot' = [slot EXCEPT ![at] = Bound(@)]
    BY <1>3 DEF AttachPortFails
  <2>2. \A s \in Port : slot'[s].nq <= Most
    BY <2>1, BoundSlots
  <2> QED
    BY <2>1, <2>2, Closing
<1>4. CASE DeleteXsks \/ CloseBpf
  <2>1. UNCHANGED frameVars /\ pc' \in {"xsk", "bpf", "off", "umem"}
    BY <1>4 DEF DeleteXsks, CloseBpf
  <2>2. ASSUME NEW s \in Port
        PROVE  slot'[s].nq <= Most
    <3>1. ASSUME NEW sl \in Slots
          PROVE  /\ [sl EXCEPT !.xsk = 0].nq = sl.nq
                 /\ [sl EXCEPT !.bpf = FALSE, !.on = FALSE].nq = sl.nq
      BY DEF Slots
    <3>2. slot'[s] \in {slot[s], [slot[s] EXCEPT !.xsk = 0],
                        [slot[s] EXCEPT !.bpf = FALSE, !.on = FALSE]}
      BY <1>4 DEF DeleteXsks, CloseBpf
    <3>3. slot[s] \in Slots /\ slot[s].nq <= Most
      BY <1>0
    <3> QED
      BY <3>1, <3>2, <3>3
  <2> QED
    BY <2>1, <2>2, Closing
<1> QED
  BY <1>1, <1>2, <1>3, <1>4

(* Start finds nothing, and the end of a dataplane leaves nothing.         *)
LEMMA EmptyKeeps ==
  ASSUME IInv, FrameInv, NEW c \in Cfgs, Start(c) \/ DeleteUmem \/ PromiscOff \/ Dies
  PROVE  FrameInv'
<1>1. CASE Start(c) \/ PromiscOff
  <2>1. /\ pc \in {"down", "promisc"} /\ pc' \in {"down", "open", "promisc"}
        /\ UNCHANGED frameVars /\ UNCHANGED slot
    BY <1>1 DEF Start, PromiscOff
  <2>2. Fresh(0) /\ \A s \in Port : slot[s] = EmptySlot
    BY <2>1 DEF IInv, OpenInv, FrameInv, PlaceInv
  <2>3. Fresh(0)' /\ \A s \in Port : slot'[s] = EmptySlot
    BY <2>1, <2>2 DEF Fresh, frameVars
  <2> QED
    BY <2>1, <2>3, Emptied
<1>2. CASE DeleteUmem \/ Dies
  <2>1. pc' \in {"down", "open", "promisc"} /\ Fresh(0)'
    BY <1>2 DEF DeleteUmem, Dies, Fresh
  <2>2. \A s \in Port : slot'[s] = EmptySlot
    BY <1>2 DEF DeleteUmem, Dies
  <2> QED
    BY <2>1, <2>2, Emptied
<1> QED
  BY <1>1, <1>2

(* Every step keeps the frames' part of the invariant.                     *)
LEMMA FramesNext == IInv /\ FrameInv /\ [Next]_vars => FrameInv'
<1> SUFFICES ASSUME IInv, FrameInv, [Next]_vars PROVE FrameInv'
  OBVIOUS
<1>1. ASSUME NEW c \in Cfgs, Start(c) \/ Reload(c)
      PROVE  FrameInv'
  BY <1>1, EmptyKeeps, StillKeeps
<1>2. PICK c \in Cfgs : c = cfg
  BY DEF IInv, PlumbType
<1>3. CASE InitAborts \/ OpenPairFails \/ OpenPortFails \/ AttachPortFails
  BY <1>3, CloseKeeps
<1>4. CASE OpenPair \/ OpenPort \/ OpenRetried \/ OpenDone
  BY <1>4, OpenPairKeeps, OpenPortKeeps, OpenDoneKeeps
<1>5. CASE AttachPort \/ BindWan \/ BindWanFails
  BY <1>5, BindKeeps
<1>6. CASE AttachDone \/ RunBegins \/ SyncDone \/ RollbackDone
  BY <1>2, <1>6, StillKeeps
<1>7. CASE PlumbWan \/ PlumbWanFails \/ RollbackWan
  BY <1>7, PlumbKeeps, PlumbFailKeeps, RollbackKeeps
<1>8. ASSUME NEW s \in Wan, DrainEnds(s)
      PROVE  FrameInv'
  BY <1>8, DrainKeeps
<1>9. CASE Stop \/ DeleteXsks \/ CloseBpf \/ AllLinksOff
  BY <1>9, CloseKeeps
<1>10. CASE DeleteUmem \/ PromiscOff
  BY <1>2, <1>10, EmptyKeeps
<1>11. CASE Killed \/ UseAfterDelete
  BY <1>2, <1>11, EmptyKeeps DEF Killed, UseAfterDelete
<1>12. CASE ThreadStep /\ UNCHANGED ctlVars
  BY <1>12, ThreadsKeep
<1>13. CASE UNCHANGED vars
  BY <1>13 DEF vars, xskVars, ctlVars, frameVars, FrameInv, FrameType, PlaceInv, Fresh, InPlace,
              RingInv, KeptInv, Short, Accounted
<1> QED
  BY <1>1, <1>3, <1>4, <1>5, <1>6, <1>7, <1>8, <1>9, <1>10, <1>11, <1>12, <1>13 DEF Next

(* No UMEM frame is ever in two places: not after a receive queue was read *)
(* twice, a fill queue refilled, a WAN's prefill cut short by a low pool,  *)
(* or a rollback that gives a slot's frames back (ne_frame_free,           *)
(* refill_fq_queue, reclaim_iface_umem_frames); and none is lost while     *)
(* every live slot has its sockets.                                        *)
THEOREM FramesAccounted == Spec => []FramesKept
<1>1. Init => FrameInv
  <2> SUFFICES ASSUME Init PROVE FrameInv
    OBVIOUS
  <2>1. pc = "down" /\ Fresh(0) /\ \A s \in Port : slot[s] = EmptySlot
    BY DEF Init, XskInit, Fresh
  <2>2. FrameType /\ Accounted = 0
    BY <2>1, FreshFacts
  <2>3. PlaceInv
    BY <2>1 DEF PlaceInv, Up
  <2>4. RingInv
    <3>1. EmptySlot.nq <= Most
      BY QueueFacts DEF EmptySlot
    <3> QED
      BY <2>1, <3>1 DEF RingInv, Up
  <2>5. KeptInv
    BY <2>1, <2>2, XskAssumption DEF KeptInv, Keeping
  <2> QED
    BY <2>2, <2>3, <2>4, <2>5 DEF FrameInv
<1>2. FrameInv => FramesKept
  BY DEF FrameInv, KeptInv, Keeping, Short, FramesKept
<1> QED
  BY <1>1, <1>2, FramesNext, Inductive, PTL DEF Spec

=============================================================================
