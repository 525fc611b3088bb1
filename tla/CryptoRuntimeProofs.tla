------------------------- MODULE CryptoRuntimeProofs ------------------------
(***************************************************************************)
(* Proofs about the bindings and the packet contexts, for any set of       *)
(* policies, any configurations that name a policy once, any number of     *)
(* workers, and any bound on loads, keys and events.                       *)
(*                                                                         *)
(* The inductive invariant says that no key is in two slots and a          *)
(* discarded one in none (KeyInv), that the indexes, the workers' current  *)
(* copies and the lookups not overtaken by a reload lead to the context of *)
(* their policy (IndexInv, BuiltInv, CopyInv, LookInv), and that a key     *)
(* marked as asked for is being asked for or on its way out (PursuedInv).  *)
(***************************************************************************)
EXTENDS CryptoRuntime, FiniteSetTheorems, SequenceTheorems, TLAPS

----------------------------------------------------------------------------
(* The bindings and their handshake workers: what the operations of        *)
(* PqcBinding do to a binding, and that each action keeps BindInv.         *)

Entry == [pol : Policy, id : Nat \ {0}]

BindRec ==
  [known : BOOLEAN, active : BOOLEAN, id : Nat, cur : Nat, prev : Nat, next : Nat,
   ready : BOOLEAN, rekey : BOOLEAN, exit : BOOLEAN, kept : BOOLEAN]

SameKeys(r, s) == s.cur = r.cur /\ s.prev = r.prev /\ s.next = r.next

(* What the updates of a binding do to its fields.                         *)
LEMMA SuccessIs ==
  ASSUME NEW r \in BindRec, NEW k \in Nat
  PROVE  LET s == Success(r, k)
         IN  /\ s \in BindRec
             /\ s.known = r.known /\ s.active = r.active /\ s.id = r.id
             /\ s.exit = r.exit /\ s.kept = r.kept
             /\ s.prev = r.cur /\ s.cur = k /\ s.next = None /\ s.ready /\ ~s.rekey
BY DEF BindRec, Success, None

(* The worker has gone: an active binding loses its stop request.          *)
LEMMA AfterExitIs ==
  ASSUME NEW r \in BindRec
  PROVE  LET s == AfterExit(r)
         IN  /\ s \in BindRec
             /\ s.known = r.known /\ s.active = r.active /\ s.id = r.id
             /\ s.kept = r.kept /\ SameKeys(r, s) /\ s.ready = r.ready /\ s.rekey = r.rekey
             /\ s.exit => ~r.active
BY DEF BindRec, AfterExit, SameKeys

(* A binding takes the identity of its entry; only a change starts it      *)
(* over.                                                                   *)
LEMMA ReboundIs ==
  ASSUME NEW r \in BindRec, NEW e \in Entry, NEW ch \in BOOLEAN
  PROVE  LET s == Rebound(r, e, ch)
         IN  /\ s \in BindRec
             /\ s.known /\ s.active /\ s.id = e.id
             /\ s.kept = r.kept /\ SameKeys(r, s)
             /\ ch => ~s.exit /\ ~s.ready
             /\ ~ch => s.exit = r.exit /\ s.ready = r.ready /\ s.rekey = r.rekey
BY DEF BindRec, Rebound, SameKeys, Entry

(* finalize empties a binding.                                             *)
LEMMA WipedIs ==
  ASSUME NEW r \in BindRec
  PROVE  LET s == Wiped(r)
         IN  /\ s \in BindRec
             /\ s.known = r.known /\ s.active = r.active /\ s.id = None
             /\ s.kept = r.kept /\ s.exit = r.exit
             /\ s.cur = None /\ s.prev = None /\ s.next = None /\ ~s.ready
BY DEF BindRec, Wiped, None

(* A load begins with every binding inactive.                              *)
LEMMA ParkedIs ==
  ASSUME NEW r \in BindRec
  PROVE  LET s == [r EXCEPT !.active = FALSE, !.kept = FALSE]
         IN  /\ s \in BindRec
             /\ s.known = r.known /\ ~s.active /\ s.id = r.id /\ ~s.kept /\ s.exit = r.exit
             /\ SameKeys(r, s) /\ s.ready = r.ready /\ s.rekey = r.rekey
BY DEF BindRec, SameKeys

(* The stop request alone changes.                                         *)
LEMMA AskedIs ==
  ASSUME NEW r \in BindRec, NEW x \in BOOLEAN
  PROVE  LET s == [r EXCEPT !.exit = x]
         IN  /\ s \in BindRec
             /\ s.known = r.known /\ s.active = r.active /\ s.id = r.id /\ s.kept = r.kept
             /\ s.exit = x /\ SameKeys(r, s) /\ s.ready = r.ready /\ s.rekey = r.rekey
BY DEF BindRec, SameKeys

(* The wait ran out: the old binding stays and is active.                  *)
LEMMA KeptIs ==
  ASSUME NEW r \in BindRec, NEW e
  PROVE  LET s == KeptBinding(r, e)
         IN  /\ s \in BindRec
             /\ s.known = r.known /\ s.active /\ s.id = r.id /\ s.kept /\ s.exit = r.exit
             /\ SameKeys(r, s) /\ s.ready = r.ready /\ s.rekey = r.rekey
BY DEF BindRec, SameKeys, KeptBinding

(* A slot of the traffic keys alone changes.                               *)
LEMMA SlotsIs ==
  ASSUME NEW r \in BindRec, NEW k \in Nat
  PROVE  /\ LET s == [r EXCEPT !.next = k]
            IN  /\ s \in BindRec
                /\ s.known = r.known /\ s.active = r.active /\ s.id = r.id /\ s.kept = r.kept
                /\ s.exit = r.exit /\ s.ready = r.ready /\ s.rekey = r.rekey
                /\ s.cur = r.cur /\ s.prev = r.prev /\ s.next = k
         /\ LET s == [r EXCEPT !.prev = k]
            IN  /\ s \in BindRec
                /\ s.known = r.known /\ s.active = r.active /\ s.id = r.id /\ s.kept = r.kept
                /\ s.exit = r.exit /\ s.ready = r.ready /\ s.rekey = r.rekey
                /\ s.cur = r.cur /\ s.prev = k /\ s.next = r.next
BY DEF BindRec

(* A manual retry drops the staged key.                                    *)
LEMMA RetriedIs ==
  ASSUME NEW r \in BindRec
  PROVE  LET s == [r EXCEPT !.ready = FALSE, !.next = None]
         IN  /\ s \in BindRec
             /\ s.known = r.known /\ s.active = r.active /\ s.id = r.id /\ s.kept = r.kept
             /\ s.exit = r.exit /\ ~s.ready
             /\ s.cur = r.cur /\ s.prev = r.prev /\ s.next = None
BY DEF BindRec, None

(* A request for a new session leaves the keys as they are.                *)
LEMMA RekeyedIs ==
  ASSUME NEW r \in BindRec, NEW x \in BOOLEAN
  PROVE  LET s == [r EXCEPT !.rekey = @ \/ x]
         IN  /\ s \in BindRec
             /\ s.known = r.known /\ s.active = r.active /\ s.id = r.id /\ s.kept = r.kept
             /\ s.exit = r.exit /\ s.ready = r.ready /\ (s.rekey <=> r.rekey \/ x)
             /\ SameKeys(r, s)
BY DEF BindRec, SameKeys

(***************************************************************************)
(* The bindings and their workers.                                         *)
(***************************************************************************)

WorkerAt == {"none", "new", "run", "tell", "wipe", "forget"}
Running(p) == wk[p].at \in {"run", "tell", "wipe", "forget"}

BindType ==
  /\ b \in [Policy -> BindRec]
  /\ wk \in [Policy -> [at : WorkerAt, id : Nat]]

CtlAt == {"idle", "bind", "bind_wait", "finalize", "final_wait", "start", "sync", "snapshot",
          "reset", "fill"}
CtlType ==
  /\ ctl \in [at : CtlAt, todo : {ctl.todo}, cfg : Configs \cup {First, <<>>}, up : BOOLEAN]

(* A worker signs with the keys its policy is bound to; a binding kept     *)
(* from an earlier configuration is active, and while it is asked to stop  *)
(* its worker is past the point where it ends without looking.             *)
PolicyInv(p) ==
  /\ b[p].active => b[p].known
  /\ wk[p].at # "none" => b[p].known
  /\ Running(p) => wk[p].id = b[p].id
  /\ b[p].kept => b[p].active
  /\ b[p].kept /\ b[p].exit => Running(p)

(* The policies still to bind are different ones, and none of them is one  *)
(* that this load gave up on.                                              *)
TodoInv ==
  ctl.at \in {"bind", "bind_wait"} =>
    /\ ctl.todo \in Seq(Entry)
    /\ \A i, j \in 1..Len(ctl.todo) : ctl.todo[i].pol = ctl.todo[j].pol => i = j
    /\ \A i \in 1..Len(ctl.todo) : ~b[ctl.todo[i].pol].kept

BindInv == BindType /\ CtlType /\ (\A p \in Policy : PolicyInv(p)) /\ TodoInv

(* One binding changes.                                                    *)
LEMMA OneChanges ==
  ASSUME BindType, NEW p \in Policy, NEW s \in BindRec, b' = [b EXCEPT ![p] = s]
  PROVE  /\ b' \in [Policy -> BindRec]
         /\ b'[p] = s
         /\ \A q \in Policy : q # p => b'[q] = b[q]
BY DEF BindType

(* Or one worker.                                                          *)
LEMMA OneMoves ==
  ASSUME BindType, NEW p \in Policy, NEW x \in [at : WorkerAt, id : Nat],
         wk' = [wk EXCEPT ![p] = x]
  PROVE  /\ wk' \in [Policy -> [at : WorkerAt, id : Nat]]
         /\ wk'[p] = x
         /\ \A q \in Policy : q # p => wk'[q] = wk[q]
BY DEF BindType

(* A worker moves on within its loop.                                      *)
LEMMA AtMoves ==
  ASSUME BindType, NEW p \in Policy, NEW x \in WorkerAt, At(p, x)
  PROVE  /\ wk' \in [Policy -> [at : WorkerAt, id : Nat]]
         /\ wk'[p].at = x /\ wk'[p].id = wk[p].id
         /\ \A q \in Policy : q # p => wk'[q] = wk[q]
BY DEF BindType, At

(* Nothing that TodoInv is about changes.                                  *)
LEMMA TodoSame ==
  ASSUME TodoInv, ctl' = ctl, \A p \in Policy : b'[p].kept => b[p].kept
  PROVE  TodoInv'
<1>1. ctl.at \in {"bind", "bind_wait"} =>
        \A i \in 1..Len(ctl.todo) : ctl.todo[i] \in Entry /\ ctl.todo[i].pol \in Policy
  <2>1. ctl.at \in {"bind", "bind_wait"} =>
          \A i \in 1..Len(ctl.todo) : ctl.todo[i] \in Entry
    BY DEF TodoInv
  <2> QED
    BY <2>1 DEF Entry
<1> QED
  BY <1>1 DEF TodoInv

(* The invariant of a policy is about that policy.                         *)
LEMMA OthersSame ==
  ASSUME BindInv, NEW p \in Policy, PolicyInv(p)',
         \A q \in Policy : q # p => b'[q] = b[q] /\ wk'[q] = wk[q]
  PROVE  \A q \in Policy : PolicyInv(q)'
BY DEF BindInv, PolicyInv, Running

(* Starting workers.                                                       *)
LEMMA StartsKeep ==
  ASSUME BindInv, NEW S \in SUBSET Policy, \A p \in S : b[p].known, wk' = StartedOf(S),
         b' = b
  PROVE  BindType' /\ \A p \in Policy : PolicyInv(p)'
<1>1. \A p \in Policy : wk'[p] = IF p \in S /\ MayStart(p) THEN [NoWorker EXCEPT !.at = "new"] ELSE wk[p]
  BY DEF StartedOf
<1>2. [NoWorker EXCEPT !.at = "new"] = [at |-> "new", id |-> None]
  BY DEF NoWorker
<1>3. BindType'
  BY <1>1, <1>2 DEF BindType, BindInv, WorkerAt, None, StartedOf
<1>4. \A p \in Policy : PolicyInv(p)'
  BY <1>1, <1>2 DEF BindInv, PolicyInv, Running, MayStart, Started
<1> QED
  BY <1>3, <1>4

(* The once-a-second check starts what is active.                          *)
LEMMA SuperviseBinds ==
  ASSUME BindInv, Supervise
  PROVE  BindInv'
<1> DEFINE S == {p \in Policy : b[p].active}
<1>1. S \in SUBSET Policy /\ \A p \in S : b[p].known
  BY DEF BindInv, PolicyInv
<1>2. BindType' /\ \A p \in Policy : PolicyInv(p)'
  BY <1>1, StartsKeep DEF Supervise
<1>3. CtlType' /\ TodoInv'
  BY TodoSame DEF Supervise, BindInv, CtlType
<1> QED
  BY <1>2, <1>3 DEF BindInv

(* The worker takes the identity its policy has now.                       *)
LEMMA CopiesBinds ==
  ASSUME BindInv, NEW p \in Policy, WorkerCopies(p)
  PROVE  BindInv'
<1> DEFINE x == IF b[p].id = None THEN NoWorker ELSE [at |-> "run", id |-> b[p].id]
<1>1. x \in [at : WorkerAt, id : Nat]
  BY DEF BindInv, BindType, BindRec, NoWorker, WorkerAt, None
<1>2. wk' = [wk EXCEPT ![p] = x] /\ b' = b /\ ctl' = ctl
  BY DEF WorkerCopies
<1>3. x = NoWorker \/ (x.at = "run" /\ x.id = b[p].id)
  OBVIOUS
<1> HIDE DEF x
<1>4. wk' \in [Policy -> [at : WorkerAt, id : Nat]] /\ wk'[p] = x
      /\ \A q \in Policy : q # p => wk'[q] = wk[q]
  BY <1>1, <1>2, OneMoves DEF BindInv
<1>5. BindType' /\ CtlType' /\ TodoInv'
  BY <1>2, <1>4, TodoSame DEF BindInv, BindType, CtlType
<1>6. \A q \in Policy : PolicyInv(q)'
  <2>1. wk[p].at = "new"
    BY DEF WorkerCopies
  <2> QED
    BY <1>2, <1>3, <1>4, <2>1 DEF BindInv, PolicyInv, Running, NoWorker
<1> QED
  BY <1>5, <1>6 DEF BindInv

(* A worker that ends without a socket was not past its start, so no kept  *)
(* binding is asked to stop meanwhile.                                     *)
LEMMA FailsBinds ==
  ASSUME BindInv, NEW p \in Policy, WorkerFails(p)
  PROVE  BindInv'
<1>1. NoWorker \in [at : WorkerAt, id : Nat]
  BY DEF NoWorker, WorkerAt, None
<1>2. wk' = [wk EXCEPT ![p] = NoWorker] /\ b' = b /\ ctl' = ctl /\ wk[p].at = "new"
  BY DEF WorkerFails
<1>4. wk' \in [Policy -> [at : WorkerAt, id : Nat]] /\ wk'[p] = NoWorker
      /\ \A q \in Policy : q # p => wk'[q] = wk[q]
  BY <1>1, <1>2, OneMoves DEF BindInv
<1>5. BindType' /\ CtlType' /\ TodoInv'
  BY <1>2, <1>4, TodoSame DEF BindInv, BindType, CtlType
<1>6. \A q \in Policy : PolicyInv(q)'
  BY <1>2, <1>4 DEF BindInv, PolicyInv, Running, NoWorker
<1> QED
  BY <1>5, <1>6 DEF BindInv

(* A promotion changes the key slots only.                                 *)
LEMMA PromotesBinds ==
  ASSUME BindInv, NEW p \in Policy, NEW k \in Nat, b' = [b EXCEPT ![p] = Success(@, k)],
         wk[p].at = "run", At(p, "tell"), ctl' = ctl
  PROVE  BindInv'
<1> DEFINE s == Success(b[p], k)
<1>1. /\ s \in BindRec /\ s.known = b[p].known /\ s.active = b[p].active /\ s.id = b[p].id
      /\ s.exit = b[p].exit /\ s.kept = b[p].kept
  BY SuccessIs DEF BindInv, BindType
<1> HIDE DEF s
<1>2. b' = [b EXCEPT ![p] = s]
  BY DEF s
<1>3. b' \in [Policy -> BindRec] /\ b'[p] = s /\ \A q \in Policy : q # p => b'[q] = b[q]
  BY <1>1, <1>2, OneChanges DEF BindInv
<1>4. /\ wk' \in [Policy -> [at : WorkerAt, id : Nat]]
      /\ wk'[p].at = "tell" /\ wk'[p].id = wk[p].id
      /\ \A q \in Policy : q # p => wk'[q] = wk[q]
  BY AtMoves DEF BindInv, WorkerAt
<1>5. PolicyInv(p)'
  BY <1>1, <1>3, <1>4 DEF BindInv, PolicyInv, Running
<1>6. CtlType' /\ TodoInv'
  BY <1>1, <1>3, TodoSame DEF BindInv, CtlType
<1> QED
  BY <1>3, <1>4, <1>5, <1>6, OthersSame DEF BindInv, BindType

(* Staging changes NEXT only.                                              *)
LEMMA StagesBinds ==
  ASSUME BindInv, NEW p \in Policy, NEW k \in Nat, b' = [b EXCEPT ![p].next = k],
         wk[p].at = "run", At(p, "tell"), ctl' = ctl
  PROVE  BindInv'
<1> DEFINE s == [b[p] EXCEPT !.next = k]
<1>1. /\ s \in BindRec /\ s.known = b[p].known /\ s.active = b[p].active /\ s.id = b[p].id
      /\ s.exit = b[p].exit /\ s.kept = b[p].kept
  BY SlotsIs DEF BindInv, BindType
<1> HIDE DEF s
<1>2. b' = [b EXCEPT ![p] = s]
  BY DEF s
<1>3. b' \in [Policy -> BindRec] /\ b'[p] = s /\ \A q \in Policy : q # p => b'[q] = b[q]
  BY <1>1, <1>2, OneChanges DEF BindInv
<1>4. /\ wk' \in [Policy -> [at : WorkerAt, id : Nat]]
      /\ wk'[p].at = "tell" /\ wk'[p].id = wk[p].id
      /\ \A q \in Policy : q # p => wk'[q] = wk[q]
  BY AtMoves DEF BindInv, WorkerAt
<1>5. PolicyInv(p)'
  BY <1>1, <1>3, <1>4 DEF BindInv, PolicyInv, Running
<1>6. CtlType' /\ TodoInv'
  BY <1>1, <1>3, TodoSame DEF BindInv, CtlType
<1> QED
  BY <1>3, <1>4, <1>5, <1>6, OthersSame DEF BindInv, BindType

(* The second half of a discard changes PREV only.                         *)
LEMMA ForgetBinds ==
  ASSUME BindInv, NEW p \in Policy, Forget(p)
  PROVE  BindInv'
<1> DEFINE s == [b[p] EXCEPT !.prev = None]
<1>0. None \in Nat
  BY DEF None
<1>1. /\ s \in BindRec /\ s.known = b[p].known /\ s.active = b[p].active /\ s.id = b[p].id
      /\ s.exit = b[p].exit /\ s.kept = b[p].kept
  BY <1>0, SlotsIs DEF BindInv, BindType
<1> HIDE DEF s
<1>2. b' = [b EXCEPT ![p] = s] /\ wk[p].at = "forget" /\ At(p, "run") /\ ctl' = ctl
  BY DEF s, Forget
<1>3. b' \in [Policy -> BindRec] /\ b'[p] = s /\ \A q \in Policy : q # p => b'[q] = b[q]
  BY <1>1, <1>2, OneChanges DEF BindInv
<1>4. /\ wk' \in [Policy -> [at : WorkerAt, id : Nat]]
      /\ wk'[p].at = "run" /\ wk'[p].id = wk[p].id
      /\ \A q \in Policy : q # p => wk'[q] = wk[q]
  BY <1>2, AtMoves DEF BindInv, WorkerAt
<1>5. PolicyInv(p)'
  BY <1>1, <1>2, <1>3, <1>4 DEF BindInv, PolicyInv, Running
<1>6. CtlType' /\ TodoInv'
  BY <1>1, <1>2, <1>3, TodoSame DEF BindInv, CtlType
<1> QED
  BY <1>3, <1>4, <1>5, <1>6, OthersSame DEF BindInv, BindType

(* A worker moves within its loop and keeps its identity.                  *)
LEMMA LoopsBinds ==
  ASSUME BindInv, NEW p \in Policy, NEW x \in {"run", "wipe", "forget"}, Running(p), At(p, x),
         b' = b, ctl' = ctl
  PROVE  BindInv'
<1>1. /\ wk' \in [Policy -> [at : WorkerAt, id : Nat]]
      /\ wk'[p].at = x /\ wk'[p].id = wk[p].id
      /\ \A q \in Policy : q # p => wk'[q] = wk[q]
  BY AtMoves DEF BindInv, WorkerAt
<1>2. PolicyInv(p)'
  BY <1>1 DEF BindInv, PolicyInv, Running
<1>3. CtlType' /\ TodoInv'
  BY TodoSame DEF BindInv, CtlType
<1> QED
  BY <1>1, <1>2, <1>3, OthersSame DEF BindInv, BindType

(* The loop ends: a kept binding is active, so its request goes too.       *)
LEMMA ExitsBinds ==
  ASSUME BindInv, NEW p \in Policy, WorkerExits(p)
  PROVE  BindInv'
<1> DEFINE s == AfterExit(b[p])
<1>1. /\ s \in BindRec /\ s.known = b[p].known /\ s.active = b[p].active /\ s.id = b[p].id
      /\ s.kept = b[p].kept /\ (s.exit => ~b[p].active)
  BY AfterExitIs DEF BindInv, BindType
<1> HIDE DEF s
<1>2. b' = [b EXCEPT ![p] = s] /\ wk' = [wk EXCEPT ![p] = NoWorker] /\ ctl' = ctl
  BY DEF s, WorkerExits
<1>3. b' \in [Policy -> BindRec] /\ b'[p] = s /\ \A q \in Policy : q # p => b'[q] = b[q]
  BY <1>1, <1>2, OneChanges DEF BindInv
<1>4. /\ wk' \in [Policy -> [at : WorkerAt, id : Nat]]
      /\ wk'[p] = NoWorker
      /\ \A q \in Policy : q # p => wk'[q] = wk[q]
  <2>1. NoWorker \in [at : WorkerAt, id : Nat]
    BY DEF NoWorker, WorkerAt, None
  <2> QED
    BY <1>2, <2>1, OneMoves DEF BindInv
<1>5. PolicyInv(p)'
  BY <1>1, <1>3, <1>4 DEF BindInv, PolicyInv, Running, NoWorker
<1>6. CtlType' /\ TodoInv'
  BY <1>1, <1>2, <1>3, TodoSame DEF BindInv, CtlType
<1> QED
  BY <1>3, <1>4, <1>5, <1>6, OthersSame DEF BindInv, BindType

(* A manual retry may also start workers.                                  *)
LEMMA RetryBinds ==
  ASSUME BindInv, NEW p \in Policy, TriggerRetry(p)
  PROVE  BindInv'
<1> DEFINE s == [b[p] EXCEPT !.ready = FALSE, !.next = None]
<1>1. /\ s \in BindRec /\ s.known = b[p].known /\ s.active = b[p].active /\ s.id = b[p].id
      /\ s.exit = b[p].exit /\ s.kept = b[p].kept
  BY RetriedIs DEF BindInv, BindType
<1> HIDE DEF s
<1>2. b' = [b EXCEPT ![p] = s] /\ ctl' = ctl /\ wk' = StartedOf({q \in Policy : b[q].known})
  BY DEF s, TriggerRetry, HandshakeStart
<1>3. b' \in [Policy -> BindRec] /\ b'[p] = s /\ \A q \in Policy : q # p => b'[q] = b[q]
  BY <1>1, <1>2, OneChanges DEF BindInv
<1>4. \A q \in Policy :
        /\ b'[q].known = b[q].known /\ b'[q].active = b[q].active /\ b'[q].id = b[q].id
        /\ b'[q].exit = b[q].exit /\ b'[q].kept = b[q].kept
  BY <1>1, <1>3
<1>5. \A q \in Policy : wk'[q] = IF b[q].known /\ MayStart(q) THEN [NoWorker EXCEPT !.at = "new"] ELSE wk[q]
  BY <1>2 DEF StartedOf
<1>6. [NoWorker EXCEPT !.at = "new"] = [at |-> "new", id |-> None]
  BY DEF NoWorker
<1>7. BindType'
  BY <1>2, <1>3, <1>5, <1>6 DEF BindType, BindInv, WorkerAt, None, StartedOf
<1>8. \A q \in Policy : PolicyInv(q)'
  BY <1>4, <1>5, <1>6 DEF BindInv, PolicyInv, Running, MayStart, Started
<1>9. CtlType' /\ TodoInv'
  BY <1>2, <1>4, TodoSame DEF BindInv, CtlType
<1> QED
  BY <1>7, <1>8, <1>9 DEF BindInv

(* The lifetime tick asks for a new session.                               *)
LEMMA RequestBinds ==
  ASSUME BindInv, NEW p \in Policy, RequestNewSession(p), wk' = wk, ctl' = ctl
  PROVE  BindInv'
<1> DEFINE x == RequestTaken(p)
           s == [b[p] EXCEPT !.rekey = @ \/ x]
<1>0. x \in BOOLEAN
  BY DEF RequestTaken
<1>1. /\ s \in BindRec /\ s.known = b[p].known /\ s.active = b[p].active /\ s.id = b[p].id
      /\ s.exit = b[p].exit /\ s.kept = b[p].kept
  BY <1>0, RekeyedIs DEF BindInv, BindType
<1>2. b' = [b EXCEPT ![p] = s]
  BY DEF RequestNewSession
<1> HIDE DEF s
<1>3. b' \in [Policy -> BindRec] /\ b'[p] = s /\ \A q \in Policy : q # p => b'[q] = b[q]
  BY <1>1, <1>2, OneChanges DEF BindInv
<1>4. PolicyInv(p)'
  BY <1>1, <1>3 DEF BindInv, PolicyInv, Running
<1>5. CtlType' /\ TodoInv'
  BY <1>1, <1>3, TodoSame DEF BindInv, CtlType
<1> QED
  BY <1>3, <1>4, <1>5, OthersSame DEF BindInv, BindType

(***************************************************************************)
(* A configuration load.                                                   *)
(***************************************************************************)

(* Moving the daemon's load along.                                         *)
LEMMA GoToIs ==
  ASSUME CtlType, NEW x \in CtlAt, GoTo(x)
  PROVE  /\ CtlType' /\ ctl'.at = x
         /\ ctl'.todo = ctl.todo /\ ctl'.cfg = ctl.cfg /\ ctl'.up = ctl.up
BY DEF CtlType, GoTo

(* One entry of the list is done.                                          *)
LEMMA DoneIs ==
  ASSUME CtlType, NEW x \in CtlAt
  PROVE  /\ Done.at = ctl.at /\ Done.todo = Tail(ctl.todo)
         /\ Done.cfg = ctl.cfg /\ Done.up = ctl.up
         /\ [Done EXCEPT !.at = x].at = x /\ [Done EXCEPT !.at = x].todo = Tail(ctl.todo)
         /\ [Done EXCEPT !.at = x].cfg = ctl.cfg /\ [Done EXCEPT !.at = x].up = ctl.up
         /\ ctl' = Done => CtlType'
         /\ ctl' = [Done EXCEPT !.at = x] => CtlType'
BY DEF CtlType, Done

(* The configurations.                                                     *)
LEMMA CfgIs ==
  ASSUME NEW c \in Configs \cup {First, <<>>}
  PROVE  /\ c \in Seq(Entry)
         /\ \A i, j \in 1..Len(c) : c[i].pol = c[j].pol => i = j
<1>1. CASE c = <<>>
  BY <1>1
<1>2. CASE c \in Configs \cup {First}
  BY <1>2, BindingAssumption DEF Entry
<1> QED
  BY <1>1, <1>2

(* What is left once the first policy is done.                             *)
LEMMA TodoTail ==
  ASSUME TodoInv, ctl.at \in {"bind", "bind_wait"}, ctl.todo # <<>>, NEW e, e = Head(ctl.todo)
  PROVE  /\ e \in Entry /\ e.pol \in Policy /\ ~b[e.pol].kept
         /\ Tail(ctl.todo) \in Seq(Entry)
         /\ \A i, j \in 1..Len(Tail(ctl.todo)) :
              Tail(ctl.todo)[i].pol = Tail(ctl.todo)[j].pol => i = j
         /\ \A i \in 1..Len(Tail(ctl.todo)) :
              /\ Tail(ctl.todo)[i].pol \in Policy /\ ~b[Tail(ctl.todo)[i].pol].kept
              /\ Tail(ctl.todo)[i].pol # e.pol
<1> DEFINE t == ctl.todo
           u == Tail(ctl.todo)
<1>1. t \in Seq(Entry) /\ Len(t) \in Nat /\ Len(t) > 0
  BY EmptySeq DEF TodoInv
<1>2. u \in Seq(Entry) /\ Len(u) = Len(t) - 1 /\ e = t[1]
      /\ \A i \in 1..Len(u) : u[i] = t[i + 1]
  BY <1>1, HeadTailProperties
<1>3. \A i \in 1..Len(u) : i + 1 \in 1..Len(t) /\ i + 1 # 1
  BY <1>1, <1>2
<1>4. 1 \in 1..Len(t)
  BY <1>1
<1>5. \A i \in 1..Len(t) : t[i] \in Entry
  BY <1>1
<1>6. \A i \in 1..Len(t) : t[i].pol \in Policy
  BY <1>5 DEF Entry
<1>7. \A i, j \in 1..Len(t) : t[i].pol = t[j].pol => i = j
  BY DEF TodoInv
<1>8. \A i \in 1..Len(t) : ~b[t[i].pol].kept
  BY DEF TodoInv
<1> HIDE DEF t, u
<1>9. \A i, j \in 1..Len(u) : u[i].pol = u[j].pol => i = j
  <2>1. SUFFICES ASSUME NEW i \in 1..Len(u), NEW j \in 1..Len(u), u[i].pol = u[j].pol PROVE i = j
    OBVIOUS
  <2>2. i + 1 = j + 1
    BY <1>2, <1>3, <1>7, <2>1
  <2> QED
    BY <2>2
<1>10. \A i \in 1..Len(u) : u[i].pol \in Policy /\ ~b[u[i].pol].kept /\ u[i].pol # e.pol
  BY <1>2, <1>3, <1>4, <1>6, <1>7, <1>8
<1> QED
  BY <1>2, <1>4, <1>5, <1>6, <1>8, <1>9, <1>10 DEF t, u

(* A load or an unload begins.                                             *)
LEMMA PreparedBinds ==
  ASSUME BindInv, b' = Prepared, wk' = wk
  PROVE  BindType' /\ (\A p \in Policy : PolicyInv(p)' /\ ~b'[p].kept)
<1>1. \A p \in Policy :
        /\ b'[p] \in BindRec /\ b'[p].known = b[p].known /\ ~b'[p].active /\ b'[p].id = b[p].id
        /\ ~b'[p].kept /\ b'[p].exit = b[p].exit
  BY ParkedIs DEF BindInv, BindType, Prepared
<1>2. BindType'
  BY <1>1 DEF BindInv, BindType, Prepared
<1> QED
  BY <1>1, <1>2 DEF BindInv, PolicyInv, Running

(* A load begins: nothing is kept yet.                                     *)
LEMMA LoadBinds ==
  ASSUME BindInv, NEW c \in Configs, Load(c)
  PROVE  BindInv'
<1>1. BindType' /\ (\A p \in Policy : PolicyInv(p)' /\ ~b'[p].kept)
  BY PreparedBinds DEF Load
<1>2. ctl'.todo = c /\ CtlType'
  BY DEF BindInv, CtlType, CtlAt, Load
<1>3. c \in Seq(Entry) /\ \A i, j \in 1..Len(c) : c[i].pol = c[j].pol => i = j
  BY CfgIs
<1>4. \A i \in 1..Len(c) : c[i] \in Entry
  BY <1>3
<1>5. \A i \in 1..Len(c) : c[i].pol \in Policy
  BY <1>4 DEF Entry
<1>6. TodoInv'
  BY <1>1, <1>2, <1>3, <1>5 DEF TodoInv
<1> QED
  BY <1>1, <1>2, <1>6 DEF BindInv

(* An unload begins.                                                       *)
LEMMA BlankBinds ==
  ASSUME BindInv, Blank
  PROVE  BindInv'
<1>1. BindType' /\ (\A p \in Policy : PolicyInv(p)' /\ ~b'[p].kept)
  BY PreparedBinds DEF Blank
<1>2. ctl'.at = "finalize" /\ CtlType'
  BY DEF BindInv, CtlType, CtlAt, Blank
<1> QED
  BY <1>1, <1>2 DEF BindInv, TodoInv

(* The policy at the head of the load takes a binding that is not marked   *)
(* as given up on, or is marked with its worker running, and leaves the    *)
(* list.                                                                   *)
LEMMA EntryDone ==
  ASSUME BindInv, ctl.at \in {"bind", "bind_wait"}, ctl.todo # <<>>, NEW e, e = Head(ctl.todo),
         NEW s \in BindRec, b' = [b EXCEPT ![e.pol] = s], wk' = wk,
         CtlType', ctl'.todo = Tail(ctl.todo),
         PolicyInv(e.pol)'
  PROVE  BindInv'
<1>1. /\ e \in Entry /\ e.pol \in Policy
      /\ Tail(ctl.todo) \in Seq(Entry)
      /\ \A i, j \in 1..Len(Tail(ctl.todo)) :
           Tail(ctl.todo)[i].pol = Tail(ctl.todo)[j].pol => i = j
      /\ \A i \in 1..Len(Tail(ctl.todo)) :
           /\ Tail(ctl.todo)[i].pol \in Policy /\ ~b[Tail(ctl.todo)[i].pol].kept
           /\ Tail(ctl.todo)[i].pol # e.pol
  BY TodoTail DEF BindInv
<1>2. b' \in [Policy -> BindRec] /\ \A q \in Policy : q # e.pol => b'[q] = b[q]
  BY <1>1, OneChanges DEF BindInv
<1>3. TodoInv'
  BY <1>1, <1>2 DEF TodoInv
<1>4. \A q \in Policy : PolicyInv(q)'
  BY <1>1, <1>2, OthersSame
<1> QED
  BY <1>2, <1>3, <1>4 DEF BindInv, BindType

(* A binding is changed in place only without a worker, or when its        *)
(* identity stays.                                                         *)
LEMMA BindPolicyBinds ==
  ASSUME BindInv, NEW e, BindPolicy(e)
  PROVE  BindInv'
<1>1. /\ ctl.at = "bind" /\ ctl.todo # <<>> /\ e = Head(ctl.todo)
      /\ ~(Changed(e) /\ Started(e.pol)) /\ wk' = wk /\ ctl' = Done
      /\ b' = [b EXCEPT ![e.pol] = Rebound(@, e, Changed(e))]
  BY DEF BindPolicy, Binding
<1>2. e \in Entry /\ e.pol \in Policy /\ ~b[e.pol].kept
  BY <1>1, TodoTail DEF BindInv
<1> DEFINE ch == Changed(e)
           s == Rebound(b[e.pol], e, ch)
<1>3. ch \in BOOLEAN
  BY DEF Changed
<1>4. s \in BindRec /\ s.known /\ s.active /\ s.id = e.id /\ s.kept = b[e.pol].kept
  BY <1>2, <1>3, ReboundIs DEF BindInv, BindType
<1>5. b' = [b EXCEPT ![e.pol] = s]
  BY <1>1
<1>6. Running(e.pol) => b[e.pol].id = e.id
  BY <1>1, <1>2 DEF BindInv, PolicyInv, Running, Started, Changed
<1> HIDE DEF s, ch
<1>7. b'[e.pol] = s
  BY <1>2, <1>4, <1>5, OneChanges DEF BindInv
<1>8. PolicyInv(e.pol)'
  BY <1>1, <1>2, <1>4, <1>6, <1>7 DEF BindInv, PolicyInv, Running
<1>9. CtlType' /\ ctl'.todo = Tail(ctl.todo)
  BY <1>1, DoneIs DEF BindInv, CtlAt
<1> QED
  BY <1>1, <1>4, <1>5, <1>8, <1>9, EntryDone

(* The wait for the worker of a changed binding begins.                    *)
LEMMA BindAsksStopBinds ==
  ASSUME BindInv, NEW e, BindAsksStop(e)
  PROVE  BindInv'
<1>1. /\ ctl.at = "bind" /\ ctl.todo # <<>> /\ e = Head(ctl.todo) /\ wk' = wk
      /\ b' = [b EXCEPT ![e.pol].exit = TRUE] /\ GoTo("bind_wait")
  BY DEF BindAsksStop, Binding
<1>2. e \in Entry /\ e.pol \in Policy /\ ~b[e.pol].kept
  BY <1>1, TodoTail DEF BindInv
<1> DEFINE s == [b[e.pol] EXCEPT !.exit = TRUE]
<1>3. /\ s \in BindRec /\ s.known = b[e.pol].known /\ s.active = b[e.pol].active
      /\ s.id = b[e.pol].id /\ s.kept = b[e.pol].kept
  BY <1>2, AskedIs DEF BindInv, BindType
<1>4. b' = [b EXCEPT ![e.pol] = s]
  BY <1>1
<1> HIDE DEF s
<1>5. b' \in [Policy -> BindRec] /\ b'[e.pol] = s /\ \A q \in Policy : q # e.pol => b'[q] = b[q]
  BY <1>2, <1>3, <1>4, OneChanges DEF BindInv
<1>6. PolicyInv(e.pol)'
  BY <1>1, <1>2, <1>3, <1>5 DEF BindInv, PolicyInv, Running
<1>7. \A q \in Policy : PolicyInv(q)'
  BY <1>1, <1>2, <1>5, <1>6, OthersSame
<1>8. CtlType' /\ ctl'.at = "bind_wait" /\ ctl'.todo = ctl.todo
  BY <1>1, GoToIs DEF BindInv, CtlAt
<1>9. TodoInv'
  <2>1. ctl.todo \in Seq(Entry) /\ \A i \in 1..Len(ctl.todo) : ctl.todo[i] \in Entry
    BY <1>1 DEF BindInv, TodoInv
  <2>2. \A i \in 1..Len(ctl.todo) : ctl.todo[i].pol \in Policy
    BY <2>1 DEF Entry
  <2>3. \A q \in Policy : b'[q].kept = b[q].kept
    BY <1>3, <1>5
  <2> QED
    BY <1>1, <1>8, <2>1, <2>2, <2>3 DEF BindInv, TodoInv
<1> QED
  BY <1>1, <1>5, <1>7, <1>8, <1>9 DEF BindInv, BindType

(* The worker has stopped: the binding changes.                            *)
LEMMA BindAfterStopBinds ==
  ASSUME BindInv, NEW e, BindAfterStop(e)
  PROVE  BindInv'
<1>1. /\ ctl.at = "bind_wait" /\ ctl.todo # <<>> /\ e = Head(ctl.todo)
      /\ ~Started(e.pol) /\ wk' = wk /\ ctl' = [Done EXCEPT !.at = "bind"]
      /\ b' = [b EXCEPT ![e.pol] = Rebound(@, e, TRUE)]
  BY DEF BindAfterStop, Binding
<1>2. e \in Entry /\ e.pol \in Policy /\ ~b[e.pol].kept
  BY <1>1, TodoTail DEF BindInv
<1> DEFINE s == Rebound(b[e.pol], e, TRUE)
<1>4. s \in BindRec /\ s.known /\ s.active /\ s.id = e.id /\ s.kept = b[e.pol].kept
  BY <1>2, ReboundIs DEF BindInv, BindType
<1>5. b' = [b EXCEPT ![e.pol] = s]
  BY <1>1
<1> HIDE DEF s
<1>7. b'[e.pol] = s
  BY <1>2, <1>4, <1>5, OneChanges DEF BindInv
<1>8. PolicyInv(e.pol)'
  BY <1>1, <1>2, <1>4, <1>7 DEF BindInv, PolicyInv, Running, Started
<1>9. CtlType' /\ ctl'.todo = Tail(ctl.todo)
  BY <1>1, DoneIs DEF BindInv, CtlAt
<1> QED
  BY <1>1, <1>4, <1>5, <1>8, <1>9, EntryDone

(* The worker outlasted the wait: it is past its start, and the binding is *)
(* kept with the identity it runs with.                                    *)
LEMMA BindTimeoutBinds ==
  ASSUME BindInv, NEW e, BindTimeout(e)
  PROVE  BindInv'
<1>1. /\ ctl.at = "bind_wait" /\ ctl.todo # <<>> /\ e = Head(ctl.todo)
      /\ Busy(e.pol) /\ wk' = wk /\ ctl' = [Done EXCEPT !.at = "bind"]
      /\ b' = [b EXCEPT ![e.pol] = KeptBinding(@, e)]
  BY DEF BindTimeout, Binding
<1>2. e \in Entry /\ e.pol \in Policy
  BY <1>1, TodoTail DEF BindInv
<1> DEFINE s == KeptBinding(b[e.pol], e)
<1>4. s \in BindRec /\ s.known = b[e.pol].known /\ s.active /\ s.id = b[e.pol].id
  BY <1>2, KeptIs DEF BindInv, BindType
<1>5. b' = [b EXCEPT ![e.pol] = s]
  BY <1>1
<1> HIDE DEF s
<1>6. Running(e.pol) /\ b[e.pol].known
  BY <1>1, <1>2 DEF BindInv, BindType, PolicyInv, Running, Busy, Started, WorkerAt
<1>7. b'[e.pol] = s
  BY <1>2, <1>4, <1>5, OneChanges DEF BindInv
<1>8. PolicyInv(e.pol)'
  BY <1>1, <1>2, <1>4, <1>6, <1>7 DEF BindInv, PolicyInv, Running
<1>9. CtlType' /\ ctl'.todo = Tail(ctl.todo)
  BY <1>1, DoneIs DEF BindInv, CtlAt
<1> QED
  BY <1>1, <1>4, <1>5, <1>8, <1>9, EntryDone

(* A policy that cannot be bound is left as it is.                         *)
LEMMA BindFailsBinds ==
  ASSUME BindInv, NEW e, BindFails(e)
  PROVE  BindInv'
<1>1. ctl.at = "bind" /\ ctl.todo # <<>> /\ e = Head(ctl.todo) /\ wk' = wk /\ ctl' = Done /\ b' = b
  BY DEF BindFails, Binding
<1>2. e.pol \in Policy
  BY <1>1, TodoTail DEF BindInv
<1>3. b[e.pol] \in BindRec /\ b' = [b EXCEPT ![e.pol] = b[e.pol]]
  BY <1>1, <1>2 DEF BindInv, BindType
<1>4. PolicyInv(e.pol)'
  BY <1>1, <1>2 DEF BindInv, PolicyInv, Running
<1>5. CtlType' /\ ctl'.todo = Tail(ctl.todo)
  BY <1>1, DoneIs DEF BindInv, CtlAt
<1> QED
  BY <1>1, <1>3, <1>4, <1>5, EntryDone

(* All policies are bound.                                                 *)
LEMMA BindsDoneBinds ==
  ASSUME BindInv, BindsDone
  PROVE  BindInv'
<1>1. b' = b /\ wk' = wk /\ ctl'.at = "finalize" /\ CtlType'
  BY DEF BindInv, CtlType, CtlAt, BindsDone
<1> QED
  BY <1>1 DEF BindInv, BindType, PolicyInv, Running, TodoInv

(* Outside the binding of policies a load changes one binding at a time.   *)
LEMMA FinalDone ==
  ASSUME BindInv, NEW p \in Policy, NEW s \in BindRec, b' = [b EXCEPT ![p] = s], wk' = wk,
         CtlType', ctl'.at \notin {"bind", "bind_wait"}, PolicyInv(p)'
  PROVE  BindInv'
<1>1. b' \in [Policy -> BindRec] /\ \A q \in Policy : q # p => b'[q] = b[q]
  BY OneChanges DEF BindInv
<1>2. \A q \in Policy : PolicyInv(q)'
  BY <1>1, OthersSame
<1> QED
  BY <1>1, <1>2 DEF BindInv, BindType, TodoInv

(* finalize wipes a binding only without a worker.                         *)
LEMMA FinalizeBinds ==
  ASSUME BindInv, NEW p \in Policy,
         Finalize(p) \/ FinalizeAsksStop(p) \/ FinalizeAfterStop(p) \/ FinalizeTimeout(p)
  PROVE  BindInv'
<1>1. CASE Finalize(p)
  <2> DEFINE s == Wiped(b[p])
  <2>1. /\ s \in BindRec /\ s.known = b[p].known /\ s.active = b[p].active
        /\ s.kept = b[p].kept /\ s.exit = b[p].exit
    BY WipedIs DEF BindInv, BindType
  <2>2. b' = [b EXCEPT ![p] = s] /\ wk' = wk /\ ctl' = Done /\ ctl.at = "finalize" /\ ~Started(p)
    BY <1>1 DEF Finalize, Binding
  <2> HIDE DEF s
  <2>3. b'[p] = s
    BY <2>1, <2>2, OneChanges DEF BindInv
  <2>4. PolicyInv(p)'
    BY <2>1, <2>2, <2>3 DEF BindInv, PolicyInv, Running, Started
  <2>5. CtlType' /\ ctl'.at = "finalize"
    BY <2>2, DoneIs DEF BindInv, CtlAt
  <2> QED
    BY <2>1, <2>2, <2>4, <2>5, FinalDone
<1>2. CASE FinalizeAsksStop(p)
  <2> DEFINE s == [b[p] EXCEPT !.exit = TRUE]
  <2>1. /\ s \in BindRec /\ s.known = b[p].known /\ s.active = b[p].active /\ s.id = b[p].id
        /\ s.kept = b[p].kept
    BY AskedIs DEF BindInv, BindType
  <2>2. b' = [b EXCEPT ![p] = s] /\ wk' = wk /\ GoTo("final_wait") /\ ~b[p].active
    BY <1>2 DEF FinalizeAsksStop, Binding
  <2> HIDE DEF s
  <2>3. b'[p] = s
    BY <2>1, <2>2, OneChanges DEF BindInv
  <2>4. PolicyInv(p)'
    BY <2>1, <2>2, <2>3 DEF BindInv, PolicyInv, Running, Started
  <2>5. CtlType' /\ ctl'.at = "final_wait"
    BY <2>2, GoToIs DEF BindInv, CtlAt
  <2> QED
    BY <2>1, <2>2, <2>4, <2>5, FinalDone
<1>3. CASE FinalizeAfterStop(p)
  <2> DEFINE r == Wiped(b[p])
             s == [r EXCEPT !.exit = FALSE]
  <2>1. r \in BindRec /\ r.known = b[p].known /\ r.active = b[p].active /\ r.kept = b[p].kept
    BY WipedIs DEF BindInv, BindType
  <2>2. b' = [b EXCEPT ![p] = s] /\ wk' = wk /\ ctl' = [Done EXCEPT !.at = "finalize"] /\ ~Started(p)
    BY <1>3 DEF FinalizeAfterStop, Binding
  <2> HIDE DEF r
  <2>3. /\ s \in BindRec /\ s.known = b[p].known /\ s.active = b[p].active
        /\ s.kept = b[p].kept /\ ~s.exit
    BY <2>1, AskedIs
  <2> HIDE DEF s
  <2>4. b'[p] = s
    BY <2>2, <2>3, OneChanges DEF BindInv
  <2>5. PolicyInv(p)'
    BY <2>2, <2>3, <2>4 DEF BindInv, PolicyInv, Running, Started
  <2>6. CtlType' /\ ctl'.at = "finalize"
    BY <2>2, DoneIs DEF BindInv, CtlAt
  <2> QED
    BY <2>2, <2>3, <2>5, <2>6, FinalDone
<1>4. CASE FinalizeTimeout(p)
  <2>1. b' = b /\ wk' = wk /\ ctl' = [Done EXCEPT !.at = "finalize"]
    BY <1>4 DEF FinalizeTimeout
  <2>2. CtlType' /\ ctl'.at = "finalize"
    BY <2>1, DoneIs DEF BindInv, CtlAt
  <2> QED
    BY <2>1, <2>2 DEF BindInv, BindType, PolicyInv, Running, TodoInv
<1> QED
  BY <1>1, <1>2, <1>3, <1>4

(* The rest of the daemon's steps leave the bindings alone.                *)
LEMMA DaemonBinds ==
  ASSUME BindInv, NEW x \in CtlAt \ {"bind", "bind_wait"}, b' = b, wk' = wk,
         ctl' \in {[ctl EXCEPT !.at = x], [ctl EXCEPT !.at = x, !.up = TRUE]}
  PROVE  BindInv'
<1>1. CtlType' /\ ctl'.at = x
  BY DEF BindInv, CtlType
<1> QED
  BY <1>1 DEF BindInv, BindType, PolicyInv, Running, TodoInv

(* The requests of the lifetime tick are for policies, and it is idle when *)
(* it has none left.                                                       *)
TickInv ==
  /\ tick \in [at : {"idle", "ask", "rearm"}, asks : Seq([pol : Policy, key : Nat])]
  /\ tick.at = "idle" <=> tick.asks = <<>>

UsedInv == used \in [key : Nat, load : Nat, event : Nat] /\ used.key <= MaxKey

(* The counters only grow, and of keys by one at a time.                   *)
LEMMA UsedStep ==
  ASSUME UsedInv, [Next]_vars
  PROVE  UsedInv' /\ used'.key \in {used.key, used.key + 1}
<1>1. \/ used' = used \/ Count("load") \/ Count("event")
      \/ used.key < MaxKey /\ Count("key")
  <2>1. CASE BindingStep
    BY <2>1 DEF BindingStep, LoadStep, Load, BindPolicy, BindAsksStop, BindAfterStop,
       BindTimeout, BindFails, BindsDone, Finalize, FinalizeAsksStop, FinalizeAfterStop,
       FinalizeTimeout, Supervise, WorkerCopies, WorkerFails, WorkerPromotes, WorkerStages,
       WorkerDiscards, WorkerExits, TriggerRetry, Event
  <2>2. CASE \E p \in Policy : Tell(p) \/ Wipe(p) \/ ForgetPrev(p)
    BY <2>2 DEF Tell, Wipe, ForgetPrev, Forget
  <2>3. CASE LoadDone \/ StartAll \/ SyncSessionKeys \/ Snapshot \/ RebuildReset \/ RebuildFill
             \/ GraceEnds \/ GoBlank
    BY <2>3 DEF LoadDone, StartAll, SyncSessionKeys, Snapshot, RebuildReset, RebuildFill,
       GraceEnds, GoBlank, Blank, bvars
  <2>4. CASE \E w \in Worker, p \in Policy : LookByWireId(w, p) \/ LookByMatch(w, p)
    BY <2>4 DEF LookByWireId, LookByMatch, Looking, Event
  <2>5. CASE (\E w \in Worker : Use(w)) \/ LifetimeTick \/ TickAsks \/ TickRearms
    BY <2>5 DEF Use, LifetimeTick, TickAsks, TickRearms, Event, bvars
  <2>6. CASE UNCHANGED vars
    BY <2>6 DEF vars, bvars
  <2> QED
    BY <2>1, <2>2, <2>3, <2>4, <2>5, <2>6 DEF Next
<1> QED
  BY <1>1, BindingAssumption DEF UsedInv, Count

(* Every step keeps the invariant of the bindings.                         *)
LEMMA StepBinds ==
  ASSUME UsedInv, BindInv, TickInv, [Next]_vars
  PROVE  BindInv'
<1>1. CASE LoadStep
  BY <1>1, LoadBinds, BindPolicyBinds, BindAsksStopBinds, BindAfterStopBinds, BindTimeoutBinds,
     BindFailsBinds, BindsDoneBinds, FinalizeBinds DEF LoadStep
<1>2. ASSUME NEW p \in Policy, WorkerPromotes(p) PROVE BindInv'
  <2>1. \E k \in Nat : b' = [b EXCEPT ![p] = Success(@, k)]
    <3>1. used.key + 1 \in Nat /\ b[p].next \in Nat
      BY DEF UsedInv, BindInv, BindType, BindRec
    <3> QED
      BY <1>2, <3>1 DEF WorkerPromotes
  <2> QED
    BY <1>2, <2>1, PromotesBinds DEF WorkerPromotes
<1>3. ASSUME NEW p \in Policy, WorkerStages(p) PROVE BindInv'
  <2>1. used.key + 1 \in Nat
    BY DEF UsedInv
  <2> QED
    BY <1>3, <2>1, StagesBinds DEF WorkerStages
<1>4. ASSUME NEW p \in Policy, WorkerDiscards(p) \/ Tell(p) \/ Wipe(p) PROVE BindInv'
  <2>1. Running(p) /\ b' = b /\ ctl' = ctl
        /\ \E x \in {"run", "wipe", "forget"} : At(p, x)
    BY <1>4 DEF WorkerDiscards, Tell, Wipe, Running
  <2> QED
    BY <2>1, LoopsBinds
<1>5. ASSUME NEW p \in Policy, ForgetPrev(p) PROVE BindInv'
  BY <1>5, ForgetBinds DEF ForgetPrev
<1>6. CASE BindingStep
  BY <1>1, <1>2, <1>3, <1>4, <1>6, SuperviseBinds, CopiesBinds, FailsBinds, ExitsBinds, RetryBinds
     DEF BindingStep
<1>7. CASE LoadDone \/ SyncSessionKeys \/ Snapshot \/ RebuildReset \/ RebuildFill
  <2>1. b' = b /\ wk' = wk
    BY <1>7 DEF LoadDone, SyncSessionKeys, Snapshot, RebuildReset, RebuildFill
  <2>2. \E x \in CtlAt \ {"bind", "bind_wait"} :
          ctl' \in {[ctl EXCEPT !.at = x], [ctl EXCEPT !.at = x, !.up = TRUE]}
    BY <1>7 DEF LoadDone, SyncSessionKeys, Snapshot, RebuildReset, RebuildFill, GoTo, CtlAt, FirstOf
  <2> QED
    BY <2>1, <2>2, DaemonBinds
<1>8. CASE StartAll
  <2> DEFINE S == {p \in Policy : b[p].known}
  <2>1. S \in SUBSET Policy /\ (\A p \in S : b[p].known) /\ wk' = StartedOf(S) /\ b' = b
    BY <1>8 DEF StartAll, HandshakeStart
  <2>2. BindType' /\ \A p \in Policy : PolicyInv(p)'
    BY <2>1, StartsKeep
  <2>3. \E x \in {"snapshot", "sync"} : GoTo(x)
    BY <1>8 DEF StartAll
  <2>4. CtlType' /\ TodoInv'
    BY <2>3, GoToIs DEF BindInv, CtlAt, TodoInv
  <2> QED
    BY <2>2, <2>4 DEF BindInv
<1>9. CASE GoBlank
  BY <1>9, BlankBinds DEF GoBlank
<1>10. CASE TickAsks
  <2>1. tick.asks \in Seq([pol : Policy, key : Nat]) /\ tick.asks # <<>>
    BY <1>10 DEF TickAsks, TickInv
  <2>2. Head(tick.asks) \in [pol : Policy, key : Nat]
    BY <2>1, HeadTailProperties
  <2>3. Head(tick.asks).pol \in Policy
    BY <2>2
  <2> QED
    BY <1>10, <2>3, RequestBinds DEF TickAsks
<1>11. ASSUME UNCHANGED <<b, wk, ctl>> PROVE BindInv'
  BY <1>11 DEF BindInv, BindType, CtlType, PolicyInv, Running, TodoInv
<1>12. CASE GraceEnds \/ (\E w \in Worker : Use(w)) \/ LifetimeTick \/ TickRearms \/ UNCHANGED vars
            \/ (\E w \in Worker, p \in Policy : LookByWireId(w, p) \/ LookByMatch(w, p))
  BY <1>11, <1>12 DEF GraceEnds, Use, LifetimeTick, TickRearms, LookByWireId, LookByMatch, Looking,
     vars, bvars
<1> QED
  BY <1>4, <1>5, <1>6, <1>7, <1>8, <1>9, <1>10, <1>12 DEF Next

----------------------------------------------------------------------------
(* The packet contexts.                                                    *)

CtxRec ==
  [pol : Policy \cup {None}, ready : BOOLEAN, cur : Nat, prev : Nat, next : Nat, timed : Nat,
   sent : BOOLEAN]

(***************************************************************************)
(* What the updates of a context do to its fields.                         *)
(***************************************************************************)

(* A slot without a policy.                                                *)
LEMMA EmptyIs ==
  /\ EmptyCtx \in CtxRec /\ EmptyCtx.pol = None /\ ~EmptyCtx.ready /\ EmptyCtx.cur = None
  /\ EmptyCtx.prev = None /\ EmptyCtx.next = None /\ EmptyCtx.timed = None /\ ~EmptyCtx.sent
BY DEF EmptyCtx, CtxRec, None

(* A context made for a policy that had none.                              *)
LEMMA FreshIs ==
  ASSUME NEW p \in Policy
  PROVE  LET d == [EmptyCtx EXCEPT !.pol = p]
         IN  /\ d \in CtxRec /\ d.pol = p /\ d.cur = None /\ d.prev = None /\ d.next = None
             /\ d.timed = None /\ ~d.sent
BY DEF EmptyCtx, CtxRec, None

(* The clock follows the current key, and starts over with a new one.      *)
LEMMA OnKeyMaterialIs ==
  ASSUME NEW c \in CtxRec
  PROVE  LET d == OnKeyMaterial(c)
         IN  /\ d \in CtxRec
             /\ d.pol = c.pol /\ d.ready = c.ready
             /\ d.cur = c.cur /\ d.prev = c.prev /\ d.next = c.next
             /\ d.timed = d.cur
             /\ d.sent => c.sent /\ c.timed = d.timed
BY DEF OnKeyMaterial, StartClock, CtxRec, None

(* A refresh takes the keys of the binding, or leaves them.                *)
LEMMA RefreshedIs ==
  ASSUME BindType, NEW c \in CtxRec
  PROVE  LET d == Refreshed(c)
         IN  /\ d \in CtxRec
             /\ d.pol = c.pol /\ d.ready = c.ready
             /\ \/ d.pol # None /\ SameKeys(b[d.pol], d)
                \/ SameKeys(c, d)
             /\ d.timed = d.cur
             /\ d.sent => c.sent /\ c.timed = d.timed
<1>1. CASE c.pol # None /\ b[c.pol].known
  <2> DEFINE r == b[c.pol]
             e == [c EXCEPT !.cur = r.cur, !.prev = r.prev, !.next = r.next]
  <2>1. r \in BindRec
    BY <1>1 DEF BindType, CtxRec
  <2> HIDE DEF r
  <2>2. /\ e \in CtxRec /\ e.pol = c.pol /\ e.ready = c.ready /\ SameKeys(r, e)
        /\ e.sent = c.sent /\ e.timed = c.timed
    BY <2>1 DEF CtxRec, BindRec, SameKeys
  <2>3. Refreshed(c) = OnKeyMaterial(e)
    BY <1>1 DEF Refreshed, r
  <2> HIDE DEF e
  <2> QED
    BY <1>1, <2>2, <2>3, OnKeyMaterialIs DEF SameKeys, r
<1>2. CASE ~(c.pol # None /\ b[c.pol].known)
  <2>1. Refreshed(c) = OnKeyMaterial(c)
    BY <1>2 DEF Refreshed
  <2> QED
    BY <2>1, OnKeyMaterialIs DEF SameKeys
<1> QED
  BY <1>1, <1>2

(* One field of a context changes.                                         *)
LEMMA CtxFieldIs ==
  ASSUME NEW c \in CtxRec, NEW x \in BOOLEAN
  PROVE  /\ LET d == [c EXCEPT !.ready = x]
            IN  /\ d \in CtxRec /\ d.pol = c.pol /\ d.ready = x /\ SameKeys(c, d)
                /\ d.timed = c.timed /\ d.sent = c.sent
         /\ LET d == [c EXCEPT !.sent = x]
            IN  /\ d \in CtxRec /\ d.pol = c.pol /\ d.ready = c.ready /\ SameKeys(c, d)
                /\ d.timed = c.timed /\ d.sent = x
         /\ LET d == [c EXCEPT !.prev = None]
            IN  /\ d \in CtxRec /\ d.pol = c.pol /\ d.ready = c.ready
                /\ d.cur = c.cur /\ d.next = c.next /\ d.prev = None
                /\ d.timed = c.timed /\ d.sent = c.sent
BY DEF CtxRec, SameKeys, None

(* A configuration has no more policies than there are context slots.      *)
LEMMA CfgFits ==
  ASSUME NEW c \in Configs \cup {First, <<>>}
  PROVE  Len(c) \in Nat /\ 1..Len(c) \subseteq Slot /\ \A i \in 1..Len(c) : c[i].pol \in Policy
<1>1. c \in Seq(Entry) /\ \A i, j \in 1..Len(c) : c[i].pol = c[j].pol => i = j
  BY CfgIs
<1>2. Len(c) \in Nat /\ \A i \in 1..Len(c) : c[i] \in Entry
  BY <1>1
<1>3. \A i \in 1..Len(c) : c[i].pol \in Policy
  BY <1>2 DEF Entry
<1> DEFINE f == [i \in 1..Len(c) |-> c[i].pol]
<1>4. f \in Injection(1..Len(c), Policy)
  BY <1>1, <1>3 DEF Injection, IsInjective
<1>5. IsFiniteSet(Policy)
  BY BindingAssumption
<1> HIDE DEF f
<1>6. Cardinality(1..Len(c)) <= Cardinality(Policy)
  BY <1>4, <1>5, FS_Injection
<1>7. Cardinality(1..Len(c)) = Len(c)
  BY <1>2, FS_Interval
<1>8. Cardinality(Policy) \in Nat
  BY <1>5, FS_CardinalityType
<1> QED
  BY <1>2, <1>3, <1>6, <1>7, <1>8 DEF Slot

(***************************************************************************)
(* The contexts.                                                           *)
(***************************************************************************)

(* The clock of a context is the one of its current key; a context is in   *)
(* use when it has a policy, except while the rebuild holds the lock.      *)
CtxInv ==
  /\ ctx \in [Slot -> CtxRec]
  /\ \A i \in Slot :
       /\ ctx[i].timed = ctx[i].cur
       /\ ctx[i].ready => ctx[i].pol # None
       /\ ctx[i].sent => ctx[i].pol # None
       /\ ctl.at # "fill" /\ ctx[i].pol # None => ctx[i].ready

(* What a rebuild may fill a slot from.                                    *)
Origins ==
  {ctx[i] : i \in Slot} \cup {[EmptyCtx EXCEPT !.pol = p] : p \in Policy} \cup {EmptyCtx}

(* Where the keys of a context come from: the context it was made of, with *)
(* or without PREV, or the binding of its policy.                          *)
Tracks(c, d) ==
  /\ d.pol = c.pol /\ d.timed = d.cur
  /\ \/ SameKeys(c, d)
     \/ d.cur = c.cur /\ d.next = c.next /\ d.prev = None
     \/ d.pol # None /\ SameKeys(b[d.pol], d)

(* A context that is marked as asked for was so before, for the same key.  *)
SentFrom(c, d) == d.sent => c.sent /\ c.timed = d.timed

(* What is not one of the contexts is empty.                               *)
LEMMA OriginsIs ==
  ASSUME CtxInv, NEW c \in Origins
  PROVE  c \in CtxRec /\ c.timed = c.cur /\ (c.sent => c.pol # None)
         /\ (c \in {ctx[i] : i \in Slot} \/ (c.cur = None /\ c.prev = None /\ c.next = None /\ ~c.sent))
<1>1. CASE c \in {ctx[i] : i \in Slot}
  BY <1>1 DEF CtxInv
<1>2. CASE c \in {[EmptyCtx EXCEPT !.pol = p] : p \in Policy}
  BY <1>2, FreshIs
<1>3. CASE c = EmptyCtx
  BY <1>3, EmptyIs
<1> QED
  BY <1>1, <1>2, <1>3 DEF Origins

(* A context may stay where it is.                                         *)
LEMMA SlotOrigin ==
  ASSUME NEW i \in Slot
  PROVE  ctx[i] \in Origins
BY DEF Origins

(* A refresh of all contexts in use.                                       *)
LEMMA RefreshAllIs ==
  ASSUME BindType, CtxInv, RefreshAll
  PROVE  /\ ctx' \in [Slot -> CtxRec]
         /\ \A i \in Slot : /\ Tracks(ctx[i], ctx'[i]) /\ SentFrom(ctx[i], ctx'[i])
                            /\ ctx'[i].ready = ctx[i].ready
<1>1. \A i \in Slot : ctx'[i] = IF ctx[i].ready THEN Refreshed(ctx[i]) ELSE ctx[i]
  BY DEF RefreshAll
<1>2. ASSUME NEW i \in Slot
      PROVE  /\ ctx'[i] \in CtxRec /\ Tracks(ctx[i], ctx'[i]) /\ SentFrom(ctx[i], ctx'[i])
             /\ ctx'[i].ready = ctx[i].ready
  <2>1. ctx[i] \in CtxRec /\ ctx[i].timed = ctx[i].cur
    BY DEF CtxInv
  <2>2. CASE ctx[i].ready
    <3> DEFINE d == Refreshed(ctx[i])
    <3>1. /\ d \in CtxRec
          /\ d.pol = ctx[i].pol /\ d.ready = ctx[i].ready
          /\ \/ d.pol # None /\ SameKeys(b[d.pol], d)
             \/ SameKeys(ctx[i], d)
          /\ d.timed = d.cur
          /\ d.sent => ctx[i].sent /\ ctx[i].timed = d.timed
      BY <2>1, RefreshedIs
    <3>2. ctx'[i] = d
      BY <1>1, <2>2
    <3> HIDE DEF d
    <3> QED
      BY <3>1, <3>2 DEF Tracks, SentFrom
  <2>3. CASE ~ctx[i].ready
    BY <1>1, <2>1, <2>3 DEF Tracks, SentFrom, SameKeys
  <2> QED
    BY <2>2, <2>3
<1>3. ctx' \in [Slot -> CtxRec]
  BY <1>1, <1>2 DEF RefreshAll
<1> QED
  BY <1>2, <1>3

(* The first half of a discard; the generation moves if anything changed.  *)
LEMMA DiscardIs ==
  ASSUME CtxInv, NEW p \in Policy, DiscardMaster(p)
  PROVE  /\ ctx' \in [Slot -> CtxRec]
         /\ \A i \in Slot : /\ Tracks(ctx[i], ctx'[i]) /\ SentFrom(ctx[i], ctx'[i])
                            /\ ctx'[i].ready = ctx[i].ready
         /\ behind' = Worker \/ (ctx' = ctx /\ behind' = behind)
<1>1. \A i \in Slot : ctx'[i] = IF HasPrev(i, p) THEN [ctx[i] EXCEPT !.prev = None] ELSE ctx[i]
  BY DEF DiscardMaster
<1>2. ASSUME NEW i \in Slot
      PROVE  /\ ctx'[i] \in CtxRec /\ Tracks(ctx[i], ctx'[i]) /\ SentFrom(ctx[i], ctx'[i])
             /\ ctx'[i].ready = ctx[i].ready
  <2>1. ctx[i] \in CtxRec /\ ctx[i].timed = ctx[i].cur
    BY DEF CtxInv
  <2>2. CASE HasPrev(i, p)
    <3> DEFINE d == [ctx[i] EXCEPT !.prev = None]
    <3>1. /\ d \in CtxRec /\ d.pol = ctx[i].pol /\ d.ready = ctx[i].ready
          /\ d.cur = ctx[i].cur /\ d.next = ctx[i].next /\ d.prev = None
          /\ d.timed = ctx[i].timed /\ d.sent = ctx[i].sent
      BY <2>1, CtxFieldIs
    <3>2. ctx'[i] = d
      BY <1>1, <2>2
    <3> HIDE DEF d
    <3> QED
      BY <2>1, <3>1, <3>2 DEF Tracks, SentFrom
  <2>3. CASE ~HasPrev(i, p)
    BY <1>1, <2>1, <2>3 DEF Tracks, SentFrom, SameKeys
  <2> QED
    BY <2>2, <2>3
<1>3. ctx' \in [Slot -> CtxRec]
  BY <1>1, <1>2 DEF DiscardMaster
<1>4. behind' = Worker \/ (ctx' = ctx /\ behind' = behind)
  <2>1. CASE \E i \in Slot : HasPrev(i, p)
    BY <2>1 DEF DiscardMaster, Publish
  <2>2. CASE ~\E i \in Slot : HasPrev(i, p)
    BY <1>1, <1>3, <2>2 DEF DiscardMaster, CtxInv
  <2> QED
    BY <2>1, <2>2
<1> QED
  BY <1>2, <1>3, <1>4

(* The rebuild's reset takes every context out of use, and nothing else.   *)
LEMMA ResetIs ==
  ASSUME CtxInv, RebuildReset
  PROVE  /\ ctx' \in [Slot -> CtxRec]
         /\ \A i \in Slot : /\ Tracks(ctx[i], ctx'[i]) /\ SentFrom(ctx[i], ctx'[i])
                            /\ SameKeys(ctx[i], ctx'[i]) /\ ~ctx'[i].ready
<1>1. \A i \in Slot : ctx'[i] = [ctx[i] EXCEPT !.ready = FALSE]
  BY DEF RebuildReset
<1>2. ASSUME NEW i \in Slot
      PROVE  /\ ctx'[i] \in CtxRec /\ Tracks(ctx[i], ctx'[i]) /\ SentFrom(ctx[i], ctx'[i])
             /\ SameKeys(ctx[i], ctx'[i]) /\ ~ctx'[i].ready
  <2> DEFINE d == [ctx[i] EXCEPT !.ready = FALSE]
  <2>1. ctx[i] \in CtxRec /\ ctx[i].timed = ctx[i].cur
    BY DEF CtxInv
  <2>2. /\ d \in CtxRec /\ d.pol = ctx[i].pol /\ ~d.ready /\ SameKeys(ctx[i], d)
        /\ d.timed = ctx[i].timed /\ d.sent = ctx[i].sent
    BY <2>1, CtxFieldIs
  <2>3. ctx'[i] = d
    BY <1>1
  <2> HIDE DEF d
  <2> QED
    BY <2>1, <2>2, <2>3 DEF Tracks, SentFrom, SameKeys
<1>3. ctx' \in [Slot -> CtxRec]
  BY <1>1, <1>2 DEF RebuildReset
<1> QED
  BY <1>2, <1>3

(* A refused request clears the mark of that key.                          *)
LEMMA RearmIs ==
  ASSUME CtxInv, TickRearms
  PROVE  /\ ctx' \in [Slot -> CtxRec]
         /\ \A i \in Slot :
              /\ Tracks(ctx[i], ctx'[i]) /\ SentFrom(ctx[i], ctx'[i])
              /\ SameKeys(ctx[i], ctx'[i]) /\ ctx'[i].ready = ctx[i].ready
              /\ ctx'[i].sent /\ ctx[i].ready =>
                   ~(ctx[i].pol = Head(tick.asks).pol /\ ctx[i].timed = Head(tick.asks).key)
<1> DEFINE a == Head(tick.asks)
           M(i) == ctx[i].ready /\ ctx[i].pol = a.pol /\ ctx[i].timed = a.key
<1>1. \A i \in Slot : ctx'[i] = IF M(i) THEN [ctx[i] EXCEPT !.sent = FALSE] ELSE ctx[i]
  BY DEF TickRearms
<1>2. ASSUME NEW i \in Slot
      PROVE  /\ ctx'[i] \in CtxRec /\ Tracks(ctx[i], ctx'[i]) /\ SentFrom(ctx[i], ctx'[i])
             /\ SameKeys(ctx[i], ctx'[i]) /\ ctx'[i].ready = ctx[i].ready
             /\ ctx'[i].sent => ~M(i)
  <2> DEFINE d == [ctx[i] EXCEPT !.sent = FALSE]
  <2>1. ctx[i] \in CtxRec /\ ctx[i].timed = ctx[i].cur
    BY DEF CtxInv
  <2>2. /\ d \in CtxRec /\ d.pol = ctx[i].pol /\ d.ready = ctx[i].ready /\ SameKeys(ctx[i], d)
        /\ d.timed = ctx[i].timed /\ ~d.sent
    BY <2>1, CtxFieldIs
  <2>3. ctx'[i] = IF M(i) THEN d ELSE ctx[i]
    BY <1>1
  <2> HIDE DEF d, M
  <2> QED
    BY <2>1, <2>2, <2>3 DEF Tracks, SentFrom, SameKeys
<1>3. ctx' \in [Slot -> CtxRec]
  BY <1>1, <1>2 DEF TickRearms
<1> QED
  BY <1>2, <1>3

(* The sequence of a finite set holds each of its elements, and no other.  *)
LEMMA SetToSeqIs ==
  ASSUME NEW E, IsFiniteSet(E)
  PROVE  /\ Cardinality(E) \in Nat
         /\ SetToSeq(E) \in [1..Cardinality(E) -> E]
         /\ \A x \in E : \E k \in 1..Cardinality(E) : SetToSeq(E)[k] = x
<1> DEFINE D == 1..Cardinality(E)
<1>1. Cardinality(E) \in Nat /\ ExistsBijection(D, E)
  BY FS_CardinalityType
<1>2. \E f \in [D -> E] : IsInjective(f)
  BY <1>1 DEF ExistsBijection, Bijection, Injection
<1>3. SetToSeq(E) \in [D -> E] /\ IsInjective(SetToSeq(E))
  BY <1>2 DEF SetToSeq
<1> DEFINE s == SetToSeq(E)
<1>4. s \in Injection(D, E)
  BY <1>3 DEF Injection
<1> HIDE DEF s
<1>5. Cardinality(D) = Cardinality(E)
  BY <1>1, FS_Interval
<1>6. s \in Surjection(D, E)
  BY <1>4, <1>5, FS_Injection
<1> QED
  BY <1>1, <1>3, <1>6 DEF s, Surjection

(* The tick marks some contexts and has a request for each of them.        *)
LEMMA LifetimeIs ==
  ASSUME CtxInv, LifetimeTick
  PROVE  /\ ctx' \in [Slot -> CtxRec]
         /\ \A i \in Slot :
              /\ Tracks(ctx[i], ctx'[i]) /\ SameKeys(ctx[i], ctx'[i])
              /\ ctx'[i].ready = ctx[i].ready /\ ctx'[i].timed = ctx[i].timed
              /\ ctx'[i].sent => \/ ctx[i].sent
                                 \/ /\ ctx[i].pol # None
                                    /\ \E k \in 1..Len(tick'.asks) :
                                         tick'.asks[k] = [pol |-> ctx[i].pol, key |-> ctx[i].timed]
         /\ tick' \in [at : {"ask"}, asks : Seq([pol : Policy, key : Nat])]
         /\ tick'.asks # <<>>
<1>1. PICK E \in (SUBSET Overdue) \ {{}} :
          /\ ctx' = [i \in Slot |-> [ctx[i] EXCEPT !.sent = @ \/ i \in E]]
          /\ tick' = [at |-> "ask",
                      asks |-> [k \in 1..Cardinality(E) |->
                                  LET c == ctx[SetToSeq(E)[k]] IN [pol |-> c.pol, key |-> c.timed]]]
  BY DEF LifetimeTick
<1>2. IsFiniteSet(E)
  <2>1. IsFiniteSet(Slot)
    <3>1. Cardinality(Policy) \in Nat
      BY BindingAssumption, FS_CardinalityType
    <3> QED
      BY <3>1, FS_Interval DEF Slot
  <2> QED
    BY <2>1, FS_Subset DEF Overdue
<1> DEFINE n == Cardinality(E)
           s == SetToSeq(E)
           A == [k \in 1..n |-> [pol |-> ctx[s[k]].pol, key |-> ctx[s[k]].timed]]
<1>3. n \in Nat /\ s \in [1..n -> E] /\ \A x \in E : \E k \in 1..n : s[k] = x
  BY <1>2, SetToSeqIs
<1>4. tick' = [at |-> "ask", asks |-> A]
  BY <1>1
<1> HIDE DEF n, s
<1>5. \A i \in E : i \in Slot /\ ctx[i].pol \in Policy /\ ctx[i].timed \in Nat
  BY DEF Overdue, CtxInv, CtxRec
<1>6. \A k \in 1..n : A[k] \in [pol : Policy, key : Nat]
  BY <1>3, <1>5
<1>7. A \in Seq([pol : Policy, key : Nat]) /\ Len(A) = n
  BY <1>3, <1>6
<1>8. n # 0
  <2>1. PICK x \in E : TRUE
    BY <1>1
  <2> QED
    BY <1>3, <2>1
<1>9. A # <<>>
  BY <1>3, <1>7, <1>8, EmptySeq
<1>10. \A i \in E : \E k \in 1..Len(A) : A[k] = [pol |-> ctx[i].pol, key |-> ctx[i].timed]
  BY <1>3, <1>7
<1> HIDE DEF A
<1>11. ASSUME NEW i \in Slot
       PROVE  /\ ctx'[i] \in CtxRec /\ Tracks(ctx[i], ctx'[i]) /\ SameKeys(ctx[i], ctx'[i])
              /\ ctx'[i].ready = ctx[i].ready /\ ctx'[i].timed = ctx[i].timed
              /\ ctx'[i].sent => ctx[i].sent \/ i \in E
  <2>1. ctx[i] \in CtxRec /\ ctx[i].timed = ctx[i].cur
    BY DEF CtxInv
  <2>2. CASE i \in E
    <3> DEFINE d == [ctx[i] EXCEPT !.sent = TRUE]
    <3>1. ctx'[i] = d
      BY <1>1, <2>2
    <3>2. /\ d \in CtxRec /\ d.pol = ctx[i].pol /\ d.ready = ctx[i].ready /\ SameKeys(ctx[i], d)
          /\ d.timed = ctx[i].timed
      BY <2>1, CtxFieldIs
    <3> HIDE DEF d
    <3> QED
      BY <2>1, <2>2, <3>1, <3>2 DEF Tracks, SameKeys
  <2>3. CASE i \notin E
    <3>1. ctx'[i] = [ctx[i] EXCEPT !.sent = ctx[i].sent]
      BY <1>1, <2>1, <2>3 DEF CtxRec
    <3>2. ctx'[i] = ctx[i]
      BY <2>1, <3>1 DEF CtxRec
    <3> QED
      BY <2>1, <3>2 DEF Tracks, SameKeys
  <2> QED
    BY <2>2, <2>3
<1>12. ctx' \in [Slot -> CtxRec]
  BY <1>1, <1>11
<1>13. \A i \in E : ctx[i].pol # None
  BY DEF Overdue, CtxInv
<1>14. \A i \in Slot : ctx'[i].sent => \/ ctx[i].sent
                                 \/ /\ ctx[i].pol # None
                                    /\ \E k \in 1..Len(tick'.asks) :
                                         tick'.asks[k] = [pol |-> ctx[i].pol, key |-> ctx[i].timed]
  BY <1>4, <1>10, <1>11, <1>13
<1> QED
  BY <1>4, <1>7, <1>9, <1>11, <1>12, <1>14

(* The rebuild: every slot of the new configuration holds its policy.      *)
LEMMA FillIs ==
  ASSUME BindInv, CtxInv, RebuildFill
  PROVE  /\ ctx' \in [Slot -> CtxRec]
         /\ \A i \in Slot : /\ \E c \in Origins : Tracks(c, ctx'[i]) /\ SentFrom(c, ctx'[i])
                            /\ ctx'[i].ready <=> ctx'[i].pol # None
         /\ \A i \in 1..Len(ctl.cfg) : ctx'[i].pol = ctl.cfg[i].pol
<1> DEFINE c == ctl.cfg
<1>1. c \in Configs \cup {First, <<>>}
  BY DEF BindInv, CtlType
<1>2. Len(c) \in Nat /\ 1..Len(c) \subseteq Slot /\ \A i \in 1..Len(c) : c[i].pol \in Policy
  BY <1>1, CfgFits
<1>3. ctx' = Rebuilt(c)
  BY DEF RebuildFill, Rebuild
<1> HIDE DEF c
<1>4. \A i \in Slot : ctx'[i] = IF i <= Len(c) THEN [Refreshed(Reused(c[i].pol)) EXCEPT !.ready = TRUE]
                                ELSE EmptyCtx
  BY <1>3 DEF Rebuilt
<1>5. ASSUME NEW i \in Slot, i <= Len(c)
      PROVE  /\ ctx'[i] \in CtxRec /\ ctx'[i].pol = c[i].pol /\ ctx'[i].ready
             /\ \E o \in Origins : Tracks(o, ctx'[i]) /\ SentFrom(o, ctx'[i])
             /\ c[i].pol \in Policy
  <2> DEFINE p == c[i].pol
             o == Reused(p)
             e == Refreshed(o)
             d == [e EXCEPT !.ready = TRUE]
  <2>1. p \in Policy
    BY <1>2, <1>5 DEF Slot
  <2> HIDE DEF p
  <2>2. o \in Origins /\ o.pol = p
    <3>1. CASE \E j \in Slot : ctx[j].pol = p
      <4> DEFINE j == CHOOSE j \in Slot : ctx[j].pol = p
      <4>1. j \in Slot /\ ctx[j].pol = p
        BY <3>1
      <4>2. o = ctx[j]
        BY <3>1 DEF Reused
      <4> QED
        BY <4>1, <4>2 DEF Origins
    <3>2. CASE ~\E j \in Slot : ctx[j].pol = p
      <4>1. o = [EmptyCtx EXCEPT !.pol = p]
        BY <3>2 DEF Reused
      <4> QED
        BY <2>1, <4>1, FreshIs DEF Origins
    <3> QED
      BY <3>1, <3>2
  <2> HIDE DEF o
  <2>3. o \in CtxRec
    BY <2>2, OriginsIs
  <2>4. /\ e \in CtxRec /\ e.pol = o.pol
        /\ \/ e.pol # None /\ SameKeys(b[e.pol], e)
           \/ SameKeys(o, e)
        /\ e.timed = e.cur
        /\ e.sent => o.sent /\ o.timed = e.timed
    BY <2>3, RefreshedIs DEF BindInv
  <2>5. ctx'[i] = d
    BY <1>4, <1>5 DEF o, p
  <2> HIDE DEF e
  <2>6. /\ d \in CtxRec /\ d.pol = e.pol /\ d.ready /\ SameKeys(e, d)
        /\ d.timed = e.timed /\ d.sent = e.sent
    BY <2>4, CtxFieldIs
  <2> HIDE DEF d
  <2>7. Tracks(o, ctx'[i]) /\ SentFrom(o, ctx'[i])
    BY <2>4, <2>5, <2>6 DEF Tracks, SentFrom, SameKeys
  <2> QED
    BY <2>1, <2>2, <2>4, <2>5, <2>6, <2>7 DEF p
<1>6. ASSUME NEW i \in Slot, ~(i <= Len(c))
      PROVE  /\ ctx'[i] = EmptyCtx
             /\ \E o \in Origins : Tracks(o, ctx'[i]) /\ SentFrom(o, ctx'[i])
  <2>1. ctx'[i] = EmptyCtx
    BY <1>4, <1>6
  <2> QED
    BY <2>1, EmptyIs DEF Origins, Tracks, SentFrom, SameKeys
<1>7. \A p \in Policy : p # None
  BY BindingAssumption DEF None
<1>8. \A i \in Slot : ctx'[i] \in CtxRec
  BY <1>5, <1>6, EmptyIs
<1>9. ctx' \in [Slot -> CtxRec]
  BY <1>3, <1>8 DEF Rebuilt
<1>10. \A i \in 1..Len(c) : ctx'[i].pol = c[i].pol
  BY <1>2, <1>5
<1>11. \A i \in Slot : ctx'[i].ready <=> ctx'[i].pol # None
  BY <1>5, <1>6, <1>7, EmptyIs
<1> QED
  BY <1>5, <1>6, <1>9, <1>10, <1>11 DEF c

(***************************************************************************)
(* How a step moves the keys of the bindings.                              *)
(***************************************************************************)

(* No new key: a slot is left or cleared, and a binding that is ready has  *)
(* kept its current key and its rekey request.                             *)
Less(x, y) == y = x \/ y = None
Calm(r, s) ==
  /\ Less(r.cur, s.cur) /\ Less(r.prev, s.prev) /\ Less(r.next, s.next)
  /\ s.ready => r.ready /\ s.cur = r.cur /\ (r.rekey => s.rekey)
AllCalm == used'.key = used.key /\ \A q \in Policy : Calm(b[q], b'[q])

(* Or one binding takes its staged key, or a fresh one, or stages one.     *)
NewKey(p) ==
  /\ UNCHANGED cvars
  /\ \A q \in Policy : q # p => b'[q] = b[q]
  /\ \/ b[p].next # None /\ b'[p] = Success(b[p], b[p].next) /\ used'.key = used.key
     \/ b'[p] = Success(b[p], used.key + 1) /\ used'.key = used.key + 1
     \/ b'[p] = [b[p] EXCEPT !.next = used.key + 1] /\ used'.key = used.key + 1

(* The bindings stay.                                                      *)
LEMMA SameCalm ==
  ASSUME b' = b, used'.key = used.key
  PROVE  AllCalm
BY DEF AllCalm, Calm, Less

(* One binding changes calmly.                                             *)
LEMMA OneCalm ==
  ASSUME BindType, NEW p \in Policy, NEW s \in BindRec, b' = [b EXCEPT ![p] = s], Calm(b[p], s),
         used'.key = used.key
  PROVE  AllCalm
<1>1. b'[p] = s /\ \A q \in Policy : q # p => b'[q] = b[q]
  BY OneChanges
<1> QED
  BY <1>1 DEF AllCalm, Calm, Less

(* What the counters count.                                                *)
LEMMA CountIs ==
  ASSUME UsedInv
  PROVE  /\ Count("load") => used'.key = used.key
         /\ Count("event") => used'.key = used.key
         /\ Count("key") => used'.key = used.key + 1
         /\ Event => used'.key = used.key
BY DEF UsedInv, Count, Event

(* A load brings no keys.                                                  *)
LEMMA LoadCalm ==
  ASSUME UsedInv, BindInv, LoadStep
  PROVE  AllCalm
<1>1. ASSUME NEW c \in Configs, Load(c) PROVE AllCalm
  <2>1. \A q \in Policy : b'[q] = [b[q] EXCEPT !.active = FALSE, !.kept = FALSE]
    BY <1>1 DEF Load, Prepared
  <2>2. used'.key = used.key
    BY <1>1, CountIs DEF Load
  <2>3. \A q \in Policy : /\ SameKeys(b[q], b'[q]) /\ b'[q].ready = b[q].ready
                          /\ b'[q].rekey = b[q].rekey
    <3>1. SUFFICES ASSUME NEW q \in Policy
                   PROVE  /\ SameKeys(b[q], b'[q]) /\ b'[q].ready = b[q].ready
                          /\ b'[q].rekey = b[q].rekey
      OBVIOUS
    <3>2. b[q] \in BindRec
      BY DEF BindInv, BindType
    <3> QED
      BY <2>1, <3>2, ParkedIs
  <2> QED
    BY <2>2, <2>3 DEF AllCalm, Calm, Less, SameKeys
<1>2. ASSUME NEW e, BindPolicy(e) PROVE AllCalm
  <2>1. e \in Entry /\ e.pol \in Policy
    BY <1>2, TodoTail DEF BindInv, BindPolicy, Binding
  <2> DEFINE ch == Changed(e)
             s == Rebound(b[e.pol], e, ch)
  <2>2. ch \in BOOLEAN
    BY DEF Changed
  <2>3. b[e.pol] \in BindRec
    BY <2>1 DEF BindInv, BindType
  <2>4. b' = [b EXCEPT ![e.pol] = s] /\ used' = used
    BY <1>2 DEF BindPolicy
  <2> HIDE DEF ch
  <2>5. /\ s \in BindRec /\ SameKeys(b[e.pol], s)
        /\ ch => ~s.ready
        /\ ~ch => s.ready = b[e.pol].ready /\ s.rekey = b[e.pol].rekey
    BY <2>1, <2>2, <2>3, ReboundIs
  <2> HIDE DEF s
  <2>6. Calm(b[e.pol], s)
    BY <2>2, <2>5 DEF Calm, Less, SameKeys
  <2> QED
    BY <2>1, <2>4, <2>5, <2>6, OneCalm DEF BindInv
<1>3. ASSUME NEW e, BindAsksStop(e) PROVE AllCalm
  <2>1. e.pol \in Policy
    BY <1>3, TodoTail DEF BindInv, BindAsksStop, Binding
  <2> DEFINE s == [b[e.pol] EXCEPT !.exit = TRUE]
  <2>2. b' = [b EXCEPT ![e.pol] = s] /\ used' = used
    BY <1>3 DEF BindAsksStop
  <2>3. /\ s \in BindRec /\ SameKeys(b[e.pol], s) /\ s.ready = b[e.pol].ready
        /\ s.rekey = b[e.pol].rekey
    BY <2>1, AskedIs DEF BindInv, BindType
  <2> HIDE DEF s
  <2>4. Calm(b[e.pol], s)
    BY <2>3 DEF Calm, Less, SameKeys
  <2> QED
    BY <2>1, <2>2, <2>3, <2>4, OneCalm DEF BindInv
<1>4. ASSUME NEW e, BindAfterStop(e) PROVE AllCalm
  <2>1. e \in Entry /\ e.pol \in Policy
    BY <1>4, TodoTail DEF BindInv, BindAfterStop, Binding
  <2> DEFINE s == Rebound(b[e.pol], e, TRUE)
  <2>2. b' = [b EXCEPT ![e.pol] = s] /\ used' = used
    BY <1>4 DEF BindAfterStop
  <2>3. s \in BindRec /\ SameKeys(b[e.pol], s) /\ ~s.ready
    BY <2>1, ReboundIs DEF BindInv, BindType
  <2> HIDE DEF s
  <2>4. Calm(b[e.pol], s)
    BY <2>3 DEF Calm, Less, SameKeys
  <2> QED
    BY <2>1, <2>2, <2>3, <2>4, OneCalm DEF BindInv
<1>5. ASSUME NEW e, BindTimeout(e) PROVE AllCalm
  <2>1. e.pol \in Policy
    BY <1>5, TodoTail DEF BindInv, BindTimeout, Binding
  <2> DEFINE s == KeptBinding(b[e.pol], e)
  <2>2. b' = [b EXCEPT ![e.pol] = s] /\ used'.key = used.key
    BY <1>5, CountIs DEF BindTimeout
  <2>3. /\ s \in BindRec /\ SameKeys(b[e.pol], s) /\ s.ready = b[e.pol].ready
        /\ s.rekey = b[e.pol].rekey
    BY <2>1, KeptIs DEF BindInv, BindType
  <2> HIDE DEF s
  <2>4. Calm(b[e.pol], s)
    BY <2>3 DEF Calm, Less, SameKeys
  <2> QED
    BY <2>1, <2>2, <2>3, <2>4, OneCalm DEF BindInv
<1>6. ASSUME NEW e, BindFails(e) PROVE AllCalm
  BY <1>6, CountIs, SameCalm DEF BindFails
<1>7. ASSUME BindsDone PROVE AllCalm
  BY <1>7, SameCalm DEF BindsDone
<1>8. ASSUME NEW p \in Policy, Finalize(p) PROVE AllCalm
  <2> DEFINE s == Wiped(b[p])
  <2>1. b' = [b EXCEPT ![p] = s] /\ used' = used
    BY <1>8 DEF Finalize
  <2>2. s \in BindRec /\ s.cur = None /\ s.prev = None /\ s.next = None /\ ~s.ready
    BY WipedIs DEF BindInv, BindType
  <2> HIDE DEF s
  <2>3. Calm(b[p], s)
    BY <2>2 DEF Calm, Less
  <2> QED
    BY <2>1, <2>2, <2>3, OneCalm DEF BindInv
<1>9. ASSUME NEW p \in Policy, FinalizeAsksStop(p) PROVE AllCalm
  <2> DEFINE s == [b[p] EXCEPT !.exit = TRUE]
  <2>1. b' = [b EXCEPT ![p] = s] /\ used' = used
    BY <1>9 DEF FinalizeAsksStop
  <2>2. s \in BindRec /\ SameKeys(b[p], s) /\ s.ready = b[p].ready /\ s.rekey = b[p].rekey
    BY AskedIs DEF BindInv, BindType
  <2> HIDE DEF s
  <2>3. Calm(b[p], s)
    BY <2>2 DEF Calm, Less, SameKeys
  <2> QED
    BY <2>1, <2>2, <2>3, OneCalm DEF BindInv
<1>10. ASSUME NEW p \in Policy, FinalizeAfterStop(p) PROVE AllCalm
  <2> DEFINE r == Wiped(b[p])
             s == [r EXCEPT !.exit = FALSE]
  <2>1. b' = [b EXCEPT ![p] = s] /\ used' = used
    BY <1>10 DEF FinalizeAfterStop
  <2>2. r \in BindRec /\ r.cur = None /\ r.prev = None /\ r.next = None /\ ~r.ready
    BY WipedIs DEF BindInv, BindType
  <2> HIDE DEF r
  <2>3. s \in BindRec /\ SameKeys(r, s) /\ s.ready = r.ready
    BY <2>2, AskedIs
  <2> HIDE DEF s
  <2>4. Calm(b[p], s)
    BY <2>2, <2>3 DEF Calm, Less, SameKeys
  <2> QED
    BY <2>1, <2>3, <2>4, OneCalm DEF BindInv
<1>11. ASSUME NEW p \in Policy, FinalizeTimeout(p) PROVE AllCalm
  BY <1>11, CountIs, SameCalm DEF FinalizeTimeout
<1> QED
  BY <1>1, <1>2, <1>3, <1>4, <1>5, <1>6, <1>7, <1>8, <1>9, <1>10, <1>11 DEF LoadStep

(* Nor does an unload.                                                     *)
LEMMA BlankCalm ==
  ASSUME UsedInv, BindInv, Blank
  PROVE  AllCalm
<1>1. \A q \in Policy : b'[q] = [b[q] EXCEPT !.active = FALSE, !.kept = FALSE]
  BY DEF Blank, Prepared
<1>2. used'.key = used.key
  BY CountIs DEF Blank
<1>3. \A q \in Policy : /\ SameKeys(b[q], b'[q]) /\ b'[q].ready = b[q].ready
                        /\ b'[q].rekey = b[q].rekey
  <2>1. SUFFICES ASSUME NEW q \in Policy
                 PROVE  /\ SameKeys(b[q], b'[q]) /\ b'[q].ready = b[q].ready
                        /\ b'[q].rekey = b[q].rekey
    OBVIOUS
  <2>2. b[q] \in BindRec
    BY DEF BindInv, BindType
  <2> QED
    BY <1>1, <2>2, ParkedIs
<1> QED
  BY <1>2, <1>3 DEF AllCalm, Calm, Less, SameKeys

(* Nor the end of a worker.                                                *)
LEMMA ExitsCalm ==
  ASSUME BindInv, NEW p \in Policy, WorkerExits(p)
  PROVE  AllCalm
<1> DEFINE s == AfterExit(b[p])
<1>1. b' = [b EXCEPT ![p] = s] /\ used' = used
  BY DEF WorkerExits
<1>2. s \in BindRec /\ SameKeys(b[p], s) /\ s.ready = b[p].ready /\ s.rekey = b[p].rekey
  BY AfterExitIs DEF BindInv, BindType
<1> HIDE DEF s
<1>3. Calm(b[p], s)
  BY <1>2 DEF Calm, Less, SameKeys
<1> QED
  BY <1>1, <1>2, <1>3, OneCalm DEF BindInv

(* A manual retry drops the staged key and the session.                    *)
LEMMA RetryCalm ==
  ASSUME UsedInv, BindInv, NEW p \in Policy, TriggerRetry(p)
  PROVE  AllCalm
<1> DEFINE s == [b[p] EXCEPT !.ready = FALSE, !.next = None]
<1>1. b' = [b EXCEPT ![p] = s] /\ used'.key = used.key
  BY CountIs DEF TriggerRetry
<1>2. s \in BindRec /\ ~s.ready /\ s.cur = b[p].cur /\ s.prev = b[p].prev /\ s.next = None
  BY RetriedIs DEF BindInv, BindType
<1> HIDE DEF s
<1>3. Calm(b[p], s)
  BY <1>2 DEF Calm, Less
<1> QED
  BY <1>1, <1>2, <1>3, OneCalm DEF BindInv

(* The second half of a discard drops PREV.                                *)
LEMMA ForgetCalm ==
  ASSUME BindInv, NEW p \in Policy, Forget(p)
  PROVE  AllCalm /\ b'[p].prev = None
<1> DEFINE s == [b[p] EXCEPT !.prev = None]
<1>1. b' = [b EXCEPT ![p] = s] /\ used' = used
  BY DEF Forget
<1>2. None \in Nat
  BY DEF None
<1>3. /\ s \in BindRec /\ s.ready = b[p].ready /\ s.rekey = b[p].rekey
      /\ s.cur = b[p].cur /\ s.prev = None /\ s.next = b[p].next
  <2>1. b[p] \in BindRec
    BY DEF BindInv, BindType
  <2> QED
    BY <1>2, <2>1 DEF BindRec
<1> HIDE DEF s
<1>4. Calm(b[p], s)
  BY <1>3 DEF Calm, Less
<1> QED
  BY <1>1, <1>3, <1>4, OneCalm, OneChanges DEF BindInv

(* A request that is taken is remembered.                                  *)
LEMMA RequestCalm ==
  ASSUME BindInv, NEW p \in Policy, RequestNewSession(p), used' = used
  PROVE  AllCalm /\ (RequestTaken(p) => b'[p].rekey)
<1> DEFINE x == RequestTaken(p)
           s == [b[p] EXCEPT !.rekey = @ \/ x]
<1>0. x \in BOOLEAN
  BY DEF RequestTaken
<1>1. /\ s \in BindRec /\ s.ready = b[p].ready /\ (s.rekey <=> b[p].rekey \/ x)
      /\ SameKeys(b[p], s)
  BY <1>0, RekeyedIs DEF BindInv, BindType
<1>2. b' = [b EXCEPT ![p] = s]
  BY DEF RequestNewSession
<1> HIDE DEF s
<1>3. Calm(b[p], s)
  BY <1>1 DEF Calm, Less, SameKeys
<1> QED
  BY <1>1, <1>2, <1>3, OneCalm, OneChanges DEF BindInv

(* The policy of a request.                                                *)
LEMMA AskIs ==
  ASSUME TickInv, tick.at # "idle"
  PROVE  /\ tick.asks \in Seq([pol : Policy, key : Nat]) /\ tick.asks # <<>>
         /\ Len(tick.asks) \in Nat /\ Len(tick.asks) > 0
         /\ Head(tick.asks) = tick.asks[1] /\ tick.asks[1].pol \in Policy
         /\ Tail(tick.asks) \in Seq([pol : Policy, key : Nat])
         /\ Len(Tail(tick.asks)) = Len(tick.asks) - 1
         /\ \A k \in 1..Len(Tail(tick.asks)) : Tail(tick.asks)[k] = tick.asks[k + 1]
<1>1. tick.asks \in Seq([pol : Policy, key : Nat]) /\ tick.asks # <<>>
  BY DEF TickInv
<1>2. Len(tick.asks) \in Nat /\ Len(tick.asks) > 0
  BY <1>1, EmptySeq
<1>3. tick.asks[1] \in [pol : Policy, key : Nat]
  <2>1. 1 \in 1..Len(tick.asks)
    BY <1>2
  <2> QED
    BY <1>1, <2>1, ElementOfSeq
<1>4. tick.asks[1].pol \in Policy
  BY <1>3
<1>5. /\ Head(tick.asks) = tick.asks[1]
      /\ Tail(tick.asks) \in Seq([pol : Policy, key : Nat])
      /\ Len(Tail(tick.asks)) = Len(tick.asks) - 1
      /\ \A k \in 1..Len(Tail(tick.asks)) : Tail(tick.asks)[k] = tick.asks[k + 1]
  BY <1>1, HeadTailProperties
<1> QED
  BY <1>1, <1>2, <1>4, <1>5

(* A step either brings one key to one binding, or none to any.            *)
LEMMA KeyMoves ==
  ASSUME UsedInv, BindInv, TickInv, [Next]_vars
  PROVE  AllCalm \/ \E p \in Policy : NewKey(p)
<1>1. CASE LoadStep
  BY <1>1, LoadCalm
<1>2. ASSUME NEW p \in Policy, WorkerPromotes(p), UNCHANGED cvars PROVE NewKey(p)
  <2>1. CASE b[p].next # None /\ b' = [b EXCEPT ![p] = Success(@, @.next)] /\ UNCHANGED used
    <3> DEFINE s == Success(b[p], b[p].next)
    <3>1. s \in BindRec
      BY SuccessIs DEF BindInv, BindType, BindRec
    <3>2. b' = [b EXCEPT ![p] = s]
      BY <2>1
    <3> HIDE DEF s
    <3>3. b'[p] = s /\ \A q \in Policy : q # p => b'[q] = b[q]
      BY <3>1, <3>2, OneChanges DEF BindInv
    <3> QED
      BY <1>2, <2>1, <3>3 DEF NewKey, s
  <2>2. CASE Count("key") /\ b' = [b EXCEPT ![p] = Success(@, used.key + 1)]
    <3> DEFINE s == Success(b[p], used.key + 1)
    <3>0. used.key + 1 \in Nat /\ used'.key = used.key + 1
      BY <2>2, CountIs DEF UsedInv
    <3>1. s \in BindRec
      BY <3>0, SuccessIs DEF BindInv, BindType
    <3>2. b' = [b EXCEPT ![p] = s]
      BY <2>2
    <3> HIDE DEF s
    <3>3. b'[p] = s /\ \A q \in Policy : q # p => b'[q] = b[q]
      BY <3>1, <3>2, OneChanges DEF BindInv
    <3> QED
      BY <1>2, <3>0, <3>3 DEF NewKey, s
  <2> QED
    BY <1>2, <2>1, <2>2 DEF WorkerPromotes
<1>3. ASSUME NEW p \in Policy, WorkerStages(p), UNCHANGED cvars PROVE NewKey(p)
  <2> DEFINE s == [b[p] EXCEPT !.next = used.key + 1]
  <2>0. used.key + 1 \in Nat /\ used'.key = used.key + 1
    BY <1>3, CountIs DEF UsedInv, WorkerStages
  <2>1. s \in BindRec
    BY <2>0, SlotsIs DEF BindInv, BindType
  <2>2. b' = [b EXCEPT ![p] = s]
    BY <1>3 DEF WorkerStages
  <2> HIDE DEF s
  <2>3. b'[p] = s /\ \A q \in Policy : q # p => b'[q] = b[q]
    BY <2>1, <2>2, OneChanges DEF BindInv
  <2> QED
    BY <1>3, <2>0, <2>3 DEF NewKey, s
<1>4. ASSUME NEW p \in Policy, WorkerCopies(p) \/ WorkerFails(p) \/ WorkerDiscards(p) \/ Supervise
      PROVE AllCalm
  BY <1>4, CountIs, SameCalm DEF WorkerCopies, WorkerFails, WorkerDiscards, Supervise
<1>5. CASE BindingStep
  <2>1. CASE LoadStep
    BY <1>1, <2>1
  <2>2. CASE Supervise
    BY <2>2, SameCalm DEF Supervise
  <2> QED
    BY <1>2, <1>3, <1>4, <1>5, <2>1, <2>2, ExitsCalm, RetryCalm DEF BindingStep
<1>6. ASSUME NEW p \in Policy, Tell(p) \/ Wipe(p) \/ ForgetPrev(p) PROVE AllCalm
  BY <1>6, SameCalm, ForgetCalm DEF Tell, Wipe, ForgetPrev
<1>7. CASE LoadDone \/ StartAll \/ SyncSessionKeys \/ Snapshot \/ RebuildReset \/ RebuildFill
           \/ GraceEnds
  BY <1>7, SameCalm DEF LoadDone, StartAll, SyncSessionKeys, Snapshot, RebuildReset, RebuildFill,
     GraceEnds, bvars
<1>8. CASE GoBlank
  BY <1>8, BlankCalm DEF GoBlank
<1>9. ASSUME NEW w \in Worker, NEW p \in Policy, LookByWireId(w, p) \/ LookByMatch(w, p)
      PROVE  AllCalm
  BY <1>9, SameCalm, CountIs DEF LookByWireId, LookByMatch, Looking
<1>10. CASE (\E w \in Worker : Use(w)) \/ LifetimeTick \/ TickRearms
  BY <1>10, SameCalm, CountIs DEF Use, LifetimeTick, TickRearms, bvars
<1>11. CASE TickAsks
  BY <1>11, AskIs, RequestCalm DEF TickAsks
<1>12. CASE UNCHANGED vars
  BY <1>12, SameCalm DEF vars, bvars
<1> QED
  BY <1>5, <1>6, <1>7, <1>8, <1>9, <1>10, <1>11, <1>12 DEF Next

(***************************************************************************)
(* How a step moves the contexts.                                          *)
(***************************************************************************)

(* The steps that leave the contexts alone; only the rebuild itself ends   *)
(* its critical section.                                                   *)
LEMMA CtxRests ==
  ASSUME BindInv, [Next]_vars
  PROVE  \/ ctx' = ctx /\ (ctl'.at # "fill" => ctl.at # "fill")
         \/ \E p \in Policy : Tell(p) \/ Wipe(p)
         \/ SyncSessionKeys \/ RebuildReset \/ RebuildFill \/ LifetimeTick \/ TickRearms
<1>1. CASE BindingStep
  <2>1. ctx' = ctx
    BY <1>1 DEF BindingStep, cvars
  <2>2. CASE LoadStep
    <3>1. ctl.at \in {"idle", "bind", "bind_wait", "finalize", "final_wait"}
      BY <2>2 DEF LoadStep, Load, BindPolicy, BindAsksStop, BindAfterStop, BindTimeout, BindFails,
         BindsDone, Finalize, FinalizeAsksStop, FinalizeAfterStop, FinalizeTimeout, Binding
    <3> QED
      BY <2>1, <3>1
  <2>3. CASE ctl' = ctl
    BY <2>1, <2>3
  <2> QED
    BY <1>1, <2>2, <2>3 DEF BindingStep, Supervise, WorkerCopies, WorkerFails, WorkerPromotes,
       WorkerStages, WorkerDiscards, WorkerExits, TriggerRetry
<1>2. ASSUME NEW p \in Policy, ForgetPrev(p) PROVE ctx' = ctx /\ ctl' = ctl
  BY <1>2 DEF ForgetPrev, Forget
<1>3. CASE LoadDone \/ StartAll \/ Snapshot
  BY <1>3 DEF LoadDone, StartAll, Snapshot, cvars
<1>4. CASE GraceEnds \/ (\E w \in Worker : Use(w)) \/ TickAsks
           \/ (\E w \in Worker, p \in Policy : LookByWireId(w, p) \/ LookByMatch(w, p))
  BY <1>4 DEF GraceEnds, Use, TickAsks, LookByWireId, LookByMatch, Looking, bvars
<1>5. CASE GoBlank
  BY <1>5 DEF GoBlank, Blank
<1>6. CASE UNCHANGED vars
  BY <1>6 DEF vars, bvars, cvars
<1> QED
  BY <1>1, <1>2, <1>3, <1>4, <1>5, <1>6 DEF Next

(* Every context comes from one that was there, from nothing, or from the  *)
(* binding of its policy.                                                  *)
CtxMove ==
  /\ b' = b /\ used'.key = used.key /\ gone' = gone
  /\ \A i \in Slot : \E c \in Origins : Tracks(c, ctx'[i])

(* Every step keeps the contexts in order, and moves them if at all as     *)
(* above.                                                                  *)
LEMMA CtxStep ==
  ASSUME UsedInv, BindInv, CtxInv, [Next]_vars
  PROVE  CtxInv' /\ (ctx' = ctx \/ CtxMove)
<1> DEFINE P(i) ==
      /\ ctx'[i].pol = ctx[i].pol /\ ctx'[i].timed = ctx'[i].cur
      /\ ctx'[i].ready => ctx[i].ready
      /\ ctx'[i].sent => ctx[i].sent \/ ctx[i].pol # None
      /\ \E c \in Origins : Tracks(c, ctx'[i])
<1>1. ASSUME ctx' \in [Slot -> CtxRec], \A i \in Slot : P(i),
             ctl'.at = "fill" \/ (ctl.at # "fill" /\ \A i \in Slot : ctx'[i].ready = ctx[i].ready),
             b' = b, used'.key = used.key, gone' = gone
      PROVE  CtxInv' /\ CtxMove
  <2>1. CtxMove
    BY <1>1 DEF CtxMove
  <2>2. CtxInv'
    BY <1>1 DEF CtxInv
  <2> QED
    BY <2>1, <2>2
<1>2. \A i \in Slot : ctx[i] \in Origins
  BY SlotOrigin
<1>3. ASSUME NEW i \in Slot, Tracks(ctx[i], ctx'[i]), SentFrom(ctx[i], ctx'[i]),
             ctx'[i].ready => ctx[i].ready
      PROVE  P(i)
  BY <1>2, <1>3 DEF Tracks, SentFrom
<1>4. ASSUME NEW p \in Policy, Tell(p) PROVE CtxInv' /\ CtxMove
  <2>1. RefreshAll /\ ctl' = ctl /\ b' = b /\ used' = used /\ gone' = gone /\ ctl.at # "fill"
    BY <1>4 DEF Tell, Unlocked
  <2>2. /\ ctx' \in [Slot -> CtxRec]
        /\ \A i \in Slot : /\ Tracks(ctx[i], ctx'[i]) /\ SentFrom(ctx[i], ctx'[i])
                           /\ ctx'[i].ready = ctx[i].ready
    BY <2>1, RefreshAllIs DEF BindInv
  <2>3. \A i \in Slot : P(i)
    BY <1>3, <2>2
  <2> QED
    BY <1>1, <2>1, <2>2, <2>3
<1>5. ASSUME NEW p \in Policy, Wipe(p) PROVE CtxInv' /\ CtxMove
  <2>1. DiscardMaster(p) /\ ctl' = ctl /\ b' = b /\ used' = used /\ gone' = gone /\ ctl.at # "fill"
    BY <1>5 DEF Wipe, Unlocked
  <2>2. /\ ctx' \in [Slot -> CtxRec]
        /\ \A i \in Slot : /\ Tracks(ctx[i], ctx'[i]) /\ SentFrom(ctx[i], ctx'[i])
                           /\ ctx'[i].ready = ctx[i].ready
    BY <2>1, DiscardIs
  <2>3. \A i \in Slot : P(i)
    BY <1>3, <2>2
  <2> QED
    BY <1>1, <2>1, <2>2, <2>3
<1>6. CASE SyncSessionKeys
  <2>1. RefreshAll /\ b' = b /\ used' = used /\ gone' = gone /\ ctl.at = "sync"
    BY <1>6 DEF SyncSessionKeys
  <2>2. /\ ctx' \in [Slot -> CtxRec]
        /\ \A i \in Slot : /\ Tracks(ctx[i], ctx'[i]) /\ SentFrom(ctx[i], ctx'[i])
                           /\ ctx'[i].ready = ctx[i].ready
    BY <2>1, RefreshAllIs DEF BindInv
  <2>3. \A i \in Slot : P(i)
    BY <1>3, <2>2
  <2> QED
    BY <1>1, <2>1, <2>2, <2>3
<1>7. CASE RebuildReset
  <2>1. ctl'.at = "fill" /\ b' = b /\ used' = used /\ gone' = gone
    BY <1>7 DEF RebuildReset, GoTo, BindInv, CtlType
  <2>2. /\ ctx' \in [Slot -> CtxRec]
        /\ \A i \in Slot : /\ Tracks(ctx[i], ctx'[i]) /\ SentFrom(ctx[i], ctx'[i])
                           /\ ~ctx'[i].ready
    BY <1>7, ResetIs
  <2>3. \A i \in Slot : P(i)
    BY <1>3, <2>2
  <2> QED
    BY <1>1, <2>1, <2>2, <2>3
<1>8. CASE RebuildFill
  <2>1. b' = b /\ used' = used /\ gone' = gone
    BY <1>8 DEF RebuildFill
  <2>2. /\ ctx' \in [Slot -> CtxRec]
        /\ \A i \in Slot : /\ \E c \in Origins : Tracks(c, ctx'[i]) /\ SentFrom(c, ctx'[i])
                           /\ ctx'[i].ready <=> ctx'[i].pol # None
    BY <1>8, FillIs
  <2>3. \A i \in Slot : ctx'[i].timed = ctx'[i].cur /\ (ctx'[i].sent => ctx'[i].pol # None)
    BY <2>2, OriginsIs DEF Tracks, SentFrom
  <2> QED
    BY <2>1, <2>2, <2>3 DEF CtxInv, CtxMove
<1>9. CASE LifetimeTick
  <2>1. ctl' = ctl /\ b' = b /\ used'.key = used.key /\ gone' = gone /\ ctl.at # "fill"
    BY <1>9, CountIs DEF LifetimeTick, Unlocked
  <2>2. /\ ctx' \in [Slot -> CtxRec]
        /\ \A i \in Slot : /\ Tracks(ctx[i], ctx'[i]) /\ ctx'[i].ready = ctx[i].ready
                           /\ ctx'[i].sent => ctx[i].sent \/ ctx[i].pol # None
    BY <1>9, LifetimeIs
  <2>3. \A i \in Slot : P(i)
    BY <1>2, <2>2 DEF Tracks
  <2> QED
    BY <1>1, <2>1, <2>2, <2>3
<1>10. CASE TickRearms
  <2>1. ctl' = ctl /\ b' = b /\ used' = used /\ gone' = gone /\ ctl.at # "fill"
    BY <1>10 DEF TickRearms, Unlocked, bvars
  <2>2. /\ ctx' \in [Slot -> CtxRec]
        /\ \A i \in Slot : /\ Tracks(ctx[i], ctx'[i]) /\ SentFrom(ctx[i], ctx'[i])
                           /\ ctx'[i].ready = ctx[i].ready
    BY <1>10, RearmIs
  <2>3. \A i \in Slot : P(i)
    BY <1>3, <2>2
  <2> QED
    BY <1>1, <2>1, <2>2, <2>3
<1>11. CASE ctx' = ctx /\ (ctl'.at # "fill" => ctl.at # "fill")
  BY <1>11 DEF CtxInv
<1> QED
  BY <1>4, <1>5, <1>6, <1>7, <1>8, <1>9, <1>10, <1>11, CtxRests

(* The tick's requests.                                                    *)
LEMMA NextAskIs ==
  ASSUME TickInv, tick.at # "idle", tick' = NextAsk
  PROVE  TickInv' /\ tick'.asks = Tail(tick.asks)
<1>1. /\ tick.asks \in Seq([pol : Policy, key : Nat]) /\ Len(tick.asks) \in Nat
      /\ Len(tick.asks) > 0
      /\ Tail(tick.asks) \in Seq([pol : Policy, key : Nat])
      /\ Len(Tail(tick.asks)) = Len(tick.asks) - 1
  BY AskIs
<1>2. Len(tick.asks) = 1 <=> Tail(tick.asks) = <<>>
  <2> DEFINE u == Tail(tick.asks)
  <2>1. u = <<>> => Len(u) = 0
    BY EmptySeq
  <2>2. u # <<>> => Len(u) \in Nat \ {0}
    BY <1>1, EmptySeq
  <2> HIDE DEF u
  <2>3. Len(u) = Len(tick.asks) - 1
    BY <1>1 DEF u
  <2> QED
    BY <1>1, <2>1, <2>2, <2>3 DEF u
<1>3. /\ tick'.at = (IF Len(tick.asks) = 1 THEN "idle" ELSE "ask")
      /\ tick'.asks = Tail(tick.asks)
      /\ tick' \in [at : {"idle", "ask"}, asks : {Tail(tick.asks)}]
  BY DEF NextAsk
<1> QED
  BY <1>1, <1>2, <1>3 DEF TickInv

(* Every step keeps the requests in order.                                 *)
LEMMA TickStep ==
  ASSUME CtxInv, TickInv, [Next]_vars
  PROVE  TickInv'
<1>1. CASE tick' = tick
  BY <1>1 DEF TickInv
<1>2. CASE LifetimeTick
  <2>1. tick' \in [at : {"ask"}, asks : Seq([pol : Policy, key : Nat])] /\ tick'.asks # <<>>
    BY <1>2, LifetimeIs
  <2> QED
    BY <2>1 DEF TickInv
<1>3. CASE TickAsks
  <2>1. tick.at = "ask" /\ (tick' = NextAsk \/ tick' = [tick EXCEPT !.at = "rearm"])
    BY <1>3 DEF TickAsks
  <2>2. CASE tick' = NextAsk
    BY <2>1, <2>2, NextAskIs
  <2>3. CASE tick' = [tick EXCEPT !.at = "rearm"]
    BY <2>1, <2>3 DEF TickInv
  <2> QED
    BY <2>1, <2>2, <2>3
<1>4. CASE TickRearms
  BY <1>4, NextAskIs DEF TickRearms
<1> QED
  BY <1>1, <1>2, <1>3, <1>4 DEF Next, BindingStep, cvars, Tell, Wipe, ForgetPrev, LoadDone, StartAll,
     SyncSessionKeys, Snapshot, RebuildReset, RebuildFill, GraceEnds, GoBlank, LookByWireId,
     LookByMatch, Looking, Use, vars

(***************************************************************************)
(* The keys.                                                               *)
(***************************************************************************)

Distinct(r) ==
  /\ r.cur # None => r.cur # r.prev /\ r.cur # r.next
  /\ r.next # None => r.next # r.prev

(* No key is in two slots of the bindings; a discarded one is in none, and *)
(* in no context; a staged key is not yet the current one of the context.  *)
KeyInv ==
  /\ gone \subseteq 1..used.key
  /\ \A p \in Policy : /\ Distinct(b[p]) /\ Keys(b[p]) \subseteq 1..used.key
                       /\ Keys(b[p]) \cap gone = {}
  /\ \A p, q \in Policy : p # q => Keys(b[p]) \cap Keys(b[q]) = {}
  /\ \A i \in Slot : /\ Keys(ctx[i]) \subseteq 1..used.key
                     /\ Keys(ctx[i]) \cap gone = {}
                     /\ ctx[i].pol # None /\ b[ctx[i].pol].next # None =>
                          b[ctx[i].pol].next # ctx[i].cur

(* Without a new key the slots only lose keys.                             *)
LEMMA CalmKeys ==
  ASSUME NEW r \in BindRec, NEW s \in BindRec, Calm(r, s)
  PROVE  /\ Keys(s) \subseteq Keys(r)
         /\ Distinct(r) => Distinct(s)
         /\ s.next # None => s.next = r.next
BY DEF Calm, Less, Keys, Distinct

(* A key that is not in the other slots moves into one.                    *)
LEMMA PromotedKeys ==
  ASSUME NEW r \in BindRec, Distinct(r), NEW k \in Nat, k # None, k # r.cur
  PROVE  LET s == Success(r, k)
         IN  /\ Keys(s) \subseteq Keys(r) \cup {k}
             /\ Distinct(s) /\ s.next = None
<1> DEFINE s == Success(r, k)
<1>1. s.prev = r.cur /\ s.cur = k /\ s.next = None
  BY SuccessIs
<1> HIDE DEF s
<1>2. Keys(s) \subseteq Keys(r) \cup {k} /\ Distinct(s) /\ s.next = None
  BY <1>1 DEF Keys, Distinct
<1> QED
  BY <1>2 DEF s

(* The same for a staged key.                                              *)
LEMMA StagedKeys ==
  ASSUME NEW r \in BindRec, Distinct(r), NEW k \in Nat, k # None, k # r.cur, k # r.prev
  PROVE  LET s == [r EXCEPT !.next = k]
         IN  Keys(s) \subseteq Keys(r) \cup {k} /\ Distinct(s) /\ s.next = k
<1> DEFINE s == [r EXCEPT !.next = k]
<1>1. s.prev = r.prev /\ s.cur = r.cur /\ s.next = k
  BY SlotsIs
<1> HIDE DEF s
<1>2. Keys(s) \subseteq Keys(r) \cup {k} /\ Distinct(s) /\ s.next = k
  BY <1>1 DEF Keys, Distinct
<1> QED
  BY <1>2 DEF s

(* The keys of a context are among those it was made of, or its binding's. *)
LEMMA TrackedKeys ==
  ASSUME NEW c \in CtxRec, NEW d \in CtxRec, Tracks(c, d)
  PROVE  \/ Keys(d) \subseteq Keys(c) /\ d.cur = c.cur
         \/ d.pol # None /\ Keys(d) = Keys(b[d.pol]) /\ d.cur = b[d.pol].cur
BY DEF Tracks, SameKeys, Keys

(* What a step that brings a key leaves behind.                            *)
LEMMA NewKeyIs ==
  ASSUME UsedInv, BindInv, KeyInv, NEW p \in Policy, NewKey(p), BindInv'
  PROVE  \E k \in Nat :
           /\ used.key <= used'.key /\ used'.key \in Nat
           /\ k # None /\ k <= used'.key /\ (k = b[p].next \/ k = used.key + 1)
           /\ Keys(b'[p]) \subseteq Keys(b[p]) \cup {k} /\ Distinct(b'[p])
           /\ b'[p].next # None => b'[p].next = used.key + 1
<1>1. b[p] \in BindRec /\ Distinct(b[p]) /\ Keys(b[p]) \subseteq 1..used.key /\ used.key \in Nat
  BY DEF BindInv, BindType, KeyInv, UsedInv
<1>2. b[p].cur <= used.key /\ b[p].prev <= used.key /\ b[p].next <= used.key
  BY <1>1 DEF Keys, BindRec, None
<1>3. CASE b[p].next # None /\ b'[p] = Success(b[p], b[p].next) /\ used'.key = used.key
  <2>1. b[p].next \in Nat /\ b[p].next # b[p].cur
    BY <1>1, <1>3 DEF BindRec, Distinct
  <2> QED
    BY <1>1, <1>2, <1>3, <2>1, PromotedKeys
<1>4. CASE b'[p] = Success(b[p], used.key + 1) /\ used'.key = used.key + 1
  <2>1. used.key + 1 \in Nat /\ used.key + 1 # None /\ used.key + 1 # b[p].cur
    BY <1>1, <1>2 DEF None, BindRec
  <2> QED
    BY <1>1, <1>2, <1>4, <2>1, PromotedKeys
<1>5. CASE b'[p] = [b[p] EXCEPT !.next = used.key + 1] /\ used'.key = used.key + 1
  <2>1. used.key + 1 \in Nat /\ used.key + 1 # None /\ used.key + 1 # b[p].cur
        /\ used.key + 1 # b[p].prev
    BY <1>1, <1>2 DEF None, BindRec
  <2> QED
    BY <1>1, <1>2, <1>5, <2>1, StagedKeys
<1> QED
  BY <1>3, <1>4, <1>5 DEF NewKey

(* A new key is in no other slot, and was never discarded.                 *)
LEMMA NewKeyKeeps ==
  ASSUME UsedInv, BindInv, CtxInv, KeyInv, NEW p \in Policy, NewKey(p), BindInv'
  PROVE  KeyInv'
<1>1. ctx' = ctx /\ gone' = gone /\ \A q \in Policy : q # p => b'[q] = b[q]
  BY DEF NewKey, cvars
<1>2. PICK k \in Nat :
        /\ used.key <= used'.key /\ used'.key \in Nat
        /\ k # None /\ k <= used'.key /\ (k = b[p].next \/ k = used.key + 1)
        /\ Keys(b'[p]) \subseteq Keys(b[p]) \cup {k} /\ Distinct(b'[p])
        /\ b'[p].next # None => b'[p].next = used.key + 1
  BY NewKeyIs
<1>3. used.key \in Nat
  BY DEF UsedInv
<1>4. 1..used.key \subseteq 1..used'.key /\ k \in 1..used'.key
  BY <1>2, <1>3 DEF None
<1>5. k \in Keys(b[p]) \/ k \notin 1..used.key
  BY <1>2, <1>3 DEF Keys
<1>6. \A q \in Policy : /\ Distinct(b'[q]) /\ Keys(b'[q]) \subseteq 1..used'.key
                        /\ Keys(b'[q]) \cap gone = {}
  BY <1>1, <1>2, <1>4, <1>5 DEF KeyInv
<1>7. ASSUME NEW q \in Policy, q # p
      PROVE  Keys(b'[p]) \cap Keys(b'[q]) = {}
  <2>1. Keys(b[p]) \cap Keys(b[q]) = {} /\ Keys(b[q]) \subseteq 1..used.key /\ b'[q] = b[q]
    BY <1>1, <1>7 DEF KeyInv
  <2> QED
    BY <1>2, <1>5, <2>1
<1>8. \A q, r \in Policy : q # r => Keys(b'[q]) \cap Keys(b'[r]) = {}
  BY <1>1, <1>7 DEF KeyInv
<1>9. ASSUME NEW i \in Slot, ctx[i].pol # None, b'[ctx[i].pol].next # None
      PROVE  b'[ctx[i].pol].next # ctx[i].cur
  <2>1. ctx[i] \in CtxRec /\ ctx[i].pol \in Policy
    BY <1>9 DEF CtxInv, CtxRec
  <2>2. CASE ctx[i].pol = p
    <3>1. ctx[i].cur <= used.key
      BY <1>3, <2>1 DEF KeyInv, Keys, CtxRec, None
    <3> QED
      BY <1>2, <1>3, <1>9, <2>1, <2>2, <3>1 DEF CtxRec
  <2>3. CASE ctx[i].pol # p
    BY <1>1, <1>9, <2>1, <2>3 DEF KeyInv
  <2> QED
    BY <2>2, <2>3
<1>10. \A i \in Slot : Keys(ctx'[i]) \subseteq 1..used'.key /\ Keys(ctx'[i]) \cap gone' = {}
  BY <1>1, <1>4 DEF KeyInv
<1>11. gone' \subseteq 1..used'.key
  BY <1>1, <1>4 DEF KeyInv
<1> QED
  BY <1>1, <1>6, <1>8, <1>9, <1>10, <1>11 DEF KeyInv

(* A refresh or a rebuild brings no discarded key back.                    *)
LEMMA CtxMoveKeeps ==
  ASSUME UsedInv, BindInv, CtxInv, KeyInv, CtxMove, CtxInv'
  PROVE  KeyInv'
<1>1. b' = b /\ used'.key = used.key /\ gone' = gone
  BY DEF CtxMove
<1>2. ASSUME NEW i \in Slot
      PROVE  /\ Keys(ctx'[i]) \subseteq 1..used.key /\ Keys(ctx'[i]) \cap gone = {}
             /\ ctx'[i].pol # None /\ b[ctx'[i].pol].next # None =>
                  b[ctx'[i].pol].next # ctx'[i].cur
  <2>1. PICK c \in Origins : Tracks(c, ctx'[i])
    BY DEF CtxMove
  <2> DEFINE d == ctx'[i]
  <2>2. d \in CtxRec
    BY DEF CtxInv
  <2>3. c \in CtxRec
    BY OriginsIs
  <2>4. /\ Keys(c) \subseteq 1..used.key /\ Keys(c) \cap gone = {}
        /\ c.pol # None /\ b[c.pol].next # None => b[c.pol].next # c.cur
    <3>1. CASE c \in {ctx[j] : j \in Slot}
      BY <3>1 DEF KeyInv
    <3>2. CASE c.cur = None /\ c.prev = None /\ c.next = None
      BY <3>2 DEF Keys
    <3> QED
      BY <3>1, <3>2, OriginsIs
  <2> HIDE DEF d
  <2>5. d.pol = c.pol
    BY <2>1 DEF Tracks, d
  <2>6. \/ Keys(d) \subseteq Keys(c) /\ d.cur = c.cur
        \/ d.pol # None /\ Keys(d) = Keys(b[d.pol]) /\ d.cur = b[d.pol].cur
    BY <2>1, <2>2, <2>3, TrackedKeys DEF d
  <2>7. CASE Keys(d) \subseteq Keys(c) /\ d.cur = c.cur
    BY <2>4, <2>5, <2>7 DEF d
  <2>8. CASE d.pol # None /\ Keys(d) = Keys(b[d.pol]) /\ d.cur = b[d.pol].cur
    <3>1. d.pol \in Policy
      BY <2>2, <2>8 DEF CtxRec
    <3>2. Distinct(b[d.pol]) /\ Keys(b[d.pol]) \subseteq 1..used.key /\ Keys(b[d.pol]) \cap gone = {}
      BY <3>1 DEF KeyInv
    <3> QED
      BY <2>8, <3>2 DEF Distinct, d
  <2> QED
    BY <2>6, <2>7, <2>8
<1> QED
  BY <1>1, <1>2 DEF KeyInv

(* Nothing but the second half of a discard makes a key count as gone.     *)
LEMMA GoneStep ==
  ASSUME [Next]_vars
  PROVE  gone' = gone \/ \E p \in Policy : ForgetPrev(p)
BY DEF Next, BindingStep, cvars, Tell, Wipe, LoadDone, StartAll,
   SyncSessionKeys, Snapshot, RebuildReset, RebuildFill, GraceEnds, GoBlank, LookByWireId,
   LookByMatch, Looking, Use, vars, LifetimeTick, TickAsks, TickRearms

(* The key a discard drops is in no other slot.                            *)
LEMMA CalmKeeps ==
  ASSUME BindInv, CtxInv, KeyInv, AllCalm, ctx' = ctx, BindInv',
         \/ gone' = gone
         \/ \E p \in Policy : ForgetPrev(p)
  PROVE  KeyInv'
<1>1. used'.key = used.key
  BY DEF AllCalm
<1>2. ASSUME NEW q \in Policy
      PROVE  /\ b'[q] \in BindRec
             /\ Keys(b'[q]) \subseteq Keys(b[q]) /\ Distinct(b'[q])
             /\ b'[q].next # None => b'[q].next = b[q].next
  <2>1. b[q] \in BindRec /\ b'[q] \in BindRec /\ Calm(b[q], b'[q]) /\ Distinct(b[q])
    BY DEF BindInv, BindType, AllCalm, KeyInv
  <2> QED
    BY <2>1, CalmKeys
<1>3. /\ gone \subseteq gone' /\ gone' \subseteq 1..used.key
      /\ \A q \in Policy : Keys(b'[q]) \cap gone' = {}
      /\ \A i \in Slot : Keys(ctx[i]) \cap gone' = {}
  <2>1. CASE gone' = gone
    BY <1>2, <2>1 DEF KeyInv
  <2>2. ASSUME NEW p \in Policy, ForgetPrev(p)
        PROVE  /\ gone \subseteq gone' /\ gone' \subseteq 1..used.key
               /\ \A q \in Policy : Keys(b'[q]) \cap gone' = {}
               /\ \A i \in Slot : Keys(ctx[i]) \cap gone' = {}
    <3> DEFINE x == b[p].prev
    <3>1. gone' = gone \cup ({x} \ ({None} \cup UNION {Keys(ctx[i]) : i \in Slot})) /\ Forget(p)
      BY <2>2 DEF ForgetPrev
    <3>2. x # None => x \in Keys(b[p]) /\ x # b[p].cur /\ x # b[p].next
      BY DEF Keys, KeyInv, Distinct
    <3>3. b'[p].prev = None
      BY <3>1, ForgetCalm
    <3>4. x # None => x \notin Keys(b'[p])
      <4>1. Calm(b[p], b'[p])
        BY DEF AllCalm
      <4> QED
        BY <3>2, <3>3, <4>1 DEF Calm, Less, Keys
    <3>5. x # None => \A q \in Policy : q # p => x \notin Keys(b[q])
      BY <3>2 DEF KeyInv
    <3>6. x # None => \A q \in Policy : x \notin Keys(b'[q])
      BY <1>2, <3>4, <3>5
    <3>7. x # None => x \in 1..used.key
      BY <3>2 DEF KeyInv
    <3> HIDE DEF x
    <3>8. gone' \subseteq gone \cup {x} /\ gone \subseteq gone' /\ (x = None => gone' = gone)
      BY <3>1
    <3>9. \A i \in Slot : Keys(ctx[i]) \cap gone' = {}
      BY <3>1 DEF KeyInv
    <3>10. \A q \in Policy : Keys(b'[q]) \cap gone = {}
      BY <1>2 DEF KeyInv
    <3>11. gone \subseteq 1..used.key
      BY DEF KeyInv
    <3> QED
      BY <3>6, <3>7, <3>8, <3>9, <3>10, <3>11
  <2> QED
    BY <2>1, <2>2
<1>4. \A p, q \in Policy : p # q => Keys(b'[p]) \cap Keys(b'[q]) = {}
  BY <1>2 DEF KeyInv
<1>5. \A q \in Policy : Keys(b'[q]) \subseteq 1..used.key
  BY <1>2 DEF KeyInv
<1>6. ASSUME NEW i \in Slot, ctx[i].pol # None, b'[ctx[i].pol].next # None
      PROVE  b'[ctx[i].pol].next # ctx[i].cur
  <2>1. ctx[i].pol \in Policy
    BY <1>6 DEF CtxInv, CtxRec
  <2> QED
    BY <1>2, <1>6, <2>1 DEF KeyInv
<1> QED
  BY <1>1, <1>2, <1>3, <1>4, <1>5, <1>6 DEF KeyInv

(* Every step keeps the keys apart.                                        *)
LEMMA KeyStep ==
  ASSUME UsedInv, BindInv, TickInv, CtxInv, KeyInv, BindInv', [Next]_vars
  PROVE  KeyInv'
<1>1. CtxInv' /\ (ctx' = ctx \/ CtxMove)
  BY CtxStep
<1>2. CASE \E p \in Policy : NewKey(p)
  BY <1>2, NewKeyKeeps
<1>3. CASE CtxMove
  BY <1>1, <1>3, CtxMoveKeeps
<1>4. CASE ctx' = ctx /\ AllCalm
  BY <1>4, GoneStep, CalmKeeps
<1> QED
  BY <1>1, <1>2, <1>3, <1>4, KeyMoves

(***************************************************************************)
(* The indexes, the workers' copies and their lookups.                     *)
(***************************************************************************)

(* An index leads to the context of its policy.                            *)
IndexInv ==
  /\ index \in [Policy -> {None} \cup Slot]
  /\ old \in [ctx : [Slot -> CtxRec], index : [Policy -> {None} \cup Slot], grace : BOOLEAN]
  /\ \A p \in Policy : /\ index[p] # None => ctx[index[p]].pol = p
                       /\ old.index[p] # None => old.ctx[old.index[p]].pol = p

(* Once rebuilt, the contexts are those of the configuration, in its order.*)
Built == ctl.at = "sync" \/ (ctl.at = "start" /\ ~ctl.up) \/ (ctl.at = "idle" /\ ctl.up)
BuiltInv == Built => \A i \in 1..Len(ctl.cfg) : ctx[i].pol = ctl.cfg[i].pol

(* A worker whose generation is current has the contexts as they are.      *)
CopyInv ==
  /\ behind \subseteq Worker
  /\ mine \in [Worker -> [ctx : [Slot -> CtxRec], old : [Slot -> CtxRec]]]
  /\ \A w \in Worker \ behind : \A i \in Slot :
       /\ ctx[i].pol = mine[w].ctx[i].pol /\ SameKeys(mine[w].ctx[i], ctx[i])
       /\ old.ctx[i].pol = mine[w].old[i].pol

(* The slot a lookup has found is its policy's until a reload's switch.    *)
LookRec ==
  [at : {"begun"}, pol : Policy, slot : Slot, prev : BOOLEAN, clean : BOOLEAN, gone : SUBSET Nat]
LookInv ==
  /\ look \in [Worker -> {NoLook} \cup LookRec]
  /\ \A w \in Worker : look[w].at = "begun" =>
       /\ look[w].gone \subseteq gone
       /\ look[w].clean =>
            IF look[w].prev THEN old.ctx[look[w].slot].pol = look[w].pol
                            ELSE ctx[look[w].slot].pol = look[w].pol

(* Only the rebuild gives a context to another policy.                     *)
LEMMA PolKept ==
  ASSUME BindInv, CtxInv, [Next]_vars
  PROVE  RebuildFill \/ \A i \in Slot : ctx'[i].pol = ctx[i].pol
<1>1. ASSUME NEW p \in Policy, Tell(p) \/ Wipe(p) PROVE \A i \in Slot : ctx'[i].pol = ctx[i].pol
  BY <1>1, RefreshAllIs, DiscardIs DEF Tell, Wipe, BindInv, Tracks
<1>2. CASE SyncSessionKeys
  BY <1>2, RefreshAllIs DEF SyncSessionKeys, BindInv, Tracks
<1>3. CASE RebuildReset
  BY <1>3, ResetIs DEF Tracks
<1>4. CASE LifetimeTick
  BY <1>4, LifetimeIs DEF Tracks
<1>5. CASE TickRearms
  BY <1>5, RearmIs DEF Tracks
<1> QED
  BY <1>1, <1>2, <1>3, <1>4, <1>5, CtxRests

(* The index of a configuration leads to the entry of the policy.          *)
LEMMA IndexOfIs ==
  ASSUME NEW c \in Configs \cup {First, <<>>}
  PROVE  /\ IndexOf(c) \in [Policy -> {None} \cup Slot]
         /\ \A p \in Policy : IndexOf(c)[p] # None =>
              IndexOf(c)[p] \in 1..Len(c) /\ c[IndexOf(c)[p]].pol = p
<1>1. 1..Len(c) \subseteq Slot
  BY CfgFits
<1>2. ASSUME NEW p \in Policy
      PROVE  \/ IndexOf(c)[p] = None
             \/ IndexOf(c)[p] \in 1..Len(c) /\ c[IndexOf(c)[p]].pol = p
  <2>1. CASE \E i \in 1..Len(c) : c[i].pol = p
    <3> DEFINE i == CHOOSE i \in 1..Len(c) : c[i].pol = p
    <3>1. i \in 1..Len(c) /\ c[i].pol = p
      BY <2>1
    <3>2. IndexOf(c)[p] = i
      BY <2>1 DEF IndexOf
    <3> QED
      BY <3>1, <3>2
  <2>2. CASE ~\E i \in 1..Len(c) : c[i].pol = p
    BY <2>2 DEF IndexOf
  <2> QED
    BY <2>1, <2>2
<1>3. IndexOf(c) \in [Policy -> {None} \cup Slot]
  <2>1. \A p \in Policy : IndexOf(c)[p] \in {None} \cup Slot
    BY <1>1, <1>2
  <2> QED
    BY <2>1 DEF IndexOf
<1> QED
  BY <1>2, <1>3

(* Every step keeps the indexes right, the reset ones too.                 *)
LEMMA IndexStep ==
  ASSUME BindInv, CtxInv, IndexInv, [Next]_vars
  PROVE  IndexInv'
<1>1. CASE RebuildFill
  <2>1. ctl.cfg \in Configs \cup {First, <<>>}
    BY DEF BindInv, CtlType
  <2>2. index' = IndexOf(ctl.cfg)
    BY <1>1 DEF RebuildFill, Rebuild
  <2>3. \A i \in 1..Len(ctl.cfg) : ctx'[i].pol = ctl.cfg[i].pol
    BY <1>1, FillIs
  <2>4. /\ index' \in [Policy -> {None} \cup Slot]
        /\ \A p \in Policy : index'[p] # None => ctx'[index'[p]].pol = p
    BY <2>1, <2>2, <2>3, IndexOfIs
  <2>5. CASE old' = old
    BY <2>4, <2>5 DEF IndexInv
  <2>6. CASE old' = [old EXCEPT !.index = NoIndex, !.grace = FALSE]
    <3>1. /\ old' \in [ctx : [Slot -> CtxRec], index : {NoIndex}, grace : BOOLEAN]
      BY <2>6 DEF IndexInv
    <3>2. NoIndex \in [Policy -> {None} \cup Slot] /\ \A p \in Policy : NoIndex[p] = None
      BY DEF NoIndex
    <3> QED
      BY <2>4, <3>1, <3>2 DEF IndexInv
  <2> QED
    BY <1>1, <2>5, <2>6 DEF RebuildFill
<1>2. CASE RebuildReset
  <2>1. index' = NoIndex /\ old' = old
    BY <1>2 DEF RebuildReset
  <2> QED
    BY <2>1 DEF IndexInv, NoIndex
<1>3. CASE Snapshot
  <2>1. /\ index' = index /\ ctx' = ctx
        /\ old' = [ctx |-> ctx, index |-> index, grace |-> \E i \in Slot : ctx[i].ready]
    BY <1>3 DEF Snapshot
  <2>2. old'.ctx = ctx /\ old'.index = index
    BY <2>1
  <2>3. old' \in [ctx : [Slot -> CtxRec], index : [Policy -> {None} \cup Slot], grace : BOOLEAN]
    <3>1. (\E i \in Slot : ctx[i].ready) \in BOOLEAN
      OBVIOUS
    <3> QED
      BY <2>1, <3>1 DEF IndexInv, CtxInv
  <2> QED
    BY <2>1, <2>2, <2>3 DEF IndexInv
<1>4. CASE GraceEnds
  <2>1. old' = [old EXCEPT !.grace = FALSE] /\ ctx' = ctx /\ index' = index
    BY <1>4 DEF GraceEnds
  <2> QED
    BY <2>1 DEF IndexInv
<1>5. ASSUME index' = index, old' = old, \A i \in Slot : ctx'[i].pol = ctx[i].pol
      PROVE  IndexInv'
  BY <1>5 DEF IndexInv
<1>6. RebuildFill \/ RebuildReset \/ Snapshot \/ GraceEnds \/ (index' = index /\ old' = old)
  BY DEF Next, BindingStep, cvars, Tell, Wipe, ForgetPrev, LoadDone, StartAll,
     SyncSessionKeys, GoBlank, LookByWireId,
     LookByMatch, Looking, Use, vars, LifetimeTick, TickAsks, TickRearms
<1> QED
  BY <1>1, <1>2, <1>3, <1>4, <1>5, <1>6, PolKept

(* The contexts fit the configuration whenever the sender may use its      *)
(* order.                                                                  *)
LEMMA BuiltStep ==
  ASSUME BindInv, CtxInv, BuiltInv, [Next]_vars
  PROVE  BuiltInv'
<1>0. ctl.cfg \in Configs \cup {First, <<>>} /\ 1..Len(ctl.cfg) \subseteq Slot
  BY CfgFits DEF BindInv, CtlType
<1>1. CASE RebuildFill
  <2>1. \A i \in 1..Len(ctl.cfg) : ctx'[i].pol = ctl.cfg[i].pol
    BY <1>1, FillIs
  <2>2. ctl'.cfg = ctl.cfg
    BY <1>1 DEF RebuildFill, GoTo, BindInv, CtlType
  <2> QED
    BY <2>1, <2>2 DEF BuiltInv
<1>2. ASSUME ~RebuildFill, Built' => Built /\ ctl'.cfg = ctl.cfg PROVE BuiltInv'
  BY <1>0, <1>2, PolKept DEF BuiltInv
<1>3. CASE ctl' = ctl /\ ~RebuildFill
  BY <1>2, <1>3 DEF Built
<1>4. CASE LoadStep
  <2>1. ctl'.at \in {"bind", "bind_wait", "finalize", "final_wait"}
    BY <1>4 DEF LoadStep, Load, BindPolicy, BindAsksStop, BindAfterStop, BindTimeout, BindFails,
       BindsDone, Finalize, FinalizeAsksStop, FinalizeAfterStop, FinalizeTimeout, Binding, GoTo,
       Done, BindInv, CtlType
  <2> QED
    BY <2>1 DEF BuiltInv, Built
<1>5. CASE LoadDone
  <2>1. \/ ctl'.cfg = <<>>
        \/ ctl'.at = "start" /\ ctl'.up
        \/ ctl'.at = "reset"
    BY <1>5 DEF LoadDone, GoTo, FirstOf, BindInv, CtlType
  <2>2. ctl'.cfg = <<>> => 1..Len(ctl'.cfg) = {}
    OBVIOUS
  <2> QED
    BY <2>1, <2>2 DEF BuiltInv, Built
<1>6. CASE StartAll
  <2>1. /\ ~RebuildFill
        /\ ctl'.cfg = ctl.cfg /\ ctl.at = "start" /\ ctl'.at = IF ctl.up THEN "snapshot" ELSE "sync"
    BY <1>6 DEF StartAll, RebuildFill, GoTo, BindInv, CtlType
  <2> QED
    BY <1>2, <2>1 DEF Built
<1>7. CASE SyncSessionKeys
  <2>1. ~RebuildFill /\ ctl'.cfg = ctl.cfg /\ ctl.at = "sync"
    BY <1>7 DEF SyncSessionKeys, RebuildFill, BindInv, CtlType
  <2> QED
    BY <1>2, <2>1 DEF Built
<1>8. CASE Snapshot \/ RebuildReset \/ GoBlank
  <2>1. ctl'.at \in {"reset", "fill", "finalize"}
    BY <1>8 DEF Snapshot, RebuildReset, GoBlank, Blank, GoTo, BindInv, CtlType
  <2> QED
    BY <2>1 DEF BuiltInv, Built
<1>9. RebuildFill \/ ctl' = ctl \/ LoadStep \/ LoadDone \/ StartAll \/ SyncSessionKeys \/ Snapshot
      \/ RebuildReset \/ GoBlank
  BY DEF Next, BindingStep, Supervise, WorkerCopies, WorkerFails, WorkerPromotes,
     WorkerStages, WorkerDiscards, WorkerExits, TriggerRetry, Tell, Wipe, ForgetPrev, Forget,
     GraceEnds, LookByWireId, LookByMatch, Looking, Use, vars, bvars, LifetimeTick, TickAsks,
     TickRearms
<1> QED
  BY <1>1, <1>3, <1>4, <1>5, <1>6, <1>7, <1>8, <1>9

(* Copies stay right when the contexts are, or the generation moves.       *)
LEMMA CopyKept ==
  ASSUME CopyInv, mine' = mine,
         \/ behind' = Worker
         \/ /\ behind' = behind
            /\ \A i \in Slot : /\ ctx'[i].pol = ctx[i].pol /\ SameKeys(ctx[i], ctx'[i])
                               /\ old'.ctx[i].pol = old.ctx[i].pol
  PROVE  CopyInv'
BY DEF CopyInv, SameKeys

(* Every step keeps the current copies right.                              *)
LEMMA CopyStep ==
  ASSUME BindInv, CtxInv, IndexInv, CopyInv, [Next]_vars
  PROVE  CopyInv'
<1>1. CASE UNCHANGED <<ctx, old, behind, mine>>
  BY <1>1, CopyKept DEF SameKeys
<1>2. ASSUME NEW p \in Policy, Tell(p) PROVE CopyInv'
  BY <1>2, CopyKept DEF Tell, RefreshAll, Publish
<1>3. ASSUME NEW p \in Policy, Wipe(p) PROVE CopyInv'
  <2>1. mine' = mine /\ old' = old /\ DiscardMaster(p)
    BY <1>3 DEF Wipe
  <2>2. behind' = Worker \/ (ctx' = ctx /\ behind' = behind)
    BY <2>1, DiscardIs
  <2> QED
    BY <2>1, <2>2, CopyKept DEF SameKeys
<1>4. CASE SyncSessionKeys \/ Snapshot \/ RebuildFill
  BY <1>4, CopyKept DEF SyncSessionKeys, RefreshAll, Snapshot, RebuildFill, Rebuild, Publish
<1>5. CASE RebuildReset
  <2>1. mine' = mine /\ old' = old /\ behind' = behind
    BY <1>5 DEF RebuildReset
  <2>2. \A i \in Slot : ctx'[i].pol = ctx[i].pol /\ SameKeys(ctx[i], ctx'[i])
    BY <1>5, ResetIs DEF Tracks
  <2> QED
    BY <2>1, <2>2, CopyKept
<1>6. CASE LifetimeTick
  <2>1. mine' = mine /\ old' = old /\ behind' = behind
    BY <1>6 DEF LifetimeTick
  <2>2. \A i \in Slot : ctx'[i].pol = ctx[i].pol /\ SameKeys(ctx[i], ctx'[i])
    BY <1>6, LifetimeIs DEF Tracks
  <2> QED
    BY <2>1, <2>2, CopyKept
<1>7. CASE TickRearms
  <2>1. mine' = mine /\ old' = old /\ behind' = behind
    BY <1>7 DEF TickRearms
  <2>2. \A i \in Slot : ctx'[i].pol = ctx[i].pol /\ SameKeys(ctx[i], ctx'[i])
    BY <1>7, RearmIs DEF Tracks
  <2> QED
    BY <2>1, <2>2, CopyKept
<1>8. CASE GraceEnds
  <2>1. /\ mine' = mine /\ behind' = behind /\ ctx' = ctx
        /\ old' = [old EXCEPT !.grace = FALSE]
    BY <1>8 DEF GraceEnds
  <2>2. old'.ctx = old.ctx
    BY <2>1 DEF IndexInv
  <2> QED
    BY <2>1, <2>2, CopyKept DEF SameKeys
<1>9. CASE GoBlank
  <2>1. mine' = [w \in Worker |-> NoCopy] /\ behind' = Worker
    BY <1>9 DEF GoBlank
  <2>2. NoCopy \in [ctx : [Slot -> CtxRec], old : [Slot -> CtxRec]]
    BY EmptyIs DEF NoCopy, NoCtx
  <2> QED
    BY <2>1, <2>2 DEF CopyInv
<1>10. ASSUME NEW w \in Worker, Use(w) PROVE CopyInv'
  <2> DEFINE x == Synced(w)
  <2>1. /\ mine' = [mine EXCEPT ![w] = x] /\ behind' = behind \ {w} /\ ctx' = ctx /\ old' = old
    BY <1>10 DEF Use
  <2>2. CASE w \in behind
    <3>1. x = [ctx |-> ctx, old |-> old.ctx]
      BY <2>2 DEF Synced
    <3>2. x \in [ctx : [Slot -> CtxRec], old : [Slot -> CtxRec]] /\ x.ctx = ctx /\ x.old = old.ctx
      BY <3>1 DEF CtxInv, IndexInv
    <3> HIDE DEF x
    <3>3. mine' \in [Worker -> [ctx : [Slot -> CtxRec], old : [Slot -> CtxRec]]]
          /\ mine'[w] = x /\ \A v \in Worker : v # w => mine'[v] = mine[v]
      BY <2>1, <3>2 DEF CopyInv
    <3> QED
      BY <2>1, <3>2, <3>3 DEF CopyInv, SameKeys
  <2>3. CASE w \notin behind
    <3>1. x = mine[w]
      BY <2>3 DEF Synced
    <3>2. mine' = mine /\ behind' = behind
      BY <2>1, <2>3, <3>1 DEF CopyInv
    <3> QED
      BY <2>1, <3>2, CopyKept DEF SameKeys
  <2> QED
    BY <2>2, <2>3
<1>11. \/ UNCHANGED <<ctx, old, behind, mine>> \/ (\E p \in Policy : Tell(p) \/ Wipe(p))
       \/ SyncSessionKeys \/ Snapshot \/ RebuildFill \/ RebuildReset \/ LifetimeTick \/ TickRearms
       \/ GraceEnds \/ GoBlank \/ \E w \in Worker : Use(w)
  BY DEF Next, BindingStep, cvars, ForgetPrev, LoadDone, StartAll, LookByWireId,
     LookByMatch, Looking, vars, TickAsks
<1> QED
  BY <1>1, <1>2, <1>3, <1>4, <1>5, <1>6, <1>7, <1>8, <1>9, <1>10, <1>11

(* A switch of the reload leaves no clean lookup.                          *)
LEMMA DirtyIs ==
  ASSUME LookInv, look' = Dirty, gone' = gone
  PROVE  LookInv'
<1>1. \A w \in Worker : look'[w] = IF look[w].at = "begun" THEN [look[w] EXCEPT !.clean = FALSE] ELSE look[w]
  BY DEF Dirty
<1>2. ASSUME NEW w \in Worker
      PROVE  /\ look'[w] \in {NoLook} \cup LookRec
             /\ look'[w].at = "begun" => look'[w].gone \subseteq gone /\ ~look'[w].clean
  <2>1. CASE look[w].at = "begun"
    <3> DEFINE r == look[w]
               s == [r EXCEPT !.clean = FALSE]
    <3>1. r \in LookRec /\ r.gone \subseteq gone
      BY <2>1 DEF LookInv, NoLook
    <3>2. look'[w] = s
      BY <1>1, <2>1
    <3> HIDE DEF r
    <3>3. s \in LookRec /\ s.gone = r.gone /\ ~s.clean
      BY <3>1 DEF LookRec
    <3> QED
      BY <3>1, <3>2, <3>3
  <2>2. CASE look[w].at # "begun"
    BY <1>1, <2>2 DEF LookInv
  <2> QED
    BY <2>1, <2>2
<1>3. look' \in [Worker -> {NoLook} \cup LookRec]
  BY <1>2 DEF Dirty
<1> QED
  BY <1>2, <1>3 DEF LookInv

(* A lookup stays right while the slots keep their policies.               *)
LEMMA LookKept ==
  ASSUME LookInv, look' = look, gone \subseteq gone',
         \A i \in Slot : ctx'[i].pol = ctx[i].pol /\ old'.ctx[i].pol = old.ctx[i].pol
  PROVE  LookInv'
<1>1. \A w \in Worker : look[w].at = "begun" => look[w].slot \in Slot
  BY DEF LookInv, LookRec, NoLook
<1> QED
  BY <1>1 DEF LookInv

(* A lookup that begins.                                                   *)
LEMMA LookingKeeps ==
  ASSUME LookInv, gone \subseteq Nat, NEW w \in Worker, NEW p \in Policy, NEW x \in Slot,
         NEW y \in BOOLEAN, NEW z \in BOOLEAN,
         z => IF y THEN old.ctx[x].pol = p ELSE ctx[x].pol = p,
         UNCHANGED <<ctx, old, gone>>,
         look' = [look EXCEPT ![w] = [at |-> "begun", pol |-> p, slot |-> x, prev |-> y,
                                      clean |-> z, gone |-> gone]]
  PROVE  LookInv'
<1> DEFINE r == [at |-> "begun", pol |-> p, slot |-> x, prev |-> y, clean |-> z, gone |-> gone]
<1>1. /\ r \in LookRec /\ r.gone = gone /\ r.pol = p /\ r.slot = x /\ r.at = "begun"
  BY DEF LookRec
<1>2. r.clean => IF r.prev THEN old.ctx[r.slot].pol = r.pol ELSE ctx[r.slot].pol = r.pol
  OBVIOUS
<1> HIDE DEF r
<1>3. look' = [look EXCEPT ![w] = r]
  BY DEF r
<1>4. /\ look' \in [Worker -> {NoLook} \cup LookRec] /\ look'[w] = r
      /\ \A v \in Worker : v # w => look'[v] = look[v]
  BY <1>1, <1>3 DEF LookInv
<1> QED
  BY <1>1, <1>2, <1>4 DEF LookInv

(* Every step keeps the lookups right.                                     *)
LEMMA LookStep ==
  ASSUME UsedInv, BindInv, CtxInv, KeyInv, IndexInv, BuiltInv, LookInv, [Next]_vars
  PROVE  LookInv'
<1>0. gone \subseteq Nat
  BY DEF KeyInv, UsedInv
<1>1. ASSUME NEW w \in Worker, NEW p \in Policy, LookByWireId(w, p) PROVE LookInv'
  <2>1. PICK z \in BOOLEAN : z = (ctl.at \notin {"snapshot", "reset", "fill"})
    OBVIOUS
  <2>2. CASE index[p] # None /\ ctx[index[p]].ready
    <3>1. Found(p) = [slot |-> index[p], prev |-> FALSE]
      BY <2>2 DEF Found
    <3>2. index[p] \in Slot /\ ctx[index[p]].pol = p
      BY <2>2 DEF IndexInv
    <3>3. /\ UNCHANGED <<ctx, old, gone>>
          /\ look' = [look EXCEPT ![w] = [at |-> "begun", pol |-> p, slot |-> index[p], prev |-> FALSE,
                                          clean |-> z, gone |-> gone]]
      BY <1>1, <2>1, <3>1 DEF LookByWireId, Looking
    <3> QED
      BY <1>0, <3>2, <3>3, LookingKeeps
  <2>3. CASE ~(index[p] # None /\ ctx[index[p]].ready) /\ old.grace /\ old.index[p] # None
             /\ old.ctx[old.index[p]].ready
    <3>1. Found(p) = [slot |-> old.index[p], prev |-> TRUE]
      BY <2>3 DEF Found
    <3>2. old.index[p] \in Slot /\ old.ctx[old.index[p]].pol = p
      BY <2>3 DEF IndexInv
    <3>3. /\ UNCHANGED <<ctx, old, gone>>
          /\ look' = [look EXCEPT ![w] = [at |-> "begun", pol |-> p, slot |-> old.index[p],
                                          prev |-> TRUE, clean |-> z, gone |-> gone]]
      BY <1>1, <2>1, <3>1 DEF LookByWireId, Looking
    <3> QED
      BY <1>0, <3>2, <3>3, LookingKeeps
  <2>4. CASE ~(index[p] # None /\ ctx[index[p]].ready)
             /\ ~(old.grace /\ old.index[p] # None /\ old.ctx[old.index[p]].ready)
    BY <1>1, <2>4 DEF LookByWireId, Looking, Found
  <2> QED
    BY <2>2, <2>3, <2>4
<1>2. ASSUME NEW w \in Worker, NEW p \in Policy, LookByMatch(w, p) PROVE LookInv'
  <2> DEFINE i == IndexOf(ctl.cfg)[p]
  <2>1. /\ ctl.at \in {"idle", "snapshot", "reset", "fill"} /\ ctl.up
        /\ i # None
        /\ UNCHANGED <<ctx, old, gone>>
        /\ look' = [look EXCEPT ![w] = [at |-> "begun", pol |-> p, slot |-> i, prev |-> FALSE,
                                        clean |-> ctl.at \notin {"snapshot", "reset", "fill"},
                                        gone |-> gone]]
    BY <1>2 DEF LookByMatch, Looking
  <2>2. ctl.cfg \in Configs \cup {First, <<>>}
    BY DEF BindInv, CtlType
  <2>3. i \in Slot /\ i \in 1..Len(ctl.cfg) /\ ctl.cfg[i].pol = p
    BY <2>1, <2>2, IndexOfIs, CfgFits
  <2> HIDE DEF i
  <2>4. PICK z \in BOOLEAN : z = (ctl.at \notin {"snapshot", "reset", "fill"})
    OBVIOUS
  <2>5. z => IF FALSE THEN old.ctx[i].pol = p ELSE ctx[i].pol = p
    BY <2>1, <2>3, <2>4 DEF BuiltInv, Built
  <2>6. look' = [look EXCEPT ![w] = [at |-> "begun", pol |-> p, slot |-> i, prev |-> FALSE,
                                     clean |-> z, gone |-> gone]]
    BY <2>1, <2>4
  <2>7. UNCHANGED <<ctx, old, gone>> /\ i \in Slot
    BY <2>1, <2>3
  <2> QED
    BY <1>0, <2>5, <2>6, <2>7, LookingKeeps
<1>3. CASE Snapshot \/ RebuildReset \/ RebuildFill
  BY <1>3, DirtyIs DEF Snapshot, RebuildReset, RebuildFill
<1>4. ASSUME NEW w \in Worker, Use(w) PROVE LookInv'
  <2>1. UNCHANGED <<ctx, old, gone>> /\ look' = [look EXCEPT ![w] = NoLook]
    BY <1>4 DEF Use
  <2>2. look' \in [Worker -> {NoLook} \cup LookRec] /\ look'[w] = NoLook
        /\ \A v \in Worker : v # w => look'[v] = look[v]
    BY <2>1 DEF LookInv
  <2> QED
    BY <2>1, <2>2 DEF LookInv, NoLook
<1>5. CASE look' = look /\ ~RebuildFill /\ ~Snapshot
  <2>1. \A i \in Slot : ctx'[i].pol = ctx[i].pol
    BY <1>5, PolKept
  <2>2. old'.ctx = old.ctx
    <3>1. old' = old \/ GraceEnds
      BY <1>5 DEF Next, BindingStep, cvars, Tell, Wipe, ForgetPrev, LoadDone, StartAll,
         SyncSessionKeys, RebuildReset, GoBlank, LookByWireId, LookByMatch, Looking, Use, vars,
         LifetimeTick, TickAsks, TickRearms
    <3> QED
      BY <3>1 DEF GraceEnds, IndexInv
  <2>3. gone \subseteq gone'
    BY GoneStep DEF ForgetPrev
  <2> QED
    BY <1>5, <2>1, <2>2, <2>3, LookKept
<1>6. \/ look' = look \/ (\E w \in Worker : Use(w)) \/ Snapshot \/ RebuildReset \/ RebuildFill
      \/ \E w \in Worker, p \in Policy : LookByWireId(w, p) \/ LookByMatch(w, p)
  BY DEF Next, BindingStep, cvars, Tell, Wipe, ForgetPrev, LoadDone, StartAll,
     SyncSessionKeys, GraceEnds, GoBlank, vars, LifetimeTick, TickAsks, TickRearms
<1> QED
  BY <1>1, <1>2, <1>3, <1>4, <1>5, <1>6

(***************************************************************************)
(* The key lifetime.                                                       *)
(***************************************************************************)

(* A key marked as asked for is being asked for, in use or not: the tick's *)
(* request is for this very key.                                           *)
Asked(c) == \E k \in 1..Len(tick.asks) : tick.asks[k].pol = c.pol /\ tick.asks[k].key = c.timed
Leaving(c) == b[c.pol].rekey \/ ~b[c.pol].ready \/ b[c.pol].cur # c.timed
PursuedInv == \A i \in Slot : ctx[i].sent => Asked(ctx[i]) \/ Leaving(ctx[i])

(* A key on its way out stays so.                                          *)
LEMMA CalmLeaves ==
  ASSUME BindInv, AllCalm, NEW c \in CtxRec, c.pol # None, Leaving(c)
  PROVE  b'[c.pol].rekey \/ ~b'[c.pol].ready \/ b'[c.pol].cur # c.timed
<1>1. c.pol \in Policy
  BY DEF CtxRec
<1>2. Calm(b[c.pol], b'[c.pol])
  BY <1>1 DEF AllCalm
<1> QED
  BY <1>2 DEF Calm, Leaving

(* A promoted key is never the one that was too old.                       *)
LEMMA NewKeyLeaves ==
  ASSUME UsedInv, BindInv, CtxInv, KeyInv, NEW p \in Policy, NewKey(p), NEW i \in Slot,
         ctx[i].pol # None, Leaving(ctx[i])
  PROVE  LET c == ctx[i]
         IN  b'[c.pol].rekey \/ ~b'[c.pol].ready \/ b'[c.pol].cur # c.timed
<1> DEFINE c == ctx[i]
<1>1. c \in CtxRec /\ c.pol \in Policy /\ c.timed = c.cur
  BY DEF CtxInv, CtxRec
<1>2. CASE c.pol # p
  BY <1>1, <1>2 DEF NewKey, Leaving
<1>3. CASE c.pol = p
  <2>1. b[p] \in BindRec /\ used.key \in Nat
    BY DEF BindInv, BindType, UsedInv
  <2>2. c.cur <= used.key
    BY <1>1, <2>1 DEF KeyInv, Keys, CtxRec, None
  <2>3. CASE b[p].next # None /\ b'[p] = Success(b[p], b[p].next)
    <3>1. b[p].next \in Nat
      BY <2>1 DEF BindRec
    <3>2. b'[p].cur = b[p].next
      BY <2>1, <2>3, <3>1, SuccessIs
    <3>3. b[p].next # c.cur
      BY <1>3, <2>3 DEF KeyInv
    <3> QED
      BY <1>1, <1>3, <3>2, <3>3
  <2>4. CASE b'[p] = Success(b[p], used.key + 1)
    <3>1. PICK k \in Nat : k = used.key + 1
      BY <2>1
    <3>0. b'[p] = Success(b[p], k)
      BY <2>4, <3>1
    <3>2. b'[p].cur = k
      BY <2>1, <3>0, SuccessIs
    <3>3. k # c.cur
      BY <1>1, <2>1, <2>2, <3>1 DEF CtxRec
    <3> QED
      BY <1>1, <1>3, <3>2, <3>3
  <2>5. CASE b'[p] = [b[p] EXCEPT !.next = used.key + 1]
    <3>1. used.key + 1 \in Nat
      BY <2>1
    <3>2. b'[p].cur = b[p].cur /\ b'[p].ready = b[p].ready /\ b'[p].rekey = b[p].rekey
      BY <2>1, <2>5, <3>1, SlotsIs
    <3> QED
      BY <1>3, <3>2 DEF Leaving
  <2> QED
    BY <2>3, <2>4, <2>5 DEF NewKey
<1> QED
  BY <1>2, <1>3

(* Apart from the tick itself, the marks come from the contexts.           *)
LEMMA SentKept ==
  ASSUME BindInv, CtxInv, [Next]_vars, ~LifetimeTick, ~TickRearms
  PROVE  \A i \in Slot : ctx'[i].sent =>
           \E j \in Slot : ctx[j].sent /\ ctx[j].pol = ctx'[i].pol /\ ctx[j].timed = ctx'[i].timed
<1>1. ASSUME NEW i \in Slot, Tracks(ctx[i], ctx'[i]), SentFrom(ctx[i], ctx'[i]), ctx'[i].sent
      PROVE  \E j \in Slot : ctx[j].sent /\ ctx[j].pol = ctx'[i].pol /\ ctx[j].timed = ctx'[i].timed
  BY <1>1 DEF Tracks, SentFrom
<1>2. ASSUME NEW p \in Policy, Tell(p) \/ Wipe(p)
      PROVE  \A i \in Slot : Tracks(ctx[i], ctx'[i]) /\ SentFrom(ctx[i], ctx'[i])
  BY <1>2, RefreshAllIs, DiscardIs DEF Tell, Wipe, BindInv
<1>3. CASE SyncSessionKeys
  BY <1>1, <1>3, RefreshAllIs DEF SyncSessionKeys, BindInv
<1>4. CASE RebuildReset
  BY <1>1, <1>4, ResetIs
<1>5. CASE RebuildFill
  <2>1. SUFFICES ASSUME NEW i \in Slot, ctx'[i].sent
                 PROVE  \E j \in Slot : /\ ctx[j].sent /\ ctx[j].pol = ctx'[i].pol
                                        /\ ctx[j].timed = ctx'[i].timed
    OBVIOUS
  <2>2. PICK c \in Origins : Tracks(c, ctx'[i]) /\ SentFrom(c, ctx'[i])
    BY <1>5, FillIs
  <2>3. c.sent /\ c.timed = ctx'[i].timed /\ c.pol = ctx'[i].pol
    BY <2>1, <2>2 DEF Tracks, SentFrom
  <2>4. c \in {ctx[j] : j \in Slot}
    BY <2>3, OriginsIs
  <2> QED
    BY <2>3, <2>4
<1>6. CASE ctx' = ctx
  BY <1>6
<1> QED
  BY <1>1, <1>2, <1>3, <1>4, <1>5, <1>6, CtxRests

(* The other requests stay.                                                *)
LEMMA TailAsks ==
  ASSUME TickInv, tick.at # "idle", tick' = NextAsk, NEW k \in 1..Len(tick.asks),
         tick.asks[k] # Head(tick.asks)
  PROVE  k - 1 \in 1..Len(tick'.asks) /\ tick'.asks[k - 1] = tick.asks[k]
<1>1. tick'.asks = Tail(tick.asks)
  BY NextAskIs
<1>2. /\ Len(tick.asks) \in Nat /\ Head(tick.asks) = tick.asks[1]
      /\ Len(Tail(tick.asks)) = Len(tick.asks) - 1
      /\ \A j \in 1..Len(Tail(tick.asks)) : Tail(tick.asks)[j] = tick.asks[j + 1]
  BY AskIs
<1> DEFINE u == Tail(tick.asks)
<1>3. k # 1
  BY <1>2
<1>4. Len(u) = Len(tick.asks) - 1
  BY <1>2
<1> HIDE DEF u
<1>5. k - 1 \in 1..Len(u) /\ (k - 1) + 1 = k
  BY <1>2, <1>3, <1>4
<1>6. u[k - 1] = tick.asks[k]
  BY <1>2, <1>5 DEF u
<1> QED
  BY <1>1, <1>5, <1>6 DEF u

(* Every step keeps pursuing the keys that are too old.                    *)
LEMMA PursuedStep ==
  ASSUME UsedInv, BindInv, TickInv, CtxInv, KeyInv, PursuedInv, [Next]_vars
  PROVE  PursuedInv'
<1>0. \A i \in Slot : ctx[i] \in CtxRec /\ (ctx[i].sent => ctx[i].pol # None)
  BY DEF CtxInv
<1>1. CASE LifetimeTick
  <2>1. b' = b /\ tick.at = "idle" /\ tick.asks = <<>>
    BY <1>1 DEF LifetimeTick, TickInv
  <2>2. \A i \in Slot : ~Asked(ctx[i])
    BY <2>1 DEF Asked
  <2>3. \A i \in Slot :
          /\ ctx'[i].pol = ctx[i].pol /\ ctx'[i].timed = ctx[i].timed
          /\ ctx'[i].sent => \/ ctx[i].sent
                             \/ \E k \in 1..Len(tick'.asks) :
                                  tick'.asks[k] = [pol |-> ctx[i].pol, key |-> ctx[i].timed]
    BY <1>1, LifetimeIs DEF Tracks
  <2>4. ASSUME NEW i \in Slot, ctx'[i].sent
        PROVE  \/ \E k \in 1..Len(tick'.asks) :
                    tick'.asks[k].pol = ctx'[i].pol /\ tick'.asks[k].key = ctx'[i].timed
               \/ b[ctx'[i].pol].rekey \/ ~b[ctx'[i].pol].ready \/ b[ctx'[i].pol].cur # ctx'[i].timed
    <3>1. CASE ctx[i].sent
      BY <2>2, <2>3, <3>1 DEF PursuedInv, Leaving
    <3>2. CASE \E k \in 1..Len(tick'.asks) :
                 tick'.asks[k] = [pol |-> ctx[i].pol, key |-> ctx[i].timed]
      BY <2>3, <3>2
    <3> QED
      BY <2>3, <2>4, <3>1, <3>2
  <2> QED
    BY <2>1, <2>4 DEF PursuedInv, Asked, Leaving
<1>2. CASE TickRearms
  <2>1. b' = b /\ tick' = NextAsk /\ tick.at = "rearm" /\ ctl.at # "fill"
    BY <1>2 DEF TickRearms, Unlocked, bvars
  <2>2. \A i \in Slot :
          /\ ctx'[i].pol = ctx[i].pol
          /\ ctx'[i].sent => ctx[i].sent /\ ctx[i].timed = ctx'[i].timed
          /\ ctx'[i].sent /\ ctx[i].ready =>
               ~(ctx[i].pol = Head(tick.asks).pol /\ ctx[i].timed = Head(tick.asks).key)
    BY <1>2, RearmIs DEF Tracks, SentFrom
  <2>3. ASSUME NEW i \in Slot, ctx'[i].sent
        PROVE  \/ \E k \in 1..Len(tick'.asks) :
                    tick'.asks[k].pol = ctx'[i].pol /\ tick'.asks[k].key = ctx'[i].timed
               \/ b[ctx'[i].pol].rekey \/ ~b[ctx'[i].pol].ready \/ b[ctx'[i].pol].cur # ctx'[i].timed
    <3>1. ctx[i].sent /\ ctx[i].timed = ctx'[i].timed /\ ctx[i].pol = ctx'[i].pol
      BY <2>2, <2>3
    <3>2. ctx[i].ready
      BY <2>1, <3>1 DEF CtxInv
    <3>3. CASE Asked(ctx[i])
      <4>1. PICK k \in 1..Len(tick.asks) :
             tick.asks[k].pol = ctx[i].pol /\ tick.asks[k].key = ctx[i].timed
        BY <3>3 DEF Asked
      <4>2. tick.asks[k] # Head(tick.asks)
        BY <2>2, <2>3, <3>2, <4>1
      <4>3. tick.at # "idle" /\ tick' = NextAsk
        BY <2>1
      <4>4. k - 1 \in 1..Len(tick'.asks) /\ tick'.asks[k - 1] = tick.asks[k]
        BY <4>2, <4>3, TailAsks
      <4> QED
        BY <3>1, <4>1, <4>4
    <3>4. CASE Leaving(ctx[i])
      BY <3>1, <3>4 DEF Leaving
    <3> QED
      BY <3>1, <3>3, <3>4 DEF PursuedInv
  <2> QED
    BY <2>1, <2>3 DEF PursuedInv, Asked, Leaving
<1>3. CASE TickAsks
  <2> DEFINE p == Head(tick.asks).pol
  <2>1. /\ tick.at = "ask" /\ RequestNewSession(p) /\ ctx' = ctx /\ used' = used
        /\ tick' = IF RequestTaken(p) THEN NextAsk ELSE [tick EXCEPT !.at = "rearm"]
    BY <1>3 DEF TickAsks
  <2>2. p \in Policy
    BY <2>1, AskIs
  <2>3. AllCalm /\ (RequestTaken(p) => b'[p].rekey)
    BY <2>1, <2>2, RequestCalm
  <2>4. ASSUME NEW i \in Slot, ctx[i].sent
        PROVE  \/ \E k \in 1..Len(tick'.asks) :
                    tick'.asks[k].pol = ctx[i].pol /\ tick'.asks[k].key = ctx[i].timed
               \/ b'[ctx[i].pol].rekey \/ ~b'[ctx[i].pol].ready \/ b'[ctx[i].pol].cur # ctx[i].timed
    <3>1. CASE Leaving(ctx[i])
      BY <1>0, <2>3, <2>4, <3>1, CalmLeaves
    <3>2. CASE Asked(ctx[i]) /\ ~RequestTaken(p)
      <4>1. tick'.asks = tick.asks
        BY <2>1, <3>2 DEF TickInv
      <4> QED
        BY <3>2, <4>1 DEF Asked
    <3>3. CASE Asked(ctx[i]) /\ RequestTaken(p)
      <4>1. CASE ctx[i].pol = p
        BY <2>3, <3>3, <4>1
      <4>2. CASE ctx[i].pol # p
        <5>1. PICK k \in 1..Len(tick.asks) :
               tick.asks[k].pol = ctx[i].pol /\ tick.asks[k].key = ctx[i].timed
          BY <3>3 DEF Asked
        <5>2. tick.asks[k] # Head(tick.asks)
          BY <4>2, <5>1
        <5>3. tick.at # "idle" /\ tick' = NextAsk
          BY <2>1, <3>3
        <5>4. k - 1 \in 1..Len(tick'.asks) /\ tick'.asks[k - 1] = tick.asks[k]
          BY <5>2, <5>3, TailAsks
        <5> QED
          BY <5>1, <5>4
      <4> QED
        BY <4>1, <4>2
    <3> QED
      BY <2>4, <3>1, <3>2, <3>3 DEF PursuedInv
  <2> QED
    BY <2>1, <2>4 DEF PursuedInv, Asked, Leaving
<1>4. CASE tick' = tick /\ ~LifetimeTick /\ ~TickRearms
  <2>1. SUFFICES ASSUME NEW i \in Slot, ctx'[i].sent
                 PROVE  Asked(ctx[i])' \/ Leaving(ctx[i])'
    BY DEF PursuedInv
  <2>2. PICK j \in Slot : ctx[j].sent /\ ctx[j].pol = ctx'[i].pol /\ ctx[j].timed = ctx'[i].timed
    BY <1>4, <2>1, SentKept
  <2>3. CASE Asked(ctx[j])
    BY <1>4, <2>2, <2>3 DEF Asked
  <2>4. CASE Leaving(ctx[j])
    <3>1. ctx[j] \in CtxRec /\ ctx[j].pol # None
      BY <1>0, <2>2
    <3>2. b'[ctx[j].pol].rekey \/ ~b'[ctx[j].pol].ready \/ b'[ctx[j].pol].cur # ctx[j].timed
      BY <2>4, <3>1, CalmLeaves, NewKeyLeaves, KeyMoves
    <3> QED
      BY <2>2, <3>2 DEF Leaving
  <2> QED
    BY <2>2, <2>3, <2>4 DEF PursuedInv
<1>5. LifetimeTick \/ TickRearms \/ TickAsks \/ tick' = tick
  BY DEF Next, BindingStep, cvars, Tell, Wipe, ForgetPrev, LoadDone, StartAll,
     SyncSessionKeys, Snapshot, RebuildReset, RebuildFill, GraceEnds, GoBlank, LookByWireId,
     LookByMatch, Looking, Use, vars
<1> QED
  BY <1>1, <1>2, <1>3, <1>4, <1>5

(***************************************************************************)
(* The inductive invariant, and what follows from it.                      *)
(***************************************************************************)

IInv ==
  /\ UsedInv /\ BindInv /\ TickInv /\ CtxInv /\ KeyInv
  /\ IndexInv /\ BuiltInv /\ CopyInv /\ LookInv /\ PursuedInv

(* The invariant holds at the start.                                       *)
LEMMA InitHolds ==
  ASSUME Init
  PROVE  IInv
<1>0. First \in Configs \cup {First, <<>>} /\ None = 0 /\ Unbound.id = 0
  BY DEF None, Unbound
<1>1. UsedInv
  <2>1. MaxKey \in Nat
    BY BindingAssumption
  <2>2. used = [key |-> 0, load |-> 0, event |-> 0]
    BY DEF Init, InitBindings
  <2> QED
    BY <2>1, <2>2 DEF UsedInv
<1>2. Unbound \in BindRec /\ ~Unbound.kept /\ ~Unbound.active /\ ~Unbound.exit /\ ~Unbound.known
      /\ Unbound.cur = None /\ Unbound.prev = None /\ Unbound.next = None
  BY DEF Unbound, BindRec, None
<1>3. ASSUME NEW p \in Policy
      PROVE  /\ b[p] \in BindRec /\ (b[p].active => b[p].known) /\ ~b[p].kept
             /\ b[p].cur = None /\ b[p].prev = None /\ b[p].next = None
  <2>1. CASE \E i \in 1..Len(First) : First[i].pol = p
    <3> DEFINE i == CHOOSE i \in 1..Len(First) : First[i].pol = p
               s == [Unbound EXCEPT !.known = TRUE, !.active = TRUE, !.id = First[i].id]
    <3>1. i \in 1..Len(First)
      BY <2>1
    <3>2. First \in Seq(Entry)
      BY CfgIs
    <3>3. First[i] \in Entry
      BY <3>1, <3>2
    <3>4. First[i].id \in Nat
      BY <3>3 DEF Entry
    <3>5. b[p] = s
      BY <2>1 DEF Init, InitBindings
    <3> HIDE DEF i
    <3>6. /\ s \in BindRec /\ s.known /\ ~s.kept
          /\ s.cur = None /\ s.prev = None /\ s.next = None
      BY <3>4 DEF Unbound, BindRec, None
    <3> HIDE DEF s
    <3> QED
      BY <3>5, <3>6
  <2>2. CASE ~\E i \in 1..Len(First) : First[i].pol = p
    <3>1. b[p] = Unbound
      BY <2>2 DEF Init, InitBindings
    <3> QED
      BY <1>2, <3>1
  <2> QED
    BY <2>1, <2>2
<1>4. BindInv
  <2>1. b \in [Policy -> BindRec]
    BY <1>3 DEF Init, InitBindings
  <2>2. wk \in [Policy -> [at : WorkerAt, id : Nat]] /\ \A p \in Policy : wk[p].at = "none"
    BY DEF Init, InitBindings, NoWorker, WorkerAt, None
  <2>3. CtlType /\ TodoInv
    BY DEF Init, InitBindings, CtlType, CtlAt, TodoInv
  <2>4. \A p \in Policy : PolicyInv(p)
    BY <1>3, <2>2 DEF PolicyInv, Running
  <2> QED
    BY <2>1, <2>2, <2>3, <2>4 DEF BindInv, BindType
<1>5. TickInv
  BY DEF Init, TickInv
<1>6. NoCtx \in [Slot -> CtxRec] /\ \A i \in Slot : NoCtx[i] = EmptyCtx
  BY EmptyIs DEF NoCtx
<1>7. CtxInv
  BY <1>6, EmptyIs DEF Init, CtxInv
<1>8. KeyInv
  <2>1. gone = {} /\ \A i \in Slot : ctx[i] = EmptyCtx
    BY <1>6 DEF Init
  <2>2. Keys(EmptyCtx) = {} /\ EmptyCtx.pol = None
    BY EmptyIs DEF Keys
  <2>3. \A p \in Policy : Keys(b[p]) = {} /\ Distinct(b[p])
    BY <1>3 DEF Keys, Distinct
  <2> QED
    BY <2>1, <2>2, <2>3 DEF KeyInv
<1>9. IndexInv
  <2>1. NoIndex \in [Policy -> {None} \cup Slot] /\ \A p \in Policy : NoIndex[p] = None
    BY DEF NoIndex
  <2>2. index = NoIndex /\ old = [ctx |-> NoCtx, index |-> NoIndex, grace |-> FALSE]
    BY DEF Init, NoOld
  <2> QED
    BY <1>6, <2>1, <2>2 DEF IndexInv
<1>10. BuiltInv
  BY DEF Init, InitBindings, BuiltInv, Built
<1>11. CopyInv
  <2>1. NoCopy \in [ctx : [Slot -> CtxRec], old : [Slot -> CtxRec]]
    BY <1>6 DEF NoCopy
  <2> QED
    BY <2>1 DEF Init, CopyInv
<1>12. LookInv
  BY DEF Init, LookInv, NoLook
<1>13. PursuedInv
  BY <1>6, EmptyIs DEF Init, PursuedInv
<1> QED
  BY <1>1, <1>4, <1>5, <1>7, <1>8, <1>9, <1>10, <1>11, <1>12, <1>13 DEF IInv

(* And every step keeps it.                                                *)
LEMMA StepHolds ==
  ASSUME IInv, [Next]_vars
  PROVE  IInv'
<1>1. UsedInv /\ BindInv /\ TickInv /\ CtxInv /\ KeyInv
  BY DEF IInv
<1>2. IndexInv /\ BuiltInv /\ CopyInv /\ LookInv /\ PursuedInv
  BY DEF IInv
<1>3. UsedInv' /\ BindInv'
  BY <1>1, UsedStep, StepBinds
<1>4. TickInv' /\ CtxInv'
  BY <1>1, TickStep, CtxStep
<1>5. KeyInv'
  BY <1>1, <1>3, KeyStep
<1>6. IndexInv' /\ BuiltInv' /\ CopyInv'
  BY <1>1, <1>2, IndexStep, BuiltStep, CopyStep
<1>7. LookInv' /\ PursuedInv'
  BY <1>1, <1>2, LookStep, PursuedStep
<1> QED
  BY <1>3, <1>4, <1>5, <1>6, <1>7 DEF IInv

(* The invariant of the bindings, the contexts and the workers' view of    *)
(* them is inductive.                                                      *)
THEOREM Inductive == Spec => []IInv
<1>1. Init => IInv
  BY InitHolds
<1>2. IInv /\ [Next]_vars => IInv'
  BY StepHolds
<1> QED
  BY <1>1, <1>2, PTL DEF Spec

(* The state of bindings and contexts keeps its type: in particular every  *)
(* request of the tick is for a policy.                                    *)
THEOREM TypeCorrect == Spec => []TypeOK
<1>1. IInv => TypeOK
  <2>1. SUFFICES ASSUME IInv PROVE TypeOK
    OBVIOUS
  <2>2. used.key \in Nat /\ used.key <= MaxKey /\ MaxKey \in Nat
    BY <2>1, BindingAssumption DEF IInv, UsedInv
  <2>3. 1..used.key \subseteq 1..MaxKey
    BY <2>2
  <2>4. ASSUME NEW p \in Policy
        PROVE  b[p] \in [known : BOOLEAN, active : BOOLEAN, id : Nat, cur : 0..MaxKey,
                         prev : 0..MaxKey, next : 0..MaxKey, ready : BOOLEAN, rekey : BOOLEAN,
                         exit : BOOLEAN, kept : BOOLEAN]
    <3>1. b[p] \in BindRec /\ Keys(b[p]) \subseteq 1..used.key
      BY <2>1 DEF IInv, BindInv, BindType, KeyInv
    <3>2. b[p].cur \in 0..MaxKey /\ b[p].prev \in 0..MaxKey /\ b[p].next \in 0..MaxKey
      BY <2>2, <3>1 DEF Keys, None
    <3> QED
      BY <3>1, <3>2 DEF BindRec
  <2>5. BindingTypeOK
    <3>1. BindType /\ CtlType
      BY <2>1 DEF IInv, BindInv
    <3>2. b \in [Policy -> [known : BOOLEAN, active : BOOLEAN, id : Nat, cur : 0..MaxKey,
                            prev : 0..MaxKey, next : 0..MaxKey, ready : BOOLEAN, rekey : BOOLEAN,
                            exit : BOOLEAN, kept : BOOLEAN]]
      BY <2>4, <3>1 DEF BindType
    <3> QED
      BY <3>1, <3>2 DEF BindType, CtlType, CtlAt, WorkerAt, BindingTypeOK
  <2>6. \A i \in Slot : Keys(ctx[i]) \subseteq 1..MaxKey /\ ctx[i].pol \in Policy \cup {None}
    BY <2>1, <2>3 DEF IInv, KeyInv, CtxInv, CtxRec
  <2>7. \A w \in Worker : look[w].at \in {"none", "begun"}
    BY <2>1 DEF IInv, LookInv, LookRec, NoLook
  <2>8. gone \subseteq 1..MaxKey
    BY <2>1, <2>3 DEF IInv, KeyInv
  <2>9. index \in [Policy -> {None} \cup Slot] /\ behind \subseteq Worker
    BY <2>1 DEF IInv, IndexInv, CopyInv
  <2>10. tick.at \in {"idle", "ask", "rearm"} /\ (tick.at = "idle" <=> tick.asks = <<>>)
    BY <2>1 DEF IInv, TickInv
  <2> QED
    BY <2>5, <2>6, <2>7, <2>8, <2>9, <2>10 DEF TypeOK
<1> QED
  BY <1>1, Inductive, PTL

(* A handshake worker signs and verifies with the identity its policy is   *)
(* bound to, whatever loads came meanwhile (sig_pqc_bind_policy).          *)
THEOREM BoundIdentity == Spec => []WorkerHasBoundIdentity
<1>1. IInv => WorkerHasBoundIdentity
  BY DEF IInv, BindInv, PolicyInv, Running, WorkerHasBoundIdentity
<1> QED
  BY <1>1, Inductive, PTL

(* A policy whose change a load gave up on is not stopped for good.        *)
THEOREM KeptRestarts == Spec => []KeptIsRestartable
<1>1. IInv => KeptIsRestartable
  BY DEF IInv, BindInv, PolicyInv, Running, KeptIsRestartable, Started
<1> QED
  BY <1>1, Inductive, PTL

(* What a worker gets when it uses the slot it found.                      *)
LEMMA GotIs ==
  ASSUME IInv, NEW w \in Worker, Use(w), look[w].clean
  PROVE  /\ look[w].slot \in Slot
         /\ look[w].prev => Got(w).pol = old.ctx[look[w].slot].pol
         /\ ~look[w].prev => /\ Got(w).pol = ctx[look[w].slot].pol
                             /\ SameKeys(Got(w), ctx[look[w].slot])
<1>1. look[w].at = "begun" /\ look[w].slot \in Slot /\ look[w].prev \in BOOLEAN
  BY DEF Use, IInv, LookInv, LookRec, NoLook
<1>2. CASE w \in behind
  <2>1. Synced(w).ctx = ctx /\ Synced(w).old = old.ctx
    BY <1>2 DEF Synced
  <2> QED
    BY <1>1, <2>1 DEF Got, SameKeys
<1>3. CASE w \notin behind
  <2>1. Synced(w) = mine[w]
    BY <1>3 DEF Synced
  <2>2. \A i \in Slot : /\ ctx[i].pol = mine[w].ctx[i].pol /\ SameKeys(mine[w].ctx[i], ctx[i])
                        /\ old.ctx[i].pol = mine[w].old[i].pol
    BY <1>3 DEF IInv, CopyInv
  <2> QED
    BY <1>1, <2>1, <2>2 DEF Got
<1> QED
  BY <1>2, <1>3

(* A packet whose lookup does not overlap a reload's switch meets the keys *)
(* of its own policy (fwd_crypto_ctx_for_wire_id,                          *)
(* policy_crypto_ctx_for_worker).                                          *)
THEOREM OwnContext == Spec => ContextOfItsPolicy
<1>1. IInv /\ [Next]_vars =>
        [\A w \in Worker : Use(w) /\ look[w].clean => Got(w).pol = look[w].pol]_vars
  <2>1. SUFFICES ASSUME IInv, NEW w \in Worker, Use(w), look[w].clean
                 PROVE  Got(w).pol = look[w].pol
    OBVIOUS
  <2>2. look[w].at = "begun" /\ look[w].prev \in BOOLEAN
    BY <2>1 DEF Use, IInv, LookInv, LookRec, NoLook
  <2>3. IF look[w].prev THEN old.ctx[look[w].slot].pol = look[w].pol
                        ELSE ctx[look[w].slot].pol = look[w].pol
    BY <2>1, <2>2 DEF IInv, LookInv
  <2> QED
    BY <2>1, <2>2, <2>3, GotIs
<1> QED
  BY <1>1, Inductive, PTL DEF Spec, ContextOfItsPolicy

(* A discarded PREV key opens no later packet of a configured policy       *)
(* (fwd_crypto_discard_pqc_prev_key).                                      *)
THEOREM DiscardHolds == Spec => DiscardedUnused
<1>1. IInv /\ [Next]_vars =>
        [\A w \in Worker : Use(w) /\ look[w].clean /\ ~look[w].prev
                             => Keys(Got(w)) \cap look[w].gone = {}]_vars
  <2>1. SUFFICES ASSUME IInv, NEW w \in Worker, Use(w), look[w].clean, ~look[w].prev
                 PROVE  Keys(Got(w)) \cap look[w].gone = {}
    OBVIOUS
  <2>2. look[w].gone \subseteq gone
    BY <2>1 DEF Use, IInv, LookInv
  <2>3. look[w].slot \in Slot /\ SameKeys(Got(w), ctx[look[w].slot])
    BY <2>1, GotIs
  <2>4. Keys(Got(w)) = Keys(ctx[look[w].slot])
    BY <2>3 DEF SameKeys, Keys
  <2>5. Keys(ctx[look[w].slot]) \cap gone = {}
    BY <2>1, <2>3 DEF IInv, KeyInv
  <2> QED
    BY <2>2, <2>4, <2>5
<1> QED
  BY <1>1, Inductive, PTL DEF Spec, DiscardedUnused

(* A key whose lifetime has run out is pursued until it is replaced        *)
(* (fwd_crypto_pqc_key_lifetime_tick).                                     *)
THEOREM ExpiryPursued == Spec => []ExpiryIsPursued
<1>1. IInv => ExpiryIsPursued
  BY DEF IInv, PursuedInv, Asked, Leaving, ExpiryIsPursued
<1> QED
  BY <1>1, Inductive, PTL
=============================================================================
