----------------------------- MODULE Load_proofs -----------------------------
(* Theorems about the load: its loop, for any workers, any size of the         *)
(* channels and any budget; the player's worker, for any tenant and any        *)
(* competitions; and, of the two, that each keeps to its own specification in  *)
(* MCLoad, so that what holds of one holds of the load.                        *)
EXTENDS MCLoad, SequenceTheorems, FiniteSetTheorems, TLAPS

-----------------------------------------------------------------------------
(* The inductive invariant *)

(* A worker is in its channel once. *)
NoneTwice == \A j, k \in DOMAIN workerCh : workerCh[j] = workerCh[k] => j = k

(* A spawner has a worker of its own to send. *)
Offers ==
    /\ \A w \in Worker : pc[w] = "spawn" => w \in Spawner /\ pc[offer[w]] = "offered"
    /\ \A v, w \in Spawner :
          pc[v] = "spawn" /\ pc[w] = "spawn" /\ offer[v] = offer[w] => v = w

Reporting(kind) == {w \in Worker : pc[w] = kind}

(* When Load has returned nobody is running any more. *)
AllDone == Returned => \A w \in Worker : ~Running(w)

IInv ==
    /\ TypeOK /\ NoneTwice /\ Offers /\ AllDone
    /\ IsFiniteSet(Reporting("error")) /\ IsFiniteSet(Reporting("critical"))
    /\ EveryErrorAccounted /\ DeductsWhatWasFound

-----------------------------------------------------------------------------
(* The score *)

LEMMA DeductionBounds ==
  ASSUME NEW a \in Nat, NEW k \in Nat, NEW B \in Nat \ {0}
  PROVE  /\ (a * k) \div B \in Nat
         /\ B <= k => a <= (a * k) \div B
  <1> DEFINE x == a * k
             q == x \div B
  <1>1. x \in Nat
    OBVIOUS
  <1>2. q \in Int /\ x = B * q + (x % B) /\ 0 <= x % B /\ x % B < B
    <2> HIDE DEF x
    <2> QED
      BY <1>1
  <1>3. 0 <= q
    <2>1. SUFFICES ASSUME q <= -1 PROVE FALSE
      BY <1>2
    <2>2. B * q <= -B
      <3> HIDE DEF q
      <3>1. PICK d \in Nat : q = -1 - d
        BY <1>2, <2>1
      <3>2. B * q = -B - B * d /\ B * d \in Nat
        BY <3>1
      <3> QED
        BY <3>2
    <2> HIDE DEF x, q
    <2> QED
      BY <1>1, <1>2, <2>2
  <1>4. ASSUME B <= k PROVE a <= q
    <2>1. SUFFICES ASSUME q < a PROVE FALSE
      BY <1>2
    <2>2. PICK d \in Nat : a = q + 1 + d
      <3> HIDE DEF q
      <3> QED
        BY <1>2, <2>1
    <2>3. PICK e \in Nat : k = B + e
      BY <1>4
    <2>4. x = a * B + a * e /\ a * e \in Nat
      BY <2>3
    <2>5. a * B = q * B + B + d * B /\ d * B \in Nat /\ q * B = B * q
      <3> HIDE DEF q
      <3> QED
        BY <1>2, <2>2
    <2> HIDE DEF x, q
    <2> QED
      BY <1>2, <2>4, <2>5
  <1> QED
    BY <1>2, <1>3, <1>4

LEMMA InitInv == Init => IInv
  <1> SUFFICES ASSUME Init PROVE IInv
    OBVIOUS
  <1>1. Reporting("error") = {} /\ Reporting("critical") = {}
    BY DEF Init, Reporting
  <1>2. IsFiniteSet({}) /\ Cardinality({}) = 0
    BY FS_EmptySet
  <1>3. /\ workerCh \in Seq(Worker) /\ Len(workerCh) = 0
        /\ DOMAIN workerCh = {} /\ ToSet(workerCh) = {}
    <2>1. workerCh = <<>>
      BY DEF Init
    <2>2. workerCh \in Seq(Worker) /\ Len(workerCh) = 0
      BY <2>1
    <2>3. DOMAIN workerCh = {}
      BY <2>2
    <2>4. ToSet(workerCh) = {}
      BY <2>3 DEF ToSet
    <2> QED
      BY <2>2, <2>3, <2>4
  <1>4. found \in [{"error", "critical"} -> 0..MaxFound] /\ found.error = 0 /\ found.critical = 0
    <2>1. found = [error |-> 0, critical |-> 0]
      BY DEF Init
    <2>2. 0 \in 0..MaxFound
      BY BenchLoadAssumption
    <2>3. DOMAIN found = {"error", "critical"} /\ found = [k \in {"error", "critical"} |-> found[k]]
      BY <2>1
    <2> QED
      BY <2>1, <2>2, <2>3
  <1>5. TypeOK
    <2>1. /\ run.addition = 0 /\ run.passed = FALSE /\ run.normal = 0
          /\ run.critical = 0 /\ run.score = 0
      BY DEF Init, NoScore
    <2>2. pc \in [Worker -> {"new"}] /\ offer \in [Spawner -> Worker]
      BY BenchLoadAssumption DEF Init
    <2>3. \A w \in Worker : pc[w] = "new"
      BY DEF Init
    <2>4. /\ main = "start" /\ ctxDone = FALSE /\ errorCh = 0 /\ criticalCh = 0
          /\ errorCount = 0 /\ criticalCount = 0
      BY DEF Init
    <2>5. ChannelSize \in Nat
      BY BenchLoadAssumption
    <2>6. pc \in [Worker -> {"new", "offered", "queued", "working", "ending", "error",
                             "critical", "spawn", "done"}]
      BY <2>2
    <2>a. Len(workerCh) <= ChannelSize
      <3> HIDE DEF Worker
      <3> QED
        BY <1>3, <2>5
    <2>7. main \in {"start", "loop", "cancel", "wait", "returned", "scored"}
      BY <2>4
    <2>b. ctxDone \in BOOLEAN
      BY <2>4, Zenon
    <2>c. /\ errorCh \in 0..ChannelSize /\ criticalCh \in 0..ChannelSize
          /\ errorCount \in Nat /\ criticalCount \in Nat
      BY <2>4, <2>5
    <2>8. offer \in [Spawner -> Worker] /\ \A w \in Worker : pc[w] = "queued" <=> w \in ToSet(workerCh)
      BY <1>3, <2>2, <2>3
    <2>9. /\ run.addition \in Additions \cup {0}
          /\ run.normal \in Nat /\ run.critical \in Nat /\ run.score \in 0..run.addition
      BY <2>1
    <2>d. run.passed \in BOOLEAN
      BY <2>1, Zenon
    <2> QED
      BY <1>3, <1>4, <2>6, <2>7, <2>a, <2>8, <2>9, <2>b, <2>c, <2>d DEF TypeOK
  <1>6. NoneTwice /\ Offers /\ AllDone
    BY <1>3 DEF Init, NoneTwice, Offers, AllDone, Returned
  <1>7. EveryErrorAccounted
    <2>1. ~Exhausted(0, 0)
      BY BenchLoadAssumption DEF Exhausted
    <2>2. errorCount = 0 /\ errorCh = 0 /\ criticalCount = 0 /\ criticalCh = 0
      BY DEF Init
    <2> QED
      BY <1>1, <1>2, <1>4, <2>1, <2>2 DEF EveryErrorAccounted, Reporting
  <1>8. DeductsWhatWasFound
    BY DEF Init, DeductsWhatWasFound
  <1> QED
    BY <1>1, <1>2, <1>5, <1>6, <1>7, <1>8 DEF IInv

-----------------------------------------------------------------------------
(* The channel of the workers *)

LEMMA AppendToSet ==
  ASSUME NEW S, NEW s \in Seq(S), NEW x \in S,
         \A j, k \in DOMAIN s : s[j] = s[k] => j = k, x \notin ToSet(s)
  PROVE  /\ Append(s, x) \in Seq(S) /\ Len(Append(s, x)) = Len(s) + 1
         /\ ToSet(Append(s, x)) = ToSet(s) \cup {x}
         /\ \A j, k \in DOMAIN Append(s, x) : Append(s, x)[j] = Append(s, x)[k] => j = k
  <1> DEFINE t == Append(s, x)
  <1>1. /\ t \in Seq(S) /\ Len(t) = Len(s) + 1 /\ Len(s) \in Nat
        /\ DOMAIN t = 1..(Len(s) + 1) /\ DOMAIN s = 1..Len(s)
        /\ \A j \in 1..Len(s) : t[j] = s[j]
        /\ t[Len(s) + 1] = x
    OBVIOUS
  <1> HIDE DEF t
  <1>2. \A j \in DOMAIN t : j \in DOMAIN s \/ j = Len(s) + 1
    BY <1>1
  <1>3. ToSet(t) = ToSet(s) \cup {x}
    BY <1>1, <1>2 DEF ToSet
  <1>4. \A j \in DOMAIN s : s[j] # x
    BY DEF ToSet
  <1>5. \A j, k \in DOMAIN t : t[j] = t[k] => j = k
    BY <1>1, <1>2, <1>4
  <1> QED
    BY <1>1, <1>3, <1>5 DEF t

LEMMA TailToSet ==
  ASSUME NEW S, NEW s \in Seq(S), s # <<>>,
         \A j, k \in DOMAIN s : s[j] = s[k] => j = k
  PROVE  /\ Head(s) \in S /\ Head(s) \in ToSet(s)
         /\ Tail(s) \in Seq(S) /\ Len(Tail(s)) = Len(s) - 1 /\ Len(s) \in Nat \ {0}
         /\ ToSet(Tail(s)) = ToSet(s) \ {Head(s)}
         /\ \A j, k \in DOMAIN Tail(s) : Tail(s)[j] = Tail(s)[k] => j = k
  <1> DEFINE t == Tail(s)
  <1>1. /\ t \in Seq(S) /\ Len(t) = Len(s) - 1 /\ Len(s) \in Nat \ {0}
        /\ DOMAIN t = 1..(Len(s) - 1) /\ DOMAIN s = 1..Len(s)
        /\ \A j \in 1..(Len(s) - 1) : t[j] = s[j + 1]
        /\ Head(s) = s[1] /\ s[1] \in S
    OBVIOUS
  <1> HIDE DEF t
  <1>2. \A j \in DOMAIN t : j + 1 \in DOMAIN s /\ j + 1 # 1 /\ t[j] = s[j + 1]
    BY <1>1
  <1>3. \A j \in DOMAIN s : j = 1 \/ (j - 1 \in DOMAIN t /\ t[j - 1] = s[j])
    BY <1>1
  <1>4. 1 \in DOMAIN s
    BY <1>1
  <1>5. ToSet(t) = ToSet(s) \ {s[1]}
    BY <1>2, <1>3, <1>4 DEF ToSet
  <1>6. \A j, k \in DOMAIN t : t[j] = t[k] => j = k
    <2> SUFFICES ASSUME NEW j \in DOMAIN t, NEW k \in DOMAIN t, t[j] = t[k] PROVE j = k
      OBVIOUS
    <2>1. j + 1 = k + 1
      BY <1>2
    <2> QED
      BY <2>1, <1>1
  <1> QED
    BY <1>1, <1>4, <1>5, <1>6 DEF t, ToSet

-----------------------------------------------------------------------------
(* The steps *)

State == {"new", "offered", "queued", "working", "ending", "error", "critical", "spawn",
          "done"}

(* What becomes of a worker that is started, and of one that has sent another. *)
Begun == IF ctxDone THEN "done" ELSE "working"
Sent == IF ctxDone THEN "ending" ELSE "working"

LEMMA Goings == Begun \in {"working", "done"} /\ Sent \in {"working", "ending"}
  BY DEF Begun, Sent

(* What TypeOK says, fact by fact. *)
LEMMA Typing ==
  ASSUME TypeOK
  PROVE  /\ main \in {"start", "loop", "cancel", "wait", "returned", "scored"}
         /\ ctxDone \in BOOLEAN
         /\ workerCh \in Seq(Worker) /\ Len(workerCh) \in Nat /\ Len(workerCh) <= ChannelSize
         /\ errorCh \in Nat /\ errorCh <= ChannelSize
         /\ criticalCh \in Nat /\ criticalCh <= ChannelSize
         /\ errorCount \in Nat /\ criticalCount \in Nat
         /\ pc \in [Worker -> State] /\ offer \in [Spawner -> Worker]
         /\ found.error \in Nat /\ found.critical \in Nat
         /\ ChannelSize \in Nat /\ MaxFound \in Nat
         /\ Budget \in Nat \ {0} /\ CriticalCost \in Nat \ {0}
         /\ Spawner \subseteq Worker /\ Base \subseteq Worker /\ Spawned \subseteq Worker
  <1>1. ChannelSize \in Nat /\ MaxFound \in Nat
    BY BenchLoadAssumption
  <1>2. found["error"] \in 0..MaxFound /\ found["critical"] \in 0..MaxFound
    BY DEF TypeOK
  <1>3. errorCh \in 0..ChannelSize /\ criticalCh \in 0..ChannelSize
    BY DEF TypeOK
  <1>4. found.error \in Nat /\ found.critical \in Nat
    BY <1>1, <1>2
  <1>5. /\ errorCh \in Nat /\ errorCh <= ChannelSize
        /\ criticalCh \in Nat /\ criticalCh <= ChannelSize
    BY <1>1, <1>3
  <1>6. workerCh \in Seq(Worker) /\ Len(workerCh) \in Nat /\ Len(workerCh) <= ChannelSize
    BY DEF TypeOK
  <1>7. /\ Budget \in Nat \ {0} /\ CriticalCost \in Nat \ {0}
        /\ Spawner \subseteq Worker /\ Base \subseteq Worker /\ Spawned \subseteq Worker
    BY BenchLoadAssumption DEF Worker
  <1> QED
    BY <1>1, <1>4, <1>5, <1>6, <1>7 DEF TypeOK, State

(* A step that leaves the channel of the workers alone moves no worker to it   *)
(* or from it.                                                                 *)
LEMMA ChannelKept ==
  ASSUME TypeOK, NoneTwice, UNCHANGED workerCh, pc' \in [Worker -> State],
         \A w \in Worker : pc'[w] = "queued" <=> pc[w] = "queued"
  PROVE  /\ workerCh' \in Seq(Worker) /\ Len(workerCh') <= ChannelSize
         /\ \A w \in Worker : pc'[w] = "queued" <=> w \in ToSet(workerCh')
         /\ NoneTwice'
  BY DEF TypeOK, NoneTwice

(* The workers' channel is typed after every step, and holds no worker twice. *)
LEMMA ChannelStep ==
  ASSUME IInv, [Next]_vars
  PROVE  /\ pc' \in [Worker -> State]
         /\ workerCh' \in Seq(Worker) /\ Len(workerCh') <= ChannelSize
         /\ \A w \in Worker : pc'[w] = "queued" <=> w \in ToSet(workerCh')
         /\ NoneTwice'
  <1> DEFINE Goal == /\ pc' \in [Worker -> State]
                     /\ workerCh' \in Seq(Worker) /\ Len(workerCh') <= ChannelSize
                     /\ \A w \in Worker : pc'[w] = "queued" <=> w \in ToSet(workerCh')
                     /\ NoneTwice'
             Kept == /\ workerCh' = workerCh /\ pc' \in [Worker -> State]
                     /\ \A w \in Worker : pc'[w] = "queued" <=> pc[w] = "queued"
  <1>0. TypeOK /\ NoneTwice /\ Offers
    BY DEF IInv
  <1>k. Kept => Goal
    BY <1>0, ChannelKept
  <1>t. /\ pc \in [Worker -> State] /\ workerCh \in Seq(Worker) /\ Len(workerCh) <= ChannelSize
        /\ Len(workerCh) \in Nat /\ ChannelSize \in Nat
        /\ offer \in [Spawner -> Worker] /\ Spawner \subseteq Worker
        /\ Base \subseteq Worker /\ Spawned \subseteq Worker
        /\ Begun \in {"working", "done"} /\ Sent \in {"working", "ending"}
    BY <1>0, Typing, Goings
  <1>q. \A w \in Worker : pc[w] = "queued" <=> w \in ToSet(workerCh)
    BY <1>0 DEF TypeOK
  <1>a. ASSUME NEW w \in Worker, pc[w] # "queued", Len(workerCh) < ChannelSize,
               workerCh' = Append(workerCh, w), pc' \in [Worker -> State],
               \A v \in Worker : pc'[v] = "queued" <=> (v = w \/ pc[v] = "queued")
        PROVE  Goal
    <2>1. w \notin ToSet(workerCh)
      BY <1>a, <1>q
    <2>2. \A j, k \in DOMAIN workerCh : workerCh[j] = workerCh[k] => j = k
      BY <1>0 DEF NoneTwice
    <2>3. /\ workerCh' \in Seq(Worker) /\ Len(workerCh') = Len(workerCh) + 1
          /\ ToSet(workerCh') = ToSet(workerCh) \cup {w}
          /\ \A j, k \in DOMAIN workerCh' : workerCh'[j] = workerCh'[k] => j = k
      BY <1>t, <1>a, <2>1, <2>2, AppendToSet
    <2>4. Len(workerCh') <= ChannelSize
      BY <2>3, <1>a, <1>t
    <2> QED
      BY <2>3, <2>4, <1>a, <1>q DEF NoneTwice
  <1> HIDE DEF Goal
  <1> SUFFICES Goal
    BY DEF Goal
  <1>1. CASE SendBase
    <2>1. PICK w \in Base : /\ pc[w] = "new" /\ workerCh' = Append(workerCh, w)
                            /\ pc' = [pc EXCEPT ![w] = "queued"]
      BY <1>1 DEF SendBase
    <2>2. Len(workerCh) < ChannelSize
      BY <1>1 DEF SendBase
    <2>3. /\ w \in Worker /\ pc[w] # "queued" /\ pc' \in [Worker -> State]
          /\ \A v \in Worker : pc'[v] = "queued" <=> (v = w \/ pc[v] = "queued")
      BY <2>1, <1>t DEF State
    <2> QED
      BY <1>a, <2>1, <2>2, <2>3
  <1>2. CASE ReceiveWorker
    <2>1. /\ workerCh # <<>> /\ workerCh' = Tail(workerCh)
          /\ pc' = [pc EXCEPT ![Head(workerCh)] = Begun]
      BY <1>2 DEF ReceiveWorker, Begun
    <2>2. \A j, k \in DOMAIN workerCh : workerCh[j] = workerCh[k] => j = k
      BY <1>0 DEF NoneTwice
    <2>3. /\ Head(workerCh) \in Worker
          /\ workerCh' \in Seq(Worker) /\ Len(workerCh') = Len(workerCh) - 1
          /\ ToSet(workerCh') = ToSet(workerCh) \ {Head(workerCh)}
          /\ \A j, k \in DOMAIN workerCh' : workerCh'[j] = workerCh'[k] => j = k
      BY <1>t, <2>1, <2>2, TailToSet
    <2>4. Len(workerCh') <= ChannelSize
      BY <2>3, <1>t
    <2>5. /\ pc' \in [Worker -> State]
          /\ \A v \in Worker : pc'[v] = IF v = Head(workerCh) THEN Begun ELSE pc[v]
      <3> DEFINE h == Head(workerCh)
      <3>1. h \in Worker /\ pc' = [pc EXCEPT ![h] = Begun]
        BY <2>1, <2>3
      <3> HIDE DEF h
      <3>2. pc' \in [Worker -> State] /\ \A v \in Worker : pc'[v] = IF v = h THEN Begun ELSE pc[v]
        BY <3>1, <1>t DEF State
      <3> QED
        BY <3>2 DEF h
    <2> QED
      BY <2>3, <2>4, <2>5, <1>q, <1>t DEF Goal, NoneTwice
  <1>3. CASE \E w \in Worker : w \in Spawner /\ SendWorker(w)
    <2>1. PICK w \in Spawner : SendWorker(w)
      BY <1>3
    <2>2. /\ pc[w] = "spawn" /\ Len(workerCh) < ChannelSize
          /\ workerCh' = Append(workerCh, offer[w])
          /\ pc' = [pc EXCEPT ![w] = Sent, ![offer[w]] = "queued"]
      BY <2>1 DEF SendWorker, Sent
    <2>3. offer[w] \in Worker /\ w \in Worker /\ pc[offer[w]] = "offered"
      BY <2>2, <1>0, <1>t DEF Offers
    <2>4. /\ pc' \in [Worker -> State] /\ pc[offer[w]] # "queued"
          /\ \A v \in Worker : pc'[v] = "queued" <=> (v = offer[w] \/ pc[v] = "queued")
      <3> DEFINE x == offer[w]
      <3>1. x \in Worker /\ x # w /\ pc[x] = "offered"
        BY <2>2, <2>3
      <3>2. pc' = [pc EXCEPT ![w] = Sent, ![x] = "queued"]
        BY <2>2
      <3> HIDE DEF x
      <3>3. /\ pc' \in [Worker -> State] /\ pc[x] # "queued"
            /\ \A v \in Worker : pc'[v] = "queued" <=> (v = x \/ pc[v] = "queued")
        BY <3>1, <3>2, <2>2, <2>3, <1>t DEF State
      <3> QED
        BY <3>3 DEF x
    <2> QED
      BY <1>a, <2>2, <2>3, <2>4
  <1>4. CASE \E w \in Spawner : Spawn(w)
    <2>1. PICK w \in Spawner, x \in Spawned :
             /\ pc[w] \in {"working", "ending"} /\ pc[x] = "new" /\ workerCh' = workerCh
             /\ pc' = [pc EXCEPT ![w] = "spawn", ![x] = "offered"]
      BY <1>4 DEF Spawn, channels
    <2>2. Kept
      BY <2>1, <1>t DEF State
    <2> QED
      BY <2>2, <1>k
  <1>5. CASE \E w \in Worker : \/ Finds(w, "error") \/ Finds(w, "critical")
                               \/ Leave(w) \/ Canceled(w)
    <2>1. PICK w \in Worker :
             /\ pc[w] \in {"working", "ending"} /\ workerCh' = workerCh
             /\ \E s \in {"error", "critical", "done"} : pc' = [pc EXCEPT ![w] = s]
      BY <1>5 DEF Finds, Leave, Canceled, channels
    <2>2. Kept
      BY <2>1, <1>t DEF State
    <2> QED
      BY <2>2, <1>k
  <1>6. CASE \E w \in Worker : SendError(w) \/ SendCritical(w)
    <2>1. PICK w \in Worker :
             /\ pc[w] \in {"error", "critical"} /\ workerCh' = workerCh
             /\ \E s \in {"working", "done"} : pc' = [pc EXCEPT ![w] = s]
      BY <1>6 DEF SendError, SendCritical, AfterError
    <2>2. Kept
      BY <2>1, <1>t DEF State
    <2> QED
      BY <2>2, <1>k
  <1>7. CASE \/ Begin \/ ReceiveError \/ ReceiveCritical \/ SeeDeadline
             \/ Cancel \/ Return \/ Score \/ Deadline \/ UNCHANGED vars
    <2>1. workerCh' = workerCh /\ pc' = pc
      BY <1>7 DEF Begin, ReceiveError, ReceiveCritical, SeeDeadline, Cancel, Return, Score,
         Deadline, vars, channels
    <2>2. Kept
      BY <2>1, <1>t
    <2> QED
      BY <2>2, <1>k
  <1> QED
    BY <1>1, <1>2, <1>3, <1>4, <1>5, <1>6, <1>7 DEF Next, Sends

(* Every spawner keeps a worker of its own to send. *)
LEMMA OffersStep == IInv /\ [Next]_vars => Offers' /\ offer' \in [Spawner -> Worker]
  <1> SUFFICES ASSUME IInv, [Next]_vars PROVE Offers' /\ offer' \in [Spawner -> Worker]
    OBVIOUS
  <1>0. TypeOK /\ Offers
    BY DEF IInv
  <1>t. /\ pc \in [Worker -> State] /\ offer \in [Spawner -> Worker]
        /\ Spawner \subseteq Worker /\ Base \subseteq Worker /\ Spawned \subseteq Worker
        /\ workerCh \in Seq(Worker)
        /\ Begun \in {"working", "done"} /\ Sent \in {"working", "ending"}
    BY <1>0, Typing, Goings
  <1>o. /\ \A w \in Worker : pc[w] = "spawn" => w \in Spawner /\ pc[offer[w]] = "offered"
        /\ \A v, w \in Spawner :
              pc[v] = "spawn" /\ pc[w] = "spawn" /\ offer[v] = offer[w] => v = w
    BY <1>0 DEF Offers
  <1> DEFINE Kept == /\ offer' = offer
                     /\ \A w \in Worker : /\ pc'[w] = "spawn" => pc[w] = "spawn"
                                          /\ pc[w] = "offered" => pc'[w] = "offered"
  <1>k. ASSUME Kept PROVE Offers' /\ offer' \in [Spawner -> Worker]
    BY <1>k, <1>o, <1>t DEF Offers
  <1>1. CASE SendBase
    <2>1. PICK w \in Base : pc[w] = "new" /\ pc' = [pc EXCEPT ![w] = "queued"] /\ offer' = offer
      BY <1>1 DEF SendBase
    <2>2. Kept
      BY <2>1, <1>t
    <2> QED
      BY <2>2, <1>k
  <1>2. CASE ReceiveWorker
    <2> DEFINE h == Head(workerCh)
    <2>1. workerCh # <<>> /\ pc' = [pc EXCEPT ![h] = Begun] /\ offer' = offer
      BY <1>2 DEF ReceiveWorker, Begun
    <2>2. h \in Worker /\ pc[h] = "queued"
      <3>1. \A j, k \in DOMAIN workerCh : workerCh[j] = workerCh[k] => j = k
        BY DEF IInv, NoneTwice
      <3>2. h \in Worker /\ h \in ToSet(workerCh)
        BY <2>1, <3>1, <1>t, TailToSet
      <3> QED
        BY <3>2, <1>0 DEF TypeOK
    <2> HIDE DEF h
    <2>3. Kept
      BY <2>1, <2>2, <1>t
    <2> QED
      BY <2>3, <1>k
  <1>3. CASE \E w \in Worker : w \in Spawner /\ SendWorker(w)
    <2>1. PICK w \in Spawner :
             /\ pc[w] = "spawn"
             /\ pc' = [pc EXCEPT ![w] = Sent, ![offer[w]] = "queued"]
             /\ offer' = [offer EXCEPT ![w] = w]
      BY <1>3 DEF SendWorker, Sent
    <2> DEFINE x == offer[w]
    <2>2. w \in Worker /\ x \in Worker /\ pc[x] = "offered" /\ x # w
      BY <2>1, <1>t, <1>o
    <2>3. /\ pc' = [pc EXCEPT ![w] = Sent, ![x] = "queued"]
          /\ \A v \in Spawner : pc[v] = "spawn" /\ offer[v] = x => v = w
      BY <2>1, <1>o
    <2> HIDE DEF x
    <2>4. \A v \in Worker :
             pc'[v] = IF v = x THEN "queued" ELSE IF v = w THEN Sent ELSE pc[v]
      BY <2>2, <2>3, <1>t
    <2>5. \A v \in Spawner : offer'[v] = IF v = w THEN w ELSE offer[v]
      BY <2>1, <1>t
    <2>6. \A v \in Worker : pc'[v] = "spawn" => v # w /\ v \in Spawner /\ pc[v] = "spawn"
      BY <2>4, <1>o, <1>t
    <2>7. \A v \in Worker : pc'[v] = "spawn" => v \in Spawner /\ pc'[offer'[v]] = "offered"
      <3> SUFFICES ASSUME NEW v \in Worker, pc'[v] = "spawn"
                   PROVE  v \in Spawner /\ pc'[offer'[v]] = "offered"
        OBVIOUS
      <3>1. v \in Spawner /\ v # w /\ pc[v] = "spawn" /\ offer'[v] = offer[v]
        BY <2>5, <2>6
      <3>2. pc[offer[v]] = "offered" /\ offer[v] \in Worker /\ offer[v] # x
        BY <3>1, <2>3, <1>o, <1>t
      <3>3. offer[v] # w
        BY <3>2, <2>1
      <3> QED
        BY <3>1, <3>2, <3>3, <2>4
    <2>8. \A u, v \in Spawner :
             pc'[u] = "spawn" /\ pc'[v] = "spawn" /\ offer'[u] = offer'[v] => u = v
      BY <2>5, <2>6, <1>o, <1>t
    <2>9. offer' \in [Spawner -> Worker]
      BY <2>1, <2>2, <1>t
    <2> QED
      BY <2>7, <2>8, <2>9 DEF Offers
  <1>4. CASE \E w \in Spawner : Spawn(w)
    <2>1. PICK w \in Spawner, x \in Spawned :
             /\ pc[w] \in {"working", "ending"} /\ pc[x] = "new"
             /\ pc' = [pc EXCEPT ![w] = "spawn", ![x] = "offered"]
             /\ offer' = [offer EXCEPT ![w] = x]
      BY <1>4 DEF Spawn
    <2>2. w \in Worker /\ x \in Worker /\ x # w
      BY <2>1, <1>t
    <2>3. \A v \in Worker :
             pc'[v] = IF v = x THEN "offered" ELSE IF v = w THEN "spawn" ELSE pc[v]
      BY <2>1, <2>2, <1>t
    <2>4. \A v \in Spawner : offer'[v] = IF v = w THEN x ELSE offer[v]
      BY <2>1, <1>t
    <2>5. \A v \in Spawner : pc[v] = "spawn" => /\ offer[v] \in Worker /\ pc[offer[v]] = "offered"
                                                /\ offer[v] # w /\ offer[v] # x
      BY <2>1, <1>o, <1>t
    <2>6. \A v \in Worker : pc'[v] = "spawn" => v \in Spawner /\ (v = w \/ pc[v] = "spawn")
      BY <2>3, <1>o
    <2>7. \A v \in Worker : pc'[v] = "spawn" => v \in Spawner /\ pc'[offer'[v]] = "offered"
      BY <2>2, <2>3, <2>4, <2>5, <2>6
    <2>8. \A u, v \in Spawner :
             pc'[u] = "spawn" /\ pc'[v] = "spawn" /\ offer'[u] = offer'[v] => u = v
      BY <2>4, <2>5, <2>6, <1>o, <1>t
    <2>9. offer' \in [Spawner -> Worker]
      BY <2>1, <2>2, <1>t
    <2> QED
      BY <2>7, <2>8, <2>9 DEF Offers
  <1>5. CASE \E w \in Worker : \/ Finds(w, "error") \/ Finds(w, "critical")
                               \/ Leave(w) \/ Canceled(w)
    <2>1. PICK w \in Worker :
             /\ pc[w] \in {"working", "ending"} /\ offer' = offer
             /\ \E s \in {"error", "critical", "done"} : pc' = [pc EXCEPT ![w] = s]
      BY <1>5 DEF Finds, Leave, Canceled
    <2>2. Kept
      BY <2>1, <1>t
    <2> QED
      BY <2>2, <1>k
  <1>6. CASE \E w \in Worker : SendError(w) \/ SendCritical(w)
    <2>1. PICK w \in Worker :
             /\ pc[w] \in {"error", "critical"} /\ offer' = offer
             /\ \E s \in {"working", "done"} : pc' = [pc EXCEPT ![w] = s]
      BY <1>6 DEF SendError, SendCritical, AfterError
    <2>2. Kept
      BY <2>1, <1>t
    <2> QED
      BY <2>2, <1>k
  <1>7. CASE \/ Begin \/ ReceiveError \/ ReceiveCritical \/ SeeDeadline
             \/ Cancel \/ Return \/ Score \/ Deadline \/ UNCHANGED vars
    <2>1. offer' = offer /\ pc' = pc
      BY <1>7 DEF Begin, ReceiveError, ReceiveCritical, SeeDeadline, Cancel, Return, Score,
         Deadline, vars
    <2>2. Kept
      BY <2>1
    <2> QED
      BY <2>2, <1>k
  <1> QED
    BY <1>1, <1>2, <1>3, <1>4, <1>5, <1>6, <1>7 DEF Next, Sends

(* Once everyone is done nobody starts again. *)
LEMMA AllDoneStep == IInv /\ [Next]_vars => AllDone'
  <1> SUFFICES ASSUME IInv, [Next]_vars, Returned' PROVE \A w \in Worker : ~Running(w)'
    BY DEF AllDone
  <1>0. pc \in [Worker -> State]
    BY Typing DEF IInv
  <1>1. CASE Return
    BY <1>1 DEF Return, Running
  <1>2. CASE ~Return
    <2>1. main \in {"returned", "scored"}
      BY <1>2 DEF Next, Returned, SendBase, Begin, ReceiveWorker, ReceiveError,
         ReceiveCritical, SeeDeadline, Cancel, Score, Deadline, Finds, Leave, Canceled,
         Sends, SendError, SendCritical, SendWorker, Spawn, vars, loadVars, channels
    <2>2. \A w \in Worker : pc[w] \notin {"working", "ending", "error", "critical", "spawn"}
      BY <2>1 DEF IInv, AllDone, Returned, Running
    <2>3. Spawner \subseteq Worker
      BY BenchLoadAssumption
    <2>4. pc' = pc
      BY <1>2, <2>1, <2>2, <2>3 DEF Next, SendBase, Begin, ReceiveWorker, ReceiveError,
         ReceiveCritical, SeeDeadline, Cancel, Score, Deadline, Finds, Leave, Canceled,
         Sends, SendError, SendCritical, SendWorker, Spawn, vars
    <2> QED
      BY <2>2, <2>4 DEF Running
  <1> QED
    BY <1>1, <1>2

(* What the score of a run comes to: nobody has an error left to report by then. *)
LEMMA ScoreStep ==
  ASSUME IInv, Score
  PROVE  /\ run'.addition \in Additions \cup {0} /\ run'.passed \in BOOLEAN
         /\ run'.normal \in Nat /\ run'.critical \in Nat /\ run'.score \in 0..run'.addition
         /\ DeductsWhatWasFound'
  <1>1. /\ errorCount \in Nat /\ criticalCount \in Nat /\ errorCh \in Nat /\ criticalCh \in Nat
        /\ found.error \in Nat /\ found.critical \in Nat
        /\ Budget \in Nat \ {0} /\ CriticalCost \in Nat \ {0} /\ Additions \subseteq Nat
    BY Typing, BenchLoadAssumption DEF IInv
  <1>2. main = "returned" /\ UNCHANGED <<errorCount, criticalCount, found>>
    BY DEF Score
  <1>3. found.error = errorCount + errorCh /\ found.critical = criticalCount + criticalCh
    <2>1. \A w \in Worker : pc[w] \notin {"error", "critical"}
      BY <1>2 DEF IInv, AllDone, Returned, Running
    <2>2. {w \in Worker : pc[w] = "error"} = {} /\ {w \in Worker : pc[w] = "critical"} = {}
      BY <2>1
    <2>3. Cardinality({}) = 0
      BY FS_EmptySet
    <2> QED
      BY <1>1, <2>2, <2>3 DEF IInv, EveryErrorAccounted
  <1> DEFINE n == errorCount + errorCh + criticalCh
             k == n + criticalCount * CriticalCost
  <1>4. /\ Validation = n + criticalCount /\ criticalCount <= Validation
        /\ ~(Validation < criticalCount) /\ n \in Nat
        /\ Floor(Validation - criticalCount) = n
        /\ (IF Validation < criticalCount THEN Validation ELSE criticalCount) = criticalCount
    BY <1>1, <1>3 DEF Validation, Floor
  <1>5. PICK a \in Additions :
           /\ run'.addition = a /\ run'.normal = n /\ run'.critical = criticalCount
           /\ run'.score = Floor(a - (a * k) \div Budget)
           /\ run'.passed = (0 < run'.score /\ ~Exhausted(errorCount, criticalCount))
    BY <1>4 DEF Score
  <1>6. criticalCount * CriticalCost \in Nat /\ k \in Nat /\ a \in Nat
    BY <1>1, <1>4
  <1>7. (a * k) \div Budget \in Nat /\ (Budget <= k => a <= (a * k) \div Budget)
    <2> HIDE DEF k
    <2> QED
      BY <1>1, <1>6, DeductionBounds
  <1>8. /\ Floor(a - (a * k) \div Budget) \in 0..a
        /\ Budget <= k => Floor(a - (a * k) \div Budget) = 0
    <2> DEFINE q == (a * k) \div Budget
    <2>1. q \in Nat /\ (Budget <= k => a <= q)
      BY <1>7
    <2> HIDE DEF q, k
    <2>2. Floor(a - q) \in 0..a /\ (Budget <= k => Floor(a - q) = 0)
      BY <2>1, <1>6 DEF Floor
    <2> QED
      BY <2>2 DEF q
  <1>9. run'.passed \in BOOLEAN
    BY <1>5, Zenon
  <1>10. Exhausted(errorCount, criticalCount) => Budget <= k /\ Exhausted(n, criticalCount)
    <2> DEFINE m == criticalCount * CriticalCost
    <2>1. m \in Nat
      BY <1>6
    <2>2. k = n + m /\ errorCount <= n
      BY <1>1
    <2> HIDE DEF m, k
    <2>3. Budget <= errorCount + m => Budget <= k /\ Budget <= n + m
      BY <1>1, <1>4, <2>1, <2>2
    <2> QED
      BY <2>3 DEF m, Exhausted
  <1>11. DeductsWhatWasFound'
    <2> DEFINE x == run'.score
    <2>1. Validation' = Validation /\ criticalCount' = criticalCount /\ errorCount' = errorCount
          /\ found' = found
      BY <1>2 DEF Validation
    <2>2. /\ run'.normal + run'.critical = Validation
          /\ run'.critical <= found.critical /\ found.error <= run'.normal
      BY <1>1, <1>3, <1>4, <1>5
    <2>3. Exhausted(errorCount, criticalCount) =>
             run'.score = 0 /\ Exhausted(run'.normal, run'.critical)
      BY <1>5, <1>8, <1>10
    <2>4. Exhausted(errorCount', criticalCount') = Exhausted(errorCount, criticalCount)
      BY <2>1
    <2> QED
      BY <1>4, <2>1, <2>2, <2>3, <2>4 DEF DeductsWhatWasFound
  <1> QED
    BY <1>1, <1>4, <1>5, <1>6, <1>8, <1>9, <1>11

(* The rest of the types. *)
LEMMA TypeStep == IInv /\ [Next]_vars => TypeOK'
  <1> SUFFICES ASSUME IInv, [Next]_vars PROVE TypeOK'
    OBVIOUS
  <1>0. TypeOK
    BY DEF IInv
  <1>t. /\ errorCh \in Nat /\ errorCh <= ChannelSize /\ errorCount \in Nat
        /\ criticalCh \in Nat /\ criticalCh <= ChannelSize /\ criticalCount \in Nat
        /\ ChannelSize \in Nat /\ MaxFound \in Nat
        /\ found \in [{"error", "critical"} -> 0..MaxFound]
    BY <1>0, Typing DEF TypeOK
  <1> DEFINE RunOK(r) == /\ r.addition \in Additions \cup {0} /\ r.passed \in BOOLEAN
                         /\ r.normal \in Nat /\ r.critical \in Nat /\ r.score \in 0..r.addition
  <1>1. main' \in {"start", "loop", "cancel", "wait", "returned", "scored"}
    BY <1>0 DEF TypeOK, Next, SendBase, Begin, ReceiveWorker, ReceiveError,
       ReceiveCritical, SeeDeadline, Cancel, Return, Score, Deadline, Finds, Leave, Canceled,
       Sends, SendError, SendCritical, SendWorker, Spawn, vars, loadVars
  <1>2. ctxDone' \in BOOLEAN
    <2>1. ctxDone' = ctxDone \/ ctxDone' = TRUE
      BY DEF Next, SendBase, Begin, ReceiveWorker, ReceiveError,
         ReceiveCritical, SeeDeadline, Cancel, Return, Score, Deadline, Finds, Leave, Canceled,
         Sends, SendError, SendCritical, SendWorker, Spawn, vars
    <2>2. ctxDone \in BOOLEAN
      BY <1>0 DEF TypeOK
    <2> QED
      BY <2>1, <2>2, Zenon
  <1>3. /\ errorCh' \in 0..ChannelSize /\ criticalCh' \in 0..ChannelSize
        /\ errorCount' \in Nat /\ criticalCount' \in Nat
    <2>1. \/ UNCHANGED <<errorCh, criticalCh, errorCount, criticalCount>>
          \/ ReceiveError \/ ReceiveCritical
          \/ \E w \in Worker : SendError(w) \/ SendCritical(w)
      BY DEF Next, SendBase, Begin, ReceiveWorker,
         SeeDeadline, Cancel, Return, Score, Deadline, Finds, Leave, Canceled,
         Sends, SendWorker, Spawn, vars, loadVars, channels
    <2>2. CASE UNCHANGED <<errorCh, criticalCh, errorCount, criticalCount>>
      BY <2>2, <1>t
    <2>3. CASE ReceiveError
      BY <2>3, <1>t DEF ReceiveError
    <2>4. CASE ReceiveCritical
      BY <2>4, <1>t DEF ReceiveCritical
    <2>5. CASE \E w \in Worker : SendError(w) \/ SendCritical(w)
      BY <2>5, <1>t DEF SendError, SendCritical, loadVars
    <2> QED
      BY <2>1, <2>2, <2>3, <2>4, <2>5
  <1>4. found' \in [{"error", "critical"} -> 0..MaxFound]
    <2>1. \/ found' = found
          \/ \E kind \in {"error", "critical"} :
                found[kind] < MaxFound /\ found' = [found EXCEPT ![kind] = @ + 1]
      BY DEF Next, SendBase, Begin, ReceiveWorker, ReceiveError,
         ReceiveCritical, SeeDeadline, Cancel, Return, Score, Deadline, Finds, Leave, Canceled,
         Sends, SendError, SendCritical, SendWorker, Spawn, vars
    <2>2. CASE found' = found
      BY <2>2, <1>t
    <2>3. CASE \E kind \in {"error", "critical"} :
                  found[kind] < MaxFound /\ found' = [found EXCEPT ![kind] = @ + 1]
      <3>1. PICK kind \in {"error", "critical"} :
               found[kind] < MaxFound /\ found' = [found EXCEPT ![kind] = @ + 1]
        BY <2>3
      <3>2. found[kind] \in 0..MaxFound
        BY <1>t
      <3>3. found[kind] + 1 \in 0..MaxFound
        BY <3>1, <3>2, <1>t
      <3> QED
        BY <3>1, <3>3, <1>t
    <2> QED
      BY <2>1, <2>2, <2>3
  <1>5. RunOK(run')
    <2>1. run' = run \/ Score
      BY DEF Next, SendBase, Begin, ReceiveWorker, ReceiveError,
         ReceiveCritical, SeeDeadline, Cancel, Return, Deadline, Finds, Leave, Canceled,
         Sends, SendError, SendCritical, SendWorker, Spawn, vars
    <2>2. RunOK(run)
      BY <1>0 DEF TypeOK
    <2>3. Score => RunOK(run')
      BY ScoreStep
    <2> HIDE DEF RunOK
    <2> QED
      BY <2>1, <2>2, <2>3
  <1>6. offer' \in [Spawner -> Worker]
    BY OffersStep
  <1>7. /\ pc' \in [Worker -> State] /\ workerCh' \in Seq(Worker) /\ Len(workerCh') <= ChannelSize
        /\ \A w \in Worker : pc'[w] = "queued" <=> w \in ToSet(workerCh')
    BY ChannelStep
  <1> QED
    BY <1>1, <1>2, <1>3, <1>4, <1>5, <1>6, <1>7 DEF TypeOK, State

(* The score stands. *)
LEMMA DeductsStep == IInv /\ [Next]_vars => DeductsWhatWasFound'
  <1> SUFFICES ASSUME IInv, [Next]_vars, ~Score PROVE DeductsWhatWasFound'
    BY ScoreStep
  <1>1. CASE main = "scored"
    <2>1. \A w \in Worker : pc[w] \notin {"working", "ending", "error", "critical", "spawn"}
      BY <1>1 DEF IInv, AllDone, Returned, Running
    <2>2. Spawner \subseteq Worker
      BY BenchLoadAssumption
    <2>3. UNCHANGED <<main, errorCount, criticalCount, found, run>>
      BY <1>1, <2>1, <2>2 DEF Next, SendBase, Begin, ReceiveWorker, ReceiveError,
         ReceiveCritical, SeeDeadline, Cancel, Return, Deadline, Finds, Leave, Canceled,
         Sends, SendError, SendCritical, SendWorker, Spawn, vars, loadVars
    <2> QED
      BY <2>3 DEF IInv, DeductsWhatWasFound, Validation, Exhausted
  <1>2. CASE main # "scored"
    <2>1. main' # "scored"
      BY <1>2 DEF Next, SendBase, Begin, ReceiveWorker, ReceiveError,
         ReceiveCritical, SeeDeadline, Cancel, Return, Deadline, Finds, Leave, Canceled,
         Sends, SendError, SendCritical, SendWorker, Spawn, vars, loadVars
    <2> QED
      BY <2>1 DEF DeductsWhatWasFound
  <1> QED
    BY <1>1, <1>2

(* The way of the errors of a kind, from the workers through the channel to    *)
(* the counter.                                                                *)
Way(kind, ch, count) ==
    /\ IsFiniteSet(Reporting(kind))
    /\ found[kind] = count + ch + Cardinality(Reporting(kind))

LEMMA WayFind ==
  ASSUME NEW kind, NEW ch \in Nat, NEW count \in Nat, Way(kind, ch, count),
         NEW w, w \notin Reporting(kind), Reporting(kind)' = Reporting(kind) \cup {w},
         found'[kind] = found[kind] + 1
  PROVE  /\ IsFiniteSet(Reporting(kind)')
         /\ found'[kind] = count + ch + Cardinality(Reporting(kind)')
  <1> DEFINE R == Reporting(kind)
  <1>1. IsFiniteSet(R) /\ found[kind] = count + ch + Cardinality(R)
    BY DEF Way
  <1>2. IsFiniteSet(R \cup {w}) /\ Cardinality(R \cup {w}) = Cardinality(R) + 1
    BY <1>1, FS_AddElement
  <1>3. Cardinality(R) \in Nat
    BY <1>1, FS_CardinalityType
  <1> QED
    BY <1>1, <1>2, <1>3

LEMMA WaySend ==
  ASSUME NEW kind, NEW ch \in Nat, NEW count \in Nat, Way(kind, ch, count),
         NEW w \in Reporting(kind), Reporting(kind)' = Reporting(kind) \ {w},
         found'[kind] = found[kind]
  PROVE  /\ IsFiniteSet(Reporting(kind)')
         /\ found'[kind] = count + (ch + 1) + Cardinality(Reporting(kind)')
  <1> DEFINE R == Reporting(kind)
  <1>1. IsFiniteSet(R) /\ found[kind] = count + ch + Cardinality(R)
    BY DEF Way
  <1>2. IsFiniteSet(R \ {w}) /\ Cardinality(R \ {w}) = Cardinality(R) - 1
    BY <1>1, FS_RemoveElement
  <1>3. Cardinality(R) \in Nat
    BY <1>1, FS_CardinalityType
  <1> QED
    BY <1>1, <1>2, <1>3

(* Every error is in one place on its way after every step. *)
LEMMA ErrorsStep ==
  ASSUME IInv, [Next]_vars
  PROVE  /\ IsFiniteSet(Reporting("error")') /\ IsFiniteSet(Reporting("critical")')
         /\ found'.error = errorCount' + errorCh' + Cardinality(Reporting("error")')
         /\ found'.critical = criticalCount' + criticalCh' + Cardinality(Reporting("critical")')
  <1>t. /\ pc \in [Worker -> State] /\ Spawner \subseteq Worker /\ Base \subseteq Worker
        /\ Spawned \subseteq Worker /\ workerCh \in Seq(Worker)
        /\ errorCh \in Nat /\ criticalCh \in Nat /\ errorCount \in Nat /\ criticalCount \in Nat
        /\ found \in [{"error", "critical"} -> 0..MaxFound] /\ offer \in [Spawner -> Worker]
        /\ Begun \in {"working", "done"} /\ Sent \in {"working", "ending"}
    BY Typing, Goings DEF IInv, TypeOK
  <1>w. Way("error", errorCh, errorCount) /\ Way("critical", criticalCh, criticalCount)
    BY DEF IInv, EveryErrorAccounted, Way, Reporting
  <1>u. /\ (found'["error"] = found["error"] /\ UNCHANGED Reporting("error"))
           => /\ IsFiniteSet(Reporting("error")')
              /\ found'["error"] = errorCount + errorCh + Cardinality(Reporting("error")')
        /\ (found'["critical"] = found["critical"] /\ UNCHANGED Reporting("critical"))
           => /\ IsFiniteSet(Reporting("critical")')
              /\ found'["critical"] =
                    criticalCount + criticalCh + Cardinality(Reporting("critical")')
    BY <1>w DEF Way
  <1> DEFINE Counts == <<errorCh, criticalCh, errorCount, criticalCount>>
             Goal == /\ IsFiniteSet(Reporting("error")') /\ IsFiniteSet(Reporting("critical")')
                     /\ found'.error = errorCount' + errorCh' + Cardinality(Reporting("error")')
                     /\ found'.critical =
                           criticalCount' + criticalCh' + Cardinality(Reporting("critical")')
             Kept == /\ UNCHANGED Counts /\ found' = found
                     /\ \A v \in Worker : /\ pc'[v] = "error" <=> pc[v] = "error"
                                          /\ pc'[v] = "critical" <=> pc[v] = "critical"
  <1>k. ASSUME Kept PROVE Goal
    <2>1. UNCHANGED Reporting("error") /\ UNCHANGED Reporting("critical")
      BY <1>k DEF Reporting
    <2> QED
      BY <2>1, <1>k, <1>u, <1>w
  <1> HIDE DEF Goal
  <1> SUFFICES Goal
    BY DEF Goal
  <1>1. CASE SendBase \/ \E w \in Worker : Leave(w) \/ Canceled(w)
    <2>1. PICK w \in Worker :
             /\ pc[w] \in {"new", "working", "ending"} /\ UNCHANGED Counts /\ found' = found
             /\ \E s \in {"queued", "done"} : pc' = [pc EXCEPT ![w] = s]
      BY <1>1, <1>t DEF SendBase, Leave, Canceled, loadVars, channels
    <2>2. Kept
      BY <2>1, <1>t
    <2> QED
      BY <2>2, <1>k
  <1>2. CASE ReceiveWorker
    <2> DEFINE h == Head(workerCh)
    <2>1. /\ workerCh # <<>> /\ pc' = [pc EXCEPT ![h] = Begun]
          /\ UNCHANGED Counts /\ found' = found
      BY <1>2 DEF ReceiveWorker, Begun, loadVars
    <2>2. h \in Worker /\ pc[h] = "queued"
      <3>1. \A j, k \in DOMAIN workerCh : workerCh[j] = workerCh[k] => j = k
        BY DEF IInv, NoneTwice
      <3>2. h \in Worker /\ h \in ToSet(workerCh)
        BY <2>1, <3>1, <1>t, TailToSet
      <3> QED
        BY <3>2 DEF IInv, TypeOK
    <2> HIDE DEF h
    <2>3. Kept
      BY <2>1, <2>2, <1>t
    <2> QED
      BY <2>3, <1>k
  <1>3. CASE \E w \in Worker : w \in Spawner /\ SendWorker(w)
    <2>1. PICK w \in Spawner :
             /\ pc[w] = "spawn" /\ UNCHANGED Counts /\ found' = found
             /\ pc' = [pc EXCEPT ![w] = Sent, ![offer[w]] = "queued"]
      BY <1>3 DEF SendWorker, Sent, loadVars
    <2> DEFINE x == offer[w]
    <2>2. w \in Worker /\ x \in Worker /\ pc[x] = "offered"
      BY <2>1, <1>t DEF IInv, Offers
    <2>3. pc' = [pc EXCEPT ![w] = Sent, ![x] = "queued"]
      BY <2>1
    <2> HIDE DEF x
    <2>4. Kept
      BY <2>1, <2>2, <2>3, <1>t
    <2> QED
      BY <2>4, <1>k
  <1>4. CASE \E w \in Spawner : Spawn(w)
    <2>1. PICK w \in Spawner, x \in Spawned :
             /\ pc[w] \in {"working", "ending"} /\ pc[x] = "new" /\ UNCHANGED Counts /\ found' = found
             /\ pc' = [pc EXCEPT ![w] = "spawn", ![x] = "offered"]
      BY <1>4 DEF Spawn, loadVars, channels
    <2>2. Kept
      BY <2>1, <1>t
    <2> QED
      BY <2>2, <1>k
  <1>5. CASE \E w \in Worker : Finds(w, "error")
    <2>1. PICK w \in Worker :
             /\ pc[w] = "working" /\ UNCHANGED Counts
             /\ found' = [found EXCEPT !["error"] = @ + 1] /\ pc' = [pc EXCEPT ![w] = "error"]
      BY <1>5 DEF Finds, loadVars, channels
    <2>2. /\ w \notin Reporting("error") /\ Reporting("error")' = Reporting("error") \cup {w}
          /\ UNCHANGED Reporting("critical")
      BY <2>1, <1>t DEF Reporting
    <2>3. found'["error"] = found["error"] + 1 /\ found'["critical"] = found["critical"]
      BY <2>1, <1>t
    <2>4. /\ IsFiniteSet(Reporting("error")')
          /\ found'["error"] = errorCount + errorCh + Cardinality(Reporting("error")')
      BY <2>2, <2>3, <1>t, <1>w, WayFind
    <2> QED
      BY <2>1, <2>2, <2>3, <2>4, <1>u, <1>w DEF Goal
  <1>6. CASE \E w \in Worker : Finds(w, "critical")
    <2>1. PICK w \in Worker :
             /\ pc[w] = "working" /\ UNCHANGED Counts
             /\ found' = [found EXCEPT !["critical"] = @ + 1]
             /\ pc' = [pc EXCEPT ![w] = "critical"]
      BY <1>6 DEF Finds, loadVars, channels
    <2>2. /\ w \notin Reporting("critical")
          /\ Reporting("critical")' = Reporting("critical") \cup {w}
          /\ UNCHANGED Reporting("error")
      BY <2>1, <1>t DEF Reporting
    <2>3. found'["critical"] = found["critical"] + 1 /\ found'["error"] = found["error"]
      BY <2>1, <1>t
    <2>4. /\ IsFiniteSet(Reporting("critical")')
          /\ found'["critical"] = criticalCount + criticalCh + Cardinality(Reporting("critical")')
      BY <2>2, <2>3, <1>t, <1>w, WayFind
    <2> QED
      BY <2>1, <2>2, <2>3, <2>4, <1>u, <1>w DEF Goal
  <1>7. CASE \E w \in Worker : SendError(w)
    <2>1. PICK w \in Worker :
             /\ pc[w] = "error" /\ errorCh' = errorCh + 1 /\ found' = found
             /\ UNCHANGED <<criticalCh, errorCount, criticalCount>>
             /\ \E s \in {"working", "done"} : pc' = [pc EXCEPT ![w] = s]
      BY <1>7 DEF SendError, AfterError, loadVars
    <2>2. /\ w \in Reporting("error") /\ Reporting("error")' = Reporting("error") \ {w}
          /\ UNCHANGED Reporting("critical")
      BY <2>1, <1>t DEF Reporting
    <2>3. /\ IsFiniteSet(Reporting("error")')
          /\ found'["error"] = errorCount + (errorCh + 1) + Cardinality(Reporting("error")')
      BY <2>1, <2>2, <1>t, <1>w, WaySend
    <2> QED
      BY <2>1, <2>2, <2>3, <1>u, <1>w DEF Goal
  <1>8. CASE \E w \in Worker : SendCritical(w)
    <2>1. PICK w \in Worker :
             /\ pc[w] = "critical" /\ criticalCh' = criticalCh + 1 /\ found' = found
             /\ UNCHANGED <<errorCh, errorCount, criticalCount>>
             /\ \E s \in {"working", "done"} : pc' = [pc EXCEPT ![w] = s]
      BY <1>8 DEF SendCritical, AfterError, loadVars
    <2>2. /\ w \in Reporting("critical") /\ Reporting("critical")' = Reporting("critical") \ {w}
          /\ UNCHANGED Reporting("error")
      BY <2>1, <1>t DEF Reporting
    <2>3. /\ IsFiniteSet(Reporting("critical")')
          /\ found'["critical"] =
                criticalCount + (criticalCh + 1) + Cardinality(Reporting("critical")')
      BY <2>1, <2>2, <1>t, <1>w, WaySend
    <2> QED
      BY <2>1, <2>2, <2>3, <1>u, <1>w DEF Goal
  <1>9. CASE ReceiveError \/ ReceiveCritical
    <2>1. /\ pc' = pc /\ found' = found
          /\ \/ /\ errorCh > 0 /\ errorCh' = errorCh - 1 /\ errorCount' = errorCount + 1
                /\ UNCHANGED <<criticalCh, criticalCount>>
             \/ /\ criticalCh > 0 /\ criticalCh' = criticalCh - 1
                /\ criticalCount' = criticalCount + 1 /\ UNCHANGED <<errorCh, errorCount>>
      BY <1>9 DEF ReceiveError, ReceiveCritical
    <2>2. UNCHANGED Reporting("error") /\ UNCHANGED Reporting("critical")
      BY <2>1 DEF Reporting
    <2>3. /\ errorCount' + errorCh' = errorCount + errorCh
          /\ criticalCount' + criticalCh' = criticalCount + criticalCh
      BY <2>1, <1>t
    <2> QED
      BY <2>1, <2>2, <2>3, <1>u, <1>w DEF Goal
  <1>10. CASE Begin \/ SeeDeadline \/ Cancel \/ Return \/ Score \/ Deadline \/ UNCHANGED vars
    <2>1. Kept
      BY <1>10 DEF Begin, SeeDeadline, Cancel, Return, Score, Deadline, vars, loadVars, channels
    <2> QED
      BY <2>1, <1>k
  <1> QED
    BY <1>1, <1>2, <1>3, <1>4, <1>5, <1>6, <1>7, <1>8, <1>9, <1>10 DEF Next, Sends

(* The loop stops when the budget is used up. *)
LEMMA BudgetStep ==
  ASSUME IInv, [Next]_vars, Exhausted(errorCount, criticalCount)'
  PROVE  main' \notin {"start", "loop"}
  <1>1. Exhausted(errorCount, criticalCount) => main \notin {"start", "loop"}
    BY DEF IInv, EveryErrorAccounted
  <1>2. CASE ReceiveError
    <2>1. Exhausted(errorCount', criticalCount)
      BY <1>2 DEF ReceiveError, Exhausted
    <2> QED
      BY <1>2, <2>1 DEF ReceiveError
  <1>3. CASE ReceiveCritical
    <2>1. Exhausted(errorCount, criticalCount')
      BY <1>3 DEF ReceiveCritical, Exhausted
    <2> QED
      BY <1>3, <2>1 DEF ReceiveCritical
  <1>4. CASE ~ReceiveError /\ ~ReceiveCritical
    <2>1. UNCHANGED <<errorCount, criticalCount>>
      BY <1>4 DEF Next, SendBase, Begin, ReceiveWorker,
         SeeDeadline, Cancel, Return, Score, Deadline, Finds, Leave, Canceled,
         Sends, SendError, SendCritical, SendWorker, Spawn, vars, loadVars
    <2>2. main \notin {"start", "loop"}
      BY <1>1, <2>1 DEF Exhausted
    <2> QED
      BY <1>4, <2>2 DEF Next, SendBase, Begin, ReceiveWorker,
         SeeDeadline, Cancel, Return, Score, Deadline, Finds, Leave, Canceled,
         Sends, SendError, SendCritical, SendWorker, Spawn, vars, loadVars
  <1> QED
    BY <1>2, <1>3, <1>4

LEMMA StepInv == IInv /\ [Next]_vars => IInv'
  <1> SUFFICES ASSUME IInv, [Next]_vars PROVE IInv'
    OBVIOUS
  <1>1. TypeOK' /\ NoneTwice' /\ Offers' /\ AllDone' /\ DeductsWhatWasFound'
    BY TypeStep, ChannelStep, OffersStep, AllDoneStep, DeductsStep
  <1>2. EveryErrorAccounted'
    BY ErrorsStep, BudgetStep DEF EveryErrorAccounted, Reporting
  <1> QED
    BY <1>1, <1>2, ErrorsStep DEF IInv

LEMMA Invariant == Spec => []IInv
  BY InitInv, StepInv, PTL DEF Spec

-----------------------------------------------------------------------------
(* Theorems *)

(* The channels of Load stay within their size, whatever the workers send, and *)
(* a worker is in its channel exactly when it waits to be started.             *)
THEOREM TypeCorrect == Spec => []TypeOK
  <1>1. IInv => TypeOK
    BY DEF IInv
  <1> QED
    BY Invariant, <1>1, PTL

(* No error is lost or counted twice on its way from a worker to the counters  *)
(* of Load, and the loop does not go on beyond the budget.                     *)
THEOREM ErrorsAccounted == Spec => []EveryErrorAccounted
  <1>1. IInv => EveryErrorAccounted
    BY DEF IInv
  <1> QED
    BY Invariant, <1>1, PTL

(* The score takes off every error that was found, no matter how many were     *)
(* still on their way when the load was broken off.                            *)
THEOREM DeductsFound == Spec => []DeductsWhatWasFound
  <1>1. IInv => DeductsWhatWasFound
    BY DEF IInv
  <1> QED
    BY Invariant, <1>1, PTL

-----------------------------------------------------------------------------
(* The player's worker: the inductive invariant *)

(* What a step of the worker needs when it comes to be taken. *)
Ready(label) ==
    /\ label = "choose" => pass.shown # 0
    /\ label \in {"ask", "ranking", "show"} => at.comp # 0
    /\ label = "show" => at.players /\ at.toShow # 0

(* It has slept since its last ranking, or the load is over. *)
Rested ==
    ~reproduce /\ ~ctxDone /\ playerPc \in {"new", "list", "choose", "ask"} => busy = 0

Passes == [shown : Nat, round : 1..LoopCount]
Places == [comp : Nat, check : BOOLEAN, players : BOOLEAN, toShow : Nat]

OrganizerTyped ==
    /\ ctxDone \in BOOLEAN /\ reproduce \in BOOLEAN
    /\ competitions \in Seq(BOOLEAN)
    /\ organizer \in {"draw", "enrol", "job", "upload", "finish", "bill", "elsewhere", "done"}
    /\ organizer = "upload" => Len(competitions) # 0
    /\ tenant \in {"new", "initial"}
PlayerTyped ==
    /\ playerPc \in {"list", "choose", "ask", "ranking", "show", "rest"} \cup PlayerWorker!Stopped
    /\ resume \in {"list", "choose", "ask", "show"}
    /\ pass \in Passes /\ pass.shown <= Len(competitions)
    /\ at \in Places /\ at.comp <= pass.shown
    /\ slow \in 0..SlowLimit /\ busy \in 0..2

PlayerIInv ==
    /\ OrganizerTyped /\ PlayerTyped
    /\ Ready(playerPc) /\ (playerPc = "rest" => Ready(resume))
    /\ RestsBetweenRankings /\ Rested

LEMMA PlayerConstants ==
  /\ LoopCount \in Nat \ {0} /\ SlowLimit \in Nat \ {0} /\ PlayerCount \subseteq Nat \ {0}
  /\ MaxCompetitions \in Nat
  BY PlayerAssumption DEF PlayerWorker!PlayerScenarioAssumption

LEMMA PlayerTypesFollow == PlayerIInv => PlayerTypeOK
  <1> SUFFICES ASSUME PlayerIInv PROVE PlayerTypeOK
    OBVIOUS
  <1>1. Len(competitions) \in Nat
    BY LenProperties DEF PlayerIInv, OrganizerTyped
  <1>2. pass \in [shown : 0..Len(competitions), round : 1..LoopCount]
    BY <1>1 DEF PlayerIInv, PlayerTyped, Passes
  <1>3. at \in [comp : 0..pass.shown, check : BOOLEAN, players : BOOLEAN, toShow : Nat]
    BY <1>1 DEF PlayerIInv, PlayerTyped, Passes, Places
  <1> QED
    BY <1>2, <1>3 DEF PlayerIInv, OrganizerTyped, PlayerTyped, Ready, PlayerTypeOK, PlayerWorker!TypeOK

LEMMA PlayerInitially == PlayerWorker!Init => PlayerIInv
  <1> SUFFICES ASSUME PlayerWorker!Init PROVE PlayerIInv
    OBVIOUS
  <1>1. competitions \in Seq(BOOLEAN) /\ Len(competitions) = 0
    BY EmptySeq DEF PlayerWorker!Init
  <1>2. OrganizerTyped
    BY <1>1 DEF PlayerWorker!Init, OrganizerTyped
  <1>3. /\ pass \in Passes /\ pass.shown = 0 /\ at \in Places /\ at.comp = 0
    BY PlayerConstants DEF PlayerWorker!Init, PlayerWorker!NoPass, PlayerWorker!Nowhere, Passes, Places
  <1>4. PlayerTyped
    BY <1>1, <1>3, PlayerConstants DEF PlayerWorker!Init, PlayerWorker!Stopped, PlayerTyped
  <1>5. Ready(playerPc) /\ RestsBetweenRankings /\ Rested /\ playerPc # "rest"
    BY DEF PlayerWorker!Init, Ready, RestsBetweenRankings, PlayerWorker!RestsBetweenRankings, Rested
  <1> QED
    BY <1>2, <1>4, <1>5 DEF PlayerIInv

(* The organizer's worker adds competitions, and gives them scores. *)
LEMMA OrganizerKeeps ==
  ASSUME PlayerIInv, OrganizerTyped', Len(competitions) <= Len(competitions'),
         ctxDone => ctxDone',
         UNCHANGED <<reproduce, playerPc, resume, pass, at, slow, busy>>
  PROVE  PlayerIInv'
  <1>1. Len(competitions) \in Nat /\ Len(competitions') \in Nat
    BY LenProperties DEF PlayerIInv, OrganizerTyped
  <1>2. PlayerTyped'
    BY <1>1 DEF PlayerIInv, PlayerTyped, Passes
  <1>3. Rested' /\ RestsBetweenRankings'
    BY DEF PlayerIInv, Rested, RestsBetweenRankings, PlayerWorker!RestsBetweenRankings, OrganizerTyped
  <1> QED
    BY <1>2, <1>3 DEF PlayerIInv, Ready

LEMMA DeadlineKeeps ==
  ASSUME PlayerIInv, PlayerWorker!Deadline
  PROVE  PlayerIInv'
  <1>1. OrganizerTyped' /\ UNCHANGED competitions
    BY DEF PlayerIInv, PlayerWorker!Deadline, OrganizerTyped, PlayerWorker!tenantVars,
       PlayerWorker!playerVars
  <1>2. Len(competitions) \in Nat
    BY LenProperties DEF PlayerIInv, OrganizerTyped
  <1> QED
    BY <1>1, <1>2, OrganizerKeeps DEF PlayerWorker!Deadline, PlayerWorker!playerVars

LEMMA OrganizerStepKeeps ==
  ASSUME PlayerIInv, PlayerWorker!Organizer
  PROVE  PlayerIInv'
  <1>1. /\ OrganizerTyped /\ competitions \in Seq(BOOLEAN) /\ Len(competitions) \in Nat
        /\ UNCHANGED <<ctxDone, tenant, reproduce, playerPc, resume, pass, at, slow, busy>>
    BY LenProperties DEF PlayerIInv, OrganizerTyped, PlayerWorker!Organizer, PlayerWorker!Draw,
       PlayerWorker!Enrol, PlayerWorker!OpenCompetition, PlayerWorker!Upload, PlayerWorker!Finish,
       PlayerWorker!Bill, PlayerWorker!ScenarioFails, PlayerWorker!OrganizerEnds,
       PlayerWorker!Organizes, PlayerWorker!playerVars
  <1>2. CASE PlayerWorker!OpenCompetition
    <2>1. competitions' = Append(competitions, FALSE) /\ organizer' = "upload"
      BY <1>2 DEF PlayerWorker!OpenCompetition, PlayerWorker!Organizes
    <2>2. competitions' \in Seq(BOOLEAN) /\ Len(competitions') = Len(competitions) + 1
      BY <1>1, <2>1, AppendProperties
    <2> QED
      BY <1>1, <2>1, <2>2, OrganizerKeeps DEF OrganizerTyped
  <1>3. CASE PlayerWorker!Upload
    <2>1. /\ competitions' = [competitions EXCEPT ![Len(competitions)] = TRUE]
          /\ organizer' = "finish" /\ Len(competitions) \in 1..Len(competitions)
      BY <1>1, <1>3 DEF PlayerWorker!Upload, PlayerWorker!Organizes, OrganizerTyped
    <2>2. competitions' \in Seq(BOOLEAN) /\ Len(competitions') = Len(competitions)
      BY <1>1, <2>1, ExceptSeq
    <2> QED
      BY <1>1, <2>1, <2>2, OrganizerKeeps DEF OrganizerTyped
  <1>4. CASE ~PlayerWorker!OpenCompetition /\ ~PlayerWorker!Upload
    <2>1. /\ UNCHANGED competitions
          /\ organizer' \in {"draw", "enrol", "job", "bill", "elsewhere", "done"}
      BY <1>4 DEF PlayerWorker!Organizer, PlayerWorker!Draw,
         PlayerWorker!Enrol, PlayerWorker!Finish,
         PlayerWorker!Bill, PlayerWorker!ScenarioFails, PlayerWorker!OrganizerEnds,
         PlayerWorker!Organizes
    <2> QED
      BY <1>1, <2>1, OrganizerKeeps DEF OrganizerTyped
  <1> QED
    BY <1>2, <1>3, <1>4

(* The worker goes on with what is ready, or rests before it. *)
LEMMA PlayerKeeps ==
  ASSUME PlayerIInv, UNCHANGED <<ctxDone, competitions, organizer, tenant, reproduce>>,
         PlayerTyped', Ready(playerPc)', playerPc' = "rest" => Ready(resume)',
         ~reproduce => busy' <= 1, Rested'
  PROVE  PlayerIInv'
  BY DEF PlayerIInv, OrganizerTyped, RestsBetweenRankings, PlayerWorker!RestsBetweenRankings

LEMMA Types ==
  ASSUME PlayerIInv
  PROVE  /\ pass \in Passes /\ pass.shown \in Nat /\ pass.round \in 1..LoopCount
         /\ pass.shown <= Len(competitions) /\ Len(competitions) \in Nat
         /\ at \in Places /\ at.comp \in Nat /\ at.check \in BOOLEAN /\ at.players \in BOOLEAN
         /\ at.toShow \in Nat /\ at.comp <= pass.shown
         /\ slow \in 0..SlowLimit /\ busy \in 0..2 /\ (~reproduce => busy <= 1)
         /\ ctxDone \in BOOLEAN /\ reproduce \in BOOLEAN /\ competitions \in Seq(BOOLEAN)
         /\ resume \in {"list", "choose", "ask", "show"}
  BY LenProperties DEF PlayerIInv, OrganizerTyped, PlayerTyped, Passes, Places,
     RestsBetweenRankings, PlayerWorker!RestsBetweenRankings

LEMMA Beginnings ==
  /\ PlayerWorker!NoPass \in Passes /\ PlayerWorker!NoPass.shown = 0
  /\ PlayerWorker!Nowhere \in Places /\ PlayerWorker!Nowhere.comp = 0
  BY PlayerConstants DEF PlayerWorker!NoPass, PlayerWorker!Nowhere, Passes, Places

LEMMA StopsKeeps ==
  ASSUME PlayerIInv, UNCHANGED <<ctxDone, competitions, organizer, tenant, reproduce, busy>>,
         slow' \in 0..SlowLimit, NEW how \in {"ended", "left", "failed"}, PlayerWorker!Stops(how)
  PROVE  PlayerIInv'
  <1>1. playerPc' = how /\ resume' = "list" /\ pass' = PlayerWorker!NoPass /\ at' = PlayerWorker!Nowhere
    BY DEF PlayerWorker!Stops, PlayerWorker!Goes
  <1>2. PlayerTyped'
    BY <1>1, Beginnings, Types DEF PlayerTyped, PlayerWorker!Stopped
  <1>3. Ready(playerPc)' /\ Rested'
    BY <1>1 DEF Ready, Rested
  <1> QED
    BY <1>1, <1>2, <1>3, Types, PlayerKeeps

LEMMA StartPlayerKeeps ==
  ASSUME PlayerIInv, PlayerWorker!StartPlayer
  PROVE  PlayerIInv'
  <1>1. /\ playerPc = "new" /\ playerPc' = "list" /\ resume' = "list"
        /\ UNCHANGED <<ctxDone, competitions, organizer, tenant, reproduce, pass, at, slow, busy>>
    BY DEF PlayerWorker!StartPlayer, PlayerWorker!Goes, PlayerWorker!others, PlayerWorker!tenantVars
  <1>2. PlayerTyped' /\ Ready(playerPc)' /\ Rested'
    BY <1>1 DEF PlayerIInv, PlayerTyped, Ready, Rested
  <1> QED
    BY <1>1, <1>2, Types, PlayerKeeps

LEMMA ListCompetitionsKeeps ==
  ASSUME PlayerIInv, PlayerWorker!ListCompetitions
  PROVE  PlayerIInv'
  <1>1. /\ playerPc = "list" /\ ~ctxDone /\ resume' = "list"
        /\ pass' = [PlayerWorker!NoPass EXCEPT !.shown = Len(competitions)]
        /\ playerPc' = IF competitions = <<>> THEN "rest" ELSE "choose"
        /\ UNCHANGED <<ctxDone, competitions, organizer, tenant, reproduce, at, slow, busy>>
    BY DEF PlayerWorker!ListCompetitions, PlayerWorker!Goes, PlayerWorker!Rest,
       PlayerWorker!others, PlayerWorker!tenantVars
  <1>2. pass' \in Passes /\ pass'.shown = Len(competitions)
    BY <1>1, Types, PlayerConstants DEF PlayerWorker!NoPass, Passes
  <1>3. competitions # <<>> => Len(competitions) # 0
    BY Types, EmptySeq
  <1>4. PlayerTyped'
    BY <1>1, <1>2, Types DEF PlayerTyped
  <1>5. Ready(playerPc)' /\ (playerPc' = "rest" => Ready(resume)') /\ Rested'
    BY <1>1, <1>2, <1>3 DEF PlayerIInv, Ready, Rested
  <1> QED
    BY <1>1, <1>4, <1>5, Types, PlayerKeeps

LEMMA ChooseCompetitionKeeps ==
  ASSUME PlayerIInv, PlayerWorker!ChooseCompetition
  PROVE  PlayerIInv'
  <1>1. /\ playerPc = "choose" /\ playerPc' = "ask" /\ resume' = "list"
        /\ UNCHANGED <<ctxDone, competitions, organizer, tenant, reproduce, pass, slow, busy>>
    BY DEF PlayerWorker!ChooseCompetition, PlayerWorker!Goes, PlayerWorker!others,
       PlayerWorker!tenantVars
  <1>2. PICK c \in 1..pass.shown, check \in BOOLEAN :
           at' = [PlayerWorker!Nowhere EXCEPT !.comp = c, !.check = check]
    BY DEF PlayerWorker!ChooseCompetition
  <1>3. at' \in Places /\ at'.comp = c /\ c \in Nat /\ c # 0 /\ c <= pass.shown
    <2>1. c \in Nat /\ c # 0 /\ c <= pass.shown
      BY Types
    <2>2. at' \in Places /\ at'.comp = c
      BY <1>2, <2>1 DEF PlayerWorker!Nowhere, Places
    <2> QED
      BY <2>1, <2>2
  <1>4. PlayerTyped'
    BY <1>1, <1>3, Types DEF PlayerTyped
  <1>5. Ready(playerPc)' /\ Rested'
    BY <1>1, <1>3 DEF PlayerIInv, Ready, Rested
  <1> QED
    BY <1>1, <1>4, <1>5, Types, PlayerKeeps

LEMMA AskRankingKeeps ==
  ASSUME PlayerIInv, PlayerWorker!AskRanking
  PROVE  PlayerIInv'
  <1>1. /\ playerPc = "ask" /\ playerPc' = "ranking" /\ resume' = "list" /\ ~ctxDone
        /\ busy' = IF busy < 2 THEN busy + 1 ELSE busy
        /\ UNCHANGED <<ctxDone, competitions, organizer, tenant, reproduce, pass, at, slow>>
    BY DEF PlayerWorker!AskRanking, PlayerWorker!Goes, PlayerWorker!others, PlayerWorker!tenantVars
  <1>2. busy' \in 0..2 /\ (~reproduce => busy' <= 1)
    BY <1>1, Types DEF PlayerIInv, Rested
  <1>3. PlayerTyped'
    BY <1>1, <1>2, Types DEF PlayerTyped
  <1>4. Ready(playerPc)' /\ Rested'
    BY <1>1 DEF PlayerIInv, Ready, Rested
  <1> QED
    BY <1>1, <1>2, <1>3, <1>4, PlayerKeeps

LEMMA NextCompetitionKeeps ==
  ASSUME PlayerIInv, UNCHANGED <<ctxDone, competitions, organizer, tenant, reproduce, busy>>,
         slow' \in 0..SlowLimit, NEW rests \in BOOLEAN, PlayerWorker!NextCompetition(rests),
         rests \/ reproduce, pass.shown # 0
  PROVE  PlayerIInv'
  <1> DEFINE last == pass.round = LoopCount
             next == IF last THEN "list" ELSE "choose"
  <1>1. /\ IF rests THEN playerPc' = "rest" /\ resume' = next ELSE playerPc' = next /\ resume' = "list"
        /\ pass' = IF last THEN PlayerWorker!NoPass ELSE [pass EXCEPT !.round = @ + 1]
        /\ at' = PlayerWorker!Nowhere
    BY DEF PlayerWorker!NextCompetition, PlayerWorker!Rest, PlayerWorker!Goes
  <1>2. /\ pass' \in Passes /\ pass'.shown <= Len(competitions) /\ pass'.shown \in Nat
        /\ ~last => pass'.shown # 0
    <2>1. CASE last
      BY <1>1, <2>1, Beginnings, Types
    <2>2. CASE ~last
      <3>1. pass.round + 1 \in 1..LoopCount
        BY <2>2, Types, PlayerConstants
      <3>2. pass' \in Passes /\ pass'.shown = pass.shown
        BY <1>1, <2>2, <3>1, Types DEF Passes
      <3> QED
        BY <3>2, Types
    <2> QED
      BY <2>1, <2>2
  <1>3. PlayerTyped'
    BY <1>1, <1>2, Beginnings, Types DEF PlayerTyped
  <1>4. Ready(playerPc)' /\ (playerPc' = "rest" => Ready(resume)') /\ Rested'
    BY <1>1, <1>2 DEF Ready, Rested
  <1> QED
    BY <1>1, <1>3, <1>4, Types, PlayerKeeps

LEMMA RankingAnsweredKeeps ==
  ASSUME PlayerIInv, PlayerWorker!RankingAnswered
  PROVE  PlayerIInv'
  <1>1. /\ playerPc = "ranking" /\ slow' \in 0..SlowLimit
        /\ UNCHANGED <<ctxDone, competitions, organizer, tenant, reproduce, busy>>
    BY Types, PlayerConstants DEF PlayerWorker!RankingAnswered, PlayerWorker!others,
       PlayerWorker!tenantVars
  <1>2. at.comp # 0 /\ pass.shown # 0
    BY <1>1, Types DEF PlayerIInv, Ready
  <1>3. CASE PlayerWorker!NobodyRanked
    <2>1. CASE reproduce
      BY <1>1, <1>2, <1>3, <2>1, NextCompetitionKeeps DEF PlayerWorker!NobodyRanked
    <2>2. CASE ~reproduce
      <3>1. /\ playerPc' = "rest" /\ resume' = "list" /\ pass' = PlayerWorker!NoPass
            /\ at' = PlayerWorker!Nowhere
        BY <1>3, <2>2 DEF PlayerWorker!NobodyRanked, PlayerWorker!Rest
      <3>2. PlayerTyped' /\ Ready(playerPc)' /\ Ready(resume)' /\ Rested'
        BY <1>1, <3>1, Beginnings, Types DEF PlayerTyped, Ready, Rested
      <3> QED
        BY <1>1, <3>2, Types, PlayerKeeps
    <2> QED
      BY <2>1, <2>2
  <1>4. CASE PlayerWorker!AskAgain
    <2>1. /\ at' = [at EXCEPT !.check = FALSE, !.players = TRUE] /\ UNCHANGED pass
          /\ IF reproduce THEN playerPc' = "ask" /\ resume' = "list"
                          ELSE playerPc' = "rest" /\ resume' = "ask"
      BY <1>4 DEF PlayerWorker!AskAgain, PlayerWorker!Rest, PlayerWorker!Goes
    <2>2. at' \in Places /\ at'.comp = at.comp
      BY <2>1, Types DEF Places
    <2>3. PlayerTyped' /\ Ready(playerPc)' /\ (playerPc' = "rest" => Ready(resume)') /\ Rested'
      BY <1>1, <1>2, <2>1, <2>2, Types DEF PlayerTyped, Ready, Rested
    <2> QED
      BY <1>1, <2>3, Types, PlayerKeeps
  <1>5. CASE PlayerWorker!LookAtPlayers
    <2>1. UNCHANGED pass /\ playerPc' = "show" /\ resume' = "list"
      BY <1>5 DEF PlayerWorker!LookAtPlayers, PlayerWorker!Goes
    <2>2. PICK n \in PlayerCount : at' = [at EXCEPT !.players = TRUE, !.toShow = n]
      BY <1>5 DEF PlayerWorker!LookAtPlayers
    <2>3. n \in Nat /\ n # 0
      BY PlayerConstants
    <2>4. at' \in Places /\ at'.comp = at.comp /\ at'.players /\ at'.toShow # 0
      BY <2>2, <2>3, Types DEF Places
    <2>5. PlayerTyped' /\ Ready(playerPc)' /\ Rested'
      BY <1>1, <1>2, <2>1, <2>4, Types DEF PlayerTyped, Ready, Rested
    <2> QED
      BY <1>1, <2>1, <2>5, Types, PlayerKeeps
  <1> QED
    BY <1>3, <1>4, <1>5 DEF PlayerWorker!RankingAnswered

LEMMA ShowPlayerKeeps ==
  ASSUME PlayerIInv, PlayerWorker!ShowPlayer
  PROVE  PlayerIInv'
  <1>1. /\ playerPc = "show" /\ ~ctxDone
        /\ UNCHANGED <<ctxDone, competitions, organizer, tenant, reproduce, slow, busy>>
        /\ at.comp # 0 /\ pass.shown # 0 /\ at.players /\ at.toShow # 0
    BY Types DEF PlayerIInv, Ready, PlayerWorker!ShowPlayer, PlayerWorker!others,
       PlayerWorker!tenantVars
  <1>2. CASE at.toShow = 1
    BY <1>1, <1>2, Types, NextCompetitionKeeps DEF PlayerWorker!ShowPlayer
  <1>3. CASE at.toShow # 1
    <2>1. /\ playerPc' = "rest" /\ resume' = "show" /\ at' = [at EXCEPT !.toShow = @ - 1]
          /\ UNCHANGED pass
      BY <1>3 DEF PlayerWorker!ShowPlayer, PlayerWorker!Rest
    <2>2. at.toShow - 1 \in Nat /\ at.toShow - 1 # 0
      BY <1>1, <1>3, Types
    <2>3. /\ at' \in Places /\ at'.comp = at.comp /\ at'.players = at.players
          /\ at'.toShow = at.toShow - 1
      BY <2>1, <2>2, Types DEF Places
    <2>4. PlayerTyped' /\ Ready(playerPc)' /\ Ready(resume)' /\ Rested'
      BY <1>1, <2>1, <2>2, <2>3, Types DEF PlayerTyped, Ready, Rested
    <2> QED
      BY <1>1, <2>4, Types, PlayerKeeps
  <1> QED
    BY <1>2, <1>3

LEMMA SleepKeeps ==
  ASSUME PlayerIInv, PlayerWorker!Sleep
  PROVE  PlayerIInv'
  <1>1. /\ playerPc = "rest" /\ playerPc' = resume /\ resume' = "list"
        /\ busy' = IF ctxDone THEN busy ELSE 0
        /\ UNCHANGED <<ctxDone, competitions, organizer, tenant, reproduce, pass, at, slow>>
    BY DEF PlayerWorker!Sleep, PlayerWorker!Goes, PlayerWorker!others, PlayerWorker!tenantVars
  <1>2. PlayerTyped' /\ Rested' /\ (~reproduce => busy' <= 1)
    BY <1>1, Types DEF PlayerTyped, Rested
  <1>3. Ready(playerPc)' /\ playerPc' # "rest"
    BY <1>1, Types DEF PlayerIInv, Ready
  <1> QED
    BY <1>1, <1>2, <1>3, PlayerKeeps

LEMMA PlayerInductive ==
  PlayerIInv /\ [PlayerWorker!Next]_(PlayerWorker!vars) => PlayerIInv'
  <1> SUFFICES ASSUME PlayerIInv, [PlayerWorker!Next]_(PlayerWorker!vars) PROVE PlayerIInv'
    OBVIOUS
  <1>1. ASSUME PlayerWorker!RankingTooSlow \/ PlayerWorker!Canceled \/ PlayerWorker!PlayerFails
        PROVE  PlayerIInv'
    BY <1>1, StopsKeeps, Types, PlayerConstants DEF PlayerWorker!RankingTooSlow, PlayerWorker!Canceled,
       PlayerWorker!PlayerFails, PlayerWorker!others, PlayerWorker!tenantVars
  <1>2. CASE PlayerWorker!Next
    BY <1>1, <1>2, DeadlineKeeps, OrganizerStepKeeps, StartPlayerKeeps, ListCompetitionsKeeps,
       ChooseCompetitionKeeps, AskRankingKeeps, RankingAnsweredKeeps, ShowPlayerKeeps, SleepKeeps
       DEF PlayerWorker!Next, PlayerWorker!Player
  <1>3. CASE UNCHANGED PlayerWorker!vars
    BY <1>3 DEF PlayerWorker!vars, PlayerWorker!tenantVars, PlayerWorker!playerVars, PlayerIInv,
       OrganizerTyped, PlayerTyped, Ready, Rested, RestsBetweenRankings,
       PlayerWorker!RestsBetweenRankings
  <1> QED
    BY <1>2, <1>3

LEMMA PlayerInvariant == PlayerWorker!Spec => []PlayerIInv
  <1>1. PlayerWorker!Init => PlayerIInv
    BY PlayerInitially
  <1> QED
    BY <1>1, PlayerInductive, PTL DEF PlayerWorker!Spec

-----------------------------------------------------------------------------
(* The load's loop and the player's worker share the end of the load. *)

LEMMA ContextKeeps ==
  ASSUME ctxDone \in BOOLEAN, [AnyStep]_allVars
  PROVE  /\ [Next]_vars /\ [PlayerWorker!Next]_(PlayerWorker!vars)
         /\ ctxDone' \in BOOLEAN
  <1> DEFINE Kept == ctxDone' = ctxDone \/ (~ctxDone /\ ctxDone' = TRUE)
  <1>1. CASE OnlyLoad /\ Next
    <2>1. Kept
      BY <1>1 DEF Next, SendBase, Begin, ReceiveWorker, ReceiveError, ReceiveCritical,
         SeeDeadline, Cancel, Return, Score, Deadline, Finds, Leave, Canceled,
         Sends, SendError, SendCritical, SendWorker, Spawn
    <2>2. UNCHANGED playerVars
      BY <1>1 DEF OnlyLoad
    <2>3. UNCHANGED PlayerWorker!vars \/ PlayerWorker!Deadline
      BY <2>1, <2>2 DEF playerVars, PlayerWorker!vars, PlayerWorker!tenantVars,
         PlayerWorker!playerVars, PlayerWorker!Deadline
    <2> QED
      BY <1>1, <2>1, <2>3 DEF PlayerWorker!Next
  <1>2. CASE OnlyPlayer /\ PlayerWorker!Next
    <2>1. Kept
      BY <1>2 DEF PlayerWorker!Next, PlayerWorker!Deadline, PlayerWorker!Organizer, PlayerWorker!Draw,
         PlayerWorker!Enrol, PlayerWorker!OpenCompetition, PlayerWorker!Upload, PlayerWorker!Finish,
         PlayerWorker!Bill, PlayerWorker!ScenarioFails, PlayerWorker!OrganizerEnds,
         PlayerWorker!Organizes, PlayerWorker!StartPlayer, PlayerWorker!Player,
         PlayerWorker!ListCompetitions, PlayerWorker!ChooseCompetition, PlayerWorker!AskRanking,
         PlayerWorker!RankingAnswered, PlayerWorker!RankingTooSlow, PlayerWorker!ShowPlayer,
         PlayerWorker!Sleep, PlayerWorker!Canceled, PlayerWorker!PlayerFails, PlayerWorker!others
    <2>2. UNCHANGED benchVars
      BY <1>2 DEF OnlyPlayer
    <2>3. UNCHANGED vars \/ Deadline
      BY <2>1, <2>2 DEF benchVars, vars, Deadline
    <2> QED
      BY <1>2, <2>1, <2>3 DEF Next
  <1>3. CASE UNCHANGED allVars
    BY <1>3 DEF allVars, benchVars, playerVars, vars, PlayerWorker!vars, PlayerWorker!tenantVars,
       PlayerWorker!playerVars
  <1> QED
    BY <1>1, <1>2, <1>3 DEF AnyStep

LEMMA ContextInvariant == LoadSpec => [](ctxDone \in BOOLEAN)
  <1>1. AnyPart => ctxDone \in BOOLEAN
    BY DEF AnyPart, Init
  <1>2. ctxDone \in BOOLEAN /\ [AnyStep]_allVars => (ctxDone \in BOOLEAN)'
    BY ContextKeeps
  <1> QED
    BY <1>1, <1>2, PTL DEF LoadSpec

(* Every behaviour of the load is one of its loop and one of the player's      *)
(* worker: what is proved of one holds of the load.                            *)
THEOREM PartsAreTheirSpecs == LoadSpec => Spec /\ PlayerWorker!Spec
  <1>1. AnyPart => Init /\ PlayerWorker!Init
    BY DEF AnyPart
  <1>2. ctxDone \in BOOLEAN /\ [AnyStep]_allVars =>
           [Next]_vars /\ [PlayerWorker!Next]_(PlayerWorker!vars)
    BY ContextKeeps
  <1> QED
    BY <1>1, <1>2, ContextInvariant, PTL DEF LoadSpec, Spec, PlayerWorker!Spec

(* Load's theorems hold beside the player's worker: no error is lost, and the  *)
(* score takes off what was found.                                             *)
THEOREM LoadAccounts == LoadSpec => [](EveryErrorAccounted /\ DeductsWhatWasFound)
  BY PartsAreTheirSpecs, ErrorsAccounted, DeductsFound, PTL

(* What the player's worker draws at random it draws from something.           *)
THEOREM PlayerTyping == LoadSpec => []PlayerTypeOK
  BY PlayerTypesFollow, PartsAreTheirSpecs, PlayerInvariant, PTL

(* PlayerScenario asks for one ranking between two sleeps, whatever the        *)
(* organizer's worker has uploaded so far.                                     *)
THEOREM PlayerRests == LoadSpec => []RestsBetweenRankings
  <1>1. PlayerIInv => RestsBetweenRankings
    BY DEF PlayerIInv
  <1> QED
    BY <1>1, PartsAreTheirSpecs, PlayerInvariant, PTL
=============================================================================
