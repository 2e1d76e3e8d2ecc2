------------------------------ MODULE BenchLoad ------------------------------
(***************************************************************************)
(* The load phase of the benchmarker (bench/scenario.go, Load): one loop   *)
(* selects over three channels, starts the workers that come in on one,    *)
(* counts the errors that come in on the others, and stops when the time   *)
(* is up or the errors have used up the budget.  Then it cancels the       *)
(* context and waits for the workers.  A worker sends to the channels from *)
(* within its requests; the goroutines of an organizer job are workers of  *)
(* their own here.  What the errors take off the score is computed at the  *)
(* end (bench/cmd/bench/main.go), from what the workers have recorded and  *)
(* from the critical ones Load has received.                               *)
(***************************************************************************)
EXTENDS Integers, Sequences, FiniteSets, SequencesExt

CONSTANTS
    Base,           \* workers Load itself starts: six
    Spawned,        \* workers other workers start: players and organizers
    Looping,        \* those with WithInfinityLoop; the others run once
    Spawner,        \* those that start others
    ChannelSize,    \* of each channel: 10
    Budget,         \* of errors: 100, of which a critical one takes CriticalCost;
                    \*   main.go takes off errors as percent, again of 100
    CriticalCost,   \* 10
    Additions,      \* what the requests of a run may add up to
    MaxFound        \* bound on the errors of each kind in a behaviour

Worker == Base \cup Spawned

ASSUME BenchLoadAssumption ==
    /\ Base \cap Spawned = {}
    /\ Looping \subseteq Worker /\ Spawner \subseteq Worker
    /\ IsFiniteSet(Base) /\ ChannelSize \in Nat \ {0} /\ Cardinality(Base) <= ChannelSize
    /\ Budget \in Nat \ {0} /\ CriticalCost \in Nat \ {0} /\ MaxFound \in Nat
    /\ Additions \subseteq Nat

VARIABLES
    main,           \* what Load does
    ctxDone,        \* the context is done: by its deadline or by step.Cancel
    workerCh,       \* the channels
    errorCh,
    criticalCh,
    errorCount,     \* what Load has received
    criticalCount,
    pc,             \* what each worker does
    offer,          \* the worker a spawner is sending
    found,          \* the validation errors recorded so far, of each kind
    run             \* its score, and the counts it is computed from

loadVars == <<main, errorCount, criticalCount>>
channels == <<workerCh, errorCh, criticalCh>>
vars == <<loadVars, ctxDone, channels, pc, offer, found, run>>

Running(w) == pc[w] \in {"working", "ending", "error", "critical", "spawn"}
Exhausted(errors, criticals) == Budget <= errors + criticals * CriticalCost

NoScore == [addition |-> 0, normal |-> 0, critical |-> 0, score |-> 0, passed |-> FALSE]

Init ==
    /\ main = "start" /\ ctxDone = FALSE
    /\ workerCh = <<>> /\ errorCh = 0 /\ criticalCh = 0
    /\ errorCount = 0 /\ criticalCount = 0
    /\ pc = [w \in Worker |-> "new"]
    /\ offer = [w \in Spawner |-> w]
    /\ found = [error |-> 0, critical |-> 0] /\ run = NoScore

-----------------------------------------------------------------------------
(* Load *)

(* The first workers are sent before anything is received. *)
SendBase ==
    /\ main = "start"
    /\ Len(workerCh) < ChannelSize
    /\ \E w \in Base :
          /\ pc[w] = "new"
          /\ workerCh' = Append(workerCh, w)
          /\ pc' = [pc EXCEPT ![w] = "queued"]
    /\ UNCHANGED <<loadVars, ctxDone, errorCh, criticalCh, offer, found, run>>

Begin ==
    /\ main = "start"
    /\ \A w \in Base : pc[w] # "new"
    /\ main' = "loop"
    /\ UNCHANGED <<errorCount, criticalCount, ctxDone, channels, pc, offer, found, run>>

(* A worker that is started when the context is done makes no request. *)
ReceiveWorker ==
    /\ main = "loop"
    /\ workerCh # <<>>
    /\ pc' = [pc EXCEPT ![Head(workerCh)] = IF ctxDone THEN "done" ELSE "working"]
    /\ workerCh' = Tail(workerCh)
    /\ UNCHANGED <<loadVars, ctxDone, errorCh, criticalCh, offer, found, run>>

(* Mutant: the select has no case for normal errors. *)
ReceiveErrorForgotten == FALSE /\ UNCHANGED vars

ReceiveError ==
    /\ main = "loop"
    /\ errorCh > 0
    /\ errorCh' = errorCh - 1
    /\ errorCount' = errorCount + 1
    /\ main' = IF Exhausted(errorCount', criticalCount) THEN "cancel" ELSE main
    /\ UNCHANGED <<criticalCount, ctxDone, workerCh, criticalCh, pc, offer, found, run>>

ReceiveCritical ==
    /\ main = "loop"
    /\ criticalCh > 0
    /\ criticalCh' = criticalCh - 1
    /\ criticalCount' = criticalCount + 1
    /\ main' = IF Exhausted(errorCount, criticalCount') THEN "cancel" ELSE main
    /\ UNCHANGED <<errorCount, ctxDone, workerCh, errorCh, pc, offer, found, run>>

SeeDeadline ==
    /\ main = "loop" /\ ctxDone
    /\ main' = "cancel"
    /\ UNCHANGED <<errorCount, criticalCount, ctxDone, channels, pc, offer, found, run>>

(* Mutant: step.Cancel() is forgotten. *)
CancelForgotten ==
    /\ main = "cancel"
    /\ main' = "wait"
    /\ UNCHANGED <<errorCount, criticalCount, ctxDone, channels, pc, offer, found, run>>

Cancel ==
    /\ main = "cancel"
    /\ ctxDone' = TRUE
    /\ main' = "wait"
    /\ UNCHANGED <<errorCount, criticalCount, channels, pc, offer, found, run>>

(* wg.Wait() *)
Return ==
    /\ main = "wait"
    /\ \A w \in Worker : ~Running(w)
    /\ main' = "returned"
    /\ UNCHANGED <<errorCount, criticalCount, ctxDone, channels, pc, offer, found, run>>

Validation == found.error + found.critical
Floor(n) == IF n < 0 THEN 0 ELSE n

(* Mutant: the score may fall below 0. *)
ScoreUnclamped ==
    /\ main = "returned"
    /\ main' = "scored"
    /\ \E addition \in Additions :
          LET normal == Floor(Validation - criticalCount)
              critical == Validation - normal
              score == addition - (addition * (normal + critical * CriticalCost)) \div Budget
          IN  run' = [addition |-> addition, normal |-> normal, critical |-> critical,
                      score |-> score,
                      passed |-> 0 < score /\ ~Exhausted(errorCount, criticalCount)]
    /\ UNCHANGED <<errorCount, criticalCount, ctxDone, channels, pc, offer, found>>

(* Normal errors are the validation errors less the critical ones that were    *)
(* received; an exhausted budget has left ErrFailedLoad behind.                *)
Score ==
    /\ main = "returned"
    /\ main' = "scored"
    /\ \E addition \in Additions :
          LET normal == Floor(Validation - criticalCount)
              critical == IF Validation < criticalCount THEN Validation ELSE criticalCount
              score == Floor(addition
                             - (addition * (normal + critical * CriticalCost)) \div Budget)
          IN  run' = [addition |-> addition, normal |-> normal, critical |-> critical,
                      score |-> score,
                      passed |-> 0 < score /\ ~Exhausted(errorCount, criticalCount)]
    /\ UNCHANGED <<errorCount, criticalCount, ctxDone, channels, pc, offer, found>>

(* The load timeout. *)
Deadline ==
    /\ ~ctxDone
    /\ ctxDone' = TRUE
    /\ UNCHANGED <<loadVars, channels, pc, offer, found, run>>

-----------------------------------------------------------------------------
(* Workers *)

(* An answer that is not what it should be.  When the context is done this is  *)
(* a request that was under way: a context that ends while the body of its     *)
(* answer is read makes a wrong one, too (ReadResponse drops the error of      *)
(* io.ReadAll; only the error of the request itself counts as cancelled).      *)
Finds(w, kind) ==
    /\ pc[w] = "working"
    /\ found[kind] < MaxFound
    /\ found' = [found EXCEPT ![kind] = @ + 1]
    /\ pc' = [pc EXCEPT ![w] = kind]
    /\ UNCHANGED <<loadVars, ctxDone, channels, offer, run>>

(* After an error a worker that loops sleeps, and goes on unless the context   *)
(* is done.                                                                    *)
AfterError(w) == IF w \in Looping /\ ~ctxDone THEN "working" ELSE "done"

(* Mutant: select with a default, an error that finds the channel full is lost. *)
SendErrorOrDrop(w) ==
    /\ pc[w] = "error"
    /\ errorCh' = IF errorCh < ChannelSize THEN errorCh + 1 ELSE errorCh
    /\ pc' = [pc EXCEPT ![w] = AfterError(w)]
    /\ UNCHANGED <<loadVars, ctxDone, workerCh, criticalCh, offer, found, run>>

(* AddErrorCount: blocks while the channel is full, whatever the context. *)
SendError(w) ==
    /\ pc[w] = "error"
    /\ errorCh < ChannelSize
    /\ errorCh' = errorCh + 1
    /\ pc' = [pc EXCEPT ![w] = AfterError(w)]
    /\ UNCHANGED <<loadVars, ctxDone, workerCh, criticalCh, offer, found, run>>

(* AddCriticalCount *)
SendCritical(w) ==
    /\ pc[w] = "critical"
    /\ criticalCh < ChannelSize
    /\ criticalCh' = criticalCh + 1
    /\ pc' = [pc EXCEPT ![w] = AfterError(w)]
    /\ UNCHANGED <<loadVars, ctxDone, workerCh, errorCh, offer, found, run>>

(* A new worker is made for a player or a tenant; the context is not looked at *)
(* and no request is made, so a loop of these goes on beyond the end.          *)
Spawn(w) ==
    /\ pc[w] \in {"working", "ending"}
    /\ \E x \in Spawned :
          /\ pc[x] = "new"
          /\ pc' = [pc EXCEPT ![w] = "spawn", ![x] = "offered"]
          /\ offer' = [offer EXCEPT ![w] = x]
    /\ UNCHANGED <<loadVars, ctxDone, channels, found, run>>

(* sc.WorkerCh <- wkr: the next request of w, if the context is done by then,  *)
(* is cancelled before it is sent.                                             *)
SendWorker(w) ==
    /\ pc[w] = "spawn"
    /\ Len(workerCh) < ChannelSize
    /\ workerCh' = Append(workerCh, offer[w])
    /\ pc' = [pc EXCEPT ![w] = IF ctxDone THEN "ending" ELSE "working",
                        ![offer[w]] = "queued"]
    /\ offer' = [offer EXCEPT ![w] = w]
    /\ UNCHANGED <<loadVars, ctxDone, errorCh, criticalCh, found, run>>

(* A player leaves for slow answers; its worker runs once. *)
Leave(w) ==
    /\ pc[w] = "working" /\ w \notin Looping
    /\ pc' = [pc EXCEPT ![w] = "done"]
    /\ UNCHANGED <<loadVars, ctxDone, channels, offer, found, run>>

(* The request of a worker is cancelled, or its loop sees the context. *)
Canceled(w) ==
    /\ pc[w] \in {"working", "ending"} /\ ctxDone
    /\ pc' = [pc EXCEPT ![w] = "done"]
    /\ UNCHANGED <<loadVars, ctxDone, channels, offer, found, run>>

Sends(w) == SendError(w) \/ SendCritical(w) \/ (w \in Spawner /\ SendWorker(w))

Next ==
    \/ SendBase \/ Begin
    \/ ReceiveWorker \/ ReceiveError \/ ReceiveCritical \/ SeeDeadline
    \/ Cancel \/ Return \/ Score \/ Deadline
    \/ \E w \in Worker : Finds(w, "error") \/ Finds(w, "critical") \/ Leave(w) \/ Canceled(w)
    \/ \E w \in Worker : Sends(w)
    \/ \E w \in Spawner : Spawn(w)

Spec == Init /\ [][Next]_vars

(* A select picks among its ready cases at random and the goroutines waiting   *)
(* at a channel are served in order: strong fairness of receives and sends.    *)
(* Load and a worker whose context is done go on by themselves.  The load may  *)
(* last as long as it likes.                                                   *)
FairSpec ==
    /\ Spec
    /\ WF_vars(SendBase) /\ WF_vars(Begin) /\ WF_vars(Cancel) /\ WF_vars(Return)
    /\ SF_vars(ReceiveWorker) /\ SF_vars(ReceiveError) /\ SF_vars(ReceiveCritical)
    /\ SF_vars(SeeDeadline)
    /\ \A w \in Worker : SF_vars(Sends(w)) /\ WF_vars(Canceled(w))

-----------------------------------------------------------------------------
(* Properties *)

(* The channels stay within their size, and a worker is in its channel exactly *)
(* when it waits to be started.                                                *)
TypeOK ==
    /\ main \in {"start", "loop", "cancel", "wait", "returned", "scored"} /\ ctxDone \in BOOLEAN
    /\ workerCh \in Seq(Worker) /\ Len(workerCh) <= ChannelSize
    /\ errorCh \in 0..ChannelSize /\ criticalCh \in 0..ChannelSize
    /\ errorCount \in Nat /\ criticalCount \in Nat
    /\ pc \in [Worker -> {"new", "offered", "queued", "working", "ending", "error",
                          "critical", "spawn", "done"}]
    /\ offer \in [Spawner -> Worker]
    /\ \A w \in Worker : pc[w] = "queued" <=> w \in ToSet(workerCh)
    /\ found \in [{"error", "critical"} -> 0..MaxFound]
    /\ run.addition \in Additions \cup {0} /\ run.passed \in BOOLEAN
    /\ run.normal \in Nat /\ run.critical \in Nat /\ run.score \in 0..run.addition

(* No error is lost or counted twice on its way from the worker that found it  *)
(* to the counter that decides about the budget, and the loop does not go on   *)
(* beyond the budget.                                                          *)
EveryErrorAccounted ==
    /\ found.error = errorCount + errorCh + Cardinality({w \in Worker : pc[w] = "error"})
    /\ found.critical =
          criticalCount + criticalCh + Cardinality({w \in Worker : pc[w] = "critical"})
    /\ Exhausted(errorCount, criticalCount) => main \notin {"start", "loop"}

(* No error found goes unpunished, though a critical one that Load has not     *)
(* received any more costs as much as a normal one; Load never receives more   *)
(* critical ones than were recorded (the warning in main does not come); and a *)
(* load that was broken off is scored 0, which its errors alone account for.   *)
DeductsWhatWasFound ==
    main = "scored" =>
        /\ criticalCount <= Validation
        /\ run.normal + run.critical = Validation
        /\ run.critical <= found.critical /\ found.error <= run.normal
        /\ Exhausted(errorCount, criticalCount) =>
              run.score = 0 /\ Exhausted(run.normal, run.critical)

(* The worker waits for room in a channel nobody receives from any more. *)
Stuck(w) ==
    /\ main = "wait"
    /\ \/ pc[w] = "error" /\ errorCh = ChannelSize
       \/ pc[w] = "critical" /\ criticalCh = ChannelSize
       \/ pc[w] = "spawn" /\ Len(workerCh) = ChannelSize

Returned == main \in {"returned", "scored"}

(* The load is to end: its time is up, or its errors have used up the budget. *)
Over == ctxDone \/ main = "cancel"

(* While the load runs, no worker waits for ever to report an error or to have *)
(* a worker started.                                                           *)
SendersGetOn ==
    \A w \in Worker :
        pc[w] \in {"error", "critical", "spawn"} ~>
            (pc[w] \in {"working", "done"} \/ Over \/ main = "wait" \/ Returned)

-----------------------------------------------------------------------------
(* When the loop is left, for the deadline or for the budget, Load logs that    *)
(* the load ends (scenario.go:317), and its deferred log line says that it has  *)
(* ended (scenario.go:209): the one is followed by the other.                   *)
LoadReturns == main = "cancel" ~> Returned
============================================================================
