---------------------------- MODULE WorkerSlots -----------------------------
(***************************************************************************)
(* The worker slots a run shares between its pipelines: a weighted         *)
(* semaphore of --jobs slots (golang.org/x/sync/semaphore, used through    *)
(* runConfig.slots).  Compiles, baselines, coverage runs and mutant runs   *)
(* hold one slot; the re-run that confirms a verdict holds all of them.    *)
(*                                                                         *)
(* Only a pipeline's own goroutine acquires, so a pipeline waits for at    *)
(* most one request; the goroutines it starts release.                     *)
(***************************************************************************)
EXTENDS RunJobs, Sequences, FiniteSets

CONSTANT Tasks   \* what a pipeline can hold slots for

VARIABLES
  cur,       \* slots handed out
  waiters,   \* blocked Acquire calls, in the order they were made
  running    \* granted requests not yet released

slotVars == <<cur, waiters, running>>

Requests == [job : Jobs, task : Tasks, n : {1, NumSlots}]

Waiting == {waiters[i] : i \in DOMAIN waiters}
Blocked(j) == \E r \in Waiting : r.job = j

SlotTypeOK ==
  /\ cur \in 0 .. NumSlots
  /\ waiters \in Seq(Requests)
  /\ running \subseteq Requests

\* Slots the first k requests of ws ask for.
Demand(ws, k) ==
  k + (NumSlots - 1) * Cardinality({i \in 1 .. k : ws[i].n = NumSlots})

SlotInit ==
  /\ cur = 0
  /\ waiters = << >>
  /\ running = {}

-----------------------------------------------------------------------------
\* Mutant: a waiter that fits is granted past those that do not.
NotifyWaitersSkipping(ws, c, held, k) ==
  /\ k # 0 => ws[k].n <= NumSlots - c
  /\ cur' = IF k = 0 THEN c ELSE c + ws[k].n
  /\ waiters' = SubSeq(ws, 1, k - 1) \o SubSeq(ws, k + 1, Len(ws))
  /\ running' = IF k = 0 THEN held ELSE held \cup {ws[k]}

\* notifyWaiters: with c slots taken by `held`, the longest prefix of ws that
\* fits, k requests, is granted.  A request that does not fit blocks those
\* behind it.
NotifyWaiters(ws, c, held, k) ==
  /\ Demand(ws, k) <= NumSlots - c
  /\ k < Len(ws) => Demand(ws, k + 1) > NumSlots - c
  /\ cur' = c + Demand(ws, k)
  /\ waiters' = SubSeq(ws, k + 1, Len(ws))
  /\ running' = held \cup {ws[i] : i \in 1 .. k}

\* Mutant: Acquire takes free slots past the waiters.
AcquireNowBarging(r) ==
  /\ r.n <= NumSlots - cur
  /\ cur' = cur + r.n
  /\ running' = running \cup {r}
  /\ UNCHANGED waiters

\* Mutant: Acquire is content with one free slot.
AcquireNowOne(r) ==
  /\ cur < NumSlots
  /\ waiters = << >>
  /\ cur' = IF cur + r.n > NumSlots THEN NumSlots ELSE cur + r.n
  /\ running' = running \cup {r}
  /\ UNCHANGED waiters

\* Acquire jumps no queue: it takes slots only when nobody waits.
AcquireNow(r) ==
  /\ r.n <= NumSlots - cur
  /\ waiters = << >>
  /\ cur' = cur + r.n
  /\ running' = running \cup {r}
  /\ UNCHANGED waiters

AcquireLater(r) ==
  /\ ~(r.n <= NumSlots - cur /\ waiters = << >>)
  /\ waiters' = Append(waiters, r)
  /\ UNCHANGED <<cur, running>>

Acquire(r) ==
  /\ ~Blocked(r.job)
  /\ r \notin running
  /\ AcquireNow(r) \/ AcquireLater(r)

Release(r) ==
  /\ r \in running
  /\ \E k \in 0 .. Len(waiters) :
       NotifyWaiters(waiters, cur - r.n, running \ {r}, k)

\* Mutant: those behind a cancelled front waiter are not woken.
CancelWaitSilently(r) ==
  \E i \in DOMAIN waiters :
    /\ waiters[i] = r
    /\ waiters' = SubSeq(waiters, 1, i - 1) \o SubSeq(waiters, i + 1, Len(waiters))
    /\ UNCHANGED <<cur, running>>

\* Acquire returns early because its context was cancelled: the waiter leaves
\* the queue, and if it was in front those behind it may now fit.
CancelWait(r) ==
  \E i \in DOMAIN waiters :
    /\ waiters[i] = r
    /\ IF i = 1
         THEN \E k \in 0 .. Len(waiters) - 1 :
                NotifyWaiters(Tail(waiters), cur, running, k)
         ELSE /\ waiters' = SubSeq(waiters, 1, i - 1)
                              \o SubSeq(waiters, i + 1, Len(waiters))
              /\ UNCHANGED <<cur, running>>

SlotNext ==
  \E r \in Requests : Acquire(r) \/ Release(r) \/ CancelWait(r)

SlotSpec == SlotInit /\ [][SlotNext]_slotVars

\* Every process ends: tests have a timeout, and compiles terminate.
SlotFairness == \A r \in Requests : WF_slotVars(Release(r))

FairSlotSpec == SlotSpec /\ SlotFairness

-----------------------------------------------------------------------------
\* "each holds every worker slot, so nothing else, in this package or another,
\* runs beside it": a request for all slots runs alone.
RunsAlone ==
  \A r \in running : r.n = NumSlots => running = {r}

\* The slots handed out are those of the requests running: none leaks when a
\* wait is cancelled, and none is handed out twice.
SlotsAccounted ==
  cur = IF \E r \in running : r.n = NumSlots THEN NumSlots ELSE Cardinality(running)

\* No lost wake-up: whoever is in front of the queue really does not fit.
FrontBlocked ==
  waiters # << >> => waiters[1].n > NumSlots - cur

\* Nobody overtakes: whoever still waits when a request is granted was queued
\* behind it.
NoOvertaking ==
  [][\A r \in running' \ running : \A i \in DOMAIN waiters :
       waiters[i] \in Waiting' => \E k \in 1 .. i - 1 : waiters[k] = r]_slotVars

\* A waiting request is granted or cancelled in the end: re-runs that need all
\* the slots are not starved by a stream of one-slot requests.
NoStarvation == \A r \in Requests : (r \in Waiting) ~> (r \notin Waiting)
=============================================================================
