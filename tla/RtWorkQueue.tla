----------------------------- MODULE RtWorkQueue -----------------------------
(***************************************************************************)
(* RT-Thread's work queue (components/drivers/ipc/workqueue.c) as the      *)
(* board's system queue is used: immediate submission, cancellation, the   *)
(* worker thread.  Each body between rt_hw_interrupt_disable and enable is *)
(* one step.  The doubly linked list of rtservice.h is kept with both its  *)
(* pointers, since re-initialising a linked item damages it.               *)
(*                                                                         *)
(* work->workqueue is left out: only the time-out of a delayed submission  *)
(* reads it, and nothing submits with a delay here.                        *)
(***************************************************************************)
CONSTANTS
  Work,          \* work items
  None,          \* NULL
  Head           \* &queue->work_list

ASSUME QueueAssumption == Head \notin Work /\ None \notin Work /\ None # Head

VARIABLES
  list,          \* next and prev of queue->work_list and of the items
  pending,       \* items with RT_WORK_STATE_PENDING
  current,       \* queue->work_current
  worker,        \* where the worker thread stands
  queued,        \* history: items accepted, neither taken nor withdrawn since
  before         \* history: pairs of them, in the order of their acceptance

queueVars == <<list, pending, current, worker, queued, before>>
-----------------------------------------------------------------------------
(* rtservice.h: the assignments of each function in their order, whatever  *)
(* the pointers are.                                                       *)

Node == Work \cup {Head}

rt_list_init(l, n) ==
  [next |-> [l.next EXCEPT ![n] = n], prev |-> [l.prev EXCEPT ![n] = n]]

\* Fault: the successor keeps its pointer to the removed item.
rt_list_remove_half(l, n) ==
  [next |-> [l.next EXCEPT ![l.prev[n]] = l.next[n], ![n] = n],
   prev |-> [l.prev EXCEPT ![n] = n]]

rt_list_remove(l, n) ==
  [next |-> [l.next EXCEPT ![l.prev[n]] = l.next[n], ![n] = n],
   prev |-> [l.prev EXCEPT ![l.next[n]] = l.prev[n], ![n] = n]]

rt_list_insert_after(l, p, n) ==
  [next |-> [l.next EXCEPT ![n] = l.next[p], ![p] = n],
   prev |-> [l.prev EXCEPT ![l.next[p]] = n, ![n] = p]]

\* Fault: the test for an empty list is missing.
rt_list_never_empty(l) == FALSE

rt_list_isempty(l) == l.next[Head] = Head
-----------------------------------------------------------------------------
\* What the history makes of an item that leaves, and of one that is accepted.
Without(bf, w) == {p \in bf : w \notin {p[1], p[2]}}
WithLast(bf, qd, w) == Without(bf, w) \cup ((qd \ {w}) \X {w})

Forget(w) == queued' = queued \ {w} /\ before' = Without(before, w)
Accept(w) == queued' = queued \cup {w} /\ before' = WithLast(before, queued, w)

\* Fault: the worker is resumed only while it has work.
ResumeIfBusy == IF current # None /\ worker = "suspended" THEN "loop" ELSE worker

\* The test of the worker's state in _workqueue_submit_work.  (A work function
\* that sleeps has suspended the thread too, but then work_current is set.)
Resume == IF current = None /\ worker = "suspended" THEN "loop" ELSE worker

\* Fault: the item goes to the front, as rt_workqueue_urgent_work puts it.
Inserted_first(l, w) == rt_list_insert_after(l, Head, w)

Inserted(l, w) == rt_list_insert_after(l, l.prev[Head], w)

\* _workqueue_submit_work with ticks = 0, on the list l.  The item that is
\* being executed is not accepted: -RT_EBUSY.
_workqueue_submit_work(l, w) ==
  /\ \/ /\ current # w
        /\ list' = Inserted(rt_list_remove(l, w), w)
        /\ pending' = pending \cup {w}
        /\ Accept(w)
     \/ /\ current = w
        /\ list' = rt_list_remove(l, w)
        /\ pending' = pending \ {w}
        /\ Forget(w)
  /\ worker' = Resume
  /\ UNCHANGED current

_workqueue_cancel_work(w) ==
  /\ list' = rt_list_remove(list, w)
  /\ pending' = pending \ {w}
  /\ Forget(w)
  /\ UNCHANGED <<current, worker>>
-----------------------------------------------------------------------------
(* rt_workqueue_create, and _workqueue_thread_entry                        *)

QueueInit ==
  /\ list = [next |-> [n \in Node |-> n], prev |-> [n \in Node |-> n]]
  /\ pending = {} /\ current = None /\ worker = "loop"
  /\ queued = {} /\ before = {}

WorkerSuspends ==
  /\ worker = "loop" /\ rt_list_isempty(list)
  /\ worker' = "suspended"
  /\ UNCHANGED <<list, pending, current, queued, before>>

WorkerTakes ==
  /\ worker = "loop" /\ ~rt_list_isempty(list)
  /\ worker' = "run"
  /\ current' = list.next[Head]
  /\ list' = rt_list_remove(list, list.next[Head])
  /\ pending' = pending \ {list.next[Head]}
  /\ Forget(list.next[Head])

\* The work function runs up to its rt_thread_mdelay, and from there on.
WorkSleeps ==
  /\ worker = "run"
  /\ worker' = "sleep"
  /\ UNCHANGED <<list, pending, current, queued, before>>

WorkReturns ==
  /\ worker = "sleep"
  /\ worker' = "done"
  /\ UNCHANGED <<list, pending, current, queued, before>>

\* Fault: _workqueue_work_completion does not leave its loop.
WorkerClearsOnly ==
  /\ worker = "done"
  /\ current' = None
  /\ UNCHANGED <<list, pending, worker, queued, before>>

\* work_current = RT_NULL; _workqueue_work_completion finds no waiter and
\* leaves the semaphore at 0.
WorkerClears ==
  /\ worker = "done"
  /\ current' = None /\ worker' = "loop"
  /\ UNCHANGED <<list, pending, queued, before>>

WorkerStep == WorkerSuspends \/ WorkerTakes \/ WorkSleeps \/ WorkReturns \/ WorkerClears
=============================================================================
