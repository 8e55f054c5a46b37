--------------------------- MODULE WorkTestProofs ---------------------------
(***************************************************************************)
(* The list of the work queue is sound, no wake-up is lost and work is     *)
(* executed in the order of its submission as long as no queued item is    *)
(* initialised again, for any set of work items.                           *)
(*                                                                         *)
(* Linked and Marked are not inductive: two items linked in a ring without *)
(* the head would satisfy them.  The history of acceptance excludes that:  *)
(* links follow the order of acceptance, which is a strict order.          *)
(***************************************************************************)
EXTENDS WorkTest, TLAPS

\* The order of acceptance is strict, and the links follow it: whoever came
\* before b came before b's predecessor or is it, and b is last or has one.
Follows(l, bf, a, n) == l.prev[n] \in Work /\ (a = l.prev[n] \/ <<a, l.prev[n]>> \in bf)
Strict(qd, bf) ==
  /\ \A a, b \in Work : <<a, b>> \in bf => a \in qd /\ b \in qd
  /\ \A a \in Work : <<a, a>> \notin bf
  /\ \A a, b, c \in Work : <<a, b>> \in bf /\ <<b, c>> \in bf => <<a, c>> \in bf
Ordered(l, qd, bf) ==
  /\ Strict(qd, bf)
  /\ \A a, b \in Work : l.next[a] = b /\ a # b => <<a, b>> \in bf
  /\ \A a, b \in Work : <<a, b>> \in bf => Follows(l, bf, a, b)
  /\ \A a \in qd : Follows(l, bf, a, Head)

Good(l, qd, bf) == qd \subseteq Work /\ Linked(l) /\ Marked(l, qd) /\ Ordered(l, qd, bf)

\* work_current is clear while the worker looks for work.
Between == worker \in {"loop", "suspended"} => current = None

Sound == Good(list, queued, before) /\ pending = queued /\ Awake
IInv == TypeOK /\ Between /\ (clobbered \/ Sound)
-----------------------------------------------------------------------------
\* rt_list_remove and the insertion at the end keep the types.
LEMMA ListTypes ==
  ASSUME NEW l \in ListType, NEW w \in Work
  PROVE  /\ rt_list_remove(l, w) \in ListType
         /\ rt_list_init(l, w) \in ListType
         /\ Inserted(l, w) \in ListType
  BY QueueAssumption DEF rt_list_remove, rt_list_init, Inserted, rt_list_insert_after, ListType, Node

\* What the histories of an item that leaves and of one that comes contain.
LEMMA HistoryPairs ==
  ASSUME NEW bf, NEW qd, NEW w \in Work, NEW a \in Work, NEW b \in Work
  PROVE  /\ <<a, b>> \in Without(bf, w) <=> <<a, b>> \in bf /\ a # w /\ b # w
         /\ <<a, b>> \in WithLast(bf, qd, w) <=>
              (<<a, b>> \in bf /\ a # w /\ b # w) \/ (a \in qd /\ a # w /\ b = w)
  BY DEF Without, WithLast

\* rt_list_remove takes an item out of a good list and leaves a good one,
\* also when the item is not in it.
LEMMA RemoveKeeps ==
  ASSUME NEW l \in ListType, NEW qd, NEW bf, NEW w \in Work, Good(l, qd, bf)
  PROVE  Good(rt_list_remove(l, w), qd \ {w}, Without(bf, w))
<1> DEFINE r == rt_list_remove(l, w)
           nx == l.next
           pv == l.prev
           ob == Without(bf, w)
<1>1. /\ nx \in [Node -> Node] /\ pv \in [Node -> Node]
      /\ r.next = [nx EXCEPT ![pv[w]] = nx[w], ![w] = w]
      /\ r.prev = [pv EXCEPT ![nx[w]] = pv[w], ![w] = w]
  BY DEF ListType, rt_list_remove
<1>2. w \in Node /\ Head \in Node /\ Head \notin Work /\ Node = Work \cup {Head}
  BY QueueAssumption DEF Node
<1>3. \A n \in Node : pv[nx[n]] = n /\ nx[pv[n]] = n
  BY DEF Good, Linked
<1>4. \A n \in Node : /\ r.next[n] = IF n = w THEN w ELSE IF n = pv[w] THEN nx[w] ELSE nx[n]
                      /\ r.prev[n] = IF n = w THEN w ELSE IF n = nx[w] THEN pv[w] ELSE pv[n]
  BY <1>1, <1>2
<1>5. Linked(r)
  <2> SUFFICES ASSUME NEW n \in Node
               PROVE  r.prev[r.next[n]] = n /\ r.next[r.prev[n]] = n
    BY DEF Linked
  <2> QED BY <1>1, <1>2, <1>3, <1>4
<1>6. Marked(r, qd \ {w})
  <2> SUFFICES ASSUME NEW v \in Work
               PROVE  v \in qd \ {w} <=> r.next[v] # v
    BY DEF Marked
  <2>1. v \in qd <=> nx[v] # v
    BY DEF Good, Marked
  <2>2. v # w => ~(nx[v] = w /\ nx[w] = v)
    BY DEF Good, Ordered, Strict
  <2> QED BY <1>1, <1>2, <1>3, <1>4, <2>1, <2>2
<1>7. \A a, b \in Work : <<a, b>> \in ob <=> <<a, b>> \in bf /\ a # w /\ b # w
  BY HistoryPairs
<1>8. Strict(qd \ {w}, ob)
  BY <1>7 DEF Good, Ordered, Strict
<1>9. \A a, b \in Work : r.next[a] = b /\ a # b => <<a, b>> \in ob
  <2> SUFFICES ASSUME NEW a \in Work, NEW b \in Work, r.next[a] = b, a # b
               PROVE  <<a, b>> \in bf /\ a # w /\ b # w
    BY <1>7
  <2>1. a # w /\ b # w
    BY <1>1, <1>2, <1>3, <1>4
  <2>2. CASE a = pv[w]
    <3>1. <<a, w>> \in bf /\ <<w, b>> \in bf
      BY <1>1, <1>2, <1>3, <1>4, <2>1, <2>2 DEF Good, Ordered
    <3> QED BY <3>1, <2>1 DEF Good, Ordered, Strict
  <2>3. CASE a # pv[w]
    BY <1>1, <1>2, <1>3, <1>4, <2>1, <2>3 DEF Good, Ordered
  <2> QED BY <2>2, <2>3
<1>10. ASSUME NEW a \in Work, NEW n \in Node, a # w, n # w, Follows(l, bf, a, n)
       PROVE  Follows(r, ob, a, n)
  <2>1. CASE n = nx[w]
    <3>1. pv[n] = w /\ <<a, w>> \in bf
      BY <1>2, <1>3, <1>10, <2>1 DEF Follows
    <3>2. Follows(l, bf, a, w)
      BY <3>1 DEF Good, Ordered
    <3>3. r.prev[n] = pv[w] /\ pv[w] # w
      BY <1>2, <1>3, <1>4, <1>10, <2>1
    <3> QED BY <3>2, <3>3, <1>7, <1>10 DEF Follows
  <2>2. CASE n # nx[w]
    <3>1. r.prev[n] = pv[n] /\ pv[n] # w
      BY <1>2, <1>3, <1>4, <1>10, <2>2
    <3> QED BY <3>1, <1>7, <1>10 DEF Follows
  <2> QED BY <2>1, <2>2
<1>11. \A a, b \in Work : <<a, b>> \in ob => Follows(r, ob, a, b)
  BY <1>2, <1>7, <1>10 DEF Good, Ordered
<1>12. \A a \in qd \ {w} : Follows(r, ob, a, Head)
  BY <1>2, <1>10 DEF Good, Ordered
<1> QED BY <1>5, <1>6, <1>8, <1>9, <1>11, <1>12 DEF Good, Ordered

\* The insertion at the end adds an item to a good list that is not in it,
\* behind all others, and leaves a good list that is not empty.
LEMMA InsertKeeps ==
  ASSUME NEW l \in ListType, NEW qd, NEW bf, NEW w \in Work, Good(l, qd, bf), w \notin qd
  PROVE  Good(Inserted(l, w), qd \cup {w}, WithLast(bf, qd, w))
<1> DEFINE r == Inserted(l, w)
           nx == l.next
           pv == l.prev
           p == l.prev[Head]
           nb == WithLast(bf, qd, w)
<1>1. w \in Node /\ Head \in Node /\ Head \notin Work /\ Node = Work \cup {Head} /\ w # Head
  BY QueueAssumption DEF Node
<1>2. nx \in [Node -> Node] /\ pv \in [Node -> Node]
  BY DEF ListType
<1>3. \A n \in Node : pv[nx[n]] = n /\ nx[pv[n]] = n
  BY DEF Good, Linked
<1>4. nx[w] = w /\ pv[w] = w /\ nx[p] = Head /\ p \in Node /\ p # w
  BY <1>1, <1>2, <1>3 DEF Good, Marked
<1>5. /\ r.next = [nx EXCEPT ![w] = nx[p], ![p] = w]
      /\ r.prev = [pv EXCEPT ![nx[p]] = w, ![w] = p]
  BY DEF Inserted, rt_list_insert_after
<1>6. \A n \in Node : /\ r.next[n] = IF n = p THEN w ELSE IF n = w THEN Head ELSE nx[n]
                      /\ r.prev[n] = IF n = w THEN p ELSE IF n = Head THEN w ELSE pv[n]
  BY <1>1, <1>2, <1>4, <1>5
<1>7. Linked(r)
  <2> SUFFICES ASSUME NEW n \in Node
               PROVE  r.prev[r.next[n]] = n /\ r.next[r.prev[n]] = n
    BY DEF Linked
  <2> QED BY <1>1, <1>2, <1>3, <1>4, <1>6
<1>8. Marked(r, qd \cup {w})
  <2> SUFFICES ASSUME NEW v \in Work
               PROVE  v \in qd \cup {w} <=> r.next[v] # v
    BY DEF Marked
  <2>1. v \in qd <=> nx[v] # v
    BY DEF Good, Marked
  <2> QED BY <1>1, <1>2, <1>3, <1>4, <1>6, <2>1
<1>9. \A a, b \in Work : <<a, b>> \in bf => a # w /\ b # w /\ a \in qd /\ b \in qd
  BY DEF Good, Ordered, Strict
<1>10. \A a, b \in Work : <<a, b>> \in nb <=> <<a, b>> \in bf \/ (a \in qd /\ b = w)
  BY <1>9, HistoryPairs
<1>11. Strict(qd \cup {w}, nb)
  <2>1. \A a, b \in Work : <<a, b>> \in nb => a \in qd \cup {w} /\ b \in qd \cup {w}
    BY <1>9, <1>10
  <2>2. \A a \in Work : <<a, a>> \notin nb
    BY <1>10 DEF Good, Ordered, Strict
  <2>3. \A a, b, c \in Work : <<a, b>> \in nb /\ <<b, c>> \in nb => <<a, c>> \in nb
    BY <1>9, <1>10 DEF Good, Ordered, Strict
  <2> QED BY <2>1, <2>2, <2>3 DEF Strict
<1>12. \A a, b \in Work : r.next[a] = b /\ a # b => <<a, b>> \in nb
  <2> SUFFICES ASSUME NEW a \in Work, NEW b \in Work, r.next[a] = b, a # b
               PROVE  <<a, b>> \in nb
    OBVIOUS
  <2>1. CASE a = p
    <3>1. b = w /\ nx[a] # a
      BY <1>1, <1>4, <1>6, <2>1
    <3> QED BY <3>1, <1>10 DEF Good, Marked
  <2>2. CASE a # p
    BY <1>1, <1>6, <1>10, <2>2 DEF Good, Ordered
  <2> QED BY <2>1, <2>2
<1>13. \A a, b \in Work : <<a, b>> \in nb => Follows(r, nb, a, b)
  <2> SUFFICES ASSUME NEW a \in Work, NEW b \in Work, <<a, b>> \in nb
               PROVE  Follows(r, nb, a, b)
    OBVIOUS
  <2>1. CASE b = w
    <3>1. a \in qd /\ r.prev[b] = p
      BY <1>1, <1>6, <1>9, <1>10, <2>1
    <3>2. Follows(l, bf, a, Head)
      BY <3>1 DEF Good, Ordered
    <3> QED BY <3>1, <3>2, <1>10 DEF Follows
  <2>2. CASE b # w
    <3>1. Follows(l, bf, a, b) /\ r.prev[b] = pv[b]
      BY <1>1, <1>6, <1>10, <2>2 DEF Good, Ordered
    <3> QED BY <3>1, <1>10 DEF Follows
  <2> QED BY <2>1, <2>2
<1>14. \A a \in qd \cup {w} : Follows(r, nb, a, Head)
  BY <1>1, <1>6, <1>10 DEF Follows, Good
<1> QED BY <1>7, <1>8, <1>11, <1>12, <1>13, <1>14 DEF Good, Ordered

\* Removing an item from the history twice, or before it is added as the
\* last, makes no difference.
LEMMA HistoryTwice ==
  ASSUME NEW bf, NEW qd, NEW w
  PROVE  /\ Without(Without(bf, w), w) = Without(bf, w)
         /\ WithLast(Without(bf, w), qd \ {w}, w) = WithLast(bf, qd, w)
  BY DEF Without, WithLast

\* Submission leaves a good list with the item at its end, or without it when
\* it is being executed; what was withdrawn before is withdrawn.
LEMMA SubmitKeeps ==
  ASSUME NEW l \in ListType, NEW w \in Work,
         NEW qd, NEW bf, Good(l, qd, bf),
         qd \ {w} = queued \ {w}, Without(bf, w) = Without(before, w),
         TypeOK, pending \ {w} = queued \ {w}, Awake, _workqueue_submit_work(l, w)
  PROVE  Good(list', queued', before') /\ pending' = queued' /\ Awake'
<1> DEFINE m == rt_list_remove(l, w)
<1>1. m \in ListType /\ Good(m, queued \ {w}, Without(before, w))
  BY ListTypes, RemoveKeeps
<1>2. CASE current # w
  <2>1. /\ list' = Inserted(m, w) /\ pending' = pending \cup {w}
        /\ queued' = queued \cup {w} /\ before' = WithLast(before, queued, w)
        /\ worker' = Resume /\ current' = current
    BY <1>2 DEF _workqueue_submit_work, Accept
  <2>2. Good(list', queued', before')
    <3>1. w \notin queued \ {w} /\ (queued \ {w}) \cup {w} = queued \cup {w}
      OBVIOUS
    <3>2. Good(Inserted(m, w), (queued \ {w}) \cup {w}, WithLast(Without(before, w), queued \ {w}, w))
      BY <1>1, <3>1, InsertKeeps
    <3> QED BY <2>1, <3>1, <3>2, HistoryTwice
  <2>3. pending' = queued'
    BY <2>1
  <2>4. worker' # "suspended"
    BY <2>1 DEF Resume, Awake
  <2> QED BY <2>2, <2>3, <2>4 DEF Awake
<1>3. CASE current = w
  <2>1. /\ list' = m /\ pending' = pending \ {w}
        /\ queued' = queued \ {w} /\ before' = Without(before, w)
        /\ worker' = Resume /\ current' = current
    BY <1>3, QueueAssumption DEF _workqueue_submit_work, Forget
  <2>2. worker' # "suspended"
    BY <2>1, <1>3, QueueAssumption DEF Resume, Awake
  <2> QED BY <1>1, <2>1, <2>2 DEF Awake
<1> QED BY <1>2, <1>3

\* Submission keeps the types whatever the list is.
LEMMA SubmitTypes ==
  ASSUME NEW l \in ListType, NEW w \in Work, TypeOK, _workqueue_submit_work(l, w),
         UNCHANGED <<timerVars, shell, clobbered>>
  PROVE  TypeOK'
<1>1. rt_list_remove(l, w) \in ListType /\ Inserted(rt_list_remove(l, w), w) \in ListType
  BY ListTypes
<1>2. list' \in ListType /\ pending' \subseteq Work /\ queued' \subseteq Work
  BY <1>1 DEF _workqueue_submit_work, Accept, Forget, TypeOK
<1> QED BY <1>2 DEF _workqueue_submit_work, Resume, TypeOK

\* A queue whose list is good stays so when an item is withdrawn or taken.
LEMMA LeaveKeeps ==
  ASSUME NEW w \in Work, TypeOK, Good(list, queued, before), pending = queued,
         list' = rt_list_remove(list, w), pending' = pending \ {w}, Forget(w)
  PROVE  Good(list', queued', before') /\ pending' = queued'
  BY RemoveKeeps DEF Forget, TypeOK

\* Withdrawing from an empty list leaves it empty.
LEMMA EmptyStays ==
  ASSUME NEW w \in Work, NEW l \in ListType, NEW qd, NEW bf, Good(l, qd, bf), rt_list_isempty(l)
  PROVE  rt_list_isempty(rt_list_remove(l, w))
<1>1. Head \in Node /\ w \in Node /\ w # Head
  BY QueueAssumption DEF Node
<1>2. l.next \in [Node -> Node] /\ l.prev \in [Node -> Node]
      /\ rt_list_remove(l, w).next = [l.next EXCEPT ![l.prev[w]] = l.next[w], ![w] = w]
  BY DEF ListType, rt_list_remove
<1>3. l.prev[w] # Head
  BY <1>1, <1>2 DEF Good, Linked, rt_list_isempty
<1> QED BY <1>1, <1>2, <1>3 DEF rt_list_isempty

\* The first item of a good list that is not empty is the oldest one.
LEMMA FirstIsOldest ==
  ASSUME TypeOK, Good(list, queued, before), ~rt_list_isempty(list)
  PROVE  list.next[Head] \in Work /\ Oldest(list.next[Head])
<1> DEFINE f == list.next[Head]
<1>1. Head \in Node /\ Head \notin Work /\ Node = Work \cup {Head}
  BY QueueAssumption DEF Node
<1>2. f \in Work /\ list.prev[f] = Head
  BY <1>1 DEF TypeOK, ListType, Good, Linked, rt_list_isempty
<1>3. list.next[f] # f
  BY <1>1, <1>2 DEF TypeOK, ListType, Good, Linked
<1>4. f \in queued
  BY <1>2, <1>3 DEF Good, Marked
<1>5. ASSUME NEW a \in queued, <<a, f>> \in before PROVE FALSE
  BY <1>1, <1>2, <1>5 DEF Good, Ordered, Follows
<1> QED BY <1>2, <1>4, <1>5 DEF Oldest
-----------------------------------------------------------------------------
\* rt_workqueue_create leaves an empty list.
LEMMA InitIInv == Init => IInv
<1> SUFFICES ASSUME Init PROVE IInv
  OBVIOUS
<1>1. TypeOK
  BY DEF Init, QueueInit, TypeOK, ListType, Node
<1>2. Good(list, queued, before)
  BY QueueAssumption DEF Init, QueueInit, Node, Good, Linked, Marked, Ordered, Strict, Follows
<1>3. pending = queued /\ Awake /\ Between
  BY DEF Init, QueueInit, Awake, Between
<1> QED BY <1>1, <1>2, <1>3 DEF IInv, Sound

\* Every step keeps the types, whatever the list is, and what is known of
\* work_current.
LEMMA TypesKept == TypeOK /\ Between /\ [Next]_vars => TypeOK' /\ Between'
<1> SUFFICES ASSUME TypeOK, Between, [Next]_vars PROVE TypeOK' /\ Between'
  OBVIOUS
<1>0. list \in ListType
  BY DEF TypeOK
<1>1. CASE Worker
  <2>1. list.next[Head] \in Node /\ (~rt_list_isempty(list) => list.next[Head] \in Work)
    BY <1>0, QueueAssumption DEF ListType, Node, rt_list_isempty
  <2>2. ~rt_list_isempty(list) => rt_list_remove(list, list.next[Head]) \in ListType
    BY <1>0, <2>1, ListTypes
  <2> QED BY <1>1, <2>1, <2>2 DEF Worker, WorkerStep, WorkerSuspends, WorkerTakes, WorkSleeps, WorkReturns,
               WorkerClears, Forget, TypeOK, Between
<1>2. ASSUME NEW l \in ListType, NEW w \in Work, _workqueue_submit_work(l, w),
             UNCHANGED <<timerVars, shell, clobbered>>
      PROVE  TypeOK' /\ Between'
  <2>1. TypeOK'
    BY <1>2, SubmitTypes
  <2>2. Between'
    BY <1>2 DEF _workqueue_submit_work, Resume, Between
  <2> QED BY <2>1, <2>2
<1>3. CASE test_timer_timeout
  BY <1>0, <1>2, <1>3, ListTypes, TestAssumption DEF test_timer_timeout
<1>4. CASE Command
  BY <1>4 DEF Command, queueVars, TypeOK, Between
<1>5. CASE ShellStep
  <2>1. rt_list_init(list, test_work) \in ListType
    BY <1>0, ListTypes, TestAssumption
  <2>2. CASE InitList
    BY <2>1, <2>2 DEF InitList, TypeOK, Between
  <2>3. CASE test_timer_init
    BY <2>3 DEF test_timer_init, TypeOK, Between
  <2>4. CASE test_timer_start
    BY <2>4 DEF test_timer_start, queueVars, TypeOK, Between
  <2>5. CASE test_timer_stop
    BY <2>5 DEF test_timer_stop, queueVars, TypeOK, Between
  <2> QED BY <1>5, <2>2, <2>3, <2>4, <2>5 DEF ShellStep
<1>6. ASSUME NEW w \in Work, OtherThread(w) PROVE TypeOK' /\ Between'
  <2>1. CASE _workqueue_submit_work(list, w)
    BY <1>0, <1>2, <1>6, <2>1 DEF OtherThread
  <2>2. CASE _workqueue_cancel_work(w)
    <3>1. rt_list_remove(list, w) \in ListType
      BY <1>0, ListTypes
    <3> QED BY <1>6, <2>2, <3>1 DEF OtherThread, _workqueue_cancel_work, Forget, TypeOK, Between
  <2> QED BY <1>6, <2>1, <2>2 DEF OtherThread
<1>7. CASE UNCHANGED vars
  BY <1>7 DEF vars, queueVars, TypeOK, Between
<1> QED BY <1>1, <1>3, <1>4, <1>5, <1>6, <1>7 DEF Next

\* Every step that does not initialise a queued item keeps the list sound.
LEMMA SoundKept == TypeOK /\ Between /\ Sound /\ [Next]_vars => clobbered' \/ Sound'
<1> SUFFICES ASSUME TypeOK, Between, Sound, [Next]_vars, ~clobbered' PROVE Sound'
  OBVIOUS
<1>0. list \in ListType /\ Good(list, queued, before) /\ pending = queued /\ Awake
  BY DEF TypeOK, Sound
<1>1. ASSUME UNCHANGED <<list, pending, queued, before>>, Awake' PROVE Sound'
  <2>1. Good(list', queued', before')
    BY <1>0, <1>1
  <2> QED BY <1>0, <1>1, <2>1 DEF Sound
<1>2. CASE Worker
  <2>1. CASE WorkerTakes
    <3>1. list.next[Head] \in Work
      BY <1>0, <2>1, FirstIsOldest DEF WorkerTakes
    <3>2. Good(list', queued', before') /\ pending' = queued'
      BY <1>0, <2>1, <3>1, LeaveKeeps DEF WorkerTakes
    <3>3. Awake'
      BY <2>1 DEF WorkerTakes, Awake
    <3> QED BY <3>2, <3>3 DEF Sound
  <2>2. CASE WorkerSuspends \/ WorkSleeps \/ WorkReturns \/ WorkerClears
    <3>1. UNCHANGED <<list, pending, queued, before>>
      BY <2>2 DEF WorkerSuspends, WorkSleeps, WorkReturns, WorkerClears
    <3>2. Awake'
      BY <1>0, <2>2 DEF WorkerSuspends, WorkSleeps, WorkReturns, WorkerClears, Awake, Between, rt_list_isempty
    <3> QED BY <1>1, <3>1, <3>2
  <2> QED BY <1>2, <2>1, <2>2 DEF Worker, WorkerStep
<1>3. CASE test_timer_timeout
  <2> DEFINE l == rt_list_remove(list, test_work)
  <2>1. l \in ListType /\ Good(l, queued \ {test_work}, Without(before, test_work))
    BY <1>0, ListTypes, RemoveKeeps, TestAssumption
  <2>2. /\ (queued \ {test_work}) \ {test_work} = queued \ {test_work}
        /\ Without(Without(before, test_work), test_work) = Without(before, test_work)
    BY HistoryTwice
  <2>3. _workqueue_submit_work(l, test_work)
    BY <1>3 DEF test_timer_timeout
  <2> HIDE DEF l
  <2> QED BY <1>0, <2>1, <2>2, <2>3, SubmitKeeps, TestAssumption DEF Sound
<1>4. CASE Command
  BY <1>0, <1>1, <1>4 DEF Command, queueVars, Awake
<1>5. CASE InitList
  <2>1. test_work \notin queued /\ UNCHANGED <<pending, current, worker, queued, before>>
    BY <1>5 DEF InitList
  <2>2. list.next[test_work] = test_work /\ list.prev[test_work] = test_work
    BY <1>0, <2>1, TestAssumption DEF Good, Marked, Linked, ListType, Node
  <2>3. list' = list
    BY <1>0, <1>5, <2>2 DEF InitList, rt_list_init, ListType
  <2> QED BY <1>0, <1>1, <2>1, <2>3 DEF Awake
<1>6. CASE test_timer_init
  <2>1. test_work \notin queued
    BY <1>6 DEF test_timer_init
  <2>2. UNCHANGED <<list, pending, queued, before, worker, current>>
    BY <1>0, <1>6, <2>1 DEF test_timer_init
  <2> QED BY <1>0, <1>1, <2>2 DEF Awake
<1>7. CASE test_timer_start \/ test_timer_stop
  BY <1>0, <1>1, <1>7 DEF test_timer_start, test_timer_stop, queueVars, Awake
<1>8. ASSUME NEW w \in Work, OtherThread(w) PROVE Sound'
  <2>1. CASE _workqueue_submit_work(list, w)
    BY <1>0, <2>1, SubmitKeeps DEF Sound
  <2>2. CASE _workqueue_cancel_work(w)
    <3>1. Good(list', queued', before') /\ pending' = queued'
      BY <1>0, <2>2, LeaveKeeps DEF _workqueue_cancel_work
    <3>2. Awake'
      BY <1>0, <2>2, EmptyStays DEF _workqueue_cancel_work, Awake
    <3> QED BY <3>1, <3>2 DEF Sound
  <2> QED BY <1>8, <2>1, <2>2 DEF OtherThread
<1>9. CASE UNCHANGED vars
  BY <1>0, <1>1, <1>9 DEF vars, queueVars, Awake
<1> QED BY <1>2, <1>3, <1>4, <1>5, <1>6, <1>7, <1>8, <1>9 DEF Next, ShellStep

\* The damage is never forgotten.
LEMMA ClobberedStays == [Next]_vars => (clobbered => clobbered')
  BY DEF Next, Worker, test_timer_timeout, Command, ShellStep, InitList, test_timer_init, test_timer_start,
         test_timer_stop, OtherThread, vars

\* The inductive invariant.
LEMMA Invariant == Spec => []IInv
<1>1. Init => IInv
  BY InitIInv
<1>2. IInv /\ [Next]_vars => IInv'
  BY TypesKept, SoundKept, ClobberedStays DEF IInv
<1> QED BY <1>1, <1>2, PTL DEF Spec

\* The queue's pointers stay among the head and the items, for any number of
\* items and whatever is done to them.
THEOREM TypeCorrect == Spec => []TypeOK
<1>1. IInv => TypeOK
  BY DEF IInv
<1> QED BY <1>1, Invariant, PTL

\* The list stays sound unless test_work is initialised while it is queued.
THEOREM ListStaysSound == Spec => []ListSound
<1>1. IInv => ListSound
  BY DEF IInv, Sound, Good, ListSound
<1> QED BY <1>1, Invariant, PTL

\* A worker that sleeps for want of work has none, whenever the tick comes.
THEOREM NoWakeupIsLost == Spec => []NoLostWakeup
<1>1. IInv => NoLostWakeup
  BY DEF IInv, Sound, NoLostWakeup
<1> QED BY <1>1, Invariant, PTL

\* The worker takes the item that has waited longest.
THEOREM WorkRunsInOrder == Spec => RunsInOrder
<1>1. IInv /\ [Next]_vars =>
        [(worker = "loop" /\ worker' = "run") => (clobbered \/ Oldest(current'))]_vars
  <2> SUFFICES ASSUME IInv, Next, worker = "loop", worker' = "run", ~clobbered
               PROVE  Oldest(current')
    BY DEF vars
  <2>1. WorkerTakes
    BY DEF Next, Worker, WorkerStep, WorkerSuspends, WorkSleeps, WorkReturns, WorkerClears,
           test_timer_timeout, OtherThread, _workqueue_submit_work, _workqueue_cancel_work, Resume, Command,
           ShellStep, InitList, test_timer_init, test_timer_start, test_timer_stop, queueVars
  <2> QED BY <2>1, FirstIsOldest DEF IInv, Sound, WorkerTakes
<1> QED BY <1>1, Invariant, PTL DEF Spec, RunsInOrder
=============================================================================
