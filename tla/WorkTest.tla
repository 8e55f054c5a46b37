------------------------------ MODULE WorkTest ------------------------------
(***************************************************************************)
(* workqueue_test.c of the stm32l475 board: a periodic timer that cancels  *)
(* and resubmits test_work, and the shell commands that set it up.  The    *)
(* board's rtconfig.h has no RT_USING_TIMER_SOFT, so the time-out runs in  *)
(* the tick interrupt: as one step, between any two steps of the shell     *)
(* (priority 20) and the worker (priority 23).  The worker runs only while *)
(* the shell has no command to execute.                                    *)
(***************************************************************************)
EXTENDS RtWorkQueue

CONSTANT test_work

ASSUME TestAssumption == test_work \in Work

VARIABLES
  timerActive,           \* test_timer has RT_TIMER_FLAG_ACTIVATED
  test_timer_init_flag, test_timer_run_flag,
  shell,                 \* the rest of the command being executed
  clobbered              \* history: test_work was initialised while queued

timerVars == <<timerActive, test_timer_init_flag, test_timer_run_flag>>
vars == <<queueVars, timerVars, shell, clobbered>>

Init ==
  /\ QueueInit
  /\ timerActive = FALSE
  /\ test_timer_init_flag = FALSE /\ test_timer_run_flag = FALSE
  /\ shell = "idle" /\ clobbered = FALSE

\* pm_log_to_file is what the worker executes: WorkSleeps and WorkReturns.
Worker == shell = "idle" /\ WorkerStep /\ UNCHANGED <<timerVars, shell, clobbered>>

\* rt_work_cancel and rt_work_submit, whose results are not looked at.
test_timer_timeout ==
  /\ timerActive
  /\ _workqueue_submit_work(rt_list_remove(list, test_work), test_work)
  /\ UNCHANGED <<timerVars, shell, clobbered>>

\* The commands.  test_work_start calls test_timer_init and test_timer_start
\* and does not look at the first one's result.
Command ==
  /\ shell = "idle"
  /\ shell' \in {"init", "init+start", "start", "stop"}
  /\ UNCHANGED <<queueVars, timerVars, clobbered>>

\* rt_work_init in two steps of the shell, between which the tick may come.
InitList ==
  /\ shell \in {"init", "init+start"}
  /\ shell' = IF shell = "init" THEN "rest" ELSE "rest+start"
  /\ list' = rt_list_init(list, test_work)
  /\ clobbered' = (clobbered \/ test_work \in queued)
  /\ UNCHANGED <<pending, current, worker, queued, before, timerVars>>

\* work->flags = 0.  rt_timer_init is reached the first time only.
test_timer_init ==
  /\ shell \in {"rest", "rest+start"}
  /\ shell' = IF shell = "rest" THEN "idle" ELSE "start"
  /\ pending' = pending \ {test_work}
  /\ clobbered' = (clobbered \/ test_work \in queued)
  /\ test_timer_init_flag' = TRUE
  /\ UNCHANGED <<list, current, worker, queued, before, timerActive, test_timer_run_flag>>

test_timer_start ==
  /\ shell = "start"
  /\ shell' = "idle"
  /\ timerActive' = (timerActive \/ (test_timer_init_flag /\ ~test_timer_run_flag))
  /\ test_timer_run_flag' = test_timer_init_flag
  /\ UNCHANGED <<queueVars, test_timer_init_flag, clobbered>>

\* rt_timer_stop refuses a timer that is not active; the flag stays then.
test_timer_stop ==
  /\ shell = "stop"
  /\ shell' = "idle"
  /\ timerActive' = (timerActive /\ ~(test_timer_init_flag /\ test_timer_run_flag))
  /\ test_timer_run_flag' = (test_timer_run_flag /\ ~(test_timer_init_flag /\ timerActive))
  /\ UNCHANGED <<queueVars, test_timer_init_flag, clobbered>>

ShellStep == InitList \/ test_timer_init \/ test_timer_start \/ test_timer_stop

\* Other threads with work items of their own.
OtherThread(w) ==
  /\ w # test_work
  /\ _workqueue_submit_work(list, w) \/ _workqueue_cancel_work(w)
  /\ UNCHANGED <<timerVars, shell, clobbered>>

Next ==
  \/ Worker
  \/ test_timer_timeout
  \/ Command
  \/ ShellStep
  \/ \E w \in Work : OtherThread(w)

\* The shell's commands end; the worker, which they keep from running, gets
\* the processor again and again.
Spec == Init /\ [][Next]_vars /\ WF_vars(ShellStep) /\ SF_vars(Worker)
-----------------------------------------------------------------------------
\* The types of the queue and of the test's state.
ListType == [next : [Node -> Node], prev : [Node -> Node]]
TypeOK ==
  /\ list \in ListType
  /\ pending \subseteq Work /\ queued \subseteq Work
  /\ current \in Work \cup {None}
  /\ worker \in {"loop", "suspended", "run", "sleep", "done"}
  /\ shell \in {"idle", "init", "init+start", "rest", "rest+start", "start", "stop"}

\* Unless the test initialised its item while it was queued, the list is
\* sound at every step: the pointers are inverse to each other, and an item is
\* linked and flagged PENDING exactly when it was accepted and not yet taken
\* or withdrawn.
Linked(l) == \A n \in Node : l.prev[l.next[n]] = n /\ l.next[l.prev[n]] = n
Marked(l, qd) == \A w \in Work : w \in qd <=> l.next[w] # w
ListSound == clobbered \/ (Linked(list) /\ Marked(list, queued) /\ pending = queued)

\* No wake-up is lost: a worker that is suspended for want of work has none,
\* also when the tick interrupt submits right before or after its test.
Awake == worker = "suspended" => (current = None /\ rt_list_isempty(list))
NoLostWakeup == clobbered \/ Awake

\* The worker executes what was submitted and not withdrawn, and the item
\* that has waited longest first.
Oldest(w) == w \in queued /\ \A a \in queued : <<a, w>> \notin before
RunsInOrder ==
  [][(worker = "loop" /\ worker' = "run") => (clobbered \/ Oldest(current'))]_vars

\* As long as items are queued the worker gets to one of them (again unless
\* the test damaged the list: items behind test_work are then lost).
WorkIsDone == (queued # {}) ~> (worker = "run" \/ queued = {} \/ clobbered)
=============================================================================
