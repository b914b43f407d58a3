------------------------------ MODULE AgtTimer ------------------------------
(***************************************************************************)
(* The timer of drivers/arm_generic_timer/arm_generic_timer.c on the one   *)
(* core that runs it.  A thread calls the driver; the timer interrupt      *)
(* preempts the thread wherever interrupts are not masked and runs         *)
(* AGT_handle_irq, whose callback may call the driver again.  Every call   *)
(* first tries the gate, which is unlocked only while a callback runs: the *)
(* call is then deferred; otherwise it takes the standard path, under the  *)
(* lock with interrupts masked.  Interrupts are masked in a callback, so   *)
(* a deferred call is one step.  An operator headed "Faulty" is the        *)
(* definition that follows it with a bug the code does not have: no        *)
(* specification uses it.                                                  *)
(***************************************************************************)
EXTENDS Integers

CONSTANTS
  Callbacks,     \* callbacks, each with its argument
  NULL,          \* no callback
  MaxTime        \* bound of the counter

Times == 0 .. MaxTime
Calls == {"schedule", "is_armed", "has_fired", "cancel"}

ASSUME TimerAssumption == NULL \notin Callbacks /\ MaxTime \in Nat

VARIABLES
  now,         \* external: CNTVCT_EL0
  enabled,     \* external: ENABLE of CNTV_CTL_EL0
  cval,        \* external: CNTV_CVAL_EL0
  lock, gate,  \* TRUE when locked
  timer_cb, timer_fired,
  under_cb_scheduled, under_cb_timer_cb, cycles_v,
  irq,         \* "out", or where AGT_handle_irq is: "callback", "returning"
  call,        \* per context, the call on its standard path: [op, cb, at]
  result       \* the last call made and what it returned

hardware == <<now, enabled, cval>>
deferred == <<under_cb_scheduled, under_cb_timer_cb, cycles_v>>
vars == <<hardware, lock, gate, timer_cb, timer_fired, deferred, irq, call, result>>

Contexts == {"thread", "callback"}

\* The context that runs: a callback keeps the thread from running.
Running(x) == irq = (IF x = "thread" THEN "out" ELSE "callback")

Call(op, cb, at) == [op |-> op, cb |-> cb, at |-> at]
Answer(op, value) == [op |-> op, value |-> value]
NoCall == Call("none", NULL, 0)
Pending(x, op) == Running(x) /\ call[x].op = op
Ready(x) == Pending(x, "none")

-----------------------------------------------------------------------------
\* AGT_init_stage0
Init ==
  /\ now = 0 /\ enabled = FALSE /\ cval = 0
  /\ lock = FALSE /\ gate = TRUE
  /\ timer_cb = NULL /\ timer_fired = FALSE
  /\ under_cb_scheduled = FALSE /\ under_cb_timer_cb = NULL /\ cycles_v = 0
  /\ irq = "out"
  /\ call = [x \in Contexts |-> NoCall]
  /\ result = Answer("none", FALSE)

\* External: the counter counts.
Tick ==
  /\ now < MaxTime
  /\ now' = now + 1
  /\ UNCHANGED <<enabled, cval, lock, gate, timer_cb, timer_fired, deferred,
                 irq, call, result>>

\* spin_try_lock(gate) fails: the call goes on to its standard path.
GateClosed(x) ==
  /\ gate
  /\ \E op \in Calls, cb \in Callbacks \cup {NULL}, at \in Times :
       /\ Ready(x)
       /\ op # "schedule" => cb = NULL /\ at = 0
       /\ call' = [call EXCEPT ![x] = Call(op, cb, at)]
  /\ UNCHANGED <<hardware, lock, gate, timer_cb, timer_fired, deferred, irq, result>>

Return(x, value) ==
  /\ result' = Answer(call[x].op, value)
  /\ call' = [call EXCEPT ![x] = NoCall]

\* UNLOCKED_timer_schedule_, but for the value it returns.
Program(cb, at) ==
  /\ timer_cb' = cb /\ timer_fired' = FALSE
  /\ cval' = at /\ enabled' = TRUE

-----------------------------------------------------------------------------
(* AGT_timer_schedule_cycles, and AGT_timer_schedule_delta, which adds the *)
(* delay to the counter first.                                             *)

\* Faulty: the counter is added once more.
DeferScheduleAddsNow(x, cb, at) ==
  /\ Ready(x) /\ ~gate
  /\ timer_fired' = FALSE
  /\ under_cb_timer_cb' = cb /\ cycles_v' = now + at
  /\ result' = Answer("schedule", under_cb_scheduled)
  /\ under_cb_scheduled' = TRUE
  /\ UNCHANGED <<hardware, lock, gate, timer_cb, irq, call>>

DeferSchedule(x, cb, at) ==
  /\ Ready(x) /\ ~gate
  /\ timer_fired' = FALSE
  /\ under_cb_timer_cb' = cb /\ cycles_v' = at
  /\ result' = Answer("schedule", under_cb_scheduled)
  /\ under_cb_scheduled' = TRUE
  /\ UNCHANGED <<hardware, lock, gate, timer_cb, irq, call>>

Schedule(x) ==
  /\ Pending(x, "schedule") /\ ~lock
  /\ Program(call[x].cb, call[x].at)
  /\ Return(x, enabled)
  /\ UNCHANGED <<now, lock, gate, deferred, irq>>

(* AGT_timer_is_armed *)

\* The gate stays locked.
DeferIsArmed(x) ==
  /\ Ready(x) /\ ~gate
  /\ gate' = TRUE
  /\ result' = Answer("is_armed", under_cb_scheduled)
  /\ UNCHANGED <<hardware, lock, timer_cb, timer_fired, deferred, irq, call>>

IsArmed(x) ==
  /\ Pending(x, "is_armed")
  /\ Return(x, enabled)
  /\ UNCHANGED <<hardware, lock, gate, timer_cb, timer_fired, deferred, irq>>

(* AGT_timer_has_fired *)

DeferHasFired(x) ==
  /\ Ready(x) /\ ~gate
  /\ result' = Answer("has_fired", timer_fired) /\ timer_fired' = FALSE
  /\ UNCHANGED <<hardware, lock, gate, timer_cb, deferred, irq, call>>

HasFired(x) ==
  /\ Pending(x, "has_fired") /\ ~lock
  /\ timer_fired' = FALSE
  /\ Return(x, timer_fired)
  /\ UNCHANGED <<hardware, lock, gate, timer_cb, deferred, irq>>

(* AGT_timer_cancel *)

DeferCancel(x) ==
  /\ Ready(x) /\ ~gate
  /\ under_cb_scheduled' = FALSE
  /\ result' = Answer("cancel", FALSE)
  /\ UNCHANGED <<hardware, lock, gate, timer_cb, timer_fired, under_cb_timer_cb,
                 cycles_v, irq, call>>

Cancel(x) ==
  /\ Pending(x, "cancel")
  /\ enabled' = FALSE
  /\ Return(x, FALSE)
  /\ UNCHANGED <<now, cval, lock, gate, timer_cb, timer_fired, deferred, irq>>

-----------------------------------------------------------------------------
(* AGT_handle_irq *)

\* Faulty: the timer stays enabled, and its condition holds.
HandleIrqStaysEnabled ==
  /\ irq = "out" /\ ~lock
  /\ enabled /\ cval <= now
  /\ timer_fired' = TRUE
  /\ under_cb_timer_cb' = NULL /\ under_cb_scheduled' = FALSE
  /\ IF timer_cb # NULL
     THEN lock' = TRUE /\ gate' = FALSE /\ irq' = "callback"
     ELSE UNCHANGED <<lock, gate, irq>>
  /\ UNCHANGED <<now, cval, enabled, timer_cb, cycles_v, call, result>>

\* The interrupt is taken while the timer's condition holds.  Without a
\* callback the handler ends here; with one it keeps the lock and unlocks
\* the gate.
HandleIrq ==
  /\ irq = "out" /\ ~lock
  /\ enabled /\ cval <= now
  /\ enabled' = FALSE
  /\ timer_fired' = TRUE
  /\ under_cb_timer_cb' = NULL /\ under_cb_scheduled' = FALSE
  /\ IF timer_cb # NULL
     THEN lock' = TRUE /\ gate' = FALSE /\ irq' = "callback"
     ELSE UNCHANGED <<lock, gate, irq>>
  /\ UNCHANGED <<now, cval, timer_cb, cycles_v, call, result>>

CallbackReturns ==
  /\ Pending("callback", "none")
  /\ irq' = "returning"
  /\ UNCHANGED <<hardware, lock, gate, timer_cb, timer_fired, deferred, call, result>>

\* Faulty: the gate stays unlocked.
HandleIrqLeavesGate ==
  /\ irq = "returning" /\ ~gate
  /\ IF under_cb_scheduled
     THEN Program(under_cb_timer_cb, cycles_v)
     ELSE UNCHANGED <<timer_cb, timer_fired, cval, enabled>>
  /\ lock' = FALSE /\ irq' = "out"
  /\ UNCHANGED <<now, gate, deferred, call, result>>

\* spin_lock(gate), and the schedule left by the callback.
HandleIrqEnds ==
  /\ irq = "returning" /\ ~gate
  /\ gate' = TRUE
  /\ IF under_cb_scheduled
     THEN Program(under_cb_timer_cb, cycles_v)
     ELSE UNCHANGED <<timer_cb, timer_fired, cval, enabled>>
  /\ lock' = FALSE /\ irq' = "out"
  /\ UNCHANGED <<now, deferred, call, result>>

\* The callback, or the handler it returned to, waits for a lock that only
\* the same core can unlock.
SelfWaits ==
  \/ irq = "callback" /\ lock /\ call["callback"].op \in {"schedule", "has_fired"}
  \/ irq = "returning" /\ gate

\* _spin_lock tries for ever.
Spin == SelfWaits /\ UNCHANGED vars

-----------------------------------------------------------------------------
Body(x) == Schedule(x) \/ IsArmed(x) \/ HasFired(x) \/ Cancel(x)

Enter(x) ==
  \/ GateClosed(x) \/ DeferHasFired(x) \/ DeferCancel(x)
  \/ \E cb \in Callbacks \cup {NULL}, at \in Times : DeferSchedule(x, cb, at)

\* Callbacks that leave AGT_timer_is_armed alone.
Next ==
  \/ Tick \/ HandleIrq \/ CallbackReturns \/ HandleIrqEnds
  \/ \E x \in Contexts : Enter(x) \/ Body(x)

NextAnyCall == Next \/ Spin \/ \E x \in Contexts : DeferIsArmed(x)

Spec == Init /\ [][Next]_vars
SpecAnyCall == Init /\ [][NextAnyCall]_vars

\* The counter counts, a pending interrupt is taken, a callback returns and
\* the handler it returns to runs on.
FairSpec ==
  /\ Spec
  /\ WF_vars(Tick) /\ WF_vars(HandleIrq)
  /\ WF_vars(CallbackReturns) /\ WF_vars(HandleIrqEnds)

-----------------------------------------------------------------------------
(* Properties. *)

TypeOK ==
  /\ now \in Times /\ cval \in Times /\ cycles_v \in Times
  /\ {enabled, lock, gate, timer_fired, under_cb_scheduled} \subseteq BOOLEAN
  /\ result \in [op : Calls \cup {"none"}, value : BOOLEAN]
  /\ {timer_cb, under_cb_timer_cb} \subseteq Callbacks \cup {NULL}
  /\ irq \in {"out", "callback", "returning"}
  /\ call \in [Contexts -> [op : Calls \cup {"none"}, cb : Callbacks \cup {NULL},
                            at : Times]]

\* Calls answer and timers fire as the header says, whether the caller is the
\* thread or a callback whose calls are deferred.
Promise == INSTANCE OneShotTimer WITH
  armed   <- IF irq = "out"
             THEN IF enabled THEN {[cb |-> timer_cb, at |-> cval]} ELSE {}
             ELSE IF under_cb_scheduled
                  THEN {[cb |-> under_cb_timer_cb, at |-> cycles_v]} ELSE {},
  fired   <- timer_fired,
  running <- IF irq = "out" THEN NULL ELSE timer_cb
PromiseSpec == Promise!Spec

\* While the thread runs, the gate is locked and the lock free: its calls are
\* never deferred to a callback that is not running, and never spin.
ThreadNeverDeferred == irq = "out" => gate /\ ~lock

\* "calling the driver functions from the callback is safe"
\* (arm_generic_timer.h:47): neither a callback nor the handler it returns to
\* waits for a lock that its own core holds.
CallbackNeverSpins == ~SelfWaits

\* A timer set by the thread or left by a callback ends: it fires or is
\* cancelled. The handler ends, so the thread goes on.
Armed == enabled \/ (irq # "out" /\ under_cb_scheduled)
TimersEnd == (Armed ~> ~Armed) /\ (irq # "out" ~> irq = "out")
=============================================================================
