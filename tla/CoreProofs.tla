----------------------------- MODULE CoreProofs -----------------------------
(***************************************************************************)
(* Theorems about what each core has of its own, the timer of AgtTimer,    *)
(* and about the lock the cores share, CoreLock.                           *)
(*                                                                         *)
(* The timer, for any callbacks and any times, when the callbacks leave    *)
(* AGT_timer_is_armed alone: while the thread runs the gate is locked and  *)
(* the lock is free, and the driver is the one-shot timer of its header.   *)
(* The argument: while the handler has the core, the gate is unlocked, so  *)
(* a callback's calls are all deferred; what they leave is the only        *)
(* schedule, because the handler has disabled the timer; and a deferred    *)
(* schedule has forgotten that the timer fired, which is why programming   *)
(* it when the handler ends forgets nothing more.                          *)
(*                                                                         *)
(* The lock, for any number of cores and any nesting.  The argument: the   *)
(* lock word names the one core that is inside the zone or on its way in   *)
(* or out, and the count is that core's depth.                             *)
(***************************************************************************)
EXTENDS AgtTimer, CoreLock, TLAPS

-----------------------------------------------------------------------------
(* The timer: its invariant. *)


Ops == Calls \cup {"none"}
CallType == [op : Ops, cb : Callbacks \cup {NULL}, at : Times]

\* The shape of the state.
TypeInv ==
  /\ now \in Times /\ cval \in Times /\ cycles_v \in Times
  /\ enabled \in BOOLEAN /\ lock \in BOOLEAN /\ gate \in BOOLEAN
  /\ timer_fired \in BOOLEAN /\ under_cb_scheduled \in BOOLEAN
  /\ result \in [op : Ops, value : BOOLEAN]
  /\ timer_cb \in Callbacks \cup {NULL} /\ under_cb_timer_cb \in Callbacks \cup {NULL}
  /\ irq \in {"out", "callback", "returning"}
  /\ call \in [Contexts -> CallType]

\* While the thread runs no schedule is deferred to a callback.
ThreadInv == irq = "out" => gate /\ ~lock

\* While the handler has the core.
HandlerInv ==
  irq # "out" =>
    /\ ~gate /\ lock /\ ~enabled
    /\ under_cb_scheduled => ~timer_fired

\* The calls of a callback never get to their standard path.
CallbackInv == call["callback"].op = "none"

IInv == TypeInv /\ ThreadInv /\ HandlerInv /\ CallbackInv

-----------------------------------------------------------------------------
(* Types.                                                                  *)

\* The calls of a context, and their answers.
LEMMA CallTypes ==
  ASSUME TypeInv, NEW x \in Contexts
  PROVE  /\ call[x].op \in Ops /\ call[x].cb \in Callbacks \cup {NULL} /\ call[x].at \in Times
         /\ [call EXCEPT ![x] = NoCall] \in [Contexts -> CallType]
         /\ \A op \in Ops, value \in BOOLEAN : Answer(op, value) \in [op : Ops, value : BOOLEAN]
<1>1. call \in [Contexts -> CallType]
  BY DEF TypeInv
<1>2. NoCall \in CallType
  BY TimerAssumption DEF NoCall, Call, CallType, Ops, Times
<1> QED
  BY <1>1, <1>2 DEF CallType, Answer

\* A call is deferred only in a callback, and goes its standard path only when
\* the thread runs.
LEMMA WhoRuns ==
  ASSUME IInv, NEW x \in Contexts
  PROVE  /\ Ready(x) /\ ~gate => x = "callback" /\ irq = "callback"
         /\ Ready(x) /\ gate => x = "thread" /\ irq = "out"
         /\ Body(x) => x = "thread" /\ irq = "out"
<1>1. x = "thread" \/ x = "callback"
  BY DEF Contexts
<1>2. Running(x) => irq = IF x = "thread" THEN "out" ELSE "callback"
  BY DEF Running
<1>3. Ready(x) => Running(x)
  BY DEF Ready, Pending
<1>4. Body(x) => Running(x) /\ call[x].op # "none"
  BY DEF Body, Schedule, IsArmed, HasFired, Cancel, Pending
<1> QED
  BY <1>1, <1>2, <1>3, <1>4 DEF IInv, ThreadInv, HandlerInv, CallbackInv

LEMMA InitInv == Init => IInv
<1> SUFFICES ASSUME Init
             PROVE  IInv
  OBVIOUS
<1>1. 0 \in Times /\ NoCall \in CallType
  BY TimerAssumption DEF NoCall, Call, CallType, Ops, Times
<1>2. call \in [Contexts -> CallType] /\ call["callback"].op = "none"
  BY <1>1 DEF Init, Contexts, NoCall, Call
<1>3. result \in [op : Ops, value : BOOLEAN]
  BY DEF Init, Answer, Ops
<1>4. TypeInv
  BY <1>1, <1>2, <1>3 DEF Init, TypeInv
<1> QED
  BY <1>2, <1>4 DEF IInv, ThreadInv, HandlerInv, CallbackInv, Init

-----------------------------------------------------------------------------
(* Each step keeps the invariant.                                          *)

\* A call enters: it goes to its standard path when the gate is locked, and is
\* deferred otherwise.
LEMMA EnterInv ==
  ASSUME IInv, NEW x \in Contexts, Enter(x)
  PROVE  IInv'
<1>0. TypeInv
  BY DEF IInv
<1>1. CASE GateClosed(x)
  <2>1. PICK op \in Calls, cb \in Callbacks \cup {NULL}, at \in Times :
          Ready(x) /\ call' = [call EXCEPT ![x] = Call(op, cb, at)]
    BY <1>1 DEF GateClosed
  <2>2. x = "thread"
    BY <1>1, <2>1, WhoRuns DEF GateClosed
  <2>3. call' \in [Contexts -> CallType] /\ call'["callback"] = call["callback"]
    <3>1. Call(op, cb, at) \in CallType
      BY DEF Call, CallType, Ops
    <3> QED
      BY <1>0, <2>1, <2>2, <3>1 DEF TypeInv, Contexts
  <2>4. UNCHANGED <<now, enabled, cval, lock, gate, timer_cb, timer_fired, under_cb_scheduled,
                    under_cb_timer_cb, cycles_v, irq, result>>
    BY <1>1 DEF GateClosed, hardware, deferred
  <2>5. TypeInv'
    BY <1>0, <2>3, <2>4 DEF TypeInv
  <2> QED
    BY <2>3, <2>4, <2>5 DEF IInv, ThreadInv, HandlerInv, CallbackInv
<1>2. CASE DeferHasFired(x)
  <2>1. /\ result' \in [op : Ops, value : BOOLEAN] /\ timer_fired' = FALSE
        /\ UNCHANGED <<now, enabled, cval, lock, gate, timer_cb, under_cb_scheduled,
                       under_cb_timer_cb, cycles_v, irq, call>>
    BY <1>0, <1>2, CallTypes DEF TypeInv, DeferHasFired, hardware, deferred, Ops, Calls
  <2>2. TypeInv'
    BY <1>0, <2>1 DEF TypeInv
  <2> QED
    BY <2>1, <2>2 DEF IInv, ThreadInv, HandlerInv, CallbackInv
<1>3. CASE DeferCancel(x)
  <2>1. /\ result' \in [op : Ops, value : BOOLEAN] /\ under_cb_scheduled' = FALSE
        /\ UNCHANGED <<now, enabled, cval, lock, gate, timer_cb, timer_fired,
                       under_cb_timer_cb, cycles_v, irq, call>>
    BY <1>0, <1>3, CallTypes DEF DeferCancel, hardware, Ops, Calls
  <2>2. TypeInv'
    BY <1>0, <2>1 DEF TypeInv
  <2> QED
    BY <2>1, <2>2 DEF IInv, ThreadInv, HandlerInv, CallbackInv
<1>4. ASSUME NEW cb \in Callbacks \cup {NULL}, NEW at \in Times, DeferSchedule(x, cb, at)
      PROVE  IInv'
  <2>1. /\ result' \in [op : Ops, value : BOOLEAN] /\ under_cb_scheduled' = TRUE
        /\ timer_fired' = FALSE /\ under_cb_timer_cb' = cb /\ cycles_v' = at
        /\ UNCHANGED <<now, enabled, cval, lock, gate, timer_cb, irq, call>>
    BY <1>0, <1>4, CallTypes DEF TypeInv, DeferSchedule, hardware, Ops, Calls
  <2>2. TypeInv'
    BY <1>0, <2>1 DEF TypeInv
  <2> QED
    BY <2>1, <2>2 DEF IInv, ThreadInv, HandlerInv, CallbackInv
<1> QED
  BY <1>1, <1>2, <1>3, <1>4 DEF Enter

\* The standard path of a call, which only the thread takes.
LEMMA BodyInv ==
  ASSUME IInv, NEW x \in Contexts, Body(x)
  PROVE  IInv'
<1>0. TypeInv /\ x = "thread" /\ irq = "out"
  BY WhoRuns DEF IInv
<1>1. /\ UNCHANGED <<now, lock, gate, under_cb_scheduled, under_cb_timer_cb, cycles_v, irq>>
      /\ call' = [call EXCEPT ![x] = NoCall]
  BY DEF Body, Schedule, IsArmed, HasFired, Cancel, Return, Program, hardware, deferred
<1>2. call' \in [Contexts -> CallType] /\ call'["callback"] = call["callback"]
  BY <1>0, <1>1, CallTypes DEF TypeInv, Contexts
<1>3. /\ enabled' \in BOOLEAN /\ cval' \in Times
      /\ timer_cb' \in Callbacks \cup {NULL} /\ timer_fired' \in BOOLEAN
  BY <1>0, CallTypes
  DEF TypeInv, Body, Schedule, IsArmed, HasFired, Cancel, Program, hardware
<1>4. result' \in [op : Ops, value : BOOLEAN]
  <2>1. PICK v \in BOOLEAN : result' = Answer(call[x].op, v)
    BY <1>0 DEF TypeInv, Body, Schedule, IsArmed, HasFired, Cancel, Return
  <2> QED
    BY <1>0, <2>1, CallTypes
<1>5. TypeInv'
  BY <1>0, <1>1, <1>2, <1>3, <1>4 DEF TypeInv
<1> QED
  BY <1>0, <1>1, <1>2, <1>5 DEF IInv, ThreadInv, HandlerInv, CallbackInv

LEMMA HandlerInvNext ==
  ASSUME IInv, HandleIrq \/ CallbackReturns \/ HandleIrqEnds
  PROVE  IInv'
<1>0. TypeInv
  BY DEF IInv
<1>1. UNCHANGED <<now, cycles_v, call, result>>
  BY DEF HandleIrq, CallbackReturns, HandleIrqEnds, hardware, deferred
<1>2. CASE HandleIrq
  <2>1. /\ enabled' = FALSE /\ timer_fired' = TRUE
        /\ under_cb_timer_cb' = NULL /\ under_cb_scheduled' = FALSE
        /\ UNCHANGED <<cval, timer_cb>>
    BY <1>2 DEF HandleIrq
  <2>2. \/ lock' = TRUE /\ gate' = FALSE /\ irq' = "callback"
        \/ UNCHANGED <<lock, gate, irq>> /\ irq = "out"
    BY <1>2 DEF HandleIrq
  <2>3. TypeInv'
    BY <1>0, <1>1, <2>1, <2>2 DEF TypeInv
  <2> QED
    BY <1>1, <2>1, <2>2, <2>3 DEF IInv, ThreadInv, HandlerInv, CallbackInv
<1>3. CASE CallbackReturns
  <2>1. /\ irq = "callback" /\ irq' = "returning"
        /\ UNCHANGED <<enabled, cval, lock, gate, timer_cb, timer_fired, under_cb_scheduled,
                       under_cb_timer_cb>>
    BY <1>3 DEF CallbackReturns, Pending, Running, hardware, deferred
  <2>2. TypeInv'
    BY <1>0, <1>1, <2>1 DEF TypeInv
  <2> QED
    BY <1>1, <2>1, <2>2 DEF IInv, ThreadInv, HandlerInv, CallbackInv
<1>4. CASE HandleIrqEnds
  <2>1. /\ gate' = TRUE /\ lock' = FALSE /\ irq' = "out"
        /\ UNCHANGED <<under_cb_scheduled, under_cb_timer_cb>>
    BY <1>4 DEF HandleIrqEnds, deferred
  <2>2. /\ enabled' \in BOOLEAN /\ cval' \in Times
        /\ timer_cb' \in Callbacks \cup {NULL} /\ timer_fired' \in BOOLEAN
    BY <1>0, <1>4 DEF TypeInv, HandleIrqEnds, Program
  <2>3. TypeInv'
    BY <1>0, <1>1, <2>1, <2>2 DEF TypeInv
  <2> QED
    BY <1>1, <2>1, <2>3 DEF IInv, ThreadInv, HandlerInv, CallbackInv
<1> QED
  BY <1>2, <1>3, <1>4

LEMMA NextInv == IInv /\ [Next]_vars => IInv'
<1> SUFFICES ASSUME IInv, [Next]_vars
             PROVE  IInv'
  OBVIOUS
<1>0. TypeInv
  BY DEF IInv
<1>1. CASE UNCHANGED vars \/ Tick
  <2>1. now' \in Times
    BY <1>0, <1>1, TimerAssumption DEF TypeInv, vars, hardware, Tick, Times
  <2>2. UNCHANGED <<enabled, cval, lock, gate, timer_cb, timer_fired, under_cb_scheduled,
                    under_cb_timer_cb, cycles_v, irq, call, result>>
    BY <1>1 DEF vars, hardware, deferred, Tick
  <2>3. TypeInv'
    BY <1>0, <2>1, <2>2 DEF TypeInv
  <2> QED
    BY <2>2, <2>3 DEF IInv, ThreadInv, HandlerInv, CallbackInv
<1>2. CASE HandleIrq \/ CallbackReturns \/ HandleIrqEnds
  BY <1>2, HandlerInvNext
<1>3. ASSUME NEW x \in Contexts, Enter(x) \/ Body(x)
      PROVE  IInv'
  BY <1>3, EnterInv, BodyInv
<1> QED
  BY <1>1, <1>2, <1>3 DEF Next

\* The invariant holds in every state the driver reaches.
THEOREM Invariance == Spec => []IInv
  BY InitInv, NextInv, PTL DEF Spec

\* The shape of the state.
THEOREM TypeCorrect == Spec => []TypeOK
<1>1. IInv => TypeOK
  BY DEF IInv, TypeInv, TypeOK, Ops, CallType
<1> QED
  BY <1>1, Invariance, PTL

\* While the thread runs, the gate is locked and the lock free: its calls are
\* never deferred to a callback that is not running, and never spin.
THEOREM ThreadOnStandardPath == Spec => []ThreadNeverDeferred
<1>1. IInv => ThreadNeverDeferred
  BY DEF IInv, ThreadInv, ThreadNeverDeferred
<1> QED
  BY <1>1, Invariance, PTL

-----------------------------------------------------------------------------
(* The driver is the one-shot timer of its header.                         *)

\* What a caller may take for the schedule, and for the callback being run.
Schedules ==
  IF irq = "out" THEN IF enabled THEN {[cb |-> timer_cb, at |-> cval]} ELSE {}
  ELSE IF under_cb_scheduled THEN {[cb |-> under_cb_timer_cb, at |-> cycles_v]} ELSE {}
RunningCb == IF irq = "out" THEN NULL ELSE timer_cb

\* A call that is deferred.
LEMMA DeferredStep ==
  ASSUME IInv, NEW x \in Contexts, Enter(x)
  PROVE  [Promise!Next]_(Promise!vars)
<1>1. CASE GateClosed(x)
  <2>1. UNCHANGED <<now, Schedules, timer_fired, RunningCb, result>>
    BY <1>1 DEF GateClosed, hardware, deferred, Schedules, RunningCb
  <2> QED
    BY <2>1 DEF Promise!vars, Schedules, RunningCb
<1>2. CASE DeferHasFired(x)
  <2>1. result' = Promise!Answer("has_fired", timer_fired) /\ timer_fired' = FALSE
    BY <1>2 DEF DeferHasFired, Answer, Promise!Answer
  <2>2. UNCHANGED <<now, Schedules, RunningCb>>
    BY <1>2 DEF DeferHasFired, hardware, deferred, Schedules, RunningCb
  <2>3. Promise!HasFired
    BY <2>1, <2>2 DEF Promise!HasFired, Schedules, RunningCb
  <2> QED
    BY <2>3 DEF Promise!Next
<1>3. CASE DeferCancel(x)
  <2>1. result' = Promise!Answer("cancel", FALSE)
    BY <1>3 DEF DeferCancel, Answer, Promise!Answer
  <2>2. irq = "callback"
    BY <1>3, WhoRuns DEF DeferCancel
  <2>3. UNCHANGED <<now, timer_fired, RunningCb>> /\ Schedules' = {}
    BY <1>3, <2>2 DEF DeferCancel, hardware, Schedules, RunningCb
  <2>4. Promise!Cancel
    BY <2>1, <2>3 DEF Promise!Cancel, Schedules, RunningCb
  <2> QED
    BY <2>4 DEF Promise!Next
<1>4. ASSUME NEW cb \in Callbacks \cup {NULL}, NEW at \in Times, DeferSchedule(x, cb, at)
      PROVE  [Promise!Next]_(Promise!vars)
  <2>1. irq = "callback" /\ under_cb_scheduled \in BOOLEAN
    BY <1>4, WhoRuns DEF DeferSchedule, IInv, TypeInv
  <2>2. under_cb_scheduled = (Schedules # {})
    BY <2>1 DEF Schedules
  <2>3. result' = Promise!Answer("schedule", Schedules # {})
    BY <1>4, <2>2 DEF DeferSchedule, Answer, Promise!Answer
  <2>4. timer_fired' = FALSE /\ UNCHANGED <<now, RunningCb>> /\ Schedules' = {[cb |-> cb, at |-> at]}
    BY <1>4, <2>1 DEF DeferSchedule, hardware, Schedules, RunningCb
  <2>5. Promise!Schedule(cb, at)
    BY <2>3, <2>4 DEF Promise!Schedule, Schedules, RunningCb
  <2> QED
    BY <2>5 DEF Promise!Next
<1> QED
  BY <1>1, <1>2, <1>3, <1>4 DEF Enter

\* A call of the thread.
LEMMA BodyStep ==
  ASSUME IInv, NEW x \in Contexts, Body(x)
  PROVE  Promise!Next
<1>1. irq = "out" /\ irq' = "out" /\ enabled \in BOOLEAN
  BY WhoRuns DEF Body, Schedule, IsArmed, HasFired, Cancel, IInv, TypeInv
<1>2. RunningCb' = RunningCb /\ now' = now /\ enabled = (Schedules # {})
  BY <1>1 DEF RunningCb, Schedules, Body, Schedule, IsArmed, HasFired, Cancel, hardware
<1>3. CASE Schedule(x)
  <2>1. PICK cb \in Callbacks \cup {NULL}, at \in Times : cb = call[x].cb /\ at = call[x].at
    BY DEF IInv, TypeInv, CallType
  <2>2. result' = Promise!Answer("schedule", Schedules # {})
    BY <1>2, <1>3 DEF Schedule, Pending, Return, Answer, Promise!Answer
  <2>3. timer_fired' = FALSE /\ Schedules' = {[cb |-> cb, at |-> at]}
    BY <1>1, <1>3, <2>1 DEF Schedule, Program, Schedules
  <2>4. Promise!Schedule(cb, at)
    BY <1>2, <2>2, <2>3 DEF Promise!Schedule, Schedules, RunningCb
  <2> QED
    BY <2>4 DEF Promise!Next
<1>4. CASE IsArmed(x)
  <2>1. result' = Promise!Answer("is_armed", Schedules # {})
    BY <1>2, <1>4 DEF IsArmed, Pending, Return, Answer, Promise!Answer
  <2>2. UNCHANGED <<timer_fired, Schedules>>
    BY <1>1, <1>4 DEF IsArmed, hardware, Schedules
  <2>3. Promise!IsArmed
    BY <1>2, <2>1, <2>2 DEF Promise!IsArmed, Schedules, RunningCb
  <2> QED
    BY <2>3 DEF Promise!Next
<1>5. CASE HasFired(x)
  <2>1. result' = Promise!Answer("has_fired", timer_fired)
    BY <1>5 DEF HasFired, Pending, Return, Answer, Promise!Answer
  <2>2. timer_fired' = FALSE /\ UNCHANGED Schedules
    BY <1>1, <1>5 DEF HasFired, hardware, Schedules
  <2>3. Promise!HasFired
    BY <1>2, <2>1, <2>2 DEF Promise!HasFired, Schedules, RunningCb
  <2> QED
    BY <2>3 DEF Promise!Next
<1>6. CASE Cancel(x)
  <2>1. result' = Promise!Answer("cancel", FALSE)
    BY <1>6 DEF Cancel, Pending, Return, Answer, Promise!Answer
  <2>2. UNCHANGED timer_fired /\ Schedules' = {}
    BY <1>1, <1>6 DEF Cancel, Schedules
  <2>3. Promise!Cancel
    BY <1>2, <2>1, <2>2 DEF Promise!Cancel, Schedules, RunningCb
  <2> QED
    BY <2>3 DEF Promise!Next
<1> QED
  BY <1>3, <1>4, <1>5, <1>6 DEF Body

\* The interrupt fires the timer; the end of the handler is the return of the
\* callback, whose schedule becomes that of the hardware.
LEMMA HandlerStep ==
  ASSUME IInv, HandleIrq \/ CallbackReturns \/ HandleIrqEnds
  PROVE  [Promise!Next]_(Promise!vars)
<1>1. UNCHANGED <<now, result>>
  BY DEF HandleIrq, CallbackReturns, HandleIrqEnds, hardware
<1>2. CASE HandleIrq
  <2>1. irq = "out" /\ RunningCb = NULL /\ Schedules = {[cb |-> timer_cb, at |-> cval]} /\ cval <= now
    BY <1>2 DEF HandleIrq, RunningCb, Schedules
  <2>2. timer_fired' = TRUE /\ Schedules' = {}
    BY <1>2 DEF HandleIrq, Schedules
  <2>3. RunningCb' = timer_cb
    <3>1. CASE timer_cb = NULL
      BY <1>2, <2>1, <3>1 DEF HandleIrq, RunningCb
    <3>2. CASE timer_cb # NULL
      BY <1>2, <3>2 DEF HandleIrq, RunningCb
    <3> QED
      BY <3>1, <3>2
  <2>4. \E s \in Schedules : s.at <= now /\ RunningCb' = s.cb
    BY <2>1, <2>3
  <2>5. Promise!Fire
    BY <1>1, <2>1, <2>2, <2>4 DEF Promise!Fire, Schedules, RunningCb
  <2> QED
    BY <2>5 DEF Promise!Next
<1>3. CASE CallbackReturns
  <2>1. UNCHANGED <<Schedules, timer_fired, RunningCb>>
    BY <1>3 DEF CallbackReturns, Pending, Running, hardware, deferred, Schedules, RunningCb
  <2> QED
    BY <1>1, <2>1 DEF Promise!vars, Schedules, RunningCb
<1>4. CASE HandleIrqEnds
  <2>1. irq = "returning" /\ irq' = "out" /\ ~enabled /\ (under_cb_scheduled => ~timer_fired)
        /\ timer_fired \in BOOLEAN
    BY <1>4 DEF HandleIrqEnds, IInv, HandlerInv, TypeInv
  <2>2. RunningCb' = NULL
    BY <2>1 DEF RunningCb
  <2>3. UNCHANGED <<Schedules, timer_fired>>
    <3>1. CASE under_cb_scheduled
      BY <1>4, <2>1, <3>1 DEF HandleIrqEnds, Program, Schedules
    <3>2. CASE ~under_cb_scheduled
      BY <1>4, <2>1, <3>2 DEF HandleIrqEnds, Schedules
    <3> QED
      BY <3>1, <3>2
  <2>4. Promise!Return
    BY <1>1, <2>2, <2>3 DEF Promise!Return, Schedules, RunningCb
  <2> QED
    BY <2>4 DEF Promise!Next
<1> QED
  BY <1>2, <1>3, <1>4

LEMMA StepKeepsPromise == IInv /\ [Next]_vars => [Promise!Next]_(Promise!vars)
<1> SUFFICES ASSUME IInv, [Next]_vars
             PROVE  [Promise!Next]_(Promise!vars)
  OBVIOUS
<1>1. CASE UNCHANGED vars
  <2>1. UNCHANGED <<now, Schedules, timer_fired, RunningCb, result>>
    BY <1>1 DEF vars, hardware, deferred, Schedules, RunningCb
  <2> QED
    BY <2>1 DEF Promise!vars, Schedules, RunningCb
<1>2. CASE Tick
  <2>1. UNCHANGED <<Schedules, timer_fired, RunningCb, result>>
    BY <1>2 DEF Tick, deferred, Schedules, RunningCb
  <2>2. now' > now
    BY <1>2 DEF Tick, IInv, TypeInv, Times
  <2>3. Promise!Tick
    BY <2>1, <2>2 DEF Promise!Tick, Schedules, RunningCb
  <2> QED
    BY <2>3 DEF Promise!Next
<1>3. CASE HandleIrq \/ CallbackReturns \/ HandleIrqEnds
  BY <1>3, HandlerStep
<1>4. ASSUME NEW x \in Contexts, Enter(x) \/ Body(x)
      PROVE  [Promise!Next]_(Promise!vars)
  BY <1>4, DeferredStep, BodyStep
<1> QED
  BY <1>1, <1>2, <1>3, <1>4 DEF Next

\* Calls answer and timers fire as the header says, whether the caller is the
\* thread or a callback whose calls are deferred.
THEOREM ImplementsPromise == Spec => PromiseSpec
<1>1. Init => Promise!Init
  BY DEF Init, Promise!Init, Answer, Promise!Answer
<1> QED
  BY <1>1, StepKeepsPromise, Invariance, PTL DEF Spec, PromiseSpec, Promise!Spec

-----------------------------------------------------------------------------
(* The lock: its invariant. *)


\* Core c has the lock word: it is inside the zone, or between the store
\* that takes the lock and the count, or between the count and the release.
Owns(c) == depth[c] > 0 \/ pc[c] \in {"count", "release"}

OwnerInv ==
  /\ \A c \in Cores : Owns(c) <=> l = c
  /\ n = IF l = UNLOCKED_VALUE THEN 0 ELSE depth[l]
  /\ \A c \in Cores : pc[c] = "release" => depth[c] = 0

\* A core about to store with its monitor set has seen a lock that is still
\* free.
MonitorInv ==
  \A c \in Cores : pc[c] = "store" /\ c \in monitor => l = UNLOCKED_VALUE

\* A core that does not come back at once from the load does not own the
\* lock, and one that locks has room for it.
LockingInv ==
  \A c \in Cores :
    /\ pc[c] \in {"store", "sleep"} => depth[c] = 0
    /\ pc[c] \in {"load", "store", "sleep", "count"} => depth[c] < NestLimit
    /\ c \in trying => pc[c] \in {"load", "store", "count"}

LockInv == LockTypeOK /\ OwnerInv /\ MonitorInv /\ LockingInv /\ NoAlarm

\* The inductive invariant holds initially.
LEMMA InitLockInv == LockInit => LockInv
  BY LockAssumption
  DEF LockInit, LockInv, LockTypeOK, OwnerInv, Owns, MonitorInv, LockingInv, NoAlarm, Labels

\* No step of any core breaks it.
LEMMA NextLockInv == LockInv /\ [LockNext]_lockVars => LockInv'
<1> SUFFICES ASSUME LockInv, [LockNext]_lockVars
             PROVE  LockInv'
  OBVIOUS
<1> USE LockAssumption DEF LockInv, LockTypeOK, Labels, Goto
<1>1. CASE UNCHANGED lockVars
  BY <1>1 DEF lockVars, OwnerInv, Owns, MonitorInv, LockingInv, NoAlarm
<1>2. ASSUME NEW c \in Cores, Lock(c) \/ TryLock(c)
      PROVE  LockInv'
  BY <1>2 DEF Lock, TryLock, OwnerInv, Owns, MonitorInv, LockingInv, NoAlarm
<1>3. ASSUME NEW c \in Cores, LoadFree(c) \/ LoadOwn(c)
      PROVE  LockInv'
  BY <1>3 DEF LoadFree, LoadOwn, OwnerInv, Owns, MonitorInv, LockingInv, NoAlarm
<1>4. ASSUME NEW c \in Cores, LoadTaken(c) \/ StoreFails(c)
      PROVE  LockInv'
  BY <1>4
  DEF LoadTaken, StoreFails, NotTaken, OwnerInv, Owns, MonitorInv, LockingInv, NoAlarm
<1>5. ASSUME NEW c \in Cores, StoreWins(c)
      PROVE  LockInv'
  BY <1>5 DEF StoreWins, Store, OwnerInv, Owns, MonitorInv, LockingInv, NoAlarm
<1>6. ASSUME NEW c \in Cores, Wake(c)
      PROVE  LockInv'
  BY <1>6 DEF Wake, OwnerInv, Owns, MonitorInv, LockingInv, NoAlarm
<1>7. ASSUME NEW c \in Cores, Count(c)
      PROVE  LockInv'
  BY <1>7 DEF Count, OwnerInv, Owns, MonitorInv, LockingInv, NoAlarm
<1>8. ASSUME NEW c \in Cores, Unlock(c)
      PROVE  LockInv'
  BY <1>8 DEF Unlock, OwnerInv, Owns, MonitorInv, LockingInv, NoAlarm
<1>9. ASSUME NEW c \in Cores, Release(c)
      PROVE  LockInv'
  BY <1>9 DEF Release, Store, OwnerInv, Owns, MonitorInv, LockingInv, NoAlarm
<1>10. ASSUME NEW c \in Cores, Sev(c) \/ Check(c)
       PROVE  LockInv'
  BY <1>10 DEF Sev, Check, OwnerInv, Owns, MonitorInv, LockingInv, NoAlarm
<1>11. ASSUME NEW c \in Cores, Interrupt(c)
       PROVE  LockInv'
  BY <1>11 DEF Interrupt, OwnerInv, Owns, MonitorInv, LockingInv, NoAlarm
<1> QED
  BY <1>1, <1>2, <1>3, <1>4, <1>5, <1>6, <1>7, <1>8, <1>9, <1>10, <1>11
  DEF LockNext, Instruction

\* The inductive invariant is one.
THEOREM LockInvariance == LockSpec => []LockInv
  BY InitLockInv, NextLockInv, PTL DEF LockSpec

\* Type correctness; the count of the lock never passes its limit.
THEOREM LockTypeCorrect == LockSpec => []LockTypeOK
<1>1. LockInv => LockTypeOK
  BY DEF LockInv
<1> QED
  BY <1>1, LockInvariance, PTL

\* At most one core is in the zone, for any number of cores.
THEOREM MutuallyExclusive == LockSpec => []MutualExclusion
<1>1. LockInv => MutualExclusion
  BY DEF LockInv, OwnerInv, Owns, MutualExclusion
<1> QED
  BY <1>1, LockInvariance, PTL

\* The assertions of core_unlock and the owner test of _core_unlock hold for
\* callers that unlock what they locked.
THEOREM AlarmNeverSounds == LockSpec => []NoAlarm
<1>1. LockInv => NoAlarm
  BY DEF LockInv
<1> QED
  BY <1>1, LockInvariance, PTL

\* A core inside the zone that locks again is not put to sleep.
THEOREM RecursionNeverBlocks == LockSpec => []HolderNeverSleeps
<1>1. LockInv => HolderNeverSleeps
  BY DEF LockInv, LockingInv, HolderNeverSleeps
<1> QED
  BY <1>1, LockInvariance, PTL

-----------------------------------------------------------------------------
(* No wakeup is lost *)

\* What NoLostWakeup needs to be inductive: a core that sleeps still has its
\* monitor on a lock that is taken, so the store that frees it is an event;
\* a core whose store is bound to fail has had its event.
WakeInv ==
  \A c \in Cores :
    /\ pc[c] = "sleep" => c \in event \/ (c \in monitor /\ l # UNLOCKED_VALUE)
    /\ pc[c] = "store" => c \in event \/ c \in monitor

LEMMA NextWakeInv == LockInv /\ WakeInv /\ [LockNext]_lockVars => WakeInv'
<1> SUFFICES ASSUME LockInv, WakeInv, [LockNext]_lockVars
             PROVE  WakeInv'
  OBVIOUS
<1> USE LockAssumption DEF LockInv, LockTypeOK, WakeInv, Goto
<1>1. CASE UNCHANGED lockVars
  BY <1>1 DEF lockVars
<1>2. ASSUME NEW c \in Cores, Lock(c) \/ TryLock(c) \/ Unlock(c) \/ Interrupt(c)
      PROVE  WakeInv'
  BY <1>2 DEF Lock, TryLock, Unlock, Interrupt
<1>3. ASSUME NEW c \in Cores, LoadFree(c) \/ LoadOwn(c) \/ Count(c) \/ Wake(c)
      PROVE  WakeInv'
  BY <1>3 DEF LoadFree, LoadOwn, Count, Wake
<1>4. ASSUME NEW c \in Cores, LoadTaken(c) \/ StoreFails(c)
      PROVE  WakeInv'
  BY <1>4 DEF LoadTaken, StoreFails, NotTaken
<1>5. ASSUME NEW c \in Cores, StoreWins(c)
      PROVE  WakeInv'
  BY <1>5 DEF StoreWins, Store
<1>6. ASSUME NEW c \in Cores, Release(c)
      PROVE  WakeInv'
  <2>1. l = c
    BY <1>6 DEF OwnerInv, Owns, Release
  <2> QED
    BY <1>6, <2>1 DEF Release, Store
<1>7. ASSUME NEW c \in Cores, Sev(c) \/ Check(c)
      PROVE  WakeInv'
  BY <1>7 DEF Sev, Check
<1> QED
  BY <1>1, <1>2, <1>3, <1>4, <1>5, <1>6, <1>7 DEF LockNext, Instruction

\* A core that waits for a free lock is about to wake.
THEOREM WakeupsAreKept == LockSpec => []NoLostWakeup
<1>1. LockInit => WakeInv
  BY DEF LockInit, WakeInv
<1>2. WakeInv => NoLostWakeup
  BY DEF WakeInv, NoLostWakeup
<1> QED
  BY <1>1, <1>2, NextWakeInv, LockInvariance, PTL DEF LockSpec

\* core_try_lock succeeds for the core that holds the lock.
THEOREM HolderIsServed == LockSpec => HolderNeverRefused
<1>1. ASSUME LockInv, [LockNext]_lockVars, NEW c \in Cores,
             c \in trying, c \notin trying', depth[c] > 0
      PROVE  depth'[c] = depth[c] + 1
  <2>1. l = c /\ pc[c] # "store"
    BY <1>1 DEF LockInv, OwnerInv, Owns, LockingInv
  <2>2. \E d \in Cores : LoadTaken(d) \/ StoreFails(d) \/ Count(d)
    BY <1>1 DEF lockVars, LockNext, Instruction, Lock, TryLock, Unlock, Interrupt, LoadFree,
                LoadOwn, StoreWins, Wake, Release, Sev, Check
  <2>3. PICK d \in Cores : LoadTaken(d) \/ StoreFails(d) \/ Count(d)
    BY <2>2
  <2>4. d = c
    BY <1>1, <2>3 DEF LoadTaken, StoreFails, NotTaken, Count
  <2>5. Count(c)
    BY <2>1, <2>3, <2>4 DEF LoadTaken, StoreFails
  <2> QED
    BY <1>1, <2>5 DEF Count, LockInv, LockTypeOK
<1>2. LockInv /\ [LockNext]_lockVars =>
        [\A c \in Cores : c \in trying /\ c \notin trying' /\ depth[c] > 0
                            => depth'[c] = depth[c] + 1]_lockVars
  BY <1>1
<1> QED
  BY <1>2, LockInvariance, PTL DEF LockSpec, HolderNeverRefused

\* Neither core_lock nor core_try_lock makes the holder wait.
THEOREM HolderNeverWaits == LockSpec => HolderServed
<1>1. HolderNeverSleeps'
        /\ [\A c \in Cores : c \in trying /\ c \notin trying' /\ depth[c] > 0
                              => depth'[c] = depth[c] + 1]_lockVars
      => [ServesHolder]_lockVars
  BY DEF ServesHolder
<1> QED
  BY <1>1, RecursionNeverBlocks, HolderIsServed, PTL
     DEF HolderServed, HolderNeverRefused
=============================================================================
