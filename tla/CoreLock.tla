------------------------------ MODULE CoreLock ------------------------------
(***************************************************************************)
(* The recursive lock of lib/lock/corelock.S and corelock.c, shared by the *)
(* cores.  Each action is one instruction (or assertion) of the code that  *)
(* another core can see, with the instructions local to the core that      *)
(* follow it.  The processor is external: each core has an exclusive       *)
(* monitor, set by ldaxr, and an event register, on which wfe waits.  A    *)
(* store to the lock word clears the monitors of all cores, and a core     *)
(* whose monitor is cleared by another one has its event register set.     *)
(* An operator headed "Faulty" is the definition that follows it with a    *)
(* bug the code does not have: no specification uses it.                   *)
(***************************************************************************)
EXTENDS Integers

CONSTANTS
  Cores,          \* MPIDR_EL1 & 0xFF of the cores
  UNLOCKED_VALUE, \* ~(uint32)0, no core has this number
  NestLimit       \* deepest nesting, UINT32_MAX - 1 in corelock.h

ASSUME LockAssumption == UNLOCKED_VALUE \notin Cores /\ NestLimit \in Nat

VARIABLES
  l,       \* the lock word: the core that holds the lock
  n,       \* how many times it has locked it
  monitor, \* external: cores with the exclusive monitor set
  event,   \* external: cores with the event register set
  pc,      \* what each core executes next, "idle" outside of the calls
  trying,  \* cores whose call is core_try_lock rather than core_lock
  depth    \* ghost: locks not yet unlocked by the code of each core

lockVars == <<l, n, monitor, event, pc, trying, depth>>

Goto(c, label) == pc' = [pc EXCEPT ![c] = label]

LockInit ==
  /\ l = UNLOCKED_VALUE /\ n = 0
  /\ monitor = {} /\ event = {}
  /\ pc = [c \in Cores |-> "idle"]
  /\ trying = {}
  /\ depth = [c \in Cores |-> 0]

\* External: core c stores v to the lock word.
Store(c, v) ==
  /\ l' = v
  /\ monitor' = {}
  /\ event' = event \cup (monitor \ {c})

-----------------------------------------------------------------------------
(* core_lock and core_try_lock *)

\* Entry of _core_lock, which executes sevl.
Lock(c) ==
  /\ pc[c] = "idle" /\ depth[c] < NestLimit
  /\ event' = event \cup {c}
  /\ Goto(c, "load")
  /\ UNCHANGED <<l, n, monitor, trying, depth>>

\* Entry of _core_try_lock.
TryLock(c) ==
  /\ pc[c] = "idle" /\ depth[c] < NestLimit
  /\ trying' = trying \cup {c}
  /\ Goto(c, "load")
  /\ UNCHANGED <<l, n, monitor, event, depth>>

\* core_lock sleeps and tries again, keeping its monitor; core_try_lock
\* executes clrex and returns false.
NotTaken(c) ==
  /\ trying' = trying \ {c}
  /\ IF c \in trying THEN Goto(c, "idle") ELSE Goto(c, "sleep")

\* ldaxr finds the lock free.
LoadFree(c) ==
  /\ pc[c] = "load" /\ l = UNLOCKED_VALUE
  /\ monitor' = monitor \cup {c}
  /\ Goto(c, "store")
  /\ UNCHANGED <<l, n, event, trying, depth>>

\* ldaxr finds that the core holds the lock already; clrex.
LoadOwn(c) ==
  /\ pc[c] = "load" /\ l = c
  /\ monitor' = monitor \ {c}
  /\ Goto(c, "count")
  /\ UNCHANGED <<l, n, event, trying, depth>>

\* Faulty: the core is not told from the others.
LoadTakenByAny(c) ==
  /\ pc[c] = "load" /\ l # UNLOCKED_VALUE
  /\ monitor' = IF c \in trying THEN monitor \ {c} ELSE monitor \cup {c}
  /\ NotTaken(c)
  /\ UNCHANGED <<l, n, event, depth>>

\* ldaxr finds that another core holds the lock.
LoadTaken(c) ==
  /\ pc[c] = "load" /\ l \notin {c, UNLOCKED_VALUE}
  /\ monitor' = IF c \in trying THEN monitor \ {c} ELSE monitor \cup {c}
  /\ NotTaken(c)
  /\ UNCHANGED <<l, n, event, depth>>

\* Faulty: a plain store.
StoreAnyway(c) ==
  /\ pc[c] = "store"
  /\ Store(c, c)
  /\ Goto(c, "count")
  /\ UNCHANGED <<n, trying, depth>>

\* stxr succeeds: the monitor is still set.
StoreWins(c) ==
  /\ pc[c] = "store" /\ c \in monitor
  /\ Store(c, c)
  /\ Goto(c, "count")
  /\ UNCHANGED <<n, trying, depth>>

\* Faulty: what follows waits for a second event.
StoreFailsDeaf(c) ==
  /\ pc[c] = "store" /\ c \notin monitor
  /\ NotTaken(c)
  /\ event' = event \ {c}
  /\ UNCHANGED <<l, n, monitor, depth>>

\* stxr fails: the monitor was cleared since ldaxr.
StoreFails(c) ==
  /\ pc[c] = "store" /\ c \notin monitor
  /\ NotTaken(c)
  /\ UNCHANGED <<l, n, monitor, event, depth>>

\* wfe waits for the event register and clears it.
Wake(c) ==
  /\ pc[c] = "sleep" /\ c \in event
  /\ event' = event \ {c}
  /\ Goto(c, "load")
  /\ UNCHANGED <<l, n, monitor, trying, depth>>

\* l->n++ and the return to the caller, which is now in the zone.
Count(c) ==
  /\ pc[c] = "count"
  /\ n' = n + 1
  /\ depth' = [depth EXCEPT ![c] = depth[c] + 1]
  /\ trying' = trying \ {c}
  /\ Goto(c, "idle")
  /\ UNCHANGED <<l, monitor, event>>

-----------------------------------------------------------------------------
(* core_unlock *)

\* Faulty: the count of the outermost lock stays.
UnlockLeavesOne(c) ==
  /\ pc[c] = "idle" /\ depth[c] > 0
  /\ n' = IF n = 1 THEN n ELSE n - 1
  /\ depth' = [depth EXCEPT ![c] = depth[c] - 1]
  /\ Goto(c, IF n = 1 THEN "release" ELSE "idle")
  /\ UNCHANGED <<l, monitor, event, trying>>

\* Faulty: every unlock releases.
UnlockAtOnce(c) ==
  /\ pc[c] = "idle" /\ depth[c] > 0
  /\ IF l = UNLOCKED_VALUE
     THEN Goto(c, "panic") /\ UNCHANGED <<n, depth>>
     ELSE n' = n - 1 /\ depth' = [depth EXCEPT ![c] = depth[c] - 1] /\ Goto(c, "release")
  /\ UNCHANGED <<l, monitor, event, trying>>

\* The two ASSERTs of core_unlock and --l->n.  The caller unlocks what it
\* locked.
Unlock(c) ==
  /\ pc[c] = "idle" /\ depth[c] > 0
  /\ IF l = UNLOCKED_VALUE \/ n = 0
     THEN Goto(c, "panic") /\ UNCHANGED <<n, depth>>
     ELSE /\ n' = n - 1
          /\ depth' = [depth EXCEPT ![c] = depth[c] - 1]
          /\ Goto(c, IF n = 1 THEN "release" ELSE "idle")
  /\ UNCHANGED <<l, monitor, event, trying>>

\* _core_unlock: stlr frees the lock; a core that does not hold it hangs.
Release(c) ==
  /\ pc[c] = "release"
  /\ IF l = c
     THEN Store(c, UNLOCKED_VALUE) /\ Goto(c, "sev")
     ELSE Goto(c, "hang") /\ UNCHANGED <<l, monitor, event>>
  /\ UNCHANGED <<n, trying, depth>>

Sev(c) ==
  /\ pc[c] = "sev"
  /\ event' = Cores
  /\ Goto(c, "check")
  /\ UNCHANGED <<l, n, monitor, trying, depth>>

\* The last DEBUG_ASSERT of core_unlock, which a release build leaves out.
\* Whether it holds is UnlockedAfterUnlock.
Check(c) ==
  /\ pc[c] = "check"
  /\ Goto(c, "idle")
  /\ UNCHANGED <<l, n, monitor, event, trying, depth>>

-----------------------------------------------------------------------------
\* External: an interrupt whose handler does not take this lock.  Its eret
\* clears the monitor and sets the event register.
Interrupt(c) ==
  /\ monitor' = monitor \ {c}
  /\ event' = event \cup {c}
  /\ UNCHANGED <<l, n, pc, trying, depth>>

Instruction(c) ==
  \/ LoadFree(c) \/ LoadOwn(c) \/ LoadTaken(c)
  \/ StoreWins(c) \/ StoreFails(c) \/ Wake(c) \/ Count(c)
  \/ Release(c) \/ Sev(c) \/ Check(c)

LockNext == \E c \in Cores :
  Lock(c) \/ TryLock(c) \/ Unlock(c) \/ Instruction(c) \/ Interrupt(c)

LockSpec == LockInit /\ [][LockNext]_lockVars

\* A core executes its instructions and leaves the zone.  Interrupts do not
\* separate the same ldaxr and stxr for ever.
FairLockSpec ==
  /\ LockSpec
  /\ \A c \in Cores : WF_lockVars(Instruction(c)) /\ SF_lockVars(StoreWins(c))
                      /\ WF_lockVars(Unlock(c))

-----------------------------------------------------------------------------
(* Properties. *)

Labels == {"idle", "load", "store", "sleep", "count", "release", "sev",
           "check", "panic", "hang"}

\* Types; the count never passes the limit of the header, so it never wraps.
LockTypeOK ==
  /\ l \in Cores \cup {UNLOCKED_VALUE} /\ n \in 0 .. NestLimit
  /\ monitor \subseteq Cores /\ event \subseteq Cores
  /\ pc \in [Cores -> Labels]
  /\ trying \subseteq Cores
  /\ depth \in [Cores -> 0 .. NestLimit]

\* At most one core is in the protected zone.
MutualExclusion ==
  \A c, d \in Cores : depth[c] > 0 /\ depth[d] > 0 => c = d

\* A core that unlocks what it locked never meets a failed ASSERT of
\* core_unlock nor the endless wfi of _core_unlock.
NoAlarm == \A c \in Cores : pc[c] \notin {"panic", "hang"}

\* A core inside the zone that locks again never sleeps: recursion cannot
\* deadlock.
HolderNeverSleeps == \A c \in Cores : pc[c] = "sleep" => depth[c] = 0

\* No wakeup is lost: a core that waits while the lock is free has an event
\* pending, even before the sev of the core that freed it.
NoLostWakeup ==
  \A c \in Cores : pc[c] = "sleep" /\ l = UNLOCKED_VALUE => c \in event

\* core_try_lock never refuses a core that holds the lock.
HolderNeverRefused ==
  [][\A c \in Cores : c \in trying /\ c \notin trying' /\ depth[c] > 0
                        => depth'[c] = depth[c] + 1]_lockVars

\* Recursion never waits: no step puts a core that holds the lock to sleep for
\* it, or refuses it.
ServesHolder ==
  /\ HolderNeverSleeps'
  /\ \A c \in Cores : c \in trying /\ c \notin trying' /\ depth[c] > 0
                        => depth'[c] = depth[c] + 1
HolderServed == [][ServesHolder]_lockVars

\* The DEBUG_ASSERT that ends core_unlock (corelock.c:35): the lock is free
\* and its count is zero.
UnlockedAfterUnlock ==
  \A c \in Cores : pc[c] = "check" => l = UNLOCKED_VALUE /\ n = 0

Waiting == \E c \in Cores : c \notin trying /\ pc[c] \in {"load", "store", "sleep"}

\* While some core waits in core_lock, the lock is taken again and again: the
\* waiters never all sleep.
SomeCoreGetsIn == Waiting ~> (\E c \in Cores : pc[c] = "count")
=============================================================================
