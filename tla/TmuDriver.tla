------------------------------ MODULE TmuDriver ------------------------------
(***************************************************************************)
(* The thermal monitor driver (drivers/tmu), with what an interrupt goes   *)
(* through to reach it: the stages of kernel/init, the mask of the core,   *)
(* the interrupt controller, the table of kernel/irq.  Its state is shared *)
(* by the cores under state_lock, which callers take with interrupts       *)
(* masked; the controller sends the interrupt to one core.                 *)
(* The unit's registers are seen as sets of interrupts <<kind, probe>>.  A *)
(* spin lock is taken in one step (CoreLock models how such a step is      *)
(* made), and a temperature is valid or not.                               *)
(* An operator headed "Faulty" is the definition that follows it with a    *)
(* bug the code does not have: no specification uses it.                   *)
(***************************************************************************)
EXTENDS Integers, FiniteSets

CONSTANTS
  Cores, IrqCore,   \* the cores; the one that boots and takes the interrupt
  Probes,           \* the numbers of the probes
  MaxCalls          \* bound: calls made by the threads of the cores

Free == "free"

ASSUME TmuAssumption ==
  /\ IrqCore \in Cores /\ Free \notin Cores /\ MaxCalls \in Nat
  /\ Probes \subseteq Nat /\ IsFiniteSet(Probes) /\ Probes # {}

VARIABLES
  unit,     \* [tier, tidr: interrupts enabled and met; on: TER.EN; armed: kinds of threshold]
  state,    \* tmu_state: [irq_status, warn_pending, init_stage, lock]
  gic,      \* external: [up, spi, active: the controller's side of the interrupt]
  masked,   \* DAIF.I of each core
  th,       \* the thread of each core: [op, at, flags, want]
  irq,      \* the handler: [at, sources]
  calls,    \* calls left to make
  wanted,   \* ghost: the last caller that chose wants warnings
  told,     \* ghost: and one of them has been reported since
  panic     \* what stopped a core; nothing is modelled after it

vars == <<unit, state, gic, masked, th, irq, calls, wanted, told, panic>>

Warn == {"ATTE"} \X Probes
Critical == {"ATCTE"} \X Probes
Boots == {"stage 0", "exceptions", "gic", "stage 1", "status", "register", "stage 2"}

Init ==
  /\ unit = [tier |-> {}, tidr |-> {}, on |-> FALSE, armed |-> {}]
  /\ state = [irq_status |-> {}, warn_pending |-> FALSE, init_stage |-> 0, lock |-> Free]
  /\ gic = [up |-> FALSE, spi |-> [group1ns |-> FALSE, enabled |-> FALSE, cpu |-> IrqCore], active |-> FALSE]
  /\ masked = [c \in Cores |-> c = IrqCore]
  /\ th = [c \in Cores |-> [op |-> "boot", at |-> IF c = IrqCore THEN "stage 0" ELSE "idle",
                            flags |-> FALSE, want |-> {}]]
  /\ irq = [at |-> "out", sources |-> {}]
  /\ calls = MaxCalls /\ wanted = FALSE /\ told = FALSE /\ panic = "none"

\* A thread runs while no interrupt is handled on its core.
At(c, where) == panic = "none" /\ th[c].at = where /\ (c = IrqCore => irq.at = "out")
Goes(c, where) == th' = [th EXCEPT ![c].at = where]
Stops(why) == panic' = why /\ UNCHANGED <<unit, state, gic, masked, th, irq, calls, wanted, told>>
Booted == th[IrqCore].at \notin Boots

\* The next interrupt of a set: the enumeration goes by kind, then by probe.
FirstOf(S) ==
  CHOOSE b \in S : \A d \in S : b[1] = d[1] => b[2] <= d[2]

-----------------------------------------------------------------------------
(* The unit finds a temperature above a threshold. *)
Exceed ==
  /\ panic = "none" /\ unit.on
  /\ \E b \in Warn \cup Critical :
       b[1] \in unit.armed /\ b \notin unit.tidr /\ unit' = [unit EXCEPT !.tidr = @ \cup {b}]
  /\ UNCHANGED <<state, gic, masked, th, irq, calls, wanted, told, panic>>

\* The line of the unit as the controller passes it on, level sensitive.
Line ==
  /\ gic.up /\ gic.spi.group1ns /\ gic.spi.enabled /\ gic.spi.cpu = IrqCore
  /\ unit.tier \cap unit.tidr # {}

-----------------------------------------------------------------------------
(* Boot: kernel_init and the stages of init_drivers.c. *)

Stage0 ==
  /\ At(IrqCore, "stage 0") /\ state.init_stage = 0
  /\ state' = [state EXCEPT !.irq_status = {}, !.warn_pending = FALSE, !.init_stage = 1]
  /\ unit' = [unit EXCEPT !.on = TRUE]
  /\ Goes(IrqCore, "exceptions")
  /\ UNCHANGED <<gic, masked, irq, calls, wanted, told, panic>>

EnableExceptions ==
  /\ At(IrqCore, "exceptions")
  /\ masked' = [masked EXCEPT ![IrqCore] = FALSE]
  /\ Goes(IrqCore, "gic")
  /\ UNCHANGED <<unit, state, gic, irq, calls, wanted, told, panic>>

GicInit ==
  /\ At(IrqCore, "gic")
  /\ gic' = [gic EXCEPT !.up = TRUE]
  /\ Goes(IrqCore, "stage 1")
  /\ UNCHANGED <<unit, state, masked, irq, calls, wanted, told, panic>>

Stage1 ==
  /\ At(IrqCore, "stage 1") /\ state.init_stage = 1
  /\ unit' = [unit EXCEPT !.on = TRUE, !.armed = {"ATTE", "ATCTE"}]
  /\ Goes(IrqCore, "status")
  /\ UNCHANGED <<state, gic, masked, irq, calls, wanted, told, panic>>

\* TMU_set_irq_status_ enables one interrupt, in the copy and then in TIER;
\* the last one ends the stage.
Stage1Status ==
  /\ At(IrqCore, "status")
  /\ LET off == (Warn \cup Critical) \ state.irq_status
         b   == FirstOf(IF off \cap Warn # {} THEN off \cap Warn ELSE off)
     IN  state' = [state EXCEPT !.irq_status = @ \cup {b}]
  /\ Goes(IrqCore, "register")
  /\ UNCHANGED <<unit, gic, masked, irq, calls, wanted, told, panic>>

Stage1Register ==
  /\ At(IrqCore, "register")
  /\ unit' = [unit EXCEPT !.tier = state.irq_status]
  /\ IF state.irq_status = Warn \cup Critical
     THEN state' = [state EXCEPT !.init_stage = 2] /\ wanted' = TRUE /\ Goes(IrqCore, "stage 2")
     ELSE Goes(IrqCore, "status") /\ UNCHANGED <<state, wanted>>
  /\ UNCHANGED <<gic, masked, irq, calls, told, panic>>

\* What the setters called by GICV3_init_irq leave of an interrupt.
SetUp(cpu) == [group1ns |-> TRUE, enabled |-> TRUE, cpu |-> cpu]

Stage2 ==
  /\ At(IrqCore, "stage 2")
  /\ gic' = [gic EXCEPT !.spi = SetUp(IrqCore)]
  /\ Goes(IrqCore, "idle")
  /\ UNCHANGED <<unit, state, masked, irq, calls, wanted, told, panic>>

Boot == Stage0 \/ EnableExceptions \/ GicInit \/ Stage1 \/ Stage1Status \/ Stage1Register \/ Stage2

-----------------------------------------------------------------------------
(* irq_spinlocked *)

Ops == {"enable", "disable", "pending", "set warn", "set critical"}

FirstStep(op) ==
  CASE op \in {"enable", "disable"} -> "tier" [] op = "pending" -> "read"
    [] op = "set warn" -> "save" [] op = "set critical" -> "drop" [] op = "query" -> "answer"

\* _spin_lock_irqsave masks interrupts, then spins.
Call(c, op) ==
  /\ At(c, "idle") /\ Booted /\ calls > 0
  /\ calls' = calls - 1
  /\ masked' = [masked EXCEPT ![c] = TRUE]
  /\ th' = [th EXCEPT ![c] = [op |-> op, at |-> "lock", flags |-> masked[c],
                              want |-> IF op = "enable" THEN Warn ELSE {}]]
  /\ UNCHANGED <<unit, state, gic, irq, wanted, told, panic>>

Lock(c) ==
  /\ At(c, "lock") /\ state.lock = Free
  /\ state' = [state EXCEPT !.lock = c]
  /\ Goes(c, FirstStep(th[c].op))
  /\ UNCHANGED <<unit, gic, masked, irq, calls, wanted, told, panic>>

Unlock(c) ==
  /\ At(c, "unlock")
  /\ state' = [state EXCEPT !.lock = Free]
  /\ Goes(c, "restore")
  /\ UNCHANGED <<unit, gic, masked, irq, calls, wanted, told, panic>>

RestoreMask(c) ==
  /\ At(c, "restore")
  /\ masked' = [masked EXCEPT ![c] = th[c].flags]
  /\ Goes(c, "idle")
  /\ UNCHANGED <<unit, state, gic, irq, calls, wanted, told, panic>>

-----------------------------------------------------------------------------
(* TMU_enable_warnings, TMU_disable_warnings, TMU_set_warn_temp.           *)
(* TMU_ATTEX_irq_status_set_ writes TIER, then the copy, unless the copy   *)
(* already says so.                                                        *)

WarnsAre(S) == state.irq_status \cap Warn = S
Without(S, T, U) == (S \ T) \cup U

WriteTier(c, from, copy, next, S) ==
  /\ At(c, from)
  /\ IF WarnsAre(S) THEN Goes(c, next) /\ UNCHANGED unit
     ELSE Goes(c, copy) /\ unit' = [unit EXCEPT !.tier = Without(@, Warn, S)]
  /\ UNCHANGED <<state, gic, masked, irq, calls, panic>>

WriteCopy(c, from, next, S) ==
  /\ At(c, from)
  /\ state' = [state EXCEPT !.irq_status = Without(@, Warn, S)]
  /\ Goes(c, next)
  /\ UNCHANGED <<unit, gic, masked, irq, calls, wanted, told, panic>>

\* A caller's choice is made where the status is set.
SetTier(c) ==
  /\ WriteTier(c, "tier", "copy", "unlock", th[c].want)
  /\ wanted' = IF th[c].op = "set warn" THEN wanted ELSE th[c].op = "enable"
  /\ told' = (told /\ th[c].op # "enable")
SetCopy(c) == WriteCopy(c, "copy", "unlock", th[c].want)

\* Faulty: the state to restore is read once warnings are off.
SaveAfterOff(c) ==
  /\ At(c, "save")
  /\ th' = [th EXCEPT ![c].want = {}, ![c].at = "off tier"]
  /\ UNCHANGED <<unit, state, gic, masked, irq, calls, wanted, told, panic>>

Save(c) ==
  /\ At(c, "save")
  /\ th' = [th EXCEPT ![c].want = state.irq_status \cap Warn, ![c].at = "off tier"]
  /\ UNCHANGED <<unit, state, gic, masked, irq, calls, wanted, told, panic>>

OffTier(c) == WriteTier(c, "off tier", "off copy", "validate", {}) /\ UNCHANGED <<wanted, told>>
OffCopy(c) == WriteCopy(c, "off copy", "validate", {})

Kind(c) == IF th[c].op = "set warn" THEN "ATTE" ELSE "ATCTE"

Validate(c) ==
  /\ At(c, "validate")
  /\ \/ Goes(c, "program") /\ UNCHANGED <<unit, state, gic, masked, irq, calls, wanted, told, panic>>
     \/ Stops("temperature")

\* The unit and the threshold are off while the temperature is written.
Program(c) ==
  /\ At(c, "program")
  /\ unit' = [unit EXCEPT !.on = FALSE, !.armed = @ \ {Kind(c)}]
  /\ Goes(c, "resume")
  /\ UNCHANGED <<state, gic, masked, irq, calls, wanted, told, panic>>

Resume(c) ==
  /\ At(c, "resume")
  /\ unit' = [unit EXCEPT !.on = TRUE, !.armed = @ \cup {Kind(c)}]
  /\ Goes(c, IF th[c].op = "set warn" THEN "tier" ELSE "raise")
  /\ UNCHANGED <<state, gic, masked, irq, calls, wanted, told, panic>>

-----------------------------------------------------------------------------
(* TMU_set_critical_temp: TMU_set_irq_status_ changes one interrupt, in    *)
(* the copy and then in TIER.                                              *)

CopyOf(c, from, tierAt, next, left, status) ==
  /\ At(c, from)
  /\ IF left = {} THEN Goes(c, next) /\ UNCHANGED state
     ELSE Goes(c, tierAt) /\ state' = [state EXCEPT !.irq_status = status]
  /\ UNCHANGED <<unit, gic, masked, irq, calls, wanted, told, panic>>

Drop(c) ==
  LET left == state.irq_status \cap Critical
  IN  CopyOf(c, "drop", "drop tier", "validate", left, state.irq_status \ {FirstOf(left)})
Raise(c) ==
  LET left == Critical \ state.irq_status
  IN  CopyOf(c, "raise", "raise tier", "unlock", left, state.irq_status \cup {FirstOf(left)})

CriticalTier(c, from, next) ==
  /\ At(c, from)
  /\ unit' = [unit EXCEPT !.tier = Without(@, Critical, state.irq_status \cap Critical)]
  /\ Goes(c, next)
  /\ UNCHANGED <<state, gic, masked, irq, calls, wanted, told, panic>>

DropTier(c) == CriticalTier(c, "drop tier", "drop")
RaiseTier(c) == CriticalTier(c, "raise tier", "raise")

-----------------------------------------------------------------------------
(* The queries. *)

\* TMU_warn_pending
ReadPending(c) ==
  /\ At(c, "read")
  /\ state' = [state EXCEPT !.warn_pending = FALSE]
  /\ told' = (told \/ state.warn_pending)
  /\ Goes(c, "unlock")
  /\ UNCHANGED <<unit, gic, masked, irq, calls, wanted, panic>>

\* TMU_get_warnings_enabled returns from inside irq_spinlocked.
Answer(c) ==
  /\ At(c, "answer")
  /\ Goes(c, "idle")
  /\ UNCHANGED <<unit, state, gic, masked, irq, calls, wanted, told, panic>>

\* TMU_get_temp stops the core if six reads do not find both probes ready;
\* otherwise it changes nothing.
GetTemp(c) ==
  /\ At(c, "idle") /\ Booted /\ Stops("not responding")

-----------------------------------------------------------------------------
(* The interrupt: el1_cur_spx_irq_handler, kernel_handle_irq and           *)
(* TMU_handle_irq.                                                         *)

TakeIrq ==
  /\ panic = "none" /\ irq.at = "out" /\ ~masked[IrqCore] /\ Line
  /\ masked' = [masked EXCEPT ![IrqCore] = TRUE]
  /\ irq' = [irq EXCEPT !.at = "intid"]
  /\ UNCHANGED <<unit, state, gic, th, calls, wanted, told, panic>>

In(where) == panic = "none" /\ irq.at = where

\* An interrupt whose line has dropped reads as 1023, which is past the end of
\* the handler table.
ReadIntid ==
  /\ In("intid")
  /\ IF Line
     THEN /\ gic' = [gic EXCEPT !.active = TRUE] /\ irq' = [irq EXCEPT !.at = "tidr"]
          /\ UNCHANGED <<unit, state, masked, th, calls, wanted, told, panic>>
     ELSE Stops("past the table")

\* TMU_get_irq_sources_ reads TIDR, then the copy, without the lock.
ReadTidr ==
  /\ In("tidr")
  /\ irq' = [at |-> "copy", sources |-> unit.tidr]
  /\ UNCHANGED <<unit, state, gic, masked, th, calls, wanted, told, panic>>

ReadCopy ==
  /\ In("copy")
  /\ irq' = [at |-> "each", sources |-> irq.sources \cap state.irq_status]
  /\ UNCHANGED <<unit, state, gic, masked, th, calls, wanted, told, panic>>

\* The handlers run in the order of the enumeration; the one of a critical
\* temperature hangs.
Handle ==
  /\ In("each") /\ irq.sources # {}
  /\ IF irq.sources \cap Warn = {} THEN Stops("critical")
     ELSE LET b == FirstOf(irq.sources \cap Warn)
          IN  /\ unit' = [unit EXCEPT !.tidr = @ \ {b}]
              /\ irq' = [at |-> "lock", sources |-> irq.sources \ {b}]
              /\ UNCHANGED <<state, gic, masked, th, calls, wanted, told, panic>>

HandlerLock ==
  /\ In("lock") /\ state.lock = Free
  /\ state' = [state EXCEPT !.lock = IrqCore]
  /\ irq' = [irq EXCEPT !.at = "off"]
  /\ UNCHANGED <<unit, gic, masked, th, calls, wanted, told, panic>>

\* Faulty: the interrupt of the other probe stays enabled in TIER.
HandlerOffOne ==
  /\ In("off")
  /\ unit' = [unit EXCEPT !.tier = @ \ {FirstOf(Warn)}]
  /\ irq' = [irq EXCEPT !.at = "report"]
  /\ UNCHANGED <<state, gic, masked, th, calls, wanted, told, panic>>

HandlerOff ==
  /\ In("off")
  /\ unit' = [unit EXCEPT !.tier = IF WarnsAre({}) THEN @ ELSE @ \ Warn]
  /\ irq' = [irq EXCEPT !.at = "report"]
  /\ UNCHANGED <<state, gic, masked, th, calls, wanted, told, panic>>

\* Faulty: the lock stays taken.
HandlerReportsLocked ==
  /\ In("report")
  /\ state' = [state EXCEPT !.irq_status = @ \ Warn, !.warn_pending = TRUE]
  /\ irq' = [irq EXCEPT !.at = "each"]
  /\ UNCHANGED <<unit, gic, masked, th, calls, wanted, told, panic>>

\* Nobody but the handler reads the copy without the lock.
HandlerReports ==
  /\ In("report")
  /\ state' = [state EXCEPT !.irq_status = @ \ Warn, !.warn_pending = TRUE, !.lock = Free]
  /\ irq' = [irq EXCEPT !.at = "each"]
  /\ UNCHANGED <<unit, gic, masked, th, calls, wanted, told, panic>>

\* GICV3_ack_intid_el1, and the return from the exception.
EndOfInterrupt ==
  /\ In("each") /\ irq.sources = {}
  /\ gic' = [gic EXCEPT !.active = FALSE]
  /\ masked' = [masked EXCEPT ![IrqCore] = FALSE]
  /\ irq' = [irq EXCEPT !.at = "out"]
  /\ UNCHANGED <<unit, state, th, calls, wanted, told, panic>>

Handler ==
  \/ TakeIrq \/ ReadIntid \/ ReadTidr \/ ReadCopy \/ Handle
  \/ HandlerLock \/ HandlerOff \/ HandlerReports \/ EndOfInterrupt

-----------------------------------------------------------------------------
Thread(c) ==
  \/ Lock(c) \/ Unlock(c) \/ RestoreMask(c)
  \/ SetTier(c) \/ SetCopy(c) \/ Save(c) \/ OffTier(c) \/ OffCopy(c)
  \/ Validate(c) \/ Program(c) \/ Resume(c)
  \/ Drop(c) \/ DropTier(c) \/ Raise(c) \/ RaiseTier(c) \/ ReadPending(c)

Next ==
  \/ Boot \/ Exceed \/ Handler
  \/ \E c \in Cores : Thread(c) \/ GetTemp(c) \/ \E op \in Ops : Call(c, op)

\* With the query that keeps the lock.
NextAnyCall == Next \/ \E c \in Cores : Answer(c) \/ Call(c, "query")

Spec == Init /\ [][Next]_vars
FairSpec == Spec /\ WF_vars(Boot) /\ WF_vars(Handler) /\ \A c \in Cores : WF_vars(Thread(c))
SpecAnyCall == Init /\ [][NextAnyCall]_vars

-----------------------------------------------------------------------------
(* Properties. *)

Settled == panic = "none" /\ Booted /\ state.lock = Free

\* Whenever nobody holds the lock, the copy of the status is what TIER holds
\* and the critical interrupts are enabled ("Critical irq allways active"),
\* though the two are written in turn, in either order, and the handler reads
\* the copy without the lock.
StatusMirrorsTier == Settled => state.irq_status = unit.tier /\ Critical \subseteq unit.tier

\* A caller that wants warnings and finds them off has one to read: it is
\* pending, or it has been reported since they were enabled, whatever
\* temperature is set meanwhile.
WarningsNotLost ==
  Settled /\ wanted /\ unit.tier \cap Warn # Warn => state.warn_pending \/ told

\* Calls end, and so does the handler, unless a core stops.
CallsEnd ==
  /\ \A c \in Cores : th[c].at # "idle" ~> th[c].at = "idle" \/ panic # "none"
  /\ irq.at # "out" ~> irq.at = "out" \/ panic # "none"

\* "It should never be locked by the same core as all the other locks use
\* irqsave" (tmu.c:325-326): no core waits for a lock that it holds itself.
NoCoreWaitsForItself ==
  /\ \A c \in Cores : ~(At(c, "lock") /\ state.lock = c)
  /\ ~(In("lock") /\ state.lock = IrqCore)
=============================================================================
