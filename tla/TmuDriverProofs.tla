-------------------------- MODULE TmuDriverProofs --------------------------
(***************************************************************************)
(* Theorems about TmuDriver, for any number of cores, probes and calls.    *)
(* The argument: state_lock is held by one thread, or by the handler, at a *)
(* time; the place where the holder is says which half of the pair TIER    *)
(* and copy it has already written, and what it will write into the other; *)
(* and a warning temperature is set with the status saved beforehand,      *)
(* which a caller that wants warnings left fully on.                       *)
(***************************************************************************)
EXTENDS TmuDriver, WellFoundedInduction, TLAPS

Holding ==
  {"tier", "copy", "unlock", "save", "off tier", "off copy", "validate", "program", "resume",
   "drop", "drop tier", "raise", "raise tier", "read"}
InCall == Holding \cup {"lock", "restore"}
Places == InCall \cup Boots \cup {"idle"}
InLock == {"off", "report"}
All == Warn \cup Critical

UnitType == [tier : SUBSET All, tidr : SUBSET All, on : BOOLEAN, armed : SUBSET {"ATTE", "ATCTE"}]
StateType == [irq_status : SUBSET All, warn_pending : BOOLEAN, init_stage : 0..2,
              lock : Cores \cup {Free}]
GicType == [up : BOOLEAN, spi : [group1ns : BOOLEAN, enabled : BOOLEAN, cpu : {IrqCore}],
            active : BOOLEAN]
ThreadType == [op : Ops \cup {"boot"}, at : Places, flags : BOOLEAN, want : SUBSET Warn]
IrqType == [at : {"out", "intid", "tidr", "copy", "each", "lock"} \cup InLock,
            sources : SUBSET All]

TypeOK ==
  /\ unit \in UnitType /\ state \in StateType /\ gic \in GicType
  /\ masked \in [Cores -> BOOLEAN] /\ th \in [Cores -> ThreadType] /\ irq \in IrqType
  /\ wanted \in BOOLEAN /\ told \in BOOLEAN

\* One holder: a thread inside the lock, or the handler.
LockInv ==
  /\ \A c \in Cores : th[c].at \in Holding => state.lock = c
  /\ irq.at \in InLock => state.lock = IrqCore
  /\ \A c \in Cores : state.lock = c => th[c].at \in Holding \/ (c = IrqCore /\ irq.at \in InLock)

\* The thread of the interrupted core is in no call: it makes them masked.
MaskInv ==
  /\ irq.at # "out" => th[IrqCore].at = "idle"
  /\ th[IrqCore].at \in InCall => masked[IrqCore]

\* Where a thread is tells what it called.
OpOk(t) ==
  /\ t.at = "lock" => t.op \in Ops
  /\ t.at \in {"save", "off tier", "off copy"} => t.op = "set warn"
  /\ t.at \in {"drop", "drop tier", "raise", "raise tier"} => t.op = "set critical"
  /\ t.at \in {"validate", "program", "resume"} => t.op \in {"set warn", "set critical"}
  /\ t.at \in {"tier", "copy"} => t.op \in {"enable", "disable", "set warn"}
  /\ t.op = "enable" => t.want = Warn
  /\ t.op = "disable" => t.want = {}
OpInv == \A c \in Cores : OpOk(th[c])

TierWarn == unit.tier \cap Warn
CopyWarn == state.irq_status \cap Warn
TierCritical == unit.tier \cap Critical
CopyCritical == state.irq_status \cap Critical

\* A caller wants warnings and has had none.
Owed == wanted /\ ~state.warn_pending /\ ~told

\* TIER and its copy between two calls.
Quiet ==
  /\ TierWarn = CopyWarn /\ TierCritical = CopyCritical /\ Critical \subseteq state.irq_status
  /\ Owed => TierWarn = Warn

\* Until the last stage of the boot there are no calls and no interrupts.
BootInv ==
  /\ \A c \in Cores : th[c].at \in Boots => c = IrqCore
  /\ ~Booted =>
       /\ ~gic.spi.enabled
       /\ \A c \in Cores : c # IrqCore => th[c].at = "idle"
  /\ th[IrqCore].at \in Boots \ {"register"} => state.irq_status = unit.tier
  /\ th[IrqCore].at \in Boots \ {"status", "register", "stage 2"} => state.irq_status = {}
  /\ th[IrqCore].at = "status" => state.irq_status # All
  /\ th[IrqCore].at = "stage 2" => state.irq_status = All
  /\ th[IrqCore].at \in Boots \ {"stage 2"} => ~wanted

FreeInv == Booted /\ state.lock = Free => Quiet

\* The handler is about to switch warnings off, or has done so in TIER.
HandlerInv ==
  /\ irq.at = "off" => Quiet
  /\ irq.at = "report" =>
       TierWarn = {} /\ TierCritical = CopyCritical /\ Critical \subseteq state.irq_status

\* Inside TMU_set_critical_temp, with some critical interrupts off.
Reprogramming(t) ==
  /\ t.op = "set critical"
  /\ t.at \in {"drop", "drop tier", "validate", "program", "resume", "raise", "raise tier"}

\* Inside TMU_set_warn_temp, with the status saved.
Saved(t) ==
  /\ t.op = "set warn"
  /\ t.at \in {"off tier", "off copy", "validate", "program", "resume", "tier", "copy"}

\* The thread that holds the lock has written warnings to TIER first, critical
\* interrupts to the copy first, and has saved what it owes.
HolderOk(t) ==
  /\ TierWarn = IF t.at = "copy" THEN t.want ELSE IF t.at = "off copy" THEN {} ELSE CopyWarn
  /\ t.at \notin {"drop tier", "raise tier"} => TierCritical = CopyCritical
  /\ ~Reprogramming(t) => Critical \subseteq state.irq_status
  /\ Owed => IF Saved(t) THEN t.want = Warn ELSE TierWarn = Warn
HolderInv == \A c \in Cores : th[c].at \in Holding => HolderOk(th[c])

IInv ==
  /\ TypeOK /\ LockInv /\ MaskInv /\ OpInv /\ BootInv
  /\ FreeInv /\ HandlerInv /\ HolderInv

-----------------------------------------------------------------------------
(* Lemmas about the sets of interrupts and the thread records.             *)

\* A nonempty set of naturals has a least element.
LEMMA HasLeast ==
  ASSUME NEW T \in SUBSET Nat, T # {}
  PROVE  \E x \in T : \A y \in T : x <= y
<1> DEFINE less == {p \in Nat \X Nat : p[1] < p[2]}
<1>1. IsWellFoundedOn(less, Nat)
  BY NatLessThanWellFounded DEF OpToRel
<1>2. \E x \in T : \A y \in T : ~(<<y, x>> \in less)
  BY <1>1, WFMin
<1>3. PICK x \in T : \A y \in T : ~(<<y, x>> \in less)
  BY <1>2
<1>4. ASSUME NEW y \in T
      PROVE  x <= y
  <2>1. ~(<<y, x>> \in less)
    BY <1>3
  <2> QED
    BY <2>1
<1> QED
  BY <1>4

\* The enumeration of a nonempty set of interrupts begins with one of them.
LEMMA FirstOfIn ==
  ASSUME NEW S \in SUBSET All, S # {}
  PROVE  FirstOf(S) \in S
<1>1. PICK x \in S : TRUE
  OBVIOUS
<1> DEFINE T == {p \in Probes : <<x[1], p>> \in S}
<1>2. x \in All /\ x[2] \in Probes /\ x = <<x[1], x[2]>>
  BY <1>1 DEF All, Warn, Critical
<1>3. T \in SUBSET Nat /\ T # {}
  BY <1>2, <1>1, TmuAssumption
<1>4. PICK p \in T : \A q \in T : p <= q
  BY <1>3, HasLeast
<1>5. ASSUME NEW d \in S, x[1] = d[1]
      PROVE  p <= d[2]
  <2>1. d = <<d[1], d[2]>> /\ d[2] \in Probes
    BY DEF All, Warn, Critical
  <2>2. d[2] \in T
    BY <2>1, <1>5
  <2> QED
    BY <2>2, <1>4
<1>6. <<x[1], p>> \in S /\ \A d \in S : <<x[1], p>>[1] = d[1] => <<x[1], p>>[2] <= d[2]
  BY <1>4, <1>5
<1> QED
  BY <1>6 DEF FirstOf

\* Warnings and critical interrupts are different interrupts, and there are some.
LEMMA Kinds ==
  /\ Warn \cap Critical = {} /\ Warn \cup Critical = All
  /\ Warn # {} /\ Critical # {}
<1>1. "ATTE" # "ATCTE"
  OBVIOUS
<1>2. \A b \in Warn : b[1] = "ATTE"
  BY DEF Warn
<1>3. \A b \in Critical : b[1] = "ATCTE"
  BY DEF Critical
<1>4. PICK p \in Probes : TRUE
  BY TmuAssumption
<1>5. <<"ATTE", p>> \in Warn /\ <<"ATCTE", p>> \in Critical
  BY DEF Warn, Critical
<1> QED
  BY <1>1, <1>2, <1>3, <1>5 DEF All

\* A thread that goes somewhere changes nothing else of itself, and no other.
LEMMA GoesMoves ==
  ASSUME th \in [Cores -> ThreadType], NEW c \in Cores, NEW w \in Places, Goes(c, w)
  PROVE  /\ th' \in [Cores -> ThreadType] /\ th'[c] \in ThreadType
         /\ th'[c].at = w /\ th'[c].op = th[c].op /\ th'[c].want = th[c].want
         /\ \A d \in Cores : d # c => th'[d] = th[d]
  BY DEF Goes, ThreadType

-----------------------------------------------------------------------------
(* What the invariant says of the holder, and what it needs of its steps.  *)

\* A thread inside the lock is alone, after the boot, and no handler is.
LEMMA HolderFacts ==
  ASSUME IInv, NEW c \in Cores, th[c].at \in Holding
  PROVE  /\ state.lock = c /\ irq.at \notin InLock /\ Booted
         /\ th[c] \in ThreadType /\ OpOk(th[c]) /\ HolderOk(th[c])
         /\ \A d \in Cores : d # c => th[d].at \notin Holding
         /\ c = IrqCore => irq.at = "out"
<1>1. state.lock = c /\ \A d \in Cores : d # c => th[d].at \notin Holding
  BY DEF IInv, LockInv
<1>2. th[c] \in ThreadType /\ OpOk(th[c]) /\ HolderOk(th[c])
  BY DEF IInv, TypeOK, OpInv, HolderInv
<1>3. Booted
  BY TmuAssumption DEF IInv, BootInv, Booted, Boots, Holding
<1>4. c = IrqCore => irq.at = "out"
  BY DEF IInv, MaskInv, Holding
<1>5. irq.at \notin InLock
  BY <1>1, <1>4 DEF IInv, LockInv, InLock
<1> QED
  BY <1>1, <1>2, <1>3, <1>4, <1>5

\* A step of the holder that keeps the lock has to keep what is said of it.
LEMMA HolderStep ==
  ASSUME IInv, NEW c \in Cores, th[c].at \in Holding,
         th'[c].at \in Holding, \A d \in Cores : d # c => th'[d] = th[d],
         TypeOK', state'.lock = state.lock, UNCHANGED <<gic, masked, irq>>,
         OpOk(th[c])', HolderOk(th[c])'
  PROVE  IInv'
<1>1. /\ state.lock = c /\ irq.at \notin InLock /\ Booted
      /\ \A d \in Cores : d # c => th[d].at \notin Holding
      /\ c = IrqCore => irq.at = "out"
  BY HolderFacts
<1>2. \A d \in Cores : d # c => th'[d].at \notin Holding
  BY <1>1
<1>3. LockInv'
  BY <1>1, <1>2 DEF LockInv, IInv
<1>4. MaskInv'
  <2>1. CASE c = IrqCore
    BY <1>1, <2>1 DEF IInv, MaskInv, InCall
  <2>2. CASE c # IrqCore
    BY TmuAssumption, <2>2 DEF IInv, MaskInv
  <2> QED
    BY <2>1, <2>2
<1>5. OpInv'
  <2> SUFFICES ASSUME NEW d \in Cores
               PROVE  OpOk(th[d])'
    BY DEF OpInv
  <2>1. CASE d # c
    BY <2>1 DEF IInv, OpInv, OpOk
  <2> QED
    BY <2>1
<1>6. BootInv'
  <2>1. \A d \in Cores : th'[d].at \notin Boots
    BY <1>1, TmuAssumption DEF IInv, BootInv, Booted, Holding, Boots
  <2> QED
    BY <2>1, TmuAssumption DEF BootInv, Booted, Boots
<1>7. FreeInv' /\ HandlerInv'
  BY <1>1, TmuAssumption DEF FreeInv, HandlerInv, InLock
<1>8. HolderInv'
  BY <1>2 DEF HolderInv
<1> QED
  BY <1>3, <1>4, <1>5, <1>6, <1>7, <1>8 DEF IInv

\* With the lock free before and after, and nothing written, only the place of
\* one thread matters.
LEMMA FreeStep ==
  ASSUME IInv, NEW c \in Cores, Booted, th[c].at \notin Holding,
         th'[c].at \in Places \ (Holding \cup Boots), \A d \in Cores : d # c => th'[d] = th[d],
         TypeOK', UNCHANGED <<unit.tier, state, gic, irq, wanted, told>>,
         OpOk(th[c])', MaskInv'
  PROVE  IInv'
<1>1. LockInv'
  BY DEF LockInv, IInv
<1>2. OpInv'
  <2> SUFFICES ASSUME NEW d \in Cores
               PROVE  OpOk(th[d])'
    BY DEF OpInv
  <2>1. CASE d # c
    BY <2>1 DEF IInv, OpInv, OpOk
  <2> QED
    BY <2>1
<1>3. BootInv'
  <2>1. \A d \in Cores : th'[d].at \notin Boots
    BY TmuAssumption DEF IInv, BootInv, Booted
  <2> QED
    BY <2>1, TmuAssumption DEF BootInv, Booted, Boots
<1>4. Quiet => Quiet'
  BY DEF Quiet, TierWarn, CopyWarn, TierCritical, CopyCritical, Owed
<1>5. FreeInv'
  BY <1>4 DEF IInv, FreeInv
<1>6. HandlerInv'
  BY <1>4 DEF IInv, HandlerInv, TierWarn, TierCritical, CopyCritical
<1>7. HolderInv'
  <2> SUFFICES ASSUME NEW d \in Cores, th'[d].at \in Holding
               PROVE  HolderOk(th[d])'
    BY DEF HolderInv
  <2>1. th'[d] = th[d] /\ HolderOk(th[d])
    BY DEF IInv, HolderInv
  <2> QED
    BY <2>1 DEF HolderOk, TierWarn, CopyWarn, TierCritical, CopyCritical, Owed, Reprogramming, Saved
<1> QED
  BY <1>1, <1>2, <1>3, <1>5, <1>6, <1>7 DEF IInv

\* A step of the unit, or of the handler outside the lock, that writes neither
\* TIER nor the state.
LEMMA HandlerStep ==
  ASSUME IInv, TypeOK', irq'.at \in InLock => irq' = irq, irq.at \in InLock => irq' = irq,
         UNCHANGED <<unit.tier, state, gic.spi, th, wanted, told>>,
         MaskInv'
  PROVE  IInv'
<1>1. LockInv'
  BY DEF LockInv, IInv
<1>2. OpInv' /\ BootInv'
  BY DEF IInv, OpInv, BootInv, Booted, OpOk
<1>3. Quiet => Quiet'
  BY DEF Quiet, TierWarn, CopyWarn, TierCritical, CopyCritical, Owed
<1>4. FreeInv'
  BY <1>3 DEF IInv, FreeInv, Booted
<1>5. HandlerInv'
  BY <1>3 DEF IInv, HandlerInv, TierWarn, TierCritical, CopyCritical, InLock
<1>6. HolderInv'
  BY DEF IInv, HolderInv, HolderOk, TierWarn, CopyWarn, TierCritical, CopyCritical, Owed,
         Reprogramming, Saved
<1> QED
  BY <1>1, <1>2, <1>4, <1>5, <1>6 DEF IInv

\* A step that changes none of this state.
LEMMA Unmoved ==
  ASSUME IInv, UNCHANGED <<unit, state, gic, masked, th, irq, calls, wanted, told>>
  PROVE  IInv'
<1>1. TypeOK' /\ MaskInv'
  BY DEF IInv, TypeOK, MaskInv
<1> QED
  BY <1>1, HandlerStep

-----------------------------------------------------------------------------
(* The steps of the holder.                                                *)

\* TMU_enable_warnings, TMU_disable_warnings and the end of TMU_set_warn_temp:
\* TIER gets the wanted status, unless the copy already says so.
LEMMA SetTierIInv ==
  ASSUME IInv, NEW c \in Cores, SetTier(c)
  PROVE  IInv'
<1>1. th[c].at = "tier" /\ th[c].at \in Holding
  BY DEF SetTier, WriteTier, At, Holding
<1>2. HolderOk(th[c]) /\ OpOk(th[c]) /\ th[c] \in ThreadType
  BY <1>1, HolderFacts
<1>3. UNCHANGED <<state, gic, masked, irq>>
  BY DEF SetTier, WriteTier
<1>4. /\ wanted' = IF th[c].op = "set warn" THEN wanted ELSE th[c].op = "enable"
      /\ told' = (told /\ th[c].op # "enable")
      /\ wanted' \in BOOLEAN /\ told' \in BOOLEAN
  BY DEF SetTier, IInv, TypeOK
<1>5. /\ unit' \in UnitType /\ TierCritical' = TierCritical /\ TierWarn' = th[c].want
      /\ \/ Goes(c, "copy")
         \/ Goes(c, "unlock") /\ CopyWarn = th[c].want
  <2>1. CASE WarnsAre(th[c].want)
    BY <1>1, <1>2, <2>1
    DEF SetTier, WriteTier, WarnsAre, HolderOk, TierWarn, CopyWarn, TierCritical, IInv, TypeOK
  <2>2. CASE ~WarnsAre(th[c].want)
    <3>1. Goes(c, "copy") /\ unit' = [unit EXCEPT !.tier = (unit.tier \ Warn) \cup th[c].want]
      BY <2>2 DEF SetTier, WriteTier, Without
    <3>2. th[c].want \in SUBSET Warn /\ unit \in UnitType
      BY <1>2 DEF ThreadType, IInv, TypeOK
    <3>3. unit' \in UnitType /\ unit'.tier = (unit.tier \ Warn) \cup th[c].want
      BY <3>1, <3>2, Kinds DEF UnitType
    <3> QED
      BY <3>1, <3>2, <3>3, Kinds DEF TierWarn, TierCritical
  <2> QED
    BY <2>1, <2>2
<1>6. /\ th'[c].at \in {"copy", "unlock"} /\ (th'[c].at = "unlock" => CopyWarn = th[c].want)
      /\ th' \in [Cores -> ThreadType] /\ th'[c].op = th[c].op /\ th'[c].want = th[c].want
      /\ \A d \in Cores : d # c => th'[d] = th[d]
  <2>1. "copy" \in Places /\ "unlock" \in Places /\ th \in [Cores -> ThreadType]
    BY DEF Places, InCall, Holding, IInv, TypeOK
  <2>2. CASE Goes(c, "copy")
    BY <2>1, <2>2, GoesMoves
  <2>3. CASE Goes(c, "unlock") /\ CopyWarn = th[c].want
    BY <2>1, <2>3, GoesMoves
  <2> QED
    BY <1>5, <2>2, <2>3
<1>7. TypeOK'
  BY <1>3, <1>4, <1>5, <1>6 DEF IInv, TypeOK
<1>8. OpOk(th[c])'
  BY <1>1, <1>2, <1>6 DEF OpOk
<1>9. HolderOk(th[c])'
  <2>1. CopyWarn' = CopyWarn /\ CopyCritical' = CopyCritical
    BY <1>3 DEF CopyWarn, CopyCritical
  <2>2. Owed' => th[c].want = Warn
    BY <1>1, <1>2, <1>3, <1>4 DEF HolderOk, OpOk, Owed, Saved
  <2>3. ~Reprogramming(th[c]) /\ TierCritical = CopyCritical
    BY <1>1, <1>2 DEF Reprogramming, HolderOk
  <2> QED
    BY <1>2, <1>3, <1>5, <1>6, <2>1, <2>2, <2>3 DEF HolderOk, Saved
<1> QED
  BY <1>1, <1>3, <1>6, <1>7, <1>8, <1>9, HolderStep DEF Holding

\* The copy follows TIER.
LEMMA SetCopyIInv ==
  ASSUME IInv, NEW c \in Cores, SetCopy(c)
  PROVE  IInv'
<1>1. th[c].at = "copy" /\ th[c].at \in Holding
  BY DEF SetCopy, WriteCopy, At, Holding
<1>2. HolderOk(th[c]) /\ OpOk(th[c]) /\ th[c] \in ThreadType
  BY <1>1, HolderFacts
<1>3. UNCHANGED <<unit, gic, masked, irq, wanted, told>> /\ Goes(c, "unlock")
  BY DEF SetCopy, WriteCopy
<1>4. /\ state' \in StateType /\ CopyCritical' = CopyCritical /\ CopyWarn' = th[c].want
      /\ state'.lock = state.lock /\ state'.warn_pending = state.warn_pending
  BY <1>2, Kinds
  DEF SetCopy, WriteCopy, Without, IInv, TypeOK, StateType, ThreadType, CopyWarn, CopyCritical
<1>5. /\ th'[c].at = "unlock" /\ th' \in [Cores -> ThreadType]
      /\ th'[c].op = th[c].op /\ th'[c].want = th[c].want
      /\ \A d \in Cores : d # c => th'[d] = th[d]
  BY <1>3, GoesMoves DEF IInv, TypeOK, Places, InCall, Holding
<1>6. TypeOK'
  BY <1>3, <1>4, <1>5 DEF IInv, TypeOK
<1>7. OpOk(th[c])'
  BY <1>1, <1>2, <1>5 DEF OpOk
<1>8. HolderOk(th[c])'
  <2>1. TierWarn' = TierWarn /\ TierCritical' = TierCritical /\ (Owed' <=> Owed)
    BY <1>3, <1>4 DEF TierWarn, TierCritical, Owed
  <2>2. Critical \subseteq state'.irq_status
    BY <1>1, <1>2, <1>4 DEF HolderOk, Reprogramming, CopyCritical
  <2>3. TierWarn = th[c].want /\ TierCritical = CopyCritical /\ (Owed => TierWarn = Warn)
    BY <1>1, <1>2 DEF HolderOk
  <2> QED
    BY <1>4, <1>5, <2>1, <2>2, <2>3 DEF HolderOk, Saved
<1> QED
  BY <1>1, <1>3, <1>4, <1>5, <1>6, <1>7, <1>8, HolderStep DEF Holding

\* TMU_set_warn_temp saves the status, then switches warnings off ...
LEMMA SaveIInv ==
  ASSUME IInv, NEW c \in Cores, Save(c)
  PROVE  IInv'
<1>1. th[c].at = "save" /\ th[c].at \in Holding
  BY DEF Save, At, Holding
<1>2. HolderOk(th[c]) /\ OpOk(th[c]) /\ th[c] \in ThreadType
  BY <1>1, HolderFacts
<1>3. UNCHANGED <<unit, state, gic, masked, irq, wanted, told>>
  BY DEF Save
<1>4. /\ th' \in [Cores -> ThreadType] /\ th'[c].at = "off tier"
      /\ th'[c].op = th[c].op /\ th'[c].want = CopyWarn
      /\ \A d \in Cores : d # c => th'[d] = th[d]
  BY DEF Save, IInv, TypeOK, ThreadType, Places, InCall, Holding, CopyWarn
<1>5. TypeOK'
  BY <1>3, <1>4 DEF IInv, TypeOK
<1>6. OpOk(th[c])'
  BY <1>1, <1>2, <1>4 DEF OpOk
<1>7. HolderOk(th[c])'
  <2>1. UNCHANGED <<TierWarn, CopyWarn, TierCritical, CopyCritical>> /\ (Owed' <=> Owed)
    BY <1>3 DEF TierWarn, CopyWarn, TierCritical, CopyCritical, Owed
  <2>2. /\ TierWarn = CopyWarn /\ TierCritical = CopyCritical /\ Critical \subseteq state.irq_status
        /\ Owed => TierWarn = Warn
    BY <1>1, <1>2 DEF HolderOk, Reprogramming, Saved
  <2> QED
    BY <1>3, <1>4, <2>1, <2>2 DEF HolderOk, Saved
<1> QED
  BY <1>1, <1>3, <1>4, <1>5, <1>6, <1>7, HolderStep DEF Holding

\* ... in TIER ...
LEMMA OffTierIInv ==
  ASSUME IInv, NEW c \in Cores, OffTier(c)
  PROVE  IInv'
<1>1. th[c].at = "off tier" /\ th[c].at \in Holding
  BY DEF OffTier, WriteTier, At, Holding
<1>2. HolderOk(th[c]) /\ OpOk(th[c]) /\ th[c] \in ThreadType
  BY <1>1, HolderFacts
<1>3. UNCHANGED <<state, gic, masked, irq, wanted, told>>
  BY DEF OffTier, WriteTier
<1>4. /\ unit' \in UnitType /\ TierCritical' = TierCritical /\ TierWarn' = {}
      /\ \/ Goes(c, "off copy")
         \/ Goes(c, "validate") /\ CopyWarn = {}
  <2>1. CASE WarnsAre({})
    BY <1>1, <1>2, <2>1
    DEF OffTier, WriteTier, WarnsAre, HolderOk, TierWarn, CopyWarn, TierCritical, IInv, TypeOK
  <2>2. CASE ~WarnsAre({})
    <3>1. Goes(c, "off copy") /\ unit' = [unit EXCEPT !.tier = (unit.tier \ Warn) \cup {}]
      BY <2>2 DEF OffTier, WriteTier, Without
    <3>2. unit' \in UnitType /\ unit'.tier = unit.tier \ Warn
      BY <3>1 DEF UnitType, IInv, TypeOK
    <3> QED
      BY <3>1, <3>2, Kinds DEF TierWarn, TierCritical
  <2> QED
    BY <2>1, <2>2
<1>5. /\ th'[c].at \in {"off copy", "validate"} /\ (th'[c].at = "validate" => CopyWarn = {})
      /\ th' \in [Cores -> ThreadType] /\ th'[c].op = th[c].op /\ th'[c].want = th[c].want
      /\ \A d \in Cores : d # c => th'[d] = th[d]
  <2>1. "off copy" \in Places /\ "validate" \in Places /\ th \in [Cores -> ThreadType]
    BY DEF Places, InCall, Holding, IInv, TypeOK
  <2>2. CASE Goes(c, "off copy")
    BY <2>1, <2>2, GoesMoves
  <2>3. CASE Goes(c, "validate") /\ CopyWarn = {}
    BY <2>1, <2>3, GoesMoves
  <2> QED
    BY <1>4, <2>2, <2>3
<1>6. TypeOK'
  BY <1>3, <1>4, <1>5 DEF IInv, TypeOK
<1>7. OpOk(th[c])'
  BY <1>1, <1>2, <1>5 DEF OpOk
<1>8. HolderOk(th[c])'
  <2>1. CopyWarn' = CopyWarn /\ CopyCritical' = CopyCritical /\ (Owed' <=> Owed)
    BY <1>3 DEF CopyWarn, CopyCritical, Owed
  <2>2. th[c].op = "set warn" /\ Saved(th[c]) /\ ~Reprogramming(th[c])
    BY <1>1, <1>2 DEF OpOk, Saved, Reprogramming
  <2>3. /\ TierCritical = CopyCritical /\ Critical \subseteq state.irq_status
        /\ Owed => th[c].want = Warn
    BY <1>1, <1>2, <2>2 DEF HolderOk
  <2> QED
    BY <1>3, <1>4, <1>5, <2>1, <2>2, <2>3 DEF HolderOk, Saved
<1> QED
  BY <1>1, <1>3, <1>5, <1>6, <1>7, <1>8, HolderStep DEF Holding

\* ... and in the copy.
LEMMA OffCopyIInv ==
  ASSUME IInv, NEW c \in Cores, OffCopy(c)
  PROVE  IInv'
<1>1. th[c].at = "off copy" /\ th[c].at \in Holding
  BY DEF OffCopy, WriteCopy, At, Holding
<1>2. HolderOk(th[c]) /\ OpOk(th[c]) /\ th[c] \in ThreadType
  BY <1>1, HolderFacts
<1>3. UNCHANGED <<unit, gic, masked, irq, wanted, told>> /\ Goes(c, "validate")
  BY DEF OffCopy, WriteCopy
<1>4. /\ state' \in StateType /\ CopyCritical' = CopyCritical /\ CopyWarn' = {}
      /\ state'.lock = state.lock /\ state'.warn_pending = state.warn_pending
  BY Kinds DEF OffCopy, WriteCopy, Without, IInv, TypeOK, StateType, CopyWarn, CopyCritical
<1>5. /\ th'[c].at = "validate" /\ th' \in [Cores -> ThreadType]
      /\ th'[c].op = th[c].op /\ th'[c].want = th[c].want
      /\ \A d \in Cores : d # c => th'[d] = th[d]
  BY <1>3, GoesMoves DEF IInv, TypeOK, Places, InCall, Holding
<1>6. TypeOK'
  BY <1>3, <1>4, <1>5 DEF IInv, TypeOK
<1>7. OpOk(th[c])'
  BY <1>1, <1>2, <1>5 DEF OpOk
<1>8. HolderOk(th[c])'
  <2>1. TierWarn' = TierWarn /\ TierCritical' = TierCritical /\ (Owed' <=> Owed)
    BY <1>3, <1>4 DEF TierWarn, TierCritical, Owed
  <2>2. th[c].op = "set warn" /\ Saved(th[c]) /\ ~Reprogramming(th[c])
    BY <1>1, <1>2 DEF OpOk, Saved, Reprogramming
  <2>3. Critical \subseteq state'.irq_status
    BY <1>2, <1>4, <2>2 DEF HolderOk, CopyCritical
  <2>4. TierWarn = {} /\ TierCritical = CopyCritical /\ (Owed => th[c].want = Warn)
    BY <1>1, <1>2, <2>2 DEF HolderOk
  <2> QED
    BY <1>4, <1>5, <2>1, <2>2, <2>3, <2>4 DEF HolderOk, Saved
<1> QED
  BY <1>1, <1>3, <1>4, <1>5, <1>6, <1>7, <1>8, HolderStep DEF Holding

\* The temperature is checked: the core stops, or the call goes on.
LEMMA ValidateIInv ==
  ASSUME IInv, NEW c \in Cores, Validate(c)
  PROVE  IInv'
<1>1. CASE Stops("temperature")
  BY <1>1, Unmoved DEF Stops
<1>2. CASE Goes(c, "program") /\ UNCHANGED <<unit, state, gic, masked, irq, calls, wanted, told, panic>>
  <2>1. th[c].at = "validate" /\ th[c].at \in Holding
    BY DEF Validate, At, Holding
  <2>2. HolderOk(th[c]) /\ OpOk(th[c])
    BY <2>1, HolderFacts
  <2>3. /\ th'[c].at = "program" /\ th' \in [Cores -> ThreadType]
        /\ th'[c].op = th[c].op /\ th'[c].want = th[c].want
        /\ \A d \in Cores : d # c => th'[d] = th[d]
    BY <1>2, GoesMoves DEF IInv, TypeOK, Places, InCall, Holding
  <2>4. TypeOK'
    BY <1>2, <2>3 DEF IInv, TypeOK
  <2>5. OpOk(th[c])'
    BY <2>1, <2>2, <2>3 DEF OpOk
  <2>6. HolderOk(th[c])'
    <3>1. UNCHANGED <<TierWarn, CopyWarn, TierCritical, CopyCritical>> /\ (Owed' <=> Owed)
      BY <1>2 DEF TierWarn, CopyWarn, TierCritical, CopyCritical, Owed
    <3>2. (Reprogramming(th[c]) <=> Reprogramming(th[c])') /\ (Saved(th[c]) <=> Saved(th[c])')
      BY <2>1, <2>3 DEF Reprogramming, Saved
    <3> QED
      BY <1>2, <2>1, <2>2, <2>3, <3>1, <3>2 DEF HolderOk
  <2> QED
    BY <1>2, <2>1, <2>3, <2>4, <2>5, <2>6, HolderStep DEF Holding
<1> QED
  BY <1>1, <1>2 DEF Validate

\* The temperature is written with the unit and the threshold off.
LEMMA ProgramIInv ==
  ASSUME IInv, NEW c \in Cores, Program(c)
  PROVE  IInv'
<1>1. th[c].at = "program" /\ th[c].at \in Holding
  BY DEF Program, At, Holding
<1>2. HolderOk(th[c]) /\ OpOk(th[c])
  BY <1>1, HolderFacts
<1>3. UNCHANGED <<state, gic, masked, irq, wanted, told>> /\ Goes(c, "resume")
  BY DEF Program
<1>4. unit' \in UnitType /\ unit'.tier = unit.tier
  BY DEF Program, IInv, TypeOK, UnitType
<1>5. /\ th'[c].at = "resume" /\ th' \in [Cores -> ThreadType]
      /\ th'[c].op = th[c].op /\ th'[c].want = th[c].want
      /\ \A d \in Cores : d # c => th'[d] = th[d]
  BY <1>3, GoesMoves DEF IInv, TypeOK, Places, InCall, Holding
<1>6. TypeOK'
  BY <1>3, <1>4, <1>5 DEF IInv, TypeOK
<1>7. OpOk(th[c])'
  BY <1>1, <1>2, <1>5 DEF OpOk
<1>8. HolderOk(th[c])'
  <2>1. UNCHANGED <<TierWarn, CopyWarn, TierCritical, CopyCritical>> /\ (Owed' <=> Owed)
    BY <1>3, <1>4 DEF TierWarn, CopyWarn, TierCritical, CopyCritical, Owed
  <2>2. (Reprogramming(th[c]) <=> Reprogramming(th[c])') /\ (Saved(th[c]) <=> Saved(th[c])')
    BY <1>1, <1>5 DEF Reprogramming, Saved
  <2> QED
    BY <1>1, <1>2, <1>3, <1>5, <2>1, <2>2 DEF HolderOk
<1> QED
  BY <1>1, <1>3, <1>5, <1>6, <1>7, <1>8, HolderStep DEF Holding

\* They are switched on again, and what was off with them is restored.
LEMMA ResumeIInv ==
  ASSUME IInv, NEW c \in Cores, Resume(c)
  PROVE  IInv'
<1>1. th[c].at = "resume" /\ th[c].at \in Holding
  BY DEF Resume, At, Holding
<1>2. HolderOk(th[c]) /\ OpOk(th[c])
  BY <1>1, HolderFacts
<1>3. UNCHANGED <<state, gic, masked, irq, wanted, told>>
  BY DEF Resume
<1>4. unit' \in UnitType /\ unit'.tier = unit.tier
  <2>1. Kind(c) \in {"ATTE", "ATCTE"}
    BY DEF Kind
  <2> QED
    BY <2>1 DEF Resume, IInv, TypeOK, UnitType
<1>5. /\ th'[c].at = (IF th[c].op = "set warn" THEN "tier" ELSE "raise")
      /\ th' \in [Cores -> ThreadType]
      /\ th'[c].op = th[c].op /\ th'[c].want = th[c].want
      /\ \A d \in Cores : d # c => th'[d] = th[d]
  <2>1. (IF th[c].op = "set warn" THEN "tier" ELSE "raise") \in Places
    BY DEF Places, InCall, Holding
  <2> QED
    BY <2>1, GoesMoves DEF Resume, IInv, TypeOK
<1>6. TypeOK'
  BY <1>3, <1>4, <1>5 DEF IInv, TypeOK
<1>7. OpOk(th[c])'
  BY <1>1, <1>2, <1>5 DEF OpOk
<1>8. HolderOk(th[c])'
  <2>1. UNCHANGED <<TierWarn, CopyWarn, TierCritical, CopyCritical>> /\ (Owed' <=> Owed)
    BY <1>3, <1>4 DEF TierWarn, CopyWarn, TierCritical, CopyCritical, Owed
  <2>2. (Reprogramming(th[c]) <=> Reprogramming(th[c])') /\ (Saved(th[c]) <=> Saved(th[c])')
    BY <1>1, <1>2, <1>5 DEF Reprogramming, Saved, OpOk
  <2>3. /\ TierWarn = CopyWarn /\ TierCritical = CopyCritical
        /\ ~Reprogramming(th[c]) => Critical \subseteq state.irq_status
        /\ Owed => IF Saved(th[c]) THEN th[c].want = Warn ELSE TierWarn = Warn
    BY <1>1, <1>2 DEF HolderOk
  <2>4. th'[c].at \notin {"copy", "off copy"}
    BY <1>5
  <2>5. Critical' = Critical /\ Warn' = Warn
    BY DEF Critical, Warn
  <2> QED
    BY <1>3, <1>5, <2>1, <2>2, <2>3, <2>4, <2>5 DEF HolderOk
<1> QED
  BY <1>1, <1>3, <1>5, <1>6, <1>7, <1>8, HolderStep DEF Holding

\* TMU_set_critical_temp takes one critical interrupt out of the copy, or adds
\* one, as long as any is left.
LEMMA CopyOfIInv ==
  ASSUME IInv, NEW c \in Cores, Drop(c) \/ Raise(c)
  PROVE  IInv'
<1>1. th[c].at \in {"drop", "raise"} /\ th[c].at \in Holding
  BY DEF Drop, Raise, CopyOf, At, Holding
<1>2. HolderOk(th[c]) /\ OpOk(th[c])
  BY <1>1, HolderFacts
<1>3. UNCHANGED <<unit, gic, masked, irq, wanted, told>>
  BY DEF Drop, Raise, CopyOf
<1>4. /\ th[c].op = "set critical" /\ Reprogramming(th[c]) /\ ~Saved(th[c])
      /\ TierWarn = CopyWarn /\ TierCritical = CopyCritical /\ (Owed => TierWarn = Warn)
  BY <1>1, <1>2 DEF OpOk, Reprogramming, HolderOk, Saved
<1>5. /\ state' \in StateType /\ CopyWarn' = CopyWarn
      /\ state'.lock = state.lock /\ state'.warn_pending = state.warn_pending
      /\ \/ Goes(c, "validate") /\ state' = state
         \/ Goes(c, "unlock") /\ state' = state /\ Critical \subseteq state.irq_status
         \/ Goes(c, "drop tier")
         \/ Goes(c, "raise tier")
  <2>1. CASE Drop(c)
    <3> DEFINE left == state.irq_status \cap Critical
    <3>1. CASE left = {}
      BY <2>1, <3>1 DEF Drop, CopyOf, IInv, TypeOK, CopyWarn
    <3>2. CASE left # {}
      <4>1. FirstOf(left) \in Critical
        BY <3>2, FirstOfIn, Kinds
      <4> HIDE DEF left
      <4>2. Goes(c, "drop tier") /\ state' = [state EXCEPT !.irq_status = state.irq_status \ {FirstOf(left)}]
        BY <2>1, <3>2 DEF Drop, CopyOf, left
      <4>3. /\ state' \in StateType /\ state'.irq_status = state.irq_status \ {FirstOf(left)}
            /\ state'.lock = state.lock /\ state'.warn_pending = state.warn_pending
        BY <4>2 DEF IInv, TypeOK, StateType
      <4> QED
        BY <4>1, <4>2, <4>3, Kinds DEF CopyWarn
    <3> QED
      BY <3>1, <3>2
  <2>2. CASE Raise(c)
    <3> DEFINE left == Critical \ state.irq_status
    <3>1. CASE left = {}
      BY <2>2, <3>1 DEF Raise, CopyOf, IInv, TypeOK, CopyWarn
    <3>2. CASE left # {}
      <4>1. FirstOf(left) \in Critical
        BY <3>2, FirstOfIn, Kinds
      <4> HIDE DEF left
      <4>2. Goes(c, "raise tier") /\ state' = [state EXCEPT !.irq_status = state.irq_status \cup {FirstOf(left)}]
        BY <2>2, <3>2 DEF Raise, CopyOf, left
      <4>3. /\ state' \in StateType /\ state'.irq_status = state.irq_status \cup {FirstOf(left)}
            /\ state'.lock = state.lock /\ state'.warn_pending = state.warn_pending
        BY <4>1, <4>2, Kinds DEF IInv, TypeOK, StateType
      <4> QED
        BY <4>1, <4>2, <4>3, Kinds DEF CopyWarn
    <3> QED
      BY <3>1, <3>2
  <2> QED
    BY <2>1, <2>2
<1>6. /\ th'[c].at \in {"validate", "unlock", "drop tier", "raise tier"}
      /\ th'[c].at \in {"validate", "unlock"} => state' = state
      /\ th'[c].at = "unlock" => Critical \subseteq state.irq_status
      /\ th' \in [Cores -> ThreadType] /\ th'[c].op = th[c].op /\ th'[c].want = th[c].want
      /\ \A d \in Cores : d # c => th'[d] = th[d]
  <2>1. {"validate", "unlock", "drop tier", "raise tier"} \subseteq Places /\ th \in [Cores -> ThreadType]
    BY DEF Places, InCall, Holding, IInv, TypeOK
  <2>2. PICK w \in {"validate", "unlock", "drop tier", "raise tier"} :
          /\ Goes(c, w)
          /\ w \in {"validate", "unlock"} => state' = state
          /\ w = "unlock" => Critical \subseteq state.irq_status
    BY <1>5
  <2>3. th'[c].at = w
    BY <2>1, <2>2, GoesMoves
  <2> QED
    BY <2>1, <2>2, <2>3, GoesMoves
<1>7. TypeOK'
  BY <1>3, <1>5, <1>6 DEF IInv, TypeOK
<1>8. OpOk(th[c])'
  BY <1>2, <1>4, <1>6 DEF OpOk
<1>9. HolderOk(th[c])'
  <2>1. UNCHANGED <<TierWarn, CopyWarn, TierCritical>> /\ (Owed' <=> Owed)
    BY <1>3, <1>5 DEF TierWarn, TierCritical, Owed
  <2>2. th'[c].at \notin {"drop tier", "raise tier"} => CopyCritical' = CopyCritical
    BY <1>6 DEF CopyCritical
  <2>3. ~Reprogramming(th[c])' => Critical \subseteq state'.irq_status
    BY <1>4, <1>6 DEF Reprogramming
  <2>4. ~Saved(th[c])'
    BY <1>4, <1>6 DEF Saved
  <2> QED
    BY <1>4, <1>6, <2>1, <2>2, <2>3, <2>4 DEF HolderOk
<1> QED
  BY <1>1, <1>3, <1>5, <1>6, <1>7, <1>8, <1>9, HolderStep DEF Holding

\* TIER follows the copy.
LEMMA CriticalTierIInv ==
  ASSUME IInv, NEW c \in Cores, DropTier(c) \/ RaiseTier(c)
  PROVE  IInv'
<1>1. th[c].at \in {"drop tier", "raise tier"} /\ th[c].at \in Holding
  BY DEF DropTier, RaiseTier, CriticalTier, At, Holding
<1>2. HolderOk(th[c]) /\ OpOk(th[c])
  BY <1>1, HolderFacts
<1>3. UNCHANGED <<state, gic, masked, irq, wanted, told>>
  BY DEF DropTier, RaiseTier, CriticalTier
<1>4. /\ th[c].op = "set critical" /\ Reprogramming(th[c]) /\ ~Saved(th[c])
      /\ TierWarn = CopyWarn /\ (Owed => TierWarn = Warn)
  BY <1>1, <1>2 DEF OpOk, Reprogramming, HolderOk, Saved
<1>5. unit' \in UnitType /\ TierWarn' = TierWarn /\ TierCritical' = CopyCritical
  <2>1. unit' = [unit EXCEPT !.tier = (unit.tier \ Critical) \cup (state.irq_status \cap Critical)]
    BY DEF DropTier, RaiseTier, CriticalTier, Without
  <2>2. /\ unit' \in UnitType
        /\ unit'.tier = (unit.tier \ Critical) \cup (state.irq_status \cap Critical)
    BY <2>1, Kinds DEF IInv, TypeOK, UnitType
  <2> QED
    BY <2>2, Kinds DEF TierWarn, TierCritical, CopyCritical
<1>6. /\ th'[c].at \in {"drop", "raise"}
      /\ th' \in [Cores -> ThreadType] /\ th'[c].op = th[c].op /\ th'[c].want = th[c].want
      /\ \A d \in Cores : d # c => th'[d] = th[d]
  <2>1. {"drop", "raise"} \subseteq Places /\ th \in [Cores -> ThreadType]
    BY DEF Places, InCall, Holding, IInv, TypeOK
  <2>2. PICK w \in {"drop", "raise"} : Goes(c, w)
    BY DEF DropTier, RaiseTier, CriticalTier
  <2> QED
    BY <2>1, <2>2, GoesMoves
<1>7. TypeOK'
  BY <1>3, <1>5, <1>6 DEF IInv, TypeOK
<1>8. OpOk(th[c])'
  BY <1>2, <1>4, <1>6 DEF OpOk
<1>9. HolderOk(th[c])'
  <2>1. UNCHANGED <<CopyWarn, CopyCritical>> /\ (Owed' <=> Owed)
    BY <1>3 DEF CopyWarn, CopyCritical, Owed
  <2>2. Reprogramming(th[c])' /\ ~Saved(th[c])'
    BY <1>4, <1>6 DEF Reprogramming, Saved
  <2> QED
    BY <1>4, <1>5, <1>6, <2>1, <2>2 DEF HolderOk
<1> QED
  BY <1>1, <1>3, <1>6, <1>7, <1>8, <1>9, HolderStep DEF Holding

\* TMU_warn_pending: what was pending has been told.
LEMMA ReadPendingIInv ==
  ASSUME IInv, NEW c \in Cores, ReadPending(c)
  PROVE  IInv'
<1>1. th[c].at = "read" /\ th[c].at \in Holding
  BY DEF ReadPending, At, Holding
<1>2. HolderOk(th[c]) /\ OpOk(th[c])
  BY <1>1, HolderFacts
<1>3. UNCHANGED <<unit, gic, masked, irq, wanted>> /\ Goes(c, "unlock")
  BY DEF ReadPending
<1>4. /\ state' \in StateType /\ state'.irq_status = state.irq_status /\ state'.lock = state.lock
      /\ told' = (told \/ state.warn_pending) /\ told' \in BOOLEAN
  BY DEF ReadPending, IInv, TypeOK, StateType
<1>5. /\ th'[c].at = "unlock" /\ th' \in [Cores -> ThreadType]
      /\ th'[c].op = th[c].op /\ th'[c].want = th[c].want
      /\ \A d \in Cores : d # c => th'[d] = th[d]
  BY <1>3, GoesMoves DEF IInv, TypeOK, Places, InCall, Holding
<1>6. TypeOK'
  BY <1>3, <1>4, <1>5 DEF IInv, TypeOK
<1>7. OpOk(th[c])'
  BY <1>1, <1>2, <1>5 DEF OpOk
<1>8. HolderOk(th[c])'
  <2>1. UNCHANGED <<TierWarn, CopyWarn, TierCritical, CopyCritical>>
    BY <1>3, <1>4 DEF TierWarn, CopyWarn, TierCritical, CopyCritical
  <2>2. Owed' => Owed
    BY <1>3, <1>4 DEF Owed
  <2>3. ~Reprogramming(th[c]) /\ ~Saved(th[c]) /\ ~Saved(th[c])'
    BY <1>1, <1>5 DEF Reprogramming, Saved
  <2> QED
    BY <1>1, <1>2, <1>4, <1>5, <2>1, <2>2, <2>3 DEF HolderOk
<1> QED
  BY <1>1, <1>3, <1>4, <1>5, <1>6, <1>7, <1>8, HolderStep DEF Holding

-----------------------------------------------------------------------------
(* The steps around the lock.                                              *)

\* A thread that gets the free lock finds TIER and copy quiet.
LEMMA LockIInv ==
  ASSUME IInv, NEW c \in Cores, Lock(c)
  PROVE  IInv'
<1>1. th[c].at = "lock" /\ state.lock = Free /\ (c = IrqCore => irq.at = "out")
  BY DEF Lock, At
<1>2. OpOk(th[c]) /\ th[c].op \in Ops
  BY <1>1 DEF IInv, OpInv, OpOk
<1>3. UNCHANGED <<unit, gic, masked, irq, wanted, told>>
  BY DEF Lock
<1>4. state' \in StateType /\ state' = [state EXCEPT !.lock = c]
  BY DEF Lock, IInv, TypeOK, StateType
<1>5. /\ state'.lock = c /\ state'.irq_status = state.irq_status
      /\ state'.warn_pending = state.warn_pending
  BY <1>4 DEF IInv, TypeOK, StateType
<1>6. /\ th'[c].at = FirstStep(th[c].op)
      /\ th' \in [Cores -> ThreadType] /\ th'[c].op = th[c].op /\ th'[c].want = th[c].want
      /\ \A d \in Cores : d # c => th'[d] = th[d]
  <2>1. FirstStep(th[c].op) \in Places
    BY <1>2 DEF FirstStep, Ops, Places, InCall, Holding
  <2> QED
    BY <2>1, GoesMoves DEF Lock, IInv, TypeOK
<1>7. /\ th'[c].at \in {"tier", "read", "save", "drop"}
      /\ th'[c].at = "tier" => th[c].op \in {"enable", "disable"}
      /\ th'[c].at = "save" => th[c].op = "set warn"
      /\ th'[c].at = "drop" => th[c].op = "set critical"
  BY <1>2, <1>6 DEF FirstStep, Ops
<1>8. TypeOK'
  BY <1>3, <1>4, <1>6 DEF IInv, TypeOK
<1>9. Booted /\ irq.at \notin InLock /\ \A d \in Cores : th[d].at \notin Holding
  BY <1>1, TmuAssumption DEF IInv, BootInv, Booted, Boots, LockInv
<1>10. LockInv'
  BY <1>5, <1>6, <1>7, <1>9, <1>3 DEF LockInv, Holding
<1>11. MaskInv'
  <2>1. CASE c = IrqCore
    BY <2>1, <1>1, <1>3 DEF IInv, MaskInv, InCall
  <2>2. CASE c # IrqCore
    BY <2>2, <1>3, <1>6, TmuAssumption DEF IInv, MaskInv
  <2> QED
    BY <2>1, <2>2
<1>12. OpInv'
  <2>1. OpOk(th[c])'
    BY <1>2, <1>6, <1>7 DEF OpOk
  <2> SUFFICES ASSUME NEW d \in Cores
               PROVE  OpOk(th[d])'
    BY DEF OpInv
  <2>2. CASE d # c
    BY <2>2, <1>6 DEF IInv, OpInv, OpOk
  <2> QED
    BY <2>1, <2>2
<1>13. BootInv'
  <2>1. \A d \in Cores : th'[d].at \notin Boots
    BY <1>6, <1>7, <1>9, TmuAssumption DEF IInv, BootInv, Booted, Boots
  <2> QED
    BY <2>1, TmuAssumption DEF BootInv, Booted, Boots
<1>14. FreeInv' /\ HandlerInv'
  BY <1>3, <1>5, <1>9, TmuAssumption DEF FreeInv, HandlerInv, InLock
<1>15. HolderInv'
  <2>1. Quiet
    BY <1>1, <1>9 DEF IInv, FreeInv
  <2>2. UNCHANGED <<TierWarn, CopyWarn, TierCritical, CopyCritical>> /\ (Owed' <=> Owed)
    BY <1>3, <1>5 DEF TierWarn, CopyWarn, TierCritical, CopyCritical, Owed
  <2>3. ~Saved(th[c])'
    BY <1>6, <1>7 DEF Saved
  <2>4. HolderOk(th[c])'
    BY <2>1, <2>2, <2>3, <1>5, <1>7 DEF Quiet, HolderOk
  <2> QED
    BY <2>4, <1>6, <1>9 DEF HolderInv
<1> QED
  BY <1>8, <1>10, <1>11, <1>12, <1>13, <1>14, <1>15 DEF IInv

\* It leaves them quiet.
LEMMA UnlockIInv ==
  ASSUME IInv, NEW c \in Cores, Unlock(c)
  PROVE  IInv'
<1>1. th[c].at = "unlock" /\ th[c].at \in Holding
  BY DEF Unlock, At, Holding
<1>2. /\ HolderOk(th[c]) /\ OpOk(th[c]) /\ irq.at \notin InLock /\ Booted
      /\ \A d \in Cores : d # c => th[d].at \notin Holding
  BY <1>1, HolderFacts
<1>3. UNCHANGED <<unit, gic, masked, irq, wanted, told>> /\ Goes(c, "restore")
  BY DEF Unlock
<1>4. /\ state' \in StateType /\ state'.lock = Free /\ state'.irq_status = state.irq_status
      /\ state'.warn_pending = state.warn_pending
  BY DEF Unlock, IInv, TypeOK, StateType
<1>5. /\ th'[c].at = "restore" /\ th' \in [Cores -> ThreadType]
      /\ th'[c].op = th[c].op /\ th'[c].want = th[c].want
      /\ \A d \in Cores : d # c => th'[d] = th[d]
  BY <1>3, GoesMoves DEF IInv, TypeOK, Places, InCall
<1>6. TypeOK'
  BY <1>3, <1>4, <1>5 DEF IInv, TypeOK
<1>7. \A d \in Cores : th'[d].at \notin Holding
  BY <1>2, <1>5 DEF Holding
<1>8. LockInv'
  BY <1>2, <1>3, <1>4, <1>7, TmuAssumption DEF LockInv
<1>9. MaskInv'
  <2>1. CASE c = IrqCore
    BY <2>1, <1>1, <1>3, <1>5 DEF IInv, MaskInv, InCall, Holding
  <2>2. CASE c # IrqCore
    BY <2>2, <1>3, <1>5, TmuAssumption DEF IInv, MaskInv
  <2> QED
    BY <2>1, <2>2
<1>10. OpInv'
  <2>1. OpOk(th[c])'
    BY <1>2, <1>5 DEF OpOk
  <2> SUFFICES ASSUME NEW d \in Cores
               PROVE  OpOk(th[d])'
    BY DEF OpInv
  <2>2. CASE d # c
    BY <2>2, <1>5 DEF IInv, OpInv, OpOk
  <2> QED
    BY <2>1, <2>2
<1>11. BootInv'
  <2>1. \A d \in Cores : th'[d].at \notin Boots
    BY <1>2, <1>5, TmuAssumption DEF IInv, BootInv, Booted, Boots
  <2> QED
    BY <2>1, TmuAssumption DEF BootInv, Booted, Boots
<1>12. FreeInv'
  <2>1. UNCHANGED <<TierWarn, CopyWarn, TierCritical, CopyCritical>> /\ (Owed' <=> Owed)
    BY <1>3, <1>4 DEF TierWarn, CopyWarn, TierCritical, CopyCritical, Owed
  <2>2. ~Reprogramming(th[c]) /\ ~Saved(th[c])
    BY <1>1 DEF Reprogramming, Saved
  <2> QED
    BY <1>1, <1>2, <1>4, <2>1, <2>2 DEF HolderOk, Quiet, FreeInv
<1>13. HandlerInv' /\ HolderInv'
  BY <1>2, <1>3, <1>7 DEF HandlerInv, HolderInv, InLock
<1> QED
  BY <1>6, <1>8, <1>9, <1>10, <1>11, <1>12, <1>13 DEF IInv

\* _spin_lock_irqsave masks interrupts before it waits, and the mask is
\* restored after the lock is given up.
LEMMA CallIInv ==
  ASSUME IInv, NEW c \in Cores, NEW op \in Ops, Call(c, op)
  PROVE  IInv'
<1>1. th[c].at = "idle" /\ Booted /\ (c = IrqCore => irq.at = "out")
  BY DEF Call, At
<1>2. UNCHANGED <<unit, state, gic, irq, wanted, told>>
  BY DEF Call
<1>3. /\ masked' \in [Cores -> BOOLEAN] /\ masked'[c] = TRUE
      /\ \A d \in Cores : d # c => masked'[d] = masked[d]
  BY DEF Call, IInv, TypeOK
<1>4. /\ th' \in [Cores -> ThreadType] /\ th'[c].at = "lock" /\ th'[c].op = op
      /\ th'[c].want = (IF op = "enable" THEN Warn ELSE {})
      /\ \A d \in Cores : d # c => th'[d] = th[d]
  <2>1. masked[c] \in BOOLEAN /\ (IF op = "enable" THEN Warn ELSE {}) \in SUBSET Warn
    BY DEF IInv, TypeOK
  <2>2. [op |-> op, at |-> "lock", flags |-> masked[c],
         want |-> IF op = "enable" THEN Warn ELSE {}] \in ThreadType
    BY <2>1 DEF ThreadType, Places, InCall
  <2> QED
    BY <2>2 DEF Call, IInv, TypeOK
<1>5. TypeOK'
  BY <1>2, <1>3, <1>4 DEF IInv, TypeOK
<1>6. OpOk(th[c])'
  BY <1>4 DEF OpOk, Ops
<1>7. MaskInv'
  <2>1. CASE c = IrqCore
    BY <2>1, <1>1, <1>2, <1>3 DEF MaskInv
  <2>2. CASE c # IrqCore
    BY <2>2, <1>2, <1>3, <1>4, TmuAssumption DEF IInv, MaskInv
  <2> QED
    BY <2>1, <2>2
<1>8. th[c].at \notin Holding /\ th'[c].at \in Places \ (Holding \cup Boots)
  BY <1>1, <1>4 DEF Holding, Boots, Places, InCall
<1> QED
  BY <1>1, <1>2, <1>4, <1>5, <1>6, <1>7, <1>8, FreeStep

LEMMA RestoreMaskIInv ==
  ASSUME IInv, NEW c \in Cores, RestoreMask(c)
  PROVE  IInv'
<1>1. th[c].at = "restore" /\ (c = IrqCore => irq.at = "out")
  BY DEF RestoreMask, At
<1>2. UNCHANGED <<unit, state, gic, irq, wanted, told>> /\ Goes(c, "idle")
  BY DEF RestoreMask
<1>3. th[c].flags \in BOOLEAN /\ OpOk(th[c])
  BY DEF IInv, TypeOK, ThreadType, OpInv
<1>4. masked' \in [Cores -> BOOLEAN] /\ \A d \in Cores : d # c => masked'[d] = masked[d]
  BY <1>3 DEF RestoreMask, IInv, TypeOK
<1>5. /\ th'[c].at = "idle" /\ th' \in [Cores -> ThreadType]
      /\ th'[c].op = th[c].op /\ th'[c].want = th[c].want
      /\ \A d \in Cores : d # c => th'[d] = th[d]
  BY <1>2, GoesMoves DEF IInv, TypeOK, Places
<1>6. TypeOK'
  BY <1>2, <1>4, <1>5 DEF IInv, TypeOK
<1>7. OpOk(th[c])'
  BY <1>3, <1>5 DEF OpOk
<1>8. MaskInv'
  <2>1. CASE c = IrqCore
    BY <2>1, <1>1, <1>2, <1>5 DEF MaskInv, InCall, Holding
  <2>2. CASE c # IrqCore
    BY <2>2, <1>2, <1>4, <1>5, TmuAssumption DEF IInv, MaskInv
  <2> QED
    BY <2>1, <2>2
<1>9. Booted
  BY <1>1, TmuAssumption DEF IInv, BootInv, Booted, Boots
<1>10. th[c].at \notin Holding /\ th'[c].at \in Places \ (Holding \cup Boots)
  BY <1>1, <1>5 DEF Holding, Boots, Places
<1> QED
  BY <1>2, <1>5, <1>6, <1>7, <1>8, <1>9, <1>10, FreeStep

-----------------------------------------------------------------------------
(* The unit and the handler.                                               *)

\* What the handler and the unit do outside the lock changes neither TIER nor
\* the state; an interrupt is taken when no call is under way.
LEMMA OutsideLockIInv ==
  ASSUME IInv, Exceed \/ TakeIrq \/ ReadIntid \/ ReadTidr \/ ReadCopy \/ Handle \/ EndOfInterrupt
  PROVE  IInv'
<1> USE DEF In
<1>1. CASE Exceed
  <2>1. unit' \in UnitType /\ unit'.tier = unit.tier
    BY <1>1, Kinds DEF Exceed, IInv, TypeOK, UnitType
  <2>2. UNCHANGED <<state, gic, masked, th, irq, wanted, told>>
    BY <1>1 DEF Exceed
  <2>3. TypeOK' /\ MaskInv'
    BY <2>1, <2>2 DEF IInv, TypeOK, MaskInv
  <2> QED
    BY <2>1, <2>2, <2>3, HandlerStep
<1>2. CASE TakeIrq
  <2>1. UNCHANGED <<unit, state, gic, th, wanted, told>>
    BY <1>2 DEF TakeIrq
  <2>2. irq' \in IrqType /\ irq'.at = "intid" /\ irq.at = "out"
    BY <1>2 DEF TakeIrq, IInv, TypeOK, IrqType
  <2>3. masked' \in [Cores -> BOOLEAN] /\ masked'[IrqCore] = TRUE
    BY <1>2, TmuAssumption DEF TakeIrq, IInv, TypeOK
  <2>4. TypeOK'
    BY <2>1, <2>2, <2>3 DEF IInv, TypeOK
  <2>5. th[IrqCore].at = "idle"
    <3>1. gic.spi.enabled /\ ~masked[IrqCore]
      BY <1>2 DEF TakeIrq, Line
    <3>2. th[IrqCore].at \in Places
      BY TmuAssumption DEF IInv, TypeOK, ThreadType
    <3> QED
      BY <3>1, <3>2 DEF IInv, BootInv, MaskInv, Booted, Places
  <2>6. MaskInv'
    BY <2>1, <2>3, <2>5 DEF MaskInv
  <2> QED
    BY <2>1, <2>2, <2>4, <2>6, HandlerStep DEF InLock
<1>3. CASE ReadIntid
  <2>1. CASE Line
    <3>1. UNCHANGED <<unit, state, masked, th, wanted, told>> /\ irq.at = "intid"
      BY <1>3, <2>1 DEF ReadIntid
    <3>2. irq' \in IrqType /\ irq'.at = "tidr"
      BY <1>3, <2>1 DEF ReadIntid, IInv, TypeOK, IrqType
    <3>3. gic' \in GicType /\ gic'.spi = gic.spi
      <4>1. gic' = [gic EXCEPT !.active = TRUE]
        BY <1>3, <2>1 DEF ReadIntid
      <4> QED
        BY <4>1 DEF IInv, TypeOK, GicType
    <3>4. TypeOK' /\ MaskInv'
      BY <3>1, <3>2, <3>3 DEF IInv, TypeOK, MaskInv
    <3> QED
      BY <3>1, <3>2, <3>3, <3>4, HandlerStep DEF InLock
  <2>2. CASE ~Line
    BY <1>3, <2>2, Unmoved DEF ReadIntid, Stops
  <2> QED
    BY <2>1, <2>2
<1>4. CASE ReadTidr \/ ReadCopy
  <2>1. UNCHANGED <<unit, state, gic, masked, th, wanted, told>> /\ irq.at \in {"tidr", "copy"}
    BY <1>4 DEF ReadTidr, ReadCopy
  <2>2. irq' \in IrqType /\ irq'.at \in {"copy", "each"}
    <3>1. unit.tidr \in SUBSET All /\ irq.sources \cap state.irq_status \in SUBSET All
      BY DEF IInv, TypeOK, UnitType, StateType
    <3> QED
      BY <1>4, <3>1 DEF ReadTidr, ReadCopy, IrqType
  <2>3. TypeOK' /\ MaskInv'
    BY <2>1, <2>2 DEF IInv, TypeOK, MaskInv
  <2> QED
    BY <2>1, <2>2, <2>3, HandlerStep DEF InLock
<1>5. CASE Handle
  <2>1. CASE irq.sources \cap Warn = {}
    BY <1>5, <2>1, Unmoved DEF Handle, Stops
  <2>2. CASE irq.sources \cap Warn # {}
    <3>1. UNCHANGED <<state, gic, masked, th, wanted, told>> /\ irq.at = "each"
      BY <1>5, <2>2 DEF Handle
    <3>2. PICK b \in irq.sources :
            /\ unit' = [unit EXCEPT !.tidr = @ \ {b}]
            /\ irq' = [at |-> "lock", sources |-> irq.sources \ {b}]
      <4>1. irq.sources \cap Warn \in SUBSET All
        BY DEF IInv, TypeOK, IrqType
      <4>2. FirstOf(irq.sources \cap Warn) \in irq.sources
        BY <2>2, <4>1, FirstOfIn
      <4> QED
        BY <1>5, <2>2, <4>2 DEF Handle
    <3>3. unit' \in UnitType /\ unit'.tier = unit.tier
      BY <3>2 DEF IInv, TypeOK, UnitType
    <3>4. irq' \in IrqType /\ irq'.at = "lock"
      BY <3>2 DEF IInv, TypeOK, IrqType
    <3>5. TypeOK' /\ MaskInv'
      BY <3>1, <3>3, <3>4 DEF IInv, TypeOK, MaskInv
    <3> QED
      BY <3>1, <3>3, <3>4, <3>5, HandlerStep DEF InLock
  <2> QED
    BY <2>1, <2>2
<1>6. CASE EndOfInterrupt
  <2>1. UNCHANGED <<unit, state, th, wanted, told>> /\ irq.at = "each"
    BY <1>6 DEF EndOfInterrupt
  <2>2. irq' \in IrqType /\ irq'.at = "out"
    BY <1>6 DEF EndOfInterrupt, IInv, TypeOK, IrqType
  <2>3. gic' \in GicType /\ gic'.spi = gic.spi
    BY <1>6 DEF EndOfInterrupt, IInv, TypeOK, GicType
  <2>4. masked' \in [Cores -> BOOLEAN]
    BY <1>6 DEF EndOfInterrupt, IInv, TypeOK
  <2>5. TypeOK'
    BY <2>1, <2>2, <2>3, <2>4 DEF IInv, TypeOK
  <2>6. MaskInv'
    BY <2>1, <2>2 DEF IInv, MaskInv, InCall, Holding
  <2> QED
    BY <2>1, <2>2, <2>3, <2>5, <2>6, HandlerStep DEF InLock
<1> QED
  BY <1>1, <1>2, <1>3, <1>4, <1>5, <1>6

\* The handler in the lock switches warnings off in TIER, then reports them and
\* gives the lock up; no thread is inside meanwhile.
LEMMA InLockIInv ==
  ASSUME IInv, HandlerLock \/ HandlerOff \/ HandlerReports
  PROVE  IInv'
<1>1. /\ irq.at \in {"lock", "off", "report"} /\ th[IrqCore].at = "idle" /\ Booted
      /\ UNCHANGED <<gic, masked, th, wanted, told>>
  BY DEF HandlerLock, HandlerOff, HandlerReports, In, IInv, MaskInv, Booted, Boots
<1>2. MaskInv' /\ OpInv' /\ BootInv'
  <2>1. \A d \in Cores : th[d].at \notin Boots
    BY <1>1 DEF IInv, BootInv, Booted
  <2>2. BootInv'
    BY <1>1, <2>1, TmuAssumption DEF BootInv, Booted, Boots
  <2> QED
    BY <1>1, <2>2 DEF IInv, MaskInv, OpInv, OpOk, InCall, Holding
<1>3. \A d \in Cores : th[d].at \notin Holding
  <2>1. state.lock \in {Free, IrqCore}
    BY DEF HandlerLock, HandlerOff, HandlerReports, In, IInv, LockInv, InLock
  <2> QED
    BY <1>1, <2>1, TmuAssumption DEF IInv, LockInv, Holding
<1>4. HolderInv'
  BY <1>1, <1>3 DEF HolderInv
<1>5. CASE HandlerLock
  <2>1. Quiet /\ state.lock = Free
    BY <1>1, <1>5 DEF HandlerLock, IInv, FreeInv
  <2>2. /\ state' \in StateType /\ state'.lock = IrqCore /\ state'.irq_status = state.irq_status
        /\ state'.warn_pending = state.warn_pending /\ unit' = unit
    BY <1>5, TmuAssumption DEF HandlerLock, IInv, TypeOK, StateType
  <2>3. irq' \in IrqType /\ irq'.at = "off"
    BY <1>5 DEF HandlerLock, IInv, TypeOK, IrqType, InLock
  <2>4. TypeOK'
    BY <1>1, <2>2, <2>3 DEF IInv, TypeOK
  <2>5. LockInv' /\ FreeInv'
    BY <1>1, <1>3, <2>2, <2>3, TmuAssumption DEF LockInv, FreeInv, InLock
  <2>6. Quiet'
    BY <1>1, <2>1, <2>2 DEF Quiet, TierWarn, CopyWarn, TierCritical, CopyCritical, Owed
  <2>7. HandlerInv'
    BY <2>3, <2>6 DEF HandlerInv
  <2> QED
    BY <1>2, <1>4, <2>4, <2>5, <2>7 DEF IInv
<1>6. CASE HandlerOff
  <2>1. Quiet /\ state.lock = IrqCore /\ state' = state
    BY <1>6 DEF HandlerOff, In, IInv, HandlerInv, LockInv, InLock
  <2>2. irq' \in IrqType /\ irq'.at = "report"
    BY <1>6 DEF HandlerOff, IInv, TypeOK, IrqType, InLock
  <2>3. unit' \in UnitType /\ unit'.tier = (IF WarnsAre({}) THEN unit.tier ELSE unit.tier \ Warn)
    BY <1>6 DEF HandlerOff, IInv, TypeOK, UnitType
  <2>4. TierWarn' = {} /\ TierCritical' = TierCritical
    BY <2>1, <2>3, Kinds DEF Quiet, WarnsAre, TierWarn, CopyWarn, TierCritical
  <2>5. TypeOK'
    BY <1>1, <2>1, <2>2, <2>3 DEF IInv, TypeOK
  <2>6. LockInv' /\ FreeInv'
    BY <1>1, <1>3, <2>1, <2>2, TmuAssumption DEF LockInv, FreeInv, InLock
  <2>7. HandlerInv'
    BY <2>1, <2>2, <2>4 DEF HandlerInv, Quiet, CopyCritical
  <2> QED
    BY <1>2, <1>4, <2>5, <2>6, <2>7 DEF IInv
<1>7. CASE HandlerReports
  <2>1. TierWarn = {} /\ TierCritical = CopyCritical /\ Critical \subseteq state.irq_status
    BY <1>7 DEF HandlerReports, In, IInv, HandlerInv
  <2>2. /\ state' \in StateType /\ state'.lock = Free /\ state'.irq_status = state.irq_status \ Warn
        /\ state'.warn_pending = TRUE /\ unit' = unit
    BY <1>7 DEF HandlerReports, IInv, TypeOK, StateType
  <2>3. irq' \in IrqType /\ irq'.at = "each"
    BY <1>7 DEF HandlerReports, IInv, TypeOK, IrqType
  <2>4. TypeOK'
    BY <1>1, <2>2, <2>3 DEF IInv, TypeOK
  <2>5. LockInv' /\ HandlerInv'
    BY <1>1, <1>3, <2>2, <2>3, TmuAssumption DEF LockInv, HandlerInv, InLock
  <2>6. Quiet'
    <3>1. ~Owed'
      BY <2>2 DEF Owed
    <3>2. CopyWarn' = {} /\ CopyCritical' = CopyCritical /\ Critical \subseteq state'.irq_status
      BY <2>1, <2>2, Kinds DEF CopyWarn, CopyCritical
    <3> QED
      BY <2>1, <2>2, <3>1, <3>2 DEF Quiet, TierWarn, TierCritical
  <2>7. FreeInv'
    BY <2>6 DEF FreeInv
  <2> QED
    BY <1>2, <1>4, <2>4, <2>5, <2>7 DEF IInv
<1> QED
  BY <1>5, <1>6, <1>7

-----------------------------------------------------------------------------
(* The boot.                                                               *)

\* Before the last stage nobody is in a call or in the lock: a boot step has
\* to keep what is said of the boot.
LEMMA BootStep ==
  ASSUME IInv, ~Booted, NEW w \in Boots, Goes(IrqCore, w),
         TypeOK', irq' = irq, state'.lock = state.lock, gic'.spi = gic.spi,
         w # "register" => state'.irq_status = unit'.tier,
         w \notin {"status", "register", "stage 2"} => state'.irq_status = {},
         w = "status" => state'.irq_status # All,
         w = "stage 2" => state'.irq_status = All,
         w # "stage 2" => ~wanted'
  PROVE  IInv'
<1>1. /\ th'[IrqCore].at = w
      /\ th'[IrqCore].op = th[IrqCore].op /\ th'[IrqCore].want = th[IrqCore].want
      /\ \A d \in Cores : d # IrqCore => th'[d] = th[d]
  BY GoesMoves, TmuAssumption DEF IInv, TypeOK, Places
<1>2. /\ \A d \in Cores : th[d].at \notin Holding /\ th'[d].at \notin Holding
      /\ \A d \in Cores : d # IrqCore => th'[d].at = "idle"
      /\ irq.at = "out" /\ ~gic.spi.enabled
  BY <1>1, TmuAssumption DEF IInv, BootInv, MaskInv, Booted, Boots, Holding
<1>3. LockInv' /\ MaskInv'
  BY <1>1, <1>2, TmuAssumption DEF IInv, LockInv, MaskInv, InLock, InCall, Boots
<1>4. OpInv'
  <2>1. OpOk(th[IrqCore])'
    <3>1. OpOk(th[IrqCore])
      BY TmuAssumption DEF IInv, OpInv
    <3> QED
      BY <3>1, <1>1 DEF OpOk, Boots
  <2> SUFFICES ASSUME NEW d \in Cores
               PROVE  OpOk(th[d])'
    BY DEF OpInv
  <2>2. CASE d # IrqCore
    BY <2>2, <1>1 DEF IInv, OpInv, OpOk
  <2> QED
    BY <2>1, <2>2
<1>5. BootInv'
  <2>1. \A d \in Cores : th'[d].at \in Boots => d = IrqCore
    BY <1>2 DEF Boots
  <2> QED
    BY <1>1, <1>2, <2>1 DEF BootInv, Booted
<1>6. FreeInv' /\ HandlerInv' /\ HolderInv'
  BY <1>1, <1>2 DEF FreeInv, HandlerInv, HolderInv, Booted
<1> QED
  BY <1>3, <1>4, <1>5, <1>6 DEF IInv

\* The stages of the boot before the interrupt is enabled.
LEMMA StagesIInv ==
  ASSUME IInv, Stage0 \/ EnableExceptions \/ GicInit \/ Stage1 \/ Stage1Status \/ Stage1Register
  PROVE  IInv'
<1> USE TmuAssumption DEF At
<1>1. unit \in UnitType /\ state \in StateType /\ gic \in GicType
  BY DEF IInv, TypeOK
<1>2. ASSUME NEW w \in Boots, Goes(IrqCore, w)
      PROVE  th' \in [Cores -> ThreadType]
  BY <1>2, GoesMoves DEF IInv, TypeOK, Places
<1>3. CASE Stage0
  <2>1. /\ ~Booted /\ ~wanted /\ unit.tier = {} /\ Goes(IrqCore, "exceptions")
        /\ UNCHANGED <<gic, masked, irq, wanted, told>>
    BY <1>3 DEF Stage0, IInv, BootInv, Booted, Boots
  <2>2. state' \in StateType /\ state'.irq_status = {} /\ state'.lock = state.lock
    <3>1. state' = [state EXCEPT !.irq_status = {}, !.warn_pending = FALSE, !.init_stage = 1]
      BY <1>3 DEF Stage0
    <3>2. 1 \in 0..2
      OBVIOUS
    <3> QED
      BY <1>1, <3>1, <3>2 DEF StateType
  <2>3. unit' \in UnitType /\ unit'.tier = unit.tier
    BY <1>1, <1>3 DEF Stage0, UnitType
  <2>4. TypeOK'
    BY <1>2, <2>1, <2>2, <2>3 DEF IInv, TypeOK, Boots
  <2> QED
    BY <2>1, <2>2, <2>3, <2>4, BootStep DEF Boots
<1>4. CASE EnableExceptions
  <2>1. /\ ~Booted /\ ~wanted /\ state.irq_status = {} /\ unit.tier = {} /\ Goes(IrqCore, "gic")
        /\ UNCHANGED <<unit, state, gic, irq, wanted, told>>
    BY <1>4 DEF EnableExceptions, IInv, BootInv, Booted, Boots
  <2>2. masked' \in [Cores -> BOOLEAN]
    BY <1>4 DEF EnableExceptions, IInv, TypeOK
  <2>3. TypeOK'
    BY <1>2, <2>1, <2>2 DEF IInv, TypeOK, Boots
  <2> QED
    BY <2>1, <2>3, BootStep DEF Boots
<1>5. CASE GicInit
  <2>1. /\ ~Booted /\ ~wanted /\ state.irq_status = {} /\ unit.tier = {} /\ Goes(IrqCore, "stage 1")
        /\ UNCHANGED <<unit, state, masked, irq, wanted, told>>
    BY <1>5 DEF GicInit, IInv, BootInv, Booted, Boots
  <2>2. gic' \in GicType /\ gic'.spi = gic.spi
    BY <1>1, <1>5 DEF GicInit, GicType
  <2>3. TypeOK'
    BY <1>2, <2>1, <2>2 DEF IInv, TypeOK, Boots
  <2> QED
    BY <2>1, <2>2, <2>3, BootStep DEF Boots
<1>6. CASE Stage1
  <2>1. /\ ~Booted /\ ~wanted /\ state.irq_status = {} /\ unit.tier = {} /\ Goes(IrqCore, "status")
        /\ UNCHANGED <<state, gic, masked, irq, wanted, told>>
    BY <1>6 DEF Stage1, IInv, BootInv, Booted, Boots
  <2>2. unit' \in UnitType /\ unit'.tier = unit.tier
    BY <1>1, <1>6 DEF Stage1, UnitType
  <2>3. TypeOK'
    BY <1>2, <2>1, <2>2 DEF IInv, TypeOK, Boots
  <2> QED
    BY <2>1, <2>2, <2>3, Kinds, BootStep DEF Boots
<1>7. CASE Stage1Status
  <2>1. /\ ~Booted /\ ~wanted /\ state.irq_status # All /\ Goes(IrqCore, "register")
        /\ UNCHANGED <<unit, gic, masked, irq, wanted, told>>
    BY <1>7 DEF Stage1Status, IInv, BootInv, Booted, Boots
  <2> DEFINE off == (Warn \cup Critical) \ state.irq_status
             left == IF off \cap Warn # {} THEN off \cap Warn ELSE off
  <2>2. left \in SUBSET All /\ left # {}
    BY <1>1, <2>1, Kinds DEF StateType
  <2>3. FirstOf(left) \in All
    BY <2>2, FirstOfIn
  <2>4. state' = [state EXCEPT !.irq_status = @ \cup {FirstOf(left)}]
    BY <1>7 DEF Stage1Status
  <2> HIDE DEF left
  <2>5. state' \in StateType /\ state'.lock = state.lock
    BY <1>1, <2>3, <2>4 DEF StateType
  <2>6. TypeOK'
    BY <1>2, <2>1, <2>5 DEF IInv, TypeOK, Boots
  <2> QED
    BY <2>1, <2>5, <2>6, BootStep DEF Boots
<1>8. CASE Stage1Register
  <2>1. /\ ~Booted /\ ~wanted /\ UNCHANGED <<gic, masked, irq, told>>
    BY <1>8 DEF Stage1Register, IInv, BootInv, Booted, Boots
  <2>2. unit' \in UnitType /\ unit'.tier = state.irq_status
    <3>1. state.irq_status \in SUBSET All /\ unit' = [unit EXCEPT !.tier = state.irq_status]
      BY <1>1, <1>8 DEF Stage1Register, StateType
    <3> QED
      BY <1>1, <3>1 DEF UnitType
  <2>3. CASE state.irq_status = Warn \cup Critical
    <3>1. wanted' = TRUE /\ Goes(IrqCore, "stage 2")
      BY <1>8, <2>3 DEF Stage1Register
    <3>2. state' \in StateType /\ state'.irq_status = state.irq_status /\ state'.lock = state.lock
      <4>1. state' = [state EXCEPT !.init_stage = 2]
        BY <1>8, <2>3 DEF Stage1Register
      <4>2. 2 \in 0..2
        OBVIOUS
      <4> QED
        BY <1>1, <4>1, <4>2 DEF StateType
    <3>3. TypeOK'
      BY <1>2, <2>1, <2>2, <3>1, <3>2 DEF IInv, TypeOK, Boots
    <3> QED
      BY <2>1, <2>2, <2>3, <3>1, <3>2, <3>3, Kinds, BootStep DEF Boots
  <2>4. CASE state.irq_status # Warn \cup Critical
    <3>1. Goes(IrqCore, "status") /\ UNCHANGED <<state, wanted>>
      BY <1>8, <2>4 DEF Stage1Register
    <3>2. TypeOK'
      BY <1>2, <2>1, <2>2, <3>1 DEF IInv, TypeOK, Boots
    <3> QED
      BY <2>1, <2>2, <2>4, <3>1, <3>2, Kinds, BootStep DEF Boots
  <2> QED
    BY <2>3, <2>4
<1> QED
  BY <1>3, <1>4, <1>5, <1>6, <1>7, <1>8

\* The last stage leaves every interrupt enabled, in TIER and in the copy.
LEMMA Stage2IInv ==
  ASSUME IInv, Stage2
  PROVE  IInv'
<1>1. /\ th[IrqCore].at = "stage 2" /\ irq.at = "out" /\ ~Booted /\ Goes(IrqCore, "idle")
      /\ UNCHANGED <<unit, state, masked, irq, wanted, told>>
  BY TmuAssumption DEF Stage2, At, Booted, Boots
<1>2. /\ th' \in [Cores -> ThreadType] /\ th'[IrqCore].at = "idle"
      /\ th'[IrqCore].op = th[IrqCore].op /\ th'[IrqCore].want = th[IrqCore].want
      /\ \A d \in Cores : d # IrqCore => th'[d] = th[d]
  BY <1>1, GoesMoves, TmuAssumption DEF IInv, TypeOK, Places
<1>3. gic' \in GicType
  <2>1. SetUp(IrqCore) \in [group1ns : BOOLEAN, enabled : BOOLEAN, cpu : {IrqCore}]
    BY DEF SetUp
  <2> QED
    BY <2>1 DEF Stage2, IInv, TypeOK, GicType
<1>4. TypeOK'
  BY <1>1, <1>2, <1>3 DEF IInv, TypeOK
<1>5. \A d \in Cores : th'[d].at = "idle" /\ th[d].at \notin Holding
  BY <1>1, <1>2, TmuAssumption DEF IInv, BootInv, Holding
<1>6. LockInv' /\ MaskInv'
  BY <1>1, <1>5, TmuAssumption DEF IInv, LockInv, MaskInv, InLock, InCall, Holding
<1>7. OpInv'
  <2> SUFFICES ASSUME NEW d \in Cores
               PROVE  OpOk(th[d])'
    BY DEF OpInv
  <2>1. th'[d].op = th[d].op /\ th'[d].want = th[d].want /\ OpOk(th[d])
    BY <1>2 DEF IInv, OpInv
  <2> QED
    BY <1>5, <2>1 DEF OpOk
<1>8. BootInv'
  BY <1>5, TmuAssumption DEF BootInv, Booted, Boots
<1>9. Quiet'
  <2>1. unit.tier = All /\ state.irq_status = All
    BY <1>1 DEF IInv, BootInv, Boots
  <2> QED
    BY <1>1, <2>1, Kinds DEF Quiet, TierWarn, CopyWarn, TierCritical, CopyCritical
<1>10. FreeInv' /\ HandlerInv' /\ HolderInv'
  BY <1>1, <1>5, <1>9 DEF FreeInv, HandlerInv, HolderInv, Holding
<1> QED
  BY <1>4, <1>6, <1>7, <1>8, <1>10 DEF IInv

-----------------------------------------------------------------------------
(* The theorems.                                                           *)

\* The inductive invariant holds initially.
LEMMA InitIInv == Init => IInv
<1> SUFFICES ASSUME Init
             PROVE  IInv
  OBVIOUS
<1>0. 0 \in 0..2
  OBVIOUS
<1> USE TmuAssumption DEF Init
<1>1. th \in [Cores -> ThreadType]
  BY DEF ThreadType, Places, Boots
<1>2. unit \in UnitType /\ state \in StateType /\ gic \in GicType /\ irq \in IrqType
  <2>1. unit \in UnitType
    BY DEF UnitType
  <2>2. state \in StateType
    BY <1>0 DEF StateType
  <2>3. gic \in GicType
    BY DEF GicType
  <2>4. irq \in IrqType
    BY DEF IrqType
  <2> QED
    BY <2>1, <2>2, <2>3, <2>4
<1>3. TypeOK
  BY <1>1, <1>2 DEF TypeOK
<1>4. LockInv /\ MaskInv /\ HandlerInv /\ HolderInv
  BY DEF LockInv, MaskInv, HandlerInv, HolderInv, Holding, InLock, InCall
<1>5. OpInv
  BY DEF OpInv, OpOk
<1>6. BootInv /\ FreeInv
  BY DEF BootInv, FreeInv, Booted, Boots
<1> QED
  BY <1>3, <1>4, <1>5, <1>6 DEF IInv

\* No step of the boot, of a thread, of the unit or of the handler breaks it.
LEMMA NextIInv == IInv /\ [Next]_vars => IInv'
<1> SUFFICES ASSUME IInv, [Next]_vars
             PROVE  IInv'
  OBVIOUS
<1>1. CASE UNCHANGED vars
  BY <1>1, Unmoved DEF vars
<1>2. CASE Boot
  BY <1>2, StagesIInv, Stage2IInv DEF Boot
<1>3. CASE Exceed \/ Handler
  BY <1>3, OutsideLockIInv, InLockIInv DEF Handler
<1>4. ASSUME NEW c \in Cores, Thread(c)
      PROVE  IInv'
  BY <1>4, LockIInv, UnlockIInv, RestoreMaskIInv, SetTierIInv, SetCopyIInv, SaveIInv, OffTierIInv,
     OffCopyIInv, ValidateIInv, ProgramIInv, ResumeIInv, CopyOfIInv, CriticalTierIInv,
     ReadPendingIInv
  DEF Thread
<1>5. ASSUME NEW c \in Cores, GetTemp(c)
      PROVE  IInv'
  BY <1>5, Unmoved DEF GetTemp, Stops
<1>6. ASSUME NEW c \in Cores, NEW op \in Ops, Call(c, op)
      PROVE  IInv'
  BY <1>6, CallIInv
<1> QED
  BY <1>1, <1>2, <1>3, <1>4, <1>5, <1>6 DEF Next

\* The invariant holds in every reachable state.
THEOREM Invariance == Spec => []IInv
  BY InitIInv, NextIInv, PTL DEF Spec

\* Whenever nobody holds state_lock, the status kept in memory is what TIER
\* holds, and the critical interrupts are enabled, for any number of cores,
\* probes and calls (TMU_ATTEX_irq_status_set_, TMU_set_irq_status_).
THEOREM StatusMirrored == Spec => []StatusMirrorsTier
<1>1. IInv => StatusMirrorsTier
  <2> SUFFICES ASSUME IInv, Settled
               PROVE  state.irq_status = unit.tier /\ Critical \subseteq unit.tier
    BY DEF StatusMirrorsTier
  <2>1. Quiet
    BY DEF Settled, IInv, FreeInv
  <2>2. state.irq_status \in SUBSET All /\ unit.tier \in SUBSET All
    BY DEF IInv, TypeOK, UnitType, StateType
  <2> QED
    BY <2>1, <2>2, Kinds DEF Quiet, TierWarn, CopyWarn, TierCritical, CopyCritical
<1> QED
  BY <1>1, Invariance, PTL

\* A caller that wants warnings and finds them off has one to read, whatever
\* the other cores and the handler do while a temperature is set
\* (TMU_set_warn_temp, TMU_ATTEX_irq_handler_, TMU_warn_pending).
THEOREM NoWarningLost == Spec => []WarningsNotLost
<1>1. IInv => WarningsNotLost
  BY DEF WarningsNotLost, Settled, IInv, FreeInv, Quiet, Owed, TierWarn
<1> QED
  BY <1>1, Invariance, PTL

\* state_lock has one holder: two threads are never inside it, nor a thread and
\* the handler, which masks no other core (irq_spinlocked, spin_lock).
THEOREM OneHolder ==
  Spec => [](/\ \A c, d \in Cores : th[c].at \in Holding /\ th[d].at \in Holding => c = d
             /\ irq.at \in InLock => \A c \in Cores : th[c].at \notin Holding)
<1>1. IInv => /\ \A c, d \in Cores : th[c].at \in Holding /\ th[d].at \in Holding => c = d
              /\ irq.at \in InLock => \A c \in Cores : th[c].at \notin Holding
  BY HolderFacts
<1> QED
  BY <1>1, Invariance, PTL

=============================================================================
