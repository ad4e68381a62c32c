---- MODULE DirectChargeCronProofs ----
(***************************************************************************)
(* Theorems about DistributedLock for any number of calls, any lease and   *)
(* any distance between the clocks, and about the cron that uses it: what  *)
(* its wall-clock budget gives, for any number of ticks, of rows and any   *)
(* timeout of the provider's API.                                          *)
(***************************************************************************)
EXTENDS DirectChargeCron, TLAPS

(* What the proofs need beyond LeaseProtects: the unique index, and that   *)
(* no call read a time its clock cannot have shown yet.                    *)
OneDocument == \A l, m \in locks : l = m

NoFutureStamp == \A c \in Calls : pc[c] # "idle" => stamp[c] <= now + Skew

LockInv == TypeOK /\ OneDocument /\ NoFutureStamp /\ LeaseProtects

LEMMA LeaseIsNatural == Lease \in Nat \ {0} /\ \A c \in Calls : stamp[c] \in Int => Expiry(c) \in Int
BY TimesAssumption DEF Lease, Expiry

LEMMA DocumentType ==
    ASSUME TypeOK, NEW c \in Calls
    PROVE  /\ Document(c) \in [owner : Calls, expiresAt : Int]
           /\ Document(c).owner = c
           /\ Document(c).expiresAt = Expiry(c)
BY LeaseIsNatural DEF TypeOK, Document

LEMMA LockInvInit == Init => LockInv
BY TimesAssumption DEF Init, LockInv, TypeOK, OneDocument, NoFutureStamp,
                       LeaseProtects, Holds, Labels, Active

(* A step keeps the types.                                                 *)
LEMMA TypeStep == TypeOK /\ [Next]_vars => TypeOK'
<1> SUFFICES ASSUME TypeOK, [Next]_vars PROVE TypeOK'
  OBVIOUS
<1> USE TimesAssumption DEF TypeOK, Labels, Active, Goto
<1>1. CASE UNCHANGED vars
  BY <1>1 DEF vars
<1>2. CASE Tick
  BY <1>2 DEF Tick
<1>3. CASE Sweep
  BY <1>3 DEF Sweep, Unexpired
<1>4. ASSUME NEW c \in Calls, Stamp(c) PROVE TypeOK'
  <2>1. PICK t \in (now - Skew)..(now + Skew) : stamp' = [stamp EXCEPT ![c] = t]
    BY <1>4 DEF Stamp
  <2>2. t \in Int
    BY <2>1
  <2> QED
    BY <1>4, <2>1, <2>2 DEF Stamp
<1>5. ASSUME NEW c \in Calls, Cleanup(c) PROVE TypeOK'
  BY <1>5 DEF Cleanup, Unexpired
<1>6. ASSUME NEW c \in Calls, Create(c) PROVE TypeOK'
  BY <1>6, DocumentType DEF Create
<1>7. ASSUME NEW c \in Calls, FindBusy(c) PROVE TypeOK'
  BY <1>7 DEF FindBusy
<1>8. ASSUME NEW c \in Calls, FailToCreate(c) PROVE TypeOK'
  BY <1>8, DocumentType DEF FailToCreate
<1>9. ASSUME NEW c \in Calls, Finish(c) PROVE TypeOK'
  BY <1>9 DEF Finish
<1>10. ASSUME NEW c \in Calls, Release(c) PROVE TypeOK'
  BY <1>10 DEF Release, NotOwnedBy
<1>11. ASSUME NEW c \in Calls, Crash(c) PROVE TypeOK'
  BY <1>11 DEF Crash
<1> QED
  BY <1>1, <1>2, <1>3, <1>4, <1>5, <1>6, <1>7, <1>8, <1>9, <1>10, <1>11
     DEF Next, Acquire

(* The type invariant of the lock.                                         *)
THEOREM LockTypeCorrect == Spec => []TypeOK
BY LockInvInit, TypeStep, PTL DEF Spec, LockInv

(* A document disappears only when it has expired for some clock or when   *)
(* its own call releases it; a call enters fn only with its document.      *)
LEMMA LockInvStep == LockInv /\ [Next]_vars => LockInv'
<1> SUFFICES ASSUME LockInv, [Next]_vars PROVE LockInv'
  OBVIOUS
<1>0. TypeOK /\ TypeOK'
  BY TypeStep DEF LockInv
<1> DEFINE Rest == OneDocument /\ NoFutureStamp /\ LeaseProtects
<1> SUFFICES Rest'
  BY <1>0 DEF LockInv
<1> USE <1>0, TimesAssumption, LeaseIsNatural
    DEF LockInv, TypeOK, OneDocument, NoFutureStamp, LeaseProtects, Holds,
        Goto, Document, Expiry
<1>1. CASE UNCHANGED vars
  BY <1>1 DEF vars, Lease
<1>2. CASE Tick
  BY <1>2 DEF Tick, Lease
<1>3. CASE Sweep
  BY <1>3 DEF Sweep, Unexpired, Lease
<1>4. ASSUME NEW c \in Calls, Stamp(c) PROVE Rest'
  <2>1. PICK t \in (now - Skew)..(now + Skew) : stamp' = [stamp EXCEPT ![c] = t]
    BY <1>4 DEF Stamp
  <2>2. t \in Int /\ t <= now + Skew
    BY <2>1
  <2>3. UNCHANGED <<now, locks>> /\ pc' = [pc EXCEPT ![c] = "cleanup"]
    BY <1>4 DEF Stamp
  <2> QED
    BY <2>1, <2>2, <2>3 DEF Lease
<1>5. ASSUME NEW c \in Calls, Cleanup(c) PROVE Rest'
  BY <1>5 DEF Cleanup, Unexpired, Lease
<1>6. ASSUME NEW c \in Calls, Create(c) PROVE Rest'
  BY <1>6 DEF Create, Lease
<1>7. ASSUME NEW c \in Calls, FindBusy(c) PROVE Rest'
  BY <1>7 DEF FindBusy, Lease
<1>8. ASSUME NEW c \in Calls, FailToCreate(c) PROVE Rest'
  BY <1>8 DEF FailToCreate, Lease
<1>9. ASSUME NEW c \in Calls, Finish(c) PROVE Rest'
  BY <1>9 DEF Finish, Lease
<1>10. ASSUME NEW c \in Calls, Release(c) PROVE Rest'
  BY <1>10 DEF Release, NotOwnedBy, Lease
<1>11. ASSUME NEW c \in Calls, Crash(c) PROVE Rest'
  BY <1>11 DEF Crash, Active, Lease
<1> QED
  BY <1>1, <1>2, <1>3, <1>4, <1>5, <1>6, <1>7, <1>8, <1>9, <1>10, <1>11
     DEF Next, Acquire

LEMMA LockInvHolds == Spec => []LockInv
BY LockInvInit, LockInvStep, PTL DEF Spec

(* Until its lease ends nothing but the owner itself removes the lock.     *)
THEOREM LeaseIsProtected == Spec => []LeaseProtects
BY LockInvHolds, PTL DEF LockInv

LEMMA LockInvIsExclusive == LockInv => Exclusive
BY DEF LockInv, OneDocument, LeaseProtects, Exclusive, Document

(* Mutual exclusion of unexpired leases.                                   *)
THEOREM MutualExclusion == Spec => []Exclusive
BY LockInvHolds, LockInvIsExclusive, PTL

----
(* The cron that uses the lock.                                            *)

(* Every step of the cron is a step of the lock or leaves the lock alone.  *)
LEMMA CronStepIsLockStep == [CronNext]_cronVars => [Next]_vars
BY DEF CronNext, cronVars, vars, Next, Acquire, Pass, Expire, Fire, Locking,
       Enter, ReadRows, StartRow, EndRow, Leave, Stop

LEMMA CronKeepsLockInv == CronSpec => []LockInv
<1>1. CronInit => LockInv
  BY LockInvInit DEF CronInit
<1>2. LockInv /\ [CronNext]_cronVars => LockInv'
  BY LockInvStep, CronStepIsLockStep
<1> QED
  BY <1>1, <1>2, PTL DEF CronSpec

(* The deadline of a tick is no later than its clock reading, plus what    *)
(* the clock may be wrong by and the database may take, plus the budget.   *)
DeadlineBound ==
    /\ deadline \in [Calls -> Int]
    /\ \A c \in Calls :
         /\ pc[c] \in {"cleanup", "create"} => now <= stamp[c] + Skew + Latency
         /\ pc[c] = "run" => deadline[c] <= stamp[c] + Skew + Latency + Budget

LEMMA DeadlineBoundStep ==
    LockInv /\ LockInv' /\ DeadlineBound /\ [CronNext]_cronVars => DeadlineBound'
<1> SUFFICES ASSUME LockInv, LockInv', DeadlineBound, [CronNext]_cronVars
             PROVE  DeadlineBound'
  OBVIOUS
<1> USE TimesAssumption, CronAssumption
    DEF LockInv, TypeOK, DeadlineBound, Goto
<1>1. CASE UNCHANGED cronVars
  BY <1>1 DEF cronVars
<1>2. CASE Pass
  BY <1>2 DEF Pass, OnTime, Tick
<1>3. CASE Expire
  BY <1>3 DEF Expire, Sweep
<1>4. ASSUME NEW c \in Calls, Fire(c) PROVE DeadlineBound'
  <2>1. PICK t \in (now - Skew)..(now + Skew) : stamp' = [stamp EXCEPT ![c] = t]
    BY <1>4 DEF Fire, Stamp
  <2>2. t \in Int /\ now <= t + Skew
    BY <2>1
  <2>3. /\ UNCHANGED <<now, deadline>>
        /\ pc' = [pc EXCEPT ![c] = "cleanup"]
    BY <1>4 DEF Fire, Stamp
  <2> QED
    BY <2>1, <2>2, <2>3
<1>5. ASSUME NEW c \in Calls, Locking(c) PROVE DeadlineBound'
  BY <1>5 DEF Locking, Cleanup, FindBusy, FailToCreate, Release
<1>6. ASSUME NEW c \in Calls, Enter(c) PROVE DeadlineBound'
  BY <1>6 DEF Enter, Create
<1>7. ASSUME NEW c \in Calls, ReadRows(c) PROVE DeadlineBound'
  BY <1>7 DEF ReadRows
<1>8. ASSUME NEW c \in Calls, StartRow(c) PROVE DeadlineBound'
  BY <1>8 DEF StartRow
<1>9. ASSUME NEW c \in Calls, EndRow(c) PROVE DeadlineBound'
  BY <1>9 DEF EndRow
<1>10. ASSUME NEW c \in Calls, Leave(c) PROVE DeadlineBound'
  BY <1>10 DEF Leave, Finish, Forget
<1>11. ASSUME NEW c \in Calls, Stop(c) PROVE DeadlineBound'
  BY <1>11 DEF Stop, Crash, Forget
<1> QED
  BY <1>1, <1>2, <1>3, <1>4, <1>5, <1>6, <1>7, <1>8, <1>9, <1>10, <1>11
     DEF CronNext

(* A tick within its budget is within its lease on every clock.            *)
LEMMA BudgetImpliesLease ==
    ASSUME BudgetFitsLease, LockInv, DeadlineBound, NEW c \in Calls, CanStartRow(c)
    PROVE  Holds(c)
<1>1. /\ now \in Int /\ stamp[c] \in Int /\ deadline[c] \in Int /\ Lease \in Int
      /\ pc[c] = "run" /\ now < deadline[c]
  BY LeaseIsNatural DEF LockInv, TypeOK, DeadlineBound, CanStartRow
<1> QED
  BY <1>1, TimesAssumption, CronAssumption
     DEF BudgetFitsLease, DeadlineBound, Holds, Expiry

(* If the budget ends before the lease on every clock, two ticks that      *)
(* overlap never both start rows, however slow the provider is.            *)
THEOREM BudgetSeparatesTicks ==
    ASSUME BudgetFitsLease
    PROVE  CronSpec => []OneTickStartsRows
<1>1. CronInit => DeadlineBound
  BY DEF CronInit, Init, DeadlineBound
<1>2. LockInv /\ DeadlineBound => OneTickStartsRows
  BY BudgetImpliesLease, LockInvIsExclusive DEF OneTickStartsRows, Exclusive
<1> QED
  BY <1>1, <1>2, DeadlineBoundStep, CronKeepsLockInv, PTL DEF CronSpec
====
