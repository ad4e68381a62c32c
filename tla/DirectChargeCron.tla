---- MODULE DirectChargeCron ----
(***************************************************************************)
(* PayinCron.handleDirectChargeCron (src/src/payin/payin.cron.ts 64-98):   *)
(* every 30 s each server instance starts a tick that verifies pending     *)
(* direct charges under the lock 'cron:payin:direct'.  A tick stops        *)
(* between two rows once its wall-clock budget is used up; one row may     *)
(* take as long as the timeout of the payment provider's API.              *)
(*                                                                         *)
(* A tick is a call of withLock (DistributedLock); what the lock left open *)
(* between Create and Finish is given here.                                *)
(***************************************************************************)
EXTENDS DistributedLock, FiniteSets

CONSTANTS
    Period,     \* the cron's period, 30 s
    Budget,     \* DIRECT_CHARGE_BUDGET_MS, 18 s
    ApiTimeout, \* upper bound on the verification of one row, 30 s
    Latency,    \* upper bound on the database work before the first row
    MaxRows     \* bound: rows one tick finds (50 in the code)

ASSUME CronAssumption ==
    /\ Period \in Nat \ {0}
    /\ Budget \in Nat
    /\ ApiTimeout \in Nat
    /\ Latency \in Nat
    /\ MaxRows \in Nat

(* What makes a budget safe: it ends before any clock sees the lease end.  *)
BudgetFitsLease == 2 * Skew + Latency + Budget <= Lease

VARIABLES
    deadline,   \* when each tick stops to start rows
    left,       \* rows each tick found and has not started
    since       \* when the verification under way started

cronVars == <<now, locks, pc, stamp, deadline, left, since>>

NotRead == -1
NoRow == -1

CronTypeOK ==
    /\ TypeOK
    /\ deadline \in [Calls -> Nat]
    /\ left \in [Calls -> {NotRead} \cup 0..MaxRows]
    /\ since \in [Calls -> {NoRow} \cup Nat]

CronInit ==
    /\ Init
    /\ deadline = [c \in Calls |-> 0]
    /\ left = [c \in Calls |-> NotRead]
    /\ since = [c \in Calls |-> NoRow]

(* The scheduler starts a tick whether or not the last one has ended.      *)
Fire(c) ==
    /\ now % Period = 0
    /\ Stamp(c)
    /\ UNCHANGED <<deadline, left, since>>

\* Mutant of Enter: the deadline is one full period away, as for a cron
\* whose budget is its schedule.
EnterWithPeriod(c) ==
    /\ Create(c)
    /\ deadline' = [deadline EXCEPT ![c] = now + Period]
    /\ UNCHANGED <<left, since>>

(* The lock is taken and fn starts by fixing its deadline.                 *)
Enter(c) ==
    /\ Create(c)
    /\ deadline' = [deadline EXCEPT ![c] = now + Budget]
    /\ UNCHANGED <<left, since>>

(* findPendingDirectCharges.                                               *)
ReadRows(c) ==
    /\ pc[c] = "run"
    /\ left[c] = NotRead
    /\ \E n \in 0..MaxRows : left' = [left EXCEPT ![c] = n]
    /\ UNCHANGED <<now, locks, pc, stamp, deadline, since>>

\* Mutant of CanStartRow: the rows are not counted.
CanStartNoRow(c) ==
    /\ pc[c] = "run"
    /\ since[c] = NoRow
    /\ now < deadline[c]

\* Mutant of CanStartRow: the run is bounded by its rows alone.
CanStartAnyRow(c) ==
    /\ pc[c] = "run"
    /\ left[c] > 0
    /\ since[c] = NoRow

CanStartRow(c) ==
    /\ pc[c] = "run"
    /\ left[c] > 0
    /\ since[c] = NoRow
    /\ now < deadline[c]

StartRow(c) ==
    /\ CanStartRow(c)
    /\ since' = [since EXCEPT ![c] = now]
    /\ left' = [left EXCEPT ![c] = @ - 1]
    /\ UNCHANGED <<now, locks, pc, stamp, deadline>>

(* The verification of a row ends, by its answer or by an error that the   *)
(* loop catches.                                                           *)
EndRow(c) ==
    /\ pc[c] = "run"
    /\ since[c] # NoRow
    /\ since' = [since EXCEPT ![c] = NoRow]
    /\ UNCHANGED <<now, locks, pc, stamp, deadline, left>>

(* No row is left, or the budget is used up.  What the call kept on its    *)
(* stack is gone once fn returns or the instance stops.                    *)
Forget(c) ==
    /\ deadline' = [deadline EXCEPT ![c] = 0]
    /\ left' = [left EXCEPT ![c] = NotRead]
    /\ since' = [since EXCEPT ![c] = NoRow]

Leave(c) ==
    /\ left[c] # NotRead
    /\ since[c] = NoRow
    /\ left[c] = 0 \/ now >= deadline[c]
    /\ Finish(c)
    /\ Forget(c)

Stop(c) == Crash(c) /\ Forget(c)

(* Time passes, but not beyond what the API timeout allows a row, nor      *)
(* beyond the latency of the database for the steps before the first row.  *)
OnTime(c) ==
    /\ pc[c] \in {"cleanup", "create"} => now < stamp[c] + Skew + Latency
    /\ pc[c] = "run" =>
         \/ left[c] = NotRead /\ now < stamp[c] + Skew + Latency
         \/ since[c] # NoRow /\ now < since[c] + ApiTimeout

Pass ==
    /\ \A c \in Calls : OnTime(c)
    /\ Tick
    /\ UNCHANGED <<deadline, left, since>>

Locking(c) ==
    /\ Cleanup(c) \/ FindBusy(c) \/ FailToCreate(c) \/ Release(c)
    /\ UNCHANGED <<deadline, left, since>>

Expire == Sweep /\ UNCHANGED <<deadline, left, since>>

CronNext ==
    \/ Pass
    \/ Expire
    \/ \E c \in Calls : \/ Fire(c)
                        \/ Locking(c)
                        \/ Enter(c)
                        \/ ReadRows(c)
                        \/ StartRow(c)
                        \/ EndRow(c)
                        \/ Leave(c)
                        \/ Stop(c)

CronSpec == CronInit /\ [][CronNext]_cronVars

----
(* Ticks may overlap, but only one of them starts rows: when the next tick *)
(* gets the lock, the budget of the one before is used up and it is in its *)
(* last row (payin.cron.ts 69-81).                                         *)
OneTickStartsRows ==
    \A c, d \in Calls : CanStartRow(c) /\ CanStartRow(d) => c = d

(* With the code's numbers an overlap is of two ticks at most: the slowest *)
(* tick is over before a third one can get the lock.                       *)
AtMostTwoTicks == Cardinality({c \in Calls : pc[c] = "run"}) <= 2
====
