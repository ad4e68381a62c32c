---- MODULE DistributedLock ----
(***************************************************************************)
(* DistributedLockService (src/src/distributed-lock): a lock kept as a     *)
(* document of the collection `distributed_locks`, one per key, that a     *)
(* cron job of any server instance takes for a limited time.               *)
(*                                                                         *)
(* One key is modelled.  A call of withLock is a process; its owner token  *)
(* (pid and random bytes) is unique, so the call stands for its token.     *)
(* Time is the clock of the database server; the clock of an instance may  *)
(* be up to Skew units away from it.                                       *)
(***************************************************************************)
EXTENDS Integers

CONSTANTS
    Calls,      \* calls of withLock for the key, on any instance
    Ttl,        \* ttlMs, what the caller asks for
    MinTtl,     \* the shortest lease, 1000 ms in the code
    Skew,       \* distance of an instance's clock from the database's
    MaxTime,    \* bound: the model ends its clock here
    Faults      \* "crash": an instance may stop; "write": a write may fail

ASSUME TimesAssumption ==
    /\ Ttl \in Nat
    /\ MinTtl \in Nat \ {0}
    /\ Skew \in Nat
    /\ MaxTime \in Nat

ASSUME LockFaultsAssumption == Faults \subseteq {"crash", "write"}

VARIABLES
    now,    \* the time
    locks,  \* the documents of `distributed_locks` for the key
    pc,     \* where each call is
    stamp   \* `now` as the call read it in acquire

vars == <<now, locks, pc, stamp>>

Lease == IF Ttl < MinTtl THEN MinTtl ELSE Ttl

(* `expiresAt` of the document a call writes.                              *)
Expiry(c) == stamp[c] + Lease

\* Mutant of Document: the field the TTL index and the cleanup read is
\* misspelt.
DocumentMisspelt(c) == [owner |-> c, expireAt |-> Expiry(c)]

Document(c) == [owner |-> c, expiresAt |-> Expiry(c)]

Active == {"cleanup", "create", "run", "release"}
Labels == Active \cup {"idle", "busy", "failed", "done", "crashed"}

TypeOK ==
    /\ now \in 0..MaxTime
    /\ locks \subseteq [owner : Calls, expiresAt : Int]
    /\ pc \in [Calls -> Labels]
    /\ stamp \in [Calls -> Int]

Init ==
    /\ now = 0
    /\ locks = {}
    /\ pc = [c \in Calls |-> "idle"]
    /\ stamp = [c \in Calls |-> 0]

Goto(c, label) == pc' = [pc EXCEPT ![c] = label]

(* acquire reads the clock of its instance.  The guard is the bound of the *)
(* model: every lease ends before the clock does.                          *)
Stamp(c) ==
    /\ pc[c] = "idle"
    /\ now + Skew + Lease <= MaxTime
    /\ \E t \in (now - Skew)..(now + Skew) : stamp' = [stamp EXCEPT ![c] = t]
    /\ Goto(c, "cleanup")
    /\ UNCHANGED <<now, locks>>

\* Mutant of Unexpired: the cleanup deletes the lock whatever its age.
UnexpiredNone(t) == {}

(* deleteMany({key, expiresAt: {$lte: now}}); its error is swallowed.      *)
Unexpired(t) == {l \in locks : l.expiresAt > t}

Cleanup(c) ==
    /\ pc[c] = "cleanup"
    /\ \/ locks' = Unexpired(stamp[c])
       \/ "write" \in Faults /\ locks' = locks
    /\ Goto(c, "create")
    /\ UNCHANGED <<now, stamp>>

\* Mutant of Create: no unique index on `key`, the insert never collides.
CreateAnother(c) ==
    /\ pc[c] = "create"
    /\ locks' = locks \cup {Document(c)}
    /\ Goto(c, "run")
    /\ UNCHANGED <<now, stamp>>

Create(c) ==
    /\ pc[c] = "create"
    /\ locks = {}
    /\ locks' = {Document(c)}
    /\ Goto(c, "run")
    /\ UNCHANGED <<now, stamp>>

(* The unique index refuses the insert: withLock returns undefined.        *)
FindBusy(c) ==
    /\ pc[c] = "create"
    /\ locks # {}
    /\ Goto(c, "busy")
    /\ UNCHANGED <<now, locks, stamp>>

(* The insert fails for another reason and is thrown; the document may     *)
(* have been written all the same.                                         *)
FailToCreate(c) ==
    /\ "write" \in Faults
    /\ pc[c] = "create"
    /\ \/ locks' = locks
       \/ locks = {} /\ locks' = {Document(c)}
    /\ Goto(c, "failed")
    /\ UNCHANGED <<now, stamp>>

(* fn returns or throws; what it does is left to the modules that use the  *)
(* lock.                                                                   *)
Finish(c) ==
    /\ pc[c] = "run"
    /\ Goto(c, "release")
    /\ UNCHANGED <<now, locks, stamp>>

\* Mutant of NotOwnedBy: release deletes by key alone, not by owner.
NotOwnedByAnyone(c) == {}

NotOwnedBy(c) == {l \in locks : l.owner # c}

(* deleteOne({key, owner}); its error is swallowed.                        *)
Release(c) ==
    /\ pc[c] = "release"
    /\ \/ locks' = NotOwnedBy(c)
       \/ "write" \in Faults /\ locks' = locks
    /\ Goto(c, "done")
    /\ UNCHANGED <<now, stamp>>

Crash(c) ==
    /\ "crash" \in Faults
    /\ pc[c] \in Active
    /\ Goto(c, "crashed")
    /\ UNCHANGED <<now, locks, stamp>>

\* Mutant of Sweep: the TTL index is not created.
SweepNever ==
    /\ FALSE
    /\ UNCHANGED vars

(* The TTL index: the database deletes expired documents on its own clock. *)
Sweep ==
    /\ Unexpired(now) # locks
    /\ locks' = Unexpired(now)
    /\ UNCHANGED <<now, pc, stamp>>

Tick ==
    /\ now < MaxTime
    /\ now' = now + 1
    /\ UNCHANGED <<locks, pc, stamp>>

Acquire(c) == Stamp(c) \/ Cleanup(c) \/ Create(c) \/ FindBusy(c)

Next ==
    \/ Tick
    \/ Sweep
    \/ \E c \in Calls : \/ Acquire(c)
                        \/ FailToCreate(c)
                        \/ Finish(c)
                        \/ Release(c)
                        \/ Crash(c)

(* Time passes and MongoDB's TTL thread runs (once a minute); nothing is   *)
(* assumed of the calls.                                                   *)
Fairness == WF_vars(Tick) /\ WF_vars(Sweep)

Spec == Init /\ [][Next]_vars /\ Fairness

----
(* The call runs under a lease that no clock can take for expired.         *)
Holds(c) == pc[c] = "run" /\ now + Skew < Expiry(c)

(* While its lease lasts a running call finds its own document in the      *)
(* collection: neither the cleanup of another call, nor the TTL thread,    *)
(* nor a late release by the previous owner deletes it                     *)
(* (distributed-lock.service.ts 24-27, 42).                                *)
LeaseProtects == \A c \in Calls : Holds(c) => Document(c) \in locks

(* Two calls never run at the same time while both leases last, whatever   *)
(* crashed, whatever write failed, and with clocks that disagree by Skew.  *)
Exclusive == \A c, d \in Calls : Holds(c) /\ Holds(d) => c = d

(* A lock nobody will release (its owner crashed, its release failed, or   *)
(* its insert was reported as failed) disappears without anybody's help    *)
(* (the TTL index of distributed-lock.schema.ts 19-20).                    *)
StaleLockDisappears ==
    \A c \in Calls :
        (\E l \in locks : l.owner = c /\ pc[c] \notin Active)
        ~> (\A l \in locks : l.owner # c)
====
