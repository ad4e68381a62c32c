---- MODULE Wallet ----
(***************************************************************************)
(* BalanceService (src/src/balance/balance.service.ts): the wallet of a    *)
(* user and the movements that make a credit or a debit idempotent.        *)
(*                                                                         *)
(* A call of creditBalance or debitBalance is a process.  Between two of   *)
(* its awaits any other call, of the same server instance or of another,   *)
(* may run; each database operation is one step.  The collections are      *)
(*   wallets, balance   `balances`: the documents that exist, their amount *)
(*   movements          `balance_movements`, with its unique index on key  *)
(* and a call is what the code keeps on its stack: where it is (pc) and    *)
(* what it was asked (req).                                                *)
(***************************************************************************)
EXTENDS Integers, FiniteSets, Functions

CONSTANTS
    Users,      \* owners of a wallet
    Keys,       \* idempotency keys callers use, e.g. payin-credit:<tx>
    NoKey,      \* a call without an idempotency key
    Requests,   \* the postings callers may ask for
    Calls,      \* calls made, each one at most once
    NoRequest,  \* what a call that was not made was asked
    Faults      \* "crash": an instance may stop; "write": a write may fail,
                \* not done, or done and its answer lost

(* A key names one posting: it is built from the purpose and the id of the *)
(* transaction the posting belongs to, which fix user, type and amount.    *)
ASSUME RequestsAssumption ==
    /\ NoKey \notin Keys
    /\ NoRequest \notin Requests
    /\ Requests \subseteq [type : {"credit", "debit"}, user : Users,
                           amount : Nat \ {0}, key : Keys \cup {NoKey}]
    /\ \A r, s \in Requests : r.key = s.key /\ r.key # NoKey => r = s

ASSUME FaultsAssumption == Faults \subseteq {"crash", "write"}

ASSUME CallsAssumption == IsFiniteSet(Calls)

VARIABLES wallets, balance, movements, pc, req

vars == <<wallets, balance, movements, pc, req>>

(* Where a call is.  "open" and "apply": nothing changed yet.  "record",   *)
(* "duplicate" and "error": its $inc is in the wallet, its movement is not *)
(* recorded; "unheard": it is recorded, but the call has been told that    *)
(* the insert failed.  The others have ended: "applied" and "skipped"      *)
(* returned normally, "refused", "failed" and "aborted" threw or stopped   *)
(* without a trace.  "stranded", "kept" and "disowned" threw or stopped:   *)
(* the first left its $inc without a movement, the second left both, the   *)
(* third took back the $inc of a movement that stays.                      *)
InFlight == {"record", "duplicate", "error"}
Thrown == {"failed", "aborted", "stranded", "kept", "disowned"}
Ended == {"applied", "skipped", "refused"} \cup Thrown
Labels == {"idle", "open", "apply", "unheard"} \cup InFlight \cup Ended

Effect(r) == IF r.type = "credit" THEN r.amount ELSE -r.amount

TypeOK ==
    /\ wallets \subseteq Users
    /\ balance \in [Users -> Int]
    /\ movements \subseteq Requests
    /\ pc \in [Calls -> Labels]
    /\ req \in [Calls -> Requests \cup {NoRequest}]
    /\ \A c \in Calls : pc[c] # "idle" => req[c] \in Requests

Init ==
    /\ wallets = {}
    /\ balance = [u \in Users |-> 0]
    /\ movements = {}
    /\ pc = [c \in Calls |-> "idle"]
    /\ req = [c \in Calls |-> NoRequest]

Goto(c, label) == pc' = [pc EXCEPT ![c] = label]

Inc(u, amount) == balance' = [balance EXCEPT ![u] = @ + amount]

(* The call passes its checks: user, amount and currency are valid.        *)
Invoke(c, r) ==
    /\ pc[c] = "idle"
    /\ req' = [req EXCEPT ![c] = r]
    /\ Goto(c, "open")
    /\ UNCHANGED <<wallets, balance, movements>>

(* getBalanceByUserId: upsert; losing the race on the unique userId reads  *)
(* the document the other call created.                                    *)
OpenWallet(c) ==
    /\ pc[c] = "open"
    /\ wallets' = wallets \cup {req[c].user}
    /\ Goto(c, "apply")
    /\ UNCHANGED <<balance, movements, req>>

\* Mutant of AfterApply: a posting with a key skips its movement and stops.
AfterApplyUnlabelled(r) == IF r.key = NoKey THEN "applied" ELSE "done"

AfterApply(r) == IF r.key = NoKey THEN "applied" ELSE "record"

ApplyCredit(c) ==
    /\ pc[c] = "apply"
    /\ req[c].type = "credit"
    /\ req[c].user \in wallets
    /\ Inc(req[c].user, req[c].amount)
    /\ Goto(c, AfterApply(req[c]))
    /\ UNCHANGED <<wallets, movements, req>>

\* Mutant of Covered: the filter `balance: { $gte: amount }` is dropped.
CoveredUnchecked(r) == r.user \in wallets

Covered(r) == r.user \in wallets /\ balance[r.user] >= r.amount

ApplyDebit(c) ==
    /\ pc[c] = "apply"
    /\ req[c].type = "debit"
    /\ Covered(req[c])
    /\ Inc(req[c].user, -req[c].amount)
    /\ Goto(c, AfterApply(req[c]))
    /\ UNCHANGED <<wallets, movements, req>>

(* The $inc is made and its answer lost: thrown, before any movement.      *)
ApplyUnheard(c) ==
    /\ "write" \in Faults
    /\ pc[c] = "apply"
    /\ req[c].user \in wallets
    /\ req[c].type = "debit" => Covered(req[c])
    /\ Inc(req[c].user, Effect(req[c]))
    /\ Goto(c, "stranded")
    /\ UNCHANGED <<wallets, movements, req>>

RefuseDebit(c) ==
    /\ pc[c] = "apply"
    /\ req[c].type = "debit"
    /\ ~Covered(req[c])
    /\ Goto(c, "refused")
    /\ UNCHANGED <<wallets, balance, movements, req>>

\* Mutant of Recorded: no unique index on `key`, a second insert succeeds.
RecordedNever(k) == FALSE

Recorded(k) == \E m \in movements : m.key = k

\* Mutant of RecordMovement: the movement is not stored.
RecordNothing(c) ==
    /\ pc[c] = "record"
    /\ Goto(c, "applied")
    /\ UNCHANGED <<wallets, balance, movements, req>>

RecordMovement(c) ==
    /\ pc[c] = "record"
    /\ ~Recorded(req[c].key)
    /\ movements' = movements \cup {req[c]}
    /\ Goto(c, "applied")
    /\ UNCHANGED <<wallets, balance, req>>

FindDuplicate(c) ==
    /\ pc[c] = "record"
    /\ Recorded(req[c].key)
    /\ Goto(c, "duplicate")
    /\ UNCHANGED <<wallets, balance, movements, req>>

(* The insert fails for another reason than the unique index.              *)
FailToRecord(c) ==
    /\ "write" \in Faults
    /\ pc[c] = "record"
    /\ Goto(c, "error")
    /\ UNCHANGED <<wallets, balance, movements, req>>

(* The insert is made and its answer lost: the catch cannot tell.          *)
RecordUnheard(c) ==
    /\ "write" \in Faults
    /\ pc[c] = "record"
    /\ ~Recorded(req[c].key)
    /\ movements' = movements \cup {req[c]}
    /\ Goto(c, "unheard")
    /\ UNCHANGED <<wallets, balance, req>>

AfterReverse(label) ==
    CASE label = "duplicate" -> "skipped"
      [] label = "error" -> "failed"
      [] OTHER -> "disowned"

\* Mutant of Reverse: the duplicate is reported as skipped and not undone.
ReverseForgotten(c) ==
    /\ pc[c] \in {"duplicate", "error"}
    /\ Goto(c, AfterReverse(pc[c]))
    /\ UNCHANGED <<wallets, balance, movements, req>>

(* The $inc is taken back whatever the wallet holds by now.                *)
Reverse(c) ==
    /\ pc[c] \in {"duplicate", "error", "unheard"}
    /\ Inc(req[c].user, -Effect(req[c]))
    /\ Goto(c, AfterReverse(pc[c]))
    /\ UNCHANGED <<wallets, movements, req>>

(* It is taken back and the answer lost: thrown after a duplicate, while   *)
(* the catch after another error throws in any case.                       *)
ReverseUnheard(c) ==
    /\ "write" \in Faults
    /\ pc[c] = "duplicate"
    /\ Inc(req[c].user, -Effect(req[c]))
    /\ Goto(c, "failed")
    /\ UNCHANGED <<wallets, movements, req>>

LeftAt(label) == IF label = "unheard" THEN "kept" ELSE "stranded"

(* The write that takes it back fails: thrown after a duplicate, swallowed *)
(* by the catch after another error.                                       *)
FailToReverse(c) ==
    /\ "write" \in Faults
    /\ pc[c] \in {"duplicate", "error", "unheard"}
    /\ Goto(c, LeftAt(pc[c]))
    /\ UNCHANGED <<wallets, balance, movements, req>>

(* The instance stops, or the upsert or the $inc fails before it is done.  *)
Stop(c) ==
    /\ Faults # {}
    /\ \/ pc[c] \in {"open", "apply"} /\ Goto(c, "aborted")
       \/ /\ "crash" \in Faults
          /\ pc[c] \in InFlight \cup {"unheard"}
          /\ Goto(c, LeftAt(pc[c]))
    /\ UNCHANGED <<wallets, balance, movements, req>>

Advance(c) ==
    \/ OpenWallet(c)
    \/ ApplyCredit(c)
    \/ ApplyDebit(c)
    \/ RefuseDebit(c)
    \/ RecordMovement(c)
    \/ FindDuplicate(c)
    \/ Reverse(c)

Fault(c) ==
    \/ FailToRecord(c)
    \/ FailToReverse(c)
    \/ ApplyUnheard(c)
    \/ RecordUnheard(c)
    \/ ReverseUnheard(c)
    \/ Stop(c)

Next ==
    \E c \in Calls :
        \/ \E r \in Requests : Invoke(c, r)
        \/ Advance(c)
        \/ Fault(c)

(* A call that was made runs on: Node resumes an await that has resolved,  *)
(* and every driver operation resolves or fails.                           *)
Fairness == \A c \in Calls : WF_vars(Advance(c))

Spec == Init /\ [][Next]_vars /\ Fairness

----
CallEffect == [c \in Calls |-> Effect(req[c])]
HalfDone(u) == {c \in Calls : pc[c] \in InFlight \cup {"stranded"} /\ req[c].user = u}
Disowned(u) == {c \in Calls : pc[c] = "disowned" /\ req[c].user = u}
Unkeyed(u) == {c \in Calls : pc[c] = "applied" /\ req[c].key = NoKey /\ req[c].user = u}

(* Money in the wallet of u: what its movements say, what calls without a  *)
(* key added, what calls between two writes or stopped there added, less   *)
(* what calls took back whose movement stays.                              *)
OnLedger(u) ==
    SumFunctionOnSet([r \in Requests |-> Effect(r)], {m \in movements : m.user = u})
FromUnkeyed(u) == SumFunctionOnSet(CallEffect, Unkeyed(u))
FromHalfDone(u) == SumFunctionOnSet(CallEffect, HalfDone(u))
FromDisowned(u) == SumFunctionOnSet(CallEffect, Disowned(u))

(* Between calls the wallet is exactly its ledger: each recorded movement  *)
(* counts once however many calls asked for it, and nothing else counts    *)
(* but the calls without a key, and the calls that were told that their    *)
(* insert had failed when it had not: the amount of such a call is taken   *)
(* back and its movement stays (balance.service.ts 96-134, 180-216).       *)
SettledBalance ==
    \A u \in Users :
        HalfDone(u) = {} =>
            balance[u] = OnLedger(u) + FromUnkeyed(u) - FromDisowned(u)

(* Of all the calls with one key, on whatever instance, at most one keeps  *)
(* its $inc and reports it as applied (the at-most-once of lines 70-71).   *)
OneCallPerKey ==
    \A c, d \in Calls :
        /\ pc[c] = "applied" /\ pc[d] = "applied"
        /\ req[c].key = req[d].key /\ req[c].key # NoKey
        => c = d

(* A caller told "done" or "already done" finds the movement recorded: the *)
(* reversal of a duplicate never removes money nobody booked.              *)
SuccessIsRecorded ==
    \A c \in Calls :
        pc[c] \in {"applied", "skipped", "duplicate"} /\ req[c].key # NoKey
        => req[c] \in movements

(* A wallet is overdrawn only by a credit that was taken back: as long as  *)
(* no credit of u was reversed, debits alone keep the balance at zero or   *)
(* above (the filter of line 181 against concurrent debits).               *)
OverdraftNeedsReversal ==
    \A u \in Users :
        balance[u] < 0 =>
            \E c \in Calls : /\ pc[c] \in {"skipped", "failed", "disowned"}
                             /\ req[c].type = "credit"
                             /\ req[c].user = u

(* No credit is dropped silently: of the calls for a keyed credit one      *)
(* keeps its amount in the wallet and its movement on the ledger, or one   *)
(* threw or its instance stopped.  That all are told "already done" while  *)
(* nobody did it needs such a call.                                        *)
CreditIsNotDropped ==
    \A r \in Requests :
        r.key # NoKey /\ r.type = "credit" =>
            ((\E c \in Calls : req[c] = r)
             ~> \E c \in Calls :
                    /\ req[c] = r
                    /\ \/ pc[c] = "applied" /\ r \in movements
                       \/ pc[c] \in Thrown)

(* The wallet without the calls that are between two writes, or stopped    *)
(* there, and with what was taken back of a movement that stays, is the    *)
(* abstract ledger: every step posts one request that was not on the       *)
(* books, or changes nothing on the books.                                 *)
SettledView ==
    [u \in Users |-> balance[u] - FromHalfDone(u) + FromDisowned(u)]

Books == INSTANCE Ledger WITH settled <- SettledView,
                              posted <- {m.key : m \in movements}

ImplementsLedger == Books!Spec

(* What lines 70-71 and 155 promise together: a repeated call is a no-op   *)
(* and a debit needs the money, so no wallet is ever overdrawn.            *)
NeverOverdrawn == \A u \in Users : balance[u] >= 0
====
