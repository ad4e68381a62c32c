---- MODULE Subscription ----
(***************************************************************************)
(* The subscriptions of one user to one plan: bought and prolonged by      *)
(* payments, created, stopped and changed by hand, and switched off when   *)
(* they have run out.                                                      *)
(*   flutterwave.service.ts      handleSubscription                        *)
(*   subscription.service.ts, item.service.ts, subscription.cron.ts        *)
(*                                                                         *)
(* Time is counted in cycles of the plan.                                  *)
(***************************************************************************)
EXTENDS Requests, SequencesExt, FiniteSetsExt

CONSTANTS
    Payments,   \* successful transactions, claimed once each; Amount is
                \* the quantity of cycles they buy
    MaxTime,    \* bound: the clock stops here
    MaxByHand   \* bound: requests without a payment

(* A payment is not what stands in its place when a request has none.      *)
ASSUME SubscriptionAssumption ==
    /\ MaxTime \in Nat /\ MaxByHand \in Nat
    /\ \A t \in Payments : Amount(t) \in Nat \ {0}
    /\ Payments \cap {"none", "look", "cron", "add", "toggle", "renew"} = {}

VARIABLES
    now,
    subs,           \* subscriptions in the order of their creation
    items,          \* the periods sold: by which payment, from when to when
    subscriberNumber,
    paidFor,        \* payments whose handler has begun
    byHand,         \* history: requests without a payment
    together,       \* history: two of the handlers that create or prolong a
                    \* subscription were at work at once
    outdated        \* history: one was prolonged that somebody was about to
                    \* switch off

subOnly == <<now, subs, items, subscriberNumber, paidFor, byHand, together, outdated>>
subscriptionVars == <<reqVars, subOnly>>

Times == 0..(2 * MaxTime + 4)
SubLabels == {"idle", "verify", "lapse", "create", "count", "read", "item", "sell",
              "upgrade", "toggle", "renew", "cron"}
Subscriptions == [start : Times, end : Times, quantity : Nat, on : BOOLEAN, gone : BOOLEAN]
Periods == [sub : Nat, by : Payments, from : Times, to : Times]

SubscriptionTypeOK ==
    /\ now \in 0..MaxTime
    /\ subs \in Seq(Subscriptions)
    /\ items \subseteq Periods
    /\ subscriberNumber \in Nat /\ paidFor \subseteq Payments
    /\ byHand \in 0..MaxByHand /\ together \in BOOLEAN /\ outdated \in BOOLEAN
    /\ pc \in [Procs -> SubLabels]

SubscriptionInit ==
    /\ RequestsInit
    /\ now = 0 /\ subs = <<>> /\ items = {}
    /\ subscriberNumber = 0 /\ paidFor = {}
    /\ byHand = 0 /\ together = FALSE /\ outdated = FALSE

Live == {i \in DOMAIN subs : ~subs[i].gone}

\* Mutant: a subscription that was switched off is not found.
FoundActive ==
    LET on == {i \in Live : subs[i].on} IN IF on = {} THEN 0 ELSE Min(on)

(* findOne({userId, planId}): the first of them, 0 for none.               *)
Found == IF Live = {} THEN 0 ELSE Min(Live)

Sub(p) == stack[p].sub
By(p) == stack[p].subject
Paying(p) == By(p) \in Payments
Selling(p) == pc[p] # "idle" /\ (Paying(p) \/ By(p) = "add")

(* What a request has read and computed: its subscription and the period.  *)
SubFrame(subject, from, quantity) ==
    [subject |-> subject, sub |-> 0, from |-> from, quantity |-> quantity,
     on |-> TRUE, todo |-> {}]

WriteSub(i, doc) == subs' = [subs EXCEPT ![i] = doc]

----
(* handleSubscription of a transaction that was created at time c.         *)
StartPaid(p, t, c) ==
    /\ t \notin paidFor /\ c <= now
    /\ paidFor' = paidFor \cup {t}
    /\ together' = (together \/ \E q \in Procs : Selling(q))
    /\ Begin(p, "verify", SubFrame(t, c, Amount(t)))
    /\ UNCHANGED <<now, subs, items, subscriberNumber, byHand, outdated>>

ByHand == byHand < MaxByHand /\ byHand' = byHand + 1

(* subscribe without a transaction: addSubscriber and the endpoint.        *)
StartAdd(p, on) ==
    /\ ByHand
    /\ together' = (together \/ \E q \in Procs : Selling(q))
    /\ Begin(p, "verify", [SubFrame("add", now, 1) EXCEPT !.on = on])
    /\ UNCHANGED <<now, subs, items, subscriberNumber, paidFor, outdated>>

(* A user's client asks whether the subscription is there.                 *)
StartLook(p) ==
    /\ Live # {}
    /\ Begin(p, "verify", SubFrame("look", now, 0))
    /\ UNCHANGED subOnly

(* What follows verifySubscription; one without a transaction is refused   *)
(* when there is a subscription already.                                   *)
Verified(p, i) ==
    IF Paying(p)
    THEN JumpWith(p, IF i = 0 THEN "create" ELSE "read", [stack[p] EXCEPT !.sub = i])
    ELSE IF By(p) = "add" /\ i = 0 THEN Jump(p, "create") ELSE Return(p)

(* verifySubscription reads the subscription; one that has run out is      *)
(* switched off by a second write, which has no condition.  That subscribe *)
(* verifies again what handleSubscription has just verified is left out.   *)
Verify(p) ==
    /\ pc[p] = "verify"
    /\ IF Found # 0 /\ now > subs[Found].end /\ subs[Found].on
       THEN JumpWith(p, "lapse", [stack[p] EXCEPT !.sub = Found])
       ELSE Verified(p, Found)
    /\ UNCHANGED subOnly

Lapse(p) ==
    /\ pc[p] = "lapse"
    /\ WriteSub(Sub(p), [subs[Sub(p)] EXCEPT !.on = FALSE])
    /\ Verified(p, Sub(p))
    /\ UNCHANGED <<now, items, subscriberNumber, paidFor, byHand, together, outdated>>

(* createSubscriptionWithTransaction and ...WithoutTransaction.            *)
CreateSub(p) ==
    /\ pc[p] = "create"
    /\ subs' = Append(subs, [start |-> stack[p].from, end |-> stack[p].from + stack[p].quantity,
                             quantity |-> stack[p].quantity, on |-> stack[p].on,
                             gone |-> FALSE])
    /\ JumpWith(p, "count", [stack[p] EXCEPT !.sub = Len(subs) + 1])
    /\ UNCHANGED <<now, items, subscriberNumber, paidFor, byHand, together, outdated>>

Count(p) ==
    /\ pc[p] = "count"
    /\ subscriberNumber' = subscriberNumber + 1
    /\ IF Paying(p) THEN Jump(p, "item") ELSE Return(p)
    /\ UNCHANGED <<now, subs, items, paidFor, byHand, together, outdated>>

\* Mutant: the new period begins now, whatever is left of the old one.
ExtendFromNow(s) == now

(* Where a prolongation begins: at the end of a subscription that runs,    *)
(* now otherwise; one that was created with an empty period keeps its date.*)
ExtendFrom(s) ==
    IF s.on THEN s.end ELSE IF s.start = s.end THEN s.start ELSE now

(* upgradeSubscription reads the subscription and computes the new end and *)
(* status from it.                                                         *)
ReadSub(p) ==
    /\ pc[p] = "read"
    /\ IF subs[Sub(p)].gone
       THEN Return(p)
       ELSE LET from == ExtendFrom(subs[Sub(p)])
            IN  JumpWith(p, "sell", [stack[p] EXCEPT
                    !.from = from, !.on = (from + Amount(By(p)) > now),
                    !.quantity = subs[Sub(p)].quantity + Amount(By(p))])
    /\ UNCHANGED subOnly

\* Mutant: an upgrade writes the subscription only, and is done.
SellNothing(p) ==
    /\ pc[p] \in {"item", "sell"}
    /\ IF pc[p] = "sell" THEN Jump(p, "upgrade") ELSE Return(p)
    /\ UNCHANGED subOnly

(* createItem, of a creation or, before the subscription is written, of an *)
(* upgrade.                                                                *)
Sell(p) ==
    /\ pc[p] \in {"item", "sell"}
    /\ items' = items \cup {[sub |-> Sub(p), by |-> By(p), from |-> stack[p].from,
                             to |-> stack[p].from + Amount(By(p))]}
    /\ IF pc[p] = "sell" THEN Jump(p, "upgrade") ELSE Return(p)
    /\ UNCHANGED <<now, subs, subscriberNumber, paidFor, byHand, together, outdated>>

\* Mutant: an upgrade does not set the status.
UpgradeEndOnly(p) ==
    /\ pc[p] = "upgrade"
    /\ WriteSub(Sub(p), [subs[Sub(p)] EXCEPT !.quantity = stack[p].quantity,
                             !.end = stack[p].from + Amount(By(p))])
    /\ Return(p)
    /\ UNCHANGED <<now, items, subscriberNumber, paidFor, byHand, together, outdated>>

Expiring(i) ==
    \E q \in Procs :
        \/ pc[q] = "lapse" /\ Sub(q) = i
        \/ pc[q] = "cron" /\ i \in stack[q].todo

Upgrade(p) ==
    /\ pc[p] = "upgrade"
    /\ outdated' = (outdated \/ Expiring(Sub(p)))
    /\ IF subs[Sub(p)].gone
       THEN UNCHANGED subs
       ELSE WriteSub(Sub(p), [subs[Sub(p)] EXCEPT !.quantity = stack[p].quantity,
                                  !.end = stack[p].from + Amount(By(p)),
                                  !.on = stack[p].on])
    /\ Return(p)
    /\ UNCHANGED <<now, items, subscriberNumber, paidFor, byHand, together>>

----
(* By hand: an administrator's toggle and renewal read before they write;  *)
(* the others are one write each.                                          *)
StartReadWrite(p, label) ==
    /\ ByHand
    /\ \E i \in Live :
        Begin(p, label, [SubFrame(label, subs[i].end, subs[i].quantity)
                             EXCEPT !.sub = i, !.on = ~subs[i].on])
    /\ UNCHANGED <<now, subs, items, subscriberNumber, paidFor, together, outdated>>

(* updateStatus.                                                           *)
Toggle(p) ==
    /\ pc[p] = "toggle"
    /\ WriteSub(Sub(p), [subs[Sub(p)] EXCEPT !.on = stack[p].on])
    /\ Return(p)
    /\ UNCHANGED <<now, items, subscriberNumber, paidFor, byHand, together, outdated>>

(* renewSubscription, by one cycle: no item, and the status stays.         *)
Renew(p) ==
    /\ pc[p] = "renew"
    /\ WriteSub(Sub(p), [subs[Sub(p)] EXCEPT !.end = stack[p].from + 1,
                                             !.quantity = stack[p].quantity + 1])
    /\ Return(p)
    /\ UNCHANGED <<now, items, subscriberNumber, paidFor, byHand, together, outdated>>

(* A request of a single write.                                            *)
ByHandAtOnce ==
    /\ ByHand
    /\ UNCHANGED <<reqVars, now, items, subscriberNumber, paidFor, together, outdated>>

Stop(i) == ByHandAtOnce /\ WriteSub(i, [subs[i] EXCEPT !.on = FALSE])

(* updateSubscription and editSubscription: whatever the client sends, here*)
(* a status and an end.                                                    *)
Edit(i) ==
    /\ ByHandAtOnce
    /\ \E on \in BOOLEAN : WriteSub(i, [subs[i] EXCEPT !.on = on, !.end = now])

Delete(i) == ByHandAtOnce /\ WriteSub(i, [subs[i] EXCEPT !.gone = TRUE])

----
\* Mutant: the cron takes every subscription that is switched on.
ReadActive == {i \in Live : subs[i].on}

(* getExpiredSubscriptions.                                                *)
ReadExpired == {i \in Live : subs[i].on /\ subs[i].end < now}

(* handleExpiredSubscriptions, under its lock: it reads the list, and then *)
(* switches off one after the other.                                       *)
StartCron(p) ==
    /\ \A q \in Procs : pc[q] # "cron"
    /\ ReadExpired # {}
    /\ Begin(p, "cron", [SubFrame("cron", now, 0) EXCEPT !.todo = ReadExpired])
    /\ UNCHANGED subOnly

Expire(p) ==
    /\ pc[p] = "cron"
    /\ LET i == Min(stack[p].todo)
       IN  /\ WriteSub(i, [subs[i] EXCEPT !.on = FALSE])
           /\ IF stack[p].todo = {i} THEN Return(p)
              ELSE JumpWith(p, "cron", [stack[p] EXCEPT !.todo = @ \ {i}])
    /\ UNCHANGED <<now, items, subscriberNumber, paidFor, byHand, together, outdated>>

(* A write that fails is caught, and the cron goes on with the next.       *)
FailToExpire(p) ==
    /\ pc[p] = "cron"
    /\ LET left == stack[p].todo \ {Min(stack[p].todo)}
       IN  IF left = {} THEN FaultyReturn(p, "write")
           ELSE /\ Faulty("write") /\ UNCHANGED pc
                /\ stack' = [stack EXCEPT ![p].todo = left]
    /\ UNCHANGED subOnly

Tick ==
    /\ now < MaxTime
    /\ now' = now + 1
    /\ UNCHANGED <<reqVars, subs, items, subscriberNumber, paidFor, byHand, together,
                   outdated>>

(* The instance stops, or a write throws.                                  *)
BreakOff(p) ==
    /\ pc[p] # "idle"
    /\ \/ FaultyReturn(p, "crash")
       \/ pc[p] \notin {"verify", "cron"} /\ FaultyReturn(p, "write")
    /\ UNCHANGED subOnly

SubscriptionNext ==
    \/ Tick
    \/ \E i \in Live : Stop(i) \/ Edit(i) \/ Delete(i)
    \/ \E p \in Procs :
        \/ \E t \in Payments, c \in 0..MaxTime : StartPaid(p, t, c)
        \/ \E on \in BOOLEAN : StartAdd(p, on)
        \/ \E label \in {"toggle", "renew"} : StartReadWrite(p, label)
        \/ StartLook(p) \/ Verify(p) \/ Lapse(p) \/ CreateSub(p) \/ Count(p) \/ ReadSub(p)
        \/ Sell(p) \/ Upgrade(p) \/ Toggle(p) \/ Renew(p)
        \/ StartCron(p) \/ Expire(p) \/ FailToExpire(p) \/ BreakOff(p)

SubscriptionSpec == SubscriptionInit /\ [][SubscriptionNext]_subscriptionVars

----
Handled(t) == t \in paidFor /\ \A p \in Procs : By(p) # t
AutomaticOnly == byHand = 0 /\ Serene

(* A second subscription of the user to the plan needs two handlers that   *)
(* looked for the first one at the same time (no index forbids it), or one *)
(* that was deleted.                                                       *)
OneSubscription == Cardinality(Live) <= 1 \/ together

(* Every payment has its period, the periods do not overlap, and the       *)
(* subscription lasts to the end of each: what one payment adds no other   *)
(* takes away (upgradeSubscription computes the end from what it has       *)
(* read).  It holds unless two payments are handled at once, or one while  *)
(* the subscription is being switched off as expired.                      *)
PaidPeriodsAddUp ==
    AutomaticOnly /\ ~together /\ ~outdated =>
        /\ \A t \in Payments : Handled(t) => \E x \in items : x.by = t
        /\ \A x, y \in items : x # y => x.to <= y.from \/ y.to <= x.from
        /\ \A x \in items : Handled(x.by) => subs[x.sub].end >= x.to

(* A subscription that is paid up is switched on: neither the cron nor a   *)
(* look at it ends it early, except by a write that was decided on before  *)
(* the subscription was prolonged.                                         *)
RunningIsOn ==
    AutomaticOnly /\ ~outdated =>
        \A i \in Live : subs[i].end > now => subs[i].on
====
