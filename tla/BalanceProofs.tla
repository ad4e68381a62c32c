---- MODULE BalanceProofs ----
(***************************************************************************)
(* Theorems about the components that move balances: SystemBalance,        *)
(* Spending and Reconcile, for any requests, handlers and amounts.         *)
(***************************************************************************)
EXTENDS SystemBalance, Spending, Reconcile, SumTheorems

----
(* The platform's own balance.                                             *)

PostMaps ==
    /\ DOMAIN pc = Procs /\ DOMAIN stack = Procs
    /\ DOMAIN movement = Keys /\ posted \in [Keys -> Nat]

(* A handler at work knows its key, and closes movements as unsuccessful.  *)
KeyKnown(p) == pc[p] # "idle" => KeyOf(p) \in Keys /\ stack[p].to # "completed"

(* Who is about to post has completed the movement, and nobody did before. *)
MayPost(p) == pc[p] = "inc" => movement[KeyOf(p)] = "completed" /\ posted[KeyOf(p)] = 0

(* One handler at a time is about to post under a key.                     *)
OnePoster(p, q) == pc[p] = "inc" /\ pc[q] = "inc" /\ p # q => KeyOf(p) # KeyOf(q)

(* A movement is completed before its amount is posted.                    *)
CompletedFirst(k) == posted[k] = 0 \/ (posted[k] = 1 /\ movement[k] = "completed")

PostInv ==
    /\ PostMaps
    /\ \A p \in Procs : KeyKnown(p) /\ MayPost(p)
    /\ \A p, q \in Procs : OnePoster(p, q)
    /\ \A k \in Keys : CompletedFirst(k)

LEMMA PostStart == SystemInit => PostInv
BY DEF SystemInit, RequestsInit, PostInv, PostMaps, KeyKnown, MayPost, OnePoster, CompletedFirst

----
(* A step of p that is not about to post, and leaves what is completed.    *)
PostQuiet(p) ==
    /\ DOMAIN pc' = Procs /\ DOMAIN stack' = Procs /\ DOMAIN movement' = Keys
    /\ pc'[p] # "inc"
    /\ pc'[p] # "idle" => stack'[p].subject \in Keys /\ stack'[p].to # "completed"
    /\ \A q \in Procs \ {p} : pc'[q] = pc[q] /\ stack'[q] = stack[q]
    /\ \A k \in Keys : movement[k] = "completed" => movement'[k] = "completed"
    /\ UNCHANGED posted

LEMMA PostQuietStep == ASSUME PostInv, NEW p \in Procs, PostQuiet(p) PROVE PostInv'
<1> USE DEF PostQuiet, KeyOf
<1>1. PostMaps'
  BY DEF PostInv, PostMaps
<1>2. \A q \in Procs : (KeyKnown(q) /\ MayPost(q))'
  <2> SUFFICES ASSUME NEW q \in Procs PROVE (KeyKnown(q) /\ MayPost(q))'
    OBVIOUS
  <2>1. CASE q = p
    BY <2>1 DEF KeyKnown, MayPost
  <2>2. CASE q # p
    BY <2>2 DEF PostInv, KeyKnown, MayPost
  <2> QED
    BY <2>1, <2>2
<1>3. \A q, r \in Procs : OnePoster(q, r)'
  BY DEF PostInv, OnePoster
<1>4. \A k \in Keys : CompletedFirst(k)'
  BY DEF PostInv, CompletedFirst
<1> QED
  BY <1>1, <1>2, <1>3, <1>4 DEF PostInv

(* A handler that completes a movement, and it alone, gets to post.        *)
LEMMA CompletionStep ==
    ASSUME PostInv, NEW p \in Procs,
           pc[p] # "idle", movement[KeyOf(p)] # "completed",
           movement' = [movement EXCEPT ![KeyOf(p)] = "completed"],
           Jump(p, "inc"), UNCHANGED posted
    PROVE  PostInv'
<1> USE DEF Jump, KeyOf
<1>1. PostMaps'
  BY DEF PostInv, PostMaps
<1>2. KeyOf(p) \in Keys /\ posted[KeyOf(p)] = 0
  BY DEF PostInv, KeyKnown, CompletedFirst
<1>3. \A q \in Procs : pc[q] = "inc" => KeyOf(q) # KeyOf(p)
  BY DEF PostInv, MayPost
<1>4. pc' = [pc EXCEPT ![p] = "inc"] /\ stack' = stack
  OBVIOUS
<1>5. \A q \in Procs : (KeyKnown(q) /\ MayPost(q))'
  <2> SUFFICES ASSUME NEW q \in Procs PROVE (KeyKnown(q) /\ MayPost(q))'
    OBVIOUS
  <2>1. CASE q = p
    BY <1>2, <1>4, <2>1 DEF KeyKnown, MayPost, PostInv, PostMaps
  <2>2. CASE q # p
    BY <1>3, <1>4, <2>2 DEF PostInv, PostMaps, KeyKnown, MayPost
  <2> QED
    BY <2>1, <2>2
<1>6. \A q, r \in Procs : OnePoster(q, r)'
  BY <1>3, <1>4 DEF PostInv, PostMaps, OnePoster
<1>7. \A k \in Keys : CompletedFirst(k)'
  BY DEF PostInv, PostMaps, CompletedFirst
<1> QED
  BY <1>1, <1>5, <1>6, <1>7 DEF PostInv

(* Where a posting that throws leaves its handler.                         *)
Goes(p, label) ==
    /\ pc' = [pc EXCEPT ![p] = label]
    /\ stack' = IF label = "idle" THEN [stack EXCEPT ![p] = NoStack] ELSE stack
    /\ label = "delete" => KeyOf(p)[1] = "withdraw"
    /\ label = "unmark" => KeyOf(p)[1] = "refund"

LEMMA ThrowGoes ==
    ASSUME NEW p, Throw(p)
    PROVE  Faulty("write") /\ \E label \in {"delete", "unmark", "idle"} : Goes(p, label)
<1> USE DEF Throw, FaultyJump, FaultyReturn, Goes
<1>1. CASE KeyOf(p)[1] = "withdraw"
  <2>1. Faulty("write") /\ Goes(p, "delete")
    BY <1>1
  <2> QED
    BY <2>1
<1>2. CASE KeyOf(p)[1] = "refund"
  <2>1. Faulty("write") /\ Goes(p, "unmark")
    BY <1>2
  <2> QED
    BY <2>1
<1>3. CASE KeyOf(p)[1] \notin {"withdraw", "refund"}
  <2>1. Faulty("write") /\ Goes(p, "idle")
    BY <1>3
  <2> QED
    BY <2>1
<1> QED
  BY <1>1, <1>2, <1>3

(* A handler changes the balance, and goes on with its answer or without.  *)
IncDone(p, label) ==
    /\ pc[p] = "inc" /\ PostTo(KeyOf(p))
    /\ label \in {"delete", "unmark", "idle"} /\ Goes(p, label)
    /\ UNCHANGED <<movement, sysTx>>

LEMMA IncIsDone ==
    ASSUME NEW p, Inc(p) \/ IncUnheard(p) PROVE \E label : IncDone(p, label)
<1>1. CASE Inc(p)
  <2>1. IncDone(p, "idle")
    BY <1>1 DEF Inc, Return, JumpWith, IncDone, Goes
  <2> QED
    BY <2>1
<1>2. CASE IncUnheard(p)
  BY <1>2, ThrowGoes DEF IncUnheard, IncDone
<1> QED
  BY <1>1, <1>2

LEMMA IncKeeps == ASSUME PostInv, NEW p \in Procs, NEW label, IncDone(p, label) PROVE PostInv'
<1> USE DEF IncDone, Goes, KeyOf
<1>1. KeyOf(p) \in Keys /\ movement[KeyOf(p)] = "completed" /\ posted[KeyOf(p)] = 0
  BY DEF PostInv, KeyKnown, MayPost
<1>2. posted' = posted \/ posted' = [posted EXCEPT ![KeyOf(p)] = @ + 1]
  BY DEF PostTo
<1>3. \A q \in Procs \ {p} : pc[q] = "inc" => KeyOf(q) # KeyOf(p)
  BY DEF PostInv, OnePoster
<1>4. /\ pc' = [pc EXCEPT ![p] = label] /\ label # "inc" /\ movement' = movement
      /\ label # "idle" => stack' = stack
      /\ \A q \in Procs \ {p} : pc'[q] = pc[q] /\ stack'[q] = stack[q]
      /\ DOMAIN stack' = DOMAIN stack
  OBVIOUS
<1>5. PostMaps'
  BY <1>1, <1>2, <1>4 DEF PostInv, PostMaps
<1>6. \A q \in Procs : (KeyKnown(q) /\ MayPost(q))'
  <2> SUFFICES ASSUME NEW q \in Procs PROVE (KeyKnown(q) /\ MayPost(q))'
    OBVIOUS
  <2>1. CASE q = p
    BY <1>4, <2>1 DEF KeyKnown, MayPost, PostInv, PostMaps
  <2>2. CASE q # p
    BY <1>2, <1>3, <1>4, <2>2 DEF PostInv, PostMaps, KeyKnown, MayPost
  <2> QED
    BY <2>1, <2>2
<1>7. \A q, r \in Procs : OnePoster(q, r)'
  BY <1>4 DEF PostInv, PostMaps, OnePoster
<1>8. \A k \in Keys : CompletedFirst(k)'
  BY <1>1, <1>2, <1>4 DEF PostInv, PostMaps, CompletedFirst
<1> QED
  BY <1>5, <1>6, <1>7, <1>8 DEF PostInv

----
(* Every other step is quiet, or completes a movement.                     *)
LEMMA PostStep == PostInv /\ [SystemNext]_systemVars => PostInv'
<1> SUFFICES ASSUME PostInv, [SystemNext]_systemVars PROVE PostInv'
  OBVIOUS
<1> USE DEF Begin, Jump, JumpWith, Return, FaultyReturn, FaultyJump, sysVars, KeyOf, About, Key
<1>1. /\ DOMAIN pc = Procs /\ DOMAIN stack = Procs /\ DOMAIN movement = Keys
      /\ \A p \in Procs : pc[p] # "idle" => stack[p].subject \in Keys /\ stack[p].to # "completed"
  BY DEF PostInv, PostMaps, KeyKnown
<1>2. ASSUME UNCHANGED <<pc, stack, movement, posted>> PROVE PostInv'
  BY <1>2 DEF PostInv, PostMaps, KeyKnown, MayPost, OnePoster, CompletedFirst
<1>3. CASE UNCHANGED systemVars
  BY <1>2, <1>3 DEF systemVars, reqVars
<1>4. CASE \/ \E r \in Recharges : Collect(r)
           \/ \E w \in Withdrawals : Approve(w) \/ Pay(w)
  BY <1>2, <1>4 DEF Collect, Approve, Pay, reqVars
<1>5. ASSUME NEW p \in Procs, NEW r \in Recharges,
             \/ StartRecharge(p, r) \/ StartProcess(p, r)
             \/ \E to \in {"failed", "cancelled"} : StartClose(p, r, to)
      PROVE  PostInv'
  <2>1. <<"payin", r>> \in Keys
    BY DEF Keys, InKeys
  <2>2. PostQuiet(p)
    BY <1>1, <1>5, <2>1 DEF StartRecharge, StartProcess, StartClose, PostQuiet
  <2> QED
    BY <2>2, PostQuietStep
<1>6. ASSUME NEW p \in Procs, NEW w \in Withdrawals, StartOrder(p, w) \/ StartRefund(p, w)
      PROVE  PostInv'
  <2>1. <<"withdraw", w>> \in Keys /\ <<"refund", w>> \in Keys
    BY DEF Keys, InKeys, OutKeys
  <2>2. PostQuiet(p)
    BY <1>1, <1>6, <2>1 DEF StartOrder, StartRefund, PostQuiet
  <2> QED
    BY <2>2, PostQuietStep
<1>7. ASSUME NEW p \in Procs, NEW a \in HandCredits \cup HandDebits, StartByHand(p, a)
      PROVE  PostInv'
  <2>1. <<"admin", a>> \in Keys
    BY DEF Keys, InKeys, OutKeys
  <2>2. PostQuiet(p)
    BY <1>1, <1>7, <2>1 DEF StartByHand, PostQuiet
  <2> QED
    BY <2>2, PostQuietStep
<1>8. ASSUME NEW p \in Procs, Complete(p) PROVE PostInv'
  <2>1. CASE movement[KeyOf(p)] \in {"none", "completed"}
    <3>1. PostQuiet(p)
      BY <1>1, <1>8, <2>1 DEF Complete, PostQuiet
    <3> QED
      BY <3>1, PostQuietStep
  <2>2. CASE movement[KeyOf(p)] \notin {"none", "completed"}
    BY <1>8, <2>2, CompletionStep DEF Complete
  <2> QED
    BY <2>1, <2>2
<1>9. ASSUME NEW p \in Procs, Insert(p) PROVE PostInv'
  <2>1. CASE movement[KeyOf(p)] # "none"
    <3>1. PostQuiet(p)
      BY <1>1, <1>9, <2>1 DEF Insert, PostQuiet
    <3> QED
      BY <3>1, PostQuietStep
  <2>2. CASE movement[KeyOf(p)] = "none"
    BY <1>9, <2>2, CompletionStep DEF Insert
  <2> QED
    BY <2>1, <2>2
<1>10. ASSUME NEW p \in Procs, PostingThrows(p) \/ MovementUnheard(p) PROVE PostInv'
  <2>1. /\ pc[p] # "idle" /\ UNCHANGED posted /\ DOMAIN movement' = Keys
        /\ \A k \in Keys : movement[k] = "completed" => movement'[k] = "completed"
    BY <1>1, <1>10 DEF PostingThrows, MovementUnheard, Posting
  <2>2. PICK label \in {"delete", "unmark", "idle"} : Goes(p, label)
    BY <1>10, ThrowGoes DEF PostingThrows, MovementUnheard
  <2>3. PostQuiet(p)
    BY <1>1, <2>1, <2>2 DEF PostQuiet, Goes
  <2> QED
    BY <2>3, PostQuietStep
<1>11. ASSUME NEW p \in Procs, CreatePending(p) \/ CloseMovement(p) PROVE PostInv'
  <2>1. PostQuiet(p)
    BY <1>1, <1>11 DEF CreatePending, CloseMovement, PostQuiet
  <2> QED
    BY <2>1, PostQuietStep
<1>12. ASSUME NEW p \in Procs,
              FindCompleted(p) \/ FailToCreatePending(p) \/ FailToOrder(p) \/ DeleteOrder(p)
              \/ UnmarkSystemRefund(p) \/ SystemCrash(p)
       PROVE  PostInv'
  <2>1. PostQuiet(p)
    BY <1>1, <1>12
       DEF FindCompleted, FailToCreatePending, FailToOrder, DeleteOrder, UnmarkSystemRefund,
           SystemCrash, PostQuiet
  <2> QED
    BY <2>1, PostQuietStep
<1>13. ASSUME NEW p \in Procs, ClaimRecharge(p) \/ Order(p) \/ MarkSystemRefund(p) PROVE PostInv'
  <2>1. PostQuiet(p)
    BY <1>1, <1>13 DEF ClaimRecharge, Order, MarkSystemRefund, PostQuiet
  <2> QED
    BY <2>1, PostQuietStep
<1>14. ASSUME NEW p \in Procs, Inc(p) \/ IncUnheard(p) PROVE PostInv'
  BY <1>14, IncIsDone, IncKeeps
<1> QED
  BY <1>3, <1>4, <1>5, <1>6, <1>7, <1>8, <1>9, <1>10, <1>11, <1>12, <1>13, <1>14 DEF SystemNext

LEMMA PostInvariant == SystemSpec => []PostInv
BY PostStart, PostStep, PTL DEF SystemSpec

(* Notices that come twice, retries, refunds and crashes change the        *)
(* balance at most once per key.                                           *)
THEOREM PostedAtMostOnce == SystemSpec => []PostedOnce
<1>1. PostInv => PostedOnce
  BY DEF PostInv, CompletedFirst, PostedOnce
<1> QED
  BY <1>1, PostInvariant, PTL

(* A recharge shown as failed or cancelled never reached the balance: the  *)
(* movement of an amount that did stays completed.                         *)
THEOREM ClosedNeverPosted == SystemSpec => []ClosedIsNotPosted
<1>1. PostInv => ClosedIsNotPosted
  BY DEF PostInv, CompletedFirst, ClosedIsNotPosted
<1> QED
  BY <1>1, PostInvariant, PTL

----
(* A fault is remembered: the behaviours of Serene take no faulty step.    *)
FaultCount == faults \in [Faults -> Nat]

LEMMA SystemFaultCount == SystemSpec => []FaultCount
<1>1. SystemInit => FaultCount
  BY DEF SystemInit, RequestsInit, FaultCount
<1>2. FaultCount /\ [SystemNext]_systemVars => FaultCount'
  BY DEF FaultCount, SystemNext, systemVars, reqVars, Collect, Approve, Pay, StartRecharge,
         StartProcess, StartClose, StartOrder, StartRefund, StartByHand, Complete, FindCompleted,
         Insert, Inc, PostingThrows, CreatePending, FailToCreatePending, ClaimRecharge,
         CloseMovement, Order, FailToOrder, DeleteOrder, MarkSystemRefund, UnmarkSystemRefund,
         SystemCrash, MovementUnheard, IncUnheard, Throw, Begin, Jump, JumpWith, Return,
         FaultyReturn, FaultyJump, Faulty
<1> QED
  BY <1>1, <1>2, PTL DEF SystemSpec

LEMMA FaultIsSeen ==
    ASSUME FaultCount, NEW k, Faulty(k) PROVE ~Serene'
BY DEF FaultCount, Faulty, Serene

LEMMA SereneBefore ==
    ASSUME FaultCount, Serene', \/ UNCHANGED faults
                                \/ \E k \in Faults : faults' = [faults EXCEPT ![k] = @ + 1]
    PROVE  Serene
BY DEF FaultCount, Serene


----
(* A step under Serene' is not faulty, so that a handler that is about to  *)
(* post gets to.                                                           *)
Calm == Serene /\ Serene' /\ \A k : ~Faulty(k)

LEMMA SereneIsCalm ==
    ASSUME FaultCount, Serene', [SystemNext]_systemVars PROVE Calm
<1>1. \A k : ~Faulty(k)
  BY FaultIsSeen
<1>2. UNCHANGED faults
  BY <1>1
     DEF SystemNext, systemVars, reqVars, Collect, Approve, Pay, StartRecharge,
         StartProcess, StartClose, StartOrder, StartRefund, StartByHand, Complete, FindCompleted,
         Insert, Inc, PostingThrows, CreatePending, FailToCreatePending, ClaimRecharge,
         CloseMovement, Order, FailToOrder, DeleteOrder, MarkSystemRefund, UnmarkSystemRefund,
         SystemCrash, MovementUnheard, IncUnheard, Throw, Begin, Jump, JumpWith, Return,
         FaultyReturn, FaultyJump
<1> QED
  BY <1>1, <1>2, SereneBefore DEF Calm

(* No key is for a credit and for a debit.                                 *)
LEMMA InOrOut == InKeys \cap OutKeys = {}
BY SystemKindsAssumption DEF InKeys, OutKeys, Key

(* A posting changes the balance, or its debit is not covered.             *)
LEMMA PostingCounts ==
    ASSUME PostInv, DOMAIN unposted = Keys, NEW k \in Keys, PostTo(k), posted[k] = 0
    PROVE  posted'[k] = 1 \/ (unposted'[k] = "uncovered" /\ k \in OutKeys)
BY DEF PostTo, Miss, PostInv, PostMaps

(* A movement that is completed has changed the balance, or says why not.  *)
Accounted(k) ==
    \/ posted[k] = 1 \/ Changing(k)
    \/ unposted[k] = "interrupted" /\ ~Serene
    \/ unposted[k] = "uncovered" /\ k \in OutKeys

CompletedInv ==
    /\ DOMAIN unposted = Keys
    /\ \A k \in Keys : movement[k] = "completed" => Accounted(k)

LEMMA CompletedStep ==
    PostInv /\ FaultCount /\ CompletedInv /\ [SystemNext]_systemVars => CompletedInv'
<1> SUFFICES ASSUME PostInv, FaultCount, CompletedInv, [SystemNext]_systemVars
             PROVE  CompletedInv'
  OBVIOUS
<1> USE DEF Begin, Jump, JumpWith, Return, FaultyReturn, FaultyJump, sysVars, KeyOf, About, Key
<1>1. Serene' => Serene
  BY SereneIsCalm DEF Calm
<1>2. /\ \A k \in Keys : movement[k] = "completed" => Accounted(k)
      /\ DOMAIN movement = Keys /\ DOMAIN pc = Procs /\ DOMAIN stack = Procs
      /\ DOMAIN unposted = Keys
      /\ \A p \in Procs : pc[p] # "idle" => KeyOf(p) \in Keys /\ stack[p].to # "completed"
  BY DEF CompletedInv, PostInv, PostMaps, KeyKnown
(* A key whose movement the step does not complete, nor its last handler   *)
(* leaves.                                                                 *)
<1>3. ASSUME NEW k \in Keys,
             movement'[k] = "completed" => movement[k] = "completed",
             posted'[k] = posted[k], unposted'[k] = unposted[k],
             \A q \in Procs : pc[q] = "inc" /\ KeyOf(q) = k => pc'[q] = "inc" /\ stack'[q] = stack[q]
      PROVE  movement'[k] = "completed" => Accounted(k)'
  BY <1>1, <1>2, <1>3 DEF Accounted, Changing
<1>4. ASSUME UNCHANGED <<posted, unposted>>,
             \A k \in Keys : movement'[k] = "completed" => movement[k] = "completed",
             \A q \in Procs : pc[q] = "inc" => pc'[q] = "inc" /\ stack'[q] = stack[q]
      PROVE  CompletedInv'
  BY <1>2, <1>3, <1>4 DEF CompletedInv
<1>5. CASE UNCHANGED systemVars
  BY <1>4, <1>5 DEF systemVars, reqVars
<1>6. CASE \/ \E r \in Recharges : Collect(r)
           \/ \E w \in Withdrawals : Approve(w) \/ Pay(w)
  BY <1>4, <1>6 DEF Collect, Approve, Pay, reqVars
<1>7. ASSUME NEW p \in Procs,
             \/ \E r \in Recharges :
                  \/ StartRecharge(p, r) \/ StartProcess(p, r)
                  \/ \E to \in {"failed", "cancelled"} : StartClose(p, r, to)
             \/ \E w \in Withdrawals : StartOrder(p, w) \/ StartRefund(p, w)
             \/ \E a \in HandCredits \cup HandDebits : StartByHand(p, a)
      PROVE  CompletedInv'
  <2> USE DEF StartRecharge, StartProcess, StartClose, StartOrder, StartRefund, StartByHand
  <2>1. UNCHANGED <<movement, posted, unposted>>
    BY <1>7
  <2>2. \A q \in Procs : pc[q] = "inc" => pc'[q] = "inc" /\ stack'[q] = stack[q]
    BY <1>2, <1>7
  <2> QED
    BY <1>4, <2>1, <2>2
<1>8. ASSUME NEW p \in Procs, Complete(p) \/ Insert(p) PROVE CompletedInv'
  <2> USE DEF Complete, Insert
  <2>1. \A q \in Procs : pc[q] = "inc" => pc'[q] = "inc" /\ stack'[q] = stack[q]
    BY <1>2, <1>8
  <2>2. PICK key \in Keys : key = KeyOf(p)
    BY <1>2, <1>8
  <2>0. UNCHANGED <<posted, unposted>>
    BY <1>8
  <2>3. CASE movement' = movement
    BY <1>4, <2>0, <2>1, <2>3
  <2>4. CASE movement' # movement
    <3>1. pc'[p] = "inc" /\ stack'[p] = stack[p]
      BY <1>2, <1>8, <2>4
    <3>2. \A k \in Keys \ {key} : movement'[k] = movement[k]
      BY <1>2, <1>8, <2>2, <2>4
    <3>3. Accounted(key)'
      BY <2>2, <3>1 DEF Accounted, Changing
    <3>4. \A k \in Keys \ {key} : movement'[k] = "completed" => Accounted(k)'
      BY <1>3, <2>0, <2>1, <3>2
    <3> QED
      BY <1>2, <2>0, <3>3, <3>4 DEF CompletedInv
  <2> QED
    BY <2>3, <2>4
<1>9. ASSUME NEW p \in Procs, Inc(p) \/ IncUnheard(p) PROVE CompletedInv'
  <2>1. PICK label : IncDone(p, label)
    BY <1>9, IncIsDone
  <2>2. PICK key \in Keys : key = KeyOf(p) /\ posted[key] = 0
    BY <2>1 DEF IncDone, PostInv, KeyKnown, MayPost
  <2>3. Accounted(key)'
    BY <1>2, <2>1, <2>2, PostingCounts DEF IncDone, Accounted
  <2>4. \A q \in Procs \ {p} : pc'[q] = pc[q] /\ stack'[q] = stack[q]
    BY <2>1 DEF IncDone, Goes
  <2>5. /\ movement' = movement /\ DOMAIN unposted' = Keys
        /\ \A k \in Keys \ {key} : posted'[k] = posted[k] /\ unposted'[k] = unposted[k]
    BY <1>2, <2>1, <2>2 DEF IncDone, PostTo, Miss, PostInv, PostMaps
  <2>6. \A k \in Keys \ {key} : movement'[k] = "completed" => Accounted(k)'
    BY <1>3, <2>2, <2>4, <2>5
  <2> QED
    BY <2>3, <2>5, <2>6 DEF CompletedInv
(* The change is left out for good: the fault is in the books.             *)
<1>10. ASSUME NEW p \in Procs, PostingThrows(p) \/ MovementUnheard(p) \/ SystemCrash(p)
       PROVE  CompletedInv'
  <2>1. /\ ~Serene'
        /\ \A q \in Procs \ {p} : pc'[q] = pc[q] /\ stack'[q] = stack[q]
    <3>1. CASE PostingThrows(p) \/ MovementUnheard(p)
      <4>1. Faulty("write") /\ \E label : Goes(p, label)
        BY <3>1, ThrowGoes DEF PostingThrows, MovementUnheard
      <4> QED
        BY <4>1, FaultIsSeen DEF Goes
    <3>2. CASE SystemCrash(p)
      BY <3>2, FaultIsSeen DEF SystemCrash
    <3> QED
      BY <1>10, <3>1, <3>2
  <2>0. PICK key \in Keys : key = KeyOf(p)
    BY <1>2, <1>10 DEF PostingThrows, MovementUnheard, SystemCrash, Posting
  <2>2. /\ posted' = posted
        /\ \A k \in Keys \ {key} : movement'[k] = movement[k]
        /\ Miss(key, "interrupted")
           \/ (pc[p] # "inc" /\ unposted' = unposted /\ movement' = movement)
    BY <1>2, <1>10, <2>0 DEF PostingThrows, MovementUnheard, SystemCrash, LeaveOut, Posting
  <2>3. \A k \in Keys \ {key} : unposted'[k] = unposted[k]
    BY <1>2, <2>2 DEF Miss
  <2>4. DOMAIN unposted' = Keys
    BY <1>2, <2>2 DEF Miss
  <2>5. \A k \in Keys \ {key} : movement'[k] = "completed" => Accounted(k)'
    BY <1>3, <2>0, <2>1, <2>2, <2>3
  <2>6. movement'[key] = "completed" => Accounted(key)'
    <3>1. CASE Miss(key, "interrupted")
      BY <1>2, <2>1, <2>2, <3>1 DEF Accounted, Miss
    <3>2. CASE pc[p] # "inc" /\ unposted' = unposted /\ movement' = movement
      <4>1. \A q \in Procs : pc[q] = "inc" => pc'[q] = "inc" /\ stack'[q] = stack[q]
        BY <2>1, <3>2
      <4> QED
        BY <1>3, <2>2, <3>2, <4>1
    <3> QED
      BY <2>2, <3>1, <3>2
  <2> QED
    BY <2>4, <2>5, <2>6 DEF CompletedInv
<1>11. ASSUME NEW p \in Procs, CreatePending(p) \/ CloseMovement(p) PROVE CompletedInv'
  <2>1. \A k \in Keys : movement'[k] = "completed" => movement[k] = "completed"
    BY <1>2, <1>11 DEF CreatePending, CloseMovement
  <2>2. \A q \in Procs : pc[q] = "inc" => pc'[q] = "inc" /\ stack'[q] = stack[q]
    BY <1>2, <1>11 DEF CreatePending, CloseMovement
  <2> QED
    BY <1>4, <1>11, <2>1, <2>2 DEF CreatePending, CloseMovement
<1>12. ASSUME NEW p \in Procs,
              \/ FindCompleted(p) \/ ClaimRecharge(p) \/ Order(p) \/ DeleteOrder(p)
              \/ MarkSystemRefund(p) \/ UnmarkSystemRefund(p)
              \/ FailToCreatePending(p) \/ FailToOrder(p)
       PROVE  CompletedInv'
  <2> USE DEF FindCompleted, ClaimRecharge, Order, DeleteOrder, MarkSystemRefund,
              UnmarkSystemRefund, FailToCreatePending, FailToOrder
  <2>1. UNCHANGED <<movement, posted, unposted>>
    BY <1>12
  <2>2. \A q \in Procs : pc[q] = "inc" => pc'[q] = "inc" /\ stack'[q] = stack[q]
    BY <1>2, <1>12
  <2> QED
    BY <1>4, <2>1, <2>2
<1> QED
  BY <1>5, <1>6, <1>7, <1>8, <1>9, <1>10, <1>11, <1>12 DEF SystemNext

(* A movement shown as completed has changed the balance, unless its debit *)
(* was not covered, or a fault came between its two writes.                *)
THEOREM CompletedMovementsPosted == SystemSpec => []CompletedIsPosted
<1>1. SystemInit => CompletedInv
  BY DEF SystemInit, CompletedInv
<1>2. CompletedInv => CompletedIsPosted
  BY DEF CompletedInv, Accounted, CompletedIsPosted
<1> QED
  BY <1>1, <1>2, CompletedStep, PostInvariant, SystemFaultCount, PTL DEF SystemSpec

----
(* Withdrawals: one handler orders each, and until it has posted the debit *)
(* the balance it read is there, or another debit took it.                 *)
WithdrawKey(w) == <<"withdraw", w>>
Withdraws(p) == pc[p] # "idle" /\ KeyOf(p)[1] = "withdraw"
Outgone == {"waiting", "paying", "paid"}
Lost(w) == \E k \in OutKeys \ {WithdrawKey(w)} : posted[k] = 1

BalanceTypes ==
    /\ systemBalance \in Int
    /\ DOMAIN sysTx = Recharges \cup Withdrawals

(* The labels of recharges and refunds have keys of their own.             *)
KeyFitsLabel(p) ==
    /\ pc[p] \in {"create", "claim", "close"} => KeyOf(p)[1] = "payin"
    /\ pc[p] \in {"mark", "unmark"} => KeyOf(p)[1] = "refund"
    /\ pc[p] \in {"order", "delete"} => KeyOf(p)[1] = "withdraw"

OrderKnown(p) ==
    \A w \in Withdrawals : pc[p] # "idle" /\ KeyOf(p) = WithdrawKey(w) =>
        /\ pc[p] = "order" <=> sysTx[w] = "none"
        /\ pc[p] \in {"order", "complete", "find", "insert"} => movement[WithdrawKey(w)] = "none"
        /\ pc[p] # "delete" => systemBalance >= Amount(w) \/ Lost(w)

OrderedByOne(p, q) == Withdraws(p) /\ Withdraws(q) /\ p # q => KeyOf(p) # KeyOf(q)

NotYetMoved(w) == sysTx[w] = "none" => movement[WithdrawKey(w)] = "none"

LostARace(w) == Serene /\ sysTx[w] \in Outgone /\ ~Ordering(w) => Funded(w) \/ Lost(w)

OrderInv ==
    /\ BalanceTypes
    /\ \A p \in Procs : KeyFitsLabel(p) /\ OrderKnown(p)
    /\ \A p, q \in Procs : OrderedByOne(p, q)
    /\ \A w \in Withdrawals : NotYetMoved(w) /\ LostARace(w)

LEMMA OrderStart == SystemInit => OrderInv
BY OpeningAssumption
   DEF SystemInit, RequestsInit, OrderInv, BalanceTypes, KeyFitsLabel, OrderKnown, OrderedByOne,
       Withdraws, NotYetMoved, LostARace, WithdrawKey, Keys, OutKeys, Key, Outgone

(* A step of p that has nothing to do with withdrawals.                    *)
Elsewhere(p) ==
    /\ \A q \in Procs \ {p} : pc'[q] = pc[q] /\ stack'[q] = stack[q]
    /\ Withdraws(p) \/ KeyFitsLabel(p)'
    /\ ~Withdraws(p) /\ ~Withdraws(p)'
    /\ DOMAIN sysTx' = Recharges \cup Withdrawals
    /\ \A w \in Withdrawals :
        /\ sysTx'[w] = "none" <=> sysTx[w] = "none"
        /\ sysTx'[w] \in Outgone => sysTx[w] \in Outgone
        /\ movement'[WithdrawKey(w)] = movement[WithdrawKey(w)]
    /\ UNCHANGED <<systemBalance, posted>>

LEMMA ElsewhereStep ==
    ASSUME PostInv, OrderInv, FaultCount, [SystemNext]_systemVars,
           NEW p \in Procs, Elsewhere(p)
    PROVE  OrderInv'
<1> USE DEF Elsewhere, Withdraws, KeyOf
<1>0. Serene' => Serene
  BY SereneIsCalm DEF Calm
<1>1. BalanceTypes'
  BY DEF OrderInv, BalanceTypes
<1>2. \A w \in Withdrawals : Lost(w)' <=> Lost(w)
  BY DEF Lost
<1>3. \A q \in Procs : (KeyFitsLabel(q) /\ OrderKnown(q))'
  <2> SUFFICES ASSUME NEW q \in Procs PROVE (KeyFitsLabel(q) /\ OrderKnown(q))'
    OBVIOUS
  <2>1. CASE q = p
    BY <2>1 DEF OrderKnown, WithdrawKey
  <2>2. CASE q # p
    <3>1. KeyFitsLabel(q) /\ OrderKnown(q) /\ pc'[q] = pc[q] /\ stack'[q] = stack[q]
      BY <2>2 DEF OrderInv
    <3> QED
      BY <1>2, <3>1 DEF KeyFitsLabel, OrderKnown
  <2> QED
    BY <2>1, <2>2
<1>4. \A q, r \in Procs : OrderedByOne(q, r)'
  BY DEF OrderInv, OrderedByOne
<1>5. ASSUME NEW w \in Withdrawals PROVE NotYetMoved(w)' /\ LostARace(w)'
  <2>1. Ordering(w) => Ordering(w)'
    BY DEF Ordering, Key, Posting
  <2> QED
    BY <1>0, <1>2, <2>1 DEF OrderInv, NotYetMoved, LostARace, Funded
<1> QED
  BY <1>1, <1>3, <1>4, <1>5 DEF OrderInv

(* A step of the handler of withdrawal w, other than the posting itself.   *)
OwnMove(p, w) ==
    /\ pc[p] # "idle" /\ KeyOf(p) = WithdrawKey(w)
    /\ \A q \in Procs \ {p} : pc'[q] = pc[q] /\ stack'[q] = stack[q]
    /\ pc'[p] = "idle" \/ stack'[p] = stack[p]
    /\ UNCHANGED <<systemBalance, posted>>
    /\ DOMAIN sysTx' = Recharges \cup Withdrawals
    /\ \A v \in Withdrawals \ {w} : /\ sysTx'[v] = sysTx[v]
                                    /\ movement'[WithdrawKey(v)] = movement[WithdrawKey(v)]
    /\ KeyFitsLabel(p)' /\ OrderKnown(p)' /\ NotYetMoved(w)' /\ LostARace(w)'

LEMMA OwnStep ==
    ASSUME PostInv, OrderInv, FaultCount, [SystemNext]_systemVars,
           NEW p \in Procs, NEW w \in Withdrawals, OwnMove(p, w)
    PROVE  OrderInv'
<1> USE DEF OwnMove, Withdraws, KeyOf
<1>0. Serene' => Serene
  BY SereneIsCalm DEF Calm
<1>1. BalanceTypes'
  BY DEF OrderInv, BalanceTypes
<1>2. \A v \in Withdrawals : Lost(v)' <=> Lost(v)
  BY DEF Lost
<1>3. ASSUME NEW q \in Procs \ {p} PROVE KeyFitsLabel(q)' /\ OrderKnown(q)'
  <2>1. KeyFitsLabel(q) /\ OrderKnown(q) /\ OrderedByOne(p, q)
    BY DEF OrderInv
  <2>2. pc[q] # "idle" => KeyOf(q) # WithdrawKey(w)
    BY <2>1 DEF OrderedByOne, WithdrawKey
  <2> QED
    BY <1>2, <2>1, <2>2 DEF KeyFitsLabel, OrderKnown
<1>4. \A q, r \in Procs : OrderedByOne(q, r)'
  BY DEF OrderInv, OrderedByOne
<1>5. ASSUME NEW v \in Withdrawals \ {w} PROVE NotYetMoved(v)' /\ LostARace(v)'
  <2>1. Ordering(v) => Ordering(v)'
    BY DEF Ordering, Key, WithdrawKey
  <2> QED
    BY <1>0, <1>2, <2>1 DEF OrderInv, NotYetMoved, LostARace, Funded
<1> QED
  BY <1>1, <1>3, <1>4, <1>5 DEF OrderInv

(* What is known of the handler of w before it takes a step.               *)
LEMMA OwnerKnows ==
    ASSUME PostInv, OrderInv, NEW p \in Procs, pc[p] # "idle", KeyOf(p)[1] = "withdraw"
    PROVE  \E w \in Withdrawals :
             /\ KeyOf(p) = WithdrawKey(w) /\ WithdrawKey(w) \in Keys
             /\ pc[p] \notin {"create", "claim", "close", "mark", "unmark"}
             /\ pc[p] = "order" <=> sysTx[w] = "none"
             /\ pc[p] \in {"order", "complete", "find", "insert"}
                => movement[WithdrawKey(w)] = "none"
             /\ pc[p] # "delete" => systemBalance >= Amount(w) \/ Lost(w)
<1>1. KeyOf(p) \in Keys
  BY DEF PostInv, KeyKnown
<1>2. PICK w \in Withdrawals : KeyOf(p) = WithdrawKey(w)
  BY <1>1 DEF Keys, InKeys, OutKeys, Key, WithdrawKey
<1>3. KeyFitsLabel(p) /\ OrderKnown(p)
  BY DEF OrderInv
<1> QED
  BY <1>1, <1>2, <1>3 DEF KeyFitsLabel, OrderKnown

(* The debit of a withdrawal is the only step that can leave it unfunded.  *)
LEMMA IncOrders ==
    ASSUME PostInv, OrderInv, FaultCount, [SystemNext]_systemVars,
           NEW p \in Procs, NEW label, IncDone(p, label)
    PROVE  OrderInv'
<1> USE DEF IncDone, Goes, KeyOf, Withdraws
<1>0. Serene' => Serene
  BY SereneIsCalm DEF Calm
<1> DEFINE k == KeyOf(p)
<1>1. /\ k \in Keys /\ posted[k] = 0 /\ posted \in [Keys -> Nat] /\ systemBalance \in Int
      /\ pc' = [pc EXCEPT ![p] = label]
      /\ stack' = IF label = "idle" THEN [stack EXCEPT ![p] = NoStack] ELSE stack
      /\ DOMAIN pc = Procs /\ DOMAIN stack = Procs /\ UNCHANGED <<movement, sysTx>>
  BY DEF PostInv, PostMaps, KeyKnown, MayPost, OrderInv, BalanceTypes
<1>2. /\ \A x \in Recharges \cup Withdrawals \cup HandCredits \cup HandDebits : Amount(x) \in Nat
      /\ k[2] \in Recharges \cup Withdrawals \cup HandCredits \cup HandDebits
  BY <1>1, SystemAmountAssumption DEF Keys, InKeys, OutKeys, Key
<1>3. systemBalance' \in Int /\ posted' \in [Keys -> Nat]
  BY <1>1, <1>2 DEF PostTo
<1>4. \A j \in Keys : posted[j] = 1 => posted'[j] = 1
  BY <1>1 DEF PostTo
<1>5. \A v \in Withdrawals : Lost(v) => Lost(v)'
  BY <1>4 DEF Lost, Keys
<1>6. \A v \in Withdrawals : k # WithdrawKey(v) =>
        systemBalance' >= systemBalance \/ Lost(v)'
  BY <1>1, <1>2 DEF PostTo, Lost, Keys
<1>7. \A q \in Procs \ {p} : /\ pc'[q] = pc[q] /\ stack'[q] = stack[q]
                             /\ pc[q] # "idle" => KeyOf(q) # k \/ k[1] # "withdraw"
  BY <1>1 DEF OrderInv, OrderedByOne
<1>8. \A q \in Procs : (KeyFitsLabel(q) /\ OrderKnown(q))'
  <2> SUFFICES ASSUME NEW q \in Procs PROVE (KeyFitsLabel(q) /\ OrderKnown(q))'
    OBVIOUS
  <2>1. CASE q = p
    <3>1. OrderKnown(p)
      BY DEF OrderInv
    <3>2. pc'[p] = label /\ (label # "idle" => stack'[p] = stack[p])
      BY <1>1
    <3>3. KeyFitsLabel(p)'
      BY <3>2 DEF KeyFitsLabel
    <3>4. OrderKnown(p)'
      BY <1>1, <3>1, <3>2 DEF OrderKnown, WithdrawKey
    <3> QED
      BY <2>1, <3>3, <3>4
  <2>2. CASE q # p
    <3>1. KeyFitsLabel(q) /\ OrderKnown(q)
      BY DEF OrderInv
    <3>2. KeyFitsLabel(q)'
      BY <1>7, <2>2, <3>1 DEF KeyFitsLabel
    <3>3. ASSUME NEW v \in Withdrawals, pc[q] # "idle", KeyOf(q) = WithdrawKey(v),
                 pc[q] # "delete"
          PROVE  systemBalance' >= Amount(v) \/ Lost(v)'
      <4>1. k # WithdrawKey(v)
        BY <1>7, <2>2, <3>3 DEF WithdrawKey
      <4>2. systemBalance >= Amount(v) \/ Lost(v)
        BY <3>1, <3>3 DEF OrderKnown
      <4> QED
        BY <1>1, <1>2, <1>3, <1>5, <1>6, <4>1, <4>2
    <3> QED
      BY <1>1, <1>7, <2>2, <3>1, <3>2, <3>3 DEF OrderKnown
  <2> QED
    BY <2>1, <2>2
<1>9. \A q, r \in Procs : OrderedByOne(q, r)'
  BY <1>1, <1>7 DEF OrderInv, OrderedByOne
<1>10. ASSUME NEW w \in Withdrawals PROVE NotYetMoved(w)' /\ LostARace(w)'
  <2>1. NotYetMoved(w)'
    BY <1>1 DEF OrderInv, NotYetMoved
  <2>2. Funded(w) => Funded(w)'
    BY <1>4 DEF Funded, Keys, OutKeys, Key
  <2>3. CASE k = WithdrawKey(w)
    <3>1. systemBalance >= Amount(w) \/ Lost(w)
      BY <2>3, <1>1 DEF OrderInv, OrderKnown
    <3>2. Funded(w)' \/ Lost(w)'
      <4>1. CASE systemBalance >= Amount(w)
        <5>1. k[2] = w /\ Amount(w) \in Nat
          BY <1>2, <2>3 DEF WithdrawKey
        <5>2. posted' = [posted EXCEPT ![k] = @ + 1]
          BY <1>1, <4>1, <5>1 DEF PostTo
        <5> QED
          BY <1>1, <2>3, <5>2 DEF Funded, Key, WithdrawKey
      <4> QED
        BY <1>5, <3>1, <4>1
    <3> QED
      BY <2>1, <3>2 DEF LostARace
  <2>4. CASE k # WithdrawKey(w)
    <3>1. Ordering(w) => Ordering(w)'
      BY <1>7, <2>4 DEF Ordering, Key, WithdrawKey
    <3> QED
      BY <1>0, <1>1, <1>5, <2>1, <2>2, <3>1 DEF OrderInv, LostARace
  <2> QED
    BY <2>3, <2>4
<1> QED
  BY <1>1, <1>3, <1>8, <1>9, <1>10 DEF OrderInv, BalanceTypes

LEMMA StartOrderOrders ==
    ASSUME PostInv, OrderInv, FaultCount, [SystemNext]_systemVars,
           NEW p \in Procs, NEW w \in Withdrawals, StartOrder(p, w)
    PROVE  OrderInv'
<1> USE DEF StartOrder, Begin, sysVars, KeyOf, Withdraws, TxOf, About, Key
<1>0. Serene' => Serene
  BY SereneIsCalm DEF Calm
<1>1. /\ DOMAIN pc = Procs /\ DOMAIN stack = Procs /\ pc[p] = "idle"
      /\ pc' = [pc EXCEPT ![p] = "order"]
      /\ stack'[p].subject = WithdrawKey(w)
      /\ \A q \in Procs \ {p} : pc'[q] = pc[q] /\ stack'[q] = stack[q]
      /\ UNCHANGED <<systemBalance, movement, posted, sysTx>>
      /\ sysTx[w] = "none" /\ systemBalance >= Amount(w)
  BY DEF PostInv, PostMaps, WithdrawKey
<1>2. \A q \in Procs : pc[q] # "idle" => KeyOf(q) # WithdrawKey(w)
  <2> SUFFICES ASSUME NEW q \in Procs, pc[q] # "idle", KeyOf(q) = WithdrawKey(w) PROVE FALSE
    OBVIOUS
  <2>1. pc[q] = "order"
    BY <1>1 DEF OrderInv, OrderKnown
  <2> QED
    BY <2>1 DEF WithdrawKey
<1>3. \A q \in Procs : (KeyFitsLabel(q) /\ OrderKnown(q))'
  <2> SUFFICES ASSUME NEW q \in Procs PROVE (KeyFitsLabel(q) /\ OrderKnown(q))'
    OBVIOUS
  <2>1. CASE q = p
    BY <1>1, <2>1 DEF KeyFitsLabel, OrderKnown, OrderInv, NotYetMoved, WithdrawKey
  <2>2. CASE q # p
    <3>1. KeyFitsLabel(q) /\ OrderKnown(q)
      BY DEF OrderInv
    <3> QED
      BY <1>1, <2>2, <3>1 DEF KeyFitsLabel, OrderKnown, Lost
  <2> QED
    BY <2>1, <2>2
<1>4. \A q, r \in Procs : OrderedByOne(q, r)'
  BY <1>1, <1>2 DEF OrderInv, OrderedByOne
<1>5. ASSUME NEW v \in Withdrawals PROVE NotYetMoved(v)' /\ LostARace(v)'
  <2>1. Ordering(v) => Ordering(v)'
    BY <1>1 DEF Ordering, Posting
  <2> QED
    BY <1>0, <1>1, <2>1 DEF OrderInv, NotYetMoved, LostARace, Funded, Lost
<1> QED
  BY <1>1, <1>3, <1>4, <1>5 DEF OrderInv, BalanceTypes

(* Recharges, refunds and postings by hand leave withdrawals alone; every  *)
(* other step belongs to the handler of one withdrawal.                    *)
LEMMA OrderStep ==
    PostInv /\ OrderInv /\ FaultCount /\ [SystemNext]_systemVars => OrderInv'
<1> SUFFICES ASSUME PostInv, OrderInv, FaultCount, [SystemNext]_systemVars PROVE OrderInv'
  OBVIOUS
<1> USE DEF Begin, Jump, JumpWith, Return, FaultyReturn, FaultyJump, sysVars, KeyOf, About, Key,
            TxOf, WithdrawKey
<1>0. /\ DOMAIN pc = Procs /\ DOMAIN stack = Procs /\ DOMAIN movement = Keys
      /\ DOMAIN sysTx = Recharges \cup Withdrawals
      /\ Recharges \cap Withdrawals = {}
  BY SystemKindsAssumption DEF PostInv, PostMaps, OrderInv, BalanceTypes
<1>1. ASSUME UNCHANGED <<systemBalance, pc, stack, movement, posted>>,
             DOMAIN sysTx' = Recharges \cup Withdrawals,
             \A w \in Withdrawals : /\ sysTx'[w] = "none" <=> sysTx[w] = "none"
                                    /\ sysTx'[w] \in Outgone => sysTx[w] \in Outgone
      PROVE  OrderInv'
  <2>0. Serene' => Serene
    BY SereneIsCalm DEF Calm
  <2>1. \A w \in Withdrawals : /\ Lost(w)' <=> Lost(w)
                               /\ Funded(w)' <=> Funded(w)
                               /\ Ordering(w)' <=> Ordering(w)
    BY <1>1 DEF Lost, Funded, Ordering
  <2>2. BalanceTypes' /\ \A p, q \in Procs : OrderedByOne(p, q)'
    BY <1>1 DEF OrderInv, BalanceTypes, OrderedByOne, Withdraws
  <2>3. \A p \in Procs : (KeyFitsLabel(p) /\ OrderKnown(p))'
    BY <1>1, <2>1 DEF OrderInv, KeyFitsLabel, OrderKnown
  <2>4. \A w \in Withdrawals : (NotYetMoved(w) /\ LostARace(w))'
    BY <1>1, <2>0, <2>1 DEF OrderInv, NotYetMoved, LostARace
  <2> QED
    BY <2>2, <2>3, <2>4 DEF OrderInv
<1>2. CASE UNCHANGED systemVars
  BY <1>0, <1>1, <1>2 DEF systemVars, reqVars
<1>3. CASE \/ \E r \in Recharges : Collect(r)
           \/ \E w \in Withdrawals : Approve(w) \/ Pay(w)
  BY <1>0, <1>1, <1>3 DEF Collect, Approve, Pay, reqVars, Outgone
<1>4. ASSUME NEW p \in Procs, NEW r \in Recharges,
             \/ StartRecharge(p, r) \/ StartProcess(p, r)
             \/ \E to \in {"failed", "cancelled"} : StartClose(p, r, to)
      PROVE  OrderInv'
  <2>1. Elsewhere(p)
    BY <1>0, <1>4
       DEF StartRecharge, StartProcess, StartClose, Elsewhere, Withdraws, KeyFitsLabel, Outgone
  <2> QED
    BY <2>1, ElsewhereStep
<1>5. ASSUME NEW p \in Procs, NEW w \in Withdrawals, StartRefund(p, w) PROVE OrderInv'
  <2>1. Elsewhere(p)
    BY <1>0, <1>5 DEF StartRefund, Elsewhere, Withdraws, KeyFitsLabel, Outgone
  <2> QED
    BY <2>1, ElsewhereStep
<1>6. ASSUME NEW p \in Procs, NEW a \in HandCredits \cup HandDebits, StartByHand(p, a)
      PROVE  OrderInv'
  <2>1. Elsewhere(p)
    BY <1>0, <1>6 DEF StartByHand, Elsewhere, Withdraws, KeyFitsLabel, Outgone
  <2> QED
    BY <2>1, ElsewhereStep
<1>7. ASSUME NEW p \in Procs, pc[p] # "idle", KeyOf(p)[1] # "withdraw",
             \/ Complete(p) \/ FindCompleted(p) \/ Insert(p)
             \/ PostingThrows(p) \/ MovementUnheard(p) \/ CreatePending(p)
             \/ FailToCreatePending(p) \/ ClaimRecharge(p)
             \/ CloseMovement(p) \/ Order(p) \/ FailToOrder(p) \/ DeleteOrder(p)
             \/ MarkSystemRefund(p) \/ UnmarkSystemRefund(p) \/ SystemCrash(p)
      PROVE  OrderInv'
  <2>1. /\ KeyFitsLabel(p)
        /\ KeyOf(p) \in Keys /\ \A w \in Withdrawals : KeyOf(p) # WithdrawKey(w)
    BY <1>7 DEF OrderInv, PostInv, KeyKnown
  <2>2. pc[p] = "claim" => TxOf(p) \in Recharges
    BY <2>1 DEF KeyFitsLabel, Keys, InKeys, OutKeys
  <2>3. Elsewhere(p)
    <3>1. CASE PostingThrows(p) \/ MovementUnheard(p)
      <4>1. PICK label \in {"delete", "unmark", "idle"} : Goes(p, label)
        BY <3>1, ThrowGoes DEF PostingThrows, MovementUnheard
      <4>2. /\ \A w \in Withdrawals : movement'[WithdrawKey(w)] = movement[WithdrawKey(w)]
            /\ UNCHANGED <<systemBalance, posted, sysTx>>
        <5>1. UNCHANGED <<systemBalance, posted, sysTx>>
          BY <3>1 DEF PostingThrows, MovementUnheard
        <5>2. \A k \in Keys \ {KeyOf(p)} : movement'[k] = movement[k]
          BY <1>0, <3>1 DEF PostingThrows, MovementUnheard
        <5> QED
          BY <2>1, <5>1, <5>2 DEF Keys, OutKeys
      <4>3. pc'[p] = label /\ label # "delete" /\ (label # "idle" => stack'[p] = stack[p])
        BY <1>0, <1>7, <4>1 DEF Goes
      <4>4. \A q \in Procs \ {p} : pc'[q] = pc[q] /\ stack'[q] = stack[q]
        BY <4>1 DEF Goes
      <4> QED
        BY <1>0, <1>7, <4>1, <4>2, <4>3, <4>4 DEF Goes, Elsewhere, Withdraws, KeyFitsLabel
    <3>2. CASE Complete(p) \/ Insert(p) \/ CreatePending(p) \/ CloseMovement(p)
      <4>1. PICK label \in {"find", "inc", "idle"} :
              /\ pc' = [pc EXCEPT ![p] = label]
              /\ stack' = stack \/ (label = "idle" /\ stack' = [stack EXCEPT ![p] = NoStack])
        BY <3>2 DEF Complete, Insert, CreatePending, CloseMovement
      <4>2. \A k \in Keys \ {KeyOf(p)} : movement'[k] = movement[k]
        BY <1>0, <3>2 DEF Complete, Insert, CreatePending, CloseMovement
      <4>3. \A w \in Withdrawals : movement'[WithdrawKey(w)] = movement[WithdrawKey(w)]
        BY <2>1, <4>2 DEF Keys, OutKeys
      <4>4. UNCHANGED <<systemBalance, posted, sysTx>>
        BY <3>2 DEF Complete, Insert, CreatePending, CloseMovement
      <4> QED
        BY <1>0, <1>7, <4>1, <4>3, <4>4 DEF Elsewhere, Withdraws, KeyFitsLabel
    <3>3. CASE \/ FindCompleted(p) \/ FailToCreatePending(p)
               \/ MarkSystemRefund(p) \/ UnmarkSystemRefund(p) \/ SystemCrash(p)
      BY <1>0, <1>7, <3>3
         DEF FindCompleted, FailToCreatePending, MarkSystemRefund,
             UnmarkSystemRefund, SystemCrash, Elsewhere, Withdraws, KeyFitsLabel
    <3>4. CASE ClaimRecharge(p)
      BY <1>0, <1>7, <2>2, <3>4 DEF ClaimRecharge, Elsewhere, Withdraws, KeyFitsLabel, Outgone
    <3>5. CASE Order(p) \/ FailToOrder(p) \/ DeleteOrder(p)
      BY <1>7, <2>1, <3>5 DEF Order, FailToOrder, DeleteOrder, KeyFitsLabel
    <3> QED
      BY <1>7, <3>1, <3>2, <3>3, <3>4, <3>5
  <2> QED
    BY <2>3, ElsewhereStep
<1>8. ASSUME NEW p \in Procs, pc[p] # "idle", KeyOf(p)[1] = "withdraw",
             \/ Complete(p) \/ FindCompleted(p) \/ Insert(p)
             \/ PostingThrows(p) \/ MovementUnheard(p) \/ CreatePending(p)
             \/ FailToCreatePending(p) \/ ClaimRecharge(p)
             \/ CloseMovement(p) \/ Order(p) \/ FailToOrder(p) \/ DeleteOrder(p)
             \/ MarkSystemRefund(p) \/ UnmarkSystemRefund(p) \/ SystemCrash(p)
      PROVE  OrderInv'
  <2>1. PICK w \in Withdrawals :
          /\ KeyOf(p) = WithdrawKey(w) /\ WithdrawKey(w) \in Keys
          /\ pc[p] \notin {"create", "claim", "close", "mark", "unmark"}
          /\ pc[p] = "order" <=> sysTx[w] = "none"
          /\ pc[p] \in {"order", "complete", "find", "insert"}
             => movement[WithdrawKey(w)] = "none"
          /\ pc[p] # "delete" => systemBalance >= Amount(w) \/ Lost(w)
    BY <1>8, OwnerKnows
  <2>2. NotYetMoved(w) /\ LostARace(w)
    BY DEF OrderInv
  <2>3. ASSUME UNCHANGED <<systemBalance, posted>>, ~Serene',
               \/ UNCHANGED <<movement, sysTx>>
               \/ movement' = movement /\ sysTx' = [sysTx EXCEPT ![w] = "waiting"]
               \/ /\ movement' = [movement EXCEPT ![WithdrawKey(w)] = "completed"]
                  /\ sysTx' = sysTx /\ pc[p] # "order",
               \A q \in Procs \ {p} : pc'[q] = pc[q] /\ stack'[q] = stack[q],
               pc'[p] = "idle" \/ (pc'[p] = "delete" /\ stack'[p] = stack[p] /\ pc[p] # "order")
        PROVE  OrderInv'
    <3>1. \A v \in Withdrawals \ {w} : /\ sysTx'[v] = sysTx[v]
                                       /\ movement'[WithdrawKey(v)] = movement[WithdrawKey(v)]
      <4>1. \A v \in Withdrawals \ {w} : WithdrawKey(v) # WithdrawKey(w) /\ WithdrawKey(v) \in Keys
        BY DEF Keys, OutKeys
      <4> HIDE DEF WithdrawKey
      <4> QED
        BY <1>0, <2>3, <4>1
    <3>2. DOMAIN sysTx' = Recharges \cup Withdrawals /\ (sysTx[w] # "none" => sysTx'[w] # "none")
      BY <1>0, <2>3
    <3>3. NotYetMoved(w)'
      BY <1>0, <2>1, <2>2, <2>3 DEF NotYetMoved
    <3>4. OwnMove(p, w)
      BY <1>8, <2>1, <2>3, <3>1, <3>2, <3>3 DEF OwnMove, KeyFitsLabel, OrderKnown, LostARace
    <3> QED
      BY <3>4, OwnStep
  <2>4. ASSUME NEW label, label \in Posting, pc' = [pc EXCEPT ![p] = label], stack' = stack,
               UNCHANGED <<systemBalance, posted>>,
               \/ sysTx' = sysTx /\ pc[p] # "order"
               \/ sysTx' = [sysTx EXCEPT ![w] = "waiting"],
               \/ movement' = movement /\ pc[p] # "inc"
               \/ movement' = [movement EXCEPT ![WithdrawKey(w)] = "completed"]
                  /\ label = "inc",
               pc[p] \in {"order", "complete", "find", "insert"}
        PROVE  OrderInv'
    <3>1. KeyFitsLabel(p)' /\ pc'[p] = label
      BY <1>0, <2>1, <2>4 DEF KeyFitsLabel, Posting
    <3>2. sysTx'[w] # "none" /\ (movement'[WithdrawKey(w)] = "none" \/ label = "inc")
      BY <1>0, <2>1, <2>4
    <3>3. Ordering(w)'
      BY <1>0, <1>8, <2>1, <2>4 DEF Ordering
    <3>4. Lost(w)' <=> Lost(w)
      BY <2>4 DEF Lost
    <3>5. NotYetMoved(w)' /\ LostARace(w)'
      BY <3>2, <3>3 DEF NotYetMoved, LostARace
    <3>6. OrderKnown(p)'
      BY <2>1, <2>4, <3>1, <3>2, <3>4 DEF OrderKnown, Posting
    <3>7. \A v \in Withdrawals \ {w} : /\ sysTx'[v] = sysTx[v]
                                       /\ movement'[WithdrawKey(v)] = movement[WithdrawKey(v)]
      <4>1. \A v \in Withdrawals \ {w} : WithdrawKey(v) # WithdrawKey(w) /\ WithdrawKey(v) \in Keys
        BY DEF Keys, OutKeys
      <4> HIDE DEF WithdrawKey
      <4> QED
        BY <1>0, <2>4, <4>1
    <3>8. OwnMove(p, w)
      BY <1>0, <1>8, <2>1, <2>4, <3>1, <3>5, <3>6, <3>7 DEF OwnMove
    <3> QED
      BY <3>8, OwnStep
  <2>5. CASE Complete(p)
    BY <2>1, <2>4, <2>5 DEF Complete, Posting
  <2>6. CASE FindCompleted(p)
    BY <2>1, <2>4, <2>6 DEF FindCompleted, Posting
  <2>7. CASE Insert(p)
    BY <2>1, <2>4, <2>7 DEF Insert, Posting
  <2>8. CASE Order(p)
    <3>1. TxOf(p) = w
      BY <2>1
    <3> QED
      BY <2>1, <2>4, <2>8, <3>1 DEF Order, Posting
  <2>9. CASE FailToOrder(p) \/ SystemCrash(p)
    <3>1. ~Serene' /\ TxOf(p) = w
      BY <2>1, <2>9, FaultIsSeen DEF FailToOrder, SystemCrash
    <3> QED
      BY <1>0, <2>3, <2>9, <3>1 DEF FailToOrder, SystemCrash
  <2>12. CASE PostingThrows(p) \/ MovementUnheard(p)
    <3>1. PICK label \in {"delete", "unmark", "idle"} : Goes(p, label)
      BY <2>12, ThrowGoes DEF PostingThrows, MovementUnheard
    <3>2. ~Serene'
      BY <2>12, ThrowGoes, FaultIsSeen DEF PostingThrows, MovementUnheard
    <3>3. /\ \A q \in Procs \ {p} : pc'[q] = pc[q] /\ stack'[q] = stack[q]
          /\ pc'[p] = "idle" \/ (pc'[p] = "delete" /\ stack'[p] = stack[p])
      BY <1>0, <1>8, <3>1 DEF Goes
    <3>4. /\ pc[p] # "order" /\ UNCHANGED <<systemBalance, posted, sysTx>>
          /\ \/ movement' = movement
             \/ movement' = [movement EXCEPT ![WithdrawKey(w)] = "completed"]
      BY <2>1, <2>12 DEF PostingThrows, MovementUnheard, Posting
    <3> QED
      BY <2>3, <3>2, <3>3, <3>4
  <2>10. CASE DeleteOrder(p)
    <3>1. TxOf(p) = w
      BY <2>1
    <3>2. /\ \A q \in Procs \ {p} : pc'[q] = pc[q] /\ stack'[q] = stack[q]
          /\ pc'[p] = "idle" /\ UNCHANGED <<systemBalance, posted, movement>>
          /\ sysTx' = [sysTx EXCEPT ![w] = "deleted"]
      BY <1>0, <2>10, <3>1 DEF DeleteOrder
    <3>3. OwnMove(p, w)
      BY <1>0, <1>8, <2>1, <3>2
         DEF OwnMove, KeyFitsLabel, OrderKnown, NotYetMoved, LostARace, Outgone
    <3> QED
      BY <3>3, OwnStep
  <2>11. CASE \/ CreatePending(p) \/ FailToCreatePending(p) \/ ClaimRecharge(p)
              \/ CloseMovement(p) \/ MarkSystemRefund(p) \/ UnmarkSystemRefund(p)
    BY <2>1, <2>11
       DEF CreatePending, FailToCreatePending, ClaimRecharge, CloseMovement, MarkSystemRefund,
           UnmarkSystemRefund
  <2> QED
    BY <1>8, <2>5, <2>6, <2>7, <2>8, <2>9, <2>10, <2>11, <2>12
<1>9. ASSUME NEW p \in Procs,
             \/ Complete(p) \/ FindCompleted(p) \/ Insert(p)
             \/ PostingThrows(p) \/ MovementUnheard(p) \/ CreatePending(p)
             \/ FailToCreatePending(p) \/ ClaimRecharge(p)
             \/ CloseMovement(p) \/ Order(p) \/ FailToOrder(p) \/ DeleteOrder(p)
             \/ MarkSystemRefund(p) \/ UnmarkSystemRefund(p) \/ SystemCrash(p)
      PROVE  OrderInv'
  <2>1. pc[p] # "idle"
    BY <1>9
       DEF Complete, FindCompleted, Insert, PostingThrows, MovementUnheard, Posting, CreatePending,
           FailToCreatePending, ClaimRecharge, CloseMovement, Order, FailToOrder, DeleteOrder,
           MarkSystemRefund, UnmarkSystemRefund, SystemCrash
  <2> QED
    BY <1>7, <1>8, <1>9, <2>1
<1>10. ASSUME NEW p \in Procs, Inc(p) \/ IncUnheard(p) PROVE OrderInv'
  BY <1>10, IncIsDone, IncOrders
<1> QED
  BY <1>2, <1>3, <1>4, <1>5, <1>6, <1>9, <1>10, StartOrderOrders DEF SystemNext

(* Without crashes and failing writes a withdrawal goes out without its    *)
(* debit only when another debit took the money between the check of       *)
(* createSystemWithdrawal and the posting.                                 *)
THEOREM UnfundedWithdrawalLost == SystemSpec => []UnfundedLostARace
<1>1. OrderInv => UnfundedLostARace
  BY DEF OrderInv, LostARace, UnfundedLostARace, Outgone, Lost, WithdrawKey, Key
<1>2. SystemSpec => []OrderInv
  BY OrderStart, OrderStep, PostInvariant, SystemFaultCount, PTL DEF SystemSpec
<1> QED
  BY <1>1, <1>2, PTL

----
(* Reconciliation.                                                         *)
Payins == Txs \ Outgoing

RunFrames == [subject : {"user"}, todo : SUBSET Txs, seen : [Txs -> PayinEnds \cup PayoutEnds],
              step : [Txs -> Int]]

LocalTypes ==
    /\ local \in [Txs -> PayinEnds \cup PayoutEnds]
    /\ \A t \in Txs \ Outgoing : local[t] \in PayinEnds

RunTypes ==
    /\ DOMAIN pc = Procs /\ DOMAIN stack = Procs
    /\ adjusted \in [Txs -> Int] /\ LocalTypes
    /\ overlapped \in BOOLEAN
    /\ \A p \in Procs : pc[p] # "idle" => stack[p] \in RunFrames

(* What a run is about to post for a payin is its amount at most; it is    *)
(* more than nothing only when the run has found the payin unsuccessful    *)
(* here, and then the payin is successful by now.                          *)
StepJustified(p) ==
    pc[p] # "idle" => \A t \in Payins :
        /\ stack[p].step[t] <= Amount(t)
        /\ stack[p].step[t] > 0 => stack[p].seen[t] # "PAYINSUCCESS"
                                   /\ local[t] = "PAYINSUCCESS"
        /\ stack[p].seen[t] # "PAYINSUCCESS" => adjusted[t] <= 0

AdjustedJustified(t) ==
    adjusted[t] <= Amount(t) /\ (adjusted[t] > 0 => local[t] = "PAYINSUCCESS")

OneRun(p, q) == pc[p] # "idle" /\ pc[q] # "idle" => p = q

(* A payin credited under its own key before any run had read it: no run   *)
(* has credited it, nor is one about to.                                   *)
InTime(t) == t \in noticed /\ t \notin late
NoticedFirst(t) == InTime(t) => local[t] = "PAYINSUCCESS" /\ adjusted[t] <= 0 /\ ~Read(t)

ReconcileInv ==
    /\ RunTypes
    /\ ~overlapped =>
        /\ \A p \in Procs : StepJustified(p)
        /\ \A t \in Payins : AdjustedJustified(t) /\ NoticedFirst(t)
        /\ \A p, q \in Procs : OneRun(p, q)

LEMMA AmountsOfTxs == \A t \in Txs : Amount(t) \in Nat /\ Amount(t) > 0
BY ReconcileAssumption

LEMMA ReconcileStart == ReconcileInit => ReconcileInv
<1> SUFFICES ASSUME ReconcileInit PROVE ReconcileInv
  OBVIOUS
<1>1. LocalTypes
  BY DEF ReconcileInit, LocalTypes, PayinEnds, PayoutEnds
<1>2. /\ adjusted = [t \in Txs |-> 0] /\ pc = [p \in Procs |-> "idle"]
      /\ stack = [p \in Procs |-> NoStack] /\ overlapped = FALSE
  BY DEF ReconcileInit, RequestsInit
<1>3. RunTypes
  <2>1. overlapped \in BOOLEAN
    BY <1>2
  <2>2. adjusted \in [Txs -> Int]
    BY <1>2
  <2> QED
    BY <1>1, <1>2, <2>1, <2>2 DEF RunTypes
<1>4. \A t \in Payins : AdjustedJustified(t) /\ NoticedFirst(t)
  <2>1. \A t \in Payins : t \in noticed => local[t] = "PAYINSUCCESS"
    BY DEF ReconcileInit
  <2> QED
    BY <1>2, <2>1, AmountsOfTxs DEF AdjustedJustified, NoticedFirst, InTime, Read, Payins
<1>5. \A p, q \in Procs : StepJustified(p) /\ OneRun(p, q)
  BY <1>2 DEF StepJustified, OneRun
<1> QED
  BY <1>3, <1>4, <1>5 DEF ReconcileInv

(* A payin that is successful here stays successful: no run undoes it.     *)
LEMMA CorrectKeeps ==
    ASSUME LocalTypes, NEW t \in Txs, NEW target, Correct(t, target),
           \/ t \in Outgoing /\ target \in {"PAYOUTSUCCESS", "PAYOUTERROR"}
           \/ t \notin Outgoing /\ target \in {"PAYINSUCCESS", "PAYINERROR"}
    PROVE  /\ LocalTypes'
           /\ \A u \in Txs : local[u] = "PAYINSUCCESS" => local'[u] = "PAYINSUCCESS"
           /\ target = "PAYINSUCCESS" => local'[t] = "PAYINSUCCESS"
<1>1. ReconcileFrom("PAYINSUCCESS") = {"PAYINPENDING", "PAYINERROR", "PAYINCLOSED"}
  BY DEF ReconcileFrom
<1>2. /\ ReconcileFrom("PAYINERROR") = {"PAYINPENDING"}
      /\ ReconcileFrom("PAYOUTSUCCESS") = {"PAYOUTPENDING"}
      /\ ReconcileFrom("PAYOUTERROR") = {"PAYOUTPENDING"}
  BY DEF ReconcileFrom
<1>3. CASE target = "PAYINSUCCESS"
  BY <1>1, <1>3 DEF Correct, LocalTypes, PayinEnds, PayoutEnds
<1>4. CASE target # "PAYINSUCCESS"
  <2>1. local' = local
    BY <1>2, <1>4 DEF Correct, LocalTypes, PayinEnds, PayoutEnds
  <2> QED
    BY <1>4, <2>1 DEF LocalTypes
<1> QED
  BY <1>3, <1>4

(* What a run decides for one transaction.                                 *)
LEMMA DiscrepancyOf ==
    ASSUME NEW t \in Txs, NEW here, NEW there
    PROVE  LET d == Discrepancy(t, here, there)
           IN  /\ d.amount \in Int
               /\ d.amount # 0 =>
                    \/ t \in Outgoing /\ d.target \in {"PAYOUTSUCCESS", "PAYOUTERROR"}
                    \/ t \notin Outgoing /\ d.target \in {"PAYINSUCCESS", "PAYINERROR"}
               /\ t \notin Outgoing =>
                    /\ d.amount <= Amount(t)
                    /\ d.amount > 0 => here # "PAYINSUCCESS" /\ d.target = "PAYINSUCCESS"
BY AmountsOfTxs DEF Discrepancy

(* A step that goes on with the runs there are.                            *)
LEMMA RunsGoOn ==
    ASSUME ReconcileInv, RunTypes', UNCHANGED <<adjusted, overlapped>>,
           \A t \in Txs : local[t] = "PAYINSUCCESS" => local'[t] = "PAYINSUCCESS",
           \A p \in Procs : pc'[p] # "idle" => pc[p] # "idle" /\ stack'[p].seen = stack[p].seen,
           \A p \in Procs, t \in Payins :
              pc'[p] # "idle" =>
                \/ stack'[p].step[t] = stack[p].step[t]
                \/ /\ stack'[p].step[t] <= Amount(t)
                   /\ stack'[p].step[t] > 0 => stack[p].seen[t] # "PAYINSUCCESS"
                                               /\ local'[t] = "PAYINSUCCESS",
           \A t \in Payins :
              InTime(t)' => InTime(t) \/ (local'[t] = "PAYINSUCCESS" /\ ~Read(t))
    PROVE  ReconcileInv'
<1>1. ASSUME ~overlapped, NEW p \in Procs PROVE StepJustified(p)'
  BY <1>1 DEF ReconcileInv, StepJustified, Payins
<1>2. ASSUME ~overlapped, NEW t \in Payins PROVE AdjustedJustified(t)'
  BY <1>2 DEF ReconcileInv, AdjustedJustified, Payins
<1>3. ASSUME ~overlapped, NEW p \in Procs, NEW q \in Procs PROVE OneRun(p, q)'
  BY <1>3 DEF ReconcileInv, OneRun
<1>4. ASSUME ~overlapped, NEW t \in Payins PROVE NoticedFirst(t)'
  <2> SUFFICES ASSUME InTime(t)'
               PROVE  local'[t] = "PAYINSUCCESS" /\ adjusted'[t] <= 0 /\ ~Read(t)'
    BY DEF NoticedFirst
  <2>1. local'[t] = "PAYINSUCCESS" /\ ~Read(t) /\ adjusted[t] \in Int
    BY <1>4 DEF ReconcileInv, NoticedFirst, RunTypes, Payins
  <2>2. ~Read(t)'
    BY <2>1 DEF Read
  <2>3. adjusted[t] <= 0
    BY <2>1 DEF Read
  <2> QED
    BY <2>1, <2>2, <2>3
<1> QED
  BY <1>1, <1>2, <1>3, <1>4 DEF ReconcileInv

LEMMA ReconcileStep == ReconcileInv /\ [ReconcileNext]_reconcileVars => ReconcileInv'
<1> SUFFICES ASSUME ReconcileInv, [ReconcileNext]_reconcileVars PROVE ReconcileInv'
  OBVIOUS
<1> USE DEF Begin, JumpWith, Return, FaultyReturn, reconcileOnly
<1>0. /\ DOMAIN pc = Procs /\ DOMAIN stack = Procs /\ LocalTypes
      /\ adjusted \in [Txs -> Int] /\ overlapped \in BOOLEAN
      /\ \A p \in Procs : pc[p] # "idle" => stack[p] \in RunFrames
  BY DEF ReconcileInv, RunTypes
<1>1. CASE UNCHANGED reconcileVars
  <2>1. RunTypes'
    BY <1>1 DEF ReconcileInv, RunTypes, LocalTypes, reconcileVars, reqVars
  <2>2. \A t \in Payins : InTime(t)' <=> InTime(t)
    BY <1>1 DEF InTime, reconcileVars
  <2> QED
    BY <1>1, <2>1, <2>2, RunsGoOn DEF reconcileVars, reqVars
<1>2. ASSUME NEW t \in Txs, Notice(t) \/ Decided(t) PROVE ReconcileInv'
  <2>1. /\ UNCHANGED <<pc, stack, adjusted, overlapped>>
        /\ local' = local \/ (t \notin Outgoing /\ local' = [local EXCEPT ![t] = "PAYINSUCCESS"])
    BY <1>2 DEF Notice, Decided, reqVars
  <2>2. LocalTypes' /\ \A u \in Txs : local[u] = "PAYINSUCCESS" => local'[u] = "PAYINSUCCESS"
    BY <1>0, <2>1 DEF LocalTypes, PayinEnds
  <2>3. RunTypes'
    BY <1>0, <2>1, <2>2 DEF RunTypes
  <2>4. ASSUME NEW u \in Payins, InTime(u)'
        PROVE  InTime(u) \/ (local'[u] = "PAYINSUCCESS" /\ ~Read(u))
    <3>1. CASE Notice(t)
      <4>1. CASE u = t
        BY <1>0, <2>4, <3>1, <4>1 DEF Notice, InTime, LocalTypes
      <4>2. CASE u # t
        BY <2>4, <3>1, <4>2 DEF Notice, InTime
      <4> QED
        BY <4>1, <4>2
    <3>2. CASE Decided(t)
      BY <2>4, <3>2 DEF Decided, InTime
    <3> QED
      BY <1>2, <3>1, <3>2
  <2> QED
    BY <2>1, <2>2, <2>3, <2>4, RunsGoOn
<1>3. ASSUME NEW p \in Procs, StartRun(p) PROVE ReconcileInv'
  <2> USE DEF StartRun
  <2> DEFINE frame == [subject |-> "user", todo |-> Txs, seen |-> local,
                       step |-> [t \in Txs |-> 0]]
  <2>1. /\ frame \in RunFrames /\ frame.seen = local /\ \A t \in Txs : frame.step[t] = 0
        /\ pc' = [pc EXCEPT ![p] = "check"] /\ stack' = [stack EXCEPT ![p] = frame]
        /\ overlapped' = (overlapped \/ \E q \in Procs : pc[q] # "idle")
        /\ UNCHANGED <<local, adjusted, noticed, late>>
    BY <1>0, <1>3 DEF RunFrames, LocalTypes
  <2> HIDE DEF frame
  <2>2. RunTypes'
    BY <1>0, <2>1 DEF RunTypes, LocalTypes
  <2>3. ASSUME ~overlapped' PROVE \A t \in Payins : AdjustedJustified(t)'
    BY <2>1, <2>3 DEF ReconcileInv, AdjustedJustified, Payins
  <2>4. ASSUME ~overlapped'
        PROVE  /\ \A q \in Procs : StepJustified(q)'
               /\ \A q, r \in Procs : OneRun(q, r)'
    <3>1. \A q \in Procs \ {p} : pc'[q] = "idle"
      BY <1>0, <2>1, <2>4
    <3>2. stack'[p] = frame
      BY <1>0, <2>1
    <3>3. StepJustified(p)'
      <4>1. \A t \in Payins : /\ frame.step[t] = 0 /\ Amount(t) \in Nat
                              /\ adjusted[t] \in Int /\ frame.seen[t] = local[t]
        BY <1>0, <2>1, AmountsOfTxs DEF Payins
      <4>2. \A t \in Payins : local[t] # "PAYINSUCCESS" => adjusted[t] <= 0
        BY <2>1, <2>3, <2>4, <4>1 DEF AdjustedJustified
      <4> QED
        BY <2>1, <3>2, <4>1, <4>2 DEF StepJustified
    <3> QED
      BY <3>1, <3>3 DEF StepJustified, OneRun
  <2>5. ASSUME ~overlapped', NEW t \in Payins PROVE NoticedFirst(t)'
    <3> SUFFICES ASSUME InTime(t)'
                 PROVE  local'[t] = "PAYINSUCCESS" /\ adjusted'[t] <= 0 /\ ~Read(t)'
      BY DEF NoticedFirst
    <3>1. local[t] = "PAYINSUCCESS" /\ adjusted[t] <= 0 /\ ~Read(t) /\ t \in Txs
      BY <2>1, <2>5 DEF ReconcileInv, NoticedFirst, InTime, Payins
    <3>2. \A q \in Procs : pc'[q] # "idle" => stack'[q].seen[t] = "PAYINSUCCESS"
      BY <1>0, <2>1, <3>1 DEF Read
    <3>3. adjusted'[t] = adjusted[t] /\ local'[t] = local[t]
      BY <2>1
    <3> QED
      BY <3>1, <3>2, <3>3 DEF Read
  <2> QED
    BY <2>2, <2>3, <2>4, <2>5 DEF ReconcileInv
<1>4. ASSUME NEW p \in Procs, CheckTx(p) PROVE ReconcileInv'
  <2> USE DEF CheckTx
  <2>0. stack[p] \in RunFrames
    BY <1>0, <1>4
  <2>1. PICK t \in stack[p].todo :
          LET d == Discrepancy(t, stack[p].seen[t], remote[t])
          IN  /\ JumpWith(p, "check", [stack[p] EXCEPT !.todo = @ \ {t},
                                                       !.step[t] = d.amount])
              /\ IF d.amount # 0 THEN Correct(t, d.target) ELSE UNCHANGED local
    BY <1>4
  <2> DEFINE d == Discrepancy(t, stack[p].seen[t], remote[t])
             frame == [stack[p] EXCEPT !.todo = @ \ {t}, !.step[t] = d.amount]
  <2>2. t \in Txs
    BY <2>0 DEF RunFrames
  <2>3. /\ d.amount \in Int
        /\ d.amount # 0 =>
             \/ t \in Outgoing /\ d.target \in {"PAYOUTSUCCESS", "PAYOUTERROR"}
             \/ t \notin Outgoing /\ d.target \in {"PAYINSUCCESS", "PAYINERROR"}
        /\ t \notin Outgoing =>
             /\ d.amount <= Amount(t)
             /\ d.amount > 0 => stack[p].seen[t] # "PAYINSUCCESS"
                                /\ d.target = "PAYINSUCCESS"
    BY <2>2, DiscrepancyOf
  <2>4. /\ pc' = [pc EXCEPT ![p] = "check"] /\ stack' = [stack EXCEPT ![p] = frame]
        /\ IF d.amount # 0 THEN Correct(t, d.target) ELSE UNCHANGED local
        /\ UNCHANGED <<adjusted, noticed, late, overlapped>> /\ pc[p] # "idle"
    BY <1>4, <2>1
  <2> HIDE DEF d
  <2>5. /\ LocalTypes'
        /\ \A u \in Txs : local[u] = "PAYINSUCCESS" => local'[u] = "PAYINSUCCESS"
        /\ d.amount # 0 /\ d.target = "PAYINSUCCESS" => local'[t] = "PAYINSUCCESS"
    <3>1. CASE d.amount # 0
      BY <1>0, <2>2, <2>3, <2>4, <3>1, CorrectKeeps
    <3>2. CASE d.amount = 0
      BY <1>0, <2>4, <3>2 DEF LocalTypes
    <3> QED
      BY <2>3, <3>1, <3>2
  <2>6. /\ frame \in RunFrames /\ frame.seen = stack[p].seen
        /\ frame.step[t] = d.amount
        /\ \A u \in Txs \ {t} : frame.step[u] = stack[p].step[u]
    BY <2>0, <2>2, <2>3 DEF RunFrames
  <2> HIDE DEF frame
  <2>7. /\ \A q \in Procs \ {p} : pc'[q] = pc[q] /\ stack'[q] = stack[q]
        /\ stack'[p] = frame /\ pc'[p] = "check"
        /\ DOMAIN pc' = Procs /\ DOMAIN stack' = Procs
    BY <1>0, <2>4
  <2>8. RunTypes'
    BY <1>0, <2>4, <2>5, <2>6, <2>7 DEF RunTypes
  <2>9. ASSUME NEW q \in Procs, NEW u \in Payins, pc'[q] # "idle"
        PROVE  \/ stack'[q].step[u] = stack[q].step[u]
               \/ /\ stack'[q].step[u] <= Amount(u)
                  /\ stack'[q].step[u] > 0 => stack[q].seen[u] # "PAYINSUCCESS"
                                              /\ local'[u] = "PAYINSUCCESS"
    <3>1. CASE q = p /\ u = t
      BY <2>3, <2>5, <2>6, <2>7, <3>1 DEF Payins
    <3>2. CASE ~(q = p /\ u = t)
      BY <2>6, <2>7, <3>2 DEF Payins
    <3> QED
      BY <3>1, <3>2
  <2>10. \A q \in Procs : pc'[q] # "idle" => pc[q] # "idle" /\ stack'[q].seen = stack[q].seen
    BY <2>4, <2>6, <2>7
  <2>11. \A u \in Payins : InTime(u)' <=> InTime(u)
    BY <2>4 DEF InTime
  <2> QED
    BY <2>4, <2>5, <2>8, <2>9, <2>10, <2>11, RunsGoOn
<1>5. ASSUME NEW p \in Procs, SkipTx(p) PROVE ReconcileInv'
  <2>0. stack[p] \in RunFrames /\ pc[p] # "idle"
    BY <1>0, <1>5 DEF SkipTx
  <2>1. PICK t \in stack[p].todo : stack' = [stack EXCEPT ![p].todo = @ \ {t}]
    BY <1>5 DEF SkipTx
  <2> DEFINE frame == [stack[p] EXCEPT !.todo = @ \ {t}]
  <2>2. /\ frame \in RunFrames /\ frame.seen = stack[p].seen /\ frame.step = stack[p].step
        /\ stack' = [stack EXCEPT ![p] = frame]
        /\ UNCHANGED <<pc, local, adjusted, noticed, late, overlapped>>
    BY <1>5, <2>0, <2>1 DEF SkipTx, RunFrames
  <2> HIDE DEF frame
  <2>3. RunTypes'
    BY <1>0, <2>0, <2>2 DEF RunTypes, LocalTypes
  <2>4. \A q \in Procs : stack'[q].seen = stack[q].seen /\ stack'[q].step = stack[q].step
    BY <1>0, <2>2
  <2>5. \A u \in Payins : InTime(u)' <=> InTime(u)
    BY <2>2 DEF InTime
  <2> QED
    BY <2>2, <2>3, <2>4, <2>5, RunsGoOn
<1>6. ASSUME NEW p \in Procs, RunStops(p) PROVE ReconcileInv'
  <2>1. /\ UNCHANGED <<local, adjusted, noticed, late, overlapped>>
        /\ pc' = [pc EXCEPT ![p] = "idle"] /\ stack' = [stack EXCEPT ![p] = NoStack]
    BY <1>6 DEF RunStops
  <2>2. RunTypes'
    BY <1>0, <2>1 DEF RunTypes, LocalTypes
  <2>3. \A q \in Procs : pc'[q] # "idle" => pc[q] # "idle" /\ stack'[q] = stack[q]
    BY <1>0, <2>1
  <2>4. \A u \in Payins : InTime(u)' <=> InTime(u)
    BY <2>1 DEF InTime
  <2> QED
    BY <2>1, <2>2, <2>3, <2>4, RunsGoOn
<1>7. ASSUME NEW p \in Procs, PostNet(p) PROVE ReconcileInv'
  <2>1. /\ adjusted' = adjusted \/ adjusted' = [t \in Txs |-> adjusted[t] + stack[p].step[t]]
        /\ pc' = [pc EXCEPT ![p] = "idle"] /\ stack' = [stack EXCEPT ![p] = NoStack]
        /\ UNCHANGED <<local, noticed, late, overlapped>> /\ pc[p] # "idle"
    BY <1>7 DEF PostNet
  <2>2. stack[p] \in RunFrames
    BY <1>0, <2>1
  <2>3. \A q \in Procs : pc'[q] # "idle" => q # p /\ pc[q] # "idle" /\ stack'[q] = stack[q]
    BY <1>0, <2>1
  <2>4. adjusted' \in [Txs -> Int]
    BY <1>0, <2>1, <2>2 DEF RunFrames
  <2>5. RunTypes'
    BY <1>0, <2>1, <2>4 DEF RunTypes, LocalTypes
  <2>6. ASSUME ~overlapped PROVE \A q \in Procs : pc'[q] = "idle"
    BY <2>1, <2>3, <2>6 DEF ReconcileInv, OneRun
  <2>7. ASSUME ~overlapped, NEW t \in Payins PROVE AdjustedJustified(t)'
    <3>1. StepJustified(p) /\ AdjustedJustified(t)
      BY <2>7 DEF ReconcileInv
    <3>2. /\ adjusted[t] \in Int /\ stack[p].step[t] \in Int /\ t \in Txs
          /\ Amount(t) \in Nat
      BY <1>0, <2>2, AmountsOfTxs DEF RunFrames, Payins
    <3>3. adjusted'[t] = adjusted[t] \/ adjusted'[t] = adjusted[t] + stack[p].step[t]
      BY <2>1, <3>2
    <3> QED
      BY <2>1, <2>7, <3>1, <3>2, <3>3 DEF StepJustified, AdjustedJustified
  <2>8. ASSUME ~overlapped, NEW t \in Payins PROVE NoticedFirst(t)'
    <3> SUFFICES ASSUME InTime(t)'
                 PROVE  local'[t] = "PAYINSUCCESS" /\ adjusted'[t] <= 0 /\ ~Read(t)'
      BY DEF NoticedFirst
    <3>1. local[t] = "PAYINSUCCESS" /\ adjusted[t] <= 0 /\ ~Read(t) /\ StepJustified(p)
      BY <2>1, <2>8 DEF ReconcileInv, NoticedFirst, InTime
    <3>2. /\ adjusted[t] \in Int /\ stack[p].step[t] \in Int /\ t \in Txs
      BY <1>0, <2>2 DEF RunFrames, Payins
    <3>3. stack[p].step[t] <= 0
      BY <2>1, <3>1, <3>2 DEF StepJustified, Read
    <3>4. adjusted'[t] = adjusted[t] \/ adjusted'[t] = adjusted[t] + stack[p].step[t]
      BY <2>1, <3>2
    <3>5. adjusted'[t] <= 0
      BY <3>1, <3>2, <3>3, <3>4
    <3> QED
      BY <1>0, <2>1, <2>6, <2>8, <3>1, <3>5, <2>4, <3>2 DEF Read
  <2> QED
    BY <2>1, <2>5, <2>6, <2>7, <2>8 DEF ReconcileInv, StepJustified, OneRun
<1> QED
  BY <1>1, <1>2, <1>3, <1>4, <1>5, <1>6, <1>7 DEF ReconcileNext

(* However often an account is reconciled, one run after the other, a      *)
(* payin that turns out successful is credited once, by a run or under its *)
(* own key; only a notice that comes after a run has read the payin        *)
(* credits it a second time, and never a third.                            *)
THEOREM ReconciledOnce == ReconcileSpec => []FoundPayinCreditedOnce
<1>1. ReconcileInv => FoundPayinCreditedOnce
  <2> SUFFICES ASSUME ReconcileInv, NEW t \in Payins, ~overlapped
               PROVE  Credited(t) <= (IF t \in late THEN 2 ELSE 1) * Amount(t)
    BY DEF FoundPayinCreditedOnce, Payins
  <2>1. adjusted[t] \in Int /\ Amount(t) \in Nat /\ adjusted[t] <= Amount(t)
    BY AmountsOfTxs DEF ReconcileInv, RunTypes, AdjustedJustified, Payins
  <2>2. CASE t \in late
    BY <2>1, <2>2 DEF Credited
  <2>3. CASE t \notin late
    <3>1. t \in noticed => adjusted[t] <= 0
      BY <2>3 DEF ReconcileInv, NoticedFirst, InTime
    <3> QED
      BY <2>1, <2>3, <3>1 DEF Credited
  <2> QED
    BY <2>2, <2>3
<1> QED
  BY <1>1, ReconcileStart, ReconcileStep, PTL DEF ReconcileSpec

----
(* Spending.                                                               *)
Price == [a \in Attempts |-> Amount(a)]

SpendTypes ==
    /\ DOMAIN pc = Procs /\ DOMAIN stack = Procs /\ wallet \in Int
    /\ taken \subseteq Attempts /\ created \subseteq Attempts /\ arrived \subseteq Attempts
    /\ IsFiniteSet(taken)

(* What a handler at work knows of its attempt.                            *)
AttemptKnown(p) ==
    pc[p] # "idle" =>
        /\ A(p) \in arrived
        /\ pc[p] \in {"lookup", "auth", "check", "debit"} => A(p) \notin taken \cup created
        /\ pc[p] = "save" => A(p) \notin created /\ (Spends(A(p)) <=> A(p) \in taken)
        /\ pc[p] = "debit" => Spends(A(p))
        /\ pc[p] = "rollback" => A(p) \in taken \ created /\ Kind(A(p)) = "transfer"

AttemptOfOne(p, q) == pc[p] # "idle" /\ pc[q] # "idle" /\ p # q => A(p) # A(q)

(* What was taken, and nothing else, is missing from the wallet; what was  *)
(* created was paid for.                                                   *)
Covering ==
    /\ wallet >= 0
    /\ wallet + SumFunctionOnSet(Price, taken) = Purse
    /\ taken \cup created \subseteq arrived
    /\ \A a \in created : Spends(a) => a \in taken

SpendInv ==
    /\ SpendTypes
    /\ \A p \in Procs : AttemptKnown(p)
    /\ \A p, q \in Procs : AttemptOfOne(p, q)
    /\ Covering

LEMMA SpendStart == SpendingInit => SpendInv
<1> SUFFICES ASSUME SpendingInit PROVE SpendInv
  OBVIOUS
<1>1. SumFunctionOnSet(Price, {}) = 0 /\ IsFiniteSet({})
  BY SumEmpty, FS_EmptySet
<1> QED
  BY <1>1, SpendingAssumption
     DEF SpendingInit, RequestsInit, SpendInv, SpendTypes, AttemptKnown, AttemptOfOne, Covering

LEMMA PriceIsNatural ==
    /\ \A a \in Attempts : Price[a] \in Nat /\ Price[a] \in Int /\ Price[a] = Amount(a)
    /\ \A a \in Attempts : Amount(a) \in Nat /\ Amount(a) > 0
BY SpendingAssumption DEF Price

(* A step of p that moves no money and creates nothing.                    *)
SpendQuiet(p) ==
    /\ \A q \in Procs \ {p} : pc'[q] = pc[q] /\ stack'[q] = stack[q]
    /\ DOMAIN pc' = Procs /\ DOMAIN stack' = Procs
    /\ pc'[p] # "idle" => pc[p] # "idle" /\ stack'[p].subject = A(p)
    /\ AttemptKnown(p)'
    /\ UNCHANGED <<wallet, taken, created, arrived>>

LEMMA SpendQuietStep == ASSUME SpendInv, NEW p \in Procs, SpendQuiet(p) PROVE SpendInv'
<1> USE DEF SpendQuiet, A
<1>1. SpendTypes' /\ Covering'
  BY DEF SpendInv, SpendTypes, Covering
<1>2. \A q \in Procs : AttemptKnown(q)'
  BY DEF SpendInv, AttemptKnown
<1>3. \A q, r \in Procs : AttemptOfOne(q, r)'
  BY DEF SpendInv, AttemptOfOne
<1> QED
  BY <1>1, <1>2, <1>3 DEF SpendInv

LEMMA DebitCovers == ASSUME SpendInv, NEW p \in Procs, Debit(p) PROVE SpendInv'
<1> USE DEF Debit, Jump, JumpWith, Return, Answer, A, Spends
<1>0. /\ DOMAIN pc = Procs /\ DOMAIN stack = Procs /\ wallet \in Int
      /\ A(p) \in Attempts /\ A(p) \in arrived /\ A(p) \notin taken \cup created
      /\ IsFiniteSet(taken) /\ taken \subseteq Attempts
  BY DEF SpendInv, SpendTypes, AttemptKnown
<1>1. CASE wallet < Amount(A(p))
  <2>1. SpendQuiet(p)
    BY <1>0, <1>1 DEF SpendQuiet, AttemptKnown
  <2> QED
    BY <2>1, SpendQuietStep
<1>2. CASE ~(wallet < Amount(A(p)))
  <2>1. /\ wallet' = wallet - Amount(A(p)) /\ taken' = taken \cup {A(p)}
        /\ pc' = [pc EXCEPT ![p] = "save"] /\ stack' = stack
        /\ UNCHANGED <<created, arrived>>
    BY <1>2
  <2>2. SumFunctionOnSet(Price, taken') = SumFunctionOnSet(Price, taken) + Amount(A(p))
    BY <1>0, <2>1, PriceIsNatural, SumAdd
  <2>3. SumFunctionOnSet(Price, taken) \in Int
    BY <1>0, PriceIsNatural, SumInt
  <2>4. Covering'
    BY <1>0, <1>2, <2>1, <2>2, <2>3, PriceIsNatural DEF SpendInv, Covering
  <2>5. SpendTypes'
    BY <1>0, <2>1, FS_AddElement, PriceIsNatural DEF SpendInv, SpendTypes
  <2>6. \A q \in Procs : AttemptKnown(q)'
    <3> SUFFICES ASSUME NEW q \in Procs PROVE AttemptKnown(q)'
      OBVIOUS
    <3>1. CASE q = p
      <4>1. Spends(A(p))
        BY DEF SpendInv, AttemptKnown
      <4> QED
        BY <1>0, <2>1, <3>1, <4>1 DEF AttemptKnown
    <3>2. CASE q # p
      <4>1. pc[q] # "idle" => A(q) # A(p)
        BY <3>2 DEF SpendInv, AttemptOfOne
      <4> QED
        BY <1>0, <2>1, <3>2, <4>1 DEF SpendInv, AttemptKnown
    <3> QED
      BY <3>1, <3>2
  <2>7. \A q, r \in Procs : AttemptOfOne(q, r)'
    BY <1>0, <2>1 DEF SpendInv, AttemptOfOne
  <2> QED
    BY <2>4, <2>5, <2>6, <2>7 DEF SpendInv
<1> QED
  BY <1>1, <1>2

LEMMA RollbackCovers == ASSUME SpendInv, NEW p \in Procs, Rollback(p) PROVE SpendInv'
<1> USE DEF Rollback, JumpWith, Return, Answer, A
<1>0. /\ DOMAIN pc = Procs /\ DOMAIN stack = Procs /\ wallet \in Int
      /\ A(p) \in Attempts /\ A(p) \in taken \ created
      /\ IsFiniteSet(taken) /\ taken \subseteq Attempts
  BY DEF SpendInv, SpendTypes, AttemptKnown
<1>1. /\ wallet' = wallet + Amount(A(p)) /\ taken' = taken \ {A(p)}
      /\ pc' = [pc EXCEPT ![p] = "idle"] /\ stack' = [stack EXCEPT ![p] = NoStack]
      /\ UNCHANGED <<created, arrived>>
  OBVIOUS
<1>2. SumFunctionOnSet(Price, taken) = Amount(A(p)) + SumFunctionOnSet(Price, taken')
  BY <1>0, <1>1, PriceIsNatural, SumRemove
<1>3. IsFiniteSet(taken')
  BY <1>0, <1>1, FS_Subset
<1>4. SumFunctionOnSet(Price, taken') \in Int
  BY <1>0, <1>1, <1>3, PriceIsNatural, SumInt
<1>5. Covering'
  BY <1>0, <1>1, <1>2, <1>4, PriceIsNatural DEF SpendInv, Covering
<1>6. SpendTypes'
  BY <1>0, <1>1, <1>3, PriceIsNatural DEF SpendInv, SpendTypes
<1>7. \A q \in Procs : AttemptKnown(q)'
  <2> SUFFICES ASSUME NEW q \in Procs PROVE AttemptKnown(q)'
    OBVIOUS
  <2>1. CASE q = p
    BY <1>0, <1>1, <2>1 DEF AttemptKnown
  <2>2. CASE q # p
    <3>1. pc[q] # "idle" => A(q) # A(p)
      BY <2>2 DEF SpendInv, AttemptOfOne, Rollback
    <3> QED
      BY <1>0, <1>1, <2>2, <3>1 DEF SpendInv, AttemptKnown
  <2> QED
    BY <2>1, <2>2
<1>8. \A q, r \in Procs : AttemptOfOne(q, r)'
  BY <1>0, <1>1 DEF SpendInv, AttemptOfOne
<1> QED
  BY <1>5, <1>6, <1>7, <1>8 DEF SpendInv

LEMMA SaveCovers == ASSUME SpendInv, NEW p \in Procs, Save(p) PROVE SpendInv'
<1> USE DEF Save, JumpWith, Return, Answer, Conclude, Frame, A, Spends
<1>0. /\ DOMAIN pc = Procs /\ DOMAIN stack = Procs
      /\ A(p) \in Attempts /\ A(p) \in arrived
      /\ Spends(A(p)) <=> A(p) \in taken
  BY DEF SpendInv, SpendTypes, AttemptKnown
<1>1. /\ created' = created \cup {A(p)} /\ UNCHANGED <<wallet, taken, arrived>>
      /\ \A q \in Procs \ {p} : pc'[q] = pc[q] /\ stack'[q] = stack[q]
      /\ DOMAIN pc' = Procs /\ DOMAIN stack' = Procs
      /\ pc'[p] = "idle" \/ (pc'[p] = "record" /\ stack'[p].subject = A(p))
  BY <1>0
<1>2. SpendTypes' /\ Covering'
  BY <1>0, <1>1 DEF SpendInv, SpendTypes, Covering
<1>3. \A q \in Procs : AttemptKnown(q)'
  <2> SUFFICES ASSUME NEW q \in Procs PROVE AttemptKnown(q)'
    OBVIOUS
  <2>1. CASE q = p
    BY <1>0, <1>1, <2>1 DEF AttemptKnown
  <2>2. CASE q # p
    <3>1. pc[q] # "idle" => A(q) # A(p)
      BY <2>2 DEF SpendInv, AttemptOfOne
    <3> QED
      BY <1>0, <1>1, <2>2, <3>1 DEF SpendInv, AttemptKnown
  <2> QED
    BY <2>1, <2>2
<1>4. \A q, r \in Procs : AttemptOfOne(q, r)'
  BY <1>0, <1>1 DEF SpendInv, AttemptOfOne
<1> QED
  BY <1>2, <1>3, <1>4 DEF SpendInv

LEMMA StartCovers ==
    ASSUME SpendInv, NEW p \in Procs, NEW a \in Attempts, StartSpending(p, a) PROVE SpendInv'
<1> USE DEF StartSpending, Begin, Frame, A
<1>0. DOMAIN pc = Procs /\ DOMAIN stack = Procs /\ a \notin taken \cup created
  BY DEF SpendInv, SpendTypes, Covering
<1>1. /\ UNCHANGED <<wallet, taken, created>> /\ arrived' = arrived \cup {a}
      /\ \A q \in Procs \ {p} : pc'[q] = pc[q] /\ stack'[q] = stack[q]
      /\ DOMAIN pc' = Procs /\ DOMAIN stack' = Procs
      /\ pc'[p] \in {"check", "lookup", "auth"} /\ stack'[p].subject = a
  BY <1>0
<1>2. \A q \in Procs \ {p} : pc[q] # "idle" => A(q) # a
  BY DEF SpendInv, AttemptKnown
<1>3. SpendTypes' /\ Covering'
  BY <1>0, <1>1 DEF SpendInv, SpendTypes, Covering
<1>4. \A q \in Procs : AttemptKnown(q)'
  BY <1>0, <1>1 DEF SpendInv, AttemptKnown
<1>5. \A q, r \in Procs : AttemptOfOne(q, r)'
  BY <1>1, <1>2 DEF SpendInv, AttemptOfOne
<1> QED
  BY <1>3, <1>4, <1>5 DEF SpendInv

LEMMA SpendStep == SpendInv /\ [SpendingNext]_spendingVars => SpendInv'
<1> SUFFICES ASSUME SpendInv, [SpendingNext]_spendingVars PROVE SpendInv'
  OBVIOUS
<1> USE DEF Jump, JumpWith, Return, FaultyReturn, FaultyJump, Answer, Conclude, Frame, A
<1>0. /\ DOMAIN pc = Procs /\ DOMAIN stack = Procs
      /\ \A p \in Procs : AttemptKnown(p)
  BY DEF SpendInv, SpendTypes
<1>1. ASSUME UNCHANGED <<pc, stack, wallet, taken, created, arrived>> PROVE SpendInv'
  BY <1>1 DEF SpendInv, SpendTypes, AttemptKnown, AttemptOfOne, Covering
<1>2. CASE UNCHANGED spendingVars
  BY <1>1, <1>2 DEF spendingVars, reqVars, spendVars
<1>3. CASE \E k \in IdemKeys : ExpireRecord(k)
  BY <1>1, <1>3 DEF ExpireRecord, reqVars
<1>4. ASSUME NEW p \in Procs, Lookup(p) \/ Authenticate(p) \/ CheckBalance(p) PROVE SpendInv'
  <2>1. SpendQuiet(p)
    BY <1>0, <1>4 DEF Lookup, Authenticate, CheckBalance, SpendQuiet, AttemptKnown, Spends
  <2> QED
    BY <2>1, SpendQuietStep
<1>5. ASSUME NEW p \in Procs,
             FailToSave(p) \/ FailToRollback(p) \/ Record(p) \/ FailToRecord(p) \/ SpendingCrash(p)
      PROVE  SpendInv'
  <2>1. SpendQuiet(p)
    BY <1>0, <1>5
       DEF FailToSave, FailToRollback, Record, FailToRecord, SpendingCrash, spendVars, SpendQuiet,
           AttemptKnown, Spends
  <2> QED
    BY <2>1, SpendQuietStep
<1> QED
  BY <1>2, <1>3, <1>4, <1>5, DebitCovers, RollbackCovers, SaveCovers, StartCovers DEF SpendingNext

LEMMA SpendInvariant == SpendingSpec => []SpendInv
BY SpendStart, SpendStep, PTL DEF SpendingSpec

(* Whatever requests run at once and however stale their checks are, the   *)
(* wallet is never overdrawn and every transaction was paid from it.       *)
THEOREM SpendingIsCovered == SpendingSpec => []SpentIsCovered
<1>1. SpendInv => SpentIsCovered
  <2> SUFFICES ASSUME SpendInv PROVE SpentIsCovered
    OBVIOUS
  <2> DEFINE paid == {a \in created : Spends(a)}
  <2>1. paid \subseteq taken /\ taken \subseteq Attempts /\ IsFiniteSet(taken)
    BY DEF SpendInv, Covering, SpendTypes
  <2>2. SumFunctionOnSet(Price, paid) <= SumFunctionOnSet(Price, taken)
    BY <2>1, PriceIsNatural, SumOfPart
  <2>3. SumFunctionOnSet(Price, paid) \in Int /\ SumFunctionOnSet(Price, taken) \in Int
    <3>1. IsFiniteSet(paid)
      BY <2>1, FS_Subset
    <3> QED
      BY <2>1, <3>1, PriceIsNatural, SumInt
  <2>4. /\ wallet \in Int /\ wallet >= 0 /\ Purse \in Nat
        /\ wallet + SumFunctionOnSet(Price, taken) = Purse
    BY SpendingAssumption DEF SpendInv, Covering, SpendTypes
  <2>5. wallet + SumFunctionOnSet(Price, paid) <= Purse
    BY <2>2, <2>3, <2>4
  <2> QED
    BY <2>4, <2>5 DEF SpentIsCovered, Total, Price
<1> QED
  BY <1>1, SpendInvariant, PTL

----
(* Idempotency keys.                                                       *)
LEMMA SpendFaultCount == SpendingSpec => []FaultCount
<1>1. SpendingInit => FaultCount
  BY DEF SpendingInit, RequestsInit, FaultCount
<1>2. FaultCount /\ [SpendingNext]_spendingVars => FaultCount'
  BY DEF FaultCount, SpendingNext, spendingVars, reqVars, ExpireRecord, StartSpending, Lookup,
         Authenticate, CheckBalance, Debit, Save, FailToSave, Rollback, FailToRollback, Record,
         FailToRecord, SpendingCrash, Begin, Jump, JumpWith, Return, Answer, Conclude,
         FaultyReturn, FaultyJump, Faulty
<1> QED
  BY <1>1, <1>2, PTL DEF SpendingSpec

(* The attempts a key stands for.                                          *)
ApiKey(a, k) == InApi(a) /\ Keyed(a) /\ IdemKey(a) = k
AtWorkOn(p, k) == pc[p] # "idle" /\ ApiKey(A(p), k)
BeforeRecord == {"auth", "check", "debit", "save", "rollback"}
Clean(k) == Serene /\ k \notin raced \cup aged

KeyTypes ==
    /\ record \in [IdemKeys -> {"none", "invalid"} \cup Attempts]
    /\ \A p \in Procs :
        /\ pc[p] # "idle" => stack[p].response \in {"invalid"} \cup Attempts
        /\ pc[p] \in {"lookup", "record"} => InApi(A(p)) /\ Keyed(A(p))

KeyFacts(k) ==
    /\ \A p, q \in Procs : AtWorkOn(p, k) /\ AtWorkOn(q, k) => p = q
    /\ \A p \in Procs : AtWorkOn(p, k) /\ pc[p] \in BeforeRecord =>
         record[k] = "none" /\ \A b \in created : ~ApiKey(b, k)
    /\ \A b \in created : ApiKey(b, k) =>
         record[k] # "none" \/ \E p \in Procs : pc[p] = "record" /\ A(p) = b
    /\ \A a, b \in created : ApiKey(a, k) /\ ApiKey(b, k) => a = b

KeyInv == KeyTypes /\ \A k \in IdemKeys : Clean(k) => KeyFacts(k)

LEMMA KeyStart == SpendingInit => KeyInv
BY DEF SpendingInit, RequestsInit, KeyInv, KeyTypes, KeyFacts, AtWorkOn

LEMMA KeyTypesStep ==
    SpendInv /\ KeyTypes /\ [SpendingNext]_spendingVars => KeyTypes'
<1> SUFFICES ASSUME SpendInv, KeyTypes, [SpendingNext]_spendingVars PROVE KeyTypes'
  OBVIOUS
<1> USE DEF Jump, JumpWith, Return, FaultyReturn, FaultyJump, Answer, Conclude, Frame, A
<1>0. /\ DOMAIN pc = Procs /\ DOMAIN stack = Procs
      /\ record \in [IdemKeys -> {"none", "invalid"} \cup Attempts]
      /\ \A p \in Procs : pc[p] # "idle" => A(p) \in Attempts
  BY DEF SpendInv, SpendTypes, AttemptKnown, KeyTypes
<1>1. CASE UNCHANGED spendingVars
  BY <1>1 DEF KeyTypes, spendingVars, reqVars, spendVars
<1>2. ASSUME NEW k \in IdemKeys, ExpireRecord(k) PROVE KeyTypes'
  BY <1>0, <1>2 DEF ExpireRecord, KeyTypes, reqVars
<1>3. ASSUME NEW p \in Procs, UNCHANGED record,
             \A q \in Procs \ {p} : pc'[q] = pc[q] /\ stack'[q] = stack[q],
             pc'[p] # "idle" => stack'[p].response \in {"invalid"} \cup Attempts,
             pc'[p] \in {"lookup", "record"} =>
                InApi(stack'[p].subject) /\ Keyed(stack'[p].subject)
      PROVE  KeyTypes'
  BY <1>3 DEF KeyTypes
<1>4. ASSUME NEW p \in Procs, NEW a \in Attempts, StartSpending(p, a) PROVE KeyTypes'
  BY <1>0, <1>3, <1>4 DEF StartSpending, Begin
<1>5. ASSUME NEW p \in Procs, Lookup(p) \/ Authenticate(p) \/ CheckBalance(p) PROVE KeyTypes'
  BY <1>0, <1>3, <1>5 DEF Lookup, Authenticate, CheckBalance, KeyTypes
<1>6. ASSUME NEW p \in Procs, Debit(p) \/ Save(p) \/ Rollback(p) PROVE KeyTypes'
  BY <1>0, <1>3, <1>6 DEF Debit, Save, Rollback, KeyTypes
<1>7. ASSUME NEW p \in Procs, FailToSave(p) \/ FailToRollback(p) \/ FailToRecord(p) \/ SpendingCrash(p)
      PROVE  KeyTypes'
  BY <1>0, <1>3, <1>7 DEF FailToSave, FailToRollback, FailToRecord, SpendingCrash, spendVars, KeyTypes
<1>8. ASSUME NEW p \in Procs, Record(p) PROVE KeyTypes'
  <2>1. /\ pc[p] = "record" /\ pc' = [pc EXCEPT ![p] = "idle"]
        /\ stack' = [stack EXCEPT ![p] = NoStack]
        /\ record' = record \/ record' = [record EXCEPT ![IdemKey(A(p))] = stack[p].response]
    BY <1>8 DEF Record
  <2>2. stack[p].response \in {"invalid"} \cup Attempts
    BY <2>1 DEF KeyTypes
  <2> QED
    BY <1>0, <2>1, <2>2 DEF KeyTypes
<1> QED
  BY <1>1, <1>2, <1>4, <1>5, <1>6, <1>7, <1>8 DEF SpendingNext

(* A step of p that does not concern k.                                    *)
LEMMA OtherKeyStep ==
    ASSUME SpendInv, NEW k \in IdemKeys, KeyFacts(k), NEW p \in Procs,
           \A q \in Procs \ {p} : pc'[q] = pc[q] /\ stack'[q] = stack[q],
           ~AtWorkOn(p, k), ~AtWorkOn(p, k)', record'[k] = record[k],
           created' = created \/ (pc[p] # "idle" /\ created' = created \cup {A(p)}),
           pc[p] = "record" => InApi(A(p)) /\ Keyed(A(p))
    PROVE  KeyFacts(k)'
<1>1. \A b \in created' : ApiKey(b, k) => b \in created
  BY DEF AtWorkOn
<1>2. \A q \in Procs : AtWorkOn(q, k)' => q # p /\ AtWorkOn(q, k)
  BY DEF AtWorkOn, A
<1>3. \A q \in Procs, r \in Procs : AtWorkOn(q, k)' /\ AtWorkOn(r, k)' => q = r
  BY <1>2 DEF KeyFacts
<1>4. \A q \in Procs : AtWorkOn(q, k)' /\ pc'[q] \in BeforeRecord =>
         record'[k] = "none" /\ \A b \in created' : ~ApiKey(b, k)
  BY <1>1, <1>2 DEF KeyFacts
<1>5. ASSUME NEW b \in created', ApiKey(b, k)
      PROVE  record'[k] # "none" \/ \E q \in Procs : pc'[q] = "record" /\ A(q)' = b
  <2>1. record[k] # "none" \/ \E q \in Procs : pc[q] = "record" /\ A(q) = b
    BY <1>1, <1>5 DEF KeyFacts
  <2>2. ASSUME NEW q \in Procs, pc[q] = "record", A(q) = b
        PROVE  pc'[q] = "record" /\ A(q)' = b
    BY <1>5, <2>2 DEF AtWorkOn, A
  <2> QED
    BY <2>1, <2>2
<1>6. \A a, b \in created' : ApiKey(a, k) /\ ApiKey(b, k) => a = b
  BY <1>1 DEF KeyFacts
<1> QED
  BY <1>3, <1>4, <1>5, <1>6 DEF KeyFacts

(* A step of the one handler at work on k.                                 *)
LEMMA OwnKeyStep ==
    ASSUME SpendInv, NEW k \in IdemKeys, KeyFacts(k), NEW p \in Procs, AtWorkOn(p, k),
           \A q \in Procs \ {p} : pc'[q] = pc[q] /\ stack'[q] = stack[q],
           pc'[p] = "idle" \/ stack'[p].subject = A(p),
           pc'[p] \in BeforeRecord =>
              /\ pc[p] \in BeforeRecord \/ (record[k] = "none" /\ pc[p] = "lookup")
              /\ record' = record /\ created' = created,
           \/ (created' = created /\ pc[p] # "record" /\ record' = record)
           \/ (created' = created /\ record'[k] # "none")
           \/ (/\ created' = created \cup {A(p)} /\ record' = record
               /\ pc[p] = "save" /\ pc'[p] = "record")
    PROVE  KeyFacts(k)'
<1>0. \A q \in Procs \ {p} : ~AtWorkOn(q, k)
  BY DEF KeyFacts
<1>1. \A q \in Procs : AtWorkOn(q, k)' => q = p
  BY <1>0 DEF AtWorkOn, A
<1>2. \A b \in created : ApiKey(b, k) => record[k] # "none" \/ (pc[p] = "record" /\ A(p) = b)
  BY <1>0 DEF KeyFacts, AtWorkOn
<1>3. \A q \in Procs : AtWorkOn(q, k)' /\ pc'[q] \in BeforeRecord =>
         record'[k] = "none" /\ \A b \in created' : ~ApiKey(b, k)
  BY <1>1, <1>2 DEF KeyFacts, BeforeRecord
<1>4. \A b \in created' : ApiKey(b, k) =>
         record'[k] # "none" \/ \E q \in Procs : pc'[q] = "record" /\ A(q)' = b
  BY <1>2 DEF A
<1>5. \A a, b \in created' : ApiKey(a, k) /\ ApiKey(b, k) => a = b
  BY DEF KeyFacts, BeforeRecord
<1> QED
  BY <1>1, <1>3, <1>4, <1>5 DEF KeyFacts

(* An attempt with k arrives: nobody is at work on k, or k is in raced.    *)
LEMMA FirstKeyStep ==
    ASSUME SpendInv, NEW k \in IdemKeys, Clean(k)', KeyFacts(k),
           NEW p \in Procs, NEW a \in Attempts, StartSpending(p, a), ApiKey(a, k)
    PROVE  KeyFacts(k)'
<1>0. /\ DOMAIN pc = Procs /\ DOMAIN stack = Procs
      /\ \A q \in Procs : pc[q] # "idle" => A(q) \in Attempts
  BY DEF SpendInv, SpendTypes, AttemptKnown
<1>1. /\ pc[p] = "idle" /\ pc' = [pc EXCEPT ![p] = "lookup"]
      /\ stack' = [stack EXCEPT ![p] = Frame(a, a)]
      /\ record' = record /\ created' = created
  BY DEF StartSpending, Begin, ApiKey
<1>2. ASSUME NEW q \in Procs, AtWorkOn(q, k) PROVE FALSE
  <2>1. A(q) \in Attempts /\ IdemKey(A(q)) = IdemKey(a) /\ AtWork(A(q))
    BY <1>0, <1>2 DEF AtWorkOn, ApiKey, AtWork
  <2>2. IdemKey(A(q)) \in raced'
    BY <2>1 DEF StartSpending, ApiKey
  <2> QED
    BY <2>1, <2>2 DEF Clean, ApiKey
<1>3. \A q \in Procs : AtWorkOn(q, k)' => q = p
  BY <1>0, <1>1, <1>2 DEF AtWorkOn, A
<1>4. \A q \in Procs : ~(AtWorkOn(q, k)' /\ pc'[q] \in BeforeRecord)
  BY <1>0, <1>1, <1>3 DEF BeforeRecord
<1>5. \A b \in created' : ApiKey(b, k) => record'[k] # "none"
  BY <1>1, <1>2 DEF KeyFacts, AtWorkOn
<1> QED
  BY <1>1, <1>3, <1>4, <1>5 DEF KeyFacts

LEMMA KeyStep ==
    ASSUME SpendInv, FaultCount, KeyTypes, SpendingNext, NEW k \in IdemKeys, Clean(k)',
           Clean(k) => KeyFacts(k)
    PROVE  KeyFacts(k)'
<1> USE DEF Jump, JumpWith, Return, Answer, Conclude, Frame, A
<1>0. /\ DOMAIN pc = Procs /\ DOMAIN stack = Procs
      /\ record \in [IdemKeys -> {"none", "invalid"} \cup Attempts]
      /\ \A p \in Procs : pc[p] # "idle" => A(p) \in Attempts
      /\ \A p \in Procs : pc[p] \in {"lookup", "record"} => InApi(A(p)) /\ Keyed(A(p))
      /\ "none" \notin Attempts
  BY SpendingAssumption DEF SpendInv, SpendTypes, AttemptKnown, KeyTypes
<1>1. \A x : ~Faulty(x)
  BY FaultIsSeen DEF Clean
<1>2. UNCHANGED faults /\ raced \subseteq raced' /\ aged \subseteq aged'
  BY <1>1
     DEF SpendingNext, reqVars, spendVars, ExpireRecord, StartSpending, Lookup, Authenticate,
         CheckBalance, Debit, Save, FailToSave, Rollback, FailToRollback, Record, FailToRecord,
         SpendingCrash, Begin, FaultyReturn, FaultyJump
<1>3. KeyFacts(k)
  BY <1>2 DEF Clean, Serene
<1>4. ASSUME NEW i \in IdemKeys, ExpireRecord(i) PROVE KeyFacts(k)'
  <2>1. i # k
    BY <1>4 DEF ExpireRecord, Clean
  <2>2. record'[k] = record[k] /\ UNCHANGED <<pc, stack, created>>
    BY <1>0, <1>4, <2>1 DEF ExpireRecord, reqVars
  <2> QED
    BY <1>3, <2>2 DEF KeyFacts, AtWorkOn
<1>5. ASSUME NEW p \in Procs, NEW a \in Attempts, StartSpending(p, a) PROVE KeyFacts(k)'
  <2>1. CASE ApiKey(a, k)
    BY <1>3, <1>5, <2>1, FirstKeyStep
  <2>2. CASE ~ApiKey(a, k)
    <3>1. pc[p] = "idle" /\ A(p)' = a /\ record' = record /\ created' = created
      BY <1>0, <1>5 DEF StartSpending, Begin
    <3>2. \A q \in Procs \ {p} : pc'[q] = pc[q] /\ stack'[q] = stack[q]
      BY <1>0, <1>5 DEF StartSpending, Begin
    <3>3. ~AtWorkOn(p, k) /\ ~AtWorkOn(p, k)'
      BY <2>2, <3>1 DEF AtWorkOn
    <3> QED
      BY <1>3, <3>1, <3>2, <3>3, OtherKeyStep
  <2> QED
    BY <2>1, <2>2
<1>6. ASSUME NEW p \in Procs, pc[p] # "idle", ~AtWorkOn(p, k),
             \A q \in Procs \ {p} : pc'[q] = pc[q] /\ stack'[q] = stack[q],
             pc'[p] # "idle" => stack'[p].subject = A(p),
             record'[k] = record[k], created' = created \/ created' = created \cup {A(p)}
      PROVE  KeyFacts(k)'
  <2>1. ~AtWorkOn(p, k)'
    BY <1>6 DEF AtWorkOn
  <2> QED
    BY <1>0, <1>3, <1>6, <2>1, OtherKeyStep
<1>7. ASSUME NEW p \in Procs, Lookup(p) PROVE KeyFacts(k)'
  <2>1. /\ pc[p] = "lookup" /\ record' = record /\ created' = created
        /\ \A q \in Procs \ {p} : pc'[q] = pc[q] /\ stack'[q] = stack[q]
        /\ \/ pc'[p] = "auth" /\ stack'[p].subject = A(p) /\ record[IdemKey(A(p))] = "none"
           \/ pc'[p] = "idle"
    BY <1>0, <1>7 DEF Lookup
  <2>2. CASE AtWorkOn(p, k)
    BY <1>3, <2>1, <2>2, OwnKeyStep DEF AtWorkOn, ApiKey, BeforeRecord
  <2> QED
    BY <1>6, <2>1, <2>2
<1>8. ASSUME NEW p \in Procs, Authenticate(p) \/ CheckBalance(p) PROVE KeyFacts(k)'
  <2>1. /\ pc[p] \in {"auth", "check"} /\ record' = record /\ created' = created
        /\ \A q \in Procs \ {p} : pc'[q] = pc[q] /\ stack'[q] = stack[q]
        /\ pc'[p] # "idle" => stack'[p].subject = A(p)
    BY <1>0, <1>8 DEF Authenticate, CheckBalance
  <2>2. CASE AtWorkOn(p, k)
    BY <1>3, <2>1, <2>2, OwnKeyStep DEF BeforeRecord
  <2> QED
    BY <1>6, <2>1, <2>2
<1>9. ASSUME NEW p \in Procs, Debit(p) \/ Rollback(p) PROVE KeyFacts(k)'
  <2>1. /\ pc[p] \in {"debit", "rollback"} /\ record' = record /\ created' = created
        /\ \A q \in Procs \ {p} : pc'[q] = pc[q] /\ stack'[q] = stack[q]
        /\ pc'[p] # "idle" => stack'[p].subject = A(p)
    BY <1>0, <1>9 DEF Debit, Rollback
  <2>2. CASE AtWorkOn(p, k)
    BY <1>3, <2>1, <2>2, OwnKeyStep DEF BeforeRecord
  <2> QED
    BY <1>6, <2>1, <2>2
<1>10. ASSUME NEW p \in Procs, Save(p) PROVE KeyFacts(k)'
  <2>1. /\ pc[p] = "save" /\ record' = record /\ created' = created \cup {A(p)}
        /\ \A q \in Procs \ {p} : pc'[q] = pc[q] /\ stack'[q] = stack[q]
        /\ pc'[p] # "idle" => stack'[p].subject = A(p)
        /\ Keyed(A(p)) /\ InApi(A(p)) => pc'[p] = "record"
        /\ pc'[p] \in {"record", "idle"}
    BY <1>0, <1>10 DEF Save
  <2>2. CASE AtWorkOn(p, k)
    <3>1. pc'[p] = "record" /\ stack'[p].subject = A(p)
      BY <2>1, <2>2 DEF AtWorkOn, ApiKey
    <3> QED
      BY <1>3, <2>1, <2>2, <3>1, OwnKeyStep DEF BeforeRecord
  <2> QED
    BY <1>6, <2>1, <2>2
<1>11. ASSUME NEW p \in Procs, Record(p) PROVE KeyFacts(k)'
  <2>1. /\ pc[p] = "record" /\ created' = created /\ pc'[p] = "idle"
        /\ \A q \in Procs \ {p} : pc'[q] = pc[q] /\ stack'[q] = stack[q]
        /\ \/ record[IdemKey(A(p))] # "none" /\ record' = record
           \/ record' = [record EXCEPT ![IdemKey(A(p))] = stack[p].response]
    BY <1>0, <1>11 DEF Record
  <2>2. stack[p].response # "none"
    BY <1>0, <2>1 DEF KeyTypes
  <2>3. CASE AtWorkOn(p, k)
    <3>1. record'[k] # "none"
      BY <1>0, <2>1, <2>2, <2>3 DEF AtWorkOn, ApiKey
    <3> QED
      BY <1>3, <2>1, <2>3, <3>1, OwnKeyStep DEF BeforeRecord
  <2>4. CASE ~AtWorkOn(p, k)
    <3>1. record'[k] = record[k]
      BY <1>0, <2>1, <2>4 DEF AtWorkOn, ApiKey
    <3> QED
      BY <1>6, <2>1, <2>4, <3>1
  <2> QED
    BY <2>3, <2>4
<1> QED
  BY <1>1, <1>4, <1>5, <1>7, <1>8, <1>9, <1>10, <1>11
     DEF SpendingNext, FailToSave, FailToRollback, FailToRecord, SpendingCrash,
         FaultyReturn, FaultyJump

LEMMA KeyInvariant == SpendingSpec => []KeyInv
<1>1. SpendInv /\ FaultCount /\ KeyInv /\ [SpendingNext]_spendingVars => KeyInv'
  <2> SUFFICES ASSUME SpendInv, FaultCount, KeyInv, [SpendingNext]_spendingVars PROVE KeyInv'
    OBVIOUS
  <2>1. KeyTypes'
    BY KeyTypesStep DEF KeyInv
  <2>2. IdemKeys' = IdemKeys
    BY DEF IdemKeys
  <2>3. ASSUME NEW k \in IdemKeys, Clean(k)' PROVE KeyFacts(k)'
    <3>1. CASE SpendingNext
      BY <2>3, <3>1, KeyStep DEF KeyInv
    <3>2. CASE UNCHANGED spendingVars
      BY <2>3, <3>2
         DEF KeyInv, KeyFacts, Clean, Serene, AtWorkOn, A, spendingVars, reqVars, spendVars
    <3> QED
      BY <3>1, <3>2
  <2> QED
    BY <2>1, <2>2, <2>3 DEF KeyInv
<1> QED
  BY <1>1, KeyStart, SpendInvariant, SpendFaultCount, PTL DEF SpendingSpec

(* The idempotency keys of the API keep their promise: one transaction for *)
(* one key, unless two attempts overlapped, the record expired or was lost.*)
THEOREM KeyHasOneTransaction == SpendingSpec => []KeyRunsOnce
<1>1. SpendInv /\ KeyInv => KeyRunsOnce
  BY DEF SpendInv, SpendTypes, KeyInv, KeyFacts, ApiKey, Clean, KeyRunsOnce, Keyed, IdemKeys
<1> QED
  BY <1>1, KeyInvariant, SpendInvariant, PTL
====
