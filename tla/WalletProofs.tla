---- MODULE WalletProofs ----
(***************************************************************************)
(* Theorems about Wallet for any set of users, keys, postings and calls.   *)
(***************************************************************************)
EXTENDS Wallet, SumTheorems

(* What a call may do: used to split a step into its actions once.         *)
LEMMA StepCases ==
    ASSUME NEW c \in Calls, NEW P,
           (\E r \in Requests : Invoke(c, r)) => P,
           OpenWallet(c) => P, ApplyCredit(c) => P, ApplyDebit(c) => P,
           RefuseDebit(c) => P, RecordMovement(c) => P, FindDuplicate(c) => P,
           Reverse(c) => P, FailToRecord(c) => P, FailToReverse(c) => P,
           ApplyUnheard(c) => P, RecordUnheard(c) => P, ReverseUnheard(c) => P,
           Stop(c) => P,
           (\E r \in Requests : Invoke(c, r)) \/ Advance(c) \/ Fault(c)
    PROVE  P
BY DEF Advance, Fault

LEMMA EffectIsInteger == \A r \in Requests : Effect(r) \in Int /\ r.amount \in Int
                                             /\ r.user \in Users
BY RequestsAssumption DEF Effect

(* The type invariant is inductive.                                        *)
THEOREM TypeCorrect == Spec => []TypeOK
<1>1. Init => TypeOK
  BY DEF Init, TypeOK, Labels
<1>2. TypeOK /\ [Next]_vars => TypeOK'
  <2> SUFFICES ASSUME TypeOK, [Next]_vars PROVE TypeOK'
    OBVIOUS
  <2>1. CASE UNCHANGED vars
    BY <2>1 DEF vars, TypeOK
  <2>2. CASE Next
    <3> PICK c \in Calls :
          (\E r \in Requests : Invoke(c, r)) \/ Advance(c) \/ Fault(c)
      BY <2>2 DEF Next
    <3> USE EffectIsInteger DEF TypeOK, Labels, InFlight, Thrown, Ended, Goto, Inc
    <3>1. (\E r \in Requests : Invoke(c, r)) => TypeOK'
      BY DEF Invoke
    <3>2. OpenWallet(c) => TypeOK'
      BY DEF OpenWallet
    <3>3. ApplyCredit(c) => TypeOK'
      BY DEF ApplyCredit, AfterApply
    <3>4. ApplyDebit(c) => TypeOK'
      BY DEF ApplyDebit, AfterApply
    <3>5. RefuseDebit(c) => TypeOK'
      BY DEF RefuseDebit
    <3>6. RecordMovement(c) => TypeOK'
      BY DEF RecordMovement
    <3>7. FindDuplicate(c) => TypeOK'
      BY DEF FindDuplicate
    <3>8. Reverse(c) => TypeOK'
      BY DEF Reverse, AfterReverse, Effect
    <3>9. FailToRecord(c) => TypeOK'
      BY DEF FailToRecord
    <3>10. FailToReverse(c) => TypeOK'
      BY DEF FailToReverse, LeftAt
    <3>11. Stop(c) => TypeOK'
      BY DEF Stop, LeftAt
    <3>12. ApplyUnheard(c) => TypeOK'
      BY DEF ApplyUnheard
    <3>13. RecordUnheard(c) => TypeOK'
      BY DEF RecordUnheard
    <3>14. ReverseUnheard(c) => TypeOK'
      BY DEF ReverseUnheard, Effect
    <3> QED
      BY <3>1, <3>2, <3>3, <3>4, <3>5, <3>6, <3>7, <3>8, <3>9, <3>10, <3>11,
         <3>12, <3>13, <3>14, StepCases
  <2> QED
    BY <2>1, <2>2
<1> QED
  BY <1>1, <1>2, PTL DEF Spec

----
(* At most one call per key keeps its money: inductive together with       *)
(* SuccessIsRecorded, because a call that ends as applied inserted the     *)
(* movement of its key and found none there before.                        *)
AtMostOnce == TypeOK /\ SuccessIsRecorded /\ OneCallPerKey

LEMMA AtMostOnceHolds == Spec => []AtMostOnce
<1>1. Init => SuccessIsRecorded /\ OneCallPerKey
  BY DEF Init, SuccessIsRecorded, OneCallPerKey
<1>2. AtMostOnce /\ TypeOK' /\ [Next]_vars => (SuccessIsRecorded /\ OneCallPerKey)'
  <2> DEFINE Safe == SuccessIsRecorded /\ OneCallPerKey
  <2> SUFFICES ASSUME AtMostOnce, TypeOK', [Next]_vars PROVE Safe'
    OBVIOUS
  <2>1. CASE UNCHANGED vars
    BY <2>1 DEF vars, AtMostOnce, SuccessIsRecorded, OneCallPerKey
  <2>2. CASE Next
    <3> PICK c \in Calls :
          (\E r \in Requests : Invoke(c, r)) \/ Advance(c) \/ Fault(c)
      BY <2>2 DEF Next
    <3> USE DEF AtMostOnce, TypeOK, SuccessIsRecorded, OneCallPerKey, Goto
    <3>1. (\E r \in Requests : Invoke(c, r)) => Safe'
      BY DEF Invoke
    <3>2. OpenWallet(c) => Safe'
      BY DEF OpenWallet
    <3>3. ApplyCredit(c) => Safe'
      BY DEF ApplyCredit, AfterApply
    <3>4. ApplyDebit(c) => Safe'
      BY DEF ApplyDebit, AfterApply
    <3>5. RefuseDebit(c) => Safe'
      BY DEF RefuseDebit
    <3>6. RecordMovement(c) => Safe'
      BY DEF RecordMovement, Recorded
    <3>7. FindDuplicate(c) => Safe'
      <4> SUFFICES ASSUME FindDuplicate(c), req[c].key # NoKey
                   PROVE  req[c] \in movements
        BY DEF FindDuplicate
      <4>1. PICK m \in movements : m.key = req[c].key
        BY DEF FindDuplicate, Recorded
      <4>2. m \in Requests /\ req[c] \in Requests
        BY DEF FindDuplicate
      <4> QED
        BY <4>1, <4>2, RequestsAssumption
    <3>8. Reverse(c) => Safe'
      BY DEF Reverse, AfterReverse
    <3>9. FailToRecord(c) => Safe'
      BY DEF FailToRecord
    <3>10. FailToReverse(c) => Safe'
      BY DEF FailToReverse, LeftAt
    <3>11. Stop(c) => Safe'
      BY DEF Stop, LeftAt, InFlight
    <3>12. ApplyUnheard(c) => Safe'
      BY DEF ApplyUnheard
    <3>13. RecordUnheard(c) => Safe'
      BY DEF RecordUnheard
    <3>14. ReverseUnheard(c) => Safe'
      BY DEF ReverseUnheard
    <3> QED
      BY <3>1, <3>2, <3>3, <3>4, <3>5, <3>6, <3>7, <3>8, <3>9, <3>10, <3>11,
         <3>12, <3>13, <3>14, StepCases
  <2> QED
    BY <2>1, <2>2
<1> QED
  BY <1>1, <1>2, TypeCorrect, PTL DEF Spec, AtMostOnce

(* The at-most-once promise of creditBalance and debitBalance: of all the  *)
(* calls with one idempotency key only one keeps its $inc.                 *)
THEOREM AppliedAtMostOnce == Spec => []OneCallPerKey
BY AtMostOnceHolds, PTL DEF AtMostOnce

(* A caller told "applied" or "already applied" finds the movement stored. *)
THEOREM SuccessMeansRecorded == Spec => []SuccessIsRecorded
BY AtMostOnceHolds, PTL DEF AtMostOnce

----
TakenBackLabels == {"skipped", "failed", "disowned"}

(* The $inc of a call is taken back: the overdraft it may make is of a     *)
(* wallet whose credit it was.                                             *)
LEMMA TakenBack ==
    ASSUME TypeOK, OverdraftNeedsReversal, NEW c \in Calls, NEW label,
           pc[c] \in InFlight \cup {"unheard"}, label \in TakenBackLabels,
           Inc(req[c].user, -Effect(req[c])), pc' = [pc EXCEPT ![c] = label], req' = req
    PROVE  OverdraftNeedsReversal'
<1> SUFFICES ASSUME NEW u \in Users, balance'[u] < 0
             PROVE  \E d \in Calls : /\ pc'[d] \in TakenBackLabels
                                     /\ req'[d].type = "credit"
                                     /\ req'[d].user = u
  BY DEF OverdraftNeedsReversal, TakenBackLabels
<1>1. /\ req[c] \in Requests /\ req[c].amount \in Nat /\ req[c].user \in Users
      /\ req[c].type \in {"credit", "debit"}
      /\ pc'[c] \in TakenBackLabels
      /\ \A d \in Calls : pc[d] \in TakenBackLabels => pc'[d] \in TakenBackLabels
  BY RequestsAssumption DEF TypeOK, InFlight
<1>2. CASE req[c].type = "credit" /\ req[c].user = u
  BY <1>1, <1>2
<1>3. CASE ~(req[c].type = "credit" /\ req[c].user = u)
  <2>1. balance[u] < 0
    BY <1>1, <1>3 DEF Inc, Effect, TypeOK
  <2>2. PICK d \in Calls : /\ pc[d] \in TakenBackLabels
                           /\ req[d].type = "credit" /\ req[d].user = u
    BY <2>1 DEF OverdraftNeedsReversal, TakenBackLabels
  <2> QED
    BY <2>2, <1>1
<1> QED
  BY <1>2, <1>3

(* The filter of debitBalance is enough against concurrent debits: only a  *)
(* credit taken back can leave a wallet below zero.                        *)
THEOREM OnlyReversalsOverdraw == Spec => []OverdraftNeedsReversal
<1>1. Init => OverdraftNeedsReversal
  BY DEF Init, OverdraftNeedsReversal
<1>2. TypeOK /\ OverdraftNeedsReversal /\ TypeOK' /\ [Next]_vars
      => OverdraftNeedsReversal'
  <2> SUFFICES ASSUME TypeOK, OverdraftNeedsReversal, TypeOK', [Next]_vars
               PROVE  OverdraftNeedsReversal'
    OBVIOUS
  <2>1. CASE UNCHANGED vars
    BY <2>1 DEF vars, OverdraftNeedsReversal
  <2>2. CASE Next
    <3> PICK c \in Calls :
          (\E r \in Requests : Invoke(c, r)) \/ Advance(c) \/ Fault(c)
      BY <2>2 DEF Next
    <3>0. \A r \in Requests : r.amount \in Nat \ {0} /\ r.user \in Users
                             /\ r.type \in {"credit", "debit"}
      BY RequestsAssumption
    <3> USE <3>0 DEF TypeOK, OverdraftNeedsReversal, Goto, Inc
    <3>1. (\E r \in Requests : Invoke(c, r)) => OverdraftNeedsReversal'
      BY DEF Invoke
    <3>2. OpenWallet(c) => OverdraftNeedsReversal'
      BY DEF OpenWallet
    <3>3. ApplyCredit(c) => OverdraftNeedsReversal'
      BY DEF ApplyCredit, AfterApply
    <3>4. ApplyDebit(c) => OverdraftNeedsReversal'
      BY DEF ApplyDebit, AfterApply, Covered
    <3>5. RefuseDebit(c) => OverdraftNeedsReversal'
      BY DEF RefuseDebit
    <3>6. RecordMovement(c) => OverdraftNeedsReversal'
      BY DEF RecordMovement
    <3>7. FindDuplicate(c) => OverdraftNeedsReversal'
      BY DEF FindDuplicate
    <3>8. Reverse(c) => OverdraftNeedsReversal'
      <4> SUFFICES ASSUME Reverse(c) PROVE OverdraftNeedsReversal'
        OBVIOUS
      <4>1. AfterReverse(pc[c]) \in TakenBackLabels /\ pc[c] \in InFlight \cup {"unheard"}
        BY DEF Reverse, AfterReverse, TakenBackLabels, InFlight
      <4> QED
        BY <4>1, TakenBack DEF Reverse
    <3>9. FailToRecord(c) => OverdraftNeedsReversal'
      BY DEF FailToRecord
    <3>10. FailToReverse(c) => OverdraftNeedsReversal'
      BY DEF FailToReverse, LeftAt
    <3>11. Stop(c) => OverdraftNeedsReversal'
      BY DEF Stop, LeftAt, InFlight
    <3>12. ApplyUnheard(c) => OverdraftNeedsReversal'
      BY DEF ApplyUnheard, Covered, Effect
    <3>13. RecordUnheard(c) => OverdraftNeedsReversal'
      BY DEF RecordUnheard
    <3>14. ReverseUnheard(c) => OverdraftNeedsReversal'
      <4> SUFFICES ASSUME ReverseUnheard(c) PROVE OverdraftNeedsReversal'
        OBVIOUS
      <4>1. "failed" \in TakenBackLabels /\ pc[c] \in InFlight \cup {"unheard"}
        BY DEF ReverseUnheard, TakenBackLabels, InFlight
      <4> QED
        BY <4>1, TakenBack DEF ReverseUnheard
    <3> QED
      BY <3>1, <3>2, <3>3, <3>4, <3>5, <3>6, <3>7, <3>8, <3>9, <3>10, <3>11,
         <3>12, <3>13, <3>14, StepCases
  <2> QED
    BY <2>1, <2>2
<1> QED
  BY <1>1, <1>2, TypeCorrect, PTL DEF Spec

----
(* The wallet is made of four sums.  Both the settled balance and the      *)
(* refinement of Ledger follow from how a step changes them.               *)
EffectOf == [r \in Requests |-> Effect(r)]
Booked(u) == {m \in movements : m.user = u}
HalfLabels == InFlight \cup {"stranded"}
SumLabels == HalfLabels \cup {"applied", "disowned"}

(* A call that has a movement to store or to undo has a key, and so has a  *)
(* movement.                                                               *)
KeyedOnly ==
    /\ \A c \in Calls : pc[c] \in InFlight \cup {"unheard"} => req[c].key # NoKey
    /\ \A m \in movements : m.key # NoKey
    /\ IsFiniteSet(movements)

BalanceSplit ==
    \A u \in Users : balance[u] = OnLedger(u) + FromUnkeyed(u)
                                    + FromHalfDone(u) - FromDisowned(u)

LEMMA KeyedOnlyHolds == Spec => []KeyedOnly
<1>1. Init => KeyedOnly
  BY FS_EmptySet DEF Init, KeyedOnly, HalfLabels, InFlight
<1>2. TypeOK /\ TypeOK' /\ KeyedOnly /\ [Next]_vars => KeyedOnly'
  <2> SUFFICES ASSUME TypeOK, TypeOK', KeyedOnly, [Next]_vars PROVE KeyedOnly'
    OBVIOUS
  <2>1. CASE UNCHANGED vars
    BY <2>1 DEF vars, KeyedOnly
  <2>2. CASE Next
    <3> PICK c \in Calls :
          (\E r \in Requests : Invoke(c, r)) \/ Advance(c) \/ Fault(c)
      BY <2>2 DEF Next
    <3> USE DEF TypeOK, KeyedOnly, Goto, HalfLabels, InFlight
    <3>1. (\E r \in Requests : Invoke(c, r)) => KeyedOnly'
      BY DEF Invoke
    <3>2. OpenWallet(c) => KeyedOnly'
      BY DEF OpenWallet
    <3>3. ApplyCredit(c) => KeyedOnly'
      BY DEF ApplyCredit, AfterApply
    <3>4. ApplyDebit(c) => KeyedOnly'
      BY DEF ApplyDebit, AfterApply
    <3>5. RefuseDebit(c) => KeyedOnly'
      BY DEF RefuseDebit
    <3>6. RecordMovement(c) => KeyedOnly'
      BY FS_AddElement DEF RecordMovement
    <3>7. FindDuplicate(c) => KeyedOnly'
      BY DEF FindDuplicate
    <3>8. Reverse(c) => KeyedOnly'
      BY DEF Reverse, AfterReverse
    <3>9. FailToRecord(c) => KeyedOnly'
      BY DEF FailToRecord
    <3>10. FailToReverse(c) => KeyedOnly'
      BY DEF FailToReverse, LeftAt
    <3>11. Stop(c) => KeyedOnly'
      BY DEF Stop, LeftAt, InFlight
    <3>12. ApplyUnheard(c) => KeyedOnly'
      BY DEF ApplyUnheard
    <3>13. RecordUnheard(c) => KeyedOnly'
      BY FS_AddElement DEF RecordUnheard
    <3>14. ReverseUnheard(c) => KeyedOnly'
      BY DEF ReverseUnheard
    <3> QED
      BY <3>1, <3>2, <3>3, <3>4, <3>5, <3>6, <3>7, <3>8, <3>9, <3>10, <3>11,
         <3>12, <3>13, <3>14, StepCases
  <2> QED
    BY <2>1, <2>2
<1> QED
  BY <1>1, <1>2, TypeCorrect, PTL DEF Spec

(* The four sums are integers.                                             *)
LEMMA SumsAreIntegers ==
    ASSUME TypeOK, KeyedOnly, NEW u \in Users
    PROVE  /\ OnLedger(u) \in Int /\ FromUnkeyed(u) \in Int
           /\ FromHalfDone(u) \in Int /\ FromDisowned(u) \in Int
           /\ IsFiniteSet(Booked(u)) /\ IsFiniteSet(Unkeyed(u))
           /\ IsFiniteSet(HalfDone(u)) /\ IsFiniteSet(Disowned(u))
           /\ \A c \in Unkeyed(u) \cup HalfDone(u) \cup Disowned(u) :
                 CallEffect[c] = Effect(req[c]) /\ CallEffect[c] \in Int
<1>1. /\ IsFiniteSet(Booked(u)) /\ IsFiniteSet(Unkeyed(u))
      /\ IsFiniteSet(HalfDone(u)) /\ IsFiniteSet(Disowned(u))
  BY CallsAssumption, FS_Subset DEF KeyedOnly, Booked, Unkeyed, HalfDone, Disowned
<1>2. \A m \in Booked(u) : EffectOf[m] \in Int
  BY EffectIsInteger DEF TypeOK, Booked, EffectOf
<1>3. \A c \in Unkeyed(u) \cup HalfDone(u) \cup Disowned(u) : req[c] \in Requests
  BY DEF TypeOK, Unkeyed, HalfDone, Disowned, InFlight
<1>4. \A c \in Unkeyed(u) \cup HalfDone(u) \cup Disowned(u) :
         CallEffect[c] = Effect(req[c]) /\ CallEffect[c] \in Int
  BY <1>3, EffectIsInteger DEF CallEffect, Unkeyed, HalfDone, Disowned
<1>5. /\ SumFunctionOnSet(EffectOf, Booked(u)) \in Int
      /\ SumFunctionOnSet(CallEffect, Unkeyed(u)) \in Int
      /\ SumFunctionOnSet(CallEffect, HalfDone(u)) \in Int
      /\ SumFunctionOnSet(CallEffect, Disowned(u)) \in Int
  BY <1>1, <1>2, <1>4, SumInt
<1> QED
  BY <1>1, <1>4, <1>5 DEF OnLedger, FromUnkeyed, FromHalfDone, FromDisowned, Booked,
                           EffectOf

(* What a step does to the sums of u: nothing, a call without a key posts  *)
(* r, a call adds r or takes it back, its movement is stored, or r is      *)
(* taken back after its movement was stored.                               *)
Steady(u) ==
    /\ OnLedger(u)' = OnLedger(u) /\ FromUnkeyed(u)' = FromUnkeyed(u)
    /\ FromHalfDone(u)' = FromHalfDone(u) /\ FromDisowned(u)' = FromDisowned(u)

Posts(u, r) ==
    /\ OnLedger(u)' = OnLedger(u)
    /\ FromUnkeyed(u)' = FromUnkeyed(u) + (IF r.user = u THEN Effect(r) ELSE 0)
    /\ FromHalfDone(u)' = FromHalfDone(u) /\ FromDisowned(u)' = FromDisowned(u)

Floats(u, user, amount) ==
    /\ OnLedger(u)' = OnLedger(u) /\ FromUnkeyed(u)' = FromUnkeyed(u)
    /\ FromHalfDone(u)' = FromHalfDone(u) + (IF user = u THEN amount ELSE 0)
    /\ FromDisowned(u)' = FromDisowned(u)

Records(u, r) ==
    /\ OnLedger(u)' = OnLedger(u) + (IF r.user = u THEN Effect(r) ELSE 0)
    /\ FromUnkeyed(u)' = FromUnkeyed(u)
    /\ FromHalfDone(u)' = FromHalfDone(u) - (IF r.user = u THEN Effect(r) ELSE 0)
    /\ FromDisowned(u)' = FromDisowned(u)

Disowns(u, r) ==
    /\ OnLedger(u)' = OnLedger(u) /\ FromUnkeyed(u)' = FromUnkeyed(u)
    /\ FromHalfDone(u)' = FromHalfDone(u)
    /\ FromDisowned(u)' = FromDisowned(u) + (IF r.user = u THEN Effect(r) ELSE 0)

(* A step of a call that is not, and does not become, disowned.            *)
LEMMA DisownedStays ==
    ASSUME TypeOK, KeyedOnly, NEW u \in Users, NEW c \in Calls,
           \A d \in Calls \ {c} : pc'[d] = pc[d] /\ req'[d] = req[d],
           \/ pc[c] # "disowned" /\ pc'[c] # "disowned"
           \/ pc[c] = "disowned" /\ pc'[c] = "disowned" /\ req'[c] = req[c]
    PROVE  FromDisowned(u)' = FromDisowned(u)
<1>1. Disowned(u)' = Disowned(u) /\ \A d \in Disowned(u) : req'[d] = req[d]
  BY DEF Disowned
<1>2. \A d \in Disowned(u) : CallEffect'[d] = CallEffect[d]
  BY <1>1 DEF CallEffect, Disowned, Effect
<1>3. SumFunctionOnSet(CallEffect', Disowned(u)) = SumFunctionOnSet(CallEffect, Disowned(u))
  BY <1>2, SumsAreIntegers, SumSame
<1> QED
  BY <1>1, <1>3 DEF FromDisowned

(* A step that moves no call into or out of the two sets.                  *)
LEMMA SteadyStep ==
    ASSUME TypeOK, KeyedOnly, NEW u \in Users, NEW c \in Calls, movements' = movements,
           \A d \in Calls \ {c} : pc'[d] = pc[d] /\ req'[d] = req[d],
           \/ pc[c] \notin SumLabels /\ pc'[c] \notin SumLabels
           \/ pc[c] \in HalfLabels /\ pc'[c] \in HalfLabels /\ req'[c] = req[c]
    PROVE  Steady(u)
<1>1. HalfDone(u)' = HalfDone(u) /\ Unkeyed(u)' = Unkeyed(u)
  BY DEF HalfDone, Unkeyed, HalfLabels, SumLabels, InFlight
<1>2. \A d \in HalfDone(u) \cup Unkeyed(u) : req'[d] = req[d]
  BY DEF HalfDone, Unkeyed, HalfLabels, SumLabels
<1>3. \A d \in HalfDone(u) \cup Unkeyed(u) : CallEffect'[d] = CallEffect[d]
  BY <1>2 DEF CallEffect, HalfDone, Unkeyed, Effect
<1>4. /\ SumFunctionOnSet(CallEffect', HalfDone(u)) = SumFunctionOnSet(CallEffect, HalfDone(u))
      /\ SumFunctionOnSet(CallEffect', Unkeyed(u)) = SumFunctionOnSet(CallEffect, Unkeyed(u))
  BY <1>3, SumsAreIntegers, SumSame
<1>5. FromDisowned(u)' = FromDisowned(u)
  BY DisownedStays DEF SumLabels, HalfLabels, InFlight
<1> QED
  BY <1>1, <1>4, <1>5 DEF Steady, OnLedger, FromUnkeyed, FromHalfDone, Effect

(* A call that applied its posting joins the calls without a key, or those *)
(* half done.                                                              *)
LEMMA JoinStep ==
    ASSUME TypeOK, KeyedOnly, NEW u \in Users, NEW c \in Calls, pc[c] = "apply",
           NEW label, pc' = [pc EXCEPT ![c] = label],
           \/ label = "applied" /\ req[c].key = NoKey
           \/ label \in {"record", "stranded"},
           movements' = movements, req' = req
    PROVE  \/ label = "applied" /\ Posts(u, req[c])
           \/ label # "applied" /\ Floats(u, req[c].user, Effect(req[c]))
<1>1. /\ req[c] \in Requests /\ Effect(req[c]) \in Int
      /\ CallEffect' = CallEffect /\ CallEffect[c] = Effect(req[c])
      /\ OnLedger(u)' = OnLedger(u)
      /\ c \notin Unkeyed(u) /\ c \notin HalfDone(u)
  BY EffectIsInteger DEF TypeOK, CallEffect, OnLedger, Unkeyed, HalfDone, InFlight
<1>2. /\ SumFunctionOnSet(CallEffect, Unkeyed(u) \cup {c})
           = SumFunctionOnSet(CallEffect, Unkeyed(u)) + Effect(req[c])
      /\ SumFunctionOnSet(CallEffect, HalfDone(u) \cup {c})
           = SumFunctionOnSet(CallEffect, HalfDone(u)) + Effect(req[c])
  BY <1>1, SumsAreIntegers, SumAdd
<1>3. /\ FromUnkeyed(u) \in Int /\ FromHalfDone(u) \in Int
      /\ FromDisowned(u)' = FromDisowned(u)
  <2>1. \A d \in Calls \ {c} : pc'[d] = pc[d] /\ req'[d] = req[d]
    BY DEF TypeOK
  <2>2. pc[c] # "disowned" /\ pc'[c] # "disowned"
    BY DEF TypeOK
  <2> QED
    BY <2>1, <2>2, DisownedStays, SumsAreIntegers
<1>4. CASE label = "applied"
  <2>1. /\ HalfDone(u)' = HalfDone(u)
        /\ Unkeyed(u)' = IF req[c].user = u THEN Unkeyed(u) \cup {c} ELSE Unkeyed(u)
    BY <1>4 DEF HalfDone, Unkeyed, InFlight, TypeOK
  <2> QED
    BY <1>1, <1>2, <1>3, <1>4, <2>1 DEF Posts, FromUnkeyed, FromHalfDone
<1>5. CASE label \in {"record", "stranded"}
  <2>1. /\ Unkeyed(u)' = Unkeyed(u)
        /\ HalfDone(u)' = IF req[c].user = u THEN HalfDone(u) \cup {c} ELSE HalfDone(u)
    BY <1>5 DEF HalfDone, Unkeyed, InFlight, TypeOK
  <2> QED
    BY <1>1, <1>2, <1>3, <1>5, <2>1 DEF Floats, FromUnkeyed, FromHalfDone
<1> QED
  BY <1>4, <1>5

(* A call that is no longer half done.                                     *)
LEMMA LeaveStep ==
    ASSUME TypeOK, KeyedOnly, NEW u \in Users, NEW c \in Calls, pc[c] \in InFlight,
           NEW label, label \notin SumLabels \ {"applied"},
           pc' = [pc EXCEPT ![c] = label], req' = req
    PROVE  /\ FromUnkeyed(u)' = FromUnkeyed(u)
           /\ FromHalfDone(u)' = FromHalfDone(u)
                                 - (IF req[c].user = u THEN Effect(req[c]) ELSE 0)
           /\ FromDisowned(u)' = FromDisowned(u)
<1>1. /\ label \notin HalfLabels /\ label # "disowned" /\ pc[c] # "disowned"
      /\ pc[c] \in HalfLabels
      /\ \A d \in Calls \ {c} : pc'[d] = pc[d] /\ req'[d] = req[d]
      /\ pc'[c] = label
  BY DEF SumLabels, HalfLabels, InFlight, TypeOK
<1>2. FromDisowned(u)' = FromDisowned(u)
  BY <1>1, DisownedStays
<1>3. /\ req[c] \in Requests /\ Effect(req[c]) \in Int /\ req[c].key # NoKey
      /\ CallEffect' = CallEffect /\ CallEffect[c] = Effect(req[c])
  BY EffectIsInteger DEF TypeOK, KeyedOnly, CallEffect, HalfLabels, InFlight
<1>4. Unkeyed(u)' = Unkeyed(u)
  BY <1>3 DEF Unkeyed, TypeOK, HalfLabels, InFlight
<1>5. CASE req[c].user # u
  <2>1. HalfDone(u)' = HalfDone(u)
    BY <1>1, <1>5 DEF HalfDone, TypeOK
  <2> QED
    BY <1>3, <1>4, <1>5, <1>2, <2>1, SumsAreIntegers DEF FromUnkeyed, FromHalfDone
<1>6. CASE req[c].user = u
  <2>1. c \in HalfDone(u) /\ HalfDone(u)' = HalfDone(u) \ {c}
    BY <1>1, <1>6 DEF HalfDone, HalfLabels, TypeOK
  <2>2. SumFunctionOnSet(CallEffect, HalfDone(u))
          = Effect(req[c]) + SumFunctionOnSet(CallEffect, HalfDone(u) \ {c})
    BY <1>3, <2>1, SumsAreIntegers, SumRemove
  <2>3. SumFunctionOnSet(CallEffect, HalfDone(u) \ {c}) \in Int
    <3>1. IsFiniteSet(HalfDone(u) \ {c})
      BY SumsAreIntegers, FS_Subset
    <3>2. \A d \in HalfDone(u) \ {c} : CallEffect[d] \in Int
      BY SumsAreIntegers
    <3> QED
      BY <3>1, <3>2, SumInt
  <2> QED
    BY <1>3, <1>4, <1>6, <1>2, <2>1, <2>2, <2>3 DEF FromUnkeyed, FromHalfDone
<1> QED
  BY <1>5, <1>6

(* The movement is stored, whether the call hears of it or not.            *)
LEMMA RecordStep ==
    ASSUME TypeOK, KeyedOnly, NEW u \in Users, NEW c \in Calls,
           RecordMovement(c) \/ RecordUnheard(c)
    PROVE  Records(u, req[c])
<1> USE DEF RecordMovement, RecordUnheard, Goto
<1>1. /\ FromUnkeyed(u)' = FromUnkeyed(u)
      /\ FromHalfDone(u)' = FromHalfDone(u) - (IF req[c].user = u THEN Effect(req[c]) ELSE 0)
      /\ FromDisowned(u)' = FromDisowned(u)
  <2>1. pc[c] \in InFlight /\ \A label \in {"applied", "unheard"} :
                                  label \notin SumLabels \ {"applied"}
    BY DEF SumLabels, HalfLabels, InFlight
  <2> QED
    BY <2>1, LeaveStep
<1>2. req[c] \in Requests /\ Effect(req[c]) \in Int /\ req[c] \notin movements
  BY EffectIsInteger DEF TypeOK, Recorded
<1>3. Booked(u)' = IF req[c].user = u THEN Booked(u) \cup {req[c]} ELSE Booked(u)
  BY DEF Booked
<1>4. SumFunctionOnSet(EffectOf, Booked(u) \cup {req[c]})
        = SumFunctionOnSet(EffectOf, Booked(u)) + Effect(req[c])
  <2>1. IsFiniteSet(Booked(u)) /\ req[c] \notin Booked(u)
    BY <1>2, SumsAreIntegers DEF Booked
  <2>2. EffectOf[req[c]] = Effect(req[c]) /\ \A m \in Booked(u) : EffectOf[m] \in Int
    BY <1>2, EffectIsInteger DEF EffectOf, Booked, TypeOK
  <2> QED
    BY <1>2, <2>1, <2>2, SumAdd
<1>5. OnLedger(u)' = OnLedger(u) + (IF req[c].user = u THEN Effect(req[c]) ELSE 0)
  <2>1. OnLedger(u) = SumFunctionOnSet(EffectOf, Booked(u)) /\ OnLedger(u) \in Int
    BY SumsAreIntegers DEF OnLedger, EffectOf, Booked
  <2>2. OnLedger(u)' = SumFunctionOnSet(EffectOf, Booked(u)')
    BY DEF OnLedger, EffectOf, Booked, Effect
  <2> QED
    BY <1>2, <1>3, <1>4, <2>1, <2>2
<1> QED
  BY <1>1, <1>5 DEF Records

(* Every step is one of these, and moves the wallets accordingly.          *)
NothingMoves ==
    /\ movements' = movements
    /\ \A u \in Users : Steady(u) /\ balance'[u] = balance[u]

PostingMoves(r) ==
    /\ r.key = NoKey /\ movements' = movements
    /\ \A u \in Users : Posts(u, r)
                        /\ balance'[u] = balance[u] + (IF r.user = u THEN Effect(r) ELSE 0)

FloatMoves(user, amount) ==
    /\ movements' = movements
    /\ \A u \in Users : Floats(u, user, amount)
                        /\ balance'[u] = balance[u] + (IF user = u THEN amount ELSE 0)

DisownMoves(r) ==
    /\ movements' = movements
    /\ \A u \in Users : Disowns(u, r)
                        /\ balance'[u] = balance[u] - (IF r.user = u THEN Effect(r) ELSE 0)

RecordMoves(r) ==
    /\ r.key # NoKey /\ ~Recorded(r.key) /\ movements' = movements \cup {r}
    /\ \A u \in Users : Records(u, r) /\ balance'[u] = balance[u]

Moves ==
    \/ NothingMoves
    \/ \E r \in Requests : PostingMoves(r) \/ RecordMoves(r) \/ DisownMoves(r)
    \/ \E user \in Users, amount \in Int : FloatMoves(user, amount)

(* The $inc of an amount is followed by JoinStep.                          *)
LEMMA ApplyMoves ==
    ASSUME TypeOK, KeyedOnly, NEW c \in Calls, pc[c] = "apply",
           Inc(req[c].user, Effect(req[c])),
           Goto(c, AfterApply(req[c])) \/ Goto(c, "stranded"),
           movements' = movements, req' = req
    PROVE  Moves
<1>1. req[c] \in Requests /\ Effect(req[c]) \in Int /\ req[c].user \in Users
  BY EffectIsInteger DEF TypeOK
<1>2. \A u \in Users :
        balance'[u] = balance[u] + (IF req[c].user = u THEN Effect(req[c]) ELSE 0)
  BY <1>1 DEF Inc, TypeOK
<1>3. PICK label : /\ pc' = [pc EXCEPT ![c] = label]
                   /\ \/ label = "applied" /\ req[c].key = NoKey
                      \/ label \in {"record", "stranded"}
  BY DEF Goto, AfterApply
<1>4. \A u \in Users : \/ label = "applied" /\ Posts(u, req[c])
                       \/ label # "applied" /\ Floats(u, req[c].user, Effect(req[c]))
  BY <1>3, JoinStep
<1>5. CASE label = "applied"
  BY <1>1, <1>2, <1>3, <1>4, <1>5 DEF Moves, PostingMoves
<1>6. CASE label # "applied"
  BY <1>1, <1>2, <1>4, <1>6 DEF Moves, FloatMoves
<1> QED
  BY <1>5, <1>6

(* The $inc of a half-done call is taken back.                             *)
LEMMA TakeBackMoves ==
    ASSUME TypeOK, KeyedOnly, NEW c \in Calls, pc[c] \in InFlight,
           NEW label, label \in {"skipped", "failed"},
           Inc(req[c].user, -Effect(req[c])), Goto(c, label),
           movements' = movements, req' = req
    PROVE  Moves
<1>1. req[c] \in Requests /\ Effect(req[c]) \in Int /\ req[c].user \in Users
  BY EffectIsInteger DEF TypeOK, InFlight
<1>2. label \notin SumLabels
  BY DEF SumLabels, HalfLabels, InFlight
<1>3. \A u \in Users :
        /\ FromUnkeyed(u)' = FromUnkeyed(u) /\ FromDisowned(u)' = FromDisowned(u)
        /\ FromHalfDone(u)' = FromHalfDone(u)
                              - (IF req[c].user = u THEN Effect(req[c]) ELSE 0)
  BY <1>2, LeaveStep DEF Goto
<1>4. \A u \in Users : FromHalfDone(u) \in Int /\ OnLedger(u)' = OnLedger(u)
  BY SumsAreIntegers DEF OnLedger, Effect
<1>5. \A u \in Users : Floats(u, req[c].user, -Effect(req[c]))
  BY <1>1, <1>3, <1>4 DEF Floats
<1>6. \A u \in Users :
        balance'[u] = balance[u] + (IF req[c].user = u THEN -Effect(req[c]) ELSE 0)
  BY <1>1 DEF Inc, TypeOK
<1> QED
  BY <1>1, <1>5, <1>6 DEF Moves, FloatMoves

(* So is that of a call whose movement is stored without its knowing.      *)
LEMMA DisownMove ==
    ASSUME TypeOK, KeyedOnly, NEW c \in Calls, pc[c] = "unheard",
           Inc(req[c].user, -Effect(req[c])), Goto(c, "disowned"),
           movements' = movements, req' = req
    PROVE  Moves
<1>1. /\ req[c] \in Requests /\ Effect(req[c]) \in Int /\ req[c].user \in Users
      /\ CallEffect' = CallEffect /\ CallEffect[c] = Effect(req[c])
  BY EffectIsInteger DEF TypeOK, CallEffect, InFlight
<1>2. \A u \in Users :
        balance'[u] = balance[u] - (IF req[c].user = u THEN Effect(req[c]) ELSE 0)
  BY <1>1 DEF Inc, TypeOK
<1>3. ASSUME NEW u \in Users PROVE Disowns(u, req[c])
  <2>1. HalfDone(u)' = HalfDone(u) /\ Unkeyed(u)' = Unkeyed(u)
    BY DEF Goto, HalfDone, Unkeyed, InFlight, TypeOK
  <2>2. c \notin Disowned(u)
        /\ Disowned(u)' = IF req[c].user = u THEN Disowned(u) \cup {c} ELSE Disowned(u)
    BY DEF Goto, Disowned, TypeOK
  <2>3. SumFunctionOnSet(CallEffect, Disowned(u) \cup {c})
          = SumFunctionOnSet(CallEffect, Disowned(u)) + Effect(req[c])
    BY <1>1, <2>2, SumsAreIntegers, SumAdd
  <2>4. OnLedger(u)' = OnLedger(u) /\ FromDisowned(u) \in Int
    BY SumsAreIntegers DEF OnLedger, Effect
  <2> QED
    BY <1>1, <2>1, <2>2, <2>3, <2>4 DEF Disowns, FromUnkeyed, FromHalfDone, FromDisowned
<1> QED
  BY <1>1, <1>2, <1>3 DEF Moves, DisownMoves

LEMMA StepMoves == ASSUME TypeOK, KeyedOnly, [Next]_vars PROVE Moves
<1>1. CASE UNCHANGED vars
  <2>1. \A u \in Users : Steady(u)
    BY <1>1 DEF vars, Steady, OnLedger, FromUnkeyed, FromHalfDone, FromDisowned,
                CallEffect, Unkeyed, HalfDone, Disowned, Effect
  <2> QED
    BY <1>1, <2>1 DEF vars, Moves, NothingMoves
<1>2. CASE Next
  <2> PICK c \in Calls :
        (\E r \in Requests : Invoke(c, r)) \/ Advance(c) \/ Fault(c)
    BY <1>2 DEF Next
  <2>0. ASSUME movements' = movements, balance' = balance,
               \A d \in Calls \ {c} : pc'[d] = pc[d] /\ req'[d] = req[d],
               \/ pc[c] \notin SumLabels /\ pc'[c] \notin SumLabels
               \/ pc[c] \in HalfLabels /\ pc'[c] \in HalfLabels /\ req'[c] = req[c]
        PROVE  Moves
    BY <2>0, SteadyStep DEF Moves, NothingMoves
  <2> USE DEF Goto, SumLabels, HalfLabels, InFlight
  <2>a. pc \in [Calls -> Labels] /\ req \in [Calls -> Requests \cup {NoRequest}]
    BY DEF TypeOK
  <2>1. (\E r \in Requests : Invoke(c, r)) => Moves
    BY <2>0, <2>a DEF Invoke
  <2>2. OpenWallet(c) => Moves
    BY <2>0, <2>a DEF OpenWallet
  <2>3. ApplyCredit(c) => Moves
    BY ApplyMoves DEF ApplyCredit, Effect
  <2>4. ApplyDebit(c) => Moves
    <3> SUFFICES ASSUME ApplyDebit(c) PROVE Moves
      OBVIOUS
    <3>1. Effect(req[c]) = -req[c].amount
      BY DEF ApplyDebit, Effect
    <3> QED
      BY <3>1, ApplyMoves DEF ApplyDebit
  <2>5. RefuseDebit(c) => Moves
    BY <2>0, <2>a DEF RefuseDebit
  <2>6. RecordMovement(c) => Moves
    <3> SUFFICES ASSUME RecordMovement(c) PROVE Moves
      OBVIOUS
    <3>1. req[c] \in Requests /\ req[c].key # NoKey
      BY DEF RecordMovement, TypeOK, KeyedOnly
    <3>2. \A u \in Users : Records(u, req[c])
      BY RecordStep
    <3> QED
      BY <3>1, <3>2 DEF RecordMovement, Moves, RecordMoves
  <2>7. FindDuplicate(c) => Moves
    BY <2>0, <2>a DEF FindDuplicate
  <2>8. Reverse(c) => Moves
    <3> SUFFICES ASSUME Reverse(c) PROVE Moves
      OBVIOUS
    <3>1. CASE pc[c] = "unheard"
      <4>1. Goto(c, "disowned")
        BY <3>1 DEF Reverse, AfterReverse
      <4> QED
        BY <3>1, <4>1, DisownMove DEF Reverse
    <3>2. CASE pc[c] \in {"duplicate", "error"}
      <4>1. AfterReverse(pc[c]) \in {"skipped", "failed"}
        BY <3>2 DEF AfterReverse
      <4> QED
        BY <3>2, <4>1, TakeBackMoves DEF Reverse
    <3> QED
      BY <3>1, <3>2 DEF Reverse
  <2>9. FailToRecord(c) => Moves
    BY <2>0, <2>a DEF FailToRecord
  <2>10. FailToReverse(c) => Moves
    BY <2>0, <2>a DEF FailToReverse, LeftAt
  <2>11. Stop(c) => Moves
    BY <2>0, <2>a DEF Stop, LeftAt
  <2>12. ApplyUnheard(c) => Moves
    BY ApplyMoves DEF ApplyUnheard
  <2>13. RecordUnheard(c) => Moves
    <3> SUFFICES ASSUME RecordUnheard(c) PROVE Moves
      OBVIOUS
    <3>1. req[c] \in Requests /\ req[c].key # NoKey
      BY DEF RecordUnheard, TypeOK, KeyedOnly
    <3>2. \A u \in Users : Records(u, req[c])
      BY RecordStep
    <3> QED
      BY <3>1, <3>2 DEF RecordUnheard, Moves, RecordMoves
  <2>14. ReverseUnheard(c) => Moves
    BY TakeBackMoves DEF ReverseUnheard
  <2> QED
    BY <2>1, <2>2, <2>3, <2>4, <2>5, <2>6, <2>7, <2>8, <2>9, <2>10, <2>11, <2>12,
       <2>13, <2>14, StepCases
<1> QED
  BY <1>1, <1>2

(* In the beginning all sums are empty.                                    *)
LEMMA NoSumsYet ==
    ASSUME Init, NEW u \in Users
    PROVE  OnLedger(u) = 0 /\ FromUnkeyed(u) = 0 /\ FromHalfDone(u) = 0
           /\ FromDisowned(u) = 0
<1>1. Booked(u) = {} /\ Unkeyed(u) = {} /\ HalfDone(u) = {} /\ Disowned(u) = {}
  BY DEF Init, Booked, Unkeyed, HalfDone, Disowned, InFlight
<1> QED
  BY <1>1, SumEmpty DEF OnLedger, FromUnkeyed, FromHalfDone, FromDisowned, Booked

LEMMA BalanceSplitHolds == Spec => [](TypeOK /\ KeyedOnly /\ BalanceSplit)
<1>1. Init => BalanceSplit
  BY NoSumsYet DEF BalanceSplit, Init
<1>2. TypeOK /\ TypeOK' /\ KeyedOnly /\ BalanceSplit /\ [Next]_vars => BalanceSplit'
  <2> SUFFICES ASSUME TypeOK, TypeOK', KeyedOnly, BalanceSplit, [Next]_vars, NEW u \in Users
               PROVE  balance'[u] = OnLedger(u)' + FromUnkeyed(u)' + FromHalfDone(u)' - FromDisowned(u)'
    BY DEF BalanceSplit
  <2>1. /\ balance[u] \in Int /\ OnLedger(u) \in Int /\ FromUnkeyed(u) \in Int
        /\ FromHalfDone(u) \in Int /\ FromDisowned(u) \in Int
        /\ balance[u] = OnLedger(u) + FromUnkeyed(u) + FromHalfDone(u) - FromDisowned(u)
        /\ \A r \in Requests : Effect(r) \in Int
    BY SumsAreIntegers, EffectIsInteger DEF TypeOK, BalanceSplit
  <2>2. CASE NothingMoves
    BY <2>1, <2>2 DEF NothingMoves, Steady
  <2>3. ASSUME NEW r \in Requests, PostingMoves(r) \/ RecordMoves(r) \/ DisownMoves(r)
        PROVE  balance'[u] = OnLedger(u)' + FromUnkeyed(u)' + FromHalfDone(u)' - FromDisowned(u)'
    BY <2>1, <2>3 DEF PostingMoves, RecordMoves, DisownMoves, Posts, Records, Disowns
  <2>4. ASSUME NEW user \in Users, NEW amount \in Int, FloatMoves(user, amount)
        PROVE  balance'[u] = OnLedger(u)' + FromUnkeyed(u)' + FromHalfDone(u)' - FromDisowned(u)'
    BY <2>1, <2>4 DEF FloatMoves, Floats
  <2> QED
    BY <2>2, <2>3, <2>4, StepMoves DEF Moves
<1> QED
  BY <1>1, <1>2, TypeCorrect, KeyedOnlyHolds, PTL DEF Spec

(* Whatever calls ran beside each other, repeated each other, failed or    *)
(* stopped: a wallet none of them left half done holds what its movements  *)
(* and the calls without a key add up to, less what was taken back of a    *)
(* movement whose insert was done and not heard of.                        *)
THEOREM WalletIsItsLedger == Spec => []SettledBalance
<1>1. TypeOK /\ KeyedOnly /\ BalanceSplit => SettledBalance
  <2> SUFFICES ASSUME TypeOK, KeyedOnly, BalanceSplit, NEW u \in Users, HalfDone(u) = {}
               PROVE  balance[u] = OnLedger(u) + FromUnkeyed(u) - FromDisowned(u)
    BY DEF SettledBalance
  <2>1. FromHalfDone(u) = 0
    BY SumEmpty DEF FromHalfDone
  <2> QED
    BY <2>1, SumsAreIntegers DEF BalanceSplit
<1> QED
  BY <1>1, BalanceSplitHolds, PTL

----
(* The refinement: with the money of half-done calls left out, and what    *)
(* was taken back of a stored movement put back, a step posts one request  *)
(* that was not on the books, or changes nothing.                          *)
LEMMA SignedIsEffect == \A r \in Requests : Books!Signed(r) = Effect(r)
BY DEF Books!Signed, Effect

LEMMA BooksStart == Init => Books!Init
<1> SUFFICES ASSUME Init PROVE Books!Init
  OBVIOUS
<1>1. \A u \in Users : balance[u] - FromHalfDone(u) + FromDisowned(u) = 0
  BY NoSumsYet DEF Init
<1>2. SettledView = [u \in Users |-> 0] /\ {m.key : m \in movements} = {}
  BY <1>1 DEF SettledView, Init
<1> QED
  BY <1>2 DEF Books!Init

LEMMA BooksStep ==
    TypeOK /\ KeyedOnly /\ [Next]_vars
    => [Books!Next]_<<SettledView, {m.key : m \in movements}>>
<1> SUFFICES ASSUME TypeOK, KeyedOnly, [Next]_vars
             PROVE  [Books!Next]_<<SettledView, {m.key : m \in movements}>>
  OBVIOUS
<1> DEFINE keys == {m.key : m \in movements}
<1>1. /\ \A u \in Users : balance[u] \in Int /\ FromHalfDone(u) \in Int
                          /\ FromDisowned(u) \in Int
      /\ \A r \in Requests : Effect(r) \in Int /\ r.user \in Users
  BY SumsAreIntegers, EffectIsInteger DEF TypeOK
<1>2. /\ SettledView = [u \in Users |-> balance[u] - FromHalfDone(u) + FromDisowned(u)]
      /\ SettledView' = [u \in Users |-> balance'[u] - FromHalfDone(u)' + FromDisowned(u)']
  BY DEF SettledView
<1>3. CASE NothingMoves
  <2>1. SettledView' = SettledView
    BY <1>2, <1>3 DEF NothingMoves, Steady
  <2> QED
    BY <1>3, <2>1 DEF NothingMoves
<1>4. ASSUME NEW user \in Users, NEW amount \in Int, FloatMoves(user, amount)
      PROVE  [Books!Next]_<<SettledView, keys>>
  <2>1. \A u \in Users : balance'[u] - FromHalfDone(u)' + FromDisowned(u)'
                         = balance[u] - FromHalfDone(u) + FromDisowned(u)
    BY <1>1, <1>4 DEF FloatMoves, Floats
  <2>2. SettledView' = SettledView
    BY <1>2, <2>1
  <2> QED
    BY <1>4, <2>2 DEF FloatMoves
<1>5. ASSUME NEW r \in Requests, PostingMoves(r) \/ RecordMoves(r)
      PROVE  [Books!Next]_<<SettledView, keys>>
  <2>1. \A u \in Users : balance'[u] - FromHalfDone(u)' + FromDisowned(u)'
                         = balance[u] - FromHalfDone(u) + FromDisowned(u)
                           + (IF r.user = u THEN Effect(r) ELSE 0)
    BY <1>1, <1>5 DEF PostingMoves, Posts, RecordMoves, Records
  <2>2. SettledView' = [SettledView EXCEPT ![r.user] = @ + Books!Signed(r)]
    <3> DEFINE next == [SettledView EXCEPT ![r.user] = @ + Books!Signed(r)]
    <3>1. next = [u \in Users |-> IF u = r.user THEN SettledView[u] + Books!Signed(r)
                                  ELSE SettledView[u]]
      BY <1>1, <1>2
    <3>2. \A u \in Users : SettledView'[u] = IF u = r.user THEN SettledView[u] + Effect(r)
                                             ELSE SettledView[u]
      BY <1>1, <1>2, <2>1
    <3>3. SettledView' = [u \in Users |-> SettledView'[u]]
      BY <1>2
    <3> QED
      BY <3>1, <3>2, <3>3, SignedIsEffect
  <2>3. r.key \notin keys
    BY <1>5 DEF PostingMoves, RecordMoves, Recorded, KeyedOnly
  <2>4. keys' = IF r.key = NoKey THEN keys ELSE keys \cup {r.key}
    BY <1>5 DEF PostingMoves, RecordMoves
  <2>5. Books!Post(r)
    BY <2>2, <2>3, <2>4 DEF Books!Post
  <2> QED
    BY <2>5 DEF Books!Next
<1>6. ASSUME NEW r \in Requests, DisownMoves(r)
      PROVE  [Books!Next]_<<SettledView, keys>>
  <2>1. \A u \in Users : balance'[u] - FromHalfDone(u)' + FromDisowned(u)'
                         = balance[u] - FromHalfDone(u) + FromDisowned(u)
    BY <1>1, <1>6 DEF DisownMoves, Disowns
  <2>2. SettledView' = SettledView
    BY <1>2, <2>1
  <2> QED
    BY <1>6, <2>2 DEF DisownMoves
<1> QED
  BY <1>3, <1>4, <1>5, <1>6, StepMoves DEF Moves

(* BalanceService implements Ledger: a call is one posting or none, at one *)
(* instant, however its database writes are interleaved with others.       *)
THEOREM WalletImplementsLedger == Spec => ImplementsLedger
BY BooksStart, BooksStep, BalanceSplitHolds, PTL DEF Spec, ImplementsLedger, Books!Spec
====
