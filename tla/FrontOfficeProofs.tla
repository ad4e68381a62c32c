---- MODULE FrontOfficeProofs ----
(***************************************************************************)
(* Theorems about the front office, for any number of handlers and any     *)
(* bounds: the sessions of an account, the route of an incoming payment,   *)
(* the operator that is charged, what a developer hears of his             *)
(* transactions, an announcement's mails, the notices of an operation and  *)
(* the periods of a subscription.                                          *)
(***************************************************************************)
EXTENDS Accounts, PayinRoute, Callback, Announcements, Notices, Subscription,
        FiniteSetTheorems, SequenceTheorems, TLAPS

(* Accounts.                                                               *)

Fields == {"exists", "isActive", "password", "loginAttempts", "firstFailedAt", "lockoutUntil",
           "sessionInvalidatedAt", "resetPasswordToken", "twoFactorCode", "twoFactorAttempts"}

(* The handlers that end sessions, once they have read the user.           *)
Enders == {"reset", "change", "toggle"}

(* The stamp in the document is that of the last end of the sessions: no   *)
(* handler takes it back.  Without a user there was none, and nobody is    *)
(* about to end any, so that a sign-up does not take one back either.      *)
SessionInv ==
    /\ DOMAIN pc = Procs
    /\ DOMAIN user = Fields
    /\ user.sessionInvalidatedAt = sessionsEnd
    /\ ~user.exists =>
        /\ sessionsEnd = Never
        /\ \A p \in Procs : pc[p] \notin Enders

LEMMA SessionStart == AccountsInit => SessionInv
BY DEF AccountsInit, RequestsInit, SessionInv, NewUser, Fields, Enders, Never

(* Who writes the other fields leaves the stamp alone.                     *)
LEMMA StampStays ==
    ASSUME SessionInv, DOMAIN user' = Fields,
           user'.sessionInvalidatedAt = user.sessionInvalidatedAt,
           user'.exists = user.exists, UNCHANGED sessionsEnd,
           DOMAIN pc' = Procs,
           \A p \in Procs : pc'[p] \in Enders => pc[p] \in Enders \/ user.exists
    PROVE  SessionInv'
BY DEF SessionInv

(* A user who is there stays there, and an end of the sessions is written  *)
(* to the document.                                                        *)
LEMMA StampFollows ==
    ASSUME SessionInv, DOMAIN user' = Fields, user'.exists,
           user'.sessionInvalidatedAt = sessionsEnd', DOMAIN pc' = Procs
    PROVE  SessionInv'
BY DEF SessionInv

LEMMA SessionStep == SessionInv /\ [AccountsNext]_accountVars => SessionInv'
<1> SUFFICES ASSUME SessionInv, [AccountsNext]_accountVars PROVE SessionInv'
  OBVIOUS
<1> USE DEF Starts, Begin, Jump, JumpWith, Return, FaultyReturn, accountOnly, Enders, Fields
<1>1. DOMAIN user = Fields /\ DOMAIN pc = Procs /\ user.sessionInvalidatedAt = sessionsEnd
  BY DEF SessionInv
<1>2. CASE UNCHANGED accountVars
  BY <1>2 DEF accountVars, reqVars, SessionInv
<1>3. CASE AnHour
  BY <1>3 DEF AnHour, reqVars, SessionInv
<1>4. CASE RequestReset \/ ExpireSecrets \/ UnlockExpired
  BY <1>1, <1>4, StampStays DEF RequestReset, ExpireSecrets, UnlockExpired, Unlocked, reqVars
<1>5. ASSUME NEW p \in Procs, StartSignUp(p) PROVE SessionInv'
  BY <1>1, <1>5, StampStays DEF StartSignUp
<1>6. ASSUME NEW p \in Procs, SignUp(p) PROVE SessionInv'
  <2>1. CASE user.exists
    BY <1>1, <1>6, <2>1, StampStays DEF SignUp
  <2>2. CASE ~user.exists
    <3>1. user' = [NewUser EXCEPT !.exists = TRUE] /\ sessionsEnd' = Never
      BY <1>6, <2>2 DEF SignUp, SessionInv
    <3>2. DOMAIN user' = Fields /\ user'.exists /\ user'.sessionInvalidatedAt = sessionsEnd'
      BY <3>1 DEF NewUser
    <3>3. DOMAIN pc' = Procs
      BY <1>1, <1>6, <2>2 DEF SignUp
    <3> QED
      BY <3>2, <3>3, StampFollows
  <2> QED
    BY <2>1, <2>2
<1>7. ASSUME NEW p \in Procs, NEW password, StartSignIn(p, password) PROVE SessionInv'
  BY <1>1, <1>7, StampStays DEF StartSignIn
<1>8. ASSUME NEW p \in Procs, Compare(p) PROVE SessionInv'
  <2>1. /\ DOMAIN user' = Fields /\ user'.exists = user.exists
        /\ user'.sessionInvalidatedAt = user.sessionInvalidatedAt
    BY <1>1, <1>8 DEF Compare, AfterFailure, Unlocked
  <2>2. PICK label \in {"code", "token", "idle"} : pc' = [pc EXCEPT ![p] = label]
    BY <1>8 DEF Compare
  <2> QED
    BY <1>1, <1>8, <2>1, <2>2, StampStays DEF Compare
<1>9. ASSUME NEW p \in Procs, SendCode(p) \/ IssueToken(p) \/ Revoke(p) PROVE SessionInv'
  BY <1>1, <1>9, StampStays DEF SendCode, IssueToken, Revoke
<1>10. ASSUME NEW p \in Procs, GoogleLogin(p) PROVE SessionInv'
  BY <1>1, <1>10, StampStays DEF GoogleLogin
<1>11. ASSUME NEW p \in Procs, NEW right, StartVerify(p, right) PROVE SessionInv'
  BY <1>1, <1>11, StampStays DEF StartVerify
<1>12. ASSUME NEW p \in Procs, VerifyCode(p) PROVE SessionInv'
  <2>1. /\ DOMAIN user' = Fields /\ user'.exists = user.exists
        /\ user'.sessionInvalidatedAt = user.sessionInvalidatedAt
    BY <1>1, <1>12 DEF VerifyCode
  <2>2. PICK label \in {"token", "idle"} : pc' = [pc EXCEPT ![p] = label]
    BY <1>12 DEF VerifyCode
  <2> QED
    BY <1>1, <1>12, <2>1, <2>2, StampStays DEF VerifyCode
<1>13. ASSUME NEW p \in Procs,
              StartReset(p) \/ StartChange(p) \/ StartToggle(p) \/ \E s \in sessions : StartLogout(p, s)
       PROVE  SessionInv'
  BY <1>1, <1>13, StampStays DEF StartReset, StartChange, StartToggle, StartLogout
<1>14. ASSUME NEW p \in Procs, ResetPassword(p) PROVE SessionInv'
  <2>1. user.exists
    BY <1>14 DEF ResetPassword, SessionInv
  <2>2. /\ DOMAIN user' = Fields /\ user'.exists
        /\ user'.sessionInvalidatedAt = sessionsEnd'
    BY <1>1, <1>14, <2>1 DEF ResetPassword, NewPassword, Lockout
  <2> QED
    BY <1>1, <1>14, <2>2, StampFollows DEF ResetPassword
<1>15. ASSUME NEW p \in Procs, ChangePassword(p) PROVE SessionInv'
  <2>1. user.exists
    BY <1>15 DEF ChangePassword, SessionInv
  <2> QED
    BY <1>1, <1>15, <2>1, StampFollows DEF ChangePassword, NewPassword
<1>16. ASSUME NEW p \in Procs, ToggleStatus(p) PROVE SessionInv'
  <2>1. user.exists
    BY <1>16 DEF ToggleStatus, SessionInv
  <2>2. DOMAIN user' = Fields /\ user'.exists /\ user'.sessionInvalidatedAt = sessionsEnd'
    BY <1>1, <1>16, <2>1 DEF ToggleStatus, Unlocked
  <2> QED
    BY <1>1, <1>16, <2>2, StampFollows DEF ToggleStatus
<1>17. ASSUME NEW p \in Procs, AccountCrash(p) PROVE SessionInv'
  BY <1>1, <1>17, StampStays DEF AccountCrash
<1> QED
  BY <1>2, <1>3, <1>4, <1>5, <1>6, <1>7, <1>8, <1>9, <1>10, <1>11, <1>12, <1>13, <1>14, <1>15,
     <1>16, <1>17 DEF AccountsNext

(* Every token the server accepts was issued after the last new password   *)
(* and the last end of the account, for any number of handlers that write  *)
(* the user from what they read earlier.                                   *)
THEOREM NoSessionSurvives == AccountsSpec => []SessionsAreEnded
<1>1. SessionInv => SessionsAreEnded
  BY DEF SessionInv, SessionsAreEnded, Accepted
<1> QED
  BY <1>1, SessionStart, SessionStep, PTL DEF AccountsSpec

----
(* The route of an incoming payment.                                       *)

(* The fees alone lift the order over the ceiling.                         *)
Lifted(p) == order[p].amount <= MaxCharge /\ TotalOf(order[p].amount) > MaxCharge

(* No transaction was made, but for one whose charge was given up.         *)
Untried(p) == txs[p] = 0 \/ (txs[p] = 1 /\ Lifted(p))

(* What createDirectPayin has made sure of.                                *)
Chargeable(o) == BuildCharge(o, o.amount).error = None /\ HasCredentials(o.currency)

Maps ==
    /\ DOMAIN pc = Procs /\ DOMAIN order = Procs /\ DOMAIN charge = Procs
    /\ DOMAIN link = Procs
    /\ txs \in [Procs -> Nat]

(* A handler at work has a proper order, and has charged and offered       *)
(* nothing yet.                                                            *)
AtWork(p) ==
    pc[p] # "idle" =>
        /\ order[p] # NoOrderYet
        /\ order[p].gateway \in DOMAIN Gateways \cup {None}
        /\ {order[p].amount, TotalOf(order[p].amount)} \subseteq Int
        /\ order[p].amount <= TotalOf(order[p].amount)
        /\ link[p] = "unset" /\ ~Sent(p)

(* What the steps before a charge, and before a hosted page, know.         *)
Prepared(p) ==
    /\ pc[p] = "idle" /\ order[p] = NoOrderYet => txs[p] = 0 /\ link[p] = "unset" /\ ~Sent(p)
    /\ pc[p] \in {"direct", "create"} => txs[p] = 0
    /\ pc[p] = "create" /\ Routed(order[p]) => Chargeable(order[p])
    /\ pc[p] \in {"rejected", "hosted", "paystack"} \cup Links => Untried(p)

Safe(p) == link[p] # "unset" => ~Sent(p) /\ (txs[p] = 1 \/ Lifted(p))

RouteInv == Maps /\ \A p \in Procs : AtWork(p) /\ Prepared(p) /\ Safe(p)

----
(* A step of p leaves what the others know as it is.                       *)
LEMMA OthersKnow ==
    ASSUME RouteInv, NEW p \in Procs, Maps',
           \A q \in Procs \ {p} : /\ pc'[q] = pc[q] /\ order'[q] = order[q] /\ txs'[q] = txs[q]
                                  /\ charge'[q] = charge[q] /\ link'[q] = link[q],
           (AtWork(p) /\ Prepared(p) /\ Safe(p))'
    PROVE  RouteInv'
<1> SUFFICES ASSUME NEW q \in Procs, q # p PROVE (AtWork(q) /\ Prepared(q) /\ Safe(q))'
  BY DEF RouteInv
<1>1. AtWork(q) /\ Prepared(q) /\ Safe(q)
  BY DEF RouteInv
<1>2. /\ pc'[q] = pc[q] /\ order'[q] = order[q] /\ txs'[q] = txs[q]
      /\ charge'[q] = charge[q] /\ link'[q] = link[q]
  OBVIOUS
<1>3. Sent(q)' = Sent(q) /\ Lifted(q)' = Lifted(q) /\ Untried(q)' = Untried(q)
  BY <1>2 DEF Sent, Lifted, Untried
<1>4. AtWork(q)'
  BY <1>1, <1>2, <1>3 DEF AtWork
<1>5. Prepared(q)'
  BY <1>1, <1>2, <1>3 DEF Prepared
<1>6. Safe(q)'
  BY <1>1, <1>2, <1>3 DEF Safe
<1> QED
  BY <1>4, <1>5, <1>6

(* buildMobileMoneyCharge refuses with the fees what it took without them  *)
(* for one reason: they lift the amount over the ceiling.                  *)
LEMMA OnlyFeesReject ==
    ASSUME NEW o, NEW a \in Int, NEW b \in Int, a <= b,
           BuildCharge(o, a).error = None, BuildCharge(o, b).error # None
    PROVE  a <= MaxCharge /\ b > MaxCharge
<1> USE PayinRouteAssumption DEF Unresolved, None
<1>1. o.currency \in DirectCurrencies /\ a > 0 /\ a >= MinCharge /\ a <= MaxCharge /\ o.email
  BY DEF BuildCharge
<1>2. BuildCharge(o, a) = Resolve(o.phone, o.currency, o.country, o.network)
  BY <1>1 DEF BuildCharge
<1>3. b > 0 /\ b >= MinCharge
  BY <1>1
<1>4. CASE b <= MaxCharge
  <2>1. BuildCharge(o, b) = Resolve(o.phone, o.currency, o.country, o.network)
    BY <1>1, <1>3, <1>4 DEF BuildCharge
  <2> QED
    BY <1>2, <2>1
<1> QED
  BY <1>1, <1>4

LEMMA LinkLabels ==
    /\ LinkOf["flutterwave"] = "link" /\ LinkOf["paystack"] = "paystack link"
    /\ LinkOf["mpesa"] = "push"
    /\ Links = {"link", "paystack link", "push"}
<1>1. /\ LinkOf["flutterwave"] = "link" /\ LinkOf["paystack"] = "paystack link"
      /\ LinkOf["mpesa"] = "push"
  BY DEF LinkOf
<1>2. Links = {LinkOf["flutterwave"], LinkOf["paystack"], LinkOf["mpesa"]}
  BY DEF Links, GatewayTypes
<1> QED
  BY <1>1, <1>2

(* Every order that a payer makes is a proper one, however its method      *)
(* changes it.                                                             *)
LEMMA OrdersAreProper ==
    ASSUME NEW o \in Orders
    PROVE  /\ o # NoOrderYet
           /\ o.gateway \in DOMAIN Gateways \cup {None}
           /\ o.amount \in Int /\ TotalOf(o.amount) \in Int /\ o.amount <= TotalOf(o.amount)
BY PayinRouteAssumption DEF OrderDocs

----
LEMMA RouteStart == PayinRouteInit => RouteInv
<1> SUFFICES ASSUME PayinRouteInit PROVE RouteInv
  OBVIOUS
<1>1. Maps
  BY DEF PayinRouteInit, RequestsInit, Maps
<1>2. ASSUME NEW p \in Procs PROVE AtWork(p) /\ Prepared(p) /\ Safe(p)
  <2>1. pc[p] = "idle" /\ txs[p] = 0 /\ link[p] = "unset" /\ charge[p] = Unresolved(None)
    BY DEF PayinRouteInit, RequestsInit
  <2>2. ~Sent(p)
    BY <2>1 DEF Sent, Unresolved
  <2> QED
    BY <2>1, <2>2, LinkLabels DEF AtWork, Prepared, Safe
<1> QED
  BY <1>1, <1>2 DEF RouteInv

(* How a handler takes an order: it is at its first step, or at rest with  *)
(* the order spent.                                                        *)
Taken(p, o, label) ==
    /\ pc[p] = "idle" /\ order[p] = NoOrderYet
    /\ o # NoOrderYet /\ o.gateway \in DOMAIN Gateways \cup {None} /\ o.amount \in Int
    /\ TotalOf(o.amount) \in Int /\ o.amount <= TotalOf(o.amount)
    /\ order' = [order EXCEPT ![p] = o]
    /\ pc' = [pc EXCEPT ![p] = label]
    /\ UNCHANGED <<txs, link, charge>>
    /\ label \in {"idle", "direct", "hosted"} \/ (label = "create" /\ ~Routed(o))

LEMMA TakeOrder ==
    ASSUME RouteInv, NEW p \in Procs, NEW o, NEW label, Taken(p, o, label)
    PROVE  RouteInv'
<1> USE DEF Taken
<1>1. Maps'
  BY DEF RouteInv, Maps
<1>2. txs[p] = 0 /\ link[p] = "unset" /\ ~Sent(p)
  BY DEF RouteInv, Prepared
<1>3. pc'[p] = label /\ order'[p] = o
  BY DEF RouteInv, Maps
<1>4. Sent(p)' = Sent(p)
  BY DEF Sent
<1>5. AtWork(p)' /\ Safe(p)'
  BY <1>2, <1>3, <1>4 DEF AtWork, Safe
<1>6. Prepared(p)'
  <2>1. txs'[p] = 0 /\ order'[p] # NoOrderYet
    BY <1>2, <1>3
  <2>2. label = "create" => ~Routed(order'[p])
    BY <1>3
  <2>3. Untried(p)'
    BY <2>1 DEF Untried, Lifted
  <2> QED
    BY <1>3, <2>1, <2>2, <2>3, LinkLabels DEF Prepared
<1>7. \A q \in Procs \ {p} : pc'[q] = pc[q] /\ order'[q] = order[q]
  OBVIOUS
<1> QED
  BY <1>1, <1>5, <1>6, <1>7, OthersKnow

LEMMA AskKeeps == ASSUME RouteInv, NEW p \in Procs, Ask(p) PROVE RouteInv'
<1> USE DEF Return, JumpWith, Jump, None
<1>1. pc[p] = "idle" /\ order[p] = NoOrderYet /\ UNCHANGED <<txs, link, charge>>
  BY DEF Ask, ElsewhereSame
<1>2. PICK o \in Orders :
        \/ o.flow = "transfer" /\ AskTransfer(p, o)
        \/ o.flow = "invoice" /\ AskInvoice(p, o)
        \/ o.flow = "direct" /\ AskDirect(p, o)
        \/ o.flow = "api" /\ (AskApiPage(p, o) \/ AskApiCharge(p, o))
  BY DEF Ask
<1>3. /\ o \in OrderDocs /\ o # NoOrderYet
      /\ o.gateway \in DOMAIN Gateways \cup {None}
      /\ o.amount \in Int /\ TotalOf(o.amount) \in Int /\ o.amount <= TotalOf(o.amount)
  BY PayinRouteAssumption, OrdersAreProper
<1>4. CASE o.flow = "transfer" /\ AskTransfer(p, o)
  <2> DEFINE method == PayerMethods[o.paidBy]
             mine == IF o.paidBy = None THEN o
                     ELSE [o EXCEPT !.gateway = IF method.gateway # None THEN method.gateway ELSE @,
                                    !.country = IF method.country # None THEN method.country ELSE @,
                                    !.network = None]
  <2>1. mine.amount = o.amount /\ mine.paidBy = o.paidBy
    BY <1>3 DEF OrderDocs
  <2>2. mine.gateway \in DOMAIN Gateways \cup {None}
    <3>1. mine.gateway \in {o.gateway, method.gateway}
      BY <1>3 DEF OrderDocs
    <3>2. o.paidBy # None => method.gateway \in DOMAIN Gateways \cup {None}
      BY <1>4, PayinRouteAssumption
    <3>3. o.paidBy = None => mine.gateway = o.gateway
      OBVIOUS
    <3> QED
      BY <1>3, <3>1, <3>2, <3>3
  <2>3. mine # NoOrderYet
    BY <1>3, <2>1 DEF NoOrderYet
  <2>4. order' = [order EXCEPT ![p] = mine]
    BY <1>4 DEF AskTransfer
  <2>5. PICK label \in {"idle", "direct", "hosted"} : pc' = [pc EXCEPT ![p] = label]
    BY <1>4 DEF AskTransfer
  <2>6. Taken(p, mine, label)
    BY <1>1, <1>3, <2>1, <2>2, <2>3, <2>4, <2>5 DEF Taken, Routed
  <2> QED
    BY <2>6, TakeOrder
<1>5. CASE AskInvoice(p, o)
  <2>1. PICK label \in {"direct", "hosted"} : pc' = [pc EXCEPT ![p] = label]
    BY <1>5 DEF AskInvoice
  <2>2. Taken(p, o, label)
    BY <1>1, <1>3, <1>5, <2>1 DEF AskInvoice, Taken, Routed
  <2> QED
    BY <2>2, TakeOrder
<1>6. CASE o.flow = "direct" /\ AskDirect(p, o)
  <2>1. Taken(p, o, "create")
    BY <1>1, <1>3, <1>6 DEF AskDirect, Routed, Taken
  <2> QED
    BY <2>1, TakeOrder
<1>7. CASE AskApiPage(p, o)
  <2>1. Taken(p, o, "hosted")
    BY <1>1, <1>3, <1>7 DEF AskApiPage, Taken, Routed
  <2> QED
    BY <2>1, TakeOrder
<1>8. CASE o.flow = "api" /\ AskApiCharge(p, o)
  <2> DEFINE mine == IF o.paidBy = None THEN o ELSE [o EXCEPT !.network = o.paidBy]
  <2>1. mine.amount = o.amount /\ mine.gateway = o.gateway /\ mine.flow = "api"
    BY <1>3, <1>8 DEF OrderDocs
  <2>2. mine # NoOrderYet /\ ~Routed(mine)
    BY <2>1 DEF NoOrderYet, Routed
  <2>3. order' = [order EXCEPT ![p] = mine] /\ pc' = [pc EXCEPT ![p] = "create"]
    BY <1>8 DEF AskApiCharge
  <2>4. Taken(p, mine, "create")
    BY <1>1, <1>3, <2>1, <2>2, <2>3 DEF Taken
  <2> QED
    BY <2>4, TakeOrder
<1> QED
  BY <1>2, <1>4, <1>5, <1>6, <1>7, <1>8

----
(* A handler at work goes on, and may make its transaction.                *)
Proceeds(p, label) ==
    /\ pc[p] # "idle"
    /\ pc' = [pc EXCEPT ![p] = label]
    /\ UNCHANGED <<order, charge, link>>
    /\ txs' = txs \/ txs' = [txs EXCEPT ![p] = @ + 1]
    /\ label # "direct"
    /\ label = "create" => txs'[p] = 0 /\ (Routed(order[p]) => Chargeable(order[p]))
    /\ label \in {"rejected", "hosted", "paystack"} \cup Links => Untried(p)'

LEMMA RouteProceeds ==
    ASSUME RouteInv, NEW p \in Procs, NEW label, Proceeds(p, label)
    PROVE  RouteInv'
<1> USE DEF Proceeds
<1>1. Maps'
  BY DEF RouteInv, Maps
<1>2. pc'[p] = label /\ order' = order /\ charge' = charge /\ link' = link
  BY DEF RouteInv, Maps
<1>3. /\ order[p] # NoOrderYet
      /\ order[p].gateway \in DOMAIN Gateways \cup {None}
      /\ {order[p].amount, TotalOf(order[p].amount)} \subseteq Int
      /\ order[p].amount <= TotalOf(order[p].amount)
      /\ link[p] = "unset" /\ ~Sent(p)
  BY DEF RouteInv, AtWork
<1>4. Sent(p)' = Sent(p)
  BY <1>2 DEF Sent
<1>5. AtWork(p)' /\ Safe(p)'
  BY <1>2, <1>3, <1>4 DEF AtWork, Safe
<1>6. (Routed(order[p]) => Chargeable(order[p]))' = (Routed(order[p]) => Chargeable(order[p]))
  BY <1>2 DEF Routed, Chargeable, HasCredentials, BuildCharge
<1>7. Prepared(p)'
  BY <1>2, <1>3, <1>6, LinkLabels DEF Prepared
<1>8. \A q \in Procs \ {p} : pc'[q] = pc[q] /\ txs'[q] = txs[q]
  BY DEF RouteInv, Maps
<1> QED
  BY <1>1, <1>2, <1>5, <1>7, <1>8, OthersKnow

(* A handler ends: it sends a charge, or it offers a page if that is safe. *)
Ends(p) ==
    /\ pc[p] # "idle"
    /\ pc' = [pc EXCEPT ![p] = "idle"]
    /\ UNCHANGED order
    /\ \/ /\ UNCHANGED <<txs, link>>
          /\ \E c : charge' = [charge EXCEPT ![p] = c]
       \/ /\ UNCHANGED charge
          /\ Untried(p)
          /\ txs' = [txs EXCEPT ![p] = @ + 1]
          /\ \E g : link' = [link EXCEPT ![p] = g]

LEMMA RouteEnds == ASSUME RouteInv, NEW p \in Procs, Ends(p) PROVE RouteInv'
<1> USE DEF Ends
<1>1. Maps'
  BY DEF RouteInv, Maps
<1>2. pc'[p] = "idle" /\ order' = order
  BY DEF RouteInv, Maps
<1>3. order[p] # NoOrderYet /\ link[p] = "unset" /\ ~Sent(p) /\ txs[p] \in Nat
  BY DEF RouteInv, AtWork, Maps
<1>4. AtWork(p)' /\ Prepared(p)'
  <2>1. order'[p] # NoOrderYet
    BY <1>2, <1>3
  <2> HIDE DEF Ends
  <2>2. /\ pc'[p] \notin {"direct", "create"}
        /\ pc'[p] \notin {"rejected", "hosted", "paystack"} \cup Links
    BY <1>2, LinkLabels
  <2> QED
    BY <1>2, <2>1, <2>2 DEF AtWork, Prepared
<1>5. Safe(p)'
  <2>1. CASE link' = link
    BY <1>3, <2>1 DEF Safe
  <2>2. CASE link' # link
    <3>1. Sent(p)' = Sent(p)
      BY <2>2 DEF Sent
    <3>2. txs'[p] = txs[p] + 1 /\ (txs[p] = 0 \/ Lifted(p))
      BY <2>2 DEF Untried, RouteInv, Maps
    <3>3. Lifted(p)' = Lifted(p)
      BY <1>2 DEF Lifted
    <3> QED
      BY <1>3, <3>1, <3>2, <3>3 DEF Safe
  <2> QED
    BY <2>1, <2>2
<1>6. \A q \in Procs \ {p} : /\ pc'[q] = pc[q] /\ order'[q] = order[q] /\ txs'[q] = txs[q]
                             /\ charge'[q] = charge[q] /\ link'[q] = link[q]
  BY DEF RouteInv, Maps
<1> QED
  BY <1>1, <1>4, <1>5, <1>6, OthersKnow

----
(* Each step keeps the invariant.                                          *)
LEMMA RouteStep == RouteInv /\ [PayinRouteNext]_routeVars => RouteInv'
<1> SUFFICES ASSUME RouteInv, [PayinRouteNext]_routeVars PROVE RouteInv'
  OBVIOUS
<1> USE DEF Jump, Return, JumpWith, ElsewhereSame
<1>1. CASE UNCHANGED routeVars
  <2>1. UNCHANGED <<pc, order, txs, charge, link>>
    BY <1>1 DEF routeVars, routeOnly, reqVars
  <2> QED
    BY <2>1 DEF RouteInv, Maps, AtWork, Prepared, Safe, Sent, Untried, Lifted, Routed, Chargeable,
                HasCredentials, BuildCharge
<1>2. CASE PayinRouteNext
  <2> PICK p \in Procs :
        \/ Ask(p) \/ Prepare(p) \/ CreateDirect(p) \/ ChargeDirect(p) \/ LoseCharge(p) \/ FallBack(p)
        \/ LoadCredentials(p) \/ LoadPaystackKeys(p)
        \/ MakeLink(p) \/ MakePaystackLink(p) \/ PushMpesa(p) \/ FailToMakeLink(p)
    BY <1>2 DEF PayinRouteNext
  <2>1. CASE Ask(p)
    BY <2>1, AskKeeps
  <2>2. CASE Prepare(p)
    <3>1. txs[p] = 0 /\ UNCHANGED <<order, txs, charge, link>>
      BY <2>2 DEF Prepare, RouteInv, Prepared
    <3>2. Untried(p)'
      BY <3>1 DEF Untried
    <3>3. PICK label \in {"rejected", "create", "idle"} :
            /\ pc' = [pc EXCEPT ![p] = label]
            /\ label = "create" => Chargeable(order[p])
      BY <2>2 DEF Prepare, Chargeable
    <3>4. Proceeds(p, label)
      BY <2>2, <3>1, <3>2, <3>3, LinkLabels DEF Prepare, Proceeds
    <3> QED
      BY <3>4, RouteProceeds
  <2>3. CASE CreateDirect(p)
    <3>1. /\ pc[p] = "create" /\ UNCHANGED <<order, charge, link>>
          /\ txs' = [txs EXCEPT ![p] = @ + 1] /\ txs'[p] = 1
      BY <2>3 DEF CreateDirect, RouteInv, Prepared, Maps
    <3>2. PICK label \in {"rejected", "charge"} :
            /\ pc' = [pc EXCEPT ![p] = label]
            /\ label = "rejected" => Routed(order[p]) /\ Built(p).error # None
      BY <2>3 DEF CreateDirect
    <3>3. label = "rejected" => Lifted(p)
      <4> SUFFICES ASSUME label = "rejected" PROVE Lifted(p)
        OBVIOUS
      <4> DEFINE a == order[p].amount
      <4>1. Routed(order[p]) /\ Chargeable(order[p]) /\ Built(p).error # None
        BY <3>1, <3>2 DEF RouteInv, Prepared
      <4>2. BuildCharge(order[p], TotalOf(a)).error # None
        BY <4>1 DEF Built, Chargeable
      <4>3. a \in Int /\ TotalOf(a) \in Int /\ a <= TotalOf(a)
        BY <3>1 DEF RouteInv, AtWork
      <4>4. BuildCharge(order[p], a).error = None
        BY <4>1 DEF Chargeable
      <4> QED
        BY <4>2, <4>3, <4>4, OnlyFeesReject DEF Lifted
    <3>4. label = "rejected" => Untried(p)'
      BY <3>1, <3>3 DEF Untried, Lifted
    <3>5. Proceeds(p, label)
      BY <3>1, <3>2, <3>4, LinkLabels DEF Proceeds
    <3> QED
      BY <3>5, RouteProceeds
  <2>4. CASE ChargeDirect(p)
    <3>1. Ends(p)
      BY <2>4 DEF ChargeDirect, Ends
    <3> QED
      BY <3>1, RouteEnds
  <2>5. CASE LoseCharge(p)
    <3>1. Ends(p)
      BY <2>5 DEF LoseCharge, FaultyJump, AfterError, Ends
    <3> QED
      BY <3>1, RouteEnds
  <2>6. CASE FallBack(p)
    <3>1. pc[p] = "rejected" /\ Untried(p) /\ UNCHANGED <<order, txs, charge, link>>
      BY <2>6 DEF FallBack, RouteInv, Prepared
    <3>2. Untried(p)'
      BY <3>1 DEF Untried, Lifted
    <3>3. PICK label \in {"hosted", "idle"} : pc' = [pc EXCEPT ![p] = label]
      BY <2>6 DEF FallBack
    <3>4. Proceeds(p, label)
      BY <3>1, <3>2, <3>3 DEF Proceeds
    <3> QED
      BY <3>4, RouteProceeds
  <2>7. CASE LoadCredentials(p) \/ LoadPaystackKeys(p)
    <3>1. pc[p] # "idle" /\ Untried(p) /\ UNCHANGED <<order, txs, charge, link>>
      BY <2>7 DEF LoadCredentials, LoadPaystackKeys, RouteInv, Prepared
    <3>2. Untried(p)'
      BY <3>1 DEF Untried, Lifted
    <3>3. PICK label : /\ pc' = [pc EXCEPT ![p] = label]
                       /\ label \notin {"direct", "create"}
      <4>1. CASE LoadPaystackKeys(p)
        BY <4>1 DEF LoadPaystackKeys
      <4>2. CASE LoadCredentials(p)
        <5>1. CASE pc' = [pc EXCEPT ![p] = LinkOf[HostOf(order[p])]]
          <6>1. order[p].gateway \in DOMAIN Gateways \cup {None}
            BY <3>1 DEF RouteInv, AtWork
          <6>2. HostOf(order[p]) \in GatewayTypes
            BY <6>1, PayinRouteAssumption DEF HostOf, GatewayDocs, GatewayTypes
          <6>3. LinkOf[HostOf(order[p])] \notin {"direct", "create"}
            BY <6>2, LinkLabels DEF GatewayTypes
          <6> QED
            BY <5>1, <6>3
        <5>2. CASE pc' # [pc EXCEPT ![p] = LinkOf[HostOf(order[p])]]
          BY <4>2, <5>2 DEF LoadCredentials
        <5> QED
          BY <5>1, <5>2
      <4> QED
        BY <2>7, <4>1, <4>2
    <3>4. Proceeds(p, label)
      BY <3>1, <3>2, <3>3 DEF Proceeds
    <3> QED
      BY <3>4, RouteProceeds
  <2>8. CASE MakeLink(p) \/ MakePaystackLink(p) \/ PushMpesa(p)
    <3>1. PICK t \in GatewayTypes : Offer(p, t)
      BY <2>8 DEF MakeLink, MakePaystackLink, PushMpesa, GatewayTypes
    <3>2. pc[p] \in Links /\ pc[p] # "idle"
      BY <3>1, LinkLabels DEF Offer, Links
    <3>3. Untried(p)
      BY <3>2 DEF RouteInv, Prepared
    <3>4. Ends(p)
      BY <3>1, <3>2, <3>3 DEF Offer, Ends
    <3> QED
      BY <3>4, RouteEnds
  <2>9. CASE FailToMakeLink(p)
    <3>1. pc[p] \in Links /\ pc[p] # "idle"
      BY <2>9, LinkLabels DEF FailToMakeLink
    <3>2. Proceeds(p, "idle")
      BY <2>9, <3>1, LinkLabels DEF FailToMakeLink, FaultyReturn, Proceeds
    <3> QED
      BY <3>2, RouteProceeds
  <2> QED
    BY <2>1, <2>2, <2>3, <2>4, <2>5, <2>6, <2>7, <2>8, <2>9
<1> QED
  BY <1>1, <1>2

(* A payment that may have been charged is never offered a hosted page,    *)
(* and a page is made beside a charge that was given up only if the fees   *)
(* alone lifted it over the ceiling, for any number of handlers, any       *)
(* orders, accounts and fees, and whatever the flags are.                  *)
THEOREM OneRouteOnly == PayinRouteSpec => []OneRoute
<1>1. RouteInv => OneRoute
  BY DEF RouteInv, Safe, Lifted, OneRoute
<1> QED
  BY <1>1, RouteStart, RouteStep, PTL DEF PayinRouteSpec

----
(* What a developer hears.                                                 *)
CallRecords == [tx : ApiTxs, status : ApiStatuses, change : Nat,
                at : {"read", "claim", "post", "unset"}]

CallTypes ==
    /\ faults \in [Faults -> Nat]
    /\ apiStatus \in [ApiTxs -> ApiStatuses]
    /\ changes \in [ApiTxs -> Nat]
    /\ DOMAIN lastCallbackStatus = ApiTxs /\ DOMAIN heard = ApiTxs
    /\ calls \subseteq CallRecords

(* A call is about to tell the status that the transaction has.            *)
OnItsWay(c, t) ==
    /\ c.tx = t
    /\ \/ c.at = "read"
       \/ c.at \in {"claim", "post"} /\ c.status = apiStatus[t]

WillHear(t) == apiStatus[t] \in heard[t] \/ \E c \in calls : OnItsWay(c, t)

(* Who holds the claim of a status tells it, or has.                       *)
ClaimIsTold(t) ==
    LET last == lastCallbackStatus[t]
    IN  \/ last = "none"
        \/ last \in heard[t]
        \/ \E c \in calls : c.tx = t /\ c.at = "post" /\ c.status = last

HeardInv ==
    /\ CallTypes
    /\ Serene =>
        /\ \A c \in calls : c.at # "unset"
        /\ \A t \in ApiTxs : changes[t] > 0 /\ apiStatus[t] # "payin_success" => WillHear(t)
        /\ \A t \in ApiTxs : ClaimIsTold(t)

LEMMA HeardStart == CallbackInit => HeardInv
BY DEF CallbackInit, RequestsInit, HeardInv, CallTypes, WillHear, ClaimIsTold, ApiTxs,
   ApiStatuses, ApiPayinStatuses, ApiPayoutStatuses

LEMMA FaultIsFelt ==
    ASSUME faults \in [Faults -> Nat], NEW k, Faulty(k)
    PROVE  ~Serene' /\ faults' \in [Faults -> Nat]
BY DEF Faulty, Serene

(* A status changes, with a call or without.                               *)
LEMMA ChangeIsHeard ==
    ASSUME HeardInv, NEW t \in ApiTxs, NEW to \in ApiStatuses,
           UpdateAndCall(t, to) \/ (ClaimSilently(t) /\ to = "payin_success")
    PROVE  HeardInv'
<1> USE DEF UpdateAndCall, ClaimSilently, Change
<1>1. CallTypes
  BY DEF HeardInv
<1>2. /\ apiStatus' = [apiStatus EXCEPT ![t] = to] /\ changes' = [changes EXCEPT ![t] = @ + 1]
      /\ UNCHANGED <<faults, lastCallbackStatus, heard>>
  BY DEF reqVars
<1>3. /\ \A u \in ApiTxs \ {t} : apiStatus'[u] = apiStatus[u] /\ changes'[u] = changes[u]
      /\ apiStatus'[t] = to /\ changes'[t] \in Nat
      /\ apiStatus' \in [ApiTxs -> ApiStatuses] /\ changes' \in [ApiTxs -> Nat]
  BY <1>1, <1>2 DEF CallTypes
<1> DEFINE call == [tx |-> t, status |-> to, change |-> changes'[t],
                    at |-> IF to = "payout_error" THEN "read" ELSE "claim"]
<1>4. /\ call \in CallRecords /\ call.tx = t /\ call.status = to /\ call.at \in {"read", "claim"}
  BY <1>3 DEF CallRecords
<1>5. calls' = calls \cup {call} \/ (calls' = calls /\ to = "payin_success")
  OBVIOUS
<1> HIDE DEF call
<1>6. CallTypes'
  BY <1>1, <1>2, <1>3, <1>4, <1>5 DEF CallTypes
<1>7. ASSUME Serene'
      PROVE  /\ \A c \in calls' : c.at # "unset"
             /\ \A u \in ApiTxs : (changes[u] > 0 /\ apiStatus[u] # "payin_success" => WillHear(u))'
             /\ \A u \in ApiTxs : ClaimIsTold(u)'
  <2>1. Serene
    BY <1>2, <1>7 DEF Serene
  <2>2. \A c \in calls' : c.at # "unset"
    BY <1>4, <1>5, <2>1 DEF HeardInv
  <2>3. ASSUME NEW u \in ApiTxs, changes'[u] > 0, apiStatus'[u] # "payin_success"
        PROVE  WillHear(u)'
    <3>1. CASE u = t
      BY <1>3, <1>4, <1>5, <2>3, <3>1 DEF WillHear, OnItsWay
    <3>2. CASE u # t
      <4>1. WillHear(u) /\ apiStatus'[u] = apiStatus[u]
        BY <1>3, <2>1, <2>3, <3>2 DEF HeardInv
      <4> QED
        BY <1>2, <1>5, <4>1 DEF WillHear, OnItsWay
    <3> QED
      BY <3>1, <3>2
  <2>4. \A u \in ApiTxs : ClaimIsTold(u)'
    BY <1>2, <1>5, <2>1 DEF HeardInv, ClaimIsTold
  <2> QED
    BY <2>2, <2>3, <2>4
<1> QED
  BY <1>6, <1>7 DEF HeardInv

(* A call goes on, is claimed, or tells.                                   *)
LEMMA CallIsHeard ==
    ASSUME HeardInv, NEW c \in calls,
           ReadAgain(c) \/ ClaimCallback(c) \/ Post(c)
    PROVE  HeardInv'
<1> USE DEF Drop, Proceed, Hear
<1>1. CallTypes /\ c \in CallRecords /\ c.tx \in ApiTxs
  BY DEF HeardInv, CallTypes, CallRecords
<1>2. UNCHANGED <<faults, apiStatus, changes>>
  BY DEF ReadAgain, ClaimCallback, Post, reqVars
<1>3. c.status # "none"
  BY <1>1 DEF CallRecords, ApiStatuses, ApiPayinStatuses, ApiPayoutStatuses
<1>4. Serene' => Serene
  BY <1>2 DEF Serene
<1>5. CASE ReadAgain(c)
  <2> DEFINE d == [c EXCEPT !.status = apiStatus[c.tx], !.at = "claim"]
  <2>1. /\ calls' = (calls \ {c}) \cup {d} /\ UNCHANGED <<lastCallbackStatus, heard>>
        /\ c.at = "read"
    BY <1>5 DEF ReadAgain
  <2>2. d \in CallRecords /\ d.tx = c.tx /\ d.status = apiStatus[c.tx] /\ d.at = "claim"
    BY <1>1 DEF CallRecords, CallTypes
  <2> HIDE DEF d
  <2>3. CallTypes'
    BY <1>1, <1>2, <2>1, <2>2 DEF CallTypes
  <2>4. ASSUME NEW t \in ApiTxs, WillHear(t) PROVE WillHear(t)'
    BY <1>2, <2>1, <2>2, <2>4 DEF WillHear, OnItsWay
  <2>5. ASSUME NEW t \in ApiTxs, ClaimIsTold(t) PROVE ClaimIsTold(t)'
    BY <2>1, <2>5 DEF ClaimIsTold
  <2> QED
    BY <1>2, <1>4, <2>1, <2>2, <2>3, <2>4, <2>5 DEF HeardInv
<1>6. CASE ClaimCallback(c) /\ lastCallbackStatus[c.tx] = c.status
  <2>1. calls' = calls \ {c} /\ UNCHANGED <<lastCallbackStatus, heard>> /\ c.at = "claim"
    BY <1>6 DEF ClaimCallback
  <2>2. CallTypes'
    BY <1>1, <1>2, <2>1 DEF CallTypes
  <2>3. ASSUME NEW t \in ApiTxs, ClaimIsTold(t) PROVE ClaimIsTold(t)'
    BY <2>1, <2>3 DEF ClaimIsTold
  <2>4. ASSUME NEW t \in ApiTxs, WillHear(t), ClaimIsTold(t) PROVE WillHear(t)'
    <3>1. CASE OnItsWay(c, t)
      <4>1. c.tx = t /\ lastCallbackStatus[t] = apiStatus[t] /\ lastCallbackStatus[t] # "none"
        BY <1>3, <1>6, <2>1, <3>1 DEF OnItsWay
      <4> QED
        BY <1>2, <2>1, <2>4, <4>1 DEF WillHear, OnItsWay, ClaimIsTold
    <3>2. CASE ~OnItsWay(c, t)
      BY <1>2, <2>1, <2>4, <3>2 DEF WillHear, OnItsWay
    <3> QED
      BY <3>1, <3>2
  <2> QED
    BY <1>2, <1>4, <2>1, <2>2, <2>3, <2>4 DEF HeardInv
<1>7. CASE ClaimCallback(c) /\ lastCallbackStatus[c.tx] # c.status
  <2> DEFINE d == [c EXCEPT !.at = "post"]
  <2>1. /\ calls' = (calls \ {c}) \cup {d} /\ UNCHANGED heard /\ c.at = "claim"
        /\ lastCallbackStatus' = [lastCallbackStatus EXCEPT ![c.tx] = c.status]
    BY <1>7 DEF ClaimCallback
  <2>2. d \in CallRecords /\ d.tx = c.tx /\ d.status = c.status /\ d.at = "post"
    BY <1>1 DEF CallRecords
  <2> HIDE DEF d
  <2>3. CallTypes'
    BY <1>1, <1>2, <2>1, <2>2 DEF CallTypes
  <2>4. ASSUME NEW t \in ApiTxs, ClaimIsTold(t) PROVE ClaimIsTold(t)'
    BY <1>1, <2>1, <2>2, <2>4 DEF ClaimIsTold, CallTypes
  <2>5. ASSUME NEW t \in ApiTxs, WillHear(t) PROVE WillHear(t)'
    BY <1>2, <2>1, <2>2, <2>5 DEF WillHear, OnItsWay
  <2> QED
    BY <1>2, <1>4, <2>1, <2>2, <2>3, <2>4, <2>5 DEF HeardInv
<1>8. CASE Post(c)
  <2>1. /\ calls' = calls \ {c} /\ UNCHANGED lastCallbackStatus /\ c.at = "post"
        /\ heard' = [heard EXCEPT ![c.tx] = @ \cup {c.status}]
    BY <1>8 DEF Post
  <2>2. /\ \A t \in ApiTxs : heard[t] \subseteq heard'[t]
        /\ c.status \in heard'[c.tx] /\ DOMAIN heard' = ApiTxs
    BY <1>1, <2>1 DEF CallTypes
  <2>3. CallTypes'
    BY <1>1, <1>2, <2>1, <2>2 DEF CallTypes
  <2>4. ASSUME NEW t \in ApiTxs, ClaimIsTold(t) PROVE ClaimIsTold(t)'
    BY <2>1, <2>2, <2>4 DEF ClaimIsTold
  <2>5. ASSUME NEW t \in ApiTxs, WillHear(t) PROVE WillHear(t)'
    BY <1>2, <2>1, <2>2, <2>5 DEF WillHear, OnItsWay
  <2> QED
    BY <1>2, <1>4, <2>1, <2>2, <2>3, <2>4, <2>5 DEF HeardInv
<1> QED
  BY <1>5, <1>6, <1>7, <1>8

LEMMA HeardStep == HeardInv /\ [CallbackNext]_callbackVars => HeardInv'
<1> SUFFICES ASSUME HeardInv, [CallbackNext]_callbackVars PROVE HeardInv'
  OBVIOUS
<1>1. CallTypes
  BY DEF HeardInv
<1>2. CASE UNCHANGED callbackVars
  BY <1>2 DEF callbackVars, callbackOnly, reqVars, HeardInv, CallTypes, WillHear, OnItsWay,
     ClaimIsTold, Serene
<1>3. ASSUME NEW t \in ApiTxs, ClaimSilently(t) \/ \E to \in ApiStatuses : UpdateAndCall(t, to)
      PROVE  HeardInv'
  BY <1>3, ChangeIsHeard DEF ApiStatuses, ApiPayinStatuses
<1>4. ASSUME NEW c \in calls, ReadAgain(c) \/ ClaimCallback(c) \/ Post(c) PROVE HeardInv'
  BY <1>4, CallIsHeard
<1>5. ASSUME NEW c \in calls, PostFails(c) \/ Unset(c) \/ LoseCall(c) PROVE HeardInv'
  <2> USE DEF Drop, Proceed, Hear
  <2>1. c \in CallRecords
    BY <1>1 DEF CallTypes
  <2>2. UNCHANGED <<apiStatus, changes>> /\ DOMAIN heard' = ApiTxs /\ DOMAIN lastCallbackStatus' = ApiTxs
    BY <1>1, <1>5 DEF PostFails, Unset, LoseCall, CallTypes
  <2>3. calls' \subseteq calls \cup {[c EXCEPT !.at = "unset"]}
    BY <1>5 DEF PostFails, Unset, LoseCall
  <2>4. [c EXCEPT !.at = "unset"] \in CallRecords
    BY <2>1 DEF CallRecords
  <2>5. ~Serene' /\ faults' \in [Faults -> Nat]
    <3>1. CASE Unset(c)
      BY <1>1, <3>1 DEF Unset, reqVars, HeardInv, CallTypes, Serene
    <3>2. CASE PostFails(c) \/ LoseCall(c)
      BY <1>1, <3>2, FaultIsFelt DEF PostFails, LoseCall, CallTypes
    <3> QED
      BY <1>5, <3>1, <3>2
  <2>6. CallTypes'
    BY <1>1, <2>2, <2>3, <2>4, <2>5 DEF CallTypes
  <2> QED
    BY <2>5, <2>6 DEF HeardInv
<1> QED
  BY <1>2, <1>3, <1>4, <1>5 DEF CallbackNext

(* Once the calls are over, the developer has heard of the status that a   *)
(* transaction has, however its changes and the calls about them           *)
(* interleave, as long as nothing failed: a call is dropped only when      *)
(* another one has the same status in its hands.                           *)
THEOREM DeveloperHears == CallbackSpec => []StatusWasHeard
<1>1. HeardInv => StatusWasHeard
  BY DEF HeardInv, StatusWasHeard, WillHear, OnItsWay, Quiet
<1> QED
  BY <1>1, HeardStart, HeardStep, PTL DEF CallbackSpec

----
(* The account that a hosted page belongs to.                              *)
HasAccount(o) == \E g \in Wanted(o) : Gateways[g].type = HostOf(o)

(* Between its keys and their use, a handler's account is loaded, or it    *)
(* was overtaken.                                                          *)
Keyed(p) ==
    /\ pc[p] = "paystack" => HostOf(order[p]) = "paystack"
    /\ pc[p] \in Links =>
        /\ pc[p] = LinkOf[HostOf(order[p])]
        /\ HasAccount(order[p]) =>
            credentials[HostOf(order[p])] \in Wanted(order[p]) \/ p \in overtaken

PageFits(p) ==
    link[p] # "unset" /\ HasAccount(order[p]) => link[p] \in Wanted(order[p]) \/ p \in overtaken

AccountInv ==
    /\ RouteInv
    /\ DOMAIN credentials = GatewayTypes
    /\ \A p \in Procs : Keyed(p) /\ PageFits(p)

LEMMA AccountStart == PayinRouteInit => AccountInv
<1> SUFFICES ASSUME PayinRouteInit PROVE AccountInv
  OBVIOUS
<1>1. DOMAIN credentials = GatewayTypes
  BY DEF PayinRouteInit
<1>2. \A p \in Procs : pc[p] = "idle" /\ link[p] = "unset"
  BY DEF PayinRouteInit, RequestsInit
<1> QED
  BY <1>1, <1>2, RouteStart, LinkLabels DEF AccountInv, Keyed, PageFits

LEMMA HostIsKnown ==
    ASSUME NEW o, o.gateway \in DOMAIN Gateways \cup {None} PROVE HostOf(o) \in GatewayTypes
BY PayinRouteAssumption DEF HostOf, GatewayDocs, GatewayTypes

LEMMA LinksDiffer ==
    ASSUME NEW s \in GatewayTypes, NEW t \in GatewayTypes, LinkOf[s] = LinkOf[t] PROVE s = t
BY LinkLabels DEF GatewayTypes

(* The account that is loaded for an order brings the keys of its host.    *)
LEMMA KeysFit ==
    ASSUME NEW o, o.gateway \in DOMAIN Gateways \cup {None}, HasAccount(o), NEW g \in Wanted(o),
           NEW services, HostOf(o) \in services
    PROVE  KeysAfter(g, services)[HostOf(o)] = g
<1>1. HostOf(o) \in GatewayTypes
  BY HostIsKnown
<1>2. g \in DOMAIN Gateways /\ Gateways[g].type = HostOf(o)
  <2>1. CASE o.gateway # None
    BY <2>1 DEF Wanted, HostOf
  <2>2. CASE o.gateway = None
    <3>1. HostOf(o) = "flutterwave"
      BY <2>2 DEF HostOf
    <3>2. CASE AccountsOf("flutterwave", o.currency) # {}
      BY <2>2, <3>1, <3>2 DEF Wanted, AccountsOf, None
    <3>3. CASE AccountsOf("flutterwave", o.currency) = {}
      <4>1. PICK h \in AccountsOf(None, o.currency) : Gateways[h].type = "flutterwave"
        BY <2>2, <3>1, <3>3 DEF Wanted, HasAccount
      <4>2. h \in AccountsOf("flutterwave", o.currency)
        BY <4>1 DEF AccountsOf, None
      <4> QED
        BY <3>3, <4>2
    <3> QED
      BY <3>2, <3>3
  <2> QED
    BY <2>1, <2>2
<1>3. Gateways[g].type \in Gateways[g].keys
  BY <1>2, PayinRouteAssumption
<1> QED
  BY <1>1, <1>2, <1>3 DEF KeysAfter

(* A handler that neither loads an account nor offers a page.              *)
LEMMA AccountAside ==
    ASSUME AccountInv, RouteInv', NEW p \in Procs, UNCHANGED <<credentials, overtaken, link>>,
           NEW label, pc' = [pc EXCEPT ![p] = label], label \notin {"paystack"} \cup Links,
           \A q \in Procs \ {p} : order'[q] = order[q],
           order'[p] = order[p] \/ link[p] = "unset"
    PROVE  AccountInv'
<1>1. DOMAIN pc = Procs
  BY DEF AccountInv, RouteInv, Maps
<1>2. ASSUME NEW q \in Procs PROVE Keyed(q)' /\ PageFits(q)'
  <2>1. Keyed(q) /\ PageFits(q)
    BY DEF AccountInv
  <2>2. CASE q = p
    <3>1. pc'[q] \notin {"paystack"} \cup Links
      BY <1>1, <2>2
    <3> QED
      BY <2>1, <2>2, <3>1 DEF Keyed, PageFits
  <2>3. CASE q # p
    <3>1. pc'[q] = pc[q] /\ order'[q] = order[q] /\ link'[q] = link[q]
      BY <1>1, <2>3
    <3> QED
      BY <2>1, <3>1 DEF Keyed, PageFits
  <2> QED
    BY <2>2, <2>3
<1> QED
  BY <1>2 DEF AccountInv

(* A handler loads the account of its order, and overtakes the others.     *)
LEMMA AccountLoaded ==
    ASSUME AccountInv, RouteInv', NEW p \in Procs, UNCHANGED <<order, link>>,
           pc[p] # "idle", NEW label, pc' = [pc EXCEPT ![p] = label],
           DOMAIN credentials' = GatewayTypes, Keyed(p)',
           \/ UNCHANGED <<credentials, overtaken>>
           \/ overtaken' = (overtaken \cup {q \in Procs : pc[q] \in Links}) \ {p}
    PROVE  AccountInv'
<1>1. DOMAIN pc = Procs /\ AtWork(p)
  BY DEF AccountInv, RouteInv, Maps
<1>2. ASSUME NEW q \in Procs PROVE Keyed(q)' /\ PageFits(q)'
  <2>1. Keyed(q) /\ PageFits(q)
    BY DEF AccountInv
  <2>2. CASE q = p
    BY <1>1, <2>2 DEF AtWork, PageFits
  <2>3. CASE q # p
    <3>1. pc'[q] = pc[q] /\ order'[q] = order[q] /\ link'[q] = link[q]
      BY <1>1, <2>3
    <3>2. q \in overtaken => q \in overtaken'
      BY <2>3
    <3>3. PageFits(q)'
      BY <2>1, <3>1, <3>2 DEF PageFits
    <3>4. CASE UNCHANGED <<credentials, overtaken>>
      BY <2>1, <3>1, <3>3, <3>4 DEF Keyed
    <3>5. CASE overtaken' = (overtaken \cup {r \in Procs : pc[r] \in Links}) \ {p}
      <4>1. pc[q] \in Links => q \in overtaken'
        BY <2>3, <3>5
      <4> QED
        BY <2>1, <3>1, <3>3, <4>1 DEF Keyed
    <3> QED
      BY <3>4, <3>5
  <2> QED
    BY <2>2, <2>3
<1> QED
  BY <1>2 DEF AccountInv

LEMMA AccountStep == AccountInv /\ [PayinRouteNext]_routeVars => AccountInv'
<1> SUFFICES ASSUME AccountInv, [PayinRouteNext]_routeVars PROVE AccountInv'
  OBVIOUS
<1> USE DEF Jump, Return, JumpWith, ElsewhereSame
<1>1. RouteInv /\ RouteInv' /\ Maps
  BY RouteStep DEF AccountInv, RouteInv
<1>2. CASE UNCHANGED routeVars
  <2>1. UNCHANGED <<pc, order, link, credentials, overtaken>>
    BY <1>2 DEF routeVars, routeOnly, reqVars
  <2> QED
    BY <1>1, <2>1 DEF AccountInv, Keyed, PageFits
<1>3. CASE PayinRouteNext
  <2> PICK p \in Procs :
        \/ Ask(p) \/ Prepare(p) \/ CreateDirect(p) \/ ChargeDirect(p) \/ LoseCharge(p) \/ FallBack(p)
        \/ LoadCredentials(p) \/ LoadPaystackKeys(p)
        \/ MakeLink(p) \/ MakePaystackLink(p) \/ PushMpesa(p) \/ FailToMakeLink(p)
    BY <1>3 DEF PayinRouteNext
  <2>1. DOMAIN order = Procs /\ DOMAIN link = Procs /\ DOMAIN pc = Procs
        /\ AtWork(p) /\ Prepared(p) /\ Keyed(p) /\ DOMAIN credentials = GatewayTypes
    BY <1>1 DEF Maps, AccountInv, RouteInv
  <2>2. CASE Ask(p)
    <3>1. /\ UNCHANGED <<credentials, overtaken, link>> /\ link[p] = "unset"
      BY <2>1, <2>2 DEF Ask, Prepared
    <3>2. PICK label \in {"idle", "direct", "hosted", "create"} :
              pc' = [pc EXCEPT ![p] = label]
      BY <2>2 DEF Ask, AskTransfer, AskInvoice, AskDirect, AskApiPage, AskApiCharge
    <3>3. \A q \in Procs \ {p} : order'[q] = order[q]
      BY <2>1, <2>2 DEF Ask, AskTransfer, AskInvoice, AskDirect, AskApiPage, AskApiCharge
    <3> QED
      BY <1>1, <3>1, <3>2, <3>3, LinkLabels, AccountAside
  <2>3. CASE \/ Prepare(p) \/ CreateDirect(p) \/ ChargeDirect(p) \/ LoseCharge(p) \/ FallBack(p)
             \/ FailToMakeLink(p)
    <3>1. UNCHANGED <<credentials, overtaken, link, order>>
      BY <2>3 DEF Prepare, CreateDirect, ChargeDirect, LoseCharge, FallBack, FailToMakeLink
    <3>2. PICK label \in {"idle", "rejected", "create", "charge", "hosted"} :
              pc' = [pc EXCEPT ![p] = label]
      BY <2>3 DEF Prepare, CreateDirect, ChargeDirect, LoseCharge, FallBack, FailToMakeLink,
         FaultyJump, FaultyReturn, AfterError
    <3> QED
      BY <1>1, <3>1, <3>2, LinkLabels, AccountAside
  <2>4. CASE LoadCredentials(p)
    <3> DEFINE o == order[p]
               services == {"flutterwave", "mpesa"}
    <3>1. /\ pc[p] = "hosted" /\ UNCHANGED <<order, link>>
          /\ \/ Wanted(o) = {} /\ UNCHANGED <<credentials, overtaken>>
             \/ \E g \in Wanted(o) : Load(p, g, services)
      BY <2>4 DEF LoadCredentials
    <3>2. /\ o.gateway \in DOMAIN Gateways \cup {None}
          /\ HostOf(o) \in GatewayTypes
      BY <2>1, <3>1, HostIsKnown DEF AtWork
    <3>3. PICK label : /\ pc' = [pc EXCEPT ![p] = label]
                       /\ \/ label = "paystack" /\ HostOf(o) = "paystack"
                          \/ label = "idle"
                          \/ label = LinkOf[HostOf(o)] /\ HostOf(o) # "paystack"
      BY <2>4 DEF LoadCredentials
    <3>4. HasAccount(o) /\ HostOf(o) # "paystack" => credentials'[HostOf(o)] \in Wanted(o)
      <4> SUFFICES ASSUME HasAccount(o), HostOf(o) # "paystack"
                   PROVE  credentials'[HostOf(o)] \in Wanted(o)
        OBVIOUS
      <4>1. PICK g \in Wanted(o) : credentials' = KeysAfter(g, services)
        BY <3>1 DEF HasAccount, Load
      <4>2. KeysAfter(g, services)[HostOf(o)] = g
        BY <3>2, KeysFit DEF GatewayTypes
      <4> QED
        BY <4>1, <4>2
    <3>5. Keyed(p)'
      <4>1. pc'[p] = label /\ order'[p] = o
        BY <2>1, <3>1, <3>3
      <4>2. label \in Links => label = LinkOf[HostOf(o)] /\ HostOf(o) # "paystack"
        BY <3>3, LinkLabels
      <4>3. label = "paystack" => HostOf(o) = "paystack"
        BY <3>2, <3>3, LinkLabels DEF GatewayTypes
      <4> QED
        BY <3>4, <4>1, <4>2, <4>3 DEF Keyed
    <3>6. /\ DOMAIN credentials' = GatewayTypes
          /\ \/ UNCHANGED <<credentials, overtaken>>
             \/ overtaken' = (overtaken \cup {q \in Procs : pc[q] \in Links}) \ {p}
      BY <2>1, <3>1 DEF Load, KeysAfter
    <3> QED
      BY <1>1, <3>1, <3>3, <3>5, <3>6, AccountLoaded
  <2>5. CASE LoadPaystackKeys(p)
    <3> DEFINE o == order[p]
    <3>1. /\ pc[p] = "paystack" /\ UNCHANGED <<order, link>>
          /\ Load(p, o.gateway, {"paystack"}) /\ HostOf(o) = "paystack"
      BY <2>1, <2>5 DEF LoadPaystackKeys, Keyed
    <3>2. /\ o.gateway \in DOMAIN Gateways \cup {None} /\ o.gateway # None
      BY <2>1, <3>1 DEF AtWork, HostOf
    <3>3. o.gateway \in Wanted(o) /\ HasAccount(o)
      BY <3>2 DEF Wanted, HasAccount, HostOf
    <3>4. credentials'[HostOf(o)] = o.gateway
      BY <3>1, <3>2, <3>3, KeysFit DEF Load
    <3>5. PICK label \in {"idle", "paystack link"} : pc' = [pc EXCEPT ![p] = label]
      BY <2>5 DEF LoadPaystackKeys
    <3>6. Keyed(p)'
      BY <2>1, <3>1, <3>3, <3>4, <3>5, LinkLabels DEF Keyed
    <3>7. DOMAIN credentials' = GatewayTypes
      BY <3>1 DEF Load, KeysAfter
    <3> QED
      BY <1>1, <3>1, <3>5, <3>6, <3>7, AccountLoaded DEF Load
  <2>6. CASE MakeLink(p) \/ MakePaystackLink(p) \/ PushMpesa(p)
    <3>1. PICK t \in GatewayTypes : Offer(p, t)
      BY <2>6 DEF MakeLink, MakePaystackLink, PushMpesa, GatewayTypes
    <3>2. /\ pc[p] = LinkOf[t] /\ pc[p] \in Links /\ pc' = [pc EXCEPT ![p] = "idle"]
          /\ link' = [link EXCEPT ![p] = credentials[t]]
          /\ UNCHANGED <<credentials, order, overtaken>>
      BY <3>1 DEF Offer, Links
    <3>3. HostOf(order[p]) = t
      <4>1. HostOf(order[p]) \in GatewayTypes
        BY <2>1, <3>2, LinkLabels, HostIsKnown DEF AtWork
      <4> QED
        BY <2>1, <3>2, <4>1, LinksDiffer DEF Keyed
    <3>4. ASSUME NEW q \in Procs PROVE Keyed(q)' /\ PageFits(q)'
      <4>1. Keyed(q) /\ PageFits(q)
        BY DEF AccountInv
      <4>2. CASE q = p
        <5>1. pc'[q] = "idle" /\ link'[q] = credentials[t]
          BY <2>1, <3>2, <4>2
        <5> QED
          BY <2>1, <3>2, <3>3, <4>2, <5>1, LinkLabels DEF Keyed, PageFits
      <4>3. CASE q # p
        <5>1. pc'[q] = pc[q] /\ link'[q] = link[q]
          BY <2>1, <3>2, <4>3
        <5> QED
          BY <3>2, <4>1, <5>1 DEF Keyed, PageFits
      <4> QED
        BY <4>2, <4>3
    <3> QED
      BY <1>1, <2>1, <3>2, <3>4 DEF AccountInv
  <2> QED
    BY <2>2, <2>3, <2>4, <2>5, <2>6
<1> QED
  BY <1>2, <1>3

(* The hosted page belongs to an account of its order, or another handler  *)
(* loaded its own keys between this one's load and its use of them, for    *)
(* any merchant accounts, whatever keys they hold.                         *)
THEOREM PageIsOfItsAccount == PayinRouteSpec => []ForeignAccountLostARace
<1>1. AccountInv => ForeignAccountLostARace
  BY DEF AccountInv, PageFits, HasAccount, ForeignAccountLostARace
<1> QED
  BY <1>1, AccountStart, AccountStep, PTL DEF PayinRouteSpec

----
(* The mails of an announcement.                                           *)

Carrying == {"mail", "mailed", "unmailed"}

(* Nothing has gone wrong that may cost a mail.                            *)
Calm == ~Happened("crash") /\ ~Happened("write") /\ ~torn

MailTypes ==
    /\ faults \in [Faults -> Nat]
    /\ unheard \in [Recipients -> Nat] /\ \A r \in Recipients : unheard[r] <= LostAnswers
    /\ DOMAIN pc = Procs /\ DOMAIN stack = Procs /\ DOMAIN mails = Recipients
    /\ "status" \in DOMAIN announcement /\ nextId \in Nat
    /\ deliveries \in [Recipients -> Deliveries]
    /\ \A p \in Procs : pc[p] = "take" => stack[p] = Holding(NoAnnouncement)

(* A worker has in its hands a delivery that is marked as such, which was  *)
(* mailed only if the worker has just done it.                             *)
Carries(p, r) ==
    /\ stack[p].to = {r} /\ Job(p).id = deliveries[r].id
    /\ deliveries[r].status = "PROCESSING"
    /\ mails[r] = IF pc[p] = "mailed" THEN 1 ELSE 0

(* What holds until the announcement is deleted: nobody else has the       *)
(* delivery, and one that was mailed is sent or about to be marked so.     *)
DeliveryInv ==
    /\ \A p \in Procs : pc[p] # "delete"
    /\ \A p \in Procs : pc[p] \in Carrying => \E r \in Recipients : Carries(p, r)
    /\ \A p, q \in Procs :
        pc[p] \in Carrying /\ pc[q] \in Carrying /\ stack[p].to = stack[q].to => p = q
    /\ \A r \in Recipients :
        mails[r] = 1 => \/ deliveries[r].status = "SENT"
                        \/ \E p \in Procs : pc[p] = "mailed" /\ stack[p].to = {r}

MailInv ==
    /\ MailTypes
    /\ Calm => \A r \in Recipients : mails[r] \in {0, 1}
    /\ Calm /\ AnnExists => DeliveryInv

LEMMA MailStart == AnnouncementsInit => MailInv
<1> SUFFICES ASSUME AnnouncementsInit PROVE MailInv
  OBVIOUS
<1> USE DEF AnnouncementsInit, RequestsInit
<1>1. MailTypes
  BY DEF MailTypes, Deliveries, NoDelivery, LostAnswers
<1>2. DeliveryInv
  BY DEF DeliveryInv, Carrying
<1> QED
  BY <1>1, <1>2 DEF MailInv

LEMMA ToWhom ==
    ASSUME NEW p \in Procs, NEW r \in Recipients, stack[p].to = {r} PROVE Recipient(p) = r
BY DEF Recipient

(* Nothing that was waiting or has failed was mailed.                      *)
LEMMA WaitingIsUnmailed ==
    ASSUME MailInv, Calm, AnnExists, NEW r \in Recipients,
           deliveries[r].status \notin {"SENT", "PROCESSING"}
    PROVE  /\ mails[r] = 0
           /\ \A p \in Procs : pc[p] \in Carrying => stack[p].to # {r}
<1>1. \A p \in Procs : pc[p] \in Carrying => stack[p].to # {r}
  <2> SUFFICES ASSUME NEW p \in Procs, pc[p] \in Carrying, stack[p].to = {r} PROVE FALSE
    OBVIOUS
  <2>1. PICK s \in Recipients : Carries(p, s)
    BY DEF MailInv, DeliveryInv
  <2>2. s = r
    BY <2>1 DEF Carries
  <2> QED
    BY <2>1, <2>2 DEF Carries
<1> QED
  BY <1>1 DEF MailInv, DeliveryInv, Carrying

(* A step of p that touches no delivery and no mail, and that neither      *)
(* begins nor ends with a delivery in its hands.                           *)
LEMMA MailAside ==
    ASSUME MailInv, NEW p \in Procs, NEW label, NEW frame,
           pc[p] \notin Carrying, label \notin Carrying,
           label = "take" => frame = Holding(NoAnnouncement),
           pc' = [pc EXCEPT ![p] = label],
           stack' = [stack EXCEPT ![p] = frame] \/ (stack' = stack /\ label # "take"),
           UNCHANGED <<faults, deliveries, nextId, mails, unheard, torn>>,
           DOMAIN announcement' = DOMAIN announcement,
           AnnExists' => AnnExists, label = "delete" => ~AnnExists'
    PROVE  MailInv'
<1>1. MailTypes'
  BY DEF MailInv, MailTypes, LostAnswers
<1>2. Calm' = Calm
  BY DEF Calm, Happened
<1>3. ASSUME Calm, AnnExists' PROVE DeliveryInv'
  <2>1. DeliveryInv
    BY <1>3 DEF MailInv
  <2>2. \A q \in Procs : pc'[q] \in Carrying => q # p /\ pc'[q] = pc[q] /\ stack'[q] = stack[q]
    BY DEF MailInv, MailTypes
  <2>3. \A q \in Procs, r \in Recipients : q # p /\ Carries(q, r) => Carries(q, r)'
    BY DEF MailInv, MailTypes, Carries, Job
  <2>4. \A q \in Procs : pc'[q] # "delete"
    BY <1>3, <2>1 DEF DeliveryInv, MailInv, MailTypes
  <2>5. \A q \in Procs : pc'[q] \in Carrying => \E r \in Recipients : Carries(q, r)'
    BY <2>1, <2>2, <2>3 DEF DeliveryInv
  <2>6. \A q, s \in Procs :
          pc'[q] \in Carrying /\ pc'[s] \in Carrying /\ stack'[q].to = stack'[s].to => q = s
    BY <2>1, <2>2 DEF DeliveryInv
  <2>7. \A q \in Procs : pc[q] = "mailed" => pc'[q] = "mailed" /\ stack'[q] = stack[q]
    BY DEF MailInv, MailTypes, Carrying
  <2>8. \A r \in Recipients :
          mails'[r] = 1 => \/ deliveries'[r].status = "SENT"
                           \/ \E q \in Procs : pc'[q] = "mailed" /\ stack'[q].to = {r}
    BY <2>1, <2>7 DEF DeliveryInv
  <2> QED
    BY <2>4, <2>5, <2>6, <2>8 DEF DeliveryInv
<1> QED
  BY <1>1, <1>2, <1>3 DEF MailInv

(* A step that replaces the deliveries of some who have not been mailed,   *)
(* which nobody has in hand.                                               *)
LEMMA MailRewrites ==
    ASSUME MailInv, NEW p \in Procs, NEW label,
           pc[p] \notin Carrying \cup {"take"}, label \notin Carrying \cup {"take", "delete"},
           pc' = [pc EXCEPT ![p] = label],
           \A q \in Procs \ {p} : stack'[q] = stack[q], DOMAIN stack' = Procs,
           UNCHANGED <<faults, mails, unheard, announcement>>,
           deliveries' \in [Recipients -> Deliveries], nextId' \in Nat,
           torn => torn',
           Calm' /\ AnnExists => \A r \in Recipients :
               \/ deliveries'[r] = deliveries[r]
               \/ mails[r] = 0 /\ \A q \in Procs : pc[q] \in Carrying => stack[q].to # {r}
    PROVE  MailInv'
<1>1. MailTypes'
  BY DEF MailInv, MailTypes, LostAnswers
<1>2. Calm' => Calm
  BY DEF Calm, Happened
<1>3. ASSUME Calm', AnnExists PROVE DeliveryInv'
  <2>1. DeliveryInv
    BY <1>2, <1>3 DEF MailInv
  <2>2. \A q \in Procs : pc'[q] \in Carrying => q # p /\ pc'[q] = pc[q] /\ stack'[q] = stack[q]
    BY DEF MailInv, MailTypes
  <2>3. ASSUME NEW q \in Procs, NEW r \in Recipients, q # p, pc[q] \in Carrying, Carries(q, r)
        PROVE  Carries(q, r)'
    <3>1. deliveries'[r] = deliveries[r]
      BY <1>3, <2>3 DEF Carries
    <3> QED
      BY <2>3, <3>1 DEF MailInv, MailTypes, Carries, Job
  <2>4. \A q \in Procs : pc'[q] # "delete"
    BY <2>1 DEF DeliveryInv, MailInv, MailTypes
  <2>5. \A q \in Procs : pc'[q] \in Carrying => \E r \in Recipients : Carries(q, r)'
    BY <2>1, <2>2, <2>3 DEF DeliveryInv
  <2>6. \A q, s \in Procs :
          pc'[q] \in Carrying /\ pc'[s] \in Carrying /\ stack'[q].to = stack'[s].to => q = s
    BY <2>1, <2>2 DEF DeliveryInv
  <2>7. \A q \in Procs : pc[q] = "mailed" => pc'[q] = "mailed" /\ stack'[q] = stack[q]
    BY DEF MailInv, MailTypes, Carrying
  <2>8. \A r \in Recipients :
          mails'[r] = 1 => \/ deliveries'[r].status = "SENT"
                           \/ \E q \in Procs : pc'[q] = "mailed" /\ stack'[q].to = {r}
    BY <1>3, <2>1, <2>7 DEF DeliveryInv
  <2> QED
    BY <2>4, <2>5, <2>6, <2>8 DEF DeliveryInv
<1>4. AnnExists' = AnnExists
  BY DEF AnnExists
<1> QED
  BY <1>1, <1>2, <1>3, <1>4 DEF MailInv

LEMMA ClearKeeps == ASSUME MailInv, NEW p \in Procs, ClearDeliveries(p) PROVE MailInv'
<1> USE DEF ClearDeliveries, Jump
<1>1. deliveries' \in [Recipients -> Deliveries]
  BY DEF MailInv, MailTypes, Deliveries, NoDelivery
<1>2. ASSUME Calm', AnnExists, NEW r \in Recipients, deliveries[r].status # "SENT"
      PROVE  mails[r] = 0 /\ \A q \in Procs : pc[q] \in Carrying => stack[q].to # {r}
  <2>1. Calm /\ ~Held(r)
    BY <1>2 DEF Calm, Happened
  <2>2. DeliveryInv
    BY <1>2, <2>1 DEF MailInv
  <2>3. \A q \in Procs : pc[q] \in Carrying => stack[q].to # {r}
    <3> SUFFICES ASSUME NEW q \in Procs, pc[q] \in Carrying, stack[q].to = {r} PROVE FALSE
      OBVIOUS
    <3>1. PICK s \in Recipients : Carries(q, s)
      BY <2>2 DEF DeliveryInv
    <3>2. s = r
      BY <3>1 DEF Carries
    <3> QED
      BY <2>1, <3>1, <3>2 DEF Carries, Held, Carrying
  <2>4. mails[r] \in {0, 1}
    BY <2>1 DEF MailInv
  <2> QED
    BY <1>2, <2>2, <2>3, <2>4 DEF DeliveryInv, Carrying
<1>3. \A r \in Recipients : deliveries[r].status = "SENT" => deliveries'[r] = deliveries[r]
  OBVIOUS
<1>4. pc[p] \notin Carrying \cup {"take"} /\ "insert" \notin Carrying \cup {"take", "delete"}
  BY DEF Carrying
<1>5. nextId' \in Nat /\ DOMAIN stack' = Procs
  BY DEF MailInv, MailTypes
<1> QED
  BY <1>1, <1>2, <1>3, <1>4, <1>5, MailRewrites

LEMMA InsertKeeps == ASSUME MailInv, NEW p \in Procs, InsertDeliveries(p) PROVE MailInv'
<1> USE DEF InsertDeliveries, Jump
<1>1. deliveries' \in [Recipients -> Deliveries] /\ nextId' \in Nat /\ DOMAIN stack' = Procs
  BY DEF MailInv, MailTypes, Deliveries
<1>2. ASSUME Calm', AnnExists, NEW r \in Recipients, deliveries[r] = NoDelivery
      PROVE  mails[r] = 0 /\ \A q \in Procs : pc[q] \in Carrying => stack[q].to # {r}
  BY <1>2, WaitingIsUnmailed DEF NoDelivery, Calm, Happened
<1>3. \A r \in Recipients : deliveries[r] # NoDelivery => deliveries'[r] = deliveries[r]
  OBVIOUS
<1>4. pc[p] \notin Carrying \cup {"take"} /\ "started" \notin Carrying \cup {"take", "delete"}
  BY DEF Carrying
<1> QED
  BY <1>1, <1>2, <1>3, <1>4, MailRewrites

LEMMA Reset ==
    ASSUME NEW d \in Deliveries
    PROVE  [d EXCEPT !.status = "PENDING", !.attempts = 0] \in Deliveries
BY DEF Deliveries

LEMMA ResetKeeps == ASSUME MailInv, NEW p \in Procs, ResetFailed(p) PROVE MailInv'
<1> USE DEF ResetFailed, Jump, JumpWith, Return
<1> DEFINE failed == InStatus({"FAILED", "PENDING"})
<1>0. /\ deliveries' = [r \in Recipients |->
              IF r \in failed THEN [deliveries[r] EXCEPT !.status = "PENDING", !.attempts = 0]
              ELSE deliveries[r]]
      /\ stack' = stack \/ stack' = [stack EXCEPT ![p] = NoStack]
  BY Zenon
<1> HIDE DEF failed
<1>1. deliveries' \in [Recipients -> Deliveries] /\ nextId' \in Nat /\ DOMAIN stack' = Procs
  <2>1. ASSUME NEW r \in Recipients
        PROVE  [deliveries[r] EXCEPT !.status = "PENDING", !.attempts = 0] \in Deliveries
    BY Reset DEF MailInv, MailTypes
  <2>2. deliveries' \in [Recipients -> Deliveries]
    <3>1. deliveries \in [Recipients -> Deliveries]
      BY DEF MailInv, MailTypes
    <3> QED
      BY <1>0, <2>1, <3>1
  <2>3. nextId' = nextId
    OBVIOUS
  <2> QED
    BY <1>0, <2>2, <2>3 DEF MailInv, MailTypes
<1>2. ASSUME Calm', AnnExists, NEW r \in Recipients, r \in InStatus({"FAILED", "PENDING"})
      PROVE  mails[r] = 0 /\ \A q \in Procs : pc[q] \in Carrying => stack[q].to # {r}
  BY <1>2, WaitingIsUnmailed DEF InStatus, Calm, Happened
<1>3. \A r \in Recipients :
        r \notin InStatus({"FAILED", "PENDING"}) => deliveries'[r] = deliveries[r]
  OBVIOUS
<1>4. PICK label \in {"started", "idle"} : pc' = [pc EXCEPT ![p] = label]
  OBVIOUS
<1>5. pc[p] \notin Carrying \cup {"take"} /\ label \notin Carrying \cup {"take", "delete"}
  BY DEF Carrying
<1>6. \A q \in Procs \ {p} : stack'[q] = stack[q]
  BY <1>0 DEF MailInv, MailTypes
<1> QED
  BY <1>1, <1>2, <1>3, <1>4, <1>5, <1>6, MailRewrites

(* Once the announcement is deleted nobody is mailed any more.             *)
LEMMA DeletedIsMailedNoMore ==
    ASSUME MailInv, MailTypes', UNCHANGED mails, Calm' => Calm, Calm' => ~AnnExists'
    PROVE  MailInv'
BY DEF MailInv

LEMMA TakeKeeps ==
    ASSUME MailInv, NEW p \in Procs, NEW r \in Recipients, TakeDelivery(p, r)
    PROVE  MailInv'
<1> USE DEF TakeDelivery, JumpWith
<1> DEFINE mine == [stack[p] EXCEPT !.to = {r}, !.delivery = deliveries[r]]
<1>1. mine.to = {r} /\ mine.delivery.id = deliveries[r].id
  <2>1. stack[p] = Holding(NoAnnouncement)
    BY DEF MailInv, MailTypes
  <2> QED
    BY <2>1 DEF Holding
<1> DEFINE taken == [deliveries[r] EXCEPT !.status = "PROCESSING", !.attempts = @ + 1]
<1>2. taken \in Deliveries /\ taken.id = deliveries[r].id /\ taken.status = "PROCESSING"
  BY DEF MailInv, MailTypes, Deliveries
<1>3. /\ deliveries' = [deliveries EXCEPT ![r] = taken]
      /\ pc' = [pc EXCEPT ![p] = "mail"] /\ stack' = [stack EXCEPT ![p] = mine]
      /\ UNCHANGED <<faults, nextId, mails, unheard, torn, announcement>>
  BY DEF MailInv, MailTypes
<1>4. pc[p] = "take" /\ deliveries[r].status = "PENDING"
  OBVIOUS
<1> HIDE DEF mine, taken, TakeDelivery
<1>5. MailTypes'
  BY <1>2, <1>3 DEF MailInv, MailTypes, LostAnswers
<1>6. Calm' = Calm /\ AnnExists' = AnnExists
  BY <1>3 DEF Calm, Happened, AnnExists
<1>7. /\ pc'[p] = "mail" /\ stack'[p] = mine /\ deliveries'[r] = taken
      /\ \A q \in Procs \ {p} : pc'[q] = pc[q] /\ stack'[q] = stack[q]
      /\ \A s \in Recipients \ {r} : deliveries'[s] = deliveries[s]
  BY <1>3 DEF MailInv, MailTypes
<1>8. ASSUME Calm, AnnExists PROVE DeliveryInv'
  <2>1. DeliveryInv
    BY <1>8 DEF MailInv
  <2>2. mails[r] = 0 /\ \A q \in Procs : pc[q] \in Carrying => stack[q].to # {r}
    BY <1>4, <1>8, WaitingIsUnmailed
  <2>3. Carries(p, r)'
    BY <1>1, <1>2, <1>3, <1>7, <2>2 DEF Carries, Job
  <2>4. ASSUME NEW q \in Procs, q # p, pc[q] \in Carrying
        PROVE  \E s \in Recipients : Carries(q, s)'
    <3>1. PICK s \in Recipients : Carries(q, s)
      BY <2>1, <2>4 DEF DeliveryInv
    <3>2. s # r
      BY <2>2, <2>4, <3>1 DEF Carries
    <3>3. Carries(q, s)'
      BY <1>3, <1>7, <2>4, <3>1, <3>2 DEF Carries, Job
    <3> QED
      BY <3>3
  <2>5. \A q \in Procs : pc'[q] # "delete"
    BY <1>7, <2>1 DEF DeliveryInv
  <2>6. \A q \in Procs : pc'[q] \in Carrying => \E s \in Recipients : Carries(q, s)'
    BY <1>7, <2>3, <2>4
  <2>7. \A q, s \in Procs :
          pc'[q] \in Carrying /\ pc'[s] \in Carrying /\ stack'[q].to = stack'[s].to => q = s
    BY <1>1, <1>7, <2>1, <2>2 DEF DeliveryInv
  <2>8. \A s \in Recipients :
          mails'[s] = 1 => \/ deliveries'[s].status = "SENT"
                           \/ \E q \in Procs : pc'[q] = "mailed" /\ stack'[q].to = {s}
    BY SMTT(40), <1>3, <1>4, <1>7, <2>1, <2>2 DEF DeliveryInv
  <2> QED
    BY <2>5, <2>6, <2>7, <2>8 DEF DeliveryInv
<1> QED
  BY <1>3, <1>5, <1>6, <1>8 DEF MailInv

LEMMA MailKeeps == ASSUME MailInv, NEW p \in Procs, MailDelivery(p) PROVE MailInv'
<1> USE DEF MailDelivery, Jump
<1>1. MailTypes'
  BY DEF MailInv, MailTypes, LostAnswers
<1>2. Calm' = Calm /\ AnnExists' = AnnExists
  BY DEF Calm, Happened, AnnExists
<1>3. CASE ~AnnExists
  BY <1>1, <1>2, <1>3, DeletedIsMailedNoMore
<1>4. CASE ~Calm
  BY <1>1, <1>2, <1>4 DEF MailInv
<1>5. CASE AnnExists /\ Calm
  <2>1. DeliveryInv
    BY <1>5 DEF MailInv
  <2>2. PICK r \in Recipients : Carries(p, r)
    BY <2>1 DEF DeliveryInv, Carrying
  <2>3. Recipient(p) = r /\ mails[r] = 0
    BY <2>2, ToWhom DEF Carries
  <2>4. PICK label \in {"mailed", "unmailed"} :
          /\ pc' = [pc EXCEPT ![p] = label]
          /\ mails'[r] = (IF label = "mailed" THEN 1 ELSE 0)
          /\ \A s \in Recipients \ {r} : mails'[s] = mails[s]
    <3>1. CASE mails' = [mails EXCEPT ![Recipient(p)] = @ + 1] /\ pc' = [pc EXCEPT ![p] = "mailed"]
      <4>0. mails' = [mails EXCEPT ![r] = mails[r] + 1]
        BY <2>3, <3>1, Zenon
      <4>1. mails' = [mails EXCEPT ![r] = 1]
        BY <2>3, <4>0
      <4>2. mails'[r] = 1 /\ \A s \in Recipients \ {r} : mails'[s] = mails[s]
        BY <4>1 DEF MailInv, MailTypes
      <4> QED
        BY <3>1, <4>2
    <3>2. CASE UNCHANGED mails /\ pc' = [pc EXCEPT ![p] = "unmailed"]
      BY <2>3, <3>2
    <3> QED
      BY <1>5, <3>1, <3>2
  <2>5. pc'[p] = label /\ \A q \in Procs \ {p} : pc'[q] = pc[q]
    BY <2>4 DEF MailInv, MailTypes
  <2>6. UNCHANGED <<deliveries, stack>>
    BY <1>5
  <2>7. \A q \in Procs : pc'[q] \in Carrying <=> pc[q] \in Carrying
    BY <2>5 DEF Carrying
  <2>8. Carries(p, r)'
    BY <2>2, <2>4, <2>5, <2>6 DEF Carries, Job
  <2>9. ASSUME NEW q \in Procs, q # p, pc[q] \in Carrying
        PROVE  \E s \in Recipients : Carries(q, s)'
    <3>1. PICK s \in Recipients : Carries(q, s)
      BY <2>1, <2>9 DEF DeliveryInv
    <3>2. s # r
      <4>1. pc[p] \in Carrying /\ stack[p].to = {r} /\ stack[q].to = {s}
        BY <2>2, <3>1 DEF Carries, Carrying
      <4> QED
        BY <2>1, <2>9, <4>1 DEF DeliveryInv
    <3>3. Carries(q, s)'
      BY <2>4, <2>5, <2>6, <2>9, <3>1, <3>2 DEF Carries, Job
    <3> QED
      BY <3>3
  <2>10. \A q \in Procs : pc'[q] # "delete"
    BY <2>1, <2>5 DEF DeliveryInv
  <2>11. \A q \in Procs : pc'[q] \in Carrying => \E s \in Recipients : Carries(q, s)'
    BY <2>7, <2>8, <2>9
  <2>12. \A q, s \in Procs :
           pc'[q] \in Carrying /\ pc'[s] \in Carrying /\ stack'[q].to = stack'[s].to => q = s
    BY <2>1, <2>6, <2>7 DEF DeliveryInv
  <2>13. \A s \in Recipients :
           mails'[s] = 1 => \/ deliveries'[s].status = "SENT"
                            \/ \E q \in Procs : pc'[q] = "mailed" /\ stack'[q].to = {s}
    <3>1. mails'[r] = 1 => pc'[p] = "mailed" /\ stack'[p].to = {r}
      BY <2>2, <2>4, <2>5, <2>6 DEF Carries
    <3>2. \A q \in Procs : pc[q] = "mailed" => pc'[q] = "mailed"
      BY <2>5
    <3> QED
      BY <2>1, <2>4, <2>6, <3>1, <3>2 DEF DeliveryInv
  <2>14. \A s \in Recipients : mails'[s] \in {0, 1}
    BY <1>5, <2>4 DEF MailInv
  <2> QED
    BY <1>1, <2>10, <2>11, <2>12, <2>13, <2>14 DEF DeliveryInv, MailInv
<1> QED
  BY <1>3, <1>4, <1>5

(* The worker writes how it ended and has nothing in its hands any more.   *)
LEMMA PutDown ==
    ASSUME MailInv, NEW p \in Procs, NEW label \in {"progress", "idle"}, NEW frame,
           NEW status \in {"PENDING", "SENT", "FAILED"},
           pc[p] \in {"mailed", "unmailed"}, pc[p] = "mailed" => status = "SENT",
           WriteDelivery(p, status),
           pc' = [pc EXCEPT ![p] = label], stack' = [stack EXCEPT ![p] = frame],
           UNCHANGED <<faults, announcement, nextId, mails, unheard, torn>>
    PROVE  MailInv'
<1>1. deliveries' \in [Recipients -> Deliveries]
  BY ZenonT(60) DEF WriteDelivery, MailInv, MailTypes, Deliveries
<1>2. MailTypes'
  BY <1>1 DEF MailInv, MailTypes, LostAnswers
<1>3. Calm' = Calm /\ AnnExists' = AnnExists
  BY DEF Calm, Happened, AnnExists
<1>4. ASSUME Calm, AnnExists PROVE DeliveryInv'
  <2>1. DeliveryInv
    BY <1>4 DEF MailInv
  <2>2. pc[p] \in Carrying
    BY DEF Carrying
  <2>3. PICK r \in Recipients : Carries(p, r)
    BY <2>1, <2>2 DEF DeliveryInv
  <2>4. Recipient(p) = r
    BY <2>3, ToWhom DEF Carries
  <2>5. /\ deliveries'[r].status = status
        /\ \A s \in Recipients \ {r} : deliveries'[s] = deliveries[s]
    BY <2>3, <2>4 DEF WriteDelivery, Carries, MailInv, MailTypes, Deliveries
  <2>6. /\ pc'[p] \notin Carrying \cup {"delete"}
        /\ \A q \in Procs \ {p} : pc'[q] = pc[q] /\ stack'[q] = stack[q]
    BY DEF MailInv, MailTypes, Carrying
  <2>7. ASSUME NEW q \in Procs, q # p, pc[q] \in Carrying
        PROVE  \E s \in Recipients : Carries(q, s)'
    <3>1. PICK s \in Recipients : Carries(q, s)
      BY <2>1, <2>7 DEF DeliveryInv
    <3>2. s # r
      <4>1. stack[p].to = {r} /\ stack[q].to = {s}
        BY <2>3, <3>1 DEF Carries
      <4> QED
        BY <2>1, <2>2, <2>7, <4>1 DEF DeliveryInv
    <3>3. Carries(q, s)'
      BY <2>5, <2>6, <2>7, <3>1, <3>2 DEF Carries, Job
    <3> QED
      BY <3>3
  <2>8. \A q \in Procs : pc'[q] # "delete"
    BY <2>1, <2>6 DEF DeliveryInv
  <2>9. \A q \in Procs : pc'[q] \in Carrying => \E s \in Recipients : Carries(q, s)'
    BY <2>6, <2>7
  <2>10. \A q, s \in Procs :
           pc'[q] \in Carrying /\ pc'[s] \in Carrying /\ stack'[q].to = stack'[s].to => q = s
    BY <2>1, <2>6 DEF DeliveryInv
  <2>11. mails[r] = 1 => status = "SENT"
    BY <2>3 DEF Carries
  <2>12. ASSUME NEW s \in Recipients, s # r, NEW q \in Procs, pc[q] = "mailed", stack[q].to = {s}
         PROVE  pc'[q] = "mailed" /\ stack'[q].to = {s}
    <3>1. q # p
      BY <2>3, <2>12 DEF Carries
    <3> QED
      BY <2>6, <2>12, <3>1
  <2>13. \A s \in Recipients :
           mails'[s] = 1 => \/ deliveries'[s].status = "SENT"
                            \/ \E q \in Procs : pc'[q] = "mailed" /\ stack'[q].to = {s}
    BY ZenonT(60), <2>1, <2>5, <2>11, <2>12 DEF DeliveryInv
  <2> QED
    BY <2>8, <2>9, <2>10, <2>13 DEF DeliveryInv
<1> QED
  BY <1>2, <1>3, <1>4 DEF MailInv

LEMMA MarkKeeps ==
    ASSUME MailInv, NEW p \in Procs, MarkSent(p) \/ MarkDeliveryFailed(p) PROVE MailInv'
<1> USE DEF JumpWith, Return
<1>1. CASE MarkSent(p)
  BY <1>1, PutDown DEF MarkSent
<1>2. CASE MarkDeliveryFailed(p)
  <2>1. PICK label \in {"progress", "idle"}, frame \in {Holding(NoAnnouncement), NoStack} :
          pc' = [pc EXCEPT ![p] = label] /\ stack' = [stack EXCEPT ![p] = frame]
    BY <1>2 DEF MarkDeliveryFailed
  <2>2. PICK status \in {"PENDING", "FAILED"} : WriteDelivery(p, status)
    BY <1>2 DEF MarkDeliveryFailed
  <2> QED
    BY <1>2, <2>1, <2>2, PutDown DEF MarkDeliveryFailed
<1> QED
  BY <1>1, <1>2

(* Nobody has in hand what is released.                                    *)
LEMMA ReleaseKeeps ==
    ASSUME MailInv, NEW r \in Recipients, ReleaseStale(r) PROVE MailInv'
<1> USE DEF ReleaseStale, reqVars
<1>1. MailTypes'
  BY DEF MailInv, MailTypes, Deliveries, LostAnswers
<1>2. Calm' = Calm /\ AnnExists' = AnnExists
  BY DEF Calm, Happened, AnnExists
<1>3. ASSUME Calm, AnnExists PROVE DeliveryInv'
  <2>1. DeliveryInv
    BY <1>3 DEF MailInv
  <2>2. \A s \in Recipients \ {r} : deliveries'[s] = deliveries[s]
    BY DEF MailInv, MailTypes
  <2>3. ASSUME NEW q \in Procs, pc[q] \in Carrying, NEW s \in Recipients, Carries(q, s)
        PROVE  s # r
    BY <2>3 DEF Carries, Held, Carrying
  <2>4. \A q \in Procs : pc[q] \in Carrying => \E s \in Recipients : Carries(q, s)'
    BY <2>1, <2>2, <2>3 DEF DeliveryInv, Carries, Job
  <2>5. mails[r] # 1
    <3> SUFFICES ASSUME mails[r] = 1 PROVE FALSE
      OBVIOUS
    <3>1. PICK q \in Procs : pc[q] = "mailed" /\ stack[q].to = {r}
      BY <2>1 DEF DeliveryInv
    <3>2. PICK s \in Recipients : Carries(q, s)
      BY <2>1, <3>1 DEF DeliveryInv, Carrying
    <3> QED
      BY <2>3, <3>1, <3>2 DEF Carries, Carrying
  <2> QED
    BY <2>1, <2>2, <2>4, <2>5 DEF DeliveryInv
<1> QED
  BY <1>1, <1>2, <1>3 DEF MailInv

(* A mail whose answer is lost leaves its delivery in hand, as one that    *)
(* failed: it costs one of the lost answers.                               *)
LEMMA UnheardKeeps == ASSUME MailInv, NEW p \in Procs, MailUnheard(p) PROVE MailInv'
<1> USE DEF MailUnheard, FaultyJump
<1>1. /\ "outage" \in Faults /\ faults' = [faults EXCEPT !["outage"] = @ + 1]
      /\ LostAnswers \in Nat /\ LostAnswers' = LostAnswers + 1
  BY DEF Faulty, LostAnswers, MailInv, MailTypes
<1>2. \A r \in Recipients : unheard'[r] = unheard[r] \/ unheard'[r] = unheard[r] + 1
  BY DEF MailInv, MailTypes
<1>3. \A r \in Recipients : unheard'[r] \in Nat /\ unheard'[r] <= LostAnswers'
  BY <1>1, <1>2 DEF MailInv, MailTypes
<1>4. MailTypes'
  <2>1. MailTypes
    BY DEF MailInv
  <2>2. faults' \in [Faults -> Nat] /\ unheard' \in [Recipients -> Nat]
    <3>1. faults' \in [Faults -> Nat]
      BY <1>1, <2>1 DEF MailTypes
    <3>2. DOMAIN unheard' = Recipients /\ unheard' = [r \in Recipients |-> unheard'[r]]
      BY <2>1 DEF MailTypes
    <3> QED
      BY <1>3, <3>1, <3>2
  <2>3. \A q \in Procs : pc'[q] = "take" => pc[q] = "take"
    BY <2>1 DEF MailTypes
  <2>4. /\ DOMAIN pc' = Procs
        /\ UNCHANGED <<stack, mails, announcement, nextId, deliveries>>
    BY <2>1 DEF MailTypes
  <2> HIDE DEF MailUnheard, FaultyJump
  <2> QED
    BY <1>3, <2>1, <2>2, <2>3, <2>4 DEF MailTypes, Holding, NoAnnouncement
<1>5. Calm' = Calm /\ AnnExists' = AnnExists
  <2>1. \A k \in Faults : k # "outage" => faults'[k] = faults[k]
    BY <1>1 DEF MailInv, MailTypes
  <2>2. (Happened("crash")' <=> Happened("crash")) /\ (Happened("write")' <=> Happened("write"))
    BY <2>1 DEF Happened
  <2> QED
    BY <2>2 DEF Calm, AnnExists
<1>6. ASSUME Calm, AnnExists PROVE DeliveryInv'
  <2>1. DeliveryInv
    BY <1>6 DEF MailInv
  <2>2. /\ pc[p] = "mail" /\ pc'[p] = "unmailed" /\ \A q \in Procs \ {p} : pc'[q] = pc[q]
        /\ UNCHANGED <<stack, deliveries, mails>>
    BY DEF MailInv, MailTypes
  <2>3. \A q \in Procs : /\ pc'[q] \in Carrying <=> pc[q] \in Carrying
                         /\ pc'[q] = "mailed" <=> pc[q] = "mailed"
    BY <2>2 DEF Carrying
  <2>4. \A q \in Procs, r \in Recipients : Carries(q, r) => Carries(q, r)'
    BY <2>2, <2>3 DEF Carries, Job
  <2> QED
    BY <2>1, <2>2, <2>3, <2>4 DEF DeliveryInv
<1> QED
  BY <1>4, <1>5, <1>6 DEF MailInv

LEMMA SavedIsNotBack ==
    ASSUME NEW p \in Procs, NEW new, SaveAnnouncement(p, new)
    PROVE  (AnnExists' => AnnExists) /\ DOMAIN announcement' = DOMAIN announcement
BY DEF SaveAnnouncement, AnnExists

(* What a fault leaves behind is left out of the claim.                    *)
LEMMA MailFault ==
    ASSUME MailInv, NEW p \in Procs, NEW k \in {"crash", "write"}, Faulty(k),
           NEW label \in {"idle", "unmailed"},
           pc' = [pc EXCEPT ![p] = label],
           stack' = stack \/ stack' = [stack EXCEPT ![p] = NoStack],
           deliveries' \in [Recipients -> Deliveries],
           UNCHANGED <<announcement, nextId, mails, unheard, torn>>
    PROVE  MailInv'
<1>1. faults' \in [Faults -> Nat] /\ ~Calm'
  BY DEF Faulty, MailInv, MailTypes, Calm, Happened
<1>2. \A r \in Recipients : unheard[r] <= LostAnswers'
  BY DEF Faulty, LostAnswers, MailInv, MailTypes
<1>3. \A q \in Procs : pc'[q] = "take" => q # p /\ pc[q] = "take" /\ stack'[q] = stack[q]
  BY DEF MailInv, MailTypes
<1>4. DOMAIN stack' = Procs /\ DOMAIN pc' = Procs
  BY DEF MailInv, MailTypes
<1>5. MailTypes'
  BY <1>1, <1>2, <1>3, <1>4 DEF MailInv, MailTypes, Holding, NoAnnouncement, NoDelivery
<1> QED
  BY <1>1, <1>5 DEF MailInv

LEMMA MailStep == MailInv /\ [AnnouncementsNext]_announceVars => MailInv'
<1> SUFFICES ASSUME MailInv, [AnnouncementsNext]_announceVars PROVE MailInv'
  OBVIOUS
<1> USE DEF Begin, Jump, JumpWith, Return, FaultyReturn, FaultyJump, announceOnly, RestUnchanged
<1>1. CASE UNCHANGED announceVars
  BY <1>1 DEF announceVars, reqVars, MailInv, MailTypes, DeliveryInv, Carries, Job, Calm, Happened,
       AnnExists, Holding, NoAnnouncement, NoDelivery, LostAnswers
<1>2. ASSUME NEW r \in Recipients, ReleaseStale(r) PROVE MailInv'
  BY <1>2, ReleaseKeeps
<1>3. ASSUME NEW p \in Procs, StartSend(p) \/ StartRetry(p) \/ StartEdit(p) PROVE MailInv'
  BY <1>3, MailAside DEF StartSend, StartRetry, StartEdit, ByAdmin, AnnExists, Carrying
<1>4. ASSUME NEW p \in Procs, ClaimSend(p) PROVE MailInv'
  <2>1. AnnExists' => AnnExists
    BY <1>4 DEF ClaimSend, AnnExists
  <2>2. DOMAIN announcement' = DOMAIN announcement
    BY <1>4 DEF ClaimSend
  <2>3. PICK label \in {"idle", "clear", "nobody"} :
          /\ pc' = [pc EXCEPT ![p] = label]
          /\ stack' = [stack EXCEPT ![p] = NoStack] \/ stack' = stack
    BY <1>4 DEF ClaimSend
  <2> QED
    BY <1>4, <2>1, <2>2, <2>3, MailAside DEF ClaimSend, Carrying
<1>5. ASSUME NEW p \in Procs, SaveNobody(p) \/ SaveStarted(p) \/ SaveEdit(p) PROVE MailInv'
  <2>1. (AnnExists' => AnnExists) /\ DOMAIN announcement' = DOMAIN announcement
    BY <1>5, SavedIsNotBack DEF SaveNobody, SaveStarted, SaveEdit
  <2> QED
    BY <1>5, <2>1, MailAside DEF SaveNobody, SaveStarted, SaveEdit, Carrying
<1>6. ASSUME NEW p \in Procs, ClearDeliveries(p) \/ InsertDeliveries(p) \/ ResetFailed(p)
      PROVE  MailInv'
  BY <1>6, ClearKeeps, InsertKeeps, ResetKeeps
<1>7. ASSUME NEW p \in Procs, StartDelete(p) PROVE MailInv'
  <2>1. ~AnnExists' /\ DOMAIN announcement' = DOMAIN announcement
    BY <1>7 DEF StartDelete, AnnExists, MailInv, MailTypes
  <2> QED
    BY <1>7, <2>1, MailAside DEF StartDelete, Carrying
<1>8. ASSUME NEW p \in Procs, DeleteDeliveries(p) PROVE MailInv'
  <2>1. MailTypes'
    BY <1>8 DEF DeleteDeliveries, MailInv, MailTypes, Deliveries, NoDelivery, LostAnswers
  <2>2. Calm' = Calm /\ AnnExists' = AnnExists
    BY <1>8 DEF DeleteDeliveries, Calm, Happened, AnnExists
  <2>3. Calm => ~AnnExists
    BY <1>8 DEF DeleteDeliveries, MailInv, DeliveryInv
  <2> QED
    BY <1>8, <2>1, <2>2, <2>3, DeletedIsMailedNoMore DEF DeleteDeliveries
<1>9. ASSUME NEW p \in Procs, StartWave(p) PROVE MailInv'
  BY <1>9, MailAside DEF StartWave, AnnExists, Carrying
<1>10. ASSUME NEW p \in Procs, TakeNoDelivery(p) \/ ReadProgress(p) \/ TallyProgress(p)
       PROVE  MailInv'
  <2>1. PICK label \in {"finish", "tally", "advance", "idle"} : pc' = [pc EXCEPT ![p] = label]
    BY <1>10 DEF TakeNoDelivery, ReadProgress, TallyProgress
  <2>2. PICK frame : stack' = [stack EXCEPT ![p] = frame]
    BY <1>10 DEF TakeNoDelivery, ReadProgress, TallyProgress
  <2>3. /\ UNCHANGED <<faults, deliveries, nextId, mails, unheard, torn, announcement>>
        /\ pc[p] \in {"take", "progress", "tally"}
    BY <1>10 DEF TakeNoDelivery, ReadProgress, TallyProgress
  <2> QED
    BY <2>1, <2>2, <2>3, MailAside DEF Carrying, AnnExists
<1>11. ASSUME NEW p \in Procs, FinishAnnouncement(p) \/ AdvanceProgress(p) PROVE MailInv'
  <2>1. AnnExists' => AnnExists
    BY <1>11 DEF FinishAnnouncement, AdvanceProgress, AnnExists
  <2>2. DOMAIN announcement' = DOMAIN announcement
    BY <1>11 DEF FinishAnnouncement, AdvanceProgress
  <2>3. /\ pc' = [pc EXCEPT ![p] = "idle"] /\ stack' = [stack EXCEPT ![p] = NoStack]
        /\ UNCHANGED <<faults, deliveries, nextId, mails, unheard, torn>>
        /\ pc[p] \in {"finish", "advance"}
    BY <1>11 DEF FinishAnnouncement, AdvanceProgress
  <2> QED
    BY <2>1, <2>2, <2>3, MailAside DEF Carrying
<1>12. ASSUME NEW p \in Procs, NEW r \in Recipients, TakeDelivery(p, r) PROVE MailInv'
  BY <1>12, TakeKeeps
<1>13. ASSUME NEW p \in Procs, MailDelivery(p) \/ MarkSent(p) \/ MarkDeliveryFailed(p)
       PROVE  MailInv'
  BY <1>13, MailKeeps, MarkKeeps
<1>14. ASSUME NEW p \in Procs, MarkSentFails(p) \/ AnnouncementsCrash(p) PROVE MailInv'
  <2>1. deliveries' \in [Recipients -> Deliveries]
    <3>1. CASE deliveries' = deliveries
      BY <3>1 DEF MailInv, MailTypes
    <3>2. CASE WriteDelivery(p, "SENT")
      BY ZenonT(60), <3>2 DEF WriteDelivery, MailInv, MailTypes, Deliveries
    <3> QED
      BY <1>14, <3>1, <3>2 DEF MarkSentFails, AnnouncementsCrash
  <2> QED
    BY <1>14, <2>1, MailFault DEF MarkSentFails, AnnouncementsCrash
<1>15. ASSUME NEW p \in Procs, MailUnheard(p) PROVE MailInv'
  BY <1>15, UnheardKeeps
<1> QED
  BY <1>1, <1>2, <1>3, <1>4, <1>5, <1>6, <1>7, <1>8, <1>9, <1>10, <1>11, <1>12, <1>13, <1>14,
     <1>15
     DEF AnnouncementsNext

(* However many ticks and administrators are at work on an announcement,   *)
(* and however many recipients it has, nobody gets more than one mail of   *)
(* it, and one for each answer of the mail server that was lost, unless an *)
(* instance stops or a write fails after the mail, or the announcement is  *)
(* sent again while a worker has a mail in its hands.                      *)
THEOREM NobodyIsMailedTwice == AnnouncementsSpec => []MailedOnce
<1>1. MailInv => MailedOnce
  <2> SUFFICES ASSUME MailInv, Calm, NEW r \in Recipients
               PROVE  mails[r] + unheard[r] <= 1 + LostAnswers
    BY DEF Calm, MailedOnce
  <2>1. mails[r] \in {0, 1} /\ unheard[r] \in Nat /\ unheard[r] <= LostAnswers
    BY DEF MailInv, MailTypes
  <2>2. LostAnswers \in Nat
    BY DEF MailInv, MailTypes, LostAnswers
  <2> QED
    BY <2>1, <2>2
<1> QED
  BY <1>1, MailStart, MailStep, PTL DEF AnnouncementsSpec

----
(* The notices of an operation.                                            *)

Message ==
    [over : {"whatsapp"}, to : {"user", "sender", "receiver", "alert"}
                                   \cup {Admins[i] : i \in DOMAIN Admins},
     forms : {<<"template">>, <<"text">>, <<"template", "text">>, <<"template", "template">>},
     nowhere : {"skip", "throw", "try", "given"}]
    \cup
    [over : {"mail"}, to : {"user", "sender", "receiver", "payer", "owner"}
                               \cup {Alerted[i] : i \in DOMAIN Alerted},
     forms : {<<"mail">>}, throws : BOOLEAN]

LEMMA MailIsMessage ==
    ASSUME NEW to \in {"user", "sender", "receiver", "payer", "owner"}
                          \cup {Alerted[i] : i \in DOMAIN Alerted},
           NEW throws \in BOOLEAN
    PROVE  Mail(to, throws) \in Message
BY DEF Mail, Message

LEMMA WhatsappIsMessage ==
    ASSUME NEW to \in {"user", "sender", "receiver", "alert"}
                          \cup {Admins[i] : i \in DOMAIN Admins},
           NEW forms \in {<<"template">>, <<"text">>, <<"template", "text">>,
                          <<"template", "template">>},
           NEW nowhere \in {"skip", "throw", "try", "given"}
    PROVE  Whatsapp(to, forms, nowhere) \in Message
BY DEF Whatsapp, Message

LEMMA ListsAreLists ==
    /\ AlertMails \in Seq(Message)
    /\ NeedValidationMessages \in Seq(Message)
    /\ StartupTest \in Seq(Message)
<1>1. /\ Len(Admins) \in Nat /\ DOMAIN Admins = 1..Len(Admins)
      /\ Len(Alerted) \in Nat /\ DOMAIN Alerted = 1..Len(Alerted)
  BY NoticesAssumption
<1>2. AlertMails \in Seq(Message)
  <2> DEFINE mail(i) == Mail(Alerted[i], FALSE)
  <2>1. \A i \in DOMAIN Alerted : mail(i) \in Message
    BY MailIsMessage
  <2>2. AlertMails = [i \in DOMAIN Alerted |-> mail(i)]
    BY DEF AlertMails
  <2> HIDE DEF mail
  <2> QED
    BY <1>1, <2>1, <2>2
<1>3. StartupTest \in Seq(Message)
  <2>1. \A i \in DOMAIN Admins : Whatsapp(Admins[i], <<"template", "template">>, "skip") \in Message
    BY WhatsappIsMessage
  <2> QED
    BY <1>1, <2>1 DEF StartupTest
<1>4. NeedValidationMessages \in Seq(Message)
  <2>1. CASE Admins = <<>>
    <3>1. Whatsapp("alert", <<"text">>, "given") \in Message
      BY WhatsappIsMessage
    <3> QED
      BY <2>1, <3>1 DEF NeedValidationMessages
  <2>2. CASE Admins # <<>>
    <3>1. \A i \in DOMAIN Admins : Whatsapp(Admins[i], WithFallback, "skip") \in Message
      BY WhatsappIsMessage DEF WithFallback
    <3> QED
      BY <1>1, <2>2, <3>1 DEF NeedValidationMessages
  <2> QED
    BY <2>1, <2>2
<1> QED
  BY <1>2, <1>3, <1>4

LEMMA MessagesAreMessages ==
    /\ {WelcomeMessage, ResetMessage, PasswordMessage, TransferReceiverMessage,
        TransferSenderMessage, NewSubscriberMessage, ForPlanAuthorMessage, WithdrawalMessage,
        ServiceMessage, ServiceReceivedMessage, RejectedMessage, DonorMessage, OwnerMessage,
        PayoutFailedMessage} \subseteq Message
    /\ {WelcomeMail, NewsletterMail, ResetMail, PasswordMail, CodeMail, LockedMail, PaymentMail,
        WithdrawalMail} \subseteq Message
    /\ \A to \in {"sender", "receiver"} :
           TransferMail(to) \in Message /\ OperationMail(to) \in Message
<1>1. {WelcomeMessage, ResetMessage, PasswordMessage, TransferReceiverMessage,
       TransferSenderMessage, NewSubscriberMessage, ForPlanAuthorMessage, WithdrawalMessage,
       ServiceMessage, ServiceReceivedMessage, RejectedMessage, DonorMessage, OwnerMessage,
       PayoutFailedMessage} \subseteq Message
  BY WhatsappIsMessage
     DEF WelcomeMessage, ResetMessage, PasswordMessage, TransferReceiverMessage,
         TransferSenderMessage, NewSubscriberMessage, ForPlanAuthorMessage, WithdrawalMessage,
         ServiceMessage, ServiceReceivedMessage, RejectedMessage, DonorMessage, OwnerMessage,
         PayoutFailedMessage, WithFallback
<1>2. {WelcomeMail, NewsletterMail, ResetMail, PasswordMail, CodeMail, LockedMail, PaymentMail,
       WithdrawalMail} \subseteq Message
  BY MailIsMessage
     DEF WelcomeMail, NewsletterMail, ResetMail, PasswordMail, CodeMail, LockedMail, PaymentMail,
         WithdrawalMail
<1>3. \A to \in {"sender", "receiver"} :
          TransferMail(to) \in Message /\ OperationMail(to) \in Message
  BY MailIsMessage DEF TransferMail, OperationMail
<1> QED
  BY <1>1, <1>2, <1>3

LEMMA SendsAreLists ==
    ASSUME NEW k \in Kinds, k # "invoice" PROVE Sends[k] \in Seq(Message)
<1> USE MessagesAreMessages, ListsAreLists
<1>1. TransferSuccess \in Seq(Message) /\ WithdrawalSuccess \in Seq(Message)
  BY DEF TransferSuccess, WithdrawalSuccess
<1>2. ServicePaymentSuccess \in Seq(Message)
  BY DEF ServicePaymentSuccess
<1>3. SubscriptionSuccess \in Seq(Message)
  BY DEF SubscriptionSuccess
<1>4. FundraisingDonation \in Seq(Message) /\ RejectedTransaction \in Seq(Message)
  BY DEF FundraisingDonation, RejectedTransaction
<1>5. AdminPayoutPending \in Seq(Message)
  BY DEF AdminPayoutPending, PayoutPendingMails
<1>6. AdminPayoutFailed \in Seq(Message)
  BY DEF AdminPayoutFailed, PayoutFailedMails
<1>7. Started \in Seq(Message)
  BY DEF Started
<1>8. <<WelcomeMail, WelcomeMessage>> \in Seq(Message) /\ <<ResetMail, ResetMessage>> \in Seq(Message)
  OBVIOUS
<1>9. /\ <<PasswordMail, PasswordMessage>> \in Seq(Message) /\ <<CodeMail>> \in Seq(Message)
      /\ <<NewsletterMail>> \in Seq(Message) /\ <<PaymentMail>> \in Seq(Message)
  OBVIOUS
<1>10. BruteForceMails \o <<LockedMail>> \in Seq(Message)
  BY DEF BruteForceMails
<1>11. /\ Sends["transfer"] = TransferSuccess /\ Sends["withdrawal"] = WithdrawalSuccess
       /\ Sends["service"] = ServicePaymentSuccess
       /\ Sends["subscription"] = SubscriptionSuccess
       /\ Sends["donation"] = FundraisingDonation /\ Sends["pending"] = AdminPayoutPending
       /\ Sends["failed"] = AdminPayoutFailed /\ Sends["rejected"] = RejectedTransaction
       /\ Sends["started"] = Started
  BY DEF Sends
<1>12. /\ Sends["welcome"] = <<WelcomeMail, WelcomeMessage>>
       /\ Sends["reset"] = <<ResetMail, ResetMessage>>
       /\ Sends["password"] = <<PasswordMail, PasswordMessage>>
       /\ Sends["code"] = <<CodeMail>> /\ Sends["newsletter"] = <<NewsletterMail>>
       /\ Sends["locked"] = BruteForceMails \o <<LockedMail>>
       /\ Sends["payment"] = <<PaymentMail>>
  BY DEF Sends
<1>13. k \in {"transfer", "withdrawal", "service", "subscription", "donation", "pending", "failed",
              "rejected", "started", "welcome", "reset", "password", "code", "locked", "newsletter",
              "payment"}
  BY DEF Kinds, Sends
<1> QED
  BY <1>1, <1>2, <1>3, <1>4, <1>5, <1>6, <1>7, <1>8, <1>9, <1>10, <1>11, <1>12, <1>13

----
LEMMA OneMoreCopy ==
    ASSUME NEW counts \in Seq(Nat), NEW times \in Nat
    PROVE  /\ Append(counts, times) \in Seq(Nat)
           /\ Len(Append(counts, times)) = Len(counts) + 1
           /\ Cardinality(Twice(counts)) \in Nat
           /\ Cardinality(Twice(Append(counts, times))) =
                  Cardinality(Twice(counts)) + (IF times > 1 THEN 1 ELSE 0)
<1> DEFINE more == Append(counts, times)
<1>1. /\ more \in Seq(Nat) /\ Len(more) = Len(counts) + 1 /\ more[Len(counts) + 1] = times
      /\ \A i \in 1..Len(counts) : more[i] = counts[i]
      /\ DOMAIN counts = 1..Len(counts) /\ DOMAIN more = 1..(Len(counts) + 1)
      /\ Len(counts) \in Nat
  OBVIOUS
<1> HIDE DEF more
<1>2. IsFiniteSet(Twice(counts))
  <2>1. IsFiniteSet(1..Len(counts))
    BY <1>1, FS_Interval
  <2>2. Twice(counts) \subseteq 1..Len(counts)
    BY <1>1 DEF Twice
  <2> QED
    BY <2>1, <2>2, FS_Subset
<1>3. Len(counts) + 1 \notin Twice(counts)
  BY <1>1 DEF Twice
<1>4. Cardinality(Twice(counts)) \in Nat
  BY <1>2, FS_CardinalityType
<1>5. CASE times > 1
  <2>1. Twice(more) = Twice(counts) \cup {Len(counts) + 1}
    BY <1>1, <1>5 DEF Twice
  <2> QED
    BY ZenonT(60), <1>1, <1>2, <1>3, <1>4, <1>5, <2>1, FS_AddElement DEF more
<1>6. CASE ~(times > 1)
  <2>1. Twice(more) = Twice(counts)
    BY <1>1, <1>6 DEF Twice
  <2> QED
    BY <1>1, <1>4, <1>6, <2>1 DEF more
<1> QED
  BY <1>5, <1>6

At(p) == stack[p].subject
Doubles(e) == Cardinality(Twice(copies[e]))

(* A handler makes the sends of one event that are left, and a form of the *)
(* next one may have been heard already, for an answer that was lost.      *)
Telling(p) ==
    pc[p] # "idle" =>
        /\ pc[p] \in {"send", "alert"}
        /\ At(p) \in Events /\ notice[At(p)] = "running"
        /\ DOMAIN stack[p] = {"subject", "left", "forms", "heard"} /\ stack[p].heard \in Nat
        /\ stack[p].heard > 0 => Doubles(At(p)) + 1 <= LostAnswers
        /\ kind[At(p)] # "invoice" =>
               /\ stack[p].left \in Seq(Message)
               /\ Len(copies[At(p)]) + Len(stack[p].left) = Len(Sends[kind[At(p)]])

TellsOnce(e) ==
    /\ copies[e] \in Seq(Nat)
    /\ Doubles(e) <= LostAnswers
    /\ notice[e] = "none" => copies[e] = <<>>
    /\ notice[e] \in {"told", "abandoned"} /\ kind[e] # "invoice" =>
           Len(copies[e]) = Len(Sends[kind[e]])

NoticeMaps ==
    /\ faults \in [Faults -> Nat]
    /\ DOMAIN pc = Procs /\ DOMAIN stack = Procs
    /\ DOMAIN kind = Events /\ DOMAIN notice = Events /\ DOMAIN copies = Events

NoticeInv ==
    /\ NoticeMaps
    /\ \A p \in Procs : Telling(p)
    /\ \A e \in Events : TellsOnce(e)
    /\ \A p, q \in Procs : pc[p] # "idle" /\ pc[q] # "idle" /\ At(p) = At(q) => p = q

LEMMA NoneIsDouble == Twice(<<>>) = {} /\ Cardinality(Twice(<<>>)) = 0
BY FS_EmptySet DEF Twice

LEMMA NoticesStart == NoticesInit => NoticeInv
<1> SUFFICES ASSUME NoticesInit PROVE NoticeInv
  OBVIOUS
<1> USE DEF NoticesInit, RequestsInit
<1>1. NoticeMaps
  BY DEF NoticeMaps
<1>2. LostAnswers = 0
  BY DEF LostAnswers
<1>3. \A e \in Events : TellsOnce(e)
  BY <1>2, NoneIsDouble DEF TellsOnce, Doubles
<1> QED
  BY <1>1, <1>3 DEF NoticeInv, Telling

LEMMA DoublesIsNat == ASSUME NoticeInv, NEW e \in Events PROVE Doubles(e) \in Nat
BY OneMoreCopy DEF NoticeInv, TellsOnce, Doubles

(* A step of p about the event e leaves what concerns the others alone.    *)
LEMMA OthersTell ==
    ASSUME NoticeInv, NoticeMaps', NEW p \in Procs, NEW e \in Events,
           \A q \in Procs \ {p} : pc'[q] = pc[q] /\ stack'[q] = stack[q],
           \A d \in Events \ {e} :
               kind'[d] = kind[d] /\ notice'[d] = notice[d] /\ copies'[d] = copies[d],
           LostAnswers <= LostAnswers',
           notice[e] = "none" \/ (pc[p] # "idle" /\ At(p) = e),
           pc'[p] # "idle" => At(p)' = e,
           Telling(p)', TellsOnce(e)'
    PROVE  NoticeInv'
<1>1. LostAnswers \in Nat /\ LostAnswers' \in Nat
  BY DEF LostAnswers, NoticeInv, NoticeMaps
<1>2. ASSUME NEW q \in Procs, q # p, pc[q] # "idle" PROVE At(q) # e
  <2>1. CASE notice[e] = "none"
    <3>1. notice[At(q)] = "running"
      BY <1>2 DEF NoticeInv, Telling
    <3> QED
      BY <2>1, <3>1
  <2>2. CASE pc[p] # "idle" /\ At(p) = e
    BY <1>2, <2>2 DEF NoticeInv
  <2> QED
    BY <2>1, <2>2
<1>3. ASSUME NEW d \in Events, d # e PROVE TellsOnce(d)'
  <2>1. TellsOnce(d) /\ Doubles(d) \in Nat
    BY DoublesIsNat DEF NoticeInv
  <2>2. kind'[d] = kind[d] /\ notice'[d] = notice[d] /\ copies'[d] = copies[d]
    BY <1>3
  <2>3. copies'[d] \in Seq(Nat)
    BY <2>1, <2>2 DEF TellsOnce
  <2>4. Doubles(d)' <= LostAnswers'
    <3>1. Doubles(d)' = Doubles(d)
      BY <2>2 DEF Doubles
    <3>2. Doubles(d) <= LostAnswers
      BY <2>1 DEF TellsOnce
    <3>3. LostAnswers <= LostAnswers'
      OBVIOUS
    <3> QED
      BY <1>1, <2>1, <3>1, <3>2, <3>3
  <2>5. notice'[d] = "none" => copies'[d] = <<>>
    BY <2>1, <2>2 DEF TellsOnce
  <2>6. notice'[d] \in {"told", "abandoned"} /\ kind'[d] # "invoice" =>
          Len(copies'[d]) = Len(Sends[kind'[d]])
    BY <2>1, <2>2 DEF TellsOnce
  <2> QED
    BY <2>3, <2>4, <2>5, <2>6 DEF TellsOnce
<1>4. ASSUME NEW q \in Procs, q # p PROVE Telling(q)'
  <2>1. CASE pc[q] = "idle"
    BY <1>4, <2>1 DEF Telling
  <2>2. CASE pc[q] # "idle"
    <3>1. Telling(q) /\ At(q) # e /\ At(q) \in Events
      BY <1>2, <1>4, <2>2 DEF NoticeInv, Telling
    <3>2. At(q)' = At(q) /\ pc'[q] = pc[q] /\ stack'[q] = stack[q]
      BY <1>4 DEF At
    <3>3. /\ kind'[At(q)] = kind[At(q)] /\ notice'[At(q)] = notice[At(q)]
          /\ copies'[At(q)] = copies[At(q)]
      BY <3>1
    <3>4. stack'[q].heard > 0 => Doubles(At(q))' + 1 <= LostAnswers'
      <4>1. Doubles(At(q))' = Doubles(At(q)) /\ Doubles(At(q)) \in Nat
        BY <3>1, <3>2, <3>3, DoublesIsNat DEF Doubles
      <4>2. stack[q].heard > 0 => Doubles(At(q)) + 1 <= LostAnswers
        BY <2>2, <3>1 DEF Telling
      <4>3. LostAnswers <= LostAnswers'
        OBVIOUS
      <4> QED
        BY <1>1, <3>2, <4>1, <4>2, <4>3
    <3> QED
      BY <2>2, <3>1, <3>2, <3>3, <3>4 DEF Telling
  <2> QED
    BY <2>1, <2>2
<1>5. \A q, r \in Procs : pc'[q] # "idle" /\ pc'[r] # "idle" /\ At(q)' = At(r)' => q = r
  BY <1>2 DEF NoticeInv, At
<1> QED
  BY <1>3, <1>4, <1>5 DEF NoticeInv

(* A send is over and the next one is faced.                               *)
LEMMA SendIsOver ==
    ASSUME NoticeInv, NEW p \in Procs, NEW times \in Nat, NEW label \in {"send", "alert"},
           pc[p] = "send", stack[p].left # <<>>,
           copies' = [copies EXCEPT ![At(p)] = Append(@, times)],
           stack' = [stack EXCEPT ![p] = Facing(At(p), Tail(stack[p].left))],
           pc' = [pc EXCEPT ![p] = label],
           UNCHANGED <<kind, notice>>, faults' \in [Faults -> Nat],
           LostAnswers <= LostAnswers', times > 1 => Doubles(At(p)) + 1 <= LostAnswers'
    PROVE  NoticeInv'
<1>0. PICK e \in Events : e = At(p)
  BY DEF NoticeInv, Telling
<1>1. Telling(p) /\ TellsOnce(e) /\ e \in Events /\ notice[e] = "running"
  BY <1>0 DEF NoticeInv, Telling
<1>2. /\ copies'[e] = Append(copies[e], times)
      /\ stack'[p] = Facing(e, Tail(stack[p].left)) /\ pc'[p] = label
      /\ \A q \in Procs \ {p} : pc'[q] = pc[q] /\ stack'[q] = stack[q]
      /\ \A d \in Events \ {e} : copies'[d] = copies[d]
  BY <1>0, <1>1 DEF NoticeInv, NoticeMaps
<1>3. NoticeMaps'
  BY DEF NoticeInv, NoticeMaps
<1>4. copies[e] \in Seq(Nat)
  BY <1>1 DEF TellsOnce
<1>5. /\ copies'[e] \in Seq(Nat) /\ Len(copies'[e]) = Len(copies[e]) + 1
      /\ Doubles(e)' = Doubles(e) + (IF times > 1 THEN 1 ELSE 0) /\ Doubles(e) \in Nat
  BY <1>2, <1>4, OneMoreCopy DEF Doubles
<1>6. LostAnswers \in Nat /\ LostAnswers' \in Nat
  BY DEF LostAnswers, NoticeInv, NoticeMaps
<1>7. Doubles(e)' <= LostAnswers'
  <2>1. Doubles(e) <= LostAnswers
    BY <1>1 DEF TellsOnce
  <2>2. LostAnswers <= LostAnswers' /\ (times > 1 => Doubles(e) + 1 <= LostAnswers')
    BY <1>0
  <2> QED
    BY <1>5, <1>6, <2>1, <2>2
<1>8. TellsOnce(e)'
  BY <1>1, <1>5, <1>7 DEF TellsOnce
<1>9. At(p)' = e
  BY <1>0, <1>2 DEF At, Facing
<1>10. Telling(p)'
  <2>1. /\ stack'[p].heard = 0 /\ stack'[p].left = Tail(stack[p].left)
        /\ DOMAIN stack'[p] = {"subject", "left", "forms", "heard"}
    BY <1>2 DEF Facing
  <2>2. kind[e] # "invoice" => /\ stack[p].left \in Seq(Message)
                               /\ Len(copies[e]) + Len(stack[p].left) = Len(Sends[kind[e]])
    BY <1>0, <1>1 DEF Telling
  <2>3. stack[p].left \in Seq(Message) =>
          /\ Tail(stack[p].left) \in Seq(Message)
          /\ Len(Tail(stack[p].left)) = Len(stack[p].left) - 1 /\ Len(stack[p].left) \in Nat
    OBVIOUS
  <2>4. Len(copies[e]) \in Nat
    BY <1>4
  <2>5. kind[e] # "invoice" =>
          /\ stack'[p].left \in Seq(Message)
          /\ Len(copies'[e]) + Len(stack'[p].left) = Len(Sends[kind[e]])
    <3> SUFFICES ASSUME kind[e] # "invoice"
                 PROVE  /\ stack'[p].left \in Seq(Message)
                        /\ Len(copies'[e]) + Len(stack'[p].left) = Len(Sends[kind[e]])
      OBVIOUS
    <3> DEFINE rest == Len(Tail(stack[p].left))
               left == Len(stack[p].left)
               done == Len(copies[e])
    <3>1. rest = left - 1 /\ left \in Nat /\ done \in Nat
      BY <2>2, <2>3, <2>4
    <3>2. done + left = Len(Sends[kind[e]])
      BY <2>2
    <3> HIDE DEF rest, left, done
    <3>3. done + 1 + rest = Len(Sends[kind[e]])
      BY <3>1, <3>2
    <3>4. Len(copies'[e]) = done + 1 /\ Len(stack'[p].left) = rest
      BY <1>5, <2>1 DEF done, rest
    <3> QED
      BY <2>1, <2>2, <2>3, <3>3, <3>4
  <2>6. ~(stack'[p].heard > 0) /\ stack'[p].heard \in Nat
    BY <2>1
  <2> QED
    BY <1>1, <1>2, <1>9, <2>1, <2>5, <2>6 DEF Telling
<1> QED
  BY <1>0, <1>1, <1>2, <1>3, <1>8, <1>9, <1>10, OthersTell

(* The next form of the same send is tried.                                *)
LEMMA TriesOnce ==
    ASSUME NoticeInv, NEW p \in Procs, NEW frame,
           pc[p] = "send", stack' = [stack EXCEPT ![p] = frame],
           DOMAIN frame = DOMAIN stack[p],
           frame.subject = At(p), frame.left = stack[p].left, frame.heard \in Nat,
           UNCHANGED <<pc, kind, notice, copies>>, faults' \in [Faults -> Nat],
           LostAnswers <= LostAnswers', frame.heard > 0 => Doubles(At(p)) + 1 <= LostAnswers'
    PROVE  NoticeInv'
<1>0. PICK e \in Events : e = At(p)
  BY DEF NoticeInv, Telling
<1>1. Telling(p) /\ TellsOnce(e) /\ e \in Events /\ notice[e] = "running"
  BY <1>0 DEF NoticeInv, Telling
<1>2. stack'[p] = frame /\ \A q \in Procs \ {p} : stack'[q] = stack[q]
  BY DEF NoticeInv, NoticeMaps
<1>3. NoticeMaps'
  BY DEF NoticeInv, NoticeMaps
<1>4. At(p)' = e
  BY <1>0, <1>2 DEF At
<1>5. frame.heard > 0 => Doubles(e) + 1 <= LostAnswers'
  BY <1>0
<1>6. Doubles(e)' = Doubles(e) /\ Doubles(e) \in Nat
  BY <1>1, DoublesIsNat DEF Doubles
<1>7. LostAnswers \in Nat /\ LostAnswers' \in Nat
  BY DEF LostAnswers, NoticeInv, NoticeMaps
<1>8. TellsOnce(e)'
  <2>1. Doubles(e) <= LostAnswers
    BY <1>1 DEF TellsOnce
  <2>2. Doubles(e)' <= LostAnswers'
    BY <1>6, <1>7, <2>1
  <2> QED
    BY <1>1, <2>2 DEF TellsOnce
<1>9. Telling(p)'
  <2>1. stack'[p].heard > 0 => Doubles(e)' + 1 <= LostAnswers'
    BY <1>2, <1>5, <1>6
  <2>2. /\ DOMAIN stack[p] = {"subject", "left", "forms", "heard"}
        /\ kind[e] # "invoice" => /\ stack[p].left \in Seq(Message)
                                  /\ Len(copies[e]) + Len(stack[p].left) = Len(Sends[kind[e]])
    BY <1>0, <1>1 DEF Telling
  <2> QED
    BY <1>1, <1>2, <1>4, <2>1, <2>2 DEF Telling
<1> QED
  BY <1>0, <1>1, <1>2, <1>3, <1>4, <1>8, <1>9, OthersTell

(* A notice is over; of one that is not an invoice's all sends were made.  *)
LEMMA NoticeIsOver ==
    ASSUME NoticeInv, NEW p \in Procs, pc[p] = "send",
           EndNotice(p, At(p), "told"), stack[p].left = <<>>, UNCHANGED <<kind, copies>>
    PROVE  NoticeInv'
<1> USE DEF EndNotice, Return, JumpWith
<1>0. PICK e \in Events : e = At(p)
  BY DEF NoticeInv, Telling
<1>1. Telling(p) /\ TellsOnce(e) /\ e \in Events /\ notice[e] = "running"
  BY <1>0 DEF NoticeInv, Telling
<1>2. /\ pc'[p] = "idle" /\ notice'[e] = "told"
      /\ \A q \in Procs \ {p} : pc'[q] = pc[q] /\ stack'[q] = stack[q]
      /\ \A d \in Events \ {e} : notice'[d] = notice[d]
  BY <1>0, <1>1 DEF NoticeInv, NoticeMaps
<1>3. NoticeMaps'
  BY DEF NoticeInv, NoticeMaps
<1>4. LostAnswers' = LostAnswers /\ LostAnswers \in Nat
  BY DEF LostAnswers, NoticeInv, NoticeMaps
<1>5. TellsOnce(e)'
  <2>1. kind[e] # "invoice" => Len(copies[e]) + Len(stack[p].left) = Len(Sends[kind[e]])
    BY <1>0, <1>1 DEF Telling
  <2>2. Len(copies[e]) \in Nat /\ Len(stack[p].left) = 0
    BY <1>1 DEF TellsOnce
  <2>3. kind[e] # "invoice" => Len(copies[e]) = Len(Sends[kind[e]])
    BY <2>1, <2>2
  <2>4. Doubles(e)' = Doubles(e)
    BY DEF Doubles
  <2> QED
    BY <1>1, <1>2, <1>4, <2>3, <2>4 DEF TellsOnce
<1>6. Telling(p)'
  BY <1>2 DEF Telling
<1> QED
  BY <1>0, <1>1, <1>2, <1>3, <1>4, <1>5, <1>6, OthersTell

(* An invoice's notice may be given up after a send.                       *)
LEMMA GivesUp ==
    ASSUME NoticeInv, NEW p \in Procs, NEW times \in {0, 1}, pc[p] = "send",
           kind[At(p)] = "invoice", copies' = [copies EXCEPT ![At(p)] = Append(@, times)],
           EndNotice(p, At(p), "abandoned"), UNCHANGED kind
    PROVE  NoticeInv'
<1>0. PICK e \in Events : e = At(p)
  BY DEF NoticeInv, Telling
<1>1. Telling(p) /\ TellsOnce(e) /\ kind[e] = "invoice"
  BY <1>0 DEF NoticeInv
<1>2. /\ pc'[p] = "idle" /\ notice'[e] = "abandoned" /\ copies'[e] = Append(copies[e], times)
      /\ \A q \in Procs \ {p} : pc'[q] = pc[q] /\ stack'[q] = stack[q]
      /\ \A d \in Events \ {e} : notice'[d] = notice[d] /\ copies'[d] = copies[d]
  BY <1>0, <1>1 DEF NoticeInv, NoticeMaps, EndNotice, Return, JumpWith
<1>3. NoticeMaps'
  BY DEF NoticeInv, NoticeMaps, EndNotice, Return, JumpWith
<1>4. LostAnswers' = LostAnswers /\ LostAnswers \in Nat
  BY DEF LostAnswers, NoticeInv, NoticeMaps, EndNotice, Return, JumpWith
<1>5. copies[e] \in Seq(Nat)
  BY <1>1 DEF TellsOnce
<1>6. copies'[e] \in Seq(Nat) /\ Doubles(e)' = Doubles(e) /\ Doubles(e) \in Nat
  <2>1. times \in Nat /\ ~(times > 1)
    OBVIOUS
  <2> QED
    BY <1>2, <1>5, <2>1, OneMoreCopy DEF Doubles
<1>7. TellsOnce(e)'
  BY <1>1, <1>2, <1>4, <1>6 DEF TellsOnce
<1>8. Telling(p)'
  BY <1>2 DEF Telling
<1>9. LostAnswers <= LostAnswers' /\ pc[p] # "idle" /\ pc'[p] = "idle"
  BY <1>2, <1>4
<1>10. \A d \in Events \ {e} : kind'[d] = kind[d]
  OBVIOUS
<1> QED
  BY <1>0, <1>2, <1>3, <1>7, <1>8, <1>9, <1>10, OthersTell

LEMMA ThrowKeeps ==
    ASSUME NoticeInv, NEW p \in Procs, NEW times \in {0, 1}, pc[p] = "send",
           stack[p].left # <<>>, Throw(p, times), UNCHANGED kind
    PROVE  NoticeInv'
<1>1. copies' = [copies EXCEPT ![At(p)] = Append(@, times)]
  BY DEF Throw, CountCopies, At
<1>2. CASE Head(stack[p].left).throws /\ ~Guarded(kind[stack[p].subject])
  BY <1>1, <1>2, GivesUp DEF Throw, Guarded, At
<1>3. CASE ~(Head(stack[p].left).throws /\ ~Guarded(kind[stack[p].subject]))
  <2>1. JumpWith(p, "send", NextSend(stack[p])) /\ UNCHANGED notice
    BY <1>3 DEF Throw
  <2>2. /\ stack' = [stack EXCEPT ![p] = Facing(At(p), Tail(stack[p].left))]
        /\ pc' = [pc EXCEPT ![p] = "send"]
        /\ faults' \in [Faults -> Nat] /\ LostAnswers <= LostAnswers'
    BY <2>1 DEF JumpWith, NextSend, At, NoticeInv, NoticeMaps, LostAnswers
  <2>3. times \in Nat /\ ~(times > 1)
    OBVIOUS
  <2> QED
    BY <1>1, <2>1, <2>2, <2>3, SendIsOver
<1> QED
  BY <1>2, <1>3

(* An answer is lost, or the provider refuses.                             *)
LEMMA NextFormKeeps ==
    ASSUME NoticeInv, NEW p \in Procs, NEW more \in {0, 1}, pc[p] = "send",
           stack[p].left # <<>>, NextForm(p, more), UNCHANGED <<kind, notice>>,
           faults' \in [Faults -> Nat], LostAnswers' = LostAnswers + more
    PROVE  NoticeInv'
<1> DEFINE f == [stack[p] EXCEPT !.heard = @ + more]
<1>0. Telling(p) /\ At(p) \in Events
  BY DEF NoticeInv, Telling
<1>1. /\ DOMAIN f = DOMAIN stack[p] /\ f.subject = At(p) /\ f.left = stack[p].left
      /\ f.heard = stack[p].heard + more /\ stack[p].heard \in Nat
      /\ DOMAIN f = {"subject", "left", "forms", "heard"}
  BY <1>0 DEF Telling, At
<1>2. LostAnswers \in Nat /\ Doubles(At(p)) \in Nat /\ Doubles(At(p)) <= LostAnswers
  BY <1>0, DoublesIsNat DEF NoticeInv, NoticeMaps, LostAnswers, TellsOnce
<1>3. LostAnswers <= LostAnswers' /\ (f.heard > 0 => Doubles(At(p)) + 1 <= LostAnswers')
  <2>1. stack[p].heard > 0 => Doubles(At(p)) + 1 <= LostAnswers
    BY <1>0 DEF Telling
  <2> QED
    BY <1>1, <1>2, <2>1
<1>4. \/ /\ pc' = pc /\ UNCHANGED copies
         /\ stack' = [stack EXCEPT ![p] = [f EXCEPT !.forms = Tail(@)]]
      \/ /\ CountCopies(f, f.heard) /\ stack' = [stack EXCEPT ![p] = NextSend(f)]
         /\ \E label \in {"send", "alert"} : pc' = [pc EXCEPT ![p] = label]
  BY DEF NextForm
<1> HIDE DEF f
<1>5. CASE /\ pc' = pc /\ UNCHANGED copies
           /\ stack' = [stack EXCEPT ![p] = [f EXCEPT !.forms = Tail(@)]]
  <2> DEFINE frame == [f EXCEPT !.forms = Tail(@)]
  <2>1. /\ DOMAIN frame = DOMAIN stack[p] /\ frame.subject = At(p)
        /\ frame.left = stack[p].left /\ frame.heard = f.heard
    BY <1>1
  <2>2. stack' = [stack EXCEPT ![p] = frame]
    BY <1>5
  <2> HIDE DEF frame
  <2>3. frame.heard \in Nat /\ (frame.heard > 0 => Doubles(At(p)) + 1 <= LostAnswers')
    BY <1>1, <1>3, <2>1
  <2>4. UNCHANGED <<pc, kind, notice, copies>> /\ LostAnswers <= LostAnswers'
    BY <1>3, <1>5
  <2> QED
    BY <2>1, <2>2, <2>3, <2>4, TriesOnce
<1>6. CASE /\ CountCopies(f, f.heard) /\ stack' = [stack EXCEPT ![p] = NextSend(f)]
           /\ \E label \in {"send", "alert"} : pc' = [pc EXCEPT ![p] = label]
  <2>1. /\ copies' = [copies EXCEPT ![At(p)] = Append(@, f.heard)]
        /\ stack' = [stack EXCEPT ![p] = Facing(At(p), Tail(stack[p].left))]
    BY <1>1, <1>6 DEF CountCopies, NextSend
  <2>2. f.heard \in Nat /\ (f.heard > 1 => Doubles(At(p)) + 1 <= LostAnswers')
    BY <1>1, <1>3
  <2> QED
    BY <1>3, <1>6, <2>1, <2>2, SendIsOver
<1> QED
  BY <1>4, <1>5, <1>6

(* A notice begins with all its sends before it, or ends at what is not    *)
(* found.                                                                  *)
LEMMA NotifyKeeps ==
    ASSUME NoticeInv, NEW p \in Procs, NEW e \in Events, NEW k \in KindsOf(e), Notify(p, e, k)
    PROVE  NoticeInv'
<1>1. k \in Kinds
  BY KindsAssumption
<1>2. /\ notice[e] = "none" /\ pc[p] = "idle" /\ kind' = [kind EXCEPT ![e] = k]
      /\ UNCHANGED <<copies, faults>>
  BY DEF Notify, Begin, reqVars
<1>3. LostAnswers' = LostAnswers /\ LostAnswers \in Nat
  BY <1>2 DEF LostAnswers, NoticeInv, NoticeMaps
<1>4. copies[e] = <<>> /\ copies'[e] = <<>> /\ TellsOnce(e)
  BY <1>2 DEF NoticeInv, TellsOnce
<1>5. PICK known \in SUBSET {"sender", "receiver", "payer", "owner", "transaction"} :
        IF LookedUp(k) \subseteq known
        THEN /\ notice' = [notice EXCEPT ![e] = "running"]
             /\ Begin(p, "send", Facing(e, SendsOf(k, known)))
        ELSE /\ notice' = [notice EXCEPT ![e] = "nobody"]
             /\ pc[p] = "idle" /\ UNCHANGED reqVars
  BY Zenon DEF Notify
<1>6. kind'[e] = k /\ \A d \in Events \ {e} : kind'[d] = kind[d]
  BY <1>2 DEF NoticeInv, NoticeMaps
<1>7. Doubles(e)' <= LostAnswers'
  BY <1>3, <1>4, NoneIsDouble DEF Doubles
<1>8. CASE LookedUp(k) \subseteq known
  <2> DEFINE sends == SendsOf(k, known)
  <2>1. /\ notice' = [notice EXCEPT ![e] = "running"]
        /\ pc' = [pc EXCEPT ![p] = "send"]
        /\ stack' = [stack EXCEPT ![p] = Facing(e, sends)]
    BY <1>5, <1>8 DEF Begin
  <2>2. k # "invoice" => sends = Sends[k] /\ sends \in Seq(Message)
    BY <1>1, SendsAreLists DEF SendsOf
  <2> HIDE DEF sends
  <2>3. /\ pc'[p] = "send" /\ stack'[p] = Facing(e, sends) /\ notice'[e] = "running"
        /\ \A q \in Procs \ {p} : pc'[q] = pc[q] /\ stack'[q] = stack[q]
        /\ \A d \in Events \ {e} : notice'[d] = notice[d]
    BY <2>1 DEF NoticeInv, NoticeMaps
  <2>4. NoticeMaps'
    BY <1>2, <2>1 DEF NoticeInv, NoticeMaps
  <2>5. /\ At(p)' = e /\ stack'[p].heard = 0 /\ stack'[p].left = sends
        /\ DOMAIN stack'[p] = {"subject", "left", "forms", "heard"}
    BY <2>3 DEF At, Facing
  <2>6. k # "invoice" => Len(copies'[e]) + Len(sends) = Len(Sends[k])
    <3>1. Len(copies'[e]) = 0
      BY <1>4
    <3>2. sends \in Seq(Message) => Len(sends) \in Nat
      OBVIOUS
    <3> QED
      BY <2>2, <3>1, <3>2
  <2>7. Telling(p)'
    BY <1>6, <2>2, <2>3, <2>5, <2>6 DEF Telling
  <2>8. TellsOnce(e)'
    BY <1>4, <1>7, <2>3 DEF TellsOnce
  <2>9. LostAnswers <= LostAnswers'
    BY <1>3
  <2> QED
    BY <1>2, <1>6, <2>3, <2>4, <2>5, <2>7, <2>8, <2>9, OthersTell
<1>9. CASE ~(LookedUp(k) \subseteq known)
  <2>1. notice' = [notice EXCEPT ![e] = "nobody"] /\ UNCHANGED <<pc, stack>>
    BY <1>5, <1>9 DEF reqVars
  <2>2. notice'[e] = "nobody" /\ \A d \in Events \ {e} : notice'[d] = notice[d]
    BY <2>1 DEF NoticeInv, NoticeMaps
  <2>3. NoticeMaps'
    BY <1>2, <2>1 DEF NoticeInv, NoticeMaps
  <2>4. Telling(p)'
    BY <1>2, <2>1 DEF Telling
  <2>5. TellsOnce(e)'
    BY <1>4, <1>7, <2>2 DEF TellsOnce
  <2>6. LostAnswers <= LostAnswers'
    BY <1>3
  <2> QED
    BY <1>2, <1>6, <2>1, <2>2, <2>3, <2>4, <2>5, <2>6, OthersTell
<1> QED
  BY <1>8, <1>9

(* What concerns no notice.                                                *)
LEMMA NoticeAside ==
    ASSUME NoticeInv, UNCHANGED <<stack, faults, kind, notice, copies>>,
           DOMAIN pc' = Procs,
           \A p \in Procs : pc'[p] = pc[p] \/ {pc[p], pc'[p]} \subseteq {"send", "alert"}
    PROVE  NoticeInv'
<1>1. NoticeMaps'
  BY DEF NoticeInv, NoticeMaps
<1>2. LostAnswers' = LostAnswers
  BY DEF LostAnswers
<1>3. \A e \in Events : TellsOnce(e)'
  BY <1>2 DEF NoticeInv, TellsOnce, Doubles
<1>4. \A p \in Procs : Telling(p)'
  BY ZenonT(60), <1>2 DEF NoticeInv, Telling, Doubles, At
<1>5. \A p, q \in Procs : pc'[p] # "idle" /\ pc'[q] # "idle" /\ At(p)' = At(q)' => p = q
  BY DEF NoticeInv, At
<1> QED
  BY <1>1, <1>3, <1>4, <1>5 DEF NoticeInv

LEMMA RestartKeeps == ASSUME NoticeInv, Restart PROVE NoticeInv'
<1> USE DEF Restart
<1>1. /\ DOMAIN pc' = Procs /\ DOMAIN stack' = Procs /\ DOMAIN notice' = Events
      /\ UNCHANGED <<kind, copies>> /\ \A p \in Procs : pc'[p] = "idle"
      /\ \A e \in Events : notice'[e] = notice[e] \/ notice'[e] = "stopped"
  OBVIOUS
<1>2. faults' \in [Faults -> Nat] /\ LostAnswers' = LostAnswers
  BY DEF NoticeInv, NoticeMaps, Faulty, LostAnswers
<1>3. NoticeMaps'
  BY <1>1, <1>2 DEF NoticeInv, NoticeMaps
<1>4. \A e \in Events : TellsOnce(e)'
  BY <1>1, <1>2 DEF NoticeInv, TellsOnce, Doubles
<1>5. \A p \in Procs : Telling(p)'
  BY <1>1 DEF Telling
<1> QED
  BY <1>1, <1>3, <1>4, <1>5 DEF NoticeInv

LEMMA NoticeStep == NoticeInv /\ [NoticesNext]_noticeVars => NoticeInv'
<1> SUFFICES ASSUME NoticeInv, [NoticesNext]_noticeVars PROVE NoticeInv'
  OBVIOUS
<1>1. CASE UNCHANGED noticeVars
  BY <1>1, NoticeAside DEF noticeVars, noticeOnly, reqVars, NoticeInv, NoticeMaps
<1>2. CASE InitializeTransporter \/ UpdateSmtpData \/ \E channel \in Channels : Switch(channel)
  <2>1. UNCHANGED <<reqVars, kind, notice, copies>>
    BY <1>2 DEF InitializeTransporter, UpdateSmtpData, Switch
  <2> QED
    BY <2>1, NoticeAside DEF reqVars, NoticeInv, NoticeMaps
<1>3. CASE Restart
  BY <1>3, RestartKeeps
<1>4. ASSUME NEW p \in Procs, NEW e \in Events, NEW k \in KindsOf(e), Notify(p, e, k)
      PROVE  NoticeInv'
  BY <1>4, NotifyKeeps
<1>5. ASSUME NEW p \in Procs, Told(p) PROVE NoticeInv'
  BY <1>5, NoticeIsOver DEF Told, At
<1>6. ASSUME NEW p \in Procs, NEW times \in {0, 1}, pc[p] = "send", stack[p].left # <<>>,
             CountCopies(stack[p], times), JumpWith(p, "send", NextSend(stack[p])),
             UNCHANGED <<kind, notice>>
      PROVE  NoticeInv'
  <2>1. /\ copies' = [copies EXCEPT ![At(p)] = Append(@, times)]
        /\ stack' = [stack EXCEPT ![p] = Facing(At(p), Tail(stack[p].left))]
        /\ pc' = [pc EXCEPT ![p] = "send"]
    BY <1>6 DEF CountCopies, JumpWith, NextSend, At
  <2>2. faults' \in [Faults -> Nat] /\ LostAnswers <= LostAnswers'
    BY <1>6 DEF JumpWith, NoticeInv, NoticeMaps, LostAnswers
  <2>3. times \in Nat /\ ~(times > 1)
    OBVIOUS
  <2> QED
    BY <1>6, <2>1, <2>2, <2>3, SendIsOver
<1>7. ASSUME NEW p \in Procs, PassOver(p) \/ SendMail(p) \/ PassOverAddress(p)
      PROVE  NoticeInv'
  <2>1. PICK times \in {0, 1} : CountCopies(stack[p], times)
    BY <1>7 DEF PassOver, SendMail, PassOverAddress
  <2> QED
    BY <1>6, <1>7, <2>1 DEF PassOver, SendMail, PassOverAddress, AtSend, Settings
<1>8. ASSUME NEW p \in Procs, LeaveOut(p) \/ Accept(p) PROVE NoticeInv'
  <2>1. /\ pc[p] = "send" /\ stack[p].left # <<>>
        /\ JumpWith(p, "send", NextSend(stack[p])) /\ UNCHANGED <<kind, notice>>
    BY <1>8 DEF LeaveOut, Accept, Tries, AtSend, Settings
  <2>2. PICK more \in {0, 1} : CountCopies(stack[p], stack[p].heard + more)
    <3>1. Telling(p)
      BY DEF NoticeInv
    <3>2. stack[p].heard \in Nat
      BY <2>1, <3>1 DEF Telling
    <3>3. stack[p].heard + 0 = stack[p].heard
      BY <3>2
    <3>4. CASE LeaveOut(p)
      BY <3>3, <3>4 DEF LeaveOut
    <3>5. CASE Accept(p)
      BY <3>5 DEF Accept
    <3> QED
      BY <1>8, <3>4, <3>5
  <2> DEFINE times == stack[p].heard + more
  <2>3. /\ stack[p].heard \in Nat
        /\ stack[p].heard > 0 => Doubles(At(p)) + 1 <= LostAnswers
    BY <2>1 DEF NoticeInv, Telling
  <2>4. /\ copies' = [copies EXCEPT ![At(p)] = Append(@, times)]
        /\ stack' = [stack EXCEPT ![p] = Facing(At(p), Tail(stack[p].left))]
        /\ pc' = [pc EXCEPT ![p] = "send"]
    BY <2>1, <2>2 DEF CountCopies, JumpWith, NextSend, At
  <2>5. faults' \in [Faults -> Nat] /\ LostAnswers' = LostAnswers /\ LostAnswers \in Nat
    BY <2>1 DEF JumpWith, NoticeInv, NoticeMaps, LostAnswers
  <2>6. times \in Nat /\ (times > 1 => Doubles(At(p)) + 1 <= LostAnswers')
    BY <2>3, <2>5
  <2> HIDE DEF times
  <2>7. LostAnswers <= LostAnswers'
    BY <2>5
  <2> QED
    BY <2>1, <2>4, <2>5, <2>6, <2>7, SendIsOver
<1>9. ASSUME NEW p \in Procs, Refuse(p) PROVE NoticeInv'
  <2>1. LostAnswers' = LostAnswers + 0 /\ faults' \in [Faults -> Nat]
    BY <1>9 DEF Refuse, LostAnswers, NoticeInv, NoticeMaps
  <2> QED
    BY <1>9, <2>1, NextFormKeeps DEF Refuse, Tries, AtSend, Settings
<1>10. ASSUME NEW p \in Procs, LoseAnswer(p) PROVE NoticeInv'
  <2>1. LostAnswers' = LostAnswers + 1 /\ faults' \in [Faults -> Nat]
    BY <1>10 DEF LoseAnswer, Faulty, LostAnswers, NoticeInv, NoticeMaps
  <2> QED
    BY <1>10, <2>1, NextFormKeeps DEF LoseAnswer, Tries, AtSend, Settings
<1>11. ASSUME NEW p \in Procs, Alert(p) PROVE NoticeInv'
  <2>1. pc[p] = "alert" /\ pc' = [pc EXCEPT ![p] = "send"]
    BY <1>11 DEF Alert, Jump
  <2>2. \A q \in Procs : pc'[q] = pc[q] \/ {pc[q], pc'[q]} \subseteq {"send", "alert"}
    BY <2>1 DEF NoticeInv, NoticeMaps
  <2>3. DOMAIN pc' = Procs
    BY <2>1 DEF NoticeInv, NoticeMaps
  <2> QED
    BY <1>11, <2>2, <2>3, NoticeAside DEF Alert, Jump, Settings
<1>12. ASSUME NEW p \in Procs, FailMail(p) PROVE NoticeInv'
  <2>1. PICK times \in {0, 1} : Throw(p, times)
    BY <1>12 DEF FailMail
  <2> QED
    BY <1>12, <2>1, ThrowKeeps DEF FailMail, AtSend
<1> QED
  BY <1>1, <1>2, <1>3, <1>4, <1>5, <1>7, <1>8, <1>9, <1>10, <1>11, <1>12 DEF NoticesNext

(* Of a notice that is over every send was made, whatever became of the    *)
(* others, and a message is heard twice only for an answer that was lost:  *)
(* for any events, administrators, handlers and faults.                    *)
THEOREM NobodyIsForgotten == NoticesSpec => []EachIsToldOnce
<1>1. NoticeInv => EachIsToldOnce
  BY DEF NoticeInv, TellsOnce, Doubles, EachIsToldOnce, OthersAreTold, HeardTwiceLostAnswer
<1> QED
  BY <1>1, NoticesStart, NoticeStep, PTL DEF NoticesSpec

----
(* The operator that is charged.                                           *)

LEMMA CountriesAre == Countries = {"CM", "SN", "BF", "CI", "ML", "GH", "NG", "UG", "RW"}
BY DEF Countries, Dials

LEMMA DialsDiffer ==
    /\ \A c, d \in Countries : Dials[c] = Dials[d] => c = d
    /\ \A c \in Countries : Dials[c] \in 0..999
<1>1. /\ Dials["CM"] = 237 /\ Dials["SN"] = 221 /\ Dials["BF"] = 226 /\ Dials["CI"] = 225
      /\ Dials["ML"] = 223 /\ Dials["GH"] = 233 /\ Dials["NG"] = 234 /\ Dials["UG"] = 256
      /\ Dials["RW"] = 250
  BY DEF Dials
<1> QED
  BY <1>1, CountriesAre

LEMMA LengthsAre == ASSUME NEW c \in Countries PROVE LengthsOf[c] \subseteq 8..10
BY CountriesAre DEF LengthsOf

LEMMA NetworksAre ==
    ASSUME NEW c \in Countries
    PROVE  NetworksOf[c] \subseteq {"MTN", "ORANGEMONEY", "FREE", "WAVE", "MOOV", "VODAFONE",
                                    "AIRTELTIGO", "AIRTEL", "GLO", "9MOBILE"}
<1>1. /\ NetworksOf["CM"] = {"MTN", "ORANGEMONEY"}
      /\ NetworksOf["SN"] = {"ORANGEMONEY", "FREE", "WAVE"}
      /\ NetworksOf["BF"] = {"ORANGEMONEY", "MOOV"}
      /\ NetworksOf["CI"] = {"MTN", "ORANGEMONEY", "WAVE"}
      /\ NetworksOf["ML"] = {"ORANGEMONEY"}
      /\ NetworksOf["GH"] = {"MTN", "VODAFONE", "AIRTELTIGO"}
      /\ NetworksOf["NG"] = {"MTN", "AIRTEL", "GLO", "9MOBILE"}
      /\ NetworksOf["UG"] = {"MTN", "AIRTEL"} /\ NetworksOf["RW"] = {"MTN", "AIRTEL"}
  BY DEF NetworksOf
<1> QED
  BY <1>1, CountriesAre

(* The name of a network is nobody's alias.                                *)
LEMMA NamesAreTheirOwn ==
    ASSUME NEW c \in Countries
    PROVE  /\ \A n \in NetworksOf[c] : NormalizeNetworkToken(n) = n
           /\ NormalizeNetworkToken(None) \notin NetworksOf[c]
<1>1. DOMAIN Aliases = {"ORANGE", "OM", "MOMO", "ATL", "MOBILEMONEY", "MOOVMONEY", "AIRTELMONEY",
                        "VODACOM", "TELECEL"}
  BY DEF Aliases
<1> QED
  BY <1>1, NetworksAre DEF NormalizeNetworkToken, None

(* A prefix has one owner at most, and outside Cameroon none is known.     *)
LEMMA OneOwner ==
    ASSUME NEW c \in Countries, NEW first \in 0..999
    PROVE  /\ \A m, n \in OwnersOf(c, first) : m = n
           /\ OwnersOf(c, first) # {} => c = "CM"
<1>1. \A n : n \in OwnersOf(c, first) =>
        /\ c = "CM"
        /\ \/ n = "MTN" /\ first \in (650..654) \cup (670..685)
           \/ n = "ORANGEMONEY" /\ first \in (655..659) \cup (686..699)
  BY DEF OwnersOf, OperatorPrefixes
<1> QED
  BY <1>1

OperatorOf(country, first, network) == CHOOSE n \in Operators(country, first, network) : TRUE

(* What a resolution that succeeds has found.                              *)
FoundIn(c, country, first, length, currency, network) ==
    /\ currency \in {None, CurrencyOf[country]} /\ length \in LengthsOf[country]
    /\ c.network \in Operators(country, first, network)
    /\ ~(country = "BF" /\ c.network = "ORANGEMONEY")
    /\ c.network = OperatorOf(country, first, network)
    /\ c = [error |-> None, country |-> country, network |-> c.network,
            msisdn |-> [first |-> Dials[country], second |-> first, length |-> length + 3]]

LEMMA ResolvedIn ==
    ASSUME NEW country, NEW first, NEW length, NEW currency, NEW network, NEW c,
           c = ResolveIn(country, first, length, currency, network), c.error = None
    PROVE  FoundIn(c, country, first, length, currency, network)
<1> USE DEF FoundIn
<1> DEFINE operators == Operators(country, first, network)
           operator == OperatorOf(country, first, network)
<1>1. /\ currency \in {None, CurrencyOf[country]} /\ length \in LengthsOf[country]
      /\ operators # {} /\ ~(country = "BF" /\ operator = "ORANGEMONEY")
  BY DEF ResolveIn, Unresolved, None, OperatorOf
<1>2. operator \in operators
  BY <1>1 DEF OperatorOf
<1> QED
  BY <1>1, <1>2 DEF ResolveIn, OperatorOf

RoundTrip(c, country, first, length, currency, network) ==
    /\ Resolve(c.msisdn, currency, None, c.network) = c
    /\ OwnersOf(country, first) \subseteq {c.network}

(* A number resolves in its international form as it did.                  *)
LEMMA ResolvesAgain ==
    ASSUME NEW country \in Countries, NEW first \in 0..999, NEW length \in Int,
           NEW currency \in DirectCurrencies, NEW network, NEW c,
           c = ResolveIn(country, first, length, currency, network), c.error = None
    PROVE  RoundTrip(c, country, first, length, currency, network)
<1>1. /\ currency \in {None, CurrencyOf[country]} /\ length \in LengthsOf[country]
      /\ c.network \in Operators(country, first, network)
      /\ ~(country = "BF" /\ c.network = "ORANGEMONEY")
      /\ c = [error |-> None, country |-> country, network |-> c.network,
              msisdn |-> [first |-> Dials[country], second |-> first, length |-> length + 3]]
  <2>1. FoundIn(c, country, first, length, currency, network)
    BY ResolvedIn
  <2> QED
    BY <2>1 DEF FoundIn
<1>2. /\ c.msisdn.first = Dials[country] /\ c.msisdn.second = first
      /\ c.msisdn.length = length + 3
  BY <1>1
<1>3. length \in 8..10
  BY <1>1, LengthsAre
<1>4. Operators(country, first, c.network) = {c.network}
  <2>1. CASE OwnersOf(country, first) # {}
    <3>1. c.network \in OwnersOf(country, first)
      BY <1>1, <2>1 DEF Operators
    <3> QED
      BY SMTT(40), <2>1, <3>1, OneOwner DEF Operators
  <2>2. CASE OwnersOf(country, first) = {}
    <3>1. c.network \in NetworksOf[country]
      BY <1>1, <2>2 DEF Operators
    <3>2. NormalizeNetworkToken(c.network) = c.network
      BY <3>1, NamesAreTheirOwn
    <3> QED
      BY <2>2, <3>1, <3>2 DEF Operators
  <2> QED
    BY <2>1, <2>2
<1>5. OwnersOf(country, first) \subseteq {c.network}
  BY <1>4 DEF Operators
<1>6. Resolve(c.msisdn, currency, None, c.network) =
        ResolveIn(country, first, length, currency, c.network)
  <2>1. {d \in Countries : Dials[d] = c.msisdn.first} = {country}
    BY <1>2, DialsDiffer
  <2>2. (CHOOSE d \in {country} : TRUE) = country
    OBVIOUS
  <2>3. ~(c.msisdn.length < 6) /\ currency \in DirectCurrencies \cup {None}
        /\ c.msisdn.length - 3 = length
    BY <1>2, <1>3
  <2> QED
    BY <1>2, <2>1, <2>2, <2>3 DEF Resolve
<1>7. ResolveIn(country, first, length, currency, c.network) = c
  <2>1. (CHOOSE n \in {c.network} : TRUE) = c.network
    OBVIOUS
  <2> QED
    BY ZenonT(60), <1>1, <1>4, <2>1 DEF ResolveIn, OperatorOf
<1> QED
  BY <1>5, <1>6, <1>7 DEF RoundTrip

LEMMA CountriesAreFinite == IsFiniteSet(Countries)
<1>1. \A S, x : IsFiniteSet(S) => IsFiniteSet(S \cup {x})
  BY FS_AddElement
<1>2. IsFiniteSet({"CM"}) /\ IsFiniteSet({"CM"} \cup {"SN"})
  BY <1>1, FS_Singleton
<1>3. IsFiniteSet((({"CM"} \cup {"SN"}) \cup {"BF"}) \cup {"CI"})
  BY <1>1, <1>2
<1>4. IsFiniteSet((((({"CM"} \cup {"SN"}) \cup {"BF"}) \cup {"CI"}) \cup {"ML"}) \cup {"GH"})
  BY <1>1, <1>3
<1>5. IsFiniteSet(((((((({"CM"} \cup {"SN"}) \cup {"BF"}) \cup {"CI"}) \cup {"ML"}) \cup {"GH"})
                      \cup {"NG"}) \cup {"UG"}) \cup {"RW"})
  BY <1>1, <1>4
<1>6. Countries = (((((((({"CM"} \cup {"SN"}) \cup {"BF"}) \cup {"CI"}) \cup {"ML"}) \cup {"GH"})
                      \cup {"NG"}) \cup {"UG"}) \cup {"RW"})
  BY CountriesAre
<1> QED
  BY <1>5, <1>6

(* The country of a number that is dialled with its code, or without.      *)
IsOf(phone, currency, hint, country, first, length) ==
    \/ Dials[country] = phone.first /\ first = phone.second /\ length = phone.length - 3
    \/ /\ \A c \in Countries : Dials[c] # phone.first
       /\ first = phone.first /\ length = phone.length
       /\ IF hint # None THEN country = hint
          ELSE {c \in Countries : currency = CurrencyOf[c]} = {country}

Lands(phone, currency, hint, network) ==
    \E country \in Countries, first \in 0..999, length \in Int :
        /\ Resolve(phone, currency, hint, network) =
               ResolveIn(country, first, length, currency, network)
        /\ IsOf(phone, currency, hint, country, first, length)

(* A resolution that succeeds is one in a country, with the number's first *)
(* groups of digits there.                                                 *)
LEMMA ResolvesInACountry ==
    ASSUME NEW phone \in Phones, NEW currency \in DirectCurrencies, NEW hint, NEW network,
           Resolve(phone, currency, hint, network).error = None
    PROVE  Lands(phone, currency, hint, network)
<1> USE DEF Lands
<1> DEFINE dialled == {c \in Countries : Dials[c] = phone.first}
           candidates == {c \in Countries : currency \in {None, CurrencyOf[c]}}
           home == IF hint # None THEN {hint} ELSE candidates
<1>1. phone.first \in 0..999 /\ phone.second \in 0..999 /\ phone.length \in Int
  BY DEF Phones
<1>2. currency # None
  BY DEF DirectCurrencies, None
<1>3. ~(phone.length < 6) /\ currency \in DirectCurrencies \cup {None}
  BY DEF Resolve, Unresolved, None
<1>4. CASE dialled # {}
  <2> DEFINE country == CHOOSE c \in dialled : TRUE
  <2>1. country \in dialled
    BY <1>4
  <2>2. Resolve(phone, currency, hint, network) =
          ResolveIn(country, phone.second, phone.length - 3, currency, network)
    BY <1>3, <1>4 DEF Resolve
  <2> HIDE DEF country
  <2>3. phone.length - 3 \in Int /\ country \in Countries /\ Dials[country] = phone.first
    BY <1>1, <2>1
  <2> DEFINE first == phone.second
             length == phone.length - 3
  <2>4. first \in 0..999 /\ length \in Int /\ first = phone.second /\ length = phone.length - 3
    BY <1>1
  <2> HIDE DEF first, length
  <2>5. Resolve(phone, currency, hint, network) =
          ResolveIn(country, first, length, currency, network)
    BY <2>2, <2>4
  <2>6. IsOf(phone, currency, hint, country, first, length)
    BY <2>3, <2>4 DEF IsOf
  <2> QED
    BY ZenonT(60), <2>3, <2>4, <2>5, <2>6
<1>5. CASE dialled = {}
  <2>1. home \subseteq candidates /\ Cardinality(home) = 1
    BY <1>3, <1>5 DEF Resolve, Unresolved, None
  <2>2. PICK country : home = {country}
    <3>1. IsFiniteSet(home)
      BY <2>1, CountriesAreFinite, FS_Subset
    <3> QED
      BY <2>1, <3>1, FS_Singleton
  <2>3. Resolve(phone, currency, hint, network) =
          ResolveIn(country, phone.first, phone.length, currency, network)
    <3>1. (CHOOSE c \in home : TRUE) = country
      BY <2>2
    <3> QED
      BY <1>3, <1>5, <2>1, <3>1 DEF Resolve
  <2>4. country \in Countries
    BY <2>1, <2>2
  <2>5. IF hint # None THEN country = hint
        ELSE {c \in Countries : currency = CurrencyOf[c]} = {country}
    BY <1>2, <2>2
  <2>6. \A c \in Countries : Dials[c] # phone.first
    BY <1>5
  <2> HIDE DEF dialled, candidates, home
  <2>7. IsOf(phone, currency, hint, country, phone.first, phone.length)
    BY <2>5, <2>6 DEF IsOf
  <2> QED
    BY ZenonT(60), <1>1, <2>3, <2>4, <2>7
<1> QED
  BY <1>4, <1>5

(* Without a network that is named, the country that is hinted at does not *)
(* change what a number resolves to, if the hint is one at all.            *)
LEMMA HintsAgree ==
    ASSUME NEW phone \in Phones, NEW currency \in DirectCurrencies, NEW hint,
           Resolve(phone, currency, hint, None).error = None
    PROVE  Resolve(phone, currency, None, None) = Resolve(phone, currency, hint, None)
<1>1. PICK country \in Countries, first \in 0..999, length \in Int :
        /\ Resolve(phone, currency, hint, None) =
               ResolveIn(country, first, length, currency, None)
        /\ IsOf(phone, currency, hint, country, first, length)
  <2>1. Lands(phone, currency, hint, None)
    BY ResolvesInACountry
  <2> QED
    BY <2>1 DEF Lands
<1>2. FoundIn(Resolve(phone, currency, hint, None), country, first, length, currency, None)
  BY <1>1, ResolvedIn
<1>3. ~(phone.length < 6) /\ currency \in DirectCurrencies \cup {None}
  BY DEF Resolve, Unresolved, None
<1>4. CASE Dials[country] = phone.first /\ first = phone.second /\ length = phone.length - 3
  <2>1. {c \in Countries : Dials[c] = phone.first} # {}
    BY <1>4
  <2> QED
    BY <1>3, <2>1 DEF Resolve
<1>5. CASE /\ \A c \in Countries : Dials[c] # phone.first
           /\ first = phone.first /\ length = phone.length
           /\ IF hint # None THEN country = hint
              ELSE {c \in Countries : currency = CurrencyOf[c]} = {country}
  <2>1. country = "CM" /\ currency = "XAF"
    <3>1. Operators(country, first, None) # {}
      BY <1>2 DEF FoundIn
    <3>2. NetworksOf[country] \cap {NormalizeNetworkToken(None)} = {}
      BY NamesAreTheirOwn
    <3>3. country = "CM"
      BY SMTT(40), <3>1, <3>2, OneOwner DEF Operators
    <3>4. currency = CurrencyOf[country]
      BY <1>2 DEF FoundIn, DirectCurrencies, None
    <3> QED
      BY <3>3, <3>4, CountriesAre DEF CurrencyOf
  <2>2. {c \in Countries : currency \in {None, CurrencyOf[c]}} = {country}
    BY <2>1, CountriesAre DEF CurrencyOf, None
  <2>3. Cardinality({country}) = 1 /\ (CHOOSE c \in {country} : TRUE) = country
    BY ZenonT(40), FS_Singleton
  <2>4. {c \in Countries : Dials[c] = phone.first} = {}
    BY <1>5
  <2>5. Resolve(phone, currency, None, None) =
          ResolveIn(country, first, length, currency, None)
    BY ZenonT(60), <1>3, <1>5, <2>2, <2>3, <2>4 DEF Resolve
  <2> QED
    BY <1>1, <2>5
<1> QED
  BY <1>1, <1>4, <1>5 DEF IsOf

(* A transfer that is charged goes to the operator of the payer's method.  *)
MethodFits(o) ==
    /\ o.network = None
    /\ o.currency \in DirectCurrencies /\ Resolve(o.phone, o.currency, o.country, None).error = None =>
           PayerMethods[o.paidBy].network \in
               {None, Resolve(o.phone, o.currency, o.country, None).network}

LEMMA MethodIsChecked ==
    ASSUME NEW p \in Procs, NEW o \in OrderDocs, o.paidBy \in DOMAIN PayerMethods,
           ~RefusesPhone(o, PayerMethods[o.paidBy]),
           NEW country,
           country = IF PayerMethods[o.paidBy].country # None
                     THEN PayerMethods[o.paidBy].country ELSE o.country,
           o.currency \in DirectCurrencies,
           Resolve(o.phone, o.currency, country, None).error = None
    PROVE  PayerMethods[o.paidBy].network \in
               {None, Resolve(o.phone, o.currency, country, None).network}
<1> DEFINE method == PayerMethods[o.paidBy]
<1>1. o.phone \in Phones
  BY DEF OrderDocs
<1>2. Resolve(o.phone, o.currency, method.country, None)
        = Resolve(o.phone, o.currency, country, None)
  <2>1. CASE method.country # None
    BY <2>1
  <2>2. CASE method.country = None
    BY <1>1, <2>2, HintsAgree
  <2> QED
    BY <2>1, <2>2
<1> QED
  BY <1>2 DEF RefusesPhone

Charging == {"direct", "create", "charge"}

(* What OwnerIsCharged says of one payment.                                *)
Owned(p) ==
    Sent(p) /\ charge[p].country \in Countries =>
        /\ Resolve(charge[p].msisdn, order[p].currency, None, charge[p].network) = charge[p]
        /\ OwnersOf(charge[p].country, charge[p].msisdn.second) \subseteq {charge[p].network}
        /\ order[p].flow = "transfer" =>
               PayerMethods[order[p].paidBy].network \in {None, charge[p].network}

OwnerState(p) ==
    /\ order[p].phone \in Phones
    /\ order[p] = NoOrderYet => ~Sent(p)
    /\ pc[p] \in Charging /\ order[p].flow = "transfer" => MethodFits(order[p])
    /\ Owned(p)

OwnerMaps == DOMAIN pc = Procs /\ DOMAIN order = Procs /\ DOMAIN charge = Procs

OwnerInv == OwnerMaps /\ \A p \in Procs : OwnerState(p)

LEMMA OwnerStart == PayinRouteInit => OwnerInv
<1> SUFFICES ASSUME PayinRouteInit PROVE OwnerInv
  OBVIOUS
<1>1. OwnerMaps
  BY DEF PayinRouteInit, RequestsInit, OwnerMaps
<1>2. NoOrderYet.phone \in Phones
  BY DEF NoOrderYet, NoPhone, Phones
<1>3. ASSUME NEW p \in Procs PROVE OwnerState(p)
  <2>1. pc[p] = "idle" /\ order[p] = NoOrderYet /\ charge[p] = Unresolved(None)
    BY DEF PayinRouteInit, RequestsInit
  <2>2. ~Sent(p)
    BY <2>1 DEF Sent, Unresolved
  <2> QED
    BY <1>2, <2>1, <2>2 DEF OwnerState, Owned, Charging
<1> QED
  BY <1>1, <1>3 DEF OwnerInv

(* A step of p leaves what concerns the payments of the others.            *)
LEMMA OthersAreOwned ==
    ASSUME OwnerInv, OwnerMaps', NEW p \in Procs, OwnerState(p)',
           \A q \in Procs \ {p} :
               pc'[q] = pc[q] /\ order'[q] = order[q] /\ charge'[q] = charge[q]
    PROVE  OwnerInv'
<1> SUFFICES ASSUME NEW q \in Procs, q # p PROVE OwnerState(q)'
  BY DEF OwnerInv
<1>1. OwnerState(q)
  BY DEF OwnerInv
<1>2. pc'[q] = pc[q] /\ order'[q] = order[q] /\ charge'[q] = charge[q]
  OBVIOUS
<1>3. Sent(q)' = Sent(q)
  BY <1>2 DEF Sent
<1>4. Owned(q)'
  BY <1>1, <1>2, <1>3 DEF OwnerState, Owned
<1> QED
  BY <1>1, <1>2, <1>3, <1>4 DEF OwnerState

(* A step that neither takes an order nor charges.                         *)
LEMMA OwnerAside ==
    ASSUME OwnerInv, NEW p \in Procs, NEW label, pc' = [pc EXCEPT ![p] = label],
           UNCHANGED <<order, charge>>, pc[p] \in Charging \/ label \notin Charging
    PROVE  OwnerInv'
<1>1. OwnerMaps'
  BY DEF OwnerInv, OwnerMaps
<1>2. OwnerState(p)
  BY DEF OwnerInv
<1>3. pc'[p] = label /\ Sent(p)' = Sent(p)
  BY DEF OwnerInv, OwnerMaps, Sent
<1>4. Owned(p)'
  BY <1>2, <1>3 DEF OwnerState, Owned
<1>5. OwnerState(p)'
  BY <1>2, <1>3, <1>4 DEF OwnerState
<1>6. \A q \in Procs \ {p} : pc'[q] = pc[q]
  BY DEF OwnerInv, OwnerMaps
<1> QED
  BY <1>1, <1>5, <1>6, OthersAreOwned

(* An order is taken, and one of a transfer goes to a charge only if the   *)
(* number fits the method.                                                 *)
LEMMA OwnerAsks ==
    ASSUME OwnerInv, NEW p \in Procs, NEW o, NEW label, order[p] = NoOrderYet,
           order' = [order EXCEPT ![p] = o], pc' = [pc EXCEPT ![p] = label], UNCHANGED charge,
           o.phone \in Phones, label \in Charging /\ o.flow = "transfer" => MethodFits(o)
    PROVE  OwnerInv'
<1>1. OwnerMaps'
  BY DEF OwnerInv, OwnerMaps
<1>2. ~Sent(p)
  BY DEF OwnerInv, OwnerState
<1>3. pc'[p] = label /\ order'[p] = o /\ ~Sent(p)'
  BY <1>2 DEF OwnerInv, OwnerMaps, Sent
<1>4. OwnerState(p)'
  BY <1>3 DEF OwnerState, Owned
<1>5. \A q \in Procs \ {p} : pc'[q] = pc[q] /\ order'[q] = order[q]
  BY DEF OwnerInv, OwnerMaps
<1> QED
  BY <1>1, <1>4, <1>5, OthersAreOwned

LEMMA ChargeIsOwned ==
    ASSUME OwnerInv, NEW p \in Procs, pc[p] = "charge",
           charge' = [charge EXCEPT ![p] = Built(p)], pc' = [pc EXCEPT ![p] = "idle"],
           UNCHANGED order
    PROVE  OwnerInv'
<1> DEFINE o == order[p]
           c == Built(p)
<1>1. OwnerMaps'
  BY DEF OwnerInv, OwnerMaps
<1>2. OwnerState(p)
  BY DEF OwnerInv
<1>3. pc'[p] = "idle" /\ charge'[p] = c /\ order'[p] = o
  BY DEF OwnerInv, OwnerMaps
<1>4. ASSUME c.error = None, c.country # None
      PROVE  \/ c.country = "KE" /\ ~(o.phone.length < 5)
             \/ /\ o.currency \in DirectCurrencies
                /\ c = Resolve(o.phone, o.currency, o.country, o.network)
  BY <1>4 DEF Built, BuildLegacy, BuildCharge, Unresolved, None
<1>5. ASSUME c.error = None, c.country # None PROVE o # NoOrderYet
  <2>1. NoOrderYet.phone.length = 0
    BY DEF NoOrderYet, NoPhone
  <2>2. Resolve(o.phone, o.currency, o.country, o.network).error = None => ~(o.phone.length < 6)
    BY DEF Resolve, Unresolved, None
  <2> QED
    BY <1>4, <1>5, <2>1, <2>2
<1>6. ASSUME c.error = None, c.country \in Countries
      PROVE  /\ Resolve(c.msisdn, o.currency, None, c.network) = c
             /\ OwnersOf(c.country, c.msisdn.second) \subseteq {c.network}
             /\ o.flow = "transfer" => PayerMethods[o.paidBy].network \in {None, c.network}
  <2>1. c.country \notin {"KE", None}
    BY <1>6, CountriesAre DEF None
  <2>2. /\ o.currency \in DirectCurrencies
        /\ c = Resolve(o.phone, o.currency, o.country, o.network)
    BY <1>4, <1>6, <2>1
  <2>3. o.phone \in Phones /\ (o.flow = "transfer" => MethodFits(o))
    BY <1>2 DEF OwnerState, Charging
  <2> HIDE DEF o, c
  <2>4. Lands(o.phone, o.currency, o.country, o.network)
    BY <1>6, <2>2, <2>3, ResolvesInACountry
  <2>5. PICK country \in Countries, first \in 0..999, length \in Int :
          c = ResolveIn(country, first, length, o.currency, o.network)
    BY ZenonT(60), <2>2, <2>4 DEF Lands
  <2>6. /\ Resolve(c.msisdn, o.currency, None, c.network) = c
        /\ OwnersOf(country, first) \subseteq {c.network}
    <3>1. RoundTrip(c, country, first, length, o.currency, o.network)
      BY ZenonT(60), <1>6, <2>2, <2>5, ResolvesAgain
    <3> QED
      BY <3>1 DEF RoundTrip
  <2>7. c.country = country /\ c.msisdn.second = first
    <3>1. FoundIn(c, country, first, length, o.currency, o.network)
      BY <1>6, <2>5, ResolvedIn
    <3> QED
      BY <3>1 DEF FoundIn
  <2>8. o.flow = "transfer" => PayerMethods[o.paidBy].network \in {None, c.network}
    BY <1>6, <2>2, <2>3 DEF MethodFits
  <2> QED
    BY <2>6, <2>7, <2>8
<1>7. Sent(p)' <=> (c.error = None /\ c.country # None)
  BY <1>3 DEF Sent
<1> HIDE DEF o, c
<1>8. Owned(p)'
  BY <1>3, <1>6, <1>7 DEF Owned
<1>9. OwnerState(p)'
  BY <1>2, <1>3, <1>5, <1>7, <1>8 DEF OwnerState, Charging, o
<1>10. \A q \in Procs \ {p} : pc'[q] = pc[q] /\ charge'[q] = charge[q]
  BY DEF OwnerInv, OwnerMaps
<1> QED
  BY <1>1, <1>9, <1>10, OthersAreOwned

LEMMA AskIsOwned == ASSUME OwnerInv, NEW p \in Procs, Ask(p) PROVE OwnerInv'
<1> USE DEF Return, JumpWith, Jump
<1>1. order[p] = NoOrderYet /\ pc[p] = "idle" /\ UNCHANGED charge
  BY DEF Ask, ElsewhereSame
<1>2. PICK o \in Orders :
        \/ o.flow = "transfer" /\ AskTransfer(p, o)
        \/ o.flow = "invoice" /\ AskInvoice(p, o)
        \/ o.flow = "direct" /\ AskDirect(p, o)
        \/ o.flow = "api" /\ (AskApiPage(p, o) \/ AskApiCharge(p, o))
  BY DEF Ask
<1>3. o \in OrderDocs /\ o.phone \in Phones
  BY PayinRouteAssumption DEF OrderDocs
<1>4. CASE o.flow = "transfer" /\ AskTransfer(p, o)
  <2> DEFINE method == PayerMethods[o.paidBy]
             country == IF method.country # None THEN method.country ELSE o.country
             mine == IF o.paidBy = None THEN o
                     ELSE [o EXCEPT !.gateway = IF method.gateway # None THEN method.gateway ELSE @,
                                    !.country = IF method.country # None THEN method.country ELSE @,
                                    !.network = None]
  <2>1. /\ order' = [order EXCEPT ![p] = mine]
        /\ IF o.paidBy = None \/ method.type = "card" \/ o.phone = NoPhone THEN Jump(p, "hosted")
           ELSE IF RefusesPhone(o, method) THEN Return(p) ELSE Jump(p, "direct")
    BY <1>4, Zenon DEF AskTransfer
  <2>2. mine.phone = o.phone /\ mine.currency = o.currency /\ mine.paidBy = o.paidBy
    BY <1>3 DEF OrderDocs
  <2>3. o.paidBy # None => mine.network = None /\ mine.country = country
    BY <1>3 DEF OrderDocs
  <2>4. PICK label \in {"hosted", "idle", "direct"} :
          /\ pc' = [pc EXCEPT ![p] = label]
          /\ label = "direct" => o.paidBy # None /\ ~RefusesPhone(o, method)
    BY <2>1
  <2> HIDE DEF mine
  <2>5. ASSUME label = "direct" PROVE MethodFits(mine)
    <3>1. o.paidBy \in DOMAIN PayerMethods
      BY <1>4, <2>4, <2>5, PayinRouteAssumption
    <3>2. ASSUME o.currency \in DirectCurrencies,
                 Resolve(o.phone, o.currency, country, None).error = None
          PROVE  method.network \in {None, Resolve(o.phone, o.currency, country, None).network}
      BY <1>3, <2>4, <2>5, <3>1, <3>2, MethodIsChecked
    <3> QED
      BY <2>2, <2>3, <2>4, <2>5, <3>2 DEF MethodFits
  <2>6. label \in Charging => label = "direct"
    BY <2>4 DEF Charging
  <2> HIDE DEF method, country
  <2> QED
    BY <1>1, <1>3, <2>1, <2>2, <2>4, <2>5, <2>6, OwnerAsks
<1>5. CASE o.flow = "invoice" /\ AskInvoice(p, o)
  BY <1>1, <1>3, <1>5, OwnerAsks DEF AskInvoice
<1>6. CASE o.flow = "direct" /\ AskDirect(p, o)
  BY <1>1, <1>3, <1>6, OwnerAsks DEF AskDirect
<1>7. CASE o.flow = "api" /\ AskApiPage(p, o)
  BY <1>1, <1>3, <1>7, OwnerAsks DEF AskApiPage
<1>8. CASE o.flow = "api" /\ AskApiCharge(p, o)
  <2> DEFINE mine == IF o.paidBy = None THEN o ELSE [o EXCEPT !.network = o.paidBy]
  <2>1. mine.phone = o.phone /\ mine.flow = "api"
    BY <1>3, <1>8 DEF OrderDocs
  <2>2. order' = [order EXCEPT ![p] = mine] /\ pc' = [pc EXCEPT ![p] = "create"]
    BY <1>8 DEF AskApiCharge
  <2> HIDE DEF mine
  <2> QED
    BY <1>1, <1>3, <2>1, <2>2, OwnerAsks
<1> QED
  BY <1>2, <1>4, <1>5, <1>6, <1>7, <1>8

LEMMA OwnerStep == RouteInv /\ OwnerInv /\ [PayinRouteNext]_routeVars => OwnerInv'
<1> SUFFICES ASSUME RouteInv, OwnerInv, [PayinRouteNext]_routeVars PROVE OwnerInv'
  OBVIOUS
<1> USE DEF Jump, JumpWith, Return, FaultyReturn, FaultyJump, ElsewhereSame
<1>1. CASE UNCHANGED routeVars
  BY <1>1 DEF routeVars, reqVars, routeOnly, OwnerInv, OwnerMaps, OwnerState, Owned, Sent
<1>2. ASSUME NEW p \in Procs, Ask(p) PROVE OwnerInv'
  BY <1>2, AskIsOwned
<1>3. ASSUME NEW p \in Procs, Prepare(p) \/ CreateDirect(p) PROVE OwnerInv'
  <2>1. PICK label : pc' = [pc EXCEPT ![p] = label]
    BY <1>3 DEF Prepare, CreateDirect
  <2>2. pc[p] \in Charging /\ UNCHANGED <<order, charge>>
    BY <1>3 DEF Prepare, CreateDirect, Charging
  <2> QED
    BY <2>1, <2>2, OwnerAside
<1>4. ASSUME NEW p \in Procs, ChargeDirect(p) \/ LoseCharge(p) PROVE OwnerInv'
  BY <1>4, ChargeIsOwned DEF ChargeDirect, LoseCharge, AfterError
<1>5. ASSUME NEW p \in Procs, FallBack(p) PROVE OwnerInv'
  <2>1. PICK label \in {"hosted", "idle"} : pc' = [pc EXCEPT ![p] = label]
    BY <1>5 DEF FallBack
  <2> QED
    BY <1>5, <2>1, OwnerAside DEF FallBack, Charging
<1>6. ASSUME NEW p \in Procs, LoadCredentials(p) \/ LoadPaystackKeys(p) PROVE OwnerInv'
  <2>1. pc[p] \in {"hosted", "paystack"} /\ UNCHANGED <<order, charge>>
    BY <1>6 DEF LoadCredentials, LoadPaystackKeys
  <2>2. HostOf(order[p]) \in GatewayTypes
    <3>1. order[p].gateway \in DOMAIN Gateways \cup {None}
      BY <2>1 DEF RouteInv, AtWork
    <3> QED
      BY <3>1, PayinRouteAssumption DEF HostOf, GatewayDocs, GatewayTypes
  <2>3. LinkOf[HostOf(order[p])] \notin Charging
    BY <2>2, LinkLabels DEF GatewayTypes, Charging
  <2>4. PICK label \in {"paystack", "idle", LinkOf[HostOf(order[p])], LinkOf["paystack"]} :
          pc' = [pc EXCEPT ![p] = label]
    BY <1>6, LinkLabels DEF LoadCredentials, LoadPaystackKeys
  <2>5. label \notin Charging
    BY <2>3, <2>4, LinkLabels DEF Charging
  <2> QED
    BY <2>1, <2>4, <2>5, OwnerAside
<1>7. ASSUME NEW p \in Procs,
             MakeLink(p) \/ MakePaystackLink(p) \/ PushMpesa(p) \/ FailToMakeLink(p)
      PROVE  OwnerInv'
  <2>1. pc' = [pc EXCEPT ![p] = "idle"] /\ UNCHANGED <<order, charge>>
    BY <1>7 DEF MakeLink, MakePaystackLink, PushMpesa, Offer, FailToMakeLink
  <2> QED
    BY <2>1, OwnerAside DEF Charging
<1> QED
  BY <1>1, <1>2, <1>3, <1>4, <1>5, <1>6, <1>7 DEF PayinRouteNext

(* The operator that is charged is the one that the number belongs to, for *)
(* any orders and methods: a dial code is no operator's prefix, an operator*)
(* owns its prefixes alone, and a country has one currency, so that the    *)
(* international form of a number resolves as the number did.              *)
THEOREM OwnerPays == PayinRouteSpec => []OwnerIsCharged
<1>1. OwnerInv => OwnerIsCharged
  BY DEF OwnerInv, OwnerState, Owned, OwnerIsCharged
<1> QED
  BY <1>1, RouteStart, RouteStep, OwnerStart, OwnerStep, PTL DEF PayinRouteSpec

----
(* The periods that a subscription was paid for.                           *)
Undisturbed == AutomaticOnly /\ ~together /\ ~outdated

SubDocs == [start : Int, end : Int, quantity : Int, on : BOOLEAN, gone : BOOLEAN]
SoldPeriods == [sub : {1}, by : Payments, from : Int, to : Int]
Frames == [subject : Payments \cup {"look", "cron"}, sub : Nat, from : Int, quantity : Int,
           on : BOOLEAN, todo : SUBSET Nat]

(* Where a payment's handler has not sold yet, and where it works on the   *)
(* subscription.                                                           *)
Unsold == {"verify", "lapse", "create", "count", "item", "read", "sell"}
AtSub == {"count", "item", "read", "sell", "upgrade"}

Until(p) == stack[p].from + Amount(By(p))
NewPeriod(p) == [sub |-> Sub(p), by |-> By(p), from |-> stack[p].from, to |-> Until(p)]

(* One who is about to switch the subscription off has seen that it has    *)
(* run out; nothing has prolonged it since.                                *)
FrameIsExpired(p) ==
    /\ pc[p] = "lapse" => Sub(p) \in DOMAIN subs /\ subs[Sub(p)].end < now
    /\ pc[p] = "cron" =>
        /\ By(p) = "cron"
        /\ stack[p].todo # {} /\ stack[p].todo \subseteq DOMAIN subs
        /\ \A i \in stack[p].todo : subs[i].end < now

(* One who sells finds the subscription as it was when it was read.        *)
FrameIsPaid(p) ==
    /\ pc[p] \in {"verify", "lapse", "create"} /\ Paying(p) =>
        stack[p].quantity = Amount(By(p)) /\ stack[p].on
    /\ pc[p] \in AtSub \cup {"create"} => Paying(p)
    /\ pc[p] = "create" => DOMAIN subs = {}
    /\ pc[p] \in AtSub => Sub(p) = 1 /\ DOMAIN subs = {1}
    /\ pc[p] \in {"count", "item"} => items = {} /\ subs[1].end = Until(p)
    /\ pc[p] \in {"sell", "upgrade"} =>
        subs[1].end <= stack[p].from /\ (stack[p].on \/ Until(p) <= now)
    /\ pc[p] = "upgrade" => NewPeriod(p) \in items

FrameIsRight(p) ==
    /\ pc[p] \in AtSub \cup {"idle", "verify", "lapse", "create", "cron"}
    /\ pc[p] # "idle" => stack[p] \in Frames
    /\ FrameIsExpired(p) /\ FrameIsPaid(p)

(* Every period lies before the end, or is about to.                       *)
Lasts(x) == x.to <= subs[1].end \/ \E p \in Procs : pc[p] = "upgrade" /\ x = NewPeriod(p)

SoldOrWillBe(t) ==
    \/ \E x \in items : x.by = t
    \/ \E p \in Procs : pc[p] \in Unsold /\ By(p) = t

SubDocsRight ==
    /\ subs \in Seq(SubDocs) /\ DOMAIN subs \in {{}, {1}}
    /\ \A i \in DOMAIN subs : ~subs[i].gone /\ (subs[i].on \/ subs[i].end <= now)

Apart(x, y) == x = y \/ x.to <= y.from \/ y.to <= x.from

SubState ==
    /\ now \in Int /\ DOMAIN pc = Procs /\ DOMAIN stack = Procs
    /\ SubDocsRight
    /\ \A p \in Procs : FrameIsRight(p)
    /\ \A p, q \in Procs : Selling(p) /\ Selling(q) => p = q
    /\ items \subseteq SoldPeriods
    /\ \A x \in items : DOMAIN subs = {1} /\ Lasts(x)
    /\ \A x, y \in items : Apart(x, y)
    /\ paidFor \subseteq Payments /\ \A t \in paidFor : SoldOrWillBe(t)

SubInv ==
    /\ faults \in [Faults -> Nat] /\ byHand \in Nat
    /\ Undisturbed => SubState

LEMMA SubStart == SubscriptionInit => SubInv
<1> SUFFICES ASSUME SubscriptionInit PROVE SubInv
  OBVIOUS
<1> USE DEF SubscriptionInit, RequestsInit
<1>1. faults \in [Faults -> Nat] /\ byHand \in Nat
  OBVIOUS
<1>2. SubDocsRight
  <2>1. subs \in Seq(SubDocs) /\ DOMAIN subs = {}
    OBVIOUS
  <2> QED
    BY <2>1 DEF SubDocsRight
<1>3. ASSUME NEW p \in Procs PROVE FrameIsRight(p) /\ ~Selling(p)
  <2>1. pc[p] = "idle"
    OBVIOUS
  <2> QED
    BY <2>1 DEF FrameIsRight, FrameIsExpired, FrameIsPaid, Selling, AtSub
<1>4. items = {} /\ paidFor = {} /\ now \in Int /\ DOMAIN pc = Procs /\ DOMAIN stack = Procs
  OBVIOUS
<1>5. SubState
  BY <1>2, <1>3, <1>4 DEF SubState
<1> QED
  BY <1>1, <1>5 DEF SubInv

LEMMA DocsAre ==
    ASSUME subs \in Seq(SubDocs), NEW i \in DOMAIN subs
    PROVE  subs[i] \in SubDocs /\ subs[i].end \in Int /\ subs[i].start \in Int
<1>1. DOMAIN subs = 1..Len(subs)
  OBVIOUS
<1>2. subs[i] \in SubDocs
  BY <1>1
<1> QED
  BY <1>2 DEF SubDocs

(* A step of p leaves the other handlers where they are.                   *)
Moves(p) ==
    /\ DOMAIN pc' = Procs /\ DOMAIN stack' = Procs
    /\ \A q \in Procs \ {p} : pc'[q] = pc[q] /\ stack'[q] = stack[q]

(* The frame of who sells nothing depends on the end of the subscription   *)
(* only.                                                                   *)
LEMMA ExpiredStays ==
    ASSUME SubState, NEW q \in Procs, pc'[q] = pc[q], stack'[q] = stack[q],
           now' \in Int, now <= now', DOMAIN subs \subseteq DOMAIN subs',
           subs \in Seq(SubDocs),
           \A i \in DOMAIN subs : subs'[i].end = subs[i].end
    PROVE  FrameIsExpired(q)'
<1>1. FrameIsRight(q) /\ now \in Int
  BY DEF SubState
<1>2. \A i \in DOMAIN subs : subs[i].end \in Int
  BY DocsAre
<1>3. Sub(q)' = Sub(q) /\ By(q)' = By(q)
  BY DEF Sub, By
<1>4. CASE pc[q] = "lapse"
  <2>1. Sub(q) \in DOMAIN subs /\ subs[Sub(q)].end < now
    BY <1>1, <1>4 DEF FrameIsRight, FrameIsExpired
  <2> QED
    BY <1>1, <1>2, <1>3, <1>4, <2>1 DEF FrameIsExpired
<1>5. CASE pc[q] = "cron"
  <2>1. /\ By(q) = "cron"
        /\ stack[q].todo # {} /\ stack[q].todo \subseteq DOMAIN subs
        /\ \A i \in stack[q].todo : subs[i].end < now
    BY <1>1, <1>5 DEF FrameIsRight, FrameIsExpired
  <2> QED
    BY <1>1, <1>2, <1>3, <1>5, <2>1 DEF FrameIsExpired
<1> QED
  BY <1>4, <1>5 DEF FrameIsExpired

(* The frame of who sells depends on the items too.                        *)
LEMMA PaidStays ==
    ASSUME SubState, NEW q \in Procs, pc'[q] = pc[q], stack'[q] = stack[q],
           now' \in Int, now <= now', DOMAIN subs' = DOMAIN subs,
           \A i \in DOMAIN subs : subs'[i].end = subs[i].end, items' = items
    PROVE  FrameIsPaid(q)'
<1>1. FrameIsRight(q) /\ now \in Int
  BY DEF SubState
<1>2. /\ Sub(q)' = Sub(q) /\ By(q)' = By(q) /\ Until(q)' = Until(q)
      /\ Paying(q)' = Paying(q) /\ NewPeriod(q)' = NewPeriod(q)
  BY DEF Sub, By, Until, Paying, NewPeriod
<1>3. FrameIsPaid(q)
  BY <1>1 DEF FrameIsRight
<1>4. pc[q] \in AtSub => subs'[1].end = subs[1].end
  BY <1>3 DEF FrameIsPaid
<1>5. pc[q] \in {"sell", "upgrade"} => stack[q] \in Frames /\ Until(q) \in Int
  BY <1>1, <1>3, SubscriptionAssumption
     DEF FrameIsRight, FrameIsPaid, AtSub, Frames, Until, Paying, By
<1>6. pc[q] \in AtSub \cup {"create"} => Paying(q)
  BY <1>3 DEF FrameIsPaid
<1>7. pc[q] = "create" => DOMAIN subs = {}
  BY <1>3 DEF FrameIsPaid
<1>8. pc[q] \in AtSub => Sub(q) = 1 /\ DOMAIN subs = {1}
  BY <1>3 DEF FrameIsPaid
<1>9. pc[q] \in {"count", "item"} => items = {} /\ subs'[1].end = Until(q)
  BY <1>3, <1>4 DEF FrameIsPaid, AtSub
<1>10. pc[q] \in {"sell", "upgrade"} =>
         subs'[1].end <= stack[q].from /\ (stack[q].on \/ Until(q) <= now')
  BY <1>1, <1>3, <1>4, <1>5 DEF FrameIsPaid, AtSub
<1>11. pc[q] = "upgrade" => NewPeriod(q) \in items
  BY <1>3 DEF FrameIsPaid
<1>12. pc[q] \in {"verify", "lapse", "create"} /\ Paying(q) =>
         stack[q].quantity = Amount(By(q)) /\ stack[q].on
  BY <1>3 DEF FrameIsPaid
<1> QED
  BY <1>2, <1>6, <1>7, <1>12, <1>8, <1>9, <1>10, <1>11 DEF FrameIsPaid

LEMMA SellersPay ==
    ASSUME SubState, NEW q \in Procs, pc[q] \in AtSub \cup {"create"}
    PROVE  Selling(q) /\ Paying(q)
BY DEF SubState, FrameIsRight, FrameIsPaid, Selling, AtSub

(* While p sells, nobody else does, and the frames of the others stay.     *)
LEMMA OthersWait ==
    ASSUME SubState, NEW p \in Procs, Moves(p), Selling(p), NEW q \in Procs, q # p,
           FrameIsExpired(q)'
    PROVE  FrameIsRight(q)' /\ ~Selling(q)' /\ pc'[q] = pc[q] /\ By(q)' = By(q)
           /\ pc[q] # "upgrade" /\ ~(pc[q] \in Unsold /\ Paying(q))
<1>1. FrameIsRight(q) /\ ~Selling(q)
  BY DEF SubState
<1>2. pc'[q] = pc[q] /\ stack'[q] = stack[q]
  BY DEF Moves
<1>3. By(q)' = By(q) /\ Selling(q)' = Selling(q)
  BY <1>2 DEF By, Selling, Paying
<1>4. pc[q] \notin AtSub \cup {"create"}
  BY <1>1, SellersPay
<1>5. FrameIsPaid(q)'
  BY <1>1, <1>2, <1>3, <1>4 DEF FrameIsPaid, AtSub, Selling, Paying
<1>6. FrameIsRight(q)'
  BY <1>1, <1>2, <1>5 DEF FrameIsRight
<1> QED
  BY <1>1, <1>2, <1>3, <1>4, <1>6 DEF AtSub, Unsold, Selling

(* A step of p that leaves the ends and the items.                         *)
LEMMA SubAside ==
    ASSUME SubState, NEW p \in Procs, Moves(p), now' = now, items' = items,
           SubDocsRight', DOMAIN subs' = DOMAIN subs,
           \A i \in DOMAIN subs : subs'[i].end = subs[i].end,
           FrameIsRight(p)', pc[p] # "upgrade",
           Selling(p)' => Selling(p) \/ \A q \in Procs : ~Selling(q),
           paidFor' \subseteq Payments,
           \A t \in paidFor' : t \in paidFor \/ (pc'[p] \in Unsold /\ By(p)' = t),
           Paying(p) /\ pc[p] \in Unsold => pc'[p] \in Unsold /\ By(p)' = By(p)
    PROVE  SubState'
<1>1. now' \in Int /\ DOMAIN pc' = Procs /\ DOMAIN stack' = Procs
  BY DEF SubState, Moves
<1>2. ASSUME NEW q \in Procs, q # p
      PROVE  /\ FrameIsRight(q)' /\ Selling(q)' = Selling(q) /\ pc'[q] = pc[q]
             /\ By(q)' = By(q) /\ NewPeriod(q)' = NewPeriod(q)
  <2>1. pc'[q] = pc[q] /\ stack'[q] = stack[q]
    BY <1>2 DEF Moves
  <2>2. now \in Int /\ now <= now' /\ subs \in Seq(SubDocs) /\ FrameIsRight(q)
    BY DEF SubState, SubDocsRight
  <2>3. FrameIsExpired(q)'
    BY <2>1, <2>2, ExpiredStays
  <2>4. FrameIsPaid(q)'
    BY <2>1, <2>2, PaidStays
  <2> QED
    BY <2>1, <2>2, <2>3, <2>4
       DEF FrameIsRight, Selling, Paying, By, NewPeriod, Sub, Until
<1>3. \A q \in Procs : FrameIsRight(q)'
  BY <1>2
<1>4. ASSUME NEW q \in Procs, NEW r \in Procs, Selling(q)', Selling(r)' PROVE q = r
  BY <1>2, <1>4 DEF SubState
<1>5. ASSUME NEW x \in items PROVE DOMAIN subs' = {1} /\ Lasts(x)'
  <2>1. DOMAIN subs = {1} /\ Lasts(x)
    BY DEF SubState
  <2>2. CASE x.to <= subs[1].end
    BY <2>1, <2>2 DEF Lasts
  <2>3. CASE \E q \in Procs : pc[q] = "upgrade" /\ x = NewPeriod(q)
    BY <1>2, <2>1, <2>3 DEF Lasts
  <2> QED
    BY <2>1, <2>2, <2>3 DEF Lasts
<1>6. ASSUME NEW t \in paidFor' PROVE SoldOrWillBe(t)'
  <2>1. CASE pc'[p] \in Unsold /\ By(p)' = t
    BY <2>1 DEF SoldOrWillBe
  <2>2. CASE t \in paidFor
    <3>1. SoldOrWillBe(t) /\ t \in Payments
      BY <2>2 DEF SubState
    <3>2. CASE \E x \in items : x.by = t
      BY <3>2 DEF SoldOrWillBe
    <3>3. ASSUME NEW q \in Procs, pc[q] \in Unsold, By(q) = t PROVE SoldOrWillBe(t)'
      <4>1. CASE q = p
        BY <3>1, <3>3, <4>1 DEF SoldOrWillBe, Paying
      <4>2. CASE q # p
        BY <1>2, <3>3, <4>2 DEF SoldOrWillBe
      <4> QED
        BY <4>1, <4>2
    <3> QED
      BY <3>1, <3>2, <3>3 DEF SoldOrWillBe
  <2> QED
    BY <2>1, <2>2
<1>7. items \subseteq SoldPeriods /\ \A x, y \in items : Apart(x, y)
  BY DEF SubState
<1>8. items' \subseteq SoldPeriods /\ \A x, y \in items' : Apart(x, y)'
  BY <1>7 DEF Apart
<1> QED
  BY <1>1, <1>3, <1>4, <1>5, <1>6, <1>8 DEF SubState

LEMMA FoundIs ==
    ASSUME SubDocsRight
    PROVE  /\ Live = DOMAIN subs /\ Min({1}) = 1
           /\ Found = IF DOMAIN subs = {} THEN 0 ELSE 1
<1>1. Live = DOMAIN subs
  BY DEF Live, SubDocsRight
<1>2. Min({1}) = 1
  BY DEF Min
<1>3. DOMAIN subs = {} \/ DOMAIN subs = {1}
  BY DEF SubDocsRight
<1> QED
  BY <1>1, <1>2, <1>3 DEF Found

LEMMA FrameOf ==
    ASSUME SubState, NEW p \in Procs, pc[p] # "idle"
    PROVE  /\ stack[p] \in Frames /\ Sub(p) \in Nat /\ stack[p].from \in Int
           /\ By(p) \notin {"none", "add", "toggle", "renew"}
           /\ Paying(p) => /\ By(p) \notin {"look", "cron"} /\ Selling(p)
                           /\ Amount(By(p)) \in Nat \ {0} /\ Until(p) \in Int
<1>1. stack[p] \in Frames
  BY DEF SubState, FrameIsRight
<1>2. Sub(p) \in Nat /\ stack[p].from \in Int /\ By(p) \in Payments \cup {"look", "cron"}
  BY <1>1 DEF Frames, Sub, By
<1> QED
  BY <1>1, <1>2, SubscriptionAssumption DEF Paying, Selling, Until

LEMMA SubsAre ==
    ASSUME subs \in Seq(SubDocs)
    PROVE  /\ DOMAIN subs = 1..Len(subs) /\ Len(subs) \in Nat
           /\ subs \in [1..Len(subs) -> SubDocs]
OBVIOUS

(* One that has run out is switched off.                                   *)
LEMMA SwitchedOff ==
    ASSUME SubState, NEW i \in DOMAIN subs, subs[i].end < now, now' = now,
           WriteSub(i, [subs[i] EXCEPT !.on = FALSE])
    PROVE  /\ SubDocsRight' /\ DOMAIN subs' = DOMAIN subs
           /\ \A j \in DOMAIN subs : subs'[j].end = subs[j].end
<1>1. subs \in Seq(SubDocs) /\ DOMAIN subs = {1} /\ i = 1 /\ now \in Int
  BY DEF SubState, SubDocsRight
<1>2. subs[1] \in SubDocs /\ subs[1].end \in Int /\ ~subs[1].gone
  BY <1>1, DocsAre DEF SubState, SubDocsRight
<1> DEFINE doc == [subs[1] EXCEPT !.on = FALSE]
<1>3. doc \in SubDocs /\ doc.end = subs[1].end /\ doc.gone = subs[1].gone
  BY <1>2 DEF SubDocs
<1> HIDE DEF doc
<1>4. subs' = [subs EXCEPT ![1] = doc]
  BY <1>1 DEF WriteSub, doc
<1>5. subs' \in Seq(SubDocs) /\ DOMAIN subs' = {1} /\ subs'[1] = doc
  <2>1. DOMAIN subs = 1..Len(subs) /\ subs \in [1..Len(subs) -> SubDocs]
    BY <1>1, SubsAre
  <2>3. subs' \in [1..Len(subs) -> SubDocs] /\ DOMAIN subs' = DOMAIN subs /\ subs'[1] = doc
    BY <1>1, <1>3, <1>4, <2>1
  <2> QED
    BY <1>1, <2>1, <2>3
<1>6. \A j \in DOMAIN subs' : ~subs'[j].gone /\ subs'[j].end <= now'
  BY <1>1, <1>2, <1>3, <1>5
<1> QED
  BY <1>1, <1>3, <1>5, <1>6 DEF SubDocsRight

LEMMA VerifiedKeeps ==
    ASSUME SubState, NEW p \in Procs, pc[p] \in {"verify", "lapse"},
           NEW i, i = IF DOMAIN subs = {} THEN 0 ELSE 1, Verified(p, i),
           now' = now, items' = items, paidFor' = paidFor,
           SubDocsRight', DOMAIN subs' = DOMAIN subs,
           \A j \in DOMAIN subs : subs'[j].end = subs[j].end
    PROVE  SubState'
<1> USE DEF Verified, Return, JumpWith, Jump
<1>1. /\ stack[p] \in Frames /\ By(p) # "add"
      /\ DOMAIN pc = Procs /\ DOMAIN stack = Procs
      /\ DOMAIN subs \in {{}, {1}} /\ paidFor \subseteq Payments
  BY FrameOf DEF SubState, SubDocsRight
<1>2. Moves(p)
  BY <1>1 DEF Moves
<1>3. CASE Paying(p)
  <2> DEFINE frame == [stack[p] EXCEPT !.sub = i]
  <2>1. /\ frame \in Frames /\ frame.subject = By(p) /\ frame.sub = i
        /\ frame.quantity = stack[p].quantity /\ frame.on = stack[p].on
    BY <1>1 DEF Frames, By
  <2>7. stack[p].quantity = Amount(By(p)) /\ stack[p].on
    BY <1>3 DEF SubState, FrameIsRight, FrameIsPaid
  <2>2. /\ pc' = [pc EXCEPT ![p] = IF i = 0 THEN "create" ELSE "read"]
        /\ stack' = [stack EXCEPT ![p] = frame]
    BY <1>3
  <2> HIDE DEF frame
  <2>3. /\ pc'[p] = IF i = 0 THEN "create" ELSE "read"
        /\ stack'[p] = frame
    BY <1>1, <2>2
  <2>4. By(p)' = By(p) /\ Sub(p)' = i /\ Paying(p)'
    BY <1>3, <2>1, <2>3 DEF By, Sub, Paying
  <2>5. FrameIsRight(p)'
    <3>1. stack'[p].quantity = Amount(By(p)') /\ stack'[p].on
      BY <2>1, <2>3, <2>4, <2>7
    <3>2. FrameIsPaid(p)'
      BY <1>1, <2>3, <2>4, <3>1 DEF FrameIsPaid, AtSub
    <3> QED
      BY <2>1, <2>3, <3>2 DEF FrameIsRight, FrameIsExpired, AtSub
  <2>6. Selling(p)
    BY <1>3 DEF Selling
  <2> QED
    BY <1>1, <1>2, <2>3, <2>4, <2>5, <2>6, SubAside DEF Unsold
<1>4. CASE ~Paying(p)
  <2>1. pc'[p] = "idle"
    BY <1>1, <1>4
  <2>2. FrameIsRight(p)' /\ ~Selling(p)'
    BY <2>1 DEF FrameIsRight, FrameIsExpired, FrameIsPaid, AtSub, Selling
  <2> QED
    BY <1>1, <1>2, <1>4, <2>2, SubAside
<1> QED
  BY <1>3, <1>4

LEMMA VerifyKeeps ==
    ASSUME SubState, NEW p \in Procs, Verify(p) PROVE SubState'
<1>1. /\ stack[p] \in Frames /\ pc[p] = "verify" /\ UNCHANGED subOnly
      /\ DOMAIN pc = Procs /\ DOMAIN stack = Procs
      /\ SubDocsRight /\ paidFor \subseteq Payments
  BY FrameOf DEF SubState, Verify
<1>2. /\ now' = now /\ items' = items /\ paidFor' = paidFor /\ subs' = subs
      /\ SubDocsRight'
  BY <1>1 DEF subOnly, SubDocsRight
<1>3. Found = IF DOMAIN subs = {} THEN 0 ELSE 1
  BY <1>1, FoundIs
<1>4. CASE Verified(p, Found)
  BY <1>1, <1>2, <1>3, <1>4, VerifiedKeeps
<1>5. CASE ~Verified(p, Found)
  <2>1. /\ Found # 0 /\ now > subs[Found].end
        /\ JumpWith(p, "lapse", [stack[p] EXCEPT !.sub = Found])
    BY <1>5 DEF Verify
  <2> DEFINE frame == [stack[p] EXCEPT !.sub = Found]
  <2>2. /\ frame \in Frames /\ frame.subject = By(p) /\ frame.sub = Found
        /\ frame.quantity = stack[p].quantity /\ frame.on = stack[p].on
        /\ Found = 1 /\ DOMAIN subs = {1}
    BY <1>1, <1>3, <2>1 DEF Frames, By, SubDocsRight
  <2>3. pc' = [pc EXCEPT ![p] = "lapse"] /\ stack' = [stack EXCEPT ![p] = frame]
    BY <2>1 DEF JumpWith
  <2> HIDE DEF frame
  <2>4. pc'[p] = "lapse" /\ stack'[p] = frame /\ Moves(p)
    BY <1>1, <2>3 DEF Moves
  <2>5. By(p)' = By(p) /\ Sub(p)' = 1
    BY <2>2, <2>4 DEF By, Sub
  <2>6. subs[1].end < now
    BY <1>1, <2>1, <2>2, DocsAre DEF SubDocsRight, SubState
  <2>9. Paying(p) => stack[p].quantity = Amount(By(p)) /\ stack[p].on
    BY <1>1 DEF SubState, FrameIsRight, FrameIsPaid
  <2>7. FrameIsRight(p)'
    BY <1>2, <2>2, <2>4, <2>5, <2>6, <2>9
       DEF Paying, FrameIsRight, FrameIsExpired, FrameIsPaid, AtSub
  <2>8. Selling(p)' => Selling(p)
    BY <1>1, <2>5 DEF Selling, Paying
  <2> QED
    BY <1>1, <1>2, <2>4, <2>5, <2>7, <2>8, SubAside DEF Unsold
<1> QED
  BY <1>4, <1>5

LEMMA LapseKeeps ==
    ASSUME SubState, NEW p \in Procs, Lapse(p) PROVE SubState'
<1>1. /\ pc[p] = "lapse" /\ WriteSub(Sub(p), [subs[Sub(p)] EXCEPT !.on = FALSE])
      /\ Verified(p, Sub(p)) /\ UNCHANGED <<now, items, paidFor>>
  BY DEF Lapse
<1>2. Sub(p) \in DOMAIN subs /\ subs[Sub(p)].end < now /\ DOMAIN subs \in {{}, {1}}
  BY <1>1 DEF SubState, SubDocsRight, FrameIsRight, FrameIsExpired
<1>3. Sub(p) = IF DOMAIN subs = {} THEN 0 ELSE 1
  BY <1>2
<1>4. /\ SubDocsRight' /\ DOMAIN subs' = DOMAIN subs
      /\ \A j \in DOMAIN subs : subs'[j].end = subs[j].end
  BY <1>1, <1>2, SwitchedOff
<1> QED
  BY <1>1, <1>3, <1>4, VerifiedKeeps

LEMMA ExpireKeeps ==
    ASSUME SubState, NEW p \in Procs, Expire(p) PROVE SubState'
<1>1. /\ pc[p] = "cron" /\ UNCHANGED <<now, items, paidFor>>
      /\ DOMAIN pc = Procs /\ DOMAIN stack = Procs /\ paidFor \subseteq Payments
  BY DEF Expire, SubState
<1>2. stack[p].todo = {1} /\ DOMAIN subs = {1} /\ subs[1].end < now /\ By(p) = "cron"
  BY <1>1 DEF SubState, SubDocsRight, FrameIsRight, FrameIsExpired
<1>3. Min({1}) = 1
  BY DEF Min
<1>4. WriteSub(1, [subs[1] EXCEPT !.on = FALSE]) /\ Return(p)
  BY <1>2, <1>3 DEF Expire
<1>5. /\ SubDocsRight' /\ DOMAIN subs' = DOMAIN subs
      /\ \A j \in DOMAIN subs : subs'[j].end = subs[j].end
  BY <1>1, <1>2, <1>4, SwitchedOff
<1>6. pc'[p] = "idle" /\ Moves(p)
  BY <1>1, <1>4 DEF Return, JumpWith, Moves
<1>7. FrameIsRight(p)' /\ ~Selling(p)'
  BY <1>6 DEF FrameIsRight, FrameIsExpired, FrameIsPaid, AtSub, Selling
<1> QED
  BY <1>1, <1>5, <1>6, <1>7, SubAside DEF Unsold

(* A request begins.                                                       *)
LEMMA BeginKeeps ==
    ASSUME SubState, NEW p \in Procs, NEW label \in {"verify", "cron"}, NEW frame \in Frames,
           Begin(p, label, frame), UNCHANGED <<now, subs, items>>,
           frame.subject \in Payments \/ paidFor' = paidFor,
           frame.subject \in Payments =>
               /\ label = "verify" /\ paidFor' = paidFor \cup {frame.subject}
               /\ \A q \in Procs : ~Selling(q),
           frame.subject # "add",
           frame.subject \in Payments => frame.quantity = Amount(frame.subject) /\ frame.on,
           label = "cron" =>
               /\ frame.subject = "cron"
               /\ frame.todo # {} /\ frame.todo \subseteq DOMAIN subs
               /\ \A i \in frame.todo : subs[i].end < now
    PROVE  SubState'
<1>1. /\ pc[p] = "idle" /\ Moves(p) /\ pc'[p] = label /\ stack'[p] = frame
      /\ By(p)' = frame.subject /\ paidFor \subseteq Payments
  BY DEF Begin, SubState, Moves, By
<1>2. SubDocsRight'
  BY DEF SubState, SubDocsRight
<1>3. FrameIsRight(p)'
  BY <1>1 DEF FrameIsRight, FrameIsExpired, FrameIsPaid, AtSub, Paying
<1>4. Selling(p)' => \A q \in Procs : ~Selling(q)
  BY <1>1 DEF Selling, Paying
<1>5. /\ paidFor' \subseteq Payments
      /\ \A t \in paidFor' : t \in paidFor \/ (pc'[p] \in Unsold /\ By(p)' = t)
  BY <1>1 DEF Unsold
<1> QED
  BY <1>1, <1>2, <1>3, <1>4, <1>5, SubAside DEF Unsold

LEMMA StartsKeep ==
    ASSUME SubState, NEW p \in Procs, ~together',
           \/ \E t \in Payments, c \in 0..MaxTime : StartPaid(p, t, c)
           \/ StartLook(p) \/ StartCron(p)
    PROVE  SubState'
<1>1. CASE \E t \in Payments, c \in 0..MaxTime : StartPaid(p, t, c)
  <2>1. PICK t \in Payments, c \in 0..MaxTime : StartPaid(p, t, c)
    BY <1>1
  <2> DEFINE frame == SubFrame(t, c, Amount(t))
  <2>2. frame \in Frames /\ frame.subject = t /\ frame.quantity = Amount(t) /\ frame.on
    BY SubscriptionAssumption DEF SubFrame, Frames
  <2>3. /\ Begin(p, "verify", frame) /\ UNCHANGED <<now, subs, items>>
        /\ paidFor' = paidFor \cup {t} /\ \A q \in Procs : ~Selling(q)
    BY <2>1 DEF StartPaid
  <2> HIDE DEF frame
  <2> QED
    BY <2>2, <2>3, SubscriptionAssumption, BeginKeeps
<1>2. CASE StartLook(p)
  <2> DEFINE frame == SubFrame("look", now, 0)
  <2>1. frame \in Frames /\ frame.subject = "look"
    BY DEF SubFrame, Frames, SubState
  <2>2. Begin(p, "verify", frame) /\ UNCHANGED <<now, subs, items, paidFor>>
    BY <1>2 DEF StartLook, subOnly
  <2> HIDE DEF frame
  <2> QED
    BY <2>1, <2>2, SubscriptionAssumption, BeginKeeps
<1>3. CASE StartCron(p)
  <2> DEFINE frame == [SubFrame("cron", now, 0) EXCEPT !.todo = ReadExpired]
  <2>1. /\ ReadExpired # {} /\ ReadExpired \subseteq DOMAIN subs /\ DOMAIN subs \subseteq Nat
        /\ \A i \in ReadExpired : subs[i].end < now
    BY <1>3 DEF StartCron, ReadExpired, Live, SubState, SubDocsRight
  <2>2. frame \in Frames /\ frame.subject = "cron" /\ frame.todo = ReadExpired
    <3>1. now \in Int /\ ReadExpired \in SUBSET Nat
      BY <2>1 DEF SubState
    <3> DEFINE base == SubFrame("cron", now, 0)
    <3>2. base \in Frames /\ base.subject = "cron"
      BY <3>1 DEF SubFrame, Frames
    <3> HIDE DEF base
    <3>3. [base EXCEPT !.todo = ReadExpired] \in Frames
      BY <3>1, <3>2 DEF Frames
    <3> QED
      BY <3>2, <3>3 DEF Frames, base
  <2>3. Begin(p, "cron", frame) /\ UNCHANGED <<now, subs, items, paidFor>>
    BY <1>3 DEF StartCron, subOnly
  <2> HIDE DEF frame
  <2> QED
    BY <2>1, <2>2, <2>3, SubscriptionAssumption, BeginKeeps
<1> QED
  BY <1>1, <1>2, <1>3

LEMMA CountKeeps ==
    ASSUME SubState, NEW p \in Procs, Count(p) PROVE SubState'
<1>1. /\ pc[p] = "count" /\ UNCHANGED <<now, subs, items, paidFor>>
      /\ DOMAIN pc = Procs /\ DOMAIN stack = Procs /\ paidFor \subseteq Payments
  BY DEF Count, SubState
<1>2. Paying(p) /\ Selling(p) /\ stack[p] \in Frames /\ FrameIsPaid(p)
  BY <1>1, SellersPay, FrameOf DEF AtSub, SubState, FrameIsRight
<1>3. pc' = [pc EXCEPT ![p] = "item"] /\ stack' = stack
  BY <1>1, <1>2 DEF Count, Jump
<1>4. /\ Moves(p) /\ pc'[p] = "item" /\ stack'[p] = stack[p] /\ By(p)' = By(p)
      /\ Sub(p)' = Sub(p) /\ Until(p)' = Until(p) /\ Paying(p)'
  BY <1>1, <1>2, <1>3 DEF Moves, By, Sub, Until, Paying
<1>5. FrameIsRight(p)'
  BY <1>1, <1>2, <1>4 DEF FrameIsRight, FrameIsExpired, FrameIsPaid, AtSub
<1>6. SubDocsRight'
  BY <1>1 DEF SubState, SubDocsRight
<1> QED
  BY <1>1, <1>2, <1>4, <1>5, <1>6, SubAside DEF Unsold

(* A period begins where the subscription ends, or later.                  *)
LEMMA ReadSubKeeps ==
    ASSUME SubState, NEW p \in Procs, ReadSub(p) PROVE SubState'
<1>1. /\ pc[p] = "read" /\ UNCHANGED <<now, subs, items, paidFor>>
      /\ DOMAIN pc = Procs /\ DOMAIN stack = Procs /\ paidFor \subseteq Payments
      /\ now \in Int
  BY DEF ReadSub, SubState, subOnly
<1>2. /\ Paying(p) /\ Selling(p) /\ stack[p] \in Frames /\ Sub(p) = 1 /\ DOMAIN subs = {1}
      /\ Amount(By(p)) \in Nat \ {0}
  BY <1>1, SellersPay, FrameOf DEF AtSub, SubState, FrameIsRight, FrameIsPaid
<1>3. /\ subs[1] \in SubDocs /\ subs[1].end \in Int /\ subs[1].start \in Int
      /\ ~subs[1].gone /\ (subs[1].on \/ subs[1].end <= now)
  BY <1>2, DocsAre DEF SubState, SubDocsRight
<1> DEFINE from == ExtendFrom(subs[1])
           on == (from + Amount(By(p)) > now)
           quantity == subs[1].quantity + Amount(By(p))
           frame == [stack[p] EXCEPT !.from = from, !.on = on, !.quantity = quantity]
<1>4. from \in Int /\ subs[1].end <= from
  BY <1>1, <1>3 DEF ExtendFrom
<1>5. pc' = [pc EXCEPT ![p] = "sell"] /\ stack' = [stack EXCEPT ![p] = frame]
  BY <1>2, <1>3 DEF ReadSub, JumpWith
<1>6. on \in BOOLEAN /\ (on \/ from + Amount(By(p)) <= now) /\ quantity \in Int
  BY <1>1, <1>2, <1>3, <1>4 DEF SubDocs
<1> HIDE DEF from, on, quantity
<1>7. /\ frame \in Frames /\ frame.subject = By(p) /\ frame.sub = Sub(p)
      /\ frame.from = from /\ frame.on = on
  BY <1>2, <1>4, <1>6 DEF Frames, By, Sub
<1> HIDE DEF frame
<1>8. /\ Moves(p) /\ pc'[p] = "sell" /\ stack'[p] = frame
  BY <1>1, <1>5 DEF Moves
<1>9. /\ By(p)' = By(p) /\ Sub(p)' = Sub(p) /\ Until(p)' = from + Amount(By(p)) /\ Paying(p)'
  BY <1>2, <1>7, <1>8 DEF By, Sub, Until, Paying
<1>10. FrameIsPaid(p)'
  BY <1>1, <1>2, <1>4, <1>6, <1>7, <1>8, <1>9 DEF FrameIsPaid, AtSub
<1>11. FrameIsRight(p)'
  BY <1>7, <1>8, <1>10 DEF FrameIsRight, FrameIsExpired, AtSub
<1>12. SubDocsRight'
  BY <1>1 DEF SubState, SubDocsRight
<1> QED
  BY <1>1, <1>2, <1>8, <1>9, <1>11, <1>12, SubAside DEF Unsold

LEMMA TickKeeps == ASSUME SubState, Tick PROVE SubState'
<1>1. /\ now \in Int /\ now' = now + 1 /\ UNCHANGED <<pc, stack, subs, items, paidFor>>
      /\ subs \in Seq(SubDocs)
  BY DEF Tick, reqVars, SubState, SubDocsRight
<1>2. SubDocsRight'
  BY <1>1, DocsAre DEF SubDocsRight, SubState
<1>3. ASSUME NEW p \in Procs
      PROVE  /\ FrameIsRight(p)' /\ Selling(p)' = Selling(p) /\ By(p)' = By(p)
             /\ NewPeriod(p)' = NewPeriod(p)
  <2>1. FrameIsExpired(p)'
    BY <1>1, ExpiredStays
  <2>2. FrameIsPaid(p)'
    BY <1>1, PaidStays
  <2> QED
    BY <1>1, <2>1, <2>2 DEF SubState, FrameIsRight, Selling, Paying, By, NewPeriod, Sub, Until
<1>4. \A x \in items : DOMAIN subs = {1} /\ Lasts(x)
  BY DEF SubState
<1>5. \A x \in items' : DOMAIN subs' = {1} /\ Lasts(x)'
  BY <1>1, <1>3, <1>4 DEF Lasts
<1>6. \A t \in paidFor' : SoldOrWillBe(t)'
  BY <1>1, <1>3 DEF SubState, SoldOrWillBe
<1>7. \A p, q \in Procs : Selling(p)' /\ Selling(q)' => p = q
  BY <1>3 DEF SubState
<1>8. items' \subseteq SoldPeriods /\ \A x, y \in items' : Apart(x, y)'
  BY <1>1 DEF SubState, Apart
<1> QED
  BY <1>1, <1>2, <1>3, <1>5, <1>6, <1>7, <1>8 DEF SubState

(* A step of the one who sells.                                            *)
LEMMA SellerKeeps ==
    ASSUME SubState, NEW p \in Procs, Moves(p), Selling(p), now' = now, paidFor' = paidFor,
           SubDocsRight', FrameIsRight(p)', By(p)' = By(p) \/ ~Selling(p)',
           \A q \in Procs \ {p} : FrameIsExpired(q)',
           items \subseteq items', items' \subseteq SoldPeriods,
           \A x \in items' : DOMAIN subs' = {1} /\ Lasts(x)',
           \A x, y \in items' : Apart(x, y)',
           \/ \E x \in items' : x.by = By(p)
           \/ pc'[p] \in Unsold /\ By(p)' = By(p)
    PROVE  SubState'
<1>1. now' \in Int /\ DOMAIN pc' = Procs /\ DOMAIN stack' = Procs
  BY DEF SubState, Moves
<1>2. ASSUME NEW q \in Procs, q # p
      PROVE  FrameIsRight(q)' /\ ~Selling(q)' /\ ~(pc[q] \in Unsold /\ Paying(q))
  BY <1>2, OthersWait
<1>3. \A q \in Procs : FrameIsRight(q)'
  BY <1>2
<1>4. ASSUME NEW q \in Procs, NEW r \in Procs, Selling(q)', Selling(r)' PROVE q = r
  BY <1>2, <1>4
<1>5. ASSUME NEW t \in paidFor' PROVE SoldOrWillBe(t)'
  <2>1. t \in Payments /\ SoldOrWillBe(t)
    BY DEF SubState
  <2>2. CASE \E x \in items : x.by = t
    BY <2>2 DEF SoldOrWillBe
  <2>3. ASSUME NEW q \in Procs, pc[q] \in Unsold, By(q) = t PROVE SoldOrWillBe(t)'
    <3>1. q = p
      BY <1>2, <2>1, <2>3 DEF Paying
    <3> QED
      BY <2>3, <3>1 DEF SoldOrWillBe
  <2> QED
    BY <2>1, <2>2, <2>3 DEF SoldOrWillBe
<1>6. paidFor' \subseteq Payments
  BY DEF SubState
<1> QED
  BY <1>1, <1>3, <1>4, <1>5, <1>6 DEF SubState

(* The first subscription.                                                 *)
LEMMA CreateSubKeeps ==
    ASSUME SubState, NEW p \in Procs, CreateSub(p) PROVE SubState'
<1>1. /\ pc[p] = "create" /\ UNCHANGED <<now, items, paidFor>>
      /\ DOMAIN pc = Procs /\ DOMAIN stack = Procs
  BY DEF CreateSub, SubState
<1>2. /\ Paying(p) /\ Selling(p) /\ stack[p] \in Frames /\ DOMAIN subs = {}
      /\ Amount(By(p)) \in Nat \ {0} /\ stack[p].from \in Int
      /\ stack[p].quantity = Amount(By(p)) /\ stack[p].on
  BY <1>1, SellersPay, FrameOf DEF AtSub, SubState, FrameIsRight, FrameIsPaid
<1>3. subs \in Seq(SubDocs) /\ Len(subs) = 0 /\ items = {} /\ now \in Int
  <2>1. subs \in Seq(SubDocs) /\ DOMAIN subs = 1..Len(subs) /\ Len(subs) \in Nat
    BY SubsAre DEF SubState, SubDocsRight
  <2>2. items = {} /\ now \in Int
    BY <1>2 DEF SubState
  <2> QED
    BY <1>2, <2>1, <2>2
<1> DEFINE doc == [start |-> stack[p].from, end |-> stack[p].from + stack[p].quantity,
                   quantity |-> stack[p].quantity, on |-> stack[p].on, gone |-> FALSE]
           frame == [stack[p] EXCEPT !.sub = Len(subs) + 1]
<1>4. /\ subs' = Append(subs, doc) /\ pc' = [pc EXCEPT ![p] = "count"]
      /\ stack' = [stack EXCEPT ![p] = frame]
  BY DEF CreateSub, JumpWith
<1>5. doc \in SubDocs /\ doc.end = Until(p) /\ ~doc.gone /\ doc.on
  BY <1>2 DEF SubDocs, Frames, Until
<1>6. /\ frame \in Frames /\ frame.subject = By(p) /\ frame.sub = 1
      /\ frame.from = stack[p].from
  BY <1>2, <1>3 DEF Frames, By
<1> HIDE DEF doc, frame
<1>7. subs' \in Seq(SubDocs) /\ DOMAIN subs' = {1} /\ subs'[1] = doc
  <2>1. subs' \in Seq(SubDocs) /\ Len(subs') = 1 /\ subs'[1] = doc
    BY <1>3, <1>4, <1>5, AppendProperties
  <2>2. DOMAIN subs' = 1..Len(subs')
    BY <2>1
  <2> QED
    BY <2>1, <2>2
<1>8. SubDocsRight'
  BY <1>5, <1>7 DEF SubDocsRight
<1>9. /\ Moves(p) /\ pc'[p] = "count" /\ stack'[p] = frame
  BY <1>1, <1>4 DEF Moves
<1>10. By(p)' = By(p) /\ Sub(p)' = 1 /\ Until(p)' = Until(p) /\ Paying(p)'
  BY <1>2, <1>6, <1>9 DEF By, Sub, Until, Paying
<1>11. FrameIsRight(p)'
  BY <1>1, <1>3, <1>5, <1>6, <1>7, <1>9, <1>10
     DEF FrameIsRight, FrameIsExpired, FrameIsPaid, AtSub
<1>12. ASSUME NEW q \in Procs \ {p} PROVE FrameIsExpired(q)'
  <2>1. pc'[q] = pc[q] /\ stack'[q] = stack[q]
    BY <1>9 DEF Moves
  <2> QED
    BY <1>1, <1>2, <1>3, <2>1, ExpiredStays
<1> QED
  BY <1>1, <1>2, <1>3, <1>8, <1>9, <1>10, <1>11, <1>12, SellerKeeps DEF Unsold

(* What was sold before lies before the new period.                        *)
LEMMA SoldBefore ==
    ASSUME SubState, NEW p \in Procs, pc[p] \in {"sell", "upgrade"}, NEW x \in items,
           ~(pc[p] = "upgrade" /\ x = NewPeriod(p))
    PROVE  x.to <= stack[p].from /\ x.to <= subs[1].end
<1>1. Selling(p) /\ FrameIsPaid(p) /\ stack[p].from \in Int
  BY SellersPay, FrameOf DEF AtSub, SubState, FrameIsRight
<1>2. subs[1].end <= stack[p].from /\ DOMAIN subs = {1}
  BY <1>1 DEF FrameIsPaid, AtSub
<1>3. x \in SoldPeriods /\ Lasts(x) /\ subs \in Seq(SubDocs)
  BY DEF SubState, SubDocsRight
<1>4. subs[1].end \in Int /\ x.to \in Int
  BY <1>2, <1>3, DocsAre DEF SoldPeriods
<1>5. \A q \in Procs : pc[q] = "upgrade" => q = p
  <2>1. ASSUME NEW q \in Procs, pc[q] = "upgrade" PROVE q = p
    <3>1. Selling(q)
      BY <2>1, SellersPay DEF AtSub
    <3> QED
      BY <1>1, <3>1 DEF SubState
  <2> QED
    BY <2>1
<1>6. x.to <= subs[1].end
  BY <1>3, <1>5 DEF Lasts
<1> QED
  BY <1>1, <1>2, <1>4, <1>6

LEMMA SellKeeps ==
    ASSUME SubState, NEW p \in Procs, Sell(p) PROVE SubState'
<1>1. /\ pc[p] \in {"item", "sell"} /\ UNCHANGED <<now, subs, paidFor>>
      /\ items' = items \cup {NewPeriod(p)}
      /\ DOMAIN pc = Procs /\ DOMAIN stack = Procs /\ now \in Int
  BY DEF Sell, SubState, NewPeriod, Until
<1>2. /\ Paying(p) /\ Selling(p) /\ stack[p] \in Frames /\ Sub(p) = 1 /\ DOMAIN subs = {1}
      /\ stack[p].from \in Int /\ Until(p) \in Int
      /\ FrameIsPaid(p)
  BY <1>1, SellersPay, FrameOf DEF AtSub, SubState, FrameIsRight, FrameIsPaid
<1>3. /\ NewPeriod(p) \in SoldPeriods /\ NewPeriod(p).by = By(p)
      /\ NewPeriod(p).from = stack[p].from /\ NewPeriod(p).to = Until(p)
  BY <1>2 DEF NewPeriod, SoldPeriods, Paying
<1>4. /\ items \subseteq SoldPeriods /\ SubDocsRight
      /\ \A x \in items : Lasts(x)
      /\ \A x, y \in items : Apart(x, y)
  BY DEF SubState
<1>5. \A x \in items : x.to <= stack[p].from
  BY <1>1, <1>2, SoldBefore DEF FrameIsPaid
<1>6. \A x, y \in items' : Apart(x, y)'
  BY <1>1, <1>3, <1>4, <1>5 DEF Apart
<1>7. PICK label \in {"upgrade", "idle"} :
        /\ pc' = [pc EXCEPT ![p] = label] /\ (label = "upgrade" <=> pc[p] = "sell")
        /\ label = "upgrade" => stack' = stack
        /\ label = "idle" => stack' = [stack EXCEPT ![p] = NoStack]
  BY <1>1 DEF Sell, Jump, Return, JumpWith
<1>8. Moves(p) /\ pc'[p] = label
  BY <1>1, <1>7 DEF Moves
<1>9. label = "upgrade" =>
        /\ By(p)' = By(p) /\ Sub(p)' = Sub(p) /\ Until(p)' = Until(p) /\ Paying(p)'
        /\ NewPeriod(p)' = NewPeriod(p) /\ stack'[p] = stack[p]
  BY <1>2, <1>7 DEF By, Sub, Until, Paying, NewPeriod
<1>10. FrameIsRight(p)'
  <2>1. CASE label = "idle"
    BY <1>8, <2>1 DEF FrameIsRight, FrameIsExpired, FrameIsPaid, AtSub
  <2>2. CASE label = "upgrade"
    <3>1. FrameIsPaid(p)'
      BY <1>1, <1>2, <1>7, <1>8, <1>9, <2>2 DEF FrameIsPaid, AtSub
    <3> QED
      BY <1>2, <1>8, <1>9, <2>2, <3>1 DEF FrameIsRight, FrameIsExpired, AtSub
  <2> QED
    BY <2>1, <2>2
<1>11. ASSUME NEW q \in Procs \ {p} PROVE FrameIsExpired(q)'
  <2>1. pc'[q] = pc[q] /\ stack'[q] = stack[q]
    BY <1>8 DEF Moves
  <2> QED
    BY <1>1, <1>4, <2>1, ExpiredStays DEF SubDocsRight
<1>12. ASSUME NEW x \in items' PROVE Lasts(x)'
  <2>1. CASE pc[p] = "item"
    <3>1. items = {} /\ subs[1].end = Until(p)
      BY <1>2, <2>1 DEF FrameIsPaid
    <3>2. x = NewPeriod(p) /\ x.to <= subs[1].end
      BY <1>1, <1>2, <1>3, <3>1
    <3> QED
      BY <1>1, <3>2 DEF Lasts
  <2>2. CASE pc[p] = "sell"
    <3>1. pc'[p] = "upgrade" /\ NewPeriod(p)' = NewPeriod(p)
      BY <1>7, <1>8, <1>9, <2>2
    <3>2. CASE x = NewPeriod(p)
      BY <3>1, <3>2 DEF Lasts
    <3>3. CASE x \in items
      BY <1>1, <2>2, <3>3, SoldBefore DEF Lasts
    <3> QED
      BY <1>1, <3>2, <3>3
  <2> QED
    BY <1>1, <2>1, <2>2
<1>13. SubDocsRight'
  BY <1>1, <1>4 DEF SubDocsRight
<1>14. By(p)' = By(p) \/ ~Selling(p)'
  BY <1>7, <1>8, <1>9 DEF Selling
<1> QED
  BY <1>1, <1>2, <1>3, <1>4, <1>6, <1>8, <1>10, <1>11, <1>12, <1>13, <1>14, SellerKeeps

(* The subscription lasts until the end of the new period, unless somebody *)
(* is about to switch it off.                                              *)
LEMMA UpgradeKeeps ==
    ASSUME SubState, NEW p \in Procs, Upgrade(p), ~outdated' PROVE SubState'
<1>1. /\ pc[p] = "upgrade" /\ UNCHANGED <<now, items, paidFor>> /\ Return(p)
      /\ DOMAIN pc = Procs /\ DOMAIN stack = Procs /\ now \in Int /\ ~Expiring(Sub(p))
  BY DEF Upgrade, SubState
<1>2. /\ Paying(p) /\ Selling(p) /\ stack[p] \in Frames /\ Sub(p) = 1 /\ DOMAIN subs = {1}
      /\ stack[p].from \in Int /\ Until(p) \in Int /\ Amount(By(p)) \in Nat
      /\ FrameIsPaid(p)
  BY <1>1, SellersPay, FrameOf DEF AtSub, SubState, FrameIsRight, FrameIsPaid
<1>3. /\ stack[p].on \/ Until(p) <= now
      /\ NewPeriod(p) \in items /\ NewPeriod(p).by = By(p) /\ NewPeriod(p).to = Until(p)
  BY <1>1, <1>2 DEF FrameIsPaid, NewPeriod
<1>4. /\ subs \in Seq(SubDocs) /\ subs[1] \in SubDocs /\ ~subs[1].gone
      /\ items \subseteq SoldPeriods /\ \A x, y \in items : Apart(x, y)
  BY <1>2, DocsAre DEF SubState, SubDocsRight
<1> DEFINE doc == [subs[1] EXCEPT !.quantity = stack[p].quantity,
                                  !.end = stack[p].from + Amount(By(p)), !.on = stack[p].on]
<1>5. subs' = [subs EXCEPT ![1] = doc]
  BY <1>2, <1>4 DEF Upgrade, WriteSub
<1>6. doc \in SubDocs /\ doc.end = Until(p) /\ doc.gone = subs[1].gone /\ doc.on = stack[p].on
  BY <1>2, <1>4 DEF SubDocs, Frames, Until
<1> HIDE DEF doc
<1>7. subs' \in Seq(SubDocs) /\ DOMAIN subs' = {1} /\ subs'[1] = doc
  <2>1. DOMAIN subs = 1..Len(subs) /\ subs \in [1..Len(subs) -> SubDocs]
    BY <1>4, SubsAre
  <2>2. subs' \in [1..Len(subs) -> SubDocs] /\ DOMAIN subs' = DOMAIN subs /\ subs'[1] = doc
    BY <1>2, <1>5, <1>6, <2>1
  <2> QED
    BY <1>2, <1>4, <1>5, <1>6, <2>1, <2>2
<1>8. SubDocsRight'
  BY <1>1, <1>3, <1>4, <1>6, <1>7 DEF SubDocsRight
<1>9. Moves(p) /\ pc'[p] = "idle"
  BY <1>1 DEF Return, JumpWith, Moves
<1>10. FrameIsRight(p)' /\ ~Selling(p)'
  BY <1>9 DEF FrameIsRight, FrameIsExpired, FrameIsPaid, AtSub, Selling
<1>11. ASSUME NEW q \in Procs \ {p} PROVE FrameIsExpired(q)'
  <2>1. FrameIsExpired(q) /\ pc'[q] = pc[q]
    BY <1>9 DEF SubState, FrameIsRight, Moves
  <2>2. pc[q] \notin {"lapse", "cron"}
    BY <1>1, <1>2, <2>1 DEF FrameIsExpired, Expiring
  <2> QED
    BY <2>1, <2>2 DEF FrameIsExpired
<1>12. ASSUME NEW x \in items' PROVE Lasts(x)'
  <2>1. x.to \in Int /\ (x = NewPeriod(p) \/ x.to <= stack[p].from)
    BY <1>1, <1>4, SoldBefore DEF SoldPeriods
  <2>2. x.to <= Until(p)
    BY <1>2, <1>3, <2>1 DEF Until
  <2> QED
    BY <1>6, <1>7, <2>2 DEF Lasts
<1>13. \A x, y \in items' : Apart(x, y)'
  BY <1>1, <1>4 DEF Apart
<1> QED
  BY <1>1, <1>2, <1>3, <1>4, <1>7, <1>8, <1>9, <1>10, <1>11, <1>12, <1>13, SellerKeeps

LEMMA UndisturbedKeeps ==
    ASSUME SubInv, UNCHANGED <<faults, byHand>>, together => together', outdated => outdated',
           Undisturbed' /\ SubState => SubState'
    PROVE  SubInv'
<1>1. Undisturbed' => Undisturbed
  BY DEF Undisturbed, AutomaticOnly, Serene
<1> QED
  BY <1>1 DEF SubInv

(* What is done by hand, or goes wrong, ends the quiet.                    *)
LEMMA ByHandKeeps ==
    ASSUME SubInv, byHand' = byHand + 1, UNCHANGED faults PROVE SubInv'
BY DEF SubInv, Undisturbed, AutomaticOnly

LEMMA SubStep == SubInv /\ [SubscriptionNext]_subscriptionVars => SubInv'
<1> SUFFICES ASSUME SubInv, [SubscriptionNext]_subscriptionVars PROVE SubInv'
  OBVIOUS
<1> USE DEF subOnly, reqVars
<1>1. CASE UNCHANGED subscriptionVars
  <2>1. UNCHANGED <<pc, stack, faults, now, subs, items, paidFor, byHand, together, outdated>>
    BY <1>1 DEF subscriptionVars
  <2>2. SubState => SubState'
    BY <2>1 DEF SubState, SubDocsRight, FrameIsRight, FrameIsExpired, FrameIsPaid, Selling, Paying,
                By, Sub, Until, NewPeriod, Lasts, SoldOrWillBe, Apart
  <2> QED
    BY <2>1, <2>2, UndisturbedKeeps
<1>2. CASE Tick
  <2>1. UNCHANGED <<faults, byHand, together, outdated>>
    BY <1>2 DEF Tick
  <2> QED
    BY <1>2, <2>1, TickKeeps, UndisturbedKeeps
<1>3. ASSUME NEW i \in Live, Stop(i) \/ Edit(i) \/ Delete(i) PROVE SubInv'
  BY <1>3, ByHandKeeps DEF Stop, Edit, Delete, ByHandAtOnce, ByHand
<1>4. ASSUME NEW p \in Procs,
             \/ \E on \in BOOLEAN : StartAdd(p, on)
             \/ \E label \in {"toggle", "renew"} : StartReadWrite(p, label)
      PROVE  SubInv'
  BY <1>4, ByHandKeeps DEF StartAdd, StartReadWrite, ByHand, Begin
<1>5. ASSUME NEW p \in Procs,
             \/ \E t \in Payments, c \in 0..MaxTime : StartPaid(p, t, c)
             \/ StartLook(p) \/ StartCron(p)
      PROVE  SubInv'
  <2>1. UNCHANGED <<faults, byHand>> /\ (together => together') /\ (outdated => outdated')
    <3>1. UNCHANGED <<faults, byHand, outdated>>
      BY <1>5 DEF StartPaid, StartLook, StartCron, Begin
    <3>2. together => together'
      <4>1. CASE \E t \in Payments, c \in 0..MaxTime : StartPaid(p, t, c)
        BY <4>1, Zenon DEF StartPaid
      <4>2. CASE StartLook(p) \/ StartCron(p)
        BY <4>2 DEF StartLook, StartCron
      <4> QED
        BY <1>5, <4>1, <4>2
    <3> QED
      BY <3>1, <3>2
  <2>2. Undisturbed' /\ SubState => SubState'
    <3> SUFFICES ASSUME Undisturbed', SubState PROVE SubState'
      OBVIOUS
    <3>1. ~together'
      BY DEF Undisturbed
    <3> QED
      BY <1>5, <3>1, StartsKeep
  <2> QED
    BY <2>1, <2>2, UndisturbedKeeps
<1>6. ASSUME NEW p \in Procs, Toggle(p) \/ Renew(p) PROVE SubInv'
  <2>1. UNCHANGED <<faults, byHand, together, outdated>> /\ pc[p] \in {"toggle", "renew"}
    BY <1>6 DEF Toggle, Renew, Return, JumpWith
  <2>2. ~SubState
    BY <2>1 DEF SubState, FrameIsRight, AtSub
  <2> QED
    BY <2>1, <2>2, UndisturbedKeeps
<1>7. ASSUME NEW p \in Procs,
             Verify(p) \/ Lapse(p) \/ CreateSub(p) \/ Count(p) \/ ReadSub(p) \/ Sell(p) \/ Expire(p)
      PROVE  SubInv'
  <2>1. UNCHANGED <<faults, byHand, together, outdated>>
    BY <1>7 DEF Verify, Lapse, CreateSub, Count, ReadSub, Sell, Expire, Verified, Return, Jump,
                JumpWith
  <2> QED
    BY <1>7, <2>1, VerifyKeeps, LapseKeeps, CreateSubKeeps, CountKeeps, ReadSubKeeps, SellKeeps,
       ExpireKeeps, UndisturbedKeeps
<1>8. ASSUME NEW p \in Procs, Upgrade(p) PROVE SubInv'
  <2>1. UNCHANGED <<faults, byHand>> /\ (together => together') /\ (outdated => outdated')
    BY <1>8 DEF Upgrade, Return, JumpWith
  <2>2. Undisturbed' /\ SubState => SubState'
    <3> SUFFICES ASSUME Undisturbed', SubState PROVE SubState'
      OBVIOUS
    <3>1. ~outdated'
      BY DEF Undisturbed
    <3> QED
      BY <1>8, <3>1, UpgradeKeeps
  <2> QED
    BY <2>1, <2>2, UndisturbedKeeps
<1>9. ASSUME NEW p \in Procs, BreakOff(p) PROVE SubInv'
  <2>1. PICK k \in {"crash", "write"} : FaultyReturn(p, k)
    BY <1>9 DEF BreakOff
  <2>2. ~Serene' /\ faults' \in [Faults -> Nat]
    BY <2>1, FaultIsFelt DEF FaultyReturn, SubInv
  <2> QED
    BY <1>9, <2>2 DEF SubInv, BreakOff, Undisturbed, AutomaticOnly
<1>10. ASSUME NEW p \in Procs, FailToExpire(p) PROVE SubInv'
  <2>1. Faulty("write")
    BY <1>10 DEF FailToExpire, FaultyReturn
  <2>2. ~Serene' /\ faults' \in [Faults -> Nat]
    BY <2>1, FaultIsFelt DEF SubInv
  <2> QED
    BY <1>10, <2>2 DEF SubInv, FailToExpire, Undisturbed, AutomaticOnly
<1> QED
  BY <1>1, <1>2, <1>3, <1>4, <1>5, <1>6, <1>7, <1>8, <1>9, <1>10 DEF SubscriptionNext

(* While all goes by itself and no two payments are handled at once, every *)
(* payment has its period, the periods do not overlap, and the             *)
(* subscription lasts to the end of each, for any number of handlers,      *)
(* payments and cycles and any time: a period begins at an end that only   *)
(* its own handler moves.                                                  *)
THEOREM PaidForIsServed == SubscriptionSpec => []PaidPeriodsAddUp
<1>1. SubInv => PaidPeriodsAddUp
  <2> SUFFICES ASSUME SubInv, AutomaticOnly, ~together, ~outdated
               PROVE  /\ \A t \in Payments : Handled(t) => \E x \in items : x.by = t
                      /\ \A x, y \in items : x # y => x.to <= y.from \/ y.to <= x.from
                      /\ \A x \in items : Handled(x.by) => subs[x.sub].end >= x.to
    BY DEF PaidPeriodsAddUp
  <2>1. SubState
    BY DEF SubInv, Undisturbed
  <2>2. \A t \in Payments : Handled(t) => \E x \in items : x.by = t
    BY <2>1 DEF SubState, SoldOrWillBe, Handled
  <2>3. \A x, y \in items : x # y => x.to <= y.from \/ y.to <= x.from
    BY <2>1 DEF SubState, Apart
  <2>4. ASSUME NEW x \in items, Handled(x.by) PROVE subs[x.sub].end >= x.to
    <3>1. /\ x \in SoldPeriods /\ Lasts(x) /\ DOMAIN subs = {1} /\ subs \in Seq(SubDocs)
      BY <2>1 DEF SubState, SubDocsRight
    <3>2. x.sub = 1 /\ x.to \in Int /\ subs[1].end \in Int
      BY <3>1, DocsAre DEF SoldPeriods
    <3>3. \A p \in Procs : x # NewPeriod(p)
      BY <2>4 DEF Handled, NewPeriod
    <3> QED
      BY <3>1, <3>2, <3>3 DEF Lasts
  <2> QED
    BY <2>2, <2>3, <2>4
<1> QED
  BY <1>1, SubStart, SubStep, PTL DEF SubscriptionSpec
====
