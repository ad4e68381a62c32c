---- MODULE MCFrontOffice ----
(* The front office: what users, subscribers and developers see.  As in    *)
(* MCBackOffice, a behaviour exercises one component, its part.            *)
EXTENDS Subscription, Callback, Accounts, Announcements, PayinRoute, Notices, TLC

VARIABLE part

Parts == {"subscription", "callback", "accounts", "announcements", "payin route", "notices"}

officeVars == <<reqVars, subOnly, callbackOnly, accountOnly, announceOnly, routeOnly,
               noticeOnly, part>>

(* The part alone has several initial states.                              *)
Resting ==
    /\ part # "announcements" => announcement.status = "DRAFT"
    /\ part # "payin route" => flags = [direct |-> TRUE, fallback |-> TRUE]
    /\ part # "notices" => enabled = Channels /\ configured

OfficeInit ==
    /\ part \in Parts
    /\ SubscriptionInit /\ CallbackInit /\ AccountsInit /\ AnnouncementsInit
    /\ PayinRouteInit /\ NoticesInit
    /\ Resting

(* A behaviour has one fault, of any kind.                                 *)
OneFault == \A j, k \in Faults : j # k => faults[j] = 0 \/ faults[k] = 0

OfficeNext ==
    /\ UNCHANGED part
    /\ \/ /\ part = "subscription" /\ SubscriptionNext
          /\ UNCHANGED <<callbackOnly, accountOnly, announceOnly, routeOnly, noticeOnly>>
       \/ /\ part = "callback" /\ CallbackNext
          /\ UNCHANGED <<subOnly, accountOnly, announceOnly, routeOnly, noticeOnly>>
       \/ /\ part = "accounts" /\ AccountsNext
          /\ UNCHANGED <<subOnly, callbackOnly, announceOnly, routeOnly, noticeOnly>>
       \/ /\ part = "announcements" /\ AnnouncementsNext
          /\ UNCHANGED <<subOnly, callbackOnly, accountOnly, routeOnly, noticeOnly>>
       \/ /\ part = "payin route" /\ PayinRouteNext
          /\ UNCHANGED <<subOnly, callbackOnly, accountOnly, announceOnly, noticeOnly>>
       \/ /\ part = "notices" /\ NoticesNext
          /\ UNCHANGED <<subOnly, callbackOnly, accountOnly, announceOnly, routeOnly>>
    /\ OneFault'

OfficeSpec == OfficeInit /\ [][OfficeNext]_officeVars

----
(* The values of the run.                                                  *)
OfficeAmount(x) == IF x = "y2" THEN 2 ELSE 1

(* A direct charge needs the operator, so the numbers and the methods of   *)
(* Cameroon matter most.                                                   *)
Phone(first, second, length) == [first |-> first, second |-> second, length |-> length]

Asked(flow, currency, amount, paidBy, phone) ==
    [NoOrderYet EXCEPT !.flow = flow, !.currency = currency, !.amount = amount, !.email = TRUE,
                       !.paidBy = paidBy, !.phone = phone]

OfficeOrders ==
    {Asked("transfer", "XAF", 2, "om", Phone(237, 691, 12)),
     Asked("transfer", "XAF", 2, "om", Phone(671, 234, 9)),
     Asked("transfer", "XAF", 4, "momo", Phone(671, 234, 9)),
     Asked("transfer", "XAF", 5, "card", NoPhone),
     Asked("transfer", "GHS", 2, None, NoPhone),
     [Asked("invoice", "XAF", 2, "mobile_money", Phone(691, 224, 9)) EXCEPT !.network = "MTN"],
     [Asked("invoice", "XAF", 1, "mobile_money", Phone(691, 224, 9)) EXCEPT !.gateway = "fw2"],
     [Asked("invoice", "XOF", 2, "mobile_money", Phone(700, 224, 8))
        EXCEPT !.country = "BF", !.network = "OM"],
     [Asked("invoice", "GHS", 2, "mobile_money", Phone(241, 234, 10)) EXCEPT !.network = "TELECEL"],
     [Asked("invoice", "XAF", 2, "mobile_money", Phone(233, 241, 12)) EXCEPT !.email = FALSE],
     [Asked("invoice", "GHS", 2, "card", NoPhone) EXCEPT !.gateway = "ps"],
     [Asked("invoice", "KES", 2, "card", NoPhone) EXCEPT !.gateway = "mp"],
     [Asked("direct", "XAF", 2, None, Phone(237, 650, 12)) EXCEPT !.network = "OM"],
     Asked("direct", "KES", 2, None, Phone(254, 700, 12)),
     Asked("api", "XAF", 2, None, NoPhone),
     Asked("api", "XAF", 3, "MOMO", Phone(691, 224, 9)),
     Asked("api", "KES", 2, "MOMO", Phone(254, 700, 12))}

OfficeApiMethods ==
    [MOMO |-> [currency |-> "XAF", statusPayin |-> TRUE, atLeast |-> 3, atMost |-> 0]]

OfficePayerMethods ==
    [om |-> [type |-> "mobile", network |-> "ORANGEMONEY", country |-> "CM", gateway |-> "fw2"],
     momo |-> [type |-> "mobile", network |-> "MTN", country |-> "CM", gateway |-> None],
     card |-> [type |-> "card", network |-> None, country |-> None, gateway |-> "fw1"]]

OfficeGateways ==
    [fw1 |-> [type |-> "flutterwave", currency |-> "XAF", keys |-> {"flutterwave"}],
     fw2 |-> [type |-> "flutterwave", currency |-> "XAF", keys |-> {"flutterwave"}],
     ps |-> [type |-> "paystack", currency |-> "GHS", keys |-> {"flutterwave", "paystack"}],
     mp |-> [type |-> "mpesa", currency |-> "KES", keys |-> {"mpesa"}]]

OfficeTotal(amount) == amount + 1

(* The second notice only meets the first in the count of failed texts.    *)
OfficeKindsOf(e) == IF e = "e1" THEN Kinds ELSE {"failed"}
OfficeAdmins == <<"a1", "a2">>
OfficeAlerted == <<"d1">>

(* Handlers are interchangeable.                                           *)
OfficeSymmetry == Permutations(Procs)
====
