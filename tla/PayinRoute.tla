---- MODULE PayinRoute ----
(***************************************************************************)
(* The route of an incoming payment: a charge of the payer's phone or a    *)
(* hosted page, the operator that is charged, and the merchant's account   *)
(* that a page belongs to (payin-route.service.ts,                         *)
(* mobile-money-network.util.ts, mobile-money-charge.builder.ts,           *)
(* direct-charge.config.ts, flutterwave.controller.ts 226-440,             *)
(* flutterwave.service.ts 106-166, 688-979 and 1192-1630), and the payins  *)
(* of the developers' API (dev.service.ts 482-806).                        *)
(*                                                                         *)
(* A phone number is told apart by its first two groups of three digits    *)
(* and its length: all dial codes have three digits, and so have the       *)
(* prefixes that the table knows.                                          *)
(***************************************************************************)
EXTENDS Requests

CONSTANTS
    Orders,         \* what payers ask for: see OrderDocs
    PayerMethods,   \* methods of a transfer's payer: codes to PayerMethodDocs
    ApiMethods,     \* methods that a developer names: codes to ApiMethodDocs
    Gateways,       \* merchant accounts: ids to GatewayDocs
    TotalOf(_),     \* an estimation with its fees
    MinCharge,      \* MIN_DIRECT_CHARGE_AMOUNT
    MaxCharge,      \* MAX_DIRECT_CHARGE_AMOUNT
    MaxDeposit      \* the limit of a deposit, the same for every currency

None == "none"
DirectCurrencies == {"XAF", "XOF", "NGN", "GHS", "UGX", "RWF"}
Currencies == DirectCurrencies \cup {"KES", "EUR"}

----
(* MOBILE_MONEY_NETWORKS, by country.                                      *)
Dials == [CM |-> 237, SN |-> 221, BF |-> 226, CI |-> 225, ML |-> 223, GH |-> 233, NG |-> 234,
          UG |-> 256, RW |-> 250]
Countries == DOMAIN Dials

CurrencyOf == [c \in Countries |->
    CASE c = "CM" -> "XAF" [] c = "GH" -> "GHS" [] c = "NG" -> "NGN" [] c = "UG" -> "UGX"
      [] c = "RW" -> "RWF" [] OTHER -> "XOF"]

LengthsOf == [c \in Countries |->
    CASE c \in {"BF", "ML"} -> {8} [] c = "CI" -> 8..10 [] c = "GH" -> {9, 10} [] c = "NG" -> {10}
      [] OTHER -> {9}]

NetworksOf == [CM |-> {"MTN", "ORANGEMONEY"}, SN |-> {"ORANGEMONEY", "FREE", "WAVE"},
               BF |-> {"ORANGEMONEY", "MOOV"}, CI |-> {"MTN", "ORANGEMONEY", "WAVE"},
               ML |-> {"ORANGEMONEY"}, GH |-> {"MTN", "VODAFONE", "AIRTELTIGO"},
               NG |-> {"MTN", "AIRTEL", "GLO", "9MOBILE"}, UG |-> {"MTN", "AIRTEL"},
               RW |-> {"MTN", "AIRTEL"}]

(* Only Cameroon's prefixes are known.                                     *)
OperatorPrefixes(country, network) ==
    CASE country = "CM" /\ network = "MTN" -> (650..654) \cup (670..685)
      [] country = "CM" /\ network = "ORANGEMONEY" -> (655..659) \cup (686..699)
      [] OTHER -> {}

Aliases == [ORANGE |-> "ORANGEMONEY", OM |-> "ORANGEMONEY", MOMO |-> "MTN", ATL |-> "AIRTELTIGO",
            MOBILEMONEY |-> "MTN", MOOVMONEY |-> "MOOV", AIRTELMONEY |-> "AIRTEL",
            VODACOM |-> "VODAFONE", TELECEL |-> "VODAFONE"]
NormalizeNetworkToken(t) == IF t \in DOMAIN Aliases THEN Aliases[t] ELSE t

Phones == [first : 0..999, second : 0..999, length : Nat]
NoPhone == [first |-> 0, second |-> 0, length |-> 0]
Resolutions == [error : STRING, country : STRING, network : STRING, msisdn : Phones]
Unresolved(code) == [error |-> code, country |-> None, network |-> None, msisdn |-> NoPhone]

OwnersOf(country, first) == {n \in NetworksOf[country] : first \in OperatorPrefixes(country, n)}

\* Mutant: the network that the payer chose goes first.
OperatorsAsAsked(country, first, network) ==
    IF NormalizeNetworkToken(network) \in NetworksOf[country]
    THEN {NormalizeNetworkToken(network)} ELSE OwnersOf(country, first)

(* The owner of the prefix, and else the network that was named.           *)
Operators(country, first, network) ==
    IF OwnersOf(country, first) # {} THEN OwnersOf(country, first)
    ELSE NetworksOf[country] \cap {NormalizeNetworkToken(network)}

(* resolveMobileMoneyNetwork, once the country is known.                   *)
ResolveIn(country, first, length, currency, network) ==
    LET operators == Operators(country, first, network)
        operator == CHOOSE n \in operators : TRUE
    IN  IF currency \notin {None, CurrencyOf[country]} THEN Unresolved("UNSUPPORTED_CURRENCY")
        ELSE IF length \notin LengthsOf[country] THEN Unresolved("AMBIGUOUS_NUMBER")
        ELSE IF operators = {} THEN Unresolved("NETWORK_NOT_RESOLVED")
        ELSE IF country = "BF" /\ operator = "ORANGEMONEY"
        THEN Unresolved("AUTHORIZATION_CODE_REQUIRED")
        ELSE [error |-> None, country |-> country, network |-> operator,
              msisdn |-> [first |-> Dials[country], second |-> first, length |-> length + 3]]

(* A dial code decides the country, and only without one the hints.        *)
Resolve(phone, currency, country, network) ==
    LET dialled == {c \in Countries : Dials[c] = phone.first}
        candidates == {c \in Countries : currency \in {None, CurrencyOf[c]}}
        home == IF country # None THEN {country} ELSE candidates
    IN  IF phone.length < 6 THEN Unresolved("INVALID_PHONE")
        ELSE IF currency \notin DirectCurrencies \cup {None}
        THEN Unresolved("UNSUPPORTED_CURRENCY")
        ELSE IF dialled # {}
        THEN ResolveIn(CHOOSE c \in dialled : TRUE, phone.second, phone.length - 3, currency,
                       network)
        ELSE IF ~(home \subseteq candidates) THEN Unresolved("UNSUPPORTED_COUNTRY")
        ELSE IF Cardinality(home) # 1 THEN Unresolved("AMBIGUOUS_NUMBER")
        ELSE ResolveIn(CHOOSE c \in home : TRUE, phone.first, phone.length, currency, network)

----
OrderDocs == [flow : {"transfer", "invoice", "direct", "api"}, currency : Currencies, amount : Int,
              email : BOOLEAN, paidBy : STRING, phone : Phones, network : STRING,
              country : STRING, gateway : STRING]
PayerMethodDocs == [type : {"card", "mobile"}, network : STRING, country : STRING,
                    gateway : STRING]
ApiMethodDocs == [currency : Currencies, statusPayin : BOOLEAN, atLeast : Nat, atMost : Nat]
GatewayTypes == {"flutterwave", "paystack", "mpesa"}
(* keys: the services that find a key of theirs among the credentials.     *)
GatewayDocs == [type : GatewayTypes, currency : Currencies, keys : SUBSET GatewayTypes]

NoOrderYet == [flow |-> "transfer", currency |-> "XAF", amount |-> 0, email |-> FALSE,
               paidBy |-> None, phone |-> NoPhone, network |-> None, country |-> None,
               gateway |-> None]

(* An order has an amount and names methods and accounts that are there;   *)
(* fees are not negative.                                                  *)
ASSUME PayinRouteAssumption ==
    /\ Orders \subseteq OrderDocs
    /\ \A m \in DOMAIN PayerMethods : PayerMethods[m] \in PayerMethodDocs
    /\ \A m \in DOMAIN ApiMethods : ApiMethods[m] \in ApiMethodDocs
    /\ \A g \in DOMAIN Gateways :
        Gateways[g] \in GatewayDocs /\ Gateways[g].type \in Gateways[g].keys
    /\ None \notin DOMAIN Gateways \cup DOMAIN PayerMethods
    /\ \A m \in DOMAIN PayerMethods : PayerMethods[m].gateway \in DOMAIN Gateways \cup {None}
    /\ NoOrderYet \notin Orders
    /\ \A o \in Orders :
        /\ o.gateway \in DOMAIN Gateways \cup {None}
        /\ o.flow = "transfer" => o.paidBy \in DOMAIN PayerMethods \cup {None}
    /\ MinCharge \in Int /\ MaxCharge \in Int
    /\ \A o \in Orders : TotalOf(o.amount) \in Int /\ o.amount <= TotalOf(o.amount)

VARIABLES
    flags,          \* the feature flags: direct charge on, fallback on
    credentials,    \* the account whose keys the services hold, by provider
    order,          \* what each handler was asked for
    txs,            \* history: the transactions made for it
    charge,         \* history: what was sent to the provider to be charged
    link,           \* history: the account that the hosted page belongs to
    overtaken       \* history: whose account another handler has replaced

routeOnly == <<flags, credentials, order, txs, charge, link, overtaken>>
routeVars == <<reqVars, routeOnly>>

PayinRouteTypeOK ==
    /\ flags \in [direct : BOOLEAN, fallback : BOOLEAN]
    /\ credentials \in [GatewayTypes -> DOMAIN Gateways \cup {None}]
    /\ \A p \in Procs : order[p] \in OrderDocs /\ charge[p].error \in STRING
    /\ txs \in [Procs -> 0..2] /\ link \in [Procs -> DOMAIN Gateways \cup {None, "unset"}]
    /\ overtaken \subseteq Procs

(* parseBooleanFlag reads each flag; an unreadable one has its default.    *)
PayinRouteInit ==
    /\ RequestsInit
    /\ flags \in [direct : BOOLEAN, fallback : BOOLEAN]
    /\ credentials = [t \in GatewayTypes |-> None]
    /\ order = [p \in Procs |-> NoOrderYet]
    /\ txs = [p \in Procs |-> 0]
    /\ charge = [p \in Procs |-> Unresolved(None)]
    /\ link = [p \in Procs |-> "unset"]
    /\ overtaken = {}

ElsewhereSame == UNCHANGED <<flags, credentials, link, charge, overtaken>>

----
(* assertPayerPhoneSupportsMethod: the number of a transfer's payer is     *)
(* refused if it belongs to another operator than the method's, or cannot  *)
(* be one at all; one whose operator is not known passes.                  *)
RefusesPhone(o, method) ==
    LET resolved == Resolve(o.phone, o.currency, method.country, None)
    IN  /\ method.network # None
        /\ IF resolved.error = None THEN resolved.network # method.network
           ELSE resolved.error \in {"INVALID_PHONE", "UNSUPPORTED_CURRENCY", "UNSUPPORTED_COUNTRY"}

(* FlutterwaveApiService asks for a secret key, of Flutterwave or Paystack, *)
(* in the account of the currency; the accounts of a currency agree.       *)
HasCredentials(currency) ==
    \E g \in DOMAIN Gateways : /\ Gateways[g].currency = currency
                               /\ Gateways[g].keys \cap {"flutterwave", "paystack"} # {}

(* createPayin of a transfer: the payer's method decides.  It brings its   *)
(* account, and the country of the method goes before the user's.          *)
AskTransfer(p, o) ==
    LET method == PayerMethods[o.paidBy]
        mine == IF o.paidBy = None THEN o
                ELSE [o EXCEPT !.gateway = IF method.gateway # None THEN method.gateway ELSE @,
                               !.country = IF method.country # None THEN method.country ELSE @,
                               !.network = None]
    IN  /\ order' = [order EXCEPT ![p] = mine]
        /\ IF o.paidBy = None \/ method.type = "card" \/ o.phone = NoPhone THEN Jump(p, "hosted")
           ELSE IF RefusesPhone(o, method) THEN Return(p)
           ELSE Jump(p, "direct")

(* resolve, for an invoice or a payment request.                           *)
AskInvoice(p, o) ==
    /\ order' = [order EXCEPT ![p] = o]
    /\ Jump(p, IF o.paidBy = "mobile_money" THEN "direct" ELSE "hosted")

(* These have two routes; the others are charged or fail.                  *)
Routed(o) == o.flow \in {"transfer", "invoice"}

(* createDirectCharge: there is no other route.                            *)
AskDirect(p, o) ==
    /\ flags.direct /\ o.amount <= MaxDeposit
    /\ o.currency = "KES" \/ HasCredentials(o.currency)
    /\ order' = [order EXCEPT ![p] = o]
    /\ Jump(p, "create")

(* A method that the developer names: its currency, whether payins may use *)
(* it, and its bounds, of which 0 is none.                                 *)
Takes(method, o) ==
    /\ method.currency = o.currency /\ method.statusPayin
    /\ method.atLeast = 0 \/ o.amount >= method.atLeast
    /\ method.atMost = 0 \/ o.amount <= method.atMost

(* createPayinTransaction: a page; an address to call back that cannot be  *)
(* one ends the request like an amount beyond the limit.                   *)
AskApiPage(p, o) ==
    /\ o.phone = NoPhone /\ o.amount <= MaxDeposit
    /\ order' = [order EXCEPT ![p] = o]
    /\ Jump(p, "hosted")

(* createDirectPayinTransaction: the code of the method goes as the        *)
(* network, and nothing looks whether the charge can be built before the   *)
(* transaction is written.                                                 *)
AskApiCharge(p, o) ==
    /\ o.phone # NoPhone /\ flags.direct /\ o.amount <= MaxDeposit
    /\ o.paidBy # None => o.paidBy \in DOMAIN ApiMethods /\ Takes(ApiMethods[o.paidBy], o)
    /\ order' = [order EXCEPT ![p] = IF o.paidBy = None THEN o ELSE [o EXCEPT !.network = o.paidBy]]
    /\ Jump(p, "create")

Ask(p) ==
    /\ pc[p] = "idle" /\ order[p] = NoOrderYet
    /\ \E o \in Orders : \/ o.flow = "transfer" /\ AskTransfer(p, o)
                         \/ o.flow = "invoice" /\ AskInvoice(p, o)
                         \/ o.flow = "direct" /\ AskDirect(p, o)
                         \/ o.flow = "api" /\ (AskApiPage(p, o) \/ AskApiCharge(p, o))
    /\ UNCHANGED txs
    /\ ElsewhereSame

(* buildMobileMoneyCharge: the request, or the code of its rejection.      *)
BuildCharge(o, amount) ==
    IF o.currency \notin DirectCurrencies THEN Unresolved("UNSUPPORTED_CURRENCY")
    ELSE IF amount <= 0 THEN Unresolved("INVALID_AMOUNT")
    ELSE IF amount < MinCharge THEN Unresolved("AMOUNT_BELOW_MIN")
    ELSE IF amount > MaxCharge THEN Unresolved("AMOUNT_ABOVE_MAX")
    ELSE IF ~o.email THEN Unresolved("MISSING_EMAIL")
    ELSE Resolve(o.phone, o.currency, o.country, o.network)

(* legacyKesDirectCharge sends the number as it is.                        *)
BuildLegacy(o, amount) ==
    IF amount <= 0 \/ o.phone.length < 5 \/ ~o.email THEN Unresolved("invalid")
    ELSE [error |-> None, country |-> "KE", network |-> "MPESA", msisdn |-> o.phone]

\* Mutant: the charge is not built before the transaction is made.
PrepareLater(p) ==
    /\ pc[p] = "direct"
    /\ Jump(p, IF ~flags.direct THEN "rejected" ELSE "create")
    /\ UNCHANGED <<order, txs>>
    /\ ElsewhereSame

(* createDirectPayin checks all it can before it writes anything.          *)
Prepare(p) ==
    /\ pc[p] = "direct"
    /\ IF ~flags.direct \/ BuildCharge(order[p], order[p].amount).error # None
       THEN Jump(p, "rejected")
       ELSE IF HasCredentials(order[p].currency) THEN Jump(p, "create") ELSE Return(p)
    /\ UNCHANGED <<order, txs>>
    /\ ElsewhereSame

(* directMobileMoneyCharge: what is sent, if there is a key to send it.    *)
Built(p) ==
    LET total == TotalOf(order[p].amount)
        built == IF order[p].currency = "KES" /\ ~Routed(order[p])
                 THEN BuildLegacy(order[p], total) ELSE BuildCharge(order[p], total)
    IN  IF built.error = None /\ ~HasCredentials(order[p].currency)
        THEN Unresolved("no credentials") ELSE built

(* The transaction; createDirectPayin builds the charge again with what it *)
(* came to.                                                                *)
CreateDirect(p) ==
    /\ pc[p] = "create"
    /\ txs' = [txs EXCEPT ![p] = @ + 1]
    /\ Jump(p, IF Routed(order[p]) /\ Built(p).error # None THEN "rejected" ELSE "charge")
    /\ UNCHANGED order
    /\ ElsewhereSame

(* The payin is written, and the charge is sent, at most once; what comes  *)
(* back is in Payin.                                                       *)
ChargeDirect(p) ==
    /\ pc[p] = "charge"
    /\ charge' = [charge EXCEPT ![p] = Built(p)]
    /\ Return(p)
    /\ UNCHANGED <<flags, credentials, order, txs, link, overtaken>>

\* Mutant: every error of a charge is taken for a rejection.
AfterAnyError(p) == "rejected"

(* isPreChargeRejection is false of what the provider answers, or does not.*)
AfterError(p) == "idle"

(* The charge is sent, and an error comes back or nothing.                 *)
LoseCharge(p) ==
    /\ pc[p] = "charge" /\ Built(p).error = None
    /\ charge' = [charge EXCEPT ![p] = Built(p)]
    /\ FaultyJump(p, "outage", AfterError(p))
    /\ UNCHANGED <<flags, credentials, order, txs, link, overtaken>>

(* A rejection leads to the hosted page, if the flag allows it.            *)
FallBack(p) ==
    /\ pc[p] = "rejected"
    /\ IF flags.fallback THEN Jump(p, "hosted") ELSE Return(p)
    /\ UNCHANGED <<order, txs>>
    /\ ElsewhereSame

----
(* loadDbCredentials: the account that the order names, or else one of its *)
(* currency, Flutterwave's first.                                          *)
AccountsOf(type, currency) ==
    {g \in DOMAIN Gateways : Gateways[g].currency = currency /\ type \in {None, Gateways[g].type}}

Wanted(o) ==
    IF o.gateway # None THEN {o.gateway}
    ELSE IF AccountsOf("flutterwave", o.currency) # {} THEN AccountsOf("flutterwave", o.currency)
    ELSE AccountsOf(None, o.currency)

(* Which provider makes the page: that of the account that was named, and  *)
(* Flutterwave when none was.                                              *)
HostOf(o) == IF o.gateway # None THEN Gateways[o.gateway].type ELSE "flutterwave"

\* Mutant: keys that are there are kept.
KeysOnce(g, services) ==
    [t \in GatewayTypes |->
        IF credentials[t] = None /\ t \in Gateways[g].keys \cap services THEN g
        ELSE credentials[t]]

(* setCredentials of these services: each takes the keys that it finds.    *)
KeysAfter(g, services) ==
    [t \in GatewayTypes |-> IF t \in Gateways[g].keys \cap services THEN g ELSE credentials[t]]

(* Where a handler is between its keys and their use, by service.          *)
LinkOf == [flutterwave |-> "link", paystack |-> "paystack link", mpesa |-> "push"]
Links == {LinkOf[t] : t \in GatewayTypes}

(* The services keep the keys in a field that all handlers share.          *)
Load(p, g, services) ==
    /\ credentials' = KeysAfter(g, services)
    /\ overtaken' = (overtaken \cup {q \in Procs : pc[q] \in Links}) \ {p}

LoadCredentials(p) ==
    /\ pc[p] = "hosted"
    /\ \/ Wanted(order[p]) = {} /\ UNCHANGED <<credentials, overtaken>>
       \/ \E g \in Wanted(order[p]) : Load(p, g, {"flutterwave", "mpesa"})
    /\ IF HostOf(order[p]) = "paystack" THEN Jump(p, "paystack")
       ELSE IF order[p].amount > MaxDeposit THEN Return(p)
       ELSE Jump(p, LinkOf[HostOf(order[p])])
    /\ UNCHANGED <<flags, order, txs, charge, link>>

(* createPaystackPayin loads the account once more, for its own service.   *)
LoadPaystackKeys(p) ==
    /\ pc[p] = "paystack"
    /\ Load(p, order[p].gateway, {"paystack"})
    /\ IF order[p].amount > MaxDeposit THEN Return(p) ELSE Jump(p, "paystack link")
    /\ UNCHANGED <<flags, order, txs, charge, link>>

(* The transaction is made, and then what the payer follows, by the keys   *)
(* that are there by now: a page, or with M-Pesa a push to the phone.      *)
Offer(p, service) ==
    /\ pc[p] = LinkOf[service]
    /\ txs' = [txs EXCEPT ![p] = @ + 1]
    /\ link' = [link EXCEPT ![p] = credentials[service]]
    /\ Return(p)
    /\ UNCHANGED <<flags, credentials, order, charge, overtaken>>

MakeLink(p) == Offer(p, "flutterwave")
MakePaystackLink(p) == Offer(p, "paystack")
PushMpesa(p) == Offer(p, "mpesa")

(* The provider does not give a link.                                      *)
FailToMakeLink(p) ==
    /\ pc[p] \in Links
    /\ txs' = [txs EXCEPT ![p] = @ + 1]
    /\ FaultyReturn(p, "outage")
    /\ UNCHANGED order
    /\ ElsewhereSame

PayinRouteNext ==
    \E p \in Procs :
        \/ Ask(p) \/ Prepare(p) \/ CreateDirect(p) \/ ChargeDirect(p) \/ LoseCharge(p) \/ FallBack(p)
        \/ LoadCredentials(p) \/ LoadPaystackKeys(p)
        \/ MakeLink(p) \/ MakePaystackLink(p) \/ PushMpesa(p) \/ FailToMakeLink(p)

PayinRouteSpec == PayinRouteInit /\ [][PayinRouteNext]_routeVars

----
Sent(p) == charge[p].error = None /\ charge[p].country # None

(* payin-route.service.ts, invariant 1: a payment that may have been       *)
(* charged is never offered a hosted page, and the page is not made beside *)
(* the transaction of a direct charge that was given up: the amounts apart *)
(* whose fees alone lift them over the ceiling of a charge.                *)
OneRoute ==
    \A p \in Procs : link[p] # "unset" =>
        /\ ~Sent(p)
        /\ \/ txs[p] = 1
           \/ order[p].amount <= MaxCharge /\ TotalOf(order[p].amount) > MaxCharge

(* The operator that is charged is the one that the number belongs to,     *)
(* however the number was written and whatever was chosen or hinted; for a *)
(* transfer it is also that of the method the payer chose.  A number       *)
(* resolves in its international form as it did.                           *)
OwnerIsCharged ==
    \A p \in Procs : Sent(p) /\ charge[p].country \in Countries =>
        LET c == charge[p] IN
        /\ Resolve(c.msisdn, order[p].currency, None, c.network) = c
        /\ OwnersOf(c.country, c.msisdn.second) \subseteq {c.network}
        /\ order[p].flow = "transfer" =>
             PayerMethods[order[p].paidBy].network \in {None, c.network}

(* A hosted page belongs to the account of its order, unless there is none *)
(* of Flutterwave's to load or another handler loads its own in between.   *)
ForeignAccountLostARace ==
    \A p \in Procs :
        link[p] # "unset" /\ (\E g \in Wanted(order[p]) : Gateways[g].type = HostOf(order[p]))
            => link[p] \in Wanted(order[p]) \/ p \in overtaken
====
