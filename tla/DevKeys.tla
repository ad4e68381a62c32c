---- MODULE DevKeys ----
(***************************************************************************)
(* The keys of a developer: how they are made, replaced, switched off and  *)
(* accepted (dev.service.ts 56-266, dev.schema.ts, dev.controller.ts).     *)
(*                                                                         *)
(* A developer has one document, but no index says so.  Whether he may use *)
(* the API is read from the copy of his profile that the instance keeps.   *)
(***************************************************************************)
EXTENDS UserCache, Sequences

CONSTANTS
    MaxKeys,    \* bound: key pairs that are generated
    BadUrl      \* a webhook's address that normalizeCallbackUrl refuses

ASSUME DevKeysAssumption == MaxKeys \in Nat

VARIABLES
    devs,       \* the developer's documents, in the order findOne sees them
    keys,       \* history: key pairs generated so far
    issued,     \* history: the keys that a response has told him
    replaced,   \* history: the keys that a reset has overwritten
    collided    \* history: a document was made beside one of another request

keyOnly == <<devs, keys, issued, replaced, collided>>
keyVars == <<cacheVars, keyOnly>>

Urls == {"url", BadUrl}
DevDocs == [secretKey : 1..MaxKeys, status : BOOLEAN, webhookUrl : {"", "url"}]

DevKeysTypeOK ==
    /\ devs \in Seq(DevDocs)
    /\ keys \in 0..MaxKeys
    /\ issued \cup replaced \subseteq 1..keys
    /\ collided \in BOOLEAN

DevKeysInit ==
    /\ UserCacheInit
    /\ devs = <<>> /\ keys = 0
    /\ issued = {} /\ replaced = {} /\ collided = FALSE

(* verifyUserConditions, of an organisation that is verified: what is left *)
(* is whether it is active, by the copy if there is one.                   *)
MayUseApi == IF cached # NoCopy THEN cached.isActive ELSE profile.isActive

KeyJob(request, value) ==
    [subject |-> request, value |-> value, seen |-> Len(devs), id |-> 0]

Tell(p, key) == issued' = issued \cup {key} /\ Return(p)

NewKey == keys < MaxKeys /\ keys' = keys + 1

(* getDevDataByUserId: what to do once it has the document with this id.   *)
GoOn(p, id) ==
    IF stack[p].subject \in {"status", "webhook"}
    THEN JumpWith(p, "change", [stack[p] EXCEPT !.id = id]) /\ UNCHANGED issued
    ELSE Tell(p, devs'[id].secretKey)

(* my-key, and an administrator's api-keys.                                *)
AskForKey(p) ==
    /\ Begin(p, "find", KeyJob("read", FALSE))
    /\ UNCHANGED <<cacheOnly, keyOnly>>

(* update-status and webhook-url; an empty address is as good as another.  *)
AskForChange(p) ==
    /\ MayUseApi
    /\ \/ \E status \in BOOLEAN : Begin(p, "find", KeyJob("status", status))
       \/ \E url \in Urls : Begin(p, "find", KeyJob("webhook", url))
    /\ UNCHANGED <<cacheOnly, keyOnly>>

(* getDevDataByUserId.  Without a document it makes one, switched off.     *)
FindDev(p) ==
    /\ pc[p] = "find"
    /\ UNCHANGED devs
    /\ IF devs # <<>> THEN GoOn(p, 1) ELSE Jump(p, "verify") /\ UNCHANGED issued
    /\ UNCHANGED <<cacheOnly, keys, replaced, collided>>

VerifyFirst(p) ==
    /\ pc[p] = "verify"
    /\ IF MayUseApi THEN Jump(p, "insert") ELSE Return(p)
    /\ UNCHANGED <<cacheOnly, keyOnly>>

(* generate-key.                                                           *)
AskToGenerate(p) ==
    /\ MayUseApi
    /\ Begin(p, "look", KeyJob("generate", TRUE))
    /\ UNCHANGED <<cacheOnly, keyOnly>>

\* Mutant: it does not look for a document, as on a first read.
LookForNothing(p) ==
    /\ pc[p] = "look"
    /\ Jump(p, "insert")
    /\ UNCHANGED <<cacheOnly, keyOnly>>

(* createDevData returns the document that is there.                       *)
LookForDev(p) ==
    /\ pc[p] = "look"
    /\ IF devs # <<>> THEN Tell(p, devs[1].secretKey)
       ELSE Jump(p, "insert") /\ UNCHANGED issued
    /\ UNCHANGED <<cacheOnly, devs, keys, replaced, collided>>

(* createDevData: a document is on if it was asked for.                    *)
InsertDev(p) ==
    /\ pc[p] = "insert"
    /\ NewKey
    /\ devs' = Append(devs, [secretKey |-> keys', status |-> stack[p].subject = "generate",
                             webhookUrl |-> ""])
    /\ collided' = (collided \/ Len(devs) > stack[p].seen)
    /\ GoOn(p, Len(devs'))
    /\ UNCHANGED <<cacheOnly, replaced>>

(* updateStatus and updateWebhookUrl write by the id they have read.       *)
ChangeDev(p) ==
    /\ pc[p] = "change"
    /\ LET id == stack[p].id
           value == stack[p].value
       IN  \/ /\ stack[p].subject = "status"
              /\ devs' = [devs EXCEPT ![id].status = value]
              /\ Tell(p, devs[id].secretKey)
           \/ /\ stack[p].subject = "webhook" /\ value # BadUrl
              /\ devs' = [devs EXCEPT ![id].webhookUrl = value]
              /\ Tell(p, devs[id].secretKey)
           \/ /\ stack[p].subject = "webhook" /\ value = BadUrl
              /\ Return(p) /\ UNCHANGED <<devs, issued>>
    /\ UNCHANGED <<cacheOnly, keys, replaced, collided>>

(* reset-key: the user is verified, and then the keys are overwritten.     *)
AskToReset(p) ==
    /\ MayUseApi
    /\ Begin(p, "reset", KeyJob("generate", TRUE))
    /\ UNCHANGED <<cacheOnly, keyOnly>>

ResetKey(p) ==
    /\ pc[p] = "reset"
    /\ NewKey
    /\ IF devs = <<>> THEN Return(p) /\ UNCHANGED <<devs, issued, replaced>>
       ELSE /\ devs' = [devs EXCEPT ![1].secretKey = keys']
            /\ replaced' = replaced \cup {devs[1].secretKey}
            /\ Tell(p, keys')
    /\ UNCHANGED <<cacheOnly, collided>>

(* A write throws.                                                         *)
FailToWriteDev(p) ==
    /\ pc[p] \in {"insert", "change", "reset"}
    /\ FaultyReturn(p, "write")
    /\ UNCHANGED <<cacheOnly, keyOnly>>

(* getDevDataByKey compares with the document that findOne returns.        *)
FoundBy(key) == devs # <<>> /\ devs[1].secretKey = key

(* authKey: what the API accepts.                                          *)
Accepts(key) == MayUseApi /\ FoundBy(key) /\ devs[1].status

DevKeysNext ==
    \/ UserCacheNext /\ UNCHANGED keyOnly
    \/ \E p \in Procs :
        \/ AskForKey(p) \/ AskForChange(p) \/ FindDev(p) \/ VerifyFirst(p)
        \/ AskToGenerate(p) \/ LookForDev(p) \/ InsertDev(p) \/ ChangeDev(p)
        \/ AskToReset(p) \/ ResetKey(p) \/ FailToWriteDev(p)

DevKeysSpec == DevKeysInit /\ [][DevKeysNext]_keyVars

----
(* A key the developer was told opens the API as long as he may use it, is *)
(* switched on and has not replaced the key, and no other key does: two    *)
(* keys at once, one of them dead, need two requests that overlapped when  *)
(* there was no document yet.  And the API is closed to one who is         *)
(* inactive, but for updates that need not have reached the copy of his    *)
(* profile (dev.service.ts 172-193).                                       *)
KeysObeyTheirOwner ==
    /\ \A k \in issued \ replaced :
        Accepts(k) \/ collided \/ ~MayUseApi \/ ~devs[1].status
    /\ \A k \in replaced : ~Accepts(k)
    /\ (\E k \in 1..keys : Accepts(k)) /\ ~missed /\ (\A p \in Procs : pc[p] # "invalidate")
        => profile.isActive
====
