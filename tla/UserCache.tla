---- MODULE UserCache ----
(***************************************************************************)
(* The copy of a user that a server instance keeps for its readers.        *)
(*   user.service.ts (getUserById and the updates), cache.service.ts       *)
(***************************************************************************)
EXTENDS Requests

CONSTANT MaxUpdates     \* bound: updates of the user

ASSUME UserCacheAssumption == MaxUpdates \in Nat

VARIABLES
    profile,    \* the document: its version, and isActive
    cached,     \* the instance's copy, or NoCopy
    updates,    \* history: updates of the user
    missed      \* history: the copy is one no invalidation had to reach

cacheOnly == <<profile, cached, updates, missed>>
cacheVars == <<reqVars, cacheOnly>>

NoCopy == [version |-> -1, isActive |-> FALSE]
Profiles == [version : 0..MaxUpdates, isActive : BOOLEAN]

UserCacheTypeOK ==
    /\ profile \in Profiles
    /\ cached \in Profiles \cup {NoCopy}
    /\ updates \in 0..MaxUpdates
    /\ missed \in BOOLEAN
    /\ pc \in [Procs -> {"idle", "fill", "toggle", "invalidate"}]

UserCacheInit ==
    /\ RequestsInit
    /\ profile = [version |-> 0, isActive |-> TRUE]
    /\ cached = NoCopy /\ updates = 0 /\ missed = FALSE

ReadProfile == [subject |-> "profile", copy |-> profile]

(* getUserById without a copy: it reads the user; it keeps an active one.  *)
StartGet(p) ==
    /\ cached = NoCopy
    /\ Begin(p, "fill", ReadProfile)
    /\ UNCHANGED cacheOnly

Fill(p) ==
    /\ pc[p] = "fill"
    /\ IF stack[p].copy.isActive
       THEN /\ cached' = stack[p].copy
            /\ missed' = (missed \/ stack[p].copy # profile)
       ELSE UNCHANGED <<cached, missed>>
    /\ Return(p)
    /\ UNCHANGED <<profile, updates>>

SetProfile(isActive) ==
    /\ updates < MaxUpdates /\ updates' = updates + 1
    /\ profile' = [version |-> profile.version + 1, isActive |-> isActive]

(* updateUser, updateItems, the pictures.                                  *)
UpdateUser(p) ==
    /\ SetProfile(profile.isActive)
    /\ Begin(p, "invalidate", NoStack)
    /\ UNCHANGED <<cached, missed>>

(* updateStatus turns what it has read; the flags of an administrator and  *)
(* of a verified user are turned so too.                                   *)
StartTurn(p) ==
    /\ Begin(p, "toggle", ReadProfile)
    /\ UNCHANGED cacheOnly

Turn(p) ==
    /\ pc[p] = "toggle"
    /\ SetProfile(~stack[p].copy.isActive)
    /\ JumpWith(p, "invalidate", NoStack)
    /\ UNCHANGED <<cached, missed>>

\* Mutant: the copy stays.
InvalidateNothing(p) ==
    /\ pc[p] = "invalidate"
    /\ Return(p)
    /\ UNCHANGED cacheOnly

InvalidateCopy(p) ==
    /\ pc[p] = "invalidate"
    /\ cached' = NoCopy /\ missed' = FALSE
    /\ Return(p)
    /\ UNCHANGED <<profile, updates>>

(* Updates that invalidate no copy of this instance: those of another one, *)
(* deleteUser's and auth.service's.                                        *)
UpdateElsewhere ==
    /\ \E isActive \in BOOLEAN : SetProfile(isActive)
    /\ missed' = (missed \/ cached # NoCopy)
    /\ UNCHANGED <<reqVars, cached>>

(* The time of the copy is over, or the instance starts again.             *)
ExpireCopy ==
    /\ cached # NoCopy
    /\ cached' = NoCopy /\ missed' = FALSE
    /\ UNCHANGED <<reqVars, profile, updates>>

CacheCrash(p) ==
    /\ pc[p] # "idle"
    /\ FaultyReturn(p, "crash")
    /\ cached' = NoCopy /\ missed' = FALSE
    /\ UNCHANGED <<profile, updates>>

UserCacheNext ==
    \/ UpdateElsewhere \/ ExpireCopy
    \/ \E p \in Procs :
        \/ StartGet(p) \/ Fill(p) \/ UpdateUser(p) \/ StartTurn(p) \/ Turn(p)
        \/ InvalidateCopy(p) \/ CacheCrash(p)

UserCacheSpec == UserCacheInit /\ [][UserCacheNext]_cacheVars

(* The copy an instance keeps is the user as it is, once its own updates   *)
(* are through: but for the updates of others, and for one that falls      *)
(* between a reader's read and its keeping of the copy.                    *)
CopyIsFresh ==
    cached # NoCopy /\ ~missed /\ (\A p \in Procs : pc[p] # "invalidate") => cached = profile
====
