---- MODULE Requests ----
(***************************************************************************)
(* The handlers of the server that the components of the back office share *)
(* (controllers, crons and the services they call).  A handler runs one    *)
(* request to its end; every call it awaits is one step, and the steps of  *)
(* different handlers interleave.                                          *)
(***************************************************************************)
EXTENDS Integers, FiniteSets

CONSTANTS
    Procs,      \* handlers at work at the same time
    Faults,     \* what may go wrong: see FaultKinds
    MaxFaults,  \* bound: how many faults of each kind one behaviour has
    Amount(_)   \* the amount of a transaction or of a request

(* "crash": the instance stops in the middle of a request.  "write": a     *)
(* database write throws.  "outage": a provider refuses or does not answer.*)
FaultKinds == {"crash", "write", "outage"}

ASSUME RequestsAssumption == Faults \subseteq FaultKinds /\ MaxFaults \in Nat

VARIABLES
    pc,         \* where each handler is
    stack,      \* what it has read so far: a record, by request
    faults      \* history: faults so far, by kind

reqVars == <<pc, stack, faults>>

NoStack == [subject |-> "none"]

RequestsInit ==
    /\ pc = [p \in Procs |-> "idle"]
    /\ stack = [p \in Procs |-> NoStack]
    /\ faults = [k \in Faults |-> 0]

(* A request begins and remembers frame.                                   *)
Begin(p, label, frame) ==
    /\ pc[p] = "idle"
    /\ pc' = [pc EXCEPT ![p] = label]
    /\ stack' = [stack EXCEPT ![p] = frame]
    /\ UNCHANGED faults

Jump(p, label) ==
    /\ pc' = [pc EXCEPT ![p] = label]
    /\ UNCHANGED <<stack, faults>>

(* It goes on at another label and remembers frame.                        *)
JumpWith(p, label, frame) ==
    /\ pc' = [pc EXCEPT ![p] = label]
    /\ stack' = [stack EXCEPT ![p] = frame]
    /\ UNCHANGED faults

Return(p) == JumpWith(p, "idle", NoStack)

Faulty(k) ==
    /\ k \in Faults
    /\ faults[k] < MaxFaults
    /\ faults' = [faults EXCEPT ![k] = @ + 1]

FaultyReturn(p, k) ==
    /\ Faulty(k)
    /\ pc' = [pc EXCEPT ![p] = "idle"]
    /\ stack' = [stack EXCEPT ![p] = NoStack]

FaultyJump(p, k, label) ==
    /\ Faulty(k)
    /\ pc' = [pc EXCEPT ![p] = label]
    /\ UNCHANGED stack

Happened(k) == k \in Faults /\ faults[k] > 0

Serene == \A k \in Faults : faults[k] = 0

(* A message was taken, or may have been, and its sender was not told.     *)
LostAnswers == IF "outage" \in Faults THEN faults["outage"] ELSE 0
====
