---------------------------- MODULE DeviceSession ----------------------------
(***************************************************************************)
(* What the device session manager promises (spec 4.2): per thread and    *)
(* device kind, a two-state machine.  A successful open moves             *)
(* Uninitialized to Ready; a failed open, and every use, leave the state  *)
(* alone; Ready lasts for the rest of the thread, whose teardown releases *)
(* every handle of that thread at once.  Nothing else changes a session.  *)
(***************************************************************************)
CONSTANTS Threads,  \* the host threads calling into the library
          Kinds     \* the device kinds: input injection and clipboard

VARIABLE session

Uninitialized == "Uninitialized"
Ready         == "Ready"

TypeOK == session \in [Threads -> [Kinds -> {Uninitialized, Ready}]]

Init == session = [t \in Threads |-> [k \in Kinds |-> Uninitialized]]

\* the device-open call of thread t succeeds and its handle is cached
Open(t, k) ==
    /\ session[t][k] = Uninitialized
    /\ session' = [session EXCEPT ![t][k] = Ready]

\* thread t ends; its thread-local handles are dropped
Teardown(t) ==
    session' = [session EXCEPT ![t] = [k \in Kinds |-> Uninitialized]]

Next == \E t \in Threads : Teardown(t) \/ \E k \in Kinds : Open(t, k)

Spec == Init /\ [][Next]_session
=============================================================================
