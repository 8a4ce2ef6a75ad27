------------------------ MODULE TransactionalMutex ------------------------
(***************************************************************************)
(* The transactional adapter with the mutex of its bus.  TransactionalIO   *)
(* takes a turn of refresh or write_back as one step; here the turn waits  *)
(* for the mutex first, makes its bus transaction while it holds it, and   *)
(* gives it back.  Pin calls never touch the mutex.                        *)
(***************************************************************************)
EXTENDS TransactionalIO

CONSTANT NoOne  \* the holder of a free mutex

ASSUME NoOneAssumption == NoOne \notin Contexts

VARIABLE holder \* context that holds the mutex

mvars == <<holder, vars>>

MutexInit == Init /\ holder = NoOne

\* Variant: every step of a call runs under the mutex, a pin call's too.
NeedsBusAlways(c) == ~Idle(c)

\* The next step of the call of c is a bus transaction.
NeedsBus(c) ==
  /\ call[c].remaining # {}
  /\ \/ call[c].pc = "refresh_read"
     \/ call[c].pc = "write_back" /\ call[c].todo = {}

\* Variant: a call that returns with the error of its transaction keeps the mutex.
ReleasedUnlessReturned(c) == IF Idle(c)' THEN holder ELSE NoOne

\* The guard is dropped when the closure returns, with an error or without.
Released(c) == NoOne

\* lock waits while somebody holds the mutex.
Lock(c) ==
  /\ NeedsBus(c) /\ holder = NoOne
  /\ holder' = c
  /\ UNCHANGED vars

\* A step of the call of c: a bus transaction under the mutex, or any other.
Run(c) ==
  /\ Step(c)
  /\ \/ NeedsBus(c) /\ holder = c /\ holder' = Released(c)
     \/ ~NeedsBus(c) /\ UNCHANGED holder

MutexNext ==
  \/ \E c \in Contexts : Start(c) /\ UNCHANGED holder
  \/ \E c \in Contexts : Lock(c) \/ Run(c)
  \/ \E p \in Ports \ Outputs : DriveInput(p) /\ UNCHANGED holder

MutexSpec == MutexInit /\ [][MutexNext]_mvars

\* A context goes on with its call, except that it may wait for the mutex; a free
\* mutex that is wanted goes to somebody, not to anyone in particular.
RunFairness ==
  /\ \A c \in Contexts : WF_mvars(Run(c))
  /\ WF_mvars(\E c \in Contexts : Lock(c))

\* An assumption about the mutex that IOMutex does not make: whoever finds it free
\* again and again gets it in the end.
LockFairness == \A c \in Contexts : SF_mvars(Lock(c))

FairSpec == MutexSpec /\ RunFairness

-----------------------------------------------------------------------------
(* Properties. *)

\* The mutex is held for a bus transaction that is still to be made, by nobody else:
\* it is never left locked by a call that has failed or returned.
HeldForTransaction == holder # NoOne => holder \in Contexts /\ NeedsBus(holder)

\* With a mutex that starves nobody every call returns: the scanning loops of
\* refresh and write_back end, and nobody waits for a mutex that is not given back.
CallsReturn == LockFairness => \A c \in Contexts : []<>Idle(c)

\* Without LockFairness sets and reads of pins return all the same: they never wait,
\* neither for the bus nor for a refresh or a write_back of others.
PinCallsReturn ==
  \A c \in Contexts : call[c].pc \in {"write_port", "read_port"} ~> Idle(c)

\* Without LockFairness a refresh or write_back is kept from returning only by
\* being passed over: another context gets the mutex, and gives it back, for ever.
StarvedOnlyByOthers ==
  \A c \in Contexts :
    \/ []<>Idle(c)
    \/ \E d \in Contexts \ {c} : ([]<>(holder = d)) /\ ([]<>(holder # d))
=============================================================================
