---------------------- MODULE TransactionalMutexProofs ----------------------
(* Theorems about TransactionalMutex, for every value of its constants. *)
EXTENDS TransactionalMutex, TransactionalIOProofs

\* What callers see of the adapter with its mutex is a run of TransactionalIO: its
\* safety properties hold whoever waits for whom.
THEOREM MutexRefines == MutexSpec => Spec
  <1>1. MutexInit => Init
    BY DEF MutexInit
  <1>2. [MutexNext]_mvars => [Next]_vars
    BY DEF MutexNext, mvars, Next, Lock, Run
  <1>3. QED BY <1>1, <1>2, PTL DEF MutexSpec, Spec

\* A step of a call leaves the calls of the others alone.
LEMMA OthersKept ==
  ASSUME TypeOK, NEW c \in Contexts, Start(c) \/ Step(c),
         NEW d \in Contexts, d # c
  PROVE  call'[d] = call[d]
  <1>1. ASSUME NEW r, Becomes(c, r) PROVE call'[d] = call[d]
    BY <1>1 DEF TypeOK, Becomes
  <1>2. CASE Start(c)
    BY <1>1, <1>2 DEF Start, port_pin, write_port, read_port, refresh, write_back
  <1>3. CASE Step(c)
    <2>1. ASSUME NEW w, Done(c, w) PROVE call'[d] = call[d]
      BY <1>1, <2>1 DEF Done
    <2>2. Return(c) => call'[d] = call[d]
      BY <1>1 DEF Return
    <2>3. CASE \/ WritePortCache(c) \/ WritePortDirty(c) \/ WritePortFresh(c)
               \/ RefreshCache(c) \/ RefreshFresh(c)
      BY <2>1, <2>3 DEF WritePortCache, WritePortDirty, WritePortFresh, RefreshCache,
         RefreshFresh
    <2>4. CASE \/ ReadPortReturn(c) \/ RefreshReadFails(c) \/ WriteBackWriteFails(c)
               \/ WriteBackDone(c)
      BY <2>2, <2>4 DEF ReadPortReturn, RefreshReadFails, WriteBackWriteFails, WriteBackDone
    <2>5. CASE \/ ReadPortFresh(c) \/ ReadPortCache(c) \/ RefreshIssued(c) \/ RefreshRead(c)
               \/ WriteBackFresh(c) \/ WriteBackCache(c) \/ WriteBackWrite(c)
      BY <1>1, <2>5, Zenon DEF ReadPortFresh, ReadPortCache, RefreshIssued, RefreshRead,
         WriteBackFresh, WriteBackCache, WriteBackWrite
    <2>6. QED BY <1>3, <2>3, <2>4, <2>5 DEF Step
  <1>4. QED BY <1>2, <1>3

\* The mutex is held for a transaction that is still to be made: every way out of
\* the closure, by an answer or an error, gives it back.
THEOREM MutexHeld == MutexSpec => []HeldForTransaction
  <1>1. MutexInit => HeldForTransaction
    BY DEF MutexInit, HeldForTransaction
  <1>2. TypeOK /\ HeldForTransaction /\ [MutexNext]_mvars => HeldForTransaction'
    <2> SUFFICES ASSUME TypeOK, HeldForTransaction, [MutexNext]_mvars, holder' # NoOne
                 PROVE  holder' \in Contexts /\ NeedsBus(holder)'
      BY DEF HeldForTransaction
    <2>1. ASSUME UNCHANGED <<holder, call>> PROVE holder' \in Contexts /\ NeedsBus(holder)'
      BY <2>1 DEF HeldForTransaction, NeedsBus
    <2>2. ASSUME UNCHANGED holder, UNCHANGED call[holder]
          PROVE  holder' \in Contexts /\ NeedsBus(holder)'
      BY <2>2 DEF HeldForTransaction, NeedsBus
    <2>3. ASSUME NEW c \in Contexts, Start(c), UNCHANGED holder
          PROVE  holder' \in Contexts /\ NeedsBus(holder)'
      <3>1. CASE UNCHANGED call
        BY <2>1, <2>3, <3>1
      <3>2. CASE ~UNCHANGED call
        <4>1. Idle(c)
          BY <2>3, <3>2 DEF Start, port_pin, write_port, read_port, refresh, write_back,
             MayUsePin, MayTransfer
        <4>2. holder \in Contexts /\ holder # c
          BY <2>3, <4>1 DEF HeldForTransaction, NeedsBus, Idle
        <4>3. QED BY <2>2, <2>3, <4>2, OthersKept
      <3>3. QED BY <3>1, <3>2
    <2>4. ASSUME NEW c \in Contexts, Lock(c)
          PROVE  holder' \in Contexts /\ NeedsBus(holder)'
      BY <2>4 DEF Lock, NeedsBus, vars
    <2>5. ASSUME NEW c \in Contexts, Run(c)
          PROVE  holder' \in Contexts /\ NeedsBus(holder)'
      <3>1. ~NeedsBus(c) /\ Step(c) /\ UNCHANGED holder
        BY <2>5 DEF Run, Released
      <3>2. holder \in Contexts /\ holder # c
        BY <3>1 DEF HeldForTransaction
      <3>3. QED BY <2>2, <3>1, <3>2, OthersKept
    <2>6. ASSUME NEW p \in Ports \ Outputs, DriveInput(p), UNCHANGED holder
          PROVE  holder' \in Contexts /\ NeedsBus(holder)'
      BY <2>1, <2>6 DEF DriveInput
    <2>7. CASE UNCHANGED mvars
      BY <2>1, <2>7 DEF mvars, vars
    <2>8. QED BY <2>3, <2>4, <2>5, <2>6, <2>7 DEF MutexNext
  <1>3. QED BY <1>1, <1>2, MutexRefines, TypeCorrect, PTL DEF MutexSpec
=============================================================================
