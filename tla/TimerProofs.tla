----------------------------- MODULE TimerProofs -----------------------------
(***************************************************************************)
(* Proofs about Timer for every set of sleeps and wakers and every clock:  *)
(* no sleeper is forgotten, overslept or woken as done before its time.    *)
(***************************************************************************)
EXTENDS Timer, WellFoundedInduction, TLAPS

(* What the thread has taken from the tables is due and in neither.        *)
ThreadInv ==
  /\ thread \in {"popped", "completed"} <=> popped # NoSleep
  /\ popped # NoSleep => popped \notin pending /\ stage[popped] # "new" /\ deadline[popped] <= now
  /\ thread = "completed" => completed[popped]

(* The flag is set, and a poll answers, for a sleep whose deadline passed. *)
FlagInv ==
  \A s \in Sleep :
    /\ completed[s] => stage[s] # "new" /\ deadline[s] <= now
    /\ stage[s] \in {"ready", "done"} => deadline[s] <= now

(* A live sleep is in the tables, with the thread, or its flag is set.     *)
DeliveryInv ==
  \A s \in Live : s \in pending \/ (popped = s /\ thread = "popped") \/ completed[s]

(* The waker a poll stores is that of the poll until the poll is over.     *)
PollInv ==
  \A s \in Sleep :
    /\ stage[s] \in {"polled", "storing", "stored", "ready"} => context[s] # 0
    /\ stage[s] = "stored" => slot[s] = context[s]
    /\ stage[s] = "idle" /\ ~woken[s] =>
         context[s] # 0 /\ slot[s] = context[s] /\ (s \in pending \/ popped = s)

IInv ==
  /\ TypeOK
  /\ TablesAgree
  /\ WaitCoversEarliest
  /\ ThreadInv
  /\ FlagInv
  /\ DeliveryInv
  /\ PollInv

(* The least key of a table that is not empty exists: its instants are     *)
(* natural numbers.                                                        *)
LEMMA EarliestKey ==
  ASSUME TypeOK, deadlines # {}
  PROVE  FirstKeys # {}
<1> DEFINE T == {key[1] : key \in deadlines}
<1>1. \A key \in deadlines : key[1] \in Nat
  BY TimerAssumption DEF TypeOK, Instant
<1>2. T \subseteq Nat /\ T # {}
  BY <1>1
<1>3. PICK x \in T : \A y \in T : <<y, x>> \notin OpToRel(<, Nat)
  BY <1>2, NatLessThanWellFounded, WFMin, Zenon
<1>4. \A y \in T : x <= y
  <2> SUFFICES ASSUME NEW y \in T, ~(x <= y)
               PROVE  FALSE
    OBVIOUS
  <2>1. x \in Nat /\ y \in Nat /\ y < x
    BY <1>2
  <2>2. <<y, x>> \in OpToRel(<, Nat)
    BY <2>1, Zenon DEF OpToRel
  <2>3. QED
    BY <1>3, <2>2
<1>5. PICK key \in deadlines : x = key[1]
  OBVIOUS
<1>6. QED
  BY <1>4, <1>5 DEF FirstKeys

(* Every step keeps the types, the thread's wait included.                 *)
LEMMA TypeStep ==
  ASSUME TypeOK, ThreadInv, Next
  PROVE  TypeOK'
<1>1. ASSUME NEW s \in Sleep, NEW d \in Instant, Register(s, d)
      PROVE  TypeOK'
  BY <1>1 DEF TypeOK, Register, Notify, completion
<1>2. ASSUME NEW s \in Sleep, NEW w \in Waker, StartPoll(s, w)
      PROVE  TypeOK'
  BY <1>2 DEF TypeOK, Move, StartPoll, state, scheduler, completion
<1>3. ASSUME NEW s \in Sleep, CheckCompleted(s) \/ Recheck(s)
      PROVE  TypeOK'
  BY <1>3 DEF TypeOK, Move, CheckCompleted, Recheck, state, scheduler, completion
<1>4. ASSUME NEW s \in Sleep, StoreWaker(s)
      PROVE  TypeOK'
  BY <1>4 DEF TypeOK, Move, StoreWaker, Stored, state, scheduler, completion
<1>5. ASSUME NEW s \in Sleep, Finish(s)
      PROVE  TypeOK'
  BY <1>5 DEF TypeOK, Finish, Move, Cancel, Canceled, Notify, Forget, completion
<1>6. ASSUME NEW s \in Sleep, Drop(s)
      PROVE  TypeOK'
  BY <1>6 DEF TypeOK, Drop, Move, Cancel, Canceled, Notify, Forget, completion
<1>7. ASSUME ThreadWaits
      PROVE  TypeOK'
  <2>1. until' \in Instant \cup {Forever}
    BY <1>7, EarliestKey DEF ThreadWaits, FirstKeys, TypeOK
  <2>2. QED
    BY <1>7, <2>1 DEF TypeOK, ThreadWaits, sleeps, completion, state
<1>8. ASSUME ThreadPops
      PROVE  TypeOK'
  BY <1>8 DEF TypeOK, ThreadPops, FirstKeys, Remaining, sleeps, completion
<1>9. ASSUME Complete
      PROVE  TypeOK'
  BY <1>9 DEF TypeOK, ThreadInv, Complete, sleeps, state
<1>10. ASSUME WakeLatest
       PROVE  TypeOK'
  BY <1>10 DEF TypeOK, ThreadInv, WakeLatest, WokenBy, sleeps, state
<1>11. ASSUME Resumes \/ Spurious
       PROVE  TypeOK'
  BY <1>11 DEF TypeOK, Resumes, Spurious, ThreadResumes, sleeps, completion, state
<1>12. ASSUME Tick
       PROVE  TypeOK'
  BY <1>12, TimerAssumption DEF TypeOK, Tick, Instant, sleeps, completion, state, scheduler
<1>13. QED
  BY <1>1, <1>2, <1>3, <1>4, <1>5, <1>6, <1>7, <1>8, <1>9, <1>10, <1>11, <1>12
    DEF Next, PollStep, ThreadStep

LEMMA InitInv == Init => IInv
<1> SUFFICES ASSUME Init
             PROVE  IInv
  OBVIOUS
<1>1. TypeOK
  <2>1. /\ stage \in [Sleep -> {"new"}] /\ deadline \in [Sleep -> {0}]
        /\ woken \in [Sleep -> {FALSE}] /\ completed \in [Sleep -> {FALSE}]
        /\ context \in [Sleep -> {0}] /\ slot \in [Sleep -> {0}]
    BY DEF Init
  <2>2. 0 \in Instant
    BY TimerAssumption DEF Instant
  <2>3. QED
    BY <2>1, <2>2 DEF Init, TypeOK
<1>2. TablesAgree /\ WaitCoversEarliest /\ ThreadInv
  BY DEF Init, TablesAgree, WaitCoversEarliest, ThreadInv
<1>3. FlagInv /\ DeliveryInv /\ PollInv
  BY DEF Init, FlagInv, DeliveryInv, PollInv, Live
<1>4. QED
  BY <1>1, <1>2, <1>3 DEF IInv

(* A registration adds a sleep to both tables and notifies the thread.     *)
LEMMA RegisterInv ==
  ASSUME IInv, NEW s \in Sleep, NEW d \in Instant, Register(s, d)
  PROVE  IInv'
<1> USE DEF Live
<1>1. TypeOK'
  BY TypeStep DEF IInv, Next
<1>2. TablesAgree'
  BY DEF IInv, TypeOK, TablesAgree, ThreadInv, Register
<1>3. WaitCoversEarliest'
  BY DEF IInv, WaitCoversEarliest, Register, Notify
<1>4. ThreadInv'
  BY DEF IInv, TypeOK, ThreadInv, Register, completion
<1>5. FlagInv'
  BY DEF IInv, TypeOK, FlagInv, Register, completion
<1>6. DeliveryInv'
  BY DEF IInv, TypeOK, DeliveryInv, Register, completion
<1>7. PollInv'
  BY DEF IInv, TypeOK, PollInv, Register, completion
<1>8. QED
  BY <1>1, <1>2, <1>3, <1>4, <1>5, <1>6, <1>7 DEF IInv

(* A poll moves one sleep from stage to stage and leaves the tables alone. *)
LEMMA PollingInv ==
  ASSUME IInv, NEW s \in Sleep,
         (\E w \in Waker : StartPoll(s, w)) \/ CheckCompleted(s) \/ StoreWaker(s) \/ Recheck(s)
  PROVE  IInv'
<1> USE DEF Live, Move, StartPoll, CheckCompleted, StoreWaker, Recheck, Stored, state, scheduler,
      completion
<1>1. TypeOK'
  BY TypeStep DEF IInv, Next, PollStep
<1>2. TablesAgree'
  BY DEF IInv, TypeOK, TablesAgree
<1>3. WaitCoversEarliest'
  BY DEF IInv, WaitCoversEarliest
<1>4. ThreadInv'
  BY DEF IInv, TypeOK, ThreadInv
<1>5. FlagInv'
  BY DEF IInv, TypeOK, FlagInv
<1>6. DeliveryInv'
  BY DEF IInv, TypeOK, DeliveryInv
<1>7. PollInv'
  BY TimerAssumption DEF IInv, TypeOK, PollInv, DeliveryInv, ThreadInv
<1>8. QED
  BY <1>1, <1>2, <1>3, <1>4, <1>5, <1>6, <1>7 DEF IInv

(* A sleep that is over leaves both tables, also while its completion is   *)
(* with the thread.                                                        *)
LEMMA CancelInv ==
  ASSUME IInv, NEW s \in Sleep, Finish(s) \/ Drop(s)
  PROVE  IInv'
<1> USE DEF Live, Move, Finish, Drop, Cancel, Canceled, Forget, completion
<1>1. TablesAgree'
  BY DEF IInv, TypeOK, TablesAgree
<1>2. TypeOK'
  BY TypeStep DEF IInv, Next, PollStep
<1>3. WaitCoversEarliest'
  BY DEF IInv, WaitCoversEarliest, Notify
<1>4. ThreadInv'
  BY DEF IInv, TypeOK, ThreadInv
<1>5. FlagInv'
  BY DEF IInv, TypeOK, FlagInv
<1>6. DeliveryInv'
  BY DEF IInv, TypeOK, DeliveryInv
<1>7. PollInv'
  BY DEF IInv, TypeOK, PollInv
<1>8. QED
  BY <1>1, <1>2, <1>3, <1>4, <1>5, <1>6, <1>7 DEF IInv

(* The thread waits for the earliest key, so for none too long.            *)
LEMMA WaitsInv ==
  ASSUME IInv, ThreadWaits
  PROVE  IInv'
<1> USE DEF ThreadWaits, sleeps, completion, state
<1>1. TypeOK'
  BY TypeStep DEF IInv, Next, ThreadStep
<1>2. \A key \in deadlines : until' <= key[1]
  BY EarliestKey DEF IInv, FirstKeys
<1>3. TablesAgree' /\ WaitCoversEarliest' /\ ThreadInv'
  BY <1>2, TimerAssumption DEF IInv, TypeOK, TablesAgree, WaitCoversEarliest, ThreadInv, Live
<1>4. FlagInv' /\ DeliveryInv' /\ PollInv'
  BY DEF IInv, FlagInv, DeliveryInv, PollInv, ThreadInv, Live
<1>5. QED
  BY <1>1, <1>3, <1>4 DEF IInv

(* The thread takes a due sleep out of both tables.                        *)
LEMMA PopsInv ==
  ASSUME IInv, ThreadPops
  PROVE  IInv'
<1> USE DEF Live, sleeps, completion
<1>1. PICK t \in Sleep :
        /\ t \in pending /\ deadline[t] <= now
        /\ deadlines' = deadlines \ {<<deadline[t], t>>}
        /\ pending' = pending \ {t} /\ popped' = t
  BY DEF ThreadPops, FirstKeys, Due, Remaining, IInv, TypeOK, TablesAgree
<1>2. /\ thread = "locked" /\ thread' = "popped"
      /\ UNCHANGED <<until, notified, stage, deadline, woken, context, completed, slot, now>>
  BY DEF ThreadPops
<1>3. TypeOK'
  BY TypeStep DEF IInv, Next, ThreadStep
<1>4. TablesAgree'
  BY <1>1, <1>2 DEF IInv, TypeOK, TablesAgree
<1>5. WaitCoversEarliest' /\ ThreadInv' /\ FlagInv'
  BY <1>1, <1>2, TimerAssumption DEF IInv, TypeOK, TablesAgree, WaitCoversEarliest, ThreadInv, FlagInv
<1>6. DeliveryInv'
  BY <1>1, <1>2 DEF IInv, DeliveryInv
<1>7. PollInv'
  BY <1>1, <1>2, TimerAssumption DEF IInv, PollInv, ThreadInv, TypeOK
<1>8. QED
  BY <1>3, <1>4, <1>5, <1>6, <1>7 DEF IInv

(* The completion: the flag first, then the waker, if it is the latest.    *)
LEMMA CompletionInv ==
  ASSUME IInv, Complete \/ WakeLatest
  PROVE  IInv'
<1> USE DEF Live, Complete, WakeLatest, sleeps, state
<1>1. popped \in Sleep
  BY DEF IInv, TypeOK, ThreadInv
<1>2. TypeOK'
  BY TypeStep DEF IInv, Next, ThreadStep
<1>3. TablesAgree' /\ WaitCoversEarliest'
  BY DEF IInv, TablesAgree, WaitCoversEarliest
<1>4. ThreadInv'
  BY <1>1, TimerAssumption DEF IInv, TypeOK, ThreadInv
<1>5. FlagInv'
  BY <1>1 DEF IInv, TypeOK, ThreadInv, FlagInv
<1>6. DeliveryInv'
  BY <1>1 DEF IInv, TypeOK, ThreadInv, DeliveryInv
<1>7. PollInv'
  BY <1>1 DEF IInv, TypeOK, ThreadInv, PollInv, WokenBy
<1>8. QED
  BY <1>2, <1>3, <1>4, <1>5, <1>6, <1>7 DEF IInv

(* The wait ends, or time passes.                                          *)
LEMMA ClockInv ==
  ASSUME IInv, Resumes \/ Spurious \/ Tick \/ UNCHANGED vars
  PROVE  IInv'
<1>1. CASE Resumes \/ Spurious
  <2>1. TypeOK'
    BY <1>1, TypeStep DEF IInv, Next, ThreadStep
  <2>2. QED
    BY <1>1, <2>1 DEF Resumes, Spurious, ThreadResumes, sleeps, completion, state, IInv, TablesAgree,
      WaitCoversEarliest, ThreadInv, FlagInv, DeliveryInv, PollInv, Live
<1>2. CASE Tick
  <2>1. TypeOK'
    BY <1>2, TypeStep DEF IInv, Next
  <2>2. /\ now \in Int /\ now' \in Int /\ now <= now' /\ \A s \in Sleep : deadline[s] \in Int
        /\ UNCHANGED <<stage, deadline, woken, context, completed, slot, pending, deadlines, thread,
                        until, notified, popped>>
    BY <1>2, TimerAssumption
      DEF Tick, IInv, TypeOK, Instant, sleeps, completion, state, scheduler
  <2>3. FlagInv' /\ ThreadInv'
    BY <2>2 DEF IInv, TypeOK, FlagInv, ThreadInv
  <2>4. QED
    BY <2>1, <2>2, <2>3 DEF IInv, TablesAgree, WaitCoversEarliest, DeliveryInv, PollInv, Live
<1>3. CASE UNCHANGED vars
  BY <1>3 DEF vars, sleeps, completion, state, scheduler, IInv, TypeOK, TablesAgree,
    WaitCoversEarliest, ThreadInv, FlagInv, DeliveryInv, PollInv, Live
<1>4. QED
  BY <1>1, <1>2, <1>3

(* The inductive invariant holds in every reachable state.                 *)
THEOREM Invariance == Spec => []IInv
<1>1. IInv /\ [Next]_vars => IInv'
  BY RegisterInv, PollingInv, CancelInv, WaitsInv, PopsInv, CompletionInv, ClockInv
    DEF Next, PollStep, ThreadStep
<1>2. QED
  BY <1>1, InitInv, PTL DEF Spec

(* The timer keeps what the live sleeps need, no wake-up is lost between a *)
(* poll and the thread's completion, no deadline is waited past and none   *)
(* comes early, for any number of sleeps.                                  *)
THEOREM SleepersAreSound == Spec => []SleepersSound
<1>1. IInv => SleepersSound
  BY DEF IInv, SleepersSound, SleeperHasWaker, PollInv, NeverEarly, FlagInv
<1>2. QED
  BY <1>1, Invariance, PTL
==============================================================================
