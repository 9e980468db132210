-------------------------- MODULE CancellationProofs --------------------------
(***************************************************************************)
(* Proofs about Cancellation for every number of executions, futures and   *)
(* wakers that share a control: the list of wakers is exactly what the     *)
(* waiting futures registered, and an execution sleeps only while a        *)
(* cancellation can still reach it.                                        *)
(***************************************************************************)
EXTENDS Cancellation, SequenceTheorems, WellFoundedInduction, TLAPS

(* An identifier is given to one future, before the next one.              *)
IdentifierInv ==
  /\ \A f \in Future : registration[f] < nextWaker
  /\ \A f, g \in Future : registration[f] = registration[g] /\ registration[f] # 0 => f = g

(* An execution that is not over waits for a future, and polls one.        *)
PollingInv ==
  \A e \in Execution :
    /\ stage[e] # "over" => Pending(e) # {}
    /\ stage[e] = "polling" => current[e] \in Pending(e) /\ context[e] # 0

Listed(f) ==
  \E i \in DOMAIN wakers :
    wakers[i] = [id |-> registration[f], execution |-> Owner[f], waker |-> context[Owner[f]]]

InHand(e) == \E entry \in waking : entry.execution = e /\ entry.waker = context[e]

(* The futures this poll of e found not cancelled after it registered.     *)
Passed(e) ==
  {f \in Pending(e) : f < current[e] \/ (f = current[e] /\ step[e] \in {"host", "expiry"})}

(* What the poll passed a cancellation still reaches, while it goes on and *)
(* once it is over.                                                        *)
Reaches(e) ==
  /\ stage[e] = "polling" /\ ~cancelled =>
       /\ \A f \in Passed(e) : Listed(f)
       /\ step[e] = "recheck" => Listed(current[e])
  /\ stage[e] = "polling" /\ cancelled /\ ~woken[e] /\ Passed(e) # {} => InHand(e)
  /\ stage[e] = "idle" /\ ~woken[e] =>
       /\ context[e] # 0
       /\ ~cancelled => \A f \in Pending(e) : Listed(f)
       /\ cancelled => InHand(e)

ReachInv == \A e \in Execution : Reaches(e)

IInv ==
  /\ TypeOK
  /\ RegistrationsOwned
  /\ IdentifierInv
  /\ PollingInv
  /\ ReachInv

(* The least future exists: futures are numbered.                          *)
LEMMA LeastIs ==
  ASSUME NEW S, S \subseteq Nat, S # {}
  PROVE  Least(S) \in S /\ \A y \in S : Least(S) <= y
<1>1. PICK x \in S : \A y \in S : <<y, x>> \notin OpToRel(<, Nat)
  BY NatLessThanWellFounded, WFMin, Zenon
<1>2. \A y \in S : x <= y
  <2> SUFFICES ASSUME NEW y \in S, ~(x <= y)
               PROVE  FALSE
    OBVIOUS
  <2>1. x \in Nat /\ y \in Nat /\ y < x
    OBVIOUS
  <2>2. <<y, x>> \in OpToRel(<, Nat)
    BY <2>1, Zenon DEF OpToRel
  <2>3. QED
    BY <1>1, <2>2
<1>3. QED
  BY <1>2 DEF Least

(* The next future of an execution to poll: one it waits for.              *)
LEMMA LeastPending ==
  ASSUME TypeOK, NEW S, S \subseteq live, S # {}
  PROVE  Least(S) \in S /\ Least(S) \in Future /\ \A f \in S : Least(S) <= f
<1>1. S \subseteq Nat
  BY CancellationAssumption DEF TypeOK, ControlTyped
<1>2. QED
  BY <1>1, LeastIs DEF TypeOK, ControlTyped

LEMMA InitInv == Init => IInv
<1> SUFFICES ASSUME Init
             PROVE  IInv
  OBVIOUS
<1>1. TypeOK
  <2>1. /\ stage \in [Execution -> {"idle", "polling", "dropping", "over"}]
        /\ outcome \in [Execution -> {"none", "Ok", "Cancelled", "Timeout", "dropped"}]
        /\ woken \in [Execution -> BOOLEAN] /\ context \in [Execution -> {0} \cup Waker]
        /\ current \in [Execution -> {0} \cup Future]
        /\ step \in [Execution -> {"check", "clock", "register", "recheck", "host", "expiry"}]
        /\ registration \in [Future -> Nat] /\ hostWaker \in [Future -> {0} \cup Waker]
        /\ timerWaker \in [Future -> {0} \cup Waker]
    BY DEF Init
  <2>2. wakers \in Seq(Entry)
    BY DEF Init
  <2>3. now \in 0..MaxTime
    BY CancellationAssumption DEF Init
  <2>4. cancelled \in BOOLEAN
    BY DEF Init
  <2>5. /\ live \subseteq Future /\ nextWaker \in Nat \ {0}
        /\ waking \subseteq Entry /\ hostDone \subseteq Future /\ signalled \subseteq Future
    BY DEF Init
  <2>6. QED
    BY <2>1, <2>2, <2>3, <2>4, <2>5 DEF TypeOK, ExecutorsTyped, ControlTyped, OperationsTyped
<1>2. RegistrationsOwned /\ IdentifierInv
  BY DEF Init, RegistrationsOwned, IdentifierInv
<1>3. PollingInv /\ ReachInv
  BY CancellationAssumption DEF Init, PollingInv, ReachInv, Reaches, Pending
<1>4. QED
  BY <1>1, <1>2, <1>3 DEF IInv

(* swap_remove takes out the waker of f alone and keeps every other.       *)
LEMMA UnregisterList ==
  ASSUME TypeOK, RegistrationsOwned, NEW f \in live, Unregister(f)
  PROVE  /\ wakers' \in Seq(Entry)
         /\ \A i, j \in DOMAIN wakers' : wakers'[i].id = wakers'[j].id => i = j
         /\ \A i \in DOMAIN wakers' :
              wakers'[i].id # registration[f] /\ \E j \in DOMAIN wakers : wakers'[i] = wakers[j]
         /\ \A j \in DOMAIN wakers :
              wakers[j].id # registration[f] => \E i \in DOMAIN wakers' : wakers'[i] = wakers[j]
<1>1. PICK last \in Nat :
      /\ last = Len(wakers)
      /\ wakers \in Seq(Entry) /\ DOMAIN wakers = 1..last
      /\ registration[f] \in Nat
      /\ \A i \in 1..last : wakers[i] \in Entry /\ wakers[i].id # 0
      /\ \A i, j \in 1..last : wakers[i].id = wakers[j].id => i = j
  <2>1. wakers \in Seq(Entry) /\ f \in Future /\ registration[f] \in Nat /\ nextWaker \in Nat \ {0}
    BY DEF TypeOK, ControlTyped
  <2>2. Len(wakers) \in Nat /\ DOMAIN wakers = 1..Len(wakers)
    BY <2>1
  <2>3. \A i \in 1..Len(wakers) : wakers[i] \in Entry
    BY <2>1, <2>2
  <2>4. \A entry \in Entry : entry.id # 0
    BY <2>1 DEF Entry
  <2>5. QED
    BY <2>1, <2>2, <2>3, <2>4 DEF RegistrationsOwned
<1>2. CASE Positions(registration[f]) = {} \/ registration[f] = 0
  <2>1. wakers' = wakers
    BY <1>2 DEF Unregister, Unregistered
  <2>2. \A i \in 1..last : wakers[i].id # registration[f]
    BY <1>1, <1>2 DEF Positions
  <2>3. QED
    BY <1>1, <2>1, <2>2
<1>3. CASE Positions(registration[f]) # {} /\ registration[f] # 0
  <2>1. PICK k \in 1..last : wakers[k].id = registration[f] /\ Positions(registration[f]) = {k}
    BY <1>1, <1>3 DEF Positions
  <2>2. wakers' = [i \in 1..last - 1 |-> IF i = k THEN wakers[last] ELSE wakers[i]]
    BY <1>1, <1>3, <2>1 DEF Unregister, Unregistered
  <2>3. last - 1 \in Nat /\ last \in 1..last
    BY <1>1, <2>1
  <2>4. wakers' \in Seq(Entry) /\ DOMAIN wakers' = 1..last - 1
    <3>1. \A i \in 1..last - 1 : (IF i = k THEN wakers[last] ELSE wakers[i]) \in Entry
      BY <1>1, <2>3
    <3>2. QED
      BY <2>2, <2>3, <3>1
  <2>5. \A i \in 1..last - 1 : \E j \in 1..last :
           wakers'[i] = wakers[j] /\ j # k /\ j = (IF i = k THEN last ELSE i)
    <3> SUFFICES ASSUME NEW i \in 1..last - 1
                 PROVE  \E j \in 1..last :
                          wakers'[i] = wakers[j] /\ j # k /\ j = (IF i = k THEN last ELSE i)
      OBVIOUS
    <3>1. i \in 1..last /\ i # last
      OBVIOUS
    <3>2. CASE i = k
      BY <2>2, <2>3, <3>1, <3>2
    <3>3. CASE i # k
      BY <2>2, <3>1, <3>3
    <3>4. QED
      BY <3>2, <3>3
  <2>6. \A j \in 1..last : j # k => \E i \in 1..last - 1 : wakers'[i] = wakers[j]
    <3> SUFFICES ASSUME NEW j \in 1..last, j # k
                 PROVE  \E i \in 1..last - 1 : wakers'[i] = wakers[j]
      OBVIOUS
    <3>1. CASE j = last
      <4>1. k \in 1..last - 1
        BY <1>1, <3>1
      <4>2. wakers'[k] = wakers[j]
        BY <2>2, <3>1, <4>1
      <4>3. QED
        BY <4>1, <4>2
    <3>2. CASE j # last
      <4>1. j \in 1..last - 1
        BY <1>1, <3>2
      <4>2. wakers'[j] = wakers[j]
        BY <2>2, <4>1
      <4>3. QED
        BY <4>1, <4>2
    <3>3. QED
      BY <3>1, <3>2
  <2>7. \A i, j \in 1..last - 1 : wakers'[i].id = wakers'[j].id => i = j
    BY <1>1, <2>2, <2>3, <2>5
  <2>8. \A i \in 1..last - 1 : wakers'[i].id # registration[f]
    BY <1>1, <2>1, <2>5
  <2>9. \A j \in 1..last :
           wakers[j].id # registration[f] => \E i \in 1..last - 1 : wakers'[i] = wakers[j]
    BY <2>1, <2>6
  <2>10. DOMAIN wakers = 1..last /\ DOMAIN wakers' = 1..last - 1
    BY <1>1, <2>4
  <2>11. \A i \in 1..last - 1 : \E j \in 1..last : wakers'[i] = wakers[j]
    BY <2>5
  <2>12. QED
    BY <2>4, <2>7, <2>8, <2>9, <2>10, <2>11
<1>4. QED
  BY <1>2, <1>3

(* What one execution polls: a future it waits for, with the waker of the  *)
(* poll.                                                                   *)
LEMMA PolledFuture ==
  ASSUME IInv, NEW e \in Execution, stage[e] = "polling"
  PROVE  /\ current[e] \in live /\ current[e] \in Future /\ Owner[current[e]] = e
         /\ context[e] \in Waker /\ context[e] # 0 /\ current[e] \in Nat
BY CancellationAssumption DEF IInv, TypeOK, ExecutorsTyped, ControlTyped, PollingInv, Pending

(* A step that leaves an execution, its futures and their wakers alone,    *)
(* but for waking it, leaves it reachable.                                 *)
LEMMA StaysReachable ==
  ASSUME NEW d \in Execution, Reaches(d),
         stage[d] = "polling" => current[d] \in Pending(d),
         stage'[d] = stage[d], woken[d] => woken'[d], context'[d] = context[d],
         current'[d] = current[d], step'[d] = step[d],
         Pending(d)' = Pending(d), UNCHANGED <<cancelled, waking>>,
         \A f \in Pending(d) : Listed(f) => Listed(f)'
  PROVE  Reaches(d)'
<1>1. Passed(d)' = Passed(d) /\ Passed(d) \subseteq Pending(d)
  BY DEF Passed
<1>2. InHand(d)' = InHand(d)
  BY DEF InHand
<1>3. stage[d] = "polling" /\ step[d] = "recheck" /\ Listed(current[d]) => Listed(current[d])'
  BY DEF Listed
<1>4. QED
  BY <1>1, <1>2, <1>3 DEF Reaches

(* The executor's own steps leave the wakers of every future alone.        *)
LEMMA ListedStays ==
  ASSUME UNCHANGED <<registration, wakers>>, NEW f \in Future, context'[Owner[f]] = context[Owner[f]]
  PROVE  Listed(f)' = Listed(f)
BY DEF Listed

(* A poll starts with the least future and has passed none.                *)
LEMMA StartPollStep ==
  ASSUME IInv, NEW e \in Execution, NEW w \in Waker, StartPoll(e, w)
  PROVE  IInv'
<1> DEFINE f == Least(Pending(e))
<1>1. Pending(e) # {} /\ Pending(e) \subseteq live /\ Pending(e) \subseteq Nat
  BY CancellationAssumption DEF StartPoll, IInv, TypeOK, ControlTyped, PollingInv, Pending
<1>2. f \in Pending(e) /\ f \in Future /\ f \in Nat /\ \A g \in Pending(e) : f <= g
  BY <1>1, LeastPending DEF IInv
<1> HIDE DEF f
<1>3. /\ stage' = [stage EXCEPT ![e] = "polling"] /\ woken' = [woken EXCEPT ![e] = FALSE]
      /\ context' = [context EXCEPT ![e] = w] /\ current' = [current EXCEPT ![e] = f]
      /\ step' = [step EXCEPT ![e] = "check"]
      /\ UNCHANGED <<outcome, live, registration, cancelled, nextWaker, wakers, waking, hostDone,
                     hostWaker, timerWaker, signalled, now>>
  BY DEF StartPoll, control, host, timer, f
<1>4. ExecutorsTyped'
  BY <1>2, <1>3 DEF IInv, TypeOK, ExecutorsTyped
<1>5. ControlTyped' /\ OperationsTyped' /\ RegistrationsOwned' /\ IdentifierInv'
  BY <1>3 DEF IInv, TypeOK, ControlTyped, OperationsTyped, RegistrationsOwned, IdentifierInv, Entry
<1>6. \A d \in Execution : Pending(d)' = Pending(d) /\ Pending(d) \subseteq Future
  BY <1>3 DEF Pending, IInv, TypeOK, ControlTyped
<1>7. PollingInv'
  BY <1>2, <1>3, <1>6, CancellationAssumption DEF IInv, TypeOK, ExecutorsTyped, PollingInv
<1>8. ASSUME NEW d \in Execution
      PROVE  Reaches(d)'
  <2>1. CASE d = e
    <3>1. stage'[e] = "polling" /\ current'[e] = f /\ step'[e] = "check"
      BY <1>3 DEF IInv, TypeOK, ExecutorsTyped
    <3>2. Passed(e)' = {}
      BY <1>1, <1>2, <1>6, <3>1 DEF Passed
    <3>3. QED
      BY <2>1, <3>1, <3>2 DEF Reaches
  <2>2. CASE d # e
    <3>1. \A g \in Pending(d) : Listed(g) => Listed(g)'
      BY <1>3, <1>6, <2>2, ListedStays DEF Pending, IInv, TypeOK, ExecutorsTyped
    <3>2. /\ stage'[d] = stage[d] /\ woken'[d] = woken[d] /\ context'[d] = context[d]
          /\ current'[d] = current[d] /\ step'[d] = step[d]
      BY <1>3, <2>2 DEF IInv, TypeOK, ExecutorsTyped
    <3>3. QED
      BY <1>3, <1>6, <3>1, <3>2, StaysReachable DEF IInv, ReachInv, PollingInv
  <2>3. QED
    BY <2>1, <2>2
<1>9. QED
  BY <1>4, <1>5, <1>7, <1>8 DEF IInv, TypeOK, ReachInv

(* A step of an executor that only moves on in its poll or out of it.      *)
LEMMA ExecutorStep ==
  ASSUME IInv, NEW e \in Execution, stage[e] # "over",
         NEW s \in {"polling", "dropping"}, s = "polling" => stage[e] = "polling",
         NEW o \in {"none", "Ok", "Cancelled", "Timeout", "dropped"},
         NEW p \in {"check", "clock", "register", "recheck", "host", "expiry"},
         stage' = [stage EXCEPT ![e] = s], outcome' = [outcome EXCEPT ![e] = o],
         step' = [step EXCEPT ![e] = p],
         UNCHANGED <<woken, context, current, live, registration, control, host, timer>>,
         Reaches(e)'
  PROVE  IInv'
<1>1. UNCHANGED <<woken, context, current, live, registration, cancelled, nextWaker, wakers, waking,
                  hostDone, hostWaker, timerWaker, signalled, now>>
  BY DEF control, host, timer
<1>2. ExecutorsTyped'
  BY <1>1 DEF IInv, TypeOK, ExecutorsTyped
<1>3. ControlTyped' /\ OperationsTyped' /\ RegistrationsOwned' /\ IdentifierInv'
  BY <1>1 DEF IInv, TypeOK, ControlTyped, OperationsTyped, RegistrationsOwned, IdentifierInv, Entry
<1>4. \A d \in Execution : Pending(d)' = Pending(d) /\ Pending(d) \subseteq Future
  BY <1>1 DEF Pending, IInv, TypeOK, ControlTyped
<1>5. PollingInv'
  BY <1>1, <1>4 DEF IInv, TypeOK, ExecutorsTyped, PollingInv
<1>6. ASSUME NEW d \in Execution, d # e
      PROVE  Reaches(d)'
  <2>1. \A g \in Pending(d) : Listed(g) => Listed(g)'
    BY <1>1, <1>4, ListedStays
  <2>2. stage'[d] = stage[d] /\ step'[d] = step[d]
    BY <1>6 DEF IInv, TypeOK, ExecutorsTyped
  <2>3. QED
    BY <1>1, <1>4, <2>1, <2>2, StaysReachable DEF IInv, ReachInv, PollingInv
<1>7. ReachInv'
  BY <1>6 DEF ReachInv
<1>8. QED
  BY <1>2, <1>3, <1>5, <1>7 DEF IInv, TypeOK

(* An interrupted execution needs no waker any more.                       *)
LEMMA InterruptedStep ==
  ASSUME IInv, NEW e \in Execution, stage[e] # "over",
         NEW o \in {"none", "Ok", "Cancelled", "Timeout", "dropped"}, Interrupted(e, o),
         UNCHANGED <<live, registration, control, host, timer>>
  PROVE  IInv'
<1>1. /\ stage' = [stage EXCEPT ![e] = "dropping"] /\ outcome' = [outcome EXCEPT ![e] = o]
      /\ UNCHANGED <<woken, context, current, step>>
  BY DEF Interrupted
<1>2. step' = [step EXCEPT ![e] = step[e]] /\ stage'[e] = "dropping"
  BY <1>1 DEF IInv, TypeOK, ExecutorsTyped
<1>3. Reaches(e)'
  BY <1>2 DEF Reaches
<1>4. step[e] \in {"check", "clock", "register", "recheck", "host", "expiry"}
  BY DEF IInv, TypeOK, ExecutorsTyped
<1>5. QED
  BY <1>1, <1>2, <1>3, <1>4, ExecutorStep

(* A poll moves on to step p.                                              *)
LEMMA GotoStep ==
  ASSUME IInv, NEW e \in Execution, stage[e] = "polling",
         NEW p \in {"check", "clock", "register", "recheck", "host", "expiry"}, Goto(e, p),
         UNCHANGED <<live, registration, control, host, timer>>, Reaches(e)'
  PROVE  IInv'
<1>1. step' = [step EXCEPT ![e] = p] /\ UNCHANGED <<stage, outcome, woken, context, current>>
  BY DEF Goto
<1>2. /\ stage' = [stage EXCEPT ![e] = "polling"] /\ outcome' = [outcome EXCEPT ![e] = outcome[e]]
      /\ outcome[e] \in {"none", "Ok", "Cancelled", "Timeout", "dropped"}
  BY <1>1 DEF IInv, TypeOK, ExecutorsTyped
<1>3. QED
  BY <1>1, <1>2, ExecutorStep

(* The checks before the registration pass no future.                      *)
LEMMA CheckSteps ==
  ASSUME IInv, NEW e \in Execution, CheckCancelled(e) \/ CheckDeadline(e)
  PROVE  IInv'
<1>1. stage[e] = "polling" /\ step[e] \in {"check", "clock"}
      /\ UNCHANGED <<live, registration, control, host, timer>>
  BY DEF CheckCancelled, CheckDeadline, At
<1>2. CASE Interrupted(e, "Cancelled") \/ Interrupted(e, "Timeout")
  BY <1>1, <1>2, InterruptedStep
<1>3. CASE Goto(e, "clock") \/ Goto(e, "register")
  <2>1. /\ step'[e] \in {"clock", "register"}
        /\ UNCHANGED <<stage, woken, context, current, live, registration, wakers, waking, cancelled>>
    BY <1>1, <1>3 DEF Goto, control, IInv, TypeOK, ExecutorsTyped
  <2>2. Passed(e)' = Passed(e)
    BY <1>1, <2>1 DEF Passed, Pending
  <2>3. \A g \in Passed(e) : Listed(g)' = Listed(g)
    BY <2>1 DEF Listed
  <2>4. Reaches(e)'
    BY <1>1, <2>1, <2>2, <2>3 DEF IInv, ReachInv, Reaches, InHand
  <2>5. QED
    BY <1>1, <1>3, <2>4, GotoStep
<1>4. QED
  BY <1>2, <1>3 DEF CheckCancelled, CheckDeadline

(* A future passes once it is registered and still not cancelled.          *)
LEMMA RecheckStep ==
  ASSUME IInv, NEW e \in Execution, Recheck(e)
  PROVE  IInv'
<1>1. /\ stage[e] = "polling" /\ step[e] = "recheck"
      /\ UNCHANGED <<live, registration, control, host, timer>>
  BY DEF Recheck, At
<1>2. CASE cancelled
  BY <1>1, <1>2, InterruptedStep DEF Recheck
<1>3. CASE ~cancelled
  <2>1. Goto(e, "host")
    BY <1>3 DEF Recheck
  <2>2. /\ step'[e] = "host"
        /\ UNCHANGED <<stage, woken, context, current, live, registration, wakers, waking, cancelled>>
    BY <1>1, <2>1 DEF Goto, control, IInv, TypeOK, ExecutorsTyped
  <2>3. Passed(e)' \subseteq Passed(e) \cup {current[e]}
    BY <2>2 DEF Passed, Pending
  <2>4. \A g \in Passed(e) \cup {current[e]} : Listed(g)' = Listed(g)
    BY <2>2 DEF Listed
  <2>5. (\A g \in Passed(e) : Listed(g)) /\ Listed(current[e])
    BY <1>1, <1>3 DEF IInv, ReachInv, Reaches
  <2>6. Reaches(e)'
    BY <1>1, <1>3, <2>2, <2>3, <2>4, <2>5 DEF Reaches
  <2>7. QED
    BY <1>1, <2>1, <2>6, GotoStep
<1>4. QED
  BY <1>2, <1>3

LEMMA AbandonStep ==
  ASSUME IInv, NEW e \in Execution, Abandon(e)
  PROVE  IInv'
BY InterruptedStep DEF Abandon

(* The entries of the control remain entries when identifiers are given.   *)
LEMMA EntriesStay ==
  ASSUME TypeOK, nextWaker' \in Nat, nextWaker' >= nextWaker
  PROVE  Entry \subseteq Entry'
BY DEF TypeOK, ControlTyped, Entry

(* A future that registers again has its own waker replaced.               *)
LEMMA RefreshStep ==
  ASSUME IInv, NEW e \in Execution, At(e, "register"), ~cancelled,
         registration[current[e]] # 0, Positions(registration[current[e]]) # {},
         wakers' = Refreshed(current[e], context[e]), Goto(e, "recheck"),
         UNCHANGED <<nextWaker, registration, live, cancelled, waking, host, timer>>
  PROVE  IInv'
<1>1. PICK f \in live :
      /\ f = current[e] /\ f \in Future /\ Owner[f] = e /\ context[e] \in Waker
      /\ stage[e] = "polling" /\ step[e] = "register"
  BY PolledFuture DEF At
<1>2. PICK last \in Nat :
      /\ last = Len(wakers) /\ wakers \in Seq(Entry) /\ DOMAIN wakers = 1..last
      /\ \A i \in 1..last : wakers[i] \in Entry
      /\ wakers' = [i \in 1..last |-> IF wakers[i].id = registration[f]
                                      THEN [wakers[i] EXCEPT !.waker = context[e]] ELSE wakers[i]]
  <2>1. wakers \in Seq(Entry)
    BY DEF IInv, TypeOK, ControlTyped
  <2>2. Len(wakers) \in Nat /\ DOMAIN wakers = 1..Len(wakers)
    BY <2>1
  <2>3. \A i \in 1..Len(wakers) : wakers[i] \in Entry
    BY <2>1, <2>2
  <2>4. QED
    BY <1>1, <2>1, <2>2, <2>3 DEF Refreshed
<1>3. \A i \in 1..last :
        /\ wakers'[i] \in Entry
        /\ wakers'[i].id = wakers[i].id /\ wakers'[i].execution = wakers[i].execution
        /\ wakers[i].id # registration[f] => wakers'[i] = wakers[i]
        /\ wakers[i].id = registration[f] => wakers'[i].waker = context[e]
  <2> SUFFICES ASSUME NEW i \in 1..last
               PROVE  /\ wakers'[i] \in Entry
                      /\ wakers'[i].id = wakers[i].id /\ wakers'[i].execution = wakers[i].execution
                      /\ wakers[i].id # registration[f] => wakers'[i] = wakers[i]
                      /\ wakers[i].id = registration[f] => wakers'[i].waker = context[e]
    OBVIOUS
  <2>1. wakers[i] \in Entry
    BY <1>2
  <2>2. wakers'[i] = IF wakers[i].id = registration[f]
                     THEN [wakers[i] EXCEPT !.waker = context[e]] ELSE wakers[i]
    BY <1>2
  <2>3. QED
    BY <1>1, <2>1, <2>2 DEF Entry
<1>4. wakers' \in Seq(Entry) /\ DOMAIN wakers' = 1..last
  BY <1>2, <1>3
<1>5. /\ step' = [step EXCEPT ![e] = "recheck"]
      /\ UNCHANGED <<stage, outcome, woken, context, current>>
  BY DEF Goto
<1>6. ExecutorsTyped'
  BY <1>5 DEF IInv, TypeOK, ExecutorsTyped
<1>7. ControlTyped' /\ OperationsTyped' /\ IdentifierInv'
  <2>1. Entry' = Entry
    BY DEF Entry
  <2>2. QED
    BY <1>4, <2>1 DEF IInv, TypeOK, ControlTyped, OperationsTyped, IdentifierInv, host, timer
<1>8. RegistrationsOwned'
  BY <1>2, <1>3, <1>4 DEF IInv, RegistrationsOwned
<1>9. \A d \in Execution : Pending(d)' = Pending(d) /\ Pending(d) \subseteq Future
  BY DEF Pending, IInv, TypeOK, ControlTyped
<1>10. PollingInv'
  BY <1>5, <1>9 DEF IInv, PollingInv
<1>11. ASSUME NEW g \in live, g # f, Listed(g)
       PROVE  Listed(g)'
  <2>1. PICK i \in 1..last :
           wakers[i] = [id |-> registration[g], execution |-> Owner[g], waker |-> context[Owner[g]]]
    BY <1>2, <1>11 DEF Listed
  <2>2. wakers[i].id # registration[f]
    <3>1. g \in Future /\ f \in Future /\ registration[f] # 0
      BY <1>1 DEF IInv, TypeOK, ControlTyped
    <3>2. QED
      BY <1>11, <2>1, <3>1 DEF IInv, IdentifierInv
  <2>3. QED
    BY <1>3, <1>4, <1>5, <2>1, <2>2 DEF Listed
<1>12. Listed(f)'
  <2>1. PICK i \in 1..last : wakers[i].id = registration[f]
    BY <1>1, <1>2 DEF Positions
  <2>2. PICK g \in live : registration[g] = wakers[i].id /\ Owner[g] = wakers[i].execution
    BY <1>2 DEF IInv, RegistrationsOwned
  <2>3. g = f
    <3>1. g \in Future /\ f \in Future /\ registration[f] # 0
      BY <1>1 DEF IInv, TypeOK, ControlTyped
    <3>2. QED
      BY <2>1, <2>2, <3>1 DEF IInv, IdentifierInv
  <2>4. wakers'[i] = [id |-> registration[f], execution |-> e, waker |-> context[e]]
    <3>1. wakers'[i] \in Entry /\ wakers'[i].id = registration[f]
          /\ wakers'[i].execution = e /\ wakers'[i].waker = context[e]
      BY <1>1, <1>3, <2>1, <2>2, <2>3
    <3>2. QED
      BY <3>1 DEF Entry
  <2>5. QED
    BY <1>1, <1>4, <1>5, <2>4 DEF Listed
<1>13. ASSUME NEW d \in Execution, d # e
       PROVE  Reaches(d)'
  <2>1. \A g \in Pending(d) : Listed(g) => Listed(g)'
    BY <1>1, <1>11, <1>13 DEF Pending
  <2>2. step'[d] = step[d]
    BY <1>5, <1>13 DEF IInv, TypeOK, ExecutorsTyped
  <2>3. QED
    BY <1>5, <1>9, <2>1, <2>2, StaysReachable DEF IInv, ReachInv, PollingInv
<1>14. Reaches(e)'
  <2>1. step'[e] = "recheck"
    BY <1>5 DEF IInv, TypeOK, ExecutorsTyped
  <2>2. Passed(e)' = Passed(e) /\ Passed(e) \subseteq live
    BY <1>1, <1>5, <1>9, <2>1 DEF Passed, Pending
  <2>3. \A g \in Passed(e) : Listed(g)
    BY <1>1 DEF IInv, ReachInv, Reaches
  <2>4. \A g \in Passed(e) : Listed(g)'
    BY <1>11, <1>12, <2>2, <2>3
  <2>5. Listed(current[e])'
    BY <1>1, <1>5, <1>12 DEF Listed
  <2>6. QED
    BY <1>1, <1>5, <2>2, <2>4, <2>5 DEF Reaches
<1>15. ReachInv'
  BY <1>13, <1>14 DEF ReachInv
<1>16. QED
  BY <1>6, <1>7, <1>8, <1>10, <1>15 DEF IInv, TypeOK

(* A future that is not in the list enters it under a fresh identifier.    *)
LEMMA AppendStep ==
  ASSUME IInv, NEW e \in Execution, At(e, "register"), ~cancelled,
         registration[current[e]] = 0 \/ Positions(registration[current[e]]) = {},
         wakers' = Append(wakers, [id |-> nextWaker, execution |-> e, waker |-> context[e]]),
         registration' = [registration EXCEPT ![current[e]] = nextWaker],
         nextWaker' = nextWaker + 1, Goto(e, "recheck"),
         UNCHANGED <<live, cancelled, waking, host, timer>>
  PROVE  IInv'
<1>1. PICK f \in live :
      /\ f = current[e] /\ f \in Future /\ Owner[f] = e /\ context[e] \in Waker
      /\ stage[e] = "polling" /\ step[e] = "register"
  BY PolledFuture DEF At
<1>2. PICK entry : entry = [id |-> nextWaker, execution |-> e, waker |-> context[e]]
  OBVIOUS
<1>3. nextWaker \in Nat \ {0} /\ nextWaker' \in Nat \ {0}
  BY DEF IInv, TypeOK, ControlTyped
<1>4. Entry \subseteq Entry' /\ entry \in Entry'
  <2>1. Entry \subseteq Entry'
    BY <1>3, EntriesStay DEF IInv
  <2>2. entry \in Entry'
    BY <1>1, <1>2, <1>3 DEF Entry
  <2>3. QED
    BY <2>1, <2>2
<1>5. PICK last \in Nat :
      /\ last = Len(wakers) /\ wakers \in Seq(Entry) /\ DOMAIN wakers = 1..last
      /\ \A i \in 1..last : wakers[i] \in Entry /\ wakers[i].id # nextWaker
  <2>1. wakers \in Seq(Entry)
    BY DEF IInv, TypeOK, ControlTyped
  <2>2. Len(wakers) \in Nat /\ DOMAIN wakers = 1..Len(wakers)
    BY <2>1
  <2>3. \A i \in 1..Len(wakers) : wakers[i] \in Entry
    BY <2>1, <2>2
  <2>4. \A other \in Entry : other.id # nextWaker
    BY <1>3 DEF Entry
  <2>5. QED
    BY <2>1, <2>2, <2>3, <2>4
<1>6. /\ wakers' \in Seq(Entry') /\ DOMAIN wakers' = 1..last + 1
      /\ \A i \in 1..last : wakers'[i] = wakers[i]
      /\ wakers'[last + 1] = entry
  <2>1. wakers' = Append(wakers, entry) /\ wakers \in Seq(Entry')
    BY <1>2, <1>4, <1>5
  <2>2. QED
    BY <1>4, <1>5, <2>1
<1>7. /\ step' = [step EXCEPT ![e] = "recheck"]
      /\ UNCHANGED <<stage, outcome, woken, context, current>>
  BY DEF Goto
<1>8. /\ registration' \in [Future -> Nat] /\ registration'[f] = nextWaker
      /\ \A g \in Future : g # f => registration'[g] = registration[g]
  BY <1>1, <1>3 DEF IInv, TypeOK, ControlTyped
<1>9. ExecutorsTyped'
  BY <1>7 DEF IInv, TypeOK, ExecutorsTyped
<1>10. ControlTyped' /\ OperationsTyped'
  BY <1>3, <1>4, <1>6, <1>8 DEF IInv, TypeOK, ControlTyped, OperationsTyped, host, timer
<1>11. IdentifierInv'
  <2>1. \A g \in Future : registration[g] \in Nat /\ registration[g] < nextWaker
    BY DEF IInv, TypeOK, ControlTyped, IdentifierInv
  <2>2. \A g \in Future : registration'[g] < nextWaker'
    BY <1>3, <1>8, <2>1
  <2>3. \A g, h \in Future : registration'[g] = registration'[h] /\ registration'[g] # 0 => g = h
    BY <1>3, <1>8, <2>1 DEF IInv, IdentifierInv
  <2>4. QED
    BY <2>2, <2>3 DEF IdentifierInv
<1>12. \A i \in 1..last : wakers[i].id # registration[f]
  <2>1. \A i \in 1..last : wakers[i].id # 0
    BY <1>5 DEF Entry
  <2>2. QED
    BY <1>1, <1>5, <2>1 DEF Positions
<1>13. RegistrationsOwned'
  <2>1. \A i, j \in 1..last + 1 : wakers'[i].id = wakers'[j].id => i = j
    <3> SUFFICES ASSUME NEW i \in 1..last + 1, NEW j \in 1..last + 1, wakers'[i].id = wakers'[j].id
                 PROVE  i = j
      OBVIOUS
    <3>1. entry.id = nextWaker
      BY <1>2
    <3>2. CASE i \in 1..last /\ j \in 1..last
      <4>1. \A k, l \in DOMAIN wakers : wakers[k].id = wakers[l].id => k = l
        BY Zenon DEF IInv, RegistrationsOwned
      <4>2. wakers'[i] = wakers[i] /\ wakers'[j] = wakers[j] /\ i \in DOMAIN wakers /\ j \in DOMAIN wakers
        BY <1>5, <1>6, <3>2, Zenon
      <4>3. wakers[i].id = wakers[j].id
        BY <4>2, Zenon
      <4>4. QED
        BY <4>1, <4>2, <4>3, Zenon
    <3>3. /\ wakers'[last + 1].id = nextWaker
          /\ \A k \in 1..last : wakers'[k].id = wakers[k].id /\ wakers[k].id # nextWaker
      BY <1>5, <1>6, <3>1
    <3>4. CASE i = last + 1 \/ j = last + 1
      BY <3>3, <3>4
    <3>5. QED
      BY <3>2, <3>4
  <2>2. \A i \in 1..last :
          \E g \in live : registration'[g] = wakers'[i].id /\ Owner[g] = wakers'[i].execution
    <3> SUFFICES ASSUME NEW i \in 1..last
                 PROVE  \E g \in live : registration'[g] = wakers'[i].id /\ Owner[g] = wakers'[i].execution
      OBVIOUS
    <3>1. PICK g \in live : registration[g] = wakers[i].id /\ Owner[g] = wakers[i].execution
      BY <1>5 DEF IInv, RegistrationsOwned
    <3>2. g # f /\ g \in Future
      BY <1>12, <3>1 DEF IInv, TypeOK, ControlTyped
    <3>3. QED
      BY <1>6, <1>8, <3>1, <3>2
  <2>3. registration'[f] = wakers'[last + 1].id /\ Owner[f] = wakers'[last + 1].execution
    BY <1>1, <1>2, <1>6, <1>8
  <2>4. \A i \in DOMAIN wakers' : i \in 1..last \/ i = last + 1
    BY <1>6
  <2>5. QED
    BY <1>1, <1>6, <2>1, <2>2, <2>3, <2>4 DEF RegistrationsOwned
<1>14. \A d \in Execution : Pending(d)' = Pending(d) /\ Pending(d) \subseteq Future
  BY DEF Pending, IInv, TypeOK, ControlTyped
<1>15. PollingInv'
  BY <1>7, <1>14 DEF IInv, PollingInv
<1>16. ASSUME NEW g \in Future, g # f, Listed(g)
       PROVE  Listed(g)'
  <2>1. PICK i \in 1..last :
           wakers[i] = [id |-> registration[g], execution |-> Owner[g], waker |-> context[Owner[g]]]
    BY <1>5, <1>16 DEF Listed
  <2>2. i \in DOMAIN wakers' /\ wakers'[i] = wakers[i] /\ registration'[g] = registration[g]
    BY <1>6, <1>8, <1>16
  <2>3. QED
    BY <1>7, <2>1, <2>2 DEF Listed
<1>17. Listed(f)'
  BY <1>1, <1>2, <1>6, <1>7, <1>8 DEF Listed
<1>18. ASSUME NEW d \in Execution, d # e
       PROVE  Reaches(d)'
  <2>1. \A g \in Pending(d) : Listed(g) => Listed(g)'
    BY <1>1, <1>14, <1>16, <1>18 DEF Pending
  <2>2. step'[d] = step[d]
    BY <1>7, <1>18 DEF IInv, TypeOK, ExecutorsTyped
  <2>3. QED
    BY <1>7, <1>14, <2>1, <2>2, StaysReachable DEF IInv, ReachInv, PollingInv
<1>19. Reaches(e)'
  <2>1. step'[e] = "recheck"
    BY <1>7 DEF IInv, TypeOK, ExecutorsTyped
  <2>2. Passed(e)' = Passed(e) /\ Passed(e) \subseteq Future
    BY <1>1, <1>7, <1>14, <2>1 DEF Passed
  <2>3. \A g \in Passed(e) : Listed(g)
    BY <1>1 DEF IInv, ReachInv, Reaches
  <2>4. \A g \in Passed(e) : Listed(g)'
    BY <1>16, <1>17, <2>2, <2>3
  <2>5. Listed(current[e])'
    BY <1>1, <1>7, <1>17 DEF Listed
  <2>6. QED
    BY <1>1, <1>7, <2>2, <2>4, <2>5 DEF Reaches
<1>20. ReachInv'
  BY <1>18, <1>19 DEF ReachInv
<1>21. QED
  BY <1>9, <1>10, <1>11, <1>13, <1>15, <1>20 DEF IInv, TypeOK

LEMMA RegisterStep ==
  ASSUME IInv, NEW e \in Execution, RegisterWaker(e)
  PROVE  IInv'
<1>1. stage[e] = "polling" /\ step[e] = "register" /\ Goto(e, "recheck")
      /\ UNCHANGED <<live, cancelled, waking, host, timer>>
  BY DEF RegisterWaker, At
<1>2. CASE cancelled
  <2>1. UNCHANGED <<live, registration, control, host, timer>>
    BY <1>1, <1>2 DEF RegisterWaker, control
  <2>2. /\ step'[e] = "recheck"
        /\ UNCHANGED <<stage, woken, context, current, live, registration, wakers, waking, cancelled>>
    BY <1>1, <2>1 DEF Goto, control, IInv, TypeOK, ExecutorsTyped
  <2>3. Passed(e)' = Passed(e) /\ InHand(e)' = InHand(e)
    BY <1>1, <2>2 DEF Passed, Pending, InHand
  <2>4. Reaches(e)'
    BY <1>1, <1>2, <2>2, <2>3 DEF IInv, ReachInv, Reaches
  <2>5. QED
    BY <1>1, <2>1, <2>4, GotoStep
<1>3. CASE ~cancelled /\ registration[current[e]] # 0 /\ Positions(registration[current[e]]) # {}
  BY <1>1, <1>3, RefreshStep DEF RegisterWaker
<1>4. CASE ~cancelled /\ ~(registration[current[e]] # 0 /\ Positions(registration[current[e]]) # {})
  BY <1>1, <1>4, AppendStep DEF RegisterWaker, NextIdentifier
<1>5. QED
  BY <1>2, <1>3, <1>4

(* A future that completes or is dropped takes out its own registration.   *)
LEMMA UnregisterStep ==
  ASSUME IInv, NEW f \in live, Unregister(f), context' = context
  PROVE  /\ ControlTyped' /\ RegistrationsOwned' /\ IdentifierInv'
         /\ \A g \in live : g # f /\ Listed(g) => Listed(g)'
         /\ \A d \in Execution : Pending(d)' = Pending(d) \ {f}
<1>1. /\ wakers' \in Seq(Entry)
      /\ \A i, j \in DOMAIN wakers' : wakers'[i].id = wakers'[j].id => i = j
      /\ \A i \in DOMAIN wakers' :
           wakers'[i].id # registration[f] /\ \E j \in DOMAIN wakers : wakers'[i] = wakers[j]
      /\ \A j \in DOMAIN wakers :
           wakers[j].id # registration[f] => \E i \in DOMAIN wakers' : wakers'[i] = wakers[j]
  BY UnregisterList DEF IInv
<1>2. /\ registration' = [registration EXCEPT ![f] = 0] /\ live' = live \ {f}
      /\ UNCHANGED <<nextWaker, cancelled, waking>>
  BY DEF Unregister
<1>3. /\ live \subseteq Future /\ f \in Future /\ registration' \in [Future -> Nat]
      /\ registration'[f] = 0 /\ \A g \in Future : g # f => registration'[g] = registration[g]
  BY <1>2 DEF IInv, TypeOK, ControlTyped
<1>4. ControlTyped'
  BY <1>1, <1>2, <1>3 DEF IInv, TypeOK, ControlTyped, Entry
<1>5. IdentifierInv'
  BY <1>2, <1>3 DEF IInv, TypeOK, ControlTyped, IdentifierInv
<1>6. RegistrationsOwned'
  <2> SUFFICES ASSUME NEW i \in DOMAIN wakers'
               PROVE  \E g \in live' : registration'[g] = wakers'[i].id
                                       /\ Owner[g] = wakers'[i].execution
    BY <1>1 DEF RegistrationsOwned
  <2>1. PICK j \in DOMAIN wakers : wakers'[i] = wakers[j]
    BY <1>1
  <2>2. PICK g \in live : registration[g] = wakers[j].id /\ Owner[g] = wakers[j].execution
    BY DEF IInv, RegistrationsOwned
  <2>3. g # f
    BY <1>1, <2>1, <2>2
  <2>4. QED
    BY <1>2, <1>3, <2>1, <2>2, <2>3
<1>7. ASSUME NEW g \in live, g # f, Listed(g)
      PROVE  Listed(g)'
  <2>1. PICK j \in DOMAIN wakers :
          wakers[j] = [id |-> registration[g], execution |-> Owner[g], waker |-> context[Owner[g]]]
    BY <1>7 DEF Listed
  <2>2. registration[g] # 0
    <3>1. wakers[j] \in Entry
      BY DEF IInv, TypeOK, ControlTyped
    <3>2. QED
      BY <2>1, <3>1 DEF Entry
  <2>3. wakers[j].id # registration[f]
    BY <1>3, <1>7, <2>1, <2>2 DEF IInv, IdentifierInv
  <2>4. PICK i \in DOMAIN wakers' : wakers'[i] = wakers[j]
    BY <1>1, <2>3
  <2>5. registration'[g] = registration[g]
    BY <1>3, <1>7
  <2>6. QED
    BY <2>1, <2>4, <2>5 DEF Listed
<1>8. \A d \in Execution : Pending(d)' = Pending(d) \ {f}
  BY <1>2 DEF Pending
<1>9. QED
  BY <1>4, <1>5, <1>6, <1>7, <1>8

(* A completed future, or a dropped one, disturbs no other execution.      *)
LEMMA FutureEnds ==
  ASSUME IInv, NEW e \in Execution, NEW f \in live, Owner[f] = e, Unregister(f),
         NEW s \in {"idle", "dropping", "over"}, Pending(e) = {f} => s = "over",
         NEW o \in {"none", "Ok", "Cancelled", "Timeout", "dropped"}, NEW w \in BOOLEAN,
         s = "idle" => w,
         stage' = [stage EXCEPT ![e] = s], outcome' = [outcome EXCEPT ![e] = o],
         woken' = [woken EXCEPT ![e] = w],
         UNCHANGED <<context, current, step, hostWaker, hostDone, timer>>
  PROVE  IInv'
<1>1. /\ ControlTyped' /\ RegistrationsOwned' /\ IdentifierInv'
      /\ \A g \in live : g # f /\ Listed(g) => Listed(g)'
      /\ \A d \in Execution : Pending(d)' = Pending(d) \ {f}
  BY UnregisterStep
<1>2. ExecutorsTyped'
  BY DEF IInv, TypeOK, ExecutorsTyped
<1>3. OperationsTyped'
  BY DEF IInv, TypeOK, OperationsTyped, timer
<1>4. stage'[e] = s /\ woken'[e] = w
  BY DEF IInv, TypeOK, ExecutorsTyped
<1>5. \A d \in Execution : d # e => Pending(d)' = Pending(d)
  BY <1>1 DEF Pending
<1>6. PollingInv'
  <2>1. s # "over" => Pending(e)' # {}
    BY <1>1 DEF Pending
  <2>2. \A d \in Execution : d # e => stage'[d] = stage[d]
    BY DEF IInv, TypeOK, ExecutorsTyped
  <2>3. QED
    BY <1>4, <1>5, <2>1, <2>2 DEF IInv, PollingInv
<1>7. ASSUME NEW d \in Execution, d # e
      PROVE  Reaches(d)'
  <2>1. \A g \in Pending(d) : Listed(g) => Listed(g)'
    BY <1>1, <1>7 DEF Pending
  <2>2. stage'[d] = stage[d] /\ woken'[d] = woken[d]
    BY <1>7 DEF IInv, TypeOK, ExecutorsTyped
  <2>3. UNCHANGED <<cancelled, waking>>
    BY DEF Unregister
  <2>4. QED
    BY <1>5, <1>7, <2>1, <2>2, <2>3, StaysReachable DEF IInv, ReachInv, PollingInv
<1>8. Reaches(e)'
  BY <1>4 DEF Reaches
<1>9. QED
  BY <1>1, <1>2, <1>3, <1>6, <1>7, <1>8 DEF IInv, TypeOK, ReachInv

LEMMA DropStep ==
  ASSUME IInv, NEW e \in Execution, NEW f \in Future, DropFuture(e, f)
  PROVE  IInv'
<1>1. PICK s \in {"dropping", "over"} :
        s = (IF Pending(e) = {f} THEN "over" ELSE "dropping")
  OBVIOUS
<1>2. stage' = [stage EXCEPT ![e] = s] /\ f \in live /\ Owner[f] = e
  BY <1>1 DEF DropFuture, Pending
<1>3. /\ outcome' = [outcome EXCEPT ![e] = outcome[e]] /\ woken' = [woken EXCEPT ![e] = woken[e]]
      /\ outcome[e] \in {"none", "Ok", "Cancelled", "Timeout", "dropped"} /\ woken[e] \in BOOLEAN
  BY DEF DropFuture, IInv, TypeOK, ExecutorsTyped
<1>4. UNCHANGED <<context, current, step, hostWaker, hostDone, timer>> /\ Unregister(f)
  BY DEF DropFuture, host
<1>5. QED
  BY <1>1, <1>2, <1>3, <1>4, FutureEnds

(* A poll of the host operation completes the future or keeps its waker.   *)
LEMMA PollHostStep ==
  ASSUME IInv, NEW e \in Execution, PollHost(e)
  PROVE  IInv'
<1>1. PICK f \in live :
        f = current[e] /\ f \in Future /\ Owner[f] = e /\ context[e] \in Waker
        /\ stage[e] = "polling" /\ step[e] = "host"
  BY PolledFuture DEF PollHost, At
<1>2. CASE f \in hostDone
  <2>1. PICK s \in {"idle", "over"} : s = (IF Pending(e) = {f} THEN "over" ELSE "idle")
    OBVIOUS
  <2>2. PICK o \in {"none", "Ok", "Cancelled", "Timeout", "dropped"} :
          o = (IF Pending(e) = {f} THEN "Ok" ELSE outcome[e])
    BY DEF IInv, TypeOK, ExecutorsTyped
  <2>3. /\ Unregister(f)
        /\ stage' = [stage EXCEPT ![e] = IF Pending(e) = {f} THEN "over" ELSE "idle"]
        /\ outcome' = [outcome EXCEPT ![e] = IF Pending(e) = {f} THEN "Ok" ELSE @]
        /\ woken' = [woken EXCEPT ![e] = TRUE]
        /\ UNCHANGED <<context, current, step, hostWaker, hostDone, timer>>
    BY <1>1, <1>2 DEF PollHost
  <2>4. stage' = [stage EXCEPT ![e] = s] /\ outcome' = [outcome EXCEPT ![e] = o]
    BY <2>1, <2>2, <2>3
  <2>5. QED
    BY <1>1, <2>1, <2>3, <2>4, FutureEnds
<1>3. CASE f \notin hostDone
  <2>1. /\ hostWaker' = [hostWaker EXCEPT ![f] = context[e]]
        /\ UNCHANGED <<live, registration, wakers, nextWaker, cancelled, waking, hostDone, timer>>
        /\ step' = [step EXCEPT ![e] = "expiry"]
        /\ UNCHANGED <<stage, outcome, woken, context, current>>
    BY <1>1, <1>3 DEF PollHost, Goto
  <2>2. ExecutorsTyped'
    BY <2>1 DEF IInv, TypeOK, ExecutorsTyped
  <2>3. OperationsTyped'
    BY <1>1, <2>1 DEF IInv, TypeOK, OperationsTyped, timer
  <2>4. ControlTyped' /\ RegistrationsOwned' /\ IdentifierInv'
    BY <2>1 DEF IInv, TypeOK, ControlTyped, RegistrationsOwned, IdentifierInv, Entry
  <2>5. \A d \in Execution : Pending(d)' = Pending(d) /\ Pending(d) \subseteq Future
    BY <2>1 DEF Pending, IInv, TypeOK, ControlTyped
  <2>6. PollingInv'
    BY <2>1, <2>5 DEF IInv, PollingInv
  <2>7. \A g \in Future : Listed(g)' = Listed(g)
    BY <2>1 DEF Listed
  <2>8. ASSUME NEW d \in Execution, d # e
        PROVE  Reaches(d)'
    <3>1. step'[d] = step[d]
      BY <2>1, <2>8 DEF IInv, TypeOK, ExecutorsTyped
    <3>2. \A g \in Pending(d) : Listed(g) => Listed(g)'
      BY <2>5, <2>7
    <3>3. QED
      BY <2>1, <2>5, <3>1, <3>2, StaysReachable DEF IInv, ReachInv, PollingInv
  <2>9. Reaches(e)'
    <3>1. step'[e] = "expiry"
      BY <2>1 DEF IInv, TypeOK, ExecutorsTyped
    <3>2. Passed(e)' = Passed(e) /\ Passed(e) \subseteq Future
      BY <1>1, <2>1, <2>5, <3>1 DEF Passed
    <3>3. InHand(e)' = InHand(e)
      BY <2>1 DEF InHand
    <3>4. QED
      BY <1>1, <2>1, <2>7, <3>1, <3>2, <3>3 DEF IInv, ReachInv, Reaches
  <2>10. QED
    BY <2>2, <2>3, <2>4, <2>6, <2>8, <2>9 DEF IInv, TypeOK, ReachInv
<1>4. QED
  BY <1>2, <1>3

(* The scan goes on with the next future, or ends having passed them all.  *)
LEMMA PollExpiryStep ==
  ASSUME IInv, NEW e \in Execution, PollExpiry(e)
  PROVE  IInv'
<1>1. PICK f \in live :
        f = current[e] /\ f \in Future /\ f \in Nat /\ Owner[f] = e /\ context[e] \in Waker
        /\ stage[e] = "polling" /\ step[e] = "expiry"
  BY PolledFuture DEF PollExpiry, At
<1>2. PICK later : later = {g \in Pending(e) : g > f}
  OBVIOUS
<1>3. CASE f \in signalled
  <2>1. Interrupted(e, "Timeout") /\ UNCHANGED <<live, registration, control, host, timer>>
    BY <1>1, <1>3 DEF PollExpiry, timer
  <2>2. QED
    BY <1>1, <2>1, InterruptedStep
<1>4. CASE f \notin signalled
  <2>1. PICK next : next = (IF later = {} THEN 0 ELSE Least(later))
    OBVIOUS
  <2>2. later \subseteq live /\ later \subseteq Pending(e)
        /\ \A g \in Pending(e) : g \in Nat /\ g \in Future /\ (g \in later <=> g > f)
    BY <1>1, <1>2, CancellationAssumption DEF Pending, IInv, TypeOK, ControlTyped
  <2>3. later # {} => next \in later /\ next \in Future /\ \A g \in later : next <= g
    BY <2>1, <2>2, LeastPending DEF IInv
  <2>4. PICK s \in {"idle", "polling"} : s = (IF later = {} THEN "idle" ELSE "polling")
    OBVIOUS
  <2>5. /\ timerWaker' = [timerWaker EXCEPT ![f] = context[e]]
        /\ step' = [step EXCEPT ![e] = "check"]
        /\ current' = [current EXCEPT ![e] = next]
        /\ stage' = [stage EXCEPT ![e] = s]
        /\ UNCHANGED <<outcome, woken, context>>
        /\ UNCHANGED <<live, registration, control, host, signalled, now>>
    BY <1>1, <1>2, <1>4, <2>1, <2>4 DEF PollExpiry, ExpiryPolled
  <2>6. UNCHANGED <<cancelled, nextWaker, wakers, waking, hostDone, hostWaker>>
    BY <2>5 DEF control, host
  <2>7. next \in {0} \cup Future
    BY <2>1, <2>3
  <2>8. ExecutorsTyped'
    BY <2>5, <2>7 DEF IInv, TypeOK, ExecutorsTyped
  <2>9. OperationsTyped'
    BY <1>1, <2>5, <2>6 DEF IInv, TypeOK, OperationsTyped
  <2>10. ControlTyped' /\ RegistrationsOwned' /\ IdentifierInv'
    BY <2>5, <2>6 DEF IInv, TypeOK, ControlTyped, RegistrationsOwned, IdentifierInv, Entry
  <2>11. \A d \in Execution : Pending(d)' = Pending(d) /\ Pending(d) \subseteq Future
    BY <2>5 DEF Pending, IInv, TypeOK, ControlTyped
  <2>12. stage'[e] = s /\ current'[e] = next /\ step'[e] = "check" /\ context'[e] = context[e]
         /\ context[e] # 0
    BY <2>5, PolledFuture, <1>1 DEF IInv, TypeOK, ExecutorsTyped
  <2>13. \A d \in Execution : d # e =>
           stage'[d] = stage[d] /\ current'[d] = current[d] /\ step'[d] = step[d]
    BY <2>5 DEF IInv, TypeOK, ExecutorsTyped
  <2>14. Pending(e) # {}
    BY <1>1 DEF Pending
  <2>15. PollingInv'
    <3>1. s = "polling" => next \in Pending(e)
      BY <2>2, <2>3, <2>4
    <3>2. QED
      BY <2>5, <2>11, <2>12, <2>13, <2>14, <3>1 DEF IInv, PollingInv
  <2>16. \A g \in Future : Listed(g)' = Listed(g)
    BY <2>5, <2>6 DEF Listed
  <2>17. ASSUME NEW d \in Execution, d # e
         PROVE  Reaches(d)'
    <3>1. \A g \in Pending(d) : Listed(g) => Listed(g)'
      BY <2>11, <2>16
    <3>2. QED
      BY <2>5, <2>6, <2>11, <2>13, <2>17, <3>1, StaysReachable DEF IInv, ReachInv, PollingInv
  <2>18. InHand(e)' = InHand(e)
    BY <2>5, <2>6 DEF InHand
  <2>19. f \in Passed(e) /\ Passed(e) \subseteq Pending(e)
    BY <1>1 DEF Passed, Pending
  <2>20. ASSUME later = {}
         PROVE  Reaches(e)'
    <3>1. Passed(e) = Pending(e)
      <4>1. \A g \in Pending(e) : g < f \/ g = f
        BY <1>1, <2>2, <2>20
      <4>2. QED
        BY <1>1, <4>1 DEF Passed
    <3>2. stage'[e] = "idle"
      BY <2>4, <2>12, <2>20
    <3>3. /\ ~cancelled => \A g \in Pending(e) : Listed(g)
          /\ cancelled /\ ~woken[e] => InHand(e)
      BY <1>1, <2>19, <3>1 DEF IInv, ReachInv, Reaches
    <3>4. ~cancelled => \A g \in Pending(e)' : Listed(g)'
      BY <2>11, <2>16, <3>3
    <3>5. QED
      BY <2>5, <2>6, <2>12, <2>18, <3>2, <3>3, <3>4 DEF Reaches
  <2>21. ASSUME later # {}
         PROVE  Reaches(e)'
    <3>1. stage'[e] = "polling"
      BY <2>4, <2>12, <2>21
    <3>2. ASSUME NEW g \in Pending(e), g < next
          PROVE  g < f \/ g = f
      <4>1. g \in Nat /\ (g \in later <=> g > f)
        BY <2>2
      <4>2. next \in Nat /\ (g \in later => next <= g)
        BY <2>2, <2>3, <2>21
      <4>3. QED
        BY <1>1, <3>2, <4>1, <4>2
    <3>3. Passed(e)' \subseteq Passed(e)
      <4>1. Passed(e)' = {g \in Pending(e) : g < next}
        BY <2>11, <2>12 DEF Passed
      <4>2. QED
        BY <1>1, <3>2, <4>1 DEF Passed
    <3>4. /\ ~cancelled => \A g \in Passed(e) : Listed(g)
          /\ cancelled /\ ~woken[e] => InHand(e)
      BY <1>1, <2>19 DEF IInv, ReachInv, Reaches
    <3>5. ~cancelled => \A g \in Passed(e)' : Listed(g)'
      BY <2>11, <2>16, <2>19, <3>3, <3>4
    <3>6. QED
      BY <2>5, <2>6, <2>12, <2>18, <2>19, <3>1, <3>3, <3>4, <3>5 DEF Reaches
  <2>22. ReachInv'
    BY <2>17, <2>20, <2>21 DEF ReachInv
  <2>23. QED
    BY <2>8, <2>9, <2>10, <2>15, <2>22 DEF IInv, TypeOK
<1>5. QED
  BY <1>3, <1>4

(* cancel() takes the waker of every future that passed.                   *)
LEMMA CancelStep ==
  ASSUME IInv, Cancel
  PROVE  IInv'
<1>1. /\ ~cancelled /\ cancelled' = TRUE /\ waking' = {wakers[i] : i \in DOMAIN wakers} /\ wakers' = <<>>
      /\ UNCHANGED <<stage, outcome, woken, context, current, step, live, registration, nextWaker, host,
                     timer>>
  BY DEF Cancel, executor
<1>2. ExecutorsTyped' /\ OperationsTyped'
  BY <1>1 DEF IInv, TypeOK, ExecutorsTyped, OperationsTyped, host, timer
<1>3. waking' \subseteq Entry
  <2>1. \A i \in DOMAIN wakers : wakers[i] \in Entry
    BY DEF IInv, TypeOK, ControlTyped
  <2>2. QED
    BY <1>1, <2>1
<1>4. ControlTyped' /\ RegistrationsOwned' /\ IdentifierInv'
  <2>1. Entry' = Entry
    BY <1>1 DEF Entry
  <2>2. QED
    BY <1>1, <1>3, <2>1 DEF IInv, TypeOK, ControlTyped, RegistrationsOwned, IdentifierInv
<1>5. \A d \in Execution : Pending(d)' = Pending(d) /\ Passed(d)' = Passed(d)
  BY <1>1 DEF Pending, Passed
<1>6. PollingInv'
  BY <1>1, <1>5 DEF IInv, PollingInv
<1>7. ASSUME NEW d \in Execution, NEW f \in Pending(d), Listed(f)
      PROVE  InHand(d)'
  <2>1. PICK i \in DOMAIN wakers :
          wakers[i] = [id |-> registration[f], execution |-> Owner[f], waker |-> context[Owner[f]]]
    BY <1>7 DEF Listed
  <2>2. wakers[i] \in waking' /\ wakers[i].execution = d /\ wakers[i].waker = context'[d]
    BY <1>1, <2>1 DEF Pending
  <2>3. QED
    BY <2>2 DEF InHand
<1>8. ASSUME NEW d \in Execution
      PROVE  Reaches(d)'
  <2>1. stage[d] = "polling" /\ Passed(d) # {} => InHand(d)'
    BY <1>1, <1>7 DEF IInv, ReachInv, Reaches, Passed
  <2>2. stage[d] = "idle" /\ ~woken[d] => context[d] # 0 /\ InHand(d)'
    BY <1>1, <1>7 DEF IInv, ReachInv, Reaches, PollingInv
  <2>3. QED
    BY <1>1, <1>5, <2>1, <2>2 DEF Reaches
<1>9. QED
  BY <1>2, <1>4, <1>6, <1>8 DEF IInv, TypeOK, ReachInv

(* Steps that only wake: an execution that is not woken keeps its waker in *)
(* the hand of cancel(), which wakes it with the waker of its last poll.   *)
LEMMA WakingStep ==
  ASSUME IInv, woken' \in [Execution -> BOOLEAN], \A d \in Execution : woken[d] => woken'[d],
         UNCHANGED <<stage, outcome, context, current, step, live, registration, cancelled, nextWaker,
                     wakers>>,
         OperationsTyped', waking' \subseteq waking,
         \A entry \in waking \ waking' :
           woken'[entry.execution] \/ entry.waker # context[entry.execution]
  PROVE  IInv'
<1>1. ExecutorsTyped'
  BY DEF IInv, TypeOK, ExecutorsTyped
<1>2. ControlTyped' /\ RegistrationsOwned' /\ IdentifierInv'
  <2>1. Entry' = Entry
    BY DEF Entry
  <2>2. QED
    BY <2>1 DEF IInv, TypeOK, ControlTyped, RegistrationsOwned, IdentifierInv
<1>3. \A d \in Execution : Pending(d)' = Pending(d) /\ Passed(d)' = Passed(d)
  BY DEF Pending, Passed
<1>4. PollingInv'
  BY <1>3 DEF IInv, PollingInv
<1>5. \A f \in Future : Listed(f)' = Listed(f)
  BY DEF Listed
<1>6. \A d \in Execution : Pending(d) \subseteq Future /\ Passed(d) \subseteq Pending(d)
  BY DEF Pending, Passed, IInv, TypeOK, ControlTyped
<1>7. \A d \in Execution : stage[d] = "polling" => current[d] \in Future
  BY <1>6 DEF IInv, PollingInv
<1>8. ASSUME NEW d \in Execution, ~woken'[d], InHand(d)
      PROVE  InHand(d)'
  <2>1. PICK entry \in waking : entry.execution = d /\ entry.waker = context[d]
    BY <1>8 DEF InHand
  <2>2. entry \in waking'
    BY <1>8, <2>1
  <2>3. QED
    BY <2>1, <2>2 DEF InHand
<1>9. ASSUME NEW d \in Execution
      PROVE  Reaches(d)'
  <2>1. Listed(current[d]) /\ stage[d] = "polling" => Listed(current[d])'
    BY DEF Listed
  <2>2. QED
    BY <1>3, <1>5, <1>6, <1>8, <2>1 DEF IInv, ReachInv, Reaches
<1>10. QED
  BY <1>1, <1>2, <1>4, <1>9 DEF IInv, TypeOK, ReachInv

(* What woken becomes when a waker of e is woken.                          *)
LEMMA WakesTyped ==
  ASSUME IInv, NEW e \in Execution, NEW w, woken' = Wakes(e, w)
  PROVE  /\ woken' \in [Execution -> BOOLEAN] /\ \A d \in Execution : woken[d] => woken'[d]
         /\ w # 0 /\ w = context[e] => woken'[e]
<1>1. woken \in [Execution -> BOOLEAN]
  BY DEF IInv, TypeOK, ExecutorsTyped
<1>2. woken' = [woken EXCEPT ![e] = woken[e] \/ (w # 0 /\ w = context[e])]
  BY DEF Wakes
<1>3. QED
  BY <1>1, <1>2

LEMMA OtherSteps ==
  ASSUME IInv, WakeNext \/ Tick \/ \E f \in Future : HostCompletes(f) \/ TimerSignals(f)
  PROVE  IInv'
<1>1. CASE WakeNext
  <2>1. PICK entry \in waking :
          /\ waking' = waking \ {entry} /\ woken' = Wakes(entry.execution, entry.waker)
          /\ UNCHANGED <<stage, outcome, context, current, step, live, registration,
                         cancelled, nextWaker, wakers, host, timer>>
    BY <1>1 DEF WakeNext
  <2>2. entry.execution \in Execution /\ entry.waker \in Waker /\ entry.waker # 0
    <3>1. entry \in Entry
      BY DEF IInv, TypeOK, ControlTyped
    <3>2. QED
      BY <3>1, CancellationAssumption DEF Entry
  <2>3. OperationsTyped'
    BY <2>1 DEF IInv, TypeOK, OperationsTyped, host, timer
  <2>4. QED
    BY <2>1, <2>2, <2>3, WakesTyped, WakingStep
<1>2. CASE Tick
  <2>1. /\ now < MaxTime /\ now' = now + 1
        /\ UNCHANGED <<stage, outcome, woken, context, current, step, live, registration, cancelled,
                       nextWaker, wakers, waking, hostDone, hostWaker, timerWaker, signalled>>
    BY <1>2 DEF Tick, executor, control, host
  <2>2. OperationsTyped'
    BY <2>1, CancellationAssumption DEF IInv, TypeOK, OperationsTyped
  <2>3. woken' \in [Execution -> BOOLEAN]
    BY <2>1 DEF IInv, TypeOK, ExecutorsTyped
  <2>4. QED
    BY <2>1, <2>2, <2>3, WakingStep
<1>3. ASSUME NEW f \in Future, HostCompletes(f)
      PROVE  IInv'
  <2>1. /\ hostDone' = hostDone \cup {f} /\ woken' = Wakes(Owner[f], hostWaker[f])
        /\ UNCHANGED <<stage, outcome, context, current, step, live, registration, cancelled, nextWaker,
                       wakers, waking, hostWaker, timerWaker, signalled, now>>
    BY <1>3 DEF HostCompletes, control, timer
  <2>2. OperationsTyped'
    BY <2>1 DEF IInv, TypeOK, OperationsTyped
  <2>3. Owner[f] \in Execution
    BY CancellationAssumption
  <2>4. QED
    BY <2>1, <2>2, <2>3, WakesTyped, WakingStep
<1>4. ASSUME NEW f \in Future, TimerSignals(f)
      PROVE  IInv'
  <2>1. /\ signalled' = signalled \cup {f} /\ woken' = Wakes(Owner[f], timerWaker[f])
        /\ UNCHANGED <<stage, outcome, context, current, step, live, registration, cancelled, nextWaker,
                       wakers, waking, hostDone, hostWaker, timerWaker, now>>
    BY <1>4 DEF TimerSignals, control, host
  <2>2. OperationsTyped'
    BY <2>1 DEF IInv, TypeOK, OperationsTyped
  <2>3. Owner[f] \in Execution
    BY CancellationAssumption
  <2>4. QED
    BY <2>1, <2>2, <2>3, WakesTyped, WakingStep
<1>5. QED
  BY <1>1, <1>2, <1>3, <1>4

LEMMA StutterStep ==
  ASSUME IInv, UNCHANGED vars
  PROVE  IInv'
<1>1. UNCHANGED <<stage, outcome, woken, context, current, step, live, registration, cancelled,
                  nextWaker, wakers, waking, hostDone, hostWaker, timerWaker, signalled, now>>
  BY DEF vars, executor, control, host, timer
<1>2. OperationsTyped' /\ woken' \in [Execution -> BOOLEAN]
  BY <1>1 DEF IInv, TypeOK, OperationsTyped, ExecutorsTyped
<1>3. QED
  BY <1>1, <1>2, WakingStep

LEMMA NextInv ==
  ASSUME IInv, [Next]_vars
  PROVE  IInv'
<1>1. ASSUME NEW e \in Execution, NEW w \in Waker, StartPoll(e, w)
      PROVE  IInv'
  BY <1>1, StartPollStep
<1>2. ASSUME NEW e \in Execution, PollStep(e)
      PROVE  IInv'
  BY <1>2, CheckSteps, RegisterStep, RecheckStep, PollHostStep, PollExpiryStep, DropStep DEF PollStep
<1>3. ASSUME NEW e \in Execution, Abandon(e)
      PROVE  IInv'
  BY <1>3, AbandonStep
<1>4. CASE Cancel
  BY <1>4, CancelStep
<1>5. CASE WakeNext \/ Tick \/ \E f \in Future : HostCompletes(f) \/ TimerSignals(f)
  BY <1>5, OtherSteps
<1>6. CASE UNCHANGED vars
  BY <1>6, StutterStep
<1>7. QED
  BY <1>1, <1>2, <1>3, <1>4, <1>5, <1>6 DEF Next, Done
-----------------------------------------------------------------------------
(* The inductive invariant of the control and the polls of its executions. *)
THEOREM Invariance == Spec => []IInv
<1>1. IInv /\ [Next]_vars => IInv'
  BY NextInv
<1>2. QED
  BY InitInv, <1>1, PTL DEF Spec

(* The control lists one waker for each waiting future that registered and *)
(* none of a completed or dropped one, for any number of executions that   *)
(* share it: register_waker and unregister_waker of cancellation.rs.       *)
THEOREM ControlIsSound == Spec => []ControlSound
<1>1. IInv => ControlSound
  BY DEF IInv, ControlSound
<1>2. QED
  BY Invariance, <1>1, PTL

(* No wake-up of cancel() is lost: an execution that sleeps is registered  *)
(* with the waker of its last poll, or cancel() holds that waker.          *)
THEOREM SleepersAreReachable == Spec => []SleeperIsReachable
<1>1. IInv => SleeperIsReachable
  <2> SUFFICES ASSUME IInv, NEW e \in Execution, stage[e] = "idle", ~woken[e]
               PROVE  IF cancelled
                      THEN \E entry \in waking : entry.execution = e /\ entry.waker = context[e]
                      ELSE \A f \in Pending(e) :
                             \E i \in DOMAIN wakers :
                               wakers[i] = [id |-> registration[f], execution |-> e,
                                            waker |-> context[e]]
    BY DEF SleeperIsReachable
  <2>1. CASE cancelled
    BY <2>1 DEF IInv, ReachInv, Reaches, InHand
  <2>2. CASE ~cancelled
    <3>1. \A f \in Pending(e) : Listed(f) /\ Owner[f] = e
      BY <2>2 DEF IInv, ReachInv, Reaches, Pending
    <3>2. QED
      BY <2>2, <3>1 DEF Listed
  <2>3. QED
    BY <2>1, <2>2
<1>2. QED
  BY Invariance, <1>1, PTL
===============================================================================
