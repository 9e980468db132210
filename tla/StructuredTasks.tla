--------------------------- MODULE StructuredTasks ---------------------------
(***************************************************************************)
(* What resumable code relies on, without a scheduler: an execution is a   *)
(* tree of tasks that all proceed on their own.  A task may ask the host   *)
(* and goes on with the answer to its own question; it may fork children   *)
(* and goes on once every one of them finished, with their results in the  *)
(* order they were forked.  The execution is over at once when it ends,    *)
(* whatever its tasks do.  Tasks implements this with one running task, a  *)
(* run queue, saved registers and a counter of waiting children.           *)
(***************************************************************************)
EXTENDS Integers, Sequences, FiniteSets

CONSTANTS MaxTasks, MaxCalls

VARIABLES
  stage,     \* "new", "active" or "over"
  mode,      \* what each task does
  parent,    \* the task that forked a task, 0 for the first
  place,     \* a child's place among its siblings, from 0
  asked,     \* the question a task waits for, or whose answer it has not read
  answer,    \* the answer a task has not read yet
  gathered,  \* the results of the children a task forked
  calls,     \* questions the host has not answered
  nextTask, nextCall

vars == <<stage, mode, parent, place, asked, answer, gathered, calls, nextTask, nextCall>>

TaskId == 1..MaxTasks

Init ==
  /\ stage = "new"
  /\ mode = [t \in TaskId |-> "none"]
  /\ parent = [t \in TaskId |-> 0]
  /\ place = [t \in TaskId |-> 0]
  /\ asked = [t \in TaskId |-> 0]
  /\ answer = [t \in TaskId |-> 0]
  /\ gathered = [t \in TaskId |-> <<>>]
  /\ calls = {}
  /\ nextTask = 1
  /\ nextCall = 1

Begin ==
  /\ stage = "new"
  /\ stage' = "active"
  /\ mode' = [mode EXCEPT ![1] = "ready"]
  /\ nextTask' = 2
  /\ UNCHANGED <<parent, place, asked, answer, gathered, calls, nextCall>>

Proceeds(t) == stage = "active" /\ mode[t] = "ready"

AnsweredAtOnce(t) ==
  /\ Proceeds(t)
  /\ nextCall <= MaxCalls
  /\ nextCall' = nextCall + 1
  /\ UNCHANGED <<stage, mode, parent, place, asked, answer, gathered, calls, nextTask>>

Ask(t) ==
  /\ Proceeds(t)
  /\ asked[t] = 0
  /\ nextCall <= MaxCalls
  /\ nextCall' = nextCall + 1
  /\ mode' = [mode EXCEPT ![t] = "asking"]
  /\ asked' = [asked EXCEPT ![t] = nextCall]
  /\ calls' = calls \cup {nextCall}
  /\ UNCHANGED <<stage, parent, place, answer, gathered, nextTask>>

Answer(t) ==
  /\ stage = "active"
  /\ mode[t] = "asking"
  /\ asked[t] \in calls
  /\ calls' = calls \ {asked[t]}
  /\ mode' = [mode EXCEPT ![t] = "ready"]
  /\ answer' = [answer EXCEPT ![t] = asked[t]]
  /\ UNCHANGED <<stage, parent, place, asked, gathered, nextTask, nextCall>>

Read(t) ==
  /\ Proceeds(t)
  /\ answer[t] # 0
  /\ answer[t] = asked[t]
  /\ answer' = [answer EXCEPT ![t] = 0]
  /\ asked' = [asked EXCEPT ![t] = 0]
  /\ UNCHANGED <<stage, mode, parent, place, gathered, calls, nextTask, nextCall>>

Children(p) == {t \in TaskId : mode[t] # "none" /\ parent[t] = p}

(* n = 0 forks nothing and goes on. *)
Fork(t, n) ==
  LET new == nextTask .. nextTask + n - 1
  IN  /\ Proceeds(t)
      /\ nextTask + n - 1 <= MaxTasks
      /\ nextTask' = nextTask + n
      /\ mode' = [u \in TaskId |->
                    IF u \in new THEN "ready"
                    ELSE IF u = t /\ n > 0 THEN "joining" ELSE mode[u]]
      /\ parent' = [u \in TaskId |-> IF u \in new THEN t ELSE parent[u]]
      /\ place' = [u \in TaskId |-> IF u \in new THEN u - nextTask ELSE place[u]]
      /\ gathered' = [gathered EXCEPT ![t] = [i \in 1..n |-> 0]]
      /\ UNCHANGED <<stage, asked, answer, calls, nextCall>>

Finish(t) ==
  LET p == parent[t]
  IN  /\ Proceeds(t)
      /\ p # 0
      /\ mode[p] = "joining"
      /\ gathered' = [gathered EXCEPT ![p][place[t] + 1] = t]
      /\ mode' = [mode EXCEPT ![t] = "none",
                              ![p] = IF Children(p) = {t} THEN "ready" ELSE "joining"]
      /\ asked' = [asked EXCEPT ![t] = 0]
      /\ answer' = [answer EXCEPT ![t] = 0]
      /\ UNCHANGED <<stage, parent, place, calls, nextTask, nextCall>>

(* The parent uses the results only when no element is missing. *)
Gather(t) ==
  /\ Proceeds(t)
  /\ \A i \in DOMAIN gathered[t] : gathered[t][i] # 0
  /\ gathered' = [gathered EXCEPT ![t] = <<>>]
  /\ UNCHANGED <<stage, mode, parent, place, asked, answer, calls, nextTask, nextCall>>

Over ==
  /\ stage # "over"
  /\ stage' = "over"
  /\ mode' = [t \in TaskId |-> "none"]
  /\ asked' = [t \in TaskId |-> 0]
  /\ answer' = [t \in TaskId |-> 0]
  /\ UNCHANGED <<parent, place, gathered, calls, nextTask, nextCall>>

Next ==
  \/ Begin
  \/ \E t \in TaskId :
       \/ AnsweredAtOnce(t) \/ Ask(t) \/ Answer(t) \/ Read(t)
       \/ \E n \in 0..MaxTasks : Fork(t, n)
       \/ Finish(t) \/ Gather(t)
  \/ Over

Spec == Init /\ [][Next]_vars
==============================================================================
