----------------------------- MODULE BrowserProofs -----------------------------
(***************************************************************************)
(* Proofs about Browser and the Rust guest it runs, for every set of       *)
(* executions and any number of host operations: no call of a guest is     *)
(* lost or answered for another, and no stream is shared.                  *)
(***************************************************************************)
EXTENDS Browser, FiniteSetTheorems, SequenceTheorems, TLAPS

Phases == {"new", "compiling", "instantiating", "driving"} \cup Over

HostCalls == [id : Nat \ {0}, op : Nat]
Responses == [id : Nat \ {0}, value : Nat]

GuestRecord(g) ==
  g = [execution |-> g.execution, next |-> g.next, responses |-> g.responses,
       buffers |-> g.buffers, calls |-> g.calls, taken |-> g.taken, permits |-> g.permits]

(* The call identities of a running guest: given once, each with one       *)
(* response at most, and none with both a response and a Promise in calls, *)
(* the drive loop's map.                                                   *)
Numbered(g, calls) ==
  /\ \A c \in g.calls : c.id < g.next
  /\ \A i \in DOMAIN g.responses : g.responses[i].id < g.next
  /\ \A i \in DOMAIN calls : i \in Nat \ {0} /\ i < g.next
  /\ \A c, d \in g.calls : c.id = d.id => c = d
  /\ \A i, j \in DOMAIN g.responses : g.responses[i].id = g.responses[j].id => i = j
  /\ \A i \in DOMAIN g.responses : g.responses[i].id \notin DOMAIN calls

(* What a HostCall waits for is the answer of its own operation. *)
Awaited(g, calls) ==
  \A c \in g.calls :
    \/ c.id \in DOMAIN calls /\ calls[c.id] = c.op
    \/ /\ c.id \notin DOMAIN calls
       /\ \E i \in DOMAIN g.responses : g.responses[i] = [id |-> c.id, value |-> c.op]

Driven(g, calls) ==
  /\ GuestRecord(g)
  /\ g.execution = "running" /\ g.permits = 1 /\ g.buffers = <<>> /\ g.taken = {}
  /\ g.next \in Nat \ {0}
  /\ g.responses \in Seq(Responses)
  /\ g.calls \subseteq HostCalls
  /\ \A i \in DOMAIN calls : calls[i] \in Nat
  /\ Numbered(g, calls) /\ Awaited(g, calls)

Operations ==
  [kind : {"answered", "function", "open", "next", "refused"}, execution : Execution, stream : Nat]

Streams == [owner : Execution, ended : BOOLEAN]

(* Operations and streams are numbered in the order they were made, and an *)
(* execution advances its own streams only.                                *)
OpsInv ==
  /\ op \in Seq(Operations) /\ stream \in Seq(Streams) /\ nextStream = Len(stream)
  /\ DOMAIN settled \subseteq DOMAIN op
  /\ \A n \in DOMAIN op :
       op[n].kind = "next" =>
         op[n].stream \in DOMAIN stream /\ stream[op[n].stream].owner = op[n].execution

(* An execution in the phase p with the instance g and the Promises calls. *)
Sound(p, g, calls) ==
  /\ p \in Phases
  /\ p = "driving" => Driven(g, calls)
  /\ p # "driving" => g.taken = {} /\ calls = <<>>
  /\ p \in {"complete", "cancelled"} => g.permits = 0

CallsInv ==
  /\ phase \in [Execution -> Phases]
  /\ DOMAIN guest = Execution /\ DOMAIN pending = Execution
  /\ \A e \in Execution : Sound(phase[e], guest[e], pending[e])
  /\ running = None \/ (running \in Execution /\ phase[running] = "driving")
  /\ cancelled \subseteq Execution

(* A controller gives each of its executions another identity, and an      *)
(* execution has one from its instantiation on.                            *)
ControllersInv ==
  /\ nextId \in Seq(Nat \ {0})
  /\ kept.wasm # None => kept.controller \in DOMAIN nextId
  /\ DOMAIN id = Execution /\ DOMAIN controller = Execution
  /\ \A e \in Execution :
       /\ phase[e] \in {"new", "compiling"} => id[e] = None
       /\ phase[e] \in {"instantiating", "driving"} => id[e] # None
       /\ id[e] # None => /\ controller[e] \in DOMAIN nextId
                          /\ id[e] \in Nat /\ id[e] < nextId[controller[e]]
  /\ \A e, f \in Execution :
       id[e] = id[f] /\ controller[e] = controller[f] /\ id[e] # None => e = f

(* The stream s of the execution e: nothing is kept of it once e or s      *)
(* ended, and it is open and marked as it should be unless an execution of *)
(* another controller with the identity of e is over.                      *)
Belongs(s, e) ==
  /\ id[e] # None /\ phase[e] \in {"driving"} \cup Over
  /\ IsOpen(id[e], s) => Drives(e) /\ ~stream[s].ended
  /\ Advancing(id[e], s) => Drives(e) /\ Outstanding(s) # {}
  /\ Kept(e, s) \/ SharedIdentity(e)
  /\ IsOpen(id[e], s) /\ Outstanding(s) # {} => Advancing(id[e], s)
  /\ \A n, m \in Outstanding(s) : n = m

StreamsInv ==
  /\ \A s \in DOMAIN stream : Belongs(s, stream[s].owner)
  /\ \A i, s : IsOpen(i, s) \/ Advancing(i, s) =>
                 s \in DOMAIN stream /\ i = id[stream[s].owner]
  /\ \A a \in advancing : a = <<a[1], a[2]>>

-----------------------------------------------------------------------------
(* The buffer of the input is taken back where it was allocated. *)
LEMMA InputTaken ==
  ASSUME NEW g, GuestRecord(g), g.buffers = <<>>, NEW v,
         NEW h, h = InputAlloc(g, v), NEW p, p = Last(h.buffers).pointer
  PROVE  /\ TakeBuffer(h, p) = g
         /\ h.buffers[BufferAt(h, p)].value = v
         /\ h.execution = g.execution /\ h.permits = g.permits
<1>1. PICK q : q = FreshPointer(g)
  OBVIOUS
<1>2. PICK b : b = [pointer |-> q, value |-> v]
  OBVIOUS
<1>3. Append(g.buffers, b) = <<b>>
  OBVIOUS
<1>4. h = [g EXCEPT !.buffers = <<b>>]
  BY <1>1, <1>2, <1>3 DEF InputAlloc
<1>5. /\ h.buffers = <<b>> /\ h.execution = g.execution /\ h.permits = g.permits
      /\ [h EXCEPT !.buffers = <<>>] = g
  BY <1>4 DEF GuestRecord
<1>6. Len(h.buffers) = 1 /\ DOMAIN h.buffers = {1} /\ h.buffers[1] = b
  BY <1>5
<1>7. p = q
  BY <1>2, <1>6 DEF Last
<1>8. BufferAt(h, p) = 1
  <2>1. \E i \in DOMAIN h.buffers : h.buffers[i].pointer = p
    BY <1>2, <1>6, <1>7
  <2>2. BufferAt(h, p) \in DOMAIN h.buffers
    BY <2>1 DEF BufferAt
  <2>3. QED
    BY <1>6, <2>2
<1>9. SwapRemoved(h.buffers, 1) = <<>>
  BY <1>5, <1>6 DEF SwapRemoved, Front, Last
<1>10. TakeBuffer(h, p) = g
  BY <1>5, <1>8, <1>9 DEF TakeBuffer
<1>11. QED
  BY <1>2, <1>5, <1>6, <1>8, <1>10

LEMMA SwapRemovedSeq ==
  ASSUME NEW S, NEW s \in Seq(S), NEW i \in DOMAIN s
  PROVE  /\ SwapRemoved(s, i) \in Seq(S)
         /\ Len(s) \in Nat \ {0} /\ DOMAIN s = 1..Len(s)
         /\ DOMAIN SwapRemoved(s, i) = 1..Len(s) - 1
         /\ \A j \in 1..Len(s) - 1 : SwapRemoved(s, i)[j] = IF j = i THEN s[Len(s)] ELSE s[j]
<1>1. PICK n \in Nat : n = Len(s) /\ DOMAIN s = 1..n /\ s \in [1..n -> S] /\ i \in 1..n
  BY LenProperties
<1>2. n # 0 /\ n - 1 \in Nat
  BY <1>1
<1>3. PICK t : t = [s EXCEPT ![i] = s[n]]
  OBVIOUS
<1>4. t \in Seq(S) /\ Len(t) = n /\ \A j \in 1..n : t[j] = IF j = i THEN s[n] ELSE s[j]
  BY <1>1, <1>3
<1>5. SwapRemoved(s, i) = SubSeq(t, 1, n - 1)
  BY <1>1, <1>3, <1>4 DEF SwapRemoved, Front, Last
<1>6. /\ SubSeq(t, 1, n - 1) \in Seq(S) /\ Len(SubSeq(t, 1, n - 1)) = n - 1
      /\ \A j \in 1..n - 1 : SubSeq(t, 1, n - 1)[j] = t[j]
  BY <1>2, <1>4, SubSeqProperties
<1>7. DOMAIN SubSeq(t, 1, n - 1) = 1..n - 1
  BY <1>6
<1>8. QED
  BY <1>1, <1>2, <1>4, <1>5, <1>6, <1>7

(* Where the response to a call is, when each call has one at most. *)
LEMMA ResponseFound ==
  ASSUME NEW g, g.responses \in Seq(Responses), NEW c,
         \A i, j \in DOMAIN g.responses : g.responses[i].id = g.responses[j].id => i = j
  PROVE  /\ \A i \in DOMAIN g.responses : g.responses[i].id = c.id => ResponseTo(g, c) = i
         /\ (\A i \in DOMAIN g.responses : g.responses[i].id # c.id) => ResponseTo(g, c) = 0
         /\ ResponseTo(g, c) # 0 => /\ ResponseTo(g, c) \in DOMAIN g.responses
                                    /\ g.responses[ResponseTo(g, c)].id = c.id
<1>1. DOMAIN g.responses = 1..Len(g.responses)
  BY LenProperties
<1>2. PICK answers : answers = {j \in 1..Len(g.responses) : g.responses[j].id = c.id}
  OBVIOUS
<1>3. ResponseTo(g, c) = IF answers # {} THEN Min(answers) ELSE 0
  BY <1>2 DEF ResponseTo, SelectInSeq
<1>4. ASSUME NEW i \in DOMAIN g.responses, g.responses[i].id = c.id
      PROVE  ResponseTo(g, c) = i
  <2>1. answers = {i}
    BY <1>1, <1>2, <1>4
  <2>2. i \in Int
    BY <1>1
  <2>3. \A S : S = {i} => Min(S) = i
    BY <2>2 DEF Min
  <2>4. QED
    BY <1>3, <2>1, <2>3
<1>5. ASSUME \A i \in DOMAIN g.responses : g.responses[i].id # c.id
      PROVE  ResponseTo(g, c) = 0
  BY <1>1, <1>2, <1>3, <1>5
<1>6. QED
  BY <1>4, <1>5

-----------------------------------------------------------------------------
(* What each export and each HostCall does to a running guest. *)
LEMMA Started ==
  ASSUME NEW h, h = InputAlloc(NewGuest, 0), NEW p, p = Last(h.buffers).pointer
  PROVE  Driven(StartGuest(h, p), <<>>)
<1>1. GuestRecord(NewGuest) /\ NewGuest.buffers = <<>>
  BY DEF GuestRecord, NewGuest
<1>2. TakeBuffer(h, p) = NewGuest
  BY <1>1, InputTaken
<1>3. StartGuest(h, p) = [execution |-> "running", next |-> 1, responses |-> <<>>,
                          buffers |-> <<>>, calls |-> {}, taken |-> {}, permits |-> 1]
  <2>1. CancelGuest(NewGuest) = NewGuest
    BY DEF CancelGuest, NewGuest
  <2>2. StartGuest(h, p) = [NewGuest EXCEPT !.execution = "running", !.permits = @ + 1]
    BY <1>2, <2>1 DEF StartGuest
  <2>3. StartGuest(h, p) = [NewGuest EXCEPT !.execution = "running", !.permits = 1]
    BY <2>2 DEF NewGuest
  <2>4. QED
    BY <2>3 DEF NewGuest
<1>4. PICK g : g = StartGuest(h, p)
  OBVIOUS
<1>5. /\ GuestRecord(g) /\ g.execution = "running" /\ g.next = 1 /\ g.responses = <<>>
      /\ g.buffers = <<>> /\ g.calls = {} /\ g.taken = {} /\ g.permits = 1
  BY <1>3, <1>4 DEF GuestRecord
<1>6. g.responses \in Seq(Responses) /\ DOMAIN g.responses = {}
  BY <1>5
<1>7. Numbered(g, <<>>) /\ Awaited(g, <<>>)
  BY <1>5, <1>6 DEF Numbered, Awaited
<1>8. Driven(g, <<>>)
  BY <1>5, <1>6, <1>7 DEF Driven
<1>9. QED
  BY <1>4, <1>8

LEMMA Begun ==
  ASSUME NEW g, NEW calls, Driven(g, calls), NEW n \in Nat, NEW answered \in BOOLEAN
  PROVE  Driven(BeginHostCall(g, n, answered), IF answered THEN calls ELSE With(calls, g.next, n))
<1>1. PICK c : c = [id |-> g.next, op |-> n]
  OBVIOUS
<1>2. PICK m : m = IF answered THEN g.calls ELSE g.calls \cup {c}
  OBVIOUS
<1>3. PICK h : h = BeginHostCall(g, n, answered)
  OBVIOUS
<1>4. PICK more : more = IF answered THEN calls ELSE With(calls, g.next, n)
  OBVIOUS
<1>5. /\ GuestRecord(h) /\ h.execution = "running" /\ h.permits = 1 /\ h.buffers = <<>>
      /\ h.taken = {} /\ h.responses = g.responses /\ h.next = g.next + 1 /\ h.calls = m
  BY <1>1, <1>2, <1>3 DEF BeginHostCall, NextCallId, Driven, GuestRecord
<1>6. /\ g.next \in Nat \ {0} /\ c \in HostCalls /\ c.id = g.next /\ c.op = n
      /\ g.calls \subseteq HostCalls /\ g.responses \in Seq(Responses)
      /\ DOMAIN g.responses = 1..Len(g.responses)
  BY <1>1, LenProperties DEF Driven, HostCalls
<1>7. \A d \in HostCalls : d.id \in Nat
  BY DEF HostCalls
<1>8. ASSUME NEW i \in DOMAIN g.responses
      PROVE  g.responses[i].id \in Nat
  <2>1. g.responses[i] \in Responses
    BY <1>6
  <2>2. QED
    BY <2>1 DEF Responses
<1>9. /\ DOMAIN more = IF answered THEN DOMAIN calls ELSE DOMAIN calls \cup {g.next}
      /\ \A i \in DOMAIN calls : i # g.next => more[i] = calls[i]
      /\ ~answered => more[g.next] = n
  BY <1>4 DEF With
<1>10. \A i \in DOMAIN calls : i \in Nat \ {0} /\ i < g.next /\ i # g.next
  <2>1. \A i \in DOMAIN calls : i \in Nat \ {0} /\ i < g.next
    BY DEF Driven, Numbered
  <2>2. QED
    BY <1>6, <2>1
<1>11. \A d \in g.calls : d.id < g.next /\ d.id # g.next
  <2>1. \A d \in g.calls : d.id \in Nat /\ d.id < g.next
    BY <1>6, <1>7 DEF Driven, Numbered
  <2>2. QED
    BY <1>6, <2>1
<1>12. \A i \in DOMAIN g.responses : g.responses[i].id < g.next /\ g.responses[i].id # g.next
  <2>1. \A i \in DOMAIN g.responses : g.responses[i].id < g.next
    BY DEF Driven, Numbered
  <2>2. QED
    BY <1>6, <1>8, <2>1
<1>13. Numbered(h, more)
  <2>1. \A d \in h.calls : d.id < h.next
    BY <1>2, <1>5, <1>6, <1>7, <1>11
  <2>2. \A i \in DOMAIN h.responses : h.responses[i].id < h.next
    BY <1>5, <1>6, <1>8, <1>12
  <2>3. \A i \in DOMAIN more : i \in Nat \ {0} /\ i < h.next
    BY <1>5, <1>6, <1>9, <1>10
  <2>4. \A d, e \in h.calls : d.id = e.id => d = e
    BY <1>2, <1>5, <1>6, <1>11 DEF Driven, Numbered
  <2>5. \A i, j \in DOMAIN h.responses : h.responses[i].id = h.responses[j].id => i = j
    BY <1>5 DEF Driven, Numbered
  <2>6. \A i \in DOMAIN h.responses : h.responses[i].id \notin DOMAIN more
    BY <1>5, <1>9, <1>12 DEF Driven, Numbered
  <2>7. QED
    BY <2>1, <2>2, <2>3, <2>4, <2>5, <2>6 DEF Numbered
<1>14. Awaited(h, more)
  <2> SUFFICES ASSUME NEW d \in h.calls
               PROVE  \/ d.id \in DOMAIN more /\ more[d.id] = d.op
                      \/ /\ d.id \notin DOMAIN more
                         /\ \E i \in DOMAIN h.responses :
                              h.responses[i] = [id |-> d.id, value |-> d.op]
    BY DEF Awaited
  <2>1. CASE d \in g.calls
    <3>1. d.id # g.next
      BY <1>11, <2>1
    <3>2. CASE d.id \in DOMAIN calls /\ calls[d.id] = d.op
      BY <1>9, <3>1, <3>2
    <3>3. CASE /\ d.id \notin DOMAIN calls
               /\ \E i \in DOMAIN g.responses : g.responses[i] = [id |-> d.id, value |-> d.op]
      BY <1>5, <1>9, <3>1, <3>3
    <3>4. QED
      BY <2>1, <3>2, <3>3 DEF Driven, Awaited
  <2>2. CASE d = c /\ ~answered
    BY <1>6, <1>9, <2>2
  <2>3. QED
    BY <1>2, <1>5, <2>1, <2>2
<1>15. \A i \in DOMAIN more : more[i] \in Nat
  <2>1. \A i \in DOMAIN calls : calls[i] \in Nat
    BY DEF Driven
  <2>2. QED
    BY <1>9, <1>10, <2>1
<1>16. h.calls \subseteq HostCalls
  BY <1>2, <1>5, <1>6
<1>17. Driven(h, more)
  BY <1>5, <1>6, <1>13, <1>14, <1>15, <1>16 DEF Driven
<1>18. QED
  BY <1>3, <1>4, <1>17

LEMMA ResponseTyped ==
  ASSUME NEW g, g.responses \in Seq(Responses), NEW i \in DOMAIN g.responses
  PROVE  g.responses[i] \in Responses /\ g.responses[i].id \in Nat \ {0}
<1>1. g.responses[i] \in Responses
  OBVIOUS
<1>2. QED
  BY <1>1 DEF Responses

LEMMA Resumed ==
  ASSUME NEW g, NEW calls, Driven(g, calls), NEW i \in DOMAIN calls, i # 0,
         NEW h, h = [g EXCEPT !.responses = Append(@, [id |-> i, value |-> calls[i]])]
  PROVE  Driven(h, StillPending(calls, i))
<1>1. PICK r : r = [id |-> i, value |-> calls[i]]
  OBVIOUS
<1>2. PICK rest : rest = StillPending(calls, i)
  OBVIOUS
<1>3. /\ GuestRecord(h) /\ h.execution = "running" /\ h.permits = 1 /\ h.buffers = <<>>
      /\ h.taken = {} /\ h.next = g.next /\ h.calls = g.calls /\ h.responses = Append(g.responses, r)
  BY <1>1 DEF Driven, GuestRecord
<1>4. /\ g.next \in Nat \ {0} /\ g.calls \subseteq HostCalls /\ g.responses \in Seq(Responses)
      /\ i \in Nat /\ i < g.next /\ calls[i] \in Nat
  BY DEF Driven, Numbered
<1>5. PICK n \in Nat : n = Len(g.responses) /\ DOMAIN g.responses = 1..n
  BY <1>4, LenProperties
<1>6. r \in Responses /\ r.id = i /\ r.value = calls[i]
  BY <1>1, <1>4 DEF Responses
<1>7. /\ h.responses \in Seq(Responses) /\ DOMAIN h.responses = 1..n + 1
      /\ \A j \in 1..n : h.responses[j] = g.responses[j]
      /\ h.responses[n + 1] = r
  <2>1. /\ Append(g.responses, r) \in Seq(Responses) /\ Len(Append(g.responses, r)) = n + 1
        /\ \A j \in 1..n : Append(g.responses, r)[j] = g.responses[j]
        /\ Append(g.responses, r)[n + 1] = r
    BY <1>4, <1>5, <1>6, AppendProperties
  <2>2. DOMAIN Append(g.responses, r) = 1..n + 1
    BY <2>1
  <2>3. QED
    BY <1>3, <2>1, <2>2
<1>8. DOMAIN rest = DOMAIN calls \ {i} /\ \A j \in DOMAIN rest : rest[j] = calls[j]
  BY <1>2 DEF StillPending
<1>9. \A j \in 1..n : g.responses[j].id \in Nat /\ g.responses[j].id # i
  BY <1>4, <1>5, ResponseTyped DEF Driven, Numbered
<1>10. Numbered(h, rest)
  <2>1. \A c \in h.calls : c.id < h.next
    BY <1>3 DEF Driven, Numbered
  <2>2. ASSUME NEW j \in DOMAIN h.responses
        PROVE  h.responses[j].id < h.next /\ h.responses[j].id \notin DOMAIN rest
    <3>1. CASE j \in 1..n
      BY <1>3, <1>5, <1>7, <1>8, <3>1 DEF Driven, Numbered
    <3>2. CASE j = n + 1
      BY <1>3, <1>4, <1>6, <1>7, <1>8, <3>2
    <3>3. QED
      BY <1>7, <2>2, <3>1, <3>2
  <2>3. \A j \in DOMAIN rest : j \in Nat \ {0} /\ j < h.next
    BY <1>3, <1>8 DEF Driven, Numbered
  <2>4. \A c, d \in h.calls : c.id = d.id => c = d
    BY <1>3 DEF Driven, Numbered
  <2>5. ASSUME NEW j \in DOMAIN h.responses, NEW k \in DOMAIN h.responses,
               h.responses[j].id = h.responses[k].id
        PROVE  j = k
    <3>1. CASE j \in 1..n /\ k \in 1..n
      BY <1>5, <1>7, <2>5, <3>1 DEF Driven, Numbered
    <3>2. CASE j = n + 1 /\ k \in 1..n
      BY <1>6, <1>7, <1>9, <2>5, <3>2
    <3>3. CASE k = n + 1 /\ j \in 1..n
      BY <1>6, <1>7, <1>9, <2>5, <3>3
    <3>4. CASE k = n + 1 /\ j = n + 1
      BY <3>4
    <3>5. j \in 1..n \cup {n + 1} /\ k \in 1..n \cup {n + 1}
      BY <1>7
    <3>6. QED
      BY <3>1, <3>2, <3>3, <3>4, <3>5
  <2>6. QED
    BY <2>1, <2>2, <2>3, <2>4, <2>5 DEF Numbered
<1>11. Awaited(h, rest)
  <2> SUFFICES ASSUME NEW c \in g.calls
               PROVE  \/ c.id \in DOMAIN rest /\ rest[c.id] = c.op
                      \/ /\ c.id \notin DOMAIN rest
                         /\ \E j \in DOMAIN h.responses :
                              h.responses[j] = [id |-> c.id, value |-> c.op]
    BY <1>3 DEF Awaited
  <2>1. CASE c.id \in DOMAIN calls /\ calls[c.id] = c.op /\ c.id # i
    BY <1>8, <2>1
  <2>2. CASE c.id \in DOMAIN calls /\ calls[c.id] = c.op /\ c.id = i
    <3>1. n + 1 \in DOMAIN h.responses /\ h.responses[n + 1] = [id |-> c.id, value |-> c.op]
      BY <1>1, <1>7, <2>2
    <3>2. QED
      BY <1>8, <2>2, <3>1
  <2>3. CASE /\ c.id \notin DOMAIN calls
             /\ \E j \in DOMAIN g.responses : g.responses[j] = [id |-> c.id, value |-> c.op]
    <3>1. PICK j \in 1..n : g.responses[j] = [id |-> c.id, value |-> c.op]
      BY <1>5, <2>3
    <3>2. j \in DOMAIN h.responses /\ h.responses[j] = [id |-> c.id, value |-> c.op]
      BY <1>7, <3>1
    <3>3. QED
      BY <1>8, <2>3, <3>2
  <2>4. QED
    BY <2>1, <2>2, <2>3 DEF Driven, Awaited
<1>12. \A j \in DOMAIN rest : rest[j] \in Nat
  BY <1>8 DEF Driven
<1>13. Driven(h, rest)
  BY <1>3, <1>4, <1>7, <1>10, <1>11, <1>12 DEF Driven
<1>14. QED
  BY <1>2, <1>13

LEMMA ResponseTaken ==
  ASSUME NEW g, NEW calls, Driven(g, calls), NEW c \in g.calls, ResponseTo(g, c) # 0
  PROVE  Driven(TakeHostResponse(g, c), calls)
<1>1. PICK i : i = ResponseTo(g, c)
  OBVIOUS
<1>2. PICK h : h = TakeHostResponse(g, c)
  OBVIOUS
<1>3. /\ g.next \in Nat \ {0} /\ g.calls \subseteq HostCalls /\ g.responses \in Seq(Responses)
      /\ g.taken = {}
      /\ \A j, k \in DOMAIN g.responses : g.responses[j].id = g.responses[k].id => j = k
  BY DEF Driven, Numbered
<1>4. i \in DOMAIN g.responses /\ g.responses[i].id = c.id
  BY <1>1, <1>3, ResponseFound
<1>5. g.responses[i].value = c.op
  <2>1. c.id \notin DOMAIN calls
    BY <1>4 DEF Driven, Numbered
  <2>2. PICK j \in DOMAIN g.responses : g.responses[j] = [id |-> c.id, value |-> c.op]
    BY <2>1 DEF Driven, Awaited
  <2>3. j = i
    BY <1>3, <1>4, <2>2
  <2>4. QED
    BY <2>2, <2>3
<1>6. PICK left : left = SwapRemoved(g.responses, i)
  OBVIOUS
<1>7. /\ GuestRecord(h) /\ h.execution = "running" /\ h.permits = 1 /\ h.buffers = <<>>
      /\ h.taken = {} /\ h.next = g.next /\ h.calls = g.calls \ {c} /\ h.responses = left
  <2>1. h = [g EXCEPT !.responses = left, !.calls = g.calls \ {c}, !.taken = g.taken]
    BY <1>1, <1>2, <1>5, <1>6 DEF TakeHostResponse
  <2>2. QED
    BY <1>3, <2>1 DEF Driven, GuestRecord
<1>8. PICK n \in Nat \ {0} : n = Len(g.responses)
  BY <1>3, <1>4, SwapRemovedSeq
<1>9. /\ left \in Seq(Responses) /\ DOMAIN g.responses = 1..n /\ DOMAIN left = 1..n - 1
      /\ \A j \in 1..n - 1 : left[j] = IF j = i THEN g.responses[n] ELSE g.responses[j]
  BY <1>3, <1>4, <1>6, <1>8, SwapRemovedSeq
<1>10. \A j \in DOMAIN left : \E k \in DOMAIN g.responses : left[j] = g.responses[k] /\ k # i
  <2> SUFFICES ASSUME NEW j \in 1..n - 1
               PROVE  \E k \in 1..n : left[j] = g.responses[k] /\ k # i
    BY <1>9
  <2>1. j \in 1..n /\ n \in 1..n /\ j # n
    OBVIOUS
  <2>2. CASE j = i
    BY <1>9, <2>1, <2>2
  <2>3. CASE j # i
    BY <1>9, <2>1, <2>3
  <2>4. QED
    BY <2>2, <2>3
<1>11. ASSUME NEW k \in DOMAIN g.responses, k # i
       PROVE  \E j \in DOMAIN left : left[j] = g.responses[k]
  <2>1. k \in 1..n /\ i \in 1..n
    BY <1>4, <1>9
  <2>2. CASE k = n
    <3>1. i \in 1..n - 1
      BY <1>11, <2>1, <2>2
    <3>2. QED
      BY <1>9, <2>2, <3>1
  <2>3. CASE k # n
    <3>1. k \in 1..n - 1
      BY <2>1, <2>3
    <3>2. QED
      BY <1>9, <1>11, <3>1
  <2>4. QED
    BY <2>2, <2>3
<1>12. ASSUME NEW j \in DOMAIN left, NEW k \in DOMAIN left, left[j].id = left[k].id
       PROVE  j = k
  <2>1. j \in 1..n - 1 /\ k \in 1..n - 1 /\ n \in 1..n /\ j \in 1..n /\ k \in 1..n
    BY <1>9
  <2>2. CASE j = i /\ k # i
    <3>1. g.responses[n].id = g.responses[k].id
      BY <1>9, <1>12, <2>1, <2>2
    <3>2. n = k
      BY <1>3, <1>9, <2>1, <3>1
    <3>3. QED
      BY <2>1, <3>2
  <2>3. CASE k = i /\ j # i
    <3>1. g.responses[n].id = g.responses[j].id
      BY <1>9, <1>12, <2>1, <2>3
    <3>2. n = j
      BY <1>3, <1>9, <2>1, <3>1
    <3>3. QED
      BY <2>1, <3>2
  <2>4. CASE j # i /\ k # i
    <3>1. g.responses[j].id = g.responses[k].id
      BY <1>9, <1>12, <2>1, <2>4
    <3>2. QED
      BY <1>3, <1>9, <2>1, <3>1
  <2>5. QED
    BY <2>2, <2>3, <2>4
<1>13. Numbered(h, calls)
  <2>1. \A d \in h.calls : d.id < h.next
    BY <1>7 DEF Driven, Numbered
  <2>2. ASSUME NEW j \in DOMAIN left
        PROVE  left[j].id < g.next /\ left[j].id \notin DOMAIN calls
    <3>1. PICK k \in DOMAIN g.responses : left[j] = g.responses[k]
      BY <1>10
    <3>2. QED
      BY <3>1 DEF Driven, Numbered
  <2>3. \A j \in DOMAIN calls : j \in Nat \ {0} /\ j < h.next
    BY <1>7 DEF Driven, Numbered
  <2>4. \A d, e \in h.calls : d.id = e.id => d = e
    BY <1>7 DEF Driven, Numbered
  <2>5. QED
    BY <1>7, <1>12, <2>1, <2>2, <2>3, <2>4 DEF Numbered
<1>14. Awaited(h, calls)
  <2> SUFFICES ASSUME NEW d \in g.calls, d # c
               PROVE  \/ d.id \in DOMAIN calls /\ calls[d.id] = d.op
                      \/ /\ d.id \notin DOMAIN calls
                         /\ \E j \in DOMAIN left : left[j] = [id |-> d.id, value |-> d.op]
    BY <1>7 DEF Awaited
  <2>1. CASE d.id \in DOMAIN calls /\ calls[d.id] = d.op
    BY <2>1
  <2>2. CASE /\ d.id \notin DOMAIN calls
             /\ \E j \in DOMAIN g.responses : g.responses[j] = [id |-> d.id, value |-> d.op]
    <3>1. PICK k \in DOMAIN g.responses : g.responses[k] = [id |-> d.id, value |-> d.op]
      BY <2>2
    <3>2. d.id # c.id
      BY DEF Driven, Numbered
    <3>3. k # i
      BY <1>4, <3>1, <3>2
    <3>4. PICK j \in DOMAIN left : left[j] = g.responses[k]
      BY <1>11, <3>3
    <3>5. QED
      BY <2>2, <3>1, <3>4
  <2>3. QED
    BY <2>1, <2>2 DEF Driven, Awaited
<1>15. h.calls \subseteq HostCalls
  BY <1>3, <1>7
<1>16. Driven(h, calls)
  BY <1>3, <1>7, <1>9, <1>13, <1>14, <1>15 DEF Driven
<1>17. QED
  BY <1>2, <1>16

LEMMA CallDropped ==
  ASSUME NEW g, NEW calls, Driven(g, calls), NEW c
  PROVE  Driven(DropHostCall(g, c), calls)
<1>1. PICK h : h = DropHostCall(g, c)
  OBVIOUS
<1>2. /\ GuestRecord(h) /\ h.execution = g.execution /\ h.permits = g.permits
      /\ h.buffers = g.buffers /\ h.taken = g.taken /\ h.next = g.next
      /\ h.calls = g.calls \ {c} /\ h.responses = g.responses
  BY <1>1 DEF DropHostCall, Driven, GuestRecord
<1>3. Numbered(h, calls)
  BY <1>2 DEF Driven, Numbered
<1>4. Awaited(h, calls)
  BY <1>2 DEF Driven, Awaited
<1>5. Driven(h, calls)
  BY <1>2, <1>3, <1>4 DEF Driven
<1>6. QED
  BY <1>1, <1>5

-----------------------------------------------------------------------------
(* A stream keeps its owner when others are opened or it ends. *)
LEMMA OpsKept ==
  ASSUME OpsInv, op' = op, DOMAIN settled' \subseteq DOMAIN op,
         stream' \in Seq(Streams), nextStream' = Len(stream'),
         DOMAIN stream \subseteq DOMAIN stream',
         \A s \in DOMAIN stream : stream'[s].owner = stream[s].owner
  PROVE  OpsInv'
BY DEF OpsInv, Operations, Streams

LEMMA OpAdded ==
  ASSUME OpsInv, NEW operation \in Operations, op' = Append(op, operation), settled' = settled,
         stream' \in Seq(Streams), nextStream' = Len(stream'),
         DOMAIN stream \subseteq DOMAIN stream',
         \A s \in DOMAIN stream : stream'[s].owner = stream[s].owner,
         operation.kind = "next" => /\ operation.stream \in DOMAIN stream
                                    /\ stream[operation.stream].owner = operation.execution
  PROVE  OpsInv'
<1>1. PICK n \in Nat : n = Len(op) /\ DOMAIN op = 1..n
  BY LenProperties DEF OpsInv
<1>2. /\ op' \in Seq(Operations) /\ DOMAIN op' = 1..n + 1
      /\ \A i \in 1..n : op'[i] = op[i]
      /\ op'[n + 1] = operation
  <2>1. /\ Append(op, operation) \in Seq(Operations) /\ Len(Append(op, operation)) = n + 1
        /\ \A i \in 1..n : Append(op, operation)[i] = op[i]
        /\ Append(op, operation)[n + 1] = operation
    BY <1>1, AppendProperties DEF OpsInv
  <2>2. DOMAIN Append(op, operation) = 1..n + 1
    BY <2>1
  <2>3. QED
    BY <2>1, <2>2
<1>3. ASSUME NEW m \in DOMAIN op', op'[m].kind = "next"
      PROVE  op'[m].stream \in DOMAIN stream' /\ stream'[op'[m].stream].owner = op'[m].execution
  <2>1. CASE m \in 1..n
    BY <1>1, <1>2, <1>3, <2>1 DEF OpsInv
  <2>2. CASE m = n + 1
    BY <1>2, <1>3, <2>2
  <2>3. QED
    BY <1>2, <2>1, <2>2
<1>4. DOMAIN settled' \subseteq DOMAIN op'
  BY <1>1, <1>2 DEF OpsInv
<1>5. QED
  BY <1>2, <1>3, <1>4 DEF OpsInv

LEMMA OpsStep ==
  ASSUME OpsInv, Next
  PROVE  OpsInv'
<1> USE DEF browser, streams
<1>1. /\ op \in Seq(Operations) /\ stream \in Seq(Streams) /\ nextStream = Len(stream)
      /\ DOMAIN settled \subseteq DOMAIN op /\ None \in Nat
  BY DEF OpsInv, None
<1>2. ASSUME UNCHANGED <<op, settled, stream, nextStream>>
      PROVE  OpsInv'
  BY <1>2 DEF OpsInv
<1>3. ASSUME NEW e \in Execution, EventLoop(e)
      PROVE  OpsInv'
  <2>1. ASSUME NEW w \in Wasm, LoadKept(e, w) \/ LoadCompile(e, w)
        PROVE  OpsInv'
    BY <1>2, <2>1 DEF LoadKept, LoadCompile
  <2>2. CASE Compiled(e) \/ CompileFails(e) \/ Instantiated(e)
    BY <1>2, <2>2 DEF Compiled, CompileFails, Instantiated
  <2>3. CASE CancelledBeforeStart(e) \/ InstantiateFails(e)
    BY <1>2, <2>3 DEF CancelledBeforeStart, InstantiateFails, End
  <2>4. ASSUME NEW i \in DOMAIN pending[e], Resume(e, i) \/ Rejected(e, i) \/ CancelledBetween(e, i)
        PROVE  OpsInv'
    BY <1>2, <2>4 DEF Resume, Rejected, CancelledBetween, End
  <2>5. QED
    BY <1>3, <2>1, <2>2, <2>3, <2>4 DEF EventLoop
<1>4. ASSUME NEW e \in Execution, CallFunction(e)
      PROVE  OpsInv'
  <2>1. PICK answered \in BOOLEAN :
          op' = Append(op, [kind |-> IF answered THEN "answered" ELSE "function",
                            execution |-> e, stream |-> None])
    BY <1>4 DEF CallFunction, HostCall
  <2>2. PICK operation : operation = [kind |-> IF answered THEN "answered" ELSE "function",
                                      execution |-> e, stream |-> None]
    OBVIOUS
  <2>3. operation \in Operations /\ operation.kind # "next"
    BY <1>1, <2>2 DEF Operations
  <2>4. UNCHANGED <<settled, stream, nextStream>>
    BY <1>4 DEF CallFunction
  <2>5. QED
    BY <1>1, <2>1, <2>2, <2>3, <2>4, OpAdded
<1>5. ASSUME NEW e \in Execution, OpenStream(e)
      PROVE  OpsInv'
  <2>1. PICK operation : operation = [kind |-> "open", execution |-> e, stream |-> nextStream']
    OBVIOUS
  <2>2. PICK added : added = [owner |-> e, ended |-> FALSE]
    OBVIOUS
  <2>3. /\ op' = Append(op, operation) /\ stream' = Append(stream, added)
        /\ nextStream' = nextStream + 1 /\ settled' = settled
    BY <1>5, <2>1, <2>2 DEF OpenStream, HostCall
  <2>4. Len(stream) \in Nat
    BY <1>1, LenProperties
  <2>5. operation \in Operations /\ operation.kind # "next"
    BY <1>1, <2>1, <2>3, <2>4 DEF Operations
  <2>6. added \in Streams
    BY <2>2 DEF Streams
  <2>7. /\ stream' \in Seq(Streams) /\ Len(stream') = Len(stream) + 1
        /\ \A s \in 1..Len(stream) : stream'[s] = stream[s]
    BY <1>1, <2>3, <2>6, AppendProperties
  <2>8. DOMAIN stream = 1..Len(stream) /\ DOMAIN stream' = 1..Len(stream')
    BY <1>1, <2>7, LenProperties
  <2>9. QED
    BY <1>1, <2>3, <2>4, <2>5, <2>7, <2>8, OpAdded
<1>6. ASSUME NEW e \in Execution, NEW s \in DOMAIN stream, NextStream(e, s)
      PROVE  OpsInv'
  <2>1. PICK kind \in {"next", "refused"} :
          op' = Append(op, [kind |-> kind, execution |-> e, stream |-> s])
    BY <1>6 DEF NextStream, HostCall
  <2>2. PICK operation : operation = [kind |-> kind, execution |-> e, stream |-> s]
    OBVIOUS
  <2>3. s \in Nat
    BY <1>1, LenProperties
  <2>4. operation \in Operations /\ operation.stream = s /\ operation.execution = e
    BY <2>2, <2>3 DEF Operations
  <2>5. UNCHANGED <<settled, stream, nextStream>> /\ stream[s].owner = e
    BY <1>6 DEF NextStream
  <2>6. QED
    BY <1>1, <2>1, <2>2, <2>4, <2>5, OpAdded
<1>7. ASSUME NEW e \in Execution, PollCall(e) \/ DropCall(e) \/ GuestReturns(e)
      PROVE  OpsInv'
  BY <1>2, <1>7 DEF PollCall, DropCall, GuestReturns, Suspend, Complete, Trap, End
<1>8. ASSUME NEW n \in Ops, Settle(n)
      PROVE  OpsInv'
  <2>1. op' = op /\ nextStream' = nextStream
    BY <1>8 DEF Settle
  <2>2. DOMAIN settled' \subseteq DOMAIN op
    <3>1. PICK how : settled' = With(settled, n, how)
      BY <1>8 DEF Settle
    <3>2. QED
      BY <1>1, <3>1 DEF With, Ops
  <2>3. CASE stream' = stream
    BY <1>1, <2>1, <2>2, <2>3, OpsKept
  <2>4. ASSUME NEW ended \in BOOLEAN, op[n].kind = "next",
               stream' = [stream EXCEPT ![op[n].stream].ended = @ \/ ended]
        PROVE  OpsInv'
    <3>1. PICK s \in DOMAIN stream : s = op[n].stream
      BY <2>4 DEF OpsInv, Ops
    <3>2. stream[s] \in Streams
      BY <1>1
    <3>3. PICK over \in BOOLEAN : over = (stream[s].ended \/ ended)
      OBVIOUS
    <3>4. stream' = [stream EXCEPT ![s] = [@ EXCEPT !.ended = over]]
      BY <2>4, <3>1, <3>3
    <3>5. PICK r : r = [stream[s] EXCEPT !.ended = over]
      OBVIOUS
    <3>6. r \in Streams /\ r.owner = stream[s].owner
      BY <3>2, <3>5 DEF Streams
    <3>7. stream' = [stream EXCEPT ![s] = r]
      BY <3>4, <3>5
    <3>8. stream' \in Seq(Streams) /\ Len(stream') = Len(stream) /\ DOMAIN stream' = DOMAIN stream
      BY <1>1, <3>6, <3>7
    <3>9. \A t \in DOMAIN stream : stream'[t].owner = stream[t].owner
      BY <3>6, <3>7
    <3>10. QED
      BY <1>1, <2>1, <2>2, <3>8, <3>9, OpsKept
  <2>5. QED
    BY <1>8, <2>3, <2>4 DEF Settle, CompleteStreamNext
<1>9. ASSUME NEW e \in Execution, Cancel(e)
      PROVE  OpsInv'
  BY <1>2, <1>9 DEF Cancel
<1>10. CASE Done
  BY <1>2, <1>10 DEF Done, vars
<1>11. QED
  BY <1>3, <1>4, <1>5, <1>6, <1>7, <1>8, <1>9, <1>10 DEF Next, GuestStep

-----------------------------------------------------------------------------
(* A step of one execution leaves the others as they are. *)
Moves(e, p, g, calls) ==
  /\ phase' = [phase EXCEPT ![e] = p]
  /\ guest' = [guest EXCEPT ![e] = g]
  /\ pending' = [pending EXCEPT ![e] = calls]

LEMMA OneMoves ==
  ASSUME CallsInv, NEW e \in Execution, NEW p, NEW g, NEW calls,
         phase' = phase \/ phase' = [phase EXCEPT ![e] = p],
         guest' = guest \/ guest' = [guest EXCEPT ![e] = g],
         pending' = pending \/ pending' = [pending EXCEPT ![e] = calls],
         Sound(phase'[e], guest'[e], pending'[e])
  PROVE  /\ phase' \in [Execution -> Phases]
         /\ DOMAIN guest' = Execution /\ DOMAIN pending' = Execution
         /\ \A f \in Execution : Sound(phase'[f], guest'[f], pending'[f])
         /\ \A f \in Execution \ {e} : phase'[f] = phase[f]
<1>1. /\ phase \in [Execution -> Phases] /\ DOMAIN guest = Execution
      /\ DOMAIN pending = Execution
  BY DEF CallsInv
<1>2. phase'[e] \in Phases
  BY DEF Sound
<1>3. phase' \in [Execution -> Phases]
  <2>1. CASE phase' = phase
    BY <1>1, <2>1
  <2>2. CASE phase' = [phase EXCEPT ![e] = p]
    BY <1>1, <1>2, <2>2
  <2>3. QED
    BY <2>1, <2>2
<1>4. DOMAIN guest' = Execution /\ DOMAIN pending' = Execution
  BY <1>1
<1>5. ASSUME NEW f \in Execution, f # e
      PROVE  phase'[f] = phase[f] /\ guest'[f] = guest[f] /\ pending'[f] = pending[f]
  BY <1>1, <1>5
<1>6. \A f \in Execution : Sound(phase[f], guest[f], pending[f])
  BY DEF CallsInv
<1>7. ASSUME NEW f \in Execution
      PROVE  Sound(phase'[f], guest'[f], pending'[f])
  <2>1. CASE f = e
    BY <2>1
  <2>2. CASE f # e
    <3>1. phase'[f] = phase[f] /\ guest'[f] = guest[f] /\ pending'[f] = pending[f]
      BY <1>5, <2>2
    <3>2. Sound(phase[f], guest[f], pending[f])
      BY <1>6
    <3>3. QED
      BY <3>1, <3>2, Zenon
  <2>3. QED
    BY <2>1, <2>2
<1>8. QED
  BY <1>3, <1>4, <1>5, <1>7

(* An execution that is over keeps the permits of its instance only. *)
LEMMA EndSound ==
  ASSUME CallsInv, NEW e \in Execution, NEW outcome \in Over, NEW last, End(e, outcome, last),
         outcome # "failed" => last.permits = 0,
         UNCHANGED cancelled
  PROVE  CallsInv'
<1>1. PICK g : g = [NewGuest EXCEPT !.permits = last.permits]
  OBVIOUS
<1>2. g.taken = {} /\ g.permits = last.permits
  BY <1>1 DEF NewGuest
<1>3. /\ phase' = [phase EXCEPT ![e] = outcome] /\ guest' = [guest EXCEPT ![e] = g]
      /\ pending' = [pending EXCEPT ![e] = <<>>] /\ running' = None
  BY <1>1 DEF End
<1>4. phase'[e] = outcome /\ guest'[e] = g /\ pending'[e] = <<>>
  BY <1>3 DEF CallsInv
<1>5. Sound(outcome, g, <<>>)
  BY <1>2 DEF Sound, Phases, Over
<1>6. Sound(phase'[e], guest'[e], pending'[e])
  BY <1>4, <1>5, Zenon
<1>7. /\ phase' \in [Execution -> Phases]
      /\ DOMAIN guest' = Execution /\ DOMAIN pending' = Execution
      /\ \A f \in Execution : Sound(phase'[f], guest'[f], pending'[f])
  BY <1>3, <1>6, OneMoves, Zenon
<1>8. QED
  BY <1>3, <1>7 DEF CallsInv

(* A host operation of the guest that runs. *)
LEMMA HostCallSound ==
  ASSUME CallsInv, OpsInv, NEW e \in Execution, running = e, NEW operation,
         NEW answered \in BOOLEAN, HostCall(e, Len(op) + 1, operation, answered),
         UNCHANGED <<phase, running, cancelled>>
  PROVE  CallsInv'
<1>1. e # None
  BY BrowserAssumption
<1>2. phase[e] = "driving" /\ Sound(phase[e], guest[e], pending[e])
  BY <1>1 DEF CallsInv
<1>3. Driven(guest[e], pending[e])
  BY <1>2 DEF Sound
<1>4. PICK n \in Nat : n = Len(op) + 1
  BY LenProperties DEF OpsInv
<1>5. PICK g : g = BeginHostCall(guest[e], n, answered)
  OBVIOUS
<1>6. PICK calls : calls = IF answered THEN pending[e] ELSE With(pending[e], guest[e].next, n)
  OBVIOUS
<1>7. Driven(g, calls)
  BY <1>3, <1>5, <1>6, Begun
<1>8. guest' = [guest EXCEPT ![e] = g] /\ pending' = [pending EXCEPT ![e] = calls]
  BY <1>4, <1>5, <1>6 DEF HostCall
<1>9. guest'[e] = g /\ pending'[e] = calls /\ phase'[e] = "driving"
  BY <1>2, <1>8 DEF CallsInv
<1>10. Sound("driving", g, calls)
  BY <1>7 DEF Sound, Phases
<1>11. Sound(phase'[e], guest'[e], pending'[e])
  BY <1>9, <1>10, Zenon
<1>12. /\ phase' \in [Execution -> Phases]
       /\ DOMAIN guest' = Execution /\ DOMAIN pending' = Execution
       /\ \A f \in Execution : Sound(phase'[f], guest'[f], pending'[f])
  BY <1>8, <1>11, OneMoves, Zenon
<1>13. QED
  BY <1>9, <1>12 DEF CallsInv

(* The guest that runs changes itself, or the response goes to it. *)
LEMMA GuestSound ==
  ASSUME CallsInv, NEW e \in Execution, NEW g, NEW calls, Driven(g, calls),
         phase'[e] = "driving", phase' = phase \/ phase' = [phase EXCEPT ![e] = "driving"],
         guest' = [guest EXCEPT ![e] = g],
         pending' = [pending EXCEPT ![e] = calls] \/ (pending' = pending /\ calls = pending[e]),
         running' = e, cancelled' = cancelled
  PROVE  CallsInv'
<1>1. guest'[e] = g /\ pending'[e] = calls
  BY DEF CallsInv
<1>2. Sound("driving", g, calls)
  BY DEF Sound, Phases
<1>3. Sound(phase'[e], guest'[e], pending'[e])
  BY <1>1, <1>2, Zenon
<1>4. /\ phase' \in [Execution -> Phases]
      /\ DOMAIN guest' = Execution /\ DOMAIN pending' = Execution
      /\ \A f \in Execution : Sound(phase'[f], guest'[f], pending'[f])
  BY <1>3, OneMoves, Zenon
<1>5. QED
  BY <1>4 DEF CallsInv

(* Before it is instantiated an execution has no guest. *)
LEMMA PhaseSound ==
  ASSUME CallsInv, NEW e \in Execution, phase[e] \in {"new", "compiling"}, running = None,
         NEW p \in {"compiling", "instantiating", "failed"}, phase' = [phase EXCEPT ![e] = p],
         UNCHANGED <<guest, pending, running, cancelled>>
  PROVE  CallsInv'
<1>1. Sound(phase[e], guest[e], pending[e]) /\ phase'[e] = p
  BY DEF CallsInv
<1>2. Sound(p, guest[e], pending[e])
  BY <1>1 DEF Sound, Phases, Over
<1>3. Sound(phase'[e], guest'[e], pending'[e])
  BY <1>1, <1>2, Zenon
<1>4. /\ phase' \in [Execution -> Phases]
      /\ DOMAIN guest' = Execution /\ DOMAIN pending' = Execution
      /\ \A f \in Execution : Sound(phase'[f], guest'[f], pending'[f])
  BY <1>3, OneMoves, Zenon
<1>5. QED
  BY <1>4 DEF CallsInv

LEMMA CallsStep ==
  ASSUME CallsInv, OpsInv, Next
  PROVE  CallsInv'
<1> USE DEF browser, streams
<1>1. ASSUME UNCHANGED <<phase, guest, pending, running, cancelled>>
      PROVE  CallsInv'
  BY <1>1 DEF CallsInv
<1>2. ASSUME NEW e \in Execution, EventLoop(e)
      PROVE  CallsInv'
  <2>1. ASSUME NEW w \in Wasm, LoadKept(e, w) \/ LoadCompile(e, w)
        PROVE  CallsInv'
    BY <2>1, PhaseSound DEF LoadKept, LoadCompile, Begin
  <2>2. CASE Compiled(e) \/ CompileFails(e)
    BY <2>2, PhaseSound DEF Compiled, CompileFails, Begin
  <2>3. CASE Instantiated(e)
    <3>1. PICK h : h = InputAlloc(NewGuest, 0)
      OBVIOUS
    <3>2. PICK q : q = Last(h.buffers).pointer
      OBVIOUS
    <3>3. PICK g : g = StartGuest(h, q)
      OBVIOUS
    <3>4. Driven(g, <<>>)
      BY <3>1, <3>2, <3>3, Started
    <3>5. /\ guest' = [guest EXCEPT ![e] = g] /\ phase' = [phase EXCEPT ![e] = "driving"]
          /\ pending' = pending /\ running' = e /\ cancelled' = cancelled
          /\ phase[e] = "instantiating"
      BY <2>3, <3>1, <3>2, <3>3 DEF Instantiated
    <3>6. pending[e] = <<>> /\ phase'[e] = "driving"
      BY <3>5 DEF CallsInv, Sound
    <3>7. QED
      BY <3>4, <3>5, <3>6, GuestSound
  <2>4. CASE CancelledBeforeStart(e)
    <3>1. PICK h : h = InputAlloc(NewGuest, 0)
      OBVIOUS
    <3>2. h.permits = 0
      BY <3>1 DEF InputAlloc, NewGuest
    <3>3. End(e, "cancelled", h)
      BY <2>4, <3>1 DEF CancelledBeforeStart
    <3>4. cancelled' = cancelled
      BY <3>3 DEF End
    <3>5. QED
      BY <3>2, <3>3, <3>4, EndSound DEF Over
  <2>5. CASE InstantiateFails(e)
    <3>1. End(e, "failed", NewGuest) /\ cancelled' = cancelled
      BY <2>5 DEF InstantiateFails, End
    <3>2. QED
      BY <3>1, EndSound DEF Over
  <2>6. ASSUME NEW i \in DOMAIN pending[e], Raced(e, i)
        PROVE  Driven(guest[e], pending[e]) /\ i # 0
    <3>1. Sound(phase[e], guest[e], pending[e]) /\ phase[e] = "driving"
      BY <2>6 DEF Raced, CallsInv
    <3>2. Driven(guest[e], pending[e])
      BY <3>1 DEF Sound
    <3>3. QED
      BY <3>2 DEF Driven, Numbered
  <2>7. ASSUME NEW i \in DOMAIN pending[e], Resume(e, i)
        PROVE  CallsInv'
    <3>1. Driven(guest[e], pending[e]) /\ i # 0
      BY <2>6, <2>7 DEF Resume
    <3>2. PICK h : h = InputAlloc(guest[e], pending[e][i])
      OBVIOUS
    <3>3. PICK q : q = Last(h.buffers).pointer
      OBVIOUS
    <3>4. /\ TakeBuffer(h, q) = guest[e]
          /\ h.buffers[BufferAt(h, q)].value = pending[e][i]
      BY <3>1, <3>2, <3>3, InputTaken DEF Driven
    <3>5. PICK g : g = ResumeGuest(h, i, q)
      OBVIOUS
    <3>6. g = [guest[e] EXCEPT !.responses = Append(@, [id |-> i, value |-> pending[e][i]])]
      BY <3>4, <3>5 DEF ResumeGuest
    <3>7. PICK calls : calls = StillPending(pending[e], i)
      OBVIOUS
    <3>8. Driven(g, calls)
      BY <3>1, <3>6, <3>7, Resumed
    <3>9. /\ guest' = [guest EXCEPT ![e] = g] /\ pending' = [pending EXCEPT ![e] = calls]
          /\ running' = e /\ phase' = phase /\ cancelled' = cancelled /\ phase[e] = "driving"
      BY <2>7, <3>2, <3>3, <3>5, <3>7 DEF Resume, Raced
    <3>10. QED
      BY <3>8, <3>9, GuestSound
  <2>8. ASSUME NEW i \in DOMAIN pending[e], Rejected(e, i)
        PROVE  CallsInv'
    <3>1. End(e, "failed", NewGuest) /\ cancelled' = cancelled
      BY <2>8 DEF Rejected, End
    <3>2. QED
      BY <3>1, EndSound DEF Over
  <2>9. ASSUME NEW i \in DOMAIN pending[e], CancelledBetween(e, i)
        PROVE  CallsInv'
    <3>1. guest[e].execution = "running" /\ guest[e].permits = 1
      BY <2>6, <2>9 DEF CancelledBetween, Driven
    <3>2. PICK h : h = CancelGuest(guest[e])
      OBVIOUS
    <3>3. h.permits = 0
      BY <3>1, <3>2 DEF CancelGuest, NewGuest
    <3>4. End(e, "cancelled", h) /\ cancelled' = cancelled
      BY <2>9, <3>2 DEF CancelledBetween, End
    <3>5. QED
      BY <3>3, <3>4, EndSound DEF Over
  <2>10. QED
    BY <1>2, <2>1, <2>2, <2>3, <2>4, <2>5, <2>7, <2>8, <2>9 DEF EventLoop
<1>3. ASSUME NEW e \in Execution, GuestStep(e)
      PROVE  CallsInv'
  <2>1. running = e
    BY <1>3 DEF GuestStep, CallFunction, OpenStream, NextStream, GuestRuns, PollCall, DropCall,
       GuestReturns, Suspend, Complete, Trap
  <2>2. Driven(guest[e], pending[e]) /\ phase[e] = "driving"
    <3>1. phase[e] = "driving" /\ Sound(phase[e], guest[e], pending[e])
      BY <2>1, BrowserAssumption DEF CallsInv
    <3>2. QED
      BY <3>1 DEF Sound
  <2>3. ASSUME \/ CallFunction(e) \/ OpenStream(e)
               \/ \E s \in DOMAIN stream : NextStream(e, s)
        PROVE  CallsInv'
    <3>1. PICK answered \in BOOLEAN : \E operation : HostCall(e, Len(op) + 1, operation, answered)
      <4>1. CASE CallFunction(e)
        BY <4>1 DEF CallFunction
      <4>2. CASE OpenStream(e)
        BY <4>2 DEF OpenStream
      <4>3. ASSUME NEW s \in DOMAIN stream, NextStream(e, s)
            PROVE  \E starts \in BOOLEAN : \E operation : HostCall(e, Len(op) + 1, operation, starts)
        <5>1. PICK starts \in BOOLEAN :
                starts = (~Advancing(id[e], s) /\ IsOpen(id[e], s))
          OBVIOUS
        <5>2. \E operation : HostCall(e, Len(op) + 1, operation, ~starts)
          BY <4>3, <5>1 DEF NextStream
        <5>3. QED
          BY <5>2
      <4>4. QED
        BY <2>3, <4>1, <4>2, <4>3
    <3>2. UNCHANGED <<phase, running, cancelled>>
      BY <2>3 DEF CallFunction, OpenStream, NextStream
    <3>3. QED
      BY <2>1, <3>1, <3>2, HostCallSound
  <2>4. CASE PollCall(e)
    <3>1. PICK c \in guest[e].calls :
            /\ ResponseTo(guest[e], c) # 0
            /\ guest' = [guest EXCEPT ![e] = TakeHostResponse(@, c)]
      BY <2>4 DEF PollCall
    <3>2. PICK g : g = TakeHostResponse(guest[e], c)
      OBVIOUS
    <3>3. Driven(g, pending[e]) /\ guest' = [guest EXCEPT ![e] = g]
      BY <2>2, <3>1, <3>2, ResponseTaken
    <3>4. UNCHANGED <<phase, pending, running, cancelled>>
      BY <2>4 DEF PollCall
    <3>5. QED
      BY <2>1, <2>2, <3>3, <3>4, GuestSound
  <2>5. CASE DropCall(e)
    <3>1. PICK c \in guest[e].calls : guest' = [guest EXCEPT ![e] = DropHostCall(@, c)]
      BY <2>5 DEF DropCall
    <3>2. PICK g : g = DropHostCall(guest[e], c)
      OBVIOUS
    <3>3. Driven(g, pending[e]) /\ guest' = [guest EXCEPT ![e] = g]
      BY <2>2, <3>1, <3>2, CallDropped
    <3>4. UNCHANGED <<phase, pending, running, cancelled>>
      BY <2>5 DEF DropCall
    <3>5. QED
      BY <2>1, <2>2, <3>3, <3>4, GuestSound
  <2>6. CASE Suspend(e)
    <3>1. CASE End(e, "failed", NewGuest)
      <4>1. cancelled' = cancelled
        BY <3>1 DEF End
      <4>2. QED
        BY <3>1, <4>1, EndSound DEF Over
    <3>2. CASE running' = None /\ UNCHANGED <<phase, guest, pending, cancelled>>
      BY <3>2 DEF CallsInv
    <3>3. QED
      BY <2>6, <3>1, <3>2 DEF Suspend
  <2>7. CASE Complete(e)
    <3>1. PICK h : h = CompleteGuest(guest[e])
      OBVIOUS
    <3>2. h.permits = 0
      BY <2>2, <3>1 DEF CompleteGuest, Driven, GuestRecord
    <3>3. End(e, "complete", h) /\ cancelled' = cancelled
      BY <2>7, <3>1 DEF Complete, End
    <3>4. QED
      BY <3>2, <3>3, EndSound DEF Over
  <2>8. CASE Trap(e)
    <3>1. End(e, "failed", NewGuest) /\ cancelled' = cancelled
      BY <2>8 DEF Trap, End
    <3>2. QED
      BY <3>1, EndSound DEF Over
  <2>9. QED
    BY <1>3, <2>3, <2>4, <2>5, <2>6, <2>7, <2>8 DEF GuestStep, GuestReturns
<1>4. ASSUME NEW e \in Execution, Cancel(e)
      PROVE  CallsInv'
  BY <1>4 DEF Cancel, CallsInv
<1>5. ASSUME NEW n \in Ops, Settle(n)
      PROVE  CallsInv'
  BY <1>1, <1>5 DEF Settle
<1>6. CASE Done
  BY <1>1, <1>6 DEF Done, vars
<1>7. QED
  BY <1>2, <1>3, <1>4, <1>5, <1>6 DEF Next

-----------------------------------------------------------------------------
(* Identities: what a controller has given it does not give again. *)
LEMMA SamePhases ==
  ASSUME CallsInv, ControllersInv, UNCHANGED <<nextId, controller, id>>,
         kept' = kept, phase' \in [Execution -> Phases],
         \A f \in Execution :
           \/ phase'[f] = phase[f] \/ phase'[f] \in Over
           \/ phase[f] = "new" /\ phase'[f] = "compiling"
           \/ phase[f] = "instantiating" /\ phase'[f] = "driving"
  PROVE  ControllersInv'
<1>1. ASSUME NEW e \in Execution
      PROVE  /\ phase'[e] \in {"new", "compiling"} => phase[e] \in {"new", "compiling"}
             /\ phase'[e] \in {"instantiating", "driving"} => phase[e] \in {"instantiating", "driving"}
  BY <1>1 DEF Over
<1>2. QED
  BY <1>1 DEF ControllersInv

(* What Begin leaves, when the controller k gives the identity. *)
LEMMA Begins ==
  ASSUME CallsInv, ControllersInv, NEW e \in Execution, id[e] = None,
         NEW ids \in Seq(Nat \ {0}), NEW k \in DOMAIN ids, Begin(e, k, ids),
         DOMAIN nextId \subseteq DOMAIN ids, \A j \in DOMAIN nextId : ids[j] = nextId[j],
         kept'.controller \in DOMAIN nextId'
  PROVE  ControllersInv'
<1>1. /\ DOMAIN id = Execution /\ DOMAIN controller = Execution
      /\ phase \in [Execution -> Phases]
      /\ phase' = [phase EXCEPT ![e] = "instantiating"]
      /\ id' = [id EXCEPT ![e] = ids[k]] /\ controller' = [controller EXCEPT ![e] = k]
      /\ nextId' = [ids EXCEPT ![k] = @ + 1]
  BY DEF ControllersInv, CallsInv, Begin
<1>2. PICK n \in Nat \ {0} : n = ids[k]
  <2>1. ids \in [1..Len(ids) -> Nat \ {0}] /\ DOMAIN ids = 1..Len(ids)
    BY LenProperties
  <2>2. ids[k] \in Nat \ {0}
    BY <2>1, Zenon
  <2>3. QED
    BY <2>2
<1>3. /\ nextId' \in Seq(Nat \ {0}) /\ DOMAIN nextId' = DOMAIN ids
      /\ nextId'[k] = n + 1 /\ \A j \in DOMAIN ids \ {k} : nextId'[j] = ids[j]
  <2>1. PICK m \in Nat \ {0} : m = n + 1
    OBVIOUS
  <2>2. nextId' = [ids EXCEPT ![k] = m]
    BY <1>1, <1>2, <2>1
  <2>3. nextId' \in Seq(Nat \ {0})
    <3>1. k \in 1..Len(ids)
      BY LenProperties
    <3>2. [ids EXCEPT ![k] = m] \in Seq(Nat \ {0})
      BY <3>1, ExceptSeq
    <3>3. QED
      BY <2>2, <3>2
  <2>4. /\ DOMAIN nextId' = DOMAIN ids /\ nextId'[k] = m
        /\ \A j \in DOMAIN ids \ {k} : nextId'[j] = ids[j]
    BY <2>2
  <2>5. QED
    BY <2>1, <2>3, <2>4
<1>4. id'[e] = n /\ controller'[e] = k /\ phase'[e] = "instantiating"
  BY <1>1, <1>2
<1>5. \A f \in Execution \ {e} :
        id'[f] = id[f] /\ controller'[f] = controller[f] /\ phase'[f] = phase[f]
  BY <1>1
<1>6. ASSUME NEW f \in Execution \ {e}, id[f] # None
      PROVE  /\ controller[f] \in DOMAIN nextId' /\ id[f] \in Nat /\ id[f] < nextId'[controller[f]]
             /\ controller[f] = k => id[f] # n
  <2>1. PICK j \in DOMAIN nextId : j = controller[f] /\ id[f] \in Nat /\ id[f] < nextId[j]
    BY <1>6 DEF ControllersInv
  <2>2. j \in DOMAIN ids /\ ids[j] = nextId[j] /\ id[f] < ids[j]
    BY <2>1
  <2>3. CASE j = k
    BY <1>2, <1>3, <2>1, <2>2, <2>3
  <2>4. CASE j # k
    BY <1>3, <2>1, <2>2, <2>4
  <2>5. QED
    BY <2>3, <2>4
<1>7. ASSUME NEW f \in Execution
      PROVE  /\ phase'[f] \in {"new", "compiling"} => id'[f] = None
             /\ phase'[f] \in {"instantiating", "driving"} => id'[f] # None
             /\ id'[f] # None => /\ controller'[f] \in DOMAIN nextId'
                                 /\ id'[f] \in Nat /\ id'[f] < nextId'[controller'[f]]
  <2>1. CASE f = e
    BY <1>2, <1>3, <1>4, <2>1 DEF None
  <2>2. CASE f # e
    BY <1>5, <1>6, <2>2 DEF ControllersInv
  <2>3. QED
    BY <2>1, <2>2
<1>8. ASSUME NEW f \in Execution, NEW g \in Execution,
             id'[f] = id'[g], controller'[f] = controller'[g], id'[f] # None
      PROVE  f = g
  <2>1. ASSUME NEW x \in Execution \ {e}, controller'[x] = k
        PROVE  id'[x] # n
    <3>1. id'[x] = id[x] /\ controller[x] = k
      BY <1>5, <2>1
    <3>2. CASE id[x] = None
      BY <1>2, <3>1, <3>2 DEF None
    <3>3. CASE id[x] # None
      BY <1>6, <3>1, <3>3
    <3>4. QED
      BY <3>2, <3>3
  <2>2. CASE f = e \/ g = e
    BY <1>4, <1>8, <2>1, <2>2
  <2>3. CASE f # e /\ g # e
    BY <1>5, <1>8, <2>3 DEF ControllersInv
  <2>4. QED
    BY <2>2, <2>3
<1>9. DOMAIN id' = Execution /\ DOMAIN controller' = Execution
  BY <1>1
<1>10. QED
  BY <1>3, <1>7, <1>8, <1>9 DEF ControllersInv

LEMMA ControllersStep ==
  ASSUME CallsInv, ControllersInv, CallsInv', Next
  PROVE  ControllersInv'
<1> USE DEF browser, streams
<1>1. phase \in [Execution -> Phases] /\ phase' \in [Execution -> Phases]
  BY DEF CallsInv
<1>2. ASSUME NEW e \in Execution, NEW outcome \in Over, NEW last, End(e, outcome, last)
      PROVE  ControllersInv'
  <2>1. phase' = [phase EXCEPT ![e] = outcome] /\ UNCHANGED <<kept, nextId, controller, id>>
    BY <1>2 DEF End
  <2>2. \A f \in Execution : phase'[f] = phase[f] \/ phase'[f] \in Over
    BY <1>1, <2>1
  <2>3. QED
    BY <1>1, <2>1, <2>2, SamePhases
<1>3. ASSUME UNCHANGED <<kept, nextId, controller, id, phase>>
      PROVE  ControllersInv'
  BY <1>1, <1>3, SamePhases
<1>4. ASSUME NEW e \in Execution, EventLoop(e)
      PROVE  ControllersInv'
  <2>1. ASSUME NEW w \in Wasm, LoadKept(e, w)
        PROVE  ControllersInv'
    <3>1. PICK k : k = kept.controller
      OBVIOUS
    <3>2. /\ k \in DOMAIN nextId /\ phase[e] = "new" /\ kept' = kept /\ Begin(e, k, nextId)
      BY <2>1, <3>1, BrowserAssumption DEF LoadKept, ControllersInv
    <3>3. id[e] = None /\ nextId \in Seq(Nat \ {0})
      BY <3>2 DEF ControllersInv
    <3>4. DOMAIN nextId' = DOMAIN nextId
      BY <3>2 DEF Begin
    <3>5. QED
      BY <3>1, <3>2, <3>3, <3>4, Begins
  <2>2. ASSUME NEW w \in Wasm, LoadCompile(e, w)
        PROVE  ControllersInv'
    <3>1. /\ phase[e] = "new" /\ phase' = [phase EXCEPT ![e] = "compiling"]
          /\ UNCHANGED <<kept, nextId, controller, id>>
      BY <2>2 DEF LoadCompile
    <3>2. \A f \in Execution : \/ phase'[f] = phase[f]
                               \/ phase[f] = "new" /\ phase'[f] = "compiling"
      BY <1>1, <3>1
    <3>3. QED
      BY <1>1, <3>1, <3>2, SamePhases
  <2>3. CASE Compiled(e)
    <3>1. PICK ids : ids = Append(nextId, 1)
      OBVIOUS
    <3>2. PICK k : k = Len(nextId) + 1
      OBVIOUS
    <3>3. nextId \in Seq(Nat \ {0}) /\ id[e] = None
      BY <2>3 DEF Compiled, ControllersInv
    <3>4. PICK n \in Nat : n = Len(nextId) /\ DOMAIN nextId = 1..n
      BY <3>3, LenProperties
    <3>5. /\ ids \in Seq(Nat \ {0}) /\ Len(ids) = n + 1 /\ DOMAIN ids = 1..n + 1
          /\ \A j \in 1..n : ids[j] = nextId[j]
      <4>1. 1 \in Nat \ {0}
        OBVIOUS
      <4>2. /\ Append(nextId, 1) \in Seq(Nat \ {0}) /\ Len(Append(nextId, 1)) = n + 1
            /\ \A j \in 1..n : Append(nextId, 1)[j] = nextId[j]
        BY <3>3, <3>4, <4>1, AppendProperties
      <4>3. DOMAIN Append(nextId, 1) = 1..n + 1
        BY <4>2
      <4>4. QED
        BY <3>1, <4>2, <4>3
    <3>6. /\ kept' = [wasm |-> module[e], controller |-> k] /\ Begin(e, k, ids)
      BY <2>3, <3>1, <3>2 DEF Compiled
    <3>7. k \in DOMAIN ids /\ kept'.controller = k /\ DOMAIN nextId' = DOMAIN ids
      BY <3>2, <3>4, <3>5, <3>6 DEF Begin
    <3>8. DOMAIN nextId \subseteq DOMAIN ids /\ \A j \in DOMAIN nextId : ids[j] = nextId[j]
      BY <3>4, <3>5
    <3>9. QED
      BY <3>3, <3>5, <3>6, <3>7, <3>8, Begins
  <2>4. CASE CompileFails(e)
    <3>1. phase' = [phase EXCEPT ![e] = "failed"] /\ UNCHANGED <<kept, nextId, controller, id>>
      BY <2>4 DEF CompileFails
    <3>2. \A f \in Execution : phase'[f] = phase[f] \/ phase'[f] \in Over
      BY <1>1, <3>1 DEF Over
    <3>3. QED
      BY <1>1, <3>1, <3>2, SamePhases
  <2>5. CASE Instantiated(e)
    <3>1. /\ phase' = [phase EXCEPT ![e] = "driving"] /\ phase[e] = "instantiating"
          /\ UNCHANGED <<kept, nextId, controller, id>>
      BY <2>5 DEF Instantiated
    <3>2. \A f \in Execution : \/ phase'[f] = phase[f]
                               \/ phase[f] = "instantiating" /\ phase'[f] = "driving"
      BY <1>1, <3>1
    <3>3. QED
      BY <1>1, <3>1, <3>2, SamePhases
  <2>6. CASE CancelledBeforeStart(e) \/ InstantiateFails(e)
    BY <1>2, <2>6 DEF CancelledBeforeStart, InstantiateFails, Over
  <2>7. ASSUME NEW i \in DOMAIN pending[e], Resume(e, i) \/ Rejected(e, i) \/ CancelledBetween(e, i)
        PROVE  ControllersInv'
    <3>1. CASE Resume(e, i)
      BY <1>3, <3>1 DEF Resume
    <3>2. CASE Rejected(e, i) \/ CancelledBetween(e, i)
      BY <1>2, <3>2 DEF Rejected, CancelledBetween, Over
    <3>3. QED
      BY <2>7, <3>1, <3>2
  <2>8. QED
    BY <1>4, <2>1, <2>2, <2>3, <2>4, <2>5, <2>6, <2>7 DEF EventLoop
<1>5. ASSUME NEW e \in Execution, GuestStep(e)
      PROVE  ControllersInv'
  <2>1. CASE CallFunction(e) \/ OpenStream(e) \/ \E s \in DOMAIN stream : NextStream(e, s)
    BY <1>3, <2>1 DEF CallFunction, OpenStream, NextStream
  <2>2. CASE PollCall(e) \/ DropCall(e)
    BY <1>3, <2>2 DEF PollCall, DropCall
  <2>3. CASE GuestReturns(e)
    BY <1>2, <1>3, <2>3 DEF GuestReturns, Suspend, Complete, Trap, Over
  <2>4. QED
    BY <1>5, <2>1, <2>2, <2>3 DEF GuestStep
<1>6. ASSUME NEW e \in Execution, Cancel(e)
      PROVE  ControllersInv'
  BY <1>3, <1>6 DEF Cancel
<1>7. ASSUME NEW n \in Ops, Settle(n)
      PROVE  ControllersInv'
  BY <1>3, <1>7 DEF Settle
<1>8. CASE Done
  BY <1>3, <1>8 DEF Done, vars
<1>9. QED
  BY <1>4, <1>5, <1>6, <1>7, <1>8 DEF Next

-----------------------------------------------------------------------------
(* The advances on their way when an operation is added or settled. *)
LEMMA OutstandingAdded ==
  ASSUME OpsInv, NEW operation, op' = Append(op, operation), settled' = settled, NEW s
  PROVE  Outstanding(s)' =
           Outstanding(s) \cup (IF operation.kind = "next" /\ operation.stream = s
                                THEN {Len(op) + 1} ELSE {})
<1>1. PICK n \in Nat : n = Len(op) /\ DOMAIN op = 1..n
  BY LenProperties DEF OpsInv
<1>2. /\ DOMAIN op' = 1..n + 1 /\ \A i \in 1..n : op'[i] = op[i]
      /\ op'[n + 1] = operation
  <2>1. op \in Seq(Operations \cup {operation})
    BY DEF OpsInv
  <2>2. /\ Len(Append(op, operation)) = n + 1
        /\ Append(op, operation) \in Seq(Operations \cup {operation})
        /\ \A i \in 1..n : Append(op, operation)[i] = op[i]
        /\ Append(op, operation)[n + 1] = operation
    BY <1>1, <2>1, AppendProperties
  <2>3. DOMAIN Append(op, operation) = 1..n + 1
    BY <2>2
  <2>4. QED
    BY <2>2, <2>3
<1>3. n + 1 \notin DOMAIN settled
  BY <1>1 DEF OpsInv
<1>4. QED
  BY <1>1, <1>2, <1>3 DEF Outstanding, Ops

LEMMA OutstandingSettled ==
  ASSUME NEW n, NEW how, op' = op, settled' = With(settled, n, how), NEW s
  PROVE  Outstanding(s)' = Outstanding(s) \ {n}
<1>1. DOMAIN settled' = DOMAIN settled \cup {n}
  BY DEF With
<1>2. QED
  BY <1>1 DEF Outstanding, Ops

LEMMA OutstandingSame ==
  ASSUME op' = op, settled' = settled, NEW s
  PROVE  Outstanding(s)' = Outstanding(s)
BY DEF Outstanding, Ops

(* An execution that has an identity keeps it, with its controller. *)
Keeps(e) == id'[e] = id[e] /\ controller'[e] = controller[e]

LEMMA IdentityKept ==
  ASSUME ControllersInv, Next, NEW e \in Execution, id[e] # None
  PROVE  Keeps(e)
<1> USE DEF Keeps
<1>1. DOMAIN id = Execution /\ phase[e] \notin {"new", "compiling"}
  BY DEF ControllersInv
<1>2. ASSUME NEW f \in Execution, NEW k, NEW ids, Begin(f, k, ids), phase[f] \in {"new", "compiling"}
      PROVE  Keeps(e)
  BY <1>1, <1>2 DEF Begin
<1>3. ASSUME NEW f \in Execution, EventLoop(f)
      PROVE  Keeps(e)
  <2>1. ASSUME NEW w \in Wasm, LoadKept(f, w) \/ LoadCompile(f, w)
        PROVE  Keeps(e)
    BY <1>2, <2>1 DEF LoadKept, LoadCompile
  <2>2. CASE Compiled(f) \/ CompileFails(f)
    BY <1>2, <2>2 DEF Compiled, CompileFails
  <2>3. CASE Instantiated(f) \/ CancelledBeforeStart(f) \/ InstantiateFails(f)
    BY <2>3 DEF Instantiated, CancelledBeforeStart, InstantiateFails, End
  <2>4. ASSUME NEW i \in DOMAIN pending[f], Resume(f, i) \/ Rejected(f, i) \/ CancelledBetween(f, i)
        PROVE  Keeps(e)
    BY <2>4 DEF Resume, Rejected, CancelledBetween, End, browser
  <2>5. QED
    BY <1>3, <2>1, <2>2, <2>3, <2>4 DEF EventLoop
<1>4. ASSUME NEW f \in Execution, GuestStep(f) \/ Cancel(f)
      PROVE  Keeps(e)
  BY <1>4 DEF GuestStep, CallFunction, OpenStream, NextStream, PollCall, DropCall, GuestReturns,
     Suspend, Complete, Trap, End, Cancel, browser
<1>5. ASSUME NEW n \in Ops, Settle(n)
      PROVE  Keeps(e)
  BY <1>5 DEF Settle, browser
<1>6. CASE Done
  BY <1>6 DEF Done, vars, browser
<1>7. QED
  BY <1>3, <1>4, <1>5, <1>6 DEF Next

(* An execution that is over stays over. *)
LEMMA OverKept ==
  ASSUME CallsInv, Next, NEW e \in Execution, phase[e] \in Over
  PROVE  phase'[e] = phase[e]
<1> USE DEF browser, streams
<1>1. phase \in [Execution -> Phases]
  BY DEF CallsInv
<1>2. ASSUME NEW f \in Execution, phase[f] \notin Over, NEW p, phase' = [phase EXCEPT ![f] = p]
      PROVE  phase'[e] = phase[e]
  BY <1>1, <1>2
<1>3. ASSUME NEW f \in Execution, EventLoop(f)
      PROVE  phase'[e] = phase[e]
  <2>1. ASSUME NEW w \in Wasm, LoadKept(f, w) \/ LoadCompile(f, w)
        PROVE  phase'[e] = phase[e]
    BY <1>2, <2>1 DEF LoadKept, LoadCompile, Begin, Over
  <2>2. CASE Compiled(f) \/ CompileFails(f)
    BY <1>2, <2>2 DEF Compiled, CompileFails, Begin, Over
  <2>3. CASE Instantiated(f) \/ CancelledBeforeStart(f) \/ InstantiateFails(f)
    BY <1>2, <2>3 DEF Instantiated, CancelledBeforeStart, InstantiateFails, End, Over
  <2>4. ASSUME NEW i \in DOMAIN pending[f], Resume(f, i) \/ Rejected(f, i) \/ CancelledBetween(f, i)
        PROVE  phase'[e] = phase[e]
    BY <1>2, <2>4 DEF Resume, Rejected, CancelledBetween, Raced, End, Over
  <2>5. QED
    BY <1>3, <2>1, <2>2, <2>3, <2>4 DEF EventLoop
<1>4. ASSUME NEW f \in Execution, GuestStep(f)
      PROVE  phase'[e] = phase[e]
  <2>1. running = f => phase[f] \notin Over
    BY BrowserAssumption DEF CallsInv, Over
  <2>2. CASE GuestReturns(f)
    BY <1>2, <2>1, <2>2 DEF GuestReturns, Suspend, Complete, Trap, End
  <2>3. CASE ~GuestReturns(f)
    BY <1>4, <2>3 DEF GuestStep, CallFunction, OpenStream, NextStream, PollCall, DropCall
  <2>4. QED
    BY <2>2, <2>3
<1>5. ASSUME NEW f \in Execution, Cancel(f)
      PROVE  phase'[e] = phase[e]
  BY <1>5 DEF Cancel
<1>6. ASSUME NEW n \in Ops, Settle(n)
      PROVE  phase'[e] = phase[e]
  BY <1>6 DEF Settle
<1>7. CASE Done
  BY <1>7 DEF Done, vars
<1>8. QED
  BY <1>3, <1>4, <1>5, <1>6, <1>7 DEF Next

(* What was lost to an execution of another controller stays lost. *)
LEMMA SharedKept ==
  ASSUME CallsInv, ControllersInv, Next, NEW e \in Execution, id[e] # None, SharedIdentity(e)
  PROVE  SharedIdentity(e)'
<1>1. PICK f \in Execution :
        id[f] = id[e] /\ controller[f] # controller[e] /\ phase[f] \in Over
  BY DEF SharedIdentity
<1>2. Keeps(e) /\ Keeps(f) /\ phase'[f] = phase[f]
  BY <1>1, IdentityKept, OverKept
<1>3. QED
  BY <1>1, <1>2 DEF SharedIdentity, Keeps

-----------------------------------------------------------------------------
(* What a step has to keep for a stream it does not touch. *)
Unaffected(s, e) ==
  /\ Keeps(e) /\ (Drives(e)' <=> Drives(e)) /\ phase'[e] = phase[e]
  /\ SharedIdentity(e) => SharedIdentity(e)'
  /\ IsOpen(id[e], s)' <=> IsOpen(id[e], s)
  /\ Advancing(id[e], s)' <=> Advancing(id[e], s)
  /\ Outstanding(s)' = Outstanding(s)
  /\ stream'[s] = stream[s]

LEMMA BelongsKept ==
  ASSUME NEW s, NEW e, Belongs(s, e), Unaffected(s, e)
  PROVE  Belongs(s, e)'
<1>1. Kept(e, s) => Kept(e, s)'
  BY Zenon DEF Kept, Unaffected
<1>2. id'[e] # None /\ phase'[e] \in {"driving"} \cup Over
  BY DEF Belongs, Unaffected, Keeps
<1>3. IsOpen(id[e], s)' => Drives(e)' /\ ~stream'[s].ended
  BY Zenon DEF Belongs, Unaffected
<1>4. Advancing(id[e], s)' => Drives(e)' /\ Outstanding(s)' # {}
  BY Zenon DEF Belongs, Unaffected
<1>5. Kept(e, s)' \/ SharedIdentity(e)'
  BY <1>1, Zenon DEF Belongs, Unaffected
<1>6. IsOpen(id[e], s)' /\ Outstanding(s)' # {} => Advancing(id[e], s)'
  BY Zenon DEF Belongs, Unaffected
<1>7. \A n, m \in Outstanding(s)' : n = m
  BY DEF Belongs, Unaffected
<1>8. QED
  BY <1>2, <1>3, <1>4, <1>5, <1>6, <1>7, Zenon DEF Belongs

(* The executions whose streams a step keeps. *)
Owners == {stream[s].owner : s \in DOMAIN stream}

(* Executions with streams have an identity, and keep it. *)
LEMMA OwnersKeep ==
  ASSUME CallsInv, OpsInv, ControllersInv, StreamsInv, Next, NEW e \in Owners
  PROVE  /\ e \in Execution /\ id[e] # None /\ phase[e] \in {"driving"} \cup Over
         /\ Keeps(e) /\ (SharedIdentity(e) => SharedIdentity(e)')
<1>1. PICK s \in DOMAIN stream : e = stream[s].owner
  BY DEF Owners
<1>2. stream[s] \in Streams /\ Belongs(s, e)
  BY <1>1 DEF OpsInv, StreamsInv
<1>3. e \in Execution /\ id[e] # None /\ phase[e] \in {"driving"} \cup Over
  BY <1>1, <1>2 DEF Streams, Belongs
<1>4. QED
  BY <1>3, IdentityKept, SharedKept

(* A step that opens, advances and settles nothing. *)
LEMMA StreamsSame ==
  ASSUME CallsInv, OpsInv, ControllersInv, StreamsInv, Next,
         \A s : Outstanding(s)' = Outstanding(s),
         UNCHANGED <<stream, active, advancing>>,
         \A e \in Owners : phase'[e] = phase[e]
  PROVE  StreamsInv'
<1>1. \A i, s : (IsOpen(i, s)' <=> IsOpen(i, s)) /\ (Advancing(i, s)' <=> Advancing(i, s))
  BY DEF IsOpen, Advancing
<1>2. ASSUME NEW s \in DOMAIN stream, NEW e, e = stream[s].owner
      PROVE  Belongs(s, e)' /\ id'[e] = id[e]
  <2>1. e \in Owners /\ Belongs(s, e)
    BY <1>2 DEF Owners, StreamsInv
  <2>2. Keeps(e) /\ (SharedIdentity(e) => SharedIdentity(e)')
    BY <2>1, OwnersKeep
  <2>3. phase'[e] = phase[e] /\ (Drives(e)' <=> Drives(e))
    BY <2>1 DEF Drives
  <2>4. IsOpen(id[e], s)' <=> IsOpen(id[e], s)
    BY <2>2 DEF IsOpen, Keeps
  <2>5. Advancing(id[e], s)' <=> Advancing(id[e], s)
    BY <2>2 DEF Advancing, Keeps
  <2>6. stream'[s] = stream[s] /\ Outstanding(s)' = Outstanding(s)
    OBVIOUS
  <2>7. Unaffected(s, e)
    BY <2>2, <2>3, <2>4, <2>5, <2>6, Zenon DEF Unaffected
  <2>8. QED
    BY <2>1, <2>2, <2>7, BelongsKept DEF Keeps
<1>3. \A i, s : IsOpen(i, s)' \/ Advancing(i, s)' =>
                  s \in DOMAIN stream' /\ i = id'[stream'[s].owner]
  BY <1>1, <1>2 DEF StreamsInv
<1>4. \A a \in advancing' : a = <<a[1], a[2]>>
  BY DEF StreamsInv
<1>5. \A s \in DOMAIN stream' : Belongs(s, stream[s].owner)'
  BY <1>2
<1>6. QED
  BY <1>3, <1>4, <1>5 DEF StreamsInv

(* The end of an execution closes what is open under its identity: its own *)
(* streams, and those of an execution of another controller.               *)
LEMMA StreamsEnd ==
  ASSUME CallsInv, OpsInv, ControllersInv, StreamsInv, Next, NEW e \in Execution,
         NEW outcome \in Over, NEW last, End(e, outcome, last),
         phase[e] \in {"instantiating", "driving"}
  PROVE  StreamsInv'
<1>1. /\ UNCHANGED <<id, controller, settled, stream, op>>
      /\ phase' = [phase EXCEPT ![e] = outcome]
      /\ id[e] # None /\ phase \in [Execution -> Phases]
  BY DEF End, ControllersInv, CallsInv
<1>2. \A i, s : IsOpen(i, s)' <=> IsOpen(i, s) /\ i # id[e]
  BY DEF End, ReleaseExecution, IsOpen
<1>3. \A i, s : Advancing(i, s)' <=> Advancing(i, s) /\ i # id[e]
  BY DEF End, ReleaseExecution, Advancing
<1>4. ASSUME NEW s \in DOMAIN stream, NEW f, f = stream[s].owner
      PROVE  Belongs(s, f)'
  <2>1. Belongs(s, f) /\ Outstanding(s)' = Outstanding(s) /\ f \in Owners
    BY <1>1, <1>4, OutstandingSame DEF StreamsInv, Owners
  <2>2. f \in Execution /\ Keeps(f) /\ (SharedIdentity(f) => SharedIdentity(f)')
    BY <2>1, OwnersKeep
  <2>3. /\ IsOpen(id[f], s)' <=> IsOpen(id[f], s) /\ id[f] # id[e]
        /\ Advancing(id[f], s)' <=> Advancing(id[f], s) /\ id[f] # id[e]
    <3>1. PICK i : i = id[f] /\ i = id'[f]
      BY <1>1
    <3>2. (IsOpen(id[f], s)' <=> IsOpen(i, s)') /\ (Advancing(id[f], s)' <=> Advancing(i, s)')
      BY <3>1 DEF IsOpen, Advancing
    <3>3. QED
      BY <1>2, <1>3, <3>1, <3>2
  <2>4. /\ id'[f] # None /\ phase'[f] \in {"driving"} \cup Over
        /\ \A n, m \in Outstanding(s)' : n = m
    BY <1>1, <2>1, <2>2 DEF Belongs
  <2>5. CASE id[f] = id[e]
    <3>1. ~IsOpen(id[f], s)' /\ ~Advancing(id[f], s)'
      BY <2>3, <2>5
    <3>2. Kept(f, s)' \/ SharedIdentity(f)'
      <4>1. CASE f = e
        <5>1. ~Drives(f)'
          BY <1>1, <4>1 DEF Drives, Over
        <5>2. QED
          BY <3>1, <5>1, Zenon DEF Kept
      <4>2. CASE f # e
        <5>1. controller[f] # controller[e]
          BY <1>1, <2>2, <2>5, <4>2 DEF ControllersInv
        <5>2. phase'[e] \in Over
          BY <1>1
        <5>3. QED
          BY <1>1, <2>5, <5>1, <5>2 DEF SharedIdentity
      <4>3. QED
        BY <4>1, <4>2
    <3>3. QED
      BY <2>4, <3>1, <3>2, Zenon DEF Belongs
  <2>6. CASE id[f] # id[e]
    <3>1. phase'[f] = phase[f] /\ (Drives(f)' <=> Drives(f)) /\ stream'[s] = stream[s]
      BY <1>1, <2>2, <2>6 DEF Drives
    <3>2. Unaffected(s, f)
      BY <2>1, <2>2, <2>3, <2>6, <3>1, Zenon DEF Unaffected
    <3>3. QED
      BY <2>1, <3>2, BelongsKept
  <2>7. QED
    BY <2>5, <2>6
<1>5. \A s \in DOMAIN stream' : Belongs(s, stream[s].owner)'
  BY <1>1, <1>4
<1>6. \A i, s : IsOpen(i, s)' \/ Advancing(i, s)' =>
                  s \in DOMAIN stream' /\ i = id'[stream'[s].owner]
  BY <1>1, <1>2, <1>3 DEF StreamsInv
<1>7. \A a \in advancing' : a = <<a[1], a[2]>>
  BY DEF StreamsInv, End, ReleaseExecution
<1>8. QED
  BY <1>5, <1>6, <1>7 DEF StreamsInv

(* A stream is open for its execution from now on, and nobody advances it. *)
LEMMA StreamsOpen ==
  ASSUME CallsInv, OpsInv, ControllersInv, StreamsInv, Next, NEW e \in Execution, OpenStream(e)
  PROVE  StreamsInv'
<1>1. PICK t : t = nextStream + 1
  OBVIOUS
<1>2. PICK added : added = [owner |-> e, ended |-> FALSE]
  OBVIOUS
<1>3. /\ UNCHANGED <<id, controller, phase, settled, advancing>> /\ nextStream' = t
      /\ stream' = Append(stream, added)
      /\ op' = Append(op, [kind |-> "open", execution |-> e, stream |-> t])
      /\ running = e
  BY <1>1, <1>2 DEF OpenStream, HostCall, GuestRuns, browser
<1>4. phase[e] = "driving" /\ id[e] # None
  BY <1>3, BrowserAssumption DEF CallsInv, ControllersInv
<1>5. PICK n \in Nat : n = Len(stream) /\ DOMAIN stream = 1..n
  BY LenProperties DEF OpsInv
<1>6. /\ t = n + 1 /\ DOMAIN stream' = 1..n + 1 /\ t \notin DOMAIN stream
      /\ \A s \in 1..n : stream'[s] = stream[s]
      /\ stream'[t] = added
  <2>1. stream \in Seq(Streams \cup {added})
    BY DEF OpsInv
  <2>2. /\ Append(stream, added) \in Seq(Streams \cup {added})
        /\ Len(Append(stream, added)) = n + 1
        /\ \A s \in 1..n : Append(stream, added)[s] = stream[s]
        /\ Append(stream, added)[n + 1] = added
    BY <1>5, <2>1, AppendProperties
  <2>3. DOMAIN Append(stream, added) = 1..n + 1 /\ t = n + 1
    BY <1>1, <1>5, <2>2 DEF OpsInv
  <2>4. QED
    BY <1>3, <1>5, <2>2, <2>3
<1>7. \A s : Outstanding(s)' = Outstanding(s)
  <2>1. PICK operation : operation = [kind |-> "open", execution |-> e, stream |-> t]
    OBVIOUS
  <2>2. op' = Append(op, operation) /\ operation.kind # "next"
    BY <1>3, <2>1
  <2>3. QED
    BY <1>3, <2>2, OutstandingAdded
<1>8. \A i, s : IsOpen(i, s)' <=> IsOpen(i, s) \/ (i = id[e] /\ s = t)
  BY <1>3 DEF OpenStream, IsOpen, With
<1>9. \A i, s : Advancing(i, s)' <=> Advancing(i, s)
  BY <1>3 DEF Advancing
<1>10. ~Advancing(id[e], t) /\ Outstanding(t) = {}
  <2>1. ~Advancing(id[e], t)
    BY <1>6 DEF StreamsInv
  <2>2. Outstanding(t) = {}
    BY <1>6 DEF Outstanding, OpsInv, Ops
  <2>3. QED
    BY <2>1, <2>2
<1>11. Belongs(t, e)'
  <2>1. id'[e] # None /\ phase'[e] = "driving" /\ Drives(e)'
    BY <1>3, <1>4 DEF Drives
  <2>2. IsOpen(id[e], t)' /\ ~Advancing(id[e], t)'
    <3>1. PICK i : i = id[e] /\ i = id'[e]
      BY <1>3
    <3>2. (IsOpen(id[e], t)' <=> IsOpen(i, t)') /\ (Advancing(id[e], t)' <=> Advancing(i, t)')
      BY <3>1 DEF IsOpen, Advancing
    <3>3. QED
      BY <1>8, <1>9, <1>10, <3>1, <3>2
  <2>3. stream'[t].ended = FALSE
    BY <1>2, <1>6
  <2>4. Outstanding(t)' = {}
    BY <1>7, <1>10
  <2>5. Kept(e, t)'
    BY <2>1, <2>2, <2>3, <2>4, Zenon DEF Kept
  <2>6. QED
    BY <2>1, <2>2, <2>3, <2>4, <2>5, Zenon DEF Belongs
<1>12. ASSUME NEW s \in 1..n, NEW f, f = stream[s].owner
       PROVE  Belongs(s, f)'
  <2>1. Belongs(s, f) /\ Outstanding(s)' = Outstanding(s) /\ s # t /\ f \in Owners
    BY <1>5, <1>6, <1>7, <1>12 DEF StreamsInv, Owners
  <2>2. /\ Keeps(f) /\ (SharedIdentity(f) => SharedIdentity(f)')
        /\ phase'[f] = phase[f] /\ (Drives(f)' <=> Drives(f))
    BY <1>3, <2>1, OwnersKeep DEF Drives
  <2>3. (IsOpen(id[f], s)' <=> IsOpen(id[f], s)) /\ (Advancing(id[f], s)' <=> Advancing(id[f], s))
    <3>1. PICK i : i = id[f] /\ i = id'[f]
      BY <1>3
    <3>2. (IsOpen(id[f], s)' <=> IsOpen(i, s)') /\ (Advancing(id[f], s)' <=> Advancing(i, s)')
      BY <3>1 DEF IsOpen, Advancing
    <3>3. QED
      BY <1>8, <1>9, <2>1, <3>1, <3>2
  <2>4. stream'[s] = stream[s]
    BY <1>6
  <2>5. Unaffected(s, f)
    BY <2>1, <2>2, <2>3, <2>4, Zenon DEF Unaffected
  <2>6. QED
    BY <2>1, <2>5, BelongsKept
<1>13. \A s \in DOMAIN stream' : Belongs(s, stream[s].owner)'
  <2>1. ASSUME NEW s \in DOMAIN stream', NEW f, f = stream'[s].owner
        PROVE  Belongs(s, f)'
    <3>1. CASE s = t
      BY <1>2, <1>6, <1>11, <2>1, <3>1
    <3>2. CASE s \in 1..n
      BY <1>6, <1>12, <2>1, <3>2
    <3>3. QED
      BY <1>6, <3>1, <3>2
  <2>2. QED
    BY <2>1 DEF Belongs
<1>14. \A i, s : IsOpen(i, s)' \/ Advancing(i, s)' =>
                   s \in DOMAIN stream' /\ i = id'[stream'[s].owner]
  <2>1. \A i, s : IsOpen(i, s) \/ Advancing(i, s) => s \in 1..n /\ i = id[stream[s].owner]
    BY <1>5 DEF StreamsInv
  <2>2. /\ t \in DOMAIN stream' /\ 1..n \subseteq DOMAIN stream'
        /\ stream'[t].owner = e /\ \A s \in 1..n : stream'[s].owner = stream[s].owner
    BY <1>2, <1>6
  <2>3. QED
    BY <1>3, <1>8, <1>9, <2>1, <2>2
<1>15. \A a \in advancing' : a = <<a[1], a[2]>>
  BY <1>3 DEF StreamsInv
<1>16. QED
  BY <1>13, <1>14, <1>15 DEF StreamsInv

(* An advance marks its stream, when no other one is on its way. *)
LEMMA StreamsAdvance ==
  ASSUME CallsInv, OpsInv, ControllersInv, StreamsInv, Next, NEW e \in Execution,
         NEW s \in DOMAIN stream, NextStream(e, s)
  PROVE  StreamsInv'
<1>1. /\ UNCHANGED <<id, controller, phase, settled, active, stream>>
      /\ stream[s].owner = e /\ running = e
  BY DEF NextStream, GuestRuns, browser
<1>2. phase[e] = "driving"
  BY <1>1, BrowserAssumption DEF CallsInv
<1>3. PICK starts \in BOOLEAN : starts = (~Advancing(id[e], s) /\ IsOpen(id[e], s))
  OBVIOUS
<1>4. PICK operation : operation = [kind |-> IF starts THEN "next" ELSE "refused",
                                    execution |-> e, stream |-> s]
  OBVIOUS
<1>5. /\ op' = Append(op, operation) /\ operation.stream = s
      /\ operation.kind = IF starts THEN "next" ELSE "refused"
      /\ advancing' = IF starts THEN advancing \cup {<<id[e], s>>} ELSE advancing
  <2>1. op' = Append(op, [kind |-> IF starts THEN "next" ELSE "refused",
                          execution |-> e, stream |-> s])
    BY <1>3 DEF NextStream, HostCall
  <2>2. advancing' = IF starts THEN advancing \cup {<<id[e], s>>} ELSE advancing
    BY <1>3 DEF NextStream
  <2>3. QED
    BY <1>4, <2>1, <2>2
<1>6. PICK n : n = Len(op) + 1
  OBVIOUS
<1>7. \A t : Outstanding(t)' = Outstanding(t) \cup (IF starts /\ s = t THEN {n} ELSE {})
  <2>1. \A t : Outstanding(t)' =
                 Outstanding(t) \cup (IF operation.kind = "next" /\ operation.stream = t
                                      THEN {n} ELSE {})
    BY <1>1, <1>5, <1>6, OutstandingAdded
  <2>2. operation.kind = "next" <=> starts
    BY <1>5
  <2>3. QED
    BY <1>5, <2>1, <2>2
<1>8. CASE ~starts
  <2>1. advancing' = advancing /\ \A t : Outstanding(t)' = Outstanding(t)
    BY <1>5, <1>7, <1>8
  <2>2. QED
    BY <1>1, <2>1, StreamsSame
<1>9. CASE starts
  <2>1. \A i, t : Advancing(i, t)' <=> Advancing(i, t) \/ (i = id[e] /\ t = s)
    BY <1>5, <1>9 DEF Advancing
  <2>2. \A i, t : IsOpen(i, t)' <=> IsOpen(i, t)
    BY <1>1 DEF IsOpen
  <2>3. Belongs(s, e) /\ IsOpen(id[e], s) /\ ~Advancing(id[e], s)
    BY <1>1, <1>3, <1>9 DEF StreamsInv
  <2>4. Outstanding(s) = {} /\ Outstanding(s)' = {n} /\ Drives(e) /\ ~stream[s].ended
    <3>1. Outstanding(s) = {} /\ Drives(e) /\ ~stream[s].ended
      BY <2>3, Zenon DEF Belongs
    <3>2. QED
      BY <1>7, <1>9, <3>1
  <2>5. ASSUME NEW t \in DOMAIN stream, NEW f, f = stream[t].owner
        PROVE  Belongs(t, f)'
    <3>1. Belongs(t, f) /\ f \in Owners
      BY <2>5 DEF StreamsInv, Owners
    <3>2. /\ Keeps(f) /\ (SharedIdentity(f) => SharedIdentity(f)')
          /\ phase'[f] = phase[f] /\ (Drives(f)' <=> Drives(f)) /\ stream' = stream
      BY <1>1, <3>1, OwnersKeep DEF Drives
    <3>3. PICK i : i = id[f] /\ i = id'[f]
      BY <1>1
    <3>4. /\ IsOpen(id[f], t)' <=> IsOpen(id[f], t)
          /\ Advancing(id[f], t)' <=> Advancing(id[f], t) \/ (id[f] = id[e] /\ t = s)
      <4>1. (IsOpen(id[f], t)' <=> IsOpen(i, t)') /\ (Advancing(id[f], t)' <=> Advancing(i, t)')
        BY <3>3 DEF IsOpen, Advancing
      <4>2. QED
        BY <2>1, <2>2, <3>3, <4>1
    <3>5. CASE t = s
      <4>1. f = e
        BY <1>1, <2>5, <3>5
      <4>2. /\ IsOpen(id[f], t)' /\ Advancing(id[f], t)' /\ Drives(f)' /\ ~stream'[t].ended
            /\ Outstanding(t)' = {n}
        BY <2>3, <2>4, <3>2, <3>4, <3>5, <4>1
      <4>3. id'[f] # None /\ phase'[f] \in {"driving"} \cup Over
        BY <3>1, <3>2 DEF Belongs, Keeps
      <4>4. (\A m, k \in Outstanding(t)' : m = k) /\ Outstanding(t)' # {}
        BY <4>2
      <4>5. Kept(f, t)'
        BY <4>2, <4>4, Zenon DEF Kept
      <4>6. QED
        BY <4>2, <4>3, <4>4, <4>5, Zenon DEF Belongs
    <3>6. CASE t # s
      <4>1. (Advancing(id[f], t)' <=> Advancing(id[f], t)) /\ Outstanding(t)' = Outstanding(t)
        BY <1>7, <3>4, <3>6
      <4>2. Unaffected(t, f)
        BY <3>2, <3>4, <4>1, Zenon DEF Unaffected
      <4>3. QED
        BY <3>1, <4>2, BelongsKept
    <3>7. QED
      BY <3>5, <3>6
  <2>6. \A i, t : IsOpen(i, t)' \/ Advancing(i, t)' =>
                    t \in DOMAIN stream' /\ i = id'[stream'[t].owner]
    BY <1>1, <2>1, <2>2 DEF StreamsInv
  <2>7. \A t \in DOMAIN stream' : Belongs(t, stream[t].owner)'
    BY <1>1, <2>5
  <2>8. \A a \in advancing' : a = <<a[1], a[2]>>
    <3>1. PICK mark : mark = <<id[e], s>>
      OBVIOUS
    <3>2. mark = <<mark[1], mark[2]>> /\ advancing' = advancing \cup {mark}
      BY <1>5, <1>9, <3>1
    <3>3. QED
      BY <3>2 DEF StreamsInv
  <2>9. QED
    BY <2>6, <2>7, <2>8 DEF StreamsInv
<1>10. QED
  BY <1>8, <1>9

(* The advance that settles is the one its stream is marked for. *)
LEMMA StreamsSettle ==
  ASSUME CallsInv, OpsInv, ControllersInv, StreamsInv, Next, NEW n \in Ops, Settle(n)
  PROVE  StreamsInv'
<1>1. /\ UNCHANGED <<id, controller, phase, op>> /\ n \in Ops \ DOMAIN settled
  BY DEF Settle, browser
<1>2. PICK how : settled' = With(settled, n, how)
  BY DEF Settle
<1>3. \A t : Outstanding(t)' = Outstanding(t) \ {n}
  BY <1>1, <1>2, OutstandingSettled
<1>4. CASE op[n].kind # "next" /\ UNCHANGED <<active, advancing, stream>>
  <2>1. \A t : Outstanding(t)' = Outstanding(t)
    BY <1>3, <1>4 DEF Outstanding
  <2>2. QED
    BY <1>1, <1>4, <2>1, StreamsSame
<1>5. ASSUME NEW ended \in BOOLEAN, op[n].kind = "next", CompleteStreamNext(n, ended)
      PROVE  StreamsInv'
  <2>1. PICK s \in DOMAIN stream : s = op[n].stream
    BY <1>1, <1>5 DEF OpsInv, Ops
  <2>2. PICK e : e = op[n].execution
    OBVIOUS
  <2>3. stream[s].owner = e /\ Belongs(s, e)
    <3>1. stream[s].owner = e
      BY <1>1, <1>5, <2>1, <2>2 DEF OpsInv, Ops
    <3>2. QED
      BY <3>1 DEF StreamsInv
  <2>4. /\ advancing' = advancing \ {<<id[e], s>>}
        /\ active' = [j \in DOMAIN active |-> IF j = id[e] /\ ended THEN active[j] \ {s}
                                                                     ELSE active[j]]
        /\ stream' = [stream EXCEPT ![s].ended = @ \/ ended]
    BY <1>5, <2>1, <2>2 DEF CompleteStreamNext
  <2>5. \A i, t : Advancing(i, t)' <=> Advancing(i, t) /\ ~(i = id[e] /\ t = s)
    BY <2>4 DEF Advancing
  <2>6. \A i, t : IsOpen(i, t)' <=> IsOpen(i, t) /\ ~(ended /\ i = id[e] /\ t = s)
    BY <2>4 DEF IsOpen
  <2>7. /\ DOMAIN stream' = DOMAIN stream
        /\ \A t \in DOMAIN stream : t # s => stream'[t] = stream[t]
        /\ stream'[s].owner = stream[s].owner
        /\ stream'[s].ended <=> stream[s].ended \/ ended
    <3>1. stream[s] \in Streams
      BY DEF OpsInv
    <3>2. PICK over \in BOOLEAN : over <=> (stream[s].ended \/ ended)
      OBVIOUS
    <3>3. over = (stream[s].ended \/ ended)
      BY <3>1, <3>2, Zenon DEF Streams
    <3>4. PICK r : r = [stream[s] EXCEPT !.ended = over]
      OBVIOUS
    <3>5. r.ended = over /\ r.owner = stream[s].owner
      BY <3>1, <3>4 DEF Streams
    <3>6. stream' = [stream EXCEPT ![s] = [@ EXCEPT !.ended = over]]
      BY <2>4, <3>3
    <3>7. stream' = [stream EXCEPT ![s] = r]
      BY <3>4, <3>6
    <3>8. /\ DOMAIN stream' = DOMAIN stream /\ stream'[s] = r
          /\ \A t \in DOMAIN stream : t # s => stream'[t] = stream[t]
      BY <3>7
    <3>9. stream'[s].ended = over
      BY <3>5, <3>8, Zenon
    <3>10. stream'[s].ended <=> stream[s].ended \/ ended
      BY <3>2, <3>9, Zenon
    <3>11. QED
      BY <3>5, <3>8, <3>10, Zenon
  <2>8. n \in Outstanding(s)
    BY <1>1, <1>5, <2>1 DEF Outstanding
  <2>9. Outstanding(s)' = {}
    BY <1>3, <2>3, <2>8 DEF Belongs
  <2>10. ASSUME NEW t \in DOMAIN stream, NEW f, f = stream[t].owner
         PROVE  Belongs(t, f)'
    <3>1. Belongs(t, f) /\ f \in Owners
      BY <2>10 DEF StreamsInv, Owners
    <3>2. /\ Keeps(f) /\ (SharedIdentity(f) => SharedIdentity(f)')
          /\ phase'[f] = phase[f] /\ (Drives(f)' <=> Drives(f))
      BY <1>1, <3>1, OwnersKeep DEF Drives
    <3>3. PICK i : i = id[f] /\ i = id'[f]
      BY <1>1
    <3>4. /\ IsOpen(id[f], t)' <=> IsOpen(id[f], t) /\ ~(ended /\ id[f] = id[e] /\ t = s)
          /\ Advancing(id[f], t)' <=> Advancing(id[f], t) /\ ~(id[f] = id[e] /\ t = s)
      <4>1. (IsOpen(id[f], t)' <=> IsOpen(i, t)') /\ (Advancing(id[f], t)' <=> Advancing(i, t)')
        BY <3>3 DEF IsOpen, Advancing
      <4>2. QED
        BY <2>5, <2>6, <3>3, <4>1
    <3>5. CASE t = s
      <4>1. f = e
        BY <2>3, <2>10, <3>5
      <4>2. ~Advancing(id[f], t)' /\ Outstanding(t)' = {}
        BY <2>9, <3>4, <3>5, <4>1
      <4>3. /\ IsOpen(id[f], t)' <=> IsOpen(id[f], t) /\ ~ended
            /\ stream'[t].ended <=> stream[t].ended \/ ended
        BY <2>7, <3>4, <3>5, <4>1
      <4>4. IsOpen(id[f], t)' => Drives(f)' /\ ~stream'[t].ended
        BY <3>1, <3>2, <4>3, Zenon DEF Belongs
      <4>5. Kept(f, t) => Kept(f, t)'
        BY <3>2, <4>2, <4>3, Zenon DEF Kept
      <4>6. Kept(f, t)' \/ SharedIdentity(f)'
        BY <3>1, <3>2, <4>5, Zenon DEF Belongs
      <4>7. id'[f] # None /\ phase'[f] \in {"driving"} \cup Over
        BY <3>1, <3>2 DEF Belongs, Keeps
      <4>8. \A m, k \in Outstanding(t)' : m = k
        BY <4>2
      <4>9. QED
        BY <4>2, <4>4, <4>6, <4>7, <4>8, Zenon DEF Belongs
    <3>6. CASE t # s
      <4>1. /\ Advancing(id[f], t)' <=> Advancing(id[f], t)
            /\ IsOpen(id[f], t)' <=> IsOpen(id[f], t)
        BY <3>4, <3>6
      <4>2. Outstanding(t)' = Outstanding(t)
        BY <1>3, <2>1, <3>6 DEF Outstanding
      <4>3. stream'[t] = stream[t]
        BY <2>7, <3>6
      <4>4. Unaffected(t, f)
        BY <3>2, <4>1, <4>2, <4>3, Zenon DEF Unaffected
      <4>5. QED
        BY <3>1, <4>4, BelongsKept
    <3>7. QED
      BY <3>5, <3>6
  <2>11. \A t \in DOMAIN stream : stream'[t].owner = stream[t].owner
    BY <2>7
  <2>12. \A t \in DOMAIN stream' : Belongs(t, stream[t].owner)'
    BY <2>7, <2>10, <2>11 DEF Belongs
  <2>13. \A i, t : IsOpen(i, t)' \/ Advancing(i, t)' =>
                     t \in DOMAIN stream' /\ i = id'[stream'[t].owner]
    BY <1>1, <2>5, <2>6, <2>7, <2>11 DEF StreamsInv
  <2>14. \A a \in advancing' : a = <<a[1], a[2]>>
    BY <2>4 DEF StreamsInv
  <2>15. QED
    BY <2>12, <2>13, <2>14 DEF StreamsInv
<1>6. QED
  BY <1>4, <1>5 DEF Settle

LEMMA StreamsStep ==
  ASSUME CallsInv, OpsInv, ControllersInv, StreamsInv, Next
  PROVE  StreamsInv'
<1> USE DEF browser, streams
<1>1. \A f \in Owners : f \in Execution /\ phase[f] \in {"driving"} \cup Over
  BY OwnersKeep
<1>2. phase \in [Execution -> Phases]
  BY DEF CallsInv
(* The phase of an execution without streams changes. *)
<1>3. ASSUME NEW e \in Execution, phase[e] \notin {"driving"} \cup Over, NEW p,
             phase' = phase \/ phase' = [phase EXCEPT ![e] = p],
             UNCHANGED <<op, settled, stream, active, advancing>>
      PROVE  StreamsInv'
  <2>1. \A f \in Owners : phase'[f] = phase[f]
    BY <1>1, <1>2, <1>3
  <2>2. QED
    BY <1>3, <2>1, OutstandingSame, StreamsSame
<1>4. ASSUME UNCHANGED <<phase, op, settled, stream, active, advancing>>
      PROVE  StreamsInv'
  BY <1>4, OutstandingSame, StreamsSame
<1>5. ASSUME NEW e \in Execution, EventLoop(e)
      PROVE  StreamsInv'
  <2>1. ASSUME NEW w \in Wasm, LoadKept(e, w) \/ LoadCompile(e, w)
        PROVE  StreamsInv'
    BY <1>3, <2>1 DEF LoadKept, LoadCompile, Begin, Over
  <2>2. CASE Compiled(e) \/ CompileFails(e) \/ Instantiated(e)
    BY <1>3, <2>2 DEF Compiled, CompileFails, Instantiated, Begin, Over
  <2>3. CASE CancelledBeforeStart(e)
    BY <2>3, StreamsEnd DEF CancelledBeforeStart, Over
  <2>4. CASE InstantiateFails(e)
    BY <2>4, StreamsEnd DEF InstantiateFails, Over
  <2>5. ASSUME NEW i \in DOMAIN pending[e], Resume(e, i)
        PROVE  StreamsInv'
    BY <1>4, <2>5 DEF Resume
  <2>6. ASSUME NEW i \in DOMAIN pending[e], Rejected(e, i) \/ CancelledBetween(e, i)
        PROVE  StreamsInv'
    BY <2>6, StreamsEnd DEF Rejected, CancelledBetween, Raced, Over
  <2>7. QED
    BY <1>5, <2>1, <2>2, <2>3, <2>4, <2>5, <2>6 DEF EventLoop
<1>6. ASSUME NEW e \in Execution, GuestStep(e)
      PROVE  StreamsInv'
  <2>1. running = e => phase[e] = "driving"
    BY BrowserAssumption DEF CallsInv
  <2>2. CASE CallFunction(e)
    <3>1. PICK operation : op' = Append(op, operation) /\ operation.kind # "next"
      <4>1. PICK answered \in BOOLEAN :
              op' = Append(op, [kind |-> IF answered THEN "answered" ELSE "function",
                                execution |-> e, stream |-> None])
        BY <2>2 DEF CallFunction, HostCall
      <4>2. PICK operation : operation = [kind |-> IF answered THEN "answered" ELSE "function",
                                          execution |-> e, stream |-> None]
        OBVIOUS
      <4>3. op' = Append(op, operation) /\ operation.kind # "next"
        BY <4>1, <4>2
      <4>4. QED
        BY <4>3
    <3>2. UNCHANGED <<phase, settled, stream, active, advancing>>
      BY <2>2 DEF CallFunction
    <3>3. \A s : Outstanding(s)' = Outstanding(s)
      BY <3>1, <3>2, OutstandingAdded
    <3>4. QED
      BY <3>2, <3>3, StreamsSame
  <2>3. CASE OpenStream(e)
    BY <2>3, StreamsOpen
  <2>4. ASSUME NEW s \in DOMAIN stream, NextStream(e, s)
        PROVE  StreamsInv'
    BY <2>4, StreamsAdvance
  <2>5. CASE PollCall(e) \/ DropCall(e)
    BY <1>4, <2>5 DEF PollCall, DropCall
  <2>6. CASE Suspend(e)
    <3>1. CASE End(e, "failed", NewGuest)
      BY <2>1, <2>6, <3>1, StreamsEnd DEF Suspend, Over
    <3>2. CASE UNCHANGED <<browser, streams, settled, op>>
      BY <1>4, <3>2
    <3>3. QED
      BY <2>6, <3>1, <3>2 DEF Suspend
  <2>7. CASE Complete(e) \/ Trap(e)
    BY <2>1, <2>7, StreamsEnd DEF Complete, Trap, Over
  <2>8. QED
    BY <1>6, <2>2, <2>3, <2>4, <2>5, <2>6, <2>7 DEF GuestStep, GuestReturns
<1>7. ASSUME NEW e \in Execution, Cancel(e)
      PROVE  StreamsInv'
  BY <1>4, <1>7 DEF Cancel
<1>8. ASSUME NEW n \in Ops, Settle(n)
      PROVE  StreamsInv'
  BY <1>8, StreamsSettle
<1>9. CASE Done
  BY <1>4, <1>9 DEF Done, vars
<1>10. QED
  BY <1>5, <1>6, <1>7, <1>8, <1>9 DEF Next

-----------------------------------------------------------------------------
LEMMA InitInv ==
  ASSUME Init
  PROVE  CallsInv /\ OpsInv /\ ControllersInv /\ StreamsInv
<1>1. CallsInv
  <2>1. \A e \in Execution : Sound(phase[e], guest[e], pending[e])
    BY DEF Init, Sound, Phases, Over, NewGuest
  <2>2. QED
    BY <2>1 DEF Init, CallsInv, Phases
<1>2. op = <<>> /\ stream = <<>> /\ settled = <<>> /\ active = <<>> /\ advancing = {}
  BY DEF Init
<1>3. DOMAIN op = {} /\ DOMAIN stream = {} /\ DOMAIN settled = {} /\ DOMAIN active = {}
  BY <1>2
<1>4. OpsInv
  <2>1. op \in Seq(Operations) /\ stream \in Seq(Streams) /\ Len(stream) = 0
    BY <1>2
  <2>2. nextStream = 0
    BY DEF Init
  <2>3. QED
    BY <1>3, <2>1, <2>2 DEF OpsInv
<1>5. ControllersInv
  <2>1. nextId \in Seq(Nat \ {0}) /\ Len(nextId) = 0
    BY DEF Init
  <2>2. QED
    BY <2>1 DEF Init, ControllersInv
<1>6. StreamsInv
  BY <1>2, <1>3 DEF StreamsInv, IsOpen, Advancing
<1>7. QED
  BY <1>1, <1>4, <1>5, <1>6

(* Every call a guest awaits is in one place, and operations and streams   *)
(* are what they were made as, whatever the application does.              *)
THEOREM CallsInvariance == Spec => [](CallsInv /\ OpsInv)
<1>1. Init => CallsInv /\ OpsInv
  BY InitInv
<1>2. CallsInv /\ OpsInv /\ [Next]_vars => CallsInv' /\ OpsInv'
  <2>1. CASE UNCHANGED vars
    BY <2>1 DEF vars, browser, streams, CallsInv, OpsInv
  <2>2. QED
    BY <2>1, CallsStep, OpsStep
<1>3. QED
  BY <1>1, <1>2, PTL DEF Spec

(* CallsMatched: each HostCall a guest awaits has either a Promise in the  *)
(* drive loop's map or a response in the guest, both of its own operation, *)
(* and an execution that completed or was cancelled gave its permit back.  *)
THEOREM CallsAreMatched == Spec => []CallsMatched
<1>1. CallsInv => CallsMatched
  <2> SUFFICES ASSUME CallsInv
               PROVE  CallsMatched
    OBVIOUS
  <2>1. AnswersOwnCall
    <3>1. ASSUME NEW e \in Execution
          PROVE  /\ guest[e].taken = {}
                 /\ phase[e] \in {"complete", "cancelled"} => guest[e].permits = 0
      <4>1. Sound(phase[e], guest[e], pending[e])
        BY DEF CallsInv
      <4>2. QED
        BY <4>1 DEF Sound, Driven
    <3>2. QED
      BY <3>1 DEF AnswersOwnCall
  <2>2. ASSUME NEW e \in Execution, phase[e] = "driving"
        PROVE  Driven(guest[e], pending[e])
    BY <2>2 DEF CallsInv, Sound
  <2>3. ASSUME NEW e \in Execution, phase[e] = "driving", NEW c \in guest[e].calls
        PROVE  \/ /\ c.id \in DOMAIN pending[e] /\ pending[e][c.id] = c.op
                  /\ ResponseTo(guest[e], c) = 0
               \/ /\ c.id \notin DOMAIN pending[e]
                  /\ \E i \in DOMAIN guest[e].responses :
                       guest[e].responses[i] = [id |-> c.id, value |-> c.op]
    <3>1. PICK g : g = guest[e]
      OBVIOUS
    <3>2. PICK calls : calls = pending[e]
      OBVIOUS
    <3>3. Driven(g, calls) /\ c \in g.calls
      BY <2>2, <2>3, <3>1, <3>2
    <3>4. c.id \in DOMAIN calls => \A i \in DOMAIN g.responses : g.responses[i].id # c.id
      BY <3>3 DEF Driven, Numbered
    <3>5. c.id \in DOMAIN calls => ResponseTo(g, c) = 0
      BY <3>3, <3>4, ResponseFound DEF Driven, Numbered
    <3>6. \/ c.id \in DOMAIN calls /\ calls[c.id] = c.op
          \/ /\ c.id \notin DOMAIN calls
             /\ \E i \in DOMAIN g.responses : g.responses[i] = [id |-> c.id, value |-> c.op]
      BY <3>3 DEF Driven, Awaited
    <3>7. QED
      BY <3>1, <3>2, <3>5, <3>6
  <2>4. NoCallLost
    BY <2>2, <2>3 DEF NoCallLost, Driven
  <2>5. QED
    BY <2>1, <2>4 DEF CallsMatched
<1>2. QED
  BY <1>1, CallsInvariance, PTL

(* CancelTakesEffect: no step enters the guest of a cancelled execution,   *)
(* neither to start it nor to resume it with an answer.                    *)
THEOREM CancellationTakesEffect == Spec => CancelTakesEffect
<1>1. CallsInv /\ [Next]_vars => [\A e \in cancelled : running # e => running' # e]_vars
  <2> SUFFICES ASSUME CallsInv, Next, NEW e \in cancelled, running # e
               PROVE  running' # e
    OBVIOUS
  <2>1. e \in Execution /\ e # None
    BY BrowserAssumption DEF CallsInv
  <2>2. running' = running \/ running' = None => running' # e
    BY <2>1
  <2>3. ASSUME NEW f \in Execution, EventLoop(f)
        PROVE  running' # e
    <3>1. ASSUME NEW w \in Wasm, LoadKept(f, w) \/ LoadCompile(f, w)
          PROVE  running' # e
      BY <2>2, <3>1 DEF LoadKept, LoadCompile
    <3>2. CASE Compiled(f) \/ CompileFails(f) \/ CancelledBeforeStart(f) \/ InstantiateFails(f)
      BY <2>2, <3>2 DEF Compiled, CompileFails, CancelledBeforeStart, InstantiateFails, End
    <3>3. CASE Instantiated(f)
      BY <3>3 DEF Instantiated
    <3>4. ASSUME NEW i \in DOMAIN pending[f],
                 Resume(f, i) \/ Rejected(f, i) \/ CancelledBetween(f, i)
          PROVE  running' # e
      BY <2>2, <3>4 DEF Resume, IsCancelled, Rejected, CancelledBetween, End
    <3>5. QED
      BY <2>3, <3>1, <3>2, <3>3, <3>4 DEF EventLoop
  <2>4. ASSUME NEW f \in Execution, GuestStep(f) \/ Cancel(f)
        PROVE  running' # e
    BY <2>2, <2>4 DEF GuestStep, CallFunction, OpenStream, NextStream, PollCall, DropCall,
       GuestReturns, Suspend, Complete, Trap, End, Cancel
  <2>5. ASSUME NEW n \in Ops, Settle(n)
        PROVE  running' # e
    BY <2>2, <2>5 DEF Settle
  <2>6. CASE Done
    BY <2>2, <2>6 DEF Done, vars
  <2>7. QED
    BY <2>3, <2>4, <2>5, <2>6 DEF Next
<1>2. QED
  BY <1>1, CallsInvariance, PTL DEF Spec, CancelTakesEffect

-----------------------------------------------------------------------------
(* Identities and streams, whatever modules are loaded and executed at     *)
(* once.                                                                   *)
THEOREM StreamsInvariance == Spec => [](CallsInv /\ OpsInv /\ ControllersInv /\ StreamsInv)
<1>1. Init => CallsInv /\ OpsInv /\ ControllersInv /\ StreamsInv
  BY InitInv
<1>2. /\ CallsInv /\ OpsInv /\ ControllersInv /\ StreamsInv /\ [Next]_vars
      => CallsInv' /\ OpsInv' /\ ControllersInv' /\ StreamsInv'
  <2>1. CASE UNCHANGED vars
    BY <2>1 DEF vars, browser, streams, CallsInv, OpsInv, ControllersInv, StreamsInv, Belongs,
       Kept, SharedIdentity, IsOpen, Advancing, Drives, Outstanding, Ops
  <2>2. QED
    BY <2>1, CallsStep, OpsStep, ControllersStep, StreamsStep
<1>3. QED
  BY <1>1, <1>2, PTL DEF Spec

(* StreamsReleased: for any executions of any modules, loaded and run at   *)
(* once in any order, a stream has one consumer, nothing is kept of an     *)
(* execution that is over, and only the end of an execution of another     *)
(* controller can take a stream from an execution that needs it.           *)
THEOREM StreamsAreReleased == Spec => []StreamsReleased
<1>1. StreamsInv => StreamsReleased
  <2> SUFFICES ASSUME StreamsInv
               PROVE  StreamsReleased
    OBVIOUS
  <2>1. ASSUME NEW s \in DOMAIN stream
        PROVE  Belongs(s, stream[s].owner) /\ Cardinality(Outstanding(s)) <= 1
    <3>1. Belongs(s, stream[s].owner)
      BY DEF StreamsInv
    <3>2. CASE Outstanding(s) = {}
      BY <3>1, <3>2, FS_EmptySet
    <3>3. ASSUME NEW n \in Outstanding(s)
          PROVE  Cardinality(Outstanding(s)) = 1
      <4>1. Outstanding(s) = {n}
        BY <3>1, <3>3 DEF Belongs
      <4>2. QED
        BY <4>1, FS_Singleton, Zenon
    <3>4. QED
      BY <3>1, <3>2, <3>3
  <2>2. ASSUME NEW s \in DOMAIN stream, NEW e, e = stream[s].owner
        PROVE  /\ Cardinality(Outstanding(s)) <= 1
               /\ Kept(e, s) \/ SharedIdentity(e)
               /\ IsOpen(id[e], s) /\ Outstanding(s) # {} => Advancing(id[e], s)
    BY <2>1, <2>2 DEF Belongs
  <2>3. ASSUME NEW i \in DOMAIN active, NEW s \in active[i]
        PROVE  id[stream[s].owner] = i /\ Drives(stream[s].owner) /\ ~stream[s].ended
    <3>1. IsOpen(i, s)
      BY DEF IsOpen
    <3>2. s \in DOMAIN stream /\ id[stream[s].owner] = i
      BY <3>1 DEF StreamsInv
    <3>3. QED
      BY <2>1, <3>1, <3>2 DEF Belongs
  <2>4. ASSUME NEW a \in advancing
        PROVE  /\ id[stream[a[2]].owner] = a[1] /\ Drives(stream[a[2]].owner)
               /\ Outstanding(a[2]) # {}
    <3>1. Advancing(a[1], a[2])
      BY DEF Advancing, StreamsInv
    <3>2. a[2] \in DOMAIN stream /\ id[stream[a[2]].owner] = a[1]
      BY <3>1 DEF StreamsInv
    <3>3. QED
      BY <2>1, <3>1, <3>2 DEF Belongs
  <2>5. QED
    BY <2>2, <2>3, <2>4 DEF StreamsReleased
<1>2. QED
  BY <1>1, StreamsInvariance, PTL

================================================================================
