------------------------- MODULE ThreadLocalProofs --------------------------
(***************************************************************************)
(* Thread local storage, for every number of workers, slots and callbacks: *)
(* an index has one holder, a worker finds the data of the slot it asks    *)
(* for, and the completion callback of an update is the last of it.        *)
(***************************************************************************)
EXTENDS ThreadLocal, TLAPS

(* Leaves are given to the Zenon prover, for at most 30 s, unless they name another. *)
USE ZenonT(30)

-----------------------------------------------------------------------------
(* The inductive invariant *)

Live == {s \in Slots : Alive(s)}

(* The data d has the object of slot s at index i. *)
Has(d, i, s) == i \in DOMAIN d /\ d[i] # None /\ d[i].slot = s

(* The run r of a worker is a callback of s that holds it. *)
Holding(r, s) == r # None /\ r.call.slot = s /\ r.locked

(* A worker has the object of slot s when it gets to the nth callback of its *)
(* queue q, from data d and after its run r.                                 *)
Provided(d, q, r, i, s, n) ==
  \/ Has(d, i, s)
  \/ Holding(r, s) /\ r.call.kind = "set"
  \/ \E k \in DOMAIN q : k < n /\ q[k].kind = "set" /\ q[k].slot = s

(* What a worker with data d, queue q, run r and kept slots k has of slot s *)
(* with index i, which was set v times.  Whatever clears the index comes    *)
(* before everything that is about the slot.                                *)
Follows(d, q, r, k, i, v, s) ==
  /\ s \in k \/ (Holding(r, s) /\ r.call.kind = "update") => Has(d, i, s)
  /\ \A n \in DOMAIN q : q[n].kind \in {"keep", "update"} /\ q[n].slot = s =>
       Provided(d, q, r, i, s, n)
  /\ v > 0 => Provided(d, q, r, i, s, Len(q) + 1)
  /\ \A n \in DOMAIN q : q[n].kind = "clear" /\ q[n].index = i =>
       /\ ~Has(d, i, s) /\ s \notin k /\ ~Holding(r, s)
       /\ \A m \in DOMAIN q : m < n => q[m].slot # s

Datas == Seq(Objects \cup {None})

(* Data, queues, runs and kept slots have their types, and callbacks and    *)
(* objects have the index that idx has for their slot.                      *)
DataOK(d, idx, size) ==
  /\ d \in Datas /\ Len(d) <= size
  /\ \A i \in DOMAIN d, s \in Slots : Has(d, i, s) => idx[s] = i

CallOK(c, idx) ==
  /\ c \in WorkerCalls
  /\ c.slot # None => idx[c.slot] # 0
  /\ c.slot # None /\ c.kind # "keep" => c.index = idx[c.slot]
  /\ c.kind = "clear" => c.index # 0

QueueOK(q, idx) == q \in Seq(WorkerCalls) /\ \A n \in DOMAIN q : CallOK(q[n], idx)

RunOK(r, idx) ==
  /\ r \in Runs \cup {None}
  /\ r # None =>
       /\ r.call.index = idx[r.call.slot] /\ idx[r.call.slot] # 0
       /\ r.done => ~r.locked
       /\ r.call.kind = "drop" => r.done

KeptOK(k, idx) == k \in SUBSET Slots /\ \A s \in k : idx[s] # 0

SlotsOK ==
  /\ slotAt \in Seq(Slots \cup {None})
  /\ free \in Seq(1..Len(slotAt))
  /\ index \in [Slots -> 0..Len(slotAt)]
  /\ version \in [Slots -> 0..MaxSets]
  /\ registered \subseteq Workers /\ stopped \subseteq Threads /\ shutdown \in BOOLEAN
  /\ owner \subseteq Slots /\ \A s \in owner : index[s] # 0
  /\ \A s \in Slots : version[s] > 0 => index[s] # 0
  /\ updates \in Nat

ThreadsOK ==
  /\ DOMAIN queue = Threads /\ DOMAIN data = Threads
  /\ kept \in [Workers -> SUBSET Slots] /\ running \in [Workers -> Runs \cup {None}]
  /\ \A w \in Workers :
       /\ DataOK(data[w], index, Len(slotAt)) /\ QueueOK(queue[w], index)
       /\ RunOK(running[w], index) /\ KeptOK(kept[w], index)
  /\ \A w \in Workers \ registered :
       queue[w] = <<>> /\ data[w] = <<>> /\ running[w] = None /\ kept[w] = {}
  /\ data[Main] \in Datas /\ Len(data[Main]) <= Len(slotAt)

MainOK ==
  /\ queue[Main] \in Seq(MainCalls)
  /\ \A k \in DOMAIN queue[Main] :
       queue[Main][k].kind = "remove" => queue[Main][k].index \in 1..Len(slotAt)

(* The slot of an index is the live one that has it. *)
Places == \A s \in Live : index[s] # 0 /\ slotAt[index[s]] = s

(* Where index i is free, where its removal is in the queue q of the main  *)
(* thread, and which worker is about to post it                            *)
FreeAt(i) == {k \in DOMAIN free : free[k] = i}
Removals(q, i) == {k \in DOMAIN q : q[k].kind = "remove" /\ q[k].index = i}
Posters(i) == {w \in Workers : running[w] # None /\ running[w].done /\ running[w].call.index = i}

AtMostOne(set) == \A a, b \in set : a = b

(* The entry x of slots_ is reset when its index is free, and otherwise it *)
(* has a live slot or one removal of it is on its way.                     *)
Balanced(x, f, r, p, live) ==
  /\ AtMostOne(f) /\ AtMostOne(r) /\ AtMostOne(p)
  /\ r = {} \/ p = {}
  /\ x = None <=> f # {}
  /\ x # None /\ x \notin live <=> r \cup p # {}

Accounted ==
  ~shutdown => \A i \in 1..Len(slotAt) :
    /\ slotAt[i] # None => index[slotAt[i]] = i
    /\ Balanced(slotAt[i], FreeAt(i), Removals(queue[Main], i), Posters(i), Live)

(* The completion callbacks of update u in the queue q of the main thread *)
Completing(q, u) == {k \in DOMAIN q : q[k].kind = "complete" /\ q[k].update = u}

(* A worker with run r and queue q has a copy of update u that holds the   *)
(* guard.                                                                  *)
HasGuard(r, q, u) ==
  LET is(c) == c.kind = "update" /\ c.guarded /\ c.update = u
  IN (r # None /\ is(r.call)) \/ \E n \in DOMAIN q : is(q[n])

Completions ==
  /\ \A u \in Nat : AtMostOne(Completing(queue[Main], u))
  /\ \A u \in Nat : u \in completed => Completing(queue[Main], u) = {}
  /\ \A u \in Nat : \A w \in Workers : HasGuard(running[w], queue[w], u) =>
       u \in 1..updates /\ u \notin completed /\ Completing(queue[Main], u) = {}
  /\ \A u \in Nat : u \in completed \/ Completing(queue[Main], u) # {} => u \in 1..updates

Own ==
  \A w \in registered \ stopped, s \in Live :
    Follows(data[w], queue[w], running[w], kept[w], index[s], version[s], s)

IInv == SlotsOK /\ ThreadsOK /\ MainOK /\ Places /\ Accounted /\ Completions /\ Own

-----------------------------------------------------------------------------
(* A worker and a slot *)

(* A callback is posted to a worker: one that is not the clearing of the   *)
(* slot's index, and needs the slot's object only if the slot was set.     *)
LEMMA CallPosted ==
  ASSUME NEW d, NEW q \in Seq(WorkerCalls), NEW r, NEW k, NEW i, NEW v \in Nat, NEW u \in Nat,
         NEW s \in Slots, NEW c \in WorkerCalls,
         Follows(d, q, r, k, i, v, s),
         c.kind = "clear" => c.index # i,
         c.kind \in {"keep", "update"} /\ c.slot = s => v > 0,
         u = v \/ (c.kind = "set" /\ c.slot = s)
  PROVE  Follows(d, Append(q, c), r, k, i, u, s)
<1> DEFINE a == Append(q, c)
<1>1. /\ Len(q) \in Nat /\ DOMAIN q = 1..Len(q) /\ DOMAIN a = 1..(Len(q) + 1) /\ Len(a) = Len(q) + 1
      /\ a[Len(q) + 1] = c /\ \A n \in DOMAIN q : a[n] = q[n]
  BY SMTT(30)
<1> HIDE DEF a
<1>2. ASSUME NEW n \in 1..(Len(q) + 1), Provided(d, q, r, i, s, n)
      PROVE  Provided(d, a, r, i, s, n) /\ Provided(d, a, r, i, s, Len(a) + 1)
  BY SMTT(30), <1>1, <1>2 DEF Provided
<1>3. s \in k \/ (Holding(r, s) /\ r.call.kind = "update") => Has(d, i, s)
  BY DEF Follows
<1>4. ASSUME NEW n \in DOMAIN a, a[n].kind \in {"keep", "update"}, a[n].slot = s
      PROVE  Provided(d, a, r, i, s, n)
  BY SMTT(30), <1>1, <1>2, <1>4 DEF Follows
<1>5. ASSUME u > 0 PROVE Provided(d, a, r, i, s, Len(a) + 1)
  <2>1. CASE u = v
    BY SMTT(30), <1>1, <1>2, <1>5, <2>1 DEF Follows
  <2>2. CASE c.kind = "set" /\ c.slot = s
    BY SMTT(30), <1>1, <2>2 DEF Provided
  <2> QED BY <2>1, <2>2
<1>6. ASSUME NEW n \in DOMAIN a, a[n].kind = "clear", a[n].index = i
      PROVE  /\ ~Has(d, i, s) /\ s \notin k /\ ~Holding(r, s)
             /\ \A m \in DOMAIN a : m < n => a[m].slot # s
  BY SMTT(30), <1>1, <1>6 DEF Follows
<1> QED BY <1>3, <1>4, <1>5, <1>6 DEF Follows, a

(* A worker takes the first callback of its queue: it runs at once, or the *)
(* worker is in it from now on.                                            *)
LEMMA CallTaken ==
  ASSUME NEW d, NEW e, NEW q \in Seq(WorkerCalls), q # <<>>, NEW r, NEW k, NEW l, NEW i,
         NEW v \in Nat, NEW s \in Slots,
         Follows(d, q, None, k, i, v, s),
         Has(e, i, s) <=> Has(d, i, s),
         s \in l => s \in k \/ (q[1].kind = "keep" /\ q[1].slot = s),
         q[1].kind = "set" /\ q[1].slot = s => Holding(r, s) /\ r.call.kind = "set",
         Holding(r, s) => q[1].slot = s /\ r.call.kind = q[1].kind
  PROVE  Follows(e, Tail(q), r, l, i, v, s)
<1> DEFINE a == Tail(q)
<1>1. /\ Len(q) \in Nat /\ Len(q) > 0 /\ DOMAIN q = 1..Len(q)
      /\ DOMAIN a = 1..(Len(q) - 1) /\ Len(a) = Len(q) - 1
      /\ \A n \in DOMAIN a : n + 1 \in DOMAIN q /\ a[n] = q[n + 1]
  BY SMTT(30)
<1> HIDE DEF a
<1>2. ~Holding(None, s)
  BY DEF Holding
<1>3. ASSUME NEW n \in 1..Len(q), Provided(d, q, None, i, s, n + 1)
      PROVE  Provided(e, a, r, i, s, n)
  <2>1. CASE Has(d, i, s)
    BY <2>1 DEF Provided
  <2>2. CASE \E j \in DOMAIN q : j < n + 1 /\ q[j].kind = "set" /\ q[j].slot = s
    <3>1. PICK j \in DOMAIN q : j < n + 1 /\ q[j].kind = "set" /\ q[j].slot = s
      BY <2>2
    <3>2. CASE j = 1
      BY <3>1, <3>2 DEF Provided
    <3>3. CASE j > 1
      <4>1. j - 1 \in DOMAIN a /\ j - 1 < n /\ a[j - 1] = q[j]
        BY SMTT(30), <1>1, <3>1, <3>3
      <4> QED BY <3>1, <4>1 DEF Provided
    <3> QED BY SMTT(30), <1>1, <3>1, <3>2, <3>3
  <2> QED BY <1>2, <1>3, <2>1, <2>2 DEF Provided
<1>4. Provided(d, q, None, i, s, 1) => Has(d, i, s)
  BY SMTT(30), <1>1, <1>2 DEF Provided
<1>5. ASSUME s \in l \/ (Holding(r, s) /\ r.call.kind = "update") PROVE Has(e, i, s)
  <2>1. 1 \in DOMAIN q
    BY SMTT(30), <1>1
  <2>2. s \in k \/ (q[1].kind \in {"keep", "update"} /\ q[1].slot = s)
    BY <1>5
  <2> QED BY <1>4, <2>1, <2>2 DEF Follows
<1>6. ASSUME NEW n \in DOMAIN a, a[n].kind \in {"keep", "update"}, a[n].slot = s
      PROVE  Provided(e, a, r, i, s, n)
  <2>1. n \in 1..Len(q) /\ n + 1 \in DOMAIN q /\ q[n + 1] = a[n]
    BY SMTT(30), <1>1
  <2>2. Provided(d, q, None, i, s, n + 1)
    BY <1>6, <2>1 DEF Follows
  <2> QED BY <1>3, <2>1, <2>2
<1>7. ASSUME v > 0 PROVE Provided(e, a, r, i, s, Len(a) + 1)
  <2>1. Len(q) \in 1..Len(q) /\ Len(a) + 1 = Len(q)
    BY SMTT(30), <1>1
  <2>2. Provided(d, q, None, i, s, Len(q) + 1)
    BY <1>7 DEF Follows
  <2> QED BY <1>3, <2>1, <2>2
<1>8. ASSUME NEW n \in DOMAIN a, a[n].kind = "clear", a[n].index = i
      PROVE  /\ ~Has(e, i, s) /\ s \notin l /\ ~Holding(r, s)
             /\ \A m \in DOMAIN a : m < n => a[m].slot # s
  <2>1. /\ ~Has(d, i, s) /\ s \notin k
        /\ \A m \in DOMAIN q : m < n + 1 => q[m].slot # s
    BY <1>1, <1>8 DEF Follows
  <2>2. 1 \in DOMAIN q /\ 1 < n + 1
    BY SMTT(30), <1>1
  <2>3. \A m \in DOMAIN a : m < n => a[m].slot # s
    BY SMTT(30), <1>1, <2>1
  <2> QED BY <2>1, <2>2, <2>3
<1> QED BY <1>5, <1>6, <1>7, <1>8 DEF Follows, a

-----------------------------------------------------------------------------
(* What a callback does to the data of a thread *)

(* SlotImpl::set on a thread *)
LEMMA ApplySet ==
  ASSUME NEW d \in Datas, NEW c \in SetCalls, NEW N \in Nat, c.index \in 1..N, Len(d) <= N
  PROVE  /\ Apply(d, c) \in Datas /\ Len(Apply(d, c)) <= N
         /\ \A j, t : Has(Apply(d, c), j, t) <=> IF j = c.index THEN t = c.slot ELSE Has(d, j, t)
<1> DEFINE object == Object(c.slot, c.version)
           e == Apply(d, c)
           n == IF Len(d) < c.index THEN c.index ELSE Len(d)
<1>1. object \in Objects /\ object.slot = c.slot /\ object # None
  BY SMTT(30), ThreadLocalAssumption DEF Object, Objects, SetCalls
<1>2. e = SetThreadLocal(d, c.index, object)
  BY DEF Apply, SetCalls
<1> HIDE DEF object
<1>3. e = [j \in 1..n |-> IF j = c.index THEN object ELSE IF j <= Len(d) THEN d[j] ELSE None]
  BY <1>2 DEF SetThreadLocal
<1> HIDE DEF e
<1>4. /\ n \in Nat /\ n <= N /\ c.index \in 1..n
      /\ Len(d) \in Nat /\ DOMAIN d = 1..Len(d) /\ 1..Len(d) \subseteq 1..n
      /\ \A j \in 1..Len(d) : d[j] \in Objects \cup {None}
  BY SMTT(30) DEF Datas
<1> HIDE DEF n
<1>5. e \in Datas /\ Len(e) = n /\ DOMAIN e = 1..n
  BY SMTT(30), <1>1, <1>3, <1>4 DEF Datas
<1>6. ASSUME NEW j, NEW t
      PROVE  Has(e, j, t) <=> IF j = c.index THEN t = c.slot ELSE Has(d, j, t)
  <2>1. CASE j = c.index
    BY <1>1, <1>3, <1>4, <1>5, <2>1 DEF Has
  <2>2. CASE j # c.index
    BY SMTT(30), <1>3, <1>4, <1>5, <2>2 DEF Has
  <2> QED BY <2>1, <2>2
<1> QED BY <1>4, <1>5, <1>6 DEF e

(* SlotImpl::runOnAllThreads on a thread *)
LEMMA ApplyUpdate ==
  ASSUME NEW d \in Datas, NEW c \in UpdateCalls
  PROVE  /\ Apply(d, c) \in Datas /\ Len(Apply(d, c)) = Len(d)
         /\ \A j, t : Has(Apply(d, c), j, t) <=> Has(d, j, t)
<1> DEFINE e == Apply(d, c)
<1>1. c.kind = "update" /\ c.update \in Nat
  BY DEF UpdateCalls
<1>2. /\ DOMAIN d = 1..Len(d) /\ Len(d) \in Nat
      /\ \A j \in 1..Len(d) : d[j] \in Objects \cup {None}
  BY SMTT(30) DEF Datas
<1>3. CASE c.index <= Len(d) /\ d[c.index] # None
  <2>1. c.index \in Nat
    BY DEF UpdateCalls
  <2>2. e = [d EXCEPT ![c.index].updates = @ \cup {c.update}]
    BY <1>1, <1>3 DEF Apply
  <2>3. CASE c.index \in 1..Len(d)
    <3> DEFINE o == d[c.index]
               p == [o EXCEPT !.updates = o.updates \cup {c.update}]
    <3>1. e = [d EXCEPT ![c.index] = p]
      BY <2>2
    <3>2. o \in Objects /\ o.updates \cup {c.update} \in SUBSET Nat
      BY <1>1, <1>2, <1>3, <2>3 DEF Objects
    <3>3. p \in Objects /\ p.slot = o.slot
      <4> HIDE DEF o
      <4> QED BY <3>2 DEF Objects
    <3>4. p # None
      BY <3>3, ThreadLocalAssumption
    <3> HIDE DEF p, e
    <3>5. /\ DOMAIN e = 1..Len(d) /\ e[c.index] = p
          /\ \A j \in 1..Len(d) : j # c.index => e[j] = d[j]
      BY <1>2, <2>3, <3>1
    <3>6. e \in Datas /\ Len(e) = Len(d)
      BY SMTT(30), <1>2, <2>3, <3>1, <3>3 DEF Datas
    <3>7. ASSUME NEW j, NEW t PROVE Has(e, j, t) <=> Has(d, j, t)
      BY <1>2, <1>3, <2>3, <3>3, <3>4, <3>5 DEF Has
    <3> QED BY <3>6, <3>7 DEF e
  <2>4. CASE c.index \notin 1..Len(d)
    <3>1. e = d
      BY SMTT(30), <1>2, <2>2, <2>4 DEF Datas
    <3> QED BY <3>1
  <2> QED BY <2>3, <2>4
<1>4. CASE ~(c.index <= Len(d) /\ d[c.index] # None)
  <2>1. e = d
    BY <1>1, <1>4 DEF Apply
  <2> QED BY <2>1
<1> QED BY <1>3, <1>4

(* InstanceImpl::removeSlot on a thread *)
LEMMA ApplyClear ==
  ASSUME NEW d \in Datas, NEW c, c.kind = "clear", c.index \in Nat \ {0}
  PROVE  /\ Apply(d, c) \in Datas /\ Len(Apply(d, c)) = Len(d)
         /\ \A j, t : Has(Apply(d, c), j, t) <=> j # c.index /\ Has(d, j, t)
<1> DEFINE e == Apply(d, c)
<1>2. /\ DOMAIN d = 1..Len(d) /\ Len(d) \in Nat
      /\ \A j \in 1..Len(d) : d[j] \in Objects \cup {None}
  BY SMTT(30) DEF Datas
<1>3. CASE c.index <= Len(d)
  <2>1. e = [d EXCEPT ![c.index] = None]
    BY <1>3 DEF Apply
  <2> HIDE DEF e
  <2>2. /\ DOMAIN e = 1..Len(d) /\ e[c.index] = None
        /\ \A j \in 1..Len(d) : j # c.index => e[j] = d[j]
    BY SMTT(30), <1>2, <1>3, <2>1
  <2>3. e \in Datas /\ Len(e) = Len(d)
    BY SMTT(30), <1>2, <1>3, <2>1 DEF Datas
  <2>4. ASSUME NEW j, NEW t PROVE Has(e, j, t) <=> j # c.index /\ Has(d, j, t)
    BY <1>2, <1>3, <2>2 DEF Has
  <2> QED BY <2>3, <2>4 DEF e
<1>4. CASE ~(c.index <= Len(d))
  <2>1. e = d
    BY <1>4 DEF Apply
  <2>2. \A t : ~Has(d, c.index, t)
    BY SMTT(30), <1>2, <1>4 DEF Has
  <2> QED BY <2>1, <2>2
<1> QED BY <1>3, <1>4

(* The data keeps the indexes of the slots. *)
LEMMA DataApplied ==
  ASSUME NEW d, NEW c, NEW idx, NEW N \in Nat, DataOK(d, idx, N),
         \/ c \in SetCalls /\ c.index \in 1..N /\ idx[c.slot] = c.index
         \/ c \in UpdateCalls
         \/ c.kind = "clear" /\ c.index \in Nat \ {0}
  PROVE  DataOK(Apply(d, c), idx, N)
<1>1. d \in Datas /\ Len(d) <= N /\ Len(d) \in Nat
  BY SMTT(30) DEF DataOK, Datas
<1>2. \A j, t : Has(d, j, t) => j \in DOMAIN d
  BY DEF Has
<1>3. CASE c \in SetCalls /\ c.index \in 1..N /\ idx[c.slot] = c.index
  <2>1. /\ Apply(d, c) \in Datas /\ Len(Apply(d, c)) <= N
        /\ \A j, t : Has(Apply(d, c), j, t) =>
             (j = c.index /\ t = c.slot) \/ (j \in DOMAIN d /\ Has(d, j, t))
    BY <1>1, <1>2, <1>3, ApplySet
  <2> QED BY <1>3, <2>1 DEF DataOK
<1>4. CASE c \in UpdateCalls
  BY <1>1, <1>2, <1>4, ApplyUpdate DEF DataOK
<1>5. CASE c.kind = "clear" /\ c.index \in Nat \ {0}
  BY <1>1, <1>2, <1>5, ApplyClear DEF DataOK
<1> QED BY <1>3, <1>4, <1>5

-----------------------------------------------------------------------------
(* Queues and references *)

(* A callback is posted. *)
LEMMA QueuePosted ==
  ASSUME NEW q, NEW c, NEW idx, QueueOK(q, idx), CallOK(c, idx)
  PROVE  QueueOK(Append(q, c), idx)
<1>1. /\ Append(q, c) \in Seq(WorkerCalls) /\ DOMAIN Append(q, c) = DOMAIN q \cup {Len(q) + 1}
      /\ Append(q, c)[Len(q) + 1] = c /\ \A n \in DOMAIN q : Append(q, c)[n] = q[n]
  BY SMTT(30) DEF QueueOK, CallOK
<1> QED BY <1>1 DEF QueueOK

(* The first callback is taken. *)
LEMMA QueueTaken ==
  ASSUME NEW q, q # <<>>, NEW idx, QueueOK(q, idx)
  PROVE  /\ QueueOK(Tail(q), idx) /\ CallOK(q[1], idx) /\ Head(q) = q[1]
         /\ 1 \in DOMAIN q /\ q \in Seq(WorkerCalls)
<1>1. q \in Seq(WorkerCalls)
  BY DEF QueueOK
<1>2. /\ Tail(q) \in Seq(WorkerCalls) /\ Head(q) = q[1] /\ 1 \in DOMAIN q
      /\ \A n \in DOMAIN Tail(q) : n + 1 \in DOMAIN q /\ Tail(q)[n] = q[n + 1]
  BY SMTT(30), <1>1
<1> QED BY <1>1, <1>2 DEF QueueOK

(* A worker that keeps k, is in r and has queue q refers to slot s. *)
Refers(k, r, q, s) ==
  s \in k \/ Holding(r, s) \/ \E n \in DOMAIN q : q[n].kind = "keep" /\ q[n].slot = s

(* Only a keep callback is a reference. *)
LEMMA RefersPosted ==
  ASSUME NEW q \in Seq(WorkerCalls), NEW c \in WorkerCalls, NEW k, NEW r, NEW s
  PROVE  Refers(k, r, Append(q, c), s) <=>
           Refers(k, r, q, s) \/ (c.kind = "keep" /\ c.slot = s)
<1>1. /\ DOMAIN Append(q, c) = DOMAIN q \cup {Len(q) + 1} /\ Append(q, c)[Len(q) + 1] = c
      /\ \A n \in DOMAIN q : Append(q, c)[n] = q[n]
  BY SMTT(30)
<1> QED BY <1>1 DEF Refers

(* The reference of a keep callback goes to the worker. *)
LEMMA RefersTaken ==
  ASSUME NEW q \in Seq(WorkerCalls), q # <<>>, NEW k, NEW r, NEW s
  PROVE  Refers(k, r, q, s) <=>
           Refers(k, r, Tail(q), s) \/ (q[1].kind = "keep" /\ q[1].slot = s)
<1>1. /\ \A n \in DOMAIN Tail(q) : n + 1 \in DOMAIN q /\ Tail(q)[n] = q[n + 1]
      /\ \A n \in DOMAIN q : n = 1 \/ (n - 1 \in DOMAIN Tail(q) /\ Tail(q)[n - 1] = q[n])
      /\ 1 \in DOMAIN q
  BY SMTT(30)
<1> QED BY <1>1 DEF Refers

(* The references to a slot, thread by thread *)
LEMMA ReferencedBy ==
  ASSUME NEW s, NEW own, NEW keep, NEW run, NEW q
  PROVE  Referenced(s, own, keep, run, q) <=>
           s \in own \/ \E w \in Workers : Refers(keep[w], run[w], q[w], s)
  BY DEF Referenced, Refers, Holding

(* The slots that are live do not change with the places their references  *)
(* are in.                                                                 *)
LEMMA LiveStays ==
  ASSUME owner' = owner,
         \A w \in Workers : \A s \in Slots :
           Refers(kept'[w], running'[w], queue'[w], s) <=> Refers(kept[w], running[w], queue[w], s)
  PROVE  Live' = Live
<1>1. ASSUME NEW s \in Slots PROVE s \in Live' <=> s \in Live
  <2>1. s \in Live <=> s \in owner \/ \E w \in Workers : Refers(kept[w], running[w], queue[w], s)
    BY ReferencedBy DEF Live, Alive
  <2>2. s \in Live' <=> s \in owner' \/ \E w \in Workers : Refers(kept'[w], running'[w], queue'[w], s)
    BY ReferencedBy DEF Live, Alive
  <2> QED BY <2>1, <2>2
<1>2. Live \subseteq Slots /\ Live' \subseteq Slots
  BY DEF Live
<1> QED BY <1>1, <1>2

(* A slot that loses its last reference dies; no other does. *)
LEMMA LiveLoses ==
  ASSUME NEW s, owner \ {s} \subseteq owner', owner' \subseteq owner,
         \A w \in Workers : \A t \in Slots :
           /\ Refers(kept'[w], running'[w], queue'[w], t) => Refers(kept[w], running[w], queue[w], t)
           /\ Refers(kept[w], running[w], queue[w], t) /\ t # s =>
                Refers(kept'[w], running'[w], queue'[w], t)
  PROVE  Live' = IF s \in Slots /\ Referenced(s, owner', kept', running', queue') THEN Live ELSE Live \ {s}
<1>1. ASSUME NEW t \in Slots
      PROVE  /\ t \in Live' => t \in Live
             /\ t \in Live /\ t # s => t \in Live'
             /\ t \in Live' <=> Referenced(t, owner', kept', running', queue')
  <2>1. t \in Live <=> t \in owner \/ \E w \in Workers : Refers(kept[w], running[w], queue[w], t)
    BY ReferencedBy DEF Live, Alive
  <2>2. t \in Live' <=> t \in owner' \/ \E w \in Workers : Refers(kept'[w], running'[w], queue'[w], t)
    BY ReferencedBy DEF Live, Alive
  <2>3. t \in Live' <=> Referenced(t, owner', kept', running', queue')
    BY DEF Live, Alive
  <2> QED BY <2>1, <2>2, <2>3
<1>2. Live \subseteq Slots /\ Live' \subseteq Slots
  BY DEF Live
<1> QED BY <1>1, <1>2

(* A slot a worker keeps or is in a callback of is live. *)
LEMMA ReferredIsLive ==
  ASSUME NEW w \in Workers, NEW s \in Slots, Refers(kept[w], running[w], queue[w], s)
  PROVE  s \in Live
  BY ReferencedBy DEF Live, Alive

-----------------------------------------------------------------------------
(* The queue of the main thread *)

(* A callback is posted to the main thread. *)
LEMMA MainPosted ==
  ASSUME NEW q \in Seq(MainCalls), NEW c \in MainCalls
  PROVE  /\ Append(q, c) \in Seq(MainCalls)
         /\ \A i : Removals(Append(q, c), i) =
              IF c.kind = "remove" /\ c.index = i THEN Removals(q, i) \cup {Len(q) + 1}
              ELSE Removals(q, i)
         /\ \A u : Completing(Append(q, c), u) =
              IF c.kind = "complete" /\ c.update = u THEN Completing(q, u) \cup {Len(q) + 1}
              ELSE Completing(q, u)
<1>1. /\ Append(q, c) \in Seq(MainCalls) /\ DOMAIN Append(q, c) = DOMAIN q \cup {Len(q) + 1}
      /\ Append(q, c)[Len(q) + 1] = c /\ \A n \in DOMAIN q : Append(q, c)[n] = q[n]
      /\ Len(q) + 1 \notin DOMAIN q
  BY SMTT(30)
<1> DEFINE a == Append(q, c)
<1> HIDE DEF a
<1>2. /\ DOMAIN a = DOMAIN q \cup {Len(q) + 1}
      /\ a[Len(q) + 1] = c /\ \A n \in DOMAIN q : a[n] = q[n]
  BY <1>1 DEF a
<1>3. ASSUME NEW i
      PROVE  Removals(a, i) = IF c.kind = "remove" /\ c.index = i THEN Removals(q, i) \cup {Len(q) + 1}
                              ELSE Removals(q, i)
  BY <1>2 DEF Removals
<1>4. ASSUME NEW u
      PROVE  Completing(a, u) = IF c.kind = "complete" /\ c.update = u THEN Completing(q, u) \cup {Len(q) + 1}
                                ELSE Completing(q, u)
  BY <1>2 DEF Completing
<1> QED BY <1>1, <1>3, <1>4 DEF a

(* The main thread takes its first callback. *)
LEMMA MainTaken ==
  ASSUME NEW q \in Seq(MainCalls), q # <<>>
  PROVE  /\ Tail(q) \in Seq(MainCalls) /\ Head(q) = q[1] /\ q[1] \in MainCalls /\ 1 \in DOMAIN q
         /\ \A n \in DOMAIN Tail(q) : n + 1 \in DOMAIN q /\ Tail(q)[n] = q[n + 1]
         /\ \A i : /\ AtMostOne(Removals(q, i)) => AtMostOne(Removals(Tail(q), i))
                   /\ 1 \notin Removals(q, i) => (Removals(Tail(q), i) = {} <=> Removals(q, i) = {})
                   /\ 1 \in Removals(q, i) /\ AtMostOne(Removals(q, i)) => Removals(Tail(q), i) = {}
         /\ \A u : /\ AtMostOne(Completing(q, u)) => AtMostOne(Completing(Tail(q), u))
                   /\ 1 \notin Completing(q, u) => (Completing(Tail(q), u) = {} <=> Completing(q, u) = {})
                   /\ 1 \in Completing(q, u) /\ AtMostOne(Completing(q, u)) => Completing(Tail(q), u) = {}
<1> DEFINE a == Tail(q)
<1>1. /\ a \in Seq(MainCalls) /\ Head(q) = q[1] /\ q[1] \in MainCalls /\ 1 \in DOMAIN q
      /\ DOMAIN a = 1..(Len(q) - 1) /\ DOMAIN q = 1..Len(q) /\ Len(q) \in Nat
      /\ \A n \in DOMAIN a : n + 1 \in DOMAIN q /\ a[n] = q[n + 1]
      /\ \A n \in DOMAIN q : n # 1 => n - 1 \in DOMAIN a /\ a[n - 1] = q[n] /\ (n - 1) + 1 = n
  BY SMTT(30)
<1> HIDE DEF a
<1>2. ASSUME NEW S, NEW T, S \subseteq DOMAIN q, T \subseteq DOMAIN a,
             \A n \in DOMAIN a : n \in T <=> n + 1 \in S
      PROVE  /\ AtMostOne(S) => AtMostOne(T)
             /\ 1 \notin S => (T = {} <=> S = {})
             /\ 1 \in S /\ AtMostOne(S) => T = {}
  <2>1. ASSUME AtMostOne(S) PROVE AtMostOne(T)
    <3>1. ASSUME NEW x \in T, NEW y \in T PROVE x = y
      <4>1. x + 1 = y + 1
        BY <1>2, <2>1 DEF AtMostOne
      <4>2. x \in Int /\ y \in Int
        BY SMTT(30), <1>1, <1>2
      <4> QED BY SMTT(30), <4>1, <4>2
    <3> QED BY <3>1 DEF AtMostOne
  <2>2. ASSUME 1 \notin S PROVE T = {} <=> S = {}
    <3>1. ASSUME NEW n \in S PROVE n - 1 \in T
      BY <1>1, <1>2, <2>2, <3>1
    <3> QED BY <1>2, <3>1
  <2>3. ASSUME 1 \in S, AtMostOne(S) PROVE T = {}
    <3>1. ASSUME NEW n \in T PROVE FALSE
      <4>1. n + 1 = 1
        BY <1>2, <2>3 DEF AtMostOne
      <4> QED BY SMTT(30), <1>1, <1>2, <4>1
    <3> QED BY <3>1
  <2> QED BY <2>1, <2>2, <2>3
<1>3. ASSUME NEW i PROVE /\ Removals(q, i) \subseteq DOMAIN q /\ Removals(a, i) \subseteq DOMAIN a
                         /\ \A n \in DOMAIN a : n \in Removals(a, i) <=> n + 1 \in Removals(q, i)
  BY <1>1 DEF Removals
<1>4. ASSUME NEW u PROVE /\ Completing(q, u) \subseteq DOMAIN q /\ Completing(a, u) \subseteq DOMAIN a
                         /\ \A n \in DOMAIN a : n \in Completing(a, u) <=> n + 1 \in Completing(q, u)
  BY <1>1 DEF Completing
<1>5. \A i : /\ AtMostOne(Removals(q, i)) => AtMostOne(Removals(a, i))
             /\ 1 \notin Removals(q, i) => (Removals(a, i) = {} <=> Removals(q, i) = {})
             /\ 1 \in Removals(q, i) /\ AtMostOne(Removals(q, i)) => Removals(a, i) = {}
  BY <1>2, <1>3
<1>6. \A u : /\ AtMostOne(Completing(q, u)) => AtMostOne(Completing(a, u))
             /\ 1 \notin Completing(q, u) => (Completing(a, u) = {} <=> Completing(q, u) = {})
             /\ 1 \in Completing(q, u) /\ AtMostOne(Completing(q, u)) => Completing(a, u) = {}
  BY <1>2, <1>4
<1> QED BY <1>1, <1>5, <1>6 DEF a

-----------------------------------------------------------------------------
(* Steps that leave parts alone *)

(* Nothing but worker w and the queue of the main thread changes. *)
OnlyWorker(w) ==
  /\ slotAt' = slotAt /\ free' = free /\ index' = index /\ version' = version
  /\ registered' = registered /\ shutdown' = shutdown /\ stopped' = stopped
  /\ owner' = owner /\ updates' = updates /\ completed' = completed
  /\ DOMAIN queue' = Threads /\ DOMAIN data' = Threads /\ data'[Main] = data[Main]
  /\ kept' \in [Workers -> SUBSET Slots] /\ running' \in [Workers -> Runs \cup {None}]
  /\ \A v \in Workers : v # w =>
       data'[v] = data[v] /\ queue'[v] = queue[v] /\ running'[v] = running[v] /\ kept'[v] = kept[v]

(* A step of one worker keeps what is said of the workers. *)
LEMMA WorkerAlone ==
  ASSUME IInv, NEW w \in registered, OnlyWorker(w), Live' \subseteq Live,
         DataOK(data'[w], index, Len(slotAt)), QueueOK(queue'[w], index),
         RunOK(running'[w], index), KeptOK(kept'[w], index),
         w \notin stopped => \A s \in Live' :
           Follows(data'[w], queue'[w], running'[w], kept'[w], index[s], version[s], s)
  PROVE  SlotsOK' /\ ThreadsOK' /\ Places' /\ Own'
<1>1. SlotsOK'
  BY DEF IInv, SlotsOK, OnlyWorker
<1>2. Places'
  BY DEF IInv, Places, OnlyWorker
<1>3. Own'
  <2>1. registered \subseteq Workers
    BY DEF IInv, SlotsOK
  <2>2. ASSUME NEW v \in registered \ stopped, NEW s \in Live'
        PROVE  Follows(data'[v], queue'[v], running'[v], kept'[v], index[s], version[s], s)
    <3>1. CASE v = w
      BY <3>1
    <3>2. CASE v # w
      BY <2>1, <3>2 DEF IInv, Own, OnlyWorker
    <3> QED BY <3>1, <3>2
  <2> QED BY <2>2 DEF Own, OnlyWorker
<1>4. ThreadsOK'
  <2>1. ASSUME NEW v \in Workers
        PROVE  /\ DataOK(data'[v], index, Len(slotAt)) /\ QueueOK(queue'[v], index)
               /\ RunOK(running'[v], index) /\ KeptOK(kept'[v], index)
    <3>1. CASE v = w
      BY <3>1
    <3>2. CASE v # w
      BY <3>2 DEF IInv, ThreadsOK, OnlyWorker
    <3> QED BY <3>1, <3>2
  <2>2. ASSUME NEW v \in Workers \ registered
        PROVE  queue'[v] = <<>> /\ data'[v] = <<>> /\ running'[v] = None /\ kept'[v] = {}
    BY DEF IInv, ThreadsOK, OnlyWorker
  <2> QED BY <2>1, <2>2 DEF IInv, ThreadsOK, OnlyWorker
<1> QED BY <1>1, <1>2, <1>3, <1>4

(* The indexes keep their holders. *)
LEMMA AccountedStays ==
  ASSUME Accounted, shutdown' = shutdown, slotAt' = slotAt, free' = free, index' = index,
         Live' = Live, \A i : Removals(queue'[Main], i) = Removals(queue[Main], i),
         \A i : Posters(i)' = Posters(i)
  PROVE  Accounted'
<1>1. \A i : FreeAt(i)' = FreeAt(i)
  BY DEF FreeAt
<1> QED BY <1>1 DEF Accounted

(* Who is about to post the removal of index i, when worker w goes on *)
LEMMA PostersOf ==
  ASSUME NEW w \in Workers, OnlyWorker(w), NEW i
  PROVE  Posters(i)' = IF running'[w] # None /\ running'[w].done /\ running'[w].call.index = i
                       THEN (Posters(i) \ {w}) \cup {w} ELSE Posters(i) \ {w}
<1>1. \A v \in Workers : v # w => running'[v] = running[v]
  BY DEF OnlyWorker
<1> QED BY <1>1 DEF Posters

(* Nothing is completed, and no copy of an update appears. *)
LEMMA CompletionsStay ==
  ASSUME Completions, updates' = updates, completed' = completed,
         \A u \in Nat : Completing(queue'[Main], u) = Completing(queue[Main], u),
         \A w \in Workers : \A u \in Nat :
           HasGuard(running'[w], queue'[w], u) => HasGuard(running[w], queue[w], u)
  PROVE  Completions'
  BY DEF Completions

(* A posted callback is a copy of its update. *)
LEMMA GuardPosted ==
  ASSUME NEW q \in Seq(WorkerCalls), NEW c \in WorkerCalls, NEW r, NEW u
  PROVE  HasGuard(r, Append(q, c), u) =>
           HasGuard(r, q, u) \/ (c.kind = "update" /\ c.guarded /\ c.update = u)
<1>1. /\ DOMAIN Append(q, c) = DOMAIN q \cup {Len(q) + 1} /\ Append(q, c)[Len(q) + 1] = c
      /\ \A n \in DOMAIN q : Append(q, c)[n] = q[n]
  BY SMTT(30)
<1> QED BY <1>1 DEF HasGuard

(* A worker enters a copy of its queue. *)
LEMMA GuardTaken ==
  ASSUME NEW q \in Seq(WorkerCalls), q # <<>>, NEW r, r # None => r.call = q[1], NEW u,
         HasGuard(r, Tail(q), u)
  PROVE  HasGuard(None, q, u)
<1>1. /\ \A n \in DOMAIN Tail(q) : n + 1 \in DOMAIN q /\ Tail(q)[n] = q[n + 1]
      /\ 1 \in DOMAIN q
  BY SMTT(30)
<1> QED BY <1>1 DEF HasGuard

(* The updates of which a worker has a copy *)
LEMMA GuardedBy ==
  ASSUME NEW u, NEW run, NEW q
  PROVE  Guarded(u, run, q) <=> \E w \in Workers : HasGuard(run[w], q[w], u)
  BY DEF Guarded, HasGuard

-----------------------------------------------------------------------------
(* The workers *)

(* What is known of a worker *)
LEMMA WorkerFacts ==
  ASSUME IInv, NEW w \in Workers
  PROVE  /\ DataOK(data[w], index, Len(slotAt)) /\ QueueOK(queue[w], index)
         /\ RunOK(running[w], index) /\ KeptOK(kept[w], index)
         /\ DOMAIN queue = Threads /\ DOMAIN data = Threads
         /\ kept \in [Workers -> SUBSET Slots] /\ running \in [Workers -> Runs \cup {None}]
         /\ w \in Threads /\ Main \in Threads /\ w # Main
         /\ queue[w] \in Seq(WorkerCalls) /\ queue[Main] \in Seq(MainCalls)
         /\ w \notin registered =>
              queue[w] = <<>> /\ data[w] = <<>> /\ running[w] = None /\ kept[w] = {}
         /\ index \in [Slots -> 0..Len(slotAt)] /\ version \in [Slots -> 0..MaxSets]
         /\ Len(slotAt) \in Nat /\ Live \subseteq Slots
<1>1. w \in Threads /\ Main \in Threads /\ w # Main
  BY SMTT(30), ThreadLocalAssumption DEF Threads, Workers, Main
<1>2. Live \subseteq Slots /\ Len(slotAt) \in Nat
  BY SMTT(30) DEF Live, IInv, SlotsOK
<1> QED BY <1>1, <1>2 DEF IInv, ThreadsOK, SlotsOK, MainOK, QueueOK

(* One worker's references stay where they are or move within the worker. *)
LEMMA LiveAlone ==
  ASSUME NEW w \in Workers, OnlyWorker(w),
         \A s \in Slots : Refers(kept'[w], running'[w], queue'[w], s) <=>
                          Refers(kept[w], running[w], queue[w], s)
  PROVE  Live' = Live
<1>1. owner' = owner
  BY DEF OnlyWorker
<1>2. ASSUME NEW v \in Workers, NEW s \in Slots
      PROVE  Refers(kept'[v], running'[v], queue'[v], s) <=> Refers(kept[v], running[v], queue[v], s)
  BY DEF OnlyWorker
<1> QED BY <1>1, <1>2, LiveStays

(* runPostCallbacks takes the first callback of a worker's queue. *)
LEMMA TakenKeeps ==
  ASSUME IInv, NEW w \in registered \ stopped, OnlyWorker(w),
         running[w] = None, queue[w] # <<>>,
         queue'[w] = Tail(queue[w]), queue'[Main] = queue[Main],
         running'[w] # None => running'[w].call = queue[w][1] /\ ~running'[w].done,
         DataOK(data'[w], index, Len(slotAt)), RunOK(running'[w], index), KeptOK(kept'[w], index),
         Live' = Live,
         \A s \in Live :
           /\ Has(data'[w], index[s], s) <=> Has(data[w], index[s], s)
           /\ s \in kept'[w] => s \in kept[w] \/ (queue[w][1].kind = "keep" /\ queue[w][1].slot = s)
           /\ queue[w][1].kind = "set" /\ queue[w][1].slot = s =>
                Holding(running'[w], s) /\ running'[w].call.kind = "set"
  PROVE  IInv'
<1>1. w \in Workers
  BY DEF IInv, SlotsOK
<1>2. /\ QueueOK(queue[w], index) /\ queue[w] \in Seq(WorkerCalls) /\ Live \subseteq Slots
      /\ version \in [Slots -> 0..MaxSets]
  <2>1. QueueOK(queue[w], index) /\ queue[w] \in Seq(WorkerCalls)
    BY <1>1 DEF IInv, ThreadsOK, QueueOK
  <2>2. Live \subseteq Slots
    BY DEF Live
  <2> QED BY <2>1, <2>2 DEF IInv, SlotsOK
<1>3. ASSUME NEW s \in Live
      PROVE  Follows(data'[w], queue'[w], running'[w], kept'[w], index[s], version[s], s)
  <2>1. s \in Slots /\ version[s] \in Nat
    BY SMTT(30), <1>2, ThreadLocalAssumption
  <2>2. Follows(data[w], queue[w], None, kept[w], index[s], version[s], s)
    BY DEF IInv, Own
  <2>3. Holding(running'[w], s) => queue[w][1].slot = s /\ running'[w].call.kind = queue[w][1].kind
    BY DEF Holding
  <2> QED BY SMTT(30), <1>2, <2>1, <2>2, <2>3, CallTaken
<1>4. SlotsOK' /\ ThreadsOK' /\ Places' /\ Own'
  <2>1. QueueOK(queue'[w], index)
    BY <1>2, QueueTaken
  <2> QED BY <1>3, <2>1, WorkerAlone
<1>5. Accounted'
  <2>1. \A i : Posters(i)' = Posters(i)
    <3>1. ASSUME NEW i PROVE Posters(i)' = Posters(i) \ {w}
      BY <1>1, PostersOf
    <3>2. \A i : w \notin Posters(i)
      BY DEF Posters
    <3>3. \A i : Posters(i) \ {w} = Posters(i)
      BY <3>2
    <3> QED BY <3>1, <3>3
  <2> QED BY <2>1, AccountedStays DEF IInv, OnlyWorker
<1>6. Completions'
  <2>1. ASSUME NEW v \in Workers, NEW u \in Nat, HasGuard(running'[v], queue'[v], u)
        PROVE  HasGuard(running[v], queue[v], u)
    <3>1. CASE v = w
      <4>1. HasGuard(running'[w], Tail(queue[w]), u)
        BY <2>1, <3>1
      <4>2. running'[w] # None => running'[w].call = queue[w][1]
        OBVIOUS
      <4>3. HasGuard(None, queue[w], u)
        BY <1>2, <4>1, <4>2, GuardTaken
      <4> QED BY <3>1, <4>3
    <3>2. CASE v # w
      BY <2>1, <3>2 DEF OnlyWorker
    <3> QED BY <3>1, <3>2
  <2> QED BY <2>1, CompletionsStay DEF IInv, OnlyWorker
<1>7. MainOK'
  BY DEF IInv, MainOK, OnlyWorker
<1> QED BY <1>4, <1>5, <1>6, <1>7 DEF IInv

(* A keep or a clear callback *)
LEMMA RunPlainCallbackKeeps ==
  ASSUME IInv, NEW w \in Workers, RunPlainCallback(w)
  PROVE  IInv'
<1> DEFINE c == queue[w][1]
<1>1. /\ w \in registered \ stopped /\ running[w] = None /\ queue[w] # <<>>
      /\ \/ /\ Head(queue[w]).kind = "keep" /\ data' = data
            /\ kept' = [kept EXCEPT ![w] = @ \cup {Head(queue[w]).slot}]
         \/ /\ Head(queue[w]).kind = "clear" /\ kept' = kept
            /\ data' = [data EXCEPT ![w] = Apply(@, Head(queue[w]))]
      /\ queue' = [queue EXCEPT ![w] = Tail(@)]
      /\ slotAt' = slotAt /\ free' = free /\ index' = index /\ version' = version
      /\ registered' = registered /\ shutdown' = shutdown /\ stopped' = stopped
      /\ running' = running /\ owner' = owner /\ updates' = updates /\ completed' = completed
  BY DEF RunPlainCallback, slotVars, threadVars, historyVars
<1>2. /\ DataOK(data[w], index, Len(slotAt)) /\ QueueOK(queue[w], index)
      /\ RunOK(running[w], index) /\ KeptOK(kept[w], index)
      /\ DOMAIN queue = Threads /\ DOMAIN data = Threads
      /\ kept \in [Workers -> SUBSET Slots] /\ running \in [Workers -> Runs \cup {None}]
      /\ w \in Threads /\ Main \in Threads /\ w # Main
      /\ Len(slotAt) \in Nat /\ Live \subseteq Slots
  BY WorkerFacts
<1>3. /\ Head(queue[w]) = c /\ CallOK(c, index) /\ queue[w] \in Seq(WorkerCalls)
      /\ queue[w] # <<>>
  BY <1>1, <1>2, QueueTaken
<1> HIDE DEF c
<1>4. /\ queue'[w] = Tail(queue[w]) /\ queue'[Main] = queue[Main] /\ DOMAIN queue' = Threads
      /\ \A v \in Workers : v # w => queue'[v] = queue[v]
  BY <1>1, <1>2 DEF Threads
<1>5. c.kind = "keep" => c.slot \in Slots /\ index[c.slot] # 0
  <2>1. c.kind = "keep" => c \in KeepCalls /\ c.slot # None
    BY <1>3, ThreadLocalAssumption
    DEF CallOK, WorkerCalls, SetCalls, UpdateCalls, ClearCalls, KeepCalls
  <2> QED BY <1>3, <2>1 DEF CallOK, KeepCalls
<1>6. c.kind = "clear" => c.index \in Nat \ {0} /\ c.slot = None
  BY <1>3 DEF CallOK, WorkerCalls, SetCalls, UpdateCalls, ClearCalls, KeepCalls
<1>7. CASE /\ c.kind = "keep" /\ data' = data
           /\ kept' = [kept EXCEPT ![w] = @ \cup {c.slot}]
  <2>1. /\ kept'[w] = kept[w] \cup {c.slot} /\ kept' \in [Workers -> SUBSET Slots]
        /\ \A v \in Workers : v # w => kept'[v] = kept[v]
    BY <1>2, <1>5, <1>7
  <2>2. OnlyWorker(w)
    BY <1>1, <1>2, <1>4, <1>7, <2>1 DEF OnlyWorker
  <2>3. KeptOK(kept'[w], index)
    BY <1>2, <1>5, <1>7, <2>1 DEF KeptOK
  <2>4. ASSUME NEW s \in Slots
        PROVE  Refers(kept'[w], None, Tail(queue[w]), s) <=> Refers(kept[w], None, queue[w], s)
    <3>1. Refers(kept[w], None, queue[w], s) <=>
            Refers(kept[w], None, Tail(queue[w]), s) \/ (c.kind = "keep" /\ c.slot = s)
      BY <1>3, RefersTaken DEF c
    <3> QED BY <1>7, <2>1, <3>1 DEF Refers
  <2>5. Live' = Live
    BY <1>1, <1>4, <2>2, <2>4, LiveAlone
  <2> QED BY <1>1, <1>2, <1>4, <1>7, <2>1, <2>2, <2>3, <2>5, TakenKeeps DEF c
<1>8. CASE /\ c.kind = "clear" /\ kept' = kept
           /\ data' = [data EXCEPT ![w] = Apply(@, c)]
  <2>1. /\ data'[w] = Apply(data[w], c) /\ DOMAIN data' = Threads /\ data'[Main] = data[Main]
        /\ \A v \in Workers : v # w => data'[v] = data[v]
    BY <1>2, <1>8 DEF Threads
  <2>2. OnlyWorker(w)
    BY <1>1, <1>2, <1>4, <1>8, <2>1 DEF OnlyWorker
  <2>3. DataOK(data'[w], index, Len(slotAt))
    BY <1>2, <1>6, <1>8, <2>1, DataApplied
  <2>4. ASSUME NEW s \in Slots
        PROVE  Refers(kept'[w], None, Tail(queue[w]), s) <=> Refers(kept[w], None, queue[w], s)
    <3>1. Refers(kept[w], None, queue[w], s) <=>
            Refers(kept[w], None, Tail(queue[w]), s) \/ (c.kind = "keep" /\ c.slot = s)
      BY <1>3, RefersTaken DEF c
    <3>2. "clear" # "keep"
      OBVIOUS
    <3> QED BY <1>8, <3>1, <3>2
  <2>5. ASSUME NEW s \in Live
        PROVE  Has(data'[w], index[s], s) <=> Has(data[w], index[s], s)
    <3>1. data[w] \in Datas
      BY <1>2 DEF DataOK
    <3>2. Has(data'[w], index[s], s) <=> index[s] # c.index /\ Has(data[w], index[s], s)
      BY SMTT(30), <1>6, <1>8, <2>1, <3>1, ApplyClear
    <3>3. c.index = index[s] => ~Has(data[w], index[s], s)
      <4>1. Follows(data[w], queue[w], running[w], kept[w], index[s], version[s], s)
        BY <1>1 DEF IInv, Own
      <4>2. 1 \in DOMAIN queue[w]
        BY SMTT(30), <1>3
      <4> QED BY <1>8, <4>1, <4>2 DEF Follows, c
    <3> QED BY <3>2, <3>3
  <2>6. c.kind # "set"
    BY <1>8
  <2>7. Live' = Live
    BY <1>1, <1>4, <2>2, <2>4, LiveAlone
  <2> QED BY <1>1, <1>2, <1>4, <1>8, <2>2, <2>3, <2>5, <2>6, <2>7, TakenKeeps DEF c
<1> QED BY <1>1, <1>3, <1>7, <1>8

(* The callback of a slot, whose wrapper locks its weak reference *)
LEMMA BeginCallbackKeeps ==
  ASSUME IInv, NEW w \in Workers, BeginCallback(w)
  PROVE  IInv'
<1> DEFINE c == queue[w][1]
           r == [call |-> c, locked |-> Alive(c.slot), done |-> FALSE]
<1>1. /\ w \in registered \ stopped /\ running[w] = None /\ queue[w] # <<>>
      /\ Head(queue[w]).kind \in {"set", "update"}
      /\ running' = [running EXCEPT ![w] = [call |-> Head(queue[w]),
                       locked |-> Alive(Head(queue[w]).slot), done |-> FALSE]]
      /\ queue' = [queue EXCEPT ![w] = Tail(@)]
      /\ slotAt' = slotAt /\ free' = free /\ index' = index /\ version' = version
      /\ registered' = registered /\ shutdown' = shutdown /\ stopped' = stopped
      /\ data' = data /\ kept' = kept /\ owner' = owner
      /\ updates' = updates /\ completed' = completed
  BY DEF BeginCallback, slotVars, threadVars, historyVars
<1>2. /\ DataOK(data[w], index, Len(slotAt)) /\ QueueOK(queue[w], index)
      /\ KeptOK(kept[w], index)
      /\ DOMAIN queue = Threads /\ DOMAIN data = Threads
      /\ kept \in [Workers -> SUBSET Slots] /\ running \in [Workers -> Runs \cup {None}]
      /\ w \in Threads /\ Main \in Threads /\ w # Main
  BY WorkerFacts
<1>3. Head(queue[w]) = c /\ CallOK(c, index) /\ queue[w] \in Seq(WorkerCalls)
  BY <1>1, <1>2, QueueTaken
<1>4. /\ c.kind \in {"set", "update"} /\ running' = [running EXCEPT ![w] = r]
  BY <1>1, <1>3
<1> HIDE DEF c
<1>5. c \in SetCalls \cup UpdateCalls /\ c.slot \in Slots /\ c.slot # None
  BY <1>3, <1>4, ThreadLocalAssumption
  DEF CallOK, WorkerCalls, SetCalls, UpdateCalls, ClearCalls, KeepCalls
<1>6. /\ c.index = index[c.slot] /\ index[c.slot] # 0 /\ c.kind \notin {"keep", "drop"}
  BY <1>3, <1>4, <1>5 DEF CallOK
<1>7. r \in Runs /\ r # None /\ r.call = c /\ ~r.done /\ (r.locked <=> Alive(c.slot))
  <2>1. Alive(c.slot) \in BOOLEAN
    BY DEF Alive, Referenced
  <2>2. r \in Runs
    BY <1>5, <2>1 DEF Runs
  <2>3. r # None
    BY <2>2, ThreadLocalAssumption
  <2> QED BY <2>2, <2>3
<1> HIDE DEF r
<1>8. /\ queue'[w] = Tail(queue[w]) /\ queue'[Main] = queue[Main] /\ DOMAIN queue' = Threads
      /\ running'[w] = r /\ running' \in [Workers -> Runs \cup {None}]
      /\ \A v \in Workers : v # w => queue'[v] = queue[v] /\ running'[v] = running[v]
  <2>1. r \in Runs /\ queue' = [queue EXCEPT ![w] = Tail(@)]
    BY <1>1, <1>7
  <2> QED BY <1>2, <1>4, <2>1 DEF Threads
<1>9. OnlyWorker(w)
  BY <1>1, <1>2, <1>8 DEF OnlyWorker
<1>10. RunOK(r, index)
  BY <1>6, <1>7 DEF RunOK
<1>11. ASSUME NEW s PROVE Holding(r, s) <=> c.slot = s /\ Alive(s)
  BY <1>7 DEF Holding
<1>12. Live' = Live
  <2>1. ASSUME NEW s \in Slots PROVE s \in Live' <=> s \in Live
    <3>1. s \in Live <=> s \in owner \/ \E v \in Workers : Refers(kept[v], running[v], queue[v], s)
      BY ReferencedBy DEF Live, Alive
    <3>2. s \in Live' <=> s \in owner' \/ \E v \in Workers : Refers(kept'[v], running'[v], queue'[v], s)
      BY ReferencedBy DEF Live, Alive
    <3>3. Holding(r, s) => s \in Live
      BY <1>11 DEF Live
    <3>4. Refers(kept[w], None, queue[w], s) <=> Refers(kept[w], None, Tail(queue[w]), s)
      BY <1>1, <1>3, <1>6, RefersTaken DEF c
    <3>5. Refers(kept'[w], running'[w], queue'[w], s) <=>
            Refers(kept[w], running[w], queue[w], s) \/ Holding(r, s)
      <4>1. ~Holding(None, s)
        BY DEF Holding
      <4> QED BY <1>1, <1>8, <3>4, <4>1 DEF Refers
    <3>6. ASSUME NEW v \in Workers, v # w
          PROVE  Refers(kept'[v], running'[v], queue'[v], s) <=> Refers(kept[v], running[v], queue[v], s)
      BY <1>1, <1>8, <3>6
    <3> QED BY <1>1, <3>1, <3>2, <3>3, <3>5, <3>6
  <2>2. Live \subseteq Slots /\ Live' \subseteq Slots
    BY DEF Live
  <2> QED BY <2>1, <2>2
<1>13. ASSUME NEW s \in Live, c.kind = "set", c.slot = s PROVE Holding(r, s) /\ r.call.kind = "set"
  <2>1. Alive(s)
    BY DEF Live
  <2> QED BY <1>7, <1>11, <1>13, <2>1
<1> QED BY <1>1, <1>2, <1>7, <1>8, <1>9, <1>10, <1>12, <1>13, TakenKeeps DEF c

(* Worker w ends what it is in or lets go of slots: no slot is set or      *)
(* cleared for another one.                                                *)
LEMMA WorkerLetsGo ==
  ASSUME IInv, NEW w \in registered, OnlyWorker(w), Live' \subseteq Live,
         queue'[w] = queue[w], kept'[w] \subseteq kept[w],
         RunOK(running'[w], index), running'[w] # None => ~running'[w].locked,
         \/ data'[w] = data[w] /\ ~(running[w] # None /\ running[w].locked)
         \/ /\ running[w] # None /\ running[w].locked
            /\ data'[w] = Apply(data[w], running[w].call)
  PROVE  SlotsOK' /\ ThreadsOK' /\ Places' /\ Own'
<1> DEFINE d == data[w]
           e == data'[w]
           c == running[w].call
<1>1. w \in Workers
  BY DEF IInv, SlotsOK
<1>2. /\ DataOK(d, index, Len(slotAt)) /\ QueueOK(queue[w], index)
      /\ RunOK(running[w], index) /\ KeptOK(kept[w], index)
      /\ queue[w] \in Seq(WorkerCalls) /\ index \in [Slots -> 0..Len(slotAt)]
      /\ Len(slotAt) \in Nat /\ Live \subseteq Slots
  BY <1>1, WorkerFacts
<1>3. KeptOK(kept'[w], index)
  BY <1>2 DEF KeptOK
<1>4. ASSUME NEW s PROVE ~Holding(running'[w], s)
  BY DEF Holding
<1>5. CASE e = d /\ ~(running[w] # None /\ running[w].locked)
  <2>1. ASSUME NEW s \in Live', w \notin stopped
        PROVE  Follows(e, queue'[w], running'[w], kept'[w], index[s], version[s], s)
    <3>1. Follows(d, queue[w], running[w], kept[w], index[s], version[s], s)
      BY <2>1 DEF IInv, Own
    <3>2. ~Holding(running[w], s)
      BY <1>5 DEF Holding
    <3>3. s \in kept'[w] => s \in kept[w]
      OBVIOUS
    <3> HIDE DEF d, e
    <3>4. Follows(d, queue[w], running'[w], kept'[w], index[s], version[s], s)
      <4>1. ~Holding(running'[w], s)
        BY <1>4
      <4>2. \A n : Provided(d, queue[w], running[w], index[s], s, n) =>
                  Provided(d, queue[w], running'[w], index[s], s, n)
        BY <3>2 DEF Provided
      <4> QED BY <3>1, <3>3, <4>1, <4>2 DEF Follows
    <3> QED BY <1>5, <3>4
  <2> QED BY <1>2, <1>3, <1>5, <2>1, WorkerAlone
<1>6. CASE running[w] # None /\ running[w].locked /\ e = Apply(d, c)
  <2>1. /\ c \in SetCalls \cup UpdateCalls /\ c.slot \in Slots /\ c.index = index[c.slot]
        /\ c.index \in 1..Len(slotAt)
    <3>1. running[w] \in Runs /\ ~running[w].done
      BY <1>2, <1>6 DEF RunOK
    <3>2. c \in SetCalls \cup UpdateCalls \cup [kind : {"drop"}, slot : Slots, index : Nat]
      BY <3>1 DEF Runs
    <3>3. c.kind # "drop" /\ c.index = index[c.slot] /\ index[c.slot] # 0
      BY <1>2, <1>6, <3>1 DEF RunOK
    <3> HIDE DEF c
    <3> QED BY SMTT(30), <1>2, <3>2, <3>3 DEF SetCalls, UpdateCalls
  <2>2. Holding(running[w], c.slot) /\ \A s : Holding(running[w], s) => s = c.slot
    BY <1>6 DEF Holding
  <2>3. c.slot \in Live
    <3>1. Refers(kept[w], running[w], queue[w], c.slot)
      BY <2>2 DEF Refers
    <3> QED BY <1>1, <2>1, <3>1, ReferredIsLive
  <2> HIDE DEF c, d, e
  <2>4. DataOK(e, index, Len(slotAt))
    BY <1>2, <1>6, <2>1, DataApplied
  <2>5. d \in Datas /\ Len(d) <= Len(slotAt)
    BY <1>2 DEF DataOK
  <2>6. ASSUME NEW s \in Live
        PROVE  /\ Has(d, index[s], s) => Has(e, index[s], s)
               /\ Holding(running[w], s) /\ c.kind = "set" => Has(e, index[s], s)
               /\ Has(e, index[s], s) => Has(d, index[s], s) \/ Holding(running[w], s)
    <3>1. CASE c \in UpdateCalls
      <4>1. c.kind # "set"
        BY <3>1 DEF UpdateCalls
      <4>2. Has(Apply(d, c), index[s], s) <=> Has(d, index[s], s)
        BY <2>5, <3>1, ApplyUpdate
      <4> QED BY <1>6, <4>1, <4>2
    <3>2. CASE c \in SetCalls
      <4>1. Has(e, index[s], s) <=> IF index[s] = c.index THEN s = c.slot ELSE Has(d, index[s], s)
        <5>1. Len(slotAt) \in Nat
          BY <1>2
        <5>2. Has(Apply(d, c), index[s], s)
                <=> IF index[s] = c.index THEN s = c.slot ELSE Has(d, index[s], s)
          BY ZenonT(90), <2>1, <2>5, <3>2, <5>1, ApplySet
        <5> QED BY <1>6, <5>2
      <4>2. index[s] = c.index => s = c.slot
        BY SMTT(30), <2>1, <2>3 DEF IInv, Places
      <4> QED BY <2>1, <2>2, <4>1, <4>2
    <3> QED BY <2>1, <3>1, <3>2
  <2>7. ASSUME NEW s \in Live', w \notin stopped
        PROVE  Follows(e, queue'[w], running'[w], kept'[w], index[s], version[s], s)
    <3>1. Follows(d, queue[w], running[w], kept[w], index[s], version[s], s)
      BY <2>7 DEF IInv, Own, d
    <3>2. /\ s \in kept'[w] => s \in kept[w]
          /\ s \in Live
      BY <2>7
    <3>3. /\ Has(d, index[s], s) => Has(e, index[s], s)
          /\ Holding(running[w], s) /\ running[w].call.kind = "set" => Has(e, index[s], s)
          /\ Has(e, index[s], s) => Has(d, index[s], s) \/ Holding(running[w], s)
      BY <2>6, <3>2 DEF c
    <3>4. queue[w] \in Seq(WorkerCalls) /\ ~Holding(running'[w], s)
      BY <1>2, <1>4
    <3>5. Follows(e, queue[w], running'[w], kept'[w], index[s], version[s], s)
      <4>1. \A n : Provided(d, queue[w], running[w], index[s], s, n) =>
                  Provided(e, queue[w], running'[w], index[s], s, n)
        BY <3>3 DEF Provided
      <4> QED BY <3>1, <3>2, <3>3, <3>4, <4>1 DEF Follows
    <3> QED BY <3>5
  <2> QED BY <1>2, <1>3, <2>4, <2>7, WorkerAlone DEF e
<1> QED BY <1>5, <1>6

(* A slot dies on worker w, which is about to post the removal of its      *)
(* index.                                                                  *)
LEMMA IndexHandedOver ==
  ASSUME IInv, NEW s \in Live, NEW w, Live' = Live \ {s}, slotAt' = slotAt, free' = free,
         index' = index, shutdown' = shutdown,
         \A i : Removals(queue'[Main], i) = Removals(queue[Main], i),
         \A i : Posters(i)' = IF i = index[s] THEN Posters(i) \cup {w} ELSE Posters(i)
  PROVE  Accounted'
<1>1. s # None /\ s \in Slots /\ index[s] # 0 /\ slotAt[index[s]] = s
  BY ThreadLocalAssumption DEF Live, IInv, Places
<1>2. \A i : FreeAt(i)' = FreeAt(i)
  BY DEF FreeAt
<1>3. ASSUME ~shutdown, NEW i \in 1..Len(slotAt)
      PROVE  /\ slotAt[i] # None => index[slotAt[i]] = i
             /\ Balanced(slotAt[i], FreeAt(i), Removals(queue[Main], i), Posters(i)', Live')
  <2>1. /\ slotAt[i] # None => index[slotAt[i]] = i
        /\ Balanced(slotAt[i], FreeAt(i), Removals(queue[Main], i), Posters(i), Live)
    BY <1>3 DEF IInv, Accounted
  <2>2. CASE i = index[s]
    <3>1. Posters(i) = {} /\ Removals(queue[Main], i) = {} /\ FreeAt(i) = {} /\ Posters(i)' = {w}
      BY <1>1, <2>1, <2>2 DEF Balanced
    <3> QED BY <1>1, <2>1, <2>2, <3>1 DEF Balanced, AtMostOne
  <2>3. CASE i # index[s]
    <3>1. slotAt[i] # s
      BY <1>1, <2>1, <2>3
    <3> QED BY <2>1, <2>3, <3>1 DEF Balanced
  <2> QED BY <2>2, <2>3
<1> QED BY <1>2, <1>3 DEF Accounted

(* A worker posts the removal of an index. *)
LEMMA RemovalPosted ==
  ASSUME IInv, NEW i0, NEW w \in Posters(i0), Live' = Live, slotAt' = slotAt,
         free' = free, index' = index, shutdown' = shutdown,
         \A i : Removals(queue'[Main], i) =
                  IF i = i0 THEN Removals(queue[Main], i) \cup {Len(queue[Main]) + 1}
                  ELSE Removals(queue[Main], i),
         \A i : Posters(i)' = Posters(i) \ {w}
  PROVE  Accounted'
<1> DEFINE n == Len(queue[Main]) + 1
<1>1. \A i : i # i0 => w \notin Posters(i)
  BY DEF Posters
<1>2. \A i : FreeAt(i)' = FreeAt(i)
  BY DEF FreeAt
<1>3. ASSUME ~shutdown, NEW i \in 1..Len(slotAt)
      PROVE  /\ slotAt[i] # None => index[slotAt[i]] = i
             /\ Balanced(slotAt[i], FreeAt(i), Removals(queue'[Main], i), Posters(i)', Live)
  <2>1. /\ slotAt[i] # None => index[slotAt[i]] = i
        /\ Balanced(slotAt[i], FreeAt(i), Removals(queue[Main], i), Posters(i), Live)
    BY <1>3 DEF IInv, Accounted
  <2>2. CASE i = i0
    <3>1. Posters(i)' = {} /\ Removals(queue'[Main], i) = {n}
      <4>1. Removals(queue[Main], i) = {}
        BY <2>1, <2>2 DEF Balanced
      <4>2. Posters(i) \ {w} = {}
        BY <2>1, <2>2 DEF Balanced, AtMostOne
      <4>3. Posters(i)' = {}
        BY <4>2
      <4> QED BY <2>2, <4>1, <4>3
    <3>2. Removals(queue[Main], i) \cup Posters(i) # {}
      BY <2>2
    <3> QED BY <2>1, <3>1, <3>2 DEF Balanced, AtMostOne
  <2>3. CASE i # i0
    <3>1. Posters(i) \ {w} = Posters(i)
      BY <1>1, <2>3
    <3> QED BY <2>1, <2>3, <3>1
  <2> QED BY <2>2, <2>3
<1> QED BY <1>2, <1>3 DEF Accounted

(* The copy of an update goes with its callback; the last one posts the    *)
(* completion.  q is the queue of the main thread before.                  *)
LEMMA GuardReleased ==
  ASSUME IInv, NEW w \in Workers, OnlyWorker(w), running[w] # None, running'[w] = None,
         queue'[w] = queue[w], NEW c, c = running[w].call, NEW q \in Seq(MainCalls),
         \A u : Completing(q, u) = Completing(queue[Main], u),
         \A k \in DOMAIN q : q[k].kind = "remove" => q[k].index \in 1..Len(slotAt),
         queue'[Main] = IF c.kind = "update" /\ c.guarded /\ ~Guarded(c.update, running', queue')
                        THEN Append(q, CompleteCallback(c.update)) ELSE q
  PROVE  Completions' /\ MainOK' /\ \A i : Removals(queue'[Main], i) = Removals(q, i)
<1>1. ASSUME NEW v \in Workers, NEW u, HasGuard(running'[v], queue'[v], u)
      PROVE  HasGuard(running[v], queue[v], u)
  <2>1. CASE v = w
    BY <1>1, <2>1 DEF HasGuard
  <2>2. CASE v # w
    BY <1>1, <2>2 DEF OnlyWorker
  <2> QED BY <2>1, <2>2
<1>2. CASE ~(c.kind = "update" /\ c.guarded /\ ~Guarded(c.update, running', queue'))
  <2>1. queue'[Main] = q
    BY <1>2
  <2>2. Completions'
    BY <1>1, <2>1, CompletionsStay DEF IInv, OnlyWorker
  <2> QED BY <2>1, <2>2 DEF MainOK, OnlyWorker
<1>3. CASE c.kind = "update" /\ c.guarded /\ ~Guarded(c.update, running', queue')
  <2> DEFINE u0 == c.update
             m == CompleteCallback(u0)
             a == Append(q, m)
  <2>1. u0 \in Nat
    <3>1. running[w] \in Runs
      BY DEF IInv, ThreadsOK
    <3>2. c \in SetCalls \cup UpdateCalls \cup [kind : {"drop"}, slot : Slots, index : Nat]
      BY <3>1 DEF Runs
    <3> QED BY <1>3, <3>2 DEF SetCalls, UpdateCalls
  <2>2. queue'[Main] = a
    BY <1>3
  <2>3. m \in MainCalls /\ m.kind = "complete" /\ m.update = u0 /\ m.kind # "remove"
    BY <2>1 DEF CompleteCallback, MainCalls
  <2> HIDE DEF u0, m
  <2>4. /\ a \in Seq(MainCalls)
        /\ \A i : Removals(a, i) = Removals(q, i)
        /\ \A u : Completing(a, u) = IF u = u0 THEN Completing(q, u) \cup {Len(q) + 1}
                                     ELSE Completing(q, u)
    BY SMTT(30), <2>3, MainPosted
  <2>5. /\ u0 \in 1..updates /\ u0 \notin completed /\ Completing(queue[Main], u0) = {}
    <3>1. HasGuard(running[w], queue[w], u0)
      BY <1>3 DEF HasGuard, u0
    <3> QED BY <2>1, <3>1 DEF IInv, Completions
  <2>6. ASSUME NEW v \in Workers PROVE ~HasGuard(running'[v], queue'[v], u0)
    BY <1>3, GuardedBy DEF u0
  <2>7. /\ \A u : u # u0 => Completing(queue'[Main], u) = Completing(queue[Main], u)
        /\ Completing(queue'[Main], u0) = {Len(q) + 1}
    BY <2>2, <2>4, <2>5
  <2>8. Completions'
    <3>1. updates' = updates /\ completed' = completed /\ Completions
      BY DEF IInv, OnlyWorker
    <3>2. ASSUME NEW u \in Nat
          PROVE  /\ AtMostOne(Completing(queue'[Main], u))
                 /\ u \in completed => Completing(queue'[Main], u) = {}
                 /\ \A v \in Workers : HasGuard(running'[v], queue'[v], u) =>
                      u \in 1..updates /\ u \notin completed /\ Completing(queue'[Main], u) = {}
                 /\ u \in completed \/ Completing(queue'[Main], u) # {} => u \in 1..updates
      <4>1. CASE u = u0
        BY <2>5, <2>6, <2>7, <4>1 DEF AtMostOne
      <4>2. CASE u # u0
        BY <1>1, <2>7, <3>1, <4>2 DEF Completions
      <4> QED BY <4>1, <4>2
    <3> QED BY <3>1, <3>2 DEF Completions
  <2>9. MainOK'
    <3>1. ASSUME NEW k \in DOMAIN a, a[k].kind = "remove" PROVE a[k].index \in 1..Len(slotAt)
      <4>1. k \in DOMAIN q /\ a[k] = q[k]
        BY SMTT(30), <2>3, <3>1
      <4> QED BY <3>1, <4>1
    <3> QED BY <2>2, <2>4, <3>1 DEF MainOK, OnlyWorker
  <2> QED BY <2>2, <2>4, <2>8, <2>9
<1> QED BY <1>2, <1>3

(* Releasing the guard only adds to the queue of the main thread. *)
LEMMA GuardQueue ==
  ASSUME NEW c, NEW run, NEW q, DOMAIN q = Threads, NEW a, a = ReleaseGuard(c, run, q)
  PROVE  /\ DOMAIN a = Threads /\ \A v \in Workers : a[v] = q[v]
         /\ a[Main] = IF c.kind = "update" /\ c.guarded /\ ~Guarded(c.update, run, a)
                      THEN Append(q[Main], CompleteCallback(c.update)) ELSE q[Main]
<1>1. Main \in Threads /\ \A v \in Workers : v \in Threads /\ v # Main
  BY SMTT(30), ThreadLocalAssumption DEF Threads, Workers, Main
<1>2. DOMAIN a = Threads /\ \A v \in Workers : a[v] = q[v]
  BY <1>1 DEF ReleaseGuard
<1>3. Guarded(c.update, run, a) <=> Guarded(c.update, run, q)
  BY <1>2, GuardedBy
<1> QED BY <1>1, <1>2, <1>3 DEF ReleaseGuard

(* A callback runs on a worker and goes; the slot goes with it if it held  *)
(* the last reference.                                                     *)
LEMMA FinishCallbackKeeps ==
  ASSUME IInv, NEW w \in Workers, FinishCallback(w)
  PROVE  IInv'
<1> DEFINE c == running[w].call
           s == c.slot
           gone == [call |-> c, locked |-> FALSE, done |-> TRUE]
           unlocked == [running EXCEPT ![w] = gone]
           last == running[w].locked /\ ~Referenced(s, owner, kept, unlocked, queue)
<1>1. /\ running[w] # None /\ ~running[w].done
      /\ data' = [data EXCEPT ![w] = IF running[w].locked THEN Apply(@, c) ELSE @]
      /\ \/ last /\ ~shutdown /\ running' = unlocked /\ queue' = queue
         \/ /\ ~(last /\ ~shutdown) /\ running' = [running EXCEPT ![w] = None]
            /\ queue' = ReleaseGuard(c, running', queue)
      /\ slotAt' = slotAt /\ free' = free /\ index' = index /\ version' = version
      /\ registered' = registered /\ shutdown' = shutdown /\ stopped' = stopped
      /\ kept' = kept /\ owner' = owner
      /\ updates' = updates /\ completed' = completed
  BY DEF FinishCallback, slotVars, threadVars, historyVars
<1>2. /\ RunOK(running[w], index)
      /\ DOMAIN queue = Threads /\ DOMAIN data = Threads
      /\ kept \in [Workers -> SUBSET Slots] /\ running \in [Workers -> Runs \cup {None}]
      /\ w \in Threads /\ Main \in Threads /\ w # Main
      /\ w \in registered /\ queue[w] \in Seq(WorkerCalls) /\ queue[Main] \in Seq(MainCalls)
      /\ Live \subseteq Slots
  BY <1>1, WorkerFacts
<1>3. /\ running[w] \in Runs /\ s \in Slots /\ c.index = index[s] /\ index[s] # 0
      /\ gone \in Runs /\ gone # None /\ gone.done /\ ~gone.locked /\ gone.call = c
      /\ c.kind # "drop"
  <2>1. running[w] \in Runs /\ c.index = index[s] /\ index[s] # 0 /\ c.kind # "drop"
    BY <1>1, <1>2 DEF RunOK
  <2>2. c \in SetCalls \cup UpdateCalls \cup [kind : {"drop"}, slot : Slots, index : Nat]
    BY <2>1 DEF Runs
  <2>3. s \in Slots
    BY <2>2 DEF SetCalls, UpdateCalls
  <2>4. gone \in Runs
    BY <2>2 DEF Runs
  <2>5. gone # None
    BY <2>4, ThreadLocalAssumption
  <2> QED BY <2>1, <2>3, <2>4, <2>5
<1> HIDE DEF gone
<1>4. /\ \A v \in Workers : v # w => running'[v] = running[v] /\ unlocked[v] = running[v]
      /\ running' \in [Workers -> Runs \cup {None}] /\ unlocked[w] = gone
      /\ running'[w] = None \/ running'[w] = gone
  <2>1. /\ running' = unlocked \/ running' = [running EXCEPT ![w] = None]
        /\ gone \in Runs /\ running \in [Workers -> Runs \cup {None}]
    BY <1>1, <1>2, <1>3
  <2> QED BY <2>1
<1> HIDE DEF unlocked
<1>5. /\ DOMAIN queue' = Threads /\ \A v \in Workers : queue'[v] = queue[v]
  <2> HIDE DEF c
  <2>1. CASE queue' = queue
    BY <1>2, <2>1
  <2>2. CASE queue' = ReleaseGuard(c, running', queue)
    BY SMTT(30), <1>2, <2>2, GuardQueue
  <2> QED BY <1>1, <2>1, <2>2
<1>6. /\ DOMAIN data' = Threads /\ data'[Main] = data[Main]
      /\ \A v \in Workers : v # w => data'[v] = data[v]
      /\ data'[w] = IF running[w].locked THEN Apply(data[w], c) ELSE data[w]
  <2> HIDE DEF c
  <2>1. \A v \in Workers : v \in Threads
    BY DEF Threads
  <2> QED BY <1>1, <1>2, <2>1
<1>7. OnlyWorker(w)
  BY <1>1, <1>2, <1>4, <1>5, <1>6 DEF OnlyWorker
<1>8. ASSUME NEW t PROVE /\ ~Holding(running'[w], t) /\ ~Holding(gone, t)
                         /\ Holding(running[w], t) <=> t = s /\ running[w].locked
  BY <1>1, <1>3, <1>4 DEF Holding
<1>9. Live' = IF Referenced(s, owner', kept', running', queue') THEN Live ELSE Live \ {s}
  <2>1. ASSUME NEW v \in Workers, NEW t \in Slots
        PROVE  /\ Refers(kept'[v], running'[v], queue'[v], t) => Refers(kept[v], running[v], queue[v], t)
               /\ Refers(kept[v], running[v], queue[v], t) /\ t # s =>
                    Refers(kept'[v], running'[v], queue'[v], t)
    <3>1. CASE v = w
      BY <1>1, <1>5, <1>8, <3>1 DEF Refers
    <3>2. CASE v # w
      BY <1>1, <1>4, <1>5, <3>2
    <3> QED BY <3>1, <3>2
  <2> HIDE DEF s
  <2> QED BY <1>1, <1>3, <2>1, LiveLoses
<1>10. SlotsOK' /\ ThreadsOK' /\ Places' /\ Own'
  <2>1. RunOK(running'[w], index)
    BY <1>3, <1>4 DEF RunOK
  <2>2. Live' \subseteq Live
    BY <1>9
  <2>3. kept'[w] \subseteq kept[w] /\ queue'[w] = queue[w]
    BY <1>1, <1>5
  <2>4. running'[w] # None => ~running'[w].locked
    BY <1>3, <1>4
  <2> QED BY <1>1, <1>2, <1>6, <1>7, <2>1, <2>2, <2>3, <2>4, WorkerLetsGo
<1>11. \A i : w \notin Posters(i) /\ Posters(i) \ {w} = Posters(i)
  <2>1. \A i : w \notin Posters(i)
    BY <1>1 DEF Posters
  <2> QED BY <2>1
<1>12. CASE last /\ ~shutdown /\ running' = unlocked /\ queue' = queue
  <2>1. Accounted'
    <3>1. s \in Live
      <4>1. Refers(kept[w], running[w], queue[w], s)
        BY <1>8, <1>12 DEF Refers
      <4> QED BY <1>3, <4>1, ReferredIsLive
    <3>2. Live' = Live \ {s}
      BY <1>1, <1>9, <1>12
    <3>3. ASSUME NEW i PROVE Posters(i)' = IF i = index[s] THEN Posters(i) \cup {w} ELSE Posters(i)
      <4>1. running'[w] = gone
        BY <1>4, <1>12
      <4>2. Posters(i)' = IF c.index = i THEN (Posters(i) \ {w}) \cup {w} ELSE Posters(i) \ {w}
        BY SMTT(30), <1>3, <1>7, <4>1, PostersOf
      <4> QED BY <1>3, <1>11, <4>2
    <3> HIDE DEF s
    <3> QED BY <1>1, <1>12, <3>1, <3>2, <3>3, IndexHandedOver
  <2>2. Completions'
    <3>1. ASSUME NEW v \in Workers, NEW u, HasGuard(running'[v], queue'[v], u)
          PROVE  HasGuard(running[v], queue[v], u)
      <4>1. CASE v = w
        BY <1>1, <1>3, <1>4, <1>12, <3>1, <4>1 DEF HasGuard
      <4>2. CASE v # w
        BY <1>4, <1>12, <3>1, <4>2
      <4> QED BY <4>1, <4>2
    <3> QED BY <1>1, <1>12, <3>1, CompletionsStay DEF IInv
  <2>3. MainOK'
    BY <1>1, <1>12 DEF IInv, MainOK
  <2> QED BY <1>10, <2>1, <2>2, <2>3 DEF IInv
<1>13. CASE /\ ~(last /\ ~shutdown) /\ running' = [running EXCEPT ![w] = None]
            /\ queue' = ReleaseGuard(c, running', queue)
  <2>1. running'[w] = None
    BY <1>2, <1>13
  <2>2. queue'[Main] = IF c.kind = "update" /\ c.guarded /\ ~Guarded(c.update, running', queue')
                       THEN Append(queue[Main], CompleteCallback(c.update)) ELSE queue[Main]
    <3> HIDE DEF c
    <3>1. queue' = ReleaseGuard(c, running', queue) /\ DOMAIN queue = Threads
      BY <1>2, <1>13
    <3> QED BY SMTT(30), <3>1, GuardQueue
  <2>3. Completions' /\ MainOK' /\ \A i : Removals(queue'[Main], i) = Removals(queue[Main], i)
    <3>1. \A k \in DOMAIN queue[Main] :
            queue[Main][k].kind = "remove" => queue[Main][k].index \in 1..Len(slotAt)
      BY DEF IInv, MainOK
    <3>2. running[w] # None /\ queue'[w] = queue[w] /\ queue[Main] \in Seq(MainCalls)
      BY <1>1, <1>2, <1>5
    <3> QED BY <1>7, <2>1, <2>2, <3>1, <3>2, GuardReleased
  <2>4. CASE shutdown
    <3>1. Accounted'
      BY <1>1, <2>4 DEF Accounted
    <3> QED BY <1>10, <2>3, <3>1 DEF IInv
  <2>5. CASE ~shutdown
    <3>1. Live' = Live
      <4>1. CASE ~running[w].locked
        <5>1. \A t \in Slots : Refers(kept'[w], running'[w], queue'[w], t) <=>
                               Refers(kept[w], running[w], queue[w], t)
          BY <1>1, <1>5, <1>8, <4>1 DEF Refers
        <5> QED BY <1>7, <5>1, LiveAlone
      <4>2. CASE running[w].locked
        <5>1. Referenced(s, owner, kept, unlocked, queue)
          BY <1>13, <2>5, <4>2
        <5>2. ASSUME NEW v \in Workers, Refers(kept[v], unlocked[v], queue[v], s)
              PROVE  Refers(kept'[v], running'[v], queue'[v], s)
          <6>1. CASE v = w
            BY <1>1, <1>4, <1>5, <1>8, <5>2, <6>1 DEF Refers
          <6>2. CASE v # w
            BY <1>1, <1>4, <1>5, <5>2, <6>2
          <6> QED BY <6>1, <6>2
        <5>3. Referenced(s, owner', kept', running', queue')
          BY <1>1, <5>1, <5>2, ReferencedBy
        <5> QED BY <1>9, <5>3
      <4> QED BY <4>1, <4>2
    <3>2. ASSUME NEW i PROVE Posters(i)' = Posters(i)
      BY <1>7, <1>11, <2>1, PostersOf
    <3>3. Accounted'
      BY <1>1, <2>3, <3>1, <3>2, AccountedStays DEF IInv
    <3> QED BY <1>10, <2>3, <3>3 DEF IInv
  <2> QED BY <2>4, <2>5
<1> QED BY <1>1, <1>12, <1>13

(* ~SlotImpl on a worker posts the removal. *)
LEMMA PostRemovalKeeps ==
  ASSUME IInv, NEW w \in Workers, PostRemoval(w)
  PROVE  IInv'
<1> DEFINE c == running[w].call
           m == RemoveCallback(c.index)
           q == [queue EXCEPT ![Main] = Append(@, m)]
<1>1. /\ running[w] # None /\ running[w].done
      /\ running' = [running EXCEPT ![w] = None] /\ queue' = ReleaseGuard(c, running', q)
      /\ slotAt' = slotAt /\ free' = free /\ index' = index /\ version' = version
      /\ registered' = registered /\ shutdown' = shutdown /\ stopped' = stopped
      /\ data' = data /\ kept' = kept /\ owner' = owner
      /\ updates' = updates /\ completed' = completed
  BY DEF PostRemoval, slotVars, threadVars, historyVars
<1>2. /\ RunOK(running[w], index) /\ DOMAIN queue = Threads /\ DOMAIN data = Threads
      /\ kept \in [Workers -> SUBSET Slots] /\ running \in [Workers -> Runs \cup {None}]
      /\ w \in Threads /\ Main \in Threads /\ w # Main
      /\ w \in registered /\ queue[w] \in Seq(WorkerCalls) /\ queue[Main] \in Seq(MainCalls)
      /\ index \in [Slots -> 0..Len(slotAt)] /\ Len(slotAt) \in Nat
  BY <1>1, WorkerFacts
<1>3. /\ ~running[w].locked /\ c.index \in 1..Len(slotAt)
  <2>1. running[w] \in Runs /\ c.index = index[c.slot] /\ index[c.slot] # 0 /\ ~running[w].locked
    BY <1>1, <1>2 DEF RunOK
  <2>2. c \in SetCalls \cup UpdateCalls \cup [kind : {"drop"}, slot : Slots, index : Nat]
    BY <2>1 DEF Runs
  <2> HIDE DEF c
  <2>3. c.slot \in Slots
    BY <2>2 DEF SetCalls, UpdateCalls
  <2> QED BY SMTT(30), <1>2, <2>1, <2>3
<1> HIDE DEF c
<1>4. m \in MainCalls /\ m.kind = "remove" /\ m.index = c.index /\ m.kind # "complete"
  BY SMTT(30), <1>3 DEF RemoveCallback, MainCalls
<1>5. /\ DOMAIN q = Threads /\ q[Main] = Append(queue[Main], m)
      /\ \A v \in Workers : q[v] = queue[v]
  BY SMTT(30), <1>2, ThreadLocalAssumption DEF Threads, Workers, Main
<1> HIDE DEF m, q
<1>6. /\ DOMAIN queue' = Threads /\ \A v \in Workers : queue'[v] = queue[v]
      /\ queue'[Main] = IF c.kind = "update" /\ c.guarded /\ ~Guarded(c.update, running', queue')
                        THEN Append(q[Main], CompleteCallback(c.update)) ELSE q[Main]
  <2>1. queue' = ReleaseGuard(c, running', q) /\ DOMAIN q = Threads
    BY <1>1, <1>5
  <2>2. /\ DOMAIN queue' = Threads /\ \A v \in Workers : queue'[v] = q[v]
        /\ queue'[Main] = IF c.kind = "update" /\ c.guarded /\ ~Guarded(c.update, running', queue')
                          THEN Append(q[Main], CompleteCallback(c.update)) ELSE q[Main]
    BY SMTT(30), <2>1, GuardQueue
  <2> QED BY <1>5, <2>2
<1>7. /\ running'[w] = None /\ running' \in [Workers -> Runs \cup {None}]
      /\ \A v \in Workers : v # w => running'[v] = running[v]
  BY <1>1, <1>2
<1>8. OnlyWorker(w)
  BY <1>1, <1>2, <1>6, <1>7 DEF OnlyWorker
<1>9. Live' = Live
  <2>1. ASSUME NEW t \in Slots
        PROVE  Refers(kept'[w], running'[w], queue'[w], t) <=> Refers(kept[w], running[w], queue[w], t)
    <3>1. kept'[w] = kept[w] /\ queue'[w] = queue[w]
      BY <1>1, <1>6
    <3>2. ~Holding(running[w], t) /\ ~Holding(running'[w], t)
      BY <1>3, <1>7 DEF Holding
    <3> QED BY <3>1, <3>2 DEF Refers
  <2> QED BY <1>8, <2>1, LiveAlone
<1>10. SlotsOK' /\ ThreadsOK' /\ Places' /\ Own'
  <2>1. RunOK(running'[w], index)
    BY <1>7 DEF RunOK
  <2>2. kept'[w] \subseteq kept[w] /\ queue'[w] = queue[w] /\ data'[w] = data[w] /\ Live' \subseteq Live
    BY <1>1, <1>6, <1>9
  <2> QED BY <1>2, <1>3, <1>7, <1>8, <2>1, <2>2, WorkerLetsGo
<1>11. /\ q[Main] \in Seq(MainCalls) /\ \A u : Completing(q[Main], u) = Completing(queue[Main], u)
       /\ \A i : Removals(q[Main], i) = IF i = c.index THEN Removals(queue[Main], i) \cup {Len(queue[Main]) + 1}
                                        ELSE Removals(queue[Main], i)
  <2>1. /\ Append(queue[Main], m) \in Seq(MainCalls)
        /\ \A i : Removals(Append(queue[Main], m), i) =
             IF m.kind = "remove" /\ m.index = i THEN Removals(queue[Main], i) \cup {Len(queue[Main]) + 1}
             ELSE Removals(queue[Main], i)
        /\ \A u : Completing(Append(queue[Main], m), u) =
             IF m.kind = "complete" /\ m.update = u THEN Completing(queue[Main], u) \cup {Len(queue[Main]) + 1}
             ELSE Completing(queue[Main], u)
    BY <1>2, <1>4, MainPosted
  <2> QED BY <1>4, <1>5, <2>1
<1>12. \A k \in DOMAIN q[Main] : q[Main][k].kind = "remove" => q[Main][k].index \in 1..Len(slotAt)
  <2>1. /\ DOMAIN q[Main] = DOMAIN queue[Main] \cup {Len(queue[Main]) + 1}
        /\ q[Main][Len(queue[Main]) + 1] = m
        /\ \A k \in DOMAIN queue[Main] : q[Main][k] = queue[Main][k]
    BY SMTT(30), <1>2, <1>4, <1>5
  <2> QED BY <1>3, <1>4, <2>1 DEF IInv, MainOK
<1>13. Completions' /\ MainOK' /\ \A i : Removals(queue'[Main], i) = Removals(q[Main], i)
  <2>1. running[w] # None /\ c = running[w].call
    BY <1>1 DEF c
  <2>2. queue'[w] = queue[w]
    BY <1>6
  <2>3. q[Main] \in Seq(MainCalls) /\ \A u : Completing(q[Main], u) = Completing(queue[Main], u)
    BY <1>11
  <2>4. queue'[Main] = IF c.kind = "update" /\ c.guarded /\ ~Guarded(c.update, running', queue')
                       THEN Append(q[Main], CompleteCallback(c.update)) ELSE q[Main]
    BY <1>6
  <2>5. running'[w] = None
    BY <1>7
  <2> QED BY <1>8, <1>12, <2>1, <2>2, <2>3, <2>4, <2>5, GuardReleased
<1>14. Accounted'
  <2>1. ASSUME NEW i PROVE Posters(i)' = Posters(i) \ {w}
    BY <1>7, <1>8, PostersOf
  <2>2. w \in Posters(c.index)
    BY <1>1 DEF Posters, c
  <2>3. ASSUME NEW i
        PROVE  Removals(queue'[Main], i) =
                 IF i = c.index THEN Removals(queue[Main], i) \cup {Len(queue[Main]) + 1}
                 ELSE Removals(queue[Main], i)
    BY <1>11, <1>13
  <2>4. slotAt' = slotAt /\ free' = free /\ index' = index /\ shutdown' = shutdown
    BY <1>1
  <2> QED BY <1>9, <2>1, <2>2, <2>3, <2>4, RemovalPosted
<1> QED BY <1>10, <1>13, <1>14 DEF IInv

(* An object of a worker lets go of a slot. *)
LEMMA DropKeeps ==
  ASSUME IInv, NEW w \in Workers, NEW s \in Slots, Drop(w, s)
  PROVE  IInv'
<1> DEFINE drop == [call |-> [kind |-> "drop", slot |-> s, index |-> index[s]],
                    locked |-> FALSE, done |-> TRUE]
<1>1. /\ running[w] = None /\ s \in kept[w] /\ kept' = [kept EXCEPT ![w] = @ \ {s}]
      /\ \/ (Referenced(s, owner, kept', running, queue) \/ shutdown) /\ running' = running
         \/ /\ ~Referenced(s, owner, kept', running, queue) /\ ~shutdown
            /\ running' = [running EXCEPT ![w] = drop]
      /\ slotAt' = slotAt /\ free' = free /\ index' = index /\ version' = version
      /\ registered' = registered /\ shutdown' = shutdown /\ stopped' = stopped
      /\ data' = data /\ queue' = queue /\ owner' = owner
      /\ updates' = updates /\ completed' = completed
  BY DEF Drop, slotVars, threadVars, historyVars
<1>2. /\ KeptOK(kept[w], index) /\ DOMAIN queue = Threads /\ DOMAIN data = Threads
      /\ kept \in [Workers -> SUBSET Slots] /\ running \in [Workers -> Runs \cup {None}]
      /\ w \in registered /\ index \in [Slots -> 0..Len(slotAt)] /\ Len(slotAt) \in Nat
  BY <1>1, WorkerFacts
<1>3. /\ index[s] # 0 /\ drop \in Runs /\ drop # None /\ RunOK(drop, index)
      /\ ~drop.locked /\ drop.done /\ drop.call.index = index[s] /\ drop.call.kind = "drop"
  <2>1. index[s] # 0
    BY <1>1, <1>2 DEF KeptOK
  <2>2. index[s] \in Nat
    BY SMTT(30), <1>2
  <2>3. drop \in Runs
    BY <2>2 DEF Runs
  <2>4. drop # None
    BY <2>3, ThreadLocalAssumption
  <2> QED BY <2>1, <2>3, <2>4 DEF RunOK
<1> HIDE DEF drop
<1>4. /\ kept'[w] = kept[w] \ {s} /\ \A v \in Workers : v # w => kept'[v] = kept[v]
      /\ kept' \in [Workers -> SUBSET Slots]
  BY <1>1, <1>2
<1>5. /\ running' \in [Workers -> Runs \cup {None}] /\ running'[w] \in {None, drop}
      /\ \A v \in Workers : v # w => running'[v] = running[v]
  <2>1. CASE running' = running
    BY <1>1, <1>2, <2>1
  <2>2. CASE running' = [running EXCEPT ![w] = drop]
    BY <1>2, <1>3, <2>2
  <2> QED BY <1>1, <2>1, <2>2
<1>6. OnlyWorker(w)
  BY <1>1, <1>2, <1>4, <1>5 DEF OnlyWorker
<1>7. \A t : ~Holding(running'[w], t) /\ ~Holding(running[w], t)
  BY <1>1, <1>3, <1>5 DEF Holding
<1>8. Live' = IF Referenced(s, owner', kept', running', queue') THEN Live ELSE Live \ {s}
  <2>1. ASSUME NEW v \in Workers, NEW t \in Slots
        PROVE  /\ Refers(kept'[v], running'[v], queue'[v], t) => Refers(kept[v], running[v], queue[v], t)
               /\ Refers(kept[v], running[v], queue[v], t) /\ t # s =>
                    Refers(kept'[v], running'[v], queue'[v], t)
    <3>1. CASE v = w
      BY <1>1, <1>4, <1>7, <3>1 DEF Refers
    <3>2. CASE v # w
      BY <1>1, <1>4, <1>5, <3>2
    <3> QED BY <3>1, <3>2
  <2> QED BY <1>1, <2>1, LiveLoses
<1>9. SlotsOK' /\ ThreadsOK' /\ Places' /\ Own'
  <2>1. RunOK(running'[w], index)
    BY <1>3, <1>5 DEF RunOK
  <2>2. /\ kept'[w] \subseteq kept[w] /\ queue'[w] = queue[w] /\ data'[w] = data[w] /\ Live' \subseteq Live
        /\ running'[w] # None => ~running'[w].locked
    BY <1>1, <1>3, <1>4, <1>5, <1>8
  <2> QED BY <1>1, <1>2, <1>6, <2>1, <2>2, WorkerLetsGo
<1>10. Completions'
  <2>1. ASSUME NEW v \in Workers, NEW u, HasGuard(running'[v], queue'[v], u)
        PROVE  HasGuard(running[v], queue[v], u)
    <3>1. CASE v = w
      <4>1. "drop" # "update"
        OBVIOUS
      <4> QED BY <1>1, <1>3, <1>5, <2>1, <3>1, <4>1 DEF HasGuard
    <3>2. CASE v # w
      BY <1>1, <1>5, <2>1, <3>2
    <3> QED BY <3>1, <3>2
  <2> QED BY <1>1, <2>1, CompletionsStay DEF IInv
<1>11. MainOK'
  BY <1>1 DEF IInv, MainOK
<1>12. \A i : w \notin Posters(i) /\ Posters(i) \ {w} = Posters(i)
  <2>1. \A i : w \notin Posters(i)
    BY <1>1 DEF Posters
  <2> QED BY <2>1
<1>13. Accounted'
  <2>1. CASE shutdown
    BY <1>1, <2>1 DEF Accounted
  <2>2. CASE Referenced(s, owner, kept', running, queue) /\ running' = running
    <3>1. Live' = Live
      BY <1>1, <1>8, <2>2
    <3>2. \A i : Posters(i)' = Posters(i)
      BY <2>2 DEF Posters
    <3> QED BY <1>1, <3>1, <3>2, AccountedStays DEF IInv
  <2>3. CASE ~Referenced(s, owner, kept', running, queue) /\ running' = [running EXCEPT ![w] = drop]
    <3>1. running'[w] = drop
      BY <1>2, <2>3
    <3>2. ~Referenced(s, owner', kept', running', queue')
      <4>1. ASSUME NEW v \in Workers
            PROVE  Refers(kept'[v], running'[v], queue'[v], s) => Refers(kept'[v], running[v], queue[v], s)
        <5>1. CASE v = w
          BY <1>1, <1>7, <5>1 DEF Refers
        <5>2. CASE v # w
          BY <1>1, <1>5, <5>2
        <5> QED BY <5>1, <5>2
      <4> QED BY <1>1, <2>3, <4>1, ReferencedBy
    <3>3. Live' = Live \ {s} /\ s \in Live
      <4>1. Refers(kept[w], running[w], queue[w], s)
        BY <1>1 DEF Refers
      <4>2. s \in Live
        BY <4>1, ReferredIsLive
      <4> QED BY <1>8, <3>2, <4>2
    <3>4. ASSUME NEW i PROVE Posters(i)' = IF i = index[s] THEN Posters(i) \cup {w} ELSE Posters(i)
      <4>1. Posters(i)' = IF index[s] = i THEN (Posters(i) \ {w}) \cup {w} ELSE Posters(i) \ {w}
        BY <1>3, <1>6, <3>1, PostersOf
      <4> QED BY <1>12, <4>1
    <3> QED BY <1>1, <3>3, <3>4, IndexHandedOver
  <2> QED BY <1>1, <2>1, <2>2, <2>3
<1> QED BY <1>9, <1>10, <1>11, <1>13 DEF IInv

(* A worker leaves its dispatch loop; its data and its objects go. *)
LEMMA StopWorkerKeeps ==
  ASSUME IInv, NEW w \in Workers, StopWorker(w)
  PROVE  IInv'
<1>1. /\ shutdown /\ w \in registered /\ running[w] = None
      /\ stopped' = stopped \cup {w}
      /\ data' = [data EXCEPT ![w] = <<>>] /\ kept' = [kept EXCEPT ![w] = {}]
      /\ slotAt' = slotAt /\ free' = free /\ index' = index /\ version' = version
      /\ registered' = registered /\ shutdown' = shutdown
      /\ queue' = queue /\ running' = running /\ owner' = owner
      /\ updates' = updates /\ completed' = completed
  BY DEF StopWorker, slotVars, historyVars
<1>2. /\ DOMAIN data = Threads /\ kept \in [Workers -> SUBSET Slots]
      /\ w \in Threads /\ Main \in Threads /\ w # Main /\ Len(slotAt) \in Nat
  BY WorkerFacts
<1>3. /\ DOMAIN data' = Threads /\ data'[Main] = data[Main] /\ data'[w] = <<>>
      /\ kept'[w] = {} /\ kept' \in [Workers -> SUBSET Slots]
      /\ \A v \in Workers : v # w => data'[v] = data[v] /\ kept'[v] = kept[v]
  BY <1>1, <1>2 DEF Threads
<1>4. Live' \subseteq Live
  <2>1. ASSUME NEW v \in Workers, NEW t \in Slots, Refers(kept'[v], running'[v], queue'[v], t)
        PROVE  Refers(kept[v], running[v], queue[v], t)
    BY <1>1, <1>3, <2>1 DEF Refers
  <2>2. ASSUME NEW t \in Live' PROVE t \in Live
    <3>1. t \in Slots
      BY DEF Live
    <3>2. t \in owner' \/ \E v \in Workers : Refers(kept'[v], running'[v], queue'[v], t)
      BY <2>2, ReferencedBy DEF Live, Alive
    <3>3. t \in owner \/ \E v \in Workers : Refers(kept[v], running[v], queue[v], t)
      BY <1>1, <2>1, <3>1, <3>2
    <3> QED BY <3>1, <3>3, ReferencedBy DEF Live, Alive
  <2> QED BY <2>2
<1>5. SlotsOK'
  BY <1>1, <1>2 DEF IInv, SlotsOK
<1>6. ThreadsOK'
  <2>1. ASSUME NEW v \in Workers
        PROVE  /\ DataOK(data'[v], index', Len(slotAt')) /\ QueueOK(queue'[v], index')
               /\ RunOK(running'[v], index') /\ KeptOK(kept'[v], index')
    <3>1. /\ DataOK(data[v], index, Len(slotAt)) /\ QueueOK(queue[v], index)
          /\ RunOK(running[v], index) /\ KeptOK(kept[v], index)
      BY DEF IInv, ThreadsOK
    <3>2. DataOK(<<>>, index, Len(slotAt)) /\ KeptOK({}, index)
      BY SMTT(30), <1>2 DEF DataOK, KeptOK, Datas
    <3> QED BY <1>1, <1>3, <3>1, <3>2
  <2>2. ASSUME NEW v \in Workers \ registered'
        PROVE  queue'[v] = <<>> /\ data'[v] = <<>> /\ running'[v] = None /\ kept'[v] = {}
    BY <1>1, <1>3 DEF IInv, ThreadsOK
  <2>3. /\ DOMAIN queue' = Threads /\ running' \in [Workers -> Runs \cup {None}]
        /\ data'[Main] \in Datas /\ Len(data'[Main]) <= Len(slotAt')
        /\ DOMAIN data' = Threads /\ kept' \in [Workers -> SUBSET Slots]
    BY <1>1, <1>3 DEF IInv, ThreadsOK
  <2> QED BY <2>1, <2>2, <2>3 DEF ThreadsOK
<1>7. MainOK' /\ Completions' /\ Accounted'
  BY <1>1 DEF IInv, MainOK, Completions, Accounted
<1>8. Places'
  BY <1>1, <1>4 DEF IInv, Places
<1>9. Own'
  <2>1. registered \subseteq Workers
    BY DEF IInv, SlotsOK
  <2>2. ASSUME NEW v \in registered \ stopped', NEW t \in Live'
        PROVE  Follows(data'[v], queue'[v], running'[v], kept'[v], index'[t], version'[t], t)
    <3>1. v \in registered \ stopped /\ v # w /\ v \in Workers /\ t \in Live
      BY <1>1, <1>4, <2>1
    <3>2. Follows(data[v], queue[v], running[v], kept[v], index[t], version[t], t)
      BY <3>1 DEF IInv, Own
    <3> QED BY <1>1, <1>3, <3>1, <3>2
  <2> QED BY <1>1, <2>2 DEF Own
<1> QED BY <1>5, <1>6, <1>7, <1>8, <1>9 DEF IInv

-----------------------------------------------------------------------------
(* The main thread *)

(* A reference to a slot is posted to a worker. *)
LEMMA ShareKeeps ==
  ASSUME IInv, NEW s \in Slots, NEW w \in Workers, Share(s, w)
  PROVE  IInv'
<1> DEFINE c == KeepCallback(s)
<1>1. /\ s \in owner /\ version[s] > 0 /\ w \in registered
      /\ queue' = [queue EXCEPT ![w] = Append(@, c)]
      /\ slotAt' = slotAt /\ free' = free /\ index' = index /\ version' = version
      /\ registered' = registered /\ shutdown' = shutdown /\ stopped' = stopped
      /\ data' = data /\ running' = running /\ owner' = owner /\ kept' = kept
      /\ updates' = updates /\ completed' = completed
  BY DEF Share, slotVars, threadVars, historyVars
<1>2. /\ DataOK(data[w], index, Len(slotAt)) /\ QueueOK(queue[w], index)
      /\ RunOK(running[w], index) /\ KeptOK(kept[w], index)
      /\ DOMAIN queue = Threads /\ DOMAIN data = Threads
      /\ kept \in [Workers -> SUBSET Slots] /\ running \in [Workers -> Runs \cup {None}]
      /\ w \in Threads /\ Main \in Threads /\ w # Main /\ queue[w] \in Seq(WorkerCalls)
      /\ version \in [Slots -> 0..MaxSets] /\ Live \subseteq Slots
  BY WorkerFacts
<1>3. /\ c \in WorkerCalls /\ CallOK(c, index) /\ c.kind = "keep" /\ c.slot = s
  <2>1. index[s] # 0
    BY <1>1 DEF IInv, SlotsOK
  <2> QED BY <2>1 DEF KeepCallback, CallOK, WorkerCalls, KeepCalls
<1> HIDE DEF c
<1>4. /\ queue'[w] = Append(queue[w], c) /\ queue'[Main] = queue[Main] /\ DOMAIN queue' = Threads
      /\ \A v \in Workers : v # w => queue'[v] = queue[v]
  BY <1>1, <1>2 DEF Threads
<1>5. OnlyWorker(w)
  BY <1>1, <1>2, <1>4 DEF OnlyWorker
<1>6. Live' = Live
  <2>1. ASSUME NEW v \in Workers, NEW t \in Slots, t # s
        PROVE  Refers(kept'[v], running'[v], queue'[v], t) <=> Refers(kept[v], running[v], queue[v], t)
    <3>1. Refers(kept[w], running[w], Append(queue[w], c), t) <=> Refers(kept[w], running[w], queue[w], t)
      <4>1. queue[w] \in Seq(WorkerCalls) /\ c \in WorkerCalls /\ c.slot # t
        BY <1>2, <1>3, <2>1
      <4> QED BY SMTT(30), <4>1, RefersPosted
    <3> QED BY <1>1, <1>4, <3>1
  <2>2. ASSUME NEW t \in Slots PROVE t \in Live' <=> t \in Live
    <3>1. t \in Live <=> t \in owner \/ \E v \in Workers : Refers(kept[v], running[v], queue[v], t)
      BY ReferencedBy DEF Live, Alive
    <3>2. t \in Live' <=> t \in owner' \/ \E v \in Workers : Refers(kept'[v], running'[v], queue'[v], t)
      BY ReferencedBy DEF Live, Alive
    <3> QED BY <1>1, <2>1, <3>1, <3>2
  <2>3. Live \subseteq Slots /\ Live' \subseteq Slots
    BY DEF Live
  <2> QED BY <2>2, <2>3
<1>7. SlotsOK' /\ ThreadsOK' /\ Places' /\ Own'
  <2>1. QueueOK(queue'[w], index)
    BY <1>2, <1>3, <1>4, QueuePosted
  <2>2. ASSUME w \notin stopped, NEW t \in Live'
        PROVE  Follows(data'[w], queue'[w], running'[w], kept'[w], index[t], version[t], t)
    <3>1. Follows(data[w], queue[w], running[w], kept[w], index[t], version[t], t)
      BY <1>1, <1>6, <2>2 DEF IInv, Own
    <3>2. t \in Slots /\ version[t] \in Nat
      BY SMTT(30), <1>2, <1>6, <2>2, ThreadLocalAssumption
    <3>3. /\ c.kind = "clear" => c.index # index[t]
          /\ c.kind \in {"keep", "update"} /\ c.slot = t => version[t] > 0
      BY <1>1, <1>3
    <3>4. Follows(data[w], Append(queue[w], c), running[w], kept[w], index[t], version[t], t)
      <4>1. queue[w] \in Seq(WorkerCalls) /\ c \in WorkerCalls
        BY <1>2, <1>3
      <4> QED BY <3>1, <3>2, <3>3, <4>1, CallPosted
    <3> QED BY <1>1, <1>4, <3>4
  <2>3. /\ DataOK(data'[w], index, Len(slotAt)) /\ RunOK(running'[w], index)
        /\ KeptOK(kept'[w], index) /\ Live' \subseteq Live
    BY <1>1, <1>2, <1>6
  <2> QED BY <1>1, <1>5, <2>1, <2>2, <2>3, WorkerAlone
<1>8. Accounted'
  <2>1. \A i : Posters(i)' = Posters(i)
    BY <1>1 DEF Posters
  <2> QED BY <1>1, <1>4, <1>6, <2>1, AccountedStays DEF IInv
<1>9. Completions' /\ MainOK'
  <2>1. ASSUME NEW v \in Workers, NEW u, HasGuard(running'[v], queue'[v], u)
        PROVE  HasGuard(running[v], queue[v], u)
    <3>1. CASE v = w
      <4>1. HasGuard(running[w], Append(queue[w], c), u)
        BY <1>1, <1>4, <2>1, <3>1
      <4>2. c.kind # "update"
        BY <1>3
      <4>3. HasGuard(running[w], queue[w], u)
        BY <1>2, <1>3, <4>1, <4>2, GuardPosted
      <4> QED BY <3>1, <4>3
    <3>2. CASE v # w
      BY <1>1, <1>4, <2>1, <3>2
    <3> QED BY <3>1, <3>2
  <2>2. Completions'
    BY <1>1, <1>4, <2>1, CompletionsStay DEF IInv
  <2> QED BY <1>1, <1>4, <2>2 DEF IInv, MainOK
<1> QED BY <1>7, <1>8, <1>9 DEF IInv

(* A callback goes to every registered worker, and the main thread may     *)
(* have applied it to its own data.                                        *)
PostedToAll(c) ==
  /\ \A w \in Workers : queue'[w] = IF w \in registered THEN Append(queue[w], c) ELSE queue[w]
  /\ DOMAIN queue' = Threads /\ DOMAIN data' = Threads
  /\ \A w \in Workers : data'[w] = data[w]
  /\ data'[Main] \in Datas /\ Len(data'[Main]) <= Len(slotAt)
  /\ registered' = registered /\ stopped' = stopped
  /\ index' = index /\ kept' = kept /\ running' = running /\ Len(slotAt') = Len(slotAt)

(* InstanceImpl::runOnAllThreads posts to the workers only. *)
LEMMA PostToAllQueues ==
  ASSUME IInv, NEW q, NEW c
  PROVE  /\ DOMAIN PostToAll(q, c) = Threads /\ PostToAll(q, c)[Main] = q[Main]
         /\ \A w \in Workers :
              PostToAll(q, c)[w] = IF w \in registered THEN Append(q[w], c) ELSE q[w]
<1>1. Main \in Threads /\ Workers \subseteq Threads /\ Main \notin Workers
  BY SMTT(30), ThreadLocalAssumption DEF Threads, Workers, Main
<1>2. Main \notin registered
  BY <1>1 DEF IInv, SlotsOK
<1> QED BY <1>1, <1>2 DEF PostToAll

(* What is said of the workers holds with the callback in their queues. *)
LEMMA PostedKeeps ==
  ASSUME IInv, NEW c, CallOK(c, index), PostedToAll(c), Live' \subseteq Live,
         version' \in [Slots -> 0..MaxSets],
         \A s \in Live' :
           /\ c.kind = "clear" => c.index # index[s]
           /\ c.kind \in {"keep", "update"} /\ c.slot = s => version[s] > 0
           /\ version'[s] = version[s] \/ (c.kind = "set" /\ c.slot = s)
  PROVE  ThreadsOK' /\ Own'
<1>1. /\ Live \subseteq Slots /\ version \in [Slots -> 0..MaxSets] /\ registered \subseteq Workers
      /\ c \in WorkerCalls
  BY DEF Live, IInv, SlotsOK, CallOK
<1>2. ThreadsOK'
  <2>1. ASSUME NEW w \in Workers
        PROVE  /\ DataOK(data'[w], index', Len(slotAt')) /\ QueueOK(queue'[w], index')
               /\ RunOK(running'[w], index') /\ KeptOK(kept'[w], index')
    <3>1. QueueOK(queue[w], index) /\ QueueOK(Append(queue[w], c), index)
      BY WorkerFacts, QueuePosted
    <3>2. QueueOK(queue'[w], index)
      BY <3>1 DEF PostedToAll
    <3> QED BY <3>2, WorkerFacts DEF PostedToAll
  <2>2. ASSUME NEW w \in Workers \ registered'
        PROVE  queue'[w] = <<>> /\ data'[w] = <<>> /\ running'[w] = None /\ kept'[w] = {}
    BY DEF IInv, ThreadsOK, PostedToAll
  <2>3. /\ DOMAIN queue' = Threads /\ DOMAIN data' = Threads
        /\ kept' \in [Workers -> SUBSET Slots] /\ running' \in [Workers -> Runs \cup {None}]
        /\ data'[Main] \in Datas /\ Len(data'[Main]) <= Len(slotAt')
    BY DEF IInv, ThreadsOK, PostedToAll
  <2> QED BY <2>1, <2>2, <2>3 DEF ThreadsOK
<1>3. Own'
  <2>1. ASSUME NEW w \in registered \ stopped, NEW s \in Live'
        PROVE  Follows(data'[w], queue'[w], running'[w], kept'[w], index[s], version'[s], s)
    <3>1. Follows(data[w], queue[w], running[w], kept[w], index[s], version[s], s)
      BY DEF IInv, Own
    <3>2. s \in Slots /\ version[s] \in Nat /\ version'[s] \in Nat
      BY SMTT(30), <1>1, ThreadLocalAssumption
    <3>3. queue[w] \in Seq(WorkerCalls) /\ c \in WorkerCalls
      BY <1>1, WorkerFacts
    <3>4. Follows(data[w], Append(queue[w], c), running[w], kept[w], index[s], version'[s], s)
      BY <3>1, <3>2, <3>3, CallPosted
    <3> QED BY <1>1, <3>4 DEF PostedToAll
  <2> QED BY <2>1 DEF Own, PostedToAll
<1> QED BY <1>2, <1>3

(* A callback that is no reference changes the references of no worker. *)
LEMMA PostedRefers ==
  ASSUME IInv, NEW c \in WorkerCalls, c.kind # "keep", PostedToAll(c), NEW w \in Workers
  PROVE  /\ \A s : Refers(kept'[w], running'[w], queue'[w], s) <=>
                   Refers(kept[w], running[w], queue[w], s)
         /\ \A u : HasGuard(running'[w], queue'[w], u) =>
                   \/ HasGuard(running[w], queue[w], u)
                   \/ c.kind = "update" /\ c.guarded /\ c.update = u
<1>1. queue[w] \in Seq(WorkerCalls)
  BY WorkerFacts
<1>2. ASSUME NEW s PROVE Refers(kept[w], running[w], Append(queue[w], c), s) <=>
                         Refers(kept[w], running[w], queue[w], s)
  BY <1>1, RefersPosted
<1>3. ASSUME NEW u PROVE HasGuard(running[w], Append(queue[w], c), u) =>
                         \/ HasGuard(running[w], queue[w], u)
                         \/ c.kind = "update" /\ c.guarded /\ c.update = u
  BY SMTT(30), <1>1, GuardPosted
<1> QED BY <1>2, <1>3 DEF PostedToAll

(* A live slot has an index; the slots of the main thread are live. *)
LEMMA LiveHasIndex ==
  ASSUME IInv, NEW s \in Live
  PROVE  s \in Slots /\ index[s] \in 1..Len(slotAt) /\ slotAt[index[s]] = s
<1>1. s \in Slots /\ index[s] # 0 /\ slotAt[index[s]] = s
  BY DEF IInv, Places, Live
<1>2. index \in [Slots -> 0..Len(slotAt)] /\ Len(slotAt) \in Nat
  BY SMTT(30) DEF IInv, SlotsOK
<1> QED BY SMTT(30), <1>1, <1>2

(* A slot the main thread owns has not been destroyed. *)
LEMMA OwnedIsLive ==
  ASSUME NEW s \in Slots, s \in owner
  PROVE  s \in Live
  BY ReferencedBy DEF Live, Alive

(* What is known of the main thread *)
LEMMA MainFacts ==
  ASSUME IInv
  PROVE  /\ DOMAIN queue = Threads /\ DOMAIN data = Threads /\ Workers \subseteq Threads
         /\ Main \in Threads /\ Main \notin Workers /\ Main \notin registered
         /\ data[Main] \in Datas /\ Len(data[Main]) \in Nat /\ Len(data[Main]) <= Len(slotAt)
         /\ queue[Main] \in Seq(MainCalls) /\ Len(slotAt) \in Nat
         /\ slotAt \in Seq(Slots \cup {None}) /\ free \in Seq(1..Len(slotAt))
         /\ index \in [Slots -> 0..Len(slotAt)] /\ version \in [Slots -> 0..MaxSets]
         /\ registered \subseteq Workers /\ Live \subseteq Slots
<1>1. Main \in Threads /\ Workers \subseteq Threads /\ Main \notin Workers
  BY SMTT(30), ThreadLocalAssumption DEF Threads, Workers, Main
<1>2. /\ DOMAIN queue = Threads /\ DOMAIN data = Threads
      /\ data[Main] \in Datas /\ Len(data[Main]) <= Len(slotAt)
      /\ queue[Main] \in Seq(MainCalls)
      /\ slotAt \in Seq(Slots \cup {None}) /\ free \in Seq(1..Len(slotAt))
      /\ index \in [Slots -> 0..Len(slotAt)] /\ version \in [Slots -> 0..MaxSets]
      /\ registered \subseteq Workers
  BY DEF IInv, ThreadsOK, SlotsOK, MainOK
<1>3. Len(data[Main]) \in Nat /\ Len(slotAt) \in Nat
  BY SMTT(30), <1>2 DEF Datas
<1>4. Live \subseteq Slots
  BY DEF Live
<1> QED BY <1>1, <1>2, <1>3, <1>4

(* SlotImpl::set *)
LEMMA SetKeeps ==
  ASSUME IInv, NEW s \in Slots, Set(s)
  PROVE  IInv'
<1> DEFINE c == SetCallback(s)
<1>1. /\ s \in owner /\ version[s] < MaxSets /\ version' = [version EXCEPT ![s] = @ + 1]
      /\ queue' = PostToAll(queue, c) /\ data' = [data EXCEPT ![Main] = Apply(@, c)]
      /\ slotAt' = slotAt /\ free' = free /\ index' = index
      /\ registered' = registered /\ shutdown' = shutdown /\ stopped' = stopped
      /\ running' = running /\ owner' = owner /\ kept' = kept
      /\ updates' = updates /\ completed' = completed
  BY DEF Set, threadVars, historyVars
<1>2. s \in Live /\ index[s] \in 1..Len(slotAt)
  BY <1>1, OwnedIsLive, LiveHasIndex
<1>3. /\ version' \in [Slots -> 0..MaxSets] /\ version'[s] \in Nat
      /\ \A t \in Slots : t # s => version'[t] = version[t]
  <2>1. version \in [Slots -> 0..MaxSets]
    BY MainFacts
  <2> QED BY SMTT(30), <1>1, <2>1, ThreadLocalAssumption
<1>4. /\ c \in SetCalls /\ c \in WorkerCalls /\ c.kind = "set" /\ c.slot = s /\ c.index = index[s]
  <2>1. index[s] \in Nat /\ version'[s] \in Nat
    BY SMTT(30), <1>2, <1>3
  <2>2. c \in SetCalls
    BY <2>1 DEF SetCallback, SetCalls
  <2> QED BY <2>2 DEF SetCallback, WorkerCalls
<1> HIDE DEF c
<1>5. CallOK(c, index)
  BY SMTT(30), <1>2, <1>4 DEF CallOK
<1>6. PostedToAll(c) /\ queue'[Main] = queue[Main]
  <2>1. /\ data[Main] \in Datas /\ Len(data[Main]) <= Len(slotAt) /\ Len(slotAt) \in Nat
        /\ DOMAIN data = Threads /\ Main \in Threads /\ Main \notin Workers
        /\ Workers \subseteq Threads
    BY MainFacts
  <2>2. Apply(data[Main], c) \in Datas /\ Len(Apply(data[Main], c)) <= Len(slotAt)
    BY <1>2, <1>4, <2>1, ApplySet
  <2>3. /\ DOMAIN data' = Threads /\ data'[Main] = Apply(data[Main], c)
        /\ \A w \in Workers : data'[w] = data[w]
    BY <1>1, <2>1
  <2>4. /\ DOMAIN queue' = Threads /\ queue'[Main] = queue[Main]
        /\ \A w \in Workers : queue'[w] = IF w \in registered THEN Append(queue[w], c) ELSE queue[w]
    BY <1>1, PostToAllQueues
  <2> QED BY <1>1, <2>2, <2>3, <2>4 DEF PostedToAll
<1>7. ASSUME NEW w \in Workers
      PROVE  /\ \A t : Refers(kept'[w], running'[w], queue'[w], t) <=>
                       Refers(kept[w], running[w], queue[w], t)
             /\ \A u : HasGuard(running'[w], queue'[w], u) => HasGuard(running[w], queue[w], u)
  <2>1. c.kind # "keep" /\ c.kind # "update"
    BY <1>4
  <2> QED BY <1>4, <1>6, <2>1, PostedRefers
<1>8. Live' = Live
  BY <1>1, <1>7, LiveStays
<1>9. ThreadsOK' /\ Own'
  <2>1. ASSUME NEW t \in Live'
        PROVE  /\ c.kind = "clear" => c.index # index[t]
               /\ c.kind \in {"keep", "update"} /\ c.slot = t => version[t] > 0
               /\ version'[t] = version[t] \/ (c.kind = "set" /\ c.slot = t)
    BY <1>3, <1>4 DEF Live
  <2> QED BY <1>3, <1>5, <1>6, <1>8, <2>1, PostedKeeps
<1>10. SlotsOK' /\ Places' /\ MainOK'
  <2>1. \A t \in Slots : version'[t] > 0 => index[t] # 0
    <3>1. index[s] # 0
      BY SMTT(30), <1>2
    <3> QED BY <1>3, <3>1 DEF IInv, SlotsOK
  <2>2. SlotsOK'
    BY <1>1, <1>3, <2>1 DEF IInv, SlotsOK
  <2> QED BY <1>1, <1>6, <1>8, <2>2 DEF IInv, Places, MainOK
<1>11. Accounted' /\ Completions'
  <2>1. \A i : Posters(i)' = Posters(i)
    BY <1>1 DEF Posters
  <2>2. Accounted'
    BY <1>1, <1>6, <1>8, <2>1, AccountedStays DEF IInv
  <2>3. Completions'
    BY <1>1, <1>6, <1>7, CompletionsStay DEF IInv
  <2> QED BY <2>2, <2>3
<1> QED BY <1>9, <1>10, <1>11 DEF IInv

(* SlotImpl::runOnAllThreads: the update is a new one, and its completion  *)
(* is posted at once only if there is no worker.                           *)
LEMMA RunOnAllThreadsKeeps ==
  ASSUME IInv, NEW s \in Slots, RunOnAllThreads(s)
  PROVE  IInv'
<1> DEFINE n == updates + 1
           c == UpdateCallback(s, n, s \in Confirmed)
           q == PostToAll(queue, c)
<1>1. /\ s \in owner /\ version[s] > 0 /\ updates' = n
      /\ data' = [data EXCEPT ![Main] = Apply(@, c)]
      /\ queue' = IF s \in Confirmed /\ registered = {}
                  THEN [q EXCEPT ![Main] = Append(@, CompleteCallback(n))] ELSE q
      /\ slotAt' = slotAt /\ free' = free /\ index' = index /\ version' = version
      /\ registered' = registered /\ shutdown' = shutdown /\ stopped' = stopped
      /\ running' = running /\ owner' = owner /\ kept' = kept /\ completed' = completed
  BY DEF RunOnAllThreads, slotVars, threadVars
<1>2. s \in Live /\ index[s] \in 1..Len(slotAt)
  BY <1>1, OwnedIsLive, LiveHasIndex
<1>3. updates \in Nat /\ n \in Nat /\ n \notin 1..updates /\ 1..n = 1..updates \cup {n}
  BY SMTT(30) DEF IInv, SlotsOK
<1>4. /\ c \in UpdateCalls /\ c \in WorkerCalls /\ c.kind = "update" /\ c.slot = s
      /\ c.index = index[s] /\ c.update = n
  <2>1. index[s] \in Nat /\ (s \in Confirmed) \in BOOLEAN
    BY SMTT(30), <1>2
  <2>2. c \in UpdateCalls
    BY <1>3, <2>1 DEF UpdateCallback, UpdateCalls
  <2> QED BY <2>2 DEF UpdateCallback, WorkerCalls
<1> HIDE DEF c, n
<1>5. CallOK(c, index)
  BY SMTT(30), <1>2, <1>4 DEF CallOK
<1>6. /\ DOMAIN q = Threads /\ q[Main] = queue[Main]
      /\ \A w \in Workers : q[w] = IF w \in registered THEN Append(queue[w], c) ELSE queue[w]
  BY PostToAllQueues
<1> HIDE DEF q
<1>7. /\ DOMAIN queue' = Threads
      /\ \A w \in Workers : queue'[w] = IF w \in registered THEN Append(queue[w], c) ELSE queue[w]
      /\ queue'[Main] = IF s \in Confirmed /\ registered = {}
                        THEN Append(queue[Main], CompleteCallback(n)) ELSE queue[Main]
  <2>1. Main \in Threads /\ Main \notin Workers /\ Workers \subseteq Threads
    BY MainFacts
  <2> QED BY <1>1, <1>6, <2>1
<1>8. PostedToAll(c)
  <2>1. /\ data[Main] \in Datas /\ Len(data[Main]) <= Len(slotAt) /\ DOMAIN data = Threads
        /\ Main \in Threads /\ Main \notin Workers /\ Workers \subseteq Threads
    BY MainFacts
  <2>2. Apply(data[Main], c) \in Datas /\ Len(Apply(data[Main], c)) <= Len(slotAt)
    BY <1>4, <2>1, ApplyUpdate
  <2>3. /\ DOMAIN data' = Threads /\ data'[Main] = Apply(data[Main], c)
        /\ \A w \in Workers : data'[w] = data[w]
    BY <1>1, <2>1
  <2> QED BY <1>1, <1>7, <2>2, <2>3 DEF PostedToAll
<1>9. ASSUME NEW w \in Workers
      PROVE  /\ \A t : Refers(kept'[w], running'[w], queue'[w], t) <=>
                       Refers(kept[w], running[w], queue[w], t)
             /\ \A u : HasGuard(running'[w], queue'[w], u) =>
                  HasGuard(running[w], queue[w], u) \/ (u = n /\ s \in Confirmed /\ registered # {})
  <2>1. c.kind # "keep" /\ (c.guarded <=> s \in Confirmed)
    <3>1. c.guarded <=> s \in Confirmed
      BY DEF c, UpdateCallback
    <3> QED BY <1>4, <3>1
  <2>2. /\ \A t : Refers(kept'[w], running'[w], queue'[w], t) <=>
                  Refers(kept[w], running[w], queue[w], t)
        /\ \A u : HasGuard(running'[w], queue'[w], u) =>
             HasGuard(running[w], queue[w], u) \/ (u = n /\ s \in Confirmed)
    BY <1>4, <1>8, <2>1, PostedRefers
  <2>3. registered = {} => queue'[w] = queue[w] /\ running'[w] = running[w]
    BY <1>1, <1>7
  <2> QED BY <2>2, <2>3
<1>10. Live' = Live
  BY <1>1, <1>9, LiveStays
<1>11. ThreadsOK' /\ Own'
  <2>1. ASSUME NEW t \in Live'
        PROVE  /\ c.kind = "clear" => c.index # index[t]
               /\ c.kind \in {"keep", "update"} /\ c.slot = t => version[t] > 0
               /\ version'[t] = version[t] \/ (c.kind = "set" /\ c.slot = t)
    BY <1>1, <1>4
  <2>2. version' \in [Slots -> 0..MaxSets]
    BY <1>1, MainFacts
  <2> QED BY <1>5, <1>8, <1>10, <2>1, <2>2, PostedKeeps
<1>12. /\ queue'[Main] \in Seq(MainCalls)
       /\ \A i : Removals(queue'[Main], i) = Removals(queue[Main], i)
       /\ \A u : Completing(queue'[Main], u) =
            IF u = n /\ s \in Confirmed /\ registered = {}
            THEN Completing(queue[Main], u) \cup {Len(queue[Main]) + 1}
            ELSE Completing(queue[Main], u)
  <2>1. queue[Main] \in Seq(MainCalls)
    BY MainFacts
  <2>2. CASE s \in Confirmed /\ registered = {}
    <3> DEFINE m == CompleteCallback(n)
    <3>1. m \in MainCalls /\ m.kind # "remove" /\ m.kind = "complete" /\ m.update = n
      BY <1>3 DEF CompleteCallback, MainCalls
    <3> HIDE DEF m
    <3> DEFINE o == queue[Main]
    <3>a. o \in Seq(MainCalls)
      BY <2>1
    <3>2. /\ Append(o, m) \in Seq(MainCalls)
          /\ \A i : Removals(Append(o, m), i) = Removals(o, i)
          /\ \A u : Completing(Append(o, m), u) = IF u = n THEN Completing(o, u) \cup {Len(o) + 1}
                                                 ELSE Completing(o, u)
      <4> HIDE DEF o
      <4> QED BY <3>1, <3>a, MainPosted
    <3>3. queue'[Main] = Append(queue[Main], m)
      BY <1>7, <2>2 DEF m
    <3> QED BY <2>2, <3>2, <3>3
  <2>3. CASE ~(s \in Confirmed /\ registered = {})
    BY <1>7, <2>1, <2>3
  <2> QED BY <2>2, <2>3
<1>13. SlotsOK' /\ Places' /\ MainOK'
  <2>1. SlotsOK'
    BY <1>1, <1>3 DEF IInv, SlotsOK
  <2>2. Places'
    BY <1>1, <1>10 DEF IInv, Places
  <2>3. ASSUME NEW k \in DOMAIN queue'[Main], queue'[Main][k].kind = "remove"
        PROVE  queue'[Main][k].index \in 1..Len(slotAt)
    <3> DEFINE i == queue'[Main][k].index
    <3>1. k \in Removals(queue'[Main], i)
      BY <2>3 DEF Removals
    <3>2. k \in Removals(queue[Main], i)
      BY <1>12, <3>1
    <3> HIDE DEF i
    <3>3. i \in 1..Len(slotAt)
      BY <3>2 DEF IInv, MainOK, Removals
    <3> QED BY <3>3 DEF i
  <2> QED BY <1>1, <1>12, <2>1, <2>2, <2>3 DEF MainOK
<1>14. Accounted'
  <2>1. \A i : Posters(i)' = Posters(i)
    BY <1>1 DEF Posters
  <2> QED BY <1>1, <1>10, <1>12, <2>1, AccountedStays DEF IInv
<1>15. Completions'
  <2>1. n \notin completed /\ Completing(queue[Main], n) = {}
    BY <1>3 DEF IInv, Completions
  <2>2. ASSUME NEW u \in Nat
        PROVE  /\ AtMostOne(Completing(queue'[Main], u))
               /\ u \in completed => Completing(queue'[Main], u) = {}
               /\ u \in completed \/ Completing(queue'[Main], u) # {} => u \in 1..n
    <3>1. /\ AtMostOne(Completing(queue[Main], u))
          /\ u \in completed => Completing(queue[Main], u) = {}
          /\ u \in completed \/ Completing(queue[Main], u) # {} => u \in 1..updates
      BY DEF IInv, Completions
    <3>2. CASE u = n
      <4>1. Completing(queue'[Main], n) \subseteq {Len(queue[Main]) + 1}
        BY <1>12, <2>1
      <4>2. n \in 1..n
        BY <1>3
      <4>3. AtMostOne(Completing(queue'[Main], n))
        BY <4>1 DEF AtMostOne
      <4> QED BY <2>1, <3>2, <4>2, <4>3
    <3>3. CASE u # n
      BY <1>3, <1>12, <3>1, <3>3
    <3> QED BY <3>2, <3>3
  <2>3. ASSUME NEW u \in Nat, NEW w \in Workers, HasGuard(running'[w], queue'[w], u)
        PROVE  u \in 1..n /\ u \notin completed /\ Completing(queue'[Main], u) = {}
    <3>1. CASE HasGuard(running[w], queue[w], u)
      <4>1. u \in 1..updates /\ u \notin completed /\ Completing(queue[Main], u) = {}
        BY <3>1 DEF IInv, Completions
      <4> QED BY <1>3, <1>12, <4>1
    <3>2. CASE u = n /\ s \in Confirmed /\ registered # {}
      BY <1>3, <1>12, <2>1, <3>2
    <3>3. HasGuard(running[w], queue[w], u) \/ (u = n /\ s \in Confirmed /\ registered # {})
      BY <1>9, <2>3
    <3> QED BY <3>1, <3>2, <3>3
  <2> QED BY <1>1, <2>2, <2>3 DEF Completions
<1> QED BY <1>11, <1>13, <1>14, <1>15 DEF IInv

-----------------------------------------------------------------------------
(* The removal of a slot *)

(* The entry of index i is reset, and the index is free. *)
LEMMA IndexFreed ==
  ASSUME slotAt \in Seq(Slots \cup {None}), free \in Seq(1..Len(slotAt)), NEW i \in 1..Len(slotAt),
         slotAt' = [slotAt EXCEPT ![i] = None], free' = Append(free, i)
  PROVE  /\ slotAt' \in Seq(Slots \cup {None}) /\ Len(slotAt') = Len(slotAt) /\ slotAt'[i] = None
         /\ \A j \in 1..Len(slotAt) : j # i => slotAt'[j] = slotAt[j]
         /\ free' \in Seq(1..Len(slotAt)) /\ Len(free) + 1 \notin DOMAIN free
         /\ DOMAIN free' = DOMAIN free \cup {Len(free) + 1} /\ free'[Len(free) + 1] = i
         /\ \A k \in DOMAIN free : free'[k] = free[k]
<1>1. /\ slotAt' \in Seq(Slots \cup {None}) /\ Len(slotAt') = Len(slotAt) /\ slotAt'[i] = None
      /\ \A j \in 1..Len(slotAt) : j # i => slotAt'[j] = slotAt[j]
  BY SMTT(30)
<1>2. /\ free' \in Seq(1..Len(slotAt)) /\ Len(free) + 1 \notin DOMAIN free
      /\ DOMAIN free' = DOMAIN free \cup {Len(free) + 1} /\ free'[Len(free) + 1] = i
      /\ \A k \in DOMAIN free : free'[k] = free[k]
  BY SMTT(30)
<1> QED BY <1>1, <1>2

(* InstanceImpl::removeSlot before the shutdown posts the clearing of the  *)
(* index, which is no reference and no update.                             *)
LEMMA RemoveSlotPosts ==
  ASSUME IInv, ~shutdown, NEW i \in 1..Len(slotAt), NEW q, \A w \in Workers : q[w] = queue[w],
         RemoveSlot(i, q), index' = index, registered' = registered, stopped' = stopped,
         kept' = kept, running' = running
  PROVE  /\ PostedToAll(ClearCallback(i)) /\ CallOK(ClearCallback(i), index)
         /\ queue'[Main] = q[Main]
         /\ slotAt' = [slotAt EXCEPT ![i] = None] /\ free' = Append(free, i)
         /\ \A w \in Workers :
              /\ \A s : Refers(kept'[w], running'[w], queue'[w], s) <=>
                        Refers(kept[w], running[w], queue[w], s)
              /\ \A u : HasGuard(running'[w], queue'[w], u) => HasGuard(running[w], queue[w], u)
<1> DEFINE c == ClearCallback(i)
<1>1. /\ slotAt' = [slotAt EXCEPT ![i] = None] /\ free' = Append(free, i)
      /\ queue' = PostToAll(q, c) /\ data' = [data EXCEPT ![Main] = Apply(@, c)]
  BY DEF RemoveSlot
<1>2. /\ data[Main] \in Datas /\ Len(data[Main]) <= Len(slotAt) /\ DOMAIN data = Threads
      /\ Main \in Threads /\ Main \notin Workers /\ Workers \subseteq Threads
      /\ slotAt \in Seq(Slots \cup {None}) /\ Len(slotAt) \in Nat
  BY MainFacts
<1>3. i \in Nat \ {0}
  BY SMTT(30), <1>2
<1>4. c \in WorkerCalls /\ c.kind = "clear" /\ c.slot = None /\ c.index = i
  <2>1. c \in ClearCalls
    BY <1>3 DEF ClearCallback, ClearCalls
  <2> QED BY <2>1 DEF ClearCallback, WorkerCalls
<1> HIDE DEF c
<1>5. CallOK(c, index)
  BY <1>3, <1>4 DEF CallOK
<1>6. /\ DOMAIN queue' = Threads /\ queue'[Main] = q[Main]
      /\ \A w \in Workers : queue'[w] = IF w \in registered THEN Append(queue[w], c) ELSE queue[w]
  <2>1. /\ DOMAIN PostToAll(q, c) = Threads /\ PostToAll(q, c)[Main] = q[Main]
        /\ \A w \in Workers :
             PostToAll(q, c)[w] = IF w \in registered THEN Append(q[w], c) ELSE q[w]
    BY PostToAllQueues
  <2>2. queue' = PostToAll(q, c)
    BY <1>1
  <2>3. ASSUME NEW w \in Workers
        PROVE  queue'[w] = IF w \in registered THEN Append(queue[w], c) ELSE queue[w]
    <3>1. q[w] = queue[w]
      OBVIOUS
    <3>2. queue'[w] = IF w \in registered THEN Append(q[w], c) ELSE q[w]
      BY <2>1, <2>2
    <3> QED BY <3>1, <3>2
  <2> QED BY <2>1, <2>2, <2>3
<1>7. PostedToAll(c)
  <2>1. Apply(data[Main], c) \in Datas /\ Len(Apply(data[Main], c)) <= Len(slotAt)
    <3>1. c.kind = "clear" /\ c.index \in Nat \ {0}
      BY <1>3, <1>4
    <3> QED BY <1>2, <3>1, ApplyClear
  <2>2. /\ DOMAIN data' = Threads /\ data'[Main] = Apply(data[Main], c)
        /\ \A w \in Workers : data'[w] = data[w]
    BY <1>1, <1>2
  <2>3. Len(slotAt') = Len(slotAt)
    BY SMTT(30), <1>1, <1>2
  <2> QED BY <1>6, <2>1, <2>2, <2>3 DEF PostedToAll
<1>8. ASSUME NEW w \in Workers
      PROVE  /\ \A s : Refers(kept'[w], running'[w], queue'[w], s) <=>
                       Refers(kept[w], running[w], queue[w], s)
             /\ \A u : HasGuard(running'[w], queue'[w], u) => HasGuard(running[w], queue[w], u)
  <2>1. c.kind # "keep" /\ c.kind # "update"
    BY <1>4
  <2> QED BY <1>4, <1>7, <2>1, PostedRefers
<1> QED BY <1>1, <1>5, <1>6, <1>7, <1>8 DEF c

(* An index keeps its holder when the removals of it move up. *)
LEMMA BalancedStays ==
  ASSUME NEW x, NEW f, NEW r, NEW p, NEW live, Balanced(x, f, r, p, live),
         NEW r2, AtMostOne(r2), r2 = {} <=> r = {}, NEW live2, x # None => (x \in live2 <=> x \in live)
  PROVE  Balanced(x, f, r2, p, live2)
  BY DEF Balanced

(* The removal of index i: its slot is dead and has no other removal on    *)
(* the way, and q is what is left of the queue of the main thread.         *)
LEMMA SlotRemoved ==
  ASSUME IInv, ~shutdown, NEW i \in 1..Len(slotAt), NEW q, \A w \in Workers : q[w] = queue[w],
         RemoveSlot(i, q), index' = index, registered' = registered, stopped' = stopped,
         kept' = kept, running' = running, version' = version, shutdown' = shutdown,
         updates' = updates, owner' \subseteq owner, Live' \subseteq Live,
         \A s \in Live : s \notin Live' <=> index[s] = i,
         q[Main] \in Seq(MainCalls),
         \A k \in DOMAIN q[Main] : q[Main][k].kind = "remove" => q[Main][k].index \in 1..Len(slotAt),
         Removals(q[Main], i) = {}, Posters(i) = {}, FreeAt(i) = {},
         \A j \in 1..Len(slotAt) : j # i =>
           /\ AtMostOne(Removals(q[Main], j))
           /\ Removals(q[Main], j) = {} <=> Removals(queue[Main], j) = {}
  PROVE  SlotsOK' /\ ThreadsOK' /\ MainOK' /\ Places' /\ Accounted' /\ Own'
<1> DEFINE c == ClearCallback(i)
<1>1. /\ PostedToAll(c) /\ CallOK(c, index) /\ queue'[Main] = q[Main]
      /\ slotAt' = [slotAt EXCEPT ![i] = None] /\ free' = Append(free, i)
  BY RemoveSlotPosts
<1>2. c.kind = "clear" /\ c.index = i
  BY DEF ClearCallback
<1> HIDE DEF c
<1>3. /\ slotAt \in Seq(Slots \cup {None}) /\ free \in Seq(1..Len(slotAt)) /\ Len(slotAt) \in Nat
      /\ Live \subseteq Slots /\ version \in [Slots -> 0..MaxSets]
  BY MainFacts
<1>4. /\ slotAt' \in Seq(Slots \cup {None}) /\ Len(slotAt') = Len(slotAt)
      /\ free' \in Seq(1..Len(slotAt)) /\ slotAt'[i] = None
      /\ \A j \in 1..Len(slotAt) : j # i => slotAt'[j] = slotAt[j]
  BY <1>1, <1>3, IndexFreed
<1>5. SlotsOK'
  BY <1>4 DEF IInv, SlotsOK
<1>6. MainOK'
  BY <1>1, <1>4 DEF MainOK
<1>7. Places'
  <2>1. ASSUME NEW s \in Live' PROVE index[s] # 0 /\ slotAt'[index[s]] = s
    <3>1. s \in Live /\ index[s] # i /\ index[s] \in 1..Len(slotAt) /\ slotAt[index[s]] = s
      BY LiveHasIndex
    <3>2. index[s] # 0
      BY <3>1 DEF IInv, Places
    <3> QED BY <1>4, <3>1, <3>2
  <2> QED BY <2>1 DEF Places
<1>8. ThreadsOK' /\ Own'
  <2>1. ASSUME NEW s \in Live'
        PROVE  /\ c.kind = "clear" => c.index # index[s]
               /\ c.kind \in {"keep", "update"} /\ c.slot = s => version[s] > 0
               /\ version'[s] = version[s] \/ (c.kind = "set" /\ c.slot = s)
    <3>1. c.kind \notin {"keep", "update"}
      BY <1>2
    <3> QED BY <1>2, <3>1
  <2> QED BY <1>1, <1>3, <2>1, PostedKeeps
<1>9. ASSUME NEW j \in 1..Len(slotAt)
      PROVE  /\ slotAt'[j] # None => index[slotAt'[j]] = j
             /\ Balanced(slotAt'[j], FreeAt(j)', Removals(queue'[Main], j), Posters(j)', Live')
  <2>1. Posters(j)' = Posters(j)
    BY DEF Posters
  <2>2. FreeAt(j)' = IF j = i THEN FreeAt(j) \cup {Len(free) + 1} ELSE FreeAt(j)
    <3>1. /\ DOMAIN free' = DOMAIN free \cup {Len(free) + 1} /\ free'[Len(free) + 1] = i
          /\ \A k \in DOMAIN free : free'[k] = free[k]
          /\ Len(free) + 1 \notin DOMAIN free
      BY <1>1, <1>3, IndexFreed
    <3> QED BY <3>1 DEF FreeAt
  <2>3. /\ slotAt[j] # None => index[slotAt[j]] = j
        /\ Balanced(slotAt[j], FreeAt(j), Removals(queue[Main], j), Posters(j), Live)
    BY DEF IInv, Accounted
  <2>4. CASE j = i
    <3>1. FreeAt(j)' = {Len(free) + 1}
      BY <2>2, <2>4
    <3>2. /\ slotAt'[j] = None /\ Removals(queue'[Main], j) = {} /\ Posters(j)' = {}
      BY <1>1, <1>4, <2>1, <2>4
    <3>3. Balanced(None, {Len(free) + 1}, {}, {}, Live')
      BY DEF Balanced, AtMostOne
    <3> QED BY <3>1, <3>2, <3>3
  <2>5. CASE j # i
    <3>1. slotAt'[j] = slotAt[j] /\ FreeAt(j)' = FreeAt(j) /\ queue'[Main] = q[Main]
      BY <1>1, <1>4, <2>2, <2>5
    <3>2. slotAt[j] # None => (slotAt[j] \in Live' <=> slotAt[j] \in Live)
      BY <2>3, <2>5
    <3>3. Balanced(slotAt[j], FreeAt(j), Removals(q[Main], j), Posters(j), Live')
      BY <2>3, <2>5, <3>2, BalancedStays
    <3> QED BY <2>1, <2>3, <3>1, <3>3
  <2> QED BY <2>4, <2>5
<1>10. Accounted'
  BY <1>4, <1>9 DEF Accounted
<1> QED BY <1>5, <1>6, <1>7, <1>8, <1>10

(* Threads stop, slots lose references and the main thread its data, and   *)
(* nothing else changes.  From the shutdown on, the indexes of dead slots  *)
(* stay as they are.                                                       *)
LEMMA UnchangedKeeps ==
  ASSUME IInv, UNCHANGED <<slotVars, registered, queue, running, kept, updates, completed>>,
         shutdown' \in BOOLEAN, shutdown => shutdown', stopped \subseteq stopped',
         stopped' \subseteq Threads, owner' \subseteq owner, Live' \subseteq Live,
         shutdown' \/ Live' = Live,
         DOMAIN data' = Threads, \A w \in Workers : data'[w] = data[w],
         data'[Main] \in Datas, Len(data'[Main]) <= Len(slotAt)
  PROVE  IInv'
<1>1. /\ slotAt' = slotAt /\ free' = free /\ index' = index /\ version' = version
      /\ registered' = registered /\ queue' = queue /\ running' = running /\ kept' = kept
      /\ updates' = updates /\ completed' = completed
  BY DEF slotVars
<1>2. SlotsOK' /\ MainOK' /\ Places' /\ Completions'
  BY <1>1 DEF IInv, SlotsOK, MainOK, Places, Completions
<1>3. ThreadsOK'
  BY <1>1 DEF IInv, ThreadsOK
<1>4. Accounted'
  <2>1. CASE shutdown'
    BY <2>1 DEF Accounted
  <2>2. CASE ~shutdown'
    <3>1. shutdown' = shutdown /\ Live' = Live
      BY <2>2 DEF IInv, SlotsOK
    <3>2. \A i : Posters(i)' = Posters(i)
      BY <1>1 DEF Posters
    <3> QED BY <1>1, <3>1, <3>2, AccountedStays DEF IInv
  <2> QED BY <2>1, <2>2
<1>5. Own'
  <2>1. registered \subseteq Workers
    BY MainFacts
  <2> QED BY <1>1, <2>1 DEF IInv, Own
<1> QED BY <1>2, <1>3, <1>4, <1>5 DEF IInv

(* The owner lets go of a slot, and removes it if it had the last          *)
(* reference.                                                              *)
LEMMA ReleaseKeeps ==
  ASSUME IInv, NEW s \in Slots, Release(s)
  PROVE  IInv'
<1>1. /\ s \in owner /\ owner' = owner \ {s}
      /\ IF Referenced(s, owner', kept, running, queue)
         THEN slotAt' = slotAt /\ free' = free /\ queue' = queue /\ data' = data
         ELSE RemoveSlot(index[s], queue)
      /\ index' = index /\ version' = version
      /\ registered' = registered /\ shutdown' = shutdown /\ stopped' = stopped
      /\ running' = running /\ kept' = kept /\ updates' = updates /\ completed' = completed
  BY DEF Release, threadVars, historyVars
<1>2. /\ s \in Live /\ index[s] \in 1..Len(slotAt) /\ slotAt[index[s]] = s
  BY <1>1, OwnedIsLive, LiveHasIndex
<1>3. ASSUME \A w \in Workers : \A t \in Slots :
               Refers(kept'[w], running'[w], queue'[w], t) <=> Refers(kept[w], running[w], queue[w], t)
      PROVE  /\ Live' \subseteq Live
             /\ Referenced(s, owner', kept', running', queue') => Live' = Live
             /\ ~Referenced(s, owner', kept', running', queue') => Live' = Live \ {s}
  <2>1. Live' = IF s \in Slots /\ Referenced(s, owner', kept', running', queue')
                THEN Live ELSE Live \ {s}
    BY <1>1, <1>3, LiveLoses
  <2> QED BY <2>1
<1>4. CASE shutdown \/ Referenced(s, owner', kept, running, queue)
  <2>1. slotAt' = slotAt /\ free' = free /\ queue' = queue /\ data' = data
    BY <1>1, <1>4 DEF RemoveSlot
  <2>2. Live' \subseteq Live /\ (shutdown' \/ Live' = Live)
    BY <1>1, <1>3, <1>4, <2>1
  <2>3. /\ UNCHANGED <<slotVars, registered, queue, running, kept, updates, completed>>
        /\ owner' \subseteq owner
    BY <1>1, <2>1 DEF slotVars
  <2>4. shutdown' \in BOOLEAN /\ (shutdown => shutdown') /\ stopped' \subseteq Threads
    BY <1>1 DEF IInv, SlotsOK
  <2>5. /\ DOMAIN data' = Threads /\ data'[Main] \in Datas /\ Len(data'[Main]) <= Len(slotAt)
        /\ \A w \in Workers : data'[w] = data[w]
    BY <2>1, MainFacts
  <2> QED BY <1>1, <2>2, <2>3, <2>4, <2>5, UnchangedKeeps
<1>5. CASE ~shutdown /\ ~Referenced(s, owner', kept, running, queue)
  <2> DEFINE i == index[s]
  <2>1. RemoveSlot(i, queue) /\ i \in 1..Len(slotAt) /\ ~shutdown
    BY <1>1, <1>2, <1>5
  <2>2. /\ queue'[Main] = queue[Main]
        /\ \A w \in Workers :
             /\ \A t : Refers(kept'[w], running'[w], queue'[w], t) <=>
                       Refers(kept[w], running[w], queue[w], t)
             /\ \A u : HasGuard(running'[w], queue'[w], u) => HasGuard(running[w], queue[w], u)
    BY <1>1, <2>1, RemoveSlotPosts
  <2>3. Live' = Live \ {s}
    <3>1. s \notin Live'
      <4>1. ~(s \in owner') /\ ~\E w \in Workers : Refers(kept[w], running[w], queue[w], s)
        BY <1>5, ReferencedBy
      <4>2. s \in Live' <=> s \in owner' \/ \E w \in Workers : Refers(kept'[w], running'[w], queue'[w], s)
        BY ReferencedBy DEF Live, Alive
      <4> QED BY <2>2, <4>1, <4>2
    <3>2. Live' = Live \/ Live' = Live \ {s}
      BY <1>3, <2>2
    <3> QED BY <1>2, <3>1, <3>2
  <2>4. \A t \in Live : t \notin Live' <=> index[t] = i
    <3>1. \A t \in Live : slotAt[index[t]] = t
      BY LiveHasIndex
    <3> QED BY <1>2, <2>3, <3>1
  <2>5. Balanced(s, FreeAt(i), Removals(queue[Main], i), Posters(i), Live)
    BY <1>2, <2>1 DEF IInv, Accounted
  <2>6. Removals(queue[Main], i) = {} /\ Posters(i) = {} /\ FreeAt(i) = {}
    <3>1. s # None
      BY ThreadLocalAssumption
    <3>2. Removals(queue[Main], i) \cup Posters(i) = {} /\ FreeAt(i) = {}
      BY <1>2, <2>5, <3>1 DEF Balanced
    <3> QED BY <3>2
  <2>7. \A j \in 1..Len(slotAt) : AtMostOne(Removals(queue[Main], j))
    BY <2>1 DEF IInv, Accounted, Balanced
  <2>8. /\ queue[Main] \in Seq(MainCalls)
        /\ \A k \in DOMAIN queue[Main] :
             queue[Main][k].kind = "remove" => queue[Main][k].index \in 1..Len(slotAt)
    BY DEF IInv, MainOK
  <2> HIDE DEF i
  <2>9. owner' \subseteq owner /\ Live' \subseteq Live
    BY <1>1, <2>3
  <2>10. SlotsOK' /\ ThreadsOK' /\ MainOK' /\ Places' /\ Accounted' /\ Own'
    BY <1>1, <2>1, <2>4, <2>6, <2>7, <2>8, <2>9, SlotRemoved
  <2>11. Completions'
    BY <1>1, <2>2, CompletionsStay DEF IInv
  <2> QED BY <2>10, <2>11 DEF IInv
<1> QED BY <1>4, <1>5

(* A callback posted to the main thread runs there: the removal of a dead  *)
(* slot, or the completion of an update, which no worker has any more.     *)
LEMMA RunOnMainKeeps ==
  ASSUME IInv, RunOnMain
  PROVE  IInv'
<1> DEFINE m == queue[Main]
           q == [queue EXCEPT ![Main] = Tail(@)]
           c == m[1]
<1>1. /\ ~shutdown /\ m # <<>>
      /\ \/ Head(m).kind = "remove" /\ RemoveSlot(Head(m).index, q) /\ completed' = completed
         \/ /\ Head(m).kind = "complete" /\ completed' = completed \cup {Head(m).update}
            /\ queue' = q /\ slotAt' = slotAt /\ free' = free /\ data' = data
      /\ index' = index /\ version' = version
      /\ registered' = registered /\ shutdown' = shutdown /\ stopped' = stopped
      /\ running' = running /\ owner' = owner /\ kept' = kept /\ updates' = updates
  BY DEF RunOnMain, threadVars
<1>2. /\ m \in Seq(MainCalls) /\ DOMAIN queue = Threads /\ Main \in Threads /\ Main \notin Workers
      /\ Workers \subseteq Threads
  BY MainFacts
<1>3. q[Main] = Tail(m) /\ DOMAIN q = Threads /\ \A w \in Workers : q[w] = queue[w]
  BY <1>2
<1> HIDE DEF q, m
<1>4. /\ Tail(m) \in Seq(MainCalls) /\ Head(m) = c /\ c \in MainCalls /\ 1 \in DOMAIN m
      /\ \A n \in DOMAIN Tail(m) : n + 1 \in DOMAIN m /\ Tail(m)[n] = m[n + 1]
      /\ \A i : /\ AtMostOne(Removals(m, i)) => AtMostOne(Removals(Tail(m), i))
                /\ 1 \notin Removals(m, i) => (Removals(Tail(m), i) = {} <=> Removals(m, i) = {})
                /\ 1 \in Removals(m, i) /\ AtMostOne(Removals(m, i)) => Removals(Tail(m), i) = {}
      /\ \A u : /\ AtMostOne(Completing(m, u)) => AtMostOne(Completing(Tail(m), u))
                /\ 1 \notin Completing(m, u) => (Completing(Tail(m), u) = {} <=> Completing(m, u) = {})
                /\ 1 \in Completing(m, u) /\ AtMostOne(Completing(m, u)) => Completing(Tail(m), u) = {}
  BY <1>1, <1>2, MainTaken
<1> HIDE DEF c
<1>5. /\ \A i : 1 \in Removals(m, i) <=> c.kind = "remove" /\ c.index = i
      /\ \A u : 1 \in Completing(m, u) <=> c.kind = "complete" /\ c.update = u
  BY <1>4 DEF Removals, Completing, c
<1>6. ASSUME NEW k \in DOMAIN Tail(m), Tail(m)[k].kind = "remove"
      PROVE  Tail(m)[k].index \in 1..Len(slotAt)
  BY <1>4, <1>6 DEF IInv, MainOK, m
<1>7. ASSUME NEW i \in 1..Len(slotAt)
      PROVE  /\ slotAt[i] # None => index[slotAt[i]] = i
             /\ Balanced(slotAt[i], FreeAt(i), Removals(m, i), Posters(i), Live)
             /\ AtMostOne(Removals(m, i))
  BY <1>1 DEF IInv, Accounted, Balanced, m
<1>8. CASE c.kind = "remove" /\ RemoveSlot(c.index, q) /\ completed' = completed
  <2> DEFINE i == c.index
  <2>1. i \in 1..Len(slotAt) /\ 1 \in Removals(m, i)
    <3>1. m[1].index \in 1..Len(slotAt)
      BY <1>4, <1>8 DEF IInv, MainOK, m, c
    <3> QED BY <1>5, <1>8, <3>1 DEF c
  <2> HIDE DEF i
  <2>2. RemoveSlot(i, q)
    BY <1>8 DEF i
  <2>3. /\ queue'[Main] = Tail(m)
        /\ \A w \in Workers :
             /\ \A t : Refers(kept'[w], running'[w], queue'[w], t) <=>
                       Refers(kept[w], running[w], queue[w], t)
             /\ \A u : HasGuard(running'[w], queue'[w], u) => HasGuard(running[w], queue[w], u)
    BY <1>1, <1>3, <2>1, <2>2, RemoveSlotPosts
  <2>4. Live' = Live
    BY <1>1, <2>3, LiveStays
  <2>5. slotAt[i] \notin Live /\ FreeAt(i) = {} /\ Posters(i) = {} /\ Removals(Tail(m), i) = {}
    <3>1. Balanced(slotAt[i], FreeAt(i), Removals(m, i), Posters(i), Live)
      BY <1>7, <2>1
    <3>2. Removals(m, i) # {} /\ Removals(m, i) \cup Posters(i) # {}
      BY <2>1
    <3>3. slotAt[i] # None /\ slotAt[i] \notin Live /\ FreeAt(i) = {} /\ Posters(i) = {}
      BY <3>1, <3>2 DEF Balanced
    <3> QED BY <1>4, <1>7, <2>1, <3>3
  <2>6. \A s \in Live : s \notin Live' <=> index[s] = i
    <3>1. \A s \in Live : slotAt[index[s]] = s
      BY LiveHasIndex
    <3> QED BY <2>4, <2>5, <3>1
  <2>7. ASSUME NEW j \in 1..Len(slotAt), j # i
        PROVE  /\ AtMostOne(Removals(Tail(m), j))
               /\ Removals(Tail(m), j) = {} <=> Removals(queue[Main], j) = {}
    <3>1. 1 \notin Removals(m, j)
      BY <1>5, <2>7 DEF i
    <3> QED BY <1>4, <1>7, <3>1 DEF m
  <2>8. owner' \subseteq owner /\ Live' \subseteq Live
    BY <1>1, <2>4
  <2>9. SlotsOK' /\ ThreadsOK' /\ MainOK' /\ Places' /\ Accounted' /\ Own'
    BY <1>1, <1>3, <1>4, <1>6, <2>1, <2>2, <2>5, <2>6, <2>7, <2>8, SlotRemoved
  <2>10. Completions'
    <3>1. \A u : 1 \notin Completing(m, u)
      <4>1. c.kind # "complete"
        BY <1>8
      <4> QED BY <1>5, <4>1
    <3>2. ASSUME NEW u \in Nat
          PROVE  /\ AtMostOne(Completing(queue[Main], u)) => AtMostOne(Completing(queue'[Main], u))
                 /\ Completing(queue'[Main], u) = {} <=> Completing(queue[Main], u) = {}
      BY <1>4, <2>3, <3>1 DEF m
    <3> QED BY <1>1, <1>8, <2>3, <3>2 DEF IInv, Completions
  <2> QED BY <2>9, <2>10 DEF IInv
<1>9. CASE /\ c.kind = "complete" /\ completed' = completed \cup {c.update}
           /\ queue' = q /\ slotAt' = slotAt /\ free' = free /\ data' = data
  <2>1. queue'[Main] = Tail(m) /\ DOMAIN queue' = Threads /\ \A w \in Workers : queue'[w] = queue[w]
    BY <1>3, <1>9
  <2>2. Live' = Live
    BY <1>1, <2>1, LiveStays
  <2>3. SlotsOK' /\ Places' /\ MainOK'
    <3>1. SlotsOK' /\ Places'
      BY <1>1, <1>9, <2>2 DEF IInv, SlotsOK, Places
    <3> QED BY <1>4, <1>6, <1>9, <2>1, <3>1 DEF MainOK
  <2>4. ThreadsOK' /\ Own'
    <3>1. registered \subseteq Workers
      BY MainFacts
    <3>2. ThreadsOK'
      BY <1>1, <1>9, <2>1 DEF IInv, ThreadsOK
    <3>3. Own'
      BY <1>1, <1>9, <2>1, <2>2, <3>1 DEF IInv, Own
    <3> QED BY <3>2, <3>3
  <2>5. Accounted'
    <3>1. ASSUME NEW i \in 1..Len(slotAt)
          PROVE  Balanced(slotAt[i], FreeAt(i), Removals(Tail(m), i), Posters(i), Live)
      <4>1. 1 \notin Removals(m, i)
        <5>1. c.kind # "remove"
          BY <1>9
        <5> QED BY <1>5, <5>1
      <4> QED BY <1>4, <1>7, <4>1, BalancedStays
    <3>2. \A i : Posters(i)' = Posters(i) /\ FreeAt(i)' = FreeAt(i)
      BY <1>1, <1>9 DEF Posters, FreeAt
    <3> QED BY <1>1, <1>7, <1>9, <2>1, <2>2, <3>1, <3>2 DEF Accounted
  <2>6. Completions'
    <3>1. ASSUME NEW u \in Nat
          PROVE  /\ AtMostOne(Completing(m, u))
                 /\ u \in completed => Completing(m, u) = {}
                 /\ u \in completed \/ Completing(m, u) # {} => u \in 1..updates
                 /\ \A w \in Workers : HasGuard(running[w], queue[w], u) =>
                      u \in 1..updates /\ u \notin completed /\ Completing(m, u) = {}
      BY DEF IInv, Completions, m
    <3>2. ASSUME NEW u \in Nat
          PROVE  /\ AtMostOne(Completing(Tail(m), u))
                 /\ u \in completed' => Completing(Tail(m), u) = {}
                 /\ u \in completed' \/ Completing(Tail(m), u) # {} => u \in 1..updates
                 /\ \A w \in Workers : HasGuard(running[w], queue[w], u) =>
                      u \in 1..updates /\ u \notin completed' /\ Completing(Tail(m), u) = {}
      <4>1. CASE u = c.update
        <5>1. 1 \in Completing(m, u)
          BY <1>5, <1>9, <4>1
        <5>2. AtMostOne(Completing(Tail(m), u)) /\ Completing(Tail(m), u) = {}
          BY <1>4, <3>1, <5>1
        <5> QED BY <3>1, <5>1, <5>2
      <4>2. CASE u # c.update
        <5>1. 1 \notin Completing(m, u) /\ (u \in completed' <=> u \in completed)
          BY <1>5, <1>9, <4>2
        <5>2. /\ AtMostOne(Completing(Tail(m), u))
              /\ Completing(Tail(m), u) = {} <=> Completing(m, u) = {}
          BY <1>4, <3>1, <5>1
        <5> QED BY <3>1, <5>1, <5>2
      <4> QED BY <4>1, <4>2
    <3> QED BY <1>1, <2>1, <3>2 DEF Completions
  <2> QED BY <2>3, <2>4, <2>5, <2>6 DEF IInv
<1> QED BY <1>1, <1>4, <1>8, <1>9

-----------------------------------------------------------------------------
(* The allocation of a slot *)

(* A worker knows nothing of a slot without an index, *)
LEMMA NewSlotFollows ==
  ASSUME NEW d, NEW q, NEW r, NEW k, NEW idx, NEW size, DataOK(d, idx, size), QueueOK(q, idx),
         RunOK(r, idx), KeptOK(k, idx), NEW s \in Slots, idx[s] = 0, NEW i, i # 0
  PROVE  Follows(d, q, r, k, i, 0, s)
<1>1. s \notin k /\ ~Holding(r, s) /\ s # None
  BY ThreadLocalAssumption DEF KeptOK, RunOK, Holding
<1>2. \A n \in DOMAIN q : q[n].slot # s
  BY <1>1 DEF QueueOK, CallOK
<1>3. ~Has(d, i, s)
  BY DEF DataOK, Has
<1>4. ~(0 > 0)
  BY SMTT(30)
<1> QED BY <1>1, <1>2, <1>3, <1>4 DEF Follows

(* and what it knows of the others stays when the slot gets one. *)
LEMMA IndexGiven ==
  ASSUME NEW idx, NEW jdx, \A s \in Slots : idx[s] # 0 => jdx[s] = idx[s],
         NEW size \in Nat, NEW more \in Nat, size <= more
  PROVE  /\ \A d : DataOK(d, idx, size) => DataOK(d, jdx, more)
         /\ \A q : QueueOK(q, idx) => QueueOK(q, jdx)
         /\ \A r : RunOK(r, idx) => RunOK(r, jdx)
         /\ \A k : KeptOK(k, idx) => KeptOK(k, jdx)
<1>1. ASSUME NEW d, DataOK(d, idx, size) PROVE DataOK(d, jdx, more)
  <2>1. d \in Datas /\ Len(d) <= more /\ \A i \in DOMAIN d : i # 0
    BY SMTT(30), <1>1 DEF DataOK, Datas
  <2> QED BY <1>1, <2>1 DEF DataOK
<1>2. ASSUME NEW q, QueueOK(q, idx) PROVE QueueOK(q, jdx)
  <2>1. ASSUME NEW c, CallOK(c, idx) PROVE CallOK(c, jdx)
    <3>1. c \in WorkerCalls /\ (c.slot # None => c.slot \in Slots)
      BY <2>1 DEF CallOK, WorkerCalls, SetCalls, UpdateCalls, ClearCalls, KeepCalls
    <3> QED BY <2>1, <3>1 DEF CallOK
  <2> QED BY <1>2, <2>1 DEF QueueOK
<1>3. ASSUME NEW r, RunOK(r, idx) PROVE RunOK(r, jdx)
  <2>1. r # None => r.call.slot \in Slots
    BY <1>3 DEF RunOK, Runs, SetCalls, UpdateCalls
  <2> QED BY <1>3, <2>1 DEF RunOK
<1>4. ASSUME NEW k, KeptOK(k, idx) PROVE KeptOK(k, jdx)
  <2>1. k \subseteq Slots
    BY <1>4 DEF KeptOK
  <2> QED BY <1>4, <2>1 DEF KeptOK
<1> QED BY <1>1, <1>2, <1>3, <1>4

(* Slot s gets index i, which has no slot, no place among the free ones    *)
(* any more, and no removal on its way.                                    *)
LEMMA SlotAllocated ==
  ASSUME IInv, ~shutdown, NEW s \in Slots, index[s] = 0, NEW i \in 1..Len(slotAt'),
         slotAt' \in Seq(Slots \cup {None}), Len(slotAt) <= Len(slotAt'), slotAt'[i] = s,
         \A j \in 1..Len(slotAt') : j # i => j \in 1..Len(slotAt) /\ slotAt'[j] = slotAt[j],
         i \in 1..Len(slotAt) => slotAt[i] = None,
         free' \in Seq(1..Len(slotAt')), FreeAt(i)' = {}, \A j : j # i => FreeAt(j)' = FreeAt(j),
         Removals(queue[Main], i) = {}, Posters(i) = {},
         index' = [index EXCEPT ![s] = i], owner' = owner \cup {s},
         UNCHANGED <<version, threadVars, data, queue, running, kept, updates, completed>>
  PROVE  IInv'
<1>1. /\ version' = version /\ registered' = registered /\ shutdown' = shutdown /\ stopped' = stopped
      /\ data' = data /\ queue' = queue /\ running' = running /\ kept' = kept
      /\ updates' = updates /\ completed' = completed
  BY DEF threadVars
<1>2. /\ index \in [Slots -> 0..Len(slotAt)] /\ Len(slotAt) \in Nat /\ Live \subseteq Slots
      /\ registered \subseteq Workers
  BY MainFacts
<1>3. /\ index' \in [Slots -> 0..Len(slotAt')] /\ index'[s] = i /\ i # 0 /\ Len(slotAt') \in Nat
      /\ \A t \in Slots : t # s => index'[t] = index[t]
      /\ \A t \in Slots : index[t] # 0 => index'[t] = index[t]
  BY SMTT(30), <1>2
<1>4. ASSUME NEW t \in Live
      PROVE  t \in Slots /\ t # s /\ t # None /\ index[t] # 0 /\ index'[t] = index[t] /\ index[t] # i
             /\ index[t] \in 1..Len(slotAt') /\ slotAt'[index[t]] = t
  <2>1. t \in Slots /\ index[t] \in 1..Len(slotAt) /\ slotAt[index[t]] = t
    BY LiveHasIndex
  <2>2. t # None /\ index[t] # 0 /\ index[t] \in 1..Len(slotAt')
    BY SMTT(30), <1>2, <1>3, <2>1, ThreadLocalAssumption
  <2>3. index[t] # i
    BY <2>1, <2>2
  <2> QED BY <1>3, <2>1, <2>2, <2>3
<1>5. Live' = Live \cup {s}
  <2>1. ASSUME NEW t \in Slots PROVE t \in Live' <=> t \in Live \cup {s}
    <3>1. t \in Live <=> t \in owner \/ \E w \in Workers : Refers(kept[w], running[w], queue[w], t)
      BY ReferencedBy DEF Live, Alive
    <3>2. t \in Live' <=> t \in owner' \/ \E w \in Workers : Refers(kept'[w], running'[w], queue'[w], t)
      BY ReferencedBy DEF Live, Alive
    <3> QED BY <1>1, <3>1, <3>2
  <2>2. Live' \subseteq Slots
    BY DEF Live
  <2> QED BY <1>2, <2>1, <2>2
<1>6. SlotsOK'
  <2>1. \A t \in owner' : index'[t] # 0
    BY <1>3 DEF IInv, SlotsOK
  <2>2. \A t \in Slots : version'[t] > 0 => index'[t] # 0
    BY <1>1, <1>3 DEF IInv, SlotsOK
  <2>3. owner' \subseteq Slots
    BY DEF IInv, SlotsOK
  <2>4. /\ version' \in [Slots -> 0..MaxSets] /\ registered' \subseteq Workers
        /\ stopped' \subseteq Threads /\ shutdown' \in BOOLEAN /\ updates' \in Nat
    BY <1>1 DEF IInv, SlotsOK
  <2> QED BY <1>3, <2>1, <2>2, <2>3, <2>4 DEF SlotsOK
<1>7. ThreadsOK'
  <2>1. ASSUME NEW w \in Workers
        PROVE  /\ DataOK(data[w], index', Len(slotAt')) /\ QueueOK(queue[w], index')
               /\ RunOK(running[w], index') /\ KeptOK(kept[w], index')
    <3>1. /\ DataOK(data[w], index, Len(slotAt)) /\ QueueOK(queue[w], index)
          /\ RunOK(running[w], index) /\ KeptOK(kept[w], index)
      BY WorkerFacts
    <3>2. /\ \A t \in Slots : index[t] # 0 => index'[t] = index[t]
          /\ Len(slotAt) \in Nat /\ Len(slotAt') \in Nat
      BY <1>2, <1>3
    <3> QED BY <3>1, <3>2, IndexGiven
  <2>2. Len(data[Main]) <= Len(slotAt')
    <3>1. Len(data[Main]) \in Nat /\ Len(data[Main]) <= Len(slotAt)
      BY MainFacts
    <3> QED BY SMTT(30), <1>2, <1>3, <3>1
  <2> QED BY <1>1, <2>1, <2>2 DEF IInv, ThreadsOK
<1>8. MainOK'
  <2>1. 1..Len(slotAt) \subseteq 1..Len(slotAt')
    BY SMTT(30), <1>2, <1>3
  <2> QED BY <1>1, <2>1 DEF IInv, MainOK
<1>9. Places'
  BY <1>3, <1>4, <1>5 DEF Places
<1>10. Own'
  <2>1. ASSUME NEW w \in registered \ stopped, NEW t \in Live'
        PROVE  Follows(data[w], queue[w], running[w], kept[w], index'[t], version[t], t)
    <3>1. CASE t \in Live
      BY <1>4, <3>1 DEF IInv, Own
    <3>2. CASE t = s
      <4>1. version[s] = 0
        <5>1. version[s] \in Nat
          BY SMTT(30), MainFacts, ThreadLocalAssumption
        <5>2. ~(version[s] > 0)
          BY DEF IInv, SlotsOK
        <5> QED BY SMTT(30), <5>1, <5>2
      <4>2. Follows(data[w], queue[w], running[w], kept[w], i, 0, s)
        BY <1>2, <1>3, WorkerFacts, NewSlotFollows
      <4> QED BY <1>3, <3>2, <4>1, <4>2
    <3> QED BY <1>5, <3>1, <3>2
  <2> QED BY <1>1, <2>1 DEF Own
<1>11. Accounted'
  <2>1. ASSUME NEW j \in 1..Len(slotAt')
        PROVE  /\ slotAt'[j] # None => index'[slotAt'[j]] = j
               /\ Balanced(slotAt'[j], FreeAt(j)', Removals(queue[Main], j), Posters(j), Live')
    <3>1. CASE j = i
      <4>1. s # None /\ s \in Live'
        BY <1>5, ThreadLocalAssumption
      <4>2. Balanced(s, {}, {}, {}, Live')
        BY <4>1 DEF Balanced, AtMostOne
      <4> QED BY <1>3, <3>1, <4>2
    <3>2. CASE j # i
      <4>1. j \in 1..Len(slotAt) /\ slotAt'[j] = slotAt[j] /\ FreeAt(j)' = FreeAt(j) /\ j # 0
        BY SMTT(30), <3>2
      <4>2. /\ slotAt[j] # None => index[slotAt[j]] = j
            /\ Balanced(slotAt[j], FreeAt(j), Removals(queue[Main], j), Posters(j), Live)
        BY <4>1 DEF IInv, Accounted
      <4>3. slotAt[j] # None => slotAt[j] \in Slots
        BY SMTT(30), <4>1, MainFacts
      <4>4. slotAt[j] # None => index'[slotAt[j]] = j /\ (slotAt[j] \in Live' <=> slotAt[j] \in Live)
        BY <1>3, <1>5, <4>1, <4>2, <4>3
      <4>5. Balanced(slotAt[j], FreeAt(j), Removals(queue[Main], j), Posters(j), Live')
        BY <4>2, <4>4 DEF Balanced
      <4> QED BY <4>1, <4>4, <4>5
    <3> QED BY <3>1, <3>2
  <2>2. \A j : Posters(j)' = Posters(j)
    BY <1>1 DEF Posters
  <2> QED BY <1>1, <2>1, <2>2 DEF Accounted
<1>12. Completions'
  BY <1>1 DEF IInv, Completions
<1> QED BY <1>6, <1>7, <1>8, <1>9, <1>10, <1>11, <1>12 DEF IInv

(* The last of the free indexes is taken. *)
LEMMA LastTaken ==
  ASSUME NEW S, NEW q \in Seq(S), q # <<>>, NEW n, n = Len(q), NEW p, p = SubSeq(q, 1, n - 1)
  PROVE  /\ n \in DOMAIN q /\ q[n] \in S /\ p \in Seq(S) /\ n \notin DOMAIN p
         /\ DOMAIN q = DOMAIN p \cup {n} /\ \A k \in DOMAIN p : p[k] = q[k]
<1>1. n \in Nat /\ n > 0 /\ DOMAIN q = 1..n /\ \A k \in 1..n : q[k] \in S
  BY SMTT(30)
<1>2. PICK m : m = n - 1
  OBVIOUS
<1>3. p = [k \in 1..m |-> q[k]]
  BY SMTT(30), <1>1, <1>2
<1>4. DOMAIN p = 1..m /\ (\A k \in 1..m : p[k] = q[k]) /\ p \in Seq(S)
  BY SMTT(30), <1>1, <1>2, <1>3
<1> QED BY SMTT(30), <1>1, <1>2, <1>4

(* InstanceImpl::allocateSlot: a new index, or the one that was freed last *)
LEMMA AllocateSlotKeeps ==
  ASSUME IInv, NEW s \in Slots, AllocateSlot(s)
  PROVE  IInv'
<1>1. /\ ~shutdown /\ index[s] = 0 /\ owner' = owner \cup {s}
      /\ IF free = <<>>
         THEN slotAt' = Append(slotAt, s) /\ index' = [index EXCEPT ![s] = Len(slotAt) + 1]
              /\ free' = free
         ELSE slotAt' = [slotAt EXCEPT ![free[Len(free)]] = s]
              /\ index' = [index EXCEPT ![s] = free[Len(free)]]
              /\ free' = SubSeq(free, 1, Len(free) - 1)
  BY DEF AllocateSlot
<1>2. UNCHANGED <<version, threadVars, data, queue, running, kept, updates, completed>>
  BY DEF AllocateSlot, historyVars
<1>3. /\ slotAt \in Seq(Slots \cup {None}) /\ free \in Seq(1..Len(slotAt)) /\ Len(slotAt) \in Nat
      /\ index \in [Slots -> 0..Len(slotAt)]
  BY MainFacts
<1>4. CASE free = <<>>
  <2>0. PICK i : i = Len(slotAt) + 1
    OBVIOUS
  <2>1. /\ slotAt' = Append(slotAt, s) /\ index' = [index EXCEPT ![s] = i] /\ free' = <<>>
    BY <1>1, <1>4, <2>0
  <2>2. /\ i \in 1..Len(slotAt') /\ slotAt' \in Seq(Slots \cup {None})
        /\ Len(slotAt) <= Len(slotAt') /\ slotAt'[i] = s /\ i \notin 1..Len(slotAt)
        /\ \A j \in 1..Len(slotAt') : j # i => j \in 1..Len(slotAt) /\ slotAt'[j] = slotAt[j]
    BY SMTT(30), <1>3, <2>0, <2>1
  <2>3. free' \in Seq(1..Len(slotAt'))
    BY SMTT(30), <2>1
  <2>4. \A j : FreeAt(j) = {} /\ FreeAt(j)' = {}
    BY SMTT(30), <1>4, <2>1 DEF FreeAt
  <2>5. Removals(queue[Main], i) = {}
    BY <2>2 DEF IInv, MainOK, Removals
  <2>6. Posters(i) = {}
    <3>1. ASSUME NEW w \in Workers, running[w] # None PROVE running[w].call.index # i
      <4>1. RunOK(running[w], index)
        BY WorkerFacts
      <4>2. /\ running[w].call.index = index[running[w].call.slot]
            /\ index[running[w].call.slot] # 0 /\ running[w].call.slot \in Slots
        <5>1. /\ running[w] \in Runs /\ running[w].call.index = index[running[w].call.slot]
              /\ index[running[w].call.slot] # 0
          BY <3>1, <4>1 DEF RunOK
        <5>2. running[w].call.slot \in Slots
          BY <5>1 DEF Runs, SetCalls, UpdateCalls
        <5> QED BY <5>1, <5>2
      <4> QED BY SMTT(30), <1>3, <2>2, <4>2
    <3> QED BY <3>1 DEF Posters
  <2>7. ~shutdown /\ index[s] = 0 /\ owner' = owner \cup {s}
    BY <1>1
  <2> QED BY <1>2, <2>1, <2>2, <2>3, <2>4, <2>5, <2>6, <2>7, SlotAllocated
<1>5. CASE free # <<>>
  <2>0. PICK n : n = Len(free)
    OBVIOUS
  <2>1. PICK i : i = free[n]
    OBVIOUS
  <2>2. /\ slotAt' = [slotAt EXCEPT ![i] = s] /\ index' = [index EXCEPT ![s] = i]
        /\ free' = SubSeq(free, 1, n - 1)
    BY <1>1, <1>5, <2>0, <2>1
  <2>3. /\ n \in DOMAIN free /\ free[n] = i /\ i \in 1..Len(slotAt)
        /\ free' \in Seq(1..Len(slotAt)) /\ n \notin DOMAIN free'
        /\ DOMAIN free = DOMAIN free' \cup {n} /\ \A k \in DOMAIN free' : free'[k] = free[k]
    <3>1. /\ free \in Seq(1..Len(slotAt)) /\ free # <<>> /\ n = Len(free)
          /\ free' = SubSeq(free, 1, n - 1)
      BY <1>3, <1>5, <2>0, <2>2
    <3>2. /\ n \in DOMAIN free /\ free[n] \in 1..Len(slotAt)
          /\ free' \in Seq(1..Len(slotAt)) /\ n \notin DOMAIN free'
          /\ DOMAIN free = DOMAIN free' \cup {n} /\ \A k \in DOMAIN free' : free'[k] = free[k]
      BY SMTT(30), <3>1, LastTaken
    <3> QED BY <2>1, <3>2
  <2>4. /\ slotAt' \in Seq(Slots \cup {None}) /\ Len(slotAt') = Len(slotAt) /\ slotAt'[i] = s
        /\ \A j \in 1..Len(slotAt) : j # i => slotAt'[j] = slotAt[j]
    BY SMTT(30), <1>3, <2>2, <2>3
  <2>5. Balanced(slotAt[i], FreeAt(i), Removals(queue[Main], i), Posters(i), Live)
    BY <1>1, <2>3 DEF IInv, Accounted
  <2>6. n \in FreeAt(i)
    BY <2>3 DEF FreeAt
  <2>7. slotAt[i] = None /\ Removals(queue[Main], i) = {} /\ Posters(i) = {} /\ AtMostOne(FreeAt(i))
    <3>1. FreeAt(i) # {}
      BY <2>6
    <3>2. slotAt[i] = None /\ Removals(queue[Main], i) \cup Posters(i) = {} /\ AtMostOne(FreeAt(i))
      BY <2>5, <3>1 DEF Balanced
    <3> QED BY <3>2
  <2>8. FreeAt(i)' = {}
    <3>1. ASSUME NEW k \in DOMAIN free', free'[k] = i PROVE FALSE
      <4>1. k \in FreeAt(i)
        BY <2>3, <3>1 DEF FreeAt
      <4>2. k = n
        BY <2>6, <2>7, <4>1 DEF AtMostOne
      <4> QED BY <2>3, <4>2
    <3> QED BY <3>1 DEF FreeAt
  <2>9. ASSUME NEW j, j # i PROVE FreeAt(j)' = FreeAt(j)
    BY <2>3, <2>9 DEF FreeAt
  <2>10. Len(slotAt) <= Len(slotAt')
    BY SMTT(30), <1>3, <2>4
  <2>11. /\ i \in 1..Len(slotAt')
         /\ i \in 1..Len(slotAt) => slotAt[i] = None
         /\ \A j \in 1..Len(slotAt') : j # i => j \in 1..Len(slotAt) /\ slotAt'[j] = slotAt[j]
         /\ free' \in Seq(1..Len(slotAt'))
    BY <2>3, <2>4, <2>7
  <2>12. /\ ~shutdown /\ index[s] = 0 /\ owner' = owner \cup {s}
         /\ slotAt' \in Seq(Slots \cup {None}) /\ slotAt'[i] = s
         /\ Removals(queue[Main], i) = {} /\ Posters(i) = {} /\ index' = [index EXCEPT ![s] = i]
    BY <1>1, <2>2, <2>4, <2>7
  <2> QED BY <1>2, <2>8, <2>9, <2>10, <2>11, <2>12, SlotAllocated
<1> QED BY <1>4, <1>5

(* The shutdown of the main thread, in its two steps *)
LEMMA ShutdownKeeps ==
  ASSUME IInv, ShutdownGlobalThreading \/ ShutdownMain
  PROVE  IInv'
<1>1. /\ UNCHANGED <<slotVars, registered, queue, running, kept, updates, completed>>
      /\ owner' = owner
      /\ \/ shutdown' = TRUE /\ stopped' = stopped /\ data' = data
         \/ /\ shutdown' = shutdown /\ stopped' = stopped \cup {Main}
            /\ data' = [data EXCEPT ![Main] = <<>>]
  BY DEF ShutdownGlobalThreading, ShutdownMain, historyVars
<1>2. /\ DOMAIN data = Threads /\ Main \in Threads /\ Main \notin Workers /\ Workers \subseteq Threads
      /\ data[Main] \in Datas /\ Len(data[Main]) <= Len(slotAt) /\ Len(slotAt) \in Nat
  BY MainFacts
<1>3. Live' = Live
  <2>1. running' = running /\ kept' = kept /\ queue' = queue
    BY <1>1
  <2> QED BY <1>1, <2>1, LiveStays
<1>4. /\ DOMAIN data' = Threads /\ \A w \in Workers : data'[w] = data[w]
      /\ data'[Main] = data[Main] \/ data'[Main] = <<>>
  BY <1>1, <1>2
<1>5. data'[Main] \in Datas /\ Len(data'[Main]) <= Len(slotAt)
  <2>1. <<>> \in Datas /\ Len(<<>>) <= Len(slotAt)
    BY SMTT(30), <1>2 DEF Datas
  <2> QED BY <1>2, <1>4, <2>1
<1>6. /\ shutdown' \in BOOLEAN /\ (shutdown => shutdown')
      /\ stopped \subseteq stopped' /\ stopped' \subseteq Threads
  BY <1>1, <1>2 DEF IInv, SlotsOK
<1> QED BY <1>1, <1>3, <1>4, <1>5, <1>6, UnchangedKeeps

-----------------------------------------------------------------------------
(* A new worker *)

(* A worker with nothing but the sets of slots in its queue *)
LEMMA FreshFollows ==
  ASSUME NEW q \in Seq(WorkerCalls), \A n \in DOMAIN q : q[n].kind = "set", NEW i, NEW v, NEW s,
         v > 0 => \E n \in DOMAIN q : q[n].slot = s
  PROVE  /\ Follows(<<>>, q, None, {}, i, v, s) /\ ~Refers({}, None, q, s)
         /\ \A u : ~HasGuard(None, q, u)
<1>1. /\ DOMAIN q = 1..Len(q) /\ Len(q) \in Nat
      /\ \A n \in DOMAIN q : q[n].kind \notin {"keep", "update", "clear"}
  BY SMTT(30)
<1>2. ~Holding(None, s)
  BY DEF Holding
<1>3. v > 0 => Provided(<<>>, q, None, i, s, Len(q) + 1)
  BY SMTT(30), <1>1 DEF Provided
<1>4. Follows(<<>>, q, None, {}, i, v, s)
  <2>1. \A n \in DOMAIN q : q[n].kind # "clear"
    BY <1>1
  <2> QED BY <1>1, <1>2, <1>3, <2>1 DEF Follows
<1>5. ~Refers({}, None, q, s)
  <2>1. \A n \in DOMAIN q : q[n].kind # "keep"
    BY <1>1
  <2> QED BY <1>2, <2>1 DEF Refers
<1>6. ASSUME NEW u PROVE ~HasGuard(None, q, u)
  <2>1. \A n \in DOMAIN q : q[n].kind # "update"
    BY <1>1
  <2> QED BY <2>1 DEF HasGuard
<1> QED BY <1>4, <1>5, <1>6

(* InstanceImpl::registerThread: the worker is to set what was set before. *)
LEMMA RegisterThreadKeeps ==
  ASSUME IInv, NEW w \in Workers, RegisterThread(w)
  PROVE  IInv'
<1> DEFINE live == {i \in DOMAIN slotAt :
                      slotAt[i] # None /\ Alive(slotAt[i]) /\ version[slotAt[i]] > 0}
<1>1. /\ w \notin registered /\ registered' = registered \cup {w}
      /\ slotAt' = slotAt /\ free' = free /\ index' = index /\ version' = version
      /\ shutdown' = shutdown /\ stopped' = stopped /\ data' = data
      /\ running' = running /\ owner' = owner /\ kept' = kept
      /\ updates' = updates /\ completed' = completed
  BY DEF RegisterThread
<1>2. PICK n \in 0..Len(slotAt) : \E order \in [1..n -> live] :
        /\ \A i \in live : \E j \in 1..n : order[j] = i
        /\ queue' = [queue EXCEPT ![w] = @ \o [j \in 1..n |-> SetCallback(slotAt[order[j]])]]
  BY DEF RegisterThread
<1>3. PICK order \in [1..n -> live] :
        /\ \A i \in live : \E j \in 1..n : order[j] = i
        /\ queue' = [queue EXCEPT ![w] = @ \o [j \in 1..n |-> SetCallback(slotAt[order[j]])]]
  BY <1>2
<1>4. /\ DOMAIN queue = Threads /\ DOMAIN data = Threads /\ Workers \subseteq Threads
      /\ Main \in Threads /\ Main \notin Workers /\ w \in Threads
      /\ slotAt \in Seq(Slots \cup {None}) /\ Len(slotAt) \in Nat
      /\ index \in [Slots -> 0..Len(slotAt)] /\ version \in [Slots -> 0..MaxSets]
      /\ Live \subseteq Slots
  BY MainFacts
<1>5. /\ queue[w] = <<>> /\ data[w] = <<>> /\ running[w] = None /\ kept[w] = {}
  BY <1>1, WorkerFacts
<1> DEFINE q == [j \in 1..n |-> SetCallback(slotAt[order[j]])]
<1>6. ASSUME NEW j \in 1..n
      PROVE  q[j] \in WorkerCalls /\ CallOK(q[j], index) /\ q[j].kind = "set"
             /\ q[j].slot = slotAt[order[j]]
  <2> DEFINE t == slotAt[order[j]]
             c == SetCallback(t)
  <2>1. order[j] \in live
    OBVIOUS
  <2>2. t \in Slots
    BY SMTT(30), <1>4, <2>1
  <2>3. t \in Live
    BY <2>1, <2>2 DEF Live
  <2>4. index[t] \in Nat /\ index[t] # 0 /\ version[t] \in Nat
    <3>1. index[t] # 0
      BY <2>3 DEF IInv, Places
    <3> QED BY SMTT(30), <1>4, <2>2, <3>1, ThreadLocalAssumption
  <2>5. q[j] = c
    OBVIOUS
  <2> HIDE DEF t
  <2>6. c.kind = "set" /\ c.slot = t /\ c.index = index[t] /\ c.version = version[t]
    BY <1>1 DEF SetCallback
  <2>7. c \in SetCalls
    BY <1>1, <2>2, <2>4 DEF SetCallback, SetCalls
  <2> HIDE DEF c
  <2>8. c \in WorkerCalls
    BY <2>7 DEF WorkerCalls
  <2>9. CallOK(c, index)
    BY <2>4, <2>6, <2>8 DEF CallOK
  <2> HIDE DEF q
  <2> QED BY <2>5, <2>6, <2>8, <2>9 DEF t
<1>7. q \in Seq(WorkerCalls) /\ DOMAIN q = 1..n /\ Len(q) = n
  <2>1. n \in Nat /\ DOMAIN q = 1..n /\ q = [j \in 1..n |-> q[j]]
    BY SMTT(30), <1>4
  <2> HIDE DEF q
  <2> QED BY SMTT(30), <1>6, <2>1
<1>8. queue' = [queue EXCEPT ![w] = queue[w] \o q]
  BY <1>3
<1> HIDE DEF q
<1>9. queue'[w] = q
  <2>1. queue'[w] = queue[w] \o q
    BY <1>4, <1>8
  <2>2. <<>> \o q = q
    BY SMTT(30), <1>7
  <2> QED BY <1>5, <2>1, <2>2
<1>10. /\ DOMAIN queue' = Threads /\ queue'[Main] = queue[Main]
       /\ \A v \in Workers : v # w => queue'[v] = queue[v]
  BY <1>4, <1>8
<1>11. \A j \in DOMAIN q : q[j].kind = "set"
  BY <1>6, <1>7
<1>12. ASSUME NEW t \in Live, version[t] > 0 PROVE \E j \in DOMAIN q : q[j].slot = t
  <2>1. t \in Slots /\ index[t] \in 1..Len(slotAt) /\ slotAt[index[t]] = t
    BY LiveHasIndex
  <2>2. index[t] \in DOMAIN slotAt /\ t # None
    BY SMTT(30), <1>4, <2>1, ThreadLocalAssumption
  <2>3. index[t] \in live
    BY <1>12, <2>1, <2>2 DEF Live
  <2>4. PICK j \in 1..n : order[j] = index[t]
    BY <1>3, <2>3
  <2> QED BY <1>6, <1>7, <2>1, <2>4
<1>13. ASSUME NEW t \in Live PROVE Follows(<<>>, q, None, {}, index[t], version[t], t)
  BY <1>7, <1>11, <1>12, FreshFollows
<1>14. (\A t : ~Refers({}, None, q, t)) /\ (\A u : ~HasGuard(None, q, u))
  <2>1. ~(0 > 0)
    BY SMTT(30)
  <2>2. ASSUME NEW t PROVE ~Refers({}, None, q, t) /\ \A u : ~HasGuard(None, q, u)
    BY <1>7, <1>11, <2>1, FreshFollows
  <2> QED BY <2>2
<1> HIDE DEF live
<1>15. Live' = Live
  <2>1. \A t : ~Refers({}, None, <<>>, t)
    BY SMTT(30) DEF Refers, Holding
  <2>2. ASSUME NEW v \in Workers, NEW t \in Slots
        PROVE  Refers(kept'[v], running'[v], queue'[v], t) <=> Refers(kept[v], running[v], queue[v], t)
    BY <1>1, <1>5, <1>9, <1>10, <1>14, <2>1
  <2> QED BY <1>1, <2>2, LiveStays
<1>16. SlotsOK' /\ Places' /\ MainOK'
  <2>1. SlotsOK'
    BY <1>1 DEF IInv, SlotsOK
  <2> QED BY <1>1, <1>10, <1>15, <2>1 DEF IInv, Places, MainOK
<1>17. ThreadsOK'
  <2>1. QueueOK(q, index)
    BY <1>6, <1>7 DEF QueueOK
  <2>2. ASSUME NEW v \in Workers PROVE QueueOK(queue'[v], index)
    BY <1>9, <1>10, <2>1, WorkerFacts
  <2>3. ASSUME NEW v \in Workers \ registered'
        PROVE  queue'[v] = <<>> /\ data[v] = <<>> /\ running[v] = None /\ kept[v] = {}
    BY <1>1, <1>10 DEF IInv, ThreadsOK
  <2> QED BY <1>1, <1>10, <2>2, <2>3 DEF IInv, ThreadsOK
<1>18. Own'
  <2>1. registered \subseteq Workers
    BY MainFacts
  <2>2. ASSUME NEW v \in registered' \ stopped, NEW t \in Live
        PROVE  Follows(data[v], queue'[v], running[v], kept[v], index[t], version[t], t)
    <3>1. CASE v = w
      BY <1>5, <1>9, <1>13, <3>1
    <3>2. CASE v # w
      BY <1>1, <1>10, <2>1, <3>2 DEF IInv, Own
    <3> QED BY <3>1, <3>2
  <2> QED BY <1>1, <1>15, <2>2 DEF Own
<1>19. Accounted' /\ Completions'
  <2>1. \A i : Posters(i)' = Posters(i)
    BY <1>1 DEF Posters
  <2>2. Accounted'
    BY <1>1, <1>10, <1>15, <2>1, AccountedStays DEF IInv
  <2>3. ASSUME NEW v \in Workers, NEW u \in Nat, HasGuard(running'[v], queue'[v], u)
        PROVE  HasGuard(running[v], queue[v], u)
    BY <1>1, <1>5, <1>9, <1>10, <1>14, <2>3
  <2> QED BY <1>1, <1>10, <2>2, <2>3, CompletionsStay DEF IInv
<1> QED BY <1>16, <1>17, <1>18, <1>19 DEF IInv

-----------------------------------------------------------------------------
(* The invariant and what follows from it *)

(* The invariant holds before the first slot and the first worker. *)
LEMMA InitKeeps ==
  ASSUME Init
  PROVE  IInv
<1>1. /\ Main \in Threads /\ Workers \subseteq Threads /\ Main \notin Workers
      /\ <<>> \in Datas /\ <<>> \in Seq(WorkerCalls) /\ <<>> \in Seq(MainCalls) /\ <<>> \in Seq({})
      /\ Len(<<>>) = 0 /\ DOMAIN <<>> = {} /\ 1..0 = {} /\ ~(0 > 0) /\ 0 <= 0
  BY SMTT(30), ThreadLocalAssumption DEF Threads, Workers, Main, Datas
<1>2. /\ DOMAIN queue = Threads /\ DOMAIN data = Threads
      /\ queue[Main] = <<>> /\ data[Main] = <<>>
      /\ \A w \in Workers : queue[w] = <<>> /\ data[w] = <<>> /\ running[w] = None /\ kept[w] = {}
      /\ kept \in [Workers -> SUBSET Slots] /\ running \in [Workers -> Runs \cup {None}]
  BY <1>1 DEF Init
<1>3. Live = {}
  <2>1. ASSUME NEW s, NEW w \in Workers PROVE ~Refers(kept[w], running[w], queue[w], s)
    <3>1. ~Refers({}, None, <<>>, s)
      BY SMTT(30) DEF Refers, Holding
    <3> QED BY <1>2, <3>1
  <2>2. owner = {}
    BY DEF Init
  <2> QED BY <2>1, <2>2, ReferencedBy DEF Live, Alive
<1>4. SlotsOK
  <2>1. index \in [Slots -> 0..0] /\ version \in [Slots -> 0..MaxSets] /\ \A s \in Slots : version[s] = 0
    <3>1. index = [s \in Slots |-> 0] /\ version = [s \in Slots |-> 0]
      BY DEF Init
    <3>2. 0 \in 0..0 /\ 0 \in 0..MaxSets
      BY SMTT(30), ThreadLocalAssumption
    <3> QED BY <3>1, <3>2
  <2>2. slotAt \in Seq(Slots \cup {None}) /\ Len(slotAt) = 0 /\ free \in Seq(1..0)
    BY SMTT(30) DEF Init
  <2>3. /\ registered \subseteq Workers /\ stopped \subseteq Threads /\ shutdown \in BOOLEAN
        /\ owner = {} /\ updates \in Nat
    <3>1. registered = {} /\ stopped = {} /\ shutdown = FALSE /\ owner = {} /\ updates = 0
      BY DEF Init
    <3>2. 0 \in Nat
      OBVIOUS
    <3> QED BY <3>1, <3>2
  <2> QED BY SMTT(30), <2>1, <2>2, <2>3 DEF SlotsOK
<1>5. ThreadsOK
  <2>1. \A idx : /\ DataOK(<<>>, idx, 0) /\ QueueOK(<<>>, idx)
                 /\ RunOK(None, idx) /\ KeptOK({}, idx)
    BY <1>1 DEF DataOK, QueueOK, RunOK, KeptOK
  <2>2. Len(slotAt) = 0
    BY DEF Init
  <2> QED BY <1>1, <1>2, <2>1, <2>2 DEF ThreadsOK
<1>6. MainOK /\ Places
  BY <1>1, <1>2, <1>3 DEF MainOK, Places
<1>7. Accounted
  <2>1. 1..Len(slotAt) = {}
    BY SMTT(30) DEF Init
  <2> QED BY <2>1 DEF Accounted
<1>8. Completions
  <2>1. completed = {}
    BY DEF Init
  <2>2. \A u : Completing(queue[Main], u) = {}
    BY <1>1, <1>2 DEF Completing
  <2>3. \A w \in Workers : \A u : ~HasGuard(running[w], queue[w], u)
    BY <1>1, <1>2 DEF HasGuard
  <2> QED BY <2>1, <2>2, <2>3 DEF Completions, AtMostOne
<1>9. Own
  BY <1>3 DEF Own
<1> QED BY <1>4, <1>5, <1>6, <1>7, <1>8, <1>9 DEF IInv

(* Every step of the main thread and of a worker keeps the invariant. *)
LEMMA NextKeeps ==
  ASSUME IInv, [Next]_vars
  PROVE  IInv'
<1>1. CASE UNCHANGED vars
  <2>1. /\ UNCHANGED <<slotVars, registered, queue, running, kept, updates, completed>>
        /\ shutdown' = shutdown /\ stopped' = stopped /\ owner' = owner /\ data' = data
    BY <1>1 DEF vars, threadVars, historyVars
  <2>2. Live' = Live
    <3>1. running' = running /\ kept' = kept /\ queue' = queue
      BY <2>1
    <3> QED BY <2>1, <3>1, LiveStays
  <2>3. shutdown' \in BOOLEAN /\ (shutdown => shutdown') /\ stopped' \subseteq Threads
    BY <2>1 DEF IInv, SlotsOK
  <2>4. /\ DOMAIN data' = Threads /\ data'[Main] \in Datas /\ Len(data'[Main]) <= Len(slotAt)
        /\ \A w \in Workers : data'[w] = data[w]
    BY <2>1, MainFacts
  <2> QED BY <2>1, <2>2, <2>3, <2>4, UnchangedKeeps
<1>2. ASSUME NEW s \in Slots, AllocateSlot(s) \/ Set(s) \/ RunOnAllThreads(s) \/ Release(s)
      PROVE  IInv'
  BY <1>2, AllocateSlotKeeps, SetKeeps, RunOnAllThreadsKeeps, ReleaseKeeps
<1>3. ASSUME NEW s \in Slots, NEW w \in Workers, Share(s, w) \/ Drop(w, s)
      PROVE  IInv'
  BY <1>3, ShareKeeps, DropKeeps
<1>4. ASSUME NEW w \in Workers, RegisterThread(w) \/ WorkerStep(w) \/ StopWorker(w)
      PROVE  IInv'
  BY <1>4, RegisterThreadKeeps, RunPlainCallbackKeeps, BeginCallbackKeeps,
     FinishCallbackKeeps, PostRemovalKeeps, StopWorkerKeeps DEF WorkerStep
<1>5. CASE RunOnMain \/ ShutdownGlobalThreading \/ ShutdownMain
  BY <1>5, RunOnMainKeeps, ShutdownKeeps
<1> QED BY <1>1, <1>2, <1>3, <1>4, <1>5 DEF Next

(* The inductive invariant holds in every state. *)
THEOREM Invariance == Spec => []IInv
<1>1. Init => IInv
  BY InitKeeps
<1>2. IInv /\ [Next]_vars => IInv'
  BY NextKeeps
<1> QED BY <1>1, <1>2, PTL DEF Spec

(* Every variable has its type. *)
THEOREM TypeCorrect == Spec => []TypeOK
<1>1. ASSUME IInv PROVE TypeOK
  <2>1. ASSUME NEW w \in Workers
        PROVE  queue[w] \in Seq(WorkerCalls) /\ data[w] \in Datas /\ Len(data[w]) <= Len(slotAt)
    BY <1>1, WorkerFacts DEF DataOK
  <2>2. \A t \in Threads : data[t] \in Datas /\ Len(data[t]) <= Len(slotAt)
    BY <1>1, <2>1, MainFacts DEF Threads
  <2> QED BY <1>1, <2>1, <2>2 DEF TypeOK, IInv, SlotsOK, ThreadsOK, MainOK, Datas
<1> QED BY <1>1, Invariance, PTL

(* An index of slots_ always has exactly one holder until the shutdown:    *)
(* allocateSlot never gives out the index of a live slot, and removeSlot   *)
(* never frees one twice, whichever thread destroys the slot.              *)
THEOREM IndexesAreAccounted == Spec => []EveryIndexIsAccounted
<1>1. ASSUME IInv, ~shutdown, NEW i \in 1..Len(slotAt)
      PROVE  \E h \in Holders(i) : Holders(i) = {h}
  <2> DEFINE x == slotAt[i]
             l == {s \in Slots : index[s] = i /\ Alive(s)}
             f == FreeAt(i)
             r == Removals(queue[Main], i)
             p == Posters(i)
  <2>1. Holders(i) = {<<"slot", s>> : s \in l} \cup {<<"free", k>> : k \in f}
                     \cup {<<"removal", k>> : k \in r} \cup {<<"worker", w>> : w \in p}
    BY DEF Holders, FreeAt, Removals, Posters
  <2>2. (x # None => index[x] = i) /\ Balanced(x, f, r, p, Live)
    BY <1>1 DEF IInv, Accounted
  <2>3. \A s : s \in l <=> s = x /\ s \in Live
    <3>1. \A s \in Live : s \in Slots /\ slotAt[index[s]] = s
      BY <1>1, LiveHasIndex
    <3>2. \A s \in Live : s # None
      BY <3>1, ThreadLocalAssumption
    <3>3. \A s : s \in l <=> s \in Live /\ index[s] = i
      BY DEF Live
    <3> QED BY <2>2, <3>1, <3>2, <3>3
  <2> HIDE DEF x, l, f, r, p
  <2>4. /\ AtMostOne(f) /\ AtMostOne(r) /\ AtMostOne(p) /\ AtMostOne(l)
        /\ \/ l # {} /\ f = {} /\ r = {} /\ p = {}
           \/ l = {} /\ f # {} /\ r = {} /\ p = {}
           \/ l = {} /\ f = {} /\ r # {} /\ p = {}
           \/ l = {} /\ f = {} /\ r = {} /\ p # {}
    <3>1. AtMostOne(l) /\ (l = {} <=> x \notin Live)
      <4>1. x \in Live <=> x \in l
        BY <2>3
      <4>2. \A s \in l : s = x
        BY <2>3
      <4> QED BY <4>1, <4>2 DEF AtMostOne
    <3>2. None \notin Live
      <4>1. \A s \in Live : s \in Slots
        BY DEF Live
      <4> QED BY <4>1, ThreadLocalAssumption
    <3>3. /\ AtMostOne(f) /\ AtMostOne(r) /\ AtMostOne(p)
          /\ r = {} \/ p = {}
          /\ x = None <=> f # {}
          /\ x # None /\ x \notin Live <=> ~(r = {} /\ p = {})
      <4>1. r \cup p # {} <=> ~(r = {} /\ p = {})
        OBVIOUS
      <4> QED BY <2>2, <4>1 DEF Balanced
    <3> QED BY <3>1, <3>2, <3>3
  <2>5. ASSUME NEW S, AtMostOne(S), S # {} PROVE \E a : S = {a}
    <3>1. PICK a : a \in S
      BY <2>5
    <3>2. S = {a}
      BY <2>5, <3>1 DEF AtMostOne
    <3> QED BY <3>2
  <2>6. CASE l # {} /\ f = {} /\ r = {} /\ p = {}
    <3>1. PICK a : l = {a}
      BY <2>4, <2>5, <2>6
    <3>2. Holders(i) = {<<"slot", a>>}
      BY <2>1, <2>6, <3>1
    <3> QED BY <3>2
  <2>7. CASE l = {} /\ f # {} /\ r = {} /\ p = {}
    <3>1. PICK a : f = {a}
      BY <2>4, <2>5, <2>7
    <3>2. Holders(i) = {<<"free", a>>}
      BY <2>1, <2>7, <3>1
    <3> QED BY <3>2
  <2>8. CASE l = {} /\ f = {} /\ r # {} /\ p = {}
    <3>1. PICK a : r = {a}
      BY <2>4, <2>5, <2>8
    <3>2. Holders(i) = {<<"removal", a>>}
      BY <2>1, <2>8, <3>1
    <3> QED BY <3>2
  <2>9. CASE l = {} /\ f = {} /\ r = {} /\ p # {}
    <3>1. PICK a : p = {a}
      BY <2>4, <2>5, <2>9
    <3>2. Holders(i) = {<<"worker", a>>}
      BY <2>1, <2>9, <3>1
    <3> QED BY <3>2
  <2> QED BY <2>4, <2>6, <2>7, <2>8, <2>9
<1>2. IInv => EveryIndexIsAccounted
  BY <1>1 DEF EveryIndexIsAccounted
<1> QED BY <1>2, Invariance, PTL

(* A worker that holds a slot or runs an update of it always finds the     *)
(* slot's own object, whatever had the index before and however the        *)
(* worker's queue is interleaved with the main thread.                     *)
THEOREM DataIsOwn == Spec => []SlotDataIsItsOwn
<1>1. ASSUME IInv, NEW w \in Workers \ stopped, NEW s \in Slots, s \in kept[w] \/ Updating(w, s)
      PROVE  /\ index[s] <= Len(data[w]) /\ data[w][index[s]] # None
             /\ data[w][index[s]].slot = s
  <2>1. s \in kept[w] \/ (Holding(running[w], s) /\ running[w].call.kind = "update")
    BY <1>1 DEF Updating, Holding
  <2>2. s \in Live
    <3>1. Refers(kept[w], running[w], queue[w], s)
      BY <2>1 DEF Refers
    <3> QED BY <3>1, ReferredIsLive
  <2>3. w \in registered
    BY <1>1, <2>1, WorkerFacts DEF Holding
  <2>4. Has(data[w], index[s], s)
    BY <1>1, <2>1, <2>2, <2>3 DEF IInv, Own, Follows
  <2>5. index[s] \in DOMAIN data[w] /\ data[w][index[s]] # None /\ data[w][index[s]].slot = s
    BY <2>4 DEF Has
  <2>6. data[w] \in Datas
    BY <1>1, WorkerFacts DEF DataOK
  <2>7. index[s] <= Len(data[w])
    BY SMTT(30), <2>5, <2>6 DEF Datas
  <2> QED BY <2>5, <2>7
<1>2. IInv => SlotDataIsItsOwn
  BY <1>1 DEF SlotDataIsItsOwn
<1> QED BY <1>2, Invariance, PTL

(* The completion callback of runOnAllThreads is posted at most once, and  *)
(* when it is posted no worker has the update in its queue or is in it.    *)
THEOREM CompletionComesLast == Spec => []CompletionIsLast
<1>1. ASSUME IInv, NEW u \in 1..updates
      PROVE  LET posted == {i \in DOMAIN queue[Main] :
                              queue[Main][i].kind = "complete" /\ queue[Main][i].update = u}
             IN /\ \A i, j \in posted : i = j
                /\ u \in completed => posted = {}
                /\ posted # {} \/ u \in completed => ~Guarded(u, running, queue)
  <2>1. u \in Nat
    BY SMTT(30), <1>1 DEF IInv, SlotsOK
  <2>2. /\ AtMostOne(Completing(queue[Main], u))
        /\ u \in completed => Completing(queue[Main], u) = {}
        /\ \A w \in Workers : HasGuard(running[w], queue[w], u) =>
             u \notin completed /\ Completing(queue[Main], u) = {}
    BY <1>1, <2>1 DEF IInv, Completions
  <2>3. Completing(queue[Main], u) # {} \/ u \in completed => ~Guarded(u, running, queue)
    BY <2>2, GuardedBy
  <2> QED BY <2>2, <2>3 DEF Completing, AtMostOne
<1>2. IInv => CompletionIsLast
  BY <1>1 DEF CompletionIsLast
<1> QED BY <1>2, Invariance, PTL

=============================================================================
