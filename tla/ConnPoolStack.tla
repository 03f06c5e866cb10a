--------------------------- MODULE ConnPoolStack ----------------------------
(***************************************************************************)
(* The frames of the connection pool's call stack, and the sequences they  *)
(* make up.                                                                *)
(***************************************************************************)
EXTENDS ConnPoolInvariant, TLAPS

(* Leaves are given to the Zenon prover, for at most 30 s, unless they name another. *)
USE ZenonT(30)

-----------------------------------------------------------------------------
(* Frames and sequences *)

(* The frames the actions push are frames. *)
LEMMA FrameTypes ==
  /\ \A op \in Ops \ ClientOps : Call(op) \in Frames /\ Call(op).op = op
  /\ \A op \in Ops, c \in Clients : /\ CallOn(op, c) \in Frames
                                    /\ CallOn(op, c).op = op /\ CallOn(op, c).cs = {c}
  /\ \A op \in Ops \ ClientOps, s \in Streams \cup {NoStream} :
       CallFor(op, s) \in Frames /\ CallFor(op, s).op = op
  /\ \A n \in 0..3, s \in Streams \cup {NoStream} :
       TryCreate(n, s) \in Frames /\ TryCreate(n, s).op = "tryCreate"
  /\ \A cs \in SUBSET Clients : CloseAll(cs) \in Frames /\ CloseAll(cs).op = "closeAll"
  /\ User \in Frames /\ User.op = "user"
BY SMTT(30) DEF Call, CallOn, CallFor, TryCreate, CloseAll, User, Frame, Frames, Ops, ClientOps

(* The calls with no invariant of their own that the actions push. *)
LEMMA PlainCalls ==
  /\ User \in Frames /\ Plain(User)
  /\ Call("upstreamReady") \in Frames /\ Plain(Call("upstreamReady"))
  /\ Call("checkIdle") \in Frames /\ Plain(Call("checkIdle"))
  /\ Call("closeIdle") \in Frames /\ Plain(Call("closeIdle"))
  /\ Call("notifyIdle") \in Frames /\ Plain(Call("notifyIdle"))
  /\ Call("drainRest") \in Frames /\ Plain(Call("drainRest"))
  /\ Call("purge") \in Frames /\ Plain(Call("purge"))
  /\ Call("retry") \in Frames /\ Plain(Call("retry"))
<1>1. \A op \in Ops \ ClientOps : op # "destroy" => Call(op) \in Frames /\ Plain(Call(op))
  BY FrameTypes DEF Plain, ClientOps
<1>2. User \in Frames /\ Plain(User)
  BY FrameTypes DEF Plain
<1>3. {"upstreamReady", "checkIdle", "closeIdle", "notifyIdle", "drainRest", "purge",
       "retry"} \subseteq {op \in Ops \ ClientOps : op # "destroy"}
  BY DEF Ops, ClientOps
<1> QED BY <1>1, <1>2, <1>3

(* The plain calls that have an argument. *)
LEMMA PlainCallsOn ==
  /\ \A c \in Clients : CallOn("close", c) \in Frames /\ Plain(CallOn("close", c))
  /\ \A c \in Clients : CallOn("lost", c) \in Frames /\ Plain(CallOn("lost", c))
  /\ \A s \in Streams : CallFor("cancel", s) \in Frames /\ Plain(CallFor("cancel", s))
  /\ \A s \in Streams \cup {NoStream} :
       CallFor("cancelExcess", s) \in Frames /\ Plain(CallFor("cancelExcess", s))
  /\ \A n \in 0..3, s \in Streams \cup {NoStream} :
       TryCreate(n, s) \in Frames /\ Plain(TryCreate(n, s))
  /\ \A cs \in SUBSET Clients : CloseAll(cs) \in Frames /\ Plain(CloseAll(cs))
<1>1. /\ "close" \in Ops /\ "lost" \in Ops
      /\ "cancel" \in Ops \ ClientOps /\ "cancelExcess" \in Ops \ ClientOps
  BY DEF Ops, ClientOps
<1>2. ASSUME NEW c \in Clients, NEW op \in {"close", "lost"}
      PROVE  CallOn(op, c) \in Frames /\ Plain(CallOn(op, c))
  BY <1>1, FrameTypes DEF Plain
<1>3. ASSUME NEW s \in Streams \cup {NoStream}, NEW op \in {"cancel", "cancelExcess"}
      PROVE  CallFor(op, s) \in Frames /\ Plain(CallFor(op, s))
  BY <1>1, FrameTypes DEF Plain
<1>4. /\ \A n \in 0..3, s \in Streams \cup {NoStream} :
           TryCreate(n, s) \in Frames /\ Plain(TryCreate(n, s))
      /\ \A cs \in SUBSET Clients : CloseAll(cs) \in Frames /\ Plain(CloseAll(cs))
  BY FrameTypes DEF Plain
<1> QED BY <1>2, <1>3, <1>4

(* The frame of a close after a protocol error. *)
LEMMA ErrorFrameType ==
  ASSUME NEW c \in Clients
  PROVE  CallOnError("close", c) \in Frames /\ Plain(CallOnError("close", c))
BY SMTT(30) DEF CallOnError, Frame, Frames, Plain, Ops, ClientOps

(* The elements of a sequence that an action puts together. *)
LEMMA ElementsConcat ==
  ASSUME NEW T, NEW p \in Seq(T), NEW q \in Seq(T)
  PROVE  p \o q \in Seq(T) /\ Elements(p \o q) = Elements(p) \cup Elements(q)
<1>1. p \o q \in Seq(T) /\ Len(p \o q) = Len(p) + Len(q)
  BY SMTT(30)
<1>2. ASSUME NEW i \in 1..Len(p \o q) PROVE (p \o q)[i] \in Elements(p) \cup Elements(q)
  <2>1. CASE i <= Len(p)
    BY SMTT(30), <2>1 DEF Elements
  <2>2. CASE i > Len(p)
    <3>1. i - Len(p) \in 1..Len(q) /\ (p \o q)[i] = q[i - Len(p)]
      BY SMTT(30), <1>1, <2>2
    <3> QED BY <3>1 DEF Elements
  <2> QED BY SMTT(30), <2>1, <2>2
<1>3. ASSUME NEW i \in 1..Len(p) PROVE p[i] \in Elements(p \o q)
  BY SMTT(30), <1>1 DEF Elements
<1>4. ASSUME NEW i \in 1..Len(q) PROVE q[i] \in Elements(p \o q)
  <2>1. i + Len(p) \in 1..Len(p \o q) /\ (p \o q)[i + Len(p)] = q[i]
    BY SMTT(30), <1>1
  <2> QED BY <2>1 DEF Elements
<1> QED BY <1>1, <1>2, <1>3, <1>4 DEF Elements

(* The elements of short sequences. *)
LEMMA ElementsSmall ==
  /\ Elements(<<>>) = {}
  /\ \A x : Elements(<<x>>) = {x}
  /\ \A x, y : Elements(<<x, y>>) = {x, y}
  /\ \A x, y, z : Elements(<<x, y, z>>) = {x, y, z}
BY SMTT(30) DEF Elements

(* The elements of a sequence with one more at its head. *)
LEMMA ElementsPush ==
  ASSUME NEW T, NEW x \in T, NEW q \in Seq(T)
  PROVE  <<x>> \o q \in Seq(T) /\ Elements(<<x>> \o q) = {x} \cup Elements(q)
<1> DEFINE p == <<x>>
<1>1. p \in Seq(T) /\ Elements(p) = {x}
  BY SMTT(30), ElementsSmall
<1> HIDE DEF p
<1>2. p \o q \in Seq(T) /\ Elements(p \o q) = Elements(p) \cup Elements(q)
  BY SMTT(30), <1>1, ElementsConcat
<1> QED BY <1>1, <1>2 DEF p

(* The elements of a sequence without its head. *)
LEMMA ElementsTail ==
  ASSUME NEW T, NEW q \in Seq(T), q # <<>>
  PROVE  /\ Tail(q) \in Seq(T) /\ Head(q) \in T
         /\ Head(q) \in Elements(q) /\ Elements(Tail(q)) \subseteq Elements(q)
BY SMTT(30) DEF Elements

(* What is left of the stack when its top frame is popped. *)
LEMMA RestTypes ==
  ASSUME stack \in Seq(Frames), NEW op, Running(op)
  PROVE  /\ Rest \in Seq(Frames) /\ Elements(Rest) \subseteq Elements(stack)
         /\ Head(stack) \in Frames /\ Head(stack) \in Elements(stack) /\ Head(stack).op = op
         /\ Head(stack).s \in Streams \cup {NoStream} /\ Head(stack).cs \in SUBSET Clients
         /\ Head(stack).n \in 0..3
<1>1. stack # <<>> /\ Head(stack).op = op
  BY DEF Running
<1>2. /\ Rest \in Seq(Frames) /\ Elements(Rest) \subseteq Elements(stack)
      /\ Head(stack) \in Frames /\ Head(stack) \in Elements(stack)
  BY <1>1, ElementsTail DEF Rest
<1> QED BY <1>1, <1>2 DEF Frames

(* The destructor and the draining of the existing connections are called  *)
(* by the event loop: nothing is left when they return.                    *)
LEMMA OutermostCall ==
  ASSUME stack \in Seq(Frames), Orderly(stack), Running("destroy") \/ Running("drainRest")
  PROVE  Len(stack) = 1 /\ Elements(stack) = {Head(stack)} /\ Elements(Rest) = {}
<1>1. /\ Len(stack) \in Nat /\ Len(stack) # 0 /\ Head(stack) = stack[1]
      /\ Len(Rest) = Len(stack) - 1
  BY SMTT(30) DEF Running, Rest
<1>2. ASSUME 1 \in 1..(Len(stack) - 1) PROVE FALSE
  BY <1>1, <1>2, ZenonT(30) DEF Orderly, Above, Running
<1>3. Len(stack) = 1
  BY SMTT(30), <1>1, <1>2
<1>4. Elements(stack) = {Head(stack)}
  BY SMTT(30), <1>1, <1>3 DEF Elements
<1>5. 1..Len(Rest) = {}
  BY SMTT(30), <1>1, <1>3
<1>6. Elements(Rest) = {}
  BY <1>5, ZenonT(30) DEF Elements
<1> QED BY <1>3, <1>4, <1>6

(* The client of a frame that has one. *)
LEMMA TheClientType ==
  ASSUME stack \in Seq(Frames), NEW op \in ClientOps, Running(op)
  PROVE  TheClient \in Clients /\ TheClient \in Head(stack).cs
<1>1. Head(stack).cs # {} /\ Head(stack).cs \subseteq Clients
  BY RestTypes DEF Frames
<1> QED BY <1>1 DEF TheClient

(* Removing a stream from a queue keeps the others, each at most once. *)
LEMMA WithoutKeeps ==
  ASSUME NEW T, NEW q \in Seq(T), NEW s
  PROVE  /\ Without(q, s) \in Seq(T)
         /\ \A k \in 1..Len(Without(q, s)) : \E i \in 1..Len(q) : Without(q, s)[k] = q[i]
         /\ (\A i, j \in 1..Len(q) : q[i] = q[j] => i = j) =>
              \A k, l \in 1..Len(Without(q, s)) : Without(q, s)[k] = Without(q, s)[l] => k = l
<1>1. CASE s \notin Elements(q)
  BY <1>1 DEF Without
<1>2. CASE s \in Elements(q)
  <2> DEFINE i == CHOOSE k \in 1..Len(q) : q[k] = s
             p == SubSeq(q, 1, i - 1)
             t == SubSeq(q, i + 1, Len(q))
             at(k) == IF k < i THEN k ELSE k + 1
  <2>1. i \in 1..Len(q)
    <3>1. \E k \in 1..Len(q) : q[k] = s
      BY <1>2 DEF Elements
    <3> QED BY <3>1
  <2>2. Without(q, s) = p \o t
    BY <1>2 DEF Without
  <2> HIDE DEF i
  <2>3. /\ p \in Seq(T) /\ Len(p) = i - 1 /\ \A k \in 1..(i - 1) : p[k] = q[k]
    BY SMTT(30), <2>1
  <2>4. /\ t \in Seq(T) /\ Len(t) = Len(q) - i /\ \A k \in 1..(Len(q) - i) : t[k] = q[k + i]
    BY SMTT(30), <2>1
  <2> HIDE DEF p, t
  <2>5. p \o t \in Seq(T) /\ Len(p \o t) = Len(q) - 1
    <3>1. p \o t \in Seq(T) /\ Len(p \o t) = Len(p) + Len(t)
      BY SMTT(30), <2>3, <2>4
    <3>2. Len(q) \in Nat
      BY SMTT(30)
    <3> QED BY SMTT(30), <2>1, <2>3, <2>4, <3>1, <3>2
  <2>6. ASSUME NEW k \in 1..Len(p \o t)
        PROVE  at(k) \in 1..Len(q) /\ (p \o t)[k] = q[at(k)]
    <3>1. CASE k < i
      BY SMTT(30), <2>1, <2>3, <2>4, <2>5, <3>1
    <3>2. CASE k >= i
      <4>1. k - (i - 1) \in 1..(Len(q) - i) /\ (p \o t)[k] = t[k - (i - 1)]
        BY SMTT(30), <2>1, <2>3, <2>4, <2>5, <3>2
      <4>2. k - (i - 1) + i = k + 1
        BY SMTT(30), <2>1, <2>5
      <4> QED BY SMTT(30), <2>1, <2>4, <2>5, <3>2, <4>1, <4>2
    <3> QED BY SMTT(30), <2>1, <2>5, <3>1, <3>2
  <2>7. ASSUME \A a, b \in 1..Len(q) : q[a] = q[b] => a = b,
               NEW k \in 1..Len(p \o t), NEW l \in 1..Len(p \o t), (p \o t)[k] = (p \o t)[l]
        PROVE  k = l
    <3>1. at(k) = at(l)
      BY <2>6, <2>7
    <3> QED BY SMTT(30), <2>1, <2>5, <3>1
  <2> QED BY <2>2, <2>5, <2>6, <2>7
<1> QED BY <1>1, <1>2

(* What a call in progress is about. *)
LEMMA FrameClients ==
  ASSUME StackPart, NEW f \in Elements(stack)
  PROVE  f \in Frames /\ f.cs \subseteq Clients /\ FrameOK(f)
<1>1. stack \in Seq(Frames) /\ FrameOK(f)
  BY DEF StackPart
<1>2. f \in Frames
  BY SMTT(30), <1>1 DEF Elements
<1> QED BY <1>1, <1>2 DEF Frames

(* The initial limit is a positive number. *)
LEMMA InitialLimitType ==
  ASSUME cached \in Nat
  PROVE  InitialStreamsLimit \in Nat /\ InitialStreamsLimit # 0
<1> DEFINE L == {MaxConcurrentStreams, MaxRequestsPerConnection, cached} \ {0}
<1>1. L \subseteq Nat /\ MaxConcurrentStreams \in L /\ MaxRequestsPerConnection \in L
  BY ConnPoolAssumption
<1>2. \E l \in L : \A k \in L : l <= k
  <2>1. ASSUME NEW a \in Nat, NEW b \in Nat PROVE \E l \in {a, b} : l <= a /\ l <= b
    <3>1. a <= b \/ b <= a
      BY SMTT(30)
    <3> QED BY SMTT(30), <3>1
  <2>2. PICK m \in {MaxConcurrentStreams, MaxRequestsPerConnection} :
          m <= MaxConcurrentStreams /\ m <= MaxRequestsPerConnection
    BY SMTT(30), <1>1, <2>1
  <2>3. m \in Nat
    BY <1>1
  <2>4. PICK l \in {m, cached} : l <= m /\ l <= cached
    BY <2>1, <2>3
  <2>5. CASE cached = 0
    BY SMTT(30), <1>1, <2>2, <2>5
  <2>6. CASE cached # 0
    <3>1. l \in L /\ l \in Nat
      BY <1>1, <2>3, <2>4, <2>6
    <3>2. \A k \in L : l <= k
      BY SMTT(30), <1>1, <2>2, <2>3, <2>4, <3>1
    <3> QED BY <3>1, <3>2
  <2> QED BY <2>5, <2>6
<1>3. InitialStreamsLimit \in L
  BY <1>2 DEF InitialStreamsLimit
<1> QED BY <1>1, <1>3

=============================================================================
