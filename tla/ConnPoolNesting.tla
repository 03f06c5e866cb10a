-------------------------- MODULE ConnPoolNesting ---------------------------
(***************************************************************************)
(* The call stack of the connection pool: what pushing and popping frames  *)
(* does to the nesting of the calls, what keeps their duties, and the      *)
(* steps that only continue calls.                                         *)
(***************************************************************************)
EXTENDS ConnPoolStack

(* Leaves are given to the Zenon prover, for at most 30 s, unless they name another. *)
USE ZenonT(30)

-----------------------------------------------------------------------------
(* Pushing and popping frames *)

Push(f, q) == <<f>> \o q

(* Sequences with the same elements at the same places are equal. *)
LEMMA SameSequence ==
  ASSUME NEW T, NEW p \in Seq(T), NEW q \in Seq(T), Len(p) = Len(q),
         \A i \in 1..Len(p) : p[i] = q[i]
  PROVE  p = q
BY SMTT(30)

(* Pushing a frame on another one that was pushed. *)
LEMMA PushTwice ==
  ASSUME NEW T, NEW f \in T, NEW g \in T, NEW q \in Seq(T)
  PROVE  <<f, g>> \o q = <<f>> \o (<<g>> \o q)
<1> DEFINE r == <<g>> \o q
<1>1. /\ r \in Seq(T) /\ Len(r) = Len(q) + 1 /\ r[1] = g /\ \A i \in 1..Len(q) : r[i + 1] = q[i]
      /\ Len(q) \in Nat
  BY SMTT(30)
<1> HIDE DEF r
<1> DEFINE a == <<f>> \o r
           b == <<f, g>> \o q
<1>2. /\ a \in Seq(T) /\ Len(a) = Len(r) + 1 /\ a[1] = f /\ \A i \in 1..Len(r) : a[i + 1] = r[i]
  BY SMTT(30), <1>1
<1>3. /\ b \in Seq(T) /\ Len(b) = Len(q) + 2 /\ b[1] = f /\ b[2] = g
      /\ \A i \in 1..Len(q) : b[i + 2] = q[i]
  BY SMTT(30)
<1> HIDE DEF a, b
<1>4. ASSUME NEW i \in 1..Len(b) PROVE b[i] = a[i]
  <2>1. CASE i = 1
    BY <1>2, <1>3, <2>1
  <2>2. CASE i = 2
    <3>1. a[1 + 1] = r[1]
      BY SMTT(30), <1>1, <1>2
    <3> QED BY SMTT(30), <1>1, <1>3, <2>2, <3>1
  <2>3. CASE i > 2
    <3>1. i - 2 \in 1..Len(q) /\ i - 1 \in 1..Len(r) /\ (i - 2) + 2 = i /\ (i - 1) + 1 = i
          /\ (i - 2) + 1 = i - 1
      BY SMTT(30), <1>1, <1>3, <2>3
    <3>2. b[(i - 2) + 2] = q[i - 2] /\ a[(i - 1) + 1] = r[i - 1] /\ r[(i - 2) + 1] = q[i - 2]
      BY <1>1, <1>2, <1>3, <3>1
    <3> QED BY <3>1, <3>2
  <2> QED BY SMTT(30), <1>1, <1>3, <2>1, <2>2, <2>3
<1>5. Len(a) = Len(b)
  BY SMTT(30), <1>1, <1>2, <1>3
<1>6. b = a
  BY <1>2, <1>3, <1>4, <1>5, SameSequence
<1> QED BY <1>6 DEF a, b, r

(* The stacks the actions write down are made by pushing frames. *)
LEMMA PushForms ==
  ASSUME NEW q \in Seq(Frames), NEW f \in Frames, NEW g \in Frames
  PROVE  /\ <<>> \o q = q /\ <<f>> \o q = Push(f, q)
         /\ <<f, g>> \o q = Push(f, Push(g, q))
         /\ <<f>> = Push(f, <<>>) /\ <<f, g>> = Push(f, Push(g, <<>>))
<1>1. <<f, g>> \o q = Push(f, Push(g, q))
  BY SMTT(30), PushTwice DEF Push
<1>2. <<>> \o q = q
  BY SMTT(30)
<1>3. <<f>> = <<f>> \o <<>> /\ <<f, g>> = <<f>> \o (<<g>> \o <<>>)
  <2>1. ASSUME NEW p \in Seq(Frames) PROVE p \o <<>> = p
    <3>1. p \o <<>> \in Seq(Frames) /\ Len(p \o <<>>) = Len(p)
      BY SMTT(30)
    <3>2. \A i \in 1..Len(p) : (p \o <<>>)[i] = p[i]
      BY SMTT(30)
    <3> QED BY <3>1, <3>2, SameSequence
  <2>2. <<f>> \in Seq(Frames) /\ <<f, g>> \in Seq(Frames) /\ <<>> \in Seq(Frames)
    BY SMTT(30)
  <2>3. <<f, g>> \o <<>> = <<f>> \o (<<g>> \o <<>>)
    BY SMTT(30), <2>2, PushTwice
  <2> QED BY <2>1, <2>2, <2>3
<1> QED BY <1>1, <1>2, <1>3 DEF Push

(* Three calls pushed at once. *)
LEMMA ThreePushed ==
  ASSUME NEW q \in Seq(Frames), NEW f \in Frames, NEW g \in Frames, NEW h \in Frames
  PROVE  <<f, g, h>> \o q = Push(f, Push(g, Push(h, q)))
<1> DEFINE r == <<h>> \o q
<1>1. <<f, g>> \o r = <<f>> \o (<<g>> \o r)
  <2>1. r \in Seq(Frames)
    BY SMTT(30)
  <2> HIDE DEF r
  <2> QED BY SMTT(30), <2>1, PushTwice
<1>2. <<f, g>> \o (<<h>> \o q) = <<f, g, h>> \o q
  BY SMTT(30)
<1> QED BY <1>1, <1>2 DEF Push

(* What a push does. *)
LEMMA PushFacts ==
  ASSUME NEW f \in Frames, NEW q \in Seq(Frames)
  PROVE  /\ Push(f, q) \in Seq(Frames) /\ Push(f, q) # <<>>
         /\ Elements(Push(f, q)) = {f} \cup Elements(q) /\ Head(Push(f, q)) = f
<1>1. Push(f, q) \in Seq(Frames) /\ Elements(Push(f, q)) = {f} \cup Elements(q)
  BY SMTT(30), ElementsPush DEF Push
<1>2. Push(f, q) # <<>> /\ Head(Push(f, q)) = f
  BY SMTT(30) DEF Push
<1> QED BY <1>1, <1>2

(* The elements of a stack are its head and those of its rest. *)
LEMMA HeadAndRest ==
  ASSUME stack \in Seq(Frames), stack # <<>>
  PROVE  Elements(stack) = {Head(stack)} \cup Elements(Rest)
<1>1. /\ Len(stack) \in Nat \ {0} /\ Len(Rest) = Len(stack) - 1 /\ Head(stack) = stack[1]
      /\ \A i \in 1..Len(Rest) : Rest[i] = stack[i + 1]
  BY SMTT(30) DEF Rest
<1> HIDE DEF Rest
<1>2. ASSUME NEW i \in 1..Len(stack) PROVE stack[i] = Head(stack) \/ stack[i] \in Elements(Rest)
  <2>1. CASE i = 1
    BY <1>1, <2>1
  <2>2. CASE i # 1
    <3>1. i - 1 \in 1..Len(Rest) /\ Rest[i - 1] = stack[i]
      BY SMTT(30), <1>1, <2>2
    <3> QED BY <3>1 DEF Elements
  <2> QED BY <2>1, <2>2
<1>3. ASSUME NEW i \in 1..Len(Rest) PROVE Rest[i] \in Elements(stack)
  <2>1. i + 1 \in 1..Len(stack) /\ Rest[i] = stack[i + 1]
    BY SMTT(30), <1>1
  <2> QED BY <2>1 DEF Elements
<1>4. Head(stack) \in Elements(stack)
  BY SMTT(30), <1>1 DEF Elements
<1> QED BY <1>2, <1>3, <1>4 DEF Elements

(* The nesting of a stack with one more frame. *)
LEMMA OrderlyPush ==
  ASSUME NEW q \in Seq(Frames), NEW f \in Frames, Orderly(q), q # <<>> => Above(f, Head(q))
  PROVE  Orderly(Push(f, q))
<1> DEFINE p == Push(f, q)
<1>1. /\ Len(p) = Len(q) + 1 /\ p[1] = f /\ \A i \in 1..Len(q) : p[i + 1] = q[i]
      /\ Len(q) \in Nat /\ (Len(q) # 0 => q # <<>> /\ Head(q) = q[1])
  BY SMTT(30) DEF Push
<1> HIDE DEF p
<1>2. ASSUME NEW i \in 1..(Len(p) - 1) PROVE Above(p[i], p[i + 1])
  <2>1. CASE i = 1
    <3>1. p[i] = f /\ p[i + 1] = q[1] /\ q # <<>> /\ Head(q) = q[1]
      BY SMTT(30), <1>1, <2>1
    <3> QED BY <3>1
  <2>2. CASE i # 1
    <3>1. /\ i - 1 \in 1..(Len(q) - 1)
          /\ p[i] = q[i - 1] /\ p[i + 1] = q[(i - 1) + 1]
      <4>1. i - 1 \in 1..(Len(q) - 1) /\ i - 1 \in 1..Len(q) /\ i \in 1..Len(q)
            /\ (i - 1) + 1 = i
        BY SMTT(30), <1>1, <2>2
      <4> QED BY SMTT(30), <1>1, <4>1
    <3>2. Above(q[i - 1], q[(i - 1) + 1])
      BY <3>1 DEF Orderly
    <3> QED BY <3>1, <3>2
  <2> QED BY <2>1, <2>2
<1> QED BY <1>2 DEF Orderly, p

(* The nesting of what is left when the top frame is popped. *)
LEMMA OrderlyRest ==
  ASSUME stack \in Seq(Frames), stack # <<>>, Orderly(stack)
  PROVE  /\ Orderly(Rest)
         /\ Rest # <<>> => Above(Head(stack), Head(Rest))
         /\ \A f \in Elements(Rest) : ~Fresh(f)
<1>1. /\ Len(Rest) = Len(stack) - 1 /\ Len(stack) \in Nat \ {0} /\ Rest \in Seq(Frames)
      /\ \A i \in 1..Len(Rest) : Rest[i] = stack[i + 1]
      /\ Head(stack) = stack[1] /\ (Rest # <<>> => Head(Rest) = stack[2] /\ Len(Rest) > 0)
  BY SMTT(30) DEF Rest
<1> HIDE DEF Rest
<1>2. ASSUME NEW i \in 1..(Len(Rest) - 1) PROVE Above(Rest[i], Rest[i + 1])
  <2>1. i + 1 \in 1..(Len(stack) - 1) /\ Rest[i] = stack[i + 1] /\ Rest[i + 1] = stack[(i + 1) + 1]
    BY SMTT(30), <1>1
  <2> QED BY <2>1 DEF Orderly
<1>3. ASSUME NEW i \in 1..Len(Rest) PROVE Above(stack[i], Rest[i])
  <2>1. i \in 1..(Len(stack) - 1) /\ Rest[i] = stack[i + 1]
    BY <1>1
  <2> QED BY <2>1 DEF Orderly
<1>4. ASSUME Rest # <<>> PROVE Above(Head(stack), Head(Rest))
  <2>1. 1 \in 1..Len(Rest) /\ Head(Rest) = Rest[1] /\ Head(stack) = stack[1]
    BY SMTT(30), <1>1, <1>4
  <2> QED BY <1>3, <2>1
<1>5. \A f \in Elements(Rest) : ~Fresh(f)
  BY <1>3 DEF Elements, Above
<1> QED BY <1>2, <1>4, <1>5 DEF Orderly

-----------------------------------------------------------------------------
(* The stacks the actions leave behind *)

(* A stack without a fresh attempt, and one on which a call may be pushed. *)
Sound(q) ==
  /\ q \in Seq(Frames) /\ Orderly(q)
  /\ \A f \in Elements(q) : f.op \in ClientOps => \E c \in Clients : f.cs = {c}
  /\ \A f \in Elements(q) : ~Fresh(f)

Pushable(q) == Sound(q) /\ (q # <<>> /\ Multiplexed => Head(q).op # "lost")

(* A frame that may be pushed on any such stack. *)
Ordinary(f) ==
  /\ f \in Frames /\ ~Fresh(f)
  /\ f.op # "destroy" /\ f.op # "drainRest"
  /\ f.op \in ClientOps => \E c \in Clients : f.cs = {c}

(* Every call in progress stays in progress, except for one of `op'. *)
KeepsBut(op) == \A f \in Elements(stack) : f.op # op => f \in Elements(stack)'

(* Pushing an ordinary frame. *)
LEMMA PushOn ==
  ASSUME NEW q, Pushable(q), NEW f, Ordinary(f)
  PROVE  /\ Sound(Push(f, q)) /\ Elements(Push(f, q)) = {f} \cup Elements(q)
         /\ f.op # "lost" => Pushable(Push(f, q))
<1>1. q \in Seq(Frames) /\ f \in Frames /\ Orderly(q)
  BY DEF Pushable, Sound, Ordinary
<1>2. /\ Push(f, q) \in Seq(Frames) /\ Elements(Push(f, q)) = {f} \cup Elements(q)
      /\ Head(Push(f, q)) = f
  BY <1>1, PushFacts
<1>3. q # <<>> => Head(q) \in Elements(q)
  BY <1>1, ElementsTail
<1>4. q # <<>> => Above(f, Head(q))
  BY <1>3 DEF Pushable, Sound, Ordinary, Above
<1>5. Orderly(Push(f, q))
  BY <1>1, <1>4, OrderlyPush
<1> QED BY <1>2, <1>5 DEF Pushable, Sound, Ordinary

(* The empty stack, and the calls that start a drain or the destructor. *)
LEMMA PushFirst ==
  /\ Pushable(<<>>) /\ Elements(<<>>) = {}
  /\ \A op \in {"drainRest", "destroy"} :
       Pushable(Push(Call(op), <<>>)) /\ Elements(Push(Call(op), <<>>)) = {Call(op)}
<1>1. <<>> \in Seq(Frames) /\ Orderly(<<>>) /\ Elements(<<>>) = {}
  BY SMTT(30), ElementsSmall DEF Orderly
<1>2. ASSUME NEW op \in {"drainRest", "destroy"}
      PROVE  /\ Call(op) \in Frames /\ Call(op).op = op /\ op \notin ClientOps /\ ~Fresh(Call(op))
  <2>1. op \in Ops \ ClientOps /\ op # "tryCreate"
    BY <1>2 DEF Ops, ClientOps
  <2>2. Call(op) \in Frames /\ Call(op).op = op
    BY <2>1, FrameTypes
  <2> QED BY <2>1, <2>2 DEF Fresh
<1>3. ASSUME NEW op \in {"drainRest", "destroy"}
      PROVE  Pushable(Push(Call(op), <<>>)) /\ Elements(Push(Call(op), <<>>)) = {Call(op)}
  <2> DEFINE f == Call(op)
  <2>1. f \in Frames /\ f.op = op /\ op \notin ClientOps /\ ~Fresh(f) /\ f.op # "lost"
    BY <1>2, <1>3
  <2> HIDE DEF f
  <2>2. /\ Push(f, <<>>) \in Seq(Frames) /\ Elements(Push(f, <<>>)) = {f} \cup Elements(<<>>)
        /\ Head(Push(f, <<>>)) = f
    BY <1>1, <2>1, PushFacts
  <2>3. Orderly(Push(f, <<>>))
    BY <1>1, <2>1, OrderlyPush
  <2>4. Elements(Push(f, <<>>)) = {f}
    BY <1>1, <2>2
  <2>5. Pushable(Push(f, <<>>))
    BY <2>1, <2>2, <2>3, <2>4 DEF Pushable, Sound
  <2> QED BY <2>4, <2>5 DEF f
<1> QED BY <1>1, <1>3 DEF Pushable, Sound

(* What a step can leave of the stack. *)
LEMMA StackFacts ==
  ASSUME stack \in Seq(Frames), OrderPart, NEW op, Running(op)
  PROVE  /\ Elements(stack) = {Head(stack)} \cup Elements(Rest)
         /\ Head(stack).op = op /\ Head(stack) \in Frames
         /\ Sound(Rest)
         /\ op # "reset" \/ ~Multiplexed => Pushable(Rest)
         /\ op # "tryCreate" /\ op # "lost" => Pushable(stack)
<1>1. stack # <<>> /\ Head(stack).op = op
  BY DEF Running
<1>2. /\ Rest \in Seq(Frames) /\ Head(stack) \in Frames
  BY RestTypes
<1>3. Elements(stack) = {Head(stack)} \cup Elements(Rest)
  BY <1>1, HeadAndRest
<1>4. /\ Orderly(Rest) /\ (Rest # <<>> => Above(Head(stack), Head(Rest)))
      /\ \A f \in Elements(Rest) : ~Fresh(f)
  BY <1>1, OrderlyRest DEF OrderPart
<1>5. Sound(Rest)
  BY <1>2, <1>3, <1>4 DEF Sound, OrderPart
<1>6. ASSUME op # "reset" \/ ~Multiplexed PROVE Pushable(Rest)
  BY <1>1, <1>4, <1>5, <1>6 DEF Pushable, Above
<1>7. ASSUME op # "tryCreate", op # "lost" PROVE Pushable(stack)
  <2>1. \A f \in Elements(stack) : ~Fresh(f)
    BY <1>1, <1>3, <1>4, <1>7 DEF Fresh
  <2> QED BY <1>1, <1>7, <2>1 DEF Pushable, Sound, OrderPart
<1> QED BY <1>1, <1>2, <1>3, <1>5, <1>6, <1>7

(* The calls that stay in progress. *)
LEMMA CallsKept ==
  ASSUME stack \in Seq(Frames), OrderPart, NEW op, Running(op),
         Elements(Rest) \subseteq Elements(stack')
  PROVE  KeepsBut(op)
<1>1. Elements(stack) = {Head(stack)} \cup Elements(Rest) /\ Head(stack).op = op
  BY StackFacts
<1> QED BY <1>1 DEF KeepsBut

(* A sound stack is in order. *)
LEMMA SoundOrder ==
  ASSUME Sound(stack')
  PROVE  OrderPart'
BY DEF Sound, OrderPart

(* At rest there is no call in progress. *)
LEMMA AtRest ==
  ASSUME Quiescent
  PROVE  stack = <<>> /\ Elements(stack) = {} /\ Pushable(stack) /\ \A op : KeepsBut(op)
<1>1. stack = <<>>
  BY DEF Quiescent
<1>2. Elements(stack) = {} /\ Pushable(stack)
  BY <1>1, PushFirst
<1> QED BY <1>1, <1>2 DEF KeepsBut

-----------------------------------------------------------------------------
(* What keeps a duty *)

(* A duty is kept by a step that does not finish the calls that have it.   *)
LEMMA DoingKept ==
  ASSUME NEW op, KeepsBut(op), NEW ops, op \notin ops
  PROVE  /\ Doing(ops) => Doing(ops)'
         /\ \A c : DoingTo(ops, c) => DoingTo(ops, c)'
BY DEF KeepsBut, Doing, DoingTo

(* Streams stay on the way to be purged. *)
LEMMA PurgeKept ==
  ASSUME PurgePart, NEW op, KeepsBut(op), op # "purge",
         purging' # <<>> => purging # <<>>, deleted => pending' = pending,
         deleted' = deleted, idleCallbacks' = idleCallbacks
  PROVE  PurgePart'
<1>1. op \notin {"purge"}
  OBVIOUS
<1>2. Doing({"purge"}) => Doing({"purge"})'
  BY <1>1, DoingKept
<1> QED BY <1>2 DEF PurgePart

(* A closed connection is still about to leave its list. *)
LEMMA LostListedKept ==
  ASSUME LostListed, NEW op, KeepsBut(op), op \notin {"lost", "release"},
         listed' \ open' \subseteq listed \ open
  PROVE  LostListed'
<1>1. \A c : DoingTo({"lost", "release"}, c) => DoingTo({"lost", "release"}, c)'
  BY DoingKept
<1> QED BY <1>1 DEF LostListed

(* A client about to be released stays unable to serve. *)
LEMMA LostDoneKept ==
  ASSUME LostDone, \A f \in Elements(stack') : f.op = "release" => f \in Elements(stack),
         \A f \in Elements(stack) : f.op = "release" => \A c \in f.cs :
           state[c] # "Ready" /\ state[c] # "Busy" => state'[c] # "Ready" /\ state'[c] # "Busy"
  PROVE  LostDone'
BY DEF LostDone

(* The streams of a closed connection are still about to be reset. *)
LEMMA ResetsKept ==
  ASSUME StreamsOfLostConnectionsAreReset, NEW op, KeepsBut(op), op # "reset",
         open \subseteq open', \A s \in Streams : on'[s] = on[s] \/ on'[s] = NoClient
  PROVE  StreamsOfLostConnectionsAreReset'
BY DEF StreamsOfLostConnectionsAreReset, KeepsBut

(* The limits of the clients stay above zero. *)
LEMMA LimitKept ==
  ASSUME LimitPart, NEW op, KeepsBut(op), op \notin {"lost", "release"}, listed' \subseteq listed,
         \A c \in listed' : /\ limit'[c] = limit[c] /\ configured'[c] = configured[c]
                            /\ state'[c] = state[c] /\ remaining'[c] = remaining[c]
  PROVE  LimitPart'
<1>1. \A c : DoingTo({"release"}, c) => DoingTo({"release"}, c)'
  <2>1. op \notin {"release"}
    OBVIOUS
  <2> QED BY <2>1, DoingKept
<1> QED BY <1>1 DEF LimitPart

(* A draining client without streams is still being closed. *)
LEMMA DrainedKept ==
  ASSUME DrainedClosing, NEW op, KeepsBut(op), op \notin {"close", "lost", "release"},
         \A c \in listed' : state'[c] = "Draining" /\ NumActiveStreams(c)' = 0 =>
           c \in listed /\ state[c] = "Draining" /\ NumActiveStreams(c) = 0
  PROVE  DrainedClosing'
<1>1. \A c : DoingTo({"close", "lost", "release"}, c) => DoingTo({"close", "lost", "release"}, c)'
  BY DoingKept
<1> QED BY <1>1 DEF DrainedClosing, InState

(* An idle client of a draining pool is still being closed. *)
LEMMA IdleKept ==
  ASSUME IdleClosing, NEW op, KeepsBut(op),
         op \notin {"checkIdle", "closeIdle", "closeAll", "close", "lost"},
         draining' = draining, deleted' = deleted,
         \A c \in listed' : state'[c] = "Ready" /\ NumActiveStreams(c)' = 0 =>
           c \in listed /\ state[c] = "Ready" /\ NumActiveStreams(c) = 0
  PROVE  IdleClosing'
<1>1. op \notin {"checkIdle", "closeIdle"} /\ op \notin {"closeAll", "close", "lost"}
  OBVIOUS
<1>2. /\ Doing({"checkIdle", "closeIdle"}) => Doing({"checkIdle", "closeIdle"})'
      /\ \A c : Tended(c) => Tended(c)'
  BY <1>1, DoingKept DEF Tended
<1> QED BY <1>2 DEF IdleClosing, InState

(* A draining pool that has become idle is still about to notice. *)
LEMMA EmptyKept ==
  ASSUME EmptyPart, NEW op, KeepsBut(op), op \notin {"checkIdle", "notifyIdle"},
         op \notin {"lost", "release"},
         draining' = draining, deleted' = deleted,
         listed' = {} /\ pending' = <<>> => listed = {} /\ pending = <<>>
  PROVE  EmptyPart'
<1>1. op \notin {"checkIdle", "notifyIdle", "release"}
  OBVIOUS
<1>2. Doing({"checkIdle", "notifyIdle", "release"}) => Doing({"checkIdle", "notifyIdle", "release"})'
  BY <1>1, DoingKept
<1> QED BY <1>2 DEF EmptyPart

(* The pool is still about to connect for its queue. *)
LEMMA DemandKept ==
  ASSUME DemandPart, NEW op, KeepsBut(op), op \notin {"closed", "tryCreate"},
         pending' # <<>> /\ listed' = {} => pending # <<>> /\ listed = {}
  PROVE  DemandPart'
<1>1. op # "closed" /\ op # "tryCreate"
  OBVIOUS
<1> QED BY <1>1 DEF DemandPart, Connecting, KeepsBut

(* A ready client is still about to serve the queue. *)
LEMMA ReadyKept ==
  ASSUME ReadyPart, NEW op, KeepsBut(op), op # "upstreamReady", readyCallback => readyCallback',
         \A c \in listed' : pending' # <<>> /\ state'[c] = "Ready" =>
           pending # <<>> /\ c \in listed /\ state[c] = "Ready"
  PROVE  ReadyPart'
<1>1. op \notin {"upstreamReady"}
  OBVIOUS
<1>2. Doing({"upstreamReady"}) => Doing({"upstreamReady"})'
  BY <1>1, DoingKept
<1> QED BY <1>2 DEF ReadyPart, InState

(* A deleted pool gets no client. *)
LEMMA DeletedKept ==
  ASSUME DeletedPart, NEW op, KeepsBut(op), op # "destroy", deleted' => deleted,
         listed = {} => listed' = {}
  PROVE  DeletedPart'
<1>1. op \notin {"destroy"}
  OBVIOUS
<1>2. Doing({"destroy"}) => Doing({"destroy"})'
  BY <1>1, DoingKept
<1> QED BY <1>2 DEF DeletedPart

(* Nothing but the calls of a drain runs above it. *)
LEMMA NotDraining ==
  ASSUME stack \in Seq(Frames), DrainPart,
         Quiescent \/ \E op : Running(op) /\ op \notin DrainOps,
         \A f \in Elements(stack') : f.op = "drainRest" => f \in Elements(stack)
  PROVE  DrainPart'
<1>1. CASE Quiescent
  <2>1. Elements(stack) = {}
    BY <1>1, AtRest
  <2> QED BY <2>1 DEF DrainPart, Doing
<1>2. ASSUME NEW op, Running(op), op \notin DrainOps PROVE DrainPart'
  <2>1. Head(stack) \in Elements(stack) /\ Head(stack).op = op
    BY <1>2, RestTypes
  <2>2. ~Doing({"drainRest"})
    BY <1>2, <2>1 DEF DrainPart, DrainFrame
  <2> QED BY <2>2 DEF DrainPart, Doing
<1> QED BY <1>1, <1>2

-----------------------------------------------------------------------------
(* Steps that only continue the calls in progress *)

(* The frames that are pushed on any stack. *)
LEMMA OrdinaryCalls ==
  /\ \A op \in {"user", "upstreamReady", "checkIdle", "closeIdle", "notifyIdle", "purge", "retry"} :
       Ordinary(Call(op)) /\ Call(op).op = op
  /\ Ordinary(User) /\ User.op = "user"
  /\ \A s \in Streams \cup {NoStream}, op \in {"cancel", "cancelExcess"} :
       Ordinary(CallFor(op, s)) /\ CallFor(op, s).op = op
  /\ \A cs \in SUBSET Clients :
       Ordinary(CloseAll(cs)) /\ CloseAll(cs).op = "closeAll" /\ CloseAll(cs).cs = cs
<1>1. ASSUME NEW f \in Frames, f.op \notin ClientOps \cup {"destroy", "drainRest", "tryCreate"}
      PROVE  Ordinary(f)
  BY <1>1 DEF Ordinary, Fresh
<1>2. \A op \in {"user", "upstreamReady", "checkIdle", "closeIdle", "notifyIdle", "purge", "retry"} :
        op \in Ops \ ClientOps /\ op \notin ClientOps \cup {"destroy", "drainRest", "tryCreate"}
  BY DEF Ops, ClientOps
<1>3. \A op \in {"cancel", "cancelExcess"} :
        op \in Ops \ ClientOps /\ op \notin ClientOps \cup {"destroy", "drainRest", "tryCreate"}
  BY DEF Ops, ClientOps
<1>4. /\ "user" \notin ClientOps \cup {"destroy", "drainRest", "tryCreate"}
      /\ "closeAll" \notin ClientOps \cup {"destroy", "drainRest", "tryCreate"}
  BY DEF ClientOps
<1>5. \A cs : CloseAll(cs).cs = cs
  BY DEF CloseAll, Frame
<1>6. \A op \in {"user", "upstreamReady", "checkIdle", "closeIdle", "notifyIdle", "purge", "retry"} :
        Ordinary(Call(op)) /\ Call(op).op = op
  <2>1. \A op \in Ops \ ClientOps : Call(op) \in Frames /\ Call(op).op = op
    BY FrameTypes
  <2>2. \A op \in Ops \ ClientOps : op \notin ClientOps \cup {"destroy", "drainRest", "tryCreate"} =>
          Ordinary(Call(op)) /\ Call(op).op = op
    BY <1>1, <2>1
  <2> QED BY <1>2, <2>2
<1>7. \A s \in Streams \cup {NoStream}, op \in {"cancel", "cancelExcess"} :
        Ordinary(CallFor(op, s)) /\ CallFor(op, s).op = op
  BY <1>1, <1>3, FrameTypes
<1>8. Ordinary(User) /\ User.op = "user"
  BY <1>1, <1>4, FrameTypes
<1>9. \A cs \in SUBSET Clients :
        Ordinary(CloseAll(cs)) /\ CloseAll(cs).op = "closeAll" /\ CloseAll(cs).cs = cs
  BY <1>1, <1>4, <1>5, FrameTypes
<1> QED BY <1>6, <1>7, <1>8, <1>9

(* The frames about one client, and the attempts to connect. *)
LEMMA OrdinaryCallsOn ==
  /\ \A c \in Clients, op \in ClientOps :
       Ordinary(CallOn(op, c)) /\ CallOn(op, c).op = op /\ CallOn(op, c).cs = {c}
  /\ \A c \in Clients : /\ Ordinary(CallOnError("close", c))
                        /\ CallOnError("close", c).op = "close" /\ CallOnError("close", c).cs = {c}
  /\ /\ Ordinary(TryCreate(3, NoStream)) /\ TryCreate(3, NoStream).op = "tryCreate"
     /\ TryCreate(3, NoStream).s = NoStream /\ TryCreate(3, NoStream).n = 3
  /\ \A n \in 0..2, s \in Streams \cup {NoStream} :
       Ordinary(TryCreate(n, s)) /\ TryCreate(n, s).op = "tryCreate" /\ TryCreate(n, s).s = s
<1>1. ASSUME NEW f \in Frames, f.op \in ClientOps, NEW c \in Clients, f.cs = {c}
      PROVE  Ordinary(f)
  BY <1>1 DEF Ordinary, Fresh, ClientOps
<1>2. /\ \A n, s : TryCreate(n, s).op = "tryCreate" /\ TryCreate(n, s).s = s /\ TryCreate(n, s).n = n
      /\ \A c : CallOnError("close", c).op = "close" /\ CallOnError("close", c).cs = {c}
  BY DEF TryCreate, CallOnError, Frame
<1>3. \A n \in 0..3, s \in Streams \cup {NoStream} : TryCreate(n, s) \in Frames
  BY FrameTypes
<1>4. ASSUME NEW n \in 0..3, NEW s \in Streams \cup {NoStream}, n # 3 \/ s = NoStream
      PROVE  Ordinary(TryCreate(n, s))
  <2> DEFINE f == TryCreate(n, s)
  <2>1. f \in Frames /\ f.op = "tryCreate" /\ f.n = n /\ f.s = s
    BY <1>2, <1>3
  <2> HIDE DEF f
  <2>2. Ordinary(f)
    BY <1>4, <2>1 DEF Ordinary, Fresh, ClientOps
  <2> QED BY <2>2 DEF f
<1>5. \A c \in Clients, op \in ClientOps :
        Ordinary(CallOn(op, c)) /\ CallOn(op, c).op = op /\ CallOn(op, c).cs = {c}
  <2>1. \A op \in ClientOps : op \in Ops
    BY DEF ClientOps, Ops
  <2>2. \A op \in Ops, c \in Clients : /\ CallOn(op, c) \in Frames
                                       /\ CallOn(op, c).op = op /\ CallOn(op, c).cs = {c}
    BY FrameTypes
  <2>3. ASSUME NEW c \in Clients, NEW op \in ClientOps
        PROVE  Ordinary(CallOn(op, c)) /\ CallOn(op, c).op = op /\ CallOn(op, c).cs = {c}
    <3>1. CallOn(op, c) \in Frames /\ CallOn(op, c).op = op /\ CallOn(op, c).cs = {c}
      BY <2>1, <2>2, <2>3
    <3>2. Ordinary(CallOn(op, c))
      BY <1>1, <2>3, <3>1
    <3> QED BY <3>1, <3>2
  <2> QED BY <2>3
<1>6. \A c \in Clients : Ordinary(CallOnError("close", c))
  <2>1. "close" \in ClientOps
    BY DEF ClientOps
  <2>2. ASSUME NEW c \in Clients PROVE Ordinary(CallOnError("close", c))
    <3>1. /\ CallOnError("close", c) \in Frames
          /\ CallOnError("close", c).op \in ClientOps /\ CallOnError("close", c).cs = {c}
      BY <1>2, <2>1, <2>2, ErrorFrameType
    <3> QED BY <1>1, <2>2, <3>1
  <2> QED BY <2>2
<1>7. 3 \in 0..3 /\ \A n \in 0..2 : n \in 0..3 /\ n # 3
  BY SMTT(30)
<1>8. Ordinary(TryCreate(3, NoStream))
  BY <1>4, <1>7
<1>9. \A n \in 0..2, s \in Streams \cup {NoStream} : Ordinary(TryCreate(n, s))
  BY <1>4, <1>7
<1> QED BY SMTT(30), <1>2, <1>5, <1>6, <1>8, <1>9

(* What a step that leaves the clients alone leaves to show. *)
LEMMA QueueKeeps ==
  ASSUME Duties, UNCHANGED <<clientVars, on, poolVars>>, NEW op, KeepsBut(op),
         \A f \in Elements(stack') : f.op = "release" => f \in Elements(stack)
  PROVE  /\ LostDone'
         /\ op # "reset" => StreamsOfLostConnectionsAreReset'
         /\ op \notin {"lost", "release"} => LostListed' /\ LimitPart'
         /\ op \notin {"close", "lost", "release"} => DrainedClosing'
         /\ op \notin {"checkIdle", "closeIdle", "closeAll", "close", "lost"} => IdleClosing'
         /\ op # "destroy" => DeletedPart'
         /\ (pending' = <<>> => pending = <<>>) =>
              (op \notin {"checkIdle", "notifyIdle"} /\ op \notin {"lost", "release"} => EmptyPart')
         /\ (pending' # <<>> => pending # <<>>) =>
              /\ op \notin {"closed", "tryCreate"} => DemandPart'
              /\ op # "upstreamReady" => ReadyPart'
<1>1. /\ UNCHANGED <<state, remaining, limit, configured, listed, open>> /\ on' = on
      /\ UNCHANGED <<draining, deleted, idleCallbacks, readyCallback>>
  BY DEF clientVars, poolVars
<1>2. \A c : NumActiveStreams(c)' = NumActiveStreams(c)
  BY <1>1 DEF NumActiveStreams
<1>3. /\ LostListed /\ LostDone /\ StreamsOfLostConnectionsAreReset
      /\ LimitPart /\ DrainedClosing /\ IdleClosing /\ EmptyPart /\ DemandPart /\ ReadyPart
      /\ DeletedPart
  BY DEF Duties, LostPart
<1>4. LostDone'
  BY <1>1, <1>3, LostDoneKept
<1>5. op \notin {"lost", "release"} => LimitPart'
  BY <1>1, <1>3, LimitKept
<1>6. op # "reset" => StreamsOfLostConnectionsAreReset'
  BY <1>1, <1>3, ResetsKept
<1>7. op \notin {"lost", "release"} => LostListed'
  BY <1>1, <1>3, LostListedKept
<1>8. op \notin {"close", "lost", "release"} => DrainedClosing'
  BY <1>1, <1>2, <1>3, DrainedKept
<1>9. op \notin {"checkIdle", "closeIdle", "closeAll", "close", "lost"} => IdleClosing'
  BY <1>1, <1>2, <1>3, IdleKept
<1>10. (pending' = <<>> => pending = <<>>) =>
         (op \notin {"checkIdle", "notifyIdle"} /\ op \notin {"lost", "release"} => EmptyPart')
  BY <1>1, <1>3, EmptyKept
<1>11. (pending' # <<>> => pending # <<>>) => (op \notin {"closed", "tryCreate"} => DemandPart')
  BY <1>1, <1>3, DemandKept
<1>12. (pending' # <<>> => pending # <<>>) => (op # "upstreamReady" => ReadyPart')
  BY <1>1, <1>3, ReadyKept
<1>13. op # "destroy" => DeletedPart'
  BY <1>1, <1>3, DeletedKept
<1> QED BY <1>4, <1>5, <1>6, <1>7, <1>8, <1>9, <1>10, <1>11, <1>12, <1>13

(* Streams in the queues stay in their places. *)
LEMMA PlaceKept ==
  ASSUME PlacePart, UNCHANGED <<on, pending, purging>>
  PROVE  PlacePart'
<1>1. on' = on /\ pending' = pending /\ purging' = purging
  OBVIOUS
<1> QED BY SMTT(30), <1>1 DEF PlacePart, Elements

Steady == UNCHANGED <<clientVars, streamVars, counterVars, poolVars>>

(* What a step that changes only the stack leaves to show. *)
LEMMA SteadyKeeps ==
  ASSUME Duties, Steady, NEW op, KeepsBut(op), Sound(stack') \/ stack' = stack,
         \A f \in Elements(stack') : f.op = "release" => f \in Elements(stack)
  PROVE  /\ OrderPart' /\ PlacePart' /\ LostDone'
         /\ op # "purge" => PurgePart'
         /\ op # "reset" => StreamsOfLostConnectionsAreReset'
         /\ op \notin {"lost", "release"} => LostListed' /\ LimitPart'
         /\ op \notin {"close", "lost", "release"} => DrainedClosing'
         /\ op \notin {"checkIdle", "closeIdle", "closeAll", "close", "lost"} => IdleClosing'
         /\ op \notin {"checkIdle", "notifyIdle"} /\ op \notin {"lost", "release"} => EmptyPart'
         /\ op \notin {"closed", "tryCreate"} => DemandPart'
         /\ op # "upstreamReady" => ReadyPart'
         /\ op # "destroy" => DeletedPart'
<1>1. /\ UNCHANGED <<state, listed>> /\ UNCHANGED <<on, pending, purging>>
      /\ deleted' = deleted /\ idleCallbacks' = idleCallbacks
      /\ UNCHANGED <<clientVars, on, poolVars>>
  BY DEF Steady, clientVars, streamVars, poolVars
<1>2. OrderPart'
  <2>1. CASE Sound(stack')
    BY <2>1, SoundOrder
  <2>2. CASE stack' = stack
    BY <1>1, <2>2 DEF Duties, OrderPart, InState
  <2> QED BY <2>1, <2>2
<1>3. PlacePart' /\ (op # "purge" => PurgePart')
  <2>1. PlacePart /\ PurgePart
    BY DEF Duties
  <2> QED BY <1>1, <2>1, PlaceKept, PurgeKept
<1>4. (pending' = <<>> => pending = <<>>) /\ (pending' # <<>> => pending # <<>>)
  BY <1>1
<1> QED BY <1>1, <1>2, <1>3, <1>4, QueueKeeps

(* Nothing a drain does not call is running. *)
LEMMA Undrained ==
  ASSUME stack \in Seq(Frames), DrainPart, Quiescent \/ \E op : Running(op) /\ op \notin DrainOps
  PROVE  ~Doing({"drainRest"})
<1>1. CASE Quiescent
  BY <1>1, AtRest DEF Doing
<1>2. ASSUME NEW op, Running(op), op \notin DrainOps PROVE ~Doing({"drainRest"})
  <2>1. Head(stack) \in Elements(stack) /\ Head(stack).op = op
    BY <1>2, RestTypes
  <2> QED BY <1>2, <2>1 DEF DrainPart, DrainFrame
<1> QED BY <1>1, <1>2

(* A drain that a step continues. *)
LEMMA SteadyDrain ==
  ASSUME DrainPart, Steady,
         \A f \in Elements(stack') :
           f \in Elements(stack) \/ (f.op # "drainRest" /\ (Doing({"drainRest"}) => DrainFrame(f))),
         IdleTended => IdleTended'
  PROVE  DrainPart'
<1>1. UNCHANGED <<state, on, pending, purging>>
  BY DEF Steady, clientVars, streamVars
<1>2. \A f : DrainFrame(f) => DrainFrame(f)'
  BY <1>1 DEF DrainFrame, NumActiveStreams
<1>3. Doing({"drainRest"})' => Doing({"drainRest"})
  BY DEF Doing
<1> QED BY <1>1, <1>2, <1>3 DEF DrainPart

(* Idle connections stay in the hands of a drain. *)
LEMMA TendedKept ==
  ASSUME UNCHANGED <<state, on, listed>>, NEW op, KeepsBut(op),
         op \notin {"closeIdle", "closeAll", "close", "lost"}
  PROVE  IdleTended => IdleTended'
<1>1. op \notin {"closeIdle"} /\ op \notin {"closeAll", "close", "lost"}
  OBVIOUS
<1>2. (Doing({"closeIdle"}) => Doing({"closeIdle"})') /\ \A c : Tended(c) => Tended(c)'
  BY <1>1, DoingKept DEF Tended
<1>3. \A c : NumActiveStreams(c)' = NumActiveStreams(c)
  BY DEF NumActiveStreams
<1> QED BY <1>2, <1>3 DEF IdleTended, InState

(* A call from the event loop, from a user or from the destructor. *)
LEMMA PushDuty ==
  ASSUME stack \in Seq(Frames), Duties, Steady, Quiescent \/ Running("user") \/ Running("destroy"),
         NEW f, Ordinary(f), f.op # "release", stack' = Push(f, stack)
  PROVE  Duties'
<1>1. OrderPart /\ DrainPart
  BY DEF Duties
<1>2. Pushable(stack)
  <2>1. "user" # "tryCreate" /\ "user" # "lost" /\ "destroy" # "tryCreate" /\ "destroy" # "lost"
    OBVIOUS
  <2>2. CASE Quiescent
    BY <2>2, AtRest
  <2>3. CASE Running("user")
    BY <1>1, <2>1, <2>3, StackFacts
  <2>4. CASE Running("destroy")
    BY <1>1, <2>1, <2>4, StackFacts
  <2> QED BY <2>2, <2>3, <2>4
<1>3. Sound(stack') /\ Elements(stack') = {f} \cup Elements(stack)
  BY <1>2, PushOn
<1>4. KeepsBut("none")
  BY <1>3 DEF KeepsBut
<1>5. \A g \in Elements(stack') : g.op = "release" \/ g.op = "drainRest" => g \in Elements(stack)
  BY <1>3 DEF Ordinary
<1>6. "user" \notin DrainOps /\ "destroy" \notin DrainOps
  BY DEF DrainOps
<1>7. DrainPart'
  BY <1>1, <1>5, <1>6, NotDraining
<1>8. /\ "none" # "purge" /\ "none" # "reset" /\ "none" \notin {"lost", "release"}
      /\ "none" \notin {"close", "lost", "release"}
      /\ "none" \notin {"checkIdle", "closeIdle", "closeAll", "close", "lost"}
      /\ "none" \notin {"checkIdle", "notifyIdle"} /\ "none" \notin {"closed", "tryCreate"}
      /\ "none" # "upstreamReady" /\ "none" # "destroy"
  OBVIOUS
<1> QED BY <1>3, <1>4, <1>5, <1>7, <1>8, SteadyKeeps DEF Duties, LostPart

-----------------------------------------------------------------------------
(* Steps that only continue the calls in progress *)

(* Cancelled requests and closed connections. *)
LEMMA PushedCallsDuty ==
  ASSUME IInv, Duties,
         \/ \E s \in Streams : Cancel(s)
         \/ \E s \in Streams : MayCall /\ on[s] # NoClient /\ OnResetStream(s)
         \/ \E c \in Clients : ConnectionEnds(c) \/ OnProtocolError(c) \/ OnConnectTimeout(c)
         \/ \E c \in Clients : NumActiveStreams(c) = 0 /\ OnGoAway(c)
         \/ listed # {} /\ DestructAllConnections
  PROVE  Duties'
<1>1. stack \in Seq(Frames) /\ listed \subseteq Clients /\ (\A s \in Streams : on[s] # NoClient => on[s] \in Clients)
  BY DEF IInv, StackPart, ClientPart, ClientTyped
<1>2. \A c \in Clients : /\ Ordinary(CallOn("close", c)) /\ CallOn("close", c).op # "release"
                         /\ Ordinary(CallOnError("close", c)) /\ CallOnError("close", c).op # "release"
  BY OrdinaryCallsOn DEF ClientOps
<1>3. \A f : Ordinary(f) => f \in Frames
  BY DEF Ordinary
<1>4. \A f \in Frames : <<f>> \o stack = Push(f, stack) /\ (stack = <<>> => <<f>> = Push(f, stack))
  BY <1>1, PushForms DEF Push
<1>5. MayCall => Quiescent \/ Running("user")
  BY DEF MayCall
<1>6. ASSUME NEW s \in Streams, Cancel(s) PROVE Duties'
  <2>1. PICK op \in {"cancel", "cancelExcess"} : stack' = <<CallFor(op, s)>> \o stack
    BY <1>6 DEF Cancel
  <2>2. Ordinary(CallFor(op, s)) /\ CallFor(op, s).op # "release"
    BY <2>1, OrdinaryCalls
  <2>3. Steady /\ MayCall
    BY <1>6 DEF Cancel, Steady
  <2> QED BY <1>1, <1>3, <1>4, <1>5, <2>1, <2>2, <2>3, PushDuty
<1>7. ASSUME NEW s \in Streams, MayCall, on[s] # NoClient, OnResetStream(s) PROVE Duties'
  <2>1. stack' = <<CallOn("close", on[s])>> \o stack /\ Steady
    BY <1>7 DEF OnResetStream, Steady
  <2> QED BY <1>1, <1>2, <1>3, <1>4, <1>5, <1>7, <2>1, PushDuty
<1>8. ASSUME NEW c \in Clients, NEW f \in {CallOn("close", c), CallOnError("close", c)},
             stack' = <<f>>, Steady, Quiescent
      PROVE Duties'
  <2>1. Ordinary(f) /\ f.op # "release"
    BY <1>2, <1>8
  <2> QED BY <1>1, <1>3, <1>4, <1>8, <2>1, PushDuty DEF Quiescent
<1>9. ASSUME NEW c \in Clients, ConnectionEnds(c) \/ OnConnectTimeout(c) PROVE Duties'
  <2>1. Quiescent /\ stack' = <<CallOn("close", c)>> /\ Steady
    BY <1>9 DEF ConnectionEnds, OnConnectTimeout, Steady
  <2> QED BY <1>8, <2>1
<1>10. ASSUME NEW c \in Clients, OnProtocolError(c) PROVE Duties'
  <2>1. Quiescent /\ stack' = <<CallOnError("close", c)>> /\ Steady
    BY <1>10 DEF OnProtocolError, Steady
  <2> QED BY <1>8, <2>1
<1>11. ASSUME NEW c \in Clients, NumActiveStreams(c) = 0, OnGoAway(c) PROVE Duties'
  <2>1. Quiescent /\ stack' = <<CallOn("close", c)>> /\ Steady
    BY <1>11 DEF OnGoAway, Steady
  <2> QED BY <1>8, <2>1
<1>12. ASSUME listed # {}, DestructAllConnections PROVE Duties'
  <2>1. PICK c \in listed : stack' = <<CallOn("close", c)>> \o stack
    BY <1>12 DEF DestructAllConnections
  <2>2. Steady /\ Running("destroy")
    BY <1>12 DEF DestructAllConnections, Steady, clientVars
  <2>3. c \in Clients
    BY <1>1, <2>1
  <2> QED BY <1>1, <1>2, <1>3, <1>4, <2>1, <2>2, <2>3, PushDuty
<1> QED BY <1>6, <1>7, <1>9, <1>10, <1>11, <1>12

(* What the end of the running call, with nothing called instead, leaves to show. *)
LEMMA PopFacts ==
  ASSUME stack \in Seq(Frames), OrderPart, NEW op, Running(op), stack' = Rest
  PROVE  /\ KeepsBut(op) /\ Sound(stack') /\ Elements(stack') \subseteq Elements(stack)
         /\ \A f \in Elements(stack') : f.op = "release" => f \in Elements(stack)
<1>1. Elements(stack) = {Head(stack)} \cup Elements(Rest) /\ Sound(Rest)
  BY StackFacts
<1>2. KeepsBut(op)
  BY CallsKept
<1> QED BY <1>1, <1>2

(* The same when the running call calls f. *)
LEMMA CallFacts ==
  ASSUME stack \in Seq(Frames), OrderPart, NEW op, Running(op), op # "reset" \/ ~Multiplexed,
         NEW f, Ordinary(f), f.op # "release", stack' = Push(f, Rest)
  PROVE  /\ KeepsBut(op) /\ Sound(stack') /\ Elements(stack') = {f} \cup Elements(Rest)
         /\ \A g \in Elements(stack') : g = f \/ g \in Elements(stack)
         /\ \A g \in Elements(stack') : g.op = "release" => g \in Elements(stack)
<1>1. Elements(stack) = {Head(stack)} \cup Elements(Rest) /\ Pushable(Rest)
  BY StackFacts
<1>2. Sound(stack') /\ Elements(stack') = {f} \cup Elements(Rest)
  BY <1>1, PushOn
<1>3. KeepsBut(op)
  BY <1>2, CallsKept
<1> QED BY <1>1, <1>2, <1>3

(* The same when it calls f and then g. *)
LEMMA TwoCallsFacts ==
  ASSUME stack \in Seq(Frames), OrderPart, NEW op, Running(op), op # "reset" \/ ~Multiplexed,
         NEW f, Ordinary(f), f.op # "release", NEW g, Ordinary(g), g.op # "release", g.op # "lost",
         stack' = Push(f, Push(g, Rest))
  PROVE  /\ KeepsBut(op) /\ Sound(stack') /\ Elements(stack') = {f, g} \cup Elements(Rest)
         /\ \A h \in Elements(stack') : h = f \/ h = g \/ h \in Elements(stack)
         /\ \A h \in Elements(stack') : h.op = "release" => h \in Elements(stack)
<1>1. Elements(stack) = {Head(stack)} \cup Elements(Rest) /\ Pushable(Rest)
  BY StackFacts
<1>2. Pushable(Push(g, Rest)) /\ Elements(Push(g, Rest)) = {g} \cup Elements(Rest)
  BY <1>1, PushOn
<1>3. Sound(stack') /\ Elements(stack') = {f} \cup ({g} \cup Elements(Rest))
  BY <1>2, PushOn
<1>4. Elements(stack') = {f, g} \cup Elements(Rest)
  BY <1>3
<1>5. KeepsBut(op)
  BY <1>4, CallsKept
<1> QED BY <1>1, <1>3, <1>4, <1>5

(* A callback returns, and a purge is followed by an attempt to connect. *)
LEMMA ReturnDuty ==
  ASSUME IInv, Duties, UserReturns \/ RetryAfterPurge
  PROVE  Duties'
<1>1. stack \in Seq(Frames) /\ OrderPart /\ DrainPart
  BY DEF IInv, StackPart, Duties
<1>2. \A op \in {"user", "retry"} :
        /\ op # "purge" /\ op # "reset" /\ op \notin {"lost", "release"}
        /\ op \notin {"close", "lost", "release"}
        /\ op \notin {"checkIdle", "closeIdle", "closeAll", "close", "lost"}
        /\ op \notin {"checkIdle", "notifyIdle"} /\ op \notin {"closed", "tryCreate"}
        /\ op # "upstreamReady" /\ op # "destroy"
        /\ op \notin {"closeIdle", "closeAll", "close", "lost"}
  OBVIOUS
<1>3. ASSUME NEW op \in {"user", "retry"}, Steady, KeepsBut(op), Sound(stack'), DrainPart',
             \A f \in Elements(stack') : f.op = "release" => f \in Elements(stack)
      PROVE  Duties'
  BY <1>2, <1>3, SteadyKeeps DEF Duties, LostPart
<1>4. CASE UserReturns
  <2>1. Running("user") /\ stack' = Rest /\ Steady
    BY <1>4 DEF UserReturns, Steady
  <2>2. /\ KeepsBut("user") /\ Sound(stack') /\ Elements(stack') \subseteq Elements(stack)
        /\ \A f \in Elements(stack') : f.op = "release" => f \in Elements(stack)
    BY <1>1, <2>1, PopFacts
  <2>3. "user" \notin DrainOps
    BY DEF DrainOps
  <2>4. DrainPart'
    BY <1>1, <2>1, <2>2, <2>3, NotDraining
  <2> QED BY <1>3, <2>1, <2>2, <2>4
<1>5. CASE RetryAfterPurge
  <2> DEFINE f == TryCreate(3, NoStream)
  <2>1. /\ Running("retry") /\ Steady
        /\ stack' = (IF draining THEN <<>> ELSE <<f>>) \o Rest
    BY <1>5 DEF RetryAfterPurge, Steady
  <2>2. Ordinary(f) /\ f \in Frames /\ f.op = "tryCreate" /\ f.s = NoStream
    BY OrdinaryCallsOn DEF Ordinary
  <2> HIDE DEF f
  <2>3. Rest \in Seq(Frames)
    BY <1>1, <2>1, RestTypes
  <2>4. stack' = Rest \/ stack' = Push(f, Rest)
    BY <2>1, <2>2, <2>3, PushForms
  <2>5. f.op # "release" /\ f.op # "drainRest" /\ "retry" # "reset" /\ DrainFrame(f)
    BY <2>2 DEF DrainFrame, DrainOps
  <2>6. /\ KeepsBut("retry") /\ Sound(stack')
        /\ \A g \in Elements(stack') : g = f \/ g \in Elements(stack)
        /\ \A g \in Elements(stack') : g.op = "release" => g \in Elements(stack)
    BY <1>1, <2>1, <2>2, <2>4, <2>5, PopFacts, CallFacts
  <2>7. UNCHANGED <<state, on, listed>>
    BY <2>1 DEF Steady, clientVars, streamVars
  <2>8. IdleTended => IdleTended'
    BY <1>2, <2>6, <2>7, TendedKept
  <2>9. DrainPart'
    BY <1>1, <2>1, <2>5, <2>6, <2>8, SteadyDrain
  <2> QED BY <1>3, <2>1, <2>6, <2>9
<1> QED BY <1>4, <1>5

(* checkForIdleAndCloseIdleConnsIfDraining *)
LEMMA CheckIdleDuty ==
  ASSUME IInv, Duties, CheckForIdleAndCloseIdleConnsIfDraining
  PROVE  Duties'
<1> DEFINE f == Call("closeIdle")
           g == Call("notifyIdle")
<1>1. stack \in Seq(Frames) /\ OrderPart /\ DrainPart
  BY DEF IInv, StackPart, Duties
<1>2. /\ Running("checkIdle") /\ Steady
      /\ stack' = (IF draining THEN <<f>> ELSE <<>>) \o <<g>> \o Rest
  BY DEF CheckForIdleAndCloseIdleConnsIfDraining, Steady
<1>3. Ordinary(f) /\ Ordinary(g) /\ f.op = "closeIdle" /\ g.op = "notifyIdle"
  BY OrdinaryCalls
<1> HIDE DEF f, g
<1>4. Rest \in Seq(Frames)
  BY <1>1, <1>2, RestTypes
<1>5. f \in Frames /\ g \in Frames /\ Push(g, Rest) \in Seq(Frames)
  BY <1>3, <1>4, PushFacts DEF Ordinary
<1>6. stack' = IF draining THEN Push(f, Push(g, Rest)) ELSE Push(g, Rest)
  <2>1. <<g>> \in Seq(Frames) /\ <<>> \in Seq(Frames)
    BY SMTT(30), <1>5
  <2>2. <<f>> \o <<g>> = <<f, g>>
    <3>1. <<f, g>> = Push(f, Push(g, <<>>)) /\ <<g>> = Push(g, <<>>)
      BY <1>5, <2>1, PushForms
    <3> QED BY <3>1 DEF Push
  <2>3. <<>> \o <<g>> = <<g>>
    BY <1>5, <2>1, PushForms
  <2>4. <<f, g>> \o Rest = Push(f, Push(g, Rest)) /\ <<g>> \o Rest = Push(g, Rest)
    BY <1>4, <1>5, PushForms
  <2>5. CASE draining
    <3>1. stack' = (<<f>> \o <<g>>) \o Rest
      BY <1>2, <2>5
    <3> QED BY <2>2, <2>4, <2>5, <3>1
  <2>6. CASE ~draining
    <3>1. stack' = (<<>> \o <<g>>) \o Rest
      BY <1>2, <2>6
    <3> QED BY <2>3, <2>4, <2>6, <3>1
  <2> QED BY <2>5, <2>6
<1>7. f.op # "release" /\ g.op # "release" /\ g.op # "lost" /\ "checkIdle" # "reset"
  BY <1>3
<1>8. /\ KeepsBut("checkIdle") /\ Sound(stack') /\ g \in Elements(stack')
      /\ draining => f \in Elements(stack')
      /\ \A h \in Elements(stack') : h = f \/ h = g \/ h \in Elements(stack)
      /\ \A h \in Elements(stack') : h.op = "release" => h \in Elements(stack)
  <2>1. CASE draining
    <3>1. stack' = Push(f, Push(g, Rest))
      BY <1>6, <2>1
    <3>2. /\ KeepsBut("checkIdle") /\ Sound(stack') /\ Elements(stack') = {f, g} \cup Elements(Rest)
          /\ \A h \in Elements(stack') : h = f \/ h = g \/ h \in Elements(stack)
          /\ \A h \in Elements(stack') : h.op = "release" => h \in Elements(stack)
      BY <1>1, <1>2, <1>3, <1>7, <3>1, TwoCallsFacts
    <3> QED BY <3>2
  <2>2. CASE ~draining
    <3>1. stack' = Push(g, Rest)
      BY <1>6, <2>2
    <3>2. /\ KeepsBut("checkIdle") /\ Sound(stack') /\ Elements(stack') = {g} \cup Elements(Rest)
          /\ \A h \in Elements(stack') : h = g \/ h \in Elements(stack)
          /\ \A h \in Elements(stack') : h.op = "release" => h \in Elements(stack)
      BY <1>1, <1>2, <1>3, <1>7, <3>1, CallFacts
    <3> QED BY <2>2, <3>2
  <2> QED BY <2>1, <2>2
<1>9. "checkIdle" \notin DrainOps /\ f.op # "drainRest" /\ g.op # "drainRest"
  BY <1>3 DEF DrainOps
<1>10. DrainPart'
  BY <1>1, <1>2, <1>8, <1>9, NotDraining
<1>11. EmptyPart'
  <2>1. g.op \in {"checkIdle", "notifyIdle", "release"}
    BY <1>3
  <2> QED BY <1>8, <2>1 DEF EmptyPart, Doing
<1>12. IdleClosing'
  <2>1. f.op \in {"checkIdle", "closeIdle"} /\ draining' = draining
    BY <1>2, <1>3 DEF Steady, poolVars
  <2>2. draining => Doing({"checkIdle", "closeIdle"})'
    BY <1>8, <2>1 DEF Doing
  <2> QED BY <2>1, <2>2 DEF IdleClosing
<1>13. /\ "checkIdle" # "purge" /\ "checkIdle" # "reset" /\ "checkIdle" \notin {"lost", "release"}
       /\ "checkIdle" \notin {"close", "lost", "release"}
       /\ "checkIdle" \notin {"closed", "tryCreate"}
       /\ "checkIdle" # "upstreamReady" /\ "checkIdle" # "destroy"
  OBVIOUS
<1> QED BY <1>2, <1>8, <1>10, <1>11, <1>12, <1>13, SteadyKeeps DEF Duties, LostPart

(* closeIdleConnectionsForDrainingPool finds every idle connection. *)
LEMMA CloseIdleDuty ==
  ASSUME IInv, Duties, CloseIdleConnectionsForDrainingPool
  PROVE  Duties'
<1> DEFINE f == CloseAll(IdleClients)
<1>1. stack \in Seq(Frames) /\ OrderPart /\ DrainPart /\ listed \subseteq Clients
  BY DEF IInv, StackPart, Duties, ClientPart, ClientTyped
<1>2. Running("closeIdle") /\ Steady /\ stack' = <<f>> \o Rest
  BY DEF CloseIdleConnectionsForDrainingPool, Steady
<1>3. IdleClients \subseteq Clients
  BY <1>1 DEF IdleClients, InState
<1>4. Ordinary(f) /\ f.op = "closeAll" /\ f.cs = IdleClients
  BY <1>3, OrdinaryCalls
<1> HIDE DEF f
<1>5. stack' = Push(f, Rest)
  BY <1>2 DEF Push
<1>6. f.op # "release" /\ "closeIdle" # "reset"
  BY <1>4
<1>7. /\ KeepsBut("closeIdle") /\ Sound(stack') /\ Elements(stack') = {f} \cup Elements(Rest)
      /\ \A g \in Elements(stack') : g = f \/ g \in Elements(stack)
      /\ \A g \in Elements(stack') : g.op = "release" => g \in Elements(stack)
  BY <1>1, <1>2, <1>4, <1>5, <1>6, CallFacts
<1>8. UNCHANGED <<state, on, listed, pending>> /\ (\A c : NumActiveStreams(c)' = NumActiveStreams(c))
  BY <1>2 DEF Steady, clientVars, streamVars, NumActiveStreams
<1>9. \A c \in InState("Ready")' : NumActiveStreams(c)' = 0 => Tended(c)'
  <2>1. ASSUME NEW c \in InState("Ready")', NumActiveStreams(c)' = 0 PROVE Tended(c)'
    <3>1. c \in f.cs
      BY <1>4, <1>8, <2>1 DEF IdleClients, InState
    <3>2. f.op \in {"closeAll", "close", "lost"} /\ f \in Elements(stack')
      BY <1>4, <1>7
    <3> QED BY <3>1, <3>2 DEF Tended, DoingTo
  <2> QED BY <2>1
<1>10. IdleClosing' /\ IdleTended'
  BY <1>9 DEF IdleClosing, IdleTended
<1>11. DrainFrame(f) /\ f.op # "drainRest"
  <2>1. \A c \in IdleClients : NumActiveStreams(c) = 0 /\ (state[c] = "Connecting" => pending = <<>>)
    <3>1. \A c \in Clients : state[c] = "Connecting" => NumActiveStreams(c) = 0
      BY DEF IInv, ClientPart, Books, ClientOK
    <3> QED BY <1>3, <3>1 DEF IdleClients, InState
  <2>2. f.op \in DrainOps /\ f.op # "tryCreate" /\ f.op # "drainRest"
    BY <1>4 DEF DrainOps
  <2> QED BY <1>4, <2>1, <2>2 DEF DrainFrame
<1>12. DrainPart'
  BY <1>1, <1>2, <1>7, <1>10, <1>11, SteadyDrain
<1>13. /\ "closeIdle" # "purge" /\ "closeIdle" # "reset" /\ "closeIdle" \notin {"lost", "release"}
       /\ "closeIdle" \notin {"close", "lost", "release"} /\ "closeIdle" \notin {"checkIdle", "notifyIdle"}
       /\ "closeIdle" \notin {"closed", "tryCreate"}
       /\ "closeIdle" # "upstreamReady" /\ "closeIdle" # "destroy"
  OBVIOUS
<1> QED BY <1>2, <1>7, <1>10, <1>12, <1>13, SteadyKeeps DEF Duties, LostPart

(* What the loop over the idle connections has not closed stays tended. *)
LEMMA TendedClosing ==
  ASSUME UNCHANGED <<state, on, listed, draining, deleted>>, KeepsBut("closeAll"),
         \A c : Tended(c) => Tended(c)'
  PROVE  (IdleTended => IdleTended') /\ (IdleClosing => IdleClosing')
<1>1. "closeAll" \notin {"closeIdle"} /\ "closeAll" \notin {"checkIdle", "closeIdle"}
  OBVIOUS
<1>2. /\ Doing({"closeIdle"}) => Doing({"closeIdle"})'
      /\ Doing({"checkIdle", "closeIdle"}) => Doing({"checkIdle", "closeIdle"})'
  BY <1>1, DoingKept
<1>3. \A c : NumActiveStreams(c)' = NumActiveStreams(c)
  BY DEF NumActiveStreams
<1> QED BY <1>2, <1>3 DEF IdleTended, IdleClosing, InState

(* The loop over the idle connections closes the next one. *)
LEMMA CloseNextDuty ==
  ASSUME IInv, Duties, CloseNextClient
  PROVE  Duties'
<1>1. stack \in Seq(Frames) /\ OrderPart /\ DrainPart /\ IdleClosing
  BY DEF IInv, StackPart, Duties
<1>2. Running("closeAll") /\ Steady
  BY DEF CloseNextClient, Steady
<1>3. /\ Rest \in Seq(Frames) /\ Head(stack).cs \in SUBSET Clients /\ Head(stack) \in Elements(stack)
      /\ Head(stack).op = "closeAll" /\ Elements(stack) = {Head(stack)} \cup Elements(Rest)
  BY <1>1, <1>2, RestTypes, StackFacts
<1>4. UNCHANGED <<state, on, listed, draining, deleted>>
  BY <1>2 DEF Steady, clientVars, streamVars, poolVars
<1>5. /\ "closeAll" # "purge" /\ "closeAll" # "reset" /\ "closeAll" \notin {"lost", "release"}
      /\ "closeAll" \notin {"close", "lost", "release"} /\ "closeAll" \notin {"checkIdle", "notifyIdle"}
      /\ "closeAll" \notin {"closed", "tryCreate"}
      /\ "closeAll" # "upstreamReady" /\ "closeAll" # "destroy"
  OBVIOUS
<1>6. ASSUME KeepsBut("closeAll"), Sound(stack'), DrainPart', \A c : Tended(c) => Tended(c)',
             \A f \in Elements(stack') : f.op = "release" => f \in Elements(stack)
      PROVE  Duties'
  <2>1. IdleClosing'
    BY <1>1, <1>4, <1>6, TendedClosing
  <2> QED BY <1>2, <1>5, <1>6, <2>1, SteadyKeeps DEF Duties, LostPart
<1>7. CASE Head(stack).cs = {}
  <2>1. stack' = Rest
    BY <1>7 DEF CloseNextClient
  <2>2. /\ KeepsBut("closeAll") /\ Sound(stack') /\ Elements(stack') \subseteq Elements(stack)
        /\ \A f \in Elements(stack') : f.op = "release" => f \in Elements(stack)
    BY <1>1, <1>2, <2>1, PopFacts
  <2>3. \A c : Tended(c) => Tended(c)'
    BY <1>3, <1>7, <2>1 DEF Tended, DoingTo
  <2>4. IdleTended => IdleTended'
    BY <1>4, <2>2, <2>3, TendedClosing
  <2>5. DrainPart'
    BY <1>1, <1>2, <2>2, <2>4, SteadyDrain
  <2> QED BY <1>6, <2>2, <2>3, <2>5
<1>8. CASE Head(stack).cs # {}
  <2>1. PICK c \in Head(stack).cs :
          stack' = <<CallOn("close", c), CloseAll(Head(stack).cs \ {c})>> \o Rest
    BY <1>8 DEF CloseNextClient
  <2> DEFINE f == CallOn("close", c)
             g == CloseAll(Head(stack).cs \ {c})
  <2>2. /\ Ordinary(f) /\ f.op = "close" /\ f.cs = {c}
        /\ Ordinary(g) /\ g.op = "closeAll" /\ g.cs = Head(stack).cs \ {c}
    <3>1. c \in Clients /\ Head(stack).cs \ {c} \in SUBSET Clients /\ "close" \in ClientOps
      BY <1>3, <2>1 DEF ClientOps
    <3> QED BY SMTT(30), <3>1, OrdinaryCalls, OrdinaryCallsOn
  <2>3. stack' = <<f, g>> \o Rest
    BY <2>1
  <2> HIDE DEF f, g
  <2>4. f \in Frames /\ g \in Frames
    BY <2>2 DEF Ordinary
  <2>5. stack' = Push(f, Push(g, Rest))
    BY <1>3, <2>3, <2>4, PushForms
  <2>6. f.op # "release" /\ g.op # "release" /\ g.op # "lost" /\ f.op # "drainRest" /\ g.op # "drainRest"
    BY <2>2
  <2>7. /\ KeepsBut("closeAll") /\ Sound(stack') /\ Elements(stack') = {f, g} \cup Elements(Rest)
        /\ \A h \in Elements(stack') : h = f \/ h = g \/ h \in Elements(stack)
        /\ \A h \in Elements(stack') : h.op = "release" => h \in Elements(stack)
    BY <1>1, <1>2, <1>5, <2>2, <2>5, <2>6, TwoCallsFacts
  <2>8. ASSUME NEW d, Tended(d) PROVE Tended(d)'
    <3>1. f.op \in {"closeAll", "close", "lost"} /\ g.op \in {"closeAll", "close", "lost"}
      BY <2>2
    <3>2. PICK h \in Elements(stack) : h.op \in {"closeAll", "close", "lost"} /\ d \in h.cs
      BY <2>8 DEF Tended, DoingTo
    <3>3. \E k \in Elements(stack') : k.op \in {"closeAll", "close", "lost"} /\ d \in k.cs
      BY <1>3, <2>2, <2>7, <3>1, <3>2
    <3> QED BY <3>3 DEF Tended, DoingTo
  <2>9. IdleTended => IdleTended'
    BY <1>4, <2>7, <2>8, TendedClosing
  <2>10. Doing({"drainRest"}) => DrainFrame(f) /\ DrainFrame(g)
    <3>1. /\ f.op \in DrainOps /\ g.op \in DrainOps /\ f.op # "tryCreate" /\ g.op # "tryCreate"
          /\ f.cs \subseteq Head(stack).cs /\ g.cs \subseteq Head(stack).cs
          /\ "closeAll" \in {"closeAll", "close", "reset", "lost"}
      BY <2>1, <2>2 DEF DrainOps
    <3>2. Doing({"drainRest"}) => DrainFrame(Head(stack))
      BY <1>1, <1>3 DEF DrainPart
    <3> QED BY <1>3, <3>1, <3>2 DEF DrainFrame
  <2>11. DrainPart'
    BY <1>1, <1>2, <2>6, <2>7, <2>9, <2>10, SteadyDrain
  <2> QED BY <1>6, <2>7, <2>8, <2>11
<1> QED BY <1>7, <1>8

(* The end of a purge. *)
LEMMA PurgeEndDuty ==
  ASSUME IInv, Duties, PurgePendingStreams, purging = <<>>
  PROVE  Duties'
<1>1. stack \in Seq(Frames) /\ OrderPart /\ DrainPart /\ PurgePart
  BY DEF IInv, StackPart, Duties
<1>2. Running("purge") /\ stack' = Rest /\ purging' = purging
  BY DEF PurgePendingStreams
<1>3. Steady
  BY <1>2 DEF PurgePendingStreams, Steady, streamVars
<1>4. /\ KeepsBut("purge") /\ Sound(stack') /\ Elements(stack') \subseteq Elements(stack)
      /\ \A f \in Elements(stack') : f.op = "release" => f \in Elements(stack)
  BY <1>1, <1>2, PopFacts
<1>5. UNCHANGED <<state, on, listed>> /\ UNCHANGED <<pending, deleted, idleCallbacks>>
  BY <1>3 DEF Steady, clientVars, streamVars, poolVars
<1>6. /\ "purge" # "reset" /\ "purge" \notin {"lost", "release"}
      /\ "purge" \notin {"close", "lost", "release"}
      /\ "purge" \notin {"checkIdle", "closeIdle", "closeAll", "close", "lost"}
      /\ "purge" \notin {"checkIdle", "notifyIdle"} /\ "purge" \notin {"closed", "tryCreate"}
      /\ "purge" # "upstreamReady" /\ "purge" # "destroy"
      /\ "purge" \notin {"closeIdle", "closeAll", "close", "lost"}
  OBVIOUS
<1>7. IdleTended => IdleTended'
  BY <1>4, <1>5, <1>6, TendedKept
<1>8. DrainPart'
  BY <1>1, <1>3, <1>4, <1>7, SteadyDrain
<1>9. PurgePart'
  BY <1>1, <1>2, <1>5 DEF PurgePart
<1> QED BY <1>3, <1>4, <1>6, <1>8, <1>9, SteadyKeeps DEF Duties, LostPart

(* The codec has reset the streams of a lost connection. *)
LEMMA ResetEndDuty ==
  ASSUME IInv, Counted, Duties, Running("reset"), Steady,
         LET streams == {s \in Streams : on[s] = TheClient}
         IN /\ streams = {} \/ ~Multiplexed
            /\ stack' = (IF streams # {} THEN <<User>> ELSE <<>>) \o Rest
  PROVE  Duties'
<1> DEFINE streams == {s \in Streams : on[s] = TheClient}
<1>1. stack \in Seq(Frames) /\ OrderPart /\ DrainPart /\ StreamsOfLostConnectionsAreReset /\ ClientTyped
  BY DEF IInv, StackPart, Duties, LostPart, ClientPart
<1>2. Rest \in Seq(Frames) /\ Head(stack) \in Elements(stack) /\ Head(stack).op = "reset"
      /\ Elements(stack) = {Head(stack)} \cup Elements(Rest)
  BY <1>1, RestTypes, StackFacts
<1>3. TheClient \in Clients /\ Head(stack).cs = {TheClient}
  <2>1. "reset" \in ClientOps
    BY DEF ClientOps
  <2>2. PICK d \in Clients : Head(stack).cs = {d}
    BY <1>1, <1>2, <2>1 DEF OrderPart
  <2> QED BY <1>1, <2>1, <2>2, TheClientType
<1>4. Ordinary(User) /\ User \in Frames /\ User.op # "release" /\ User.op # "drainRest"
  <2>1. Ordinary(User) /\ User.op = "user"
    BY OrdinaryCalls
  <2> QED BY <2>1 DEF Ordinary
<1>5. \/ stack' = Rest /\ streams = {}
      \/ stack' = Push(User, Rest) /\ streams # {} /\ ~Multiplexed
  BY <1>2, <1>4, PushForms
<1>6. /\ KeepsBut("reset") /\ Sound(stack')
      /\ \A f \in Elements(stack') : f.op = "release" => f \in Elements(stack)
      /\ \A f \in Elements(stack') : f \in Elements(stack) \/ (f = User /\ streams # {})
  <2> HIDE DEF streams
  <2>1. CASE stack' = Rest
    BY <1>1, <2>1, PopFacts
  <2>2. CASE stack' = Push(User, Rest) /\ streams # {} /\ ~Multiplexed
    BY <1>1, <1>4, <2>2, CallFacts
  <2> QED BY <1>5, <2>1, <2>2
<1>7. StreamsOfLostConnectionsAreReset'
  <2>1. open' = open /\ on' = on
    BY DEF Steady, clientVars, streamVars
  <2>2. ASSUME Multiplexed, NEW s \in Streams, on[s] # NoClient, on[s] \notin open
        PROVE  \E f \in Elements(stack') : f.op = "reset" /\ on[s] \in f.cs
    <3>1. PICK f \in Elements(stack) : f.op = "reset" /\ on[s] \in f.cs
      BY <1>1, <2>2 DEF StreamsOfLostConnectionsAreReset
    <3>2. stack' = Rest /\ on[s] # TheClient
      BY <1>5, <2>2
    <3>3. f \in Elements(Rest)
      BY <1>2, <1>3, <3>1, <3>2
    <3> QED BY <3>1, <3>2, <3>3
  <2> QED BY <2>1, <2>2 DEF StreamsOfLostConnectionsAreReset
<1>8. Doing({"drainRest"}) => streams = {}
  <2>1. "reset" \in {"closeAll", "close", "reset", "lost"} /\ TheClient \in Head(stack).cs
    BY <1>3
  <2>2. Doing({"drainRest"}) => NumActiveStreams(TheClient) = 0
    BY <1>1, <1>2, <2>1 DEF DrainPart, DrainFrame
  <2>3. NumActiveStreams(TheClient) = 0 => \A s \in Streams : on[s] # TheClient
    BY <1>3 DEF Counted
  <2> QED BY <2>2, <2>3
<1>9. /\ "reset" # "purge" /\ "reset" \notin {"lost", "release"}
      /\ "reset" \notin {"close", "lost", "release"}
      /\ "reset" \notin {"checkIdle", "closeIdle", "closeAll", "close", "lost"}
      /\ "reset" \notin {"checkIdle", "notifyIdle"} /\ "reset" \notin {"closed", "tryCreate"}
      /\ "reset" # "upstreamReady" /\ "reset" # "destroy"
      /\ "reset" \notin {"closeIdle", "closeAll", "close", "lost"}
  OBVIOUS
<1>10. IdleTended => IdleTended'
  <2>1. UNCHANGED <<state, on, listed>>
    BY DEF Steady, clientVars, streamVars
  <2> QED BY <1>6, <1>9, <2>1, TendedKept
<1>11. DrainPart'
  <2> HIDE DEF streams
  <2> QED BY <1>1, <1>4, <1>6, <1>8, <1>10, SteadyDrain
<1> QED BY <1>6, <1>7, <1>9, <1>11, SteadyKeeps DEF Duties, LostPart

(* drainConnectionsImpl has no client left to drain. *)
LEMMA DrainEndDuty ==
  ASSUME IInv, Duties, Running("drainRest"), Steady, stack' = Rest
  PROVE  Duties'
<1>1. stack \in Seq(Frames) /\ OrderPart /\ stack # <<>> /\ Head(stack).op = "drainRest"
  BY DEF IInv, StackPart, Duties, Running
<1>2. /\ KeepsBut("drainRest") /\ Sound(stack')
      /\ \A f \in Elements(stack') : f.op = "release" => f \in Elements(stack)
  BY <1>1, PopFacts
<1>3. Rest = <<>>
  BY <1>1, OrderlyRest DEF OrderPart, Above
<1>4. DrainPart'
  <2>1. Elements(stack') = {}
    BY <1>3, PushFirst
  <2> QED BY <2>1 DEF DrainPart, Doing
<1>5. /\ "drainRest" # "purge" /\ "drainRest" # "reset" /\ "drainRest" \notin {"lost", "release"}
      /\ "drainRest" \notin {"close", "lost", "release"}
      /\ "drainRest" \notin {"checkIdle", "closeIdle", "closeAll", "close", "lost"}
      /\ "drainRest" \notin {"checkIdle", "notifyIdle"} /\ "drainRest" \notin {"closed", "tryCreate"}
      /\ "drainRest" # "upstreamReady" /\ "drainRest" # "destroy"
  OBVIOUS
<1> QED BY <1>2, <1>4, <1>5, SteadyKeeps DEF Duties, LostPart

(* onUpstreamReady has served what it can. *)
LEMMA UpstreamReadyEndDuty ==
  ASSUME IInv, Duties, Running("upstreamReady"), Steady,
         ~(pending # <<>> /\ InState("Ready") # {}),
         stack' = (IF pending # <<>> THEN <<TryCreate(3, NoStream)>> ELSE <<>>) \o Rest
  PROVE  Duties'
<1> DEFINE f == TryCreate(3, NoStream)
<1>1. stack \in Seq(Frames) /\ OrderPart /\ DrainPart
  BY DEF IInv, StackPart, Duties
<1>2. Ordinary(f) /\ f \in Frames /\ f.op = "tryCreate"
  BY OrdinaryCallsOn DEF Ordinary
<1>3. stack' = (IF pending # <<>> THEN <<f>> ELSE <<>>) \o Rest
  OBVIOUS
<1> HIDE DEF f
<1>4. Rest \in Seq(Frames)
  BY <1>1, RestTypes
<1>5. stack' = Rest \/ stack' = Push(f, Rest)
  BY <1>2, <1>3, <1>4, PushForms
<1>6. f.op # "release" /\ f.op # "drainRest" /\ "upstreamReady" # "reset"
      /\ "upstreamReady" \notin DrainOps
  BY <1>2 DEF DrainOps
<1>7. /\ KeepsBut("upstreamReady") /\ Sound(stack')
      /\ \A g \in Elements(stack') : g = f \/ g \in Elements(stack)
      /\ \A g \in Elements(stack') : g.op = "release" => g \in Elements(stack)
  BY <1>1, <1>2, <1>5, <1>6, PopFacts, CallFacts
<1>8. DrainPart'
  BY <1>1, <1>6, <1>7, NotDraining
<1>9. ReadyPart'
  <2>1. UNCHANGED <<pending, listed, state>>
    BY DEF Steady, clientVars, streamVars
  <2> QED BY <2>1 DEF ReadyPart, InState
<1>10. /\ "upstreamReady" # "purge" /\ "upstreamReady" \notin {"lost", "release"}
       /\ "upstreamReady" \notin {"close", "lost", "release"}
       /\ "upstreamReady" \notin {"checkIdle", "closeIdle", "closeAll", "close", "lost"}
       /\ "upstreamReady" \notin {"checkIdle", "notifyIdle"}
       /\ "upstreamReady" \notin {"closed", "tryCreate"} /\ "upstreamReady" # "destroy"
  OBVIOUS
<1> QED BY <1>6, <1>7, <1>8, <1>9, <1>10, SteadyKeeps DEF Duties, LostPart

(* A call about a client names that client alone. *)
LEMMA TheOneClient ==
  ASSUME stack \in Seq(Frames), OrderPart, NEW op \in ClientOps, Running(op)
  PROVE  TheClient \in Clients /\ Head(stack).cs = {TheClient}
<1>1. Head(stack) \in Elements(stack) /\ Head(stack).op = op
  BY RestTypes
<1>2. PICK d \in Clients : Head(stack).cs = {d}
  BY <1>1 DEF OrderPart
<1> QED BY <1>2, TheClientType

(* CodecClient::close on a closed connection: what was to follow is in progress. *)
LEMMA CloseIgnoredDuty ==
  ASSUME IInv, Duties, Running("close"), Steady, TheClient \notin open, stack' = Rest
  PROVE  Duties'
<1>0. PICK c : c = TheClient
  OBVIOUS
<1>1. /\ stack \in Seq(Frames) /\ OrderPart /\ DrainPart /\ LostListed /\ LostDone
      /\ DrainedClosing /\ IdleClosing
  BY DEF IInv, StackPart, Duties, LostPart
<1>2. c \in Clients /\ Head(stack).cs = {c} /\ Head(stack).op = "close"
      /\ Elements(stack) = {Head(stack)} \cup Elements(Rest)
  <2>1. "close" \in ClientOps
    BY DEF ClientOps
  <2> QED BY <1>0, <1>1, <2>1, TheOneClient, StackFacts
<1>3. /\ KeepsBut("close") /\ Sound(stack') /\ Elements(stack') \subseteq Elements(stack)
      /\ \A f \in Elements(stack') : f.op = "release" => f \in Elements(stack)
  BY <1>1, PopFacts
<1>4. UNCHANGED <<state, on, listed, open>> /\ UNCHANGED <<draining, deleted>>
  BY DEF Steady, clientVars, streamVars, poolVars
<1>5. ASSUME NEW ops, NEW d, d # c, DoingTo(ops, d) PROVE DoingTo(ops, d)'
  <2>1. PICK f \in Elements(stack) : f.op \in ops /\ d \in f.cs
    BY <1>5 DEF DoingTo
  <2>2. f \in Elements(Rest)
    BY <1>2, <1>5, <2>1
  <2> QED BY <2>1, <2>2 DEF DoingTo
<1>6. c \in listed => \E f \in Elements(Rest) : f.op \in {"lost", "release"} /\ c \in f.cs
  <2>1. c \notin open /\ "close" \notin {"lost", "release"}
    BY <1>0
  <2>2. c \in listed => \E f \in Elements(stack) : f.op \in {"lost", "release"} /\ c \in f.cs
    BY <1>1, <2>1 DEF LostListed, DoingTo
  <2> QED BY <1>2, <2>1, <2>2
<1>7. \A x : x \in {"lost", "release"} => x \in {"close", "lost", "release"}
             /\ (x # "release" => x \in {"closeAll", "close", "lost"})
  OBVIOUS
<1>8. c \in InState("Draining") => DoingTo({"close", "lost", "release"}, c)'
  BY <1>6, <1>7 DEF InState, DoingTo
<1>9. c \in InState("Ready") => Tended(c)'
  <2>1. ASSUME NEW f \in Elements(Rest), f.op = "release", c \in f.cs PROVE state[c] # "Ready"
    BY <1>1, <1>2, <2>1 DEF LostDone
  <2> QED BY <1>6, <1>7, <2>1 DEF InState, DoingTo, Tended
<1>10. \A d : NumActiveStreams(d)' = NumActiveStreams(d)
  BY <1>4 DEF NumActiveStreams
<1>11. DrainedClosing'
  <2>1. ASSUME 0 \notin Settings, NEW d \in InState("Draining"), NumActiveStreams(d) = 0
        PROVE  DoingTo({"close", "lost", "release"}, d)'
    BY <1>1, <1>5, <1>8, <2>1 DEF DrainedClosing
  <2> QED BY <1>4, <1>10, <2>1 DEF DrainedClosing, InState
<1>12. "close" \notin {"closeIdle"} /\ "close" \notin {"checkIdle", "closeIdle"}
  OBVIOUS
<1>13. /\ Doing({"closeIdle"}) => Doing({"closeIdle"})'
       /\ Doing({"checkIdle", "closeIdle"}) => Doing({"checkIdle", "closeIdle"})'
  BY <1>3, <1>12, DoingKept
<1>14. \A d \in InState("Ready") : Tended(d) => Tended(d)'
  BY <1>5, <1>9 DEF Tended
<1>15. InState("Ready")' = InState("Ready")
  BY <1>4 DEF InState
<1>16. IdleClosing' /\ (IdleTended => IdleTended')
  BY <1>1, <1>4, <1>10, <1>13, <1>14, <1>15 DEF IdleClosing, IdleTended
<1>17. DrainPart'
  BY <1>1, <1>3, <1>16, SteadyDrain
<1>18. /\ "close" # "purge" /\ "close" # "reset" /\ "close" \notin {"lost", "release"}
       /\ "close" \notin {"checkIdle", "notifyIdle"} /\ "close" \notin {"closed", "tryCreate"}
       /\ "close" # "upstreamReady" /\ "close" # "destroy"
  OBVIOUS
<1> QED BY <1>3, <1>11, <1>16, <1>17, <1>18, SteadyKeeps DEF Duties, LostPart

=============================================================================
