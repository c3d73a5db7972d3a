----------------------------- MODULE QueueProofs -----------------------------
(***************************************************************************)
(* Two queue backends keep the contract of a queue, and the loop that      *)
(* serves a queue keeps its tenants in turn, for every number of messages, *)
(* processes, tenants, nacks and deaths.                                   *)
(*                                                                         *)
(* RedisQueue: OneHolder says where a message may be twice; to be          *)
(* inductive it needs that a message that may be enqueued is nowhere yet:  *)
(* SetIndex looks at the index and at the message, DeleteIndex takes the   *)
(* index away again.                                                       *)
(*                                                                         *)
(* InMemoryQueue: a message is once in the deque of its key or in flight;  *)
(* what was enqueued without a delay and never nacked is visible, so the   *)
(* scan never turns it to the end of its deque.                            *)
(*                                                                         *)
(* WorkerScheduler: what a key was passed by and what is still ahead of it *)
(* together stay below the bound.                                          *)
(***************************************************************************)
EXTENDS RedisQueue, InMemoryQueue, WorkerScheduler,
        FiniteSetTheorems, SequenceTheorems, WellFoundedInduction, TLAPS

Empty == {"idle", "track", "pop"}
Full == {"save", "push", "load", "rotate", "mark", "add", "deliver", "ack", "delete",
         "unindex", "nack", "drop", "remove", "pushback"}

ClientState == [pc : Empty \union Full, id : Msgs \union {None}, left : Nat, attempt : Nat]

Typed ==
    /\ pending \in Seq(Msgs)
    /\ msg \in [Msgs -> Message]
    /\ client \in [Clients -> ClientState]
    /\ held \in [Clients -> SUBSET Msgs]

\* A process has a message in hand exactly in the commands that are about one,
\* and it is none of those it still works on.
HandFits ==
    \A c \in Clients :
        /\ client[c].pc \in Empty => Id(c) = None
        /\ client[c].pc \in Full => Id(c) \in Msgs /\ Id(c) \notin held[c]

\* A message that may be enqueued is nowhere.
Fresh(m) == msg[m].status = "unused" /\ m \notin index
FreshIsNowhere ==
    \A m \in Msgs : Fresh(m) => ~InList(m) /\ \A c \in Clients : m \notin Hands(c)

\* What a process deletes the index of has been stored before.
UnindexIsUsed ==
    \A c \in Clients : At(c, "unindex") => msg[Id(c)].status # "unused"

HolderInv == Typed /\ HandFits /\ FreshIsNowhere /\ UnindexIsUsed /\ OneHolder

-----------------------------------------------------------------------------
(* The list                                                                 *)

In(s, m) == \E i \in DOMAIN s : s[i] = m
Once(s) == \A i, h \in DOMAIN s : s[i] = s[h] => i = h

LEMMA AppendOnce ==
  ASSUME NEW M, NEW s \in Seq(M), NEW m \in M, Once(s), ~In(s, m)
  PROVE  /\ Append(s, m) \in Seq(M) /\ Once(Append(s, m))
         /\ \A x : In(Append(s, m), x) <=> In(s, x) \/ x = m
<1> DEFINE r == Append(s, m)
<1>1. /\ r \in Seq(M) /\ Len(r) = Len(s) + 1 /\ r[Len(s) + 1] = m
      /\ \A i \in 1 .. Len(s) : r[i] = s[i]
  BY AppendProperties
<1> HIDE DEF r
<1>2. DOMAIN r = 1 .. Len(r) /\ DOMAIN s = 1 .. Len(s) /\ Len(s) \in Nat
  BY <1>1
<1>3. \A i \in DOMAIN r : i \in DOMAIN s \/ i = Len(s) + 1
  BY <1>1, <1>2
<1>4. Once(r)
  BY <1>1, <1>2, <1>3 DEF Once, In
<1>5. \A x : In(s, x) \/ x = m => In(r, x)
  BY <1>1, <1>2 DEF In
<1>6. \A x : In(r, x) => In(s, x) \/ x = m
  BY <1>1, <1>2, <1>3 DEF In
<1> QED
  BY <1>1, <1>4, <1>5, <1>6 DEF r

LEMMA PrependOnce ==
  ASSUME NEW M, NEW s \in Seq(M), NEW m \in M, Once(s), ~In(s, m)
  PROVE  /\ <<m>> \o s \in Seq(M) /\ Once(<<m>> \o s)
         /\ \A x : In(<<m>> \o s, x) <=> In(s, x) \/ x = m
<1> DEFINE r == <<m>> \o s
<1>0. <<m>> \in Seq(M) /\ Len(<<m>>) = 1 /\ <<m>>[1] = m /\ Len(s) \in Nat
  OBVIOUS
<1>1. /\ r \in Seq(M) /\ Len(r) = Len(s) + 1
      /\ \A i \in 1 .. Len(s) + 1 : r[i] = IF i <= 1 THEN m ELSE s[i - 1]
  BY <1>0, ConcatProperties
<1> HIDE DEF r
<1>2. r[1] = m /\ \A i \in 1 .. Len(s) : r[i + 1] = s[i]
  BY <1>0, <1>1
<1>3. \A i \in 2 .. Len(r) : i - 1 \in 1 .. Len(s) /\ r[i] = s[i - 1]
  BY <1>0, <1>1
<1>4. DOMAIN r = 1 .. Len(r) /\ DOMAIN s = 1 .. Len(s) /\ Len(s) \in Nat
  BY <1>0, <1>1
<1>5. Once(r)
  <2>1. SUFFICES ASSUME NEW i \in DOMAIN r, NEW h \in DOMAIN r, r[i] = r[h], i > h PROVE FALSE
    BY <1>4 DEF Once
  <2>2. i - 1 \in DOMAIN s /\ r[i] = s[i - 1]
    BY <2>1, <1>3, <1>4
  <2>3. CASE h = 1
    BY <2>1, <2>2, <2>3, <1>2 DEF In
  <2>4. CASE h # 1
    <3>1. h - 1 \in DOMAIN s /\ r[h] = s[h - 1]
      BY <2>4, <1>3, <1>4
    <3>2. s[i - 1] = s[h - 1]
      BY <3>1, <2>1, <2>2
    <3>3. i - 1 = h - 1
      BY <3>1, <3>2, <2>2 DEF Once
    <3>4. i \in Nat /\ h \in Nat
      BY <1>1, <1>4
    <3> QED
      BY <3>3, <3>4, <2>1
  <2> QED
    BY <2>3, <2>4
<1>6. \A x : In(r, x) <=> In(s, x) \/ x = m
  <2>1. ASSUME NEW x, In(s, x) PROVE In(r, x)
    BY <2>1, <1>1, <1>2, <1>4 DEF In
  <2>2. In(r, m)
    BY <1>1, <1>2, <1>4 DEF In
  <2>3. ASSUME NEW x, In(r, x), x # m PROVE In(s, x)
    <3>1. PICK i \in 2 .. Len(r) : r[i] = x
      BY <2>3, <1>1, <1>2, <1>4 DEF In
    <3> QED
      BY <3>1, <1>3, <1>4 DEF In
  <2> QED
    BY <2>1, <2>2, <2>3
<1> QED
  BY <1>1, <1>5, <1>6 DEF r

LEMMA TailOnce ==
  ASSUME NEW s \in Seq(Msgs), s # <<>>, Once(s)
  PROVE  /\ Head(s) \in Msgs /\ In(s, Head(s))
         /\ Tail(s) \in Seq(Msgs) /\ Once(Tail(s))
         /\ \A x : In(Tail(s), x) <=> In(s, x) /\ x # Head(s)
<1> DEFINE r == Tail(s)
<1>1. r \in Seq(Msgs) /\ Len(r) = Len(s) - 1 /\ \A i \in 1 .. Len(r) : r[i] = s[i + 1]
  OBVIOUS
<1>2. Head(s) = s[1] /\ Len(s) \in Nat \ {0} /\ DOMAIN s = 1 .. Len(s) /\ Head(s) \in Msgs
  OBVIOUS
<1> HIDE DEF r
<1>3. DOMAIN r = 1 .. Len(r)
  BY <1>1
<1>4. Once(r)
  BY <1>1, <1>2, <1>3 DEF Once
<1>5. ASSUME NEW x, In(r, x) PROVE In(s, x) /\ x # Head(s)
  BY <1>5, <1>1, <1>2, <1>3 DEF In, Once
<1>6. ASSUME NEW x, In(s, x), x # Head(s) PROVE In(r, x)
  <2>1. PICK i \in 2 .. Len(s) : s[i] = x
    BY <1>6, <1>2 DEF In
  <2>2. i - 1 \in DOMAIN r /\ r[i - 1] = x
    BY <2>1, <1>1, <1>2, <1>3
  <2> QED
    BY <2>2 DEF In
<1>7. In(s, Head(s))
  BY <1>2 DEF In
<1>8. \A x : In(r, x) <=> In(s, x) /\ x # Head(s)
  BY <1>5, <1>6
<1> QED
  BY <1>1, <1>2, <1>4, <1>7, <1>8 DEF r

-----------------------------------------------------------------------------
(* What the steps do with messages: keep them, put one from a hand into the  *)
(* list, take the head of the list, begin with a new one                     *)

\* Nothing becomes fresh, and only c's hands gain what they did not hold.
Keeps(c) ==
    /\ \A m \in Msgs : Fresh(m)' => Fresh(m)
    /\ \A d \in Clients : d # c => Hands(d)' \subseteq Hands(d)

LEMMA KeepHands ==
  ASSUME HolderInv, NEW c \in Clients, Keeps(c), Hands(c)' \subseteq Hands(c),
         pending' = pending
  PROVE  FreshIsNowhere' /\ OneHolder'
<1>1. \A d \in Clients : Hands(d)' \subseteq Hands(d)
  BY DEF Keeps
<1>2. \A m : InList(m)' <=> InList(m)
  BY DEF InList
<1>3. FreshIsNowhere'
  BY <1>1, <1>2 DEF FreshIsNowhere, HolderInv, Keeps
<1>4. OneHolder'
  <2>1. \A d, e \in Clients : d # e => Hands(d)' \intersect Hands(e)' = {}
    BY <1>1 DEF HolderInv, OneHolder
  <2>2. \A d \in Clients : \A m \in Hands(d)' : ~InList(m)'
    BY <1>1, <1>2 DEF HolderInv, OneHolder
  <2>3. \A i, h \in DOMAIN pending' : pending'[i] = pending'[h] => i = h
    BY DEF HolderInv, OneHolder
  <2> QED
    BY <2>1, <2>2, <2>3 DEF OneHolder
<1> QED
  BY <1>3, <1>4

LEMMA PutInList ==
  ASSUME HolderInv, NEW c \in Clients, NEW m \in Msgs, Keeps(c), m \in Hands(c),
         Hands(c)' \subseteq Hands(c) \ {m},
         pending' = Append(pending, m) \/ pending' = <<m>> \o pending
  PROVE  pending' \in Seq(Msgs) /\ FreshIsNowhere' /\ OneHolder'
<1>1. pending \in Seq(Msgs) /\ Once(pending) /\ ~In(pending, m)
  BY DEF HolderInv, Typed, OneHolder, Once, In, InList
<1>2. /\ pending' \in Seq(Msgs) /\ Once(pending')
      /\ \A x : In(pending', x) <=> In(pending, x) \/ x = m
  <2>1. CASE pending' = Append(pending, m)
    <3>1. /\ Append(pending, m) \in Seq(Msgs) /\ Once(Append(pending, m))
          /\ \A x : In(Append(pending, m), x) <=> In(pending, x) \/ x = m
      BY <1>1, AppendOnce
    <3> QED
      BY <3>1, <2>1
  <2>2. CASE pending' = <<m>> \o pending
    <3>1. /\ <<m>> \o pending \in Seq(Msgs) /\ Once(<<m>> \o pending)
          /\ \A x : In(<<m>> \o pending, x) <=> In(pending, x) \/ x = m
      BY <1>1, PrependOnce
    <3> QED
      BY <3>1, <2>2
  <2> QED
    BY <2>1, <2>2
<1>3. \A x : InList(x)' <=> InList(x) \/ x = m
  BY <1>2 DEF In, InList
<1>4. \A d \in Clients : Hands(d)' \subseteq Hands(d) \ {m}
  BY DEF Keeps, HolderInv, OneHolder
<1>5. FreshIsNowhere'
  BY <1>3, <1>4 DEF FreshIsNowhere, HolderInv, Keeps
<1>6. \A d, e \in Clients : d # e => Hands(d)' \intersect Hands(e)' = {}
  BY <1>4 DEF HolderInv, OneHolder
<1>7. \A d \in Clients : \A x \in Hands(d)' : ~InList(x)'
  BY <1>3, <1>4 DEF HolderInv, OneHolder
<1>8. \A i, h \in DOMAIN pending' : pending'[i] = pending'[h] => i = h
  BY <1>2 DEF Once
<1> QED
  BY <1>2, <1>5, <1>6, <1>7, <1>8 DEF OneHolder

LEMMA TakeHead ==
  ASSUME HolderInv, NEW c \in Clients, Keeps(c), pending # <<>>,
         pending' = Tail(pending), Hands(c)' = Hands(c) \union {Head(pending)}
  PROVE  pending' \in Seq(Msgs) /\ FreshIsNowhere' /\ OneHolder'
<1>1. pending \in Seq(Msgs) /\ Once(pending)
  BY DEF HolderInv, Typed, OneHolder, Once
<1>2. /\ Head(pending) \in Msgs /\ In(pending, Head(pending))
      /\ pending' \in Seq(Msgs) /\ Once(pending')
      /\ \A x : In(pending', x) <=> In(pending, x) /\ x # Head(pending)
  BY <1>1, TailOnce
<1> DEFINE m == Head(pending)
<1> HIDE DEF m
<1>3. m \in Msgs /\ InList(m) /\ \A x : InList(x)' <=> InList(x) /\ x # m
  BY <1>2 DEF In, InList, m
<1>4. Hands(c)' = Hands(c) \union {m}
  BY DEF m
<1>5. ~Fresh(m) /\ \A d \in Clients : m \notin Hands(d)
  BY <1>3 DEF HolderInv, OneHolder, FreshIsNowhere
<1>6. FreshIsNowhere'
  BY <1>3, <1>4, <1>5 DEF FreshIsNowhere, HolderInv, Keeps
<1>7. \A d, e \in Clients : d # e => Hands(d)' \intersect Hands(e)' = {}
  BY <1>4, <1>5 DEF HolderInv, OneHolder, Keeps
<1>8. \A d \in Clients : \A x \in Hands(d)' : ~InList(x)'
  BY <1>3, <1>4, <1>5 DEF HolderInv, OneHolder, Keeps
<1>9. \A i, h \in DOMAIN pending' : pending'[i] = pending'[h] => i = h
  BY <1>2 DEF Once
<1> QED
  BY <1>2, <1>6, <1>7, <1>8, <1>9 DEF OneHolder

LEMMA BeginNew ==
  ASSUME HolderInv, NEW c \in Clients, NEW m \in Msgs, Keeps(c), Fresh(m), ~Fresh(m)',
         pending' = pending, Hands(c)' = Hands(c) \union {m}
  PROVE  FreshIsNowhere' /\ OneHolder'
<1>1. \A x : InList(x)' <=> InList(x)
  BY DEF InList
<1>2. ~InList(m) /\ \A d \in Clients : m \notin Hands(d)
  BY DEF HolderInv, FreshIsNowhere
<1>3. FreshIsNowhere'
  BY <1>1 DEF FreshIsNowhere, HolderInv, Keeps
<1>4. \A d, e \in Clients : d # e => Hands(d)' \intersect Hands(e)' = {}
  BY <1>2 DEF HolderInv, OneHolder, Keeps
<1>5. \A d \in Clients : \A x \in Hands(d)' : ~InList(x)'
  BY <1>1, <1>2 DEF HolderInv, OneHolder, Keeps
<1>6. \A i, h \in DOMAIN pending' : pending'[i] = pending'[h] => i = h
  BY DEF HolderInv, OneHolder
<1> QED
  BY <1>3, <1>4, <1>5, <1>6 DEF OneHolder

-----------------------------------------------------------------------------
(* The steps                                                                 *)

LEMMA HolderInit == Init => HolderInv
<1> SUFFICES ASSUME Init PROVE HolderInv
  OBVIOUS
<1>1. Typed
  BY DEF Init, Typed, Message, ClientState, Idle, Empty
<1>2. HandFits /\ UnindexIsUsed
  BY DEF Init, HandFits, UnindexIsUsed, At, Id, Idle, Empty, Full
<1>3. (\A m : ~InList(m)) /\ \A c \in Clients : Hands(c) = {}
  BY DEF Init, InList, Hands, Id, Idle
<1>4. FreshIsNowhere /\ OneHolder
  BY <1>3 DEF Init, FreshIsNowhere, OneHolder
<1> QED
  BY <1>1, <1>2, <1>4 DEF HolderInv

\* A command that leaves c in n: it stores messages or indexes, but no message
\* becomes one that may be enqueued, and the list stays as it is.
LEMMA MoveStores ==
  ASSUME HolderInv, NEW c \in Clients, NEW n \in ClientState,
         client' = [client EXCEPT ![c] = n], pending' = pending,
         msg' \in [Msgs -> Message],
         \A m \in Msgs : msg'[m].status = "unused" => msg[m].status = "unused",
         \A m \in Msgs : Fresh(m)' => Fresh(m),
         held' \in [Clients -> SUBSET Msgs],
         \A d \in Clients : d # c => held'[d] = held[d],
         n.pc = "unindex" => msg'[n.id].status # "unused",
         n.pc \in Empty => n.id = None,
         n.pc \in Full => n.id \in Msgs /\ n.id \notin held'[c],
         held'[c] \union ({n.id} \ {None}) \subseteq Hands(c)
  PROVE  HolderInv'
<1>1. client'[c] = n /\ client' \in [Clients -> ClientState]
      /\ \A d \in Clients : d # c => client'[d] = client[d]
  BY DEF HolderInv, Typed
<1>2. Typed'
  BY <1>1 DEF HolderInv, Typed
<1>3. HandFits'
  BY <1>1 DEF HolderInv, HandFits, Id
<1>4. UnindexIsUsed'
  <2>1. ASSUME NEW d \in Clients, d # c, client[d].pc = "unindex"
        PROVE  msg'[client[d].id].status # "unused"
    <3>1. client[d].id \in Msgs /\ msg[client[d].id].status # "unused"
      BY <2>1 DEF HolderInv, HandFits, UnindexIsUsed, At, Id, Full
    <3> QED
      BY <3>1
  <2> QED
    BY <1>1, <2>1 DEF UnindexIsUsed, At, Id
<1>5. Keeps(c) /\ Hands(c)' \subseteq Hands(c)
  BY <1>1 DEF Keeps, Hands, Id
<1> QED
  BY <1>2, <1>3, <1>4, <1>5, KeepHands DEF HolderInv

\* A client that goes on to n without touching the list, the index or a message.
LEMMA MoveKeeps ==
  ASSUME HolderInv, NEW c \in Clients, NEW n \in ClientState,
         client' = [client EXCEPT ![c] = n], n.pc # "unindex",
         UNCHANGED <<pending, index, msg>>,
         held' \in [Clients -> SUBSET Msgs],
         \A d \in Clients : d # c => held'[d] = held[d],
         n.pc \in Empty => n.id = None,
         n.pc \in Full => n.id \in Msgs /\ n.id \notin held'[c],
         held'[c] \union ({n.id} \ {None}) \subseteq Hands(c)
  PROVE  HolderInv'
<1>1. msg' \in [Msgs -> Message]
  BY DEF HolderInv, Typed
<1>2. \A m \in Msgs : Fresh(m)' => Fresh(m)
  BY DEF Fresh
<1> QED
  BY <1>1, <1>2, MoveStores

LEMMA InHand ==
  ASSUME HolderInv, NEW c \in Clients, client[c].pc \in Full
  PROVE  Id(c) \in Msgs /\ Id(c) \in Hands(c) /\ Id(c) \notin held[c] /\ held[c] \subseteq Msgs
BY RedisQueueAssumption DEF HolderInv, Typed, HandFits, Hands

LEMMA IdleState == Idle \in ClientState /\ Idle.pc = "idle" /\ Idle.pc \in Empty /\ Idle.id = None
BY DEF Idle, ClientState, Empty

\* A command that goes on to another about the same message.
LEMMA GoesOn ==
  ASSUME HolderInv, NEW c \in Clients, client[c].pc \in Full, NEW p \in Full, GoTo(c, p),
         UNCHANGED <<pending, held>>, msg' \in [Msgs -> Message],
         \A m \in Msgs : msg'[m].status = "unused" => msg[m].status = "unused",
         \A m \in Msgs : Fresh(m)' => Fresh(m),
         p = "unindex" => msg'[Id(c)].status # "unused"
  PROVE  HolderInv'
<1> DEFINE n == [client[c] EXCEPT !.pc = p]
<1>1. client[c] \in ClientState /\ client' = [client EXCEPT ![c] = n]
  BY DEF HolderInv, Typed, GoTo
<1>2. n \in ClientState /\ n.pc = p /\ n.id = Id(c)
  BY <1>1 DEF ClientState, Id
<1> HIDE DEF n
<1>3. p \notin Empty
  BY DEF Full, Empty
<1>4. held' \in [Clients -> SUBSET Msgs] /\ held'[c] = held[c] /\ \A d \in Clients : held'[d] = held[d]
  BY DEF HolderInv, Typed
<1>5. held'[c] \union ({n.id} \ {None}) \subseteq Hands(c)
  BY <1>2, <1>4 DEF Hands
<1>6. n.id \in Msgs /\ n.id \notin held'[c]
  BY <1>2, <1>4, InHand
<1> QED
  BY <1>1, <1>2, <1>3, <1>4, <1>5, <1>6, MoveStores

\* A method that ends.
LEMMA Ends ==
  ASSUME HolderInv, NEW c \in Clients, Finish(c), UNCHANGED <<pending, msg>>,
         \A m \in Msgs : Fresh(m)' => Fresh(m),
         held' \in [Clients -> SUBSET Msgs],
         \A d \in Clients : d # c => held'[d] = held[d],
         held'[c] \subseteq Hands(c)
  PROVE  HolderInv'
<1>1. client' = [client EXCEPT ![c] = Idle]
  BY DEF Finish
<1>2. msg' \in [Msgs -> Message]
  BY DEF HolderInv, Typed
<1>3. Idle.pc \notin Full /\ Idle.pc # "unindex"
  BY IdleState DEF Full
<1> QED
  BY <1>1, <1>2, <1>3, IdleState, MoveStores

\* A command that puts the message in hand into the list and has none then.
LEMMA Puts ==
  ASSUME HolderInv, NEW c \in Clients, NEW n \in ClientState,
         client' = [client EXCEPT ![c] = n], n.pc \in Empty, n.id = None,
         client[c].pc \in Full, UNCHANGED <<index, msg, held>>,
         pending' = Append(pending, Id(c)) \/ pending' = <<Id(c)>> \o pending
  PROVE  HolderInv'
<1>1. client'[c] = n /\ client' \in [Clients -> ClientState]
      /\ \A d \in Clients : d # c => client'[d] = client[d]
  BY DEF HolderInv, Typed
<1>2. n.pc \notin Full /\ n.pc # "unindex"
  BY DEF Full, Empty
<1>3. HandFits'
  BY <1>1, <1>2 DEF HolderInv, HandFits, Id
<1>4. UnindexIsUsed'
  BY <1>1, <1>2 DEF HolderInv, UnindexIsUsed, At, Id
<1>5. Keeps(c)
  BY <1>1 DEF Keeps, Fresh, Hands, Id
<1>6. Id(c) \in Msgs /\ Id(c) \in Hands(c) /\ Id(c) \notin held[c]
  BY InHand
<1>7. Hands(c)' \subseteq Hands(c) \ {Id(c)}
  BY <1>1, <1>6 DEF Hands, Id
<1>8. pending' \in Seq(Msgs) /\ FreshIsNowhere' /\ OneHolder'
  BY <1>5, <1>6, <1>7, PutInList
<1>9. Typed'
  BY <1>1, <1>8 DEF HolderInv, Typed
<1> QED
  BY <1>3, <1>4, <1>8, <1>9 DEF HolderInv

\* A command that stores a status other than unused at m.
LEMMA StoresUsed ==
  ASSUME HolderInv, NEW m \in Msgs, NEW x \in Message, x.status # "unused",
         msg' = [msg EXCEPT ![m] = x], index' = index
  PROVE  /\ msg' \in [Msgs -> Message] /\ msg'[m].status # "unused"
         /\ \A y \in Msgs : msg'[y].status = "unused" => msg[y].status = "unused"
         /\ \A y \in Msgs : Fresh(y)' => Fresh(y)
<1>1. msg' \in [Msgs -> Message] /\ msg'[m] = x /\ \A y \in Msgs : y # m => msg'[y] = msg[y]
  BY DEF HolderInv, Typed
<1>2. \A y \in Msgs : msg'[y].status = "unused" => msg[y].status = "unused"
  BY <1>1
<1> QED
  BY <1>1, <1>2 DEF Fresh

LEMMA ScanOnGoes ==
  ASSUME HolderInv, NEW c \in Clients, ScanOn(c)
  PROVE  \E n \in ClientState : /\ client' = [client EXCEPT ![c] = n]
                                /\ n.pc \in {"idle", "pop"} /\ n.id = None
<1>1. client[c].left \in Nat
  BY DEF HolderInv, Typed, ClientState
<1>2. Idle \in ClientState /\ Idle.pc = "idle" /\ Idle.id = None
  BY DEF Idle, ClientState, Empty
<1>3. CASE client[c].left > 1
  <2> DEFINE n == [Idle EXCEPT !.pc = "pop", !.left = client[c].left - 1]
  <2>0. client[c].left - 1 \in Nat
    BY <1>1, <1>3
  <2>1. n \in ClientState /\ n.pc = "pop" /\ n.id = None
    BY <2>0 DEF Idle, ClientState, Empty
  <2>2. client' = [client EXCEPT ![c] = n]
    BY <1>3 DEF ScanOn
  <2> QED
    BY <2>1, <2>2
<1>4. CASE ~(client[c].left > 1)
  <2>1. client' = [client EXCEPT ![c] = Idle]
    BY <1>4 DEF ScanOn
  <2> QED
    BY <1>2, <2>1
<1> QED
  BY <1>3, <1>4

LEMMA SaveNewKeeps ==
  ASSUME HolderInv, NEW c \in Clients, SaveNew(c) PROVE HolderInv'
<1>1. client[c].pc = "save" /\ "save" \in Full /\ "push" \in Full /\ GoTo(c, "push")
      /\ UNCHANGED <<pending, index, held>>
  BY DEF SaveNew, At, Full
<1>2. Id(c) \in Msgs /\ msg[Id(c)] \in Message
  BY <1>1, InHand DEF HolderInv, Typed
<1> DEFINE x == [msg[Id(c)] EXCEPT !.status = "pending"]
<1>3. x \in Message /\ x.status = "pending"
  BY <1>2 DEF Message
<1>4. msg' = [msg EXCEPT ![Id(c)] = x]
  BY DEF SaveNew
<1> HIDE DEF x
<1> QED
  BY <1>1, <1>2, <1>3, <1>4, StoresUsed, GoesOn

LEMMA DeleteMsgKeeps ==
  ASSUME HolderInv, NEW c \in Clients, DeleteMsg(c) PROVE HolderInv'
<1>1. client[c].pc = "delete" /\ "delete" \in Full /\ "unindex" \in Full /\ GoTo(c, "unindex")
      /\ UNCHANGED <<pending, index, held>>
  BY DEF DeleteMsg, At, Full
<1>2. Id(c) \in Msgs /\ msg[Id(c)] \in Message
  BY <1>1, InHand DEF HolderInv, Typed
<1> DEFINE x == [msg[Id(c)] EXCEPT !.status = "deleted"]
<1>3. x \in Message /\ x.status = "deleted"
  BY <1>2 DEF Message
<1>4. msg' = [msg EXCEPT ![Id(c)] = x]
  BY DEF DeleteMsg
<1> HIDE DEF x
<1> QED
  BY <1>1, <1>2, <1>3, <1>4, StoresUsed, GoesOn

\* The commands that store a status with the attempt the client has read.
LEMMA StoresAttemptKeeps ==
  ASSUME HolderInv, NEW c \in Clients,
         MarkInflight(c) \/ SaveNacked(c) \/ SaveDiscarded(c)
  PROVE  HolderInv'
<1>1. client[c].pc \in Full /\ UNCHANGED <<pending, index, held>>
  BY DEF MarkInflight, SaveNacked, SaveDiscarded, At, Full
<1>2. PICK p \in Full : GoTo(c, p) /\ p # "unindex"
  BY DEF MarkInflight, SaveNacked, SaveDiscarded, Full
<1>3. PICK s \in {"pending", "inflight", "discarded"} :
        msg' = [msg EXCEPT ![Id(c)] = [status |-> s, attempt |-> client[c].attempt]]
  BY DEF MarkInflight, SaveNacked, SaveDiscarded
<1> DEFINE x == [status |-> s, attempt |-> client[c].attempt]
<1>4. client[c].attempt \in Nat
  BY DEF HolderInv, Typed, ClientState
<1>5. x \in Message /\ x.status # "unused" /\ msg' = [msg EXCEPT ![Id(c)] = x]
  BY <1>3, <1>4 DEF Message
<1> HIDE DEF x
<1>6. Id(c) \in Msgs
  BY <1>1, InHand
<1> QED
  BY <1>1, <1>2, <1>5, <1>6, StoresUsed, GoesOn

\* The commands about the in-flight set alone.
LEMMA InflightSetKeeps ==
  ASSUME HolderInv, NEW c \in Clients, AddInflight(c) \/ AckRemove(c) PROVE HolderInv'
<1>1. client[c].pc \in Full /\ UNCHANGED <<pending, index, msg, held>>
  BY DEF AddInflight, AckRemove, At, Full
<1>2. PICK p \in Full : GoTo(c, p) /\ p # "unindex"
  BY DEF AddInflight, AckRemove, Full
<1>3. msg' \in [Msgs -> Message] /\ \A m \in Msgs : Fresh(m)' => Fresh(m)
  BY <1>1 DEF HolderInv, Typed, Fresh
<1> QED
  BY <1>1, <1>2, <1>3, GoesOn

LEMMA TrackKeysKeeps ==
  ASSUME HolderInv, NEW c \in Clients, TrackKeys(c) PROVE HolderInv'
<1>1. Finish(c) /\ UNCHANGED <<pending, index, msg, held>>
  BY DEF TrackKeys
<1>2. held' \in [Clients -> SUBSET Msgs] /\ held'[c] \subseteq Hands(c)
  BY <1>1 DEF HolderInv, Typed, Hands
<1>3. \A m \in Msgs : Fresh(m)' => Fresh(m)
  BY <1>1 DEF Fresh
<1> QED
  BY <1>1, <1>2, <1>3, Ends

\* The index goes once the message has been stored, so it is not fresh again.
LEMMA DeleteIndexKeeps ==
  ASSUME HolderInv, NEW c \in Clients, DeleteIndex(c) PROVE HolderInv'
<1>1. /\ At(c, "unindex") /\ index' = index \ {Id(c)}
      /\ Finish(c) /\ UNCHANGED <<pending, msg, held>>
  BY DEF DeleteIndex
<1>2. held' \in [Clients -> SUBSET Msgs] /\ held'[c] \subseteq Hands(c)
  BY <1>1 DEF HolderInv, Typed, Hands
<1>3. msg[Id(c)].status # "unused"
  BY <1>1 DEF HolderInv, UnindexIsUsed
<1>4. \A m \in Msgs : Fresh(m)' => Fresh(m)
  BY <1>1, <1>3 DEF Fresh
<1> QED
  BY <1>1, <1>2, <1>4, Ends

LEMMA PushNewKeeps ==
  ASSUME HolderInv, NEW c \in Clients, PushNew(c) PROVE HolderInv'
<1>1. client[c] \in ClientState /\ client[c].pc \in Full
  BY DEF HolderInv, Typed, PushNew, At, Full
<1> DEFINE n == [client[c] EXCEPT !.pc = "track", !.id = None]
<1>2. n \in ClientState /\ n.pc \in Empty /\ n.id = None
  BY <1>1 DEF ClientState, Empty
<1>3. client' = [client EXCEPT ![c] = n] /\ UNCHANGED <<index, msg, held>>
      /\ pending' = Append(pending, Id(c))
  BY DEF PushNew, HolderInv, Typed
<1> HIDE DEF n
<1> QED
  BY <1>1, <1>2, <1>3, Puts

LEMMA RotateKeeps ==
  ASSUME HolderInv, NEW c \in Clients, Rotate(c) PROVE HolderInv'
<1>1. client[c].pc \in Full /\ UNCHANGED <<index, msg, held>> /\ ScanOn(c)
      /\ pending' = Append(pending, Id(c))
  BY DEF Rotate, At, Full
<1>2. PICK n \in ClientState : /\ client' = [client EXCEPT ![c] = n]
                               /\ n.pc \in {"idle", "pop"} /\ n.id = None
  BY <1>1, ScanOnGoes
<1> QED
  BY <1>1, <1>2, Puts DEF Empty

LEMMA PushBackKeeps ==
  ASSUME HolderInv, NEW c \in Clients, PushBack(c) PROVE HolderInv'
<1>1. client[c].pc \in Full /\ UNCHANGED <<index, msg, held>>
      /\ client' = [client EXCEPT ![c] = Idle] /\ pending' = <<Id(c)>> \o pending
  BY DEF PushBack, Finish, At, Full
<1> QED
  BY <1>1, IdleState, Puts

LEMMA LoadHeadKeeps ==
  ASSUME HolderInv, NEW c \in Clients, LoadHead(c) PROVE HolderInv'
<1>1. client[c] \in ClientState /\ held[c] \subseteq Msgs /\ client[c].pc = "load"
      /\ Id(c) \in Msgs /\ Id(c) \notin held[c] /\ msg[Id(c)].attempt \in Nat
  BY DEF HolderInv, Typed, HandFits, LoadHead, At, Id, Full, Message
<1> DEFINE a == [client[c] EXCEPT !.pc = "rotate"]
           b == [client[c] EXCEPT !.pc = "mark", !.attempt = msg[Id(c)].attempt]
<1>2. /\ a \in ClientState /\ a.pc = "rotate" /\ a.id = Id(c)
      /\ b \in ClientState /\ b.pc = "mark" /\ b.id = Id(c)
  BY <1>1 DEF ClientState, Full, Id
<1>3. UNCHANGED <<pending, index, msg, held>>
      /\ \/ ScanOn(c)
         \/ client' = [client EXCEPT ![c] = a]
         \/ client' = [client EXCEPT ![c] = b]
  BY <1>1 DEF LoadHead, GoTo, stored, Id, HolderInv, Typed
<1> HIDE DEF a, b
<1>4. CASE ScanOn(c)
  <2>1. PICK n \in ClientState : /\ client' = [client EXCEPT ![c] = n]
                                 /\ n.pc \in {"idle", "pop"} /\ n.id = None
    BY <1>4, ScanOnGoes
  <2> QED
    BY <2>1, <1>3, MoveKeeps DEF HolderInv, Typed, Hands, Empty, Full
<1>5. CASE client' = [client EXCEPT ![c] = a]
  BY <1>1, <1>2, <1>3, <1>5, MoveKeeps DEF HolderInv, Typed, Hands, Empty, Full
<1>6. CASE client' = [client EXCEPT ![c] = b]
  BY <1>1, <1>2, <1>3, <1>6, MoveKeeps DEF HolderInv, Typed, Hands, Empty, Full
<1> QED
  BY <1>3, <1>4, <1>5, <1>6

LEMMA NackRemoveKeeps ==
  ASSUME HolderInv, NEW c \in Clients, NackRemove(c) PROVE HolderInv'
<1>1. client[c] \in ClientState /\ held[c] \subseteq Msgs
      /\ Id(c) \in Msgs /\ Id(c) \notin held[c]
  BY DEF HolderInv, Typed, HandFits, NackRemove, At, Id, Full
<1> DEFINE a == [client[c] EXCEPT !.pc = "pushback"]
<1>2. /\ a \in ClientState /\ a.pc = "pushback" /\ a.id = Id(c)
      /\ Idle \in ClientState /\ Idle.pc = "idle" /\ Idle.id = None
  BY <1>1 DEF ClientState, Full, Empty, Id, Idle
<1>3. UNCHANGED <<pending, index, msg, held>>
      /\ (client' = [client EXCEPT ![c] = Idle] \/ client' = [client EXCEPT ![c] = a])
  BY <1>1 DEF NackRemove, GoTo, Finish, HolderInv, Typed
<1> HIDE DEF a
<1>4. CASE client' = [client EXCEPT ![c] = Idle]
  BY <1>2, <1>3, <1>4, MoveKeeps DEF HolderInv, Typed, Hands, Empty, Full
<1>5. CASE client' = [client EXCEPT ![c] = a]
  BY <1>1, <1>2, <1>3, <1>5, MoveKeeps DEF HolderInv, Typed, Hands, Empty, Full
<1> QED
  BY <1>3, <1>4, <1>5

LEMMA DeliverKeeps ==
  ASSUME HolderInv, NEW c \in Clients, Deliver(c) PROVE HolderInv'
<1>1. held[c] \subseteq Msgs /\ Id(c) \in Msgs /\ Id(c) \in Hands(c)
  BY InHand DEF Deliver, At, Full
<1> DEFINE h == held[c] \union {Id(c)}
<1>2. h \subseteq Msgs /\ h \subseteq Hands(c)
  BY <1>1 DEF Hands
<1>3. held' = [held EXCEPT ![c] = h] /\ Finish(c) /\ UNCHANGED <<pending, index, msg>>
  BY DEF Deliver
<1> HIDE DEF h
<1>4. /\ held' \in [Clients -> SUBSET Msgs] /\ held'[c] = h
      /\ \A d \in Clients : d # c => held'[d] = held[d]
  BY <1>2, <1>3 DEF HolderInv, Typed
<1>5. \A m \in Msgs : Fresh(m)' => Fresh(m)
  BY <1>3 DEF Fresh
<1> QED
  BY <1>2, <1>3, <1>4, <1>5, Ends

LEMMA PopHeadKeeps ==
  ASSUME HolderInv, NEW c \in Clients, PopHead(c) PROVE HolderInv'
<1>0. UNCHANGED <<index, msg, held>> /\ client[c].pc = "pop" /\ client[c] \in ClientState
  BY DEF PopHead, At, HolderInv, Typed
<1>1. CASE pending = <<>>
  <2>1. Finish(c) /\ pending' = pending
    BY <1>1 DEF PopHead
  <2>2. held' \in [Clients -> SUBSET Msgs] /\ held'[c] \subseteq Hands(c)
    BY <1>0 DEF HolderInv, Typed, Hands
  <2>3. \A m \in Msgs : Fresh(m)' => Fresh(m)
    BY <1>0 DEF Fresh
  <2> QED
    BY <1>0, <2>1, <2>2, <2>3, Ends
<1>2. CASE pending # <<>>
  <2>0. client' = [client EXCEPT ![c].pc = "load", ![c].id = Head(pending)] /\ pending' = Tail(pending)
    BY <1>2 DEF PopHead
  <2>1. Head(pending) \in Msgs /\ InList(Head(pending))
    BY <1>2 DEF HolderInv, Typed, InList
  <2>2. \A d \in Clients : Head(pending) \notin Hands(d)
    BY <2>1 DEF HolderInv, OneHolder
  <2> PICK m : m = Head(pending)
    OBVIOUS
  <2> DEFINE n == [client[c] EXCEPT !.pc = "load", !.id = m]
  <2>3. n \in ClientState /\ n.pc = "load" /\ n.id = m
    BY <1>0, <2>1 DEF ClientState, Full
  <2>4. client' = [client EXCEPT ![c] = n]
    BY <2>0 DEF HolderInv, Typed
  <2> HIDE DEF n
  <2>5. client'[c] = n /\ client' \in [Clients -> ClientState]
        /\ \A d \in Clients : d # c => client'[d] = client[d]
    BY <2>3, <2>4 DEF HolderInv, Typed
  <2>6. Id(c) = None
    BY <1>0 DEF HolderInv, HandFits, Empty
  <2>7. HandFits'
    <3>1. m \in Msgs /\ m \notin held[c] /\ "load" \notin Empty
      BY <2>1, <2>2 DEF Hands, Empty
    <3> QED
      BY <1>0, <2>3, <2>5, <3>1 DEF HolderInv, HandFits, Id
  <2>8. UnindexIsUsed'
    BY <1>0, <2>3, <2>5 DEF HolderInv, UnindexIsUsed, At, Id
  <2>9. Keeps(c)
    BY <1>0, <2>5 DEF Keeps, Fresh, Hands, Id
  <2>10. Hands(c)' = Hands(c) \union {Head(pending)}
    BY <1>0, <2>1, <2>3, <2>5, <2>6, RedisQueueAssumption DEF Hands, Id
  <2>11. pending' \in Seq(Msgs) /\ FreshIsNowhere' /\ OneHolder'
    BY <1>2, <2>0, <2>9, <2>10, TakeHead
  <2>12. Typed'
    BY <1>0, <2>5, <2>11 DEF HolderInv, Typed
  <2> QED
    BY <2>7, <2>8, <2>11, <2>12 DEF HolderInv
<1> QED
  BY <1>1, <1>2

LEMMA SetIndexKeeps ==
  ASSUME HolderInv, NEW c \in Clients, NEW m \in Msgs, SetIndex(c, m) PROVE HolderInv'
<1>0. /\ index' = index \union {m} /\ UNCHANGED <<pending, msg, held>>
      /\ client[c].pc = "idle" /\ client[c] \in ClientState
  BY DEF SetIndex, At, HolderInv, Typed
<1>1. Fresh(m) /\ ~Fresh(m)' /\ m \notin held[c]
  BY <1>0 DEF SetIndex, Fresh, HolderInv, FreshIsNowhere, Hands
<1> DEFINE n == [client[c] EXCEPT !.pc = "save", !.id = m]
<1>2. n \in ClientState /\ n.pc = "save" /\ n.id = m
  BY <1>0 DEF ClientState, Full
<1>3. client' = [client EXCEPT ![c] = n]
  BY DEF SetIndex, HolderInv, Typed
<1> HIDE DEF n
<1>4. client'[c] = n /\ client' \in [Clients -> ClientState]
      /\ \A d \in Clients : d # c => client'[d] = client[d]
  BY <1>2, <1>3 DEF HolderInv, Typed
<1>5. Typed'
  BY <1>0, <1>4 DEF HolderInv, Typed
<1>6. HandFits' /\ UnindexIsUsed'
  <2>1. "save" \notin Empty
    BY DEF Empty
  <2> QED
    BY <1>0, <1>1, <1>2, <1>4, <2>1 DEF HolderInv, HandFits, UnindexIsUsed, At, Id
<1>7. Keeps(c)
  BY <1>0, <1>4 DEF Keeps, Fresh, Hands, Id
<1>8. Hands(c)' = Hands(c) \union {m}
  <2>1. Id(c) = None
    BY <1>0 DEF HolderInv, HandFits, Empty
  <2> QED
    BY <1>0, <1>2, <1>4, <2>1, RedisQueueAssumption DEF Hands, Id
<1>9. FreshIsNowhere' /\ OneHolder'
  BY <1>0, <1>1, <1>7, <1>8, BeginNew
<1> QED
  BY <1>5, <1>6, <1>9 DEF HolderInv

LEMMA CountPendingKeeps ==
  ASSUME HolderInv, NEW c \in Clients, CountPending(c) PROVE HolderInv'
<1>1. /\ UNCHANGED <<pending, index, msg, held>>
      /\ client[c] \in ClientState /\ client[c].id = None /\ Len(pending) \in Nat
  BY DEF CountPending, At, stored, HolderInv, Typed, HandFits, Id, Empty
<1> DEFINE n == [client[c] EXCEPT !.pc = "pop", !.left = Len(pending)]
<1>2. n \in ClientState /\ n.pc = "pop" /\ n.id = None
  BY <1>1 DEF ClientState, Empty
<1>3. client' = [client EXCEPT ![c] = n]
  BY DEF CountPending, HolderInv, Typed
<1> HIDE DEF n
<1>4. held' \in [Clients -> SUBSET Msgs] /\ held'[c] = held[c] /\ held[c] \subseteq Hands(c)
  BY <1>1 DEF HolderInv, Typed, Hands
<1>5. "pop" \notin Full
  BY DEF Full
<1> QED
  BY <1>1, <1>2, <1>3, <1>4, <1>5, MoveKeeps

LEMMA BeginAckKeeps ==
  ASSUME HolderInv, NEW c \in Clients, NEW m \in Msgs, BeginAck(c, m)
  PROVE  HolderInv'
<1>1. client[c] \in ClientState /\ held[c] \subseteq Msgs /\ client[c].pc = "idle"
      /\ client[c].id = None /\ m \in held[c] /\ msg[m].attempt \in Nat
  BY DEF HolderInv, Typed, HandFits, BeginAck, At, Id, Empty, Message
<1>2. /\ held' = [held EXCEPT ![c] = held[c] \ {m}] /\ UNCHANGED <<pending, index, msg>>
      /\ held' \in [Clients -> SUBSET Msgs] /\ held'[c] = held[c] \ {m}
      /\ \A d \in Clients : d # c => held'[d] = held[d]
  BY DEF BeginAck, stored, HolderInv, Typed
<1> DEFINE n == [client[c] EXCEPT !.pc = "ack", !.id = m]
<1>3. n \in ClientState /\ n.pc \in {"ack"} /\ n.id = m
  BY <1>1 DEF ClientState, Full
<1>4. client' = [client EXCEPT ![c] = n] \/ client' = [client EXCEPT ![c] = client[c]]
  BY <1>1 DEF BeginAck, HolderInv, Typed
<1> HIDE DEF n
<1>5. m \in Hands(c) /\ held[c] \subseteq Hands(c)
  BY <1>1 DEF Hands
<1>6. CASE client' = [client EXCEPT ![c] = n]
  BY <1>1, <1>2, <1>3, <1>5, <1>6, MoveKeeps DEF Empty, Full
<1>7. CASE client' = [client EXCEPT ![c] = client[c]]
  BY <1>1, <1>2, <1>5, <1>7, MoveKeeps DEF Empty, Full
<1> QED
  BY <1>4, <1>6, <1>7

LEMMA BeginNackKeeps ==
  ASSUME HolderInv, NEW c \in Clients, NEW m \in Msgs, NEW requeue \in BOOLEAN,
         BeginNack(c, m, requeue)
  PROVE  HolderInv'
<1>1. client[c] \in ClientState /\ held[c] \subseteq Msgs /\ client[c].pc = "idle"
      /\ client[c].id = None /\ m \in held[c] /\ msg[m].attempt \in Nat
  BY DEF HolderInv, Typed, HandFits, BeginNack, At, Id, Empty, Message
<1>2. /\ held' = [held EXCEPT ![c] = held[c] \ {m}] /\ UNCHANGED <<pending, index, msg>>
      /\ held' \in [Clients -> SUBSET Msgs] /\ held'[c] = held[c] \ {m}
      /\ \A d \in Clients : d # c => held'[d] = held[d]
  BY DEF BeginNack, stored, HolderInv, Typed
<1> DEFINE
    k == IF requeue THEN "nack" ELSE "drop"
    n == [client[c] EXCEPT !.pc = k, !.id = m, !.attempt = msg[m].attempt + 1]
<1>0. k \in {"nack", "drop"} /\ k \in Full
  BY DEF Full
<1>3. client' = [client EXCEPT ![c] = n] \/ client' = [client EXCEPT ![c] = client[c]]
  BY <1>1 DEF BeginNack, HolderInv, Typed
<1> HIDE DEF k
<1>4. n \in ClientState /\ n.pc \in {"nack", "drop"} /\ n.id = m
  <2>1. msg[m].attempt + 1 \in Nat /\ m \in Msgs
    BY <1>1
  <2> QED
    BY <2>1, <1>0, <1>1 DEF ClientState
<1> HIDE DEF n
<1>5. m \in Hands(c) /\ held[c] \subseteq Hands(c)
  BY <1>1 DEF Hands
<1>6. CASE client' = [client EXCEPT ![c] = n]
  BY <1>1, <1>2, <1>4, <1>5, <1>6, MoveKeeps DEF Empty, Full
<1>7. CASE client' = [client EXCEPT ![c] = client[c]]
  BY <1>1, <1>2, <1>5, <1>7, MoveKeeps DEF Empty, Full
<1> QED
  BY <1>3, <1>6, <1>7

LEMMA CrashKeeps ==
  ASSUME HolderInv, NEW c \in Clients, Crash(c) PROVE HolderInv'
<1>1. Finish(c) /\ held' = [held EXCEPT ![c] = {}] /\ UNCHANGED <<pending, index, msg>>
  BY DEF Crash, stored
<1>2. /\ held' \in [Clients -> SUBSET Msgs] /\ held'[c] = {}
      /\ \A d \in Clients : d # c => held'[d] = held[d]
  BY <1>1 DEF HolderInv, Typed
<1>3. \A m \in Msgs : Fresh(m)' => Fresh(m)
  BY <1>1 DEF Fresh
<1> QED
  BY <1>1, <1>2, <1>3, Ends

\* Steps that leave messages, hands and list alone.
LEMMA QuietKeeps ==
  ASSUME HolderInv, UNCHANGED <<pending, index, msg, client, held>> PROVE HolderInv'
<1>1. HandFits' /\ UnindexIsUsed' /\ Typed'
  BY DEF HolderInv, Typed, HandFits, UnindexIsUsed, At, Id
<1>2. FreshIsNowhere' /\ OneHolder'
  BY DEF HolderInv, FreshIsNowhere, OneHolder, Fresh, Hands, Id, InList
<1> QED
  BY <1>1, <1>2 DEF HolderInv

LEMMA HolderStep == HolderInv /\ [Next]_vars => HolderInv'
<1> SUFFICES ASSUME HolderInv, [Next]_vars PROVE HolderInv'
  OBVIOUS
<1>1. ASSUME NEW c \in Clients, GoOn(c) PROVE HolderInv'
  BY <1>1, SaveNewKeeps, DeleteMsgKeeps, StoresAttemptKeeps, InflightSetKeeps, TrackKeysKeeps,
     DeleteIndexKeeps, PushNewKeeps, RotateKeeps, PushBackKeeps, PopHeadKeeps, LoadHeadKeeps,
     DeliverKeeps, NackRemoveKeeps DEF GoOn
<1>2. ASSUME NEW c \in Clients, CountPending(c) \/ Crash(c) PROVE HolderInv'
  BY <1>2, CountPendingKeeps, CrashKeeps
<1>3. ASSUME NEW c \in Clients, NEW m \in Msgs, SetIndex(c, m) \/ BeginAck(c, m)
      PROVE HolderInv'
  BY <1>3, SetIndexKeeps, BeginAckKeeps
<1>4. ASSUME NEW c \in Clients, NEW m \in Msgs, NEW requeue \in BOOLEAN, BeginNack(c, m, requeue)
      PROVE HolderInv'
  BY <1>4, BeginNackKeeps
<1>5. ASSUME NEW m \in Msgs, BecomesDue(m) PROVE HolderInv'
  BY <1>5, QuietKeeps DEF BecomesDue
<1>6. CASE UNCHANGED vars
  BY <1>6, QuietKeeps DEF vars, stored
<1> QED
  BY <1>1, <1>2, <1>3, <1>4, <1>5, <1>6 DEF Next

\* LPOP keeps the processes apart: no message is with two of them, or with one
\* and in the list, or twice in the list, however the commands of any number of
\* processes interleave and wherever processes die.
THEOREM HeldByOne == Spec => []OneHolder
<1>1. HolderInv => OneHolder
  BY DEF HolderInv
<1> QED
  BY <1>1, HolderInit, HolderStep, PTL DEF Spec

-----------------------------------------------------------------------------
(* The life of a message.  What a process has in hand tells the status that  *)
(* is stored, and the attempt it will store is the one stored, or the next:  *)
(* nobody else can have changed the message, because nobody else has it.     *)

PendingAt == {"push", "load", "rotate", "mark", "pushback"}
InflightAt == {"add", "deliver", "ack", "delete", "nack", "drop"}

HandOf(c) ==
    /\ \A m \in held[c] : msg[m].status = "inflight"
    /\ At(c, "save") => msg[Id(c)].status = "unused"
    /\ client[c].pc \in PendingAt => msg[Id(c)].status = "pending"
    /\ client[c].pc \in InflightAt => msg[Id(c)].status = "inflight"
    /\ At(c, "mark") => client[c].attempt = msg[Id(c)].attempt
    /\ client[c].pc \in {"nack", "drop"} => client[c].attempt = msg[Id(c)].attempt + 1

StatusInv ==
    /\ \A m \in Msgs : InList(m) => msg[m].status = "pending"
    /\ \A c \in Clients : HandOf(c)

\* A step of c that changes at most the message m it has in hand.
LEMMA HandMoves ==
  ASSUME HolderInv, StatusInv, NEW c \in Clients, NEW m \in Hands(c),
         \A x \in Msgs : x # m => msg'[x] = msg[x],
         \A d \in Clients : d # c => client'[d] = client[d] /\ held'[d] = held[d],
         \A x \in Msgs : InList(x)' => InList(x) \/ (x = m /\ msg'[m].status = "pending"),
         HandOf(c)'
  PROVE  StatusInv'
<1>1. \A d \in Clients : d # c => m \notin Hands(d)
  BY DEF HolderInv, OneHolder
<1>2. ~InList(m)
  BY DEF HolderInv, OneHolder
<1>3. \A x \in Msgs : InList(x)' => msg'[x].status = "pending"
  BY <1>2 DEF StatusInv
<1>4. ASSUME NEW d \in Clients, d # c PROVE HandOf(d)'
  <2>1. HandOf(d) /\ m \notin held[d] /\ held[d] \subseteq Msgs /\ client'[d] = client[d] /\ held'[d] = held[d]
    BY <1>1, <1>4 DEF StatusInv, Hands, HolderInv, Typed
  <2>2. \A x \in held[d] : msg'[x] = msg[x]
    BY <2>1
  <2>3. client[d].pc \in Full => Id(d) \in Msgs /\ Id(d) # m
    BY <1>1, <1>4, RedisQueueAssumption DEF HolderInv, HandFits, Hands
  <2>4. client[d].pc \in Full => msg'[Id(d)] = msg[Id(d)]
    BY <2>3
  <2>5. Id(d)' = Id(d)
    BY <2>1 DEF Id
  <2> QED
    BY <2>1, <2>2, <2>4, <2>5 DEF HandOf, At, PendingAt, InflightAt, Full
<1> QED
  BY <1>3, <1>4 DEF StatusInv

\* A step that changes no message and puts none into the list.
LEMMA HandRests ==
  ASSUME HolderInv, StatusInv, NEW c \in Clients, UNCHANGED msg,
         \A d \in Clients : d # c => client'[d] = client[d] /\ held'[d] = held[d],
         \A x \in Msgs : InList(x)' => InList(x),
         HandOf(c)'
  PROVE  StatusInv'
<1>1. ASSUME NEW d \in Clients, d # c PROVE HandOf(d)'
  BY <1>1 DEF StatusInv, HandOf, At, Id
<1> QED
  BY <1>1 DEF StatusInv

-----------------------------------------------------------------------------
(* Steps of the contract                                                     *)

ContractStep == [Contract!QueueNext]_(Contract!queueVars)

LEMMA ContractRests == UNCHANGED msg => ContractStep
BY DEF ContractStep, Contract!queueVars, StageOf

\* A step that stores s and attempt a at message m.
LEMMA Stored ==
  ASSUME HolderInv, NEW m \in Msgs, NEW s, NEW a,
         msg' = [msg EXCEPT ![m] = [status |-> s, attempt |-> a]]
  PROVE  /\ msg'[m].status = s /\ msg'[m].attempt = a /\ \A x \in Msgs : x # m => msg'[x] = msg[x]
         /\ LET to == IF s \in {"discarded", "deleted"} THEN "gone" ELSE s IN
            [x \in Msgs |-> StageOf(x)]' = [[x \in Msgs |-> StageOf(x)] EXCEPT ![m] = to]
         /\ [x \in Msgs |-> msg[x].attempt]' = [[x \in Msgs |-> msg[x].attempt] EXCEPT ![m] = a]
         /\ a = msg[m].attempt => UNCHANGED [x \in Msgs |-> msg[x].attempt]
<1>1. /\ msg'[m] = [status |-> s, attempt |-> a] /\ \A x \in Msgs : x # m => msg'[x] = msg[x]
  BY DEF HolderInv, Typed
<1>2. msg'[m].status = s /\ msg'[m].attempt = a
  BY <1>1
<1> PICK to : to = IF s \in {"discarded", "deleted"} THEN "gone" ELSE s
  OBVIOUS
<1>3. \A x \in Msgs : StageOf(x)' = IF x = m THEN to ELSE StageOf(x)
  BY <1>1, <1>2 DEF StageOf
<1>4. [x \in Msgs |-> StageOf(x)]' = [[x \in Msgs |-> StageOf(x)] EXCEPT ![m] = to]
  <2>1. [x \in Msgs |-> StageOf(x)]' = [x \in Msgs |-> IF x = m THEN to ELSE StageOf(x)]
    BY <1>3
  <2> QED
    BY <2>1
<1>5. [x \in Msgs |-> msg[x].attempt]' = [[x \in Msgs |-> msg[x].attempt] EXCEPT ![m] = a]
  <2>1. [x \in Msgs |-> msg[x].attempt]' = [x \in Msgs |-> IF x = m THEN a ELSE msg[x].attempt]
    BY <1>1, <1>2
  <2> QED
    BY <2>1
<1>6. a = msg[m].attempt => UNCHANGED [x \in Msgs |-> msg[x].attempt]
  BY <1>1, <1>2
<1> QED
  BY <1>1, <1>2, <1>4, <1>5, <1>6

LEMMA GoToMoves ==
  ASSUME HolderInv, NEW c \in Clients, NEW p, GoTo(c, p)
  PROVE  /\ client'[c].pc = p /\ client'[c].id = client[c].id /\ client'[c].attempt = client[c].attempt
         /\ \A d \in Clients : d # c => client'[d] = client[d]
BY DEF HolderInv, Typed, ClientState, GoTo

LEMMA FinishMoves ==
  ASSUME HolderInv, NEW c \in Clients, Finish(c)
  PROVE  /\ client'[c].pc = "idle"
         /\ \A d \in Clients : d # c => client'[d] = client[d]
BY DEF HolderInv, Typed, Finish, Idle

\* A command that stores the message in hand and goes on to p.
LEMMA StoresInHand ==
  ASSUME HolderInv, StatusInv, NEW c \in Clients, NEW m, NEW p, NEW s, NEW a,
         m = Id(c), client[c].pc \in Full, GoTo(c, p), UNCHANGED <<pending, held>>,
         msg' = [msg EXCEPT ![m] = [status |-> s, attempt |-> a]],
         p \in PendingAt => s = "pending",
         p \in InflightAt => s = "inflight",
         p \notin {"save", "mark", "nack", "drop"}
  PROVE  StatusInv'
<1>1. m \in Msgs /\ m \in Hands(c) /\ m \notin held[c] /\ held[c] \subseteq Msgs
  BY InHand
<1>2. /\ client'[c].pc = p /\ client'[c].id = m
      /\ \A d \in Clients : d # c => client'[d] = client[d]
  BY GoToMoves DEF Id
<1>3. msg'[m].status = s /\ \A x \in Msgs : x # m => msg'[x] = msg[x]
  <2>1. msg'[m] = [status |-> s, attempt |-> a] /\ \A x \in Msgs : x # m => msg'[x] = msg[x]
    BY <1>1 DEF HolderInv, Typed
  <2> QED
    BY <2>1
<1>4. HandOf(c)'
  <2>0. \A x \in held[c] : x \in Msgs /\ x # m /\ msg[x].status = "inflight"
    BY <1>1 DEF StatusInv, HandOf
  <2>1. \A x \in held[c] : msg'[x].status = "inflight"
    BY <1>3, <2>0
  <2> QED
    BY <1>2, <1>3, <2>1 DEF HandOf, At, Id
<1> QED
  BY <1>1, <1>2, <1>3, <1>4, HandMoves DEF InList

LEMMA SaveNewLives ==
  ASSUME HolderInv, StatusInv, NEW c \in Clients, SaveNew(c)
  PROVE  StatusInv' /\ ContractStep
<1> PICK m : m = Id(c)
  OBVIOUS
<1>1. client[c].pc = "save" /\ "save" \in Full /\ GoTo(c, "push") /\ UNCHANGED <<pending, held>>
  BY DEF SaveNew, At, Full
<1>2. m \in Msgs /\ msg[m].status = "unused"
  BY <1>1, InHand DEF StatusInv, HandOf, At
<1>3. msg' = [msg EXCEPT ![m] = [status |-> "pending", attempt |-> msg[m].attempt]]
  <2>1. msg[m] \in Message
    BY <1>2 DEF HolderInv, Typed
  <2>2. [msg[m] EXCEPT !.status = "pending"] = [status |-> "pending", attempt |-> msg[m].attempt]
    BY <2>1 DEF Message
  <2>3. msg' = [msg EXCEPT ![m] = [msg[m] EXCEPT !.status = "pending"]]
    BY DEF SaveNew
  <2> QED
    BY <2>2, <2>3
<1>4. StatusInv'
  <2>1. "push" \notin InflightAt /\ "push" \notin {"save", "mark", "nack", "drop"}
    BY DEF PendingAt, InflightAt
  <2> QED
    BY <1>1, <1>3, <2>1, StoresInHand
<1>5. Contract!Enqueue(m)
  <2>1. [x \in Msgs |-> StageOf(x)]' = [[x \in Msgs |-> StageOf(x)] EXCEPT ![m] = "pending"]
        /\ UNCHANGED [x \in Msgs |-> msg[x].attempt]
    BY <1>2, <1>3, Stored
  <2>2. [x \in Msgs |-> StageOf(x)][m] = "unused"
    BY <1>2 DEF StageOf
  <2> QED
    BY <2>1, <2>2 DEF Contract!Enqueue, Contract!Move
<1> QED
  BY <1>2, <1>4, <1>5 DEF ContractStep, Contract!QueueNext

LEMMA MarkInflightLives ==
  ASSUME HolderInv, StatusInv, NEW c \in Clients, MarkInflight(c)
  PROVE  StatusInv' /\ ContractStep
<1> PICK m : m = Id(c)
  OBVIOUS
<1>1. client[c].pc = "mark" /\ "mark" \in Full /\ GoTo(c, "add") /\ UNCHANGED <<pending, held>>
  BY DEF MarkInflight, At, Full
<1>2. m \in Msgs /\ msg[m].status = "pending" /\ client[c].attempt = msg[m].attempt
  BY <1>1, InHand DEF StatusInv, HandOf, At, PendingAt
<1>3. msg' = [msg EXCEPT ![m] = [status |-> "inflight", attempt |-> msg[m].attempt]]
  BY <1>2 DEF MarkInflight
<1>4. StatusInv'
  <2>1. "add" \notin PendingAt /\ "add" \notin {"save", "mark", "nack", "drop"}
    BY DEF PendingAt, InflightAt
  <2> QED
    BY <1>1, <1>3, <2>1, StoresInHand
<1>5. Contract!Dequeue(m)
  <2>1. [x \in Msgs |-> StageOf(x)]' = [[x \in Msgs |-> StageOf(x)] EXCEPT ![m] = "inflight"]
        /\ UNCHANGED [x \in Msgs |-> msg[x].attempt]
    BY <1>2, <1>3, Stored
  <2>2. [x \in Msgs |-> StageOf(x)][m] = "pending"
    BY <1>2 DEF StageOf
  <2> QED
    BY <2>1, <2>2 DEF Contract!Dequeue, Contract!Move
<1> QED
  BY <1>2, <1>4, <1>5 DEF ContractStep, Contract!QueueNext

LEMMA DeleteMsgLives ==
  ASSUME HolderInv, StatusInv, NEW c \in Clients, DeleteMsg(c)
  PROVE  StatusInv' /\ ContractStep
<1> PICK m : m = Id(c)
  OBVIOUS
<1>1. client[c].pc = "delete" /\ "delete" \in Full /\ GoTo(c, "unindex") /\ UNCHANGED <<pending, held>>
  BY DEF DeleteMsg, At, Full
<1>2. m \in Msgs /\ msg[m].status = "inflight"
  BY <1>1, InHand DEF StatusInv, HandOf, At, InflightAt
<1>3. msg' = [msg EXCEPT ![m] = [status |-> "deleted", attempt |-> msg[m].attempt]]
  <2>1. msg[m] \in Message
    BY <1>2 DEF HolderInv, Typed
  <2>2. [msg[m] EXCEPT !.status = "deleted"] = [status |-> "deleted", attempt |-> msg[m].attempt]
    BY <2>1 DEF Message
  <2>3. msg' = [msg EXCEPT ![m] = [msg[m] EXCEPT !.status = "deleted"]]
    BY DEF DeleteMsg
  <2> QED
    BY <2>2, <2>3
<1>4. StatusInv'
  <2>1. "unindex" \notin PendingAt \union InflightAt \union {"save", "mark", "nack", "drop"}
    BY DEF PendingAt, InflightAt
  <2> QED
    BY <1>1, <1>3, <2>1, StoresInHand
<1>5. Contract!Ack(m)
  <2>1. [x \in Msgs |-> StageOf(x)]' = [[x \in Msgs |-> StageOf(x)] EXCEPT ![m] = "gone"]
        /\ UNCHANGED [x \in Msgs |-> msg[x].attempt]
    BY <1>2, <1>3, Stored
  <2>2. [x \in Msgs |-> StageOf(x)][m] = "inflight"
    BY <1>2 DEF StageOf
  <2> QED
    BY <2>1, <2>2 DEF Contract!Ack, Contract!Move
<1> QED
  BY <1>2, <1>4, <1>5 DEF ContractStep, Contract!QueueNext

LEMMA NackLives ==
  ASSUME HolderInv, StatusInv, NEW c \in Clients, SaveNacked(c) \/ SaveDiscarded(c)
  PROVE  StatusInv' /\ ContractStep
<1> PICK m : m = Id(c)
  OBVIOUS
<1> PICK a : a = client[c].attempt
  OBVIOUS
<1>1. client[c].pc \in {"nack", "drop"} /\ client[c].pc \in Full
  BY DEF SaveNacked, SaveDiscarded, At, Full
<1>2. GoTo(c, "remove") /\ UNCHANGED <<pending, held>>
  BY DEF SaveNacked, SaveDiscarded
<1>3. m \in Msgs /\ msg[m].status = "inflight" /\ a = msg[m].attempt + 1
  BY <1>1, InHand DEF StatusInv, HandOf, InflightAt
<1>4. "remove" \notin PendingAt \union InflightAt \union {"save", "mark", "nack", "drop"}
  BY DEF PendingAt, InflightAt
<1>5. /\ [x \in Msgs |-> StageOf(x)][m] = "inflight"
      /\ [x \in Msgs |-> msg[x].attempt][m] = msg[m].attempt
  BY <1>3 DEF StageOf
<1>6. CASE SaveNacked(c)
  <2>1. msg' = [msg EXCEPT ![m] = [status |-> "pending", attempt |-> a]]
    BY <1>6 DEF SaveNacked
  <2>2. StatusInv'
    BY <1>1, <1>2, <1>4, <2>1, StoresInHand
  <2>3. /\ [x \in Msgs |-> StageOf(x)]' = [[x \in Msgs |-> StageOf(x)] EXCEPT ![m] = "pending"]
        /\ [x \in Msgs |-> msg[x].attempt]'
               = [[x \in Msgs |-> msg[x].attempt] EXCEPT ![m] = a]
    BY <1>3, <2>1, Stored
  <2>4. Contract!Nack(m, TRUE)
    BY <1>3, <1>5, <2>3 DEF Contract!Nack, Contract!Move
  <2> QED
    BY <1>3, <2>2, <2>4 DEF ContractStep, Contract!QueueNext
<1>7. CASE SaveDiscarded(c)
  <2>1. msg' = [msg EXCEPT ![m] = [status |-> "discarded", attempt |-> a]]
    BY <1>7 DEF SaveDiscarded
  <2>2. StatusInv'
    BY <1>1, <1>2, <1>4, <2>1, StoresInHand
  <2>3. /\ [x \in Msgs |-> StageOf(x)]' = [[x \in Msgs |-> StageOf(x)] EXCEPT ![m] = "gone"]
        /\ [x \in Msgs |-> msg[x].attempt]'
               = [[x \in Msgs |-> msg[x].attempt] EXCEPT ![m] = a]
    BY <1>3, <2>1, Stored
  <2>4. Contract!Nack(m, FALSE)
    BY <1>3, <1>5, <2>3 DEF Contract!Nack, Contract!Move
  <2> QED
    BY <1>3, <2>2, <2>4 DEF ContractStep, Contract!QueueNext
<1> QED
  BY <1>6, <1>7

-----------------------------------------------------------------------------
(* The other commands leave every stored message as it is                    *)

\* A command that puts the message in hand into the list and is done with it.
LEMMA PutLives ==
  ASSUME HolderInv, StatusInv, NEW c \in Clients, client[c].pc \in {"push", "rotate", "pushback"},
         UNCHANGED <<msg, held>>, client'[c].pc \in Empty,
         \A d \in Clients : d # c => client'[d] = client[d],
         pending' = Append(pending, Id(c)) \/ pending' = <<Id(c)>> \o pending
  PROVE  StatusInv'
<1> PICK m : m = Id(c)
  OBVIOUS
<1>1. m \in Msgs /\ m \in Hands(c) /\ msg[m].status = "pending"
  BY InHand DEF StatusInv, HandOf, PendingAt, Full
<1>2. pending \in Seq(Msgs) /\ Once(pending) /\ ~In(pending, m)
  BY <1>1 DEF HolderInv, Typed, OneHolder, Once, In, InList
<1>3. \A x : In(pending', x) <=> In(pending, x) \/ x = m
  <2>1. CASE pending' = Append(pending, m)
    BY <1>1, <1>2, <2>1, AppendOnce
  <2>2. CASE pending' = <<m>> \o pending
    BY <1>1, <1>2, <2>2, PrependOnce
  <2> QED
    BY <2>1, <2>2
<1>4. \A x \in Msgs : InList(x)' => InList(x) \/ (x = m /\ msg'[m].status = "pending")
  BY <1>1, <1>3 DEF In, InList
<1>5. HandOf(c)'
  BY DEF StatusInv, HandOf, At, Empty, PendingAt, InflightAt
<1> QED
  BY <1>1, <1>4, <1>5, HandMoves

LEMMA ScanOnEnds ==
  ASSUME HolderInv, NEW c \in Clients, ScanOn(c)
  PROVE  client'[c].pc \in Empty /\ \A d \in Clients : d # c => client'[d] = client[d]
<1>1. PICK n \in ClientState : /\ client' = [client EXCEPT ![c] = n]
                               /\ n.pc \in {"idle", "pop"} /\ n.id = None
  BY ScanOnGoes
<1> QED
  BY <1>1 DEF HolderInv, Typed, Empty

LEMMA PutsLive ==
  ASSUME HolderInv, StatusInv, NEW c \in Clients, PushNew(c) \/ Rotate(c) \/ PushBack(c)
  PROVE  StatusInv' /\ UNCHANGED msg
<1>1. CASE PushNew(c)
  <2>1. client'[c].pc \in Empty /\ \A d \in Clients : d # c => client'[d] = client[d]
    BY <1>1 DEF PushNew, HolderInv, Typed, ClientState, Empty
  <2> QED
    BY <1>1, <2>1, PutLives DEF PushNew, At
<1>2. CASE Rotate(c)
  BY <1>2, ScanOnEnds, PutLives DEF Rotate, At
<1>3. CASE PushBack(c)
  BY <1>3, FinishMoves, PutLives DEF PushBack, At, Empty
<1> QED
  BY <1>1, <1>2, <1>3

\* A command after which the process has nothing in hand, and works on no more.
LEMMA EndsLive ==
  ASSUME HolderInv, StatusInv, NEW c \in Clients, UNCHANGED msg,
         \A d \in Clients : d # c => client'[d] = client[d] /\ held'[d] = held[d],
         client'[c].pc \in Empty, \A m \in held'[c] : msg[m].status = "inflight",
         \A x \in Msgs : InList(x)' => InList(x)
  PROVE  StatusInv'
<1>1. HandOf(c)'
  BY DEF HandOf, At, Empty, PendingAt, InflightAt
<1> QED
  BY <1>1, HandRests

LEMMA FinishesLive ==
  ASSUME HolderInv, StatusInv, NEW c \in Clients, Finish(c), UNCHANGED <<msg, pending>>,
         \A d \in Clients : d # c => held'[d] = held[d],
         \A m \in held'[c] : msg[m].status = "inflight"
  PROVE  StatusInv'
BY FinishMoves, EndsLive DEF InList, Empty

LEMMA EndingsLive ==
  ASSUME HolderInv, StatusInv, NEW c \in Clients,
         TrackKeys(c) \/ DeleteIndex(c) \/ Deliver(c) \/ Crash(c) \/ CountPending(c)
  PROVE  StatusInv' /\ UNCHANGED msg
<1>0. \A m \in held[c] : msg[m].status = "inflight"
  BY DEF StatusInv, HandOf
<1>1. CASE TrackKeys(c) \/ DeleteIndex(c)
  BY <1>0, <1>1, FinishesLive DEF TrackKeys, DeleteIndex
<1>2. CASE Deliver(c)
  <2>1. msg[Id(c)].status = "inflight"
    BY <1>2 DEF StatusInv, HandOf, Deliver, At, InflightAt
  <2>2. held'[c] = held[c] \union {Id(c)} /\ \A d \in Clients : d # c => held'[d] = held[d]
    BY <1>2 DEF Deliver, HolderInv, Typed
  <2>3. Finish(c) /\ UNCHANGED <<msg, pending>>
    BY <1>2 DEF Deliver
  <2> QED
    BY <1>0, <2>1, <2>2, <2>3, FinishesLive
<1>3. CASE Crash(c)
  <2>1. held'[c] = {} /\ \A d \in Clients : d # c => held'[d] = held[d]
    BY <1>3 DEF Crash, HolderInv, Typed
  <2>2. Finish(c) /\ UNCHANGED <<msg, pending>>
    BY <1>3 DEF Crash, stored
  <2> QED
    BY <2>1, <2>2, FinishesLive
<1>4. CASE CountPending(c)
  <2>1. client'[c].pc \in Empty /\ \A d \in Clients : d # c => client'[d] = client[d]
    BY <1>4 DEF CountPending, HolderInv, Typed, ClientState, Empty
  <2>2. UNCHANGED <<msg, held, pending>>
    BY <1>4 DEF CountPending, stored
  <2> QED
    BY <1>0, <2>1, <2>2, EndsLive DEF InList
<1> QED
  BY <1>1, <1>2, <1>3, <1>4

LEMMA PopHeadLives ==
  ASSUME HolderInv, StatusInv, NEW c \in Clients, PopHead(c)
  PROVE  StatusInv' /\ UNCHANGED msg
<1>0. UNCHANGED <<msg, held>> /\ \A m \in held[c] : msg[m].status = "inflight"
  BY DEF PopHead, StatusInv, HandOf
<1>1. CASE pending = <<>>
  BY <1>0, <1>1, FinishesLive DEF PopHead
<1>2. CASE pending # <<>>
  <2> PICK m : m = Head(pending)
    OBVIOUS
  <2>1. pending \in Seq(Msgs) /\ Once(pending)
    BY DEF HolderInv, Typed, OneHolder, Once
  <2>2. pending' = Tail(pending) /\ client' = [client EXCEPT ![c].pc = "load", ![c].id = m]
    BY <1>2 DEF PopHead
  <2>3. m \in Msgs /\ In(pending, m) /\ \A x : In(pending', x) => In(pending, x)
    BY <1>2, <2>1, <2>2, TailOnce
  <2>4. \A x \in Msgs : InList(x)' => InList(x)
    BY <2>3 DEF In, InList
  <2>5. msg[m].status = "pending"
    BY <2>3 DEF StatusInv, In, InList
  <2>6. client'[c].pc = "load" /\ client'[c].id = m /\ \A d \in Clients : d # c => client'[d] = client[d]
    BY <2>2 DEF HolderInv, Typed, ClientState
  <2>7. HandOf(c)'
    BY <1>0, <2>5, <2>6 DEF HandOf, At, Id, InflightAt
  <2> QED
    BY <1>0, <2>4, <2>6, <2>7, HandRests
<1> QED
  BY <1>1, <1>2

\* A command after which the same message is in hand, with the status that the
\* next command expects.
LEMMA GoesOnLive ==
  ASSUME HolderInv, StatusInv, NEW c \in Clients, NEW p, GoTo(c, p), UNCHANGED <<msg, pending, held>>,
         p \in PendingAt => msg[Id(c)].status = "pending",
         p \in InflightAt => msg[Id(c)].status = "inflight",
         p \notin {"save", "mark", "nack", "drop"}
  PROVE  StatusInv'
<1>1. /\ client'[c].pc = p /\ client'[c].id = client[c].id
      /\ \A d \in Clients : d # c => client'[d] = client[d]
  BY GoToMoves
<1>2. HandOf(c)'
  BY <1>1 DEF StatusInv, HandOf, At, Id
<1> QED
  BY <1>1, <1>2, HandRests DEF InList

LEMMA GoingOnLives ==
  ASSUME HolderInv, StatusInv, NEW c \in Clients,
         AddInflight(c) \/ AckRemove(c) \/ NackRemove(c) \/ LoadHead(c)
  PROVE  StatusInv' /\ UNCHANGED msg
<1>0. \A m \in held[c] : msg[m].status = "inflight"
  BY DEF StatusInv, HandOf
<1>1. CASE AddInflight(c)
  <2>1. msg[Id(c)].status = "inflight" /\ "deliver" \notin PendingAt
    BY <1>1 DEF StatusInv, HandOf, AddInflight, At, InflightAt, PendingAt
  <2> QED
    BY <1>1, <2>1, GoesOnLive DEF AddInflight
<1>2. CASE AckRemove(c)
  <2>1. msg[Id(c)].status = "inflight" /\ "delete" \notin PendingAt
    BY <1>2 DEF StatusInv, HandOf, AckRemove, At, InflightAt, PendingAt
  <2> QED
    BY <1>2, <2>1, GoesOnLive DEF AckRemove
<1>3. CASE NackRemove(c)
  <2>1. CASE msg[Id(c)].status = "pending"
    <3>1. "pushback" \notin InflightAt
      BY DEF InflightAt
    <3> QED
      BY <1>3, <2>1, <3>1, GoesOnLive DEF NackRemove
  <2>2. CASE msg[Id(c)].status # "pending"
    BY <1>0, <1>3, <2>2, FinishesLive DEF NackRemove
  <2> QED
    BY <2>1, <2>2
<1>4. CASE LoadHead(c)
  <2>0. msg[Id(c)].status = "pending" /\ UNCHANGED <<msg, pending, held>>
    BY <1>4 DEF StatusInv, HandOf, LoadHead, At, PendingAt, stored
  <2>1. CASE Id(c) \in early
    <3>1. GoTo(c, "rotate") /\ "rotate" \notin InflightAt
      BY <1>4, <2>0, <2>1 DEF LoadHead, InflightAt
    <3> QED
      BY <2>0, <3>1, GoesOnLive
  <2>2. CASE Id(c) \notin early
    <3>1. client' = [client EXCEPT ![c].pc = "mark", ![c].attempt = msg[Id(c)].attempt]
      BY <1>4, <2>0, <2>2 DEF LoadHead
    <3>2. /\ client'[c].pc = "mark" /\ client'[c].id = client[c].id
          /\ client'[c].attempt = msg[Id(c)].attempt
          /\ \A d \in Clients : d # c => client'[d] = client[d]
      BY <3>1 DEF HolderInv, Typed, ClientState
    <3>3. HandOf(c)'
      BY <1>0, <2>0, <3>2 DEF HandOf, At, Id, InflightAt
    <3> QED
      BY <2>0, <3>2, <3>3, HandRests DEF InList
  <2> QED
    BY <2>1, <2>2
<1> QED
  BY <1>1, <1>2, <1>3, <1>4

\* What begins: a new message, or the ack or nack of one the process works on.
LEMMA BeginningsLive ==
  ASSUME HolderInv, StatusInv, NEW c \in Clients, NEW m \in Msgs,
         SetIndex(c, m) \/ BeginAck(c, m) \/ \E requeue \in BOOLEAN : BeginNack(c, m, requeue)
  PROVE  StatusInv' /\ UNCHANGED msg
<1>0. /\ UNCHANGED <<msg, pending>> /\ \A x \in held[c] : msg[x].status = "inflight"
      /\ \A x \in Msgs : InList(x)' => InList(x)
  BY DEF SetIndex, BeginAck, BeginNack, stored, StatusInv, HandOf, InList
<1>1. CASE SetIndex(c, m)
  <2>1. /\ client'[c].pc = "save" /\ client'[c].id = m /\ msg[m].status = "unused" /\ UNCHANGED held
        /\ \A d \in Clients : d # c => client'[d] = client[d]
    BY <1>1 DEF SetIndex, HolderInv, Typed, ClientState
  <2>2. HandOf(c)'
    BY <1>0, <2>1 DEF HandOf, At, Id, PendingAt, InflightAt
  <2> QED
    BY <1>0, <2>1, <2>2, HandRests
<1>2. ASSUME BeginAck(c, m) \/ \E requeue \in BOOLEAN : BeginNack(c, m, requeue)
      PROVE  StatusInv'
  <2>1. /\ held' = [held EXCEPT ![c] = held[c] \ {m}] /\ At(c, "idle")
        /\ \/ UNCHANGED client
           \/ client' = [client EXCEPT ![c].pc = "ack", ![c].id = m]
           \/ \E k \in {"nack", "drop"} :
                client' = [client EXCEPT ![c].pc = k, ![c].id = m, ![c].attempt = msg[m].attempt + 1]
    BY <1>2 DEF BeginAck, BeginNack
  <2>2. m \in held[c]
    BY <1>2 DEF BeginAck, BeginNack
  <2>3. /\ held'[c] \subseteq held[c]
        /\ \A d \in Clients : d # c => held'[d] = held[d] /\ client'[d] = client[d]
    BY <2>1 DEF HolderInv, Typed
  <2>4. \/ client'[c].pc = "idle"
        \/ client'[c].pc = "ack" /\ client'[c].id = m
        \/ /\ client'[c].pc \in {"nack", "drop"} /\ client'[c].id = m
           /\ client'[c].attempt = msg[m].attempt + 1
    BY <2>1 DEF At, HolderInv, Typed, ClientState
  <2>5. HandOf(c)'
    <3>1. msg[m].status = "inflight" /\ \A x \in held'[c] : msg'[x].status = "inflight"
      BY <1>0, <2>2, <2>3
    <3>2. CASE client'[c].pc = "idle"
      BY <3>1, <3>2 DEF HandOf, At, PendingAt, InflightAt
    <3>3. CASE client'[c].pc = "ack" /\ client'[c].id = m
      BY <1>0, <3>1, <3>3 DEF HandOf, At, Id, PendingAt
    <3>4. CASE /\ client'[c].pc \in {"nack", "drop"} /\ client'[c].id = m
               /\ client'[c].attempt = msg[m].attempt + 1
      BY <1>0, <3>1, <3>4 DEF HandOf, At, Id, PendingAt
    <3> QED
      BY <2>4, <3>2, <3>3, <3>4
  <2> QED
    BY <1>0, <2>3, <2>5, HandRests
<1> QED
  BY <1>0, <1>1, <1>2

\* A step that leaves processes, list and messages alone.
LEMMA QuietLives ==
  ASSUME StatusInv, UNCHANGED <<pending, msg, client, held>> PROVE StatusInv'
BY DEF StatusInv, HandOf, InList, At, Id

LEMMA StatusInit == Init => StatusInv /\ Contract!QueueInit
<1> SUFFICES ASSUME Init PROVE StatusInv /\ Contract!QueueInit
  OBVIOUS
<1>1. StatusInv
  BY DEF Init, StatusInv, HandOf, InList, At, Idle, PendingAt, InflightAt
<1>2. Contract!QueueInit
  BY DEF Init, Contract!QueueInit, StageOf
<1> QED
  BY <1>1, <1>2

LEMMA StatusStep == HolderInv /\ StatusInv /\ [Next]_vars => StatusInv' /\ ContractStep
<1> SUFFICES ASSUME HolderInv, StatusInv, [Next]_vars PROVE StatusInv' /\ ContractStep
  OBVIOUS
<1>1. ASSUME NEW c \in Clients, GoOn(c) PROVE StatusInv' /\ ContractStep
  <2>1. CASE SaveNew(c) \/ MarkInflight(c) \/ DeleteMsg(c) \/ SaveNacked(c) \/ SaveDiscarded(c)
    BY <2>1, SaveNewLives, MarkInflightLives, DeleteMsgLives, NackLives
  <2>2. CASE \/ PushNew(c) \/ Rotate(c) \/ PushBack(c) \/ TrackKeys(c) \/ DeleteIndex(c) \/ Deliver(c)
             \/ PopHead(c) \/ AddInflight(c) \/ AckRemove(c) \/ NackRemove(c) \/ LoadHead(c)
    BY <2>2, PutsLive, EndingsLive, PopHeadLives, GoingOnLives, ContractRests
  <2> QED
    BY <1>1, <2>1, <2>2 DEF GoOn
<1>2. ASSUME NEW c \in Clients, CountPending(c) \/ Crash(c) PROVE StatusInv' /\ ContractStep
  BY <1>2, EndingsLive, ContractRests
<1>3. ASSUME NEW c \in Clients, NEW m \in Msgs,
             SetIndex(c, m) \/ BeginAck(c, m) \/ \E requeue \in BOOLEAN : BeginNack(c, m, requeue)
      PROVE  StatusInv' /\ ContractStep
  BY <1>3, BeginningsLive, ContractRests
<1>4. CASE (\E m \in Msgs : BecomesDue(m)) \/ UNCHANGED vars
  BY <1>4, QuietLives, ContractRests DEF BecomesDue, vars, stored
<1> QED
  BY <1>1, <1>2, <1>3, <1>4 DEF Next

\* Whatever commands of other processes and deaths come between the commands of
\* a method, the message stored at msg_key lives the life that every queue
\* backend promises: enqueued once, in flight only from pending, gone or counted
\* one attempt higher only from in flight.
THEOREM RedisKeepsContract == Spec => ImplementsContract
<1>1. Init => HolderInv /\ StatusInv /\ Contract!QueueInit
  BY HolderInit, StatusInit
<1>2. HolderInv /\ StatusInv /\ [Next]_vars => (HolderInv /\ StatusInv)' /\ ContractStep
  BY HolderStep, StatusStep
<1> QED
  BY <1>1, <1>2, PTL DEF Spec, ImplementsContract, Contract!QueueSpec, ContractStep

-----------------------------------------------------------------------------
(* The in-memory deque *)

Row == [key : QueueKeys \union {NoKey}, attempt : Nat, due : Nat]

DequesTyped ==
    /\ queues \in [QueueKeys -> Seq(Messages)]
    /\ delivered \subseteq Messages
    /\ entry \in [Messages -> Row]
    /\ arrival \in [Messages -> Nat]
    /\ clock \in Nat

\* A message waits in the deque of its key, once, or is delivered, or neither.
InPlace ==
    /\ \A k \in QueueKeys : Once(queues[k])
    /\ \A k \in QueueKeys : \A m \in Messages :
          In(queues[k], m) => entry[m].key = k /\ m \notin delivered
    /\ \A m \in delivered : ~Unused(m)
    /\ \A m \in Messages : Unused(m) => entry[m].attempt = 0

\* A message enqueued without a delay and never nacked is visible, and comes
\* in its deque after those that were enqueued before it.
UsedMsgs == {m \in Messages : ~Unused(m)}
InTurn ==
    /\ IsFiniteSet(UsedMsgs)
    /\ \A m \in Messages : arrival[m] > 0 => /\ IsAvailable(m) /\ ~Unused(m)
                                             /\ arrival[m] <= Cardinality(UsedMsgs)
    /\ \A k \in QueueKeys : \A i, h \in DOMAIN queues[k] :
          (i < h /\ arrival[queues[k][i]] > 0 /\ arrival[queues[k][h]] > 0)
             => arrival[queues[k][i]] <= arrival[queues[k][h]]

DequeInv == DequesTyped /\ InPlace /\ InTurn

\* Two messages in the list r that the scan leaves of the list s come in
\* their order in s, unless it skipped the later one.
Turned(s, i, r) ==
    /\ r \in Seq(Messages) /\ Once(r)
    /\ \A x : In(r, x) <=> In(s, x) /\ x # s[i]
    /\ \A j, l \in DOMAIN r : j < l =>
          \E a, b \in DOMAIN s : r[j] = s[a] /\ r[l] = s[b] /\ (a < b \/ b < i)

LEMMA RotatedIs ==
  ASSUME NEW s \in Seq(Messages), Once(s), NEW i \in DOMAIN s
  PROVE  Turned(s, i, Rotated(s, i))
<1> DEFINE n == Len(s)
           u == SubSeq(s, i + 1, n)
           v == SubSeq(s, 1, i - 1)
           r == u \o v
           p(j) == IF j <= n - i THEN i + j ELSE j - (n - i)
<1>0. n \in Nat /\ DOMAIN s = 1..n /\ i \in 1..n
  OBVIOUS
<1>1. /\ u \in Seq(Messages) /\ Len(u) = n - i
      /\ \A j \in 1..(n - i) : u[j] = s[i + j]
  <2>1. u \in Seq(Messages) /\ Len(u) = n - i
    BY <1>0
  <2>2. ASSUME NEW j \in 1..(n - i) PROVE u[j] = s[i + j]
    BY <1>0, <2>2
  <2> QED
    BY <2>1, <2>2
<1>2. /\ v \in Seq(Messages) /\ Len(v) = i - 1
      /\ \A j \in 1..(i - 1) : v[j] = s[j]
  BY <1>0
<1> HIDE DEF u, v, n
<1>3. /\ r \in Seq(Messages) /\ Len(r) = n - 1
      /\ \A j \in 1..(n - 1) : r[j] = IF j <= n - i THEN u[j] ELSE v[j - (n - i)]
  <2>1. \A j \in 1 .. Len(u) + Len(v) : r[j] = IF j <= Len(u) THEN u[j] ELSE v[j - Len(u)]
    BY <1>1, <1>2, ConcatProperties
  <2>2. r \in Seq(Messages) /\ Len(r) = Len(u) + Len(v)
    BY <1>1, <1>2, ConcatProperties
  <2> QED
    BY <1>0, <1>1, <1>2, <2>1, <2>2
<1> HIDE DEF r
<1>4. DOMAIN r = 1..(n - 1)
  BY <1>3
<1>5. \A j \in 1..(n - 1) : /\ p(j) \in 1..n /\ p(j) # i /\ r[j] = s[p(j)]
                            /\ \A l \in 1..(n - 1) : j < l => p(j) # p(l) /\ (p(j) < p(l) \/ p(l) < i)
  <2> SUFFICES ASSUME NEW j \in 1..(n - 1)
               PROVE  /\ p(j) \in 1..n /\ p(j) # i /\ r[j] = s[p(j)]
                      /\ \A l \in 1..(n - 1) : j < l => p(j) # p(l) /\ (p(j) < p(l) \/ p(l) < i)
    OBVIOUS
  <2>1. CASE j <= n - i
    <3>1. j \in 1..(n - i) /\ r[j] = u[j]
      BY <1>0, <1>3, <2>1
    <3>2. r[j] = s[i + j]
      BY <1>1, <3>1
    <3> QED
      BY <1>0, <2>1, <3>2
  <2>2. CASE ~(j <= n - i)
    <3>1. j - (n - i) \in 1..(i - 1) /\ r[j] = v[j - (n - i)]
      BY <1>0, <1>3, <2>2
    <3>2. r[j] = s[j - (n - i)]
      BY <1>2, <3>1
    <3> QED
      BY <1>0, <2>2, <3>1, <3>2
  <2> QED
    BY <2>1, <2>2
<1>6. ASSUME NEW j \in 1..n, j # i PROVE \E l \in 1..(n - 1) : p(l) = j
  <2>1. CASE j > i
    <3>1. j - i \in 1..(n - 1) /\ p(j - i) = j
      BY <1>0, <2>1
    <3> QED
      BY <3>1
  <2>2. CASE j < i
    <3>1. j + (n - i) \in 1..(n - 1) /\ p(j + (n - i)) = j
      BY <1>0, <2>2
    <3> QED
      BY <3>1
  <2> QED
    BY <1>0, <1>6, <2>1, <2>2
<1> HIDE DEF p
<1>7. Once(r)
  <2> SUFFICES ASSUME NEW j \in 1..(n - 1), NEW l \in 1..(n - 1), r[j] = r[l], j < l
               PROVE  FALSE
    BY <1>0, <1>4 DEF Once
  <2>1. p(j) # p(l) /\ s[p(j)] = s[p(l)] /\ p(j) \in 1..n /\ p(l) \in 1..n
    BY <1>5
  <2> QED
    BY <1>0, <2>1 DEF Once
<1>8. ASSUME NEW x PROVE In(r, x) <=> In(s, x) /\ x # s[i]
  <2>1. ASSUME In(r, x) PROVE In(s, x) /\ x # s[i]
    <3>1. PICK j \in 1..(n - 1) : r[j] = x
      BY <1>4, <2>1 DEF In
    <3>2. p(j) \in 1..n /\ p(j) # i /\ s[p(j)] = x
      BY <1>5, <3>1
    <3>3. s[p(j)] # s[i]
      BY <1>0, <3>2 DEF Once
    <3> QED
      BY <1>0, <3>2, <3>3 DEF In
  <2>2. ASSUME In(s, x), x # s[i] PROVE In(r, x)
    <3>1. PICK j \in 1..n : s[j] = x
      BY <1>0, <2>2 DEF In
    <3>2. PICK l \in 1..(n - 1) : p(l) = j
      BY <1>6, <2>2, <3>1
    <3>3. r[l] = x
      BY <1>5, <3>1, <3>2
    <3> QED
      BY <1>4, <3>3 DEF In
  <2> QED
    BY <2>1, <2>2
<1>9. ASSUME NEW j \in DOMAIN r, NEW l \in DOMAIN r, j < l
      PROVE  \E a, b \in DOMAIN s : r[j] = s[a] /\ r[l] = s[b] /\ (a < b \/ b < i)
  <2>1. /\ p(j) \in DOMAIN s /\ p(l) \in DOMAIN s /\ r[j] = s[p(j)] /\ r[l] = s[p(l)]
        /\ p(j) < p(l) \/ p(l) < i
    BY <1>0, <1>4, <1>5, <1>9
  <2> QED
    BY <2>1
<1>10. Rotated(s, i) = r
  BY DEF Rotated, r, u, v, n
<1>11. Turned(s, i, r)
  BY <1>3, <1>7, <1>8, <1>9 DEF Turned
<1> QED
  BY <1>10, <1>11

-----------------------------------------------------------------------------
(* The messages of a deque, and the life of a message *)

LEMMA WaitingIs ==
  ASSUME DequesTyped, InPlace, NEW m \in Messages
  PROVE  /\ Waiting(m) <=> \E k \in QueueKeys : In(queues[k], m)
         /\ \A k \in QueueKeys : In(queues[k], m) <=> Waiting(m) /\ entry[m].key = k
BY DEF Waiting, In, InPlace

\* One deque changes: what waits after it.
LEMMA WaitingChanges ==
  ASSUME DequesTyped, NEW k \in QueueKeys, NEW r, queues' = [queues EXCEPT ![k] = r], NEW x
  PROVE  Waiting(x)' <=> In(r, x) \/ \E l \in QueueKeys : l # k /\ In(queues[l], x)
BY DEF DequesTyped, Waiting, In

MemoryStep == [MemoryContract!QueueNext]_(MemoryContract!queueVars)

\* One message moves, and its attempt is counted or not.
LEMMA OneMoves ==
  ASSUME NEW m \in Messages, NEW from, NEW to,
         MemoryStage(m) = from, MemoryStage(m)' = to,
         \A x \in Messages : x # m => MemoryStage(x)' = MemoryStage(x)
  PROVE  MemoryContract!Move(m, from, to)
BY DEF MemoryContract!Move

LEMMA RowFields ==
  ASSUME DequesTyped, NEW m \in Messages
  PROVE  /\ entry[m] \in Row /\ entry[m].key \in QueueKeys \union {NoKey}
         /\ entry[m].attempt \in Nat /\ entry[m].due \in Nat
BY DEF DequesTyped, Row

LEMMA MemoryStarts ==
  ASSUME MemoryInit
  PROVE  DequeInv /\ MemoryContract!QueueInit
<1> USE DEF MemoryInit
<1>1. DequesTyped
  BY DEF DequesTyped, Row
<1>2. InPlace
  BY DEF InPlace, Once, In
<1>3. UsedMsgs = {}
  BY DEF UsedMsgs, Unused
<1>4. InTurn
  BY <1>3, FS_EmptySet DEF InTurn
<1>5. MemoryContract!QueueInit
  BY DEF MemoryContract!QueueInit, MemoryStage, Unused
<1> QED
  BY <1>1, <1>2, <1>4, <1>5 DEF DequeInv

LEMMA EnqueueKeeps ==
  ASSUME DequeInv,
         NEW k \in QueueKeys, NEW m \in Messages, NEW d \in Delays, Enqueue(k, m, d)
  PROVE  DequeInv' /\ MemoryStep
<1> DEFINE q == queues[k]
           r == Append(q, m)
           c == Cardinality(UsedMsgs)
           row == [key |-> k, attempt |-> 0, due |-> clock + d]
<1>0. /\ Unused(m) /\ entry' = [entry EXCEPT ![m] = row]
      /\ arrival' = IF d > 0 THEN arrival ELSE [arrival EXCEPT ![m] = c + 1]
      /\ queues' = [queues EXCEPT ![k] = r]
      /\ delivered' = delivered /\ clock' = clock
  <2>1. UsedMsgs = {n \in Messages : ~Unused(n)}
    BY DEF UsedMsgs
  <2> HIDE DEF c, r, row
  <2>2. arrival' = IF d > 0 THEN arrival
                   ELSE [arrival EXCEPT ![m] = Cardinality({n \in Messages : ~Unused(n)}) + 1]
    BY DEF Enqueue
  <2>3. arrival' = IF d > 0 THEN arrival ELSE [arrival EXCEPT ![m] = c + 1]
    BY <2>1, <2>2 DEF c
  <2> QED
    BY <2>3 DEF Enqueue, r, row
<1>1. DequesTyped /\ InPlace /\ InTurn /\ k # NoKey /\ d \in Nat
  BY InMemoryQueueAssumption DEF DequeInv, Delays
<1>2. q \in Seq(Messages) /\ row \in Row /\ c \in Nat /\ Len(q) \in Nat
  BY <1>1, FS_CardinalityType DEF DequesTyped, Row, InTurn
<1>3. ~Waiting(m) /\ m \notin delivered /\ arrival[m] = 0
  <2>1. arrival[m] \in Nat
    BY <1>1 DEF DequesTyped
  <2>2. ~(arrival[m] > 0) /\ m \notin delivered
    BY <1>0, <1>1 DEF InPlace, InTurn
  <2>3. ASSUME NEW l \in QueueKeys PROVE ~In(queues[l], m)
    <3>1. In(queues[l], m) => entry[m].key = l
      BY <1>1 DEF InPlace
    <3>2. entry[m].key # l
      BY <1>0, <2>3, InMemoryQueueAssumption DEF Unused
    <3> QED
      BY <3>1, <3>2
  <2>4. ~Waiting(m)
    BY <1>1, <2>3, WaitingIs
  <2> QED
    BY <2>1, <2>2, <2>4
<1>4. /\ r \in Seq(Messages) /\ Once(r) /\ \A x : In(r, x) <=> In(q, x) \/ x = m
      /\ Len(r) = Len(q) + 1 /\ r[Len(q) + 1] = m /\ \A i \in 1..Len(q) : r[i] = q[i]
  <2>1. Once(q) /\ ~In(q, m)
    BY <1>1, <1>3, WaitingIs DEF InPlace
  <2> QED
    BY <1>2, <2>1, AppendOnce, AppendProperties
<1> HIDE DEF r, row
<1>5. \A x \in Messages : entry'[x] = IF x = m THEN row ELSE entry[x]
  BY <1>0, <1>1 DEF DequesTyped
<1>r. row.key = k /\ row.attempt = 0 /\ row.due = clock + d
  BY DEF row
<1>6. \A l \in QueueKeys : queues'[l] = IF l = k THEN r ELSE queues[l]
  BY <1>0, <1>1 DEF DequesTyped
<1>7. DequesTyped'
  <2>1. arrival' \in [Messages -> Nat]
    BY <1>0, <1>1, <1>2 DEF DequesTyped
  <2> QED
    BY <1>0, <1>1, <1>2, <1>4, <2>1 DEF DequesTyped
<1>8. InPlace'
  <2>1. \A l \in QueueKeys : Once(queues'[l])
    BY <1>1, <1>4, <1>6 DEF InPlace
  <2>2. \A l \in QueueKeys : \A x \in Messages :
           In(queues'[l], x) => entry'[x].key = l /\ x \notin delivered'
    BY <1>0, <1>1, <1>3, <1>4, <1>5, <1>r, <1>6, WaitingIs DEF InPlace
  <2>3. \A x \in delivered' : entry'[x].key # NoKey
    BY <1>0, <1>1, <1>3, <1>5 DEF InPlace, DequesTyped, Unused
  <2>4. \A x \in Messages : entry'[x].key = NoKey => entry'[x].attempt = 0
    BY <1>1, <1>5, <1>r DEF InPlace, Unused
  <2> QED
    BY <2>1, <2>2, <2>3, <2>4 DEF InPlace, Unused
<1>9. UsedMsgs' = UsedMsgs \union {m} /\ m \notin UsedMsgs
  BY <1>0, <1>1, <1>5, <1>r DEF UsedMsgs, Unused
<1>10. IsFiniteSet(UsedMsgs') /\ Cardinality(UsedMsgs') = c + 1
  BY <1>1, <1>9, FS_AddElement DEF InTurn
<1>11. InTurn'
  <2>1. \A x \in Messages : x # m => arrival'[x] = arrival[x]
    BY <1>0, <1>1 DEF DequesTyped
  <2>2. arrival'[m] = IF d > 0 THEN 0 ELSE c + 1
    BY <1>0, <1>1, <1>3 DEF DequesTyped
  <2>3. \A x \in Messages : arrival[x] > 0 => arrival[x] <= c /\ entry[x].due <= clock /\ entry[x].key # NoKey
    BY <1>1 DEF InTurn, IsAvailable, Unused
  <2>4. \A x \in Messages : arrival[x] \in Nat
    BY <1>1 DEF DequesTyped
  <2>5. ASSUME NEW x \in Messages, arrival'[x] > 0
        PROVE  entry'[x].due <= clock' /\ entry'[x].key # NoKey /\ arrival'[x] <= c + 1
    <3>1. CASE x = m
      <4>1. d = 0 /\ clock \in Nat
        BY <1>1, <2>2, <2>5, <3>1 DEF DequesTyped
      <4> QED
        BY <1>0, <1>1, <1>2, <1>5, <1>r, <2>2, <3>1, <4>1
    <3>2. CASE x # m
      <4>1. arrival[x] > 0 /\ arrival'[x] = arrival[x]
        BY <2>1, <2>5, <3>2
      <4> QED
        BY <1>0, <1>2, <1>5, <2>3, <2>4, <3>2, <4>1
    <3> QED
      BY <3>1, <3>2
  <2>6. ASSUME NEW l \in QueueKeys, NEW i \in DOMAIN queues'[l], NEW h \in DOMAIN queues'[l],
               i < h, arrival'[queues'[l][i]] > 0, arrival'[queues'[l][h]] > 0
        PROVE  arrival'[queues'[l][i]] <= arrival'[queues'[l][h]]
    <3>1. CASE l # k
      <4>1. queues'[l] = queues[l] /\ queues[l] \in Seq(Messages)
        BY <1>1, <1>6, <3>1 DEF DequesTyped
      <4>2. \A j \in DOMAIN queues[l] : queues[l][j] \in Messages /\ queues[l][j] # m
        BY <1>1, <1>3, <4>1, WaitingIs DEF In
      <4>3. arrival'[queues[l][i]] = arrival[queues[l][i]] /\ arrival'[queues[l][h]] = arrival[queues[l][h]]
        BY <2>1, <4>1, <4>2
      <4> QED
        BY <1>1, <2>6, <4>1, <4>3 DEF InTurn
    <3>2. CASE l = k
      <4>1. queues'[l] = r /\ i \in 1..(Len(q) + 1) /\ h \in 1..(Len(q) + 1)
        BY <1>4, <1>6, <3>2
      <4>2. i \in 1..Len(q)
        BY <1>2, <2>6, <4>1
      <4>3. \A j \in 1..Len(q) : r[j] = q[j] /\ q[j] \in Messages /\ q[j] # m
        BY <1>1, <1>2, <1>3, <1>4, WaitingIs DEF In
      <4>4. arrival'[r[i]] = arrival[q[i]] /\ q[i] \in Messages
        BY <2>1, <4>2, <4>3
      <4>5. CASE h = Len(q) + 1
        <5>1. r[h] = m /\ arrival'[m] = c + 1
          BY <1>1, <1>4, <2>2, <2>6, <3>2, <4>1, <4>5
        <5>2. arrival[q[i]] <= c /\ arrival[q[i]] \in Nat
          BY <2>3, <2>4, <2>6, <4>1, <4>4
        <5> QED
          BY <1>2, <4>1, <4>4, <5>1, <5>2
      <4>6. CASE h \in 1..Len(q)
        <5>1. arrival'[r[h]] = arrival[q[h]]
          BY <2>1, <4>3, <4>6
        <5>2. i \in DOMAIN q /\ h \in DOMAIN q
          BY <1>2, <4>2, <4>6
        <5> QED
          BY <1>1, <2>6, <4>1, <4>4, <5>1, <5>2 DEF InTurn
      <4> QED
        BY <1>2, <4>1, <4>5, <4>6
    <3> QED
      BY <3>1, <3>2
  <2> QED
    BY <1>10, <2>5, <2>6 DEF InTurn, IsAvailable, Unused
<1>12. MemoryStep
  <2>1. \A x : Waiting(x)' <=> Waiting(x) \/ x = m
    <3>1. \A x : Waiting(x)' <=> In(r, x) \/ \E l \in QueueKeys : l # k /\ In(queues[l], x)
      BY <1>0, <1>1, WaitingChanges
    <3> QED
      BY <1>4, <3>1 DEF Waiting, In
  <2>2. \A x \in Messages : x # m => MemoryStage(x)' = MemoryStage(x)
    BY <1>0, <1>5, <2>1 DEF MemoryStage, Unused
  <2>3. MemoryStage(m) = "unused" /\ MemoryStage(m)' = "pending"
    BY <1>0, <1>1, <1>5, <1>r, <2>1 DEF MemoryStage, Unused
  <2>4. MemoryContract!Move(m, "unused", "pending")
    BY <2>2, <2>3, OneMoves
  <2>5. entry[m].attempt = 0
    BY <1>0, <1>1 DEF InPlace
  <2>6. \A x \in Messages : entry'[x].attempt = entry[x].attempt
    BY <1>5, <1>r, <2>5
  <2>7. MemoryContract!Enqueue(m)
    BY <2>4, <2>6 DEF MemoryContract!Enqueue
  <2> QED
    BY <2>7 DEF MemoryStep, MemoryContract!QueueNext
<1> QED
  BY <1>7, <1>8, <1>11, <1>12 DEF DequeInv

\* The row table and the deques stay, and a message settles, or time passes.
LEMMA TickKeeps ==
  ASSUME DequeInv, Tick
  PROVE  DequeInv' /\ MemoryStep
<1>1. /\ DequesTyped /\ InPlace /\ InTurn
      /\ UNCHANGED <<queues, delivered, entry, arrival>> /\ clock' = clock + 1
  BY DEF DequeInv, Tick
<1>2. DequesTyped'
  BY <1>1 DEF DequesTyped
<1>3. InPlace'
  BY <1>1 DEF InPlace, Unused
<1>4. InTurn'
  <2>1. UsedMsgs' = UsedMsgs
    BY <1>1 DEF UsedMsgs, Unused
  <2>2. ASSUME NEW x \in Messages, arrival[x] > 0 PROVE entry[x].due <= clock + 1
    <3>1. entry[x].due <= clock
      BY <1>1, <2>2 DEF InTurn, IsAvailable
    <3>2. entry[x].due \in Nat /\ clock \in Nat
      BY <1>1, RowFields DEF DequesTyped
    <3> QED
      BY <3>1, <3>2
  <2> QED
    BY <1>1, <2>1, <2>2 DEF InTurn, IsAvailable, Unused
<1>5. UNCHANGED MemoryContract!queueVars
  BY <1>1 DEF MemoryContract!queueVars, MemoryStage, Waiting, Unused
<1> QED
  BY <1>2, <1>3, <1>4, <1>5 DEF DequeInv, MemoryStep

LEMMA AckKeeps ==
  ASSUME DequeInv, NEW k \in QueueKeys, NEW m \in Messages, Ack(k, m)
  PROVE  DequeInv' /\ MemoryStep
<1>1. /\ DequesTyped /\ InPlace /\ InTurn /\ m \in delivered
      /\ UNCHANGED <<queues, entry, arrival, clock>> /\ delivered' = delivered \ {m}
  BY DEF DequeInv, Ack
<1>2. DequesTyped'
  BY <1>1 DEF DequesTyped
<1>3. InPlace'
  BY <1>1 DEF InPlace, Unused
<1>4. InTurn'
  <2>1. UsedMsgs' = UsedMsgs
    BY <1>1 DEF UsedMsgs, Unused
  <2> QED
    BY <1>1, <2>1 DEF InTurn, IsAvailable, Unused
<1>5. MemoryStep
  <2>1. ~Unused(m) /\ ~Waiting(m)
    BY <1>1, WaitingIs DEF InPlace
  <2>2. \A x \in Messages : /\ Waiting(x)' <=> Waiting(x)
                            /\ Unused(x)' <=> Unused(x)
                            /\ x # m => (x \in delivered' <=> x \in delivered)
    BY <1>1 DEF Waiting, Unused
  <2>3. /\ MemoryStage(m) = "inflight" /\ MemoryStage(m)' = "gone"
        /\ \A x \in Messages : x # m => MemoryStage(x)' = MemoryStage(x)
    BY <1>1, <2>1, <2>2 DEF MemoryStage
  <2>4. MemoryContract!Move(m, "inflight", "gone")
    BY <2>3, OneMoves
  <2>5. MemoryContract!Ack(m)
    BY <1>1, <2>4 DEF MemoryContract!Ack
  <2> QED
    BY <2>5 DEF MemoryStep, MemoryContract!QueueNext
<1> QED
  BY <1>2, <1>3, <1>4, <1>5 DEF DequeInv

\* What is put in front of a deque moves the others one place.
LEMMA PrependShifts ==
  ASSUME NEW s \in Seq(Messages), NEW m \in Messages
  PROVE  /\ DOMAIN (<<m>> \o s) = 1 .. Len(s) + 1
         /\ (<<m>> \o s)[1] = m
         /\ \A i \in 2 .. Len(s) + 1 : i - 1 \in DOMAIN s /\ (<<m>> \o s)[i] = s[i - 1]
<1>1. <<m>> \in Seq(Messages) /\ Len(<<m>>) = 1 /\ <<m>>[1] = m /\ Len(s) \in Nat
  OBVIOUS
<1>2. /\ <<m>> \o s \in Seq(Messages) /\ Len(<<m>> \o s) = 1 + Len(s)
      /\ \A i \in 1 .. 1 + Len(s) : (<<m>> \o s)[i] = IF i <= 1 THEN <<m>>[i] ELSE s[i - 1]
  BY <1>1, ConcatProperties
<1> HIDE <1>1
<1> DEFINE r == <<m>> \o s
<1> HIDE DEF r
<1>3. /\ r \in Seq(Messages) /\ Len(r) = 1 + Len(s) /\ Len(s) \in Nat
      /\ \A i \in 1 .. 1 + Len(s) : r[i] = IF i <= 1 THEN m ELSE s[i - 1]
  BY <1>1, <1>2 DEF r
<1>4. /\ DOMAIN r = 1 .. Len(s) + 1 /\ r[1] = m
      /\ \A i \in 2 .. Len(s) + 1 : i - 1 \in DOMAIN s /\ r[i] = s[i - 1]
  BY <1>3
<1> QED
  BY <1>4 DEF r

LEMMA NackKeeps ==
  ASSUME DequeInv, NEW k \in QueueKeys, NEW m \in Messages,
         NEW d \in Delays, NEW requeue \in BOOLEAN, Nack(k, m, requeue, d)
  PROVE  DequeInv' /\ MemoryStep
<1> DEFINE q == queues[k]
           r == IF requeue THEN <<m>> \o q ELSE q
<1>0. /\ m \in delivered /\ entry[m].key = k /\ delivered' = delivered \ {m}
      /\ entry' = [entry EXCEPT ![m] = [key |-> k, attempt |-> @.attempt + 1,
                                        due |-> IF requeue THEN clock + d ELSE @.due]]
      /\ queues' = IF requeue THEN [queues EXCEPT ![k] = <<m>> \o q] ELSE queues
      /\ arrival' = [arrival EXCEPT ![m] = 0]
      /\ clock' = clock
  BY DEF Nack
<1>1. DequesTyped /\ InPlace /\ InTurn /\ k # NoKey /\ d \in Nat /\ q \in Seq(Messages)
  BY InMemoryQueueAssumption DEF DequeInv, Delays, DequesTyped
<1>2. ~Waiting(m) /\ ~Unused(m)
  BY <1>0, <1>1, WaitingIs DEF InPlace
<1>3. r \in Seq(Messages) /\ Once(r) /\ \A x : In(r, x) <=> In(q, x) \/ (requeue /\ x = m)
  <2>1. Once(q) /\ ~In(q, m)
    BY <1>1, <1>2, WaitingIs DEF InPlace
  <2>2. CASE requeue
    BY <1>1, <2>1, <2>2, PrependOnce
  <2>3. CASE ~requeue
    BY <1>1, <2>1, <2>3
  <2> QED
    BY <2>2, <2>3
<1>4. /\ queues' = [queues EXCEPT ![k] = r]
      /\ \A l \in QueueKeys : queues'[l] = IF l = k THEN r ELSE queues[l]
  BY <1>0, <1>1 DEF DequesTyped
<1>5. /\ \A x \in Messages : x # m => entry'[x] = entry[x] /\ arrival'[x] = arrival[x]
      /\ arrival'[m] = 0
  BY <1>0, <1>1 DEF DequesTyped
<1>6. /\ entry'[m].key = k /\ entry'[m].attempt = entry[m].attempt + 1
      /\ entry' \in [Messages -> Row]
  <2>1. entry[m] \in Row /\ clock \in Nat
    BY <1>1 DEF DequesTyped
  <2> DEFINE n == entry[m].attempt + 1
             due == IF requeue THEN clock + d ELSE entry[m].due
             row == [key |-> k, attempt |-> n, due |-> due]
  <2>2. n \in Nat /\ due \in Nat
    BY <1>1, <2>1, RowFields
  <2>3. entry' = [entry EXCEPT ![m] = row]
    BY <1>0
  <2> HIDE DEF n, due
  <2>4. row \in Row /\ row.key = k /\ row.attempt = n
    BY <2>2 DEF Row
  <2> HIDE DEF row
  <2>5. entry'[m] = row /\ entry' \in [Messages -> Row]
    BY <1>1, <2>3, <2>4 DEF DequesTyped
  <2> QED
    BY <2>4, <2>5 DEF n
<1>7. \A x \in Messages : Unused(x)' <=> Unused(x)
  BY <1>1, <1>2, <1>5, <1>6 DEF Unused
<1>8. DequesTyped'
  <2>1. arrival' \in [Messages -> Nat]
    BY <1>0, <1>1 DEF DequesTyped
  <2>2. queues' \in [QueueKeys -> Seq(Messages)]
    BY <1>1, <1>3, <1>4 DEF DequesTyped
  <2> QED
    BY <1>0, <1>1, <1>6, <2>1, <2>2 DEF DequesTyped
<1>9. InPlace'
  <2>1. \A l \in QueueKeys : Once(queues'[l])
    BY <1>1, <1>3, <1>4 DEF InPlace
  <2>2. ASSUME NEW l \in QueueKeys, NEW x \in Messages, In(queues'[l], x)
        PROVE  entry'[x].key = l /\ x \notin delivered'
    <3>1. CASE x = m
      <4>1. l = k
        BY <1>1, <1>2, <1>4, <2>2, <3>1, WaitingIs
      <4> QED
        BY <1>0, <1>6, <3>1, <4>1
    <3>2. CASE x # m
      <4>1. In(queues[l], x)
        BY <1>3, <1>4, <2>2, <3>2
      <4> QED
        BY <1>0, <1>1, <1>5, <3>2, <4>1 DEF InPlace
    <3> QED
      BY <3>1, <3>2
  <2>3. \A x \in delivered' : x \in delivered /\ x \in Messages
    BY <1>0, <1>1 DEF DequesTyped
  <2>4. \A x \in Messages : Unused(x)' => entry'[x].attempt = 0
    BY <1>1, <1>2, <1>5, <1>7 DEF InPlace
  <2>5. \A x \in delivered' : ~Unused(x)'
    BY <1>1, <1>7, <2>3 DEF InPlace
  <2> QED
    BY <2>1, <2>2, <2>4, <2>5 DEF InPlace
<1>10. InTurn'
  <2>1. UsedMsgs' = UsedMsgs
    BY <1>7 DEF UsedMsgs
  <2>2. ASSUME NEW x \in Messages, arrival'[x] > 0
        PROVE  /\ IsAvailable(x)' /\ ~Unused(x)'
               /\ arrival'[x] <= Cardinality(UsedMsgs)'
    <3>1. x # m /\ arrival[x] > 0 /\ entry'[x] = entry[x] /\ arrival'[x] = arrival[x]
      BY <1>5, <2>2
    <3> QED
      BY <1>0, <1>1, <2>1, <3>1 DEF InTurn, IsAvailable, Unused
  <2>3. ASSUME NEW l \in QueueKeys, NEW i \in DOMAIN queues'[l], NEW h \in DOMAIN queues'[l],
               i < h, arrival'[queues'[l][i]] > 0, arrival'[queues'[l][h]] > 0
        PROVE  arrival'[queues'[l][i]] <= arrival'[queues'[l][h]]
    <3>0. /\ queues'[l][i] \in Messages /\ queues'[l][h] \in Messages
          /\ queues'[l][i] # m /\ queues'[l][h] # m
          /\ arrival'[queues'[l][i]] = arrival[queues'[l][i]]
          /\ arrival'[queues'[l][h]] = arrival[queues'[l][h]]
      BY <1>5, <1>8, <2>3 DEF DequesTyped
    <3>1. CASE queues'[l] = queues[l]
      BY <1>1, <2>3, <3>0, <3>1 DEF InTurn
    <3>2. CASE l = k /\ queues'[l] = <<m>> \o q
      <4>1. i # 1 /\ h # 1
        BY <1>1, <3>0, <3>2, PrependShifts
      <4>2. i \in 2 .. Len(q) + 1 /\ h \in 2 .. Len(q) + 1
        BY <1>1, <2>3, <3>2, <4>1, PrependShifts
      <4>3. /\ i - 1 \in DOMAIN q /\ queues'[l][i] = q[i - 1]
            /\ h - 1 \in DOMAIN q /\ queues'[l][h] = q[h - 1] /\ i - 1 < h - 1
        BY <1>1, <2>3, <3>2, <4>2, PrependShifts
      <4> QED
        BY <1>1, <2>3, <3>0, <4>3 DEF InTurn
    <3> QED
      BY <1>4, <3>1, <3>2
  <2> QED
    BY <1>1, <2>1, <2>2, <2>3 DEF InTurn
<1>11. MemoryStep
  <2> DEFINE to == IF requeue THEN "pending" ELSE "gone"
  <2>1. \A x \in Messages : Waiting(x)' <=> Waiting(x) \/ (requeue /\ x = m)
    <3>1. \A x : Waiting(x)' <=> In(r, x) \/ \E l \in QueueKeys : l # k /\ In(queues[l], x)
      BY <1>1, <1>4, WaitingChanges
    <3> QED
      BY <1>3, <3>1 DEF Waiting, In
  <2>2. /\ MemoryStage(m) = "inflight" /\ MemoryStage(m)' = to
        /\ \A x \in Messages : x # m => MemoryStage(x)' = MemoryStage(x)
    BY <1>0, <1>2, <1>7, <2>1 DEF MemoryStage
  <2>3. MemoryContract!Move(m, "inflight", to)
    BY <2>2, OneMoves
  <2>4. /\ [x \in Messages |-> entry'[x].attempt]
             = [[x \in Messages |-> entry[x].attempt] EXCEPT ![m] = @ + 1]
    BY <1>5, <1>6
  <2>5. MemoryContract!Nack(m, requeue)
    BY <2>3, <2>4 DEF MemoryContract!Nack
  <2> QED
    BY <2>5 DEF MemoryStep, MemoryContract!QueueNext
<1> QED
  BY <1>8, <1>9, <1>10, <1>11 DEF DequeInv

\* What a dequeue of a key hands out: the first message that is visible.
LEMMA FirstIs ==
  ASSUME NEW q \in Seq(Messages), \E h \in DOMAIN q : IsAvailable(q[h])
  PROVE  /\ FirstAvailable(q) \in DOMAIN q
         /\ IsAvailable(q[FirstAvailable(q)])
         /\ \A h \in DOMAIN q :
               IsAvailable(q[h]) => FirstAvailable(q) <= h
<1> DEFINE S == {h \in DOMAIN q : IsAvailable(q[h])}
<1>1. S \in SUBSET Nat /\ S # {} /\ DOMAIN q = 1 .. Len(q)
  OBVIOUS
<1>2. PICK i \in S : \A h \in S : i <= h
  <2> DEFINE Less == {pair \in Nat \X Nat : pair[1] < pair[2]}
  <2>1. IsWellFoundedOn(Less, Nat)
    BY NatLessThanWellFounded, Zenon DEF OpToRel
  <2> HIDE DEF S
  <2>2. PICK i \in S : \A h \in S : <<h, i>> \notin Less
    <3> HIDE DEF Less
    <3> QED
      BY <1>1, <2>1, WFMin
  <2>3. ASSUME NEW h \in S, h < i PROVE FALSE
    <3>1. <<h, i>> \in Nat \X Nat /\ <<h, i>>[1] = h /\ <<h, i>>[2] = i
      BY <1>1
    <3>2. <<h, i>> \in Less
      BY <2>3, <3>1
    <3> QED
      BY <2>2, <3>2
  <2>4. ASSUME NEW h \in S PROVE i <= h
    <3>1. i \in Nat /\ h \in Nat
      BY <1>1
    <3> QED
      BY <2>3, <3>1
  <2> QED
    BY <2>4
<1>3. i \in DOMAIN q /\ IsAvailable(q[i]) /\ \A h \in 1 .. i - 1 : ~IsAvailable(q[h])
  BY <1>1, <1>2
<1> DEFINE f == FirstAvailable(q)
<1>4. f \in DOMAIN q /\ IsAvailable(q[f]) /\ \A h \in 1 .. f - 1 : ~IsAvailable(q[h])
  BY <1>3 DEF FirstAvailable
<1> HIDE DEF f
<1>5. ASSUME NEW h \in DOMAIN q, IsAvailable(q[h]) PROVE f <= h
  BY <1>1, <1>4, <1>5
<1> QED
  BY <1>4, <1>5 DEF f

\* Dequeue takes the first visible message of the deque and turns the ones
\* before it to the end; those are not visible, so none of them is ordinary.
LEMMA DequeueTakes ==
  ASSUME DequeInv, NEW k \in QueueKeys, Dequeue(k)
  PROVE  \E i \in DOMAIN queues[k] :
            /\ i = FirstAvailable(queues[k])
            /\ \A h \in DOMAIN queues[k] : IsAvailable(queues[k][h]) => i <= h
            /\ queues' = [queues EXCEPT ![k] = Rotated(queues[k], i)]
            /\ delivered' = delivered \union {queues[k][i]}
            /\ UNCHANGED <<entry, arrival, clock>>
<1>1. queues[k] \in Seq(Messages)
  BY DEF DequeInv, DequesTyped
<1>2. \E h \in DOMAIN queues[k] : IsAvailable(queues[k][h])
  BY DEF Dequeue
<1>3. /\ FirstAvailable(queues[k]) \in DOMAIN queues[k]
      /\ \A h \in DOMAIN queues[k] :
            IsAvailable(queues[k][h]) => FirstAvailable(queues[k]) <= h
  BY <1>1, <1>2, FirstIs
<1>4. LET i == FirstAvailable(queues[k])
      IN  /\ queues' = [queues EXCEPT ![k] = Rotated(queues[k], i)]
          /\ delivered' = delivered \union {queues[k][i]}
          /\ UNCHANGED <<entry, arrival, clock>>
  BY DEF Dequeue
<1> QED
  BY <1>3, <1>4

LEMMA DequeueKeeps ==
  ASSUME DequeInv, NEW k \in QueueKeys, Dequeue(k)
  PROVE  DequeInv' /\ MemoryStep
<1>1. DequesTyped /\ InPlace /\ InTurn /\ queues[k] \in Seq(Messages) /\ k # NoKey
  BY InMemoryQueueAssumption DEF DequeInv, DequesTyped
<1> DEFINE q == queues[k]
<1>2. PICK i \in DOMAIN q :
          /\ \A h \in DOMAIN q : IsAvailable(q[h]) => i <= h
          /\ queues' = [queues EXCEPT ![k] = Rotated(q, i)]
          /\ delivered' = delivered \union {q[i]}
          /\ UNCHANGED <<entry, arrival, clock>>
  BY DequeueTakes
<1>3. PICK m \in Messages : m = q[i]
  BY <1>1
<1>4. /\ Waiting(m) /\ m \notin delivered /\ entry[m].key = k
      /\ \A l \in QueueKeys : l # k => ~In(queues[l], m)
      /\ delivered' = delivered \union {m}
  BY <1>1, <1>2, <1>3, WaitingIs DEF InPlace, In
<1> DEFINE r == Rotated(q, i)
<1>5. /\ r \in Seq(Messages) /\ Once(r)
      /\ \A x : In(r, x) <=> In(q, x) /\ x # m
      /\ \A j, l \in DOMAIN r : j < l =>
            \E a, b \in DOMAIN q : r[j] = q[a] /\ r[l] = q[b] /\ (a < b \/ b < i)
  <2>1. Turned(q, i, r)
    BY <1>1, RotatedIs DEF InPlace
  <2> HIDE DEF r
  <2> QED
    BY <1>3, <2>1 DEF Turned
<1> HIDE DEF r
<1>6. \A l \in QueueKeys : queues'[l] = IF l = k THEN r ELSE queues[l]
  BY <1>1, <1>2 DEF DequesTyped, r
<1>7. \A x \in Messages : Unused(x)' <=> Unused(x)
  BY <1>2 DEF Unused
<1>8. DequesTyped'
  <2>1. queues' \in [QueueKeys -> Seq(Messages)]
    BY <1>1, <1>2, <1>5 DEF DequesTyped, r
  <2> QED
    BY <1>1, <1>2, <1>3, <2>1 DEF DequesTyped
<1>9. InPlace'
  <2>1. \A l \in QueueKeys : Once(queues'[l])
    BY <1>1, <1>5, <1>6 DEF InPlace
  <2>2. ASSUME NEW l \in QueueKeys, NEW x \in Messages, In(queues'[l], x)
        PROVE  entry'[x].key = l /\ x \notin delivered'
    <3>1. In(queues[l], x) /\ x # m
      BY <1>4, <1>5, <1>6, <2>2
    <3> QED
      BY <1>1, <1>2, <1>4, <3>1 DEF InPlace
  <2>3. \A x \in delivered' : ~Unused(x)'
    BY <1>1, <1>2, <1>4 DEF InPlace, Unused
  <2>4. \A x \in Messages : Unused(x)' => entry'[x].attempt = 0
    BY <1>1, <1>2, <1>7 DEF InPlace
  <2> QED
    BY <2>1, <2>2, <2>3, <2>4 DEF InPlace
<1>10. InTurn'
  <2>1. UsedMsgs' = UsedMsgs
    BY <1>7 DEF UsedMsgs
  <2>2. \A x \in Messages : arrival'[x] > 0 =>
           /\ IsAvailable(x)' /\ ~Unused(x)'
           /\ arrival'[x] <= Cardinality(UsedMsgs)'
    BY <1>1, <1>2, <1>7, <2>1 DEF InTurn, IsAvailable
  <2>3. ASSUME NEW l \in QueueKeys, NEW j \in DOMAIN queues'[l], NEW h \in DOMAIN queues'[l],
               j < h, arrival[queues'[l][j]] > 0, arrival[queues'[l][h]] > 0
        PROVE  arrival[queues'[l][j]] <= arrival[queues'[l][h]]
    <3>1. CASE l # k
      BY <1>1, <1>6, <2>3, <3>1 DEF InTurn
    <3>2. CASE l = k
      <4>1. PICK a \in DOMAIN q, b \in DOMAIN q :
               r[j] = q[a] /\ r[h] = q[b] /\ (a < b \/ b < i)
        BY <1>5, <1>6, <2>3, <3>2
      <4>2. queues'[l][j] = q[a] /\ queues'[l][h] = q[b]
        BY <1>6, <3>2, <4>1
      <4>3. IsAvailable(q[b])
        BY <1>1, <2>3, <4>2 DEF InTurn
      <4>4. a < b
        BY <1>1, <1>2, <4>1, <4>3
      <4> QED
        BY <1>1, <2>3, <4>2, <4>4 DEF InTurn
    <3> QED
      BY <3>1, <3>2
  <2> QED
    BY <1>1, <1>2, <2>1, <2>2, <2>3 DEF InTurn
<1>11. MemoryStep
  <2>1. \A x \in Messages : Waiting(x)' <=> Waiting(x) /\ x # m
    <3>1. \A x : Waiting(x)' <=> In(r, x) \/ \E l \in QueueKeys : l # k /\ In(queues[l], x)
      BY <1>1, <1>2, WaitingChanges DEF r
    <3>2. ASSUME NEW x \in Messages
          PROVE  (In(queues[k], x) /\ x # m) \/ (\E l \in QueueKeys : l # k /\ In(queues[l], x))
                   <=> (\E l \in QueueKeys : In(queues[l], x)) /\ x # m
      BY <1>4
    <3> QED
      BY <1>1, <1>5, <3>1, <3>2, WaitingIs
  <2>2. \A x \in Messages : x # m => (x \in delivered' <=> x \in delivered)
    BY <1>4
  <2>3. m \in delivered' /\ ~Unused(m)
    BY <1>1, <1>2, <1>4 DEF Unused
  <2>4. /\ MemoryStage(m) = "pending" /\ MemoryStage(m)' = "inflight"
        /\ \A x \in Messages : x # m => MemoryStage(x)' = MemoryStage(x)
    BY <1>3, <1>4, <1>7, <2>1, <2>2, <2>3 DEF MemoryStage
  <2>5. MemoryContract!Move(m, "pending", "inflight")
    BY <1>3, <2>4, OneMoves
  <2>6. MemoryContract!Dequeue(m)
    BY <1>2, <2>5 DEF MemoryContract!Dequeue
  <2> QED
    BY <1>3, <2>6 DEF MemoryStep, MemoryContract!QueueNext
<1> QED
  BY <1>8, <1>9, <1>10, <1>11 DEF DequeInv

\* Only a dequeue delivers, and what it delivers was enqueued first.
FirstServed ==
    \A m \in delivered' \ delivered : \A n \in Messages :
        /\ arrival[m] > 0 /\ arrival[n] > 0
        /\ Waiting(n) /\ entry[n].key = entry[m].key
        => arrival[m] <= arrival[n]

LEMMA DequeueServes ==
  ASSUME DequeInv, NEW k \in QueueKeys, Dequeue(k)
  PROVE  FirstServed
<1>1. DequesTyped /\ InPlace /\ InTurn /\ queues[k] \in Seq(Messages)
  BY DEF DequeInv, DequesTyped
<1>2. PICK i \in DOMAIN queues[k] :
          /\ \A h \in DOMAIN queues[k] : IsAvailable(queues[k][h]) => i <= h
          /\ delivered' = delivered \union {queues[k][i]}
  BY DequeueTakes
<1> SUFFICES ASSUME NEW n \in Messages, arrival[queues[k][i]] > 0, arrival[n] > 0,
                    Waiting(n), entry[n].key = entry[queues[k][i]].key
             PROVE  arrival[queues[k][i]] <= arrival[n]
  BY <1>2 DEF FirstServed
<1>3. queues[k][i] \in Messages /\ entry[queues[k][i]].key = k
  BY <1>1 DEF InPlace, In
<1>4. PICK h \in DOMAIN queues[k] : queues[k][h] = n
  BY <1>1, <1>3, WaitingIs DEF In
<1>5. i <= h
  BY <1>1, <1>2, <1>4 DEF InTurn
<1>6. CASE i = h
  BY <1>1, <1>4, <1>6 DEF DequesTyped
<1>7. CASE i < h
  BY <1>1, <1>4, <1>7 DEF InTurn
<1> QED
  BY <1>1, <1>5, <1>6, <1>7

LEMMA MemoryKeeps ==
  ASSUME DequeInv, [MemoryNext]_memoryVars
  PROVE  DequeInv' /\ MemoryStep /\ (MemoryNext => FirstServed)
<1>1. ASSUME NEW k \in QueueKeys, Dequeue(k) PROVE DequeInv' /\ MemoryStep /\ FirstServed
  BY <1>1, DequeueKeeps, DequeueServes
<1>2. ASSUME NEW k \in QueueKeys, NEW m \in Messages, NEW d \in Delays, Enqueue(k, m, d)
      PROVE  DequeInv' /\ MemoryStep /\ FirstServed
  <2>1. delivered' = delivered
    BY <1>2 DEF Enqueue
  <2>2. DequeInv' /\ MemoryStep
    BY <1>2, EnqueueKeeps
  <2> QED
    BY <2>1, <2>2 DEF FirstServed
<1>3. ASSUME NEW k \in QueueKeys, NEW m \in Messages, Ack(k, m)
      PROVE  DequeInv' /\ MemoryStep /\ FirstServed
  <2>1. delivered' \subseteq delivered
    BY <1>3 DEF Ack
  <2>2. DequeInv' /\ MemoryStep
    BY <1>3, AckKeeps
  <2> QED
    BY <2>1, <2>2 DEF FirstServed
<1>4. ASSUME NEW k \in QueueKeys, NEW m \in Messages, NEW d \in Delays, NEW requeue \in BOOLEAN,
             Nack(k, m, requeue, d)
      PROVE  DequeInv' /\ MemoryStep /\ FirstServed
  <2>1. delivered' \subseteq delivered
    BY <1>4 DEF Nack
  <2>2. DequeInv' /\ MemoryStep
    BY <1>4, NackKeeps
  <2> QED
    BY <2>1, <2>2 DEF FirstServed
<1>5. ASSUME Tick PROVE DequeInv' /\ MemoryStep /\ FirstServed
  <2>1. delivered' = delivered
    BY <1>5 DEF Tick
  <2>2. DequeInv' /\ MemoryStep
    BY <1>5, TickKeeps
  <2> QED
    BY <2>1, <2>2 DEF FirstServed
<1>6. ASSUME UNCHANGED memoryVars PROVE DequeInv' /\ MemoryStep /\ FirstServed
  <2>1. UNCHANGED <<queues, delivered, entry, arrival, clock>>
    BY <1>6 DEF memoryVars
  <2>2. DequeInv'
    BY <2>1 DEF DequeInv, DequesTyped, InPlace, InTurn, UsedMsgs, Unused,
                IsAvailable
  <2>3. UNCHANGED MemoryContract!queueVars
    BY <2>1 DEF MemoryContract!queueVars, MemoryStage, Waiting, Unused
  <2> QED
    BY <2>1, <2>2, <2>3 DEF MemoryStep, FirstServed
<1> QED
  BY <1>1, <1>2, <1>3, <1>4, <1>5, <1>6 DEF MemoryNext

\* InMemoryQueueBackend's enqueue, dequeue, ack and nack keep the contract of
\* a queue: whatever is delayed, skipped and turned to the end of its deque,
\* no message is lost, doubled, or delivered while it is in flight.
THEOREM DequeKeepsContract == MemorySpec => MemoryImplementsContract
<1>1. MemoryInit => DequeInv /\ MemoryContract!QueueInit
  BY MemoryStarts
<1>2. DequeInv /\ [MemoryNext]_memoryVars
        => DequeInv' /\ [MemoryContract!QueueNext]_(MemoryContract!queueVars)
  BY MemoryKeeps DEF MemoryStep
<1> QED
  BY <1>1, <1>2, PTL DEF MemorySpec, MemoryImplementsContract, MemoryContract!QueueSpec

\* The scan of InMemoryQueueBackend.dequeue never reorders the messages that
\* were enqueued without a delay and never nacked: the oldest is served first.
THEOREM OrdinaryTrafficIsFifo == MemorySpec => VisibleFifo
<1>1. MemoryInit => DequeInv
  BY MemoryStarts
<1>2. DequeInv /\ [MemoryNext]_memoryVars => DequeInv' /\ [FirstServed]_memoryVars
  BY MemoryKeeps
<1> QED
  BY <1>1, <1>2, PTL DEF MemorySpec, VisibleFifo, FirstServed

-----------------------------------------------------------------------------
(* The loop of the worker *)

\* One queue, and a pass over all the tenants fits into one run_once.
PassFits == NumQueues = 1 /\ BurstLimit * NumTenants <= MaxMessages

LoopState == [pc : {"while", "for"}, queue : {1}, processed : 0 .. MaxMessages,
              tenants : SUBSET Tenants, burst : 0 .. BurstLimit, progressed : BOOLEAN]

LoopTyped ==
    /\ ready \in [Keys -> Nat] /\ hidden \in [Keys -> Nat]
    /\ passed \in [Keys -> Nat]
    /\ loop \in LoopState
    /\ loop.burst > 0 => loop.tenants # {}

Key(t) == <<1, t>>

\* A key that has nothing to hand out waits for nothing, and neither does one
\* that is just being served.
NotPassed ==
    \A t \in Tenants :
        (ready[Key(t)] = 0 \/ (IsFirst(t) /\ loop.burst > 0)) => passed[Key(t)] = 0

\* How many messages of other tenants can still be served before one of t.
Left(S) == BurstLimit * Cardinality(S)
Before(t) == {s \in loop.tenants : s < t}
Behind(t) == (t - 1) * BurstLimit
WholePassLeft == loop.processed + Left(loop.tenants) - loop.burst <= MaxMessages

Ahead(t) ==
    IF loop.processed = MaxMessages THEN Behind(t)
    ELSE IF loop.pc = "while"
         THEN IF loop.processed = 0 THEN Behind(t) ELSE 2 * Behind(t)
    ELSE IF t \notin loop.tenants
         THEN Left(loop.tenants) - loop.burst + 2 * Behind(t)
    ELSE Left(Before(t)) - (IF Before(t) = {} THEN 0 ELSE loop.burst)
           + (IF WholePassLeft THEN 0 ELSE Behind(t))

TurnComes ==
    \A t \in Tenants :
        ready[Key(t)] > 0 => passed[Key(t)] + Ahead(t) <= OvertakingBound

LoopInv == LoopTyped /\ NotPassed /\ TurnComes

-----------------------------------------------------------------------------
(* Counting the tenants that are ahead *)

LEMMA Parameters ==
  /\ NumTenants \in Nat /\ NumTenants >= 1 /\ BurstLimit \in Nat /\ BurstLimit >= 1
  /\ MaxMessages \in Nat /\ MaxMessages >= 1
  /\ Tenants = 1 .. NumTenants
  /\ IsFiniteSet(Tenants) /\ Cardinality(Tenants) = NumTenants
<1>1. NumTenants \in Nat /\ NumTenants >= 1 /\ BurstLimit \in Nat /\ BurstLimit >= 1
      /\ MaxMessages \in Nat /\ MaxMessages >= 1
  BY WorkerSchedulerAssumption
<1>2. Tenants = 1 .. NumTenants
  BY DEF Tenants
<1>3. IsFiniteSet(1 .. NumTenants) /\ Cardinality(1 .. NumTenants) = NumTenants
  BY <1>1, FS_Interval
<1> QED
  BY <1>1, <1>2, <1>3

LEMMA Times ==
  ASSUME NEW b \in Nat, NEW n \in Nat, NEW k \in Nat, n <= k
  PROVE  b * n \in Nat /\ b * n <= b * k /\ b * (n + 1) = b * n + b /\ n * b = b * n
<1>1. b * n \in Nat /\ b * (n + 1) = b * n + b /\ n * b = b * n
  OBVIOUS
<1>2. PICK j \in Nat : k = n + j
  <2>1. k - n \in Nat /\ k = n + (k - n)
    OBVIOUS
  <2> QED
    BY <2>1
<1>3. b * (n + j) = b * n + b * j /\ b * j \in Nat
  OBVIOUS
<1> QED
  BY <1>1, <1>2, <1>3

LEMMA LeftIs ==
  ASSUME NEW S \in SUBSET Tenants
  PROVE  /\ Left(S) \in Nat /\ (S = {} => Left(S) = 0) /\ (S # {} => Left(S) >= BurstLimit)
         /\ \A f \in S : Left(S \ {f}) = Left(S) - BurstLimit
         /\ \A R \in SUBSET S : Left(R) <= Left(S)
         /\ \A n \in Nat : S \subseteq 1 .. n => Left(S) <= BurstLimit * n
<1>1. IsFiniteSet(S) /\ Cardinality(S) \in Nat /\ BurstLimit \in Nat /\ BurstLimit >= 1
  BY Parameters, FS_Subset, FS_CardinalityType
<1>2. Left(S) \in Nat
  BY <1>1, Times DEF Left
<1>3. S = {} => Left(S) = 0
  BY <1>1, FS_EmptySet DEF Left
<1>4. ASSUME NEW f \in S PROVE Left(S \ {f}) = Left(S) - BurstLimit /\ Left(S) >= BurstLimit
  <2>1. Cardinality(S \ {f}) = Cardinality(S) - 1 /\ Cardinality(S) - 1 \in Nat
    <3>1. Cardinality(S \ {f}) = Cardinality(S) - 1 /\ IsFiniteSet(S \ {f})
      BY <1>1, <1>4, FS_RemoveElement
    <3> QED
      BY <3>1, FS_CardinalityType
  <2> DEFINE c == Cardinality(S) - 1
  <2>2. c \in Nat /\ Cardinality(S \ {f}) = c /\ Cardinality(S) = c + 1
    BY <1>1, <2>1
  <2> HIDE DEF c
  <2>3. BurstLimit * (c + 1) = BurstLimit * c + BurstLimit /\ BurstLimit * c \in Nat
    BY <1>1, <2>2, Times
  <2> QED
    BY <1>1, <2>2, <2>3 DEF Left
<1>5. ASSUME NEW R \in SUBSET S PROVE Left(R) <= Left(S)
  <2>1. IsFiniteSet(R) /\ Cardinality(R) <= Cardinality(S) /\ Cardinality(R) \in Nat
    BY <1>1, <1>5, FS_Subset, FS_CardinalityType
  <2> QED
    BY <1>1, <2>1, Times DEF Left
<1>6. ASSUME NEW n \in Nat, S \subseteq 1 .. n PROVE Left(S) <= BurstLimit * n
  <2>1. IsFiniteSet(1 .. n) /\ Cardinality(1 .. n) = n
    BY FS_Interval
  <2>2. Cardinality(S) <= n
    BY <1>6, <2>1, FS_Subset
  <2> QED
    BY <1>1, <2>2, Times DEF Left
<1> QED
  BY <1>2, <1>3, <1>4, <1>5, <1>6

LEMMA BehindIs ==
  ASSUME NEW t \in Tenants
  PROVE  /\ Behind(t) \in Nat /\ 3 * Behind(t) <= OvertakingBound
         /\ \A S \in SUBSET Tenants :
               t \notin S => Left(S) + 2 * Behind(t) <= OvertakingBound
         /\ \A S \in SUBSET Tenants : Left({s \in S : s < t}) <= Behind(t)
<1>1. /\ t - 1 \in Nat /\ NumTenants - 1 \in Nat /\ t - 1 <= NumTenants - 1
      /\ BurstLimit \in Nat /\ t \in Nat
  BY Parameters
<1> DEFINE d == BurstLimit * (NumTenants - 1)
<1>2. Behind(t) \in Nat /\ Behind(t) <= d /\ d \in Nat /\ Behind(t) = BurstLimit * (t - 1)
  BY <1>1, Times DEF Behind
<1>3. OvertakingBound = 3 * d
  BY <1>1 DEF OvertakingBound
<1>4. ASSUME NEW S \in SUBSET Tenants, t \notin S PROVE Left(S) <= d /\ Left(S) \in Nat
  <2>1. S \subseteq Tenants \ {t} /\ Tenants \ {t} \in SUBSET Tenants
    BY <1>4
  <2>2. Left(Tenants) = BurstLimit * NumTenants
    BY Parameters DEF Left
  <2>3. BurstLimit * ((NumTenants - 1) + 1) = d + BurstLimit
    BY <1>1, Times
  <2>4. BurstLimit * NumTenants = d + BurstLimit
    BY <1>1, <2>3, Parameters
  <2>5. Left(Tenants \ {t}) = d
    BY <1>1, <1>2, <2>2, <2>4, LeftIs
  <2> QED
    BY <2>1, <2>5, LeftIs
<1>5. ASSUME NEW S \in SUBSET Tenants PROVE Left({s \in S : s < t}) <= Behind(t)
  <2>1. {s \in S : s < t} \in SUBSET Tenants /\ {s \in S : s < t} \subseteq 1 .. t - 1
    <3>1. \A s \in S : s \in 1 .. NumTenants /\ (s < t => s \in 1 .. t - 1)
      BY <1>1, <1>5, Parameters
    <3> QED
      BY <1>5, <3>1
  <2> QED
    BY <1>1, <1>2, <2>1, LeftIs
<1> HIDE DEF d
<1>6. 3 * Behind(t) <= OvertakingBound
  BY <1>2, <1>3
<1>7. ASSUME NEW S \in SUBSET Tenants, t \notin S
      PROVE  Left(S) + 2 * Behind(t) <= OvertakingBound
  <2>1. Left(S) <= d /\ Left(S) \in Nat
    BY <1>4, <1>7
  <2> QED
    BY <2>1, <1>2, <1>3
<1> QED
  BY <1>2, <1>5, <1>6, <1>7

\* A tenant that has not been passed yet is in time.
LEMMA AheadIs ==
  ASSUME LoopTyped, NEW t \in Tenants
  PROVE  Ahead(t) \in Nat /\ Ahead(t) <= OvertakingBound
<1> DEFINE S == loop.tenants
<1>1. /\ S \in SUBSET Tenants /\ loop.burst \in Nat /\ loop.burst <= BurstLimit
      /\ loop.burst > 0 => S # {}
      /\ BurstLimit \in Nat
  BY Parameters DEF LoopTyped, LoopState
<1>2. Before(t) \in SUBSET Tenants /\ Before(t) = {s \in S : s < t}
  BY <1>1 DEF Before
<1>3. Left(S) \in Nat /\ Left(S) - loop.burst \in Nat
  BY <1>1, LeftIs
<1>4. /\ Left(Before(t)) \in Nat /\ Left(Before(t)) <= Behind(t)
      /\ Before(t) # {} => Left(Before(t)) >= BurstLimit
      /\ Before(t) = {} => Left(Before(t)) = 0
  BY <1>1, <1>2, LeftIs, BehindIs
<1>5. /\ Behind(t) \in Nat /\ 3 * Behind(t) <= OvertakingBound
      /\ t \notin S => Left(S) + 2 * Behind(t) <= OvertakingBound
  BY <1>1, BehindIs
<1>6. OvertakingBound \in Nat
  <2>1. NumTenants - 1 \in Nat /\ BurstLimit \in Nat
    BY Parameters
  <2>2. BurstLimit * (NumTenants - 1) \in Nat
    BY <2>1, Times
  <2>3. OvertakingBound = 3 * (BurstLimit * (NumTenants - 1))
    BY <2>1 DEF OvertakingBound
  <2> QED
    BY <2>2, <2>3
<1> QED
  BY <1>1, <1>3, <1>4, <1>5, <1>6 DEF Ahead

-----------------------------------------------------------------------------
(* The steps of the loop *)

LEMMA KeysAre ==
  ASSUME PassFits
  PROVE  /\ \A t \in Tenants : Key(t) \in Keys
         /\ \A k \in Keys : \E t \in Tenants : k = Key(t)
         /\ \A s, t : Key(s) = Key(t) => s = t
         /\ LoopTyped => \A t : <<loop.queue, t>> = Key(t)
<1>1. Queues = {1}
  BY DEF PassFits, Queues
<1>2. Keys = {1} \X Tenants
  BY <1>1 DEF Keys
<1>3. LoopTyped => loop.queue = 1
  BY DEF LoopTyped, LoopState
<1> QED
  BY <1>2, <1>3 DEF Key

\* A step keeps TurnComes when every tenant that waits was not passed, or has
\* as many messages less ahead as it was passed by.
Counted ==
    \A t \in Tenants : ready'[Key(t)] > 0 =>
        \/ passed'[Key(t)] = 0
        \/ /\ ready[Key(t)] > 0
           /\ passed'[Key(t)] + Ahead(t)' <= passed[Key(t)] + Ahead(t)

LEMMA CountedKeeps ==
  ASSUME PassFits, LoopTyped, LoopTyped', TurnComes, Counted
  PROVE  TurnComes'
<1> SUFFICES ASSUME NEW t \in Tenants, ready'[Key(t)] > 0
             PROVE  passed'[Key(t)] + Ahead(t)' <= OvertakingBound
  BY DEF TurnComes, OvertakingBound
<1>1. Ahead(t) \in Nat /\ Ahead(t)' \in Nat /\ Ahead(t)' <= OvertakingBound
  <2>1. Ahead(t) \in Nat
    BY AheadIs
  <2>2. (Ahead(t) \in Nat /\ Ahead(t) <= OvertakingBound)'
    BY AheadIs, PTL
  <2> QED
    BY <2>1, <2>2 DEF OvertakingBound
<1>2. /\ passed[Key(t)] \in Nat /\ passed'[Key(t)] \in Nat
      /\ OvertakingBound \in Int
  <2>1. BurstLimit \in Nat /\ NumTenants \in Nat
    BY Parameters
  <2> QED
    BY <2>1, KeysAre DEF LoopTyped, OvertakingBound
<1>3. ready[Key(t)] > 0 => passed[Key(t)] + Ahead(t) <= OvertakingBound
  BY DEF TurnComes
<1>4. \/ passed'[Key(t)] = 0
      \/ /\ ready[Key(t)] > 0
         /\ passed'[Key(t)] + Ahead(t)' <= passed[Key(t)] + Ahead(t)
  BY DEF Counted
<1> QED
  BY <1>1, <1>2, <1>3, <1>4

\* A message arrives, or its backoff ends: the loop does not move.
LEMMA ComesKeeps ==
  ASSUME PassFits, LoopInv, NEW k \in Keys,
         ready' = [ready EXCEPT ![k] = @ + 1], hidden' \in [Keys -> Nat],
         UNCHANGED <<loop, passed>>
  PROVE  LoopInv'
<1>1. LoopTyped /\ NotPassed /\ TurnComes
  BY DEF LoopInv
<1>2. LoopTyped'
  BY <1>1 DEF LoopTyped
<1>3. \A i \in Keys : /\ ready[i] \in Nat /\ ready'[i] \in Nat
                      /\ ready'[i] = (IF i = k THEN ready[i] + 1 ELSE ready[i])
  BY <1>1, <1>2 DEF LoopTyped
<1>4. \A t \in Tenants : Key(t) \in Keys
  BY KeysAre
<1>5. NotPassed'
  <2>1. \A t \in Tenants : IsFirst(t)' <=> IsFirst(t)
    BY DEF IsFirst
  <2>2. \A t \in Tenants : ready'[Key(t)] = 0 => ready[Key(t)] = 0
    BY <1>3, <1>4
  <2> QED
    BY <1>1, <2>1, <2>2 DEF NotPassed
<1>6. Counted
  <2> SUFFICES ASSUME NEW t \in Tenants, ready'[Key(t)] > 0, passed'[Key(t)] # 0
               PROVE  /\ ready[Key(t)] > 0
                      /\ passed'[Key(t)] + Ahead(t)' <= passed[Key(t)] + Ahead(t)
    BY DEF Counted
  <2>1. ready[Key(t)] > 0
    BY <1>1, <1>3, <1>4 DEF NotPassed
  <2>2. Ahead(t)' = Ahead(t)
    BY DEF Ahead, Before, WholePassLeft
  <2>3. Ahead(t) \in Nat /\ passed[Key(t)] \in Nat
    BY <1>1, <1>4, AheadIs DEF LoopTyped
  <2> QED
    BY <2>1, <2>2, <2>3
<1> QED
  BY <1>1, <1>2, <1>5, <1>6, CountedKeeps DEF LoopInv

\* A step that serves nothing keeps passed and ready.
LEMMA TurnsKeep ==
  ASSUME PassFits, LoopInv, UNCHANGED <<ready, passed>>,
         LoopTyped', NotPassed',
         \A t \in Tenants :
            ready[Key(t)] > 0 => passed[Key(t)] = 0 \/ Ahead(t)' <= Ahead(t)
  PROVE  LoopInv'
<1>1. LoopTyped /\ TurnComes
  BY DEF LoopInv
<1>2. Counted
  <2> SUFFICES ASSUME NEW t \in Tenants, ready[Key(t)] > 0, passed[Key(t)] # 0
               PROVE  passed[Key(t)] + Ahead(t)' <= passed[Key(t)] + Ahead(t)
    BY DEF Counted
  <2>1. passed[Key(t)] \in Nat /\ Ahead(t) \in Nat
    BY <1>1, KeysAre, AheadIs DEF LoopTyped
  <2>2. (Ahead(t) \in Nat)'
    BY AheadIs, PTL
  <2> QED
    BY <2>1, <2>2
<1> QED
  BY <1>1, <1>2, CountedKeeps DEF LoopInv

\* What the loop's record is after a step: tlapm needs the fields as values.
LEMMA LoopChanges ==
  ASSUME NEW e \in LoopState, NEW pc \in {"while", "for"}, NEW p \in 0 .. MaxMessages,
         NEW S \in SUBSET Tenants, NEW b \in 0 .. BurstLimit, NEW g \in BOOLEAN
  PROVE  /\ [e EXCEPT !.pc = pc, !.burst = b, !.progressed = g, !.tenants = S] \in LoopState
         /\ [e EXCEPT !.processed = p, !.burst = b, !.progressed = g] \in LoopState
         /\ [e EXCEPT !.tenants = S, !.burst = b] \in LoopState
         /\ [e EXCEPT !.pc = pc] \in LoopState
<1>1. [e EXCEPT !.pc = pc, !.burst = b, !.progressed = g, !.tenants = S] \in LoopState
  BY DEF LoopState
<1>2. [e EXCEPT !.processed = p, !.burst = b, !.progressed = g] \in LoopState
  BY DEF LoopState
<1>3. [e EXCEPT !.tenants = S, !.burst = b] \in LoopState
  BY DEF LoopState
<1>4. [e EXCEPT !.pc = pc] \in LoopState
  BY DEF LoopState
<1> QED
  BY <1>1, <1>2, <1>3, <1>4

\* run_once starts again: no tenant has more ahead than the ones before it.
LEMMA FirstPassKeeps ==
  ASSUME PassFits, LoopInv, loop' = FirstPass,
         UNCHANGED <<ready, hidden, passed>>,
         \A t \in Tenants : ready[Key(t)] > 0 => Behind(t) <= Ahead(t)
  PROVE  LoopInv'
<1>1. LoopTyped /\ NotPassed /\ loop \in LoopState
  BY DEF LoopInv, LoopTyped
<1>2. /\ loop'.pc = "while" /\ loop'.processed = 0 /\ loop'.tenants = {} /\ loop'.burst = 0
  BY DEF FirstPass
<1>3. loop' \in LoopState
  <2>1. 0 \in 0 .. MaxMessages /\ 0 \in 0 .. BurstLimit
    BY Parameters
  <2> QED
    BY <2>1 DEF LoopState, FirstPass
<1>4. LoopTyped'
  BY <1>1, <1>2, <1>3 DEF LoopTyped
<1>5. NotPassed'
  BY <1>1, <1>2 DEF NotPassed
<1>6. \A t \in Tenants : Ahead(t)' = Behind(t)
  BY <1>2 DEF Ahead, Behind
<1> QED
  BY <1>1, <1>4, <1>5, <1>6, TurnsKeep

LEMMA ListKeeps ==
  ASSUME PassFits, LoopInv, ListTenants
  PROVE  LoopInv'
<1>1. /\ LoopTyped /\ NotPassed /\ loop \in LoopState
      /\ UNCHANGED <<ready, hidden, passed>> /\ loop.pc = "while"
      /\ loop.processed \in 0 .. MaxMessages /\ loop.queue = 1
  BY DEF LoopInv, LoopTyped, LoopState, ListTenants
<1>2. MaxMessages \in Nat /\ MaxMessages >= 1 /\ BurstLimit \in Nat /\ BurstLimit >= 1
  BY Parameters
<1>3. CASE loop.processed < MaxMessages /\ ListedTenants # {}
  <2> DEFINE S == ListedTenants
  <2>1. S \in SUBSET Tenants
    BY DEF ListedTenants
  <2>2. loop' = [loop EXCEPT !.pc = "for", !.burst = 0, !.progressed = FALSE, !.tenants = S]
    BY <1>3 DEF ListTenants
  <2> HIDE DEF S
  <2>3. /\ loop' \in LoopState /\ loop'.pc = "for" /\ loop'.burst = 0 /\ loop'.tenants = S
        /\ loop'.processed = loop.processed
    <3>1. 0 \in 0 .. BurstLimit
      BY <1>2
    <3>2. loop' \in LoopState
      BY <1>1, <2>1, <2>2, <3>1, LoopChanges
    <3> QED
      BY <1>1, <2>2, <3>2 DEF LoopState
  <2>4. LoopTyped'
    BY <1>1, <2>3 DEF LoopTyped
  <2>5. NotPassed'
    BY <1>1, <2>3 DEF NotPassed
  <2>6. ASSUME NEW t \in Tenants, ready[Key(t)] > 0 PROVE Ahead(t)' <= Ahead(t)
    <3>1. t \in S
      <4>1. /\ ready[<<loop.queue, t>>] > 0 /\ ready[<<loop.queue, t>>] \in Nat
            /\ hidden[<<loop.queue, t>>] \in Nat
        BY <1>1, <2>6, KeysAre DEF LoopTyped
      <4>2. ready[<<loop.queue, t>>] + hidden[<<loop.queue, t>>] > 0
        BY <4>1
      <4> QED
        BY <4>2 DEF S, ListedTenants
    <3>2. Before(t)' = {s \in S : s < t}
      BY <2>3 DEF Before
    <3>3. /\ Left(Before(t)') <= Behind(t) /\ Left(Before(t)') \in Nat /\ Behind(t) \in Nat
      <4>1. Before(t)' \in SUBSET Tenants
        BY <2>1, <3>2
      <4> QED
        BY <2>1, <3>2, <4>1, BehindIs, LeftIs
    <3>4. Ahead(t)' = Left(Before(t)')
                        + (IF loop.processed + Left(S) <= MaxMessages THEN 0 ELSE Behind(t))
      <4>1. Left(S) \in Nat
        BY <2>1, LeftIs
      <4>2. loop'.processed # MaxMessages
        BY <1>1, <1>2, <1>3, <2>3
      <4>3. WholePassLeft' <=> loop.processed + Left(S) <= MaxMessages
        BY <1>1, <2>3, <4>1 DEF WholePassLeft, Left
      <4>4. Ahead(t)' = Left(Before(t)') - 0 + (IF WholePassLeft' THEN 0 ELSE Behind(t))
        BY <2>3, <3>1, <4>2 DEF Ahead, Left, Behind
      <4> QED
        BY <3>3, <4>3, <4>4
    <3>5. CASE loop.processed = 0
      <4>1. Left(S) <= BurstLimit * NumTenants
        BY <2>1, Parameters, LeftIs
      <4>2. loop.processed + Left(S) <= MaxMessages
        <5>1. Left(S) \in Nat /\ BurstLimit * NumTenants \in Nat
          BY <2>1, LeftIs, Times, Parameters
        <5> QED
          BY <1>2, <3>5, <4>1, <5>1 DEF PassFits
      <4>3. Ahead(t) = Behind(t)
        BY <1>1, <1>2, <3>5 DEF Ahead
      <4> QED
        BY <3>3, <3>4, <4>2, <4>3
    <3>6. CASE loop.processed # 0
      <4>1. Ahead(t) = 2 * Behind(t)
        BY <1>1, <1>2, <1>3, <3>6 DEF Ahead
      <4> QED
        BY <3>3, <3>4, <4>1
    <3> QED
      BY <3>5, <3>6
  <2> QED
    BY <1>1, <2>4, <2>5, <2>6, TurnsKeep
<1>4. CASE ~(loop.processed < MaxMessages /\ ListedTenants # {})
  <2>1. loop' = FirstPass
    BY <1>1, <1>4 DEF ListTenants, NextQueue, PassFits
  <2>2. ASSUME NEW t \in Tenants, ready[Key(t)] > 0 PROVE Behind(t) <= Ahead(t)
    <3>1. ListedTenants # {}
      <4>1. /\ ready[<<loop.queue, t>>] > 0 /\ ready[<<loop.queue, t>>] \in Nat
            /\ hidden[<<loop.queue, t>>] \in Nat
        BY <1>1, <2>2, KeysAre DEF LoopTyped
      <4>2. ready[<<loop.queue, t>>] + hidden[<<loop.queue, t>>] > 0
        BY <4>1
      <4> QED
        BY <4>2 DEF ListedTenants
    <3>2. loop.processed = MaxMessages
      BY <1>1, <1>2, <1>4, <3>1
    <3> QED
      BY <3>2, BehindIs DEF Ahead
  <2> QED
    BY <1>1, <2>1, <2>2, FirstPassKeeps
<1> QED
  BY <1>3, <1>4

LEMMA EndForKeeps ==
  ASSUME PassFits, LoopInv, EndFor
  PROVE  LoopInv'
<1>1. /\ LoopTyped /\ NotPassed /\ loop \in LoopState
      /\ UNCHANGED <<ready, hidden, passed>> /\ loop.pc = "for" /\ loop.tenants = {}
      /\ loop.processed \in 0 .. MaxMessages /\ loop.queue = 1 /\ loop.burst \in 0 .. BurstLimit
  BY DEF LoopInv, LoopTyped, LoopState, EndFor
<1>2. loop.burst = 0
  BY <1>1, Parameters DEF LoopTyped
<1>3. \A t \in Tenants :
         /\ Behind(t) \in Nat
         /\ Ahead(t) = IF loop.processed = MaxMessages THEN Behind(t) ELSE 2 * Behind(t)
  <2> SUFFICES ASSUME NEW t \in Tenants
               PROVE  /\ Behind(t) \in Nat
                      /\ Ahead(t) = IF loop.processed = MaxMessages THEN Behind(t) ELSE 2 * Behind(t)
    OBVIOUS
  <2>1. Behind(t) \in Nat /\ Left({}) = 0
    BY BehindIs, LeftIs
  <2> QED
    BY <1>1, <1>2, <2>1 DEF Ahead
<1>4. CASE loop.progressed
  <2>1. loop' = [loop EXCEPT !.pc = "while"]
    BY <1>4 DEF EndFor
  <2>2. /\ loop' \in LoopState /\ loop'.pc = "while" /\ loop'.burst = 0
        /\ loop'.processed = loop.processed
    <3>1. loop' \in LoopState
      BY <1>1, <2>1 DEF LoopState
    <3> QED
      BY <1>1, <1>2, <2>1, <3>1 DEF LoopState
  <2>3. LoopTyped'
    BY <1>1, <2>2 DEF LoopTyped
  <2>4. NotPassed'
    BY <1>1, <2>2 DEF NotPassed
  <2>5. ASSUME NEW t \in Tenants PROVE Ahead(t)' <= Ahead(t)
    <3>1. Ahead(t)' = IF loop.processed = MaxMessages THEN Behind(t)
                      ELSE IF loop.processed = 0 THEN Behind(t) ELSE 2 * Behind(t)
      BY <2>2 DEF Ahead, Behind
    <3> QED
      BY <1>3, <3>1
  <2> QED
    BY <1>1, <2>3, <2>4, <2>5, TurnsKeep
<1>5. CASE ~loop.progressed
  <2>1. loop' = FirstPass
    BY <1>1, <1>5 DEF EndFor, NextQueue, PassFits
  <2>2. \A t \in Tenants : Behind(t) <= Ahead(t)
    BY <1>3
  <2> QED
    BY <1>1, <2>1, <2>2, FirstPassKeeps
<1> QED
  BY <1>4, <1>5

LEMMA PassTurnKeeps ==
  ASSUME PassFits, LoopInv,
         NEW f \in Tenants, PassTurn(f)
  PROVE  LoopInv'
<1> DEFINE S == loop.tenants
           b == loop.burst
           p == loop.processed
<1>1. /\ LoopTyped /\ NotPassed /\ loop \in LoopState
      /\ UNCHANGED <<ready, hidden, passed>> /\ loop.pc = "for"
      /\ loop' = [loop EXCEPT !.tenants = @ \ {f}, !.burst = 0]
      /\ IsFirst(f) /\ TurnOver(f)
      /\ f \in S /\ \A s \in S : f <= s
  BY DEF LoopInv, LoopTyped, PassTurn, IsFirst
<1>2. /\ S \in SUBSET Tenants /\ b \in Nat /\ b <= BurstLimit /\ p \in Nat
      /\ BurstLimit \in Nat /\ BurstLimit >= 1 /\ MaxMessages \in Nat
  BY <1>1, Parameters DEF LoopState
<1>3. /\ loop' \in LoopState /\ loop'.pc = "for" /\ loop'.burst = 0
      /\ loop'.tenants = S \ {f} /\ loop'.processed = p
  <2>1. loop' \in LoopState
    <3>1. 0 \in 0 .. BurstLimit /\ S \ {f} \in SUBSET Tenants
      BY <1>2
    <3>2. [loop EXCEPT !.tenants = S \ {f}, !.burst = 0] \in LoopState
      BY <1>1, <3>1 DEF LoopState
    <3> QED
      BY <1>1, <3>2
  <2> QED
    BY <1>1, <2>1 DEF LoopState
<1>4. LoopTyped'
  BY <1>1, <1>3 DEF LoopTyped
<1>5. NotPassed'
  BY <1>1, <1>3 DEF NotPassed
<1>6. ASSUME NEW t \in Tenants, ready[Key(t)] > 0, passed[Key(t)] # 0
      PROVE  Ahead(t)' <= Ahead(t)
  <2>1. Behind(t) \in Nat /\ Left(S) \in Nat /\ Left(S \ {f}) = Left(S) - BurstLimit
        /\ Left(S) >= BurstLimit
    BY <1>1, <1>2, LeftIs, BehindIs
  <2>2. CASE p = MaxMessages
    BY <1>3, <2>1, <2>2 DEF Ahead, Behind
  <2>3. CASE p # MaxMessages
    <3>1. t # f
      <4> SUFFICES ASSUME t = f PROVE FALSE
        OBVIOUS
      <4>1. b = BurstLimit \/ ready[Key(f)] = 0
        BY <1>1, <2>3, KeysAre DEF TurnOver
      <4>2. ready[Key(f)] \in Nat
        BY <1>1, KeysAre DEF LoopTyped
      <4> QED
        BY <1>1, <1>2, <1>6, <4>1, <4>2 DEF NotPassed
    <3>2. CASE t \notin S
      <4>1. Ahead(t) = Left(S) - b + 2 * Behind(t)
        BY <1>1, <2>3, <3>2 DEF Ahead
      <4>2. Ahead(t)' = Left(S \ {f}) - 0 + 2 * Behind(t)
        BY <1>3, <2>3, <3>2 DEF Ahead, Behind, Left
      <4> QED
        BY <1>2, <2>1, <4>1, <4>2
    <3>3. CASE t \in S
      <4>1. f < t /\ Before(t) = {s \in S : s < t} /\ f \in Before(t)
        <5>1. f \in Nat /\ t \in Nat
          BY Parameters
        <5> QED
          BY <1>1, <3>1, <3>3, <5>1 DEF Before
      <4>2. Before(t)' = Before(t) \ {f}
        BY <1>3, <4>1 DEF Before
      <4>3. /\ Left(Before(t)) \in Nat /\ Left(Before(t)) >= BurstLimit
            /\ Left(Before(t) \ {f}) = Left(Before(t)) - BurstLimit
        <5>1. Before(t) \in SUBSET Tenants
          BY <1>2, <4>1
        <5> QED
          BY <4>1, <5>1, LeftIs
      <4> DEFINE w == p + Left(S) - b <= MaxMessages
                 v == p + Left(S \ {f}) <= MaxMessages
      <4>4. w => v
        BY <1>2, <2>1
      <4>5. Ahead(t) = Left(Before(t)) - b + (IF w THEN 0 ELSE Behind(t))
        BY <1>1, <2>3, <3>3, <4>1 DEF Ahead, WholePassLeft
      <4>6. WholePassLeft' <=> v
        BY <1>2, <1>3, <2>1 DEF WholePassLeft, Left
      <4>7. Ahead(t)' = Left(Before(t) \ {f}) - 0 + (IF v THEN 0 ELSE Behind(t))
        <5>1. Ahead(t)' = Left(Before(t)') - (IF Before(t)' = {} THEN 0 ELSE 0)
                            + (IF WholePassLeft' THEN 0 ELSE Behind(t))
          BY <1>3, <2>3, <3>1, <3>3 DEF Ahead, Behind, Left
        <5> QED
          BY <4>2, <4>6, <5>1
      <4> HIDE DEF w, v
      <4> QED
        BY <1>2, <2>1, <4>3, <4>4, <4>5, <4>7
    <3> QED
      BY <3>2, <3>3
  <2> QED
    BY <2>2, <2>3
<1>7. \A t \in Tenants :
         ready[Key(t)] > 0 => passed[Key(t)] = 0 \/ Ahead(t)' <= Ahead(t)
  BY <1>6
<1> QED
  BY <1>1, <1>4, <1>5, <1>7, TurnsKeep

LEMMA ProcessKeeps ==
  ASSUME PassFits, LoopInv,
         NEW f \in Tenants, Process(f)
  PROVE  LoopInv'
<1> DEFINE S == loop.tenants
           b == loop.burst
           p == loop.processed
<1>0. <<loop.queue, f>> = Key(f)
  BY KeysAre DEF LoopInv
<1>1. /\ LoopTyped /\ NotPassed /\ TurnComes /\ loop \in LoopState /\ loop.pc = "for"
      /\ loop' = [loop EXCEPT !.processed = @ + 1, !.burst = @ + 1, !.progressed = TRUE]
      /\ IsFirst(f) /\ b # BurstLimit /\ p # MaxMessages /\ ready[Key(f)] # 0
      /\ f \in S /\ \A s \in S : f <= s
      /\ ready' = [ready EXCEPT ![Key(f)] = @ - 1]
      /\ hidden' = hidden \/ hidden' = [hidden EXCEPT ![Key(f)] = @ + 1]
      /\ passed' = [i \in Keys |-> IF i = Key(f) \/ ready[i] = 0 THEN 0
                                        ELSE IF passed[i] > OvertakingBound THEN passed[i]
                                        ELSE passed[i] + 1]
  BY <1>0 DEF LoopInv, LoopTyped, Process, IsFirst, TurnOver
<1>2. /\ S \in SUBSET Tenants /\ b \in Nat /\ b < BurstLimit
      /\ p \in Nat /\ p < MaxMessages
      /\ BurstLimit \in Nat /\ BurstLimit >= 1 /\ MaxMessages \in Nat
  BY <1>1, Parameters DEF LoopState
<1>3. /\ loop' \in LoopState /\ loop'.pc = "for" /\ loop'.burst = b + 1
      /\ loop'.tenants = S /\ loop'.processed = p + 1
  <2>1. loop' \in LoopState
    <3>1. p + 1 \in 0 .. MaxMessages /\ b + 1 \in 0 .. BurstLimit
      BY <1>2
    <3>2. \A x \in 0 .. MaxMessages, y \in 0 .. BurstLimit :
             [loop EXCEPT !.processed = x, !.burst = y, !.progressed = TRUE] \in LoopState
      BY <1>1 DEF LoopState
    <3> QED
      BY <1>1, <3>1, <3>2
  <2> QED
    BY <1>1, <2>1 DEF LoopState
<1>4. Key(f) \in Keys /\ \A t \in Tenants : Key(t) \in Keys /\ (Key(t) = Key(f) => t = f)
  BY KeysAre
<1>5. \A i \in Keys :
         /\ ready[i] \in Nat /\ passed[i] \in Nat
         /\ ready'[i] = IF i = Key(f) THEN ready[i] - 1 ELSE ready[i]
         /\ passed'[i] = 0 \/ (ready[i] # 0 /\ i # Key(f) /\ passed'[i] <= passed[i] + 1)
         /\ passed'[i] \in Nat
         /\ (i = Key(f) \/ ready[i] = 0) => passed'[i] = 0
  BY <1>1, <1>4 DEF LoopTyped
<1>6. LoopTyped'
  <2>1. ready' \in [Keys -> Nat]
    <3>1. ready[Key(f)] - 1 \in Nat
      BY <1>1, <1>4, <1>5
    <3> QED
      BY <1>1, <3>1 DEF LoopTyped
  <2>2. hidden' \in [Keys -> Nat]
    BY <1>1, <1>4 DEF LoopTyped
  <2>3. passed' \in [Keys -> Nat]
    BY <1>1, <1>5
  <2> QED
    BY <1>1, <1>3, <2>1, <2>2, <2>3 DEF LoopTyped
<1>7. NotPassed'
  <2> SUFFICES ASSUME NEW t \in Tenants,
                      ready'[Key(t)] = 0 \/ (IsFirst(t)' /\ loop'.burst > 0)
               PROVE  passed'[Key(t)] = 0
    BY DEF NotPassed
  <2>1. CASE ready'[Key(t)] = 0
    BY <1>4, <1>5, <2>1
  <2>2. CASE IsFirst(t)'
    <3>1. t \in S /\ \A s \in S : t <= s
      BY <1>3, <2>2 DEF IsFirst
    <3>2. t = f
      BY <1>1, <3>1, Parameters
    <3> QED
      BY <1>4, <1>5, <3>2
  <2> QED
    BY <2>1, <2>2
<1>8. Counted
  <2> SUFFICES ASSUME NEW t \in Tenants, ready'[Key(t)] > 0, passed'[Key(t)] # 0
               PROVE  /\ ready[Key(t)] > 0
                      /\ passed'[Key(t)] + Ahead(t)' <= passed[Key(t)] + Ahead(t)
    BY DEF Counted
  <2>1. /\ ready[Key(t)] > 0 /\ t # f /\ passed'[Key(t)] <= passed[Key(t)] + 1
        /\ passed[Key(t)] \in Nat /\ passed'[Key(t)] \in Nat
    BY <1>4, <1>5
  <2>2. Behind(t) \in Nat /\ Left(S) \in Nat /\ Left(S) >= BurstLimit
    BY <1>1, <1>2, LeftIs, BehindIs
  <2>3. Ahead(t)' \in Nat /\ Ahead(t) \in Nat /\ Ahead(t)' + 1 <= Ahead(t)
    <3>1. CASE t \notin S
      <4>1. Ahead(t) = Left(S) - b + 2 * Behind(t)
        BY <1>1, <3>1 DEF Ahead
      <4>2. Ahead(t)' = IF p + 1 = MaxMessages THEN Behind(t)
                        ELSE Left(S) - (b + 1) + 2 * Behind(t)
        BY <1>3, <3>1 DEF Ahead, Behind, Left
      <4> QED
        BY <1>2, <2>2, <4>1, <4>2
    <3>2. CASE t \in S
      <4>1. f < t /\ Before(t) = {s \in S : s < t} /\ f \in Before(t)
        <5>1. f \in Nat /\ t \in Nat
          BY Parameters
        <5> QED
          BY <1>1, <2>1, <3>2, <5>1 DEF Before
      <4>2. Before(t)' = Before(t)
        BY <1>3, <4>1 DEF Before
      <4>3. Left(Before(t)) \in Nat /\ Left(Before(t)) >= BurstLimit
        <5>1. Before(t) \in SUBSET Tenants
          BY <1>2, <4>1
        <5> QED
          BY <4>1, <5>1, LeftIs
      <4>4. Left(S) >= 2 * BurstLimit
        <5>1. S \ {f} # {} /\ S \ {f} \in SUBSET Tenants
          BY <1>2, <2>1, <3>2
        <5>2. Left(S \ {f}) >= BurstLimit /\ Left(S \ {f}) = Left(S) - BurstLimit
          BY <1>1, <1>2, <5>1, LeftIs
        <5> QED
          BY <1>2, <2>2, <5>2
      <4> DEFINE w == p + Left(S) - b <= MaxMessages
      <4>5. Ahead(t) = Left(Before(t)) - b + (IF w THEN 0 ELSE Behind(t))
        BY <1>1, <3>2, <4>1 DEF Ahead, WholePassLeft
      <4>6. WholePassLeft' <=> w
        BY <1>2, <1>3, <2>2 DEF WholePassLeft, Left
      <4>7. Ahead(t)' = IF p + 1 = MaxMessages THEN Behind(t)
                        ELSE Left(Before(t)) - (b + 1) + (IF w THEN 0 ELSE Behind(t))
        <5>1. Ahead(t)' = IF p + 1 = MaxMessages THEN Behind(t)
                          ELSE Left(Before(t)') - (IF Before(t)' = {} THEN 0 ELSE b + 1)
                                 + (IF WholePassLeft' THEN 0 ELSE Behind(t))
          BY <1>3, <3>2 DEF Ahead, Behind, Left
        <5> QED
          BY <4>1, <4>2, <4>6, <5>1
      <4>8. p + 1 = MaxMessages => ~w
        BY <1>2, <2>2, <4>4
      <4> HIDE DEF w
      <4> QED
        BY <1>2, <2>2, <4>3, <4>5, <4>7, <4>8
    <3> QED
      BY <3>1, <3>2
  <2> QED
    BY <2>1, <2>3
<1> QED
  BY <1>1, <1>6, <1>7, <1>8, CountedKeeps DEF LoopInv

LEMMA LoopStarts ==
  ASSUME PassFits, LoopInit
  PROVE  LoopInv
<1>1. /\ ready = [k \in Keys |-> 0] /\ hidden = [k \in Keys |-> 0]
      /\ passed = [k \in Keys |-> 0] /\ loop = FirstPass
  BY DEF LoopInit
<1>2. LoopTyped
  <2>1. 0 \in 0 .. MaxMessages /\ 0 \in 0 .. BurstLimit
    BY Parameters
  <2> QED
    BY <1>1, <2>1 DEF LoopTyped, LoopState, FirstPass
<1>3. NotPassed /\ TurnComes
  BY <1>1, KeysAre DEF NotPassed, TurnComes
<1> QED
  BY <1>2, <1>3 DEF LoopInv

LEMMA LoopKeeps ==
  ASSUME PassFits, LoopInv, [LoopNext]_loopVars
  PROVE  LoopInv'
<1>1. ASSUME NEW k \in Keys, Arrive(k) PROVE LoopInv'
  <2>1. hidden' \in [Keys -> Nat]
    BY <1>1 DEF Arrive, LoopInv, LoopTyped
  <2> QED
    BY <1>1, <2>1, ComesKeeps DEF Arrive
<1>2. ASSUME NEW k \in Keys, BackoffEnds(k) PROVE LoopInv'
  <2>1. hidden \in [Keys -> Nat] /\ hidden[k] - 1 \in Nat
    BY <1>2 DEF BackoffEnds, LoopInv, LoopTyped
  <2>2. hidden' \in [Keys -> Nat]
    BY <1>2, <2>1 DEF BackoffEnds
  <2> QED
    BY <1>2, <2>2, ComesKeeps DEF BackoffEnds
<1>3. ASSUME RunForever PROVE LoopInv'
  BY <1>3, ListKeeps, PassTurnKeeps, ProcessKeeps, EndForKeeps DEF RunForever
<1>4. ASSUME UNCHANGED loopVars PROVE LoopInv'
  <2>1. LoopTyped' /\ NotPassed'
    BY <1>4 DEF loopVars, LoopInv, LoopTyped, NotPassed, IsFirst
  <2>2. UNCHANGED <<ready, passed>> /\ \A t \in Tenants : Ahead(t)' = Ahead(t)
    BY <1>4 DEF loopVars, Ahead, Before, WholePassLeft
  <2>3. \A t \in Tenants : Ahead(t) \in Nat
    BY AheadIs DEF LoopInv
  <2> QED
    BY <2>1, <2>2, <2>3, TurnsKeep
<1> QED
  BY <1>1, <1>2, <1>3, <1>4 DEF LoopNext

LEMMA LoopInvBounds ==
  ASSUME PassFits, LoopInv
  PROVE  BoundedOvertaking
<1> SUFFICES ASSUME NEW k \in Keys PROVE passed[k] <= OvertakingBound
  BY DEF BoundedOvertaking
<1>1. PICK t \in Tenants : k = Key(t)
  BY KeysAre
<1>2. /\ ready[k] \in Nat /\ passed[k] \in Nat /\ Ahead(t) \in Nat
      /\ Ahead(t) <= OvertakingBound
  BY AheadIs DEF LoopInv, LoopTyped
<1>3. OvertakingBound \in Int
  <2>1. BurstLimit \in Nat /\ NumTenants \in Nat
    BY Parameters
  <2> QED
    BY <2>1 DEF OvertakingBound
<1> QED
  BY <1>1, <1>2, <1>3 DEF LoopInv, NotPassed, TurnComes

\* WorkerRuntime.run_once, called over and over for one queue: where a pass
\* over all tenants fits into max_messages_per_iteration, no tenant with a
\* message that is due waits for more than three bursts of every other one.
THEOREM NobodyIsOvertakenForLong ==
  ASSUME PassFits
  PROVE  LoopSpec => []BoundedOvertaking
<1>1. LoopInit => LoopInv
  BY LoopStarts
<1>2. LoopInv /\ [LoopNext]_loopVars => LoopInv'
  BY LoopKeeps
<1>3. LoopInv => BoundedOvertaking
  BY LoopInvBounds
<1> QED
  BY <1>1, <1>2, <1>3, PTL DEF LoopSpec
=============================================================================
