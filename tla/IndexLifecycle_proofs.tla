------------------------ MODULE IndexLifecycle_proofs ------------------------
(***************************************************************************)
(* Theorems about IndexLifecycle, for every value of its constants: types   *)
(* and levels for any buffer and all circumstances, and that nothing raises *)
(* without a buffer unless a reorg is missed. And in orderly circumstances, *)
(* where messages keep their order and tell the truth and rollbacks lead    *)
(* down to levels above the sync level, what the index holds in the end is  *)
(* the chain.                                                               *)
(***************************************************************************)
EXTENDS IndexLifecycle, WellFoundedInduction, FiniteSetTheorems, TLAPS

(* Facts about sequences, for every set of elements.                        *)
LEMMA EmptySeq ==
  ASSUME NEW T
  PROVE  <<>> \in Seq(T)
  OBVIOUS

(* The head of a sequence that is not empty, and what is left of it.        *)
LEMMA HeadTail ==
  ASSUME NEW T, NEW s \in Seq(T), s # <<>>
  PROVE  /\ Head(s) = s[1] /\ Head(s) \in T
         /\ Tail(s) \in Seq(T) /\ Len(s) \in Nat \ {0} /\ Len(Tail(s)) = Len(s) - 1
         /\ \A n \in 1 .. Len(s) - 1 : Tail(s)[n] = s[n + 1]
  OBVIOUS

(* A sequence with an element more.                                         *)
LEMMA AppendAt ==
  ASSUME NEW T, NEW s \in Seq(T), NEW m \in T
  PROVE  /\ Append(s, m) \in Seq(T)
         /\ Len(s) \in Nat /\ Len(Append(s, m)) = Len(s) + 1
         /\ \A n \in 1 .. Len(s) : Append(s, m)[n] = s[n]
         /\ Append(s, m)[Len(s) + 1] = m
  OBVIOUS

(* A sequence joined to one over more elements.                             *)
LEMMA SeqWider ==
  ASSUME NEW S, NEW T, NEW s \in Seq(S), NEW t \in Seq(S \cup T)
  PROVE  t \o s \in Seq(S \cup T)
<1>1. s \in Seq(S \cup T)
  OBVIOUS
<1> QED
  BY <1>1

(* Induction over the natural numbers, from their well-foundedness.         *)
LessThan == OpToRel(<, Nat)

(* A set of natural numbers that is not empty has a least one.              *)
LEMMA LeastNat ==
  ASSUME NEW T, T \subseteq Nat, T # {}
  PROVE  \E n \in T : \A m \in T : n <= m
<1>1. IsWellFoundedOn(LessThan, Nat)
  BY NatLessThanWellFounded DEF LessThan
<1>2. \A x, y \in Nat : x < y => <<x, y>> \in LessThan
  BY DEF LessThan, OpToRel
<1>3. PICK x \in T : \A y \in T : ~(<<y, x>> \in LessThan)
  BY <1>1, WFMin
<1>4. ASSUME NEW m \in T
      PROVE  x <= m
  <2>1. x \in Nat /\ m \in Nat
    OBVIOUS
  <2>2. ~(m < x)
    BY <1>2, <1>3, <2>1
  <2> QED
    BY <2>1, <2>2
<1> QED
  BY <1>4

(* Induction, with the set of the numbers a fact holds of.                  *)
LEMMA NatInduct ==
  ASSUME NEW S, 0 \in S, \A n \in Nat : n \in S => n + 1 \in S
  PROVE  \A n \in Nat : n \in S
<1> SUFFICES ASSUME {n \in Nat : n \notin S} # {} PROVE FALSE
  OBVIOUS
<1>1. PICK n \in {n \in Nat : n \notin S} : \A m \in {k \in Nat : k \notin S} : n <= m
  BY LeastNat
<1>2. n # 0
  BY <1>1
<1>3. n - 1 \in Nat /\ n - 1 \in S
  BY <1>1, <1>2
<1> QED
  BY <1>1, <1>3

(* What Emitted has of the levels up to l, given that of the levels below.  *)
Extended(held, l, below) ==
  IF l \in Yielded(DOMAIN held) THEN below \o held[l] ELSE below
IsUpTo(f, held, n) ==
  f = [l \in 0 .. n |-> Extended(held, l, IF l = 0 THEN <<>> ELSE f[l - 1])]

(* The definition of such a function, level by level.                       *)
LEMMA UpToAt ==
  ASSUME NEW f, NEW held, NEW n \in Nat
  PROVE  IsUpTo(f, held, n) <=>
           /\ f = [l \in 0 .. n |-> f[l]]
           /\ f[0] = Extended(held, 0, <<>>)
           /\ \A l \in 1 .. n : f[l] = Extended(held, l, f[l - 1])
<1>1. ASSUME IsUpTo(f, held, n)
      PROVE  /\ f = [l \in 0 .. n |-> f[l]]
             /\ f[0] = Extended(held, 0, <<>>)
             /\ \A l \in 1 .. n : f[l] = Extended(held, l, f[l - 1])
  <2>1. \A l \in 0 .. n : f[l] = Extended(held, l, IF l = 0 THEN <<>> ELSE f[l - 1])
    BY <1>1 DEF IsUpTo
  <2> QED
    BY <1>1, <2>1 DEF IsUpTo
<1>2. ASSUME f = [l \in 0 .. n |-> f[l]], f[0] = Extended(held, 0, <<>>),
             \A l \in 1 .. n : f[l] = Extended(held, l, f[l - 1])
      PROVE  IsUpTo(f, held, n)
  <2>1. \A l \in 0 .. n : f[l] = Extended(held, l, IF l = 0 THEN <<>> ELSE f[l - 1])
    BY <1>2
  <2> QED
    BY <1>2, <2>1 DEF IsUpTo
<1> QED
  BY <1>1, <1>2

(* There is one up to every level.                                          *)
LEMMA UpToExists ==
  ASSUME NEW held
  PROVE  \A n \in Nat : \E f : IsUpTo(f, held, n)
<1> DEFINE S == {n \in Nat : \E f : IsUpTo(f, held, n)}
<1>1. 0 \in S
  <2>1. IsUpTo([i \in 0 .. 0 |-> Extended(held, i, <<>>)], held, 0)
    BY DEF IsUpTo
  <2> QED BY <2>1
<1>2. ASSUME NEW n \in Nat, n \in S PROVE n + 1 \in S
  <2>1. PICK f : IsUpTo(f, held, n)
    BY <1>2
  <2>6. /\ f[0] = Extended(held, 0, <<>>)
        /\ \A l \in 1 .. n : f[l] = Extended(held, l, f[l - 1])
    BY <2>1, UpToAt
  <2> DEFINE g == [l \in 0 .. n + 1 |-> IF l <= n THEN f[l] ELSE Extended(held, l, f[n])]
  <2>2. /\ g = [l \in 0 .. n + 1 |-> g[l]]
        /\ \A l \in 0 .. n : g[l] = f[l]
        /\ g[n + 1] = Extended(held, n + 1, f[n])
    OBVIOUS
  <2> HIDE DEF g
  <2>3. g[0] = Extended(held, 0, <<>>)
    BY <2>2, <2>6
  <2>4. ASSUME NEW l \in 1 .. n + 1 PROVE g[l] = Extended(held, l, g[l - 1])
    <3>1. CASE l = n + 1
      BY <2>2, <3>1
    <3>2. CASE l # n + 1
      <4>1. l \in 1 .. n /\ l - 1 \in 0 .. n /\ l \in 0 .. n
        BY <3>2
      <4> QED
        BY <2>2, <2>6, <4>1
    <3> QED BY <3>1, <3>2
  <2>5. IsUpTo(g, held, n + 1)
    BY <2>2, <2>3, <2>4, UpToAt
  <2> QED BY <2>5
<1> HIDE DEF S
<1>3. \A n \in Nat : n \in S
  BY <1>1, <1>2, NatInduct
<1> QED BY <1>3 DEF S

(* So Emitted is the last value of the recursive function that defines it.  *)
LEMMA EmittedUpTo ==
  ASSUME NEW held
  PROVE  \E f : IsUpTo(f, held, MaxLevel) /\ Emitted(held) = f[MaxLevel]
<1> DEFINE F == CHOOSE f : IsUpTo(f, held, MaxLevel)
<1>1. IsUpTo(F, held, MaxLevel)
  BY UpToExists, LifecycleAssumption
<1>2. Emitted(held) = F[MaxLevel]
  BY DEF Emitted, IsUpTo, Levels, Extended
<1> QED BY <1>1, <1>2

(* What leaves the buffer are messages.                                     *)
LEMMA EmittedType ==
  ASSUME NEW held, DOMAIN held \subseteq Levels,
         \A l \in DOMAIN held : held[l] \in Seq(Messages)
  PROVE  Emitted(held) \in Seq(Messages)
<1>1. PICK f : IsUpTo(f, held, MaxLevel) /\ Emitted(held) = f[MaxLevel]
  BY EmittedUpTo
<1> DEFINE S == {n \in Nat : n <= MaxLevel => f[n] \in Seq(Messages)}
<1>6. Yielded(DOMAIN held) \subseteq DOMAIN held
  BY DEF Yielded
<1>2. ASSUME NEW l, NEW s \in Seq(Messages)
      PROVE  Extended(held, l, s) \in Seq(Messages)
  BY <1>6 DEF Extended
<1>3. 0 \in S
  <2>1. f[0] = Extended(held, 0, <<>>)
    BY <1>1, UpToAt, LifecycleAssumption
  <2>2. <<>> \in Seq(Messages)
    BY EmptySeq
  <2>3. f[0] \in Seq(Messages)
    BY <1>2, <2>1, <2>2
  <2> QED
    BY <2>3
<1>4. ASSUME NEW n \in Nat, n \in S PROVE n + 1 \in S
  <2> SUFFICES ASSUME n + 1 <= MaxLevel PROVE f[n + 1] \in Seq(Messages)
    OBVIOUS
  <2>1. f[n] \in Seq(Messages)
    BY <1>4, LifecycleAssumption
  <2>2. n + 1 \in 1 .. MaxLevel /\ (n + 1) - 1 = n
    BY LifecycleAssumption
  <2>3. f[n + 1] = Extended(held, n + 1, f[n])
    BY <1>1, <2>2, UpToAt, LifecycleAssumption
  <2> QED BY <1>2, <2>1, <2>3
<1> HIDE DEF S
<1>5. \A n \in Nat : n \in S
  BY <1>3, <1>4, NatInduct
<1> QED BY <1>1, <1>5, LifecycleAssumption DEF S

(* A single message that leaves an otherwise empty buffer is what leaves it.*)
LEMMA EmittedAlone ==
  ASSUME NEW held, NEW lv \in Levels, NEW m, DOMAIN held = {lv}, held[lv] = <<m>>,
         Yielded(DOMAIN held) = {lv}
  PROVE  Emitted(held) = <<m>>
<1>1. PICK f : IsUpTo(f, held, MaxLevel) /\ Emitted(held) = f[MaxLevel]
  BY EmittedUpTo
<1> DEFINE S == {n \in Nat : n <= MaxLevel => f[n] = IF n < lv THEN <<>> ELSE <<m>>}
<1>2. \A l, s : Extended(held, l, s) = IF l = lv THEN s \o <<m>> ELSE s
  BY DEF Extended
<1>3. 0 \in S
  BY <1>1, <1>2, UpToAt, LifecycleAssumption DEF Levels
<1>4. ASSUME NEW n \in Nat, n \in S PROVE n + 1 \in S
  <2> SUFFICES ASSUME n + 1 <= MaxLevel PROVE f[n + 1] = IF n + 1 < lv THEN <<>> ELSE <<m>>
    OBVIOUS
  <2>1. f[n] = IF n < lv THEN <<>> ELSE <<m>>
    BY <1>4, LifecycleAssumption
  <2>2. n + 1 \in 1 .. MaxLevel /\ (n + 1) - 1 = n
    BY LifecycleAssumption
  <2>3. f[n + 1] = Extended(held, n + 1, f[n])
    BY <1>1, <2>2, UpToAt, LifecycleAssumption
  <2>4. lv \in Nat
    BY DEF Levels
  <2>5. CASE n + 1 < lv
    BY <1>2, <2>1, <2>3, <2>4, <2>5
  <2>6. CASE n + 1 = lv
    <3>1. f[n] = <<>>
      BY <2>1, <2>4, <2>6
    <3> QED
      BY <1>2, <2>3, <2>4, <2>6, <3>1
  <2>7. CASE n + 1 > lv
    BY <1>2, <2>1, <2>3, <2>4, <2>7
  <2> QED BY <2>4, <2>5, <2>6, <2>7
<1> HIDE DEF S
<1>5. \A n \in Nat : n \in S
  BY <1>3, <1>4, NatInduct
<1> QED BY <1>1, <1>5, LifecycleAssumption DEF S, Levels

(* The parts of the type invariant, and which messages there can be without a*)
(* subscription.                                                            *)
ChainType ==
  /\ chain \in Seq(Blocks) /\ HeadLevel \in Levels
  /\ minted \in Blocks
  /\ reorgs \in 0 .. MaxReorgs /\ faults \in 0 .. MaxFaults
  /\ bufferSize \in BufferSizes
SocketType ==
  /\ connected \in BOOLEAN /\ subscribed \in BOOLEAN /\ spawned \in BOOLEAN
  /\ subscribed => connected /\ syncLevel # NoLevel
  /\ channel \in Levels \cup {NoLevel} /\ syncLevel \in Levels \cup {NoLevel}
  /\ feed # <<>> => subscribed
  /\ pc = "subscribe" => connected /\ ~subscribed
MessagesType ==
  /\ feed \in Seq(Messages)
  /\ DOMAIN buffer \subseteq Levels
  /\ \A l \in DOMAIN buffer : buffer[l] \in Seq(Messages)
  /\ queue \in Seq(Messages \cup Rollbacks)
  /\ fetched \in Seq(Messages)
IndexType ==
  /\ pc \in {"loop", "subscribe", "process", "refresh", "sync", "queue",
             "rollback", "move", "save", "failed", "hung"}
  /\ current \in Rollbacks
  /\ position \in 0 .. MaxLevel + 1 /\ target \in Levels
  /\ state \in States /\ stored \in States
  /\ rolledBack \in BOOLEAN
  /\ applied \in [Levels -> Blocks]
Typed == ChainType /\ SocketType /\ MessagesType /\ IndexType

(* The next message is one, and so is what is left.                         *)
LEMMA FeedHead ==
  ASSUME Typed, feed # <<>>
  PROVE  /\ Head(feed) = feed[1] /\ Head(feed) \in Messages
         /\ Head(feed).level \in Levels /\ Head(feed).block \in Blocks
         /\ Tail(feed) \in Seq(Messages)
<1>1. Head(feed) = feed[1] /\ Head(feed) \in Messages /\ Tail(feed) \in Seq(Messages)
  BY HeadTail DEF Typed, MessagesType
<1> QED
  BY <1>1 DEF Messages

(* The next item of the queue is a message or a rollback.                   *)
LEMMA QueueHead ==
  ASSUME Typed, queue # <<>>
  PROVE  /\ Head(queue) = queue[1]
         /\ Tail(queue) \in Seq(Messages \cup Rollbacks)
         /\ Head(queue).kind # "rollback"
                  => Head(queue) \in Messages /\ Head(queue).level \in Levels
                           /\ Head(queue).block \in Blocks
         /\ Head(queue).kind = "rollback" => Head(queue) \in Rollbacks
                 /\ Head(queue).from \in Levels /\ Head(queue).to \in Levels
<1>1. /\ Head(queue) = queue[1] /\ Head(queue) \in Messages \cup Rollbacks
      /\ Tail(queue) \in Seq(Messages \cup Rollbacks)
  BY HeadTail DEF Typed, MessagesType
<1> QED
  BY <1>1 DEF Messages, Rollbacks

(* What is fetched is a message.                                            *)
LEMMA FetchedHead ==
  ASSUME Typed, fetched # <<>>
  PROVE  /\ Head(fetched) = fetched[1] /\ Head(fetched) \in Messages
         /\ Head(fetched).level \in Levels /\ Head(fetched).block \in Blocks
<1>1. Head(fetched) = fetched[1] /\ Head(fetched) \in Messages
  BY HeadTail DEF Typed, MessagesType
<1> QED
  BY <1>1 DEF Messages

(* The block of a level is one, or none.                                    *)
LEMMA BlockType ==
  ASSUME Typed, NEW l
  PROVE  BlockAt(l) \in Blocks
  BY LifecycleAssumption DEF Typed, ChainType, BlockAt, HeadLevel, Blocks

(* The channel has a level while it is subscribed.                          *)
LEMMA ChannelType ==
  ASSUME Typed
  PROVE  ChannelLevel \in Levels \cup {NoLevel} /\ (subscribed => ChannelLevel \in Levels)
  BY DEF Typed, SocketType, ChannelLevel

(* The steps that touch the chain and the counters of its circumstances.    *)
LEMMA ChainWriters ==
  ASSUME Next
  PROVE  \/ \E b \in Blocks : Extend(b)
         \/ \E to \in Levels : Reorg(to)
         \/ Disconnect \/ Crash
         \/ UNCHANGED environment
<1>1. Connect \/ Answer \/ ReceiveData \/ ReceiveReorg => UNCHANGED environment
  BY DEF Connect, Answer, ReceiveData, ReceiveReorg
<1>2. Spawn \/ Subscribe \/ Schedule \/ Process \/ Refresh => UNCHANGED environment
  BY DEF Spawn, Subscribe, Schedule, Process, Refresh
<1>3. Fetch \/ ProcessFetched \/ ExitSync \/ QueueEmpty \/ ProcessData => UNCHANGED environment
  BY DEF Fetch, ProcessFetched, ExitSync, QueueEmpty, ProcessData
<1>4. StartRollback \/ RevertRows \/ MoveLevel \/ SaveState => UNCHANGED environment
  BY DEF StartRollback, RevertRows, MoveLevel, SaveState
<1> QED
  BY <1>1, <1>2, <1>3, <1>4 DEF Next, Environment, Websocket, Dispatcher

(* No step leaves the types of the chain.                                   *)
LEMMA ChainTypeStep ==
  ASSUME Typed, Next
  PROVE  ChainType'
<1> USE LifecycleAssumption DEF Typed, ChainType
<1>1. ASSUME NEW b \in Blocks, Extend(b) PROVE ChainType'
  BY <1>1 DEF Extend, Levels, Blocks, HeadLevel
<1>2. ASSUME NEW to \in Levels, Reorg(to) PROVE ChainType'
  BY <1>2 DEF Reorg, Levels, HeadLevel
<1>3. CASE Disconnect \/ Crash
  BY <1>3 DEF Disconnect, Crash, HeadLevel
<1>4. CASE UNCHANGED environment
  BY <1>4 DEF environment, HeadLevel
<1> QED
  BY <1>1, <1>2, <1>3, <1>4, ChainWriters

(* No step leaves the types of the connection.                              *)
LEMMA SocketTypeStep ==
  ASSUME Typed, Next
  PROVE  SocketType'
<1> USE DEF Typed
<1>1. ASSUME NEW b \in Blocks, Extend(b) PROVE SocketType'
  BY <1>1 DEF Extend, SocketType
<1>2. ASSUME NEW to \in Levels, Reorg(to) PROVE SocketType'
  BY <1>2 DEF Reorg, SocketType
<1>3. CASE Disconnect
  BY <1>3 DEF Disconnect, SocketType
<1>4. CASE Crash
  <2>1. HeadLevel \in Levels /\ HeadLevel' \in Levels
    BY <1>4 DEF Crash, HeadLevel, ChainType
  <2> QED
    BY <1>4, <2>1 DEF Crash, SocketType
<1>5. CASE Connect \/ Spawn \/ Subscribe
  <2>1. Connect => SocketType'
    BY DEF Connect, SocketType
  <2>2. Spawn => SocketType'
    BY DEF Spawn, datasource, SocketType
  <2>3. Subscribe => SocketType'
    BY DEF Subscribe, datasource, SocketType
  <2> QED
    BY <1>5, <2>1, <2>2, <2>3
<1>6. CASE Answer
  <2>1. HeadLevel \in Levels /\ HeadLevel # NoLevel
    BY LifecycleAssumption DEF ChainType, Levels, NoLevel
  <2>2. connected
    BY <1>6 DEF Answer, SocketType
  <2> QED
    BY <1>6, <2>1, <2>2, Zenon DEF Answer, SocketType
<1>7. CASE ReceiveData
  <2>1. Head(feed).level \in Levels /\ feed # <<>>
    BY <1>7, FeedHead DEF ReceiveData
  <2> QED
    BY <1>7, <2>1 DEF ReceiveData, SocketType
<1>8. CASE ReceiveReorg
  <2>1. Head(feed).level \in Levels /\ feed # <<>>
    BY <1>8, FeedHead DEF ReceiveReorg
  <2>2. /\ feed' = Tail(feed) /\ channel' = Head(feed).level
        /\ UNCHANGED <<connected, subscribed, syncLevel, spawned, pc>>
    BY <1>8 DEF ReceiveReorg
  <2> QED
    BY <2>1, <2>2 DEF SocketType
<1>9. CASE Process \/ Refresh
  <2>1. UNCHANGED <<datasource, spawned>> /\ pc' # "subscribe"
    BY <1>9 DEF Process, Refresh, Decide
  <2> QED
    BY <2>1 DEF datasource, SocketType
<1>10. CASE Schedule \/ Fetch \/ ProcessFetched \/ ExitSync \/ QueueEmpty \/ ProcessData
  <2>1. UNCHANGED <<datasource, spawned>> /\ (pc' = pc \/ pc' # "subscribe")
    BY <1>10 DEF Schedule, Fetch, ProcessFetched, ExitSync, QueueEmpty, ProcessData
  <2> QED
    BY <2>1 DEF datasource, SocketType
<1>11. CASE StartRollback \/ RevertRows \/ MoveLevel \/ SaveState
  <2>1. UNCHANGED <<datasource, spawned>> /\ pc' # "subscribe"
    BY <1>11 DEF StartRollback, RevertRows, MoveLevel, SaveState
  <2> QED
    BY <2>1 DEF datasource, SocketType
<1> QED
  BY <1>1, <1>2, <1>3, <1>4, <1>5, <1>6, <1>7, <1>8, <1>9, <1>10, <1>11
     DEF Next, Environment, Websocket, Dispatcher

(* No step leaves the types of the messages on their way.                   *)
LEMMA MessagesTypeStep ==
  ASSUME Typed, Next
  PROVE  MessagesType'
<1> USE DEF Typed
<1>1. ASSUME NEW b \in Blocks, Extend(b) PROVE MessagesType'
  <2>1. DataMsg(HeadLevel + 1, b) \in Messages
    BY <1>1, LifecycleAssumption DEF Extend, DataMsg, Messages, ChainType, Levels
  <2>2. feed' \in Seq(Messages)
    BY <1>1, <2>1, AppendAt DEF Extend, MessagesType
  <2> QED
    BY <1>1, <2>2 DEF Extend, fetcher, MessagesType
<1>2. ASSUME NEW to \in Levels, Reorg(to) PROVE MessagesType'
  <2>1. ReorgMsg(to) \in Messages
    BY <1>2, LifecycleAssumption DEF ReorgMsg, Messages, Blocks
  <2>2. feed' \in Seq(Messages)
    BY <1>2, <2>1, AppendAt DEF Reorg, MessagesType
  <2> QED
    BY <1>2, <2>2 DEF Reorg, fetcher, MessagesType
<1>3. CASE UNCHANGED <<feed, buffer, queue, fetched>>
  BY <1>3 DEF MessagesType
<1>4. CASE Disconnect
  BY <1>4, EmptySeq DEF Disconnect, fetcher, MessagesType
<1>5. CASE Crash
  BY <1>5, EmptySeq DEF Crash, MessagesType
<1>6. CASE ReceiveData
  <2> DEFINE m == Head(feed)
             held == Added(m)
  <2>1. m \in Messages /\ m.level \in Levels /\ Tail(feed) \in Seq(Messages)
    BY <1>6, FeedHead DEF ReceiveData
  <2>2. /\ feed' = Tail(feed) /\ buffer' = Kept(held) /\ queue' = queue \o Emitted(held)
        /\ UNCHANGED fetched
    BY <1>6 DEF ReceiveData, fetcher
  <2>3. DOMAIN held = DOMAIN buffer \cup {m.level}
    BY DEF Added
  <2>4. ASSUME NEW l \in DOMAIN held
        PROVE  held[l] \in Seq(Messages)
    <3> DEFINE before == IF m.level \in DOMAIN buffer THEN buffer[m.level] ELSE <<>>
    <3>1. before \in Seq(Messages)
      BY DEF MessagesType
    <3>2. Append(before, m) \in Seq(Messages)
      BY <2>1, <3>1, AppendAt
    <3>3. l # m.level => buffer[l] \in Seq(Messages)
      BY <2>3 DEF MessagesType
    <3>4. held[l] = IF l # m.level THEN buffer[l]
                    ELSE IF m.block = 0 THEN before ELSE Append(before, m)
      BY DEF Added
    <3> QED
      BY <3>1, <3>2, <3>3, <3>4
  <2> HIDE DEF held, m
  <2>5. DOMAIN held \subseteq Levels
    BY <2>1, <2>3 DEF MessagesType
  <2>6. Emitted(held) \in Seq(Messages)
    BY <2>4, <2>5, EmittedType
  <2>7. queue' \in Seq(Messages \cup Rollbacks)
    BY <2>2, <2>6, SeqWider DEF MessagesType
  <2>8. DOMAIN buffer' \subseteq Levels /\ \A l \in DOMAIN buffer' : buffer'[l] \in Seq(Messages)
    BY <2>2, <2>4, <2>5 DEF Kept
  <2> QED
    BY <2>1, <2>2, <2>7, <2>8 DEF MessagesType
<1>7. CASE ReceiveReorg
  <2> DEFINE to == Head(feed).level
             from == ChannelLevel
  <2>1. to \in Levels /\ Tail(feed) \in Seq(Messages) /\ from \in Levels
    BY <1>7, FeedHead, ChannelType DEF ReceiveReorg, SocketType
  <2>2. /\ feed' = Tail(feed) /\ buffer' = Dropped(from, to) /\ UNCHANGED fetched
        /\ queue' = queue \/ queue' = Append(queue, RollbackMsg(from, to))
    BY <1>7 DEF ReceiveReorg, fetcher
  <2> HIDE DEF to, from
  <2>3. RollbackMsg(from, to) \in Messages \cup Rollbacks
    BY <2>1 DEF RollbackMsg, Rollbacks
  <2>6. queue \in Seq(Messages \cup Rollbacks)
    BY DEF MessagesType
  <2>4. queue' \in Seq(Messages \cup Rollbacks)
    BY <2>2, <2>3, <2>6, AppendAt
  <2>5. DOMAIN buffer' = DOMAIN buffer /\ \A l \in DOMAIN buffer : buffer'[l] \in Seq(Messages)
    BY <2>2 DEF Dropped, MessagesType
  <2> QED
    BY <2>1, <2>2, <2>4, <2>5 DEF MessagesType
<1>8. CASE Fetch
  <2>1. UNCHANGED <<feed, buffer, queue>>
    BY <1>8 DEF Fetch, datasource
  <2>2. position \in Levels
    BY <1>8, LifecycleAssumption DEF Fetch, MoreToFetch, IndexType, Levels
  <2>3. DataMsg(position, BlockAt(position)) \in Messages
    BY <2>2, BlockType DEF DataMsg, Messages
  <2>4. fetched' \in Seq(Messages)
    BY <1>8, <2>3 DEF Fetch
  <2> QED
    BY <2>1, <2>4 DEF MessagesType
<1>9. CASE ProcessFetched
  <2>1. UNCHANGED <<feed, buffer, queue>> /\ fetched' = <<>>
    BY <1>9 DEF ProcessFetched, datasource
  <2> QED
    BY <2>1 DEF MessagesType
<1>10. CASE Process \/ Refresh
  <2>1. UNCHANGED <<feed, buffer, fetched>> /\ (queue' = <<>> \/ queue' = queue)
    BY <1>10 DEF Process, Refresh, Decide, datasource
  <2>2. queue' \in Seq(Messages \cup Rollbacks)
    BY <2>1, EmptySeq DEF MessagesType
  <2> QED
    BY <2>1, <2>2 DEF MessagesType
<1>11. CASE ProcessData \/ StartRollback
  <2>1. UNCHANGED <<feed, buffer, fetched>> /\ queue' = Tail(queue) /\ queue # <<>>
    BY <1>11 DEF ProcessData, StartRollback, datasource, fetcher
  <2> QED
    BY <2>1, QueueHead DEF MessagesType
<1>12. Connect \/ Answer \/ Spawn \/ Subscribe \/ Schedule
         => UNCHANGED <<feed, buffer, queue, fetched>>
  BY DEF Connect, Answer, Spawn, Subscribe, Schedule, datasource, fetcher
<1>13. ExitSync \/ QueueEmpty \/ RevertRows \/ MoveLevel \/ SaveState
         => UNCHANGED <<feed, buffer, queue, fetched>>
  BY DEF ExitSync, QueueEmpty, RevertRows, MoveLevel, SaveState, datasource, fetcher
<1> QED
  BY <1>1, <1>2, <1>3, <1>4, <1>5, <1>6, <1>7, <1>8, <1>9, <1>10, <1>11, <1>12, <1>13
     DEF Next, Environment, Websocket, Dispatcher

(* Deciding what to do with an index leaves its types.                      *)
LEMMA DecideType ==
  ASSUME Typed, NEW s \in States, Decide(s), UNCHANGED <<current, applied>>,
         rolledBack' \in BOOLEAN
  PROVE  IndexType'
<1>1. /\ s.level \in Levels
      /\ Updated(s, "syncing", s.level) \in States
  BY DEF Updated, States
<1>2. Behind(s) /\ syncLevel # NoLevel => syncLevel \in Levels
  BY DEF Typed, SocketType
<1>3. FirstLevel(s) \in 0 .. MaxLevel + 1
  BY <1>1, LifecycleAssumption DEF FirstLevel, Levels
<1> QED
  BY <1>1, <1>2, <1>3 DEF Decide, Typed, IndexType

(* Indexing a level leaves its types.                                       *)
LEMMA IndexingType ==
  ASSUME Typed, NEW m, m.level \in Levels, m.block \in Blocks, Index(m)
  PROVE  state' \in States /\ stored' \in States /\ applied' \in [Levels -> Blocks]
  BY DEF Index, Updated, States, Typed, IndexType

(* No step leaves the types of the index.                                   *)
LEMMA IndexTypeStep ==
  ASSUME Typed, Next
  PROVE  IndexType'
<1> USE DEF Typed
<1>1. CASE UNCHANGED <<pc, current, position, target, state, stored, rolledBack, applied>>
  BY <1>1 DEF IndexType
<1>2. CASE Disconnect \/ Answer \/ Subscribe \/ Schedule \/ QueueEmpty
  BY <1>2 DEF Disconnect, Answer, Subscribe, Schedule, QueueEmpty, fetcher, IndexType
<1>3. CASE Crash
  <2>1. NoRollback \in Rollbacks
    BY LifecycleAssumption DEF NoRollback, RollbackMsg, Rollbacks, Levels
  <2> QED
    BY <1>3, <2>1 DEF Crash, IndexType
<1>4. CASE ReceiveReorg
  BY <1>4 DEF ReceiveReorg, fetcher, IndexType
<1>5. CASE Process
  <2>1. state \in States
    BY DEF IndexType
  <2>2. CASE rolledBack
    BY <1>5, <2>2 DEF Process, IndexType
  <2>3. CASE ~rolledBack
    <3>1. Decide(state) /\ UNCHANGED <<current, rolledBack, applied>>
      BY <1>5, <2>3 DEF Process
    <3>2. rolledBack' \in BOOLEAN
      BY <3>1 DEF IndexType
    <3> QED
      BY <2>1, <3>1, <3>2, DecideType
  <2> QED
    BY <2>2, <2>3
<1>6. CASE Refresh
  <2>1. [state EXCEPT !.level = stored.level] \in States
    BY DEF IndexType, States
  <2>2. Decide([state EXCEPT !.level = stored.level]) /\ UNCHANGED <<current, applied>>
           /\ rolledBack' = FALSE
    BY <1>6 DEF Refresh
  <2> QED
    BY <2>1, <2>2, DecideType
<1>7. CASE Fetch
  BY <1>7, LifecycleAssumption DEF Fetch, MoreToFetch, Levels, IndexType
<1>8. CASE ProcessFetched
  <2>1. /\ Head(fetched) \in Messages /\ Head(fetched).level \in Levels
        /\ Head(fetched).block \in Blocks
    BY <1>8, FetchedHead DEF ProcessFetched
  <2>2. /\ UNCHANGED <<current, position, target, rolledBack>>
        /\ (pc' = "failed" /\ UNCHANGED <<state, stored, applied>>)
             \/ (pc' = pc /\ Index(Head(fetched)))
    BY <1>8 DEF ProcessFetched
  <2> QED
    BY <2>1, <2>2, IndexingType DEF IndexType
<1>9. CASE ExitSync
  BY <1>9, LifecycleAssumption DEF ExitSync, Updated, States, fetcher, IndexType
<1>10. CASE ProcessData
  <2>1. /\ Head(queue) \in Messages /\ Head(queue).level \in Levels
        /\ Head(queue).block \in Blocks
    BY <1>10, QueueHead DEF ProcessData
  <2>2. /\ UNCHANGED <<pc, current, position, target, rolledBack>>
        /\ UNCHANGED <<state, stored, applied>> \/ Index(Head(queue))
    BY <1>10 DEF ProcessData, fetcher
  <2> QED
    BY <2>1, <2>2, IndexingType DEF IndexType
<1>11. CASE StartRollback
  <2>1. Head(queue) \in Rollbacks
    BY <1>11, QueueHead DEF StartRollback
  <2> QED
    BY <1>11, <2>1 DEF StartRollback, fetcher, IndexType
<1>12. CASE RevertRows
  BY <1>12, LifecycleAssumption DEF RevertRows, Blocks, fetcher, IndexType
<1>13. CASE MoveLevel
  BY <1>13, LifecycleAssumption DEF MoveLevel, States, Rollbacks, fetcher, IndexType
<1>14. CASE SaveState
  BY <1>14, LifecycleAssumption DEF SaveState, Updated, States, NoRollback, RollbackMsg,
       Rollbacks, Levels,
     fetcher, IndexType
<1>15. (\E b \in Blocks : Extend(b)) \/ (\E to \in Levels : Reorg(to)) \/ Connect
         \/ ReceiveData \/ Spawn
         => UNCHANGED <<pc, current, position, target, state, stored, rolledBack, applied>>
  BY DEF Extend, Reorg, Connect, ReceiveData, Spawn, fetcher
<1> QED
  BY <1>1, <1>2, <1>3, <1>4, <1>5, <1>6, <1>7, <1>8, <1>9, <1>10, <1>11, <1>12, <1>13, <1>14, <1>15
     DEF Next, Environment, Websocket, Dispatcher

(* The index in memory is at the committed level, but between the two commits*)
(* of a rollback.                                                           *)
LevelsFit ==
  /\ pc # "save" => state.level = stored.level
  /\ pc = "save" => stored.level = current.to

(* A synchronization goes up level by level to its target.                  *)
SyncRuns ==
  /\ pc = "sync" => /\ stored.level < position /\ position <= target + 1
                    /\ 0 < target /\ stored.level <= target
                    /\ Len(fetched) <= 1
                    /\ \A n \in DOMAIN fetched :
                         stored.level < fetched[n].level /\ fetched[n].level < position
  /\ pc # "sync" => fetched = <<>>

(* Levels are numbers.                                                      *)
LEMMA LevelTypes ==
  ASSUME Typed
  PROVE  /\ state.level \in Nat /\ stored.level \in Nat /\ current.to \in Nat
         /\ current.from \in Nat /\ position \in Nat /\ target \in Nat
         /\ syncLevel \in Int /\ HeadLevel \in Nat /\ MaxLevel \in Nat
         /\ state.level <= MaxLevel /\ stored.level <= MaxLevel
         /\ fetched \in Seq(Messages) /\ Len(fetched) \in Nat
         /\ fetched # <<>> => Len(fetched) >= 1
<1>1. /\ state.level \in Levels /\ stored.level \in Levels /\ current.to \in Levels
      /\ current.from \in Levels /\ target \in Levels /\ HeadLevel \in Levels
      /\ syncLevel \in Levels \cup {NoLevel} /\ position \in 0 .. MaxLevel + 1
  BY DEF Typed, ChainType, SocketType, IndexType, States, Rollbacks
<1>2. fetched \in Seq(Messages)
  BY DEF Typed, MessagesType
<1> QED
  BY <1>1, <1>2, LifecycleAssumption DEF Levels, NoLevel

(* Indexing a level moves the index there.                                  *)
LEMMA IndexingMoves ==
  ASSUME Typed, NEW m, Index(m), m.level \in Levels, state.level < m.level
  PROVE  /\ state' = [state EXCEPT !.level = m.level] /\ stored' = state'
         /\ state'.level = m.level /\ stored'.level = m.level /\ state.level < stored'.level
<1>1. m.level # 0
  BY LevelTypes DEF Levels
<1>2. Updated(state, state.status, m.level) = [state EXCEPT !.level = m.level]
  BY <1>1 DEF Updated, Typed, IndexType, States
<1> QED
  BY <1>2 DEF Index, Typed, IndexType, States

(* What process() does to an index at a level.                              *)
LEMMA DecideMoves ==
  ASSUME Typed, NEW s \in States, Decide(s)
  PROVE  /\ state'.level = s.level
         /\ stored'.level = stored.level \/ stored'.level = s.level
         /\ pc' \in {"failed", "sync", "queue", "loop"}
         /\ pc' = "failed" => syncLevel = NoLevel
         /\ pc' = "sync" => /\ syncLevel # NoLevel /\ s.level < syncLevel /\ queue' = <<>>
                            /\ stored'.level = s.level
                            /\ position' = s.level + 1 /\ target' = syncLevel
         /\ pc' # "sync" => UNCHANGED <<queue, stored, position, target>>
         /\ pc' \in {"queue", "loop"} => syncLevel # NoLevel /\ syncLevel <= s.level
         /\ pc' = "queue" => queue # <<>>
         /\ pc' = "loop" => queue = <<>>
<1>1. s.level \in Nat /\ Updated(s, "syncing", s.level).level = s.level
  BY DEF Updated, States, Levels
<1>2. syncLevel \in Int
  BY LevelTypes
<1>3. CASE syncLevel = NoLevel
  BY <1>1, <1>3 DEF Decide
<1>4. CASE syncLevel # NoLevel /\ Behind(s)
  BY <1>1, <1>4 DEF Decide, Behind, FirstLevel
<1>5. CASE syncLevel # NoLevel /\ ~Behind(s)
  BY <1>1, <1>2, <1>5 DEF Decide, Behind
<1> QED
  BY <1>3, <1>4, <1>5

(* Memory and database part for no longer than that.                        *)
LEMMA LevelsFitStep ==
  ASSUME Typed, LevelsFit, SyncRuns, Next
  PROVE  LevelsFit'
<1> USE LevelTypes DEF LevelsFit
<1>1. CASE Process
  <2>1. CASE rolledBack
    BY <1>1, <2>1 DEF Process
  <2>2. CASE ~rolledBack
    <3>1. pc = "process" /\ Decide(state) /\ state \in States
      BY <1>1, <2>2 DEF Process, Typed, IndexType
    <3> QED
      BY <3>1, DecideMoves
  <2> QED
    BY <2>1, <2>2
<1>2. CASE Refresh
  <2> DEFINE s == [state EXCEPT !.level = stored.level]
  <2>1. pc = "refresh" /\ Decide(s) /\ s \in States /\ s.level = stored.level
    BY <1>2 DEF Refresh, Typed, IndexType, States
  <2> HIDE DEF s
  <2> QED
    BY <2>1, DecideMoves
<1>3. CASE ProcessFetched
  <2>1. pc = "sync" /\ Head(fetched).level \in Levels
    BY <1>3, FetchedHead DEF ProcessFetched
  <2>2. CASE Head(fetched).level <= state.level
    BY <1>3, <2>1, <2>2 DEF ProcessFetched
  <2>3. CASE state.level < Head(fetched).level
    BY <1>3, <2>1, <2>3, IndexingMoves DEF ProcessFetched, Levels
  <2> QED
    BY <2>1, <2>2, <2>3 DEF Levels
<1>4. CASE ProcessData
  <2>1. pc = "queue" /\ pc' = "queue" /\ Head(queue).level \in Levels
    BY <1>4, QueueHead DEF ProcessData
  <2>2. CASE Head(queue).level <= state.level
    BY <1>4, <2>1, <2>2 DEF ProcessData
  <2>3. CASE state.level < Head(queue).level
    BY <1>4, <2>1, <2>3, IndexingMoves DEF ProcessData, Levels
  <2> QED
    BY <2>1, <2>2, <2>3 DEF Levels
<1>5. CASE MoveLevel
  BY <1>5 DEF MoveLevel, Typed, IndexType, States
<1>6. CASE SaveState
  BY <1>6 DEF SaveState
<1>7. Disconnect \/ Crash \/ Answer \/ ReceiveReorg => LevelsFit'
  BY DEF Disconnect, Crash, Answer, ReceiveReorg
<1>8. Subscribe \/ Schedule \/ ExitSync \/ QueueEmpty \/ StartRollback \/ RevertRows => LevelsFit'
  BY DEF Subscribe, Schedule, ExitSync, QueueEmpty, StartRollback, RevertRows
<1>9. (\E b \in Blocks : Extend(b)) \/ (\E to \in Levels : Reorg(to))
         => UNCHANGED <<pc, current, state, stored>>
  BY DEF Extend, Reorg
<1>10. Connect \/ ReceiveData \/ Spawn \/ Fetch => UNCHANGED <<pc, current, state, stored>>
  BY DEF Connect, ReceiveData, Spawn, Fetch
<1>11. UNCHANGED <<pc, current, state, stored>> => LevelsFit'
  OBVIOUS
<1> QED
  BY <1>1, <1>2, <1>3, <1>4, <1>5, <1>6, <1>7, <1>8, <1>9, <1>10, <1>11
       DEF Next, Environment, Websocket, Dispatcher

(* No step makes a synchronization go down.                                 *)
LEMMA SyncRunsStep ==
  ASSUME Typed, LevelsFit, SyncRuns, Next
  PROVE  SyncRuns'
<1> USE LevelTypes DEF SyncRuns
<1>1. CASE Process
  <2>1. CASE rolledBack
    BY <1>1, <2>1 DEF Process
  <2>2. CASE ~rolledBack
    <3>1. pc = "process" /\ Decide(state) /\ state \in States /\ fetched' = fetched
      BY <1>1, <2>2 DEF Process, Typed, IndexType
    <3> QED
      BY <3>1, DecideMoves, SMTT(20) DEF NoLevel
  <2> QED
    BY <2>1, <2>2
<1>2. CASE Refresh
  <2> DEFINE s == [state EXCEPT !.level = stored.level]
  <2>1. pc = "refresh" /\ Decide(s) /\ s \in States /\ s.level = stored.level /\ fetched' = fetched
    BY <1>2 DEF Refresh, Typed, IndexType, States
  <2> HIDE DEF s
  <2> QED
    BY <2>1, DecideMoves
<1>3. CASE Fetch
  <2>1. /\ position <= target /\ position' = position + 1 /\ fetched = <<>>
        /\ UNCHANGED <<pc, target, stored>> /\ pc = "sync"
        /\ fetched' = <<>> \/ fetched' = <<DataMsg(position, BlockAt(position))>>
    BY <1>3 DEF Fetch, MoreToFetch
  <2>2. DataMsg(position, BlockAt(position)).level = position
    BY DEF DataMsg
  <2>3. Len(fetched') <= 1 /\ \A n \in DOMAIN fetched' : fetched'[n].level = position
    <3>1. CASE fetched' = <<>>
      BY <3>1
    <3>2. CASE fetched' = <<DataMsg(position, BlockAt(position))>>
      BY <2>2, <3>2
    <3> QED
      BY <2>1, <3>1, <3>2
  <2> QED
    BY <2>1, <2>3, SMTT(20)
<1>4. CASE ProcessFetched
  <2>1. /\ pc = "sync" /\ Head(fetched).level \in Levels /\ fetched' = <<>>
        /\ Head(fetched) = fetched[1] /\ 1 \in DOMAIN fetched
        /\ UNCHANGED <<position, target>>
    BY <1>4, FetchedHead DEF ProcessFetched
  <2>2. stored.level < Head(fetched).level /\ Head(fetched).level < position
    BY <2>1
  <2>3. state.level < Head(fetched).level
    BY <2>1, <2>2 DEF LevelsFit
  <2>4. Index(Head(fetched)) /\ pc' = pc
    BY <1>4, <2>1, <2>3 DEF ProcessFetched, Levels
  <2>5. stored'.level = Head(fetched).level
    BY <2>1, <2>3, <2>4, IndexingMoves
  <2> QED
    BY <2>1, <2>2, <2>4, <2>5 DEF Levels
<1>5. Disconnect \/ Crash \/ Answer \/ Subscribe \/ Schedule \/ ExitSync \/ QueueEmpty => SyncRuns'
  BY DEF Disconnect, Crash, Answer, Subscribe, Schedule, ExitSync, QueueEmpty, fetcher
<1>6. ProcessData \/ StartRollback \/ RevertRows \/ MoveLevel \/ SaveState => SyncRuns'
  BY DEF ProcessData, StartRollback, RevertRows, MoveLevel, SaveState, fetcher
<1>7. (\E b \in Blocks : Extend(b)) \/ (\E to \in Levels : Reorg(to))
         => UNCHANGED <<pc, fetcher, stored>>
  BY DEF Extend, Reorg
<1>8. Connect \/ ReceiveData \/ ReceiveReorg \/ Spawn => UNCHANGED <<pc, fetcher, stored>>
  BY DEF Connect, ReceiveData, ReceiveReorg, Spawn
<1>9. UNCHANGED <<pc, fetcher, stored>> => SyncRuns'
  BY DEF fetcher
<1> QED
  BY <1>1, <1>2, <1>3, <1>4, <1>5, <1>6, <1>7, <1>8, <1>9 DEF Next, Environment, Websocket,
       Dispatcher

(* What moves the committed level back is a rollback.                       *)
LEMMA OnlyRollsBackStep ==
  ASSUME Typed, LevelsFit, SyncRuns, Next, stored'.level < stored.level
  PROVE  pc = "move" /\ stored'.level = current.to
<1> USE LevelTypes
<1> SUFFICES ASSUME ~(pc = "move" /\ stored'.level = current.to)
             PROVE  FALSE
  OBVIOUS
<1>1. CASE Process
  <2>1. CASE rolledBack
    BY <1>1, <2>1 DEF Process
  <2>2. CASE ~rolledBack
    <3>1. pc = "process" /\ Decide(state) /\ state \in States
      BY <1>1, <2>2 DEF Process, Typed, IndexType
    <3> QED
      BY <3>1, DecideMoves DEF LevelsFit
  <2> QED
    BY <2>1, <2>2
<1>2. CASE Refresh
  <2> DEFINE s == [state EXCEPT !.level = stored.level]
  <2>1. pc = "refresh" /\ Decide(s) /\ s \in States /\ s.level = stored.level
    BY <1>2 DEF Refresh, Typed, IndexType, States
  <2> HIDE DEF s
  <2> QED
    BY <2>1, DecideMoves
<1>3. CASE ProcessFetched
  <2>1. pc = "sync" /\ Head(fetched).level \in Levels
    BY <1>3, FetchedHead DEF ProcessFetched
  <2>2. CASE Head(fetched).level <= state.level
    BY <1>3, <2>2 DEF ProcessFetched
  <2>3. CASE state.level < Head(fetched).level
    BY <1>3, <2>1, <2>3, IndexingMoves DEF ProcessFetched, Levels, LevelsFit
  <2> QED
    BY <2>1, <2>2, <2>3 DEF Levels
<1>4. CASE ExitSync
  BY <1>4 DEF ExitSync, Updated, SyncRuns
<1>5. CASE ProcessData
  <2>1. pc = "queue" /\ Head(queue).level \in Levels
    BY <1>5, QueueHead DEF ProcessData
  <2>2. CASE Head(queue).level <= state.level
    BY <1>5, <2>2 DEF ProcessData
  <2>3. CASE state.level < Head(queue).level
    BY <1>5, <2>1, <2>3, IndexingMoves DEF ProcessData, Levels, LevelsFit
  <2> QED
    BY <2>1, <2>2, <2>3 DEF Levels
<1>6. CASE MoveLevel
  BY <1>6 DEF MoveLevel, Typed, IndexType, States
<1>7. CASE SaveState
  BY <1>7 DEF SaveState, Updated, LevelsFit
<1>8. (\E b \in Blocks : Extend(b)) \/ (\E to \in Levels : Reorg(to)) \/ Disconnect \/ Crash
         => UNCHANGED stored
  BY DEF Extend, Reorg, Disconnect, Crash
<1>9. Websocket => UNCHANGED stored
  BY DEF Websocket, Connect, Answer, ReceiveData, ReceiveReorg
<1>10. Spawn \/ Subscribe \/ Schedule \/ Fetch \/ QueueEmpty \/ StartRollback \/ RevertRows
         => UNCHANGED stored
  BY DEF Spawn, Subscribe, Schedule, Fetch, QueueEmpty, StartRollback, RevertRows
<1> QED
  BY <1>1, <1>2, <1>3, <1>4, <1>5, <1>6, <1>7, <1>8, <1>9, <1>10 DEF Next, Environment, Dispatcher

(* All of it holds at first.                                                *)
LEMMA TypedInit ==
  ASSUME Init
  PROVE  Typed /\ LevelsFit /\ SyncRuns
<1>1. \A T : <<>> \in Seq(T)
  BY EmptySeq
<1>2. chain \in Seq(Blocks) /\ HeadLevel \in Levels /\ HeadLevel = 1
  BY LifecycleAssumption DEF Init, Blocks, Levels, HeadLevel
<1>3. ChainType
  BY <1>2, LifecycleAssumption DEF Init, ChainType, Blocks
<1>4. SocketType
  BY <1>2 DEF Init, SocketType, NoLevel
<1>5. MessagesType
  BY <1>1 DEF Init, MessagesType
<1>6. IndexType
  <2>1. state \in States /\ stored \in States
    BY LifecycleAssumption DEF Init, States, Levels
  <2>2. current \in Rollbacks
    BY LifecycleAssumption DEF Init, NoRollback, RollbackMsg, Rollbacks, Levels
  <2>3. applied \in [Levels -> Blocks]
    BY LifecycleAssumption DEF Init, Blocks
  <2> QED
    BY <2>1, <2>2, <2>3, LifecycleAssumption DEF Init, IndexType, Levels
<1>7. LevelsFit /\ SyncRuns
  BY DEF Init, LevelsFit, SyncRuns
<1> QED
  BY <1>3, <1>4, <1>5, <1>6, <1>7 DEF Typed

(* The datasource has no buffer.                                            *)
Unbuffered == BufferSizes = {0}

(* Whether a part of the feed announces a reorg, whether a part of the queue has*)
(* a rollback, and the level the channel is at after n messages.            *)
ReorgIn(first, last) == \E n \in first .. last : feed[n].kind = "reorg"
ChannelAfter(n) == IF n = 0 THEN ChannelLevel ELSE feed[n].level
RollbackIn(first, last) == \E n \in first .. last : queue[n].kind = "rollback"
Returning == RollingBack \/ RollbackIn(1, Len(queue))

(* Without a buffer what the index is sent are blocks with data.            *)
UnbufferedFits ==
  /\ DOMAIN buffer = {}
  /\ \A n \in 1 .. Len(feed) : feed[n].kind = "data" => feed[n].block # 0
  /\ \A n \in 1 .. Len(queue) : queue[n].kind \in {"data", "rollback"}

(* An index is processed with a sync level.                                 *)
SyncFits ==
  /\ ~spawned => ~connected /\ syncLevel # NoLevel
  /\ ~spawned => queue = <<>>
  /\ pc \in {"process", "refresh"} => syncLevel # NoLevel /\ (spawned => subscribed)

(* The channel is not above the chain, or a reorg is on its way.            *)
HeadFits ==
  \A n \in 0 .. Len(feed) : ReorgIn(n + 1, Len(feed)) \/ ChannelAfter(n) <= HeadLevel

(* A reorg is no deeper than what precedes it allows, and neither is a rollback.*)
ReorgsShallow ==
  \A n \in 1 .. Len(feed) : feed[n].kind = "reorg" =>
       \A k \in 0 .. n - 1 :
         ReorgIn(k + 1, n - 1) \/ ChannelAfter(k) - feed[n].level <= Depth
RollbacksShallow ==
  /\ \A n \in 1 .. Len(queue) : queue[n].kind = "rollback" => queue[n].from - queue[n].to <= Depth
  /\ current.from - current.to <= Depth

(* The messages' types, pointwise.                                          *)
LEMMA FeedAt ==
  ASSUME Typed
  PROVE  /\ Len(feed) \in Nat /\ feed \in Seq(Messages) /\ DOMAIN feed = 1 .. Len(feed)
         /\ feed = <<>> <=> Len(feed) = 0
         /\ \A n \in 1 .. Len(feed) :
              feed[n].kind \in {"data", "reorg"} /\ feed[n].level \in Levels
                       /\ feed[n].block \in Blocks
<1>1. feed \in Seq(Messages)
  BY DEF Typed, MessagesType
<1>2. \A n \in 1 .. Len(feed) : feed[n] \in Messages
  BY <1>1
<1> QED
  BY <1>1, <1>2 DEF Messages

(* The queue's types, pointwise.                                            *)
LEMMA QueueAt ==
  ASSUME Typed
  PROVE  /\ Len(queue) \in Nat /\ queue \in Seq(Messages \cup Rollbacks)
           /\ DOMAIN queue = 1 .. Len(queue)
         /\ queue = <<>> <=> Len(queue) = 0
         /\ \A n \in 1 .. Len(queue) :
              IF queue[n].kind = "rollback"
              THEN queue[n].from \in Levels /\ queue[n].to \in Levels
              ELSE queue[n].level \in Levels /\ queue[n].block \in Blocks
<1>1. queue \in Seq(Messages \cup Rollbacks)
  BY DEF Typed, MessagesType
<1>2. \A n \in 1 .. Len(queue) : queue[n] \in Messages \cup Rollbacks
  BY <1>1
<1>3. \A m \in Messages : m.kind # "rollback" /\ m.level \in Levels /\ m.block \in Blocks
  BY DEF Messages
<1>4. \A m \in Rollbacks : m.kind = "rollback" /\ m.from \in Levels /\ m.to \in Levels
  BY DEF Rollbacks
<1>5. /\ Len(queue) \in Nat /\ DOMAIN queue = 1 .. Len(queue)
      /\ queue = <<>> <=> Len(queue) = 0
  BY <1>1
<1>6. ASSUME NEW n \in 1 .. Len(queue)
      PROVE  IF queue[n].kind = "rollback"
              THEN queue[n].from \in Levels /\ queue[n].to \in Levels
              ELSE queue[n].level \in Levels /\ queue[n].block \in Blocks
  BY <1>2, <1>3, <1>4
<1> QED
  BY <1>1, <1>5, <1>6

(* What the feed is once its first message is handled.                      *)
LEMMA FeedTaken ==
  ASSUME Typed, feed # <<>>, feed' = Tail(feed), channel' = Head(feed).level
  PROVE  /\ Len(feed) >= 1 /\ Len(feed') = Len(feed) - 1
         /\ \A n \in 1 .. Len(feed') : feed'[n] = feed[n + 1]
         /\ \A n \in 0 .. Len(feed') : ChannelAfter(n)' = ChannelAfter(n + 1)
         /\ \A a \in 1 .. Len(feed') + 1, b \in 0 .. Len(feed') : ReorgIn(a, b)'
                  <=> ReorgIn(a + 1, b + 1)
         /\ ChannelLevel' = feed[1].level
<1> USE FeedAt
<1>1. /\ Len(feed) >= 1 /\ Len(feed') = Len(feed) - 1
      /\ \A n \in 1 .. Len(feed') : feed'[n] = feed[n + 1]
      /\ Head(feed) = feed[1]
  BY HeadTail
<1>2. ChannelLevel' = feed[1].level
  BY <1>1 DEF ChannelLevel, Levels, NoLevel
<1>3. \A n \in 0 .. Len(feed') : ChannelAfter(n)' = ChannelAfter(n + 1)
  BY <1>1, <1>2 DEF ChannelAfter
<1>4. ASSUME NEW a \in 1 .. Len(feed') + 1, NEW b \in 0 .. Len(feed')
      PROVE  ReorgIn(a, b)' <=> ReorgIn(a + 1, b + 1)
  <2>1. ASSUME NEW n \in a .. b PROVE feed'[n].kind = feed[n + 1].kind
    BY <1>1
  <2>2. \A n \in a + 1 .. b + 1 : n - 1 \in a .. b /\ (n - 1) + 1 = n
    BY <1>1
  <2>3. \A n \in a .. b : n + 1 \in a + 1 .. b + 1
    BY <1>1
  <2>4. ASSUME NEW n \in a + 1 .. b + 1, feed[n].kind = "reorg"
        PROVE  feed'[n - 1].kind = "reorg"
    BY <2>1, <2>2, <2>4
  <2> QED
    BY SMTT(30), <2>1, <2>2, <2>3, <2>4 DEF ReorgIn
<1> QED
  BY <1>1, <1>2, <1>3, <1>4

(* What the feed is with a message more.                                    *)
LEMMA FeedSent ==
  ASSUME Typed, NEW m \in Messages, feed' = Append(feed, m), UNCHANGED <<channel, syncLevel>>
  PROVE  /\ Len(feed') = Len(feed) + 1
         /\ \A n \in 1 .. Len(feed) : feed'[n] = feed[n]
         /\ feed'[Len(feed) + 1] = m
         /\ \A n \in 0 .. Len(feed) : ChannelAfter(n)' = ChannelAfter(n)
         /\ \A n : n = Len(feed) + 1 => ChannelAfter(n)' = m.level
         /\ \A a \in 1 .. Len(feed) + 1, b \in 0 .. Len(feed) : ReorgIn(a, b)' <=> ReorgIn(a, b)
         /\ \A a \in 1 .. Len(feed) + 1 : \A b : b = Len(feed) + 1 =>
              (ReorgIn(a, b)' <=> ReorgIn(a, Len(feed)) \/ m.kind = "reorg")
         /\ ChannelLevel' = ChannelLevel
<1> USE FeedAt
<1>1. /\ Len(feed') = Len(feed) + 1
      /\ \A n \in 1 .. Len(feed) : feed'[n] = feed[n]
      /\ feed'[Len(feed) + 1] = m
  BY AppendAt
<1>2. ChannelLevel' = ChannelLevel
  BY DEF ChannelLevel
<1>3. /\ \A n \in 0 .. Len(feed) : ChannelAfter(n)' = ChannelAfter(n)
      /\ \A n : n = Len(feed) + 1 => ChannelAfter(n)' = m.level
  BY <1>1, <1>2 DEF ChannelAfter
<1>4. \A a \in 1 .. Len(feed) + 1, b \in 0 .. Len(feed) : ReorgIn(a, b)' <=> ReorgIn(a, b)
  BY <1>1 DEF ReorgIn
<1>5. ASSUME NEW a \in 1 .. Len(feed) + 1, NEW b, b = Len(feed) + 1
      PROVE  ReorgIn(a, b)' <=> ReorgIn(a, Len(feed)) \/ m.kind = "reorg"
  <2>1. \A n \in a .. b : n \in a .. Len(feed) \/ n = b
    BY <1>5
  <2>2. b \in a .. b /\ \A n \in a .. Len(feed) : n \in a .. b
    BY <1>5
  <2>3. /\ \A n \in a .. Len(feed) : feed'[n] = feed[n]
        /\ feed'[b] = m
    BY <1>1, <1>5
  <2> QED
    BY <2>1, <2>2, <2>3 DEF ReorgIn
<1> QED
  BY <1>1, <1>2, <1>3, <1>4, <1>5

(* What handling a block does without a buffer.                             *)
LEMMA ReceivesData ==
  ASSUME Typed, UnbufferedFits, bufferSize = 0, ReceiveData
  PROVE  /\ feed # <<>> /\ feed' = Tail(feed) /\ channel' = Head(feed).level
         /\ Head(feed).kind = "data" /\ Head(feed) = feed[1]
         /\ queue' = Append(queue, Head(feed)) /\ DOMAIN buffer' = {}
<1> DEFINE m == Head(feed)
           held == Added(m)
<1>1. /\ feed # <<>> /\ feed' = Tail(feed) /\ m.kind = "data" /\ m = feed[1]
      /\ m \in Messages /\ m.level \in Levels /\ m.block # 0
  BY FeedHead, FeedAt DEF ReceiveData, UnbufferedFits
<1>2. channel' = m.level /\ buffer' = Kept(held) /\ queue' = queue \o Emitted(held)
  BY <1>1 DEF ReceiveData
<1>3. DOMAIN held = {m.level}
  BY DEF Added, UnbufferedFits
<1>4. held[m.level] = <<m>>
  <2>1. held[m.level] = Append(<<>>, m)
    BY <1>1 DEF Added, UnbufferedFits
  <2> QED
    BY <2>1
<1>5. Yielded({m.level}) = {m.level}
  <2>1. Cardinality({m.level}) = 1
    BY FS_Singleton
  <2>2. {k \in {m.level} : k < m.level} = {}
    BY <1>1 DEF Levels
  <2>3. Cardinality({k \in {m.level} : k < m.level}) = 0
    BY <2>2, FS_EmptySet
  <2> QED
    BY <2>1, <2>3 DEF Yielded
<1> HIDE DEF held
<1>6. Emitted(held) = <<m>>
  BY <1>1, <1>3, <1>4, <1>5, EmittedAlone
<1>7. DOMAIN Kept(held) = {}
  BY <1>3, <1>5 DEF Kept
<1>8. queue' = Append(queue, m)
  BY <1>1, <1>2, <1>6, QueueAt
<1> QED
  BY <1>1, <1>2, <1>7, <1>8

(* What handling a reorg does without a buffer.                             *)
LEMMA ReceivesReorg ==
  ASSUME Typed, UnbufferedFits, ReceiveReorg
  PROVE  /\ feed # <<>> /\ feed' = Tail(feed) /\ channel' = Head(feed).level
         /\ Head(feed).kind = "reorg" /\ Head(feed) = feed[1] /\ subscribed
         /\ ChannelLevel \in Levels /\ Head(feed).level \in Levels
         /\ DOMAIN buffer' = {}
         /\ IF ChannelLevel <= Head(feed).level THEN UNCHANGED <<state, queue>>
            ELSE /\ state' = stored
                 /\ queue' = IF Head(feed).level < stored.level
                             THEN Append(queue, RollbackMsg(ChannelLevel, Head(feed).level))
                             ELSE queue
<1> DEFINE to == Head(feed).level
<1>1. /\ feed # <<>> /\ feed' = Tail(feed) /\ Head(feed).kind = "reorg" /\ Head(feed) = feed[1]
      /\ to \in Levels /\ channel' = to /\ buffer' = Dropped(ChannelLevel, to)
      /\ IF Buffered(ChannelLevel, to) THEN UNCHANGED <<state, queue>>
         ELSE /\ state' = stored
              /\ queue' = IF Affected(to) THEN Append(queue, RollbackMsg(ChannelLevel, to))
                                          ELSE queue
  BY FeedHead DEF ReceiveReorg
<1>2. subscribed /\ ChannelLevel \in Levels
  BY <1>1, ChannelType DEF Typed, SocketType
<1>3. Buffered(ChannelLevel, to) <=> ChannelLevel <= to
  BY <1>1, <1>2 DEF Buffered, UnbufferedFits, Levels
<1>4. DOMAIN buffer' = {}
  BY <1>1 DEF Dropped, UnbufferedFits
<1> HIDE DEF to
<1> QED
  BY <1>1, <1>2, <1>3, <1>4 DEF Affected, to

(* What the queue is once its first item is handled.                        *)
LEMMA QueueTaken ==
  ASSUME Typed, queue # <<>>, queue' = Tail(queue)
  PROVE  /\ Len(queue) >= 1 /\ Len(queue') = Len(queue) - 1 /\ Head(queue) = queue[1]
         /\ \A n \in 1 .. Len(queue') : queue'[n] = queue[n + 1]
         /\ \A n \in 2 .. Len(queue) : queue[n] = queue'[n - 1]
<1> USE QueueAt
<1>1. /\ Len(queue) >= 1 /\ Len(queue') = Len(queue) - 1
      /\ \A n \in 1 .. Len(queue') : queue'[n] = queue[n + 1]
      /\ Head(queue) = queue[1]
  BY HeadTail
<1>2. ASSUME NEW n \in 2 .. Len(queue) PROVE queue[n] = queue'[n - 1]
  <2>1. n - 1 \in 1 .. Len(queue') /\ (n - 1) + 1 = n
    BY <1>1
  <2> QED
    BY <1>1, <2>1
<1> QED
  BY <1>1, <1>2

(* What the queue is with an item more.                                     *)
LEMMA QueueGiven ==
  ASSUME Typed, NEW m \in Messages \cup Rollbacks, queue' = Append(queue, m)
  PROVE  /\ Len(queue') = Len(queue) + 1
         /\ \A n \in 1 .. Len(queue) : queue'[n] = queue[n]
         /\ queue'[Len(queue) + 1] = m
  BY QueueAt, AppendAt

(* The steps that touch the messages on their way or the chain.             *)
LEMMA WireFrame ==
  ASSUME Next
  PROVE  \/ \E b \in Blocks : Extend(b)
         \/ \E to \in Levels : Reorg(to)
         \/ Disconnect \/ Crash \/ Answer \/ ReceiveData \/ ReceiveReorg
         \/ UNCHANGED <<chain, subscribed, feed, channel, syncLevel>>
<1>1. Connect \/ Spawn \/ Subscribe \/ Schedule \/ Process \/ Refresh \/ Fetch
        => UNCHANGED <<chain, subscribed, feed, channel, syncLevel>>
  BY DEF Connect, Spawn, Subscribe, Schedule, Process, Refresh, Fetch, environment, datasource
<1>2. ProcessFetched \/ ExitSync \/ QueueEmpty \/ ProcessData \/ StartRollback
        => UNCHANGED <<chain, subscribed, feed, channel, syncLevel>>
  BY DEF ProcessFetched, ExitSync, QueueEmpty, ProcessData, StartRollback, environment, datasource
<1>3. RevertRows \/ MoveLevel \/ SaveState
        => UNCHANGED <<chain, subscribed, feed, channel, syncLevel>>
  BY DEF RevertRows, MoveLevel, SaveState, environment, datasource
<1> QED
  BY <1>1, <1>2, <1>3 DEF Next, Environment, Websocket, Dispatcher

(* The steps that touch the queue or the rollback being processed.          *)
LEMMA QueueFrame ==
  ASSUME Next
  PROVE  \/ Crash \/ ReceiveData \/ ReceiveReorg \/ Process \/ Refresh
         \/ ProcessData \/ StartRollback \/ SaveState
         \/ UNCHANGED <<queue, current>>
<1>1. (\E b \in Blocks : Extend(b)) \/ (\E to \in Levels : Reorg(to))
        \/ Disconnect \/ Connect \/ Answer
        => UNCHANGED <<queue, current>>
  BY DEF Extend, Reorg, Disconnect, Connect, Answer
<1>2. Spawn \/ Subscribe \/ Schedule \/ Fetch \/ ProcessFetched \/ ExitSync \/ QueueEmpty
        \/ RevertRows \/ MoveLevel
        => UNCHANGED <<queue, current>>
  BY DEF Spawn, Subscribe, Schedule, Fetch, ProcessFetched, ExitSync, QueueEmpty, RevertRows,
       MoveLevel
<1> QED
  BY <1>1, <1>2 DEF Next, Environment, Websocket, Dispatcher

(* Processing an index throws the queue away or leaves it.                  *)
LEMMA Clears ==
  ASSUME Process \/ Refresh
  PROVE  (queue' = <<>> \/ queue' = queue) /\ UNCHANGED current
  BY DEF Process, Refresh, Decide

(* What an announced block and an announced reorg change.                   *)
LEMMA Extends ==
  ASSUME Typed, bufferSize = 0, NEW b \in Blocks, Extend(b)
  PROVE  /\ HeadLevel + 1 \in Levels /\ HeadLevel' = HeadLevel + 1
         /\ \A l \in Levels : BlockAt(l)' = IF l = HeadLevel + 1 THEN b ELSE BlockAt(l)
         /\ feed' = IF subscribed /\ b # 0 THEN Append(feed, DataMsg(HeadLevel + 1, b)) ELSE feed
         /\ UNCHANGED <<subscribed, channel, syncLevel>>
         /\ DataMsg(HeadLevel + 1, b) \in Messages
         /\ DataMsg(HeadLevel + 1, b).kind = "data"
         /\ DataMsg(HeadLevel + 1, b).level = HeadLevel + 1
         /\ DataMsg(HeadLevel + 1, b).block = b
<1>1. HeadLevel \in Nat /\ MaxLevel \in Nat /\ chain \in Seq(Blocks)
  BY LevelTypes DEF Typed, ChainType
<1>2. /\ HeadLevel < MaxLevel /\ chain' = Append(chain, b)
      /\ feed' = IF subscribed /\ b # 0 THEN Append(feed, DataMsg(HeadLevel + 1, b)) ELSE feed
      /\ UNCHANGED <<subscribed, channel, syncLevel>>
  BY DEF Extend
<1>3. HeadLevel + 1 \in Levels
  BY <1>1, <1>2 DEF Levels
<1>4. HeadLevel' = HeadLevel + 1
  BY <1>1, <1>2, AppendAt DEF HeadLevel
<1>5. ASSUME NEW l \in Levels
      PROVE  BlockAt(l)' = IF l = HeadLevel + 1 THEN b ELSE BlockAt(l)
  <2>1. /\ \A n \in 1 .. HeadLevel : chain'[n] = chain[n]
        /\ chain'[HeadLevel + 1] = b
    BY <1>1, <1>2, AppendAt DEF HeadLevel
  <2> QED
    BY <1>1, <1>3, <1>4, <2>1 DEF BlockAt, Levels
<1>6. /\ DataMsg(HeadLevel + 1, b) \in Messages
      /\ DataMsg(HeadLevel + 1, b).kind = "data"
      /\ DataMsg(HeadLevel + 1, b).level = HeadLevel + 1
      /\ DataMsg(HeadLevel + 1, b).block = b
  BY <1>3 DEF DataMsg, Messages
<1> QED
  BY <1>2, <1>3, <1>4, <1>5, <1>6

(* What a reorg changes.                                                    *)
LEMMA Reorganises ==
  ASSUME Typed, NEW to \in Levels, Reorg(to)
  PROVE  /\ 1 <= to /\ to < HeadLevel /\ HeadLevel' = to
         /\ \A l \in Levels : BlockAt(l)' = IF l <= to THEN BlockAt(l) ELSE 0
         /\ feed' = IF subscribed THEN Append(feed, ReorgMsg(to)) ELSE feed
         /\ UNCHANGED <<subscribed, channel, syncLevel>>
         /\ ReorgMsg(to) \in Messages
         /\ ReorgMsg(to).kind = "reorg" /\ ReorgMsg(to).level = to
         /\ bufferSize = 0 => HeadLevel - to <= Depth
<1>1. HeadLevel \in Nat /\ MaxLevel \in Nat /\ chain \in Seq(Blocks) /\ to \in Nat
  BY LevelTypes DEF Typed, ChainType, Levels
<1>2. /\ 1 <= to /\ to < HeadLevel /\ chain' = SubSeq(chain, 1, to)
      /\ feed' = IF subscribed THEN Append(feed, ReorgMsg(to)) ELSE feed
      /\ UNCHANGED <<subscribed, channel, syncLevel>>
      /\ bufferSize = 0 => HeadLevel - to <= Depth
  BY DEF Reorg
<1>3. Len(chain') = to /\ \A n \in 1 .. to : chain'[n] = chain[n]
  BY <1>1, <1>2 DEF HeadLevel
<1>4. HeadLevel' = to
  BY <1>3 DEF HeadLevel
<1>5. ASSUME NEW l \in Levels
      PROVE  BlockAt(l)' = IF l <= to THEN BlockAt(l) ELSE 0
  BY <1>1, <1>2, <1>3, <1>4 DEF BlockAt, Levels
<1>6. /\ ReorgMsg(to) \in Messages
      /\ ReorgMsg(to).kind = "reorg" /\ ReorgMsg(to).level = to
  BY LifecycleAssumption DEF ReorgMsg, Messages, Blocks
<1> QED
  BY <1>2, <1>4, <1>5, <1>6

(* No step puts anything else into the feed, the queue or the buffer.       *)
LEMMA UnbufferedStep ==
  ASSUME Typed, UnbufferedFits, bufferSize = 0, Next
  PROVE  UnbufferedFits'
<1> USE FeedAt, QueueAt
<1>1. DOMAIN buffer' = {}
  <2>1. ReceiveData \/ ReceiveReorg \/ UNCHANGED buffer \/ buffer' = <<>>
    <3>1. (\E b \in Blocks : Extend(b)) \/ (\E to \in Levels : Reorg(to))
            \/ Disconnect \/ Connect \/ Answer
            => UNCHANGED buffer
      BY DEF Extend, Reorg, Disconnect, Connect, Answer
    <3>2. Crash => buffer' = <<>>
      BY DEF Crash
    <3>3. Dispatcher => UNCHANGED buffer
      <4>1. Spawn \/ Subscribe \/ Schedule \/ Process \/ Refresh \/ Fetch \/ ProcessFetched
               => UNCHANGED buffer
        BY DEF Spawn, Subscribe, Schedule, Process, Refresh, Fetch, ProcessFetched, datasource
      <4>2. ExitSync \/ QueueEmpty \/ ProcessData \/ StartRollback \/ RevertRows \/ MoveLevel
               \/ SaveState => UNCHANGED buffer
        BY DEF ExitSync, QueueEmpty, ProcessData, StartRollback, RevertRows, MoveLevel,
             SaveState, datasource
      <4> QED
        BY <4>1, <4>2 DEF Dispatcher
    <3> QED
      BY <3>1, <3>2, <3>3 DEF Next, Environment, Websocket
  <2> QED
    BY <2>1, ReceivesData, ReceivesReorg DEF UnbufferedFits
<1>2. \A n \in 1 .. Len(feed') : feed'[n].kind = "data" => feed'[n].block # 0
  <2>1. ASSUME NEW b \in Blocks, Extend(b), feed' # feed
        PROVE  \A n \in 1 .. Len(feed') : feed'[n].kind = "data" => feed'[n].block # 0
    BY <2>1, Extends, FeedSent DEF UnbufferedFits
  <2>2. ASSUME NEW to \in Levels, Reorg(to), feed' # feed
        PROVE  \A n \in 1 .. Len(feed') : feed'[n].kind = "data" => feed'[n].block # 0
    BY <2>2, Reorganises, FeedSent DEF UnbufferedFits
  <2>3. ASSUME ReceiveData \/ ReceiveReorg
        PROVE  \A n \in 1 .. Len(feed') : feed'[n].kind = "data" => feed'[n].block # 0
    <3>1. feed # <<>> /\ feed' = Tail(feed) /\ channel' = Head(feed).level
      BY <2>3, ReceivesData, ReceivesReorg
    <3> QED
      BY <3>1, FeedTaken DEF UnbufferedFits
  <2>4. Disconnect \/ Crash => feed' = <<>>
    BY DEF Disconnect, Crash
  <2>5. Answer => feed' = feed
    BY DEF Answer
  <2> QED
    BY <2>1, <2>2, <2>3, <2>4, <2>5, WireFrame DEF UnbufferedFits
<1>3. \A n \in 1 .. Len(queue') : queue'[n].kind \in {"data", "rollback"}
  <2>1. CASE ReceiveData
    <3>1. queue' = Append(queue, Head(feed)) /\ Head(feed).kind = "data" /\ Head(feed) \in Messages
      BY <2>1, ReceivesData, FeedHead
    <3> QED
      BY <3>1, QueueGiven DEF UnbufferedFits
  <2>2. CASE ReceiveReorg
    <3> DEFINE m == RollbackMsg(ChannelLevel, Head(feed).level)
    <3>1. queue' = queue \/ queue' = Append(queue, m)
      BY <2>2, ReceivesReorg
    <3>2. m \in Rollbacks /\ m.kind = "rollback"
      BY <2>2, ReceivesReorg DEF RollbackMsg, Rollbacks
    <3> HIDE DEF m
    <3> QED
      BY <3>1, <3>2, QueueGiven DEF UnbufferedFits
  <2>3. CASE ProcessData \/ StartRollback
    <3>1. queue # <<>> /\ queue' = Tail(queue)
      BY <2>3 DEF ProcessData, StartRollback
    <3> QED
      BY <3>1, QueueTaken DEF UnbufferedFits
  <2>4. CASE Crash
    BY <2>4 DEF Crash
  <2>5. CASE SaveState
    BY <2>5 DEF SaveState, UnbufferedFits
  <2> QED
    BY <2>1, <2>2, <2>3, <2>4, <2>5, QueueFrame, Clears DEF UnbufferedFits
<1> QED
  BY <1>1, <1>2, <1>3 DEF UnbufferedFits

(* No step leaves an index to be processed without a sync level.            *)
LEMMA SyncFitsStep ==
  ASSUME Typed, LevelsFit, SyncRuns, SyncFits, "early_drop" \notin Hazards, Next
  PROVE  SyncFits'
<1> USE LevelTypes DEF SyncFits
<1>1. CASE Crash
  BY <1>1 DEF Crash, NoLevel
<1>2. CASE Answer
  BY <1>2 DEF Answer, NoLevel
<1>3. CASE ReceiveData
  <2>1. subscribed /\ connected /\ spawned
    BY <1>3 DEF ReceiveData, Typed, SocketType
  <2> QED
    BY <1>3, <2>1 DEF ReceiveData
<1>4. CASE ReceiveReorg
  <2>1. subscribed /\ connected /\ spawned
    BY <1>4 DEF ReceiveReorg, Typed, SocketType
  <2> QED
    BY <1>4, <2>1 DEF ReceiveReorg
<1>5. CASE Schedule
  BY <1>5 DEF Schedule, datasource, Typed, SocketType
<1>6. CASE Process
  <2>1. CASE rolledBack
    BY <1>6, <2>1 DEF Process, datasource
  <2>2. CASE ~rolledBack
    <3>1. Decide(state) /\ state \in States /\ UNCHANGED <<datasource, spawned>>
      BY <1>6, <2>2 DEF Process, Typed, IndexType
    <3> QED
      BY <3>1, DecideMoves DEF datasource
  <2> QED
    BY <2>1, <2>2
<1>7. CASE Refresh
  <2> DEFINE s == [state EXCEPT !.level = stored.level]
  <2>1. Decide(s) /\ s \in States /\ UNCHANGED <<datasource, spawned>>
    BY <1>7 DEF Refresh, Typed, IndexType, States
  <2> HIDE DEF s
  <2> QED
    BY <2>1, DecideMoves DEF datasource
<1>8. (\E b \in Blocks : Extend(b)) \/ (\E to \in Levels : Reorg(to)) \/ Disconnect \/ Connect
         => SyncFits'
  BY DEF Extend, Reorg, Disconnect, Connect
<1>9. Spawn \/ Subscribe \/ Fetch \/ ProcessFetched \/ ExitSync \/ QueueEmpty => SyncFits'
  BY DEF Spawn, Subscribe, Fetch, ProcessFetched, ExitSync, QueueEmpty, datasource
<1>10. ProcessData \/ StartRollback \/ RevertRows \/ MoveLevel \/ SaveState => SyncFits'
  BY DEF ProcessData, StartRollback, RevertRows, MoveLevel, SaveState, datasource
<1> QED
  BY <1>1, <1>2, <1>3, <1>4, <1>5, <1>6, <1>7, <1>8, <1>9, <1>10
       DEF Next, Environment, Websocket, Dispatcher

(* The circumstances in which a reorg is missed or forgotten.               *)
Remembered == {"offline", "lost_rollback"}

(* What may be lost has no rollback in it.                                  *)
LEMMA ReorgIsHeld ==
  ASSUME Typed, MayLose, "lost_rollback" \notin Hazards
  PROVE  ~ReorgIn(1, Len(feed)) /\ ~RollbackIn(1, Len(queue)) /\ ~RollingBack
  BY FeedAt, QueueAt DEF MayLose, HoldsRollback, Elements, ReorgIn, RollbackIn

(* With the wire and the chain as they were, so are their levels.           *)
LEMMA WireKept ==
  ASSUME UNCHANGED <<chain, subscribed, feed, channel, syncLevel>>
  PROVE  /\ UNCHANGED <<HeadLevel, ChannelLevel>>
         /\ \A n : ChannelAfter(n)' = ChannelAfter(n)
         /\ \A a, b : ReorgIn(a, b)' <=> ReorgIn(a, b)
         /\ \A l : BlockAt(l)' = BlockAt(l)
  BY DEF HeadLevel, ChannelLevel, ChannelAfter, ReorgIn, BlockAt

(* The level the channel is at is a number.                                 *)
LEMMA ChannelAfterType ==
  ASSUME Typed, NEW n \in 0 .. Len(feed)
  PROVE  ChannelAfter(n) \in Int
  BY FeedAt, ChannelType, LifecycleAssumption DEF ChannelAfter, Levels, NoLevel

(* No step takes the channel above the chain but with a reorg on its way.   *)
LEMMA HeadFitsStep ==
  ASSUME Typed, UnbufferedFits, bufferSize = 0, HeadFits, Hazards \cap Remembered = {}, Next
  PROVE  HeadFits'
<1> USE FeedAt, LevelTypes
<1>1. ASSUME NEW b \in Blocks, Extend(b) PROVE HeadFits'
  <2> DEFINE m == DataMsg(HeadLevel + 1, b)
  <2>1. /\ HeadLevel' = HeadLevel + 1 /\ UNCHANGED <<channel, syncLevel>>
        /\ m \in Messages /\ m.kind = "data" /\ m.level = HeadLevel + 1
        /\ feed' = feed \/ feed' = Append(feed, m)
    BY <1>1, Extends
  <2> HIDE DEF m
  <2>2. CASE feed' = feed
    <3>1. UNCHANGED ChannelLevel
      BY <2>1 DEF ChannelLevel
    <3> QED
      BY <2>1, <2>2, <3>1, ChannelAfterType, SMTT(20) DEF HeadFits, ReorgIn, ChannelAfter
  <2>3. CASE feed' = Append(feed, m)
    <3>1. ASSUME NEW n \in 0 .. Len(feed')
          PROVE  \A l : l = Len(feed') => ReorgIn(n + 1, l)' \/ ChannelAfter(n)' <= HeadLevel'
      <4>1. CASE n = Len(feed) + 1
        BY <2>1, <2>3, <4>1, FeedSent
      <4>2. CASE n \in 0 .. Len(feed)
        <5>1. ChannelAfter(n)' = ChannelAfter(n) /\ ChannelAfter(n) \in Int
          BY <2>1, <2>3, <4>2, FeedSent, ChannelAfterType
        <5>2. \A l : l = Len(feed') => (ReorgIn(n + 1, l)' <=> ReorgIn(n + 1, Len(feed)))
          <6>1. n + 1 \in 1 .. Len(feed) + 1
            BY <4>2
          <6>2. Len(feed') = Len(feed) + 1
            BY <2>1, <2>3, FeedSent
          <6>3. \A a \in 1 .. Len(feed) + 1 : \A l : l = Len(feed) + 1 =>
                  (ReorgIn(a, l)' <=> ReorgIn(a, Len(feed)) \/ m.kind = "reorg")
            BY <2>1, <2>3, FeedSent
          <6> QED
            BY <2>1, <6>1, <6>2, <6>3
        <5> QED
          BY <2>1, <4>2, <5>1, <5>2 DEF HeadFits
      <4> QED
        BY <2>1, <2>3, <4>1, <4>2, FeedSent
    <3> QED
      BY <3>1 DEF HeadFits
  <2> QED
    BY <2>1, <2>2, <2>3
<1>2. ASSUME NEW to \in Levels, Reorg(to) PROVE HeadFits'
  <2> DEFINE m == ReorgMsg(to)
  <2>1. /\ HeadLevel' = to /\ UNCHANGED <<channel, syncLevel>> /\ subscribed
        /\ feed' = Append(feed, m) /\ m \in Messages /\ m.kind = "reorg" /\ m.level = to
    BY <1>2, Reorganises DEF Reorg, Remembered
  <2> HIDE DEF m
  <2>2. ASSUME NEW n \in 0 .. Len(feed')
        PROVE  \A l : l = Len(feed') => ReorgIn(n + 1, l)' \/ ChannelAfter(n)' <= HeadLevel'
    <3>1. CASE n = Len(feed) + 1
      BY <2>1, <3>1, FeedSent DEF Levels
    <3>2. CASE n \in 0 .. Len(feed)
      BY <2>1, <3>2, FeedSent
    <3> QED
      BY <2>1, <3>1, <3>2, FeedSent
  <2> QED
    BY <2>2 DEF HeadFits
<1>3. ASSUME Disconnect PROVE HeadFits'
  <2>1. ~ReorgIn(1, Len(feed))
    BY <1>3, ReorgIsHeld DEF Disconnect, Remembered
  <2>2. ChannelLevel <= HeadLevel
    BY <2>1 DEF HeadFits, ChannelAfter
  <2>3. feed' = <<>> /\ HeadLevel' = HeadLevel /\ syncLevel' = NoLevel /\ channel' = channel
    BY <1>3 DEF Disconnect, HeadLevel
  <2>4. ChannelLevel' <= HeadLevel'
    BY <2>2, <2>3 DEF ChannelLevel, NoLevel
  <2> QED
    BY <2>3, <2>4 DEF HeadFits, ChannelAfter
<1>4. ASSUME Crash PROVE HeadFits'
  <2>1. feed' = <<>> /\ HeadLevel' = HeadLevel /\ syncLevel' = HeadLevel /\ channel' = NoLevel
    BY <1>4 DEF Crash, HeadLevel
  <2>2. ChannelLevel' <= HeadLevel'
    BY <2>1 DEF ChannelLevel
  <2> QED
    BY <2>1, <2>2 DEF HeadFits, ChannelAfter
<1>5. ASSUME Answer PROVE HeadFits'
  <2>1. feed = <<>> /\ feed' = feed /\ HeadLevel' = HeadLevel /\ syncLevel' = HeadLevel
           /\ channel' = channel
    BY <1>5 DEF Answer, HeadLevel, environment, Typed, SocketType
  <2>2. ChannelLevel <= HeadLevel
    BY <2>1 DEF HeadFits, ChannelAfter, ReorgIn
  <2>3. ChannelLevel' <= HeadLevel'
    BY <2>1, <2>2 DEF ChannelLevel
  <2> QED
    BY <2>1, <2>3 DEF HeadFits, ChannelAfter
<1>6. ASSUME ReceiveData \/ ReceiveReorg PROVE HeadFits'
  <2>1. feed # <<>> /\ feed' = Tail(feed) /\ channel' = Head(feed).level /\ HeadLevel' = HeadLevel
    BY <1>6, ReceivesData, ReceivesReorg DEF ReceiveData, ReceiveReorg, environment, HeadLevel
  <2>2. ASSUME NEW n \in 0 .. Len(feed')
        PROVE  \A l : l = Len(feed') => ReorgIn(n + 1, l)' \/ ChannelAfter(n)' <= HeadLevel'
    <3>1. n + 1 \in 0 .. Len(feed) /\ Len(feed') + 1 = Len(feed)
      BY <2>1, FeedTaken, SMTT(20)
    <3>2. ReorgIn((n + 1) + 1, Len(feed)) \/ ChannelAfter(n + 1) <= HeadLevel
      BY <3>1 DEF HeadFits
    <3> QED
      BY <2>1, <3>1, <3>2, FeedTaken
  <2> QED
    BY <2>2 DEF HeadFits
<1>7. CASE UNCHANGED <<chain, subscribed, feed, channel, syncLevel>>
  BY <1>7, WireKept DEF HeadFits
<1> QED
  BY <1>1, <1>2, <1>3, <1>4, <1>5, <1>6, <1>7, WireFrame

(* No step announces a reorg that is deeper.                                *)
LEMMA ReorgsShallowStep ==
  ASSUME Typed, UnbufferedFits, bufferSize = 0, HeadFits, ReorgsShallow, Next
  PROVE  ReorgsShallow'
<1> USE FeedAt, LevelTypes
<1>1. ASSUME NEW b \in Blocks, Extend(b) PROVE ReorgsShallow'
  <2> DEFINE m == DataMsg(HeadLevel + 1, b)
  <2>1. /\ UNCHANGED <<channel, syncLevel>>
        /\ m \in Messages /\ m.kind = "data" /\ m.level = HeadLevel + 1
        /\ feed' = feed \/ feed' = Append(feed, m)
    BY <1>1, Extends
  <2> HIDE DEF m
  <2>2. CASE feed' = feed
    <3>1. UNCHANGED ChannelLevel
      BY <2>1 DEF ChannelLevel
    <3> QED
      BY <2>1, <2>2, <3>1 DEF ReorgsShallow, ReorgIn, ChannelAfter
  <2>3. CASE feed' = Append(feed, m)
    <3>1. ASSUME NEW n \in 1 .. Len(feed'), feed'[n].kind = "reorg", NEW k \in 0 .. n - 1
          PROVE  ReorgIn(k + 1, n - 1)' \/ ChannelAfter(k)' - feed'[n].level <= Depth
      <4>1. n \in 1 .. Len(feed) /\ feed'[n] = feed[n]
        BY <2>1, <2>3, <3>1, FeedSent, SMTT(20)
      <4>2. ReorgIn(k + 1, n - 1) \/ ChannelAfter(k) - feed[n].level <= Depth
        BY <3>1, <4>1 DEF ReorgsShallow
      <4>3. k + 1 \in 1 .. Len(feed) + 1 /\ n - 1 \in 0 .. Len(feed) /\ k \in 0 .. Len(feed)
        BY <4>1, SMTT(20)
      <4> QED
        BY <2>1, <2>3, <4>1, <4>2, <4>3, FeedSent
    <3> QED
      BY <3>1 DEF ReorgsShallow
  <2> QED
    BY <2>1, <2>2, <2>3
<1>2. ASSUME NEW to \in Levels, Reorg(to) PROVE ReorgsShallow'
  <2> DEFINE m == ReorgMsg(to)
  <2>1. /\ UNCHANGED <<channel, syncLevel>>
        /\ feed' = feed \/ feed' = Append(feed, m)
        /\ m \in Messages /\ m.kind = "reorg" /\ m.level = to /\ HeadLevel - to <= Depth
    BY <1>2, Reorganises
  <2> HIDE DEF m
  <2>2. CASE feed' = feed
    <3>1. UNCHANGED ChannelLevel
      BY <2>1 DEF ChannelLevel
    <3> QED
      BY <2>1, <2>2, <3>1 DEF ReorgsShallow, ReorgIn, ChannelAfter
  <2>3. CASE feed' = Append(feed, m)
    <3>1. ASSUME NEW n \in 1 .. Len(feed'), feed'[n].kind = "reorg", NEW k \in 0 .. n - 1
          PROVE  ReorgIn(k + 1, n - 1)' \/ ChannelAfter(k)' - feed'[n].level <= Depth
      <4>0. Len(feed') = Len(feed) + 1
        BY <2>1, <2>3, FeedSent
      <4>1. k + 1 \in 1 .. Len(feed) + 1 /\ n - 1 \in 0 .. Len(feed) /\ k \in 0 .. Len(feed)
        BY SMTT(30), <3>1, <4>0
      <4>2. /\ ReorgIn(k + 1, n - 1)' <=> ReorgIn(k + 1, n - 1)
            /\ ChannelAfter(k)' = ChannelAfter(k) /\ ChannelAfter(k) \in Int
        BY <2>1, <2>3, <4>1, FeedSent, ChannelAfterType
      <4>3. CASE n = Len(feed) + 1
        <5>1. feed'[n].level = to /\ n - 1 = Len(feed) /\ to \in Nat /\ Depth \in Int
          BY <2>1, <2>3, <4>3, FeedSent, LifecycleAssumption DEF Levels
        <5>2. ReorgIn(k + 1, n - 1) \/ ChannelAfter(k) <= HeadLevel
          BY <4>1, <5>1 DEF HeadFits
        <5> QED
          BY SMTT(30), <2>1, <4>2, <5>1, <5>2
      <4>4. CASE n \in 1 .. Len(feed)
        <5>1. feed'[n] = feed[n]
          BY <2>1, <2>3, <4>4, FeedSent
        <5> QED
          BY <3>1, <4>2, <4>4, <5>1 DEF ReorgsShallow
      <4> QED
        BY SMTT(30), <2>1, <2>3, <4>3, <4>4, FeedSent
    <3> QED
      BY <3>1 DEF ReorgsShallow
  <2> QED
    BY <2>1, <2>2, <2>3
<1>3. Disconnect \/ Crash => ReorgsShallow'
  BY DEF Disconnect, Crash, ReorgsShallow
<1>4. ASSUME Answer PROVE ReorgsShallow'
  <2>1. feed' = <<>>
    BY <1>4 DEF Answer, Typed, SocketType
  <2> QED
    BY <2>1 DEF ReorgsShallow
<1>5. ASSUME ReceiveData \/ ReceiveReorg PROVE ReorgsShallow'
  <2>1. feed # <<>> /\ feed' = Tail(feed) /\ channel' = Head(feed).level
    BY <1>5, ReceivesData, ReceivesReorg
  <2>2. ASSUME NEW n \in 1 .. Len(feed'), feed'[n].kind = "reorg", NEW k \in 0 .. n - 1
        PROVE  ReorgIn(k + 1, n - 1)' \/ ChannelAfter(k)' - feed'[n].level <= Depth
    <3>1. /\ n + 1 \in 1 .. Len(feed) /\ k + 1 \in 0 .. (n + 1) - 1 /\ feed'[n] = feed[n + 1]
          /\ k + 1 \in 1 .. Len(feed') + 1 /\ n - 1 \in 0 .. Len(feed') /\ k \in 0 .. Len(feed')
          /\ (n - 1) + 1 = n /\ (n + 1) - 1 = n
      BY SMTT(30), <2>1, FeedTaken
    <3>2. ReorgIn((k + 1) + 1, n) \/ ChannelAfter(k + 1) - feed[n + 1].level <= Depth
      BY <2>2, <3>1 DEF ReorgsShallow
    <3>3. ReorgIn(k + 1, n - 1)' <=> ReorgIn((k + 1) + 1, n)
      BY <2>1, <3>1, FeedTaken
    <3>4. ChannelAfter(k)' = ChannelAfter(k + 1)
      BY <2>1, <3>1, FeedTaken
    <3> QED
      BY <3>1, <3>2, <3>3, <3>4
  <2> QED
    BY <2>2 DEF ReorgsShallow
<1>6. CASE UNCHANGED <<chain, subscribed, feed, channel, syncLevel>>
  BY <1>6, WireKept DEF ReorgsShallow
<1> QED
  BY <1>1, <1>2, <1>3, <1>4, <1>5, <1>6, WireFrame

(* No step queues a rollback that is deeper.                                *)
LEMMA RollbacksShallowStep ==
  ASSUME Typed, UnbufferedFits, bufferSize = 0, ReorgsShallow, RollbacksShallow, Next
  PROVE  RollbacksShallow'
<1> USE QueueAt, LevelTypes
<1>1. CASE ReceiveData
  <2>1. queue' = Append(queue, Head(feed)) /\ Head(feed).kind = "data" /\ Head(feed) \in Messages
        /\ UNCHANGED current
    BY <1>1, ReceivesData, FeedHead DEF ReceiveData
  <2> QED
    BY SMTT(30), <2>1, QueueGiven DEF RollbacksShallow
<1>2. CASE ReceiveReorg
  <2> DEFINE m == RollbackMsg(ChannelLevel, Head(feed).level)
  <2>1. /\ queue' = queue \/ queue' = Append(queue, m)
        /\ UNCHANGED current /\ Head(feed) = feed[1] /\ Head(feed).kind = "reorg" /\ Len(feed) >= 1
    BY SMTT(30), <1>2, ReceivesReorg, FeedAt DEF ReceiveReorg
  <2>2. /\ m \in Rollbacks /\ m.kind = "rollback"
        /\ m.from = ChannelLevel /\ m.to = feed[1].level
    BY <1>2, <2>1, ReceivesReorg DEF RollbackMsg, Rollbacks
  <2>3. m.from - m.to <= Depth
    BY <2>1, <2>2, FeedAt DEF ReorgsShallow, ReorgIn, ChannelAfter
  <2> HIDE DEF m
  <2>4. CASE queue' = Append(queue, m)
    <3>1. /\ Len(queue') = Len(queue) + 1
          /\ \A n \in 1 .. Len(queue) : queue'[n] = queue[n]
          /\ queue'[Len(queue) + 1] = m
      BY <2>2, <2>4, QueueGiven
    <3>2. ASSUME NEW n \in 1 .. Len(queue'), queue'[n].kind = "rollback"
          PROVE  queue'[n].from - queue'[n].to <= Depth
      <4>1. CASE n = Len(queue) + 1
        BY <2>3, <3>1, <4>1
      <4>2. CASE n # Len(queue) + 1
        <5>1. n \in 1 .. Len(queue) /\ queue'[n] = queue[n]
          BY SMTT(30), <3>1, <4>2
        <5> QED
          BY <3>2, <5>1 DEF RollbacksShallow
      <4> QED
        BY <4>1, <4>2
    <3> QED
      BY <2>1, <3>2 DEF RollbacksShallow
  <2> QED
    BY <2>1, <2>4 DEF RollbacksShallow
<1>3. CASE ProcessData
  <2>1. queue # <<>> /\ queue' = Tail(queue) /\ UNCHANGED current
    BY <1>3 DEF ProcessData
  <2> QED
    BY <2>1, QueueTaken DEF RollbacksShallow
<1>4. CASE StartRollback
  <2>1. /\ queue # <<>> /\ queue' = Tail(queue) /\ current' = queue[1] /\ queue[1].kind = "rollback"
        /\ 1 \in 1 .. Len(queue)
    BY <1>4, QueueTaken DEF StartRollback
  <2> QED
    BY <2>1, QueueTaken DEF RollbacksShallow
<1>5. CASE SaveState
  BY <1>5, LifecycleAssumption DEF SaveState, RollbacksShallow, NoRollback, RollbackMsg
<1>6. CASE Crash
  BY <1>6, LifecycleAssumption DEF Crash, RollbacksShallow, NoRollback, RollbackMsg
<1>7. CASE Process \/ Refresh
  <2>1. (queue' = <<>> \/ queue' = queue) /\ UNCHANGED current
    BY <1>7, Clears
  <2>2. Len(<<>>) = 0
    OBVIOUS
  <2> QED
    BY SMTT(30), <2>1, <2>2 DEF RollbacksShallow
<1>8. CASE UNCHANGED <<queue, current>>
  BY <1>8 DEF RollbacksShallow
<1> QED
  BY <1>1, <1>2, <1>3, <1>4, <1>5, <1>6, <1>7, <1>8, QueueFrame

(* The circumstances in which processing an index can raise.                *)
NeverFailing == {"early_drop", "offline", "lost_rollback"}

(* No step raises.                                                          *)
LEMMA NeverFailsStep ==
  ASSUME Typed, LevelsFit, SyncRuns, SyncFits, RollbacksShallow, bufferSize = 0, NeverFails, Next
  PROVE  NeverFails'
<1> USE LevelTypes DEF NeverFails
<1>1. ASSUME NEW b \in Blocks, Extend(b) PROVE NeverFails'
  BY <1>1 DEF Extend
<1>2. ASSUME NEW to \in Levels, Reorg(to) PROVE NeverFails'
  BY <1>2 DEF Reorg
<1>3. Disconnect \/ Crash \/ Connect \/ Answer \/ ReceiveData \/ ReceiveReorg => NeverFails'
  BY DEF Disconnect, Crash, Connect, Answer, ReceiveData, ReceiveReorg
<1>4. Spawn \/ Subscribe \/ Schedule \/ Fetch \/ ExitSync \/ QueueEmpty => NeverFails'
  BY DEF Spawn, Subscribe, Schedule, Fetch, ExitSync, QueueEmpty
<1>5. ProcessData \/ StartRollback \/ MoveLevel \/ SaveState => NeverFails'
  BY DEF ProcessData, StartRollback, MoveLevel, SaveState
<1>6. ASSUME Process PROVE NeverFails'
  <2>1. CASE rolledBack
    BY <1>6, <2>1 DEF Process
  <2>2. CASE ~rolledBack
    <3>1. Decide(state) /\ state \in States /\ syncLevel # NoLevel
      BY <1>6, <2>2 DEF Process, Typed, IndexType, SyncFits
    <3> QED
      BY <3>1, DecideMoves
  <2> QED
    BY <2>1, <2>2
<1>7. ASSUME Refresh PROVE NeverFails'
  <2> DEFINE s == [state EXCEPT !.level = stored.level]
  <2>1. Decide(s) /\ s \in States /\ syncLevel # NoLevel
    BY <1>7 DEF Refresh, Typed, IndexType, States, SyncFits
  <2> HIDE DEF s
  <2> QED
    BY <2>1, DecideMoves
<1>8. ASSUME ProcessFetched PROVE NeverFails'
  <2>1. Head(fetched) = fetched[1] /\ Len(fetched) >= 1 /\ DOMAIN fetched = 1 .. Len(fetched)
    BY <1>8, FetchedHead DEF ProcessFetched
  <2>2. state.level < Head(fetched).level
    BY <1>8, <2>1 DEF ProcessFetched, SyncRuns, LevelsFit
  <2>3. Head(fetched).level \in Nat
    BY <1>8, FetchedHead DEF ProcessFetched, Levels
  <2> QED
    BY <1>8, <2>2, <2>3 DEF ProcessFetched
<1>9. ASSUME RevertRows PROVE NeverFails'
  BY <1>9, LifecycleAssumption DEF RevertRows, RollbackDepth, RollbacksShallow
<1> QED
  BY <1>1, <1>2, <1>3, <1>4, <1>5, <1>6, <1>7, <1>8, <1>9
     DEF Next, Environment, Websocket, Dispatcher

(* No step leaves the types.                                                *)
LEMMA TypedStep ==
  ASSUME Typed, [Next]_vars
  PROVE  Typed'
<1>1. CASE Next
  BY <1>1, ChainTypeStep, SocketTypeStep, MessagesTypeStep, IndexTypeStep DEF Typed
<1>2. CASE UNCHANGED vars
  BY <1>2 DEF vars, environment, datasource, fetcher, Typed, ChainType, SocketType, MessagesType,
     IndexType, HeadLevel
<1> QED
  BY <1>1, <1>2

(* Every variable holds what the code can put in it, whatever the circumstances*)
(* and the buffer.                                                          *)
THEOREM TypeCorrect == Spec => []TypeOK
<1>1. Init => Typed
  BY TypedInit
<1>2. Typed /\ [Next]_vars => Typed'
  BY TypedStep
<1>3. Typed => TypeOK
  BY DEF TypeOK, Typed, ChainType, SocketType, MessagesType, IndexType
<1> QED
  BY <1>1, <1>2, <1>3, PTL DEF Spec

(* What LevelOnlyRollsBack rests on.                                        *)
LevelInv == Typed /\ LevelsFit /\ SyncRuns

(* It holds at first.                                                       *)
LEMMA LevelInvInit == Init => LevelInv
<1> SUFFICES ASSUME Init PROVE LevelInv
  OBVIOUS
<1>1. Typed
  BY TypedInit
<1> QED
  BY <1>1 DEF LevelInv, Init, LevelsFit, SyncRuns

(* No step leaves it.                                                       *)
LEMMA LevelInvStep ==
  ASSUME LevelInv, [Next]_vars
  PROVE  LevelInv'
<1>1. Typed'
  BY TypedStep DEF LevelInv
<1>2. CASE Next
  BY <1>1, <1>2, LevelsFitStep, SyncRunsStep DEF LevelInv
<1>3. CASE UNCHANGED vars
  BY <1>1, <1>3 DEF LevelInv, vars, environment, datasource, fetcher, LevelsFit, SyncRuns
<1> QED
  BY <1>2, <1>3

(* The committed level of an index goes back in a rollback only (context.py:608),*)
(* whatever the circumstances and the buffer.                               *)
THEOREM LevelMovesBack == Spec => LevelOnlyRollsBack
<1>1. LevelInv /\ [Next]_vars =>
        [stored'.level < stored.level => pc = "move" /\ stored'.level = current.to]_vars
  BY OnlyRollsBackStep DEF LevelInv
<1> QED
  BY LevelInvInit, LevelInvStep, <1>1, PTL DEF Spec, LevelOnlyRollsBack

(* What NeverFails rests on.                                                *)
FailInv ==
  /\ LevelInv
  /\ UnbufferedFits /\ SyncFits
  /\ HeadFits /\ ReorgsShallow /\ RollbacksShallow
  /\ NeverFails

(* It holds at first.                                                       *)
LEMMA FailInvInit ==
  ASSUME Unbuffered
  PROVE  Init => FailInv
<1> SUFFICES ASSUME Init PROVE FailInv
  OBVIOUS
<1>1. LevelInv
  BY LevelInvInit
<1>2. feed = <<>> /\ queue = <<>> /\ Len(feed) = 0 /\ Len(queue) = 0 /\ channel = NoLevel
      /\ syncLevel = HeadLevel /\ pc = "loop" /\ ~connected
  BY DEF Init
<1>3. HeadLevel \in Nat
  BY <1>1, LevelTypes DEF LevelInv
<1>4. UnbufferedFits
  BY <1>2 DEF UnbufferedFits, Init
<1>5. SyncFits /\ NeverFails
  BY <1>2, <1>3 DEF SyncFits, NeverFails, NoLevel
<1>6. HeadFits /\ ReorgsShallow
  BY <1>2, <1>3 DEF HeadFits, ReorgsShallow, ChannelAfter, ChannelLevel
<1>7. RollbacksShallow
  BY <1>2, LifecycleAssumption DEF RollbacksShallow, Init, NoRollback, RollbackMsg
<1> QED
  BY <1>1, <1>4, <1>5, <1>6, <1>7 DEF FailInv

(* Without a buffer its size is 0.                                          *)
LEMMA BufferSizeIs ==
  ASSUME Unbuffered, Typed
  PROVE  bufferSize = 0
  BY DEF Unbuffered, Typed, ChainType

(* No step leaves it.                                                       *)
LEMMA FailInvStep ==
  ASSUME Unbuffered, Hazards \cap NeverFailing = {}, FailInv, [Next]_vars
  PROVE  FailInv'
<1>1. LevelInv'
  BY LevelInvStep DEF FailInv
<1>2. CASE Next
  <2>1. Typed /\ LevelsFit /\ SyncRuns /\ bufferSize = 0
    BY BufferSizeIs DEF FailInv, LevelInv
  <2>2. "early_drop" \notin Hazards /\ Hazards \cap Remembered = {}
    BY DEF NeverFailing, Remembered
  <2>3. UnbufferedFits' /\ SyncFits' /\ HeadFits'
    BY <1>2, <2>1, <2>2, UnbufferedStep, SyncFitsStep, HeadFitsStep DEF FailInv
  <2>4. ReorgsShallow' /\ RollbacksShallow' /\ NeverFails'
    BY <1>2, <2>1, <2>2, ReorgsShallowStep, RollbacksShallowStep, NeverFailsStep DEF FailInv
  <2> QED
    BY <1>1, <2>3, <2>4 DEF FailInv
<1>3. CASE UNCHANGED vars
  <2>1. UNCHANGED <<chain, subscribed, feed, channel, syncLevel>>
        /\ UNCHANGED <<queue, current, buffer, pc, spawned, connected>>
    BY <1>3 DEF vars, environment, datasource, fetcher
  <2>2. UnbufferedFits' /\ SyncFits' /\ NeverFails'
    BY <2>1 DEF FailInv, UnbufferedFits, SyncFits, NeverFails
  <2>3. HeadFits' /\ ReorgsShallow' /\ RollbacksShallow'
    BY <2>1, WireKept DEF FailInv, HeadFits, ReorgsShallow, RollbacksShallow
  <2> QED
    BY <1>1, <2>2, <2>3 DEF FailInv
<1> QED
  BY <1>2, <1>3

(* Without a buffer and the circumstances in which a reorg is missed, no    *)
(* exception reaches the dispatcher (index.py:130, 217, context.py:585): there*)
(* is a sync level, a level is fetched once, and a rollback is never deeper *)
(* than the versions that are kept.                                         *)
THEOREM NothingRaised ==
  ASSUME Unbuffered, Hazards \cap NeverFailing = {}
  PROVE  Spec => []NeverFails
<1>1. Init => FailInv
  BY FailInvInit
<1>2. FailInv /\ [Next]_vars => FailInv'
  BY FailInvStep
<1>3. FailInv => NeverFails
  BY DEF FailInv
<1> QED
  BY <1>1, <1>2, <1>3, PTL DEF Spec

-----------------------------------------------------------------------------
(* Orderly circumstances.                                                   *)

(* What is still to be handled, the queue before the feed, and the level each*)
(* item leads to.                                                           *)
Pending == queue \o feed
Effect(m) == IF m.kind = "rollback" THEN m.to ELSE m.level
Items == 1 .. Len(Pending)
DataAt(n) == Pending[n].kind = "data"

(* Blocks come in the order of their levels, a reorg goes back to below none of*)
(* the blocks announced before it, and reorgs and rollbacks lead further down.*)
Ordered ==
  \A i \in Items : \A j \in i + 1 .. Len(Pending) :
    /\ DataAt(i) /\ DataAt(j) => Effect(Pending[i]) < Effect(Pending[j])
    /\ DataAt(i) /\ ~DataAt(j) => Effect(Pending[i]) <= Effect(Pending[j])
    /\ ~DataAt(i) /\ ~DataAt(j) => Effect(Pending[j]) <= Effect(Pending[i])

(* A message that tells what the chain has.                                 *)
IsTrue(m) == m.level \in 1 .. HeadLevel /\ m.block = BlockAt(m.level)
PendingTrue == \A n \in Items : DataAt(n) => IsTrue(Pending[n])

(* Items that mean the same, and a selection of what is pending, by position.*)
Alike(m, k) ==
  /\ m.kind = "data" <=> k.kind = "data"
  /\ Effect(m) = Effect(k)
  /\ m.kind = "data" => m = k

Thins(f) ==
  /\ \A n \in Items' : f[n] \in Items /\ Alike(Pending'[n], Pending[f[n]])
  /\ \A i \in Items' : \A j \in i + 1 .. Len(Pending') : f[i] < f[j]

(* Two sequences joined, pointwise.                                         *)
Joins(p, s, t) ==
  /\ Len(p) = Len(s) + Len(t) /\ Len(s) \in Nat /\ Len(t) \in Nat
  /\ \A n \in 1 .. Len(s) : p[n] = s[n]
  /\ \A n \in 1 .. Len(t) : p[Len(s) + n] = t[n]
  /\ \A n \in 1 .. Len(p) : n \in 1 .. Len(s)
       \/ \E k \in 1 .. Len(t) : n = Len(s) + k /\ p[n] = t[k]

(* That is what joining them comes to.                                      *)
LEMMA Joined ==
  ASSUME NEW s \in Seq(Messages \cup Rollbacks), NEW t \in Seq(Messages)
  PROVE  Joins(s \o t, s, t)
<1>1. s \in Seq(Messages \cup Rollbacks) /\ t \in Seq(Messages \cup Rollbacks)
  OBVIOUS
<1>2. /\ Len(s \o t) = Len(s) + Len(t) /\ Len(s) \in Nat /\ Len(t) \in Nat
      /\ \A n \in 1 .. Len(s) : (s \o t)[n] = s[n]
      /\ \A n \in 1 .. Len(t) : (s \o t)[Len(s) + n] = t[n]
  BY <1>1
<1>3. ASSUME NEW n \in 1 .. Len(s \o t), n \notin 1 .. Len(s)
      PROVE  \E k \in 1 .. Len(t) : n = Len(s) + k /\ (s \o t)[n] = t[k]
  <2>1. n - Len(s) \in 1 .. Len(t) /\ n = Len(s) + (n - Len(s))
    BY <1>2, <1>3
  <2> QED
    BY <1>2, <2>1
<1> QED
  BY <1>2, <1>3 DEF Joins

(* What is pending, pointwise.                                              *)
LEMMA PendingAt ==
  ASSUME Typed, UnbufferedFits
  PROVE  /\ Len(Pending) = Len(queue) + Len(feed)
         /\ \A n \in 1 .. Len(queue) : n \in Items /\ Pending[n] = queue[n]
         /\ \A n \in 1 .. Len(feed) : Len(queue) + n \in Items /\ Pending[Len(queue) + n] = feed[n]
         /\ \A n \in Items : n \in 1 .. Len(queue)
              \/ \E k \in 1 .. Len(feed) : n = Len(queue) + k /\ Pending[n] = feed[k]
         /\ \A n \in Items : /\ Pending[n].kind \in {"data", "reorg", "rollback"}
                             /\ Effect(Pending[n]) \in Levels /\ Effect(Pending[n]) \in Nat
                             /\ DataAt(n) => Pending[n].level = Effect(Pending[n])
         /\ Len(queue) \in Nat /\ Len(feed) \in Nat /\ Len(Pending) \in Nat
<1>1. /\ Len(Pending) = Len(queue) + Len(feed)
      /\ \A n \in 1 .. Len(queue) : Pending[n] = queue[n]
      /\ \A n \in 1 .. Len(feed) : Pending[Len(queue) + n] = feed[n]
      /\ \A n \in 1 .. Len(Pending) : n \in 1 .. Len(queue)
           \/ \E k \in 1 .. Len(feed) : n = Len(queue) + k /\ Pending[n] = feed[k]
  <2>1. queue \in Seq(Messages \cup Rollbacks) /\ feed \in Seq(Messages)
    BY DEF Typed, MessagesType
  <2>2. Joins(Pending, queue, feed)
    BY <2>1, Joined DEF Pending
  <2> QED
    BY <2>2 DEF Joins
<1>2. \A n \in 1 .. Len(queue) : n \in Items
  BY <1>1, QueueAt, FeedAt DEF Items
<1>3. \A n \in 1 .. Len(feed) : Len(queue) + n \in Items
  BY <1>1, QueueAt, FeedAt DEF Items
<1>4. ASSUME NEW n \in Items
      PROVE  /\ Pending[n].kind \in {"data", "reorg", "rollback"}
             /\ Effect(Pending[n]) \in Levels /\ Effect(Pending[n]) \in Nat
             /\ DataAt(n) => Pending[n].level = Effect(Pending[n])
  <2>1. Levels \subseteq Nat
    BY DEF Levels
  <2>2. CASE n \in 1 .. Len(queue)
    <3>1. Pending[n] = queue[n] /\ queue[n].kind \in {"data", "rollback"}
      BY <1>1, <2>2, QueueAt DEF UnbufferedFits
    <3> QED
      BY <2>1, <2>2, <3>1, QueueAt DEF Effect, DataAt
  <2>3. CASE n \notin 1 .. Len(queue)
    <3>1. PICK k \in 1 .. Len(feed) : Pending[n] = feed[k]
      BY <1>1, <2>3, QueueAt, FeedAt DEF Items
    <3> QED
      BY <2>1, <3>1, FeedAt DEF Effect, DataAt
  <2> QED
    BY <2>2, <2>3
<1>5. \A n \in Items : n \in 1 .. Len(queue)
        \/ \E k \in 1 .. Len(feed) : n = Len(queue) + k /\ Pending[n] = feed[k]
  BY <1>1 DEF Items
<1>6. Len(queue) \in Nat /\ Len(feed) \in Nat /\ Len(Pending) \in Nat
  BY <1>1, QueueAt, FeedAt
<1>7. \A n \in Items : /\ Pending[n].kind \in {"data", "reorg", "rollback"}
                       /\ Effect(Pending[n]) \in Levels /\ Effect(Pending[n]) \in Nat
                       /\ DataAt(n) => Pending[n].level = Effect(Pending[n])
  BY <1>4
<1> QED
  BY <1>1, <1>2, <1>3, <1>5, <1>6, <1>7

(* A selection of what is ordered is ordered.                               *)
LEMMA ThinnedOrdered ==
  ASSUME Ordered, NEW f, Thins(f), Len(Pending) \in Nat, Len(Pending') \in Nat
  PROVE  Ordered'
<1> SUFFICES ASSUME NEW i \in Items', NEW j \in i + 1 .. Len(Pending')
             PROVE  /\ DataAt(i)' /\ DataAt(j)' => Effect(Pending[i])' < Effect(Pending[j])'
                    /\ DataAt(i)' /\ ~DataAt(j)' => Effect(Pending[i])' <= Effect(Pending[j])'
                    /\ ~DataAt(i)' /\ ~DataAt(j)' => Effect(Pending[j])' <= Effect(Pending[i])'
  BY DEF Ordered
<1>1. j \in Items'
  BY DEF Items
<1>2. /\ f[i] \in Items /\ Alike(Pending'[i], Pending[f[i]])
      /\ f[j] \in Items /\ Alike(Pending'[j], Pending[f[j]])
  BY <1>1 DEF Thins
<1>3. f[i] < f[j]
  BY DEF Thins
<1>4. f[j] \in f[i] + 1 .. Len(Pending)
  BY <1>2, <1>3 DEF Items
<1>5. /\ DataAt(f[i]) /\ DataAt(f[j]) => Effect(Pending[f[i]]) < Effect(Pending[f[j]])
      /\ DataAt(f[i]) /\ ~DataAt(f[j]) => Effect(Pending[f[i]]) <= Effect(Pending[f[j]])
      /\ ~DataAt(f[i]) /\ ~DataAt(f[j]) => Effect(Pending[f[j]]) <= Effect(Pending[f[i]])
  BY <1>2, <1>4 DEF Ordered
<1>6. /\ DataAt(i)' <=> DataAt(f[i])
      /\ DataAt(j)' <=> DataAt(f[j])
      /\ Effect(Pending[i])' = Effect(Pending[f[i]])
      /\ Effect(Pending[j])' = Effect(Pending[f[j]])
  BY <1>2 DEF Alike, DataAt, Effect
<1> QED
  BY <1>5, <1>6

(* What is pending after a step, pointwise.                                 *)
LEMMA PendingThen ==
  ASSUME Typed'
  PROVE  /\ Len(Pending') = Len(queue') + Len(feed') /\ Items' = 1 .. Len(Pending')
         /\ \A n \in 1 .. Len(queue') : Pending'[n] = queue'[n]
         /\ \A n \in 1 .. Len(feed') : Pending'[Len(queue') + n] = feed'[n]
         /\ Len(queue') \in Nat /\ Len(feed') \in Nat /\ Len(Pending') \in Nat
         /\ \A n \in Items' : n \in 1 .. Len(queue')
                 \/ \E k \in 1 .. Len(feed') : n = Len(queue') + k /\ Pending'[n] = feed'[k]
<1>1. feed' \in Seq(Messages) /\ queue' \in Seq(Messages \cup Rollbacks)
  BY DEF Typed, MessagesType
<1>2. Joins(Pending', queue', feed')
  BY <1>1, Joined DEF Pending
<1>3. Items' = 1 .. Len(Pending')
  BY DEF Items
<1>4. Len(Pending') \in Nat
  BY <1>2 DEF Joins
<1> QED
  BY <1>2, <1>3, <1>4 DEF Joins

(* Nothing but a block and a reorg adds to what is pending.                 *)
LEMMA ThinsStep ==
  ASSUME Typed, Typed', UnbufferedFits, UnbufferedFits', bufferSize = 0, Next,
         ~ \E b \in Blocks : Extend(b), ~ \E to \in Levels : Reorg(to)
  PROVE  \E f : Thins(f)
<1> USE PendingAt
<1> DEFINE q == Len(queue)
           idf == [n \in Items' |-> n]
<1>0. /\ Len(Pending') = Len(queue') + Len(feed') /\ Items' = 1 .. Len(Pending')
      /\ \A n \in 1 .. Len(queue') : Pending'[n] = queue'[n]
      /\ \A n \in 1 .. Len(feed') : Pending'[Len(queue') + n] = feed'[n]
      /\ Len(queue') \in Nat /\ Len(feed') \in Nat /\ Len(Pending') \in Nat
      /\ \A n \in Items' : n \in 1 .. Len(queue')
              \/ \E k \in 1 .. Len(feed') : n = Len(queue') + k /\ Pending'[n] = feed'[k]
  BY PendingThen
<1>1. ASSUME Len(Pending') <= Len(Pending), \A n \in Items' : Alike(Pending'[n], Pending[n])
      PROVE  Thins(idf)
  BY <1>0, <1>1 DEF Thins, Items
<1>2. \A m : Alike(m, m)
  BY DEF Alike
<1>3. CASE UNCHANGED <<queue, feed>>
  <2>1. Pending' = Pending
    BY <1>3 DEF Pending
  <2> QED
    BY <1>1, <1>2, <2>1 DEF Items
<1>4. CASE ReceiveData
  <2>1. /\ feed # <<>> /\ feed' = Tail(feed) /\ channel' = Head(feed).level /\ Head(feed) = feed[1]
        /\ queue' = Append(queue, Head(feed)) /\ Head(feed) \in Messages
    BY <1>4, ReceivesData, FeedHead
  <2>2. /\ Len(queue') = q + 1 /\ queue'[q + 1] = feed[1]
        /\ \A n \in 1 .. q : queue'[n] = queue[n]
    BY <2>1, QueueGiven
  <2>3. /\ Len(feed) >= 1 /\ Len(feed') = Len(feed) - 1
        /\ \A n \in 1 .. Len(feed') : feed'[n] = feed[n + 1]
    BY <2>1, FeedTaken
  <2>4. ASSUME NEW n \in Items'
        PROVE  Pending'[n] = Pending[n]
    <3>1. CASE n \in 1 .. q
      BY <1>0, <2>2, <3>1
    <3>2. CASE n = q + 1
      BY <1>0, <2>2, <2>3, <3>2
    <3>3. CASE n \notin 1 .. q + 1
      <4>1. PICK k \in 1 .. Len(feed') : n = (q + 1) + k /\ Pending'[n] = feed'[k]
        BY <1>0, <2>2, <3>3
      <4>2. k + 1 \in 1 .. Len(feed) /\ n = q + (k + 1) /\ feed'[k] = feed[k + 1]
        BY SMTT(30), <2>3, <4>1, <1>0
      <4>3. Pending[q + (k + 1)] = feed[k + 1]
        BY <4>2
      <4> QED
        BY <4>1, <4>2, <4>3
    <3> QED
      BY <3>1, <3>2, <3>3
  <2> QED
    BY <1>0, <1>1, <1>2, <2>2, <2>3, <2>4
<1>5. CASE ReceiveReorg
  <2>1. /\ feed # <<>> /\ feed' = Tail(feed) /\ channel' = Head(feed).level /\ Head(feed) = feed[1]
        /\ Head(feed).kind = "reorg"
    BY <1>5, ReceivesReorg
  <2>3. /\ Len(feed) >= 1 /\ Len(feed') = Len(feed) - 1
        /\ \A n \in 1 .. Len(feed') : feed'[n] = feed[n + 1]
    BY <2>1, FeedTaken
  <2>4. CASE queue' = queue
    <3> DEFINE f == [n \in Items' |-> IF n <= q THEN n ELSE n + 1]
    <3>1. ASSUME NEW n \in Items'
          PROVE  f[n] \in Items /\ Pending'[n] = Pending[f[n]]
      <4>1. CASE n \in 1 .. q
        BY <1>0, <2>4, <4>1
      <4>2. CASE n \notin 1 .. q
        <5>1. PICK k \in 1 .. Len(feed') : n = q + k /\ Pending'[n] = feed'[k]
          BY <1>0, <2>4, <4>2
        <5>4. f[n] = n + 1
          BY <4>2, <1>0
        <5>2. k + 1 \in 1 .. Len(feed) /\ n + 1 = q + (k + 1) /\ feed'[k] = feed[k + 1]
          BY SMTT(30), <2>3, <5>1, <1>0
        <5>3. Pending[q + (k + 1)] = feed[k + 1] /\ q + (k + 1) \in Items
          BY <5>2
        <5> HIDE DEF f
        <5> QED
          BY <5>1, <5>2, <5>3, <5>4
      <4> QED
        BY <4>1, <4>2
    <3>2. \A i \in Items' : \A j \in i + 1 .. Len(Pending') : f[i] < f[j]
      BY <1>0
    <3> HIDE DEF f
    <3> QED
      BY <1>2, <3>1, <3>2 DEF Thins
  <2>5. CASE queue' # queue
    <3> DEFINE m == RollbackMsg(ChannelLevel, Head(feed).level)
    <3>1. queue' = Append(queue, m) /\ m \in Rollbacks /\ m.kind = "rollback"
             /\ m.to = feed[1].level
      BY <1>5, <2>1, <2>5, ReceivesReorg DEF RollbackMsg, Rollbacks
    <3>2. Alike(m, feed[1])
      BY <2>1, <3>1 DEF Alike, Effect
    <3> HIDE DEF m
    <3>3. /\ Len(queue') = q + 1 /\ queue'[q + 1] = m
          /\ \A n \in 1 .. q : queue'[n] = queue[n]
      BY <3>1, QueueGiven
    <3>4. ASSUME NEW n \in Items'
          PROVE  Alike(Pending'[n], Pending[n])
      <4>1. CASE n \in 1 .. q
        BY <1>0, <1>2, <3>3, <4>1
      <4>2. CASE n = q + 1
        BY SMTT(30), <1>0, <2>3, <3>2, <3>3, <4>2
      <4>3. CASE n \notin 1 .. q + 1
        <5>0. n \notin 1 .. Len(queue') /\ Len(queue') = q + 1
          BY <3>3, <4>3
        <5>1. PICK k \in 1 .. Len(feed') : n = (q + 1) + k /\ Pending'[n] = feed'[k]
          BY <1>0, <5>0
        <5>2. k + 1 \in 1 .. Len(feed) /\ n = q + (k + 1) /\ feed'[k] = feed[k + 1]
          BY SMTT(30), <2>3, <5>1, <1>0
        <5>3. Pending[q + (k + 1)] = feed[k + 1]
          BY <5>2
        <5> QED
          BY <1>2, <5>1, <5>2, <5>3
      <4> QED
        BY <4>1, <4>2, <4>3
    <3> QED
      BY <1>0, <1>1, <2>3, <3>3, <3>4
  <2> QED
    BY <2>4, <2>5
<1>6. CASE ProcessData \/ StartRollback
  <2>1. queue # <<>> /\ queue' = Tail(queue) /\ feed' = feed
    BY <1>6 DEF ProcessData, StartRollback, datasource
  <2>2. /\ q >= 1 /\ Len(queue') = q - 1
        /\ \A n \in 1 .. Len(queue') : queue'[n] = queue[n + 1]
    BY <2>1, QueueTaken
  <2> DEFINE f == [n \in Items' |-> n + 1]
  <2>5. \A n \in Items' : f[n] = n + 1
    OBVIOUS
  <2> HIDE DEF f
  <2>3. ASSUME NEW n \in Items'
        PROVE  f[n] \in Items /\ Pending'[n] = Pending[f[n]]
    <3>1. CASE n \in 1 .. q - 1
      <4>0. n \in 1 .. Len(queue') /\ n + 1 \in 1 .. q
        BY <2>2, <3>1
      <4>1. n + 1 \in 1 .. q /\ Pending'[n] = queue[n + 1]
        BY <1>0, <2>2, <4>0
      <4> QED
        BY <2>5, <4>1
    <3>2. CASE n \notin 1 .. q - 1
      <4>0. n \notin 1 .. Len(queue') /\ Len(queue') = q - 1
        BY <2>2, <3>2
      <4>1. PICK k \in 1 .. Len(feed') : n = Len(queue') + k /\ Pending'[n] = feed'[k]
        BY <1>0, <4>0
      <4>4. n + 1 = q + k
        BY <1>0, <4>0, <4>1
      <4>3. f[n] = q + k
        BY <2>5, <4>4
      <4>2. Pending[q + k] = feed[k] /\ q + k \in Items
        BY <2>1, <4>1
      <4> QED
        BY <2>1, <4>1, <4>2, <4>3
    <3> QED
      BY <3>1, <3>2
  <2>4. ASSUME NEW i \in Items', NEW j \in i + 1 .. Len(Pending') PROVE f[i] < f[j]
    <3>1. j \in Items'
      BY <1>0
    <3> QED
      BY <1>0, <2>5, <3>1
  <2> QED
    BY <1>2, <2>3, <2>4 DEF Thins
<1>7. CASE queue' = <<>> /\ feed' = feed
  <2> DEFINE f == [n \in Items' |-> q + n]
  <2>1. Len(queue') = 0
    BY <1>7
  <2>4. \A n \in Items' : f[n] = q + n
    OBVIOUS
  <2> HIDE DEF f
  <2>2. ASSUME NEW n \in Items'
        PROVE  f[n] \in Items /\ Pending'[n] = Pending[f[n]]
    <3>1. PICK k \in 1 .. Len(feed') : n = 0 + k /\ Pending'[n] = feed'[k]
      BY <1>0, <2>1
    <3>2. Pending[q + k] = feed[k] /\ q + k \in Items
      BY <1>7
    <3> QED
      BY <1>7, <2>4, <3>1, <3>2
  <2>3. ASSUME NEW i \in Items', NEW j \in i + 1 .. Len(Pending') PROVE f[i] < f[j]
    <3>1. j \in Items'
      BY <1>0
    <3> QED
      BY <1>0, <2>4, <3>1
  <2> QED
    BY <1>2, <2>2, <2>3 DEF Thins
<1>8. CASE feed' = <<>> /\ queue' = queue
  <2>1. Len(feed') = 0
    BY <1>8
  <2>2. ASSUME NEW n \in Items' PROVE Pending'[n] = Pending[n]
    <3>1. n \in 1 .. Len(queue')
      BY <1>0, <2>1
    <3> QED
      BY <1>0, <1>8, <3>1
  <2> QED
    BY <1>0, <1>1, <1>2, <1>8, <2>1, <2>2
<1>9. CASE feed' = <<>> /\ queue' = <<>>
  <2>1. Len(feed') = 0 /\ Len(queue') = 0
    BY <1>9
  <2> QED
    BY <1>0, <1>1, <2>1
<1>10. \/ UNCHANGED <<queue, feed>> \/ ReceiveData \/ ReceiveReorg \/ ProcessData \/ StartRollback
       \/ queue' = <<>> /\ feed' = feed
       \/ feed' = <<>> /\ queue' = queue
       \/ feed' = <<>> /\ queue' = <<>>
  <2>1. Disconnect => feed' = <<>> /\ queue' = queue
    BY DEF Disconnect
  <2>2. Crash => feed' = <<>> /\ queue' = <<>>
    BY DEF Crash
  <2>3. Answer => UNCHANGED <<queue, feed>>
    BY DEF Answer
  <2>4. Process \/ Refresh \/ SaveState => feed' = feed /\ (queue' = <<>> \/ queue' = queue)
    BY Clears DEF Process, Refresh, SaveState, datasource
  <2> QED
    BY <2>1, <2>2, <2>3, <2>4, WireFrame, QueueFrame
<1> QED
  BY <1>3, <1>4, <1>5, <1>6, <1>7, <1>8, <1>9, <1>10

(* The circumstances that do no harm.                                       *)
Orderly == Hazards \subseteq {"at_head", "lost_answer"}

(* What is fetched is true.                                                 *)
FetchedTrue == \A n \in 1 .. Len(fetched) : fetched[n].kind = "data" /\ IsTrue(fetched[n])

(* A block is announced above the level the channel is at.                  *)
Ascending ==
  \A n \in 1 .. Len(feed) : feed[n].kind = "data" => ChannelAfter(n - 1) < feed[n].level

(* A block that is queued is not above the level of the channel.            *)
BelowChannel ==
  \A n \in 1 .. Len(queue) : queue[n].kind = "data" => queue[n].level <= ChannelLevel

(* Reorgs and rollbacks lead to what is pending, or to where one is going on.*)
LEMMA DestinationsAre ==
  ASSUME Typed, UnbufferedFits
  PROVE  \A d : d \in Destinations <=>
           \/ \E n \in Items : ~DataAt(n) /\ d = Effect(Pending[n])
           \/ RollingBack /\ d = current.to
<1> USE PendingAt, QueueAt, FeedAt
<1> DEFINE InFeed(d) == \E n \in 1 .. Len(feed) : feed[n].kind = "reorg" /\ d = feed[n].level
           InQueue(d) == \E n \in 1 .. Len(queue) : queue[n].kind = "rollback" /\ d = queue[n].to
           InLine(d) == \E n \in Items : ~DataAt(n) /\ d = Effect(Pending[n])
<1>1. ASSUME NEW d
      PROVE  d \in {m.level : m \in {r \in Elements(feed) : r.kind = "reorg"}} <=> InFeed(d)
  <2>1. \A r : r \in Elements(feed) <=> \E n \in 1 .. Len(feed) : r = feed[n]
    <3>1. DOMAIN feed = 1 .. Len(feed)
      OBVIOUS
    <3> QED
      BY ONLY <3>1 DEF Elements
  <2>2. d \in {m.level : m \in {r \in Elements(feed) : r.kind = "reorg"}}
          <=> \E r \in Elements(feed) : r.kind = "reorg" /\ d = r.level
    OBVIOUS
  <2> QED
    BY ONLY <2>1, <2>2
<1>2. ASSUME NEW d
      PROVE  d \in {m.to : m \in {r \in Elements(queue) : r.kind = "rollback"}} <=> InQueue(d)
  <2>1. \A r : r \in Elements(queue) <=> \E n \in 1 .. Len(queue) : r = queue[n]
    <3>1. DOMAIN queue = 1 .. Len(queue)
      OBVIOUS
    <3> QED
      BY ONLY <3>1 DEF Elements
  <2>2. d \in {m.to : m \in {r \in Elements(queue) : r.kind = "rollback"}}
          <=> \E r \in Elements(queue) : r.kind = "rollback" /\ d = r.to
    OBVIOUS
  <2> QED
    BY ONLY <2>1, <2>2
<1>3. ASSUME NEW n \in Items, ~DataAt(n)
      PROVE  InFeed(Effect(Pending[n])) \/ InQueue(Effect(Pending[n]))
  <2>1. CASE n \in 1 .. Len(queue)
    <3>1. Pending[n] = queue[n] /\ queue[n].kind = "rollback"
      BY <1>3, <2>1 DEF DataAt, UnbufferedFits
    <3> QED
      BY <1>3, <2>1, <3>1 DEF Effect
  <2>2. CASE n \notin 1 .. Len(queue)
    <3>1. PICK k \in 1 .. Len(feed) : Pending[n] = feed[k]
      BY <2>2
    <3>2. feed[k].kind = "reorg"
      BY <1>3, <3>1 DEF DataAt
    <3> QED
      BY <1>3, <3>1, <3>2 DEF Effect
  <2> QED
    BY <2>1, <2>2
<1>4. ASSUME NEW d, InFeed(d)
      PROVE  InLine(d)
  <2>1. PICK n \in 1 .. Len(feed) : feed[n].kind = "reorg" /\ d = feed[n].level
    BY <1>4
  <2>2. Len(queue) + n \in Items /\ Pending[Len(queue) + n] = feed[n]
    OBVIOUS
  <2> QED
    BY <2>1, <2>2 DEF DataAt, Effect
<1>5. ASSUME NEW d, InQueue(d)
      PROVE  InLine(d)
  <2>1. PICK n \in 1 .. Len(queue) : queue[n].kind = "rollback" /\ d = queue[n].to
    BY <1>5
  <2>2. n \in Items /\ Pending[n] = queue[n]
    OBVIOUS
  <2> QED
    BY <2>1, <2>2 DEF DataAt, Effect
<1> HIDE DEF InFeed, InQueue
<1>6. ASSUME NEW d PROVE InLine(d) <=> InFeed(d) \/ InQueue(d)
  <2>1. InFeed(d) \/ InQueue(d) => InLine(d)
    BY <1>4, <1>5
  <2>2. InLine(d) => InFeed(d) \/ InQueue(d)
    BY <1>3
  <2> QED
    BY ONLY <2>1, <2>2
<1> HIDE DEF InLine
<1>7. \A d : d \in Destinations <=> InFeed(d) \/ InQueue(d) \/ (RollingBack /\ d = current.to)
  BY <1>1, <1>2 DEF Destinations
<1>8. ASSUME NEW d
      PROVE  d \in Destinations <=> InLine(d) \/ (RollingBack /\ d = current.to)
  BY <1>6, <1>7
<1> QED
  BY ONLY <1>8 DEF InLine

(* They lead to levels.                                                     *)
LEMMA DestinationTypes ==
  ASSUME Typed, UnbufferedFits
  PROVE  Destinations \subseteq Levels /\ Destinations \subseteq Nat
<1>1. Levels \subseteq Nat
  BY DEF Levels
<1>2. current.to \in Levels
  BY DEF Typed, IndexType, Rollbacks
<1> QED
  <2>1. \A n \in Items : Effect(Pending[n]) \in Levels
    BY PendingAt
  <2>2. ASSUME NEW d \in Destinations PROVE d \in Levels
    <3>1. (\E n \in Items : ~DataAt(n) /\ d = Effect(Pending[n])) \/ d = current.to
      BY DestinationsAre
    <3> QED
      BY <1>2, <2>1, <3>1
  <2> QED
    BY <1>1, <2>2

(* What is pending with a message more.                                     *)
LEMMA PendingSent ==
  ASSUME Typed, NEW m \in Messages, feed' = Append(feed, m), queue' = queue
  PROVE  /\ Len(Pending) \in Nat /\ Len(Pending') = Len(Pending) + 1
         /\ \A n \in Items : n \in Items' /\ Pending'[n] = Pending[n]
         /\ \A n \in Items' : n \in Items \/ (n = Len(Pending) + 1 /\ Pending'[n] = m)
<1>1. Pending \in Seq(Messages \cup Rollbacks)
  <2>1. \A T : Seq(Messages) \subseteq Seq(Messages \cup T)
    OBVIOUS
  <2> QED
    BY <2>1 DEF Typed, MessagesType, Pending
<1>2. Pending' = Append(Pending, m)
  <2>1. queue \in Seq(Messages \cup Rollbacks) /\ feed \in Seq(Messages \cup Rollbacks)
        /\ m \in Messages \cup Rollbacks
    <3>1. \A T : Seq(Messages) \subseteq Seq(Messages \cup T)
      OBVIOUS
    <3> QED
      BY <3>1 DEF Typed, MessagesType
  <2> QED
    BY <2>1 DEF Pending
<1> QED
  BY <1>1, <1>2, AppendAt DEF Items

(* What precedes a reorg in these circumstances.                            *)
LEMMA ReorgGuards ==
  ASSUME Typed, UnbufferedFits, bufferSize = 0, Orderly, NEW to \in Levels, Reorg(to)
  PROVE  /\ subscribed /\ pc # "sync" /\ syncLevel <= to /\ syncLevel <= stored.level
         /\ channel = NoLevel \/ channel >= stored.level
         /\ \A d \in Destinations : to <= d
         /\ \A n \in Items : DataAt(n) => Effect(Pending[n]) <= to
         /\ \A n \in Items : ~DataAt(n) => to <= Effect(Pending[n])
         /\ \A n \in 1 .. Len(fetched) : fetched[n].kind = "data" => fetched[n].level <= to
         /\ feed' = Append(feed, ReorgMsg(to)) /\ queue' = queue
<1> USE PendingAt, QueueAt, FeedAt, LevelTypes
<1>1. /\ subscribed /\ pc # "sync" /\ syncLevel <= to /\ syncLevel <= stored.level
      /\ channel = NoLevel \/ channel >= stored.level
      /\ \A d \in Destinations : to <= d
      /\ feed' = Append(feed, ReorgMsg(to)) /\ queue' = queue
      /\ \A s \in {feed, queue, fetched} : ~DataAbove(to, s)
  <2>1. \A h \in {"backlog", "near_sync", "offline", "stale_channel", "above_rollback"}
          : h \notin Hazards
    BY DEF Orderly
  <2>2. subscribed /\ feed' = Append(feed, ReorgMsg(to)) /\ queue' = queue
    BY <2>1 DEF Reorg
  <2>3. pc # "sync" /\ syncLevel <= to /\ syncLevel <= stored.level
    BY <2>1 DEF Reorg
  <2>4. channel = NoLevel \/ channel >= stored.level
    BY <2>1 DEF Reorg
  <2>5. \A d \in Destinations : to <= d
    BY <2>1 DEF Reorg
  <2>6. \A s \in {feed, queue, fetched} : ~DataAbove(to, s)
    BY <2>1 DEF Reorg
  <2> QED
    BY <2>2, <2>3, <2>4, <2>5, <2>6
<1>2. to \in Nat /\ Levels \subseteq Nat /\ \A l \in Nat : l <= to \/ l > to
  BY DEF Levels
<1>3. \A n \in 1 .. Len(feed) : feed[n].kind = "data" => feed[n].level <= to
  <2>1. ~DataAbove(to, feed)
    BY <1>1
  <2>2. ASSUME NEW n \in 1 .. Len(feed), feed[n].kind = "data" PROVE feed[n].level <= to
    <3>1. feed[n] \in Elements(feed) /\ feed[n].level \in Nat
      BY <1>2 DEF Elements
    <3> QED
      BY <1>2, <2>1, <2>2, <3>1 DEF DataAbove
  <2> QED
    BY <2>2
<1>4. \A n \in 1 .. Len(queue) : queue[n].kind = "data" => queue[n].level <= to
  <2>1. ~DataAbove(to, queue)
    BY <1>1
  <2>2. ASSUME NEW n \in 1 .. Len(queue), queue[n].kind = "data" PROVE queue[n].level <= to
    <3>1. queue[n] \in Elements(queue) /\ queue[n].level \in Nat
      BY <1>2, <2>2 DEF Elements
    <3> QED
      BY <1>2, <2>1, <2>2, <3>1 DEF DataAbove
  <2> QED
    BY <2>2
<1>5. \A n \in 1 .. Len(fetched) : fetched[n].kind = "data" => fetched[n].level <= to
  <2>1. ~DataAbove(to, fetched)
    BY <1>1
  <2>2. ASSUME NEW n \in 1 .. Len(fetched), fetched[n].kind = "data" PROVE fetched[n].level <= to
    <3>1. fetched[n] \in Messages /\ fetched[n] \in Elements(fetched)
      BY SMTT(30) DEF Elements
    <3>2. fetched[n].level \in Nat
      BY <1>2, <3>1 DEF Messages
    <3> QED
      BY <1>2, <2>1, <2>2, <3>1, <3>2 DEF DataAbove
  <2> QED
    BY <2>2
<1>6. ASSUME NEW n \in Items, DataAt(n) PROVE Effect(Pending[n]) <= to
  <2>1. CASE n \in 1 .. Len(queue)
    <3>1. Pending[n] = queue[n]
      BY <2>1
    <3>2. queue[n].kind = "data"
      BY <1>6, <3>1 DEF DataAt
    <3>3. Effect(Pending[n]) = queue[n].level
      BY <3>1, <3>2 DEF Effect
    <3> QED
      BY <1>4, <2>1, <3>2, <3>3
  <2>2. CASE n \notin 1 .. Len(queue)
    <3>1. PICK k \in 1 .. Len(feed) : Pending[n] = feed[k]
      BY <2>2
    <3>2. feed[k].kind = "data"
      BY <1>6, <3>1 DEF DataAt
    <3>3. Effect(Pending[n]) = feed[k].level
      BY <3>1, <3>2 DEF Effect
    <3> QED
      BY <1>3, <3>2, <3>3
  <2> QED
    BY <2>1, <2>2
<1>7. ASSUME NEW n \in Items, ~DataAt(n) PROVE to <= Effect(Pending[n])
  <2>1. Effect(Pending[n]) \in Destinations
    BY <1>7, DestinationsAre
  <2> QED
    BY <1>1, <2>1
<1> QED
  BY <1>1, <1>5, <1>6, <1>7

(* A block that is announced.                                               *)
LEMMA ExtendGrows ==
  ASSUME Typed, bufferSize = 0, NEW b \in Blocks, Extend(b), feed' # feed
  PROVE  /\ feed' = Append(feed, DataMsg(HeadLevel + 1, b)) /\ queue' = queue
         /\ subscribed /\ b # 0
  BY Extends DEF Extend

(* No step spoils the order.                                                *)
LEMMA OrderedStep ==
  ASSUME Typed, Typed', UnbufferedFits, UnbufferedFits', bufferSize = 0, Orderly,
         Ordered, PendingTrue, Next
  PROVE  Ordered'
<1> USE PendingAt, LevelTypes
<1>1. ASSUME NEW m \in Messages, feed' = Append(feed, m), queue' = queue,
             m.kind \in {"data", "reorg"},
             \A n \in Items :
                /\ DataAt(n) /\ m.kind = "data" => Effect(Pending[n]) < m.level
                /\ DataAt(n) /\ m.kind # "data" => Effect(Pending[n]) <= m.level
                /\ ~DataAt(n) /\ m.kind # "data" => m.level <= Effect(Pending[n])
      PROVE  Ordered'
  <2> SUFFICES ASSUME NEW i \in Items', NEW j \in i + 1 .. Len(Pending')
               PROVE  /\ DataAt(i)' /\ DataAt(j)' => Effect(Pending[i])' < Effect(Pending[j])'
                      /\ DataAt(i)' /\ ~DataAt(j)' => Effect(Pending[i])' <= Effect(Pending[j])'
                      /\ ~DataAt(i)' /\ ~DataAt(j)' => Effect(Pending[j])' <= Effect(Pending[i])'
    BY DEF Ordered
  <2>0. Len(Pending') = Len(Pending) + 1 /\ Items = 1 .. Len(Pending) /\ Items' = 1 .. Len(Pending')
    BY <1>1, PendingSent DEF Items
  <2>1. i \in Items /\ Pending'[i] = Pending[i] /\ j \in Items'
    <3>1. Len(Pending) \in Nat
      BY PendingAt
    <3>2. i \in 1 .. Len(Pending) /\ j \in 1 .. Len(Pending')
      BY ONLY <2>0, <3>1
    <3> QED
      BY <1>1, <2>0, <3>2, PendingSent
  <2>2. CASE j \in Items
    <3>1. Pending'[j] = Pending[j] /\ j \in i + 1 .. Len(Pending)
      BY SMTT(30), <1>1, <2>0, <2>2, PendingSent
    <3> QED
      BY <2>1, <3>1 DEF Ordered, DataAt, Effect
  <2>3. CASE j \notin Items
    <3>1. Pending'[j] = m
      BY <1>1, <2>1, <2>3, PendingSent
    <3>2. Effect(Pending[j])' = m.level /\ (DataAt(j)' <=> m.kind = "data")
      BY <1>1, <3>1 DEF Effect, DataAt
    <3>3. Effect(Pending[i])' = Effect(Pending[i]) /\ (DataAt(i)' <=> DataAt(i))
      BY <2>1 DEF Effect, DataAt
    <3> QED
      BY <1>1, <2>1, <3>2, <3>3
  <2> QED
    BY <2>2, <2>3
<1>2. ASSUME NEW b \in Blocks, Extend(b) PROVE Ordered'
  <2> DEFINE m == DataMsg(HeadLevel + 1, b)
  <2>1. m \in Messages /\ m.kind = "data" /\ m.level = HeadLevel + 1
    BY <1>2, Extends
  <2>2. CASE feed' = feed
    <3>1. Pending' = Pending
      BY <1>2, <2>2 DEF Extend, Pending
    <3>2. /\ Items' = Items /\ Len(Pending') = Len(Pending)
          /\ \A n : (DataAt(n)' <=> DataAt(n)) /\ Effect(Pending[n])' = Effect(Pending[n])
      BY <3>1 DEF Items, DataAt, Effect
    <3> QED
      BY <3>2 DEF Ordered
  <2>3. CASE feed' # feed
    <3>1. feed' = Append(feed, m) /\ queue' = queue
      BY <1>2, <2>3, ExtendGrows
    <3>2. ASSUME NEW n \in Items, DataAt(n) PROVE Effect(Pending[n]) < HeadLevel + 1
      <4>1. Effect(Pending[n]) \in 1 .. HeadLevel /\ HeadLevel \in Nat
        BY <3>2 DEF PendingTrue, IsTrue
      <4> QED
        BY <4>1
    <3> HIDE DEF m
    <3> QED
      BY <1>1, <2>1, <3>1, <3>2
  <2> QED
    BY <2>2, <2>3
<1>3. ASSUME NEW to \in Levels, Reorg(to) PROVE Ordered'
  <2> DEFINE m == ReorgMsg(to)
  <2>1. /\ m \in Messages /\ m.kind = "reorg" /\ m.level = to
        /\ feed' = Append(feed, m) /\ queue' = queue
        /\ \A n \in Items : DataAt(n) => Effect(Pending[n]) <= to
        /\ \A n \in Items : ~DataAt(n) => to <= Effect(Pending[n])
    BY <1>3, Reorganises, ReorgGuards
  <2> HIDE DEF m
  <2> QED
    BY <1>1, <2>1
<1>4. CASE ~(\E b \in Blocks : Extend(b)) /\ ~(\E to \in Levels : Reorg(to))
  <2>1. PICK f : Thins(f)
    BY <1>4, ThinsStep
  <2>2. Len(Pending) \in Nat /\ Len(Pending') \in Nat
    <3>1. Len(Pending') \in Nat
      BY PendingThen
    <3>2. queue \in Seq(Messages \cup Rollbacks) /\ feed \in Seq(Messages)
      BY DEF Typed, MessagesType
    <3>3. Joins(Pending, queue, feed)
      BY <3>2, Joined DEF Pending
    <3>4. Len(Pending) \in Nat
      BY <3>3 DEF Joins
    <3> QED
      BY <3>1, <3>4
  <2> QED
    BY <2>1, <2>2, ThinnedOrdered
<1> QED
  BY <1>2, <1>3, <1>4

(* A message that is true is of a level of the chain.                       *)
LEMMA TrueType ==
  ASSUME Typed, NEW x, IsTrue(x)
  PROVE  x.level \in Levels /\ x.level \in Nat /\ 1 <= x.level /\ x.level <= HeadLevel
<1>1. HeadLevel \in Nat /\ HeadLevel <= MaxLevel /\ MaxLevel \in Nat
  BY LevelTypes DEF Typed, ChainType, Levels
<1> QED
  BY <1>1 DEF IsTrue, Levels

(* It stays true while the chain does.                                      *)
LEMMA TrueFrame ==
  ASSUME UNCHANGED chain, NEW x
  PROVE  IsTrue(x)' <=> IsTrue(x)
  BY DEF IsTrue, BlockAt, HeadLevel

(* A block makes the message that announces it true.                        *)
LEMMA TrueExtended ==
  ASSUME Typed, bufferSize = 0, NEW b \in Blocks, Extend(b), NEW x,
         IsTrue(x) \/ (x.level = HeadLevel + 1 /\ x.block = b)
  PROVE  IsTrue(x)'
<1>1. /\ HeadLevel' = HeadLevel + 1 /\ HeadLevel + 1 \in Levels /\ HeadLevel \in Nat
      /\ \A l \in Levels : BlockAt(l)' = IF l = HeadLevel + 1 THEN b ELSE BlockAt(l)
  BY Extends, LevelTypes
<1>2. CASE IsTrue(x)
  <2>1. x.level \in Levels /\ x.level \in Nat /\ 1 <= x.level /\ x.level <= HeadLevel
    BY <1>2, TrueType
  <2>2. x.block = BlockAt(x.level)
    BY <1>2 DEF IsTrue
  <2>3. x.block = BlockAt(x.level)'
    BY <1>1, <2>1, <2>2
  <2> QED
    BY <1>1, <2>1, <2>3 DEF IsTrue
<1>3. CASE x.level = HeadLevel + 1 /\ x.block = b
  <2>1. x.block = BlockAt(x.level)'
    BY <1>1, <1>3
  <2> QED
    BY <1>1, <1>3, <2>1 DEF IsTrue
<1> QED
  BY <1>2, <1>3

(* What is below the target of a reorg stays true.                          *)
LEMMA TrueReorganised ==
  ASSUME Typed, NEW to \in Levels, Reorg(to), NEW x, IsTrue(x), x.level <= to
  PROVE  IsTrue(x)'
<1>1. /\ HeadLevel' = to /\ to \in Nat
      /\ \A l \in Levels : BlockAt(l)' = IF l <= to THEN BlockAt(l) ELSE 0
  BY Reorganises DEF Levels
<1>2. x.level \in Levels /\ x.level \in Nat /\ 1 <= x.level /\ x.block = BlockAt(x.level)
  BY TrueType DEF IsTrue
<1>3. x.block = BlockAt(x.level)'
  BY <1>1, <1>2
<1> QED
  BY <1>1, <1>2, <1>3 DEF IsTrue

(* A selection of what is true is true.                                     *)
LEMMA ThinnedTrue ==
  ASSUME PendingTrue, NEW f, Thins(f), UNCHANGED chain
  PROVE  PendingTrue'
<1> SUFFICES ASSUME NEW n \in Items', DataAt(n)'
             PROVE  IsTrue(Pending[n])'
  BY DEF PendingTrue
<1>1. f[n] \in Items /\ Alike(Pending'[n], Pending[f[n]])
  BY DEF Thins
<1>2. Pending'[n] = Pending[f[n]] /\ DataAt(f[n])
  BY <1>1 DEF Alike, DataAt
<1>3. IsTrue(Pending[f[n]])
  BY <1>1, <1>2 DEF PendingTrue
<1> QED
  BY <1>2, <1>3 DEF IsTrue, HeadLevel, BlockAt

(* The chain is changed by its own steps only.                              *)
LEMMA ChainFrame ==
  ASSUME Next, ~ \E b \in Blocks : Extend(b), ~ \E to \in Levels : Reorg(to)
  PROVE  UNCHANGED <<chain, HeadLevel>> /\ \A l : BlockAt(l)' = BlockAt(l)
<1>1. Disconnect \/ Crash \/ Answer \/ ReceiveData \/ ReceiveReorg => UNCHANGED chain
  BY DEF Disconnect, Crash, Answer, ReceiveData, ReceiveReorg, environment
<1>2. UNCHANGED chain
  BY <1>1, WireFrame
<1> QED
  BY <1>2 DEF HeadLevel, BlockAt

(* No step leaves a message that is not true.                               *)
LEMMA PendingTrueStep ==
  ASSUME Typed, Typed', UnbufferedFits, UnbufferedFits', bufferSize = 0, Orderly,
         PendingTrue, Next
  PROVE  PendingTrue'
<1> USE PendingAt, LevelTypes
<1>0. ASSUME NEW m \in Messages, feed' = Append(feed, m), queue' = queue,
             m.kind = "data" => IsTrue(m)',
             \A n \in Items : \A x : DataAt(n) /\ x = Pending[n] => IsTrue(x)'
      PROVE  PendingTrue'
  <2> SUFFICES ASSUME NEW n \in Items', DataAt(n)'
               PROVE  IsTrue(Pending[n])'
    BY DEF PendingTrue
  <2>1. PICK x : x = Pending'[n]
    OBVIOUS
  <2>2. (n \in Items /\ x = Pending[n]) \/ x = m
    BY <1>0, <2>1, PendingSent
  <2>3. IsTrue(x)'
    BY <1>0, <2>1, <2>2 DEF DataAt
  <2> QED
    BY <2>1, <2>3 DEF IsTrue, BlockAt, HeadLevel
<1>1. ASSUME NEW b \in Blocks, Extend(b) PROVE PendingTrue'
  <2>1. ASSUME NEW n \in Items, NEW x, DataAt(n), x = Pending[n] PROVE IsTrue(x)'
    BY <1>1, <2>1, TrueExtended DEF PendingTrue
  <2>2. CASE feed' = feed
    <3>1. Pending' = Pending
      BY <1>1, <2>2 DEF Extend, Pending
    <3> SUFFICES ASSUME NEW n \in Items', DataAt(n)'
                 PROVE  IsTrue(Pending[n])'
      BY DEF PendingTrue
    <3>2. PICK x : x = Pending[n]
      OBVIOUS
    <3>3. n \in Items /\ DataAt(n)
      BY <3>1 DEF Items, DataAt
    <3>4. IsTrue(x)'
      BY <2>1, <3>2, <3>3
    <3> QED
      BY <3>1, <3>2, <3>4 DEF IsTrue, BlockAt, HeadLevel
  <2>3. CASE feed' # feed
    <3>1. PICK m : m = DataMsg(HeadLevel + 1, b)
      OBVIOUS
    <3>2. feed' = Append(feed, m) /\ queue' = queue
      BY <1>1, <2>3, <3>1, ExtendGrows
    <3>3. m \in Messages /\ m.level = HeadLevel + 1 /\ m.block = b
      BY <1>1, <3>1, Extends
    <3>4. IsTrue(m)'
      BY <1>1, <3>3, TrueExtended
    <3> QED
      BY <1>0, <2>1, <3>2, <3>3, <3>4
  <2> QED
    BY <2>2, <2>3
<1>2. ASSUME NEW to \in Levels, Reorg(to) PROVE PendingTrue'
  <2>1. PICK m : m = ReorgMsg(to)
    OBVIOUS
  <2>2. /\ m \in Messages /\ m.kind = "reorg" /\ feed' = Append(feed, m) /\ queue' = queue
        /\ \A n \in Items : DataAt(n) => Effect(Pending[n]) <= to
    BY <1>2, <2>1, Reorganises, ReorgGuards
  <2>3. ASSUME NEW n \in Items, NEW x, DataAt(n), x = Pending[n] PROVE IsTrue(x)'
    <3>1. x.level <= to /\ IsTrue(x)
      BY <2>2, <2>3 DEF PendingTrue
    <3> QED
      BY <1>2, <3>1, TrueReorganised
  <2> QED
    BY <1>0, <2>2, <2>3
<1>3. CASE ~(\E b \in Blocks : Extend(b)) /\ ~(\E to \in Levels : Reorg(to))
  BY <1>3, ThinsStep, ThinnedTrue, ChainFrame
<1> QED
  BY <1>1, <1>2, <1>3

(* The steps that touch what is fetched.                                    *)
LEMMA FetchFrame ==
  ASSUME Next
  PROVE  Crash \/ Fetch \/ ProcessFetched \/ UNCHANGED fetched
<1>1. (\E b \in Blocks : Extend(b)) \/ (\E to \in Levels : Reorg(to)) \/ Disconnect
        \/ Websocket => UNCHANGED fetched
  BY DEF Extend, Reorg, Disconnect, Websocket, Connect, Answer, ReceiveData, ReceiveReorg, fetcher
<1>2. Spawn \/ Subscribe \/ Schedule \/ Process \/ Refresh \/ ExitSync \/ QueueEmpty
        => UNCHANGED fetched
  BY DEF Spawn, Subscribe, Schedule, Process, Refresh, ExitSync, QueueEmpty, fetcher
<1>3. ProcessData \/ StartRollback \/ RevertRows \/ MoveLevel \/ SaveState => UNCHANGED fetched
  BY DEF ProcessData, StartRollback, RevertRows, MoveLevel, SaveState, fetcher
<1> QED
  BY <1>1, <1>2, <1>3 DEF Next, Environment, Dispatcher

(* No step fetches what is not true, or has it changed.                     *)
LEMMA FetchedTrueStep ==
  ASSUME Typed, UnbufferedFits, bufferSize = 0, Orderly, FetchedTrue, Next
  PROVE  FetchedTrue'
<1>0. Len(<<>>) = 0
  OBVIOUS
<1>1. ASSUME Fetch PROVE FetchedTrue'
  <2>1. UNCHANGED chain
    BY <1>1 DEF Fetch, environment
  <2>2. CASE BlockAt(position) = 0
    BY <1>0, <1>1, <2>2 DEF Fetch, FetchedTrue
  <2>3. CASE BlockAt(position) # 0
    <3>1. PICK x : x = DataMsg(position, BlockAt(position))
      OBVIOUS
    <3>2. fetched' = <<x>> /\ x.kind = "data" /\ x.level = position /\ x.block = BlockAt(position)
      BY <1>1, <2>3, <3>1 DEF Fetch, DataMsg
    <3>3. position \in 1 .. HeadLevel
      BY <2>3 DEF BlockAt
    <3>4. IsTrue(x)'
      BY <2>1, <3>2, <3>3, TrueFrame DEF IsTrue
    <3>5. Len(fetched') = 1 /\ fetched'[1] = x
      BY <3>2
    <3>6. ASSUME NEW n \in 1 .. Len(fetched') PROVE fetched'[n] = x
      BY <3>5
    <3> QED
      BY <3>2, <3>4, <3>6 DEF FetchedTrue, IsTrue, BlockAt, HeadLevel
  <2> QED
    BY <2>2, <2>3
<1>2. Crash \/ ProcessFetched => FetchedTrue'
  BY <1>0 DEF Crash, ProcessFetched, FetchedTrue
<1>3. ASSUME UNCHANGED fetched,
             \A n \in 1 .. Len(fetched) : \A x : x = fetched[n] => IsTrue(x)'
      PROVE FetchedTrue'
  <2> SUFFICES ASSUME NEW n \in 1 .. Len(fetched')
               PROVE fetched'[n].kind = "data" /\ IsTrue(fetched[n])'
    BY DEF FetchedTrue
  <2>1. PICK x : x = fetched[n]
    OBVIOUS
  <2>2. IsTrue(x)' /\ fetched'[n] = x /\ x.kind = "data"
    BY <1>3, <2>1 DEF FetchedTrue
  <2> QED
    BY <2>2 DEF IsTrue, BlockAt, HeadLevel
<1>4. ASSUME NEW b \in Blocks, Extend(b), NEW n \in 1 .. Len(fetched), NEW x, x = fetched[n]
      PROVE  IsTrue(x)'
  BY <1>4, TrueExtended DEF FetchedTrue
<1>5. ASSUME NEW to \in Levels, Reorg(to), NEW n \in 1 .. Len(fetched), NEW x, x = fetched[n]
      PROVE  IsTrue(x)'
  <2>1. x.level <= to /\ IsTrue(x)
    BY <1>5, ReorgGuards DEF FetchedTrue
  <2> QED
    BY <1>5, <2>1, TrueReorganised
<1>6. ASSUME ~(\E b \in Blocks : Extend(b)), ~(\E to \in Levels : Reorg(to)),
             NEW n \in 1 .. Len(fetched), NEW x, x = fetched[n]
      PROVE  IsTrue(x)'
  BY <1>6, ChainFrame, TrueFrame DEF FetchedTrue
<1>7. \A n \in 1 .. Len(fetched) : \A x : x = fetched[n] => IsTrue(x)'
  BY <1>4, <1>5, <1>6
<1> QED
  BY <1>1, <1>2, <1>3, <1>7, FetchFrame

(* Where a reorg on its way leads, and where a queued rollback leads.       *)
ReorgTo(d) == \E n \in 1 .. Len(feed) : feed[n].kind = "reorg" /\ d = feed[n].level
RollbackTo(d) == \E n \in 1 .. Len(queue) : queue[n].kind = "rollback" /\ d = queue[n].to

(* A rollback or a block has been received, so the channel has a level; no reorg*)
(* is on its way without a subscription.                                    *)
ChannelSeen == channel = NoLevel => queue = <<>> /\ ~RollingBack
NoneLost == ~subscribed => Destinations = {}

(* Reorgs lead somewhere, rollbacks do, and so does the one going on.       *)
LEMMA DestinationsIn ==
  Typed => \A d : d \in Destinations <=>
              ReorgTo(d) \/ RollbackTo(d) \/ (RollingBack /\ d = current.to)
<1> SUFFICES ASSUME Typed, NEW d
             PROVE  d \in Destinations <=>
                      ReorgTo(d) \/ RollbackTo(d) \/ (RollingBack /\ d = current.to)
  OBVIOUS
<1>0. DOMAIN feed = 1 .. Len(feed) /\ DOMAIN queue = 1 .. Len(queue)
  BY FeedAt, QueueAt
<1>1. d \in {m.level : m \in {r \in Elements(feed) : r.kind = "reorg"}} <=> ReorgTo(d)
  <2>1. \A r : r \in Elements(feed) <=> \E n \in 1 .. Len(feed) : r = feed[n]
    BY <1>0 DEF Elements
  <2>2. d \in {m.level : m \in {r \in Elements(feed) : r.kind = "reorg"}}
          <=> \E r \in Elements(feed) : r.kind = "reorg" /\ d = r.level
    OBVIOUS
  <2> QED
    BY <2>1, <2>2 DEF ReorgTo
<1>2. d \in {m.to : m \in {r \in Elements(queue) : r.kind = "rollback"}} <=> RollbackTo(d)
  <2>1. \A r : r \in Elements(queue) <=> \E n \in 1 .. Len(queue) : r = queue[n]
    BY <1>0 DEF Elements
  <2>2. d \in {m.to : m \in {r \in Elements(queue) : r.kind = "rollback"}}
          <=> \E r \in Elements(queue) : r.kind = "rollback" /\ d = r.to
    OBVIOUS
  <2> QED
    BY <2>1, <2>2 DEF RollbackTo
<1> QED
  BY <1>1, <1>2 DEF Destinations

(* The same after a step.                                                   *)
LEMMA DestinationsInNext ==
  ASSUME Typed'
  PROVE  \A d : d \in Destinations' <=>
              ReorgTo(d)' \/ RollbackTo(d)' \/ (RollingBack' /\ d = current'.to)
<1>1. Typed' => (\A d : d \in Destinations <=>
              ReorgTo(d) \/ RollbackTo(d) \/ (RollingBack /\ d = current.to))'
  BY DestinationsIn, PTL
<1> QED
  BY <1>1

(* When a rollback starts and when it ends.                                 *)
LEMMA RollingFrame ==
  ASSUME Next
  PROVE  /\ RollingBack' => StartRollback \/ (RollingBack /\ current' = current)
         /\ RollingBack => SaveState \/ Crash \/ (RevertRows /\ pc' = "failed")
                             \/ (RollingBack' /\ current' = current)
<1> USE DEF RollingBack
<1>1. ASSUME NEW b \in Blocks, Extend(b) PROVE pc' = pc /\ current' = current
  BY <1>1 DEF Extend
<1>2. ASSUME NEW to \in Levels, Reorg(to) PROVE pc' = pc /\ current' = current
  BY <1>2 DEF Reorg
<1>3. Connect \/ ReceiveData \/ ReceiveReorg => pc' = pc /\ current' = current
  BY DEF Connect, ReceiveData, ReceiveReorg
<1>4. Disconnect \/ Answer => (pc' = pc /\ current' = current) \/ (~RollingBack /\ ~RollingBack')
  BY DEF Disconnect, Answer
<1>5. Crash => ~RollingBack'
  BY DEF Crash
<1>6. Spawn \/ Subscribe \/ Schedule \/ Fetch \/ ProcessFetched \/ ExitSync
        => ~RollingBack /\ ~RollingBack'
  BY DEF Spawn, Subscribe, Schedule, Fetch, ProcessFetched, ExitSync
<1>7. QueueEmpty \/ ProcessData => ~RollingBack /\ ~RollingBack'
  BY DEF QueueEmpty, ProcessData
<1>8. Process \/ Refresh => ~RollingBack /\ ~RollingBack'
  BY DEF Process, Refresh, Decide
<1>9. RevertRows => RollingBack /\ (pc' = "failed" \/ (RollingBack' /\ current' = current))
                      /\ (RollingBack' => current' = current)
  BY DEF RevertRows
<1>10. MoveLevel => RollingBack /\ RollingBack' /\ current' = current
  BY DEF MoveLevel
<1>11. SaveState => ~RollingBack'
  BY DEF SaveState
<1>12. StartRollback => ~RollingBack
  BY DEF StartRollback
<1>13. pc' = pc => (RollingBack' <=> RollingBack)
  OBVIOUS
<1> HIDE DEF RollingBack
<1> QED
  BY <1>1, <1>2, <1>3, <1>4, <1>5, <1>6, <1>7, <1>8, <1>9, <1>10, <1>11, <1>12, <1>13
     DEF Next, Environment, Websocket, Dispatcher

(* What may be received is moved to the queue or forgotten; where rollbacks *)
(* still lead to is nothing but what a reorg adds.                          *)
LEMMA QueueRollbacks ==
  ASSUME Typed, UnbufferedFits, bufferSize = 0, Next, NEW d, RollbackTo(d)'
  PROVE  RollbackTo(d) \/ (ReceiveReorg /\ feed[1].kind = "reorg" /\ Len(feed) >= 1
                             /\ d = feed[1].level
                             /\ d < ChannelLevel /\ d < stored.level)
<1> USE QueueAt
<1>1. PICK n \in 1 .. Len(queue') : queue'[n].kind = "rollback" /\ d = queue'[n].to
  BY DEF RollbackTo
<1>2. CASE ReceiveData
  <2>1. queue' = Append(queue, Head(feed)) /\ Head(feed) \in Messages /\ Head(feed).kind = "data"
    BY <1>2, ReceivesData, FeedHead
  <2>2. n \in 1 .. Len(queue) /\ queue'[n] = queue[n]
    BY <1>1, <2>1, QueueGiven
  <2> QED
    BY <1>1, <2>2 DEF RollbackTo
<1>3. CASE ReceiveReorg
  <2>1. CASE queue' = queue
    BY <1>1, <2>1 DEF RollbackTo
  <2>2. CASE queue' # queue
    <3> DEFINE m == RollbackMsg(ChannelLevel, Head(feed).level)
    <3>1. /\ queue' = Append(queue, m) /\ ~(ChannelLevel <= Head(feed).level)
          /\ Head(feed).level < stored.level /\ Head(feed).kind = "reorg" /\ Head(feed) = feed[1]
          /\ feed # <<>> /\ ChannelLevel \in Levels /\ Head(feed).level \in Levels
      BY <1>3, <2>2, ReceivesReorg
    <3>2. m \in Rollbacks /\ m.kind = "rollback" /\ m.to = feed[1].level
      BY <3>1 DEF RollbackMsg, Rollbacks
    <3>3. Len(feed) >= 1 /\ feed[1].level < ChannelLevel
      BY <3>1, FeedAt DEF Levels
    <3> HIDE DEF m
    <3>4. CASE n \in 1 .. Len(queue)
      <4>1. queue'[n] = queue[n]
        BY <3>1, <3>2, <3>4, QueueGiven
      <4> QED
        BY <1>1, <3>4, <4>1 DEF RollbackTo
    <3>5. CASE n \notin 1 .. Len(queue)
      <4>1. queue'[n] = m
        BY <3>1, <3>2, <3>5, QueueGiven
      <4> QED
        BY <1>1, <1>3, <3>1, <3>2, <3>3, <4>1
    <3> QED
      BY <3>4, <3>5
  <2> QED
    BY <2>1, <2>2
<1>4. CASE ProcessData \/ StartRollback
  <2>1. queue # <<>> /\ queue' = Tail(queue)
    BY <1>4 DEF ProcessData, StartRollback
  <2>2. Len(queue') = Len(queue) - 1 /\ queue'[n] = queue[n + 1] /\ n + 1 \in 1 .. Len(queue)
    BY <2>1, QueueTaken
  <2> QED
    BY <1>1, <2>2 DEF RollbackTo
<1>5. CASE queue' = <<>>
  <2>1. Len(queue') = 0
    BY <1>5
  <2> QED
    BY <1>1, <2>1
<1>6. CASE queue' = queue
  BY <1>1, <1>6 DEF RollbackTo
<1>7. Crash => queue' = <<>>
  BY DEF Crash
<1>8. SaveState => queue' = queue
  BY DEF SaveState
<1> QED
  BY <1>2, <1>3, <1>4, <1>5, <1>6, <1>7, <1>8, QueueFrame, Clears

(* What announces reorgs is reorgs.                                         *)
LEMMA FeedReorgs ==
  ASSUME Typed, UnbufferedFits, bufferSize = 0, Next, NEW d, ReorgTo(d)'
  PROVE  ReorgTo(d) \/ \E to \in Levels : Reorg(to) /\ d = to
<1> USE FeedAt
<1>1. PICK n \in 1 .. Len(feed') : feed'[n].kind = "reorg" /\ d = feed'[n].level
  BY DEF ReorgTo
<1>2. ASSUME NEW b \in Blocks, Extend(b), feed' # feed PROVE ReorgTo(d)
  <2>1. PICK m : m = DataMsg(HeadLevel + 1, b)
    OBVIOUS
  <2>2. feed' = Append(feed, m) /\ m \in Messages /\ m.kind = "data"
    BY <1>2, <2>1, Extends
  <2>3. n \in 1 .. Len(feed) /\ feed'[n] = feed[n]
    BY <1>1, <2>2, AppendAt
  <2> QED
    BY <1>1, <2>3 DEF ReorgTo
<1>3. ASSUME NEW to \in Levels, Reorg(to), feed' # feed PROVE ReorgTo(d) \/ d = to
  <2>1. PICK m : m = ReorgMsg(to)
    OBVIOUS
  <2>2. feed' = Append(feed, m) /\ m \in Messages /\ m.level = to
    BY <1>3, <2>1, Reorganises
  <2>3. (n \in 1 .. Len(feed) /\ feed'[n] = feed[n]) \/ feed'[n] = m
    BY <1>1, <2>2, AppendAt
  <2> QED
    BY <1>1, <2>2, <2>3 DEF ReorgTo
<1>4. ASSUME ReceiveData \/ ReceiveReorg PROVE ReorgTo(d)
  <2>1. feed # <<>> /\ feed' = Tail(feed) /\ channel' = Head(feed).level
    BY <1>4, ReceivesData, ReceivesReorg
  <2>2. feed'[n] = feed[n + 1] /\ n + 1 \in 1 .. Len(feed)
    BY <2>1, FeedTaken
  <2> QED
    BY <1>1, <2>2 DEF ReorgTo
<1>5. feed' # <<>>
  BY <1>1
<1>6. CASE feed' = feed
  BY <1>1, <1>6 DEF ReorgTo
<1>7. (Disconnect \/ Crash => feed' = <<>>) /\ (Answer => feed' = feed)
  BY DEF Disconnect, Crash, Answer
<1> QED
  BY <1>2, <1>3, <1>4, <1>5, <1>6, <1>7, WireFrame

(* Where rollbacks newly lead is where a reorg goes.                        *)
LEMMA DestinationsNew ==
  ASSUME Typed, Typed', UnbufferedFits, bufferSize = 0, Next, NEW d \in Destinations'
  PROVE  d \in Destinations \/ \E to \in Levels : Reorg(to) /\ d = to
<1> USE DestinationsIn
<1>1. ReorgTo(d)' \/ RollbackTo(d)' \/ (RollingBack' /\ d = current'.to)
  BY DestinationsInNext
<1>2. CASE ReorgTo(d)'
  BY <1>2, FeedReorgs
<1>3. CASE RollbackTo(d)'
  <2>1. RollbackTo(d) \/ (feed[1].kind = "reorg" /\ Len(feed) >= 1 /\ d = feed[1].level)
    BY <1>3, QueueRollbacks
  <2>2. Len(feed) >= 1 => 1 \in 1 .. Len(feed)
    BY FeedAt
  <2> QED
    BY <2>1, <2>2 DEF ReorgTo
<1>4. CASE RollingBack' /\ d = current'.to
  <2>1. CASE StartRollback
    <3>1. current' = Head(queue) /\ Head(queue).kind = "rollback" /\ queue # <<>>
             /\ queue' = Tail(queue)
      BY <2>1 DEF StartRollback
    <3>2. Head(queue) = queue[1] /\ 1 \in 1 .. Len(queue)
      BY <3>1, QueueTaken, QueueAt
    <3> QED
      BY <1>4, <3>1, <3>2 DEF RollbackTo
  <2>2. CASE ~StartRollback
    BY <1>4, <2>2, RollingFrame
  <2> QED
    BY <2>1, <2>2
<1> QED
  BY <1>1, <1>2, <1>3, <1>4

(* No step loses one.                                                       *)
LEMMA NoneLostStep ==
  ASSUME Typed, Typed', UnbufferedFits, bufferSize = 0, Orderly, NoneLost, Next
  PROVE  NoneLost'
<1> SUFFICES ASSUME ~subscribed', NEW d \in Destinations'
             PROVE  FALSE
  BY DEF NoneLost
<1>1. CASE subscribed
  <2>1. Disconnect \/ Crash
    <3>1. (\E b \in Blocks : Extend(b)) \/ (\E to \in Levels : Reorg(to))
             => subscribed' = subscribed
      BY DEF Extend, Reorg
    <3>2. Answer \/ ReceiveData \/ ReceiveReorg => subscribed'
      BY <1>1 DEF Answer, ReceiveData, ReceiveReorg
    <3> QED
      BY <1>1, <3>1, <3>2, WireFrame
  <2>2. MayLose /\ "lost_rollback" \notin Hazards
    BY <2>1 DEF Disconnect, Crash, Orderly
  <2>3. ~ReorgIn(1, Len(feed)) /\ ~RollbackIn(1, Len(queue)) /\ ~RollingBack
    BY <2>2, ReorgIsHeld
  <2>4. Destinations = {}
    BY <2>3, DestinationsIn DEF ReorgTo, RollbackTo, ReorgIn, RollbackIn
  <2>5. ~ \E to \in Levels : Reorg(to)
    BY <1>1, <2>1 DEF Disconnect, Crash, Reorg
  <2> QED
    BY <2>4, <2>5, DestinationsNew
<1>2. CASE ~subscribed
  <2>1. Destinations = {}
    BY <1>2 DEF NoneLost
  <2>2. PICK to \in Levels : Reorg(to)
    BY <2>1, DestinationsNew
  <2> QED
    BY <1>2, <2>2, ReorgGuards
<1> QED
  BY <1>1, <1>2

(* Nothing is queued before a message is received.                          *)
LEMMA ChannelSeenStep ==
  ASSUME Typed, Typed', UnbufferedFits, bufferSize = 0, ChannelSeen, Next
  PROVE  ChannelSeen'
<1> SUFFICES ASSUME channel' = NoLevel
             PROVE  queue' = <<>> /\ ~RollingBack'
  BY DEF ChannelSeen
<1>1. ASSUME Crash PROVE queue' = <<>> /\ ~RollingBack'
  BY <1>1 DEF Crash, RollingBack
<1>2. ~ReceiveData /\ ~ReceiveReorg
  <2>1. ReceiveData \/ ReceiveReorg => channel' \in Levels
    BY ReceivesData, ReceivesReorg, FeedHead
  <2> QED
    BY <2>1 DEF Levels, NoLevel
<1>3. ASSUME ~Crash PROVE channel' = channel
  <2>1. (\E b \in Blocks : Extend(b)) \/ (\E to \in Levels : Reorg(to)) => channel' = channel
    BY DEF Extend, Reorg
  <2>2. Disconnect \/ Answer => channel' = channel
    BY DEF Disconnect, Answer
  <2> QED
    BY <1>2, <1>3, <2>1, <2>2, WireFrame
<1>4. ASSUME ~Crash PROVE queue' = <<>> /\ ~RollingBack'
  <2>1. queue = <<>> /\ ~RollingBack
    BY <1>3, <1>4 DEF ChannelSeen
  <2>2. ~StartRollback /\ ~ProcessData
    BY <2>1 DEF StartRollback, ProcessData
  <2>3. queue' = <<>>
    <3>1. SaveState => queue' = queue
      BY DEF SaveState
    <3> QED
      BY <1>2, <1>4, <2>1, <2>2, <3>1, QueueFrame, Clears
  <2> QED
    BY <2>1, <2>2, <2>3, RollingFrame
<1> QED
  BY <1>1, <1>4

(* No step announces a block below the channel.                             *)
LEMMA AscendingStep ==
  ASSUME Typed, Typed', UnbufferedFits, bufferSize = 0, HeadFits, Ascending, Next
  PROVE  Ascending'
<1> USE FeedAt, LevelTypes
<1>0. ASSUME NEW m \in Messages, feed' = Append(feed, m), UNCHANGED <<channel, syncLevel>>,
             m.kind = "data" => m.level = HeadLevel + 1
      PROVE  Ascending'
  <2> SUFFICES ASSUME NEW n \in 1 .. Len(feed'), feed'[n].kind = "data"
               PROVE  ChannelAfter(n - 1)' < feed'[n].level
    BY DEF Ascending
  <2>1. Len(feed') = Len(feed) + 1
    BY <1>0, FeedSent
  <2>2. n - 1 \in 0 .. Len(feed)
    BY <2>1
  <2>3. ChannelAfter(n - 1)' = ChannelAfter(n - 1)
    BY <1>0, <2>2, FeedSent
  <2>4. CASE n \in 1 .. Len(feed)
    <3>1. feed'[n] = feed[n]
      BY <1>0, <2>4, FeedSent
    <3> QED
      BY <2>3, <2>4, <3>1 DEF Ascending
  <2>5. CASE n = Len(feed) + 1
    <3>1. feed'[n] = m
      BY <1>0, <2>5, FeedSent
    <3>2. ChannelAfter(Len(feed)) <= HeadLevel
      BY SMTT(30) DEF HeadFits, ReorgIn
    <3>3. ChannelAfter(n - 1) <= HeadLevel /\ ChannelAfter(n - 1) \in Int
      BY <2>2, <2>5, <3>2, ChannelAfterType
    <3> QED
      BY <1>0, <2>3, <3>1, <3>3
  <2> QED
    BY <2>1, <2>4, <2>5
<1>1. ASSUME NEW b \in Blocks, Extend(b), feed' # feed PROVE Ascending'
  <2>1. PICK m : m = DataMsg(HeadLevel + 1, b)
    OBVIOUS
  <2>2. /\ feed' = Append(feed, m) /\ m \in Messages /\ m.level = HeadLevel + 1
        /\ UNCHANGED <<channel, syncLevel>>
    BY <1>1, <2>1, Extends
  <2> QED
    BY <1>0, <2>2
<1>2. ASSUME NEW to \in Levels, Reorg(to), feed' # feed PROVE Ascending'
  <2>1. PICK m : m = ReorgMsg(to)
    OBVIOUS
  <2>2. /\ feed' = Append(feed, m) /\ m \in Messages /\ m.kind = "reorg"
        /\ UNCHANGED <<channel, syncLevel>>
    BY <1>2, <2>1, Reorganises
  <2> QED
    BY <1>0, <2>2
<1>3. ASSUME ReceiveData \/ ReceiveReorg PROVE Ascending'
  <2>1. feed # <<>> /\ feed' = Tail(feed) /\ channel' = Head(feed).level
    BY <1>3, ReceivesData, ReceivesReorg
  <2> SUFFICES ASSUME NEW n \in 1 .. Len(feed'), feed'[n].kind = "data"
               PROVE  ChannelAfter(n - 1)' < feed'[n].level
    BY DEF Ascending
  <2>2. /\ Len(feed') = Len(feed) - 1 /\ n + 1 \in 1 .. Len(feed) /\ feed'[n] = feed[n + 1]
        /\ n - 1 \in 0 .. Len(feed') /\ (n - 1) + 1 = n /\ (n + 1) - 1 = n
    BY <2>1, FeedTaken
  <2>3. ChannelAfter(n - 1)' = ChannelAfter(n)
    BY <2>1, <2>2, FeedTaken
  <2>4. ChannelAfter(n) < feed[n + 1].level
    BY <2>2 DEF Ascending
  <2> QED
    BY <2>2, <2>3, <2>4
<1>4. CASE feed' = <<>>
  BY <1>4 DEF Ascending
<1>5. (Disconnect \/ Crash => feed' = <<>>) /\ (Answer => feed' = <<>>)
  BY DEF Disconnect, Crash, Answer, Typed, SocketType
<1>6. CASE feed' = feed /\ UNCHANGED <<channel, syncLevel>>
  BY <1>6 DEF Ascending, ChannelAfter, ChannelLevel
<1>7. (\E b \in Blocks : Extend(b)) \/ (\E to \in Levels : Reorg(to))
         => UNCHANGED <<channel, syncLevel>>
  BY DEF Extend, Reorg
<1> QED
  BY <1>1, <1>2, <1>3, <1>4, <1>5, <1>6, <1>7, WireFrame

(* What is queued is not above what the channel has seen.                   *)
LEMMA BelowChannelStep ==
  ASSUME Typed, Typed', UnbufferedFits, UnbufferedFits', bufferSize = 0, ChannelSeen,
         Ordered, Ascending, BelowChannel, Next
  PROVE  BelowChannel'
<1> USE QueueAt, FeedAt, LevelTypes
<1>1. ASSUME ReceiveData PROVE BelowChannel'
  <2>1. /\ feed # <<>> /\ feed' = Tail(feed) /\ channel' = Head(feed).level /\ Head(feed) = feed[1]
        /\ queue' = Append(queue, Head(feed)) /\ Head(feed) \in Messages /\ feed[1].kind = "data"
    BY <1>1, ReceivesData, FeedHead
  <2>2. ChannelLevel' = feed[1].level /\ 1 \in 1 .. Len(feed) /\ feed[1].level \in Nat
    BY <2>1, FeedTaken DEF Levels
  <2>3. ChannelLevel < feed[1].level /\ ChannelLevel \in Int
    <3>1. ChannelAfter(1 - 1) < feed[1].level
      BY <2>1, <2>2 DEF Ascending
    <3>2. ChannelAfter(0) \in Int
      BY ChannelAfterType
    <3> QED
      BY <3>1, <3>2 DEF ChannelAfter
  <2>4. ASSUME NEW n \in 1 .. Len(queue'), queue'[n].kind = "data"
        PROVE  queue'[n].level <= ChannelLevel'
    <3>0. /\ Len(queue') = Len(queue) + 1 /\ queue'[Len(queue) + 1] = Head(feed)
          /\ \A k \in 1 .. Len(queue) : queue'[k] = queue[k]
      BY <2>1, QueueGiven
    <3>4. n \in 1 .. Len(queue) \/ n = Len(queue) + 1
      BY <3>0
    <3>1. (n \in 1 .. Len(queue) /\ queue'[n] = queue[n]) \/ queue'[n] = feed[1]
      BY <2>1, <3>0, <3>4
    <3>2. CASE queue'[n] = feed[1]
      BY <2>2, <3>2
    <3>3. CASE n \in 1 .. Len(queue) /\ queue'[n] = queue[n]
      <4>1. queue[n].level <= ChannelLevel /\ queue[n].level \in Nat
        BY SMTT(30), <2>4, <3>3 DEF BelowChannel, Levels
      <4> QED
        BY <2>2, <2>3, <3>3, <4>1
    <3> QED
      BY <3>1, <3>2, <3>3
  <2> QED
    BY <2>4 DEF BelowChannel
<1>2. ASSUME ReceiveReorg PROVE BelowChannel'
  <2>1. /\ feed # <<>> /\ feed' = Tail(feed) /\ channel' = Head(feed).level /\ Head(feed) = feed[1]
        /\ feed[1].kind = "reorg"
    BY <1>2, ReceivesReorg
  <2>2. ChannelLevel' = feed[1].level /\ 1 \in 1 .. Len(feed)
    BY <2>1, FeedTaken
  <2>3. ASSUME NEW n \in 1 .. Len(queue), queue[n].kind = "data"
        PROVE  queue[n].level <= feed[1].level
    <3>1. /\ Len(queue) + 1 \in Items /\ Pending[Len(queue) + 1] = feed[1]
          /\ n \in Items /\ Pending[n] = queue[n]
      BY <2>2, PendingAt
    <3>2. Len(queue) + 1 \in n + 1 .. Len(Pending)
      BY <3>1 DEF Items
    <3>3. DataAt(n) /\ ~DataAt(Len(queue) + 1)
      BY <2>1, <2>3, <3>1 DEF DataAt
    <3>4. Effect(Pending[n]) <= Effect(Pending[Len(queue) + 1])
      BY <3>1, <3>2, <3>3 DEF Ordered
    <3> QED
      BY <2>1, <2>3, <3>1, <3>4 DEF Effect
  <2>4. ASSUME NEW n \in 1 .. Len(queue'), queue'[n].kind = "data"
        PROVE  queue'[n].level <= ChannelLevel'
    <3>1. n \in 1 .. Len(queue) /\ queue'[n] = queue[n]
      <4>1. CASE queue' = queue
        BY <4>1
      <4>2. CASE queue' # queue
        <5>1. PICK m : m = RollbackMsg(ChannelLevel, Head(feed).level)
          OBVIOUS
        <5>2. queue' = Append(queue, m) /\ m \in Rollbacks /\ m.kind = "rollback"
          BY <1>2, <4>2, <5>1, ReceivesReorg DEF RollbackMsg, Rollbacks
        <5> QED
          BY <2>4, <5>2, QueueGiven
      <4> QED
        BY <4>1, <4>2
    <3> QED
      BY <2>2, <2>3, <2>4, <3>1
  <2> QED
    BY <2>4 DEF BelowChannel
<1>3. CASE queue' = <<>>
  <2>1. Len(queue') = 0
    BY <1>3
  <2> QED
    BY <2>1 DEF BelowChannel
<1>4. CASE ChannelLevel' = ChannelLevel /\ (ProcessData \/ StartRollback)
  <2>1. queue # <<>> /\ queue' = Tail(queue)
    BY <1>4 DEF ProcessData, StartRollback
  <2> SUFFICES ASSUME NEW n \in 1 .. Len(queue'), queue'[n].kind = "data"
               PROVE  queue'[n].level <= ChannelLevel'
    BY DEF BelowChannel
  <2>2. n + 1 \in 1 .. Len(queue) /\ queue'[n] = queue[n + 1]
    BY SMTT(30), <2>1, QueueTaken
  <2> QED
    BY <1>4, <2>2 DEF BelowChannel
<1>5. CASE ChannelLevel' = ChannelLevel /\ queue' = queue
  BY <1>5 DEF BelowChannel
<1>6. ProcessData \/ StartRollback \/ Process \/ Refresh \/ SaveState
         => ChannelLevel' = ChannelLevel
  <2>1. ProcessData \/ StartRollback \/ Process \/ Refresh \/ SaveState
           => UNCHANGED <<channel, syncLevel>>
    BY DEF ProcessData, StartRollback, Process, Refresh, SaveState, datasource
  <2> QED
    BY <2>1 DEF ChannelLevel
<1>7. Crash => queue' = <<>>
  BY DEF Crash
<1>8. SaveState => queue' = queue
  BY DEF SaveState
<1>9. ASSUME queue' = queue, ~Crash, ~ReceiveData, ~ReceiveReorg
      PROVE  BelowChannel'
  <2>1. channel' = channel
    <3>1. (\E b \in Blocks : Extend(b)) \/ (\E to \in Levels : Reorg(to)) => channel' = channel
      BY DEF Extend, Reorg
    <3>2. Disconnect \/ Answer => channel' = channel
      BY DEF Disconnect, Answer
    <3> QED
      BY <1>9, <3>1, <3>2, WireFrame
  <2>2. CASE channel = NoLevel
    BY <1>3, <1>9, <2>2 DEF ChannelSeen
  <2>3. CASE channel # NoLevel
    BY <1>5, <1>9, <2>1, <2>3 DEF ChannelLevel
  <2> QED
    BY <2>2, <2>3
<1> QED
  BY <1>1, <1>2, <1>3, <1>4, <1>6, <1>7, <1>8, <1>9, QueueFrame, Clears

(* Rollbacks lead to the sync level or above, and only when the index has   *)
(* reached it: the levels to be synchronized are not rolled back.           *)
SyncBelow ==
  \A d \in Destinations : 1 <= d /\ syncLevel <= d /\ syncLevel <= stored.level

(* The steps that index a level.                                            *)
LEMMA Fetches ==
  ASSUME Typed, LevelsFit, SyncRuns, ProcessFetched
  PROVE  /\ pc = "sync" /\ pc' = "sync" /\ fetched' = <<>> /\ Len(fetched) = 1
         /\ fetched[1].level \in Levels /\ fetched[1].block \in Blocks
         /\ stored.level < fetched[1].level /\ fetched[1].level < position
         /\ stored'.level = fetched[1].level
         /\ applied' = [applied EXCEPT ![fetched[1].level] = fetched[1].block]
<1> USE LevelTypes
<1>1. /\ pc = "sync" /\ fetched # <<>> /\ fetched' = <<>>
      /\ Head(fetched) = fetched[1] /\ fetched[1].level \in Levels /\ fetched[1].block \in Blocks
  BY FetchedHead DEF ProcessFetched
<1>2. Len(fetched) = 1 /\ 1 \in DOMAIN fetched
  <2>1. Len(fetched) <= 1 /\ Len(fetched) >= 1 /\ Len(fetched) \in Nat /\ fetched \in Seq(Messages)
    BY <1>1 DEF SyncRuns
  <2>2. DOMAIN fetched = 1 .. Len(fetched)
    BY <2>1
  <2> QED
    BY <2>1, <2>2
<1>3. stored.level < fetched[1].level /\ fetched[1].level < position /\ state.level = stored.level
  BY <1>1, <1>2 DEF SyncRuns, LevelsFit
<1>4. fetched[1].level \in Nat
  BY <1>1 DEF Levels
<1>5. Index(fetched[1]) /\ pc' = pc
  BY <1>1, <1>3, <1>4 DEF ProcessFetched
<1>6. stored'.level = fetched[1].level
  BY <1>1, <1>3, <1>4, <1>5, IndexingMoves
<1> QED
  BY <1>1, <1>2, <1>3, <1>5, <1>6 DEF Index

(* What handling a block of the queue does.                                 *)
LEMMA Works ==
  ASSUME Typed, LevelsFit, UnbufferedFits, ProcessData
  PROVE  /\ pc = "queue" /\ pc' = "queue" /\ queue # <<>> /\ queue' = Tail(queue)
         /\ queue[1].kind = "data" /\ queue[1].level \in Levels /\ queue[1].block \in Blocks
         /\ Len(queue) >= 1
         /\ queue[1].level <= stored.level => UNCHANGED <<stored, applied>>
         /\ queue[1].level > stored.level =>
              /\ stored'.level = queue[1].level
              /\ applied' = [applied EXCEPT ![queue[1].level] = queue[1].block]
<1> USE LevelTypes
<1>1. /\ pc = "queue" /\ pc' = pc /\ queue # <<>> /\ queue' = Tail(queue) /\ Head(queue) = queue[1]
      /\ queue[1].kind = "data" /\ queue[1].level \in Levels /\ queue[1].block \in Blocks
  BY QueueHead DEF ProcessData
<1>2. state.level = stored.level /\ queue[1].level \in Nat
  BY <1>1 DEF LevelsFit, Levels
<1>3. ASSUME queue[1].level > stored.level
      PROVE  Index(queue[1])
  BY <1>1, <1>2, <1>3 DEF ProcessData
<1>4. ASSUME queue[1].level > stored.level
      PROVE  /\ stored'.level = queue[1].level
             /\ applied' = [applied EXCEPT ![queue[1].level] = queue[1].block]
  BY <1>1, <1>2, <1>3, <1>4, IndexingMoves DEF Index
<1>5. queue[1].level <= stored.level => UNCHANGED <<stored, applied>>
  BY <1>1, <1>2 DEF ProcessData
<1> QED
  BY <1>1, <1>4, <1>5, QueueAt

(* A process that has a sync level decides with the committed level.        *)
LEMMA Decides ==
  ASSUME Typed, LevelsFit, Process \/ Refresh
  PROVE  /\ pc \in {"process", "refresh"} /\ stored'.level = stored.level
         /\ UNCHANGED <<environment, datasource, spawned, current, fetched, applied>>
         /\ pc' \in {"failed", "sync", "queue", "loop", "refresh"}
         /\ pc' = "sync" => /\ syncLevel # NoLevel /\ stored.level < syncLevel /\ queue' = <<>>
                            /\ position' = stored.level + 1 /\ target' = syncLevel
         /\ pc' # "sync" => UNCHANGED <<queue, stored, position, target>>
         /\ pc' \in {"queue", "loop"} => syncLevel # NoLevel /\ syncLevel <= stored.level
         /\ pc' = "loop" => queue = <<>>
<1> USE LevelTypes
<1>1. CASE Process /\ rolledBack
  BY <1>1 DEF Process
<1>2. CASE Process /\ ~rolledBack
  <2>1. /\ pc = "process" /\ Decide(state) /\ state \in States /\ state.level = stored.level
        /\ UNCHANGED <<environment, datasource, spawned, current, fetched, applied>>
    BY <1>2 DEF Process, Typed, IndexType, LevelsFit
  <2> QED
    BY <2>1, DecideMoves
<1>3. CASE Refresh
  <2>1. PICK s : s = [state EXCEPT !.level = stored.level]
    OBVIOUS
  <2>2. /\ pc = "refresh" /\ Decide(s) /\ s \in States /\ s.level = stored.level
        /\ UNCHANGED <<environment, datasource, spawned, current, fetched, applied>>
    BY <1>3, <2>1 DEF Refresh, Typed, IndexType, States
  <2> QED
    BY <2>2, DecideMoves
<1> QED
  BY <1>1, <1>2, <1>3

(* The steps that move the committed level.                                 *)
LEMMA StoredFrame ==
  ASSUME Typed, LevelsFit, SyncRuns, SyncBelow, Next
  PROVE  ProcessFetched \/ ExitSync \/ ProcessData \/ MoveLevel \/ stored'.level = stored.level
<1>1. (\E b \in Blocks : Extend(b)) \/ (\E to \in Levels : Reorg(to)) \/ Disconnect \/ Crash
        => UNCHANGED stored
  BY DEF Extend, Reorg, Disconnect, Crash
<1>2. Websocket => UNCHANGED stored
  BY DEF Websocket, Connect, Answer, ReceiveData, ReceiveReorg
<1>3. Spawn \/ Subscribe \/ Schedule \/ Fetch \/ QueueEmpty \/ StartRollback \/ RevertRows
        => UNCHANGED stored
  BY DEF Spawn, Subscribe, Schedule, Fetch, QueueEmpty, StartRollback, RevertRows
<1>4. Process \/ Refresh => stored'.level = stored.level
  BY Decides
<1>5. SaveState => stored'.level = stored.level
  <2> SUFFICES ASSUME SaveState PROVE stored'.level = stored.level
    OBVIOUS
  <2>1. stored'.level = IF current.to = 0 THEN state.level ELSE current.to
    BY DEF SaveState, Updated
  <2>2. stored.level = current.to
    BY DEF LevelsFit, SaveState
  <2>3. current.to # 0
    <3>1. current.to \in Destinations
      BY DestinationsIn DEF SaveState, RollingBack
    <3> QED
      BY <3>1 DEF SyncBelow
  <2> QED
    BY <2>1, <2>2, <2>3
<1> QED
  BY <1>1, <1>2, <1>3, <1>4, <1>5 DEF Next, Environment, Dispatcher

(* The steps that touch rows.                                               *)
LEMMA AppliedFrame ==
  ASSUME Next
  PROVE  RevertRows \/ ProcessFetched \/ ProcessData \/ UNCHANGED applied
<1>1. (\E b \in Blocks : Extend(b)) \/ (\E to \in Levels : Reorg(to)) \/ Disconnect \/ Crash
        => UNCHANGED applied
  BY DEF Extend, Reorg, Disconnect, Crash
<1>2. Websocket => UNCHANGED applied
  BY DEF Websocket, Connect, Answer, ReceiveData, ReceiveReorg
<1>3. Spawn \/ Subscribe \/ Schedule \/ Fetch \/ QueueEmpty \/ StartRollback \/ MoveLevel
         \/ SaveState
        \/ Process \/ Refresh \/ ExitSync => UNCHANGED applied
  BY DEF Spawn, Subscribe, Schedule, Fetch, QueueEmpty, StartRollback, MoveLevel, SaveState,
         Process, Refresh, ExitSync
<1> QED
  BY <1>1, <1>2, <1>3 DEF Next, Environment, Dispatcher

(* What the end of a synchronization does.                                  *)
LEMMA Exits ==
  ASSUME Typed, LevelsFit, SyncRuns, ExitSync
  PROVE  /\ pc = "sync" /\ pc' = "loop" /\ fetched = <<>> /\ target < position
         /\ stored'.level = target /\ stored.level <= target
         /\ UNCHANGED <<environment, datasource, queue, current, applied>>
<1> USE LevelTypes
<1>1. /\ pc = "sync" /\ pc' = "loop" /\ fetched = <<>> /\ target < position
      /\ stored'.level = Updated(state, "realtime", target).level
      /\ UNCHANGED <<environment, datasource, queue, current, applied>>
  BY DEF ExitSync, MoreToFetch
<1>2. 0 < target /\ stored.level <= target
  BY <1>1 DEF SyncRuns
<1>3. Updated(state, "realtime", target).level = target
  BY <1>2 DEF Updated
<1> QED
  BY <1>1, <1>2, <1>3

(* What a rollback does to the committed level.                             *)
LEMMA Moves ==
  ASSUME Typed, MoveLevel
  PROVE  /\ pc = "move" /\ pc' = "save" /\ stored'.level = current.to /\ RollingBack /\ RollingBack'
         /\ UNCHANGED <<environment, datasource, queue, current, fetcher, applied>>
  BY DEF MoveLevel, Typed, IndexType, States, RollingBack

(* Who changes the sync level.                                              *)
LEMMA SyncFrame ==
  ASSUME Next
  PROVE  Disconnect \/ Crash \/ Answer \/ UNCHANGED syncLevel
<1>1. (\E b \in Blocks : Extend(b)) \/ (\E to \in Levels : Reorg(to)) => UNCHANGED syncLevel
  BY DEF Extend, Reorg
<1>2. ReceiveData \/ ReceiveReorg => UNCHANGED syncLevel
  BY DEF ReceiveData, ReceiveReorg
<1> QED
  BY <1>1, <1>2, WireFrame

(* A connection or a process that is lost loses no rollback.                *)
LEMMA LosesNone ==
  ASSUME Typed, Orderly, Disconnect \/ Crash
  PROVE  Destinations = {}
<1>1. MayLose /\ "lost_rollback" \notin Hazards
  BY DEF Disconnect, Crash, Orderly
<1>2. ~ReorgIn(1, Len(feed)) /\ ~RollbackIn(1, Len(queue)) /\ ~RollingBack
  BY <1>1, ReorgIsHeld
<1> QED
  BY <1>2, DestinationsIn DEF ReorgTo, RollbackTo, ReorgIn, RollbackIn

(* No step moves the sync level above where a rollback leads.               *)
LEMMA SyncBelowStep ==
  ASSUME Typed, Typed', LevelsFit, SyncRuns, UnbufferedFits, bufferSize = 0, Orderly,
         NoneLost, SyncBelow, Next
  PROVE  SyncBelow'
<1> USE LevelTypes
<1> SUFFICES ASSUME NEW d \in Destinations'
             PROVE  1 <= d /\ syncLevel' <= d /\ syncLevel' <= stored'.level
  BY DEF SyncBelow
<1>0. syncLevel' \in Int /\ stored'.level \in Nat
  <2>1. Typed' => (syncLevel \in Int /\ stored.level \in Nat)'
    <3>1. Typed => syncLevel \in Int /\ stored.level \in Nat
      OBVIOUS
    <3> QED
      BY <3>1, PTL
  <2> QED
    BY <2>1
<1>1. d \in Destinations \/ \E to \in Levels : Reorg(to) /\ d = to
  BY DestinationsNew
<1>2. ASSUME NEW to \in Levels, Reorg(to), d = to
      PROVE  1 <= d /\ syncLevel' <= d /\ syncLevel' <= stored'.level
  <2>1. 1 <= to /\ syncLevel <= to /\ syncLevel <= stored.level /\ syncLevel' = syncLevel
    BY <1>2, Reorganises, ReorgGuards
  <2>2. stored' = stored
    BY <1>2 DEF Reorg
  <2> QED
    BY <1>2, <2>1, <2>2
<1>3. ASSUME d \in Destinations
      PROVE  1 <= d /\ syncLevel' <= d /\ syncLevel' <= stored'.level
  <2>1. 1 <= d /\ syncLevel <= d /\ syncLevel <= stored.level /\ d \in Nat
    BY <1>3, DestinationTypes DEF SyncBelow
  <2>2. subscribed /\ ~Disconnect /\ ~Crash
    BY <1>3, LosesNone DEF NoneLost
  <2>3. ~Answer
    BY <2>2 DEF Answer, Typed, SocketType
  <2>4. syncLevel' = syncLevel
    BY <2>2, <2>3, SyncFrame
  <2>5. stored.level <= stored'.level \/ (MoveLevel /\ stored'.level = current.to)
    BY StoredFrame, Fetches, Works, Exits, Moves DEF Levels
  <2>6. MoveLevel => current.to \in Destinations
    BY Moves, DestinationsIn
  <2>7. syncLevel <= stored'.level
    BY <1>0, <2>1, <2>5, <2>6 DEF SyncBelow
  <2> QED
    BY <2>1, <2>4, <2>7
<1> QED
  BY <1>1, <1>2, <1>3

(* Rollbacks lead down, to the index or below; of those still to come none leads*)
(* above the one going on.                                                  *)
RollbacksDown ==
  /\ \A n \in 1 .. Len(queue) : queue[n].kind = "rollback" => queue[n].to < queue[n].from
  /\ RollingBack => current.to < current.from
RollbacksFit == \A d : RollbackTo(d) => d <= stored.level
RollingFits ==
  RollingBack => /\ current.to <= stored.level
                 /\ \A d : ReorgTo(d) \/ RollbackTo(d) => d <= current.to

(* Where a rollback leads is a level.                                       *)
LEMMA TargetTypes ==
  ASSUME Typed, UnbufferedFits, NEW d, ReorgTo(d) \/ RollbackTo(d)
  PROVE  d \in Nat
<1>1. d \in Destinations
  BY DestinationsIn
<1> QED
  BY <1>1, DestinationTypes

(* Levels are numbers, before and after a step.                             *)
LEMMA LevelTypesHere ==
  Typed => /\ stored.level \in Nat /\ current.to \in Nat /\ current.from \in Nat
           /\ syncLevel \in Int /\ HeadLevel \in Nat
  BY LevelTypes

(* The same after a step.                                                   *)
LEMMA LevelTypesNext ==
  ASSUME Typed'
  PROVE  /\ stored'.level \in Nat /\ current'.to \in Nat /\ current'.from \in Nat
         /\ syncLevel' \in Int /\ HeadLevel' \in Nat
<1>2. Typed' => (/\ stored.level \in Nat /\ current.to \in Nat /\ current.from \in Nat
               /\ syncLevel \in Int /\ HeadLevel \in Nat)'
  BY LevelTypesHere, PTL
<1> QED
  BY <1>2

(* What starting a rollback does.                                           *)
LEMMA StartsRollback ==
  ASSUME Typed, StartRollback
  PROVE  /\ Len(queue) >= 1 /\ 1 \in 1 .. Len(queue) /\ queue' = Tail(queue) /\ queue # <<>>
         /\ current' = queue[1] /\ queue[1].kind = "rollback" /\ pc = "queue" /\ pc' = "rollback"
         /\ stored' = stored
         /\ queue[1].to \in Nat /\ queue[1].from \in Nat
         /\ UNCHANGED <<environment, datasource, fetcher, applied>>
<1>1. /\ queue' = Tail(queue) /\ queue # <<>> /\ current' = Head(queue)
         /\ Head(queue).kind = "rollback"
      /\ pc = "queue" /\ pc' = "rollback" /\ stored' = stored
      /\ UNCHANGED <<environment, datasource, fetcher, applied>>
  BY DEF StartRollback
<1>2. Head(queue) = queue[1] /\ Head(queue).from \in Levels /\ Head(queue).to \in Levels
  BY <1>1, QueueHead
<1>3. Len(queue) >= 1 /\ Len(queue) \in Nat
  BY <1>1, QueueTaken, QueueAt
<1> QED
  BY <1>1, <1>2, <1>3 DEF Levels

(* After an item that is no data, rollbacks only lead further down.         *)
LEMMA FurtherDown ==
  ASSUME Typed, UnbufferedFits, Ordered, NEW n \in 1 .. Len(queue), queue[n].kind = "rollback"
  PROVE  /\ \A k \in n + 1 .. Len(queue) : queue[k].kind = "rollback" => queue[k].to <= queue[n].to
         /\ \A d : ReorgTo(d) => d <= queue[n].to
<1> USE PendingAt
<1>1. n \in Items /\ Pending[n] = queue[n] /\ ~DataAt(n) /\ Effect(Pending[n]) = queue[n].to
  BY DEF DataAt, Effect
<1>2. ASSUME NEW k \in n + 1 .. Len(queue), queue[k].kind = "rollback"
      PROVE  queue[k].to <= queue[n].to
  <2>1. k \in 1 .. Len(queue)
    OBVIOUS
  <2>2. k \in Items /\ Pending[k] = queue[k] /\ ~DataAt(k) /\ Effect(Pending[k]) = queue[k].to
    BY <1>2, <2>1 DEF DataAt, Effect
  <2>3. k \in n + 1 .. Len(Pending)
    BY <2>2 DEF Items
  <2> QED
    BY <1>1, <2>2, <2>3 DEF Ordered
<1>3. ASSUME NEW d, ReorgTo(d)
      PROVE  d <= queue[n].to
  <2>1. PICK k \in 1 .. Len(feed) : feed[k].kind = "reorg" /\ d = feed[k].level
    BY <1>3 DEF ReorgTo
  <2>2. Len(queue) + k \in Items /\ Pending[Len(queue) + k] = feed[k]
    OBVIOUS
  <2>3. ~DataAt(Len(queue) + k) /\ Effect(Pending[Len(queue) + k]) = d
    BY <2>1, <2>2 DEF DataAt, Effect
  <2>4. Len(queue) + k \in n + 1 .. Len(Pending)
    BY <2>2 DEF Items
  <2> QED
    BY <1>1, <2>2, <2>3, <2>4 DEF Ordered
<1> QED
  BY <1>2, <1>3

(* No step queues a rollback that leads up.                                 *)
LEMMA RollbacksDownStep ==
  ASSUME Typed, Typed', UnbufferedFits, UnbufferedFits', bufferSize = 0, RollbacksDown, Next
  PROVE  RollbacksDown'
<1> USE QueueAt
<1>1. RollingBack' => current'.to < current'.from
  <2> SUFFICES ASSUME RollingBack' PROVE current'.to < current'.from
    OBVIOUS
  <2>1. CASE StartRollback
    BY <2>1, StartsRollback DEF RollbacksDown
  <2> QED
    BY <2>1, RollingFrame DEF RollbacksDown
<1>2. ASSUME NEW n \in 1 .. Len(queue'), queue'[n].kind = "rollback"
      PROVE  queue'[n].to < queue'[n].from
  <2>1. CASE ReceiveData
    <3>1. queue' = Append(queue, Head(feed)) /\ Head(feed) \in Messages /\ Head(feed).kind = "data"
      BY <2>1, ReceivesData, FeedHead
    <3>2. n \in 1 .. Len(queue) /\ queue'[n] = queue[n]
      BY <1>2, <3>1, QueueGiven
    <3> QED
      BY <1>2, <3>2 DEF RollbacksDown
  <2>2. CASE ReceiveReorg
    <3>1. CASE queue' = queue
      BY <1>2, <3>1 DEF RollbacksDown
    <3>2. CASE queue' # queue
      <4>1. PICK m : m = RollbackMsg(ChannelLevel, Head(feed).level)
        OBVIOUS
      <4>2. /\ queue' = Append(queue, m) /\ m \in Rollbacks /\ m.to < m.from
        <5>1. /\ ~(ChannelLevel <= Head(feed).level) /\ ChannelLevel \in Levels
              /\ Head(feed).level \in Levels /\ queue' = Append(queue, m)
          BY <2>2, <3>2, <4>1, ReceivesReorg
        <5> QED
          BY <4>1, <5>1 DEF RollbackMsg, Rollbacks, Levels
      <4>3. (n \in 1 .. Len(queue) /\ queue'[n] = queue[n]) \/ queue'[n] = m
        BY <4>2, QueueGiven
      <4> QED
        BY <1>2, <4>2, <4>3 DEF RollbacksDown
    <3> QED
      BY <3>1, <3>2
  <2>3. CASE ProcessData \/ StartRollback
    <3>1. queue # <<>> /\ queue' = Tail(queue)
      BY <2>3 DEF ProcessData, StartRollback
    <3>2. queue'[n] = queue[n + 1] /\ n + 1 \in 1 .. Len(queue)
      BY <3>1, QueueTaken
    <3> QED
      BY <1>2, <3>2 DEF RollbacksDown
  <2>4. CASE queue' = <<>>
    BY <2>4
  <2>5. CASE queue' = queue
    BY <1>2, <2>5 DEF RollbacksDown
  <2>6. (Crash => queue' = <<>>) /\ (SaveState => queue' = queue)
    BY DEF Crash, SaveState
  <2> QED
    BY <2>1, <2>2, <2>3, <2>4, <2>5, <2>6, QueueFrame, Clears
<1> QED
  BY <1>1, <1>2 DEF RollbacksDown

(* The committed level goes up, or to where a rollback leads.               *)
LEMMA StoredMoves ==
  ASSUME Typed, LevelsFit, SyncRuns, UnbufferedFits, SyncBelow, Next
  PROVE  stored.level <= stored'.level \/ (MoveLevel /\ RollingBack /\ stored'.level = current.to)
  BY SMTT(30), StoredFrame, Fetches, Works, Exits, Moves, LevelTypes DEF Levels

(* No step takes the index below where a queued rollback leads.             *)
LEMMA RollbacksFitStep ==
  ASSUME Typed, Typed', LevelsFit, SyncRuns, UnbufferedFits, bufferSize = 0, SyncBelow,
         RollingFits, RollbacksFit, Next
  PROVE  RollbacksFit'
<1> SUFFICES ASSUME NEW d, RollbackTo(d)'
             PROVE  d <= stored'.level
  BY DEF RollbacksFit
<1>1. stored.level \in Nat /\ stored'.level \in Nat
  BY LevelTypes, LevelTypesNext
<1>2. CASE RollbackTo(d)
  <2>1. d \in Nat /\ d <= stored.level
    BY <1>2, TargetTypes DEF RollbacksFit
  <2>2. RollingBack => d <= current.to
    BY <1>2 DEF RollingFits
  <2> QED
    BY <1>1, <2>1, <2>2, StoredMoves
<1>4. ASSUME ReceiveReorg, Len(feed) >= 1, d = feed[1].level, d < stored.level
      PROVE  d <= stored'.level
  <2>1. stored' = stored /\ d \in Levels
    BY <1>4, FeedAt DEF ReceiveReorg
  <2> QED
    BY <1>1, <1>4, <2>1 DEF Levels
<1> QED
  BY <1>2, <1>4, QueueRollbacks

(* No step takes a rollback above one still to come.                        *)
LEMMA RollingFitsStep ==
  ASSUME Typed, Typed', LevelsFit, SyncRuns, UnbufferedFits, bufferSize = 0, Orderly, SyncBelow,
         Ordered, RollbacksFit, RollingFits, Next
  PROVE  RollingFits'
<1> SUFFICES ASSUME RollingBack'
             PROVE  /\ current'.to <= stored'.level
                    /\ \A d : ReorgTo(d)' \/ RollbackTo(d)' => d <= current'.to
  BY DEF RollingFits
<1> USE LevelTypes, LevelTypesNext
<1>1. CASE StartRollback
  <2>1. /\ 1 \in 1 .. Len(queue) /\ queue # <<>> /\ queue' = Tail(queue)
        /\ current' = queue[1] /\ queue[1].kind = "rollback" /\ stored' = stored
        /\ feed' = feed
    BY <1>1, StartsRollback DEF datasource
  <2>2. current'.to <= stored'.level
    <3>1. RollbackTo(queue[1].to)
      BY <2>1 DEF RollbackTo
    <3> QED
      BY <2>1, <3>1 DEF RollbacksFit
  <2>3. ASSUME NEW d, ReorgTo(d)' PROVE d <= current'.to
    <3>1. ReorgTo(d)
      BY <2>1, <2>3 DEF ReorgTo
    <3> QED
      BY <2>1, <3>1, FurtherDown
  <2>4. ASSUME NEW d, RollbackTo(d)' PROVE d <= current'.to
    <3>1. PICK n \in 1 .. Len(queue') : queue'[n].kind = "rollback" /\ d = queue'[n].to
      BY <2>4 DEF RollbackTo
    <3>2. queue'[n] = queue[n + 1] /\ n + 1 \in 1 + 1 .. Len(queue)
      BY <2>1, QueueTaken, QueueAt
    <3> QED
      BY <2>1, <3>1, <3>2, FurtherDown
  <2> QED
    BY <2>2, <2>3, <2>4
<1>2. CASE ~StartRollback
  <2>1. RollingBack /\ current' = current
    BY <1>2, RollingFrame
  <2>2. current.to <= stored.level /\ \A d : ReorgTo(d) \/ RollbackTo(d) => d <= current.to
    BY <2>1 DEF RollingFits
  <2>3. current'.to <= stored'.level
    BY <2>1, <2>2, StoredMoves
  <2>4. ASSUME NEW d, ReorgTo(d)' PROVE d <= current.to
    <3>1. ASSUME NEW to \in Levels, Reorg(to) PROVE to <= current.to
      <4>1. current.to \in Destinations
        BY <2>1, DestinationsIn
      <4> QED
        BY <3>1, <4>1, ReorgGuards
    <3> QED
      BY <2>2, <2>4, <3>1, FeedReorgs
  <2>5. ASSUME NEW d, RollbackTo(d)' PROVE d <= current.to
    <3>1. RollbackTo(d) \/ (feed[1].kind = "reorg" /\ Len(feed) >= 1 /\ d = feed[1].level)
      BY <2>5, QueueRollbacks
    <3>2. RollbackTo(d) \/ ReorgTo(d)
      BY SMTT(30), <3>1, FeedAt DEF ReorgTo
    <3> QED
      BY <2>2, <3>2
  <2> QED
    BY <2>1, <2>3, <2>4, <2>5
<1> QED
  BY <1>1, <1>2

(* A synchronization is alone: no rollback is on its way.                   *)
SyncAlone == pc = "sync" => Destinations = {} /\ target <= HeadLevel

(* What is synchronized is of the chain; queued blocks are worked off once it is.*)
SyncKnown ==
  /\ syncLevel <= HeadLevel
  /\ pc = "queue" /\ subscribed => syncLevel <= stored.level
  /\ pc = "sync" /\ syncLevel # NoLevel => target = syncLevel
  /\ channel = NoLevel /\ syncLevel # NoLevel => stored.level <= syncLevel

(* The index is at a level or below, or a rollback leads it there.          *)
Reaches(n, l) ==
  \/ stored.level <= l
  \/ RollingBack /\ current.to <= l
  \/ \E k \in 1 .. n : queue[k].kind = "rollback" /\ queue[k].to <= l

(* A rollback starts at the index or above it once its turn comes.          *)
Covered ==
  /\ ReorgIn(1, Len(feed)) => Reaches(Len(queue), ChannelLevel)
  /\ \A n \in 1 .. Len(queue) : queue[n].kind = "rollback" => Reaches(n - 1, queue[n].from)
  /\ pc = "rollback" => stored.level <= current.from

(* An index above the chain has a rollback coming.                          *)
StoredFits == stored.level <= HeadLevel \/ \E d \in Destinations : d <= HeadLevel

(* The phases of the dispatcher task.                                       *)
LEMMA PhaseFrame ==
  ASSUME Typed, LevelsFit, Next
  PROVE  /\ pc' = "sync" => Process \/ Refresh \/ (pc = "sync" /\ UNCHANGED target)
         /\ pc' = "queue" => Process \/ Refresh \/ SaveState \/ pc = "queue"
         /\ pc' = "rollback" => StartRollback \/ (pc = "rollback" /\ UNCHANGED current)
         /\ pc' = "move" => RevertRows \/ (pc = "move" /\ UNCHANGED current)
<1>1. (\E b \in Blocks : Extend(b)) \/ (\E to \in Levels : Reorg(to))
         => UNCHANGED <<pc, target, current>>
  BY DEF Extend, Reorg, fetcher
<1>2. Connect \/ ReceiveData \/ ReceiveReorg \/ Fetch => UNCHANGED <<pc, target, current>>
  BY DEF Connect, ReceiveData, ReceiveReorg, Fetch, fetcher
<1>3. Disconnect \/ Answer
         => UNCHANGED <<target, current>> /\ (pc' = pc \/ pc' \in {"hung", "loop"})
  BY DEF Disconnect, Answer, fetcher
<1>4. Crash \/ Spawn \/ Subscribe \/ Schedule \/ ExitSync \/ QueueEmpty
        => pc' \in {"loop", "subscribe", "process"}
  BY DEF Crash, Spawn, Subscribe, Schedule, ExitSync, QueueEmpty
<1>5. ProcessFetched => UNCHANGED <<target, current>> /\ (pc' = pc \/ pc' = "failed")
  BY DEF ProcessFetched, Index
<1>6. ProcessData => pc' = pc /\ pc = "queue"
  BY DEF ProcessData
<1>7. StartRollback => pc' = "rollback"
  BY DEF StartRollback
<1>8. RevertRows => pc' \in {"failed", "move"}
  BY DEF RevertRows
<1>9. MoveLevel \/ SaveState => pc' \in {"save", "queue"} /\ (pc' = "queue" => SaveState)
  BY DEF MoveLevel, SaveState
<1>10. Process \/ Refresh => pc' \in {"failed", "sync", "queue", "loop", "refresh"}
  BY Decides
<1> QED
  BY <1>1, <1>2, <1>3, <1>4, <1>5, <1>6, <1>7, <1>8, <1>9, <1>10
     DEF Next, Environment, Websocket, Dispatcher

(* The highest level of the chain.                                          *)
LEMMA HeadFrame ==
  ASSUME Typed, bufferSize = 0, Next
  PROVE  HeadLevel <= HeadLevel' \/ \E to \in Levels : Reorg(to) /\ HeadLevel' = to
<1>1. ASSUME NEW b \in Blocks, Extend(b) PROVE HeadLevel <= HeadLevel'
  BY <1>1, Extends, LevelTypes
<1>2. ASSUME NEW to \in Levels, Reorg(to) PROVE HeadLevel' = to
  BY <1>2, Reorganises
<1>3. UNCHANGED HeadLevel => HeadLevel <= HeadLevel'
  BY LevelTypes
<1> QED
  BY <1>1, <1>2, <1>3, ChainFrame

(* No step brings a rollback upon a synchronization.                        *)
LEMMA SyncAloneStep ==
  ASSUME Typed, Typed', LevelsFit, SyncRuns, UnbufferedFits, bufferSize = 0, Orderly,
         SyncBelow, SyncAlone, SyncKnown, Next
  PROVE  SyncAlone'
<1> SUFFICES ASSUME pc' = "sync"
             PROVE  Destinations' = {} /\ target' <= HeadLevel'
  BY DEF SyncAlone
<1> USE LevelTypes, LevelTypesNext
<1>1. CASE Process \/ Refresh
  <2>1. /\ stored.level < syncLevel /\ target' = syncLevel
        /\ UNCHANGED <<environment, datasource>>
    BY <1>1, Decides
  <2>2. Destinations = {}
    BY <2>1 DEF SyncBelow
  <2>3. ~ \E to \in Levels : Reorg(to)
    <3>1. UNCHANGED chain
      BY <2>1 DEF environment
    <3> QED
      BY <3>1, Reorganises DEF HeadLevel
  <2>4. HeadLevel' = HeadLevel
    BY <2>1 DEF environment, HeadLevel
  <2>5. \A d : d \notin Destinations'
    BY <2>2, <2>3, DestinationsNew
  <2> QED
    BY <2>1, <2>4, <2>5 DEF SyncKnown
<1>2. CASE pc = "sync" /\ UNCHANGED target
  <2>1. Destinations = {} /\ target <= HeadLevel
    BY <1>2 DEF SyncAlone
  <2>2. ~ \E to \in Levels : Reorg(to)
    BY <1>2, ReorgGuards
  <2>3. \A d : d \notin Destinations'
    BY <2>1, <2>2, DestinationsNew
  <2>4. HeadLevel <= HeadLevel'
    BY <2>2, HeadFrame
  <2> QED
    BY <1>2, <2>1, <2>3, <2>4
<1> QED
  BY <1>1, <1>2, PhaseFrame

(* No step synchronizes past the chain or works off the queue too early.    *)
LEMMA SyncKnownStep ==
  ASSUME Typed, Typed', LevelsFit, SyncRuns, UnbufferedFits, bufferSize = 0, Orderly,
         SyncBelow, SyncAlone, SyncKnown, ChannelSeen, NoneLost, StoredFits, Next
  PROVE  SyncKnown'
<1> USE LevelTypes, LevelTypesNext
<1>0. NoLevel = -1 /\ HeadLevel' \in Nat
  BY DEF NoLevel
<1>1. syncLevel' <= HeadLevel'
  <2>1. CASE syncLevel' = NoLevel
    BY <1>0, <2>1
  <2>2. CASE Crash \/ Answer
    BY <2>2 DEF Crash, Answer, HeadLevel, environment
  <2>3. CASE UNCHANGED syncLevel
    <3>1. ASSUME NEW to \in Levels, Reorg(to) PROVE syncLevel <= HeadLevel'
      BY <3>1, ReorgGuards, Reorganises
    <3> QED
      BY <2>3, <3>1, HeadFrame DEF SyncKnown
  <2> QED
    BY <2>1, <2>2, <2>3, SyncFrame DEF Disconnect
<1>2. ASSUME pc' = "queue", subscribed' PROVE syncLevel' <= stored'.level
  <2>1. CASE Process \/ Refresh
    <3>1. syncLevel <= stored.level /\ stored'.level = stored.level /\ syncLevel' = syncLevel
      BY <1>2, <2>1, Decides DEF datasource
    <3> QED
      BY <3>1
  <2>2. CASE SaveState
    <3>1. current.to \in Destinations /\ syncLevel' = syncLevel /\ ~MoveLevel
      BY <2>2, DestinationsIn DEF SaveState, RollingBack, datasource, MoveLevel
    <3>2. syncLevel <= stored.level
      BY <3>1 DEF SyncBelow
    <3> QED
      BY <3>1, <3>2, StoredMoves
  <2>3. CASE pc = "queue" /\ ~Process /\ ~Refresh /\ ~SaveState
    <3>1. ~Disconnect /\ ~Crash /\ ~Answer /\ ~MoveLevel
      BY <1>2, <2>3 DEF Disconnect, Crash, Answer, MoveLevel
    <3>2. syncLevel' = syncLevel
      BY <3>1, SyncFrame
    <3>3. subscribed
      <4>1. (\E b \in Blocks : Extend(b)) \/ (\E to \in Levels : Reorg(to)) => UNCHANGED subscribed
        BY DEF Extend, Reorg
      <4>2. ReceiveData \/ ReceiveReorg => UNCHANGED subscribed
        BY DEF ReceiveData, ReceiveReorg
      <4> QED
        BY <1>2, <3>1, <4>1, <4>2, WireFrame
    <3>4. syncLevel <= stored.level
      BY <2>3, <3>3 DEF SyncKnown
    <3> QED
      BY <3>1, <3>2, <3>4, StoredMoves
  <2> QED
    BY <1>2, <2>1, <2>2, <2>3, PhaseFrame
<1>3. ASSUME pc' = "sync", syncLevel' # NoLevel PROVE target' = syncLevel'
  <2>1. CASE Process \/ Refresh
    BY <1>3, <2>1, Decides DEF datasource
  <2>2. CASE pc = "sync" /\ UNCHANGED target
    <3>1. ~Disconnect /\ ~Crash /\ ~Answer
      BY <1>3, <2>2 DEF Disconnect, Crash, Answer
    <3> QED
      BY <1>3, <2>2, <3>1, SyncFrame DEF SyncKnown
  <2> QED
    BY <1>3, <2>1, <2>2, PhaseFrame
<1>4. ASSUME channel' = NoLevel, syncLevel' # NoLevel PROVE stored'.level <= syncLevel'
  <2>1. CASE Crash \/ Answer
    <3>1. Destinations = {}
      BY <2>1, LosesNone DEF Answer, Typed, SocketType, NoneLost
    <3>2. stored.level <= HeadLevel
      BY <3>1 DEF StoredFits
    <3>3. syncLevel' = HeadLevel /\ stored' = stored
      BY <2>1 DEF Crash, Answer
    <3> QED
      BY <3>2, <3>3
  <2>2. CASE ~Crash /\ ~Answer
    <3>1. syncLevel' = syncLevel
      BY <1>4, <2>2, SyncFrame DEF Disconnect
    <3>2. channel = NoLevel
      <4>1. ~ReceiveData /\ ~ReceiveReorg
        <5>1. ReceiveData \/ ReceiveReorg => channel' \in Levels
          BY ReceivesData, ReceivesReorg, FeedHead
        <5> QED
          BY <1>4, <5>1 DEF Levels, NoLevel
      <4>2. (\E b \in Blocks : Extend(b)) \/ (\E to \in Levels : Reorg(to)) => channel' = channel
        BY DEF Extend, Reorg
      <4>3. Disconnect => channel' = channel
        BY DEF Disconnect
      <4> QED
        BY <1>4, <2>2, <4>1, <4>2, <4>3, WireFrame
    <3>3. stored.level <= syncLevel
      BY <1>4, <3>1, <3>2 DEF SyncKnown
    <3>4. ~ProcessData /\ ~MoveLevel
      BY <3>2 DEF ChannelSeen, ProcessData, MoveLevel, RollingBack
    <3>5. ExitSync => stored'.level <= syncLevel
      BY <1>4, <3>1, Exits DEF SyncKnown
    <3>6. ProcessFetched => stored'.level <= syncLevel
      <4> SUFFICES ASSUME ProcessFetched PROVE stored'.level <= syncLevel
        OBVIOUS
      <4>1. target = syncLevel /\ position <= target + 1 /\ stored'.level < position
        BY <1>4, <3>1, Fetches DEF SyncKnown, SyncRuns
      <4> QED
        BY <4>1
    <3> QED
      BY <3>1, <3>3, <3>4, <3>5, <3>6, StoredFrame
  <2> QED
    BY <2>1, <2>2
<1> QED
  BY <1>1, <1>2, <1>3, <1>4 DEF SyncKnown

(* What becomes of a queued rollback and of an announced reorg.             *)
LEMMA QueueForward ==
  ASSUME Typed, UnbufferedFits, UnbufferedFits', bufferSize = 0, Next, NEW n \in 1 .. Len(queue)
  PROVE  \/ Crash
         \/ (Process \/ Refresh) /\ pc' = "sync"
         \/ (StartRollback \/ ProcessData) /\ n = 1
         \/ /\ StartRollback \/ ProcessData
            /\ n - 1 \in 1 .. Len(queue') /\ queue'[n - 1] = queue[n]
         \/ /\ ~StartRollback /\ ~ProcessData
            /\ n \in 1 .. Len(queue') /\ queue'[n] = queue[n]
<1> USE QueueAt
<1>1. CASE ProcessData \/ StartRollback
  <2>1. queue # <<>> /\ queue' = Tail(queue)
    BY <1>1 DEF ProcessData, StartRollback
  <2>2. Len(queue') = Len(queue) - 1 /\ \A k \in 2 .. Len(queue) : queue[k] = queue'[k - 1]
    BY <2>1, QueueTaken
  <2> QED
    BY <1>1, <2>2
<1>2. ASSUME ~ProcessData, ~StartRollback, NEW m \in Messages \cup Rollbacks,
             queue' = Append(queue, m)
      PROVE  n \in 1 .. Len(queue') /\ queue'[n] = queue[n]
  BY <1>2, QueueGiven
<1>3. ASSUME ReceiveData PROVE \E m \in Messages \cup Rollbacks : queue' = Append(queue, m)
  BY <1>3, ReceivesData, FeedHead
<1>4. ASSUME ReceiveReorg, queue' # queue
      PROVE \E m \in Messages \cup Rollbacks : queue' = Append(queue, m)
  <2>1. PICK m : m = RollbackMsg(ChannelLevel, Head(feed).level)
    OBVIOUS
  <2>2. queue' = Append(queue, m) /\ m \in Rollbacks
    BY <1>4, <2>1, ReceivesReorg DEF RollbackMsg, Rollbacks
  <2> QED
    BY <2>2
<1>5. Process \/ Refresh => pc' = "sync" \/ queue' = queue
  BY DEF Process, Refresh, Decide
<1>6. SaveState => queue' = queue
  BY DEF SaveState
<1>7. queue' = queue => n \in 1 .. Len(queue') /\ queue'[n] = queue[n]
  OBVIOUS
<1> QED
  BY <1>1, <1>2, <1>3, <1>4, <1>5, <1>6, <1>7, QueueFrame

(* What becomes of an announced reorg.                                      *)
LEMMA ReorgForward ==
  ASSUME Typed, UnbufferedFits, bufferSize = 0, Next, NEW d, ReorgTo(d)
  PROVE  \/ Disconnect \/ Crash
         \/ ReceiveReorg /\ d = feed[1].level
         \/ ReorgTo(d)'
<1> USE FeedAt
<1>1. PICK n \in 1 .. Len(feed) : feed[n].kind = "reorg" /\ d = feed[n].level
  BY DEF ReorgTo
<1>2. ASSUME NEW m \in Messages, feed' = Append(feed, m)
      PROVE  ReorgTo(d)'
  <2>1. feed'[n] = feed[n] /\ n \in 1 .. Len(feed')
    BY <1>2, AppendAt
  <2> QED
    BY <1>1, <2>1 DEF ReorgTo
<1>3. ASSUME NEW b \in Blocks, Extend(b) PROVE ReorgTo(d)'
  <2>1. feed' = feed \/ \E m \in Messages : feed' = Append(feed, m)
    BY <1>3, Extends
  <2> QED
    BY <1>1, <1>2, <2>1 DEF ReorgTo
<1>4. ASSUME NEW to \in Levels, Reorg(to) PROVE ReorgTo(d)'
  <2>1. feed' = feed \/ \E m \in Messages : feed' = Append(feed, m)
    BY <1>4, Reorganises
  <2> QED
    BY <1>1, <1>2, <2>1 DEF ReorgTo
<1>5. ASSUME ReceiveData \/ ReceiveReorg
      PROVE  ReorgTo(d)' \/ (ReceiveReorg /\ d = feed[1].level)
  <2>1. feed # <<>> /\ feed' = Tail(feed) /\ channel' = Head(feed).level /\ Head(feed) = feed[1]
        /\ (ReceiveData => feed[1].kind = "data")
    BY <1>5, ReceivesData, ReceivesReorg
  <2>2. Len(feed') = Len(feed) - 1 /\ \A k \in 1 .. Len(feed') : feed'[k] = feed[k + 1]
    BY <2>1, FeedTaken
  <2>3. CASE n = 1
    BY <1>1, <1>5, <2>1, <2>3
  <2>4. CASE n # 1
    <3>1. n - 1 \in 1 .. Len(feed') /\ (n - 1) + 1 = n
      BY <2>2, <2>4
    <3>2. feed'[n - 1] = feed[n]
      BY <2>2, <3>1
    <3> QED
      BY <1>1, <3>1, <3>2 DEF ReorgTo
  <2> QED
    BY <2>3, <2>4
<1>6. Answer => feed' = feed
  BY DEF Answer
<1>7. feed' = feed => ReorgTo(d)'
  BY <1>1 DEF ReorgTo
<1> QED
  BY <1>3, <1>4, <1>5, <1>6, <1>7, WireFrame

(* What leads below the index keeps leading there until the index is there. *)
LEMMA DestKept ==
  ASSUME Typed, Typed', LevelsFit, SyncRuns, UnbufferedFits, UnbufferedFits', bufferSize = 0,
         Orderly,
         SyncBelow, RollbacksFit, RollingFits, Covered, NeverFails', Next, NEW d \in Destinations
  PROVE  stored'.level <= d \/ \E e \in Destinations' : e <= d
<1> USE LevelTypes, LevelTypesNext
<1>0. ~Disconnect /\ ~Crash /\ d \in Nat
  BY LosesNone, DestinationTypes
<1>1. \A e : ReorgTo(e)' \/ RollbackTo(e)' \/ (RollingBack' /\ e = current'.to)
         => e \in Destinations'
  BY DestinationsInNext
<1>b. RollingBack' => current'.to \in Destinations'
  <2>1. PICK e : e = current'.to
    OBVIOUS
  <2>2. RollingBack' /\ e = current'.to => e \in Destinations'
    BY <1>1
  <2> QED
    BY <2>1, <2>2
<1>c. ASSUME NEW k \in 1 .. Len(queue'), queue'[k].kind = "rollback"
      PROVE  queue'[k].to \in Destinations'
  <2>1. PICK e : e = queue'[k].to
    OBVIOUS
  <2>2. RollbackTo(e)'
    BY <1>c, <2>1 DEF RollbackTo
  <2>3. e \in Destinations'
    BY <1>1, <2>2
  <2> QED
    BY <2>1, <2>3
<1>a. ~((Process \/ Refresh) /\ pc' = "sync")
  BY Decides DEF SyncBelow
<1>2. ASSUME RollbackTo(d)
      PROVE  \E e \in Destinations' : e <= d
  <2>1. PICK n \in 1 .. Len(queue) : queue[n].kind = "rollback" /\ d = queue[n].to
    BY <1>2 DEF RollbackTo
  <2>2. CASE StartRollback /\ n = 1
    <3>1. RollingBack' /\ d = current'.to
      BY <2>1, <2>2, StartsRollback DEF RollingBack
    <3> QED
      BY <1>0, <1>b, <3>1
  <2>3. ~(ProcessData /\ n = 1)
    BY <2>1, Works
  <2>4. CASE n - 1 \in 1 .. Len(queue') /\ queue'[n - 1] = queue[n]
    <3>1. RollbackTo(d)'
      BY <2>1, <2>4 DEF RollbackTo
    <3> QED
      BY <1>0, <1>1, <3>1
  <2>5. CASE n \in 1 .. Len(queue') /\ queue'[n] = queue[n]
    <3>1. RollbackTo(d)'
      BY <2>1, <2>5 DEF RollbackTo
    <3> QED
      BY <1>0, <1>1, <3>1
  <2> QED
    BY <1>0, <1>a, <2>2, <2>3, <2>4, <2>5, QueueForward
<1>3. ASSUME RollingBack, d = current.to
      PROVE  stored'.level <= d \/ \E e \in Destinations' : e <= d
  <2>1. CASE RollingBack' /\ current' = current
    BY <1>0, <1>b, <1>3, <2>1
  <2>2. CASE SaveState
    <3>1. stored.level = current.to /\ ~ProcessFetched /\ ~ExitSync /\ ~ProcessData /\ ~MoveLevel
      BY <2>2 DEF SaveState, LevelsFit, ProcessFetched, ExitSync, ProcessData, MoveLevel
    <3> QED
      BY <1>3, <3>1, StoredFrame
  <2> QED
    BY <1>0, <1>3, <2>1, <2>2, RollingFrame DEF NeverFails
<1>4. ASSUME ReorgTo(d)
      PROVE  stored'.level <= d \/ \E e \in Destinations' : e <= d
  <2>1. CASE ReorgTo(d)'
    BY <1>0, <1>1, <2>1
  <2>2. CASE ReceiveReorg /\ d = feed[1].level
    <3>1. /\ Head(feed) = feed[1] /\ ChannelLevel \in Levels /\ stored' = stored
          /\ Head(feed).kind = "reorg" /\ feed # <<>> /\ pc' = pc /\ current' = current
          /\ IF ChannelLevel <= Head(feed).level THEN UNCHANGED <<state, queue>>
             ELSE /\ state' = stored
                  /\ queue' = IF Head(feed).level < stored.level
                             THEN Append(queue, RollbackMsg(ChannelLevel, Head(feed).level))
                             ELSE queue
      BY <2>2, ReceivesReorg DEF ReceiveReorg
    <3>2. ChannelLevel \in Nat
      BY <3>1 DEF Levels
    <3>3. CASE ChannelLevel <= d
      <4>1. Reaches(Len(queue), ChannelLevel)
        <5>1. ReorgIn(1, Len(feed))
          BY <1>4 DEF ReorgTo, ReorgIn
        <5> QED
          BY <5>1 DEF Covered
      <4>2. CASE stored.level <= ChannelLevel
        BY <1>0, <3>1, <3>2, <3>3, <4>2
      <4>3. CASE RollingBack /\ current.to <= ChannelLevel
        <5>1. RollingBack' /\ current' = current
          BY <3>1, <4>3 DEF RollingBack
        <5> QED
          BY <1>0, <1>b, <3>2, <3>3, <4>3, <5>1
      <4>4. ASSUME NEW k \in 1 .. Len(queue), queue[k].kind = "rollback",
                   queue[k].to <= ChannelLevel
            PROVE  \E e \in Destinations' : e <= d
        <5>1. queue[k].to \in Nat
          BY <4>4, QueueAt DEF Levels
        <5>2. queue' = queue
          BY <2>2, <3>1, <3>3
        <5>3. queue[k].to \in Destinations'
          BY <1>c, <4>4, <5>2
        <5>4. queue[k].to <= d
          BY <1>0, <3>2, <3>3, <4>4, <5>1
        <5> QED
          BY <5>3, <5>4
      <4> QED
        BY <4>1, <4>2, <4>3, <4>4 DEF Reaches
    <3>4. CASE ~(ChannelLevel <= d)
      <4>1. CASE ~(d < stored.level)
        BY <1>0, <3>1, <4>1
      <4>2. CASE d < stored.level
        <5>1. PICK m : m = RollbackMsg(ChannelLevel, Head(feed).level)
          OBVIOUS
        <5>2. queue' = Append(queue, m) /\ m \in Rollbacks /\ m.kind = "rollback" /\ m.to = d
          BY <2>2, <3>1, <3>4, <4>2, <5>1, ReceivesReorg DEF RollbackMsg, Rollbacks
        <5>3. queue'[Len(queue) + 1] = m /\ Len(queue) + 1 \in 1 .. Len(queue')
          BY <5>2, QueueGiven, QueueAt
        <5>4. RollbackTo(d)'
          BY <5>2, <5>3 DEF RollbackTo
        <5> QED
          BY <1>0, <1>1, <5>4
      <4> QED
        BY <4>1, <4>2
    <3> QED
      BY <3>3, <3>4
  <2> QED
    BY <1>0, <1>4, <2>1, <2>2, ReorgForward
<1> QED
  BY <1>2, <1>3, <1>4, DestinationsIn

(* No step leaves an index above the chain with nothing to bring it back.   *)
LEMMA StoredFitsStep ==
  ASSUME Typed, Typed', LevelsFit, SyncRuns, UnbufferedFits, UnbufferedFits', bufferSize = 0,
         Orderly,
         PendingTrue, FetchedTrue, SyncBelow, SyncAlone, RollbacksFit, RollingFits, Covered,
         StoredFits, NeverFails', Next
  PROVE  StoredFits'
<1> USE LevelTypes, LevelTypesNext
<1>1. ASSUME NEW to \in Levels, Reorg(to) PROVE StoredFits'
  <2>1. to \in Destinations'
    <3>1. PICK m : m = ReorgMsg(to)
      OBVIOUS
    <3>2. feed' = Append(feed, m) /\ m \in Messages /\ m.kind = "reorg" /\ m.level = to
      BY <1>1, <3>1, Reorganises, ReorgGuards
    <3>3. feed'[Len(feed) + 1] = m /\ Len(feed) + 1 \in 1 .. Len(feed')
      BY <3>2, AppendAt, FeedAt
    <3>4. ReorgTo(to)'
      BY <3>2, <3>3 DEF ReorgTo
    <3> QED
      BY <3>4, DestinationsInNext
  <2>2. HeadLevel' = to /\ to \in Nat
    BY <1>1, Reorganises DEF Levels
  <2> QED
    BY <2>1, <2>2 DEF StoredFits
<1>2. CASE ~ \E to \in Levels : Reorg(to)
  <2>1. HeadLevel <= HeadLevel'
    BY <1>2, HeadFrame
  <2>2. ASSUME NEW d \in Destinations, d <= HeadLevel PROVE StoredFits'
    <3>1. d \in Nat
      BY DestinationTypes
    <3>2. CASE stored'.level <= d
      BY <2>1, <2>2, <3>1, <3>2 DEF StoredFits
    <3>3. ASSUME NEW e \in Destinations', e <= d PROVE StoredFits'
      <4>1. e \in Nat
        BY <1>2, DestinationsNew, DestinationTypes
      <4> QED
        BY <2>1, <2>2, <3>1, <3>3, <4>1 DEF StoredFits
    <3> QED
      BY <3>2, <3>3, DestKept
  <2>3. ASSUME stored.level <= HeadLevel PROVE stored'.level <= HeadLevel'
    <3>1. ProcessFetched => stored'.level <= HeadLevel
      <4> SUFFICES ASSUME ProcessFetched PROVE stored'.level <= HeadLevel
        OBVIOUS
      <4>1. stored'.level = fetched[1].level /\ 1 \in 1 .. Len(fetched)
        <5>1. stored'.level = fetched[1].level /\ Len(fetched) = 1
          BY Fetches
        <5> QED
          BY <5>1
      <4>2. IsTrue(fetched[1])
        BY <4>1 DEF FetchedTrue
      <4> QED
        BY <4>1, <4>2, TrueType
    <3>2. ExitSync => stored'.level <= HeadLevel
      BY Exits DEF SyncAlone
    <3>3. ProcessData => stored'.level <= HeadLevel
      <4> SUFFICES ASSUME ProcessData PROVE stored'.level <= HeadLevel
        OBVIOUS
      <4>1. /\ stored'.level = queue[1].level \/ stored' = stored
            /\ 1 \in 1 .. Len(queue) /\ queue[1].kind = "data"
        BY Works, QueueAt DEF Levels
      <4>2. IsTrue(queue[1])
        <5>1. 1 \in Items /\ Pending[1] = queue[1]
          BY <4>1, PendingAt
        <5> QED
          BY <4>1, <5>1 DEF PendingTrue, DataAt
      <4> QED
        BY <2>3, <4>1, <4>2, TrueType
    <3>4. MoveLevel => stored'.level <= HeadLevel
      BY <2>3, Moves DEF RollingFits
    <3> QED
      BY <2>1, <2>3, <3>1, <3>2, <3>3, <3>4, StoredFrame
  <2> QED
    BY <2>2, <2>3 DEF StoredFits
<1> QED
  BY <1>1, <1>2

(* What leads down to a level keeps leading down to it.                     *)
LEMMA ReachesKept ==
  ASSUME Typed, Typed', LevelsFit, SyncRuns, UnbufferedFits, UnbufferedFits', bufferSize = 0,
         Orderly,
         SyncBelow, RollingFits, Next, ~Crash, pc # "sync", NeverFails',
         ~((Process \/ Refresh) /\ pc' = "sync"),
         NEW n \in 0 .. Len(queue), NEW m \in Nat, NEW l \in Int, NEW k \in Int, Reaches(n, k),
         k <= l,
         IF StartRollback \/ ProcessData THEN m >= n - 1 ELSE m >= n,
         ProcessData => queue[1].level <= l \/ queue[1].level <= stored.level
  PROVE  Reaches(m, l)'
<1> USE LevelTypes, LevelTypesNext
<1>1. CASE stored.level <= k
  <2>1. CASE MoveLevel
    <3>1. RollingBack' /\ current'.to = current.to /\ current.to <= stored.level
      BY <2>1, Moves DEF RollingFits
    <3>2. current'.to <= l
      BY SMTT(30), <1>1, <3>1
    <3> QED
      BY <3>1, <3>2 DEF Reaches
  <2>2. CASE ProcessData
    <3>2. queue[1].level \in Nat
      BY <2>2, Works DEF Levels
    <3>6. stored.level \in Nat
      OBVIOUS
    <3>4. queue[1].level <= stored.level => stored' = stored
      BY <2>2, Works
    <3>5. queue[1].level > stored.level => stored'.level = queue[1].level
      BY <2>2, Works
    <3>1. stored'.level = queue[1].level \/ stored'.level = stored.level
      BY ONLY <3>2, <3>4, <3>5, <3>6
    <3>7. queue[1].level <= l \/ queue[1].level <= stored.level
      BY <2>2
    <3>3. stored'.level <= l
      BY ONLY <1>1, <3>1, <3>2, <3>4, <3>5, <3>6, <3>7, k <= l, k \in Int, l \in Int
    <3> QED
      BY <3>3 DEF Reaches
  <2>3. CASE stored'.level = stored.level
    <3>1. stored'.level <= l
      BY <1>1, <2>3
    <3> QED
      BY <3>1 DEF Reaches
  <2> QED
    BY <2>1, <2>2, <2>3, StoredFrame, Fetches, Exits
<1>2. CASE RollingBack /\ current.to <= k
  <2>1. CASE RollingBack' /\ current' = current
    <3>1. current'.to <= l
      BY <1>2, <2>1
    <3> QED
      BY <2>1, <3>1 DEF Reaches
  <2>2. CASE SaveState
    <3>1. stored.level = current.to /\ ~ProcessFetched /\ ~ExitSync /\ ~ProcessData /\ ~MoveLevel
      BY <2>2 DEF SaveState, LevelsFit, ProcessFetched, ExitSync, ProcessData, MoveLevel
    <3>2. stored'.level <= l
      BY <1>2, <3>1, StoredFrame
    <3> QED
      BY <3>2 DEF Reaches
  <2> QED
    BY <1>2, <2>1, <2>2, RollingFrame DEF NeverFails
<1>3. ASSUME NEW i \in 1 .. n, queue[i].kind = "rollback", queue[i].to <= k
      PROVE  Reaches(m, l)'
  <2>0. i \in 1 .. Len(queue) /\ queue[i].to \in Nat
    <3>1. i \in 1 .. Len(queue)
      BY QueueAt
    <3>2. queue[i].to \in Levels
      BY <1>3, <3>1, QueueAt
    <3> QED
      BY <3>1, <3>2 DEF Levels
  <2>1. CASE StartRollback /\ i = 1
    <3>1. RollingBack' /\ current'.to = queue[i].to
      BY <2>1, StartsRollback DEF RollingBack
    <3>2. current'.to <= l
      BY <1>3, <2>0, <3>1, SMTT(20)
    <3> QED
      BY <3>1, <3>2 DEF Reaches
  <2>2. ~(ProcessData /\ i = 1)
    BY <1>3, Works
  <2>3. CASE (StartRollback \/ ProcessData) /\ i - 1 \in 1 .. Len(queue')
           /\ queue'[i - 1] = queue[i]
    <3>2. m >= n - 1 /\ n \in Nat
      BY <2>3, QueueAt
    <3>3. i - 1 \in 1 .. m
      BY <2>0, <2>3, <3>2, SMTT(20)
    <3>4. queue'[i - 1].kind = "rollback" /\ queue'[i - 1].to <= l
      BY SMTT(30), <1>3, <2>0, <2>3
    <3>1. i - 1 \in 1 .. m /\ queue'[i - 1].kind = "rollback" /\ queue'[i - 1].to <= l
      BY <3>3, <3>4
    <3> QED
      BY <3>1 DEF Reaches
  <2>4. CASE ~StartRollback /\ ~ProcessData /\ i \in 1 .. Len(queue') /\ queue'[i] = queue[i]
    <3>1. m >= n /\ n \in Nat
      BY <2>4, QueueAt
    <3>2. i \in 1 .. m
      BY ONLY <3>1, m \in Nat, i \in 1 .. n
    <3>3. i \in 1 .. m /\ queue'[i].kind = "rollback" /\ queue'[i].to <= l
      BY SMTT(30), <1>3, <2>0, <2>4, <3>2
    <3>4. \E j \in 1 .. m : queue'[j].kind = "rollback" /\ queue'[j].to <= l
      BY ONLY <3>3
    <3> QED
      BY ONLY <3>4 DEF Reaches
  <2> QED
    BY <2>0, <2>1, <2>2, <2>3, <2>4, QueueForward
<1> QED
  BY <1>1, <1>2, <1>3 DEF Reaches

(* A reorg is announced to an index that is not above the channel.          *)
LEMMA ReorgCovered ==
  ASSUME Typed, UnbufferedFits, bufferSize = 0, Orderly, SyncKnown, NEW to \in Levels, Reorg(to)
  PROVE  stored.level <= ChannelLevel
<1> USE LevelTypes
<1>1. subscribed /\ (channel = NoLevel \/ channel >= stored.level)
  BY ReorgGuards
<1>2. syncLevel # NoLevel
  BY <1>1 DEF Typed, SocketType
<1> QED
  BY <1>1, <1>2 DEF ChannelLevel, SyncKnown

(* No step leaves a rollback that would start below the index.              *)
LEMMA CoveredStep ==
  ASSUME Typed, Typed', LevelsFit, SyncRuns, UnbufferedFits, UnbufferedFits', bufferSize = 0,
         Orderly,
         Ordered, Ascending, BelowChannel, NoneLost, RollbacksDown, SyncBelow, SyncAlone, SyncKnown,
         RollingFits, Covered, NeverFails', Next
  PROVE  Covered'
<1> USE LevelTypes, LevelTypesNext
<1>q. Len(queue) \in Nat /\ Len(queue') \in Nat
  <2>1. Typed => Len(queue) \in Nat
    BY QueueAt
  <2> QED
    BY <2>1 DEF Typed, MessagesType
<1>f. Len(feed) \in Nat /\ Len(feed') \in Nat
  <2>1. Typed => Len(feed) \in Nat
    BY FeedAt
  <2> QED
    BY <2>1 DEF Typed, MessagesType
<1>1. pc' = "rollback" => stored'.level <= current'.from
  <2> SUFFICES ASSUME pc' = "rollback" PROVE stored'.level <= current'.from
    OBVIOUS
  <2>1. CASE StartRollback
    <3>1. /\ 1 \in 1 .. Len(queue) /\ queue[1].kind = "rollback" /\ ~RollingBack
          /\ current' = queue[1] /\ stored' = stored
      BY <2>1, StartsRollback DEF RollingBack
    <3>2. Reaches(1 - 1, queue[1].from)
      BY <3>1 DEF Covered
    <3>3. ~ \E k \in 1 .. 1 - 1 : TRUE
      OBVIOUS
    <3> QED
      BY <3>1, <3>2, <3>3 DEF Reaches
  <2>2. CASE pc = "rollback" /\ UNCHANGED current
    <3>1. ~ProcessFetched /\ ~ExitSync /\ ~ProcessData /\ ~MoveLevel
      BY <2>2 DEF ProcessFetched, ExitSync, ProcessData, MoveLevel
    <3>2. stored'.level = stored.level
      BY <3>1, StoredFrame
    <3> QED
      BY <2>2, <3>2 DEF Covered
  <2> QED
    BY <2>1, <2>2, PhaseFrame
<1>2. CASE Crash
  <2>1. queue' = <<>> /\ feed' = <<>>
    BY <1>2 DEF Crash
  <2> QED
    BY <1>1, <2>1 DEF Covered, ReorgIn
<1>3. CASE (Process \/ Refresh) /\ pc' = "sync"
  <2>1. queue' = <<>> /\ stored.level < syncLevel /\ feed' = feed
    BY <1>3, Decides DEF datasource
  <2>2. Destinations = {}
    BY <2>1 DEF SyncBelow
  <2>3. ~ReorgIn(1, Len(feed))'
    BY <2>1, <2>2, DestinationsIn DEF ReorgIn, ReorgTo
  <2> QED
    BY <1>1, <2>1, <2>3 DEF Covered
<1>4. CASE pc = "sync" /\ ~Crash
  <2>1. Destinations = {} /\ ~ \E to \in Levels : Reorg(to)
    BY <1>4, ReorgGuards DEF SyncAlone
  <2>2. \A d : d \notin Destinations'
    BY <2>1, DestinationsNew
  <2>3. ~ReorgIn(1, Len(feed))'
    BY <2>2, DestinationsInNext DEF ReorgIn, ReorgTo
  <2>4. \A n \in 1 .. Len(queue') : queue'[n].kind # "rollback"
    BY <2>2, DestinationsInNext DEF RollbackTo
  <2> QED
    BY <1>1, <2>3, <2>4 DEF Covered
<1>5. CASE ~Crash /\ pc # "sync" /\ ~((Process \/ Refresh) /\ pc' = "sync")
  <2>1. ASSUME NEW n \in 1 .. Len(queue'), queue'[n].kind = "rollback"
        PROVE  Reaches(n - 1, queue[n].from)'
    <3>1. CASE StartRollback \/ ProcessData
      <4>1. queue'[n] = queue[n + 1] /\ n + 1 \in 1 .. Len(queue)
        <5>1. queue # <<>> /\ queue' = Tail(queue)
          BY <3>1 DEF ProcessData, StartRollback
        <5> QED
          BY <5>1, QueueTaken, QueueAt
      <4>2. queue[n + 1].kind = "rollback"
        BY <2>1, <4>1
      <4>3. PICK l : l = queue[n + 1].from
        OBVIOUS
      <4>4. l \in Levels /\ queue[n + 1].to \in Levels /\ queue[n + 1].to < l
        BY <4>1, <4>2, <4>3, QueueAt DEF RollbacksDown
      <4>5. Reaches((n + 1) - 1, l)
        BY <4>1, <4>2, <4>3 DEF Covered
      <4>6. Reaches(n, l) /\ n \in 0 .. Len(queue) /\ n - 1 \in Nat /\ l \in Int
            /\ queue[n + 1].to \in Int
        BY SMTT(30), <4>1, <4>4, <4>5, <1>q DEF Levels
      <4>7. ProcessData => queue[1].level <= l
        <5> SUFFICES ASSUME ProcessData PROVE queue[1].level <= l
          OBVIOUS
        <5>1. queue[1].kind = "data" /\ queue[1].level \in Nat /\ 1 \in 1 .. Len(queue)
          BY Works, <1>q DEF Levels
        <5>2. /\ 1 \in Items /\ Pending[1] = queue[1] /\ DataAt(1)
              /\ n + 1 \in Items /\ Pending[n + 1] = queue[n + 1] /\ ~DataAt(n + 1)
          BY <4>1, <4>2, <5>1, PendingAt DEF DataAt
        <5>3. n + 1 \in 1 + 1 .. Len(Pending)
          BY <5>2 DEF Items
        <5>4. Effect(Pending[1]) <= Effect(Pending[n + 1])
          BY <5>2, <5>3 DEF Ordered
        <5>5. queue[1].level <= queue[n + 1].to
          BY <4>2, <5>1, <5>2, <5>4 DEF Effect
        <5> QED
          BY SMTT(30), <4>4, <4>6, <5>1, <5>5
      <4>8. IF StartRollback \/ ProcessData THEN n - 1 >= n - 1 ELSE n - 1 >= n
        BY <3>1, <4>6
      <4>9. Reaches(n - 1, l)'
        BY SMTT(30), <1>5, <4>6, <4>7, <4>8, ReachesKept
      <4>10. l = queue'[n].from
        BY <4>1, <4>3
      <4> QED
        BY <4>9, <4>10 DEF Reaches
    <3>2. CASE ~StartRollback /\ ~ProcessData
      <4>0. \A i \in 1 .. Len(queue) : i \in 1 .. Len(queue') /\ queue'[i] = queue[i]
        BY <1>5, <3>2, QueueForward
      <4>1. CASE n \in 1 .. Len(queue)
        <5>1. queue[n].kind = "rollback" /\ queue'[n] = queue[n]
          BY <2>1, <4>0, <4>1
        <5>2. PICK l : l = queue[n].from
          OBVIOUS
        <5>3. l \in Levels /\ Reaches(n - 1, l)
          BY <4>1, <5>1, <5>2, QueueAt DEF Covered
        <5>4. n - 1 \in 0 .. Len(queue) /\ n - 1 \in Nat /\ l \in Int /\ n - 1 >= n - 1 /\ l <= l
          BY <4>1, <5>3, <1>q DEF Levels
        <5>6. IF StartRollback \/ ProcessData THEN n - 1 >= (n - 1) - 1 ELSE n - 1 >= n - 1
          BY <3>2, <5>4
        <5>7. Reaches(n - 1, l)'
          BY <1>5, <3>2, <5>3, <5>4, <5>6, ReachesKept
        <5> QED
          BY <5>1, <5>2, <5>7 DEF Reaches
      <4>2. CASE n \notin 1 .. Len(queue)
        <5>1. queue' # queue
          BY <4>2
        <5>2. CASE ReceiveData
          <6>1. queue' = Append(queue, Head(feed)) /\ Head(feed) \in Messages
                   /\ Head(feed).kind = "data"
            BY <5>2, ReceivesData, FeedHead
          <6>2. Len(queue') = Len(queue) + 1 /\ queue'[Len(queue) + 1] = Head(feed)
            BY <6>1, QueueGiven
          <6>3. n = Len(queue) + 1
            BY SMTT(30), <1>q, <4>2, <6>2
          <6>4. queue'[n].kind = "data"
            BY <6>1, <6>2, <6>3
          <6> QED
            BY <2>1, <6>4
        <5>3. CASE ReceiveReorg
          <6>1. PICK l : l = ChannelLevel
            OBVIOUS
          <6>2. PICK m : m = RollbackMsg(l, Head(feed).level)
            OBVIOUS
          <6>3. /\ queue' = Append(queue, m) /\ m \in Rollbacks /\ m.from = l /\ l \in Levels
                /\ feed # <<>> /\ Head(feed) = feed[1] /\ feed[1].kind = "reorg"
            BY <5>1, <5>3, <6>1, <6>2, ReceivesReorg DEF RollbackMsg, Rollbacks
          <6>4. n = Len(queue) + 1 /\ queue'[n] = m
            BY <4>2, <6>3, QueueGiven, <1>q
          <6>5. ReorgIn(1, Len(feed))
            BY <6>3, FeedAt DEF ReorgIn
          <6>6. Reaches(Len(queue), l)
            BY <6>1, <6>5 DEF Covered
          <6>7. l \in Int /\ l <= l /\ Len(queue) \in 0 .. Len(queue) /\ Len(queue) >= Len(queue)
            BY <6>3, <1>q DEF Levels
          <6>9. PICK q : q = Len(queue)
            OBVIOUS
          <6>10. Reaches(q, l)
            BY <6>6, <6>9
          <6>12. q \in 0 .. Len(queue) /\ q \in Nat
            BY <6>7, <6>9, <1>q
          <6>13. IF StartRollback \/ ProcessData THEN q >= q - 1 ELSE q >= q
            BY <6>12
          <6>14. Reaches(q, l)'
            BY <1>5, <3>2, <6>7, <6>10, <6>12, <6>13, ReachesKept
          <6>15. n - 1 = q /\ queue'[n].from = l
            BY <6>3, <6>4, <6>9, <6>12
          <6> QED
            BY <6>14, <6>15 DEF Reaches
        <5>4. ReceiveData \/ ReceiveReorg
          <6>1. (Crash => queue' = <<>>) /\ (SaveState => queue' = queue)
            BY DEF Crash, SaveState
          <6>2. Process \/ Refresh => queue' = queue
            BY <1>5 DEF Process, Refresh, Decide
          <6> QED
            BY <1>5, <3>2, <5>1, <6>1, <6>2, QueueFrame
        <5> QED
          BY <5>2, <5>3, <5>4
      <4> QED
        BY <4>1, <4>2
    <3> QED
      BY <3>1, <3>2
  <2>2. ASSUME ReorgIn(1, Len(feed))'
        PROVE  Reaches(Len(queue), ChannelLevel)'
    <3>1. PICK c : c = ChannelLevel'
      OBVIOUS
    <3>2. PICK p : p = Len(queue')
      OBVIOUS
    <3>3. PICK k : k = ChannelLevel
      OBVIOUS
    <3>4. PICK q : q = Len(queue)
      OBVIOUS
    <3>5. /\ p \in Nat /\ q \in Nat /\ q \in 0 .. Len(queue) /\ k \in Int /\ c \in Int
      <4>1. channel \in Int /\ syncLevel \in Int /\ channel' \in Int /\ syncLevel' \in Int
        BY LifecycleAssumption DEF Typed, SocketType, Levels, NoLevel
      <4> QED
        BY <1>q, <3>1, <3>2, <3>3, <3>4, <4>1 DEF ChannelLevel
    <3>6. SUFFICES Reaches(p, c)'
      BY <3>1, <3>2 DEF Reaches
    <3>7. CASE stored'.level <= c
      BY <3>7 DEF Reaches
    <3>8. ASSUME NEW to \in Levels, Reorg(to) PROVE stored'.level <= c
      <4>1. UNCHANGED <<stored, channel, syncLevel>>
        BY <3>8 DEF Reorg
      <4> QED
        BY <3>1, <3>8, <4>1, ReorgCovered DEF ChannelLevel
    <3>9. CASE ~ \E to \in Levels : Reorg(to)
      <4>1. ReorgIn(1, Len(feed))
        <5>1. PICK i \in 1 .. Len(feed') : feed'[i].kind = "reorg"
          BY <2>2 DEF ReorgIn
        <5>2. PICK d : d = feed'[i].level
          OBVIOUS
        <5>3. ReorgTo(d)'
          BY <5>1, <5>2 DEF ReorgTo
        <5>4. ReorgTo(d)
          BY <3>9, <5>3, FeedReorgs
        <5> QED
          BY <5>4 DEF ReorgTo, ReorgIn
      <4>2. Reaches(q, k)
        BY <3>3, <3>4, <4>1 DEF Covered
      <4>3. IF StartRollback \/ ProcessData THEN p >= q - 1 ELSE p >= q
        <5>1. CASE StartRollback \/ ProcessData
          <6>1. queue # <<>> /\ queue' = Tail(queue)
            BY <5>1 DEF ProcessData, StartRollback
          <6> QED
            BY <3>2, <3>4, <3>5, <5>1, <6>1, QueueTaken
        <5>2. CASE ~StartRollback /\ ~ProcessData /\ q # 0
          <6>1. q \in 1 .. Len(queue)
            BY <3>4, <3>5, <5>2
          <6>2. q \in 1 .. Len(queue')
            BY <1>5, <5>2, <6>1, QueueForward
          <6> QED
            BY <3>2, <3>5, <5>2, <6>2
        <5>3. CASE ~StartRollback /\ ~ProcessData /\ q = 0
          BY <3>5, <5>3
        <5> QED
          BY <5>1, <5>2, <5>3
      <4>4. ASSUME k <= c, ProcessData => queue[1].level <= c \/ queue[1].level <= stored.level
            PROVE  Reaches(p, c)'
        BY <1>5, <3>5, <4>2, <4>3, <4>4, ReachesKept
      <4>5. ASSUME ReceiveReorg PROVE Reaches(p, c)'
        <5>1. /\ c = feed[1].level /\ Head(feed) = feed[1] /\ stored' = stored /\ feed # <<>>
              /\ k \in Levels /\ c \in Levels
              /\ IF k <= c THEN UNCHANGED <<state, queue>>
                 ELSE queue' = IF c < stored.level THEN Append(queue, RollbackMsg(k, c)) ELSE queue
          <6>1. /\ feed # <<>> /\ feed' = Tail(feed) /\ channel' = Head(feed).level
                /\ Head(feed) = feed[1]
            BY <4>5, ReceivesReorg
          <6>2. c = feed[1].level
            BY <3>1, <6>1, FeedTaken
          <6>3. stored' = stored
            BY <4>5 DEF ReceiveReorg
          <6> QED
            BY <3>3, <4>5, <6>1, <6>2, <6>3, ReceivesReorg
        <5>2. CASE k <= c
          BY <4>4, <4>5, <5>2 DEF ReceiveReorg, ProcessData, fetcher
        <5>3. CASE stored.level <= c
          BY <3>7, <5>1, <5>3
        <5>4. CASE ~(k <= c) /\ ~(stored.level <= c)
          <6>1. PICK m : m = RollbackMsg(k, c)
            OBVIOUS
          <6>2. queue' = Append(queue, m) /\ m \in Rollbacks /\ m.kind = "rollback" /\ m.to = c
            BY SMTT(30), <3>5, <5>1, <5>4, <6>1 DEF RollbackMsg, Rollbacks
          <6>3. p = q + 1 /\ queue'[q + 1] = m
            BY <3>2, <3>4, <6>2, QueueGiven
          <6>4. q + 1 \in 1 .. p /\ c <= c
            BY <3>5, <6>3
          <6> QED
            BY <6>2, <6>3, <6>4 DEF Reaches
        <5> QED
          BY <5>2, <5>3, <5>4
      <4>6. ASSUME ReceiveData PROVE k <= c
        <5>1. /\ feed # <<>> /\ feed' = Tail(feed) /\ channel' = Head(feed).level
              /\ Head(feed) = feed[1] /\ feed[1].kind = "data"
          BY <4>6, ReceivesData
        <5>2. c = feed[1].level /\ 1 \in 1 .. Len(feed)
          BY <3>1, <5>1, FeedTaken
        <5>3. ChannelAfter(1 - 1) < feed[1].level
          BY <5>1, <5>2 DEF Ascending
        <5> QED
          BY SMTT(30), <3>3, <3>5, <5>2, <5>3 DEF ChannelAfter
      <4>7. ASSUME ~ReceiveData, ~ReceiveReorg PROVE c = k
        <5>1. ~Disconnect
          BY <2>2 DEF Disconnect, ReorgIn
        <5>2. ~Answer
          BY <4>1, FeedAt DEF Answer, Typed, SocketType, ReorgIn
        <5>3. (\E b \in Blocks : Extend(b)) => UNCHANGED <<channel, syncLevel>>
          BY DEF Extend
        <5>4. UNCHANGED <<channel, syncLevel>>
          BY <1>5, <3>9, <4>7, <5>1, <5>2, <5>3, WireFrame
        <5> QED
          BY <3>1, <3>3, <5>4 DEF ChannelLevel
      <4>8. ASSUME ProcessData, k = c PROVE queue[1].level <= c
        <5>1. queue[1].kind = "data" /\ 1 \in 1 .. Len(queue)
          BY <4>8, <1>q, Works
        <5> QED
          BY <3>3, <4>8, <5>1 DEF BelowChannel
      <4>9. ReceiveData => ~ProcessData
        <5>1. ReceiveData => feed' = Tail(feed) /\ feed # <<>>
          BY ReceivesData
        <5>2. ProcessData => feed' = feed
          BY DEF ProcessData, datasource
        <5>3. feed # <<>> => Tail(feed) # feed
          <6>1. feed # <<>> => Len(Tail(feed)) = Len(feed) - 1
            BY FeedAt, HeadTail
          <6> QED
            BY ONLY <6>1, <1>f
        <5> QED
          BY <5>1, <5>2, <5>3
      <4> QED
        BY <3>5, <4>4, <4>5, <4>6, <4>7, <4>8, <4>9
    <3> QED
      BY <3>7, <3>8, <3>9
  <2> QED
    BY <1>1, <2>1, <2>2 DEF Covered
<1> QED
  BY <1>2, <1>3, <1>4, <1>5

(* Above the index there are no rows.                                       *)
Cleared ==
  \A l \in Levels : l > stored.level \/ (pc = "move" /\ l > current.to) => applied[l] = 0

(* No step leaves rows above the index.                                     *)
LEMMA ClearedStep ==
  ASSUME Typed, Typed', LevelsFit, SyncRuns, UnbufferedFits, SyncBelow, Covered, Cleared, Next
  PROVE  Cleared'
<1> USE LevelTypes, LevelTypesNext
<1> SUFFICES ASSUME NEW l \in Levels, l > stored'.level \/ (pc' = "move" /\ l > current'.to)
             PROVE  applied'[l] = 0
  BY DEF Cleared
<1>0. l \in Nat /\ applied \in [Levels -> Blocks]
  BY DEF Levels, Typed, IndexType
<1>1. CASE RevertRows
  <2>1. /\ pc = "rollback" /\ stored' = stored /\ current' = current
        /\ \/ pc' = "failed" /\ UNCHANGED applied
           \/ applied' = [k \in Levels |-> IF Reverted(k) THEN 0 ELSE applied[k]]
    BY <1>1 DEF RevertRows
  <2>2. stored.level <= current.from
    BY <2>1 DEF Covered
  <2>3. CASE l > stored.level
    BY <1>0, <2>1, <2>3 DEF Cleared
  <2>4. CASE ~(l > stored.level) /\ pc' = "move" /\ l > current.to
    BY <1>0, <2>1, <2>2, <2>4, SMTT(20) DEF Reverted
  <2> QED
    BY <2>1, <2>3, <2>4
<1>2. CASE ProcessFetched
  <2>1. /\ stored'.level = fetched[1].level /\ stored.level < fetched[1].level
        /\ fetched[1].level \in Levels /\ pc' = "sync"
        /\ applied' = [applied EXCEPT ![fetched[1].level] = fetched[1].block]
    BY <1>2, Fetches
  <2>2. fetched[1].level \in Nat /\ l > fetched[1].level
    BY <2>1 DEF Levels
  <2>3. l > stored.level
    BY <1>0, <2>1, <2>2
  <2> QED
    BY <1>0, <2>1, <2>2, <2>3 DEF Cleared
<1>3. CASE ProcessData
  <2>1. queue[1].level \in Levels /\ pc' = "queue" /\ queue[1].level \in Nat
    BY <1>3, Works DEF Levels
  <2>2. CASE queue[1].level <= stored.level
    <3>1. UNCHANGED <<stored, applied>>
      BY <1>3, <2>2, Works
    <3> QED
      BY <2>1, <3>1 DEF Cleared
  <2>3. CASE queue[1].level > stored.level
    <3>1. /\ stored'.level = queue[1].level
          /\ applied' = [applied EXCEPT ![queue[1].level] = queue[1].block]
      BY <1>3, <2>3, Works
    <3>2. l > queue[1].level /\ l > stored.level
      BY <1>0, <2>1, <2>3, <3>1
    <3> QED
      BY <1>0, <2>1, <3>1, <3>2 DEF Cleared
  <2> QED
    BY <2>1, <2>2, <2>3
<1>4. CASE ~RevertRows /\ ~ProcessFetched /\ ~ProcessData
  <2>1. UNCHANGED applied
    BY <1>4, AppliedFrame
  <2>2. CASE MoveLevel
    <3>1. pc = "move" /\ pc' = "save" /\ stored'.level = current.to
      BY <2>2, Moves
    <3> QED
      BY <2>1, <3>1 DEF Cleared
  <2>3. CASE ~MoveLevel
    <3>1. stored.level <= stored'.level
      BY <2>3, StoredMoves
    <3>2. CASE l > stored'.level
      BY <1>0, <2>1, <3>1, <3>2 DEF Cleared
    <3>3. CASE pc' = "move" /\ l > current'.to
      <4>1. pc = "move" /\ UNCHANGED current
        BY <1>4, <3>3, PhaseFrame
      <4> QED
        BY <2>1, <3>3, <4>1 DEF Cleared
    <3> QED
      BY <3>2, <3>3
  <2> QED
    BY <2>2, <2>3
<1> QED
  BY <1>1, <1>2, <1>3, <1>4

(* No level is indexed over rows of another block.                          *)
LEMMA IndexedOnceStep ==
  ASSUME Typed, LevelsFit, SyncRuns, UnbufferedFits, Cleared, Next,
         NEW l \in Levels, applied[l] # 0
  PROVE  applied'[l] \in {0, applied[l]}
<1> USE LevelTypes
<1>0. l \in Nat /\ applied \in [Levels -> Blocks] /\ l <= stored.level
  BY DEF Levels, Typed, IndexType, Cleared
<1>1. CASE RevertRows
  <2>1. \/ UNCHANGED applied
        \/ applied' = [k \in Levels |-> IF Reverted(k) THEN 0 ELSE applied[k]]
    BY <1>1 DEF RevertRows
  <2> QED
    BY <2>1
<1>2. CASE ProcessFetched
  <2>1. /\ stored.level < fetched[1].level /\ fetched[1].level \in Levels
        /\ applied' = [applied EXCEPT ![fetched[1].level] = fetched[1].block]
    BY <1>2, Fetches
  <2>2. fetched[1].level # l
    BY <1>0, <2>1 DEF Levels
  <2> QED
    BY <1>0, <2>1, <2>2
<1>3. CASE ProcessData
  <2>1. queue[1].level \in Levels /\ queue[1].level \in Nat
    BY <1>3, Works DEF Levels
  <2>2. CASE queue[1].level <= stored.level
    BY <1>3, <2>2, Works
  <2>3. CASE queue[1].level > stored.level
    <3>1. applied' = [applied EXCEPT ![queue[1].level] = queue[1].block]
      BY <1>3, <2>3, Works
    <3>2. queue[1].level # l
      BY <1>0, <2>1, <2>3
    <3> QED
      BY <1>0, <3>1, <3>2
  <2> QED
    BY <2>1, <2>2, <2>3
<1> QED
  BY <1>1, <1>2, <1>3, AppliedFrame

(* What NeverIndexedTwice rests on.                                         *)
OrderlyInv ==
  /\ FailInv
  /\ Ordered /\ PendingTrue /\ FetchedTrue /\ Ascending /\ BelowChannel /\ ChannelSeen
  /\ NoneLost /\ RollbacksDown /\ RollbacksFit /\ RollingFits
  /\ SyncBelow /\ SyncAlone /\ SyncKnown
  /\ Covered /\ StoredFits /\ Cleared

(* It holds at first.                                                       *)
LEMMA OrderlyInvInit ==
  ASSUME Unbuffered
  PROVE  Init => OrderlyInv
<1> SUFFICES ASSUME Init PROVE OrderlyInv
  OBVIOUS
<1>1. FailInv
  BY FailInvInit
<1>2. /\ feed = <<>> /\ queue = <<>> /\ fetched = <<>> /\ channel = NoLevel /\ pc = "loop"
      /\ Len(feed) = 0 /\ Len(queue) = 0 /\ Len(fetched) = 0
      /\ syncLevel = HeadLevel /\ HeadLevel = 1 /\ stored.level = 0
      /\ applied = [l \in Levels |-> 0] /\ ~subscribed
  BY DEF Init, HeadLevel
<1>3. Typed /\ UnbufferedFits
  BY <1>1 DEF FailInv, LevelInv
<1>4. Pending = <<>> /\ Items = {}
  BY <1>2 DEF Pending, Items
<1>5. ~RollingBack /\ (\A d : ~ReorgTo(d) /\ ~RollbackTo(d))
  BY <1>2 DEF RollingBack, ReorgTo, RollbackTo
<1>6. Destinations = {}
  BY <1>3, <1>5, DestinationsIn
<1>7. Ordered /\ PendingTrue /\ FetchedTrue
  BY <1>2, <1>4 DEF Ordered, PendingTrue, FetchedTrue
<1>8. Ascending /\ BelowChannel /\ ChannelSeen
  BY <1>2, <1>5 DEF Ascending, BelowChannel, ChannelSeen
<1>9. NoneLost /\ RollbacksDown /\ RollbacksFit /\ RollingFits
  BY <1>2, <1>5, <1>6 DEF NoneLost, RollbacksDown, RollbacksFit, RollingFits
<1>10. SyncBelow /\ SyncAlone /\ SyncKnown
  BY <1>2, <1>6 DEF SyncBelow, SyncAlone, SyncKnown
<1>11. Covered /\ StoredFits /\ Cleared
  BY <1>2 DEF Covered, StoredFits, Cleared, ReorgIn
<1> QED
  BY <1>1, <1>7, <1>8, <1>9, <1>10, <1>11 DEF OrderlyInv

(* A step that changes nothing.                                             *)
LEMMA Stutter ==
  ASSUME UNCHANGED vars
  PROVE  /\ UNCHANGED <<chain, subscribed, feed, channel, syncLevel, queue, current, pc>>
         /\ UNCHANGED <<position, target, fetched, stored, applied>>
         /\ UNCHANGED <<Pending, Items, HeadLevel, ChannelLevel, Destinations, RollingBack>>
         /\ \A l : BlockAt(l)' = BlockAt(l)
         /\ \A n : DataAt(n)' = DataAt(n)
         /\ \A d : (ReorgTo(d)' <=> ReorgTo(d)) /\ (RollbackTo(d)' <=> RollbackTo(d))
         /\ \A n : ChannelAfter(n)' = ChannelAfter(n)
         /\ \A a, b : ReorgIn(a, b)' <=> ReorgIn(a, b)
         /\ \A n, l : Reaches(n, l)' <=> Reaches(n, l)
<1>1. /\ UNCHANGED <<chain, subscribed, feed, channel, syncLevel, queue, current, pc>>
      /\ UNCHANGED <<position, target, fetched, stored, applied>>
  BY DEF vars, environment, datasource, fetcher
<1>2. UNCHANGED <<Pending, Items, HeadLevel, ChannelLevel, Destinations, RollingBack>>
  BY <1>1 DEF Pending, Items, HeadLevel, ChannelLevel, Destinations, RollingBack, Elements
<1>3. /\ \A l : BlockAt(l)' = BlockAt(l)
      /\ \A n : DataAt(n)' = DataAt(n)
  BY <1>1, <1>2 DEF BlockAt, DataAt
<1>4. /\ \A d : (ReorgTo(d)' <=> ReorgTo(d)) /\ (RollbackTo(d)' <=> RollbackTo(d))
      /\ \A n : ChannelAfter(n)' = ChannelAfter(n)
      /\ \A a, b : ReorgIn(a, b)' <=> ReorgIn(a, b)
      /\ \A n, l : Reaches(n, l)' <=> Reaches(n, l)
  BY <1>1, <1>2 DEF ReorgTo, RollbackTo, ChannelAfter, ReorgIn, Reaches
<1> QED
  BY <1>1, <1>2, <1>3, <1>4

(* No step leaves it.                                                       *)
LEMMA OrderlyInvStep ==
  ASSUME Unbuffered, Orderly, OrderlyInv, [Next]_vars
  PROVE  OrderlyInv'
<1>0. FailInv /\ FailInv' /\ Typed /\ Typed' /\ bufferSize = 0 /\ NeverFails'
      /\ LevelsFit /\ SyncRuns /\ UnbufferedFits /\ UnbufferedFits' /\ HeadFits
  <2>1. Hazards \cap NeverFailing = {}
    BY DEF Orderly, NeverFailing
  <2>2. FailInv /\ FailInv'
    BY <2>1, FailInvStep DEF OrderlyInv
  <2> QED
    BY <2>2, BufferSizeIs DEF FailInv, LevelInv
<1>1. CASE Next
  <2>1. Ordered' /\ PendingTrue' /\ FetchedTrue'
    BY <1>0, <1>1, OrderedStep, PendingTrueStep, FetchedTrueStep DEF OrderlyInv
  <2>2. Ascending' /\ BelowChannel' /\ ChannelSeen' /\ NoneLost'
    BY <1>0, <1>1, AscendingStep, BelowChannelStep, ChannelSeenStep, NoneLostStep DEF OrderlyInv
  <2>3. RollbacksDown' /\ RollbacksFit' /\ RollingFits'
    BY <1>0, <1>1, RollbacksDownStep, RollbacksFitStep, RollingFitsStep DEF OrderlyInv
  <2>4. SyncBelow' /\ SyncAlone' /\ SyncKnown'
    BY <1>0, <1>1, SyncBelowStep, SyncAloneStep, SyncKnownStep DEF OrderlyInv
  <2>5. Covered' /\ StoredFits' /\ Cleared'
    BY <1>0, <1>1, CoveredStep, StoredFitsStep, ClearedStep DEF OrderlyInv
  <2> QED
    BY <1>0, <2>1, <2>2, <2>3, <2>4, <2>5 DEF OrderlyInv
<1>2. CASE UNCHANGED vars
  <2>1. Ordered' /\ PendingTrue' /\ FetchedTrue'
    BY <1>2, Stutter DEF OrderlyInv, Ordered, PendingTrue, FetchedTrue, IsTrue
  <2>2. Ascending' /\ BelowChannel' /\ ChannelSeen' /\ NoneLost'
    BY <1>2, Stutter DEF OrderlyInv, Ascending, BelowChannel, ChannelSeen, NoneLost
  <2>3. RollbacksDown' /\ RollbacksFit' /\ RollingFits'
    BY <1>2, Stutter DEF OrderlyInv, RollbacksDown, RollbacksFit, RollingFits
  <2>4. SyncBelow' /\ SyncAlone' /\ SyncKnown'
    BY <1>2, Stutter DEF OrderlyInv, SyncBelow, SyncAlone, SyncKnown
  <2>5. Covered' /\ StoredFits' /\ Cleared'
    BY <1>2, Stutter DEF OrderlyInv, Covered, StoredFits, Cleared
  <2> QED
    BY <1>0, <2>1, <2>2, <2>3, <2>4, <2>5 DEF OrderlyInv
<1> QED
  BY <1>1, <1>2

(* In orderly circumstances a level is never indexed over rows of another block*)
(* (index.py:110-113, 128-130): they are rolled back first, however many reorgs,*)
(* lost connections and crashes there are.                                  *)
THEOREM IndexedOnce ==
  ASSUME Unbuffered, Orderly
  PROVE  Spec => NeverIndexedTwice
<1>1. Init => OrderlyInv
  BY OrderlyInvInit
<1>2. OrderlyInv /\ [Next]_vars => OrderlyInv'
  BY OrderlyInvStep
<1>3. OrderlyInv /\ [Next]_vars =>
        [\A l \in Levels : applied[l] # 0 => applied'[l] \in {0, applied[l]}]_vars
  BY IndexedOnceStep DEF OrderlyInv, FailInv, LevelInv
<1> QED
  BY <1>1, <1>2, <1>3, PTL DEF Spec, NeverIndexedTwice

(* In orderly circumstances a rollback starts at the index or above it, and *)
(* leads down (tezos_tzkt.py:343-353, index.py:262-276): the call of        *)
(* ctx.rollback() that ModelVersioning relies on, HeadLag = 0.              *)
THEOREM RollbacksCoverIndex ==
  ASSUME Unbuffered, Orderly
  PROVE  Spec => []RollbackFromHead
<1>1. Init => OrderlyInv
  BY OrderlyInvInit
<1>2. OrderlyInv /\ [Next]_vars => OrderlyInv'
  BY OrderlyInvStep
<1>3. OrderlyInv => RollbackFromHead
  <2>1. OrderlyInv /\ pc = "rollback" => current.from \in Int /\ stored.level \in Int
    BY LevelTypes DEF OrderlyInv, FailInv, LevelInv
  <2> QED
    BY <2>1 DEF OrderlyInv, Covered, RollbacksDown, RollingBack, RollbackFromHead
<1> QED
  BY <1>1, <1>2, <1>3, PTL DEF Spec

(* A level that a rollback still on its way reverts; one whose block is queued or*)
(* sent; one that is to be fetched because nothing announces its block.     *)
Undone(l) == \E d \in Destinations : d < l
Awaited(l) == \E n \in Items : DataAt(n) /\ Pending[n].level = l
Missed(l) ==
  IF subscribed THEN l <= syncLevel
  ELSE \/ pc \in {"loop", "subscribe", "hung"}
       \/ pc = "sync" /\ l <= target
       \/ \A n \in 1 .. Len(queue) : queue[n].kind = "data" => queue[n].level < l

(* What is indexed and not about to be reverted is the chain.               *)
Indexed == \A l \in Levels : l <= stored.level /\ ~Undone(l) => applied[l] = BlockAt(l)

(* A block of the chain is on its way, indexed or missed.                   *)
Expected ==
  \A l \in Levels : BlockAt(l) # 0 =>
    Awaited(l) \/ (~Undone(l) /\ (l <= stored.level \/ Missed(l)))

(* Until the index reaches its sync level nothing queued is above that level.*)
Early ==
  subscribed /\ stored.level < syncLevel /\ pc # "sync" =>
     \A n \in 1 .. Len(queue) : queue[n].kind = "data" => queue[n].level <= syncLevel

(* A synchronization leaves out no level.                                   *)
AllFetched ==
  pc = "sync" => \A l \in Levels : stored.level < l /\ l < position /\ BlockAt(l) # 0 =>
     \E n \in 1 .. Len(fetched) : fetched[n].level = l

(* A level that stays is not taken from the rollback that reverts it.       *)
LEMMA UndoneKept ==
  ASSUME Typed, Typed', LevelsFit, SyncRuns, UnbufferedFits, UnbufferedFits', bufferSize = 0,
         Orderly,
         SyncBelow, RollbacksFit, RollingFits, Covered, NeverFails', Next,
         NEW l \in Levels, l <= stored'.level, ~Undone(l)'
  PROVE  ~Undone(l)
<1> USE LevelTypes, LevelTypesNext
<1> SUFFICES ASSUME NEW d \in Destinations, d < l
             PROVE  FALSE
  BY DEF Undone
<1>1. d \in Nat /\ l \in Nat
  BY DestinationTypes DEF Levels
<1>2. CASE stored'.level <= d
  BY <1>1, <1>2
<1>3. ASSUME NEW e \in Destinations', e <= d
      PROVE  FALSE
  <2>1. e \in Nat
    BY SMTT(30), DestinationsNew, DestinationTypes DEF Levels
  <2> QED
    BY <1>1, <1>3, <2>1 DEF Undone
<1> QED
  BY <1>2, <1>3, DestKept

(* Nothing but a reorg has a level reverted.                                *)
LEMMA UndoneNew ==
  ASSUME Typed, Typed', UnbufferedFits, bufferSize = 0, Next, NEW l \in Levels, ~Undone(l),
         \A to \in Levels : Reorg(to) => l <= to
  PROVE  ~Undone(l)'
<1> SUFFICES ASSUME NEW d \in Destinations', d < l
             PROVE  FALSE
  BY DEF Undone
<1>1. CASE d \in Destinations
  BY <1>1 DEF Undone
<1>2. ASSUME NEW to \in Levels, Reorg(to), d = to PROVE FALSE
  BY <1>2 DEF Levels
<1> QED
  BY <1>1, <1>2, DestinationsNew

(* An announced block of the chain is where the message says.               *)
LEMMA QueueTrue ==
  ASSUME Typed, UnbufferedFits, PendingTrue, NEW n \in 1 .. Len(queue), queue[n].kind = "data"
  PROVE  /\ n \in Items /\ Pending[n] = queue[n] /\ DataAt(n)
         /\ IsTrue(queue[n]) /\ queue[n].level \in Nat /\ queue[n].level \in Levels
         /\ queue[n].level <= HeadLevel
<1>1. n \in Items /\ Pending[n] = queue[n] /\ DataAt(n)
  BY PendingAt DEF DataAt
<1>2. IsTrue(queue[n])
  BY <1>1 DEF PendingTrue
<1> QED
  BY <1>1, <1>2, TrueType

(* No step indexes anything but the chain, or leaves out a level of it.     *)
LEMMA IndexedStep ==
  ASSUME Typed, Typed', LevelsFit, SyncRuns, UnbufferedFits, UnbufferedFits', bufferSize = 0,
         Orderly,
         Ordered, PendingTrue, FetchedTrue, SyncBelow, SyncKnown, RollbacksFit, RollingFits,
         Covered,
         StoredFits, Cleared, Indexed, Expected, AllFetched, NeverFails', Next
  PROVE  Indexed'
<1> USE LevelTypes, LevelTypesNext
<1> SUFFICES ASSUME NEW l \in Levels, l <= stored'.level, ~Undone(l)'
             PROVE  applied'[l] = BlockAt(l)'
  BY DEF Indexed
<1>0. l \in Nat /\ applied \in [Levels -> Blocks] /\ ~Undone(l)
  BY UndoneKept DEF Levels, Typed, IndexType
<1>1. ASSUME NEW b \in Blocks, Extend(b) PROVE applied'[l] = BlockAt(l)'
  <2>1. UNCHANGED <<applied, stored>> /\ BlockAt(l)' = IF l = HeadLevel + 1 THEN b ELSE BlockAt(l)
    BY <1>1, Extends DEF Extend
  <2>2. applied[l] = BlockAt(l)
    BY <1>0, <2>1 DEF Indexed
  <2>3. l # HeadLevel + 1
    <3>1. CASE stored.level <= HeadLevel
      BY <1>0, <2>1, <3>1
    <3>2. ASSUME NEW d \in Destinations, d <= HeadLevel PROVE l # HeadLevel + 1
      BY <1>0, <3>2, DestinationTypes DEF Undone
    <3> QED
      BY <3>1, <3>2 DEF StoredFits
  <2> QED
    BY <2>1, <2>2, <2>3
<1>2. ASSUME NEW to \in Levels, Reorg(to) PROVE applied'[l] = BlockAt(l)'
  <2>1. UNCHANGED <<applied, stored>> /\ BlockAt(l)' = IF l <= to THEN BlockAt(l) ELSE 0
    BY <1>2, Reorganises DEF Reorg
  <2>2. applied[l] = BlockAt(l)
    BY <1>0, <2>1 DEF Indexed
  <2>3. l <= to
    <3>1. PICK m : m = ReorgMsg(to)
      OBVIOUS
    <3>2. feed' = Append(feed, m) /\ m \in Messages /\ m.kind = "reorg" /\ m.level = to
      BY <1>2, <3>1, Reorganises, ReorgGuards
    <3>3. feed'[Len(feed) + 1] = m /\ Len(feed) + 1 \in 1 .. Len(feed')
      BY <3>2, AppendAt, FeedAt
    <3>4. ReorgTo(to)'
      BY <3>2, <3>3 DEF ReorgTo
    <3>5. to \in Destinations'
      BY <3>4, DestinationsInNext
    <3>6. ~(to < l)
      BY <3>5 DEF Undone
    <3> QED
      BY <1>0, <3>6 DEF Levels
  <2> QED
    BY <2>1, <2>2, <2>3
<1>3. CASE ~(\E b \in Blocks : Extend(b)) /\ ~(\E to \in Levels : Reorg(to))
  <2>1. BlockAt(l)' = BlockAt(l)
    BY <1>3, ChainFrame
  <2>2. CASE l <= stored.level
    <3>1. applied[l] = BlockAt(l)
      BY <1>0, <2>2 DEF Indexed
    <3>2. CASE RevertRows
      <4>1. /\ RollingBack /\ current.to \in Nat
            /\ \/ UNCHANGED applied
               \/ applied' = [k \in Levels |-> IF Reverted(k) THEN 0 ELSE applied[k]]
        BY <3>2 DEF RevertRows, RollingBack
      <4>2. current.to \in Destinations
        BY <4>1, DestinationsIn
      <4>3. ~(current.to < l)
        BY <1>0, <4>2 DEF Undone
      <4> QED
        BY <2>1, <3>1, <4>1, <4>3 DEF Reverted
    <3>3. CASE ProcessFetched
      <4>1. /\ stored.level < fetched[1].level /\ fetched[1].level \in Levels
            /\ applied' = [applied EXCEPT ![fetched[1].level] = fetched[1].block]
        BY <3>3, Fetches
      <4>2. fetched[1].level # l
        BY SMTT(30), <1>0, <2>2, <4>1 DEF Levels
      <4> QED
        BY <1>0, <2>1, <3>1, <4>1, <4>2
    <3>4. CASE ProcessData
      <4>1. queue[1].level \in Levels /\ queue[1].level \in Nat
        BY <3>4, Works DEF Levels
      <4>2. CASE queue[1].level <= stored.level
        BY <2>1, <3>1, <3>4, <4>2, Works
      <4>3. CASE queue[1].level > stored.level
        <5>1. applied' = [applied EXCEPT ![queue[1].level] = queue[1].block]
          BY <3>4, <4>3, Works
        <5>2. queue[1].level # l
          BY <1>0, <2>2, <4>1, <4>3
        <5> QED
          BY <1>0, <2>1, <3>1, <5>1, <5>2
      <4> QED
        BY <4>1, <4>2, <4>3
    <3> QED
      BY <2>1, <3>1, <3>2, <3>3, <3>4, AppliedFrame
  <2>3. CASE l > stored.level
    <3>1. applied[l] = 0
      BY <2>3 DEF Cleared
    <3>2. CASE ProcessFetched
      <4>1. /\ pc = "sync" /\ Len(fetched) = 1 /\ fetched[1].level \in Levels
            /\ fetched[1].level < position /\ stored'.level = fetched[1].level
            /\ applied' = [applied EXCEPT ![fetched[1].level] = fetched[1].block]
        BY <3>2, Fetches
      <4>2. IsTrue(fetched[1])
        BY <4>1 DEF FetchedTrue
      <4>3. CASE l = fetched[1].level
        BY <1>0, <2>1, <4>1, <4>2, <4>3 DEF IsTrue
      <4>4. CASE l # fetched[1].level
        <5>1. l < position
          BY <1>0, <4>1 DEF Levels
        <5>2. ~ \E n \in 1 .. Len(fetched) : fetched[n].level = l
          BY <4>1, <4>4
        <5>3. BlockAt(l) = 0
          BY <2>3, <4>1, <5>1, <5>2 DEF AllFetched
        <5> QED
          BY <1>0, <2>1, <3>1, <4>1, <4>4, <5>3
      <4> QED
        BY <4>3, <4>4
    <3>3. CASE ExitSync
      <4>1. pc = "sync" /\ fetched = <<>> /\ target < position /\ stored'.level = target
            /\ UNCHANGED applied
        BY <3>3, Exits
      <4>2. ~ \E n \in 1 .. Len(fetched) : fetched[n].level = l
        BY <4>1
      <4>3. BlockAt(l) = 0
        BY <1>0, <2>3, <4>1, <4>2 DEF AllFetched
      <4> QED
        BY <2>1, <3>1, <4>1, <4>3
    <3>4. CASE ProcessData
      <4>1. /\ pc = "queue" /\ queue[1].kind = "data" /\ 1 \in 1 .. Len(queue)
            /\ queue[1].level \in Levels /\ queue[1].level \in Nat
        BY <3>4, Works, QueueAt DEF Levels
      <4>2. queue[1].level > stored.level
        <5>1. queue[1].level <= stored.level => UNCHANGED stored
          BY <3>4, Works
        <5> QED
          BY SMTT(30), <1>0, <2>3, <4>1, <5>1
      <4>3. /\ stored'.level = queue[1].level
            /\ applied' = [applied EXCEPT ![queue[1].level] = queue[1].block]
        BY <3>4, <4>2, Works
      <4>4. IsTrue(queue[1]) /\ 1 \in Items /\ Pending[1] = queue[1] /\ DataAt(1)
        BY <4>1, QueueTrue
      <4>5. CASE l = queue[1].level
        BY <1>0, <2>1, <4>3, <4>4, <4>5 DEF IsTrue
      <4>6. CASE l # queue[1].level
        <5>1. ~Awaited(l)
          <6> SUFFICES ASSUME NEW n \in Items, DataAt(n), Pending[n].level = l
                       PROVE  FALSE
            BY DEF Awaited
          <6>1. n # 1
            BY <4>4, <4>6
          <6>2. n \in 1 + 1 .. Len(Pending)
            BY <6>1 DEF Items
          <6>3. Effect(Pending[1]) < Effect(Pending[n])
            BY <4>4, <6>2 DEF Ordered
          <6>4. Effect(Pending[1]) = queue[1].level /\ Effect(Pending[n]) = l
            BY <4>1, <4>4 DEF Effect, DataAt
          <6> QED
            BY <1>0, <4>1, <4>3, <6>3, <6>4
        <5>2. ~Missed(l)
          <6>1. subscribed => ~(l <= syncLevel)
            BY <1>0, <2>3, <4>1 DEF SyncKnown
          <6>2. ~(queue[1].level < l)
            BY <1>0, <4>1, <4>3
          <6> QED
            BY <4>1, <6>1, <6>2 DEF Missed
        <5>3. BlockAt(l) = 0
          BY <1>0, <2>3, <5>1, <5>2 DEF Expected
        <5> QED
          BY <1>0, <2>1, <3>1, <4>3, <4>6, <5>3
      <4> QED
        BY <4>5, <4>6
    <3>5. CASE ~ProcessFetched /\ ~ExitSync /\ ~ProcessData
      <4>1. stored'.level <= stored.level
        BY <3>5, StoredFrame, Moves DEF RollingFits
      <4> QED
        BY <1>0, <2>3, <4>1
    <3> QED
      BY <3>2, <3>3, <3>4, <3>5
  <2> QED
    BY SMTT(30), <1>0, <2>2, <2>3
<1> QED
  BY <1>1, <1>2, <1>3

(* A block is queued; a block is sent.                                      *)
QueuedAt(l) == \E k \in 1 .. Len(queue) : queue[k].kind = "data" /\ queue[k].level = l
SentAt(l) == \E k \in 1 .. Len(feed) : feed[k].kind = "data" /\ feed[k].level = l

(* What is awaited is queued or sent.                                       *)
LEMMA AwaitedIn ==
  Typed /\ UnbufferedFits => \A l : Awaited(l) <=> QueuedAt(l) \/ SentAt(l)
<1> SUFFICES ASSUME Typed, UnbufferedFits, NEW l
             PROVE  Awaited(l) <=> QueuedAt(l) \/ SentAt(l)
  OBVIOUS
<1>1. ASSUME NEW n \in Items, DataAt(n), Pending[n].level = l
      PROVE  QueuedAt(l) \/ SentAt(l)
  <2>1. CASE n \in 1 .. Len(queue)
    <3>1. Pending[n] = queue[n]
      BY <2>1, PendingAt
    <3> QED
      BY <1>1, <2>1, <3>1 DEF DataAt, QueuedAt
  <2>2. CASE n \notin 1 .. Len(queue)
    <3>1. PICK k \in 1 .. Len(feed) : n = Len(queue) + k /\ Pending[n] = feed[k]
      BY <2>2, PendingAt
    <3> QED
      BY <1>1, <3>1 DEF DataAt, SentAt
  <2> QED
    BY <2>1, <2>2
<1>2. ASSUME QueuedAt(l) PROVE Awaited(l)
  BY <1>2, PendingAt DEF QueuedAt, Awaited, DataAt
<1>3. ASSUME SentAt(l) PROVE Awaited(l)
  <2>1. PICK k \in 1 .. Len(feed) : feed[k].kind = "data" /\ feed[k].level = l
    BY <1>3 DEF SentAt
  <2>2. Len(queue) + k \in Items /\ Pending[Len(queue) + k] = feed[k]
    BY PendingAt
  <2> QED
    BY <2>1, <2>2 DEF Awaited, DataAt
<1> QED
  BY <1>1, <1>2, <1>3 DEF Awaited

(* The same after a step.                                                   *)
LEMMA AwaitedInNext ==
  ASSUME Typed', UnbufferedFits'
  PROVE  \A l : Awaited(l)' <=> QueuedAt(l)' \/ SentAt(l)'
<1>1. (Typed /\ UnbufferedFits)' => (\A l : Awaited(l) <=> QueuedAt(l) \/ SentAt(l))'
  BY AwaitedIn, PTL
<1> QED
  BY <1>1

(* An announced block is awaited until it is indexed, lost or thrown away.  *)
LEMMA AwaitedKept ==
  ASSUME Typed, Typed', LevelsFit, UnbufferedFits, UnbufferedFits', bufferSize = 0, Next,
         NEW l, Awaited(l)
  PROVE  \/ Awaited(l)'
         \/ Crash
         \/ Disconnect /\ SentAt(l)
         \/ (Process \/ Refresh) /\ pc' = "sync" /\ QueuedAt(l)
         \/ ProcessData /\ queue[1].level = l
<1> USE FeedAt, QueueAt
<1>1. ASSUME QueuedAt(l)
      PROVE  \/ Awaited(l)' \/ Crash
             \/ (Process \/ Refresh) /\ pc' = "sync"
             \/ ProcessData /\ queue[1].level = l
  <2>1. PICK n \in 1 .. Len(queue) : queue[n].kind = "data" /\ queue[n].level = l
    BY <1>1 DEF QueuedAt
  <2>2. ~(StartRollback /\ n = 1)
    BY <2>1, StartsRollback
  <2>3. ASSUME NEW k \in 1 .. Len(queue'), queue'[k] = queue[n] PROVE Awaited(l)'
    <3>1. QueuedAt(l)'
      BY <2>1, <2>3 DEF QueuedAt
    <3> QED
      BY <3>1, AwaitedInNext
  <2> QED
    BY <2>1, <2>2, <2>3, QueueForward
<1>2. ASSUME SentAt(l)
      PROVE  Awaited(l)' \/ Crash \/ Disconnect
  <2>1. PICK n \in 1 .. Len(feed) : feed[n].kind = "data" /\ feed[n].level = l
    BY <1>2 DEF SentAt
  <2>2. ASSUME NEW k \in 1 .. Len(feed'), feed'[k] = feed[n] PROVE Awaited(l)'
    <3>1. SentAt(l)'
      BY <2>1, <2>2 DEF SentAt
    <3> QED
      BY <3>1, AwaitedInNext
  <2>3. ASSUME NEW m \in Messages, feed' = Append(feed, m) PROVE Awaited(l)'
    BY <2>2, <2>3, AppendAt
  <2>4. ASSUME NEW b \in Blocks, Extend(b) PROVE Awaited(l)'
    <3>1. feed' = feed \/ \E m \in Messages : feed' = Append(feed, m)
      BY <2>4, Extends
    <3> QED
      BY <2>2, <2>3, <3>1
  <2>5. ASSUME NEW to \in Levels, Reorg(to) PROVE Awaited(l)'
    <3>1. feed' = feed \/ \E m \in Messages : feed' = Append(feed, m)
      BY <2>5, Reorganises
    <3> QED
      BY <2>2, <2>3, <3>1
  <2>6. ASSUME ReceiveData \/ ReceiveReorg PROVE Awaited(l)'
    <3>1. /\ feed # <<>> /\ feed' = Tail(feed) /\ channel' = Head(feed).level
             /\ Head(feed) = feed[1]
          /\ ReceiveReorg => feed[1].kind = "reorg"
      BY <2>6, ReceivesData, ReceivesReorg
    <3>2. Len(feed') = Len(feed) - 1 /\ \A k \in 1 .. Len(feed') : feed'[k] = feed[k + 1]
      BY <3>1, FeedTaken
    <3>3. CASE n # 1
      <4>1. n - 1 \in 1 .. Len(feed') /\ (n - 1) + 1 = n
        BY <3>2, <3>3
      <4>2. feed'[n - 1] = feed[n]
        BY <3>2, <4>1
      <4> QED
        BY <2>2, <4>1, <4>2
    <3>4. CASE n = 1
      <4>1. ReceiveData
        BY <2>1, <2>6, <3>1, <3>4
      <4>2. queue' = Append(queue, feed[1]) /\ feed[1] \in Messages
        BY <3>1, <4>1, ReceivesData, FeedHead
      <4>3. queue'[Len(queue) + 1] = feed[1] /\ Len(queue) + 1 \in 1 .. Len(queue')
        BY <4>2, QueueGiven
      <4>4. QueuedAt(l)'
        BY <2>1, <3>4, <4>3 DEF QueuedAt
      <4> QED
        BY <4>4, AwaitedInNext
    <3> QED
      BY <3>3, <3>4
  <2>7. Answer => feed' = feed
    BY DEF Answer
  <2>8. feed' = feed => Awaited(l)'
    BY <2>2
  <2> QED
    BY <2>4, <2>5, <2>6, <2>7, <2>8, WireFrame
<1> QED
  BY <1>1, <1>2, AwaitedIn

(* Synchronization ends at its target or with the process.                  *)
LEMMA SyncLeaves ==
  ASSUME Typed, LevelsFit, SyncRuns, Next, pc = "sync"
  PROVE  ExitSync \/ Crash \/ (pc' = "sync" /\ UNCHANGED target)
<1>1. (\E b \in Blocks : Extend(b)) \/ (\E to \in Levels : Reorg(to)) => UNCHANGED <<pc, target>>
  BY DEF Extend, Reorg, fetcher
<1>2. Connect \/ ReceiveData \/ ReceiveReorg \/ Fetch => UNCHANGED <<pc, target>>
  BY DEF Connect, ReceiveData, ReceiveReorg, Fetch, fetcher
<1>3. Disconnect => UNCHANGED <<pc, target>>
  BY DEF Disconnect, fetcher
<1>4. ProcessFetched => UNCHANGED <<pc, target>>
  BY Fetches DEF ProcessFetched
<1>5. ~Answer /\ ~Spawn /\ ~Subscribe /\ ~Schedule /\ ~Process /\ ~Refresh
  BY DEF Answer, Spawn, Subscribe, Schedule, Process, Refresh
<1>6. ~QueueEmpty /\ ~ProcessData /\ ~StartRollback /\ ~RevertRows /\ ~MoveLevel /\ ~SaveState
  BY DEF QueueEmpty, ProcessData, StartRollback, RevertRows, MoveLevel, SaveState
<1> QED
  BY <1>1, <1>2, <1>3, <1>4, <1>5, <1>6 DEF Next, Environment, Websocket, Dispatcher

(* No step lets the fetcher pass a level it has not fetched.                *)
LEMMA AllFetchedStep ==
  ASSUME Typed, Typed', LevelsFit, SyncRuns, UnbufferedFits, bufferSize = 0, Orderly,
         SyncBelow, SyncAlone, AllFetched, Next
  PROVE  AllFetched'
<1> USE LevelTypes, LevelTypesNext
<1> SUFFICES ASSUME pc' = "sync", NEW l \in Levels, stored'.level < l, l < position',
                    BlockAt(l)' # 0
             PROVE  \E n \in 1 .. Len(fetched') : fetched'[n].level = l
  BY DEF AllFetched
<1>0. l \in Nat
  BY DEF Levels
<1>1. CASE Process \/ Refresh
  BY <1>0, <1>1, Decides
<1>2. CASE pc = "sync" /\ ~Process /\ ~Refresh
  <2>1. ~ExitSync /\ ~Crash /\ ~(\E to \in Levels : Reorg(to)) /\ ~ProcessData /\ ~MoveLevel
    <3>1. ~ExitSync /\ ~Crash /\ ~ProcessData /\ ~MoveLevel
      BY <1>2 DEF ExitSync, Crash, ProcessData, MoveLevel
    <3> QED
      BY <1>2, <3>1, ReorgGuards
  <2>2. position <= target + 1 /\ target <= HeadLevel
    BY <1>2 DEF SyncRuns, SyncAlone
  <2>3. CASE Fetch
    <3>1. /\ fetched = <<>> /\ position' = position + 1 /\ stored' = stored /\ UNCHANGED chain
          /\ fetched' = IF BlockAt(position) # 0 THEN <<DataMsg(position, BlockAt(position))>>
                          ELSE <<>>
      BY <2>3 DEF Fetch, environment
    <3>2. BlockAt(l) # 0
      BY <3>1 DEF BlockAt, HeadLevel
    <3>3. l = position
      <4>1. ~ \E n \in 1 .. Len(fetched) : fetched[n].level = l
        BY <3>1
      <4>2. ~(l < position)
        BY <1>2, <3>1, <3>2, <4>1 DEF AllFetched
      <4> QED
        BY <1>0, <3>1, <4>2
    <3>4. PICK m : m = DataMsg(position, BlockAt(position))
      OBVIOUS
    <3>5. fetched' = <<m>> /\ m.level = l
      BY <3>1, <3>2, <3>3, <3>4 DEF DataMsg
    <3> QED
      BY <3>5
  <2>4. CASE ProcessFetched
    <3>1. /\ stored.level < fetched[1].level /\ fetched[1].level \in Levels /\ Len(fetched) = 1
          /\ stored'.level = fetched[1].level
      BY <2>4, Fetches
    <3>2. position' = position /\ UNCHANGED chain
      BY <2>4 DEF ProcessFetched, environment
    <3>3. BlockAt(l) # 0 /\ stored.level < l /\ l < position
      BY <1>0, <3>1, <3>2 DEF BlockAt, HeadLevel, Levels
    <3>4. PICK n \in 1 .. Len(fetched) : fetched[n].level = l
      BY <1>2, <3>3 DEF AllFetched
    <3>5. n = 1
      BY <3>1, <3>4
    <3> QED
      BY <1>0, <3>1, <3>4, <3>5
  <2>5. CASE ~Fetch /\ ~ProcessFetched
    <3>1. stored'.level = stored.level /\ fetched' = fetched
      BY <2>1, <2>5, StoredFrame, FetchFrame
    <3>2. position' = position
      <4>1. (\E b \in Blocks : Extend(b)) \/ Disconnect \/ Websocket => UNCHANGED fetcher
        BY DEF Extend, Disconnect, Websocket, Connect, Answer, ReceiveData, ReceiveReorg
      <4>2. ~Spawn /\ ~Subscribe /\ ~Schedule /\ ~QueueEmpty /\ ~StartRollback /\ ~RevertRows
               /\ ~SaveState
        BY <1>2 DEF Spawn, Subscribe, Schedule, QueueEmpty, StartRollback, RevertRows, SaveState
      <4> QED
        BY <1>2, <2>1, <2>5, <4>1, <4>2 DEF Next, Environment, Dispatcher, fetcher
    <3>3. BlockAt(l) # 0
      <4>1. ASSUME NEW b \in Blocks, Extend(b) PROVE BlockAt(l) # 0
        <5>1. BlockAt(l)' = IF l = HeadLevel + 1 THEN b ELSE BlockAt(l)
          BY <4>1, Extends
        <5>2. l < HeadLevel + 1
          BY <1>0, <2>2, <3>2
        <5> QED
          BY <1>0, <5>1, <5>2
      <4> QED
        BY <2>1, <4>1, ChainFrame
    <3>4. PICK n \in 1 .. Len(fetched) : fetched[n].level = l
      BY <1>2, <3>1, <3>2, <3>3 DEF AllFetched
    <3> QED
      BY <3>1, <3>4
  <2> QED
    BY <2>3, <2>4, <2>5
<1> QED
  BY <1>1, <1>2, PhaseFrame

(* What the index's queue has of blocks was there or is received.           *)
LEMMA QueuedBefore ==
  ASSUME Typed, UnbufferedFits, bufferSize = 0, Next,
         NEW n \in 1 .. Len(queue'), queue'[n].kind = "data"
  PROVE  \/ \E k \in 1 .. Len(queue) : queue[k] = queue'[n]
         \/ ReceiveData /\ queue'[n] = Head(feed)
<1> USE QueueAt
<1>1. CASE ProcessData \/ StartRollback
  <2>1. queue # <<>> /\ queue' = Tail(queue)
    BY <1>1 DEF ProcessData, StartRollback
  <2>2. queue'[n] = queue[n + 1] /\ n + 1 \in 1 .. Len(queue)
    BY <2>1, QueueTaken
  <2> QED
    BY <2>2
<1>2. CASE ReceiveData
  <2>1. queue' = Append(queue, Head(feed)) /\ Head(feed) \in Messages
    BY <1>2, ReceivesData, FeedHead
  <2>2. /\ Len(queue') = Len(queue) + 1 /\ \A k \in 1 .. Len(queue) : queue'[k] = queue[k]
        /\ queue'[Len(queue) + 1] = Head(feed)
    BY <2>1, QueueGiven
  <2>3. n \in 1 .. Len(queue) \/ n = Len(queue) + 1
    BY <2>2
  <2> QED
    BY <1>2, <2>2, <2>3
<1>3. CASE ReceiveReorg /\ queue' # queue
  <2>1. PICK m : m = RollbackMsg(ChannelLevel, Head(feed).level)
    OBVIOUS
  <2>2. queue' = Append(queue, m) /\ m \in Rollbacks /\ m.kind = "rollback"
    BY <1>3, <2>1, ReceivesReorg DEF RollbackMsg, Rollbacks
  <2>3. /\ Len(queue') = Len(queue) + 1 /\ \A k \in 1 .. Len(queue) : queue'[k] = queue[k]
        /\ queue'[Len(queue) + 1] = m
    BY <2>2, QueueGiven
  <2>4. n \in 1 .. Len(queue)
    BY <2>2, <2>3
  <2> QED
    BY <2>3, <2>4
<1>4. CASE queue' = queue
  BY <1>4
<1>5. CASE queue' = <<>>
  BY <1>5
<1>6. Crash => queue' = <<>>
  BY DEF Crash
<1>7. SaveState => queue' = queue
  BY DEF SaveState
<1> QED
  BY <1>1, <1>2, <1>3, <1>4, <1>5, <1>6, <1>7, Clears, QueueFrame

(* The steps that touch the subscription.                                   *)
LEMMA ChannelFrame ==
  ASSUME Next
  PROVE  Disconnect \/ Crash \/ Answer \/ UNCHANGED <<subscribed, syncLevel>>
<1>1. (\E b \in Blocks : Extend(b)) \/ (\E to \in Levels : Reorg(to))
        => UNCHANGED <<subscribed, syncLevel>>
  BY DEF Extend, Reorg
<1>2. ReceiveData \/ ReceiveReorg => UNCHANGED <<subscribed, syncLevel>>
  BY DEF ReceiveData, ReceiveReorg
<1> QED
  BY <1>1, <1>2, WireFrame

(* From its loop the dispatcher subscribes, or processes.                   *)
LEMMA LoopLeaves ==
  ASSUME Next, pc \in {"loop", "subscribe", "hung"}
  PROVE  \/ pc' \in {"loop", "subscribe", "hung"}
         \/ Schedule
<1>1. (\E b \in Blocks : Extend(b)) \/ (\E to \in Levels : Reorg(to)) \/ Disconnect \/ Crash
        => pc' \in {pc, "hung", "loop"}
  BY DEF Extend, Reorg, Disconnect, Crash
<1>2. Websocket => pc' \in {pc, "loop"}
  BY DEF Websocket, Connect, Answer, ReceiveData, ReceiveReorg
<1>3. Spawn \/ Subscribe => pc' \in {"loop", "subscribe"}
  BY DEF Spawn, Subscribe
<1>4. ~Process /\ ~Refresh /\ ~Fetch /\ ~ProcessFetched /\ ~ExitSync
  BY DEF Process, Refresh, Fetch, ProcessFetched, ExitSync
<1>5. ~QueueEmpty /\ ~ProcessData /\ ~StartRollback /\ ~RevertRows /\ ~MoveLevel /\ ~SaveState
  BY DEF QueueEmpty, ProcessData, StartRollback, RevertRows, MoveLevel, SaveState
<1> QED
  BY <1>1, <1>2, <1>3, <1>4, <1>5 DEF Next, Environment, Dispatcher

(* A level that is missed stays so until it is indexed.                     *)
LEMMA MissedKept ==
  ASSUME Typed, Typed', LevelsFit, SyncRuns, UnbufferedFits, bufferSize = 0, Orderly, SyncFits,
         SyncKnown, NeverFails, Next,
         ~ \E to \in Levels : Reorg(to),
         NEW l \in Levels, l <= HeadLevel, l > stored.level, l > stored'.level, ~Undone(l),
         Missed(l)
  PROVE  Missed(l)'
<1> USE LevelTypes, LevelTypesNext
<1>0. l \in Nat /\ NoLevel = -1
  BY DEF Levels, NoLevel
<1>1. CASE Crash
  BY <1>1 DEF Crash, Missed
<1>2. CASE Answer
  BY <1>0, <1>2 DEF Answer, Missed, HeadLevel
<1>3. CASE Disconnect
  <2>1. /\ ~subscribed' /\ queue' = queue /\ target' = target
        /\ pc' = IF pc = "subscribe" THEN "hung" ELSE pc
        /\ pc \notin {"process", "refresh"} /\ pc # "failed"
    BY <1>3 DEF Disconnect, Orderly, NeverFails, fetcher
  <2>2. ~RollingBack
    <3>1. Destinations = {}
      BY <1>3, LosesNone
    <3> QED
      BY <3>1, DestinationsIn
  <2>3. pc \in {"loop", "subscribe", "hung", "sync", "queue"}
    BY <2>1, <2>2 DEF RollingBack, Typed, IndexType
  <2>4. CASE subscribed
    <3>1. l <= syncLevel /\ syncLevel # NoLevel
      BY <1>0, <2>4 DEF Missed
    <3>2. pc # "queue"
      BY <1>0, <2>4, <3>1, SMTT(20) DEF SyncKnown
    <3>3. pc = "sync" => l <= target
      BY <3>1 DEF SyncKnown
    <3> QED
      BY <2>1, <2>3, <3>2, <3>3 DEF Missed
  <2>5. CASE ~subscribed
    BY <2>1, <2>5 DEF Missed
  <2> QED
    BY <2>4, <2>5
<1>4. CASE ~Crash /\ ~Answer /\ ~Disconnect
  <2>1. UNCHANGED <<subscribed, syncLevel>>
    BY <1>4, ChannelFrame
  <2>2. CASE subscribed
    BY <2>1, <2>2 DEF Missed
  <2>3. CASE ~subscribed
    <3>1. ~subscribed' /\ ~ReceiveData
      BY <2>1, <2>3, ReceivesData DEF Typed, SocketType
    <3>2. ASSUME \A n \in 1 .. Len(queue) : queue[n].kind = "data" => queue[n].level < l
          PROVE  Missed(l)'
      <4>1. ASSUME NEW n \in 1 .. Len(queue'), queue'[n].kind = "data" PROVE queue'[n].level < l
        BY <3>1, <3>2, <4>1, QueuedBefore
      <4> QED
        BY <3>1, <4>1 DEF Missed
    <3>3. CASE pc \in {"loop", "subscribe", "hung"}
      <4>1. CASE Schedule
        <5>1. queue = <<>>
          BY <2>3, <4>1 DEF Schedule, SyncFits
        <5> QED
          BY <3>2, <5>1
      <4>2. CASE pc' \in {"loop", "subscribe", "hung"}
        BY <3>1, <4>2 DEF Missed
      <4> QED
        BY <3>3, <4>1, <4>2, LoopLeaves
    <3>4. CASE pc = "sync" /\ l <= target
      <4>1. ~ExitSync
        BY <1>0, <3>4, Exits
      <4>2. pc' = "sync" /\ target' = target
        BY <1>4, <3>4, <4>1, SyncLeaves
      <4> QED
        BY <3>1, <3>4, <4>2 DEF Missed
    <3> QED
      BY <2>3, <3>2, <3>3, <3>4 DEF Missed
  <2> QED
    BY <2>2, <2>3
<1> QED
  BY <1>1, <1>2, <1>3, <1>4

(* No step queues a block that the next synchronization would skip.         *)
LEMMA EarlyStep ==
  ASSUME Typed, Typed', LevelsFit, SyncRuns, UnbufferedFits, bufferSize = 0, Orderly,
         PendingTrue, SyncBelow, SyncKnown, Early, Next
  PROVE  Early'
<1> USE LevelTypes, LevelTypesNext
<1> SUFFICES ASSUME subscribed', stored'.level < syncLevel', pc' # "sync",
                    NEW n \in 1 .. Len(queue'), queue'[n].kind = "data"
             PROVE  queue'[n].level <= syncLevel'
  BY DEF Early
<1>1. CASE Answer
  <2>1. queue' = queue /\ syncLevel' = HeadLevel
    BY <1>1 DEF Answer
  <2>2. n \in 1 .. Len(queue) /\ queue[n].kind = "data"
    BY <2>1
  <2>3. queue[n].level <= HeadLevel
    BY <2>2, QueueTrue
  <2> QED
    BY <2>1, <2>3
<1>2. CASE ~Answer
  <2>1. ~Crash /\ ~Disconnect
    BY DEF Crash, Disconnect
  <2>2. UNCHANGED <<subscribed, syncLevel>>
    BY <1>2, <2>1, ChannelFrame
  <2>3. subscribed /\ syncLevel # NoLevel
    BY <2>2 DEF Typed, SocketType
  <2>4. pc # "sync"
    <3>1. ASSUME pc = "sync", ExitSync PROVE FALSE
      BY <2>2, <2>3, <3>1, Exits DEF SyncKnown
    <3> QED
      BY <2>1, <3>1, SyncLeaves
  <2>5. ~RollingBack
    <3>1. CASE RollingBack
      <4>1. current.to \in Destinations
        BY <3>1, DestinationsIn
      <4>2. syncLevel <= current.to /\ syncLevel <= stored.level
        BY <4>1 DEF SyncBelow
      <4> QED
        BY SMTT(30), <2>2, <4>2, StoredMoves
    <3> QED
      BY <3>1
  <2>6. stored.level < syncLevel /\ state.level = stored.level
    BY <2>2, <2>5, StoredMoves DEF LevelsFit, RollingBack
  <2>7. ASSUME NEW k \in 1 .. Len(queue), queue[k] = queue'[n]
        PROVE  queue[k].level <= syncLevel
    BY <2>3, <2>4, <2>6, <2>7 DEF Early
  <2>8. ASSUME ReceiveData PROVE Head(feed).level <= syncLevel
    BY <2>4, <2>6, <2>8 DEF ReceiveData, Orderly
  <2> QED
    BY <2>2, <2>7, <2>8, QueuedBefore
<1> QED
  BY <1>1, <1>2

(* Losing the connection or throwing the queue away is made good by the     *)
(* next sync.                                                               *)
LEMMA AwaitedLost ==
  ASSUME Typed, Typed', LevelsFit, SyncRuns, UnbufferedFits, UnbufferedFits', bufferSize = 0,
         Orderly,
         SyncFits, Ordered, SyncBelow, Early, NeverFails', Next,
         ~ \E b \in Blocks : Extend(b), ~ \E to \in Levels : Reorg(to),
         NEW l \in Levels, Awaited(l), ~Awaited(l)'
  PROVE  ~Undone(l)' /\ (l <= stored'.level \/ Missed(l)')
<1> USE LevelTypes, LevelTypesNext
<1>0. l \in Nat
  BY DEF Levels
<1>1. ~Undone(l) => ~Undone(l)'
  BY UndoneNew
<1>2. Destinations = {} => ~Undone(l)'
  BY <1>1 DEF Undone
<1>3. CASE Crash
  <2>1. Destinations = {}
    BY <1>3, LosesNone
  <2> QED
    BY <1>2, <1>3, <2>1 DEF Crash, Missed
<1>4. CASE Disconnect /\ SentAt(l)
  <2>1. Destinations = {}
    BY <1>4, LosesNone
  <2>2. ~subscribed' /\ queue' = queue
    BY <1>4 DEF Disconnect
  <2>3. ASSUME NEW n \in 1 .. Len(queue), queue[n].kind = "data" PROVE queue[n].level < l
    <3>1. PICK k \in 1 .. Len(feed) : feed[k].kind = "data" /\ feed[k].level = l
      BY <1>4 DEF SentAt
    <3>2. /\ Len(queue) \in Nat /\ Len(feed) \in Nat /\ Len(Pending) = Len(queue) + Len(feed)
          /\ n \in Items /\ Pending[n] = queue[n]
          /\ Len(queue) + k \in Items /\ Pending[Len(queue) + k] = feed[k]
      BY PendingAt
    <3>3. DataAt(n) /\ DataAt(Len(queue) + k) /\ Len(queue) + k \in n + 1 .. Len(Pending)
      BY SMTT(30), <2>3, <3>1, <3>2 DEF DataAt
    <3>4. Effect(Pending[n]) < Effect(Pending[Len(queue) + k])
      BY <3>2, <3>3 DEF Ordered
    <3> QED
      BY <2>3, <3>1, <3>2, <3>4 DEF Effect
  <2> QED
    BY <1>2, <2>1, <2>2, <2>3 DEF Missed
<1>5. CASE (Process \/ Refresh) /\ pc' = "sync" /\ QueuedAt(l)
  <2>1. /\ pc \in {"process", "refresh"} /\ stored.level < syncLevel
        /\ UNCHANGED <<subscribed, syncLevel>>
    BY <1>5, Decides DEF datasource
  <2>2. Destinations = {}
    BY <2>1 DEF SyncBelow
  <2>3. PICK n \in 1 .. Len(queue) : queue[n].kind = "data" /\ queue[n].level = l
    BY <1>5 DEF QueuedAt
  <2>4. subscribed
    <3>1. queue # <<>>
      BY <2>3
    <3> QED
      BY <2>1, <3>1 DEF SyncFits
  <2>5. l <= syncLevel
    BY <2>1, <2>3, <2>4 DEF Early
  <2> QED
    BY <1>2, <2>1, <2>2, <2>4, <2>5 DEF Missed
<1>6. CASE ProcessData /\ queue[1].level = l
  <2>1. /\ pc = "queue" /\ queue[1].kind = "data" /\ Len(queue) >= 1
        /\ queue[1].level <= stored.level => stored' = stored
        /\ queue[1].level > stored.level => stored'.level = queue[1].level
    BY <1>6, Works
  <2>2. l <= stored'.level
    BY SMTT(30), <1>0, <1>6, <2>1
  <2>3. ASSUME NEW d \in Destinations PROVE ~(d < l)
    <3>1. PICK n \in Items : ~DataAt(n) /\ d = Effect(Pending[n])
      <4>1. ~RollingBack
        BY <2>1 DEF RollingBack
      <4> QED
        BY <4>1, DestinationsAre
    <3>2. 1 \in Items /\ Pending[1] = queue[1] /\ Len(Pending) \in Nat /\ d \in Nat
      BY <2>1, <3>1, PendingAt
    <3>3. DataAt(1) /\ Effect(Pending[1]) = l
      BY <1>6, <2>1, <3>2 DEF DataAt, Effect
    <3>4. n # 1
      BY <3>1, <3>3
    <3>5. n \in 1 + 1 .. Len(Pending)
      BY <3>1, <3>4 DEF Items
    <3>6. Effect(Pending[1]) <= Effect(Pending[n])
      BY <3>1, <3>2, <3>3, <3>5 DEF Ordered
    <3> QED
      BY <1>0, <3>1, <3>2, <3>3, <3>6
  <2> QED
    BY <1>1, <2>2, <2>3 DEF Undone
<1> QED
  BY <1>3, <1>4, <1>5, <1>6, AwaitedKept

(* No step forgets a block.                                                 *)
LEMMA ExpectedStep ==
  ASSUME Typed, Typed', LevelsFit, SyncRuns, UnbufferedFits, UnbufferedFits', bufferSize = 0,
         Orderly,
         SyncFits, Ordered, PendingTrue, NoneLost, SyncBelow, SyncKnown, Early, Expected,
         NeverFails, NeverFails', Next
  PROVE  Expected'
<1> USE LevelTypes, LevelTypesNext
<1> SUFFICES ASSUME NEW l \in Levels, BlockAt(l)' # 0, ~Awaited(l)'
             PROVE  ~Undone(l)' /\ (l <= stored'.level \/ Missed(l)')
  BY DEF Expected
<1>0. l \in Nat
  BY DEF Levels
<1>1. ASSUME NEW b \in Blocks, Extend(b)
      PROVE  ~Undone(l)' /\ (l <= stored'.level \/ Missed(l)')
  <2>0. /\ HeadLevel' = HeadLevel + 1
        /\ UNCHANGED <<subscribed, syncLevel, queue, stored, pc, target>>
        /\ BlockAt(l)' = IF l = HeadLevel + 1 THEN b ELSE BlockAt(l)
    BY <1>1, Extends DEF Extend, fetcher
  <2>1. ~ \E to \in Levels : Reorg(to)
    BY <2>0, Reorganises
  <2>2. ~Undone(l) => ~Undone(l)'
    BY <2>1, UndoneNew
  <2>3. CASE l = HeadLevel + 1
    <3>1. ~subscribed
      <4>1. CASE subscribed
        <5>1. PICK m : m = DataMsg(HeadLevel + 1, b)
          OBVIOUS
        <5>2. feed' = Append(feed, m) /\ m \in Messages /\ m.kind = "data" /\ m.level = l
          BY <1>1, <2>0, <2>3, <4>1, <5>1, Extends
        <5>3. feed'[Len(feed) + 1] = m /\ Len(feed) + 1 \in 1 .. Len(feed')
          BY <5>2, AppendAt, FeedAt
        <5>4. SentAt(l)'
          BY <5>2, <5>3 DEF SentAt
        <5> QED
          BY <5>4, AwaitedInNext
      <4> QED
        BY <4>1
    <3>2. Destinations = {}
      BY <3>1 DEF NoneLost
    <3>3. ASSUME NEW n \in 1 .. Len(queue), queue[n].kind = "data" PROVE queue[n].level < l
      BY SMTT(30), <2>3, <3>3, QueueTrue
    <3> QED
      BY <2>0, <2>2, <3>1, <3>2, <3>3 DEF Undone, Missed
  <2>4. CASE l # HeadLevel + 1
    <3>1. ~Crash /\ ~Disconnect /\ ~Process /\ ~Refresh /\ ~ProcessData
      <4>1. Crash \/ Disconnect \/ Process \/ Refresh \/ ProcessData => UNCHANGED chain
        BY DEF Crash, Disconnect, Process, Refresh, ProcessData, environment
      <4> QED
        BY <2>0, <4>1 DEF HeadLevel
    <3>2. ~Awaited(l)
      BY <3>1, AwaitedKept
    <3>3. ~Undone(l) /\ (l <= stored.level \/ Missed(l))
      BY <2>0, <2>4, <3>2 DEF Expected
    <3> QED
      BY <2>0, <2>2, <3>3 DEF Missed
  <2> QED
    BY <2>3, <2>4
<1>2. ASSUME NEW to \in Levels, Reorg(to)
      PROVE  ~Undone(l)' /\ (l <= stored'.level \/ Missed(l)')
  <2>0. /\ HeadLevel' = to /\ to < HeadLevel /\ to \in Nat
        /\ UNCHANGED <<subscribed, syncLevel, queue, stored, pc, target>>
        /\ BlockAt(l)' = IF l <= to THEN BlockAt(l) ELSE 0
    BY <1>2, Reorganises DEF Reorg, fetcher, Levels
  <2>1. l <= to /\ BlockAt(l) # 0
    BY <2>0
  <2>2. ~Undone(l) => ~Undone(l)'
    <3>1. \A k \in Levels : Reorg(k) => l <= k
      BY <2>0, <2>1, Reorganises
    <3> QED
      BY <3>1, UndoneNew
  <2>3. ~Crash /\ ~Disconnect /\ ~Process /\ ~Refresh /\ ~ProcessData
    <3>1. Crash \/ Disconnect \/ Process \/ Refresh \/ ProcessData => UNCHANGED chain
      BY DEF Crash, Disconnect, Process, Refresh, ProcessData, environment
    <3> QED
      BY <2>0, <3>1 DEF HeadLevel
  <2>4. ~Awaited(l)
    BY <2>3, AwaitedKept
  <2>5. ~Undone(l) /\ (l <= stored.level \/ Missed(l))
    BY <2>1, <2>4 DEF Expected
  <2> QED
    BY <2>0, <2>2, <2>5 DEF Missed
<1>3. CASE ~(\E b \in Blocks : Extend(b)) /\ ~(\E to \in Levels : Reorg(to))
  <2>1. BlockAt(l) # 0
    BY <1>3, ChainFrame
  <2>2. CASE Awaited(l)
    BY <1>3, <2>2, AwaitedLost
  <2>3. CASE ~Awaited(l)
    <3>1. ~Undone(l) /\ (l <= stored.level \/ Missed(l))
      BY <2>1, <2>3 DEF Expected
    <3>2. ~Undone(l)'
      BY <1>3, <3>1, UndoneNew
    <3>3. CASE l <= stored.level
      <4>1. ASSUME RollingBack PROVE l <= current.to
        <5>1. current.to \in Destinations
          BY <4>1, DestinationsIn
        <5> QED
          BY <1>0, <3>1, <5>1 DEF Undone
      <4>2. l <= stored'.level
        BY SMTT(30), <1>0, <3>3, <4>1, StoredMoves
      <4> QED
        BY <3>2, <4>2
    <3>4. CASE l > stored.level
      <4>1. Missed(l)
        BY <1>0, <3>1, <3>4
      <4>2. l <= HeadLevel
        BY <1>0, <2>1 DEF BlockAt
      <4>3. l <= stored'.level \/ Missed(l)'
        BY <1>0, <1>3, <3>1, <3>4, <4>1, <4>2, MissedKept, SMTT(20)
      <4> QED
        BY <3>2, <4>3
    <3> QED
      BY SMTT(30), <1>0, <3>3, <3>4
  <2> QED
    BY <2>2, <2>3
<1> QED
  BY <1>1, <1>2, <1>3

(* What CanonicalWhenQuiet rests on.                                        *)
CanonInv == OrderlyInv /\ Indexed /\ Expected /\ Early /\ AllFetched

(* It holds at first.                                                       *)
LEMMA CanonInvInit ==
  ASSUME Unbuffered
  PROVE  Init => CanonInv
<1> SUFFICES ASSUME Init PROVE CanonInv
  OBVIOUS
<1>1. OrderlyInv
  BY OrderlyInvInit
<1>2. Typed /\ UnbufferedFits
  BY <1>1 DEF OrderlyInv, FailInv, LevelInv
<1>3. /\ chain = <<1>> /\ HeadLevel = 1 /\ stored.level = 0 /\ applied = [l \in Levels |-> 0]
      /\ feed = <<>> /\ queue = <<>> /\ pc = "loop" /\ ~subscribed
  BY DEF Init, HeadLevel
<1>4. ~RollingBack /\ (\A d : ~ReorgTo(d) /\ ~RollbackTo(d))
  BY <1>3 DEF RollingBack, ReorgTo, RollbackTo
<1>5. Destinations = {}
  BY <1>2, <1>4, DestinationsIn
<1>6. Indexed
  BY <1>3 DEF Indexed, BlockAt, Levels
<1>7. Expected
  BY <1>3, <1>5 DEF Expected, Undone, Missed
<1>8. Early /\ AllFetched
  BY <1>3 DEF Early, AllFetched
<1> QED
  BY <1>1, <1>6, <1>7, <1>8 DEF CanonInv

(* No step leaves it.                                                       *)
LEMMA CanonInvStep ==
  ASSUME Unbuffered, Orderly, CanonInv, [Next]_vars
  PROVE  CanonInv'
<1>0. OrderlyInv /\ OrderlyInv'
  BY OrderlyInvStep DEF CanonInv
<1>1. /\ Typed /\ Typed' /\ LevelsFit /\ SyncRuns /\ bufferSize = 0
      /\ UnbufferedFits /\ UnbufferedFits' /\ SyncFits /\ NeverFails /\ NeverFails'
  BY <1>0, BufferSizeIs DEF OrderlyInv, FailInv, LevelInv
<1>2. CASE Next
  <2>1. Indexed'
    BY <1>0, <1>1, <1>2, IndexedStep DEF CanonInv, OrderlyInv
  <2>2. Expected'
    BY <1>0, <1>1, <1>2, ExpectedStep DEF CanonInv, OrderlyInv
  <2>3. Early' /\ AllFetched'
    BY <1>0, <1>1, <1>2, EarlyStep, AllFetchedStep DEF CanonInv, OrderlyInv
  <2> QED
    BY <1>0, <2>1, <2>2, <2>3 DEF CanonInv
<1>3. CASE UNCHANGED vars
  <2>1. \A l : Undone(l)' <=> Undone(l)
    BY <1>3, Stutter DEF Undone
  <2>2. \A l : Awaited(l)' <=> Awaited(l)
    BY <1>3, Stutter DEF Awaited
  <2>3. \A l : Missed(l)' <=> Missed(l)
    BY <1>3, Stutter DEF Missed
  <2>4. Indexed'
    BY <1>3, <2>1, Stutter DEF CanonInv, Indexed
  <2>5. Expected'
    BY <1>3, <2>1, <2>2, <2>3, Stutter DEF CanonInv, Expected
  <2>6. Early' /\ AllFetched'
    BY <1>3, Stutter DEF CanonInv, Early, AllFetched
  <2> QED
    BY <1>0, <2>4, <2>5, <2>6 DEF CanonInv
<1> QED
  BY <1>2, <1>3

(* An index with nothing left to do holds the chain.                        *)
LEMMA CanonInvQuiet ==
  ASSUME CanonInv, Quiet, NEW l \in Levels
  PROVE  applied[l] = BlockAt(l)
<1>0. Typed /\ UnbufferedFits /\ Cleared
  BY DEF CanonInv, OrderlyInv, FailInv, LevelInv
<1> USE LevelTypes
<1>1. /\ pc \in {"loop", "process"} /\ subscribed /\ feed = <<>> /\ queue = <<>>
      /\ stored.level >= syncLevel /\ l \in Nat
  BY DEF Quiet, Levels
<1>2. ~RollingBack /\ (\A d : ~ReorgTo(d) /\ ~RollbackTo(d)) /\ ~QueuedAt(l) /\ ~SentAt(l)
  BY <1>1 DEF RollingBack, ReorgTo, RollbackTo, QueuedAt, SentAt
<1>3. Destinations = {} /\ ~Awaited(l)
  BY <1>0, <1>2, DestinationsIn, AwaitedIn
<1>4. CASE l <= stored.level
  BY <1>3, <1>4 DEF CanonInv, Indexed, Undone
<1>5. CASE l > stored.level
  <2>1. applied[l] = 0
    BY <1>0, <1>5 DEF Cleared
  <2>2. ~Missed(l)
    BY <1>0, <1>1, <1>5 DEF Missed
  <2>3. BlockAt(l) = 0
    BY <1>0, <1>1, <1>3, <1>5, <2>2 DEF CanonInv, Expected
  <2> QED
    BY <2>1, <2>3
<1> QED
  BY <1>0, <1>1, <1>4, <1>5

(* In orderly circumstances an index with nothing left to do holds the data of*)
(* the canonical chain, every level of it and nothing else (dipdup.py:593-610,*)
(* index.py:97-115, 262-276, tezos_tzkt.py:186-205), for any length of the  *)
(* chain, number of reorgs, lost connections and crashes.                   *)
THEOREM IndexCanonical ==
  ASSUME Unbuffered, Orderly
  PROVE  Spec => []CanonicalWhenQuiet
<1>1. Init => CanonInv
  BY CanonInvInit
<1>2. CanonInv /\ [Next]_vars => CanonInv'
  BY CanonInvStep
<1>3. CanonInv => CanonicalWhenQuiet
  BY CanonInvQuiet DEF CanonicalWhenQuiet, Canonical
<1> QED
  BY <1>1, <1>2, <1>3, PTL DEF Spec
=============================================================================
