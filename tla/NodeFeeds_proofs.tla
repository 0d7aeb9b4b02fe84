--------------------------- MODULE NodeFeeds_proofs ---------------------------
(***************************************************************************)
(* Theorems about NodeFeeds, for every value of its constants.             *)
(***************************************************************************)
EXTENDS NodeFeeds, WellFoundedInduction, TLAPS

-----------------------------------------------------------------------------
(* Numbers.                                                                 *)

(* Induction over the natural numbers, from their well-foundedness.         *)
LessThan == OpToRel(<, Nat)

(* A set of natural numbers that is not empty has a least one.              *)
LEMMA LeastNat ==
  ASSUME NEW T, T \subseteq Nat, T # {}
  PROVE  \E n \in T : \A m \in T : n <= m
<1>1. IsWellFoundedOn(LessThan, Nat)
  BY NatLessThanWellFounded DEF LessThan
<1>2. \A x, y \in Nat : x < y => <<x, y>> \in LessThan
  BY DEF LessThan, OpToRel
<1>3. PICK x \in T : \A y \in T : ~(<<y, x>> \in LessThan)
  BY <1>1, WFMin
<1>4. ASSUME NEW m \in T
      PROVE  x <= m
  <2>1. x \in Nat /\ m \in Nat
    OBVIOUS
  <2>2. ~(m < x)
    BY <1>2, <1>3, <2>1
  <2> QED
    BY <2>1, <2>2
<1> QED
  BY <1>4

(* Induction, with the set of the numbers a fact holds of.                  *)
LEMMA NatInduct ==
  ASSUME NEW S, 0 \in S, \A n \in Nat : n \in S => n + 1 \in S
  PROVE  \A n \in Nat : n \in S
<1> SUFFICES ASSUME {n \in Nat : n \notin S} # {} PROVE FALSE
  OBVIOUS
<1>1. PICK n \in {n \in Nat : n \notin S} : \A m \in {k \in Nat : k \notin S} : n <= m
  BY LeastNat
<1>2. n # 0
  BY <1>1
<1>3. n - 1 \in Nat /\ n - 1 \in S
  BY <1>1, <1>2
<1> QED
  BY <1>1, <1>3

(* Max is the greatest of a set of integers with bounds.                    *)
LEMMA MaxIs ==
  ASSUME NEW T, T \subseteq Int, T # {}, NEW u \in Int, \A m \in T : m <= u
  PROVE  Max(T) \in T /\ \A m \in T : m <= Max(T)
<1> DEFINE D == {u - m : m \in T}
<1>0. \A m \in T : u - m \in Nat
  OBVIOUS
<1>1. D \subseteq Nat /\ D # {}
  BY <1>0
<1>2. PICK d \in D : \A e \in D : d <= e
  BY <1>1, LeastNat
<1>3. PICK n \in T : d = u - n
  BY <1>2
<1>4. ASSUME NEW m \in T PROVE m <= n
  <2>1. u - m \in D /\ d <= u - m
    BY <1>2
  <2> QED
    BY <1>3, <2>1
<1> QED
  BY <1>3, <1>4 DEF Max

-----------------------------------------------------------------------------
(* Sequences.                                                               *)

(* The head of a sequence that is not empty, and what is left of it.        *)
LEMMA HeadTail ==
  ASSUME NEW T, NEW s \in Seq(T), s # <<>>
  PROVE  /\ Head(s) = s[1] /\ Head(s) \in T
         /\ Tail(s) \in Seq(T) /\ Len(s) \in Nat \ {0} /\ Len(Tail(s)) = Len(s) - 1
         /\ \A n \in 1 .. Len(s) - 1 : Tail(s)[n] = s[n + 1]
  OBVIOUS

(* A sequence with an element more.                                         *)
LEMMA AppendAt ==
  ASSUME NEW T, NEW s \in Seq(T), NEW m \in T
  PROVE  /\ Append(s, m) \in Seq(T)
         /\ Len(s) \in Nat /\ Len(Append(s, m)) = Len(s) + 1
         /\ \A n \in 1 .. Len(s) : Append(s, m)[n] = s[n]
         /\ Append(s, m)[Len(s) + 1] = m
  OBVIOUS

(* Two sequences joined.                                                    *)
Joined(u, s, t) ==
  /\ Len(s) \in Nat /\ Len(t) \in Nat /\ Len(u) = Len(s) + Len(t)
  /\ \A n \in 1 .. Len(s) : u[n] = s[n]
  /\ \A n \in 1 .. Len(t) : u[Len(s) + n] = t[n]
  /\ \A n \in Len(s) + 1 .. Len(s) + Len(t) : u[n] = t[n - Len(s)]

(* Where the elements of two sequences joined are.                          *)
LEMMA JoinAt ==
  ASSUME NEW T, NEW s \in Seq(T), NEW t \in Seq(T)
  PROVE  s \o t \in Seq(T) /\ Joined(s \o t, s, t)
  BY DEF Joined

(* Sequences with the same elements are the same.                           *)
LEMMA SameSeq ==
  ASSUME NEW S, NEW T, NEW s \in Seq(S), NEW t \in Seq(T), Len(s) = Len(t),
         \A n \in 1 .. Len(s) : s[n] = t[n]
  PROVE  s = t
  OBVIOUS

(* A sequence flattened step by step.                                       *)
IsFlat(f, ss, n) ==
  f = [i \in 1 .. n |-> IF i = 1 THEN ss[i] ELSE f[i - 1] \o ss[i]]

(* There is such a function for every beginning of a sequence.              *)
LEMMA FlatExists ==
  ASSUME NEW ss, Len(ss) \in Nat
  PROVE  \E f : IsFlat(f, ss, Len(ss))
<1> DEFINE S == {n \in Nat : \E f : IsFlat(f, ss, n)}
<1>1. 0 \in S
  <2>1. IsFlat([i \in 1 .. 0 |-> ss[i]], ss, 0)
    BY DEF IsFlat
  <2> QED
    BY <2>1
<1>2. ASSUME NEW n \in Nat, n \in S PROVE n + 1 \in S
  <2>1. PICK f : IsFlat(f, ss, n)
    BY <1>2
  <2>0. PICK last : last = IF n = 0 THEN ss[1] ELSE f[n] \o ss[n + 1]
    OBVIOUS
  <2> DEFINE g == [i \in 1 .. n + 1 |-> IF i <= n THEN f[i] ELSE last]
  <2>2. \A i \in 1 .. n : f[i] = IF i = 1 THEN ss[i] ELSE f[i - 1] \o ss[i]
    BY <2>1 DEF IsFlat
  <2>3. /\ g = [i \in 1 .. n + 1 |-> g[i]]
        /\ \A i \in 1 .. n : g[i] = f[i]
        /\ g[n + 1] = last
    OBVIOUS
  <2>4. ASSUME NEW i \in 1 .. n + 1
        PROVE  g[i] = IF i = 1 THEN ss[i] ELSE g[i - 1] \o ss[i]
    <3>1. CASE i = n + 1
      <4>1. CASE n = 0
        BY <2>0, <2>3, <3>1, <4>1
      <4>2. CASE n # 0
        <5>1. i # 1 /\ i - 1 = n /\ n \in 1 .. n
          BY <3>1, <4>2
        <5>2. g[i - 1] = f[n] /\ g[i] = f[n] \o ss[i]
          BY <2>0, <2>3, <3>1, <4>2, <5>1
        <5> QED
          BY <5>1, <5>2
      <4> QED
        BY <4>1, <4>2
    <3>2. CASE i # n + 1
      <4>1. i \in 1 .. n /\ (i # 1 => i - 1 \in 1 .. n)
        BY <3>2
      <4> HIDE DEF g
      <4> QED
        BY <2>2, <2>3, <4>1
    <3> QED
      BY <3>1, <3>2
  <2> HIDE DEF g
  <2>5. IsFlat(g, ss, n + 1)
    <3>1. [i \in 1 .. n + 1 |-> g[i]]
            = [i \in 1 .. n + 1 |-> IF i = 1 THEN ss[i] ELSE g[i - 1] \o ss[i]]
      BY <2>4
    <3> QED
      BY <2>3, <3>1 DEF IsFlat
  <2> QED
    BY <2>5
<1> HIDE DEF S
<1>3. Len(ss) \in S
  BY <1>1, <1>2, NatInduct
<1> QED
  BY <1>3 DEF S

(* What a flattened sequence of sequences is made of.                       *)
LEMMA FlattenIs ==
  ASSUME NEW T, NEW ss \in Seq(Seq(T))
  PROVE  /\ FlattenSeq(ss) \in Seq(T)
         /\ \A x : x \in Range(FlattenSeq(ss)) <=> \E i \in 1 .. Len(ss) : x \in Range(ss[i])
<1>0. Len(ss) \in Nat
  OBVIOUS
<1>1. CASE Len(ss) = 0
  <2>1. FlattenSeq(ss) = ss /\ ss = <<>>
    BY <1>1 DEF FlattenSeq
  <2> QED
    BY <2>1 DEF Range
<1>2. CASE Len(ss) # 0
  <2> DEFINE f == CHOOSE f : IsFlat(f, ss, Len(ss))
  <2>1. IsFlat(f, ss, Len(ss))
    BY <1>0, FlatExists
  <2>2. FlattenSeq(ss) = f[Len(ss)]
    BY <1>2 DEF FlattenSeq, IsFlat
  <2> HIDE DEF f
  <2>3. \A i \in 1 .. Len(ss) : f[i] = IF i = 1 THEN ss[i] ELSE f[i - 1] \o ss[i]
    BY <2>1 DEF IsFlat
  <2> DEFINE Good(n) == /\ f[n] \in Seq(T)
                        /\ \A x : x \in Range(f[n]) <=> \E i \in 1 .. n : x \in Range(ss[i])
             S == {n \in Nat : n + 1 \in 1 .. Len(ss) => Good(n + 1)}
  <2>4. \A i \in 1 .. Len(ss) : ss[i] \in Seq(T)
    OBVIOUS
  <2>5. 0 \in S
    <3>1. f[1] = ss[1] /\ ss[1] \in Seq(T)
      BY <1>0, <1>2, <2>3, <2>4
    <3>2. Good(1)
      BY <3>1
    <3> QED
      BY <3>2
  <2>6. ASSUME NEW n \in Nat, n \in S PROVE n + 1 \in S
    <3> SUFFICES ASSUME n + 1 + 1 \in 1 .. Len(ss) PROVE Good(n + 1 + 1)
      OBVIOUS
    <3>1. Good(n + 1) /\ n + 1 \in 1 .. Len(ss)
      BY <2>6, <1>0
    <3>2. f[n + 1 + 1] = f[n + 1] \o ss[n + 1 + 1]
      <4>1. n + 1 + 1 # 1 /\ (n + 1 + 1) - 1 = n + 1
        OBVIOUS
      <4> QED
        BY <2>3, <4>1
    <3>3. f[n + 1] \in Seq(T) /\ ss[n + 1 + 1] \in Seq(T)
      BY <3>1, <2>4
    <3>4. /\ f[n + 1] \o ss[n + 1 + 1] \in Seq(T)
          /\ \A x : x \in Range(f[n + 1] \o ss[n + 1 + 1])
                      <=> x \in Range(f[n + 1]) \/ x \in Range(ss[n + 1 + 1])
      <4> DEFINE s == f[n + 1]
                 t == ss[n + 1 + 1]
      <4>1. /\ s \o t \in Seq(T)
            /\ Len(s) \in Nat /\ Len(t) \in Nat /\ Len(s \o t) = Len(s) + Len(t)
            /\ \A m \in 1 .. Len(s) : (s \o t)[m] = s[m]
            /\ \A m \in 1 .. Len(t) : (s \o t)[Len(s) + m] = t[m]
            /\ \A m \in Len(s) + 1 .. Len(s) + Len(t) : (s \o t)[m] = t[m - Len(s)]
        BY <3>3, JoinAt, ZenonT(40) DEF Joined
      <4>2. s \in Seq(T) /\ t \in Seq(T)
        BY <3>3
      <4> HIDE DEF s, t
      <4>3. /\ DOMAIN s = 1 .. Len(s) /\ DOMAIN t = 1 .. Len(t)
            /\ DOMAIN (s \o t) = 1 .. Len(s) + Len(t)
        BY <4>1, <4>2
      <4>4. ASSUME NEW x, x \in Range(s) PROVE x \in Range(s \o t)
        <5>1. PICK m \in 1 .. Len(s) : x = s[m]
          BY <4>3, <4>4 DEF Range
        <5>2. m \in 1 .. Len(s) + Len(t) /\ (s \o t)[m] = x
          BY <4>1, <5>1
        <5> QED
          BY <5>2, <4>3 DEF Range
      <4>5. ASSUME NEW x, x \in Range(t) PROVE x \in Range(s \o t)
        <5>1. PICK m \in 1 .. Len(t) : x = t[m]
          BY <4>3, <4>5 DEF Range
        <5>2. Len(s) + m \in 1 .. Len(s) + Len(t) /\ (s \o t)[Len(s) + m] = x
          BY <4>1, <5>1
        <5> QED
          BY <5>2, <4>3 DEF Range
      <4>6. ASSUME NEW x, x \in Range(s \o t) PROVE x \in Range(s) \/ x \in Range(t)
        <5>1. PICK m \in 1 .. Len(s) + Len(t) : x = (s \o t)[m]
          BY <4>3, <4>6 DEF Range
        <5>2. CASE m <= Len(s)
          <6>1. m \in 1 .. Len(s) /\ x = s[m]
            BY <4>1, <5>1, <5>2
          <6> QED
            BY <6>1, <4>3 DEF Range
        <5>3. CASE m > Len(s)
          <6>1. m - Len(s) \in 1 .. Len(t) /\ x = t[m - Len(s)]
            BY <4>1, <5>1, <5>3
          <6> QED
            BY <6>1, <4>3 DEF Range
        <5> QED
          BY <4>1, <5>2, <5>3
      <4> QED
        BY <4>1, <4>4, <4>5, <4>6 DEF s, t
    <3>5. ASSUME NEW x
          PROVE  x \in Range(f[n + 1 + 1]) <=> \E i \in 1 .. n + 1 + 1 : x \in Range(ss[i])
      <4>1. x \in Range(f[n + 1 + 1]) <=> x \in Range(f[n + 1]) \/ x \in Range(ss[n + 1 + 1])
        BY <3>2, <3>4
      <4>2. x \in Range(f[n + 1]) <=> \E i \in 1 .. n + 1 : x \in Range(ss[i])
        BY <3>1
      <4>3. \A i : i \in 1 .. n + 1 + 1 <=> i \in 1 .. n + 1 \/ i = n + 1 + 1
        OBVIOUS
      <4> QED
        BY <4>1, <4>2, <4>3, Zenon
    <3> QED
      BY <3>2, <3>4, <3>5
  <2> HIDE DEF S
  <2>7. Len(ss) - 1 \in S
    <3>1. Len(ss) - 1 \in Nat
      BY <1>0, <1>2
    <3> QED
      BY <2>5, <2>6, <3>1, NatInduct
  <2>8. Good(Len(ss))
    <3>1. (Len(ss) - 1) + 1 = Len(ss) /\ Len(ss) \in 1 .. Len(ss)
      BY <1>0, <1>2
    <3> QED
      BY <2>7, <3>1 DEF S
  <2> QED
    BY <2>2, <2>8
<1> QED
  BY <1>1, <1>2

-----------------------------------------------------------------------------
(* An EVM node: types.                                                      *)

Rows == [block : Nat, logs : SUBSET Logs]
Messages ==
  [kind : {"data", "empty"}, level : Int, rows : Rows]
    \cup [kind : {"rollback"}, from : Int, to : Int]
BlockRecords == [level : Nat, full : BOOLEAN]
Notices == [block : Nat, log : Logs, removed : BOOLEAN]
LevelDatas == [block : Nat, events : SUBSET Logs, fetch : BOOLEAN]

(* The only kind of indexes.                                                *)
Ix == CHOOSE k \in kinds : TRUE
Single == "both_kinds" \notin Hazards

(* The level of a block, and the block of a LevelData.                      *)
Lv(b) == blocks[b].level
BlockOf(o) == objects[o].block

ChainTypes ==
  /\ blocks \in Seq(BlockRecords) /\ Len(blocks) <= MaxBlocks
  /\ chain \in Seq(Nat) /\ Len(chain) \in 1 .. MaxLevel
  /\ \A l \in 1 .. Len(chain) : chain[l] \in Blocks /\ Lv(chain[l]) = l
  /\ \A b \in Blocks : Lv(b) \in 1 .. MaxLevel
IndexTypes ==
  /\ queue \in [Kinds -> Seq(Messages)] /\ draining \in [Kinds -> BOOLEAN]
  /\ level \in [Kinds -> Int] /\ rows \in [Kinds -> [Levels -> Rows]] /\ syncLevel \in Int
ObjectTypes ==
  /\ objects \in Seq(LevelDatas) /\ levelData \in [1 .. MaxBlocks -> Nat]
  /\ \A o \in 1 .. Len(objects) : BlockOf(o) \in Blocks
  /\ \A b \in 1 .. MaxBlocks : levelData[b] # 0 =>
       levelData[b] \in 1 .. Len(objects) /\ BlockOf(levelData[b]) = b
FeedTypes ==
  /\ subscribed \in {"no", "asked", "stored", "torn", "yes", "deaf"}
  /\ heads \in [Kinds -> Seq(Nat)] /\ askedAt \in Int
  /\ \A n \in 1 .. Len(heads[Ix]) : heads[Ix][n] \in Blocks
  /\ logs \in Seq(Notices) /\ \A n \in 1 .. Len(logs) : logs[n].block \in Blocks
EmitterTypes ==
  /\ emitter \in Seq(Nat) /\ \A n \in 1 .. Len(emitter) : emitter[n] \in 1 .. Len(objects)
  /\ pc \in {"head", "data", "transactions", "forget"}
  /\ pc # "head" => current \in 1 .. Len(objects)
  /\ known \in 0 .. MaxLevel
EvmTypes ==
  /\ kinds = {Ix} /\ Ix \in EvmKinds
  /\ ChainTypes /\ IndexTypes /\ ObjectTypes /\ FeedTypes /\ EmitterTypes

(* What subscribes, and what waits for messages, leaves the rest alone.     *)
Asking == Subscribe \/ StoreSubscription \/ SetLevel \/ Watchdog

(* What it changes is the subscription, or the failure.                     *)
LEMMA AskingIs ==
  ASSUME Asking
  PROVE  /\ UNCHANGED <<blocks, chain, kinds, emitter, pc, current, queue, draining, level, rows>>
         /\ UNCHANGED <<heads, logs, objects, levelData, known>>
         /\ failure = "none" /\ failure' \in {failure, "watchdog"}
         /\ subscribed # "yes" \/ UNCHANGED <<subscribed, syncLevel>>
<1>1. CASE Subscribe
  BY <1>1 DEF Subscribe, Requested, Running, chainVars, emitterVars, indexVars, evmVars
<1>2. CASE StoreSubscription
  BY <1>2 DEF StoreSubscription, Running, chainVars, emitterVars, indexVars
<1>3. CASE SetLevel
  BY <1>3 DEF SetLevel, Running, chainVars, emitterVars, indexVars
<1>4. CASE Watchdog
  BY <1>4 DEF Watchdog, Running, chainVars, feedVars, emitterVars, indexVars, evmVars
<1> QED
  BY <1>1, <1>2, <1>3, <1>4 DEF Asking

(* The steps of an indexer of an EVM node.                                  *)
EvmStep ==
  \/ Extend \/ (\E to \in 0 .. MaxLevel : Reorg(to))
  \/ Disconnect \/ Crash \/ Asking \/ ReceiveLog \/ ReceiveHead(Ix)
  \/ EmitHead \/ EmitEvents \/ EmitTransactions \/ Forget
  \/ (Synchronize(Ix) \/ ProcessData(Ix) \/ ProcessRollback(Ix)) /\ UNCHANGED evmVars

(* They are the only ones.                                                  *)
LEMMA EvmSteps ==
  ASSUME kinds = {Ix}, Ix \in EvmKinds, pc \in {"head", "data", "transactions", "forget"},
         [Next]_vars
  PROVE  EvmStep \/ UNCHANGED <<nodeVars, evmVars>>
<1>1. /\ Websockets /\ ~ofSubstrate /\ ~ofPolled
      /\ \A k \in kinds : k = Ix
  BY DEF Websockets, ofSubstrate, ofPolled, EvmKinds
<1>2. CASE EvmNext
  BY <1>1, <1>2 DEF EvmNext, EvmStep, Websocket, Asking, Emitter
<1>3. CASE SubstrateNext
  <2>1. pc # "events"
    OBVIOUS
  <2> QED
    BY <1>1, <1>3, <2>1 DEF SubstrateNext, SubstrateTasks, SubstrateEmitter, Finalize,
       DisconnectSubstrate, CrashSubstrate, RefuseSubstrate, SubscribeFinalized, StoreId,
       SetSyncLevel, ReceiveFinalized, EmitFinalized, EmitBlockEvents
<1>4. CASE PolledNext
  BY <1>1, <1>4 DEF PolledNext, PolledTasks, Change, CrashPolled, Spawn, Poll, SynchronizePolled
<1>5. CASE \E k \in kinds : Process(k)
  <2>1. Process(Ix)
    BY <1>1, <1>5
  <2> QED
    BY <2>1 DEF Process, Index, EvmStep
<1>6. CASE UNCHANGED vars
  BY <1>6 DEF vars
<1> QED
  BY <1>2, <1>3, <1>4, <1>5, <1>6 DEF Next

(* The kinds stay.                                                          *)
LEMMA KindsStay ==
  ASSUME [Next]_vars
  PROVE  kinds' = kinds /\ Ix' = Ix
<1>1. kinds' = kinds
  <2>1. ASSUME EvmNext PROVE kinds' = kinds
    BY <2>1, AskingIs DEF EvmNext, Extend, Reorg, MintEvm, Mint, Disconnect, Disconnected, Crash,
       Restarted, Websocket, Asking, ReceiveLog, ReceiveHead, Notified, Emitter, EmitHead,
       EmitEvents, EmitTransactions, Forget, chainVars
  <2>2. ASSUME SubstrateNext PROVE kinds' = kinds
    BY <2>2 DEF SubstrateNext, SubstrateTasks, SubstrateEmitter, Finalize, Mint,
       DisconnectSubstrate, Disconnected, CrashSubstrate, Restarted, RefuseSubstrate, Refuse,
       SubscribeFinalized, Requested, StoreId, SetSyncLevel, ReceiveFinalized, Notified,
       EmitFinalized, EmitBlockEvents, chainVars
  <2>3. ASSUME PolledNext PROVE kinds' = kinds
    BY <2>3 DEF PolledNext, PolledTasks, Change, Mint, CrashPolled, Restarted, Spawn, Poll,
       SynchronizePolled, Synchronize, chainVars, nodeVars
  <2>4. ASSUME \E k \in kinds : Process(k) PROVE kinds' = kinds
    BY <2>4 DEF Process, Index, Synchronize, ProcessData, ProcessRollback, chainVars
  <2>5. ASSUME UNCHANGED vars PROVE kinds' = kinds
    BY <2>5 DEF vars, nodeVars, chainVars
  <2> QED
    BY <2>1, <2>2, <2>3, <2>4, <2>5 DEF Next
<1> QED
  BY <1>1 DEF Ix

(* At first.                                                                *)
LEMMA EvmTypesStart ==
  ASSUME Init, Single, ofEvm
  PROVE  EvmTypes
<1>1. kinds # EvmKinds /\ kinds \subseteq EvmKinds /\ kinds # {}
  <2>1. Init => NodeInit
    BY DEF Init
  <2>2. kinds \in ((SUBSET EvmKinds) \ {{}}) \cup {{k} : k \in Kinds \ EvmKinds}
    BY <2>1 DEF NodeInit
  <2>3. \A k \in Kinds \ EvmKinds : {k} # {}
    OBVIOUS
  <2> QED
    BY <2>1, <2>2, <2>3 DEF NodeInit, Single, ofEvm
<1>2. kinds = {Ix} /\ Ix \in EvmKinds
  <2>1. Ix \in kinds
    BY <1>1 DEF Ix
  <2> QED
    BY <1>1, <2>1 DEF EvmKinds
<1>3. blocks = <<[level |-> 1, full |-> TRUE]>> /\ chain = <<1>>
  BY DEF Init, NodeInit
<1>4. ChainTypes
  <2>1. Len(blocks) = 1 /\ Len(chain) = 1 /\ chain[1] = 1 /\ blocks[1].level = 1
    BY <1>3
  <2>2. blocks \in Seq(BlockRecords) /\ chain \in Seq(Nat)
    BY <1>3 DEF BlockRecords
  <2> QED
    BY <2>1, <2>2, NodeAssumption DEF ChainTypes, Blocks, Lv
<1>5. IndexTypes
  <2>1. NoRows \in Rows
    BY DEF NoRows, Rows
  <2>2. <<>> \in Seq(Messages)
    OBVIOUS
  <2> QED
    BY <2>1, <2>2 DEF IndexTypes, Init, NodeInit
<1>6. ObjectTypes
  <2>1. /\ objects = <<>> /\ levelData = [b \in 1 .. MaxBlocks |-> 0]
        /\ MaxBlocks \in Nat \ {0} /\ Len(blocks) = 1
    BY <1>3, NodeAssumption DEF Init, EvmInit
  <2>2. objects \in Seq(LevelDatas) /\ Len(objects) = 0
    BY <2>1
  <2>3. \A b \in 1 .. MaxBlocks : levelData[b] = 0
    BY <2>1
  <2> QED
    BY <2>1, <2>2, <2>3 DEF ObjectTypes
<1>7. FeedTypes
  <2>1. heads[Ix] = <<>>
    BY <1>2 DEF Init, NodeInit, Kinds
  <2> QED
    BY <2>1 DEF FeedTypes, Init, NodeInit, EvmInit, Notices
<1>8. EmitterTypes
  BY NodeAssumption DEF EmitterTypes, Init, NodeInit, EvmInit
<1> QED
  BY <1>2, <1>4, <1>5, <1>6, <1>7, <1>8 DEF EvmTypes

(* New blocks on top of the canonical one of level `to'.                    *)
Minted(to, contents) ==
  /\ Len(blocks') = Len(blocks) + Len(contents) /\ Len(chain') = to + Len(contents)
  /\ \A b \in 1 .. Len(blocks) : blocks'[b] = blocks[b]
  /\ \A n \in 1 .. Len(contents) :
       blocks'[Len(blocks) + n].level = to + n /\ blocks'[Len(blocks) + n].full = contents[n]
  /\ \A l \in 1 .. to : chain'[l] = chain[l]
  /\ \A n \in 1 .. Len(contents) : chain'[to + n] = Len(blocks) + n

(* They are.                                                                *)
LEMMA MintIs ==
  ASSUME ChainTypes, NEW to \in 0 .. Len(chain),
         NEW contents \in Seq(BOOLEAN), contents # <<>>, Mint(to, contents)
  PROVE  /\ Minted(to, contents) /\ ChainTypes'
         /\ Len(contents) \in Nat \ {0}
         /\ NewBlocks(contents) \in Seq(Nat) /\ Len(NewBlocks(contents)) = Len(contents)
         /\ \A n \in 1 .. Len(contents) : NewBlocks(contents)[n] = Len(blocks) + n
<1>1. Len(contents) \in Nat \ {0} /\ DOMAIN contents = 1 .. Len(contents)
      /\ \A n \in 1 .. Len(contents) : contents[n] \in BOOLEAN
  OBVIOUS
<1>2. Len(blocks) \in Nat /\ Len(chain) \in Nat /\ to \in Nat /\ MaxBlocks \in Nat
  BY NodeAssumption DEF ChainTypes
<1> DEFINE recs == [n \in 1 .. Len(contents) |-> [level |-> to + n, full |-> contents[n]]]
           first == SubSeq(chain, 1, to)
           new == NewBlocks(contents)
<1>3. /\ recs \in Seq(BlockRecords) /\ Len(recs) = Len(contents)
      /\ \A n \in 1 .. Len(contents) : recs[n].level = to + n /\ recs[n].full = contents[n]
  BY <1>1, <1>2 DEF BlockRecords
<1>4. /\ new \in Seq(Nat) /\ Len(new) = Len(contents)
      /\ \A n \in 1 .. Len(contents) : new[n] = Len(blocks) + n
  BY <1>1, <1>2 DEF NewBlocks
<1>5. first \in Seq(Nat) /\ Len(first) = to /\ \A l \in 1 .. to : first[l] = chain[l]
  <2>1. chain \in Seq(Nat)
    BY DEF ChainTypes
  <2> QED
    BY <1>2, <2>1
<1>6. /\ blocks' = blocks \o recs /\ chain' = first \o new
      /\ to + Len(contents) <= MaxLevel /\ Len(blocks) + Len(contents) <= MaxBlocks
  BY <1>1 DEF Mint
<1> HIDE DEF recs, first, new
<1>7. /\ blocks' \in Seq(BlockRecords) /\ Len(blocks') = Len(blocks) + Len(contents)
      /\ \A b \in 1 .. Len(blocks) : blocks'[b] = blocks[b]
      /\ \A n \in 1 .. Len(contents) : blocks'[Len(blocks) + n] = recs[n]
  <2>1. blocks \in Seq(BlockRecords)
    BY DEF ChainTypes
  <2>2. blocks \o recs \in Seq(BlockRecords) /\ Joined(blocks \o recs, blocks, recs)
    BY <1>3, <2>1, JoinAt
  <2> QED
    BY <1>3, <1>6, <2>2 DEF Joined
<1>8. /\ chain' \in Seq(Nat) /\ Len(chain') = to + Len(contents)
      /\ \A l \in 1 .. to : chain'[l] = chain[l]
      /\ \A n \in 1 .. Len(contents) : chain'[to + n] = new[n]
  <2>1. first \o new \in Seq(Nat) /\ Joined(first \o new, first, new)
    BY <1>4, <1>5, JoinAt
  <2> QED
    BY <1>4, <1>5, <1>6, <2>1 DEF Joined
<1>9. Minted(to, contents)
  BY <1>3, <1>4, <1>7, <1>8 DEF Minted
<1>10. ChainTypes'
  <2>1. MaxLevel \in Nat /\ Len(chain') \in 1 .. MaxLevel
    BY <1>1, <1>2, <1>6, <1>8, NodeAssumption
  <2>2. ASSUME NEW b \in 1 .. Len(blocks') PROVE blocks'[b].level \in 1 .. MaxLevel
    <3>1. CASE b \in 1 .. Len(blocks)
      BY <1>7, <3>1 DEF ChainTypes, Lv, Blocks
    <3>2. CASE b \notin 1 .. Len(blocks)
      <4>1. PICK n \in 1 .. Len(contents) : b = Len(blocks) + n
        <5>1. b - Len(blocks) \in 1 .. Len(contents) /\ b = Len(blocks) + (b - Len(blocks))
          BY <1>1, <1>2, <1>7, <3>2
        <5> QED
          BY <5>1
      <4>2. blocks'[b].level = to + n
        BY <1>9, <4>1 DEF Minted
      <4> QED
        BY <1>1, <1>2, <1>6, <2>1, <4>1, <4>2
    <3> QED
      BY <3>1, <3>2
  <2>3. ASSUME NEW l \in 1 .. Len(chain')
        PROVE  chain'[l] \in 1 .. Len(blocks') /\ blocks'[chain'[l]].level = l
    <3>1. CASE l \in 1 .. to
      <4>1. chain[l] \in 1 .. Len(blocks) /\ blocks[chain[l]].level = l
        <5>1. l \in 1 .. Len(chain)
          BY <1>2, <3>1
        <5> QED
          BY <5>1 DEF ChainTypes, Lv, Blocks
      <4> QED
        <5>1. blocks'[chain[l]] = blocks[chain[l]]
          BY <1>7, <4>1
        <5>2. chain'[l] = chain[l]
          BY <1>8, <3>1
        <5>3. Len(blocks') \in Nat /\ Len(blocks) \in Nat /\ Len(blocks) <= Len(blocks')
          <6>1. Len(blocks') = Len(blocks) + Len(contents)
            BY <1>7
          <6> QED
            BY <1>1, <1>2, <6>1
        <5> QED
          BY <4>1, <5>1, <5>2, <5>3
    <3>2. CASE l \notin 1 .. to
      <4>1. PICK n \in 1 .. Len(contents) : l = to + n
        <5>1. l - to \in 1 .. Len(contents) /\ l = to + (l - to)
          BY <1>1, <1>2, <1>8, <3>2
        <5> QED
          BY <5>1
      <4>2. chain'[l] = Len(blocks) + n
        BY <1>9, <4>1 DEF Minted
      <4>3. blocks'[chain'[l]].level = to + n
        BY <1>9, <4>1, <4>2 DEF Minted
      <4> QED
        BY <1>1, <1>2, <1>7, <4>1, <4>2, <4>3
    <3> QED
      BY <3>1, <3>2
  <2> QED
    BY <1>6, <1>7, <1>8, <2>1, <2>2, <2>3 DEF ChainTypes, Blocks, Lv
<1> QED
  BY <1>1, <1>4, <1>9, <1>10 DEF new

(* A function that is a sequence.                                           *)
LEMMA SeqIs ==
  ASSUME NEW T, NEW n \in Nat, NEW s, s = [i \in 1 .. n |-> s[i]],
         \A i \in 1 .. n : s[i] \in T
  PROVE  s \in Seq(T) /\ Len(s) = n
  OBVIOUS

(* The empty sequence.                                                      *)
LEMMA NoElements ==
  /\ \A T : <<>> \in Seq(T)
  /\ Len(<<>>) = 0 /\ Range(<<>>) = {}
<1>1. \A T : <<>> \in Seq(T)
  OBVIOUS
<1>2. Len(<<>>) = 0
  OBVIOUS
<1>3. Range(<<>>) = {}
  BY DEF Range
<1> QED
  BY <1>1, <1>2, <1>3

(* Ranges of sequences joined, and of one without its head.                 *)
LEMMA JoinRange ==
  ASSUME NEW T, NEW s \in Seq(T), NEW t \in Seq(T)
  PROVE  Range(s \o t) = Range(s) \cup Range(t)
<1>1. s \o t \in Seq(T) /\ Joined(s \o t, s, t)
  BY JoinAt
<1>2. /\ DOMAIN s = 1 .. Len(s) /\ DOMAIN t = 1 .. Len(t)
      /\ DOMAIN (s \o t) = 1 .. Len(s) + Len(t)
  BY <1>1 DEF Joined
<1>3. ASSUME NEW x \in Range(s) PROVE x \in Range(s \o t)
  <2>1. PICK m \in 1 .. Len(s) : x = s[m]
    BY <1>2 DEF Range
  <2>2. m \in 1 .. Len(s) + Len(t) /\ (s \o t)[m] = x
    BY <1>1, <2>1 DEF Joined
  <2> QED
    BY <2>2, <1>2 DEF Range
<1>4. ASSUME NEW x \in Range(t) PROVE x \in Range(s \o t)
  <2>1. PICK m \in 1 .. Len(t) : x = t[m]
    BY <1>2 DEF Range
  <2>2. Len(s) + m \in 1 .. Len(s) + Len(t) /\ (s \o t)[Len(s) + m] = x
    BY <1>1, <2>1 DEF Joined
  <2> QED
    BY <2>2, <1>2 DEF Range
<1>5. ASSUME NEW x \in Range(s \o t) PROVE x \in Range(s) \/ x \in Range(t)
  <2>1. PICK m \in 1 .. Len(s) + Len(t) : x = (s \o t)[m]
    BY <1>2 DEF Range
  <2>2. CASE m <= Len(s)
    <3>1. m \in 1 .. Len(s) /\ x = s[m]
      BY <1>1, <2>1, <2>2 DEF Joined
    <3> QED
      BY <3>1, <1>2 DEF Range
  <2>3. CASE m > Len(s)
    <3>1. m - Len(s) \in 1 .. Len(t) /\ x = t[m - Len(s)]
      BY <1>1, <2>1, <2>3 DEF Joined
    <3> QED
      BY <3>1, <1>2 DEF Range
  <2> QED
    BY <1>1, <2>2, <2>3 DEF Joined
<1> QED
  BY <1>3, <1>4, <1>5

(* The elements of a sequence are its range.                                *)
LEMMA RangeIs ==
  ASSUME NEW T, NEW s \in Seq(T)
  PROVE  /\ Range(s) \subseteq T
         /\ \A x : x \in Range(s) <=> \E n \in 1 .. Len(s) : s[n] = x
         /\ \A n \in 1 .. Len(s) : s[n] \in Range(s) /\ s[n] \in T
<1>1. DOMAIN s = 1 .. Len(s) /\ \A n \in 1 .. Len(s) : s[n] \in T
  OBVIOUS
<1> QED
  BY <1>1 DEF Range

(* Logs of blocks, some left out.                                           *)
LEMMA LogsFlattened ==
  ASSUME NEW N \in Nat, NEW ss, ss \in [1 .. N -> Seq(Notices)]
  PROVE  /\ FlattenSeq(ss) \in Seq(Notices)
         /\ \A x : x \in Range(FlattenSeq(ss)) <=> \E i \in 1 .. N : x \in Range(ss[i])
<1>1. ss \in Seq(Seq(Notices)) /\ Len(ss) = N
  OBVIOUS
<1> QED
  BY <1>1, FlattenIs

(* The notifications of a block.                                            *)
LEMMA LogsOfIs ==
  ASSUME NEW b \in Nat, NEW removed \in BOOLEAN
  PROVE  /\ LogsOf(b, removed) \in Seq(Notices)
         /\ \A x : x \in Range(LogsOf(b, removed))
                     <=> \E i \in Logs : x = [block |-> b, log |-> i, removed |-> removed]
<1> DEFINE s == [i \in 1 .. LogCount |-> [block |-> b, log |-> i, removed |-> removed]]
<1>1. LogsOf(b, removed) = s /\ DOMAIN s = Logs
  BY DEF LogsOf, Logs
<1>2. s \in Seq(Notices)
  BY DEF Notices, Logs, LogCount
<1> QED
  BY <1>1, <1>2 DEF Range

(* What a new branch does to the subscriptions.                             *)
Notice(b, i) == [block |-> b, log |-> i, removed |-> FALSE]
Told(to, contents) ==
  /\ heads' \in [Kinds -> Seq(Nat)]
  /\ heads'[Ix] = IF Announcing THEN heads[Ix] \o NewBlocks(contents) ELSE heads[Ix]
  /\ logs' \in Seq(Notices) /\ Range(logs) \subseteq Range(logs')
  /\ \A x \in Range(logs') : x \in Range(logs) \/ (x.block \in Blocks' /\ blocks'[x.block].full)
  /\ Ix = "events" /\ Announcing =>
       \A n \in 1 .. Len(contents) : contents[n] =>
         \A i \in Logs : Notice(Len(blocks) + n, i) \in Range(logs')
  /\ ~Announcing => logs' = logs

(* They are told so, and the types of the chain hold.                       *)
LEMMA AnnouncedIs ==
  ASSUME EvmTypes, NEW to \in 0 .. Len(chain),
         NEW contents \in Seq(BOOLEAN), contents # <<>>, MintEvm(to, contents)
  PROVE  Minted(to, contents) /\ ChainTypes' /\ Told(to, contents)
<1> DEFINE new == NewBlocks(contents)
<1>0. Mint(to, contents) /\ Announced(new) /\ kinds = {Ix} /\ Ix \in Kinds
  BY DEF MintEvm, EvmTypes, Kinds
<1>1. /\ Minted(to, contents) /\ ChainTypes' /\ Len(contents) \in Nat \ {0}
      /\ new \in Seq(Nat) /\ Len(new) = Len(contents)
      /\ \A n \in 1 .. Len(contents) : new[n] = Len(blocks) + n
  BY <1>0, MintIs DEF EvmTypes
<1> HIDE DEF new
<1>2. /\ heads \in [Kinds -> Seq(Nat)] /\ logs \in Seq(Notices)
      /\ Len(blocks) \in Nat /\ Len(chain) \in Nat
  BY DEF EvmTypes, FeedTypes, ChainTypes
<1>3. /\ heads' \in [Kinds -> Seq(Nat)]
      /\ heads'[Ix] = IF Announcing THEN heads[Ix] \o new ELSE heads[Ix]
  <2>1. \A k \in Kinds : heads[k] \o new \in Seq(Nat)
    BY <1>1, <1>2
  <2> QED
    BY <1>0, <1>2, <2>1 DEF Announced
<1>4. CASE ~("events" \in kinds /\ Announcing)
  <2>1. logs' = logs /\ ~(Ix = "events" /\ Announcing)
    BY <1>0, <1>4 DEF Announced
  <2> QED
    BY <1>1, <1>2, <1>3, <2>1 DEF Told, new
<1>5. CASE "events" \in kinds /\ Announcing
  <2> DEFINE gone == [n \in 1 .. Len(chain) |->
                        IF n > Len(chain') - Len(new) /\ blocks[chain[n]].full
                          THEN LogsOf(chain[n], TRUE) ELSE <<>>]
             come == [n \in 1 .. Len(new) |->
                        IF blocks'[new[n]].full THEN LogsOf(new[n], FALSE) ELSE <<>>]
  <2>1. logs' = (logs \o FlattenSeq(gone)) \o FlattenSeq(come)
    BY <1>0, <1>5 DEF Announced
  <2>2. gone \in [1 .. Len(chain) -> Seq(Notices)]
    <3>1. \A n \in 1 .. Len(chain) : chain[n] \in Nat
      BY DEF EvmTypes, ChainTypes
    <3>2. <<>> \in Seq(Notices)
      BY NoElements
    <3>3. \A n \in 1 .. Len(chain) : gone[n] \in Seq(Notices)
      <4> SUFFICES ASSUME NEW n \in 1 .. Len(chain) PROVE gone[n] \in Seq(Notices)
        OBVIOUS
      <4>1. gone[n] = LogsOf(chain[n], TRUE) \/ gone[n] = <<>>
        OBVIOUS
      <4>2. LogsOf(chain[n], TRUE) \in Seq(Notices)
        BY <3>1, LogsOfIs
      <4> HIDE DEF gone
      <4> QED
        BY <3>2, <4>1, <4>2
    <3>4. gone = [n \in 1 .. Len(chain) |-> gone[n]]
      OBVIOUS
    <3> HIDE DEF gone
    <3> QED
      BY <3>3, <3>4
  <2>3. come \in [1 .. Len(new) -> Seq(Notices)]
    <3>1. \A n \in 1 .. Len(new) : new[n] \in Nat
      BY <1>1
    <3>2. <<>> \in Seq(Notices)
      BY NoElements
    <3>3. \A n \in 1 .. Len(new) : come[n] \in Seq(Notices)
      <4> SUFFICES ASSUME NEW n \in 1 .. Len(new) PROVE come[n] \in Seq(Notices)
        OBVIOUS
      <4>1. come[n] = LogsOf(new[n], FALSE) \/ come[n] = <<>>
        OBVIOUS
      <4>2. LogsOf(new[n], FALSE) \in Seq(Notices)
        BY <3>1, LogsOfIs
      <4> HIDE DEF come
      <4> QED
        BY <3>2, <4>1, <4>2
    <3>4. come = [n \in 1 .. Len(new) |-> come[n]]
      OBVIOUS
    <3> HIDE DEF come
    <3> QED
      BY <3>3, <3>4
  <2>4. \A n \in 1 .. Len(chain) : \A x \in Range(gone[n]) :
          x.block = chain[n] /\ blocks[chain[n]].full
    <3> SUFFICES ASSUME NEW n \in 1 .. Len(chain), NEW x \in Range(gone[n])
                 PROVE  x.block = chain[n] /\ blocks[chain[n]].full
      OBVIOUS
    <3>1. gone[n] = LogsOf(chain[n], TRUE) /\ blocks[chain[n]].full
      <4>1. \/ gone[n] = LogsOf(chain[n], TRUE) /\ blocks[chain[n]].full
            \/ gone[n] = <<>>
        OBVIOUS
      <4>2. x \in Range(gone[n])
        OBVIOUS
      <4> HIDE DEF gone
      <4> QED
        BY <4>1, <4>2, NoElements
    <3>2. chain[n] \in Nat
      BY DEF EvmTypes, ChainTypes
    <3>3. \E i \in Logs : x = [block |-> chain[n], log |-> i, removed |-> TRUE]
      BY <3>1, <3>2, LogsOfIs
    <3> QED
      BY <3>1, <3>3
  <2>5. \A n \in 1 .. Len(new) : \A x :
          x \in Range(come[n])
            <=> (blocks'[new[n]].full /\ \E i \in Logs : x = Notice(new[n], i))
    <3> SUFFICES ASSUME NEW n \in 1 .. Len(new), NEW x
                 PROVE  x \in Range(come[n])
                          <=> (blocks'[new[n]].full /\ \E i \in Logs : x = Notice(new[n], i))
      OBVIOUS
    <3>1. new[n] \in Nat
      BY <1>1
    <3>2. CASE blocks'[new[n]].full
      <4>1. come[n] = LogsOf(new[n], FALSE)
        BY <3>2
      <4> QED
        BY <3>1, <3>2, <4>1, LogsOfIs DEF Notice
    <3>3. CASE ~blocks'[new[n]].full
      <4>1. come[n] = <<>>
        BY <3>3
      <4> HIDE DEF come
      <4> QED
        BY <3>3, <4>1, NoElements
    <3> QED
      BY <3>2, <3>3
  <2> HIDE DEF gone, come
  <2>6. /\ FlattenSeq(gone) \in Seq(Notices)
        /\ \A x : x \in Range(FlattenSeq(gone)) <=> \E i \in 1 .. Len(chain) : x \in Range(gone[i])
    BY <1>2, <2>2, LogsFlattened
  <2>7. /\ FlattenSeq(come) \in Seq(Notices)
        /\ \A x : x \in Range(FlattenSeq(come)) <=> \E i \in 1 .. Len(new) : x \in Range(come[i])
    <3>1. Len(new) \in Nat
      BY <1>1
    <3> QED
      BY <2>3, <3>1, LogsFlattened
  <2>8. /\ logs \o FlattenSeq(gone) \in Seq(Notices) /\ logs' \in Seq(Notices)
        /\ Range(logs') = Range(logs) \cup Range(FlattenSeq(gone)) \cup Range(FlattenSeq(come))
    <3>1. /\ logs \o FlattenSeq(gone) \in Seq(Notices)
          /\ Range(logs \o FlattenSeq(gone)) = Range(logs) \cup Range(FlattenSeq(gone))
      BY <1>2, <2>6, JoinAt, JoinRange
    <3>2. PICK s : s = logs \o FlattenSeq(gone)
      OBVIOUS
    <3>3. PICK t : t = FlattenSeq(come)
      OBVIOUS
    <3>4. s \in Seq(Notices) /\ t \in Seq(Notices)
      BY <2>7, <3>1, <3>2, <3>3
    <3>5. s \o t \in Seq(Notices) /\ Range(s \o t) = Range(s) \cup Range(t)
      BY <3>4, JoinAt, JoinRange
    <3>6. logs' = s \o t
      BY <2>1, <3>2, <3>3
    <3> QED
      BY <3>1, <3>2, <3>3, <3>5, <3>6
  <2>9. ASSUME NEW x \in Range(logs'), x \notin Range(logs)
        PROVE  x.block \in Blocks' /\ blocks'[x.block].full
    <3>1. CASE x \in Range(FlattenSeq(gone))
      <4>1. PICK n \in 1 .. Len(chain) : x \in Range(gone[n])
        BY <2>6, <3>1
      <4>2. x.block = chain[n] /\ blocks[chain[n]].full /\ chain[n] \in 1 .. Len(blocks)
        BY <2>4, <4>1 DEF EvmTypes, ChainTypes, Blocks
      <4>3. blocks'[chain[n]] = blocks[chain[n]] /\ chain[n] \in 1 .. Len(blocks')
        BY <1>1, <1>2, <4>2 DEF Minted
      <4> QED
        BY <4>2, <4>3 DEF Blocks
    <3>2. CASE x \in Range(FlattenSeq(come))
      <4>1. PICK n \in 1 .. Len(new) : x \in Range(come[n])
        BY <2>7, <3>2
      <4>2. x.block = new[n] /\ blocks'[new[n]].full
        BY <2>5, <4>1 DEF Notice
      <4>3. new[n] \in 1 .. Len(blocks')
        <5>1. n \in 1 .. Len(contents) /\ new[n] = Len(blocks) + n
          BY <1>1
        <5> QED
          BY <1>1, <1>2, <5>1 DEF Minted
      <4> QED
        BY <4>2, <4>3 DEF Blocks
    <3> QED
      BY <2>8, <2>9, <3>1, <3>2
  <2>10. ASSUME NEW n \in 1 .. Len(contents), contents[n], NEW i \in Logs
         PROVE  Notice(Len(blocks) + n, i) \in Range(logs')
    <3>1. n \in 1 .. Len(new) /\ new[n] = Len(blocks) + n
      BY <1>1
    <3>2. blocks'[new[n]].full
      BY <1>1, <2>10, <3>1 DEF Minted
    <3>3. Notice(new[n], i) \in Range(come[n])
      BY <2>5, <3>1, <3>2
    <3> QED
      BY <2>7, <2>8, <3>1, <3>3
  <2> QED
    BY <1>1, <1>3, <1>5, <2>8, <2>9, <2>10 DEF Told, new
<1> QED
  BY <1>4, <1>5

(* A LevelData is stored for a block.                                       *)
Filed(b, object) ==
  /\ objects' \in Seq(LevelDatas) /\ levelData' \in [1 .. MaxBlocks -> Nat]
  /\ Len(objects) \in Nat /\ Len(objects') \in Nat /\ Len(objects) <= Len(objects')
  /\ LevelDataOf(b) \in 1 .. Len(objects')
  /\ \A o \in 1 .. Len(objects) : objects'[o].block = objects[o].block
  /\ \A o \in 1 .. Len(objects) : o # LevelDataOf(b) => objects'[o] = objects[o]
  /\ objects'[LevelDataOf(b)] = object
  /\ \A o \in 1 .. Len(objects') : o \in 1 .. Len(objects) \/ o = LevelDataOf(b)
  /\ levelData'[b] = LevelDataOf(b)
  /\ \A c \in 1 .. MaxBlocks : c # b => levelData'[c] = levelData[c]

(* That is what storing it does.                                            *)
LEMMA StoreIs ==
  ASSUME ObjectTypes, ChainTypes, NEW b \in Blocks, NEW object \in LevelDatas,
         object.block = b, Store(b, object)
  PROVE  Filed(b, object)
<1>1. /\ objects \in Seq(LevelDatas) /\ levelData \in [1 .. MaxBlocks -> Nat]
      /\ Len(objects) \in Nat /\ Len(blocks) \in Nat /\ Len(blocks) <= MaxBlocks
      /\ MaxBlocks \in Nat
  BY NodeAssumption DEF ObjectTypes, ChainTypes
<1>2. b \in 1 .. MaxBlocks /\ levelData[b] \in Nat
  <2>1. b \in 1 .. MaxBlocks
    BY <1>1 DEF Blocks
  <2> QED
    BY <1>1, <2>1
<1>3. CASE levelData[b] = 0
  <2>1. /\ objects' = Append(objects, object)
        /\ LevelDataOf(b) = Len(objects) + 1
        /\ levelData' = [levelData EXCEPT ![b] = Len(objects) + 1]
    BY <1>3 DEF Store, LevelDataOf
  <2>2. /\ objects' \in Seq(LevelDatas) /\ Len(objects') = Len(objects) + 1
        /\ \A o \in 1 .. Len(objects) : objects'[o] = objects[o]
        /\ objects'[Len(objects) + 1] = object
    BY <1>1, <2>1, AppendAt
  <2>3. /\ levelData' \in [1 .. MaxBlocks -> Nat] /\ levelData'[b] = Len(objects) + 1
        /\ \A c \in 1 .. MaxBlocks : c # b => levelData'[c] = levelData[c]
    BY <1>1, <1>2, <2>1
  <2> QED
    BY <1>1, <2>1, <2>2, <2>3 DEF Filed
<1>4. CASE levelData[b] # 0
  <2>1. /\ objects' = [objects EXCEPT ![levelData[b]] = object]
        /\ LevelDataOf(b) = levelData[b]
        /\ levelData' = [levelData EXCEPT ![b] = levelData[b]]
    BY <1>4 DEF Store, LevelDataOf
  <2>2. levelData[b] \in 1 .. Len(objects) /\ objects[levelData[b]].block = b
    BY <1>2, <1>4 DEF ObjectTypes, BlockOf
  <2>3. /\ objects' \in Seq(LevelDatas) /\ Len(objects') = Len(objects)
        /\ \A o \in 1 .. Len(objects) : o # levelData[b] => objects'[o] = objects[o]
        /\ objects'[levelData[b]] = object
    BY <1>1, <2>1, <2>2
  <2>4. \A o \in 1 .. Len(objects) : objects'[o].block = objects[o].block
    BY <2>2, <2>3
  <2>5. /\ levelData' \in [1 .. MaxBlocks -> Nat] /\ levelData'[b] = levelData[b]
        /\ \A c \in 1 .. MaxBlocks : c # b => levelData'[c] = levelData[c]
    BY <1>1, <1>2, <2>1
  <2> QED
    BY <1>1, <2>1, <2>2, <2>3, <2>4, <2>5 DEF Filed
<1> QED
  BY <1>3, <1>4

(* What is stored of a block is a LevelData of it.                          *)
LEMMA StoredIs ==
  ASSUME ObjectTypes, NEW b \in 1 .. MaxBlocks
  PROVE  Stored(b) \in LevelDatas /\ Stored(b).block = b
<1>1. CASE levelData[b] = 0
  BY <1>1 DEF Stored, LevelDatas
<1>2. CASE levelData[b] # 0
  <2>1. /\ levelData[b] \in 1 .. Len(objects) /\ objects[levelData[b]].block = b
        /\ objects \in Seq(LevelDatas)
    BY <1>2 DEF ObjectTypes, BlockOf
  <2>2. objects[levelData[b]] \in LevelDatas
    BY <2>1
  <2> QED
    BY <1>2, <2>1, <2>2 DEF Stored
<1> QED
  BY <1>1, <1>2

(* The types hold of what is filed.                                         *)
LEMMA FiledTypes ==
  ASSUME ObjectTypes, ChainTypes, NEW b \in Blocks, NEW object \in LevelDatas,
         object.block = b, Filed(b, object), blocks' = blocks
  PROVE  /\ ObjectTypes'
         /\ \A o \in 1 .. Len(objects) : o \in 1 .. Len(objects')
<1>1. \A o \in 1 .. Len(objects) : o \in 1 .. Len(objects')
  BY DEF Filed
<1>2. ASSUME NEW o \in 1 .. Len(objects') PROVE objects'[o].block \in Blocks
  <2>1. CASE o \in 1 .. Len(objects)
    BY <2>1 DEF Filed, ObjectTypes, BlockOf
  <2>2. CASE o = LevelDataOf(b)
    BY <2>2 DEF Filed
  <2> QED
    BY <2>1, <2>2 DEF Filed
<1>3. ASSUME NEW c \in 1 .. MaxBlocks, levelData'[c] # 0
      PROVE  levelData'[c] \in 1 .. Len(objects') /\ objects'[levelData'[c]].block = c
  <2>1. CASE c = b
    BY <2>1 DEF Filed
  <2>2. CASE c # b
    <3>2. levelData'[c] = levelData[c]
      BY <2>2 DEF Filed
    <3>3. levelData[c] \in 1 .. Len(objects) /\ objects[levelData[c]].block = c
      BY <1>3, <3>2 DEF ObjectTypes, BlockOf
    <3> QED
      BY <1>1, <3>2, <3>3 DEF Filed
  <2> QED
    BY <2>1, <2>2
<1>4. Blocks' = Blocks
  BY DEF Blocks
<1> QED
  BY <1>1, <1>2, <1>3, <1>4 DEF ObjectTypes, BlockOf, Filed

(* A head is taken from the feed, and its LevelData queued.                 *)
HeadReceived(b, object) ==
  /\ heads[Ix] # <<>> /\ b = Head(heads[Ix]) /\ b \in Blocks
  /\ object \in LevelDatas /\ object.block = b /\ Filed(b, object)
  /\ object.events = Stored(b).events
  /\ object.fetch = (Stored(b).fetch \/ Ix = "transactions")
  /\ emitter' = Append(emitter, LevelDataOf(b))
  /\ heads' = [heads EXCEPT ![Ix] = Tail(@)]

(* That is what receiving a head does.                                      *)
LEMMA ReceiveHeadIs ==
  ASSUME EvmTypes, ReceiveHead(Ix)
  PROVE  \E b \in Blocks, object \in LevelDatas : HeadReceived(b, object)
<1> DEFINE b == Head(heads[Ix])
           object == [Stored(b) EXCEPT !.fetch = @ \/ Ix = "transactions"]
<1>1. /\ heads[Ix] # <<>> /\ heads' = [heads EXCEPT ![Ix] = Tail(@)]
      /\ Store(b, object) /\ emitter' = Append(emitter, LevelDataOf(b))
  BY DEF ReceiveHead
<1>2. heads[Ix] \in Seq(Nat)
  BY DEF EvmTypes, FeedTypes, Kinds
<1>3. b = heads[Ix][1] /\ b \in Nat /\ 1 \in 1 .. Len(heads[Ix])
  BY <1>1, <1>2, HeadTail
<1>4. b \in Blocks /\ b \in 1 .. MaxBlocks
  <2>1. b \in Blocks
    BY <1>3 DEF EvmTypes, FeedTypes
  <2>2. Len(blocks) \in Nat /\ Len(blocks) <= MaxBlocks /\ MaxBlocks \in Nat
    BY NodeAssumption DEF EvmTypes, ChainTypes
  <2> QED
    BY <2>1, <2>2 DEF Blocks
<1> HIDE DEF b
<1>5. Stored(b) \in LevelDatas /\ Stored(b).block = b
  BY <1>3, <1>4, StoredIs DEF EvmTypes
<1>6. /\ object \in LevelDatas /\ object.block = b /\ object.events = Stored(b).events
      /\ object.fetch = (Stored(b).fetch \/ Ix = "transactions")
  BY <1>5 DEF LevelDatas
<1> HIDE DEF object
<1>7. Filed(b, object)
  BY <1>1, <1>4, <1>6, StoreIs DEF EvmTypes
<1> QED
  BY <1>1, <1>4, <1>6, <1>7 DEF HeadReceived, b

(* So is a log.                                                             *)
LogReceived(b, object) ==
  /\ logs # <<>> /\ b = Head(logs).block /\ b \in Blocks
  /\ object \in LevelDatas /\ object.block = b /\ Filed(b, object)
  /\ object.events = Stored(b).events \cup Added(Head(logs))
  /\ object.fetch = Stored(b).fetch
  /\ logs' = Tail(logs)

(* That is what receiving a log does.                                       *)
LEMMA ReceiveLogIs ==
  ASSUME EvmTypes, ReceiveLog
  PROVE  \E b \in Blocks, object \in LevelDatas : LogReceived(b, object)
<1> DEFINE b == Head(logs).block
           object == [Stored(b) EXCEPT !.events = @ \cup Added(Head(logs))]
<1>1. logs # <<>> /\ logs' = Tail(logs) /\ Store(b, object)
  BY DEF ReceiveLog
<1>2. logs \in Seq(Notices)
  BY DEF EvmTypes, FeedTypes
<1>3. Head(logs) = logs[1] /\ Head(logs) \in Notices /\ 1 \in 1 .. Len(logs)
  BY <1>1, <1>2, HeadTail
<1>4. b \in Blocks /\ b \in 1 .. MaxBlocks /\ Added(Head(logs)) \subseteq Logs
  <2>1. b \in Blocks /\ b \in Nat /\ Added(Head(logs)) \subseteq Logs
    BY <1>3 DEF EvmTypes, FeedTypes, Notices, Added
  <2>2. Len(blocks) \in Nat /\ Len(blocks) <= MaxBlocks /\ MaxBlocks \in Nat
    BY NodeAssumption DEF EvmTypes, ChainTypes
  <2> QED
    BY <2>1, <2>2 DEF Blocks
<1> HIDE DEF b
<1>5. Stored(b) \in LevelDatas /\ Stored(b).block = b
  BY <1>4, StoredIs DEF EvmTypes
<1>6. /\ object \in LevelDatas /\ object.block = b
      /\ object.events = Stored(b).events \cup Added(Head(logs))
      /\ object.fetch = Stored(b).fetch
  BY <1>4, <1>5 DEF LevelDatas
<1> HIDE DEF object
<1>7. Filed(b, object)
  BY <1>1, <1>4, <1>6, StoreIs DEF EvmTypes
<1> QED
  BY <1>1, <1>4, <1>6, <1>7 DEF LogReceived, b

(* Messages.                                                                *)
LEMMA MessagesAre ==
  ASSUME ChainTypes
  PROVE  /\ \A b \in Blocks, found \in SUBSET Logs : DataMsg(b, found) \in Messages
         /\ \A b \in Blocks : EmptyMsg(b) \in Messages
         /\ \A from, to \in Int : RollbackMsg(from, to) \in Messages
<1>1. ASSUME NEW b \in Blocks PROVE b \in Nat /\ blocks[b].level \in Int
  <2>1. Len(blocks) \in Nat /\ Lv(b) \in 1 .. MaxLevel /\ MaxLevel \in Nat
    BY NodeAssumption DEF ChainTypes
  <2> QED
    BY <2>1 DEF Blocks, Lv
<1>2. NoRows \in Rows
  BY DEF NoRows, Rows
<1> QED
  BY <1>1, <1>2 DEF DataMsg, EmptyMsg, RollbackMsg, Messages, Rows

(* A message more, or less, in a queue.                                     *)
LEMMA QueueTypes ==
  ASSUME NEW q \in [Kinds -> Seq(Messages)], NEW k \in Kinds
  PROVE  /\ \A m \in Messages : [q EXCEPT ![k] = Append(@, m)] \in [Kinds -> Seq(Messages)]
         /\ q[k] # <<>> => [q EXCEPT ![k] = Tail(@)] \in [Kinds -> Seq(Messages)]
         /\ [q EXCEPT ![k] = <<>>] \in [Kinds -> Seq(Messages)]
<1>1. q[k] \in Seq(Messages)
  OBVIOUS
<1>2. \A m \in Messages : Append(q[k], m) \in Seq(Messages)
  BY <1>1
<1>3. q[k] # <<>> => Tail(q[k]) \in Seq(Messages)
  BY <1>1, HeadTail
<1> QED
  BY <1>2, <1>3, NoElements

(* The steps of an index keep the types.                                    *)
LEMMA IndexTypesKept ==
  ASSUME IndexTypes, ChainTypes, NEW k \in Kinds, \A b \in Blocks : b \in Nat,
         Synchronize(k) \/ ProcessData(k) \/ ProcessRollback(k)
  PROVE  IndexTypes'
<1>1. /\ queue \in [Kinds -> Seq(Messages)] /\ draining \in [Kinds -> BOOLEAN]
      /\ level \in [Kinds -> Int] /\ rows \in [Kinds -> [Levels -> Rows]] /\ syncLevel \in Int
  BY DEF IndexTypes
<1>2. NoRows \in Rows
  BY DEF NoRows, Rows
<1>3. \A l \in Levels : rows[k][l] \in Rows
  BY <1>1
<1>4. \A l \in Levels : Canonical(k, l) \in Rows
  <2> SUFFICES ASSUME NEW l \in Levels PROVE Canonical(k, l) \in Rows
    OBVIOUS
  <2>1. CASE l \in DOMAIN chain
    <3>1. chain[l] \in Nat
      BY <2>1 DEF ChainTypes
    <3>2. RowsOf(k, chain[l]) \in Rows
      BY <1>2, <3>1 DEF RowsOf, Rows
    <3> QED
      BY <2>1, <3>2 DEF Canonical
  <2>2. CASE l \notin DOMAIN chain
    BY <1>2, <2>2 DEF Canonical
  <2> QED
    BY <2>1, <2>2
<1>5. CASE Synchronize(k)
  <2>1. /\ queue' = [queue EXCEPT ![k] = <<>>] /\ level' = [level EXCEPT ![k] = syncLevel]
        /\ syncLevel' = syncLevel /\ draining' = draining
        /\ rows' = [rows EXCEPT ![k] = [l \in Levels |->
                  IF level[k] < l /\ l <= syncLevel THEN Canonical(k, l) ELSE rows[k][l]]]
    BY <1>5 DEF Synchronize, feedVars
  <2>2. queue' \in [Kinds -> Seq(Messages)]
    BY <1>1, <2>1, QueueTypes
  <2>3. [l \in Levels |->
            IF level[k] < l /\ l <= syncLevel THEN Canonical(k, l) ELSE rows[k][l]]
          \in [Levels -> Rows]
    BY <1>3, <1>4
  <2>4. rows' \in [Kinds -> [Levels -> Rows]]
    BY <1>1, <2>1, <2>3
  <2>5. level' \in [Kinds -> Int]
    BY <1>1, <2>1
  <2> QED
    BY <1>1, <2>1, <2>2, <2>4, <2>5 DEF IndexTypes
<1>6. ASSUME ProcessData(k) \/ ProcessRollback(k)
      PROVE  /\ queue' \in [Kinds -> Seq(Messages)] /\ draining' \in [Kinds -> BOOLEAN]
             /\ syncLevel' = syncLevel
             /\ Head(queue[k]) \in Messages /\ Head(queue[k]) = queue[k][1] /\ queue[k] # <<>>
  <2>1. /\ queue[k] # <<>> /\ Pop(k) /\ syncLevel' = syncLevel
    BY <1>6 DEF ProcessData, ProcessRollback, AtQueue, feedVars
  <2>2. queue[k] \in Seq(Messages)
    BY <1>1
  <2>3. queue' \in [Kinds -> Seq(Messages)]
    BY <1>1, <2>1, QueueTypes DEF Pop
  <2>4. draining' \in [Kinds -> BOOLEAN]
    BY <1>1, <2>1 DEF Pop
  <2> QED
    BY <2>1, <2>2, <2>3, <2>4, HeadTail
<1>7. CASE ProcessData(k)
  <2> DEFINE m == Head(queue[k])
  <2>1. m \in Messages /\ m.kind # "rollback"
    BY <1>6, <1>7 DEF ProcessData
  <2>2. m.level \in Int /\ m.rows \in Rows
    BY <2>1 DEF Messages
  <2>3. \/ level' = level /\ rows' = rows
        \/ /\ level' = [level EXCEPT ![k] = m.level]
           /\ rows' = [rows EXCEPT ![k][m.level] = m.rows]
    BY <1>7 DEF ProcessData
  <2> HIDE DEF m
  <2>4. level' \in [Kinds -> Int]
    BY <1>1, <2>2, <2>3
  <2>5. [rows EXCEPT ![k][m.level] = m.rows] \in [Kinds -> [Levels -> Rows]]
    <3>1. [rows[k] EXCEPT ![m.level] = m.rows] \in [Levels -> Rows]
      BY <1>1, <2>2
    <3>2. [rows EXCEPT ![k][m.level] = m.rows]
            = [rows EXCEPT ![k] = [rows[k] EXCEPT ![m.level] = m.rows]]
      OBVIOUS
    <3> QED
      BY <1>1, <3>1, <3>2
  <2> QED
    BY <1>1, <1>6, <1>7, <2>3, <2>4, <2>5 DEF IndexTypes
<1>8. CASE ProcessRollback(k)
  <2> DEFINE m == Head(queue[k])
  <2>1. m \in Messages /\ m.kind = "rollback"
    BY <1>6, <1>8 DEF ProcessRollback
  <2>2. m.to \in Int
    BY <2>1 DEF Messages
  <2>3. /\ level' = [level EXCEPT ![k] = IF m.to = 0 THEN @ ELSE m.to]
        /\ rows' = [rows EXCEPT ![k] = [l \in Levels |->
                     IF m.to < l /\ l <= m.from THEN NoRows ELSE rows[k][l]]]
    BY <1>8 DEF ProcessRollback
  <2> HIDE DEF m
  <2>4. level' \in [Kinds -> Int]
    BY <1>1, <2>2, <2>3
  <2>5. [l \in Levels |-> IF m.to < l /\ l <= m.from THEN NoRows ELSE rows[k][l]]
          \in [Levels -> Rows]
    BY <1>2, <1>3
  <2>6. rows' \in [Kinds -> [Levels -> Rows]]
    BY <1>1, <2>3, <2>5
  <2> QED
    BY <1>1, <1>6, <1>8, <2>4, <2>6 DEF IndexTypes
<1> QED
  BY <1>5, <1>7, <1>8

(* The numbers of blocks and the levels.                                    *)
LEMMA BlocksAre ==
  ASSUME ChainTypes
  PROVE  /\ Len(blocks) \in Nat /\ Len(chain) \in Nat /\ MaxLevel \in Nat /\ MaxBlocks \in Nat
         /\ \A b \in Blocks : b \in Nat /\ b \in 1 .. MaxBlocks /\ Lv(b) \in 1 .. MaxLevel
         /\ \A b \in Blocks : Lv(b) \in Nat
<1>1. /\ Len(blocks) \in Nat /\ Len(chain) \in Nat /\ MaxLevel \in Nat /\ MaxBlocks \in Nat
      /\ Len(blocks) <= MaxBlocks
  BY NodeAssumption DEF ChainTypes
<1>2. \A b \in Blocks : b \in Nat /\ b \in 1 .. MaxBlocks
  BY <1>1 DEF Blocks
<1> QED
  BY <1>1, <1>2 DEF ChainTypes

(* The types of the chain, and of what is filed, depend on nothing else.    *)
LEMMA ChainTypesStay ==
  ASSUME ChainTypes, blocks' = blocks, chain' = chain
  PROVE  ChainTypes' /\ Blocks' = Blocks /\ \A b : Lv(b)' = Lv(b)
  BY DEF ChainTypes, Blocks, Lv

(* Every step keeps the types: a new branch,                                *)
LEMMA MintTypes ==
  ASSUME EvmTypes, Ix' = Ix, Extend \/ \E to \in 0 .. MaxLevel : Reorg(to)
  PROVE  EvmTypes'
<1>1. PICK to \in 0 .. Len(chain), contents \in Seq(BOOLEAN) :
        contents # <<>> /\ MintEvm(to, contents)
  <2>1. Len(chain) \in Nat
    BY BlocksAre DEF EvmTypes
  <2>2. CASE Extend
    <3>1. PICK full \in BOOLEAN : MintEvm(Len(chain), <<full>>)
      BY <2>2 DEF Extend
    <3>2. <<full>> \in Seq(BOOLEAN) /\ <<full>> # <<>> /\ Len(chain) \in 0 .. Len(chain)
      BY <2>1
    <3> QED
      BY <3>1, <3>2
  <2>3. CASE \E to \in 0 .. MaxLevel : Reorg(to)
    <3>1. PICK to \in 0 .. MaxLevel : Reorg(to)
      BY <2>3
    <3>2. PICK contents \in BoundedSeq(BOOLEAN, MaxLevel) \ {<<>>} : MintEvm(to, contents)
      BY <3>1 DEF Reorg
    <3>3. contents \in Seq(BOOLEAN) /\ contents # <<>>
      BY <3>2, NodeAssumption DEF BoundedSeq, SeqOf
    <3>4. to \in 0 .. Len(chain)
      BY <2>1, <3>1 DEF Reorg
    <3> QED
      BY <3>2, <3>3, <3>4
  <2> QED
    BY <2>2, <2>3
<1>2. Minted(to, contents) /\ ChainTypes' /\ Told(to, contents)
  BY <1>1, AnnouncedIs
<1>3. /\ kinds' = kinds /\ subscribed' = subscribed /\ syncLevel' = syncLevel
      /\ UNCHANGED <<emitter, pc, current, queue, draining, level, rows, objects, levelData, known>>
  BY <1>1 DEF MintEvm, Mint, emitterVars, indexVars
<1>4. /\ \A b \in Blocks : b \in Blocks' /\ blocks'[b] = blocks[b] /\ Lv(b)' = Lv(b)
      /\ Len(contents) \in Nat \ {0} /\ NewBlocks(contents) \in Seq(Nat)
      /\ Len(NewBlocks(contents)) = Len(contents) /\ Len(blocks) \in Nat
      /\ \A n \in 1 .. Len(contents) : NewBlocks(contents)[n] = Len(blocks) + n
  <2>1. /\ Len(contents) \in Nat \ {0} /\ NewBlocks(contents) \in Seq(Nat)
        /\ Len(NewBlocks(contents)) = Len(contents)
        /\ \A n \in 1 .. Len(contents) : NewBlocks(contents)[n] = Len(blocks) + n
    BY <1>1, MintIs DEF EvmTypes, MintEvm
  <2>2. Len(blocks) \in Nat
    BY BlocksAre DEF EvmTypes
  <2> QED
    BY <1>2, <2>1, <2>2 DEF Minted, Blocks, Lv
<1>5. IndexTypes'
  BY <1>3 DEF EvmTypes, IndexTypes
<1>6. ObjectTypes'
  <2>1. ObjectTypes
    BY DEF EvmTypes
  <2> QED
    BY <1>3, <1>4, <2>1 DEF ObjectTypes, BlockOf
<1>7. FeedTypes'
  <2>1. /\ subscribed \in {"no", "asked", "stored", "torn", "yes", "deaf"} /\ Ix \in Kinds
        /\ askedAt \in Int /\ askedAt' = askedAt
        /\ heads[Ix] \in Seq(Nat) /\ \A n \in 1 .. Len(heads[Ix]) : heads[Ix][n] \in Blocks
        /\ logs \in Seq(Notices) /\ \A n \in 1 .. Len(logs) : logs[n].block \in Blocks
    BY <1>1 DEF EvmTypes, FeedTypes, Kinds, MintEvm
  <2>2. \A n \in 1 .. Len(heads'[Ix]) : heads'[Ix][n] \in Blocks'
    <3>1. CASE ~Announcing
      BY <1>2, <1>4, <2>1, <3>1 DEF Told
    <3>2. CASE Announcing
      <4>1. PICK new : new = NewBlocks(contents)
        OBVIOUS
      <4>2. heads'[Ix] = heads[Ix] \o new /\ Joined(heads[Ix] \o new, heads[Ix], new)
        BY <1>2, <1>4, <2>1, <3>2, <4>1, JoinAt DEF Told
      <4>3. \A n \in 1 .. Len(new) : new[n] \in Blocks'
        BY <1>2, <1>4, <4>1 DEF Minted, Blocks
      <4> SUFFICES ASSUME NEW n \in 1 .. Len(heads'[Ix]) PROVE heads'[Ix][n] \in Blocks'
        OBVIOUS
      <4>4. CASE n \in 1 .. Len(heads[Ix])
        BY <1>4, <2>1, <4>2, <4>4 DEF Joined
      <4>5. CASE n \notin 1 .. Len(heads[Ix])
        <5>1. n - Len(heads[Ix]) \in 1 .. Len(new) /\ heads'[Ix][n] = new[n - Len(heads[Ix])]
          BY <4>2, <4>5 DEF Joined
        <5> QED
          BY <4>3, <5>1
      <4> QED
        BY <4>4, <4>5
    <3> QED
      BY <3>1, <3>2
  <2>3. \A n \in 1 .. Len(logs') : logs'[n].block \in Blocks'
    <3> SUFFICES ASSUME NEW n \in 1 .. Len(logs') PROVE logs'[n].block \in Blocks'
      OBVIOUS
    <3>1. logs'[n] \in Range(logs')
      BY <1>2, RangeIs DEF Told
    <3>2. CASE logs'[n] \in Range(logs)
      <4>1. PICK i \in 1 .. Len(logs) : logs'[n] = logs[i]
        BY <2>1, <3>2, RangeIs
      <4> QED
        BY <1>4, <2>1, <4>1
    <3> QED
      BY <1>2, <3>1, <3>2 DEF Told
  <2> QED
    BY <1>2, <1>3, <2>1, <2>2, <2>3 DEF FeedTypes, Told
<1>8. EmitterTypes'
  BY <1>3 DEF EvmTypes, EmitterTypes
<1> QED
  BY <1>2, <1>3, <1>5, <1>6, <1>7, <1>8 DEF EvmTypes

(* what the Websocket task does,                                            *)
LEMMA WebsocketTypes ==
  ASSUME EvmTypes, Ix' = Ix,
         Disconnect \/ Crash \/ Asking \/ ReceiveLog \/ ReceiveHead(Ix)
  PROVE  EvmTypes'
<1>0. /\ ChainTypes /\ IndexTypes /\ ObjectTypes /\ FeedTypes /\ EmitterTypes
      /\ kinds = {Ix} /\ Ix \in EvmKinds /\ Ix \in Kinds
  BY DEF EvmTypes, Kinds
<1>1. CASE Disconnect
  <2>1. /\ UNCHANGED <<blocks, chain, kinds, emitter, pc, current, queue, draining, level, rows>>
        /\ UNCHANGED <<objects, levelData, known, askedAt>>
        /\ subscribed' \in {"no", "torn"} /\ logs' = <<>> /\ syncLevel' = 0
        /\ heads' = [k \in Kinds |-> <<>>]
    BY <1>1 DEF Disconnect, Disconnected, emitterVars, indexVars
  <2>2. ChainTypes' /\ Blocks' = Blocks
    BY <1>0, <2>1, ChainTypesStay
  <2>3. heads' \in [Kinds -> Seq(Nat)] /\ heads'[Ix] = <<>> /\ logs' \in Seq(Notices)
    BY <1>0, <2>1, NoElements
  <2> QED
    BY <1>0, <2>1, <2>2, <2>3, NoElements
       DEF EvmTypes, IndexTypes, ObjectTypes, FeedTypes, EmitterTypes, BlockOf
<1>2. CASE Crash
  <2>1. /\ UNCHANGED <<blocks, chain, kinds, level, rows>>
        /\ subscribed' = "no" /\ logs' = <<>> /\ syncLevel' = Len(chain)
        /\ heads' = [k \in Kinds |-> <<>>] /\ emitter' = <<>> /\ pc' = "head"
        /\ queue' = [k \in Kinds |-> <<>>] /\ draining' = [k \in Kinds |-> FALSE]
        /\ objects' = <<>> /\ levelData' = [b \in 1 .. MaxBlocks |-> 0] /\ known' = 0
        /\ askedAt' = 0
    BY <1>2 DEF Crash, Restarted
  <2>2. ChainTypes' /\ Blocks' = Blocks /\ Len(chain) \in Int /\ MaxLevel \in Nat
    BY <1>0, <2>1, ChainTypesStay, BlocksAre
  <2>3. heads' \in [Kinds -> Seq(Nat)] /\ heads'[Ix] = <<>> /\ logs' \in Seq(Notices)
    BY <1>0, <2>1, NoElements
  <2>4. queue' \in [Kinds -> Seq(Messages)] /\ draining' \in [Kinds -> BOOLEAN]
    BY <2>1, NoElements
  <2>5. /\ objects' \in Seq(LevelDatas) /\ Len(objects') = 0
        /\ emitter' \in Seq(Nat) /\ Len(emitter') = 0
        /\ levelData' \in [1 .. MaxBlocks -> Nat] /\ \A b \in 1 .. MaxBlocks : levelData'[b] = 0
    BY <2>1, NoElements
  <2>6. IndexTypes'
    BY <1>0, <2>1, <2>2, <2>4 DEF IndexTypes
  <2>7. ObjectTypes'
    BY <2>5 DEF ObjectTypes
  <2>8. FeedTypes'
    BY <1>0, <2>1, <2>3, NoElements DEF FeedTypes
  <2>9. EmitterTypes'
    BY <2>1, <2>2, <2>5 DEF EmitterTypes
  <2> QED
    BY <1>0, <2>1, <2>2, <2>6, <2>7, <2>8, <2>9 DEF EvmTypes
<1>3. CASE Asking
  <2>1. /\ UNCHANGED <<blocks, chain, kinds, emitter, pc, current, queue, draining, level, rows>>
        /\ UNCHANGED <<objects, levelData, known, heads, logs>>
    BY <1>3, AskingIs
  <2>2. ChainTypes' /\ Blocks' = Blocks /\ Len(chain) \in Int
    BY <1>0, <2>1, ChainTypesStay, BlocksAre
  <2>3. /\ subscribed' \in {"no", "asked", "stored", "torn", "yes", "deaf"}
        /\ askedAt' \in Int /\ syncLevel' \in Int
    <3>0. syncLevel \in Int /\ askedAt \in Int
          /\ subscribed \in {"no", "asked", "stored", "torn", "yes", "deaf"}
      BY <1>0 DEF IndexTypes, FeedTypes
    <3>1. CASE Subscribe
      BY <3>0, <3>1 DEF Subscribe, Requested, evmVars
    <3>2. CASE StoreSubscription
      BY <2>2, <3>0, <3>2 DEF StoreSubscription
    <3>3. CASE SetLevel
      BY <2>2, <3>0, <3>3 DEF SetLevel
    <3>4. CASE Watchdog
      BY <3>0, <3>4 DEF Watchdog, feedVars, evmVars
    <3> QED
      BY <1>3, <3>1, <3>2, <3>3, <3>4 DEF Asking
  <2> QED
    BY <1>0, <2>1, <2>2, <2>3
       DEF EvmTypes, IndexTypes, ObjectTypes, FeedTypes, EmitterTypes, BlockOf
<1>4. CASE ReceiveLog
  <2>1. /\ UNCHANGED <<blocks, chain, kinds, emitter, pc, current, queue, draining, level, rows>>
        /\ UNCHANGED <<known, heads, subscribed, syncLevel, askedAt>>
    BY <1>4 DEF ReceiveLog, Notified, chainVars, indexVars
  <2>2. PICK b \in Blocks, object \in LevelDatas : LogReceived(b, object)
    BY <1>4, ReceiveLogIs
  <2>3. ObjectTypes' /\ \A o \in 1 .. Len(objects) : o \in 1 .. Len(objects')
    BY <1>0, <2>1, <2>2, FiledTypes DEF LogReceived
  <2>4. ChainTypes' /\ Blocks' = Blocks
    BY <1>0, <2>1, ChainTypesStay
  <2>5. /\ logs' \in Seq(Notices)
        /\ \A n \in 1 .. Len(logs') : logs'[n].block \in Blocks
    <3>1. logs \in Seq(Notices) /\ logs # <<>> /\ logs' = Tail(logs)
      BY <1>0, <2>2 DEF FeedTypes, LogReceived
    <3>2. /\ logs' \in Seq(Notices) /\ Len(logs) \in Nat \ {0} /\ Len(logs') = Len(logs) - 1
          /\ \A n \in 1 .. Len(logs) - 1 : logs'[n] = logs[n + 1]
      BY <3>1, HeadTail
    <3> QED
      BY <1>0, <3>2 DEF FeedTypes
  <2> QED
    BY <1>0, <2>1, <2>3, <2>4, <2>5 DEF EvmTypes, IndexTypes, FeedTypes, EmitterTypes
<1>5. CASE ReceiveHead(Ix)
  <2>1. /\ UNCHANGED <<blocks, chain, kinds, pc, current, queue, draining, level, rows>>
        /\ UNCHANGED <<known, logs, subscribed, syncLevel, askedAt>>
    BY <1>5 DEF ReceiveHead, Notified, chainVars, indexVars
  <2>2. PICK b \in Blocks, object \in LevelDatas : HeadReceived(b, object)
    BY <1>5, ReceiveHeadIs
  <2>3. ObjectTypes' /\ \A o \in 1 .. Len(objects) : o \in 1 .. Len(objects')
    BY <1>0, <2>1, <2>2, FiledTypes DEF HeadReceived
  <2>4. ChainTypes' /\ Blocks' = Blocks
    BY <1>0, <2>1, ChainTypesStay
  <2>5. /\ heads' \in [Kinds -> Seq(Nat)]
        /\ \A n \in 1 .. Len(heads'[Ix]) : heads'[Ix][n] \in Blocks
    <3>1. heads[Ix] \in Seq(Nat) /\ heads[Ix] # <<>> /\ heads' = [heads EXCEPT ![Ix] = Tail(@)]
          /\ heads \in [Kinds -> Seq(Nat)]
      BY <1>0, <2>2 DEF FeedTypes, HeadReceived
    <3>2. heads'[Ix] = Tail(heads[Ix])
      BY <1>0, <3>1
    <3>3. /\ heads'[Ix] \in Seq(Nat) /\ Len(heads[Ix]) \in Nat \ {0}
          /\ Len(heads'[Ix]) = Len(heads[Ix]) - 1
          /\ \A n \in 1 .. Len(heads[Ix]) - 1 : heads'[Ix][n] = heads[Ix][n + 1]
      BY <3>1, <3>2, HeadTail
    <3>4. heads' \in [Kinds -> Seq(Nat)]
      BY <3>1, <3>2, <3>3
    <3>5. ASSUME NEW n \in 1 .. Len(heads'[Ix]) PROVE heads'[Ix][n] \in Blocks
      <4>1. n \in 1 .. Len(heads[Ix]) - 1 /\ n + 1 \in 1 .. Len(heads[Ix])
        BY <3>3
      <4>2. heads'[Ix][n] = heads[Ix][n + 1]
        BY <3>3, <4>1
      <4> QED
        BY <1>0, <4>1, <4>2 DEF FeedTypes
    <3> QED
      BY <3>4, <3>5
  <2>6. /\ emitter' \in Seq(Nat)
        /\ \A n \in 1 .. Len(emitter') : emitter'[n] \in 1 .. Len(objects')
    <3>1. emitter \in Seq(Nat) /\ emitter' = Append(emitter, LevelDataOf(b))
          /\ LevelDataOf(b) \in 1 .. Len(objects') /\ LevelDataOf(b) \in Nat
      BY <1>0, <2>2 DEF EmitterTypes, HeadReceived, Filed
    <3>2. /\ emitter' \in Seq(Nat) /\ Len(emitter) \in Nat /\ Len(emitter') = Len(emitter) + 1
          /\ \A n \in 1 .. Len(emitter) : emitter'[n] = emitter[n]
          /\ emitter'[Len(emitter) + 1] = LevelDataOf(b)
      BY <3>1, AppendAt
    <3>3. ASSUME NEW n \in 1 .. Len(emitter') PROVE emitter'[n] \in 1 .. Len(objects')
      <4>1. n \in 1 .. Len(emitter) \/ n = Len(emitter) + 1
        BY <3>2
      <4> QED
        BY <1>0, <2>3, <3>1, <3>2, <4>1 DEF EmitterTypes
    <3> QED
      BY <3>2, <3>3
  <2> QED
    BY <1>0, <2>1, <2>3, <2>4, <2>5, <2>6 DEF EvmTypes, IndexTypes, FeedTypes, EmitterTypes
<1> QED
  BY <1>1, <1>2, <1>3, <1>4, <1>5

(* and what the emitter task and the index do.                              *)
LEMMA EmitterTypesKept ==
  ASSUME EvmTypes, Ix' = Ix,
         \/ EmitHead \/ EmitEvents \/ EmitTransactions \/ Forget
         \/ (Synchronize(Ix) \/ ProcessData(Ix) \/ ProcessRollback(Ix)) /\ UNCHANGED evmVars
  PROVE  EvmTypes'
<1>0. /\ ChainTypes /\ IndexTypes /\ ObjectTypes /\ FeedTypes /\ EmitterTypes
      /\ kinds = {Ix} /\ Ix \in EvmKinds /\ Ix \in Kinds
  BY DEF EvmTypes, Kinds
<1>1. \A b \in Blocks : b \in Nat /\ Lv(b) \in 1 .. MaxLevel /\ Lv(b) \in Nat
  BY <1>0, BlocksAre
<1>2. MaxLevel \in Nat
  BY NodeAssumption
<1>3. CASE EmitHead
  <2> DEFINE o == Head(emitter)
             l == blocks[objects[o].block].level
             affected(k) == RollsBack(l) /\ RollbackTo(l) < level[k]
  <2>1. /\ UNCHANGED <<blocks, chain, kinds, draining, level, rows, objects, levelData, logs>>
        /\ UNCHANGED <<heads, subscribed, syncLevel, askedAt>>
        /\ emitter # <<>> /\ emitter' = Tail(emitter) /\ pc' = "data" /\ known' = l /\ current' = o
        /\ queue' = [k \in Kinds |-> IF k \in kinds /\ affected(k)
                       THEN Append(queue[k], RollbackMsg(RollbackFrom(l), RollbackTo(l)))
                       ELSE queue[k]]
    BY <1>3 DEF EmitHead, chainVars, feedVars
  <2>2. /\ o \in 1 .. Len(objects) /\ emitter' \in Seq(Nat)
        /\ \A n \in 1 .. Len(emitter') : emitter'[n] \in 1 .. Len(objects)
    <3>1. emitter \in Seq(Nat) /\ emitter # <<>>
      BY <1>0, <2>1 DEF EmitterTypes
    <3>2. /\ o = emitter[1] /\ Len(emitter) \in Nat \ {0}
          /\ emitter' \in Seq(Nat) /\ Len(emitter') = Len(emitter) - 1
          /\ \A n \in 1 .. Len(emitter) - 1 : emitter'[n] = emitter[n + 1]
      BY <2>1, <3>1, HeadTail
    <3>3. \A n \in 1 .. Len(emitter) : emitter[n] \in 1 .. Len(objects)
      BY <1>0 DEF EmitterTypes
    <3>4. ASSUME NEW n \in 1 .. Len(emitter') PROVE emitter'[n] \in 1 .. Len(objects)
      <4>1. n + 1 \in 1 .. Len(emitter) /\ emitter'[n] = emitter[n + 1]
        BY <3>2
      <4> QED
        BY <3>3, <4>1
    <3>5. o \in 1 .. Len(objects)
      <4>1. 1 \in 1 .. Len(emitter)
        BY <3>2
      <4> QED
        BY <3>2, <3>3, <4>1
    <3> QED
      BY <3>2, <3>4, <3>5
  <2>3. l \in 1 .. MaxLevel
    BY <1>0, <1>1, <2>2 DEF ObjectTypes, BlockOf, Lv
  <2> HIDE DEF l, o
  <2>4. queue' \in [Kinds -> Seq(Messages)]
    <3>1. RollbackMsg(RollbackFrom(l), RollbackTo(l)) \in Messages
      <4>1. RollbackFrom(l) \in Int /\ RollbackTo(l) \in Int
        BY <1>0, <1>2, <2>3 DEF RollbackFrom, RollbackTo, EmitterTypes
      <4> QED
        BY <1>0, <4>1, MessagesAre
    <3>2. \A k \in Kinds : Append(queue[k], RollbackMsg(RollbackFrom(l), RollbackTo(l)))
                             \in Seq(Messages)
      BY <1>0, <3>1 DEF IndexTypes
    <3> HIDE DEF affected
    <3> QED
      BY <1>0, <2>1, <3>2 DEF IndexTypes
  <2>5. ChainTypes' /\ Blocks' = Blocks
    BY <1>0, <2>1, ChainTypesStay
  <2>6. IndexTypes' /\ ObjectTypes' /\ FeedTypes'
    BY <1>0, <2>1, <2>4, <2>5 DEF IndexTypes, ObjectTypes, FeedTypes, BlockOf
  <2>7. EmitterTypes'
    BY <1>2, <2>1, <2>2, <2>3 DEF EmitterTypes
  <2> QED
    BY <1>0, <2>1, <2>5, <2>6, <2>7 DEF EvmTypes
<1>4. CASE EmitEvents \/ EmitTransactions
  <2>1. /\ UNCHANGED <<blocks, chain, kinds, draining, level, rows, objects, levelData, logs>>
        /\ UNCHANGED <<heads, subscribed, syncLevel, askedAt, emitter, current, known>>
        /\ pc # "head" /\ pc' \in {"transactions", "forget"}
    BY <1>4 DEF EmitEvents, EmitTransactions, chainVars, feedVars, evmVars
  <2>2. current \in 1 .. Len(objects)
    BY <1>0, <2>1 DEF EmitterTypes
  <2>3. queue' \in [Kinds -> Seq(Messages)]
    <3>1. CASE queue' = queue
      BY <1>0, <3>1 DEF IndexTypes
    <3>2. CASE EmitEvents /\ queue' # queue
      <4>1. /\ queue' = [queue EXCEPT !["events"] =
                           Append(@, DataMsg(objects[current].block, objects[current].events))]
        BY <3>2 DEF EmitEvents, Push
      <4>2. objects[current].block \in Blocks /\ objects[current].events \in SUBSET Logs
        <5>1. objects \in Seq(LevelDatas) /\ objects[current].block \in Blocks
          BY <1>0, <2>2 DEF ObjectTypes, BlockOf
        <5>2. objects[current] \in LevelDatas
          BY <2>2, <5>1
        <5> QED
          BY <5>1, <5>2 DEF LevelDatas
      <4>3. DataMsg(objects[current].block, objects[current].events) \in Messages
        BY <1>0, <4>2, MessagesAre
      <4> QED
        BY <1>0, <4>1, <4>3, QueueTypes DEF IndexTypes, Kinds, EvmKinds
    <3>3. CASE EmitTransactions /\ queue' # queue
      <4>1. PICK l : l = blocks[objects[current].block].level
        OBVIOUS
      <4>2. /\ ~(l > Len(chain))
            /\ queue' = [queue EXCEPT !["transactions"] = Append(@, DataMsg(chain[l], {}))]
        BY <3>3, <4>1 DEF EmitTransactions, Push
      <4>3. l \in 1 .. MaxLevel
        BY <1>0, <1>1, <2>2, <4>1 DEF ObjectTypes, BlockOf, Lv
      <4>4. chain[l] \in Blocks
        BY <1>0, <4>2, <4>3 DEF ChainTypes
      <4>5. DataMsg(chain[l], {}) \in Messages
        BY <1>0, <4>4, MessagesAre
      <4> QED
        BY <1>0, <4>2, <4>5, QueueTypes DEF IndexTypes, Kinds, EvmKinds
    <3> QED
      BY <1>4, <3>1, <3>2, <3>3
  <2>4. ChainTypes' /\ Blocks' = Blocks
    BY <1>0, <2>1, ChainTypesStay
  <2> QED
    BY <1>0, <2>1, <2>2, <2>3, <2>4
       DEF EvmTypes, IndexTypes, ObjectTypes, FeedTypes, EmitterTypes, BlockOf
<1>5. CASE Forget
  <2>1. /\ UNCHANGED <<blocks, chain, kinds, draining, level, rows, objects, logs, queue>>
        /\ UNCHANGED <<heads, subscribed, syncLevel, askedAt, emitter, current, known>>
        /\ pc' = "head"
        /\ \/ levelData' = levelData
           \/ levelData' = [levelData EXCEPT ![objects[current].block] = 0]
    BY <1>5 DEF Forget, chainVars, feedVars, indexVars
  <2>2. ChainTypes' /\ Blocks' = Blocks
    BY <1>0, <2>1, ChainTypesStay
  <2>3. ObjectTypes'
    <3>1. /\ levelData \in [1 .. MaxBlocks -> Nat]
          /\ \A b \in 1 .. MaxBlocks : levelData[b] # 0 =>
               levelData[b] \in 1 .. Len(objects) /\ objects[levelData[b]].block = b
      BY <1>0 DEF ObjectTypes, BlockOf
    <3>2. /\ levelData' \in [1 .. MaxBlocks -> Nat]
          /\ \A b \in 1 .. MaxBlocks : levelData'[b] = levelData[b] \/ levelData'[b] = 0
      <4>1. PICK b \in 1 .. MaxBlocks : b = objects[current].block
        <5>1. current \in 1 .. Len(objects)
          BY <1>0, <1>5 DEF EmitterTypes, Forget
        <5>2. objects[current].block \in Blocks
          BY <1>0, <5>1 DEF ObjectTypes, BlockOf
        <5> QED
          BY <1>0, <5>2, BlocksAre
      <4>2. levelData' = levelData \/ levelData' = [levelData EXCEPT ![b] = 0]
        BY <2>1, <4>1
      <4>3. levelData \in [1 .. MaxBlocks -> Nat]
        BY <3>1
      <4>4. CASE levelData' = levelData
        BY <4>3, <4>4, Zenon
      <4>5. CASE levelData' = [levelData EXCEPT ![b] = 0]
        <5>1. /\ levelData' \in [1 .. MaxBlocks -> Nat]
              /\ \A c \in 1 .. MaxBlocks : levelData'[c] = IF c = b THEN 0 ELSE levelData[c]
          BY <4>3, <4>5
        <5> QED
          BY <5>1
      <4> QED
        BY <4>2, <4>4, <4>5
    <3> QED
      BY <1>0, <2>1, <2>2, <3>1, <3>2 DEF ObjectTypes, BlockOf
  <2> QED
    BY <1>0, <2>1, <2>2, <2>3 DEF EvmTypes, IndexTypes, FeedTypes, EmitterTypes
<1>6. CASE (Synchronize(Ix) \/ ProcessData(Ix) \/ ProcessRollback(Ix)) /\ UNCHANGED evmVars
  <2>1. /\ UNCHANGED <<blocks, chain, kinds, objects, levelData, logs, known>>
        /\ UNCHANGED <<heads, subscribed, syncLevel, askedAt, emitter, pc, current>>
    BY <1>6 DEF Synchronize, ProcessData, ProcessRollback, chainVars, feedVars, emitterVars, evmVars
  <2>2. ChainTypes' /\ Blocks' = Blocks
    BY <1>0, <2>1, ChainTypesStay
  <2>3. IndexTypes'
    BY <1>0, <1>1, <1>6, IndexTypesKept
  <2> QED
    BY <1>0, <2>1, <2>2, <2>3 DEF EvmTypes, ObjectTypes, FeedTypes, EmitterTypes, BlockOf
<1> QED
  BY <1>3, <1>4, <1>5, <1>6

(* So every step keeps them.                                                *)
LEMMA EvmTypesKept ==
  ASSUME EvmTypes, [Next]_vars
  PROVE  EvmTypes'
<1>1. Ix' = Ix
  BY KindsStay
<1>2. EvmStep \/ UNCHANGED <<nodeVars, evmVars>>
  BY EvmSteps DEF EvmTypes, EmitterTypes
<1>3. CASE EvmStep
  BY <1>1, <1>3, MintTypes, WebsocketTypes, EmitterTypesKept DEF EvmStep
<1>4. CASE UNCHANGED <<nodeVars, evmVars>>
  BY <1>1, <1>4 DEF EvmTypes, ChainTypes, IndexTypes, ObjectTypes, FeedTypes, EmitterTypes, BlockOf,
     Blocks, Lv, nodeVars, evmVars, chainVars, feedVars, emitterVars, indexVars
<1> QED
  BY <1>2, <1>3, <1>4

-----------------------------------------------------------------------------
(* An EVM node: what lies ahead of the emitter.                             *)

(* The blocks in its queue and those announced but not received yet.        *)
Ahead ==
  [n \in 1 .. Len(emitter) + Len(heads[Ix]) |->
     IF n <= Len(emitter) THEN BlockOf(emitter[n]) ELSE heads[Ix][n - Len(emitter)]]

(* The level the emitter knows, and those it will come to.                  *)
Path == [n \in 1 .. Len(Ahead) + 1 |-> IF n = 1 THEN known ELSE Lv(Ahead[n - 1])]

AheadFacts ==
  /\ Len(emitter) \in Nat /\ Len(heads[Ix]) \in Nat /\ heads[Ix] \in Seq(Nat)
  /\ Ahead \in Seq(Nat) /\ Len(Ahead) \in Nat
  /\ Len(Ahead) = Len(emitter) + Len(heads[Ix])
  /\ \A n \in 1 .. Len(emitter) : Ahead[n] = BlockOf(emitter[n])
  /\ \A n \in 1 .. Len(heads[Ix]) : Ahead[Len(emitter) + n] = heads[Ix][n]
  /\ \A n \in 1 .. Len(Ahead) : Ahead[n] \in Blocks
  /\ Path \in Seq(Nat) /\ Len(Path) = Len(Ahead) + 1
  /\ Path[1] = known /\ \A n \in 1 .. Len(Ahead) : Path[n + 1] = Lv(Ahead[n])
  /\ \A n \in 2 .. Len(Path) : Path[n] = Lv(Ahead[n - 1]) /\ n - 1 \in 1 .. Len(Ahead)
  /\ \A n \in 2 .. Len(Path) : Path[n] \in 1 .. MaxLevel

(* Both are sequences, of blocks and of their levels.                       *)
LEMMA AheadIs ==
  EvmTypes => AheadFacts
<1> SUFFICES ASSUME EvmTypes PROVE AheadFacts
  OBVIOUS
<1>1. /\ Len(emitter) \in Nat /\ heads[Ix] \in Seq(Nat) /\ Len(heads[Ix]) \in Nat
      /\ \A n \in 1 .. Len(emitter) : BlockOf(emitter[n]) \in Blocks
      /\ \A n \in 1 .. Len(heads[Ix]) : heads[Ix][n] \in Blocks
      /\ known \in Nat
      /\ \A b \in Blocks : b \in Nat /\ Lv(b) \in Nat /\ Lv(b) \in 1 .. MaxLevel
  <2>1. Ix \in Kinds
    BY DEF EvmTypes, Kinds
  <2>2. known \in 0 .. MaxLevel /\ MaxLevel \in Nat
    BY NodeAssumption DEF EvmTypes, EmitterTypes
  <2>3. \A b \in Blocks : b \in Nat /\ Lv(b) \in Nat /\ Lv(b) \in 1 .. MaxLevel
    BY BlocksAre DEF EvmTypes
  <2>4. /\ heads[Ix] \in Seq(Nat) /\ Len(heads[Ix]) \in Nat
        /\ \A n \in 1 .. Len(heads[Ix]) : heads[Ix][n] \in Blocks
    BY <2>1 DEF EvmTypes, FeedTypes
  <2>5. Len(emitter) \in Nat /\ \A n \in 1 .. Len(emitter) : BlockOf(emitter[n]) \in Blocks
    BY DEF EvmTypes, EmitterTypes, ObjectTypes
  <2> QED
    BY <2>2, <2>3, <2>4, <2>5
<1> DEFINE N == Len(emitter) + Len(heads[Ix])
<1>2. ASSUME NEW n \in 1 .. N
      PROVE  /\ Ahead[n] \in Blocks
             /\ Ahead[n] = IF n <= Len(emitter) THEN BlockOf(emitter[n])
                                                ELSE heads[Ix][n - Len(emitter)]
  <2>1. Ahead[n] = IF n <= Len(emitter) THEN BlockOf(emitter[n]) ELSE heads[Ix][n - Len(emitter)]
    BY DEF Ahead
  <2>2. CASE n <= Len(emitter)
    <3>1. n \in 1 .. Len(emitter)
      BY <1>1, <2>2
    <3> QED
      BY <1>1, <2>1, <2>2, <3>1
  <2>3. CASE ~(n <= Len(emitter))
    <3>1. n - Len(emitter) \in 1 .. Len(heads[Ix])
      BY <1>1, <2>3
    <3> QED
      BY <1>1, <2>1, <2>3, <3>1
  <2> QED
    BY <2>2, <2>3
<1>3. /\ Ahead = [n \in 1 .. N |-> Ahead[n]] /\ N \in Nat
      /\ \A n \in 1 .. N : Ahead[n] \in Nat
  <2>1. Ahead = [n \in 1 .. N |-> Ahead[n]]
    BY DEF Ahead
  <2>2. N \in Nat
    BY <1>1
  <2>3. \A n \in 1 .. N : Ahead[n] \in Nat
    <3> SUFFICES ASSUME NEW n \in 1 .. N PROVE Ahead[n] \in Nat
      OBVIOUS
    <3>1. Ahead[n] \in Blocks
      BY <1>2
    <3> QED
      BY <1>1, <3>1
  <2> QED
    BY <2>1, <2>2, <2>3
<1>4. Ahead \in Seq(Nat) /\ Len(Ahead) = N
  BY <1>3
<1>5. /\ \A n \in 1 .. Len(emitter) : Ahead[n] = BlockOf(emitter[n])
      /\ \A n \in 1 .. Len(heads[Ix]) : Ahead[Len(emitter) + n] = heads[Ix][n]
  <2>1. ASSUME NEW n \in 1 .. Len(emitter) PROVE Ahead[n] = BlockOf(emitter[n])
    <3>1. n \in 1 .. N /\ n <= Len(emitter)
      BY <1>1
    <3> QED
      BY <1>2, <3>1
  <2>2. ASSUME NEW n \in 1 .. Len(heads[Ix]) PROVE Ahead[Len(emitter) + n] = heads[Ix][n]
    <3>1. /\ Len(emitter) + n \in 1 .. N /\ ~(Len(emitter) + n <= Len(emitter))
          /\ (Len(emitter) + n) - Len(emitter) = n
      BY <1>1
    <3> QED
      BY <1>2, <3>1
  <2> QED
    BY <2>1, <2>2
<1>6. ASSUME NEW n \in 1 .. N + 1
      PROVE  /\ n = 1 => Path[n] = known
             /\ n # 1 => Path[n] = Lv(Ahead[n - 1]) /\ n - 1 \in 1 .. N /\ Path[n] \in 1 .. MaxLevel
             /\ Path[n] \in Nat
  <2>1. Path[n] = IF n = 1 THEN known ELSE Lv(Ahead[n - 1])
    BY <1>4 DEF Path
  <2>2. n # 1 => n - 1 \in 1 .. N
    BY <1>3
  <2> QED
    BY <1>1, <1>2, <2>1, <2>2
<1>7. Path = [n \in 1 .. N + 1 |-> Path[n]] /\ N + 1 \in Nat
  <2>1. Path = [n \in 1 .. N + 1 |-> Path[n]]
    BY <1>4 DEF Path
  <2> QED
    BY <1>3, <2>1
<1>8. Path \in Seq(Nat) /\ Len(Path) = N + 1
  <2>1. \A n \in 1 .. N + 1 : Path[n] \in Nat
    BY <1>6
  <2>2. PICK m \in Nat : m = N + 1
    BY <1>7
  <2>3. Path = [n \in 1 .. m |-> Path[n]] /\ \A n \in 1 .. m : Path[n] \in Nat
    BY <1>7, <2>1, <2>2
  <2>4. Path \in Seq(Nat) /\ Len(Path) = m
    BY <2>3, SeqIs
  <2> QED
    BY <2>2, <2>4
<1>9. Path[1] = known /\ \A n \in 1 .. N : Path[n + 1] = Lv(Ahead[n])
  <2>1. 1 \in 1 .. N + 1
    BY <1>3
  <2>2. ASSUME NEW n \in 1 .. N PROVE Path[n + 1] = Lv(Ahead[n])
    <3>1. n + 1 \in 1 .. N + 1 /\ n + 1 # 1 /\ (n + 1) - 1 = n
      BY <1>3
    <3> QED
      BY <1>6, <3>1
  <2> QED
    BY <1>6, <2>1, <2>2
<1>10. \A n \in 2 .. N + 1 : n \in 1 .. N + 1 /\ n # 1
  OBVIOUS
<1> QED
  BY <1>1, <1>2, <1>3, <1>4, <1>5, <1>6, <1>8, <1>9, <1>10 DEF AheadFacts

(* What is ahead stays the same,                                            *)
AheadStays == Ahead' = Ahead /\ Path' = Path

(* Which is so if its elements do.                                          *)
LEMMA StaysAhead ==
  ASSUME EvmTypes, EvmTypes', blocks' = blocks, known' = known,
         Len(Ahead') = Len(Ahead), \A n \in 1 .. Len(Ahead) : Ahead'[n] = Ahead[n]
  PROVE  AheadStays
<1>1. Ahead \in Seq(Nat) /\ Path \in Seq(Nat) /\ Len(Path) = Len(Ahead) + 1
  BY AheadIs DEF AheadFacts
<1>2. Ahead' \in Seq(Nat) /\ Path' \in Seq(Nat)
  <2>1. AheadFacts'
    BY AheadIs, PTL
  <2> QED
    BY <2>1 DEF AheadFacts
<1>3. Ahead' = Ahead
  BY <1>1, <1>2, SameSeq
<1>4. Path' = Path
  BY <1>3 DEF Path, Lv
<1> QED
  BY <1>3, <1>4 DEF AheadStays

(* grows by the new blocks,                                                 *)
AheadGrows(to, count) ==
  /\ Len(Ahead') = Len(Ahead) + count /\ Len(Path') = Len(Path) + count
  /\ \A n \in 1 .. Len(Ahead) : Ahead'[n] = Ahead[n]
  /\ \A n \in 1 .. count : Ahead'[Len(Ahead) + n] = Len(blocks) + n
  /\ \A n \in 1 .. Len(Path) : Path'[n] = Path[n]
  /\ \A n \in 1 .. count : Path'[Len(Path) + n] = to + n

(* loses its head, to which the emitter turns,                              *)
AheadMoves ==
  /\ Len(Ahead) >= 1 /\ Len(Ahead') = Len(Ahead) - 1 /\ Len(Path') = Len(Path) - 1
  /\ \A n \in 1 .. Len(Ahead) - 1 : Ahead'[n] = Ahead[n + 1]
  /\ \A n \in 1 .. Len(Path) - 1 : Path'[n] = Path[n + 1]
  /\ objects'[current'].block = Ahead[1] /\ known' = Path[2] /\ Path[2] = Lv(Ahead[1])

(* or loses what has not been received.                                     *)
AheadCut ==
  /\ Len(Ahead') = Len(emitter) /\ Len(Path') = Len(emitter) + 1 /\ Len(emitter) <= Len(Ahead)
  /\ \A n \in 1 .. Len(emitter) : Ahead'[n] = Ahead[n]
  /\ \A n \in 1 .. Len(emitter) + 1 : Path'[n] = Path[n]

(* A place past the end.                                                    *)
LEMMA PastEnd ==
  ASSUME NEW a \in Nat, NEW c \in Nat, NEW n \in 1 .. c
  PROVE  a + n \in 1 .. a + c /\ (a + 1) + n = (a + n) + 1
  OBVIOUS

(* A branch while somebody listens.                                         *)
LEMMA MintAhead ==
  ASSUME EvmTypes, EvmTypes', Ix' = Ix, Announcing,
         NEW to \in 0 .. Len(chain), NEW contents \in Seq(BOOLEAN), contents # <<>>,
         MintEvm(to, contents)
  PROVE  AheadGrows(to, Len(contents))
<1>1. AheadFacts /\ AheadFacts'
  BY AheadIs, PTL
<1>2. Minted(to, contents) /\ Told(to, contents)
  BY AnnouncedIs
<1>3. UNCHANGED <<emitter, objects, known>>
  BY DEF MintEvm, Mint, emitterVars
<1>4. /\ Len(contents) \in Nat \ {0} /\ NewBlocks(contents) \in Seq(Nat)
      /\ Len(NewBlocks(contents)) = Len(contents)
      /\ \A n \in 1 .. Len(contents) : NewBlocks(contents)[n] = Len(blocks) + n
      /\ Len(blocks) \in Nat /\ to \in Nat
  BY MintIs, BlocksAre DEF EvmTypes, MintEvm
<1> DEFINE new == NewBlocks(contents)
           e == Len(emitter)
           h == Len(heads[Ix])
           c == Len(contents)
<1>5. /\ Joined(heads'[Ix], heads[Ix], new) /\ heads'[Ix] = heads[Ix] \o new
  <2>1. heads[Ix] \in Seq(Nat) /\ heads'[Ix] = heads[Ix] \o new
    BY <1>1, <1>2 DEF Told, AheadFacts
  <2>2. new \in Seq(Nat)
    BY <1>4
  <2> HIDE DEF new
  <2>3. Joined(heads[Ix] \o new, heads[Ix], new)
    BY <2>1, <2>2, JoinAt
  <2> QED
    BY <2>1, <2>3
<1>6. /\ e \in Nat /\ h \in Nat /\ c \in Nat /\ Len(emitter') = e /\ Len(heads'[Ix]) = h + c
      /\ Len(Ahead) = e + h /\ Len(Ahead') = e + (h + c)
      /\ \A n \in 1 .. e : Ahead[n] = BlockOf(emitter[n]) /\ Ahead'[n] = BlockOf(emitter[n])
      /\ \A n \in 1 .. h : Ahead[e + n] = heads[Ix][n]
      /\ \A n \in 1 .. h + c : Ahead'[e + n] = heads'[Ix][n]
  <2>1. e \in Nat /\ h \in Nat /\ Len(Ahead) = e + h
    BY <1>1 DEF AheadFacts
  <2>2. c \in Nat /\ Len(heads'[Ix]) = h + c
    BY <1>4, <1>5 DEF Joined
  <2>3. Len(Ahead') = e + (h + c) /\ Len(emitter') = e
    BY <1>1, <1>3, <2>2 DEF AheadFacts
  <2>4. \A n \in 1 .. e : Ahead[n] = BlockOf(emitter[n])
    BY <1>1 DEF AheadFacts
  <2>5. \A n \in 1 .. e : Ahead'[n] = BlockOf(emitter[n])
    BY <1>1, <1>3 DEF AheadFacts, BlockOf
  <2>6. \A n \in 1 .. h : Ahead[e + n] = heads[Ix][n]
    BY <1>1 DEF AheadFacts
  <2>7. \A n \in 1 .. h + c : Ahead'[e + n] = heads'[Ix][n]
    BY <1>1, <1>3, <2>2 DEF AheadFacts
  <2> QED
    BY <2>1, <2>2, <2>3, <2>4, <2>5, <2>6, <2>7
<1> HIDE DEF new, e, h, c
<1>lengths. /\ e \in Nat /\ h \in Nat /\ c \in Nat
       /\ Len(Ahead) = e + h /\ Len(Ahead') = e + (h + c)
  BY <1>6
<1>7. ASSUME NEW n \in 1 .. Len(Ahead) PROVE Ahead'[n] = Ahead[n]
  <2>1. CASE n \in 1 .. e
    BY <1>6, <2>1
  <2>2. CASE n \notin 1 .. e
    <3>1. PICK m \in 1 .. h : n = e + m
      <4>1. n - e \in 1 .. h /\ n = e + (n - e)
        BY <1>lengths, <2>2
      <4> QED
        BY <4>1
    <3>2. heads'[Ix][m] = heads[Ix][m] /\ m \in 1 .. h + c
      BY <1>5, <1>6, <3>1 DEF Joined, h
    <3> QED
      BY <1>6, <3>1, <3>2
  <2> QED
    BY <2>1, <2>2
<1>8. ASSUME NEW n \in 1 .. c PROVE Ahead'[Len(Ahead) + n] = Len(blocks) + n
  <2>1. h + n \in 1 .. h + c /\ Len(Ahead) + n = e + (h + n)
    BY <1>lengths
  <2>2. heads'[Ix][h + n] = new[n]
    BY <1>4, <1>5, <1>6 DEF Joined, h, c, new
  <2>3. new[n] = Len(blocks) + n
    BY <1>4 DEF new, c
  <2> QED
    BY <1>6, <2>1, <2>2, <2>3
<1>9. /\ Len(Path) = Len(Ahead) + 1 /\ Len(Path') = Len(Ahead') + 1
      /\ Path[1] = known /\ Path'[1] = known
      /\ \A n \in 1 .. Len(Ahead) : Path[n + 1] = blocks[Ahead[n]].level /\ Ahead[n] \in Blocks
      /\ \A n \in 1 .. Len(Ahead') : Path'[n + 1] = blocks'[Ahead'[n]].level
  BY <1>1, <1>3 DEF AheadFacts, Lv
<1>10. ASSUME NEW n \in 1 .. Len(Path) PROVE Path'[n] = Path[n]
  <2>1. CASE n = 1
    BY <1>9, <2>1
  <2>2. CASE n # 1
    <3>1. PICK m \in 1 .. Len(Ahead) : n = m + 1
      <4>1. n - 1 \in 1 .. Len(Ahead) /\ n = (n - 1) + 1
        BY <1>6, <1>9, <2>2
      <4> QED
        BY <4>1
    <3>2. m \in 1 .. Len(Ahead') /\ Ahead'[m] = Ahead[m] /\ Ahead[m] \in 1 .. Len(blocks)
      BY <1>6, <1>7, <1>9, <3>1 DEF Blocks
    <3>3. blocks'[Ahead[m]] = blocks[Ahead[m]]
      BY <1>2, <3>2 DEF Minted
    <3> QED
      BY <1>9, <3>1, <3>2, <3>3
  <2> QED
    BY <2>1, <2>2
<1>11. ASSUME NEW n \in 1 .. c PROVE Path'[Len(Path) + n] = to + n
  <2>1. Len(Ahead) + n \in 1 .. Len(Ahead') /\ Len(Path) + n = (Len(Ahead) + n) + 1
    <3>1. Len(Ahead) \in Nat /\ n \in Nat
      BY <1>6
    <3>2. Len(Ahead') = Len(Ahead) + c
      BY <1>6
    <3>3. Len(Path) = Len(Ahead) + 1
      BY <1>9
    <3>4. Len(Ahead) + n \in 1 .. Len(Ahead) + c /\ (Len(Ahead) + 1) + n = (Len(Ahead) + n) + 1
      BY <1>6, <3>1, PastEnd
    <3> QED
      BY <3>2, <3>3, <3>4
  <2>2. Path'[Len(Path) + n] = blocks'[Len(blocks) + n].level
    BY <1>8, <1>9, <2>1
  <2>3. blocks'[Len(blocks) + n].level = to + n
    BY <1>2 DEF Minted, c
  <2> QED
    BY <2>2, <2>3
<1>12. Len(Ahead') = Len(Ahead) + c /\ Len(Path') = Len(Path) + c
  <2>1. Len(Path) = Len(Ahead) + 1 /\ Len(Path') = Len(Ahead') + 1
    BY <1>9
  <2> QED
    BY <1>lengths, <2>1
<1> QED
  BY <1>7, <1>8, <1>10, <1>11, <1>12 DEF AheadGrows, c

(* And while nobody does.                                                   *)
LEMMA MintUnheard ==
  ASSUME EvmTypes, EvmTypes', Ix' = Ix, ~Announcing,
         NEW to \in 0 .. Len(chain), NEW contents \in Seq(BOOLEAN), contents # <<>>,
         MintEvm(to, contents)
  PROVE  AheadStays
<1>1. AheadFacts /\ AheadFacts'
  BY AheadIs, PTL
<1>2. Minted(to, contents) /\ Told(to, contents)
  BY AnnouncedIs
<1>3. UNCHANGED <<emitter, objects, known>>
  BY DEF MintEvm, Mint, emitterVars
<1>4. Ahead' = Ahead
  BY <1>2, <1>3 DEF Ahead, Told, BlockOf
<1>5. Len(Path') = Len(Path) /\ Path \in Seq(Nat) /\ Path' \in Seq(Nat) /\ Len(Ahead) \in Nat
  BY <1>1, <1>4 DEF AheadFacts
<1>6. ASSUME NEW n \in 1 .. Len(Path) PROVE Path'[n] = Path[n]
  <2>1. CASE n = 1
    BY <1>1, <1>3, <2>1 DEF AheadFacts
  <2>2. CASE n # 1
    <3>1. n \in 2 .. Len(Path)
      BY <1>5, <2>2
    <3>2. Path[n] = blocks[Ahead[n - 1]].level /\ n - 1 \in 1 .. Len(Ahead)
      BY <1>1, <3>1 DEF AheadFacts, Lv
    <3>3. Path'[n] = blocks'[Ahead[n - 1]].level
      BY <1>1, <1>4, <1>5, <3>1 DEF AheadFacts, Lv
    <3>4. Ahead[n - 1] \in 1 .. Len(blocks)
      BY <1>1, <3>2 DEF AheadFacts, Blocks
    <3> QED
      BY <1>2, <3>2, <3>3, <3>4 DEF Minted
  <2> QED
    BY <2>1, <2>2
<1> QED
  BY <1>4, <1>5, <1>6, SameSeq DEF AheadStays

(* A head is received, or a log.                                            *)
LEMMA ReceiveAhead ==
  ASSUME EvmTypes, EvmTypes', Ix' = Ix, ReceiveLog \/ ReceiveHead(Ix)
  PROVE  AheadStays
<1>1. AheadFacts /\ AheadFacts'
  BY AheadIs, PTL
<1>2. \A n \in 1 .. Len(emitter) : emitter[n] \in 1 .. Len(objects)
  BY DEF EvmTypes, EmitterTypes
<1>3. CASE ReceiveLog
  <2>1. UNCHANGED <<blocks, heads, emitter, known>>
    BY <1>3 DEF ReceiveLog, Notified, chainVars
  <2>2. PICK b \in Blocks, object \in LevelDatas : LogReceived(b, object)
    BY <1>3, ReceiveLogIs
  <2>3. \A o \in 1 .. Len(objects) : objects'[o].block = objects[o].block
    BY <2>2 DEF LogReceived, Filed
  <2>4. Ahead' = Ahead
    <3>1. ASSUME NEW n \in 1 .. Len(Ahead) PROVE Ahead'[n] = Ahead[n]
      <4>1. Len(Ahead') = Len(Ahead)
        BY <1>1, <2>1 DEF AheadFacts
      <4>2. CASE n \in 1 .. Len(emitter)
        BY <1>1, <1>2, <2>1, <2>3, <4>2 DEF AheadFacts, BlockOf
      <4>3. CASE n \notin 1 .. Len(emitter)
        <5>1. PICK m \in 1 .. Len(heads[Ix]) : n = Len(emitter) + m
          <6>1. n - Len(emitter) \in 1 .. Len(heads[Ix]) /\ n = Len(emitter) + (n - Len(emitter))
            BY <1>1, <4>3 DEF AheadFacts
          <6> QED
            BY <6>1
        <5> QED
          BY <1>1, <2>1, <5>1 DEF AheadFacts
      <4> QED
        BY <4>2, <4>3
    <3>2. Ahead \in Seq(Nat) /\ Ahead' \in Seq(Nat) /\ Len(Ahead') = Len(Ahead)
      BY <1>1, <2>1 DEF AheadFacts
    <3> QED
      BY <3>1, <3>2, SameSeq
  <2> QED
    BY <2>1, <2>4 DEF AheadStays, Path, Lv
<1>4. CASE ReceiveHead(Ix)
  <2>1. UNCHANGED <<blocks, known>>
    BY <1>4 DEF ReceiveHead, Notified, chainVars
  <2>2. PICK b \in Blocks, object \in LevelDatas : HeadReceived(b, object)
    BY <1>4, ReceiveHeadIs
  <2>3. \A o \in 1 .. Len(objects) : objects'[o].block = objects[o].block
    BY <2>2 DEF HeadReceived, Filed
  <2>4. /\ emitter \in Seq(Nat) /\ heads[Ix] \in Seq(Nat) /\ heads[Ix] # <<>>
        /\ LevelDataOf(b) \in Nat /\ heads \in [Kinds -> Seq(Nat)] /\ Ix \in Kinds
        /\ emitter' = Append(emitter, LevelDataOf(b)) /\ heads'[Ix] = Tail(heads[Ix])
        /\ b = Head(heads[Ix]) /\ objects'[LevelDataOf(b)].block = b
    BY <2>2 DEF HeadReceived, Filed, EvmTypes, EmitterTypes, FeedTypes, Kinds
  <2>5. /\ Len(emitter) \in Nat /\ Len(emitter') = Len(emitter) + 1
        /\ \A n \in 1 .. Len(emitter) : emitter'[n] = emitter[n]
        /\ emitter'[Len(emitter) + 1] = LevelDataOf(b)
    BY <2>4, AppendAt
  <2>6. /\ b = heads[Ix][1] /\ Len(heads[Ix]) \in Nat \ {0}
        /\ Len(heads'[Ix]) = Len(heads[Ix]) - 1
        /\ \A n \in 1 .. Len(heads[Ix]) - 1 : heads'[Ix][n] = heads[Ix][n + 1]
    BY <2>4, HeadTail
  <2>7. /\ Len(Ahead') = Len(Ahead) /\ Ahead \in Seq(Nat) /\ Ahead' \in Seq(Nat)
        /\ Len(Ahead) = Len(emitter) + Len(heads[Ix])
    <3>1. /\ Ahead \in Seq(Nat) /\ Ahead' \in Seq(Nat)
          /\ Len(Ahead) = Len(emitter) + Len(heads[Ix])
          /\ Len(Ahead') = Len(emitter') + Len(heads'[Ix])
      BY <1>1 DEF AheadFacts
    <3>2. PICK e \in Nat, h \in Nat \ {0} : e = Len(emitter) /\ h = Len(heads[Ix])
      BY <2>5, <2>6
    <3>3. Len(emitter') = e + 1 /\ Len(heads'[Ix]) = h - 1 /\ Len(Ahead) = e + h
      BY <2>5, <2>6, <3>1, <3>2
    <3>4. Len(Ahead') = (e + 1) + (h - 1)
      BY <3>1, <3>3
    <3>5. (e + 1) + (h - 1) = e + h
      <4> HIDE <3>2
      <4> QED
        BY e \in Nat, h \in Nat
    <3>6. Len(Ahead') = Len(Ahead)
      BY <3>3, <3>4, <3>5
    <3> QED
      BY <3>1, <3>6
  <2>8. ASSUME NEW n \in 1 .. Len(Ahead) PROVE Ahead'[n] = Ahead[n]
    <3>1. CASE n \in 1 .. Len(emitter)
      <4>1. n \in 1 .. Len(emitter') /\ emitter'[n] = emitter[n]
        BY <2>5, <3>1
      <4>2. Ahead'[n] = objects'[emitter[n]].block /\ Ahead[n] = objects[emitter[n]].block
        BY <1>1, <3>1, <4>1 DEF AheadFacts, BlockOf
      <4> QED
        BY <1>2, <2>3, <3>1, <4>2
    <3>2. CASE n = Len(emitter) + 1
      <4>1. n \in 1 .. Len(emitter')
        BY <2>5, <3>2
      <4>2. Ahead'[n] = b
        BY <1>1, <2>4, <2>5, <3>2, <4>1 DEF AheadFacts, BlockOf
      <4>3. 1 \in 1 .. Len(heads[Ix])
        BY <2>6
      <4> QED
        BY <1>1, <2>6, <3>2, <4>2, <4>3 DEF AheadFacts
    <3>3. CASE n > Len(emitter) + 1
      <4>1. PICK m \in 1 .. Len(heads'[Ix]) : n = Len(emitter') + m
        <5>1. PICK e \in Nat, h \in Nat : /\ e = Len(emitter) /\ h = Len(heads[Ix])
                                         /\ n \in 1 .. e + h
          BY <2>5, <2>6, <2>7
        <5>2. n - e - 1 \in 1 .. h - 1 /\ n = e + 1 + (n - e - 1)
          BY <3>3, <5>1
        <5> QED
          BY <2>5, <2>6, <5>1, <5>2
      <4>2. Ahead'[n] = heads'[Ix][m]
        BY <1>1, <4>1 DEF AheadFacts
      <4>3. m + 1 \in 1 .. Len(heads[Ix]) /\ heads'[Ix][m] = heads[Ix][m + 1]
            /\ n = Len(emitter) + (m + 1)
        <5>1. m \in 1 .. Len(heads[Ix]) - 1 /\ n = (Len(emitter) + 1) + m
          BY <2>5, <2>6, <4>1
        <5>2. heads'[Ix][m] = heads[Ix][m + 1]
          BY <2>6, <5>1
        <5>3. PICK h \in Nat, e \in Nat : h = Len(heads[Ix]) /\ e = Len(emitter)
          BY <1>1 DEF AheadFacts
        <5>4. m + 1 \in 1 .. h /\ n = e + (m + 1)
          BY <5>1, <5>3
        <5> QED
          BY <5>2, <5>3, <5>4
      <4> QED
        BY <1>1, <4>2, <4>3 DEF AheadFacts
    <3> QED
      BY <2>5, <3>1, <3>2, <3>3
  <2>9. Ahead' = Ahead
    BY <2>7, <2>8, SameSeq
  <2> QED
    BY <2>1, <2>9 DEF AheadStays, Path, Lv
<1> QED
  BY <1>3, <1>4

(* The emitter takes a head.                                                *)
LEMMA EmitAhead ==
  ASSUME EvmTypes, EvmTypes', Ix' = Ix, EmitHead
  PROVE  AheadMoves
<1>1. AheadFacts /\ AheadFacts'
  BY AheadIs, PTL
<1>2. /\ UNCHANGED <<blocks, heads, objects>>
      /\ emitter # <<>> /\ emitter' = Tail(emitter) /\ current' = Head(emitter)
      /\ known' = blocks[objects[Head(emitter)].block].level
  BY DEF EmitHead, chainVars, feedVars
<1>3. emitter \in Seq(Nat)
  BY DEF EvmTypes, EmitterTypes
<1>4. /\ Len(emitter) \in Nat \ {0} /\ Head(emitter) = emitter[1]
      /\ Len(emitter') = Len(emitter) - 1
      /\ \A n \in 1 .. Len(emitter) - 1 : emitter'[n] = emitter[n + 1]
  BY <1>2, <1>3, HeadTail
<1>5. /\ Len(Ahead) = Len(emitter) + Len(heads[Ix]) /\ Len(heads[Ix]) \in Nat
      /\ Len(Ahead') = Len(Ahead) - 1 /\ Len(Ahead) \in Nat \ {0}
      /\ Len(Path) = Len(Ahead) + 1 /\ Len(Path') = Len(Path) - 1
  BY <1>1, <1>2, <1>4 DEF AheadFacts
<1>6. ASSUME NEW n \in 1 .. Len(Ahead) - 1 PROVE Ahead'[n] = Ahead[n + 1]
  <2>1. CASE n \in 1 .. Len(emitter')
    <3>1. n + 1 \in 1 .. Len(emitter) /\ emitter'[n] = emitter[n + 1]
      BY <1>4, <2>1
    <3>2. Ahead[n + 1] = objects[emitter[n + 1]].block
      BY <1>1, <3>1 DEF AheadFacts, BlockOf
    <3>3. Ahead'[n] = objects'[emitter'[n]].block
      BY <1>1, <2>1 DEF AheadFacts, BlockOf
    <3> QED
      BY <1>2, <3>1, <3>2, <3>3
  <2>2. CASE n \notin 1 .. Len(emitter')
    <3>1. PICK m \in 1 .. Len(heads[Ix]) : n = Len(emitter') + m
      <4>1. n - Len(emitter') \in 1 .. Len(heads[Ix]) /\ n = Len(emitter') + (n - Len(emitter'))
        BY <1>4, <1>5, <2>2
      <4> QED
        BY <4>1
    <3>2. n + 1 = Len(emitter) + m
      BY <1>4, <1>5, <3>1
    <3>3. Ahead[n + 1] = heads[Ix][m]
      BY <1>1, <3>1, <3>2 DEF AheadFacts
    <3>4. Ahead'[n] = heads[Ix][m]
      BY <1>1, <1>2, <3>1 DEF AheadFacts
    <3> QED
      BY <3>3, <3>4
  <2> QED
    BY <2>1, <2>2
<1>7. /\ objects'[current'].block = Ahead[1] /\ known' = Lv(Ahead[1]) /\ Path[2] = Lv(Ahead[1])
  <2>1. 1 \in 1 .. Len(emitter) /\ 1 \in 1 .. Len(Ahead)
    BY <1>4, <1>5
  <2>2. Ahead[1] = objects[emitter[1]].block
    BY <1>1, <2>1 DEF AheadFacts, BlockOf
  <2>3. Path[1 + 1] = Lv(Ahead[1])
    BY <1>1, <2>1 DEF AheadFacts
  <2> QED
    BY <1>2, <1>4, <2>2, <2>3 DEF Lv
<1>8. ASSUME NEW n \in 1 .. Len(Path) - 1 PROVE Path'[n] = Path[n + 1]
  <2>1. CASE n = 1
    BY <1>1, <1>7, <2>1 DEF AheadFacts
  <2>2. CASE n # 1
    <3>1. n \in 2 .. Len(Path') /\ n - 1 \in 1 .. Len(Ahead) - 1 /\ (n - 1) + 1 = n
      BY <1>5, <2>2
    <3>2. Path'[n] = blocks[Ahead'[n - 1]].level
      BY <1>1, <1>2, <3>1 DEF AheadFacts, Lv
    <3>3. Ahead'[n - 1] = Ahead[n]
      BY <1>6, <3>1
    <3>4. n \in 1 .. Len(Ahead)
      BY <1>5, <3>1
    <3> QED
      BY <1>1, <3>2, <3>3, <3>4 DEF AheadFacts, Lv
  <2> QED
    BY <2>1, <2>2
<1>9. Len(Ahead) >= 1 /\ Len(Ahead') = Len(Ahead) - 1 /\ Len(Path') = Len(Path) - 1
  BY <1>5
<1>10. known' = Path[2] /\ Path[2] = Lv(Ahead[1])
  BY <1>7
<1> QED
  BY <1>6, <1>7, <1>8, <1>9, <1>10, Zenon DEF AheadMoves

(* The connection is lost.                                                  *)
LEMMA CutAhead ==
  ASSUME EvmTypes, EvmTypes', Ix' = Ix, Disconnect
  PROVE  AheadCut
<1>1. AheadFacts /\ AheadFacts'
  BY AheadIs, PTL
<1>2. /\ UNCHANGED <<blocks, emitter, objects, known>> /\ heads' = [k \in Kinds |-> <<>>]
      /\ Ix \in Kinds
  BY DEF Disconnect, Disconnected, emitterVars, EvmTypes, Kinds
<1>3. Len(heads'[Ix]) = 0
  BY <1>2, NoElements
<1>4. /\ Len(emitter) \in Nat /\ Len(Ahead') = Len(emitter) /\ Len(Path') = Len(emitter) + 1
      /\ Len(emitter) <= Len(Ahead) /\ Len(Ahead) \in Nat
  BY <1>1, <1>2, <1>3 DEF AheadFacts
<1>5. \A n \in 1 .. Len(emitter) : Ahead'[n] = Ahead[n]
  BY <1>1, <1>2 DEF AheadFacts, BlockOf
<1>6. ASSUME NEW n \in 1 .. Len(emitter) + 1 PROVE Path'[n] = Path[n]
  <2>1. CASE n = 1
    BY <1>1, <1>2, <2>1 DEF AheadFacts
  <2>2. CASE n # 1
    <3>1. n \in 2 .. Len(Path') /\ n \in 2 .. Len(Path) /\ n - 1 \in 1 .. Len(emitter)
      <4>1. Len(Path) = Len(Ahead) + 1
        BY <1>1 DEF AheadFacts
      <4>2. n \in 2 .. Len(emitter) + 1
        BY <1>4, <2>2
      <4> QED
        BY <1>4, <4>1, <4>2
    <3>2. Path'[n] = blocks[Ahead'[n - 1]].level /\ Path[n] = blocks[Ahead[n - 1]].level
      BY <1>1, <1>2, <3>1 DEF AheadFacts, Lv
    <3> QED
      BY <1>5, <3>1, <3>2
  <2> QED
    BY <2>1, <2>2
<1> QED
  BY <1>4, <1>5, <1>6 DEF AheadCut

(* The process starts again.                                                *)
LEMMA CrashAhead ==
  ASSUME EvmTypes, EvmTypes', Ix' = Ix, Crash
  PROVE  Len(Ahead') = 0 /\ Len(Path') = 1 /\ Path'[1] = 0
<1>1. AheadFacts'
  BY AheadIs, PTL
<1>2. emitter' = <<>> /\ heads' = [k \in Kinds |-> <<>>] /\ Ix \in Kinds /\ known' = 0
  BY DEF Crash, Restarted, EvmTypes, Kinds
<1>3. Len(heads'[Ix]) = 0 /\ Len(emitter') = 0
  BY <1>2, NoElements
<1> QED
  BY <1>1, <1>2, <1>3 DEF AheadFacts

(* No other step changes what is ahead.                                     *)
LEMMA OthersAhead ==
  ASSUME EvmTypes, EvmTypes', Ix' = Ix,
         \/ Asking \/ EmitEvents \/ EmitTransactions \/ Forget
         \/ (Synchronize(Ix) \/ ProcessData(Ix) \/ ProcessRollback(Ix)) /\ UNCHANGED evmVars
         \/ UNCHANGED <<nodeVars, evmVars>>
  PROVE  AheadStays /\ UNCHANGED <<blocks, chain, objects, known>>
<1>1. UNCHANGED <<blocks, chain, emitter, heads, objects, known>>
  BY AskingIs DEF EmitEvents, EmitTransactions, Forget, Synchronize,
     ProcessData, ProcessRollback, chainVars, feedVars, emitterVars, evmVars, nodeVars
<1> QED
  BY <1>1 DEF AheadStays, Path, Ahead, Lv, BlockOf

-----------------------------------------------------------------------------
(* An EVM node: the steps, by what they do to what is ahead.                *)

(* A branch: one more block, or one that replaces blocks.                   *)
Branch(to, contents) ==
  /\ to \in 0 .. Len(chain) /\ contents \in Seq(BOOLEAN) /\ contents # <<>>
  /\ Len(contents) \in Nat \ {0}
  /\ MintEvm(to, contents)
  /\ \/ to = Len(chain)
     \/ /\ "genesis" \in Hazards \/ to > 0
        /\ "offline" \in Hazards \/ subscribed = "yes"
        /\ "stale_known" \in Hazards \/ Evidence >= Max({level[Ix], syncLevel})
        /\ "shorter" \in Hazards \/ to + Len(contents) >= Len(chain)

(* The node's own steps are branches.                                       *)
LEMMA BranchIs ==
  ASSUME EvmTypes, Extend \/ \E to \in 0 .. MaxLevel : Reorg(to)
  PROVE  \E to \in 0 .. Len(chain), contents \in Seq(BOOLEAN) : Branch(to, contents)
<1>1. Len(chain) \in Nat
  BY BlocksAre DEF EvmTypes
<1>2. CASE Extend
  <2>1. PICK full \in BOOLEAN : MintEvm(Len(chain), <<full>>)
    BY <1>2 DEF Extend
  <2>2. /\ <<full>> \in Seq(BOOLEAN) /\ <<full>> # <<>> /\ Len(<<full>>) \in Nat \ {0}
        /\ Len(chain) \in 0 .. Len(chain)
    BY <1>1
  <2> QED
    BY <2>1, <2>2 DEF Branch
<1>3. CASE \E to \in 0 .. MaxLevel : Reorg(to)
  <2>1. PICK to \in 0 .. MaxLevel : Reorg(to)
    BY <1>3
  <2>2. PICK contents \in BoundedSeq(BOOLEAN, MaxLevel) \ {<<>>} :
          /\ "shorter" \in Hazards \/ to + Len(contents) >= Len(chain)
          /\ MintEvm(to, contents)
    BY <2>1 DEF Reorg
  <2>3. contents \in Seq(BOOLEAN) /\ contents # <<>> /\ Len(contents) \in Nat \ {0}
    BY <2>2, NodeAssumption DEF BoundedSeq, SeqOf
  <2>4. to \in 0 .. Len(chain) /\ ("genesis" \in Hazards \/ to > 0)
        /\ ("offline" \in Hazards \/ subscribed = "yes")
    BY <1>1, <2>1 DEF Reorg
  <2>5. "stale_known" \in Hazards \/ Evidence >= Max({level[Ix], syncLevel})
    <3>1. Ix \in kinds
      BY DEF EvmTypes
    <3> QED
      BY <2>1, <3>1 DEF Reorg
  <2> QED
    BY <2>2, <2>3, <2>4, <2>5 DEF Branch
<1> QED
  BY <1>2, <1>3

(* What a branch is and leaves alone.                                       *)
LEMMA BranchFacts ==
  ASSUME EvmTypes, NEW to \in 0 .. Len(chain), NEW contents \in Seq(BOOLEAN),
         Branch(to, contents)
  PROVE  /\ Minted(to, contents) /\ Told(to, contents) /\ Len(contents) \in Nat \ {0}
         /\ UNCHANGED <<subscribed, syncLevel, emitter, pc, current, queue, draining, level, rows>>
         /\ UNCHANGED <<objects, levelData, known, failure>>
         /\ \A b \in Blocks : b \in Blocks' /\ blocks'[b] = blocks[b] /\ Lv(b)' = Lv(b)
         /\ Blocks' = 1 .. Len(blocks) + Len(contents) /\ Len(blocks) \in Nat
<1>1. Minted(to, contents) /\ Told(to, contents) /\ Len(contents) \in Nat \ {0}
  BY AnnouncedIs DEF Branch
<1>2. Len(blocks) \in Nat
  BY BlocksAre DEF EvmTypes
<1>3. MintEvm(to, contents)
  BY DEF Branch
<1>4. /\ UNCHANGED <<subscribed, syncLevel, emitter, pc, current, queue, draining, level, rows>>
      /\ UNCHANGED <<objects, levelData, known, failure>>
  BY <1>3 DEF MintEvm, Mint, emitterVars, indexVars
<1>5. \A b \in Blocks : b \in Blocks' /\ blocks'[b] = blocks[b] /\ Lv(b)' = Lv(b)
  BY <1>1, <1>2 DEF Minted, Blocks, Lv
<1>6. Blocks' = 1 .. Len(blocks) + Len(contents)
  BY <1>1 DEF Minted, Blocks
<1> QED
  BY <1>1, <1>2, <1>4, <1>5, <1>6

(* Steps that change neither the chain nor what is ahead.                   *)
Feeding == Asking \/ ReceiveLog \/ ReceiveHead(Ix)
Handling ==
  \/ EmitEvents \/ EmitTransactions \/ Forget
  \/ (Synchronize(Ix) \/ ProcessData(Ix) \/ ProcessRollback(Ix)) /\ UNCHANGED evmVars
  \/ UNCHANGED <<nodeVars, evmVars>>

StepKinds ==
  \/ \E to \in 0 .. Len(chain), contents \in Seq(BOOLEAN) :
       /\ Branch(to, contents)
       /\ IF Announcing THEN AheadGrows(to, Len(contents)) ELSE AheadStays
  \/ EmitHead /\ AheadMoves
  \/ Disconnect /\ AheadCut
  \/ Crash /\ Len(Ahead') = 0 /\ Len(Path') = 1 /\ Path'[1] = 0
  \/ (Feeding \/ Handling) /\ AheadStays /\ UNCHANGED <<blocks, chain, known>>

(* There are no others.                                                     *)
LEMMA StepsAhead ==
  ASSUME EvmTypes, [Next]_vars
  PROVE  EvmTypes' /\ Ix' = Ix /\ StepKinds
<1>1. EvmTypes' /\ Ix' = Ix
  BY EvmTypesKept, KindsStay
<1>2. EvmStep \/ UNCHANGED <<nodeVars, evmVars>>
  BY EvmSteps DEF EvmTypes, EmitterTypes
<1>3. CASE Extend \/ \E to \in 0 .. MaxLevel : Reorg(to)
  <2>1. PICK to \in 0 .. Len(chain), contents \in Seq(BOOLEAN) : Branch(to, contents)
    BY <1>3, BranchIs
  <2>2. contents # <<>> /\ MintEvm(to, contents)
    BY <2>1 DEF Branch
  <2>3. CASE ~Announcing
    BY <1>1, <2>1, <2>2, <2>3, MintUnheard DEF StepKinds
  <2>4. CASE Announcing
    BY <1>1, <2>1, <2>2, <2>4, MintAhead DEF StepKinds
  <2> QED
    BY <2>3, <2>4
<1>4. CASE EmitHead
  BY <1>1, <1>4, EmitAhead DEF StepKinds
<1>5. CASE Disconnect
  BY <1>1, <1>5, CutAhead DEF StepKinds
<1>6. CASE Crash
  BY <1>1, <1>6, CrashAhead DEF StepKinds
<1>7. CASE ReceiveLog \/ ReceiveHead(Ix)
  <2>1. AheadStays
    BY <1>1, <1>7, ReceiveAhead
  <2>2. UNCHANGED <<blocks, chain, known>>
    BY <1>7 DEF ReceiveLog, ReceiveHead, Notified, chainVars
  <2> QED
    BY <1>1, <1>7, <2>1, <2>2 DEF StepKinds, Feeding
<1>8. CASE \/ Asking \/ EmitEvents \/ EmitTransactions \/ Forget
           \/ (Synchronize(Ix) \/ ProcessData(Ix) \/ ProcessRollback(Ix)) /\ UNCHANGED evmVars
           \/ UNCHANGED <<nodeVars, evmVars>>
  <2>1. AheadStays /\ UNCHANGED <<blocks, chain, known>>
    BY <1>1, <1>8, OthersAhead
  <2> QED
    BY <1>1, <1>8, <2>1 DEF StepKinds, Feeding, Handling
<1> QED
  BY <1>1, <1>2, <1>3, <1>4, <1>5, <1>6, <1>7, <1>8 DEF EvmStep

-----------------------------------------------------------------------------
(* An EVM node: no level is lost, and no block comes twice.                 *)

(* The chain gets no shorter.                                               *)
Fits ==
  /\ \A b \in Blocks : Lv(b) <= Len(chain)
  /\ \A l \in 1 .. Len(chain) : \A m \in 1 .. Len(chain) : l < m => chain[l] < chain[m]
Longer == "shorter" \notin Hazards

(* A branch keeps the order of the chain and makes it no shorter,           *)
LEMMA BranchFits ==
  ASSUME EvmTypes, Fits, Longer, NEW to \in 0 .. Len(chain), NEW contents \in Seq(BOOLEAN),
         Branch(to, contents)
  PROVE  Fits' /\ Len(chain') >= Len(chain)
<1>1. /\ Minted(to, contents) /\ Len(contents) \in Nat \ {0}
      /\ \A b \in Blocks : b \in Blocks' /\ Lv(b)' = Lv(b)
      /\ Blocks' = 1 .. Len(blocks) + Len(contents) /\ Len(blocks) \in Nat
  BY BranchFacts
<1>2. /\ Len(chain) \in Nat /\ to \in Nat
      /\ \A l \in 1 .. Len(chain) : chain[l] \in Blocks
      /\ \A b \in Blocks : Lv(b) \in Nat
  BY BlocksAre DEF EvmTypes, ChainTypes
<1>3. Len(chain') = to + Len(contents) /\ Len(chain') >= Len(chain)
  <2>1. to + Len(contents) >= Len(chain)
    BY <1>1, <1>2 DEF Branch, Longer
  <2> QED
    BY <1>1, <2>1 DEF Minted
<1>4. ASSUME NEW b \in Blocks' PROVE Lv(b)' <= Len(chain')
  <2>1. CASE b \in Blocks
    <3>1. Lv(b) \in Nat /\ Lv(b) <= Len(chain) /\ Lv(b)' = Lv(b)
      BY <1>1, <1>2, <2>1 DEF Fits
    <3>2. Len(chain') \in Nat
      BY <1>1, <1>2, <1>3
    <3> QED
      BY <1>2, <1>3, <3>1, <3>2
  <2>2. CASE b \notin Blocks
    <3>1. PICK n \in 1 .. Len(contents) : b = Len(blocks) + n
      <4>1. b - Len(blocks) \in 1 .. Len(contents) /\ b = Len(blocks) + (b - Len(blocks))
        BY <1>1, <2>2 DEF Blocks
      <4> QED
        BY <4>1
    <3>2. Lv(b)' = to + n
      BY <1>1, <3>1 DEF Minted, Lv
    <3> QED
      BY <1>1, <1>2, <1>3, <3>1, <3>2
  <2> QED
    BY <2>1, <2>2
<1>5. ASSUME NEW l \in 1 .. Len(chain'), NEW m \in 1 .. Len(chain'), l < m
      PROVE  chain'[l] < chain'[m]
  <2>1. CASE m \in 1 .. to
    <3>1. /\ l \in 1 .. Len(chain) /\ m \in 1 .. Len(chain)
          /\ chain'[l] = chain[l] /\ chain'[m] = chain[m]
      <4>1. l \in 1 .. to
        BY <1>5, <2>1
      <4> QED
        BY <1>1, <1>2, <2>1, <4>1 DEF Minted
    <3> QED
      BY <1>5, <3>1 DEF Fits
  <2>2. CASE m \notin 1 .. to
    <3>1. PICK n \in 1 .. Len(contents) : m = to + n
      <4>1. m - to \in 1 .. Len(contents) /\ m = to + (m - to)
        BY <1>1, <1>2, <1>3, <2>2
      <4> QED
        BY <4>1
    <3>2. chain'[m] = Len(blocks) + n
      BY <1>1, <3>1 DEF Minted
    <3>3. CASE l \in 1 .. to
      <4>1. chain'[l] = chain[l] /\ chain[l] \in 1 .. Len(blocks)
        <5>1. l \in 1 .. Len(chain)
          BY <1>2, <3>3
        <5> QED
          BY <1>1, <1>2, <3>3, <5>1 DEF Minted, Blocks
      <4> QED
        BY <1>1, <3>1, <3>2, <4>1
    <3>4. CASE l \notin 1 .. to
      <4>1. PICK i \in 1 .. Len(contents) : l = to + i
        <5>1. l - to \in 1 .. Len(contents) /\ l = to + (l - to)
          BY <1>1, <1>2, <1>3, <3>4
        <5> QED
          BY <5>1
      <4>2. chain'[l] = Len(blocks) + i
        BY <1>1, <4>1 DEF Minted
      <4>3. i < n
        BY <1>2, <1>5, <3>1, <4>1
      <4> QED
        BY <1>1, <3>1, <3>2, <4>1, <4>2, <4>3
    <3> QED
      BY <3>3, <3>4
  <2> QED
    BY <2>1, <2>2
<1> QED
  BY <1>3, <1>4, <1>5 DEF Fits

(* and so does every step.                                                  *)
LEMMA FitsKept ==
  ASSUME EvmTypes, Fits, Longer, StepKinds
  PROVE  Fits' /\ Len(chain') >= Len(chain)
<1>1. CASE \E to \in 0 .. Len(chain), contents \in Seq(BOOLEAN) : Branch(to, contents)
  BY <1>1, BranchFits
<1>2. CASE blocks' = blocks /\ chain' = chain
  <2>1. Len(chain) \in Nat
    BY BlocksAre DEF EvmTypes
  <2> QED
    BY <1>2, <2>1 DEF Fits, Blocks, Lv
<1>3. CASE EmitHead \/ Disconnect \/ Crash
  <2>1. blocks' = blocks /\ chain' = chain
    BY <1>3 DEF EmitHead, chainVars, Disconnect, Disconnected, Crash, Restarted
  <2> QED
    BY <1>2, <2>1
<1> QED
  BY <1>1, <1>2, <1>3 DEF StepKinds

(* Blocks come in the order they were made, so each once, and its LevelData *)
(* is kept until the emitter has emitted it.                                *)
Rising ==
  /\ \A m \in 1 .. Len(Ahead) : \A n \in 1 .. Len(Ahead) : m < n => Ahead[m] < Ahead[n]
  /\ pc # "head" => \A n \in 1 .. Len(Ahead) : BlockOf(current) < Ahead[n]
Kept ==
  /\ \A n \in 1 .. Len(emitter) : levelData[BlockOf(emitter[n])] = emitter[n]
  /\ pc # "head" => levelData[BlockOf(current)] = current

(* Every step keeps the order of what is ahead.                             *)
LEMMA RisingKept ==
  ASSUME EvmTypes, EvmTypes', Ix' = Ix, Rising, StepKinds
  PROVE  Rising'
<1>1. /\ Len(Ahead) \in Nat /\ \A n \in 1 .. Len(Ahead) : Ahead[n] \in Blocks /\ Ahead[n] \in Nat
      /\ Len(Ahead') \in Nat
      /\ Len(blocks) \in Nat /\ \A b \in Blocks : b \in Nat /\ b <= Len(blocks)
  <2>1. AheadFacts /\ AheadFacts'
    BY AheadIs, PTL
  <2>2. Len(blocks) \in Nat
    BY BlocksAre DEF EvmTypes
  <2>3. \A b \in Blocks : b \in Nat /\ b <= Len(blocks)
    BY <2>2 DEF Blocks
  <2> QED
    BY <2>1, <2>2, <2>3 DEF AheadFacts
<1>2. /\ pc # "head" => current \in 1 .. Len(objects)
      /\ \A o \in 1 .. Len(objects) : BlockOf(o) \in Blocks
  BY DEF EvmTypes, EmitterTypes, ObjectTypes
<1>3. ASSUME AheadStays, pc' # "head" => pc # "head" /\ BlockOf(current)' = BlockOf(current)
      PROVE  Rising'
  BY <1>3 DEF Rising, AheadStays
<1>4. CASE \E to \in 0 .. Len(chain), contents \in Seq(BOOLEAN) :
             /\ Branch(to, contents)
             /\ IF Announcing THEN AheadGrows(to, Len(contents)) ELSE AheadStays
  <2>1. PICK to \in 0 .. Len(chain), contents \in Seq(BOOLEAN) :
          /\ Branch(to, contents)
          /\ IF Announcing THEN AheadGrows(to, Len(contents)) ELSE AheadStays
    BY <1>4
  <2>2. UNCHANGED <<pc, current, objects>> /\ Len(contents) \in Nat \ {0}
    BY <2>1, BranchFacts
  <2>3. CASE AheadStays
    BY <1>3, <2>2, <2>3 DEF BlockOf
  <2>4. CASE AheadGrows(to, Len(contents))
    <3>1. Len(Ahead') = Len(Ahead) + Len(contents)
      BY <2>4 DEF AheadGrows
    <3>2. ASSUME NEW n \in 1 .. Len(Ahead')
          PROVE  \/ n \in 1 .. Len(Ahead) /\ Ahead'[n] = Ahead[n]
                 \/ \E i \in 1 .. Len(contents) : n = Len(Ahead) + i /\ Ahead'[n] = Len(blocks) + i
      <4>1. CASE n \in 1 .. Len(Ahead)
        BY <2>4, <4>1 DEF AheadGrows
      <4>2. CASE n \notin 1 .. Len(Ahead)
        <5>1. PICK i \in 1 .. Len(contents) : n = Len(Ahead) + i
          <6>1. n - Len(Ahead) \in 1 .. Len(contents) /\ n = Len(Ahead) + (n - Len(Ahead))
            BY <1>1, <2>2, <3>1, <4>2
          <6> QED
            BY <6>1
        <5> QED
          BY <2>4, <5>1 DEF AheadGrows
      <4> QED
        BY <4>1, <4>2
    <3>3. ASSUME NEW m \in 1 .. Len(Ahead'), NEW n \in 1 .. Len(Ahead'), m < n
          PROVE  Ahead'[m] < Ahead'[n]
      <4>1. CASE n \in 1 .. Len(Ahead) /\ Ahead'[n] = Ahead[n]
        <5>1. m \in 1 .. Len(Ahead)
          BY <1>1, <3>3, <4>1
        <5>2. Ahead'[m] = Ahead[m]
          BY <2>4, <5>1 DEF AheadGrows
        <5> QED
          BY <3>3, <4>1, <5>1, <5>2 DEF Rising
      <4>2. CASE \E i \in 1 .. Len(contents) : n = Len(Ahead) + i /\ Ahead'[n] = Len(blocks) + i
        <5>1. PICK i \in 1 .. Len(contents) : n = Len(Ahead) + i /\ Ahead'[n] = Len(blocks) + i
          BY <4>2
        <5>2. CASE m \in 1 .. Len(Ahead) /\ Ahead'[m] = Ahead[m]
          <6>1. Ahead'[m] \in Nat /\ Ahead'[m] <= Len(blocks)
            BY <1>1, <5>2
          <6> QED
            BY <1>1, <5>1, <6>1
        <5>3. CASE \E j \in 1 .. Len(contents) : m = Len(Ahead) + j /\ Ahead'[m] = Len(blocks) + j
          <6>1. PICK j \in 1 .. Len(contents) : m = Len(Ahead) + j /\ Ahead'[m] = Len(blocks) + j
            BY <5>3
          <6>2. j < i
            BY <1>1, <3>3, <5>1, <6>1
          <6> QED
            BY <1>1, <5>1, <6>1, <6>2
        <5> QED
          BY <3>2, <5>2, <5>3
      <4> QED
        BY <3>2, <4>1, <4>2
    <3>4. ASSUME pc' # "head", NEW n \in 1 .. Len(Ahead') PROVE BlockOf(current)' < Ahead'[n]
      <4>1. pc # "head" /\ BlockOf(current)' = BlockOf(current)
        BY <2>2, <3>4 DEF BlockOf
      <4>2. BlockOf(current) \in Nat /\ BlockOf(current) <= Len(blocks)
        BY <1>1, <1>2, <4>1
      <4>3. CASE n \in 1 .. Len(Ahead) /\ Ahead'[n] = Ahead[n]
        BY <4>1, <4>3 DEF Rising
      <4>4. CASE \E i \in 1 .. Len(contents) : n = Len(Ahead) + i /\ Ahead'[n] = Len(blocks) + i
        BY <1>1, <4>1, <4>2, <4>4
      <4> QED
        BY <3>2, <4>3, <4>4
    <3> QED
      BY <3>3, <3>4 DEF Rising
  <2> QED
    BY <2>1, <2>3, <2>4
<1>5. CASE EmitHead /\ AheadMoves
  <2>1. /\ Len(Ahead) >= 1 /\ Len(Ahead') = Len(Ahead) - 1
        /\ \A n \in 1 .. Len(Ahead) - 1 : Ahead'[n] = Ahead[n + 1]
        /\ objects'[current'].block = Ahead[1]
    BY <1>5 DEF AheadMoves
  <2>2. ASSUME NEW n \in 1 .. Len(Ahead')
        PROVE  n + 1 \in 1 .. Len(Ahead) /\ Ahead'[n] = Ahead[n + 1] /\ 1 < n + 1
               /\ 1 \in 1 .. Len(Ahead)
    BY <1>1, <2>1
  <2>3. ASSUME NEW m \in 1 .. Len(Ahead'), NEW n \in 1 .. Len(Ahead'), m < n
        PROVE  Ahead'[m] < Ahead'[n]
    <3>1. m + 1 < n + 1
      BY <2>3
    <3> QED
      BY <2>2, <3>1 DEF Rising
  <2>4. ASSUME NEW n \in 1 .. Len(Ahead') PROVE BlockOf(current)' < Ahead'[n]
    BY <2>1, <2>2 DEF Rising, BlockOf
  <2> QED
    BY <2>3, <2>4 DEF Rising
<1>6. CASE Disconnect /\ AheadCut
  <2>1. /\ UNCHANGED <<pc, current, objects, emitter>> /\ Len(emitter) \in Nat
        /\ Len(Ahead') = Len(emitter) /\ Len(emitter) <= Len(Ahead)
        /\ \A n \in 1 .. Len(emitter) : Ahead'[n] = Ahead[n]
    BY <1>6 DEF Disconnect, Disconnected, emitterVars, AheadCut, EvmTypes, EmitterTypes
  <2>2. \A n \in 1 .. Len(Ahead') : n \in 1 .. Len(Ahead) /\ Ahead'[n] = Ahead[n]
    BY <1>1, <2>1
  <2> QED
    BY <2>1, <2>2 DEF Rising, BlockOf
<1>7. CASE Crash /\ Len(Ahead') = 0
  <2>1. pc' = "head"
    BY <1>7 DEF Crash, Restarted
  <2> QED
    BY <1>7, <2>1 DEF Rising
<1>8. CASE (Feeding \/ Handling) /\ AheadStays
  <2>1. pc' # "head" => pc # "head" /\ BlockOf(current)' = BlockOf(current)
    <3>1. CASE ReceiveLog
      <4>1. UNCHANGED <<pc, current>>
        BY <3>1 DEF ReceiveLog, Notified
      <4>2. PICK b \in Blocks, object \in LevelDatas : LogReceived(b, object)
        BY <3>1, ReceiveLogIs
      <4> QED
        BY <1>2, <4>1, <4>2 DEF LogReceived, Filed, BlockOf
    <3>2. CASE ReceiveHead(Ix)
      <4>1. UNCHANGED <<pc, current>>
        BY <3>2 DEF ReceiveHead, Notified
      <4>2. PICK b \in Blocks, object \in LevelDatas : HeadReceived(b, object)
        BY <3>2, ReceiveHeadIs
      <4> QED
        BY <1>2, <4>1, <4>2 DEF HeadReceived, Filed, BlockOf
    <3>3. CASE Asking \/ Handling
      BY <3>3, AskingIs DEF Handling, EmitEvents, EmitTransactions, Forget,
         Synchronize, ProcessData, ProcessRollback, emitterVars, evmVars, nodeVars, BlockOf
    <3> QED
      BY <1>8, <3>1, <3>2, <3>3 DEF Feeding
  <2> QED
    BY <1>3, <1>8, <2>1
<1> QED
  BY <1>4, <1>5, <1>6, <1>7, <1>8 DEF StepKinds

(* What is filed for a block stays there.                                   *)
LEMMA KeptKept ==
  ASSUME EvmTypes, EvmTypes', Ix' = Ix, Rising, Kept, StepKinds
  PROVE  Kept'
<1>1. /\ \A n \in 1 .. Len(emitter) : emitter[n] \in 1 .. Len(objects)
      /\ pc # "head" => current \in 1 .. Len(objects)
      /\ \A o \in 1 .. Len(objects) : BlockOf(o) \in Blocks /\ BlockOf(o) \in 1 .. MaxBlocks
      /\ emitter \in Seq(Nat) /\ levelData \in [1 .. MaxBlocks -> Nat]
  BY BlocksAre DEF EvmTypes, EmitterTypes, ObjectTypes
<1>2. ASSUME \A o \in 1 .. Len(objects) : objects'[o].block = objects[o].block,
             \A c \in 1 .. MaxBlocks : levelData[c] # 0 => levelData'[c] = levelData[c]
      PROVE  /\ \A n \in 1 .. Len(emitter) : levelData'[objects'[emitter[n]].block] = emitter[n]
             /\ pc # "head" => levelData'[objects'[current].block] = current
  <2>1. ASSUME NEW n \in 1 .. Len(emitter) PROVE levelData'[objects'[emitter[n]].block] = emitter[n]
    <3>1. /\ objects'[emitter[n]].block = BlockOf(emitter[n])
          /\ BlockOf(emitter[n]) \in 1 .. MaxBlocks
          /\ emitter[n] # 0
      BY <1>1, <1>2 DEF BlockOf
    <3> QED
      BY <1>2, <3>1 DEF Kept
  <2>2. ASSUME pc # "head" PROVE levelData'[objects'[current].block] = current
    <3>1. /\ objects'[current].block = BlockOf(current) /\ BlockOf(current) \in 1 .. MaxBlocks
          /\ current # 0
      BY <1>1, <1>2, <2>2 DEF BlockOf
    <3> QED
      BY <1>2, <2>2, <3>1 DEF Kept
  <2> QED
    BY <2>1, <2>2
<1>3. ASSUME UNCHANGED <<emitter, current, objects, levelData>>, pc' # "head" => pc # "head"
      PROVE  Kept'
  BY <1>3 DEF Kept, BlockOf
<1>4. CASE \E to \in 0 .. Len(chain), contents \in Seq(BOOLEAN) : Branch(to, contents)
  <2>1. UNCHANGED <<emitter, pc, current, objects, levelData>>
    BY <1>4, BranchFacts
  <2> QED
    BY <1>3, <2>1
<1>5. CASE EmitHead
  <2>1. /\ UNCHANGED <<objects, levelData>> /\ emitter # <<>> /\ emitter' = Tail(emitter)
        /\ current' = Head(emitter)
    BY <1>5 DEF EmitHead
  <2>2. /\ Len(emitter) \in Nat \ {0} /\ Head(emitter) = emitter[1]
        /\ Len(emitter') = Len(emitter) - 1
        /\ \A n \in 1 .. Len(emitter) - 1 : emitter'[n] = emitter[n + 1]
    BY <1>1, <2>1, HeadTail
  <2>3. ASSUME NEW n \in 1 .. Len(emitter') PROVE levelData[BlockOf(emitter'[n])] = emitter'[n]
    <3>1. n + 1 \in 1 .. Len(emitter) /\ emitter'[n] = emitter[n + 1]
      BY <2>2
    <3> QED
      BY <3>1 DEF Kept
  <2>4. levelData[BlockOf(current')] = current'
    <3>1. 1 \in 1 .. Len(emitter)
      BY <2>2
    <3> QED
      BY <2>1, <2>2, <3>1 DEF Kept
  <2> QED
    BY <2>1, <2>3, <2>4 DEF Kept, BlockOf
<1>6. CASE Disconnect
  BY <1>3, <1>6 DEF Disconnect, Disconnected, emitterVars
<1>7. CASE Crash
  <2>1. Len(emitter') = 0 /\ pc' = "head"
    BY <1>7, NoElements DEF Crash, Restarted
  <2> QED
    BY <2>1 DEF Kept
<1>8. CASE ReceiveLog
  <2>1. UNCHANGED <<emitter, pc, current>>
    BY <1>8 DEF ReceiveLog, Notified
  <2>2. PICK b \in Blocks, object \in LevelDatas : LogReceived(b, object)
    BY <1>8, ReceiveLogIs
  <2>3. /\ \A o \in 1 .. Len(objects) : objects'[o].block = objects[o].block
        /\ \A c \in 1 .. MaxBlocks : levelData[c] # 0 => levelData'[c] = levelData[c]
    BY <2>2 DEF LogReceived, Filed, LevelDataOf
  <2> QED
    BY <1>2, <2>1, <2>3 DEF Kept, BlockOf
<1>9. CASE ReceiveHead(Ix)
  <2>1. UNCHANGED <<pc, current>>
    BY <1>9 DEF ReceiveHead, Notified
  <2>2. PICK b \in Blocks, object \in LevelDatas : HeadReceived(b, object)
    BY <1>9, ReceiveHeadIs
  <2>3. /\ \A o \in 1 .. Len(objects) : objects'[o].block = objects[o].block
        /\ \A c \in 1 .. MaxBlocks : levelData[c] # 0 => levelData'[c] = levelData[c]
    BY <2>2 DEF HeadReceived, Filed, LevelDataOf
  <2>4. /\ LevelDataOf(b) \in Nat /\ emitter' = Append(emitter, LevelDataOf(b))
        /\ objects'[LevelDataOf(b)].block = b /\ levelData'[b] = LevelDataOf(b)
    BY <2>2 DEF HeadReceived, Filed
  <2>5. /\ Len(emitter) \in Nat /\ Len(emitter') = Len(emitter) + 1
        /\ \A n \in 1 .. Len(emitter) : emitter'[n] = emitter[n]
        /\ emitter'[Len(emitter) + 1] = LevelDataOf(b)
    BY <1>1, <2>4, AppendAt
  <2>6. ASSUME NEW n \in 1 .. Len(emitter')
        PROVE  levelData'[objects'[emitter'[n]].block] = emitter'[n]
    <3>1. CASE n \in 1 .. Len(emitter)
      <4>1. levelData'[objects'[emitter[n]].block] = emitter[n]
        BY <1>2, <2>3, <3>1
      <4> QED
        BY <2>5, <3>1, <4>1
    <3>2. CASE n = Len(emitter) + 1
      BY <2>4, <2>5, <3>2
    <3> QED
      BY <2>5, <3>1, <3>2
  <2> QED
    BY <1>2, <2>1, <2>3, <2>6 DEF Kept, BlockOf
<1>10. CASE Forget
  <2>1. /\ UNCHANGED <<emitter, objects>> /\ pc' = "head" /\ pc # "head"
        /\ \/ levelData' = levelData
           \/ levelData' = [levelData EXCEPT ![BlockOf(current)] = 0]
    BY <1>10 DEF Forget, BlockOf
  <2>2. ASSUME NEW n \in 1 .. Len(emitter) PROVE levelData'[BlockOf(emitter[n])] = emitter[n]
    <3>1. BlockOf(current) # BlockOf(emitter[n]) /\ BlockOf(emitter[n]) \in 1 .. MaxBlocks
      <4>1. AheadFacts
        BY AheadIs
      <4>2. n \in 1 .. Len(Ahead) /\ Ahead[n] = BlockOf(emitter[n])
        BY <4>1 DEF AheadFacts
      <4>3. BlockOf(current) < BlockOf(emitter[n])
        BY <2>1, <4>2 DEF Rising
      <4>4. BlockOf(current) \in Nat
        <5>1. BlockOf(current) \in 1 .. MaxBlocks
          BY <1>1, <2>1
        <5> QED
          BY <5>1, NodeAssumption
      <4> QED
        BY <1>1, <4>3, <4>4
    <3>2. levelData[BlockOf(emitter[n])] = emitter[n]
      BY DEF Kept
    <3>3. CASE levelData' = levelData
      BY <3>2, <3>3
    <3>4. CASE levelData' = [levelData EXCEPT ![BlockOf(current)] = 0]
      BY <1>1, <3>1, <3>2, <3>4
    <3> QED
      BY <2>1, <3>3, <3>4
  <2> QED
    BY <2>1, <2>2 DEF Kept, BlockOf
<1>11. CASE \/ Asking \/ EmitEvents \/ EmitTransactions
            \/ (Synchronize(Ix) \/ ProcessData(Ix) \/ ProcessRollback(Ix)) /\ UNCHANGED evmVars
            \/ UNCHANGED <<nodeVars, evmVars>>
  <2>1. UNCHANGED <<emitter, current, objects, levelData>> /\ (pc' # "head" => pc # "head")
    BY <1>11, AskingIs DEF EmitEvents, EmitTransactions, Synchronize,
       ProcessData, ProcessRollback, emitterVars, evmVars, nodeVars
  <2> QED
    BY <1>3, <2>1
<1> QED
  BY <1>4, <1>5, <1>6, <1>7, <1>8, <1>9, <1>10, <1>11 DEF StepKinds, Feeding, Handling

-----------------------------------------------------------------------------
(* The queue of the index, and what becomes of it.                          *)

Queue == queue[Ix]
IsData(m) == m.kind = "data"
IsRollback(m) == m.kind = "rollback"

QStays == Queue' = Queue
QCleared == Len(Queue') = 0
QPopped ==
  /\ Len(Queue) >= 1 /\ Len(Queue') = Len(Queue) - 1
  /\ \A n \in 1 .. Len(Queue) - 1 : Queue'[n] = Queue[n + 1]
QPushed(m) ==
  /\ Len(Queue') = Len(Queue) + 1 /\ Queue'[Len(Queue) + 1] = m
  /\ \A n \in 1 .. Len(Queue) : Queue'[n] = Queue[n]

(* The steps of the index itself.                                           *)
Untouched == UNCHANGED <<blocks, chain, heads, subscribed, syncLevel, emitter, pc, current>>
Synced ==
  /\ Untouched /\ QCleared /\ failure' = failure /\ draining' = draining
  /\ ~Waiting /\ ~draining[Ix] /\ level[Ix] < syncLevel /\ level'[Ix] = syncLevel
  /\ \A l \in Levels :
       rows'[Ix][l] = IF level[Ix] < l /\ l <= syncLevel THEN Canonical(Ix, l) ELSE rows[Ix][l]
Taken ==
  /\ Untouched /\ QPopped /\ Queue[1] \in Messages
  /\ ~Waiting /\ (draining[Ix] \/ (syncLevel > 0 /\ level[Ix] >= syncLevel))
  /\ draining'[Ix] <=> Len(Queue) # 1
DataTaken ==
  /\ Taken /\ ~IsRollback(Queue[1])
  /\ failure' = IF Queue[1].kind = "empty" THEN "empty_message" ELSE "none"
  /\ \/ /\ Queue[1].kind = "empty" \/ Queue[1].level <= level[Ix]
        /\ level'[Ix] = level[Ix] /\ rows'[Ix] = rows[Ix]
     \/ /\ Queue[1].kind # "empty" /\ Queue[1].level > level[Ix]
        /\ level'[Ix] = Queue[1].level
        /\ \A l \in Levels :
             rows'[Ix][l] = IF l = Queue[1].level THEN Queue[1].rows ELSE rows[Ix][l]
RollbackTaken ==
  /\ Taken /\ IsRollback(Queue[1]) /\ failure' = failure
  /\ level'[Ix] = IF Queue[1].to = 0 THEN level[Ix] ELSE Queue[1].to
  /\ \A l \in Levels :
       rows'[Ix][l] = IF Queue[1].to < l /\ l <= Queue[1].from THEN NoRows ELSE rows[Ix][l]

(* A sequence that is not empty.                                            *)
LEMMA NotEmpty ==
  ASSUME NEW T, NEW s \in Seq(T)
  PROVE  s # <<>> <=> Len(s) # 0
  OBVIOUS

(* They are those.                                                          *)
LEMMA IndexSteps ==
  ASSUME IndexTypes, Ix \in Kinds, Ix' = Ix
  PROVE  /\ Synchronize(Ix) => Synced
         /\ ProcessData(Ix) => DataTaken
         /\ ProcessRollback(Ix) => RollbackTaken
<1>1. /\ queue \in [Kinds -> Seq(Messages)] /\ draining \in [Kinds -> BOOLEAN]
      /\ level \in [Kinds -> Int] /\ rows \in [Kinds -> [Levels -> Rows]] /\ syncLevel \in Int
      /\ Queue \in Seq(Messages) /\ level[Ix] \in Int
  BY DEF IndexTypes, Queue
<1>2. ASSUME Synchronize(Ix) PROVE Synced
  <2>1. /\ Untouched /\ failure' = failure /\ draining' = draining
        /\ ~Waiting /\ ~draining[Ix] /\ level[Ix] < syncLevel
        /\ queue' = [queue EXCEPT ![Ix] = <<>>] /\ level' = [level EXCEPT ![Ix] = syncLevel]
        /\ rows' = [rows EXCEPT ![Ix] = [l \in Levels |->
                  IF level[Ix] < l /\ l <= syncLevel THEN Canonical(Ix, l) ELSE rows[Ix][l]]]
    BY <1>2 DEF Synchronize, feedVars, chainVars, emitterVars, Untouched
  <2>2. QCleared
    <3>1. queue'[Ix] = <<>>
      BY <1>1, <2>1
    <3> QED
      BY <3>1, NoElements DEF QCleared, Queue
  <2>3. level'[Ix] = syncLevel
    BY <1>1, <2>1
  <2>4. rows'[Ix] = [l \in Levels |->
                  IF level[Ix] < l /\ l <= syncLevel THEN Canonical(Ix, l) ELSE rows[Ix][l]]
    BY <1>1, <2>1
  <2> QED
    BY <2>1, <2>2, <2>3, <2>4 DEF Synced
<1>3. ASSUME ProcessData(Ix) \/ ProcessRollback(Ix)
      PROVE  Taken /\ Head(queue[Ix]) = Queue[1]
  <2>1. /\ Untouched /\ ~Waiting /\ queue[Ix] # <<>> /\ Pop(Ix)
        /\ (draining[Ix] \/ (syncLevel > 0 /\ level[Ix] >= syncLevel))
    BY <1>3 DEF ProcessData, ProcessRollback, AtQueue, feedVars, chainVars, emitterVars, Untouched
  <2>2. /\ Queue # <<>> /\ Queue' = Tail(Queue)
        /\ draining' = [draining EXCEPT ![Ix] = Tail(Queue) # <<>>]
    BY <1>1, <2>1 DEF Pop, Queue
  <2>3. /\ Head(Queue) = Queue[1] /\ Head(Queue) \in Messages
        /\ Len(Queue) \in Nat \ {0} /\ Len(Tail(Queue)) = Len(Queue) - 1
        /\ \A n \in 1 .. Len(Queue) - 1 : Tail(Queue)[n] = Queue[n + 1]
        /\ Tail(Queue) \in Seq(Messages)
    BY <1>1, <2>2, HeadTail
  <2>4. QPopped
    <3>1. Len(Queue) >= 1
      BY <2>3
    <3> QED
      BY <2>2, <2>3, <3>1 DEF QPopped
  <2>5. draining'[Ix] <=> Len(Queue) # 1
    <3>1. draining'[Ix] <=> Tail(Queue) # <<>>
      BY <1>1, <2>2
    <3>2. Tail(Queue) # <<>> <=> Len(Tail(Queue)) # 0
      BY <2>3, NotEmpty
    <3> QED
      BY <2>3, <3>1, <3>2
  <2> QED
    BY <2>1, <2>3, <2>4, <2>5 DEF Taken, Queue
<1>4. ASSUME ProcessData(Ix) PROVE DataTaken
  <2>1. PICK m : m = Head(queue[Ix])
    OBVIOUS
  <2>2. Taken /\ m = Queue[1] /\ m \in Messages
    BY <1>3, <1>4, <2>1 DEF Taken
  <2>3. /\ m.kind # "rollback"
        /\ failure' = IF m.kind = "empty" THEN "empty_message" ELSE "none"
        /\ IF m.kind = "empty" \/ m.level <= level[Ix] THEN UNCHANGED <<level, rows>>
           ELSE /\ level' = [level EXCEPT ![Ix] = m.level]
                /\ rows' = [rows EXCEPT ![Ix][m.level] = m.rows]
    BY <1>4, <2>1 DEF ProcessData
  <2>4. m.level \in Int
    BY <2>2, <2>3 DEF Messages
  <2>5. CASE m.kind = "empty" \/ m.level <= level[Ix]
    <3>1. level'[Ix] = level[Ix] /\ rows'[Ix] = rows[Ix]
      BY <2>3, <2>5
    <3> QED
      BY <2>2, <2>3, <2>5, <3>1 DEF DataTaken, IsRollback
  <2>6. CASE ~(m.kind = "empty" \/ m.level <= level[Ix])
    <3>1. /\ level' = [level EXCEPT ![Ix] = m.level]
          /\ rows' = [rows EXCEPT ![Ix][m.level] = m.rows]
          /\ m.kind # "empty" /\ m.level > level[Ix]
      BY <1>1, <2>3, <2>4, <2>6
    <3>2. level'[Ix] = m.level
      BY <1>1, <3>1
    <3>3. rows[Ix] \in [Levels -> Rows]
      BY <1>1
    <3>4. rows'[Ix] = [rows[Ix] EXCEPT ![m.level] = m.rows]
      BY <1>1, <3>1
    <3>5. \A l \in Levels : rows'[Ix][l] = IF l = m.level THEN m.rows ELSE rows[Ix][l]
      BY <3>3, <3>4
    <3> QED
      BY <2>2, <2>3, <3>1, <3>2, <3>5 DEF DataTaken, IsRollback
  <2> QED
    BY <2>5, <2>6
<1>5. ASSUME ProcessRollback(Ix) PROVE RollbackTaken
  <2>1. PICK m : m = Head(queue[Ix])
    OBVIOUS
  <2>2. Taken /\ m = Queue[1]
    BY <1>3, <1>5, <2>1
  <2>3. /\ m.kind = "rollback" /\ failure' = failure
        /\ level' = [level EXCEPT ![Ix] = IF m.to = 0 THEN @ ELSE m.to]
        /\ rows' = [rows EXCEPT ![Ix] = [l \in Levels |->
                     IF m.to < l /\ l <= m.from THEN NoRows ELSE rows[Ix][l]]]
    BY <1>5, <2>1 DEF ProcessRollback
  <2>4. level'[Ix] = IF m.to = 0 THEN level[Ix] ELSE m.to
    BY <1>1, <2>3
  <2>5. rows'[Ix] = [l \in Levels |-> IF m.to < l /\ l <= m.from THEN NoRows ELSE rows[Ix][l]]
    BY <1>1, <2>3
  <2> QED
    BY <2>2, <2>3, <2>4, <2>5 DEF RollbackTaken, IsRollback
<1> QED
  BY <1>2, <1>4, <1>5

(* A message is added to a queue.                                           *)
LEMMA PushIs ==
  ASSUME IndexTypes, Ix \in Kinds, Ix' = Ix, NEW m \in Messages,
         queue' = [queue EXCEPT ![Ix] = Append(@, m)]
  PROVE  QPushed(m)
<1>1. Queue \in Seq(Messages) /\ Queue' = Append(Queue, m)
  BY DEF IndexTypes, Queue
<1> QED
  BY <1>1, AppendAt DEF QPushed

-----------------------------------------------------------------------------
(* An EVM node: the steps of the emitter.                                   *)

Emitting == UNCHANGED <<blocks, chain, subscribed, heads, logs, syncLevel, draining, level, rows>>
HeadEmitted ==
  /\ Emitting /\ pc = "head" /\ pc' = "data" /\ UNCHANGED <<objects, levelData, failure>>
  /\ emitter # <<>> /\ emitter' = Tail(emitter) /\ current' = Head(emitter)
  /\ \/ "backlog" \in Hazards \/ known' > known
     \/ \A p \in 1 .. Len(Queue) :
          /\ IsData(Queue[p]) => Queue[p].level <= known' - 1
          /\ IsRollback(Queue[p]) => Queue[p].to >= known' - 1
  /\ IF known' <= known /\ known' - 1 < level[Ix]
       THEN /\ "early_message" \in Hazards \/ level[Ix] >= syncLevel
            /\ QPushed(RollbackMsg(known, known' - 1))
       ELSE QStays

(* A message is pushed for a block.                                         *)
Given(b, found) ==
  /\ b \in Blocks /\ found \in SUBSET Logs /\ QPushed(DataMsg(b, found))
  /\ "early_message" \in Hazards \/ level[Ix] >= syncLevel \/ Lv(b) <= syncLevel
EventsEmitted ==
  /\ Emitting /\ pc = "data" /\ pc' = IF objects[current].fetch THEN "transactions" ELSE "forget"
  /\ UNCHANGED <<objects, levelData, emitter, current, known, failure>>
  /\ "late_logs" \in Hazards
     \/ \A i \in 1 .. Len(logs) : logs[i].block = BlockOf(current) => logs[i].removed
  /\ IF objects[current].events # {} /\ Ix = "events"
       THEN Given(BlockOf(current), objects[current].events) ELSE QStays
TransactionsEmitted ==
  /\ Emitting /\ pc = "transactions"
  /\ UNCHANGED <<objects, levelData, emitter, current, known>>
  /\ \/ Lv(BlockOf(current)) > Len(chain) /\ failure' = "no_block" /\ pc' = pc /\ QStays
     \/ /\ Lv(BlockOf(current)) \in 1 .. Len(chain) /\ failure' = failure /\ pc' = "forget"
        /\ IF blocks[chain[Lv(BlockOf(current))]].full /\ Ix = "transactions"
             THEN Given(chain[Lv(BlockOf(current))], {}) ELSE QStays
Forgotten ==
  /\ Emitting /\ pc = "forget" /\ pc' = "head"
  /\ UNCHANGED <<objects, emitter, current, known>> /\ QStays
  /\ IF levelData[BlockOf(current)] = 0 THEN failure' = "key_error" /\ levelData' = levelData
     ELSE failure' = failure /\ levelData' = [levelData EXCEPT ![BlockOf(current)] = 0]

(* That is what the steps of the emitter do: the next head,                 *)
LEMMA EmitHeadIs ==
  ASSUME EvmTypes, Ix' = Ix, EmitHead
  PROVE  HeadEmitted
<1>0. /\ ChainTypes /\ IndexTypes /\ ObjectTypes /\ EmitterTypes /\ Ix \in kinds /\ Ix \in Kinds
      /\ queue \in [Kinds -> Seq(Messages)] /\ Queue \in Seq(Messages) /\ kinds = {Ix}
  BY DEF EvmTypes, IndexTypes, Queue, Kinds
<1>1. PICK l : l = blocks[objects[Head(emitter)].block].level
  OBVIOUS
<1>2. /\ Emitting /\ pc = "head" /\ pc' = "data" /\ UNCHANGED <<objects, levelData, failure>>
      /\ emitter # <<>> /\ emitter' = Tail(emitter) /\ current' = Head(emitter) /\ known' = l
      /\ "backlog" \in Hazards
           \/ (RollsBack(l) => \A k \in kinds : ~Overtakes(RollbackTo(l), queue[k]))
      /\ "early_message" \in Hazards
           \/ \A k \in kinds : (RollsBack(l) /\ RollbackTo(l) < level[k]) => level[k] >= syncLevel
      /\ queue' = [k \in Kinds |-> IF k \in kinds /\ (RollsBack(l) /\ RollbackTo(l) < level[k])
                       THEN Append(queue[k], RollbackMsg(RollbackFrom(l), RollbackTo(l)))
                       ELSE queue[k]]
  BY <1>1 DEF EmitHead, Emitting, chainVars, feedVars
<1>3. l \in Nat /\ known \in Nat
  <2>1. emitter \in Seq(Nat) /\ \A n \in 1 .. Len(emitter) : emitter[n] \in 1 .. Len(objects)
    BY <1>0 DEF EmitterTypes
  <2>2. Head(emitter) = emitter[1] /\ 1 \in 1 .. Len(emitter)
    BY <1>2, <2>1, HeadTail
  <2>3. objects[Head(emitter)].block \in Blocks
    BY <1>0, <2>1, <2>2 DEF ObjectTypes, BlockOf
  <2>4. known \in 0 .. MaxLevel
    BY <1>0 DEF EmitterTypes
  <2> QED
    BY <1>0, <1>1, <2>3, <2>4, BlocksAre DEF Lv
<1>4. \/ "backlog" \in Hazards \/ l > known
      \/ \A p \in 1 .. Len(Queue) :
           /\ IsData(Queue[p]) => Queue[p].level <= l - 1
           /\ IsRollback(Queue[p]) => Queue[p].to >= l - 1
  <2> SUFFICES ASSUME "backlog" \notin Hazards, ~(l > known), NEW p \in 1 .. Len(Queue)
               PROVE  /\ IsData(Queue[p]) => Queue[p].level <= l - 1
                      /\ IsRollback(Queue[p]) => Queue[p].to >= l - 1
    OBVIOUS
  <2>1. ~Overtakes(l - 1, Queue)
    BY <1>0, <1>2, <1>3 DEF RollsBack, RollbackTo, Queue
  <2>2. Queue[p] \in Range(Queue) /\ Queue[p] \in Messages
    BY <1>0, RangeIs
  <2>3. PICK m : m = Queue[p]
    OBVIOUS
  <2>4. ~(m.kind = "data" /\ m.level > l - 1) /\ ~(m.kind = "rollback" /\ m.to < l - 1)
    BY <2>1, <2>2, <2>3 DEF Overtakes
  <2>5. /\ m.kind = "data" => m.level \in Int
        /\ m.kind = "rollback" => m.to \in Int
    BY <2>2, <2>3 DEF Messages
  <2> QED
    BY <1>3, <2>3, <2>4, <2>5 DEF IsData, IsRollback
<1>5. IF l <= known /\ l - 1 < level[Ix]
        THEN /\ "early_message" \in Hazards \/ level[Ix] >= syncLevel
             /\ QPushed(RollbackMsg(known, l - 1))
        ELSE QStays
  <2>1. queue'[Ix] = IF l <= known /\ l - 1 < level[Ix]
                       THEN Append(queue[Ix], RollbackMsg(known, l - 1)) ELSE queue[Ix]
    BY <1>0, <1>2 DEF RollsBack, RollbackTo, RollbackFrom
  <2>2. CASE l <= known /\ l - 1 < level[Ix]
    <3>1. RollbackMsg(known, l - 1) \in Messages
      BY <1>0, <1>3, MessagesAre
    <3>2. QPushed(RollbackMsg(known, l - 1))
      <4>1. Queue' = Append(Queue, RollbackMsg(known, l - 1))
        BY <2>1, <2>2 DEF Queue
      <4> QED
        BY <1>0, <3>1, <4>1, AppendAt DEF QPushed
    <3>3. "early_message" \in Hazards \/ level[Ix] >= syncLevel
      BY <1>0, <1>2, <2>2 DEF RollsBack, RollbackTo
    <3> QED
      BY <2>2, <3>2, <3>3
  <2>3. CASE ~(l <= known /\ l - 1 < level[Ix])
    BY <2>1, <2>3 DEF QStays, Queue
  <2> QED
    BY <2>2, <2>3
<1> QED
  BY <1>2, <1>4, <1>5 DEF HeadEmitted

(* its events,                                                              *)
LEMMA EmitEventsIs ==
  ASSUME EvmTypes, Ix' = Ix, EmitEvents
  PROVE  EventsEmitted
<1>0. /\ ChainTypes /\ IndexTypes /\ ObjectTypes /\ EmitterTypes /\ Ix \in kinds /\ Ix \in Kinds
      /\ queue \in [Kinds -> Seq(Messages)] /\ Queue \in Seq(Messages) /\ kinds = {Ix}
  BY DEF EvmTypes, IndexTypes, Queue, Kinds
<1>1. /\ Emitting /\ pc = "data"
      /\ pc' = IF objects[current].fetch THEN "transactions" ELSE "forget"
      /\ UNCHANGED <<objects, levelData, emitter, current, known, failure>>
      /\ "late_logs" \in Hazards
           \/ ~ \E i \in DOMAIN logs : logs[i].block = BlockOf(current) /\ ~logs[i].removed
      /\ IF objects[current].events # {} /\ "events" \in kinds
           THEN Push("events", DataMsg(BlockOf(current), objects[current].events))
           ELSE queue' = queue
  BY DEF EmitEvents, Emitting, chainVars, feedVars, evmVars, BlockOf
<1>2. "late_logs" \in Hazards
      \/ \A i \in 1 .. Len(logs) : logs[i].block = BlockOf(current) => logs[i].removed
  <2>1. DOMAIN logs = 1 .. Len(logs)
    BY DEF EvmTypes, FeedTypes
  <2> QED
    BY <1>1, <2>1
<1>3. CASE objects[current].events # {} /\ Ix = "events"
  <2>1. Push("events", DataMsg(BlockOf(current), objects[current].events))
    BY <1>0, <1>1, <1>3
  <2>2. BlockOf(current) \in Blocks /\ objects[current].events \in SUBSET Logs
    <3>1. current \in 1 .. Len(objects)
      BY <1>0, <1>1 DEF EmitterTypes
    <3>2. objects[current] \in LevelDatas /\ BlockOf(current) \in Blocks
      BY <1>0, <3>1 DEF ObjectTypes
    <3> QED
      BY <3>2 DEF LevelDatas
  <2>3. PICK b \in Blocks, found \in SUBSET Logs :
          b = BlockOf(current) /\ found = objects[current].events
    BY <2>2
  <2>4. /\ queue' = [queue EXCEPT !["events"] = Append(@, DataMsg(b, found))]
        /\ "early_message" \in Hazards \/ level["events"] >= syncLevel
             \/ DataMsg(b, found).level <= syncLevel
    BY <2>1, <2>3 DEF Push
  <2>5. DataMsg(b, found) \in Messages /\ DataMsg(b, found).level = Lv(b)
    BY <1>0, MessagesAre DEF DataMsg, Lv
  <2>6. QPushed(DataMsg(b, found))
    BY <1>0, <1>3, <2>4, <2>5, PushIs
  <2>7. Given(b, found)
    BY <1>3, <2>4, <2>5, <2>6 DEF Given
  <2> QED
    BY <1>1, <1>2, <1>3, <2>3, <2>7 DEF EventsEmitted
<1>4. CASE ~(objects[current].events # {} /\ Ix = "events")
  <2>1. queue' = queue
    BY <1>0, <1>1, <1>4
  <2> QED
    BY <1>1, <1>2, <1>4, <2>1 DEF EventsEmitted, QStays, Queue
<1> QED
  BY <1>3, <1>4

(* its transactions,                                                        *)
LEMMA EmitTransactionsIs ==
  ASSUME EvmTypes, Ix' = Ix, EmitTransactions
  PROVE  TransactionsEmitted
<1>0. /\ ChainTypes /\ IndexTypes /\ ObjectTypes /\ EmitterTypes /\ Ix \in kinds /\ Ix \in Kinds
      /\ queue \in [Kinds -> Seq(Messages)] /\ Queue \in Seq(Messages) /\ kinds = {Ix}
      /\ Ix \in EvmKinds
  BY DEF EvmTypes, IndexTypes, Queue, Kinds
<1>1. PICK l : l = Lv(BlockOf(current))
  OBVIOUS
<1>2. /\ Emitting /\ pc = "transactions"
      /\ UNCHANGED <<objects, levelData, emitter, current, known>>
      /\ IF l > Len(chain) THEN failure' = "no_block" /\ UNCHANGED <<pc, queue>>
         ELSE /\ IF blocks[chain[l]].full THEN Push("transactions", DataMsg(chain[l], {}))
                                          ELSE UNCHANGED queue
              /\ pc' = "forget" /\ UNCHANGED failure
  BY <1>1 DEF EmitTransactions, Emitting, chainVars, feedVars, evmVars, BlockOf, Lv
<1>3. l \in 1 .. MaxLevel /\ Len(chain) \in Nat /\ MaxLevel \in Nat
  <2>1. current \in 1 .. Len(objects)
    BY <1>0, <1>2 DEF EmitterTypes
  <2>2. BlockOf(current) \in Blocks
    BY <1>0, <2>1 DEF ObjectTypes
  <2> QED
    BY <1>0, <1>1, <2>2, BlocksAre
<1>4. CASE l > Len(chain)
  <2>1. failure' = "no_block" /\ pc' = pc /\ QStays
    BY <1>2, <1>4 DEF QStays, Queue
  <2> QED
    BY <1>1, <1>2, <1>4, <2>1 DEF TransactionsEmitted
<1>5. CASE ~(l > Len(chain))
  <2>1. l \in 1 .. Len(chain)
    BY <1>3, <1>5
  <2>2. chain[l] \in Blocks
    BY <1>0, <2>1 DEF ChainTypes
  <2>3. PICK b \in Blocks : b = chain[l]
    BY <2>2
  <2>4. DataMsg(b, {}) \in Messages /\ DataMsg(b, {}).level = Lv(b)
    BY <1>0, MessagesAre DEF DataMsg, Lv
  <2>5. CASE blocks[b].full
    <3>1. /\ queue' = [queue EXCEPT !["transactions"] = Append(@, DataMsg(b, {}))]
          /\ "early_message" \in Hazards \/ level["transactions"] >= syncLevel
               \/ DataMsg(b, {}).level <= syncLevel
      BY <1>2, <1>5, <2>3, <2>5 DEF Push
    <3>2. CASE Ix = "transactions"
      <4>1. QPushed(DataMsg(b, {}))
        BY <1>0, <2>4, <3>1, <3>2, PushIs
      <4>2. Given(b, {})
        BY <2>4, <3>1, <3>2, <4>1 DEF Given
      <4> QED
        BY <1>1, <1>2, <1>5, <2>1, <2>3, <2>5, <3>2, <4>2 DEF TransactionsEmitted
    <3>3. CASE Ix # "transactions"
      <4>1. queue'[Ix] = queue[Ix]
        BY <1>0, <3>1, <3>3
      <4> QED
        BY <1>1, <1>2, <1>5, <2>1, <3>3, <4>1 DEF TransactionsEmitted, QStays, Queue
    <3> QED
      BY <3>2, <3>3
  <2>6. CASE ~blocks[b].full
    <3>1. queue' = queue
      BY <1>2, <1>5, <2>3, <2>6
    <3> QED
      BY <1>1, <1>2, <1>5, <2>1, <2>3, <2>6, <3>1 DEF TransactionsEmitted, QStays, Queue
  <2> QED
    BY <2>5, <2>6
<1> QED
  BY <1>4, <1>5

(* and the end of its LevelData.                                            *)
LEMMA ForgetIs ==
  ASSUME EvmTypes, Ix' = Ix, Forget
  PROVE  Forgotten
  BY DEF Forget, Forgotten, Emitting, chainVars, feedVars, indexVars, BlockOf, QStays, Queue

-----------------------------------------------------------------------------
(* An EVM node: the steps, by what they do to the queue of the index.       *)

Silent == QStays /\ UNCHANGED <<level, rows, draining, pc, current>>
Quietly ==
  \/ \E to \in 0 .. Len(chain), contents \in Seq(BOOLEAN) : Branch(to, contents)
  \/ Disconnect \/ Feeding \/ UNCHANGED <<nodeVars, evmVars>>
QueueSteps ==
  \/ Quietly /\ Silent
  \/ Crash /\ QCleared /\ UNCHANGED <<level, rows>>
  \/ EmitHead /\ HeadEmitted
  \/ EmitEvents /\ EventsEmitted
  \/ EmitTransactions /\ TransactionsEmitted
  \/ Forget /\ Forgotten
  \/ UNCHANGED evmVars /\ (Synced \/ DataTaken \/ RollbackTaken)

(* There are no other steps.                                                *)
LEMMA StepsQueue ==
  ASSUME EvmTypes, Ix' = Ix, StepKinds
  PROVE  QueueSteps
<1>0. IndexTypes /\ Ix \in Kinds
  BY DEF EvmTypes, Kinds
<1>1. CASE \E to \in 0 .. Len(chain), contents \in Seq(BOOLEAN) : Branch(to, contents)
  <2>1. PICK to \in 0 .. Len(chain), contents \in Seq(BOOLEAN) : Branch(to, contents)
    BY <1>1
  <2>2. UNCHANGED <<queue, level, rows, draining, pc, current>>
    BY <2>1, BranchFacts
  <2> QED
    BY <1>1, <2>2 DEF QueueSteps, Quietly, Silent, QStays, Queue
<1>2. CASE Disconnect
  BY <1>2 DEF QueueSteps, Quietly, Silent, QStays, Queue, Disconnect, Disconnected, emitterVars,
     indexVars
<1>3. CASE Feeding
  BY <1>3, AskingIs DEF QueueSteps, Quietly, Silent, QStays, Queue, Feeding, ReceiveLog,
     ReceiveHead, Notified, emitterVars, indexVars
<1>4. CASE UNCHANGED <<nodeVars, evmVars>>
  BY <1>4 DEF QueueSteps, Quietly, Silent, QStays, Queue, nodeVars, emitterVars, indexVars
<1>5. CASE Crash
  <2>1. queue' = [k \in Kinds |-> <<>>] /\ UNCHANGED <<level, rows>>
    BY <1>5 DEF Crash, Restarted
  <2>2. QCleared
    BY <1>0, <2>1, NoElements DEF QCleared, Queue
  <2> QED
    BY <1>5, <2>1, <2>2 DEF QueueSteps
<1>6. CASE EmitHead
  BY <1>6, EmitHeadIs DEF QueueSteps
<1>7. CASE EmitEvents
  BY <1>7, EmitEventsIs DEF QueueSteps
<1>8. CASE EmitTransactions
  BY <1>8, EmitTransactionsIs DEF QueueSteps
<1>9. CASE Forget
  BY <1>9, ForgetIs DEF QueueSteps
<1>10. CASE (Synchronize(Ix) \/ ProcessData(Ix) \/ ProcessRollback(Ix)) /\ UNCHANGED evmVars
  BY <1>0, <1>10, IndexSteps DEF QueueSteps
<1> QED
  BY <1>1, <1>2, <1>3, <1>4, <1>5, <1>6, <1>7, <1>8, <1>9, <1>10 DEF StepKinds, Handling

(* No message is without data.                                              *)
NoneEmpty == \A p \in 1 .. Len(Queue) : Queue[p].kind # "empty"

(* That stays so unless one is pushed.                                      *)
LEMMA NoneEmptyKept ==
  ASSUME Len(Queue) \in Nat, NoneEmpty,
         QStays \/ QCleared \/ QPopped \/ \E m : QPushed(m) /\ m.kind # "empty"
  PROVE  NoneEmpty'
<1>1. CASE QStays
  BY <1>1 DEF NoneEmpty, QStays
<1>2. CASE QCleared
  BY <1>2 DEF NoneEmpty, QCleared
<1>3. CASE QPopped
  <2>1. \A p \in 1 .. Len(Queue') : p + 1 \in 1 .. Len(Queue) /\ Queue'[p] = Queue[p + 1]
    BY <1>3 DEF QPopped
  <2> QED
    BY <2>1 DEF NoneEmpty
<1>4. CASE \E m : QPushed(m) /\ m.kind # "empty"
  <2>1. PICK m : QPushed(m) /\ m.kind # "empty"
    BY <1>4
  <2>2. ASSUME NEW p \in 1 .. Len(Queue') PROVE Queue'[p].kind # "empty"
    <3>1. p \in 1 .. Len(Queue) \/ p = Len(Queue) + 1
      BY <2>1 DEF QPushed
    <3> QED
      BY <2>1, <3>1 DEF QPushed, NoneEmpty
  <2> QED
    BY <2>2 DEF NoneEmpty
<1> QED
  BY <1>1, <1>2, <1>3, <1>4

(* What a step of an EVM node's indexer does to the queue, in short.        *)
LEMMA QueueShort ==
  ASSUME EvmTypes, QueueSteps
  PROVE  /\ QStays \/ QCleared \/ QPopped \/ \E m : QPushed(m) /\ m.kind # "empty"
         /\ Len(Queue) \in Nat
<1>1. Len(Queue) \in Nat
  BY DEF EvmTypes, IndexTypes, Queue, Kinds
<1>2. \A b, found : DataMsg(b, found).kind # "empty"
  BY DEF DataMsg
<1>3. \A from, to : RollbackMsg(from, to).kind # "empty"
  BY DEF RollbackMsg
<1> QED
  BY <1>1, <1>2, <1>3 DEF QueueSteps, Silent, HeadEmitted, EventsEmitted, TransactionsEmitted,
     Given, Forgotten, Synced, DataTaken, RollbackTaken, Taken

(* An indexer of an EVM node gets through.                                  *)
Sound == EvmTypes /\ Fits /\ Rising /\ Kept /\ NoneEmpty /\ NeverFails
Unharmed == {"shorter", "early_notification", "lost_answer"} \intersect Hazards = {}

(* Every step keeps it that way.                                            *)
LEMMA SoundKept ==
  ASSUME Sound, Unharmed, [Next]_vars
  PROVE  Sound'
<1>1. EvmTypes' /\ Ix' = Ix /\ StepKinds /\ EvmTypes
  BY StepsAhead DEF Sound
<1>2. Fits'
  BY <1>1, FitsKept DEF Sound, Unharmed, Longer
<1>3. Rising' /\ Kept'
  BY <1>1, RisingKept, KeptKept DEF Sound
<1>4. QueueSteps
  BY <1>1, StepsQueue
<1>5. NoneEmpty'
  BY <1>1, <1>4, QueueShort, NoneEmptyKept DEF Sound
<1>6. NeverFails'
  <2>1. CASE \E to \in 0 .. Len(chain), contents \in Seq(BOOLEAN) : Branch(to, contents)
    BY <1>1, <2>1, BranchFacts DEF Sound, NeverFails
  <2>2. CASE Disconnect \/ Feeding \/ Crash
    BY <2>2, AskingIs DEF Sound, NeverFails, Unharmed, Disconnect, Disconnected, Running, Feeding,
       ReceiveLog, ReceiveHead, Notified, Crash, Restarted
  <2>3. CASE UNCHANGED <<nodeVars, evmVars>>
    BY <2>3 DEF nodeVars, Sound, NeverFails
  <2>4. CASE HeadEmitted \/ EventsEmitted \/ Synced \/ RollbackTaken
    BY <2>4 DEF HeadEmitted, EventsEmitted, Synced, RollbackTaken, Sound, NeverFails
  <2>5. CASE DataTaken
    <3>1. 1 \in 1 .. Len(Queue)
      BY <1>1, <1>4, <2>5, QueueShort DEF DataTaken, Taken, QPopped
    <3> QED
      BY <2>5, <3>1 DEF DataTaken, Sound, NeverFails, NoneEmpty
  <2>6. ASSUME pc # "head" PROVE /\ BlockOf(current) \in Blocks /\ current # 0
                                 /\ levelData[BlockOf(current)] = current
                                 /\ Lv(BlockOf(current)) <= Len(chain)
                                 /\ Lv(BlockOf(current)) \in Nat /\ Len(chain) \in Nat
    <3>1. current \in 1 .. Len(objects) /\ \A o \in 1 .. Len(objects) : BlockOf(o) \in Blocks
      BY <1>1, <2>6 DEF EvmTypes, EmitterTypes, ObjectTypes
    <3> QED
      BY <1>1, <2>6, <3>1, BlocksAre DEF Sound, Kept, Fits, EvmTypes
  <2>7. CASE TransactionsEmitted
    BY <2>6, <2>7 DEF TransactionsEmitted, Sound, NeverFails
  <2>8. CASE Forgotten
    BY <2>6, <2>8 DEF Forgotten, Sound, NeverFails
  <2> QED
    BY <1>4, <2>1, <2>2, <2>3, <2>4, <2>5, <2>7, <2>8 DEF QueueSteps, Quietly
<1> QED
  BY <1>1, <1>2, <1>3, <1>5, <1>6 DEF Sound

(* And so it is at first.                                                   *)
LEMMA SoundStart ==
  ASSUME Init, Single, ofEvm
  PROVE  Sound
<1>1. EvmTypes
  BY EvmTypesStart
<1>2. /\ emitter = <<>> /\ pc = "head" /\ heads = [k \in Kinds |-> <<>>]
      /\ queue = [k \in Kinds |-> <<>>] /\ failure = "none"
      /\ blocks = <<[level |-> 1, full |-> TRUE]>> /\ chain = <<1>>
  BY DEF Init, NodeInit
<1>3. Ix \in Kinds
  BY <1>1 DEF EvmTypes, Kinds
<1>4. Len(emitter) = 0 /\ Len(heads[Ix]) = 0 /\ Len(Queue) = 0
  BY <1>2, <1>3, NoElements DEF Queue
<1>5. Len(Ahead) = 0
  BY <1>1, <1>4, AheadIs DEF AheadFacts
<1>6. Fits
  <2>1. Len(chain) = 1 /\ Blocks = {1} /\ blocks[1].level = 1
    BY <1>2 DEF Blocks
  <2> QED
    BY <2>1 DEF Fits, Lv
<1> QED
  BY <1>1, <1>2, <1>4, <1>5, <1>6 DEF Sound, Rising, Kept, NoneEmpty, NeverFails

-----------------------------------------------------------------------------
(* A Substrate node: types.                                                 *)

SubstrateTypes ==
  /\ kinds = {Ix} /\ Ix = "finalized"
  /\ ChainTypes /\ IndexTypes
  /\ subscribed \in {"no", "asked", "stored", "torn", "yes", "deaf"}
  /\ heads \in [Kinds -> Seq(Nat)] /\ \A n \in 1 .. Len(heads[Ix]) : heads[Ix][n] \in Blocks
  /\ emitter \in Seq(Nat) /\ \A n \in 1 .. Len(emitter) : emitter[n] \in Blocks
  /\ pc \in {"head", "events"} /\ (pc = "events" => current \in Blocks)
  /\ attempts \in Nat /\ logs = <<>>

(* The steps of an indexer of a Substrate node.                             *)
SubstrateStep ==
  /\ UNCHANGED evmVars
  /\ \/ Finalize \/ DisconnectSubstrate \/ CrashSubstrate \/ RefuseSubstrate
     \/ SubscribeFinalized \/ StoreId \/ SetSyncLevel \/ ReceiveFinalized
     \/ EmitFinalized \/ EmitBlockEvents
     \/ Synchronize(Ix) \/ ProcessData(Ix) \/ ProcessRollback(Ix)

(* They are the only ones.                                                  *)
LEMMA SubstrateSteps ==
  ASSUME SubstrateTypes, [Next]_vars
  PROVE  SubstrateStep \/ UNCHANGED <<nodeVars, evmVars>>
<1>1. /\ ~ofEvm /\ ~ofPolled /\ logs = <<>> /\ pc \in {"head", "events"}
      /\ kinds = {Ix} /\ \A k \in kinds : k = Ix /\ k \notin EvmKinds
  BY DEF SubstrateTypes, ofEvm, ofPolled, Websockets, EvmKinds
<1>2. CASE EvmNext
  <2>1. CASE Websocket
    <3>1. ~ReceiveLog
      BY <1>1 DEF ReceiveLog
    <3>2. ~ \E k \in kinds : ReceiveHead(k)
      BY <1>1 DEF ReceiveHead
    <3> QED
      BY <1>1, <2>1, <3>1, <3>2 DEF Websocket, Subscribe, StoreSubscription, SetLevel
  <2>2. CASE Emitter
    BY <1>1, <2>2 DEF Emitter, EmitHead, EmitEvents, EmitTransactions, Forget
  <2>3. CASE Extend \/ (\E to \in 0 .. MaxLevel : Reorg(to)) \/ Disconnect \/ Crash \/ Watchdog
    BY <1>1, <2>3 DEF Extend, MintEvm, Reorg, Disconnect, Crash, Watchdog
  <2> QED
    BY <1>2, <2>1, <2>2, <2>3 DEF EvmNext
<1>3. CASE SubstrateNext /\ UNCHANGED <<evmVars, polledVars>>
  BY <1>3 DEF SubstrateNext, SubstrateTasks, SubstrateEmitter, SubstrateStep
<1>4. CASE PolledNext
  BY <1>1, <1>4 DEF PolledNext, PolledTasks, Change, CrashPolled, Spawn, Poll, SynchronizePolled
<1>5. CASE \E k \in kinds : Process(k)
  <2>1. Process(Ix)
    BY <1>1, <1>5
  <2> QED
    BY <2>1 DEF Process, Index, SubstrateStep
<1>6. CASE UNCHANGED vars
  BY <1>6 DEF vars
<1> QED
  BY <1>2, <1>3, <1>4, <1>5, <1>6 DEF Next

(* Blocks are finalized, and their heads announced.                         *)
Finalized(contents) ==
  /\ contents \in Seq(BOOLEAN) /\ Len(contents) \in Nat \ {0} /\ Minted(Len(chain), contents)
  /\ UNCHANGED <<subscribed, syncLevel, emitterVars, indexVars, failure, attempts>>
  /\ heads' \in [Kinds -> Seq(Nat)]
  /\ IF ~Announcing THEN heads' = heads
     ELSE IF "gaps" \in Hazards
       THEN /\ Len(heads'[Ix]) = Len(heads[Ix]) + 1
            /\ \A n \in 1 .. Len(heads[Ix]) : heads'[Ix][n] = heads[Ix][n]
            /\ heads'[Ix][Len(heads[Ix]) + 1] = Len(blocks) + Len(contents)
       ELSE /\ Len(heads'[Ix]) = Len(heads[Ix]) + Len(contents)
            /\ \A n \in 1 .. Len(heads[Ix]) : heads'[Ix][n] = heads[Ix][n]
            /\ \A n \in 1 .. Len(contents) : heads'[Ix][Len(heads[Ix]) + n] = Len(blocks) + n

(* Bounded sequences are sequences.                                         *)
LEMMA BoundedAre ==
  ASSUME NEW n \in Nat, NEW s \in BoundedSeq(BOOLEAN, n) \ {<<>>}
  PROVE  s \in Seq(BOOLEAN) /\ s # <<>>
  BY DEF BoundedSeq, SeqOf

(* That is what Finalize does.                                              *)
LEMMA FinalizeIs ==
  ASSUME SubstrateTypes, Ix' = Ix, Finalize
  PROVE  ChainTypes' /\ \E contents \in Seq(BOOLEAN) : Finalized(contents)
<1>1. PICK contents \in BoundedSeq(BOOLEAN, 2) \ {<<>>} :
       /\ Mint(Len(chain), contents)
       /\ LET new == NewBlocks(contents)
              told == IF "gaps" \in Hazards THEN <<Last(new)>> ELSE new
          IN heads' = IF Announcing THEN [heads EXCEPT !["finalized"] = @ \o told] ELSE heads
  BY DEF Finalize
<1>2. contents \in Seq(BOOLEAN) /\ contents # <<>>
  BY BoundedAre
<1>3. ChainTypes /\ Len(chain) \in 0 .. Len(chain) /\ Len(blocks) \in Nat
  BY BlocksAre DEF SubstrateTypes
<1>4. /\ Minted(Len(chain), contents) /\ ChainTypes' /\ Len(contents) \in Nat \ {0}
      /\ NewBlocks(contents) \in Seq(Nat) /\ Len(NewBlocks(contents)) = Len(contents)
      /\ \A n \in 1 .. Len(contents) : NewBlocks(contents)[n] = Len(blocks) + n
  BY <1>1, <1>2, <1>3, MintIs
<1>5. UNCHANGED <<subscribed, syncLevel, emitterVars, indexVars, failure, attempts>>
  BY <1>1 DEF Mint
<1>6. PICK new \in Seq(Nat) : new = NewBlocks(contents)
  BY <1>4
<1>7. PICK told : told = IF "gaps" \in Hazards THEN <<Last(new)>> ELSE new
  OBVIOUS
<1>8. /\ heads \in [Kinds -> Seq(Nat)] /\ Ix \in Kinds /\ Ix = "finalized"
      /\ heads' = IF Announcing THEN [heads EXCEPT ![Ix] = @ \o told] ELSE heads
  BY <1>1, <1>6, <1>7 DEF SubstrateTypes, Kinds
<1>9. /\ told \in Seq(Nat)
      /\ Len(told) = IF "gaps" \in Hazards THEN 1 ELSE Len(contents)
      /\ "gaps" \in Hazards => told[1] = Len(blocks) + Len(contents)
      /\ "gaps" \notin Hazards => \A n \in 1 .. Len(contents) : told[n] = Len(blocks) + n
  <2>1. CASE "gaps" \in Hazards
    <3>1. Last(new) = new[Len(contents)] /\ Len(contents) \in 1 .. Len(contents)
      BY <1>4, <1>6 DEF Last
    <3>2. Last(new) = Len(blocks) + Len(contents) /\ Last(new) \in Nat
      BY <1>3, <1>4, <1>6, <3>1
    <3>3. <<Last(new)>> \in Seq(Nat) /\ Len(<<Last(new)>>) = 1 /\ <<Last(new)>>[1] = Last(new)
      BY <3>2
    <3> QED
      BY <1>7, <2>1, <3>2, <3>3
  <2>2. CASE "gaps" \notin Hazards
    BY <1>4, <1>6, <1>7, <2>2
  <2> QED
    BY <2>1, <2>2
<1>10. CASE Announcing
  <2>1. heads' = [heads EXCEPT ![Ix] = heads[Ix] \o told]
    BY <1>8, <1>10
  <2>2. heads[Ix] \o told \in Seq(Nat) /\ Joined(heads[Ix] \o told, heads[Ix], told)
    BY <1>8, <1>9, JoinAt
  <2>3. heads' \in [Kinds -> Seq(Nat)] /\ heads'[Ix] = heads[Ix] \o told
    BY <1>8, <2>1, <2>2
  <2>4. /\ Len(heads'[Ix]) = Len(heads[Ix]) + Len(told)
        /\ \A n \in 1 .. Len(heads[Ix]) : heads'[Ix][n] = heads[Ix][n]
        /\ \A n \in 1 .. Len(told) : heads'[Ix][Len(heads[Ix]) + n] = told[n]
    BY <2>2, <2>3 DEF Joined
  <2>5. IF "gaps" \in Hazards
       THEN /\ Len(heads'[Ix]) = Len(heads[Ix]) + 1
            /\ heads'[Ix][Len(heads[Ix]) + 1] = Len(blocks) + Len(contents)
       ELSE /\ Len(heads'[Ix]) = Len(heads[Ix]) + Len(contents)
            /\ \A n \in 1 .. Len(contents) : heads'[Ix][Len(heads[Ix]) + n] = Len(blocks) + n
    <3>1. CASE "gaps" \in Hazards
      <4>1. Len(told) = 1 /\ 1 \in 1 .. Len(told) /\ told[1] = Len(blocks) + Len(contents)
        BY <1>9, <3>1
      <4>2. Len(heads'[Ix]) = Len(heads[Ix]) + 1 /\ heads'[Ix][Len(heads[Ix]) + 1] = told[1]
        BY <2>4, <4>1
      <4> QED
        BY <3>1, <4>1, <4>2
    <3>2. CASE "gaps" \notin Hazards
      <4>1. /\ Len(told) = Len(contents)
            /\ \A n \in 1 .. Len(contents) : told[n] = Len(blocks) + n
        BY <1>9, <3>2
      <4> QED
        BY <2>4, <3>2, <4>1
    <3> QED
      BY <3>1, <3>2
  <2> QED
    BY <1>2, <1>4, <1>5, <1>10, <2>3, <2>4, <2>5 DEF Finalized
<1>11. CASE ~Announcing
  BY <1>2, <1>4, <1>5, <1>8, <1>11 DEF Finalized
<1> QED
  BY <1>2, <1>4, <1>10, <1>11

(* The other steps leave the chain as it is.                                *)
LEMMA SubstrateTypesKept ==
  ASSUME SubstrateTypes, [Next]_vars
  PROVE  /\ SubstrateTypes' /\ Ix' = Ix
         /\ SubstrateStep \/ UNCHANGED <<nodeVars, evmVars>>
         /\ ~Finalize => UNCHANGED <<blocks, chain>>
<1>0. /\ ChainTypes /\ IndexTypes /\ kinds = {Ix} /\ Ix = "finalized" /\ Ix \in Kinds
      /\ heads \in [Kinds -> Seq(Nat)] /\ heads[Ix] \in Seq(Nat)
      /\ \A n \in 1 .. Len(heads[Ix]) : heads[Ix][n] \in Blocks
      /\ emitter \in Seq(Nat) /\ \A n \in 1 .. Len(emitter) : emitter[n] \in Blocks
      /\ attempts \in Nat /\ logs = <<>>
      /\ \A b \in Blocks : b \in Nat /\ Len(chain) \in Nat
  BY BlocksAre DEF SubstrateTypes, Kinds
<1>1. kinds' = kinds /\ Ix' = Ix
  BY KindsStay
<1>2. SubstrateStep \/ UNCHANGED <<nodeVars, evmVars>>
  BY SubstrateSteps
<1>3. CASE Finalize /\ SubstrateStep
  <2>1. ChainTypes'
    BY <1>1, <1>3, FinalizeIs
  <2>2. PICK contents \in Seq(BOOLEAN) : Finalized(contents)
    BY <1>1, <1>3, FinalizeIs
  <2>3. /\ \A b \in Blocks : b \in Blocks'
        /\ \A n \in 1 .. Len(contents) : Len(blocks) + n \in Blocks'
        /\ Len(contents) \in 1 .. Len(contents)
    <3>1. Len(blocks) \in Nat /\ Len(blocks') = Len(blocks) + Len(contents)
      BY <1>0, <2>2, BlocksAre DEF Finalized, Minted
    <3> QED
      BY <2>2, <3>1 DEF Finalized, Blocks
  <2>4. ASSUME NEW n \in 1 .. Len(heads'[Ix]) PROVE heads'[Ix][n] \in Blocks'
    <3>1. CASE ~Announcing
      BY <1>0, <2>2, <2>3, <3>1 DEF Finalized
    <3>2. CASE Announcing
      <4>1. CASE n \in 1 .. Len(heads[Ix])
        BY <1>0, <2>2, <2>3, <3>2, <4>1 DEF Finalized
      <4>2. CASE n \notin 1 .. Len(heads[Ix])
        <5>1. PICK h \in Nat, c \in Nat \ {0} : h = Len(heads[Ix]) /\ c = Len(contents)
          BY <1>0, <2>2 DEF Finalized
        <5>2. CASE "gaps" \in Hazards
          <6>1. n = h + 1
            BY <2>2, <3>2, <4>2, <5>1, <5>2 DEF Finalized
          <6> QED
            BY <2>2, <2>3, <3>2, <5>1, <5>2, <6>1 DEF Finalized
        <5>3. CASE "gaps" \notin Hazards
          <6>1. n - h \in 1 .. c /\ n = h + (n - h)
            BY <2>2, <3>2, <4>2, <5>1, <5>3 DEF Finalized
          <6>2. PICK i \in 1 .. c : n = h + i
            BY <6>1
          <6> QED
            BY <2>2, <2>3, <3>2, <5>1, <5>3, <6>2 DEF Finalized
        <5> QED
          BY <5>2, <5>3
      <4> QED
        BY <4>1, <4>2
    <3> QED
      BY <3>1, <3>2
  <2>5. IndexTypes'
    BY <1>0, <2>2 DEF IndexTypes, Finalized, indexVars
  <2>6. logs' = logs
    BY <1>3 DEF SubstrateStep, evmVars
  <2> QED
    BY <1>0, <1>1, <1>2, <1>3, <2>1, <2>2, <2>3, <2>4, <2>5, <2>6
       DEF SubstrateTypes, Finalized, emitterVars
<1>4. ASSUME UNCHANGED <<blocks, chain>> PROVE ChainTypes' /\ Blocks' = Blocks
  BY <1>0, <1>4, ChainTypesStay
<1>5. CASE SubstrateStep /\ (DisconnectSubstrate \/ CrashSubstrate)
  <2>1. /\ UNCHANGED <<blocks, chain, level, rows, logs>>
        /\ subscribed' \in {"no", "torn"} /\ syncLevel' \in Int
        /\ heads' = [k \in Kinds |-> <<>>]
        /\ \/ UNCHANGED <<emitter, pc, current, queue, draining, attempts>>
           \/ /\ emitter' = <<>> /\ pc' = "head" /\ attempts' = 0
              /\ queue' = [k \in Kinds |-> <<>>] /\ draining' = [k \in Kinds |-> FALSE]
    BY <1>0, <1>5 DEF DisconnectSubstrate, Disconnected, CrashSubstrate, Restarted, emitterVars,
       indexVars, SubstrateStep, evmVars
  <2>2. heads' \in [Kinds -> Seq(Nat)] /\ Len(heads'[Ix]) = 0
    BY <1>0, <2>1, NoElements
  <2>3. CASE UNCHANGED <<emitter, pc, current, queue, draining, attempts>>
    <3>1. IndexTypes'
      BY <1>0, <2>1, <2>3 DEF IndexTypes
    <3> QED
      BY <1>0, <1>1, <1>2, <1>4, <2>1, <2>2, <2>3, <3>1 DEF SubstrateTypes
  <2>4. CASE /\ emitter' = <<>> /\ pc' = "head" /\ attempts' = 0
             /\ queue' = [k \in Kinds |-> <<>>] /\ draining' = [k \in Kinds |-> FALSE]
    <3>1. queue' \in [Kinds -> Seq(Messages)] /\ draining' \in [Kinds -> BOOLEAN]
          /\ emitter' \in Seq(Nat) /\ Len(emitter') = 0
      BY <2>4, NoElements
    <3>2. IndexTypes'
      BY <1>0, <2>1, <3>1 DEF IndexTypes
    <3> QED
      BY <1>0, <1>1, <1>2, <1>4, <2>1, <2>2, <2>4, <3>1, <3>2 DEF SubstrateTypes
  <2> QED
    BY <2>1, <2>3, <2>4
<1>6. CASE SubstrateStep /\ (RefuseSubstrate \/ SubscribeFinalized \/ StoreId \/ SetSyncLevel)
  <2>1. /\ UNCHANGED <<blocks, chain, heads, emitter, pc, current, logs>>
        /\ UNCHANGED <<queue, draining, level, rows>>
        /\ subscribed' \in {subscribed, "asked", "stored", "yes", "deaf"}
        /\ attempts' \in {attempts, attempts + 1}
    BY <1>6 DEF RefuseSubstrate, Refuse, SubscribeFinalized, Requested, StoreId, SetSyncLevel,
       chainVars, emitterVars, indexVars, SubstrateStep, evmVars
  <2>2. syncLevel' \in Int
    <3>1. CASE SetSyncLevel
      <4>1. PICK unseen \in 0 .. Len(heads[Ix]) : syncLevel' = Len(chain) - unseen
        BY <1>0, <3>1 DEF SetSyncLevel
      <4> QED
        BY <1>0, <4>1, BlocksAre
    <3>2. CASE RefuseSubstrate \/ SubscribeFinalized \/ StoreId
      BY <1>0, <3>2 DEF RefuseSubstrate, Refuse, SubscribeFinalized, Requested, StoreId, IndexTypes
    <3> QED
      BY <1>6, <3>1, <3>2
  <2>3. IndexTypes'
    BY <1>0, <2>1, <2>2 DEF IndexTypes
  <2> QED
    BY <1>0, <1>1, <1>2, <1>4, <2>1, <2>3 DEF SubstrateTypes
<1>7. CASE SubstrateStep /\ ReceiveFinalized
  <2>1. /\ UNCHANGED <<blocks, chain, pc, current, queue, draining, level, rows, logs, subscribed,
                       syncLevel, attempts>>
        /\ heads[Ix] # <<>> /\ emitter' = Append(emitter, Head(heads[Ix]))
        /\ heads' = [heads EXCEPT ![Ix] = Tail(@)]
    BY <1>0, <1>7 DEF ReceiveFinalized, Notified, chainVars, indexVars, SubstrateStep, evmVars
  <2>2. /\ Head(heads[Ix]) = heads[Ix][1] /\ Head(heads[Ix]) \in Nat
        /\ Tail(heads[Ix]) \in Seq(Nat) /\ Len(heads[Ix]) \in Nat \ {0}
        /\ Len(Tail(heads[Ix])) = Len(heads[Ix]) - 1
        /\ \A n \in 1 .. Len(heads[Ix]) - 1 : Tail(heads[Ix])[n] = heads[Ix][n + 1]
    BY <1>0, <2>1, HeadTail
  <2>3. heads' \in [Kinds -> Seq(Nat)] /\ heads'[Ix] = Tail(heads[Ix])
    BY <1>0, <2>1, <2>2
  <2>4. ASSUME NEW n \in 1 .. Len(heads'[Ix]) PROVE heads'[Ix][n] \in Blocks
    <3>1. n + 1 \in 1 .. Len(heads[Ix]) /\ heads'[Ix][n] = heads[Ix][n + 1]
      BY <2>2, <2>3
    <3> QED
      BY <1>0, <3>1
  <2>5. /\ emitter' \in Seq(Nat) /\ Len(emitter) \in Nat /\ Len(emitter') = Len(emitter) + 1
        /\ \A n \in 1 .. Len(emitter) : emitter'[n] = emitter[n]
        /\ emitter'[Len(emitter) + 1] = Head(heads[Ix])
    BY <1>0, <2>1, <2>2, AppendAt
  <2>6. ASSUME NEW n \in 1 .. Len(emitter') PROVE emitter'[n] \in Blocks
    <3>1. Head(heads[Ix]) \in Blocks
      <4>1. 1 \in 1 .. Len(heads[Ix])
        BY <2>2
      <4> QED
        BY <1>0, <2>2, <4>1
    <3>2. n \in 1 .. Len(emitter) \/ n = Len(emitter) + 1
      BY <2>5
    <3> QED
      BY <1>0, <2>5, <3>1, <3>2
  <2>7. IndexTypes'
    BY <1>0, <2>1 DEF IndexTypes
  <2> QED
    BY <1>0, <1>1, <1>2, <1>4, <2>1, <2>3, <2>4, <2>5, <2>6, <2>7 DEF SubstrateTypes
<1>8. CASE SubstrateStep /\ EmitFinalized
  <2>1. /\ UNCHANGED <<blocks, chain, queue, draining, level, rows, logs, subscribed, heads,
                       syncLevel, attempts>>
        /\ emitter # <<>> /\ emitter' = Tail(emitter) /\ current' = Head(emitter) /\ pc' = "events"
    BY <1>8 DEF EmitFinalized, chainVars, feedVars, indexVars, SubstrateStep, evmVars
  <2>2. /\ Head(emitter) = emitter[1] /\ Len(emitter) \in Nat \ {0} /\ emitter' \in Seq(Nat)
        /\ Len(emitter') = Len(emitter) - 1
        /\ \A n \in 1 .. Len(emitter) - 1 : emitter'[n] = emitter[n + 1]
    BY <1>0, <2>1, HeadTail
  <2>3. current' \in Blocks
    <3>1. 1 \in 1 .. Len(emitter)
      BY <2>2
    <3> QED
      BY <1>0, <2>1, <2>2, <3>1
  <2>4. ASSUME NEW n \in 1 .. Len(emitter') PROVE emitter'[n] \in Blocks
    <3>1. n + 1 \in 1 .. Len(emitter) /\ emitter'[n] = emitter[n + 1]
      BY <2>2
    <3> QED
      BY <1>0, <3>1
  <2>5. IndexTypes'
    BY <1>0, <2>1 DEF IndexTypes
  <2> QED
    BY <1>0, <1>1, <1>2, <1>4, <2>1, <2>2, <2>3, <2>4, <2>5 DEF SubstrateTypes
<1>9. CASE SubstrateStep /\ EmitBlockEvents
  <2>1. /\ UNCHANGED <<blocks, chain, draining, level, rows, logs, subscribed, heads,
                       syncLevel, attempts, emitter, current>>
        /\ pc = "events" /\ pc' = "head"
        /\ queue' = [queue EXCEPT ![Ix] = Append(@, EventsOf(current))]
    BY <1>0, <1>9 DEF EmitBlockEvents, OnSubstrateEvents, Push, chainVars, feedVars, SubstrateStep,
       evmVars
  <2>2. EventsOf(current) \in Messages
    <3>1. current \in Blocks
      BY <2>1 DEF SubstrateTypes
    <3>2. DataMsg(current, {}) \in Messages /\ EmptyMsg(current) \in Messages
      BY <1>0, <3>1, MessagesAre
    <3>3. [EmptyMsg(current) EXCEPT !.kind = "data"] \in Messages
      BY <3>2 DEF EmptyMsg, Messages
    <3> QED
      BY <3>2, <3>3 DEF EventsOf
  <2>3. queue' \in [Kinds -> Seq(Messages)]
    BY <1>0, <2>1, <2>2, QueueTypes DEF IndexTypes
  <2>4. IndexTypes'
    BY <1>0, <2>1, <2>3 DEF IndexTypes
  <2> QED
    BY <1>0, <1>1, <1>2, <1>4, <2>1, <2>4 DEF SubstrateTypes
<1>10. CASE SubstrateStep /\ (Synchronize(Ix) \/ ProcessData(Ix) \/ ProcessRollback(Ix))
  <2>1. /\ UNCHANGED <<blocks, chain, logs, subscribed, heads, syncLevel, attempts>>
        /\ UNCHANGED <<emitter, pc, current>>
    BY <1>10 DEF Synchronize, ProcessData, ProcessRollback, chainVars, feedVars, emitterVars,
       SubstrateStep, evmVars
  <2>2. IndexTypes'
    BY <1>0, <1>10, IndexTypesKept
  <2> QED
    BY <1>0, <1>1, <1>2, <1>4, <2>1, <2>2 DEF SubstrateTypes
<1>11. CASE UNCHANGED <<nodeVars, evmVars>>
  <2>1. /\ UNCHANGED <<blocks, chain, logs, subscribed, heads, syncLevel, attempts>>
        /\ UNCHANGED <<emitter, pc, current>>
        /\ UNCHANGED <<queue, draining, level, rows>>
    BY <1>11 DEF nodeVars, evmVars, chainVars, feedVars, emitterVars, indexVars
  <2>2. IndexTypes'
    BY <1>0, <2>1 DEF IndexTypes
  <2> QED
    BY <1>0, <1>1, <1>2, <1>4, <2>1, <2>2 DEF SubstrateTypes
<1> QED
  BY <1>2, <1>3, <1>5, <1>6, <1>7, <1>8, <1>9, <1>10, <1>11 DEF SubstrateStep

(* The types hold at first.                                                 *)
LEMMA SubstrateTypesStart ==
  ASSUME Init, ofSubstrate
  PROVE  SubstrateTypes
<1>1. Ix = "finalized" /\ kinds = {Ix} /\ Ix \in Kinds
  BY DEF ofSubstrate, Ix, Kinds
<1>2. blocks = <<[level |-> 1, full |-> TRUE]>> /\ chain = <<1>>
  BY DEF Init, NodeInit
<1>3. ChainTypes
  <2>1. /\ blocks \in Seq(BlockRecords) /\ Len(blocks) = 1 /\ blocks[1].level = 1
        /\ chain \in Seq(Nat) /\ Len(chain) = 1 /\ chain[1] = 1
    BY <1>2 DEF BlockRecords
  <2>2. MaxLevel \in Nat \ {0} /\ MaxBlocks \in Nat \ {0}
    BY NodeAssumption
  <2> QED
    BY <2>1, <2>2 DEF ChainTypes, Blocks, Lv
<1>4. /\ queue \in [Kinds -> Seq(Messages)] /\ heads \in [Kinds -> Seq(Nat)] /\ heads[Ix] = <<>>
      /\ emitter = <<>>
  BY <1>1, NoElements DEF Init, NodeInit
<1>5. rows \in [Kinds -> [Levels -> Rows]]
  BY DEF Init, NodeInit, NoRows, Rows
<1>6. IndexTypes
  BY <1>4, <1>5 DEF IndexTypes, Init, NodeInit
<1>7. Len(heads[Ix]) = 0 /\ Len(emitter) = 0 /\ emitter \in Seq(Nat)
  BY <1>4, NoElements
<1> QED
  BY <1>1, <1>3, <1>4, <1>6, <1>7 DEF SubstrateTypes, Init, NodeInit, EvmInit

(* Its indexer gets through.                                                *)
SubstrateSound == SubstrateTypes /\ NoneEmpty /\ failure = "none"
Spared == {"early_notification", "lost_answer", "retries", "eventless"} \intersect Hazards = {}

(* No step makes it fail.                                                   *)
LEMMA SubstrateSoundKept ==
  ASSUME SubstrateSound, Spared, [Next]_vars
  PROVE  SubstrateSound'
<1>1. /\ SubstrateTypes' /\ Ix' = Ix /\ (SubstrateStep \/ UNCHANGED <<nodeVars, evmVars>>)
      /\ SubstrateTypes
  BY SubstrateTypesKept DEF SubstrateSound
<1>2. IndexTypes /\ Ix \in Kinds /\ Ix = "finalized" /\ Len(Queue) \in Nat
  BY <1>1 DEF SubstrateTypes, IndexTypes, Kinds, Queue
<1>3. CASE Finalize
  <2>1. PICK contents \in Seq(BOOLEAN) : Finalized(contents)
    BY <1>1, <1>3, FinalizeIs
  <2>2. QStays /\ failure' = failure
    BY <1>1, <2>1 DEF Finalized, indexVars, QStays, Queue
  <2> QED
    BY <1>1, <1>2, <2>2, NoneEmptyKept DEF SubstrateSound
<1>4. CASE \/ DisconnectSubstrate \/ RefuseSubstrate \/ SubscribeFinalized \/ StoreId
           \/ SetSyncLevel \/ ReceiveFinalized \/ EmitFinalized
  <2>1. QStays
    BY <1>1, <1>4 DEF DisconnectSubstrate, Disconnected, RefuseSubstrate, Refuse,
       SubscribeFinalized, Requested, StoreId, SetSyncLevel, ReceiveFinalized, Notified,
       EmitFinalized, indexVars, QStays, Queue
  <2>2. failure' = "none"
    <3>1. CASE RefuseSubstrate
      <4>1. attempts \in Nat /\ RetryCount \in Nat /\ attempts + 1 < RetryCount
        BY <1>1, <3>1, NodeAssumption DEF SubstrateTypes, RefuseSubstrate, Refuse, Spared
      <4>2. attempts + 1 # RetryCount
        BY <4>1
      <4> QED
        BY <3>1, <4>2 DEF RefuseSubstrate, Refuse
    <3>2. CASE ~RefuseSubstrate
      BY <1>4, <3>2 DEF DisconnectSubstrate, Disconnected, SubscribeFinalized, Requested, StoreId,
         SetSyncLevel, ReceiveFinalized, Notified, EmitFinalized, Spared, SubstrateSound
    <3> QED
      BY <3>1, <3>2
  <2> QED
    BY <1>1, <1>2, <2>1, <2>2, NoneEmptyKept DEF SubstrateSound
<1>5. CASE CrashSubstrate
  <2>1. QCleared /\ failure' = failure
    BY <1>1, <1>2, <1>5, NoElements DEF CrashSubstrate, Restarted, QCleared, Queue
  <2> QED
    BY <1>1, <1>2, <2>1, NoneEmptyKept DEF SubstrateSound
<1>6. CASE EmitBlockEvents
  <2>1. /\ queue' = [queue EXCEPT ![Ix] = Append(@, EventsOf(current))] /\ failure' = failure
        /\ current \in Blocks
    BY <1>1, <1>2, <1>6 DEF EmitBlockEvents, OnSubstrateEvents, Push, SubstrateTypes
  <2>2. EventsOf(current) \in Messages /\ EventsOf(current).kind # "empty"
    <3>1. DataMsg(current, {}) \in Messages /\ EmptyMsg(current) \in Messages
      BY <1>1, <2>1, MessagesAre DEF SubstrateTypes
    <3>2. [EmptyMsg(current) EXCEPT !.kind = "data"] \in Messages
      BY <3>1 DEF EmptyMsg, Messages
    <3> QED
      BY <3>1, <3>2 DEF EventsOf, Spared, DataMsg, EmptyMsg
  <2>3. QPushed(EventsOf(current))
    BY <1>1, <1>2, <2>1, <2>2, PushIs
  <2> QED
    BY <1>1, <1>2, <2>1, <2>2, <2>3, NoneEmptyKept DEF SubstrateSound
<1>7. CASE Synchronize(Ix) \/ ProcessData(Ix) \/ ProcessRollback(Ix)
  <2>1. Synced \/ DataTaken \/ RollbackTaken
    BY <1>1, <1>2, <1>7, IndexSteps
  <2>2. QCleared \/ QPopped
    BY <2>1 DEF Synced, DataTaken, RollbackTaken, Taken
  <2>3. failure' = "none"
    <3>1. CASE DataTaken
      <4>1. 1 \in 1 .. Len(Queue)
        BY <1>2, <3>1 DEF DataTaken, Taken, QPopped
      <4> QED
        BY <3>1, <4>1 DEF DataTaken, SubstrateSound, NoneEmpty
    <3>2. CASE Synced \/ RollbackTaken
      BY <3>2 DEF Synced, RollbackTaken, SubstrateSound
    <3> QED
      BY <2>1, <3>1, <3>2
  <2> QED
    BY <1>1, <1>2, <2>2, <2>3, NoneEmptyKept DEF SubstrateSound
<1>8. CASE UNCHANGED <<nodeVars, evmVars>>
  <2>1. QStays /\ failure' = failure
    BY <1>1, <1>8 DEF nodeVars, indexVars, QStays, Queue
  <2> QED
    BY <1>1, <1>2, <2>1, NoneEmptyKept DEF SubstrateSound
<1> QED
  BY <1>1, <1>3, <1>4, <1>5, <1>6, <1>7, <1>8 DEF SubstrateStep

-----------------------------------------------------------------------------
(* A datasource that is polled.                                             *)

PolledTypes ==
  /\ kinds = {Ix} /\ Ix \in {"polled", "subsquid"}
  /\ ChainTypes /\ IndexTypes
  /\ subscribed = "no" /\ emitter = <<>> /\ logs = <<>> /\ pc = "head"
  /\ Queue = <<>> /\ draining[Ix] = FALSE

(* The steps of an indexer of such a datasource.                            *)
LEMMA PolledSteps ==
  ASSUME PolledTypes, [Next]_vars
  PROVE  /\ UNCHANGED evmVars
         /\ \/ (\E to \in 0 .. MaxLevel : Change(to)) \/ CrashPolled \/ Spawn \/ Poll
            \/ SynchronizePolled(Ix) \/ UNCHANGED nodeVars
<1>1. /\ ~ofEvm /\ ~ofSubstrate /\ ~Websockets /\ pc = "head"
      /\ logs = <<>> /\ kinds = {Ix} /\ \A k \in kinds : k = Ix /\ k \notin EvmKinds
  BY DEF PolledTypes, ofEvm, ofSubstrate, Websockets, EvmKinds
<1>2. CASE EvmNext
  <2>1. CASE Websocket
    <3>1. ~ReceiveLog
      BY <1>1 DEF ReceiveLog
    <3>2. ~ \E k \in kinds : ReceiveHead(k)
      BY <1>1 DEF ReceiveHead
    <3> QED
      BY <1>1, <2>1, <3>1, <3>2 DEF Websocket, Subscribe, StoreSubscription, SetLevel
  <2>2. CASE Emitter
    BY <1>1, <2>2 DEF Emitter, EmitHead, EmitEvents, EmitTransactions, Forget
  <2>3. CASE Extend \/ (\E to \in 0 .. MaxLevel : Reorg(to)) \/ Disconnect \/ Crash \/ Watchdog
    BY <1>1, <2>3 DEF Extend, MintEvm, Reorg, Disconnect, Crash, Watchdog
  <2> QED
    BY <1>2, <2>1, <2>2, <2>3 DEF EvmNext
<1>3. CASE SubstrateNext
  BY <1>1, <1>3 DEF SubstrateNext, SubstrateTasks, SubstrateEmitter, Finalize,
     DisconnectSubstrate, CrashSubstrate, RefuseSubstrate, SubscribeFinalized, StoreId,
     SetSyncLevel, ReceiveFinalized, EmitFinalized, EmitBlockEvents
<1>4. CASE PolledNext /\ UNCHANGED evmVars
  BY <1>1, <1>4 DEF PolledNext, PolledTasks
<1>5. CASE \E k \in kinds : Process(k)
  BY <1>1, <1>5 DEF Process
<1>6. CASE UNCHANGED vars
  BY <1>6 DEF vars
<1> QED
  BY <1>2, <1>3, <1>4, <1>5, <1>6 DEF Next

(* A block more, or blocks replaced.                                        *)
LEMMA ChangeIs ==
  ASSUME PolledTypes, Ix' = Ix, NEW to \in 0 .. MaxLevel, Change(to)
  PROVE  /\ ChainTypes' /\ to \in 0 .. Len(chain)
         /\ \E full \in BOOLEAN : Minted(to, <<full>>)
         /\ UNCHANGED <<subscribed, syncLevel, failure, emitterVars, indexVars>>
         /\ to = Len(chain) \/ "unnoticed" \in Hazards \/ to >= Max({level[Ix], syncLevel})
<1>1. PICK full \in BOOLEAN : Mint(to, <<full>>)
  BY DEF Change
<1>2. <<full>> \in Seq(BOOLEAN) /\ <<full>> # <<>>
  OBVIOUS
<1>3. Len(chain) \in Nat /\ ChainTypes /\ Ix \in kinds
  BY BlocksAre DEF PolledTypes
<1>4. to \in 0 .. Len(chain)
  BY <1>3 DEF Change
<1>5. Minted(to, <<full>>) /\ ChainTypes'
  BY <1>1, <1>2, <1>3, <1>4, MintIs
<1>6. UNCHANGED <<subscribed, syncLevel, failure, emitterVars, indexVars>>
  BY <1>1 DEF Mint
<1>7. to = Len(chain) \/ "unnoticed" \in Hazards \/ to >= Max({level[Ix], syncLevel})
  <2>1. ~(to < Len(chain)) => to = Len(chain)
    BY <1>3, <1>4
  <2> QED
    BY <1>3, <2>1 DEF Change
<1> QED
  BY <1>4, <1>5, <1>6, <1>7

(* They keep the types,                                                     *)
LEMMA PolledTypesKept ==
  ASSUME PolledTypes, [Next]_vars
  PROVE  PolledTypes' /\ Ix' = Ix
<1>0. /\ ChainTypes /\ IndexTypes /\ kinds = {Ix} /\ Ix \in Kinds /\ Queue = <<>>
      /\ Len(chain) \in Nat /\ subscribed = "no" /\ emitter = <<>> /\ logs = <<>> /\ pc = "head"
      /\ draining[Ix] = FALSE /\ Ix \in {"polled", "subsquid"}
      /\ \A b \in Blocks : b \in Nat
  BY BlocksAre DEF PolledTypes, Kinds
<1>1. kinds' = kinds /\ Ix' = Ix /\ logs' = logs
  BY KindsStay, PolledSteps DEF evmVars
<1>2. CASE \E to \in 0 .. MaxLevel : Change(to)
  <2>1. PICK to \in 0 .. MaxLevel : Change(to)
    BY <1>2
  <2>2. ChainTypes' /\ UNCHANGED <<subscribed, syncLevel, failure, emitterVars, indexVars>>
    BY <1>1, <2>1, ChangeIs
  <2>3. IndexTypes'
    BY <1>0, <2>2 DEF IndexTypes, indexVars
  <2> QED
    BY <1>0, <1>1, <2>2, <2>3 DEF PolledTypes, emitterVars, indexVars, Queue
<1>3. CASE CrashPolled
  <2>1. /\ UNCHANGED <<blocks, chain, level, rows>>
        /\ subscribed' = "no" /\ syncLevel' = Len(chain) /\ emitter' = <<>> /\ pc' = "head"
        /\ queue' = [k \in Kinds |-> <<>>] /\ draining' = [k \in Kinds |-> FALSE]
    BY <1>3 DEF CrashPolled, Restarted
  <2>2. ChainTypes'
    BY <1>0, <2>1, ChainTypesStay
  <2>3. queue' \in [Kinds -> Seq(Messages)] /\ draining' \in [Kinds -> BOOLEAN]
        /\ Queue' = <<>> /\ draining'[Ix] = FALSE
    BY <1>0, <1>1, <2>1, NoElements DEF Queue
  <2>4. IndexTypes'
    BY <1>0, <2>1, <2>3 DEF IndexTypes
  <2> QED
    BY <1>0, <1>1, <2>1, <2>2, <2>3, <2>4 DEF PolledTypes
<1>4. CASE Spawn \/ Poll \/ UNCHANGED nodeVars
  <2>1. /\ UNCHANGED <<blocks, chain, level, rows, subscribed, emitter, pc, queue, draining>>
        /\ syncLevel' = syncLevel \/ syncLevel' \in 0 .. Len(chain)
    BY <1>4 DEF Spawn, Poll, nodeVars, chainVars, feedVars, emitterVars, indexVars
  <2>2. ChainTypes'
    BY <1>0, <2>1, ChainTypesStay
  <2>3. IndexTypes'
    <3>1. syncLevel' \in Int
      BY <1>0, <2>1 DEF IndexTypes
    <3> QED
      BY <1>0, <2>1, <3>1 DEF IndexTypes
  <2> QED
    BY <1>0, <1>1, <2>1, <2>2, <2>3 DEF PolledTypes, Queue
<1>5. CASE SynchronizePolled(Ix)
  <2>1. Synchronize(Ix) /\ UNCHANGED <<blocks, chain, subscribed, emitter, pc, draining>>
    BY <1>5 DEF SynchronizePolled, Synchronize, chainVars, feedVars, emitterVars
  <2>2. ChainTypes'
    BY <1>0, <2>1, ChainTypesStay
  <2>3. IndexTypes'
    BY <1>0, <2>1, IndexTypesKept
  <2>4. Queue' = <<>>
    BY <1>0, <1>1, <2>1 DEF Synchronize, IndexTypes, Queue
  <2> QED
    BY <1>0, <1>1, <2>1, <2>2, <2>3, <2>4 DEF PolledTypes
<1> QED
  BY <1>2, <1>3, <1>4, <1>5, PolledSteps

(* which hold at first.                                                     *)
LEMMA PolledTypesStart ==
  ASSUME Init, ofPolled
  PROVE  PolledTypes
<1>1. Ix \in {"polled", "subsquid"} /\ kinds = {Ix} /\ Ix \in Kinds
  <2>1. kinds \in ((SUBSET EvmKinds) \ {{}}) \cup {{k} : k \in Kinds \ EvmKinds}
    BY DEF Init, NodeInit
  <2>2. kinds \notin SUBSET EvmKinds
    BY DEF ofPolled, Websockets, EvmKinds
  <2>3. PICK k \in Kinds \ EvmKinds : kinds = {k}
    BY <2>1, <2>2
  <2>4. k \in {"polled", "subsquid"}
    BY <2>3 DEF ofPolled, Websockets
  <2>5. Ix = k
    BY <2>3 DEF Ix
  <2> QED
    BY <2>3, <2>4, <2>5
<1>2. blocks = <<[level |-> 1, full |-> TRUE]>> /\ chain = <<1>>
  BY DEF Init, NodeInit
<1>3. ChainTypes
  <2>1. /\ blocks \in Seq(BlockRecords) /\ Len(blocks) = 1 /\ blocks[1].level = 1
        /\ chain \in Seq(Nat) /\ Len(chain) = 1 /\ chain[1] = 1
    BY <1>2 DEF BlockRecords
  <2>2. MaxLevel \in Nat \ {0} /\ MaxBlocks \in Nat \ {0}
    BY NodeAssumption
  <2> QED
    BY <2>1, <2>2 DEF ChainTypes, Blocks, Lv
<1>4. queue \in [Kinds -> Seq(Messages)]
  BY NoElements DEF Init, NodeInit
<1>5. rows \in [Kinds -> [Levels -> Rows]]
  BY DEF Init, NodeInit, NoRows, Rows
<1>6. IndexTypes
  BY <1>4, <1>5 DEF IndexTypes, Init, NodeInit
<1> QED
  BY <1>1, <1>3, <1>6 DEF PolledTypes, Init, NodeInit, EvmInit, Queue

(* Its indexer gets through.                                                *)
LEMMA PolledNeverFails ==
  ASSUME PolledTypes, failure = "none", "not_ready" \notin Hazards, [Next]_vars
  PROVE  failure' = "none"
<1>1. Ix' = Ix
  BY KindsStay
<1>2. CASE \E to \in 0 .. MaxLevel : Change(to)
  BY <1>1, <1>2, ChangeIs
<1>3. CASE CrashPolled \/ Spawn \/ SynchronizePolled(Ix) \/ UNCHANGED nodeVars
  BY <1>3 DEF CrashPolled, Restarted, Spawn, SynchronizePolled, Synchronize, nodeVars
<1>4. CASE Poll
  BY <1>4 DEF Poll
<1> QED
  BY <1>2, <1>3, <1>4, PolledSteps

-----------------------------------------------------------------------------
(* No task fails, whatever the system.                                      *)

(* There is one of the three systems, and it stays.                         *)
LEMMA Systems ==
  /\ Init => ofEvm \/ ofSubstrate \/ ofPolled
  /\ [Next]_vars => ofEvm' = ofEvm /\ ofSubstrate' = ofSubstrate /\ ofPolled' = ofPolled
<1>1. ASSUME Init PROVE ofEvm \/ ofSubstrate \/ ofPolled
  <2>1. kinds \in ((SUBSET EvmKinds) \ {{}}) \cup {{k} : k \in Kinds \ EvmKinds}
    BY <1>1 DEF Init, NodeInit
  <2>2. CASE kinds \in SUBSET EvmKinds
    BY <2>2 DEF ofEvm
  <2>3. CASE \E k \in Kinds \ EvmKinds : kinds = {k}
    BY <2>3 DEF Kinds, EvmKinds, ofSubstrate, ofPolled, Websockets
  <2> QED
    BY <2>1, <2>2, <2>3
<1>2. ASSUME [Next]_vars
      PROVE  ofEvm' = ofEvm /\ ofSubstrate' = ofSubstrate /\ ofPolled' = ofPolled
  <2>1. kinds' = kinds
    BY <1>2, KindsStay
  <2> QED
    BY <2>1, Zenon DEF ofEvm, ofSubstrate, ofPolled, Websockets
<1> QED
  BY <1>1, <1>2

GettingThrough ==
  /\ ofEvm \/ ofSubstrate \/ ofPolled
  /\ ofEvm => Sound
  /\ ofSubstrate => SubstrateSound
  /\ ofPolled => PolledTypes /\ failure = "none"

(* The emitter and the Websocket task get through without an exception, and *)
(* so do the indexes: `del _level_data[...]' finds its key, the transactions*)
(* of a level their block, a notification its subscription, an index data   *)
(* in each message.                                                         *)
THEOREM TasksGetThrough ==
  ASSUME {"both_kinds", "shorter", "early_notification", "lost_answer", "retries", "eventless",
          "not_ready"} \intersect Hazards = {}
  PROVE  Spec => []NeverFails
<1>1. Single /\ Unharmed /\ Spared /\ "not_ready" \notin Hazards
  BY DEF Single, Unharmed, Spared
<1>2. Init => GettingThrough
  <2> SUFFICES ASSUME Init PROVE GettingThrough
    OBVIOUS
  <2>1. ofEvm \/ ofSubstrate \/ ofPolled
    BY Systems
  <2>2. ofEvm => Sound
    BY <1>1, SoundStart
  <2>3. ofSubstrate => SubstrateSound
    <3> SUFFICES ASSUME ofSubstrate PROVE SubstrateSound
      OBVIOUS
    <3>1. SubstrateTypes
      BY SubstrateTypesStart
    <3>2. Len(Queue) = 0 /\ failure = "none"
      BY <3>1, NoElements DEF Init, NodeInit, Queue, SubstrateTypes, Kinds
    <3> QED
      BY <3>1, <3>2 DEF SubstrateSound, NoneEmpty
  <2>4. ofPolled => PolledTypes /\ failure = "none"
    BY PolledTypesStart DEF Init, NodeInit
  <2> QED
    BY <2>1, <2>2, <2>3, <2>4 DEF GettingThrough
<1>3. GettingThrough /\ [Next]_vars => GettingThrough'
  <2> SUFFICES ASSUME GettingThrough, [Next]_vars PROVE GettingThrough'
    OBVIOUS
  <2>1. ofEvm' = ofEvm /\ ofSubstrate' = ofSubstrate /\ ofPolled' = ofPolled
    BY Systems
  <2>2. ofEvm => Sound'
    BY <1>1, SoundKept DEF GettingThrough
  <2>3. ofSubstrate => SubstrateSound'
    BY <1>1, SubstrateSoundKept DEF GettingThrough
  <2>4. ofPolled => PolledTypes' /\ failure' = "none"
    BY <1>1, PolledTypesKept, PolledNeverFails DEF GettingThrough
  <2> QED
    BY <2>1, <2>2, <2>3, <2>4 DEF GettingThrough
<1>4. GettingThrough => NeverFails
  BY DEF GettingThrough, Sound, SubstrateSound, NeverFails
<1> QED
  BY <1>2, <1>3, <1>4, PTL DEF Spec

-----------------------------------------------------------------------------
(* An EVM node: where the levels turn.                                      *)

(* The emitter goes on with the element it is at, whose level it knows.     *)
CurrentStays ==
  /\ pc' # "head" => pc # "head" /\ current' = current
  /\ \A o \in 1 .. Len(objects) : BlockOf(o)' = BlockOf(o) /\ BlockOf(o) \in Blocks
  /\ \A b \in Blocks : Lv(b)' = Lv(b)

(* Only EmitHead and Crash take it elsewhere.                               *)
LEMMA StaysCurrent ==
  ASSUME EvmTypes, Ix' = Ix, StepKinds
  PROVE  EmitHead \/ Crash \/ (CurrentStays /\ known' = known)
<1>1. /\ \A o \in 1 .. Len(objects) : BlockOf(o) \in Blocks
  BY DEF EvmTypes, ObjectTypes
<1>2. CASE \E to \in 0 .. Len(chain), contents \in Seq(BOOLEAN) : Branch(to, contents)
  <2>1. /\ UNCHANGED <<pc, current, objects, known>> /\ \A b \in Blocks : Lv(b)' = Lv(b)
    BY <1>2, BranchFacts
  <2> QED
    BY <1>1, <2>1 DEF CurrentStays, BlockOf
<1>3. CASE Disconnect
  BY <1>1, <1>3 DEF CurrentStays, BlockOf, Lv, Disconnect, Disconnected, emitterVars
<1>4. CASE ReceiveLog
  <2>1. UNCHANGED <<blocks, pc, current, known>>
    BY <1>4 DEF ReceiveLog, Notified, chainVars
  <2>2. PICK b \in Blocks, object \in LevelDatas : LogReceived(b, object)
    BY <1>4, ReceiveLogIs
  <2> QED
    BY <1>1, <2>1, <2>2 DEF CurrentStays, LogReceived, Filed, BlockOf, Lv
<1>5. CASE ReceiveHead(Ix)
  <2>1. UNCHANGED <<blocks, pc, current, known>>
    BY <1>5 DEF ReceiveHead, Notified, chainVars
  <2>2. PICK b \in Blocks, object \in LevelDatas : HeadReceived(b, object)
    BY <1>5, ReceiveHeadIs
  <2> QED
    BY <1>1, <2>1, <2>2 DEF CurrentStays, HeadReceived, Filed, BlockOf, Lv
<1>6. CASE Asking \/ Handling
  BY <1>1, <1>6, AskingIs DEF CurrentStays, BlockOf, Lv, Handling, EmitEvents, EmitTransactions,
     Forget, Synchronize, ProcessData, ProcessRollback, chainVars,
     emitterVars, evmVars, nodeVars
<1> QED
  BY <1>2, <1>3, <1>4, <1>5, <1>6 DEF StepKinds, Feeding

Knows == pc # "head" => Lv(BlockOf(current)) = known

(* Every step keeps this.                                                   *)
LEMMA KnowsKept ==
  ASSUME EvmTypes, EvmTypes', Ix' = Ix, Knows, StepKinds
  PROVE  Knows'
<1>1. CASE EmitHead
  <2>1. objects' = objects /\ blocks' = blocks
    BY <1>1 DEF EmitHead, chainVars
  <2>2. AheadMoves
    BY <1>1, EmitAhead
  <2> QED
    BY <2>1, <2>2 DEF AheadMoves, Knows, Lv, BlockOf
<1>2. CASE Crash
  BY <1>2 DEF Crash, Restarted, Knows
<1>3. CASE CurrentStays /\ known' = known
  <2>1. pc # "head" => current \in 1 .. Len(objects)
    BY DEF EvmTypes, EmitterTypes
  <2> SUFFICES ASSUME pc' # "head" PROVE blocks'[objects'[current'].block].level = known'
    BY DEF Knows, Lv, BlockOf
  <2>2. pc # "head" /\ current' = current /\ current \in 1 .. Len(objects)
    BY <1>3, <2>1 DEF CurrentStays
  <2>3. /\ objects'[current].block = BlockOf(current)
        /\ blocks'[BlockOf(current)].level = Lv(BlockOf(current))
    BY <1>3, <2>2 DEF CurrentStays, BlockOf, Lv
  <2> QED
    BY <1>3, <2>2, <2>3 DEF Knows
<1> QED
  BY <1>1, <1>2, <1>3, StaysCurrent

(* The last level is the highest.  The emitter comes to a level that is not *)
(* a new one only while subscribed, and only from one that is as high as    *)
(* any before, and as the index.                                            *)
PathLength == Len(Path)
Falls(j) == Path[j + 1] <= Path[j]
Turns ==
  /\ \A j \in 1 .. PathLength : Path[j] <= Path[PathLength] /\ Path[j] <= Len(chain)
  /\ \A j \in 1 .. PathLength - 1 : Falls(j) =>
       /\ subscribed = "yes" /\ level[Ix] <= Path[j] /\ syncLevel <= Path[j]
       /\ \A i \in 1 .. j : Path[i] <= Path[j]

PathFacts ==
  /\ PathLength \in Nat \ {0} /\ Len(Ahead) \in Nat /\ PathLength = Len(Ahead) + 1
  /\ Path[1] = known
  /\ \A j \in 1 .. PathLength : Path[j] \in Nat
  /\ \A n \in 1 .. Len(Ahead) : Path[n + 1] = Lv(Ahead[n]) /\ Ahead[n] \in Blocks
  /\ Len(chain) \in Nat /\ level[Ix] \in Int /\ syncLevel \in Int /\ known \in Nat

(* These are facts whenever the types hold.                                 *)
LEMMA PathIs ==
  EvmTypes => PathFacts
<1> SUFFICES ASSUME EvmTypes PROVE PathFacts
  OBVIOUS
<1>1. AheadFacts /\ Len(chain) \in Nat
  BY AheadIs, BlocksAre DEF EvmTypes
<1>2. level[Ix] \in Int /\ syncLevel \in Int
  BY DEF EvmTypes, IndexTypes, Kinds
<1>3. PathLength \in Nat \ {0} /\ \A j \in 1 .. PathLength : Path[j] \in Nat
  BY <1>1 DEF AheadFacts, PathLength
<1>4. known \in Nat
  BY <1>1, <1>3 DEF AheadFacts
<1> QED
  BY <1>1, <1>2, <1>3, <1>4 DEF PathFacts, AheadFacts, PathLength

(* The evidence is not above the last level.                                *)
LEMMA EvidenceIs ==
  ASSUME EvmTypes, NEW top \in Int, \A j \in 1 .. PathLength : Path[j] <= top
  PROVE  Evidence <= top /\ Evidence \in Int
<1>1. PathFacts /\ AheadFacts
  BY PathIs, AheadIs
<1>2. /\ emitter \in Seq(Nat) /\ \A n \in 1 .. Len(emitter) : emitter[n] \in 1 .. Len(objects)
      /\ heads[Ix] \in Seq(Nat) /\ kinds = {Ix}
  BY DEF EvmTypes, EmitterTypes, FeedTypes, Kinds
<1> DEFINE T == {known} \cup {blocks[b].level : b \in UNION {Range(heads[k]) : k \in kinds}}
                  \cup {blocks[objects[o].block].level : o \in Range(emitter)}
<1>3. ASSUME NEW n \in 1 .. Len(Ahead) PROVE Lv(Ahead[n]) \in Int /\ Lv(Ahead[n]) <= top
  <2>1. n + 1 \in 1 .. PathLength
    BY <1>1 DEF PathFacts
  <2> QED
    BY <1>1, <2>1 DEF PathFacts
<1>4. ASSUME NEW m \in T PROVE m \in Int /\ m <= top
  <2>1. CASE m = known
    <3>1. 1 \in 1 .. PathLength
      BY <1>1 DEF PathFacts
    <3> QED
      BY <1>1, <2>1, <3>1 DEF PathFacts
  <2>2. CASE m \in {blocks[b].level : b \in UNION {Range(heads[k]) : k \in kinds}}
    <3>1. PICK b \in Range(heads[Ix]) : m = Lv(b)
      BY <1>2, <2>2 DEF Lv
    <3>2. PICK n \in 1 .. Len(heads[Ix]) : b = heads[Ix][n]
      BY <1>2, <3>1, RangeIs
    <3>3. b = Ahead[Len(emitter) + n]
      BY <1>1, <3>2 DEF AheadFacts
    <3>4. PICK e \in Nat, h \in Nat : e = Len(emitter) /\ h = Len(heads[Ix]) /\ Len(Ahead) = e + h
      BY <1>1 DEF AheadFacts
    <3>5. e + n \in 1 .. e + h
      BY <3>2, <3>4
    <3>6. Len(emitter) + n \in 1 .. Len(Ahead)
      BY <3>4, <3>5
    <3>7. Lv(Ahead[Len(emitter) + n]) <= top
      BY <1>3, <3>6
    <3>8. Lv(Ahead[Len(emitter) + n]) \in Int
      BY <1>3, <3>6
    <3> QED
      BY <3>1, <3>3, <3>7, <3>8
  <2>3. CASE m \in {blocks[objects[o].block].level : o \in Range(emitter)}
    <3>1. PICK o \in Range(emitter) : m = Lv(BlockOf(o))
      BY <2>3 DEF Lv, BlockOf
    <3>2. PICK n \in 1 .. Len(emitter) : o = emitter[n]
      BY <1>2, <3>1, RangeIs
    <3>3. BlockOf(o) = Ahead[n] /\ n \in 1 .. Len(Ahead)
      BY <1>1, <3>2 DEF AheadFacts
    <3> QED
      BY <1>3, <3>1, <3>3
  <2> QED
    BY <2>1, <2>2, <2>3
<1>5. Max(T) \in T
  <2>1. T \subseteq Int /\ T # {} /\ \A m \in T : m <= top
    BY <1>4
  <2> HIDE DEF T
  <2> QED
    BY <2>1, MaxIs
<1>6. Evidence = Max(T)
  BY DEF Evidence
<1> QED
  BY <1>4, <1>5, <1>6

(* The greater of two numbers.                                              *)
LEMMA MaxOfTwo ==
  ASSUME NEW a \in Int, NEW b \in Int
  PROVE  Max({a, b}) >= a /\ Max({a, b}) >= b /\ Max({a, b}) \in Int
<1>1. PICK u \in Int : u >= a /\ u >= b
  <2>1. CASE a >= b
    BY <2>1
  <2>2. CASE a < b
    BY <2>2
  <2> QED
    BY <2>1, <2>2
<1>2. Max({a, b}) \in {a, b} /\ \A m \in {a, b} : m <= Max({a, b})
  <2>1. {a, b} \subseteq Int /\ {a, b} # {} /\ \A m \in {a, b} : m <= u
    BY <1>1
  <2> QED
    BY <2>1, MaxIs
<1> QED
  BY <1>2

(* When the connection is lost what the emitter has in its queue is         *)
(* canonical, and its levels ascend.                                        *)
LEMMA CutAscends ==
  ASSUME EvmTypes, Fits, Rising, Disconnect,
         {"lost_rollback", "stale_known"} \intersect Hazards = {}
  PROVE  /\ \A n \in 1 .. Len(emitter) : chain[Lv(Ahead[n])] = Ahead[n]
         /\ \A i \in 1 .. Len(emitter) + 1 : \A j \in 1 .. Len(emitter) + 1 :
              i < j => Path[i] < Path[j]
<1>1. AheadFacts /\ PathFacts
  BY AheadIs, PathIs
<1>2. Held \subseteq Range(chain) /\ \A o \in Range(emitter) : Lv(BlockOf(o)) > known
  BY DEF Disconnect, NoneReplaced, Lv, BlockOf
<1>3. emitter \in Seq(Nat) /\ chain \in Seq(Nat) /\ Len(chain) \in Nat
  BY BlocksAre DEF EvmTypes, EmitterTypes, ChainTypes
<1>4. ASSUME NEW n \in 1 .. Len(emitter)
      PROVE  /\ Ahead[n] \in Nat /\ Lv(Ahead[n]) \in 1 .. Len(chain)
             /\ chain[Lv(Ahead[n])] = Ahead[n] /\ Lv(Ahead[n]) > known
             /\ Path[n + 1] = Lv(Ahead[n]) /\ n \in 1 .. Len(Ahead)
  <2>1. Ahead[n] = BlockOf(emitter[n]) /\ n \in 1 .. Len(Ahead)
    BY <1>1 DEF AheadFacts
  <2>2. emitter[n] \in Range(emitter)
    BY <1>3, RangeIs
  <2>3. Ahead[n] \in Held
    BY <2>1, <2>2 DEF Held, BlockOf
  <2>4. PICK l \in 1 .. Len(chain) : chain[l] = Ahead[n]
    BY <1>2, <1>3, <2>3, RangeIs
  <2>5. Lv(chain[l]) = l /\ chain[l] \in Nat
    BY <1>3, <2>4 DEF EvmTypes, ChainTypes
  <2>6. Path[n + 1] = Lv(Ahead[n])
    BY <1>1, <2>1 DEF AheadFacts
  <2> QED
    BY <1>2, <2>1, <2>2, <2>4, <2>5, <2>6
<1>5. ASSUME NEW i \in 1 .. Len(emitter), NEW j \in 1 .. Len(emitter), i < j
      PROVE  Lv(Ahead[i]) < Lv(Ahead[j])
  <2>1. i \in 1 .. Len(Ahead) /\ j \in 1 .. Len(Ahead)
    BY <1>4
  <2>2. Ahead[i] < Ahead[j]
    BY <1>5, <2>1 DEF Rising
  <2>3. PICK a \in 1 .. Len(chain), b \in 1 .. Len(chain) : a = Lv(Ahead[i]) /\ b = Lv(Ahead[j])
    BY <1>4
  <2>4. chain[a] = Ahead[i] /\ chain[b] = Ahead[j] /\ chain[a] \in Nat /\ chain[b] \in Nat
    BY <1>4, <2>3
  <2>5. CASE b < a
    <3>1. chain[b] < chain[a]
      BY <2>5 DEF Fits
    <3> QED
      BY <2>2, <2>4, <3>1
  <2>6. CASE a = b
    BY <2>2, <2>4, <2>6
  <2> QED
    BY <1>3, <2>3, <2>5, <2>6
<1>6. ASSUME NEW i \in 1 .. Len(emitter) + 1, NEW j \in 1 .. Len(emitter) + 1, i < j
      PROVE  Path[i] < Path[j]
  <2>1. PICK e \in Nat : e = Len(emitter)
    BY <1>1 DEF AheadFacts
  <2>2. PICK n \in 1 .. Len(emitter) : j = n + 1
    <3>1. j - 1 \in 1 .. e /\ j = (j - 1) + 1
      BY <1>6, <2>1
    <3> QED
      BY <2>1, <3>1
  <2>3. Path[j] = Lv(Ahead[n]) /\ Lv(Ahead[n]) \in Nat
    BY <1>4, <2>2
  <2>4. CASE i = 1
    BY <1>1, <1>4, <2>2, <2>3, <2>4 DEF PathFacts
  <2>5. CASE i # 1
    <3>1. PICK m \in 1 .. Len(emitter) : i = m + 1
      <4>1. i - 1 \in 1 .. e /\ i = (i - 1) + 1
        BY <1>6, <2>1, <2>5
      <4> QED
        BY <2>1, <4>1
    <3>2. m < n
      BY <1>6, <2>2, <3>1
    <3>3. Path[i] = Lv(Ahead[m])
      BY <1>4, <3>1
    <3> QED
      BY <1>5, <2>3, <3>2, <3>3
  <2> QED
    BY <2>4, <2>5
<1> QED
  BY <1>4, <1>6

(* What the index has in its queue is not above the level the emitter       *)
(* knows.  A rollback in it starts at the index or above, as do the data    *)
(* that come before; none goes higher than one before it, or the index.     *)
Backed ==
  /\ \A p \in 1 .. Len(Queue) : IsData(Queue[p]) => Queue[p].level <= known
  /\ \A p \in 1 .. Len(Queue) : IsRollback(Queue[p]) =>
       /\ Queue[p].from >= level[Ix] /\ Queue[p].to <= level[Ix]
       /\ \A q \in 1 .. p - 1 : IsData(Queue[q]) => Queue[q].level <= Queue[p].from
  /\ \A p \in 1 .. Len(Queue) : \A q \in 1 .. p - 1 :
       IsRollback(Queue[p]) /\ IsRollback(Queue[q]) => Queue[p].to <= Queue[q].to
Attended ==
  {"shorter", "stale_known", "backlog", "offline", "lost_rollback"} \intersect Hazards = {}

(* So the falls stay as said: a branch,                                     *)
LEMMA TurnsGrow ==
  ASSUME EvmTypes, EvmTypes', Turns, Attended, NEW to \in 0 .. Len(chain),
         NEW contents \in Seq(BOOLEAN), Branch(to, contents), AheadGrows(to, Len(contents))
  PROVE  Turns'
<1>1. PathFacts /\ PathFacts'
  BY PathIs, PTL
<1>2. /\ Minted(to, contents) /\ Len(contents) \in Nat \ {0}
      /\ UNCHANGED <<subscribed, syncLevel, level>>
  BY BranchFacts
<1>3. PICK N \in Nat \ {0}, c \in Nat \ {0}, L \in Nat :
        N = PathLength /\ c = Len(contents) /\ L = Len(chain)
  BY <1>1, <1>2 DEF PathFacts
<1>4. PathLength' = N + c /\ Len(chain') = to + c /\ to \in Nat /\ to <= L
  BY <1>2, <1>3 DEF AheadGrows, PathLength, Minted
<1>5. to = L \/ (/\ subscribed = "yes" /\ to + c >= L
                /\ Evidence >= Max({level[Ix], syncLevel}))
  BY <1>3 DEF Branch, Attended
<1>6. /\ \A j \in 1 .. N : Path'[j] = Path[j] /\ Path[j] \in Nat /\ Path[j] <= L
      /\ \A j \in 1 .. N : Path[j] <= Path[N]
  BY <1>1, <1>3 DEF AheadGrows, PathLength, PathFacts, Turns
<1>7. \A n \in 1 .. c : Path'[N + n] = to + n
  BY <1>3 DEF AheadGrows, PathLength
<1>8. \A j \in 1 .. N + c : j \in 1 .. N \/ \E n \in 1 .. c : j = N + n
  <2>1. ASSUME NEW j \in 1 .. N + c, j \notin 1 .. N PROVE j - N \in 1 .. c /\ j = N + (j - N)
    BY <2>1
  <2> QED
    BY <2>1
<1>9. ASSUME NEW j \in 1 .. N + c PROVE Path'[j] <= to + c
  <2>1. to + c >= L
    BY <1>4, <1>5
  <2>2. CASE j \in 1 .. N
    BY <1>4, <1>6, <2>1, <2>2
  <2>3. CASE \E n \in 1 .. c : j = N + n
    BY <1>4, <1>7, <2>3
  <2> QED
    BY <1>8, <2>2, <2>3
<1>10. Path'[N + c] = to + c
  BY <1>7
<1>11. Ix' = Ix
  BY DEF Branch, MintEvm, Mint, chainVars, Ix
<1>12. ASSUME NEW j \in 1 .. N + c - 1, Path'[j + 1] <= Path'[j]
       PROVE  /\ subscribed = "yes" /\ level[Ix] <= Path'[j] /\ syncLevel <= Path'[j]
              /\ \A i \in 1 .. j : Path'[i] <= Path'[j]
  <2>1. CASE j \in 1 .. N - 1
    <3>1. j \in 1 .. N /\ j + 1 \in 1 .. N /\ \A i \in 1 .. j : i \in 1 .. N
      BY <1>3, <2>1
    <3>2. Path[j + 1] <= Path[j]
      BY <1>6, <1>12, <3>1
    <3>3. /\ subscribed = "yes" /\ level[Ix] <= Path[j] /\ syncLevel <= Path[j]
          /\ \A i \in 1 .. j : Path[i] <= Path[j]
      BY <1>3, <2>1, <3>2 DEF Turns, Falls
    <3> QED
      BY <1>6, <3>1, <3>3
  <2>2. CASE j = N
    <3>1. Path'[N + 1] = to + 1 /\ N \in 1 .. N
      BY <1>3, <1>7
    <3>2. to # L
      BY <1>3, <1>4, <1>6, <1>12, <2>2, <3>1
    <3>3. Evidence <= Path[N] /\ Evidence \in Int
      <4>1. Path[N] \in Int /\ \A i \in 1 .. PathLength : Path[i] <= Path[N]
        BY <1>3, <1>6, <3>1
      <4> QED
        BY <4>1, EvidenceIs
    <3>4. /\ Max({level[Ix], syncLevel}) >= level[Ix] /\ Max({level[Ix], syncLevel}) >= syncLevel
          /\ Max({level[Ix], syncLevel}) \in Int /\ level[Ix] \in Int /\ syncLevel \in Int
      BY <1>1, MaxOfTwo DEF PathFacts
    <3>5. level[Ix] <= Path[N] /\ syncLevel <= Path[N]
      BY <1>5, <1>6, <3>1, <3>2, <3>3, <3>4
    <3>6. \A i \in 1 .. N : Path'[i] <= Path'[N]
      BY <1>6, <3>1
    <3>7. level[Ix] <= Path'[N] /\ syncLevel <= Path'[N]
      BY <1>6, <3>1, <3>5
    <3> QED
      BY <1>5, <2>2, <3>2, <3>6, <3>7
  <2>3. CASE j > N
    <3>1. PICK n \in 1 .. c : j = N + n
      BY <1>3, <1>8, <2>3
    <3>2. n + 1 \in 1 .. c /\ j + 1 = N + (n + 1)
      BY <1>3, <1>12, <3>1
    <3>3. Path'[j] = to + n /\ Path'[j + 1] = to + (n + 1)
      BY <1>7, <3>1, <3>2
    <3> QED
      BY <1>4, <1>12, <3>1, <3>3
  <2> QED
    BY <1>3, <2>1, <2>2, <2>3
<1> QED
  BY <1>2, <1>4, <1>9, <1>10, <1>11, <1>12 DEF Turns, Falls

(* the emitter's next head,                                                 *)
LEMMA TurnsMove ==
  ASSUME EvmTypes, EvmTypes', Ix' = Ix, Turns, AheadMoves,
         UNCHANGED <<chain, subscribed, syncLevel, level>>
  PROVE  Turns'
<1>1. PathFacts
  BY PathIs
<1>2. PICK N \in Nat \ {0}, M \in Nat : N = PathLength /\ M = PathLength' /\ M = N - 1 /\ M # 0
  <2>1. PathLength \in Nat \ {0} /\ PathLength' = PathLength - 1 /\ PathLength >= 2
    BY <1>1 DEF AheadMoves, PathLength, PathFacts
  <2> QED
    BY <2>1
<1>3. \A n \in 1 .. M : Path'[n] = Path[n + 1] /\ n + 1 \in 1 .. N /\ Path[n + 1] \in Nat
  <2>1. \A n \in 1 .. M : Path'[n] = Path[n + 1] /\ n + 1 \in 1 .. N
    BY <1>2 DEF AheadMoves, PathLength
  <2> QED
    BY <1>1, <1>2, <2>1 DEF PathFacts
<1>4. ASSUME NEW j \in 1 .. M PROVE Path'[j] <= Path'[M] /\ Path'[j] <= Len(chain)
  <2>1. Path[j + 1] <= Path[N] /\ Path[j + 1] <= Len(chain)
    BY <1>2, <1>3 DEF Turns
  <2>2. Path'[j] = Path[j + 1] /\ Path'[M] = Path[M + 1] /\ M + 1 = N
    BY <1>2, <1>3
  <2> QED
    BY <2>1, <2>2
<1>5. ASSUME NEW j \in 1 .. M - 1, Path'[j + 1] <= Path'[j]
      PROVE  /\ subscribed = "yes" /\ level[Ix] <= Path'[j] /\ syncLevel <= Path'[j]
             /\ \A i \in 1 .. j : Path'[i] <= Path'[j]
  <2>1. j + 1 \in 1 .. N - 1 /\ j \in 1 .. M /\ j + 1 \in 1 .. M
    BY <1>2
  <2>2. Path[(j + 1) + 1] <= Path[j + 1]
    BY <1>3, <1>5, <2>1
  <2>3. /\ subscribed = "yes" /\ level[Ix] <= Path[j + 1] /\ syncLevel <= Path[j + 1]
        /\ \A i \in 1 .. j + 1 : Path[i] <= Path[j + 1]
    BY <1>2, <2>1, <2>2 DEF Turns, Falls
  <2>4. \A i \in 1 .. j : i \in 1 .. M /\ i + 1 \in 1 .. j + 1
    BY <2>1
  <2>5. \A i \in 1 .. j : Path'[i] = Path[i + 1] /\ Path'[j] = Path[j + 1]
    BY <1>3, <2>1, <2>4
  <2> QED
    BY <1>3, <2>1, <2>3, <2>4, <2>5
<1> QED
  BY <1>2, <1>4, <1>5 DEF Turns, Falls

(* and everything else.                                                     *)
LEMMA TurnsKept ==
  ASSUME EvmTypes, EvmTypes', Ix' = Ix, Fits, Rising, Turns, Backed, Attended,
         Len(chain') >= Len(chain), StepKinds, QueueSteps
  PROVE  Turns'
<1>1. PathFacts /\ PathFacts' /\ AheadFacts
  BY PathIs, AheadIs, PTL
<1>2. ASSUME Path' = Path,
             \/ subscribed # "yes"
             \/ /\ subscribed' = subscribed /\ syncLevel' = syncLevel
                /\ level'[Ix] <= level[Ix] \/ level'[Ix] <= syncLevel \/ level'[Ix] <= known
      PROVE  Turns'
  <2>1. PathLength' = PathLength /\ Len(chain') \in Nat
    BY <1>1, <1>2 DEF PathLength, PathFacts
  <2>2. \A j \in 1 .. PathLength : Path[j] <= Path[PathLength] /\ Path[j] <= Len(chain')
    BY <1>1, <2>1 DEF Turns, PathFacts
  <2>3. ASSUME NEW j \in 1 .. PathLength - 1, Falls(j)
        PROVE  /\ subscribed' = "yes" /\ level'[Ix] <= Path[j] /\ syncLevel' <= Path[j]
               /\ \A i \in 1 .. j : Path[i] <= Path[j]
    <3>1. /\ subscribed = "yes" /\ level[Ix] <= Path[j] /\ syncLevel <= Path[j]
          /\ \A i \in 1 .. j : Path[i] <= Path[j]
      BY <2>3 DEF Turns
    <3>2. 1 \in 1 .. j /\ j \in 1 .. PathLength
      BY <1>1 DEF PathFacts
    <3>3. known <= Path[j] /\ known \in Int /\ Path[j] \in Int /\ level[Ix] \in Int
      BY <1>1, <3>1, <3>2, SMTT(40) DEF PathFacts
    <3>4. level'[Ix] \in Int /\ syncLevel \in Int
      <4>1. (level[Ix])' \in Int
        BY <1>1 DEF PathFacts
      <4> QED
        BY <1>1, <4>1 DEF PathFacts
    <3> QED
      BY <1>2, <3>1, <3>3, <3>4
  <2> QED
    BY <1>2, <2>1, <2>2, <2>3 DEF Turns, Falls
<1>3. CASE \E to \in 0 .. Len(chain), contents \in Seq(BOOLEAN) :
             /\ Branch(to, contents)
             /\ IF Announcing THEN AheadGrows(to, Len(contents)) ELSE AheadStays
  <2>1. PICK to \in 0 .. Len(chain), contents \in Seq(BOOLEAN) :
          /\ Branch(to, contents)
          /\ IF Announcing THEN AheadGrows(to, Len(contents)) ELSE AheadStays
    BY <1>3
  <2>2. CASE ~Announcing
    BY <1>2, <2>1, <2>2 DEF AheadStays, Announcing
  <2>3. CASE Announcing
    BY <2>1, <2>3, TurnsGrow
  <2> QED
    BY <2>2, <2>3
<1>4. CASE EmitHead /\ AheadMoves
  <2>1. UNCHANGED <<chain, subscribed, syncLevel, level>>
    BY <1>4, EmitHeadIs DEF HeadEmitted, Emitting
  <2> QED
    BY <1>4, <2>1, TurnsMove
<1>5. CASE Disconnect /\ AheadCut
  <2>1. \A i \in 1 .. Len(emitter) + 1 : \A j \in 1 .. Len(emitter) + 1 :
          i < j => Path[i] < Path[j]
    BY <1>5, CutAscends DEF Attended
  <2>2. PICK M \in Nat : M = Len(emitter) + 1 /\ M = PathLength' /\ M >= 1 /\ M <= PathLength
    <3>1. Len(emitter) \in Nat /\ Len(Path') = Len(emitter) + 1 /\ Len(emitter) <= Len(Ahead)
      BY <1>1, <1>5 DEF AheadFacts, AheadCut
    <3>2. Len(Path) = Len(Ahead) + 1 /\ Len(Ahead) \in Nat
      BY <1>1 DEF AheadFacts
    <3> QED
      BY <3>1, <3>2 DEF PathLength
  <2>3. \A n \in 1 .. M : Path'[n] = Path[n] /\ Path[n] \in Nat /\ Path[n] <= Len(chain)
    <3>1. \A n \in 1 .. M : Path'[n] = Path[n] /\ n \in 1 .. PathLength
      BY <1>1, <1>5, <2>2 DEF AheadCut, PathFacts
    <3> QED
      BY <1>1, <3>1 DEF PathFacts, Turns
  <2>4. \A i \in 1 .. M : \A j \in 1 .. M : i < j => Path'[i] < Path'[j]
    BY <2>1, <2>2, <2>3
  <2>5. Len(chain) \in Nat /\ Len(chain') \in Nat
    BY <1>1 DEF PathFacts
  <2>6. ASSUME NEW j \in 1 .. M PROVE Path'[j] <= Path'[M] /\ Path'[j] <= Len(chain')
    <3>1. Path'[j] \in Nat /\ Path'[j] <= Len(chain)
      BY <2>3
    <3>2. j = M \/ Path'[j] < Path'[M]
      BY <2>2, <2>4
    <3>3. Path'[M] \in Nat
      BY <2>2, <2>3
    <3> QED
      BY <2>5, <3>1, <3>2, <3>3
  <2>7. ASSUME NEW j \in 1 .. M - 1 PROVE ~(Path'[j + 1] <= Path'[j])
    <3>1. j \in 1 .. M /\ j + 1 \in 1 .. M /\ j < j + 1
      BY <2>2
    <3>2. Path'[j] < Path'[j + 1] /\ Path'[j] \in Nat /\ Path'[j + 1] \in Nat
      BY <2>3, <2>4, <3>1
    <3> QED
      BY <3>2
  <2> QED
    BY <2>2, <2>6, <2>7 DEF Turns, Falls
<1>6. CASE Crash /\ Len(Ahead') = 0 /\ Len(Path') = 1 /\ Path'[1] = 0
  <2>1. PathLength' = 1 /\ Len(chain') \in Nat
    BY <1>1, <1>6 DEF PathLength, PathFacts
  <2>2. \A j \in 1 .. 1 : Path'[j] = 0
    BY <1>6
  <2> QED
    BY <2>1, <2>2 DEF Turns
<1>7. CASE (Feeding \/ Handling) /\ AheadStays
  <2>0. Path' = Path /\ level[Ix] \in Int /\ syncLevel \in Int
    BY <1>1, <1>7 DEF AheadStays, PathFacts
  <2>1. CASE Asking
    <3>1. (subscribed # "yes" \/ UNCHANGED <<subscribed, syncLevel>>) /\ level' = level
      BY <2>1, AskingIs
    <3> QED
      BY <1>2, <2>0, <3>1
  <2>2. CASE \/ ReceiveLog \/ ReceiveHead(Ix) \/ EmitEvents \/ EmitTransactions \/ Forget
             \/ UNCHANGED <<nodeVars, evmVars>>
    <3>1. UNCHANGED <<subscribed, syncLevel, level>>
      BY <2>2 DEF ReceiveLog, ReceiveHead, Notified, indexVars, EmitEvents, EmitTransactions,
         Forget, feedVars, nodeVars
    <3> QED
      BY <1>2, <2>0, <3>1
  <2>3. CASE (Synchronize(Ix) \/ ProcessData(Ix) \/ ProcessRollback(Ix)) /\ UNCHANGED evmVars
    <3>1. Synced \/ DataTaken \/ RollbackTaken
      BY <2>3, IndexSteps DEF EvmTypes, Kinds
    <3>2. CASE Synced
      BY <1>2, <2>0, <3>2 DEF Synced, Untouched
    <3>3. CASE DataTaken
      <4>1. UNCHANGED <<subscribed, syncLevel>> /\ 1 \in 1 .. Len(Queue)
        <5>1. Len(Queue) \in Nat
          BY QueueShort
        <5> QED
          BY <3>3, <5>1 DEF DataTaken, Taken, Untouched, QPopped
      <4>2. CASE level'[Ix] = level[Ix]
        BY <1>2, <2>0, <4>1, <4>2
      <4>3. CASE Queue[1].kind # "empty" /\ level'[Ix] = Queue[1].level
        <5>1. IsData(Queue[1])
          BY <3>3, <4>3 DEF DataTaken, Taken, Messages, IsData, IsRollback
        <5>2. level'[Ix] <= known
          BY <4>1, <4>3, <5>1 DEF Backed
        <5> QED
          BY <1>2, <2>0, <4>1, <5>2
      <4> QED
        BY <3>3, <4>2, <4>3 DEF DataTaken
    <3>4. CASE RollbackTaken
      <4>1. UNCHANGED <<subscribed, syncLevel>> /\ 1 \in 1 .. Len(Queue)
        <5>1. Len(Queue) \in Nat
          BY QueueShort
        <5> QED
          BY <3>4, <5>1 DEF RollbackTaken, Taken, Untouched, QPopped
      <4>2. level'[Ix] <= level[Ix]
        BY <2>0, <3>4, <4>1 DEF RollbackTaken, Backed
      <4> QED
        BY <1>2, <2>0, <4>1, <4>2
    <3> QED
      BY <3>1, <3>2, <3>3, <3>4
  <2> QED
    BY <1>7, <2>1, <2>2, <2>3 DEF Feeding, Handling
<1> QED
  BY <1>3, <1>4, <1>5, <1>6, <1>7 DEF StepKinds

(* The messages in the queue.                                               *)
QueueFacts ==
  /\ Len(Queue) \in Nat
  /\ \A p \in 1 .. Len(Queue) :
       /\ Queue[p] \in Messages /\ Queue[p].kind \in {"data", "empty", "rollback"}
       /\ IsData(Queue[p]) => Queue[p].level \in Int /\ Queue[p].rows \in Rows
       /\ IsRollback(Queue[p]) => Queue[p].from \in Int /\ Queue[p].to \in Int
       /\ ~(IsData(Queue[p]) /\ IsRollback(Queue[p]))

(* They are messages of one of three kinds.                                 *)
LEMMA QueueIs ==
  ASSUME IndexTypes, Ix \in Kinds
  PROVE  QueueFacts
<1>1. Queue \in Seq(Messages)
  BY DEF IndexTypes, Queue
<1>2. Len(Queue) \in Nat /\ \A p \in 1 .. Len(Queue) : Queue[p] \in Messages
  BY <1>1
<1>3. ASSUME NEW m \in Messages
      PROVE  /\ m.kind \in {"data", "empty", "rollback"}
             /\ IsData(m) => m.level \in Int /\ m.rows \in Rows
             /\ IsRollback(m) => m.from \in Int /\ m.to \in Int
             /\ ~(IsData(m) /\ IsRollback(m))
  <2>1. CASE m \in [kind : {"data", "empty"}, level : Int, rows : Rows]
    BY <2>1 DEF IsData, IsRollback
  <2>2. CASE m \in [kind : {"rollback"}, from : Int, to : Int]
    BY <2>2 DEF IsData, IsRollback
  <2> QED
    BY <2>1, <2>2 DEF Messages
<1> QED
  BY <1>2, <1>3 DEF QueueFacts
Numbers == level[Ix] \in Int /\ known \in Int /\ syncLevel \in Int

(* So they are for an EVM node.                                             *)
LEMMA EvmQueueIs ==
  EvmTypes => QueueFacts /\ Numbers
<1> SUFFICES ASSUME EvmTypes PROVE QueueFacts /\ Numbers
  OBVIOUS
<1>1. QueueFacts
  BY QueueIs DEF EvmTypes, Kinds
<1> QED
  BY <1>1, PathIs DEF PathFacts, Numbers

(* What is taken, and what remains.                                         *)
LEMMA BackedPopped ==
  ASSUME QueueFacts, level[Ix] \in Int, (level[Ix])' \in Int, known' = known, Backed, QPopped,
         \A p \in 2 .. Len(Queue) : IsRollback(Queue[p]) =>
           Queue[p].from >= level'[Ix] /\ Queue[p].to <= level'[Ix],
         Ix' = Ix
  PROVE  Backed'
<1>1. PICK N \in Nat \ {0} : Len(Queue) = N /\ Len(Queue') = N - 1
  BY DEF QueueFacts, QPopped
<1>2. \A p \in 1 .. N - 1 : Queue'[p] = Queue[p + 1] /\ p + 1 \in 1 .. N /\ p + 1 \in 2 .. N
  BY <1>1 DEF QPopped
<1>3. \A p \in 1 .. N - 1 : IsData(Queue'[p]) => Queue'[p].level <= known
  <2>1. \A p \in 1 .. N : IsData(Queue[p]) => Queue[p].level <= known
    BY <1>1 DEF Backed
  <2> QED
    BY <1>2, <2>1
<1>4. ASSUME NEW p \in 1 .. N - 1, NEW q \in 1 .. p - 1
      PROVE  q \in 1 .. N - 1 /\ q + 1 \in 1 .. (p + 1) - 1 /\ Queue'[q] = Queue[q + 1]
  BY <1>2
<1>5. ASSUME NEW p \in 1 .. N - 1, IsRollback(Queue'[p])
      PROVE  /\ Queue'[p].from >= level'[Ix] /\ Queue'[p].to <= level'[Ix]
             /\ \A q \in 1 .. p - 1 : IsData(Queue'[q]) => Queue'[q].level <= Queue'[p].from
  <2>1. IsRollback(Queue[p + 1]) /\ p + 1 \in 1 .. N /\ p + 1 \in 2 .. N /\ Queue'[p] = Queue[p + 1]
    BY <1>2, <1>5
  <2>2. \A q \in 1 .. (p + 1) - 1 : IsData(Queue[q]) => Queue[q].level <= Queue[p + 1].from
    BY <1>1, <2>1 DEF Backed
  <2> QED
    BY <1>1, <1>4, <2>1, <2>2
<1>6. ASSUME NEW p \in 1 .. N - 1, NEW q \in 1 .. p - 1,
             IsRollback(Queue'[p]) /\ IsRollback(Queue'[q])
      PROVE  Queue'[p].to <= Queue'[q].to
  <2>1. p + 1 \in 1 .. N /\ Queue'[p] = Queue[p + 1]
    BY <1>2
  <2>2. q + 1 \in 1 .. (p + 1) - 1 /\ Queue'[q] = Queue[q + 1]
    BY <1>4
  <2> QED
    BY <1>1, <1>6, <2>1, <2>2 DEF Backed
<1> QED
  BY <1>1, <1>3, <1>5, <1>6 DEF Backed

(* What is added.                                                           *)
LEMMA BackedPushed ==
  ASSUME QueueFacts, level[Ix] \in Int, known \in Int, known' \in Int, Backed,
         NEW m, QPushed(m), level'[Ix] = level[Ix], Ix' = Ix,
         \A p \in 1 .. Len(Queue) : IsData(Queue[p]) => Queue[p].level <= known',
         IsData(m) => m.level <= known',
         IsRollback(m) => /\ m.from >= level[Ix] /\ m.to <= level[Ix] /\ m.from = known
                          /\ \A p \in 1 .. Len(Queue) : IsRollback(Queue[p]) => m.to <= Queue[p].to
  PROVE  Backed'
<1>1. PICK N \in Nat : Len(Queue) = N /\ Len(Queue') = N + 1
  BY DEF QueueFacts, QPushed
<1>2. \A p \in 1 .. N : Queue'[p] = Queue[p]
  BY <1>1 DEF QPushed
<1>3. Queue'[N + 1] = m
  BY <1>1 DEF QPushed
<1>4. \A p \in 1 .. N + 1 : (p \in 1 .. N \/ p = N + 1) /\ \A q \in 1 .. p - 1 : q \in 1 .. N
  BY <1>1
<1>5. ASSUME NEW p \in 1 .. N + 1, IsData(Queue'[p]) PROVE Queue'[p].level <= known'
  <2>1. CASE p \in 1 .. N
    BY <1>1, <1>2, <1>5, <2>1
  <2>2. CASE p = N + 1
    BY <1>3, <1>5, <2>2
  <2> QED
    BY <1>4, <2>1, <2>2
<1>6. ASSUME NEW p \in 1 .. N + 1, IsRollback(Queue'[p])
      PROVE  /\ Queue'[p].from >= level[Ix] /\ Queue'[p].to <= level[Ix]
             /\ \A q \in 1 .. p - 1 : IsData(Queue'[q]) => Queue'[q].level <= Queue'[p].from
  <2>1. CASE p \in 1 .. N
    <3>1. Queue'[p] = Queue[p]
      BY <1>2, <2>1
    <3>2. /\ Queue[p].from >= level[Ix] /\ Queue[p].to <= level[Ix]
          /\ \A q \in 1 .. p - 1 : IsData(Queue[q]) => Queue[q].level <= Queue[p].from
      BY <1>1, <1>6, <2>1, <3>1 DEF Backed
    <3> QED
      BY <1>2, <1>4, <3>1, <3>2
  <2>2. CASE p = N + 1
    <3>1. m.from >= level[Ix] /\ m.to <= level[Ix] /\ m.from = known
      BY <1>3, <1>6, <2>2
    <3>2. \A q \in 1 .. N : IsData(Queue[q]) => Queue[q].level <= known
      BY <1>1 DEF Backed
    <3> QED
      BY <1>2, <1>3, <1>4, <2>2, <3>1, <3>2
  <2> QED
    BY <1>4, <2>1, <2>2
<1>7. ASSUME NEW p \in 1 .. N + 1, NEW q \in 1 .. p - 1,
             IsRollback(Queue'[p]) /\ IsRollback(Queue'[q])
      PROVE  Queue'[p].to <= Queue'[q].to
  <2>1. q \in 1 .. N /\ Queue'[q] = Queue[q]
    BY <1>2, <1>4
  <2>2. CASE p \in 1 .. N
    <3>1. Queue'[p] = Queue[p]
      BY <1>2, <2>2
    <3> QED
      BY <1>1, <1>7, <2>1, <2>2, <3>1 DEF Backed
  <2>3. CASE p = N + 1
    BY <1>1, <1>3, <1>7, <2>1, <2>3
  <2> QED
    BY <1>4, <2>2, <2>3
<1>8. level'[Ix'] = level[Ix]
  OBVIOUS
<1> QED
  BY <1>1, <1>5, <1>6, <1>7, <1>8 DEF Backed

(* A level that is given to the index is the one the emitter knows.         *)
LEMMA GivenLevel ==
  ASSUME EvmTypes, Knows
  PROVE  /\ EventsEmitted /\ Queue' # Queue => Given(BlockOf(current), objects[current].events)
         /\ TransactionsEmitted /\ Queue' # Queue =>
              Given(chain[known], {}) /\ known \in 1 .. Len(chain)
         /\ pc # "head" => Lv(BlockOf(current)) = known
         /\ \A l \in 1 .. Len(chain) : Lv(chain[l]) = l
<1>1. pc # "head" => Lv(BlockOf(current)) = known
  BY DEF Knows
<1>2. \A l \in 1 .. Len(chain) : Lv(chain[l]) = l
  BY DEF EvmTypes, ChainTypes
<1>3. EventsEmitted /\ Queue' # Queue => Given(BlockOf(current), objects[current].events)
  BY DEF EventsEmitted, QStays
<1>4. ASSUME TransactionsEmitted, Queue' # Queue
      PROVE  Given(chain[known], {}) /\ known \in 1 .. Len(chain)
  <2>1. pc = "transactions"
    BY <1>4 DEF TransactionsEmitted
  <2> QED
    BY <1>1, <1>4, <2>1 DEF TransactionsEmitted, QStays
<1> QED
  BY <1>1, <1>2, <1>3, <1>4

(* Every step keeps the queue as said.                                      *)
LEMMA BackedKept ==
  ASSUME EvmTypes, EvmTypes', Ix' = Ix, Knows, Turns, Backed, Attended, StepKinds, QueueSteps
  PROVE  Backed'
<1>1. /\ QueueFacts /\ level[Ix] \in Int /\ known \in Int /\ syncLevel \in Int
      /\ level'[Ix] \in Int /\ known' \in Int
  <2>1. Numbers'
    BY EvmQueueIs, PTL
  <2> QED
    BY <2>1, EvmQueueIs DEF Numbers
<1>2. ASSUME QStays, level'[Ix] = level[Ix], known' = known PROVE Backed'
  <2>1. Queue' = Queue /\ level'[Ix'] = level[Ix]
    BY <1>2 DEF QStays
  <2> QED
    BY <1>2, <2>1 DEF Backed
<1>3. CASE Quietly /\ Silent
  <2>1. known' = known
    <3>1. CASE \E to \in 0 .. Len(chain), contents \in Seq(BOOLEAN) : Branch(to, contents)
      BY <3>1, BranchFacts
    <3>2. CASE Disconnect \/ Feeding \/ UNCHANGED <<nodeVars, evmVars>>
      BY <3>2, AskingIs DEF Disconnect, Feeding, ReceiveLog, ReceiveHead, evmVars
    <3> QED
      BY <1>3, <3>1, <3>2 DEF Quietly
  <2> QED
    BY <1>2, <1>3, <2>1 DEF Silent
<1>4. CASE Crash /\ QCleared
  BY <1>4 DEF QCleared, Backed
<1>5. CASE EmitHead /\ HeadEmitted
  <2>1. AheadMoves /\ PathFacts
    BY <1>5, EmitAhead, PathIs
  <2>2. known' = Path[2] /\ 1 \in 1 .. PathLength - 1 /\ Path[1] = known
    <3>1. PathLength >= 2 /\ PathLength \in Nat
      BY <2>1 DEF AheadMoves, PathFacts
    <3> QED
      BY <2>1, <3>1 DEF AheadMoves, PathFacts
  <2>3. known' > known \/ \A p \in 1 .. Len(Queue) :
          /\ IsData(Queue[p]) => Queue[p].level <= known' - 1
          /\ IsRollback(Queue[p]) => Queue[p].to >= known' - 1
    BY <1>5 DEF HeadEmitted, Attended
  <2>4. \A p \in 1 .. Len(Queue) : IsData(Queue[p]) => Queue[p].level <= known'
    <3>1. ASSUME NEW p \in 1 .. Len(Queue), IsData(Queue[p]) PROVE Queue[p].level <= known'
      <4>1. Queue[p].level \in Int /\ Queue[p].level <= known
        BY <1>1, <3>1 DEF QueueFacts, Backed
      <4> QED
        BY <1>1, <2>3, <3>1, <4>1
    <3> QED
      BY <3>1
  <2>5. level'[Ix] = level[Ix]
    BY <1>5 DEF HeadEmitted, Emitting
  <2>6. CASE known' <= known /\ known' - 1 < level[Ix]
    <3> DEFINE m == RollbackMsg(known, known' - 1)
    <3>1. QPushed(m)
      BY <1>5, <2>6 DEF HeadEmitted
    <3>2. m.kind = "rollback" /\ m.from = known /\ m.to = known' - 1
      BY DEF RollbackMsg
    <3>3. m.from >= level[Ix]
      <4>1. Falls(1)
        BY <2>2, <2>6 DEF Falls
      <4>2. level[Ix] <= Path[1]
        BY <2>2, <4>1 DEF Turns
      <4> QED
        BY <1>1, <2>2, <3>2, <4>2
    <3>4. m.to <= level[Ix]
      BY <1>1, <2>6, <3>2
    <3>5. \A p \in 1 .. Len(Queue) : IsRollback(Queue[p]) => m.to <= Queue[p].to
      BY <1>1, <2>3, <2>6, <3>2 DEF QueueFacts
    <3>6. ~IsData(m)
      BY <3>2 DEF IsData
    <3> HIDE DEF m
    <3> QED
      BY <1>1, <2>4, <2>5, <3>1, <3>2, <3>3, <3>4, <3>5, <3>6, BackedPushed
  <2>7. CASE ~(known' <= known /\ known' - 1 < level[Ix])
    <3>1. Queue' = Queue /\ level'[Ix'] = level[Ix]
      BY <1>5, <2>5, <2>7 DEF HeadEmitted, QStays
    <3> QED
      BY <2>4, <3>1 DEF Backed
  <2> QED
    BY <2>6, <2>7
<1>6. ASSUME NEW b, NEW found, Given(b, found), Lv(b) = known, level'[Ix] = level[Ix],
             known' = known
      PROVE  Backed'
  <2> DEFINE m == DataMsg(b, found)
  <2>1. m.kind = "data" /\ m.level = known /\ IsData(m) /\ ~IsRollback(m)
    BY <1>6 DEF DataMsg, IsData, IsRollback, Lv
  <2>2. QPushed(m)
    BY <1>6 DEF Given
  <2>3. \A p \in 1 .. Len(Queue) : IsData(Queue[p]) => Queue[p].level <= known'
    BY <1>6 DEF Backed
  <2>4. m.level <= known'
    BY <1>1, <1>6, <2>1
  <2> HIDE DEF m
  <2> QED
    BY <1>1, <1>6, <2>1, <2>2, <2>3, <2>4, BackedPushed
<1>7. CASE EventsEmitted
  <2>1. level'[Ix] = level[Ix] /\ known' = known /\ pc # "head"
    BY <1>7 DEF EventsEmitted, Emitting
  <2>2. Queue' # Queue =>
          Given(BlockOf(current), objects[current].events) /\ Lv(BlockOf(current)) = known
    BY <1>7, <2>1, GivenLevel
  <2> QED
    BY <1>2, <1>6, <2>1, <2>2 DEF QStays
<1>8. CASE TransactionsEmitted
  <2>1. level'[Ix] = level[Ix] /\ known' = known
    BY <1>8 DEF TransactionsEmitted, Emitting
  <2>2. Queue' # Queue => Given(chain[known], {}) /\ Lv(chain[known]) = known
    BY <1>8, GivenLevel
  <2> QED
    BY <1>2, <1>6, <2>1, <2>2 DEF QStays
<1>9. CASE Forgotten
  BY <1>2, <1>9 DEF Forgotten, Emitting
<1>10. CASE UNCHANGED evmVars /\ Synced
  BY <1>10 DEF Synced, QCleared, Backed
<1>11. CASE UNCHANGED evmVars /\ DataTaken
  <2>1. QPopped /\ known' = known /\ 1 \in 1 .. Len(Queue)
    BY <1>1, <1>11 DEF DataTaken, Taken, QPopped, evmVars, QueueFacts
  <2>2. level'[Ix] = level[Ix] \/ (/\ IsData(Queue[1]) /\ level'[Ix] = Queue[1].level
                                  /\ Queue[1].level > level[Ix])
    BY <1>1, <1>11, <2>1 DEF DataTaken, IsData, IsRollback, QueueFacts
  <2>3. ASSUME NEW p \in 2 .. Len(Queue), IsRollback(Queue[p])
        PROVE  Queue[p].from >= level'[Ix] /\ Queue[p].to <= level'[Ix]
    <3>1. p \in 1 .. Len(Queue) /\ 1 \in 1 .. p - 1
      BY <1>1 DEF QueueFacts
    <3>2. /\ Queue[p].from >= level[Ix] /\ Queue[p].to <= level[Ix]
          /\ IsData(Queue[1]) => Queue[1].level <= Queue[p].from
      BY <2>3, <3>1 DEF Backed
    <3>3. /\ Queue[p].from \in Int /\ Queue[p].to \in Int
          /\ IsData(Queue[1]) => Queue[1].level \in Int
      BY <1>1, <2>1, <2>3, <3>1 DEF QueueFacts
    <3> QED
      BY <1>1, <2>2, <3>2, <3>3
  <2> QED
    BY <1>1, <2>1, <2>3, BackedPopped
<1>12. CASE UNCHANGED evmVars /\ RollbackTaken
  <2>1. QPopped /\ known' = known /\ 1 \in 1 .. Len(Queue)
    BY <1>1, <1>12 DEF RollbackTaken, Taken, QPopped, evmVars, QueueFacts
  <2>2. IsRollback(Queue[1]) /\ Queue[1].to \in Int /\ Queue[1].to <= level[Ix]
    BY <1>1, <1>12, <2>1 DEF RollbackTaken, QueueFacts, Backed
  <2>3. ASSUME NEW p \in 2 .. Len(Queue), IsRollback(Queue[p])
        PROVE  Queue[p].from >= level'[Ix] /\ Queue[p].to <= level'[Ix]
    <3>1. p \in 1 .. Len(Queue) /\ 1 \in 1 .. p - 1
      BY <1>1 DEF QueueFacts
    <3>2. Queue[p].from >= level[Ix] /\ Queue[p].to <= level[Ix] /\ Queue[p].to <= Queue[1].to
      BY <2>2, <2>3, <3>1 DEF Backed
    <3>3. Queue[p].from \in Int /\ Queue[p].to \in Int
      BY <1>1, <2>3, <3>1 DEF QueueFacts
    <3>4. level'[Ix] = level[Ix] \/ level'[Ix] = Queue[1].to
      BY <1>12 DEF RollbackTaken
    <3> QED
      BY <1>1, <2>2, <3>2, <3>3, <3>4
  <2> QED
    BY <1>1, <2>1, <2>3, BackedPopped
<1> QED
  BY <1>3, <1>4, <1>5, <1>7, <1>8, <1>9, <1>10, <1>11, <1>12 DEF QueueSteps

Covering == EvmTypes /\ Fits /\ Rising /\ Knows /\ Turns /\ Backed

(* At first there is nothing in any queue.                                  *)
LEMMA CoveringStart ==
  ASSUME Init, Single, ofEvm
  PROVE  Covering
<1>1. EvmTypes /\ Fits /\ Rising
  BY SoundStart DEF Sound
<1>2. /\ emitter = <<>> /\ heads = [k \in Kinds |-> <<>>] /\ queue = [k \in Kinds |-> <<>>]
      /\ pc = "head" /\ known = 0 /\ chain = <<1>>
  BY DEF Init, NodeInit, EvmInit
<1>3. Ix \in Kinds
  BY <1>1 DEF EvmTypes, Kinds
<1>4. Len(emitter) = 0 /\ Len(heads[Ix]) = 0 /\ Len(Queue) = 0
  BY <1>2, <1>3, NoElements DEF Queue
<1>5. PathLength = 1 /\ Path[1] = 0
  BY <1>1, <1>2, <1>4, AheadIs DEF AheadFacts, PathLength
<1>6. Turns
  <2>1. Len(chain) = 1
    BY <1>2
  <2> QED
    BY <1>5, <2>1 DEF Turns
<1>7. Backed
  BY <1>4 DEF Backed
<1> QED
  BY <1>1, <1>2, <1>6, <1>7 DEF Covering, Knows

(* Every step keeps all of it.                                              *)
LEMMA CoveringKept ==
  ASSUME Covering, Attended, [Next]_vars
  PROVE  Covering'
<1>1. EvmTypes' /\ Ix' = Ix /\ StepKinds
  BY StepsAhead DEF Covering
<1>2. QueueSteps
  BY <1>1, StepsQueue DEF Covering
<1>3. Fits' /\ Len(chain') >= Len(chain)
  BY <1>1, FitsKept DEF Attended, Longer, Covering
<1>4. Rising'
  BY <1>1, RisingKept DEF Covering
<1>5. Knows'
  BY <1>1, KnowsKept DEF Covering
<1>6. Turns'
  BY <1>1, <1>2, <1>3, TurnsKept DEF Covering
<1>7. Backed'
  BY <1>1, <1>2, BackedKept DEF Covering
<1> QED
  BY <1>1, <1>3, <1>4, <1>5, <1>6, <1>7 DEF Covering

-----------------------------------------------------------------------------
(* A rollback covers the index, whatever the system.                        *)

(* What a step of a Substrate node's indexer does to the queue.             *)
LEMMA SubstrateQueue ==
  ASSUME SubstrateTypes, [Next]_vars
  PROVE  \/ QStays \/ QCleared \/ QPopped
         \/ EmitBlockEvents /\ current \in Blocks /\ QPushed(EventsOf(current))
<1>1. /\ SubstrateTypes' /\ Ix' = Ix /\ (SubstrateStep \/ UNCHANGED <<nodeVars, evmVars>>)
  BY SubstrateTypesKept
<1>2. IndexTypes /\ Ix \in Kinds /\ Ix = "finalized"
  BY DEF SubstrateTypes, Kinds
<1>3. CASE Finalize
  <2>1. PICK contents \in Seq(BOOLEAN) : Finalized(contents)
    BY <1>1, <1>3, FinalizeIs
  <2> QED
    BY <1>1, <2>1 DEF Finalized, indexVars, QStays, Queue
<1>4. CASE \/ DisconnectSubstrate \/ RefuseSubstrate \/ SubscribeFinalized \/ StoreId
           \/ SetSyncLevel \/ ReceiveFinalized \/ EmitFinalized
  BY <1>1, <1>4 DEF DisconnectSubstrate, Disconnected, RefuseSubstrate, Refuse,
     SubscribeFinalized, Requested, StoreId, SetSyncLevel, ReceiveFinalized, Notified,
     EmitFinalized, indexVars, QStays, Queue
<1>5. CASE CrashSubstrate
  BY <1>1, <1>2, <1>5, NoElements DEF CrashSubstrate, Restarted, QCleared, Queue
<1>6. CASE EmitBlockEvents
  <2>1. queue' = [queue EXCEPT ![Ix] = Append(@, EventsOf(current))] /\ current \in Blocks
    BY <1>1, <1>2, <1>6 DEF EmitBlockEvents, OnSubstrateEvents, Push, SubstrateTypes
  <2>2. EventsOf(current) \in Messages
    <3>1. DataMsg(current, {}) \in Messages /\ EmptyMsg(current) \in Messages
      BY <2>1, MessagesAre DEF SubstrateTypes
    <3>2. [EmptyMsg(current) EXCEPT !.kind = "data"] \in Messages
      BY <3>1 DEF EmptyMsg, Messages
    <3> QED
      BY <3>1, <3>2 DEF EventsOf
  <2> QED
    BY <1>1, <1>2, <1>6, <2>1, <2>2, PushIs
<1>7. CASE Synchronize(Ix) \/ ProcessData(Ix) \/ ProcessRollback(Ix)
  BY <1>1, <1>2, <1>7, IndexSteps DEF Synced, DataTaken, RollbackTaken, Taken
<1>8. CASE UNCHANGED <<nodeVars, evmVars>>
  BY <1>1, <1>8 DEF nodeVars, indexVars, QStays, Queue
<1> QED
  BY <1>1, <1>3, <1>4, <1>5, <1>6, <1>7, <1>8 DEF SubstrateStep

(* Finalized blocks are not rolled back.                                    *)
NoRollbacks == \A p \in 1 .. Len(Queue) : ~IsRollback(Queue[p])

(* No step adds one.                                                        *)
LEMMA NoRollbacksKept ==
  ASSUME SubstrateTypes, NoRollbacks, [Next]_vars
  PROVE  NoRollbacks'
<1>1. Len(Queue) \in Nat
  BY QueueIs DEF SubstrateTypes, Kinds, QueueFacts
<1>2. CASE QStays \/ QCleared
  BY <1>2 DEF QStays, QCleared, NoRollbacks
<1>3. CASE QPopped
  <2>1. \A n \in 1 .. Len(Queue) - 1 : n + 1 \in 1 .. Len(Queue)
    BY <1>1
  <2> QED
    BY <1>3, <2>1 DEF QPopped, NoRollbacks
<1>4. CASE QPushed(EventsOf(current))
  <2>1. ~IsRollback(EventsOf(current))
    BY DEF EventsOf, DataMsg, EmptyMsg, IsRollback
  <2>2. \A p \in 1 .. Len(Queue') : p \in 1 .. Len(Queue) \/ p = Len(Queue) + 1
    BY <1>1, <1>4 DEF QPushed
  <2> QED
    BY <1>4, <2>1, <2>2 DEF QPushed, NoRollbacks
<1> QED
  BY <1>2, <1>3, <1>4, SubstrateQueue

CoversIndex ==
  /\ ofEvm \/ ofSubstrate \/ ofPolled
  /\ ofEvm => Covering
  /\ ofSubstrate => SubstrateTypes /\ NoRollbacks
  /\ ofPolled => PolledTypes

(* The message of a rollback reaches up to the level of the index.          *)
THEOREM RollbackCovers ==
  ASSUME {"both_kinds", "shorter", "stale_known", "backlog", "offline",
          "lost_rollback"} \intersect Hazards = {}
  PROVE  Spec => []RollbackCoversIndex
<1>1. Single /\ Attended
  BY DEF Single, Attended
<1>2. Init => CoversIndex
  <2> SUFFICES ASSUME Init PROVE CoversIndex
    OBVIOUS
  <2>1. ofEvm \/ ofSubstrate \/ ofPolled
    BY Systems
  <2>2. ofEvm => Covering
    BY <1>1, CoveringStart
  <2>3. ofSubstrate => SubstrateTypes /\ NoRollbacks
    <3> SUFFICES ASSUME ofSubstrate PROVE SubstrateTypes /\ NoRollbacks
      OBVIOUS
    <3>1. SubstrateTypes
      BY SubstrateTypesStart
    <3>2. Len(Queue) = 0
      BY <3>1, NoElements DEF Init, NodeInit, Queue, SubstrateTypes, Kinds
    <3> QED
      BY <3>1, <3>2 DEF NoRollbacks
  <2>4. ofPolled => PolledTypes
    BY PolledTypesStart
  <2> QED
    BY <2>1, <2>2, <2>3, <2>4 DEF CoversIndex
<1>3. CoversIndex /\ [Next]_vars => CoversIndex'
  <2> SUFFICES ASSUME CoversIndex, [Next]_vars PROVE CoversIndex'
    OBVIOUS
  <2>1. ofEvm' = ofEvm /\ ofSubstrate' = ofSubstrate /\ ofPolled' = ofPolled
    BY Systems
  <2>2. ofEvm => Covering'
    BY <1>1, CoveringKept DEF CoversIndex
  <2>3. ofSubstrate => SubstrateTypes' /\ NoRollbacks'
    BY SubstrateTypesKept, NoRollbacksKept DEF CoversIndex
  <2>4. ofPolled => PolledTypes'
    BY PolledTypesKept DEF CoversIndex
  <2> QED
    BY <2>1, <2>2, <2>3, <2>4 DEF CoversIndex
<1>4. CoversIndex => RollbackCoversIndex
  <2> SUFFICES ASSUME CoversIndex, NEW k \in kinds, AtQueue(k), Head(queue[k]).kind = "rollback"
               PROVE  level[k] <= Head(queue[k]).from
    BY DEF RollbackCoversIndex
  <2>1. k = Ix /\ IndexTypes /\ Ix \in Kinds
    BY DEF CoversIndex, Covering, EvmTypes, SubstrateTypes, PolledTypes, Kinds
  <2>2. queue[k] # <<>>
    BY DEF AtQueue
  <2>3. QueueFacts /\ level[Ix] \in Int
    BY <2>1, QueueIs DEF IndexTypes
  <2>4. Queue \in Seq(Messages) /\ Queue # <<>> /\ queue[k] = Queue
    BY <2>1, <2>2 DEF IndexTypes, Queue
  <2>5. Head(queue[k]) = Queue[1] /\ 1 \in 1 .. Len(Queue)
    BY <2>4, HeadTail
  <2>6. IsRollback(Queue[1])
    BY <2>5 DEF IsRollback
  <2>7. CASE ofEvm
    <3>1. Queue[1].from >= level[Ix] /\ Queue[1].from \in Int
      BY <2>3, <2>5, <2>6, <2>7 DEF CoversIndex, Covering, Backed, QueueFacts
    <3> QED
      BY <2>1, <2>3, <2>5, <3>1
  <2>8. CASE ofSubstrate
    BY <2>5, <2>6, <2>8 DEF CoversIndex, NoRollbacks
  <2>9. CASE ofPolled
    BY <2>4, <2>9 DEF CoversIndex, PolledTypes
  <2> QED
    BY <2>7, <2>8, <2>9 DEF CoversIndex
<1> QED
  BY <1>2, <1>3, <1>4, PTL DEF Spec

=============================================================================
