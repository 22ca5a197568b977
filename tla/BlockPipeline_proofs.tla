------------------------ MODULE BlockPipeline_proofs ------------------------
(***************************************************************************)
(* Proofs about BlockPipeline, for any number of writers, buffers, blocks  *)
(* and channel capacities: the reference counts are exact, no buffer is    *)
(* refilled under a reader, and only a whole message is committed.         *)
(***************************************************************************)
EXTENDS BlockPipeline, FiniteSetTheorems, TLAPS

USE WAssumption, SizeAssumption, BufferAssumption

-----------------------------------------------------------------------------
(***************************************************************************)
(* The inductive invariant.                                                *)
(***************************************************************************)
Late == pc \in {"close", "collect", "done"}

\* The producer and the ends of the consumers.
Control ==
    /\ pc \in {"offer", "send", "drop"} => n >= 1
    /\ pc = "read" => cur \in Buffers
    /\ ~Late => err = "nil" /\ collected = {}
    /\ Late /\ err = "nil" => e = "eof"
    /\ \A w \in Writer : closed[w] <=> pc \in {"collect", "done"}
    /\ closed[Parser] => pc = "done"
    /\ \A w \in posted : closed[w] /\ hold[w] = 0 /\ queue[w] = <<>>
    /\ err = "nil" => \A w \in collected : failure[w] = "nil"
    /\ pc = "done" => collected = Writer
    /\ parsed = "ok" => pc = "done" /\ hold[Parser] = 0 /\ queue[Parser] = <<>>
    /\ outcome = "commit" => pc = "done" /\ parsed = "ok" /\ err = "nil"

\* A consumer that was sent d blocks, has the blocks of q before it, works on
\* block h and has seen s: they follow each other.
Line(q, h, s, d) ==
    /\ Len(q) <= d
    /\ \A j \in 1..Len(q) : q[j] = d - Len(q) + j
    /\ h # 0 => h = d - Len(q)
    /\ Len(s) <= d - Len(q) - (IF h = 0 THEN 0 ELSE 1)
    /\ \A j \in 1..Len(s) : s[j] = j

\* It has left nothing out.
Exact(q, h, s, d) == Len(s) = d - Len(q) - (IF h = 0 THEN 0 ELSE 1)

\* The consumer c was sent d blocks; a dispatch that was cancelled has left
\* some consumers without the last one.
Sent(c, d) ==
    IF pc \in {"offer", "send"} THEN d = IF c < k THEN n ELSE n - 1
    ELSE IF Late /\ err # "nil" THEN d \in {n - 1, n}
    ELSE d = n

Flow(c) ==
    \E d \in 0..n :
        /\ Sent(c, d)
        /\ Line(queue[c], hold[c], seen[c], d)
        /\ c = Parser \/ failure[c] = "nil" => Exact(queue[c], hold[c], seen[c], d)

\* A buffer is in the free channel once, or with receive, or carries a block
\* that is referred to.
Placed ==
    /\ \A i, j \in 1..Len(free) : free[i] = free[j] => i = j
    /\ pc = "read" => \A j \in 1..Len(free) : free[j] # cur
    /\ \A x \in Block : refs[x] > 0 =>
          /\ data[x] \in Buffers /\ content[data[x]] = x
          /\ \A j \in 1..Len(free) : free[j] # data[x]
          /\ pc = "read" => data[x] # cur

IInv ==
    /\ TypeOK /\ Control /\ Placed /\ RefsExact
    /\ \A c \in Consumer : Flow(c)

-----------------------------------------------------------------------------
(***************************************************************************)
(* A consumer's line of blocks.                                            *)
(***************************************************************************)

LEMMA LineSend ==
  ASSUME NEW q \in Seq(Block), NEW h \in Nat, NEW s \in Seq(0..MaxBlock), NEW d \in Nat,
         d + 1 \in Block, Line(q, h, s, d)
  PROVE  /\ Line(Append(q, d + 1), h, s, d + 1)
         /\ Exact(q, h, s, d) => Exact(Append(q, d + 1), h, s, d + 1)
<1> DEFINE p == Append(q, d + 1)
<1>1. /\ Len(p) = Len(q) + 1 /\ Len(q) \in Nat /\ Len(s) \in Nat
      /\ \A j \in 1..Len(q) : p[j] = q[j]
      /\ p[Len(q) + 1] = d + 1
  OBVIOUS
<1> HIDE DEF p
<1>2. /\ Len(q) <= d /\ \A j \in 1..Len(q) : q[j] = d - Len(q) + j
  BY DEF Line
<1>3. ASSUME NEW j \in 1..Len(p) PROVE p[j] = (d + 1) - Len(p) + j
  <2>1. CASE j \in 1..Len(q)
    BY <1>1, <1>2, <2>1
  <2>2. CASE j = Len(q) + 1
    BY <1>1, <2>2
  <2> QED
    BY <1>1, <2>1, <2>2
<1>4. Line(p, h, s, d + 1)
  <2>1. (d + 1) - Len(p) = d - Len(q) /\ Len(p) <= d + 1
    BY <1>1, <1>2
  <2>2. /\ h # 0 => h = d - Len(q)
        /\ Len(s) <= d - Len(q) - (IF h = 0 THEN 0 ELSE 1)
        /\ \A j \in 1..Len(s) : s[j] = j
    BY DEF Line
  <2> QED
    BY <1>3, <2>1, <2>2 DEF Line
<1>5. Exact(q, h, s, d) => Exact(p, h, s, d + 1)
  BY <1>1, <1>2 DEF Exact
<1> QED
  BY <1>4, <1>5 DEF p

LEMMA LineReceive ==
  ASSUME NEW q \in Seq(Block), NEW s \in Seq(0..MaxBlock), NEW d \in Nat,
         q # <<>>, Line(q, 0, s, d)
  PROVE  /\ Line(Tail(q), Head(q), s, d) /\ Head(q) # 0
         /\ Exact(q, 0, s, d) => Exact(Tail(q), Head(q), s, d)
<1> DEFINE p == Tail(q)
           h == Head(q)
<1>1. /\ Len(q) >= 1 /\ h = q[1] /\ h \in Block
      /\ Len(p) = Len(q) - 1 /\ Len(q) \in Nat /\ Len(s) \in Nat
      /\ \A j \in 1..Len(q) - 1 : p[j] = q[j + 1]
  OBVIOUS
<1> HIDE DEF p, h
<1>2. /\ Len(q) <= d /\ \A j \in 1..Len(q) : q[j] = d - Len(q) + j
      /\ Len(s) <= d - Len(q) /\ \A j \in 1..Len(s) : s[j] = j
  BY DEF Line
<1>3. h = d - Len(q) + 1 /\ h # 0
  BY <1>1, <1>2 DEF Block
<1>4. ASSUME NEW j \in 1..Len(p) PROVE p[j] = d - Len(p) + j
  <2>1. j \in 1..Len(q) - 1 /\ j + 1 \in 1..Len(q)
    BY <1>1
  <2> QED
    BY <1>1, <1>2, <2>1
<1>5. Line(p, h, s, d)
  BY <1>1, <1>2, <1>3, <1>4 DEF Line
<1>6. Exact(q, 0, s, d) => Exact(p, h, s, d)
  BY <1>1, <1>2, <1>3 DEF Exact
<1> QED
  BY <1>3, <1>5, <1>6 DEF p, h

LEMMA LineWrite ==
  ASSUME NEW q \in Seq(Block), NEW h \in Nat \ {0}, NEW s \in Seq(0..MaxBlock), NEW d \in Nat,
         h \in 0..MaxBlock, Line(q, h, s, d)
  PROVE  /\ Line(q, 0, s, d)
         /\ Exact(q, h, s, d) => /\ Line(q, 0, Append(s, h), d)
                                 /\ Exact(q, 0, Append(s, h), d)
  BY DEF Line, Exact

\* What is in the channel comes after what is worked on.
LEMMA LineRange ==
  ASSUME NEW q \in Seq(Block), NEW h \in Nat, NEW s \in Seq(0..MaxBlock), NEW d \in Nat,
         Line(q, h, s, d)
  PROVE  /\ Range(q) = (d - Len(q) + 1)..d
         /\ h <= d
         /\ h # 0 => h \notin Range(q)
         /\ q # <<>> => /\ Range(Tail(q)) = Range(q) \ {Head(q)}
                        /\ Head(q) \in Range(q)
<1>1. Len(q) \in Nat /\ Len(q) <= d /\ \A j \in 1..Len(q) : q[j] = d - Len(q) + j
  BY DEF Line
<1>2. ASSUME NEW p \in Seq(Block), NEW b \in Nat, Len(p) <= d, b = d - Len(p),
             \A j \in 1..Len(p) : p[j] = b + j
      PROVE  Range(p) = (b + 1)..d
  <2>1. Range(p) = {p[j] : j \in 1..Len(p)} /\ Len(p) \in Nat
    BY DEF Range
  <2>2. ASSUME NEW x \in (b + 1)..d PROVE x \in Range(p)
    <3>1. x - b \in 1..Len(p) /\ b + (x - b) = x
      BY <1>2, <2>1
    <3>2. p[x - b] = x
      BY <1>2, <3>1
    <3> QED
      BY <2>1, <3>1, <3>2
  <2>3. ASSUME NEW j \in 1..Len(p) PROVE p[j] \in (b + 1)..d
    BY SMTT(30), <1>2, <2>1
  <2> QED
    BY <2>1, <2>2, <2>3
<1>3. Range(q) = (d - Len(q) + 1)..d
  <2> DEFINE b == d - Len(q)
  <2>1. b \in Nat /\ \A j \in 1..Len(q) : q[j] = b + j
    BY <1>1
  <2> HIDE DEF b
  <2>2. b = d - Len(q)
    BY DEF b
  <2>3. Range(q) = (b + 1)..d
    BY <1>1, <1>2, <2>1, <2>2
  <2> QED
    BY <2>2, <2>3
<1>4. ASSUME q # <<>>
      PROVE Range(Tail(q)) = Range(q) \ {Head(q)} /\ Head(q) \in Range(q)
  <2>1. /\ Tail(q) \in Seq(Block) /\ Len(Tail(q)) = Len(q) - 1 /\ Len(q) >= 1
        /\ Head(q) = q[1]
        /\ \A j \in 1..Len(q) - 1 : Tail(q)[j] = q[j + 1]
    BY <1>4
  <2>2. Range(Tail(q)) = (d - Len(q) + 2)..d
    <3> DEFINE b == d - Len(q) + 1
    <3>1. b \in Nat /\ b = d - Len(Tail(q)) /\ Len(Tail(q)) <= d
      BY <1>1, <2>1
    <3>2. ASSUME NEW j \in 1..Len(Tail(q)) PROVE Tail(q)[j] = b + j
      <4>1. j \in 1..Len(q) - 1 /\ j + 1 \in 1..Len(q)
        BY <1>1, <2>1
      <4> QED
        BY <1>1, <2>1, <4>1
    <3> HIDE DEF b
    <3>3. Range(Tail(q)) = (b + 1)..d
      BY <1>2, <2>1, <3>1, <3>2
    <3> QED
      BY <1>1, <3>3 DEF b
  <2>3. Head(q) = d - Len(q) + 1
    BY <1>1, <2>1
  <2> QED
    BY <1>1, <1>3, <2>2, <2>3, <2>1
<1> QED
  BY <1>1, <1>3, <1>4 DEF Line

-----------------------------------------------------------------------------
(***************************************************************************)
(* Holders.                                                                *)
(***************************************************************************)

LEMMA HoldersFinite ==
  ASSUME NEW x
  PROVE  IsFiniteSet(Holders(x)) /\ Cardinality(Holders(x)) \in Nat
<1>1. IsFiniteSet(Consumer)
  <2>1. 1 \in Int /\ W + 1 \in Int
    OBVIOUS
  <2> QED
    BY <2>1, FS_Interval DEF Consumer
<1>2. IsFiniteSet(Consumer \cup {0} \cup {-1})
  BY <1>1, FS_AddElement
<1>3. Holders(x) \subseteq Consumer \cup {0} \cup {-1}
  BY DEF Holders
<1> QED
  BY <1>2, <1>3, FS_Subset, FS_CardinalityType

LEMMA CountPositive ==
  ASSUME NEW S, IsFiniteSet(S), NEW a \in S
  PROVE  Cardinality(S) \in Nat /\ Cardinality(S) >= 1
         /\ Cardinality(S \ {a}) = Cardinality(S) - 1 /\ IsFiniteSet(S \ {a})
<1>1. Cardinality(S) \in Nat /\ S # {}
  BY FS_CardinalityType
<1>2. Cardinality(S) # 0
  BY <1>1, FS_EmptySet
<1> QED
  BY <1>1, <1>2, FS_RemoveElement

\* Whoever holds a block has a reference, and the block its buffer.
LEMMA Held ==
  ASSUME TypeOK, RefsExact, Placed, NEW x \in Block, NEW a \in Holders(x)
  PROVE  /\ refs[x] \in Nat /\ refs[x] >= 1
         /\ data[x] \in Buffers /\ content[data[x]] = x
         /\ \A b \in Holders(x) : b # a => refs[x] >= 2
<1>1. refs[x] = Cardinality(Holders(x)) /\ refs[x] \in Nat
  BY DEF RefsExact, TypeOK
<1>2. refs[x] >= 1
  BY <1>1, HoldersFinite, CountPositive
<1>3. ASSUME NEW b \in Holders(x), b # a PROVE refs[x] >= 2
  <2>1. /\ Cardinality(Holders(x) \ {a}) = refs[x] - 1
        /\ IsFiniteSet(Holders(x) \ {a}) /\ b \in Holders(x) \ {a}
    BY <1>1, <1>3, HoldersFinite, CountPositive
  <2>2. Cardinality(Holders(x) \ {a}) >= 1
    BY <2>1, CountPositive
  <2> QED
    BY <1>1, <2>1, <2>2
<1> QED
  BY <1>1, <1>2, <1>3 DEF Placed

\* What each of those who release a block can rely on.
Releasable(x, times) ==
    /\ x \in Block /\ refs[x] \in Nat /\ refs[x] >= times
    /\ data[x] \in Buffers /\ content[data[x]] = x

LEMMA HeldByConsumer ==
  ASSUME IInv, NEW c \in Consumer, hold[c] # 0
  PROVE  Releasable(hold[c], 1) /\ c \in Holders(hold[c])
<1>1. hold[c] \in Block
  BY DEF IInv, TypeOK, Block
<1>2. c \in Holders(hold[c])
  BY DEF Holders
<1> QED
  BY <1>1, <1>2, Held DEF IInv, Releasable

LEMMA HeldByReceive ==
  ASSUME IInv, pc \in {"offer", "send", "drop"}
  PROVE  /\ Releasable(n, 1) /\ 0 \in Holders(n)
         /\ pc = "send" => Releasable(n, 2) /\ -1 \in Holders(n)
<1>1. n \in Block
  BY DEF IInv, TypeOK, Control, Block
<1>2. 0 \in Holders(n) /\ (pc = "send" => -1 \in Holders(n))
  BY DEF Holders
<1>3. Releasable(n, 1)
  BY <1>1, <1>2, Held DEF IInv, Releasable
<1>4. ASSUME pc = "send" PROVE refs[n] >= 2
  <2>1. -1 \in Holders(n) /\ -1 # 0
    BY <1>2, <1>4
  <2> QED
    BY <1>1, <1>2, <2>1, Held DEF IInv
<1> QED
  BY <1>2, <1>3, <1>4 DEF Releasable

LEMMA ReleaseEffect ==
  ASSUME TypeOK, NEW x, NEW times \in {1, 2}, Releasable(x, times), Release(x, times)
  PROVE  /\ refs' \in [Block -> Nat] /\ free' \in Seq(Buffers)
         /\ UNCHANGED <<content, data>>
         /\ refs'[x] = refs[x] - times
         /\ \A y \in Block \ {x} : refs'[y] = refs[y]
         /\ free' = IF refs'[x] = 0 THEN Append(free, data[x]) ELSE free
<1>1. x \in Block /\ refs[x] \in Nat /\ refs[x] >= times /\ data[x] \in Buffers
  BY DEF Releasable
<1>2. /\ refs' \in [Block -> Nat] /\ refs'[x] = refs[x] - times
      /\ \A y \in Block \ {x} : refs'[y] = refs[y]
  BY <1>1 DEF Release, TypeOK
<1>3. free' = IF refs'[x] = 0 THEN Append(free, data[x]) ELSE free
  BY <1>1, <1>2 DEF Release
<1> QED
  BY <1>1, <1>2, <1>3 DEF Release, TypeOK

-----------------------------------------------------------------------------
(***************************************************************************)
(* Types.                                                                  *)
(***************************************************************************)

LEMMA TypeStep == IInv /\ [Next]_vars => TypeOK'
<1> SUFFICES ASSUME IInv, [Next]_vars PROVE TypeOK'
  OBVIOUS
<1>0. TypeOK /\ Control
  BY DEF IInv
<1> USE DEF TypeOK
<1>1. CASE UNCHANGED vars
  BY <1>0, <1>1 DEF vars, bufferVars, producerVars, consumerVars
<1>2. CASE Take
  <2>1. /\ Head(free) \in Buffers /\ Tail(free) \in Seq(Buffers)
    BY <1>0, <1>2 DEF Take
  <2> QED
    BY SMTT(30), <1>0, <1>2, <2>1 DEF Take, consumerVars
<1>3. CASE TakeCancelled
  BY <1>0, <1>3 DEF TakeCancelled, Return, bufferVars, consumerVars, Errors
<1>4. CASE ReadData
  <2>1. CASE n = MaxBlock
    BY <1>0, <1>4, <2>1 DEF ReadData, Return, consumerVars, Errors
  <2>2. CASE n # MaxBlock
    <3>1. n + 1 \in Block /\ n + 1 \in 0..MaxBlock /\ cur \in Buffers /\ 1 \in Consumer
      BY <1>0, <1>4, <2>2 DEF ReadData, Control, Block, Consumer
    <3>2. /\ content' = [content EXCEPT ![cur] = n + 1] /\ data' = [data EXCEPT ![n + 1] = cur]
          /\ refs' = [refs EXCEPT ![n + 1] = 1]
      BY <1>4, <2>2 DEF ReadData, FirstRefs
    <3>3. /\ content' \in [Buffers -> 0..MaxBlock] /\ data' \in [Block -> Buffers \cup {0}]
          /\ refs' \in [Block -> Nat]
      BY <1>0, <3>1, <3>2
    <3> QED
      BY <1>0, <1>4, <2>2, <3>1, <3>3 DEF ReadData, consumerVars
  <2> QED
    BY <2>1, <2>2
<1>5. CASE ReadEmpty
  <2>1. Append(free, cur) \in Seq(Buffers)
    BY <1>0, <1>5 DEF ReadEmpty, Control
  <2> QED
    <3>1. /\ pc' \in {"take", "close"} /\ err' \in Errors /\ e' \in {"nil", "eof", "error"}
      BY <1>0, <1>5 DEF ReadEmpty, After, Return, Errors
    <3> QED
      BY <1>0, <1>5, <2>1, <3>1 DEF ReadEmpty, consumerVars
<1>6. CASE Offer
  <2>1. n \in Block
    BY <1>0, <1>6 DEF Offer, Control, Block
  <2> QED
    BY SMTT(30), <1>0, <1>6, <2>1 DEF Offer, consumerVars
<1>7. CASE Send
  <2>1. n \in Block /\ Append(queue[k], n) \in Seq(Block)
        /\ Len(Append(queue[k], n)) = Len(queue[k]) + 1
    BY <1>0, <1>7 DEF Send, Control, Block
  <2>2. k # Parser => k + 1 \in Consumer
    BY <1>0 DEF Consumer, Parser
  <2> QED
    <3>1. queue' = [queue EXCEPT ![k] = Append(@, n)] /\ Len(queue[k]) < Cap
      BY <1>7 DEF Send
    <3>2. queue' \in [Consumer -> Seq(Block)] /\ \A c \in Consumer : Len(queue'[c]) <= Cap
      BY <1>0, <2>1, <3>1
    <3>3. pc' \in {"drop", "offer"} /\ k' \in Consumer
      BY <1>0, <1>7, <2>2 DEF Send
    <3> QED
      BY <1>0, <1>7, <3>2, <3>3 DEF Send, bufferVars, consumerVars
<1>8. ASSUME NEW x, NEW times \in {1, 2}, Releasable(x, times), Release(x, times)
      PROVE  refs' \in [Block -> Nat] /\ free' \in Seq(Buffers)
             /\ content' = content /\ data' = data
  BY SMTT(30), <1>0, <1>8, ReleaseEffect
<1>9. CASE SendCancelled
  <2>1. Releasable(n, 2) /\ Release(n, 2)
    BY <1>9, HeldByReceive DEF SendCancelled, OnCancel
  <2> QED
    BY <1>0, <1>8, <1>9, <2>1 DEF SendCancelled, Return, consumerVars, Errors
<1>10. CASE Drop
  <2>1. Releasable(n, 1) /\ Release(n, 1)
    BY <1>10, HeldByReceive DEF Drop
  <2> QED
    BY <1>0, <1>8, <1>10, <2>1 DEF Drop, After, Return, consumerVars, Errors
<1>11. CASE CloseQueues
  BY <1>0, <1>11 DEF CloseQueues, bufferVars, consumerVars
<1>12. ASSUME NEW w \in Writer, Collect(w) PROVE TypeOK'
  BY <1>0, <1>12 DEF Collect, Joined, bufferVars, consumerVars, Errors
<1>13. CASE Received
  BY <1>0, <1>13 DEF Received, bufferVars, consumerVars
<1>14. CASE Decide
  BY <1>0, <1>14 DEF Decide, bufferVars, consumerVars, producerVars
<1>15. ASSUME NEW c \in Consumer, Receive(c) PROVE TypeOK'
  <2>1. /\ Head(queue[c]) \in Block /\ Tail(queue[c]) \in Seq(Block)
        /\ Len(Tail(queue[c])) <= Cap
    BY <1>0, <1>15 DEF Receive
  <2> QED
    <3>1. /\ hold' = [hold EXCEPT ![c] = Head(queue[c])]
          /\ queue' = [queue EXCEPT ![c] = Tail(@)]
      BY <1>15 DEF Receive
    <3>2. queue' \in [Consumer -> Seq(Block)] /\ \A d \in Consumer : Len(queue'[d]) <= Cap
      BY <1>0, <2>1, <3>1
    <3>3. hold' \in [Consumer -> 0..MaxBlock]
      <4>1. \A x \in Block : x \in 0..MaxBlock
        BY DEF Block
      <4> QED
        BY <1>0, <2>1, <3>1, <4>1
    <3> QED
      BY <1>0, <1>15, <3>2, <3>3 DEF Receive, bufferVars, producerVars
<1>16. ASSUME NEW c \in Consumer, hold[c] # 0, Saw(c)
       PROVE  seen' \in [Consumer -> Seq(0..MaxBlock)]
  <2>1. data[hold[c]] \in Buffers
    BY <1>16, HeldByConsumer DEF Releasable
  <2>2. content[data[hold[c]]] \in 0..MaxBlock
    BY <1>0, <2>1
  <2>3. Append(seen[c], content[data[hold[c]]]) \in Seq(0..MaxBlock)
    BY <1>0, <2>2
  <2> QED
    BY <1>0, <1>16, <2>3 DEF Saw
<1>17. ASSUME NEW w \in Writer, WriterWrite(w) PROVE TypeOK'
  <2>1. w \in Consumer /\ hold[w] # 0
    BY <1>17 DEF WriterWrite, Writer, Consumer
  <2>2. Releasable(hold[w], 1) /\ Release(hold[w], 1)
    BY <1>17, <2>1, HeldByConsumer DEF WriterWrite
  <2>3. seen' \in [Consumer -> Seq(0..MaxBlock)]
    BY <1>0, <1>16, <1>17, <2>1 DEF WriterWrite
  <2>4. failure' \in [Writer -> Errors] /\ inner' \in BOOLEAN
    BY <1>0, <1>17 DEF WriterWrite, Errors
  <2>5. hold' \in [Consumer -> 0..MaxBlock]
    BY <1>0, <1>17, <2>1 DEF WriterWrite
  <2> QED
    BY SMTT(30), <1>0, <1>8, <1>17, <2>2, <2>3, <2>4, <2>5 DEF WriterWrite, producerVars
<1>18. CASE ParserRead
  <2>1. Parser \in Consumer /\ hold[Parser] # 0
    BY <1>18 DEF ParserRead, Parser, Consumer
  <2>2. Releasable(hold[Parser], 1) /\ Release(hold[Parser], 1)
    BY <1>18, <2>1, HeldByConsumer DEF ParserRead
  <2>3. seen' \in [Consumer -> Seq(0..MaxBlock)]
    BY <1>16, <1>18, <2>1 DEF ParserRead
  <2>4. hold' \in [Consumer -> 0..MaxBlock]
    BY <1>0, <1>18, <2>1 DEF ParserRead
  <2> QED
    BY <1>0, <1>8, <1>18, <2>2, <2>3, <2>4 DEF ParserRead, producerVars
<1>19. ASSUME NEW w \in Writer, WriterExit(w) PROVE TypeOK'
  BY <1>0, <1>19 DEF WriterExit, bufferVars, producerVars
<1>20. CASE ParserEOF \/ ParserCancelled \/ ParserFails
  BY ZenonT(40), <1>0, <1>20 DEF ParserEOF, ParserCancelled, ParserFails, ParserEnds, ParserCancels,
     bufferVars, producerVars, consumerVars
<1>21. CASE Cancel
  BY <1>0, <1>21 DEF Cancel, bufferVars, producerVars, consumerVars
<1>22. Parser \in Consumer /\ Writer \subseteq Consumer
  BY DEF Parser, Consumer, Writer
<1> QED
  BY <1>1, <1>2, <1>3, <1>4, <1>5, <1>6, <1>7, <1>9, <1>10, <1>11, <1>12, <1>13, <1>14,
     <1>15, <1>17, <1>18, <1>19, <1>20, <1>21, <1>22
     DEF Next, Producer, WriterStep, ParserStep

-----------------------------------------------------------------------------
(***************************************************************************)
(* Control.                                                                *)
(***************************************************************************)

LEMMA ControlStep == IInv /\ [Next]_vars => Control'
<1> SUFFICES ASSUME IInv, [Next]_vars PROVE Control'
  OBVIOUS
<1>0. /\ TypeOK /\ Control /\ W \in Nat
      /\ Parser \in Consumer /\ Parser \notin Writer /\ Writer \subseteq Consumer
  BY DEF IInv, Parser, Consumer, Writer
<1> USE DEF Control, Late
<1>1. CASE UNCHANGED vars
  BY <1>0, <1>1 DEF vars, bufferVars, producerVars, consumerVars
<1>2. CASE Take \/ TakeCancelled
  <2>1. Take => Head(free) \in Buffers
    BY <1>0 DEF Take, TypeOK
  <2> QED
    BY <1>0, <1>2, <2>1 DEF Take, TakeCancelled, Return, bufferVars, consumerVars
<1>3. CASE ReadData
  BY SMTT(30), <1>0, <1>3 DEF ReadData, Return, consumerVars, TypeOK
<1>4. CASE ReadEmpty
  BY <1>0, <1>4 DEF ReadEmpty, After, Return, consumerVars
<1>5. CASE Offer
  BY <1>0, <1>5 DEF Offer, consumerVars
<1>6. CASE Send
  <2>1. pc = "send" /\ pc' \in {"drop", "offer"}
    BY <1>6 DEF Send
  <2>2. /\ \A w \in Writer : ~closed[w]
        /\ ~closed[Parser] /\ parsed # "ok"
    BY <1>0, <2>1
  <2>3. posted = {}
    BY <1>0, <2>2 DEF TypeOK
  <2> QED
    BY <1>0, <1>6, <2>1, <2>2, <2>3 DEF Send, consumerVars
<1>7. CASE SendCancelled
  BY <1>0, <1>7 DEF SendCancelled, Return, consumerVars
<1>8. CASE Drop
  BY <1>0, <1>8 DEF Drop, After, Return, consumerVars, TypeOK
<1>9. CASE CloseQueues
  BY <1>0, <1>9 DEF CloseQueues, bufferVars, consumerVars, TypeOK
<1>10. ASSUME NEW w \in Writer, Collect(w) PROVE Control'
  BY <1>0, <1>10 DEF Collect, Joined, bufferVars, consumerVars, TypeOK
<1>11. CASE Received
  BY <1>0, <1>11 DEF Received, bufferVars, consumerVars, TypeOK
<1>12. CASE Decide
  BY <1>0, <1>12 DEF Decide, bufferVars, producerVars, consumerVars
<1>13. ASSUME NEW c \in Consumer, Receive(c) PROVE Control'
  <2>1. /\ queue[c] # <<>> /\ c \notin posted /\ (c = Parser => parsed # "ok")
        /\ \A d \in Consumer \ {c} : hold'[d] = hold[d] /\ queue'[d] = queue[d]
    BY <1>0, <1>13 DEF Receive, TypeOK
  <2> QED
    BY <1>0, <1>13, <2>1 DEF Receive, bufferVars, producerVars, TypeOK
<1>14. ASSUME NEW w \in Writer, WriterWrite(w) PROVE Control'
  <2>1. /\ hold[w] # 0 /\ w \notin posted /\ w \notin collected
        /\ \A d \in Consumer \ {w} : hold'[d] = hold[d]
        /\ \A d \in Writer \ {w} : failure'[d] = failure[d]
    BY <1>0, <1>14 DEF WriterWrite, TypeOK
  <2> QED
    BY SMTT(30), <1>0, <1>14, <2>1 DEF WriterWrite, producerVars, TypeOK
<1>15. CASE ParserRead
  BY <1>0, <1>15 DEF ParserRead, producerVars, TypeOK
<1>16. ASSUME NEW w \in Writer, WriterExit(w) PROVE Control'
  BY <1>0, <1>16 DEF WriterExit, bufferVars, producerVars, TypeOK
<1>17. CASE ParserEOF \/ ParserCancelled \/ ParserFails
  BY <1>0, <1>17 DEF ParserEOF, ParserCancelled, ParserFails, ParserEnds, ParserCancels,
     bufferVars, producerVars, consumerVars
<1>18. CASE Cancel
  BY <1>0, <1>18 DEF Cancel, bufferVars, producerVars, consumerVars
<1> QED
  BY <1>0, <1>1, <1>2, <1>3, <1>4, <1>5, <1>6, <1>7, <1>8, <1>9, <1>10, <1>11, <1>12,
     <1>13, <1>14, <1>15, <1>16, <1>17, <1>18
     DEF Next, Producer, WriterStep, ParserStep

-----------------------------------------------------------------------------
(***************************************************************************)
(* Flow.                                                                   *)
(***************************************************************************)

\* Flow of a consumer which a step leaves alone.
LEMMA FlowFrame ==
  ASSUME NEW c \in Consumer, Flow(c), n \in Nat, n' \in Nat, n <= n',
         UNCHANGED <<queue[c], hold[c], seen[c]>>,
         c = Parser \/ failure[c] = "nil" \/ failure'[c] # "nil",
         \A d \in 0..n : Sent(c, d) => Sent(c, d)'
  PROVE  Flow(c)'
<1>1. PICK d \in 0..n :
        /\ Sent(c, d) /\ Line(queue[c], hold[c], seen[c], d)
        /\ c = Parser \/ failure[c] = "nil" => Exact(queue[c], hold[c], seen[c], d)
  BY DEF Flow
<1>2. d \in 0..n' /\ Sent(c, d)'
  BY <1>1
<1>3. queue'[c] = queue[c] /\ hold'[c] = hold[c] /\ seen'[c] = seen[c]
  OBVIOUS
<1>4. Line(queue'[c], hold'[c], seen'[c], d)
  BY <1>1, <1>3
<1>5. c = Parser \/ failure'[c] = "nil" => Exact(queue'[c], hold'[c], seen'[c], d)
  BY <1>1, <1>3
<1> QED
  BY <1>2, <1>4, <1>5 DEF Flow

\* One that a step changes: the same number of blocks was sent to it.
LEMMA FlowChange ==
  ASSUME NEW c \in Consumer, UNCHANGED <<n, pc, k, err>>,
         NEW d \in 0..n, Sent(c, d), Line(queue'[c], hold'[c], seen'[c], d),
         c = Parser \/ failure'[c] = "nil" => Exact(queue'[c], hold'[c], seen'[c], d)
  PROVE  Flow(c)'
<1>1. Sent(c, d)'
  BY DEF Sent, Late
<1> QED
  BY <1>1 DEF Flow

LEMMA FlowInit == Init => \A c \in Consumer : Flow(c)
<1> SUFFICES ASSUME Init, NEW c \in Consumer PROVE Flow(c)
  OBVIOUS
<1>1. /\ n = 0 /\ queue[c] = <<>> /\ hold[c] = 0 /\ seen[c] = <<>> /\ pc = "take"
  BY DEF Init
<1>2. Sent(c, 0)
  BY <1>1 DEF Sent, Late
<1>3. Line(<<>>, 0, <<>>, 0) /\ Exact(<<>>, 0, <<>>, 0)
  <2>1. ASSUME NEW q, Len(q) = 0 PROVE Line(q, 0, q, 0) /\ Exact(q, 0, q, 0)
    BY <2>1 DEF Line, Exact
  <2>2. Len(<<>>) = 0
    OBVIOUS
  <2> QED
    BY <2>1, <2>2
<1> QED
  BY <1>1, <1>2, <1>3 DEF Flow

LEMMA FlowStep == IInv /\ [Next]_vars => \A c \in Consumer : Flow(c)'
<1> SUFFICES ASSUME IInv, [Next]_vars, NEW c \in Consumer PROVE Flow(c)'
  OBVIOUS
<1>0. /\ TypeOK /\ Control /\ Flow(c) /\ n \in Nat /\ n' \in Nat /\ c \in Nat /\ k \in Nat
      /\ queue[c] \in Seq(Block) /\ hold[c] \in Nat /\ hold[c] \in 0..MaxBlock
      /\ seen[c] \in Seq(0..MaxBlock)
  <2>1. TypeOK /\ TypeOK' /\ Control /\ Flow(c)
    BY TypeStep DEF IInv
  <2>2. n \in Nat /\ n' \in Nat /\ k \in Consumer /\ hold[c] \in 0..MaxBlock
        /\ queue[c] \in Seq(Block) /\ seen[c] \in Seq(0..MaxBlock)
    BY <2>1 DEF TypeOK
  <2>3. c \in Nat /\ k \in Nat
    BY <2>2 DEF Consumer
  <2> QED
    BY <2>1, <2>2, <2>3
<1>1. PICK d \in 0..n :
        /\ Sent(c, d) /\ Line(queue[c], hold[c], seen[c], d)
        /\ c = Parser \/ failure[c] = "nil" => Exact(queue[c], hold[c], seen[c], d)
  BY <1>0 DEF Flow
<1>2. ASSUME UNCHANGED <<queue, hold, seen, failure, n, pc, k, err>> PROVE Flow(c)'
  BY <1>0, <1>2, FlowFrame DEF Sent, Late
<1>3. CASE UNCHANGED vars
  BY <1>2, <1>3 DEF vars, bufferVars, producerVars, consumerVars
<1>21. ASSUME UNCHANGED <<queue, hold, seen, failure, n>>,
              \A m \in 0..n : Sent(c, m) => Sent(c, m)'
       PROVE  Flow(c)'
  BY <1>0, <1>21, FlowFrame
<1>4. CASE Take \/ TakeCancelled
  <2>1. UNCHANGED <<queue, hold, seen, failure, n>>
    BY <1>4 DEF Take, TakeCancelled, consumerVars
  <2>2. \A m \in 0..n : Sent(c, m) => Sent(c, m)'
    BY <1>0, <1>4 DEF Take, TakeCancelled, Return, Sent, Late
  <2> QED
    BY <1>21, <2>1, <2>2
<1>5. CASE ReadData
  <2>1. UNCHANGED <<queue, hold, seen, failure>> /\ pc = "read"
    BY <1>5 DEF ReadData, consumerVars
  <2>2. /\ n <= n' /\ \A m \in 0..n : Sent(c, m) => Sent(c, m)'
    <3>1. CASE n = MaxBlock
      BY <1>0, <1>5, <3>1 DEF ReadData, Return, Sent, Late
    <3>2. CASE n # MaxBlock
      <4>1. n' = n + 1 /\ pc' = "offer" /\ k' = 1 /\ ~(c < 1)
        BY <1>0, <1>5, <3>2 DEF ReadData, Consumer
      <4> QED
        <5>1. ASSUME NEW m \in 0..n, Sent(c, m) PROVE Sent(c, m)'
          <6>1. m = n
            BY <2>1, <5>1 DEF Sent, Late
          <6> QED
            BY <1>0, <4>1, <6>1 DEF Sent
        <5> QED
          BY <1>0, <4>1, <5>1
    <3> QED
      BY <3>1, <3>2
  <2> QED
    BY <1>0, <2>1, <2>2, FlowFrame
<1>6. CASE ReadEmpty
  <2>1. UNCHANGED <<queue, hold, seen, failure, n>>
    BY <1>6 DEF ReadEmpty, consumerVars
  <2>2. \A m \in 0..n : Sent(c, m) => Sent(c, m)'
    BY <1>0, <1>6 DEF ReadEmpty, After, Return, Sent, Late
  <2> QED
    BY <1>21, <2>1, <2>2
<1>7. CASE Offer
  BY <1>0, <1>7, FlowFrame DEF Offer, consumerVars, Sent, Late
<1>8. CASE Send
  <2>1. /\ pc = "send" /\ queue' = [queue EXCEPT ![k] = Append(@, n)]
        /\ UNCHANGED <<hold, seen, failure, n, err>>
        /\ IF k = Parser THEN pc' = "drop" /\ k' = k ELSE pc' = "offer" /\ k' = k + 1
    BY <1>8 DEF Send, consumerVars
  <2>2. CASE c = k
    <3>1. d = n - 1 /\ n >= 1 /\ n \in Block /\ d + 1 = n
      <4>1. n \in Block
        BY <1>0, <2>1, HeldByReceive DEF Releasable
      <4>2. d = n - 1
        BY <1>0, <1>1, <2>1, <2>2 DEF Sent
      <4> QED
        BY <1>0, <4>1, <4>2 DEF Block
    <3>2. queue'[c] = Append(queue[c], d + 1)
      BY <1>0, <2>1, <2>2, <3>1 DEF TypeOK
    <3>3. /\ Line(queue'[c], hold'[c], seen'[c], n)
          /\ Exact(queue[c], hold[c], seen[c], d) => Exact(queue'[c], hold'[c], seen'[c], n)
      <4>1. /\ Line(Append(queue[c], d + 1), hold[c], seen[c], d + 1)
            /\ Exact(queue[c], hold[c], seen[c], d)
                 => Exact(Append(queue[c], d + 1), hold[c], seen[c], d + 1)
        BY <1>0, <1>1, <3>1, LineSend
      <4> QED
        BY <2>1, <3>1, <3>2, <4>1
    <3>4. Sent(c, n)'
      BY <1>0, <2>1, <2>2 DEF Sent, Late
    <3>5. n' = n /\ n \in 0..n
      BY <1>0, <2>1
    <3>6. c = Parser \/ failure'[c] = "nil" => Exact(queue'[c], hold'[c], seen'[c], n)
      BY <1>1, <2>1, <3>3
    <3> QED
      BY <3>3, <3>4, <3>5, <3>6 DEF Flow
  <2>3. CASE c # k
    <3>1. queue'[c] = queue[c]
      BY <1>0, <2>1, <2>3 DEF TypeOK
    <3>2. \A m \in 0..n : Sent(c, m) => Sent(c, m)'
      BY <1>0, <2>1, <2>3 DEF Sent, Late, Parser, Consumer
    <3> QED
      BY <1>0, <2>1, <3>1, <3>2, FlowFrame
  <2> QED
    BY <2>2, <2>3
<1>9. CASE SendCancelled
  <2>1. UNCHANGED <<queue, hold, seen, failure, n>>
    BY <1>9 DEF SendCancelled, consumerVars
  <2>2. \A m \in 0..n : Sent(c, m) => Sent(c, m)'
    BY <1>0, <1>9 DEF SendCancelled, Return, Sent, Late
  <2> QED
    BY <1>21, <2>1, <2>2
<1>10. CASE Drop
  <2>1. UNCHANGED <<queue, hold, seen, failure, n>>
    BY <1>10 DEF Drop, consumerVars
  <2>2. \A m \in 0..n : Sent(c, m) => Sent(c, m)'
    BY <1>0, <1>10 DEF Drop, After, Return, TypeOK, Sent, Late
  <2> QED
    BY <1>21, <2>1, <2>2
<1>11. CASE CloseQueues \/ Received
  <2>1. UNCHANGED <<queue, hold, seen, failure, n>>
    BY <1>11 DEF CloseQueues, Received, consumerVars
  <2>2. \A m \in 0..n : Sent(c, m) => Sent(c, m)'
    BY <1>0, <1>11 DEF CloseQueues, Received, Sent, Late
  <2> QED
    BY <1>21, <2>1, <2>2
<1>12. ASSUME NEW w \in Writer, Collect(w) PROVE Flow(c)'
  BY <1>0, <1>12, FlowFrame DEF Collect, Joined, consumerVars, Sent, Late
<1>13. CASE Decide \/ ParserEOF \/ ParserCancelled \/ ParserFails \/ Cancel
  BY <1>2, <1>13 DEF Decide, ParserEOF, ParserCancelled, ParserFails, ParserEnds, Cancel,
     producerVars, consumerVars
<1>14. ASSUME NEW x \in Consumer, Receive(x) PROVE Flow(c)'
  <2>1. /\ hold[x] = 0 /\ queue[x] # <<>>
        /\ hold' = [hold EXCEPT ![x] = Head(queue[x])]
        /\ queue' = [queue EXCEPT ![x] = Tail(@)]
        /\ UNCHANGED <<seen, failure, n, pc, k, err>>
    BY <1>14 DEF Receive, producerVars
  <2>2. CASE c = x
    <3>1. hold'[c] = Head(queue[c]) /\ queue'[c] = Tail(queue[c]) /\ seen'[c] = seen[c]
      BY <1>0, <2>1, <2>2 DEF TypeOK
    <3>2. /\ Line(Tail(queue[c]), Head(queue[c]), seen[c], d)
          /\ Exact(queue[c], 0, seen[c], d)
               => Exact(Tail(queue[c]), Head(queue[c]), seen[c], d)
      BY <1>0, <1>1, <2>1, <2>2, LineReceive
    <3>3. c = Parser \/ failure'[c] = "nil" => Exact(queue'[c], hold'[c], seen'[c], d)
      BY <1>1, <2>1, <2>2, <3>1, <3>2
    <3> QED
      BY <1>1, <2>1, <3>1, <3>2, <3>3, FlowChange
  <2>3. CASE c # x
    <3>1. UNCHANGED <<queue[c], hold[c], seen[c]>>
      BY <1>0, <2>1, <2>3 DEF TypeOK
    <3> QED
      BY <1>0, <2>1, <3>1, FlowFrame DEF Sent, Late
  <2> QED
    BY <2>2, <2>3
<1>15. ASSUME NEW x \in Consumer, hold[x] # 0, hold' = [hold EXCEPT ![x] = 0],
              UNCHANGED <<queue, n, pc, k, err>>,
              \/ Saw(x) /\ UNCHANGED failure /\ (x = Parser \/ failure[x] = "nil")
              \/ x # Parser /\ failure'[x] # "nil" /\ UNCHANGED seen,
              \A w \in Consumer \ {x, Parser} : failure'[w] = failure[w]
       PROVE  Flow(c)'
  <2>1. CASE c = x
    <3>1. hold'[c] = 0 /\ queue'[c] = queue[c] /\ hold[c] \in Nat \ {0}
      BY <1>0, <1>15, <2>1 DEF TypeOK
    <3>2. /\ Line(queue[c], 0, seen[c], d)
          /\ Exact(queue[c], hold[c], seen[c], d) =>
                /\ Line(queue[c], 0, Append(seen[c], hold[c]), d)
                /\ Exact(queue[c], 0, Append(seen[c], hold[c]), d)
      BY <1>0, <1>1, <3>1, LineWrite
    <3>3. CASE c # Parser /\ failure'[c] # "nil" /\ UNCHANGED seen
      BY <1>1, <1>15, <3>1, <3>2, <3>3, FlowChange
    <3>4. CASE Saw(c) /\ UNCHANGED failure /\ (c = Parser \/ failure[c] = "nil")
      <4>1. content[data[hold[c]]] = hold[c]
        BY <3>1, HeldByConsumer DEF Releasable
      <4>2. seen'[c] = Append(seen[c], hold[c])
        BY <1>0, <3>4, <4>1 DEF Saw, TypeOK
      <4> QED
        BY <1>1, <1>15, <3>1, <3>2, <3>4, <4>2, FlowChange
    <3> QED
      BY <1>15, <2>1, <3>3, <3>4
  <2>2. CASE c # x
    <3>1. UNCHANGED <<queue[c], hold[c], seen[c]>> /\ (c = Parser \/ failure'[c] = failure[c])
      BY <1>0, <1>15, <2>2 DEF TypeOK, Saw
    <3> QED
      BY <1>0, <1>15, <3>1, FlowFrame DEF Sent, Late
  <2> QED
    BY <2>1, <2>2
<1>16. ASSUME NEW w \in Writer, WriterWrite(w) PROVE Flow(c)'
  <2>1. w \in Consumer /\ w # Parser
    BY DEF Writer, Consumer, Parser
  <2>2. /\ hold[w] # 0 /\ hold' = [hold EXCEPT ![w] = 0]
        /\ UNCHANGED <<queue, n, pc, k, err>>
    BY <1>16 DEF WriterWrite, producerVars
  <2>3. \A v \in Consumer \ {w, Parser} : failure'[v] = failure[v]
    <3>1. \A v \in Consumer \ {w, Parser} : v \in Writer /\ v # w
      BY DEF Consumer, Writer, Parser
    <3> QED
      BY <1>0, <1>16, <3>1 DEF WriterWrite, TypeOK
  <2>4. \/ Saw(w) /\ UNCHANGED failure /\ failure[w] = "nil"
        \/ failure'[w] # "nil" /\ UNCHANGED seen
    BY <1>0, <1>16 DEF WriterWrite, TypeOK
  <2> QED
    BY <1>15, <2>1, <2>2, <2>3, <2>4
<1>17. CASE ParserRead
  <2>1. Parser \in Consumer
    BY DEF Consumer, Parser
  <2> QED
    BY <1>15, <1>17, <2>1 DEF ParserRead, producerVars
<1>18. ASSUME NEW w \in Writer, WriterExit(w) PROVE Flow(c)'
  BY <1>2, <1>18 DEF WriterExit, producerVars
<1>19. Parser \in Consumer /\ Writer \subseteq Consumer
  BY DEF Parser, Consumer, Writer
<1> QED
  BY <1>3, <1>4, <1>5, <1>6, <1>7, <1>8, <1>9, <1>10, <1>11, <1>12, <1>13, <1>14, <1>16,
     <1>17, <1>18, <1>19 DEF Next, Producer, WriterStep, ParserStep

-----------------------------------------------------------------------------
(***************************************************************************)
(* References.                                                             *)
(***************************************************************************)

\* The holders of a block among the consumers.
Holding(x) == {c \in Consumer : hold[c] = x \/ x \in Range(queue[c])}

LEMMA HoldersSplit ==
  ASSUME NEW x
  PROVE  Holders(x) = Holding(x) \cup (IF x = n /\ pc \in {"offer", "send", "drop"}
                                       THEN {0} ELSE {})
                                 \cup (IF x = n /\ pc = "send" THEN {-1} ELSE {})
  BY DEF Holders, Holding

\* What a consumer holds it was sent.
LEMMA HoldingBound ==
  ASSUME IInv, NEW c \in Consumer
  PROVE  /\ hold[c] <= n /\ \A x \in Range(queue[c]) : x <= n
         /\ hold[c] # 0 => hold[c] \notin Range(queue[c])
         /\ pc \in {"offer", "send"} /\ c >= k =>
               hold[c] < n /\ \A x \in Range(queue[c]) : x < n
         /\ queue[c] # <<>> => /\ Range(Tail(queue[c])) = Range(queue[c]) \ {Head(queue[c])}
                               /\ Head(queue[c]) \in Range(queue[c])
<1>1. PICK d \in 0..n : Sent(c, d) /\ Line(queue[c], hold[c], seen[c], d)
  BY DEF IInv, Flow
<1>2. /\ n \in Nat /\ d \in Nat /\ hold[c] \in Nat /\ queue[c] \in Seq(Block)
      /\ seen[c] \in Seq(0..MaxBlock) /\ k \in Nat /\ c \in Nat
  <2>1. TypeOK /\ n \in Nat
    BY SMTT(30) DEF IInv, TypeOK
  <2>2. k \in Consumer /\ hold[c] \in 0..MaxBlock /\ queue[c] \in Seq(Block)
        /\ seen[c] \in Seq(0..MaxBlock)
    BY <2>1 DEF TypeOK
  <2> QED
    BY <2>1, <2>2 DEF Consumer
<1>3. /\ Range(queue[c]) = (d - Len(queue[c]) + 1)..d
      /\ hold[c] <= d
      /\ hold[c] # 0 => hold[c] \notin Range(queue[c])
      /\ queue[c] # <<>> => /\ Range(Tail(queue[c])) = Range(queue[c]) \ {Head(queue[c])}
                            /\ Head(queue[c]) \in Range(queue[c])
  BY <1>1, <1>2, LineRange
<1>4. pc \in {"offer", "send"} /\ c >= k => d = n - 1
  BY <1>1, <1>2 DEF Sent
<1>5. \A x \in Range(queue[c]) : x \in Int /\ x <= d
  BY <1>2, <1>3
<1>6. d <= n
  OBVIOUS
<1>7. hold[c] <= n /\ \A x \in Range(queue[c]) : x <= n
  <2>1. hold[c] <= d
    BY <1>3
  <2>2. hold[c] <= n
    BY <1>2, <1>6, <2>1
  <2>3. ASSUME NEW x \in Range(queue[c]) PROVE x <= n
    <3>1. x \in Int /\ x <= d
      BY <1>5
    <3> QED
      BY <1>2, <1>6, <3>1
  <2> QED
    BY <2>2, <2>3
<1>8. pc \in {"offer", "send"} /\ c >= k =>
        hold[c] < n /\ \A x \in Range(queue[c]) : x < n
  <2> SUFFICES ASSUME d = n - 1
               PROVE  hold[c] < n /\ \A x \in Range(queue[c]) : x < n
    BY <1>4
  <2>1. hold[c] <= n - 1
    BY <1>3
  <2>2. ASSUME NEW x \in Range(queue[c]) PROVE x < n
    BY <1>2, <1>5, <2>2
  <2> QED
    BY <1>2, <2>1, <2>2
<1> QED
  BY <1>3, <1>7, <1>8

LEMMA RefsInit == Init => RefsExact
<1> SUFFICES ASSUME Init, NEW x \in Block PROVE refs[x] = Cardinality(Holders(x))
  BY DEF RefsExact
<1>1. /\ refs[x] = 0 /\ pc = "take" /\ x # 0
      /\ \A c \in Consumer : hold[c] = 0 /\ queue[c] = <<>>
  BY DEF Init, Block
<1>2. Range(<<>>) = {}
  BY DEF Range
<1>3. Holders(x) = {}
  BY <1>1, <1>2 DEF Holders
<1> QED
  BY <1>1, <1>3, FS_EmptySet

\* One holder less, or more, is one reference less, or more.
LEMMA CountStep ==
  ASSUME NEW S, NEW T, IsFiniteSet(S), NEW a,
         \/ a \in S /\ T = S \ {a}
         \/ a \notin S /\ T = S \cup {a}
  PROVE  /\ IsFiniteSet(T) /\ Cardinality(S) \in Nat /\ Cardinality(T) \in Nat
         /\ a \in S => Cardinality(T) = Cardinality(S) - 1
         /\ a \notin S => Cardinality(T) = Cardinality(S) + 1
  BY CountPositive, FS_AddElement, FS_CardinalityType

LEMMA RefsStep == IInv /\ [Next]_vars => RefsExact'
<1> SUFFICES ASSUME IInv, [Next]_vars, NEW x \in Block
             PROVE  refs'[x] = Cardinality(Holders(x)')
  BY DEF RefsExact
<1>0. /\ TypeOK /\ Control /\ refs[x] = Cardinality(Holders(x))
      /\ IsFiniteSet(Holders(x)) /\ Cardinality(Holders(x)) \in Nat
      /\ x \in Nat /\ x # 0 /\ n \in Nat
  BY SMTT(30), HoldersFinite DEF IInv, RefsExact, TypeOK, Block
<1>1. ASSUME UNCHANGED <<hold, queue>> PROVE Holding(x)' = Holding(x)
  BY <1>1 DEF Holding
<1>2. ASSUME UNCHANGED <<hold, queue, n, pc>> PROVE Holders(x)' = Holders(x)
  BY <1>2 DEF Holders
<1>3. CASE UNCHANGED vars
  BY <1>0, <1>2, <1>3 DEF vars, bufferVars, producerVars, consumerVars
<1>4. CASE Take \/ TakeCancelled \/ ReadEmpty \/ CloseQueues \/ Received
  <2>1. /\ UNCHANGED <<hold, queue, n, refs>>
        /\ pc \notin {"offer", "send", "drop"} /\ pc' \notin {"offer", "send", "drop"}
    BY <1>4 DEF Take, TakeCancelled, ReadEmpty, CloseQueues, Received, Return, After,
       bufferVars, consumerVars
  <2>2. Holders(x)' = Holders(x)
    BY <2>1 DEF Holders
  <2> QED
    BY <1>0, <2>1, <2>2
<1>5. ASSUME UNCHANGED <<hold, queue, n, pc, refs>>
      PROVE  refs'[x] = Cardinality(Holders(x)')
  BY <1>0, <1>2, <1>5
<1>6. CASE Decide \/ ParserEOF \/ ParserCancelled \/ ParserFails \/ Cancel
           \/ (\E w \in Writer : Collect(w) \/ WriterExit(w))
  BY <1>5, <1>6 DEF Decide, ParserEOF, ParserCancelled, ParserFails, ParserEnds, Cancel,
     Collect, WriterExit, bufferVars, producerVars, consumerVars
<1>7. CASE ReadData
  <2>1. UNCHANGED <<hold, queue>> /\ pc = "read"
    BY <1>7 DEF ReadData, consumerVars
  <2>2. CASE n = MaxBlock
    <3>1. UNCHANGED <<n, refs>> /\ pc' = "close"
      BY <1>7, <2>2 DEF ReadData, Return
    <3>2. Holders(x)' = Holders(x)
      BY <2>1, <3>1 DEF Holders
    <3> QED
      BY <1>0, <3>1, <3>2
  <2>3. CASE n # MaxBlock
    <3>1. /\ n' = n + 1 /\ pc' = "offer" /\ refs' = [refs EXCEPT ![n + 1] = 1]
      BY <1>7, <2>3 DEF ReadData, FirstRefs
    <3>2. CASE x = n + 1
      <4>1. Holding(x) = {}
        BY <1>0, <3>2, HoldingBound DEF Holding
      <4>2. Holders(x)' = {0}
        BY <1>1, <2>1, <3>1, <3>2, <4>1 DEF Holders, Holding
      <4>3. Cardinality({0}) = 1
        BY FS_Singleton
      <4> QED
        BY <1>0, <3>1, <3>2, <4>2, <4>3 DEF TypeOK
    <3>3. CASE x # n + 1
      <4>1. Holders(x)' = Holders(x)
        BY <2>1, <3>1, <3>3 DEF Holders
      <4> QED
        BY <1>0, <3>1, <3>3, <4>1 DEF TypeOK
    <3> QED
      BY <3>2, <3>3
  <2> QED
    BY <2>2, <2>3
<1>8. CASE Offer
  <2>1. /\ UNCHANGED <<hold, queue, n>> /\ pc = "offer" /\ pc' = "send"
        /\ refs' = [refs EXCEPT ![n] = @ + 1]
    BY <1>8 DEF Offer, consumerVars
  <2>2. CASE x # n
    <3>1. Holders(x)' = Holders(x)
      BY <2>1, <2>2 DEF Holders
    <3> QED
      BY <1>0, <2>1, <2>2, <3>1 DEF TypeOK
  <2>3. CASE x = n
    <3>1. Holders(x)' = Holders(x) \cup {-1} /\ -1 \notin Holders(x)
      BY <2>1, <2>3 DEF Holders, Consumer
    <3>2. Cardinality(Holders(x)') = Cardinality(Holders(x)) + 1
      BY <1>0, <3>1, CountStep
    <3> QED
      BY <1>0, <2>1, <2>3, <3>2 DEF TypeOK
  <2> QED
    BY <2>2, <2>3
<1>9. CASE Send
  <2>1. /\ UNCHANGED <<hold, refs, n>> /\ pc = "send" /\ pc' \in {"offer", "drop"}
        /\ queue' = [queue EXCEPT ![k] = Append(@, n)]
    BY <1>9 DEF Send, consumerVars, bufferVars
  <2>2. Range(Append(queue[k], n)) = Range(queue[k]) \cup {n}
    <3>1. queue[k] \in Seq(Block) /\ n \in Block
      BY <1>0, <2>1, HeldByReceive DEF TypeOK, Releasable
    <3> DEFINE p == Append(queue[k], n)
    <3>2. /\ Len(p) = Len(queue[k]) + 1 /\ DOMAIN p = 1..Len(p) /\ Len(queue[k]) \in Nat
          /\ DOMAIN queue[k] = 1..Len(queue[k])
          /\ \A j \in 1..Len(queue[k]) : p[j] = queue[k][j]
          /\ p[Len(queue[k]) + 1] = n
      BY <3>1
    <3> HIDE DEF p
    <3>3. Range(p) = Range(queue[k]) \cup {n}
      <4>1. 1..Len(p) = 1..Len(queue[k]) \cup {Len(queue[k]) + 1}
        BY <3>2
      <4> QED
        BY <3>2, <4>1 DEF Range
    <3> QED
      BY <3>3 DEF p
  <2>3. CASE x # n
    <3>1. \A c \in Consumer : x \in Range(queue'[c]) <=> x \in Range(queue[c])
      BY <1>0, <2>1, <2>2, <2>3 DEF TypeOK
    <3>2. Holders(x)' = Holders(x)
      BY <2>1, <2>3, <3>1 DEF Holders
    <3> QED
      BY <1>0, <2>1, <3>2
  <2>4. CASE x = n
    <3>1. k \in Consumer /\ k \notin Holding(x)
      <4>1. k \in Consumer /\ k \in Nat /\ hold[k] \in Nat
        BY <1>0 DEF TypeOK, Consumer
      <4>2. k >= k
        BY <4>1
      <4>3. hold[k] < n /\ \A z \in Range(queue[k]) : z < n
        BY <2>1, <4>1, <4>2, HoldingBound
      <4>4. hold[k] # n /\ n \notin Range(queue[k])
        <5>1. ~(n < n)
          BY <1>0
        <5> QED
          BY <4>3, <5>1
      <4> QED
        BY <2>4, <4>1, <4>4 DEF Holding
    <3>2. Holding(x)' = Holding(x) \cup {k}
      BY <1>0, <2>1, <2>2, <2>4, <3>1 DEF Holding, TypeOK
    <3>3. -1 \notin Consumer /\ 0 \notin Consumer /\ -1 # 0
      BY DEF Consumer
    <3> DEFINE S == Holding(x) \cup {0}
    <3>4. /\ Holders(x) = S \cup {-1} /\ -1 \notin S /\ k \notin S
          /\ Holders(x)' = S \cup {k}
      BY <2>1, <2>4, <3>1, <3>2, <3>3, HoldersSplit DEF Holders, Holding
    <3>5. IsFiniteSet(S)
      BY <1>0, <3>4, FS_Subset
    <3> HIDE DEF S
    <3>6. Cardinality(S \cup {-1}) = Cardinality(S) + 1
      BY <3>4, <3>5, FS_AddElement
    <3>7. Cardinality(S \cup {k}) = Cardinality(S) + 1
      BY <3>4, <3>5, FS_AddElement
    <3> QED
      BY <1>0, <2>1, <3>4, <3>6, <3>7
  <2> QED
    BY <2>3, <2>4
<1>10. ASSUME NEW y, NEW times \in {1, 2}, Releasable(y, times), Release(y, times)
       PROVE  refs'[x] = IF x = y THEN refs[x] - times ELSE refs[x]
  BY <1>0, <1>10, ReleaseEffect
<1>11. CASE SendCancelled
  <2>1. Releasable(n, 2) /\ Release(n, 2) /\ 0 \in Holders(n) /\ -1 \in Holders(n)
        /\ UNCHANGED <<hold, queue, n>> /\ pc = "send" /\ pc' = "close"
    BY <1>11, HeldByReceive DEF SendCancelled, OnCancel, Return, consumerVars
  <2>2. CASE x # n
    <3>1. Holders(x)' = Holders(x)
      BY <2>1, <2>2 DEF Holders
    <3> QED
      BY <1>0, <1>10, <2>1, <2>2, <3>1
  <2>3. CASE x = n
    <3>1. Holders(x)' = (Holders(x) \ {0}) \ {-1} /\ -1 \in Holders(x) \ {0} /\ 0 \in Holders(x)
      BY <2>1, <2>3 DEF Holders, Consumer
    <3>2. IsFiniteSet(Holders(x) \ {0}) /\ Cardinality(Holders(x) \ {0}) = refs[x] - 1
      BY <1>0, <3>1, CountPositive
    <3>3. Cardinality(Holders(x)') = refs[x] - 1 - 1
      BY <3>1, <3>2, CountPositive
    <3>4. refs'[x] = refs[x] - 2 /\ refs[x] \in Nat
      BY <1>0, <1>10, <2>1, <2>3
    <3> QED
      BY <3>3, <3>4
  <2> QED
    BY <2>2, <2>3
<1>12. CASE Drop
  <2>1. Releasable(n, 1) /\ Release(n, 1) /\ 0 \in Holders(n)
        /\ UNCHANGED <<hold, queue, n>> /\ pc = "drop" /\ pc' \in {"take", "close"}
    BY <1>0, <1>12, HeldByReceive DEF Drop, After, Return, consumerVars, TypeOK
  <2>2. CASE x # n
    <3>1. Holders(x)' = Holders(x)
      BY <2>1, <2>2 DEF Holders
    <3> QED
      BY <1>0, <1>10, <2>1, <2>2, <3>1
  <2>3. CASE x = n
    <3>1. Holders(x)' = Holders(x) \ {0} /\ 0 \in Holders(x)
      BY <2>1, <2>3 DEF Holders, Consumer
    <3>2. Cardinality(Holders(x)') = refs[x] - 1
      BY <1>0, <3>1, CountPositive
    <3> QED
      BY <1>10, <2>1, <2>3, <3>2
  <2> QED
    BY <2>2, <2>3
<1>13. ASSUME NEW c \in Consumer, Receive(c) PROVE refs'[x] = Cardinality(Holders(x)')
  <2>1. /\ hold[c] = 0 /\ queue[c] # <<>>
        /\ hold' = [hold EXCEPT ![c] = Head(queue[c])]
        /\ queue' = [queue EXCEPT ![c] = Tail(@)]
        /\ UNCHANGED <<n, pc, refs>>
    BY <1>13 DEF Receive, producerVars, bufferVars
  <2>2. Range(Tail(queue[c])) = Range(queue[c]) \ {Head(queue[c])}
        /\ Head(queue[c]) \in Range(queue[c])
    BY <2>1, HoldingBound
  <2>3. \A d \in Consumer : hold'[d] = x \/ x \in Range(queue'[d])
                              <=> hold[d] = x \/ x \in Range(queue[d])
    BY <1>0, <2>1, <2>2 DEF TypeOK
  <2>4. Holders(x)' = Holders(x)
    BY <2>1, <2>3 DEF Holders
  <2> QED
    BY <1>0, <2>1, <2>4
<1>14. ASSUME NEW c \in Consumer, hold[c] # 0, hold' = [hold EXCEPT ![c] = 0],
              Release(hold[c], 1), UNCHANGED <<queue, n, pc>>
       PROVE  refs'[x] = Cardinality(Holders(x)')
  <2>1. Releasable(hold[c], 1) /\ c \in Holders(hold[c]) /\ hold[c] \notin Range(queue[c])
    BY <1>14, HeldByConsumer, HoldingBound
  <2>2. \A d \in Consumer : hold'[d] = IF d = c THEN 0 ELSE hold[d]
    BY <1>0, <1>14 DEF TypeOK
  <2>3. CASE x # hold[c]
    <3>1. Holders(x)' = Holders(x)
      BY <1>0, <1>14, <2>2, <2>3 DEF Holders
    <3> QED
      BY <1>0, <1>10, <1>14, <2>1, <2>3, <3>1
  <2>4. CASE x = hold[c]
    <3>1. Holders(x)' = Holders(x) \ {c}
      BY <1>0, <1>14, <2>1, <2>2, <2>4 DEF Holders, Consumer
    <3>2. Cardinality(Holders(x)') = refs[x] - 1
      BY <1>0, <2>1, <2>4, <3>1, CountPositive
    <3> QED
      BY <1>10, <1>14, <2>1, <2>4, <3>2
  <2> QED
    BY <2>3, <2>4
<1>15. ASSUME NEW w \in Writer, WriterWrite(w) PROVE refs'[x] = Cardinality(Holders(x)')
  <2>1. w \in Consumer
    BY DEF Writer, Consumer
  <2> QED
    BY <1>14, <1>15, <2>1 DEF WriterWrite, producerVars
<1>16. CASE ParserRead
  <2>1. Parser \in Consumer
    BY DEF Parser, Consumer
  <2> QED
    BY <1>14, <1>16, <2>1 DEF ParserRead, producerVars
<1>17. Parser \in Consumer /\ Writer \subseteq Consumer
  BY DEF Parser, Consumer, Writer
<1> QED
  BY <1>3, <1>4, <1>6, <1>7, <1>8, <1>9, <1>11, <1>12, <1>13, <1>15, <1>16, <1>17
     DEF Next, Producer, WriterStep, ParserStep

-----------------------------------------------------------------------------
(***************************************************************************)
(* The buffers.                                                            *)
(***************************************************************************)

\* The sequence a finite set is made into has no repetitions.
LEMMA SetToSeqProperties ==
  ASSUME NEW S, IsFiniteSet(S)
  PROVE  /\ SetToSeq(S) \in Seq(S)
         /\ \A i, j \in 1..Len(SetToSeq(S)) : SetToSeq(S)[i] = SetToSeq(S)[j] => i = j
<1> DEFINE m == Cardinality(S)
<1>1. m \in Nat /\ ExistsBijection(1..m, S)
  BY FS_CardinalityType
<1>2. \E f \in [1..m -> S] : IsInjective(f)
  BY <1>1 DEF ExistsBijection, Bijection, Injection
<1>3. SetToSeq(S) \in [1..m -> S] /\ IsInjective(SetToSeq(S))
  BY <1>2 DEF SetToSeq
<1> HIDE DEF m
<1>4. SetToSeq(S) \in Seq(S) /\ Len(SetToSeq(S)) = m /\ DOMAIN SetToSeq(S) = 1..m
  BY <1>1, <1>3
<1> QED
  BY <1>3, <1>4 DEF IsInjective

LEMMA PlacedInit == Init => Placed
<1> SUFFICES ASSUME Init PROVE Placed
  OBVIOUS
<1>1. \A i, j \in 1..Len(free) : free[i] = free[j] => i = j
  BY SetToSeqProperties DEF Init
<1>2. pc = "take" /\ \A x \in Block : ~(refs[x] > 0)
  BY DEF Init
<1> QED
  BY <1>1, <1>2 DEF Placed

\* A channel of different buffers gets one that is not in it.
LEMMA AppendDistinct ==
  ASSUME NEW q \in Seq(Buffers), NEW b \in Buffers,
         \A i, j \in 1..Len(q) : q[i] = q[j] => i = j,
         \A j \in 1..Len(q) : q[j] # b,
         NEW p, p = Append(q, b)
  PROVE  /\ \A i, j \in 1..Len(p) : p[i] = p[j] => i = j
         /\ \A x : x # b /\ (\A j \in 1..Len(q) : q[j] # x)
                    => \A j \in 1..Len(p) : p[j] # x
<1>1. /\ Len(p) = Len(q) + 1 /\ Len(q) \in Nat
      /\ \A j \in 1..Len(q) : p[j] = q[j]
      /\ p[Len(q) + 1] = b
  OBVIOUS
<1>2. \A j \in 1..Len(p) : j \in 1..Len(q) \/ j = Len(q) + 1
  BY <1>1
<1> QED
  BY <1>1, <1>2

LEMMA PlacedStep == IInv /\ [Next]_vars => Placed'
<1> SUFFICES ASSUME IInv, [Next]_vars PROVE Placed'
  OBVIOUS
<1>0. /\ TypeOK /\ Control /\ Placed
      /\ free \in Seq(Buffers) /\ content \in [Buffers -> 0..MaxBlock]
      /\ data \in [Block -> Buffers \cup {0}] /\ refs \in [Block -> Nat]
      /\ n \in Nat
  BY DEF IInv, TypeOK
<1>1. ASSUME UNCHANGED <<free, content, data, refs>>,
             pc' = "read" => pc = "read" /\ cur' = cur
      PROVE  Placed'
  BY <1>0, <1>1 DEF Placed
<1>2. CASE UNCHANGED vars
  BY <1>1, <1>2 DEF vars, bufferVars, producerVars
<1>3. CASE TakeCancelled \/ Send \/ CloseQueues \/ Received
  <2>1. UNCHANGED <<free, content, data, refs>> /\ pc' # "read"
    BY <1>3 DEF TakeCancelled, Return, Send, CloseQueues, Received, bufferVars
  <2> QED
    BY <1>1, <2>1
<1>4. CASE Decide \/ ParserEOF \/ ParserCancelled \/ ParserFails \/ Cancel
           \/ (\E w \in Writer : Collect(w) \/ WriterExit(w))
           \/ (\E c \in Consumer : Receive(c))
  <2>1. UNCHANGED <<free, content, data, refs, pc, cur>>
    BY <1>4 DEF Decide, ParserEOF, ParserCancelled, ParserFails, ParserEnds, Cancel, Collect,
       WriterExit, Receive, bufferVars, producerVars
  <2> QED
    BY <1>1, <2>1
<1>5. CASE Take
  <2> DEFINE b == Head(free)
             p == Tail(free)
  <2>1. /\ free # <<>> /\ cur' = b /\ free' = p /\ content' = [content EXCEPT ![b] = 0]
        /\ UNCHANGED <<data, refs>>
    BY <1>5 DEF Take
  <2>2. /\ b = free[1] /\ b \in Buffers /\ Len(free) \in Nat /\ Len(free) >= 1
        /\ Len(p) = Len(free) - 1
        /\ \A j \in 1..Len(free) - 1 : p[j] = free[j + 1]
    BY <1>0, <2>1
  <2> HIDE DEF b, p
  <2>3. \A j \in 1..Len(p) : j \in Nat /\ j + 1 \in 1..Len(free) /\ p[j] = free[j + 1] /\ j + 1 # 1
    BY <2>2
  <2>4. 1 \in 1..Len(free)
    BY <2>2
  <2>5. /\ \A i, j \in 1..Len(p) : p[i] = p[j] => i = j
        /\ \A j \in 1..Len(p) : p[j] # b
    <3>1. \A i, j \in 1..Len(free) : free[i] = free[j] => i = j
      BY <1>0 DEF Placed
    <3>2. ASSUME NEW i \in 1..Len(p), NEW j \in 1..Len(p), p[i] = p[j] PROVE i = j
      <4>1. i + 1 = j + 1
        BY <2>3, <3>1, <3>2
      <4> QED
        BY <2>3, <4>1
    <3>3. ASSUME NEW j \in 1..Len(p) PROVE p[j] # b
      <4>1. j + 1 \in 1..Len(free) /\ p[j] = free[j + 1] /\ j + 1 # 1
        BY <2>3
      <4> QED
        BY <2>2, <2>4, <3>1, <4>1
    <3> QED
      BY <3>2, <3>3
  <2>6. ASSUME NEW x \in Block, refs'[x] > 0
        PROVE  /\ data'[x] \in Buffers /\ content'[data'[x]] = x
               /\ \A j \in 1..Len(p) : p[j] # data'[x]
               /\ data'[x] # b
    <3>1. /\ data[x] \in Buffers /\ content[data[x]] = x /\ data'[x] = data[x]
          /\ \A j \in 1..Len(free) : free[j] # data[x]
      BY <1>0, <2>1, <2>6 DEF Placed
    <3>2. data[x] # b
      BY <2>2, <2>4, <3>1
    <3> QED
      BY <1>0, <2>1, <2>3, <3>1, <3>2
  <2> QED
    BY <2>1, <2>5, <2>6 DEF Placed
<1>6. CASE ReadData
  <2>1. pc = "read" /\ UNCHANGED free /\ cur \in Buffers
    BY <1>0, <1>6 DEF ReadData, Control
  <2>2. CASE n = MaxBlock
    <3>1. UNCHANGED <<content, data, refs>> /\ pc' # "read"
      BY <1>6, <2>2 DEF ReadData, Return
    <3> QED
      BY <1>1, <2>1, <3>1
  <2>3. CASE n # MaxBlock
    <3>1. /\ content' = [content EXCEPT ![cur] = n + 1]
          /\ data' = [data EXCEPT ![n + 1] = cur] /\ refs' = [refs EXCEPT ![n + 1] = 1]
          /\ pc' = "offer"
      BY <1>6, <2>3 DEF ReadData, FirstRefs
    <3>2. ASSUME NEW x \in Block, refs'[x] > 0
          PROVE  /\ data'[x] \in Buffers /\ content'[data'[x]] = x
                 /\ \A j \in 1..Len(free) : free[j] # data'[x]
      <4>1. CASE x = n + 1
        BY <1>0, <2>1, <3>1, <4>1 DEF Placed
      <4>2. CASE x # n + 1
        <5>1. refs'[x] = refs[x] /\ data'[x] = data[x]
          BY <1>0, <3>1, <4>2
        <5>2. /\ data[x] \in Buffers /\ content[data[x]] = x /\ data[x] # cur
              /\ \A j \in 1..Len(free) : free[j] # data[x]
          BY <1>0, <2>1, <3>2, <5>1 DEF Placed
        <5> QED
          BY <1>0, <3>1, <5>1, <5>2
      <4> QED
        BY <4>1, <4>2
    <3>3. \A i, j \in 1..Len(free) : free[i] = free[j] => i = j
      BY <1>0 DEF Placed
    <3> QED
      BY <2>1, <3>1, <3>2, <3>3 DEF Placed
  <2> QED
    BY <2>2, <2>3
<1>7. CASE ReadEmpty
  <2>1. /\ pc = "read" /\ free' = Append(free, cur) /\ UNCHANGED <<content, data, refs>>
        /\ cur \in Buffers
    BY <1>0, <1>7 DEF ReadEmpty, Control
  <2>2. pc' # "read"
    BY <1>7 DEF ReadEmpty, After, Return
  <2>3. /\ \A i, j \in 1..Len(free) : free[i] = free[j] => i = j
        /\ \A j \in 1..Len(free) : free[j] # cur
    BY <1>0, <2>1 DEF Placed
  <2>4. /\ \A i, j \in 1..Len(free') : free'[i] = free'[j] => i = j
        /\ \A x : x # cur /\ (\A j \in 1..Len(free) : free[j] # x)
                   => \A j \in 1..Len(free') : free'[j] # x
    BY <1>0, <2>1, <2>3, AppendDistinct
  <2>5. ASSUME NEW x \in Block, refs'[x] > 0
        PROVE  /\ data'[x] \in Buffers /\ content'[data'[x]] = x
               /\ \A j \in 1..Len(free') : free'[j] # data'[x]
    <3>1. /\ data[x] \in Buffers /\ content[data[x]] = x /\ data[x] # cur
          /\ \A j \in 1..Len(free) : free[j] # data[x]
      BY <1>0, <2>1, <2>5 DEF Placed
    <3> QED
      BY <2>1, <2>4, <3>1
  <2> QED
    BY <2>2, <2>4, <2>5 DEF Placed
<1>8. CASE Offer
  <2>1. /\ UNCHANGED <<free, content, data>> /\ pc' = "send"
        /\ refs' = [refs EXCEPT ![n] = @ + 1]
    BY <1>8 DEF Offer
  <2>2. n \in Block /\ refs[n] > 0
    BY <1>0, <1>8, HeldByReceive DEF Offer, Releasable
  <2>3. \A x \in Block : refs'[x] > 0 => refs[x] > 0
    BY <1>0, <2>1, <2>2
  <2> QED
    BY <1>0, <2>1, <2>3 DEF Placed
<1>9. ASSUME NEW y, NEW times \in {1, 2}, Releasable(y, times), Release(y, times),
             pc' = "read" => pc = "read" /\ cur' = cur
      PROVE  Placed'
  <2>1. /\ UNCHANGED <<content, data>> /\ y \in Block
        /\ refs[y] \in Nat /\ refs[y] > 0 /\ data[y] \in Buffers /\ content[data[y]] = y
        /\ refs'[y] = refs[y] - times
        /\ \A x \in Block \ {y} : refs'[x] = refs[x]
        /\ free' = IF refs'[y] = 0 THEN Append(free, data[y]) ELSE free
    BY <1>0, <1>9, ReleaseEffect DEF Releasable
  <2>2. \A x \in Block : refs'[x] > 0 => refs[x] > 0
    BY <2>1
  <2>3. CASE refs'[y] # 0
    BY <1>0, <1>9, <2>1, <2>2, <2>3 DEF Placed
  <2>4. CASE refs'[y] = 0
    <3>1. /\ \A i, j \in 1..Len(free) : free[i] = free[j] => i = j
          /\ \A j \in 1..Len(free) : free[j] # data[y]
          /\ pc = "read" => /\ data[y] # cur
                            /\ \A j \in 1..Len(free) : free[j] # cur
      BY <1>0, <2>1 DEF Placed
    <3>2. /\ \A i, j \in 1..Len(free') : free'[i] = free'[j] => i = j
          /\ \A x : x # data[y] /\ (\A j \in 1..Len(free) : free[j] # x)
                     => \A j \in 1..Len(free') : free'[j] # x
      <4>1. free' = Append(free, data[y]) /\ data[y] \in Buffers
        BY <2>1, <2>4
      <4> QED
        BY SMTT(30), <1>0, <3>1, <4>1, AppendDistinct
    <3>3. pc' = "read" => \A j \in 1..Len(free') : free'[j] # cur'
      BY <1>9, <3>1, <3>2
    <3>4. ASSUME NEW x \in Block, refs'[x] > 0
          PROVE  /\ data'[x] \in Buffers /\ content'[data'[x]] = x
                 /\ \A j \in 1..Len(free') : free'[j] # data'[x]
                 /\ pc' = "read" => data'[x] # cur'
      <4>1. refs[x] > 0 /\ x # y
        BY <2>2, <2>4, <3>4
      <4>2. /\ data[x] \in Buffers /\ content[data[x]] = x
            /\ \A j \in 1..Len(free) : free[j] # data[x]
            /\ pc = "read" => data[x] # cur
        BY <1>0, <4>1 DEF Placed
      <4>3. data[x] # data[y]
        BY <2>1, <4>1, <4>2
      <4> QED
        BY <1>9, <2>1, <3>2, <4>2, <4>3
    <3> QED
      BY <3>2, <3>3, <3>4 DEF Placed
  <2> QED
    BY <2>3, <2>4
<1>10. CASE SendCancelled
  <2>1. Releasable(n, 2) /\ Release(n, 2) /\ pc' # "read"
    BY <1>10, HeldByReceive DEF SendCancelled, OnCancel, Return
  <2> QED
    BY <1>9, <2>1
<1>11. CASE Drop
  <2>1. Releasable(n, 1) /\ Release(n, 1)
    BY <1>11, HeldByReceive DEF Drop
  <2>2. pc' # "read"
    BY <1>0, <1>11 DEF Drop, After, Return, TypeOK
  <2> QED
    BY <1>9, <2>1, <2>2
<1>12. ASSUME NEW w \in Writer, WriterWrite(w) PROVE Placed'
  <2>1. w \in Consumer /\ hold[w] # 0 /\ Release(hold[w], 1) /\ UNCHANGED <<pc, cur>>
    BY <1>12 DEF WriterWrite, producerVars, Writer, Consumer
  <2>2. Releasable(hold[w], 1)
    BY <2>1, HeldByConsumer
  <2> QED
    BY <1>9, <2>1, <2>2
<1>13. CASE ParserRead
  <2>1. /\ Parser \in Consumer /\ hold[Parser] # 0 /\ Release(hold[Parser], 1)
        /\ UNCHANGED <<pc, cur>>
    BY <1>13 DEF ParserRead, producerVars, Parser, Consumer
  <2>2. Releasable(hold[Parser], 1)
    BY <2>1, HeldByConsumer
  <2> QED
    BY <1>9, <2>1, <2>2
<1>14. Parser \in Consumer /\ Writer \subseteq Consumer
  BY DEF Parser, Consumer, Writer
<1> QED
  BY <1>2, <1>3, <1>4, <1>5, <1>6, <1>7, <1>8, <1>10, <1>11, <1>12, <1>13, <1>14
     DEF Next, Producer, WriterStep, ParserStep

-----------------------------------------------------------------------------
(***************************************************************************)
(* The theorems.                                                           *)
(***************************************************************************)

LEMMA InitIInv == Init => IInv
<1> SUFFICES ASSUME Init PROVE IInv
  OBVIOUS
<1>1. TypeOK
  <2>1. free \in Seq(Buffers)
    BY SetToSeqProperties DEF Init
  <2>2. 1 \in Consumer /\ 0 \in 0..MaxBlock /\ <<>> \in Seq(Block)
        /\ <<>> \in Seq(0..MaxBlock) /\ Len(<<>>) <= Cap
    BY DEF Consumer
  <2>3. {ctx, inner} \subseteq BOOLEAN /\ content \in [Buffers -> 0..MaxBlock]
        /\ data \in [Block -> Buffers \cup {0}] /\ refs \in [Block -> Nat]
        /\ closed \in [Consumer -> BOOLEAN] /\ failure \in [Writer -> Errors]
    BY <2>2 DEF Init, Errors
  <2>4. /\ queue \in [Consumer -> Seq(Block)] /\ \A c \in Consumer : Len(queue[c]) <= Cap
        /\ hold \in [Consumer -> 0..MaxBlock] /\ seen \in [Consumer -> Seq(0..MaxBlock)]
    BY <2>2 DEF Init
  <2> QED
    BY <2>1, <2>2, <2>3, <2>4 DEF Init, TypeOK, Errors
<1>2. Control
  <2>1. Parser \in Consumer /\ Writer \subseteq Consumer
    BY DEF Parser, Consumer, Writer
  <2> QED
    BY <2>1 DEF Init, Control, Late
<1> QED
  BY <1>1, <1>2, RefsInit, PlacedInit, FlowInit DEF IInv

LEMMA NextIInv == IInv /\ [Next]_vars => IInv'
  BY TypeStep, ControlStep, PlacedStep, RefsStep, FlowStep DEF IInv

\* The invariant the theorems rest on.
THEOREM Invariance == Spec => []IInv
  BY InitIInv, NextIInv, PTL DEF Spec

\* The types of the state of the pipeline.
THEOREM TypeCorrectness == Spec => []TypeOK
<1>1. IInv => TypeOK
  BY DEF IInv
<1> QED
  BY <1>1, Invariance, PTL

\* The count of references is the number of holders at every moment: no path,
\* cancelled or not, releases a block too often or forgets to.
THEOREM CountsExact == Spec => []RefsExact
<1>1. IInv => RefsExact
  BY DEF IInv
<1> QED
  BY <1>1, Invariance, PTL

\* A block that somebody still holds is not refilled.
THEOREM BlocksStay == Spec => []BlocksIntact
<1>1. IInv => BlocksIntact
  BY Held DEF IInv, BlocksIntact
<1> QED
  BY <1>1, Invariance, PTL

\* Only a message every consumer has seen whole and in order is committed.
THEOREM CommittedWhole == Spec => []CommitWhole
<1>1. IInv => CommitWhole
  <2> SUFFICES ASSUME IInv, outcome = "commit"
               PROVE  e = "eof" /\ \A c \in Consumer : seen[c] = [j \in 1..n |-> j]
    BY DEF CommitWhole
  <2>1. /\ TypeOK /\ Control /\ pc = "done" /\ parsed = "ok" /\ err = "nil"
        /\ collected = Writer /\ collected \subseteq posted /\ n \in Nat
    BY DEF IInv, Control, TypeOK
  <2>2. e = "eof"
    BY <2>1 DEF Control, Late
  <2>3. ASSUME NEW c \in Consumer PROVE seen[c] = [j \in 1..n |-> j]
    <3>1. c \in Writer \/ c = Parser
      BY DEF Consumer, Writer, Parser
    <3>2. hold[c] = 0 /\ queue[c] = <<>> /\ (c = Parser \/ failure[c] = "nil")
      BY <2>1, <3>1 DEF Control
    <3>3. PICK d \in 0..n : /\ Sent(c, d) /\ Line(queue[c], hold[c], seen[c], d)
                            /\ Exact(queue[c], hold[c], seen[c], d)
      BY <3>2 DEF IInv, Flow
    <3>4. d = n
      BY <2>1, <3>3 DEF Sent, Late
    <3>5. seen[c] \in Seq(0..MaxBlock) /\ Len(queue[c]) = 0
      BY <2>1, <3>2 DEF TypeOK
    <3>6. Len(seen[c]) = n /\ \A j \in 1..Len(seen[c]) : seen[c][j] = j
      BY <2>1, <3>2, <3>3, <3>4, <3>5 DEF Line, Exact
    <3> QED
      BY SMTT(30), <3>5, <3>6
  <2> QED
    BY <2>2, <2>3
<1> QED
  BY <1>1, Invariance, PTL

\* The free channel has room for every buffer, and never holds more: whoever
\* releases the last reference to a block does not wait for anybody.
FreeFits == Len(free) <= Cardinality(Buffers)

\* The release of a block never blocks.
THEOREM ReleaseNeverBlocks == Spec => []FreeFits
<1>1. IInv => FreeFits
  <2> SUFFICES ASSUME IInv PROVE Len(free) <= Cardinality(Buffers)
    BY DEF FreeFits
  <2>1. /\ free \in Seq(Buffers) /\ Len(free) \in Nat
        /\ \A i, j \in 1..Len(free) : free[i] = free[j] => i = j
    BY DEF IInv, TypeOK, Placed
  <2>2. free \in [1..Len(free) -> Buffers]
    BY <2>1
  <2>3. free \in Injection(1..Len(free), Buffers)
    BY <2>1, <2>2 DEF Injection, IsInjective
  <2>4. Cardinality(1..Len(free)) <= Cardinality(Buffers)
    BY <2>3, FS_Injection
  <2>5. Cardinality(1..Len(free)) = Len(free)
    <3> DEFINE m == Len(free)
    <3>1. 1 \in Int /\ m \in Int /\ m >= 0
      BY <2>1
    <3> HIDE DEF m
    <3>2. Cardinality(1..m) = IF 1 > m THEN 0 ELSE m - 1 + 1
      BY <3>1, FS_Interval
    <3>3. Cardinality(1..m) = m
      BY <3>1, <3>2
    <3> QED
      BY <3>3 DEF m
  <2> QED
    BY <2>4, <2>5
<1> QED
  BY <1>1, Invariance, PTL
=============================================================================
