--------------------------- MODULE BlockPipeline ---------------------------
(***************************************************************************)
(* One admitted message on its way from the connection to its consumers:   *)
(* three rotating blocks are filled by receive and handed to every writer  *)
(* (the uploader and the digest) and to the MIME parser; a reference count *)
(* returns a block to the free channel after the last of them.  main.go:   *)
(* mimeStreamBlock, mimeStreamBlocks.Read and receive, and the part of     *)
(* storeMailStream that runs them and decides whether to commit.           *)
(*                                                                         *)
(* The n-th block read carries content n, so that a consumer that sees     *)
(* anything else saw a buffer refilled under its hands.  The channels of   *)
(* the writers and `ready' are one family, in the order of dispatch: the   *)
(* parser is the last consumer.  The admission of the message is           *)
(* StreamPool's subject.                                                   *)
(***************************************************************************)
EXTENDS Integers, Sequences, FiniteSets, SequencesExt

CONSTANTS
    W,           \* number of writers
    Buffers,     \* the allocations in rotation
    Cap,         \* capacity of every channel of blocks
    MaxBlock,    \* maxMailSize, in blocks
    EmptyLimit   \* reads without data before io.ErrNoProgress

ASSUME WAssumption     == W \in Nat
ASSUME SizeAssumption  == /\ {Cap, EmptyLimit} \subseteq Nat \ {0}
                          /\ MaxBlock \in Nat
ASSUME BufferAssumption == IsFiniteSet(Buffers) /\ 0 \notin Buffers

Writer   == 1..W
Parser   == W + 1
Consumer == 1..(W + 1)
Block    == 1..MaxBlock

Errors == {"nil", "canceled", "error"}

VARIABLES
    ctx,        \* the context of storeMailStream, the parser's too, is live
    inner,      \* the context of receive was cancelled by receive or a writer
    free,       \* the free channel
    content,    \* what each buffer contains; 0 while it is being filled
    data,       \* block -> its buffer
    refs,       \* block -> reference count
    queue,      \* consumer -> channel of blocks
    closed,     \* consumer -> its channel is closed
    pc,         \* where receive is
    n,          \* blocks read
    cur,        \* the buffer receive took, while it reads
    e,          \* the error the last read returned with its data
    k,          \* the consumer receive dispatches to
    empty,      \* consecutive reads without data
    err,        \* the result of receive
    serr,       \* mimeStreamBlocks.err
    hold,       \* consumer -> the block it works on, 0 for none
    seen,       \* consumer -> contents it has consumed
    failure,    \* writer -> its failure
    posted,     \* writers whose result is in the results channel
    collected,  \* writers whose result receive has taken
    parsed,     \* the parser's result, "run" while it works
    outcome     \* of storeMailStream: "none" before, then commit or not

bufferVars   == <<free, content, data, refs>>
producerVars == <<pc, n, cur, e, k, empty, err, serr, collected>>
consumerVars == <<hold, seen, failure, posted>>
vars == <<ctx, inner, bufferVars, queue, closed, producerVars, consumerVars,
          parsed, outcome>>

\* receive's context ends with that of storeMailStream.
Cancelled == inner \/ ~ctx

Init ==
    /\ ctx = TRUE /\ inner = FALSE
    /\ free      = SetToSeq(Buffers)
    /\ content   = [b \in Buffers |-> 0]
    /\ data      = [x \in Block |-> 0]
    /\ refs      = [x \in Block |-> 0]
    /\ queue     = [c \in Consumer |-> <<>>]
    /\ closed    = [c \in Consumer |-> FALSE]
    /\ pc = "take" /\ n = 0 /\ cur = 0 /\ e = "nil" /\ k = 1 /\ empty = 0
    /\ err = "nil" /\ serr = "nil"
    /\ hold      = [c \in Consumer |-> 0]
    /\ seen      = [c \in Consumer |-> <<>>]
    /\ failure   = [w \in Writer |-> "nil"]
    /\ posted    = {}
    /\ collected = {}
    /\ parsed = "run" /\ outcome = "none"

\* mimeStreamBlock.release, called `times' times in a row.
Release(x, times) ==
    /\ refs' = [refs EXCEPT ![x] = @ - times]
    /\ free' = IF refs[x] > 0 /\ refs[x] <= times
               THEN Append(free, data[x]) ELSE free
    /\ UNCHANGED <<content, data>>

-----------------------------------------------------------------------------
\* receive, in the goroutine of the connection.

Return(error) == pc' = "close" /\ err' = error

Take ==
    /\ pc = "take"
    /\ free # <<>>
    /\ cur'     = Head(free)
    /\ free'    = Tail(free)
    /\ content' = [content EXCEPT ![Head(free)] = 0]
    /\ pc'      = "read"
    /\ UNCHANGED <<ctx, inner, data, refs, queue, closed, n, e, k, empty, err,
                   serr, collected, consumerVars, parsed, outcome>>

TakeCancelled ==
    /\ pc = "take"
    /\ Cancelled
    /\ Return("canceled")
    /\ UNCHANGED <<ctx, inner, bufferVars, queue, closed, n, cur, e, k, empty,
                   serr, collected, consumerVars, parsed, outcome>>

\* The producer's own reference, which outlives the dispatch.
Mutant_NoProducerRef == 0
FirstRefs == 1

ReadData ==
    /\ pc = "read"
    /\ empty' = 0
    /\ IF n = MaxBlock
       THEN /\ Return("error")
            /\ UNCHANGED <<n, e, k, content, data, refs>>
       ELSE /\ n'       = n + 1
            /\ e'       \in {"nil", "eof", "error"}
            /\ content' = [content EXCEPT ![cur] = n + 1]
            /\ data'    = [data EXCEPT ![n + 1] = cur]
            /\ refs'    = [refs EXCEPT ![n + 1] = FirstRefs]
            /\ pc' = "offer" /\ k' = 1
            /\ UNCHANGED err
    /\ UNCHANGED <<ctx, inner, free, queue, closed, cur, serr, collected,
                   consumerVars, parsed, outcome>>

\* What receive does after a read that returned the error x.
After(x) ==
    CASE x = "nil"   -> pc' = "take" /\ UNCHANGED err
      [] x = "eof"   -> Return("nil")
      [] x = "error" -> Return("error")

ReadEmpty ==
    /\ pc = "read"
    /\ free'  = Append(free, cur)
    /\ empty' = empty + 1
    /\ \E x \in {"nil", "eof", "error"} :
         /\ e' = x
         /\ IF empty' >= EmptyLimit THEN Return("error") ELSE After(x)
    /\ UNCHANGED <<ctx, inner, content, data, refs, queue, closed, n, cur, k,
                   serr, collected, consumerVars, parsed, outcome>>

Offer ==
    /\ pc = "offer"
    /\ refs' = [refs EXCEPT ![n] = @ + 1]
    /\ pc'   = "send"
    /\ UNCHANGED <<ctx, inner, free, content, data, queue, closed, n, cur, e,
                   k, empty, err, serr, collected, consumerVars, parsed,
                   outcome>>

Send ==
    /\ pc = "send"
    /\ Len(queue[k]) < Cap
    /\ queue' = [queue EXCEPT ![k] = Append(@, n)]
    /\ IF k = Parser THEN pc' = "drop" /\ UNCHANGED k
                     ELSE pc' = "offer" /\ k' = k + 1
    /\ UNCHANGED <<ctx, inner, bufferVars, closed, n, cur, e, empty, err, serr,
                   collected, consumerVars, parsed, outcome>>

\* The reference of the consumer that did not get the block, and the
\* producer's own.
Mutant_ReleaseOne == 1
OnCancel == 2

SendCancelled ==
    /\ pc = "send"
    /\ Cancelled
    /\ Release(n, OnCancel)
    /\ Return("canceled")
    /\ UNCHANGED <<ctx, inner, queue, closed, n, cur, e, k, empty, serr,
                   collected, consumerVars, parsed, outcome>>

Drop ==
    /\ pc = "drop"
    /\ Release(n, 1)
    /\ After(e)
    /\ UNCHANGED <<ctx, inner, queue, closed, n, cur, e, k, empty, serr,
                   collected, consumerVars, parsed, outcome>>

\* The deferred function of receive: the writers' channels are closed,
CloseQueues ==
    /\ pc = "close"
    /\ closed' = [c \in Consumer |-> c \in Writer \/ closed[c]]
    /\ pc'     = "collect"
    /\ UNCHANGED <<ctx, inner, bufferVars, queue, n, cur, e, k, empty, err,
                   serr, collected, consumerVars, parsed, outcome>>

\* a writer's failure replaces no error or a mere cancellation,
Mutant_FirstError(old, failed) == old
Joined(old, failed) ==
    IF failed # "nil" /\ old \in {"nil", "canceled"} THEN failed ELSE old

\* every writer's result is awaited,
Collect(w) ==
    /\ pc = "collect"
    /\ w \in posted \ collected
    /\ err'       = Joined(err, failure[w])
    /\ collected' = collected \cup {w}
    /\ UNCHANGED <<ctx, inner, bufferVars, queue, closed, pc, n, cur, e, k,
                   empty, serr, consumerVars, parsed, outcome>>

\* and the parser is told.  storeMailStream cancels the parser on an error.
Received ==
    /\ pc = "collect"
    /\ collected = Writer
    /\ serr'   = err
    /\ closed' = [closed EXCEPT ![Parser] = TRUE]
    /\ pc'     = "done"
    /\ inner'  = TRUE
    /\ ctx'    = (ctx /\ err = "nil")
    /\ UNCHANGED <<bufferVars, queue, n, cur, e, k, empty, err, collected,
                   consumerVars, parsed, outcome>>

\* storeMailStream has both results: it commits or fails.
Decide ==
    /\ pc = "done"
    /\ parsed # "run"
    /\ outcome = "none"
    /\ outcome' = IF parsed = "ok" /\ err = "nil" THEN "commit" ELSE "fail"
    /\ UNCHANGED <<ctx, inner, bufferVars, queue, closed, producerVars,
                   consumerVars, parsed>>

-----------------------------------------------------------------------------
\* The writers and the parser.

Working(c) == c \in Writer \/ parsed = "run"

Receive(c) ==
    /\ Working(c)
    /\ hold[c] = 0
    /\ queue[c] # <<>>
    /\ hold'  = [hold EXCEPT ![c] = Head(queue[c])]
    /\ queue' = [queue EXCEPT ![c] = Tail(@)]
    /\ UNCHANGED <<ctx, inner, bufferVars, closed, producerVars, seen, failure,
                   posted, parsed, outcome>>

Saw(c) == seen' = [seen EXCEPT ![c] = Append(@, content[data[hold[c]]])]

\* A writer that failed, or finds the context cancelled, only returns blocks.
WriterWrite(w) ==
    /\ hold[w] # 0
    /\ \/ failure[w] = "nil" /\ ~Cancelled /\ Saw(w)
          /\ UNCHANGED <<failure, inner>>
       \/ /\ failure[w] = "nil"
          /\ failure' = [failure EXCEPT ![w] =
                           IF Cancelled THEN "canceled" ELSE "error"]
          /\ inner' = TRUE
          /\ UNCHANGED seen
       \/ failure[w] # "nil" /\ UNCHANGED <<seen, failure, inner>>
    /\ Release(hold[w], 1)
    /\ hold' = [hold EXCEPT ![w] = 0]
    /\ UNCHANGED <<ctx, queue, closed, producerVars, posted, parsed, outcome>>

\* mimeStreamBlocks.Read copies the block, in one call or several.
ParserRead ==
    /\ parsed = "run"
    /\ hold[Parser] # 0
    /\ Saw(Parser)
    /\ Release(hold[Parser], 1)
    /\ hold' = [hold EXCEPT ![Parser] = 0]
    /\ UNCHANGED <<ctx, inner, queue, closed, producerVars, failure, posted,
                   parsed, outcome>>

WriterExit(w) ==
    /\ w \notin posted
    /\ hold[w] = 0 /\ queue[w] = <<>> /\ closed[w]
    /\ posted' = posted \cup {w}
    /\ UNCHANGED <<ctx, inner, bufferVars, queue, closed, producerVars, hold,
                   seen, failure, parsed, outcome>>

\* An error of the parser cancels the message.
Mutant_NoCancel == ctx
ParserCancels == FALSE

ParserEnds(result) ==
    /\ parsed = "run"
    /\ parsed' = result
    /\ ctx'    = IF result = "ok" THEN ctx ELSE ParserCancels
    /\ UNCHANGED <<inner, bufferVars, queue, closed, producerVars,
                   consumerVars, outcome>>

\* The end of `ready' is the end of the message, or its error.
ParserEOF ==
    /\ hold[Parser] = 0 /\ queue[Parser] = <<>> /\ closed[Parser]
    /\ ParserEnds(IF serr = "nil" THEN "ok" ELSE "fail")

\* Read looks at its context only when it has no data left.
ParserCancelled ==
    /\ hold[Parser] = 0 /\ ~ctx
    /\ ParserEnds("fail")

\* The parser, or its own storage, fails; its block is not returned.
ParserFails == ParserEnds("fail")

\* The client is gone, or the pool closes.
Cancel ==
    /\ outcome = "none"
    /\ ctx
    /\ ctx' = FALSE
    /\ UNCHANGED <<inner, bufferVars, queue, closed, producerVars,
                   consumerVars, parsed, outcome>>

-----------------------------------------------------------------------------
Producer ==
    \/ Take \/ TakeCancelled \/ ReadData \/ ReadEmpty \/ Offer \/ Send
    \/ SendCancelled \/ Drop \/ CloseQueues \/ Received \/ Decide
    \/ \E w \in Writer : Collect(w)
WriterStep(w) ==
    Receive(w) \/ WriterWrite(w) \/ WriterExit(w)
ParserStep ==
    \/ Receive(Parser) \/ ParserRead \/ ParserEOF \/ ParserCancelled

Next ==
    \/ Producer
    \/ \E w \in Writer : WriterStep(w)
    \/ ParserStep
    \/ ParserFails
    \/ Cancel

Spec == Init /\ [][Next]_vars

\* A read ends by its deadline, a write to the object store by its timeout,
\* and goroutines run.  Nothing makes the parser fail or the client leave.
FairSpec == /\ Spec
            /\ WF_vars(Producer)
            /\ WF_vars(ParserStep)
            /\ \A w \in Writer : WF_vars(WriterStep(w))

-----------------------------------------------------------------------------
(* Properties *)

\* The types of all variables.
TypeOK ==
    /\ {ctx, inner} \subseteq BOOLEAN
    /\ free \in Seq(Buffers)
    /\ content \in [Buffers -> 0..MaxBlock]
    /\ data \in [Block -> Buffers \cup {0}]
    /\ refs \in [Block -> Nat]
    /\ queue \in [Consumer -> Seq(Block)]
    /\ \A c \in Consumer : Len(queue[c]) <= Cap
    /\ closed \in [Consumer -> BOOLEAN]
    /\ pc \in {"take", "read", "offer", "send", "drop", "close", "collect",
               "done"}
    /\ n \in 0..MaxBlock /\ cur \in Buffers \cup {0}
    /\ e \in {"nil", "eof", "error"} /\ k \in Consumer
    /\ empty \in Nat
    /\ {err, serr} \subseteq Errors
    /\ hold \in [Consumer -> 0..MaxBlock]
    /\ seen \in [Consumer -> Seq(0..MaxBlock)]
    /\ failure \in [Writer -> Errors]
    /\ collected \subseteq posted /\ posted \subseteq Writer
    /\ parsed \in {"run", "ok", "fail"}
    /\ outcome \in {"none", "commit", "fail"}

\* Who still has a claim on the block x: the consumers that wait for it or
\* work on it, and receive while it dispatches.
Holders(x) ==
    {c \in Consumer : hold[c] = x \/ x \in Range(queue[c])}
        \cup (IF x = n /\ pc \in {"offer", "send", "drop"} THEN {0} ELSE {})
        \cup (IF x = n /\ pc = "send" THEN {-1} ELSE {})

\* "Each block is reused only after all consumers finish" (README.md:826): a
\* block that somebody still holds keeps its content while the others, and
\* receive, go on, fail or are cancelled.
BlocksIntact ==
    \A x \in Block : Holders(x) # {} => content[data[x]] = x

\* The count of references is the number of holders at every moment, on the
\* cancelled paths too: no buffer is lost to the rotation and none returns
\* twice, which would block the releasing consumer on a full channel.
RefsExact ==
    \A x \in Block : refs[x] = Cardinality(Holders(x))

\* A message is committed only when the uploader, the digest and the parser
\* have all seen every block of it in order, to the end of the input: no
\* order of failures and cancellations makes a truncated message pass.
CommitWhole ==
    outcome = "commit" =>
        /\ e = "eof"
        /\ \A c \in Consumer : seen[c] = [j \in 1..n |-> j]

\* Whoever fails, everybody stops: receive does not wait for a consumer that
\* is gone, nor a consumer for blocks that will not come.
PipelineEnds == <>(outcome # "none")
=============================================================================
